---------------------------- MODULE ScriptThread ----------------------------
(***************************************************************************)
(* One script object, pjs_intercom_script with its subclasses              *)
(* pjs_intercom_call and pjs_intercom_script_final                         *)
(* (src/intercom/pjs_intercom.h and .cpp), from its constructor to its     *)
(* destructor.                                                             *)
(*                                                                         *)
(* Two processes act on the object.  The owner is whoever holds the        *)
(* registry's m_scripts_mutex, or has taken the script out of the registry *)
(* to delete it.  There is one owner at a time here, so constructor,       *)
(* stop() and destructor do not overlap; the case in which timer and       *)
(* shutdown delete one script both is in IntercomSystem (freed = 2) and    *)
(* not in this module.  The script's own thread runs beside the owner      *)
(* without that mutex.  Both use m_script_mutex, only ever over a single   *)
(* step, so it has no variable.                                            *)
(***************************************************************************)
EXTENDS Naturals

VARIABLES kind,       \* "call" (pjs_intercom_call) or "thread" (.._final)
          prog,       \* what the Lua main function does next, see LuaPrograms
          opc,        \* where the owner is
          ret,        \* where stop() returns to
          tpc,        \* where the script's thread is
          handle,     \* m_script_thread is not NULL
          pool,       \* m_pool is not NULL
          parts,      \* m_lua_call and m_master_vr exist
          active,     \* m_call_is_active (always TRUE for a "thread")
          exit,       \* m_script_exit
          completed,  \* m_script_thread_completed
          lua,        \* the Lua state: "none", "alive" or "deleted"
          mscript,    \* m_script is not NULL
          hooked,     \* pjs_lua::terminate() has set the terminate hook
          quit,       \* IM_QUIT is in the script's message queue
          cleared,    \* the script has thrown away a quit request
          hung        \* the thread has hung up its call with 503

ownerVars  == <<opc, ret, handle, pool, parts>>
threadVars == <<tpc, prog, completed, lua, mscript, cleared, hung>>
flagVars   == <<active, exit, hooked, quit>>
scriptVars == <<kind, ownerVars, threadVars, flagVars>>

LuaPrograms ==
    {"returns",   \* comes to an end by itself (sleeps and prompts end at exit)
     "spin",      \* outgoing call: polls get_state() until CONFIRMED
     "clear",     \* incoming call: about to clear its queue before the menu
     "ivr"}       \* call_ivr: loops until it takes IM_QUIT

StopSteps  == {"stop_check", "stop_port", "stop_hook", "stop_active",
               "stop_exit", "stop_quit"}
OwnerSteps == {"spawn", "assign", "failed", "idle", "clean", "join", "release",
               "gone"} \cup StopSteps
ThreadSteps == {"none", "begin", "ready", "ready2", "create", "run", "null",
                "delete", "end", "hangup", "last", "complete", "exited"}

ScriptTypeOK ==
    /\ kind \in {"call", "thread"} /\ prog \in LuaPrograms
    /\ opc \in OwnerSteps /\ ret \in {"idle", "join"}
    /\ tpc \in ThreadSteps
    /\ lua \in {"none", "alive", "deleted"}
    /\ <<handle, pool, parts, mscript>> \in BOOLEAN \X BOOLEAN \X BOOLEAN \X BOOLEAN
    /\ <<active, exit, hooked, quit>> \in BOOLEAN \X BOOLEAN \X BOOLEAN \X BOOLEAN
    /\ <<completed, cleared, hung>> \in BOOLEAN \X BOOLEAN \X BOOLEAN

\* Inside the constructor, about to start the thread.  A script started with
\* create_thread runs whatever the user's script says.
ScriptInit ==
    /\ kind \in {"call", "thread"} /\ prog \in LuaPrograms
    /\ opc = "spawn" /\ ret = "idle" /\ tpc = "none"
    /\ handle = FALSE /\ pool = TRUE /\ parts = TRUE
    /\ active = TRUE /\ exit = FALSE /\ completed = FALSE
    /\ lua = "none" /\ mscript = FALSE
    /\ hooked = FALSE /\ quit = FALSE /\ cleared = FALSE /\ hung = FALSE

-----------------------------------------------------------------------------
(* Constructor *)

\* pj_thread_create starts the thread before it stores the handle.
SpawnThread ==
    /\ opc = "spawn" /\ tpc = "none"
    /\ tpc' = "begin"
    /\ opc' = "assign"
    /\ UNCHANGED <<kind, ret, handle, pool, parts, prog, completed, lua, mscript,
                   cleared, hung, flagVars>>

StoreHandle ==
    /\ opc = "assign"
    /\ handle' = TRUE
    /\ opc' = "idle"
    /\ UNCHANGED <<kind, ret, pool, parts, threadVars, flagVars>>

SpawnFails ==
    /\ opc = "spawn"
    /\ active' = FALSE
    /\ opc' = "failed"
    /\ UNCHANGED <<kind, ret, handle, pool, parts, threadVars, exit, hooked, quit>>

\* The constructor cleans up what it made; the object stays registered.
CleanFailed ==
    /\ opc = "failed"
    /\ parts' = FALSE /\ pool' = FALSE
    /\ opc' = "idle"
    /\ UNCHANGED <<kind, ret, handle, threadVars, flagVars>>

-----------------------------------------------------------------------------
(* stop(), one step per statement *)

\* The call ended, another call took its identifier, or the system shuts down.
StopBegin ==
    /\ opc = "idle"
    /\ opc' = "stop_check" /\ ret' = "idle"
    /\ UNCHANGED <<kind, handle, pool, parts, threadVars, flagVars>>

StopCheck ==
    /\ opc = "stop_check"
    /\ opc' = IF handle /\ ~completed
                THEN IF kind = "call" THEN "stop_port" ELSE "stop_hook"
                ELSE ret
    /\ UNCHANGED <<kind, ret, handle, pool, parts, threadVars, flagVars>>

\* i_before_terminate: m_lua_call->set_call_port(0).
StopPort ==
    /\ opc = "stop_port"
    /\ opc' = "stop_hook"
    /\ UNCHANGED <<kind, ret, handle, pool, parts, threadVars, flagVars>>

\* terminate_script, under m_script_mutex: only an existing state gets a hook.
StopHook ==
    /\ opc = "stop_hook"
    /\ hooked' = (hooked \/ mscript)
    /\ opc' = IF kind = "call" THEN "stop_active" ELSE "stop_exit"
    /\ UNCHANGED <<kind, ret, handle, pool, parts, threadVars, active, exit, quit>>

\* i_after_terminate.
StopActive ==
    /\ opc = "stop_active"
    /\ active' = FALSE
    /\ opc' = "stop_exit"
    /\ UNCHANGED <<kind, ret, handle, pool, parts, threadVars, exit, hooked, quit>>

\* m_script_exit = true and the event's broadcast.
StopExit ==
    /\ opc = "stop_exit"
    /\ exit' = TRUE
    /\ opc' = "stop_quit"
    /\ UNCHANGED <<kind, ret, handle, pool, parts, threadVars, active, hooked, quit>>

\* post_script_quit_message(), then i_on_stop (m_master_vr->stop()).
StopQuit ==
    /\ opc = "stop_quit"
    /\ quit' = TRUE
    /\ opc' = ret
    /\ UNCHANGED <<kind, ret, handle, pool, parts, threadVars, active, exit, hooked>>

-----------------------------------------------------------------------------
(* Destructor: clean() *)

\* The timer deletes completed scripts, shutdown deletes all it collected
\* (after a stop); a script whose thread never started waits for shutdown.
DeleteBegin ==
    /\ opc = "idle"
    /\ completed \/ exit \/ ~handle
    /\ opc' = "clean"
    /\ UNCHANGED <<kind, ret, handle, pool, parts, threadVars, flagVars>>

CleanStop ==
    /\ opc = "clean"
    /\ IF handle THEN opc' = "stop_check" /\ ret' = "join"
                 ELSE opc' = "release" /\ UNCHANGED ret
    /\ UNCHANGED <<kind, handle, pool, parts, threadVars, flagVars>>

\* Mutant: the destructor does not wait for the thread.
NoJoin ==
    /\ opc = "join"
    /\ handle' = FALSE
    /\ opc' = "release"
    /\ UNCHANGED <<kind, ret, pool, parts, threadVars, flagVars>>

JoinThread ==
    /\ opc = "join" /\ tpc = "exited"
    /\ handle' = FALSE
    /\ opc' = "release"
    /\ UNCHANGED <<kind, ret, pool, parts, threadVars, flagVars>>

\* i_on_clean and the release of m_pool.
Release ==
    /\ opc = "release"
    /\ parts' = FALSE /\ pool' = FALSE
    /\ opc' = "gone"
    /\ UNCHANGED <<kind, ret, handle, threadVars, flagVars>>

-----------------------------------------------------------------------------
(* script_thread_proc *)

ThreadOnly == UNCHANGED <<kind, ownerVars, flagVars>>

ThreadBegin ==
    /\ tpc = "begin"
    /\ mscript' = FALSE
    /\ tpc' = "ready"
    /\ ThreadOnly /\ UNCHANGED <<prog, completed, lua, cleared, hung>>

\* Mutant: is_ready() of a call forgets m_call_is_active.
ThreadReadyAlways ==
    /\ tpc = "ready"
    /\ tpc' = "ready2"
    /\ ThreadOnly /\ UNCHANGED <<prog, completed, lua, mscript, cleared, hung>>

\* is_ready() of a call reads m_call_is_active first ...
ThreadReady ==
    /\ tpc = "ready"
    /\ tpc' = IF active THEN "ready2" ELSE "end"
    /\ ThreadOnly /\ UNCHANGED <<prog, completed, lua, mscript, cleared, hung>>

\* ... then the pool and the handle, which the creator may not have stored yet.
ThreadReady2 ==
    /\ tpc = "ready2"
    /\ tpc' = IF pool /\ handle THEN "create" ELSE "end"
    /\ ThreadOnly /\ UNCHANGED <<prog, completed, lua, mscript, cleared, hung>>

CreateLua ==
    /\ tpc = "create"
    /\ lua' = "alive" /\ mscript' = TRUE
    /\ tpc' = "run"
    /\ ThreadOnly /\ UNCHANGED <<prog, completed, cleared, hung>>

\* The terminate hook raises an error at the next instruction.
LuaTerminated ==
    /\ tpc = "run" /\ hooked
    /\ tpc' = "null"
    /\ ThreadOnly /\ UNCHANGED <<prog, completed, lua, mscript, cleared, hung>>

\* The main function returns, or a script does not load or fails.
LuaReturns ==
    /\ tpc = "run" /\ prog = "returns"
    /\ tpc' = "null"
    /\ ThreadOnly /\ UNCHANGED <<prog, completed, lua, mscript, cleared, hung>>

LuaFails ==
    /\ tpc = "run"
    /\ tpc' = "null"
    /\ ThreadOnly /\ UNCHANGED <<prog, completed, lua, mscript, cleared, hung>>

\* get_state() of an inactive call is DISCONNECTED, so only an active call
\* leaves the polling loop; with option 1 it asks for confirmation first.
LuaConfirmed ==
    /\ tpc = "run" /\ prog = "spin" /\ active
    /\ prog' \in {"ivr", "returns"}
    /\ ThreadOnly /\ UNCHANGED <<tpc, completed, lua, mscript, cleared, hung>>

\* mqueue:clear() in pjs_incoming_call:main.
LuaClear ==
    /\ tpc = "run" /\ prog = "clear"
    /\ prog' = "ivr"
    /\ quit' = FALSE
    /\ cleared' = (cleared \/ quit)
    /\ UNCHANGED <<kind, ownerVars, tpc, completed, lua, mscript, hung,
                   active, exit, hooked>>

LuaQuit ==
    /\ tpc = "run" /\ prog = "ivr" /\ quit
    /\ quit' = FALSE
    /\ prog' = "returns"
    /\ UNCHANGED <<kind, ownerVars, tpc, completed, lua, mscript, cleared, hung,
                   active, exit, hooked>>

\* Mutant: the state is deleted while m_script still points to it.
DeleteLuaFirst ==
    /\ tpc = "null"
    /\ lua' = "deleted"
    /\ tpc' = "end"
    /\ ThreadOnly /\ UNCHANGED <<prog, completed, mscript, cleared, hung>>

\* m_script = NULL under m_script_mutex, then the state is deleted.
ClearScript ==
    /\ tpc = "null"
    /\ mscript' = FALSE
    /\ tpc' = "delete"
    /\ ThreadOnly /\ UNCHANGED <<prog, completed, lua, cleared, hung>>

DeleteLua ==
    /\ tpc = "delete"
    /\ lua' = "deleted"
    /\ tpc' = "end"
    /\ ThreadOnly /\ UNCHANGED <<prog, completed, mscript, cleared, hung>>

\* Mutant: only the calls that were stopped are hung up.
ThreadEndInverted ==
    /\ tpc = "end"
    /\ tpc' = IF kind = "call" /\ ~active THEN "hangup" ELSE "last"
    /\ ThreadOnly /\ UNCHANGED <<prog, completed, lua, mscript, cleared, hung>>

\* i_on_thread_end: a call that is still active is hung up with 503.
ThreadEnd ==
    /\ tpc = "end"
    /\ tpc' = IF kind = "call" /\ active THEN "hangup" ELSE "last"
    /\ ThreadOnly /\ UNCHANGED <<prog, completed, lua, mscript, cleared, hung>>

HangupCall ==
    /\ tpc = "hangup"
    /\ hung' = TRUE
    /\ tpc' = "last"
    /\ ThreadOnly /\ UNCHANGED <<prog, completed, lua, mscript, cleared>>

ThreadLast ==
    /\ tpc = "last"
    /\ mscript' = FALSE
    /\ tpc' = "complete"
    /\ ThreadOnly /\ UNCHANGED <<prog, completed, lua, cleared, hung>>

ThreadComplete ==
    /\ tpc = "complete"
    /\ completed' = TRUE
    /\ tpc' = "exited"
    /\ ThreadOnly /\ UNCHANGED <<prog, lua, mscript, cleared, hung>>

-----------------------------------------------------------------------------
OwnerGoesOn == \/ SpawnThread \/ StoreHandle \/ CleanFailed
               \/ StopCheck \/ StopPort \/ StopHook \/ StopActive \/ StopExit
               \/ StopQuit \/ CleanStop \/ JoinThread \/ Release

ThreadGoesOn == \/ ThreadBegin \/ ThreadReady \/ ThreadReady2 \/ CreateLua
                \/ LuaTerminated \/ LuaReturns \/ LuaClear \/ LuaQuit
                \/ ClearScript \/ DeleteLua \/ ThreadEnd \/ HangupCall
                \/ ThreadLast \/ ThreadComplete

\* The object is gone and nothing is left to do.
Gone == opc = "gone" /\ UNCHANGED scriptVars

ScriptNext == \/ OwnerGoesOn \/ ThreadGoesOn
              \/ SpawnFails \/ StopBegin \/ DeleteBegin \/ LuaFails \/ LuaConfirmed
              \/ Gone

ScriptSpec == ScriptInit /\ [][ScriptNext]_scriptVars

\* Both processes are threads of the program and are scheduled; nothing says
\* that the call is ever confirmed, that the script fails, or that anybody
\* stops or deletes it.
ScriptFairSpec == ScriptSpec /\ WF_scriptVars(OwnerGoesOn) /\ WF_scriptVars(ThreadGoesOn)

-----------------------------------------------------------------------------
(* Properties *)

\* stop() never sets a hook on a Lua state the thread has deleted: m_script is
\* cleared under m_script_mutex before the delete.
NoDanglingLua == mscript => lua = "alive"

\* A script that was stopped before its Lua state existed, so that no hook
\* could be set, has the quit request in its queue, unless its own
\* mqueue:clear() or its menu has taken it.
QuitWaitsForScript ==
    (exit /\ opc \in {"idle", "clean", "join"} /\ tpc \in {"create", "run"}
        /\ ~hooked /\ ~cleared /\ prog # "returns") => quit

\* A call whose script is over is not left up: it was stopped because the call
\* ended, or the thread has hung it up.
EndedScriptHangsUp == (completed /\ kind = "call" /\ active) => hung

\* A stop that no hook could follow: the thread had decided to run the script
\* and had not created the state yet.
OutOfReach ==
    /\ ~hooked
    /\ tpc \in {"ready2", "create", "run"} \cup
               (IF kind = "thread" THEN {"begin", "ready"} ELSE {})

\* A stopped script ends, whatever its Lua code does, except when the stop fell
\* into the gap between is_ready() and the creation of the Lua state.
StoppedScriptEnds == (exit /\ ~OutOfReach) ~> (tpc = "exited")

\* The phases of the object's life as others see them.
Phase == IF opc = "gone" THEN "deleted"
         ELSE IF completed THEN "completed"
         ELSE IF tpc = "none" THEN "new" ELSE "running"

Life == INSTANCE ScriptLife WITH phase <- Phase, stopped <- exit

ImplementsScriptLife == Life!Spec
=============================================================================
