--------------------------- MODULE IntercomSystem ---------------------------
(***************************************************************************)
(* The registry of calls and scripts, pjs_intercom_system                  *)
(* (src/intercom/pjs_intercom.cpp): m_calls maps the SIP stack's call      *)
(* identifiers to script ids, m_scripts maps script ids to script objects. *)
(* The SIP stack's threads, the timer thread, the main Lua script and the  *)
(* thread that shuts the program down work on it.                          *)
(*                                                                         *)
(* A critical section under m_scripts_mutex is one step; everything a      *)
(* handler does outside the mutex (reading is_started(), hanging up calls  *)
(* it has collected, deleting scripts) is a step of its own.               *)
(*                                                                         *)
(* ScriptThread shows one script in detail; here a script has the phases   *)
(* of its thread and stop() is one step of whoever holds the mutex.        *)
(*                                                                         *)
(* Of the SIP stack (the vendored pjsua) there is what the registry meets: *)
(* a fixed set of call slots that are reused, and a DISCONNECTED callback  *)
(* for every call that ends.  A call of the stack has a number of its own, *)
(* which the program never sees.                                           *)
(***************************************************************************)
EXTENDS Naturals, FiniteSets

CONSTANTS CallIds,     \* pjsua's call identifiers
          MaxCalls,    \* bound: calls in a behaviour
          MaxThreads,  \* bound: create_thread() calls in a behaviour
          MaxBoth      \* bound: both together

ASSUME SystemAssumption ==
    IsFiniteSet(CallIds) /\ {MaxCalls, MaxThreads, MaxBoth} \subseteq Nat

MaxSid == MaxBoth                   \* no call gets two scripts
Sids == 1..MaxSid
NoSid == 0                          \* no entry in m_calls

VARIABLES started,    \* m_started
          nextSid,    \* m_scripts_id, the last id given out
          scripts,    \* the keys of m_scripts
          calls,      \* m_calls
          sc,         \* the script objects
          freed,      \* how often each script object was deleted
          pj,         \* pjsua: state of each call slot
          pjno,       \* pjsua: which call occupies, or last occupied, the slot
          calls_made, \* calls of the stack so far (bounds the model)
          threads_made, \* create_thread() calls so far (bounds the model)
          ipc,        \* progress of on_incoming_call for the slot's call
          lpc, lset, lno, \* the main Lua script inside an interface call
          tmpc, tbatch, tset,   \* the timer thread inside timer()
          mpc, mbatch, mdel     \* the thread that calls start() and stop()

registry  == <<nextSid, scripts, calls>>
pjVars    == <<pj, pjno, calls_made>>
luaVars   == <<lpc, lset, lno, threads_made>>
timerVars == <<tmpc, tbatch, tset>>
mainVars  == <<mpc, mbatch, mdel>>
vars == <<started, registry, sc, freed, pjVars, ipc, luaVars, timerVars, mainVars>>

\* The phases of a script's thread; "failed" when it could not be created.
Running == {"spawned", "ready", "lua", "ending", "hangup"}
Phases  == Running \cup {"none", "failed", "completed"}

Script == [kind : {"call", "thread"}, call : CallIds \cup {NoSid},
           no : Nat, inbound : BOOLEAN, run : Phases,
           active : BOOLEAN, exit : BOOLEAN, hooked : BOOLEAN]

NoScript == [kind |-> "thread", call |-> NoSid, no |-> 0, inbound |-> FALSE,
             run |-> "none", active |-> FALSE, exit |-> FALSE, hooked |-> FALSE]

TypeOK ==
    /\ started \in BOOLEAN
    /\ nextSid \in 0..MaxSid
    /\ scripts \subseteq Sids
    /\ calls \in [CallIds -> Sids \cup {NoSid}]
    /\ sc \in [Sids -> Script]
    /\ freed \in [Sids -> Nat]
    /\ pj \in [CallIds -> {"free", "live", "ended"}]
    /\ pjno \in [CallIds -> Nat]
    /\ calls_made \in 0..MaxCalls /\ threads_made \in 0..MaxThreads
    /\ calls_made + threads_made <= MaxBoth
    /\ ipc \in [CallIds -> {"none", "decide", "create"}]
    /\ lpc \in {"idle", "made", "create", "newthread", "hangtag", "exited"}
    /\ lset \subseteq CallIds /\ lno \in Nat
    /\ tmpc \in {"idle", "reap", "delete", "hangup"}
    /\ tbatch \subseteq Sids /\ tset \subseteq CallIds
    /\ mpc \in {"starting", "running", "hangup", "collect", "clear", "delete",
                "join", "down"}
    /\ mbatch \subseteq Sids /\ mdel \in Sids \cup {NoSid}

Init ==
    /\ started = FALSE /\ nextSid = 0 /\ scripts = {}
    /\ calls = [c \in CallIds |-> NoSid]
    /\ sc = [i \in Sids |-> NoScript]
    /\ freed = [i \in Sids |-> 0]
    /\ pj = [c \in CallIds |-> "free"] /\ pjno = [c \in CallIds |-> 0]
    /\ calls_made = 0 /\ threads_made = 0
    /\ ipc = [c \in CallIds |-> "none"]
    /\ lpc = "idle" /\ lset = {} /\ lno = 0
    /\ tmpc = "idle" /\ tbatch = {} /\ tset = {}
    /\ mpc = "starting" /\ mbatch = {} /\ mdel = NoSid

-----------------------------------------------------------------------------
(* Helpers *)

\* Mutant: stop() does not set the terminate hook.
StopNoHook(r) == IF r.run \in Running THEN [r EXCEPT !.active = FALSE, !.exit = TRUE] ELSE r

\* pjs_intercom_script::stop(): nothing on a script without a running thread;
\* the hook only reaches a Lua state that exists.
Stop(r) == IF r.run \in Running
             THEN [r EXCEPT !.active = FALSE, !.exit = TRUE,
                            !.hooked = @ \/ r.run = "lua"]
             ELSE r

\* get_call(): the call's script, if m_calls and m_scripts both know it.
HasCall(c) == calls[c] \in scripts

\* pjsua_call_hangup on a set of slots: a live call ends, anything else is
\* refused, as is a call whose dialog on_incoming_call still holds.
HangUp(S) == [c \in CallIds |-> IF c \in S /\ pj[c] = "live" /\ ipc[c] = "none"
                                  THEN "ended" ELSE pj[c]]

\* The constructor starts the thread.  It may fail; and the thread may get to
\* is_ready() before its handle is stored, and then goes straight to its end.
NewCallScript(c, n, inb, start) ==
    [kind |-> "call", call |-> c, no |-> n, inbound |-> inb, run |-> start,
     active |-> (start # "failed"), exit |-> FALSE, hooked |-> FALSE]

NewThreadScript(start) == [NoScript EXCEPT !.run = start]

Starts == {"spawned", "ending", "failed"}

\* Mutant: a call that already exists is overwritten and its script forgotten.
RegisterCallKeepsOld(c, n, inb, start) ==
    LET sid == nextSid + 1
    IN  /\ nextSid' = sid
        /\ scripts' = scripts \cup {sid}
        /\ calls' = [calls EXCEPT ![c] = sid]
        /\ sc' = [sc EXCEPT ![sid] = NewCallScript(c, n, inb, start)]

\* create_call's critical section for call number n in slot c.
RegisterCall(c, n, inb, start) ==
    LET sid == nextSid + 1
        old == calls[c]
    IN  /\ nextSid' = sid
        /\ scripts' = scripts \cup {sid}
        /\ calls' = [calls EXCEPT ![c] = sid]
        /\ sc' = [i \in Sids |->
                    IF i = sid THEN NewCallScript(c, n, inb, start)
                    ELSE IF i = old /\ old \in scripts /\ sc[i].kind = "call"
                      THEN Stop(sc[i]) ELSE sc[i]]

-----------------------------------------------------------------------------
(* The SIP stack and its callbacks *)

WithinBounds == calls_made + threads_made < MaxBoth

NewCall(c) ==
    /\ pj[c] = "free" /\ calls_made < MaxCalls /\ WithinBounds
    /\ pj' = [pj EXCEPT ![c] = "live"]
    /\ pjno' = [pjno EXCEPT ![c] = calls_made + 1]
    /\ calls_made' = calls_made + 1

\* An INVITE arrives; the stack calls on_incoming_call with the dialog locked.
IncomingCall(c) ==
    /\ mpc # "down"
    /\ NewCall(c)
    /\ ipc' = [ipc EXCEPT ![c] = "decide"]
    /\ UNCHANGED <<started, registry, sc, freed, luaVars, timerVars, mainVars>>

\* create_call looks at is_started() before it takes the mutex; a refused call
\* is hung up with 503 by this very thread.  The call of an account that is none of
\* m_acc_id is left alone: it stays without a script, and nobody hangs it up.
IncomingDecide(c) ==
    /\ ipc[c] = "decide"
    /\ \/ /\ started
          /\ ipc' = [ipc EXCEPT ![c] = "create"] /\ pj' = pj
       \/ /\ ~started
          /\ ipc' = [ipc EXCEPT ![c] = "none"] /\ pj' = [pj EXCEPT ![c] = "ended"]
       \/ ipc' = [ipc EXCEPT ![c] = "none"] /\ pj' = pj
    /\ UNCHANGED <<started, registry, sc, freed, pjno, calls_made, luaVars,
                   timerVars, mainVars>>

IncomingCreate(c) ==
    /\ ipc[c] = "create"
    /\ \E start \in Starts : RegisterCall(c, pjno[c], TRUE, start)
    /\ ipc' = [ipc EXCEPT ![c] = "none"]
    /\ UNCHANGED <<started, freed, pjVars, luaVars, timerVars, mainVars>>

\* The remote side, or a failing transaction, ends a call.
RemoteEnd(c) ==
    /\ pj[c] = "live" /\ ipc[c] = "none"
    /\ pj' = [pj EXCEPT ![c] = "ended"]
    /\ UNCHANGED <<started, registry, sc, freed, pjno, calls_made, ipc, luaVars,
                   timerVars, mainVars>>

\* Mutant: the end of a call forgets it and leaves its script alone.
OnCallStateNoStop(c) ==
    /\ pj[c] = "ended"
    /\ calls' = [calls EXCEPT ![c] = NoSid]
    /\ pj' = [pj EXCEPT ![c] = "free"]
    /\ UNCHANGED <<started, nextSid, scripts, sc, freed, pjno, calls_made, ipc,
                   luaVars, timerVars, mainVars>>

\* on_call_state with DISCONNECTED: stop the script, forget the call; then the
\* stack frees the slot.
OnCallState(c) ==
    /\ pj[c] = "ended"
    /\ sc' = [i \in Sids |-> IF HasCall(c) /\ i = calls[c] THEN Stop(sc[i]) ELSE sc[i]]
    /\ calls' = [calls EXCEPT ![c] = NoSid]
    /\ pj' = [pj EXCEPT ![c] = "free"]
    /\ UNCHANGED <<started, nextSid, scripts, freed, pjno, calls_made, ipc,
                   luaVars, timerVars, mainVars>>

\* on_dtmf_digit and on_call_media_state: get_call() drops a stale entry.
OnCallEvent(c) ==
    /\ pj[c] = "live" /\ ipc[c] = "none"
    /\ calls[c] # NoSid /\ ~HasCall(c)
    /\ calls' = [calls EXCEPT ![c] = NoSid]
    /\ UNCHANGED <<started, nextSid, scripts, sc, freed, pjVars, ipc, luaVars,
                   timerVars, mainVars>>

\* on_call_media_state with PJSUA_CALL_MEDIA_ERROR ends the call as RemoteEnd.

-----------------------------------------------------------------------------
(* The main Lua script *)

\* make_call: the call exists, and may end, before create_call registers it.
MakeCall(c) ==
    /\ lpc = "idle" /\ mpc # "down"
    /\ NewCall(c)
    /\ lpc' = "made" /\ lset' = {c} /\ lno' = calls_made + 1
    /\ UNCHANGED <<started, registry, sc, freed, ipc, threads_made, timerVars, mainVars>>

MakeDecide ==
    /\ lpc = "made"
    /\ lpc' = IF started THEN "create" ELSE "hangtag"
    /\ UNCHANGED <<started, registry, sc, freed, pjVars, ipc, lset, lno,
                   threads_made, timerVars, mainVars>>

MakeCreate ==
    /\ lpc = "create"
    /\ \E c \in lset, start \in Starts : RegisterCall(c, lno, FALSE, start)
    /\ lpc' = "idle" /\ lset' = {}
    /\ UNCHANGED <<started, freed, pjVars, ipc, lno, threads_made, timerVars, mainVars>>

\* hangup_calls_by_tag: collect the active calls with the tag under the mutex
\* (the tag is a number the scripts choose and change: any of them) ...
CollectByTag ==
    /\ lpc = "idle"
    /\ lset' \in SUBSET {c \in CallIds : HasCall(c) /\ sc[calls[c]].kind = "call"
                                                  /\ sc[calls[c]].active}
    /\ lset' # {}
    /\ lpc' = "hangtag"
    /\ UNCHANGED <<started, registry, sc, freed, pjVars, ipc, lno, threads_made,
                   timerVars, mainVars>>

\* ... and hang up after it.  Also the hangup of a make_call that was refused.
HangupCollected ==
    /\ lpc = "hangtag"
    /\ pj' = HangUp(lset)
    /\ lpc' = "idle" /\ lset' = {}
    /\ UNCHANGED <<started, registry, sc, freed, pjno, calls_made, ipc, lno,
                   threads_made, timerVars, mainVars>>

\* create_thread.
ThreadDecide ==
    /\ lpc = "idle" /\ threads_made < MaxThreads /\ WithinBounds
    /\ started
    /\ lpc' = "newthread" /\ threads_made' = threads_made + 1
    /\ UNCHANGED <<started, registry, sc, freed, pjVars, ipc, lset, lno,
                   timerVars, mainVars>>

\* Mutant: only the first script takes a new id, later threads reuse the last one.
ThreadCreateOldId ==
    /\ lpc = "newthread"
    /\ \E sid \in {nextSid, 1} :
         /\ sid = 1 <=> nextSid <= 1
         /\ \E start \in Starts : sc' = [sc EXCEPT ![sid] = NewThreadScript(start)]
         /\ nextSid' = sid
         /\ scripts' = scripts \cup {sid}
    /\ lpc' = "idle"
    /\ UNCHANGED <<started, calls, freed, pjVars, ipc, lset, lno, threads_made,
                   timerVars, mainVars>>

ThreadCreate ==
    /\ lpc = "newthread"
    /\ \E start \in Starts :
         sc' = [sc EXCEPT ![nextSid + 1] = NewThreadScript(start)]
    /\ nextSid' = nextSid + 1
    /\ scripts' = scripts \cup {nextSid + 1}
    /\ lpc' = "idle"
    /\ UNCHANGED <<started, calls, freed, pjVars, ipc, lset, lno, threads_made,
                   timerVars, mainVars>>

-----------------------------------------------------------------------------
(* The script threads *)

ScriptStep(i, from, to) ==
    /\ sc[i].run = from
    /\ sc' = [sc EXCEPT ![i].run = to]
    /\ UNCHANGED <<started, registry, freed, pjVars, ipc, luaVars, timerVars, mainVars>>

\* is_ready(): a call that was stopped meanwhile does not start its script.
ScriptReady(i) ==
    ScriptStep(i, "spawned",
               IF sc[i].kind = "thread" \/ sc[i].active THEN "ready" ELSE "ending")

ScriptCreateLua(i) == ScriptStep(i, "ready", "lua")

\* The script returns, fails, takes its quit message or hits the hook.
ScriptFinish(i) == ScriptStep(i, "lua", "ending")

\* i_on_thread_end looks at m_call_is_active ...
ScriptEnd(i) ==
    ScriptStep(i, "ending",
               IF sc[i].kind = "call" /\ sc[i].active THEN "hangup" ELSE "completed")

\* ... and then hangs up whatever call has the identifier now.
ScriptHangup(i) ==
    /\ sc[i].run = "hangup"
    /\ sc' = [sc EXCEPT ![i].run = "completed"]
    /\ pj' = HangUp({sc[i].call})
    /\ UNCHANGED <<started, registry, freed, pjno, calls_made, ipc, luaVars,
                   timerVars, mainVars>>

HookEnds(i) == sc[i].hooked /\ ScriptFinish(i)

ScriptThread(i) == ScriptReady(i) \/ ScriptCreateLua(i) \/ ScriptEnd(i) \/ ScriptHangup(i)

-----------------------------------------------------------------------------
(* The timer thread *)

\* timer() looks at is_started() before it takes the mutex.
TimerFires ==
    /\ tmpc = "idle" /\ started
    /\ tmpc' = "reap"
    /\ UNCHANGED <<started, registry, sc, freed, pjVars, ipc, luaVars, tbatch, tset, mainVars>>

\* Mutant: completed scripts are deleted and stay in m_scripts.
TimerReapKeeps ==
    /\ tmpc = "reap"
    /\ tbatch' = {i \in scripts : sc[i].run = "completed"}
    /\ tmpc' = "delete"
    /\ UNCHANGED <<started, registry, sc, freed, pjVars, ipc, luaVars, tset, mainVars>>

TimerReap ==
    /\ tmpc = "reap"
    /\ tbatch' = {i \in scripts : sc[i].run = "completed"}
    /\ scripts' = scripts \ tbatch'
    /\ tmpc' = "delete"
    /\ UNCHANGED <<started, nextSid, calls, sc, freed, pjVars, ipc, luaVars, tset, mainVars>>

\* delete: the script has completed, so its destructor's stop() does nothing
\* and its join returns.
TimerDelete(i) ==
    /\ tmpc = "delete" /\ i \in tbatch
    /\ freed' = [freed EXCEPT ![i] = @ + 1]
    /\ tbatch' = tbatch \ {i}
    /\ UNCHANGED <<started, registry, sc, pjVars, ipc, luaVars, tmpc, tset, mainVars>>

\* check_calls_media: collect the calls without RTP for 30 s under the mutex.
TimerCheckMedia ==
    /\ tmpc = "delete" /\ tbatch = {}
    /\ tset' \in SUBSET {c \in CallIds : calls[c] # NoSid /\ pj[c] = "live"}
    /\ tmpc' = "hangup"
    /\ UNCHANGED <<started, registry, sc, freed, pjVars, ipc, luaVars, tbatch, mainVars>>

TimerHangup ==
    /\ tmpc = "hangup"
    /\ pj' = HangUp(tset)
    /\ tset' = {} /\ tmpc' = "idle"
    /\ UNCHANGED <<started, registry, sc, freed, pjno, calls_made, ipc, luaVars,
                   tbatch, mainVars>>

-----------------------------------------------------------------------------
(* start() and stop() *)

\* The last statement of start(); the main script and the SIP stack run already.
StartDone ==
    /\ mpc = "starting"
    /\ started' = TRUE /\ mpc' = "running"
    /\ UNCHANGED <<registry, sc, freed, pjVars, ipc, luaVars, timerVars, mbatch, mdel>>

StopSystem ==
    /\ mpc = "running"
    /\ started' = FALSE /\ mpc' = "hangup"
    /\ UNCHANGED <<registry, sc, freed, pjVars, ipc, luaVars, timerVars, mbatch, mdel>>

HangupAll ==
    /\ mpc = "hangup"
    /\ pj' = HangUp(CallIds)
    /\ mpc' = "collect"
    /\ UNCHANGED <<started, registry, sc, freed, pjno, calls_made, ipc, luaVars,
                   timerVars, mbatch, mdel>>

\* First critical section of clean_system: forget all calls, stop all scripts.
CollectScripts ==
    /\ mpc = "collect"
    /\ calls' = [c \in CallIds |-> NoSid]
    /\ mbatch' = scripts
    /\ sc' = [i \in Sids |-> IF i \in scripts THEN Stop(sc[i]) ELSE sc[i]]
    /\ mpc' = "clear"
    /\ UNCHANGED <<started, nextSid, scripts, freed, pjVars, ipc, luaVars, timerVars, mdel>>

\* Second critical section: forget all scripts.
ClearScripts ==
    /\ mpc = "clear"
    /\ scripts' = {}
    /\ mpc' = "delete"
    /\ UNCHANGED <<started, nextSid, calls, sc, freed, pjVars, ipc, luaVars,
                   timerVars, mbatch, mdel>>

\* delete one collected script: its destructor stops it once more ...
DeleteStop(i) ==
    /\ mpc = "delete" /\ mdel = NoSid /\ i \in mbatch
    /\ sc' = [sc EXCEPT ![i] = Stop(@)]
    /\ mdel' = i
    /\ UNCHANGED <<started, registry, freed, pjVars, ipc, luaVars, timerVars, mpc, mbatch>>

\* Mutant: the destructor does not wait for the thread.
DeleteNoJoin ==
    /\ mpc = "delete" /\ mdel # NoSid
    /\ freed' = [freed EXCEPT ![mdel] = @ + 1]
    /\ mbatch' = mbatch \ {mdel} /\ mdel' = NoSid
    /\ UNCHANGED <<started, registry, sc, pjVars, ipc, luaVars, timerVars, mpc>>

\* ... and joins its thread, if it has one.
DeleteJoin ==
    /\ mpc = "delete" /\ mdel # NoSid
    /\ sc[mdel].run \notin Running
    /\ freed' = [freed EXCEPT ![mdel] = @ + 1]
    /\ mbatch' = mbatch \ {mdel} /\ mdel' = NoSid
    /\ UNCHANGED <<started, registry, sc, pjVars, ipc, luaVars, timerVars, mpc>>

\* "All calls scripts deleted": the main script is told to exit.
DeleteDone ==
    /\ mpc = "delete" /\ mbatch = {}
    /\ mpc' = "join"
    /\ UNCHANGED <<started, registry, sc, freed, pjVars, ipc, luaVars, timerVars,
                   mbatch, mdel>>

\* The main script ends when it is not inside an interface call; the rest of
\* the system is torn down after it: the timer thread is joined with m_global,
\* the SIP stack is destroyed last.
SystemDown ==
    /\ mpc = "join" /\ lpc = "idle" /\ tmpc = "idle"
    /\ mpc' = "down" /\ lpc' = "exited"
    /\ UNCHANGED <<started, registry, sc, freed, pjVars, ipc, lset, lno,
                   threads_made, timerVars, mbatch, mdel>>

Finished == mpc = "down" /\ UNCHANGED vars

-----------------------------------------------------------------------------
SipStack(c) == \/ IncomingCall(c) \/ IncomingDecide(c) \/ IncomingCreate(c)
               \/ RemoteEnd(c) \/ OnCallState(c) \/ OnCallEvent(c)

LuaGoesOn == MakeDecide \/ MakeCreate \/ HangupCollected \/ ThreadCreate

MainScript == \/ \E c \in CallIds : MakeCall(c)
              \/ CollectByTag \/ ThreadDecide \/ LuaGoesOn

Timer == \/ TimerFires \/ TimerReap \/ TimerCheckMedia \/ TimerHangup
         \/ \E i \in Sids : TimerDelete(i)

StopGoesOn == \/ HangupAll \/ CollectScripts \/ ClearScripts
              \/ \E i \in Sids : DeleteStop(i)
              \/ DeleteJoin \/ DeleteDone \/ SystemDown

Next == \/ \E c \in CallIds : SipStack(c)
        \/ MainScript \/ Timer
        \/ StartDone \/ StopSystem \/ StopGoesOn
        \/ \E i \in Sids : ScriptThread(i) \/ ScriptFinish(i)
        \/ Finished

Spec == Init /\ [][Next]_vars

\* The timer thread polls its heap, script threads are scheduled, the thread in
\* stop() goes on, the stack delivers the end of a call and calls back into the
\* program, and the main script returns from its interface calls.  A Lua
\* program is only bound to end under its terminate hook: a script's thread when
\* stop() has set it, the main script once the shutdown waits for it (it gets
\* its hook after 5 s), even if it keeps calling the interface until then.
Fairness ==
    /\ WF_vars(Timer)
    /\ \A i \in Sids : WF_vars(ScriptThread(i)) /\ WF_vars(HookEnds(i))
    /\ WF_vars(StartDone) /\ WF_vars(StopGoesOn) /\ SF_vars(SystemDown)
    /\ \A c \in CallIds : WF_vars(IncomingDecide(c) \/ IncomingCreate(c) \/ OnCallState(c))
    /\ WF_vars(LuaGoesOn)

FairSpec == Spec /\ Fairness

-----------------------------------------------------------------------------
(* Properties *)

\* A script that m_scripts still knows has not been deleted: what get_call() and
\* get_script() return under the mutex is never a dangling pointer, whatever the
\* timer and the shutdown delete outside it.
RegisteredNotFreed == \A i \in scripts : freed[i] = 0

\* m_calls keeps ids of scripts that are long gone, and get_call() casts what it
\* finds without a check: an id that still resolves is a call's script, of the
\* very call identifier it is listed under.
CallsResolveToOwnCall ==
    \A c \in CallIds : HasCall(c) =>
        sc[calls[c]].kind = "call" /\ sc[calls[c]].call = c

\* A script that has a thread to be stopped.
Unstopped(i) == sc[i].run \in Running /\ ~sc[i].exit

\* Every call script that nobody has stopped can be reached through m_calls, so
\* the end of its call will find it; a second call on the same identifier stops
\* the first one's script rather than lose it.
UnstoppedCallIsMapped ==
    \A i \in scripts : sc[i].kind = "call" /\ Unstopped(i) => calls[sc[i].call] = i

\* The script of an incoming call does not outlive the call: while it is not
\* stopped, its own call occupies the slot (on_incoming_call registers it before
\* the stack can report the call's end).
NoOrphanIncoming ==
    \A i \in scripts : sc[i].inbound /\ Unstopped(i) =>
        /\ pj[sc[i].call] # "free"
        /\ pjno[sc[i].call] = sc[i].no

\* While the system is started, scripts leave the registry only when their
\* threads have completed.
LeavesCompleted ==
    [][started' => \A i \in scripts \ scripts' : sc[i].run = "completed"]_vars

\* The life of each script is that of ScriptLife: above all, an object is only
\* deleted when its thread has completed or never began.
Phase(i) == IF freed[i] > 0 THEN "deleted"
            ELSE IF sc[i].run \in {"none", "failed"} THEN "new"
            ELSE IF sc[i].run = "completed" THEN "completed" ELSE "running"

Life(i) == INSTANCE ScriptLife WITH phase <- Phase(i), stopped <- sc[i].exit

\* (\A i \in Sids : Life(i)!Spec, with the quantifier inside.)
ImplementsScriptLife ==
    /\ \A i \in Sids : Life(i)!Init
    /\ [][\A i \in Sids : [Life(i)!Next]_(Life(i)!vars)]_vars

\* A stop reaches a script after is_ready() and before its Lua state exists (a
\* script of create_thread has no other test), so that it cannot be hooked.
Missed == \E i \in Sids :
    sc[i].exit /\ (sc[i].run = "ready" \/ (sc[i].run = "spawned" /\ sc[i].kind = "thread"))

\* stop() comes to its end, unless a stop misses a script's Lua state.
ShutdownEnds == []~Missed => (mpc = "hangup" ~> mpc = "down")

\* What clean_system logs after it has deleted what it collected:
\* "All calls scripts deleted".
AllCallsScriptsDeleted ==
    mpc \in {"join", "down"} =>
        \A i \in Sids : sc[i].kind = "call" /\ sc[i].run # "none" => freed[i] > 0
=============================================================================
