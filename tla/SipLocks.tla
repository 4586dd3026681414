------------------------------- MODULE SipLocks -------------------------------
(***************************************************************************)
(* The locks that the threads of the intercom take on their way through    *)
(* pjs_intercom_system and pjsua, and the order they take them in:         *)
(* m_scripts_mutex of the system, pjsua's own lock (PJSUA_LOCK), and the   *)
(* lock of each call's dialog.  pjsua's two are recursive, m_scripts_mutex *)
(* (a pjs_simple_mutex) is not.                                            *)
(*                                                                         *)
(* A thread has the rest of its present operation before it, as a sequence *)
(* of steps; callbacks of pjsua run in the thread that caused them, which  *)
(* may be a thread of a script.  pjsua is the vendored one: it calls       *)
(* on_incoming_call() with PJSUA_LOCK held, on_call_state() and            *)
(* on_call_media_state() with the dialog's lock held, and takes PJSUA_LOCK *)
(* for a moment in nearly every function.                                  *)
(***************************************************************************)
EXTENDS Naturals, Sequences, SequencesExt

CONSTANTS
    Calls,          \* call ids; each also names the lock of its dialog
    Worker,         \* pjsua's thread (thread_cnt is 1)
    Timer,          \* the thread that calls timer()
    MainThread,     \* the thread of the main script
    CallThread,     \* the thread of a call's script
    Pjsua, Mutex,   \* PJSUA_LOCK and m_scripts_mutex
    NoThread,
    MaxOps          \* bound: operations that the threads begin

Threads == {Worker, Timer, MainThread, CallThread}
Locks == Calls \cup {Pjsua, Mutex}

ASSUME SipLocksAssumption ==
    /\ Pjsua # Mutex /\ {Pjsua, Mutex} \cap Calls = {}
    /\ NoThread \notin Threads /\ MaxOps \in Nat

VARIABLES
    todo,           \* per thread: the steps before it
    owner, depth,   \* per lock
    state,          \* per call of pjsua: "free", "up", or "over" when DISCONNECTED
    session,        \* its media session: "none", "live", or why it is no more
    registered,     \* m_calls: calls with an entry
    late,           \* history: made known to m_calls after their on_call_state()
    ops

vars == <<todo, owner, depth, state, session, registered, late, ops>>

Init ==
    /\ todo = [t \in Threads |-> <<>>]
    /\ owner = [l \in Locks |-> NoThread]
    /\ depth = [l \in Locks |-> 0]
    /\ state = [c \in Calls |-> "free"]
    /\ session = [c \in Calls |-> "none"]
    /\ registered = {}
    /\ late = {}
    /\ ops = 0

-----------------------------------------------------------------------------
(* The steps, and what the operations consist of.                          *)

Take(l) == [do |-> "take", on |-> l]
Give(l) == [do |-> "give", on |-> l]
Does(what, c) == [do |-> what, on |-> c]
Acquire(c, then) == [do |-> "acquire", on |-> c, then |-> then]

Within(l, steps) == <<Take(l)>> \o steps \o <<Give(l)>>
Asks == Within(Pjsua, <<>>)         \* pjsua_call_get_info() and many others

\* Mutant: the critical section of on_call_state() is not there.
OnCallStateUnlocked(c) == Asks \o <<Does("erase", c)>>

\* on_call_state(): the script is stopped and the call leaves m_calls.
OnCallState(c) == Asks \o Within(Mutex, <<Does("erase", c)>>)

\* pjsua_call_on_state_changed(): the call is given up after the callback.
CallOver(c) == OnCallState(c) \o Within(Pjsua, <<Does("free", c)>>)

\* Mutant: the mutex is kept when there is nothing to do for the call.
OnCallMediaStateKeeps(c) == Asks \o <<Take(Mutex), Does("connect", c)>>

\* on_call_media_state(): a call that has a script asks pjsua for its port and
\* for the other calls, and connects them, with the mutex held.
OnCallMediaState(c) == Asks \o Within(Mutex, <<Does("connect", c)>>)

\* pjsua_call_on_media_update(): the session is made anew.
MediaUpdate(c) == <<Does("stop_media", c), Does("start_media", c)>> \o OnCallMediaState(c)

Hangup(c) == Acquire(c, <<Does("end", c)>>)
CreateCall(c) == Within(Mutex, <<Does("register", c)>>)

\* Operations of the threads.
Incoming == <<Take(Pjsua), Does("admit", Pjsua)>>
MakeCall == <<Take(Pjsua), Does("dial", Pjsua)>>
Bye(c) == Within(c, <<Does("bye", c)>>)
ReInvite(c) == Within(c, <<Does("reinvite", c)>>)
Answer(c) == <<Acquire(c, MediaUpdate(c))>>
ConnectMain == Asks
TimerTurn == Within(Mutex, <<>>) \o Within(Mutex, <<Does("check_all", Mutex)>>)
HangupByTag == Within(Mutex, <<Does("pick", Mutex)>>)

\* Every step that any thread can have before it.
Steps ==
    [do : {"take", "give"}, on : Locks]
      \cup [do : {"bye", "reinvite", "end", "erase", "free", "register", "stop_media",
                   "start_media", "connect", "look", "use"}, on : Calls]
      \cup {Does("admit", Pjsua), Does("dial", Pjsua), Does("check_all", Mutex), Does("pick", Mutex)}
      \cup {Hangup(c) : c \in Calls} \cup {Acquire(c, MediaUpdate(c)) : c \in Calls}

Operations(t) ==
    CASE t = Worker -> LET up == {c \in Calls : state[c] = "up"}
                       IN  {Incoming} \cup {Bye(c) : c \in up} \cup {ReInvite(c) : c \in up}
      [] t = Timer -> {TimerTurn}
      [] t = MainThread -> {MakeCall, HangupByTag}
      [] t = CallThread -> {ConnectMain} \cup {<<Hangup(c)>> : c \in Calls}
                             \cup {Answer(c) : c \in {d \in Calls : session[d] = "none"}}

-----------------------------------------------------------------------------
(* What a thread does next.                                                *)

Step(t) == Head(todo[t])
Rest(t) == Tail(todo[t])
Free(l) == owner[l] = NoThread
CanTake(t, l) == Free(l) \/ (owner[l] = t /\ l # Mutex)
GoesOn(t, steps) == todo' = [todo EXCEPT ![t] = steps]
Is(t, what) == todo[t] # <<>> /\ Step(t).do = what

Took(t, l) ==
    /\ owner' = [owner EXCEPT ![l] = t]
    /\ depth' = [depth EXCEPT ![l] = @ + 1]

Begin(t) ==
    /\ todo[t] = <<>> /\ ops < MaxOps
    /\ ops' = ops + 1
    /\ \E steps \in Operations(t) : GoesOn(t, steps)
    /\ UNCHANGED <<owner, depth, state, session, registered, late>>

Lock(t) ==
    /\ Is(t, "take") /\ CanTake(t, Step(t).on)
    /\ Took(t, Step(t).on)
    /\ GoesOn(t, Rest(t))
    /\ UNCHANGED <<state, session, registered, late, ops>>

Unlock(t) ==
    LET l == Step(t).on
    IN  /\ Is(t, "give")
        /\ depth' = [depth EXCEPT ![l] = @ - 1]
        /\ owner' = [owner EXCEPT ![l] = IF depth[l] = 1 THEN NoThread ELSE @]
        /\ GoesOn(t, Rest(t))
        /\ UNCHANGED <<state, session, registered, late, ops>>

\* acquire_call() tries both locks again and again: it finds the call over, or
\* gets the dialog's lock, or gives up in the end while another thread has one.
AcquireCall(t) ==
    LET c == Step(t).on
    IN  /\ Is(t, "acquire")
        /\ \/ /\ CanTake(t, Pjsua) /\ CanTake(t, c) /\ state[c] # "free"
              /\ Took(t, c)
              /\ GoesOn(t, Step(t).then \o <<Give(c)>> \o Rest(t))
           \/ /\ CanTake(t, Pjsua) /\ state[c] = "free"
              /\ GoesOn(t, Rest(t))
              /\ UNCHANGED <<owner, depth>>
           \/ /\ ~CanTake(t, Pjsua) \/ ~CanTake(t, c)
              /\ GoesOn(t, Rest(t))
              /\ UNCHANGED <<owner, depth>>
        /\ UNCHANGED <<state, session, registered, late, ops>>

\* A call's id is given out again once the dialog it had is unlocked.
FreeIds == {c \in Calls : state[c] = "free" /\ Free(c)}

\* pjsua_call_on_incoming(): on_incoming_call() with PJSUA_LOCK held, which does nothing
\* for an account it does not know.
Admit(t) ==
    /\ Is(t, "admit")
    /\ \/ /\ FreeIds = {}
          /\ GoesOn(t, <<Give(Pjsua)>>)
          /\ UNCHANGED state
       \/ \E c \in FreeIds :
            /\ state' = [state EXCEPT ![c] = "up"]
            /\ \/ GoesOn(t, CreateCall(c) \o <<Give(Pjsua)>>)
               \/ GoesOn(t, <<Give(Pjsua)>>)
    /\ UNCHANGED <<owner, depth, session, registered, late, ops>>

\* pjsua_call_make_call(): the first request goes out with PJSUA_LOCK and the
\* lock of the new dialog held; if it cannot, the call is over at once.
Dial(t) ==
    /\ Is(t, "dial")
    /\ \/ /\ FreeIds = {}
          /\ GoesOn(t, <<Give(Pjsua)>>)
          /\ UNCHANGED <<state, owner, depth>>
       \/ \E c \in FreeIds :
            /\ Took(t, c)
            /\ \/ /\ state' = [state EXCEPT ![c] = "up"]
                  /\ GoesOn(t, <<Give(c), Give(Pjsua)>> \o CreateCall(c))
               \/ /\ state' = [state EXCEPT ![c] = "over"]
                  /\ GoesOn(t, CallOver(c) \o <<Give(c), Give(Pjsua)>>)
    /\ UNCHANGED <<session, registered, late, ops>>

\* The other side hangs up or changes the media; the call may be over by now.
ByeOrReInvite(t) ==
    LET c == Step(t).on
    IN  /\ Is(t, "bye") \/ Is(t, "reinvite")
        /\ IF state[c] # "up"
           THEN GoesOn(t, Rest(t)) /\ UNCHANGED state
           ELSE IF Step(t).do = "bye"
           THEN /\ state' = [state EXCEPT ![c] = "over"]
                /\ GoesOn(t, CallOver(c) \o Rest(t))
           ELSE GoesOn(t, MediaUpdate(c) \o Rest(t)) /\ UNCHANGED state
        /\ UNCHANGED <<owner, depth, session, registered, late, ops>>

\* pjsip_inv_end_session(): a BYE is sent and answered later, or the call is
\* over at once.
EndSession(t) ==
    LET c == Step(t).on
    IN  /\ Is(t, "end")
        /\ \/ GoesOn(t, Rest(t)) /\ UNCHANGED state
           \/ /\ state[c] = "up"
              /\ state' = [state EXCEPT ![c] = "over"]
              /\ GoesOn(t, CallOver(c) \o Rest(t))
        /\ UNCHANGED <<owner, depth, session, registered, late, ops>>

Media(t) ==
    LET c == Step(t).on
    IN  /\ Is(t, "stop_media") \/ Is(t, "start_media")
        /\ session' = [session EXCEPT ![c] =
                         IF Step(t).do = "start_media" THEN "live"
                         ELSE IF @ = "live" THEN "renewed" ELSE @]
        /\ GoesOn(t, Rest(t))
        /\ UNCHANGED <<owner, depth, state, registered, late, ops>>

\* pjsua_media_channel_deinit() and reset_call().
GiveUpCall(t) ==
    LET c == Step(t).on
    IN  /\ Is(t, "free")
        /\ state' = [state EXCEPT ![c] = "free"]
        /\ session' = [session EXCEPT ![c] = IF @ = "live" THEN "ended" ELSE "none"]
        /\ GoesOn(t, Rest(t))
        /\ UNCHANGED <<owner, depth, registered, late, ops>>

Register(t) ==
    LET c == Step(t).on
    IN  /\ Is(t, "register") \/ Is(t, "erase")
        /\ IF Step(t).do = "register"
           THEN /\ registered' = registered \cup {c}
                /\ late' = IF state[c] = "over" THEN late \cup {c} ELSE late
           ELSE /\ registered' = registered \ {c}
                /\ late' = late \ {c}
        /\ GoesOn(t, Rest(t))
        /\ UNCHANGED <<owner, depth, state, session, ops>>

\* on_media_connected(): get_conf_port(), enum_calls() and the connections.
Connect(t) ==
    /\ Is(t, "connect")
    /\ GoesOn(t, (IF Step(t).on \in registered THEN Asks ELSE <<>>) \o Rest(t))
    /\ UNCHANGED <<owner, depth, state, session, registered, late, ops>>

\* check_calls_media() looks at one call after the other.  A call whose session
\* has been silent for too long is hung up afterwards, without the mutex.
CheckAll(t) ==
    /\ Is(t, "check_all")
    /\ GoesOn(t, [i \in DOMAIN SetToSeq(registered) |-> Does("look", SetToSeq(registered)[i])]
                    \o Rest(t))
    /\ UNCHANGED <<owner, depth, state, session, registered, late, ops>>

Look(t) ==
    /\ Is(t, "look")
    /\ GoesOn(t, (IF session[Step(t).on] = "live" THEN <<Does("use", Step(t).on)>> ELSE <<>>)
                    \o Rest(t))
    /\ UNCHANGED <<owner, depth, state, session, registered, late, ops>>

Use(t) ==
    /\ Is(t, "use")
    /\ \/ GoesOn(t, Rest(t))
       \/ GoesOn(t, Rest(t) \o <<Hangup(Step(t).on)>>)
    /\ UNCHANGED <<owner, depth, state, session, registered, late, ops>>

Hangups(calls) == [i \in DOMAIN SetToSeq(calls) |-> Hangup(SetToSeq(calls)[i])]

\* Mutant: the calls are hung up where they are found.
PickInside(t) ==
    /\ Is(t, "pick")
    /\ \E calls \in SUBSET registered : GoesOn(t, Hangups(calls) \o Rest(t))
    /\ UNCHANGED <<owner, depth, state, session, registered, late, ops>>

\* hangup_calls_by_tag() collects the calls with the mutex held, and hangs up
\* after it has given it back.
Pick(t) ==
    /\ Is(t, "pick")
    /\ \E calls \in SUBSET registered : GoesOn(t, Rest(t) \o Hangups(calls))
    /\ UNCHANGED <<owner, depth, state, session, registered, late, ops>>

Run(t) ==
    \/ Lock(t) \/ Unlock(t) \/ AcquireCall(t)
    \/ Admit(t) \/ Dial(t) \/ ByeOrReInvite(t) \/ EndSession(t)
    \/ Media(t) \/ GiveUpCall(t) \/ Register(t) \/ Connect(t)
    \/ CheckAll(t) \/ Look(t) \/ Use(t) \/ Pick(t)

Next == \E t \in Threads : Begin(t) \/ Run(t)

Spec == Init /\ [][Next]_vars

\* A thread that can go on does; a lock that is free again is given to one of
\* those that wait for it, and the operations are finitely many.
FairSpec == Spec /\ \A t \in Threads : WF_vars(Run(t))

-----------------------------------------------------------------------------
(* Properties.                                                             *)

TypeOK ==
    /\ todo \in [Threads -> Seq(Steps)]
    /\ owner \in [Locks -> Threads \cup {NoThread}]
    /\ depth \in [Locks -> Nat]
    /\ state \in [Calls -> {"free", "up", "over"}]
    /\ session \in [Calls -> {"none", "live", "renewed", "ended"}]
    /\ registered \in SUBSET Calls
    /\ late \in SUBSET Calls
    /\ ops \in Nat

Holds(t) == {l \in Locks : owner[l] = t}
WaitsFor(t, l) == Is(t, "take") /\ Step(t).on = l /\ ~CanTake(t, l)

\* A thread waits for a call's dialog with empty hands only, and never for
\* m_scripts_mutex while it has it: hangups, which may call on_call_state() in
\* the same thread, are made after the mutex is given back.
LockOrder ==
    \A t \in Threads :
        /\ owner[Mutex] = t => ~WaitsFor(t, Mutex)
        /\ \A c \in Calls : WaitsFor(t, c) => Holds(t) = {}

\* The session that check_calls_media() reads is not freed by the call's end,
\* because on_call_state() needs m_scripts_mutex before pjsua gives the call up;
\* but for an outgoing call that is over before make_call() comes to create_call().
\* (A re-INVITE frees it without asking anybody.)
SessionOutlivesReader ==
    \A t \in Threads : Is(t, "use") =>
        session[Step(t).on] \in {"live", "renewed"} \/ Step(t).on \in late

\* pjsua's lock and m_scripts_mutex, each in the hands of a thread that waits
\* for the other.
Crossed ==
    \E t, u \in Threads :
        owner[Pjsua] = t /\ owner[Mutex] = u /\ WaitsFor(t, Mutex) /\ WaitsFor(u, Pjsua)

\* Every operation of every thread comes to its end, unless a call is admitted
\* or fails to be made at the moment when another call's media are connected.
OperationsEnd ==
    \A t \in Threads : todo[t] # <<>> ~> (todo[t] = <<>> \/ Crossed)

=============================================================================
