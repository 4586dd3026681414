------------------------------ MODULE MainScript ------------------------------
(***************************************************************************)
(* The main script of the intercom, src/intercom/scripts/intercom.lua: the *)
(* door bell, the calls it makes to the phones of a group, the lights, the *)
(* indoor button, the door contact and the distance sensor.                *)
(*                                                                         *)
(* The script is one thread.  What it shares with the others is its queue  *)
(* of messages and the calls, which are answered, connected to the door    *)
(* station and ended by other threads while it runs.  A timestamp is       *)
(* "off" (nil), "on" (less than its limit ago) or "due"; the limits are    *)
(* options of the database, so timestamps become due in any order.  Two    *)
(* that are only looked at when the sensor detects somebody are a choice   *)
(* there.  The sounds the script plays are left out.                       *)
(***************************************************************************)
EXTENDS Naturals, Sequences, FiniteSets

CONSTANTS
    PhoneCount,     \* rows of tblPhones in the group, in dialling order
    CallIds,        \* identifiers that pjsua gives to calls
    NoCall,         \* nil in outgoing_calls[i].callid
    BellRepeats,    \* option pjsis.bell.repeat_count
    Buttons,        \* the inputs of the controller that change
    Readings,       \* what the distance sensor reports: "near", "far", "zero"
    QueueMax,       \* bound: messages waiting (the code keeps 200)
    MaxEvents,      \* bound: inputs and readings
    MaxCalls        \* bound: calls made or received, and changes of their connection

ASSUME MainScriptAssumption ==
    /\ PhoneCount \in Nat /\ BellRepeats \in Nat \ {0} /\ IsFiniteSet(CallIds)
    /\ MaxEvents \in Nat /\ MaxCalls \in Nat
    /\ Buttons \subseteq {"main", "indoor", "door"}
    /\ Readings \subseteq {"near", "far", "zero"}
    /\ NoCall \notin CallIds

VARIABLES
    pc,         \* where the script's thread is
    msg,        \* the message it handles
    seen,       \* the connected count it has read for that message
    poll,       \* the next phone check_calls() looks at
    back,       \* where it goes on after check_calls()
    queue,      \* msg_queue
    s,          \* fields of the script, and the outputs it has set
    phones,     \* outgoing_calls
    calls,      \* the calls pjsua and the registry hold
    held,       \* buttons that are down
    events, made    \* bounds

vars == <<pc, msg, seen, poll, back, queue, s, phones, calls, held, events, made>>
scriptVars == <<pc, msg, seen, poll, back, s, phones>>

Phones == 1..PhoneCount
Time == {"off", "on", "due"}
Timers == {"start", "bell_start", "bell_stop", "action"}
Kinds == {"main", "indoor", "door"}
Messages == [kind : Kinds, down : BOOLEAN]
            \cup [kind : {"reading"}, us : {"near", "far", "zero"}]
            \cup [kind : {"changed", "quit"}]

\* state: "none", "live", "hung" (told to hang up) or "gone" (disconnected, its
\* callback has not posted yet); phone is the one it was made to, 0 for a caller.
FreeCall == [state |-> "none", tag |-> 0, main |-> FALSE, post |-> FALSE, phone |-> 0]
IdlePhone == [callid |-> NoCall, end_time |-> "off", due |-> FALSE]

Init ==
    /\ pc = "top" /\ msg = [kind |-> "changed"] /\ seen = 0 /\ poll = 0 /\ back = "top"
    /\ queue = <<>>
    /\ s = [calling |-> FALSE, start |-> "off", bell_start |-> "off", bell_stop |-> "off",
            repeats |-> 0, door_closed |-> TRUE, action |-> "off",
            triggered |-> FALSE, detected |-> 0, bell |-> 0, led1 |-> 1, led2 |-> 1]
    /\ phones = [p \in Phones |-> IdlePhone]
    /\ calls = [c \in CallIds |-> FreeCall]
    /\ held = {} /\ events = 0 /\ made = 0

-----------------------------------------------------------------------------
(* The methods of pjs_intercom, on what they change: w.s, w.calls, w.phones *)
(* and w.dial, which says that check_calls() is to follow.                  *)

\* get_connected_to_main_count()
Connected(cs) ==
    Cardinality({c \in CallIds : cs[c].state \in {"live", "hung"} /\ cs[c].main})

\* hangup_calls_by_tag(OUTGOING_CALLS_TAG)
HangupOutgoing(cs) ==
    [c \in CallIds |-> IF cs[c].state = "live" /\ cs[c].tag = 1
                       THEN [cs[c] EXCEPT !.state = "hung"] ELSE cs[c]]

UpdateLeds(t, ccnt) ==
    LET lit == IF ccnt = 0 /\ t.calling THEN 2 ELSE 1
    IN  [t EXCEPT !.led1 = lit, !.led2 = lit]

\* Mutant: the calls are left to ring.
OnCallingEndKeepsCalls(w) ==
    [w EXCEPT !.s = UpdateLeds([@ EXCEPT !.calling = FALSE], Connected(w.calls))]

\* Mutant: the lights are left as they are.
OnCallingEndDark(w) ==
    [w EXCEPT !.s.calling = FALSE, !.calls = HangupOutgoing(@)]

OnCallingEnd(w) ==
    [w EXCEPT !.calls = HangupOutgoing(@),
              !.s = UpdateLeds([@ EXCEPT !.calling = FALSE], Connected(w.calls))]

\* When check_connected() returns true.
EndsCalling(t, ccnt) == t.calling /\ (ccnt > 0 \/ ~t.door_closed)

CheckConnected(w, ccnt) == IF EndsCalling(w.s, ccnt) THEN OnCallingEnd(w) ELSE w

PrepareCalls(w) ==
    [w EXCEPT !.calls = HangupOutgoing(@),
              !.phones = [p \in Phones |-> IdlePhone],
              !.dial = TRUE]

\* What start_calling() does to the bell of a new round.
BellBegins(t) ==
    [t EXCEPT !.bell = 1, !.bell_stop = "off", !.repeats = BellRepeats - 1,
              !.bell_start = IF @ = "off" THEN "on" ELSE @]

\* start_calling() while it is calling: a bell that stopped long enough ago is rung.
RingAgain(t) ==
    IF t.bell_stop = "due"
    THEN [t EXCEPT !.bell = 1, !.bell_stop = "off", !.bell_start = "on", !.repeats = @ + 1]
    ELSE t

StartCalling(w, ccnt) ==
    LET t == [BellBegins(w.s) EXCEPT !.calling = TRUE, !.start = "on"]
    IN  IF w.s.calling THEN [w EXCEPT !.s = RingAgain(@)]
        ELSE IF EndsCalling(t, ccnt) THEN OnCallingEnd([w EXCEPT !.s = t])
        ELSE PrepareCalls([w EXCEPT !.s = t])

\* stop_bell(): "bell_stop = now" reads a global now that nothing defines, nil.
StopBell(t) == [t EXCEPT !.bell = 0, !.bell_start = "off", !.bell_stop = "off"]

\* An indoor button or an opening door ends the calling and the bell.
Dismiss(w) ==
    IF w.s.calling THEN [OnCallingEnd(w) EXCEPT !.s = StopBell(@)] ELSE w

StopUltrasonic(w) == [w EXCEPT !.s.action = "off"]

OnMainButton(w, down, ccnt) ==
    IF down THEN [StartCalling(StopUltrasonic(w), ccnt) EXCEPT !.s.led1 = 0]
            ELSE [StopUltrasonic(w) EXCEPT !.s = UpdateLeds(@, ccnt)]

OnIndoorButton(w, down, ccnt) ==
    IF down THEN [Dismiss(StopUltrasonic(w)) EXCEPT !.s.led2 = 0]
            ELSE [StopUltrasonic(w) EXCEPT !.s = UpdateLeds(@, ccnt)]

OnDoorButton(w, down) ==
    IF down THEN [Dismiss(StopUltrasonic(w)) EXCEPT !.s.door_closed = FALSE]
            ELSE [StopUltrasonic(w) EXCEPT !.s.door_closed = TRUE]

OnConnectedChanged(w, ccnt) ==
    LET v == CheckConnected(w, ccnt) IN [v EXCEPT !.s = UpdateLeds(@, ccnt)]

\* long: long enough after the last detection and after the door was closed.
CanAct(t, long) == ~t.calling /\ t.door_closed /\ t.action = "off" /\ long

\* The count is kept up to 3: only "more than two" is ever asked of it.
Count(t, us) ==
    IF us # "near" THEN 0 ELSE IF t.detected = 3 THEN 3 ELSE t.detected + 1

\* Nothing sets triggered back to FALSE.
Detect(t, n, long) ==
    IF n > 2 /\ ~t.triggered
    THEN [t EXCEPT !.detected = n, !.triggered = TRUE,
                   !.action = IF CanAct(t, long) THEN "on" ELSE @]
    ELSE [t EXCEPT !.detected = n]

OnUltrasonicData(w, us, long) ==
    IF us = "zero" THEN w ELSE [w EXCEPT !.s = Detect(@, Count(@, us), long)]

\* messages_map:dispatch()
Dispatch(w, m, ccnt, long) ==
    CASE m.kind = "main"    -> OnMainButton(w, m.down, ccnt)
      [] m.kind = "indoor"  -> OnIndoorButton(w, m.down, ccnt)
      [] m.kind = "door"    -> OnDoorButton(w, m.down)
      [] m.kind = "reading" -> OnUltrasonicData(w, m.us, long)
      [] m.kind = "changed" -> OnConnectedChanged(w, ccnt)

-----------------------------------------------------------------------------
(* The main loop *)

World == [s |-> s, calls |-> calls, phones |-> phones, dial |-> FALSE]

\* Takes over what the methods changed, and goes on at next.
Become(w, next) ==
    /\ s' = w.s /\ calls' = w.calls /\ phones' = w.phones
    /\ pc' = IF w.dial THEN "poll" ELSE next
    /\ poll' = IF w.dial THEN 1 ELSE 0
    /\ back' = IF w.dial THEN next ELSE "top"

\* get_message(), and the connected count that the handler reads first.
TakeMessage ==
    /\ pc = "top" /\ queue # <<>>
    /\ msg' = Head(queue) /\ queue' = Tail(queue)
    /\ pc' = IF Head(queue).kind = "quit" THEN "end" ELSE "handle"
    /\ seen' = Connected(calls)
    /\ UNCHANGED <<poll, back, s, phones, calls, held, events, made>>

Handle ==
    /\ pc = "handle"
    /\ \E long \in BOOLEAN : Become(Dispatch(World, msg, seen, long), "top")
    /\ msg' = [kind |-> "changed"] /\ seen' = 0
    /\ UNCHANGED <<queue, held, events, made>>

\* No message: an approach seen some time ago rings the bell.
Approach ==
    /\ pc = "top" /\ queue = <<>>
    /\ LET t == [BellBegins(s) EXCEPT !.action = "off", !.repeats = 0]
           w == StartCalling([World EXCEPT !.s = t], Connected(calls))
       IN  Become(IF s.action = "due" THEN [w EXCEPT !.s.led1 = 0] ELSE World, "tick")
    /\ UNCHANGED <<msg, seen, queue, held, events, made>>

BellTimeout(t) == IF t.bell_start = "due" THEN StopBell(t) ELSE t

\* Mutant: a timeout stops the bell only.
CallingTimeoutKeepsCalling(w) ==
    IF w.s.calling /\ w.s.start = "due" THEN [w EXCEPT !.s = StopBell(@)] ELSE w

CallingTimeout(w) ==
    IF w.s.calling /\ w.s.start = "due" THEN [OnCallingEnd(w) EXCEPT !.s = StopBell(@)] ELSE w

\* The "Repeat bell" branch; it is looked at when the calling has just timed out too.
RepeatBell(t) ==
    IF t.bell_stop = "due" /\ t.repeats > 0
    THEN [t EXCEPT !.bell = 1, !.bell_stop = "off", !.bell_start = "on", !.repeats = @ - 1]
    ELSE t

\* The rest of the idle turn: the bell, the timeout, check_calls(), wait(100).
Tick ==
    /\ pc = "tick"
    /\ LET t == BellTimeout(s)
           w == CallingTimeout([World EXCEPT !.s = t])
       IN  Become([w EXCEPT !.s = IF t.calling THEN RepeatBell(@) ELSE @,
                            !.dial = w.s.calling], "top")
    /\ UNCHANGED <<msg, seen, queue, held, events, made>>

\* call_is_active()
StillActive(c) == calls[c].state \in {"live", "hung"}

\* Mutant: a call that is over is dialled again without a look at the guard time,
\* and so is one that is not over.
NoticedNever(p) == IF p.callid # NoCall THEN [p EXCEPT !.callid = NoCall] ELSE p

\* check_calls() for one phone, up to the call: a call that is over is forgotten
\* and the guard time begins, or the guard time is over.
Noticed(p) ==
    IF p.callid # NoCall
    THEN IF StillActive(p.callid) THEN p
         ELSE [p EXCEPT !.callid = NoCall, !.end_time = "on"]
    ELSE [p EXCEPT !.end_time = IF @ = "due" THEN "off" ELSE @]

MayDial(p) == p.callid = NoCall /\ p.end_time = "off" /\ p.due

CheckPhone ==
    /\ pc = "poll" /\ poll <= PhoneCount /\ ~MayDial(Noticed(phones[poll]))
    /\ phones' = [phones EXCEPT ![poll] = Noticed(@)]
    /\ poll' = poll + 1
    /\ UNCHANGED <<pc, msg, seen, back, queue, s, calls, held, events, made>>

\* make_call() succeeds with a free identifier, or fails and the guard time begins.
Dial ==
    /\ pc = "poll" /\ poll <= PhoneCount /\ MayDial(Noticed(phones[poll]))
    /\ poll' = poll + 1
    /\ \/ \E c \in CallIds :
            /\ calls[c].state = "none" /\ made < MaxCalls /\ made' = made + 1
            /\ calls' = [calls EXCEPT ![c] =
                 [FreeCall EXCEPT !.state = "live", !.tag = 1, !.phone = poll]]
            /\ phones' = [phones EXCEPT ![poll] =
                 [@ EXCEPT !.callid = c, !.end_time = "off"]]
       \/ /\ phones' = [phones EXCEPT ![poll].end_time = "on"]
          /\ UNCHANGED <<calls, made>>
    /\ UNCHANGED <<pc, msg, seen, back, queue, s, held, events>>

CheckedAll ==
    /\ pc = "poll" /\ poll > PhoneCount
    /\ pc' = back /\ poll' = 0 /\ back' = "top"
    /\ UNCHANGED <<msg, seen, queue, s, phones, calls, held, events, made>>

Script == TakeMessage \/ Handle \/ Approach \/ Tick \/ CheckPhone \/ Dial \/ CheckedAll

-----------------------------------------------------------------------------
(* The rest of the program, and the people *)

\* A timestamp passes its limit.
TimePasses(f) ==
    /\ s[f] = "on" /\ s' = [s EXCEPT ![f] = "due"]
    /\ UNCHANGED <<pc, msg, seen, poll, back, queue, phones, calls, held, events, made>>

\* The delay of a phone, or its guard time after a call, is over; both are looked
\* at only while it is calling, and begin anew with the next calling.
PhoneDelay(p) ==
    /\ s.calling
    /\ \/ ~phones[p].due /\ phones' = [phones EXCEPT ![p].due = TRUE]
       \/ phones[p].end_time = "on" /\ phones' = [phones EXCEPT ![p].end_time = "due"]
    /\ UNCHANGED <<pc, msg, seen, poll, back, queue, s, calls, held, events, made>>

CallStep(c, from, next) ==
    /\ calls[c].state \in from
    /\ calls' = [calls EXCEPT ![c] = next]
    /\ UNCHANGED <<scriptVars, queue, held, events>>

\* An answered call's script takes its tag away: it no longer rings.
Confirm(c) ==
    /\ calls[c].tag = 1 /\ UNCHANGED made
    /\ CallStep(c, {"live"}, [calls[c] EXCEPT !.tag = 0])

\* connect_main() and disconnect_main() of a call's script, before the callback.
SwitchMain(c) ==
    /\ calls[c].tag = 0 /\ ~calls[c].post
    /\ made < MaxCalls /\ made' = made + 1
    /\ CallStep(c, {"live", "hung"}, [calls[c] EXCEPT !.main = ~@, !.post = TRUE])

\* The call ends, by either side; from now on it counts neither as active nor as
\* connected, but the callback has not posted yet.
EndCall(c) ==
    /\ CallStep(c, {"live", "hung"}, [calls[c] EXCEPT !.state = "gone", !.post = TRUE])
    /\ UNCHANGED made

Receive(c) ==
    /\ made < MaxCalls /\ made' = made + 1
    /\ CallStep(c, {"none"}, [FreeCall EXCEPT !.state = "live"])

\* Mutant: the message is lost.
PostLost(c) ==
    /\ calls[c].post
    /\ calls' = [calls EXCEPT ![c] = IF @.state = "gone" THEN FreeCall
                                     ELSE [@ EXCEPT !.post = FALSE]]
    /\ UNCHANGED <<scriptVars, queue, held, events, made>>

\* on_connected_to_main_changed() pushes IM_CONNECTED_CHANGED; of two that one call
\* owes at the same time the model posts one.
PostChanged(c) ==
    /\ calls[c].post /\ Len(queue) < QueueMax
    /\ queue' = Append(queue, [kind |-> "changed"])
    /\ calls' = [calls EXCEPT ![c] = IF @.state = "gone" THEN FreeCall
                                     ELSE [@ EXCEPT !.post = FALSE]]
    /\ UNCHANGED <<scriptVars, held, events, made>>

Arrives(m) ==
    /\ events < MaxEvents /\ events' = events + 1
    /\ Len(queue) < QueueMax /\ queue' = Append(queue, m)
    /\ UNCHANGED <<scriptVars, calls, made>>

\* The controller reports a change of an input (check_input()).
Press(b) ==
    /\ held' = IF b \in held THEN held \ {b} ELSE held \cup {b}
    /\ Arrives([kind |-> b, down |-> b \notin held])

Measure(us) == Arrives([kind |-> "reading", us |-> us]) /\ UNCHANGED held

\* stop() of the intercom pushes IM_QUIT at the front.
Quit ==
    /\ events < MaxEvents /\ events' = events + 1
    /\ queue' = <<[kind |-> "quit"]>> \o queue
    /\ UNCHANGED <<scriptVars, calls, held, made>>

Next ==
    \/ Script
    \/ \E f \in Timers : TimePasses(f)
    \/ \E p \in Phones : PhoneDelay(p)
    \/ \E c \in CallIds : \/ Confirm(c) \/ SwitchMain(c) \/ EndCall(c)
                          \/ Receive(c) \/ PostChanged(c)
    \/ \E b \in Buttons : Press(b)
    \/ \E r \in Readings : Measure(r)
    \/ Quit

Spec == Init /\ [][Next]_vars

\* The script runs, time passes, callbacks finish and a call told to hang up ends.
\* The bounds make the messages finitely many: timeouts are only looked at when the
\* queue is empty, and messages that never let it get empty would put them off.
FairSpec ==
    /\ Spec /\ WF_vars(Script)
    /\ \A f \in Timers : WF_vars(TimePasses(f))
    /\ \A c \in CallIds : /\ WF_vars(PostChanged(c))
                          /\ WF_vars(calls[c].state = "hung" /\ EndCall(c))

-----------------------------------------------------------------------------
(* Properties *)

\* The variables have their types.
TypeOK ==
    /\ pc \in {"top", "handle", "tick", "poll", "end"} /\ back \in {"top", "tick"}
    /\ msg \in Messages /\ queue \in Seq(Messages)
    /\ seen \in 0..Cardinality(CallIds) /\ poll \in 0..(PhoneCount + 1)
    /\ s \in [calling : BOOLEAN, start : Time, bell_start : Time, bell_stop : Time,
              repeats : 0..(BellRepeats - 1), door_closed : BOOLEAN,
              action : Time, triggered : BOOLEAN, detected : 0..3,
              bell : 0..1, led1 : 0..2, led2 : 0..2]
    /\ phones \in [Phones -> [callid : CallIds \cup {NoCall}, end_time : Time, due : BOOLEAN]]
    /\ calls \in [CallIds -> [state : {"none", "live", "hung", "gone"}, tag : 0..1,
                              main : BOOLEAN, post : BOOLEAN, phone : Phones \cup {0}]]
    /\ held \subseteq Kinds /\ events \in 0..MaxEvents /\ made \in 0..MaxCalls

Rings(c) == calls[c].state = "live" /\ calls[c].tag = 1
Quiet == pc = "top" /\ queue = <<>> /\ \A c \in CallIds : ~calls[c].post

\* The bell never rings without the time at which it has to stop.
BellIsTimed == s.bell = 1 => s.bell_start # "off"

\* No phone goes on ringing for a door that is not calling any more.
NoRingingAfterCalling == \A c \in CallIds : Rings(c) => s.calling

\* A ringing call is the one that check_calls() watches for its phone; so no phone
\* is called twice at the same time.
RingingIsWatched == \A c \in CallIds : Rings(c) => phones[calls[c].phone].callid = c

\* Once every message is handled the script does not call out while somebody is
\* connected to the door, although the count may have changed after it was read.
ConnectedEndsCalling == Quiet /\ Connected(calls) > 0 => ~s.calling

\* A light that a button has switched off is on again when the buttons are up and
\* nothing is called (an approach leaves the main light off, so not after one).
LightsComeBack ==
    Quiet /\ ~s.calling /\ held \cap {"main", "indoor"} = {} =>
        s.led2 = 1 /\ (~s.triggered => s.led1 = 1)

\* The bell stops, whatever rang it; and the calling ends: by an answer, the indoor
\* button, the door or the timeout.
CallingComesToRest ==
    /\ s.bell = 1 ~> s.bell = 0 \/ pc = "end"
    /\ s.calling ~> ~s.calling \/ pc = "end"

\* intercom.lua announces "Repeat bell" and takes the number of repeats from the
\* option pjsis.bell.repeat_count: a bell that has stopped while it is still
\* calling, with repeats left, has the time from which to count to the next one.
RepeatIsArmed ==
    pc = "top" /\ s.calling /\ s.bell = 0 /\ s.repeats > 0 => s.bell_stop # "off"
=============================================================================
