---------------------------- MODULE LuaScriptProofs ----------------------------
(***************************************************************************)
(* Theorems about the Lua scripts: the main script, MainScript, for any    *)
(* number of phones, call identifiers and messages, and the menu of a      *)
(* call, CallMenu, for any digits and any limit of its queue.              *)
(***************************************************************************)
EXTENDS MainScript, CallMenu, FiniteSetTheorems, TLAPS

State ==
    [calling : BOOLEAN, start : Time, bell_start : Time, bell_stop : Time,
     repeats : 0..(BellRepeats - 1), door_closed : BOOLEAN,
     action : Time, triggered : BOOLEAN, detected : 0..3,
     bell : 0..1, led1 : 0..2, led2 : 0..2]
Phone == [callid : CallIds \cup {NoCall}, end_time : Time, due : BOOLEAN]
Call == [state : {"none", "live", "hung", "gone"}, tag : 0..1,
         main : BOOLEAN, post : BOOLEAN, phone : Phones \cup {0}]

\* A ringing bell has its time; no bell ever has the time at which it stopped.
GoodState(t) == t \in State /\ t.bell_stop = "off" /\ (t.bell = 1 => t.bell_start # "off")

\* What the handlers work on.
Worlds == [s : State, calls : [CallIds -> Call], phones : [Phones -> Phone], dial : BOOLEAN]

RingsIn(w, c) == w.calls[c].state = "live" /\ w.calls[c].tag = 1

\* Every phone that rings is rung by a script that is calling, and watched by it; only
\* a script that is calling dials.
GoodWorld(w) ==
    /\ w \in Worlds /\ GoodState(w.s)
    /\ \A c \in CallIds : RingsIn(w, c) =>
          w.s.calling /\ w.calls[c].phone \in Phones /\ w.phones[w.calls[c].phone].callid = c
    /\ w.dial => w.s.calling

-----------------------------------------------------------------------------
(* Lemmas about the fields of the script *)

\* The constants are what the assumption says; zero is a count of repeats.
LEMMA Consts ==
    /\ BellRepeats \in Nat /\ 0 \in 0..(BellRepeats - 1) /\ BellRepeats - 1 \in 0..(BellRepeats - 1)
    /\ NoCall \notin CallIds /\ PhoneCount \in Nat
  BY MainScriptAssumption

\* The lights are not what the other properties are about.
LEMMA LedsGood ==
    ASSUME NEW t, GoodState(t), NEW n
    PROVE  GoodState(UpdateLeds(t, n)) /\ UpdateLeds(t, n).calling = t.calling
<1> DEFINE lit == IF n = 0 /\ t.calling THEN 2 ELSE 1
<1>1. lit \in 0..2
  OBVIOUS
<1> DEFINE t1 == [t EXCEPT !.led1 = lit]
<1>2. UpdateLeds(t, n) = [t1 EXCEPT !.led2 = lit]
  BY DEF UpdateLeds
<1> HIDE DEF lit
<1>3. GoodState(t1) /\ t1.calling = t.calling
  BY <1>1 DEF GoodState, State
<1> HIDE DEF t1
<1> QED
  BY <1>1, <1>2, <1>3 DEF GoodState, State

\* A bell that is stopped needs no time.
LEMMA StopBellGood ==
    ASSUME NEW t, GoodState(t)
    PROVE  GoodState(StopBell(t)) /\ StopBell(t).calling = t.calling
<1> DEFINE t1 == [t EXCEPT !.bell = 0]
           t2 == [t1 EXCEPT !.bell_start = "off"]
<1>1. StopBell(t) = [t2 EXCEPT !.bell_stop = "off"]
  BY DEF StopBell
<1>2. t1 \in State /\ t1.calling = t.calling /\ t1.bell = 0
  BY DEF GoodState, State
<1> HIDE DEF t1
<1>3. t2 \in State /\ t2.calling = t.calling /\ t2.bell = 0
  BY <1>2 DEF State, Time
<1> HIDE DEF t2
<1> QED
  BY <1>1, <1>3 DEF GoodState, State, Time

\* A bell that begins to ring has its time.
LEMMA BellBeginsGood ==
    ASSUME NEW t, GoodState(t)
    PROVE  GoodState(BellBegins(t)) /\ BellBegins(t).calling = t.calling
<1> DEFINE b == IF t.bell_start = "off" THEN "on" ELSE t.bell_start
<1>1. b \in Time /\ b # "off"
  BY DEF GoodState, State, Time
<1> DEFINE t1 == [t EXCEPT !.bell = 1]
           t2 == [t1 EXCEPT !.bell_stop = "off"]
           t3 == [t2 EXCEPT !.repeats = BellRepeats - 1]
<1>2. BellBegins(t) = [t3 EXCEPT !.bell_start = b]
  BY DEF GoodState, State, BellBegins
<1> HIDE DEF b
<1>3. t1 \in State /\ t1.calling = t.calling /\ t1.bell_stop = "off"
  BY DEF GoodState, State
<1> HIDE DEF t1
<1>4. t2 \in State /\ t2.calling = t.calling /\ t2.bell_stop = "off"
  BY <1>3 DEF State, Time
<1> HIDE DEF t2
<1>5. t3 \in State /\ t3.calling = t.calling /\ t3.bell_stop = "off"
  BY <1>4, Consts DEF State
<1> HIDE DEF t3
<1> QED
  BY <1>1, <1>2, <1>5 DEF GoodState, State

\* Without the time of its stop the bell is not rung again,
LEMMA RingAgainIdle == ASSUME NEW t, GoodState(t) PROVE RingAgain(t) = t
  BY DEF GoodState, RingAgain

\* and not repeated.
LEMMA RepeatIdle == ASSUME NEW t, GoodState(t) PROVE RepeatBell(t) = t
  BY DEF GoodState, RepeatBell

-----------------------------------------------------------------------------
(* Lemmas about the methods of the script *)

\* A world whose script does not dial: what a handler begins with.
Idle(w) == GoodWorld(w) /\ w.dial = FALSE

\* The methods change the bell and the lights behind the calls' back.
LEMMA SetState ==
    ASSUME NEW w, Idle(w), NEW t, GoodState(t), t.calling = w.s.calling
    PROVE  Idle([w EXCEPT !.s = t]) /\ [w EXCEPT !.s = t].s = t
  BY DEF Idle, GoodWorld, Worlds, RingsIn, GoodState

\* Nothing rings after hangup_calls_by_tag(); the calls stay where they were made to.
LEMMA HangupSilences ==
    ASSUME NEW w, Idle(w)
    PROVE  /\ HangupOutgoing(w.calls) \in [CallIds -> Call]
           /\ \A c \in CallIds : ~(HangupOutgoing(w.calls)[c].state = "live"
                                   /\ HangupOutgoing(w.calls)[c].tag = 1)
<1>1. ASSUME NEW c \in CallIds
      PROVE  /\ HangupOutgoing(w.calls)[c] \in Call
             /\ ~(HangupOutgoing(w.calls)[c].state = "live"
                  /\ HangupOutgoing(w.calls)[c].tag = 1)
  <2>1. w.calls[c] \in Call
    BY DEF Idle, GoodWorld, Worlds
  <2>2. HangupOutgoing(w.calls)[c] =
          IF w.calls[c].state = "live" /\ w.calls[c].tag = 1
          THEN [w.calls[c] EXCEPT !.state = "hung"] ELSE w.calls[c]
    BY DEF HangupOutgoing
  <2> QED
    BY <2>1, <2>2 DEF Call
<1>2. HangupOutgoing(w.calls) = [c \in CallIds |-> HangupOutgoing(w.calls)[c]]
  BY DEF HangupOutgoing
<1> QED
  BY <1>1, <1>2

\* The end of the calling silences every phone and leaves the script not calling.
LEMMA EndGood == ASSUME NEW w, Idle(w) PROVE Idle(OnCallingEnd(w)) /\ ~OnCallingEnd(w).s.calling
<1> DEFINE h == HangupOutgoing(w.calls)
           t0 == [w.s EXCEPT !.calling = FALSE]
           t == UpdateLeds(t0, Connected(w.calls))
           v == [w EXCEPT !.calls = h]
<1>1. OnCallingEnd(w) = [v EXCEPT !.s = t]
  BY DEF OnCallingEnd, Idle, GoodWorld, Worlds
<1>2. GoodState(t0) /\ ~t0.calling
  BY DEF Idle, GoodWorld, GoodState, State
<1> HIDE DEF t0
<1>3. GoodState(t) /\ ~t.calling
  BY <1>2, LedsGood
<1>4. v \in Worlds /\ v.calls = h /\ v.dial = FALSE
  BY HangupSilences DEF Idle, GoodWorld, Worlds
<1>5. \A c \in CallIds : ~RingsIn(v, c)
  BY <1>4, HangupSilences DEF RingsIn
<1> HIDE DEF t, v, h
<1> QED
  BY <1>1, <1>3, <1>4, <1>5 DEF Idle, GoodWorld, Worlds, RingsIn, GoodState

\* A round of calls begins with every phone idle, and nothing ringing.
LEMMA PrepareGood ==
    ASSUME NEW w, Idle(w), w.s.calling
    PROVE  GoodWorld(PrepareCalls(w))
<1> DEFINE h == HangupOutgoing(w.calls)
           ps == [p \in Phones |-> IdlePhone]
           v == [w EXCEPT !.calls = h]
           u == [v EXCEPT !.phones = ps]
<1>1. PrepareCalls(w) = [u EXCEPT !.dial = TRUE]
  BY DEF PrepareCalls
<1>2. v \in Worlds /\ v.calls = h /\ v.s = w.s /\ GoodState(v.s)
  BY HangupSilences DEF Idle, GoodWorld, Worlds
<1>3. ps \in [Phones -> Phone]
  BY DEF IdlePhone, Phone, Time
<1>4. \A c \in CallIds : ~(h[c].state = "live" /\ h[c].tag = 1)
  BY HangupSilences
<1> HIDE DEF v, ps, h
<1>5. u \in Worlds /\ u.calls = h /\ u.s = w.s /\ GoodState(u.s)
  BY <1>2, <1>3 DEF Worlds
<1> HIDE DEF u
<1> QED
  BY <1>1, <1>4, <1>5 DEF GoodWorld, Worlds, RingsIn

\* A calling that begins is ended at once, or dials.
LEMMA StartGood ==
    ASSUME NEW w, Idle(w), NEW n
    PROVE  GoodWorld(StartCalling(w, n))
<1> DEFINE t0 == BellBegins(w.s)
           t1 == [t0 EXCEPT !.calling = TRUE]
           t == [t1 EXCEPT !.start = "on"]
           v == [w EXCEPT !.s = t]
<1>1. CASE w.s.calling
  <2>1. RingAgain(w.s) = w.s
    BY RingAgainIdle DEF Idle, GoodWorld
  <2>2. StartCalling(w, n) = [w EXCEPT !.s = w.s]
    BY <1>1, <2>1 DEF StartCalling
  <2>3. GoodState(w.s)
    BY DEF Idle, GoodWorld
  <2>4. Idle([w EXCEPT !.s = w.s])
    BY <2>3, SetState
  <2> QED
    BY <2>2, <2>4 DEF Idle
<1>2. CASE ~w.s.calling
  <2>1. GoodState(t0)
    BY BellBeginsGood DEF Idle, GoodWorld
  <2>2. StartCalling(w, n) = IF EndsCalling(t, n) THEN OnCallingEnd(v) ELSE PrepareCalls(v)
    BY <1>2 DEF StartCalling
  <2> HIDE DEF t0
  <2>3. GoodState(t1) /\ t1.calling
    BY <2>1 DEF GoodState, State
  <2> HIDE DEF t1
  <2>4. GoodState(t) /\ t.calling
    BY <2>3 DEF GoodState, State, Time
  <2> HIDE DEF t
  <2>5. v \in Worlds /\ v.s = t /\ v.calls = w.calls /\ v.dial = FALSE
    BY <2>4 DEF Idle, GoodWorld, Worlds, GoodState
  <2>6. \A c \in CallIds : ~RingsIn(v, c)
    BY <1>2, <2>5 DEF Idle, GoodWorld, RingsIn
  <2>7. Idle(v) /\ v.s.calling
    BY <2>4, <2>5, <2>6 DEF Idle, GoodWorld
  <2> HIDE DEF v
  <2> QED
    BY <2>2, <2>7, EndGood, PrepareGood DEF Idle
<1> QED
  BY <1>1, <1>2 DEF Idle, GoodWorld, Worlds, State

\* stop_bell() after the calling has ended.
LEMMA EndAndStopGood ==
    ASSUME NEW w, Idle(w)
    PROVE  Idle([OnCallingEnd(w) EXCEPT !.s = StopBell(@)])
<1> DEFINE v == OnCallingEnd(w)
<1>1. Idle(v) /\ GoodState(v.s)
  BY EndGood DEF Idle, GoodWorld
<1> HIDE DEF v
<1>2. GoodState(StopBell(v.s)) /\ StopBell(v.s).calling = v.s.calling
  BY <1>1, StopBellGood
<1>3. Idle([v EXCEPT !.s = StopBell(v.s)])
  BY <1>1, <1>2, SetState
<1> QED
  BY <1>3 DEF v

\* What the indoor button and the door do to a calling.
LEMMA DismissGood == ASSUME NEW w, Idle(w) PROVE Idle(Dismiss(w))
  BY EndAndStopGood DEF Dismiss

\* A connected call ends the calling.
LEMMA CheckConnectedGood == ASSUME NEW w, Idle(w), NEW n PROVE Idle(CheckConnected(w, n))
  BY EndGood DEF CheckConnected

\* A button is handled after the sensor's action is forgotten, and switches its light.
LEMMA SensorStops == ASSUME NEW w, Idle(w) PROVE Idle(StopUltrasonic(w))
<1> DEFINE t == [w.s EXCEPT !.action = "off"]
<1>1. GoodState(t) /\ t.calling = w.s.calling
  BY DEF Idle, GoodWorld, GoodState, State, Time
<1>2. StopUltrasonic(w) = [w EXCEPT !.s = t]
  BY DEF StopUltrasonic
<1> HIDE DEF t
<1> QED
  BY <1>1, <1>2, SetState

\* The lights of a world.
LEMMA LedsOfWorld == ASSUME NEW w, Idle(w), NEW n PROVE Idle([w EXCEPT !.s = UpdateLeds(@, n)])
<1>1. GoodState(w.s)
  BY DEF Idle, GoodWorld
<1> QED
  BY <1>1, LedsGood, SetState

\* One light, or the door, of a world that may be about to dial.
LEMMA Led1OfWorld ==
    ASSUME NEW w, GoodWorld(w) PROVE GoodWorld([w EXCEPT !.s.led1 = 0])
<1> DEFINE t == [w.s EXCEPT !.led1 = 0]
<1>1. GoodState(t) /\ t.calling = w.s.calling
  BY DEF GoodWorld, GoodState, State
<1>2. [w EXCEPT !.s.led1 = 0] = [w EXCEPT !.s = t]
  OBVIOUS
<1> HIDE DEF t
<1> QED
  BY <1>1, <1>2 DEF GoodWorld, Worlds, RingsIn, GoodState

\* The second light of a world.
LEMMA Led2OfWorld == ASSUME NEW w, Idle(w) PROVE Idle([w EXCEPT !.s.led2 = 0])
<1> DEFINE t == [w.s EXCEPT !.led2 = 0]
<1>1. GoodState(t) /\ t.calling = w.s.calling
  BY DEF Idle, GoodWorld, GoodState, State
<1>2. [w EXCEPT !.s.led2 = 0] = [w EXCEPT !.s = t]
  OBVIOUS
<1> HIDE DEF t
<1> QED
  BY <1>1, <1>2, SetState

\* The door of a world.
LEMMA DoorOfWorld ==
    ASSUME NEW w, Idle(w), NEW d \in BOOLEAN PROVE Idle([w EXCEPT !.s.door_closed = d])
<1> DEFINE t == [w.s EXCEPT !.door_closed = d]
<1>1. GoodState(t) /\ t.calling = w.s.calling
  BY DEF Idle, GoodWorld, GoodState, State
<1>2. [w EXCEPT !.s.door_closed = d] = [w EXCEPT !.s = t]
  OBVIOUS
<1> HIDE DEF t
<1> QED
  BY <1>1, <1>2, SetState

-----------------------------------------------------------------------------
(* Lemmas about the handlers *)

\* The bell's button,
LEMMA MainButtonGood ==
    ASSUME NEW w, Idle(w), NEW down, NEW n PROVE GoodWorld(OnMainButton(w, down, n))
<1> DEFINE v == StopUltrasonic(w)
<1>1. Idle(v)
  BY SensorStops
<1> HIDE DEF v
<1>2. GoodWorld(StartCalling(v, n)) /\ Idle([v EXCEPT !.s = UpdateLeds(@, n)])
  BY <1>1, StartGood, LedsOfWorld
<1>3. GoodWorld([StartCalling(v, n) EXCEPT !.s.led1 = 0])
  BY <1>2, Led1OfWorld
<1> QED
  BY <1>2, <1>3 DEF OnMainButton, v, Idle

\* the indoor button,
LEMMA IndoorButtonGood ==
    ASSUME NEW w, Idle(w), NEW down, NEW n PROVE GoodWorld(OnIndoorButton(w, down, n))
<1> DEFINE v == StopUltrasonic(w)
<1>1. Idle(v)
  BY SensorStops
<1> HIDE DEF v
<1>2. Idle(Dismiss(v)) /\ Idle([v EXCEPT !.s = UpdateLeds(@, n)])
  BY <1>1, DismissGood, LedsOfWorld
<1>3. Idle([Dismiss(v) EXCEPT !.s.led2 = 0])
  BY <1>2, Led2OfWorld
<1> QED
  BY <1>2, <1>3 DEF OnIndoorButton, v, Idle

\* the door contact,
LEMMA DoorButtonGood ==
    ASSUME NEW w, Idle(w), NEW down PROVE GoodWorld(OnDoorButton(w, down))
<1> DEFINE v == StopUltrasonic(w)
<1>1. Idle(v)
  BY SensorStops
<1> HIDE DEF v
<1>2. Idle(Dismiss(v)) /\ Idle([v EXCEPT !.s.door_closed = TRUE])
  BY <1>1, DismissGood, DoorOfWorld
<1>3. Idle([Dismiss(v) EXCEPT !.s.door_closed = FALSE])
  BY <1>2, DoorOfWorld
<1> QED
  BY <1>2, <1>3 DEF OnDoorButton, v, Idle

\* a change of the connected count,
LEMMA ConnectedGood ==
    ASSUME NEW w, Idle(w), NEW n PROVE GoodWorld(OnConnectedChanged(w, n))
<1> DEFINE v == CheckConnected(w, n)
<1>1. Idle(v)
  BY CheckConnectedGood
<1> HIDE DEF v
<1>2. Idle([v EXCEPT !.s = UpdateLeds(@, n)])
  BY <1>1, LedsOfWorld
<1> QED
  BY <1>2 DEF OnConnectedChanged, v, Idle

\* what the sensor detects,
LEMMA DetectGood ==
    ASSUME NEW t, GoodState(t), NEW n \in 0..3, NEW long
    PROVE  GoodState(Detect(t, n, long)) /\ Detect(t, n, long).calling = t.calling
<1> DEFINE t1 == [t EXCEPT !.detected = n]
           t2 == [t1 EXCEPT !.triggered = TRUE]
           a == IF CanAct(t, long) THEN "on" ELSE t.action
<1>1. Detect(t, n, long) = IF n > 2 /\ ~t.triggered THEN [t2 EXCEPT !.action = a] ELSE t1
  BY DEF Detect, GoodState, State
<1>2. GoodState(t1) /\ t1.calling = t.calling
  BY DEF GoodState, State
<1> HIDE DEF t1
<1>3. GoodState(t2) /\ t2.calling = t.calling
  BY <1>2 DEF GoodState, State
<1> HIDE DEF t2
<1>4. a \in Time
  BY DEF GoodState, State, Time
<1> HIDE DEF a
<1>5. GoodState([t2 EXCEPT !.action = a]) /\ [t2 EXCEPT !.action = a].calling = t.calling
  BY <1>3, <1>4 DEF GoodState, State
<1> QED
  BY <1>1, <1>2, <1>5

\* what it reports,
LEMMA ReadingGood ==
    ASSUME NEW w, Idle(w), NEW us, NEW long PROVE GoodWorld(OnUltrasonicData(w, us, long))
<1> DEFINE t == Detect(w.s, Count(w.s, us), long)
<1>1. GoodState(w.s)
  BY DEF Idle, GoodWorld
<1>2. Count(w.s, us) \in 0..3
  BY <1>1 DEF Count, GoodState, State
<1>3. GoodState(t) /\ t.calling = w.s.calling
  BY <1>1, <1>2, DetectGood
<1>4. OnUltrasonicData(w, us, long) = IF us = "zero" THEN w ELSE [w EXCEPT !.s = t]
  BY DEF OnUltrasonicData
<1> HIDE DEF t
<1> QED
  BY <1>3, <1>4, SetState DEF Idle

\* and so every message but the quit request leave a good world.
LEMMA DispatchGood ==
    ASSUME NEW w, Idle(w), NEW m \in Messages, m.kind # "quit", NEW n, NEW long
    PROVE  GoodWorld(Dispatch(w, m, n, long))
<1>1. m.kind \in {"main", "indoor", "door", "reading", "changed"}
  BY DEF Messages, Kinds
<1> QED
  BY <1>1, MainButtonGood, IndoorButtonGood, DoorButtonGood, ReadingGood, ConnectedGood
     DEF Dispatch

\* The bell's time is over; a timeout ends the calling and the bell; an approach.
LEMMA BellTimeoutGood ==
    ASSUME NEW t, GoodState(t)
    PROVE  GoodState(BellTimeout(t)) /\ BellTimeout(t).calling = t.calling
  BY StopBellGood DEF BellTimeout

\* A timeout ends the calling as an answer does.
LEMMA CallingTimeoutGood == ASSUME NEW w, Idle(w) PROVE Idle(CallingTimeout(w))
  BY EndAndStopGood DEF CallingTimeout

\* An approach begins a calling with no repeats left.
LEMMA ApproachGood ==
    ASSUME NEW w, Idle(w), NEW n
    PROVE  LET t == [BellBegins(w.s) EXCEPT !.action = "off", !.repeats = 0]
           IN  GoodWorld([StartCalling([w EXCEPT !.s = t], n) EXCEPT !.s.led1 = 0])
<1> DEFINE t0 == BellBegins(w.s)
           t1 == [t0 EXCEPT !.action = "off"]
           t == [t1 EXCEPT !.repeats = 0]
           v == [w EXCEPT !.s = t]
<1>1. GoodState(t0) /\ t0.calling = w.s.calling
  BY BellBeginsGood DEF Idle, GoodWorld
<1>2. t = [t0 EXCEPT !.action = "off", !.repeats = 0]
  BY <1>1 DEF GoodState, State
<1> HIDE DEF t0
<1>3. GoodState(t1) /\ t1.calling = w.s.calling
  BY <1>1 DEF GoodState, State, Time
<1> HIDE DEF t1
<1>4. GoodState(t) /\ t.calling = w.s.calling
  BY <1>3, Consts DEF GoodState, State
<1> HIDE DEF t
<1>5. Idle(v)
  BY <1>4, SetState
<1> HIDE DEF v
<1>6. GoodWorld([StartCalling(v, n) EXCEPT !.s.led1 = 0])
  BY <1>5, StartGood, Led1OfWorld
<1> QED
  BY <1>2, <1>6 DEF v, t0

-----------------------------------------------------------------------------
(* The inductive invariant *)

\* The rest of TypeOK.
RestOK ==
    /\ pc \in {"top", "handle", "tick", "poll", "end"} /\ back \in {"top", "tick"}
    /\ msg \in Messages /\ queue \in Seq(Messages)
    /\ seen \in 0..Cardinality(CallIds) /\ poll \in 0..(PhoneCount + 1)
    /\ held \subseteq Kinds /\ events \in 0..MaxEvents /\ made \in 0..MaxCalls

\* check_calls() runs for a script that is calling, and its caller's message was no quit.
LoopInv ==
    /\ pc = "poll" => s.calling /\ poll # 0
    /\ pc = "handle" => msg.kind # "quit"

IInv == RestOK /\ GoodWorld(World) /\ LoopInv

\* The invariant has the types in it.
LEMMA TypeFromIInv == IInv => TypeOK
  BY DEF IInv, RestOK, TypeOK, GoodWorld, Worlds, World, State, Phone, Call

\* The connected count is a count of calls.
LEMMA SeenType == ASSUME NEW cs PROVE Connected(cs) \in 0..Cardinality(CallIds)
<1> DEFINE S == {c \in CallIds : cs[c].state \in {"live", "hung"} /\ cs[c].main}
<1>1. S \subseteq CallIds /\ IsFiniteSet(CallIds)
  BY MainScriptAssumption
<1>2. IsFiniteSet(S) /\ Cardinality(S) <= Cardinality(CallIds)
  BY <1>1, FS_Subset
<1>3. Cardinality(S) \in Nat /\ Cardinality(CallIds) \in Nat
  BY <1>1, <1>2, FS_CardinalityType
<1> QED
  BY <1>2, <1>3 DEF Connected

\* The invariant holds at first,
LEMMA InitIInv == Init => IInv
<1> SUFFICES ASSUME Init PROVE IInv
  OBVIOUS
<1>1. RestOK
  <2>1. Cardinality(CallIds) \in Nat
    BY MainScriptAssumption, FS_CardinalityType
  <2> QED
    BY <2>1, MainScriptAssumption DEF Init, RestOK, Messages
<1>2. s \in State /\ GoodState(s)
  BY Consts DEF Init, State, GoodState, Time
<1>3. phones \in [Phones -> Phone]
  BY DEF Init, IdlePhone, Phone, Time
<1>4. calls \in [CallIds -> Call] /\ \A c \in CallIds : calls[c].state = "none"
  BY DEF Init, FreeCall, Call
<1>5. GoodWorld(World)
  BY <1>2, <1>3, <1>4 DEF GoodWorld, Worlds, World, RingsIn
<1>6. LoopInv
  BY DEF Init, LoopInv
<1> QED
  BY <1>1, <1>5, <1>6 DEF IInv

\* What a handler leaves, the script's variables take over.
LEMMA BecomeGood ==
    ASSUME NEW w, GoodWorld(w), NEW next \in {"top", "tick"}, Become(w, next)
    PROVE  /\ GoodWorld(World)' /\ pc' \in {"top", "tick", "poll"} /\ back' \in {"top", "tick"}
           /\ poll' \in 0..(PhoneCount + 1) /\ LoopInv'
<1>1. GoodWorld(World)'
  BY DEF Become, World, GoodWorld, Worlds, RingsIn
<1>2. pc' = "poll" => s'.calling /\ poll' = 1
  BY DEF Become, GoodWorld
<1>3. PhoneCount \in Nat
  BY Consts
<1> QED
  BY <1>1, <1>2, <1>3 DEF Become, LoopInv

\* Between two handlers the world is the state.
LEMMA WorldIsIdle == IInv => Idle(World)
  BY DEF IInv, Idle, World

\* A step that changes one call, and leaves it ringing only if it rang, or leaves the
\* calls alone and changes nothing that the properties are about.
LEMMA CallsChange ==
    ASSUME GoodWorld(World), UNCHANGED <<s, phones>>, NEW c \in CallIds, NEW n \in Call,
           calls' = [calls EXCEPT ![c] = n],
           n.state = "live" /\ n.tag = 1 => RingsIn(World, c) /\ n.phone = calls[c].phone
    PROVE  GoodWorld(World)'
<1>1. calls' \in [CallIds -> Call]
  BY DEF GoodWorld, Worlds, World
<1>2. ASSUME NEW d \in CallIds, calls'[d].state = "live" /\ calls'[d].tag = 1
      PROVE  /\ RingsIn(World, d) /\ calls'[d].phone = calls[d].phone
  BY <1>1, <1>2 DEF GoodWorld, Worlds, World, RingsIn
<1> QED
  BY <1>1, <1>2 DEF GoodWorld, Worlds, World, RingsIn

\* A call that is made, and the phone that watches it.
LEMMA NewCall ==
    ASSUME NEW p \in Phones
    PROVE  LET n == [FreeCall EXCEPT !.state = "live", !.tag = 1, !.phone = p]
           IN  n \in Call /\ n.phone = p
<1> DEFINE n1 == [FreeCall EXCEPT !.state = "live"]
           n2 == [n1 EXCEPT !.tag = 1]
           n == [n2 EXCEPT !.phone = p]
<1>0. FreeCall \in Call
  BY DEF FreeCall, Call
<1>1. n1 \in Call
  BY <1>0 DEF Call
<1>2. n = [FreeCall EXCEPT !.state = "live", !.tag = 1, !.phone = p]
  OBVIOUS
<1> HIDE DEF n1
<1>3. n2 \in Call
  BY <1>1 DEF Call
<1> HIDE DEF n2
<1>4. n \in Call /\ n.phone = p
  BY <1>3 DEF Call
<1> QED
  BY <1>2, <1>4

\* The phone that watches a new call.
LEMMA PhoneWatches ==
    ASSUME NEW f \in Phone, NEW c \in CallIds
    PROVE  LET q == [f EXCEPT !.callid = c, !.end_time = "off"]
           IN  q \in Phone /\ q.callid = c
<1> DEFINE q1 == [f EXCEPT !.callid = c]
           q == [q1 EXCEPT !.end_time = "off"]
<1>1. q = [f EXCEPT !.callid = c, !.end_time = "off"]
  OBVIOUS
<1>2. q1 \in Phone /\ q1.callid = c
  BY DEF Phone
<1> HIDE DEF q1
<1>3. q \in Phone /\ q.callid = c
  BY <1>2 DEF Phone, Time
<1> QED
  BY <1>1, <1>3

\* A step of the script's thread.
LEMMA ScriptStep == ASSUME IInv, Script PROVE IInv'
<1> USE DEF IInv
<1>w. Idle(World)
  BY WorldIsIdle
<1>1. ASSUME TakeMessage PROVE IInv'
  <2>1. GoodWorld(World)'
    BY <1>1 DEF TakeMessage, World, GoodWorld, Worlds, RingsIn
  <2>2. seen' \in 0..Cardinality(CallIds)
    BY <1>1, SeenType DEF TakeMessage
  <2>3. Head(queue) \in Messages /\ Tail(queue) \in Seq(Messages)
    BY <1>1 DEF TakeMessage, RestOK
  <2> QED
    BY <1>1, <2>1, <2>2, <2>3 DEF TakeMessage, RestOK, LoopInv
<1>2. ASSUME Handle PROVE IInv'
  <2>1. PICK long \in BOOLEAN : Become(Dispatch(World, msg, seen, long), "top")
    BY <1>2 DEF Handle
  <2> DEFINE w == Dispatch(World, msg, seen, long)
  <2>2. GoodWorld(w)
    BY <1>w, <1>2, DispatchGood DEF Handle, RestOK, LoopInv
  <2>b. Become(w, "top")
    BY <2>1
  <2> HIDE DEF w
  <2>3. /\ GoodWorld(World)' /\ pc' \in {"top", "tick", "poll"} /\ back' \in {"top", "tick"}
        /\ poll' \in 0..(PhoneCount + 1) /\ LoopInv'
    BY <2>b, <2>2, BecomeGood
  <2>4. msg' \in Messages /\ seen' \in 0..Cardinality(CallIds)
    BY <1>2, MainScriptAssumption, FS_CardinalityType DEF Handle, Messages
  <2> QED
    BY <1>2, <2>3, <2>4 DEF Handle, RestOK
<1>3. ASSUME Approach PROVE IInv'
  <2> DEFINE t == [BellBegins(s) EXCEPT !.action = "off", !.repeats = 0]
             v == StartCalling([World EXCEPT !.s = t], Connected(calls))
             w == IF s.action = "due" THEN [v EXCEPT !.s.led1 = 0] ELSE World
  <2>1. Become(w, "tick")
    BY <1>3 DEF Approach
  <2>2. World.s = s
    BY DEF World
  <2>3. GoodWorld([v EXCEPT !.s.led1 = 0])
    BY <1>w, <2>2, ApproachGood
  <2>4. GoodWorld(w)
    BY <1>w, <2>3 DEF Idle
  <2> HIDE DEF w
  <2>5. /\ GoodWorld(World)' /\ pc' \in {"top", "tick", "poll"} /\ back' \in {"top", "tick"}
        /\ poll' \in 0..(PhoneCount + 1) /\ LoopInv'
    BY <2>1, <2>4, BecomeGood
  <2> QED
    BY <1>3, <2>5 DEF Approach, RestOK
<1>4. ASSUME Tick PROVE IInv'
  <2> DEFINE t == BellTimeout(s)
             v == [World EXCEPT !.s = t]
             w == CallingTimeout(v)
             u == [w EXCEPT !.s = IF t.calling THEN RepeatBell(@) ELSE @]
             x == [w EXCEPT !.s = IF t.calling THEN RepeatBell(@) ELSE @,
                            !.dial = w.s.calling]
  <2>1. Become(x, "top")
    BY <1>4 DEF Tick
  <2>2. GoodState(s) /\ World.s = s
    BY DEF World, GoodWorld
  <2>3. GoodState(t) /\ t.calling = s.calling
    BY <2>2, BellTimeoutGood
  <2> HIDE DEF t
  <2>4. Idle(v)
    BY <1>w, <2>2, <2>3, SetState
  <2> HIDE DEF v
  <2>5. Idle(w)
    BY <2>4, CallingTimeoutGood
  <2> HIDE DEF w
  <2>6. GoodState(w.s) /\ w \in Worlds
    BY <2>5 DEF Idle, GoodWorld
  <2>7. RepeatBell(w.s) = w.s
    BY <2>6, RepeatIdle
  <2>8. x = [w EXCEPT !.dial = w.s.calling]
    BY <2>6, <2>7 DEF Worlds
  <2> HIDE DEF x
  <2>9. GoodWorld(x)
    BY <2>5, <2>6, <2>8 DEF Idle, GoodWorld, Worlds, RingsIn, GoodState, State
  <2>10. /\ GoodWorld(World)' /\ pc' \in {"top", "tick", "poll"} /\ back' \in {"top", "tick"}
         /\ poll' \in 0..(PhoneCount + 1) /\ LoopInv'
    BY <2>1, <2>9, BecomeGood
  <2> QED
    BY <1>4, <2>10 DEF Tick, RestOK
<1>p. ASSUME pc = "poll", poll <= PhoneCount
      PROVE  /\ poll \in Phones /\ s.calling /\ phones \in [Phones -> Phone]
             /\ Noticed(phones[poll]) \in Phone
             /\ phones[poll].callid \in CallIds /\ calls[phones[poll].callid].state = "live"
                => Noticed(phones[poll]).callid = phones[poll].callid
  <2>1. poll \in Phones /\ s.calling
    BY <1>p, Consts DEF RestOK, LoopInv, Phones
  <2>2. phones \in [Phones -> Phone] /\ phones[poll] \in Phone
    BY <2>1 DEF GoodWorld, Worlds, World
  <2> DEFINE p == phones[poll]
  <2>3. p \in Phone
    BY <2>2
  <2> HIDE DEF p
  <2>4. Noticed(p) \in Phone
        /\ (p.callid \in CallIds /\ calls[p.callid].state = "live" => Noticed(p).callid = p.callid)
    BY <2>3, Consts DEF Noticed, Phone, Time, StillActive
  <2> QED
    BY <2>1, <2>2, <2>4 DEF p
<1>5. ASSUME CheckPhone PROVE IInv'
  <2>1. /\ poll \in Phones /\ s.calling /\ phones \in [Phones -> Phone]
        /\ Noticed(phones[poll]) \in Phone
        /\ phones[poll].callid \in CallIds /\ calls[phones[poll].callid].state = "live"
           => Noticed(phones[poll]).callid = phones[poll].callid
    BY <1>5, <1>p DEF CheckPhone
  <2>2. phones' = [phones EXCEPT ![poll] = Noticed(phones[poll])] /\ UNCHANGED <<s, calls>>
    BY <1>5 DEF CheckPhone
  <2>3. phones' \in [Phones -> Phone]
    BY <2>1, <2>2
  <2>4. ASSUME NEW c \in CallIds, calls[c].state = "live", calls[c].tag = 1
        PROVE  /\ s.calling /\ calls[c].phone \in Phones
               /\ phones'[calls[c].phone].callid = c
    <3>1. calls[c].phone \in Phones /\ phones[calls[c].phone].callid = c
      BY <2>4 DEF GoodWorld, RingsIn, World
    <3> QED
      BY <2>1, <2>2, <2>4, <3>1
  <2>5. GoodWorld(World)'
    BY <2>2, <2>3, <2>4 DEF GoodWorld, RingsIn, World, Worlds
  <2>6. poll' \in 0..(PhoneCount + 1) /\ poll' # 0 /\ s'.calling /\ pc' = "poll"
    BY <1>5, <2>1, <2>2, Consts DEF CheckPhone, Phones
  <2> QED
    BY <1>5, <2>5, <2>6 DEF CheckPhone, RestOK, LoopInv
<1>6. ASSUME Dial PROVE IInv'
  <2>1. /\ poll \in Phones /\ s.calling /\ phones \in [Phones -> Phone]
        /\ Noticed(phones[poll]) \in Phone
        /\ phones[poll].callid \in CallIds /\ calls[phones[poll].callid].state = "live"
           => Noticed(phones[poll]).callid = phones[poll].callid
    BY <1>6, <1>p DEF Dial
  <2>2. Noticed(phones[poll]).callid = NoCall
    BY <1>6 DEF Dial, MayDial
  <2>3. \A d \in CallIds : calls[d].state = "live" /\ calls[d].tag = 1 =>
          calls[d].phone \in Phones \ {poll} /\ phones[calls[d].phone].callid = d
    BY <2>1, <2>2, Consts DEF GoodWorld, RingsIn, World
  <2>4. poll' \in 0..(PhoneCount + 1) /\ poll' # 0 /\ s' = s /\ pc' = "poll"
    <3>1. pc = "poll" /\ poll' = poll + 1 /\ UNCHANGED <<pc, s>>
      BY <1>6 DEF Dial
    <3> QED
      BY <2>1, <3>1, Consts DEF Phones
  <2>5. calls \in [CallIds -> Call] /\ phones[poll] \in Phone /\ s \in State /\ GoodState(s)
    BY <2>1 DEF GoodWorld, World, Worlds
  <2>6. CASE \E c \in CallIds :
               /\ calls[c].state = "none" /\ made < MaxCalls /\ made' = made + 1
               /\ calls' = [calls EXCEPT ![c] =
                    [FreeCall EXCEPT !.state = "live", !.tag = 1, !.phone = poll]]
               /\ phones' = [phones EXCEPT ![poll] =
                    [@ EXCEPT !.callid = c, !.end_time = "off"]]
    <3> PICK c \in CallIds :
               /\ calls[c].state = "none" /\ made < MaxCalls /\ made' = made + 1
               /\ calls' = [calls EXCEPT ![c] =
                    [FreeCall EXCEPT !.state = "live", !.tag = 1, !.phone = poll]]
               /\ phones' = [phones EXCEPT ![poll] =
                    [@ EXCEPT !.callid = c, !.end_time = "off"]]
      BY <2>6
    <3> DEFINE n == [FreeCall EXCEPT !.state = "live", !.tag = 1, !.phone = poll]
    <3>1. calls' = [calls EXCEPT ![c] = n]
      OBVIOUS
    <3>4. n \in Call /\ n.phone = poll
      BY <2>1, NewCall
    <3> HIDE DEF n
    <3> DEFINE q == [phones[poll] EXCEPT !.callid = c, !.end_time = "off"]
    <3>2. phones' = [phones EXCEPT ![poll] = q]
      OBVIOUS
    <3>3. q \in Phone /\ q.callid = c
      BY <2>5, PhoneWatches
    <3> HIDE DEF q
    <3>b. /\ phones' \in [Phones -> Phone] /\ phones'[poll].callid = c
          /\ \A p \in Phones \ {poll} : phones'[p] = phones[p]
      BY <2>1, <3>2, <3>3
    <3>5. calls' \in [CallIds -> Call] /\ calls'[c] = n
      BY <2>5, <3>1, <3>4
    <3>6. ASSUME NEW d \in CallIds, calls'[d].state = "live", calls'[d].tag = 1
          PROVE  calls'[d].phone \in Phones /\ phones'[calls'[d].phone].callid = d
      <4>1. CASE d = c
        BY <2>1, <3>4, <3>5, <3>b, <4>1
      <4>2. CASE d # c
        <5>1. calls'[d] = calls[d]
          BY <2>5, <3>1, <4>2
        <5> QED
          BY <2>3, <3>6, <3>b, <5>1
      <4> QED
        BY <4>1, <4>2
    <3>7. GoodWorld(World)'
      BY <2>1, <2>4, <2>5, <3>5, <3>6, <3>b DEF GoodWorld, RingsIn, World, Worlds
    <3>8. made' \in 0..MaxCalls
      BY MainScriptAssumption DEF RestOK
    <3> QED
      BY <1>6, <2>1, <2>4, <3>7, <3>8 DEF Dial, RestOK, LoopInv
  <2>7. CASE phones' = [phones EXCEPT ![poll].end_time = "on"] /\ UNCHANGED <<calls, made>>
    <3>1. phones' \in [Phones -> Phone]
      BY <2>1, <2>5, <2>7 DEF Phone, Time
    <3>2. \A d \in CallIds : calls[d].state = "live" /\ calls[d].tag = 1 =>
            calls[d].phone \in Phones /\ phones'[calls[d].phone].callid = d
      BY <2>1, <2>3, <2>7
    <3>3. GoodWorld(World)'
      BY <2>1, <2>4, <2>5, <2>7, <3>1, <3>2 DEF GoodWorld, RingsIn, World, Worlds
    <3> QED
      BY <1>6, <2>1, <2>4, <2>7, <3>3 DEF Dial, RestOK, LoopInv
  <2> QED
    BY <1>6, <2>6, <2>7 DEF Dial
<1>7. ASSUME CheckedAll PROVE IInv'
  <2>1. GoodWorld(World)'
    BY <1>7 DEF CheckedAll, World, GoodWorld, Worlds, RingsIn
  <2>2. 0 \in 0..(PhoneCount + 1)
    BY Consts
  <2> QED
    BY <1>7, <2>1, <2>2 DEF CheckedAll, RestOK, LoopInv
<1> QED
  BY <1>1, <1>2, <1>3, <1>4, <1>5, <1>6, <1>7 DEF Script

\* A step of the rest of the program, or of the people.
LEMMA OtherStep ==
    ASSUME IInv
    PROVE  \/ \E f \in Timers : TimePasses(f)
           \/ \E p \in Phones : PhoneDelay(p)
           \/ \E c \in CallIds : \/ Confirm(c) \/ SwitchMain(c) \/ EndCall(c)
                                 \/ Receive(c) \/ PostChanged(c)
           \/ \E b \in Buttons : Press(b)
           \/ \E r \in Readings : Measure(r)
           \/ Quit
           => IInv'
<1> USE DEF IInv
<1>m. MaxEvents \in Nat /\ MaxCalls \in Nat
  BY MainScriptAssumption
<1>g. GoodWorld(World) /\ calls \in [CallIds -> Call] /\ phones \in [Phones -> Phone]
      /\ s \in State /\ GoodState(s)
  BY DEF GoodWorld, World, Worlds
<1>1. ASSUME NEW f \in Timers, TimePasses(f) PROVE IInv'
  <2>1. s[f] = "on" /\ s' = [s EXCEPT ![f] = "due"] /\ UNCHANGED <<phones, calls>>
    BY <1>1 DEF TimePasses
  <2>2. GoodState(s') /\ s'.calling = s.calling
    <3>1. CASE f = "start"
      BY <1>g, <2>1, <3>1 DEF GoodState, State, Time
    <3>2. CASE f = "bell_start"
      BY <1>g, <2>1, <3>2 DEF GoodState, State, Time
    <3>3. CASE f = "bell_stop"
      BY <1>g, <2>1, <3>3 DEF GoodState, State, Time
    <3>4. CASE f = "action"
      BY <1>g, <2>1, <3>4 DEF GoodState, State, Time
    <3> QED
      BY <3>1, <3>2, <3>3, <3>4 DEF Timers
  <2>3. GoodWorld(World)'
    BY <1>g, <2>1, <2>2 DEF GoodWorld, World, Worlds, RingsIn, GoodState
  <2> QED
    BY <1>1, <2>2, <2>3 DEF TimePasses, RestOK, LoopInv
<1>2. ASSUME NEW p \in Phones, PhoneDelay(p) PROVE IInv'
  <2>1. PICK q \in Phone : q.callid = phones[p].callid /\ phones' = [phones EXCEPT ![p] = q]
    <3>1. CASE phones' = [phones EXCEPT ![p].due = TRUE]
      <4>1. [phones[p] EXCEPT !.due = TRUE] \in Phone
            /\ [phones[p] EXCEPT !.due = TRUE].callid = phones[p].callid
        BY <1>g DEF Phone
      <4> QED
        BY <3>1, <4>1
    <3>2. CASE phones' = [phones EXCEPT ![p].end_time = "due"]
      <4>1. [phones[p] EXCEPT !.end_time = "due"] \in Phone
            /\ [phones[p] EXCEPT !.end_time = "due"].callid = phones[p].callid
        BY <1>g DEF Phone, Time
      <4> QED
        BY <3>2, <4>1
    <3> QED
      BY <1>2, <3>1, <3>2 DEF PhoneDelay
  <2>2. UNCHANGED <<s, calls>>
    BY <1>2 DEF PhoneDelay
  <2>3. phones' \in [Phones -> Phone] /\ \A r \in Phones : phones'[r].callid = phones[r].callid
    BY <1>g, <2>1
  <2>4. GoodWorld(World)'
    BY <1>g, <2>2, <2>3 DEF GoodWorld, World, Worlds, RingsIn
  <2> QED
    BY <1>2, <2>4 DEF PhoneDelay, RestOK, LoopInv
<1>3. ASSUME NEW c \in CallIds, Confirm(c) PROVE IInv'
  <2> DEFINE n == [calls[c] EXCEPT !.tag = 0]
  <2>1. n \in Call /\ n.tag # 1
    BY <1>g DEF Call
  <2>2. calls' = [calls EXCEPT ![c] = n] /\ UNCHANGED <<scriptVars, queue, held, events, made>>
    BY <1>3 DEF Confirm, CallStep
  <2> HIDE DEF n
  <2>3. GoodWorld(World)'
    BY <1>g, <2>1, <2>2, CallsChange DEF scriptVars
  <2> QED
    BY <2>2, <2>3 DEF scriptVars, RestOK, LoopInv
<1>4. ASSUME NEW c \in CallIds, SwitchMain(c) PROVE IInv'
  <2> DEFINE n1 == [calls[c] EXCEPT !.main = ~calls[c].main]
             n == [n1 EXCEPT !.post = TRUE]
  <2>1. n1 \in Call /\ n1.tag = calls[c].tag
    BY <1>g DEF Call
  <2>2. calls' = [calls EXCEPT ![c] = n] /\ UNCHANGED <<scriptVars, queue, held, events>>
        /\ calls[c].tag = 0 /\ made < MaxCalls /\ made' = made + 1
    BY <1>4 DEF SwitchMain, CallStep
  <2> HIDE DEF n1
  <2>3. n \in Call /\ n.tag = 0
    BY <2>1, <2>2 DEF Call
  <2> HIDE DEF n
  <2>0. n.tag # 1
    BY <2>3
  <2>4. GoodWorld(World)'
    BY <1>g, <2>2, <2>3, <2>0, CallsChange DEF scriptVars
  <2> QED
    BY <1>m, <2>2, <2>4 DEF scriptVars, RestOK, LoopInv
<1>5. ASSUME NEW c \in CallIds, EndCall(c) PROVE IInv'
  <2> DEFINE n1 == [calls[c] EXCEPT !.state = "gone"]
             n == [n1 EXCEPT !.post = TRUE]
  <2>1. n1 \in Call /\ n1.state = "gone"
    BY <1>g DEF Call
  <2>2. calls' = [calls EXCEPT ![c] = n] /\ UNCHANGED <<scriptVars, queue, held, events, made>>
    BY <1>5 DEF EndCall, CallStep
  <2> HIDE DEF n1
  <2>3. n \in Call /\ n.state = "gone"
    BY <2>1 DEF Call
  <2> HIDE DEF n
  <2>4. GoodWorld(World)'
    BY <1>g, <2>2, <2>3, CallsChange DEF scriptVars
  <2> QED
    BY <2>2, <2>4 DEF scriptVars, RestOK, LoopInv
<1>f. FreeCall \in Call /\ FreeCall.state = "none" /\ FreeCall.tag = 0
  BY DEF FreeCall, Call
<1>6. ASSUME NEW c \in CallIds, Receive(c) PROVE IInv'
  <2> DEFINE n == [FreeCall EXCEPT !.state = "live"]
  <2>1. n \in Call /\ n.tag # 1
    BY <1>f DEF Call
  <2>2. calls' = [calls EXCEPT ![c] = n] /\ UNCHANGED <<scriptVars, queue, held, events>>
        /\ made < MaxCalls /\ made' = made + 1
    BY <1>6 DEF Receive, CallStep
  <2> HIDE DEF n
  <2>3. GoodWorld(World)'
    BY <1>g, <2>1, <2>2, CallsChange DEF scriptVars
  <2> QED
    BY <1>m, <2>2, <2>3 DEF scriptVars, RestOK, LoopInv
<1>7. ASSUME NEW c \in CallIds, PostChanged(c) PROVE IInv'
  <2> DEFINE p == [calls[c] EXCEPT !.post = FALSE]
             n == IF calls[c].state = "gone" THEN FreeCall ELSE p
  <2>1. p \in Call /\ p.state = calls[c].state /\ p.tag = calls[c].tag
        /\ p.phone = calls[c].phone
    BY <1>g DEF Call
  <2>2. calls' = [calls EXCEPT ![c] = n] /\ UNCHANGED <<scriptVars, held, events, made>>
        /\ queue' = Append(queue, [kind |-> "changed"])
    BY <1>7 DEF PostChanged
  <2> HIDE DEF p
  <2>3. n \in Call /\ (n.state = "live" /\ n.tag = 1 =>
                         RingsIn(World, c) /\ n.phone = calls[c].phone)
    BY <1>f, <2>1 DEF RingsIn, World
  <2> HIDE DEF n
  <2>4. GoodWorld(World)'
    BY <1>g, <2>2, <2>3, CallsChange DEF scriptVars
  <2>5. queue' \in Seq(Messages)
    BY <2>2 DEF RestOK, Messages
  <2> QED
    BY <2>2, <2>4, <2>5 DEF scriptVars, RestOK, LoopInv
<1>a. ASSUME NEW m \in Messages, Arrives(m), held' \subseteq Kinds PROVE IInv'
  <2>1. /\ events < MaxEvents /\ events' = events + 1 /\ queue' = Append(queue, m)
        /\ UNCHANGED <<scriptVars, calls, made>>
    BY <1>a DEF Arrives
  <2>2. GoodWorld(World)'
    BY <1>g, <2>1 DEF scriptVars, GoodWorld, World, Worlds, RingsIn
  <2>3. queue' \in Seq(Messages)
    BY <2>1 DEF RestOK
  <2> QED
    BY <1>m, <1>a, <2>1, <2>2, <2>3 DEF scriptVars, RestOK, LoopInv
<1>8. ASSUME NEW b \in Buttons, Press(b) PROVE IInv'
  <2>1. b \in Kinds
    BY MainScriptAssumption DEF Kinds
  <2>2. [kind |-> b, down |-> b \notin held] \in Messages
    BY <2>1 DEF Messages
  <2>3. held' \subseteq Kinds
    BY <1>8, <2>1 DEF Press, RestOK
  <2> QED
    BY <1>8, <1>a, <2>2, <2>3 DEF Press
<1>9. ASSUME NEW r \in Readings, Measure(r) PROVE IInv'
  <2>1. [kind |-> "reading", us |-> r] \in Messages
    BY MainScriptAssumption DEF Messages
  <2> QED
    BY <1>9, <1>a, <2>1 DEF Measure, RestOK
<1>10. ASSUME Quit PROVE IInv'
  <2>1. GoodWorld(World)'
    BY <1>g, <1>10 DEF Quit, scriptVars, GoodWorld, World, Worlds, RingsIn
  <2>2. <<[kind |-> "quit"]>> \in Seq(Messages)
    BY DEF Messages
  <2>3. queue' \in Seq(Messages)
    BY <1>10, <2>2 DEF Quit, RestOK
  <2> QED
    BY <1>m, <1>10, <2>1, <2>3 DEF Quit, scriptVars, RestOK, LoopInv
<1> QED
  BY <1>1, <1>2, <1>3, <1>4, <1>5, <1>6, <1>7, <1>8, <1>9, <1>10

\* Every step keeps the invariant.
LEMMA StepIInv == ASSUME IInv, [Next]_vars PROVE IInv'
<1>1. CASE UNCHANGED vars
  BY <1>1 DEF vars, IInv, RestOK, LoopInv, GoodWorld, World, Worlds, RingsIn
<1> QED
  BY <1>1, ScriptStep, OtherStep DEF Next

-----------------------------------------------------------------------------
(* Connections and the messages about them *)

\* A call that is connected to the door, and the count of those that are.
OnMain(cs, c) == cs[c].state \in {"live", "hung"} /\ cs[c].main
SomeoneConnected == \E c \in CallIds : OnMain(calls, c)

\* A message about the connections is owed, or waits.
NewsWait == \E i \in 1..Len(queue) : queue[i].kind = "changed"
News == NewsWait \/ \E c \in CallIds : calls[c].post

\* While somebody is connected the count that was read says so or there are news; and
\* a calling that goes on has news to come, or in hand.
NewsInv ==
    /\ \A c \in CallIds : calls[c].state = "none" => ~calls[c].post
    /\ SomeoneConnected /\ pc = "handle" => seen > 0 \/ News
    /\ SomeoneConnected /\ s.calling =>
          News \/ (pc = "handle" /\ msg.kind = "changed" /\ seen > 0)

\* The count is positive when somebody is counted.
LEMMA ConnectedSome ==
    ASSUME NEW cs PROVE Connected(cs) > 0 <=> \E c \in CallIds : OnMain(cs, c)
<1> DEFINE S == {c \in CallIds : cs[c].state \in {"live", "hung"} /\ cs[c].main}
<1>1. IsFiniteSet(S)
  BY MainScriptAssumption, FS_Subset
<1>2. Cardinality(S) \in Nat /\ (Cardinality(S) = 0 <=> S = {})
  BY <1>1, FS_CardinalityType, FS_EmptySet
<1>3. S # {} <=> \E c \in CallIds : OnMain(cs, c)
  BY DEF OnMain
<1>4. Connected(cs) = Cardinality(S)
  BY DEF Connected
<1> HIDE DEF S
<1> QED
  BY <1>2, <1>3, <1>4

\* A method of the script leaves the calls or hangs up those it made, and it begins to
\* call only when it was told a count of zero.
Calm(v, w, n) ==
    /\ v.calls \in {w.calls, HangupOutgoing(w.calls)}
    /\ v.s.calling => w.s.calling \/ ~(n > 0)

(* Hanging up all the phones leaves the news about the connection alone. *)
LEMMA HangupKeeps ==
    ASSUME NEW cs \in [CallIds -> Call], NEW d \in {cs, HangupOutgoing(cs)}
    PROVE  \A c \in CallIds : /\ d[c].post = cs[c].post /\ OnMain(d, c) = OnMain(cs, c)
                              /\ d[c].state = "none" <=> cs[c].state = "none"
<1>1. ASSUME NEW c \in CallIds
      PROVE  LET h == HangupOutgoing(cs)
             IN  /\ h[c].post = cs[c].post /\ h[c].main = cs[c].main
                 /\ \/ h[c].state = cs[c].state
                    \/ cs[c].state = "live" /\ h[c].state = "hung"
  <2>1. HangupOutgoing(cs)[c] = IF cs[c].state = "live" /\ cs[c].tag = 1
                                THEN [cs[c] EXCEPT !.state = "hung"] ELSE cs[c]
    BY DEF HangupOutgoing
  <2>2. cs[c] \in Call
    OBVIOUS
  <2> DEFINE k == cs[c]
  <2>3. k \in Call
    BY <2>2
  <2> HIDE DEF k
  <2>4. LET g == [k EXCEPT !.state = "hung"]
        IN  g.post = k.post /\ g.main = k.main /\ g.state = "hung"
    BY <2>3 DEF Call
  <2>5. CASE cs[c].state = "live" /\ cs[c].tag = 1
    BY <2>1, <2>4, <2>5 DEF k
  <2>6. CASE ~(cs[c].state = "live" /\ cs[c].tag = 1)
    BY <2>1, <2>6
  <2> QED
    BY <2>5, <2>6
<1>2. CASE d = cs
  BY <1>2
<1>3. CASE d = HangupOutgoing(cs)
  <2> SUFFICES ASSUME NEW c \in CallIds
               PROVE  /\ d[c].post = cs[c].post /\ OnMain(d, c) = OnMain(cs, c)
                      /\ d[c].state = "none" <=> cs[c].state = "none"
    OBVIOUS
  <2>1. /\ d[c].post = cs[c].post /\ d[c].main = cs[c].main
        /\ \/ d[c].state = cs[c].state
           \/ cs[c].state = "live" /\ d[c].state = "hung"
    BY <1>1, <1>3
  <2>2. OnMain(d, c) <=> OnMain(cs, c)
    BY <2>1 DEF OnMain
  <2> QED
    BY <2>1, <2>2 DEF OnMain
<1> QED
  BY <1>2, <1>3

\* The end of the calling,
LEMMA EndCalm ==
    ASSUME NEW w, Idle(w)
    PROVE  /\ OnCallingEnd(w).calls = HangupOutgoing(w.calls) /\ ~OnCallingEnd(w).s.calling
           /\ OnCallingEnd(w) \in Worlds
<1>1. OnCallingEnd(w).calls = HangupOutgoing(w.calls)
  BY DEF OnCallingEnd, Idle, GoodWorld, Worlds
<1> QED
  BY <1>1, EndGood DEF Idle, GoodWorld

\* a new state of the fields,
LEMMA FieldsCalm ==
    ASSUME NEW w \in Worlds, NEW t
    PROVE  [w EXCEPT !.s = t].calls = w.calls /\ [w EXCEPT !.s = t].s = t
  BY DEF Worlds

\* the begin of a calling,
LEMMA StartCalm == ASSUME NEW w, Idle(w), NEW n PROVE Calm(StartCalling(w, n), w, n)
<1> DEFINE t0 == BellBegins(w.s)
           t1 == [t0 EXCEPT !.calling = TRUE]
           t == [t1 EXCEPT !.start = "on"]
           v == [w EXCEPT !.s = t]
<1>w. w \in Worlds
  BY DEF Idle, GoodWorld
<1>1. CASE w.s.calling
  <2>1. StartCalling(w, n) = [w EXCEPT !.s = RingAgain(w.s)]
    BY <1>1 DEF StartCalling
  <2>2. StartCalling(w, n).calls = w.calls
    BY <1>w, <2>1, FieldsCalm
  <2> QED
    BY <1>1, <2>2 DEF Calm
<1>2. CASE ~w.s.calling
  <2>1. GoodState(t0)
    BY BellBeginsGood DEF Idle, GoodWorld
  <2>2. StartCalling(w, n) = IF EndsCalling(t, n) THEN OnCallingEnd(v) ELSE PrepareCalls(v)
    BY <1>2 DEF StartCalling
  <2> HIDE DEF t0
  <2>3. GoodState(t1) /\ t1.calling
    BY <2>1 DEF GoodState, State
  <2> HIDE DEF t1
  <2>4. GoodState(t) /\ t.calling
    BY <2>3 DEF GoodState, State, Time
  <2> HIDE DEF t
  <2>5. v \in Worlds /\ v.s = t /\ v.calls = w.calls /\ v.dial = FALSE
    BY <2>4 DEF Idle, GoodWorld, Worlds, GoodState
  <2>6. \A c \in CallIds : ~RingsIn(v, c)
    BY <1>2, <2>5 DEF Idle, GoodWorld, RingsIn
  <2>7. Idle(v)
    BY <2>4, <2>5, <2>6 DEF Idle, GoodWorld
  <2> HIDE DEF v
  <2>8. CASE EndsCalling(t, n)
    BY <2>2, <2>5, <2>7, <2>8, EndCalm DEF Calm
  <2>9. CASE ~EndsCalling(t, n)
    <3>1. ~(n > 0)
      BY <2>4, <2>9 DEF EndsCalling
    <3>2. PrepareCalls(v).calls = HangupOutgoing(v.calls)
      BY <2>5 DEF PrepareCalls, Worlds
    <3> QED
      BY <2>2, <2>5, <2>9, <3>1, <3>2 DEF Calm
  <2> QED
    BY <2>8, <2>9
<1> QED
  BY <1>1, <1>2

\* an indoor button or the door,
LEMMA DismissCalm == ASSUME NEW w, Idle(w), NEW n PROVE Calm(Dismiss(w), w, n)
<1> DEFINE v == OnCallingEnd(w)
<1>1. Idle(v) /\ v.calls = HangupOutgoing(w.calls) /\ v \in Worlds /\ ~v.s.calling
  BY EndGood, EndCalm
<1>2. Dismiss(w) = IF w.s.calling THEN [v EXCEPT !.s = StopBell(v.s)] ELSE w
  BY DEF Dismiss
<1> HIDE DEF v
<1>3. [v EXCEPT !.s = StopBell(v.s)].calls = v.calls
  BY <1>1, FieldsCalm
<1> QED
  BY <1>1, <1>2, <1>3 DEF Calm

\* a turn's timeout,
LEMMA TimeoutCalm ==
    ASSUME NEW w, Idle(w)
    PROVE  /\ CallingTimeout(w).calls \in {w.calls, HangupOutgoing(w.calls)}
           /\ CallingTimeout(w).s.calling => w.s.calling
<1> DEFINE v == OnCallingEnd(w)
           t == StopBell(v.s)
<1>1. Idle(v) /\ v.calls = HangupOutgoing(w.calls) /\ v \in Worlds /\ ~v.s.calling
  BY EndGood, EndCalm
<1>2. t.calling = v.s.calling
  BY <1>1, StopBellGood DEF Idle, GoodWorld
<1>3. CallingTimeout(w) = IF w.s.calling /\ w.s.start = "due" THEN [v EXCEPT !.s = t] ELSE w
  BY DEF CallingTimeout
<1> HIDE DEF v, t
<1>4. [v EXCEPT !.s = t].calls = v.calls /\ [v EXCEPT !.s = t].s = t
  BY <1>1, FieldsCalm
<1> QED
  BY <1>1, <1>2, <1>3, <1>4

\* the lights and the door,
LEMMA FieldKeeps ==
    ASSUME NEW w, GoodWorld(w), NEW d \in BOOLEAN
    PROVE  /\ [w EXCEPT !.s.led1 = 0].calls = w.calls
           /\ [w EXCEPT !.s.led1 = 0].s.calling = w.s.calling
           /\ [w EXCEPT !.s.led2 = 0].calls = w.calls
           /\ [w EXCEPT !.s.led2 = 0].s.calling = w.s.calling
           /\ [w EXCEPT !.s.door_closed = d].calls = w.calls
           /\ [w EXCEPT !.s.door_closed = d].s.calling = w.s.calling
  BY DEF GoodWorld, Worlds, GoodState, State

(* The lights do not touch the state that the news is about. *)
LEMMA LedsKeep ==
    ASSUME NEW w, GoodWorld(w), NEW n
    PROVE  /\ [w EXCEPT !.s = UpdateLeds(@, n)].calls = w.calls
           /\ [w EXCEPT !.s = UpdateLeds(@, n)].s.calling = w.s.calling
<1>1. UpdateLeds(w.s, n).calling = w.s.calling
  BY LedsGood DEF GoodWorld
<1> QED
  BY <1>1, FieldsCalm DEF GoodWorld

(* Neither does the door sensor. *)
LEMMA SensorKeeps ==
    ASSUME NEW w, Idle(w)
    PROVE  StopUltrasonic(w).calls = w.calls /\ StopUltrasonic(w).s.calling = w.s.calling
  BY DEF StopUltrasonic, Idle, GoodWorld, Worlds, GoodState, State

\* and every message.  One about the connections ends the calling while one exists.
LEMMA DispatchCalm ==
    ASSUME NEW w, Idle(w), NEW m \in Messages, m.kind # "quit", NEW n, NEW long
    PROVE  /\ Calm(Dispatch(w, m, n, long), w, n)
           /\ m.kind = "changed" /\ n > 0 => ~Dispatch(w, m, n, long).s.calling
<1> DEFINE u == StopUltrasonic(w)
<1>u. Idle(u) /\ u.calls = w.calls /\ u.s.calling = w.s.calling
  BY SensorStops, SensorKeeps
<1>k. m.kind \in {"main", "indoor", "door", "reading", "changed"}
  BY DEF Messages, Kinds
<1>1. CASE m.kind = "main"
  <2> HIDE DEF u
  <2>1. GoodWorld(StartCalling(u, n)) /\ Calm(StartCalling(u, n), u, n)
    BY <1>u, StartGood, StartCalm
  <2> DEFINE a == [StartCalling(u, n) EXCEPT !.s.led1 = 0]
             z == [u EXCEPT !.s = UpdateLeds(@, n)]
  <2>2. a.calls = StartCalling(u, n).calls /\ a.s.calling = StartCalling(u, n).s.calling
    BY <2>1, FieldKeeps
  <2>3. z.calls = u.calls /\ z.s.calling = u.s.calling
    BY <1>u, LedsKeep DEF Idle
  <2>4. Dispatch(w, m, n, long) = IF m.down THEN a ELSE z
    BY <1>1 DEF Dispatch, OnMainButton, u
  <2> HIDE DEF a, z
  <2> QED
    BY <1>1, <1>u, <2>1, <2>2, <2>3, <2>4 DEF Calm
<1>2. CASE m.kind = "indoor"
  <2> HIDE DEF u
  <2>1. GoodWorld(Dismiss(u)) /\ Calm(Dismiss(u), u, n)
    BY <1>u, DismissGood, DismissCalm DEF Idle
  <2> DEFINE a == [Dismiss(u) EXCEPT !.s.led2 = 0]
             z == [u EXCEPT !.s = UpdateLeds(@, n)]
  <2>2. a.calls = Dismiss(u).calls /\ a.s.calling = Dismiss(u).s.calling
    BY <2>1, FieldKeeps
  <2>3. z.calls = u.calls /\ z.s.calling = u.s.calling
    BY <1>u, LedsKeep DEF Idle
  <2>4. Dispatch(w, m, n, long) = IF m.down THEN a ELSE z
    BY <1>2 DEF Dispatch, OnIndoorButton, u
  <2> HIDE DEF a, z
  <2> QED
    BY <1>2, <1>u, <2>1, <2>2, <2>3, <2>4 DEF Calm
<1>3. CASE m.kind = "door"
  <2> HIDE DEF u
  <2>1. GoodWorld(Dismiss(u)) /\ Calm(Dismiss(u), u, n)
    BY <1>u, DismissGood, DismissCalm DEF Idle
  <2> DEFINE a == [Dismiss(u) EXCEPT !.s.door_closed = FALSE]
             z == [u EXCEPT !.s.door_closed = TRUE]
  <2>2. a.calls = Dismiss(u).calls /\ a.s.calling = Dismiss(u).s.calling
    BY <2>1, FieldKeeps
  <2>3. z.calls = u.calls /\ z.s.calling = u.s.calling
    BY <1>u, FieldKeeps DEF Idle
  <2>4. Dispatch(w, m, n, long) = IF m.down THEN a ELSE z
    BY <1>3 DEF Dispatch, OnDoorButton, u
  <2> HIDE DEF a, z
  <2> QED
    BY <1>3, <1>u, <2>1, <2>2, <2>3, <2>4 DEF Calm
<1>4. CASE m.kind = "reading"
  <2> DEFINE t == Detect(w.s, Count(w.s, m.us), long)
  <2>1. GoodState(w.s) /\ w \in Worlds
    BY DEF Idle, GoodWorld
  <2>2. Count(w.s, m.us) \in 0..3
    BY <2>1 DEF Count, GoodState, State
  <2>3. t.calling = w.s.calling
    BY <2>1, <2>2, DetectGood
  <2>4. Dispatch(w, m, n, long) = IF m.us = "zero" THEN w ELSE [w EXCEPT !.s = t]
    BY <1>4 DEF Dispatch, OnUltrasonicData
  <2> HIDE DEF t
  <2>5. [w EXCEPT !.s = t].calls = w.calls /\ [w EXCEPT !.s = t].s = t
    BY <2>1, FieldsCalm
  <2> QED
    BY <1>4, <2>3, <2>4, <2>5 DEF Calm
<1>5. CASE m.kind = "changed"
  <2> DEFINE v == CheckConnected(w, n)
  <2>1. Idle(v)
    BY CheckConnectedGood
  <2>2. /\ v.calls \in {w.calls, HangupOutgoing(w.calls)}
        /\ v.s.calling => w.s.calling
        /\ n > 0 => ~v.s.calling
    BY EndCalm DEF CheckConnected, EndsCalling
  <2>3. Dispatch(w, m, n, long) = [v EXCEPT !.s = UpdateLeds(@, n)]
    BY <1>5 DEF Dispatch, OnConnectedChanged
  <2> HIDE DEF v
  <2>4. /\ [v EXCEPT !.s = UpdateLeds(@, n)].calls = v.calls
        /\ [v EXCEPT !.s = UpdateLeds(@, n)].s.calling = v.s.calling
    BY <2>1, LedsKeep DEF Idle
  <2> QED
    BY <2>2, <2>3, <2>4 DEF Calm
<1> QED
  BY <1>k, <1>1, <1>2, <1>3, <1>4, <1>5

\* Steps that leave the script's thread at its message, or away from one.
LEMMA NewsKept ==
    ASSUME NewsInv, pc = "handle" \/ pc' = "handle" => UNCHANGED <<pc, msg, seen>>,
           s'.calling = s.calling, News => News',
           SomeoneConnected' => SomeoneConnected \/ News',
           \A c \in CallIds : calls'[c].state = "none" => ~calls'[c].post
    PROVE  NewsInv'
  BY DEF NewsInv

\* A call that changes; other calls stay as they are.
LEMMA CallNews ==
    ASSUME IInv, NewsInv, UNCHANGED <<pc, msg, seen, s>>, NEW c \in CallIds, NEW n \in Call,
           calls' = [calls EXCEPT ![c] = n],
           n.state = "none" => ~n.post,
           NewsWait => NewsWait', calls[c].post => n.post \/ NewsWait',
           n.state \in {"live", "hung"} /\ n.main => OnMain(calls, c) \/ n.post
    PROVE  NewsInv'
<1>0. calls \in [CallIds -> Call]
  BY DEF IInv, GoodWorld, Worlds, World
<1>1. calls'[c] = n /\ \A d \in CallIds : d # c => calls'[d] = calls[d]
  BY <1>0
<1>2. \A d \in CallIds : calls'[d].state = "none" => ~calls'[d].post
  BY <1>1 DEF NewsInv
<1>3. News => News'
  BY <1>1 DEF News
<1>4. SomeoneConnected' => SomeoneConnected \/ News'
  BY <1>1 DEF SomeoneConnected, OnMain, News
<1> QED
  BY <1>2, <1>3, <1>4, NewsKept

\* A message that arrives at the end of the queue takes none away.
LEMMA Arrival ==
    ASSUME NEW q \in Seq(Messages), NEW m \in Messages
    PROVE  LET a == Append(q, m)
           IN  /\ \A i \in 1..Len(q) : i \in 1..Len(a) /\ a[i] = q[i]
               /\ \E i \in 1..Len(a) : a[i] = m
<1> DEFINE a == Append(q, m)
<1>1. /\ Len(q) \in Nat /\ Len(a) = Len(q) + 1 /\ a[Len(q) + 1] = m
      /\ \A i \in 1..Len(q) : a[i] = q[i]
  OBVIOUS
<1> HIDE DEF a
<1>2. Len(q) + 1 \in 1..Len(a) /\ \A i \in 1..Len(q) : i \in 1..Len(a)
  BY <1>1
<1> QED
  BY <1>1, <1>2 DEF a

\* What the methods leave is taken over with the same calls connected and the same news.
LEMMA BecomeNews ==
    ASSUME IInv, NEW w, NEW next \in {"top", "tick"}, Become(w, next), UNCHANGED queue,
           NewsInv, w.calls \in {calls, HangupOutgoing(calls)},
           w.s.calling /\ SomeoneConnected => News
    PROVE  NewsInv'
<1>0. calls \in [CallIds -> Call]
  BY DEF IInv, GoodWorld, Worlds, World
<1>1. s' = w.s /\ calls' = w.calls /\ pc' # "handle"
  BY DEF Become
<1>2. \A c \in CallIds : /\ calls'[c].post = calls[c].post
                         /\ OnMain(calls', c) = OnMain(calls, c)
                         /\ calls'[c].state = "none" <=> calls[c].state = "none"
  BY <1>0, <1>1, HangupKeeps
<1>3. SomeoneConnected' <=> SomeoneConnected
  BY <1>2 DEF SomeoneConnected, OnMain
<1>4. News' <=> News
  BY <1>2 DEF News, NewsWait
<1> QED
  BY <1>1, <1>2, <1>3, <1>4 DEF NewsInv

\* The script's thread.
LEMMA ScriptNews == ASSUME IInv, NewsInv, Script PROVE NewsInv'
<1>w. Idle(World) /\ World.calls = calls /\ World.s = s
  BY WorldIsIdle DEF World
<1>q. queue \in Seq(Messages) /\ calls \in [CallIds -> Call] /\ phones \in [Phones -> Phone]
  BY DEF IInv, RestOK, GoodWorld, Worlds, World
<1>1. CASE TakeMessage
  <2> DEFINE t == Tail(queue)
  <2>1. /\ queue # <<>> /\ queue' = t /\ msg' = Head(queue) /\ seen' = Connected(calls)
        /\ pc' = IF Head(queue).kind = "quit" THEN "end" ELSE "handle"
        /\ UNCHANGED <<calls, s>> /\ pc # "handle"
    BY <1>1 DEF TakeMessage
  <2>2. /\ Len(t) \in Nat /\ Len(queue) = Len(t) + 1 /\ Head(queue) = queue[1]
        /\ \A i \in 1..Len(t) : t[i] = queue[i + 1]
    BY <1>q, <2>1
  <2> HIDE DEF t
  <2>3. SomeoneConnected => seen' > 0
    BY <2>1, ConnectedSome DEF SomeoneConnected
  <2>4. SomeoneConnected' <=> SomeoneConnected
    BY <2>1 DEF SomeoneConnected, OnMain
  <2>5. News => News' \/ msg'.kind = "changed"
    <3>1. ASSUME NEW i \in 1..Len(queue), queue[i].kind = "changed", i # 1 PROVE News'
      <4>1. i - 1 \in 1..Len(t) /\ (i - 1) + 1 = i
        BY <2>2, <3>1
      <4>2. t[i - 1].kind = "changed"
        BY <2>2, <3>1, <4>1
      <4> QED
        BY <2>1, <4>1, <4>2 DEF News, NewsWait
    <3> QED
      BY <2>1, <2>2, <3>1 DEF News, NewsWait
  <2>6. SomeoneConnected /\ s.calling => News
    BY <2>1 DEF NewsInv
  <2> QED
    BY <2>1, <2>3, <2>4, <2>5, <2>6 DEF NewsInv
<1>2. CASE Handle
  <2>1. PICK long \in BOOLEAN : Become(Dispatch(World, msg, seen, long), "top")
    BY <1>2 DEF Handle
  <2>2. pc = "handle" /\ msg \in Messages /\ msg.kind # "quit" /\ UNCHANGED queue
    BY <1>2 DEF Handle, IInv, RestOK, LoopInv
  <2> DEFINE w == Dispatch(World, msg, seen, long)
  <2>3. /\ Calm(w, World, seen)
        /\ msg.kind = "changed" /\ seen > 0 => ~w.s.calling
    BY <1>w, <2>2, DispatchCalm
  <2>4. Become(w, "top")
    BY <2>1
  <2> HIDE DEF w
  <2>5. w.s.calling /\ SomeoneConnected => News
    BY <1>w, <2>2, <2>3 DEF Calm, NewsInv
  <2> QED
    BY <1>w, <2>2, <2>3, <2>4, <2>5, BecomeNews DEF Calm
<1>3. CASE Approach
  <2> DEFINE t == [BellBegins(s) EXCEPT !.action = "off", !.repeats = 0]
             x == [World EXCEPT !.s = t]
             v == StartCalling(x, Connected(calls))
             w == IF s.action = "due" THEN [v EXCEPT !.s.led1 = 0] ELSE World
  <2>1. Become(w, "tick") /\ UNCHANGED queue /\ pc # "handle"
    BY <1>3 DEF Approach
  <2>2. Idle(x) /\ x.calls = calls /\ x.s.calling = s.calling
    <3>1. GoodState(t) /\ t.calling = s.calling
      <4> DEFINE t0 == BellBegins(s)
                 t1 == [t0 EXCEPT !.action = "off"]
      <4>1. GoodState(t0) /\ t0.calling = s.calling
        BY <1>w, BellBeginsGood DEF Idle, GoodWorld
      <4>2. t = [t1 EXCEPT !.repeats = 0]
        BY <4>1 DEF GoodState, State
      <4> HIDE DEF t0, t
      <4>3. GoodState(t1) /\ t1.calling = s.calling
        BY <4>1 DEF GoodState, State, Time
      <4> HIDE DEF t1
      <4> QED
        BY <4>2, <4>3, Consts DEF GoodState, State
    <3> HIDE DEF t
    <3>2. Idle(x)
      BY <1>w, <3>1, SetState
    <3>3. x.calls = calls /\ x.s = t
      BY <1>w, FieldsCalm DEF Idle, GoodWorld
    <3> QED
      BY <3>1, <3>2, <3>3
  <2> HIDE DEF x
  <2>3. Calm(v, x, Connected(calls)) /\ GoodWorld(v)
    BY <2>2, StartCalm, StartGood
  <2> HIDE DEF v
  <2>4. w.calls = (IF s.action = "due" THEN v.calls ELSE calls)
        /\ w.s.calling = (IF s.action = "due" THEN v.s.calling ELSE s.calling)
    BY <1>w, <2>3, FieldKeeps
  <2> HIDE DEF w
  <2>5. SomeoneConnected <=> Connected(calls) > 0
    BY ConnectedSome DEF SomeoneConnected
  <2>6. w.s.calling /\ SomeoneConnected => News
    BY <2>1, <2>2, <2>3, <2>4, <2>5 DEF Calm, NewsInv
  <2>7. w.calls \in {calls, HangupOutgoing(calls)}
    BY <2>2, <2>3, <2>4 DEF Calm
  <2> QED
    BY <2>1, <2>6, <2>7, BecomeNews
<1>4. CASE Tick
  <2> DEFINE t == BellTimeout(s)
             v == [World EXCEPT !.s = t]
             w == CallingTimeout(v)
             r == IF t.calling THEN RepeatBell(w.s) ELSE w.s
             x == [w EXCEPT !.s = IF t.calling THEN RepeatBell(@) ELSE @,
                            !.dial = w.s.calling]
  <2>1. Become(x, "top") /\ UNCHANGED queue /\ pc # "handle"
    BY <1>4 DEF Tick
  <2>2. GoodState(t) /\ t.calling = s.calling
    BY <1>w, BellTimeoutGood DEF Idle, GoodWorld
  <2> HIDE DEF t
  <2>3. Idle(v) /\ v.calls = calls /\ v.s.calling = s.calling
    <3>1. v.calls = calls /\ v.s = t
      BY <1>w, FieldsCalm DEF Idle, GoodWorld
    <3> QED
      BY <1>w, <2>2, <3>1, SetState
  <2> HIDE DEF v
  <2>4. /\ Idle(w) /\ w.calls \in {calls, HangupOutgoing(calls)}
        /\ w.s.calling => s.calling
    BY <2>3, CallingTimeoutGood, TimeoutCalm
  <2> HIDE DEF w
  <2>5. w \in Worlds /\ r = w.s
    BY <2>4, RepeatIdle DEF Idle, GoodWorld
  <2>6. x = [w EXCEPT !.dial = w.s.calling]
    BY <2>5 DEF Worlds
  <2> HIDE DEF x
  <2>7. x.calls = w.calls /\ x.s = w.s
    BY <2>5, <2>6 DEF Worlds
  <2>8. x.s.calling /\ SomeoneConnected => News
    BY <2>1, <2>4, <2>7 DEF NewsInv
  <2> QED
    BY <2>1, <2>4, <2>7, <2>8, BecomeNews
<1>5. CASE CheckPhone \/ CheckedAll
  <2>1. UNCHANGED <<s, calls, queue>> /\ pc # "handle" /\ pc' # "handle"
    BY <1>5 DEF CheckPhone, CheckedAll, IInv, RestOK
  <2> QED
    BY <2>1, NewsKept DEF News, NewsWait, SomeoneConnected, OnMain, NewsInv
<1>6. CASE Dial
  <2>0. UNCHANGED <<s, queue, pc, msg, seen>> /\ pc = "poll" /\ poll <= PhoneCount
    BY <1>6 DEF Dial
  <2>1. UNCHANGED <<s, queue, pc, msg, seen>> /\ poll \in Phones
    <3>1. poll \in 0..(PhoneCount + 1) /\ poll # 0
      BY <2>0 DEF IInv, RestOK, LoopInv
    <3> QED
      BY <2>0, <3>1, Consts DEF Phones
  <2>2. CASE UNCHANGED calls
    BY <2>1, <2>2, NewsKept DEF News, NewsWait, SomeoneConnected, OnMain, NewsInv
  <2>3. CASE \E c \in CallIds :
               /\ calls[c].state = "none"
               /\ calls' = [calls EXCEPT ![c] =
                    [FreeCall EXCEPT !.state = "live", !.tag = 1, !.phone = poll]]
    <3>1. PICK c \in CallIds :
            /\ calls[c].state = "none"
            /\ calls' = [calls EXCEPT ![c] =
                 [FreeCall EXCEPT !.state = "live", !.tag = 1, !.phone = poll]]
      BY <2>3
    <3> DEFINE n == [FreeCall EXCEPT !.state = "live", !.tag = 1, !.phone = poll]
    <3>2. n \in Call
      BY <2>1, NewCall
    <3>3. n.state = "live" /\ ~n.main /\ ~n.post
      BY DEF FreeCall
    <3>4. calls' = [calls EXCEPT ![c] = n] /\ ~calls[c].post
      BY <3>1 DEF NewsInv
    <3> HIDE DEF n
    <3> QED
      BY <2>1, <3>2, <3>3, <3>4, CallNews DEF NewsWait
  <2> QED
    BY <1>6, <2>2, <2>3 DEF Dial
<1> QED
  BY <1>1, <1>2, <1>3, <1>4, <1>5, <1>6 DEF Script

\* The rest of the program.
LEMMA StepNews == ASSUME IInv, NewsInv, [Next]_vars PROVE NewsInv'
<1>q. queue \in Seq(Messages) /\ calls \in [CallIds -> Call]
      /\ \A c \in CallIds : calls[c] \in Call
  BY DEF IInv, RestOK, GoodWorld, Worlds, World
<1>1. CASE Script
  BY <1>1, ScriptNews
<1>2. ASSUME NEW f \in Timers, TimePasses(f) PROVE NewsInv'
  <2>1. s'.calling = s.calling /\ UNCHANGED <<pc, msg, seen, queue, calls>>
    BY <1>2 DEF TimePasses, Timers, IInv, GoodWorld, World, GoodState, State
  <2> QED
    BY <2>1, NewsKept DEF News, NewsWait, SomeoneConnected, OnMain, NewsInv
<1>3. ASSUME NEW p \in Phones, PhoneDelay(p) PROVE NewsInv'
  BY <1>3, NewsKept DEF PhoneDelay, News, NewsWait, SomeoneConnected, OnMain, NewsInv
<1>4. ASSUME NEW c \in CallIds, Confirm(c) PROVE NewsInv'
  <2> DEFINE n == [calls[c] EXCEPT !.tag = 0]
  <2>1. n \in Call /\ n.state = calls[c].state /\ n.main = calls[c].main
        /\ n.post = calls[c].post /\ n.state = "live"
    BY <1>4, <1>q DEF Confirm, CallStep, Call
  <2>2. calls' = [calls EXCEPT ![c] = n] /\ UNCHANGED <<pc, msg, seen, s, queue>>
    BY <1>4 DEF Confirm, CallStep, scriptVars
  <2> HIDE DEF n
  <2> QED
    BY <2>1, <2>2, CallNews DEF OnMain, NewsWait
<1>5. ASSUME NEW c \in CallIds, SwitchMain(c) PROVE NewsInv'
  <2> DEFINE n1 == [calls[c] EXCEPT !.main = ~calls[c].main]
             n == [n1 EXCEPT !.post = TRUE]
  <2>1. n1 \in Call /\ n1.state = calls[c].state
    BY <1>q DEF Call
  <2>2. calls' = [calls EXCEPT ![c] = n] /\ UNCHANGED <<pc, msg, seen, s, queue>>
        /\ calls[c].state # "none"
    BY <1>5 DEF SwitchMain, CallStep, scriptVars
  <2> HIDE DEF n1
  <2>3. n \in Call /\ n.post /\ n.state # "none"
    BY <2>1, <2>2 DEF Call
  <2> HIDE DEF n
  <2> QED
    BY <2>2, <2>3, CallNews DEF NewsWait
<1>6. ASSUME NEW c \in CallIds, EndCall(c) PROVE NewsInv'
  <2> DEFINE n1 == [calls[c] EXCEPT !.state = "gone"]
             n == [n1 EXCEPT !.post = TRUE]
  <2>1. n1 \in Call /\ n1.state = "gone"
    BY <1>q DEF Call
  <2>2. calls' = [calls EXCEPT ![c] = n] /\ UNCHANGED <<pc, msg, seen, s, queue>>
    BY <1>6 DEF EndCall, CallStep, scriptVars
  <2> HIDE DEF n1
  <2>3. n \in Call /\ n.post /\ n.state = "gone"
    BY <2>1 DEF Call
  <2> HIDE DEF n
  <2> QED
    BY <2>2, <2>3, CallNews DEF NewsWait
<1>7. ASSUME NEW c \in CallIds, Receive(c) PROVE NewsInv'
  <2> DEFINE n == [FreeCall EXCEPT !.state = "live"]
  <2>0. FreeCall \in Call /\ ~FreeCall.main /\ ~FreeCall.post
    BY DEF FreeCall, Call
  <2>1. n \in Call /\ n.state = "live" /\ ~n.main /\ ~n.post
    BY <2>0 DEF Call
  <2>2. calls' = [calls EXCEPT ![c] = n] /\ UNCHANGED <<pc, msg, seen, s, queue>>
        /\ ~calls[c].post
    BY <1>7 DEF Receive, CallStep, scriptVars, NewsInv
  <2> HIDE DEF n
  <2> QED
    BY <2>1, <2>2, CallNews DEF NewsWait
<1>8. ASSUME NEW c \in CallIds, PostChanged(c) PROVE NewsInv'
  <2> DEFINE m == [kind |-> "changed"]
             n == IF calls[c].state = "gone" THEN FreeCall ELSE [calls[c] EXCEPT !.post = FALSE]
  <2>1. queue' = Append(queue, m) /\ UNCHANGED <<pc, msg, seen, s>>
        /\ calls' = [calls EXCEPT ![c] = n]
    BY <1>8 DEF PostChanged, scriptVars
  <2>2. m \in Messages /\ m.kind = "changed"
    BY DEF Messages
  <2> HIDE DEF m
  <2>3. NewsWait'
    BY <1>q, <2>1, <2>2, Arrival DEF NewsWait
  <2>4. /\ n \in Call /\ ~n.post
        /\ n.state \in {"live", "hung"} /\ n.main => OnMain(calls, c)
    <3>1. CASE calls[c].state = "gone"
      BY <3>1 DEF FreeCall, Call
    <3>2. CASE calls[c].state # "gone"
      BY <1>q, <3>2 DEF Call, OnMain
    <3> QED
      BY <3>1, <3>2
  <2> HIDE DEF n
  <2> QED
    BY <2>1, <2>3, <2>4, CallNews
<1>9. ASSUME NEW m \in Messages, Arrives(m) PROVE NewsInv'
  <2>1. queue' = Append(queue, m) /\ UNCHANGED <<pc, msg, seen, s, calls>>
    BY <1>9 DEF Arrives, scriptVars
  <2>2. \A i \in 1..Len(queue) : i \in 1..Len(queue') /\ queue'[i] = queue[i]
    BY <1>q, <2>1, Arrival
  <2>3. News => News'
    BY <2>1, <2>2 DEF News, NewsWait
  <2> QED
    BY <2>1, <2>3, NewsKept DEF SomeoneConnected, OnMain, NewsInv
<1>10. ASSUME NEW b \in Buttons, Press(b) PROVE NewsInv'
  <2>1. [kind |-> b, down |-> b \notin held] \in Messages
    BY MainScriptAssumption DEF Messages, Kinds
  <2> QED
    BY <1>9, <1>10, <2>1 DEF Press
<1>11. ASSUME NEW r \in Readings, Measure(r) PROVE NewsInv'
  <2>1. [kind |-> "reading", us |-> r] \in Messages
    BY MainScriptAssumption DEF Messages
  <2> QED
    BY <1>9, <1>11, <2>1 DEF Measure
<1>12. CASE Quit
  <2> DEFINE a == <<[kind |-> "quit"]>> \o queue
  <2>1. queue' = a /\ UNCHANGED <<pc, msg, seen, s, calls>>
    BY <1>12 DEF Quit, scriptVars
  <2>2. Len(a) = Len(queue) + 1 /\ Len(queue) \in Nat
        /\ \A i \in 1..Len(queue) : a[i + 1] = queue[i]
    BY <1>q
  <2> HIDE DEF a
  <2>3. News => News'
    <3>1. ASSUME NEW i \in 1..Len(queue), queue[i].kind = "changed" PROVE News'
      <4>1. i + 1 \in 1..Len(a) /\ a[i + 1].kind = "changed"
        BY <2>2, <3>1
      <4> QED
        BY <2>1, <4>1 DEF News, NewsWait
    <3> QED
      BY <2>1, <3>1 DEF News, NewsWait
  <2> QED
    BY <2>1, <2>3, NewsKept DEF SomeoneConnected, OnMain, NewsInv
<1>13. CASE UNCHANGED vars
  BY <1>13, NewsKept DEF vars, News, NewsWait, SomeoneConnected, OnMain, NewsInv
<1> QED
  BY <1>1, <1>2, <1>3, <1>4, <1>5, <1>6, <1>7, <1>8, <1>10, <1>11, <1>12, <1>13 DEF Next

-----------------------------------------------------------------------------
(* The lights *)

\* Lights pulse for a calling only, and the sensor acts after it has triggered only.
Lights(t) == (t.led1 = 2 \/ t.led2 = 2 => t.calling) /\ (t.action # "off" => t.triggered)

\* From u to t no light goes out, and Lights stays true.
Shines(t, u) ==
    /\ Lights(u) => Lights(t)
    /\ t.led1 = 0 => u.led1 = 0
    /\ t.led2 = 0 => u.led2 = 0
    /\ u.triggered => t.triggered

\* The fields that the lights depend on.
SameLights(t, u) ==
    /\ t.calling = u.calling /\ t.led1 = u.led1 /\ t.led2 = u.led2
    /\ t.action = u.action /\ t.triggered = u.triggered

\* UpdateLeds() switches both lights on.
LEMMA LedsShine ==
    ASSUME NEW t, GoodState(t), NEW n
    PROVE  LET r == UpdateLeds(t, n)
           IN  /\ r.led1 = (IF n = 0 /\ t.calling THEN 2 ELSE 1) /\ r.led2 = r.led1
               /\ r.calling = t.calling /\ r.action = t.action /\ r.triggered = t.triggered
<1> DEFINE lit == IF n = 0 /\ t.calling THEN 2 ELSE 1
           t1 == [t EXCEPT !.led1 = lit]
<1>1. lit \in 0..2
  OBVIOUS
<1>2. UpdateLeds(t, n) = [t1 EXCEPT !.led2 = lit]
  BY DEF UpdateLeds
<1>3. lit = IF n = 0 /\ t.calling THEN 2 ELSE 1
  OBVIOUS
<1> HIDE DEF lit
<1>4. /\ t1 \in State /\ t1.led1 = lit /\ t1.calling = t.calling /\ t1.action = t.action
      /\ t1.triggered = t.triggered
  BY <1>1 DEF GoodState, State
<1> HIDE DEF t1
<1> QED
  BY <1>2, <1>3, <1>4 DEF State

\* The bell does not touch the lights.
LEMMA BellsLights ==
    ASSUME NEW t, GoodState(t)
    PROVE  SameLights(StopBell(t), t) /\ SameLights(BellBegins(t), t)
<1>1. SameLights(StopBell(t), t)
  <2> DEFINE t1 == [t EXCEPT !.bell = 0]
             t2 == [t1 EXCEPT !.bell_start = "off"]
  <2>1. StopBell(t) = [t2 EXCEPT !.bell_stop = "off"]
    BY DEF StopBell
  <2>2. t1 \in State /\ SameLights(t1, t)
    BY DEF GoodState, State, SameLights
  <2> HIDE DEF t1
  <2>3. t2 \in State /\ SameLights(t2, t)
    BY <2>2 DEF State, Time, SameLights
  <2> HIDE DEF t2
  <2> QED
    BY <2>1, <2>3 DEF State, SameLights
<1>2. SameLights(BellBegins(t), t)
  <2> DEFINE b == IF t.bell_start = "off" THEN "on" ELSE t.bell_start
             t1 == [t EXCEPT !.bell = 1]
             t2 == [t1 EXCEPT !.bell_stop = "off"]
             t3 == [t2 EXCEPT !.repeats = BellRepeats - 1]
  <2>1. BellBegins(t) = [t3 EXCEPT !.bell_start = b]
    BY DEF GoodState, State, BellBegins
  <2> HIDE DEF b
  <2>2. t1 \in State /\ SameLights(t1, t)
    BY DEF GoodState, State, SameLights
  <2> HIDE DEF t1
  <2>3. t2 \in State /\ SameLights(t2, t)
    BY <2>2 DEF State, Time, SameLights
  <2> HIDE DEF t2
  <2>4. t3 \in State /\ SameLights(t3, t)
    BY <2>3, Consts DEF State, SameLights
  <2> HIDE DEF t3
  <2> QED
    BY <2>1, <2>4 DEF State, SameLights
<1> QED
  BY <1>1, <1>2

\* The end of the calling lights both,
LEMMA EndShines ==
    ASSUME NEW w, Idle(w)
    PROVE  LET t == OnCallingEnd(w).s
           IN  Shines(t, w.s) /\ t.led1 = 1 /\ t.led2 = 1 /\ GoodState(t)
<1> DEFINE h == HangupOutgoing(w.calls)
           t0 == [w.s EXCEPT !.calling = FALSE]
           t == UpdateLeds(t0, Connected(w.calls))
           v == [w EXCEPT !.calls = h]
<1>1. OnCallingEnd(w) = [v EXCEPT !.s = t]
  BY DEF OnCallingEnd, Idle, GoodWorld, Worlds
<1>2. GoodState(t0) /\ ~t0.calling /\ t0.action = w.s.action /\ t0.triggered = w.s.triggered
  BY DEF Idle, GoodWorld, GoodState, State
<1> HIDE DEF t0
<1>3. /\ GoodState(t) /\ t.led1 = 1 /\ t.led2 = 1 /\ ~t.calling
      /\ t.action = w.s.action /\ t.triggered = w.s.triggered
  BY <1>2, LedsGood, LedsShine
<1> HIDE DEF t
<1>4. OnCallingEnd(w).s = t
  BY <1>1 DEF Idle, GoodWorld, Worlds
<1>5. Shines(t, w.s)
  BY <1>3 DEF Shines, Lights
<1> QED
  BY <1>3, <1>4, <1>5

\* also when the bell is stopped then;
LEMMA EndAndStopShines ==
    ASSUME NEW w, Idle(w)
    PROVE  Shines([OnCallingEnd(w) EXCEPT !.s = StopBell(@)].s, w.s)
<1> DEFINE v == OnCallingEnd(w)
           t == StopBell(v.s)
<1>1. GoodState(v.s) /\ Shines(v.s, w.s) /\ v \in Worlds
  BY EndShines, EndCalm
<1> HIDE DEF v
<1>2. SameLights(t, v.s)
  BY <1>1, BellsLights
<1> HIDE DEF t
<1>3. [v EXCEPT !.s = t].s = t
  BY <1>1, FieldsCalm
<1> QED
  BY <1>1, <1>2, <1>3 DEF SameLights, Shines, Lights, v, t

\* and its begin puts out none.
LEMMA StartShines == ASSUME NEW w, Idle(w), NEW n PROVE Shines(StartCalling(w, n).s, w.s)
<1> DEFINE t0 == BellBegins(w.s)
           t1 == [t0 EXCEPT !.calling = TRUE]
           t == [t1 EXCEPT !.start = "on"]
           v == [w EXCEPT !.s = t]
<1>w. w \in Worlds /\ GoodState(w.s)
  BY DEF Idle, GoodWorld
<1>1. CASE w.s.calling
  <2>1. RingAgain(w.s) = w.s
    BY <1>w, RingAgainIdle
  <2>2. StartCalling(w, n) = [w EXCEPT !.s = w.s]
    BY <1>1, <2>1 DEF StartCalling
  <2>3. StartCalling(w, n).s = w.s
    BY <1>w, <2>2, FieldsCalm
  <2> QED
    BY <2>3 DEF Shines
<1>2. CASE ~w.s.calling
  <2>1. GoodState(t0) /\ SameLights(t0, w.s)
    BY <1>w, BellBeginsGood, BellsLights
  <2>2. StartCalling(w, n) = IF EndsCalling(t, n) THEN OnCallingEnd(v) ELSE PrepareCalls(v)
    BY <1>2 DEF StartCalling
  <2> HIDE DEF t0
  <2>3. GoodState(t1) /\ t1.calling /\ Shines(t1, w.s)
    BY <2>1 DEF GoodState, State, SameLights, Shines, Lights
  <2> HIDE DEF t1
  <2>4. GoodState(t) /\ SameLights(t, t1)
    BY <2>3 DEF GoodState, State, Time, SameLights
  <2> HIDE DEF t
  <2>5. t.calling /\ Shines(t, w.s)
    BY <2>3, <2>4 DEF SameLights, Shines, Lights
  <2>6. v \in Worlds /\ v.s = t /\ v.calls = w.calls /\ v.dial = FALSE
    BY <2>4 DEF Idle, GoodWorld, Worlds, GoodState
  <2>7. \A c \in CallIds : ~RingsIn(v, c)
    BY <1>2, <2>6 DEF Idle, GoodWorld, RingsIn
  <2>8. Idle(v)
    BY <2>4, <2>6, <2>7 DEF Idle, GoodWorld
  <2> HIDE DEF v
  <2>9. CASE EndsCalling(t, n)
    BY <2>2, <2>5, <2>6, <2>8, <2>9, EndShines DEF Shines
  <2>10. CASE ~EndsCalling(t, n)
    <3>1. PrepareCalls(v).s = v.s
      BY <2>6 DEF PrepareCalls, Worlds
    <3> QED
      BY <2>2, <2>5, <2>6, <2>10, <3>1
  <2> QED
    BY <2>9, <2>10
<1>3. w.s.calling \/ ~w.s.calling
  OBVIOUS
<1> QED
  BY <1>1, <1>2, <1>3

\* One light goes out; the door and the sensor's action do not matter to the lights.
LEMMA FieldLights ==
    ASSUME NEW w, GoodWorld(w), NEW d \in BOOLEAN
    PROVE  /\ LET t == [w EXCEPT !.s.led1 = 0].s
              IN  (Lights(w.s) => Lights(t)) /\ t.led2 = w.s.led2 /\ t.triggered = w.s.triggered
           /\ LET t == [w EXCEPT !.s.led2 = 0].s
              IN  (Lights(w.s) => Lights(t)) /\ t.led1 = w.s.led1 /\ t.triggered = w.s.triggered
           /\ SameLights([w EXCEPT !.s.door_closed = d].s, w.s)
           /\ Shines(StopUltrasonic(w).s, w.s)
<1> DEFINE a == [w.s EXCEPT !.led1 = 0]
           b == [w.s EXCEPT !.led2 = 0]
           c == [w.s EXCEPT !.door_closed = d]
           e == [w.s EXCEPT !.action = "off"]
<1>1. /\ a.led2 = w.s.led2 /\ a.led1 = 0 /\ a.calling = w.s.calling
      /\ a.action = w.s.action /\ a.triggered = w.s.triggered
  BY DEF GoodWorld, GoodState, State
<1>2. /\ b.led1 = w.s.led1 /\ b.led2 = 0 /\ b.calling = w.s.calling
      /\ b.action = w.s.action /\ b.triggered = w.s.triggered
  BY DEF GoodWorld, GoodState, State
<1>3. SameLights(c, w.s)
  BY DEF GoodWorld, GoodState, State, SameLights
<1>4. /\ e.led1 = w.s.led1 /\ e.led2 = w.s.led2 /\ e.calling = w.s.calling
      /\ e.action = "off" /\ e.triggered = w.s.triggered
  BY DEF GoodWorld, GoodState, State
<1>5. /\ [w EXCEPT !.s.led1 = 0] = [w EXCEPT !.s = a]
      /\ [w EXCEPT !.s.led2 = 0] = [w EXCEPT !.s = b]
      /\ [w EXCEPT !.s.door_closed = d] = [w EXCEPT !.s = c]
      /\ StopUltrasonic(w) = [w EXCEPT !.s = e]
  BY DEF StopUltrasonic
<1> HIDE DEF a, b, c, e
<1>6. /\ [w EXCEPT !.s.led1 = 0].s = a /\ [w EXCEPT !.s.led2 = 0].s = b
      /\ [w EXCEPT !.s.door_closed = d].s = c /\ StopUltrasonic(w).s = e
  <2>1. \A t : [w EXCEPT !.s = t].s = t
    BY DEF GoodWorld, Worlds
  <2> QED
    BY <1>5, <2>1
<1>7. (Lights(w.s) => Lights(a)) /\ (Lights(w.s) => Lights(b)) /\ Shines(e, w.s)
  BY <1>1, <1>2, <1>4 DEF Shines, Lights
<1> QED
  BY <1>1, <1>2, <1>3, <1>6, <1>7

\* A button's release lights both.
LEMMA ReleaseShines ==
    ASSUME NEW w, Idle(w), NEW n
    PROVE  LET t == [w EXCEPT !.s = UpdateLeds(@, n)].s
           IN  Shines(t, w.s) /\ t.led1 # 0 /\ t.led2 # 0
<1>1. GoodState(w.s) /\ w \in Worlds
  BY DEF Idle, GoodWorld
<1>2. [w EXCEPT !.s = UpdateLeds(w.s, n)].s = UpdateLeds(w.s, n)
  BY <1>1, FieldsCalm
<1> QED
  BY <1>1, <1>2, LedsShine DEF Shines, Lights

\* A sensor that acts has triggered.
LEMMA DetectShines ==
    ASSUME NEW t, GoodState(t), NEW n \in 0..3, NEW long
    PROVE  Shines(Detect(t, n, long), t)
<1> DEFINE t1 == [t EXCEPT !.detected = n]
           t2 == [t1 EXCEPT !.triggered = TRUE]
           a == IF CanAct(t, long) THEN "on" ELSE t.action
<1>1. t1 \in State /\ SameLights(t1, t)
  BY DEF GoodState, State, SameLights
<1>2. Detect(t, n, long) = IF n > 2 /\ ~t.triggered THEN [t2 EXCEPT !.action = a] ELSE t1
  BY DEF Detect, GoodState, State
<1>3. a \in Time
  BY DEF GoodState, State, Time
<1> HIDE DEF t1, a
<1>4. /\ t2 \in State /\ t2.triggered = TRUE /\ t2.calling = t1.calling
      /\ t2.led1 = t1.led1 /\ t2.led2 = t1.led2
  BY <1>1 DEF State
<1> HIDE DEF t2
<1>5. LET r == [t2 EXCEPT !.action = a]
      IN  r.triggered /\ r.calling = t2.calling /\ r.led1 = t2.led1 /\ r.led2 = t2.led2
  BY <1>3, <1>4 DEF State
<1> QED
  BY <1>1, <1>2, <1>4, <1>5 DEF SameLights, Shines, Lights

\* What a message does to the lights: a button that is pressed puts its own out, one that
\* is released has it on, and no other message puts out any.
LEMMA DispatchLights ==
    ASSUME NEW w, Idle(w), NEW m \in Messages, m.kind # "quit", NEW n, NEW long
    PROVE  LET t == Dispatch(w, m, n, long).s
           IN  /\ Lights(w.s) => Lights(t)
               /\ w.s.triggered => t.triggered
               /\ t.led1 = 0 => IF m.kind = "main" THEN m.down ELSE w.s.led1 = 0
               /\ t.led2 = 0 => IF m.kind = "indoor" THEN m.down ELSE w.s.led2 = 0
<1> DEFINE u == StopUltrasonic(w)
           r == Dispatch(w, m, n, long)
<1>u. Idle(u) /\ GoodWorld(u) /\ Shines(u.s, w.s)
  BY SensorStops, FieldLights DEF Idle
<1>k. m.kind \in {"main", "indoor", "door", "reading", "changed"}
  BY DEF Messages, Kinds
<1>1. CASE m.kind = "main"
  <2> HIDE DEF u
  <2>1. GoodWorld(StartCalling(u, n)) /\ Shines(StartCalling(u, n).s, u.s)
    BY <1>u, StartGood, StartShines
  <2> DEFINE v == StartCalling(u, n)
             a == [v EXCEPT !.s.led1 = 0]
             z == [u EXCEPT !.s = UpdateLeds(@, n)]
  <2>4. r = IF m.down THEN a ELSE z
    BY <1>1 DEF Dispatch, OnMainButton, u
  <2> HIDE DEF v, r
  <2>2. /\ Lights(v.s) => Lights(a.s)
        /\ a.s.led2 = v.s.led2 /\ a.s.triggered = v.s.triggered
    BY <2>1, FieldLights DEF v
  <2>3. Shines(z.s, u.s) /\ z.s.led1 # 0
    BY <1>u, ReleaseShines
  <2> HIDE DEF a, z
  <2>5. Shines(v.s, u.s)
    BY <2>1 DEF v
  <2>6. CASE m.down
    BY <1>1, <1>u, <2>2, <2>4, <2>5, <2>6 DEF Shines, r
  <2>7. CASE ~m.down
    BY <1>1, <1>u, <2>3, <2>4, <2>7 DEF Shines, r
  <2> QED
    BY <2>6, <2>7
<1>2. CASE m.kind \in {"indoor", "door"}
  <2> HIDE DEF u
  <2> DEFINE v == Dismiss(u)
             e == OnCallingEnd(u)
             x == [e EXCEPT !.s = StopBell(@)]
  <2>1. GoodWorld(v) /\ Shines(v.s, u.s)
    <3>1. v = IF u.s.calling THEN x ELSE u
      BY DEF Dismiss
    <3>2. Shines(x.s, u.s)
      BY <1>u, EndAndStopShines
    <3>3. GoodWorld(v)
      BY <1>u, DismissGood DEF Idle
    <3> HIDE DEF v, x
    <3> QED
      BY <3>1, <3>2, <3>3 DEF Shines
  <2>2. CASE m.kind = "indoor"
    <3> DEFINE a == [v EXCEPT !.s.led2 = 0]
               z == [u EXCEPT !.s = UpdateLeds(@, n)]
    <3>4. r = IF m.down THEN a ELSE z
      BY <2>2 DEF Dispatch, OnIndoorButton, u
    <3> HIDE DEF v, r
    <3>2. /\ Lights(v.s) => Lights(a.s)
          /\ a.s.led1 = v.s.led1 /\ a.s.triggered = v.s.triggered
      BY <2>1, FieldLights
    <3>3. Shines(z.s, u.s) /\ z.s.led2 # 0
      BY <1>u, ReleaseShines
    <3> HIDE DEF a, z
    <3>5. CASE m.down
      BY <2>2, <1>u, <2>1, <3>2, <3>4, <3>5 DEF Shines, r
    <3>6. CASE ~m.down
      BY <2>2, <1>u, <3>3, <3>4, <3>6 DEF Shines, r
    <3> QED
      BY <3>5, <3>6
  <2>3. CASE m.kind = "door"
    <3> DEFINE a == [v EXCEPT !.s.door_closed = FALSE]
               z == [u EXCEPT !.s.door_closed = TRUE]
    <3>4. r = IF m.down THEN a ELSE z
      BY <2>3 DEF Dispatch, OnDoorButton, u
    <3> HIDE DEF v, r
    <3>2. SameLights(a.s, v.s) /\ SameLights(z.s, u.s)
      BY <1>u, <2>1, FieldLights
    <3> HIDE DEF a, z
    <3>5. Shines(r.s, w.s)
      BY <1>u, <2>1, <3>2, <3>4 DEF Shines, SameLights, Lights
    <3> QED
      BY <2>3, <3>5 DEF Shines, r
  <2> QED
    BY <1>2, <2>2, <2>3
<1>3. CASE m.kind = "reading"
  <2> DEFINE t == Detect(w.s, Count(w.s, m.us), long)
  <2>1. GoodState(w.s) /\ w \in Worlds
    BY DEF Idle, GoodWorld
  <2>2. Count(w.s, m.us) \in 0..3
    BY <2>1 DEF Count, GoodState, State
  <2>3. Shines(t, w.s)
    BY <2>1, <2>2, DetectShines
  <2>4. r = IF m.us = "zero" THEN w ELSE [w EXCEPT !.s = t]
    BY <1>3 DEF Dispatch, OnUltrasonicData
  <2> HIDE DEF t, r
  <2>5. r.s \in {w.s, t}
    BY <2>1, <2>4, FieldsCalm
  <2> QED
    BY <1>3, <2>3, <2>5 DEF Shines, r
<1>4. CASE m.kind = "changed"
  <2> DEFINE v == CheckConnected(w, n)
  <2>1. Idle(v)
    BY CheckConnectedGood
  <2>2. Shines(v.s, w.s)
    BY EndShines DEF CheckConnected, Shines
  <2>3. r = [v EXCEPT !.s = UpdateLeds(@, n)]
    BY <1>4 DEF Dispatch, OnConnectedChanged
  <2> HIDE DEF v, r
  <2>4. Shines(r.s, v.s)
    BY <2>1, <2>3, ReleaseShines
  <2> QED
    BY <1>4, <2>2, <2>4 DEF Shines, r
<1> QED
  BY <1>k, <1>1, <1>2, <1>3, <1>4

\* What the script will have been told last about a button: by the queue, q, or by the
\* message in hand; h says whether the button is down.
LastTold(q, i, b) == q[i].kind = b /\ \A j \in (i + 1)..Len(q) : q[j].kind # b
Waits(q, b) == \E i \in 1..Len(q) : q[i].kind = b
InHand(b) == pc = "handle" /\ msg.kind = b
ToldOf(b, q, h) == \A i \in 1..Len(q) : LastTold(q, i, b) => q[i].down = h

\* A light is only out for a button that is down, or while a message of it is to come;
\* the main light also after the sensor has triggered.
LightsInv ==
    /\ Lights(s)
    /\ \A b \in {"main", "indoor"} :
          /\ ToldOf(b, queue, b \in held)
          /\ ~Waits(queue, b) /\ InHand(b) => msg.down = (b \in held)
    /\ ~Waits(queue, "main") /\ ~InHand("main") /\ s.led1 = 0 => "main" \in held \/ s.triggered
    /\ ~Waits(queue, "indoor") /\ ~InHand("indoor") /\ s.led2 = 0 => "indoor" \in held

\* Steps that leave the buttons and their messages alone, and put no light out.
LEMMA LightsKept ==
    ASSUME LightsInv, UNCHANGED <<queue, held>>,
           (pc # "handle" /\ pc' # "handle") \/ UNCHANGED <<pc, msg>>,
           Lights(s'), s.triggered => s'.triggered,
           s'.led1 = 0 => s.led1 = 0 \/ s'.triggered, s'.led2 = 0 => s.led2 = 0
    PROVE  LightsInv'
  BY DEF LightsInv, ToldOf, LastTold, Waits, InHand

\* A message of another kind at the end of the queue does not matter to a button, and
\* one of its own is the last to tell of it.
LEMMA ToldAppend ==
    ASSUME NEW q \in Seq(Messages), NEW m \in Messages, NEW b, NEW h, NEW h2,
           ToldOf(b, q, h), IF m.kind = b THEN m.down = h2 ELSE h2 = h
    PROVE  ToldOf(b, Append(q, m), h2) /\ (Waits(Append(q, m), b) <=> Waits(q, b) \/ m.kind = b)
<1> DEFINE a == Append(q, m)
<1>1. /\ Len(q) \in Nat /\ Len(a) = Len(q) + 1 /\ a[Len(q) + 1] = m
      /\ \A i \in 1..Len(q) : a[i] = q[i]
  OBVIOUS
<1> HIDE DEF a
<1>2. ASSUME NEW i \in 1..Len(a), LastTold(a, i, b) PROVE a[i].down = h2
  <2>1. CASE i = Len(q) + 1
    BY <1>1, <1>2, <2>1 DEF LastTold
  <2>2. CASE i # Len(q) + 1
    <3>1. i \in 1..Len(q) /\ a[i] = q[i] /\ Len(q) + 1 \in (i + 1)..Len(a)
      BY <1>1, <2>2
    <3>2. m.kind # b
      BY <1>1, <1>2, <3>1 DEF LastTold
    <3>3. \A j \in (i + 1)..Len(q) : j \in (i + 1)..Len(a) /\ a[j] = q[j]
      BY <1>1, <3>1
    <3>4. LastTold(q, i, b)
      BY <1>2, <3>1, <3>3 DEF LastTold
    <3> QED
      BY <3>1, <3>2, <3>4 DEF ToldOf
  <2> QED
    BY <2>1, <2>2
<1>3. Waits(a, b) <=> Waits(q, b) \/ m.kind = b
  <2>1. Len(q) + 1 \in 1..Len(a) /\ \A i \in 1..Len(q) : i \in 1..Len(a)
    BY <1>1
  <2>2. \A i \in 1..Len(a) : i = Len(q) + 1 \/ i \in 1..Len(q)
    BY <1>1
  <2> QED
    BY <1>1, <2>1, <2>2 DEF Waits
<1> QED
  BY <1>2, <1>3 DEF ToldOf, a

\* Taking the first message: the others still tell of the button, or it did.
LEMMA ToldTail ==
    ASSUME NEW q \in Seq(Messages), q # <<>>, NEW b, NEW h, ToldOf(b, q, h)
    PROVE  /\ ToldOf(b, Tail(q), h)
           /\ ~Waits(Tail(q), b) /\ Head(q).kind = b => Head(q).down = h
           /\ ~Waits(Tail(q), b) /\ Head(q).kind # b => ~Waits(q, b)
<1> DEFINE t == Tail(q)
<1>1. /\ Len(t) \in Nat /\ Len(q) = Len(t) + 1 /\ Head(q) = q[1]
      /\ \A i \in 1..Len(t) : t[i] = q[i + 1]
  OBVIOUS
<1> HIDE DEF t
<1>2. \A j \in 1..Len(q) : j # 1 => j - 1 \in 1..Len(t) /\ t[j - 1] = q[j]
  BY <1>1
<1>3. ASSUME NEW i \in 1..Len(t), LastTold(t, i, b) PROVE t[i].down = h
  <2>1. i + 1 \in 1..Len(q) /\ q[i + 1] = t[i]
    BY <1>1
  <2>2. \A j \in (i + 1 + 1)..Len(q) : j - 1 \in (i + 1)..Len(t) /\ t[j - 1] = q[j]
    BY <1>1
  <2>3. LastTold(q, i + 1, b)
    BY <1>3, <2>1, <2>2 DEF LastTold
  <2> QED
    BY <2>1, <2>3 DEF ToldOf
<1>4. ASSUME ~Waits(t, b), Head(q).kind = b PROVE Head(q).down = h
  <2>1. 1 \in 1..Len(q) /\ \A j \in (1 + 1)..Len(q) : j \in 1..Len(q) /\ j # 1
    BY <1>1
  <2>2. LastTold(q, 1, b)
    BY <1>1, <1>2, <1>4, <2>1 DEF LastTold, Waits
  <2> QED
    BY <1>1, <2>1, <2>2 DEF ToldOf
<1>5. ASSUME ~Waits(t, b), Head(q).kind # b PROVE ~Waits(q, b)
  BY <1>1, <1>2, <1>5 DEF Waits
<1> QED
  BY <1>3, <1>4, <1>5 DEF ToldOf, t

\* A quit request in front of the queue tells of no button.
LEMMA ToldQuit ==
    ASSUME NEW q \in Seq(Messages), NEW b \in {"main", "indoor"}, NEW h, ToldOf(b, q, h)
    PROVE  LET a == <<[kind |-> "quit"]>> \o q
           IN  ToldOf(b, a, h) /\ (Waits(a, b) <=> Waits(q, b))
<1> DEFINE a == <<[kind |-> "quit"]>> \o q
<1>1. /\ Len(q) \in Nat /\ Len(a) = Len(q) + 1 /\ a[1].kind = "quit"
      /\ \A i \in 1..Len(q) : a[i + 1] = q[i]
  OBVIOUS
<1> HIDE DEF a
<1>2. \A i \in 1..Len(a) : i # 1 => i - 1 \in 1..Len(q) /\ a[i] = q[i - 1]
  BY <1>1
<1>3. \A i \in 1..Len(q) : i + 1 \in 1..Len(a)
  BY <1>1
<1>4. ASSUME NEW i \in 1..Len(a), LastTold(a, i, b) PROVE a[i].down = h
  <2>1. i # 1
    BY <1>1, <1>4 DEF LastTold
  <2>2. i - 1 \in 1..Len(q) /\ a[i] = q[i - 1]
    BY <1>2, <2>1
  <2>3. \A j \in (i - 1 + 1)..Len(q) : j + 1 \in (i + 1)..Len(a) /\ a[j + 1] = q[j]
    BY <1>1, <2>2
  <2>4. LastTold(q, i - 1, b)
    BY <1>4, <2>2, <2>3 DEF LastTold
  <2> QED
    BY <2>2, <2>4 DEF ToldOf
<1>5. Waits(a, b) <=> Waits(q, b)
  BY <1>1, <1>2, <1>3 DEF Waits
<1> QED
  BY <1>4, <1>5 DEF ToldOf, a

\* The script's thread.
LEMMA ScriptLights == ASSUME IInv, LightsInv, Script PROVE LightsInv'
<1>w. Idle(World) /\ World.s = s /\ GoodState(s) /\ World \in Worlds
  BY WorldIsIdle DEF World, Idle, GoodWorld
<1>q. queue \in Seq(Messages)
  BY DEF IInv, RestOK
<1>1. CASE TakeMessage
  <2>1. /\ queue # <<>> /\ queue' = Tail(queue) /\ msg' = Head(queue) /\ pc = "top"
        /\ pc' = IF Head(queue).kind = "quit" THEN "end" ELSE "handle"
        /\ UNCHANGED <<held, s>>
    BY <1>1 DEF TakeMessage
  <2>2. ASSUME NEW b \in {"main", "indoor"}
        PROVE  /\ ToldOf(b, queue', b \in held)
               /\ ~Waits(queue', b) /\ msg'.kind = b => msg'.down = (b \in held)
               /\ ~Waits(queue', b) /\ msg'.kind # b => ~Waits(queue, b)
    BY <1>q, <2>1, ToldTail DEF LightsInv
  <2>3. \A b \in {"main", "indoor"} : msg'.kind = b => InHand(b)'
    BY <2>1 DEF InHand
  <2>4. \A b \in {"main", "indoor"} : ~InHand(b)
    BY <2>1 DEF InHand
  <2>5. \A b \in {"main", "indoor"} : ToldOf(b, queue, b \in held)' <=> ToldOf(b, queue', b \in held)
    BY <2>1 DEF ToldOf, LastTold
  <2> QED
    BY <2>1, <2>2, <2>3, <2>4, <2>5 DEF LightsInv, InHand, Waits
<1>2. CASE Handle
  <2>1. PICK long \in BOOLEAN : Become(Dispatch(World, msg, seen, long), "top")
    BY <1>2 DEF Handle
  <2>2. pc = "handle" /\ msg \in Messages /\ msg.kind # "quit" /\ UNCHANGED <<queue, held>>
    BY <1>2 DEF Handle, IInv, RestOK, LoopInv
  <2>3. pc' # "handle" /\ s' = Dispatch(World, msg, seen, long).s
    BY <2>1 DEF Become
  <2>4. /\ Lights(s) => Lights(s')
        /\ s.triggered => s'.triggered
        /\ s'.led1 = 0 => IF msg.kind = "main" THEN msg.down ELSE s.led1 = 0
        /\ s'.led2 = 0 => IF msg.kind = "indoor" THEN msg.down ELSE s.led2 = 0
    BY <1>w, <2>2, <2>3, DispatchLights
  <2> QED
    BY <2>2, <2>3, <2>4 DEF LightsInv, ToldOf, LastTold, Waits, InHand
<1>3. CASE Approach
  <2> DEFINE t == [BellBegins(s) EXCEPT !.action = "off", !.repeats = 0]
             x == [World EXCEPT !.s = t]
             v == StartCalling(x, Connected(calls))
             w == IF s.action = "due" THEN [v EXCEPT !.s.led1 = 0] ELSE World
  <2>1. Become(w, "tick") /\ UNCHANGED <<queue, held>> /\ pc = "top"
    BY <1>3 DEF Approach
  <2>2. Idle(x) /\ Shines(x.s, s)
    <3>1. GoodState(t) /\ t.calling = s.calling /\ Shines(t, s)
      <4> DEFINE t0 == BellBegins(s)
                 t1 == [t0 EXCEPT !.action = "off"]
      <4>1. GoodState(t0) /\ SameLights(t0, s)
        BY <1>w, BellBeginsGood, BellsLights
      <4>2. t = [t1 EXCEPT !.repeats = 0]
        BY <4>1 DEF GoodState, State
      <4> HIDE DEF t0, t
      <4>3. /\ GoodState(t1) /\ t1.calling = s.calling /\ t1.action = "off"
            /\ t1.led1 = s.led1 /\ t1.led2 = s.led2 /\ t1.triggered = s.triggered
        BY <4>1 DEF GoodState, State, Time, SameLights
      <4> HIDE DEF t1
      <4>4. GoodState(t) /\ SameLights(t, t1)
        BY <4>2, <4>3, Consts DEF GoodState, State, SameLights
      <4> QED
        BY <4>3, <4>4 DEF SameLights, Shines, Lights
    <3> HIDE DEF t
    <3>2. Idle(x)
      BY <1>w, <3>1, SetState
    <3>3. x.s = t
      BY <1>w, FieldsCalm
    <3> QED
      BY <3>1, <3>2, <3>3
  <2> HIDE DEF x
  <2>3. Shines(v.s, x.s) /\ GoodWorld(v)
    BY <2>2, StartShines, StartGood
  <2> HIDE DEF v
  <2>4. CASE s.action = "due"
    <3>1. /\ Lights(v.s) => Lights(w.s)
          /\ w.s.led2 = v.s.led2 /\ w.s.triggered = v.s.triggered
      BY <2>3, <2>4, FieldLights
    <3>2. s' = w.s /\ pc' # "handle"
      BY <2>1 DEF Become
    <3> HIDE DEF w
    <3>3. s.triggered
      BY <2>4 DEF LightsInv, Lights
    <3> QED
      BY <2>1, <2>2, <2>3, <3>1, <3>2, <3>3, LightsKept DEF Shines, LightsInv
  <2>5. CASE s.action # "due"
    <3>1. s' = s /\ pc' # "handle"
      BY <1>w, <2>1, <2>5 DEF Become
    <3> QED
      BY <2>1, <3>1, LightsKept DEF LightsInv
  <2> QED
    BY <2>4, <2>5
<1>4. CASE Tick
  <2> DEFINE t == BellTimeout(s)
             v == [World EXCEPT !.s = t]
             w == CallingTimeout(v)
             r == IF t.calling THEN RepeatBell(w.s) ELSE w.s
             x == [w EXCEPT !.s = IF t.calling THEN RepeatBell(@) ELSE @,
                            !.dial = w.s.calling]
  <2>1. Become(x, "top") /\ UNCHANGED <<queue, held>> /\ pc = "tick"
    BY <1>4 DEF Tick
  <2>2. GoodState(t) /\ t.calling = s.calling /\ Shines(t, s)
    BY <1>w, BellTimeoutGood, BellsLights DEF BellTimeout, SameLights, Shines, Lights
  <2> HIDE DEF t
  <2>3. Idle(v) /\ v.s = t
    <3>1. v.s = t
      BY <1>w, FieldsCalm
    <3> QED
      BY <1>w, <2>2, <3>1, SetState
  <2> HIDE DEF v
  <2>4. Idle(w) /\ Shines(w.s, v.s)
    BY <2>3, CallingTimeoutGood, EndAndStopShines DEF CallingTimeout, Shines
  <2> HIDE DEF w
  <2>5. w \in Worlds /\ r = w.s
    BY <2>4, RepeatIdle DEF Idle, GoodWorld
  <2>6. x = [w EXCEPT !.dial = w.s.calling]
    BY <2>5 DEF Worlds
  <2> HIDE DEF x
  <2>7. x.s = w.s
    BY <2>5, <2>6 DEF Worlds
  <2>8. s' = x.s /\ pc' # "handle"
    BY <2>1 DEF Become
  <2> QED
    BY <2>1, <2>2, <2>3, <2>4, <2>7, <2>8, LightsKept DEF Shines, LightsInv
<1>5. CASE CheckPhone \/ Dial \/ CheckedAll
  <2>1. UNCHANGED <<s, queue, held>> /\ pc # "handle" /\ pc' # "handle"
    <3>1. CheckPhone \/ CheckedAll => UNCHANGED <<s, queue, held>>
      BY DEF CheckPhone, CheckedAll
    <3>2. Dial => UNCHANGED <<s, queue, held, pc>> /\ pc = "poll"
      BY DEF Dial
    <3>3. CheckPhone \/ CheckedAll => pc # "handle" /\ pc' # "handle"
      BY DEF CheckPhone, CheckedAll, IInv, RestOK
    <3> QED
      BY <1>5, <3>1, <3>2, <3>3
  <2> QED
    BY <2>1, LightsKept DEF LightsInv
<1> QED
  BY <1>1, <1>2, <1>3, <1>4, <1>5 DEF Script

\* The rest of the program, and the people: each change of a button is told in order.
LEMMA StepLights == ASSUME IInv, LightsInv, [Next]_vars PROVE LightsInv'
<1>q. queue \in Seq(Messages) /\ held \subseteq Kinds /\ GoodState(s)
  BY DEF IInv, RestOK, GoodWorld, World
<1>1. CASE Script
  BY <1>1, ScriptLights
<1>2. ASSUME NEW f \in Timers, TimePasses(f) PROVE LightsInv'
  <2>1. /\ UNCHANGED <<pc, msg, queue, held>> /\ s[f] = "on"
        /\ s' = [s EXCEPT ![f] = "due"]
    BY <1>2 DEF TimePasses
  <2>2. /\ s'.calling = s.calling /\ s'.led1 = s.led1 /\ s'.led2 = s.led2
        /\ s'.triggered = s.triggered /\ (s'.action = s.action \/ s.action = "on")
    BY <1>q, <2>1 DEF Timers, GoodState, State
  <2> QED
    BY <2>1, <2>2, LightsKept DEF LightsInv, Lights
<1>3. CASE UNCHANGED <<pc, msg, queue, s, held>>
  BY <1>3, LightsKept DEF LightsInv
<1>4. ASSUME NEW m \in Messages, queue' = Append(queue, m), UNCHANGED <<pc, msg, s>>,
             \A b \in {"main", "indoor"} : IF m.kind = b THEN m.down = (b \in held')
                                                       ELSE (b \in held') = (b \in held)
      PROVE  LightsInv'
  <2>1. ASSUME NEW b \in {"main", "indoor"}
        PROVE  /\ ToldOf(b, queue', b \in held')
               /\ Waits(queue', b) <=> Waits(queue, b) \/ m.kind = b
    BY <1>q, <1>4, ToldAppend DEF LightsInv
  <2>2. ASSUME NEW b \in {"main", "indoor"} PROVE ToldOf(b, queue, b \in held)'
    BY <2>1 DEF ToldOf, LastTold
  <2>3. ASSUME NEW b \in {"main", "indoor"}, ~Waits(queue', b)
        PROVE  ~Waits(queue, b) /\ (b \in held') = (b \in held)
    BY <1>4, <2>1, <2>3
  <2> QED
    BY <1>4, <2>2, <2>3 DEF LightsInv, InHand, Waits
<1>5. ASSUME NEW c \in CallIds, PostChanged(c) PROVE LightsInv'
  <2> DEFINE m == [kind |-> "changed"]
  <2>1. m \in Messages /\ m.kind = "changed"
    BY DEF Messages
  <2>2. queue' = Append(queue, m) /\ UNCHANGED <<pc, msg, s, held>>
    BY <1>5 DEF PostChanged, scriptVars
  <2> HIDE DEF m
  <2> QED
    BY <1>4, <2>1, <2>2
<1>6. ASSUME NEW b \in Buttons, Press(b) PROVE LightsInv'
  <2> DEFINE m == [kind |-> b, down |-> b \notin held]
  <2>1. m \in Messages /\ m.kind = b /\ m.down = (b \notin held)
    BY MainScriptAssumption DEF Messages, Kinds
  <2>2. /\ queue' = Append(queue, m) /\ UNCHANGED <<pc, msg, s>>
        /\ held' = IF b \in held THEN held \ {b} ELSE held \cup {b}
    BY <1>6 DEF Press, Arrives, scriptVars
  <2> HIDE DEF m
  <2> QED
    BY <1>4, <2>1, <2>2
<1>7. ASSUME NEW r \in Readings, Measure(r) PROVE LightsInv'
  <2> DEFINE m == [kind |-> "reading", us |-> r]
  <2>1. m \in Messages /\ m.kind = "reading"
    BY MainScriptAssumption DEF Messages
  <2>2. queue' = Append(queue, m) /\ UNCHANGED <<pc, msg, s, held>>
    BY <1>7 DEF Measure, Arrives, scriptVars
  <2> HIDE DEF m
  <2> QED
    BY <1>4, <2>1, <2>2
<1>8. CASE Quit
  <2>1. queue' = <<[kind |-> "quit"]>> \o queue /\ UNCHANGED <<pc, msg, s, held>>
    BY <1>8 DEF Quit, scriptVars
  <2>2. ASSUME NEW b \in {"main", "indoor"}
        PROVE  ToldOf(b, queue', b \in held) /\ (Waits(queue', b) <=> Waits(queue, b))
    BY <1>q, <2>1, ToldQuit DEF LightsInv
  <2>3. ASSUME NEW b \in {"main", "indoor"} PROVE ToldOf(b, queue, b \in held)'
    BY <2>1, <2>2 DEF ToldOf, LastTold
  <2> QED
    BY <2>1, <2>2, <2>3 DEF LightsInv, InHand, Waits
<1> QED
  BY <1>1, <1>2, <1>3, <1>5, <1>6, <1>7, <1>8
  DEF Next, vars, PhoneDelay, Confirm, SwitchMain, EndCall, Receive, CallStep, scriptVars

-----------------------------------------------------------------------------
(* Theorems *)

\* Every variable of the script has its type: in particular repeats never counts past
\* the option, and check_calls() never looks past the last phone.
THEOREM TypeCorrect == Spec => []TypeOK
<1> QED
  BY InitIInv, StepIInv, TypeFromIInv, PTL DEF Spec

\* A bell that rings has the time at which it began, without which the "Stop bell"
\* branch of the main loop would never run: no bell is switched on for ever.
THEOREM BellHasItsTime == Spec => []BellIsTimed
<1>1. IInv => BellIsTimed
  BY DEF IInv, GoodWorld, GoodState, World, BellIsTimed
<1> QED
  BY InitIInv, StepIInv, <1>1, PTL DEF Spec

\* Whatever ended the calling, every phone it made ring has been told to stop.
THEOREM PhonesFallSilent == Spec => []NoRingingAfterCalling
<1>1. IInv => NoRingingAfterCalling
  BY DEF IInv, GoodWorld, RingsIn, World, NoRingingAfterCalling, Rings
<1> QED
  BY InitIInv, StepIInv, <1>1, PTL DEF Spec

\* For any number of phones: a ringing call is the one its phone's row names, so that no
\* phone is rung by two calls, and none rings that check_calls() has lost.
THEOREM RingingWatched == Spec => []RingingIsWatched
<1>1. IInv => RingingIsWatched
  BY DEF IInv, GoodWorld, RingsIn, World, RingingIsWatched, Rings
<1> QED
  BY InitIInv, StepIInv, <1>1, PTL DEF Spec

\* When every message is handled the script does not call out while somebody is connected
\* to the door: whoever connects owes a message, and the count is read when it is handled.
THEOREM ConnectionEndsCalling == Spec => []ConnectedEndsCalling
<1>1. Init => NewsInv
  BY DEF Init, NewsInv, FreeCall
<1>2. NewsInv => ConnectedEndsCalling
  <2>1. Connected(calls) > 0 => SomeoneConnected
    BY ConnectedSome DEF SomeoneConnected
  <2>2. Quiet => ~News /\ pc # "handle"
    BY DEF Quiet, News, NewsWait
  <2> QED
    BY <2>1, <2>2 DEF NewsInv, ConnectedEndsCalling
<1> QED
  BY InitIInv, StepIInv, StepNews, <1>1, <1>2, PTL DEF Spec

\* When the messages are handled, the buttons are up and nothing is called, both lights
\* are on: every press and release is told, in order, and a release lights both.
THEOREM LightsAreBack == Spec => []LightsComeBack
<1>1. Init => LightsInv
  BY DEF Init, LightsInv, Lights, ToldOf, Waits, InHand
<1>2. IInv /\ LightsInv => LightsComeBack
  <2> SUFFICES ASSUME IInv, LightsInv, Quiet, ~s.calling, held \cap {"main", "indoor"} = {}
               PROVE  s.led2 = 1 /\ (~s.triggered => s.led1 = 1)
    BY DEF LightsComeBack
  <2>1. s.led1 \in 0..2 /\ s.led2 \in 0..2
    BY DEF IInv, GoodWorld, World, GoodState, State
  <2>2. s.led1 # 2 /\ s.led2 # 2
    BY DEF LightsInv, Lights
  <2>3. \A b \in {"main", "indoor"} : ~Waits(queue, b) /\ ~InHand(b) /\ b \notin held
    BY DEF Quiet, Waits, InHand
  <2> QED
    BY <2>1, <2>2, <2>3 DEF LightsInv
<1> QED
  BY InitIInv, StepIInv, StepLights, <1>1, <1>2, PTL DEF Spec

-----------------------------------------------------------------------------
(* The times of the bell and of the calling: what CallingComesToRest rests *)
(* on.                                                                     *)

\* A timestamp stays, or passes its limit.
TimeGoesOn(old, new) == new = old \/ (old = "on" /\ new = "due")

\* A calling has the time from which it is counted.
Armed(t) == t.calling => t.start # "off"

\* While it is calling nothing puts off the time at which that ends, and while the bell
\* rings nothing puts off its stop: no button, visitor, answer or approach begins either
\* time anew.  When a time is over, the next turn of the loop without a message acts on it.
NotPostponed ==
    /\ Armed(s)
    /\ s.calling /\ s'.calling => TimeGoesOn(s.start, s'.start)
    /\ s.bell = 1 /\ s'.bell = 1 => TimeGoesOn(s.bell_start, s'.bell_start)
    /\ Tick /\ s.start = "due" => ~s'.calling
    /\ Tick /\ s.bell_start = "due" => s'.bell = 0

\* What follows t leaves the times of a calling and of a bell that go on.
Onward(u, t) ==
    /\ Armed(t) => Armed(u)
    /\ t.calling /\ u.calling => u.start = t.start
    /\ t.bell = 1 /\ u.bell = 1 => u.bell_start = t.bell_start

\* The fields that the times depend on.
SameTimes(u, t) ==
    u.calling = t.calling /\ u.start = t.start /\ u.bell = t.bell /\ u.bell_start = t.bell_start

\* The lights do not touch the times,
LEMMA LedsTimes == ASSUME NEW t, GoodState(t), NEW n PROVE SameTimes(UpdateLeds(t, n), t)
<1> DEFINE lit == IF n = 0 /\ t.calling THEN 2 ELSE 1
           t1 == [t EXCEPT !.led1 = lit]
<1>1. lit \in 0..2
  OBVIOUS
<1>2. UpdateLeds(t, n) = [t1 EXCEPT !.led2 = lit]
  BY DEF UpdateLeds
<1> HIDE DEF lit
<1>3. t1 \in State /\ SameTimes(t1, t)
  BY <1>1 DEF GoodState, State, SameTimes
<1> HIDE DEF t1
<1> QED
  BY <1>2, <1>3 DEF State, SameTimes

\* and the bell leaves those of the calling.
LEMMA BellTimes ==
    ASSUME NEW t, GoodState(t)
    PROVE  /\ StopBell(t).calling = t.calling /\ StopBell(t).start = t.start
           /\ StopBell(t).bell = 0
           /\ BellBegins(t).calling = t.calling /\ BellBegins(t).start = t.start
           /\ BellBegins(t).bell = 1
           /\ t.bell = 1 => BellBegins(t).bell_start = t.bell_start
<1>1. /\ StopBell(t).calling = t.calling /\ StopBell(t).start = t.start
      /\ StopBell(t).bell = 0
  <2> DEFINE t1 == [t EXCEPT !.bell = 0]
             t2 == [t1 EXCEPT !.bell_start = "off"]
  <2>1. StopBell(t) = [t2 EXCEPT !.bell_stop = "off"]
    BY DEF StopBell
  <2>2. t1 \in State /\ t1.calling = t.calling /\ t1.start = t.start /\ t1.bell = 0
    BY DEF GoodState, State
  <2> HIDE DEF t1
  <2>3. t2 \in State /\ t2.calling = t.calling /\ t2.start = t.start /\ t2.bell = 0
    BY <2>2 DEF State, Time
  <2> HIDE DEF t2
  <2> QED
    BY <2>1, <2>3 DEF State
<1>2. /\ BellBegins(t).calling = t.calling /\ BellBegins(t).start = t.start
      /\ BellBegins(t).bell = 1
      /\ t.bell = 1 => BellBegins(t).bell_start = t.bell_start
  <2> DEFINE b0 == IF t.bell_start = "off" THEN "on" ELSE t.bell_start
             t1 == [t EXCEPT !.bell = 1]
             t2 == [t1 EXCEPT !.bell_stop = "off"]
             t3 == [t2 EXCEPT !.repeats = BellRepeats - 1]
  <2>1. BellBegins(t) = [t3 EXCEPT !.bell_start = b0]
    BY DEF GoodState, State, BellBegins
  <2>2. t.bell = 1 => b0 = t.bell_start
    BY DEF GoodState
  <2> HIDE DEF b0
  <2>3. t1 \in State /\ t1.calling = t.calling /\ t1.start = t.start /\ t1.bell = 1
    BY DEF GoodState, State
  <2> HIDE DEF t1
  <2>4. t2 \in State /\ t2.calling = t.calling /\ t2.start = t.start /\ t2.bell = 1
    BY <2>3 DEF State, Time
  <2> HIDE DEF t2
  <2>5. t3 \in State /\ t3.calling = t.calling /\ t3.start = t.start /\ t3.bell = 1
    BY <2>4, Consts DEF State
  <2> HIDE DEF t3
  <2> QED
    BY <2>1, <2>2, <2>5 DEF State
<1> QED
  BY <1>1, <1>2

\* The end of the calling leaves the bell what it is,
LEMMA EndTimes ==
    ASSUME NEW w, Idle(w)
    PROVE  Onward(OnCallingEnd(w).s, w.s) /\ ~OnCallingEnd(w).s.calling
<1> DEFINE h == HangupOutgoing(w.calls)
           t0 == [w.s EXCEPT !.calling = FALSE]
           t == UpdateLeds(t0, Connected(w.calls))
           x == [w EXCEPT !.calls = h]
<1>1. OnCallingEnd(w) = [x EXCEPT !.s = t]
  BY DEF OnCallingEnd, Idle, GoodWorld, Worlds
<1>2. GoodState(t0) /\ ~t0.calling /\ t0.bell_start = w.s.bell_start
  BY DEF Idle, GoodWorld, GoodState, State
<1> HIDE DEF t0
<1>3. SameTimes(t, t0)
  BY <1>2, LedsTimes
<1> HIDE DEF t
<1>4. OnCallingEnd(w).s = t
  BY <1>1 DEF Idle, GoodWorld, Worlds
<1> QED
  BY <1>2, <1>3, <1>4 DEF SameTimes, Onward, Armed

\* or stops it too.
LEMMA EndAndStopTimes ==
    ASSUME NEW w, Idle(w)
    PROVE  LET t == [OnCallingEnd(w) EXCEPT !.s = StopBell(@)].s
           IN  ~t.calling /\ t.bell = 0 /\ Onward(t, w.s)
<1> DEFINE x == OnCallingEnd(w)
           t == StopBell(x.s)
<1>1. GoodState(x.s) /\ x \in Worlds /\ ~x.s.calling
  BY EndShines, EndCalm
<1> HIDE DEF x
<1>2. ~t.calling /\ t.bell = 0
  BY <1>1, BellTimes
<1> HIDE DEF t
<1>3. [x EXCEPT !.s = t].s = t
  BY <1>1, FieldsCalm
<1> QED
  BY <1>2, <1>3 DEF Onward, Armed, x, t

\* The begin of a calling sets its time, and leaves that of a bell that rings; one that
\* is going on is left alone.
LEMMA StartTimes == ASSUME NEW w, Idle(w), NEW n PROVE Onward(StartCalling(w, n).s, w.s)
<1> DEFINE t0 == BellBegins(w.s)
           t1 == [t0 EXCEPT !.calling = TRUE]
           t == [t1 EXCEPT !.start = "on"]
           x == [w EXCEPT !.s = t]
<1>w. w \in Worlds /\ GoodState(w.s)
  BY DEF Idle, GoodWorld
<1>1. CASE w.s.calling
  <2>1. RingAgain(w.s) = w.s
    BY <1>w, RingAgainIdle
  <2>2. StartCalling(w, n) = [w EXCEPT !.s = w.s]
    BY <1>1, <2>1 DEF StartCalling
  <2>3. StartCalling(w, n).s = w.s
    BY <1>w, <2>2, FieldsCalm
  <2> QED
    BY <2>3 DEF Onward
<1>2. CASE ~w.s.calling
  <2>1. GoodState(t0) /\ t0.bell = 1 /\ (w.s.bell = 1 => t0.bell_start = w.s.bell_start)
    BY <1>w, BellBeginsGood, BellTimes
  <2>2. StartCalling(w, n) = IF EndsCalling(t, n) THEN OnCallingEnd(x) ELSE PrepareCalls(x)
    BY <1>2 DEF StartCalling
  <2> HIDE DEF t0
  <2>3. GoodState(t1) /\ t1.bell = 1 /\ t1.bell_start = t0.bell_start
    BY <2>1 DEF GoodState, State
  <2> HIDE DEF t1
  <2>4. GoodState(t) /\ t.bell = 1 /\ t.start = "on" /\ t.bell_start = t1.bell_start
    BY <2>3 DEF GoodState, State, Time
  <2> HIDE DEF t
  <2>5. Onward(t, w.s)
    BY <1>2, <2>1, <2>3, <2>4 DEF Onward, Armed
  <2>6. x \in Worlds /\ x.s = t /\ x.calls = w.calls /\ x.dial = FALSE
    BY <2>4 DEF Idle, GoodWorld, Worlds, GoodState
  <2>7. \A c \in CallIds : ~RingsIn(x, c)
    BY <1>2, <2>6 DEF Idle, GoodWorld, RingsIn
  <2>8. Idle(x)
    BY <2>4, <2>6, <2>7 DEF Idle, GoodWorld
  <2> HIDE DEF x
  <2>9. CASE EndsCalling(t, n)
    <3>1. Onward(StartCalling(w, n).s, t) /\ ~StartCalling(w, n).s.calling
      BY <2>2, <2>6, <2>8, <2>9, EndTimes
    <3> QED
      BY <1>2, <2>1, <2>3, <2>4, <3>1 DEF Onward, Armed
  <2>10. CASE ~EndsCalling(t, n)
    <3>1. PrepareCalls(x).s = x.s
      BY <2>6 DEF PrepareCalls, Worlds
    <3> QED
      BY <2>2, <2>5, <2>6, <2>10, <3>1
  <2> QED
    BY <2>9, <2>10
<1> QED
  BY <1>1, <1>2

\* The lights, the door and the sensor of a world.
LEMMA FieldTimes ==
    ASSUME NEW w, GoodWorld(w), NEW d \in BOOLEAN, NEW n
    PROVE  /\ SameTimes([w EXCEPT !.s.led1 = 0].s, w.s)
           /\ SameTimes([w EXCEPT !.s.led2 = 0].s, w.s)
           /\ SameTimes([w EXCEPT !.s.door_closed = d].s, w.s)
           /\ SameTimes(StopUltrasonic(w).s, w.s)
           /\ SameTimes([w EXCEPT !.s = UpdateLeds(@, n)].s, w.s)
<1> DEFINE a == [w.s EXCEPT !.led1 = 0]
           r == [w.s EXCEPT !.led2 = 0]
           c == [w.s EXCEPT !.door_closed = d]
           e == [w.s EXCEPT !.action = "off"]
           f == UpdateLeds(w.s, n)
<1>1. SameTimes(a, w.s) /\ SameTimes(r, w.s) /\ SameTimes(c, w.s) /\ SameTimes(e, w.s)
  BY DEF GoodWorld, GoodState, State, SameTimes
<1>2. SameTimes(f, w.s)
  BY LedsTimes DEF GoodWorld
<1>3. /\ [w EXCEPT !.s.led1 = 0] = [w EXCEPT !.s = a]
      /\ [w EXCEPT !.s.led2 = 0] = [w EXCEPT !.s = r]
      /\ [w EXCEPT !.s.door_closed = d] = [w EXCEPT !.s = c]
      /\ StopUltrasonic(w) = [w EXCEPT !.s = e]
      /\ [w EXCEPT !.s = UpdateLeds(@, n)] = [w EXCEPT !.s = f]
  BY DEF StopUltrasonic
<1> HIDE DEF a, r, c, e, f
<1>4. \A t : [w EXCEPT !.s = t].s = t
  BY DEF GoodWorld, Worlds
<1>5. /\ [w EXCEPT !.s.led1 = 0].s = a
      /\ [w EXCEPT !.s.led2 = 0].s = r
      /\ [w EXCEPT !.s.door_closed = d].s = c
      /\ StopUltrasonic(w).s = e
      /\ [w EXCEPT !.s = UpdateLeds(@, n)].s = f
  BY <1>3, <1>4
<1> QED
  BY <1>1, <1>2, <1>5

\* A reading of the sensor.
LEMMA DetectTimes ==
    ASSUME NEW t, GoodState(t), NEW n \in 0..3, NEW long
    PROVE  SameTimes(Detect(t, n, long), t)
<1> DEFINE t1 == [t EXCEPT !.detected = n]
           t2 == [t1 EXCEPT !.triggered = TRUE]
           a == IF CanAct(t, long) THEN "on" ELSE t.action
<1>1. t1 \in State /\ SameTimes(t1, t)
  BY DEF GoodState, State, SameTimes
<1>2. Detect(t, n, long) = IF n > 2 /\ ~t.triggered THEN [t2 EXCEPT !.action = a] ELSE t1
  BY DEF Detect, GoodState, State
<1>3. a \in Time
  BY DEF GoodState, State, Time
<1> HIDE DEF t1, a
<1>4. t2 \in State /\ SameTimes(t2, t)
  BY <1>1 DEF State, SameTimes
<1> HIDE DEF t2
<1>5. SameTimes([t2 EXCEPT !.action = a], t)
  BY <1>3, <1>4 DEF State, SameTimes
<1> QED
  BY <1>1, <1>2, <1>5

\* No message puts off a time.
LEMMA DispatchTimes ==
    ASSUME NEW w, Idle(w), NEW m \in Messages, m.kind # "quit", NEW n, NEW long
    PROVE  Onward(Dispatch(w, m, n, long).s, w.s)
<1> DEFINE u == StopUltrasonic(w)
           r == Dispatch(w, m, n, long)
<1>u. Idle(u) /\ GoodWorld(u) /\ SameTimes(u.s, w.s)
  BY SensorStops, FieldTimes DEF Idle
<1>k. m.kind \in {"main", "indoor", "door", "reading", "changed"}
  BY DEF Messages, Kinds
<1>0. ASSUME NEW x, NEW y, GoodWorld(x), Onward(x.s, u.s), SameTimes(y.s, x.s)
      PROVE  Onward(y.s, w.s)
  BY <1>u, <1>0 DEF Onward, SameTimes, Armed
<1>d. GoodWorld(Dismiss(u)) /\ Onward(Dismiss(u).s, u.s)
  <2> DEFINE e == OnCallingEnd(u)
             x == [e EXCEPT !.s = StopBell(@)]
  <2>1. Dismiss(u) = IF u.s.calling THEN x ELSE u
    BY DEF Dismiss
  <2>2. Onward(x.s, u.s)
    BY <1>u, EndAndStopTimes
  <2>3. GoodWorld(Dismiss(u))
    BY <1>u, DismissGood DEF Idle
  <2> HIDE DEF x, u
  <2> QED
    BY <2>1, <2>2, <2>3 DEF Onward
<1>z. LET z == [u EXCEPT !.s = UpdateLeds(@, n)] IN Onward(z.s, w.s)
  <2>1. Onward(u.s, u.s)
    BY DEF Onward
  <2> QED
    BY <1>u, <1>0, <2>1, FieldTimes
<1>1. CASE m.kind = "main"
  <2> DEFINE x == StartCalling(u, n)
             a == [x EXCEPT !.s.led1 = 0]
  <2>1. GoodWorld(x) /\ Onward(x.s, u.s)
    BY <1>u, StartGood, StartTimes
  <2>2. r = IF m.down THEN a ELSE [u EXCEPT !.s = UpdateLeds(@, n)]
    BY <1>1 DEF Dispatch, OnMainButton
  <2> HIDE DEF x, u, r
  <2>3. Onward(a.s, w.s)
    BY <2>1, <1>0, FieldTimes
  <2> HIDE DEF a
  <2>4. Onward(r.s, w.s)
    BY <1>z, <2>2, <2>3
  <2> QED
    BY <2>4 DEF r
<1>2. CASE m.kind = "indoor"
  <2> DEFINE x == Dismiss(u)
             a == [x EXCEPT !.s.led2 = 0]
  <2>2. r = IF m.down THEN a ELSE [u EXCEPT !.s = UpdateLeds(@, n)]
    BY <1>2 DEF Dispatch, OnIndoorButton
  <2> HIDE DEF u, r
  <2>3. Onward(a.s, w.s)
    BY <1>d, <1>0, FieldTimes
  <2> HIDE DEF a
  <2>4. Onward(r.s, w.s)
    BY <1>z, <2>2, <2>3
  <2> QED
    BY <2>4 DEF r
<1>3. CASE m.kind = "door"
  <2> DEFINE x == Dismiss(u)
             a == [x EXCEPT !.s.door_closed = FALSE]
             z == [u EXCEPT !.s.door_closed = TRUE]
  <2>2. r = IF m.down THEN a ELSE z
    BY <1>3 DEF Dispatch, OnDoorButton
  <2> HIDE DEF u, r
  <2>3. Onward(a.s, w.s)
    BY <1>d, <1>0, FieldTimes
  <2>4. Onward(z.s, w.s)
    <3>1. Onward(u.s, u.s)
      BY DEF Onward
    <3> QED
      BY <1>u, <1>0, <3>1, FieldTimes
  <2> HIDE DEF a, z
  <2>5. Onward(r.s, w.s)
    BY <2>2, <2>3, <2>4
  <2> QED
    BY <2>5 DEF r
<1>4. CASE m.kind = "reading"
  <2> DEFINE t == Detect(w.s, Count(w.s, m.us), long)
  <2>1. GoodState(w.s) /\ w \in Worlds
    BY DEF Idle, GoodWorld
  <2>2. Count(w.s, m.us) \in 0..3
    BY <2>1 DEF Count, GoodState, State
  <2>3. SameTimes(t, w.s)
    BY <2>1, <2>2, DetectTimes
  <2>4. r = IF m.us = "zero" THEN w ELSE [w EXCEPT !.s = t]
    BY <1>4 DEF Dispatch, OnUltrasonicData
  <2> HIDE DEF t, r
  <2>5. r.s \in {w.s, t}
    BY <2>1, <2>4, FieldsCalm
  <2> QED
    BY <2>3, <2>5 DEF SameTimes, Onward, Armed, r
<1>5. CASE m.kind = "changed"
  <2> DEFINE x == CheckConnected(w, n)
             y == [x EXCEPT !.s = UpdateLeds(@, n)]
  <2>1. Idle(x)
    BY CheckConnectedGood
  <2>2. Onward(x.s, w.s)
    BY EndTimes DEF CheckConnected, Onward
  <2>3. r = y
    BY <1>5 DEF Dispatch, OnConnectedChanged
  <2> HIDE DEF x, r
  <2>4. SameTimes(y.s, x.s)
    BY <2>1, FieldTimes DEF Idle
  <2> HIDE DEF y
  <2> QED
    BY <2>2, <2>3, <2>4 DEF SameTimes, Onward, Armed, r
<1> QED
  BY <1>k, <1>1, <1>2, <1>3, <1>4, <1>5

\* Nor does an approach.
LEMMA ApproachTimes ==
    ASSUME NEW w, Idle(w), NEW n
    PROVE  LET t == [BellBegins(w.s) EXCEPT !.action = "off", !.repeats = 0]
           IN  Onward([StartCalling([w EXCEPT !.s = t], n) EXCEPT !.s.led1 = 0].s, w.s)
<1> DEFINE t0 == BellBegins(w.s)
           t1 == [t0 EXCEPT !.action = "off"]
           t == [t1 EXCEPT !.repeats = 0]
           x == [w EXCEPT !.s = t]
           y == StartCalling(x, n)
           z == [y EXCEPT !.s.led1 = 0]
<1>1. GoodState(t0) /\ t0.calling = w.s.calling
  BY BellBeginsGood DEF Idle, GoodWorld
<1>2. /\ t0.start = w.s.start /\ t0.bell = 1
      /\ w.s.bell = 1 => t0.bell_start = w.s.bell_start
  BY BellTimes DEF Idle, GoodWorld
<1>3. t = [t0 EXCEPT !.action = "off", !.repeats = 0]
  BY <1>1 DEF GoodState, State
<1> HIDE DEF t0
<1>4. GoodState(t1) /\ t1.calling = w.s.calling /\ SameTimes(t1, t0)
  BY <1>1 DEF GoodState, State, Time, SameTimes
<1> HIDE DEF t1
<1>5. GoodState(t) /\ t.calling = w.s.calling /\ SameTimes(t, t1)
  BY <1>4, Consts DEF GoodState, State, SameTimes
<1> HIDE DEF t
<1>6. Idle(x) /\ x.s = t
  BY <1>5, SetState
<1> HIDE DEF x
<1>7. GoodWorld(y) /\ Onward(y.s, x.s)
  BY <1>6, StartGood, StartTimes
<1> HIDE DEF y
<1>8. SameTimes(z.s, y.s)
  BY <1>7, FieldTimes
<1> HIDE DEF z
<1>9. Onward(z.s, w.s)
  BY <1>2, <1>4, <1>5, <1>6, <1>7, <1>8 DEF SameTimes, Onward, Armed
<1> QED
  BY <1>3, <1>9 DEF z, y, x, t0

\* A turn without a message ends what has lasted long enough.
LEMMA TickTimes ==
    ASSUME IInv, Tick
    PROVE  /\ Onward(s', s)
           /\ s.start = "due" => ~s'.calling
           /\ s.bell_start = "due" => s'.bell = 0
<1> DEFINE t == BellTimeout(s)
           x == [World EXCEPT !.s = t]
           w == CallingTimeout(x)
           r == IF t.calling THEN RepeatBell(w.s) ELSE w.s
           y == [w EXCEPT !.s = IF t.calling THEN RepeatBell(@) ELSE @,
                          !.dial = w.s.calling]
<1>w. Idle(World) /\ World.s = s /\ GoodState(s) /\ World \in Worlds
  BY WorldIsIdle DEF World, Idle, GoodWorld
<1>1. Become(y, "top")
  BY DEF Tick
<1>2. GoodState(t) /\ t.calling = s.calling
  BY <1>w, BellTimeoutGood
<1>3. /\ t.start = s.start /\ Onward(t, s)
      /\ IF s.bell_start = "due" THEN t.bell = 0 ELSE t = s
  BY <1>w, <1>2, BellTimes DEF BellTimeout, Onward, Armed
<1> HIDE DEF t
<1>4. Idle(x) /\ x.s = t
  BY <1>w, <1>2, SetState
<1> HIDE DEF x
<1>5. Idle(w)
  BY <1>4, CallingTimeoutGood
<1>6. IF x.s.calling /\ x.s.start = "due" THEN ~w.s.calling /\ w.s.bell = 0 ELSE w = x
  BY <1>4, EndAndStopTimes DEF CallingTimeout
<1> HIDE DEF w
<1>7. w \in Worlds /\ r = w.s
  BY <1>5, RepeatIdle DEF Idle, GoodWorld
<1>8. y = [w EXCEPT !.dial = w.s.calling]
  BY <1>7 DEF Worlds
<1> HIDE DEF y
<1>9. s' = w.s
  BY <1>1, <1>7, <1>8 DEF Worlds, Become
<1> QED
  BY <1>2, <1>3, <1>4, <1>6, <1>9 DEF Onward, Armed

\* Every step leaves the times as they are, lets one pass, or ends what it is for.
LEMMA TimesStep == ASSUME IInv, Armed(s), [Next]_vars PROVE NotPostponed /\ Armed(s)'
<1>w. Idle(World) /\ World.s = s /\ GoodState(s) /\ World \in Worlds
  BY WorldIsIdle DEF World, Idle, GoodWorld
<1>0. ASSUME Onward(s', s), ~Tick PROVE NotPostponed /\ Armed(s)'
  BY <1>0 DEF Onward, NotPostponed, TimeGoesOn, Armed
<1>1. CASE Tick
  <2>1. /\ Onward(s', s) /\ (s.start = "due" => ~s'.calling)
        /\ s.bell_start = "due" => s'.bell = 0
    BY <1>1, TickTimes
  <2> QED
    BY <2>1 DEF Onward, NotPostponed, TimeGoesOn, Armed
<1>2. CASE Handle /\ ~Tick
  <2>1. PICK long \in BOOLEAN : Become(Dispatch(World, msg, seen, long), "top")
    BY <1>2 DEF Handle
  <2>2. msg \in Messages /\ msg.kind # "quit"
    BY <1>2 DEF Handle, IInv, RestOK, LoopInv
  <2>3. s' = Dispatch(World, msg, seen, long).s
    BY <2>1 DEF Become
  <2> QED
    BY <1>w, <1>0, <1>2, <2>2, <2>3, DispatchTimes
<1>3. CASE Approach /\ ~Tick
  <2> DEFINE t == [BellBegins(s) EXCEPT !.action = "off", !.repeats = 0]
             x == StartCalling([World EXCEPT !.s = t], Connected(calls))
             y == [x EXCEPT !.s.led1 = 0]
             w == IF s.action = "due" THEN y ELSE World
  <2>1. s' = w.s
    BY <1>3 DEF Approach, Become
  <2>2. Onward(y.s, s)
    BY <1>w, ApproachTimes
  <2> HIDE DEF y
  <2>3. Onward(s, s)
    BY DEF Onward
  <2> QED
    BY <1>w, <1>0, <1>3, <2>1, <2>2, <2>3
<1>4. ASSUME s' = s, ~Tick PROVE NotPostponed /\ Armed(s)'
  BY <1>0, <1>4 DEF Onward
<1>5. CASE TakeMessage \/ CheckPhone \/ Dial \/ CheckedAll
  <2>1. s' = s
    BY <1>5 DEF TakeMessage, CheckPhone, Dial, CheckedAll
  <2>2. pc # "tick"
    BY <1>5 DEF TakeMessage, CheckPhone, Dial, CheckedAll
  <2> QED
    BY <1>4, <2>1, <2>2 DEF Tick
<1>6. ASSUME NEW f \in Timers, TimePasses(f) PROVE NotPostponed /\ Armed(s)'
  <2>1. s[f] = "on" /\ s' = [s EXCEPT ![f] = "due"] /\ ~Tick
    <3>1. s[f] = "on" /\ s' = [s EXCEPT ![f] = "due"] /\ pc' = pc
      BY <1>6 DEF TimePasses
    <3>2. Tick => pc = "tick" /\ pc' # "tick"
      BY DEF Tick, Become
    <3> QED
      BY <3>1, <3>2
  <2>2. /\ s'.calling = s.calling /\ s'.bell = s.bell
        /\ s'.start = s.start \/ (s.start = "on" /\ s'.start = "due")
        /\ s'.bell_start = s.bell_start \/ (s.bell_start = "on" /\ s'.bell_start = "due")
    BY <1>w, <2>1 DEF Timers, GoodState, State
  <2> QED
    BY <2>1, <2>2 DEF NotPostponed, TimeGoesOn, Armed
<1>7. ASSUME s' = s, pc' = pc PROVE NotPostponed /\ Armed(s)'
  <2>1. Tick => pc = "tick" /\ pc' # "tick"
    BY DEF Tick, Become
  <2> QED
    BY <1>4, <1>7, <2>1
<1> QED
  BY <1>1, <1>2, <1>3, <1>5, <1>6, <1>7
  DEF Next, Script, vars, PhoneDelay, Confirm, SwitchMain, EndCall, Receive, PostChanged,
      Press, Measure, Quit, Arrives, CallStep, scriptVars

\* Neither the bell nor the calling can be put off, whoever does what at the door: a
\* time that has begun only runs out.
THEOREM TimesRunOut == Spec => [][NotPostponed]_vars
<1>1. Init => Armed(s)
  BY DEF Init, Armed
<1>2. IInv /\ Armed(s) /\ [Next]_vars => NotPostponed /\ Armed(s)'
  BY TimesStep
<1> QED
  BY InitIInv, StepIInv, <1>1, <1>2, PTL DEF Spec

-----------------------------------------------------------------------------
(* The menu of a call, CallMenu, for any digits and limit of the queue.    *)

Reported == {"idle", "play", "wait"}
Words == {"quit", "idle", "play", "wait"}
Reports == {d \in Seq([kind : Reported, op : Nat, param : Nat]) : Len(d) <= 2}

QuitIn(m) == \E i \in 1..Len(m) : m[i] = "quit"
Queue == {m \in Seq(Words) : Len(m) <= MaxElements}

\* A port that is busy owes a completion: the menu starts nothing it will not hear of.
BusyOwes(w) == w.state # "idle" => w.async

\* Where the menu goes to sleep, or may, it has a message or is owed one.
DrivenInv == mpc \in {"fetch", "sleep"} /\ ~exit => mqueue # <<>> \/ vr.async

\* The quit message is posted after the flag is set, and only it ends the menu.
ToldInv ==
    /\ exit <=> spc # "running"
    /\ QuitIn(mqueue) => exit
    /\ mpc = "done" => exit

MenuInv == MenuTypeOK /\ mqueue \in Queue /\ BusyOwes(vr) /\ DrivenInv /\ ToldInv

\* The menu is left only when the script is told to exit.
LeftWhenTold == mpc = "done" => exit

\* The queue keeps its limit, also when a port posts two completions in a row.
QueueKeepsLimit == Len(mqueue) <= MaxElements

-----------------------------------------------------------------------------
(* Messages that are posted.                                               *)

\* A full queue makes room, and gains no message by it.
LEMMA RoomMade ==
    ASSUME NEW m \in Queue
    PROVE  /\ Room(m) \in Seq(Words) /\ Len(Room(m)) < MaxElements
           /\ QuitIn(Room(m)) => QuitIn(m)
<1>1. m \in Seq(Words) /\ Len(m) \in Nat /\ Len(m) <= MaxElements /\ MaxElements \in Nat \ {0}
  BY MenuAssumption DEF Queue
<1>2. CASE Len(m) >= MaxElements
  <2>1. Room(m) = Tail(m)
    BY <1>2 DEF Room
  <2>2. /\ Tail(m) \in Seq(Words) /\ Len(Tail(m)) = Len(m) - 1
        /\ \A i \in 1..Len(Tail(m)) : i + 1 \in 1..Len(m) /\ Tail(m)[i] = m[i + 1]
    BY <1>1, <1>2
  <2> QED
    BY <1>1, <2>1, <2>2 DEF QuitIn
<1>3. CASE ~(Len(m) >= MaxElements)
  BY <1>1, <1>3 DEF Room
<1> QED
  BY <1>2, <1>3

\* One completion is posted.
LEMMA OnePosted ==
    ASSUME NEW m \in Queue, NEW w \in Reported
    PROVE  /\ Append(Room(m), w) \in Queue /\ Append(Room(m), w) # <<>>
           /\ QuitIn(Append(Room(m), w)) => QuitIn(m)
<1> DEFINE r == Room(m)
           a == Append(r, w)
<1>1. r \in Seq(Words) /\ Len(r) \in Nat /\ Len(r) < MaxElements /\ (QuitIn(r) => QuitIn(m))
  BY RoomMade
<1>2. w \in Words /\ w # "quit"
  BY DEF Reported, Words
<1> HIDE DEF r
<1>3. /\ a \in Seq(Words) /\ Len(a) = Len(r) + 1
      /\ a[Len(a)] = w /\ \A i \in 1..Len(r) : a[i] = r[i]
  BY <1>1, <1>2
<1> HIDE DEF a
<1>4. \A i \in 1..Len(a) : i = Len(a) \/ i \in 1..Len(r)
  BY <1>1, <1>3
<1>5. QuitIn(a) => QuitIn(r)
  BY <1>2, <1>3, <1>4 DEF QuitIn
<1>6. a \in Queue /\ a # <<>>
  BY <1>1, <1>3, MenuAssumption DEF Queue
<1> QED
  BY <1>1, <1>5, <1>6 DEF a, r

\* What a call of the port reports is posted.
LEMMA AllPosted ==
    ASSUME mqueue \in Queue, NEW d \in Reports, Post(d)
    PROVE  /\ mqueue' \in Queue /\ (d # <<>> \/ mqueue # <<>> => mqueue' # <<>>)
           /\ QuitIn(mqueue') => QuitIn(mqueue)
<1> DEFINE S == [kind : Reported, op : Nat, param : Nat]
<1>0. \A c \in S : c.kind \in Reported
  OBVIOUS
<1>1. d \in Seq(S) /\ Len(d) \in Nat /\ Len(d) <= 2
  BY DEF Reports
<1> HIDE DEF S
<1>2. CASE d = <<>>
  BY <1>2 DEF Post
<1>3. CASE d # <<>>
  <2>1. d[1].kind \in Reported
    <3>1. d[1] \in S
      BY <1>1, <1>3
    <3> QED
      BY <1>0, <3>1
  <2>2. PICK once : once = Append(Room(mqueue), d[1].kind)
    OBVIOUS
  <2>3. once \in Queue /\ once # <<>> /\ (QuitIn(once) => QuitIn(mqueue))
    BY <2>1, <2>2, OnePosted
  <2>4. CASE Len(d) = 1
    BY <1>3, <2>2, <2>3, <2>4 DEF Post
  <2>5. CASE Len(d) # 1
    <3>1. d[2].kind \in Reported
      <4>1. Len(d) # 0
        BY <1>1, <1>3
      <4>2. PICK n \in Nat : n = Len(d)
        BY <1>1
      <4>3. n \in Nat /\ n <= 2 /\ n # 0 /\ n # 1
        BY <1>1, <2>5, <4>1, <4>2
      <4>4. 2 \in 1..n
        BY <4>3
      <4>5. d[2] \in S
        BY <1>1, <4>2, <4>4
      <4> QED
        BY <1>0, <4>5
    <3>2. mqueue' = Append(Room(once), d[2].kind)
      BY <1>3, <2>2, <2>5 DEF Post
    <3> QED
      BY <2>3, <3>1, <3>2, OnePosted
  <2> QED
    BY <2>4, <2>5
<1> QED
  BY <1>2, <1>3

-----------------------------------------------------------------------------
(* What a call of the port leaves and reports.                             *)

\* internal_stop() leaves an idle port that owes nothing, with its digits.
LEMMA StoppedPort ==
    ASSUME NEW w \in Port
    PROVE  /\ InternalStop(w) \in Port /\ InternalStop(w).state = "idle"
           /\ ~InternalStop(w).async /\ BusyOwes(InternalStop(w))
  BY DEF InternalStop, Port, BusyOwes

\* A completion is reported if it is owed and the script is not to exit.
LEMMA CompletionReported ==
    ASSUME NEW w \in Port, NEW kind \in Reported, NEW e \in BOOLEAN
    PROVE  /\ Completion(w, kind, e) \in Reports /\ Len(Completion(w, kind, e)) <= 1
           /\ w.async /\ ~e => Completion(w, kind, e) # <<>>
<1> DEFINE c == [kind |-> kind, op |-> w.op, param |-> w.param]
<1>1. c \in [kind : Reported, op : Nat, param : Nat]
  BY DEF Port
<1> HIDE DEF c
<1>2. Completion(w, kind, e) = IF w.async /\ ~e THEN <<c>> ELSE <<>>
  BY DEF Completion, c
<1>3. <<c>> \in Reports /\ <<>> \in Reports /\ Len(<<c>>) = 1 /\ Len(<<>>) = 0 /\ <<c>> # <<>>
  BY <1>1 DEF Reports
<1> QED
  BY <1>2, <1>3

\* Two reports of one completion at most are a report.
LEMMA ReportedTogether ==
    ASSUME NEW d \in Reports, NEW e \in Reports, Len(d) <= 1, Len(e) <= 1
    PROVE  d \o e \in Reports /\ (e # <<>> => d \o e # <<>>)
<1>1. /\ d \in Seq([kind : Reported, op : Nat, param : Nat]) /\ Len(d) \in Nat
      /\ e \in Seq([kind : Reported, op : Nat, param : Nat]) /\ Len(e) \in Nat
  BY DEF Reports
<1>2. d \o e \in Seq([kind : Reported, op : Nat, param : Nat]) /\ Len(d \o e) = Len(d) + Len(e)
  BY <1>1
<1>3. e # <<>> => Len(e) # 0
  BY <1>1
<1>4. Len(<<>>) = 0
  OBVIOUS
<1> QED
  BY <1>1, <1>2, <1>3, <1>4 DEF Reports

\* get_input() takes some of the digits and leaves the others.
LEMMA DigitsTaken ==
    ASSUME NEW w \in Port, NEW n \in Nat
    PROVE  Taken(w, n) \in Seq(Digits) /\ Left(w, n) \in Seq(Digits)
<1> DEFINE taken == {i \in 1..Len(w.buf) : i <= n /\ \A j \in 2..i : w.buf[j] \notin w.term}
<1>1. w.buf \in Seq(Digits) /\ Len(w.buf) \in Nat
  BY DEF Port
<1>2. IsFiniteSet(1..Len(w.buf)) /\ Cardinality(1..Len(w.buf)) = Len(w.buf)
  <2>1. PICK l : l = Len(w.buf)
    OBVIOUS
  <2>2. l \in Nat /\ l \in Int /\ 1 \in Int
    BY <1>1, <2>1
  <2>3. IsFiniteSet(1..l) /\ Cardinality(1..l) = IF 1 > l THEN 0 ELSE l - 1 + 1
    BY <2>2, FS_Interval
  <2>4. IsFiniteSet(1..l) /\ Cardinality(1..l) = l
    BY <2>2, <2>3
  <2> QED
    BY <2>1, <2>4
<1>3. taken \in SUBSET (1..Len(w.buf))
  OBVIOUS
<1>4. Cardinality(taken) \in Nat /\ Cardinality(taken) <= Len(w.buf)
  BY <1>2, <1>3, FS_Subset, FS_CardinalityType
<1>5. TakeLen(w, n) = Cardinality(taken)
  BY DEF TakeLen
<1> HIDE DEF taken
<1>6. PICK k \in 0..Len(w.buf) : k = TakeLen(w, n)
  BY <1>1, <1>4, <1>5
<1>7. SubSeq(w.buf, 1, k) \in Seq(Digits)
  BY <1>1, <1>6
<1>8. SubSeq(w.buf, k + 1, Len(w.buf)) \in Seq(Digits)
  BY <1>1, <1>6
<1> QED
  BY <1>6, <1>7, <1>8 DEF Taken, Left

\* A prompt is started, or its completion is reported: refused because of digits typed
\* ahead, or not opened, it is reported at once.
LEMMA BeepOwed ==
    ASSUME vr \in Port, exit \in BOOLEAN, PlayBeep
    PROVE  /\ vr' \in Port /\ BusyOwes(vr)'
           /\ \E d \in Reports : Post(d) /\ (~exit => vr'.async \/ d # <<>>)
<1>1. PICK opens \in BOOLEAN :
        LET armed == PlayArmed(InternalStop(vr), 0, TRUE, Digits)
            r     == PlayFile(armed, exit, opens, FALSE)
        IN  vr' = r.port /\ Post(Completion(vr, vr.state, exit) \o r.done)
  BY DEF PlayBeep
<1>2. PICK armed : armed = PlayArmed(InternalStop(vr), 0, TRUE, Digits)
  OBVIOUS
<1>3. PICK r : r = PlayFile(armed, exit, opens, FALSE)
  OBVIOUS
<1>4. vr' = r.port /\ Post(Completion(vr, vr.state, exit) \o r.done)
  BY <1>1, <1>2, <1>3
<1>5. armed \in Port /\ armed.async = TRUE /\ armed.state = "idle"
  BY <1>2, StoppedPort DEF PlayArmed, Port
<1>6. vr.state \in Reported /\ "play" \in Reported /\ "idle" \in Reported
  BY DEF Port, Reported
<1>7. /\ r.port \in Port /\ BusyOwes(r.port) /\ r.done \in Reports /\ Len(r.done) <= 1
      /\ ~exit => r.port.async \/ r.done # <<>>
  <2>1. CASE PlayRefused(armed, exit)
    <3>1. r.port = [armed EXCEPT !.async = FALSE] /\ r.done = Completion(armed, "play", exit)
      BY <1>3, <2>1 DEF PlayFile
    <3>2. r.port \in Port /\ r.port.state = "idle"
      BY <1>5, <3>1 DEF Port
    <3> QED
      BY <1>5, <1>6, <3>1, <3>2, CompletionReported DEF BusyOwes
  <2>2. CASE ~PlayRefused(armed, exit) /\ opens
    <3>1. /\ r.port = [armed EXCEPT !.state = "play", !.file = TRUE, !.loops = FALSE]
          /\ r.done = <<>>
      BY <1>3, <2>2 DEF PlayFile
    <3>2. r.port \in Port /\ r.port.async = TRUE
      BY <1>5, <3>1 DEF Port
    <3>3. <<>> \in Reports /\ Len(<<>>) = 0
      BY DEF Reports
    <3> QED
      BY <3>1, <3>2, <3>3 DEF BusyOwes
  <2>3. CASE ~PlayRefused(armed, exit) /\ ~opens
    <3>1. r.port = InternalStop(armed) /\ r.done = Completion(armed, armed.state, exit)
      BY <1>3, <2>3 DEF PlayFile
    <3> QED
      BY <1>5, <1>6, <3>1, StoppedPort, CompletionReported
  <2> QED
    BY <2>1, <2>2, <2>3
<1>8. PICK d : d = Completion(vr, vr.state, exit) \o r.done
  OBVIOUS
<1>9. d \in Reports /\ (r.done # <<>> => d # <<>>)
  BY <1>6, <1>7, <1>8, CompletionReported, ReportedTogether
<1> QED
  BY <1>4, <1>7, <1>8, <1>9 DEF BusyOwes

\* The port waits for a digit, or reports one that was typed ahead.
LEMMA DigitOwed ==
    ASSUME vr \in Port, exit \in BOOLEAN, WaitForDigit
    PROVE  /\ vr' \in Port /\ BusyOwes(vr)'
           /\ \E d \in Reports : Post(d) /\ (~exit => vr'.async \/ d # <<>>)
<1>1. <<>> \in Reports /\ Len(<<>>) = 0
  BY DEF Reports
<1>2. CASE exit
  <2>1. vr' = InternalStop(vr) /\ Post(<<>>)
    BY <1>2 DEF WaitForDigit, Post
  <2> QED
    BY <1>1, <1>2, <2>1, StoppedPort DEF BusyOwes
<1>3. CASE ~exit
  <2>1. PICK armed : armed = WaitArmed(InternalStop(vr), 0, TRUE, 1, {}, TRUE)
    OBVIOUS
  <2>2. PICK r : r = WaitInput(armed, exit, TRUE, 1)
    OBVIOUS
  <2>3. vr' = r.port /\ Post(Completion(vr, vr.state, exit) \o r.done)
    BY <1>3, <2>1, <2>2 DEF WaitForDigit
  <2>4. armed \in Port /\ armed.async = TRUE /\ armed.state = "idle"
    BY <2>1, StoppedPort DEF WaitArmed, Port
  <2>5. vr.state \in Reported /\ "wait" \in Reported
    BY DEF Port, Reported
  <2>6. /\ r.port \in Port /\ BusyOwes(r.port) /\ r.done \in Reports /\ Len(r.done) <= 1
        /\ r.port.async \/ r.done # <<>>
    <3>1. CASE DigitsEnough(armed)
      <4>1. r.port = [armed EXCEPT !.async = FALSE, !.buf = @] /\ r.done = Completion(armed, "wait", exit)
        BY <2>2, <3>1 DEF WaitInput
      <4>2. r.port \in Port /\ r.port.state = "idle"
        BY <2>4, <4>1 DEF Port
      <4> QED
        BY <1>3, <2>4, <2>5, <4>1, <4>2, CompletionReported DEF BusyOwes
    <3>2. CASE ~DigitsEnough(armed)
      <4>1. r.port = [armed EXCEPT !.state = "wait"] /\ r.done = <<>>
        BY <2>2, <3>2 DEF WaitInput
      <4>2. r.port \in Port /\ r.port.async = TRUE
        BY <2>4, <4>1 DEF Port
      <4> QED
        BY <1>1, <4>1, <4>2 DEF BusyOwes
    <3> QED
      BY <3>1, <3>2
  <2>7. PICK d : d = Completion(vr, vr.state, exit) \o r.done
    OBVIOUS
  <2>8. d \in Reports /\ (r.done # <<>> => d # <<>>)
    BY <2>5, <2>6, <2>7, CompletionReported, ReportedTogether
  <2> QED
    BY <2>3, <2>6, <2>7, <2>8 DEF BusyOwes
<1> QED
  BY <1>2, <1>3

-----------------------------------------------------------------------------
(* The inductive invariant of the menu.                                    *)

\* The menu begins with an idle port and no message.
LEMMA MenuInitInv == ASSUME MenuInit PROVE MenuInv
<1>1. IdlePort \in Port /\ BusyOwes(IdlePort)
  BY DEF IdlePort, Port, BusyOwes
<1>2. <<>> \in Queue /\ ~QuitIn(<<>>) /\ <<>> \in Seq(Words) /\ <<>> \in Seq(Digits)
  BY MenuAssumption DEF Queue, QuitIn
<1>3. 0 \in 0..MaxDigits
  BY MenuAssumption
<1>4. MenuTypeOK
  BY <1>1, <1>2, <1>3 DEF MenuInit, MenuTypeOK, Words
<1> QED
  BY <1>1, <1>2, <1>4 DEF MenuInit, MenuInv, DrivenInv, ToldInv

\* A step at which the port may report: whoever does so, the menu is owed a message or
\* has one if it was owed one or had one.
LEMMA PortStep ==
    ASSUME MenuInv, NEW d \in Reports, Post(d), vr' \in Port, BusyOwes(vr)',
           vr.async /\ ~exit => vr'.async \/ d # <<>>,
           UNCHANGED <<exit, mpc, key>>, fpc' \in {"out", "in"}, pressed' \in 0..MaxDigits,
           spc' \in {"running", "quit", "stop", "stopped"}, spc' = "running" <=> spc = "running"
    PROVE  MenuInv'
<1>1. /\ mqueue' \in Queue /\ (QuitIn(mqueue') => QuitIn(mqueue))
      /\ d # <<>> \/ mqueue # <<>> => mqueue' # <<>>
  BY AllPosted DEF MenuInv
<1>2. MenuTypeOK'
  BY <1>1 DEF MenuInv, MenuTypeOK, Queue, Words
<1>3. DrivenInv' /\ ToldInv'
  BY <1>1 DEF MenuInv, DrivenInv, ToldInv
<1> QED
  BY <1>1, <1>2, <1>3 DEF MenuInv

\* The menu starts something on its port, and goes to look for a message.
LEMMA MenuStarts ==
    ASSUME MenuInv, PlayBeep \/ WaitForDigit, mpc # "done", MenuStays, key' \in Seq(Digits),
           mpc' \in {"fetch", "idle"}
    PROVE  MenuInv'
<1>1. /\ vr' \in Port /\ BusyOwes(vr)'
      /\ \E d \in Reports : Post(d) /\ (~exit => vr'.async \/ d # <<>>)
  BY BeepOwed, DigitOwed DEF MenuInv, MenuTypeOK
<1>2. PICK d \in Reports : Post(d) /\ (~exit => vr'.async \/ d # <<>>)
  BY <1>1
<1>3. /\ mqueue' \in Queue /\ (QuitIn(mqueue') => QuitIn(mqueue))
      /\ d # <<>> \/ mqueue # <<>> => mqueue' # <<>>
  BY <1>2, AllPosted DEF MenuInv
<1>4. MenuTypeOK'
  BY <1>1, <1>3 DEF MenuInv, MenuTypeOK, Queue, Words, MenuStays
<1>5. DrivenInv' /\ ToldInv'
  BY <1>2, <1>3 DEF MenuInv, DrivenInv, ToldInv, MenuStays
<1> QED
  BY <1>1, <1>3, <1>4, <1>5 DEF MenuInv

\* The menu takes a message: the quit message ends it, a completion makes it look for a digit.
LEMMA MenuFetchesInv == ASSUME MenuInv, MenuFetches PROVE MenuInv'
<1>1. CASE mqueue = <<>>
  <2>1. UNCHANGED <<vr, mqueue, key, exit, fpc, spc, pressed>> /\ mpc' = "sleep" /\ mpc = "fetch"
    BY <1>1 DEF MenuFetches, MenuStays
  <2> QED
    BY <2>1 DEF MenuInv, MenuTypeOK, DrivenInv, ToldInv
<1>2. CASE mqueue # <<>>
  <2>1. /\ UNCHANGED <<vr, key, exit, fpc, spc, pressed>> /\ mqueue' = Tail(mqueue)
        /\ mpc' = IF Head(mqueue) = "quit" THEN "done" ELSE "input"
    BY <1>2 DEF MenuFetches, MenuStays
  <2>2. /\ mqueue \in Seq(Words) /\ Len(mqueue) \in Nat /\ MaxElements \in Nat
        /\ Len(mqueue) <= MaxElements
    BY MenuAssumption DEF MenuInv, Queue
  <2>3. /\ Head(mqueue) = mqueue[1] /\ 1 \in 1..Len(mqueue)
        /\ Tail(mqueue) \in Seq(Words) /\ Len(Tail(mqueue)) = Len(mqueue) - 1
        /\ \A i \in 1..Len(Tail(mqueue)) : i + 1 \in 1..Len(mqueue) /\ Tail(mqueue)[i] = mqueue[i + 1]
    BY <1>2, <2>2
  <2>4. /\ Tail(mqueue) \in Queue /\ (QuitIn(Tail(mqueue)) => QuitIn(mqueue))
        /\ Head(mqueue) = "quit" => QuitIn(mqueue)
    BY <2>2, <2>3 DEF Queue, QuitIn
  <2>5. MenuTypeOK'
    BY <2>1, <2>3 DEF MenuInv, MenuTypeOK, Words
  <2>6. DrivenInv' /\ ToldInv'
    BY <2>1, <2>4 DEF MenuInv, DrivenInv, ToldInv
  <2> QED
    BY <2>1, <2>4, <2>5, <2>6 DEF MenuInv
<1> QED
  BY <1>1, <1>2

\* The other steps of the menu.
LEMMA MenuGoesInv ==
    ASSUME MenuInv, \/ MenuClearsInput \/ MenuClearsQueue \/ MenuWakes \/ MenuTakesKey \/ MenuGoesOn
    PROVE  MenuInv'
<1>1. vr \in Port /\ BusyOwes(vr) /\ <<>> \in Seq(Digits)
  BY DEF MenuInv, MenuTypeOK
<1>2. CASE MenuClearsInput
  <2>1. [vr EXCEPT !.buf = <<>>] \in Port /\ BusyOwes([vr EXCEPT !.buf = <<>>])
    BY <1>1 DEF Port, BusyOwes
  <2> QED
    BY <1>2, <2>1 DEF MenuInv, MenuTypeOK, DrivenInv, ToldInv, MenuClearsInput, MenuStays
<1>3. CASE MenuClearsQueue
  <2>1. <<>> \in Queue /\ ~QuitIn(<<>>) /\ <<>> \in Seq(Words)
    BY MenuAssumption DEF Queue, QuitIn
  <2> QED
    BY <1>3, <2>1 DEF MenuInv, MenuTypeOK, DrivenInv, ToldInv, MenuClearsQueue, MenuStays, Words
<1>4. CASE MenuWakes
  BY <1>4 DEF MenuInv, MenuTypeOK, DrivenInv, ToldInv, MenuWakes, MenuStays
<1>5. CASE MenuTakesKey
  <2>1. Taken(vr, 1) \in Seq(Digits) /\ Left(vr, 1) \in Seq(Digits)
    BY <1>1, DigitsTaken
  <2>2. PICK w : w = [vr EXCEPT !.buf = Left(vr, 1)]
    OBVIOUS
  <2>3. w \in Port /\ BusyOwes(w)
    BY <1>1, <2>1, <2>2 DEF Port, BusyOwes
  <2>4. /\ vr' = w /\ key' = Taken(vr, 1) /\ mpc' \in {"answer", "idle"}
        /\ UNCHANGED <<mqueue, exit, fpc, spc, pressed>>
    BY <1>5, <2>2 DEF MenuTakesKey, MenuStays
  <2> QED
    BY <2>1, <2>3, <2>4 DEF MenuInv, MenuTypeOK, DrivenInv, ToldInv
<1>6. CASE MenuGoesOn
  BY <1>1, <1>6 DEF MenuInv, MenuTypeOK, DrivenInv, ToldInv, BusyOwes, MenuGoesOn, MenuStays
<1> QED
  BY <1>2, <1>3, <1>4, <1>5, <1>6

\* The media clock, a digit and stop() end what the port does, or leave it alone.
LEMMA PortEndsInv ==
    ASSUME MenuInv, \/ FrameLook \/ FrameGoesOn \/ FrameEnds \/ StopPort
                    \/ \E x \in Digits : OnDtmf(x)
    PROVE  MenuInv'
<1>1. vr \in Port /\ BusyOwes(vr) /\ exit \in BOOLEAN /\ vr.state \in Reported
  BY DEF MenuInv, MenuTypeOK, Port, Reported
<1>2. <<>> \in Reports
  BY DEF Reports
<1>3. PICK d : d = Completion(vr, vr.state, exit)
  OBVIOUS
<1>4. d \in Reports /\ (vr.async /\ ~exit => d # <<>>)
  BY <1>1, <1>3, CompletionReported
<1>5. CASE FrameLook \/ FrameGoesOn
  <2>1. UNCHANGED <<vr, exit, mpc, key, spc, pressed>> /\ Post(<<>>) /\ fpc' \in {"out", "in"}
    BY <1>5 DEF FrameLook, FrameGoesOn, Elsewhere, Post
  <2> QED
    BY <1>1, <1>2, <2>1, PortStep DEF MenuInv, MenuTypeOK, BusyOwes
<1>6. CASE FrameEnds \/ StopPort
  <2>1. /\ vr' = InternalStop(vr) /\ Post(d) /\ UNCHANGED <<exit, mpc, key, pressed>>
        /\ fpc' \in {fpc, "out"} /\ (spc' = spc \/ (spc = "stop" /\ spc' = "stopped"))
    BY <1>3, <1>6 DEF FrameEnds, StopPort, Elsewhere
  <2>2. vr' \in Port /\ BusyOwes(vr)'
    BY <1>1, <2>1, StoppedPort DEF BusyOwes
  <2> QED
    BY <1>4, <2>1, <2>2, PortStep DEF MenuInv, MenuTypeOK
<1>7. ASSUME NEW x \in Digits, OnDtmf(x) PROVE MenuInv'
  <2>1. PICK typed : typed = [vr EXCEPT !.buf = Append(@, x)]
    OBVIOUS
  <2>2. typed \in Port /\ BusyOwes(typed) /\ typed.async = vr.async
    <3>1. Append(vr.buf, x) \in Seq(Digits)
      BY <1>1 DEF Port
    <3>2. PICK b \in Seq(Digits) : b = Append(vr.buf, x)
      BY <3>1
    <3>3. typed = [vr EXCEPT !.buf = b]
      BY <2>1, <3>2
    <3> QED
      BY <1>1, <3>3 DEF Port, BusyOwes
  <2>3. UNCHANGED <<exit, mpc, key, fpc, spc>> /\ pressed' \in 0..MaxDigits
    BY <1>7, MenuAssumption DEF OnDtmf, Elsewhere, MenuInv, MenuTypeOK
  <2>4. \/ vr' = InternalStop(typed) /\ Post(d)
        \/ vr' = typed /\ Post(<<>>)
    BY <1>3, <1>7, <2>1 DEF OnDtmf, Post
  <2>5. vr' \in Port /\ BusyOwes(vr)'
    BY <2>2, <2>4, StoppedPort DEF BusyOwes
  <2>6. \E e \in Reports : Post(e) /\ (vr.async /\ ~exit => vr'.async \/ e # <<>>)
    BY <1>2, <1>4, <2>2, <2>4
  <2> QED
    BY <2>3, <2>5, <2>6, PortStep DEF MenuInv, MenuTypeOK
<1> QED
  BY <1>5, <1>6, <1>7

\* stop() sets the flag, then posts the quit message.
LEMMA MenuToldInv == ASSUME MenuInv, SetExit \/ PostQuit PROVE MenuInv'
<1>1. CASE SetExit
  BY <1>1 DEF SetExit, Elsewhere, MenuInv, MenuTypeOK, DrivenInv, ToldInv
<1>2. CASE PostQuit
  <2>1. PICK r : r = Room(mqueue)
    OBVIOUS
  <2>2. r \in Seq(Words) /\ Len(r) \in Nat /\ Len(r) < MaxElements
    BY <2>1, RoomMade DEF MenuInv
  <2>3. PICK m : m = <<"quit">> \o r
    OBVIOUS
  <2>4. m \in Queue /\ m # <<>> /\ m \in Seq(Words)
    <3>1. <<"quit">> \in Seq(Words) /\ Len(<<"quit">>) = 1
      BY DEF Words
    <3>2. m \in Seq(Words) /\ Len(m) = 1 + Len(r)
      BY <2>2, <2>3, <3>1
    <3> QED
      BY <2>2, <3>2, MenuAssumption DEF Queue
  <2>5. mqueue' = m /\ spc = "quit" /\ spc' = "stop" /\ UNCHANGED <<vr, exit, fpc, pressed, mpc, key>>
    BY <1>2, <2>1, <2>3 DEF PostQuit, Elsewhere
  <2>6. exit
    BY <2>5 DEF MenuInv, ToldInv
  <2> QED
    BY <2>4, <2>5, <2>6 DEF MenuInv, MenuTypeOK, Words, DrivenInv, ToldInv
<1> QED
  BY <1>1, <1>2

\* The invariant holds in every state of every run of the menu.
LEMMA MenuInvariance == MenuSpec => []MenuInv
<1>1. MenuInit => MenuInv
  BY MenuInitInv
<1>2. MenuInv /\ [MenuNext]_menuVars => MenuInv'
  <2> SUFFICES ASSUME MenuInv, [MenuNext]_menuVars PROVE MenuInv'
    OBVIOUS
  <2>1. CASE MenuBegins \/ MenuAnswers \/ MenuWaitsForDigit
    <3>1. /\ PlayBeep \/ WaitForDigit
          /\ mpc # "done" /\ MenuStays /\ mpc' \in {"fetch", "idle"} /\ key' \in {key, <<>>}
      BY <2>1 DEF MenuBegins, MenuAnswers, MenuWaitsForDigit
    <3>2. key \in Seq(Digits) /\ <<>> \in Seq(Digits)
      BY DEF MenuInv, MenuTypeOK
    <3>3. key' \in Seq(Digits)
      BY <3>1, <3>2
    <3> QED
      BY <3>1, <3>3, MenuStarts
  <2>2. CASE MenuFetches
    BY <2>2, MenuFetchesInv
  <2>3. CASE MenuClearsInput \/ MenuClearsQueue \/ MenuWakes \/ MenuTakesKey \/ MenuGoesOn
    BY <2>3, MenuGoesInv
  <2>4. CASE FrameLook \/ FrameGoesOn \/ FrameEnds \/ StopPort \/ \E x \in Digits : OnDtmf(x)
    BY <2>4, PortEndsInv
  <2>5. CASE SetExit \/ PostQuit
    BY <2>5, MenuToldInv
  <2>6. CASE Done \/ UNCHANGED menuVars
    BY <2>6 DEF Done, menuVars, MenuInv, MenuTypeOK, BusyOwes, DrivenInv, ToldInv
  <2> QED
    BY <2>1, <2>2, <2>3, <2>4, <2>5, <2>6 DEF MenuNext, Menu, MediaClock
<1> QED
  BY <1>1, <1>2, PTL DEF MenuSpec

-----------------------------------------------------------------------------
(* The theorems about the menu.                                            *)

\* The port, the queue and the places of the menu are what they are said to be.
THEOREM MenuTypeCorrect == MenuSpec => []MenuTypeOK
<1>1. MenuInv => MenuTypeOK
  BY DEF MenuInv
<1> QED
  BY <1>1, MenuInvariance, PTL

\* call_ivr never sleeps on an empty queue while its port owes it nothing.
THEOREM NeverDeaf == MenuSpec => []MenuListens
<1>1. MenuInv => MenuListens
  BY DEF MenuInv, DrivenInv, MenuListens
<1> QED
  BY <1>1, MenuInvariance, PTL

\* call_ivr returns only when the script is told to exit.
THEOREM MenuLeftWhenTold == MenuSpec => []LeftWhenTold
<1>1. MenuInv => LeftWhenTold
  BY DEF MenuInv, ToldInv, LeftWhenTold
<1> QED
  BY <1>1, MenuInvariance, PTL

\* The call's queue keeps its limit, whatever the port reports in one call.
THEOREM MenuQueueKeepsLimit == MenuSpec => []QueueKeepsLimit
<1>1. MenuInv => QueueKeepsLimit
  BY DEF MenuInv, Queue, QueueKeepsLimit
<1> QED
  BY <1>1, MenuInvariance, PTL

-----------------------------------------------------------------------------
(* A digit that waits: what DigitsAreTaken rests on.                        *)

\* What the menu does with its port ends at the first digit, and without one at the end
\* of the file or of the timeout.
Attentive(w) ==
    /\ w.async => w.state # "idle"
    /\ w.state = "play" => w.term = Digits /\ w.file
    /\ w.state = "wait" => w.max = 1 /\ w.timed
    /\ w.state # "idle" => w.buf = <<>>

\* A digit that waits has a message in the queue which will make the menu take it.
AttentiveInv ==
    /\ Attentive(vr)
    /\ mpc \in {"fetch", "sleep"} /\ ~exit /\ vr.buf # <<>> => mqueue # <<>>

\* While no message drives the menu, no digit waits either, and the port is busy with
\* something that ends with the next digit, or by itself while the port is asked for
\* frames, and is reported then.
MenuAttends ==
    mpc \in {"fetch", "sleep"} /\ mqueue = <<>> /\ ~exit =>
        vr.async /\ vr.state # "idle" /\ (vr.file \/ vr.timed) /\ vr.buf = <<>>

\* Digits that are not enough for a prompt of the menu are none.
LEMMA NoDigit ==
    ASSUME NEW w \in Port, ~DigitsEnough(w), w.term = Digits \/ w.max = 1
    PROVE  w.buf = <<>>
<1>1. w.buf \in Seq(Digits) /\ Len(w.buf) \in Nat
  BY DEF Port
<1>2. CASE w.term = Digits
  <2> SUFFICES ASSUME w.buf # <<>> PROVE FALSE
    OBVIOUS
  <2>1. 1 \in 1..Len(w.buf) /\ w.buf[1] \in Digits
    BY <1>1
  <2> QED
    BY <1>2, <2>1 DEF DigitsEnough
<1>3. CASE w.max = 1
  <2>1. ~(Len(w.buf) >= 1)
    BY <1>3 DEF DigitsEnough
  <2> QED
    BY <1>1, <2>1
<1> QED
  BY <1>2, <1>3

\* internal_stop() leaves nothing that a digit would have to end.
LEMMA StoppedAttends ==
    ASSUME NEW w \in Port
    PROVE  Attentive(InternalStop(w)) /\ InternalStop(w).buf = w.buf
  BY DEF InternalStop, Port, Attentive

\* A prompt that has begun has no digit waiting, and one that has not is reported.
LEMMA BeepAttends ==
    ASSUME vr \in Port, exit \in BOOLEAN, PlayBeep
    PROVE  /\ Attentive(vr)'
           /\ \E d \in Reports : Post(d) /\ (~exit /\ vr'.buf # <<>> => d # <<>>)
<1>1. PICK opens \in BOOLEAN :
        LET armed == PlayArmed(InternalStop(vr), 0, TRUE, Digits)
            r     == PlayFile(armed, exit, opens, FALSE)
        IN  vr' = r.port /\ Post(Completion(vr, vr.state, exit) \o r.done)
  BY DEF PlayBeep
<1>2. PICK armed : armed = PlayArmed(InternalStop(vr), 0, TRUE, Digits)
  OBVIOUS
<1>3. PICK r : r = PlayFile(armed, exit, opens, FALSE)
  OBVIOUS
<1>4. vr' = r.port /\ Post(Completion(vr, vr.state, exit) \o r.done)
  BY <1>1, <1>2, <1>3
<1>5. armed \in Port /\ armed.async = TRUE /\ armed.state = "idle" /\ armed.term = Digits
  BY <1>2, StoppedPort DEF PlayArmed, Port
<1>6. vr.state \in Reported /\ "play" \in Reported /\ "idle" \in Reported
  BY DEF Port, Reported
<1>7. /\ Attentive(r.port) /\ r.done \in Reports /\ Len(r.done) <= 1
      /\ ~exit /\ r.port.buf # <<>> => r.done # <<>>
  <2>1. CASE PlayRefused(armed, exit)
    <3>1. r.port = [armed EXCEPT !.async = FALSE] /\ r.done = Completion(armed, "play", exit)
      BY <1>3, <2>1 DEF PlayFile
    <3>2. Attentive(r.port)
      BY <1>5, <3>1 DEF Port, Attentive
    <3> QED
      BY <1>5, <1>6, <3>1, <3>2, CompletionReported
  <2>2. CASE ~PlayRefused(armed, exit) /\ opens
    <3>1. /\ r.port = [armed EXCEPT !.state = "play", !.file = TRUE, !.loops = FALSE]
          /\ r.done = <<>>
      BY <1>3, <2>2 DEF PlayFile
    <3>2. armed.buf = <<>>
      BY <1>5, <2>2, NoDigit DEF PlayRefused
    <3>3. Attentive(r.port) /\ r.port.buf = <<>>
      BY <1>5, <3>1, <3>2 DEF Port, Attentive
    <3>4. <<>> \in Reports /\ Len(<<>>) = 0
      BY DEF Reports
    <3> QED
      BY <3>1, <3>3, <3>4
  <2>3. CASE ~PlayRefused(armed, exit) /\ ~opens
    <3>1. r.port = InternalStop(armed) /\ r.done = Completion(armed, armed.state, exit)
      BY <1>3, <2>3 DEF PlayFile
    <3> QED
      BY <1>5, <1>6, <3>1, StoppedAttends, CompletionReported
  <2> QED
    BY <2>1, <2>2, <2>3
<1>8. PICK d : d = Completion(vr, vr.state, exit) \o r.done
  OBVIOUS
<1>9. d \in Reports /\ (r.done # <<>> => d # <<>>)
  BY <1>6, <1>7, <1>8, CompletionReported, ReportedTogether
<1> QED
  BY <1>4, <1>7, <1>8, <1>9

\* So is a wait for a digit.
LEMMA DigitAttends ==
    ASSUME vr \in Port, exit \in BOOLEAN, WaitForDigit
    PROVE  /\ Attentive(vr)'
           /\ \E d \in Reports : Post(d) /\ (~exit /\ vr'.buf # <<>> => d # <<>>)
<1>1. <<>> \in Reports /\ Len(<<>>) = 0
  BY DEF Reports
<1>2. CASE exit
  <2>1. vr' = InternalStop(vr) /\ Post(<<>>)
    BY <1>2 DEF WaitForDigit, Post
  <2> QED
    BY <1>1, <1>2, <2>1, StoppedAttends
<1>3. CASE ~exit
  <2>1. PICK armed : armed = WaitArmed(InternalStop(vr), 0, TRUE, 1, {}, TRUE)
    OBVIOUS
  <2>2. PICK r : r = WaitInput(armed, exit, TRUE, 1)
    OBVIOUS
  <2>3. vr' = r.port /\ Post(Completion(vr, vr.state, exit) \o r.done)
    BY <1>3, <2>1, <2>2 DEF WaitForDigit
  <2>4. /\ armed \in Port /\ armed.async = TRUE /\ armed.state = "idle"
        /\ armed.max = 1 /\ armed.timed = TRUE
    BY <2>1, StoppedPort DEF WaitArmed, Port
  <2>5. vr.state \in Reported /\ "wait" \in Reported
    BY DEF Port, Reported
  <2>6. /\ Attentive(r.port) /\ r.done \in Reports /\ Len(r.done) <= 1
        /\ r.port.buf # <<>> => r.done # <<>>
    <3>1. CASE DigitsEnough(armed)
      <4>1. r.port = [armed EXCEPT !.async = FALSE, !.buf = @] /\ r.done = Completion(armed, "wait", exit)
        BY <2>2, <3>1 DEF WaitInput
      <4>2. Attentive(r.port)
        BY <2>4, <4>1 DEF Port, Attentive
      <4> QED
        BY <1>3, <2>4, <2>5, <4>1, <4>2, CompletionReported
    <3>2. CASE ~DigitsEnough(armed)
      <4>1. r.port = [armed EXCEPT !.state = "wait"] /\ r.done = <<>>
        BY <2>2, <3>2 DEF WaitInput
      <4>2. armed.buf = <<>>
        BY <2>4, <3>2, NoDigit
      <4>3. Attentive(r.port) /\ r.port.buf = <<>>
        BY <2>4, <4>1, <4>2 DEF Port, Attentive
      <4> QED
        BY <1>1, <4>1, <4>3
    <3> QED
      BY <3>1, <3>2
  <2>7. PICK d : d = Completion(vr, vr.state, exit) \o r.done
    OBVIOUS
  <2>8. d \in Reports /\ (r.done # <<>> => d # <<>>)
    BY <2>5, <2>6, <2>7, CompletionReported, ReportedTogether
  <2> QED
    BY <2>3, <2>6, <2>7, <2>8
<1> QED
  BY <1>2, <1>3

\* A digit ends what the port does, and is reported; or it joins those that have a message.
LEMMA DtmfAttends ==
    ASSUME MenuInv, AttentiveInv, NEW x \in Digits, OnDtmf(x) PROVE AttentiveInv'
<1>1. vr \in Port /\ exit \in BOOLEAN /\ vr.state \in Reported /\ vr.buf \in Seq(Digits)
  BY DEF MenuInv, MenuTypeOK, Port, Reported
<1>2. PICK d : d = Completion(vr, vr.state, exit)
  OBVIOUS
<1>3. d \in Reports /\ (vr.async /\ ~exit => d # <<>>)
  BY <1>1, <1>2, CompletionReported
<1>0. Append(vr.buf, x) \in Seq(Digits) /\ Len(Append(vr.buf, x)) = Len(vr.buf) + 1 /\ Len(vr.buf) \in Nat
  BY <1>1
<1>4. PICK b \in Seq(Digits) : b = Append(vr.buf, x) /\ b # <<>>
  <2>1. Len(<<>>) = 0
    OBVIOUS
  <2>2. Append(vr.buf, x) # <<>>
    BY <1>0, <2>1
  <2> QED
    BY <1>0, <2>2
<1>5. PICK typed : typed = [vr EXCEPT !.buf = b]
  OBVIOUS
<1>6. /\ typed \in Port /\ typed.async = vr.async /\ typed.state = vr.state /\ typed.buf = b
      /\ typed.term = vr.term /\ typed.max = vr.max /\ b # <<>>
  BY <1>1, <1>4, <1>5 DEF Port
<1>7. UNCHANGED <<exit, mpc>>
  BY DEF OnDtmf, Elsewhere
<1>8. CASE vr.state = "idle"
  <2>1. vr' = typed /\ mqueue' = mqueue
    BY <1>4, <1>5, <1>8 DEF OnDtmf
  <2>2. Attentive(typed) /\ ~vr.async
    BY <1>6, <1>8 DEF AttentiveInv, Attentive
  <2> QED
    BY <1>7, <2>1, <2>2 DEF MenuInv, DrivenInv, AttentiveInv
<1>9. CASE vr.state # "idle"
  <2>1. DigitsEnough(typed)
    <3>1. typed.term = Digits \/ typed.max = 1
      BY <1>1, <1>6, <1>9 DEF AttentiveInv, Attentive, Reported
    <3> QED
      BY <1>6, <3>1, NoDigit
  <2>2. vr' = InternalStop(typed) /\ Post(d)
    BY <1>2, <1>4, <1>5, <1>9, <2>1 DEF OnDtmf, Terminates
  <2>3. Attentive(vr')
    BY <1>6, <2>2, StoppedAttends
  <2>4. vr.async
    BY <1>9 DEF MenuInv, BusyOwes
  <2>5. ~exit => mqueue' # <<>>
    BY <1>3, <2>2, <2>4, AllPosted DEF MenuInv
  <2> QED
    BY <1>7, <2>3, <2>5 DEF AttentiveInv
<1> QED
  BY <1>8, <1>9

\* The media clock and stop() forget no digit.
LEMMA EndsAttend ==
    ASSUME MenuInv, AttentiveInv, FrameEnds \/ StopPort PROVE AttentiveInv'
<1>1. vr \in Port /\ exit \in BOOLEAN /\ vr.state \in Reported
  BY DEF MenuInv, MenuTypeOK, Port, Reported
<1>2. PICK d : d = Completion(vr, vr.state, exit)
  OBVIOUS
<1>3. d \in Reports
  BY <1>1, <1>2, CompletionReported
<1>4. vr' = InternalStop(vr) /\ Post(d) /\ UNCHANGED <<exit, mpc>>
  BY <1>2 DEF FrameEnds, StopPort, Elsewhere
<1>5. mqueue # <<>> => mqueue' # <<>>
  BY <1>3, <1>4, AllPosted DEF MenuInv
<1>6. Attentive(vr') /\ vr'.buf = vr.buf
  BY <1>1, <1>4, StoppedAttends
<1> QED
  BY <1>4, <1>5, <1>6 DEF AttentiveInv

\* The menu starts something on its port.
LEMMA StartsAttend ==
    ASSUME MenuInv, AttentiveInv, PlayBeep \/ WaitForDigit, MenuStays PROVE AttentiveInv'
<1>1. /\ Attentive(vr)'
      /\ \E d \in Reports : Post(d) /\ (~exit /\ vr'.buf # <<>> => d # <<>>)
  BY BeepAttends, DigitAttends DEF MenuInv, MenuTypeOK
<1>2. PICK d \in Reports : Post(d) /\ (~exit /\ vr'.buf # <<>> => d # <<>>)
  BY <1>1
<1>3. d # <<>> => mqueue' # <<>>
  BY <1>2, AllPosted DEF MenuInv
<1> QED
  BY <1>1, <1>2, <1>3 DEF AttentiveInv, MenuStays

\* The other steps of the menu: it takes the digits, or goes to look at its port.
LEMMA MenuAttendsStep ==
    ASSUME MenuInv, AttentiveInv,
           \/ MenuClearsInput \/ MenuClearsQueue \/ MenuFetches \/ MenuWakes
           \/ MenuTakesKey \/ MenuGoesOn
    PROVE  AttentiveInv'
<1>1. vr \in Port
  BY DEF MenuInv, MenuTypeOK
<1>2. CASE MenuClearsInput
  <2>1. PICK w : w = [vr EXCEPT !.buf = <<>>]
    OBVIOUS
  <2>2. Attentive(w)
    BY <1>1, <2>1 DEF AttentiveInv, Attentive, Port
  <2> QED
    BY <1>2, <2>1, <2>2 DEF AttentiveInv, MenuClearsInput
<1>3. CASE MenuTakesKey
  <2>1. PICK w : w = [vr EXCEPT !.buf = Left(vr, 1)]
    OBVIOUS
  <2>2. PICK b : b = Left(vr, 1)
    OBVIOUS
  <2>3. vr.buf = <<>> => b = <<>>
    <3> SUFFICES ASSUME vr.buf = <<>> PROVE b = <<>>
      OBVIOUS
    <3>1. b = SubSeq(<<>>, TakeLen(vr, 1) + 1, 0)
      BY <2>2 DEF Left
    <3>2. TakeLen(vr, 1) = 0
      <4>1. {i \in 1..Len(vr.buf) : i <= 1 /\ \A j \in 2..i : vr.buf[j] \notin vr.term} = {}
        OBVIOUS
      <4> QED
        BY <4>1, FS_EmptySet DEF TakeLen
    <3> QED
      BY <3>1, <3>2
  <2>4. Attentive(w)
    BY <1>1, <2>1, <2>2, <2>3 DEF AttentiveInv, Attentive, Port
  <2> QED
    BY <1>3, <2>1, <2>4 DEF AttentiveInv, MenuTakesKey
<1>4. CASE MenuFetches
  BY <1>4 DEF AttentiveInv, MenuFetches, MenuStays
<1>5. CASE MenuClearsQueue \/ MenuWakes
  BY <1>5 DEF AttentiveInv, MenuClearsQueue, MenuWakes, MenuStays
<1>6. CASE MenuGoesOn
  BY <1>6 DEF AttentiveInv, Attentive, MenuGoesOn, MenuStays
<1> QED
  BY <1>2, <1>3, <1>4, <1>5, <1>6

\* While no message waits for call_ivr, no digit does, and the port is busy with what the
\* next digit ends, or its own end while frames are asked for, and is reported then.
THEOREM MenuIsAttentive == MenuSpec => []MenuAttends
<1>1. MenuInit => AttentiveInv
  BY DEF MenuInit, AttentiveInv, Attentive, IdlePort
<1>2. MenuInv /\ AttentiveInv /\ [MenuNext]_menuVars => AttentiveInv'
  <2> SUFFICES ASSUME MenuInv, AttentiveInv, [MenuNext]_menuVars PROVE AttentiveInv'
    OBVIOUS
  <2>1. CASE MenuBegins \/ MenuAnswers \/ MenuWaitsForDigit
    BY <2>1, StartsAttend DEF MenuBegins, MenuAnswers, MenuWaitsForDigit
  <2>2. CASE \/ MenuClearsInput \/ MenuClearsQueue \/ MenuFetches \/ MenuWakes
             \/ MenuTakesKey \/ MenuGoesOn
    BY <2>2, MenuAttendsStep
  <2>3. CASE FrameLook \/ FrameGoesOn
    BY <2>3 DEF FrameLook, FrameGoesOn, Elsewhere, AttentiveInv
  <2>4. CASE FrameEnds \/ StopPort \/ \E x \in Digits : OnDtmf(x)
    BY <2>4, EndsAttend, DtmfAttends
  <2>5. CASE SetExit
    BY <2>5 DEF SetExit, Elsewhere, AttentiveInv
  <2>6. CASE PostQuit
    <3>1. exit /\ UNCHANGED <<vr, exit>>
      BY <2>6 DEF PostQuit, MenuInv, ToldInv
    <3> QED
      BY <3>1 DEF AttentiveInv
  <2>7. CASE Done \/ UNCHANGED menuVars
    BY <2>7 DEF Done, menuVars, AttentiveInv
  <2> QED
    BY <2>1, <2>2, <2>3, <2>4, <2>5, <2>6, <2>7 DEF MenuNext, Menu, MediaClock
<1>3. MenuInv /\ AttentiveInv => MenuAttends
  <2> SUFFICES ASSUME MenuInv, AttentiveInv, mpc \in {"fetch", "sleep"}, mqueue = <<>>, ~exit
               PROVE  vr.async /\ vr.state # "idle" /\ (vr.file \/ vr.timed) /\ vr.buf = <<>>
    BY DEF MenuAttends
  <2>1. vr.async
    BY DEF MenuInv, DrivenInv
  <2>2. vr.state \in {"idle", "play", "wait"}
    BY DEF MenuInv, MenuTypeOK, Port
  <2> QED
    BY <2>1, <2>2 DEF AttentiveInv, Attentive
<1> QED
  BY <1>1, <1>2, <1>3, MenuInvariance, PTL DEF MenuSpec

=============================================================================
