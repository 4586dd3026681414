------------------------------- MODULE SoundPath -------------------------------
(***************************************************************************)
(* The way of the sound between the sound device and the conference        *)
(* bridge: pjs_master_port with its put thread, the frame lists of         *)
(* pjs_echo_canceller, the audio monitor (a pjs_frame_processor), and the  *)
(* order in which clean_system() takes them apart.                         *)
(*                                                                         *)
(* The device's two threads call rec_cb and play_cb.  The canceller works  *)
(* on pieces of 10 ms, of which a frame has one or more.  Pieces have      *)
(* numbers, and a frame has that of its first piece; silence is 0.         *)
(***************************************************************************)
EXTENDS Naturals, Sequences

CONSTANTS
    PutCapacity, MonCapacity,   \* frames that m_put_buffer and m_buffer hold
    Latency,                    \* lat_cnt, at least one frame
    DelayMax,                   \* frames of the delay buffer
    MaxCaptured, MaxPlayed      \* bounds: pieces of the two directions

ASSUME SoundPathAssumption ==
    /\ {PutCapacity, MonCapacity, Latency, DelayMax} \subseteq Nat \ {0}
    /\ {MaxCaptured, MaxPlayed} \subseteq Nat

VARIABLES
    mode,           \* "thread", "direct" without a put thread, "off" without canceller
    pc,             \* per thread
    hand,           \* per thread: the frame it works on
    buf, event,     \* per worker: circular buffer and pjs_event
    exit,           \* per worker: m_exit
    delay, lat,     \* the canceller's delay_buf and lat_buf
    free,           \* length of lat_free
    ready,          \* lat_ready
    used,           \* history: the last played piece that was a reference
    captured, played,   \* how many pieces were captured and played
    running,        \* streams of the device that are started
    stage,          \* where clean_system() is
    freed           \* parts that are no more

echoVars == <<delay, lat, free, ready, used>>
workVars == <<buf, event, exit>>
mainVars == <<mode, running, stage, freed>>
vars == <<mainVars, pc, hand, workVars, echoVars, captured, played>>

Workers == {"put", "mon"}           \* put_thread_proc(), thread_proc() of the monitor
Threads == Workers \cup {"rec", "play"}
Silence == 0
Capacity(w) == IF w = "put" THEN PutCapacity ELSE MonCapacity

Init ==
    /\ mode \in {"thread", "direct", "off"}
    /\ pc = [t \in Threads |-> IF t \in {"rec", "play"} THEN "idle"
                               ELSE IF t = "put" /\ mode # "thread" THEN "done" ELSE "top"]
    /\ hand = [t \in Threads |-> 0]
    /\ buf = [w \in Workers |-> <<>>]
    /\ event = [w \in Workers |-> FALSE]
    /\ exit = [w \in Workers |-> FALSE]
    /\ delay = <<>> /\ lat = <<>> /\ free = Latency /\ ready = FALSE /\ used = 0
    /\ captured = 0 /\ played = 0
    /\ running = {"rec", "play"}
    /\ stage = "up"
    /\ freed = {}

Goto(t, l) == pc' = [pc EXCEPT ![t] = l]

-----------------------------------------------------------------------------
(* A buffer between two threads, and the worker that empties it.           *)

\* Mutant: the worker is told of a frame only when there is no other.
WriteQuietly(w, frame) ==
    /\ buf' = IF Len(buf[w]) < Capacity(w) THEN [buf EXCEPT ![w] = Append(@, frame)] ELSE buf
    /\ event' = [event EXCEPT ![w] = @ \/ Len(buf[w]) = 1]

\* A frame that does not fit is lost; the worker is woken in any case.
Write(w, frame) ==
    /\ buf' = IF Len(buf[w]) < Capacity(w) THEN [buf EXCEPT ![w] = Append(@, frame)] ELSE buf
    /\ event' = [event EXCEPT ![w] = TRUE]

Test(w) ==
    /\ pc[w] = "top"
    /\ Goto(w, IF exit[w] THEN "done" ELSE "take")
    /\ UNCHANGED <<mainVars, hand, workVars, echoVars, captured, played>>

TakeFrame(w) ==
    /\ pc[w] = "take" /\ buf[w] # <<>>
    /\ hand' = [hand EXCEPT ![w] = Head(buf[w])]
    /\ buf' = [buf EXCEPT ![w] = Tail(@)]
    /\ Goto(w, IF w = "put" THEN "cancel" ELSE "process")
    /\ UNCHANGED <<mainVars, event, exit, echoVars, captured, played>>

TakeNothing(w) ==
    /\ pc[w] = "take" /\ buf[w] = <<>>
    /\ Goto(w, "wait")
    /\ UNCHANGED <<mainVars, hand, workVars, echoVars, captured, played>>

Wake(w) ==
    /\ pc[w] = "wait" /\ event[w]
    /\ event' = [event EXCEPT ![w] = FALSE]
    /\ Goto(w, "top")
    /\ UNCHANGED <<mainVars, hand, buf, exit, echoVars, captured, played>>

\* wait(1000) returns after a second, or for no reason.
TimesOut(w) ==
    /\ pc[w] = "wait" /\ ~event[w]
    /\ Goto(w, "top")
    /\ UNCHANGED <<mainVars, hand, workVars, echoVars, captured, played>>

\* on_process_frame() of the monitor sends the frame to its socket.
Process ==
    /\ pc["mon"] = "process"
    /\ Goto("mon", "top")
    /\ UNCHANGED <<mainVars, hand, workVars, echoVars, captured, played>>

-----------------------------------------------------------------------------
(* Capturing: put_frame() of the master port, and capture().               *)

\* The device has captured a frame.  (A port that is muted, as until the SIP
\* stack is up, ignores it, which is a step less.)
PutFrame ==
    /\ pc["rec"] = "idle" /\ "rec" \in running
    /\ captured < MaxCaptured /\ captured' = captured + 1
    /\ hand' = [hand EXCEPT !["rec"] = captured + 1]
    /\ Goto("rec", "put")
    /\ UNCHANGED <<mainVars, workVars, echoVars, played>>

PutBuffered ==
    /\ pc["rec"] = "put" /\ mode = "thread"
    /\ Write("put", hand["rec"])
    /\ Goto("rec", "idle")
    /\ UNCHANGED <<mainVars, hand, exit, echoVars, captured, played>>

PutDirect ==
    /\ pc["rec"] = "put" /\ mode # "thread"
    /\ Goto("rec", IF mode = "direct" THEN "cancel" ELSE "forward")
    /\ UNCHANGED <<mainVars, hand, workVars, echoVars, captured, played>>

CaptureTooEarly(t) ==
    /\ pc[t] = "cancel" /\ ~ready
    /\ Goto(t, "forward")
    /\ UNCHANGED <<mainVars, hand, workVars, echoVars, captured, played>>

\* The oldest frame of lat_buf is the reference; the lock is given back for
\* the computation.
Capture(t) ==
    /\ pc[t] = "cancel" /\ ready
    /\ used' = IF Head(lat) = Silence THEN used ELSE Head(lat)
    /\ lat' = Tail(lat)
    /\ Goto(t, "refill")
    /\ UNCHANGED <<mainVars, hand, workVars, delay, free, ready, captured, played>>

\* pjmedia_delay_buf_get(): silence when there is no frame.
DelayGet(d) == IF d = <<>> THEN Silence ELSE Head(d)

\* Mutant: the frame that is read stays in the delay buffer.
DelayRestKeeps(d) == d

DelayRest(d) == IF d = <<>> THEN <<>> ELSE Tail(d)

\* Mutant: nothing is put back when the delay buffer is empty.
RefillIfAny(t) ==
    /\ pc[t] = "refill"
    /\ lat' = IF delay = <<>> THEN lat ELSE Append(lat, Head(delay))
    /\ delay' = DelayRest(delay)
    /\ \/ Goto(t, "forward") /\ captured' = captured
       \/ captured < MaxCaptured /\ captured' = captured + 1 /\ Goto(t, "cancel")
    /\ UNCHANGED <<mainVars, hand, workVars, free, ready, used, played>>

\* A reference from the delay buffer takes the place of the one that was used; then comes
\* the next piece of the frame, or the frame is done.
Refill(t) ==
    /\ pc[t] = "refill"
    /\ lat' = Append(lat, DelayGet(delay))
    /\ delay' = DelayRest(delay)
    /\ \/ Goto(t, "forward") /\ captured' = captured
       \/ captured < MaxCaptured /\ captured' = captured + 1 /\ Goto(t, "cancel")
    /\ UNCHANGED <<mainVars, hand, workVars, free, ready, used, played>>

\* pjmedia_port_put_frame() of the bridge.
Forward(t) ==
    /\ pc[t] = "forward"
    /\ Goto(t, IF t = "rec" THEN "idle" ELSE "top")
    /\ UNCHANGED <<mainVars, hand, workVars, echoVars, captured, played>>

-----------------------------------------------------------------------------
(* Playing: get_frame() of the master port, and playback().                *)

\* The device wants a frame; the bridge mixes it with its mutex held.
GetFrame ==
    /\ pc["play"] = "idle" /\ "play" \in running
    /\ played < MaxPlayed /\ played' = played + 1
    /\ Goto("play", "bridge")
    /\ UNCHANGED <<mainVars, hand, workVars, echoVars, captured>>

InBridge == "monPort" \notin freed

\* The bridge gives the monitor its frame; put_frame() runs the gain control
\* and process_frame(), which keeps audio only.  Nothing, if the bridge has no
\* port of the monitor, or nobody sends to it.
Mix ==
    /\ pc["play"] = "bridge"
    /\ Goto("play", "echo")
    /\ \/ InBridge /\ Write("mon", played)
       \/ UNCHANGED <<buf, event>>
    /\ UNCHANGED <<mainVars, hand, exit, echoVars, captured, played>>

\* pjmedia_delay_buf_put(): a full buffer drops the eldest frame.
DelayPut(d, frame) == Append(IF Len(d) < DelayMax THEN d ELSE Tail(d), frame)

\* A muted port plays silence, and so does one whose frame is not audio.
PlayedFrames == {Silence, played}

\* playback(), when the delay buffer has become d: until the latency is built up,
\* frames go on to lat_buf.
Store(d) ==
    IF ~ready /\ free > 0
    THEN /\ lat' = Append(lat, Head(d)) /\ delay' = Tail(d)
         /\ free' = free - 1 /\ UNCHANGED ready
    ELSE delay' = d /\ ready' = TRUE /\ UNCHANGED <<lat, free>>

\* A piece of the frame goes to the canceller, and perhaps the next one follows.
Playback ==
    /\ pc["play"] = "echo" /\ mode # "off"
    /\ \E frame \in PlayedFrames : Store(DelayPut(delay, frame))
    /\ \/ Goto("play", "idle") /\ played' = played
       \/ played < MaxPlayed /\ played' = played + 1 /\ UNCHANGED pc
    /\ UNCHANGED <<mainVars, hand, workVars, used, captured>>

\* Nothing goes to the canceller: there is none, or the bridge has failed or returned a
\* frame of another size.
PlayNothing ==
    /\ pc["play"] = "echo"
    /\ Goto("play", "idle")
    /\ UNCHANGED <<mainVars, hand, workVars, echoVars, captured, played>>

-----------------------------------------------------------------------------
(* clean_system(), from the deletion of the audio monitor on.              *)

Step(from, to) == stage = from /\ stage' = to
NoCallback == UNCHANGED <<mode, pc, hand, buf, echoVars, captured, played>>

\* stop() of the monitor and the destructor of the master port begin alike.
Exit(w, from, to) ==
    /\ Step(from, to)
    /\ exit' = [exit EXCEPT ![w] = TRUE]
    /\ NoCallback /\ UNCHANGED <<event, running, freed>>

\* Mutant: the thread is left to its timeout.
SignalNot(w, from, to) ==
    /\ Step(from, to)
    /\ NoCallback /\ UNCHANGED <<exit, event, running, freed>>

Signal(w, from, to) ==
    /\ Step(from, to)
    /\ event' = [event EXCEPT ![w] = TRUE]
    /\ NoCallback /\ UNCHANGED <<exit, running, freed>>

\* Mutant: nobody waits for the thread.
JoinNot(w, from, to) ==
    /\ Step(from, to)
    /\ NoCallback /\ UNCHANGED <<exit, event, running, freed>>

Join(w, from, to) ==
    /\ pc[w] = "done"
    /\ Step(from, to)
    /\ NoCallback /\ UNCHANGED <<exit, event, running, freed>>

Free(part, from, to) ==
    /\ Step(from, to)
    /\ freed' = freed \cup {part}
    /\ NoCallback /\ UNCHANGED <<exit, event, running>>

\* pjsua_conf_remove_port() waits for the mutex of the bridge.
RemovePort == pc["play"] # "bridge" /\ Free("monPort", "monPort", "monBuffer")

\* pjmedia_aud_stream_stop() joins the thread of the device.
StopStream(s, from, to) ==
    /\ pc[s] = "idle"
    /\ Step(from, to)
    /\ running' = running \ {s}
    /\ NoCallback /\ UNCHANGED <<exit, event, freed>>

CleanMonitor ==
    \/ Exit("mon", "up", "monSignal") \/ Signal("mon", "monSignal", "monJoin")
    \/ Join("mon", "monJoin", "monSocket")
    \/ Free("monSocket", "monSocket", "monGain") \/ Free("monGain", "monGain", "monPort")
    \/ RemovePort
    \/ Free("monBuffer", "monBuffer", "playStop")

CleanMaster ==
    \/ Exit("put", "masterExit", "putSignal") \/ Signal("put", "putSignal", "putJoin")
    \/ Join("put", "putJoin", "masterFree")
    \/ Free("master", "masterFree", "down")

CleanSystem ==
    \/ CleanMonitor
    \/ StopStream("play", "playStop", "recStop") \/ StopStream("rec", "recStop", "masterExit")
    \/ CleanMaster

Work(w) == Test(w) \/ TakeFrame(w) \/ TakeNothing(w) \/ Wake(w)
Cancel(t) == CaptureTooEarly(t) \/ Capture(t) \/ Refill(t) \/ Forward(t)

\* What a thread does once it has something to do.
GoesOn(t) ==
    \/ t \in Workers /\ Work(t)
    \/ t \in {"rec", "put"} /\ Cancel(t)
    \/ t = "mon" /\ Process
    \/ t = "rec" /\ (PutBuffered \/ PutDirect)
    \/ t = "play" /\ (Mix \/ Playback \/ PlayNothing)

Next ==
    \/ \E t \in Threads : GoesOn(t)
    \/ \E w \in Workers : TimesOut(w)
    \/ PutFrame \/ GetFrame
    \/ CleanSystem

Spec == Init /\ [][Next]_vars

\* The threads go on with what they have begun, and the bounds see to it that a frame has
\* finitely many pieces.  Nothing is assumed of the device, nor of the second after which
\* a wait is given up.
FairSpec ==
    /\ Spec
    /\ \A t \in Threads : WF_vars(GoesOn(t))
    /\ WF_vars(stage # "up" /\ CleanSystem)

-----------------------------------------------------------------------------
(* Properties.                                                             *)

Labels == {"idle", "top", "take", "wait", "process", "cancel", "refill", "forward",
           "put", "bridge", "echo", "done"}
Parts == {"monSocket", "monGain", "monPort", "monBuffer", "master"}
Stages == {"up", "monSignal", "monJoin", "monSocket", "monGain", "monPort", "monBuffer",
           "playStop", "recStop", "masterExit", "putSignal", "putJoin", "masterFree", "down"}

TypeOK ==
    /\ mode \in {"thread", "direct", "off"}
    /\ pc \in [Threads -> Labels]
    /\ hand \in [Threads -> Nat]
    /\ buf \in [Workers -> Seq(Nat)]
    /\ event \in [Workers -> BOOLEAN] /\ exit \in [Workers -> BOOLEAN]
    /\ delay \in Seq(Nat) /\ lat \in Seq(Nat)
    /\ free \in Nat /\ ready \in BOOLEAN /\ used \in Nat
    /\ captured \in Nat /\ played \in Nat
    /\ running \subseteq {"rec", "play"}
    /\ stage \in Stages
    /\ freed \subseteq Parts

Cancelling == \E t \in {"rec", "put"} : pc[t] = "refill"

\* lat_buf has its full length whenever the canceller is ready, less the one
\* frame that capture() works with outside the lock: capture() reads the head
\* of the list without asking whether there is one.
LatencyKept ==
    /\ ready => Len(lat) + (IF Cancelling THEN 1 ELSE 0) = Latency
    /\ \A t \in {"rec", "put"} : pc[t] = "cancel" /\ ready => lat # <<>>

\* Of two references that wait, pieces of frames, the first was played before the second, unless one
\* of them is silence.
Before(f, g) == f = Silence \/ g = Silence \/ f < g
InOrder(s) == \A i, j \in 1 .. Len(s) : i < j => Before(s[i], s[j])
Waiting(s) == \A i \in 1 .. Len(s) : s[i] = Silence \/ s[i] \in used + 1 .. played

\* The canceller uses the played pieces as references in the order they were
\* played and none twice, however playing and capturing overtake one another
\* and whatever the delay buffer drops or pads.
ReferencesInOrder ==
    /\ InOrder(lat) /\ InOrder(delay)
    /\ \A i \in 1 .. Len(lat), j \in 1 .. Len(delay) : Before(lat[i], delay[j])
    /\ Waiting(lat) /\ Waiting(delay)

\* What a thread may touch where it is.
Uses(t) ==
    IF t = "mon"
    THEN (IF pc[t] # "done" THEN {"monBuffer"} ELSE {})
           \cup (IF pc[t] = "process" THEN {"monSocket"} ELSE {})
    ELSE (IF pc[t] \notin {"idle", "done"} THEN {"master"} ELSE {})
           \cup (IF pc[t] = "bridge" /\ InBridge THEN {"monGain", "monBuffer"} ELSE {})

\* No thread uses what clean_system() has deleted; but the gain control of the
\* monitor goes before its port leaves the bridge, while the device still plays.
UsedWhileAlive ==
    \A t \in Threads :
        Uses(t) \cap freed \subseteq IF stage = "monPort" THEN {"monGain"} ELSE {}

\* A worker never waits with a frame in its buffer, or after it was told to go,
\* unless the event that wakes it is set: no frame needs the one-second timeout.
NoFrameSleeps ==
    \A w \in Workers : pc[w] = "wait" /\ buf[w] # <<>> => event[w]

\* clean_system() joins the two workers and the two threads of the device in
\* turn, and comes to its end with no help from the timeouts.
TakenApart == stage # "up" ~> stage = "down"

=============================================================================
