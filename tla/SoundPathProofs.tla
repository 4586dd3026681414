---------------------------- MODULE SoundPathProofs ----------------------------
(***************************************************************************)
(* Theorems about SoundPath, for buffers, latencies and delays of any      *)
(* size and any number of frames.                                          *)
(***************************************************************************)
EXTENDS SoundPath, Integers, TLAPS

\* Each thread keeps to its own part of the code; only one of them cancels.
PlaceInv ==
    /\ pc["mon"] \in {"top", "take", "wait", "process", "done"}
    /\ pc["put"] \in {"top", "take", "wait", "cancel", "refill", "forward", "done"}
    /\ pc["rec"] \in {"idle", "put", "cancel", "refill", "forward"}
    /\ pc["play"] \in {"idle", "bridge", "echo"}
    /\ pc["put"] # "done" => mode = "thread"
    /\ pc["rec"] \in {"cancel", "refill"} => mode = "direct"

\* Every frame buffer of the canceller is in lat_free, in lat_buf or in use.
EchoInv ==
    /\ ~ready => Len(lat) + free = Latency /\ delay = <<>> /\ ~Cancelling
    /\ ready => Len(lat) + (IF Cancelling THEN 1 ELSE 0) = Latency

MonJoined == Stages \ {"up", "monSignal", "monJoin"}
PlayStopped == {"recStop", "masterExit", "putSignal", "putJoin", "masterFree", "down"}

\* What clean_system() has done when it is at a stage.
StageInv ==
    /\ stage \in MonJoined => pc["mon"] = "done"
    /\ stage \in PlayStopped => pc["play"] = "idle" /\ "play" \notin running
    /\ stage \in PlayStopped \ {"recStop"} => pc["rec"] = "idle" /\ "rec" \notin running
    /\ stage \in {"masterFree", "down"} => pc["put"] = "done"
    /\ "monSocket" \in freed => stage \in MonJoined
    /\ "monGain" \in freed => stage \in MonJoined \ {"monSocket", "monGain"}
    /\ stage \in MonJoined \ {"monSocket", "monGain", "monPort"} => "monPort" \in freed
    /\ "monBuffer" \in freed => stage \in MonJoined /\ "monPort" \in freed
    /\ "master" \in freed => stage = "down"

IInv == TypeOK /\ PlaceInv /\ EchoInv /\ StageInv /\ NoFrameSleeps

-----------------------------------------------------------------------------
(* Lemmas on the buffers.                                                  *)

\* A write keeps the types of a buffer and its event.
LEMMA WriteType ==
    ASSUME TypeOK, NEW w \in Workers, NEW frame \in Nat, Write(w, frame)
    PROVE  buf' \in [Workers -> Seq(Nat)] /\ event' \in [Workers -> BOOLEAN]
<1>1. Append(buf[w], frame) \in Seq(Nat)
  BY DEF TypeOK
<1> QED
  BY <1>1 DEF TypeOK, Write

\* A sequence that is not empty, and what taking its head leaves.
LEMMA HeadTail ==
    ASSUME NEW s \in Seq(Nat), s # <<>>
    PROVE  Head(s) \in Nat /\ Tail(s) \in Seq(Nat) /\ Len(Tail(s)) = Len(s) - 1
  OBVIOUS

\* A sequence with one frame more.
LEMMA OneMore ==
    ASSUME NEW s \in Seq(Nat), NEW f \in Nat
    PROVE  Append(s, f) \in Seq(Nat) /\ Len(Append(s, f)) = Len(s) + 1 /\ Append(s, f) # <<>>
<1>1. Append(s, f) \in Seq(Nat) /\ Len(Append(s, f)) = Len(s) + 1 /\ Len(s) \in Nat
  OBVIOUS
<1> QED
  BY <1>1

\* Nobody else is cancelling when a thread takes a reference, so there is one.
LEMMA ReferenceThere ==
    ASSUME TypeOK, PlaceInv, EchoInv, NEW t \in {"rec", "put"}, pc[t] = "cancel", ready
    PROVE  ~Cancelling /\ lat # <<>>
<1>1. ~Cancelling
  BY DEF Cancelling, PlaceInv
<1>2. Len(lat) = Latency
  BY <1>1 DEF EchoInv
<1> QED
  BY <1>1, <1>2, SoundPathAssumption

\* The delay buffer with one frame more is not empty.
LEMMA DelayPutType ==
    ASSUME NEW d \in Seq(Nat), NEW f \in Nat
    PROVE  DelayPut(d, f) \in Seq(Nat) /\ DelayPut(d, f) # <<>>
<1>1. Tail(d) \in Seq(Nat) \/ Len(d) < DelayMax
  BY SoundPathAssumption, HeadTail
<1> QED
  BY <1>1, OneMore DEF DelayPut

-----------------------------------------------------------------------------
(* The inductive invariant, one lemma for each action.                     *)

\* Nothing else has begun when the intercom starts.
LEMMA InitInv == Init => IInv
<1> SUFFICES ASSUME Init PROVE IInv
  OBVIOUS
<1> USE DEF Init, Threads, Workers
<1>1. TypeOK
  <2>1. pc \in [Threads -> Labels] /\ hand \in [Threads -> Nat]
    BY DEF Labels
  <2>2. /\ buf \in [Workers -> Seq(Nat)] /\ delay \in Seq(Nat) /\ lat \in Seq(Nat)
        /\ event \in [Workers -> BOOLEAN] /\ exit \in [Workers -> BOOLEAN]
    OBVIOUS
  <2>3. /\ free \in Nat /\ ready \in BOOLEAN /\ used \in Nat
        /\ captured \in Nat /\ played \in Nat /\ stage \in Stages
        /\ running \subseteq {"rec", "play"} /\ freed \subseteq Parts
    BY SoundPathAssumption DEF Stages
  <2> QED
    BY <2>1, <2>2, <2>3 DEF TypeOK
<1>2. PlaceInv /\ StageInv
  BY DEF PlaceInv, StageInv, MonJoined, PlayStopped
<1>3. EchoInv
  BY SoundPathAssumption DEF EchoInv, Cancelling
<1>4. NoFrameSleeps
  BY DEF NoFrameSleeps
<1> QED
  BY <1>1, <1>2, <1>3, <1>4 DEF IInv

\* The worker looks at m_exit.
LEMMA TestInv == ASSUME IInv, NEW w \in Workers, Test(w) PROVE IInv'
<1> USE DEF IInv, TypeOK, Test, Goto, mainVars, workVars, echoVars, Threads, Workers
<1>1. TypeOK'
  BY DEF Labels
<1>2. PlaceInv' /\ StageInv'
  BY DEF PlaceInv, StageInv, Stages, MonJoined, PlayStopped
<1>3. EchoInv'
  BY DEF EchoInv, Cancelling
<1>4. NoFrameSleeps'
  BY DEF NoFrameSleeps
<1> QED
  BY <1>1, <1>2, <1>3, <1>4 DEF IInv

\* The worker takes the oldest frame of its buffer.
LEMMA TakeFrameInv == ASSUME IInv, NEW w \in Workers, TakeFrame(w) PROVE IInv'
<1> USE DEF IInv, TypeOK, TakeFrame, Goto, mainVars, workVars, echoVars, Threads, Workers
<1>1. TypeOK'
  BY SMTT(30) DEF Labels
<1>2. PlaceInv' /\ StageInv'
  BY DEF PlaceInv, StageInv, Stages, MonJoined, PlayStopped
<1>3. EchoInv'
  BY DEF EchoInv, Cancelling, PlaceInv
<1>4. NoFrameSleeps'
  BY DEF NoFrameSleeps, PlaceInv
<1> QED
  BY <1>1, <1>2, <1>3, <1>4 DEF IInv

\* The worker finds its buffer empty and goes to sleep.
LEMMA TakeNothingInv == ASSUME IInv, NEW w \in Workers, TakeNothing(w) PROVE IInv'
<1> USE DEF IInv, TypeOK, TakeNothing, Goto, mainVars, workVars, echoVars, Threads, Workers
<1>1. TypeOK'
  BY DEF Labels
<1>2. PlaceInv' /\ StageInv'
  BY DEF PlaceInv, StageInv, Stages, MonJoined, PlayStopped
<1>3. EchoInv'
  BY DEF EchoInv, Cancelling, PlaceInv
<1>4. NoFrameSleeps'
  BY DEF NoFrameSleeps, PlaceInv
<1> QED
  BY <1>1, <1>2, <1>3, <1>4 DEF IInv

\* The worker wakes, or its second is over.
LEMMA WakeInv == ASSUME IInv, NEW w \in Workers, Wake(w) \/ TimesOut(w) PROVE IInv'
<1> USE DEF IInv, TypeOK, Wake, TimesOut, Goto, mainVars, workVars, echoVars, Threads, Workers
<1>1. TypeOK'
  <2>1. pc' \in [Threads -> Labels]
    BY DEF Labels
  <2>2. event' \in [Workers -> BOOLEAN]
    OBVIOUS
  <2> QED
    BY <2>1, <2>2
<1>2. PlaceInv' /\ StageInv'
  BY DEF PlaceInv, StageInv, Stages, MonJoined, PlayStopped
<1>3. EchoInv'
  BY DEF EchoInv, Cancelling, PlaceInv
<1>4. NoFrameSleeps'
  BY DEF NoFrameSleeps, PlaceInv
<1> QED
  BY <1>1, <1>2, <1>3, <1>4 DEF IInv

\* The monitor's worker sends its frame.
LEMMA ProcessInv == ASSUME IInv, Process PROVE IInv'
<1> USE DEF IInv, TypeOK, Process, Goto, mainVars, workVars, echoVars, Threads, Workers
<1>1. TypeOK'
  BY DEF Labels
<1>2. PlaceInv' /\ StageInv'
  BY DEF PlaceInv, StageInv, Stages, MonJoined, PlayStopped
<1>3. EchoInv'
  BY DEF EchoInv, Cancelling, PlaceInv
<1>4. NoFrameSleeps'
  BY DEF NoFrameSleeps, PlaceInv
<1> QED
  BY <1>1, <1>2, <1>3, <1>4 DEF IInv

\* A frame is captured, which no clean_system() past the stream's stop allows.
LEMMA PutFrameInv == ASSUME IInv, PutFrame PROVE IInv'
<1> USE DEF IInv, TypeOK, PutFrame, Goto, mainVars, workVars, echoVars, Threads, Workers
<1>1. TypeOK'
  BY DEF Labels
<1>2. PlaceInv' /\ StageInv'
  BY DEF PlaceInv, StageInv, Stages, MonJoined, PlayStopped
<1>3. EchoInv'
  BY DEF EchoInv, Cancelling, PlaceInv
<1>4. NoFrameSleeps'
  BY DEF NoFrameSleeps, PlaceInv
<1> QED
  BY <1>1, <1>2, <1>3, <1>4 DEF IInv

\* The captured frame goes to the put thread, or is worked on at once.
LEMMA PutInv == ASSUME IInv, PutBuffered \/ PutDirect PROVE IInv'
<1> USE DEF IInv, TypeOK, PutBuffered, PutDirect, Write, Goto, mainVars, workVars, echoVars, Threads, Workers
<1>1. TypeOK'
  <2>1. buf' \in [Workers -> Seq(Nat)] /\ event' \in [Workers -> BOOLEAN]
    BY WriteType
  <2>2. pc' \in [Threads -> Labels]
    BY DEF Labels
  <2> QED
    BY <2>1, <2>2
<1>2. PlaceInv' /\ StageInv'
  BY DEF PlaceInv, StageInv, Stages, MonJoined, PlayStopped
<1>3. EchoInv'
  BY SMTT(30) DEF EchoInv, Cancelling, PlaceInv
<1>4. NoFrameSleeps'
  BY DEF NoFrameSleeps, PlaceInv
<1> QED
  BY <1>1, <1>2, <1>3, <1>4 DEF IInv

\* The canceller has no reference yet, or has done its work.
LEMMA EarlyInv == ASSUME IInv, NEW t \in {"rec", "put"}, CaptureTooEarly(t) \/ Forward(t) PROVE IInv'
<1> USE DEF IInv, TypeOK, CaptureTooEarly, Forward, Goto, mainVars, workVars, echoVars, Threads, Workers
<1>1. TypeOK'
  BY DEF Labels
<1>2. PlaceInv' /\ StageInv'
  BY DEF PlaceInv, StageInv, Stages, MonJoined, PlayStopped
<1>3. EchoInv'
  BY SMTT(30) DEF EchoInv, Cancelling, PlaceInv
<1>4. NoFrameSleeps'
  BY DEF NoFrameSleeps, PlaceInv
<1> QED
  BY <1>1, <1>2, <1>3, <1>4 DEF IInv

\* The reference leaves lat_buf, which is not empty.
LEMMA CaptureInv == ASSUME IInv, NEW t \in {"rec", "put"}, Capture(t) PROVE IInv'
<1> USE DEF IInv, TypeOK, Capture, Goto, mainVars, workVars, echoVars, Threads, Workers
<1>0. ~Cancelling /\ lat # <<>> /\ Head(lat) \in Nat /\ Tail(lat) \in Seq(Nat)
        /\ Len(Tail(lat)) = Len(lat) - 1
  BY ReferenceThere, HeadTail
<1>1. TypeOK'
  <2>1. pc' \in [Threads -> Labels]
    BY DEF Labels
  <2> QED
    BY <1>0, <2>1
<1>2. PlaceInv' /\ StageInv'
  BY DEF PlaceInv, StageInv, Stages, MonJoined, PlayStopped
<1>3. EchoInv'
  <2>1. Cancelling'
    BY DEF Cancelling
  <2>2. ready' = ready /\ Len(lat') + 1 = Len(lat)
    BY <1>0
  <2> QED
    BY <1>0, <2>1, <2>2 DEF EchoInv
<1>4. NoFrameSleeps'
  BY DEF NoFrameSleeps, PlaceInv
<1> QED
  BY <1>1, <1>2, <1>3, <1>4 DEF IInv

\* lat_buf is filled up again.
LEMMA RefillInv == ASSUME IInv, NEW t \in {"rec", "put"}, Refill(t) PROVE IInv'
<1> USE DEF IInv, TypeOK, Refill, DelayGet, DelayRest, Silence, Goto, mainVars, workVars, echoVars, Threads, Workers
<1>1. TypeOK'
  BY DEF Labels
<1>2. PlaceInv' /\ StageInv'
  BY DEF PlaceInv, StageInv, Stages, MonJoined, PlayStopped
<1>3. EchoInv'
  BY DEF EchoInv, Cancelling, PlaceInv
<1>4. NoFrameSleeps'
  BY DEF NoFrameSleeps, PlaceInv
<1> QED
  BY <1>1, <1>2, <1>3, <1>4 DEF IInv

\* The device wants a frame.
LEMMA GetFrameInv == ASSUME IInv, GetFrame PROVE IInv'
<1> USE DEF IInv, TypeOK, GetFrame, Goto, mainVars, workVars, echoVars, Threads, Workers
<1>1. TypeOK'
  BY DEF Labels
<1>2. PlaceInv' /\ StageInv'
  BY DEF PlaceInv, StageInv, Stages, MonJoined, PlayStopped
<1>3. EchoInv'
  BY DEF EchoInv, Cancelling, PlaceInv
<1>4. NoFrameSleeps'
  BY DEF NoFrameSleeps, PlaceInv
<1> QED
  BY <1>1, <1>2, <1>3, <1>4 DEF IInv

\* The bridge mixes the frame and hands it to the monitor.
LEMMA MixInv == ASSUME IInv, Mix PROVE IInv'
<1> USE DEF IInv, TypeOK, Mix, Write, Goto, mainVars, workVars, echoVars, Threads, Workers
<1>1. TypeOK'
  <2>1. buf' \in [Workers -> Seq(Nat)] /\ event' \in [Workers -> BOOLEAN]
    BY WriteType
  <2>2. pc' \in [Threads -> Labels]
    BY DEF Labels
  <2> QED
    BY <2>1, <2>2
<1>2. PlaceInv' /\ StageInv'
  BY DEF PlaceInv, StageInv, Stages, MonJoined, PlayStopped
<1>3. EchoInv'
  BY DEF EchoInv, Cancelling, PlaceInv
<1>4. NoFrameSleeps'
  BY DEF NoFrameSleeps, PlaceInv
<1> QED
  BY <1>1, <1>2, <1>3, <1>4 DEF IInv

\* The delay buffer has taken a frame: its eldest goes to lat_buf until that is full.
LEMMA StoreInv ==
    ASSUME TypeOK, EchoInv, NEW d \in Seq(Nat), d # <<>>, ~ready => Tail(d) = <<>>, Store(d)
    PROVE  /\ delay' \in Seq(Nat) /\ lat' \in Seq(Nat) /\ free' \in Nat /\ ready' \in BOOLEAN
           /\ ~ready' => Len(lat') + free' = Latency /\ delay' = <<>> /\ ~Cancelling
           /\ ready' => Len(lat') + (IF Cancelling THEN 1 ELSE 0) = Latency
<1>1. CASE ~ready /\ free > 0
  <2>1. /\ Append(lat, Head(d)) \in Seq(Nat)
        /\ Len(Append(lat, Head(d))) = Len(lat) + 1
    BY HeadTail, OneMore DEF TypeOK
  <2>2. /\ lat' = Append(lat, Head(d)) /\ delay' = Tail(d)
        /\ free' = free - 1 /\ ready' = ready
    BY <1>1 DEF Store
  <2>3. /\ Len(lat) \in Nat /\ free \in Nat /\ ready \in BOOLEAN
        /\ Len(lat) + free = Latency /\ ~Cancelling
    BY <1>1 DEF TypeOK, EchoInv
  <2>4. Tail(d) = <<>>
    BY <1>1
  <2>5. delay' \in Seq(Nat) /\ lat' \in Seq(Nat) /\ free' \in Nat /\ ready' \in BOOLEAN
    BY <1>1, <2>1, <2>2, <2>3, <2>4
  <2>6. Len(lat') + free' = Latency
    BY <1>1, <2>1, <2>2, <2>3, SoundPathAssumption
  <2> QED
    BY <1>1, <2>2, <2>3, <2>4, <2>5, <2>6
<1>2. CASE ~(~ready /\ free > 0)
  <2>1. delay' = d /\ ready' = TRUE /\ lat' = lat /\ free' = free
    BY <1>2 DEF Store
  <2>2. Len(lat) + (IF Cancelling THEN 1 ELSE 0) = Latency
    BY <1>2, SoundPathAssumption DEF TypeOK, EchoInv
  <2> QED
    BY <2>1, <2>2 DEF TypeOK
<1> QED
  BY <1>1, <1>2

\* A piece of the played frame goes to the canceller.
LEMMA PlaybackInv == ASSUME IInv, Playback PROVE IInv'
<1>1. PICK frame \in Nat : Store(DelayPut(delay, frame))
  BY DEF IInv, TypeOK, Playback, PlayedFrames, Silence
<1>2. /\ pc["play"] = "echo" /\ (pc' = pc \/ pc' = [pc EXCEPT !["play"] = "idle"])
      /\ played' \in {played, played + 1}
      /\ UNCHANGED <<mainVars, hand, workVars, used, captured>>
  BY DEF Playback, Goto
<1>3. ~ready => Tail(DelayPut(delay, frame)) = <<>>
  <2> SUFFICES ASSUME ~ready PROVE Tail(DelayPut(delay, frame)) = <<>>
    OBVIOUS
  <2>1. delay = <<>>
    BY DEF IInv, EchoInv
  <2>2. DelayPut(delay, frame) = <<frame>>
    BY <2>1, SoundPathAssumption DEF DelayPut
  <2> QED
    BY <2>2
<1>4. /\ delay' \in Seq(Nat) /\ lat' \in Seq(Nat) /\ free' \in Nat /\ ready' \in BOOLEAN
      /\ ~ready' => Len(lat') + free' = Latency /\ delay' = <<>> /\ ~Cancelling
      /\ ready' => Len(lat') + (IF Cancelling THEN 1 ELSE 0) = Latency
  <2>1. delay \in Seq(Nat)
    BY DEF IInv, TypeOK
  <2>2. DelayPut(delay, frame) \in Seq(Nat) /\ DelayPut(delay, frame) # <<>>
    BY <2>1, DelayPutType
  <2> QED
    BY <1>1, <1>3, <2>2, StoreInv DEF IInv
<1> USE DEF IInv, TypeOK, mainVars, workVars, Threads, Workers
<1>5. TypeOK'
  <2>1. pc' \in [Threads -> Labels]
    BY <1>2 DEF Labels
  <2> QED
    BY <1>2, <1>4, <2>1
<1>6. PlaceInv' /\ StageInv'
  BY <1>2 DEF PlaceInv, StageInv, Stages, MonJoined, PlayStopped
<1>7. EchoInv'
  <2>1. Cancelling' = Cancelling
    BY <1>2 DEF Cancelling
  <2> QED
    BY <1>4, <2>1 DEF EchoInv
<1>8. NoFrameSleeps'
  BY <1>2 DEF NoFrameSleeps, PlaceInv
<1> QED
  BY <1>5, <1>6, <1>7, <1>8 DEF IInv

\* Nothing is played to the canceller.
LEMMA PlayNothingInv == ASSUME IInv, PlayNothing PROVE IInv'
<1> USE DEF IInv, TypeOK, PlayNothing, Goto, mainVars, workVars, echoVars, Threads, Workers
<1>1. TypeOK'
  BY DEF Labels
<1>2. PlaceInv' /\ StageInv'
  BY DEF PlaceInv, StageInv, Stages, MonJoined, PlayStopped
<1>3. EchoInv'
  BY DEF EchoInv, Cancelling, PlaceInv
<1>4. NoFrameSleeps'
  BY DEF NoFrameSleeps, PlaceInv
<1> QED
  BY <1>1, <1>2, <1>3, <1>4 DEF IInv

\* clean_system() tells a worker to go.
LEMMA TellInv ==
    ASSUME IInv, NEW w \in Workers, NEW from, NEW to \in Stages,
           Exit(w, from, to) \/ Signal(w, from, to)
    PROVE  TypeOK' /\ PlaceInv' /\ EchoInv' /\ NoFrameSleeps'
<1> USE DEF IInv, TypeOK, Exit, Signal, Step, NoCallback, echoVars, Threads, Workers
<1>1. TypeOK'
  OBVIOUS
<1>2. PlaceInv' /\ EchoInv'
  BY DEF PlaceInv, EchoInv, Cancelling
<1>3. NoFrameSleeps'
  BY DEF NoFrameSleeps
<1> QED
  BY <1>1, <1>2, <1>3

\* clean_system() waits for a thread, or deletes a part.
LEMMA TakeApartInv ==
    ASSUME IInv, NEW to \in Stages, stage' = to, NoCallback, UNCHANGED <<exit, event>>,
           running' \subseteq running, freed' \subseteq Parts
    PROVE  TypeOK' /\ PlaceInv' /\ EchoInv' /\ NoFrameSleeps'
<1> USE DEF IInv, TypeOK, NoCallback, echoVars, Threads, Workers
<1>1. TypeOK'
  OBVIOUS
<1>2. PlaceInv' /\ EchoInv' /\ NoFrameSleeps'
  BY DEF PlaceInv, EchoInv, Cancelling, NoFrameSleeps
<1> QED
  BY <1>1, <1>2

\* Each step of clean_system().
LEMMA CleanInv == ASSUME IInv, CleanSystem PROVE IInv'
<1> USE DEF Workers, Stages
<1>1. CASE CleanMonitor
  <2>1. CASE Exit("mon", "up", "monSignal") \/ Signal("mon", "monSignal", "monJoin")
    <3>1. TypeOK' /\ PlaceInv' /\ EchoInv' /\ NoFrameSleeps'
      BY <2>1, TellInv
    <3>2. StageInv'
      BY <2>1 DEF IInv, StageInv, MonJoined, PlayStopped, Exit, Signal, Step, NoCallback
    <3> QED
      BY <3>1, <3>2 DEF IInv
  <2>2. CASE Join("mon", "monJoin", "monSocket")
    <3>1. TypeOK' /\ PlaceInv' /\ EchoInv' /\ NoFrameSleeps'
      BY <2>2, TakeApartInv DEF Join, Step, IInv, TypeOK
    <3>2. StageInv'
      BY <2>2 DEF IInv, StageInv, MonJoined, PlayStopped, Join, Step, NoCallback
    <3> QED
      BY <3>1, <3>2 DEF IInv
  <2>3. CASE \/ Free("monSocket", "monSocket", "monGain") \/ Free("monGain", "monGain", "monPort")
             \/ RemovePort \/ Free("monBuffer", "monBuffer", "playStop")
    <3>1. TypeOK' /\ PlaceInv' /\ EchoInv' /\ NoFrameSleeps'
      BY <2>3, TakeApartInv DEF Free, RemovePort, Step, IInv, TypeOK, Parts
    <3>2. StageInv'
      BY <2>3 DEF IInv, StageInv, MonJoined, PlayStopped, Free, RemovePort, Step, NoCallback
    <3> QED
      BY <3>1, <3>2 DEF IInv
  <2> QED
    BY <1>1, <2>1, <2>2, <2>3 DEF CleanMonitor
<1>2. CASE StopStream("play", "playStop", "recStop") \/ StopStream("rec", "recStop", "masterExit")
  <2>1. TypeOK' /\ PlaceInv' /\ EchoInv' /\ NoFrameSleeps'
    BY <1>2, TakeApartInv DEF StopStream, Step, IInv, TypeOK
  <2>2. StageInv'
    BY <1>2 DEF IInv, StageInv, MonJoined, PlayStopped, StopStream, Step, NoCallback
  <2> QED
    BY <2>1, <2>2 DEF IInv
<1>3. CASE CleanMaster
  <2>1. CASE Exit("put", "masterExit", "putSignal") \/ Signal("put", "putSignal", "putJoin")
    <3>1. TypeOK' /\ PlaceInv' /\ EchoInv' /\ NoFrameSleeps'
      BY <2>1, TellInv
    <3>2. StageInv'
      BY <2>1 DEF IInv, StageInv, MonJoined, PlayStopped, Exit, Signal, Step, NoCallback
    <3> QED
      BY <3>1, <3>2 DEF IInv
  <2>2. CASE Join("put", "putJoin", "masterFree") \/ Free("master", "masterFree", "down")
    <3>1. TypeOK' /\ PlaceInv' /\ EchoInv' /\ NoFrameSleeps'
      BY <2>2, TakeApartInv DEF Join, Free, Step, IInv, TypeOK, Parts
    <3>2. StageInv'
      BY <2>2 DEF IInv, StageInv, MonJoined, PlayStopped, Join, Free, Step, NoCallback
    <3> QED
      BY <3>1, <3>2 DEF IInv
  <2> QED
    BY <1>3, <2>1, <2>2 DEF CleanMaster
<1> QED
  BY <1>1, <1>2, <1>3 DEF CleanSystem

\* The invariant holds in every state of every run.
LEMMA Invariance == Spec => []IInv
<1>1. IInv /\ [Next]_vars => IInv'
  <2> SUFFICES ASSUME IInv, [Next]_vars PROVE IInv'
    OBVIOUS
  <2>1. CASE \E t \in Threads : GoesOn(t)
    <3>1. PICK t \in Threads : GoesOn(t)
      BY <2>1
    <3>2. CASE t \in Workers /\ Work(t)
      BY <3>2, TestInv, TakeFrameInv, TakeNothingInv, WakeInv DEF Work
    <3>3. CASE t \in {"rec", "put"} /\ Cancel(t)
      BY <3>3, EarlyInv, CaptureInv, RefillInv DEF Cancel
    <3>4. CASE Process \/ PutBuffered \/ PutDirect \/ Mix \/ Playback \/ PlayNothing
      BY <3>4, ProcessInv, PutInv, MixInv, PlaybackInv, PlayNothingInv
    <3> QED
      BY <3>1, <3>2, <3>3, <3>4 DEF GoesOn
  <2>2. CASE \E w \in Workers : TimesOut(w)
    BY <2>2, WakeInv
  <2>3. CASE PutFrame \/ GetFrame
    BY <2>3, PutFrameInv, GetFrameInv
  <2>4. CASE CleanSystem
    BY <2>4, CleanInv
  <2>5. CASE UNCHANGED vars
    BY <2>5 DEF IInv, TypeOK, PlaceInv, EchoInv, Cancelling, StageInv, NoFrameSleeps,
                vars, mainVars, workVars, echoVars
  <2> QED
    BY <2>1, <2>2, <2>3, <2>4, <2>5 DEF Next
<1> QED
  BY <1>1, InitInv, PTL DEF Spec

-----------------------------------------------------------------------------
(* The theorems.                                                           *)

\* pjs_master_port, pjs_echo_canceller and the monitor keep their types.
THEOREM TypeCorrect == Spec => []TypeOK
<1> QED
  BY Invariance, PTL DEF IInv

\* capture() always finds the reference it takes from lat_buf without asking, for
\* every latency and every delay.
THEOREM ReferenceFound == Spec => []LatencyKept
<1>1. IInv => LatencyKept
  <2> SUFFICES ASSUME IInv PROVE LatencyKept
    OBVIOUS
  <2>1. \A t \in {"rec", "put"} : pc[t] = "cancel" /\ ready => lat # <<>>
    BY ReferenceThere DEF IInv
  <2> QED
    BY <2>1 DEF IInv, EchoInv, LatencyKept
<1> QED
  BY <1>1, Invariance, PTL

\* clean_system() deletes nothing that a thread still uses, but the monitor's gain
\* control.
THEOREM NothingUsedAfterDelete == Spec => []UsedWhileAlive
<1>1. IInv => UsedWhileAlive
  <2> SUFFICES ASSUME IInv, NEW t \in Threads
               PROVE  Uses(t) \cap freed \subseteq IF stage = "monPort" THEN {"monGain"} ELSE {}
    BY DEF UsedWhileAlive
  <2> USE DEF IInv, TypeOK, StageInv, PlaceInv, MonJoined, PlayStopped, Stages, Parts
  <2>1. CASE t = "mon"
    BY <2>1 DEF Uses
  <2>2. CASE t = "play"
    BY <2>2 DEF Uses, InBridge
  <2>3. CASE t \in {"rec", "put"}
    BY <2>3 DEF Uses
  <2> QED
    BY <2>1, <2>2, <2>3 DEF Threads, Workers
<1> QED
  BY <1>1, Invariance, PTL

\* No worker sleeps over a frame: the event of put_frame() and process_frame() is
\* never lost, for any capacity of the buffers.
THEOREM NoFrameLeftSleeping == Spec => []NoFrameSleeps
<1> QED
  BY Invariance, PTL DEF IInv

-----------------------------------------------------------------------------
(* The order of the references.                                            *)

Frames(s) == {s[i] : i \in 1 .. Len(s)}

\* The last played piece that playback() has been given, or that was not given to it.
Stored == IF pc["play"] = "idle" THEN played ELSE played - 1

\* What waits in lat_buf comes before what waits in delay_buf, and after what was used.
OrderInv ==
    /\ InOrder(lat) /\ InOrder(delay)
    /\ \A f \in Frames(lat), g \in Frames(delay) : Before(f, g)
    /\ \A f \in Frames(lat) \cup Frames(delay) : f = Silence \/ (used < f /\ f <= Stored)
    /\ used <= Stored

\* A sequence without its head.
LEMMA TailOrder ==
    ASSUME NEW s \in Seq(Nat), s # <<>>, InOrder(s)
    PROVE  /\ InOrder(Tail(s))
           /\ Head(s) \in Frames(s) /\ Frames(Tail(s)) \subseteq Frames(s)
           /\ \A g \in Frames(Tail(s)) : Before(Head(s), g)
<1>1. /\ Tail(s) \in Seq(Nat) /\ Len(s) \in Nat /\ Len(s) > 0 /\ Len(Tail(s)) = Len(s) - 1
      /\ Head(s) = s[1]
      /\ \A i \in 1 .. Len(Tail(s)) : Tail(s)[i] = s[i + 1]
  OBVIOUS
<1>2. \A i \in 1 .. Len(Tail(s)) : i + 1 \in 1 .. Len(s) /\ 1 < i + 1
  BY <1>1
<1>3. InOrder(Tail(s))
  BY <1>1, <1>2 DEF InOrder
<1>4. Head(s) \in Frames(s) /\ Frames(Tail(s)) \subseteq Frames(s)
  BY <1>1, <1>2 DEF Frames
<1>5. \A g \in Frames(Tail(s)) : Before(Head(s), g)
  BY <1>1, <1>2 DEF Frames, InOrder
<1> QED
  BY <1>3, <1>4, <1>5

\* A sequence and a frame that comes after all of it.
LEMMA AppendOrder ==
    ASSUME NEW s \in Seq(Nat), NEW f \in Nat, InOrder(s), \A g \in Frames(s) : Before(g, f)
    PROVE  InOrder(Append(s, f)) /\ Frames(Append(s, f)) = Frames(s) \cup {f}
<1> DEFINE a == Append(s, f)
<1>1. /\ Len(s) \in Nat /\ Len(a) = Len(s) + 1
      /\ a[Len(s) + 1] = f
      /\ \A i \in 1 .. Len(s) : a[i] = s[i]
  OBVIOUS
<1>2. \A i \in 1 .. Len(s) : s[i] \in Frames(s)
  BY DEF Frames
<1> HIDE DEF a
<1>3. InOrder(a)
  <2> SUFFICES ASSUME NEW i \in 1 .. Len(a), NEW j \in 1 .. Len(a), i < j
               PROVE  Before(a[i], a[j])
    BY DEF InOrder
  <2>1. i \in 1 .. Len(s) /\ a[i] = s[i]
    BY <1>1
  <2>2. CASE j \in 1 .. Len(s)
    BY <1>1, <2>1, <2>2 DEF InOrder
  <2>3. CASE j = Len(s) + 1
    BY <1>1, <1>2, <2>1, <2>3
  <2> QED
    BY <1>1, <2>2, <2>3
<1>4. Frames(a) = Frames(s) \cup {f}
  <2>1. Frames(a) \subseteq Frames(s) \cup {f}
    BY <1>1 DEF Frames
  <2>2. Frames(s) \subseteq Frames(a)
    BY <1>1 DEF Frames
  <2>3. Len(s) + 1 \in 1 .. Len(a)
    BY <1>1
  <2>4. f \in Frames(a)
    BY <1>1, <2>3 DEF Frames
  <2> QED
    BY <2>1, <2>2, <2>4
<1> QED
  BY <1>3, <1>4 DEF a

\* Frames are numbers.
LEMMA FramesNat == ASSUME NEW s \in Seq(Nat) PROVE Frames(s) \subseteq Nat
  BY DEF Frames

\* Nothing waits in an empty list.
LEMMA FramesEmpty == Frames(<<>>) = {} /\ InOrder(<<>>)
  BY DEF Frames, InOrder

\* A step that neither plays nor takes a reference leaves their order alone.
LEMMA OrderKept ==
    ASSUME IInv, OrderInv, UNCHANGED <<delay, lat, used, played>>,
           pc'["play"] = "idle" <=> pc["play"] = "idle"
    PROVE  OrderInv'
  BY DEF OrderInv, Stored, Frames, InOrder

\* capture() uses the eldest reference.
LEMMA CaptureOrder ==
    ASSUME IInv, OrderInv, NEW t \in {"rec", "put"}, Capture(t) PROVE OrderInv'
<1>1. lat # <<>> /\ lat \in Seq(Nat) /\ delay \in Seq(Nat)
  BY ReferenceThere DEF IInv, TypeOK, Capture
<1>2. /\ used' = IF Head(lat) = Silence THEN used ELSE Head(lat)
      /\ lat' = Tail(lat) /\ delay' = delay /\ played' = played
  BY DEF Capture
<1>3. Stored' = Stored
  BY DEF Capture, Goto, IInv, TypeOK, Threads, Workers, Stored
<1>4. /\ InOrder(lat')
      /\ Head(lat) \in Frames(lat) /\ Frames(lat') \subseteq Frames(lat)
      /\ \A g \in Frames(lat') : Before(Head(lat), g)
  BY <1>1, <1>2, TailOrder DEF OrderInv
<1>5. InOrder(delay') /\ Frames(delay') = Frames(delay)
  BY <1>2 DEF OrderInv
<1>6. Frames(lat) \subseteq Nat /\ Frames(delay) \subseteq Nat /\ used \in Nat /\ Stored \in Int
  BY <1>1, FramesNat DEF IInv, TypeOK, Stored
<1>7. \A g \in Frames(delay) : Before(Head(lat), g)
  BY <1>4 DEF OrderInv
<1>8. used' <= Stored'
  BY <1>2, <1>3, <1>4, <1>6 DEF OrderInv
<1>9. \A f \in Frames(lat') \cup Frames(delay') : f = Silence \/ (used' < f /\ f <= Stored')
  BY <1>2, <1>3, <1>4, <1>5, <1>6, <1>7 DEF OrderInv, Before, Silence
<1>10. \A f \in Frames(lat'), g \in Frames(delay') : Before(f, g)
  BY <1>4, <1>5 DEF OrderInv
<1> QED
  BY <1>4, <1>5, <1>8, <1>9, <1>10 DEF OrderInv

\* The eldest frame of the delay buffer, or silence, joins the references.
LEMMA RefillOrder ==
    ASSUME IInv, OrderInv, NEW t \in {"rec", "put"}, Refill(t) PROVE OrderInv'
<1>1. lat \in Seq(Nat) /\ delay \in Seq(Nat) /\ used' = used
  BY DEF IInv, TypeOK, Refill
<1>2. Stored' = Stored
  BY DEF Refill, Goto, IInv, TypeOK, Threads, Workers, Stored
<1>3. CASE delay = <<>>
  <2>1. lat' = Append(lat, Silence) /\ delay' = delay
    BY <1>3 DEF Refill, DelayGet, DelayRest
  <2>2. \A g \in Frames(lat) : Before(g, Silence)
    BY DEF Before
  <2>3. InOrder(lat') /\ Frames(lat') = Frames(lat) \cup {Silence}
    BY <1>1, <2>1, <2>2, AppendOrder DEF OrderInv, Silence
  <2>4. Frames(delay') = {} /\ InOrder(delay')
    BY <1>3, <2>1, FramesEmpty
  <2> QED
    BY <1>1, <1>2, <2>3, <2>4 DEF OrderInv, Before
<1>4. CASE delay # <<>>
  <2>1. lat' = Append(lat, Head(delay)) /\ delay' = Tail(delay) /\ Head(delay) \in Nat
    BY <1>1, <1>4 DEF Refill, DelayGet, DelayRest
  <2>2. /\ InOrder(delay')
        /\ Head(delay) \in Frames(delay) /\ Frames(delay') \subseteq Frames(delay)
        /\ \A g \in Frames(delay') : Before(Head(delay), g)
    BY <1>1, <1>4, <2>1, TailOrder DEF OrderInv
  <2>3. \A g \in Frames(lat) : Before(g, Head(delay))
    BY <2>2 DEF OrderInv
  <2>4. InOrder(lat') /\ Frames(lat') = Frames(lat) \cup {Head(delay)}
    BY <1>1, <2>1, <2>3, AppendOrder DEF OrderInv
  <2> QED
    BY <1>1, <1>2, <2>2, <2>4 DEF OrderInv
<1> QED
  BY <1>3, <1>4

\* A played frame is younger than all that waits.
LEMMA DelayPutOrder ==
    ASSUME IInv, OrderInv, NEW f \in Nat, f = Silence \/ f = played, pc["play"] # "idle"
    PROVE  /\ InOrder(DelayPut(delay, f))
           /\ Frames(DelayPut(delay, f)) \subseteq Frames(delay) \cup {f}
<1>1. delay \in Seq(Nat) /\ played \in Nat /\ Len(delay) \in Nat
  BY DEF IInv, TypeOK
<1>2. Frames(delay) \subseteq Nat
  BY <1>1, FramesNat
<1>3. \A g \in Frames(delay) : Before(g, f)
  BY <1>1, <1>2 DEF OrderInv, Stored, Before
<1>4. CASE Len(delay) < DelayMax
  BY <1>1, <1>3, <1>4, AppendOrder DEF DelayPut, OrderInv
<1>5. CASE ~(Len(delay) < DelayMax)
  <2>1. delay # <<>>
    BY <1>5, SoundPathAssumption
  <2>2. /\ Tail(delay) \in Seq(Nat) /\ InOrder(Tail(delay))
        /\ Frames(Tail(delay)) \subseteq Frames(delay)
    BY <1>1, <2>1, TailOrder, HeadTail DEF OrderInv
  <2>3. \A g \in Frames(Tail(delay)) : Before(g, f)
    BY <1>3, <2>2
  <2>4. /\ InOrder(Append(Tail(delay), f))
        /\ Frames(Append(Tail(delay), f)) = Frames(Tail(delay)) \cup {f}
    BY <2>2, <2>3, AppendOrder
  <2> QED
    BY <1>5, <2>2, <2>4 DEF DelayPut
<1> QED
  BY <1>4, <1>5

\* playback() stores the piece that was just played.
LEMMA PlaybackOrder == ASSUME IInv, OrderInv, Playback PROVE OrderInv'
<1>1. PICK f \in Nat : (f = Silence \/ f = played) /\ Store(DelayPut(delay, f))
  BY DEF IInv, TypeOK, Playback, PlayedFrames, Silence
<1> DEFINE d == DelayPut(delay, f)
<1>2. /\ InOrder(d) /\ Frames(d) \subseteq Frames(delay) \cup {f}
      /\ d \in Seq(Nat) /\ d # <<>>
  <2>1. pc["play"] # "idle" /\ delay \in Seq(Nat)
    BY DEF Playback, IInv, TypeOK
  <2> QED
    BY <1>1, <2>1, DelayPutOrder, DelayPutType
<1>3. /\ lat \in Seq(Nat) /\ delay \in Seq(Nat) /\ played \in Nat /\ used \in Nat
      /\ used' = used
  BY DEF IInv, TypeOK, Playback
<1>4. Frames(lat) \subseteq Nat /\ Frames(delay) \subseteq Nat
  BY <1>3, FramesNat
<1>5. Stored = played - 1 /\ Stored' = played
  <2>1. pc \in [Threads -> Labels] /\ "play" \in Threads /\ pc["play"] = "echo"
    BY DEF Playback, IInv, TypeOK, Threads
  <2>2. CASE Goto("play", "idle") /\ played' = played
    BY <2>1, <2>2 DEF Goto, Stored
  <2>3. CASE played' = played + 1 /\ UNCHANGED pc
    BY <1>3, <2>1, <2>3 DEF Stored
  <2> QED
    BY <2>2, <2>3 DEF Playback
<1>6. Store(d)
  BY <1>1
<1>7. \A g \in Frames(lat) \cup Frames(delay) : Before(g, f)
  BY <1>1, <1>3, <1>4, <1>5 DEF OrderInv, Before
<1>8. \A g \in Frames(lat) \cup Frames(delay) \cup {f} :
          g = Silence \/ (used < g /\ g <= Stored')
  BY <1>1, <1>3, <1>4, <1>5 DEF OrderInv
<1>9. used' <= Stored'
  BY <1>3, <1>5 DEF OrderInv
<1>0. \A h \in Frames(lat), g \in Frames(d) : Before(h, g)
  BY <1>2, <1>7 DEF OrderInv
<1> HIDE DEF d
<1>10. CASE ~ready /\ free > 0
  <2>1. lat' = Append(lat, Head(d)) /\ delay' = Tail(d)
    BY <1>6, <1>10 DEF Store
  <2>2. /\ InOrder(Tail(d)) /\ Head(d) \in Nat
        /\ Head(d) \in Frames(d) /\ Frames(Tail(d)) \subseteq Frames(d)
        /\ \A g \in Frames(Tail(d)) : Before(Head(d), g)
    BY <1>2, TailOrder, HeadTail
  <2>3. \A g \in Frames(lat) : Before(g, Head(d))
    BY <1>0, <2>2
  <2>4. InOrder(lat') /\ Frames(lat') = Frames(lat) \cup {Head(d)}
    BY <1>3, <2>1, <2>2, <2>3, AppendOrder DEF OrderInv
  <2>5. \A h \in Frames(lat'), g \in Frames(delay') : Before(h, g)
    BY <1>0, <2>1, <2>2, <2>4
  <2>6. \A g \in Frames(lat') \cup Frames(delay') : g = Silence \/ (used < g /\ g <= Stored')
    BY <1>2, <1>8, <2>1, <2>2, <2>4
  <2> QED
    BY <1>3, <1>9, <2>1, <2>2, <2>4, <2>5, <2>6 DEF OrderInv
<1>11. CASE ~(~ready /\ free > 0)
  <2>1. delay' = d /\ lat' = lat
    BY <1>6, <1>11 DEF Store
  <2>2. \A g \in Frames(lat') \cup Frames(delay') : g = Silence \/ (used < g /\ g <= Stored')
    BY <1>2, <1>8, <2>1
  <2> QED
    BY <1>0, <1>2, <1>3, <1>9, <2>1, <2>2 DEF OrderInv
<1> QED
  BY <1>10, <1>11

\* What is not played to the canceller is left out of the references.
LEMMA PlayNothingOrder == ASSUME IInv, OrderInv, PlayNothing PROVE OrderInv'
<1>1. UNCHANGED <<delay, lat, used>>
  BY DEF PlayNothing, echoVars
<1>2. Stored = played - 1 /\ Stored' = played /\ played \in Nat
  BY DEF PlayNothing, Goto, IInv, TypeOK, Threads, Workers, Stored
<1>3. Frames(lat) \subseteq Nat /\ Frames(delay) \subseteq Nat /\ used \in Nat
  BY FramesNat DEF IInv, TypeOK
<1>4. /\ \A f \in Frames(lat) \cup Frames(delay) : f = Silence \/ (used < f /\ f <= Stored')
      /\ used <= Stored'
  BY <1>2, <1>3 DEF OrderInv
<1> QED
  BY <1>1, <1>4 DEF OrderInv

\* The device wants a frame, the number of which is new.
LEMMA GetFrameOrder == ASSUME IInv, OrderInv, GetFrame PROVE OrderInv'
<1>1. UNCHANGED <<delay, lat, used>>
  BY DEF GetFrame, echoVars
<1>2. Stored' = Stored
  BY DEF GetFrame, Goto, IInv, TypeOK, Threads, Workers, Stored
<1> QED
  BY <1>1, <1>2 DEF OrderInv

\* The order of the references is kept by every step.
LEMMA OrderInvariance == Spec => []OrderInv
<1>1. Init => OrderInv
  BY FramesEmpty DEF Init, OrderInv, Stored, Threads, Workers
<1>2. IInv /\ OrderInv /\ [Next]_vars => OrderInv'
  <2> SUFFICES ASSUME IInv, OrderInv, [Next]_vars PROVE OrderInv'
    OBVIOUS
  <2>1. CASE \E t \in {"rec", "put"} : Capture(t) \/ Refill(t)
    BY <2>1, CaptureOrder, RefillOrder
  <2>2. CASE Playback \/ PlayNothing \/ GetFrame
    BY <2>2, PlaybackOrder, PlayNothingOrder, GetFrameOrder
  <2>3. CASE Mix
    <3>1. UNCHANGED <<delay, lat, used, played>> /\ pc["play"] # "idle" /\ pc'["play"] # "idle"
      BY <2>3 DEF Mix, Goto, echoVars, IInv, TypeOK, Threads, Workers
    <3> QED
      BY <3>1, OrderKept
  <2>4. CASE \/ \E w \in Workers : Work(w) \/ TimesOut(w)
             \/ \E t \in {"rec", "put"} : CaptureTooEarly(t) \/ Forward(t)
             \/ Process \/ PutBuffered \/ PutDirect \/ PutFrame
    <3>1. UNCHANGED <<delay, lat, used, played>> /\ \E t \in Threads \ {"play"}, l \in Labels : Goto(t, l)
      BY <2>4 DEF Work, Test, TakeFrame, TakeNothing, Wake, TimesOut, CaptureTooEarly, Forward,
                  Process, PutBuffered, PutDirect, PutFrame, echoVars, Threads, Workers, Labels
    <3>2. pc'["play"] = pc["play"]
      BY <3>1 DEF Goto, IInv, TypeOK, Threads
    <3> QED
      BY <3>1, <3>2, OrderKept
  <2>5. CASE CleanSystem
    <3>1. UNCHANGED <<delay, lat, used, played, pc>>
      BY <2>5 DEF CleanSystem, CleanMonitor, CleanMaster, Exit, Signal, Join, Free, RemovePort,
                  StopStream, NoCallback, echoVars
    <3> QED
      BY <3>1, OrderKept
  <2>6. CASE UNCHANGED vars
    BY <2>6, OrderKept DEF vars, mainVars, echoVars
  <2> QED
    BY <2>1, <2>2, <2>3, <2>4, <2>5, <2>6 DEF Next, GoesOn, Cancel
<1> QED
  BY <1>1, <1>2, Invariance, PTL DEF Spec

\* The canceller's references are used in the order in which they were played and
\* never twice, for any latency and any length of the delay buffer.
THEOREM ReferencesUsedInOrder == Spec => []ReferencesInOrder
<1>1. IInv /\ OrderInv => ReferencesInOrder
  <2> SUFFICES ASSUME IInv, OrderInv PROVE ReferencesInOrder
    OBVIOUS
  <2>1. lat \in Seq(Nat) /\ delay \in Seq(Nat) /\ used \in Nat /\ played \in Nat
    BY DEF IInv, TypeOK
  <2>2. Stored \in Int /\ Stored <= played
    BY <2>1 DEF Stored
  <2>3. \A i \in 1 .. Len(lat) : lat[i] \in Frames(lat) /\ lat[i] \in Nat
    BY <2>1 DEF Frames
  <2>4. \A i \in 1 .. Len(delay) : delay[i] \in Frames(delay) /\ delay[i] \in Nat
    BY <2>1 DEF Frames
  <2>5. Waiting(lat) /\ Waiting(delay)
    BY <2>1, <2>2, <2>3, <2>4 DEF OrderInv, Waiting
  <2> QED
    BY <2>3, <2>4, <2>5 DEF OrderInv, ReferencesInOrder
<1> QED
  BY <1>1, Invariance, OrderInvariance, PTL

-----------------------------------------------------------------------------
(* Joining the workers: what TakenApart rests on.                           *)

\* clean_system() waits for worker w.
Joining(w) == stage = IF w = "mon" THEN "monJoin" ELSE "putJoin"

\* It has set m_exit before, and then the event: a worker that did not see the one
\* will see the other.
ToldInv ==
    /\ stage \in {"monSignal", "monJoin"} => exit["mon"]
    /\ stage \in {"putSignal", "putJoin"} => exit["put"]
    /\ \A w \in Workers : Joining(w) /\ pc[w] \in {"take", "wait"} => event[w]

\* The steps that a worker makes at most until it sees m_exit and is done.
WorkToGo == [take |-> 5, cancel |-> 4, refill |-> 3, forward |-> 2, process |-> 2,
             wait |-> 2, top |-> 1, done |-> 0]

\* The frame that the worker has begun has another piece.
NextPiece(w) == pc[w] = "refill" /\ pc'[w] = "cancel" /\ captured' = captured + 1

\* A worker that is joined never sits in a wait that has to time out: it can go on
\* until it is done, and each of its steps brings it nearer to that, or to the end of the
\* frame it has begun.
NearerToJoin ==
    \A w \in Workers : Joining(w) =>
        /\ pc[w] = "wait" => event[w]
        /\ \/ pc'[w] = pc[w] /\ ~GoesOn(w)
           \/ NextPiece(w)
           \/ WorkToGo[pc'[w]] < WorkToGo[pc[w]]

\* Entry by entry.
LEMMA WorkToGoIs ==
    /\ WorkToGo["take"] = 5 /\ WorkToGo["cancel"] = 4 /\ WorkToGo["refill"] = 3
    /\ WorkToGo["forward"] = 2 /\ WorkToGo["process"] = 2 /\ WorkToGo["wait"] = 2
    /\ WorkToGo["top"] = 1 /\ WorkToGo["done"] = 0
  BY DEF WorkToGo

\* Where a step of a worker leads, and what it does to its event.
LEMMA WorkerMoves ==
    ASSUME IInv, NEW w \in Workers, GoesOn(w) \/ TimesOut(w)
    PROVE  /\ UNCHANGED <<stage, exit>>
           /\ \A t \in Threads \ {w} : pc'[t] = pc[t]
           /\ \A u \in Workers \ {w} : event'[u] = event[u]
           /\ \/ /\ event'[w] = event[w]
                 /\ \/ pc[w] = "top" /\ pc'[w] = IF exit[w] THEN "done" ELSE "take"
                    \/ pc[w] = "take" /\ pc'[w] \in {"cancel", "process", "wait"}
                    \/ pc[w] = "cancel" /\ pc'[w] \in {"refill", "forward"}
                    \/ pc[w] = "refill" /\ pc'[w] = "forward"
                    \/ pc[w] = "refill" /\ pc'[w] = "cancel" /\ captured' = captured + 1
                    \/ pc[w] \in {"forward", "process"} /\ pc'[w] = "top"
              \/ pc[w] = "wait" /\ event[w] /\ pc'[w] = "top"
              \/ pc[w] = "wait" /\ ~event[w] /\ ~GoesOn(w) /\ pc'[w] = "top" /\ event'[w] = event[w]
<1> USE DEF IInv, TypeOK, Threads, Workers, Goto, mainVars, workVars, echoVars
<1>1. CASE Test(w) \/ TakeFrame(w) \/ TakeNothing(w)
  BY <1>1 DEF Test, TakeFrame, TakeNothing
<1>2. CASE Wake(w)
  BY <1>2 DEF Wake
<1>3. CASE CaptureTooEarly(w) \/ Capture(w) \/ Refill(w) \/ Forward(w)
  BY <1>3 DEF CaptureTooEarly, Capture, Refill, Forward
<1>4. CASE Process /\ w = "mon"
  BY <1>4 DEF Process
<1>5. CASE TimesOut(w)
  <2>1. ~GoesOn(w)
    BY <1>5 DEF TimesOut, GoesOn, Work, Test, TakeFrame, TakeNothing, Wake, Cancel,
                CaptureTooEarly, Capture, Refill, Forward, Process
  <2> QED
    BY <1>5, <2>1 DEF TimesOut
<1> QED
  BY <1>1, <1>2, <1>3, <1>4, <1>5 DEF GoesOn, Work, Cancel

\* The other threads leave the workers where they are, and take no event away.
LEMMA OthersLeaveWorkers ==
    ASSUME IInv, NEW w \in Workers,
           \/ PutFrame \/ GetFrame \/ PutBuffered \/ PutDirect \/ Mix \/ Playback \/ PlayNothing
           \/ Cancel("rec")
    PROVE  UNCHANGED <<stage, exit>> /\ pc'[w] = pc[w] /\ (event[w] => event'[w])
<1> USE DEF IInv, TypeOK, Threads, Workers, Goto, mainVars, workVars, echoVars
<1>1. CASE PutFrame \/ GetFrame \/ PutDirect
  BY <1>1 DEF PutFrame, GetFrame, PutDirect
<1>2. CASE PutBuffered \/ Mix
  BY <1>2 DEF PutBuffered, Mix, Write
<1>3. CASE Playback \/ PlayNothing
  BY <1>3 DEF Playback, PlayNothing
<1>4. CASE Cancel("rec")
  BY <1>4 DEF Cancel, CaptureTooEarly, Capture, Refill, Forward
<1> QED
  BY <1>1, <1>2, <1>3, <1>4

\* clean_system() sets m_exit, then the event, then waits.
LEMMA CleanTells == ASSUME IInv, ToldInv, CleanSystem PROVE ToldInv' /\ pc' = pc
<1> USE DEF IInv, TypeOK, ToldInv, Joining, Workers, NoCallback, Step
<1>1. CASE Exit("mon", "up", "monSignal") \/ Exit("put", "masterExit", "putSignal")
  BY <1>1 DEF Exit
<1>2. CASE Signal("mon", "monSignal", "monJoin") \/ Signal("put", "putSignal", "putJoin")
  BY <1>2 DEF Signal
<1>3. CASE Join("mon", "monJoin", "monSocket") \/ Join("put", "putJoin", "masterFree")
  BY <1>3 DEF Join
<1>4. CASE \/ Free("monSocket", "monSocket", "monGain") \/ Free("monGain", "monGain", "monPort")
           \/ RemovePort \/ Free("monBuffer", "monBuffer", "playStop")
           \/ Free("master", "masterFree", "down")
  BY <1>4 DEF Free, RemovePort
<1>5. CASE StopStream("play", "playStop", "recStop") \/ StopStream("rec", "recStop", "masterExit")
  BY <1>5 DEF StopStream
<1> QED
  BY <1>1, <1>2, <1>3, <1>4, <1>5 DEF CleanSystem, CleanMonitor, CleanMaster

\* Whose step a step is.
LEMMA WhoSteps ==
    ASSUME [Next]_vars
    PROVE  \/ \E u \in Workers : GoesOn(u) \/ TimesOut(u)
           \/ PutFrame \/ GetFrame \/ PutBuffered \/ PutDirect \/ Mix \/ Playback \/ PlayNothing
           \/ Cancel("rec")
           \/ CleanSystem
           \/ UNCHANGED vars
<1>1. ASSUME NEW t \in Threads, GoesOn(t), t \notin Workers
      PROVE  PutBuffered \/ PutDirect \/ Mix \/ Playback \/ PlayNothing
           \/ Cancel("rec")
  BY <1>1 DEF GoesOn, Threads, Workers
<1> QED
  BY <1>1 DEF Next

\* No step of a thread takes away what it was told.
LEMMA ToldStep == ASSUME IInv, ToldInv, [Next]_vars PROVE ToldInv'
<1>1. ASSUME NEW u \in Workers, GoesOn(u) \/ TimesOut(u) PROVE ToldInv'
  <2>1. stage' = stage /\ exit' = exit
    BY <1>1, WorkerMoves
  <2>2. ASSUME NEW w \in Workers, Joining(w), pc'[w] \in {"take", "wait"} PROVE event'[w]
    <3>1. exit[w]
      BY <2>2 DEF ToldInv, Joining, Workers
    <3>2. CASE w = u
      BY <1>1, <2>2, <3>1, <3>2, WorkerMoves DEF ToldInv
    <3>3. CASE w # u
      <4>1. pc'[w] = pc[w] /\ event'[w] = event[w]
        BY <1>1, <3>3, WorkerMoves DEF Threads
      <4> QED
        BY <2>2, <4>1 DEF ToldInv
    <3> QED
      BY <3>2, <3>3
  <2> QED
    BY <2>1, <2>2 DEF ToldInv, Joining
<1>2. CASE PutFrame \/ GetFrame \/ PutBuffered \/ PutDirect \/ Mix \/ Playback \/ PlayNothing
           \/ Cancel("rec")
  <2>1. \A w \in Workers : pc'[w] = pc[w] /\ (event[w] => event'[w])
    BY <1>2, OthersLeaveWorkers
  <2>2. stage' = stage /\ exit' = exit
    BY <1>2, OthersLeaveWorkers DEF Workers
  <2> QED
    BY <2>1, <2>2 DEF ToldInv, Joining
<1>3. CASE CleanSystem
  BY <1>3, CleanTells
<1>4. CASE UNCHANGED vars
  BY <1>4 DEF ToldInv, Joining, vars, mainVars, workVars
<1> QED
  BY <1>1, <1>2, <1>3, <1>4, WhoSteps

\* clean_system() waits neither for the monitor's worker nor for the put thread until a
\* wait(1000) has timed out, whatever the two were doing when m_exit was set.
THEOREM JoinsNeedNoTimeout == Spec => [][NearerToJoin]_vars
<1>1. Init => ToldInv
  BY DEF Init, ToldInv, Joining, Workers
<1>2. IInv /\ ToldInv /\ [Next]_vars => ToldInv'
  BY ToldStep
<1>3. IInv /\ ToldInv /\ [Next]_vars => [NearerToJoin]_vars
  <2> SUFFICES ASSUME IInv, ToldInv, [Next]_vars, vars' # vars, NEW w \in Workers, Joining(w)
               PROVE  /\ pc[w] = "wait" => event[w]
                      /\ \/ pc'[w] = pc[w] /\ ~GoesOn(w)
                         \/ NextPiece(w)
                         \/ WorkToGo[pc'[w]] < WorkToGo[pc[w]]
    BY DEF NearerToJoin
  <2>1. exit[w] /\ (pc[w] \in {"take", "wait"} => event[w])
    BY DEF ToldInv, Joining, Workers
  <2>2. CASE GoesOn(w) \/ TimesOut(w)
    BY <2>1, <2>2, WorkerMoves, WorkToGoIs DEF NextPiece
  <2>3. CASE ~GoesOn(w) /\ \E u \in Workers \ {w} : GoesOn(u) \/ TimesOut(u)
    BY <2>1, <2>3, WorkerMoves DEF Threads
  <2>4. CASE /\ ~GoesOn(w)
             /\ \/ PutFrame \/ GetFrame \/ PutBuffered \/ PutDirect \/ Mix \/ Playback \/ PlayNothing
                \/ Cancel("rec")
    BY <2>1, <2>4, OthersLeaveWorkers
  <2>5. CASE ~GoesOn(w) /\ CleanSystem
    BY <2>1, <2>5, CleanTells
  <2> QED
    BY <2>2, <2>3, <2>4, <2>5, WhoSteps
<1> QED
  BY <1>1, <1>2, <1>3, Invariance, PTL DEF Spec

=============================================================================
