------------------------ MODULE ControllerLinkProofs ------------------------
(***************************************************************************)
(* Theorems about ControllerLink, for any number of threads that set       *)
(* outputs, any bounds and any loss of packets.                            *)
(***************************************************************************)
EXTENDS ControllerLink, TLAPS

BoardPackets == [cmd : {"ver", "ping", "get_istat", "relay"}, n : 0..MaxStores]
HostPackets == [cmd : {"ver", "istat", "ack", "none"}, n : 0..1]

\* What is on the line, and in the worker's hands, is a packet of the protocol.
LineInv ==
    /\ toBoard \in Seq(BoardPackets) /\ toHost \in Seq(HostPackets)
    /\ got \in HostPackets

\* A thread that writes holds the lock, under which the port stays as it found it.
LockInv ==
    \A p \in Procs : pc[p] = "write" => lock = p /\ port /\ ~just_opened

\* The types of TypeOK by name.
Places == {"idle", "top", "build", "send", "write", "handle", "end"}
BoardState ==
    [standalone : BOOLEAN, outputs : 0..1, lastOutputs : {0, 1, Unknown},
     inputs : 0..1, lastInputs : {0, 1, Unknown}, relay : 0..1]

IInv == TypeOK /\ LineInv /\ LockInv

-----------------------------------------------------------------------------
(* Lemmas *)

\* The bounds are numbers; in particular there is a packet without a value.
LEMMA Bounds ==
    /\ Cap \in Nat /\ MaxStores \in Nat /\ Worker \notin Setters
    /\ 0 \in 0..MaxStores /\ -1 \in -1..MaxStores
  BY ControllerLinkAssumption

\* A number switches the relay on or off.
LEMMA OnType == ASSUME NEW n \in Nat PROVE On(n) \in 0..1
  BY DEF On

\* What the board answers to a packet is a packet for the host.
LEMMA AnswerType ==
    ASSUME TypeOK, NEW p \in BoardPackets
    PROVE  Answer(p) \in HostPackets
<1>1. b.inputs \in 0..1
  BY DEF TypeOK
<1> QED
  BY <1>1 DEF Answer, BoardPackets, HostPackets, Packet, Input

\* The head and the tail of a line that is not empty.
LEMMA LineHead ==
    ASSUME NEW S, NEW q \in Seq(S), q # <<>>
    PROVE  Head(q) \in S /\ Tail(q) \in Seq(S)
  OBVIOUS

\* What the board sends lengthens the line or is gone.
LEMMA ToHostType ==
    ASSUME toHost \in Seq(HostPackets), NEW p \in HostPackets, ToHost(p)
    PROVE  toHost' \in Seq(HostPackets)
  BY DEF ToHost

-----------------------------------------------------------------------------
(* The inductive invariant *)

(* The line starts with the invariant. *)
LEMMA InitIInv == Init => IInv
<1> SUFFICES ASSUME Init PROVE IInv
  OBVIOUS
<1> USE Bounds
<1>1. TypeOK
  <2>1. Boards(early) \subseteq BoardState
    BY DEF Boards, BoardState
  <2>2. pc \in [Procs -> Places]
    BY DEF Init, Places
  <2>3. pkt \in [Procs -> 0..MaxStores]
    BY DEF Init
  <2>4. port \in BOOLEAN /\ just_opened \in BOOLEAN /\ exit \in BOOLEAN
    BY DEF Init
  <2>5. b \in BoardState
    BY <2>1 DEF Init
  <2>6. /\ lock \in Procs \cup {"free"} /\ spc \in {"loop", "reset"}
        /\ doubt \subseteq {"lost", "overtaken", "forgotten"}
    BY DEF Init
  <2>7. /\ m_relay \in 0..MaxStores /\ applied \in -1..MaxStores
        /\ m_last_input \in 0..1 /\ button \in 0..1
    BY DEF Init
  <2> QED
    BY <2>2, <2>3, <2>4, <2>5, <2>6, <2>7 DEF TypeOK, BoardState, Places
<1>2. LineInv
  BY DEF Init, LineInv, BoardPackets, HostPackets, Packet
<1>3. LockInv
  <2>1. \A p \in Procs : pc[p] # "write"
    BY DEF Init
  <2> QED
    BY <2>1 DEF LockInv
<1> QED
  BY <1>1, <1>2, <1>3 DEF IInv

\* Closing the port changes little.
LEMMA CloseTypes == ASSUME TypeOK, LineInv, ClosePort PROVE TypeOK' /\ LineInv'
<1>1. port' \in BOOLEAN
  BY DEF ClosePort
<1>2. UNCHANGED <<pc, pkt, lock, just_opened, exit, m_relay, m_last_input, got, toBoard,
                  b, spc, button, doubt, applied>>
  BY DEF ClosePort
<1>3. TypeOK'
  BY <1>1, <1>2 DEF TypeOK
<1>4. toHost' \in Seq(HostPackets)
  BY DEF ClosePort
<1> QED
  BY <1>2, <1>3, <1>4 DEF LineInv

\* What the board leaves alone keeps its type.
LEMMA BoardStep ==
    ASSUME TypeOK, LineInv, BoardUnchanged,
           b' \in BoardState, spc' \in {"loop", "reset"},
           doubt' \subseteq {"lost", "overtaken", "forgotten"}, applied' \in -1..MaxStores,
           toBoard' \in Seq(BoardPackets), toHost' \in Seq(HostPackets)
    PROVE  TypeOK' /\ LineInv'
<1>1. UNCHANGED <<hostVars, button>>
  BY DEF BoardUnchanged
<1>2. TypeOK'
  BY <1>1 DEF TypeOK, hostVars, BoardState
<1> QED
  BY <1>1, <1>2 DEF LineInv, hostVars

\* A board that misses its host, or starts anew.
LEMMA TimeoutTypes == ASSUME TypeOK, LineInv, HostTimeout PROVE TypeOK' /\ LineInv'
<1>1. b \in BoardState
  BY DEF TypeOK, BoardState
<1>2. b' = [b EXCEPT !.outputs = 0, !.inputs = 0, !.lastOutputs = Unknown,
                     !.lastInputs = Unknown]
  BY DEF HostTimeout
<1>3. b' \in BoardState
  <2>1. b' = [standalone |-> b.standalone, outputs |-> 0, lastOutputs |-> Unknown,
              inputs |-> 0, lastInputs |-> Unknown, relay |-> b.relay]
    BY <1>1, <1>2 DEF BoardState
  <2>2. b.standalone \in BOOLEAN /\ b.relay \in 0..1
    BY <1>1 DEF BoardState
  <2> QED
    BY <2>1, <2>2 DEF BoardState
<1>4. spc' = "reset" /\ doubt' = doubt \cup {"forgotten"}
      /\ UNCHANGED <<toBoard, toHost, applied>> /\ BoardUnchanged
  BY DEF HostTimeout
<1>5. doubt \subseteq {"lost", "overtaken", "forgotten"} /\ applied \in -1..MaxStores
  BY DEF TypeOK
<1> QED
  BY <1>3, <1>4, <1>5, BoardStep DEF LineInv

\* A turn of the controller thread.
LEMMA TurnTypes == ASSUME TypeOK, LineInv, ControllerTurn PROVE TypeOK' /\ LineInv'
<1>1. b \in BoardState /\ button \in 0..1
  BY DEF TypeOK, BoardState
<1>2. CASE b.standalone
  <2>1. b' = [b EXCEPT !.relay = button]
    BY <1>2 DEF ControllerTurn
  <2>2. b' \in BoardState
    BY <1>1, <2>1 DEF BoardState
  <2> QED
    BY <2>2, BoardStep DEF ControllerTurn, TypeOK, LineInv
<1>3. CASE ~b.standalone
  <2>1. Sampled \subseteq 0..1
    BY <1>1 DEF Sampled, BoardState
  <2>2. PICK v \in 0..1 :
          b' = [b EXCEPT !.relay = IF b.outputs # b.lastOutputs THEN b.outputs ELSE @,
                         !.lastOutputs = b.outputs, !.inputs = v]
    BY <1>3, <2>1 DEF ControllerTurn
  <2>3. b' \in BoardState
    <3> DEFINE r == IF b.outputs # b.lastOutputs THEN b.outputs ELSE b.relay
    <3>1. b' = [standalone |-> b.standalone, outputs |-> b.outputs,
                lastOutputs |-> b.outputs, inputs |-> v, lastInputs |-> b.lastInputs,
                relay |-> r]
      BY <1>1, <2>2 DEF BoardState
    <3>2. /\ r \in 0..1 /\ b.standalone \in BOOLEAN /\ b.outputs \in 0..1
          /\ b.lastInputs \in {0, 1, Unknown}
      BY <1>1 DEF BoardState
    <3> QED
      BY <3>1, <3>2 DEF BoardState
  <2> QED
    BY <2>3, BoardStep DEF ControllerTurn, TypeOK, LineInv
<1> QED
  BY <1>2, <1>3

\* What a step of the intercom's threads makes of the types.
LEMMA HostTypes ==
    ASSUME TypeOK, LineInv
    PROVE  \/ \E p \in Setters : Store(p)
           \/ \E p \in Procs : Thread(p)
           \/ UpdateInputs \/ OpenPort \/ ClosePort \/ Ask \/ Receive \/ HandlePacket
           \/ Destroy \/ WorkerEnds
           => TypeOK' /\ LineInv'
<1> USE Bounds DEF TypeOK, LineInv
<1>1. ASSUME NEW p \in Setters, Store(p) PROVE TypeOK' /\ LineInv'
  BY <1>1 DEF Store, Goto, Procs, history
<1>2. ASSUME NEW p \in Procs, Build(p) PROVE TypeOK' /\ LineInv'
  BY <1>2 DEF Build, Goto, history
<1>3. ASSUME NEW p \in Procs, Send(p) PROVE TypeOK' /\ LineInv'
  BY <1>3 DEF Send, Goto, After, history
<1>4. ASSUME NEW p \in Procs, Write(p) PROVE TypeOK' /\ LineInv'
  <2>1. Relay(pkt[p]) \in BoardPackets
    BY DEF Relay, BoardPackets
  <2> QED
    BY <1>4, <2>1 DEF Write, Goto, After, history
<1>5. ASSUME UpdateInputs PROVE TypeOK' /\ LineInv'
  <2>1. Packet("get_istat") \in BoardPackets
    BY DEF Packet, BoardPackets
  <2> QED
    BY <1>5, <2>1 DEF UpdateInputs, hostVars, history
<1>6. ASSUME OpenPort PROVE TypeOK' /\ LineInv'
  <2>1. Packet("ver") \in BoardPackets
    BY DEF Packet, BoardPackets
  <2> QED
    BY <1>6, <2>1 DEF OpenPort, history
<1>7. ASSUME ClosePort PROVE TypeOK' /\ LineInv'
  BY <1>7, CloseTypes
<1>8. ASSUME Ask PROVE TypeOK' /\ LineInv'
  <2>1. Packet("ver") \in BoardPackets /\ Packet("ping") \in BoardPackets
    BY DEF Packet, BoardPackets
  <2> QED
    BY <1>8, <2>1 DEF Ask, hostVars, history
<1>9. ASSUME Receive PROVE TypeOK' /\ LineInv'
  <2>1. Head(toHost) \in HostPackets /\ Tail(toHost) \in Seq(HostPackets)
    BY <1>9, LineHead DEF Receive
  <2> QED
    BY <1>9, <2>1 DEF Receive, Goto, Procs, history
<1>10. ASSUME HandlePacket PROVE TypeOK' /\ LineInv'
  <2>1. got.n \in 0..1 /\ Packet("none") \in HostPackets
    BY DEF Packet, HostPackets
  <2> QED
    BY <1>10, <2>1 DEF HandlePacket, Goto, Procs, history
<1>11. ASSUME Destroy PROVE TypeOK' /\ LineInv'
  BY <1>11 DEF Destroy, history
<1>12. ASSUME WorkerEnds PROVE TypeOK' /\ LineInv'
  BY <1>12 DEF WorkerEnds, Goto, Procs
<1> QED
  BY <1>1, <1>2, <1>3, <1>4, <1>5, <1>6, <1>7, <1>8, <1>9, <1>10, <1>11, <1>12 DEF Thread

\* What a step of the board, the visitor or the line makes of the types.
LEMMA BoardTypes ==
    ASSUME TypeOK, LineInv
    PROVE  Board \/ HostTimeout \/ Restart \/ ControllerTurn
           \/ Press \/ LoseToBoard \/ LoseToHost
           => TypeOK' /\ LineInv'
<1> USE Bounds DEF TypeOK, LineInv
<1>1. ASSUME Report PROVE TypeOK' /\ LineInv'
  <2>1. Input(b.inputs) \in HostPackets
    BY DEF Input, HostPackets
  <2>2. toHost' \in Seq(HostPackets)
    BY <1>1, <2>1, ToHostType DEF Report
  <2>3. b' \in BoardState
    <3> HIDE DEF TypeOK, LineInv
    <3>1. b \in BoardState /\ b' = [b EXCEPT !.lastInputs = b.inputs]
      BY <1>1 DEF Report, TypeOK, BoardState
    <3>2. b.inputs \in {0, 1, Unknown}
      BY <3>1 DEF BoardState
    <3> QED
      BY <3>1, <3>2 DEF BoardState
  <2> QED
    BY <1>1, <2>2, <2>3 DEF Report, BoardUnchanged, hostVars, BoardState
<1>2. ASSUME Wake PROVE TypeOK' /\ LineInv'
  BY <1>2 DEF Wake, BoardUnchanged, hostVars, history
<1>3. ASSUME TakePacket PROVE TypeOK' /\ LineInv'
  <2>1. Head(toBoard) \in BoardPackets /\ Tail(toBoard) \in Seq(BoardPackets)
    BY <1>3, LineHead DEF TakePacket
  <2>2. toHost' \in Seq(HostPackets)
    BY <1>3, <2>1, AnswerType, ToHostType DEF TakePacket
  <2>3. Head(toBoard).n \in 0..MaxStores
    BY <2>1 DEF BoardPackets
  <2>4. On(Head(toBoard).n) \in 0..1
    BY <2>3, OnType
  <2>5. b' \in BoardState
    BY <1>3, <2>4 DEF TakePacket, BoardState
  <2>6. applied' \in {applied, Head(toBoard).n}
    BY <1>3 DEF TakePacket
  <2>7. applied' \in -1..MaxStores
    BY <2>3, <2>6
  <2>8. doubt' \subseteq {"lost", "overtaken", "forgotten"}
    BY <1>3 DEF TakePacket
  <2> QED
    BY <1>3, <2>1, <2>2, <2>5, <2>7, <2>8
    DEF TakePacket, BoardUnchanged, hostVars, BoardState
<1>4. ASSUME HostTimeout PROVE TypeOK' /\ LineInv'
  BY <1>4, TimeoutTypes
<1>5. ASSUME GoStandalone PROVE TypeOK' /\ LineInv'
  BY <1>5 DEF GoStandalone, BoardUnchanged, hostVars, history
<1>6. ASSUME Restart PROVE TypeOK' /\ LineInv'
  BY <1>6 DEF Restart, Boot, BoardUnchanged, hostVars
<1>7. ASSUME ControllerTurn PROVE TypeOK' /\ LineInv'
  BY <1>7, TurnTypes
<1>8. ASSUME Press PROVE TypeOK' /\ LineInv'
  BY <1>8 DEF Press, hostVars, history
<1>9. ASSUME LoseToBoard PROVE TypeOK' /\ LineInv'
  <2>1. Tail(toBoard) \in Seq(BoardPackets)
    BY <1>9, LineHead DEF LoseToBoard
  <2> QED
    BY <1>9, <2>1 DEF LoseToBoard, hostVars
<1>10. ASSUME LoseToHost PROVE TypeOK' /\ LineInv'
  <2>1. Tail(toHost) \in Seq(HostPackets)
    BY <1>10, LineHead DEF LoseToHost
  <2> QED
    BY <1>10, <2>1 DEF LoseToHost, hostVars
<1> QED
  BY <1>1, <1>2, <1>3, <1>4, <1>5, <1>6, <1>7, <1>8, <1>9, <1>10 DEF Board

\* Nobody takes the lock of a thread that writes, and nobody closes its port or opens
\* another without the lock.
LEMMA StepLock == ASSUME IInv, Next PROVE LockInv'
<1> USE DEF LockInv
<1>0. pc \in [Procs -> Places] /\ "free" \notin Procs /\ Worker \in Procs
      /\ Setters \subseteq Procs
  BY ControllerLinkAssumption DEF IInv, TypeOK, Places, Procs
<1>l. LockInv
  BY DEF IInv
<1>1. ASSUME NEW p \in Setters, Store(p) PROVE LockInv'
  BY <1>0, <1>l, <1>1 DEF Store, Goto
<1>2. ASSUME NEW p \in Procs, Build(p) PROVE LockInv'
  BY <1>0, <1>l, <1>2 DEF Build, Goto
<1>3. ASSUME NEW p \in Procs, Send(p) PROVE LockInv'
  <2>1. \A r \in Procs : pc[r] # "write"
    BY <1>0, <1>l, <1>3 DEF Send
  <2>2. ASSUME NEW r \in Procs, pc'[r] = "write" PROVE lock' = r /\ port' /\ ~just_opened'
    BY <1>0, <1>3, <2>1, <2>2 DEF Send, Goto, After
  <2> QED
    BY <2>2
<1>4. ASSUME NEW p \in Procs, Write(p) PROVE LockInv'
  <2>1. \A r \in Procs : r # p => pc[r] # "write"
    BY <1>0, <1>l, <1>4 DEF Write
  <2>2. \A r \in Procs : pc'[r] # "write"
    BY <1>0, <1>4, <2>1 DEF Write, Goto, After
  <2> QED
    BY <2>2
<1>5. ASSUME OpenPort \/ ClosePort PROVE LockInv'
  <2>1. \A r \in Procs : pc[r] # "write"
    BY <1>0, <1>l, <1>5 DEF OpenPort, ClosePort
  <2> QED
    BY <1>5, <2>1 DEF OpenPort, ClosePort
<1>6. ASSUME Receive PROVE LockInv'
  BY <1>0, <1>l, <1>6 DEF Receive, Goto
<1>7. ASSUME HandlePacket PROVE LockInv'
  BY <1>0, <1>l, <1>7 DEF HandlePacket, Goto
<1>8. ASSUME WorkerEnds PROVE LockInv'
  BY <1>0, <1>l, <1>8 DEF WorkerEnds, Goto
<1>9. ASSUME UNCHANGED <<pc, lock, port, just_opened>> PROVE LockInv'
  BY <1>l, <1>9
<1>10. ASSUME UpdateInputs \/ Ask \/ Destroy PROVE LockInv'
  BY <1>9, <1>10 DEF UpdateInputs, Ask, Destroy, hostVars
<1>11. ASSUME Board \/ HostTimeout \/ Restart \/ ControllerTurn PROVE LockInv'
  <2>1. BoardUnchanged
    BY <1>11 DEF Board, Report, Wake, TakePacket, GoStandalone, HostTimeout, Restart,
                 ControllerTurn
  <2> QED
    BY <1>9, <2>1 DEF BoardUnchanged, hostVars
<1>12. ASSUME Press \/ LoseToBoard \/ LoseToHost PROVE LockInv'
  BY <1>9, <1>12 DEF Press, LoseToBoard, LoseToHost, hostVars
<1> QED
  BY <1>1, <1>2, <1>3, <1>4, <1>5, <1>6, <1>7, <1>8, <1>10, <1>11, <1>12 DEF Next, Thread

(* No step of the intercom, the board or the line breaks the invariant. *)
LEMMA StepIInv == ASSUME IInv, [Next]_vars PROVE IInv'
<1>1. CASE Next
  <2>1. TypeOK' /\ LineInv'
    BY <1>1, HostTypes, BoardTypes DEF IInv, Next
  <2> QED
    BY <1>1, <2>1, StepLock DEF IInv
<1>2. CASE UNCHANGED vars
  <2>1. TypeOK'
    BY <1>2 DEF IInv, TypeOK, vars, hostVars, history
  <2>2. LineInv' /\ LockInv'
    BY <1>2 DEF IInv, LineInv, LockInv, vars, hostVars
  <2> QED
    BY <2>1, <2>2 DEF IInv
<1> QED
  BY <1>1, <1>2

-----------------------------------------------------------------------------
(* The relay, the inputs and the outputs *)

\* The relay shows the output that was applied last.  Before the board serves itself
\* it forgets which one that was, unless a turn came between the two writes.
RelayInv ==
    /\ ~b.standalone /\ spc = "loop" /\ ~early /\ b.lastOutputs # Unknown
         => b.relay = b.lastOutputs
    /\ b.standalone \/ spc = "reset" => early \/ b.lastOutputs = Unknown

\* The intercom knows v, or will when it has read what is on the line, q, and what the
\* worker holds, g; it was told m before.
LastInput(q, i) == q[i].cmd = "istat" /\ \A j \in (i + 1)..Len(q) : q[j].cmd # "istat"
Told(v, q, g, m) ==
    /\ \A i \in 1..Len(q) : LastInput(q, i) => q[i].n = v
    /\ ~HasInput(q) => v = IF g.cmd = "istat" THEN g.n ELSE m

\* What does not concern the board leaves it as it is.
LEMMA HostKeepsBoard ==
    ASSUME Next, ~Board, ~HostTimeout, ~Restart, ~ControllerTurn
    PROVE  UNCHANGED <<b, spc, early>>
<1>1. CASE \E p \in Setters : Store(p)
  BY <1>1 DEF Store, history
<1>2. CASE \E p \in Procs : Thread(p)
  BY <1>2 DEF Thread, Build, Send, Write, history
<1>3. CASE UpdateInputs \/ OpenPort \/ Ask \/ Receive \/ HandlePacket \/ Destroy
  BY <1>3 DEF UpdateInputs, OpenPort, Ask, Receive, HandlePacket, Destroy, history
<1>4. CASE ClosePort \/ WorkerEnds
  BY <1>4 DEF ClosePort, WorkerEnds
<1>5. CASE Press \/ LoseToBoard \/ LoseToHost
  BY <1>5 DEF Press, LoseToBoard, LoseToHost, history
<1> QED
  BY <1>1, <1>2, <1>3, <1>4, <1>5 DEF Next

\* A turn of the controller thread moves the relay with the output, and one between the
\* two writes of the serial thread is remembered.
LEMMA StepRelay == ASSUME IInv, RelayInv, [Next]_vars PROVE RelayInv'
<1>0. b \in BoardState /\ spc \in {"loop", "reset"}
  BY DEF IInv, TypeOK, BoardState
<1>1. CASE Report
  <2>1. b' = [b EXCEPT !.lastInputs = b.inputs] /\ UNCHANGED <<spc, early>>
    BY <1>1 DEF Report
  <2>2. /\ b'.standalone = b.standalone /\ b'.lastOutputs = b.lastOutputs
        /\ b'.relay = b.relay
    BY <1>0, <2>1 DEF BoardState
  <2> QED
    BY <2>1, <2>2 DEF RelayInv
<1>2. CASE Wake \/ GoStandalone
  <2>1. /\ b'.lastOutputs = b.lastOutputs /\ b'.relay = b.relay /\ early' = early
        /\ Wake => b.standalone /\ spc = "loop" /\ ~b'.standalone /\ spc' = "loop"
        /\ GoStandalone => spc = "reset" /\ b'.standalone /\ spc' = "loop"
    BY <1>0, <1>2 DEF Wake, GoStandalone, BoardState, history
  <2> QED
    BY <1>2, <2>1 DEF RelayInv
<1>3. CASE TakePacket
  <2>1. /\ b'.standalone = b.standalone /\ b'.lastOutputs = b.lastOutputs
        /\ b'.relay = b.relay /\ UNCHANGED <<spc, early>>
    BY <1>0, <1>3 DEF TakePacket, BoardState
  <2> QED
    BY <2>1 DEF RelayInv
<1>4. CASE HostTimeout \/ Restart
  <2>1. ASSUME HostTimeout PROVE b'.lastOutputs = Unknown
    BY <1>0, <2>1 DEF HostTimeout, BoardState
  <2>2. ASSUME Restart PROVE b'.lastOutputs = Unknown
    BY <2>2 DEF Restart, Boot
  <2> QED
    BY <1>4, <2>1, <2>2 DEF RelayInv
<1>5. CASE ControllerTurn
  <2>0. UNCHANGED spc
    BY <1>5 DEF ControllerTurn
  <2>1. CASE b.standalone
    <3>1. b'.standalone = b.standalone /\ b'.lastOutputs = b.lastOutputs /\ early' = early
      BY <1>0, <1>5, <2>1 DEF ControllerTurn, BoardState
    <3> QED
      BY <2>0, <2>1, <3>1 DEF RelayInv
  <2>2. CASE ~b.standalone
    <3> DEFINE r == IF b.outputs # b.lastOutputs THEN b.outputs ELSE b.relay
    <3>1. PICK v \in Sampled :
            b' = [b EXCEPT !.relay = r, !.lastOutputs = b.outputs, !.inputs = v]
      BY <1>5, <2>2 DEF ControllerTurn
    <3>2. ~b'.standalone /\ b'.lastOutputs = b.outputs /\ b'.relay = r
      BY <1>0, <2>2, <3>1 DEF BoardState
    <3>3. early' <=> spc = "reset" \/ (early /\ b.outputs = b.lastOutputs)
      BY <1>5, <2>2 DEF ControllerTurn
    <3>4. b.outputs # Unknown
      BY <1>0 DEF BoardState, Unknown
    <3>5. spc = "loop" /\ ~early' => b'.relay = b'.lastOutputs
      <4>1. CASE b.outputs # b.lastOutputs
        BY <3>2, <4>1
      <4>2. CASE b.outputs = b.lastOutputs
        BY <2>2, <3>2, <3>3, <3>4, <4>2 DEF RelayInv
      <4> QED
        BY <4>1, <4>2
    <3>6. spc = "reset" => early'
      BY <3>3
    <3> QED
      BY <2>0, <3>2, <3>5, <3>6 DEF RelayInv
  <2> QED
    BY <2>1, <2>2
<1>6. CASE UNCHANGED <<b, spc, early>>
  BY <1>6 DEF RelayInv
<1>7. CASE UNCHANGED vars
  BY <1>6, <1>7 DEF vars, history
<1> QED
  BY <1>1, <1>2, <1>3, <1>4, <1>5, <1>6, <1>7, HostKeepsBoard DEF Board

\* What the board sends is the last the intercom is told, if it is about the inputs.
LEMMA ToldAppend ==
    ASSUME NEW q \in Seq(HostPackets), NEW p \in HostPackets, NEW v, NEW g, NEW m,
           \/ p.cmd = "istat" /\ p.n = v
           \/ p.cmd # "istat" /\ Told(v, q, g, m)
    PROVE  Told(v, Append(q, p), g, m)
<1> DEFINE a == Append(q, p)
<1>1. /\ Len(q) \in Nat /\ Len(a) = Len(q) + 1 /\ a[Len(q) + 1] = p
      /\ \A i \in 1..Len(q) : a[i] = q[i]
  OBVIOUS
<1> HIDE DEF a
<1>2. ASSUME p.cmd = "istat", p.n = v PROVE Told(v, a, g, m)
  <2>1. HasInput(a)
    BY <1>1, <1>2 DEF HasInput
  <2>2. ASSUME NEW i \in 1..Len(a), LastInput(a, i) PROVE a[i].n = v
    <3>1. i = Len(q) + 1
      <4> SUFFICES ASSUME i # Len(q) + 1 PROVE FALSE
        OBVIOUS
      <4>1. Len(q) + 1 \in (i + 1)..Len(a)
        BY <1>1
      <4> QED
        BY <1>1, <1>2, <2>2, <4>1 DEF LastInput
    <3> QED
      BY <1>1, <1>2, <3>1
  <2> QED
    BY <2>1, <2>2 DEF Told
<1>3. ASSUME p.cmd # "istat", Told(v, q, g, m) PROVE Told(v, a, g, m)
  <2>1. HasInput(a) <=> HasInput(q)
    BY <1>1, <1>3 DEF HasInput
  <2>2. ASSUME NEW i \in 1..Len(a), LastInput(a, i) PROVE a[i].n = v
    <3>1. i \in 1..Len(q)
      BY <1>1, <1>3, <2>2 DEF LastInput
    <3>2. LastInput(q, i)
      BY <1>1, <2>2, <3>1 DEF LastInput
    <3> QED
      BY <1>1, <1>3, <3>1, <3>2 DEF Told
  <2> QED
    BY <1>3, <2>1, <2>2 DEF Told
<1> QED
  BY <1>2, <1>3 DEF a

\* What the worker takes it holds, and what is lost was not about the inputs.
LEMMA ToldTail ==
    ASSUME NEW q \in Seq(HostPackets), q # <<>>, NEW v, NEW g, NEW m, Told(v, q, g, m)
    PROVE  /\ g.cmd # "istat" => Told(v, Tail(q), Head(q), m)
           /\ Head(q).cmd # "istat" => Told(v, Tail(q), g, m)
<1> DEFINE t == Tail(q)
<1>1. /\ Len(t) \in Nat /\ Len(q) = Len(t) + 1 /\ Head(q) = q[1]
      /\ \A i \in 1..Len(t) : t[i] = q[i + 1]
  OBVIOUS
<1> HIDE DEF t
<1>2. ASSUME NEW i \in 1..Len(t), LastInput(t, i) PROVE t[i].n = v
  <2>1. i + 1 \in 1..Len(q) /\ q[i + 1] = t[i]
    BY <1>1
  <2>2. ASSUME NEW j \in (i + 1 + 1)..Len(q) PROVE q[j].cmd # "istat"
    <3>1. j - 1 \in (i + 1)..Len(t) /\ j - 1 \in 1..Len(t) /\ (j - 1) + 1 = j
      BY <1>1
    <3>2. t[j - 1] = q[j]
      BY <1>1, <3>1
    <3> QED
      BY <1>2, <3>1, <3>2 DEF LastInput
  <2>3. LastInput(q, i + 1)
    BY <1>2, <2>1, <2>2 DEF LastInput
  <2> QED
    BY <2>1, <2>3 DEF Told
<1>3. HasInput(q) <=> q[1].cmd = "istat" \/ HasInput(t)
  <2>1. ASSUME NEW i \in 1..Len(t), t[i].cmd = "istat" PROVE HasInput(q)
    <3>1. i + 1 \in 1..Len(q) /\ q[i + 1].cmd = "istat"
      BY <1>1, <2>1
    <3> QED
      BY <3>1 DEF HasInput
  <2>2. ASSUME NEW i \in 1..Len(q), q[i].cmd = "istat", i # 1 PROVE HasInput(t)
    <3>1. i - 1 \in 1..Len(t) /\ (i - 1) + 1 = i
      BY <1>1, <2>2
    <3>2. t[i - 1] = q[i]
      BY <1>1, <3>1
    <3> QED
      BY <2>2, <3>1, <3>2 DEF HasInput
  <2> QED
    BY <1>1, <2>1, <2>2 DEF HasInput
<1>4. ASSUME ~HasInput(t), q[1].cmd = "istat" PROVE q[1].n = v
  <2>1. ASSUME NEW j \in 2..Len(q) PROVE q[j].cmd # "istat"
    <3>1. j - 1 \in 1..Len(t) /\ (j - 1) + 1 = j
      BY <1>1
    <3>2. t[j - 1] = q[j]
      BY <1>1, <3>1
    <3> QED
      BY <1>4, <3>1, <3>2 DEF HasInput
  <2>2. 1 \in 1..Len(q) /\ LastInput(q, 1)
    BY <1>1, <1>4, <2>1 DEF LastInput
  <2> QED
    BY <2>2 DEF Told
<1>5. g.cmd # "istat" => Told(v, t, Head(q), m)
  BY <1>1, <1>2, <1>3, <1>4 DEF Told
<1>6. Head(q).cmd # "istat" => Told(v, t, g, m)
  BY <1>1, <1>2, <1>3 DEF Told
<1> QED
  BY <1>5, <1>6 DEF t

\* The worker holds no packet when it begins a turn.
HandsEmpty == pc[Worker] = "top" => got.cmd = "none"

\* The worker looks at the packet it holds before it waits for the next one.
LEMMA StepHands == ASSUME IInv, HandsEmpty, [Next]_vars PROVE HandsEmpty'
<1> USE DEF HandsEmpty
<1>0. pc \in [Procs -> Places] /\ Worker \in Procs /\ Worker \notin Setters
      /\ Setters \subseteq Procs
  BY ControllerLinkAssumption DEF IInv, TypeOK, Places, Procs
<1>1. ASSUME NEW p \in Setters, Store(p) PROVE HandsEmpty'
  BY <1>0, <1>1 DEF Store, Goto
<1>2. ASSUME NEW p \in Procs, Thread(p) PROVE HandsEmpty'
  <2>1. pc'[Worker] = pc[Worker] \/ pc'[Worker] # "top"
    BY <1>0, <1>2 DEF Thread, Build, Send, Write, Goto, After
  <2> QED
    BY <1>2, <2>1 DEF Thread, Build, Send, Write
<1>3. ASSUME Receive PROVE HandsEmpty'
  <2>1. CASE just_opened /\ Head(toHost).cmd \notin {"ver", "istat"}
    BY <1>3, <2>1 DEF Receive
  <2>2. CASE ~(just_opened /\ Head(toHost).cmd \notin {"ver", "istat"})
    BY <1>0, <1>3, <2>2 DEF Receive, Goto
  <2> QED
    BY <2>1, <2>2
<1>4. ASSUME HandlePacket PROVE HandsEmpty'
  BY <1>4 DEF HandlePacket, Packet
<1>5. ASSUME WorkerEnds PROVE HandsEmpty'
  BY <1>0, <1>5 DEF WorkerEnds, Goto
<1>6. ASSUME UNCHANGED <<pc, got>> PROVE HandsEmpty'
  BY <1>6
<1>7. ASSUME UpdateInputs \/ OpenPort \/ ClosePort \/ Ask \/ Destroy PROVE HandsEmpty'
  BY <1>6, <1>7 DEF UpdateInputs, OpenPort, ClosePort, Ask, Destroy, hostVars
<1>8. ASSUME Board \/ HostTimeout \/ Restart \/ ControllerTurn PROVE HandsEmpty'
  <2>1. BoardUnchanged
    BY <1>8 DEF Board, Report, Wake, TakePacket, GoStandalone, HostTimeout, Restart,
                ControllerTurn
  <2> QED
    BY <1>6, <2>1 DEF BoardUnchanged, hostVars
<1>9. ASSUME Press \/ LoseToBoard \/ LoseToHost PROVE HandsEmpty'
  BY <1>6, <1>9 DEF Press, LoseToBoard, LoseToHost, hostVars
<1>10. ASSUME UNCHANGED vars PROVE HandsEmpty'
  BY <1>6, <1>10 DEF vars, hostVars
<1> QED
  BY <1>1, <1>2, <1>3, <1>4, <1>5, <1>7, <1>8, <1>9, <1>10 DEF Next

\* What the board has reported is known or on its way.
Reported == ~missed /\ b.lastInputs = b.inputs => Told(b.inputs, toHost, got, m_last_input)

\* Steps that leave what has been reported alone.
LEMMA ReportedKept ==
    ASSUME Reported, UNCHANGED <<toHost, got, m_last_input, missed>>,
           b'.lastInputs = b'.inputs => b.lastInputs = b.inputs /\ b'.inputs = b.inputs
    PROVE  Reported'
  BY DEF Reported

\* Every report is told in the order in which the board made it; what is lost with the
\* port or on the line leaves a mark.
LEMMA StepReported == ASSUME IInv, HandsEmpty, Reported, [Next]_vars PROVE Reported'
<1>0. /\ b \in BoardState /\ toHost \in Seq(HostPackets) /\ toBoard \in Seq(BoardPackets)
      /\ got \in HostPackets
  BY DEF IInv, TypeOK, BoardState, LineInv
<1>1. CASE \E p \in Setters : Store(p)
  BY <1>1, ReportedKept DEF Store, history
<1>2. CASE \E p \in Procs : Thread(p)
  BY <1>2, ReportedKept DEF Thread, Build, Send, Write, history
<1>3. CASE UpdateInputs \/ OpenPort \/ Ask \/ Destroy
  BY <1>3, ReportedKept DEF UpdateInputs, OpenPort, Ask, Destroy, history, hostVars
<1>4. CASE ClosePort \/ WorkerEnds
  <2>1. /\ toHost' = <<>> /\ UNCHANGED <<got, m_last_input, b>>
        /\ missed' = (missed \/ HasInput(toHost))
    BY <1>4 DEF ClosePort, WorkerEnds
  <2>2. ~missed' => ~missed /\ ~HasInput(toHost)
    BY <2>1
  <2>3. Told(b.inputs, toHost, got, m_last_input) /\ ~HasInput(toHost)
          => Told(b.inputs, <<>>, got, m_last_input)
    BY DEF Told
  <2> QED
    BY <2>1, <2>2, <2>3 DEF Reported
<1>5. CASE Receive
  <2>1. toHost # <<>> /\ toHost' = Tail(toHost) /\ got.cmd # "istat"
    BY <1>5 DEF Receive, HandsEmpty
  <2>2. UNCHANGED <<m_last_input, b, missed>>
    BY <1>5 DEF Receive, history
  <2>3. \/ got' = Head(toHost)
        \/ got' = got /\ Head(toHost).cmd # "istat"
    BY <1>5 DEF Receive
  <2>4. Told(b.inputs, toHost, got, m_last_input)
          => Told(b.inputs, toHost', got', m_last_input)
    BY <1>0, <2>1, <2>3, ToldTail
  <2> QED
    BY <2>2, <2>4 DEF Reported
<1>6. CASE HandlePacket
  <2>1. /\ m_last_input' = IF got.cmd = "istat" THEN got.n ELSE m_last_input
        /\ got' = Packet("none") /\ UNCHANGED <<toHost, b, missed>>
    BY <1>6 DEF HandlePacket, history
  <2>2. Told(b.inputs, toHost, got, m_last_input)
          => Told(b.inputs, toHost, got', m_last_input')
    BY <2>1 DEF Told, Packet
  <2> QED
    BY <2>1, <2>2 DEF Reported
<1>7. CASE Report
  <2>1. b' = [b EXCEPT !.lastInputs = b.inputs] /\ missed' = ~Heard
        /\ ToHost(Input(b.inputs)) /\ BoardUnchanged
    BY <1>7 DEF Report
  <2>2. b'.inputs = b.inputs
    BY <1>0, <2>1 DEF BoardState
  <2>3. ASSUME Heard PROVE Told(b'.inputs, toHost', got', m_last_input')
    <3>1. toHost' = Append(toHost, Input(b.inputs)) /\ UNCHANGED <<got, m_last_input>>
      BY <2>1, <2>3 DEF ToHost, BoardUnchanged, hostVars
    <3>2. /\ Input(b.inputs) \in HostPackets
          /\ Input(b.inputs).cmd = "istat" /\ Input(b.inputs).n = b'.inputs
      BY <1>0, <2>2 DEF Input, HostPackets, BoardState
    <3> QED
      BY <1>0, <3>1, <3>2, ToldAppend
  <2> QED
    BY <2>1, <2>3 DEF Reported
<1>8. CASE Wake \/ GoStandalone
  <2>1. /\ b'.inputs = b.inputs /\ b'.lastInputs = b.lastInputs
        /\ UNCHANGED <<toHost, got, m_last_input, missed>>
    BY <1>0, <1>8 DEF Wake, GoStandalone, BoardState, history, BoardUnchanged, hostVars
  <2> QED
    BY <2>1, ReportedKept
<1>9. CASE TakePacket
  <2> DEFINE a == Answer(Head(toBoard))
  <2>0. Head(toBoard) \in BoardPackets
    BY <1>0, <1>9 DEF TakePacket
  <2>1. /\ ToHost(a) /\ a \in HostPackets /\ UNCHANGED <<got, m_last_input>>
        /\ Head(toBoard).cmd = "get_istat" => a = Input(b.inputs)
        /\ Head(toBoard).cmd # "get_istat" => a.cmd # "istat"
    <3>1. a \in HostPackets
      BY <2>0, AnswerType DEF IInv
    <3>2. Head(toBoard).cmd \in {"ver", "ping", "get_istat", "relay"}
      BY <2>0 DEF BoardPackets
    <3> QED
      BY <1>9, <3>1, <3>2 DEF TakePacket, Answer, Packet, BoardUnchanged, hostVars
  <2>2. b'.inputs = b.inputs /\ b'.lastInputs = b.lastInputs
    BY <1>0, <1>9 DEF TakePacket, BoardState
  <2>3. CASE Head(toBoard).cmd = "get_istat"
    <3>1. missed' = ~Heard
      BY <1>9, <2>3 DEF TakePacket
    <3>2. ASSUME Heard PROVE Told(b'.inputs, toHost', got', m_last_input')
      <4>1. a.cmd = "istat" /\ a.n = b'.inputs
        BY <2>1, <2>2, <2>3 DEF Input
      <4>2. toHost' = Append(toHost, a)
        BY <2>1, <3>2 DEF ToHost
      <4> HIDE DEF a
      <4> QED
        BY <1>0, <2>1, <4>1, <4>2, ToldAppend
    <3> QED
      BY <3>1, <3>2 DEF Reported
  <2>4. CASE Head(toBoard).cmd # "get_istat"
    <3>1. missed' = missed
      BY <1>9, <2>4 DEF TakePacket
    <3>2. toHost' = Append(toHost, a) \/ toHost' = toHost
      BY <2>1 DEF ToHost
    <3>3. Told(b.inputs, toHost, got, m_last_input)
            => Told(b.inputs, toHost', got', m_last_input')
      <4> HIDE DEF a
      <4> QED
        BY <1>0, <2>1, <2>4, <3>2, ToldAppend
    <3> QED
      BY <2>2, <3>1, <3>3 DEF Reported
  <2> QED
    BY <2>3, <2>4
<1>10. CASE HostTimeout \/ Restart
  <2>1. ASSUME HostTimeout PROVE b'.lastInputs = Unknown /\ b'.inputs = 0
    BY <1>0, <2>1 DEF HostTimeout, BoardState
  <2>2. ASSUME Restart PROVE b'.lastInputs = Unknown /\ b'.inputs = 0
    BY <2>2 DEF Restart, Boot
  <2> QED
    BY <1>10, <2>1, <2>2 DEF Reported, Unknown
<1>11. CASE ControllerTurn
  <2>1. UNCHANGED <<toHost, got, m_last_input, missed>>
    BY <1>11 DEF ControllerTurn, BoardUnchanged, hostVars
  <2>2. CASE b.standalone
    <3>1. b'.inputs = b.inputs /\ b'.lastInputs = b.lastInputs
      BY <1>0, <1>11, <2>2 DEF ControllerTurn, BoardState
    <3> QED
      BY <2>1, <3>1, ReportedKept
  <2>3. CASE ~b.standalone
    <3> DEFINE r == IF b.outputs # b.lastOutputs THEN b.outputs ELSE b.relay
    <3>1. PICK v \in Sampled :
            b' = [b EXCEPT !.relay = r, !.lastOutputs = b.outputs, !.inputs = v]
      BY <1>11, <2>3 DEF ControllerTurn
    <3>2. b'.inputs = v /\ b'.lastInputs = b.lastInputs
      BY <1>0, <3>1 DEF BoardState
    <3>3. b.lastInputs # b.inputs => b'.inputs = b.inputs \/ b'.lastInputs = Unknown
      BY <3>1, <3>2 DEF Sampled
    <3>4. b'.inputs # Unknown
      <4>1. button \in 0..1
        BY DEF IInv, TypeOK
      <4> QED
        BY <1>0, <3>1, <3>2, <4>1 DEF Sampled, BoardState, Unknown
    <3> QED
      BY <2>1, <3>2, <3>3, <3>4, ReportedKept
  <2> QED
    BY <2>2, <2>3
<1>12. CASE Press \/ LoseToBoard
  BY <1>12, ReportedKept DEF Press, LoseToBoard, history, hostVars
<1>13. CASE LoseToHost
  <2>1. /\ toHost # <<>> /\ toHost' = Tail(toHost) /\ UNCHANGED <<got, m_last_input, b>>
        /\ missed' = (missed \/ Head(toHost).cmd = "istat")
    BY <1>13 DEF LoseToHost, hostVars
  <2>2. ~missed' => ~missed /\ Head(toHost).cmd # "istat"
    BY <2>1
  <2>3. Told(b.inputs, toHost, got, m_last_input) /\ Head(toHost).cmd # "istat"
          => Told(b.inputs, toHost', got, m_last_input)
    BY <1>0, <2>1, ToldTail
  <2> QED
    BY <2>1, <2>2, <2>3 DEF Reported
<1>14. CASE UNCHANGED vars
  BY <1>14, ReportedKept DEF vars, history, hostVars
<1> QED
  BY <1>1, <1>2, <1>3, <1>4, <1>5, <1>6, <1>7, <1>8, <1>9, <1>10, <1>11, <1>12, <1>13, <1>14
     DEF Next, Board

\* Nobody is ahead of the value stored last.
NumbersInv ==
    /\ applied <= m_relay
    /\ \A p \in Procs : pkt[p] <= m_relay
    /\ \A i \in 1..Len(toBoard) : toBoard[i].n <= m_relay

\* The value stored last is on its way to the board, or will be sent with the handshake.
Building == \E p \in Procs : pc[p] = "build"
Sending == \E p \in Procs : pc[p] \in {"send", "write"} /\ pkt[p] = m_relay
OnLine == \E i \in 1..Len(toBoard) : toBoard[i] = Relay(m_relay)
Carried == Building \/ Sending \/ OnLine \/ ~port \/ just_opened

\* Without a doubt the value stored last is applied or on its way.
DeliveredInv == doubt = {} => IF applied = m_relay THEN b.outputs = On(m_relay) ELSE Carried

\* What is appended to the line, or taken from it.
LEMMA NumbersAppend ==
    ASSUME NEW q \in Seq(BoardPackets), NEW p \in BoardPackets, NEW m \in Nat, p.n <= m,
           \A i \in 1..Len(q) : q[i].n <= m
    PROVE  /\ \A i \in 1..Len(Append(q, p)) : Append(q, p)[i].n <= m
           /\ \E i \in 1..Len(Append(q, p)) : Append(q, p)[i] = p
           /\ \A i \in 1..Len(q) : i \in 1..Len(Append(q, p)) /\ Append(q, p)[i] = q[i]
<1> DEFINE a == Append(q, p)
<1>1. /\ Len(q) \in Nat /\ Len(a) = Len(q) + 1 /\ a[Len(q) + 1] = p
      /\ \A i \in 1..Len(q) : a[i] = q[i]
  OBVIOUS
<1> HIDE DEF a
<1>2. Len(q) + 1 \in 1..Len(a) /\ \A i \in 1..Len(q) : i \in 1..Len(a) /\ a[i] = q[i]
  BY <1>1
<1>3. \A i \in 1..Len(a) : a[i].n <= m
  <2> TAKE i \in 1..Len(a)
  <2>1. CASE i = Len(q) + 1
    BY <1>1, <2>1
  <2>2. CASE i # Len(q) + 1
    <3>1. i \in 1..Len(q)
      BY <1>1, <2>2
    <3> QED
      BY <1>1, <3>1
  <2> QED
    BY <2>1, <2>2
<1> QED
  BY <1>1, <1>2, <1>3 DEF a

(* Taking a packet off a wire leaves only packets that were on it. *)
LEMMA NumbersTail ==
    ASSUME NEW q \in Seq(BoardPackets), q # <<>>, NEW m, \A i \in 1..Len(q) : q[i].n <= m
    PROVE  /\ Head(q).n <= m
           /\ \A i \in 1..Len(Tail(q)) : Tail(q)[i].n <= m
           /\ \A p : p # Head(q) /\ (\E i \in 1..Len(q) : q[i] = p)
                => \E i \in 1..Len(Tail(q)) : Tail(q)[i] = p
<1> DEFINE t == Tail(q)
<1>1. /\ Len(t) \in Nat /\ Len(q) = Len(t) + 1 /\ Head(q) = q[1]
      /\ \A i \in 1..Len(t) : t[i] = q[i + 1]
  OBVIOUS
<1> HIDE DEF t
<1>2. Head(q).n <= m
  BY <1>1
<1>3. \A i \in 1..Len(t) : t[i].n <= m
  <2> TAKE i \in 1..Len(t)
  <2>1. i + 1 \in 1..Len(q)
    BY <1>1
  <2> QED
    BY <1>1, <2>1
<1>4. ASSUME NEW p, p # Head(q), NEW i \in 1..Len(q), q[i] = p
      PROVE  \E j \in 1..Len(t) : t[j] = p
  <2>1. i - 1 \in 1..Len(t) /\ (i - 1) + 1 = i
    BY <1>1, <1>4
  <2>2. t[i - 1] = p
    BY <1>1, <1>4, <2>1
  <2> QED
    BY <2>1, <2>2
<1> QED
  BY <1>2, <1>3, <1>4 DEF t

\* The types that the numbers need.
LEMMA NumberTypes ==
    ASSUME IInv
    PROVE  /\ pc \in [Procs -> Places] /\ pkt \in [Procs -> 0..MaxStores]
           /\ m_relay \in Nat /\ applied \in Int /\ \A p \in Procs : pkt[p] \in Nat
           /\ toBoard \in Seq(BoardPackets) /\ b \in BoardState
           /\ Worker \in Procs /\ Worker \notin Setters /\ Setters \subseteq Procs
           /\ MaxStores \in Nat
  BY Bounds DEF IInv, TypeOK, LineInv, Places, Procs, BoardState

(* No thread sends, and the board applies, no value that was not stored before. *)
LEMMA StepNumbers == ASSUME IInv, NumbersInv, [Next]_vars PROVE NumbersInv'
<1> USE NumberTypes DEF NumbersInv
<1>1. ASSUME NEW p \in Setters, Store(p) PROVE NumbersInv'
  <2>1. m_relay' = m_relay + 1 /\ UNCHANGED <<applied, pkt, toBoard>>
    BY <1>1 DEF Store, history
  <2>2. ASSUME NEW i \in 1..Len(toBoard) PROVE toBoard[i].n \in Nat
    <3>1. toBoard[i] \in BoardPackets
      OBVIOUS
    <3> QED
      BY <3>1 DEF BoardPackets
  <2> QED
    BY <2>1, <2>2
<1>2. ASSUME NEW p \in Procs, Build(p) PROVE NumbersInv'
  BY <1>2 DEF Build, history
<1>3. ASSUME NEW p \in Procs, Write(p) PROVE NumbersInv'
  <2>1. /\ toBoard' = Append(toBoard, Relay(pkt[p])) /\ UNCHANGED <<applied, pkt, m_relay>>
        /\ Relay(pkt[p]) \in BoardPackets /\ Relay(pkt[p]).n <= m_relay
    BY <1>3 DEF Write, history, Relay, BoardPackets
  <2>2. \A i \in 1..Len(toBoard') : toBoard'[i].n <= m_relay
    BY <2>1, NumbersAppend
  <2> QED
    BY <2>1, <2>2
<1>4. ASSUME UpdateInputs \/ OpenPort \/ Ask PROVE NumbersInv'
  <2>1. PICK cmd \in {"get_istat", "ver", "ping"} : toBoard' = Append(toBoard, Packet(cmd))
    BY <1>4 DEF UpdateInputs, OpenPort, Ask
  <2>2. Packet(cmd) \in BoardPackets /\ Packet(cmd).n <= m_relay
    BY DEF Packet, BoardPackets
  <2>3. UNCHANGED <<applied, pkt, m_relay>>
    BY <1>4 DEF UpdateInputs, OpenPort, Ask, hostVars, history
  <2>4. \A i \in 1..Len(toBoard') : toBoard'[i].n <= m_relay
    BY <2>1, <2>2, NumbersAppend
  <2> QED
    BY <2>3, <2>4
<1>5. ASSUME TakePacket PROVE NumbersInv'
  <2>1. toBoard # <<>> /\ toBoard' = Tail(toBoard) /\ UNCHANGED <<pkt, m_relay>>
    BY <1>5 DEF TakePacket, BoardUnchanged, hostVars
  <2>2. applied' \in {applied, Head(toBoard).n}
    BY <1>5 DEF TakePacket
  <2>3. Head(toBoard).n <= m_relay /\ \A i \in 1..Len(toBoard') : toBoard'[i].n <= m_relay
    BY <2>1, NumbersTail
  <2> QED
    BY <2>1, <2>2, <2>3
<1>6. ASSUME LoseToBoard PROVE NumbersInv'
  <2>1. toBoard # <<>> /\ toBoard' = Tail(toBoard) /\ UNCHANGED <<applied, pkt, m_relay>>
    BY <1>6 DEF LoseToBoard, hostVars
  <2>2. \A i \in 1..Len(toBoard') : toBoard'[i].n <= m_relay
    BY <2>1, NumbersTail
  <2> QED
    BY <2>1, <2>2
<1>7. ASSUME Restart PROVE NumbersInv'
  BY <1>7 DEF Restart, BoardUnchanged, hostVars
<1>8. ASSUME UNCHANGED <<applied, pkt, m_relay, toBoard>> PROVE NumbersInv'
  BY <1>8
<1>9. ASSUME NEW p \in Procs, Send(p) PROVE NumbersInv'
  BY <1>8, <1>9 DEF Send, history
<1>10. ASSUME ClosePort \/ Receive \/ HandlePacket \/ Destroy \/ WorkerEnds PROVE NumbersInv'
  BY <1>8, <1>10 DEF ClosePort, Receive, HandlePacket, Destroy, WorkerEnds, history
<1>11. ASSUME Report \/ Wake \/ GoStandalone \/ HostTimeout \/ ControllerTurn PROVE NumbersInv'
  BY <1>8, <1>11 DEF Report, Wake, GoStandalone, HostTimeout, ControllerTurn, BoardUnchanged,
                     hostVars, history
<1>12. ASSUME Press \/ LoseToHost \/ UNCHANGED vars PROVE NumbersInv'
  BY <1>8, <1>12 DEF Press, LoseToHost, vars, hostVars, history
<1> QED
  BY <1>1, <1>2, <1>3, <1>4, <1>5, <1>6, <1>7, <1>9, <1>10, <1>11, <1>12
     DEF Next, Thread, Board

\* Steps that leave alone what carries the value, or only add to it.
LEMMA StillCarried ==
    ASSUME DeliveredInv, UNCHANGED <<m_relay, applied>>, b'.outputs = b.outputs,
           doubt' = {} => doubt = {},
           Building => Carried', Sending => Carried', OnLine => Carried',
           ~port \/ just_opened => Carried'
    PROVE  DeliveredInv'
<1>1. Carried => Carried'
  BY DEF Carried
<1>2. On(m_relay)' = On(m_relay)
  BY DEF On
<1> QED
  BY <1>1, <1>2 DEF DeliveredInv

\* A value that is stored is sent by the thread that stored it, by a thread that sends
\* after it, or with the handshake; what is lost, forgotten or overtaken leaves a mark.
LEMMA StepDelivered == ASSUME IInv, NumbersInv, DeliveredInv, [Next]_vars PROVE DeliveredInv'
<1> USE NumberTypes
<1>1. ASSUME NEW p \in Setters, Store(p) PROVE DeliveredInv'
  <2>1. m_relay' = m_relay + 1 /\ applied' = applied /\ p \in Procs /\ pc'[p] = "build"
    BY <1>1 DEF Store, Goto, history
  <2>2. Carried' /\ applied' # m_relay'
    BY <2>1 DEF Carried, Building, NumbersInv
  <2> QED
    BY <2>2 DEF DeliveredInv
<1>2. ASSUME NEW p \in Procs, Build(p) PROVE DeliveredInv'
  <2>1. /\ pc'[p] = "send" /\ pkt'[p] = m_relay
        /\ UNCHANGED <<m_relay, applied, b, doubt>>
    BY <1>2 DEF Build, Goto, history
  <2>2. Carried'
    BY <2>1 DEF Carried, Sending
  <2> QED
    BY <2>1, <2>2, StillCarried
<1>3. ASSUME NEW p \in Procs, Send(p) PROVE DeliveredInv'
  <2>1. UNCHANGED <<m_relay, applied, b, doubt, pkt, port, just_opened, toBoard>>
    BY <1>3 DEF Send, history
  <2>2. OnLine => Carried'
    BY <2>1 DEF OnLine, Carried
  <2>3. ~port \/ just_opened => Carried'
    BY <2>1 DEF Carried
  <2>4. Building => Carried'
    <3>1. \A r \in Procs : pc[r] = "build" => pc'[r] = "build"
      BY <1>3 DEF Send, Goto
    <3> QED
      BY <3>1 DEF Building, Carried
  <2>5. Sending => Carried'
    <3>1. \A r \in Procs : pc[r] \in {"send", "write"} =>
            pc'[r] \in {"send", "write"} \/ ~port \/ just_opened
      BY <1>3 DEF Send, Goto
    <3> QED
      BY <2>1, <2>3, <3>1 DEF Sending, Carried
  <2> QED
    BY <2>1, <2>2, <2>3, <2>4, <2>5, StillCarried
<1>4. ASSUME NEW p \in Procs, Write(p) PROVE DeliveredInv'
  <2>1. /\ UNCHANGED <<m_relay, applied, b, doubt, pkt, port, just_opened>>
        /\ toBoard' = Append(toBoard, Relay(pkt[p])) /\ Relay(pkt[p]) \in BoardPackets
        /\ Relay(pkt[p]).n <= m_relay
    BY <1>4 DEF Write, history, Relay, BoardPackets, NumbersInv
  <2>2. /\ \E i \in 1..Len(toBoard') : toBoard'[i] = Relay(pkt[p])
        /\ \A i \in 1..Len(toBoard) : i \in 1..Len(toBoard') /\ toBoard'[i] = toBoard[i]
    BY <2>1, NumbersAppend DEF NumbersInv
  <2>3. OnLine => Carried'
    <3> SUFFICES ASSUME NEW i \in 1..Len(toBoard), toBoard[i] = Relay(m_relay)
                 PROVE  OnLine'
      BY DEF OnLine, Carried
    <3>1. i \in 1..Len(toBoard') /\ toBoard'[i] = Relay(m_relay)'
      BY <2>1, <2>2 DEF Relay
    <3> QED
      BY <3>1 DEF OnLine
  <2>4. ~port \/ just_opened => Carried'
    BY <2>1 DEF Carried
  <2>5. Building => Carried'
    <3>1. \A r \in Procs : pc[r] = "build" => pc'[r] = "build"
      BY <1>4 DEF Write, Goto
    <3> QED
      BY <3>1 DEF Building, Carried
  <2>6. Sending => Carried'
    <3> SUFFICES ASSUME NEW r \in Procs, pc[r] \in {"send", "write"}, pkt[r] = m_relay
                 PROVE  Carried'
      BY DEF Sending
    <3>1. CASE r = p
      <4>1. OnLine'
        BY <2>1, <2>2, <3>1 DEF OnLine, Relay
      <4> QED
        BY <4>1 DEF Carried
    <3>2. CASE r # p
      <4>1. pc'[r] = pc[r]
        BY <1>4, <3>2 DEF Write, Goto
      <4> QED
        BY <2>1, <4>1 DEF Sending, Carried
    <3> QED
      BY <3>1, <3>2
  <2> QED
    BY <2>1, <2>3, <2>4, <2>5, <2>6, StillCarried
<1>5. ASSUME UpdateInputs \/ OpenPort \/ Ask PROVE DeliveredInv'
  <2>1. PICK cmd \in {"get_istat", "ver", "ping"} : toBoard' = Append(toBoard, Packet(cmd))
    BY <1>5 DEF UpdateInputs, OpenPort, Ask
  <2>2. Packet(cmd) \in BoardPackets /\ Packet(cmd).n <= m_relay
    BY DEF Packet, BoardPackets
  <2>3. /\ UNCHANGED <<applied, pkt, m_relay, pc, b, doubt>>
        /\ ~port \/ just_opened => ~port' \/ just_opened'
    BY <1>5 DEF UpdateInputs, OpenPort, Ask, hostVars, history
  <2>4. \A i \in 1..Len(toBoard) : i \in 1..Len(toBoard') /\ toBoard'[i] = toBoard[i]
    BY <2>1, <2>2, NumbersAppend DEF NumbersInv
  <2>5. OnLine => OnLine'
    <3> SUFFICES ASSUME NEW i \in 1..Len(toBoard), toBoard[i] = Relay(m_relay)
                 PROVE  OnLine'
      BY DEF OnLine
    <3>1. i \in 1..Len(toBoard') /\ toBoard'[i] = Relay(m_relay)'
      BY <2>3, <2>4 DEF Relay
    <3> QED
      BY <3>1 DEF OnLine
  <2>6. (Building => Building') /\ (Sending => Sending')
    BY <2>3 DEF Building, Sending
  <2> QED
    BY <2>3, <2>5, <2>6, StillCarried DEF Carried
<1>6. ASSUME TakePacket PROVE DeliveredInv'
  <2> DEFINE h == Head(toBoard)
  <2>1. /\ toBoard # <<>> /\ toBoard' = Tail(toBoard)
        /\ UNCHANGED <<pc, pkt, m_relay, port, just_opened>>
    BY <1>6 DEF TakePacket, BoardUnchanged, hostVars
  <2>2. /\ h.n <= m_relay
        /\ \A p : p # h /\ (\E i \in 1..Len(toBoard) : toBoard[i] = p)
             => \E i \in 1..Len(toBoard') : toBoard'[i] = p
    BY <2>1, NumbersTail DEF NumbersInv
  <2>3. OnLine /\ h # Relay(m_relay) => OnLine'
    BY <2>1, <2>2 DEF OnLine, Relay
  <2>4. Carried /\ h # Relay(m_relay) => Carried'
    BY <2>1, <2>3 DEF Carried, Building, Sending
  <2>5. h \in BoardPackets /\ h.n \in Nat
    <3>1. h \in BoardPackets
      BY <2>1
    <3> QED
      BY <3>1 DEF BoardPackets
  <2>6. CASE h.cmd # "relay"
    <3>1. UNCHANGED <<b, applied, doubt>>
      BY <1>6, <2>6 DEF TakePacket
    <3>2. h # Relay(m_relay)
      BY <2>6 DEF Relay
    <3> QED
      BY <2>1, <2>4, <3>1, <3>2 DEF DeliveredInv, On
  <2>7. CASE h.cmd = "relay" /\ h.n = m_relay
    <3>1. b' = [b EXCEPT !.outputs = On(h.n)]
          /\ applied' = IF h.n > applied THEN h.n ELSE applied
      BY <1>6, <2>7 DEF TakePacket
    <3>2. b'.outputs = On(m_relay)
      BY <2>7, <3>1 DEF BoardState
    <3>3. applied' = m_relay'
      BY <2>1, <2>7, <3>1 DEF NumbersInv
    <3> QED
      BY <2>1, <3>2, <3>3 DEF DeliveredInv, On
  <2>8. CASE h.cmd = "relay" /\ h.n # m_relay
    <3>1. /\ applied' = IF h.n > applied THEN h.n ELSE applied
          /\ doubt' = IF h.n < applied THEN doubt \cup {"overtaken"} ELSE doubt
      BY <1>6, <2>8 DEF TakePacket
    <3>2. CASE h.n < applied
      BY <3>1, <3>2 DEF DeliveredInv
    <3>3. CASE ~(h.n < applied)
      <4>1. applied # m_relay /\ applied' # m_relay' /\ doubt' = doubt
        BY <2>1, <2>2, <2>5, <2>8, <3>1, <3>3 DEF NumbersInv
      <4>2. h # Relay(m_relay)
        BY <2>8 DEF Relay
      <4> QED
        BY <2>4, <4>1, <4>2 DEF DeliveredInv
    <3> QED
      BY <3>2, <3>3
  <2> QED
    BY <2>6, <2>7, <2>8
<1>7. ASSUME LoseToBoard PROVE DeliveredInv'
  <2>1. /\ toBoard # <<>> /\ toBoard' = Tail(toBoard)
        /\ UNCHANGED <<pc, pkt, m_relay, port, just_opened, applied, b>>
        /\ doubt' = IF Head(toBoard).cmd = "relay" THEN doubt \cup {"lost"} ELSE doubt
    BY <1>7 DEF LoseToBoard, hostVars
  <2>2. CASE Head(toBoard).cmd = "relay"
    BY <2>1, <2>2 DEF DeliveredInv
  <2>3. CASE Head(toBoard).cmd # "relay"
    <3>1. Head(toBoard) # Relay(m_relay)
      BY <2>3 DEF Relay
    <3>2. OnLine => OnLine'
      BY <2>1, <3>1, NumbersTail DEF OnLine, Relay, NumbersInv
    <3>3. (Building => Building') /\ (Sending => Sending')
      BY <2>1 DEF Building, Sending
    <3> QED
      BY <2>1, <2>3, <3>2, <3>3, StillCarried DEF Carried
  <2> QED
    BY <2>2, <2>3
<1>8. ASSUME HostTimeout \/ Restart PROVE DeliveredInv'
  <2>1. doubt' # {}
    BY <1>8 DEF HostTimeout, Restart
  <2> QED
    BY <2>1 DEF DeliveredInv
<1>9. ASSUME UNCHANGED <<pc, pkt, m_relay, applied, doubt, toBoard, port, just_opened>>,
             b'.outputs = b.outputs
      PROVE  DeliveredInv'
  <2>1. (Building => Building') /\ (Sending => Sending') /\ (OnLine => OnLine')
    BY <1>9 DEF Building, Sending, OnLine, Relay
  <2> QED
    BY <1>9, <2>1, StillCarried DEF Carried
<1>10. ASSUME Report \/ Wake \/ GoStandalone PROVE DeliveredInv'
  <2>1. b'.outputs = b.outputs
    BY <1>10 DEF Report, Wake, GoStandalone, BoardState
  <2> QED
    BY <1>9, <1>10, <2>1 DEF Report, Wake, GoStandalone, BoardUnchanged, hostVars, history
<1>11. ASSUME ControllerTurn PROVE DeliveredInv'
  <2>1. b'.outputs = b.outputs
    <3>1. CASE b.standalone
      BY <1>11, <3>1 DEF ControllerTurn, BoardState
    <3>2. CASE ~b.standalone
      <4> DEFINE r == IF b.outputs # b.lastOutputs THEN b.outputs ELSE b.relay
      <4>1. PICK v \in Sampled :
              b' = [b EXCEPT !.relay = r, !.lastOutputs = b.outputs, !.inputs = v]
        BY <1>11, <3>2 DEF ControllerTurn
      <4> QED
        BY <4>1 DEF BoardState
    <3> QED
      BY <3>1, <3>2
  <2> QED
    BY <1>9, <1>11, <2>1 DEF ControllerTurn, BoardUnchanged, hostVars
<1>12. ASSUME Press \/ LoseToHost \/ UNCHANGED vars PROVE DeliveredInv'
  BY <1>9, <1>12 DEF Press, LoseToHost, vars, hostVars, history
<1>13. ASSUME Destroy PROVE DeliveredInv'
  BY <1>9, <1>13 DEF Destroy, history
<1>14. ASSUME HandlePacket \/ WorkerEnds PROVE DeliveredInv'
  <2>1. /\ UNCHANGED <<pkt, m_relay, applied, doubt, toBoard, port, just_opened, b>>
        /\ \A p \in Procs : pc[p] \in {"build", "send", "write"} => pc'[p] = pc[p]
    BY <1>14 DEF HandlePacket, WorkerEnds, Goto, history
  <2>2. (Building => Building') /\ (Sending => Sending') /\ (OnLine => OnLine')
    BY <2>1 DEF Building, Sending, OnLine, Relay
  <2> QED
    BY <2>1, <2>2, StillCarried DEF Carried
<1>15. ASSUME ClosePort PROVE DeliveredInv'
  <2>1. Carried' /\ UNCHANGED <<m_relay, applied, doubt, b>>
    BY <1>15 DEF ClosePort, Carried
  <2> QED
    BY <2>1, StillCarried
<1>16. ASSUME Receive PROVE DeliveredInv'
  <2>1. /\ UNCHANGED <<pkt, m_relay, applied, doubt, toBoard, port, b>>
        /\ \A p \in Procs : pc[p] \in {"build", "send", "write"} => pc'[p] = pc[p]
        /\ just_opened => just_opened' \/ pc'[Worker] = "build"
    BY <1>16 DEF Receive, Goto, history
  <2>2. (Building => Building') /\ (Sending => Sending') /\ (OnLine => OnLine')
    BY <2>1 DEF Building, Sending, OnLine, Relay
  <2>3. ~port \/ just_opened => Carried'
    BY <2>1 DEF Carried, Building
  <2> QED
    BY <2>1, <2>2, <2>3, StillCarried DEF Carried
<1> QED
  BY <1>1, <1>2, <1>3, <1>4, <1>5, <1>6, <1>7, <1>8, <1>10, <1>11, <1>12, <1>13, <1>14, <1>15,
     <1>16 DEF Next, Thread, Board

-----------------------------------------------------------------------------
(* Theorems *)

\* Every variable of the two ends has its type, and the intercom is never told the
\* value 0xFF that the board keeps for inputs it has not reported.
THEOREM TypeCorrect == Spec => []TypeOK
<1>1. IInv => TypeOK
  BY DEF IInv
<1> QED
  BY InitIInv, StepIInv, <1>1, PTL DEF Spec

\* Whatever the worker does to the port, a thread writes only to an open port whose
\* board has answered: send_buffer() looks and writes under one lock.
THEOREM WritesAreLive == Spec => []WritesOnLivePort
<1>1. IInv => WritesOnLivePort
  BY DEF IInv, LockInv, WritesOnLivePort
<1> QED
  BY InitIInv, StepIInv, <1>1, PTL DEF Spec

\* After the board served itself the relay follows the intercom's output again, unless a
\* turn of the controller thread came between the two writes that began that.
THEOREM RelayComesBack == Spec => []RelayFollows
<1>1. Init => RelayInv
  <2> SUFFICES ASSUME Init PROVE RelayInv
    OBVIOUS
  <2>1. b \in Boards(early) /\ spc = "loop"
    BY DEF Init
  <2>2. IF early THEN b.lastOutputs = 0
        ELSE IF b.standalone THEN b.lastOutputs = Unknown
        ELSE b.lastOutputs \in {b.relay, Unknown}
    BY <2>1 DEF Boards
  <2> QED
    BY <2>1, <2>2 DEF RelayInv
<1>2. IInv /\ RelayInv => RelayFollows
  <2>1. IInv => b \in BoardState
    BY DEF IInv, TypeOK, BoardState
  <2> QED
    BY <2>1 DEF RelayInv, RelayFollows, BoardState, Unknown
<1> QED
  BY InitIInv, StepIInv, StepRelay, <1>1, <1>2, PTL DEF Spec

\* When the reports are read the intercom knows the inputs, whatever board it was started
\* beside, unless the last report was lost or went to a former process: the board reports
\* every change, in order, and again after it served itself.
THEOREM InputsAreKnown == Spec => []InputIsKnown
<1>1. Init => HandsEmpty /\ Reported
  <2> SUFFICES ASSUME Init PROVE HandsEmpty /\ Reported
    OBVIOUS
  <2>1. b.inputs \in 0..1 /\ got.cmd = "none"
    BY DEF Init, Boards, Packet
  <2>2. b.lastInputs # Unknown => missed
    BY DEF Init
  <2>3. b.inputs # Unknown
    BY <2>1 DEF Unknown
  <2>4. Reported
    BY <2>2, <2>3 DEF Reported
  <2> QED
    BY <2>1, <2>4 DEF HandsEmpty
<1>2. Reported => InputIsKnown
  BY DEF Reported, Told, InputIsKnown
<1> QED
  BY InitIInv, StepIInv, StepHands, StepReported, <1>1, <1>2, PTL DEF Spec

\* When nothing of an output is on its way, the board's output is the value stored last,
\* also when it was stored while the port was closed; the exceptions are a lost packet,
\* two threads that overtake each other, and a board that forgot it.
THEOREM OutputsAreStored == Spec => []OutputIsStored
<1>1. Init => NumbersInv /\ DeliveredInv
  BY Bounds DEF Init, NumbersInv, DeliveredInv, Carried
<1>2. DeliveredInv => OutputIsStored
  <2>1. Settled => ~Carried
    BY DEF Settled, Carried, Building, Sending, OnLine, HasRelay, Relay, Procs
  <2> QED
    BY <2>1 DEF DeliveredInv, OutputIsStored
<1> QED
  BY InitIInv, StepIInv, StepNumbers, StepDelivered, <1>1, <1>2, PTL DEF Spec
=============================================================================
