---------------------------- MODULE ControllerLink ----------------------------
(***************************************************************************)
(* The intercom and its controller board at the two ends of a serial line: *)
(* pjs_arduino_controller (src/intercom) with its thread and the callers   *)
(* of set_output(), and the firmware (src/ESP32/Intercom/src/main.cpp)     *)
(* with its serial thread and its controller thread.                       *)
(*                                                                         *)
(* One output, the relay of the bell, stands for the relay and the two     *)
(* lights, one input for the three.  A value that set_output() stores is   *)
(* known by its number; odd numbers switch the relay on.  Packets arrive   *)
(* whole and in order or not at all (a spoilt packet fails its checksum).  *)
(* Time is left out: a limit may pass whenever nothing has happened that   *)
(* starts it anew.                                                         *)
(***************************************************************************)
EXTENDS Integers, Sequences, FiniteSets, SequencesExt

CONSTANTS
    Setters,        \* threads that call set_output(): scripts of the intercom
    Worker,         \* the controller's thread, thread_proc()
    Cap,            \* bound: requests on the line, and answers (outputs always fit)
    MaxStores,      \* bound: calls of set_output()
    MaxMishaps      \* bound: times the port is closed or cannot be opened, the board
                    \* restarts or misses its host, or a packet is spoilt on the line

ASSUME ControllerLinkAssumption ==
    /\ Worker \notin Setters /\ "free" \notin Setters \cup {Worker}
    /\ {Cap, MaxStores, MaxMishaps} \subseteq Nat

VARIABLES
    pc, pkt,        \* per thread of the intercom: where it is, the packet it has built
    lock,           \* m_lock
    port,           \* serial # NULL
    just_opened,    \* no answer of the board on this opening yet
    exit,           \* m_exit
    m_relay,        \* the number of the value stored last
    m_last_input,   \* what the main script was told
    got,            \* the packet that the worker handles
    toBoard, toHost,
    b,              \* the board's variables
    spc,            \* where its serial thread is
    button,         \* the physical button
    doubt,          \* history: why the board's relay may differ from m_relay
    missed,         \* history: the last input report was lost, or went to a former process
    early,          \* history: the board began stand-alone operation between two writes
    applied,        \* history: the highest number the board has applied, or -1
    mishaps

hostVars == <<pc, pkt, lock, port, just_opened, exit, m_relay, m_last_input, got>>
history == <<doubt, missed, early, applied>>
vars == <<hostVars, toBoard, toHost, b, spc, button, history, mishaps>>

Procs == Setters \cup {Worker}
Unknown == 255                      \* the 0xFF of resetIOValues()
On(n) == n % 2
Relay(n) == [cmd |-> "relay", n |-> n]
Packet(cmd) == [cmd |-> cmd, n |-> 0]
Input(v) == [cmd |-> "istat", n |-> v]

Boot == [standalone |-> TRUE, outputs |-> 0, lastOutputs |-> Unknown,
         inputs |-> 0, lastInputs |-> Unknown, relay |-> 0]

\* The boards that an intercom may find when it is started.  One has served itself since
\* it was switched on or since its host went quiet; another is still awake, because a
\* former process of the intercom ended within its HOST_TIMEOUT, with outputs of that
\* process and inputs reported to it; e is TRUE if it began stand-alone operation between
\* two writes.
Boards(e) ==
    {x \in [standalone : BOOLEAN, outputs : 0..1, lastOutputs : {0, 1, Unknown},
            inputs : 0..1, lastInputs : {0, 1, Unknown}, relay : 0..1] :
        /\ x.standalone => x.outputs = 0 /\ x.lastInputs = Unknown /\ (e \/ x.inputs = 0)
        /\ IF e THEN x.lastOutputs = 0
           ELSE IF x.standalone THEN x.lastOutputs = Unknown
           ELSE x.lastOutputs \in {x.relay, Unknown}}

\* The intercom is started, at any time of the board's life; it knows nothing of what the
\* board has applied for, or reported to, a process before it.
Init ==
    /\ pc = [p \in Procs |-> IF p = Worker THEN "top" ELSE "idle"]
    /\ pkt = [p \in Procs |-> 0]
    /\ lock = "free" /\ port = FALSE /\ just_opened = FALSE /\ exit = FALSE
    /\ m_relay = 0 /\ m_last_input = 0 /\ got = Packet("none")
    /\ toBoard = <<>> /\ toHost = <<>>
    /\ early \in BOOLEAN /\ b \in Boards(early) /\ spc = "loop" /\ button \in 0..1
    /\ doubt = {} /\ missed = (b.lastInputs # Unknown) /\ applied = -1
    /\ mishaps = 0

Goto(p, next) == pc' = [pc EXCEPT ![p] = next]
HasInput(q) == \E i \in 1..Len(q) : q[i].cmd = "istat"
HasRelay(q) == \E i \in 1..Len(q) : q[i].cmd = "relay"

-----------------------------------------------------------------------------
(* set_output() and send_relay(), in the scripts' threads and the worker *)

\* set_output() stores the value with no lock.
Store(p) ==
    /\ pc[p] = "idle" /\ ~exit /\ m_relay < MaxStores
    /\ m_relay' = m_relay + 1 /\ Goto(p, "build")
    /\ UNCHANGED <<pkt, lock, port, just_opened, exit, m_last_input, got, toBoard, toHost,
                   b, spc, button, history, mishaps>>

\* create_packet() copies m_relay, which another thread may have stored meanwhile.
Build(p) ==
    /\ pc[p] = "build"
    /\ pkt' = [pkt EXCEPT ![p] = m_relay] /\ Goto(p, "send")
    /\ UNCHANGED <<lock, port, just_opened, exit, m_relay, m_last_input, got, toBoard,
                   toHost, b, spc, button, history, mishaps>>

\* Where a thread goes after send_buffer().
After(p) == IF p = Worker THEN "handle" ELSE "idle"

\* send_buffer() takes m_lock; it sends nothing on a closed port or before the board
\* has answered.
Send(p) ==
    /\ pc[p] = "send" /\ lock = "free"
    /\ IF port /\ ~just_opened THEN lock' = p /\ Goto(p, "write")
                               ELSE lock' = lock /\ Goto(p, After(p))
    /\ UNCHANGED <<pkt, port, just_opened, exit, m_relay, m_last_input, got, toBoard,
                   toHost, b, spc, button, history, mishaps>>

Write(p) ==
    /\ pc[p] = "write"
    /\ toBoard' = Append(toBoard, Relay(pkt[p]))
    /\ lock' = "free" /\ Goto(p, After(p))
    /\ UNCHANGED <<pkt, port, just_opened, exit, m_relay, m_last_input, got, toHost,
                   b, spc, button, history, mishaps>>

\* update_inputs(), called by the main script; before the board has answered,
\* send_buffer() drops the request and nothing happens.
UpdateInputs ==
    /\ \E p \in Setters : pc[p] = "idle" /\ ~exit
    /\ lock = "free" /\ port /\ ~just_opened /\ Len(toBoard) < Cap
    /\ toBoard' = Append(toBoard, Packet("get_istat"))
    /\ UNCHANGED <<hostVars, toHost, b, spc, button, history, mishaps>>

-----------------------------------------------------------------------------
(* The controller's thread *)

\* The port is opened under m_lock and the version request is sent.
OpenPort ==
    /\ pc[Worker] = "top" /\ ~exit /\ ~port /\ lock = "free" /\ Len(toBoard) < Cap
    /\ port' = TRUE /\ just_opened' = TRUE
    /\ toBoard' = Append(toBoard, Packet("ver"))
    /\ UNCHANGED <<pc, pkt, lock, exit, m_relay, m_last_input, got, toHost, b, spc, button,
                   history, mishaps>>

\* Mutant: a port is closed without the lock.
ClosePortUnlocked ==
    /\ pc[Worker] = "top" /\ ~exit /\ port /\ mishaps < MaxMishaps
    /\ port' = FALSE /\ mishaps' = mishaps + 1
    /\ toHost' = <<>> /\ missed' = (missed \/ HasInput(toHost))
    /\ UNCHANGED <<pc, pkt, lock, just_opened, exit, m_relay, m_last_input, got, toBoard,
                   b, spc, button, doubt, early, applied>>

\* The port is closed under m_lock: it is dead, the board has not answered the
\* version request for 10.5 s, or not answered anything for 10 s.  What the board
\* has sent and nobody has read is discarded by the next Open().
ClosePort ==
    /\ pc[Worker] = "top" /\ ~exit /\ port /\ lock = "free" /\ mishaps < MaxMishaps
    /\ port' = FALSE /\ mishaps' = mishaps + 1
    /\ toHost' = <<>> /\ missed' = (missed \/ HasInput(toHost))
    /\ UNCHANGED <<pc, pkt, lock, just_opened, exit, m_relay, m_last_input, got, toBoard,
                   b, spc, button, doubt, early, applied>>

\* Mutant: the version request is not repeated.
AskOnce ==
    /\ pc[Worker] = "top" /\ ~exit /\ port /\ ~just_opened /\ Len(toBoard) < Cap
    /\ toBoard' = Append(toBoard, Packet("ping"))
    /\ UNCHANGED <<hostVars, toHost, b, spc, button, history, mishaps>>

\* The version request is repeated until the board answers; later it is pinged.
Ask ==
    /\ pc[Worker] = "top" /\ ~exit /\ port /\ Len(toBoard) < Cap
    /\ toBoard' = Append(toBoard, Packet(IF just_opened THEN "ver" ELSE "ping"))
    /\ UNCHANGED <<hostVars, toHost, b, spc, button, history, mishaps>>

\* Mutant: the stored outputs are not sent when the board has answered.
ReceiveSendsNothing ==
    /\ pc[Worker] = "top" /\ ~exit /\ port /\ toHost # <<>>
    /\ toHost' = Tail(toHost) /\ got' = Head(toHost)
    /\ just_opened' = (just_opened /\ Head(toHost).cmd \notin {"ver", "istat"})
    /\ Goto(Worker, "handle")
    /\ UNCHANGED <<pkt, lock, port, exit, m_relay, m_last_input, toBoard, b, spc, button,
                   history, mishaps>>

\* The first answer must be a version or an input report, any other packet is
\* dropped; then the stored outputs are sent before the packet is looked at.
Receive ==
    /\ pc[Worker] = "top" /\ ~exit /\ port /\ toHost # <<>>
    /\ toHost' = Tail(toHost)
    /\ LET answers == Head(toHost).cmd \in {"ver", "istat"}
       IN  /\ got' = IF just_opened /\ ~answers THEN got ELSE Head(toHost)
           /\ just_opened' = (just_opened /\ ~answers)
           /\ Goto(Worker, IF ~just_opened THEN "handle" ELSE IF answers THEN "build" ELSE "top")
    /\ UNCHANGED <<pkt, lock, port, exit, m_relay, m_last_input, toBoard, b, spc, button,
                   history, mishaps>>

\* Mutant: the report that ends the handshake is not looked at.
HandlePacketDropped ==
    /\ pc[Worker] = "handle"
    /\ m_last_input' = m_last_input
    /\ got' = Packet("none") /\ Goto(Worker, "top")
    /\ UNCHANGED <<pkt, lock, port, just_opened, exit, m_relay, toBoard, toHost, b, spc,
                   button, history, mishaps>>

\* An input report is compared with the last one and the main script told.
HandlePacket ==
    /\ pc[Worker] = "handle"
    /\ m_last_input' = IF got.cmd = "istat" THEN got.n ELSE m_last_input
    /\ got' = Packet("none") /\ Goto(Worker, "top")
    /\ UNCHANGED <<pkt, lock, port, just_opened, exit, m_relay, toBoard, toHost, b, spc,
                   button, history, mishaps>>

\* The destructor, when the scripts are gone, and the end of the thread.
Destroy ==
    /\ ~exit /\ \A p \in Setters : pc[p] = "idle"
    /\ exit' = TRUE
    /\ UNCHANGED <<pc, pkt, lock, port, just_opened, m_relay, m_last_input, got, toBoard,
                   toHost, b, spc, button, history, mishaps>>

WorkerEnds ==
    /\ pc[Worker] = "top" /\ exit /\ Goto(Worker, "end")
    /\ toHost' = <<>> /\ missed' = (missed \/ HasInput(toHost))
    /\ UNCHANGED <<pkt, lock, port, just_opened, exit, m_relay, m_last_input, got, toBoard,
                   b, spc, button, doubt, early, applied, mishaps>>

-----------------------------------------------------------------------------
(* The firmware *)

\* What the board sends is gone when the port is closed or its reader has ended.
Heard == port /\ pc[Worker] # "end"
ToHost(p) == toHost' = IF Heard THEN Append(toHost, p) ELSE toHost
BoardUnchanged == UNCHANGED <<hostVars, button>>

\* The serial thread reports inputs that differ from those it reported last.
Report ==
    /\ spc = "loop" /\ ~b.standalone /\ b.lastInputs # b.inputs /\ Len(toHost) < Cap
    /\ b' = [b EXCEPT !.lastInputs = b.inputs]
    /\ ToHost(Input(b.inputs)) /\ missed' = ~Heard
    /\ BoardUnchanged /\ UNCHANGED <<toBoard, spc, doubt, early, applied, mishaps>>

\* Any packet ends the stand-alone operation, before it is looked at.
Wake ==
    /\ spc = "loop" /\ toBoard # <<>> /\ b.standalone
    /\ b' = [b EXCEPT !.standalone = FALSE]
    /\ BoardUnchanged /\ UNCHANGED <<toBoard, toHost, spc, history, mishaps>>

\* The answers to a ping and to an output are alike to the intercom.
Answer(p) ==
    CASE p.cmd = "ver"              -> Packet("ver")
      [] p.cmd = "get_istat"        -> Input(b.inputs)
      [] p.cmd \in {"ping", "relay"} -> Packet("ack")

TakePacket ==
    /\ spc = "loop" /\ toBoard # <<>> /\ ~b.standalone /\ Len(toHost) < Cap
    /\ toBoard' = Tail(toBoard) /\ ToHost(Answer(Head(toBoard)))
    /\ missed' = IF Head(toBoard).cmd = "get_istat" THEN ~Heard ELSE missed
    /\ IF Head(toBoard).cmd = "relay"
       THEN LET n == Head(toBoard).n
            IN  /\ b' = [b EXCEPT !.outputs = On(n)]
                /\ applied' = IF n > applied THEN n ELSE applied
                /\ doubt' = IF n = m_relay THEN {}
                            ELSE IF n < applied THEN doubt \cup {"overtaken"} ELSE doubt
       ELSE UNCHANGED <<b, applied, doubt>>
    /\ BoardUnchanged /\ UNCHANGED <<spc, early, mishaps>>

\* Mutant: the values are not reset before the board serves itself.
HostTimeoutKeepsValues ==
    /\ spc = "loop" /\ toBoard = <<>> /\ mishaps < MaxMishaps
    /\ spc' = "reset" /\ doubt' = doubt \cup {"forgotten"} /\ early' = FALSE
    /\ mishaps' = mishaps + 1
    /\ BoardUnchanged /\ UNCHANGED <<b, toBoard, toHost, missed, applied>>

\* HOST_TIMEOUT without a packet: resetIOValues(), then stand-alone operation; the
\* controller thread, whose priority is higher, may run between the two writes.
HostTimeout ==
    /\ spc = "loop" /\ toBoard = <<>> /\ mishaps < MaxMishaps
    /\ b' = [b EXCEPT !.outputs = 0, !.inputs = 0, !.lastOutputs = Unknown,
                      !.lastInputs = Unknown]
    /\ spc' = "reset" /\ doubt' = doubt \cup {"forgotten"} /\ early' = FALSE
    /\ mishaps' = mishaps + 1
    /\ BoardUnchanged /\ UNCHANGED <<toBoard, toHost, missed, applied>>

GoStandalone ==
    /\ spc = "reset" /\ spc' = "loop" /\ b' = [b EXCEPT !.standalone = TRUE]
    /\ BoardUnchanged /\ UNCHANGED <<toBoard, toHost, history, mishaps>>

\* The board loses its power, or its watchdog fires.
Restart ==
    /\ mishaps < MaxMishaps /\ mishaps' = mishaps + 1
    /\ b' = Boot /\ spc' = "loop" /\ toBoard' = <<>>
    /\ early' = FALSE /\ doubt' = doubt \cup {"forgotten"}
    /\ BoardUnchanged /\ UNCHANGED <<toHost, missed, applied>>

\* input_c::getValue(): an input that has changed keeps its value for a guard time of
\* 100 ms, in which the serial thread, whose turns take a few, has reported it.
Sampled == IF b.lastInputs \in {b.inputs, Unknown} THEN {b.inputs, button} ELSE {b.inputs}

\* One turn of the controller thread.  It runs above the serial thread on the same
\* core, so to that thread a turn is one step.
ControllerTurn ==
    /\ IF b.standalone THEN b' = [b EXCEPT !.relay = button]
       ELSE \E v \in Sampled :
              b' = [b EXCEPT !.relay = IF b.outputs # b.lastOutputs THEN b.outputs ELSE @,
                             !.lastOutputs = b.outputs, !.inputs = v]
    /\ early' = IF b.standalone THEN early
                ELSE spc = "reset" \/ (early /\ b.outputs = b.lastOutputs)
    /\ BoardUnchanged /\ UNCHANGED <<toBoard, toHost, spc, doubt, missed, applied, mishaps>>

Board == Report \/ Wake \/ TakePacket \/ GoStandalone

-----------------------------------------------------------------------------
(* The visitor and the line *)

Press ==
    /\ button' = 1 - button
    /\ UNCHANGED <<hostVars, toBoard, toHost, b, spc, history, mishaps>>

LoseToBoard ==
    /\ mishaps < MaxMishaps /\ mishaps' = mishaps + 1 /\ toBoard # <<>>
    /\ toBoard' = Tail(toBoard)
    /\ doubt' = IF Head(toBoard).cmd = "relay" THEN doubt \cup {"lost"} ELSE doubt
    /\ UNCHANGED <<hostVars, toHost, b, spc, button, missed, early, applied>>

LoseToHost ==
    /\ mishaps < MaxMishaps /\ mishaps' = mishaps + 1 /\ toHost # <<>>
    /\ toHost' = Tail(toHost)
    /\ missed' = (missed \/ Head(toHost).cmd = "istat")
    /\ UNCHANGED <<hostVars, toBoard, b, spc, button, doubt, early, applied>>

Thread(p) == Build(p) \/ Send(p) \/ Write(p)

Next ==
    \/ \E p \in Setters : Store(p)
    \/ \E p \in Procs : Thread(p)
    \/ UpdateInputs \/ OpenPort \/ ClosePort \/ Ask \/ Receive \/ HandlePacket
    \/ Destroy \/ WorkerEnds
    \/ Board \/ HostTimeout \/ Restart \/ ControllerTurn
    \/ Press \/ LoseToBoard \/ LoseToHost

Spec == Init /\ [][Next]_vars

\* The intercom's threads run; the version request is repeated and answers are read.  Each
\* turn of the board's serial thread looks for a packet, whatever it has to report.
FairSpec ==
    /\ Spec
    /\ \A p \in Procs : WF_vars(Thread(p))
    /\ WF_vars(OpenPort) /\ WF_vars(Receive) /\ WF_vars(HandlePacket)
    /\ WF_vars(just_opened /\ Ask)
    /\ WF_vars(Wake) /\ WF_vars(TakePacket) /\ WF_vars(GoStandalone)

-----------------------------------------------------------------------------
(* Properties *)

\* The variables have their types; in particular the intercom is never told the value
\* of an input that only stands for "not reported yet".
TypeOK ==
    /\ pc \in [Procs -> {"idle", "top", "build", "send", "write", "handle", "end"}]
    /\ pkt \in [Procs -> 0..MaxStores] /\ lock \in Procs \cup {"free"}
    /\ port \in BOOLEAN /\ just_opened \in BOOLEAN /\ exit \in BOOLEAN
    /\ m_relay \in 0..MaxStores /\ m_last_input \in 0..1
    /\ b \in [standalone : BOOLEAN, outputs : 0..1, lastOutputs : {0, 1, Unknown},
              inputs : 0..1, lastInputs : {0, 1, Unknown}, relay : 0..1]
    /\ spc \in {"loop", "reset"} /\ button \in 0..1
    /\ doubt \subseteq {"lost", "overtaken", "forgotten"} /\ applied \in -1..MaxStores

\* What a thread writes goes to a port that is open and whose board has answered,
\* although the worker may close it at any time.
WritesOnLivePort == \A p \in Procs : pc[p] = "write" => port /\ ~just_opened

\* Nothing of an output is on its way or still to be sent.
Settled ==
    /\ port /\ ~just_opened /\ ~HasRelay(toBoard) /\ ~b.standalone /\ spc = "loop"
    /\ pc[Worker] \in {"top", "handle"} /\ \A p \in Setters : pc[p] = "idle"

\* Values that were stored while the port was closed or the board had not answered
\* arrive with the handshake, also at a board that still shows those of a former process:
\* the board's output is the one stored last, unless a packet was lost or overtaken by an
\* older one, or the board has forgotten it.
OutputIsStored == Settled /\ doubt = {} => b.outputs = On(m_relay)

\* Once the reports are read the intercom knows the inputs, unless the last report was
\* lost, or went to a former process of the intercom: the board repeats none, and the
\* update_inputs() of the main script's start is dropped before the handshake, so such an
\* input stays unknown until it changes, a get_istat is answered, or the board has served
\* itself, after which it reports its inputs again.
InputIsKnown ==
    (~missed /\ ~b.standalone /\ spc = "loop" /\ b.lastInputs = b.inputs
     /\ ~HasInput(toHost) /\ got.cmd # "istat") => m_last_input = b.inputs

\* The relay follows the host's output when the board comes back from serving itself
\* with the button, except when it began that between the two writes.
RelayFollows ==
    ~b.standalone /\ spc = "loop" /\ b.lastOutputs = b.outputs /\ ~early =>
        b.relay = b.outputs

\* However often the port is closed, the board restarts or a packet is lost, the two
\* find each other again.
LinkComesBack == []<>(exit \/ (port /\ ~just_opened))
=============================================================================
