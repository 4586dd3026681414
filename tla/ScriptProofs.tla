----------------------------- MODULE ScriptProofs -----------------------------
(***************************************************************************)
(* Theorems about a script of the program: its message queue and the       *)
(* script object with its thread.                                          *)
(*                                                                         *)
(* MessageQueue, for any set of producers, any set of posts and any limit: *)
(* the queue keeps its limit, a pending quit request is taken first, no    *)
(* wakeup is lost, and the queue implements BoundedDeque.                  *)
(*                                                                         *)
(* ScriptThread: what holds of a script object from its constructor to its *)
(* destructor in every interleaving with its thread.                       *)
(***************************************************************************)
EXTENDS MessageQueue, ScriptThread, SequenceTheorems, TLAPS

\* Whoever is inside push() holds m_lock.
LockInv == \A p \in Producers : (ppc[p] # "idle") <=> (lock = p)

\* What a push has dropped made room in a full queue, and is forgotten when the
\* push inserts: it is never more than one message.
DroppedInv == dropped # <<>> =>
    /\ \E p \in Producers : ppc[p] = "insert"
    /\ MaxElements > 0 /\ Len(dropped) = 1 /\ Len(list) = MaxElements - 1

\* The gap in pjs_list::wait between looking at the list and entering the event:
\* what was inserted meanwhile is signalled, or about to be.
EnterInv == (cpc = "enter" /\ list # <<>>) =>
    triggered \/ \E p \in Producers : ppc[p] = "signal"

Safe == WithinLimit /\ QuitGoesFirst /\ NoLostWakeup

IInv == TypeOK /\ LockInv /\ DroppedInv /\ EnterInv /\ Safe

-----------------------------------------------------------------------------
(* Sequences *)

\* All quit requests of a list stand at its front.
QuitsFirst(s) == \A i \in 1..Len(s) : s[i] \in QuitPosts =>
                    \A j \in 1..i : s[j] \in QuitPosts

\* Pushing a quit request in front keeps the quit requests in front.
LEMMA QuitsFirstCons ==
    ASSUME NEW s \in Seq(Posts), NEW m \in QuitPosts, m \in Posts, QuitsFirst(s)
    PROVE  QuitsFirst(<<m>> \o s)
<1> DEFINE t == <<m>> \o s
<1>1. t \in Seq(Posts) /\ Len(t) = Len(s) + 1 /\ t[1] = m
  OBVIOUS
<1>2. \A i \in 2..Len(t) : t[i] = s[i - 1] /\ i - 1 \in 1..Len(s)
  OBVIOUS
<1> HIDE DEF t
<1>3. SUFFICES ASSUME NEW i \in 1..Len(t), t[i] \in QuitPosts, NEW j \in 1..i
               PROVE  t[j] \in QuitPosts
  BY DEF QuitsFirst, t
<1>4. CASE j = 1
  BY <1>1, <1>4
<1>5. CASE j # 1
  <2>1. /\ i \in 2..Len(t) /\ j \in 2..Len(t)
        /\ i - 1 \in 1..Len(s) /\ j - 1 \in 1..(i - 1)
    BY <1>1, <1>5
  <2>2. s[i - 1] \in QuitPosts
    BY <1>2, <1>3, <2>1
  <2>3. s[j - 1] \in QuitPosts
    BY <2>1, <2>2 DEF QuitsFirst
  <2> QED
    BY <1>2, <2>1, <2>3
<1> QED
  BY <1>4, <1>5

\* So does appending an ordinary message.
LEMMA QuitsFirstAppend ==
    ASSUME NEW s \in Seq(Posts), NEW m \in Posts, m \notin QuitPosts, QuitsFirst(s)
    PROVE  QuitsFirst(Append(s, m))
  BY DEF QuitsFirst

\* So does taking the first message away, whether popped or dropped.
LEMMA QuitsFirstTail ==
    ASSUME NEW s \in Seq(Posts), s # <<>>, QuitsFirst(s)
    PROVE  QuitsFirst(Tail(s))
<1>1. /\ Len(Tail(s)) = Len(s) - 1
      /\ \A i \in 1..Len(Tail(s)) : Tail(s)[i] = s[i + 1] /\ i + 1 \in 1..Len(s)
  OBVIOUS
<1>2. SUFFICES ASSUME NEW i \in 1..Len(Tail(s)), Tail(s)[i] \in QuitPosts,
                      NEW j \in 1..i
               PROVE  Tail(s)[j] \in QuitPosts
  BY DEF QuitsFirst
<1>3. /\ i + 1 \in 1..Len(s) /\ s[i + 1] \in QuitPosts
      /\ j \in 1..Len(Tail(s)) /\ j + 1 \in 1..(i + 1)
  BY <1>1, <1>2
<1>4. s[j + 1] \in QuitPosts
  BY <1>3 DEF QuitsFirst
<1> QED
  BY <1>1, <1>3, <1>4

-----------------------------------------------------------------------------
(* The inductive invariant *)

\* The queue is created empty, unlocked and not signalled.
LEMMA InitIInv == Init => IInv
<1> SUFFICES ASSUME Init PROVE IInv
  OBVIOUS
<1> USE QueueAssumption DEF Init
<1>1. TypeOK
  <2>1. (CHOOSE m \in Posts : TRUE) \in Posts
    BY Zenon
  <2>2. <<>> \in Seq(Posts)
    OBVIOUS
  <2> QED
    BY <2>1, <2>2 DEF TypeOK, ProducerStates, ConsumerStates
<1>2. LockInv
  BY DEF LockInv
<1>3. DroppedInv /\ EnterInv
  BY DEF DroppedInv, EnterInv
<1>4. Safe
  BY DEF Safe, WithinLimit, QuitGoesFirst, NoLostWakeup
<1> QED
  BY <1>1, <1>2, <1>3, <1>4 DEF IInv

\* Every step keeps each variable in its type.
LEMMA StepTypeOK == ASSUME TypeOK, [Next]_vars PROVE TypeOK'
<1> USE QueueAssumption DEF TypeOK, ProducerStates, ConsumerStates
<1>1. ASSUME NEW p \in Producers, NEW m \in Posts, PushLock(p, m) PROVE TypeOK'
  BY <1>1 DEF PushLock
<1>2. ASSUME NEW p \in Producers, PushDrop(p) PROVE TypeOK'
  <2>1. list # <<>>
    BY <1>2 DEF PushDrop, Full
  <2> QED
    BY <1>2, <2>1 DEF PushDrop
<1>3. ASSUME NEW p \in Producers, PushInsert(p) PROVE TypeOK'
  <2>1. <<posting[p]>> \o list \in Seq(Posts) /\ Append(list, posting[p]) \in Seq(Posts)
    OBVIOUS
  <2> QED
    BY <1>3, <2>1 DEF PushInsert
<1>4. ASSUME NEW p \in Producers, PushSignal(p) \/ PushUnlock(p) PROVE TypeOK'
  BY <1>4 DEF PushSignal, PushUnlock
<1>5. CASE GetMessage
  <2>1. UNCHANGED <<lock, triggered, ppc, posting, unposted, dropped>>
    BY <1>5 DEF GetMessage, producerVars
  <2>2. CASE list = <<>>
    BY <1>5, <2>1, <2>2 DEF GetMessage
  <2>3. CASE list # <<>>
    <3>1. Head(list) \in Posts /\ Tail(list) \in Seq(Posts)
      BY <2>3
    <3>2. <<Head(list)>> \in Seq(Posts)
      BY <3>1
    <3> QED
      BY <1>5, <2>1, <2>3, <3>1, <3>2 DEF GetMessage
  <2> QED
    BY <2>2, <2>3
<1>6. CASE ClearQueue \/ WaitCheck \/ EventEnter \/ EventReturn
           \/ EventSpurious \/ EventTimeout
  <2>1. UNCHANGED <<lock, ppc, posting, unposted, dropped, taken>>
    BY <1>6 DEF ClearQueue, WaitCheck, EventEnter, EventReturn, EventSpurious,
                EventTimeout, producerVars
  <2>2. list' = list \/ list' = <<>>
    BY <1>6 DEF ClearQueue, WaitCheck, EventEnter, EventReturn, EventSpurious,
                EventTimeout
  <2>3. triggered' \in BOOLEAN /\ cpc' \in ConsumerStates
    BY <1>6 DEF ClearQueue, WaitCheck, EventEnter, EventReturn, EventSpurious,
                EventTimeout
  <2>4. <<>> \in Seq(Posts)
    OBVIOUS
  <2> QED
    BY <2>1, <2>2, <2>3, <2>4
<1>7. CASE UNCHANGED vars
  BY <1>7 DEF vars
<1> QED
  BY <1>1, <1>2, <1>3, <1>4, <1>5, <1>6, <1>7 DEF Next, Push, Consume

\* Every step keeps the lock with the push in progress, and what that push has
\* dropped within one message.
LEMMA StepLock ==
    ASSUME TypeOK, LockInv, DroppedInv, WithinLimit, [Next]_vars
    PROVE  LockInv' /\ DroppedInv'
<1> USE QueueAssumption DEF TypeOK, ProducerStates, LockInv, DroppedInv
<1>1. ASSUME NEW p \in Producers, NEW m \in Posts, PushLock(p, m)
      PROVE  LockInv' /\ DroppedInv'
  BY <1>1 DEF PushLock
<1>2. ASSUME NEW p \in Producers, PushDrop(p) PROVE LockInv' /\ DroppedInv'
  <2>1. Len(list) >= MaxElements /\ MaxElements > 0 /\ dropped = <<>>
    BY <1>2 DEF PushDrop, Full
  <2>2. DroppedInv'
    BY <1>2, <2>1 DEF PushDrop, WithinLimit
  <2> QED
    BY <1>2, <2>2 DEF PushDrop
<1>3. ASSUME NEW p \in Producers, PushInsert(p) PROVE LockInv' /\ DroppedInv'
  BY <1>3 DEF PushInsert
<1>4. ASSUME NEW p \in Producers, PushSignal(p) \/ PushUnlock(p)
      PROVE  LockInv' /\ DroppedInv'
  BY <1>4 DEF PushSignal, PushUnlock
<1>5. CASE GetMessage \/ ClearQueue \/ WaitCheck
  BY <1>5 DEF GetMessage, ClearQueue, WaitCheck, producerVars
<1>6. CASE EventEnter \/ EventReturn \/ EventSpurious \/ EventTimeout
  BY <1>6 DEF EventEnter, EventReturn, EventSpurious, EventTimeout, producerVars
<1>7. CASE UNCHANGED vars
  BY <1>7 DEF vars
<1> QED
  BY <1>1, <1>2, <1>3, <1>4, <1>5, <1>6, <1>7 DEF Next, Push, Consume

\* A push never makes the list longer than its limit: it only inserts when there
\* is room, and room is made one message at a time.
LEMMA StepWithinLimit ==
    ASSUME TypeOK, WithinLimit, [Next]_vars
    PROVE  WithinLimit'
<1> USE QueueAssumption DEF TypeOK, WithinLimit
<1>1. ASSUME NEW p \in Producers, PushDrop(p) PROVE WithinLimit'
  BY <1>1 DEF PushDrop, Full
<1>2. ASSUME NEW p \in Producers, PushInsert(p) PROVE WithinLimit'
  <2>1. MaxElements > 0 => Len(list) < MaxElements
    BY <1>2 DEF PushInsert, Full
  <2>2. Len(<<posting[p]>> \o list) = Len(list) + 1
    OBVIOUS
  <2>3. Len(Append(list, posting[p])) = Len(list) + 1
    OBVIOUS
  <2>4. Len(list') = Len(list) + 1
    BY <1>2, <2>2, <2>3 DEF PushInsert
  <2> QED
    BY <2>1, <2>4
<1>3. CASE list' = list \/ list' = <<>>
  BY <1>3
<1>4. CASE GetMessage
  BY <1>4 DEF GetMessage
<1> QED
  BY <1>1, <1>2, <1>3, <1>4
  DEF Next, Push, Consume, vars, PushLock, PushSignal, PushUnlock, ClearQueue,
      WaitCheck, EventEnter, EventReturn, EventSpurious, EventTimeout

\* Every operation on the list keeps the quit requests at its front.
LEMMA StepQuitGoesFirst ==
    ASSUME TypeOK, QuitGoesFirst, [Next]_vars
    PROVE  QuitGoesFirst'
<1>1. QuitGoesFirst <=> QuitsFirst(list)
  BY DEF QuitGoesFirst, QuitsFirst
<1>2. QuitGoesFirst' <=> QuitsFirst(list')
  BY DEF QuitGoesFirst, QuitsFirst
<1>3. list \in Seq(Posts)
  BY DEF TypeOK
<1>4. ASSUME NEW p \in Producers, PushDrop(p) PROVE QuitsFirst(list')
  <2>1. list # <<>> /\ list' = Tail(list)
    BY <1>3, <1>4, QueueAssumption DEF PushDrop, Full
  <2> QED
    BY <1>1, <1>3, <2>1, QuitsFirstTail
<1>5. ASSUME NEW p \in Producers, PushInsert(p) PROVE QuitsFirst(list')
  <2>1. posting[p] \in Posts
    BY DEF TypeOK
  <2>2. CASE posting[p] \in QuitPosts
    BY <1>1, <1>3, <1>5, <2>1, <2>2, QuitsFirstCons DEF PushInsert
  <2>3. CASE posting[p] \notin QuitPosts
    BY <1>1, <1>3, <1>5, <2>1, <2>3, QuitsFirstAppend DEF PushInsert
  <2> QED
    BY <2>2, <2>3
<1>6. CASE list' = list \/ list' = <<>>
  <2>1. CASE list' = list
    BY <1>1, <1>2, <2>1
  <2>2. CASE list' = <<>>
    BY <1>2, <2>2 DEF QuitsFirst
  <2> QED
    BY <1>6, <2>1, <2>2
<1>7. CASE GetMessage
  <2>1. CASE list = <<>>
    <3>1. list' = list
      BY <1>7, <2>1 DEF GetMessage
    <3> QED
      BY <1>6, <3>1
  <2>2. CASE list # <<>>
    <3>1. list' = Tail(list)
      BY <1>7, <2>2 DEF GetMessage
    <3> QED
      BY <1>1, <1>2, <1>3, <2>2, <3>1, QuitsFirstTail
  <2> QED
    BY <2>1, <2>2
<1> QED
  BY <1>2, <1>4, <1>5, <1>6, <1>7
  DEF Next, Push, Consume, vars, PushLock, PushSignal, PushUnlock, ClearQueue,
      WaitCheck, EventEnter, EventReturn, EventSpurious, EventTimeout

\* Every step keeps the promise of a wakeup: a message that arrives while the
\* consumer is between its look at the list and its sleep leaves the event's
\* flag set, and the flag keeps it from sleeping.
LEMMA StepNoLostWakeup ==
    ASSUME TypeOK, LockInv, EnterInv, NoLostWakeup, [Next]_vars
    PROVE  EnterInv' /\ NoLostWakeup'
<1> USE DEF TypeOK, EnterInv, NoLostWakeup
<1>1. ASSUME NEW p \in Producers, NEW m \in Posts, PushLock(p, m)
      PROVE  EnterInv' /\ NoLostWakeup'
  BY <1>1 DEF PushLock
<1>2. ASSUME NEW p \in Producers, PushDrop(p) PROVE EnterInv' /\ NoLostWakeup'
  <2>1. list # <<>>
    BY <1>2, QueueAssumption DEF PushDrop, Full
  <2> QED
    BY <1>2, <2>1 DEF PushDrop
<1>3. ASSUME NEW p \in Producers, PushInsert(p) PROVE EnterInv' /\ NoLostWakeup'
  <2>1. ppc'[p] = "signal"
    BY <1>3 DEF PushInsert
  <2> QED
    BY <2>1
<1>4. ASSUME NEW p \in Producers, PushSignal(p) PROVE EnterInv' /\ NoLostWakeup'
  BY <1>4 DEF PushSignal, ConsumerStates
<1>5. ASSUME NEW p \in Producers, PushUnlock(p) PROVE EnterInv' /\ NoLostWakeup'
  BY <1>5 DEF PushUnlock
<1>6. CASE GetMessage \/ ClearQueue
  BY <1>6 DEF GetMessage, ClearQueue, producerVars
<1>7. CASE WaitCheck \/ EventReturn \/ EventSpurious \/ EventTimeout
  BY <1>7 DEF WaitCheck, EventReturn, EventSpurious, EventTimeout, producerVars
<1>8. CASE EventEnter
  BY <1>8 DEF EventEnter, producerVars
<1>9. CASE UNCHANGED vars
  BY <1>9 DEF vars
<1> QED
  BY <1>1, <1>2, <1>3, <1>4, <1>5, <1>6, <1>7, <1>8, <1>9 DEF Next, Push, Consume

\* IInv holds in every reachable state.
THEOREM Invariance == Spec => []IInv
<1>1. IInv /\ [Next]_vars => IInv'
  BY StepTypeOK, StepLock, StepWithinLimit, StepQuitGoesFirst, StepNoLostWakeup
  DEF IInv, Safe
<1> QED
  BY <1>1, InitIInv, PTL DEF Spec

\* The queue's variables keep their types.
THEOREM TypeCorrect == Spec => []TypeOK
  BY Invariance, PTL DEF IInv

\* The queue never holds more than its limit (pjs_list::push makes room first).
THEOREM LimitKept == Spec => []WithinLimit
  BY Invariance, PTL DEF IInv, Safe

\* A pending IM_QUIT is the next message the script takes.
THEOREM QuitTakenFirst == Spec => []QuitGoesFirst
  BY Invariance, PTL DEF IInv, Safe

\* The script never sleeps on a queue that holds a message, except while the
\* push that inserted it is about to signal.
THEOREM WakeupNotLost == Spec => []NoLostWakeup
  BY Invariance, PTL DEF IInv, Safe

-----------------------------------------------------------------------------
(* The queue implements the atomic deque *)

\* Dropping moves the front message from the list to what was dropped, which
\* changes nothing for the deque.
LEMMA DropStutters ==
    ASSUME NEW s \in Seq(Posts), s # <<>>, NEW d \in Seq(Posts), d = <<>>
    PROVE  Append(d, Head(s)) \o Tail(s) = d \o s
<1>1. d \o s = s
  OBVIOUS
<1>2. Append(d, Head(s)) = <<Head(s)>>
  OBVIOUS
<1>3. <<Head(s)>> \o Tail(s) = s
  OBVIOUS
<1> QED
  BY <1>1, <1>2, <1>3

\* Taking away the one message that was dropped leaves the list.
LEMMA TailOfDropped ==
    ASSUME NEW s \in Seq(Posts), NEW d \in Seq(Posts), Len(d) = 1
    PROVE  Len(d \o s) = Len(s) + 1 /\ Tail(d \o s) = s
<1>1. /\ d \o s \in Seq(Posts) /\ Len(d \o s) = Len(d) + Len(s) /\ Len(s) \in Nat
      /\ \A i \in 1..Len(d) + Len(s) :
            (d \o s)[i] = IF i <= Len(d) THEN d[i] ELSE s[i - Len(d)]
  BY ConcatProperties, LenProperties
<1>2. ASSUME NEW i \in 1..Len(s) PROVE (d \o s)[i + 1] = s[i]
  <2>1. i + 1 \in 1..Len(d) + Len(s) /\ ~(i + 1 <= Len(d))
    BY <1>1
  <2>2. (d \o s)[i + 1] = s[i + 1 - Len(d)]
    BY <1>1, <2>1
  <2>3. i + 1 - Len(d) = i
    BY <1>1
  <2> QED
    BY <2>2, <2>3
<1> DEFINE t == d \o s
<1>3. t \in Seq(Posts) /\ Len(t) = Len(s) + 1 /\ Len(s) \in Nat
  BY <1>1
<1>4. \A i \in 1..Len(s) : t[i + 1] = s[i]
  BY <1>2
<1> HIDE DEF t
<1>5. /\ Tail(t) \in Seq(Posts) /\ Len(Tail(t)) = Len(s)
      /\ \A i \in 1..Len(s) : Tail(t)[i] = t[i + 1]
  BY <1>3
<1>6. Tail(t) = s
  BY <1>4, <1>5
<1> QED
  BY <1>3, <1>6 DEF t

\* The deque makes the room that the push in progress has already made.
LEMMA RoomIsList ==
    ASSUME IInv, NEW p \in Producers, PushInsert(p)
    PROVE  Deque!Room(dropped \o list) = list
<1> USE QueueAssumption DEF IInv, TypeOK, PushInsert, Full
<1>1. CASE dropped = <<>>
  <2>1. dropped \o list = list
    BY <1>1
  <2>2. ~(MaxElements > 0 /\ Len(list) >= MaxElements)
    OBVIOUS
  <2> QED
    BY <2>1, <2>2 DEF Deque!Room
<1>2. CASE dropped # <<>>
  <2>1. Len(dropped) = 1 /\ MaxElements > 0 /\ Len(list) = MaxElements - 1
    BY <1>2 DEF DroppedInv
  <2>2. Len(dropped \o list) >= MaxElements
    BY <2>1, TailOfDropped
  <2>3. Tail(dropped \o list) = list
    BY <2>1, TailOfDropped
  <2> QED
    BY <2>1, <2>2, <2>3 DEF Deque!Room
<1> QED
  BY <1>1, <1>2

\* While nobody is at the insert step nothing is held back from the list.
LEMMA NothingDropped ==
    ASSUME IInv, \A p \in Producers : ppc[p] # "insert"
    PROVE  dropped = <<>> /\ dropped \o list = list
  BY DEF IInv, TypeOK, DroppedInv

\* A step of the queue is a step of the deque or changes nothing it sees.
LEMMA StepImplements ==
    ASSUME IInv, IInv', [Next]_vars
    PROVE  [Deque!Next]_(Deque!vars)
<1> USE DEF Deque!vars
<1> DEFINE q == dropped \o list
<1>1. list \in Seq(Posts) /\ dropped \in Seq(Posts) /\ list' \in Seq(Posts)
  BY DEF IInv, TypeOK
<1>2. CASE UNCHANGED <<list, dropped, taken>>
  BY <1>2
<1>3. ASSUME NEW p \in Producers, PushDrop(p) PROVE UNCHANGED Deque!vars
  <2>1. dropped = <<>> /\ list # <<>>
    BY <1>3, QueueAssumption DEF PushDrop, Full, IInv, TypeOK, DroppedInv
  <2>2. dropped' = Append(dropped, Head(list)) /\ list' = Tail(list) /\ taken' = taken
    BY <1>3 DEF PushDrop
  <2> QED
    BY <1>1, <2>1, <2>2, DropStutters
<1>4. ASSUME NEW p \in Producers, PushInsert(p) PROVE Deque!Next
  <2>1. posting[p] \in Posts
    BY DEF IInv, TypeOK
  <2>2. dropped' = <<>> /\ taken' = taken
    BY <1>4 DEF PushInsert
  <2>3. dropped' \o list' = list'
    BY <1>1, <2>2
  <2>4. list' = IF posting[p] \in QuitPosts THEN <<posting[p]>> \o list
                                            ELSE Append(list, posting[p])
    BY <1>4 DEF PushInsert
  <2>5. Deque!Push(posting[p])
    BY <1>4, <2>2, <2>3, <2>4, RoomIsList DEF Deque!Push
  <2> QED
    BY <2>1, <2>5 DEF Deque!Next
<1>5. CASE GetMessage
  <2>1. dropped = <<>> /\ dropped \o list = list /\ dropped' = dropped
    BY <1>5, NothingDropped, QueueAssumption
    DEF GetMessage, producerVars, IInv, LockInv, TypeOK
  <2>2. dropped' \o list' = list'
    BY <1>1, <2>1
  <2>3. CASE list = <<>>
    BY <1>2, <1>5, <2>1, <2>3 DEF GetMessage
  <2>4. CASE list # <<>>
    BY <1>5, <2>1, <2>2, <2>4 DEF GetMessage, Deque!Next, Deque!Pop
  <2> QED
    BY <2>3, <2>4
<1>6. CASE ClearQueue
  <2>1. dropped = <<>> /\ dropped' = dropped
    BY <1>6, NothingDropped, QueueAssumption
    DEF ClearQueue, producerVars, IInv, LockInv, TypeOK
  <2>2. list' = <<>> /\ taken' = taken
    BY <1>6 DEF ClearQueue
  <2>3. dropped' \o list' = <<>>
    BY <1>1, <2>1, <2>2
  <2> QED
    BY <2>2, <2>3 DEF Deque!Next, Deque!Clear
<1> QED
  BY <1>2, <1>3, <1>4, <1>5, <1>6
  DEF Next, Push, Consume, vars, producerVars, PushLock, PushSignal, PushUnlock,
      WaitCheck, EventEnter, EventReturn, EventSpurious, EventTimeout

\* Producers, the two locks, the drop loop and the two-step wait together behave
\* like the atomic bounded deque, for any number of producers and any limit.
THEOREM QueueImplementsDeque == Spec => ImplementsDeque
<1>1. Init => Deque!Init
  BY DEF Init, Deque!Init
<1>2. IInv /\ IInv' /\ [Next]_vars => [Deque!Next]_(Deque!vars)
  BY StepImplements
<1> QED
  BY <1>1, <1>2, Invariance, PTL DEF Spec, ImplementsDeque, Deque!Spec

-----------------------------------------------------------------------------
(* The way of a message through the queue: what EveryMessageLeaves rests on. *)

IsIn(m, t) == \E i \in 1..Len(t) : t[i] = m

\* A post that is still to come into the list.
Coming(m) == m \in unposted \/ \E p \in Producers : ppc[p] = "insert" /\ posting[p] = m

\* A post is in one place only.
OnceInv ==
    /\ \A i, j \in 1..Len(list) : list[i] = list[j] => i = j
    /\ \A i \in 1..Len(list) : ~Coming(list[i])
    /\ \A p \in Producers : ppc[p] = "insert" => posting[p] \notin unposted

\* A message gets nearer to the front, or out, and nothing comes before it but a quit
\* request that was not there; one that has left does not come back.  While there is one,
\* the script goes on, finds the flag, or is about to be woken.
MovesUp ==
    /\ \A i \in 1..Len(list), j \in 1..Len(list') : list'[j] = list[i] =>
          j <= i \/ (j = i + 1 /\ list'[1] \in QuitPosts /\ ~IsIn(list'[1], list))
    /\ \A m \in Posts : ~Coming(m) /\ ~IsIn(m, list) => ~Coming(m)' /\ ~IsIn(m, list')
    /\ taken' # taken => ~IsIn(taken'[1], list')
    /\ list # <<>> => \/ cpc \in {"fetch", "check", "woken"}
                      \/ cpc = "enter" /\ triggered
                      \/ \E p \in Producers : ppc[p] = "signal"

\* A list with every message at most once, and the places of its messages in the next.
Distinct(t) == \A i, j \in 1..Len(t) : t[i] = t[j] => i = j
UpOrBehind(t, u) ==
    \A i \in 1..Len(t), j \in 1..Len(u) : u[j] = t[i] =>
        j <= i \/ (j = i + 1 /\ u[1] \in QuitPosts /\ ~IsIn(u[1], t))

\* A list whose first message is taken away,
LEMMA WithoutFirst ==
    ASSUME NEW t \in Seq(Posts), t # <<>>, Distinct(t)
    PROVE  /\ Distinct(Tail(t)) /\ UpOrBehind(t, Tail(t)) /\ ~IsIn(Head(t), Tail(t))
           /\ \A m : IsIn(m, Tail(t)) => IsIn(m, t)
<1> DEFINE u == Tail(t)
<1>1. /\ Len(u) = Len(t) - 1 /\ Head(t) = t[1] /\ Len(t) \in Nat \ {0}
      /\ \A i \in 1..Len(u) : u[i] = t[i + 1] /\ i + 1 \in 1..Len(t)
  OBVIOUS
<1> HIDE DEF u
<1>2. Distinct(u)
  BY <1>1 DEF Distinct
<1>3. UpOrBehind(t, u)
  BY <1>1 DEF Distinct, UpOrBehind
<1>4. ~IsIn(Head(t), u)
  BY <1>1 DEF Distinct, IsIn
<1>5. \A m : IsIn(m, u) => IsIn(m, t)
  BY <1>1 DEF IsIn
<1> QED
  BY <1>2, <1>3, <1>4, <1>5 DEF u

\* one with a new message at its end,
LEMMA WithLast ==
    ASSUME NEW t \in Seq(Posts), Distinct(t), NEW m \in Posts, ~IsIn(m, t)
    PROVE  /\ Distinct(Append(t, m)) /\ UpOrBehind(t, Append(t, m))
           /\ \A n : IsIn(n, Append(t, m)) => n = m \/ IsIn(n, t)
<1> DEFINE u == Append(t, m)
<1>1. /\ Len(u) = Len(t) + 1 /\ Len(t) \in Nat /\ u[Len(t) + 1] = m
      /\ \A i \in 1..Len(t) : u[i] = t[i] /\ u[i] # m
  BY DEF IsIn
<1> HIDE DEF u
<1>2. \A i \in 1..Len(u) : i \in 1..Len(t) \/ i = Len(t) + 1
  BY <1>1
<1>3. Distinct(u)
  BY <1>1, <1>2 DEF Distinct
<1>4. UpOrBehind(t, u)
  <2>1. SUFFICES ASSUME NEW i \in 1..Len(t), NEW j \in 1..Len(u), u[j] = t[i] PROVE j <= i
    BY DEF UpOrBehind
  <2> QED
    BY <1>1, <1>2, <2>1 DEF Distinct
<1>5. \A n : IsIn(n, u) => n = m \/ IsIn(n, t)
  BY <1>1, <1>2 DEF IsIn
<1> QED
  BY <1>3, <1>4, <1>5 DEF u

\* and one with a new quit request in front.
LEMMA WithFirst ==
    ASSUME NEW t \in Seq(Posts), Distinct(t), NEW m \in Posts, ~IsIn(m, t), m \in QuitPosts
    PROVE  /\ Distinct(<<m>> \o t) /\ UpOrBehind(t, <<m>> \o t)
           /\ \A n : IsIn(n, <<m>> \o t) => n = m \/ IsIn(n, t)
<1> DEFINE u == <<m>> \o t
<1>1. /\ Len(u) = Len(t) + 1 /\ Len(t) \in Nat /\ u[1] = m
      /\ \A i \in 2..Len(u) : u[i] = t[i - 1] /\ i - 1 \in 1..Len(t)
  OBVIOUS
<1>2. \A i \in 1..Len(t) : t[i] # m
  BY DEF IsIn
<1> HIDE DEF u
<1>3. \A i \in 1..Len(u) : i = 1 \/ i \in 2..Len(u)
  BY <1>1
<1>4. Distinct(u)
  <2>1. SUFFICES ASSUME NEW i \in 1..Len(u), NEW j \in 1..Len(u), u[i] = u[j] PROVE i = j
    BY DEF Distinct
  <2>2. CASE i = 1 \/ j = 1
    BY <1>1, <1>2, <1>3, <2>1, <2>2
  <2>3. CASE i # 1 /\ j # 1
    <3>1. i \in 2..Len(u) /\ j \in 2..Len(u) /\ t[i - 1] = t[j - 1]
      BY <1>1, <1>3, <2>1, <2>3
    <3>2. i - 1 = j - 1
      BY <1>1, <3>1 DEF Distinct
    <3> QED
      BY <3>1, <3>2
  <2> QED
    BY <2>2, <2>3
<1>5. UpOrBehind(t, u)
  <2>1. SUFFICES ASSUME NEW i \in 1..Len(t), NEW j \in 1..Len(u), u[j] = t[i]
                 PROVE  j = i + 1
    BY <1>1 DEF UpOrBehind
  <2>2. j \in 2..Len(u) /\ t[j - 1] = t[i]
    BY <1>1, <1>2, <1>3, <2>1
  <2>3. j - 1 = i
    BY <1>1, <2>2 DEF Distinct
  <2> QED
    BY <2>2, <2>3
<1>6. \A n : IsIn(n, u) => n = m \/ IsIn(n, t)
  BY <1>1, <1>3 DEF IsIn
<1> QED
  BY <1>4, <1>5, <1>6 DEF u

\* A list that stays, or is emptied.
LEMMA SameOrEmpty ==
    ASSUME NEW t \in Seq(Posts), Distinct(t)
    PROVE  /\ UpOrBehind(t, t) /\ UpOrBehind(t, <<>>) /\ Distinct(<<>>)
           /\ \A m : ~IsIn(m, <<>>)
  BY DEF Distinct, UpOrBehind, IsIn

\* A step that inserts no message: what comes into a list came from a producer.
LEMMA QuietOnce ==
    ASSUME TypeOK, OnceInv, Distinct(list'), UpOrBehind(list, list'),
           \A m : IsIn(m, list') => IsIn(m, list),
           \A m : Coming(m)' => Coming(m),
           \A p \in Producers : ppc'[p] = "insert" => posting'[p] \notin unposted'
    PROVE  /\ OnceInv' /\ UpOrBehind(list, list')
           /\ \A m \in Posts : ~Coming(m) /\ ~IsIn(m, list) => ~Coming(m)' /\ ~IsIn(m, list')
<1>1. \A i \in 1..Len(list') : IsIn(list'[i], list')
  BY DEF IsIn
<1>2. \A m : IsIn(m, list) => ~Coming(m)
  BY DEF OnceInv, IsIn
<1>3. \A m : IsIn(m, list') => ~Coming(m)'
  BY <1>2
<1>4. OnceInv'
  BY <1>1, <1>3 DEF OnceInv, Distinct, Coming
<1> QED
  BY <1>4

\* Every step moves the messages as it should.
LEMMA OnceStep ==
    ASSUME TypeOK, LockInv, OnceInv, [Next]_vars
    PROVE  /\ OnceInv' /\ UpOrBehind(list, list')
           /\ \A m \in Posts : ~Coming(m) /\ ~IsIn(m, list) => ~Coming(m)' /\ ~IsIn(m, list')
           /\ taken' # taken => ~IsIn(taken'[1], list')
<1> DEFINE Once == /\ OnceInv' /\ UpOrBehind(list, list')
                   /\ \A m \in Posts : ~Coming(m) /\ ~IsIn(m, list) =>
                         ~Coming(m)' /\ ~IsIn(m, list')
<1>t. list \in Seq(Posts) /\ Distinct(list)
  BY DEF TypeOK, OnceInv, Distinct
<1>q. ASSUME list' = list \/ list' = <<>> \/ (list # <<>> /\ list' = Tail(list))
      PROVE  /\ Distinct(list') /\ UpOrBehind(list, list')
             /\ \A m : IsIn(m, list') => IsIn(m, list)
  BY <1>t, <1>q, WithoutFirst, SameOrEmpty
<1>r. ASSUME UNCHANGED producerVars
      PROVE  /\ \A m : Coming(m)' => Coming(m)
             /\ \A p \in Producers : ppc'[p] = "insert" => posting'[p] \notin unposted'
  BY <1>r DEF producerVars, Coming, OnceInv
<1>1. ASSUME NEW p \in Producers, NEW m \in Posts, PushLock(p, m) PROVE Once
  <2>1. list' = list
    BY <1>1 DEF PushLock
  <2>2. \A n : Coming(n)' => Coming(n)
    BY <1>1 DEF PushLock, Coming, TypeOK
  <2>3. \A u \in Producers : u # p => ppc[u] = "idle"
    BY <1>1, QueueAssumption DEF PushLock, LockInv, TypeOK
  <2>4. \A u \in Producers : ppc'[u] = "insert" => posting'[u] \notin unposted'
    BY <1>1, <2>3 DEF PushLock, TypeOK
  <2> QED
    BY <1>q, <2>1, <2>2, <2>4, QuietOnce
<1>2. ASSUME NEW p \in Producers, PushDrop(p) PROVE Once
  <2>1. list # <<>> /\ list' = Tail(list)
    BY <1>t, <1>2, QueueAssumption DEF PushDrop, Full
  <2>2. UNCHANGED <<ppc, posting, unposted>>
    BY <1>2 DEF PushDrop
  <2>3. /\ \A m : Coming(m)' => Coming(m)
        /\ \A u \in Producers : ppc'[u] = "insert" => posting'[u] \notin unposted'
    BY <2>2 DEF Coming, OnceInv
  <2> QED
    BY <1>q, <2>1, <2>3, QuietOnce
<1>3. ASSUME NEW p \in Producers, PushInsert(p) PROVE Once
  <2> DEFINE m == posting[p]
  <2>1. m \in Posts /\ Coming(m) /\ ~IsIn(m, list) /\ m \notin unposted
    BY <1>3 DEF PushInsert, TypeOK, Coming, OnceInv, IsIn
  <2>2. \A u \in Producers : u # p => ppc[u] = "idle"
    BY <1>3, QueueAssumption DEF PushInsert, LockInv, TypeOK
  <2>3. /\ ppc' = [ppc EXCEPT ![p] = "signal"] /\ UNCHANGED <<posting, unposted>>
        /\ list' = IF m \in QuitPosts THEN <<m>> \o list ELSE Append(list, m)
    BY <1>3 DEF PushInsert
  <2> HIDE DEF m
  <2>4. /\ Distinct(list') /\ UpOrBehind(list, list')
        /\ \A n : IsIn(n, list') => n = m \/ IsIn(n, list)
    BY <1>t, <2>1, <2>3, WithFirst, WithLast
  <2>5. \A u \in Producers : ppc'[u] # "insert"
    BY <2>2, <2>3 DEF TypeOK
  <2>6. \A n : Coming(n)' => n \in unposted
    BY <2>3, <2>5 DEF Coming
  <2>7. \A n : IsIn(n, list) => ~Coming(n)
    BY DEF OnceInv, IsIn
  <2>8. \A n : IsIn(n, list') => n \notin unposted
    BY <2>1, <2>4, <2>7 DEF Coming
  <2>9. OnceInv'
    <3>1. \A i \in 1..Len(list') : IsIn(list'[i], list')
      BY DEF IsIn
    <3> QED
      BY <2>3, <2>4, <2>5, <2>8, <3>1 DEF OnceInv, Distinct, Coming
  <2>10. \A n \in Posts : ~Coming(n) /\ ~IsIn(n, list) => ~Coming(n)' /\ ~IsIn(n, list')
    BY <2>1, <2>4, <2>6 DEF Coming
  <2> QED
    BY <2>4, <2>9, <2>10
<1>4. ASSUME NEW p \in Producers, PushSignal(p) \/ PushUnlock(p) PROVE Once
  <2>1. list' = list /\ UNCHANGED <<posting, unposted>>
        /\ \A u \in Producers : ppc'[u] = "insert" => ppc[u] = "insert"
    BY <1>4 DEF PushSignal, PushUnlock, TypeOK
  <2>2. /\ \A m : Coming(m)' => Coming(m)
        /\ \A u \in Producers : ppc'[u] = "insert" => posting'[u] \notin unposted'
    BY <2>1 DEF Coming, OnceInv
  <2> QED
    BY <1>q, <2>1, <2>2, QuietOnce
<1>5. CASE GetMessage
  <2>1. UNCHANGED producerVars
    BY <1>5 DEF GetMessage
  <2>2. list' = list \/ (list # <<>> /\ list' = Tail(list))
    BY <1>5 DEF GetMessage
  <2>3. Once
    BY <1>q, <1>r, <2>1, <2>2, QuietOnce
  <2>4. taken' # taken => ~IsIn(taken'[1], list')
    <3>1. SUFFICES ASSUME taken' # taken PROVE ~IsIn(taken'[1], list')
      OBVIOUS
    <3>2. list # <<>> /\ taken' = <<Head(list)>> /\ list' = Tail(list)
      BY <1>5, <3>1 DEF GetMessage
    <3> QED
      BY <1>t, <3>2, WithoutFirst
  <2> QED
    BY <2>3, <2>4
<1>6. CASE ClearQueue \/ WaitCheck \/ EventEnter \/ EventReturn \/ EventSpurious \/ EventTimeout
  <2>1. UNCHANGED producerVars /\ (list' = list \/ list' = <<>>)
    BY <1>6 DEF ClearQueue, WaitCheck, EventEnter, EventReturn, EventSpurious, EventTimeout
  <2> QED
    BY <1>q, <1>r, <1>6, <2>1, QuietOnce
    DEF ClearQueue, WaitCheck, EventEnter, EventReturn, EventSpurious, EventTimeout
<1>7. CASE UNCHANGED vars
  <2>1. UNCHANGED producerVars /\ list' = list /\ taken' = taken
    BY <1>7 DEF vars, producerVars
  <2> QED
    BY <1>q, <1>r, <2>1, QuietOnce
<1>8. ASSUME NEW p \in Producers, Push(p) PROVE taken' = taken
  BY <1>8 DEF Push, PushLock, PushDrop, PushInsert, PushSignal, PushUnlock
<1> QED
  BY <1>1, <1>2, <1>3, <1>4, <1>5, <1>6, <1>7, <1>8 DEF Next, Push, Consume

\* No message overtakes another but a quit request, none comes twice, and a script that
\* has one to take is never asleep without somebody who is about to wake it (MovesUp).
THEOREM MessagesMoveUp == Spec => [][MovesUp]_vars
<1>1. Init => OnceInv
  BY DEF Init, OnceInv
<1>2. IInv /\ OnceInv /\ [Next]_vars => OnceInv' /\ MovesUp
  <2>1. SUFFICES ASSUME IInv, OnceInv, [Next]_vars PROVE OnceInv' /\ MovesUp
    OBVIOUS
  <2>2. list # <<>> => \/ cpc \in {"fetch", "check", "woken"}
                       \/ cpc = "enter" /\ triggered
                       \/ \E p \in Producers : ppc[p] = "signal"
    BY <2>1 DEF IInv, Safe, TypeOK, ConsumerStates, EnterInv, NoLostWakeup
  <2> QED
    BY <2>1, <2>2, OnceStep DEF IInv, MovesUp, UpOrBehind
<1> QED
  BY <1>1, <1>2, Invariance, PTL DEF Spec

-----------------------------------------------------------------------------
(* The script object.                                                      *)

\* The handle is there from the end of the constructor to the join, and without
\* it there is no thread, or no thread any more.
HandleInv ==
    /\ handle => tpc # "none"
    /\ opc \in {"spawn", "failed"} => tpc = "none"
    /\ opc = "assign" => tpc # "none" /\ ~handle
    /\ ~handle /\ opc # "assign" => tpc \in {"none", "exited"}
    /\ opc = "join" \/ (opc = "stop_check" /\ ret = "join") => handle
    /\ opc \in StopSteps \ {"stop_check"} => handle
    /\ opc \in {"spawn", "assign", "failed", "release", "gone"} => ~handle
    /\ completed <=> tpc = "exited"

\* m_script is set while the state lives.
LuaInv ==
    /\ mscript => lua = "alive" /\ tpc \in {"begin", "run", "null"}
    /\ tpc = "begin" => ~mscript

\* Past the end of i_on_thread_end() a call that is up was hung up.
HangupInv == kind = "call" /\ active /\ tpc \in {"last", "complete", "exited"} => hung

\* A quit request that was posted is in the queue, or was thrown away or taken.
QuitInv == exit /\ opc # "stop_quit" /\ ~cleared /\ prog # "returns" => quit

ScriptIInv == ScriptTypeOK /\ HandleInv /\ LuaInv /\ HangupInv /\ QuitInv

-----------------------------------------------------------------------------
(* The inductive invariant: the owner's steps, then the thread's.          *)

\* The constructor is about to start the thread.
LEMMA ScriptInitInv == ScriptInit => ScriptIInv
  BY DEF ScriptInit, ScriptIInv, ScriptTypeOK, HandleInv, LuaInv, HangupInv, QuitInv, OwnerSteps, StopSteps, ThreadSteps

\* The constructor starts the thread, or cleans up when it cannot.
LEMMA ConstructInv ==
    ASSUME ScriptIInv, SpawnThread \/ StoreHandle \/ SpawnFails \/ CleanFailed PROVE ScriptIInv'
<1> USE DEF ScriptIInv, ScriptTypeOK, threadVars, flagVars, OwnerSteps, StopSteps, ThreadSteps,
            SpawnThread, StoreHandle, SpawnFails, CleanFailed
<1>1. ScriptTypeOK'
  OBVIOUS
<1>2. HandleInv'
  BY DEF HandleInv
<1>3. LuaInv' /\ HangupInv' /\ QuitInv'
  BY DEF HandleInv, LuaInv, HangupInv, QuitInv
<1> QED
  BY <1>1, <1>2, <1>3

\* stop() sees a thread that has not completed, and tells it to go.
LEMMA StopInv ==
    ASSUME ScriptIInv, \/ StopBegin \/ StopCheck \/ StopPort \/ StopHook
                 \/ StopActive \/ StopExit \/ StopQuit
    PROVE  ScriptIInv'
<1> USE DEF ScriptIInv, ScriptTypeOK, threadVars, flagVars, OwnerSteps, StopSteps, ThreadSteps,
            StopBegin, StopCheck, StopPort, StopHook, StopActive, StopExit, StopQuit
<1>1. ScriptTypeOK'
  OBVIOUS
<1>2. HandleInv'
  BY DEF HandleInv
<1>3. LuaInv' /\ HangupInv' /\ QuitInv'
  BY DEF HandleInv, LuaInv, HangupInv, QuitInv
<1> QED
  BY <1>1, <1>2, <1>3

\* The destructor stops the script, waits for its thread and releases the rest.
LEMMA DestroyInv ==
    ASSUME ScriptIInv, DeleteBegin \/ CleanStop \/ JoinThread \/ Release PROVE ScriptIInv'
<1> USE DEF ScriptIInv, ScriptTypeOK, threadVars, flagVars, OwnerSteps, StopSteps, ThreadSteps,
            DeleteBegin, CleanStop, JoinThread, Release
<1>1. ScriptTypeOK'
  OBVIOUS
<1>2. HandleInv'
  BY DEF HandleInv
<1>3. LuaInv' /\ HangupInv' /\ QuitInv'
  BY DEF HandleInv, LuaInv, HangupInv, QuitInv
<1> QED
  BY <1>1, <1>2, <1>3

\* The thread looks whether to run the script, and creates the Lua state.
LEMMA ThreadStartInv ==
    ASSUME ScriptIInv, ThreadBegin \/ ThreadReady \/ ThreadReady2 \/ CreateLua PROVE ScriptIInv'
<1> USE DEF ScriptIInv, ScriptTypeOK, ThreadOnly, ownerVars, flagVars, OwnerSteps, StopSteps, ThreadSteps,
            ThreadBegin, ThreadReady, ThreadReady2, CreateLua
<1>1. ScriptTypeOK'
  OBVIOUS
<1>2. HandleInv'
  BY DEF HandleInv
<1>3. LuaInv' /\ HangupInv' /\ QuitInv'
  BY DEF LuaInv, HangupInv, QuitInv
<1> QED
  BY <1>1, <1>2, <1>3

\* The Lua program runs.
LEMMA LuaRunInv ==
    ASSUME ScriptIInv, \/ LuaTerminated \/ LuaReturns \/ LuaFails
                 \/ LuaConfirmed \/ LuaClear \/ LuaQuit
    PROVE  ScriptIInv'
<1> USE DEF ScriptIInv, ScriptTypeOK, ThreadOnly, ownerVars, flagVars, OwnerSteps, StopSteps, ThreadSteps,
            LuaPrograms, LuaTerminated, LuaReturns, LuaFails, LuaConfirmed, LuaClear, LuaQuit
<1>1. ScriptTypeOK'
  OBVIOUS
<1>2. HandleInv'
  BY DEF HandleInv
<1>3. LuaInv' /\ HangupInv' /\ QuitInv'
  BY DEF LuaInv, HangupInv, QuitInv
<1> QED
  BY <1>1, <1>2, <1>3

\* The thread deletes the Lua state, hangs the call up and completes.
LEMMA ThreadFinishInv ==
    ASSUME ScriptIInv, \/ ClearScript \/ DeleteLua \/ ThreadEnd \/ HangupCall
                 \/ ThreadLast \/ ThreadComplete
    PROVE  ScriptIInv'
<1> USE DEF ScriptIInv, ScriptTypeOK, ThreadOnly, ownerVars, flagVars, OwnerSteps, StopSteps, ThreadSteps,
            ClearScript, DeleteLua, ThreadEnd, HangupCall, ThreadLast, ThreadComplete
<1>1. ScriptTypeOK'
  OBVIOUS
<1>2. HandleInv'
  BY DEF HandleInv
<1>3. LuaInv' /\ HangupInv' /\ QuitInv'
  BY DEF LuaInv, HangupInv, QuitInv
<1> QED
  BY <1>1, <1>2, <1>3

\* The invariant holds in every state of every run.
LEMMA ScriptInvariance == ScriptSpec => []ScriptIInv
<1>1. ScriptIInv /\ [ScriptNext]_scriptVars => ScriptIInv'
  <2> SUFFICES ASSUME ScriptIInv, [ScriptNext]_scriptVars PROVE ScriptIInv'
    OBVIOUS
  <2>1. CASE SpawnThread \/ StoreHandle \/ SpawnFails \/ CleanFailed
    BY <2>1, ConstructInv
  <2>2. CASE \/ StopBegin \/ StopCheck \/ StopPort \/ StopHook
             \/ StopActive \/ StopExit \/ StopQuit
    BY <2>2, StopInv
  <2>3. CASE DeleteBegin \/ CleanStop \/ JoinThread \/ Release
    BY <2>3, DestroyInv
  <2>4. CASE ThreadBegin \/ ThreadReady \/ ThreadReady2 \/ CreateLua
    BY <2>4, ThreadStartInv
  <2>5. CASE \/ LuaTerminated \/ LuaReturns \/ LuaFails
             \/ LuaConfirmed \/ LuaClear \/ LuaQuit
    BY <2>5, LuaRunInv
  <2>6. CASE \/ ClearScript \/ DeleteLua \/ ThreadEnd \/ HangupCall
             \/ ThreadLast \/ ThreadComplete
    BY <2>6, ThreadFinishInv
  <2>7. CASE Gone \/ UNCHANGED scriptVars
    BY <2>7 DEF Gone, ScriptIInv, ScriptTypeOK, HandleInv, LuaInv, HangupInv, QuitInv,
                scriptVars, ownerVars, threadVars, flagVars
  <2> QED
    BY <2>1, <2>2, <2>3, <2>4, <2>5, <2>6, <2>7 DEF ScriptNext, OwnerGoesOn, ThreadGoesOn
<1> QED
  BY <1>1, ScriptInitInv, PTL DEF ScriptSpec

-----------------------------------------------------------------------------
(* The theorems.                                                           *)

\* pjs_intercom_script keeps its types.
THEOREM ScriptTypeCorrect == ScriptSpec => []ScriptTypeOK
<1> QED
  BY ScriptInvariance, PTL DEF ScriptIInv

\* stop() never sets the terminate hook on a Lua state that its thread has deleted.
THEOREM NeverDangling == ScriptSpec => []NoDanglingLua
<1>1. ScriptIInv => NoDanglingLua
  BY DEF ScriptIInv, LuaInv, NoDanglingLua
<1> QED
  BY <1>1, ScriptInvariance, PTL

\* A call whose script has completed was stopped, or hung up by i_on_thread_end().
THEOREM HangsUpAtEnd == ScriptSpec => []EndedScriptHangsUp
<1>1. ScriptIInv => EndedScriptHangsUp
  BY DEF ScriptIInv, HandleInv, HangupInv, EndedScriptHangsUp
<1> QED
  BY <1>1, ScriptInvariance, PTL

\* A script that was stopped before a hook could be set finds IM_QUIT in its queue.
THEOREM QuitIsThere == ScriptSpec => []QuitWaitsForScript
<1>1. ScriptIInv => QuitWaitsForScript
  BY DEF ScriptIInv, QuitInv, QuitWaitsForScript
<1> QED
  BY <1>1, ScriptInvariance, PTL

\* The object lives the life of ScriptLife: it is deleted only before its thread
\* ran or after it completed, and a stop is never taken back.
THEOREM LivesScriptLife == ScriptSpec => ImplementsScriptLife
<1> USE DEF Phase, Life!Next, Life!Start, Life!Stop, Life!Complete, Life!Delete, Life!vars
<1>1. ScriptInit => Life!Init
  BY DEF ScriptInit, Life!Init
<1>2. ScriptIInv /\ [ScriptNext]_scriptVars => [Life!Next]_Life!vars
  <2> SUFFICES ASSUME ScriptIInv, [ScriptNext]_scriptVars PROVE [Life!Next]_Life!vars
    OBVIOUS
  <2> USE DEF ScriptIInv, ScriptTypeOK, HandleInv, StopSteps
  <2>1. CASE SpawnThread \/ StoreHandle \/ SpawnFails \/ CleanFailed
    BY <2>1 DEF SpawnThread, StoreHandle, SpawnFails, CleanFailed, threadVars, flagVars
  <2>2. CASE StopExit
    BY <2>2 DEF StopExit, threadVars
  <2>3. CASE StopBegin \/ StopCheck \/ StopPort \/ StopHook \/ StopActive \/ StopQuit
    BY <2>3 DEF StopBegin, StopCheck, StopPort, StopHook, StopActive, StopQuit,
                threadVars, flagVars
  <2>4. CASE DeleteBegin \/ CleanStop \/ JoinThread \/ Release
    BY <2>4 DEF DeleteBegin, CleanStop, JoinThread, Release, threadVars, flagVars
  <2>5. CASE \/ ThreadBegin \/ ThreadReady \/ ThreadReady2 \/ CreateLua
             \/ LuaTerminated \/ LuaReturns \/ LuaFails \/ LuaConfirmed
             \/ ClearScript \/ DeleteLua \/ ThreadEnd \/ HangupCall \/ ThreadLast
    BY <2>5 DEF ThreadBegin, ThreadReady, ThreadReady2, CreateLua, LuaTerminated, LuaReturns,
                LuaFails, LuaConfirmed, ClearScript, DeleteLua, ThreadEnd, HangupCall,
                ThreadLast, ThreadOnly, ownerVars, flagVars
  <2>6. CASE LuaClear \/ LuaQuit
    BY <2>6 DEF LuaClear, LuaQuit, ownerVars
  <2>7. CASE ThreadComplete
    BY <2>7 DEF ThreadComplete, ThreadOnly, ownerVars, flagVars
  <2>8. CASE Gone \/ UNCHANGED scriptVars
    BY <2>8 DEF Gone, scriptVars, ownerVars, threadVars, flagVars
  <2> QED
    BY <2>1, <2>2, <2>3, <2>4, <2>5, <2>6, <2>7, <2>8 DEF ScriptNext, OwnerGoesOn, ThreadGoesOn
<1> QED
  BY <1>1, <1>2, ScriptInvariance, PTL DEF ScriptSpec, ImplementsScriptLife, Life!Spec

-----------------------------------------------------------------------------
(* A stopped script and its end: what StoppedScriptEnds rests on.           *)

\* stop() marks a call inactive before it sets the exit flag, and stops only a
\* script whose thread was started.
CalledOffInv ==
    /\ kind = "call" /\ (exit \/ opc = "stop_exit") => ~active
    /\ exit => tpc # "none"

\* The steps of script_thread_proc still to come,
ThreadToGo == [none |-> 12, begin |-> 11, ready |-> 10, ready2 |-> 9, create |-> 8,
                   run |-> 7, null |-> 6, delete |-> 5, end |-> 4, hangup |-> 3,
                   last |-> 2, complete |-> 1, exited |-> 0]
ThreadAhead == ThreadToGo[tpc]

\* those of its Lua program,
LuaToGo == [spin |-> 2, clear |-> 2, ivr |-> 1, returns |-> 0]
LuaAhead == LuaToGo[prog]

\* and both together.
Ahead == 3 * ThreadAhead + LuaAhead

\* The thread has a step to make.
ThreadCanGoOn ==
    /\ tpc \notin {"none", "exited"}
    /\ tpc = "run" => hooked \/ prog \in {"returns", "clear"} \/ (prog = "ivr" /\ quit)

\* A stop that a script cannot escape.
Stopped == exit /\ ~OutOfReach

\* A stopped script's thread has a step to make until it has exited.  No step of
\* anybody takes the script out of reach again, or its thread farther from the end,
\* and each of the thread's own brings it nearer.
NearerToItsEnd ==
    Stopped => /\ tpc = "exited" \/ ThreadCanGoOn
               /\ Stopped'
               /\ Ahead' < Ahead \/ (Ahead' = Ahead /\ ~ThreadGoesOn)

\* The order of the statements of stop() keeps CalledOffInv.
LEMMA CalledOffStep ==
    ASSUME ScriptIInv, CalledOffInv, [ScriptNext]_scriptVars PROVE CalledOffInv'
<1> USE DEF ScriptIInv, ScriptTypeOK, HandleInv, CalledOffInv, StopSteps, ThreadOnly, scriptVars,
            ownerVars, threadVars, flagVars
<1>1. CASE SpawnThread \/ StoreHandle \/ SpawnFails \/ CleanFailed
  BY <1>1 DEF SpawnThread, StoreHandle, SpawnFails, CleanFailed
<1>2. CASE \/ StopBegin \/ StopCheck \/ StopPort \/ StopHook
           \/ StopActive \/ StopExit \/ StopQuit
  BY <1>2 DEF StopBegin, StopCheck, StopPort, StopHook, StopActive, StopExit, StopQuit
<1>3. CASE DeleteBegin \/ CleanStop \/ JoinThread \/ Release
  BY <1>3 DEF DeleteBegin, CleanStop, JoinThread, Release
<1>4. CASE ThreadBegin \/ ThreadReady \/ ThreadReady2 \/ CreateLua
  BY <1>4 DEF ThreadBegin, ThreadReady, ThreadReady2, CreateLua
<1>5. CASE \/ LuaTerminated \/ LuaReturns \/ LuaFails
           \/ LuaConfirmed \/ LuaClear \/ LuaQuit
  BY <1>5 DEF LuaTerminated, LuaReturns, LuaFails, LuaConfirmed, LuaClear, LuaQuit
<1>6. CASE \/ ClearScript \/ DeleteLua \/ ThreadEnd \/ HangupCall
           \/ ThreadLast \/ ThreadComplete
  BY <1>6 DEF ClearScript, DeleteLua, ThreadEnd, HangupCall, ThreadLast, ThreadComplete
<1>7. CASE Gone \/ UNCHANGED scriptVars
  BY <1>7 DEF Gone
<1> QED
  BY <1>1, <1>2, <1>3, <1>4, <1>5, <1>6, <1>7 DEF ScriptNext, OwnerGoesOn, ThreadGoesOn

\* The two tables, entry by entry.
LEMMA ToGo ==
    /\ ThreadToGo["begin"] = 11 /\ ThreadToGo["ready"] = 10 /\ ThreadToGo["ready2"] = 9
    /\ ThreadToGo["create"] = 8 /\ ThreadToGo["run"] = 7 /\ ThreadToGo["null"] = 6
    /\ ThreadToGo["delete"] = 5 /\ ThreadToGo["end"] = 4 /\ ThreadToGo["hangup"] = 3
    /\ ThreadToGo["last"] = 2 /\ ThreadToGo["complete"] = 1 /\ ThreadToGo["exited"] = 0
    /\ ThreadToGo["none"] = 12
    /\ LuaToGo["spin"] = 2 /\ LuaToGo["clear"] = 2 /\ LuaToGo["ivr"] = 1 /\ LuaToGo["returns"] = 0
  BY DEF ThreadToGo, LuaToGo

\* The owner does nothing to a script that is stopped which its thread would feel.
LEMMA OwnerLeavesStopped ==
    ASSUME ScriptIInv, CalledOffInv, Stopped,
           \/ SpawnThread \/ StoreHandle \/ SpawnFails \/ CleanFailed
           \/ StopBegin \/ StopCheck \/ StopPort \/ StopHook
           \/ StopActive \/ StopExit \/ StopQuit
           \/ DeleteBegin \/ CleanStop \/ JoinThread \/ Release
           \/ Gone \/ UNCHANGED scriptVars
    PROVE  Stopped' /\ Ahead' = Ahead
<1>1. /\ UNCHANGED <<tpc, prog, kind>>
      /\ exit' = exit \/ exit' = TRUE
      /\ hooked' = hooked \/ hooked' = (hooked \/ mscript)
  <2> USE DEF scriptVars, ownerVars, threadVars, flagVars
  <2>1. CASE SpawnThread
    BY <2>1 DEF SpawnThread, ScriptIInv, HandleInv, Stopped, CalledOffInv
  <2>2. CASE StoreHandle \/ SpawnFails \/ CleanFailed
    BY <2>2 DEF StoreHandle, SpawnFails, CleanFailed
  <2>3. CASE \/ StopBegin \/ StopCheck \/ StopPort \/ StopHook
             \/ StopActive \/ StopExit \/ StopQuit
    BY <2>3 DEF StopBegin, StopCheck, StopPort, StopHook, StopActive, StopExit, StopQuit
  <2>4. CASE \/ DeleteBegin \/ CleanStop \/ JoinThread \/ Release
             \/ Gone \/ UNCHANGED scriptVars
    BY <2>4 DEF DeleteBegin, CleanStop, JoinThread, Release, Gone
  <2> QED
    BY <2>1, <2>2, <2>3, <2>4
<1>2. exit' /\ (hooked => hooked')
  <2>1. exit \in BOOLEAN /\ hooked \in BOOLEAN /\ mscript \in BOOLEAN
    BY DEF ScriptIInv, ScriptTypeOK
  <2>2. exit
    BY DEF Stopped
  <2> QED
    BY <1>1, <2>1, <2>2
<1>3. Ahead' = Ahead
  BY <1>1 DEF Ahead, ThreadAhead, LuaAhead
<1> QED
  BY <1>1, <1>2, <1>3 DEF Stopped, OutOfReach

\* Where a step of the thread leads.
LEMMA ThreadMoves ==
    ASSUME ThreadGoesOn \/ LuaFails \/ LuaConfirmed
    PROVE  /\ UNCHANGED <<kind, active, exit, hooked>>
           /\ \/ /\ prog' = prog
                 /\ \/ tpc = "begin" /\ tpc' = "ready"
                    \/ tpc = "ready" /\ tpc' = (IF active THEN "ready2" ELSE "end")
                    \/ tpc = "ready2" /\ tpc' \in {"create", "end"}
                    \/ tpc = "create" /\ tpc' = "run"
                    \/ tpc = "run" /\ tpc' = "null"
                    \/ tpc = "null" /\ tpc' = "delete"
                    \/ tpc = "delete" /\ tpc' = "end"
                    \/ tpc = "end" /\ tpc' \in {"hangup", "last"}
                    \/ tpc = "hangup" /\ tpc' = "last"
                    \/ tpc = "last" /\ tpc' = "complete"
                    \/ tpc = "complete" /\ tpc' = "exited"
              \/ /\ tpc = "run" /\ tpc' = tpc
                 /\ \/ prog \in {"spin", "clear"} /\ prog' \in {"ivr", "returns"}
                    \/ prog = "ivr" /\ prog' = "returns"
<1> USE DEF ThreadOnly, flagVars
<1>1. CASE ThreadBegin \/ ThreadReady \/ ThreadReady2 \/ CreateLua
  BY <1>1 DEF ThreadBegin, ThreadReady, ThreadReady2, CreateLua
<1>2. CASE LuaTerminated \/ LuaReturns \/ LuaFails
  BY <1>2 DEF LuaTerminated, LuaReturns, LuaFails
<1>3. CASE LuaConfirmed \/ LuaClear \/ LuaQuit
  BY <1>3 DEF LuaConfirmed, LuaClear, LuaQuit
<1>4. CASE ClearScript \/ DeleteLua \/ ThreadEnd
  BY <1>4 DEF ClearScript, DeleteLua, ThreadEnd
<1>5. CASE HangupCall \/ ThreadLast \/ ThreadComplete
  BY <1>5 DEF HangupCall, ThreadLast, ThreadComplete
<1> QED
  BY <1>1, <1>2, <1>3, <1>4, <1>5 DEF ThreadGoesOn

\* What the thread does brings it nearer to its end.
LEMMA ThreadComesNearer ==
    ASSUME ScriptIInv, CalledOffInv, Stopped, ThreadGoesOn \/ LuaFails \/ LuaConfirmed
    PROVE  Stopped' /\ Ahead' < Ahead
<1>1. exit /\ (hooked \/ /\ tpc \notin {"ready2", "create", "run"}
                         /\ kind = "thread" => tpc \notin {"begin", "ready"})
  BY DEF Stopped, OutOfReach
<1>2. /\ kind \in {"call", "thread"} /\ prog \in LuaPrograms /\ tpc \in ThreadSteps
      /\ exit \in BOOLEAN /\ hooked \in BOOLEAN /\ active \in BOOLEAN
      /\ kind = "call" => ~active
  BY <1>1 DEF ScriptIInv, ScriptTypeOK, CalledOffInv
<1>3. Stopped'
  BY <1>1, <1>2, ThreadMoves DEF Stopped, OutOfReach
<1>4. Ahead' < Ahead
  <2>1. CASE prog' = prog
    <3>1. ThreadToGo[tpc'] < ThreadToGo[tpc] /\ ThreadToGo[tpc'] \in Nat /\ ThreadToGo[tpc] \in Nat
      BY <2>1, <1>2, ThreadMoves, ToGo DEF LuaPrograms
    <3>2. LuaToGo[prog] \in Nat
      BY <1>2, ToGo DEF LuaPrograms
    <3> QED
      BY <2>1, <3>1, <3>2 DEF Ahead, ThreadAhead, LuaAhead
  <2>2. CASE prog' # prog
    <3>1. tpc' = tpc /\ LuaToGo[prog'] < LuaToGo[prog] /\ LuaToGo[prog'] \in Nat /\ LuaToGo[prog] \in Nat
      BY <2>2, ThreadMoves, ToGo
    <3>2. ThreadToGo[tpc] \in Nat
      BY <1>2, ToGo DEF ThreadSteps
    <3> QED
      BY <3>1, <3>2 DEF Ahead, ThreadAhead, LuaAhead
  <2> QED
    BY <2>1, <2>2
<1> QED
  BY <1>3, <1>4

\* A stop that reached the script's Lua state, or came before the thread looked whether
\* to create one, ends the script: pjs_intercom_script's thread cannot be kept from it,
\* by the Lua program, by a second stop() or by the destructor.
THEOREM StoppedGoesToItsEnd == ScriptSpec => [][NearerToItsEnd]_scriptVars
<1>1. ScriptInit => CalledOffInv
  BY DEF ScriptInit, CalledOffInv
<1>2. ScriptIInv /\ CalledOffInv /\ [ScriptNext]_scriptVars => CalledOffInv'
  BY CalledOffStep
<1>3. ScriptIInv /\ CalledOffInv /\ [ScriptNext]_scriptVars => [NearerToItsEnd]_scriptVars
  <2> SUFFICES ASSUME ScriptIInv, CalledOffInv, [ScriptNext]_scriptVars, Stopped
               PROVE  /\ tpc = "exited" \/ ThreadCanGoOn
                      /\ Stopped'
                      /\ Ahead' < Ahead \/ (Ahead' = Ahead /\ ~ThreadGoesOn)
    BY DEF NearerToItsEnd
  <2>1. tpc = "exited" \/ ThreadCanGoOn
    BY DEF CalledOffInv, Stopped, OutOfReach, ThreadCanGoOn
  <2>2. CASE ThreadGoesOn \/ LuaFails \/ LuaConfirmed
    BY <2>1, <2>2, ThreadComesNearer
  <2>3. CASE /\ ~ThreadGoesOn
             /\ \/ SpawnThread \/ StoreHandle \/ SpawnFails \/ CleanFailed
                \/ StopBegin \/ StopCheck \/ StopPort \/ StopHook
                \/ StopActive \/ StopExit \/ StopQuit
                \/ DeleteBegin \/ CleanStop \/ JoinThread \/ Release
                \/ Gone \/ UNCHANGED scriptVars
    BY <2>1, <2>3, OwnerLeavesStopped
  <2> QED
    BY <2>2, <2>3 DEF ScriptNext, OwnerGoesOn
<1> QED
  BY <1>1, <1>2, <1>3, ScriptInvariance, PTL DEF ScriptSpec

=============================================================================
