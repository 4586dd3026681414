---------------------------- MODULE MessageQueue ----------------------------
(***************************************************************************)
(* The control-message queue between the program's threads and a script:   *)
(* pjs_list and the pjs_event it signals (src/intercom/pjs_utils.h).       *)
(*                                                                         *)
(* Producers are the threads that push messages: SIP callbacks, the voice  *)
(* response ports, the hardware controller, and stop(), which pushes       *)
(* IM_QUIT at the front.  The one consumer is the script that owns the     *)
(* queue and runs the loop of scripts/call.lua: take a message, and when   *)
(* there is none wait on the queue with a timeout.                         *)
(*                                                                         *)
(* m_lock guards the list and is held over a whole push, the signal        *)
(* included.  The event has a mutex of its own; each of its operations is  *)
(* one step, except that a waiter is out of the mutex between blocking on  *)
(* the condition variable and getting the mutex back.                      *)
(***************************************************************************)
EXTENDS Naturals, Sequences

CONSTANTS Producers,    \* the threads that push
          Posts,        \* the posts that can be made, each at most once
          QuitPosts,    \* those that are IM_QUIT, pushed with at_front = true
          MaxElements,  \* m_max_elements: PJS_MAX_CONTROL_MESSAGES in the code
          NoThread      \* value of lock when the mutex is free

ASSUME QueueAssumption ==
    /\ Posts # {} /\ QuitPosts \subseteq Posts
    /\ MaxElements \in Nat
    /\ NoThread \notin Producers

VARIABLES list,       \* m_list
          lock,       \* owner of m_lock: a producer or NoThread
          triggered,  \* m_event.m_triggered
          ppc,        \* where each producer is inside push()
          posting,    \* the message each producer is pushing
          unposted,   \* posts not made yet
          dropped,    \* what the push in progress has removed from the front
          cpc,        \* where the consumer is
          taken       \* the message the consumer took last, as a sequence

vars == <<list, lock, triggered, ppc, posting, unposted, dropped, cpc, taken>>
producerVars == <<ppc, posting, unposted, dropped>>

ProducerStates == {"idle", "insert", "signal", "unlock"}
ConsumerStates == {"fetch",    \* about to call get_message()
                   "check",    \* in wait(), before it looks at the list
                   "enter",    \* in wait(), the list was empty
                   "blocked",  \* in pthread_cond_timedwait
                   "woken"}    \* timedwait returned 0, mutex not yet regained

TypeOK ==
    /\ list \in Seq(Posts)
    /\ lock \in Producers \cup {NoThread}
    /\ triggered \in BOOLEAN
    /\ ppc \in [Producers -> ProducerStates]
    /\ posting \in [Producers -> Posts]
    /\ unposted \subseteq Posts
    /\ dropped \in Seq(Posts)
    /\ cpc \in ConsumerStates
    /\ taken \in Seq(Posts)

Init ==
    /\ list = <<>> /\ lock = NoThread /\ triggered = FALSE
    /\ ppc = [p \in Producers |-> "idle"]
    /\ posting = [p \in Producers |-> CHOOSE m \in Posts : TRUE]
    /\ unposted = Posts
    /\ dropped = <<>>
    /\ cpc = "fetch"
    /\ taken = <<>>

-----------------------------------------------------------------------------
(* push(v, at_front) *)

PushLock(p, m) ==
    /\ ppc[p] = "idle" /\ m \in unposted
    /\ lock = NoThread
    /\ lock' = p
    /\ ppc' = [ppc EXCEPT ![p] = "insert"]
    /\ posting' = [posting EXCEPT ![p] = m]
    /\ unposted' = unposted \ {m}
    /\ UNCHANGED <<list, triggered, dropped, cpc, taken>>

Full == MaxElements > 0 /\ Len(list) >= MaxElements

\* Mutant: a full queue forgets its newest message (pop_back).
PushDropNewest(p) ==
    /\ ppc[p] = "insert" /\ Full
    /\ list' = SubSeq(list, 1, Len(list) - 1)
    /\ dropped' = Append(dropped, list[Len(list)])
    /\ UNCHANGED <<lock, triggered, ppc, posting, unposted, cpc, taken>>

PushDrop(p) ==
    /\ ppc[p] = "insert" /\ Full
    /\ list' = Tail(list)
    /\ dropped' = Append(dropped, Head(list))
    /\ UNCHANGED <<lock, triggered, ppc, posting, unposted, cpc, taken>>

PushInsert(p) ==
    /\ ppc[p] = "insert" /\ ~Full
    /\ list' = IF posting[p] \in QuitPosts THEN <<posting[p]>> \o list
                                           ELSE Append(list, posting[p])
    /\ ppc' = [ppc EXCEPT ![p] = "signal"]
    /\ dropped' = <<>>
    /\ UNCHANGED <<lock, triggered, posting, unposted, cpc, taken>>

\* Mutant: the condition is signalled and no flag remembers it.
PushSignalNoFlag(p) ==
    /\ ppc[p] = "signal"
    /\ cpc' = IF cpc = "blocked" THEN "woken" ELSE cpc
    /\ ppc' = [ppc EXCEPT ![p] = "unlock"]
    /\ UNCHANGED <<list, lock, triggered, posting, unposted, dropped, taken>>

\* Mutant: the flag is set and the waiter is not woken.
PushSignalNoWake(p) ==
    /\ ppc[p] = "signal"
    /\ triggered' = TRUE
    /\ ppc' = [ppc EXCEPT ![p] = "unlock"]
    /\ UNCHANGED <<list, lock, posting, unposted, dropped, cpc, taken>>

\* pjs_event::signal(): set the flag and wake a waiter.
PushSignal(p) ==
    /\ ppc[p] = "signal"
    /\ triggered' = TRUE
    /\ cpc' = IF cpc = "blocked" THEN "woken" ELSE cpc
    /\ ppc' = [ppc EXCEPT ![p] = "unlock"]
    /\ UNCHANGED <<list, lock, posting, unposted, dropped, taken>>

PushUnlock(p) ==
    /\ ppc[p] = "unlock"
    /\ lock' = NoThread
    /\ ppc' = [ppc EXCEPT ![p] = "idle"]
    /\ UNCHANGED <<list, triggered, posting, unposted, dropped, cpc, taken>>

-----------------------------------------------------------------------------
(* The consumer: get_message() in a loop, wait(timeout) when it got nil. *)

GetMessage ==
    /\ cpc = "fetch" /\ lock = NoThread
    /\ IF list = <<>>
         THEN /\ cpc' = "check"
              /\ UNCHANGED <<list, taken>>
         ELSE /\ taken' = <<Head(list)>>
              /\ list' = Tail(list)
              /\ UNCHANGED cpc
    /\ UNCHANGED <<lock, triggered, producerVars>>

\* The script may empty its queue between two messages (mqueue:clear()).
ClearQueue ==
    /\ cpc = "fetch" /\ lock = NoThread
    /\ list # <<>>
    /\ list' = <<>>
    /\ UNCHANGED <<lock, triggered, producerVars, cpc, taken>>

\* pjs_list::wait looks at the list under m_lock, then releases m_lock.
WaitCheck ==
    /\ cpc = "check" /\ lock = NoThread
    /\ cpc' = IF list = <<>> THEN "enter" ELSE "fetch"
    /\ UNCHANGED <<list, lock, triggered, producerVars, taken>>

\* pjs_event::wait(timeout): a flag already set is consumed at once.
EventEnter ==
    /\ cpc = "enter"
    /\ cpc' = IF triggered THEN "fetch" ELSE "blocked"
    /\ triggered' = FALSE
    /\ UNCHANGED <<list, lock, producerVars, taken>>

\* timedwait returned 0: the loop breaks and the flag is cleared.
EventReturn ==
    /\ cpc = "woken"
    /\ cpc' = "fetch"
    /\ triggered' = FALSE
    /\ UNCHANGED <<list, lock, producerVars, taken>>

\* A spurious wakeup also returns 0 and breaks the loop.
EventSpurious ==
    /\ cpc = "blocked"
    /\ cpc' = "woken"
    /\ UNCHANGED <<list, lock, triggered, producerVars, taken>>

\* ETIMEDOUT leaves the flag alone, also when a signal came just before.
EventTimeout ==
    /\ cpc \in {"blocked", "woken"}
    /\ cpc' = "fetch"
    /\ UNCHANGED <<list, lock, triggered, producerVars, taken>>

-----------------------------------------------------------------------------
Push(p) == \/ \E m \in Posts : PushLock(p, m)
           \/ PushDrop(p) \/ PushInsert(p) \/ PushSignal(p) \/ PushUnlock(p)

Consume == GetMessage \/ WaitCheck \/ EventEnter \/ EventReturn

Next == \/ \E p \in Producers : Push(p)
        \/ Consume
        \/ ClearQueue \/ EventSpurious \/ EventTimeout

Spec == Init /\ [][Next]_vars

\* A push that has begun is finished, and the script keeps running its loop.
\* Nothing forces a timeout, a spurious wakeup, a clear or a new push.  The
\* consumer competes with producers for m_lock, hence the strong fairness.
Fairness ==
    /\ \A p \in Producers : WF_vars(PushDrop(p) \/ PushInsert(p)
                                    \/ PushSignal(p) \/ PushUnlock(p))
    /\ SF_vars(GetMessage) /\ SF_vars(WaitCheck)
    /\ WF_vars(EventEnter \/ EventReturn)

FairSpec == Spec /\ Fairness

-----------------------------------------------------------------------------
(* Properties *)

\* The list never holds more than m_max_elements messages.
WithinLimit == MaxElements > 0 => Len(list) <= MaxElements

\* A script is never left sleeping on a queue that has a message for it: when
\* it is blocked and the list is not empty, the producer that inserted the
\* message holds the lock and is just about to signal.  Between looking at the
\* list and blocking it is covered by the event's flag (pjs_list::wait releases
\* m_lock before it enters the event).
NoLostWakeup ==
    (cpc = "blocked" /\ list # <<>>) => \E p \in Producers : ppc[p] = "signal"

\* A pending quit request is what the script takes next: only other quit
\* requests stand in front of it (push at_front, push_back for the rest).
QuitGoesFirst ==
    \A i \in 1..Len(list) : list[i] \in QuitPosts =>
        \A j \in 1..i : list[j] \in QuitPosts

\* Every message leaves the queue, even if no wait ever times out: the
\* signals alone keep the script going.
EveryMessageLeaves ==
    \A m \in Posts :
        (\E i \in 1..Len(list) : list[i] = m) ~>
            ~(\E i \in 1..Len(list) : list[i] = m)

\* The queue with its locks and its two-step wait implements the atomic deque;
\* what the push in progress has dropped still counts until it inserts.
Deque == INSTANCE BoundedDeque WITH q <- dropped \o list

ImplementsDeque == Deque!Spec
=============================================================================
