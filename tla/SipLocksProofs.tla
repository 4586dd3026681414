---------------------------- MODULE SipLocksProofs ----------------------------
(***************************************************************************)
(* Theorems about SipLocks, for any number of calls and of operations.     *)
(*                                                                         *)
(* What a thread has before it is a sequence of steps.  It is accounted    *)
(* for as a program is typed: a standing says which locks the thread has   *)
(* and what it still has to do, every step leads from one standing to the  *)
(* next, and the sequence leads to the standing of a thread that has       *)
(* nothing and owes nothing.                                               *)
(***************************************************************************)
EXTENDS SipLocks, FiniteSetTheorems, TLAPS

Standings ==
    [locks : [Locks -> Nat],    \* how often the thread has taken each lock
     erase : SUBSET Calls,      \* calls that it is to erase from m_calls
     free  : SUBSET Calls,      \* calls that it is to give up
     look  : SUBSET Calls,      \* calls that it may look at
     use   : SUBSET Calls]      \* the call whose session it is about to read

Idle == [locks |-> [l \in Locks |-> 0], erase |-> {}, free |-> {}, look |-> {}, use |-> {}]

\* The standing of one who, besides, holds the lock once more, or is to erase or
\* to give up the call.
Holding(h, l) == [h EXCEPT !.locks = [m \in Locks |-> IF m = l THEN h.locks[m] + 1 ELSE h.locks[m]]]
Erasing(h, c) == [h EXCEPT !.erase = h.erase \cup {c}]
Freeing(h, c) == [h EXCEPT !.free = h.free \cup {c}]

\* No call is being looked at.
Clear(h) == h.look = {} /\ h.use = {}

\* It has looked at a call: at one of those before it, or at the last one.
Looked(h, k) == k \in {[h EXCEPT !.use = {}], [h EXCEPT !.use = {}, !.look = {}]}

\* The step x leads from the standing h to the standing k.
Effect(h, x, k) ==
    /\ x.do \notin {"look", "use"} => Clear(h) /\ Clear(k)
    /\ x.do = "take" => /\ k = Holding(h, x.on)
                        /\ x.on = Mutex => h.locks[Mutex] = 0
                        /\ x.on \in Calls => h.locks = Idle.locks
    /\ x.do = "give" => h = Holding(k, x.on)
    /\ x.do \in {"admit", "dial"} => h = Holding(Idle, Pjsua) /\ k = Idle
    /\ x.do \in {"acquire", "bye", "reinvite", "end"} => k = h /\ h.locks[Mutex] = 0
    /\ x.do \in {"stop_media", "start_media", "connect"} => k = h
    /\ x.do \in {"register", "check_all", "pick"} => k = h /\ h.locks[Mutex] > 0
    /\ x.do = "erase" => h = Erasing(k, x.on) /\ x.on \notin k.erase /\ h.locks[Mutex] > 0
    /\ x.do = "free" => h = Freeing(k, x.on) /\ x.on \notin k.free \cup k.erase
    /\ x.do = "look" => x.on \in h.look /\ h.use = {} /\ Looked(h, k) /\ h.locks[Mutex] > 0
    /\ x.do = "use" => x.on \in h.look /\ h.use = {x.on} /\ Looked(h, k) /\ h.locks[Mutex] > 0

Typed(h, x, k) == h \in Standings /\ x \in Steps /\ k \in Standings /\ Effect(h, x, k)

\* The steps s lead from h to k.
Legal(h, s, k) ==
    /\ s \in Seq(Steps)
    /\ \E w \in [1..(Len(s) + 1) -> Standings] :
         /\ w[1] = h /\ w[Len(s) + 1] = k
         /\ \A i \in 1..Len(s) : Typed(w[i], s[i], w[i + 1])

-----------------------------------------------------------------------------
(* Sequences of steps.                                                     *)

\* No step changes nothing, and nothing else can come of no step.
LEMMA LegalNothing == ASSUME NEW h \in Standings PROVE Legal(h, <<>>, h)
<1> DEFINE w == [i \in 1..1 |-> h]
<1>1. w \in [1..(Len(<<>>) + 1) -> Standings] /\ w[1] = h /\ w[Len(<<>>) + 1] = h
  OBVIOUS
<1>2. \A i \in 1..Len(<<>>) : FALSE
  OBVIOUS
<1>3. <<>> \in Seq(Steps)
  OBVIOUS
<1> HIDE DEF w
<1> QED
  BY <1>1, <1>2, <1>3 DEF Legal

LEMMA LegalEnd == ASSUME NEW h, NEW k, Legal(h, <<>>, k) PROVE h = k /\ h \in Standings
  BY DEF Legal

\* One step.
LEMMA LegalStep == ASSUME NEW h, NEW x, NEW k, Typed(h, x, k) PROVE Legal(h, <<x>>, k)
<1> DEFINE s == <<x>>
           w == [i \in 1..2 |-> IF i = 1 THEN h ELSE k]
<1>1. h \in Standings /\ k \in Standings /\ x \in Steps
  BY DEF Typed
<1>2. s \in Seq(Steps) /\ Len(s) = 1 /\ s[1] = x
  BY <1>1
<1>3. w \in [1..2 -> Standings] /\ w[1] = h /\ w[2] = k
  BY <1>1
<1> HIDE DEF s, w
<1>4. \A i \in 1..Len(s) : Typed(w[i], s[i], w[i + 1])
  BY <1>2, <1>3
<1>5. Legal(h, s, k)
  BY <1>2, <1>3, <1>4 DEF Legal
<1> QED
  BY <1>5 DEF s

\* What follows goes on from where the steps before have led.
LEMMA LegalJoin ==
    ASSUME NEW h, NEW s, NEW k, NEW r, NEW n, Legal(h, s, k), Legal(k, r, n)
    PROVE  Legal(h, s \o r, n)
<1>1. s \in Seq(Steps) /\ r \in Seq(Steps) /\ Len(s) \in Nat /\ Len(r) \in Nat
  BY DEF Legal
<1>2. PICK v \in [1..(Len(s) + 1) -> Standings] :
        /\ v[1] = h /\ v[Len(s) + 1] = k
        /\ \A i \in 1..Len(s) : Typed(v[i], s[i], v[i + 1])
  BY DEF Legal
<1>3. PICK w \in [1..(Len(r) + 1) -> Standings] :
        /\ w[1] = k /\ w[Len(r) + 1] = n
        /\ \A i \in 1..Len(r) : Typed(w[i], r[i], w[i + 1])
  BY DEF Legal
<1> DEFINE q == s \o r
           u == [i \in 1..(Len(q) + 1) |-> IF i <= Len(s) THEN v[i] ELSE w[i - Len(s)]]
<1>4. /\ q \in Seq(Steps) /\ Len(q) = Len(s) + Len(r)
      /\ \A i \in 1..Len(s) : q[i] = s[i]
      /\ \A i \in 1..Len(r) : q[Len(s) + i] = r[i]
  BY <1>1
<1> HIDE DEF q
<1>5. u \in [1..(Len(q) + 1) -> Standings]
  <2> SUFFICES ASSUME NEW i \in 1..(Len(q) + 1)
               PROVE  (IF i <= Len(s) THEN v[i] ELSE w[i - Len(s)]) \in Standings
    OBVIOUS
  <2>1. i <= Len(s) => i \in 1..(Len(s) + 1)
    BY <1>1, <1>4
  <2>2. ~(i <= Len(s)) => i - Len(s) \in 1..(Len(r) + 1)
    BY <1>1, <1>4
  <2> QED
    BY <2>1, <2>2
<1>6. \A i \in 1..(Len(q) + 1) : u[i] = IF i <= Len(s) THEN v[i] ELSE w[i - Len(s)]
  OBVIOUS
<1> HIDE DEF u
<1>7. u[1] = h
  <2>1. CASE Len(s) = 0
    BY <1>1, <1>2, <1>3, <1>4, <1>6, <2>1
  <2>2. CASE Len(s) > 0
    BY <1>1, <1>2, <1>4, <1>6, <2>2
  <2> QED
    BY <1>1, <2>1, <2>2
<1>8. u[Len(q) + 1] = n
  BY <1>1, <1>3, <1>4, <1>6
<1>9. ASSUME NEW i \in 1..Len(q) PROVE Typed(u[i], q[i], u[i + 1])
  <2>0. i \in 1..(Len(q) + 1) /\ i + 1 \in 1..(Len(q) + 1)
    BY <1>1, <1>4
  <2>1. CASE i < Len(s)
    <3>1. i \in 1..Len(s) /\ i <= Len(s) /\ i + 1 <= Len(s)
      BY <1>1, <1>4, <2>1
    <3>2. u[i] = v[i] /\ u[i + 1] = v[i + 1] /\ q[i] = s[i]
      BY <1>4, <1>6, <2>0, <3>1
    <3> QED
      BY <1>2, <3>1, <3>2
  <2>2. CASE i = Len(s)
    <3>1. u[i + 1] = w[1] /\ u[i] = v[i] /\ q[i] = s[i]
      BY <1>1, <1>4, <1>6, <2>0, <2>2
    <3> QED
      BY <1>1, <1>2, <1>3, <2>2, <3>1
  <2>3. CASE i > Len(s)
    <3> DEFINE j == i - Len(s)
    <3>1. j \in 1..Len(r) /\ i = Len(s) + j /\ i + 1 - Len(s) = j + 1
      BY <1>1, <1>4, <2>3
    <3>2. ~(i <= Len(s)) /\ ~(i + 1 <= Len(s))
      BY <1>1, <1>4, <2>3
    <3>3. u[i] = w[i - Len(s)] /\ u[i + 1] = w[i + 1 - Len(s)]
      BY <1>6, <2>0, <3>2
    <3>4. q[Len(s) + j] = r[j]
      BY <1>4, <3>1
    <3> HIDE DEF j
    <3>5. u[i] = w[j] /\ u[i + 1] = w[j + 1] /\ q[i] = r[j]
      BY <3>1, <3>3, <3>4 DEF j
    <3> QED
      BY <1>3, <3>1, <3>5
  <2> QED
    BY <1>1, <2>1, <2>2, <2>3
<1>10. Legal(h, q, n)
  BY <1>4, <1>5, <1>6, <1>7, <1>8, <1>9 DEF Legal, u
<1> QED
  BY <1>10 DEF q

\* The first step leads on, and the rest from there.
LEMMA LegalSplit ==
    ASSUME NEW h, NEW s, NEW k, Legal(h, s, k), s # <<>>
    PROVE  \E m \in Standings : Typed(h, Head(s), m) /\ Legal(m, Tail(s), k)
<1>1. s \in Seq(Steps) /\ Len(s) \in Nat /\ Len(s) > 0
  BY DEF Legal
<1>2. PICK v \in [1..(Len(s) + 1) -> Standings] :
        /\ v[1] = h /\ v[Len(s) + 1] = k
        /\ \A i \in 1..Len(s) : Typed(v[i], s[i], v[i + 1])
  BY DEF Legal
<1> DEFINE r == Tail(s)
           w == [i \in 1..(Len(r) + 1) |-> v[i + 1]]
<1>3. /\ r \in Seq(Steps) /\ Len(r) = Len(s) - 1 /\ Head(s) = s[1]
      /\ \A i \in 1..Len(r) : r[i] = s[i + 1]
  BY <1>1
<1> HIDE DEF r
<1>4. w \in [1..(Len(r) + 1) -> Standings]
  BY <1>1, <1>3
<1>5. \A i \in 1..(Len(r) + 1) : w[i] = v[i + 1]
  OBVIOUS
<1> HIDE DEF w
<1>6. w[1] = v[2] /\ w[Len(r) + 1] = k /\ v[2] \in Standings
  BY <1>1, <1>2, <1>3, <1>5
<1>7. ASSUME NEW i \in 1..Len(r) PROVE Typed(w[i], r[i], w[i + 1])
  <2>1. i + 1 \in 1..Len(s) /\ w[i] = v[i + 1] /\ w[i + 1] = v[i + 1 + 1] /\ r[i] = s[i + 1]
    BY <1>1, <1>3, <1>5
  <2> QED
    BY <1>2, <2>1
<1>8. Legal(v[2], r, k)
  BY <1>3, <1>4, <1>6, <1>7 DEF Legal
<1>9. Typed(h, Head(s), v[2])
  <2>1. 1 \in 1..Len(s) /\ 1 + 1 = 2
    BY <1>1
  <2> QED
    BY <1>2, <1>3, <2>1
<1> QED
  BY <1>6, <1>8, <1>9 DEF r

\* Steps that leave the standing as it is.
LEMMA LegalSteady ==
    ASSUME NEW h \in Standings, NEW s \in Seq(Steps), \A i \in 1..Len(s) : Typed(h, s[i], h)
    PROVE  Legal(h, s, h)
<1> DEFINE w == [i \in 1..(Len(s) + 1) |-> h]
<1>1. Len(s) \in Nat
  OBVIOUS
<1>2. w \in [1..(Len(s) + 1) -> Standings] /\ \A i \in 1..(Len(s) + 1) : w[i] = h
  OBVIOUS
<1> HIDE DEF w
<1>3. \A i \in 1..Len(s) : i \in 1..(Len(s) + 1) /\ i + 1 \in 1..(Len(s) + 1)
  BY <1>1
<1>4. 1 \in 1..(Len(s) + 1) /\ Len(s) + 1 \in 1..(Len(s) + 1)
  BY <1>1
<1>5. \A i \in 1..Len(s) : Typed(w[i], s[i], w[i + 1])
  BY <1>2, <1>3
<1> QED
  BY <1>2, <1>4, <1>5 DEF Legal

-----------------------------------------------------------------------------
(* Standings and the single steps.                                         *)

\* What is done to, or with, one call.
CallDoings == {"bye", "reinvite", "end", "erase", "free", "register", "stop_media",
               "start_media", "connect", "look", "use"}

\* Each step is about a lock, most are about a call.
LEMMA StepKinds ==
    ASSUME NEW x \in Steps
    PROVE  /\ x.do \in {"take", "give", "admit", "dial", "check_all", "pick", "acquire"} \cup CallDoings
           /\ x.on \in Locks
           /\ x.do \in CallDoings \cup {"acquire"} => x.on \in Calls
           /\ x.do = "acquire" => x.then \in {<<Does("end", x.on)>>, MediaUpdate(x.on)}
<1>1. Calls \subseteq Locks /\ Pjsua \in Locks /\ Mutex \in Locks
  BY DEF Locks
<1>2. CASE x \in [do : {"take", "give"}, on : Locks]
  BY <1>2 DEF CallDoings
<1>3. CASE x \in [do : CallDoings, on : Calls]
  BY <1>1, <1>3 DEF CallDoings
<1>4. CASE x \in {Does("admit", Pjsua), Does("dial", Pjsua), Does("check_all", Mutex), Does("pick", Mutex)}
  BY <1>1, <1>4 DEF Does, CallDoings
<1>5. CASE \E c \in Calls : x \in {Hangup(c), Acquire(c, MediaUpdate(c))}
  <2>1. PICK c \in Calls : x \in {Hangup(c), Acquire(c, MediaUpdate(c))}
    BY <1>5
  <2>2. x.do = "acquire" /\ x.on = c /\ x.then \in {<<Does("end", c)>>, MediaUpdate(c)}
    BY <2>1 DEF Acquire, Hangup
  <2> QED
    BY <1>1, <2>2 DEF CallDoings
<1> QED
  BY <1>2, <1>3, <1>4, <1>5 DEF Steps, CallDoings

\* The steps that the operations are made of.
LEMMA StepsMade ==
    /\ \A l \in Locks : /\ Take(l) \in Steps /\ Take(l).do = "take" /\ Take(l).on = l
                        /\ Give(l) \in Steps /\ Give(l).do = "give" /\ Give(l).on = l
    /\ \A c \in Calls, what \in CallDoings :
         Does(what, c) \in Steps /\ Does(what, c).do = what /\ Does(what, c).on = c
    /\ \A c \in Calls : /\ Hangup(c) \in Steps /\ Hangup(c).do = "acquire" /\ Hangup(c).on = c
                        /\ Acquire(c, MediaUpdate(c)) \in Steps
                        /\ Acquire(c, MediaUpdate(c)).do = "acquire"
                        /\ Acquire(c, MediaUpdate(c)).on = c
    /\ \A what \in {"admit", "dial"} :
         Does(what, Pjsua) \in Steps /\ Does(what, Pjsua).do = what /\ Does(what, Pjsua).on = Pjsua
    /\ \A what \in {"check_all", "pick"} :
         Does(what, Mutex) \in Steps /\ Does(what, Mutex).do = what /\ Does(what, Mutex).on = Mutex
<1>1. \A l \in Locks : /\ Take(l) \in Steps /\ Take(l).do = "take" /\ Take(l).on = l
                       /\ Give(l) \in Steps /\ Give(l).do = "give" /\ Give(l).on = l
  BY DEF Steps, Take, Give
<1>2. ASSUME NEW c \in Calls, NEW what \in CallDoings
      PROVE  Does(what, c) \in Steps /\ Does(what, c).do = what /\ Does(what, c).on = c
  BY DEF Steps, Does, CallDoings
<1>3. ASSUME NEW c \in Calls
      PROVE  /\ Hangup(c) \in Steps /\ Hangup(c).do = "acquire" /\ Hangup(c).on = c
             /\ Acquire(c, MediaUpdate(c)) \in Steps
             /\ Acquire(c, MediaUpdate(c)).do = "acquire"
             /\ Acquire(c, MediaUpdate(c)).on = c
  <2>1. Hangup(c) \in Steps /\ Acquire(c, MediaUpdate(c)) \in Steps
    BY DEF Steps
  <2> QED
    BY <2>1 DEF Hangup, Acquire
<1>4. ASSUME NEW what \in {"admit", "dial"}
      PROVE  Does(what, Pjsua) \in Steps /\ Does(what, Pjsua).do = what /\ Does(what, Pjsua).on = Pjsua
  BY DEF Steps, Does
<1>5. ASSUME NEW what \in {"check_all", "pick"}
      PROVE  Does(what, Mutex) \in Steps /\ Does(what, Mutex).do = what /\ Does(what, Mutex).on = Mutex
  BY DEF Steps, Does
<1> QED
  BY <1>1, <1>2, <1>3, <1>4, <1>5

\* pjsua's lock and the mutex are two locks, and neither is a dialog's.
LEMMA LocksDiffer ==
    /\ Pjsua \in Locks /\ Mutex \in Locks /\ Calls \subseteq Locks
    /\ Pjsua # Mutex /\ Pjsua \notin Calls /\ Mutex \notin Calls /\ NoThread \notin Threads
  BY SipLocksAssumption DEF Locks

\* The standing of a thread that has nothing and owes nothing.
LEMMA IdleStanding ==
    Idle \in Standings /\ Clear(Idle) /\ \A l \in Locks : Idle.locks[l] = 0
  BY DEF Idle, Standings, Clear

\* Taking a lock, and a duty, changes that and nothing else.
LEMMA HoldingFields ==
    ASSUME NEW h \in Standings, NEW l \in Locks
    PROVE  /\ Holding(h, l) \in Standings
           /\ \A m \in Locks : Holding(h, l).locks[m] = IF m = l THEN h.locks[m] + 1 ELSE h.locks[m]
           /\ Holding(h, l).erase = h.erase /\ Holding(h, l).free = h.free
           /\ Holding(h, l).look = h.look /\ Holding(h, l).use = h.use
           /\ Clear(h) <=> Clear(Holding(h, l))
  BY DEF Holding, Standings, Clear

\* The locks of one who has taken one more.
LEMMA HoldingLocks ==
    ASSUME NEW h \in Standings, NEW l \in Locks, NEW m \in Locks
    PROVE  Holding(h, l).locks[m] = IF m = l THEN h.locks[m] + 1 ELSE h.locks[m]
  BY HoldingFields

LEMMA ErasingFields ==
    ASSUME NEW h \in Standings, NEW c \in Calls
    PROVE  /\ Erasing(h, c) \in Standings /\ Erasing(h, c).erase = h.erase \cup {c}
           /\ Erasing(h, c).locks = h.locks /\ Erasing(h, c).free = h.free
           /\ Erasing(h, c).look = h.look /\ Erasing(h, c).use = h.use
           /\ Clear(h) <=> Clear(Erasing(h, c))
  BY DEF Erasing, Standings, Clear

LEMMA FreeingFields ==
    ASSUME NEW h \in Standings, NEW c \in Calls
    PROVE  /\ Freeing(h, c) \in Standings /\ Freeing(h, c).free = h.free \cup {c}
           /\ Freeing(h, c).locks = h.locks /\ Freeing(h, c).erase = h.erase
           /\ Freeing(h, c).look = h.look /\ Freeing(h, c).use = h.use
           /\ Clear(h) <=> Clear(Freeing(h, c))
  BY DEF Freeing, Standings, Clear

\* Two standings with the same parts are the same.
LEMMA SameStanding ==
    ASSUME NEW h \in Standings, NEW k \in Standings, \A l \in Locks : h.locks[l] = k.locks[l],
           h.erase = k.erase, h.free = k.free, h.look = k.look, h.use = k.use
    PROVE  h = k
<1>1. h.locks = k.locks
  BY DEF Standings
<1> QED
  BY <1>1 DEF Standings

\* Duties and locks are taken in any order.
LEMMA HoldingErasing ==
    ASSUME NEW h \in Standings, NEW l \in Locks, NEW c \in Calls
    PROVE  /\ Holding(Erasing(h, c), l) = Erasing(Holding(h, l), c)
           /\ Holding(Freeing(h, c), l) = Freeing(Holding(h, l), c)
  BY DEF Holding, Erasing, Freeing, Standings

-----------------------------------------------------------------------------
(* What the operations consist of is legal.                                *)

\* A critical section.
LEMMA WithinLegal ==
    ASSUME NEW h \in Standings, NEW k \in Standings, NEW l \in Locks, NEW s, Clear(h), Clear(k),
           l = Mutex => h.locks[Mutex] = 0, l \in Calls => h.locks = Idle.locks,
           Legal(Holding(h, l), s, Holding(k, l))
    PROVE  Legal(h, Within(l, s), k)
<1> DEFINE a == Take(l)
           b == Give(l)
           hh == Holding(h, l)
           kk == Holding(k, l)
<1>1. /\ a \in Steps /\ a.do = "take" /\ a.on = l
      /\ b \in Steps /\ b.do = "give" /\ b.on = l
  BY StepsMade
<1>2. hh \in Standings /\ Clear(hh) /\ kk \in Standings /\ Clear(kk)
  BY HoldingFields
<1>3. hh = Holding(h, l) /\ kk = Holding(k, l)
  OBVIOUS
<1>4. Within(l, s) = (<<a>> \o s) \o <<b>>
  BY DEF Within
<1> HIDE DEF a, b, hh, kk
<1>5. Typed(h, a, hh)
  BY <1>1, <1>2, <1>3 DEF Typed, Effect
<1>6. Typed(kk, b, k)
  BY <1>1, <1>2, <1>3 DEF Typed, Effect
<1>7. Legal(h, <<a>>, hh) /\ Legal(kk, <<b>>, k)
  BY <1>5, <1>6, LegalStep
<1>8. Legal(h, <<a>> \o s, kk)
  BY <1>3, <1>7, LegalJoin
<1> QED
  BY <1>4, <1>7, <1>8, LegalJoin

\* pjsua_call_get_info() and its like, anywhere.
LEMMA AsksLegal ==
    ASSUME NEW h \in Standings, Clear(h) PROVE Legal(h, Asks, h)
<1>1. Legal(Holding(h, Pjsua), <<>>, Holding(h, Pjsua))
  BY LocksDiffer, HoldingFields, LegalNothing
<1> QED
  BY <1>1, LocksDiffer, WithinLegal DEF Asks

\* One step in the mutex.
LEMMA MutexLegal ==
    ASSUME NEW h \in Standings, NEW k \in Standings, NEW x, Clear(h), Clear(k),
           h.locks[Mutex] = 0, Typed(Holding(h, Mutex), x, Holding(k, Mutex))
    PROVE  Legal(h, Within(Mutex, <<x>>), k)
<1>1. Legal(Holding(h, Mutex), <<x>>, Holding(k, Mutex))
  BY LegalStep
<1> QED
  BY <1>1, LocksDiffer, WithinLegal

\* on_call_state() erases the call, for a thread that is to.
LEMMA OnCallStateLegal ==
    ASSUME NEW k \in Standings, NEW c \in Calls, Clear(k), k.locks[Mutex] = 0, c \notin k.erase
    PROVE  Legal(Erasing(k, c), OnCallState(c), k)
<1> DEFINE h == Erasing(k, c)
           x == Does("erase", c)
           hm == Holding(h, Mutex)
           km == Holding(k, Mutex)
<1>0. h = Erasing(k, c) /\ hm = Holding(h, Mutex) /\ km = Holding(k, Mutex)
      /\ OnCallState(c) = Asks \o Within(Mutex, <<x>>)
  BY DEF OnCallState
<1>1. h \in Standings /\ Clear(h) /\ h.locks[Mutex] = 0
  BY ErasingFields
<1>2. x \in Steps /\ x.do = "erase" /\ x.on = c
  BY StepsMade DEF CallDoings
<1>3. hm = Erasing(km, c)
  BY LocksDiffer, HoldingErasing
<1> HIDE DEF h, x, hm, km
<1>4. /\ hm \in Standings /\ Clear(hm) /\ km \in Standings /\ Clear(km)
      /\ hm.locks[Mutex] = 1 /\ km.erase = k.erase
  <2>1. Mutex \in Locks
    BY LocksDiffer
  <2>2. hm \in Standings /\ Clear(hm)
    BY <1>0, <1>1, <2>1, HoldingFields
  <2>3. km \in Standings /\ Clear(km) /\ km.erase = k.erase
    BY <1>0, <2>1, HoldingFields
  <2>4. hm.locks[Mutex] = h.locks[Mutex] + 1
    BY <1>0, <1>1, <2>1, HoldingLocks
  <2> QED
    BY <1>1, <2>2, <2>3, <2>4
<1>5. Typed(hm, x, km)
  BY <1>2, <1>3, <1>4 DEF Typed, Effect
<1>6. Legal(h, Within(Mutex, <<x>>), k)
  BY <1>0, <1>1, <1>5, MutexLegal
<1>7. Legal(h, Asks, h)
  BY <1>1, AsksLegal
<1>8. Legal(h, OnCallState(c), k)
  BY <1>0, <1>6, <1>7, LegalJoin
<1> QED
  BY <1>0, <1>8

\* The end of a call, for a thread that is to erase it and give it up.
LEMMA CallOverLegal ==
    ASSUME NEW k \in Standings, NEW c \in Calls, Clear(k), k.locks[Mutex] = 0,
           c \notin k.erase, c \notin k.free
    PROVE  Legal(Erasing(Freeing(k, c), c), CallOver(c), k)
<1> DEFINE h == Freeing(k, c)
           x == Does("free", c)
           hp == Holding(h, Pjsua)
           kp == Holding(k, Pjsua)
<1>0. h = Freeing(k, c) /\ hp = Holding(h, Pjsua) /\ kp = Holding(k, Pjsua)
      /\ CallOver(c) = OnCallState(c) \o Within(Pjsua, <<x>>)
  BY DEF CallOver
<1>1. h \in Standings /\ Clear(h) /\ h.locks[Mutex] = 0 /\ c \notin h.erase
  BY FreeingFields
<1>2. x \in Steps /\ x.do = "free" /\ x.on = c
  BY StepsMade DEF CallDoings
<1>3. hp = Freeing(kp, c)
  BY LocksDiffer, HoldingErasing
<1> HIDE DEF h, x, hp, kp
<1>4. /\ hp \in Standings /\ Clear(hp) /\ kp \in Standings /\ Clear(kp)
      /\ kp.erase = k.erase /\ kp.free = k.free
  BY <1>0, <1>1, LocksDiffer, HoldingFields
<1>5. Typed(hp, x, kp)
  BY <1>2, <1>3, <1>4 DEF Typed, Effect
<1>6. Legal(hp, <<x>>, kp)
  BY <1>5, LegalStep
<1>7. Legal(h, Within(Pjsua, <<x>>), k)
  BY <1>0, <1>1, <1>6, LocksDiffer, WithinLegal
<1>8. Legal(Erasing(h, c), OnCallState(c), h)
  BY <1>1, OnCallStateLegal
<1>9. Legal(Erasing(h, c), CallOver(c), k)
  BY <1>0, <1>7, <1>8, LegalJoin
<1> QED
  BY <1>0, <1>9

\* The session is made anew and the call connected again, without the mutex.
LEMMA MediaUpdateLegal ==
    ASSUME NEW h \in Standings, NEW c \in Calls, Clear(h), h.locks[Mutex] = 0
    PROVE  Legal(h, MediaUpdate(c), h)
<1> DEFINE x == Does("stop_media", c)
           y == Does("start_media", c)
           z == Does("connect", c)
           hm == Holding(h, Mutex)
<1>0. MediaUpdate(c) = <<x, y>> \o (Asks \o Within(Mutex, <<z>>)) /\ hm = Holding(h, Mutex)
  BY DEF MediaUpdate, OnCallMediaState
<1>1. /\ x \in Steps /\ x.do = "stop_media" /\ y \in Steps /\ y.do = "start_media"
      /\ z \in Steps /\ z.do = "connect"
  BY StepsMade DEF CallDoings
<1> HIDE DEF x, y, z, hm
<1>2. hm \in Standings /\ Clear(hm)
  BY <1>0, LocksDiffer, HoldingFields
<1>3. Typed(h, x, h) /\ Typed(h, y, h) /\ Typed(hm, z, hm)
  BY <1>1, <1>2 DEF Typed, Effect
<1>4. Legal(h, Within(Mutex, <<z>>), h)
  BY <1>0, <1>3, MutexLegal
<1>5. Legal(h, Asks \o Within(Mutex, <<z>>), h)
  BY <1>4, AsksLegal, LegalJoin
<1>6. Legal(h, <<x>> \o <<y>>, h) /\ <<x>> \o <<y>> = <<x, y>>
  <2>1. Legal(h, <<x>>, h) /\ Legal(h, <<y>>, h)
    BY <1>3, LegalStep
  <2>2. <<x>> \o <<y>> = <<x, y>>
    <3> DEFINE q == <<x>> \o <<y>>
               r == <<x, y>>
    <3>1. q \in Seq(Steps) /\ Len(q) = 2 /\ q[1] = x /\ q[2] = y
      BY <1>1
    <3>2. r \in Seq(Steps) /\ Len(r) = 2 /\ r[1] = x /\ r[2] = y
      BY <1>1
    <3> HIDE DEF q, r
    <3>3. q = r
      BY <3>1, <3>2
    <3> QED
      BY <3>3 DEF q, r
  <2> QED
    BY <2>1, <2>2, LegalJoin
<1>7. Legal(h, <<x, y>>, h)
  BY <1>6
<1> QED
  BY <1>0, <1>5, <1>7, LegalJoin

\* A hangup or an answer leaves everything as it was.
LEMMA AcquireTyped ==
    ASSUME NEW h \in Standings, NEW c \in Calls, Clear(h), h.locks[Mutex] = 0
    PROVE  Typed(h, Hangup(c), h) /\ Typed(h, Acquire(c, MediaUpdate(c)), h)
<1> DEFINE x == Hangup(c)
           y == Acquire(c, MediaUpdate(c))
<1>1. x \in Steps /\ x.do = "acquire" /\ y \in Steps /\ y.do = "acquire"
  BY StepsMade
<1> HIDE DEF x, y
<1>2. Typed(h, x, h) /\ Typed(h, y, h)
  BY <1>1 DEF Typed, Effect
<1> QED
  BY <1>2 DEF x, y

\* create_call() makes the call known under the mutex.
LEMMA CreateCallLegal ==
    ASSUME NEW h \in Standings, NEW c \in Calls, Clear(h), h.locks[Mutex] = 0
    PROVE  Legal(h, CreateCall(c), h)
<1> DEFINE x == Does("register", c)
           hm == Holding(h, Mutex)
<1>0. CreateCall(c) = Within(Mutex, <<x>>) /\ hm = Holding(h, Mutex)
  BY DEF CreateCall
<1>1. x \in Steps /\ x.do = "register"
  BY StepsMade DEF CallDoings
<1> HIDE DEF x, hm
<1>2. hm \in Standings /\ Clear(hm) /\ hm.locks[Mutex] = 1
  BY <1>0, LocksDiffer, HoldingFields
<1>3. Typed(hm, x, hm)
  BY <1>1, <1>2 DEF Typed, Effect
<1> QED
  BY <1>0, <1>3, MutexLegal

\* A lock is given back.
LEMMA GiveLegal ==
    ASSUME NEW h \in Standings, NEW l \in Locks, Clear(h)
    PROVE  Legal(Holding(h, l), <<Give(l)>>, h)
<1> DEFINE x == Give(l)
           hl == Holding(h, l)
<1>1. x \in Steps /\ x.do = "give" /\ x.on = l
  BY StepsMade
<1>2. hl \in Standings /\ Clear(hl) /\ hl = Holding(h, l)
  BY HoldingFields
<1> HIDE DEF x, hl
<1>3. Typed(hl, x, h)
  BY <1>1, <1>2 DEF Typed, Effect
<1>4. Legal(hl, <<x>>, h)
  BY <1>3, LegalStep
<1> QED
  BY <1>4 DEF x, hl

\* What acquire_call() lets a thread do ends with the dialog given back.
LEMMA AcquiredLegal ==
    ASSUME NEW h \in Standings, NEW c \in Calls, NEW then, Clear(h), h.locks[Mutex] = 0,
           then \in {<<Does("end", c)>>, MediaUpdate(c)}
    PROVE  Legal(Holding(h, c), then \o <<Give(c)>>, h)
<1> DEFINE x == Does("end", c)
           hc == Holding(h, c)
<1>1. x \in Steps /\ x.do = "end"
  BY StepsMade DEF CallDoings
<1>2. hc \in Standings /\ Clear(hc) /\ hc.locks[Mutex] = 0 /\ c \in Locks /\ hc = Holding(h, c)
  BY LocksDiffer, HoldingFields
<1>3. x = Does("end", c)
  OBVIOUS
<1> HIDE DEF x, hc
<1>4. Legal(hc, then, hc)
  <2>1. CASE then = <<x>>
    <3>1. Typed(hc, x, hc)
      BY <1>1, <1>2 DEF Typed, Effect
    <3> QED
      BY <2>1, <3>1, LegalStep
  <2>2. CASE then = MediaUpdate(c)
    BY <1>2, <2>2, MediaUpdateLegal
  <2> QED
    BY <1>3, <2>1, <2>2
<1>5. Legal(hc, <<Give(c)>>, h)
  BY <1>2, GiveLegal
<1>6. Legal(hc, then \o <<Give(c)>>, h)
  BY <1>4, <1>5, LegalJoin
<1> QED
  BY <1>2, <1>6

\* Two steps with a lock between them.
LEMMA PairLegal ==
    ASSUME NEW h, NEW x, NEW m, NEW y, NEW k, Typed(h, x, m), Typed(m, y, k)
    PROVE  Legal(h, <<x, y>>, k)
<1>1. Legal(h, <<x>>, m) /\ Legal(m, <<y>>, k) /\ x \in Steps /\ y \in Steps
  BY LegalStep DEF Typed
<1>2. Legal(h, <<x>> \o <<y>>, k)
  BY <1>1, LegalJoin
<1>3. <<x>> \o <<y>> = <<x, y>>
  <2> DEFINE q == <<x>> \o <<y>>
             r == <<x, y>>
  <2>1. q \in Seq(Steps) /\ Len(q) = 2 /\ q[1] = x /\ q[2] = y
    BY <1>1
  <2>2. r \in Seq(Steps) /\ Len(r) = 2 /\ r[1] = x /\ r[2] = y
    BY <1>1
  <2> HIDE DEF q, r
  <2>3. q = r
    BY <2>1, <2>2
  <2> QED
    BY <2>3 DEF q, r
<1>4. ASSUME NEW q, NEW r, q = r, Legal(h, q, k) PROVE Legal(h, r, k)
  BY <1>4
<1> QED
  BY <1>2, <1>3, <1>4

\* pjsua_call_on_incoming() and pjsua_call_make_call() begin with PJSUA_LOCK.
LEMMA BeginsLegal ==
    ASSUME NEW what \in {"admit", "dial"}
    PROVE  Legal(Idle, <<Take(Pjsua), Does(what, Pjsua)>>, Idle)
<1> DEFINE a == Take(Pjsua)
           x == Does(what, Pjsua)
           h == Holding(Idle, Pjsua)
<1>1. /\ a \in Steps /\ a.do = "take" /\ a.on = Pjsua
      /\ x \in Steps /\ x.do \in {"admit", "dial"}
  BY StepsMade, LocksDiffer
<1>2. h \in Standings /\ Clear(h) /\ h = Holding(Idle, Pjsua)
  BY IdleStanding, LocksDiffer, HoldingFields
<1> HIDE DEF a, x, h
<1>3. Typed(Idle, a, h)
  BY <1>1, <1>2, IdleStanding, LocksDiffer DEF Typed, Effect
<1>4. Typed(h, x, Idle)
  BY <1>1, <1>2, IdleStanding DEF Typed, Effect
<1>5. Legal(Idle, <<a, x>>, Idle)
  BY <1>3, <1>4, PairLegal
<1> QED
  BY <1>5 DEF a, x

\* The other side's request is handled with the dialog locked, and nothing else.
LEMMA RequestLegal ==
    ASSUME NEW c \in Calls, NEW what \in {"bye", "reinvite"}
    PROVE  Legal(Idle, Within(c, <<Does(what, c)>>), Idle)
<1> DEFINE x == Does(what, c)
           h == Holding(Idle, c)
<1>1. x \in Steps /\ x.do \in {"bye", "reinvite"}
  BY StepsMade DEF CallDoings
<1>2. h \in Standings /\ Clear(h) /\ h = Holding(Idle, c) /\ h.locks[Mutex] = 0 /\ c \in Locks
  BY IdleStanding, LocksDiffer, HoldingFields
<1> HIDE DEF x, h
<1>3. Typed(h, x, h)
  BY <1>1, <1>2 DEF Typed, Effect
<1>4. Legal(Holding(Idle, c), <<x>>, Holding(Idle, c))
  BY <1>2, <1>3, LegalStep
<1>5. Legal(Idle, Within(c, <<x>>), Idle)
  BY <1>2, <1>4, IdleStanding, LocksDiffer, WithinLegal
<1> QED
  BY <1>5 DEF x

\* A thread that has nothing takes the mutex to look at all calls, or to pick some.
LEMMA SectionLegal ==
    ASSUME NEW what \in {"check_all", "pick"}
    PROVE  Legal(Idle, Within(Mutex, <<Does(what, Mutex)>>), Idle)
<1> DEFINE x == Does(what, Mutex)
           h == Holding(Idle, Mutex)
<1>1. x \in Steps /\ x.do \in {"check_all", "pick"}
  BY StepsMade
<1>2. h \in Standings /\ Clear(h) /\ h = Holding(Idle, Mutex) /\ h.locks[Mutex] = 1
  BY IdleStanding, LocksDiffer, HoldingFields
<1> HIDE DEF x, h
<1>3. Typed(h, x, h)
  BY <1>1, <1>2 DEF Typed, Effect
<1>4. Legal(Idle, Within(Mutex, <<x>>), Idle)
  BY <1>2, <1>3, IdleStanding, LocksDiffer, MutexLegal
<1> QED
  BY <1>4 DEF x

\* Every operation that a thread begins is legal for one that has nothing.
LEMMA OperationsLegal ==
    ASSUME NEW t \in Threads, NEW steps \in Operations(t)
    PROVE  Legal(Idle, steps, Idle)
<1>1. Legal(Idle, Incoming, Idle) /\ Legal(Idle, MakeCall, Idle)
  BY BeginsLegal DEF Incoming, MakeCall
<1>2. \A c \in Calls : Legal(Idle, Bye(c), Idle) /\ Legal(Idle, ReInvite(c), Idle)
  BY RequestLegal DEF Bye, ReInvite
<1>3. \A c \in Calls : Legal(Idle, <<Hangup(c)>>, Idle) /\ Legal(Idle, Answer(c), Idle)
  <2> SUFFICES ASSUME NEW c \in Calls
               PROVE  Legal(Idle, <<Hangup(c)>>, Idle) /\ Legal(Idle, Answer(c), Idle)
    OBVIOUS
  <2>1. Typed(Idle, Hangup(c), Idle) /\ Typed(Idle, Acquire(c, MediaUpdate(c)), Idle)
    BY IdleStanding, LocksDiffer, AcquireTyped
  <2> QED
    BY <2>1, LegalStep DEF Answer
<1>4. Legal(Idle, ConnectMain, Idle)
  BY IdleStanding, AsksLegal DEF ConnectMain
<1>5. Legal(Idle, TimerTurn, Idle) /\ Legal(Idle, HangupByTag, Idle)
  <2>1. Legal(Idle, Within(Mutex, <<>>), Idle)
    <3>1. Legal(Holding(Idle, Mutex), <<>>, Holding(Idle, Mutex))
      BY IdleStanding, LocksDiffer, HoldingFields, LegalNothing
    <3> QED
      BY <3>1, IdleStanding, LocksDiffer, WithinLegal
  <2>2. \A what \in {"check_all", "pick"} : Legal(Idle, Within(Mutex, <<Does(what, Mutex)>>), Idle)
    BY SectionLegal
  <2>3. Legal(Idle, Within(Mutex, <<Does("check_all", Mutex)>>), Idle)
        /\ Legal(Idle, Within(Mutex, <<Does("pick", Mutex)>>), Idle)
    BY <2>2
  <2>4. Legal(Idle, Within(Mutex, <<>>) \o Within(Mutex, <<Does("check_all", Mutex)>>), Idle)
    BY <2>1, <2>3, LegalJoin
  <2> QED
    BY <2>3, <2>4 DEF TimerTurn, HangupByTag
<1>6. \/ steps \in {Incoming, MakeCall, TimerTurn, HangupByTag, ConnectMain}
      \/ \E c \in Calls : steps \in {Bye(c), ReInvite(c), Answer(c), <<Hangup(c)>>}
  <2>1. CASE t = Worker
    BY <2>1 DEF Operations
  <2>2. CASE t = Timer
    BY <2>2 DEF Operations
  <2>3. CASE t = MainThread
    BY <2>3 DEF Operations
  <2>4. CASE t = CallThread
    BY <2>4 DEF Operations
  <2> QED
    BY <2>1, <2>2, <2>3, <2>4 DEF Threads
<1> QED
  BY <1>1, <1>2, <1>3, <1>4, <1>5, <1>6

\* A call is admitted: it is made known with PJSUA_LOCK held.
LEMMA AdmittedLegal ==
    ASSUME NEW c \in Calls
    PROVE  /\ Legal(Holding(Idle, Pjsua), CreateCall(c) \o <<Give(Pjsua)>>, Idle)
           /\ Legal(Holding(Idle, Pjsua), <<Give(Pjsua)>>, Idle)
<1>1. Legal(Holding(Idle, Pjsua), <<Give(Pjsua)>>, Idle)
  BY IdleStanding, LocksDiffer, GiveLegal
<1>2. /\ Holding(Idle, Pjsua) \in Standings /\ Clear(Holding(Idle, Pjsua))
      /\ Holding(Idle, Pjsua).locks[Mutex] = 0
  BY IdleStanding, LocksDiffer, HoldingFields
<1>3. Legal(Holding(Idle, Pjsua), CreateCall(c), Holding(Idle, Pjsua))
  BY <1>2, CreateCallLegal
<1> QED
  BY <1>1, <1>3, LegalJoin

\* A call is made, or is over at once.
LEMMA DialledLegal ==
    ASSUME NEW c \in Calls, NEW h, h = Holding(Holding(Idle, Pjsua), c)
    PROVE  /\ Legal(h, <<Give(c), Give(Pjsua)>> \o CreateCall(c), Idle)
           /\ Legal(Erasing(Freeing(h, c), c), CallOver(c) \o <<Give(c), Give(Pjsua)>>, Idle)
<1> DEFINE p == Holding(Idle, Pjsua)
           a == Give(c)
           b == Give(Pjsua)
<1>1. /\ a \in Steps /\ a.do = "give" /\ a.on = c
      /\ b \in Steps /\ b.do = "give" /\ b.on = Pjsua
  BY StepsMade, LocksDiffer
<1>2. p \in Standings /\ Clear(p) /\ p = Holding(Idle, Pjsua) /\ p.locks[Mutex] = 0
      /\ p.erase = {} /\ p.free = {}
  <2>1. Idle.erase = {} /\ Idle.free = {}
    BY DEF Idle
  <2> QED
    BY <2>1, IdleStanding, LocksDiffer, HoldingFields
<1>3. h = Holding(p, c)
  OBVIOUS
<1> HIDE DEF p, a, b
<1>4. h \in Standings /\ Clear(h) /\ h.locks[Mutex] = 0 /\ h.erase = {} /\ h.free = {}
  <2>1. c \in Locks /\ Mutex \in Locks /\ c # Mutex
    BY LocksDiffer
  <2>2. h.locks[Mutex] = p.locks[Mutex]
    BY <1>2, <1>3, <2>1, HoldingLocks
  <2>3. h \in Standings /\ Clear(h) /\ h.erase = p.erase /\ h.free = p.free
    BY <1>2, <1>3, <2>1, HoldingFields
  <2> QED
    BY <1>2, <2>2, <2>3
<1>5. Typed(h, a, p) /\ Typed(p, b, Idle)
  BY <1>1, <1>2, <1>3, <1>4, IdleStanding DEF Typed, Effect
<1>6. Legal(h, <<a, b>>, Idle)
  BY <1>5, PairLegal
<1>7. Legal(Idle, CreateCall(c), Idle)
  BY IdleStanding, LocksDiffer, CreateCallLegal
<1>8. Legal(Erasing(Freeing(h, c), c), CallOver(c), h)
  BY <1>4, CallOverLegal
<1>9. /\ Legal(h, <<a, b>> \o CreateCall(c), Idle)
      /\ Legal(Erasing(Freeing(h, c), c), CallOver(c) \o <<a, b>>, Idle)
  BY <1>6, <1>7, <1>8, LegalJoin
<1> QED
  BY <1>9 DEF a, b

\* SetToSeq lists members of the set.
LEMMA SetToSeqMembers ==
    ASSUME NEW S, IsFiniteSet(S)
    PROVE  /\ DOMAIN SetToSeq(S) = 1..Cardinality(S) /\ Cardinality(S) \in Nat
           /\ \A i \in 1..Cardinality(S) : SetToSeq(S)[i] \in S
           /\ S = {} => Cardinality(S) = 0
<1> DEFINE P(f) == f \in [1..Cardinality(S) -> S] /\ IsInjective(f)
<1>1. Cardinality(S) \in Nat /\ ExistsBijection(1..Cardinality(S), S)
  BY FS_CardinalityType
<1>2. \E f : P(f)
  BY <1>1 DEF ExistsBijection, Bijection, Injection
<1>3. SetToSeq(S) = CHOOSE f \in [1..Cardinality(S) -> S] : IsInjective(f)
  BY DEF SetToSeq
<1>4. SetToSeq(S) \in [1..Cardinality(S) -> S]
  BY <1>2, <1>3
<1>5. S = {} => Cardinality(S) = 0
  BY FS_EmptySet
<1> QED
  BY <1>1, <1>4, <1>5

\* The calls of a set are hung up one after the other.
LEMMA HangupsLegal ==
    ASSUME NEW h \in Standings, NEW S \in SUBSET Calls, IsFiniteSet(S), Clear(h), h.locks[Mutex] = 0
    PROVE  Legal(h, Hangups(S), h)
<1> DEFINE s == Hangups(S)
           n == Cardinality(S)
<1>1. DOMAIN SetToSeq(S) = 1..n /\ n \in Nat /\ \A i \in 1..n : SetToSeq(S)[i] \in S
  BY SetToSeqMembers
<1>2. s = [i \in 1..n |-> Hangup(SetToSeq(S)[i])]
  BY <1>1 DEF Hangups
<1>3. \A i \in 1..n : s[i] \in Steps /\ Typed(h, s[i], h)
  <2> SUFFICES ASSUME NEW i \in 1..n PROVE s[i] \in Steps /\ Typed(h, s[i], h)
    OBVIOUS
  <2>1. PICK c \in Calls : c = SetToSeq(S)[i]
    BY <1>1
  <2>2. s[i] = Hangup(c)
    BY <1>2, <2>1
  <2>3. Typed(h, Hangup(c), h)
    BY AcquireTyped
  <2> QED
    BY <2>2, <2>3 DEF Typed
<1> HIDE DEF s, n
<1>4. s \in Seq(Steps) /\ Len(s) = n
  <2>1. s \in [1..n -> Steps]
    BY <1>2, <1>3
  <2> QED
    BY <1>1, <2>1
<1>5. Legal(h, s, h)
  BY <1>3, <1>4, LegalSteady
<1> QED
  BY <1>5 DEF s

Looks(S) == [i \in DOMAIN SetToSeq(S) |-> Does("look", SetToSeq(S)[i])]

\* The calls of a set are looked at one after the other, with the mutex held.
LEMMA LooksLegal ==
    ASSUME NEW h \in Standings, NEW S \in SUBSET Calls, IsFiniteSet(S), Clear(h), h.locks[Mutex] > 0
    PROVE  Legal([h EXCEPT !.look = S], Looks(S), h)
<1> DEFINE s == Looks(S)
           n == Cardinality(S)
           b == [h EXCEPT !.look = S]
           w == [i \in 1..(n + 1) |-> IF i = n + 1 THEN h ELSE b]
<1>1. /\ DOMAIN SetToSeq(S) = 1..n /\ n \in Nat /\ \A i \in 1..n : SetToSeq(S)[i] \in S
      /\ S = {} => n = 0
  BY SetToSeqMembers
<1>2. s = [i \in 1..n |-> Does("look", SetToSeq(S)[i])]
  BY <1>1 DEF Looks
<1>3. /\ b \in Standings /\ b.look = S /\ b.use = {} /\ b.locks = h.locks
      /\ h = [b EXCEPT !.use = {}, !.look = {}] /\ b = [b EXCEPT !.use = {}]
      /\ S = {} => b = h
  BY DEF Standings, Clear
<1>4. n = 0 => S = {}
  BY FS_EmptySet
<1>5. w \in [1..(n + 1) -> Standings]
  BY <1>3
<1>6. \A i \in 1..(n + 1) : w[i] = IF i = n + 1 THEN h ELSE b
  OBVIOUS
<1>7. n + 1 \in 1..(n + 1) /\ 1 \in 1..(n + 1)
  BY <1>1
<1>8. \A i \in 1..n : /\ s[i] \in Steps /\ s[i].do = "look" /\ s[i].on \in S
                      /\ i \in 1..(n + 1) /\ i # n + 1 /\ i + 1 \in 1..(n + 1)
  <2> SUFFICES ASSUME NEW i \in 1..n
               PROVE  /\ s[i] \in Steps /\ s[i].do = "look" /\ s[i].on \in S
                      /\ i \in 1..(n + 1) /\ i # n + 1 /\ i + 1 \in 1..(n + 1)
    OBVIOUS
  <2>1. PICK c \in S : c = SetToSeq(S)[i]
    BY <1>1
  <2>2. s[i] = Does("look", c)
    BY <1>2, <2>1
  <2>3. Does("look", c) \in Steps /\ Does("look", c).do = "look" /\ Does("look", c).on = c
    BY StepsMade DEF CallDoings
  <2>4. i \in 1..(n + 1) /\ i # n + 1 /\ i + 1 \in 1..(n + 1)
    BY <1>1
  <2> QED
    BY <2>2, <2>3, <2>4
<1>9. s \in [1..n -> Steps]
  BY <1>2, <1>8
<1> HIDE DEF s, n, b, w
<1>10. s \in Seq(Steps) /\ Len(s) = n
  BY <1>1, <1>9
<1>11. ASSUME NEW i \in 1..n PROVE Typed(w[i], s[i], w[i + 1])
  <2>1. w[i] = b /\ w[i + 1] \in {b, h}
    BY <1>6, <1>8
  <2>2. Looked(b, w[i + 1])
    BY <1>3, <2>1 DEF Looked
  <2> QED
    BY <1>3, <1>8, <2>1, <2>2 DEF Typed, Effect
<1>12. w[1] = b /\ w[n + 1] = h
  BY <1>1, <1>3, <1>4, <1>6, <1>7
<1>13. Legal(b, s, h)
  BY <1>5, <1>10, <1>11, <1>12 DEF Legal
<1> QED
  BY <1>13 DEF s, b

-----------------------------------------------------------------------------
(* The inductive invariant.                                                *)

\* How often the thread has taken the lock.
Held(t, l) == IF owner[l] = t THEN depth[l] ELSE 0

\* A lock that nobody has is not taken.
OwnerInv == \A l \in Locks : owner[l] = NoThread <=> depth[l] = 0

\* A session that has not been freed.
Alive(c) == session[c] \in {"live", "renewed"}

\* The thread t has the standing h.  A call that it is to give up is over, and is
\* out of m_calls when it has been erased, unless it was made known too late; and
\* nobody changes m_calls while it looks at the calls in it.
Fits(h, t) ==
    /\ h \in Standings
    /\ Legal(h, todo[t], Idle)
    /\ \A l \in Locks : h.locks[l] = Held(t, l)
    /\ h.erase \subseteq h.free
    /\ \A c \in h.free : state[c] = "over" /\ (c \in h.erase \/ c \notin registered \/ c \in late)
    /\ h.look \subseteq registered /\ h.use \subseteq h.look
    /\ h.look # {} => h.locks[Mutex] > 0
    /\ \A c \in h.use : Alive(c) \/ c \in late

\* The threads have these standings, and no call is given up by two of them.
Stand(g) ==
    /\ \A t \in Threads : Fits(g[t], t)
    /\ \A t, u \in Threads : t # u => g[t].free \cap g[u].free = {}

BaseInv == TypeOK /\ OwnerInv /\ IsFiniteSet(registered)

IInv == BaseInv /\ \E g \in [Threads -> Standings] : Stand(g)

\* A thread comes to a new standing, the others keep theirs.
LEMMA Restand ==
    ASSUME NEW g \in [Threads -> Standings], NEW t \in Threads, NEW k \in Standings,
           BaseInv', Fits(k, t)',
           \A u \in Threads \ {t} : Fits(g[u], u)' /\ k.free \cap g[u].free = {},
           \A u, x \in Threads : u # x => g[u].free \cap g[x].free = {}
    PROVE  IInv'
<1> DEFINE f == [g EXCEPT ![t] = k]
<1>1. f \in [Threads -> Standings] /\ f[t] = k /\ \A u \in Threads \ {t} : f[u] = g[u]
  OBVIOUS
<1> HIDE DEF f
<1>2. \A u \in Threads : Fits(f[u], u)'
  <2> SUFFICES ASSUME NEW u \in Threads PROVE Fits(f[u], u)'
    OBVIOUS
  <2>1. CASE u = t
    <3>1. f[u] = k
      BY <1>1, <2>1
    <3> QED
      BY <2>1, <3>1
  <2>2. CASE u # t
    <3>1. f[u] = g[u] /\ Fits(g[u], u)'
      BY <1>1, <2>2
    <3> QED
      BY <3>1
  <2> QED
    BY <2>1, <2>2
<1>3. \A u, x \in Threads : u # x => f[u].free \cap f[x].free = {}
  BY <1>1
<1>4. Stand(f)'
  BY <1>2, <1>3 DEF Stand
<1> QED
  BY <1>1, <1>4 DEF IInv

\* A lock is taken by a thread that may.
LEMMA TookHeld ==
    ASSUME BaseInv, NEW t \in Threads, NEW l \in Locks, Took(t, l), Free(l) \/ owner[l] = t
    PROVE  /\ owner' \in [Locks -> Threads \cup {NoThread}] /\ depth' \in [Locks -> Nat] /\ OwnerInv'
           /\ \A m \in Locks : Held(t, m)' = IF m = l THEN Held(t, m) + 1 ELSE Held(t, m)
           /\ \A u \in Threads \ {t}, m \in Locks : Held(u, m)' = Held(u, m)
<1>1. /\ owner \in [Locks -> Threads \cup {NoThread}] /\ depth \in [Locks -> Nat]
      /\ t # NoThread
      /\ Free(l) => depth[l] = 0
  BY LocksDiffer DEF BaseInv, TypeOK, OwnerInv, Free
<1>2. /\ owner' \in [Locks -> Threads \cup {NoThread}] /\ depth' \in [Locks -> Nat]
      /\ owner'[l] = t /\ depth'[l] = depth[l] + 1
      /\ \A m \in Locks \ {l} : owner'[m] = owner[m] /\ depth'[m] = depth[m]
  BY <1>1 DEF Took
<1>3. OwnerInv'
  BY <1>1, <1>2 DEF BaseInv, OwnerInv
<1>4. \A m \in Locks : Held(t, m)' = IF m = l THEN Held(t, m) + 1 ELSE Held(t, m)
  BY <1>1, <1>2 DEF Held, Free
<1>5. \A u \in Threads \ {t}, m \in Locks : Held(u, m)' = Held(u, m)
  BY <1>1, <1>2, LocksDiffer DEF Held, Free
<1> QED
  BY <1>2, <1>3, <1>4, <1>5

\* A lock is given back by the thread that has it.
LEMMA GaveHeld ==
    ASSUME BaseInv, NEW t \in Threads, NEW l \in Locks, owner[l] = t,
           depth' = [depth EXCEPT ![l] = @ - 1],
           owner' = [owner EXCEPT ![l] = IF depth[l] = 1 THEN NoThread ELSE @]
    PROVE  /\ owner' \in [Locks -> Threads \cup {NoThread}] /\ depth' \in [Locks -> Nat] /\ OwnerInv'
           /\ \A m \in Locks : Held(t, m)' = IF m = l THEN Held(t, m) - 1 ELSE Held(t, m)
           /\ \A u \in Threads \ {t}, m \in Locks : Held(u, m)' = Held(u, m)
<1>1. /\ owner \in [Locks -> Threads \cup {NoThread}] /\ depth \in [Locks -> Nat]
      /\ t # NoThread /\ depth[l] > 0
  BY LocksDiffer DEF BaseInv, TypeOK, OwnerInv
<1>2. /\ owner' \in [Locks -> Threads \cup {NoThread}] /\ depth' \in [Locks -> Nat]
      /\ owner'[l] = (IF depth[l] = 1 THEN NoThread ELSE t) /\ depth'[l] = depth[l] - 1
      /\ \A m \in Locks \ {l} : owner'[m] = owner[m] /\ depth'[m] = depth[m]
  BY <1>1
<1>3. OwnerInv'
  BY <1>1, <1>2 DEF BaseInv, OwnerInv
<1>4. \A m \in Locks : Held(t, m)' = IF m = l THEN Held(t, m) - 1 ELSE Held(t, m)
  BY <1>1, <1>2 DEF Held
<1>5. \A u \in Threads \ {t}, m \in Locks : Held(u, m)' = Held(u, m)
  BY <1>1, <1>2, LocksDiffer DEF Held
<1> QED
  BY <1>2, <1>3, <1>4, <1>5

\* What a standing says of itself, of m_calls and of the sessions.
Proper(k) ==
    /\ k.erase \subseteq k.free
    /\ k.look \subseteq registered /\ k.use \subseteq k.look
    /\ k.look # {} => k.locks[Mutex] > 0
    /\ \A c \in k.use : Alive(c) \/ c \in late

\* A step of t that changes neither m_calls nor a session, and ends no call that
\* somebody is to give up.
LEMMA Goes ==
    ASSUME BaseInv, NEW g \in [Threads -> Standings], Stand(g), NEW t \in Threads,
           NEW k \in Standings, NEW s, Legal(k, s, Idle), GoesOn(t, s), Proper(k),
           owner' \in [Locks -> Threads \cup {NoThread}], depth' \in [Locks -> Nat], OwnerInv',
           state' \in [Calls -> {"free", "up", "over"}], ops' \in Nat,
           UNCHANGED <<session, registered, late>>,
           \A m \in Locks : k.locks[m] = Held(t, m)',
           \A u \in Threads \ {t}, m \in Locks : Held(u, m)' = Held(u, m),
           \A c \in Calls : state[c] = "over" => state'[c] = "over",
           \A c \in k.free : /\ state'[c] = "over" /\ (c \in k.erase \/ c \notin registered \/ c \in late)
                             /\ c \in g[t].free \/ state[c] # "over"
    PROVE  IInv'
<1>1. todo' \in [Threads -> Seq(Steps)] /\ todo'[t] = s /\ \A u \in Threads \ {t} : todo'[u] = todo[u]
  BY DEF BaseInv, TypeOK, GoesOn, Legal
<1>2. BaseInv'
  BY <1>1 DEF BaseInv, TypeOK
<1>3. Fits(k, t)'
  BY <1>1 DEF Fits, Proper, Alive
<1>4. \A u \in Threads \ {t} : Fits(g[u], u)'
  <2> SUFFICES ASSUME NEW u \in Threads \ {t} PROVE Fits(g[u], u)'
    OBVIOUS
  <2>1. Fits(g[u], u) /\ g[u].free \subseteq Calls
    BY DEF Stand, Standings
  <2>2. todo'[u] = todo[u] /\ \A m \in Locks : Held(u, m)' = Held(u, m)
    BY <1>1
  <2> QED
    BY <2>1, <2>2 DEF Fits, Alive
<1>5. \A u \in Threads \ {t} : k.free \cap g[u].free = {}
  BY DEF Stand, Fits
<1> QED
  BY <1>2, <1>3, <1>4, <1>5, Restand DEF Stand

\* A step of t that changes no more than what it has before it.
LEMMA Quiet ==
    ASSUME BaseInv, NEW g \in [Threads -> Standings], Stand(g), NEW t \in Threads,
           NEW k \in Standings, NEW s, Legal(k, s, Idle), GoesOn(t, s), Proper(k), ops' \in Nat,
           UNCHANGED <<owner, depth, state, session, registered, late>>,
           k.locks = g[t].locks, k.erase = g[t].erase, k.free = g[t].free
    PROVE  IInv'
<1>1. /\ owner' \in [Locks -> Threads \cup {NoThread}] /\ depth' \in [Locks -> Nat] /\ OwnerInv'
      /\ state' \in [Calls -> {"free", "up", "over"}]
      /\ \A u \in Threads, m \in Locks : Held(u, m)' = Held(u, m)
  BY DEF BaseInv, TypeOK, OwnerInv, Held
<1>2. Fits(g[t], t)
  BY DEF Stand
<1>3. \A m \in Locks : k.locks[m] = Held(t, m)'
  BY <1>1, <1>2 DEF Fits
<1>4. \A c \in k.free : /\ state'[c] = "over" /\ (c \in k.erase \/ c \notin registered \/ c \in late)
                        /\ c \in g[t].free \/ state[c] # "over"
  BY <1>2 DEF Fits
<1>5. UNCHANGED <<session, registered, late>> /\ \A c \in Calls : state[c] = "over" => state'[c] = "over"
  OBVIOUS
<1>6. \A u \in Threads \ {t}, m \in Locks : Held(u, m)' = Held(u, m)
  BY <1>1
<1> QED
  BY <1>1, <1>3, <1>4, <1>5, <1>6, Goes

\* What a thread is about to do is typed, and the rest is legal from there.
LEMMA StepTyped ==
    ASSUME BaseInv, NEW g \in [Threads -> Standings], Stand(g), NEW t \in Threads, todo[t] # <<>>
    PROVE  /\ Fits(g[t], t) /\ g[t] \in Standings /\ Proper(g[t]) /\ Step(t) \in Steps
           /\ \E m \in Standings : /\ Typed(g[t], Step(t), m) /\ Effect(g[t], Step(t), m)
                                   /\ Legal(m, Rest(t), Idle)
<1>1. Fits(g[t], t)
  BY DEF Stand
<1>2. \E m \in Standings : Typed(g[t], Head(todo[t]), m) /\ Legal(m, Tail(todo[t]), Idle)
  BY <1>1, LegalSplit DEF Fits
<1>3. Proper(g[t])
  BY <1>1 DEF Fits, Proper
<1> QED
  BY <1>1, <1>2, <1>3 DEF Step, Rest, Typed

\* A standing without a call to look at is proper if it was before.
LEMMA ClearProper ==
    ASSUME NEW k \in Standings, Clear(k), k.erase \subseteq k.free PROVE Proper(k)
  BY DEF Clear, Proper

-----------------------------------------------------------------------------
(* The steps of the threads, one lemma for each.                           *)

\* A thread begins an operation.
LEMMA BeginInv ==
    ASSUME BaseInv, NEW g \in [Threads -> Standings], Stand(g), NEW t \in Threads, Begin(t) PROVE IInv'
<1>1. PICK steps \in Operations(t) : GoesOn(t, steps)
  BY DEF Begin
<1>2. Fits(g[t], t) /\ todo[t] = <<>>
  BY DEF Stand, Begin
<1>3. g[t] = Idle
  BY <1>2, LegalEnd DEF Fits
<1>4. Legal(Idle, steps, Idle)
  BY OperationsLegal
<1>5. Proper(Idle)
  BY IdleStanding, ClearProper DEF Idle
<1>6. ops' \in Nat /\ UNCHANGED <<owner, depth, state, session, registered, late>>
  BY DEF Begin, BaseInv, TypeOK
<1> QED
  BY <1>1, <1>3, <1>4, <1>5, <1>6, IdleStanding, Quiet

\* A thread takes a lock, and gives it back.
LEMMA LockInv ==
    ASSUME BaseInv, NEW g \in [Threads -> Standings], Stand(g), NEW t \in Threads, Lock(t) PROVE IInv'
<1>1. /\ todo[t] # <<>> /\ Step(t).do = "take" /\ CanTake(t, Step(t).on) /\ Took(t, Step(t).on)
      /\ GoesOn(t, Rest(t)) /\ UNCHANGED <<state, session, registered, late, ops>>
  BY DEF Lock, Is
<1>2. Fits(g[t], t) /\ g[t] \in Standings /\ Proper(g[t]) /\ Step(t) \in Steps
  BY <1>1, StepTyped
<1>3. PICK m \in Standings : Effect(g[t], Step(t), m) /\ Legal(m, Rest(t), Idle)
  BY <1>1, StepTyped
<1>4. PICK l \in Locks : l = Step(t).on
  BY <1>2, StepKinds
<1>5. m = Holding(g[t], l) /\ Clear(m)
  BY <1>1, <1>3, <1>4 DEF Effect
<1>6. /\ m.erase = g[t].erase /\ m.free = g[t].free
      /\ \A n \in Locks : m.locks[n] = IF n = l THEN g[t].locks[n] + 1 ELSE g[t].locks[n]
  BY <1>2, <1>5, HoldingFields
<1>7. /\ owner' \in [Locks -> Threads \cup {NoThread}] /\ depth' \in [Locks -> Nat] /\ OwnerInv'
      /\ \A n \in Locks : Held(t, n)' = IF n = l THEN Held(t, n) + 1 ELSE Held(t, n)
      /\ \A u \in Threads \ {t}, n \in Locks : Held(u, n)' = Held(u, n)
  BY <1>1, <1>4, TookHeld DEF CanTake
<1>8. \A n \in Locks : m.locks[n] = Held(t, n)'
  BY <1>2, <1>6, <1>7 DEF Fits
<1>9. Proper(m)
  BY <1>2, <1>5, <1>6, ClearProper DEF Proper
<1>10. \A c \in m.free : /\ state'[c] = "over" /\ (c \in m.erase \/ c \notin registered \/ c \in late)
                         /\ c \in g[t].free \/ state[c] # "over"
  BY <1>1, <1>2, <1>6 DEF Fits
<1>11. /\ state' \in [Calls -> {"free", "up", "over"}] /\ ops' \in Nat
       /\ UNCHANGED <<session, registered, late>>
       /\ \A c \in Calls : state[c] = "over" => state'[c] = "over"
  BY <1>1 DEF BaseInv, TypeOK
<1> QED
  BY <1>1, <1>3, <1>7, <1>8, <1>9, <1>10, <1>11, Goes

LEMMA UnlockInv ==
    ASSUME BaseInv, NEW g \in [Threads -> Standings], Stand(g), NEW t \in Threads, Unlock(t) PROVE IInv'
<1>1. /\ todo[t] # <<>> /\ Step(t).do = "give"
      /\ GoesOn(t, Rest(t)) /\ UNCHANGED <<state, session, registered, late, ops>>
  BY DEF Unlock, Is
<1>2. Fits(g[t], t) /\ g[t] \in Standings /\ Proper(g[t]) /\ Step(t) \in Steps
  BY <1>1, StepTyped
<1>3. PICK m \in Standings : Effect(g[t], Step(t), m) /\ Legal(m, Rest(t), Idle)
  BY <1>1, StepTyped
<1>4. PICK l \in Locks : l = Step(t).on
  BY <1>2, StepKinds
<1>5. g[t] = Holding(m, l) /\ Clear(m)
  BY <1>1, <1>3, <1>4 DEF Effect
<1>6. /\ m.erase = g[t].erase /\ m.free = g[t].free
      /\ \A n \in Locks : g[t].locks[n] = IF n = l THEN m.locks[n] + 1 ELSE m.locks[n]
      /\ \A n \in Locks : m.locks[n] \in Nat
  <2>1. \A n \in Locks : m.locks[n] \in Nat
    BY DEF Standings
  <2> QED
    BY <1>5, <2>1, HoldingFields
<1>7. owner[l] = t
  <2>1. Held(t, l) > 0
    BY <1>2, <1>6 DEF Fits
  <2> QED
    BY <2>1 DEF Held
<1>8. /\ owner' \in [Locks -> Threads \cup {NoThread}] /\ depth' \in [Locks -> Nat] /\ OwnerInv'
      /\ \A n \in Locks : Held(t, n)' = IF n = l THEN Held(t, n) - 1 ELSE Held(t, n)
      /\ \A u \in Threads \ {t}, n \in Locks : Held(u, n)' = Held(u, n)
  BY <1>4, <1>7, GaveHeld DEF Unlock
<1>9. \A n \in Locks : m.locks[n] = Held(t, n)'
  BY <1>2, <1>6, <1>8 DEF Fits
<1>10. Proper(m)
  BY <1>2, <1>5, <1>6, ClearProper DEF Proper
<1>11. \A c \in m.free : /\ state'[c] = "over" /\ (c \in m.erase \/ c \notin registered \/ c \in late)
                         /\ c \in g[t].free \/ state[c] # "over"
  BY <1>1, <1>2, <1>6 DEF Fits
<1>12. /\ state' \in [Calls -> {"free", "up", "over"}] /\ ops' \in Nat
       /\ UNCHANGED <<session, registered, late>>
       /\ \A c \in Calls : state[c] = "over" => state'[c] = "over"
  BY <1>1 DEF BaseInv, TypeOK
<1> QED
  BY <1>1, <1>3, <1>8, <1>9, <1>10, <1>11, <1>12, Goes

\* acquire_call() comes back with the dialog's lock, or without it.
LEMMA AcquireCallInv ==
    ASSUME BaseInv, NEW g \in [Threads -> Standings], Stand(g), NEW t \in Threads, AcquireCall(t)
    PROVE  IInv'
<1>1. todo[t] # <<>> /\ Step(t).do = "acquire" /\ UNCHANGED <<state, session, registered, late, ops>>
  BY DEF AcquireCall, Is
<1>2. Fits(g[t], t) /\ g[t] \in Standings /\ Proper(g[t]) /\ Step(t) \in Steps
  BY <1>1, StepTyped
<1>3. PICK h \in Standings : h = g[t]
  BY <1>2
<1>4. /\ Legal(h, Rest(t), Idle) /\ Clear(h) /\ h.locks[Mutex] = 0
  <2>1. PICK m \in Standings : Effect(g[t], Step(t), m) /\ Legal(m, Rest(t), Idle)
    BY <1>1, StepTyped
  <2> QED
    BY <1>1, <1>3, <2>1 DEF Effect
<1>0. PICK c \in Calls : c = Step(t).on
  BY <1>1, <1>2, StepKinds
<1>5. PICK then \in {<<Does("end", c)>>, MediaUpdate(c)} : then = Step(t).then
  BY <1>0, <1>1, <1>2, StepKinds
<1>6. ops' \in Nat /\ state' \in [Calls -> {"free", "up", "over"}]
      /\ \A d \in Calls : state[d] = "over" => state'[d] = "over"
  BY <1>1 DEF BaseInv, TypeOK
<1>7. CASE GoesOn(t, Rest(t)) /\ UNCHANGED <<owner, depth>>
  BY <1>1, <1>2, <1>3, <1>4, <1>6, <1>7, Quiet
<1>8. CASE CanTake(t, c) /\ Took(t, c) /\ GoesOn(t, then \o <<Give(c)>> \o Rest(t))
  <2> DEFINE k == Holding(h, c)
  <2>1. c \in Locks
    BY LocksDiffer
  <2>2. /\ k \in Standings /\ Clear(k) /\ k.erase = h.erase /\ k.free = h.free
        /\ \A n \in Locks : k.locks[n] = IF n = c THEN h.locks[n] + 1 ELSE h.locks[n]
    BY <1>4, <2>1, HoldingFields
  <2>3. Legal(k, (then \o <<Give(c)>>) \o Rest(t), Idle)
    BY <1>4, AcquiredLegal, LegalJoin
  <2> HIDE DEF k
  <2>4. /\ owner' \in [Locks -> Threads \cup {NoThread}] /\ depth' \in [Locks -> Nat] /\ OwnerInv'
        /\ \A n \in Locks : Held(t, n)' = IF n = c THEN Held(t, n) + 1 ELSE Held(t, n)
        /\ \A u \in Threads \ {t}, n \in Locks : Held(u, n)' = Held(u, n)
    BY <1>8, <2>1, TookHeld DEF CanTake
  <2>5. \A n \in Locks : k.locks[n] = Held(t, n)'
    BY <1>2, <1>3, <2>2, <2>4 DEF Fits
  <2>6. Proper(k)
    BY <1>2, <1>3, <2>2, ClearProper DEF Proper
  <2>7. \A d \in k.free : /\ state'[d] = "over" /\ (d \in k.erase \/ d \notin registered \/ d \in late)
                          /\ d \in g[t].free \/ state[d] # "over"
    BY <1>1, <1>2, <1>3, <2>2 DEF Fits
  <2> QED
    BY <1>1, <1>6, <1>8, <2>2, <2>3, <2>4, <2>5, <2>6, <2>7, Goes
<1>9. \/ GoesOn(t, Rest(t)) /\ UNCHANGED <<owner, depth>>
      \/ CanTake(t, c) /\ Took(t, c) /\ GoesOn(t, then \o <<Give(c)>> \o Rest(t))
  BY <1>0, <1>5 DEF AcquireCall
<1> QED
  BY <1>7, <1>8, <1>9

\* The steps that leave the standing as it is, and what they find in it.
LEMMA SteadyStep ==
    ASSUME BaseInv, NEW g \in [Threads -> Standings], Stand(g), NEW t \in Threads, todo[t] # <<>>,
           Step(t).do \in {"acquire", "bye", "reinvite", "end", "stop_media", "start_media",
                           "connect", "register", "check_all", "pick"}
    PROVE  /\ Fits(g[t], t) /\ g[t] \in Standings /\ Proper(g[t]) /\ Step(t) \in Steps
           /\ Step(t).do \notin {"check_all", "pick"} => Step(t).on \in Calls
           /\ Legal(g[t], Rest(t), Idle) /\ Clear(g[t])
           /\ Step(t).do \in {"acquire", "bye", "reinvite", "end"} => g[t].locks[Mutex] = 0
           /\ Step(t).do \in {"register", "check_all", "pick"} => g[t].locks[Mutex] > 0
<1>1. Fits(g[t], t) /\ g[t] \in Standings /\ Proper(g[t]) /\ Step(t) \in Steps
  BY StepTyped
<1>2. PICK m \in Standings : Effect(g[t], Step(t), m) /\ Legal(m, Rest(t), Idle)
  BY StepTyped
<1>3. Step(t).do \notin {"check_all", "pick"} => Step(t).on \in Calls
  BY <1>1, StepKinds DEF CallDoings
<1>4. m = g[t] /\ Clear(g[t])
  BY <1>2 DEF Effect
<1>5. Step(t).do \in {"acquire", "bye", "reinvite", "end"} => g[t].locks[Mutex] = 0
  BY <1>2 DEF Effect
<1>6. Step(t).do \in {"register", "check_all", "pick"} => g[t].locks[Mutex] > 0
  BY <1>2 DEF Effect
<1> QED
  BY <1>1, <1>2, <1>3, <1>4, <1>5, <1>6

\* A call that is up is over, and the thread goes on with pjsua's end of it.
LEMMA CallEnds ==
    ASSUME BaseInv, NEW g \in [Threads -> Standings], Stand(g), NEW t \in Threads,
           NEW c \in Calls, state[c] = "up", state' = [state EXCEPT ![c] = "over"],
           Clear(g[t]), g[t].locks[Mutex] = 0, NEW r, Legal(g[t], r, Idle),
           GoesOn(t, CallOver(c) \o r), UNCHANGED <<owner, depth, session, registered, late, ops>>
    PROVE  IInv'
<1>1. PICK h \in Standings : h = g[t]
  OBVIOUS
<1>2. Fits(h, t)
  BY <1>1 DEF Stand
<1>3. state \in [Calls -> {"free", "up", "over"}]
  BY DEF BaseInv, TypeOK
<1>4. c \notin h.free /\ c \notin h.erase
  BY <1>2, <1>3 DEF Fits
<1> DEFINE f == Freeing(h, c)
           k == Erasing(f, c)
<1>5. /\ k \in Standings /\ Clear(k) /\ k.erase = h.erase \cup {c} /\ k.free = h.free \cup {c}
      /\ k.locks = h.locks
  <2>1. /\ f \in Standings /\ Clear(f) /\ f.erase = h.erase /\ f.free = h.free \cup {c}
        /\ f.locks = h.locks
    BY <1>1, FreeingFields
  <2> HIDE DEF f
  <2> QED
    BY <2>1, ErasingFields
<1>6. Legal(k, CallOver(c) \o r, Idle)
  BY <1>1, <1>4, CallOverLegal, LegalJoin
<1> HIDE DEF f, k
<1>7. Proper(k)
  BY <1>2, <1>5, ClearProper DEF Fits
<1>8. /\ owner' \in [Locks -> Threads \cup {NoThread}] /\ depth' \in [Locks -> Nat] /\ OwnerInv'
      /\ ops' \in Nat /\ \A u \in Threads, m \in Locks : Held(u, m)' = Held(u, m)
  BY DEF BaseInv, TypeOK, OwnerInv, Held
<1>9. \A m \in Locks : k.locks[m] = Held(t, m)'
  BY <1>2, <1>5, <1>8 DEF Fits
<1>10. /\ state' \in [Calls -> {"free", "up", "over"}]
       /\ \A d \in Calls : state[d] = "over" => state'[d] = "over"
       /\ state'[c] = "over"
  BY <1>3
<1>11. \A d \in k.free : /\ state'[d] = "over" /\ (d \in k.erase \/ d \notin registered \/ d \in late)
                         /\ d \in g[t].free \/ state[d] # "over"
  <2> SUFFICES ASSUME NEW d \in k.free
               PROVE  /\ state'[d] = "over" /\ (d \in k.erase \/ d \notin registered \/ d \in late)
                      /\ d \in g[t].free \/ state[d] # "over"
    OBVIOUS
  <2>1. CASE d = c
    BY <1>5, <1>10, <2>1
  <2>2. CASE d \in h.free
    <3>1. d \in Calls /\ state[d] = "over" /\ (d \in h.erase \/ d \notin registered \/ d \in late)
      BY <1>2, <2>2 DEF Fits, Standings
    <3> QED
      BY <1>1, <1>5, <1>10, <2>2, <3>1
  <2> QED
    BY <1>5, <2>1, <2>2
<1>12. \A u \in Threads \ {t}, m \in Locks : Held(u, m)' = Held(u, m)
  BY <1>8
<1> QED
  BY <1>5, <1>6, <1>7, <1>8, <1>9, <1>10, <1>11, <1>12, Goes

\* The thread leaves its standing as it is: it is as in Quiet.
LEMMA Stays ==
    ASSUME BaseInv, NEW g \in [Threads -> Standings], Stand(g), NEW t \in Threads,
           NEW s, Legal(g[t], s, Idle), GoesOn(t, s),
           UNCHANGED <<owner, depth, state, session, registered, late, ops>>
    PROVE  IInv'
<1>1. Fits(g[t], t) /\ g[t] \in Standings
  BY DEF Stand
<1>2. Proper(g[t])
  BY <1>1 DEF Fits, Proper
<1>3. ops' \in Nat
  BY DEF BaseInv, TypeOK
<1> QED
  BY <1>1, <1>2, <1>3, Quiet

\* The other side's BYE or re-INVITE is handled.
LEMMA ByeOrReInviteInv ==
    ASSUME BaseInv, NEW g \in [Threads -> Standings], Stand(g), NEW t \in Threads, ByeOrReInvite(t)
    PROVE  IInv'
<1>1. /\ todo[t] # <<>> /\ Step(t).do \in {"bye", "reinvite"}
      /\ UNCHANGED <<owner, depth, session, registered, late, ops>>
  BY DEF ByeOrReInvite, Is
<1>2. /\ Step(t).on \in Calls /\ g[t] \in Standings /\ Legal(g[t], Rest(t), Idle)
      /\ Clear(g[t]) /\ g[t].locks[Mutex] = 0
  BY <1>1, SteadyStep
<1>3. PICK c \in Calls : c = Step(t).on
  BY <1>2
<1>4. CASE GoesOn(t, Rest(t)) /\ UNCHANGED state
  BY <1>1, <1>2, <1>4, Stays
<1>5. CASE GoesOn(t, MediaUpdate(c) \o Rest(t)) /\ UNCHANGED state
  <2>1. Legal(g[t], MediaUpdate(c) \o Rest(t), Idle)
    BY <1>2, MediaUpdateLegal, LegalJoin
  <2> QED
    BY <1>1, <1>5, <2>1, Stays
<1>6. CASE /\ state[c] = "up" /\ state' = [state EXCEPT ![c] = "over"]
           /\ GoesOn(t, CallOver(c) \o Rest(t))
  BY <1>1, <1>2, <1>6, CallEnds
<1> QED
  BY <1>3, <1>4, <1>5, <1>6 DEF ByeOrReInvite

\* A call is hung up.
LEMMA EndSessionInv ==
    ASSUME BaseInv, NEW g \in [Threads -> Standings], Stand(g), NEW t \in Threads, EndSession(t)
    PROVE  IInv'
<1>1. /\ todo[t] # <<>> /\ Step(t).do = "end"
      /\ UNCHANGED <<owner, depth, session, registered, late, ops>>
  BY DEF EndSession, Is
<1>2. /\ Step(t).on \in Calls /\ g[t] \in Standings /\ Legal(g[t], Rest(t), Idle)
      /\ Clear(g[t]) /\ g[t].locks[Mutex] = 0
  BY <1>1, SteadyStep
<1>3. PICK c \in Calls : c = Step(t).on
  BY <1>2
<1>4. CASE GoesOn(t, Rest(t)) /\ UNCHANGED state
  BY <1>1, <1>2, <1>4, Stays
<1>5. CASE /\ state[c] = "up" /\ state' = [state EXCEPT ![c] = "over"]
           /\ GoesOn(t, CallOver(c) \o Rest(t))
  BY <1>1, <1>2, <1>5, CallEnds
<1> QED
  BY <1>3, <1>4, <1>5 DEF EndSession

\* on_media_connected() asks pjsua when the call has a script.
LEMMA ConnectInv ==
    ASSUME BaseInv, NEW g \in [Threads -> Standings], Stand(g), NEW t \in Threads, Connect(t)
    PROVE  IInv'
<1>1. /\ todo[t] # <<>> /\ Step(t).do = "connect"
      /\ UNCHANGED <<owner, depth, state, session, registered, late, ops>>
      /\ GoesOn(t, Asks \o Rest(t)) \/ GoesOn(t, <<>> \o Rest(t))
  BY DEF Connect, Is
<1>2. g[t] \in Standings /\ Legal(g[t], Rest(t), Idle) /\ Clear(g[t])
  BY <1>1, SteadyStep
<1>3. Legal(g[t], Asks \o Rest(t), Idle) /\ Legal(g[t], <<>> \o Rest(t), Idle)
  BY <1>2, AsksLegal, LegalNothing, LegalJoin
<1> QED
  BY <1>1, <1>3, Stays

\* A thread that admits or makes a call has PJSUA_LOCK and nothing else.
LEMMA PjsuaStep ==
    ASSUME BaseInv, NEW g \in [Threads -> Standings], Stand(g), NEW t \in Threads, todo[t] # <<>>,
           Step(t).do \in {"admit", "dial"}
    PROVE  /\ g[t] = Holding(Idle, Pjsua) /\ g[t] \in Standings /\ Clear(g[t])
           /\ g[t].erase = {} /\ g[t].free = {} /\ Fits(g[t], t)
<1>1. Fits(g[t], t)
  BY StepTyped
<1>2. PICK m \in Standings : Effect(g[t], Step(t), m)
  BY StepTyped
<1>3. g[t] = Holding(Idle, Pjsua)
  BY <1>2 DEF Effect
<1>4. Idle.erase = {} /\ Idle.free = {}
  BY DEF Idle
<1> QED
  BY <1>1, <1>3, <1>4, IdleStanding, LocksDiffer, HoldingFields

\* pjsua admits a call, with or without an id for it.
LEMMA AdmitInv ==
    ASSUME BaseInv, NEW g \in [Threads -> Standings], Stand(g), NEW t \in Threads, Admit(t)
    PROVE  IInv'
<1>1. /\ todo[t] # <<>> /\ Step(t).do \in {"admit", "dial"}
      /\ UNCHANGED <<owner, depth, session, registered, late, ops>>
  BY DEF Admit, Is
<1>2. /\ g[t] = Holding(Idle, Pjsua) /\ g[t] \in Standings /\ Clear(g[t])
      /\ g[t].erase = {} /\ g[t].free = {} /\ Fits(g[t], t)
  BY <1>1, PjsuaStep
<1>3. Legal(Holding(Idle, Pjsua), <<Give(Pjsua)>>, Idle)
  BY IdleStanding, LocksDiffer, GiveLegal
<1>4. CASE GoesOn(t, <<Give(Pjsua)>>) /\ UNCHANGED state
  BY <1>1, <1>2, <1>3, <1>4, Stays
<1>5. ASSUME NEW c \in FreeIds, state' = [state EXCEPT ![c] = "up"],
             NEW steps \in {CreateCall(c) \o <<Give(Pjsua)>>, <<Give(Pjsua)>>},
             GoesOn(t, steps)
      PROVE  IInv'
  <2>1. c \in Calls /\ state[c] = "free"
    BY DEF FreeIds
  <2>2. Legal(g[t], steps, Idle)
    BY <1>2, <2>1, AdmittedLegal
  <2>3. /\ owner' \in [Locks -> Threads \cup {NoThread}] /\ depth' \in [Locks -> Nat] /\ OwnerInv'
        /\ ops' \in Nat /\ \A u \in Threads, m \in Locks : Held(u, m)' = Held(u, m)
    BY <1>1 DEF BaseInv, TypeOK, OwnerInv, Held
  <2>4. /\ state' \in [Calls -> {"free", "up", "over"}]
        /\ \A d \in Calls : state[d] = "over" => state'[d] = "over"
    BY <1>5, <2>1 DEF BaseInv, TypeOK
  <2>5. \A m \in Locks : g[t].locks[m] = Held(t, m)'
    BY <1>2, <2>3 DEF Fits
  <2>6. Proper(g[t])
    BY <1>2, ClearProper
  <2>7. \A u \in Threads \ {t}, m \in Locks : Held(u, m)' = Held(u, m)
    BY <2>3
  <2>8. \A d \in g[t].free : FALSE
    BY <1>2
  <2> QED
    BY <1>1, <1>2, <1>5, <2>2, <2>3, <2>4, <2>5, <2>6, <2>7, <2>8, Goes
<1> QED
  BY <1>4, <1>5 DEF Admit

\* A call is made: it is up, or over at once.
LEMMA DialInv ==
    ASSUME BaseInv, NEW g \in [Threads -> Standings], Stand(g), NEW t \in Threads, Dial(t)
    PROVE  IInv'
<1>1. /\ todo[t] # <<>> /\ Step(t).do \in {"admit", "dial"}
      /\ UNCHANGED <<session, registered, late, ops>>
  BY DEF Dial, Is
<1>2. /\ g[t] = Holding(Idle, Pjsua) /\ g[t] \in Standings /\ Clear(g[t])
      /\ g[t].erase = {} /\ g[t].free = {} /\ Fits(g[t], t)
  BY <1>1, PjsuaStep
<1>3. Legal(Holding(Idle, Pjsua), <<Give(Pjsua)>>, Idle)
  BY IdleStanding, LocksDiffer, GiveLegal
<1>4. CASE GoesOn(t, <<Give(Pjsua)>>) /\ UNCHANGED <<state, owner, depth>>
  BY <1>1, <1>2, <1>3, <1>4, Stays
<1>5. ASSUME NEW c \in FreeIds, Took(t, c), NEW x \in {"up", "over"},
             state' = [state EXCEPT ![c] = x], NEW k \in Standings, NEW s, Legal(k, s, Idle),
             GoesOn(t, s), Clear(k), k.locks = Holding(g[t], c).locks,
             k.erase = k.free, k.free \subseteq {c}, k.free # {} => x = "over"
      PROVE  IInv'
  <2>1. c \in Calls /\ c \in Locks /\ state[c] = "free" /\ Free(c)
    BY LocksDiffer DEF FreeIds
  <2>2. \A n \in Locks : k.locks[n] = IF n = c THEN g[t].locks[n] + 1 ELSE g[t].locks[n]
    BY <1>2, <1>5, <2>1, HoldingFields
  <2>3. /\ owner' \in [Locks -> Threads \cup {NoThread}] /\ depth' \in [Locks -> Nat] /\ OwnerInv'
        /\ \A n \in Locks : Held(t, n)' = IF n = c THEN Held(t, n) + 1 ELSE Held(t, n)
        /\ \A u \in Threads \ {t}, n \in Locks : Held(u, n)' = Held(u, n)
    BY <1>5, <2>1, TookHeld
  <2>4. \A n \in Locks : k.locks[n] = Held(t, n)'
    BY <1>2, <2>2, <2>3 DEF Fits
  <2>5. /\ state' \in [Calls -> {"free", "up", "over"}] /\ state'[c] = x /\ ops' \in Nat
        /\ \A d \in Calls : state[d] = "over" => state'[d] = "over"
    BY <1>1, <1>5, <2>1 DEF BaseInv, TypeOK
  <2>6. Proper(k)
    BY <1>5, ClearProper
  <2>7. \A d \in k.free : /\ state'[d] = "over" /\ (d \in k.erase \/ d \notin registered \/ d \in late)
                          /\ d \in g[t].free \/ state[d] # "over"
    BY <1>5, <2>1, <2>5
  <2> QED
    BY <1>1, <1>5, <2>3, <2>4, <2>5, <2>6, <2>7, Goes
<1>6. ASSUME NEW c \in FreeIds, Took(t, c), state' = [state EXCEPT ![c] = "up"],
             GoesOn(t, <<Give(c), Give(Pjsua)>> \o CreateCall(c))
      PROVE  IInv'
  <2> DEFINE k == Holding(g[t], c)
  <2>1. c \in Calls /\ c \in Locks
    BY LocksDiffer DEF FreeIds
  <2>2. Legal(k, <<Give(c), Give(Pjsua)>> \o CreateCall(c), Idle)
    BY <1>2, <2>1, DialledLegal
  <2>3. k \in Standings /\ Clear(k) /\ k.erase = {} /\ k.free = {} /\ k.locks = Holding(g[t], c).locks
    BY <1>2, <2>1, HoldingFields
  <2> HIDE DEF k
  <2> QED
    BY <1>5, <1>6, <2>2, <2>3
<1>7. ASSUME NEW c \in FreeIds, Took(t, c), state' = [state EXCEPT ![c] = "over"],
             GoesOn(t, CallOver(c) \o <<Give(c), Give(Pjsua)>>)
      PROVE  IInv'
  <2> DEFINE h == Holding(g[t], c)
             f == Freeing(h, c)
             k == Erasing(f, c)
  <2>1. c \in Calls /\ c \in Locks
    BY LocksDiffer DEF FreeIds
  <2>2. Legal(k, CallOver(c) \o <<Give(c), Give(Pjsua)>>, Idle)
    BY <1>2, <2>1, DialledLegal
  <2>3. h \in Standings /\ Clear(h) /\ h.erase = {} /\ h.free = {} /\ h.locks = Holding(g[t], c).locks
    BY <1>2, <2>1, HoldingFields
  <2> HIDE DEF h
  <2>4. f \in Standings /\ Clear(f) /\ f.erase = {} /\ f.free = {c} /\ f.locks = h.locks
    BY <2>1, <2>3, FreeingFields
  <2> HIDE DEF f
  <2>5. k \in Standings /\ Clear(k) /\ k.erase = {c} /\ k.free = {c} /\ k.locks = f.locks
    BY <2>1, <2>4, ErasingFields
  <2> HIDE DEF k
  <2> QED
    BY <1>5, <1>7, <2>2, <2>3, <2>4, <2>5
<1> QED
  BY <1>4, <1>6, <1>7 DEF Dial

\* check_calls_media() begins to look at the calls in m_calls.
LEMMA CheckAllInv ==
    ASSUME BaseInv, NEW g \in [Threads -> Standings], Stand(g), NEW t \in Threads, CheckAll(t)
    PROVE  IInv'
<1>1. /\ todo[t] # <<>> /\ Step(t).do = "check_all"
      /\ UNCHANGED <<owner, depth, state, session, registered, late, ops>>
      /\ GoesOn(t, Looks(registered) \o Rest(t))
  BY DEF CheckAll, Is, Looks
<1>2. /\ g[t] \in Standings /\ Legal(g[t], Rest(t), Idle) /\ Clear(g[t])
      /\ g[t].locks[Mutex] > 0 /\ Proper(g[t])
  BY <1>1, SteadyStep
<1>3. PICK h \in Standings : h = g[t]
  BY <1>2
<1> DEFINE k == [h EXCEPT !.look = registered]
<1>4. registered \in SUBSET Calls /\ IsFiniteSet(registered) /\ ops' \in Nat
  BY <1>1 DEF BaseInv, TypeOK
<1>5. /\ k \in Standings /\ k.locks = h.locks /\ k.erase = h.erase /\ k.free = h.free
      /\ k.look = registered /\ k.use = h.use
  BY <1>4 DEF Standings
<1>6. Legal(k, Looks(registered), h)
  BY <1>2, <1>3, <1>4, LooksLegal
<1>7. Legal(k, Looks(registered) \o Rest(t), Idle)
  BY <1>2, <1>3, <1>6, LegalJoin
<1> HIDE DEF k
<1>8. Proper(k)
  BY <1>2, <1>3, <1>5 DEF Proper, Clear
<1> QED
  BY <1>1, <1>3, <1>4, <1>5, <1>7, <1>8, Quiet

\* A step that reads a call, and where it leads.
LEMMA ReadStep ==
    ASSUME BaseInv, NEW g \in [Threads -> Standings], Stand(g), NEW t \in Threads, todo[t] # <<>>,
           Step(t).do \in {"look", "use"}
    PROVE  /\ g[t] \in Standings /\ Fits(g[t], t) /\ Proper(g[t]) /\ Step(t).on \in Calls
           /\ Step(t).on \in g[t].look /\ g[t].locks[Mutex] > 0
           /\ g[t].use = IF Step(t).do = "use" THEN {Step(t).on} ELSE {}
           /\ \E k \in Standings : /\ Looked(g[t], k) /\ Legal(k, Rest(t), Idle) /\ Proper(k)
                                   /\ k.locks = g[t].locks /\ k.erase = g[t].erase
                                   /\ k.free = g[t].free /\ k.use = {}
<1>1. g[t] \in Standings /\ Fits(g[t], t) /\ Proper(g[t]) /\ Step(t) \in Steps
  BY StepTyped
<1>2. PICK k \in Standings : Effect(g[t], Step(t), k) /\ Legal(k, Rest(t), Idle)
  BY StepTyped
<1>3. Step(t).on \in Calls
  BY <1>1, StepKinds DEF CallDoings
<1>4. /\ Step(t).on \in g[t].look /\ Looked(g[t], k) /\ g[t].locks[Mutex] > 0
      /\ g[t].use = IF Step(t).do = "use" THEN {Step(t).on} ELSE {}
  BY <1>2 DEF Effect
<1>5. /\ k.locks = g[t].locks /\ k.erase = g[t].erase /\ k.free = g[t].free /\ k.use = {}
      /\ k.look \in {g[t].look, {}}
  BY <1>1, <1>4 DEF Looked, Standings
<1>6. Proper(k)
  BY <1>1, <1>4, <1>5 DEF Proper
<1> QED
  BY <1>1, <1>2, <1>3, <1>4, <1>5, <1>6

\* It looks whether a call has a session.
LEMMA LookInv ==
    ASSUME BaseInv, NEW g \in [Threads -> Standings], Stand(g), NEW t \in Threads, Look(t)
    PROVE  IInv'
<1>1. /\ todo[t] # <<>> /\ Step(t).do = "look"
      /\ UNCHANGED <<owner, depth, state, session, registered, late, ops>>
  BY DEF Look, Is
<1>2. /\ g[t] \in Standings /\ Proper(g[t]) /\ Step(t).on \in Calls /\ Step(t).on \in g[t].look
      /\ g[t].locks[Mutex] > 0 /\ g[t].use = {} /\ ops' \in Nat
  BY <1>1, ReadStep DEF BaseInv, TypeOK
<1>3. PICK k \in Standings : /\ Looked(g[t], k) /\ Legal(k, Rest(t), Idle) /\ Proper(k)
                             /\ k.locks = g[t].locks /\ k.erase = g[t].erase
                             /\ k.free = g[t].free /\ k.use = {}
  BY <1>1, ReadStep
<1>4. PICK c \in Calls : c = Step(t).on
  BY <1>2
<1>5. CASE session[c] # "live"
  <2>1. Legal(k, <<>> \o Rest(t), Idle)
    BY <1>3, LegalNothing, LegalJoin
  <2>2. GoesOn(t, <<>> \o Rest(t))
    BY <1>4, <1>5 DEF Look
  <2> QED
    BY <1>1, <1>2, <1>3, <2>1, <2>2, Quiet
<1>6. CASE session[c] = "live"
  <2> DEFINE x == Does("use", c)
  <2>1. PICK h \in Standings : h = [g[t] EXCEPT !.use = {c}]
    BY <1>2 DEF Standings
  <2>2. /\ h.locks = g[t].locks /\ h.erase = g[t].erase /\ h.free = g[t].free
        /\ h.look = g[t].look /\ h.use = {c}
        /\ [h EXCEPT !.use = {}] = [g[t] EXCEPT !.use = {}]
        /\ [h EXCEPT !.use = {}, !.look = {}] = [g[t] EXCEPT !.use = {}, !.look = {}]
    BY <1>2, <2>1 DEF Standings
  <2>3. x \in Steps /\ x.do = "use" /\ x.on = c
    BY StepsMade DEF CallDoings
  <2>4. GoesOn(t, <<x>> \o Rest(t))
    BY <1>4, <1>6 DEF Look
  <2> HIDE DEF x
  <2>5. Looked(h, k)
    BY <1>3, <2>2 DEF Looked
  <2>6. Typed(h, x, k)
    BY <1>2, <1>4, <2>2, <2>3, <2>5 DEF Typed, Effect
  <2>7. Legal(h, <<x>> \o Rest(t), Idle)
    BY <1>3, <2>6, LegalStep, LegalJoin
  <2>8. Proper(h)
    BY <1>2, <1>4, <1>6, <2>2 DEF Proper, Alive
  <2> QED
    BY <1>1, <1>2, <2>2, <2>4, <2>7, <2>8, Quiet
<1> QED
  BY <1>5, <1>6

\* It reads the session, and may hang the call up afterwards.
LEMMA UseInv ==
    ASSUME BaseInv, NEW g \in [Threads -> Standings], Stand(g), NEW t \in Threads, Use(t)
    PROVE  IInv'
<1>1. /\ todo[t] # <<>> /\ Step(t).do = "use"
      /\ UNCHANGED <<owner, depth, state, session, registered, late, ops>>
  BY DEF Use, Is
<1>2. g[t] \in Standings /\ Step(t).on \in Calls /\ ops' \in Nat
  BY <1>1, ReadStep DEF BaseInv, TypeOK
<1>3. PICK k \in Standings : /\ Legal(k, Rest(t), Idle) /\ Proper(k)
                             /\ k.locks = g[t].locks /\ k.erase = g[t].erase /\ k.free = g[t].free
  BY <1>1, ReadStep
<1>4. Legal(k, Rest(t) \o <<Hangup(Step(t).on)>>, Idle)
  <2>1. Legal(Idle, <<Hangup(Step(t).on)>>, Idle)
    BY <1>2, IdleStanding, LocksDiffer, AcquireTyped, LegalStep
  <2> QED
    BY <1>3, <2>1, LegalJoin
<1>5. GoesOn(t, Rest(t)) \/ GoesOn(t, Rest(t) \o <<Hangup(Step(t).on)>>)
  BY DEF Use
<1> QED
  BY <1>1, <1>2, <1>3, <1>4, <1>5, Quiet

\* hangup_calls_by_tag() has chosen the calls, and hangs them up when it has no lock.
LEMMA PickInv ==
    ASSUME BaseInv, NEW g \in [Threads -> Standings], Stand(g), NEW t \in Threads, Pick(t)
    PROVE  IInv'
<1>1. /\ todo[t] # <<>> /\ Step(t).do = "pick"
      /\ UNCHANGED <<owner, depth, state, session, registered, late, ops>>
  BY DEF Pick, Is
<1>2. PICK calls \in SUBSET registered : GoesOn(t, Rest(t) \o Hangups(calls))
  BY DEF Pick
<1>3. calls \in SUBSET Calls /\ IsFiniteSet(calls)
  BY <1>2, FS_Subset DEF BaseInv, TypeOK
<1>4. Legal(Idle, Hangups(calls), Idle)
  BY <1>3, IdleStanding, LocksDiffer, HangupsLegal
<1>5. Legal(g[t], Rest(t), Idle)
  BY <1>1, SteadyStep
<1>6. Legal(g[t], Rest(t) \o Hangups(calls), Idle)
  BY <1>4, <1>5, LegalJoin
<1> QED
  BY <1>1, <1>2, <1>6, Stays

\* The sequences of the others, and of t, after a step of t.
LEMMA Rested ==
    ASSUME BaseInv, NEW t \in Threads, NEW m, Legal(m, Rest(t), Idle), GoesOn(t, Rest(t))
    PROVE  /\ todo' \in [Threads -> Seq(Steps)] /\ todo'[t] = Rest(t)
           /\ \A u \in Threads \ {t} : todo'[u] = todo[u]
  BY DEF BaseInv, TypeOK, GoesOn, Legal

\* The session of a call is made anew: one that is read is not freed by its end.
LEMMA MediaInv ==
    ASSUME BaseInv, NEW g \in [Threads -> Standings], Stand(g), NEW t \in Threads, Media(t)
    PROVE  IInv'
<1>1. /\ todo[t] # <<>> /\ Step(t).do \in {"stop_media", "start_media"} /\ GoesOn(t, Rest(t))
      /\ UNCHANGED <<owner, depth, state, registered, late, ops>>
  BY DEF Media, Is
<1>2. /\ g[t] \in Standings /\ Fits(g[t], t) /\ Step(t).on \in Calls
      /\ Legal(g[t], Rest(t), Idle) /\ Clear(g[t])
  BY <1>1, SteadyStep
<1>3. PICK c \in Calls : c = Step(t).on
  BY <1>2
<1>4. /\ session' \in [Calls -> {"none", "live", "renewed", "ended"}]
      /\ \A d \in Calls : Alive(d) => Alive(d)'
  BY <1>1, <1>3 DEF BaseInv, TypeOK, Media, Alive
<1>5. BaseInv' /\ \A u \in Threads, n \in Locks : Held(u, n)' = Held(u, n)
  BY <1>1, <1>2, <1>4, Rested DEF BaseInv, TypeOK, OwnerInv, Held
<1>6. Fits(g[t], t)'
  BY <1>1, <1>2, <1>5, Rested DEF Fits, Clear
<1>7. \A u \in Threads \ {t} : Fits(g[u], u)'
  <2> SUFFICES ASSUME NEW u \in Threads \ {t} PROVE Fits(g[u], u)'
    OBVIOUS
  <2>1. Fits(g[u], u) /\ g[u].use \subseteq Calls
    BY DEF Stand, Standings
  <2>2. todo'[u] = todo[u] /\ \A n \in Locks : Held(u, n)' = Held(u, n)
    BY <1>1, <1>2, <1>5, Rested
  <2>3. \A d \in g[u].use : Alive(d)' \/ d \in late
    BY <1>4, <2>1 DEF Fits
  <2> QED
    BY <1>1, <2>1, <2>2, <2>3 DEF Fits
<1> QED
  BY <1>2, <1>5, <1>6, <1>7, Restand DEF Stand

\* pjsua gives the call up: nobody else is to, and whoever reads its session found it
\* in m_calls, where it came too late.
LEMMA GiveUpCallInv ==
    ASSUME BaseInv, NEW g \in [Threads -> Standings], Stand(g), NEW t \in Threads, GiveUpCall(t)
    PROVE  IInv'
<1>1. /\ todo[t] # <<>> /\ Step(t).do = "free" /\ GoesOn(t, Rest(t))
      /\ UNCHANGED <<owner, depth, registered, late, ops>>
  BY DEF GiveUpCall, Is
<1>2. Fits(g[t], t) /\ g[t] \in Standings /\ Step(t) \in Steps
  BY <1>1, StepTyped
<1>3. PICK m \in Standings : Effect(g[t], Step(t), m) /\ Legal(m, Rest(t), Idle)
  BY <1>1, StepTyped
<1>4. PICK c \in Calls : c = Step(t).on
  BY <1>1, <1>2, StepKinds DEF CallDoings
<1>5. g[t] = Freeing(m, c) /\ c \notin m.free /\ c \notin m.erase /\ Clear(m)
  BY <1>1, <1>3, <1>4 DEF Effect
<1>6. g[t].free = m.free \cup {c} /\ g[t].erase = m.erase /\ g[t].locks = m.locks
  BY <1>3, <1>5, FreeingFields
<1>7. c \notin registered \/ c \in late
  BY <1>2, <1>5, <1>6 DEF Fits
<1>8. /\ state' = [state EXCEPT ![c] = "free"]
      /\ state' \in [Calls -> {"free", "up", "over"}]
      /\ session' \in [Calls -> {"none", "live", "renewed", "ended"}]
      /\ \A d \in Calls \ {c} : state'[d] = state[d] /\ session'[d] = session[d]
  BY <1>4 DEF BaseInv, TypeOK, GiveUpCall
<1>9. BaseInv' /\ \A u \in Threads, n \in Locks : Held(u, n)' = Held(u, n)
  BY <1>1, <1>3, <1>8, Rested DEF BaseInv, TypeOK, OwnerInv, Held
<1>10. Fits(m, t)'
  <2>1. todo'[t] = Rest(t)
    BY <1>1, <1>3, Rested
  <2>2. \A n \in Locks : m.locks[n] = Held(t, n)'
    BY <1>2, <1>6, <1>9 DEF Fits
  <2>3. \A d \in m.free : d \in Calls \ {c} /\ d \in g[t].free
    BY <1>3, <1>5, <1>6 DEF Standings
  <2>4. \A d \in m.free : state'[d] = "over" /\ (d \in m.erase \/ d \notin registered \/ d \in late)
    BY <1>2, <1>6, <1>8, <2>3 DEF Fits
  <2>5. m.erase \subseteq m.free
    BY <1>2, <1>5, <1>6 DEF Fits
  <2> QED
    BY <1>1, <1>3, <1>5, <2>1, <2>2, <2>4, <2>5 DEF Fits, Clear
<1>11. \A u \in Threads \ {t} : Fits(g[u], u)' /\ m.free \cap g[u].free = {}
  <2> SUFFICES ASSUME NEW u \in Threads \ {t} PROVE Fits(g[u], u)' /\ m.free \cap g[u].free = {}
    OBVIOUS
  <2>1. Fits(g[u], u) /\ g[u].free \subseteq Calls /\ g[u].use \subseteq Calls
    BY DEF Stand, Standings
  <2>2. todo'[u] = todo[u] /\ \A n \in Locks : Held(u, n)' = Held(u, n)
    BY <1>1, <1>3, <1>9, Rested
  <2>3. g[t].free \cap g[u].free = {}
    BY DEF Stand
  <2>4. \A d \in g[u].free : state'[d] = "over"
    BY <1>6, <1>8, <2>1, <2>3 DEF Fits
  <2>5. \A d \in g[u].use : Alive(d)' \/ d \in late
    <3> SUFFICES ASSUME NEW d \in g[u].use, d \notin late PROVE Alive(d)'
      OBVIOUS
    <3>1. d \in Calls /\ d \in registered /\ Alive(d)
      BY <2>1 DEF Fits
    <3>2. d # c
      BY <1>7, <3>1
    <3> QED
      BY <1>8, <3>1, <3>2 DEF Alive
  <2>6. m.free \cap g[u].free = {}
    BY <1>6, <2>3
  <2> QED
    BY <1>1, <2>1, <2>2, <2>4, <2>5, <2>6 DEF Fits
<1> QED
  BY <1>3, <1>9, <1>10, <1>11, Restand DEF Stand

\* A thread that changes m_calls has the mutex, so nobody else is looking at calls.
LEMMA OthersDoNotLook ==
    ASSUME BaseInv, NEW g \in [Threads -> Standings], Stand(g), NEW t \in Threads,
           g[t].locks[Mutex] > 0, NEW u \in Threads \ {t}
    PROVE  g[u].look = {} /\ g[u].use = {}
<1>1. Fits(g[t], t) /\ Fits(g[u], u)
  BY DEF Stand
<1>2. Held(t, Mutex) > 0 /\ Mutex \in Locks
  BY <1>1, LocksDiffer DEF Fits
<1>3. owner[Mutex] = t
  BY <1>2 DEF Held
<1>4. Held(u, Mutex) = 0
  BY <1>3 DEF Held
<1>5. ~(g[u].locks[Mutex] > 0)
  BY <1>1, <1>2, <1>4 DEF Fits
<1> QED
  BY <1>1, <1>5 DEF Fits

\* A call is made known: if it is over already it comes too late.
LEMMA RegisterInv ==
    ASSUME BaseInv, NEW g \in [Threads -> Standings], Stand(g), NEW t \in Threads,
           Register(t), Is(t, "register")
    PROVE  IInv'
<1>1. /\ todo[t] # <<>> /\ Step(t).do = "register" /\ GoesOn(t, Rest(t))
      /\ UNCHANGED <<owner, depth, state, session, ops>>
  BY DEF Register, Is
<1>2. /\ g[t] \in Standings /\ Fits(g[t], t) /\ Step(t).on \in Calls
      /\ Legal(g[t], Rest(t), Idle) /\ Clear(g[t]) /\ g[t].locks[Mutex] > 0
  BY <1>1, SteadyStep
<1>3. PICK c \in Calls : c = Step(t).on
  BY <1>2
<1>4. registered' = registered \cup {c} /\ late' = IF state[c] = "over" THEN late \cup {c} ELSE late
  BY <1>1, <1>3 DEF Register
<1>5. /\ registered' \in SUBSET Calls /\ late' \in SUBSET Calls /\ IsFiniteSet(registered')
  BY <1>4, FS_AddElement DEF BaseInv, TypeOK
<1>6. BaseInv' /\ \A u \in Threads, n \in Locks : Held(u, n)' = Held(u, n)
  BY <1>1, <1>2, <1>5, Rested DEF BaseInv, TypeOK, OwnerInv, Held
<1>7. \A d \in Calls : state[d] = "over" /\ (d \notin registered \/ d \in late)
                         => d \notin registered' \/ d \in late'
  BY <1>4
<1>8. ASSUME NEW u \in Threads, Clear(g[u]), todo'[u] = todo[u] \/ (u = t /\ todo'[u] = Rest(t))
      PROVE  Fits(g[u], u)'
  <2>1. Fits(g[u], u) /\ g[u].free \subseteq Calls
    BY DEF Stand, Standings
  <2>2. Legal(g[u], todo'[u], Idle)
    BY <1>2, <1>8, <2>1 DEF Fits
  <2>3. \A d \in g[u].free : /\ state'[d] = "over"
                             /\ d \in g[u].erase \/ d \notin registered' \/ d \in late'
    BY <1>1, <1>7, <2>1 DEF Fits
  <2> QED
    BY <1>6, <1>8, <2>1, <2>2, <2>3 DEF Fits, Clear
<1>9. Fits(g[t], t)'
  BY <1>1, <1>2, <1>8, Rested
<1>10. \A u \in Threads \ {t} : Fits(g[u], u)'
  BY <1>1, <1>2, <1>8, Rested, OthersDoNotLook DEF Clear
<1> QED
  BY <1>2, <1>6, <1>9, <1>10, Restand DEF Stand

\* A call is erased: no other thread is to give it up.
LEMMA EraseInv ==
    ASSUME BaseInv, NEW g \in [Threads -> Standings], Stand(g), NEW t \in Threads,
           Register(t), Is(t, "erase")
    PROVE  IInv'
<1>1. /\ todo[t] # <<>> /\ Step(t).do = "erase" /\ GoesOn(t, Rest(t))
      /\ UNCHANGED <<owner, depth, state, session, ops>>
  BY DEF Register, Is
<1>2. Fits(g[t], t) /\ g[t] \in Standings /\ Step(t) \in Steps
  BY <1>1, StepTyped
<1>3. PICK m \in Standings : Effect(g[t], Step(t), m) /\ Legal(m, Rest(t), Idle)
  BY <1>1, StepTyped
<1>4. PICK c \in Calls : c = Step(t).on
  BY <1>1, <1>2, StepKinds DEF CallDoings
<1>5. g[t] = Erasing(m, c) /\ c \notin m.erase /\ Clear(m) /\ g[t].locks[Mutex] > 0
  BY <1>1, <1>3, <1>4 DEF Effect
<1>6. g[t].erase = m.erase \cup {c} /\ g[t].free = m.free /\ g[t].locks = m.locks
  BY <1>3, <1>5, ErasingFields
<1>7. registered' = registered \ {c} /\ late' = late \ {c}
  BY <1>1, <1>4 DEF Register
<1>8. /\ registered' \in SUBSET Calls /\ late' \in SUBSET Calls /\ IsFiniteSet(registered')
  BY <1>7, FS_RemoveElement DEF BaseInv, TypeOK
<1>9. BaseInv' /\ \A u \in Threads, n \in Locks : Held(u, n)' = Held(u, n)
  BY <1>1, <1>3, <1>8, Rested DEF BaseInv, TypeOK, OwnerInv, Held
<1>10. Fits(m, t)'
  <2>1. todo'[t] = Rest(t)
    BY <1>1, <1>3, Rested
  <2>2. \A n \in Locks : m.locks[n] = Held(t, n)'
    BY <1>2, <1>6, <1>9 DEF Fits
  <2>3. \A d \in m.free : state'[d] = "over" /\ (d \in m.erase \/ d \notin registered' \/ d \in late')
    BY <1>1, <1>2, <1>6, <1>7 DEF Fits
  <2>4. m.erase \subseteq m.free
    BY <1>2, <1>6 DEF Fits
  <2> QED
    BY <1>3, <1>5, <2>1, <2>2, <2>3, <2>4 DEF Fits, Clear
<1>11. \A u \in Threads \ {t} : Fits(g[u], u)' /\ m.free \cap g[u].free = {}
  <2> SUFFICES ASSUME NEW u \in Threads \ {t} PROVE Fits(g[u], u)' /\ m.free \cap g[u].free = {}
    OBVIOUS
  <2>1. Fits(g[u], u)
    BY DEF Stand
  <2>2. todo'[u] = todo[u] /\ \A n \in Locks : Held(u, n)' = Held(u, n)
    BY <1>1, <1>3, <1>9, Rested
  <2>3. g[t].free \cap g[u].free = {} /\ c \in g[t].free
    BY <1>2, <1>6 DEF Stand, Fits
  <2>4. \A d \in g[u].free : d # c
    BY <2>3
  <2>5. \A d \in g[u].free : /\ state'[d] = "over"
                             /\ d \in g[u].erase \/ d \notin registered' \/ d \in late'
    BY <1>1, <1>7, <2>1, <2>4 DEF Fits
  <2>6. g[u].look = {} /\ g[u].use = {}
    BY <1>5, OthersDoNotLook
  <2> QED
    BY <1>6, <2>1, <2>2, <2>3, <2>5, <2>6 DEF Fits
<1> QED
  BY <1>3, <1>9, <1>10, <1>11, Restand DEF Stand

-----------------------------------------------------------------------------
(* The invariant holds, and what follows from it.                          *)

LEMMA InitInv == ASSUME Init PROVE IInv
<1>1. BaseInv
  <2>1. OwnerInv
    BY DEF Init, OwnerInv
  <2>2. TypeOK
    BY SipLocksAssumption DEF Init, TypeOK
  <2> QED
    BY <2>1, <2>2, FS_EmptySet DEF Init, BaseInv
<1>2. PICK g \in [Threads -> Standings] : g = [t \in Threads |-> Idle]
  BY IdleStanding
<1>3. ASSUME NEW t \in Threads PROVE Fits(Idle, t)
  <2>1. Legal(Idle, todo[t], Idle)
    BY IdleStanding, LegalNothing DEF Init
  <2>2. \A l \in Locks : Idle.locks[l] = Held(t, l)
    BY IdleStanding DEF Init, Held
  <2>3. Idle.erase = {} /\ Idle.free = {} /\ Idle.look = {} /\ Idle.use = {}
    BY DEF Idle
  <2> QED
    BY <2>1, <2>2, <2>3, IdleStanding DEF Fits
<1>4. \A t, u \in Threads : g[t].free \cap g[u].free = {}
  BY <1>2 DEF Idle
<1>5. Stand(g)
  BY <1>2, <1>3, <1>4 DEF Stand
<1> QED
  BY <1>1, <1>5 DEF IInv

LEMMA RunInv ==
    ASSUME BaseInv, NEW g \in [Threads -> Standings], Stand(g), NEW t \in Threads, Begin(t) \/ Run(t)
    PROVE  IInv'
<1>1. CASE Begin(t)
  BY <1>1, BeginInv
<1>2. CASE Lock(t) \/ Unlock(t) \/ AcquireCall(t)
  BY <1>2, LockInv, UnlockInv, AcquireCallInv
<1>3. CASE Admit(t) \/ Dial(t)
  BY <1>3, AdmitInv, DialInv
<1>4. CASE ByeOrReInvite(t) \/ EndSession(t) \/ GiveUpCall(t)
  BY <1>4, ByeOrReInviteInv, EndSessionInv, GiveUpCallInv
<1>5. CASE Media(t) \/ Connect(t)
  BY <1>5, MediaInv, ConnectInv
<1>6. CASE Register(t)
  <2>1. Is(t, "register") \/ Is(t, "erase")
    BY <1>6 DEF Register
  <2> QED
    BY <1>6, <2>1, RegisterInv, EraseInv
<1>7. CASE CheckAll(t) \/ Look(t) \/ Use(t) \/ Pick(t)
  BY <1>7, CheckAllInv, LookInv, UseInv, PickInv
<1> QED
  BY <1>1, <1>2, <1>3, <1>4, <1>5, <1>6, <1>7 DEF Run

LEMMA StutterInv == ASSUME IInv, UNCHANGED vars PROVE IInv'
<1>1. UNCHANGED <<todo, owner, depth, state, session, registered, late, ops>>
  BY DEF vars
<1>2. BaseInv'
  BY <1>1 DEF IInv, BaseInv, TypeOK, OwnerInv
<1>3. PICK g \in [Threads -> Standings] : Stand(g)
  BY DEF IInv
<1>4. \A t \in Threads : Fits(g[t], t)'
  BY <1>1, <1>3 DEF Stand, Fits, Held, Alive
<1>5. Stand(g)'
  BY <1>3, <1>4 DEF Stand
<1> QED
  BY <1>2, <1>5 DEF IInv

LEMMA Invariance == Spec => []IInv
<1>1. Init => IInv
  BY InitInv
<1>2. IInv /\ [Next]_vars => IInv'
  <2> SUFFICES ASSUME IInv, [Next]_vars PROVE IInv'
    OBVIOUS
  <2>1. CASE Next
    <3>1. PICK t \in Threads : Begin(t) \/ Run(t)
      BY <2>1 DEF Next
    <3>2. PICK g \in [Threads -> Standings] : Stand(g)
      BY DEF IInv
    <3> QED
      BY <3>1, <3>2, RunInv DEF IInv
  <2>2. CASE UNCHANGED vars
    BY <2>2, StutterInv
  <2> QED
    BY <2>1, <2>2
<1> QED
  BY <1>1, <1>2, PTL DEF Spec

\* The variables, and what the threads have before them, are what they are said to be.
THEOREM TypeCorrect == Spec => []TypeOK
<1>1. IInv => TypeOK
  BY DEF IInv, BaseInv
<1> QED
  BY <1>1, Invariance, PTL

\* A thread has a lock once it has taken it more often than given it back.
LEMMA HoldsWhatItTook ==
    ASSUME BaseInv, NEW g \in [Threads -> Standings], Stand(g), NEW t \in Threads, NEW l \in Locks
    PROVE  owner[l] = t <=> g[t].locks[l] # 0
<1>1. g[t].locks[l] = Held(t, l) /\ t # NoThread
  BY LocksDiffer DEF Stand, Fits
<1>2. owner[l] = NoThread <=> depth[l] = 0
  BY DEF BaseInv, OwnerInv
<1> QED
  BY <1>1, <1>2 DEF Held

\* What a thread that is about to take a lock has: not the mutex, if that is the
\* one, and nothing at all before a dialog's.
LEMMA TakerHas ==
    ASSUME BaseInv, NEW g \in [Threads -> Standings], Stand(g), NEW t \in Threads, Is(t, "take")
    PROVE  /\ Step(t).on = Mutex => owner[Mutex] # t
           /\ Step(t).on \in Calls => \A l \in Locks : owner[l] # t
<1>1. todo[t] # <<>> /\ Step(t).do = "take"
  BY DEF Is
<1>2. PICK k \in Standings : Effect(g[t], Step(t), k)
  BY <1>1, StepTyped
<1>3. /\ Step(t).on = Mutex => g[t].locks[Mutex] = 0
      /\ Step(t).on \in Calls => g[t].locks = Idle.locks
  BY <1>1, <1>2 DEF Effect
<1> QED
  BY <1>3, HoldsWhatItTook, IdleStanding, LocksDiffer

\* Nobody waits for a mutex that he has himself, nor, with any lock in his hands,
\* for the dialog of a call.
THEOREM LocksInOrder == Spec => []LockOrder
<1>1. IInv => LockOrder
  <2> SUFFICES ASSUME IInv PROVE LockOrder
    OBVIOUS
  <2>1. PICK g \in [Threads -> Standings] : Stand(g)
    BY DEF IInv
  <2>2. ASSUME NEW t \in Threads, owner[Mutex] = t, WaitsFor(t, Mutex) PROVE FALSE
    BY <2>1, <2>2, TakerHas DEF IInv, WaitsFor
  <2>3. ASSUME NEW t \in Threads, NEW c \in Calls, WaitsFor(t, c) PROVE Holds(t) = {}
    BY <2>1, <2>3, TakerHas DEF IInv, WaitsFor, Holds
  <2> QED
    BY <2>2, <2>3 DEF LockOrder
<1> QED
  BY <1>1, Invariance, PTL

\* The timer's thread does not read a session that the call's end has freed, unless
\* the call was over before it was made known.
THEOREM ReaderOutlived == Spec => []SessionOutlivesReader
<1>1. IInv => SessionOutlivesReader
  <2> SUFFICES ASSUME IInv, NEW t \in Threads, Is(t, "use")
               PROVE  session[Step(t).on] \in {"live", "renewed"} \/ Step(t).on \in late
    BY DEF SessionOutlivesReader
  <2>1. PICK g \in [Threads -> Standings] : Stand(g)
    BY DEF IInv
  <2>2. Fits(g[t], t) /\ g[t].use = {Step(t).on}
    BY <2>1, ReadStep DEF IInv, Is
  <2> QED
    BY <2>2 DEF Fits, Alive
<1> QED
  BY <1>1, Invariance, PTL

-----------------------------------------------------------------------------
(* Deadlock.                                                               *)

\* A thread that has something before it and need not wait for a lock.
Runnable(t) == todo[t] # <<>> /\ \A l \in Locks : ~WaitsFor(t, l)

\* The threads do not all wait for each other, but for the one way of Crossed.
OnlyDeadlockIsCrossed ==
    (\E t \in Threads : todo[t] # <<>>) => Crossed \/ \E t \in Threads : Runnable(t)

\* The lock that a thread waits for is another's, who has something before him; and
\* if he waits too, it is for another lock, pjsua's or the mutex.
LEMMA WaitChain ==
    ASSUME IInv, NEW t \in Threads, NEW l \in Locks, WaitsFor(t, l), \A u \in Threads : ~Runnable(u)
    PROVE  \E u \in Threads : owner[l] = u /\ \E m \in {Pjsua, Mutex} \ {l} : WaitsFor(u, m)
<1>1. PICK g \in [Threads -> Standings] : Stand(g)
  BY DEF IInv
<1>2. PICK u \in Threads : owner[l] = u /\ u # t
  <2>1. owner[l] # NoThread /\ (owner[l] # t \/ l = Mutex)
    BY DEF WaitsFor, CanTake, Free
  <2>2. l = Mutex => owner[l] # t
    BY <1>1, TakerHas DEF IInv, WaitsFor
  <2>3. owner[l] \in Threads \cup {NoThread}
    BY DEF IInv, BaseInv, TypeOK
  <2> QED
    BY <2>1, <2>2, <2>3
<1>3. todo[u] # <<>>
  <2> SUFFICES ASSUME todo[u] = <<>> PROVE FALSE
    OBVIOUS
  <2>1. g[u] = Idle
    BY <1>1, LegalEnd DEF Stand, Fits
  <2> QED
    BY <1>1, <1>2, <2>1, IdleStanding, HoldsWhatItTook DEF IInv
<1>4. PICK m \in Locks : WaitsFor(u, m)
  BY <1>3 DEF Runnable
<1>5. Is(u, "take") /\ Step(u).on = m /\ ~CanTake(u, m)
  BY <1>4 DEF WaitsFor
<1>6. m \notin Calls /\ (m = Mutex => owner[Mutex] # u)
  BY <1>1, <1>2, <1>5, TakerHas DEF IInv
<1>7. m # l
  BY <1>2, <1>5, <1>6 DEF CanTake
<1> QED
  BY <1>2, <1>4, <1>6, <1>7 DEF Locks

\* The locks are taken in such an order that somebody can always go on, unless one
\* thread has pjsua's lock and another the mutex and each wants the other's.
THEOREM SomebodyGoesOn == Spec => []OnlyDeadlockIsCrossed
<1>1. IInv => OnlyDeadlockIsCrossed
  <2> SUFFICES ASSUME IInv, NEW t \in Threads, todo[t] # <<>>, \A u \in Threads : ~Runnable(u)
               PROVE  Crossed
    BY DEF OnlyDeadlockIsCrossed
  <2>1. PICK l \in Locks : WaitsFor(t, l)
    BY DEF Runnable
  <2>2. PICK u \in Threads : \E m \in {Pjsua, Mutex} : WaitsFor(u, m)
    BY <2>1, WaitChain
  <2>3. PICK m \in {Pjsua, Mutex} : WaitsFor(u, m)
    BY <2>2
  <2>4. PICK x \in Threads : owner[m] = x /\ \E n \in {Pjsua, Mutex} \ {m} : WaitsFor(x, n)
    BY <2>3, WaitChain, LocksDiffer
  <2>5. PICK n \in {Pjsua, Mutex} \ {m} : WaitsFor(x, n)
    BY <2>4
  <2>6. PICK y \in Threads : owner[n] = y /\ \E k \in {Pjsua, Mutex} \ {n} : WaitsFor(y, k)
    BY <2>5, WaitChain, LocksDiffer
  <2>7. WaitsFor(y, m)
    BY <2>6
  <2>8. owner[m] = x /\ owner[n] = y /\ WaitsFor(x, n) /\ WaitsFor(y, m)
    BY <2>4, <2>5, <2>6, <2>7
  <2>9. {m, n} = {Pjsua, Mutex}
    OBVIOUS
  <2> QED
    BY <2>8, <2>9, LocksDiffer DEF Crossed
<1> QED
  BY <1>1, Invariance, PTL

=============================================================================
