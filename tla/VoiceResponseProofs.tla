-------------------------- MODULE VoiceResponseProofs --------------------------
(***************************************************************************)
(* Theorems about VoiceResponse, for any set of digits and any number of   *)
(* operations and of digits that are pressed.                              *)
(***************************************************************************)
EXTENDS VoiceResponse, SequenceTheorems, FiniteSetTheorems, TLAPS

Kinds == {"idle", "play", "wait"}

TypeInv ==
    /\ v \in Port /\ exit \in BOOLEAN /\ posts \in Seq(Posts)
    /\ ops \in Nat /\ asked \in Nat

\* What is reported is reported once, and a played file with its own parameters.
Once(p) == \A i, j \in 1..Len(p) : p[i].op = p[j].op => i = j
Plays(p) == \A i \in 1..Len(p) : p[i].kind = "play" => p[i].param = p[i].op
Below(p, n) == \A i \in 1..Len(p) : p[i].op <= n
Fresh(p, w) == w.async => \A i \in 1..Len(p) : p[i].op # w.op

\* A completion that is owed has not been reported yet.
OwedInv ==
    /\ Once(posts) /\ Plays(posts) /\ Below(posts, ops) /\ Fresh(posts, v)
    /\ v.op <= ops
    /\ v.async /\ v.state = "play" => v.param = v.op

\* The exit flag is set before stop() is called.
StopInv ==
    /\ exit <=> spc # "running"
    /\ spc \in {"running", "exiting", "stopped"}

IInv == TypeInv /\ OwedInv /\ StopInv /\ SilentAfterStop /\ DigitsEndIt

-----------------------------------------------------------------------------
(* Lemmas on the port.                                                     *)

\* What internal_stop() leaves.
LEMMA InternalStopFields ==
    ASSUME NEW w \in Port
    PROVE  /\ InternalStop(w) \in Port
           /\ InternalStop(w).state = "idle" /\ InternalStop(w).async = FALSE
           /\ InternalStop(w).op = w.op /\ InternalStop(w).param = w.param
           /\ InternalStop(w).buf = w.buf
  BY DEF InternalStop, Port, Kinds

\* async_completed() reports an operation that was not reported, or nothing.
LEMMA Completed ==
    ASSUME NEW p \in Seq(Posts), NEW w \in Port, NEW kind \in Kinds, NEW n \in Nat, NEW e,
           Once(p), Plays(p), Below(p, n), Fresh(p, w), w.op <= n,
           kind = "play" /\ w.async => w.param = w.op
    PROVE  LET q == p \o Completion(w, kind, e)
           IN  q \in Seq(Posts) /\ Once(q) /\ Plays(q) /\ Below(q, n)
<1> DEFINE c == [kind |-> kind, op |-> w.op, param |-> w.param]
           q == p \o Completion(w, kind, e)
<1>0. /\ c \in Posts /\ c.op = w.op /\ c.param = w.param /\ c.kind = kind
      /\ w.op \in Nat /\ w.async \in BOOLEAN
  BY DEF Posts, Kinds, Port
<1>1. CASE ~(w.async /\ ~e)
  <2>1. Completion(w, kind, e) = <<>>
    BY <1>1 DEF Completion
  <2>2. q = p
    BY <2>1
  <2> QED
    BY <2>2
<1>2. CASE w.async /\ ~e
  <2>1. Completion(w, kind, e) = <<c>>
    BY <1>2 DEF Completion
  <2> HIDE DEF c
  <2>2. /\ q \in Seq(Posts) /\ Len(p) \in Nat /\ Len(q) = Len(p) + 1
        /\ q[Len(p) + 1] = c
        /\ \A i \in 1..Len(p) : q[i] = p[i]
    BY <1>0, <2>1
  <2>3. \A i \in 1..Len(q) : i \in 1..Len(p) \/ i = Len(p) + 1
    BY <2>2
  <2> HIDE DEF q
  <2>4. Once(q)
    <3>1. \A i \in 1..Len(p) : q[i].op # c.op
      BY <1>0, <1>2, <2>2 DEF Fresh
    <3> QED
      BY <2>2, <2>3, <3>1 DEF Once
  <2>5. Plays(q) /\ Below(q, n)
    BY <1>0, <1>2, <2>2, <2>3 DEF Plays, Below
  <2> QED
    BY <2>2, <2>4, <2>5 DEF q
<1> QED
  BY <1>1, <1>2

\* internal_get_input() takes some of the digits that wait.
LEMMA TakeLenType ==
    ASSUME NEW w \in Port, NEW n \in Nat
    PROVE  TakeLen(w, n) \in 0..Len(w.buf)
<1>1. w.buf \in Seq(Digits) /\ Len(w.buf) \in Nat
  BY DEF Port
<1> DEFINE T == {i \in 1..Len(w.buf) : i <= n /\ \A j \in 2..i : w.buf[j] \notin w.term}
<1>2. IsFiniteSet(1..Len(w.buf)) /\ Cardinality(1..Len(w.buf)) = Len(w.buf)
  <2>1. PICK l : l = Len(w.buf)
    OBVIOUS
  <2>2. l \in Nat /\ l \in Int /\ 1 \in Int
    BY <1>1, <2>1
  <2>3. IsFiniteSet(1..l) /\ Cardinality(1..l) = IF 1 > l THEN 0 ELSE l - 1 + 1
    BY <2>2, FS_Interval
  <2>4. IsFiniteSet(1..l) /\ Cardinality(1..l) = l
    BY <2>2, <2>3
  <2> QED
    BY <2>1, <2>4
<1>3. T \subseteq 1..Len(w.buf)
  OBVIOUS
<1>4. TakeLen(w, n) = Cardinality(T)
  BY DEF TakeLen
<1> HIDE DEF T
<1>5. IsFiniteSet(T) /\ Cardinality(T) <= Len(w.buf)
  BY <1>2, <1>3, FS_Subset
<1>6. Cardinality(T) \in Nat
  BY <1>5, FS_CardinalityType
<1> QED
  BY <1>1, <1>4, <1>5, <1>6

\* What it leaves is shorter and has no digit that was not there.
LEMMA LeftType ==
    ASSUME NEW w \in Port, NEW n \in Nat
    PROVE  /\ Left(w, n) \in Seq(Digits) /\ Len(Left(w, n)) <= Len(w.buf)
           /\ \A i \in 1..Len(Left(w, n)) : \E j \in 1..Len(w.buf) : Left(w, n)[i] = w.buf[j]
<1> DEFINE m == TakeLen(w, n) + 1
           l == Len(w.buf)
           s == SubSeq(w.buf, m, l)
<1>0. TakeLen(w, n) \in 0..l
  BY TakeLenType
<1>1. w.buf \in Seq(Digits) /\ l \in Nat /\ m \in 1..(l + 1)
  BY <1>0 DEF Port
<1> HIDE DEF m
<1>2. /\ s \in Seq(Digits) /\ Len(s) = (IF m <= l THEN l - m + 1 ELSE 0)
      /\ \A i \in 1..(l - m + 1) : s[i] = w.buf[m + i - 1]
  BY <1>1, SubSeqProperties
<1>3. s = Left(w, n)
  BY DEF Left, m
<1> HIDE DEF s
<1>4. \A i \in 1..Len(s) : i \in 1..(l - m + 1) /\ m + i - 1 \in 1..l
  BY <1>1, <1>2
<1>5. Len(s) <= l
  BY <1>1, <1>2
<1>6. \A i \in 1..Len(s) : \E j \in 1..l : s[i] = w.buf[j]
  BY <1>2, <1>4
<1> QED
  BY <1>2, <1>3, <1>5, <1>6

\* A port whose digits are fewer is not told to end.
LEMMA FewerDigits ==
    ASSUME NEW w \in Port, NEW b \in Seq(Digits), ~DigitsEnough(w), Len(b) <= Len(w.buf),
           \A i \in 1..Len(b) : \E j \in 1..Len(w.buf) : b[i] = w.buf[j]
    PROVE  /\ [w EXCEPT !.buf = b] \in Port
           /\ ~DigitsEnough([w EXCEPT !.buf = b])
<1>1. /\ [w EXCEPT !.buf = b] \in Port
      /\ [w EXCEPT !.buf = b].buf = b /\ [w EXCEPT !.buf = b].max = w.max
      /\ [w EXCEPT !.buf = b].term = w.term
  BY DEF Port
<1>2. Len(b) \in Nat /\ Len(w.buf) \in Nat /\ w.max \in Nat
  BY DEF Port
<1> QED
  BY <1>1, <1>2 DEF DigitsEnough

-----------------------------------------------------------------------------
(* Starting an operation.                                                  *)

\* The port that play_file() has set up.
LEMMA PlayArmedFields ==
    ASSUME NEW w \in Port, NEW n \in Nat, NEW async \in BOOLEAN, NEW term \in SUBSET Digits,
           NEW a, a = PlayArmed(w, n, async, term)
    PROVE  /\ a \in Port /\ a.state = w.state /\ a.op = n /\ a.async = async
           /\ async => a.param = n
<1>1. (IF async THEN n ELSE w.param) \in Nat
  BY DEF Port
<1> QED
  BY <1>1 DEF PlayArmed, Port

\* The port that wait_input() has set up.
LEMMA WaitArmedFields ==
    ASSUME NEW w \in Port, NEW n \in Nat, NEW async \in BOOLEAN, NEW term \in SUBSET Digits,
           NEW max \in Nat, NEW timed \in BOOLEAN,
           NEW a, a = WaitArmed(w, n, async, max, term, timed)
    PROVE  /\ a \in Port /\ a.state = w.state /\ a.op = n /\ a.async = async
  BY DEF WaitArmed, Port

\* What play_file() makes of a port it has set up.
PlayResult(w, r) ==
    /\ r.port \in Port /\ r.port.op = w.op /\ r.port.param = w.param
    /\ r.port.state # "idle" => ~DigitsEnough(r.port) /\ ~exit
    /\ r.done = <<>> \/ (r.port.async = FALSE
                           /\ \E k \in {"play", "idle"} : r.done = Completion(w, k, exit))
    /\ r.port.async => w.async

\* It holds for every file, whether it opens or is refused.
LEMMA PlayFileFields ==
    ASSUME NEW w \in Port, w.state = "idle", NEW opens \in BOOLEAN, NEW loops \in BOOLEAN,
           NEW r, r = PlayFile(w, exit, opens, loops)
    PROVE  PlayResult(w, r)
<1>1. CASE PlayRefused(w, exit)
  <2> DEFINE p == [w EXCEPT !.async = FALSE]
  <2>1. p \in Port /\ p.op = w.op /\ p.param = w.param /\ p.state = "idle" /\ p.async = FALSE
    BY DEF Port
  <2> HIDE DEF p
  <2>2. PlayFile(w, exit, opens, loops) = [port |-> p, done |-> Completion(w, "play", exit)]
    BY <1>1 DEF PlayFile, p
  <2> QED
    BY <2>1, <2>2 DEF PlayResult
<1>2. CASE ~PlayRefused(w, exit) /\ opens
  <2> DEFINE p == [w EXCEPT !.state = "play", !.file = TRUE, !.loops = loops]
  <2>1. p \in Port /\ p.op = w.op /\ p.param = w.param /\ p.async = w.async
        /\ p.buf = w.buf /\ p.max = w.max /\ p.term = w.term
    BY DEF Port, Kinds
  <2> HIDE DEF p
  <2>2. PlayFile(w, exit, opens, loops) = [port |-> p, done |-> <<>>]
    BY <1>2 DEF PlayFile, p
  <2>3. ~DigitsEnough(p) /\ ~exit
    BY <1>2, <2>1 DEF PlayRefused, DigitsEnough
  <2> QED
    BY <2>1, <2>2, <2>3 DEF PlayResult
<1>3. CASE ~PlayRefused(w, exit) /\ ~opens
  <2>1. PlayFile(w, exit, opens, loops) = [port |-> InternalStop(w), done |-> Completion(w, "idle", exit)]
    BY <1>3 DEF PlayFile
  <2> DEFINE p == InternalStop(w)
             d == Completion(w, "idle", exit)
  <2>2. /\ p \in Port /\ p.op = w.op /\ p.param = w.param
        /\ p.state = "idle" /\ p.async = FALSE
    BY InternalStopFields
  <2>3. \E k \in {"play", "idle"} : d = Completion(w, k, exit)
    OBVIOUS
  <2> HIDE DEF p, d
  <2>4. PlayFile(w, exit, opens, loops) = [port |-> p, done |-> d]
    BY <2>1 DEF p, d
  <2> QED
    BY <2>2, <2>3, <2>4 DEF PlayResult
<1> QED
  BY <1>1, <1>2, <1>3

\* What wait_input() makes of a port it has set up.
WaitResult(w, r) ==
    /\ r.port \in Port /\ r.port.op = w.op
    /\ r.port.state # "idle" => ~DigitsEnough(r.port)
    /\ r.port.state # "play"
    /\ r.done = <<>> \/ (r.port.async = FALSE /\ r.done = Completion(w, "wait", exit))
    /\ r.port.async => w.async

\* It holds whether the digits were typed ahead or not.
LEMMA WaitInputFields ==
    ASSUME NEW w \in Port, w.state = "idle", NEW async \in BOOLEAN, NEW max \in Nat,
           NEW r, r = WaitInput(w, exit, async, max)
    PROVE  WaitResult(w, r)
<1>1. CASE DigitsEnough(w)
  <2> DEFINE b == IF async THEN w.buf ELSE Left(w, max)
             p == [w EXCEPT !.async = FALSE, !.buf = b]
  <2>1. b \in Seq(Digits)
    BY LeftType DEF Port
  <2> HIDE DEF b
  <2>2. p \in Port /\ p.op = w.op /\ p.state = "idle" /\ p.async = FALSE
    BY <2>1 DEF Port
  <2>3. WaitInput(w, exit, async, max) = [port |-> p, done |-> Completion(w, "wait", exit)]
    BY <1>1 DEF WaitInput, b
  <2> HIDE DEF p
  <2> QED
    BY <2>2, <2>3 DEF WaitResult
<1>2. CASE ~DigitsEnough(w)
  <2> DEFINE p == [w EXCEPT !.state = "wait"]
  <2>1. p \in Port /\ p.op = w.op /\ p.async = w.async /\ p.state = "wait"
        /\ p.buf = w.buf /\ p.max = w.max /\ p.term = w.term
    BY DEF Port, Kinds
  <2> HIDE DEF p
  <2>2. WaitInput(w, exit, async, max) = [port |-> p, done |-> <<>>]
    BY <1>2 DEF WaitInput, p
  <2>3. ~DigitsEnough(p)
    BY <1>2, <2>1 DEF DigitsEnough
  <2> QED
    BY <2>1, <2>2, <2>3 DEF WaitResult
<1> QED
  BY <1>1, <1>2

\* The operation that is owed is reported when something else begins or ends it.
LEMMA ReportOwed ==
    ASSUME IInv
    PROVE  LET q == posts \o Completion(v, v.state, exit)
           IN  q \in Seq(Posts) /\ Once(q) /\ Plays(q) /\ Below(q, ops)
<1>1. v.state \in Kinds
  BY DEF IInv, TypeInv, Port, Kinds
<1> QED
  BY <1>1, Completed DEF IInv, TypeInv, OwedInv

\* A numbered operation begins: the old one is reported, and the new one if it is
\* over at once.
LEMMA Begun ==
    ASSUME IInv, NEW w \in Port, w.op = ops + 1, NEW kind \in Kinds,
           kind = "play" /\ w.async => w.param = w.op, NEW done,
           NEW p \in Port, p.op = w.op, done = <<>> \/ p.async = FALSE,
           done = <<>> \/ done = Completion(w, kind, exit)
    PROVE  LET q == posts \o Completion(v, v.state, exit) \o done
           IN  q \in Seq(Posts) /\ Once(q) /\ Plays(q) /\ Below(q, ops + 1) /\ Fresh(q, p)
<1> DEFINE q1 == posts \o Completion(v, v.state, exit)
<1>1. q1 \in Seq(Posts) /\ Once(q1) /\ Plays(q1) /\ Below(q1, ops)
  BY ReportOwed
<1> HIDE DEF q1
<1>2. ops \in Nat /\ ops + 1 \in Nat
  BY DEF IInv, TypeInv
<1>3. \A i \in 1..Len(q1) : q1[i].op \in Nat /\ q1[i].op <= ops
  <2>1. \A i \in 1..Len(q1) : q1[i] \in Posts
    BY <1>1
  <2>2. \A c \in Posts : c.op \in Nat
    BY DEF Posts, Kinds
  <2> QED
    BY <1>1, <2>1, <2>2 DEF Below
<1>4. Below(q1, ops + 1) /\ \A i \in 1..Len(q1) : q1[i].op # ops + 1
  BY <1>2, <1>3 DEF Below
<1>5. Fresh(q1, w) /\ Fresh(q1, p)
  BY <1>4 DEF Fresh
<1> DEFINE q == q1 \o done
           G == q \in Seq(Posts) /\ Once(q) /\ Plays(q) /\ Below(q, ops + 1) /\ Fresh(q, p)
<1> HIDE DEF q1
<1>6. ASSUME done = <<>> PROVE G
  <2>1. q1 \o done = q1
    BY <1>1, <1>6
  <2> QED
    BY <1>1, <1>4, <1>5, <2>1
<1>7. ASSUME done = Completion(w, kind, exit), p.async = FALSE PROVE G
  <2>1. q \in Seq(Posts) /\ Once(q) /\ Plays(q) /\ Below(q, ops + 1)
    BY <1>1, <1>2, <1>4, <1>5, <1>7, Completed
  <2> QED
    BY <1>7, <2>1 DEF Fresh
<1>8. G
  <2> HIDE DEF G
  <2> QED
    BY <1>6, <1>7
<1> QED
  BY <1>8 DEF q1

-----------------------------------------------------------------------------
(* The inductive invariant, one lemma for each group of actions.           *)

\* The port is idle when its script begins.
LEMMA InitInv == Init => IInv
<1> SUFFICES ASSUME Init PROVE IInv
  OBVIOUS
<1>1. IdlePort \in Port /\ IdlePort.state = "idle" /\ IdlePort.async = FALSE /\ IdlePort.op = 0
  BY DEF IdlePort, Port, Kinds
<1>2. TypeInv
  <2>1. posts \in Seq(Posts)
    BY DEF Init
  <2> QED
    BY <1>1, <2>1 DEF Init, TypeInv
<1>5. StopInv
  BY DEF Init, StopInv
<1>4. SilentAfterStop /\ DigitsEndIt
  BY <1>1 DEF Init, SilentAfterStop, DigitsEndIt
<1>3. OwedInv
  BY <1>1 DEF Init, OwedInv, Once, Plays, Below, Fresh
<1> QED
  BY <1>2, <1>3, <1>4, <1>5 DEF IInv

\* internal_stop() ends what the port does and reports it.
LEMMA EndsInv ==
    ASSUME IInv, NEW w \in Port, w.op = v.op, v' = InternalStop(w),
           posts' = posts \o Completion(v, v.state, exit), UNCHANGED <<exit, ops, asked>>, StopInv'
    PROVE  IInv'
<1>1. /\ v' \in Port /\ v'.state = "idle" /\ v'.async = FALSE /\ v'.op = v.op
  BY InternalStopFields
<1>2. posts' \in Seq(Posts) /\ Once(posts') /\ Plays(posts') /\ Below(posts', ops)
  BY ReportOwed
<1>3. TypeInv' /\ SilentAfterStop' /\ DigitsEndIt'
  BY <1>1, <1>2 DEF IInv, TypeInv, SilentAfterStop, DigitsEndIt
<1>4. OwedInv'
  BY <1>1, <1>2 DEF IInv, OwedInv, Fresh
<1> QED
  BY <1>3, <1>4 DEF IInv

\* A step that changes no more of the port than its digits, which are not enough.
LEMMA DigitsInv ==
    ASSUME IInv, NEW b \in Seq(Digits), v' = [v EXCEPT !.buf = b],
           v.state # "idle" => ~DigitsEnough([v EXCEPT !.buf = b]),
           UNCHANGED <<posts, exit, ops, asked, spc>>
    PROVE  IInv'
<1>1. /\ v' \in Port /\ v'.state = v.state /\ v'.async = v.async
      /\ v'.op = v.op /\ v'.param = v.param
  BY DEF IInv, TypeInv, Port
<1>2. TypeInv' /\ StopInv' /\ SilentAfterStop'
  BY <1>1 DEF IInv, TypeInv, StopInv, SilentAfterStop
<1>3. OwedInv'
  BY <1>1 DEF IInv, OwedInv, Fresh
<1>4. DigitsEndIt'
  BY <1>1 DEF DigitsEndIt
<1> QED
  BY <1>2, <1>3, <1>4 DEF IInv

\* A step that does not touch the port.
LEMMA PortKept ==
    ASSUME IInv, UNCHANGED <<v, posts, exit, ops, asked, spc>> PROVE IInv'
  BY DEF IInv, TypeInv, OwedInv, StopInv, SilentAfterStop, DigitsEndIt

\* play_file() ends what the port does and begins to play, or not.
LEMMA ScriptPlaysInv ==
    ASSUME IInv, NEW async \in BOOLEAN, NEW term \in SUBSET Digits,
           NEW loops \in BOOLEAN, NEW opens \in BOOLEAN, ScriptPlays(async, term, loops, opens)
    PROVE  IInv'
<1> DEFINE armed == PlayArmed(InternalStop(v), ops + 1, async, term)
           r == PlayFile(armed, exit, opens, loops)
<1>1. v' = r.port /\ posts' = posts \o Completion(v, v.state, exit) \o r.done
      /\ ops' = ops + 1 /\ asked' = 0 /\ UNCHANGED <<exit, spc>>
  BY DEF ScriptPlays, Starts
<1>2. /\ v \in Port /\ exit \in BOOLEAN /\ ops \in Nat /\ ops + 1 \in Nat
  BY DEF IInv, TypeInv
<1>3. /\ armed \in Port /\ armed.state = "idle" /\ armed.op = ops + 1
      /\ armed.async = async
      /\ async => armed.param = ops + 1
  <2> DEFINE w == InternalStop(v)
             n == ops + 1
  <2>1. w \in Port /\ w.state = "idle" /\ n \in Nat
    BY <1>2, InternalStopFields
  <2>2. armed = PlayArmed(w, n, async, term)
    OBVIOUS
  <2> HIDE DEF armed, w, n
  <2>3. /\ armed \in Port /\ armed.state = "idle" /\ armed.op = n
        /\ armed.async = async
        /\ async => armed.param = n
    BY <2>1, <2>2, PlayArmedFields
  <2> QED
    BY <2>3 DEF n
<1>0. r = PlayFile(armed, exit, opens, loops)
  OBVIOUS
<1> HIDE DEF armed, r
<1>4. /\ r.port \in Port /\ r.port.op = armed.op /\ r.port.param = armed.param
      /\ r.port.state # "idle" => ~DigitsEnough(r.port) /\ ~exit
      /\ r.done = <<>> \/ (r.port.async = FALSE
                             /\ \E k \in {"play", "idle"} : r.done = Completion(armed, k, exit))
      /\ r.port.async => armed.async
  <2>1. PlayResult(armed, r)
    BY <1>0, <1>3, PlayFileFields
  <2> QED
    BY <2>1 DEF PlayResult
<1>5. PICK k \in {"play", "idle"} : r.done = <<>> \/ r.done = Completion(armed, k, exit)
  BY <1>4
<1>6. /\ posts' \in Seq(Posts) /\ Once(posts') /\ Plays(posts') /\ Below(posts', ops + 1)
      /\ Fresh(posts', r.port)
  <2>1. k \in Kinds /\ (k = "play" /\ armed.async => armed.param = armed.op)
    BY <1>3 DEF Kinds
  <2>2. r.done = <<>> \/ r.port.async = FALSE
    BY <1>4
  <2> QED
    BY <1>1, <1>3, <1>4, <1>5, <2>1, <2>2, Begun
<1>7. TypeInv' /\ StopInv'
  BY <1>1, <1>2, <1>4, <1>6 DEF IInv, TypeInv, StopInv
<1>8. OwedInv'
  BY <1>1, <1>2, <1>3, <1>4, <1>6 DEF OwedInv
<1>9. SilentAfterStop' /\ DigitsEndIt'
  BY <1>1, <1>4 DEF IInv, StopInv, SilentAfterStop, DigitsEndIt
<1> QED
  BY <1>7, <1>8, <1>9 DEF IInv

\* wait_input() ends what the port does and begins to wait, or not.
LEMMA ScriptWaitsInv ==
    ASSUME IInv, NEW async \in BOOLEAN, NEW term \in SUBSET Digits,
           NEW max \in 1..MaxDigits, NEW timed \in BOOLEAN, ScriptWaits(async, max, term, timed)
    PROVE  IInv'
<1> DEFINE armed == WaitArmed(InternalStop(v), ops + 1, async, max, term, timed)
           r == WaitInput(armed, exit, async, max)
<1>1. ops' = ops + 1 /\ asked' = max /\ UNCHANGED <<exit, spc>>
  BY DEF ScriptWaits, Starts
<1>2. /\ v \in Port /\ exit \in BOOLEAN /\ ops \in Nat /\ ops + 1 \in Nat /\ max \in Nat
  BY VoiceAssumption DEF IInv, TypeInv
<1>3. CASE exit
  <2>1. v' = InternalStop(v) /\ posts' = posts
    BY <1>3 DEF ScriptWaits
  <2>2. /\ v' \in Port /\ v'.state = "idle" /\ v'.async = FALSE /\ v'.op = v.op
    BY <1>2, <2>1, InternalStopFields
  <2>3. v.op \in Nat /\ \A i \in 1..Len(posts) : posts[i].op \in Nat
    <3>1. \A i \in 1..Len(posts) : posts[i] \in Posts
      BY DEF IInv, TypeInv
    <3> QED
      BY <1>2, <3>1 DEF Posts, Kinds, Port
  <2>4. TypeInv' /\ StopInv' /\ SilentAfterStop' /\ DigitsEndIt'
    BY <1>1, <1>2, <2>1, <2>2 DEF IInv, TypeInv, StopInv, SilentAfterStop, DigitsEndIt
  <2>5. OwedInv'
    <3>1. Below(posts, ops + 1)
      BY <1>2, <2>3 DEF IInv, OwedInv, Below
    <3> QED
      BY <1>1, <1>2, <2>1, <2>2, <2>3, <3>1 DEF IInv, OwedInv, Fresh
  <2> QED
    BY <2>4, <2>5 DEF IInv
<1>4. CASE ~exit
  <2>1. v' = r.port /\ posts' = posts \o Completion(v, v.state, exit) \o r.done
    BY <1>4 DEF ScriptWaits
  <2>2. /\ armed \in Port /\ armed.state = "idle" /\ armed.op = ops + 1 /\ armed.async = async
    <3> DEFINE w == InternalStop(v)
               n == ops + 1
    <3>1. w \in Port /\ w.state = "idle" /\ n \in Nat
      BY <1>2, InternalStopFields
    <3>2. armed = WaitArmed(w, n, async, max, term, timed)
      OBVIOUS
    <3> HIDE DEF armed, w, n
    <3>3. /\ armed \in Port /\ armed.state = "idle" /\ armed.op = n /\ armed.async = async
      BY <1>2, <3>1, <3>2, WaitArmedFields
    <3> QED
      BY <3>3 DEF n
  <2>0. r = WaitInput(armed, exit, async, max)
    OBVIOUS
  <2> HIDE DEF armed, r
  <2>3. /\ r.port \in Port /\ r.port.op = armed.op
        /\ r.port.state # "idle" => ~DigitsEnough(r.port)
        /\ r.port.state # "play"
        /\ r.done = <<>> \/ (r.port.async = FALSE /\ r.done = Completion(armed, "wait", exit))
    <3>1. WaitResult(armed, r)
      BY <1>2, <2>0, <2>2, WaitInputFields
    <3> QED
      BY <3>1 DEF WaitResult
  <2>4. /\ posts' \in Seq(Posts) /\ Once(posts') /\ Plays(posts') /\ Below(posts', ops + 1)
        /\ Fresh(posts', r.port)
    <3>1. "wait" \in Kinds /\ "wait" # "play"
      BY DEF Kinds
    <3>2. /\ r.done = <<>> \/ r.port.async = FALSE
          /\ r.done = <<>> \/ r.done = Completion(armed, "wait", exit)
      BY <2>3
    <3> QED
      BY <2>1, <2>2, <2>3, <3>1, <3>2, Begun
  <2>5. TypeInv' /\ StopInv'
    BY <1>1, <1>2, <2>1, <2>3, <2>4 DEF IInv, TypeInv, StopInv
  <2>6. OwedInv'
    BY <1>1, <1>2, <2>1, <2>2, <2>3, <2>4 DEF OwedInv
  <2>7. SilentAfterStop' /\ DigitsEndIt'
    BY <1>1, <1>4, <2>1, <2>3 DEF IInv, StopInv, SilentAfterStop, DigitsEndIt
  <2> QED
    BY <2>5, <2>6, <2>7 DEF IInv
<1> QED
  BY <1>2, <1>3, <1>4

\* The script takes or throws away digits.
LEMMA TakesInv ==
    ASSUME IInv, SyncTake \/ ClearInput \/ \E n \in 1..MaxDigits : GetInput(n) PROVE IInv'
<1>1. /\ v \in Port /\ asked \in Nat /\ v.buf \in Seq(Digits)
  BY DEF IInv, TypeInv, Port
<1>2. PICK b \in Seq(Digits) :
        /\ v' = [v EXCEPT !.buf = b] /\ Len(b) <= Len(v.buf)
        /\ \A i \in 1..Len(b) : \E j \in 1..Len(v.buf) : b[i] = v.buf[j]
  <2>1. CASE SyncTake
    BY <1>1, <2>1, LeftType DEF SyncTake
  <2>2. CASE ClearInput
    <3>1. v' = [v EXCEPT !.buf = <<>>] /\ <<>> \in Seq(Digits) /\ Len(<<>>) = 0 /\ Len(v.buf) \in Nat
      BY <1>1, <2>2 DEF ClearInput
    <3> DEFINE b == <<>>
    <3>2. b \in Seq(Digits) /\ Len(b) <= Len(v.buf) /\ v' = [v EXCEPT !.buf = b]
          /\ \A i \in 1..Len(b) : FALSE
      BY <3>1
    <3> HIDE DEF b
    <3> QED
      BY <3>2
  <2>3. ASSUME NEW n \in 1..MaxDigits, GetInput(n)
        PROVE  \E b \in Seq(Digits) :
                 /\ v' = [v EXCEPT !.buf = b] /\ Len(b) <= Len(v.buf)
                 /\ \A i \in 1..Len(b) : \E j \in 1..Len(v.buf) : b[i] = v.buf[j]
    <3>1. n \in Nat
      BY VoiceAssumption
    <3> QED
      BY <1>1, <2>3, <3>1, LeftType DEF GetInput
  <2> QED
    BY <2>1, <2>2, <2>3
<1>3. v.state # "idle" => ~DigitsEnough([v EXCEPT !.buf = b])
  BY <1>1, <1>2, FewerDigits DEF IInv, DigitsEndIt
<1>4. UNCHANGED <<posts, exit, ops, asked, spc>>
  BY DEF SyncTake, ClearInput, GetInput, ScriptStays
<1> QED
  BY <1>2, <1>3, <1>4, DigitsInv

\* A digit comes, and ends what the port does if it is enough.
LEMMA OnInputInv == ASSUME IInv, NEW d \in Digits, OnInput(d) PROVE IInv'
<1> DEFINE typed == [v EXCEPT !.buf = Append(@, d)]
<1>1. UNCHANGED <<exit, ops, asked, spc>>
  BY DEF OnInput, InputStays
<1>2. Append(v.buf, d) \in Seq(Digits)
  BY DEF IInv, TypeInv, Port
<1>3. typed \in Port /\ typed.op = v.op
  BY <1>2 DEF IInv, TypeInv, Port
<1>4. StopInv'
  BY <1>1 DEF IInv, StopInv
<1>5. \/ v' = InternalStop(typed) /\ posts' = posts \o Completion(v, v.state, exit)
      \/ v' = typed /\ posts' = posts /\ (v.state # "idle" => ~DigitsEnough(typed))
  BY DEF OnInput, Report, Terminates
<1>6. CASE v' = InternalStop(typed) /\ posts' = posts \o Completion(v, v.state, exit)
  <2> HIDE DEF typed
  <2> QED
    BY <1>1, <1>3, <1>4, <1>6, EndsInv
<1>7. CASE v' = typed /\ posts' = posts /\ (v.state # "idle" => ~DigitsEnough(typed))
  BY <1>1, <1>2, <1>7, DigitsInv
<1> QED
  BY <1>5, <1>6, <1>7

\* The script, the media clock or stop() ends what the port does.
LEMMA StopsInv == ASSUME IInv, ScriptStops \/ FrameEnds \/ StopPort PROVE IInv'
<1>1. /\ v' = InternalStop(v) /\ posts' = posts \o Completion(v, v.state, exit)
      /\ UNCHANGED <<exit, ops, asked>>
  BY DEF ScriptStops, FrameEnds, StopPort, Report, ScriptStays, FrameStays, StopStays
<1>2. StopInv'
  <2>1. spc' = spc \/ (spc = "exiting" /\ spc' = "stopped")
    BY DEF ScriptStops, FrameEnds, StopPort, ScriptStays, FrameStays
  <2> QED
    BY <1>1, <2>1 DEF IInv, StopInv
<1>3. v \in Port
  BY DEF IInv, TypeInv
<1> QED
  BY <1>1, <1>2, <1>3, EndsInv

\* A file begins to fade out, or no longer does.
LEMMA FadeOutInv == ASSUME IInv, NEW fades \in BOOLEAN, FadeOut(fades) PROVE IInv'
<1>1. v' = [v EXCEPT !.fading = fades] /\ UNCHANGED <<posts, exit, ops, asked, spc>>
  BY DEF FadeOut, ScriptStays
<1>2. /\ v' \in Port /\ v'.state = v.state /\ v'.async = v.async /\ v'.op = v.op
      /\ v'.param = v.param /\ v'.buf = v.buf /\ v'.max = v.max /\ v'.term = v.term
  BY <1>1 DEF IInv, TypeInv, Port
<1>3. TypeInv' /\ StopInv' /\ SilentAfterStop'
  BY <1>1, <1>2 DEF IInv, TypeInv, StopInv, SilentAfterStop
<1>4. OwedInv'
  BY <1>1, <1>2 DEF IInv, OwedInv, Fresh
<1>5. DigitsEndIt'
  BY <1>2 DEF IInv, DigitsEndIt, DigitsEnough
<1> QED
  BY <1>3, <1>4, <1>5 DEF IInv

\* The script's exit flag is set.
LEMMA SetExitInv == ASSUME IInv, SetExit PROVE IInv'
  BY DEF SetExit, StopStays, IInv, TypeInv, OwedInv, StopInv, SilentAfterStop, DigitsEndIt

\* The invariant holds in every state of every run.
LEMMA Invariance == Spec => []IInv
<1>1. IInv /\ [Next]_vars => IInv'
  <2> SUFFICES ASSUME IInv, [Next]_vars PROVE IInv'
    OBVIOUS
  <2>1. CASE Script
    <3>1. CASE SyncCheck \/ SyncWait
      BY <3>1, PortKept DEF SyncCheck, SyncWait
    <3> QED
      BY <2>1, <3>1, ScriptPlaysInv, ScriptWaitsInv, TakesInv, StopsInv, FadeOutInv DEF Script
  <2>2. CASE MediaClock
    <3>1. CASE FrameLook \/ FrameGoesOn
      BY <3>1, PortKept DEF FrameLook, FrameGoesOn, FrameStays
    <3> QED
      BY <2>2, <3>1, StopsInv DEF MediaClock
  <2>3. CASE DigitRaces \/ Listener \/ Over \/ UNCHANGED vars
    BY <2>3, PortKept DEF DigitRaces, InputStays, Listener, Over, vars
  <2> QED
    BY <2>1, <2>2, <2>3, OnInputInv, SetExitInv, StopsInv DEF Next
<1> QED
  BY <1>1, InitInv, PTL DEF Spec

-----------------------------------------------------------------------------
(* The theorems.                                                           *)

\* async_completed() reports every operation at most once, and a file with the
\* parameters it was played with, in every interleaving.
THEOREM NeverReportedTwice == Spec => []ReportedOnce
<1>1. IInv => ReportedOnce
  BY DEF IInv, OwedInv, Once, Plays, ReportedOnce
<1> QED
  BY <1>1, Invariance, PTL

\* A port whose script was stopped never begins anything again.
THEOREM StaysSilent == Spec => []SilentAfterStop
<1> QED
  BY Invariance, PTL DEF IInv

\* The activities stay within their places.
PlaceInv ==
    /\ cpc \in {"idle", "check", "waiting", "take"}
    /\ fpc \in {"out", "in"} /\ heard \in BOOLEAN
    /\ pressed \in Nat

\* The port, its operations and completions, and the places of the activities
\* that use it keep their types.
THEOREM TypeCorrect == Spec => []TypeOK
<1> USE DEF PlaceInv
<1>1. Init => PlaceInv
  BY DEF Init
<1>2. PlaceInv /\ [Next]_vars => PlaceInv'
  <2> SUFFICES ASSUME PlaceInv, [Next]_vars PROVE PlaceInv'
    OBVIOUS
  <2>1. CASE Script
    BY <2>1 DEF Script, ScriptPlays, ScriptWaits, SyncCheck, SyncWait, SyncTake, ScriptStops,
                FadeOut, ClearInput, GetInput, ScriptStays
  <2>2. CASE MediaClock
    BY <2>2 DEF MediaClock, FrameLook, FrameGoesOn, FrameEnds, FrameStays
  <2>3. CASE (\E d \in Digits : OnInput(d)) \/ DigitRaces
    <3>1. cpc' = cpc /\ fpc' = fpc /\ heard' = heard /\ pressed' = pressed + 1
      BY <2>3, ZenonT(30) DEF OnInput, DigitRaces, Pressed, InputStays
    <3> QED
      BY <3>1
  <2>4. CASE SetExit \/ StopPort \/ Listener \/ Over \/ UNCHANGED vars
    BY <2>4 DEF SetExit, StopPort, StopStays, Listener, Over, vars
  <2> QED
    BY <2>1, <2>2, <2>3, <2>4 DEF Next
<1>3. IInv /\ PlaceInv => TypeOK
  BY DEF IInv, TypeInv, StopInv, TypeOK
<1> QED
  BY <1>1, <1>2, <1>3, Invariance, PTL DEF Spec

\* check_terminate_cond() is asked whenever it may have become true: digits that are
\* enough never wait while the port goes on.
THEOREM DigitsAlwaysEndIt == Spec => []DigitsEndIt
<1> QED
  BY Invariance, PTL DEF IInv

-----------------------------------------------------------------------------
(* A completion that is owed: what AsyncIsReported rests on.                *)

\* m_async is set only while an operation runs, and there is a file exactly while
\* one is played.
RunsInv ==
    /\ v.async => v.state # "idle"
    /\ v.file <=> v.state = "play"

\* get_frame() would end the operation, if the file is at its end, or late.
FrameMayEnd == IF v.file THEN ~v.loops \/ v.fading ELSE Terminates(v, TRUE)

\* While a completion is owed to a script that goes on, its operation runs, and can
\* end by itself in get_frame() if it is one that ends.  A step either leaves the
\* operation what it is, one that ends if it was (unless the script takes a fade
\* back), or reports it.
OwedUntilReported ==
    v.async /\ ~exit =>
        /\ v.state # "idle" /\ (Ends => FrameMayEnd)
        /\ \/ v'.async /\ v'.op = v.op /\ (Ends => Ends' \/ FadeTakenBack')
           \/ \E i \in 1..Len(posts') : posts'[i].op = v.op

\* The invariant and the step for the operation that is owed.
OwedStep ==
    /\ RunsInv'
    /\ v.async /\ ~exit => \/ v'.async /\ v'.op = v.op /\ (Ends => Ends' \/ FadeTakenBack')
                           \/ \E i \in 1..Len(posts') : posts'[i].op = v.op

\* What async_completed() passes on.
LEMMA CompletionType ==
    ASSUME NEW w \in Port, NEW kind \in Kinds, NEW e
    PROVE  Completion(w, kind, e) \in Seq(Posts)
<1> DEFINE c == [kind |-> kind, op |-> w.op, param |-> w.param]
<1>1. c \in Posts
  BY DEF Posts, Kinds, Port
<1> HIDE DEF c
<1>2. <<c>> \in Seq(Posts) /\ <<>> \in Seq(Posts)
  BY <1>1
<1> QED
  BY <1>2 DEF Completion, c

\* It is in the queue then, whatever follows.
LEMMA ReportsOwed ==
    ASSUME IInv, v.async, ~exit, NEW d \in Seq(Posts)
    PROVE  LET q == posts \o Completion(v, v.state, exit) \o d
           IN  \E i \in 1..Len(q) : q[i].op = v.op
<1> DEFINE c == [kind |-> v.state, op |-> v.op, param |-> v.param]
<1>1. c \in Posts /\ c.op = v.op /\ posts \in Seq(Posts)
  BY DEF IInv, TypeInv, Posts, Port
<1>2. Completion(v, v.state, exit) = <<c>>
  BY DEF Completion
<1> HIDE DEF c
<1>3. /\ Len(posts) + 1 \in 1..Len(posts \o <<c>> \o d)
      /\ (posts \o <<c>> \o d)[Len(posts) + 1] = c
  BY <1>1
<1> QED
  BY <1>1, <1>2, <1>3

\* internal_stop() ends the operation and reports it.
LEMMA EndsOwed ==
    ASSUME IInv, NEW w \in Port, v' = InternalStop(w),
           posts' = posts \o Completion(v, v.state, exit)
    PROVE  OwedStep
<1>1. RunsInv'
  BY DEF RunsInv, InternalStop, Port
<1>2. ASSUME v.async, ~exit PROVE \E i \in 1..Len(posts') : posts'[i].op = v.op
  <2> DEFINE q == posts \o Completion(v, v.state, exit)
  <2>1. q \in Seq(Posts) /\ <<>> \in Seq(Posts)
    BY ReportOwed
  <2>2. q \o <<>> = q
    BY <2>1
  <2>3. posts' = q \o <<>>
    BY <2>2
  <2> QED
    BY <1>2, <2>1, <2>3, ReportsOwed
<1> QED
  BY <1>1, <1>2 DEF OwedStep

\* The operation goes on with the digits it has now.
LEMMA DigitsOwed ==
    ASSUME IInv, RunsInv, NEW b \in Seq(Digits), v' = [v EXCEPT !.buf = b]
    PROVE  OwedStep
<1>1. /\ v'.state = v.state /\ v'.async = v.async /\ v'.file = v.file /\ v'.op = v.op
      /\ v'.loops = v.loops /\ v'.fading = v.fading /\ v'.timed = v.timed
  BY DEF IInv, TypeInv, Port
<1> QED
  BY <1>1 DEF OwedStep, RunsInv, Ends, FadeTakenBack

\* Nothing happens to the port.
LEMMA KeptOwed ==
    ASSUME RunsInv, v' = v PROVE OwedStep
  BY DEF OwedStep, RunsInv, Ends, FadeTakenBack

\* A file begins to fade out, and will end, or plays on.
LEMMA FadeOwed ==
    ASSUME IInv, RunsInv, NEW fades \in BOOLEAN, FadeOut(fades) PROVE OwedStep
<1>1. /\ v'.state = "play" /\ v'.async = v.async /\ v'.file = v.file /\ v'.op = v.op
      /\ v.state = "play"
  BY DEF FadeOut, IInv, TypeInv, Port
<1> QED
  BY <1>1 DEF OwedStep, RunsInv, FadeTakenBack

\* play_file() reports what it interrupts.
LEMMA PlaysOwed ==
    ASSUME IInv, NEW async \in BOOLEAN, NEW term \in SUBSET Digits,
           NEW loops \in BOOLEAN, NEW opens \in BOOLEAN, ScriptPlays(async, term, loops, opens)
    PROVE  OwedStep
<1> DEFINE w == InternalStop(v)
           armed == PlayArmed(w, ops + 1, async, term)
           r == PlayFile(armed, exit, opens, loops)
<1>1. v' = r.port /\ posts' = posts \o Completion(v, v.state, exit) \o r.done
  BY DEF ScriptPlays
<1>2. w \in Port /\ w.state = "idle" /\ w.file = FALSE
  BY DEF IInv, TypeInv, InternalStop, Port, Kinds
<1>3. armed \in Port /\ armed.state = "idle" /\ armed.file = FALSE
  <2>1. (IF async THEN ops + 1 ELSE w.param) \in Nat /\ ops + 1 \in Nat
    BY <1>2 DEF IInv, TypeInv, Port
  <2> HIDE DEF w
  <2> QED
    BY <1>2, <2>1 DEF PlayArmed, Port
<1> HIDE DEF w, armed
<1>4. /\ r.port.async => r.port.state # "idle"
      /\ r.port.file <=> r.port.state = "play"
      /\ r.done \in Seq(Posts)
  <2>1. "idle" \in Kinds /\ "play" \in Kinds
    BY DEF Kinds
  <2>2. Completion(armed, "idle", exit) \in Seq(Posts) /\ Completion(armed, "play", exit) \in Seq(Posts)
        /\ <<>> \in Seq(Posts)
    BY <1>3, <2>1, CompletionType
  <2> QED
    BY <1>3, <2>2 DEF PlayFile, InternalStop, Port
<1> HIDE DEF r
<1>5. RunsInv'
  BY <1>1, <1>4 DEF RunsInv
<1> QED
  BY <1>1, <1>4, <1>5, ReportsOwed DEF OwedStep

\* wait_input() does, unless the script is to exit.
LEMMA WaitsOwed ==
    ASSUME IInv, NEW async \in BOOLEAN, NEW term \in SUBSET Digits,
           NEW max \in 1..MaxDigits, NEW timed \in BOOLEAN, ScriptWaits(async, max, term, timed)
    PROVE  OwedStep
<1> DEFINE w == InternalStop(v)
           armed == WaitArmed(w, ops + 1, async, max, term, timed)
           r == WaitInput(armed, exit, async, max)
<1>1. w \in Port /\ w.state = "idle" /\ w.file = FALSE /\ w.async = FALSE
  BY DEF IInv, TypeInv, InternalStop, Port, Kinds
<1>2. armed \in Port /\ armed.state = "idle" /\ armed.file = FALSE
  <2>1. ops + 1 \in Nat /\ max \in Nat
    BY VoiceAssumption DEF IInv, TypeInv
  <2> HIDE DEF w
  <2> QED
    BY <1>1, <2>1 DEF WaitArmed, Port
<1>3. CASE exit
  <2>1. v' = w
    BY <1>3 DEF ScriptWaits
  <2> QED
    BY <1>1, <1>3, <2>1 DEF OwedStep, RunsInv
<1>4. CASE ~exit
  <2>1. v' = r.port /\ posts' = posts \o Completion(v, v.state, exit) \o r.done
    BY <1>4 DEF ScriptWaits
  <2> HIDE DEF w, armed
  <2>2. /\ r.port.async => r.port.state # "idle"
        /\ r.port.file <=> r.port.state = "play"
        /\ r.done \in Seq(Posts)
    <3>1. "wait" \in Kinds
      BY DEF Kinds
    <3>2. Completion(armed, "wait", exit) \in Seq(Posts) /\ <<>> \in Seq(Posts)
      BY <1>2, <3>1, CompletionType
    <3> QED
      BY <1>2, <3>2 DEF WaitInput, Port
  <2> HIDE DEF r
  <2>3. RunsInv'
    BY <2>1, <2>2 DEF RunsInv
  <2> QED
    BY <2>1, <2>2, <2>3, ReportsOwed DEF OwedStep
<1> QED
  BY <1>3, <1>4

\* Every step of the program.
LEMMA OwedSteps == ASSUME IInv, RunsInv, [Next]_vars PROVE OwedStep
<1>1. CASE SyncTake \/ ClearInput \/ \E n \in 1..MaxDigits : GetInput(n)
  <2>1. /\ v \in Port /\ asked \in Nat /\ <<>> \in Seq(Digits)
    BY DEF IInv, TypeInv
  <2>2. \A n \in 1..MaxDigits : n \in Nat
    BY VoiceAssumption
  <2> QED
    BY <1>1, <2>1, <2>2, LeftType, DigitsOwed DEF SyncTake, ClearInput, GetInput
<1>2. CASE \E d \in Digits : OnInput(d)
  <2>1. PICK d \in Digits : OnInput(d)
    BY <1>2
  <2> DEFINE typed == [v EXCEPT !.buf = Append(@, d)]
  <2>2. Append(v.buf, d) \in Seq(Digits) /\ v \in Port
    BY DEF IInv, TypeInv, Port
  <2>3. typed \in Port
    BY <2>2 DEF Port
  <2>4. \/ v' = InternalStop(typed) /\ posts' = posts \o Completion(v, v.state, exit)
        \/ v' = typed
    BY <2>1 DEF OnInput, Report
  <2>5. CASE v' = typed
    BY <2>2, <2>5, DigitsOwed
  <2> HIDE DEF typed
  <2> QED
    BY <2>3, <2>4, <2>5, EndsOwed
<1>3. CASE ScriptStops \/ FrameEnds \/ StopPort
  <2>1. v \in Port /\ v' = InternalStop(v) /\ posts' = posts \o Completion(v, v.state, exit)
    BY <1>3 DEF ScriptStops, FrameEnds, StopPort, Report, IInv, TypeInv
  <2> QED
    BY <2>1, EndsOwed
<1>4. CASE \/ SyncCheck \/ SyncWait \/ FrameLook \/ FrameGoesOn \/ DigitRaces \/ SetExit
           \/ Listener \/ Over \/ UNCHANGED vars
  <2>1. v' = v
    BY <1>4 DEF SyncCheck, SyncWait, FrameLook, FrameGoesOn, DigitRaces, SetExit, Listener,
                Over, vars
  <2> QED
    BY <2>1, KeptOwed
<1> QED
  BY <1>1, <1>2, <1>3, <1>4, PlaysOwed, WaitsOwed, FadeOwed DEF Next, Script, MediaClock

\* No completion is lost: pjs_vr ends no asynchronous operation, by another one, a stop, a
\* digit or the media clock, without the report that its script waits for.
THEOREM OwedIsReported == Spec => [][OwedUntilReported]_vars
<1>1. Init => RunsInv
  BY DEF Init, RunsInv, IdlePort
<1>2. IInv /\ RunsInv /\ [Next]_vars => RunsInv'
  BY OwedSteps DEF OwedStep
<1>3. IInv /\ RunsInv /\ [Next]_vars => [OwedUntilReported]_vars
  <2> SUFFICES ASSUME IInv, RunsInv, [Next]_vars, v.async, ~exit
               PROVE  /\ v.state # "idle" /\ (Ends => FrameMayEnd)
                      /\ \/ v'.async /\ v'.op = v.op /\ (Ends => Ends' \/ FadeTakenBack')
                         \/ \E i \in 1..Len(posts') : posts'[i].op = v.op
    BY DEF OwedUntilReported
  <2>1. v.state # "idle" /\ (Ends => FrameMayEnd)
    BY DEF RunsInv, Ends, FrameMayEnd, Terminates
  <2>2. \/ v'.async /\ v'.op = v.op /\ (Ends => Ends' \/ FadeTakenBack')
        \/ \E i \in 1..Len(posts') : posts'[i].op = v.op
    <3>1. OwedStep
      BY OwedSteps
    <3> QED
      BY <3>1 DEF OwedStep
  <2> QED
    BY <2>1, <2>2
<1> QED
  BY <1>1, <1>2, <1>3, Invariance, PTL DEF Spec

=============================================================================
