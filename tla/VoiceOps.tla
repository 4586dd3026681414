------------------------------ MODULE VoiceOps ------------------------------
(***************************************************************************)
(* The state of a voice response port, pjs_vr (src/intercom/pjs_vr.cpp),   *)
(* and what its methods do to it under m_lock, as operators on a record.   *)
(* Sound samples are left out: a file plays until it ends.  The clock is   *)
(* left out: a timeout that is set may have elapsed whenever it is tested. *)
(*                                                                         *)
(* VoiceResponse lets the threads of the program use a port in every way;  *)
(* CallMenu runs the menu of scripts/call.lua on one.                      *)
(***************************************************************************)
EXTENDS Naturals, Sequences, FiniteSets

CONSTANT Digits        \* the DTMF digits that are told apart

\* op is no variable of the code: it names the operation that runs or ran last.
Port ==
    [state  : {"idle", "play", "wait"},   \* m_state
     async  : BOOLEAN,                    \* m_async: a completion is owed
     op     : Nat,
     param  : Nat,                        \* m_async_param1 and 2
     file   : BOOLEAN,                    \* m_getport and m_getbuffer exist
     loops  : BOOLEAN,                    \* the file was opened to loop
     fading : BOOLEAN,                    \* m_effect is VRE_FADE_OUT, m_effect_param > 0
     term   : SUBSET Digits,              \* m_terminate_cond
     max    : Nat,                        \* m_wait_input_max
     timed  : BOOLEAN,                    \* one of the two timeouts is set
     buf    : Seq(Digits)]                \* m_input_buffer

IdlePort == [state |-> "idle", async |-> FALSE, op |-> 0, param |-> 0,
             file |-> FALSE, loops |-> FALSE, fading |-> FALSE, term |-> {},
             max |-> 0, timed |-> FALSE, buf |-> <<>>]

\* What async_completed() passes to the callback, if anything.
Completion(v, kind, exit) ==
    IF v.async /\ ~exit THEN <<[kind |-> kind, op |-> v.op, param |-> v.param]>>
                        ELSE <<>>

\* Mutant: async_completed() does not clear m_async.
InternalStopKeepsAsync(v) ==
    [v EXCEPT !.state = "idle", !.file = FALSE, !.loops = FALSE,
              !.fading = FALSE, !.term = {}, !.max = 0, !.timed = FALSE]

\* internal_stop(), after it has reported Completion(v, v.state, exit).
InternalStop(v) ==
    [v EXCEPT !.state = "idle", !.async = FALSE, !.file = FALSE, !.loops = FALSE,
              !.fading = FALSE, !.term = {}, !.max = 0, !.timed = FALSE]

\* The part of check_terminate_cond() that looks at the digits.
DigitsEnough(v) ==
    \/ v.max > 0 /\ Len(v.buf) >= v.max
    \/ \E i \in 1..Len(v.buf) : v.buf[i] \in v.term

\* check_terminate_cond(); late says that a timeout has elapsed if one is set.
Terminates(v, late) == DigitsEnough(v) \/ (v.timed /\ late)

\* How many digits internal_get_input(n) takes: the first n, or fewer if another
\* one is a terminator.
TakeLen(v, n) ==
    Cardinality({i \in 1..Len(v.buf) : i <= n /\ \A j \in 2..i : v.buf[j] \notin v.term})

Taken(v, n) == SubSeq(v.buf, 1, TakeLen(v, n))
Left(v, n)  == SubSeq(v.buf, TakeLen(v, n) + 1, Len(v.buf))

-----------------------------------------------------------------------------
(* play_file and wait_input: each is given the port after its internal_stop() *)
(* and yields the port and the completion it reports itself.                   *)

PlayArmed(v, n, async, term) ==
    [v EXCEPT !.term = term, !.async = async, !.op = n,
              !.param = IF async THEN n ELSE @]

\* Mutant: a port whose script is told to exit starts a file nevertheless.
PlayRefusedIgnoresExit(v, exit) == DigitsEnough(v)

\* Digits typed ahead, or a script that is to exit: the file is not started.
PlayRefused(v, exit) == DigitsEnough(v) \/ exit

\* A refused prompt is reported as played and its terminators stay set; a file
\* that cannot be opened is reported with the state of the idle port.
PlayFile(v, exit, opens, loops) ==
    IF PlayRefused(v, exit)
      THEN [port |-> [v EXCEPT !.async = FALSE], done |-> Completion(v, "play", exit)]
    ELSE IF opens
      THEN [port |-> [v EXCEPT !.state = "play", !.file = TRUE, !.loops = loops],
            done |-> <<>>]
      ELSE [port |-> InternalStop(v), done |-> Completion(v, v.state, exit)]

\* wait_input stores no parameters, whatever it was given.
WaitArmed(v, n, async, max, term, timed) ==
    [v EXCEPT !.async = async, !.op = n, !.max = max, !.term = term, !.timed = timed]

\* Digits typed ahead answer at once, and a synchronous call takes them.
WaitInput(v, exit, async, max) ==
    IF DigitsEnough(v)
      THEN [port |-> [v EXCEPT !.async = FALSE,
                               !.buf = IF async THEN @ ELSE Left(v, max)],
            done |-> Completion(v, "wait", exit)]
      ELSE [port |-> [v EXCEPT !.state = "wait"], done |-> <<>>]
=============================================================================
