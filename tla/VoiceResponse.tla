---------------------------- MODULE VoiceResponse ----------------------------
(***************************************************************************)
(* A voice response port, pjs_vr, among the threads that use it            *)
(* (src/intercom/pjs_vr.cpp):                                              *)
(*   - the script it belongs to plays files and waits for digits, with or  *)
(*     without waiting for the end; m_api_lock is held over a whole call,  *)
(*     and has no variable because a port has one script;                  *)
(*   - the media clock calls get_frame(), which looks at m_state before it *)
(*     takes m_lock; the bridge asks only ports that have a listener, and  *)
(*     a call's voice port has none while the call's media are down;       *)
(*   - the SIP stack delivers digits;                                      *)
(*   - whoever stops the script sets its exit flag, then calls stop().     *)
(* What happens under m_lock is one step.                                  *)
(***************************************************************************)
EXTENDS VoiceOps

CONSTANTS MaxOps,      \* bound: operations the script starts
          MaxDigits    \* bound: digits that are pressed

ASSUME VoiceAssumption == MaxOps \in Nat /\ MaxDigits \in Nat

VARIABLES v,        \* the port
          exit,     \* m_exit, the script's exit flag
          cpc,      \* the script: where it is inside a synchronous call
          fpc,      \* the media clock: inside get_frame, waiting for m_lock
          heard,    \* the bridge has a listener for the port
          spc,      \* who stops the script
          posts,    \* completions reported to the script's message queue
          ops,      \* operations started (bounds the model)
          pressed,  \* digits pressed (bounds the model)
          asked     \* digits the synchronous wait_input() asked for, 0 for a file

vars == <<v, exit, cpc, fpc, heard, spc, posts, ops, pressed, asked>>

Posts == [kind : {"idle", "play", "wait"}, op : Nat, param : Nat]

TypeOK ==
    /\ v \in Port
    /\ exit \in BOOLEAN
    /\ cpc \in {"idle", "check", "waiting", "take"}
    /\ fpc \in {"out", "in"} /\ heard \in BOOLEAN
    /\ spc \in {"running", "exiting", "stopped"}
    /\ posts \in Seq(Posts)
    /\ ops \in Nat /\ pressed \in Nat /\ asked \in Nat

Init ==
    /\ v = IdlePort /\ exit = FALSE
    /\ cpc = "idle" /\ fpc = "out" /\ heard \in BOOLEAN /\ spc = "running"
    /\ posts = <<>> /\ ops = 0 /\ pressed = 0 /\ asked = 0

Report(done) == posts' = posts \o done

-----------------------------------------------------------------------------
(* The script *)

Starts == /\ cpc = "idle" /\ ops < MaxOps
          /\ ops' = ops + 1

\* play_file(filename, terminate_cond, loop, async, ...)
ScriptPlays(async, term, loops, opens) ==
    LET armed == PlayArmed(InternalStop(v), ops + 1, async, term)
        r     == PlayFile(armed, exit, opens, loops)
    IN  /\ Starts
        /\ v' = r.port
        /\ posts' = posts \o Completion(v, v.state, exit) \o r.done
        /\ cpc' = IF async \/ PlayRefused(armed, exit) THEN "idle" ELSE "check"
        /\ asked' = 0
        /\ UNCHANGED <<exit, fpc, heard, spc, pressed>>

\* wait_input(max_digits, terminate_cond, timeout, inter_digits_timeout, async, ...)
ScriptWaits(async, max, term, timed) ==
    LET armed == WaitArmed(InternalStop(v), ops + 1, async, max, term, timed)
        r     == WaitInput(armed, exit, async, max)
    IN  /\ Starts
        /\ IF exit
             THEN v' = InternalStop(v) /\ UNCHANGED posts
             ELSE /\ v' = r.port
                  /\ posts' = posts \o Completion(v, v.state, exit) \o r.done
        /\ cpc' = IF async \/ (~exit /\ DigitsEnough(armed)) THEN "idle" ELSE "check"
        /\ asked' = max
        /\ UNCHANGED <<exit, fpc, heard, spc, pressed>>

\* A synchronous call that sees the exit flag does not wait.
SyncCheck ==
    /\ cpc = "check"
    /\ cpc' = IF exit THEN "idle" ELSE "waiting"
    /\ UNCHANGED <<v, exit, fpc, heard, spc, posts, ops, pressed, asked>>

\* internal_wait_completion(-1): it polls every 20 ms at the latest.
SyncWait ==
    /\ cpc = "waiting"
    /\ v.state = "idle" \/ exit
    /\ cpc' = IF asked > 0 THEN "take" ELSE "idle"
    /\ UNCHANGED <<v, exit, fpc, heard, spc, posts, ops, pressed, asked>>

\* internal_get_input without m_lock, see OnInput.
SyncTake ==
    /\ cpc = "take"
    /\ v' = [v EXCEPT !.buf = Left(v, asked)]
    /\ cpc' = "idle"
    /\ UNCHANGED <<exit, fpc, heard, spc, posts, ops, pressed, asked>>

ScriptStays == UNCHANGED <<exit, cpc, fpc, heard, spc, ops, pressed, asked>>

\* stop() by the script itself.
ScriptStops ==
    /\ cpc = "idle" /\ v.state # "idle"
    /\ v' = InternalStop(v)
    /\ Report(Completion(v, v.state, exit))
    /\ ScriptStays

\* fade_out(time).  fade_out(0) takes an earlier fade back: the file goes on.
FadeOut(fades) ==
    /\ cpc = "idle" /\ v.state = "play"
    /\ v' = [v EXCEPT !.fading = fades]
    /\ UNCHANGED posts /\ ScriptStays

\* clear_input(), and get_input() which also returns the digits.
ClearInput ==
    /\ cpc = "idle" /\ v.buf # <<>>
    /\ v' = [v EXCEPT !.buf = <<>>]
    /\ UNCHANGED posts /\ ScriptStays

GetInput(n) ==
    /\ cpc = "idle" /\ v.buf # <<>>
    /\ v' = [v EXCEPT !.buf = Left(v, n)]
    /\ UNCHANGED posts /\ ScriptStays

-----------------------------------------------------------------------------
(* Digits from the SIP stack *)

Pressed == pressed < MaxDigits /\ pressed' = pressed + 1

InputStays == UNCHANGED <<exit, cpc, fpc, heard, spc, ops, asked>>

\* on_input().  It restarts the inter-digit timeout, the other one may elapse.
OnInput(d) ==
    LET typed == [v EXCEPT !.buf = Append(@, d)]
    IN  /\ Pressed
        /\ \E late \in BOOLEAN :
             IF v.state # "idle" /\ Terminates(typed, late)
               THEN v' = InternalStop(typed) /\ Report(Completion(v, v.state, exit))
               ELSE v' = typed /\ UNCHANGED posts
        /\ InputStays

\* The digit comes while SyncTake works on the string without m_lock, and is
\* overwritten.
DigitRaces ==
    /\ cpc = "take" /\ Pressed
    /\ UNCHANGED <<v, posts>> /\ InputStays

-----------------------------------------------------------------------------
(* The media clock *)

FrameStays == UNCHANGED <<exit, cpc, heard, spc, ops, pressed, asked>>

\* get_frame() of the bridge skips a port without listeners.
FrameLook ==
    /\ fpc = "out" /\ heard /\ v.state # "idle"
    /\ fpc' = "in"
    /\ UNCHANGED <<v, posts>> /\ FrameStays

\* There is more to play, or nothing has happened yet.
FrameGoesOn ==
    /\ fpc = "in"
    /\ v.file \/ ~DigitsEnough(v)
    /\ fpc' = "out"
    /\ UNCHANGED <<v, posts>> /\ FrameStays

\* Mutant: the end of a file is not reported.
FrameEndsSilently ==
    /\ fpc = "in"
    /\ IF v.file THEN ~v.loops \/ v.fading ELSE Terminates(v, TRUE)
    /\ v' = InternalStop(v)
    /\ fpc' = "out"
    /\ UNCHANGED posts /\ FrameStays

\* Mutant: at the end of the file the port plays silence.
FrameEndsInSilence ==
    /\ fpc = "in"
    /\ IF v.file THEN ~v.loops \/ v.fading ELSE Terminates(v, TRUE)
    /\ fpc' = "out"
    /\ UNCHANGED <<v, posts>> /\ FrameStays

\* The file is at its end or faded out, or a timeout has elapsed.
FrameEnds ==
    /\ fpc = "in"
    /\ IF v.file THEN ~v.loops \/ v.fading ELSE Terminates(v, TRUE)
    /\ v' = InternalStop(v)
    /\ Report(Completion(v, v.state, exit))
    /\ fpc' = "out"
    /\ FrameStays

\* The bridge connects the port to a listener, or takes the last one away: the
\* media of the call come up, change or go down.  Nobody owes the port that they
\* come back, and a frame that is being asked for is finished.
Listener ==
    /\ heard' = ~heard
    /\ UNCHANGED <<v, exit, cpc, fpc, spc, posts, ops, pressed, asked>>

-----------------------------------------------------------------------------
(* pjs_intercom_script::stop(), or clean_system for the main script's ports *)

StopStays == UNCHANGED <<cpc, fpc, heard, ops, pressed, asked>>

SetExit ==
    /\ spc = "running"
    /\ exit' = TRUE /\ spc' = "exiting"
    /\ UNCHANGED <<v, posts>> /\ StopStays

StopPort ==
    /\ spc = "exiting"
    /\ v' = InternalStop(v)
    /\ Report(Completion(v, v.state, exit))
    /\ spc' = "stopped"
    /\ UNCHANGED exit /\ StopStays

-----------------------------------------------------------------------------
Script == \/ \E async, loops, opens \in BOOLEAN, term \in SUBSET Digits :
               ScriptPlays(async, term, loops, opens)
          \/ \E async, timed \in BOOLEAN, max \in 1..MaxDigits, term \in SUBSET Digits :
               ScriptWaits(async, max, term, timed)
          \/ SyncCheck \/ SyncWait \/ SyncTake
          \/ ScriptStops \/ ClearInput
          \/ \E fades \in BOOLEAN : FadeOut(fades)
          \/ \E n \in 1..MaxDigits : GetInput(n)

MediaClock == FrameLook \/ FrameGoesOn \/ FrameEnds

\* The script is over.
Over == spc = "stopped" /\ cpc = "idle" /\ UNCHANGED vars

Next == \/ Script \/ MediaClock
        \/ \E d \in Digits : OnInput(d)
        \/ DigitRaces \/ Listener
        \/ SetExit \/ StopPort
        \/ Over

Spec == Init /\ [][Next]_vars

\* The media clock ticks, files are finite and timeouts elapse: a port that is
\* asked for frames again and again gets to an end that stays possible.  The
\* script goes on inside a synchronous call, and a stop that has begun is
\* finished.  Nothing makes a script call, a caller press or anybody stop; and
\* nothing gives the port a listener: FrameLook has to happen only while there
\* is one.
Fairness ==
    /\ WF_vars(FrameLook \/ FrameGoesOn) /\ SF_vars(FrameEnds)
    /\ WF_vars(SyncCheck \/ SyncWait \/ SyncTake)
    /\ WF_vars(StopPort)

FairSpec == Spec /\ Fairness

-----------------------------------------------------------------------------
(* Properties *)

\* No operation is reported twice, however its end, a stop, a digit and the next
\* operation meet (async_completed clears m_async under m_lock); and what is
\* reported as a played file carries the parameters of that very call, although
\* wait_input overwrites m_async and not the parameters.
ReportedOnce ==
    /\ \A i, j \in 1..Len(posts) : posts[i].op = posts[j].op => i = j
    /\ \A i \in 1..Len(posts) : posts[i].kind = "play" => posts[i].param = posts[i].op

\* Digits never wait in the buffer while the port goes on doing what they were
\* to end, whether they came before the call, during it, or in between.
DigitsEndIt == v.state # "idle" => ~DigitsEnough(v)

\* After a stop the port is silent for good: no call that overlaps the stop can
\* start anything (play_file and wait_input look at m_exit under m_lock, and
\* stop() is called after it is set).
SilentAfterStop == spc = "stopped" => v.state = "idle"

\* The current operation comes to an end by itself.
Ends == \/ v.state = "play" /\ (~v.loops \/ v.fading)
        \/ v.state = "wait" /\ v.timed

\* The script has taken back the fade of a looping file.
FadeTakenBack == v.state = "play" /\ ~Ends

Reported(n) == \E i \in 1..Len(posts) : posts[i].op = n

\* Once the port has a listener for good, an asynchronous operation that ends by
\* itself is reported, or the script is told to exit.  (A port that is not heard
\* plays on for ever: neither the end of its file nor its timeouts are looked at.)
AsyncIsReported ==
    <>[]heard =>
        \A n \in 1..MaxOps : (v.async /\ v.op = n /\ Ends) ~>
            (exit \/ Reported(n) \/ (v.op = n /\ FadeTakenBack))

\* A synchronous call returns once its script is told to exit, heard or not; and it
\* returns from an operation that ends by itself if the port has a listener for good.
\* (internal_wait_completion(-1) has no limit of its own.)
SyncReturns ==
    /\ (cpc # "idle" /\ exit) ~> (cpc = "idle")
    /\ <>[]heard => ((cpc # "idle" /\ Ends) ~> (cpc = "idle"))
=============================================================================
