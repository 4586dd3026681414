------------------------------ MODULE CallMenu ------------------------------
(***************************************************************************)
(* The menu of a call, call_ivr in src/intercom/scripts/call.lua, on its   *)
(* voice response port and its message queue.  The menu is driven by       *)
(* completions: each one makes it look for a digit and, when the port is   *)
(* idle, wait for the next one.  If a completion were missing the caller   *)
(* could press what he likes.                                              *)
(*                                                                         *)
(* The port is that of VoiceOps, the queue the deque BoundedDeque that     *)
(* MessageQueue implements.  Each call from Lua into the program is a step *)
(* of its own; between two of them digits arrive, files end, timeouts      *)
(* elapse and the script may be stopped.                                   *)
(***************************************************************************)
EXTENDS VoiceOps

CONSTANTS BeepKeys,     \* the keys that are answered with a beep ("1", "2", "9")
          MaxElements,  \* limit of the queue: PJS_MAX_CONTROL_MESSAGES
          MaxDigits     \* bound: digits that are pressed

ASSUME MenuAssumption ==
    BeepKeys \subseteq Digits /\ MaxElements \in Nat \ {0} /\ MaxDigits \in Nat \ {0}

VARIABLES vr,       \* the call's port
          mqueue,   \* the call's message queue
          exit,     \* m_script_exit
          mpc,      \* where call_ivr is
          key,      \* the digit it handles, as a sequence
          fpc,      \* the media clock inside get_frame
          spc,      \* pjs_intercom_script::stop()
          pressed   \* digits pressed (bounds the model)

menuVars == <<vr, mqueue, exit, mpc, key, fpc, spc, pressed>>

\* The call is answered and its PIN checked: the menu is about to begin.
MenuInit ==
    /\ vr = IdlePort /\ mqueue = <<>> /\ exit = FALSE
    /\ mpc = "clear" /\ key = <<>>
    /\ fpc = "out" /\ spc = "running" /\ pressed = 0

-----------------------------------------------------------------------------
Room(s) == IF Len(s) >= MaxElements THEN Tail(s) ELSE s

\* A port posts at most two completions in one call.
Post(done) ==
    mqueue' = IF done = <<>> THEN mqueue
              ELSE LET once == Append(Room(mqueue), done[1].kind)
                   IN  IF Len(done) = 1 THEN once ELSE Append(Room(once), done[2].kind)

\* play_file_async(..., "1234567890*#", 0, 0): every digit ends it.
PlayBeep ==
    \E opens \in BOOLEAN :
        LET armed == PlayArmed(InternalStop(vr), 0, TRUE, Digits)
            r     == PlayFile(armed, exit, opens, FALSE)
        IN  vr' = r.port /\ Post(Completion(vr, vr.state, exit) \o r.done)

\* wait_input_async(1, "", 10000, 5000, 0, 0)
WaitForDigit ==
    LET armed == WaitArmed(InternalStop(vr), 0, TRUE, 1, {}, TRUE)
        r     == WaitInput(armed, exit, TRUE, 1)
    IN  IF exit THEN vr' = InternalStop(vr) /\ UNCHANGED mqueue
                ELSE vr' = r.port /\ Post(Completion(vr, vr.state, exit) \o r.done)

-----------------------------------------------------------------------------
(* The menu *)

MenuStays == UNCHANGED <<exit, fpc, spc, pressed>>

\* vr:clear_input()
MenuClearsInput ==
    /\ mpc = "clear"
    /\ vr' = [vr EXCEPT !.buf = <<>>]
    /\ mpc' = "clear_queue"
    /\ UNCHANGED <<mqueue, key>> /\ MenuStays

\* mqueue:clear(), which also throws away a quit message.
MenuClearsQueue ==
    /\ mpc = "clear_queue"
    /\ mqueue' = <<>>
    /\ mpc' = "beep"
    /\ UNCHANGED <<vr, key>> /\ MenuStays

\* Mutant: the menu begins with the connection and without a beep.
MenuBeginsSilent ==
    /\ mpc = "beep"
    /\ mpc' = "fetch"
    /\ UNCHANGED <<vr, mqueue, key>> /\ MenuStays

MenuBegins ==
    /\ mpc = "beep"
    /\ PlayBeep
    /\ mpc' = "fetch"
    /\ UNCHANGED key /\ MenuStays

MenuFetches ==
    /\ mpc = "fetch"
    /\ IF mqueue = <<>> THEN mpc' = "sleep" /\ UNCHANGED mqueue
                        ELSE /\ mqueue' = Tail(mqueue)
                             /\ mpc' = IF Head(mqueue) = "quit" THEN "done" ELSE "input"
    /\ UNCHANGED <<vr, key>> /\ MenuStays

\* mqueue:wait(100)
MenuWakes ==
    /\ mpc = "sleep"
    /\ mpc' = "fetch"
    /\ UNCHANGED <<vr, mqueue, key>> /\ MenuStays

\* vr:get_input(1, "")
MenuTakesKey ==
    /\ mpc = "input"
    /\ key' = Taken(vr, 1)
    /\ vr' = [vr EXCEPT !.buf = Left(vr, 1)]
    /\ mpc' = IF vr.buf # <<>> /\ vr.buf[1] \in BeepKeys THEN "answer" ELSE "idle"
    /\ UNCHANGED mqueue /\ MenuStays

MenuAnswers ==
    /\ mpc = "answer"
    /\ PlayBeep
    /\ mpc' = "idle"
    /\ UNCHANGED key /\ MenuStays

\* vr:is_idle() is asked while something is played.
MenuGoesOn ==
    /\ mpc = "idle"
    /\ vr.state # "idle"
    /\ mpc' = "fetch" /\ key' = <<>>
    /\ UNCHANGED <<vr, mqueue>> /\ MenuStays

\* Mutant: the menu waits for the next digit only when there was none.
MenuWaitsAfterSilence ==
    /\ mpc = "idle"
    /\ vr.state = "idle"
    /\ IF key = <<>> THEN WaitForDigit ELSE UNCHANGED <<vr, mqueue>>
    /\ mpc' = "fetch" /\ key' = <<>>
    /\ MenuStays

\* It is idle, and as nothing but the menu makes an idle port busy it still is
\* when wait_input_async is called.
MenuWaitsForDigit ==
    /\ mpc = "idle"
    /\ vr.state = "idle"
    /\ WaitForDigit
    /\ mpc' = "fetch" /\ key' = <<>>
    /\ MenuStays

-----------------------------------------------------------------------------
(* The media clock, digits and stop *)

Elsewhere == UNCHANGED <<mpc, key>>

FrameLook ==
    /\ fpc = "out" /\ vr.state # "idle"
    /\ fpc' = "in"
    /\ UNCHANGED <<vr, mqueue, exit, spc, pressed>> /\ Elsewhere

FrameGoesOn ==
    /\ fpc = "in"
    /\ vr.file \/ ~DigitsEnough(vr)
    /\ fpc' = "out"
    /\ UNCHANGED <<vr, mqueue, exit, spc, pressed>> /\ Elsewhere

FrameEnds ==
    /\ fpc = "in"
    /\ vr.file \/ Terminates(vr, TRUE)
    /\ vr' = InternalStop(vr)
    /\ Post(Completion(vr, vr.state, exit))
    /\ fpc' = "out"
    /\ UNCHANGED <<exit, spc, pressed>> /\ Elsewhere

\* A digit from the SIP stack, as VoiceResponse's OnInput.
OnDtmf(d) ==
    LET typed == [vr EXCEPT !.buf = Append(@, d)]
    IN  /\ pressed < MaxDigits /\ pressed' = pressed + 1
        /\ \E late \in BOOLEAN :
             IF vr.state # "idle" /\ Terminates(typed, late)
               THEN vr' = InternalStop(typed) /\ Post(Completion(vr, vr.state, exit))
               ELSE vr' = typed /\ UNCHANGED mqueue
        /\ UNCHANGED <<exit, fpc, spc>> /\ Elsewhere

SetExit ==
    /\ spc = "running"
    /\ exit' = TRUE /\ spc' = "quit"
    /\ UNCHANGED <<vr, mqueue, fpc, pressed>> /\ Elsewhere

\* post_script_quit_message(): at the front of the queue.
PostQuit ==
    /\ spc = "quit"
    /\ mqueue' = <<"quit">> \o Room(mqueue)
    /\ spc' = "stop"
    /\ UNCHANGED <<vr, exit, fpc, pressed>> /\ Elsewhere

StopPort ==
    /\ spc = "stop"
    /\ vr' = InternalStop(vr)
    /\ Post(Completion(vr, vr.state, exit))
    /\ spc' = "stopped"
    /\ UNCHANGED <<exit, fpc, pressed>> /\ Elsewhere

-----------------------------------------------------------------------------
Menu == \/ MenuClearsInput \/ MenuClearsQueue \/ MenuBegins \/ MenuFetches \/ MenuWakes \/ MenuTakesKey
        \/ MenuAnswers \/ MenuGoesOn \/ MenuWaitsForDigit

MediaClock == FrameLook \/ FrameGoesOn \/ FrameEnds

\* The menu is left and the port stopped.
Done == mpc = "done" /\ spc = "stopped" /\ UNCHANGED menuVars

MenuNext == \/ Menu \/ MediaClock
            \/ \E d \in Digits : OnDtmf(d)
            \/ SetExit \/ PostQuit \/ StopPort
            \/ Done

MenuSpec == MenuInit /\ [][MenuNext]_menuVars

\* The script runs.  Nothing is assumed of the media clock: a port without a
\* listener is asked for no frame, and then neither a file ends nor a timeout
\* elapses.  A digit ends what the menu plays or waits for by itself.
MenuFairSpec == MenuSpec /\ WF_menuVars(Menu)

-----------------------------------------------------------------------------
(* Properties *)

MenuTypeOK ==
    /\ vr \in Port /\ mqueue \in Seq({"quit", "idle", "play", "wait"}) /\ exit \in BOOLEAN
    /\ mpc \in {"clear", "clear_queue", "beep", "fetch", "sleep", "input", "answer", "idle", "done"}
    /\ key \in Seq(Digits) /\ fpc \in {"out", "in"}
    /\ spc \in {"running", "quit", "stop", "stopped"} /\ pressed \in 0..MaxDigits

\* The menu is never deaf: while it sleeps on an empty queue, the port owes it a
\* completion.  Two digits may end one prompt, a prompt may fail to open or be
\* refused because of digits typed ahead, and a full queue may forget messages.
MenuListens == (mpc = "sleep" /\ mqueue = <<>> /\ ~exit) => vr.async

\* Every digit is taken from the port in the end, while the call goes on, even
\* when its media is down and nothing plays to its end.
DigitsAreTaken == (vr.buf # <<>>) ~> (vr.buf = <<>> \/ exit)
=============================================================================
