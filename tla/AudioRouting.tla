----------------------------- MODULE AudioRouting -----------------------------
(***************************************************************************)
(* Who hears whom: pjs_call_script_interface connects a call's port of the *)
(* conference bridge to its own voice menu, to the sound device (port 0)   *)
(* and to the other calls, and pjs_intercom_system::connect() makes the    *)
(* audio monitor hear whatever the sound device hears.                     *)
(*                                                                         *)
(* Two activities may work on one call: its script (connect_main() and the *)
(* like, with no lock) and the SIP side (media and call state callbacks    *)
(* under m_scripts_mutex, one at a time).  Each goes through the checks of *)
(* the interface step by step and reads m_call_port anew at every step.    *)
(* The bridge and pjsua's table of calls are those of the vendored         *)
(* pjproject, as far as the program uses them: the bridge gives out the    *)
(* lowest free port, drops the links of a port that is removed, and        *)
(* refuses to connect a port that is not there.                            *)
(***************************************************************************)
EXTENDS Naturals

CONSTANTS
    Calls,          \* call ids of pjsua
    Sip,            \* the activity that holds m_scripts_mutex
    MaxSlot,        \* bound: ports that the bridge has for calls
    MaxBegins,      \* bound: calls, each of which may end
    MaxOps,         \* bound: operations of the scripts
    MaxDowns        \* bound: times that the media of a call stop or change

ASSUME AudioRoutingAssumption ==
    Sip \notin Calls /\ MaxSlot \in Nat \ {0} /\ {MaxBegins, MaxOps, MaxDowns} \subseteq Nat

VARIABLES
    slot,           \* call->conf_slot, None without media
    due,            \* what pjsua tells the intercom next about the call
    links,          \* <<source, sink>>: the bridge's connections
    menu,           \* ports that the call's voice menu (m_vr_port) plays to
    script,         \* the call's script object: "none", "run", "ended"
    active,         \* m_call_is_active
    port,           \* m_call_port
    connected,      \* is_connected_to_main
    sct,            \* sound_connection_type
    act,            \* per activity: where it is in the checks
    doubt,          \* history: two activities met on this call, or a stale
                    \* port number of another call changed its links
    begins, ops, downs

bounds == <<begins, ops, downs>>
callVars == <<script, active, port, connected, sct>>
vars == <<slot, due, links, menu, callVars, act, doubt, bounds>>

Main == 0                           \* the sound device
Slots == 1 .. MaxSlot
Monitor == MaxSlot + 1              \* m_audio_monitor->get_input1_id()
None == MaxSlot + 2                 \* PJSUA_INVALID_ID
Ports == Slots \cup {Main, Monitor}
Activities == Calls \cup {Sip}

Idle(a) == [pc |-> "idle", call |-> a, on |-> FALSE, route |-> FALSE, todo |-> {},
            rem |-> None, peer |-> a, alone |-> TRUE]
Busy(a) == act[a].pc # "idle"
OnCall(c) == {a \in Activities : Busy(a) /\ act[a].call = c}
Live(c) == due[c] # "over"          \* listed by pjsua_enum_calls()
HasMedia(c) == slot[c] # None

Init ==
    /\ slot = [c \in Calls |-> None]
    /\ due = [c \in Calls |-> "over"]
    /\ links = {}
    /\ menu = [c \in Calls |-> {}]
    /\ script = [c \in Calls |-> "none"]
    /\ active = [c \in Calls |-> FALSE]
    /\ port = [c \in Calls |-> Main]
    /\ connected = [c \in Calls |-> FALSE]
    /\ sct = [c \in Calls |-> {"onconn"}]
    /\ act = [a \in Activities |-> Idle(a)]
    /\ doubt = [c \in Calls |-> FALSE]
    /\ begins = 0 /\ ops = 0 /\ downs = 0

-----------------------------------------------------------------------------
(* The bridge and the switcher.                                            *)

Exists(p) == p \in {Main, Monitor} \/ \E c \in Calls : slot[c] = p /\ p # None

\* Mutant: the monitor goes on hearing what port 0 no longer hears.
SwitchKeepsMonitor(source, sink, on) ==
    LET known == {l \in {<<source, sink>>, <<source, Monitor>>} :
                    Exists(l[1]) /\ Exists(l[2]) /\ (l[2] = Monitor => sink = Main)}
    IN  IF on THEN links \cup known ELSE links \ {<<source, sink>>}

\* connect() and disconnect() of the system: the monitor hears what port 0 hears.
Switch(source, sink, on) ==
    LET pairs == {<<source, sink>>} \cup (IF sink = Main THEN {<<source, Monitor>>} ELSE {})
        known == {l \in pairs : Exists(l[1]) /\ Exists(l[2])}
    IN  IF on THEN links \cup known ELSE links \ known

\* A port taken from the bridge takes its links with it.
WithoutPort(p) == {l \in links : p \notin {l[1], l[2]}}

\* History: calls whose links an activity on c changes by mistake, because it
\* uses a number that is not (or no longer) the port of c or of its peer.
Hit(c, peer, source, sink) ==
    IF {source, sink} \ {Main} \subseteq {slot[c], slot[peer]} /\ slot[c] \in {source, sink}
    THEN {} ELSE {d \in Calls : slot[d] \in {source, sink}}

\* Activity a goes on as r; the calls of hit lose their certainty.
Goes(a, r, hit) ==
    /\ act' = [x \in Activities |->
                 LET y == IF x = a THEN r ELSE act[x]
                 IN  IF y.call \in hit THEN [y EXCEPT !.alone = FALSE] ELSE y]
    /\ doubt' = [c \in Calls |-> doubt[c] \/ c \in hit]

\* An activity on c starts; it is alone unless the other one is at work.
Starts(a, c) ==
    Goes(a, [Idle(c) EXCEPT !.pc = "test"], IF OnCall(c) = {} THEN {} ELSE {c})

\* An activity that was alone from start to end has put the call right.
Finishes(a) ==
    LET c == act[a].call
    IN  /\ act' = [act EXCEPT ![a] = Idle(a)]
        /\ doubt' = [doubt EXCEPT ![c] = @ /\ ~act[a].alone]

-----------------------------------------------------------------------------
(* check_main_sound_connection(), one step per call of the bridge.         *)

\* Mutant: SCT_CONFERENCE_ON_CONNECTED counts without a connection too.
JoinsOthersUnconnected(c) == sct[c] \cap {"conf", "onconn"} # {}

\* Whether the other calls are to be connected, as the type of now says.
JoinsOthers(c) == "conf" \in sct[c] \/ (connected[c] /\ "onconn" \in sct[c])

Test(a) ==
    LET c == act[a].call
    IN  /\ act[a].pc = "test"
        /\ IF port[c] = Main
           THEN Finishes(a)
           ELSE Goes(a, [act[a] EXCEPT
                           !.pc = "route",
                           !.on = connected[c],
                           !.route = JoinsOthers(c),
                           !.todo = {d \in Calls \ {c} : Live(d)}], {})
        /\ UNCHANGED <<slot, due, links, menu, callVars, bounds>>

\* sound_route_to_other_calls(): the next other call that has media, if any.
Route(a) ==
    LET c == act[a].call
        r == act[a]
    IN  /\ r.pc = "route"
        /\ \/ \E d \in r.todo :
                Goes(a, [r EXCEPT !.todo = @ \ {d},
                                  !.pc = IF HasMedia(d) THEN "out" ELSE "route",
                                  !.rem = slot[d], !.peer = d], {})
           \/ /\ r.todo = {}
              /\ Goes(a, [r EXCEPT !.pc = "toMain", !.route = FALSE], {})
        /\ UNCHANGED <<slot, due, links, menu, callVars, bounds>>

Out(a) ==
    LET c == act[a].call
        r == act[a]
    IN  /\ r.pc = "out"
        /\ links' = Switch(port[c], r.rem, r.route)
        /\ Goes(a, [r EXCEPT !.pc = "in"], Hit(c, r.peer, port[c], r.rem))
        /\ UNCHANGED <<slot, due, menu, callVars, bounds>>

In(a) ==
    LET c == act[a].call
        r == act[a]
    IN  /\ r.pc = "in"
        /\ links' = Switch(r.rem, port[c], r.route)
        /\ Goes(a, [r EXCEPT !.pc = "route", !.rem = None, !.peer = c],
                Hit(c, r.peer, r.rem, port[c]))
        /\ UNCHANGED <<slot, due, menu, callVars, bounds>>

\* connect(m_call_port, 0) or disconnect(), the monitor with it.
ToMain(a) ==
    LET c == act[a].call
        r == act[a]
    IN  /\ r.pc = "toMain"
        /\ links' = Switch(port[c], Main, r.on)
        /\ Goes(a, [r EXCEPT !.pc = "fromMain"], Hit(c, c, port[c], Main))
        /\ UNCHANGED <<slot, due, menu, callVars, bounds>>

\* connect(0, m_call_port), also when the call only listens.  What this does is
\* the last change of the check, which returns with it.
FromMain(a) ==
    LET c == act[a].call
        r == act[a]
        hit == Hit(c, c, Main, port[c])
    IN  /\ r.pc = "fromMain"
        /\ links' = Switch(Main, port[c], r.on \/ "listen" \in sct[c])
        /\ act' = [x \in Activities |->
                     IF x = a THEN Idle(a)
                     ELSE IF act[x].call \in hit THEN [act[x] EXCEPT !.alone = FALSE]
                     ELSE act[x]]
        /\ doubt' = [d \in Calls |->
                       \/ d \in hit
                       \/ doubt[d] /\ ~(d = c /\ r.alone)]
        /\ UNCHANGED <<slot, due, menu, callVars, bounds>>

Check(a) == Test(a) \/ Route(a) \/ Out(a) \/ In(a) \/ ToMain(a) \/ FromMain(a)

-----------------------------------------------------------------------------
(* The script of a call, and the timer that deletes it.                    *)

ScriptMay(c) == script[c] = "run" /\ ~Busy(c)
Operation == ops < MaxOps /\ ops' = ops + 1 /\ UNCHANGED <<begins, downs>>

ConnectMain(c) ==
    /\ ScriptMay(c) /\ Operation
    /\ connected' = [connected EXCEPT ![c] = TRUE]
    /\ Starts(c, c)
    /\ UNCHANGED <<slot, due, links, menu, script, active, port, sct>>

DisconnectMain(c) ==
    /\ ScriptMay(c) /\ Operation
    /\ connected' = [connected EXCEPT ![c] = FALSE]
    /\ Starts(c, c)
    /\ UNCHANGED <<slot, due, links, menu, script, active, port, sct>>

\* set_sound_connection_type() as call.lua uses it: SCT_LISTEN_MAIN is added.
SetSoundConnectionType(c) ==
    /\ ScriptMay(c) /\ Operation
    /\ sct' = [sct EXCEPT ![c] = @ \cup {"listen"}]
    /\ Starts(c, c)
    /\ UNCHANGED <<slot, due, links, menu, script, active, port, connected>>

ScriptEnds(c) ==
    /\ ScriptMay(c)
    /\ script' = [script EXCEPT ![c] = "ended"]
    /\ UNCHANGED <<slot, due, links, menu, active, port, connected, sct, act, doubt, bounds>>

\* timer() takes the script from the map and deletes it: i_on_clean() removes
\* the port of the menu.
Reap(c) ==
    /\ script[c] = "ended" /\ act[Sip].pc = "idle"
    /\ script' = [script EXCEPT ![c] = "none"]
    /\ menu' = [menu EXCEPT ![c] = {}]
    /\ active' = [active EXCEPT ![c] = FALSE]
    /\ port' = [port EXCEPT ![c] = Main]
    /\ connected' = [connected EXCEPT ![c] = FALSE]
    /\ sct' = [sct EXCEPT ![c] = {"onconn"}]
    /\ UNCHANGED <<slot, due, links, act, doubt, bounds>>

-----------------------------------------------------------------------------
(* pjsua's side: calls come and go, their media start, change and stop.    *)

Begin(c) ==
    /\ ~Live(c) /\ script[c] = "none" /\ ~Busy(Sip)
    /\ begins < MaxBegins /\ begins' = begins + 1 /\ UNCHANGED <<ops, downs>>
    /\ due' = [due EXCEPT ![c] = "none"]
    /\ script' = [script EXCEPT ![c] = "run"]
    /\ active' = [active EXCEPT ![c] = TRUE]
    /\ UNCHANGED <<slot, links, menu, port, connected, sct, act, doubt>>

Free == Slots \ {slot[d] : d \in Calls}
LowestFree(s) == \A f \in Free : s <= f

\* pjsua_media_channel_update(): a port for the call, then the callback.
MediaUp(c) ==
    /\ due[c] = "none" /\ ~HasMedia(c)
    /\ \E s \in Free : LowestFree(s) /\ slot' = [slot EXCEPT ![c] = s]
    /\ due' = [due EXCEPT ![c] = "media"]
    /\ UNCHANGED <<links, menu, callVars, act, doubt, bounds>>

\* stop_media_session(): the port goes; the callback does nothing then.
PortGone(c) ==
    /\ slot' = [slot EXCEPT ![c] = None]
    /\ links' = IF HasMedia(c) THEN WithoutPort(slot[c]) ELSE links
    /\ menu' = [d \in Calls |-> menu[d] \ {slot[c]}]

MediaDown(c) ==
    /\ due[c] = "none" /\ HasMedia(c)
    /\ downs < MaxDowns /\ downs' = downs + 1 /\ UNCHANGED <<begins, ops>>
    /\ PortGone(c)
    /\ UNCHANGED <<due, callVars, act, doubt>>

\* Mutant: the first port of a call is taken for its only one.
PortOfNowFirst(c) == IF port[c] = Main THEN slot[c] ELSE port[c]

\* on_media_connected() asks pjsua for the port.
PortOfNow(c) == slot[c]

\* on_call_media_state(): set_call_port() with the port of now.  It tells the
\* menu to play to the port, then checks the connections.
MediaConnected(c) ==
    /\ due[c] = "media" /\ ~Busy(Sip)
    /\ due' = [due EXCEPT ![c] = "none"]
    /\ IF script[c] # "none" /\ active[c]
       THEN /\ port' = [port EXCEPT ![c] = PortOfNow(c)]
            /\ menu' = [menu EXCEPT ![c] = @ \cup {PortOfNow(c)}]
            /\ Starts(Sip, c)
       ELSE UNCHANGED <<port, menu, act, doubt>>
    /\ UNCHANGED <<slot, links, script, active, connected, sct, bounds>>

CallEnds(c) ==
    /\ due[c] = "none" /\ ~(Busy(Sip) /\ act[Sip].call = c)
    /\ due' = [due EXCEPT ![c] = "end"]
    /\ UNCHANGED <<slot, links, menu, callVars, act, doubt, bounds>>

\* on_call_state(DISCONNECTED): stop() of a script that has not ended zeroes
\* the port (i_before_terminate) and the call is no more (i_after_terminate).
Stop(c) ==
    /\ due[c] = "end" /\ ~Busy(Sip)
    /\ due' = [due EXCEPT ![c] = "gone"]
    /\ IF script[c] = "run"
       THEN /\ port' = [port EXCEPT ![c] = Main]
            /\ active' = [active EXCEPT ![c] = FALSE]
            /\ LET met == IF Busy(c) THEN {c} ELSE {} IN
               /\ act' = [act EXCEPT ![c].alone = @ /\ c \notin met]
               /\ doubt' = [doubt EXCEPT ![c] = @ \/ c \in met]
       ELSE UNCHANGED <<port, active, act, doubt>>
    /\ UNCHANGED <<slot, links, menu, script, connected, sct, bounds>>

\* pjsua gives up the call after the callback: pjsua_media_channel_deinit().
CallGone(c) ==
    /\ due[c] = "gone"
    /\ due' = [due EXCEPT ![c] = "over"]
    /\ PortGone(c)
    /\ UNCHANGED <<callVars, act, doubt, bounds>>

Next ==
    \/ \E a \in Activities : Check(a)
    \/ \E c \in Calls :
        \/ ConnectMain(c) \/ DisconnectMain(c) \/ SetSoundConnectionType(c)
        \/ ScriptEnds(c) \/ Reap(c)
        \/ Begin(c) \/ MediaUp(c) \/ MediaDown(c) \/ MediaConnected(c)
        \/ CallEnds(c) \/ Stop(c) \/ CallGone(c)

Spec == Init /\ [][Next]_vars

-----------------------------------------------------------------------------
(* Properties.                                                             *)

TypeOK ==
    /\ slot \in [Calls -> Slots \cup {None}]
    /\ due \in [Calls -> {"none", "media", "end", "gone", "over"}]
    /\ links \subseteq Ports \X Ports
    /\ menu \in [Calls -> SUBSET Slots]
    /\ script \in [Calls -> {"none", "run", "ended"}]
    /\ active \in [Calls -> BOOLEAN]
    /\ port \in [Calls -> Slots \cup {Main}]
    /\ connected \in [Calls -> BOOLEAN]
    /\ sct \in [Calls -> SUBSET {"listen", "onconn", "conf"}]
    /\ doubt \in [Calls -> BOOLEAN]

\* The call is up, its media has been announced, and nothing works on it.
Settled(c) ==
    /\ due[c] = "none" /\ HasMedia(c) /\ script[c] # "none" /\ active[c]
    /\ OnCall(c) = {}

\* Once no two activities have met on a call since its last check, what it hears
\* and who hears it is what its script asked for: connected, the sound device
\* and the monitor both ways; else it is heard by neither and listens only if
\* told to.  A call that met such a race is put right by its next check.
SoundMatches ==
    \A c \in Calls : Settled(c) /\ ~doubt[c] =>
        LET s == slot[c] IN
        /\ <<s, Main>> \in links <=> connected[c]
        /\ <<s, Monitor>> \in links <=> connected[c]
        /\ <<Main, s>> \in links <=> connected[c] \/ "listen" \in sct[c]

WantsOthers(c) == "conf" \in sct[c] \/ (connected[c] /\ "onconn" \in sct[c])

\* Two calls whose scripts both want the others hear one another both ways
\* however their checks interleaved, and two that both do not never do.
ConferenceMatches ==
    \A c, d \in Calls :
        c # d /\ Settled(c) /\ Settled(d) /\ ~doubt[c] /\ ~doubt[d] =>
            LET both == {<<slot[c], slot[d]>>, <<slot[d], slot[c]>>} IN
            /\ WantsOthers(c) /\ WantsOthers(d) => both \subseteq links
            /\ ~WantsOthers(c) /\ ~WantsOthers(d) => both \cap links = {}

\* A voice menu never plays to another call's port, although ports are used
\* again, and a call whose media is up hears its own.
MenuIsPrivate ==
    \A c \in Calls :
        /\ menu[c] \subseteq {slot[c]}
        /\ Settled(c) => slot[c] \in menu[c]

=============================================================================
