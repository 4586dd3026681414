-------------------------- MODULE AudioRoutingProofs --------------------------
(***************************************************************************)
(* Theorems about AudioRouting, for any number of calls, ports and         *)
(* operations of the scripts.                                              *)
(***************************************************************************)
EXTENDS AudioRouting, TLAPS

\* No two calls share a port of the bridge.
SlotsDiffer == \A c, d \in Calls : c # d /\ HasMedia(c) => slot[c] # slot[d]

\* A call that is over has no port, and one whose media is announced has one.
MediaInv ==
    \A c \in Calls :
        /\ due[c] = "over" => slot[c] = None
        /\ due[c] = "media" => HasMedia(c)

\* The menu of a call plays to its port, from the moment pjsua announces it.
MenuInv ==
    \A c \in Calls :
        /\ menu[c] \subseteq {slot[c]}
        /\ due[c] = "none" /\ HasMedia(c) /\ script[c] # "none" /\ active[c]
             => slot[c] \in menu[c]

IInv == TypeOK /\ SlotsDiffer /\ MediaInv /\ MenuInv

-----------------------------------------------------------------------------
(* Lemmas.                                                                 *)

\* The numbers of the ports and the number of no port.
LEMMA PortNumbers == None \notin Slots /\ None \notin Ports /\ Main \in Ports /\ Monitor \in Ports
  BY AudioRoutingAssumption DEF None, Slots, Ports, Main, Monitor

\* A port that exists is one of the ports.
LEMMA ExistsType == ASSUME TypeOK, NEW p, Exists(p) PROVE p \in Ports
  BY PortNumbers DEF Exists, TypeOK, Ports

\* What connect() and disconnect() leave are links between ports.
LEMMA SwitchType ==
    ASSUME TypeOK, NEW source, NEW sink, NEW on
    PROVE  Switch(source, sink, on) \subseteq Ports \X Ports
<1> DEFINE pairs == {<<source, sink>>} \cup (IF sink = Main THEN {<<source, Monitor>>} ELSE {})
           known == {l \in pairs : Exists(l[1]) /\ Exists(l[2])}
<1>1. known \subseteq Ports \X Ports
  <2> SUFFICES ASSUME NEW l \in pairs, Exists(l[1]), Exists(l[2]) PROVE l \in Ports \X Ports
    OBVIOUS
  <2>1. l[1] \in Ports /\ l[2] \in Ports
    BY ExistsType
  <2>2. l = <<l[1], l[2]>>
    OBVIOUS
  <2> QED
    BY <2>1, <2>2
<1>2. Switch(source, sink, on) \in {links \cup known, links \ known}
  BY DEF Switch
<1>3. links \subseteq Ports \X Ports
  BY DEF TypeOK
<1> HIDE DEF known
<1> QED
  BY <1>1, <1>2, <1>3

\* Removing a port leaves links.
LEMMA WithoutType == ASSUME TypeOK, NEW p PROVE WithoutPort(p) \subseteq Ports \X Ports
  BY DEF TypeOK, WithoutPort

\* A step that leaves calls, ports and menus alone keeps the invariant.
LEMMA Framed ==
    ASSUME IInv, UNCHANGED <<slot, due, menu>>, links' \subseteq Ports \X Ports,
           script' \in [Calls -> {"none", "run", "ended"}], active' \in [Calls -> BOOLEAN],
           port' \in [Calls -> Slots \cup {Main}], connected' \in [Calls -> BOOLEAN],
           sct' \in [Calls -> SUBSET {"listen", "onconn", "conf"}],
           doubt' \in [Calls -> BOOLEAN],
           \A c \in Calls : script'[c] # "none" => script[c] # "none",
           \A c \in Calls : active'[c] => active[c]
    PROVE  IInv'
<1>1. TypeOK'
  BY DEF IInv, TypeOK
<1>2. SlotsDiffer' /\ MediaInv' /\ MenuInv'
  BY DEF IInv, SlotsDiffer, MediaInv, MenuInv, HasMedia
<1> QED
  BY <1>1, <1>2 DEF IInv

\* Each step of a check changes links and history only.
LEMMA CheckFrame ==
    ASSUME TypeOK, NEW a \in Activities, Check(a)
    PROVE  /\ UNCHANGED <<slot, due, menu, callVars>>
           /\ links' \subseteq Ports \X Ports
           /\ doubt' \in [Calls -> BOOLEAN]
<1>1. UNCHANGED <<slot, due, menu, callVars>>
  BY DEF Check, Test, Route, Out, In, ToMain, FromMain
<1>2. links' \subseteq Ports \X Ports
  <2>1. CASE Test(a) \/ Route(a)
    BY <2>1 DEF Test, Route, TypeOK
  <2>2. CASE Out(a)
    BY <2>2, SwitchType DEF Out
  <2>3. CASE In(a)
    BY <2>3, SwitchType DEF In
  <2>4. CASE ToMain(a)
    BY <2>4, SwitchType DEF ToMain
  <2>5. CASE FromMain(a)
    BY <2>5, SwitchType DEF FromMain
  <2> QED
    BY <2>1, <2>2, <2>3, <2>4, <2>5 DEF Check
<1>3. doubt' \in [Calls -> BOOLEAN]
  <2>1. CASE Test(a)
    BY <2>1 DEF Test, Goes, Finishes, TypeOK
  <2>2. CASE Route(a) \/ Out(a) \/ In(a) \/ ToMain(a)
    BY <2>2 DEF Route, Out, In, ToMain, Goes
  <2>3. CASE FromMain(a)
    BY <2>3 DEF FromMain
  <2> QED
    BY <2>1, <2>2, <2>3 DEF Check
<1> QED
  BY <1>1, <1>2, <1>3

-----------------------------------------------------------------------------
(* The inductive invariant, one lemma for each group of actions.           *)

\* The intercom starts without calls.
LEMMA InitInv == Init => IInv
<1> SUFFICES ASSUME Init PROVE IInv
  OBVIOUS
<1>1. TypeOK
  BY DEF Init, TypeOK
<1>2. SlotsDiffer /\ MediaInv /\ MenuInv
  BY DEF Init, SlotsDiffer, MediaInv, MenuInv, HasMedia
<1> QED
  BY <1>1, <1>2 DEF IInv

\* The script's operations change what the script asks for.
LEMMA OperationInv ==
    ASSUME IInv, NEW c \in Calls,
           ConnectMain(c) \/ DisconnectMain(c) \/ SetSoundConnectionType(c) \/ ScriptEnds(c)
    PROVE  IInv'
<1>1. UNCHANGED <<slot, due, menu, links, active, port>>
  BY DEF ConnectMain, DisconnectMain, SetSoundConnectionType, ScriptEnds
<1>2. /\ script' \in [Calls -> {"none", "run", "ended"}]
      /\ \A d \in Calls : script'[d] # "none" => script[d] # "none"
  BY DEF IInv, TypeOK, ConnectMain, DisconnectMain, SetSoundConnectionType, ScriptEnds, ScriptMay
<1>3. connected' \in [Calls -> BOOLEAN]
  BY DEF IInv, TypeOK, ConnectMain, DisconnectMain, SetSoundConnectionType, ScriptEnds
<1>4. sct' \in [Calls -> SUBSET {"listen", "onconn", "conf"}]
  BY DEF IInv, TypeOK, ConnectMain, DisconnectMain, SetSoundConnectionType, ScriptEnds
<1>5. doubt' \in [Calls -> BOOLEAN]
  BY DEF IInv, TypeOK, ConnectMain, DisconnectMain, SetSoundConnectionType, ScriptEnds, Starts, Goes
<1> QED
  BY <1>1, <1>2, <1>3, <1>4, <1>5, Framed DEF IInv, TypeOK

\* timer() deletes a script and the port of its menu.
LEMMA ReapInv == ASSUME IInv, NEW c \in Calls, Reap(c) PROVE IInv'
<1> USE DEF IInv, Reap
<1>1. TypeOK'
  BY DEF TypeOK
<1>2. SlotsDiffer' /\ MediaInv'
  BY DEF SlotsDiffer, MediaInv, HasMedia
<1>3. MenuInv'
  BY DEF TypeOK, MenuInv, HasMedia
<1> QED
  BY <1>1, <1>2, <1>3

\* A call begins, which has no media yet.
LEMMA BeginInv == ASSUME IInv, NEW c \in Calls, Begin(c) PROVE IInv'
<1> USE DEF IInv, Begin, Live
<1>1. TypeOK'
  BY DEF TypeOK
<1>2. SlotsDiffer' /\ MediaInv'
  BY DEF TypeOK, SlotsDiffer, MediaInv, HasMedia
<1>3. MenuInv'
  BY DEF TypeOK, MenuInv, MediaInv, HasMedia
<1> QED
  BY <1>1, <1>2, <1>3

\* The media of a call start on a port that no call has.
LEMMA MediaUpInv == ASSUME IInv, NEW c \in Calls, MediaUp(c) PROVE IInv'
<1>1. PICK s \in Free : slot' = [slot EXCEPT ![c] = s]
  BY DEF MediaUp
<1>2. s \in Slots /\ s # None /\ \A d \in Calls : slot[d] # s
  BY PortNumbers DEF Free
<1>3. /\ slot[c] = None /\ due[c] = "none" /\ due' = [due EXCEPT ![c] = "media"]
      /\ UNCHANGED <<links, menu, script, active, port, connected, sct, doubt>>
  BY DEF MediaUp, HasMedia, callVars
<1> USE DEF IInv
<1>4. TypeOK'
  BY <1>1, <1>2, <1>3 DEF TypeOK
<1>5. SlotsDiffer' /\ MediaInv'
  BY <1>1, <1>2, <1>3 DEF TypeOK, SlotsDiffer, MediaInv, HasMedia
<1>6. MenuInv'
  <2>1. menu[c] = {}
    BY <1>3, PortNumbers DEF TypeOK, MenuInv
  <2> QED
    BY <1>1, <1>2, <1>3, <2>1 DEF TypeOK, MenuInv, HasMedia
<1> QED
  BY <1>4, <1>5, <1>6

\* The media of a call stop, or pjsua gives the call up: its port goes.
LEMMA PortGoneInv ==
    ASSUME IInv, NEW c \in Calls, MediaDown(c) \/ CallGone(c) PROVE IInv'
<1>1. /\ slot' = [slot EXCEPT ![c] = None]
      /\ menu' = [d \in Calls |-> menu[d] \ {slot[c]}]
      /\ links' = links \/ links' = WithoutPort(slot[c])
      /\ UNCHANGED <<script, active, port, connected, sct, doubt>>
  BY DEF MediaDown, CallGone, PortGone, callVars
<1>2. \/ due' = due /\ due[c] = "none"
      \/ due' = [due EXCEPT ![c] = "over"] /\ due[c] = "gone"
  BY DEF MediaDown, CallGone
<1> USE DEF IInv
<1>3. TypeOK'
  <2>1. links' \subseteq Ports \X Ports
    BY <1>1, WithoutType DEF TypeOK
  <2> QED
    BY <1>1, <1>2, <2>1 DEF TypeOK
<1>4. SlotsDiffer'
  BY <1>1 DEF TypeOK, SlotsDiffer, HasMedia
<1>5. MediaInv'
  BY <1>1, <1>2 DEF TypeOK, MediaInv, HasMedia
<1>6. MenuInv'
  <2> SUFFICES ASSUME NEW d \in Calls
               PROVE  /\ menu'[d] \subseteq {slot'[d]}
                      /\ due'[d] = "none" /\ slot'[d] # None /\ script'[d] # "none" /\ active'[d]
                           => slot'[d] \in menu'[d]
    BY DEF MenuInv, HasMedia
  <2>1. CASE d = c
    BY <1>1, <2>1 DEF TypeOK, MenuInv
  <2>2. CASE d # c
    <3>1. slot'[d] = slot[d] /\ due'[d] = due[d] /\ menu'[d] = menu[d] \ {slot[c]}
      BY <1>1, <1>2, <2>2 DEF TypeOK
    <3>2. slot[d] # None => slot[d] # slot[c]
      BY <2>2 DEF SlotsDiffer, HasMedia
    <3> QED
      BY <1>1, <3>1, <3>2 DEF MenuInv, HasMedia
  <2> QED
    BY <2>1, <2>2
<1> QED
  BY <1>3, <1>4, <1>5, <1>6

\* on_call_media_state() finds the call's port and gives it to the menu.
LEMMA MediaConnectedInv == ASSUME IInv, NEW c \in Calls, MediaConnected(c) PROVE IInv'
<1>1. /\ due[c] = "media" /\ due' = [due EXCEPT ![c] = "none"]
      /\ UNCHANGED <<slot, links, script, active, connected, sct>>
  BY DEF MediaConnected
<1> USE DEF IInv
<1>2. slot[c] \in Slots /\ slot[c] # None
  BY <1>1 DEF TypeOK, MediaInv, HasMedia
<1>3. CASE script[c] # "none" /\ active[c]
  <2>1. /\ port' = [port EXCEPT ![c] = slot[c]]
        /\ menu' = [menu EXCEPT ![c] = @ \cup {slot[c]}]
    BY <1>3 DEF MediaConnected, PortOfNow
  <2>2. doubt' \in [Calls -> BOOLEAN]
    BY <1>3 DEF MediaConnected, Starts, Goes, TypeOK
  <2>3. TypeOK'
    BY <1>1, <1>2, <2>1, <2>2 DEF TypeOK
  <2>4. SlotsDiffer' /\ MediaInv'
    BY <1>1 DEF TypeOK, SlotsDiffer, MediaInv, HasMedia
  <2>5. MenuInv'
    BY <1>1, <2>1 DEF TypeOK, MenuInv, HasMedia
  <2> QED
    BY <2>3, <2>4, <2>5
<1>4. CASE ~(script[c] # "none" /\ active[c])
  <2>1. UNCHANGED <<port, menu, doubt>>
    BY <1>4 DEF MediaConnected
  <2>2. TypeOK'
    BY <1>1, <2>1 DEF TypeOK
  <2>3. SlotsDiffer' /\ MediaInv'
    BY <1>1 DEF TypeOK, SlotsDiffer, MediaInv, HasMedia
  <2>4. MenuInv'
    BY <1>1, <1>4, <2>1 DEF TypeOK, MenuInv, HasMedia
  <2> QED
    BY <2>2, <2>3, <2>4
<1> QED
  BY <1>3, <1>4

\* The call ends, and on_call_state() stops its script.
LEMMA StopInv == ASSUME IInv, NEW c \in Calls, CallEnds(c) \/ Stop(c) PROVE IInv'
<1>1. /\ UNCHANGED <<slot, links, menu, script, connected, sct>>
      /\ due' = [due EXCEPT ![c] = "end"] \/ due' = [due EXCEPT ![c] = "gone"]
  BY DEF CallEnds, Stop, callVars
<1>2. /\ port' = port \/ port' = [port EXCEPT ![c] = Main]
      /\ active' = active \/ active' = [active EXCEPT ![c] = FALSE]
  BY DEF CallEnds, Stop, callVars
<1> USE DEF IInv
<1>3. doubt' \in [Calls -> BOOLEAN]
  <2>1. CASE CallEnds(c)
    BY <2>1 DEF CallEnds, TypeOK
  <2>2. CASE Stop(c)
    BY <2>2 DEF Stop, TypeOK
  <2> QED
    BY <2>1, <2>2
<1>4. TypeOK'
  <2>1. due' \in [Calls -> {"none", "media", "end", "gone", "over"}]
    BY <1>1 DEF TypeOK
  <2>2. port' \in [Calls -> Slots \cup {Main}] /\ active' \in [Calls -> BOOLEAN]
    BY <1>2 DEF TypeOK
  <2> QED
    BY <1>1, <1>3, <2>1, <2>2 DEF TypeOK
<1>5. SlotsDiffer' /\ MediaInv'
  BY <1>1 DEF TypeOK, SlotsDiffer, MediaInv, HasMedia
<1>6. MenuInv'
  <2>1. \A d \in Calls : /\ active'[d] => active[d]
                         /\ due'[d] = "none" => due[d] = "none"
    BY <1>1, <1>2 DEF TypeOK
  <2> QED
    BY <1>1, <2>1 DEF TypeOK, MenuInv, HasMedia
<1> QED
  BY <1>4, <1>5, <1>6

\* The invariant holds in every state of every run.
LEMMA Invariance == Spec => []IInv
<1>1. IInv /\ [Next]_vars => IInv'
  <2> SUFFICES ASSUME IInv, [Next]_vars PROVE IInv'
    OBVIOUS
  <2>1. CASE \E a \in Activities : Check(a)
    BY <2>1, CheckFrame, Framed DEF IInv, TypeOK, callVars
  <2>2. CASE \E c \in Calls : ConnectMain(c) \/ DisconnectMain(c) \/ SetSoundConnectionType(c)
                              \/ ScriptEnds(c)
    BY <2>2, OperationInv
  <2>3. CASE \E c \in Calls : Reap(c) \/ Begin(c) \/ MediaUp(c)
    BY <2>3, ReapInv, BeginInv, MediaUpInv
  <2>4. CASE \E c \in Calls : MediaDown(c) \/ CallGone(c)
    BY <2>4, PortGoneInv
  <2>5. CASE \E c \in Calls : MediaConnected(c) \/ CallEnds(c) \/ Stop(c)
    BY <2>5, MediaConnectedInv, StopInv
  <2>6. CASE UNCHANGED vars
    BY <2>6, Framed DEF IInv, TypeOK, vars, callVars
  <2> QED
    BY <2>1, <2>2, <2>3, <2>4, <2>5, <2>6 DEF Next
<1> QED
  BY <1>1, InitInv, PTL DEF Spec

-----------------------------------------------------------------------------
(* What a call hears.                                                      *)

Places == {"idle", "test", "route", "out", "in", "toMain", "fromMain"}

Act == [pc : Places, call : Activities, on : BOOLEAN, route : BOOLEAN, todo : SUBSET Calls,
        rem : Slots \cup {None}, peer : Activities, alone : BOOLEAN]

\* An activity in a check works on a call, a script's on its own; the number it uses for
\* another call was a port once.
GoodAct(a, r) ==
    /\ r \in Act
    /\ r.pc # "idle" => r.call \in Calls
    /\ a \in Calls => r.call = a
    /\ r.pc \in {"out", "in"} => r.rem \in Slots /\ r.peer \in Calls

ActInv == /\ act \in [Activities -> Act]
          /\ \A a \in Activities : GoodAct(a, act[a])

Works(a, c) == Busy(a) /\ act[a].call = c

\* An activity that met another one has left a doubt; two on one call have met.
RaceInv(c) ==
    \A a \in Activities : Works(a, c) =>
        /\ ~act[a].alone => doubt[c]
        /\ \A b \in Activities : b # a /\ Works(b, c) => ~act[a].alone

Announced(c) == due[c] = "none" /\ HasMedia(c) /\ script[c] # "none" /\ active[c]

\* Who hears the call, and what it hears of the sound device.
Heard(c) == /\ <<slot[c], Main>> \in links <=> connected[c]
            /\ <<slot[c], Monitor>> \in links <=> connected[c]
Hears(c) == <<Main, slot[c]>> \in links <=> connected[c] \/ "listen" \in sct[c]

\* The script works with the port of now.  Between the checks a call without a doubt is
\* right, and a check that is alone has put right what it has passed.
SoundInv(c) == Announced(c) =>
    /\ port[c] = slot[c]
    /\ ~doubt[c] /\ (\A a \in Activities : ~Works(a, c)) => Heard(c) /\ Hears(c)
    /\ \A a \in Activities : Works(a, c) /\ act[a].alone =>
          /\ act[a].pc # "test" => act[a].on = connected[c]
          /\ act[a].pc = "fromMain" => Heard(c)

CallInv(c) == RaceInv(c) /\ SoundInv(c)

\* The numbers of ports are different from each other.
LEMMA Numbers ==
    /\ Main \notin Slots /\ Monitor \notin Slots /\ None \notin Slots
    /\ Main # Monitor /\ Main # None /\ Monitor # None /\ Sip \notin Calls
  BY AudioRoutingAssumption DEF None, Slots, Main, Monitor

\* What connect() and disconnect() do to one link of the bridge.
LEMMA SwitchEffect ==
    ASSUME NEW source, NEW sink, NEW on \in BOOLEAN, NEW x, NEW y, Exists(x), Exists(y)
    PROVE  <<x, y>> \in Switch(source, sink, on) <=>
             IF x = source /\ (y = sink \/ (sink = Main /\ y = Monitor))
             THEN on ELSE <<x, y>> \in links
<1> DEFINE pairs == {<<source, sink>>} \cup (IF sink = Main THEN {<<source, Monitor>>} ELSE {})
           known == {l \in pairs : Exists(l[1]) /\ Exists(l[2])}
<1>1. <<x, y>> \in pairs <=> x = source /\ (y = sink \/ (sink = Main /\ y = Monitor))
  BY Numbers
<1>2. <<x, y>> \in known <=> <<x, y>> \in pairs
  OBVIOUS
<1>3. Switch(source, sink, on) = IF on THEN links \cup known ELSE links \ known
  BY DEF Switch
<1> HIDE DEF known, pairs
<1> QED
  BY <1>1, <1>2, <1>3

\* The links with the sound device and the monitor stay.
SameSound(c) ==
    /\ <<slot[c], Main>> \in links' <=> <<slot[c], Main>> \in links
    /\ <<slot[c], Monitor>> \in links' <=> <<slot[c], Monitor>> \in links
    /\ <<Main, slot[c]>> \in links' <=> <<Main, slot[c]>> \in links

\* A check on another call, unless it hits this one, leaves its links alone.
LEMMA OthersLinks ==
    ASSUME TypeOK, SlotsDiffer, NEW c \in Calls, HasMedia(c), NEW d \in Calls, c # d,
           NEW e \in Calls, NEW source \in Slots \cup {Main}, NEW sink \in Slots \cup {Main},
           NEW on \in BOOLEAN, links' = Switch(source, sink, on), c \notin Hit(d, e, source, sink)
    PROVE  SameSound(c)
<1>1. /\ slot[c] \in Slots /\ slot[d] \in Slots \cup {None}
      /\ slot[c] # slot[d] /\ (c # e => slot[c] # slot[e])
  BY DEF TypeOK, SlotsDiffer, HasMedia
<1>2. Exists(slot[c]) /\ Exists(Main) /\ Exists(Monitor)
  BY DEF Exists, HasMedia
<1>3. slot[c] \in {source, sink} =>
        {source, sink} \ {Main} \subseteq {slot[d], slot[e]} /\ slot[d] \in {source, sink}
  BY DEF Hit
<1>4. ~(source = slot[c] /\ sink = Main) /\ ~(source = Main /\ sink = slot[c])
  BY <1>1, <1>3, Numbers
<1>5. sink # Monitor
  BY Numbers
<1>6. <<slot[c], Main>> \in links' <=> <<slot[c], Main>> \in links
  BY <1>2, <1>4, <1>5, SwitchEffect, Numbers
<1>7. <<slot[c], Monitor>> \in links' <=> <<slot[c], Monitor>> \in links
  BY <1>2, <1>4, <1>5, SwitchEffect, Numbers
<1>8. <<Main, slot[c]>> \in links' <=> <<Main, slot[c]>> \in links
  BY <1>1, <1>2, <1>4, <1>5, SwitchEffect, Numbers
<1> QED
  BY <1>6, <1>7, <1>8 DEF SameSound

\* How an activity goes on: only the flag that says it was alone is touched.
LEMMA GoesEffect ==
    ASSUME ActInv, doubt \in [Calls -> BOOLEAN], NEW a \in Activities, NEW r, GoodAct(a, r),
           NEW hit, Goes(a, r, hit)
    PROVE  /\ ActInv'
           /\ \A x \in Activities :
                LET y == IF x = a THEN r ELSE act[x]
                IN  /\ act'[x].pc = y.pc /\ act'[x].call = y.call /\ act'[x].on = y.on
                    /\ act'[x].route = y.route /\ act'[x].todo = y.todo
                    /\ act'[x].rem = y.rem /\ act'[x].peer = y.peer
                    /\ act'[x].alone = (y.alone /\ y.call \notin hit)
           /\ \A c \in Calls : doubt'[c] = (doubt[c] \/ c \in hit)
<1>1. ASSUME NEW x \in Activities, NEW y, GoodAct(x, y), act'[x] = y \/ act'[x] = [y EXCEPT !.alone = FALSE]
      PROVE  /\ act'[x] \in Act /\ GoodAct(x, act'[x])
             /\ act'[x].pc = y.pc /\ act'[x].call = y.call /\ act'[x].on = y.on
             /\ act'[x].route = y.route /\ act'[x].todo = y.todo
             /\ act'[x].rem = y.rem /\ act'[x].peer = y.peer
  BY <1>1 DEF GoodAct, Act
<1>2. ASSUME NEW x \in Activities
      PROVE  LET y == IF x = a THEN r ELSE act[x]
             IN  /\ GoodAct(x, y)
                 /\ act'[x] = IF y.call \in hit THEN [y EXCEPT !.alone = FALSE] ELSE y
  BY <1>2 DEF ActInv, Goes
<1>3. ASSUME NEW x \in Activities
      PROVE  LET y == IF x = a THEN r ELSE act[x]
             IN  /\ act'[x] \in Act /\ GoodAct(x, act'[x])
                 /\ act'[x].pc = y.pc /\ act'[x].call = y.call /\ act'[x].on = y.on
                 /\ act'[x].route = y.route /\ act'[x].todo = y.todo
                 /\ act'[x].rem = y.rem /\ act'[x].peer = y.peer
                 /\ act'[x].alone = (y.alone /\ y.call \notin hit)
  <2> DEFINE y == IF x = a THEN r ELSE act[x]
  <2>1. GoodAct(x, y) /\ act'[x] = IF y.call \in hit THEN [y EXCEPT !.alone = FALSE] ELSE y
    BY <1>2
  <2> HIDE DEF y
  <2>2. y \in Act
    BY <2>1 DEF GoodAct
  <2>3. act'[x].alone = (y.alone /\ y.call \notin hit)
    BY <2>1, <2>2 DEF Act
  <2>4. /\ act'[x] \in Act /\ GoodAct(x, act'[x])
        /\ act'[x].pc = y.pc /\ act'[x].call = y.call /\ act'[x].on = y.on
        /\ act'[x].route = y.route /\ act'[x].todo = y.todo
        /\ act'[x].rem = y.rem /\ act'[x].peer = y.peer
    BY <1>1, <2>1
  <2> QED
    BY <2>3, <2>4 DEF y
<1>4. act' \in [Activities -> Act]
  <2>1. act' = [x \in Activities |-> act'[x]]
    BY DEF Goes
  <2> QED
    BY <1>3, <2>1
<1>5. \A c \in Calls : doubt'[c] = (doubt[c] \/ c \in hit)
  BY DEF Goes
<1> QED
  BY <1>3, <1>4, <1>5 DEF ActInv

\* A call that a step has left in doubt, with every activity on it told so.
LEMMA Spoiled ==
    ASSUME NEW c \in Calls, doubt'[c], (Announced(c) => port[c] = slot[c])',
           \A a \in Activities : Works(a, c)' => ~act'[a].alone
    PROVE  CallInv(c)'
  BY DEF CallInv, RaceInv, SoundInv

\* A call that a step does not concern: the activities on it and its links stay.
LEMMA CallKept ==
    ASSUME NEW c \in Calls, CallInv(c), doubt'[c] = doubt[c],
           Announced(c)' => Announced(c) /\ SameSound(c) /\ slot'[c] = slot[c] /\ port'[c] = port[c]
                            /\ connected'[c] = connected[c] /\ sct'[c] = sct[c],
           \A a \in Activities : Works(a, c)' <=> Works(a, c),
           \A a \in Activities : Works(a, c) =>
              /\ act'[a].alone = act[a].alone /\ act'[a].pc = act[a].pc
              /\ act'[a].on = act[a].on
    PROVE  CallInv(c)'
<1>1. RaceInv(c)'
  BY DEF CallInv, RaceInv
<1>2. SoundInv(c)'
  <2> SUFFICES ASSUME Announced(c)' PROVE SoundInv(c)'
    BY DEF SoundInv
  <2>1. Announced(c) /\ SameSound(c)
    OBVIOUS
  <2>2. slot'[c] = slot[c] /\ port'[c] = port[c] /\ connected'[c] = connected[c]
        /\ sct'[c] = sct[c]
    OBVIOUS
  <2>3. (Heard(c)' <=> Heard(c)) /\ (Hears(c)' <=> Hears(c))
    BY <2>1, <2>2 DEF SameSound, Heard, Hears
  <2> QED
    BY <2>1, <2>2, <2>3 DEF CallInv, SoundInv
<1> QED
  BY <1>1, <1>2 DEF CallInv

\* What is known of every call by itself,
CallsInv == ActInv /\ \A c \in Calls : CallInv(c)

\* A step of a check on call d seen from another call.
LEMMA OtherCall ==
    ASSUME IInv, CallsInv, NEW a \in Activities, NEW d \in Calls, Works(a, d),
           NEW c \in Calls, c # d, NEW hit,
           UNCHANGED <<slot, due, menu, callVars>>,
           c \notin hit /\ HasMedia(c) => SameSound(c),
           doubt'[c] = (doubt[c] \/ c \in hit),
           \A x \in Activities : Works(x, c)' <=> Works(x, c),
           \A x \in Activities : Works(x, c) =>
              /\ act'[x].pc = act[x].pc /\ act'[x].on = act[x].on
              /\ act'[x].alone = (act[x].alone /\ c \notin hit)
    PROVE  CallInv(c)'
<1>1. /\ UNCHANGED <<slot, due, script, active, port, connected, sct>>
      /\ CallInv(c) /\ doubt[c] \in BOOLEAN
  BY DEF callVars, CallsInv, IInv, TypeOK
<1>2. CASE c \in hit
  <2>1. (Announced(c) => port[c] = slot[c])'
    BY <1>1 DEF CallInv, SoundInv, Announced, HasMedia
  <2>2. \A x \in Activities : Works(x, c)' => ~act'[x].alone
    BY <1>2
  <2> QED
    BY <1>2, <2>1, <2>2, Spoiled
<1>3. CASE c \notin hit
  <2>1. Announced(c)' <=> Announced(c)
    BY <1>1 DEF Announced, HasMedia
  <2>2. \A x \in Activities : Works(x, c) =>
           act'[x].pc = act[x].pc /\ act'[x].on = act[x].on /\ act'[x].alone = act[x].alone
    <3>1. \A x \in Activities : act[x].alone \in BOOLEAN
      BY DEF CallsInv, ActInv, Act
    <3> QED
      BY <1>3, <3>1
  <2> QED
    BY <1>1, <1>3, <2>1, <2>2, CallKept DEF Announced
<1> QED
  BY <1>2, <1>3

\* A step of a check that goes on as r, seen from its own call.
LEMMA OwnCall ==
    ASSUME IInv, CallsInv, NEW a \in Activities, NEW c \in Calls, Works(a, c),
           NEW r, GoodAct(a, r), r.pc # "idle", r.call = c, r.alone = act[a].alone,
           NEW hit, Goes(a, r, hit), UNCHANGED <<slot, due, menu, callVars>>,
           Announced(c) /\ r.alone /\ c \notin hit =>
               r.on = connected[c] /\ (r.pc = "fromMain" => Heard(c)')
    PROVE  CallInv(c)'
<1>1. /\ UNCHANGED <<slot, due, script, active, port, connected, sct>>
      /\ CallInv(c) /\ doubt \in [Calls -> BOOLEAN] /\ ActInv
  BY DEF callVars, CallsInv, IInv, TypeOK
<1>2. /\ \A x \in Activities :
            LET y == IF x = a THEN r ELSE act[x]
            IN  /\ act'[x].pc = y.pc /\ act'[x].call = y.call /\ act'[x].on = y.on
                /\ act'[x].alone = (y.alone /\ y.call \notin hit)
      /\ doubt'[c] = (doubt[c] \/ c \in hit)
  BY <1>1, GoesEffect
<1>3. \A x \in Activities : Works(x, c)' <=> Works(x, c)
  BY <1>2 DEF Works, Busy
<1>4. \A x \in Activities : Works(x, c) => act'[x].alone = (act[x].alone /\ c \notin hit)
  BY <1>2 DEF Works, Busy
<1>5. Announced(c)' <=> Announced(c)
  BY <1>1 DEF Announced, HasMedia
<1>6. CASE c \in hit
  <2>1. (Announced(c) => port[c] = slot[c])'
    BY <1>1, <1>5 DEF CallInv, SoundInv
  <2> QED
    BY <1>2, <1>3, <1>4, <1>6, <2>1, Spoiled
<1>7. CASE c \notin hit
  <2>1. RaceInv(c)'
    BY <1>1, <1>2, <1>3, <1>4, <1>7 DEF CallInv, RaceInv
  <2>2. ASSUME Announced(c), NEW x \in Activities, Works(x, c), act[x].alone
        PROVE  x = a
    BY <1>1, <2>2 DEF CallInv, RaceInv
  <2>3. SoundInv(c)'
    BY <1>1, <1>2, <1>3, <1>4, <1>5, <1>7, <2>2 DEF CallInv, SoundInv
  <2> QED
    BY <2>1, <2>3 DEF CallInv
<1> QED
  BY <1>6, <1>7

\* The activities on another call, when one on call d goes on as r.
LEMMA GoesOther ==
    ASSUME ActInv, doubt \in [Calls -> BOOLEAN], NEW a \in Activities, NEW r, GoodAct(a, r),
           NEW hit, Goes(a, r, hit), NEW d, act[a].call = d \/ ~Busy(a), r.call = d,
           NEW c \in Calls, c # d
    PROVE  /\ \A x \in Activities : Works(x, c)' <=> Works(x, c)
           /\ \A x \in Activities : Works(x, c) =>
                /\ act'[x].pc = act[x].pc /\ act'[x].on = act[x].on
                /\ act'[x].alone = (act[x].alone /\ c \notin hit)
           /\ doubt'[c] = (doubt[c] \/ c \in hit)
  BY GoesEffect DEF Works, Busy

\* Each step of a check keeps what is known of every call,
LEMMA TestCalls == ASSUME IInv, CallsInv, NEW a \in Activities, Test(a) PROVE CallsInv'
<1>0. PICK d \in Calls :
      /\ d = act[a].call /\ Works(a, d) /\ GoodAct(a, act[a]) /\ ActInv
      /\ doubt \in [Calls -> BOOLEAN] /\ UNCHANGED <<slot, due, menu, callVars, links>>
  BY DEF Test, Works, Busy, CallsInv, ActInv, GoodAct, IInv, TypeOK
<1>s. \A c \in Calls : SameSound(c)
  BY <1>0 DEF SameSound
<1>1. CASE port[d] = Main
  <2>1. Finishes(a) /\ act[a].pc = "test"
    BY <1>0, <1>1 DEF Test
  <2>2. /\ act' = [act EXCEPT ![a] = Idle(a)]
        /\ doubt' = [doubt EXCEPT ![d] = doubt[d] /\ ~act[a].alone]
    BY <1>0, <2>1 DEF Finishes
  <2>3. GoodAct(a, Idle(a)) /\ Idle(a).pc = "idle"
    BY DEF GoodAct, Idle, Act, Places, Activities
  <2>4. ActInv'
    BY <1>0, <2>2, <2>3 DEF ActInv, GoodAct
  <2>5. ~Works(a, d)' /\ \A c \in Calls : ~Works(a, c)'
    BY <1>0, <2>2, <2>3 DEF ActInv, Works, Busy
  <2>6. \A x \in Activities \ {a} : act'[x] = act[x]
    BY <1>0, <2>2 DEF ActInv
  <2>7. ASSUME NEW c \in Calls, c # d PROVE CallInv(c)'
    <3>1. \A x \in Activities : Works(x, c)' <=> Works(x, c)
      BY <1>0, <2>5, <2>6, <2>7 DEF Works, Busy
    <3>2. doubt'[c] = doubt[c] /\ ~Works(a, c)
      BY <1>0, <2>2, <2>7 DEF Works
    <3>3. \A x \in Activities : Works(x, c) => act'[x] = act[x]
      BY <2>6, <3>2
    <3>4. CallInv(c) /\ (Announced(c)' <=> Announced(c))
      BY <1>0 DEF CallsInv, Announced, HasMedia, callVars
    <3> QED
      BY <1>0, <1>s, <3>1, <3>2, <3>3, <3>4, CallKept DEF callVars
  <2>8. CallInv(d)'
    <3>1. CallInv(d) /\ TypeOK
      BY <1>0 DEF CallsInv, IInv
    <3>2. ~Announced(d)'
      <4>1. Announced(d)' <=> Announced(d)
        BY <1>0 DEF Announced, HasMedia, callVars
      <4>2. Announced(d) => port[d] = slot[d] /\ slot[d] \in Slots
        BY <1>0, <3>1 DEF CallInv, SoundInv, Announced, HasMedia, TypeOK
      <4> QED
        BY <1>1, <4>1, <4>2, Numbers
    <3>3. ASSUME NEW x \in Activities, Works(x, d)'
          PROVE  x # a /\ Works(x, d) /\ act'[x] = act[x] /\ ~act[a].alone /\ doubt'[d] = doubt[d]
      <4>1. x # a /\ act'[x] = act[x] /\ Works(x, d)
        BY <2>5, <2>6, <3>3 DEF Works, Busy
      <4>2. ~act[a].alone
        BY <1>0, <3>1, <4>1 DEF CallInv, RaceInv
      <4> QED
        BY <1>0, <2>2, <4>1, <4>2
    <3>4. RaceInv(d)'
      BY <3>1, <3>3 DEF CallInv, RaceInv
    <3> QED
      BY <3>2, <3>4 DEF CallInv, SoundInv
  <2> QED
    BY <2>4, <2>7, <2>8 DEF CallsInv
<1>2. CASE port[d] # Main
  <2> DEFINE r0 == act[a]
             r == [r0 EXCEPT !.pc = "route", !.on = connected[d], !.route = JoinsOthers(d),
                             !.todo = {e \in Calls \ {d} : Live(e)}]
  <2>1. Goes(a, r, {})
    BY <1>0, <1>2 DEF Test
  <2>2. connected[d] \in BOOLEAN /\ JoinsOthers(d) \in BOOLEAN
    BY <1>0 DEF IInv, TypeOK, JoinsOthers
  <2>3. /\ GoodAct(a, r) /\ r.pc = "route" /\ r.call = d /\ r.alone = act[a].alone
        /\ r.on = connected[d]
    <3>1. {e \in Calls \ {d} : Live(e)} \in SUBSET Calls
      OBVIOUS
    <3> QED
      BY <1>0, <2>2, <3>1 DEF GoodAct, Act, Places
  <2> HIDE DEF r
  <2>4. ActInv'
    BY <1>0, <2>1, <2>3, GoesEffect
  <2>5. CallInv(d)'
    BY <1>0, <2>1, <2>3, OwnCall
  <2>6. ASSUME NEW c \in Calls, c # d PROVE CallInv(c)'
    BY <1>0, <1>s, <2>1, <2>3, <2>6, GoesOther, OtherCall
  <2> QED
    BY <2>4, <2>5, <2>6 DEF CallsInv
<1> QED
  BY <1>1, <1>2

\* whether it looks at the next call, switches its own port or another's,
LEMMA GoesOnCalls ==
    ASSUME IInv, CallsInv, NEW a \in Activities, NEW r, GoodAct(a, r), Busy(a),
           r.pc \in {"route", "out", "in", "toMain", "fromMain"},
           act[a].pc \in {"route", "out", "in", "toMain"},
           NEW d \in Calls, d = act[a].call, r.call = d, r.alone = act[a].alone,
           r.on = act[a].on,
           NEW hit, Goes(a, r, hit), UNCHANGED <<slot, due, menu, callVars>>,
           \A c \in Calls : c # d /\ c \notin hit /\ HasMedia(c) => SameSound(c),
           r.pc = "fromMain" /\ Announced(d) /\ r.alone /\ d \notin hit => Heard(d)'
    PROVE  CallsInv'
<1>0. /\ Works(a, d) /\ ActInv /\ CallInv(d) /\ doubt \in [Calls -> BOOLEAN]
  BY DEF Works, Busy, CallsInv, ActInv, GoodAct, IInv, TypeOK
<1>1. ActInv'
  BY <1>0, GoesEffect
<1>2. Announced(d) /\ r.alone => r.on = connected[d]
  BY <1>0 DEF CallInv, SoundInv
<1>3. CallInv(d)'
  BY <1>0, <1>2, OwnCall
<1>4. ASSUME NEW c \in Calls, c # d PROVE CallInv(c)'
  BY <1>0, <1>4, GoesOther, OtherCall
<1> QED
  BY <1>1, <1>3, <1>4 DEF CallsInv

\* A step of a check reads one port anew, and goes on,
LEMMA RouteCalls == ASSUME IInv, CallsInv, NEW a \in Activities, Route(a) PROVE CallsInv'
<1>0. PICK d \in Calls : d = act[a].call
  BY DEF Route, CallsInv, ActInv, GoodAct
<1>1. /\ GoodAct(a, act[a]) /\ Busy(a) /\ act[a].pc = "route" /\ act[a].call = d
      /\ UNCHANGED <<slot, due, menu, callVars>> /\ \A c \in Calls : SameSound(c)
  BY <1>0 DEF Route, CallsInv, ActInv, Busy, SameSound
<1>2. CASE \E e \in act[a].todo :
             Goes(a, [act[a] EXCEPT !.todo = @ \ {e},
                                    !.pc = IF HasMedia(e) THEN "out" ELSE "route",
                                    !.rem = slot[e], !.peer = e], {})
  <2>1. PICK e \in act[a].todo :
             Goes(a, [act[a] EXCEPT !.todo = @ \ {e},
                                    !.pc = IF HasMedia(e) THEN "out" ELSE "route",
                                    !.rem = slot[e], !.peer = e], {})
    BY <1>2
  <2> DEFINE r == [act[a] EXCEPT !.todo = @ \ {e},
                                 !.pc = IF HasMedia(e) THEN "out" ELSE "route",
                                 !.rem = slot[e], !.peer = e]
  <2>2. e \in Calls /\ e \in Activities /\ slot[e] \in Slots \cup {None}
    BY <1>1 DEF GoodAct, Act, IInv, TypeOK, Activities
  <2>3. /\ GoodAct(a, r) /\ r.pc \in {"route", "out"} /\ r.call = d
        /\ r.alone = act[a].alone /\ r.on = act[a].on
    BY <1>1, <2>2 DEF GoodAct, Act, Places, HasMedia
  <2>4. Goes(a, r, {})
    BY <2>1
  <2> HIDE DEF r
  <2> QED
    BY <1>0, <1>1, <2>3, <2>4, GoesOnCalls
<1>3. CASE Goes(a, [act[a] EXCEPT !.pc = "toMain", !.route = FALSE], {})
  <2> DEFINE r == [act[a] EXCEPT !.pc = "toMain", !.route = FALSE]
  <2>1. /\ GoodAct(a, r) /\ r.pc = "toMain" /\ r.call = d
        /\ r.alone = act[a].alone /\ r.on = act[a].on
    BY <1>1 DEF GoodAct, Act, Places
  <2>2. Goes(a, r, {})
    BY <1>3
  <2> HIDE DEF r
  <2> QED
    BY <1>0, <1>1, <2>1, <2>2, GoesOnCalls
<1> QED
  BY <1>2, <1>3 DEF Route

\* switches a link with another call or with the sound device,
LEMMA SwitchCalls ==
    ASSUME IInv, CallsInv, NEW a \in Activities, Out(a) \/ In(a) \/ ToMain(a) PROVE CallsInv'
<1>0. PICK d \in Calls : d = act[a].call
  BY DEF Out, In, ToMain, CallsInv, ActInv, GoodAct
<1>1. /\ GoodAct(a, act[a]) /\ Busy(a) /\ act[a].pc \in {"out", "in", "toMain"}
      /\ UNCHANGED <<slot, due, menu, callVars>> /\ act[a].call = d
      /\ act[a] \in Act
  BY <1>0 DEF Out, In, ToMain, CallsInv, ActInv, GoodAct, Busy
<1>2. port[d] \in Slots \cup {Main} /\ TypeOK /\ SlotsDiffer
  BY DEF IInv, TypeOK
<1>3. CASE Out(a) \/ In(a)
  <2> DEFINE e == act[a].peer
             r == IF act[a].pc = "out" THEN [act[a] EXCEPT !.pc = "in"]
                  ELSE [act[a] EXCEPT !.pc = "route", !.rem = None, !.peer = d]
             source == IF act[a].pc = "out" THEN port[d] ELSE act[a].rem
             sink == IF act[a].pc = "out" THEN act[a].rem ELSE port[d]
  <2>1. /\ links' = Switch(source, sink, act[a].route)
        /\ Goes(a, r, Hit(d, e, source, sink)) /\ act[a].pc \in {"out", "in"}
    <3>1. CASE Out(a)
      BY <1>0, <3>1 DEF Out
    <3>2. CASE In(a)
      BY <1>0, <3>2 DEF In
    <3> QED
      BY <1>3, <3>1, <3>2
  <2>2. e \in Calls /\ act[a].rem \in Slots /\ act[a].route \in BOOLEAN
    BY <1>1, <2>1 DEF GoodAct, Act
  <2>3. source \in Slots \cup {Main} /\ sink \in Slots \cup {Main}
    BY <1>2, <2>2
  <2>4. /\ GoodAct(a, r) /\ r.pc \in {"in", "route"} /\ r.call = d
        /\ r.alone = act[a].alone /\ r.on = act[a].on
    BY <1>1, <2>1, <2>2 DEF GoodAct, Act, Places, Activities
  <2> HIDE DEF r, source, sink
  <2>5. ASSUME NEW c \in Calls, c # d, c \notin Hit(d, e, source, sink), HasMedia(c)
        PROVE  SameSound(c)
    BY <1>2, <2>1, <2>2, <2>3, <2>5, OthersLinks
  <2> HIDE DEF e
  <2> QED
    BY <1>0, <1>1, <2>1, <2>4, <2>5, GoesOnCalls
<1>4. CASE ToMain(a)
  <2> DEFINE r == [act[a] EXCEPT !.pc = "fromMain"]
  <2>1. /\ links' = Switch(port[d], Main, act[a].on) /\ act[a].on \in BOOLEAN
        /\ Goes(a, r, Hit(d, d, port[d], Main)) /\ act[a].pc = "toMain"
    BY <1>0, <1>1, <1>4 DEF ToMain, Act
  <2>2. /\ GoodAct(a, r) /\ r.pc = "fromMain" /\ r.call = d
        /\ r.alone = act[a].alone /\ r.on = act[a].on
    BY <1>1 DEF GoodAct, Act, Places
  <2>3. ASSUME NEW c \in Calls, c # d, c \notin Hit(d, d, port[d], Main), HasMedia(c)
        PROVE  SameSound(c)
    BY <1>2, <2>1, <2>3, OthersLinks
  <2>4. ASSUME Announced(d), act[a].alone
        PROVE  Heard(d)'
    <3>1. port[d] = slot[d] /\ act[a].on = connected[d] /\ slot[d] \in Slots
      BY <1>1, <1>2, <2>1, <2>4, Numbers
      DEF CallsInv, CallInv, SoundInv, Works, Announced, HasMedia, TypeOK
    <3>2. Exists(slot[d]) /\ Exists(Main) /\ Exists(Monitor)
      BY <2>4 DEF Exists, Announced, HasMedia
    <3>3. (<<slot[d], Main>> \in links' <=> connected[d]) /\ (<<slot[d], Monitor>> \in links' <=> connected[d])
      BY <2>1, <3>1, <3>2, SwitchEffect
    <3> QED
      BY <1>1, <3>3 DEF Heard, callVars
  <2> HIDE DEF r
  <2> QED
    BY <1>0, <1>1, <2>1, <2>2, <2>3, <2>4, GoesOnCalls
<1> QED
  BY <1>3, <1>4

\* or makes the last change and returns.
LEMMA FromMainCalls == ASSUME IInv, CallsInv, NEW a \in Activities, FromMain(a) PROVE CallsInv'
<1>0. PICK d \in Calls : d = act[a].call
  BY DEF FromMain, CallsInv, ActInv, GoodAct
<1> DEFINE hit == Hit(d, d, Main, port[d])
<1>1. /\ GoodAct(a, act[a]) /\ Works(a, d) /\ act[a].pc = "fromMain" /\ act[a] \in Act /\ ActInv
      /\ UNCHANGED <<slot, due, menu, callVars>>
  BY <1>0 DEF FromMain, CallsInv, ActInv, GoodAct, Busy, Works
<1>2. port[d] \in Slots \cup {Main} /\ TypeOK /\ SlotsDiffer
  BY DEF IInv, TypeOK
<1>3. /\ links' = Switch(Main, port[d], act[a].on \/ "listen" \in sct[d])
      /\ act' = [x \in Activities |->
                   IF x = a THEN Idle(a)
                   ELSE IF act[x].call \in hit THEN [act[x] EXCEPT !.alone = FALSE]
                   ELSE act[x]]
      /\ doubt' = [c \in Calls |-> c \in hit \/ (doubt[c] /\ ~(c = d /\ act[a].alone))]
  BY <1>0 DEF FromMain
<1> HIDE DEF hit
<1>4. GoodAct(a, Idle(a)) /\ Idle(a).pc = "idle"
  BY DEF GoodAct, Idle, Act, Places, Activities
<1>5. ASSUME NEW x \in Activities, x # a
      PROVE  /\ act'[x] \in Act /\ GoodAct(x, act'[x])
             /\ act'[x].pc = act[x].pc /\ act'[x].call = act[x].call /\ act'[x].on = act[x].on
             /\ act'[x].alone = (act[x].alone /\ act[x].call \notin hit)
  <2>1. GoodAct(x, act[x]) /\ act[x] \in Act
    BY <1>1 DEF ActInv, GoodAct
  <2>2. act'[x] = IF act[x].call \in hit THEN [act[x] EXCEPT !.alone = FALSE] ELSE act[x]
    BY <1>3, <1>5
  <2> QED
    BY <2>1, <2>2 DEF GoodAct, Act
<1>6. ActInv'
  <2>1. act'[a] = Idle(a)
    BY <1>3
  <2>2. \A x \in Activities : act'[x] \in Act /\ GoodAct(x, act'[x])
    BY <1>4, <1>5, <2>1 DEF GoodAct
  <2>3. act' = [x \in Activities |-> act'[x]]
    BY <1>3
  <2> QED
    BY <2>2, <2>3 DEF ActInv
<1>7. \A c \in Calls : ~Works(a, c)'
  BY <1>3, <1>4 DEF Works, Busy
<1>8. \A c \in Calls, x \in Activities \ {a} : Works(x, c)' <=> Works(x, c)
  BY <1>5 DEF Works, Busy
<1>9. ASSUME NEW c \in Calls, c # d PROVE CallInv(c)'
  <2>1. \A x \in Activities : Works(x, c)' <=> Works(x, c)
    BY <1>0, <1>7, <1>8, <1>9 DEF Works
  <2>2. \A x \in Activities : Works(x, c) =>
           /\ act'[x].pc = act[x].pc /\ act'[x].on = act[x].on
           /\ act'[x].alone = (act[x].alone /\ c \notin hit)
    BY <1>0, <1>5, <1>9 DEF Works
  <2>3. doubt'[c] = (doubt[c] \/ c \in hit)
    BY <1>3, <1>9, <1>2 DEF TypeOK
  <2>4. c \notin hit /\ HasMedia(c) => SameSound(c)
    <3>1. Main \in Slots \cup {Main} /\ (act[a].on \/ "listen" \in sct[d]) \in BOOLEAN
      OBVIOUS
    <3> QED
      BY <1>2, <1>3, <1>9, <3>1, OthersLinks DEF hit
  <2> QED
    BY <1>1, <1>9, <2>1, <2>2, <2>3, <2>4, OtherCall
<1>10. CallInv(d)'
  <2>1. CallInv(d) /\ (Announced(d)' <=> Announced(d))
    BY <1>1 DEF CallsInv, Announced, HasMedia, callVars
  <2>2. ASSUME NEW x \in Activities, Works(x, d)'
        PROVE  /\ x # a /\ Works(x, d) /\ ~act[a].alone /\ ~act'[x].alone
               /\ doubt'[d]
    <3>1. x # a /\ Works(x, d)
      BY <1>7, <1>8, <2>2
    <3>2. ~act[a].alone /\ ~act[x].alone /\ doubt[d]
      BY <1>1, <2>1, <3>1 DEF CallInv, RaceInv
    <3> QED
      BY <1>3, <1>5, <3>1, <3>2
  <2>3. RaceInv(d)'
    BY <2>2 DEF RaceInv
  <2>4. SoundInv(d)'
    <3> SUFFICES ASSUME Announced(d)' PROVE SoundInv(d)'
      BY DEF SoundInv
    <3>1. port[d] = slot[d] /\ slot[d] \in Slots /\ Announced(d)
      BY <1>2, <2>1 DEF CallInv, SoundInv, Announced, HasMedia, TypeOK
    <3>2. /\ slot'[d] = slot[d] /\ port'[d] = port[d] /\ connected'[d] = connected[d]
          /\ sct'[d] = sct[d]
      BY <1>1 DEF callVars
    <3>3. ASSUME ~doubt'[d] PROVE Heard(d)' /\ Hears(d)'
      <4>1. act[a].alone
        BY <1>1, <1>3, <2>1, <3>3 DEF CallInv, RaceInv, Act
      <4>2. act[a].on = connected[d] /\ Heard(d)
        BY <1>1, <2>1, <3>1, <4>1 DEF CallInv, SoundInv
      <4>3. Exists(slot[d]) /\ Exists(Main) /\ Exists(Monitor)
        BY <3>1 DEF Exists, Announced, HasMedia
      <4>4. (act[a].on \/ "listen" \in sct[d]) \in BOOLEAN
        OBVIOUS
      <4>5. /\ <<slot[d], Main>> \in links' <=> <<slot[d], Main>> \in links
            /\ <<slot[d], Monitor>> \in links' <=> <<slot[d], Monitor>> \in links
            /\ <<Main, slot[d]>> \in links' <=> act[a].on \/ "listen" \in sct[d]
        BY <1>3, <3>1, <4>3, <4>4, SwitchEffect, Numbers
      <4> QED
        BY <3>2, <4>2, <4>5 DEF Heard, Hears
    <3> QED
      BY <2>2, <3>1, <3>2, <3>3 DEF SoundInv
  <2> QED
    BY <2>3, <2>4 DEF CallInv
<1> QED
  BY <1>6, <1>9, <1>10 DEF CallsInv

-----------------------------------------------------------------------------
(* Who hears whom.                                                         *)

\* The check r has still to switch a link with call d: k tells the one to d ("out")
\* from the one from d ("in").
Owes(r, d, k) ==
    \/ r.pc = "test"
    \/ r.pc \in {"route", "out", "in"} /\ d \in r.todo
    \/ r.peer = d /\ (r.pc = "out" \/ (r.pc = "in" /\ k = "in"))

\* The link k between c and d is as c asked for when it last had a say.
Sure(c, d, k) ==
    IF \A a \in Activities : ~Works(a, c)
    THEN ~doubt[c]
    ELSE \E a \in Activities : Works(a, c) /\ act[a].alone /\ ~Owes(act[a], d, k)

Linked(c, d) == <<slot[c], slot[d]>> \in links
SameLink(c, d) == <<slot[c], slot[d]>> \in links' <=> <<slot[c], slot[d]>> \in links
BothSure(c, d) == Announced(c) /\ Announced(d) /\ Sure(c, d, "out") /\ Sure(d, c, "in")

\* A link of which both calls are sure is as one of them wants it.
PairInv(c, d) == BothSure(c, d) =>
    /\ Linked(c, d) => JoinsOthers(c) \/ JoinsOthers(d)
    /\ JoinsOthers(c) /\ JoinsOthers(d) => Linked(c, d)

\* A check that is alone switches as the call wants it, and never its own port.
JoinInv(c) == Announced(c) =>
    \A a \in Activities :
        Works(a, c) /\ act[a].alone /\ act[a].pc \in {"route", "out", "in"} =>
            /\ act[a].route <=> JoinsOthers(c)
            /\ c \notin act[a].todo
            /\ act[a].pc # "route" => act[a].rem # slot[c]

\* and of every two calls.
LinksInv == /\ \A c \in Calls : JoinInv(c)
        /\ \A c, d \in Calls : c # d => PairInv(c, d)

\* A step that neither finishes nor starts a check on c makes c no surer.
LEMMA SureKept ==
    ASSUME NEW c \in Calls, NEW d \in Calls, NEW k,
           \A x \in Activities : Works(x, c)' <=> Works(x, c),
           \A x \in Activities : Works(x, c) /\ act'[x].alone =>
              act[x].alone /\ (Owes(act[x], d, k) => Owes(act'[x], d, k)),
           doubt[c] => doubt'[c], Sure(c, d, k)'
    PROVE  Sure(c, d, k)
  BY DEF Sure, Owes

\* A call in doubt, all of whose activities know it, is not sure of anything.
LEMMA NotSure ==
    ASSUME NEW c \in Calls, NEW d \in Calls, NEW k, doubt'[c],
           \A x \in Activities : Works(x, c)' => ~act'[x].alone
    PROVE  ~Sure(c, d, k)'
  BY DEF Sure

\* A pair of calls that a step does not concern.
LEMMA PairKept ==
    ASSUME NEW c \in Calls, NEW d \in Calls, PairInv(c, d),
           BothSure(c, d)' => BothSure(c, d) /\ SameLink(c, d)
                              /\ slot'[c] = slot[c] /\ slot'[d] = slot[d]
                              /\ connected'[c] = connected[c] /\ connected'[d] = connected[d]
                              /\ sct'[c] = sct[c] /\ sct'[d] = sct[d]
    PROVE  PairInv(c, d)'
  BY DEF PairInv, SameLink, Linked, JoinsOthers

\* What switching one link does to another.
LEMMA LinkKept ==
    ASSUME TypeOK, NEW c \in Calls, NEW d \in Calls, HasMedia(c), HasMedia(d),
           NEW source, NEW sink, NEW on \in BOOLEAN, links' = Switch(source, sink, on)
    PROVE  /\ ~(source = slot[c] /\ sink = slot[d]) => SameLink(c, d)
           /\ source = slot[c] /\ sink = slot[d] => (<<slot[c], slot[d]>> \in links' <=> on)
<1>1. Exists(slot[c]) /\ Exists(slot[d]) /\ slot[d] # Monitor
  BY Numbers DEF Exists, HasMedia, TypeOK
<1> QED
  BY <1>1, SwitchEffect DEF SameLink

\* The port of an announced call.
LEMMA AnnouncedPort ==
    ASSUME IInv, CallsInv, NEW c \in Calls, Announced(c)
    PROVE  /\ HasMedia(c) /\ port[c] = slot[c] /\ slot[c] \in Slots /\ Live(c)
           /\ \A d \in Calls : d # c => slot[d] # slot[c]
  BY DEF CallsInv, CallInv, SoundInv, Announced, HasMedia, IInv, TypeOK, SlotsDiffer, Live

\* What a check on e by a, which goes on as r, may do to the link of c to d: one of a
\* call that is alone either leaves the link as it was, when it had switched it before,
\* or has it as the call wants it.
Answers(a, e, r, c, d) ==
    /\ e \notin {c, d} => SameLink(c, d)
    /\ e = c /\ act[a].alone /\ ~Owes(r, d, "out") =>
         \/ ~Owes(act[a], d, "out") /\ SameLink(c, d)
         \/ <<slot[c], slot[d]>> \in links' <=> JoinsOthers(c)
    /\ e = d /\ act[a].alone /\ ~Owes(r, c, "in") =>
         \/ ~Owes(act[a], c, "in") /\ SameLink(c, d)
         \/ <<slot[c], slot[d]>> \in links' <=> JoinsOthers(d)

\* A check that goes on as r, seen from the link of c to d.
LEMMA PairGoes ==
    ASSUME IInv, CallsInv, LinksInv, NEW a \in Activities, NEW e \in Calls, Works(a, e),
           NEW r, GoodAct(a, r), r.pc # "idle", r.call = e, r.alone = act[a].alone,
           NEW hit, Goes(a, r, hit), UNCHANGED <<slot, due, menu, callVars>>,
           NEW c \in Calls, NEW d \in Calls, c # d,
           Announced(c) /\ Announced(d) /\ c \notin hit /\ d \notin hit => Answers(a, e, r, c, d)
    PROVE  PairInv(c, d)'
<1> SUFFICES ASSUME BothSure(c, d)' PROVE PairInv(c, d)'
  BY DEF PairInv
<1>1. /\ ActInv /\ doubt \in [Calls -> BOOLEAN] /\ CallInv(c) /\ CallInv(d) /\ PairInv(c, d)
      /\ act[a].call = e /\ Busy(a)
      /\ UNCHANGED <<slot, due, script, active, port, connected, sct>>
  BY DEF CallsInv, LinksInv, IInv, TypeOK, Works, callVars
<1>2. /\ \A x \in Activities :
            LET y == IF x = a THEN r ELSE act[x]
            IN  /\ act'[x].pc = y.pc /\ act'[x].call = y.call /\ act'[x].on = y.on
                /\ act'[x].alone = (y.alone /\ y.call \notin hit)
                /\ act'[x].todo = y.todo /\ act'[x].peer = y.peer
      /\ \A b \in Calls : doubt'[b] = (doubt[b] \/ b \in hit)
  BY <1>1, GoesEffect
<1>3. \A x \in Activities, b \in Calls : Works(x, b)' <=> Works(x, b)
  BY <1>1, <1>2 DEF Works, Busy
<1>4. Announced(c) /\ Announced(d)
  BY <1>1 DEF BothSure, Announced, HasMedia
<1>5. ASSUME NEW b \in {c, d} PROVE b \notin hit
  <2> SUFFICES ASSUME b \in hit PROVE FALSE
    OBVIOUS
  <2>1. doubt'[b]
    BY <1>2
  <2>2. ASSUME NEW x \in Activities, Works(x, b)' PROVE ~act'[x].alone
    BY <1>2, <2>2 DEF Works
  <2>3. ~Sure(b, c, "in")' /\ ~Sure(b, d, "out")'
    BY <2>1, <2>2, NotSure
  <2> QED
    BY <2>3 DEF BothSure
<1>6. ASSUME NEW b \in {c, d}, b # e, NEW f \in Calls, NEW k, Sure(b, f, k)' PROVE Sure(b, f, k)
  <2>1. \A x \in Activities : Works(x, b) => x # a
    BY <1>1, <1>6 DEF Works
  <2>2. \A x \in Activities : Works(x, b) /\ act'[x].alone =>
           act[x].alone /\ (Owes(act[x], f, k) => Owes(act'[x], f, k))
    BY <1>2, <2>1 DEF Owes
  <2>3. doubt[b] => doubt'[b]
    BY <1>2
  <2> QED
    BY <1>3, <1>6, <2>2, <2>3, SureKept
<1>7. ASSUME NEW b \in {c, d}, b = e, NEW f \in Calls, NEW k, Sure(b, f, k)'
      PROVE  /\ act[a].alone /\ ~Owes(r, f, k)
             /\ ~Owes(act[a], f, k) => Sure(b, f, k)
  <2>1. Works(a, b) /\ Works(a, b)'
    BY <1>3, <1>7
  <2>2. PICK x \in Activities : Works(x, b)' /\ act'[x].alone /\ ~Owes(act'[x], f, k)
    BY <1>7, <2>1 DEF Sure, Owes
  <2>3. act[x].alone
    BY <1>2, <2>2
  <2>4. x = a
    BY <1>1, <1>3, <2>1, <2>2, <2>3 DEF CallInv, RaceInv
  <2>5. act[a].alone /\ ~Owes(r, f, k)
    BY <1>2, <2>2, <2>3, <2>4 DEF Owes
  <2> QED
    BY <2>1, <2>5 DEF Sure
<1>8. Sure(c, d, "out")' /\ Sure(d, c, "in")'
  BY DEF BothSure
<1>9. CASE e \notin {c, d}
  <2>1. BothSure(c, d) /\ SameLink(c, d)
    BY <1>4, <1>5, <1>6, <1>8, <1>9 DEF BothSure, Answers
  <2> QED
    BY <1>1, <2>1, PairKept
<1>10. CASE e = c
  <2>1. act[a].alone /\ ~Owes(r, d, "out") /\ (~Owes(act[a], d, "out") => Sure(c, d, "out"))
    BY <1>7, <1>8, <1>10
  <2>2. Sure(d, c, "in")
    BY <1>6, <1>8, <1>10
  <2>3. CASE ~Owes(act[a], d, "out") /\ SameLink(c, d)
    BY <1>1, <1>4, <2>1, <2>2, <2>3, PairKept DEF BothSure
  <2>4. CASE <<slot[c], slot[d]>> \in links' <=> JoinsOthers(c)
    BY <1>1, <2>4 DEF PairInv, Linked, JoinsOthers
  <2> QED
    BY <1>4, <1>5, <1>10, <2>1, <2>3, <2>4 DEF Answers
<1>11. CASE e = d
  <2>1. act[a].alone /\ ~Owes(r, c, "in") /\ (~Owes(act[a], c, "in") => Sure(d, c, "in"))
    BY <1>7, <1>8, <1>11
  <2>2. Sure(c, d, "out")
    BY <1>6, <1>8, <1>11
  <2>3. CASE ~Owes(act[a], c, "in") /\ SameLink(c, d)
    BY <1>1, <1>4, <2>1, <2>2, <2>3, PairKept DEF BothSure
  <2>4. CASE <<slot[c], slot[d]>> \in links' <=> JoinsOthers(d)
    BY <1>1, <2>4 DEF PairInv, Linked, JoinsOthers
  <2> QED
    BY <1>4, <1>5, <1>11, <2>1, <2>3, <2>4 DEF Answers
<1> QED
  BY <1>9, <1>10, <1>11

\* What a check that goes on as r knows of its own call, and of the others.
LEMMA JoinGoes ==
    ASSUME IInv, CallsInv, LinksInv, NEW a \in Activities, NEW e \in Calls, Works(a, e),
           NEW r, GoodAct(a, r), r.call = e, r.alone = act[a].alone,
           NEW hit, Goes(a, r, hit), UNCHANGED <<slot, due, menu, callVars>>,
           Announced(e) /\ act[a].alone /\ r.pc \in {"route", "out", "in"} =>
              /\ r.route <=> JoinsOthers(e)
              /\ e \notin r.todo
              /\ r.pc # "route" => r.rem # slot[e],
           NEW c \in Calls
    PROVE  JoinInv(c)'
<1>1. /\ ActInv /\ doubt \in [Calls -> BOOLEAN] /\ JoinInv(c) /\ act[a].call = e /\ Busy(a)
      /\ UNCHANGED <<slot, due, script, active, port, connected, sct>>
  BY DEF CallsInv, LinksInv, IInv, TypeOK, Works, callVars
<1>2. \A x \in Activities :
         LET y == IF x = a THEN r ELSE act[x]
         IN  /\ act'[x].pc = y.pc /\ act'[x].call = y.call
             /\ act'[x].alone = (y.alone /\ y.call \notin hit)
             /\ act'[x].route = y.route /\ act'[x].rem = y.rem /\ act'[x].todo = y.todo
  BY <1>1, GoesEffect
<1> SUFFICES ASSUME Announced(c)', NEW x \in Activities, Works(x, c)', act'[x].alone,
                    act'[x].pc \in {"route", "out", "in"}
             PROVE  /\ act'[x].route <=> JoinsOthers(c)'
                    /\ c \notin act'[x].todo
                    /\ act'[x].pc # "route" => act'[x].rem # slot'[c]
  BY DEF JoinInv
<1>3. Announced(c) /\ (JoinsOthers(c)' <=> JoinsOthers(c)) /\ slot'[c] = slot[c]
  BY <1>1 DEF Announced, HasMedia, JoinsOthers
<1>4. CASE x = a
  <2>1. c = e /\ act[a].alone
    BY <1>2, <1>4 DEF Works
  <2> QED
    BY <1>2, <1>3, <1>4, <2>1
<1>5. CASE x # a
  <2>1. Works(x, c) /\ act[x].alone /\ act[x].pc \in {"route", "out", "in"}
    BY <1>2, <1>5 DEF Works, Busy
  <2> QED
    BY <1>1, <1>2, <1>3, <1>5, <2>1 DEF JoinInv
<1> QED
  BY <1>4, <1>5

\* Each step of a check: it reads the list of calls,
LEMMA TestPairs == ASSUME IInv, CallsInv, LinksInv, NEW a \in Activities, Test(a) PROVE LinksInv'
<1>0. PICK e \in Calls : e = act[a].call
  BY DEF Test, CallsInv, ActInv, GoodAct
<1>1. /\ Works(a, e) /\ GoodAct(a, act[a]) /\ act[a].pc = "test" /\ ActInv /\ CallInv(e)
      /\ doubt \in [Calls -> BOOLEAN] /\ UNCHANGED <<slot, due, menu, callVars, links>>
  BY <1>0 DEF Test, Works, Busy, CallsInv, ActInv, GoodAct, IInv, TypeOK
<1>2. \A c, d \in Calls : SameLink(c, d)
  BY <1>1 DEF SameLink
<1>3. CASE port[e] = Main
  <2>1. /\ act' = [act EXCEPT ![a] = Idle(a)]
        /\ doubt' = [doubt EXCEPT ![e] = doubt[e] /\ ~act[a].alone]
    BY <1>0, <1>3 DEF Test, Finishes
  <2>2. Idle(a).pc = "idle"
    BY DEF Idle
  <2>3. ~Announced(e)'
    <3>1. Announced(e)' <=> Announced(e)
      BY <1>1 DEF Announced, HasMedia, callVars
    <3> QED
      BY <1>3, <3>1, AnnouncedPort, Numbers
  <2>4. ASSUME NEW c \in Calls, c # e
        PROVE  /\ doubt'[c] = doubt[c]
               /\ \A x \in Activities : Works(x, c)' <=> Works(x, c)
               /\ \A x \in Activities : Works(x, c) => act'[x] = act[x]
    BY <1>0, <1>1, <2>1, <2>2, <2>4 DEF Works, Busy, ActInv
  <2>5. ASSUME NEW c \in Calls PROVE JoinInv(c)'
    <3>1. CASE c = e
      BY <2>3, <3>1 DEF JoinInv
    <3>2. CASE c # e
      BY <1>1, <2>4, <3>2 DEF LinksInv, JoinInv, Announced, HasMedia, JoinsOthers, callVars
    <3> QED
      BY <3>1, <3>2
  <2>6. ASSUME NEW c \in Calls, NEW d \in Calls, c # d PROVE PairInv(c, d)'
    <3> SUFFICES ASSUME BothSure(c, d)' PROVE PairInv(c, d)'
      BY DEF PairInv
    <3>1. c # e /\ d # e
      BY <2>3 DEF BothSure
    <3>2. Sure(c, d, "out") /\ Sure(d, c, "in")
      BY <2>4, <3>1, SureKept DEF BothSure
    <3>3. Announced(c) /\ Announced(d)
      BY <1>1 DEF BothSure, Announced, HasMedia, callVars
    <3> QED
      BY <1>1, <1>2, <2>6, <3>2, <3>3, PairKept DEF BothSure, callVars, LinksInv
  <2> QED
    BY <2>5, <2>6 DEF LinksInv
<1>4. CASE port[e] # Main
  <2> DEFINE r0 == act[a]
             others == {d \in Calls \ {e} : Live(d)}
             r == [r0 EXCEPT !.pc = "route", !.on = connected[e], !.route = JoinsOthers(e),
                             !.todo = others]
  <2>1. Goes(a, r, {})
    BY <1>0, <1>4 DEF Test
  <2>2. connected[e] \in BOOLEAN /\ JoinsOthers(e) \in BOOLEAN
    BY DEF IInv, TypeOK, JoinsOthers
  <2>3. /\ GoodAct(a, r) /\ r.pc = "route" /\ r.call = e /\ r.alone = act[a].alone
        /\ r.route = JoinsOthers(e) /\ r.todo = others
    <3>1. others \in SUBSET Calls
      OBVIOUS
    <3> HIDE DEF others
    <3>2. r0 \in Act /\ r0.call = e /\ (a \in Calls => a = e)
      BY <1>1 DEF GoodAct, Works
    <3>3. /\ r \in Act /\ r.pc = "route" /\ r.call = e /\ r.alone = act[a].alone
          /\ r.route = JoinsOthers(e) /\ r.todo = others
      BY <2>2, <3>1, <3>2 DEF Act, Places
    <3> QED
      BY <3>2, <3>3 DEF GoodAct
  <2> HIDE DEF r
  <2>4. ASSUME NEW c \in Calls PROVE JoinInv(c)'
    BY <1>1, <2>1, <2>3, JoinGoes
  <2>5. \A d \in Calls : d # e /\ Announced(d) => Owes(r, d, "out") /\ Owes(r, d, "in")
    BY <2>3, AnnouncedPort DEF Owes
  <2>6. ASSUME NEW c \in Calls, NEW d \in Calls, c # d PROVE PairInv(c, d)'
    <3>1. Announced(c) /\ Announced(d) => Answers(a, e, r, c, d)
      BY <1>2, <2>5, <2>6 DEF Answers
    <3>2. r.pc # "idle"
      BY <2>3
    <3> QED
      BY <1>1, <2>1, <2>3, <2>6, <3>1, <3>2, PairGoes
  <2> QED
    BY <2>4, <2>6 DEF LinksInv
<1> QED
  BY <1>3, <1>4

\* takes up the next call or goes on to the sound device,
LEMMA RoutePairs == ASSUME IInv, CallsInv, LinksInv, NEW a \in Activities, Route(a) PROVE LinksInv'
<1>0. PICK e \in Calls : e = act[a].call
  BY DEF Route, CallsInv, ActInv, GoodAct
<1>1. /\ Works(a, e) /\ GoodAct(a, act[a]) /\ act[a].pc = "route" /\ act[a] \in Act
      /\ UNCHANGED <<slot, due, menu, callVars, links>> /\ act[a].call = e
      /\ \A c, d \in Calls : SameLink(c, d)
  BY <1>0 DEF Route, CallsInv, ActInv, Busy, Works, SameLink
<1>2. Announced(e) /\ act[a].alone => (act[a].route <=> JoinsOthers(e)) /\ e \notin act[a].todo
  BY <1>1 DEF LinksInv, JoinInv
<1>3. CASE \E f \in act[a].todo :
             Goes(a, [act[a] EXCEPT !.todo = @ \ {f},
                                    !.pc = IF HasMedia(f) THEN "out" ELSE "route",
                                    !.rem = slot[f], !.peer = f], {})
  <2>1. PICK f \in act[a].todo :
             Goes(a, [act[a] EXCEPT !.todo = @ \ {f},
                                    !.pc = IF HasMedia(f) THEN "out" ELSE "route",
                                    !.rem = slot[f], !.peer = f], {})
    BY <1>3
  <2> DEFINE r == [act[a] EXCEPT !.todo = @ \ {f},
                                 !.pc = IF HasMedia(f) THEN "out" ELSE "route",
                                 !.rem = slot[f], !.peer = f]
  <2>2. f \in Calls /\ f \in Activities /\ slot[f] \in Slots \cup {None}
    BY <1>1 DEF GoodAct, Act, IInv, TypeOK, Activities
  <2>3. /\ GoodAct(a, r) /\ r.call = e /\ r.alone = act[a].alone /\ r.route = act[a].route
        /\ r.pc = (IF HasMedia(f) THEN "out" ELSE "route") /\ r.rem = slot[f]
        /\ r.peer = f /\ r.todo = act[a].todo \ {f}
    BY <1>1, <2>2 DEF GoodAct, Act, Places, HasMedia
  <2>4. Goes(a, r, {})
    BY <2>1
  <2> HIDE DEF r
  <2>5. Announced(e) /\ act[a].alone /\ r.pc # "route" => r.rem # slot[e]
    <3> SUFFICES ASSUME Announced(e), act[a].alone, HasMedia(f) PROVE slot[f] # slot[e]
      BY <2>3
    <3>1. f # e
      BY <1>2
    <3> QED
      BY <2>2, <3>1, AnnouncedPort
  <2>6. ASSUME NEW c \in Calls PROVE JoinInv(c)'
    BY <1>1, <1>2, <2>3, <2>4, <2>5, JoinGoes
  <2>7. \A d \in Calls : Announced(d) => HasMedia(d)
    BY DEF Announced
  <2>8. \A d \in Calls, k \in {"out", "in"} :
           Announced(d) /\ ~Owes(r, d, k) => ~Owes(act[a], d, k)
    BY <1>1, <2>3, <2>7 DEF Owes
  <2>9. ASSUME NEW c \in Calls, NEW d \in Calls, c # d PROVE PairInv(c, d)'
    <3>1. Announced(c) /\ Announced(d) => Answers(a, e, r, c, d)
      BY <1>1, <2>8, <2>9 DEF Answers
    <3>2. r.pc # "idle"
      BY <2>3
    <3> QED
      BY <1>1, <2>3, <2>4, <2>9, <3>1, <3>2, PairGoes
  <2> QED
    BY <2>6, <2>9 DEF LinksInv
<1>4. CASE act[a].todo = {} /\ Goes(a, [act[a] EXCEPT !.pc = "toMain", !.route = FALSE], {})
  <2> DEFINE r == [act[a] EXCEPT !.pc = "toMain", !.route = FALSE]
  <2>1. /\ GoodAct(a, r) /\ r.pc = "toMain" /\ r.call = e /\ r.alone = act[a].alone
    BY <1>1 DEF GoodAct, Act, Places
  <2>2. Goes(a, r, {})
    BY <1>4
  <2> HIDE DEF r
  <2>3. ASSUME NEW c \in Calls PROVE JoinInv(c)'
    BY <1>1, <2>1, <2>2, JoinGoes
  <2>4. \A d \in Calls, k \in {"out", "in"} : ~Owes(act[a], d, k)
    BY <1>1, <1>4 DEF Owes
  <2>5. ASSUME NEW c \in Calls, NEW d \in Calls, c # d PROVE PairInv(c, d)'
    <3>1. Answers(a, e, r, c, d) /\ r.pc # "idle"
      BY <1>1, <2>1, <2>4, <2>5 DEF Answers
    <3> QED
      BY <1>1, <2>1, <2>2, <2>5, <3>1, PairGoes
  <2> QED
    BY <2>3, <2>5 DEF LinksInv
<1> QED
  BY <1>3, <1>4 DEF Route

\* makes the other call hear this one,
LEMMA OutPairs == ASSUME IInv, CallsInv, LinksInv, NEW a \in Activities, Out(a) PROVE LinksInv'
<1>0. PICK e \in Calls : e = act[a].call
  BY DEF Out, CallsInv, ActInv, GoodAct
<1> DEFINE p == act[a].peer
           hit == Hit(e, p, port[e], act[a].rem)
           r == [act[a] EXCEPT !.pc = "in"]
<1>1. /\ Works(a, e) /\ GoodAct(a, act[a]) /\ act[a].pc = "out" /\ act[a] \in Act
      /\ UNCHANGED <<slot, due, menu, callVars>> /\ act[a].call = e
      /\ links' = Switch(port[e], act[a].rem, act[a].route) /\ Goes(a, r, hit)
      /\ act[a].route \in BOOLEAN /\ act[a].rem \in Slots /\ p \in Calls /\ TypeOK
  BY <1>0 DEF Out, CallsInv, ActInv, Busy, Works, GoodAct, Act, IInv
<1>2. /\ GoodAct(a, r) /\ r.pc = "in" /\ r.call = e /\ r.alone = act[a].alone
      /\ r.route = act[a].route /\ r.rem = act[a].rem /\ r.todo = act[a].todo /\ r.peer = p
  BY <1>1 DEF GoodAct, Act, Places
<1>3. Announced(e) /\ act[a].alone =>
         (act[a].route <=> JoinsOthers(e)) /\ act[a].rem # slot[e] /\ e \notin act[a].todo
  BY <1>1 DEF LinksInv, JoinInv
<1> HIDE DEF r
<1>4. ASSUME NEW c \in Calls PROVE JoinInv(c)'
  BY <1>1, <1>2, <1>3, JoinGoes
<1>5. ASSUME NEW c \in Calls, NEW d \in Calls, c # d PROVE PairInv(c, d)'
  <2>1. ASSUME Announced(c), Announced(d), c \notin hit, d \notin hit
        PROVE  Answers(a, e, r, c, d)
    <3>1. /\ HasMedia(c) /\ HasMedia(d) /\ port[c] = slot[c] /\ port[d] = slot[d]
          /\ slot[c] \in Slots /\ slot[d] \in Slots
          /\ \A f \in Calls : (f # c => slot[f] # slot[c]) /\ (f # d => slot[f] # slot[d])
      BY <2>1, AnnouncedPort
    <3>2. /\ ~(port[e] = slot[c] /\ act[a].rem = slot[d]) => SameLink(c, d)
          /\ port[e] = slot[c] /\ act[a].rem = slot[d] =>
                (<<slot[c], slot[d]>> \in links' <=> act[a].route)
      BY <1>1, <3>1, LinkKept
    <3>3. ASSUME NEW b \in {c, d}, slot[b] \in {port[e], act[a].rem}
          PROVE  /\ {port[e], act[a].rem} \ {Main} \subseteq {slot[e], slot[p]}
                 /\ slot[e] \in {port[e], act[a].rem}
      BY <2>1, <3>3 DEF Hit
    <3>4. CASE e \notin {c, d}
      BY <1>5, <3>1, <3>2, <3>3, <3>4 DEF Answers
    <3>5. CASE e = c
      <4>1. CASE p = d
        <5>1. act[a].alone => act[a].rem = slot[d]
          BY <1>1, <1>3, <2>1, <3>1, <3>3, <3>5, <4>1, Numbers
        <5> QED
          BY <1>3, <1>5, <2>1, <3>1, <3>2, <3>5, <5>1 DEF Answers
      <4>2. CASE p # d
        <5>1. act[a].rem # slot[d]
          BY <1>1, <1>5, <3>1, <3>3, <3>5, <4>2, Numbers
        <5>2. ~Owes(r, d, "out") => ~Owes(act[a], d, "out")
          BY <1>1, <1>2, <4>2 DEF Owes
        <5> QED
          BY <1>5, <3>2, <3>5, <5>1, <5>2 DEF Answers
      <4> QED
        BY <4>1, <4>2
    <3>6. CASE e = d
      <4>1. ~Owes(r, c, "in") => ~Owes(act[a], c, "in")
        BY <1>1, <1>2 DEF Owes
      <4> QED
        BY <1>5, <3>1, <3>2, <3>6, <4>1 DEF Answers
    <3> QED
      BY <3>4, <3>5, <3>6
  <2> HIDE DEF hit
  <2> QED
    BY <1>1, <1>2, <1>5, <2>1, PairGoes
<1> QED
  BY <1>4, <1>5 DEF LinksInv

\* makes this one hear the other,
LEMMA InPairs == ASSUME IInv, CallsInv, LinksInv, NEW a \in Activities, In(a) PROVE LinksInv'
<1>0. PICK e \in Calls : e = act[a].call
  BY DEF In, CallsInv, ActInv, GoodAct
<1> DEFINE p == act[a].peer
           hit == Hit(e, p, act[a].rem, port[e])
           r == [act[a] EXCEPT !.pc = "route", !.rem = None, !.peer = e]
<1>1. /\ Works(a, e) /\ GoodAct(a, act[a]) /\ act[a].pc = "in" /\ act[a] \in Act
      /\ UNCHANGED <<slot, due, menu, callVars>> /\ act[a].call = e
      /\ links' = Switch(act[a].rem, port[e], act[a].route) /\ Goes(a, r, hit)
      /\ act[a].route \in BOOLEAN /\ act[a].rem \in Slots /\ p \in Calls /\ TypeOK
  BY <1>0 DEF In, CallsInv, ActInv, Busy, Works, GoodAct, Act, IInv
<1>2. /\ GoodAct(a, r) /\ r.pc = "route" /\ r.call = e /\ r.alone = act[a].alone
      /\ r.route = act[a].route /\ r.todo = act[a].todo /\ r.peer = e
  BY <1>1 DEF GoodAct, Act, Places, Activities
<1>3. Announced(e) /\ act[a].alone =>
         (act[a].route <=> JoinsOthers(e)) /\ act[a].rem # slot[e] /\ e \notin act[a].todo
  BY <1>1 DEF LinksInv, JoinInv
<1> HIDE DEF r
<1>4. ASSUME NEW c \in Calls PROVE JoinInv(c)'
  BY <1>1, <1>2, <1>3, JoinGoes
<1>5. ASSUME NEW c \in Calls, NEW d \in Calls, c # d PROVE PairInv(c, d)'
  <2>1. ASSUME Announced(c), Announced(d), c \notin hit, d \notin hit
        PROVE  Answers(a, e, r, c, d)
    <3>1. /\ HasMedia(c) /\ HasMedia(d) /\ port[c] = slot[c] /\ port[d] = slot[d]
          /\ slot[c] \in Slots /\ slot[d] \in Slots
          /\ \A f \in Calls : (f # c => slot[f] # slot[c]) /\ (f # d => slot[f] # slot[d])
      BY <2>1, AnnouncedPort
    <3>2. /\ ~(act[a].rem = slot[c] /\ port[e] = slot[d]) => SameLink(c, d)
          /\ act[a].rem = slot[c] /\ port[e] = slot[d] =>
                (<<slot[c], slot[d]>> \in links' <=> act[a].route)
      BY <1>1, <3>1, LinkKept
    <3>3. ASSUME NEW b \in {c, d}, slot[b] \in {port[e], act[a].rem}
          PROVE  /\ {port[e], act[a].rem} \ {Main} \subseteq {slot[e], slot[p]}
                 /\ slot[e] \in {port[e], act[a].rem}
      BY <2>1, <3>3 DEF Hit
    <3>4. CASE e \notin {c, d}
      BY <1>5, <3>1, <3>2, <3>3, <3>4 DEF Answers
    <3>5. CASE e = d
      <4>1. CASE p = c
        <5>1. act[a].alone => act[a].rem = slot[c]
          BY <1>1, <1>3, <2>1, <3>1, <3>3, <3>5, <4>1, Numbers
        <5> QED
          BY <1>3, <1>5, <2>1, <3>1, <3>2, <3>5, <5>1 DEF Answers
      <4>2. CASE p # c
        <5>1. act[a].rem # slot[c]
          BY <1>1, <1>5, <3>1, <3>3, <3>5, <4>2, Numbers
        <5>2. ~Owes(r, c, "in") => ~Owes(act[a], c, "in")
          BY <1>1, <1>2, <4>2 DEF Owes
        <5> QED
          BY <1>5, <3>2, <3>5, <5>1, <5>2 DEF Answers
      <4> QED
        BY <4>1, <4>2
    <3>6. CASE e = c
      <4>1. ~Owes(r, d, "out") => ~Owes(act[a], d, "out")
        BY <1>1, <1>2 DEF Owes
      <4> QED
        BY <1>5, <3>1, <3>2, <3>6, <4>1 DEF Answers
    <3> QED
      BY <3>4, <3>5, <3>6
  <2> HIDE DEF hit
  <2> QED
    BY <1>1, <1>2, <1>5, <2>1, PairGoes
<1> QED
  BY <1>4, <1>5 DEF LinksInv

\* switches the sound device,
LEMMA ToMainPairs == ASSUME IInv, CallsInv, LinksInv, NEW a \in Activities, ToMain(a) PROVE LinksInv'
<1>0. PICK e \in Calls : e = act[a].call
  BY DEF ToMain, CallsInv, ActInv, GoodAct
<1> DEFINE hit == Hit(e, e, port[e], Main)
           r == [act[a] EXCEPT !.pc = "fromMain"]
<1>1. /\ Works(a, e) /\ GoodAct(a, act[a]) /\ act[a].pc = "toMain" /\ act[a] \in Act
      /\ UNCHANGED <<slot, due, menu, callVars>> /\ act[a].call = e
      /\ links' = Switch(port[e], Main, act[a].on) /\ Goes(a, r, hit)
      /\ act[a].on \in BOOLEAN /\ TypeOK
  BY <1>0 DEF ToMain, CallsInv, ActInv, Busy, Works, GoodAct, Act, IInv
<1>2. GoodAct(a, r) /\ r.pc = "fromMain" /\ r.call = e /\ r.alone = act[a].alone
  BY <1>1 DEF GoodAct, Act, Places
<1> HIDE DEF r, hit
<1>3. ASSUME NEW c \in Calls PROVE JoinInv(c)'
  BY <1>1, <1>2, JoinGoes
<1>4. \A d \in Calls, k \in {"out", "in"} : ~Owes(act[a], d, k)
  BY <1>1 DEF Owes
<1>5. ASSUME NEW c \in Calls, NEW d \in Calls, c # d PROVE PairInv(c, d)'
  <2>1. ASSUME Announced(c), Announced(d) PROVE Answers(a, e, r, c, d)
    <3>1. HasMedia(c) /\ HasMedia(d) /\ slot[d] # Main
      BY <2>1, AnnouncedPort, Numbers
    <3>2. SameLink(c, d)
      BY <1>1, <3>1, LinkKept
    <3> QED
      BY <1>4, <1>5, <3>2 DEF Answers
  <2>2. r.pc # "idle"
    BY <1>2
  <2> QED
    BY <1>1, <1>2, <1>5, <2>1, <2>2, PairGoes
<1> QED
  BY <1>3, <1>5 DEF LinksInv

\* or makes its last change and returns.
LEMMA FromMainPairs == ASSUME IInv, CallsInv, LinksInv, NEW a \in Activities, FromMain(a) PROVE LinksInv'
<1>0. PICK e \in Calls : e = act[a].call
  BY DEF FromMain, CallsInv, ActInv, GoodAct
<1> DEFINE hit == Hit(e, e, Main, port[e])
<1>1. /\ Works(a, e) /\ act[a].pc = "fromMain" /\ ActInv /\ CallInv(e) /\ TypeOK
      /\ UNCHANGED <<slot, due, menu, script, active, port, connected, sct>>
      /\ links' = Switch(Main, port[e], act[a].on \/ "listen" \in sct[e])
      /\ act' = [x \in Activities |->
                   IF x = a THEN Idle(a)
                   ELSE IF act[x].call \in hit THEN [act[x] EXCEPT !.alone = FALSE]
                   ELSE act[x]]
      /\ doubt' = [c \in Calls |-> c \in hit \/ (doubt[c] /\ ~(c = e /\ act[a].alone))]
  BY <1>0 DEF FromMain, CallsInv, IInv, Works, Busy, callVars
<1> HIDE DEF hit
<1>2. ~Works(a, e)' /\ \A c \in Calls : ~Works(a, c)'
  BY <1>1 DEF Works, Busy, Idle
<1>3. ASSUME NEW x \in Activities, x # a
      PROVE  /\ act'[x].pc = act[x].pc /\ act'[x].call = act[x].call
             /\ act'[x].alone = (act[x].alone /\ act[x].call \notin hit)
             /\ act'[x].todo = act[x].todo /\ act'[x].peer = act[x].peer
             /\ act'[x].route = act[x].route /\ act'[x].rem = act[x].rem
  <2>1. act[x] \in Act
    BY <1>1 DEF ActInv
  <2>2. act'[x] = IF act[x].call \in hit THEN [act[x] EXCEPT !.alone = FALSE] ELSE act[x]
    BY <1>1, <1>3
  <2> QED
    BY <2>1, <2>2 DEF Act
<1>4. \A c \in Calls, x \in Activities \ {a} : Works(x, c)' <=> Works(x, c)
  BY <1>3 DEF Works, Busy
<1>5. \A c \in Calls : Announced(c)' <=> Announced(c)
  BY <1>1 DEF Announced, HasMedia
<1>6. ASSUME NEW c \in Calls PROVE JoinInv(c)'
  <2> SUFFICES ASSUME Announced(c)', NEW x \in Activities, Works(x, c)', act'[x].alone,
                      act'[x].pc \in {"route", "out", "in"}
               PROVE  /\ act'[x].route <=> JoinsOthers(c)'
                      /\ c \notin act'[x].todo
                      /\ act'[x].pc # "route" => act'[x].rem # slot'[c]
    BY DEF JoinInv
  <2>1. x # a /\ Works(x, c) /\ Announced(c) /\ JoinInv(c)
    BY <1>2, <1>4, <1>5 DEF LinksInv
  <2>2. JoinsOthers(c)' <=> JoinsOthers(c)
    BY <1>1 DEF JoinsOthers
  <2> QED
    BY <1>1, <1>3, <2>1, <2>2 DEF JoinInv
<1>7. ASSUME NEW c \in Calls, c # e, NEW d \in Calls, NEW k, Sure(c, d, k)' PROVE Sure(c, d, k)
  <2>1. \A x \in Activities : Works(x, c) => x # a
    BY <1>0, <1>7 DEF Works
  <2>2. \A x \in Activities : Works(x, c)' <=> Works(x, c)
    BY <1>2, <1>4, <2>1
  <2>3. doubt[c] => doubt'[c]
    BY <1>1, <1>7
  <2>4. \A x \in Activities : Works(x, c) /\ act'[x].alone =>
           act[x].alone /\ (Owes(act[x], d, k) => Owes(act'[x], d, k))
    BY <1>3, <2>1 DEF Owes
  <2> QED
    BY <1>7, <2>2, <2>3, <2>4, SureKept
<1>8. ASSUME NEW d \in Calls, NEW k, Sure(e, d, k)' PROVE Sure(e, d, k)
  <2>1. ASSUME NEW x \in Activities, Works(x, e)' PROVE ~act'[x].alone
    <3>1. x # a /\ Works(x, e)
      BY <1>2, <1>4, <2>1
    <3>2. ~act[x].alone
      BY <1>1, <3>1 DEF CallInv, RaceInv
    <3> QED
      BY <1>3, <3>1, <3>2
  <2>2. ~doubt'[e]
    BY <1>8, <2>1 DEF Sure
  <2>3. act[a].alone
    BY <1>1, <2>2 DEF CallInv, RaceInv
  <2>4. ~Owes(act[a], d, k)
    BY <1>1 DEF Owes
  <2> QED
    BY <1>1, <2>3, <2>4 DEF Sure
<1>9. ASSUME NEW c \in Calls, NEW d \in Calls, c # d PROVE PairInv(c, d)'
  <2> SUFFICES ASSUME BothSure(c, d)' PROVE PairInv(c, d)'
    BY DEF PairInv
  <2>1. Announced(c) /\ Announced(d) /\ Sure(c, d, "out") /\ Sure(d, c, "in")
    BY <1>5, <1>7, <1>8 DEF BothSure
  <2>2. HasMedia(c) /\ HasMedia(d) /\ slot[c] # Main
    BY <2>1, AnnouncedPort, Numbers
  <2>3. SameLink(c, d)
    <3>1. (act[a].on \/ "listen" \in sct[e]) \in BOOLEAN
      OBVIOUS
    <3> QED
      BY <1>1, <2>2, <3>1, LinkKept
  <2> QED
    BY <1>1, <1>9, <2>1, <2>3, PairKept DEF BothSure, LinksInv
<1> QED
  BY <1>6, <1>9 DEF LinksInv

-----------------------------------------------------------------------------
(* Scripts, registry and bridge: what a call hears and who hears it.       *)

\* A new check starts on a call whose script or media changed.
LEMMA StartsCalls ==
    ASSUME IInv, CallsInv, LinksInv, NEW a \in Activities, NEW d \in Calls, ~Busy(a),
           a \in Calls => a = d,
           Starts(a, d), UNCHANGED <<slot, links>>, (Announced(d) => port[d] = slot[d])',
           \A c \in Calls : c # d /\ Announced(c)' =>
              Announced(c) /\ port'[c] = port[c] /\ connected'[c] = connected[c] /\ sct'[c] = sct[c]
    PROVE  CallsInv' /\ LinksInv'
<1> DEFINE r == [Idle(d) EXCEPT !.pc = "test"]
           hit == IF OnCall(d) = {} THEN {} ELSE {d}
<1>1. /\ GoodAct(a, r) /\ r.pc = "test" /\ r.call = d /\ r.alone = TRUE
      /\ Goes(a, r, hit) /\ ActInv /\ doubt \in [Calls -> BOOLEAN]
  BY DEF Starts, GoodAct, Idle, Act, Places, Activities, CallsInv, IInv, TypeOK
<1> HIDE DEF r
<1>2. /\ ActInv'
      /\ \A x \in Activities :
            LET y == IF x = a THEN r ELSE act[x]
            IN  /\ act'[x].pc = y.pc /\ act'[x].call = y.call /\ act'[x].on = y.on
                /\ act'[x].alone = (y.alone /\ y.call \notin hit)
                /\ act'[x].route = y.route /\ act'[x].todo = y.todo
                /\ act'[x].rem = y.rem /\ act'[x].peer = y.peer
      /\ \A c \in Calls : doubt'[c] = (doubt[c] \/ c \in hit)
  BY <1>1, GoesEffect
<1>3. ASSUME NEW c \in Calls, c # d PROVE CallInv(c)'
  <2>1. /\ \A x \in Activities : Works(x, c)' <=> Works(x, c)
        /\ \A x \in Activities : Works(x, c) =>
              act'[x].pc = act[x].pc /\ act'[x].on = act[x].on
              /\ act'[x].alone = (act[x].alone /\ c \notin hit)
        /\ doubt'[c] = (doubt[c] \/ c \in hit)
    BY <1>1, <1>3, GoesOther
  <2>2. c \notin hit /\ SameSound(c) /\ CallInv(c) /\ doubt[c] \in BOOLEAN
    BY <1>1, <1>3 DEF SameSound, CallsInv
  <2>3. \A x \in Activities : act[x].alone \in BOOLEAN
    BY <1>1 DEF ActInv, GoodAct, Act
  <2> QED
    BY <1>3, <2>1, <2>2, <2>3, CallKept
<1>4. CallInv(d)'
  <2>1. CASE OnCall(d) = {}
    <3>1. \A x \in Activities : ~Works(x, d)
      BY <2>1 DEF OnCall, Works
    <3>2. \A x \in Activities : Works(x, d)' => x = a
      BY <1>2, <3>1 DEF Works, Busy
    <3>3. act'[a].alone = TRUE /\ act'[a].pc = "test" /\ Works(a, d)'
      BY <1>1, <1>2, <2>1 DEF Works, Busy
    <3>4. RaceInv(d)'
      BY <3>2, <3>3 DEF RaceInv
    <3>5. SoundInv(d)'
      BY <3>2, <3>3 DEF SoundInv
    <3> QED
      BY <3>4, <3>5 DEF CallInv
  <2>2. CASE OnCall(d) # {}
    <3>1. d \in hit
      BY <2>2
    <3>2. doubt'[d] /\ \A x \in Activities : Works(x, d)' => ~act'[x].alone
      BY <1>2, <3>1 DEF Works
    <3> QED
      BY <3>2, Spoiled
  <2> QED
    BY <2>1, <2>2
<1>5. ASSUME NEW c \in Calls, c # d
      PROVE  /\ \A x \in Activities : Works(x, c)' <=> Works(x, c)
             /\ \A x \in Activities : Works(x, c) => x # a
             /\ doubt'[c] = doubt[c] /\ c \notin hit
  <2>1. \A x \in Activities : Works(x, c)' <=> Works(x, c)
    BY <1>1, <1>5, GoesOther
  <2>2. c \notin hit /\ (doubt'[c] = (doubt[c] \/ c \in hit)) /\ doubt[c] \in BOOLEAN
    BY <1>1, <1>2, <1>5
  <2> QED
    BY <2>1, <2>2 DEF Works
<1>6. ASSUME NEW x \in Activities, x # a
      PROVE  /\ act'[x].pc = act[x].pc /\ act'[x].route = act[x].route
             /\ act'[x].todo = act[x].todo /\ act'[x].rem = act[x].rem
             /\ act'[x].peer = act[x].peer /\ (act'[x].alone => act[x].alone)
  <2> HIDE DEF hit
  <2> QED
    BY <1>2, <1>6
<1>7. \A b \in Calls, k \in {"out", "in"} : ~Sure(d, b, k)'
  <2>1. \A x \in Activities : x # a /\ Works(x, d)' => ~act'[x].alone
    <3> SUFFICES ASSUME NEW x \in Activities, x # a, Works(x, d)' PROVE ~act'[x].alone
      OBVIOUS
    <3>1. act[x].call = d /\ Busy(x)
      BY <1>2 DEF Works, Busy
    <3>2. d \in hit
      BY <3>1 DEF OnCall
    <3> QED
      BY <1>2, <3>1, <3>2
  <2>2. act'[a].pc = "test" /\ Works(a, d)'
    BY <1>1, <1>2 DEF Works, Busy
  <2> QED
    BY <2>1, <2>2 DEF Sure, Owes
<1>8. ASSUME NEW c \in Calls PROVE JoinInv(c)'
  <2>1. CASE c = d
    <3> SUFFICES ASSUME NEW x \in Activities, Works(x, d)', act'[x].alone
                 PROVE  act'[x].pc = "test"
      BY <2>1 DEF JoinInv
    <3>1. CASE x = a
      BY <1>1, <1>2, <3>1
    <3>2. CASE x # a
      <4>1. act[x].call = d /\ Busy(x)
        BY <1>2, <3>2 DEF Works, Busy
      <4>2. d \in hit
        BY <4>1 DEF OnCall
      <4> QED
        BY <1>2, <3>2, <4>1, <4>2
    <3> QED
      BY <3>1, <3>2
  <2>2. CASE c # d
    <3>1. ASSUME Announced(c)', NEW x \in Activities, Works(x, c)', act'[x].alone,
                 act'[x].pc \in {"route", "out", "in"}
          PROVE  /\ Announced(c) /\ Works(x, c) /\ act[x].alone
                 /\ act[x].pc = act'[x].pc /\ act'[x].route = act[x].route
                 /\ act'[x].todo = act[x].todo /\ act'[x].rem = act[x].rem
                 /\ (JoinsOthers(c)' <=> JoinsOthers(c)) /\ slot'[c] = slot[c]
      <4>1. Works(x, c) /\ x # a
        BY <1>5, <2>2, <3>1
      <4>2. Announced(c) /\ (JoinsOthers(c)' <=> JoinsOthers(c)) /\ slot'[c] = slot[c]
        BY <2>2, <3>1 DEF JoinsOthers
      <4> QED
        BY <1>6, <3>1, <4>1, <4>2
    <3>2. JoinInv(c)
      BY DEF LinksInv
    <3> QED
      BY <3>1, <3>2 DEF JoinInv
  <2> QED
    BY <2>1, <2>2
<1>9. ASSUME NEW c \in Calls, NEW b \in Calls, c # b PROVE PairInv(c, b)'
  <2> SUFFICES ASSUME BothSure(c, b)' PROVE PairInv(c, b)'
    BY DEF PairInv
  <2>1. c # d /\ b # d
    BY <1>7 DEF BothSure
  <2>2. ASSUME NEW f \in {c, b}, NEW g \in Calls, NEW k, Sure(f, g, k)' PROVE Sure(f, g, k)
    <3>1. \A x \in Activities : Works(x, f) /\ act'[x].alone =>
             act[x].alone /\ (Owes(act[x], g, k) => Owes(act'[x], g, k))
      BY <1>6, <1>5, <2>1 DEF Owes
    <3> QED
      BY <1>5, <2>1, <2>2, <3>1, SureKept
  <2>3. Sure(c, b, "out") /\ Sure(b, c, "in")
    BY <2>2 DEF BothSure
  <2>4. Announced(c)' /\ Announced(b)' /\ SameLink(c, b)
    BY DEF BothSure, SameLink
  <2> QED
    BY <1>9, <2>1, <2>3, <2>4, PairKept DEF BothSure, LinksInv
<1> QED
  BY <1>2, <1>3, <1>4, <1>8, <1>9 DEF CallsInv, LinksInv

\* A step that no activity makes or sees, and that announces no call.
LEMMA QuietCalls ==
    ASSUME CallsInv, LinksInv, UNCHANGED <<act, doubt>>,
           \A c \in Calls : Announced(c)' =>
              /\ Announced(c) /\ SameSound(c) /\ slot'[c] = slot[c] /\ port'[c] = port[c]
              /\ connected'[c] = connected[c] /\ sct'[c] = sct[c],
           \A c, d \in Calls : c # d /\ Announced(c)' /\ Announced(d)' => SameLink(c, d)
    PROVE  CallsInv' /\ LinksInv'
<1>1. ActInv'
  BY DEF CallsInv, ActInv
<1>2. \A c \in Calls, x \in Activities : Works(x, c)' <=> Works(x, c)
  BY DEF Works, Busy
<1>3. ASSUME NEW c \in Calls PROVE CallInv(c)'
  BY <1>2, <1>3, CallKept DEF CallsInv
<1>4. ASSUME NEW c \in Calls PROVE JoinInv(c)'
  <2> SUFFICES ASSUME Announced(c)' PROVE JoinInv(c)'
    BY DEF JoinInv
  <2>1. JoinInv(c) /\ Announced(c) /\ (JoinsOthers(c)' <=> JoinsOthers(c)) /\ slot'[c] = slot[c]
    BY DEF JoinsOthers, LinksInv
  <2> QED
    BY <1>2, <2>1 DEF JoinInv
<1>5. ASSUME NEW c \in Calls, NEW d \in Calls, c # d PROVE PairInv(c, d)'
  <2>1. \A k \in {"out", "in"} : (Sure(c, d, k)' => Sure(c, d, k)) /\ (Sure(d, c, k)' => Sure(d, c, k))
    BY <1>2 DEF Sure, Owes
  <2> QED
    BY <1>5, <2>1, PairKept DEF BothSure, LinksInv
<1> QED
  BY <1>1, <1>3, <1>4, <1>5 DEF CallsInv, LinksInv

\* The script's operations and its end,
LEMMA OperationCalls ==
    ASSUME IInv, CallsInv, LinksInv, NEW c \in Calls,
           ConnectMain(c) \/ DisconnectMain(c) \/ SetSoundConnectionType(c) \/ ScriptEnds(c)
    PROVE  CallsInv' /\ LinksInv'
<1>1. CASE ScriptEnds(c)
  <2>1. /\ UNCHANGED <<slot, due, links, menu, active, port, connected, sct, act, doubt>>
        /\ \A d \in Calls : script'[d] # "none" => script[d] # "none"
    BY <1>1 DEF ScriptEnds, ScriptMay, IInv, TypeOK
  <2> QED
    BY <2>1, QuietCalls DEF Announced, HasMedia, SameSound, SameLink
<1>2. CASE ConnectMain(c) \/ DisconnectMain(c) \/ SetSoundConnectionType(c)
  <2>1. /\ Starts(c, c) /\ ~Busy(c) /\ UNCHANGED <<slot, due, links, script, active, port>>
        /\ \A d \in Calls \ {c} : connected'[d] = connected[d] /\ sct'[d] = sct[d]
    BY <1>2 DEF ConnectMain, DisconnectMain, SetSoundConnectionType, ScriptMay, IInv, TypeOK
  <2>2. \A d \in Calls : Announced(d)' <=> Announced(d)
    BY <2>1 DEF Announced, HasMedia
  <2>3. Announced(c) => port[c] = slot[c]
    BY DEF CallsInv, CallInv, SoundInv
  <2> QED
    BY <2>1, <2>2, <2>3, StartsCalls DEF Activities
<1> QED
  BY <1>1, <1>2

\* the registry's: a script is deleted or made,
LEMMA RegistryCalls ==
    ASSUME IInv, CallsInv, LinksInv, NEW c \in Calls, Reap(c) \/ Begin(c) PROVE CallsInv' /\ LinksInv'
<1>1. /\ UNCHANGED <<slot, links, act, doubt>> /\ ~Announced(c)'
      /\ \A d \in Calls \ {c} :
            /\ due'[d] = due[d] /\ script'[d] = script[d] /\ active'[d] = active[d]
            /\ port'[d] = port[d] /\ connected'[d] = connected[d] /\ sct'[d] = sct[d]
  <2>1. CASE Reap(c)
    BY <2>1 DEF Reap, IInv, TypeOK, Announced
  <2>2. CASE Begin(c)
    BY <2>2 DEF Begin, Live, IInv, TypeOK, MediaInv, Announced, HasMedia
  <2> QED
    BY <2>1, <2>2
<1> QED
  BY <1>1, QuietCalls DEF Announced, HasMedia, SameSound, SameLink

\* and pjsua's, which gives ports and takes them away, or ends a call.
LEMMA BridgeCalls ==
    ASSUME IInv, CallsInv, LinksInv, NEW c \in Calls,
           MediaUp(c) \/ MediaDown(c) \/ CallEnds(c) \/ CallGone(c)
    PROVE  CallsInv' /\ LinksInv'
<1>1. /\ UNCHANGED <<script, active, port, connected, sct, act, doubt>> /\ ~Announced(c)'
      /\ \A d \in Calls \ {c} : due'[d] = due[d] /\ slot'[d] = slot[d]
  <2>1. CASE MediaUp(c)
    BY <2>1 DEF MediaUp, callVars, IInv, TypeOK, Announced
  <2>2. CASE MediaDown(c)
    BY <2>2 DEF MediaDown, PortGone, callVars, IInv, TypeOK, Announced, HasMedia
  <2>3. CASE CallEnds(c)
    BY <2>3 DEF CallEnds, callVars, IInv, TypeOK, Announced
  <2>4. CASE CallGone(c)
    BY <2>4 DEF CallGone, PortGone, callVars, IInv, TypeOK, Announced
  <2> QED
    BY <2>1, <2>2, <2>3, <2>4
<1>2. links' = links \/ (HasMedia(c) /\ links' = WithoutPort(slot[c]))
  BY DEF MediaUp, MediaDown, CallEnds, CallGone, PortGone
<1>3. ASSUME NEW d \in Calls, d # c, HasMedia(d) PROVE SameSound(d)
  <2>1. CASE links' = links
    BY <2>1 DEF SameSound
  <2>2. CASE HasMedia(c) /\ links' = WithoutPort(slot[c])
    <3>1. slot[c] \in Slots /\ slot[d] # slot[c]
      BY <1>3, <2>2 DEF IInv, TypeOK, SlotsDiffer, HasMedia
    <3>2. \A l \in {<<slot[d], Main>>, <<slot[d], Monitor>>, <<Main, slot[d]>>} :
             slot[c] \notin {l[1], l[2]}
      BY <3>1, Numbers
    <3>3. \A l \in {<<slot[d], Main>>, <<slot[d], Monitor>>, <<Main, slot[d]>>} :
             l \in links' <=> l \in links
      BY <2>2, <3>2 DEF WithoutPort
    <3> QED
      BY <3>3 DEF SameSound
  <2> QED
    BY <1>2, <2>1, <2>2
<1>4. \A d \in Calls : Announced(d)' => d # c /\ Announced(d) /\ HasMedia(d)
  BY <1>1 DEF Announced, HasMedia
<1>5. ASSUME NEW d \in Calls, NEW b \in Calls, d # c, b # c, HasMedia(d), HasMedia(b)
      PROVE  SameLink(d, b)
  <2>1. CASE links' = links
    BY <2>1 DEF SameLink
  <2>2. CASE HasMedia(c) /\ links' = WithoutPort(slot[c])
    <3>1. slot[d] # slot[c] /\ slot[b] # slot[c]
      BY <1>5, <2>2 DEF IInv, SlotsDiffer
    <3> QED
      BY <2>2, <3>1 DEF WithoutPort, SameLink
  <2> QED
    BY <1>2, <2>1, <2>2
<1> QED
  BY <1>1, <1>3, <1>4, <1>5, QuietCalls

\* The media callback starts a check with the port of now,
LEMMA MediaConnectedCalls ==
    ASSUME IInv, CallsInv, LinksInv, NEW c \in Calls, MediaConnected(c) PROVE CallsInv' /\ LinksInv'
<1>1. /\ UNCHANGED <<slot, links, script, active, connected, sct>> /\ ~Busy(Sip)
      /\ due' = [due EXCEPT ![c] = "none"]
  BY DEF MediaConnected
<1>2. \A d \in Calls : d # c /\ Announced(d)' => Announced(d)
  BY <1>1 DEF Announced, HasMedia, IInv, TypeOK
<1>3. CASE script[c] # "none" /\ active[c]
  <2>1. Starts(Sip, c) /\ port' = [port EXCEPT ![c] = slot[c]]
    BY <1>3 DEF MediaConnected, PortOfNow
  <2>2. port'[c] = slot'[c] /\ \A d \in Calls \ {c} : port'[d] = port[d]
    BY <1>1, <2>1 DEF IInv, TypeOK
  <2>3. Sip \in Activities /\ (Sip \in Calls => Sip = c)
    BY Numbers DEF Activities
  <2> QED
    BY <1>1, <1>2, <2>1, <2>2, <2>3, StartsCalls
<1>4. CASE ~(script[c] # "none" /\ active[c])
  <2>1. UNCHANGED <<port, act, doubt>> /\ ~Announced(c)'
    BY <1>1, <1>4 DEF MediaConnected, Announced
  <2> QED
    BY <1>1, <1>2, <2>1, QuietCalls DEF SameSound, SameLink
<1> QED
  BY <1>3, <1>4

\* and stop() may meet the script in a check.
LEMMA StopCalls == ASSUME IInv, CallsInv, LinksInv, NEW c \in Calls, Stop(c) PROVE CallsInv' /\ LinksInv'
<1>1. /\ UNCHANGED <<slot, links, script, connected, sct>> /\ ~Busy(Sip) /\ ~Announced(c)'
      /\ \A d \in Calls \ {c} : due'[d] = due[d] /\ port'[d] = port[d] /\ active'[d] = active[d]
  BY DEF Stop, IInv, TypeOK, Announced, callVars
<1>2. \A d \in Calls : Announced(d)' => d # c /\ Announced(d) /\ SameSound(d)
  BY <1>1 DEF Announced, HasMedia, SameSound, SameLink
<1>3. CASE script[c] = "run" /\ Busy(c)
  <2>1. /\ act' = [act EXCEPT ![c] = [act[c] EXCEPT !.alone = FALSE]]
        /\ doubt' = [doubt EXCEPT ![c] = TRUE]
    <3>1. /\ act' = [act EXCEPT ![c].alone = act[c].alone /\ c \notin {c}]
          /\ doubt' = [doubt EXCEPT ![c] = doubt[c] \/ c \in {c}]
      BY <1>3 DEF Stop
    <3> QED
      BY <3>1
  <2>2. /\ ActInv /\ GoodAct(c, act[c]) /\ act[c] \in Act /\ c \in Activities
        /\ doubt \in [Calls -> BOOLEAN]
    BY DEF CallsInv, ActInv, GoodAct, Activities, IInv, TypeOK
  <2>3. /\ act'[c] \in Act /\ act'[c].pc = act[c].pc /\ act'[c].call = act[c].call
        /\ act'[c].alone = FALSE /\ GoodAct(c, act'[c])
    BY <2>1, <2>2 DEF ActInv, Act, GoodAct
  <2>4. \A x \in Activities \ {c} : act'[x] = act[x]
    BY <2>1, <2>2 DEF ActInv
  <2>5. ActInv'
    BY <2>1, <2>2, <2>3, <2>4 DEF ActInv
  <2>6. act[c].call = c /\ \A d \in Calls : Works(c, d) => d = c
    BY <2>2 DEF GoodAct, Works
  <2>7. \A d \in Calls, x \in Activities : Works(x, d)' <=> Works(x, d)
    BY <2>3, <2>4 DEF Works, Busy
  <2>8. ASSUME NEW d \in Calls, d # c PROVE CallInv(d)'
    <3>1. doubt'[d] = doubt[d] /\ \A x \in Activities : Works(x, d) => act'[x] = act[x]
      BY <2>1, <2>2, <2>4, <2>6, <2>8
    <3> QED
      BY <1>1, <1>2, <2>7, <2>8, <3>1, CallKept DEF CallsInv
  <2>9. CallInv(c)'
    <3>1. \A x \in Activities : Works(x, c) => x = c
      <4>1. ASSUME NEW x \in Activities, Works(x, c), x # c PROVE FALSE
        <5>1. x \in Calls
          BY <1>1, <4>1 DEF Works, Activities
        <5> QED
          BY <2>2, <4>1, <5>1 DEF ActInv, GoodAct, Works
      <4> QED
        BY <4>1
    <3>2. \A x \in Activities : Works(x, c)' => ~act'[x].alone
      BY <2>3, <2>7, <3>1
    <3>3. doubt'[c]
      BY <2>1, <2>2
    <3> QED
      BY <1>1, <3>2, <3>3, Spoiled
  <2>10. ASSUME NEW d \in Calls PROVE JoinInv(d)'
    <3> SUFFICES ASSUME Announced(d)' PROVE JoinInv(d)'
      BY DEF JoinInv
    <3>1. JoinInv(d) /\ Announced(d) /\ d # c /\ (JoinsOthers(d)' <=> JoinsOthers(d))
      BY <1>1, <1>2 DEF JoinsOthers, LinksInv
    <3>2. \A x \in Activities : Works(x, d) => act'[x] = act[x]
      BY <2>4, <2>6, <3>1
    <3> QED
      BY <1>1, <2>7, <3>1, <3>2 DEF JoinInv
  <2>11. ASSUME NEW d \in Calls, d # c, NEW b \in Calls, NEW k, Sure(d, b, k)' PROVE Sure(d, b, k)
    <3>1. doubt'[d] = doubt[d] /\ \A x \in Activities : Works(x, d) => act'[x] = act[x]
      BY <2>1, <2>2, <2>4, <2>6, <2>11
    <3> QED
      BY <2>7, <2>11, <3>1, SureKept
  <2>12. ASSUME NEW d \in Calls, NEW b \in Calls, d # b PROVE PairInv(d, b)'
    <3> SUFFICES ASSUME BothSure(d, b)' PROVE PairInv(d, b)'
      BY DEF PairInv
    <3>1. Announced(d)' /\ Announced(b)' /\ Sure(d, b, "out")' /\ Sure(b, d, "in")'
      BY DEF BothSure
    <3>2. d # c /\ b # c /\ Announced(d) /\ Announced(b)
      BY <1>2, <3>1
    <3>3. Sure(d, b, "out") /\ Sure(b, d, "in")
      BY <2>11, <3>1, <3>2
    <3>4. SameLink(d, b)
      BY <1>1 DEF SameLink
    <3> QED
      BY <1>1, <2>12, <3>2, <3>3, <3>4, PairKept DEF BothSure, LinksInv
  <2> QED
    BY <2>5, <2>8, <2>9, <2>10, <2>12 DEF CallsInv, LinksInv
<1>4. CASE ~(script[c] = "run" /\ Busy(c))
  <2>1. UNCHANGED <<act, doubt>>
    <3>1. CASE script[c] = "run"
      <4>1. /\ act' = [act EXCEPT ![c].alone = act[c].alone /\ c \notin {}]
            /\ doubt' = [doubt EXCEPT ![c] = doubt[c] \/ c \in {}]
        BY <1>4, <3>1 DEF Stop
      <4>2. act[c].alone \in BOOLEAN /\ doubt[c] \in BOOLEAN /\ c \in Activities
        BY DEF CallsInv, ActInv, GoodAct, Act, IInv, TypeOK, Activities
      <4>3. (act[c].alone /\ c \notin {}) = act[c].alone /\ (doubt[c] \/ c \in {}) = doubt[c]
        BY <4>2
      <4>4. [act[c] EXCEPT !.alone = act[c].alone] = act[c]
        <5>1. act[c] \in Act
          BY <4>2 DEF CallsInv, ActInv
        <5> QED
          BY <5>1 DEF Act
      <4> QED
        BY <4>1, <4>2, <4>3, <4>4 DEF CallsInv, ActInv, IInv, TypeOK
    <3>2. CASE script[c] # "run"
      BY <3>2 DEF Stop
    <3> QED
      BY <3>1, <3>2
  <2> QED
    BY <1>1, <1>2, <2>1, QuietCalls DEF SameLink
<1> QED
  BY <1>3, <1>4

\* What is known of the calls holds in every state of every run.
LEMMA CallsInvariance == Spec => [](CallsInv /\ LinksInv)
<1>1. Init => CallsInv /\ LinksInv
  <2> SUFFICES ASSUME Init PROVE CallsInv /\ LinksInv
    OBVIOUS
  <2>1. \A a \in Activities : Idle(a) \in Act /\ GoodAct(a, Idle(a)) /\ Idle(a).pc = "idle"
    BY DEF Idle, Act, GoodAct, Places, Activities
  <2>2. ActInv /\ \A a \in Activities : ~Busy(a)
    BY <2>1 DEF Init, ActInv, Busy
  <2>3. \A c \in Calls : CallInv(c)
    BY <2>2 DEF Init, CallInv, RaceInv, SoundInv, Announced, HasMedia, Works
  <2>4. LinksInv
    BY DEF Init, LinksInv, JoinInv, PairInv, BothSure, Announced, HasMedia
  <2> QED
    BY <2>2, <2>3, <2>4 DEF CallsInv
<1>2. IInv /\ CallsInv /\ LinksInv /\ [Next]_vars => CallsInv' /\ LinksInv'
  <2> SUFFICES ASSUME IInv, CallsInv, LinksInv, [Next]_vars PROVE CallsInv' /\ LinksInv'
    OBVIOUS
  <2>1. CASE \E a \in Activities : Check(a)
    BY <2>1, TestCalls, RouteCalls, SwitchCalls, FromMainCalls, TestPairs, RoutePairs,
       OutPairs, InPairs, ToMainPairs, FromMainPairs DEF Check
  <2>2. CASE \E c \in Calls : ConnectMain(c) \/ DisconnectMain(c) \/ SetSoundConnectionType(c)
                              \/ ScriptEnds(c)
    BY <2>2, OperationCalls
  <2>3. CASE \E c \in Calls : Reap(c) \/ Begin(c)
    BY <2>3, RegistryCalls
  <2>4. CASE \E c \in Calls : MediaUp(c) \/ MediaDown(c) \/ CallEnds(c) \/ CallGone(c)
    BY <2>4, BridgeCalls
  <2>5. CASE \E c \in Calls : MediaConnected(c) \/ Stop(c)
    BY <2>5, MediaConnectedCalls, StopCalls
  <2>6. CASE UNCHANGED vars
    BY <2>6, QuietCalls DEF vars, callVars, Announced, HasMedia, SameSound, SameLink
  <2> QED
    BY <2>1, <2>2, <2>3, <2>4, <2>5, <2>6 DEF Next
<1> QED
  BY <1>1, <1>2, Invariance, PTL DEF Spec

-----------------------------------------------------------------------------
(* The theorems.                                                           *)

\* connect(), disconnect() and the callbacks keep the types of the routing; the
\* bridge only ever has links between ports that it knows.
THEOREM TypeCorrect == Spec => []TypeOK
<1> QED
  BY Invariance, PTL DEF IInv

\* set_call_port() never leaves a menu playing to another call, though the bridge
\* gives the number of a removed port to the next call.
THEOREM MenuStaysPrivate == Spec => []MenuIsPrivate
<1>1. IInv => MenuIsPrivate
  BY DEF IInv, MenuInv, MenuIsPrivate, Settled
<1> QED
  BY <1>1, Invariance, PTL
\* Whatever the interleaving of scripts, callbacks and the bridge, a call on which no
\* two activities have met since its last check hears, and is heard by, what its
\* script asked for.
THEOREM SoundIsRight == Spec => []SoundMatches
<1>1. IInv /\ CallsInv => SoundMatches
  <2> SUFFICES ASSUME IInv, CallsInv, NEW c \in Calls, Settled(c), ~doubt[c]
               PROVE  /\ <<slot[c], Main>> \in links <=> connected[c]
                      /\ <<slot[c], Monitor>> \in links <=> connected[c]
                      /\ <<Main, slot[c]>> \in links <=> connected[c] \/ "listen" \in sct[c]
    BY DEF SoundMatches
  <2>1. Announced(c) /\ \A a \in Activities : ~Works(a, c)
    BY DEF Settled, Announced, OnCall, Works
  <2>2. Heard(c) /\ Hears(c)
    BY <2>1 DEF CallsInv, CallInv, SoundInv
  <2> QED
    BY <2>2 DEF Heard, Hears
<1> QED
  BY <1>1, Invariance, CallsInvariance, PTL

\* The same of the conference: however the checks of two calls interleave, the calls
\* hear one another when both scripts want it, and do not when neither does.
THEOREM ConferenceIsRight == Spec => []ConferenceMatches
<1>1. IInv /\ CallsInv /\ LinksInv => ConferenceMatches
  <2> SUFFICES ASSUME LinksInv, NEW c \in Calls, NEW d \in Calls, c # d,
                      Settled(c), Settled(d), ~doubt[c], ~doubt[d]
               PROVE  /\ WantsOthers(c) /\ WantsOthers(d) =>
                           {<<slot[c], slot[d]>>, <<slot[d], slot[c]>>} \subseteq links
                      /\ ~WantsOthers(c) /\ ~WantsOthers(d) =>
                           {<<slot[c], slot[d]>>, <<slot[d], slot[c]>>} \cap links = {}
    BY DEF ConferenceMatches
  <2>1. \A b \in {c, d} : Announced(b) /\ \A a \in Activities : ~Works(a, b)
    BY DEF Settled, Announced, OnCall, Works
  <2>2. BothSure(c, d) /\ BothSure(d, c)
    BY <2>1 DEF BothSure, Sure
  <2>3. PairInv(c, d) /\ PairInv(d, c)
    BY DEF LinksInv
  <2> QED
    BY <2>2, <2>3 DEF PairInv, Linked, JoinsOthers, WantsOthers
<1> QED
  BY <1>1, Invariance, CallsInvariance, PTL

=============================================================================
