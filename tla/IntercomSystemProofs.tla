------------------------ MODULE IntercomSystemProofs ------------------------
(***************************************************************************)
(* Proofs about IntercomSystem for any finite set of call identifiers and  *)
(* any numbers of calls and threads: type correctness, the safety of the   *)
(* registry, and that every script lives the life of ScriptLife.           *)
(***************************************************************************)
EXTENDS IntercomSystem, FiniteSetTheorems, TLAPS

allVars == <<started, nextSid, scripts, calls, sc, freed, pj, pjno, calls_made, ipc,
             lpc, lset, lno, threads_made, tmpc, tbatch, tset, mpc, mbatch, mdel>>

-----------------------------------------------------------------------------
(* The inductive invariant *)

\* Calls that on_incoming_call has not registered yet, and the script that the
\* main Lua script is about to create.
Pending == {c \in CallIds : ipc[c] # "none"}
LuaPending == IF lpc \in {"made", "create", "newthread"} THEN 1 ELSE 0

\* No more ids are given out than calls and threads were made.
CountInv ==
    /\ nextSid + Cardinality(Pending) + LuaPending <= calls_made + threads_made
    /\ \A c \in Pending : pj[c] = "live"

\* An id beyond the last one given out is nowhere in use.
IdsInv ==
    /\ scripts \subseteq 1..nextSid /\ tbatch \subseteq 1..nextSid
    /\ mbatch \subseteq 1..nextSid /\ mdel \in 0..nextSid
    /\ \A c \in CallIds : calls[c] \in 0..nextSid
    /\ \A i \in Sids : IF i <= nextSid THEN sc[i].run # "none"
                                       ELSE sc[i] = NoScript /\ freed[i] = 0

\* Scripts are out of m_scripts before the timer or the shutdown deletes them.
BatchInv ==
    /\ tbatch \cap scripts = {}
    /\ tbatch # {} => tmpc = "delete"
    /\ \A i \in tbatch : sc[i].run = "completed"
    /\ mpc = "delete" => mbatch \cap scripts = {}
    /\ mdel # NoSid => mpc = "delete" /\ mdel \in mbatch
    /\ started <=> mpc = "running"

\* Only scripts whose thread has ended, or never began, have been deleted.
FreedInv == \A i \in Sids : freed[i] > 0 => sc[i].run \in {"completed", "failed"}

Safe == RegisteredNotFreed /\ CallsResolveToOwnCall /\ UnstoppedCallIsMapped

CallInv == \A i \in Sids : sc[i].kind = "call" => sc[i].call \in CallIds

IInv == TypeOK /\ CountInv /\ IdsInv /\ BatchInv /\ FreedInv /\ CallInv /\ Safe

-----------------------------------------------------------------------------
(* stop() *)

\* What stop() does to a script object, and what it leaves alone.
LEMMA StopProperties ==
    ASSUME NEW r \in Script
    PROVE  /\ Stop(r) \in Script
           /\ Stop(r).kind = r.kind /\ Stop(r).call = r.call /\ Stop(r).run = r.run
           /\ r.run \in Running => Stop(r).exit
           /\ r.run \notin Running => Stop(r) = r
           /\ r.exit => Stop(r).exit
<1>1. CASE r.run \in Running
  BY <1>1 DEF Stop, Script
<1>2. CASE r.run \notin Running
  BY <1>2 DEF Stop
<1> QED
  BY <1>1, <1>2

\* A new script is a script object.
LEMMA NewScripts ==
    ASSUME NEW start \in Starts
    PROVE  /\ NewThreadScript(start) \in Script
           /\ \A c \in CallIds, n \in Nat, b \in BOOLEAN :
                 NewCallScript(c, n, b, start) \in Script
           /\ NoScript \in Script
  BY DEF NewThreadScript, NewCallScript, NoScript, Script, Starts, Phases, Running

-----------------------------------------------------------------------------
(* The ids suffice *)

\* Only finitely many call identifiers can have a call about to be registered.
LEMMA PendingFinite == IsFiniteSet(Pending) /\ Cardinality(Pending) \in Nat
<1>1. IsFiniteSet(Pending)
  BY SystemAssumption, FS_Subset DEF Pending
<1> QED
  BY <1>1, FS_CardinalityType

\* While a script is about to be created an id is left for it.
LEMMA IdLeft ==
    ASSUME TypeOK, CountInv, Pending # {} \/ LuaPending = 1
    PROVE  nextSid + 1 \in Sids
<1>1. Pending # {} => Cardinality(Pending) # 0
  BY PendingFinite, FS_EmptySet
<1>2. LuaPending \in {0, 1}
  BY DEF LuaPending
<1>3. nextSid + 1 <= calls_made + threads_made
  BY <1>1, <1>2, PendingFinite DEF CountInv, TypeOK, MaxSid
<1> QED
  BY <1>3, SystemAssumption DEF TypeOK, Sids, MaxSid

-----------------------------------------------------------------------------
(* Type correctness *)

\* create_call leaves the registry well-typed.
LEMMA RegisterTypeOK ==
    ASSUME TypeOK, nextSid + 1 \in Sids, NEW c \in CallIds, NEW n \in Nat,
           NEW b \in BOOLEAN, NEW start \in Starts, RegisterCall(c, n, b, start)
    PROVE  /\ nextSid' \in 0..MaxSid /\ scripts' \subseteq Sids
           /\ calls' \in [CallIds -> Sids \cup {NoSid}]
           /\ sc' \in [Sids -> Script]
<1>1. NewCallScript(c, n, b, start) \in Script
  BY NewScripts
<1>2. sc' \in [Sids -> Script]
  BY <1>1, StopProperties DEF RegisterCall, TypeOK
<1>3. nextSid' \in 0..MaxSid /\ scripts' \subseteq Sids
  BY DEF RegisterCall, TypeOK, Sids
<1>4. calls' \in [CallIds -> Sids \cup {NoSid}]
  BY DEF RegisterCall, TypeOK
<1> QED
  BY <1>2, <1>3, <1>4

\* Every step of the registry and its environment keeps the variables' types.
LEMMA StepTypeOK == ASSUME TypeOK, CountInv, [Next]_vars PROVE TypeOK'
<1> USE SystemAssumption DEF registry, pjVars, luaVars, timerVars, mainVars
<1>1. ASSUME NEW c \in CallIds, IncomingCall(c) PROVE TypeOK'
  BY <1>1 DEF IncomingCall, NewCall, WithinBounds, TypeOK
<1>2. ASSUME NEW c \in CallIds, IncomingDecide(c) PROVE TypeOK'
  BY <1>2 DEF IncomingDecide, TypeOK
<1>3. ASSUME NEW c \in CallIds, IncomingCreate(c) PROVE TypeOK'
  <2>1. nextSid + 1 \in Sids
    BY <1>3, IdLeft DEF IncomingCreate, Pending
  <2>2. PICK start \in Starts : RegisterCall(c, pjno[c], TRUE, start)
    BY <1>3 DEF IncomingCreate
  <2>3. pjno[c] \in Nat
    BY DEF TypeOK
  <2>4. /\ nextSid' \in 0..MaxSid /\ scripts' \subseteq Sids
        /\ calls' \in [CallIds -> Sids \cup {NoSid}] /\ sc' \in [Sids -> Script]
    BY <2>1, <2>2, <2>3, RegisterTypeOK
  <2> QED
    BY <1>3, <2>4 DEF IncomingCreate, TypeOK
<1>4. ASSUME NEW c \in CallIds, RemoteEnd(c) PROVE TypeOK'
  BY <1>4 DEF RemoteEnd, TypeOK
<1>5. ASSUME NEW c \in CallIds, OnCallState(c) PROVE TypeOK'
  <2>1. sc' \in [Sids -> Script]
    BY <1>5, StopProperties DEF OnCallState, TypeOK
  <2> QED
    BY <1>5, <2>1 DEF OnCallState, TypeOK
<1>6. ASSUME NEW c \in CallIds, OnCallEvent(c) PROVE TypeOK'
  BY <1>6 DEF OnCallEvent, TypeOK
<1>7. ASSUME NEW c \in CallIds, MakeCall(c) PROVE TypeOK'
  BY <1>7 DEF MakeCall, NewCall, WithinBounds, TypeOK
<1>8. CASE MakeDecide \/ CollectByTag \/ ThreadDecide
  BY <1>8 DEF MakeDecide, CollectByTag, ThreadDecide, WithinBounds, TypeOK
<1>9. CASE MakeCreate
  <2>1. nextSid + 1 \in Sids
    BY <1>9, IdLeft DEF MakeCreate, LuaPending
  <2>2. PICK c \in lset, start \in Starts : RegisterCall(c, lno, FALSE, start)
    BY <1>9 DEF MakeCreate
  <2>3. c \in CallIds /\ lno \in Nat
    BY DEF TypeOK
  <2>4. /\ nextSid' \in 0..MaxSid /\ scripts' \subseteq Sids
        /\ calls' \in [CallIds -> Sids \cup {NoSid}] /\ sc' \in [Sids -> Script]
    BY <2>1, <2>2, <2>3, RegisterTypeOK
  <2> QED
    BY <1>9, <2>4 DEF MakeCreate, TypeOK
<1>10. CASE HangupCollected
  BY <1>10 DEF HangupCollected, HangUp, TypeOK
<1>11. CASE ThreadCreate
  <2>1. nextSid + 1 \in Sids
    BY <1>11, IdLeft DEF ThreadCreate, LuaPending
  <2>2. sc' \in [Sids -> Script]
    BY <1>11, <2>1, NewScripts DEF ThreadCreate, TypeOK
  <2> QED
    BY <1>11, <2>1, <2>2 DEF ThreadCreate, TypeOK, Sids
<1>12. ASSUME NEW i \in Sids, NEW from \in Phases, NEW to \in Phases,
              ScriptStep(i, from, to)
       PROVE  TypeOK'
  <2>1. sc' \in [Sids -> Script]
    BY <1>12 DEF ScriptStep, TypeOK, Script
  <2> QED
    BY <1>12, <2>1 DEF ScriptStep, TypeOK
<1>13. ASSUME NEW i \in Sids, ScriptReady(i) \/ ScriptCreateLua(i) \/ ScriptEnd(i) \/ ScriptFinish(i)
       PROVE  TypeOK'
  BY <1>12, <1>13 DEF ScriptReady, ScriptCreateLua, ScriptEnd, ScriptFinish, Phases, Running
<1>14. ASSUME NEW i \in Sids, ScriptHangup(i) PROVE TypeOK'
  <2>1. sc' \in [Sids -> Script]
    BY <1>14 DEF ScriptHangup, TypeOK, Script, Phases
  <2> QED
    BY <1>14, <2>1 DEF ScriptHangup, HangUp, TypeOK
<1>15. CASE TimerFires \/ TimerReap \/ TimerCheckMedia
  BY <1>15 DEF TimerFires, TimerReap, TimerCheckMedia, TypeOK
<1>16. CASE TimerHangup
  BY <1>16 DEF TimerHangup, HangUp, TypeOK
<1>17. ASSUME NEW i \in Sids, TimerDelete(i) PROVE TypeOK'
  BY <1>17 DEF TimerDelete, TypeOK
<1>18. CASE StartDone \/ StopSystem \/ ClearScripts \/ DeleteDone \/ SystemDown
  BY <1>18 DEF StartDone, StopSystem, ClearScripts, DeleteDone, SystemDown, TypeOK
<1>19. CASE HangupAll
  BY <1>19 DEF HangupAll, HangUp, TypeOK
<1>20. CASE CollectScripts
  <2>1. sc' \in [Sids -> Script]
    BY <1>20, StopProperties DEF CollectScripts, TypeOK
  <2> QED
    BY <1>20, <2>1 DEF CollectScripts, TypeOK
<1>21. ASSUME NEW i \in Sids, DeleteStop(i) PROVE TypeOK'
  <2>1. sc' \in [Sids -> Script]
    BY <1>21, StopProperties DEF DeleteStop, TypeOK
  <2> QED
    BY <1>21, <2>1 DEF DeleteStop, TypeOK
<1>22. CASE DeleteJoin
  BY <1>22 DEF DeleteJoin, TypeOK
<1>23. CASE UNCHANGED vars
  BY <1>23 DEF vars, TypeOK
<1> QED
  BY <1>1, <1>2, <1>3, <1>4, <1>5, <1>6, <1>7, <1>8, <1>9, <1>10, <1>11, <1>13,
     <1>14, <1>15, <1>16, <1>17, <1>18, <1>19, <1>20, <1>21, <1>22, <1>23
  DEF Next, SipStack, MainScript, LuaGoesOn, Timer, StopGoesOn, ScriptThread, Finished

-----------------------------------------------------------------------------
(* Every part of the invariant is inductive *)

\* A call that on_incoming_call holds is live; only the end of its handler, or a
\* call that arrives, changes how many there are.
LEMMA StepCount == ASSUME TypeOK, CountInv, [Next]_vars PROVE CountInv'
<1> USE DEF registry, pjVars, luaVars, timerVars, mainVars
<1> USE PendingFinite
<1>1. ASSUME NEW c \in CallIds, IncomingCall(c) PROVE CountInv'
  <2>1. c \notin Pending
    BY <1>1 DEF IncomingCall, NewCall, WithinBounds, CountInv
  <2>2. Pending' = Pending \cup {c}
    BY <1>1 DEF IncomingCall, Pending, TypeOK
  <2>3. Cardinality(Pending') = Cardinality(Pending) + 1
    BY <2>1, <2>2, FS_AddElement
  <2>4. LuaPending' = LuaPending
    BY <1>1 DEF IncomingCall, LuaPending
  <2>5. \A d \in Pending' : pj'[d] = "live"
    BY <1>1, <2>2 DEF IncomingCall, NewCall, WithinBounds, CountInv, TypeOK
  <2>6. LuaPending \in {0, 1}
    BY DEF LuaPending
  <2>7. nextSid' = nextSid /\ calls_made' = calls_made + 1 /\ threads_made' = threads_made
    BY <1>1 DEF IncomingCall, NewCall, WithinBounds
  <2> QED
    BY <2>3, <2>4, <2>5, <2>6, <2>7 DEF CountInv, TypeOK
<1>2. ASSUME NEW c \in CallIds, IncomingDecide(c) PROVE CountInv'
  <2>0. ipc[c] = "decide" /\ ipc \in [CallIds -> {"none", "decide", "create"}]
        /\ (ipc' = [ipc EXCEPT ![c] = "create"] \/ ipc' = [ipc EXCEPT ![c] = "none"])
    BY <1>2 DEF IncomingDecide, TypeOK
  <2>1. CASE ipc' = [ipc EXCEPT ![c] = "create"]
    <3>1. Pending' = Pending
      BY <2>0, <2>1 DEF Pending
    <3>2. LuaPending' = LuaPending /\ nextSid' = nextSid /\ calls_made' = calls_made
          /\ threads_made' = threads_made
      BY <1>2 DEF IncomingDecide, LuaPending
    <3>3. pj' = pj
      <4>1. ipc'[c] = "create"
        BY <2>0, <2>1
      <4>2. ipc' # [ipc EXCEPT ![c] = "none"]
        BY <2>0, <4>1
      <4> QED
        BY <1>2, <4>2 DEF IncomingDecide
    <3> QED
      BY <3>1, <3>2, <3>3 DEF CountInv
  <2>2. CASE ipc' = [ipc EXCEPT ![c] = "none"]
    <3>1. Pending' = Pending \ {c} /\ c \in Pending
      BY <2>0, <2>2 DEF Pending
    <3>2. Cardinality(Pending') = Cardinality(Pending) - 1
      BY <3>1, FS_RemoveElement
    <3>3. LuaPending' = LuaPending /\ nextSid' = nextSid /\ calls_made' = calls_made
          /\ threads_made' = threads_made
      BY <1>2 DEF IncomingDecide, LuaPending
    <3>4. \A d \in Pending' : pj'[d] = "live"
      BY <1>2, <3>1 DEF IncomingDecide, CountInv, TypeOK, Pending
    <3>5. LuaPending \in {0, 1}
      BY DEF LuaPending
    <3> QED
      BY <3>2, <3>3, <3>4, <3>5 DEF CountInv, TypeOK
  <2> QED
    BY <2>0, <2>1, <2>2
<1>3. ASSUME NEW c \in CallIds, IncomingCreate(c) PROVE CountInv'
  <2>1. Pending' = Pending \ {c} /\ c \in Pending
    BY <1>3 DEF IncomingCreate, Pending, TypeOK
  <2>2. Cardinality(Pending') = Cardinality(Pending) - 1
    BY <2>1, FS_RemoveElement
  <2>3. nextSid' = nextSid + 1 /\ LuaPending' = LuaPending /\ calls_made' = calls_made
        /\ threads_made' = threads_made /\ pj' = pj
    BY <1>3 DEF IncomingCreate, RegisterCall, LuaPending
  <2>4. LuaPending \in {0, 1}
    BY DEF LuaPending
  <2> QED
    BY <2>1, <2>2, <2>3, <2>4 DEF CountInv, TypeOK
<1>4. ASSUME nextSid' = nextSid, ipc' = ipc, lpc' = lpc, calls_made' = calls_made,
             threads_made' = threads_made,
             \A c \in CallIds : ipc[c] # "none" /\ pj[c] = "live" => pj'[c] = "live"
      PROVE  CountInv'
  <2>1. Pending' = Pending /\ LuaPending' = LuaPending
    BY <1>4 DEF Pending, LuaPending
  <2>2. \A c \in Pending : ipc[c] # "none"
    BY DEF Pending
  <2> QED
    BY <1>4, <2>1, <2>2 DEF CountInv, Pending
<1>5. ASSUME NEW S \in SUBSET CallIds, pj' = HangUp(S)
      PROVE  \A c \in CallIds : ipc[c] # "none" /\ pj[c] = "live" => pj'[c] = "live"
  BY <1>5 DEF HangUp
<1>6. ASSUME NEW c \in CallIds, RemoteEnd(c) \/ OnCallState(c) \/ OnCallEvent(c)
      PROVE  CountInv'
  BY <1>4, <1>6 DEF RemoteEnd, OnCallState, OnCallEvent, TypeOK
<1>7. ASSUME ipc' = ipc, pj' = pj,
             nextSid' + LuaPending' - calls_made' - threads_made'
                 <= nextSid + LuaPending - calls_made - threads_made,
             {nextSid', LuaPending', calls_made', threads_made'} \subseteq Nat
      PROVE  CountInv'
  <2>1. Pending' = Pending
    BY <1>7 DEF Pending
  <2>2. LuaPending \in Nat
    BY DEF LuaPending
  <2> QED
    BY <1>7, <2>1, <2>2 DEF CountInv, TypeOK
<1>8. ASSUME NEW c \in CallIds, MakeCall(c) PROVE CountInv'
  <2>1. Pending' = Pending
    BY <1>8 DEF MakeCall, Pending
  <2>2. LuaPending = 0 /\ LuaPending' = 1 /\ nextSid' = nextSid
        /\ calls_made' = calls_made + 1 /\ threads_made' = threads_made
    BY <1>8 DEF MakeCall, NewCall, WithinBounds, LuaPending
  <2>3. \A d \in Pending : pj'[d] = "live"
    BY <1>8 DEF MakeCall, NewCall, WithinBounds, CountInv, TypeOK, Pending
  <2> QED
    BY <2>1, <2>2, <2>3 DEF CountInv, TypeOK
<1>9. CASE MakeDecide \/ MakeCreate \/ CollectByTag \/ ThreadDecide \/ ThreadCreate
  <2>1. ipc' = ipc /\ pj' = pj /\ calls_made' = calls_made
    BY <1>9 DEF MakeDecide, MakeCreate, CollectByTag, ThreadDecide, ThreadCreate
  <2>2. CASE MakeDecide
    BY <1>7, <2>1, <2>2 DEF MakeDecide, LuaPending, TypeOK
  <2>3. CASE MakeCreate
    BY <1>7, <2>1, <2>3 DEF MakeCreate, RegisterCall, LuaPending, TypeOK
  <2>4. CASE CollectByTag
    BY <1>7, <2>1, <2>4 DEF CollectByTag, LuaPending, TypeOK
  <2>5. CASE ThreadDecide
    BY <1>7, <2>1, <2>5 DEF ThreadDecide, LuaPending, TypeOK
  <2>6. CASE ThreadCreate
    BY <1>7, <2>1, <2>6 DEF ThreadCreate, LuaPending, TypeOK
  <2> QED
    BY <1>9, <2>2, <2>3, <2>4, <2>5, <2>6
<1>10. CASE HangupCollected
  <2>1. \A c \in CallIds : ipc[c] # "none" /\ pj[c] = "live" => pj'[c] = "live"
    BY <1>5, <1>10 DEF HangupCollected, TypeOK
  <2>2. Pending' = Pending /\ LuaPending = 0 /\ LuaPending' = 0
    BY <1>10 DEF HangupCollected, Pending, LuaPending
  <2> QED
    BY <1>10, <2>1, <2>2 DEF HangupCollected, CountInv, Pending
<1>11. ASSUME NEW i \in Sids, ScriptThread(i) \/ ScriptFinish(i) PROVE CountInv'
  <2>1. CASE ScriptHangup(i)
    <3>1. CASE sc[i].call \in CallIds
      BY <1>4, <1>5, <2>1, <3>1 DEF ScriptHangup
    <3>2. CASE sc[i].call \notin CallIds
      <4>1. pj' = HangUp({})
        BY <2>1, <3>2 DEF ScriptHangup, HangUp
      <4> QED
        BY <1>4, <1>5, <2>1, <4>1 DEF ScriptHangup
    <3> QED
      BY <3>1, <3>2
  <2>2. CASE ~ScriptHangup(i)
    BY <1>4, <1>11, <2>2
    DEF ScriptThread, ScriptReady, ScriptCreateLua, ScriptEnd, ScriptFinish, ScriptStep
  <2> QED
    BY <2>1, <2>2
<1>12. CASE Timer
  <2>1. CASE TimerHangup
    BY <1>4, <1>5, <2>1 DEF TimerHangup, TypeOK
  <2>2. CASE ~TimerHangup
    BY <1>4, <1>12, <2>2 DEF Timer, TimerFires, TimerReap, TimerCheckMedia, TimerDelete
  <2> QED
    BY <2>1, <2>2
<1>13. CASE HangupAll
  BY <1>4, <1>5, <1>13 DEF HangupAll
<1>14. CASE SystemDown
  BY <1>7, <1>14 DEF SystemDown, LuaPending, TypeOK
<1>15. CASE StartDone \/ StopSystem \/ CollectScripts \/ ClearScripts
           \/ (\E i \in Sids : DeleteStop(i)) \/ DeleteJoin \/ DeleteDone
  BY <1>4, <1>15 DEF StartDone, StopSystem, CollectScripts, ClearScripts, DeleteStop,
                     DeleteJoin, DeleteDone
<1>16. CASE UNCHANGED vars
  BY <1>4, <1>16 DEF vars
<1> QED
  BY <1>1, <1>2, <1>3, <1>6, <1>8, <1>9, <1>10, <1>11, <1>12, <1>13, <1>14, <1>15, <1>16
  DEF Next, SipStack, MainScript, LuaGoesOn, StopGoesOn, Finished

\* What the registry invariants speak about.
core == <<started, nextSid, scripts, calls, sc, freed, tbatch, mpc, mbatch, mdel>>
rest == <<started, freed, tmpc, tbatch, mpc, mbatch, mdel>>

\* A call script is registered under the mutex.
Registers == \E c \in CallIds, n \in Nat, b \in BOOLEAN, start \in Starts :
    /\ nextSid + 1 \in Sids
    /\ RegisterCall(c, n, b, start) /\ UNCHANGED rest

\* create_thread registers its script.
Threads == nextSid + 1 \in Sids /\ ThreadCreate

\* A script's thread goes on to its next phase.
Steps == \E i \in Sids, to \in Phases \ {"none", "failed"} :
    /\ sc[i].run \in Running
    /\ sc' = [sc EXCEPT ![i].run = to]
    /\ UNCHANGED <<nextSid, scripts, calls, rest>>

\* A step that the registry does not see, of the timer for one.
Unseen == UNCHANGED core /\ (tmpc' = tmpc \/ tbatch = {})

\* start() or stop() goes on.
Proceeds ==
    /\ UNCHANGED <<nextSid, scripts, calls, sc, freed, tmpc, tbatch, mbatch, mdel>>
    /\ \/ mpc' = "running" /\ started' /\ mpc # "delete"
       \/ mpc' # "running" /\ mpc' # "delete" /\ ~started' /\ (mpc = "delete" => mbatch = {})

\* Every step is one of these as far as the registry goes.
LEMMA StepCases ==
    ASSUME TypeOK, CountInv, BatchInv, [Next]_vars
    PROVE  \/ Registers \/ Steps \/ Unseen \/ Proceeds \/ Threads
           \/ TimerReap \/ CollectScripts \/ ClearScripts \/ DeleteJoin
           \/ \E c \in CallIds : OnCallState(c) \/ OnCallEvent(c)
           \/ \E i \in Sids : TimerDelete(i) \/ DeleteStop(i)
<1> USE DEF registry, pjVars, luaVars, timerVars, mainVars, core, rest
<1>1. ASSUME NEW c \in CallIds, IncomingCreate(c) PROVE Registers
  <2>1. pjno[c] \in Nat
    BY DEF TypeOK
  <2>2. nextSid + 1 \in Sids
    BY <1>1, IdLeft DEF IncomingCreate, Pending
  <2> QED
    BY <1>1, <2>1, <2>2 DEF IncomingCreate, Registers
<1>2. CASE MakeCreate
  <2>1. lset \subseteq CallIds /\ lno \in Nat
    BY DEF TypeOK
  <2>2. nextSid + 1 \in Sids
    BY <1>2, IdLeft DEF MakeCreate, LuaPending
  <2> QED
    BY <1>2, <2>1, <2>2 DEF MakeCreate, Registers
<1>3. ASSUME NEW i \in Sids, ScriptThread(i) \/ ScriptFinish(i) PROVE Steps
  <2>1. CASE ScriptHangup(i)
    BY <2>1 DEF ScriptHangup, Steps, Phases, Running
  <2>2. CASE ScriptReady(i)
    BY <2>2 DEF ScriptReady, ScriptStep, Steps, Phases, Running
  <2>3. CASE ScriptCreateLua(i)
    BY <2>3 DEF ScriptCreateLua, ScriptStep, Steps, Phases, Running
  <2>4. CASE ScriptEnd(i)
    BY <2>4 DEF ScriptEnd, ScriptStep, Steps, Phases, Running
  <2>5. CASE ScriptFinish(i)
    BY <2>5 DEF ScriptFinish, ScriptStep, Steps, Phases, Running
  <2> QED
    BY <1>3, <2>1, <2>2, <2>3, <2>4, <2>5 DEF ScriptThread
<1>4. CASE TimerFires \/ TimerCheckMedia \/ TimerHangup
  BY <1>4 DEF TimerFires, TimerCheckMedia, TimerHangup, Unseen, BatchInv
<1>5. CASE StartDone \/ StopSystem \/ HangupAll \/ DeleteDone \/ SystemDown
  BY <1>5 DEF StartDone, StopSystem, HangupAll, DeleteDone, SystemDown, Proceeds, BatchInv
<1>6. ASSUME NEW c \in CallIds,
             IncomingCall(c) \/ IncomingDecide(c) \/ RemoteEnd(c) \/ MakeCall(c)
      PROVE  Unseen
  BY <1>6 DEF IncomingCall, IncomingDecide, RemoteEnd, MakeCall, Unseen
<1>7. CASE MakeDecide \/ CollectByTag \/ HangupCollected \/ ThreadDecide
  BY <1>7 DEF MakeDecide, CollectByTag, HangupCollected, ThreadDecide, Unseen
<1>8. CASE ThreadCreate
  BY <1>8, IdLeft DEF ThreadCreate, LuaPending, Threads
<1>9. CASE UNCHANGED vars
  BY <1>9 DEF vars, Unseen
<1> QED
  BY <1>1, <1>2, <1>3, <1>4, <1>5, <1>6, <1>7, <1>8, <1>9
  DEF Next, SipStack, MainScript, LuaGoesOn, Timer, StopGoesOn, Finished

\* What create_call does to the script objects: the new one, and the old one of
\* the same call identifier, which it stops.
LEMMA RegisterEffect ==
    ASSUME TypeOK, NEW c \in CallIds, NEW n \in Nat, NEW b \in BOOLEAN,
           NEW start \in Starts, nextSid + 1 \in Sids, RegisterCall(c, n, b, start)
    PROVE  /\ sc'[nextSid + 1] = NewCallScript(c, n, b, start)
           /\ \A i \in Sids \ {nextSid + 1} :
                 /\ sc'[i].kind = sc[i].kind /\ sc'[i].call = sc[i].call
                 /\ sc'[i].run = sc[i].run /\ (sc[i].exit => sc'[i].exit)
                 /\ sc[i].run \notin Running => sc'[i] = sc[i]
                 /\ (i = calls[c] /\ i \in scripts /\ sc[i].kind = "call"
                        /\ sc[i].run \in Running) => sc'[i].exit
<1>1. sc'[nextSid + 1] = NewCallScript(c, n, b, start)
  BY DEF RegisterCall
<1>2. ASSUME NEW i \in Sids \ {nextSid + 1}
      PROVE  sc'[i] = IF i = calls[c] /\ i \in scripts /\ sc[i].kind = "call"
                        THEN Stop(sc[i]) ELSE sc[i]
  BY <1>2 DEF RegisterCall
<1>3. \A i \in Sids : sc[i] \in Script
  BY DEF TypeOK
<1> QED
  BY <1>1, <1>2, <1>3, StopProperties

\* Ids stay fresh: an object's id is never given out again.
LEMMA StepIds ==
    ASSUME TypeOK, CountInv, BatchInv, IdsInv, [Next]_vars
    PROVE  IdsInv'
<1> USE DEF registry, pjVars, luaVars, timerVars, mainVars, core, rest
<1>1. nextSid \in Nat /\ Sids = 1..MaxSid /\ \A i \in Sids : sc[i] \in Script
  BY SystemAssumption DEF TypeOK, Sids, MaxSid
<1>2. CASE Registers
  <2>1. PICK c \in CallIds, n \in Nat, b \in BOOLEAN, start \in Starts :
           RegisterCall(c, n, b, start)
    BY <1>2 DEF Registers
  <2>2. nextSid + 1 \in Sids /\ UNCHANGED rest
    BY <1>2 DEF Registers
  <2>3. /\ sc'[nextSid + 1] = NewCallScript(c, n, b, start)
        /\ \A i \in Sids \ {nextSid + 1} :
              /\ sc'[i].run = sc[i].run
              /\ sc[i].run \notin Running => sc'[i] = sc[i]
    BY <2>1, <2>2, RegisterEffect
  <2>4. sc'[nextSid + 1].run # "none"
    BY <2>3 DEF NewCallScript, Starts
  <2>5. NoScript.run \notin Running
    BY DEF NoScript, Running
  <2>6. \A i \in Sids : IF i <= nextSid' THEN sc'[i].run # "none"
                                         ELSE sc'[i] = NoScript /\ freed'[i] = 0
    BY <1>1, <2>1, <2>2, <2>3, <2>4, <2>5 DEF RegisterCall, IdsInv
  <2>7. \A d \in CallIds : calls'[d] \in 0..nextSid'
    BY <1>1, <2>1 DEF RegisterCall, IdsInv, TypeOK
  <2>8. nextSid' = nextSid + 1 /\ scripts' = scripts \cup {nextSid + 1}
    BY <2>1 DEF RegisterCall
  <2>9. scripts' \subseteq 1..nextSid'
    BY <1>1, <2>8 DEF IdsInv
  <2> QED
    BY <1>1, <2>2, <2>6, <2>7, <2>8, <2>9 DEF IdsInv
<1>3. CASE Threads
  <2>1. sc' = [sc EXCEPT ![nextSid + 1] = sc'[nextSid + 1]] /\ sc'[nextSid + 1].run # "none"
    BY <1>3 DEF Threads, ThreadCreate, NewThreadScript, NoScript, Starts, TypeOK
  <2>2. /\ nextSid' = nextSid + 1 /\ scripts' = scripts \cup {nextSid + 1}
        /\ nextSid + 1 \in Sids /\ UNCHANGED <<calls, rest>>
    BY <1>3 DEF Threads, ThreadCreate
  <2>3. \A i \in Sids \ {nextSid + 1} : sc'[i] = sc[i]
    BY <2>1 DEF TypeOK
  <2>4. \A i \in Sids : IF i <= nextSid' THEN sc'[i].run # "none"
                                         ELSE sc'[i] = NoScript /\ freed'[i] = 0
    BY <1>1, <2>1, <2>2, <2>3 DEF IdsInv
  <2> QED
    BY <1>1, <2>2, <2>4 DEF IdsInv
<1>4. CASE Steps
  <2>1. PICK i \in Sids, to \in Phases \ {"none", "failed"} :
           sc[i].run \in Running /\ sc' = [sc EXCEPT ![i].run = to]
    BY <1>4 DEF Steps
  <2>2. \A j \in Sids \ {i} : sc'[j] = sc[j]
    BY <2>1 DEF TypeOK
  <2>3. sc'[i].run # "none" /\ sc[i].run # "none" /\ sc[i] # NoScript
    BY <1>1, <2>1 DEF TypeOK, Running, NoScript, Script
  <2> QED
    BY <1>4, <2>2, <2>3 DEF Steps, IdsInv
<1>5. CASE Unseen \/ Proceeds
  BY <1>5 DEF Unseen, Proceeds, IdsInv
<1>6. ASSUME \A i \in Sids : sc'[i] \in {sc[i], Stop(sc[i])}
      PROVE  \A i \in Sids : /\ sc'[i].run = sc[i].run
                             /\ sc[i] = NoScript => sc'[i] = NoScript
  BY <1>1, <1>6, StopProperties DEF NoScript, Running
<1>7. ASSUME NEW c \in CallIds, OnCallState(c) PROVE IdsInv'
  <2>1. \A i \in Sids : sc'[i] \in {sc[i], Stop(sc[i])}
    BY <1>7 DEF OnCallState
  <2> QED
    BY <1>1, <1>6, <1>7, <2>1 DEF OnCallState, IdsInv, TypeOK, NoSid
<1>8. ASSUME NEW c \in CallIds, OnCallEvent(c) PROVE IdsInv'
  BY <1>1, <1>8 DEF OnCallEvent, IdsInv, TypeOK, NoSid
<1>9. CASE CollectScripts
  <2>1. \A i \in Sids : sc'[i] \in {sc[i], Stop(sc[i])}
    BY <1>9 DEF CollectScripts
  <2> QED
    BY <1>1, <1>6, <1>9, <2>1 DEF CollectScripts, IdsInv, NoSid
<1>10. ASSUME NEW i \in Sids, DeleteStop(i) PROVE IdsInv'
  <2>1. \A j \in Sids : sc'[j] \in {sc[j], Stop(sc[j])}
    BY <1>10 DEF DeleteStop, TypeOK
  <2> QED
    BY <1>1, <1>6, <1>10, <2>1 DEF DeleteStop, IdsInv
<1>11. CASE TimerReap \/ ClearScripts
  BY <1>11 DEF TimerReap, ClearScripts, IdsInv
<1>12. ASSUME NEW i \in Sids, TimerDelete(i) PROVE IdsInv'
  BY <1>1, <1>12 DEF TimerDelete, IdsInv, TypeOK
<1>13. CASE DeleteJoin
  BY <1>1, <1>13 DEF DeleteJoin, IdsInv, TypeOK, NoSid
<1> QED
  BY StepCases, <1>2, <1>3, <1>4, <1>5, <1>7, <1>8, <1>9, <1>10, <1>11, <1>12, <1>13

\* What any step may do to a script object that exists: its kind and call stay,
\* a stop is not taken back, and only a running thread goes on.
LEMMA ObjectStep ==
    ASSUME TypeOK, CountInv, BatchInv, IdsInv, [Next]_vars, NEW i \in Sids
    PROVE  /\ i <= nextSid =>
                /\ sc'[i].kind = sc[i].kind /\ sc'[i].call = sc[i].call
                /\ sc[i].run \notin Running => sc'[i] = sc[i]
                /\ sc'[i].run \notin {"none", "failed"} \/ sc'[i].run = sc[i].run
                /\ sc[i].exit => sc'[i].exit
                /\ sc'[i].run = sc[i].run \/ sc'[i].exit = sc[i].exit
           /\ i > nextSid /\ sc'[i] # sc[i] =>
                /\ i = nextSid + 1 /\ (Registers \/ Threads)
                /\ sc'[i].run \in Starts /\ ~sc'[i].exit
<1> USE DEF rest, core
<1>1. nextSid \in Nat /\ i \in Nat /\ sc[i] \in Script
  BY SystemAssumption DEF TypeOK, MaxSid, Sids
<1>2. CASE sc'[i] \in {sc[i], Stop(sc[i])}
  <2>1. i > nextSid => sc[i] = NoScript
    BY <1>1 DEF IdsInv, Sids
  <2>2. Stop(NoScript) = NoScript
    BY DEF Stop, NoScript, Running
  <2> QED
    BY <1>1, <1>2, <2>1, <2>2, StopProperties
<1>3. CASE Registers
  <2>1. PICK c \in CallIds, n \in Nat, b \in BOOLEAN, start \in Starts :
           RegisterCall(c, n, b, start)
    BY <1>3 DEF Registers
  <2>2. CASE i = nextSid + 1
    <3>1. sc'[i] = NewCallScript(c, n, b, start)
      BY <2>1, <2>2, RegisterEffect
    <3>2. sc'[i].run = start /\ sc'[i].exit = FALSE
      BY <3>1 DEF NewCallScript
    <3> QED
      BY <1>1, <1>3, <2>2, <3>2
  <2>3. CASE i # nextSid + 1
    <3>1. sc'[i] \in {sc[i], Stop(sc[i])}
      BY <2>1, <2>3 DEF RegisterCall
    <3> QED
      BY <1>2, <3>1
  <2> QED
    BY <2>2, <2>3
<1>4. CASE Threads
  <2>1. PICK start \in Starts : sc' = [sc EXCEPT ![nextSid + 1] = NewThreadScript(start)]
    BY <1>4 DEF Threads, ThreadCreate
  <2>2. CASE i = nextSid + 1
    <3>1. sc'[i] = NewThreadScript(start)
      BY <2>1, <2>2 DEF TypeOK
    <3>2. sc'[i].run = start /\ sc'[i].exit = FALSE
      BY <3>1 DEF NewThreadScript, NoScript
    <3> QED
      BY <1>1, <1>4, <2>2, <3>2
  <2>3. CASE i # nextSid + 1
    BY <1>2, <2>1, <2>3 DEF TypeOK
  <2> QED
    BY <2>2, <2>3
<1>5. CASE Steps
  <2>1. PICK j \in Sids, to \in Phases \ {"none", "failed"} :
           sc[j].run \in Running /\ sc' = [sc EXCEPT ![j].run = to]
    BY <1>5 DEF Steps
  <2>2. CASE i = j
    <3>1. i <= nextSid
      BY <1>1, <2>1, <2>2 DEF IdsInv, NoScript, Running, Sids
    <3>2. sc'[i] = [sc[i] EXCEPT !.run = to]
      BY <2>1, <2>2 DEF TypeOK
    <3>3. /\ sc'[i].kind = sc[i].kind /\ sc'[i].call = sc[i].call
          /\ sc'[i].run = to /\ sc'[i].exit = sc[i].exit
      BY <1>1, <3>2 DEF Script
    <3>4. to \notin {"none", "failed"} /\ sc[i].run \in Running /\ ~(i > nextSid)
      BY <1>1, <2>1, <2>2, <3>1
    <3> QED
      BY <3>3, <3>4
  <2>3. CASE i # j
    BY <1>2, <2>1, <2>3 DEF TypeOK
  <2> QED
    BY <2>2, <2>3
<1>6. CASE Unseen \/ Proceeds \/ TimerReap \/ ClearScripts \/ DeleteJoin
  BY <1>2, <1>6 DEF Unseen, Proceeds, TimerReap, ClearScripts, DeleteJoin
<1>7. CASE CollectScripts
  BY <1>2, <1>7 DEF CollectScripts
<1>8. ASSUME NEW c \in CallIds, OnCallState(c) \/ OnCallEvent(c)
      PROVE  sc'[i] \in {sc[i], Stop(sc[i])}
  BY <1>8 DEF OnCallState, OnCallEvent
<1>9. ASSUME NEW j \in Sids, TimerDelete(j) \/ DeleteStop(j)
      PROVE  sc'[i] \in {sc[i], Stop(sc[i])}
  BY <1>9 DEF TimerDelete, DeleteStop, TypeOK
<1> QED
  BY StepCases, <1>2, <1>3, <1>4, <1>5, <1>6, <1>7, <1>8, <1>9

\* A call's script object names a call.
LEMMA StepCall ==
    ASSUME TypeOK, CountInv, BatchInv, IdsInv, CallInv, [Next]_vars
    PROVE  CallInv'
<1> SUFFICES ASSUME NEW i \in Sids, sc'[i].kind = "call"
             PROVE  sc'[i].call \in CallIds
  BY DEF CallInv
<1>1. nextSid \in Nat /\ i \in Nat
  BY SystemAssumption DEF TypeOK, MaxSid, Sids
<1>2. CASE i <= nextSid \/ sc'[i] = sc[i]
  BY <1>1, <1>2, ObjectStep DEF CallInv
<1>3. CASE i > nextSid /\ sc'[i] # sc[i]
  <2>1. i = nextSid + 1 /\ (Registers \/ Threads)
    BY <1>3, ObjectStep
  <2>2. CASE Registers
    <3>1. PICK c \in CallIds, n \in Nat, b \in BOOLEAN, start \in Starts :
             RegisterCall(c, n, b, start)
      BY <2>2 DEF Registers
    <3>2. sc'[i] = NewCallScript(c, n, b, start)
      BY <2>1, <3>1, RegisterEffect
    <3> QED
      BY <3>2 DEF NewCallScript
  <2>3. CASE Threads
    BY <2>1, <2>3 DEF Threads, ThreadCreate, NewThreadScript, NoScript, TypeOK
  <2> QED
    BY <2>1, <2>2, <2>3
<1> QED
  BY <1>1, <1>2, <1>3

\* Scripts that the timer or the shutdown is about to delete stay out of m_scripts.
LEMMA StepBatch ==
    ASSUME TypeOK, CountInv, BatchInv, IdsInv, [Next]_vars
    PROVE  BatchInv'
<1> USE DEF registry, pjVars, luaVars, timerVars, mainVars, core, rest
<1>1. nextSid \in Nat /\ Sids \subseteq Nat
  BY SystemAssumption DEF TypeOK, MaxSid, Sids
<1>2. \A i \in Sids : i <= nextSid /\ sc[i].run = "completed" => sc'[i].run = "completed"
  BY ObjectStep DEF Running
<1>3. \A i \in tbatch \cup mbatch : i \in Sids /\ i <= nextSid /\ i # nextSid + 1
  BY <1>1 DEF IdsInv, TypeOK
<1>4. CASE Registers \/ Threads
  <2>1. scripts' = scripts \cup {nextSid + 1} /\ UNCHANGED rest
    BY <1>4 DEF Registers, RegisterCall, Threads, ThreadCreate
  <2> QED
    BY <1>2, <1>3, <2>1 DEF BatchInv
<1>5. CASE Steps
  BY <1>2, <1>3, <1>5 DEF Steps, BatchInv
<1>6. CASE Unseen
  BY <1>6 DEF Unseen, BatchInv
<1>7. CASE Proceeds
  BY <1>7 DEF Proceeds, BatchInv
<1>8. CASE TimerReap
  BY <1>8 DEF TimerReap, BatchInv, TypeOK
<1>9. CASE CollectScripts
  BY <1>2, <1>3, <1>9 DEF CollectScripts, BatchInv
<1>10. CASE ClearScripts
  BY <1>10 DEF ClearScripts, BatchInv
<1>11. CASE DeleteJoin
  BY <1>11 DEF DeleteJoin, BatchInv
<1>12. ASSUME NEW c \in CallIds, OnCallState(c) \/ OnCallEvent(c) PROVE BatchInv'
  BY <1>2, <1>3, <1>12 DEF OnCallState, OnCallEvent, BatchInv
<1>13. ASSUME NEW i \in Sids, TimerDelete(i) \/ DeleteStop(i) PROVE BatchInv'
  BY <1>2, <1>3, <1>13 DEF TimerDelete, DeleteStop, BatchInv
<1> QED
  BY StepCases, <1>4, <1>5, <1>6, <1>7, <1>8, <1>9, <1>10, <1>11, <1>12, <1>13

\* Which objects a step deletes: one from the timer's batch, or one whose thread
\* the shutdown has joined.
LEMMA DeleteStep ==
    ASSUME TypeOK, CountInv, BatchInv, IdsInv, [Next]_vars, NEW i \in Sids,
           freed'[i] # freed[i]
    PROVE  /\ scripts' = scripts /\ i \notin scripts /\ i <= nextSid
           /\ sc' = sc /\ sc[i].run \in {"completed", "failed"}
<1> USE DEF registry, pjVars, luaVars, timerVars, mainVars, core, rest
<1>1. nextSid \in Nat /\ Sids \subseteq Nat
  BY SystemAssumption DEF TypeOK, MaxSid, Sids
<1>2. \/ TimerDelete(i) \/ (DeleteJoin /\ mdel = i)
  BY StepCases
  DEF Registers, Steps, Unseen, Proceeds, Threads, ThreadCreate, TimerReap, CollectScripts,
      ClearScripts, OnCallState, OnCallEvent, DeleteStop, TimerDelete, DeleteJoin, TypeOK
<1>3. CASE TimerDelete(i)
  BY <1>1, <1>3 DEF TimerDelete, BatchInv, IdsInv
<1>4. CASE DeleteJoin /\ mdel = i
  <2>1. i \in mbatch /\ i \notin scripts /\ i <= nextSid
    BY <1>1, <1>4 DEF DeleteJoin, BatchInv, IdsInv, NoSid
  <2>2. sc[i].run \in Phases /\ sc[i].run # "none"
    BY <2>1 DEF TypeOK, Script, IdsInv
  <2> QED
    BY <1>4, <2>1, <2>2 DEF DeleteJoin, Phases
<1> QED
  BY <1>2, <1>3, <1>4

\* A script is deleted only after its thread has completed or failed to start.
LEMMA StepFreed ==
    ASSUME TypeOK, TypeOK', CountInv, BatchInv, IdsInv, FreedInv, [Next]_vars
    PROVE  FreedInv'
<1> SUFFICES ASSUME NEW i \in Sids, freed'[i] > 0
             PROVE  sc'[i].run \in {"completed", "failed"}
  BY DEF FreedInv
<1>1. CASE freed'[i] # freed[i]
  BY <1>1, DeleteStep
<1>2. CASE freed'[i] = freed[i]
  <2>1. sc[i].run \in {"completed", "failed"} /\ i <= nextSid
    BY <1>2, SystemAssumption DEF FreedInv, IdsInv, TypeOK, MaxSid, Sids
  <2> QED
    BY <2>1, ObjectStep DEF Running
<1> QED
  BY <1>1, <1>2

-----------------------------------------------------------------------------
(* The safety of the registry *)

\* No step deletes a script that get_script() can still find, or registers one
\* that was deleted.
LEMMA StepRegistered ==
    ASSUME TypeOK, CountInv, BatchInv, IdsInv, RegisteredNotFreed, [Next]_vars
    PROVE  RegisteredNotFreed'
<1> SUFFICES ASSUME NEW i \in scripts' PROVE freed'[i] = 0
  BY DEF RegisteredNotFreed
<1> USE DEF registry, pjVars, luaVars, timerVars, mainVars, core, rest
<1>1. nextSid \in Nat /\ Sids \subseteq Nat
  BY SystemAssumption DEF TypeOK, MaxSid, Sids
<1>2. \/ scripts' \subseteq scripts
      \/ (Registers \/ Threads) /\ scripts' = scripts \cup {nextSid + 1}
  BY StepCases
  DEF Registers, RegisterCall, Steps, Unseen, Proceeds, Threads, ThreadCreate, TimerReap,
      CollectScripts, ClearScripts, OnCallState, OnCallEvent, DeleteStop, TimerDelete,
      DeleteJoin
<1>3. CASE i \in scripts
  <2>1. i \in Sids /\ freed[i] = 0
    BY <1>3 DEF TypeOK, RegisteredNotFreed
  <2> QED
    BY <1>3, <2>1, DeleteStep
<1>4. CASE i \notin scripts
  <2>1. i = nextSid + 1 /\ i \in Sids /\ freed' = freed
    BY <1>2, <1>4 DEF Registers, Threads, ThreadCreate
  <2> QED
    BY <1>1, <2>1 DEF IdsInv
<1> QED
  BY <1>3, <1>4

\* No step lists a call identifier under another call's script, whether it
\* registers, reaps or leaves a stale entry behind.
LEMMA StepResolve ==
    ASSUME TypeOK, CountInv, BatchInv, IdsInv, CallsResolveToOwnCall, [Next]_vars
    PROVE  CallsResolveToOwnCall'
<1> SUFFICES ASSUME NEW c \in CallIds, calls'[c] \in scripts'
             PROVE  sc'[calls'[c]].kind = "call" /\ sc'[calls'[c]].call = c
  BY DEF CallsResolveToOwnCall, HasCall
<1> USE DEF registry, pjVars, luaVars, timerVars, mainVars, core, rest
<1>1. nextSid \in Nat /\ Sids \subseteq Nat /\ NoSid \notin Sids
  BY SystemAssumption DEF TypeOK, MaxSid, Sids, NoSid
<1>2. CASE calls'[c] = calls[c] /\ calls[c] \in scripts
  <2>1. calls[c] \in Sids /\ calls[c] <= nextSid
    BY <1>1, <1>2 DEF TypeOK, IdsInv
  <2> QED
    BY <1>2, <2>1, ObjectStep DEF CallsResolveToOwnCall, HasCall
<1>3. CASE Registers
  <2>1. PICK d \in CallIds, n \in Nat, b \in BOOLEAN, start \in Starts :
           RegisterCall(d, n, b, start)
    BY <1>3 DEF Registers
  <2>2. CASE c = d
    <3>1. calls'[c] = nextSid + 1 /\ nextSid + 1 \in Sids
      BY <1>3, <2>1, <2>2 DEF Registers, RegisterCall, TypeOK
    <3>2. sc'[nextSid + 1] = NewCallScript(d, n, b, start)
      BY <2>1, <3>1, RegisterEffect
    <3> QED
      BY <2>2, <3>1, <3>2 DEF NewCallScript
  <2>3. CASE c # d
    <3>1. calls'[c] = calls[c] /\ scripts' = scripts \cup {nextSid + 1}
      BY <2>1, <2>3 DEF RegisterCall, TypeOK
    <3>2. calls[c] # nextSid + 1
      BY <1>1 DEF IdsInv
    <3> QED
      BY <1>2, <3>1, <3>2
  <2> QED
    BY <2>2, <2>3
<1>4. CASE Threads
  <2>1. calls'[c] = calls[c] /\ scripts' = scripts \cup {nextSid + 1}
    BY <1>4 DEF Threads, ThreadCreate
  <2>2. calls[c] # nextSid + 1
    BY <1>1 DEF IdsInv
  <2> QED
    BY <1>2, <2>1, <2>2
<1>5. CASE scripts' \subseteq scripts /\ calls'[c] \in {calls[c], NoSid}
  <2>1. calls'[c] # NoSid
    BY <1>1, <1>5 DEF TypeOK
  <2> QED
    BY <1>2, <1>5, <2>1
<1> QED
  BY StepCases, <1>3, <1>4, <1>5
  DEF Steps, Unseen, Proceeds, TimerReap, CollectScripts, ClearScripts, OnCallState,
      OnCallEvent, DeleteStop, TimerDelete, DeleteJoin, TypeOK

\* No step loses the entry of a call script that is neither stopped nor over.
LEMMA StepMapped ==
    ASSUME TypeOK, TypeOK', CountInv, BatchInv, IdsInv, CallInv, UnstoppedCallIsMapped,
           [Next]_vars
    PROVE  UnstoppedCallIsMapped'
<1> SUFFICES ASSUME NEW i \in scripts', sc'[i].kind = "call",
                    sc'[i].run \in Running, ~sc'[i].exit
             PROVE  calls'[sc'[i].call] = i
  BY DEF UnstoppedCallIsMapped, Unstopped
<1> USE DEF registry, pjVars, luaVars, timerVars, mainVars, core, rest
<1>1. nextSid \in Nat /\ Sids \subseteq Nat /\ i \in Sids
  <2>1. nextSid \in Nat /\ scripts' \subseteq Sids
    BY DEF TypeOK
  <2> QED
    BY <2>1 DEF Sids
<1>2. ASSUME i \in scripts
      PROVE  /\ i <= nextSid /\ i # nextSid + 1
             /\ sc[i].kind = "call" /\ sc'[i].call = sc[i].call
             /\ sc[i].run \in Running /\ calls[sc[i].call] = i /\ sc[i].call \in CallIds
  <2>1. i <= nextSid /\ i # nextSid + 1
    BY <1>1, <1>2 DEF IdsInv
  <2>2. sc[i].kind = "call" /\ sc'[i].call = sc[i].call /\ sc[i].run \in Running
        /\ ~sc[i].exit
    BY <1>1, <2>1, ObjectStep
  <2> QED
    BY <1>1, <1>2, <2>1, <2>2 DEF UnstoppedCallIsMapped, Unstopped, CallInv
<1>3. CASE Registers
  <2>1. PICK d \in CallIds, n \in Nat, b \in BOOLEAN, start \in Starts :
           RegisterCall(d, n, b, start)
    BY <1>3 DEF Registers
  <2>2. nextSid + 1 \in Sids /\ scripts' = scripts \cup {nextSid + 1}
        /\ calls' = [calls EXCEPT ![d] = nextSid + 1]
    BY <1>3, <2>1 DEF Registers, RegisterCall
  <2>3. CASE i \notin scripts
    <3>1. i = nextSid + 1
      BY <2>2, <2>3
    <3>2. sc'[i] = NewCallScript(d, n, b, start)
      BY <2>1, <2>2, <3>1, RegisterEffect
    <3>3. sc'[i].call = d
      BY <3>2 DEF NewCallScript
    <3> QED
      BY <2>2, <3>1, <3>3 DEF TypeOK
  <2>4. CASE i \in scripts
    <3>1. sc[i].call # d
      <4>1. i \in Sids \ {nextSid + 1}
        BY <1>1, <1>2, <2>4
      <4>2. (i = calls[d] /\ i \in scripts /\ sc[i].kind = "call"
               /\ sc[i].run \in Running) => sc'[i].exit
        BY <2>1, <2>2, <4>1, RegisterEffect
      <4> QED
        BY <1>2, <2>4, <4>2
    <3> QED
      BY <1>2, <2>2, <2>4, <3>1 DEF TypeOK
  <2> QED
    BY <2>3, <2>4
<1>4. CASE Threads
  <2>1. calls' = calls /\ scripts' = scripts \cup {nextSid + 1} /\ nextSid + 1 \in Sids
    BY <1>4 DEF Threads, ThreadCreate
  <2>2. sc'[nextSid + 1].kind = "thread"
    BY <1>4, <2>1 DEF Threads, ThreadCreate, NewThreadScript, NoScript, TypeOK
  <2>3. i \in scripts
    BY <2>1, <2>2
  <2> QED
    BY <1>2, <2>1, <2>3
<1>5. CASE calls' = calls /\ scripts' \subseteq scripts
  BY <1>2, <1>5
<1>6. ASSUME NEW c \in CallIds, OnCallState(c) PROVE calls'[sc'[i].call] = i
  <2>1. i \in scripts
    BY <1>6 DEF OnCallState
  <2>2. ASSUME sc[i].call = c PROVE FALSE
    <3>1. sc'[i] = Stop(sc[i])
      BY <1>1, <1>2, <1>6, <2>1, <2>2 DEF OnCallState, HasCall
    <3>2. sc[i] \in Script
      BY <1>1 DEF TypeOK
    <3> QED
      BY <1>2, <2>1, <3>1, <3>2, StopProperties
  <2> QED
    BY <1>2, <1>6, <2>1, <2>2 DEF OnCallState, TypeOK
<1>7. ASSUME NEW c \in CallIds, OnCallEvent(c) PROVE calls'[sc'[i].call] = i
  <2>1. i \in scripts /\ ~HasCall(c) /\ calls' = [calls EXCEPT ![c] = NoSid]
    BY <1>7 DEF OnCallEvent
  <2>2. sc[i].call # c
    BY <1>2, <2>1 DEF HasCall
  <2> QED
    BY <1>2, <2>1, <2>2 DEF TypeOK
<1>8. CASE CollectScripts
  <2>1. i \in scripts /\ sc'[i] = Stop(sc[i]) /\ sc[i] \in Script
    BY <1>1, <1>8 DEF CollectScripts, TypeOK
  <2> QED
    BY <1>2, <2>1, StopProperties
<1> QED
  BY StepCases, <1>3, <1>4, <1>5, <1>6, <1>7, <1>8
  DEF Steps, Unseen, Proceeds, TimerReap, ClearScripts, DeleteStop, TimerDelete, DeleteJoin

\* The system is constructed with an empty registry, and no call exists.
LEMMA InitIInv == Init => IInv
<1> SUFFICES ASSUME Init PROVE IInv
  OBVIOUS
<1>1. TypeOK
  <2>1. NoScript \in Script
    BY DEF NoScript, Script, Phases
  <2>2. 0 \in 0..MaxSid
    BY SystemAssumption DEF MaxSid
  <2>3. sc \in [Sids -> Script] /\ freed \in [Sids -> Nat]
    BY <2>1 DEF Init
  <2>4. calls \in [CallIds -> Sids \cup {NoSid}] /\ pjno \in [CallIds -> Nat]
    BY DEF Init
  <2>5. calls_made \in 0..MaxCalls /\ threads_made \in 0..MaxThreads
        /\ calls_made + threads_made <= MaxBoth
    BY SystemAssumption DEF Init
  <2> QED
    BY <2>2, <2>3, <2>4, <2>5 DEF Init, TypeOK
<1>2. CountInv
  <2>1. Pending = {} /\ LuaPending = 0
    BY DEF Init, Pending, LuaPending
  <2> QED
    BY <2>1, FS_EmptySet DEF Init, CountInv
<1>3. IdsInv
  BY DEF Init, IdsInv, NoSid, Sids
<1>4. BatchInv /\ FreedInv /\ CallInv
  BY DEF Init, BatchInv, FreedInv, CallInv, NoScript
<1>5. Safe
  BY DEF Init, Safe, RegisteredNotFreed, CallsResolveToOwnCall, HasCall, UnstoppedCallIsMapped
<1> QED
  BY <1>1, <1>2, <1>3, <1>4, <1>5 DEF IInv

\* IInv holds in every reachable state.
THEOREM Invariance == Spec => []IInv
<1>1. IInv /\ [Next]_vars => IInv'
  BY StepTypeOK, StepCount, StepIds, StepBatch, StepFreed, StepCall, StepRegistered,
     StepResolve, StepMapped
  DEF IInv, Safe
<1> QED
  BY <1>1, InitIInv, PTL DEF Spec

\* The registry's variables keep their types; above all, ids never run out.
THEOREM TypeCorrect == Spec => []TypeOK
  BY Invariance, PTL DEF IInv

\* What get_call() and get_script() return has not been deleted.
THEOREM NoDanglingScripts == Spec => []RegisteredNotFreed
  BY Invariance, PTL DEF IInv, Safe

\* The unchecked cast of get_call() is sound, stale entries of m_calls included.
THEOREM CallsResolve == Spec => []CallsResolveToOwnCall
  BY Invariance, PTL DEF IInv, Safe

\* A call script that nobody stopped is found by the end of its call.
THEOREM CallsAreMapped == Spec => []UnstoppedCallIsMapped
  BY Invariance, PTL DEF IInv, Safe

\* Only completed scripts leave the registry while the system is started.
THEOREM OnlyCompletedLeave == Spec => LeavesCompleted
<1>1. ASSUME IInv, [Next]_vars, started', NEW i \in scripts \ scripts'
      PROVE  sc[i].run = "completed"
  <2>1. CASE TimerReap
    BY <1>1, <2>1 DEF TimerReap
  <2>2. ~ClearScripts
    BY <1>1 DEF ClearScripts, IInv, BatchInv
  <2> QED
    BY <1>1, <2>1, <2>2, StepCases
    DEF IInv, Registers, RegisterCall, Steps, Unseen, Proceeds, Threads, ThreadCreate,
        CollectScripts, OnCallState, OnCallEvent, DeleteStop, TimerDelete, DeleteJoin,
        core, registry
<1>2. IInv /\ [Next]_vars =>
        [started' => \A i \in scripts \ scripts' : sc[i].run = "completed"]_vars
  BY <1>1
<1> QED
  BY <1>2, Invariance, PTL DEF Spec, LeavesCompleted

-----------------------------------------------------------------------------
(* The scripts of incoming calls *)

\* Only a call's script is inbound, and while nobody has stopped it its own call
\* occupies the slot.
OriginInv ==
    /\ \A i \in Sids : sc[i].inbound => sc[i].kind = "call"
    /\ NoOrphanIncoming

\* Once a slot is taken, it keeps its call until the end of that call is told.
LEMMA SlotStep ==
    ASSUME TypeOK, CountInv, [Next]_vars, NEW c \in CallIds, pj[c] # "free"
    PROVE  (pj'[c] # "free" /\ pjno'[c] = pjno[c]) \/ OnCallState(c)
<1> USE DEF registry, pjVars, luaVars, timerVars, mainVars
<1>0. pj \in [CallIds -> {"free", "live", "ended"}] /\ pjno \in [CallIds -> Nat]
  BY DEF TypeOK
<1>1. ASSUME NEW S, pj' = HangUp(S), pjno' = pjno PROVE pj'[c] # "free" /\ pjno'[c] = pjno[c]
  BY <1>0, <1>1 DEF HangUp
<1>2. ASSUME NEW d \in CallIds, SipStack(d) \/ MakeCall(d)
      PROVE  (pj'[c] # "free" /\ pjno'[c] = pjno[c]) \/ OnCallState(c)
  <2>1. CASE d # c
    BY <1>0, <1>2, <2>1
    DEF SipStack, IncomingCall, IncomingDecide, IncomingCreate, RemoteEnd, OnCallState,
        OnCallEvent, MakeCall, NewCall
  <2>2. CASE d = c
    BY <1>0, <1>2, <2>2
    DEF SipStack, IncomingCall, IncomingDecide, IncomingCreate, RemoteEnd, OnCallEvent,
        MakeCall, NewCall
  <2> QED
    BY <2>1, <2>2
<1>3. CASE HangupCollected \/ TimerHangup \/ HangupAll \/ \E i \in Sids : ScriptHangup(i)
  BY <1>1, <1>3 DEF HangupCollected, TimerHangup, HangupAll, ScriptHangup
<1>4. CASE pj' = pj /\ pjno' = pjno
  BY <1>4
<1> QED
  BY <1>2, <1>3, <1>4
  DEF Next, MainScript, LuaGoesOn, MakeDecide, MakeCreate, CollectByTag, ThreadDecide,
      ThreadCreate, Timer, TimerFires, TimerReap, TimerCheckMedia, TimerDelete, StartDone,
      StopSystem, StopGoesOn, CollectScripts, ClearScripts, DeleteStop, DeleteJoin,
      DeleteDone, SystemDown, ScriptThread, ScriptReady, ScriptCreateLua, ScriptEnd,
      ScriptFinish, ScriptStep, Finished, vars

\* No step changes which call a script object was made for, or on which side.
LEMMA OriginStep ==
    ASSUME TypeOK, CountInv, BatchInv, IdsInv, [Next]_vars, NEW i \in Sids, i <= nextSid
    PROVE  sc'[i].inbound = sc[i].inbound /\ sc'[i].no = sc[i].no
<1>1. nextSid \in Nat /\ i \in Nat /\ sc[i] \in Script
  BY SystemAssumption DEF TypeOK, MaxSid, Sids
<1>2. CASE sc'[i] = sc[i]
  BY <1>2
<1>3. CASE sc'[i] = Stop(sc[i])
  BY <1>1, <1>3 DEF Stop, Script
<1>4. CASE Registers
  <2>1. PICK c \in CallIds, n \in Nat, b \in BOOLEAN, start \in Starts :
           RegisterCall(c, n, b, start)
    BY <1>4 DEF Registers
  <2>2. i # nextSid + 1
    BY <1>1
  <2> QED
    BY <1>2, <1>3, <2>1, <2>2 DEF RegisterCall
<1>5. CASE Threads
  <2>1. i # nextSid + 1
    BY <1>1
  <2> QED
    BY <1>2, <1>5, <2>1 DEF Threads, ThreadCreate, TypeOK
<1>6. CASE Steps
  <2>1. PICK j \in Sids, to \in Phases : sc' = [sc EXCEPT ![j].run = to]
    BY <1>6 DEF Steps
  <2>2. CASE i = j
    <3>1. sc'[i] = [sc[i] EXCEPT !.run = to]
      BY <2>1, <2>2 DEF TypeOK
    <3> QED
      BY <1>1, <3>1 DEF Script
  <2>3. CASE i # j
    BY <1>2, <2>1, <2>3 DEF TypeOK
  <2> QED
    BY <2>2, <2>3
<1>7. CASE Unseen \/ Proceeds \/ TimerReap \/ ClearScripts \/ DeleteJoin
  BY <1>2, <1>7 DEF Unseen, Proceeds, TimerReap, ClearScripts, DeleteJoin, core
<1>8. CASE CollectScripts
  BY <1>2, <1>3, <1>8 DEF CollectScripts
<1>9. ASSUME NEW c \in CallIds, OnCallState(c) \/ OnCallEvent(c)
      PROVE  sc'[i] \in {sc[i], Stop(sc[i])}
  BY <1>9 DEF OnCallState, OnCallEvent
<1>10. ASSUME NEW j \in Sids, TimerDelete(j) \/ DeleteStop(j)
       PROVE  sc'[i] \in {sc[i], Stop(sc[i])}
  BY <1>10 DEF TimerDelete, DeleteStop, TypeOK
<1> QED
  BY StepCases, <1>2, <1>3, <1>4, <1>5, <1>6, <1>7, <1>8, <1>9, <1>10

\* A script that a step adds is inbound only when on_incoming_call made it, for the call
\* that it holds.
LEMMA NewOrigin ==
    ASSUME TypeOK, CountInv, BatchInv, IdsInv, [Next]_vars, NEW i \in Sids, i > nextSid,
           sc'[i].inbound
    PROVE  /\ sc'[i].kind = "call" /\ sc'[i].call \in CallIds
           /\ pj'[sc'[i].call] # "free" /\ pjno'[sc'[i].call] = sc'[i].no
<1> USE DEF registry, pjVars, luaVars, timerVars, mainVars, core, rest
<1>1. nextSid \in Nat /\ Sids \subseteq Nat
  BY SystemAssumption DEF TypeOK, MaxSid, Sids
<1>2. sc[i] = NoScript
  BY <1>1 DEF IdsInv
<1>3. ~NoScript.inbound
  BY DEF NoScript
<1>4. i = nextSid + 1 /\ (Registers \/ Threads)
  BY <1>2, <1>3, ObjectStep
<1>5. ~Threads
  <2> SUFFICES ASSUME Threads PROVE FALSE
    OBVIOUS
  <2>1. PICK start \in Starts : sc' = [sc EXCEPT ![nextSid + 1] = NewThreadScript(start)]
    BY DEF Threads, ThreadCreate
  <2>2. sc'[i] = NewThreadScript(start)
    BY <1>4, <2>1 DEF TypeOK
  <2> QED
    BY <2>2 DEF NewThreadScript, NoScript
<1>6. scripts' = scripts \cup {i} /\ i \notin scripts
  BY <1>1, <1>4, <1>5 DEF Registers, RegisterCall, IdsInv
<1>7. MakeCreate \/ ThreadCreate \/ \E c \in CallIds : IncomingCreate(c)
  BY <1>6
  DEF Next, SipStack, IncomingCall, IncomingDecide, RemoteEnd, OnCallState, OnCallEvent,
      MainScript, LuaGoesOn, MakeCall, MakeDecide, CollectByTag, HangupCollected,
      ThreadDecide, Timer, TimerFires, TimerReap, TimerCheckMedia, TimerHangup, TimerDelete,
      StartDone, StopSystem, StopGoesOn, HangupAll, CollectScripts, ClearScripts, DeleteStop,
      DeleteJoin, DeleteDone, SystemDown, ScriptThread, ScriptReady, ScriptCreateLua,
      ScriptEnd, ScriptHangup, ScriptFinish, ScriptStep, Finished, vars
<1>8. ~ThreadCreate
  BY <1>4, <1>5 DEF Threads
<1>9. ~MakeCreate
  <2> SUFFICES ASSUME MakeCreate PROVE FALSE
    OBVIOUS
  <2>1. PICK c \in lset, start \in Starts : RegisterCall(c, lno, FALSE, start)
    BY DEF MakeCreate
  <2>2. c \in CallIds /\ lno \in Nat
    BY DEF TypeOK
  <2>3. sc'[i] = NewCallScript(c, lno, FALSE, start)
    BY <1>4, <2>1, <2>2, RegisterEffect
  <2> QED
    BY <2>3 DEF NewCallScript
<1>10. PICK c \in CallIds : IncomingCreate(c)
  BY <1>7, <1>8, <1>9
<1>11. PICK start \in Starts : RegisterCall(c, pjno[c], TRUE, start)
  BY <1>10 DEF IncomingCreate
<1>12. pjno[c] \in Nat /\ pj[c] = "live"
  BY <1>10 DEF TypeOK, IncomingCreate, CountInv, Pending
<1>13. sc'[i] = NewCallScript(c, pjno[c], TRUE, start)
  BY <1>4, <1>11, <1>12, RegisterEffect
<1> QED
  BY <1>10, <1>12, <1>13 DEF NewCallScript, IncomingCreate

\* The end of a call stops its script before the slot is given to another, and a script
\* is registered only while its call is held: no step leaves an inbound script behind.
LEMMA StepOrigin == ASSUME IInv, OriginInv, [Next]_vars PROVE OriginInv'
<1> USE DEF IInv
<1>1. nextSid \in Nat /\ Sids \subseteq Nat
  BY SystemAssumption DEF TypeOK, MaxSid, Sids
<1>2. TypeOK'
  BY StepTypeOK
<1>3. ASSUME NEW i \in Sids, sc'[i].inbound PROVE sc'[i].kind = "call"
  <2>1. CASE i <= nextSid
    BY <1>3, <2>1, OriginStep, ObjectStep DEF OriginInv
  <2>2. CASE i > nextSid
    BY <1>3, <2>2, NewOrigin
  <2> QED
    BY <1>1, <2>1, <2>2
<1>4. ASSUME NEW i \in scripts', sc'[i].inbound, sc'[i].run \in Running, ~sc'[i].exit
      PROVE  pj'[sc'[i].call] # "free" /\ pjno'[sc'[i].call] = sc'[i].no
  <2>0. i \in Sids
    BY <1>2 DEF TypeOK
  <2>1. CASE i > nextSid
    BY <1>4, <2>0, <2>1, NewOrigin
  <2>2. CASE i <= nextSid
    <3>1. i \in scripts
      BY <1>1, <2>0, <2>2, StepCases
      DEF Registers, RegisterCall, Steps, Unseen, Proceeds, Threads, ThreadCreate, TimerReap,
          CollectScripts, ClearScripts, OnCallState, OnCallEvent, DeleteStop, TimerDelete,
          DeleteJoin, core, rest, registry
    <3>2. /\ sc'[i].call = sc[i].call /\ sc'[i].no = sc[i].no /\ sc[i].inbound
          /\ sc[i].kind = "call" /\ sc[i].run \in Running /\ ~sc[i].exit
      BY <1>4, <2>0, <2>2, OriginStep, ObjectStep DEF OriginInv
    <3> DEFINE c == sc[i].call
    <3>3. c \in CallIds /\ calls[c] = i
      BY <2>0, <3>1, <3>2 DEF CallInv, Safe, UnstoppedCallIsMapped, Unstopped
    <3>4. pj[c] # "free" /\ pjno[c] = sc[i].no
      BY <3>1, <3>2 DEF OriginInv, NoOrphanIncoming, Unstopped
    <3>5. ~OnCallState(c)
      <4> SUFFICES ASSUME OnCallState(c) PROVE FALSE
        OBVIOUS
      <4>1. sc'[i] = Stop(sc[i])
        BY <2>0, <3>1, <3>3 DEF OnCallState, HasCall
      <4>2. sc[i] \in Script
        BY <2>0 DEF TypeOK
      <4> QED
        BY <1>4, <3>2, <4>1, <4>2, StopProperties
    <3> HIDE DEF c
    <3>6. pj'[c] # "free" /\ pjno'[c] = pjno[c]
      BY <3>3, <3>4, <3>5, SlotStep
    <3> QED
      BY <3>2, <3>4, <3>6 DEF c
  <2> QED
    BY <1>1, <2>0, <2>1, <2>2
<1> QED
  BY <1>3, <1>4 DEF OriginInv, NoOrphanIncoming, Unstopped

\* The script of an incoming call that nobody has stopped has its own call on the line:
\* it never goes on for a call that ended, or for the next one in the slot.
THEOREM IncomingHasItsCall == Spec => []NoOrphanIncoming
<1>1. Init => OriginInv
  BY DEF Init, OriginInv, NoOrphanIncoming, NoScript
<1>2. IInv /\ OriginInv /\ [Next]_vars => OriginInv'
  BY StepOrigin
<1> QED
  BY <1>1, <1>2, Invariance, PTL DEF Spec, OriginInv

-----------------------------------------------------------------------------
(* Every script lives the life of ScriptLife *)

\* A step starts, stops, completes or deletes a script, or does nothing to it.
LEMMA LifeStep ==
    ASSUME IInv, IInv', [Next]_vars, NEW i \in Sids
    PROVE  [Life(i)!Next]_(Life(i)!vars)
<1> USE DEF Life!vars, Life!Next, Life!Start, Life!Stop, Life!Complete, Life!Delete
<1>1. /\ nextSid \in Nat /\ i \in Nat /\ sc[i] \in Script /\ sc'[i] \in Script
      /\ freed[i] \in Nat /\ freed'[i] \in Nat
  <2>1. TypeOK /\ TypeOK' /\ Sids \subseteq Nat
    BY SystemAssumption DEF IInv, MaxSid, Sids
  <2>2. nextSid \in Nat
    BY <2>1, SystemAssumption DEF TypeOK, MaxSid
  <2> QED
    BY <2>1, <2>2 DEF TypeOK
<1>2. CASE freed'[i] # freed[i]
  <2>1. sc' = sc /\ sc[i].run \in {"completed", "failed"}
    BY <1>2, DeleteStep DEF IInv
  <2>2. freed'[i] > 0
    BY <1>2, StepCases
    DEF IInv, TypeOK, Registers, Steps, Unseen, Proceeds, Threads, ThreadCreate, TimerReap,
        CollectScripts, ClearScripts, OnCallState, OnCallEvent, DeleteStop, TimerDelete,
        DeleteJoin, core, rest
  <2> QED
    BY <1>1, <2>1, <2>2 DEF Phase
<1>3. CASE freed'[i] = freed[i] /\ i <= nextSid
  <2>1. /\ sc[i].run \notin Running => sc'[i] = sc[i]
        /\ sc'[i].run \notin {"none", "failed"} \/ sc'[i].run = sc[i].run
        /\ sc[i].exit => sc'[i].exit
        /\ sc'[i].run = sc[i].run \/ sc'[i].exit = sc[i].exit
    BY <1>1, <1>3, ObjectStep DEF IInv
  <2>2. freed[i] > 0 => sc[i].run \notin Running
    BY DEF IInv, FreedInv, Running
  <2>3. sc[i].run # "none" /\ sc[i].run \in Phases /\ sc'[i].run \in Phases
        /\ sc[i].exit \in BOOLEAN /\ sc'[i].exit \in BOOLEAN
    BY <1>1, <1>3 DEF IInv, IdsInv, Script
  <2>4. CASE sc[i].run \notin Running
    BY <1>3, <2>1, <2>4 DEF Phase
  <2>5. CASE sc[i].run \in Running
    <3>1. freed[i] = 0 /\ freed'[i] = 0
      BY <1>1, <1>3, <2>2, <2>5
    <3>2. Phase(i) = "running"
      BY <2>5, <3>1 DEF Phase, Running
    <3>3. Phase(i)' = IF sc'[i].run = "completed" THEN "completed" ELSE "running"
      BY <2>1, <2>3, <2>5, <3>1 DEF Phase, Running
    <3>4. CASE sc'[i].exit = sc[i].exit
      BY <3>2, <3>3, <3>4
    <3>5. CASE sc'[i].exit # sc[i].exit
      <4>1. sc'[i].run = sc[i].run
        BY <2>1, <3>5
      <4>2. CASE sc[i].exit = TRUE
        BY <2>1, <2>3, <3>5, <4>2
      <4>3. CASE sc[i].exit = FALSE
        <5>1. sc'[i].exit = TRUE
          BY <2>3, <3>5, <4>3
        <5> QED
          BY <2>5, <3>2, <3>3, <4>1, <5>1 DEF Running
      <4> QED
        BY <2>3, <4>2, <4>3
    <3> QED
      BY <3>4, <3>5
  <2> QED
    BY <2>4, <2>5
<1>4. CASE freed'[i] = freed[i] /\ i > nextSid
  <2>1. sc[i] = NoScript /\ freed[i] = 0
    BY <1>1, <1>4 DEF IInv, IdsInv
  <2>2. CASE sc'[i] = sc[i]
    BY <1>4, <2>2 DEF Phase
  <2>3. CASE sc'[i] # sc[i]
    <3>1. sc'[i].run \in Starts /\ ~sc'[i].exit
      BY <1>1, <1>4, <2>3, ObjectStep DEF IInv
    <3>2. sc[i].run = "none" /\ sc[i].exit = FALSE /\ sc'[i].exit = FALSE
      BY <1>1, <2>1, <3>1 DEF NoScript, Script
    <3> QED
      BY <1>4, <2>1, <3>1, <3>2 DEF Phase, Starts
  <2> QED
    BY <2>2, <2>3
<1>5. i <= nextSid \/ i > nextSid
  BY <1>1
<1> QED
  BY <1>2, <1>3, <1>4, <1>5

\* Whatever the timer, the shutdown and the callbacks do to each other, each
\* script object lives as ScriptLife says: it is deleted only when its thread
\* has completed or could not be started.
THEOREM ScriptsLiveAsPromised == Spec => ImplementsScriptLife
<1>1. Init => \A i \in Sids : Life(i)!Init
  BY DEF Init, Life!Init, Phase, NoScript
<1>2. IInv /\ IInv' /\ [Next]_vars =>
        [\A i \in Sids : [Life(i)!Next]_(Life(i)!vars)]_vars
  BY LifeStep
<1> QED
  BY <1>1, <1>2, Invariance, PTL DEF Spec, ImplementsScriptLife

-----------------------------------------------------------------------------
(* The shutdown: what ShutdownEnds rests on.                               *)

\* stop() has begun, and what it has still to do.
Stopping == mpc \notin {"starting", "running"}
StageToGo == [hangup |-> 5, collect |-> 4, clear |-> 3, delete |-> 2, join |-> 1, down |-> 0]

\* The script whose thread a destructor in clean_system waits for, and what that thread
\* has still to do.
Awaited(i) == mpc = "delete" /\ mdel = i /\ sc[i].run \in Running
ThreadToGo == [spawned |-> 5, ready |-> 4, lua |-> 3, ending |-> 2, hangup |-> 1,
               completed |-> 0]

\* Once stop() has begun it is not undone.  Each of its steps brings it nearer to the end
\* (a stage, a script, the stop or the join of that script), as does each step of the
\* script that it waits for; no other step takes it farther away.
NearerToDown ==
    Stopping =>
        /\ Stopping'
        /\ \/ StageToGo[mpc'] < StageToGo[mpc]
           \/ mpc' = mpc /\ mbatch' \subseteq mbatch /\ mbatch' # mbatch
           \/ mpc' = mpc /\ mbatch' = mbatch /\ mdel = NoSid /\ mdel' # NoSid
           \/ /\ UNCHANGED mainVars /\ ~StopGoesOn
              /\ \A i \in Sids : Awaited(i) =>
                    \/ ThreadToGo[sc'[i].run] < ThreadToGo[sc[i].run]
                    \/ sc'[i].run = sc[i].run /\ ~ScriptThread(i) /\ ~HookEnds(i)

\* A script that is waited for was told to end, and can: if it is in Lua code, its hook
\* is set.
AwaitedHasHeard ==
    \A i \in Sids : Awaited(i) => sc[i].exit /\ (sc[i].run = "lua" => sc[i].hooked)

\* Entry by entry.
LEMMA ThreadToGoIs ==
    /\ ThreadToGo["spawned"] = 5 /\ ThreadToGo["ready"] = 4 /\ ThreadToGo["lua"] = 3
    /\ ThreadToGo["ending"] = 2 /\ ThreadToGo["hangup"] = 1 /\ ThreadToGo["completed"] = 0
  BY DEF ThreadToGo

\* Entry by entry.
LEMMA StageToGoIs ==
    /\ StageToGo["hangup"] = 5 /\ StageToGo["collect"] = 4 /\ StageToGo["clear"] = 3
    /\ StageToGo["delete"] = 2 /\ StageToGo["join"] = 1 /\ StageToGo["down"] = 0
  BY DEF StageToGo

\* A step stops a script that exists, or leaves it alone, or is one of its thread.
LEMMA StopsOrLeaves ==
    ASSUME IInv, [Next]_vars, NEW i \in Sids, i <= nextSid,
           ~ScriptThread(i), ~ScriptFinish(i)
    PROVE  sc'[i] \in {sc[i], Stop(sc[i])}
<1> USE DEF registry, pjVars, luaVars, timerVars, mainVars
<1>1. /\ sc \in [Sids -> Script] /\ nextSid \in Nat /\ i \in Nat /\ i # nextSid + 1
  BY SystemAssumption DEF IInv, TypeOK, MaxSid, Sids
<1>2. ASSUME NEW c \in CallIds, SipStack(c) PROVE sc'[i] \in {sc[i], Stop(sc[i])}
  <2>1. CASE IncomingCreate(c)
    BY <1>1, <2>1 DEF IncomingCreate, RegisterCall
  <2>2. CASE OnCallState(c)
    BY <2>2 DEF OnCallState
  <2> QED
    BY <1>2, <2>1, <2>2 DEF SipStack, IncomingCall, IncomingDecide, RemoteEnd, OnCallEvent
<1>3. CASE MainScript
  <2>1. CASE MakeCreate
    BY <1>1, <2>1 DEF MakeCreate, RegisterCall
  <2>2. CASE ThreadCreate
    BY <1>1, <2>2 DEF ThreadCreate
  <2> QED
    BY <1>3, <2>1, <2>2
    DEF MainScript, LuaGoesOn, MakeCall, CollectByTag, ThreadDecide, MakeDecide, HangupCollected
<1>4. CASE Timer
  BY <1>4 DEF Timer, TimerFires, TimerReap, TimerCheckMedia, TimerHangup, TimerDelete
<1>5. CASE StartDone \/ StopSystem
  BY <1>5 DEF StartDone, StopSystem
<1>6. CASE StopGoesOn
  <2>1. ASSUME NEW j \in Sids, DeleteStop(j) PROVE sc'[i] \in {sc[i], Stop(sc[i])}
    BY <1>1, <2>1 DEF DeleteStop
  <2>2. CASE CollectScripts
    BY <2>2 DEF CollectScripts
  <2> QED
    BY <1>6, <2>1, <2>2
    DEF StopGoesOn, HangupAll, ClearScripts, DeleteJoin, DeleteDone, SystemDown
<1>7. ASSUME NEW j \in Sids, ScriptThread(j) \/ ScriptFinish(j) PROVE sc'[i] = sc[i]
  <2>1. i # j
    BY <1>7
  <2>2. PICK to : sc' = [sc EXCEPT ![j].run = to]
    BY <1>7 DEF ScriptThread, ScriptReady, ScriptCreateLua, ScriptEnd, ScriptHangup,
                ScriptFinish, ScriptStep
  <2> QED
    BY <1>1, <2>1, <2>2
<1>8. CASE Finished \/ UNCHANGED vars
  BY <1>8 DEF Finished, vars
<1> QED
  BY <1>2, <1>3, <1>4, <1>5, <1>6, <1>7, <1>8 DEF Next

\* A step of a script's thread brings it nearer to its end, and to Lua code only from
\* the place where the Lua state is made.
LEMMA ThreadNearer ==
    ASSUME TypeOK, NEW i \in Sids, ScriptThread(i) \/ ScriptFinish(i)
    PROVE  /\ ThreadToGo[sc'[i].run] < ThreadToGo[sc[i].run]
           /\ sc'[i].run = "lua" => sc[i].run = "ready"
           /\ UNCHANGED mainVars
<1> USE ThreadToGoIs DEF TypeOK, Script, mainVars
<1>1. CASE ScriptReady(i)
  BY <1>1 DEF ScriptReady, ScriptStep
<1>2. CASE ScriptCreateLua(i)
  BY <1>2 DEF ScriptCreateLua, ScriptStep
<1>3. CASE ScriptFinish(i)
  BY <1>3 DEF ScriptFinish, ScriptStep
<1>4. CASE ScriptEnd(i)
  BY <1>4 DEF ScriptEnd, ScriptStep
<1>5. CASE ScriptHangup(i)
  BY <1>5 DEF ScriptHangup
<1> QED
  BY <1>1, <1>2, <1>3, <1>4, <1>5 DEF ScriptThread

\* Nobody but the thread in start() and stop() moves it on.
LEMMA OthersLeave ==
    ASSUME TypeOK, [Next]_vars
    PROVE  StopGoesOn \/ StartDone \/ StopSystem \/ UNCHANGED mainVars
<1> USE DEF mainVars
<1>1. ASSUME NEW c \in CallIds, SipStack(c) PROVE UNCHANGED mainVars
  BY <1>1 DEF SipStack, IncomingCall, IncomingDecide, IncomingCreate, RemoteEnd,
              OnCallState, OnCallEvent
<1>2. MainScript => UNCHANGED mainVars
  BY DEF MainScript, LuaGoesOn, MakeCall, CollectByTag, ThreadDecide, MakeDecide,
         MakeCreate, HangupCollected, ThreadCreate
<1>3. Timer => UNCHANGED mainVars
  BY DEF Timer, TimerFires, TimerReap, TimerCheckMedia, TimerHangup, TimerDelete
<1>4. ASSUME NEW i \in Sids, ScriptThread(i) \/ ScriptFinish(i) PROVE UNCHANGED mainVars
  BY <1>4, ThreadNearer
<1>5. Finished \/ UNCHANGED vars => UNCHANGED mainVars
  BY DEF Finished, vars
<1> QED
  BY <1>1, <1>2, <1>3, <1>4, <1>5 DEF Next

\* stop() and its scripts go forward only.
LEMMA DownStep == ASSUME IInv, [Next]_vars PROVE NearerToDown
<1> SUFFICES ASSUME Stopping PROVE NearerToDown
  BY DEF NearerToDown
<1> USE DEF mainVars
<1>1. CASE StopGoesOn
  <2> USE StageToGoIs
  <2>1. CASE HangupAll \/ CollectScripts \/ ClearScripts \/ DeleteDone \/ SystemDown
    BY <2>1 DEF HangupAll, CollectScripts, ClearScripts, DeleteDone, SystemDown,
                NearerToDown, Stopping
  <2>2. ASSUME NEW i \in Sids, DeleteStop(i) PROVE NearerToDown
    <3>1. i # NoSid
      BY SystemAssumption DEF Sids, NoSid, MaxSid
    <3> QED
      BY <2>2, <3>1 DEF DeleteStop, NearerToDown, Stopping
  <2>3. CASE DeleteJoin
    BY <2>3 DEF DeleteJoin, NearerToDown, Stopping, IInv, BatchInv
  <2> QED
    BY <1>1, <2>1, <2>2, <2>3 DEF StopGoesOn
<1>2. CASE ~StopGoesOn
  <2>1. UNCHANGED mainVars
    BY <1>2, OthersLeave DEF IInv, Stopping, StartDone, StopSystem
  <2>2. ASSUME NEW i \in Sids, Awaited(i)
        PROVE  \/ ThreadToGo[sc'[i].run] < ThreadToGo[sc[i].run]
               \/ sc'[i].run = sc[i].run /\ ~ScriptThread(i) /\ ~HookEnds(i)
    <3>1. CASE ScriptThread(i) \/ ScriptFinish(i)
      BY <3>1, ThreadNearer DEF IInv
    <3>2. CASE ~ScriptThread(i) /\ ~ScriptFinish(i)
      <4>1. i <= nextSid
        BY <2>2, SystemAssumption DEF Awaited, IInv, IdsInv, TypeOK, MaxSid
      <4>2. sc[i] \in Script
        BY DEF IInv, TypeOK
      <4>3. sc'[i] \in {sc[i], Stop(sc[i])}
        BY <3>2, <4>1, StopsOrLeaves
      <4> QED
        BY <3>2, <4>2, <4>3, StopProperties DEF HookEnds
    <3> QED
      BY <3>1, <3>2
  <2>3. Stopping'
    BY <2>1 DEF Stopping
  <2> QED
    BY <1>2, <2>1, <2>2, <2>3 DEF NearerToDown
<1> QED
  BY <1>1, <1>2

\* A script is waited for after its destructor has stopped it, and until then its Lua
\* state can only have come up under the eyes of a stop that was missed.
LEMMA HeardStep ==
    ASSUME IInv, AwaitedHasHeard, ~Missed, [Next]_vars PROVE AwaitedHasHeard'
<1> SUFFICES ASSUME NEW i \in Sids, mpc' = "delete", mdel' = i, sc'[i].run \in Running
             PROVE  sc'[i].exit /\ (sc'[i].run = "lua" => sc'[i].hooked)
  BY DEF AwaitedHasHeard, Awaited
<1>1. sc \in [Sids -> Script] /\ i # NoSid
  BY SystemAssumption DEF IInv, TypeOK, Sids, NoSid, MaxSid
<1>2. CASE DeleteStop(i)
  <2>1. sc'[i] = Stop(sc[i]) /\ sc[i] \in Script
    BY <1>1, <1>2 DEF DeleteStop
  <2>2. sc[i].run \in Running
    BY <2>1, StopProperties
  <2> QED
    BY <2>1, <2>2 DEF Stop, Script
<1>3. CASE ~DeleteStop(i)
  <2>1. mdel = i
    <3>1. StopGoesOn => mdel = i
      BY <1>1, <1>3 DEF StopGoesOn, HangupAll, CollectScripts, ClearScripts, DeleteStop,
                        DeleteJoin, DeleteDone, SystemDown
    <3>2. StartDone \/ StopSystem => mdel = i
      BY DEF StartDone, StopSystem
    <3>3. StopGoesOn \/ StartDone \/ StopSystem \/ UNCHANGED mainVars
      BY OthersLeave DEF IInv
    <3> QED
      BY <3>1, <3>2, <3>3 DEF mainVars
  <2>2. mpc = "delete" /\ i <= nextSid
    BY <1>1, <2>1, SystemAssumption DEF IInv, BatchInv, IdsInv, TypeOK, MaxSid
  <2>3. sc[i].run \in Running
    BY <1>1, <2>2, ObjectStep DEF IInv
  <2>4. sc[i].exit /\ sc[i].run # "ready" /\ (sc[i].run = "lua" => sc[i].hooked)
    BY <2>1, <2>2, <2>3 DEF AwaitedHasHeard, Awaited, Missed
  <2>5. sc'[i].exit
    BY <2>2, <2>4, ObjectStep DEF IInv
  <2>6. CASE ScriptThread(i) \/ ScriptFinish(i)
    BY <2>4, <2>5, <2>6, ThreadNearer DEF IInv
  <2>7. CASE ~ScriptThread(i) /\ ~ScriptFinish(i)
    <3>1. sc'[i] \in {sc[i], Stop(sc[i])} /\ sc[i] \in Script
      BY <1>1, <2>2, <2>7, StopsOrLeaves
    <3> QED
      BY <2>4, <2>5, <3>1 DEF Stop, Script
  <2> QED
    BY <2>6, <2>7
<1> QED
  BY <1>2, <1>3

\* stop() of the system is never undone or thrown back, whatever calls come and go and
\* whatever the timer deletes meanwhile.
THEOREM ShutdownGoesForward == Spec => [][NearerToDown]_vars
<1>1. IInv /\ [Next]_vars => NearerToDown
  BY DownStep
<1> QED
  BY <1>1, Invariance, PTL DEF Spec

\* The destructors in clean_system never wait for a script that nothing will end, unless
\* a stop came between is_ready() and the creation of a Lua state.
THEOREM AwaitedScriptsEnd == Spec /\ []~Missed => []AwaitedHasHeard
<1>1. Init => AwaitedHasHeard
  BY DEF Init, AwaitedHasHeard, Awaited
<1>2. IInv /\ AwaitedHasHeard /\ ~Missed /\ [Next]_vars => AwaitedHasHeard'
  BY HeardStep
<1> QED
  BY <1>1, <1>2, Invariance, PTL DEF Spec
=============================================================================
