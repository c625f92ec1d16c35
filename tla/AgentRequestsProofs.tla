------------------------- MODULE AgentRequestsProofs -------------------------
(***************************************************************************)
(* Proofs about AgentRequests, for any set of requests, conversations,     *)
(* models and request bodies.  The inductive invariant relates the place   *)
(* of every coroutine to the lock and to the shared fields it overwrote; a *)
(* second one, Books, relates the places of the coroutines to the rows,    *)
(* session trees and counters they leave behind.                           *)
(***************************************************************************)
EXTENDS AgentRequests, RateLimiter, SequenceTheorems, WellFoundedInduction, FiniteSetTheorems, TLAPS

USE RequestsAssumption, DefaultsAssumption, ModelsAssumption, ParamsAssumption

-----------------------------------------------------------------------------
(* The type invariant, one group of variables at a time.                    *)

LEMMA InitType == Init => TypeOK
  BY DEF Init, TypeOK, ControlType, SettingsType, StoresType, Key, LoopFields,
         Bodies, Counters, Places, Critical, Ended, Running

LEMMA KeyOfType == ASSUME TypeOK, NEW r \in Requests PROVE KeyOf(r) \in Key
  BY DEF TypeOK, ControlType, KeyOf, Key, Bodies

LEMMA BodyType ==
  ASSUME TypeOK, NEW r \in Requests
  PROVE  ask[r].turns \in Nat /\ ask[r].mode \in Modes /\ ask[r].dir \in Dirs
  BY DEF TypeOK, ControlType, Bodies

\* Where the coroutines are, the lock and the counters.
LEMMA NextControlType == ASSUME TypeOK, [Next]_vars PROVE ControlType'
<1> USE DEF TypeOK, ControlType, requestVars, singletons, stores, orphans, Goto,
            Places, Critical, Ended, Running, Counters
<1>1. ASSUME NEW r \in Requests, Submit(r) PROVE ControlType'
  BY <1>1 DEF Submit
<1>2. ASSUME NEW r \in Requests, EnsureConversation(r) PROVE ControlType'
  BY <1>2 DEF EnsureConversation
<1>3. ASSUME NEW r \in Requests, LeaveEarly(r) PROVE ControlType'
  <2>1. waiters' \in Seq(Requests)
    <3>1. CASE UNCHANGED waiters
      BY <3>1
    <3>2. CASE pc[r] = "waiting"
      <4>1. PICK i \in DOMAIN waiters :
              waiters' = SubSeq(waiters, 1, i - 1) \o SubSeq(waiters, i + 1, Len(waiters))
        BY <1>3, <3>2 DEF LeaveEarly
      <4>2. /\ SubSeq(waiters, 1, i - 1) \in Seq(Requests)
            /\ SubSeq(waiters, i + 1, Len(waiters)) \in Seq(Requests)
        BY SubSeqProperties, LenProperties, SMTT(30)
      <4>3. QED
        BY <4>1, <4>2, ConcatProperties
    <3>3. QED
      BY <1>3, <3>1, <3>2 DEF LeaveEarly
  <2>2. QED
    BY <1>3, <2>1 DEF LeaveEarly
<1>4. ASSUME NEW r \in Requests, Acquire(r) PROVE ControlType'
  <2>1. Tail(waiters) \in Seq(Requests)
    BY <1>4, HeadTailProperties DEF Acquire, MayEnter
  <2>2. pc' \in [Requests -> Places] /\ attempt' \in [Requests -> 0..MaxAttempts]
    <3>1. CASE ask[r].conv # NoConv
      BY <1>4, <3>1 DEF Acquire, FirstAwait
    <3>2. CASE ask[r].conv = NoConv
      <4>1. pc' = [pc EXCEPT ![r] = "sandbox"] /\ attempt' = [attempt EXCEPT ![r] = 1]
        BY <1>4, <3>2 DEF Acquire, FirstAwait
      <4>2. QED
        BY <4>1
    <3>3. QED
      BY <3>1, <3>2
  <2>3. QED
    BY <1>4, <2>1, <2>2 DEF Acquire
<1>5. ASSUME NEW r \in Requests, ReadHistory(r) PROVE ControlType'
  BY <1>5 DEF ReadHistory
<1>6. ASSUME NEW r \in Requests, RetrySandbox(r) PROVE ControlType'
  BY <1>6 DEF RetrySandbox
<1>7. ASSUME NEW r \in Requests, SetSandbox(r) PROVE ControlType'
  BY <1>7 DEF SetSandbox
<1>8. ASSUME NEW r \in Requests, RunAgain(r) PROVE ControlType'
  BY <1>8 DEF RunAgain
<1>9. ASSUME NEW r \in Requests, LoopReturns(r) PROVE ControlType'
  BY <1>9 DEF LoopReturns
<1>10. ASSUME NEW r \in Requests, Finish(r) PROVE ControlType'
  BY <1>10 DEF Finish, Release
<1>11. ASSUME NEW r \in Requests, Fail(r) PROVE ControlType'
  BY <1>11 DEF Fail, CountFailure, Release
<1>12. ASSUME NEW r \in Requests, Cancel(r) PROVE ControlType'
  BY <1>12 DEF Cancel, CountFailure, Release
<1>13. ASSUME NEW r \in Requests, OrphanSetsDir(r) \/ OrphanRecords(r) PROVE ControlType'
  BY <1>13 DEF OrphanSetsDir, OrphanRecords
<1>14. CASE UNCHANGED vars
  BY <1>14 DEF vars
<1>15. QED
  BY <1>1, <1>2, <1>3, <1>4, <1>5, <1>6, <1>7, <1>8, <1>9, <1>10, <1>11, <1>12,
     <1>13, <1>14 DEF Next, Step, Advance, Quiescent

\* The steps that leave the shared fields and their saved copies alone.
Elsewhere(r) ==
    \/ Submit(r) \/ EnsureConversation(r) \/ LeaveEarly(r) \/ ReadHistory(r)
    \/ RetrySandbox(r) \/ RunAgain(r) \/ OrphanRecords(r)

LEMMA ElsewhereUnchanged ==
  ASSUME NEW r \in Requests, Elsewhere(r)
  PROVE  UNCHANGED <<loop, saved, override, applied, sandbox, confirmable, ask>>
  BY DEF Elsewhere, Submit, EnsureConversation, LeaveEarly, ReadHistory, RetrySandbox,
         RunAgain, OrphanRecords, requestVars, singletons

LEMMA NextSettingsType == ASSUME TypeOK, [Next]_vars PROVE SettingsType'
<1> USE DEF TypeOK, SettingsType, requestVars, singletons, Key
<1>1. ASSUME NEW r \in Requests, Elsewhere(r) PROVE SettingsType'
  BY <1>1, ElsewhereUnchanged
<1>2. ASSUME NEW r \in Requests, Acquire(r) PROVE SettingsType'
  <2>1. loop' \in LoopFields
    BY <1>2, BodyType DEF Acquire, Effective, LoopFields
  <2>2. QED
    BY <1>2, <2>1 DEF Acquire, LoopFields
<1>3. ASSUME NEW r \in Requests, SetSandbox(r) PROVE SettingsType'
  BY <1>3, KeyOfType, BodyType DEF SetSandbox, LoopFields
<1>4. ASSUME NEW r \in Requests, LoopReturns(r) PROVE SettingsType'
  BY <1>4 DEF LoopReturns, Unregister, LoopFields
<1>5. ASSUME NEW r \in Requests, Finish(r) \/ Fail(r) \/ Cancel(r) PROVE SettingsType'
  BY <1>5 DEF Finish, Fail, Cancel, Release, Unregister, LoopFields
<1>6. ASSUME NEW r \in Requests, OrphanSetsDir(r) PROVE SettingsType'
  BY <1>6, BodyType DEF OrphanSetsDir, LoopFields
<1>7. CASE UNCHANGED vars
  BY <1>7 DEF vars, LoopFields
<1>8. QED
  BY <1>1, <1>2, <1>3, <1>4, <1>5, <1>6, <1>7
     DEF Next, Step, Advance, Quiescent, Elsewhere

\* What is read back from a table of requests is a list of requests.
LEMMA HistoryType ==
  ASSUME NEW S, NEW rows \in Seq(S) PROVE BuildHistory(rows) \in Seq(S)
<1> USE HistoryAssumption
<1>1. Window \in Nat
  BY DEF Window
<1>2. ListTurns(rows, Window) \in Seq(S)
  <2>1. CASE Len(rows) < Window
    BY <2>1, SubSeqProperties, LenProperties DEF ListTurns
  <2>2. CASE ~(Len(rows) < Window)
    BY <1>1, <2>2, SubSeqProperties, LenProperties DEF ListTurns
  <2>3. QED
    BY <2>1, <2>2
<1>3. ASSUME NEW s \in Seq(S) PROVE LastOf(s) \in Seq(S)
  <2>1. CASE Len(s) <= HistoryTurns
    BY <2>1 DEF LastOf
  <2>2. CASE ~(Len(s) <= HistoryTurns)
    <3>1. Len(s) \in Nat /\ Len(s) - HistoryTurns + 1 \in 1..Len(s) + 1
      BY <2>2, LenProperties
    <3>2. SubSeq(s, Len(s) - HistoryTurns + 1, Len(s)) \in Seq(S)
      BY <3>1, SubSeqProperties
    <3>3. QED
      BY <2>2, <3>2 DEF LastOf
  <2>3. QED
    BY <2>1, <2>2
<1>4. QED
  BY <1>2, <1>3 DEF BuildHistory

\* The history, the stores and the abandoned threads.
LEMMA NextStoresType == ASSUME TypeOK, [Next]_vars PROVE StoresType'
<1> USE DEF TypeOK, StoresType, requestVars, stores, orphans
<1>0. Key' = Key /\ TreeEntry' = TreeEntry
  BY DEF Key, TreeEntry
<1>1. ASSUME NEW r \in Requests,
             \/ Submit(r) \/ EnsureConversation(r) \/ LeaveEarly(r) \/ Acquire(r)
             \/ SetSandbox(r) \/ LoopReturns(r)
      PROVE  StoresType'
  BY <1>0, <1>1 DEF Submit, EnsureConversation, LeaveEarly, Acquire, SetSandbox, LoopReturns
<1>2. ASSUME NEW r \in Requests, ReadHistory(r) PROVE StoresType'
  <2>1. turns[KeyOf(r)] \in Seq(Requests)
    BY KeyOfType
  <2>2. BuildHistory(turns[KeyOf(r)]) \in Seq(Requests)
    BY <2>1, HistoryType
  <2>3. QED
    BY <1>0, <1>2, <2>2 DEF ReadHistory
<1>3. ASSUME NEW r \in Requests, RetrySandbox(r) \/ RunAgain(r) PROVE StoresType'
  <2>1. CASE RetrySandbox(r)
    BY <1>0, <2>1 DEF RetrySandbox
  <2>2. CASE RunAgain(r)
    <3>1. <<>> \in Seq(Requests)
      OBVIOUS
    <3>2. history' \in [Requests -> Seq(Requests)]
      BY <2>2, <3>1 DEF RunAgain
    <3>3. QED
      BY <1>0, <2>2, <3>2 DEF RunAgain
  <2>3. QED
    BY <1>3, <2>1, <2>2
<1>4. ASSUME NEW r \in Requests, Finish(r) PROVE StoresType'
  <2>1. Append(turns[KeyOf(r)], r) \in Seq(Requests)
    BY KeyOfType, AppendProperties
  <2>2. PICK es \in TreeEntries(r) : tree' = [tree EXCEPT ![KeyOf(r)] = @ \o es]
    BY <1>4 DEF Finish
  <2>3. es \in Seq(TreeEntry)
    <3> DEFINE asked == [req |-> r, role |-> "user"]
               answered == [req |-> r, role |-> "assistant"]
    <3>1. asked \in TreeEntry /\ answered \in TreeEntry
      BY DEF TreeEntry
    <3>2. es \in {<<>>, <<asked>>, <<asked, answered>>}
      BY <2>2 DEF TreeEntries
    <3> HIDE DEF asked, answered
    <3>3. <<asked>> \in Seq(TreeEntry) /\ <<asked, answered>> \in Seq(TreeEntry)
      BY <3>1
    <3>4. <<>> \in Seq(TreeEntry)
      BY EmptySeq
    <3>5. QED
      BY <3>2, <3>3, <3>4
  <2>4. tree[KeyOf(r)] \o es \in Seq(TreeEntry)
    BY <2>3, KeyOfType, ConcatProperties
  <2>5. QED
    BY <1>0, <1>4, <2>1, <2>2, <2>4 DEF Finish
<1>5. ASSUME NEW r \in Requests, Fail(r) \/ Cancel(r) PROVE StoresType'
  <2>1. AbandonDir(r) \in [Requests -> Nat] /\ AbandonTurn(r) \subseteq Requests
    BY DEF AbandonDir, AbandonTurn
  <2>2. QED
    BY <1>0, <1>5, <2>1 DEF Fail, Cancel
<1>6. ASSUME NEW r \in Requests, OrphanSetsDir(r) PROVE StoresType'
  BY <1>0, <1>6 DEF OrphanSetsDir
<1>7. ASSUME NEW r \in Requests, OrphanRecords(r) PROVE StoresType'
  <2>1. Append(turns[KeyOf(r)], r) \in Seq(Requests)
    BY KeyOfType, AppendProperties
  <2>2. QED
    BY <1>0, <1>7, <2>1 DEF OrphanRecords
<1>8. CASE UNCHANGED vars
  BY <1>0, <1>8 DEF vars
<1>9. QED
  BY <1>1, <1>2, <1>3, <1>4, <1>5, <1>6, <1>7, <1>8 DEF Next, Step, Advance, Quiescent

\* Every variable of the request handler keeps its type, for any instance.
THEOREM TypeCorrect == Spec => []TypeOK
<1>1. TypeOK /\ [Next]_vars => TypeOK'
  BY NextControlType, NextSettingsType, NextStoresType DEF TypeOK
<1>2. QED
  BY InitType, <1>1, PTL DEF Spec

-----------------------------------------------------------------------------
(* What each kind of step does to the lock and to the shared fields.        *)

Outside(r) == Submit(r) \/ EnsureConversation(r) \/ LeaveEarly(r)
Inside(r) == ReadHistory(r) \/ RetrySandbox(r)
InBody(r) == SetSandbox(r) \/ RunAgain(r) \/ LoopReturns(r)
Leave(r) == Finish(r) \/ Fail(r) \/ Cancel(r)
Orphan(r) == OrphanSetsDir(r) \/ OrphanRecords(r)

settingVars == <<ask, lock, loop, override, saved, applied>>

LEMMA OutsideFacts ==
  ASSUME TypeOK, NEW r \in Requests, Outside(r)
  PROVE  /\ pc[r] \notin Critical
         /\ \E p \in {"ensuring", "waiting", "dropped"} : pc' = [pc EXCEPT ![r] = p]
         /\ UNCHANGED <<settingVars, confirmable, history, turns>>
  BY DEF Outside, Submit, EnsureConversation, LeaveEarly, Goto, requestVars, singletons,
         stores, settingVars, Critical

LEMMA InsideFacts ==
  ASSUME TypeOK, NEW r \in Requests, Inside(r)
  PROVE  /\ pc[r] \in {"history", "sandbox"}
         /\ pc' = [pc EXCEPT ![r] = "sandbox"]
         /\ UNCHANGED <<settingVars, confirmable, turns>>
<1>1. CASE ReadHistory(r)
  BY <1>1 DEF ReadHistory, Goto, requestVars, singletons, stores, settingVars
<1>2. CASE RetrySandbox(r)
  <2>1. pc' = pc /\ pc[r] = "sandbox"
    BY <1>2 DEF RetrySandbox
  <2>2. pc' = [pc EXCEPT ![r] = "sandbox"]
    BY <2>1 DEF TypeOK, ControlType
  <2>3. QED
    BY <1>2, <2>1, <2>2 DEF RetrySandbox, singletons, stores, settingVars
<1>3. QED
  BY <1>1, <1>2 DEF Inside

LEMMA BodyFacts ==
  ASSUME TypeOK, NEW r \in Requests, InBody(r)
  PROVE  /\ pc[r] \in Critical
         /\ \E p \in {"running", "rerunning", "recording"} : pc' = [pc EXCEPT ![r] = p]
         /\ UNCHANGED <<settingVars, turns>>
  BY DEF InBody, SetSandbox, RunAgain, LoopReturns, Goto, requestVars, singletons, stores,
         settingVars, Critical, Running

LEMMA LeaveFacts ==
  ASSUME TypeOK, NEW r \in Requests, Leave(r)
  PROVE  /\ pc[r] \in Critical
         /\ \E p \in {"done", "failed", "cancelled"} :
               pc' = [pc EXCEPT ![r] = p] /\ (p = "done" <=> Finish(r))
         /\ Release(r)
         /\ confirmable' = IF pc[r] \in Running THEN confirmable \ {KeyOf(r)} ELSE confirmable
         /\ UNCHANGED <<ask, saved, applied, history>>
<1>1. CASE Finish(r)
  BY <1>1 DEF Finish, Goto, requestVars, Critical, Running
<1>2. CASE Fail(r)
  <2>1. pc' # [pc EXCEPT ![r] = "done"]
    BY <1>2 DEF Fail, Goto, TypeOK, ControlType
  <2>2. ~Finish(r)
    BY <2>1 DEF Finish, Goto
  <2>3. QED
    BY <1>2, <2>2 DEF Fail, Unregister, Goto, requestVars
<1>3. CASE Cancel(r)
  <2>1. pc' # [pc EXCEPT ![r] = "done"]
    BY <1>3 DEF Cancel, Goto, TypeOK, ControlType
  <2>2. ~Finish(r)
    BY <2>1 DEF Finish, Goto
  <2>3. QED
    BY <1>3, <2>2 DEF Cancel, Unregister, Goto, requestVars
<1>4. QED
  BY <1>1, <1>2, <1>3 DEF Leave

LEMMA OrphanFacts ==
  ASSUME NEW r \in Requests, Orphan(r)
  PROVE  UNCHANGED <<pc, settingVars, confirmable, history>>
  BY DEF Orphan, OrphanSetsDir, OrphanRecords, requestVars, singletons, settingVars

\* The steps of a request, by kind.
LEMMA StepKinds ==
  ASSUME [Next]_vars
  PROVE  \/ \E r \in Requests :
               \/ Outside(r) \/ Acquire(r) \/ Inside(r) \/ InBody(r) \/ Leave(r) \/ Orphan(r)
         \/ UNCHANGED vars
  BY DEF Next, Step, Advance, Quiescent, Outside, Inside, InBody, Leave, Orphan

-----------------------------------------------------------------------------
(* Mutual exclusion and the shared settings.                                *)

IInv ==
    /\ TypeOK
    /\ LockDiscipline
    /\ OwnSettings
    /\ RestoresStartup
    /\ IdleIsPristine
    /\ ConfirmableWhileRunning

LEMMA InitIInv == Init => IInv
<1> SUFFICES ASSUME Init PROVE IInv
  OBVIOUS
<1>1. \A r \in Requests : pc[r] = "idle"
  BY DEF Init
<1>2. QED
  BY <1>1, InitType DEF Init, IInv, LockDiscipline, OwnSettings, RestoresStartup,
     IdleIsPristine, ConfirmableWhileRunning, Critical, Running

LEMMA NextLockDiscipline == ASSUME IInv, [Next]_vars PROVE LockDiscipline'
<1> USE DEF IInv, TypeOK, ControlType, LockDiscipline, Critical
<1>1. ASSUME NEW r \in Requests, Outside(r) PROVE LockDiscipline'
  BY <1>1, OutsideFacts DEF settingVars
<1>2. ASSUME NEW r \in Requests, Acquire(r) PROVE LockDiscipline'
  <2>1. \E p \in {"history", "sandbox"} : pc' = [pc EXCEPT ![r] = p]
    BY <1>2 DEF Acquire, FirstAwait, Goto
  <2>2. lock = NoReq /\ lock' = r
    BY <1>2 DEF Acquire, MayEnter
  <2>3. QED
    BY <2>1, <2>2
<1>3. ASSUME NEW r \in Requests, Inside(r) PROVE LockDiscipline'
  BY <1>3, InsideFacts DEF settingVars
<1>4. ASSUME NEW r \in Requests, InBody(r) PROVE LockDiscipline'
  BY <1>4, BodyFacts DEF settingVars
<1>5. ASSUME NEW r \in Requests, Leave(r) PROVE LockDiscipline'
  BY <1>5, LeaveFacts, SMTT(30) DEF Release
<1>6. ASSUME NEW r \in Requests, Orphan(r) PROVE LockDiscipline'
  BY <1>6, OrphanFacts DEF settingVars
<1>7. CASE UNCHANGED vars
  BY <1>7 DEF vars
<1>8. QED
  BY <1>1, <1>2, <1>3, <1>4, <1>5, <1>6, <1>7, StepKinds

\* The settings of whoever holds the lock.
LEMMA NextSettings == ASSUME IInv, [Next]_vars PROVE OwnSettings' /\ RestoresStartup'
<1> USE DEF IInv, TypeOK, ControlType, SettingsType, LockDiscipline, OwnSettings,
            RestoresStartup, Critical, settingVars
<1>1. ASSUME NEW r \in Requests, Outside(r) PROVE OwnSettings' /\ RestoresStartup'
  BY <1>1, OutsideFacts, ZenonT(60)
<1>2. ASSUME NEW r \in Requests, Acquire(r) PROVE OwnSettings' /\ RestoresStartup'
  <2>1. \E p \in {"history", "sandbox"} : pc' = [pc EXCEPT ![r] = p]
    BY <1>2 DEF Acquire, FirstAwait, Goto
  <2>2. /\ lock = NoReq /\ ask' = ask
        /\ saved' = [saved EXCEPT ![r] = loop]
        /\ applied' = [applied EXCEPT ![r] = ask[r].model \in Models]
        /\ override' = IF ask[r].model \in Models THEN ask[r].model ELSE override
        /\ loop' = Effective(r, loop)
    BY <1>2 DEF Acquire, MayEnter
  <2>3. loop = [turns |-> DefaultTurns, mode |-> DefaultMode] /\ override = NoModel
    BY <2>2 DEF IdleIsPristine
  <2>4. \A q \in Requests : q # r => pc'[q] \notin Critical
    BY <2>1, <2>2
  <2>5. OwnSettings'
    BY <2>2, <2>3, <2>4 DEF Effective
  <2>6. RestoresStartup'
    BY <2>2, <2>3, <2>4
  <2>7. QED
    BY <2>5, <2>6
<1>3. ASSUME NEW r \in Requests, Inside(r) PROVE OwnSettings' /\ RestoresStartup'
  BY <1>3, InsideFacts
<1>4. ASSUME NEW r \in Requests, InBody(r) PROVE OwnSettings' /\ RestoresStartup'
  BY <1>4, BodyFacts, ZenonT(60)
<1>5. ASSUME NEW r \in Requests, Leave(r) PROVE OwnSettings' /\ RestoresStartup'
  <2>1. \A q \in Requests : pc'[q] \notin Critical
    BY <1>5, LeaveFacts, SMTT(30)
  <2>2. QED
    BY <2>1
<1>6. ASSUME NEW r \in Requests, Orphan(r) PROVE OwnSettings' /\ RestoresStartup'
  BY <1>6, OrphanFacts
<1>7. CASE UNCHANGED vars
  BY <1>7 DEF vars
<1>8. QED
  BY <1>1, <1>2, <1>3, <1>4, <1>5, <1>6, <1>7, StepKinds

\* An orchestrator nobody uses, and the confirmation queues that are open.
LEMMA NextConfirmable == ASSUME IInv, [Next]_vars PROVE ConfirmableWhileRunning'
<1> DEFINE Runners == {q \in Requests : pc[q] \in Running}
<1> USE DEF IInv, TypeOK, ControlType, LockDiscipline, Critical, Running, settingVars,
            ConfirmableWhileRunning, KeyOf
<1>0. ASSUME Runners' = Runners, UNCHANGED <<ask, confirmable>>
      PROVE  ConfirmableWhileRunning'
  BY <1>0
<1>1. ASSUME NEW r \in Requests, Outside(r) \/ Inside(r) PROVE ConfirmableWhileRunning'
  BY <1>0, <1>1, OutsideFacts, InsideFacts
<1>2. ASSUME NEW r \in Requests, Acquire(r) PROVE ConfirmableWhileRunning'
  <2>1. \E p \in {"history", "sandbox"} : pc' = [pc EXCEPT ![r] = p]
    BY <1>2 DEF Acquire, FirstAwait, Goto
  <2>2. pc[r] = "waiting" /\ UNCHANGED <<ask, confirmable>>
    BY <1>2 DEF Acquire
  <2>3. QED
    BY <1>0, <2>1, <2>2
<1>3. ASSUME NEW r \in Requests, InBody(r) PROVE ConfirmableWhileRunning'
  <2>1. \A q \in Requests : q # r => pc[q] \notin Critical /\ pc'[q] = pc[q]
    BY <1>3, BodyFacts
  <2>2. CASE SetSandbox(r)
    <3>1. Runners = {} /\ Runners' = {r}
      BY <2>1, <2>2 DEF SetSandbox, Goto
    <3>2. QED
      BY <2>2, <3>1 DEF SetSandbox, requestVars
  <2>3. CASE RunAgain(r)
    BY <1>0, <2>3 DEF RunAgain, Goto, requestVars, singletons
  <2>4. CASE LoopReturns(r)
    <3>1. Runners = {r} /\ Runners' = {}
      BY <2>1, <2>4 DEF LoopReturns, Goto
    <3>2. QED
      BY <2>4, <3>1 DEF LoopReturns, Unregister, requestVars
  <2>5. QED
    BY <1>3, <2>2, <2>3, <2>4 DEF InBody
<1>4. ASSUME NEW r \in Requests, Leave(r) PROVE ConfirmableWhileRunning'
  <2>1. /\ \A q \in Requests : q # r => pc[q] \notin Critical /\ pc'[q] = pc[q]
        /\ pc'[r] \notin Critical
    BY <1>4, LeaveFacts
  <2>2. Runners' = {} /\ Runners = IF pc[r] \in Running THEN {r} ELSE {}
    BY <2>1
  <2>3. confirmable' = IF pc[r] \in Running THEN confirmable \ {KeyOf(r)} ELSE confirmable
    BY <1>4, LeaveFacts
  <2>4. confirmable' = {}
    BY <2>2, <2>3
  <2>5. QED
    BY <2>2, <2>4
<1>5. ASSUME NEW r \in Requests, Orphan(r) PROVE ConfirmableWhileRunning'
  BY <1>0, <1>5, OrphanFacts
<1>6. CASE UNCHANGED vars
  BY <1>6 DEF vars
<1>7. QED
  BY <1>1, <1>2, <1>3, <1>4, <1>5, <1>6, StepKinds

LEMMA NextIdleIsPristine ==
  ASSUME IInv, [Next]_vars, LockDiscipline', ConfirmableWhileRunning'
  PROVE  IdleIsPristine'
<1> USE DEF IInv, TypeOK, ControlType, LockDiscipline, Critical, settingVars
<1>0. lock' = NoReq => confirmable' = {}
  BY DEF ConfirmableWhileRunning, Running
<1>1. ASSUME NEW r \in Requests, Outside(r) \/ Inside(r) \/ InBody(r) \/ Orphan(r)
      PROVE  IdleIsPristine'
  BY <1>0, <1>1, OutsideFacts, InsideFacts, BodyFacts, OrphanFacts DEF IdleIsPristine
<1>2. ASSUME NEW r \in Requests, Acquire(r) PROVE IdleIsPristine'
  BY <1>2 DEF Acquire, IdleIsPristine
<1>3. ASSUME NEW r \in Requests, Leave(r) PROVE IdleIsPristine'
  <2>1. pc[r] \in Critical /\ Release(r)
    BY <1>3, LeaveFacts
  <2>2. QED
    BY <1>0, <2>1 DEF Release, OwnSettings, RestoresStartup, IdleIsPristine
<1>4. CASE UNCHANGED vars
  BY <1>0, <1>4 DEF vars, IdleIsPristine
<1>5. QED
  BY <1>1, <1>2, <1>3, <1>4, StepKinds

THEOREM Inductive == Spec => []IInv
<1>1. IInv /\ [Next]_vars => IInv'
  <2> SUFFICES ASSUME IInv, [Next]_vars PROVE IInv'
    OBVIOUS
  <2>1. TypeOK'
    BY NextControlType, NextSettingsType, NextStoresType DEF IInv, TypeOK
  <2>2. QED
    BY <2>1, NextLockDiscipline, NextSettings, NextConfirmable, NextIdleIsPristine DEF IInv
<1>2. QED
  BY InitIInv, <1>1, PTL DEF Spec

\* _agent_request_lock excludes: whoever is between the acquire and the finally
\* block holds it, for any number of requests and any order of failures.
THEOREM MutualExclusion == Spec => []LockDiscipline
BY Inductive, PTL DEF IInv

\* No request ever runs with the turn limit, permission mode or model of another.
THEOREM SettingsNeverLeak == Spec => []OwnSettings
BY Inductive, PTL DEF IInv

\* Every way out of the critical section leads back to the startup settings.
THEOREM AlwaysRestored == Spec => [](RestoresStartup /\ IdleIsPristine)
BY Inductive, PTL DEF IInv

\* A confirmation can be posted exactly while its conversation's loop runs.
THEOREM ConfirmationWindow == Spec => []ConfirmableWhileRunning
BY Inductive, PTL DEF IInv

-----------------------------------------------------------------------------
(* The records of the turns, the session trees and the counters.            *)

Recorded(r) == InSeq(turns[KeyOf(r)], r)

\* A request has one row at most; it has one when it was answered, may have one
\* when it was cancelled, and none while its abandoned thread is still at work.
Rows ==
    /\ \A k \in Key : \A m, n \in DOMAIN turns[k] : turns[k][m] = turns[k][n] => m = n
    /\ \A r \in Requests : /\ pc[r] = "done" => Recorded(r)
                           /\ Recorded(r) => pc[r] \in {"done", "cancelled"}
    /\ \A r \in orphanTurns : pc[r] = "cancelled" /\ ~Recorded(r)

InFlight == {r \in Requests : pc[r] \notin Ended \cup {"idle"}}
Dropped == {r \in Requests : pc[r] = "dropped"}
Finitely == IsFiniteSet(InFlight) /\ IsFiniteSet(Dropped)

Books == Rows /\ StoresAgree /\ Finitely /\ CountersAddUp /\ SeesAnsweredTurns

\* What Append does, entry by entry.
LEMMA AppendIs ==
  ASSUME NEW S, NEW s \in Seq(S), NEW e \in S
  PROVE  /\ Append(s, e) \in Seq(S) /\ Len(Append(s, e)) = Len(s) + 1
         /\ Append(s, e)[Len(s) + 1] = e /\ Len(s) \in Nat
         /\ \A n \in 1 .. Len(s) : Append(s, e)[n] = s[n]
         /\ DOMAIN s = 1 .. Len(s) /\ DOMAIN Append(s, e) = 1 .. Len(s) + 1
OBVIOUS

\* A row is in the table after an append when it was before or is the new one.
LEMMA AppendHas ==
  ASSUME NEW S, NEW s \in Seq(S), NEW e \in S
  PROVE  \A r : InSeq(Append(s, e), r) <=> InSeq(s, r) \/ r = e
<1> DEFINE w == Append(s, e)
<1>1. /\ Len(w) = Len(s) + 1 /\ w[Len(s) + 1] = e /\ Len(s) \in Nat
      /\ \A n \in 1 .. Len(s) : w[n] = s[n]
      /\ DOMAIN s = 1 .. Len(s) /\ DOMAIN w = 1 .. Len(s) + 1
  BY AppendIs
<1> HIDE DEF w
<1>2. ASSUME NEW r PROVE InSeq(w, r) <=> InSeq(s, r) \/ r = e
  <2>1. ASSUME InSeq(w, r) PROVE InSeq(s, r) \/ r = e
    <3>1. PICK n \in DOMAIN w : w[n] = r
      BY <2>1 DEF InSeq
    <3>2. CASE n = Len(s) + 1
      BY <1>1, <3>1, <3>2
    <3>3. CASE n # Len(s) + 1
      <4>1. n \in 1 .. Len(s)
        BY <1>1, <3>3
      <4>2. QED
        BY <1>1, <3>1, <4>1 DEF InSeq
    <3>4. QED
      BY <3>2, <3>3
  <2>2. ASSUME InSeq(s, r) PROVE InSeq(w, r)
    <3>1. PICK n \in 1 .. Len(s) : s[n] = r
      BY <1>1, <2>2 DEF InSeq
    <3>2. n \in DOMAIN w /\ w[n] = r
      BY <1>1, <3>1
    <3>3. QED
      BY <3>2 DEF InSeq
  <2>3. InSeq(w, e)
    <3>1. Len(s) + 1 \in DOMAIN w
      BY <1>1
    <3>2. QED
      BY <1>1, <3>1 DEF InSeq
  <2>4. QED
    BY <2>1, <2>2, <2>3
<1>3. QED
  BY <1>2 DEF w

\* A new row keeps the rows different.
LEMMA AppendOnce ==
  ASSUME NEW S, NEW s \in Seq(S), NEW e \in S, ~InSeq(s, e),
         \A m, n \in DOMAIN s : s[m] = s[n] => m = n
  PROVE  \A m, n \in DOMAIN Append(s, e) : Append(s, e)[m] = Append(s, e)[n] => m = n
<1> DEFINE w == Append(s, e)
<1>1. /\ Len(w) = Len(s) + 1 /\ w[Len(s) + 1] = e /\ Len(s) \in Nat
      /\ \A n \in 1 .. Len(s) : w[n] = s[n]
      /\ DOMAIN s = 1 .. Len(s) /\ DOMAIN w = 1 .. Len(s) + 1
  BY AppendIs
<1>2. \A n \in 1 .. Len(s) : s[n] # e
  BY <1>1 DEF InSeq
<1> HIDE DEF w
<1>3. ASSUME NEW m \in DOMAIN w, NEW n \in DOMAIN w, w[m] = w[n] PROVE m = n
  <2>1. m \in 1 .. Len(s) \/ m = Len(s) + 1
    BY <1>1
  <2>2. n \in 1 .. Len(s) \/ n = Len(s) + 1
    BY <1>1
  <2>3. QED
    BY <1>1, <1>2, <1>3, <2>1, <2>2
<1>4. QED
  BY <1>3 DEF w

\* The key of a request stays the same.
LEMMA SameKeys ==
  ASSUME UNCHANGED ask
  PROVE  \A r : KeyOf(r)' = KeyOf(r)
  BY DEF KeyOf

\* The steps that write no row, by what they do to the coroutines and to the
\* abandoned threads.
LEMMA NextPlain ==
  ASSUME IInv, [Next]_vars
  PROVE  \/ \E r \in Requests :
              \/ Finish(r) \/ OrphanRecords(r)
              \/ /\ UNCHANGED <<ask, turns, tree>>
                 /\ \E p \in Places \ {"idle", "done"} : pc' = [pc EXCEPT ![r] = p]
                 /\ pc[r] \notin {"done", "cancelled"} \/ pc' = pc
                 /\ \/ UNCHANGED orphanTurns
                    \/ /\ pc[r] = "recording" /\ pc' = [pc EXCEPT ![r] = "cancelled"]
                       /\ orphanTurns' = orphanTurns \cup {r}
         \/ UNCHANGED <<ask, turns, tree, pc, orphanTurns>>
<1> USE DEF IInv, TypeOK, ControlType, Places, Critical, Ended, settingVars
<1>1. ASSUME NEW r \in Requests, Outside(r) PROVE
        /\ UNCHANGED <<ask, turns, tree, orphanTurns>> /\ pc[r] \in {"idle", "ensuring", "waiting"}
        /\ \E p \in {"ensuring", "waiting", "dropped"} : pc' = [pc EXCEPT ![r] = p]
  BY <1>1 DEF Outside, Submit, EnsureConversation, LeaveEarly, Goto, requestVars, stores, orphans
<1>2. ASSUME NEW r \in Requests, Acquire(r) PROVE
        /\ UNCHANGED <<ask, turns, tree, orphanTurns>> /\ pc[r] = "waiting"
        /\ \E p \in {"history", "sandbox"} : pc' = [pc EXCEPT ![r] = p]
  BY <1>2 DEF Acquire, FirstAwait, Goto, stores, orphans
<1>3. ASSUME NEW r \in Requests, Inside(r) PROVE
        /\ UNCHANGED <<ask, turns, tree, orphanTurns>> /\ pc[r] \in {"history", "sandbox"}
        /\ pc' = [pc EXCEPT ![r] = "sandbox"]
  BY <1>3, InsideFacts DEF Inside, ReadHistory, RetrySandbox, stores, orphans
<1>4. ASSUME NEW r \in Requests, InBody(r) PROVE
        /\ UNCHANGED <<ask, turns, tree, orphanTurns>> /\ pc[r] \in Critical
        /\ \E p \in {"running", "rerunning", "recording"} : pc' = [pc EXCEPT ![r] = p]
  BY <1>4, BodyFacts DEF InBody, SetSandbox, RunAgain, LoopReturns, stores, orphans
<1>5. ASSUME NEW r \in Requests, Fail(r) PROVE
        /\ UNCHANGED <<ask, turns, tree, orphanTurns>> /\ pc[r] \in Critical
        /\ pc' = [pc EXCEPT ![r] = "failed"]
  BY <1>5 DEF Fail, Goto, requestVars, stores
<1>6. ASSUME NEW r \in Requests, Cancel(r) PROVE
        /\ UNCHANGED <<ask, turns, tree>> /\ pc[r] \in Critical
        /\ pc' = [pc EXCEPT ![r] = "cancelled"]
        /\ UNCHANGED orphanTurns \/ (pc[r] = "recording" /\ orphanTurns' = orphanTurns \cup {r})
  BY <1>6 DEF Cancel, AbandonTurn, Goto, requestVars, stores
<1>7. ASSUME NEW r \in Requests, OrphanSetsDir(r) PROVE
        UNCHANGED <<ask, turns, tree, pc, orphanTurns>>
  BY <1>7 DEF OrphanSetsDir, requestVars, stores
<1>8. CASE UNCHANGED vars
  BY <1>8 DEF vars
<1>9. QED
  BY <1>1, <1>2, <1>3, <1>4, <1>5, <1>6, <1>7, <1>8, StepKinds DEF Leave, Orphan

\* Who is recorded when r gets a row.
LEMMA RecordedNext ==
  ASSUME TypeOK, NEW r \in Requests, UNCHANGED ask,
         turns' = [turns EXCEPT ![KeyOf(r)] = Append(@, r)]
  PROVE  \A q \in Requests : Recorded(q)' <=> Recorded(q) \/ q = r
<1>1. \A q \in Requests : KeyOf(q) \in Key /\ KeyOf(q)' = KeyOf(q)
  BY KeyOfType, SameKeys
<1>2. turns \in [Key -> Seq(Requests)]
  BY DEF TypeOK, StoresType
<1>3. ASSUME NEW q \in Requests PROVE Recorded(q)' <=> Recorded(q) \/ q = r
  <2>1. Recorded(q)' <=> InSeq(turns'[KeyOf(q)], q)
    BY <1>1 DEF Recorded, InSeq
  <2>2. CASE KeyOf(q) = KeyOf(r)
    <3>1. turns'[KeyOf(q)] = Append(turns[KeyOf(q)], r) /\ turns[KeyOf(q)] \in Seq(Requests)
      BY <1>1, <1>2, <2>2
    <3>2. QED
      BY <2>1, <3>1, AppendHas DEF Recorded
  <2>3. CASE KeyOf(q) # KeyOf(r)
    <3>1. turns'[KeyOf(q)] = turns[KeyOf(q)] /\ q # r
      BY <1>1, <1>2, <2>3
    <3>2. QED
      BY <2>1, <3>1 DEF Recorded
  <2>4. QED
    BY <2>2, <2>3
<1>4. QED
  BY <1>3

\* A row is added once: by the coroutine that records, or by the thread of one
\* that was cancelled while it did.
LEMMA NextRows ==
  ASSUME IInv, Rows, [Next]_vars
  PROVE  Rows'
<1>1. /\ pc \in [Requests -> Places] /\ turns \in [Key -> Seq(Requests)] /\ orphanTurns \subseteq Requests
      /\ Key' = Key /\ TypeOK
  BY DEF IInv, TypeOK, ControlType, StoresType, Key
<1>2. ASSUME NEW r \in Requests, ~Recorded(r), UNCHANGED ask,
             turns' = [turns EXCEPT ![KeyOf(r)] = Append(@, r)]
      PROVE  \A k \in Key : \A m, n \in DOMAIN turns'[k] : turns'[k][m] = turns'[k][n] => m = n
  <2>1. TAKE k \in Key
  <2>2. CASE k = KeyOf(r)
    <3>1. turns'[k] = Append(turns[k], r) /\ turns[k] \in Seq(Requests) /\ ~InSeq(turns[k], r)
      BY <1>1, <1>2, <2>2 DEF Recorded
    <3>2. \A m, n \in DOMAIN turns[k] : turns[k][m] = turns[k][n] => m = n
      BY DEF Rows
    <3>3. QED
      BY <3>1, <3>2, AppendOnce
  <2>3. CASE k # KeyOf(r)
    BY <1>1, <1>2, <2>3 DEF Rows
  <2>4. QED
    BY <2>2, <2>3
<1>3. ASSUME NEW r \in Requests, Finish(r) PROVE Rows'
  <2>1. /\ pc[r] = "recording" /\ pc' = [pc EXCEPT ![r] = "done"] /\ UNCHANGED <<ask, orphanTurns>>
        /\ turns' = [turns EXCEPT ![KeyOf(r)] = Append(@, r)]
    BY <1>3 DEF Finish, Goto, requestVars, orphans
  <2>2. ~Recorded(r) /\ r \notin orphanTurns
    BY <2>1 DEF Rows
  <2>3. \A q \in Requests : Recorded(q)' <=> Recorded(q) \/ q = r
    BY <1>1, <2>1, RecordedNext
  <2>4. \A q \in Requests : pc'[q] = IF q = r THEN "done" ELSE pc[q]
    BY <1>1, <2>1
  <2>5. \A k \in Key : \A m, n \in DOMAIN turns'[k] : turns'[k][m] = turns'[k][n] => m = n
    BY <1>2, <2>1, <2>2
  <2>6. \A q \in Requests : /\ pc'[q] = "done" => Recorded(q)'
                            /\ Recorded(q)' => pc'[q] \in {"done", "cancelled"}
    BY <2>3, <2>4 DEF Rows
  <2>7. \A q \in orphanTurns' : pc'[q] = "cancelled" /\ ~Recorded(q)'
    BY <1>1, <2>1, <2>2, <2>3, <2>4 DEF Rows
  <2>8. QED
    BY <1>1, <2>5, <2>6, <2>7 DEF Rows
<1>4. ASSUME NEW r \in Requests, OrphanRecords(r) PROVE Rows'
  <2>1. /\ r \in orphanTurns /\ orphanTurns' = orphanTurns \ {r} /\ UNCHANGED <<ask, pc>>
        /\ turns' = turns \/ turns' = [turns EXCEPT ![KeyOf(r)] = Append(@, r)]
    BY <1>4 DEF OrphanRecords, requestVars
  <2>2. ~Recorded(r) /\ pc[r] = "cancelled"
    BY <2>1 DEF Rows
  <2>3. CASE turns' = turns
    <3>1. \A q : Recorded(q)' <=> Recorded(q)
      BY <2>1, <2>3, SameKeys DEF Recorded
    <3>2. QED
      BY <1>1, <2>1, <2>3, <3>1 DEF Rows
  <2>4. CASE turns' = [turns EXCEPT ![KeyOf(r)] = Append(@, r)]
    <3>1. \A q \in Requests : Recorded(q)' <=> Recorded(q) \/ q = r
      BY <1>1, <2>1, <2>4, RecordedNext
    <3>2. \A k \in Key : \A m, n \in DOMAIN turns'[k] : turns'[k][m] = turns'[k][n] => m = n
      BY <1>2, <2>1, <2>2, <2>4
    <3>3. \A q \in Requests : /\ pc'[q] = "done" => Recorded(q)'
                              /\ Recorded(q)' => pc'[q] \in {"done", "cancelled"}
      BY <2>1, <2>2, <3>1 DEF Rows
    <3>4. \A q \in orphanTurns' : pc'[q] = "cancelled" /\ ~Recorded(q)'
      BY <1>1, <2>1, <3>1 DEF Rows
    <3>5. QED
      BY <1>1, <3>2, <3>3, <3>4 DEF Rows
  <2>5. QED
    BY <2>1, <2>3, <2>4
<1>5. ASSUME UNCHANGED <<ask, turns>>,
             \/ UNCHANGED <<pc, orphanTurns>>
             \/ \E r \in Requests :
                  /\ \E p \in Places \ {"idle", "done"} : pc' = [pc EXCEPT ![r] = p]
                  /\ pc[r] \notin {"done", "cancelled"} \/ pc' = pc
                  /\ \/ UNCHANGED orphanTurns
                     \/ /\ pc[r] = "recording" /\ pc' = [pc EXCEPT ![r] = "cancelled"]
                        /\ orphanTurns' = orphanTurns \cup {r}
      PROVE  Rows'
  <2>1. \A q : Recorded(q)' <=> Recorded(q)
    BY <1>5, SameKeys DEF Recorded
  <2>2. CASE UNCHANGED <<pc, orphanTurns>>
    BY <1>1, <1>5, <2>1, <2>2 DEF Rows
  <2>3. ASSUME NEW r \in Requests, NEW p \in Places \ {"idle", "done"}, pc' = [pc EXCEPT ![r] = p],
               pc[r] \notin {"done", "cancelled"},
               \/ UNCHANGED orphanTurns
               \/ /\ pc[r] = "recording" /\ pc' = [pc EXCEPT ![r] = "cancelled"]
                  /\ orphanTurns' = orphanTurns \cup {r}
        PROVE  Rows'
    <3>1. \A q \in Requests : pc'[q] = IF q = r THEN p ELSE pc[q]
      BY <1>1, <2>3
    <3>2. ~Recorded(r) /\ r \notin orphanTurns
      BY <2>3 DEF Rows
    <3>3. \A q \in Requests : /\ pc'[q] = "done" => Recorded(q)'
                              /\ Recorded(q)' => pc'[q] \in {"done", "cancelled"}
      BY <2>1, <3>1, <3>2 DEF Rows
    <3>4. \A q \in orphanTurns' : pc'[q] = "cancelled" /\ ~Recorded(q)'
      <4>1. CASE UNCHANGED orphanTurns
        BY <1>1, <2>1, <3>1, <3>2, <4>1 DEF Rows
      <4>2. CASE pc' = [pc EXCEPT ![r] = "cancelled"] /\ orphanTurns' = orphanTurns \cup {r}
        <5>1. \A q \in Requests : pc'[q] = IF q = r THEN "cancelled" ELSE pc[q]
          BY <1>1, <4>2
        <5>2. QED
          BY <1>1, <2>1, <3>2, <4>2, <5>1 DEF Rows
      <4>3. QED
        BY <2>3, <4>1, <4>2
    <3>5. QED
      BY <1>1, <1>5, <3>3, <3>4 DEF Rows
  <2>4. ASSUME NEW r \in Requests, pc' = pc, pc[r] \in {"done", "cancelled"},
               \/ UNCHANGED orphanTurns
               \/ /\ pc[r] = "recording" /\ pc' = [pc EXCEPT ![r] = "cancelled"]
                  /\ orphanTurns' = orphanTurns \cup {r}
        PROVE  Rows'
    BY <2>2, <2>4
  <2>5. QED
    BY <1>5, <2>2, <2>3, <2>4
<1>6. QED
  BY <1>3, <1>4, <1>5, NextPlain

\* StoresAgree, of the entries of a tree and the rows of a table: the user
\* messages of the tree are rows of the table, in the same order.
Said(entries) == {i \in DOMAIN entries : entries[i].role = "user"}
Matching(entries, rows, row) ==
    /\ \A i \in Said(entries) : rows[row[i]] = entries[i].req
    /\ \A i, j \in Said(entries) : i < j => row[i] < row[j]
Matches(entries, rows) == \E row \in [Said(entries) -> DOMAIN rows] : Matching(entries, rows, row)

LEMMA StoresAgreeIs ==
  /\ StoresAgree <=> \A k \in Key : Matches(tree[k], turns[k])
  /\ StoresAgree' <=> \A k \in Key : Matches(tree'[k], turns'[k])
  BY Zenon DEF StoresAgree, Matches, Matching, Said, Key

\* A row more, of a request whose messages were not written.
LEMMA RowMore ==
  ASSUME NEW S, NEW rows \in Seq(S), NEW r \in S, NEW entries, Matches(entries, rows)
  PROVE  Matches(entries, Append(rows, r))
<1> DEFINE w == Append(rows, r)
<1>1. /\ \A n \in 1 .. Len(rows) : w[n] = rows[n]
      /\ DOMAIN rows = 1 .. Len(rows) /\ DOMAIN w = 1 .. Len(rows) + 1 /\ Len(rows) \in Nat
  BY AppendIs
<1>2. PICK row \in [Said(entries) -> DOMAIN rows] : Matching(entries, rows, row)
  BY DEF Matches
<1> HIDE DEF w
<1>3. \A n \in DOMAIN rows : n \in DOMAIN w
  BY <1>1
<1>4. row \in [Said(entries) -> DOMAIN w]
  BY <1>2, <1>3
<1>5. Matching(entries, w, row)
  BY <1>1, <1>2 DEF Matching
<1>6. Matches(entries, w)
  BY <1>4, <1>5 DEF Matches
<1>7. QED
  BY <1>6 DEF w

\* A row and the messages of the same request.
LEMMA RowAndMessages ==
  ASSUME NEW rows \in Seq(Requests), NEW r \in Requests, NEW entries \in Seq(TreeEntry),
         NEW es \in TreeEntries(r), Matches(entries, rows)
  PROVE  Matches(entries \o es, Append(rows, r))
<1> DEFINE asked == [req |-> r, role |-> "user"]
           answered == [req |-> r, role |-> "assistant"]
<1>1. CASE es = <<>>
  <2>1. entries \o es = entries
    BY <1>1
  <2>2. QED
    BY <2>1, RowMore
<1>2. CASE es # <<>>
  <2> DEFINE w == Append(rows, r)
             more == entries \o es
             n == Len(entries) + 1
  <2>1. /\ \A i \in 1 .. Len(rows) : w[i] = rows[i]
        /\ w[Len(rows) + 1] = r /\ Len(rows) \in Nat
        /\ DOMAIN rows = 1 .. Len(rows) /\ DOMAIN w = 1 .. Len(rows) + 1
    BY AppendIs
  <2>2. /\ asked \in TreeEntry /\ answered \in TreeEntry
        /\ asked.role = "user" /\ asked.req = r /\ answered.role = "assistant"
    BY DEF TreeEntry
  <2>3. es = <<asked>> \/ es = <<asked, answered>>
    BY <1>2 DEF TreeEntries
  <2> HIDE DEF asked, answered
  <2>4. /\ es \in Seq(TreeEntry) /\ Len(es) \in {1, 2} /\ es[1] = asked
        /\ Len(es) = 2 => es[2] = answered
    <3>1. CASE es = <<asked>>
      <4>1. <<asked>> \in Seq(TreeEntry) /\ Len(<<asked>>) = 1 /\ <<asked>>[1] = asked
        BY <2>2
      <4>2. QED
        BY <3>1, <4>1
    <3>2. CASE es = <<asked, answered>>
      <4>1. <<asked, answered>> \in Seq(TreeEntry)
        BY <2>2
      <4>2. /\ Len(<<asked, answered>>) = 2 /\ <<asked, answered>>[1] = asked
            /\ <<asked, answered>>[2] = answered
        OBVIOUS
      <4>3. QED
        BY <3>2, <4>1, <4>2
    <3>3. QED
      BY <2>3, <3>1, <3>2
  <2>5. /\ Len(more) = Len(entries) + Len(es) /\ Len(entries) \in Nat
        /\ DOMAIN more = 1 .. Len(entries) + Len(es) /\ DOMAIN entries = 1 .. Len(entries)
        /\ \A i \in 1 .. Len(entries) : more[i] = entries[i]
        /\ \A i \in 1 .. Len(es) : more[Len(entries) + i] = es[i]
    BY <2>4
  <2> HIDE DEF more, w
  <2>6. /\ more[n] = asked /\ n \in DOMAIN more
        /\ \A i \in DOMAIN more : \/ i \in DOMAIN entries /\ more[i] = entries[i]
                                  \/ i = n
                                  \/ more[i] = answered
    <3>1. more[n] = asked /\ n \in DOMAIN more
      BY <2>4, <2>5
    <3>2. ASSUME NEW i \in DOMAIN more, i \notin DOMAIN entries, i # n PROVE more[i] = answered
      <4>1. Len(es) = 2 /\ i = Len(entries) + 2
        BY <2>4, <2>5, <3>2
      <4>2. QED
        BY <2>4, <2>5, <4>1
    <3>3. QED
      BY <2>5, <3>1, <3>2
  <2>7. \A i \in Said(more) : i \in Said(entries) \/ i = n
    BY <2>2, <2>6 DEF Said
  <2>8. PICK row \in [Said(entries) -> DOMAIN rows] : Matching(entries, rows, row)
    BY DEF Matches
  <2>9. \A i \in Said(entries) : i \in 1 .. Len(entries) /\ row[i] \in 1 .. Len(rows)
    BY <2>1, <2>5, <2>8 DEF Said
  <2> DEFINE all == [i \in Said(more) |-> IF i = n THEN Len(rows) + 1 ELSE row[i]]
  <2>10. all \in [Said(more) -> DOMAIN w]
    <3>1. ASSUME NEW i \in Said(more) PROVE (IF i = n THEN Len(rows) + 1 ELSE row[i]) \in DOMAIN w
      <4>1. CASE i = n
        BY <2>1, <4>1
      <4>2. CASE i # n
        <5>1. row[i] \in 1 .. Len(rows)
          BY <2>7, <2>9, <4>2
        <5>2. QED
          BY <2>1, <4>2, <5>1
      <4>3. QED
        BY <4>1, <4>2
    <3>2. QED
      BY <3>1
  <2>11. \A i \in Said(more) : all[i] = IF i = n THEN Len(rows) + 1 ELSE row[i]
    OBVIOUS
  <2> HIDE DEF all
  <2>12. \A i \in Said(more) : w[all[i]] = more[i].req
    <3>1. TAKE i \in Said(more)
    <3>2. CASE i = n
      BY <2>1, <2>2, <2>6, <2>11, <3>2
    <3>3. CASE i # n
      <4>1. i \in Said(entries) /\ all[i] = row[i]
        BY <2>7, <2>11, <3>3
      <4>2. w[all[i]] = rows[row[i]] /\ more[i] = entries[i]
        BY <2>1, <2>5, <2>9, <4>1
      <4>3. QED
        BY <2>8, <4>1, <4>2 DEF Matching
    <3>4. QED
      BY <3>2, <3>3
  <2>13. ASSUME NEW i \in Said(more), NEW j \in Said(more), i < j PROVE all[i] < all[j]
    <3>1. i # n
      <4>1. SUFFICES ASSUME i = n PROVE FALSE
        OBVIOUS
      <4>2. j \in 1 .. Len(entries)
        BY <2>7, <2>9, <2>13, <4>1
      <4>3. QED
        BY <2>5, <2>13, <4>1, <4>2
    <3>2. i \in Said(entries) /\ all[i] = row[i] /\ row[i] \in 1 .. Len(rows)
      BY <2>7, <2>9, <2>11, <3>1
    <3>3. CASE j = n
      BY <2>1, <2>11, <3>2, <3>3
    <3>4. CASE j # n
      <4>1. j \in Said(entries) /\ all[j] = row[j]
        BY <2>7, <2>11, <3>4
      <4>2. QED
        BY <2>8, <2>13, <3>2, <4>1 DEF Matching
    <3>5. QED
      BY <3>3, <3>4
  <2>14. Matching(more, w, all)
    BY <2>12, <2>13 DEF Matching
  <2>15. Matches(more, w)
    BY <2>10, <2>14 DEF Matches
  <2>16. QED
    BY <2>15 DEF more, w
<1>3. QED
  BY <1>1, <1>2

\* The tree gets messages only with the row of their request.
LEMMA NextStoresAgree ==
  ASSUME IInv, StoresAgree, [Next]_vars
  PROVE  StoresAgree'
<1>1. /\ turns \in [Key -> Seq(Requests)] /\ tree \in [Key -> Seq(TreeEntry)] /\ TypeOK
      /\ \A k \in Key : Matches(tree[k], turns[k])
  BY StoresAgreeIs DEF IInv, TypeOK, StoresType
<1>2. ASSUME NEW r \in Requests, Finish(r) PROVE StoresAgree'
  <2>1. PICK es \in TreeEntries(r) : tree' = [tree EXCEPT ![KeyOf(r)] = @ \o es]
    BY <1>2 DEF Finish
  <2>2. turns' = [turns EXCEPT ![KeyOf(r)] = Append(@, r)]
    BY <1>2 DEF Finish
  <2>3. ASSUME NEW k \in Key PROVE Matches(tree'[k], turns'[k])
    <3>1. CASE k = KeyOf(r)
      <4>1. turns'[k] = Append(turns[k], r) /\ tree'[k] = tree[k] \o es
        BY <1>1, <2>1, <2>2, <3>1
      <4>2. QED
        BY <1>1, <4>1, RowAndMessages
    <3>2. CASE k # KeyOf(r)
      BY <1>1, <2>1, <2>2, <3>2
    <3>3. QED
      BY <3>1, <3>2
  <2>4. QED
    BY <2>3, StoresAgreeIs
<1>3. ASSUME NEW r \in Requests, OrphanRecords(r) PROVE StoresAgree'
  <2>1. /\ tree' = tree
        /\ turns' = turns \/ turns' = [turns EXCEPT ![KeyOf(r)] = Append(@, r)]
    BY <1>3 DEF OrphanRecords
  <2>2. ASSUME NEW k \in Key PROVE Matches(tree'[k], turns'[k])
    <3>1. turns'[k] = turns[k] \/ turns'[k] = Append(turns[k], r)
      BY <1>1, <2>1
    <3>2. turns[k] \in Seq(Requests) /\ Matches(tree[k], turns[k]) /\ tree'[k] = tree[k]
      BY <1>1, <2>1
    <3>3. Matches(tree[k], Append(turns[k], r))
      BY <3>2, RowMore
    <3>4. QED
      BY <3>1, <3>2, <3>3
  <2>3. QED
    BY <2>2, StoresAgreeIs
<1>4. ASSUME UNCHANGED <<turns, tree>> PROVE StoresAgree'
  BY <1>1, <1>4, StoresAgreeIs
<1>5. QED
  BY <1>2, <1>3, <1>4, NextPlain

\* CountersAddUp, of the requests in flight and those that left early.
LEMMA CountersAddUpIs ==
  /\ CountersAddUp <=> counters["total"] = counters["succeeded"] + counters["failed"]
                         + Cardinality(InFlight) + Cardinality(Dropped)
  /\ CountersAddUp' <=> counters'["total"] = counters'["succeeded"] + counters'["failed"]
                         + Cardinality(InFlight') + Cardinality(Dropped')
  BY DEF CountersAddUp, InFlight, Dropped

\* Who enters and who leaves with a step of r that takes it to p.
LEMMA Moves ==
  ASSUME TypeOK, NEW r \in Requests, NEW p \in Places, pc' = [pc EXCEPT ![r] = p]
  PROVE  /\ InFlight' = IF p \in Ended \cup {"idle"} THEN InFlight \ {r} ELSE InFlight \cup {r}
         /\ Dropped' = IF p = "dropped" THEN Dropped \cup {r} ELSE Dropped \ {r}
         /\ r \in InFlight <=> pc[r] \notin Ended \cup {"idle"}
         /\ r \in Dropped <=> pc[r] = "dropped"
<1>1. \A q \in Requests : pc'[q] = IF q = r THEN p ELSE pc[q]
  BY DEF TypeOK, ControlType
<1>2. InFlight' = IF p \in Ended \cup {"idle"} THEN InFlight \ {r} ELSE InFlight \cup {r}
  BY <1>1 DEF InFlight
<1>3. Dropped' = IF p = "dropped" THEN Dropped \cup {r} ELSE Dropped \ {r}
  BY <1>1 DEF Dropped
<1>4. QED
  BY <1>2, <1>3 DEF InFlight, Dropped

\* Cardinality, one element more or less.
LEMMA OneMore ==
  ASSUME NEW S, IsFiniteSet(S), NEW x
  PROVE  /\ IsFiniteSet(S \cup {x}) /\ IsFiniteSet(S \ {x}) /\ Cardinality(S) \in Nat
         /\ x \notin S => /\ Cardinality(S \cup {x}) = Cardinality(S) + 1
                          /\ S \ {x} = S
         /\ x \in S => /\ Cardinality(S \ {x}) = Cardinality(S) - 1
                       /\ S \cup {x} = S
<1>1. Cardinality(S) \in Nat
  BY FS_CardinalityType
<1>2. /\ IsFiniteSet(S \cup {x})
      /\ Cardinality(S \cup {x}) = IF x \in S THEN Cardinality(S) ELSE Cardinality(S) + 1
  BY FS_AddElement
<1>3. /\ IsFiniteSet(S \ {x})
      /\ Cardinality(S \ {x}) = IF x \in S THEN Cardinality(S) - 1 ELSE Cardinality(S)
  BY FS_RemoveElement
<1>4. /\ x \in S => S \cup {x} = S
      /\ x \notin S => S \ {x} = S
  OBVIOUS
<1>5. QED
  BY <1>1, <1>2, <1>3, <1>4

\* One more request is counted as accepted, and it is in flight or dropped; one
\* in flight is dropped, or counted as succeeded or failed.
LEMMA NextCounters ==
  ASSUME IInv, Finitely, CountersAddUp, [Next]_vars
  PROVE  Finitely' /\ CountersAddUp'
<1> USE DEF Ended
<1>1. /\ counters \in [Counters -> Nat] /\ TypeOK
      /\ counters["total"] \in Nat /\ counters["succeeded"] \in Nat /\ counters["failed"] \in Nat
      /\ counters["total"] = counters["succeeded"] + counters["failed"]
                               + Cardinality(InFlight) + Cardinality(Dropped)
      /\ IsFiniteSet(InFlight) /\ IsFiniteSet(Dropped)
      /\ Cardinality(InFlight) \in Nat /\ Cardinality(Dropped) \in Nat
  BY CountersAddUpIs, FS_CardinalityType DEF IInv, TypeOK, ControlType, Counters, Finitely
<1>2. /\ (IsFiniteSet(InFlight') /\ IsFiniteSet(Dropped')) => Finitely'
      /\ CountersAddUp' <=> counters'["total"] = counters'["succeeded"] + counters'["failed"]
                                + Cardinality(InFlight') + Cardinality(Dropped')
  BY CountersAddUpIs DEF Finitely
<1>3. ASSUME UNCHANGED counters, InFlight' = InFlight, Dropped' = Dropped
      PROVE  Finitely' /\ CountersAddUp'
  BY <1>1, <1>2, <1>3
<1>4. ASSUME NEW r \in Requests, NEW p \in Places, pc' = [pc EXCEPT ![r] = p], UNCHANGED counters,
             pc[r] \notin Ended \cup {"idle"}, p \notin Ended \cup {"idle"}
      PROVE  Finitely' /\ CountersAddUp'
  <2>1. InFlight' = InFlight \cup {r} /\ Dropped' = Dropped \ {r}
    BY <1>1, <1>4, Moves, Zenon
  <2>2. r \in InFlight /\ r \notin Dropped
    BY <1>4 DEF InFlight, Dropped
  <2>3. InFlight' = InFlight /\ Dropped' = Dropped
    BY <2>1, <2>2
  <2>4. QED
    BY <1>3, <1>4, <2>3
<1>5. ASSUME NEW r \in Requests, Submit(r) PROVE Finitely' /\ CountersAddUp'
  <2>1. /\ pc[r] = "idle"
        /\ pc' = [pc EXCEPT ![r] = "ensuring"] \/ pc' = [pc EXCEPT ![r] = "dropped"]
    BY <1>5 DEF Submit, Goto
  <2>2. /\ counters'["total"] = counters["total"] + 1
        /\ counters'["succeeded"] = counters["succeeded"]
        /\ counters'["failed"] = counters["failed"]
    BY <1>1, <1>5 DEF Submit, Counters
  <2>3. \/ InFlight' = InFlight \cup {r} /\ Dropped' = Dropped /\ r \notin InFlight
        \/ InFlight' = InFlight /\ Dropped' = Dropped \cup {r} /\ r \notin Dropped
    <3>1. r \notin InFlight /\ r \notin Dropped
      BY <2>1 DEF InFlight, Dropped
    <3>2. CASE pc' = [pc EXCEPT ![r] = "ensuring"]
      <4>1. "ensuring" \in Places /\ "ensuring" \notin Ended \cup {"idle"} /\ "ensuring" # "dropped"
        BY DEF Places
      <4>2. InFlight' = InFlight \cup {r} /\ Dropped' = Dropped \ {r}
        BY <1>1, <3>2, <4>1, Moves, Zenon
      <4>3. QED
        BY <3>1, <4>2
    <3>3. CASE pc' = [pc EXCEPT ![r] = "dropped"]
      <4>1. "dropped" \in Places
        BY DEF Places
      <4>2. InFlight' = InFlight \ {r} /\ Dropped' = Dropped \cup {r}
        BY <1>1, <3>3, <4>1, Moves
      <4>3. QED
        BY <3>1, <4>2
    <3>4. QED
      BY <2>1, <3>2, <3>3
  <2>4. /\ IsFiniteSet(InFlight') /\ IsFiniteSet(Dropped')
        /\ Cardinality(InFlight') + Cardinality(Dropped')
             = Cardinality(InFlight) + Cardinality(Dropped) + 1
        /\ Cardinality(InFlight') \in Nat /\ Cardinality(Dropped') \in Nat
    <3>1. CASE InFlight' = InFlight \cup {r} /\ Dropped' = Dropped /\ r \notin InFlight
      <4>1. IsFiniteSet(InFlight \cup {r}) /\ Cardinality(InFlight \cup {r}) = Cardinality(InFlight) + 1
        BY <1>1, <3>1, OneMore
      <4>2. QED
        BY <1>1, <3>1, <4>1
    <3>2. CASE InFlight' = InFlight /\ Dropped' = Dropped \cup {r} /\ r \notin Dropped
      <4>1. IsFiniteSet(Dropped \cup {r}) /\ Cardinality(Dropped \cup {r}) = Cardinality(Dropped) + 1
        BY <1>1, <3>2, OneMore
      <4>2. QED
        BY <1>1, <3>2, <4>1
    <3>3. QED
      BY <2>3, <3>1, <3>2
  <2>5. QED
    BY <1>1, <1>2, <2>2, <2>4
<1>6. ASSUME NEW r \in Requests, LeaveEarly(r) PROVE Finitely' /\ CountersAddUp'
  <2>1. pc[r] \in {"ensuring", "waiting"} /\ pc' = [pc EXCEPT ![r] = "dropped"] /\ UNCHANGED counters
    BY <1>6 DEF LeaveEarly, Goto
  <2>2. "dropped" \in Places
    BY DEF Places
  <2>3. InFlight' = InFlight \ {r} /\ Dropped' = Dropped \cup {r}
    BY <1>1, <2>1, <2>2, Moves
  <2>4. r \in InFlight /\ r \notin Dropped
    BY <2>1 DEF InFlight, Dropped
  <2>5. /\ IsFiniteSet(InFlight') /\ Cardinality(InFlight') = Cardinality(InFlight) - 1
        /\ IsFiniteSet(Dropped') /\ Cardinality(Dropped') = Cardinality(Dropped) + 1
    BY <1>1, <2>3, <2>4, OneMore
  <2>6. QED
    BY <1>1, <1>2, <2>1, <2>5
<1>7. ASSUME NEW r \in Requests, Leave(r) PROVE Finitely' /\ CountersAddUp'
  <2>1. pc[r] \in Critical
    BY <1>1, <1>7, LeaveFacts
  <2>2. PICK p \in {"done", "failed", "cancelled"} : pc' = [pc EXCEPT ![r] = p]
    BY <1>1, <1>7, LeaveFacts
  <2>3. p \in Places /\ p # "dropped" /\ p \in Ended
    BY DEF Places
  <2>4. InFlight' = InFlight \ {r} /\ Dropped' = Dropped \ {r}
    BY <1>1, <2>2, <2>3, Moves
  <2>5. r \in InFlight /\ r \notin Dropped
    BY <2>1 DEF InFlight, Dropped, Critical
  <2>6. \/ counters' = [counters EXCEPT !["succeeded"] = @ + 1]
        \/ counters' = [counters EXCEPT !["failed"] = @ + 1]
    BY <1>7 DEF Leave, Finish, Fail, Cancel, CountFailure
  <2>7. /\ counters'["total"] = counters["total"]
        /\ counters'["succeeded"] + counters'["failed"] = counters["succeeded"] + counters["failed"] + 1
    BY <1>1, <2>6 DEF Counters
  <2>8. /\ IsFiniteSet(InFlight') /\ IsFiniteSet(Dropped')
        /\ Cardinality(InFlight') = Cardinality(InFlight) - 1
        /\ Cardinality(Dropped') = Cardinality(Dropped)
    BY <1>1, <2>4, <2>5, OneMore
  <2>9. QED
    BY <1>1, <1>2, <2>7, <2>8
<1>8. ASSUME NEW r \in Requests, EnsureConversation(r) PROVE Finitely' /\ CountersAddUp'
  <2>1. /\ pc[r] = "ensuring" /\ pc' = [pc EXCEPT ![r] = "waiting"] /\ UNCHANGED counters
        /\ "waiting" \in Places
    BY <1>8 DEF EnsureConversation, Goto, Places
  <2>2. QED
    BY <1>4, <2>1
<1>9. ASSUME NEW r \in Requests, Acquire(r) PROVE Finitely' /\ CountersAddUp'
  <2>1. /\ pc[r] = "waiting" /\ UNCHANGED counters
        /\ \E p \in {"history", "sandbox"} : pc' = [pc EXCEPT ![r] = p]
    BY <1>9 DEF Acquire, FirstAwait, Goto
  <2>2. QED
    BY <1>4, <2>1 DEF Places, Critical
<1>10. ASSUME NEW r \in Requests, Inside(r) PROVE Finitely' /\ CountersAddUp'
  <2>1. pc[r] \in {"history", "sandbox"} /\ pc' = [pc EXCEPT ![r] = "sandbox"]
    BY <1>1, <1>10, InsideFacts
  <2>2. UNCHANGED counters
    BY <1>10 DEF Inside, ReadHistory, RetrySandbox
  <2>3. QED
    BY <1>4, <2>1, <2>2 DEF Places, Critical
<1>11. ASSUME NEW r \in Requests, InBody(r) PROVE Finitely' /\ CountersAddUp'
  <2>1. /\ pc[r] \in Critical
        /\ \E p \in {"running", "rerunning", "recording"} : pc' = [pc EXCEPT ![r] = p]
    BY <1>1, <1>11, BodyFacts
  <2>2. UNCHANGED counters
    BY <1>11 DEF InBody, SetSandbox, RunAgain, LoopReturns
  <2>3. QED
    BY <1>4, <2>1, <2>2 DEF Places, Critical
<1>12. ASSUME UNCHANGED <<pc, counters>> PROVE Finitely' /\ CountersAddUp'
  BY <1>3, <1>12 DEF InFlight, Dropped
<1>13. ASSUME NEW r \in Requests, Orphan(r) PROVE Finitely' /\ CountersAddUp'
  BY <1>12, <1>13 DEF Orphan, OrphanSetsDir, OrphanRecords
<1>14. CASE UNCHANGED vars
  BY <1>12, <1>14 DEF vars
<1>15. QED
  BY <1>5, <1>6, <1>7, <1>8, <1>9, <1>10, <1>11, <1>13, <1>14, StepKinds DEF Outside

-----------------------------------------------------------------------------
(* What a resumed request reads back.                                       *)

\* build_chat_history_messages drops a row only when it returns as many turns
\* as it may.
LEMMA BuildHistoryKeeps ==
  ASSUME NEW S, NEW rows \in Seq(S), NEW q, InSeq(rows, q)
  PROVE  InSeq(BuildHistory(rows), q) \/ Len(BuildHistory(rows)) = HistoryTurns
<1> USE HistoryAssumption
<1> DEFINE listed == ListTurns(rows, Window)
<1>1. Window \in Nat /\ Window >= HistoryTurns /\ HistoryTurns \in Nat \ {0} /\ Len(rows) \in Nat
  BY LenProperties DEF Window
<1>2. /\ listed \in Seq(S)
      /\ Len(listed) = IF Len(rows) < Window THEN Len(rows) ELSE Window
      /\ Len(rows) < Window => listed = rows
  <2>1. CASE Len(rows) < Window
    <3>1. listed = SubSeq(rows, 1, Len(rows))
      BY <2>1 DEF ListTurns
    <3>2. listed = rows
      BY <3>1
    <3>3. QED
      BY <2>1, <3>2
  <2>2. CASE ~(Len(rows) < Window)
    <3>1. listed = SubSeq(rows, 1, Window)
      BY <2>2 DEF ListTurns
    <3>2. listed \in Seq(S) /\ Len(listed) = Window
      BY <1>1, <2>2, <3>1, SubSeqProperties
    <3>3. QED
      BY <2>2, <3>2
  <2>3. QED
    BY <2>1, <2>2
<1> HIDE DEF listed
<1>3. CASE Len(listed) <= HistoryTurns
  <2>1. LastOf(listed) = listed
    BY <1>3 DEF LastOf
  <2>2. listed = rows \/ Len(listed) = HistoryTurns
    BY <1>1, <1>2, <1>3
  <2>3. QED
    BY <2>1, <2>2 DEF BuildHistory, listed
<1>4. CASE ~(Len(listed) <= HistoryTurns)
  <2>1. LastOf(listed) = SubSeq(listed, Len(listed) - HistoryTurns + 1, Len(listed))
    BY <1>4 DEF LastOf
  <2>2. Len(listed) \in Nat /\ Len(listed) - HistoryTurns + 1 \in 1 .. Len(listed) + 1
    BY <1>1, <1>2, <1>4
  <2>3. Len(LastOf(listed)) = HistoryTurns
    BY <1>1, <1>2, <2>1, <2>2, SubSeqProperties
  <2>4. QED
    BY <2>3 DEF BuildHistory, listed
<1>5. QED
  BY <1>3, <1>4

\* A request without a conversation_id is alone in the conversation it starts.
LEMMA OwnConversation ==
  ASSUME TypeOK, NEW r \in Requests, NEW q \in Requests, ask[r].conv = NoConv, KeyOf(q) = KeyOf(r)
  PROVE  q = r
<1>1. KeyOf(r) = r
  BY DEF KeyOf
<1>2. ask[q].conv \in Conversations \cup {NoConv}
  BY DEF TypeOK, ControlType, Bodies
<1>3. CASE ask[q].conv = NoConv
  BY <1>1, <1>3 DEF KeyOf
<1>4. CASE ask[q].conv \in Conversations
  <2>1. KeyOf(q) \in Conversations
    BY <1>4 DEF KeyOf
  <2>2. QED
    BY <1>1, <2>1
<1>5. QED
  BY <1>2, <1>3, <1>4

\* The requests that have their history and work, or will work, from it.
Informed == {"sandbox", "running"}

LEMMA SeesIs ==
  ASSUME NEW r, NEW q
  PROVE  InSeq(history[r], q)' <=> InSeq(history'[r], q)
  BY DEF InSeq

\* Between the read of the history and the end of the request nobody of the same
\* conversation is answered, and a row once written stays.
LEMMA NextSees ==
  ASSUME IInv, Rows, SeesAnsweredTurns, [Next]_vars
  PROVE  SeesAnsweredTurns'
<1>1. /\ TypeOK /\ pc \in [Requests -> Places] /\ history \in [Requests -> Seq(Requests)]
      /\ turns \in [Key -> Seq(Requests)]
      /\ LockDiscipline /\ LockDiscipline'
  BY NextLockDiscipline DEF IInv, TypeOK, ControlType, StoresType
<1>2. SUFFICES ASSUME UNCHANGED ask, NEW r \in Requests, NEW q \in Requests,
                      pc'[r] \in Informed, pc'[q] = "done", KeyOf(q) = KeyOf(r)
               PROVE  InSeq(history'[r], q) \/ Len(history'[r]) = HistoryTurns
  <2>1. UNCHANGED ask
    <3>1. ASSUME NEW s \in Requests,
                 Outside(s) \/ Acquire(s) \/ Inside(s) \/ InBody(s) \/ Leave(s) \/ Orphan(s)
          PROVE  UNCHANGED ask
      BY <1>1, <3>1, OutsideFacts, InsideFacts, BodyFacts, LeaveFacts, OrphanFacts
         DEF settingVars, Acquire
    <3>2. CASE UNCHANGED vars
      BY <3>2 DEF vars
    <3>3. QED
      BY <3>1, <3>2, StepKinds
  <2>2. \A s \in Requests : KeyOf(s)' = KeyOf(s)
    BY <2>1, SameKeys
  <2>3. ASSUME NEW r \in Requests, NEW q \in Requests,
               pc'[r] \in {"sandbox", "running"}, pc'[q] = "done", KeyOf(q)' = KeyOf(r)'
        PROVE  InSeq(history[r], q)' \/ Len(history[r])' = HistoryTurns
    BY <1>2, <2>1, <2>2, <2>3, SeesIs DEF Informed
  <2>4. QED
    BY <2>3 DEF SeesAnsweredTurns
<1>3. ASSUME pc[r] \in Informed, pc[q] = "done", history'[r] = history[r]
      PROVE  InSeq(history'[r], q) \/ Len(history'[r]) = HistoryTurns
  BY <1>2, <1>3 DEF SeesAnsweredTurns, Informed
<1>4. ASSUME NEW s \in Requests, Outside(s) \/ Orphan(s) \/ InBody(s) \/ RetrySandbox(s)
      PROVE  pc[r] \in Informed /\ pc[q] = "done" /\ history'[r] = history[r]
  <2>1. CASE Outside(s)
    BY <1>1, <1>2, <2>1, OutsideFacts DEF Informed, Critical
  <2>2. CASE Orphan(s)
    BY <1>2, <2>2, OrphanFacts
  <2>3. CASE InBody(s)
    <3>1. /\ \E p \in {"running", "rerunning", "recording"} : pc' = [pc EXCEPT ![s] = p]
          /\ pc[s] \in {"sandbox", "running", "rerunning"}
      BY <1>1, <2>3, BodyFacts DEF InBody, SetSandbox, RunAgain, LoopReturns, Running
    <3>2. pc[r] \in Informed /\ pc[q] = "done"
      BY <1>1, <1>2, <3>1, <2>3 DEF Informed, InBody, SetSandbox, RunAgain, LoopReturns, Goto
    <3>3. history'[r] = history[r]
      <4>1. CASE SetSandbox(s) \/ LoopReturns(s)
        BY <4>1 DEF SetSandbox, LoopReturns, requestVars
      <4>2. CASE RunAgain(s)
        <5>1. pc'[s] = "rerunning" /\ history' = [history EXCEPT ![s] = <<>>]
          BY <1>1, <4>2 DEF RunAgain, Goto
        <5>2. r # s
          BY <1>2, <5>1 DEF Informed
        <5>3. QED
          BY <1>1, <5>1, <5>2
      <4>3. QED
        BY <2>3, <4>1, <4>2 DEF InBody
    <3>4. QED
      BY <3>2, <3>3
  <2>4. CASE RetrySandbox(s)
    BY <1>2, <2>4 DEF RetrySandbox
  <2>5. QED
    BY <1>4, <2>1, <2>2, <2>3, <2>4
<1>5. ASSUME NEW s \in Requests, Acquire(s)
      PROVE  InSeq(history'[r], q) \/ Len(history'[r]) = HistoryTurns
  <2>1. /\ \E p \in {"history", "sandbox"} : pc' = [pc EXCEPT ![s] = p]
        /\ history' = history /\ (ask[s].conv # NoConv => pc' = [pc EXCEPT ![s] = "history"])
    BY <1>5 DEF Acquire, FirstAwait, Goto
  <2>2. pc[q] = "done" /\ q # s
    BY <1>1, <1>2, <2>1
  <2>3. CASE r = s
    <3>1. ask[s].conv = NoConv
      BY <1>1, <1>2, <2>1, <2>3 DEF Informed
    <3>2. q = s
      BY <1>1, <1>2, <2>3, <3>1, OwnConversation
    <3>3. QED
      BY <2>2, <3>2
  <2>4. CASE r # s
    BY <1>1, <1>2, <1>3, <2>1, <2>2, <2>4
  <2>5. QED
    BY <2>3, <2>4
<1>6. ASSUME NEW s \in Requests, ReadHistory(s)
      PROVE  InSeq(history'[r], q) \/ Len(history'[r]) = HistoryTurns
  <2>1. /\ pc' = [pc EXCEPT ![s] = "sandbox"]
        /\ history' = [history EXCEPT ![s] = BuildHistory(turns[KeyOf(s)])]
    BY <1>6 DEF ReadHistory, Goto
  <2>2. pc[q] = "done"
    BY <1>1, <1>2, <2>1
  <2>3. CASE r = s
    <3>1. InSeq(turns[KeyOf(r)], q)
      BY <1>2, <2>2 DEF Rows, Recorded
    <3>2. turns[KeyOf(r)] \in Seq(Requests)
      BY <1>1, KeyOfType
    <3>3. history'[r] = BuildHistory(turns[KeyOf(r)])
      BY <1>1, <2>1, <2>3
    <3>4. QED
      BY <3>1, <3>2, <3>3, BuildHistoryKeeps
  <2>4. CASE r # s
    BY <1>1, <1>2, <1>3, <2>1, <2>2, <2>4
  <2>5. QED
    BY <2>3, <2>4
<1>7. ASSUME NEW s \in Requests, Leave(s) PROVE FALSE
  <2>1. \A t \in Requests : pc'[t] \notin Critical
    <3>1. lock' = NoReq
      BY <1>1, <1>7, LeaveFacts DEF Release
    <3>2. QED
      BY <1>1, <3>1 DEF LockDiscipline
  <2>2. QED
    BY <1>2, <2>1 DEF Informed, Critical
<1>8. CASE UNCHANGED vars
  BY <1>2, <1>3, <1>8 DEF vars
<1>9. QED
  BY <1>3, <1>4, <1>5, <1>6, <1>7, <1>8, StepKinds DEF Inside

-----------------------------------------------------------------------------
(* The second inductive invariant.                                          *)

LEMMA InitBooks == Init => Books
<1> SUFFICES ASSUME Init PROVE Books
  OBVIOUS
<1>1. /\ \A r \in Requests : pc[r] = "idle"
      /\ turns = [k \in Key |-> <<>>] /\ tree = [k \in Key |-> <<>>] /\ orphanTurns = {}
      /\ counters = [c \in Counters |-> 0] /\ TypeOK
  BY InitType DEF Init
<1>2. Rows
  <2>1. \A k \in Key : DOMAIN turns[k] = {}
    BY <1>1
  <2>2. \A r \in Requests : ~Recorded(r)
    BY <1>1, <2>1, KeyOfType DEF Recorded, InSeq
  <2>3. QED
    BY <1>1, <2>1, <2>2 DEF Rows
<1>3. StoresAgree
  <2>1. ASSUME NEW k \in Key PROVE Matches(tree[k], turns[k])
    <3>1. tree[k] = <<>> /\ turns[k] = <<>>
      BY <1>1
    <3>2. Said(<<>>) = {}
      BY DEF Said
    <3> DEFINE none == [i \in {} |-> 1]
    <3>3. none \in [Said(<<>>) -> DOMAIN <<>>]
      BY <3>2
    <3>4. Matching(<<>>, <<>>, none)
      BY <3>2 DEF Matching
    <3> HIDE DEF none
    <3>5. Matches(<<>>, <<>>)
      BY <3>3, <3>4 DEF Matches
    <3>6. QED
      BY <3>1, <3>5
  <2>2. QED
    BY <2>1, StoresAgreeIs
<1>4. Finitely /\ CountersAddUp
  <2>1. InFlight = {} /\ Dropped = {}
    BY <1>1 DEF InFlight, Dropped
  <2>2. IsFiniteSet(InFlight) /\ IsFiniteSet(Dropped)
        /\ Cardinality(InFlight) = 0 /\ Cardinality(Dropped) = 0
    BY <2>1, FS_EmptySet
  <2>3. counters["total"] = 0 /\ counters["succeeded"] = 0 /\ counters["failed"] = 0
    BY <1>1 DEF Counters
  <2>4. QED
    BY <2>2, <2>3, CountersAddUpIs DEF Finitely
<1>5. SeesAnsweredTurns
  BY <1>1 DEF SeesAnsweredTurns
<1>6. QED
  BY <1>2, <1>3, <1>4, <1>5 DEF Books

THEOREM BooksInductive == Spec => []Books
<1>1. IInv /\ Books /\ [Next]_vars => Books'
  BY NextRows, NextStoresAgree, NextCounters, NextSees DEF Books
<1>2. QED
  BY InitBooks, Inductive, <1>1, PTL DEF Spec

\* In a list without repetitions a request occurs once or not at all.
LEMMA OccursOnce ==
  ASSUME NEW s, NEW r, \A m, n \in DOMAIN s : s[m] = s[n] => m = n
  PROVE  Occurrences(s, r) = IF InSeq(s, r) THEN 1 ELSE 0
<1>1. CASE InSeq(s, r)
  <2>1. PICK m \in DOMAIN s : s[m] = r
    BY <1>1 DEF InSeq
  <2>2. {i \in DOMAIN s : s[i] = r} = {m}
    BY <2>1
  <2>3. QED
    BY <1>1, <2>2, FS_Singleton DEF Occurrences
<1>2. CASE ~InSeq(s, r)
  <2>1. {i \in DOMAIN s : s[i] = r} = {}
    BY <1>2 DEF InSeq
  <2>2. QED
    BY <1>2, <2>1, FS_EmptySet DEF Occurrences
<1>3. QED
  BY <1>1, <1>2

\* Every answered request has exactly one row, a failed one none and a cancelled
\* one at most one, whatever its abandoned thread does; the session tree has the
\* turns of the table in its order; the counters of /metrics add up.
THEOREM BooksBalance == Spec => []Accounted
<1>1. IInv /\ Books => Accounted
  <2> SUFFICES ASSUME IInv, Books PROVE Accounted
    OBVIOUS
  <2>1. RecordedOnce
    <3>1. ASSUME NEW r \in Requests
          PROVE  Occurrences(turns[KeyOf(r)], r) = IF Recorded(r) THEN 1 ELSE 0
      <4>1. KeyOf(r) \in Key
        BY KeyOfType DEF IInv
      <4>2. \A m, n \in DOMAIN turns[KeyOf(r)] : turns[KeyOf(r)][m] = turns[KeyOf(r)][n] => m = n
        BY <4>1 DEF Books, Rows
      <4>3. QED
        BY <4>2, OccursOnce DEF Recorded
    <3>2. \A r \in Requests : /\ pc[r] = "done" => Recorded(r)
                              /\ Recorded(r) => pc[r] \in {"done", "cancelled"}
      BY DEF Books, Rows
    <3>3. QED
      BY <3>1, <3>2 DEF RecordedOnce
  <2>2. QED
    BY <2>1 DEF Books, Accounted
<1>2. QED
  BY Inductive, BooksInductive, <1>1, PTL

\* The first run of a resumed request works with every turn of its conversation
\* that was answered before it had the lock, as long as the history has room:
\* recording happens inside the critical section. A run repeated after a
\* TypeError has no history and is excepted.
THEOREM AnswersAreSeen == Spec => []SeesAnsweredTurns
BY BooksInductive, PTL DEF Books

-----------------------------------------------------------------------------
(***************************************************************************)
(* The rate limiter every request passes first.  It never admits more than *)
(* it may within a minute, for any processes, requests, limit and length   *)
(* of the minute, and whatever fails between INCR and EXPIRE.              *)
(*                                                                         *)
(* Two arguments carry it.  Of the requests Redis admitted in the last     *)
(* minute, those at the front belong to one earlier window and have at     *)
(* least the age of the current one (Split), so that they are gone before  *)
(* a third window opens.  And what the local bucket's filter keeps only    *)
(* shrinks with time, which needs an induction over the bucket.            *)
(***************************************************************************)
Steps == {"idle", "incr", "expire", "ttl", "refused"}

\* The oldest come first.
Descends(times) == \A i, j \in 1 .. Len(times) : i <= j => times[i] >= times[j]
OldestFirst == Descends(ages)

\* The first k of the admitted requests were admitted before the key was
\* created, in one window; the others are counted by the key.
SplitAt(times, counted, life, k) ==
    /\ k <= Len(times) /\ Len(times) - k <= Limit /\ Len(times) - k <= counted
    /\ life > 0 => \A i \in 1 .. k : times[i] >= Minute - life
Split == \E k \in 0 .. Limit : SplitAt(ages, count, ttl, k)

\* A key has a lifetime unless the request that created it is about to give it
\* one or has ended, and without a key there is no lifetime.
KeyLifetime ==
    /\ count = 0 => ttl = -1 /\ \A r \in Callers : ~At(r, "expire")
    /\ \A r \in Callers : At(r, "expire") => ttl = -1
    /\ \A r, q \in Callers : At(r, "expire") /\ At(q, "expire") => r = q

LocalLimit == \A p \in Processes : Len(Recent(bucket[p])) <= Limit

LimiterIInv == LimiterTypeOK /\ OldestFirst /\ Split /\ KeyLifetime /\ LocalLimit

-----------------------------------------------------------------------------
(* Induction over an interval.                                             *)

\* A set of numbers that is not empty has a least element.
LEMMA Least ==
    ASSUME NEW T \in SUBSET Nat, T # {}
    PROVE  \E m \in T : \A k \in T : m <= k
<1>1. PICK n \in T : TRUE
  OBVIOUS
<1> DEFINE Below == {0 .. k : k \in {j \in T : j <= n}}
<1>2. IsWellFoundedOn(StrictSubsetOrdering(0 .. n), FiniteSubsetsOf(0 .. n))
  BY FS_StrictSubsetOrderingWellFounded
<1>3. Below \subseteq FiniteSubsetsOf(0 .. n) /\ Below # {}
  <2>1. \A k \in Nat : k <= n => 0 .. k \subseteq 0 .. n /\ IsFiniteSet(0 .. k)
    BY FS_Interval
  <2>2. 0 .. n \in Below
    OBVIOUS
  <2>3. QED
    BY <2>1, <2>2 DEF FiniteSubsetsOf
<1>4. PICK b \in Below : \A c \in Below : <<c, b>> \notin StrictSubsetOrdering(0 .. n)
  BY <1>2, <1>3, WFMin
<1>5. PICK m \in T : m <= n /\ b = 0 .. m
  OBVIOUS
<1>6. ASSUME NEW k \in T, k < m PROVE FALSE
  <2>1. 0 .. k \in Below
    BY <1>6, <1>5
  <2>2. 0 .. k \subseteq 0 .. m /\ m \in 0 .. m /\ m \notin 0 .. k /\ 0 .. m \subseteq 0 .. n
    BY <1>5, <1>6
  <2>3. <<0 .. k, 0 .. m>> \in StrictSubsetOrdering(0 .. n)
    BY <2>2 DEF StrictSubsetOrdering
  <2>4. QED
    BY <2>1, <2>3, <1>4, <1>5
<1>7. QED
  BY <1>6

\* A set that holds 0 and, with each number, the next one holds all of 0 .. n.
LEMMA Induction ==
    ASSUME NEW n \in Nat, NEW S, 0 \in S, \A i \in 1 .. n : i - 1 \in S => i \in S
    PROVE  \A i \in 0 .. n : i \in S
<1> DEFINE T == {i \in 0 .. n : i \notin S}
<1>1. ASSUME T # {} PROVE FALSE
  <2>1. PICK m \in T : \A k \in T : m <= k
    <3>1. T \in SUBSET Nat /\ T # {}
      BY <1>1
    <3> HIDE DEF T
    <3>2. QED
      BY <3>1, Least
  <2>2. m \in 1 .. n /\ m - 1 \in 0 .. n /\ ~(m <= m - 1)
    BY <2>1
  <2>3. m - 1 \in S
    BY <2>1, <2>2
  <2>4. QED
    BY <2>1, <2>2, <2>3
<1>2. QED
  BY <1>1

-----------------------------------------------------------------------------
(* The filter of the local bucket.                                         *)

\* kept[i] is what the filter keeps of the first i timestamps.
Filters(kept, times, n) ==
    kept = [i \in 0 .. n |->
               IF i = 0 THEN <<>>
               ELSE IF times[i] <= Minute THEN Append(kept[i - 1], times[i]) ELSE kept[i - 1]]

LEMMA FilterExists ==
    ASSUME NEW times, NEW n \in Nat
    PROVE  \E kept : Filters(kept, times, n)
<1> DEFINE S == {i \in 0 .. n : \E kept : Filters(kept, times, i)}
<1>1. 0 \in S
  <2>1. Filters([i \in 0 .. 0 |-> <<>>], times, 0)
    BY DEF Filters
  <2>2. QED
    BY <2>1
<1>2. ASSUME NEW i \in 1 .. n, i - 1 \in S PROVE i \in S
  <2>1. PICK kept : Filters(kept, times, i - 1)
    BY <1>2
  <2> DEFINE more == IF times[i] <= Minute THEN Append(kept[i - 1], times[i]) ELSE kept[i - 1]
             next == [j \in 0 .. i |-> IF j = i THEN more ELSE kept[j]]
  <2>2. ASSUME NEW j \in 0 .. i
        PROVE  next[j] = IF j = 0 THEN <<>>
                         ELSE IF times[j] <= Minute THEN Append(next[j - 1], times[j]) ELSE next[j - 1]
    <3>1. CASE j = i
      <4>1. next[i] = more /\ next[i - 1] = kept[i - 1] /\ i # 0
        OBVIOUS
      <4>2. QED
        BY <3>1, <4>1
    <3>2. CASE j # i
      <4>1. j \in 0 .. i - 1 /\ next[j] = kept[j] /\ (j # 0 => next[j - 1] = kept[j - 1])
        BY <3>2
      <4>2. QED
        BY <4>1, <2>1 DEF Filters
    <3>3. QED
      BY <3>1, <3>2
  <2>3. Filters(next, times, i)
    BY <2>2 DEF Filters
  <2>4. QED
    BY <2>3
<1>3. n \in S
  <2>1. n \in 0 .. n
    OBVIOUS
  <2> HIDE DEF S
  <2>2. QED
    BY <1>1, <1>2, <2>1, Induction
<1>4. QED
  BY <1>3

\* Recent is the last value of the filter.
Filtered(kept, times) ==
    /\ Recent(times) = kept[Len(times)]
    /\ kept[0] = <<>>
    /\ \A i \in 1 .. Len(times) :
          kept[i] = IF times[i] <= Minute THEN Append(kept[i - 1], times[i]) ELSE kept[i - 1]

LEMMA RecentFilters ==
    ASSUME NEW times, Len(times) \in Nat
    PROVE  \E kept : Filtered(kept, times)
<1> DEFINE kept == CHOOSE kept : Filters(kept, times, Len(times))
<1>1. Filters(kept, times, Len(times))
  BY FilterExists
<1>2. Recent(times) = kept[Len(times)]
  BY DEF Recent, Filters
<1> HIDE DEF kept
<1>3. kept[0] = <<>>
  BY <1>1 DEF Filters
<1>4. \A i \in 1 .. Len(times) :
         kept[i] = IF times[i] <= Minute THEN Append(kept[i - 1], times[i]) ELSE kept[i - 1]
  <2> TAKE i \in 1 .. Len(times)
  <2>1. i \in 0 .. Len(times) /\ i # 0
    OBVIOUS
  <2>2. QED
    BY <1>1, <2>1, Zenon DEF Filters
<1>5. QED
  BY <1>2, <1>3, <1>4 DEF Filtered

\* The filter keeps some of the timestamps.
LEMMA RecentType ==
    ASSUME NEW S, NEW times \in Seq(S)
    PROVE  /\ Recent(times) \in Seq(S)
           /\ Len(Recent(times)) <= Len(times)
<1> DEFINE n == Len(times)
<1>1. n \in Nat /\ \A i \in 1 .. n : times[i] \in S
  OBVIOUS
<1>2. PICK kept : /\ Recent(times) = kept[n] /\ kept[0] = <<>>
                  /\ \A i \in 1 .. n :
                        kept[i] = IF times[i] <= Minute THEN Append(kept[i - 1], times[i])
                                  ELSE kept[i - 1]
  BY <1>1, RecentFilters DEF Filtered
<1> DEFINE Good == {i \in 0 .. n : kept[i] \in Seq(S) /\ Len(kept[i]) <= i}
<1>3. 0 \in Good
  <2>1. <<>> \in Seq(S) /\ Len(<<>>) = 0 /\ 0 \in 0 .. n
    BY <1>1
  <2>2. kept[0] \in Seq(S) /\ Len(kept[0]) <= 0
    BY <1>2, <2>1
  <2>3. QED
    BY <2>1, <2>2
<1>4. ASSUME NEW i \in 1 .. n, i - 1 \in Good PROVE i \in Good
  <2>1. kept[i - 1] \in Seq(S) /\ Len(kept[i - 1]) \in Nat /\ Len(kept[i - 1]) <= i - 1
    BY <1>4
  <2>2. CASE times[i] <= Minute
    <3>1. kept[i] = Append(kept[i - 1], times[i]) /\ times[i] \in S
      BY <1>1, <1>2, <2>2
    <3>2. Append(kept[i - 1], times[i]) \in Seq(S) /\ Len(Append(kept[i - 1], times[i])) = Len(kept[i - 1]) + 1
      BY <2>1, <3>1
    <3>3. kept[i] \in Seq(S) /\ Len(kept[i]) = Len(kept[i - 1]) + 1
      BY <3>1, <3>2
    <3>4. Len(kept[i]) <= i /\ i \in 0 .. n
      BY <2>1, <3>3
    <3>5. QED
      BY <3>3, <3>4
  <2>3. CASE ~(times[i] <= Minute)
    <3>1. kept[i] = kept[i - 1]
      BY <1>2, <2>3
    <3>2. Len(kept[i - 1]) <= i /\ i \in 0 .. n
      BY <2>1
    <3>3. QED
      BY <2>1, <3>1, <3>2
  <2>4. QED
    BY <2>2, <2>3
<1>5. n \in Good
  <2>1. n \in 0 .. n
    BY <1>1
  <2> HIDE DEF Good
  <2>2. QED
    BY <1>1, <1>3, <1>4, <2>1, Induction
<1>6. QED
  BY <1>2, <1>5

\* The older the timestamps, the fewer the filter keeps.
LEMMA RecentShrinks ==
    ASSUME NEW s \in Seq(Int), NEW t \in Seq(Int), Len(s) = Len(t),
           \A i \in 1 .. Len(s) : t[i] <= Minute => s[i] <= Minute
    PROVE  Len(Recent(t)) <= Len(Recent(s))
<1> DEFINE n == Len(s)
<1>0. Len(s) \in Nat /\ Len(t) \in Nat
  OBVIOUS
<1>1. n \in Nat /\ n = Len(t)
  OBVIOUS
<1>f. PICK f : Filtered(f, s)
  BY <1>0, RecentFilters, Zenon
<1>2. /\ Recent(s) = f[n] /\ f[0] = <<>>
      /\ \A i \in 1 .. n :
            f[i] = IF s[i] <= Minute THEN Append(f[i - 1], s[i]) ELSE f[i - 1]
  BY <1>1, <1>f DEF Filtered
<1>g. PICK g : Filtered(g, t)
  BY <1>0, RecentFilters, Zenon
<1>3. /\ Recent(t) = g[n] /\ g[0] = <<>>
      /\ \A i \in 1 .. n :
            g[i] = IF t[i] <= Minute THEN Append(g[i - 1], t[i]) ELSE g[i - 1]
  BY <1>1, <1>g DEF Filtered
<1> DEFINE Good == {i \in 0 .. n : f[i] \in Seq(Int) /\ g[i] \in Seq(Int) /\ Len(g[i]) <= Len(f[i])}
<1>4. 0 \in Good
  <2>1. <<>> \in Seq(Int) /\ Len(<<>>) = 0 /\ 0 \in 0 .. n
    BY <1>1
  <2>2. f[0] \in Seq(Int) /\ g[0] \in Seq(Int) /\ Len(g[0]) <= Len(f[0])
    BY <1>2, <1>3, <2>1
  <2>3. QED
    BY <2>1, <2>2
<1>5. ASSUME NEW i \in 1 .. n, i - 1 \in Good PROVE i \in Good
  <2>1. /\ f[i - 1] \in Seq(Int) /\ Len(f[i - 1]) \in Nat
        /\ g[i - 1] \in Seq(Int) /\ Len(g[i - 1]) \in Nat
        /\ Len(g[i - 1]) <= Len(f[i - 1])
    BY <1>5
  <2>2. s[i] \in Int /\ t[i] \in Int
    OBVIOUS
  <2>3. \/ f[i] = Append(f[i - 1], s[i]) /\ g[i] = Append(g[i - 1], t[i])
        \/ f[i] = Append(f[i - 1], s[i]) /\ g[i] = g[i - 1]
        \/ f[i] = f[i - 1] /\ g[i] = g[i - 1]
    BY <1>2, <1>3
  <2>4. /\ Append(f[i - 1], s[i]) \in Seq(Int) /\ Len(Append(f[i - 1], s[i])) = Len(f[i - 1]) + 1
        /\ Append(g[i - 1], t[i]) \in Seq(Int) /\ Len(Append(g[i - 1], t[i])) = Len(g[i - 1]) + 1
    BY <2>1, <2>2
  <2>5. /\ f[i] \in Seq(Int) /\ g[i] \in Seq(Int)
        /\ \/ Len(f[i]) = Len(f[i - 1]) + 1 /\ Len(g[i]) = Len(g[i - 1]) + 1
           \/ Len(f[i]) = Len(f[i - 1]) + 1 /\ Len(g[i]) = Len(g[i - 1])
           \/ Len(f[i]) = Len(f[i - 1]) /\ Len(g[i]) = Len(g[i - 1])
    BY ONLY <2>1, <2>3, <2>4
  <2>6. Len(g[i]) <= Len(f[i]) /\ i \in 0 .. n
    BY <2>1, <2>5, SMTT(30)
  <2>7. QED
    BY <2>5, <2>6
<1>6. n \in Good
  <2>1. n \in 0 .. n
    BY <1>1
  <2> HIDE DEF Good
  <2>2. QED
    BY <1>1, <1>4, <1>5, <2>1, Induction
<1>7. QED
  BY <1>2, <1>3, <1>6
-----------------------------------------------------------------------------
(* The inductive invariant.                                                *)

LEMMA EmptyRecent == Recent(<<>>) = <<>>
<1>1. Len(<<>>) = 0
  OBVIOUS
<1>2. PICK kept : Recent(<<>>) = kept[0] /\ kept[0] = <<>>
  BY <1>1, RecentFilters DEF Filtered
<1>3. QED
  BY <1>2

LEMMA LimiterInitial == LimiterInit => LimiterIInv
<1> SUFFICES ASSUME LimiterInit PROVE LimiterIInv
  OBVIOUS
<1> USE LimitAssumption DEF LimiterInit
<1>1. LimiterTypeOK
  BY DEF LimiterTypeOK, TooMany
<1>2. OldestFirst /\ KeyLifetime
  BY DEF OldestFirst, Descends, KeyLifetime, At
<1>3. Split
  BY DEF Split, SplitAt
<1>4. LocalLimit
  BY EmptyRecent DEF LocalLimit
<1>5. QED
  BY <1>1, <1>2, <1>3, <1>4 DEF LimiterIInv

LEMMA CountedOnce ==
    ASSUME NEW n \in 0 .. TooMany
    PROVE  Counted(n) \in 1 .. TooMany /\ n <= Counted(n)
                       /\ (n < Limit => Counted(n) = n + 1)
                       /\ (Counted(n) <= Limit => Counted(n) = n + 1)
                       /\ (Counted(n) = 1 => n = 0)
BY LimitAssumption DEF Counted, TooMany

LEMMA OlderType ==
    ASSUME NEW times \in Seq(0 .. Minute + 1)
    PROVE  /\ Older(times) \in Seq(0 .. Minute + 1) /\ Len(Older(times)) = Len(times)
           /\ \A i \in 1 .. Len(times) : Older(times)[i] <= Minute => times[i] <= Minute
<1>1. Minute \in Nat
  BY LimitAssumption
<1>2. Older(times) = [i \in 1 .. Len(times) |-> IF times[i] > Minute THEN times[i] ELSE times[i] + 1]
  BY DEF Older
<1>3. QED
  BY ONLY <1>1, <1>2, times \in Seq(0 .. Minute + 1)

\* What the filter may make of a process's bucket.
LEMMA BucketStep ==
    ASSUME LimiterIInv, [LimiterNext]_limiterVars, NEW p \in Processes
    PROVE  bucket'[p] \in Seq(0 .. Minute + 1) /\ Len(Recent(bucket'[p])) <= Limit
<1> DEFINE S == 0 .. Minute + 1
           B == bucket[p]
<1>0. S \in SUBSET Int /\ Minute \in Nat /\ Limit \in Nat \ {0}
  BY LimitAssumption
<1>1. B \in Seq(S) /\ Len(Recent(B)) <= Limit
  BY DEF LimiterIInv, LimiterTypeOK, LocalLimit
<1>2. /\ Recent(B) \in Seq(S) /\ Len(Recent(B)) \in Nat
  BY <1>1, RecentType
<1> HIDE DEF B
<1>3. CASE bucket'[p] = B
  BY <1>1, <1>3
<1>4. CASE bucket'[p] = <<>>
  BY <1>0, <1>4, EmptyRecent
<1>5. CASE bucket'[p] = Recent(B)
  <2>1. /\ Len(Recent(Recent(B))) <= Len(Recent(B))
        /\ Recent(Recent(B)) \in Seq(S)
    BY <1>0, <1>2, RecentType
  <2>2. Len(Recent(Recent(B))) \in Nat
    BY <2>1
  <2>3. QED
    BY <1>0, <1>1, <1>2, <1>5, <2>1, <2>2
<1>6. CASE bucket'[p] = Append(Recent(B), 0) /\ Len(Recent(B)) < Limit
  <2> DEFINE A == Append(Recent(B), 0)
  <2>1. A \in Seq(S) /\ Len(A) = Len(Recent(B)) + 1
    BY <1>0, <1>2
  <2> HIDE DEF A
  <2>2. Len(Recent(A)) <= Len(A) /\ Recent(A) \in Seq(S)
    BY <1>0, <2>1, RecentType
  <2>3. Len(Recent(A)) \in Nat
    BY <2>2
  <2>4. QED
    BY <1>0, <1>2, <1>6, <2>1, <2>2, <2>3 DEF A
<1>7. CASE bucket'[p] = Older(B)
  <2>1. /\ Older(B) \in Seq(S) /\ Len(Older(B)) = Len(B)
        /\ \A i \in 1 .. Len(B) : Older(B)[i] <= Minute => B[i] <= Minute
    BY <1>1, OlderType
  <2>2. B \in Seq(Int) /\ Older(B) \in Seq(Int)
    BY <1>0, <1>1, <2>1, SeqMonotonic
  <2>3. Len(Recent(Older(B))) <= Len(Recent(B))
    BY <2>1, <2>2, RecentShrinks
  <2>4. Recent(Older(B)) \in Seq(S)
    BY <1>0, <2>1, RecentType
  <2>5. Len(Recent(Older(B))) \in Nat
    BY <2>4
  <2>6. QED
    BY <1>0, <1>1, <1>2, <1>7, <2>1, <2>3, <2>5
<1>8. \/ bucket'[p] = B \/ bucket'[p] = <<>> \/ bucket'[p] = Older(B) \/ bucket'[p] = Recent(B)
      \/ bucket'[p] = Append(Recent(B), 0) /\ Len(Recent(B)) < Limit
  <2>1. DOMAIN bucket = Processes
    BY DEF LimiterIInv, LimiterTypeOK
  <2>2. ASSUME NEW r \in Callers, CheckLocal(r)
        PROVE  \/ bucket'[p] = B \/ bucket'[p] = Recent(B)
               \/ bucket'[p] = Append(Recent(B), 0) /\ Len(Recent(B)) < Limit
    BY <2>1, <2>2 DEF CheckLocal, B
  <2>3. ASSUME NEW q \in Processes, Restart(q) PROVE bucket'[p] = B \/ bucket'[p] = <<>>
    BY <2>1, <2>3 DEF Restart, B
  <2>4. CASE Tick
    BY <2>4 DEF Tick, B
  <2>5. CASE UNCHANGED bucket
    BY <2>5 DEF B
  <2>6. QED
    BY <2>2, <2>3, <2>4, <2>5 DEF LimiterNext, CheckStep, AcquireLimiter, Incr,
           Expire, Decide, FailCheck, limiterVars
<1>9. QED
  BY <1>3, <1>4, <1>5, <1>6, <1>7, <1>8
LEMMA LimiterTypeFacts ==
    ASSUME LimiterIInv
    PROVE  /\ count \in 0 .. TooMany /\ ttl \in {-1} \cup 1 .. Minute
           /\ Limit \in Nat \ {0} /\ Minute \in Nat \ {0} /\ TooMany \in Nat
           /\ ages \in Seq(0 .. Minute - 1) /\ Len(ages) \in Nat
           /\ \A i \in 1 .. Len(ages) : ages[i] \in 0 .. Minute - 1
           /\ step \in [Callers -> Steps] /\ current \in [Callers -> 0 .. TooMany]
<1>1. ages \in Seq(0 .. Minute - 1)
  BY DEF LimiterIInv, LimiterTypeOK
<1>2. QED
  BY <1>1, LimitAssumption DEF LimiterIInv, LimiterTypeOK, Steps,
         TooMany

\* Ages below a minute are numbers.
LEMMA AgesAreNumbers ==
    ASSUME NEW m, NEW times \in Seq(0 .. m)
    PROVE  times \in Seq(Nat) /\ times \in Seq(Int)
<1>1. 0 .. m \subseteq Nat /\ 0 .. m \subseteq Int
  OBVIOUS
<1>2. times \in Seq(Nat)
  BY <1>1, SeqMonotonic, Zenon
<1>3. times \in Seq(Int)
  BY <1>1, SeqMonotonic, Zenon
<1>4. QED
  BY <1>2, <1>3

\* What a tick does to the admitted requests: the first n are gone, the others
\* a tick older.
LEMMA AgesTick ==
    ASSUME LimiterIInv, Tick
    PROVE  \E n \in 0 .. Len(ages) :
              /\ ages' \in Seq(0 .. Minute - 1) /\ Len(ages') = Len(ages) - n
              /\ \A i \in 1 .. Len(ages) : ages[i] + 1 >= Minute <=> i <= n
              /\ \A i \in 1 .. Len(ages) - n : ages'[i] = ages[n + i] + 1
<1> DEFINE older == Older(ages)
<1>1. /\ Len(ages) \in Nat /\ Minute \in Nat \ {0}
      /\ \A i \in 1 .. Len(ages) : ages[i] \in 0 .. Minute - 1
      /\ DOMAIN ages = 1 .. Len(ages)
  BY LimiterTypeFacts
<1>2. older = [i \in 1 .. Len(ages) |-> ages[i] + 1]
  <2>1. older = [i \in 1 .. Len(ages) |-> IF ages[i] > Minute THEN ages[i] ELSE ages[i] + 1]
    BY <1>1 DEF Older
  <2>2. QED
    BY <1>1, <2>1
<1> HIDE DEF older
<1>3. PICK n \in 0 .. Len(ages) :
         /\ \A i \in DOMAIN ages : older[i] >= Minute <=> i <= n
         /\ ages' = SubSeq(older, n + 1, Len(ages))
  BY DEF Tick, older
<1>4. \A i \in 1 .. Len(ages) : ages[i] + 1 >= Minute <=> i <= n
  BY <1>1, <1>2, <1>3
<1>5. \A i \in n + 1 .. Len(ages) : older[i] \in 0 .. Minute - 1
  <2> TAKE i \in n + 1 .. Len(ages)
  <2>1. i \in 1 .. Len(ages) /\ ~(i <= n) /\ older[i] = ages[i] + 1
    BY <1>1, <1>2
  <2>2. QED
    BY <1>1, <1>4, <2>1
<1>6. n + 1 \in Int /\ Len(ages) \in Int
  BY <1>1
<1>7. /\ ages' \in Seq(0 .. Minute - 1)
      /\ Len(ages') = IF n + 1 <= Len(ages) THEN Len(ages) - (n + 1) + 1 ELSE 0
      /\ \A i \in 1 .. Len(ages) - (n + 1) + 1 : ages'[i] = older[n + 1 + i - 1]
  BY <1>3, <1>5, <1>6, SubSeqProperties
<1>8. Len(ages') = Len(ages) - n
  BY <1>1, <1>7, SMTT(30)
<1>9. ASSUME NEW i \in 1 .. Len(ages) - n PROVE ages'[i] = ages[n + i] + 1
  <2>1. i \in 1 .. Len(ages) - (n + 1) + 1 /\ n + 1 + i - 1 = n + i /\ n + i \in 1 .. Len(ages)
    BY <1>1
  <2>2. QED
    BY <1>2, <1>7, <2>1
<1>10. QED
  BY <1>4, <1>7, <1>8, <1>9

\* What any other step does to what Redis and the history hold.
LEMMA KeyStep ==
    ASSUME LimiterIInv, [LimiterNext]_limiterVars, ~Tick
    PROVE  \/ UNCHANGED <<ages, count, ttl>>
           \/ UNCHANGED <<ages, ttl>> /\ count' = Counted(count)
           \/ UNCHANGED <<ages, count>> /\ ttl' = Minute
           \/ UNCHANGED ttl /\ count' = Counted(count) /\ count' <= Limit /\ ages' = Append(ages, 0)
<1>1. ASSUME NEW r \in Callers, Incr(r)
      PROVE  \/ UNCHANGED <<ages, ttl>> /\ count' = Counted(count)
             \/ UNCHANGED ttl /\ count' = Counted(count) /\ count' <= Limit /\ ages' = Append(ages, 0)
  BY <1>1 DEF Incr, Admits
<1>2. ASSUME NEW r \in Callers, Expire(r) PROVE UNCHANGED <<ages, count>> /\ ttl' = Minute
  BY <1>2 DEF Expire
<1>3. ASSUME NEW r \in Callers, FailCheck(r)
      PROVE  \/ UNCHANGED <<ages, count, ttl>>
             \/ UNCHANGED <<ages, ttl>> /\ count' = Counted(count)
  BY <1>3 DEF FailCheck, Lost
<1>4. QED
  BY <1>1, <1>2, <1>3 DEF LimiterNext, CheckStep, CheckLocal, AcquireLimiter,
         Decide, Restart, limiterVars

LEMMA LimiterNextTypeOK ==
    ASSUME LimiterIInv, [LimiterNext]_limiterVars
    PROVE  LimiterTypeOK'
<1> USE LimiterTypeFacts
<1>1. /\ count' \in 0 .. TooMany /\ ttl' \in {-1} \cup 1 .. Minute
  <2>1. CASE Tick
    BY <2>1 DEF Tick
  <2>2. CASE ~Tick
    <3>1. Counted(count) \in 0 .. TooMany /\ Minute \in 1 .. Minute
      BY CountedOnce, SMTT(30)
    <3>2. QED
      BY <2>2, <3>1, KeyStep
  <2>3. QED
    BY <2>1, <2>2
<1>2. ages' \in Seq(0 .. Minute - 1)
  <2>1. CASE Tick
    BY <2>1, AgesTick
  <2>2. CASE ~Tick
    <3>1. 0 \in 0 .. Minute - 1
      OBVIOUS
    <3>2. Append(ages, 0) \in Seq(0 .. Minute - 1)
      BY <3>1
    <3>3. QED
      BY <2>2, <3>2, KeyStep
  <2>3. QED
    BY <2>1, <2>2
<1>3. bucket' \in [Processes -> Seq(0 .. Minute + 1)]
  <2>1. bucket \in [Processes -> Seq(0 .. Minute + 1)]
    BY DEF LimiterIInv, LimiterTypeOK
  <2>2. \E f : bucket' = [p \in Processes |-> f[p]]
    BY <2>1 DEF LimiterNext, Tick, CheckStep, CheckLocal, AcquireLimiter,
           Incr, Expire, Decide, FailCheck, Restart, limiterVars
  <2>3. QED
    BY <2>2, BucketStep
<1>4. mode' \in [Processes -> {"redis", "local"}]
  BY DEF LimiterIInv, LimiterTypeOK, LimiterNext, Tick, CheckStep, CheckLocal,
         AcquireLimiter, Incr, Expire, Decide, FailCheck,
         Restart, limiterVars
<1>5. limiterLock' \in [Processes -> Callers \cup {NoOne}]
  <2>0. Home \in [Callers -> Processes] /\ limiterLock \in [Processes -> Callers \cup {NoOne}]
    BY HomeAssumption DEF LimiterIInv, LimiterTypeOK
  <2>1. \/ UNCHANGED limiterLock
        \/ \E r \in Callers : limiterLock' = [limiterLock EXCEPT ![Home[r]] = r]
        \/ \E r \in Callers : limiterLock' = [limiterLock EXCEPT ![Home[r]] = NoOne]
    BY DEF LimiterNext, Tick, CheckStep, CheckLocal, AcquireLimiter,
           Incr, Expire, Decide, FailCheck, Restart, limiterVars
  <2>2. QED
    BY <2>0, <2>1
<1>6. step' \in [Callers -> Steps]
  BY DEF Steps, LimiterNext, Tick, CheckStep, CheckLocal, AcquireLimiter,
         Incr, Expire, Decide, FailCheck, Restart, limiterVars
<1>7. current' \in [Callers -> 0 .. TooMany]
  <2>1. Counted(count) \in 0 .. TooMany /\ 0 \in 0 .. TooMany
    BY CountedOnce
  <2>2. QED
    BY <2>1 DEF LimiterNext, Tick, CheckStep, CheckLocal, AcquireLimiter,
           Incr, Expire, Decide, FailCheck, Restart, limiterVars
<1>8. QED
  BY <1>1, <1>2, <1>3, <1>4, <1>5, <1>6, <1>7 DEF LimiterTypeOK, Steps
\* The two ways the history changes keep it ordered.
LEMMA AppendDescends ==
    ASSUME NEW times \in Seq(Nat), Descends(times)
    PROVE  Descends(Append(times, 0))
<1> DEFINE more == Append(times, 0)
<1>1. /\ Len(times) \in Nat /\ Len(more) = Len(times) + 1
      /\ \A i \in 1 .. Len(times) : times[i] \in Nat /\ more[i] = times[i]
      /\ more[Len(times) + 1] = 0
  OBVIOUS
<1> HIDE DEF more
<1>2. SUFFICES ASSUME NEW i \in 1 .. Len(times) + 1, NEW j \in 1 .. Len(times) + 1, i <= j
               PROVE  more[i] >= more[j]
  BY <1>1 DEF Descends, more
<1>3. CASE j <= Len(times)
  <2>1. i \in 1 .. Len(times) /\ j \in 1 .. Len(times)
    BY <1>1, <1>2, <1>3
  <2>2. QED
    BY <1>1, <1>2, <2>1 DEF Descends
<1>4. CASE ~(j <= Len(times))
  <2>1. j = Len(times) + 1 /\ (i = Len(times) + 1 \/ i \in 1 .. Len(times))
    BY <1>1, <1>4
  <2>2. more[j] = 0 /\ more[i] \in Nat
    BY <1>1, <2>1
  <2>3. QED
    BY <2>2
<1>5. QED
  BY <1>3, <1>4

LEMMA TickDescends ==
    ASSUME NEW times \in Seq(Int), NEW n \in 0 .. Len(times), NEW later \in Seq(Int),
           Len(later) = Len(times) - n,
           \A i \in 1 .. Len(times) - n : later[i] = times[n + i] + 1,
           Descends(times)
    PROVE  Descends(later)
<1>1. SUFFICES ASSUME NEW i \in 1 .. Len(times) - n, NEW j \in 1 .. Len(times) - n, i <= j
               PROVE  later[i] >= later[j]
  BY DEF Descends
<1>2. n + i \in 1 .. Len(times) /\ n + j \in 1 .. Len(times) /\ n + i <= n + j
  BY <1>1
<1>3. times[n + i] >= times[n + j] /\ times[n + i] \in Int /\ times[n + j] \in Int
  BY <1>2 DEF Descends
<1>4. later[i] = times[n + i] + 1 /\ later[j] = times[n + j] + 1
  OBVIOUS
<1>5. QED
  BY ONLY <1>3, <1>4

LEMMA NextOldestFirst ==
    ASSUME LimiterIInv, [LimiterNext]_limiterVars
    PROVE  OldestFirst'
<1>1. ages \in Seq(Nat) /\ ages \in Seq(Int) /\ Descends(ages)
  <2>1. 0 .. Minute - 1 \subseteq Nat /\ 0 .. Minute - 1 \subseteq Int
    OBVIOUS
  <2>2. QED
    BY <2>1, LimiterTypeFacts, SeqMonotonic DEF LimiterIInv, OldestFirst
<1>2. CASE Tick
  <2>1. PICK n \in 0 .. Len(ages) :
           /\ ages' \in Seq(0 .. Minute - 1) /\ Len(ages') = Len(ages) - n
           /\ \A i \in 1 .. Len(ages) - n : ages'[i] = ages[n + i] + 1
    BY <1>2, AgesTick
  <2>3. PICK later \in Seq(Int) : later = ages'
    BY <2>1, AgesAreNumbers
  <2>4. Descends(later)
    BY <1>1, <2>1, <2>3, TickDescends
  <2>5. QED
    BY <2>3, <2>4 DEF OldestFirst
<1>3. CASE UNCHANGED ages
  BY <1>1, <1>3 DEF OldestFirst
<1>4. CASE ages' = Append(ages, 0)
  <2>1. Descends(Append(ages, 0))
    BY <1>1, AppendDescends
  <2>2. QED
    BY <1>4, <2>1 DEF OldestFirst
<1>5. QED
  BY <1>2, <1>3, <1>4, KeyStep

\* The key admits one more request, which it counts.
LEMMA AppendSplits ==
    ASSUME NEW times \in Seq(Nat), NEW counted \in Nat, NEW life \in Int, NEW k \in 0 .. Limit,
           SplitAt(times, counted, life, k), counted + 1 <= Limit
    PROVE  SplitAt(Append(times, 0), counted + 1, life, k)
<1> DEFINE more == Append(times, 0)
<1>1. /\ Len(times) \in Nat /\ Len(more) = Len(times) + 1 /\ Limit \in Nat
      /\ \A i \in 1 .. Len(times) : more[i] = times[i]
  BY LimitAssumption
<1> HIDE DEF more
<1>2. k <= Len(more) /\ Len(more) - k <= Limit /\ Len(more) - k <= counted + 1
  BY <1>1 DEF SplitAt
<1>3. ASSUME life > 0, NEW i \in 1 .. k PROVE more[i] >= Minute - life
  BY <1>1, <1>3, SMTT(30) DEF SplitAt
<1>4. QED
  BY <1>2, <1>3 DEF SplitAt, more

\* The first n leave the minute with a tick.  If the key expires with it, these
\* are all that were there before the key: the others are the earlier window now.
LEMMA ExpirySplits ==
    ASSUME NEW times \in Seq(Nat), NEW counted \in Nat, NEW k \in 0 .. Limit,
           SplitAt(times, counted, 1, k),
           NEW n \in 0 .. Len(times), NEW later \in Seq(Nat), Len(later) = Len(times) - n,
           \A i \in 1 .. Len(times) : times[i] + 1 >= Minute <=> i <= n
    PROVE  Len(later) \in 0 .. Limit /\ SplitAt(later, 0, -1, Len(later))
<1>0. Minute \in Nat /\ Limit \in Nat /\ Len(times) \in Nat /\ k \in Nat /\ n \in Nat
  BY LimitAssumption
<1>1. k <= n
  <2>1. CASE k = 0
    BY <1>0, <2>1
  <2>2. CASE k # 0
    <3>1. k \in 1 .. k /\ k \in 1 .. Len(times) /\ times[k] \in Nat
      BY <1>0, <2>2, SMTT(30) DEF SplitAt
    <3>2. times[k] >= Minute - 1
      BY <3>1 DEF SplitAt
    <3>3. times[k] + 1 >= Minute
      BY <1>0, <3>1, <3>2
    <3>4. QED
      BY <3>1, <3>3
  <2>3. QED
    BY <2>1, <2>2
<1>2. Len(later) \in 0 .. Limit
  BY <1>0, <1>1 DEF SplitAt
<1>3. QED
  BY <1>0, <1>2 DEF SplitAt

\* If it does not, the requests of before the key age with it.
LEMMA TickSplits ==
    ASSUME NEW times \in Seq(Nat), NEW counted \in Nat, NEW life \in Int, NEW k \in 0 .. Limit,
           SplitAt(times, counted, life, k),
           NEW n \in 0 .. Len(times), NEW later \in Seq(Nat), Len(later) = Len(times) - n,
           \A i \in 1 .. Len(times) - n : later[i] = times[n + i] + 1,
           NEW rest \in Int, rest > 0 => life = rest + 1
    PROVE  \E m \in 0 .. Limit : SplitAt(later, counted, rest, m)
<1>0. Minute \in Nat /\ Limit \in Nat /\ Len(times) \in Nat /\ k \in Nat /\ n \in Nat
  BY LimitAssumption
<1> DEFINE m == IF n <= k THEN k - n ELSE 0
<1>1. m \in 0 .. Limit
  BY <1>0
<1>2. m <= Len(later) /\ Len(later) - m <= Limit /\ Len(later) - m <= counted
  BY <1>0 DEF SplitAt
<1>3. ASSUME rest > 0, NEW i \in 1 .. m PROVE later[i] >= Minute - rest
  <2>1. PICK j \in 1 .. k : j = n + i /\ i \in 1 .. Len(times) - n /\ j \in 1 .. Len(times)
    BY <1>0 DEF SplitAt
  <2>2. life > 0
    BY <1>3
  <2>3. times[j] >= Minute - life
    BY <2>1, <2>2 DEF SplitAt
  <2>4. times[j] \in Nat /\ later[i] = times[n + i] + 1 /\ times[n + i] = times[j]
    <3>1. times[j] \in Nat
      BY <2>1, SMTT(30)
    <3>2. i \in 1 .. Len(times) - n /\ n + i = j
      BY <2>1
    <3>3. later[i] = times[n + i] + 1
      BY <3>2
    <3>4. QED
      BY ONLY <3>1, <3>2, <3>3
  <2>5. rest \in Int /\ life \in Int /\ Minute \in Nat /\ rest = life - 1
    BY <1>0, <1>3
  <2>6. QED
    BY ONLY <2>3, <2>4, <2>5
<1> HIDE DEF m
<1>4. SplitAt(later, counted, rest, m)
  BY <1>2, <1>3 DEF SplitAt
<1>5. QED
  BY <1>1, <1>4

LEMMA NextSplit ==
    ASSUME LimiterIInv, [LimiterNext]_limiterVars
    PROVE  Split'
<1>0. /\ count \in Nat /\ ttl \in Int /\ ages \in Seq(Nat) /\ Minute \in Nat \ {0}
      /\ count \in 0 .. TooMany
  <2>1. 0 .. Minute - 1 \subseteq Nat
    OBVIOUS
  <2>2. QED
    BY <2>1, LimiterTypeFacts, SeqMonotonic
<1>1. PICK k \in 0 .. Limit : SplitAt(ages, count, ttl, k)
  BY DEF LimiterIInv, Split
<1>2. CASE UNCHANGED <<ages, count, ttl>>
  BY <1>1, <1>2 DEF Split
<1>3. CASE UNCHANGED <<ages, ttl>> /\ count' = Counted(count)
  <2>1. count <= Counted(count) /\ Counted(count) \in Nat
    BY <1>0, CountedOnce
  <2>2. SplitAt(ages, Counted(count), ttl, k)
    BY <1>0, <1>1, <2>1 DEF SplitAt
  <2>3. QED
    BY <1>3, <2>2 DEF Split
<1>4. CASE UNCHANGED <<ages, count>> /\ ttl' = Minute
  <2>1. \A i \in 1 .. k : ages[i] >= Minute - Minute
    BY <1>0, <1>1 DEF SplitAt
  <2>2. SplitAt(ages, count, Minute, k)
    BY <1>1, <2>1 DEF SplitAt
  <2>3. QED
    BY <1>4, <2>2 DEF Split
<1>5. CASE UNCHANGED ttl /\ count' = Counted(count) /\ count' <= Limit /\ ages' = Append(ages, 0)
  <2>1. Counted(count) = count + 1 /\ count + 1 <= Limit
    BY <1>0, <1>5, CountedOnce
  <2>2. SplitAt(Append(ages, 0), count + 1, ttl, k)
    BY <1>0, <1>1, <2>1, AppendSplits
  <2>3. QED
    BY <1>5, <2>1, <2>2 DEF Split
<1>6. CASE Tick
  <2>1. PICK n \in 0 .. Len(ages) :
           /\ ages' \in Seq(0 .. Minute - 1) /\ Len(ages') = Len(ages) - n
           /\ \A i \in 1 .. Len(ages) : ages[i] + 1 >= Minute <=> i <= n
           /\ \A i \in 1 .. Len(ages) - n : ages'[i] = ages[n + i] + 1
    BY <1>6, AgesTick
  <2>3. PICK later \in Seq(Nat) : later = ages'
    BY <2>1, AgesAreNumbers
  <2>4. CASE ttl = 1
    <3>1. count' = 0 /\ ttl' = -1
      BY <1>6, <2>4 DEF Tick
    <3>2. Len(later) \in 0 .. Limit /\ SplitAt(later, 0, -1, Len(later))
      BY <1>0, <1>1, <2>1, <2>3, <2>4, ExpirySplits
    <3>3. QED
      BY <2>3, <3>1, <3>2 DEF Split
  <2>5. CASE ttl # 1
    <3>1. PICK rest \in Int : rest = IF ttl > 1 THEN ttl - 1 ELSE -1
      BY <1>0
    <3>2. count' = count /\ ttl' = rest
      BY <1>6, <2>5, <3>1 DEF Tick
    <3>3. rest > 0 => ttl = rest + 1
      BY <1>0, <3>1
    <3>4. \E m \in 0 .. Limit : SplitAt(later, count, rest, m)
      BY <1>0, <1>1, <2>1, <2>3, <3>3, TickSplits
    <3>5. QED
      BY <2>3, <3>2, <3>4 DEF Split
  <2>6. QED
    BY <2>4, <2>5
<1>7. QED
  BY <1>2, <1>3, <1>4, <1>5, <1>6, KeyStep

LEMMA NextKeyLifetime ==
    ASSUME LimiterIInv, [LimiterNext]_limiterVars
    PROVE  KeyLifetime'
<1> USE LimiterTypeFacts
<1>0. KeyLifetime
  BY DEF LimiterIInv
<1>1. ASSUME NEW r \in Callers, Incr(r) PROVE KeyLifetime'
  <2>1. /\ count' = Counted(count) /\ ttl' = ttl
        /\ step' = [step EXCEPT ![r] = IF count' = 1 THEN "expire" ELSE "ttl"]
    BY <1>1 DEF Incr, CreatedKey
  <2>2. count' # 0 /\ (count' = 1 => count = 0)
    BY <2>1, CountedOnce, SMTT(30)
  <2>3. CASE count' = 1
    <3>1. ttl' = -1 /\ \A q \in Callers : ~At(q, "expire")
      BY <1>0, <2>1, <2>2, <2>3 DEF KeyLifetime
    <3>2. \A q \in Callers : At(q, "expire")' => q = r
      BY <2>1, <3>1 DEF At
    <3>3. QED
      BY <2>2, <3>1, <3>2 DEF KeyLifetime
  <2>4. CASE count' # 1
    <3>1. \A q \in Callers : At(q, "expire")' => At(q, "expire")
      BY <2>1, <2>4 DEF At
    <3>2. QED
      BY <1>0, <2>1, <2>2, <3>1 DEF KeyLifetime
  <2>5. QED
    BY <2>3, <2>4
<1>2. ASSUME NEW r \in Callers, Expire(r) PROVE KeyLifetime'
  <2>1. /\ count' = count /\ At(r, "expire") /\ step' = [step EXCEPT ![r] = "ttl"]
    BY <1>2 DEF Expire
  <2>2. count # 0 /\ \A q \in Callers : At(q, "expire") => q = r
    BY <1>0, <2>1 DEF KeyLifetime
  <2>3. \A q \in Callers : ~At(q, "expire")'
    BY <2>1, <2>2 DEF At
  <2>4. QED
    BY <2>1, <2>2, <2>3 DEF KeyLifetime
<1>3. CASE Tick
  <2>1. step' = step /\ (count' = count \/ (count' = 0 /\ ttl = 1)) /\ (ttl > 1 \/ ttl' = -1)
    BY <1>3 DEF Tick
  <2>2. ttl = -1 => ttl' = -1
    BY <2>1
  <2>3. ttl = 1 => ttl' = -1
    BY <2>1
  <2>4. QED
    BY <1>0, <2>1, <2>2, <2>3 DEF KeyLifetime, At
<1>4. CASE /\ ttl' = ttl /\ (count' = count \/ count' = Counted(count))
           /\ \A q \in Callers : At(q, "expire")' => At(q, "expire")
  <2>1. count' = 0 => count = 0
    BY <1>4, CountedOnce
  <2>2. QED
    BY <1>0, <1>4, <2>1 DEF KeyLifetime
<1>5. ASSUME NEW r \in Callers, CheckLocal(r) \/ AcquireLimiter(r) \/ Decide(r)
                               \/ FailCheck(r)
      PROVE  /\ ttl' = ttl /\ (count' = count \/ count' = Counted(count))
             /\ \A q \in Callers : At(q, "expire")' => At(q, "expire")
  BY <1>5 DEF CheckLocal, AcquireLimiter, Decide, FailCheck, Lost,
         At
<1>6. CASE UNCHANGED <<ttl, count, step>>
  BY <1>4, <1>6 DEF At
<1>7. QED
  BY <1>1, <1>2, <1>3, <1>4, <1>5, <1>6 DEF LimiterNext, CheckStep, Restart,
         limiterVars

-----------------------------------------------------------------------------
(* The results.                                                            *)

\* Every reachable state of the limiter satisfies the inductive invariant.
THEOREM LimiterInvariance == LimiterSpec => []LimiterIInv
<1>1. LimiterIInv /\ [LimiterNext]_limiterVars => LimiterIInv'
  <2> SUFFICES ASSUME LimiterIInv, [LimiterNext]_limiterVars PROVE LimiterIInv'
    BY DEF LimiterIInv
  <2>1. LocalLimit'
    BY BucketStep DEF LocalLimit
  <2>2. QED
    BY <2>1, LimiterNextTypeOK, NextOldestFirst, NextSplit, NextKeyLifetime DEF LimiterIInv
<1>2. QED
  BY <1>1, LimiterInitial, PTL DEF LimiterSpec

\* In any minute Redis admits at most twice limit_per_minute of a client's
\* requests, and a process on its own at most limit_per_minute, however the
\* processes interleave between INCR, EXPIRE and TTL and whichever requests end
\* there.
THEOREM LimitPerMinute == LimiterSpec => []MinuteLimit
<1>1. LimiterIInv => MinuteLimit
  <2> SUFFICES ASSUME LimiterIInv PROVE MinuteLimit
    BY DEF LimiterIInv
  <2>1. PICK k \in 0 .. Limit : SplitAt(ages, count, ttl, k)
    BY DEF LimiterIInv, Split
  <2>2. Len(ages) <= 2 * Limit
    BY <2>1, LimiterTypeFacts DEF SplitAt
  <2>3. QED
    BY <2>2 DEF LimiterIInv, MinuteLimit, LocalLimit
<1>2. QED
  BY <1>1, LimiterInvariance, PTL

\* A tick can always happen: what has left the minute is at the front of the
\* history, so that the bound above is about a clock that never stops.
LEMMA FrontLeaves ==
    ASSUME LimiterIInv
    PROVE  \E n \in 0 .. Len(ages) : \A i \in DOMAIN ages : Older(ages)[i] >= Minute <=> i <= n
<1>0. /\ Len(ages) \in Nat /\ Minute \in Nat /\ DOMAIN ages = 1 .. Len(ages)
      /\ \A i \in 1 .. Len(ages) : ages[i] \in Nat /\ ages[i] <= Minute
  BY LimiterTypeFacts
<1>1. \A i \in 1 .. Len(ages) : Older(ages)[i] = ages[i] + 1
  BY <1>0 DEF Older
<1> DEFINE stays == {i \in 1 .. Len(ages) : ages[i] + 1 < Minute}
<1>2. CASE stays = {}
  <2>1. ASSUME NEW i \in 1 .. Len(ages) PROVE Older(ages)[i] >= Minute /\ i <= Len(ages)
    <3>1. ~(ages[i] + 1 < Minute) /\ ages[i] \in Nat
      BY <1>0, <1>2
    <3>2. QED
      BY <1>0, <1>1, <3>1
  <2>2. Len(ages) \in 0 .. Len(ages)
    BY <1>0
  <2>3. QED
    BY <1>0, <2>1, <2>2
<1>3. CASE stays # {}
  <2>1. stays \in SUBSET Nat
    OBVIOUS
  <2>2. PICK m \in stays : \A i \in stays : m <= i
    <3> HIDE DEF stays
    <3>1. QED
      BY <1>3, <2>1, Least
  <2>3. ASSUME NEW i \in 1 .. Len(ages) PROVE Older(ages)[i] >= Minute <=> i <= m - 1
    <3>1. CASE i < m
      <4>1. ~(ages[i] + 1 < Minute) /\ ages[i] \in Nat /\ i <= m - 1
        BY <1>0, <2>2, <3>1
      <4>2. QED
        BY <1>0, <1>1, <4>1
    <3>2. CASE m <= i
      <4>1. ages[m] >= ages[i] /\ ages[m] + 1 < Minute /\ ages[m] \in Nat /\ ages[i] \in Nat
        BY <1>0, <2>2, <3>2 DEF LimiterIInv, OldestFirst, Descends
      <4>2. ~(ages[i] + 1 >= Minute) /\ ~(i <= m - 1)
        BY <1>0, <3>2, <4>1
      <4>3. QED
        BY <1>1, <4>2
    <3>3. i < m \/ m <= i
      OBVIOUS
    <3>4. QED
      BY <3>1, <3>2, <3>3
  <2>4. m - 1 \in 0 .. Len(ages)
    BY <1>0
  <2>5. QED
    BY <1>0, <2>3, <2>4
<1>4. QED
  BY <1>2, <1>3
=============================================================================
