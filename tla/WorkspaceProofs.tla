--------------------------- MODULE WorkspaceProofs ---------------------------
(***************************************************************************)
(* Proofs about Rollout and Workspace: a network-wide transaction confirms *)
(* its targets together, a Rollout that becomes Ready is complete, and the *)
(* deletion goes from the inside out.                                      *)
(***************************************************************************)
EXTENDS Workspace, TLAPS

Conditions == {"none", "rolling", "failed", "ready"}

\* The part of the type invariant that is about a pass of Reconcile.
PassTypeOK ==
    /\ pc \in {"idle", "launch", "run", "rollback", "confirm", "api", "finalizer"}
    /\ goal \in [ref : Refs \union {None}, deleting : BOOLEAN]
    /\ update \subseteq Targets /\ delete \subseteq Targets \ update
    /\ todo \subseteq update \union delete
    /\ worker \in [Targets -> Worker] /\ status \in [Targets -> Status]
    /\ failed \in BOOLEAN /\ expired \in BOOLEAN

\* From the confirmation to the end of a pass.
Confirming == {"confirm", "api", "finalizer"}

\* What a pass read decides what it updates and deletes: while it runs no Config
\* appears outside of the two.  When the finalizer goes no Config is left that was
\* not asked to go.
GoalInv ==
    /\ pc \notin {"idle", "finalizer"} =>
        /\ update = IF goal.deleting THEN {} ELSE Git[goal.ref]
        /\ Existing \subseteq update \union delete
    /\ pc = "finalizer" => \A t \in Targets : configs[t] # "there"

\* The goroutine of t has still to report.
Active(t) == worker[t] \in {"spawned", "rpc", "ok", "err"}

\* Until the wait ends: each target the launch loop has passed has a goroutine or
\* is left out, and a goroutine that failed left a trace on errChan or found the
\* context done.
LaunchedInv(t) ==
    \/ worker[t] = "none" /\ status[t] = "unavailable" /\ ~skip
    \/ Active(t) /\ status[t] = "none"
    \/ worker[t] = "done" /\ status[t] = "applied"
    \/ worker[t] = "done" /\ status[t] = "failed" /\ (failed \/ expired)

LaunchInv ==
    /\ pc = "launch" => \A t \in todo : status[t] = "none" /\ worker[t] = "none"
    /\ pc \in {"launch", "run"} =>
        \A t \in Involved : (pc = "launch" /\ t \in todo) \/ LaunchedInv(t)

\* The statuses with which a transaction may be confirmed.
Good == {"applied", "confirmed", "confirmFailed"}
            \union (IF skip THEN {} ELSE {"unavailable"})

\* From the confirmation on no goroutine is at work; a target that failed is there
\* only under a context that is done, and then nothing was confirmed; and what
\* the loop has passed is confirmed or an error is recorded.
ConfirmInv ==
    /\ pc \in Confirming =>
        /\ \A t \in Targets : ~Active(t)
        /\ \A t \in Involved : status[t] \in Good \union {"failed"}
        /\ \A t \in Involved : status[t] = "failed" =>
                expired /\ \A u \in Targets : status[u] # "confirmed"
        /\ \A t \in Involved : status[t] = "confirmFailed" => failed
        /\ \A t \in Involved \ todo : status[t] # "applied"
    /\ pc \in {"api", "finalizer"} => todo = {} /\ ~failed

\* Nothing is confirmed before, and no goroutine belongs to no transaction.
EarlyInv ==
    /\ pc \notin Confirming => \A t \in Targets : status[t] # "confirmed"
    /\ pc = "idle" => \A t \in Targets : worker[t] = "none" /\ status[t] = "none"

TxInv == GoalInv /\ LaunchInv /\ ConfirmInv /\ EarlyInv

\* A Workspace with a Rollout has its finalizer.
OwnerInv == ref # None => wsFinalizer

-----------------------------------------------------------------------------
(* Types. *)

\* A failing call stays in the bound.
LEMMA FailsType ==
    ASSUME fails \in 0..MaxFails, fails < MaxFails, fails' = fails + 1
    PROVE  fails' \in 0..MaxFails
  BY RolloutAssumption

LEMMA CountedType ==
    ASSUME fails \in 0..MaxFails, NEW b \in BOOLEAN, Counted(b)
    PROVE  fails' \in 0..MaxFails
  BY FailsType DEF Counted

\* An edit stays in the bound.
LEMMA EditsType ==
    ASSUME edits \in 0..MaxEdits, edits < MaxEdits, edits' = edits + 1
    PROVE  edits' \in 0..MaxEdits
  BY WorkspaceAssumption

\* A git reference has Configs for targets that exist.
LEMMA GitType == \A r \in Refs : Git[r] \subseteq Targets
  BY RolloutAssumption

\* A Reconcile that ends leaves no transaction behind.
LEMMA ResetInv ==
    ASSUME stray \subseteq Targets, Reset
    PROVE  PassTypeOK' /\ TxInv' /\ pc' = "idle" /\ stray' \subseteq Targets
<1>1. PassTypeOK'
  BY DEF Reset, PassTypeOK, NoGoal, Worker, Status
<1>2. TxInv'
  BY DEF Reset, TxInv, GoalInv, Existing, LaunchInv, ConfirmInv, EarlyInv, Confirming
<1> QED
  BY <1>1, <1>2 DEF Reset

\* So does one that writes its condition, or fails to.
LEMMA ReturnInv ==
    ASSUME NEW c \in Conditions, NEW q \in BOOLEAN, NEW b \in BOOLEAN, Return(c, q, b),
           wake \in BOOLEAN, cond \in Conditions, stray \subseteq Targets
    PROVE  /\ PassTypeOK' /\ TxInv' /\ pc' = "idle" /\ stray' \subseteq Targets
           /\ cond' \in Conditions /\ wake' \in BOOLEAN
BY ResetInv DEF Return

\* The condition of a Rollout whose transaction failed.
LEMMA ReturnFailedInv ==
    ASSUME wake \in BOOLEAN, cond \in Conditions, stray \subseteq Targets, fails \in 0..MaxFails,
           ReturnFailed
    PROVE  /\ PassTypeOK' /\ TxInv' /\ pc' = "idle" /\ wake' \in BOOLEAN
           /\ cond' \in {"rolling", "failed", cond} /\ stray' \subseteq Targets
           /\ fails' \in 0..MaxFails
<1> DEFINE c == IF goal.deleting THEN "rolling" ELSE "failed"
<1>1. PICK b \in BOOLEAN : Counted(b) /\ Return(c, FALSE, b)
  BY DEF ReturnFailed
<1>2. c \in {"rolling", "failed"}
  OBVIOUS
<1> HIDE DEF c
<1>3. PassTypeOK' /\ TxInv' /\ pc' = "idle" /\ wake' \in BOOLEAN /\ stray' \subseteq Targets
  BY <1>1, <1>2, ReturnInv DEF Conditions
<1>4. fails' \in 0..MaxFails
  BY <1>1, CountedType
<1> QED
  BY <1>1, <1>2, <1>3, <1>4 DEF Return

\* Every action keeps the types.
LEMMA TypeStep == WorkspaceTypeOK /\ [Next]_wvars => WorkspaceTypeOK'
<1> SUFFICES ASSUME WorkspaceTypeOK, [Next]_wvars PROVE WorkspaceTypeOK'
  OBVIOUS
<1> DEFINE Rest == /\ ref \in Refs \union {None}
                   /\ skip \in BOOLEAN /\ deleting \in BOOLEAN /\ finalizer \in BOOLEAN
                   /\ cond \in Conditions
                   /\ wake \in BOOLEAN /\ ownerWake \in BOOLEAN
                   /\ configs \in [Targets -> ConfigState]
                   /\ open \subseteq Targets /\ stray \subseteq Targets
                   /\ fails \in 0..MaxFails
           Ws == /\ wsRef \in Refs \union {None}
                 /\ wsDeleting \in BOOLEAN /\ wsFinalizer \in BOOLEAN
                 /\ wsCond \in Conditions /\ edits \in 0..MaxEdits
<1>0. PassTypeOK /\ Rest /\ Ws
  BY DEF WorkspaceTypeOK, RolloutTypeOK, PassTypeOK, Conditions
<1>a. PassTypeOK' /\ Rest' /\ Ws' => WorkspaceTypeOK'
  BY DEF WorkspaceTypeOK, RolloutTypeOK, PassTypeOK, Conditions
<1>b. ASSUME UNCHANGED <<pc, txVars>> PROVE PassTypeOK'
  BY <1>0, <1>b DEF PassTypeOK, txVars
<1>c. ASSUME UNCHANGED <<wsVars, edits>> PROVE Ws'
  BY <1>0, <1>c DEF wsVars
<1>d. ASSUME UNCHANGED <<rolloutVars, wake, ownerWake, configs, dsVars, fails>> PROVE Rest'
  BY <1>0, <1>d DEF rolloutVars, dsVars
<1>1. CASE DeleteWorkspace
  <2>1. edits' \in 0..MaxEdits
    BY <1>0, <1>1, EditsType DEF DeleteWorkspace
  <2>2. Rest' /\ Ws'
    BY <1>0, <1>1, <2>1 DEF DeleteWorkspace, rolloutVars, dsVars, Conditions
  <2> QED
    BY <1>1, <1>a, <1>b, <2>2 DEF DeleteWorkspace
<1>2. CASE SecretEvent
  <2>1. edits' \in 0..MaxEdits
    BY <1>0, <1>2, EditsType DEF SecretEvent
  <2>2. Rest' /\ Ws'
    BY <1>0, <1>2, <2>1 DEF SecretEvent, rolloutVars, dsVars, wsVars
  <2> QED
    BY <1>2, <1>a, <1>b, <2>2 DEF SecretEvent
<1>3. ASSUME NEW r \in Refs, SetRef(r) PROVE WorkspaceTypeOK'
  <2>1. edits' \in 0..MaxEdits
    BY <1>0, <1>3, EditsType DEF SetRef
  <2>2. Rest' /\ Ws'
    BY <1>0, <1>3, <2>1 DEF SetRef, rolloutVars, dsVars
  <2> QED
    BY <1>3, <1>a, <1>b, <2>2 DEF SetRef
<1>4. CASE WorkspaceFails
  <2>1. fails' \in 0..MaxFails
    BY <1>0, <1>4, FailsType DEF WorkspaceFails
  <2>2. Rest' /\ Ws'
    BY <1>0, <1>4, <2>1 DEF WorkspaceFails, rolloutVars, dsVars, Conditions
  <2> QED
    BY <1>4, <1>a, <1>b, <2>2 DEF WorkspaceFails
<1>5. CASE WorkspaceGone
  BY <1>5, <1>0, <1>a, <1>b, <1>c DEF WorkspaceGone, rolloutVars, dsVars
<1>6. CASE WorkspaceDeletes
  <2>1. Rest'
    BY <1>0, <1>6 DEF WorkspaceDeletes, RolloutEvent, rolloutVars, dsVars, Conditions
  <2>2. Ws'
    BY <1>0, <1>6 DEF WorkspaceDeletes, RolloutEvent, wsVars, Conditions
  <2> QED
    BY <1>6, <1>a, <1>b, <2>1, <2>2 DEF WorkspaceDeletes
<1>7. CASE WorkspaceApplies
  BY <1>7, <1>0, <1>a, <1>b DEF WorkspaceApplies, RolloutEvent, Conditions, dsVars
<1>8. CASE WorkspaceReports
  <2>1. wsCond' \in Conditions
    BY <1>8 DEF WorkspaceReports, Conditions
  <2>2. Rest' /\ Ws'
    BY <1>8, <1>0, <2>1 DEF WorkspaceReports, rolloutVars, dsVars
  <2> QED
    BY <1>8, <1>a, <1>b, <2>2 DEF WorkspaceReports
<1>9. CASE RolloutStep
  <2>0. Ws'
    BY <1>9, <1>c DEF RolloutStep
  <2>1. CASE ReconcileFails
    <3>1. fails' \in 0..MaxFails
      BY <1>0, <2>1, CountedType DEF ReconcileFails
    <3>2. PassTypeOK' /\ cond' \in Conditions /\ wake' \in BOOLEAN /\ stray' \subseteq Targets
      BY <1>0, <2>1, ReturnInv DEF ReconcileFails, Conditions
    <3> QED
      BY <1>0, <1>a, <2>0, <2>1, <3>1, <3>2 DEF ReconcileFails
  <2>2. CASE Reconcile
    <3>1. /\ ref \in Refs /\ Git[ref] \subseteq Targets
      BY <1>0, <2>2, GitType DEF Reconcile
    <3>2. update' \subseteq Targets /\ delete' \subseteq Targets \ update' /\ todo' \subseteq update' \union delete'
      BY <1>0, <2>2, <3>1 DEF Reconcile, Existing
    <3>3. goal' \in [ref : Refs \union {None}, deleting : BOOLEAN]
      BY <1>0, <2>2 DEF Reconcile
    <3>4. PassTypeOK'
      BY <1>0, <2>2, <3>2, <3>3 DEF Reconcile, PassTypeOK
    <3> QED
      BY <1>0, <1>a, <2>0, <2>2, <3>4 DEF Reconcile, dsVars
  <2>3. CASE ReconcileGone
    BY <1>0, <1>a, <1>b, <2>0, <2>3 DEF ReconcileGone, rolloutVars, dsVars
  <2>4. CASE Expire
    BY <1>0, <1>a, <1>d, <2>0, <2>4 DEF Expire, PassTypeOK
  <2>5. CASE Restart
    <3>1. fails' \in 0..MaxFails
      BY <1>0, <2>5, CountedType DEF Restart
    <3>2. PassTypeOK' /\ stray' \subseteq Targets
      BY <1>0, <2>5, ResetInv DEF Restart
    <3> QED
      BY <1>0, <1>a, <2>0, <2>5, <3>1, <3>2 DEF Restart, rolloutVars
  <2>6. CASE Launched
    BY <1>0, <1>a, <1>d, <2>0, <2>6 DEF Launched, PassTypeOK, txVars
  <2>7. ASSUME ReturnFailed,
               UNCHANGED <<ref, skip, deleting, finalizer, ownerWake, configs, open>>
        PROVE  WorkspaceTypeOK'
    BY <1>0, <1>a, <2>0, <2>7, ReturnFailedInv DEF Conditions
  <2>8. CASE Confirmed
    <3>1. CASE ~failed
      BY <1>0, <1>a, <1>d, <2>0, <2>8, <3>1 DEF Confirmed, PassTypeOK, txVars
    <3> QED
      BY <2>7, <2>8, <3>1 DEF Confirmed
  <2>9. CASE UpdateConfigs
    <3>1. PICK bad \in SUBSET Involved, held \in SUBSET delete, saved \in BOOLEAN :
            /\ Counted(bad = {} /\ saved)
            /\ configs' = WrittenConfigs(bad, held)
            /\ \/ \E c \in {"rolling", "ready"}, q \in BOOLEAN : Return(c, q, saved)
               \/ pc' = "finalizer" /\ UNCHANGED <<cond, wake, txVars, stray>>
      BY <2>9 DEF UpdateConfigs
    <3>2. fails' \in 0..MaxFails
      <4> DEFINE b == (bad = {} /\ saved)
      <4>1. b \in BOOLEAN /\ Counted(b)
        BY <3>1
      <4> QED
        BY <1>0, <4>1, CountedType
    <3>3. configs' \in [Targets -> ConfigState]
      BY <1>0, <3>1 DEF WrittenConfigs, ConfigState
    <3>4. CASE \E c \in {"rolling", "ready"}, q \in BOOLEAN : Return(c, q, saved)
      <4>1. PassTypeOK' /\ cond' \in Conditions /\ wake' \in BOOLEAN /\ stray' \subseteq Targets
        BY <1>0, <3>4, ReturnInv DEF Conditions
      <4> QED
        BY <1>0, <1>a, <2>0, <2>9, <3>2, <3>3, <4>1 DEF UpdateConfigs
    <3>5. CASE pc' = "finalizer" /\ UNCHANGED <<cond, wake, txVars, stray>>
      <4>1. PassTypeOK'
        BY <1>0, <3>5 DEF PassTypeOK, txVars
      <4> QED
        BY <1>0, <1>a, <2>0, <2>9, <3>2, <3>3, <3>5, <4>1 DEF UpdateConfigs
    <3> QED
      BY <3>1, <3>4, <3>5
  <2>19. CASE RemoveFinalizer
    <3>1. fails' \in 0..MaxFails
      BY <1>0, <2>19, CountedType DEF RemoveFinalizer
    <3>2. PassTypeOK' /\ cond' \in Conditions /\ wake' \in BOOLEAN /\ stray' \subseteq Targets
      BY <1>0, <2>19, ReturnInv DEF RemoveFinalizer, Conditions
    <3> QED
      BY <1>0, <1>a, <2>0, <2>19, <3>1, <3>2 DEF RemoveFinalizer
  <2>20. ASSUME NEW t \in Targets, LateSet(t) PROVE WorkspaceTypeOK'
    BY <1>0, <1>a, <1>b, <2>0, <2>20 DEF LateSet, rolloutVars
  <2>21. ASSUME NEW t \in Targets, ReleaseConfig(t) PROVE WorkspaceTypeOK'
    <3>1. configs' \in [Targets -> ConfigState]
      BY <1>0, <2>21 DEF ReleaseConfig, ConfigState
    <3> QED
      BY <1>0, <1>a, <1>b, <2>0, <2>21, <3>1 DEF ReleaseConfig, rolloutVars, dsVars
  <2>10. ASSUME NEW b \in BOOLEAN, WaitEnds(b) PROVE WorkspaceTypeOK'
    BY <1>0, <1>a, <1>d, <2>0, <2>10 DEF WaitEnds, PassTypeOK, Involved
  <2>11. ASSUME NEW t \in Targets, LaunchWorker(t) PROVE WorkspaceTypeOK'
    BY <1>0, <1>a, <1>d, <2>0, <2>11 DEF LaunchWorker, PassTypeOK, Worker
  <2>12. ASSUME NEW t \in Targets, LeaveOut(t) PROVE WorkspaceTypeOK'
    BY <1>0, <1>a, <1>d, <2>0, <2>12 DEF LeaveOut, PassTypeOK, Status
  <2>13. ASSUME NEW t \in Targets, RollbackTarget(t) PROVE WorkspaceTypeOK'
    <3>1. open' \subseteq Targets /\ status' \in [Targets -> Status]
      BY <1>0, <2>13 DEF RollbackTarget, PassTypeOK, Status
    <3> QED
      BY <1>0, <1>a, <2>0, <2>13, <3>1 DEF RollbackTarget, PassTypeOK, rolloutVars
  <2>14. ASSUME NEW t \in Targets, ConfirmTarget(t) PROVE WorkspaceTypeOK'
    <3>1. open' \subseteq Targets /\ status' \in [Targets -> Status] /\ failed' \in BOOLEAN
      BY <1>0, <2>14 DEF ConfirmTarget, PassTypeOK, Status
    <3> QED
      BY <1>0, <1>a, <2>0, <2>14, <3>1 DEF ConfirmTarget, PassTypeOK, rolloutVars
  <2>15. ASSUME NEW t \in Targets, WorkerStart(t) PROVE WorkspaceTypeOK'
    <3>1. worker' \in [Targets -> Worker] /\ status' \in [Targets -> Status]
      BY <1>0, <2>15 DEF WorkerStart, PassTypeOK, Status, Worker
    <3> QED
      BY <1>0, <1>a, <1>d, <2>0, <2>15, <3>1 DEF WorkerStart, PassTypeOK
  <2>16. ASSUME NEW t \in Targets, TransactionSet(t) PROVE WorkspaceTypeOK'
    <3>1. worker' \in [Targets -> Worker] /\ open' \subseteq Targets
      BY <1>0, <2>16 DEF TransactionSet, PassTypeOK, Worker
    <3> QED
      BY <1>0, <1>a, <2>0, <2>16, <3>1 DEF TransactionSet, PassTypeOK, rolloutVars
  <2>17. ASSUME NEW t \in Targets, NEW b \in BOOLEAN, WorkerReturns(t, b)
         PROVE  WorkspaceTypeOK'
    <3>1. /\ worker' \in [Targets -> Worker] /\ status' \in [Targets -> Status]
          /\ failed' \in BOOLEAN /\ stray' \subseteq Targets
      BY <1>0, <2>17 DEF WorkerReturns, PassTypeOK, Worker, Status
    <3> QED
      BY <1>0, <1>a, <2>0, <2>17, <3>1 DEF WorkerReturns, PassTypeOK, rolloutVars
  <2>18. ASSUME NEW t \in Targets, DataServerTimeout(t) PROVE WorkspaceTypeOK'
    BY <1>0, <1>a, <1>b, <2>0, <2>18 DEF DataServerTimeout, rolloutVars
  <2> QED
    BY <1>9, <2>1, <2>2, <2>3, <2>4, <2>5, <2>6, <2>7, <2>8, <2>9, <2>10, <2>11, <2>12,
       <2>13, <2>14, <2>15, <2>16, <2>17, <2>18, <2>19, <2>20, <2>21
    DEF RolloutStep, RolloutNext, TransactionStep, Abort, RolledBack
<1>10. CASE UNCHANGED wvars
  BY <1>10, <1>a, <1>b, <1>c, <1>d DEF wvars, rvars
<1> QED
  BY <1>1, <1>2, <1>3, <1>4, <1>5, <1>6, <1>7, <1>8, <1>9, <1>10 DEF Next, WorkspaceStep

\* The initial state has the types.
LEMMA InitType == WorkspaceInit => WorkspaceTypeOK
<1> SUFFICES ASSUME WorkspaceInit PROVE WorkspaceTypeOK
  OBVIOUS
<1>1. 0 \in 0..MaxFails /\ 0 \in 0..MaxEdits
  BY RolloutAssumption, WorkspaceAssumption
<1>2. /\ worker \in [Targets -> Worker] /\ status \in [Targets -> Status]
      /\ configs \in [Targets -> ConfigState]
  BY DEF WorkspaceInit, RolloutInit, Worker, Status, ConfigState
<1>3. goal \in [ref : Refs \union {None}, deleting : BOOLEAN]
  BY DEF WorkspaceInit, RolloutInit, NoGoal
<1> QED
  BY <1>1, <1>2, <1>3 DEF WorkspaceInit, RolloutInit, WorkspaceTypeOK, RolloutTypeOK

\* The two controllers, the goroutines of a transaction, users and restarts keep
\* every variable in its type: a loop works only on targets of the transaction,
\* and no target is updated and deleted at once.
THEOREM WorkspaceTypeCorrect == Spec => []WorkspaceTypeOK
  BY InitType, TypeStep, PTL DEF Spec

-----------------------------------------------------------------------------
(* The transaction. *)

\* What leaves the pass of Reconcile alone keeps its invariant.
LEMMA TxUnchanged ==
    ASSUME TxInv, UNCHANGED <<skip, configs, pc, txVars>>
    PROVE  TxInv'
<1>1. GoalInv'
  BY DEF TxInv, GoalInv, Existing, txVars
<1>2. LaunchInv'
  BY DEF TxInv, LaunchInv, LaunchedInv, Active, Involved, txVars
<1>3. ConfirmInv' /\ EarlyInv'
  BY DEF TxInv, ConfirmInv, EarlyInv, Active, Good, Involved, txVars
<1> QED
  BY <1>1, <1>2, <1>3 DEF TxInv

\* Every action keeps the invariant of the transaction.
LEMMA TxStep == WorkspaceTypeOK /\ TxInv /\ [Next]_wvars => TxInv'
<1> SUFFICES ASSUME WorkspaceTypeOK, TxInv, [Next]_wvars PROVE TxInv'
  OBVIOUS
<1>0. /\ PassTypeOK /\ wake \in BOOLEAN /\ cond \in Conditions /\ ref \in Refs \union {None}
      /\ stray \subseteq Targets /\ fails \in 0..MaxFails /\ configs \in [Targets -> ConfigState]
  BY DEF WorkspaceTypeOK, RolloutTypeOK, PassTypeOK, Conditions
<1>1. CASE UNCHANGED <<skip, configs, pc, txVars>>
  BY <1>1, TxUnchanged
<1>a. WorkspaceTypeOK'
  BY TypeStep
<1>2. CASE DeleteWorkspace \/ SecretEvent \/ (\E r \in Refs : SetRef(r)) \/ WorkspaceFails
  BY <1>1, <1>2 DEF DeleteWorkspace, SecretEvent, SetRef, WorkspaceFails, rolloutVars
<1>3. CASE WorkspaceStep
  BY <1>1, <1>3
  DEF WorkspaceStep, WorkspaceGone, WorkspaceDeletes, WorkspaceApplies, WorkspaceReports,
      rolloutVars
<1>4. CASE RolloutNext
  <2>1. CASE Reconcile
    <3>1. GoalInv'
      BY <1>0, <2>1 DEF Reconcile, GoalInv, Existing
    <3>2. LaunchInv'
      <4>1. \A t \in Targets : status[t] = "none" /\ worker[t] = "none"
        BY <2>1 DEF Reconcile, TxInv, EarlyInv
      <4>2. todo' = Involved' /\ todo' \subseteq Targets
        BY <1>a, <2>1 DEF Reconcile, Involved, WorkspaceTypeOK, RolloutTypeOK
      <4> QED
        BY <2>1, <4>1, <4>2 DEF Reconcile, LaunchInv
    <3> QED
      BY <2>1, <3>1, <3>2 DEF Reconcile, TxInv, ConfirmInv, EarlyInv, Confirming
  <2>2. CASE ReconcileFails \/ Restart
    BY <1>0, <2>2, ReturnInv, ResetInv DEF ReconcileFails, Restart, Conditions
  <2>3. CASE ReconcileGone
    BY <1>1, <2>3 DEF ReconcileGone, rolloutVars
  <2>4. CASE Expire
    <3>1. GoalInv' /\ EarlyInv'
      BY <2>4 DEF Expire, TxInv, GoalInv, Existing, EarlyInv
    <3>2. LaunchInv'
      BY <2>4 DEF Expire, TxInv, LaunchInv, LaunchedInv, Active, Involved, rolloutVars
    <3>3. ConfirmInv'
      BY <2>4 DEF Expire, TxInv, ConfirmInv, Active, Good, Involved, rolloutVars
    <3> QED
      BY <3>1, <3>2, <3>3 DEF TxInv
  <2>5. CASE Launched
    <3>1. GoalInv' /\ EarlyInv'
      BY <2>5 DEF Launched, TxInv, GoalInv, Existing, EarlyInv, txVars, Confirming
    <3>2. LaunchInv'
      BY <2>5 DEF Launched, TxInv, LaunchInv, LaunchedInv, Active, Involved, rolloutVars, txVars
    <3>3. ConfirmInv'
      BY <2>5 DEF Launched, ConfirmInv, Confirming
    <3> QED
      BY <3>1, <3>2, <3>3 DEF TxInv
  <2>6. CASE ReturnFailed
    BY <1>0, <2>6, ReturnFailedInv
  <2>7. CASE Confirmed /\ ~failed
    <3>1. GoalInv' /\ LaunchInv' /\ EarlyInv'
      BY <2>7 DEF Confirmed, TxInv, GoalInv, Existing, LaunchInv, EarlyInv, txVars, Confirming
    <3>2. ConfirmInv'
      BY <2>7 DEF Confirmed, TxInv, ConfirmInv, Active, Good, Involved, rolloutVars, txVars, Confirming
    <3> QED
      BY <3>1, <3>2 DEF TxInv
  <2>8. CASE UpdateConfigs
    <3>1. CASE \E c \in {"rolling", "ready"}, q \in BOOLEAN, b \in BOOLEAN : Return(c, q, b)
      BY <1>0, <3>1, ReturnInv DEF Conditions
    <3>2. CASE /\ pc' = "finalizer" /\ Refused = {} /\ goal.deleting
               /\ UNCHANGED <<skip, txVars>>
               /\ \E held \in SUBSET delete : configs' = WrittenConfigs({}, held)
      <4>1. pc = "api"
        BY <2>8 DEF UpdateConfigs
      <4>2. LaunchInv' /\ EarlyInv'
        BY <3>2, <4>1 DEF LaunchInv, EarlyInv, TxInv, Confirming, txVars
      <4>3. ConfirmInv'
        BY <3>2, <4>1 DEF TxInv, ConfirmInv, Active, Good, Involved, txVars, Confirming
      <4>4. \A t \in Targets : configs'[t] # "there"
        BY <1>0, <3>2, <4>1 DEF TxInv, GoalInv, Existing, WrittenConfigs
      <4> QED
        BY <3>2, <4>2, <4>3, <4>4 DEF TxInv, GoalInv
    <3> QED
      BY <2>8, <3>1, <3>2 DEF UpdateConfigs
  <2>18. CASE RemoveFinalizer
    BY <1>0, <2>18, ReturnInv DEF RemoveFinalizer, Conditions
  <2>19. CASE \E t \in Targets : LateSet(t)
    BY <1>1, <2>19 DEF LateSet, rolloutVars
  <2>20. ASSUME NEW t \in Targets, ReleaseConfig(t) PROVE TxInv'
    <3>1. GoalInv'
      BY <1>0, <2>20 DEF ReleaseConfig, TxInv, GoalInv, Existing, txVars
    <3>2. LaunchInv'
      BY <2>20 DEF ReleaseConfig, TxInv, LaunchInv, LaunchedInv, Active, Involved, txVars, rolloutVars
    <3>3. ConfirmInv' /\ EarlyInv'
      BY <2>20
      DEF ReleaseConfig, TxInv, ConfirmInv, EarlyInv, Active, Good, Involved, txVars, rolloutVars
    <3> QED
      BY <3>1, <3>2, <3>3 DEF TxInv
  <2>9. ASSUME NEW b \in BOOLEAN, WaitEnds(b) PROVE TxInv'
    <3>1. GoalInv' /\ LaunchInv' /\ EarlyInv'
      BY <2>9 DEF WaitEnds, TxInv, GoalInv, Existing, LaunchInv, EarlyInv, Confirming
    <3>2. CASE pc' = "confirm"
      <4>1. /\ ~b /\ ~failed /\ \A t \in Targets : worker[t] \in {"none", "done"}
            /\ UNCHANGED <<skip, update, delete, worker, status, failed, expired>>
            /\ todo' = Involved
        BY <2>9, <3>2 DEF WaitEnds, rolloutVars
      <4>2. \A t \in Involved : t \in Targets
        BY <1>0 DEF PassTypeOK, Involved
      <4>3. \A t \in Involved : \/ status[t] = "unavailable" /\ ~skip
                                \/ status[t] = "applied"
                                \/ status[t] = "failed" /\ expired
        BY <2>9, <4>1, <4>2 DEF WaitEnds, TxInv, LaunchInv, LaunchedInv, Active
      <4>4. \A t \in Targets : status[t] # "confirmed"
        BY <2>9 DEF WaitEnds, TxInv, EarlyInv, Confirming
      <4>5. Involved' = Involved /\ todo' = Involved'
        BY <4>1 DEF Involved
      <4> QED
        BY <3>1, <3>2, <4>1, <4>3, <4>4, <4>5 DEF TxInv, ConfirmInv, Active, Good
    <3>3. CASE pc' # "confirm"
      BY <2>9, <3>1, <3>3 DEF WaitEnds, TxInv, ConfirmInv, Confirming
    <3> QED
      BY <3>2, <3>3
  <2>10. ASSUME NEW t \in Targets, LaunchWorker(t) PROVE TxInv'
    <3>1. GoalInv' /\ ConfirmInv' /\ EarlyInv'
      BY <2>10 DEF LaunchWorker, TxInv, GoalInv, Existing, ConfirmInv, EarlyInv, Confirming
    <3>2. LaunchInv'
      BY <1>0, <2>10
      DEF LaunchWorker, PassTypeOK, TxInv, LaunchInv, LaunchedInv, Active, Involved, rolloutVars
    <3> QED
      BY <3>1, <3>2 DEF TxInv
  <2>11. ASSUME NEW t \in Targets, LeaveOut(t) PROVE TxInv'
    <3>1. GoalInv' /\ ConfirmInv' /\ EarlyInv'
      BY <1>0, <2>11 DEF LeaveOut, PassTypeOK, TxInv, GoalInv, Existing, ConfirmInv, EarlyInv, Confirming
    <3>2. LaunchInv'
      BY <1>0, <2>11
      DEF LeaveOut, PassTypeOK, TxInv, LaunchInv, LaunchedInv, Active, Involved, rolloutVars
    <3> QED
      BY <3>1, <3>2 DEF TxInv
  <2>12. ASSUME NEW t \in Targets, RollbackTarget(t) PROVE TxInv'
    <3>1. GoalInv' /\ LaunchInv' /\ ConfirmInv'
      BY <2>12 DEF RollbackTarget, TxInv, GoalInv, Existing, LaunchInv, ConfirmInv, Confirming
    <3>2. EarlyInv'
      BY <1>0, <2>12 DEF RollbackTarget, PassTypeOK, TxInv, EarlyInv
    <3> QED
      BY <3>1, <3>2 DEF TxInv
  <2>13. ASSUME NEW t \in Targets, ConfirmTarget(t) PROVE TxInv'
    <3>1. GoalInv' /\ LaunchInv' /\ EarlyInv'
      BY <2>13 DEF ConfirmTarget, TxInv, GoalInv, Existing, LaunchInv, EarlyInv, Confirming
    <3>2. CASE status[t] # "applied"
      BY <2>13, <3>1, <3>2
      DEF ConfirmTarget, TxInv, ConfirmInv, Active, Good, Involved, rolloutVars
    <3>3. CASE status[t] = "applied"
      <4>1. PICK answered \in BOOLEAN :
              /\ answered => ~expired
              /\ status' = [status EXCEPT ![t] =
                              IF answered THEN "confirmed" ELSE "confirmFailed"]
              /\ failed' = (failed \/ ~answered)
        BY <2>13, <3>3 DEF ConfirmTarget
      <4>2. /\ pc' = "confirm" /\ pc = "confirm" /\ todo' = todo \ {t}
            /\ UNCHANGED <<skip, update, delete, worker, expired>>
            /\ Involved' = Involved
        BY <2>13 DEF ConfirmTarget, rolloutVars, Involved
      <4>3. /\ status'[t] \in {"confirmed", "confirmFailed"}
            /\ status'[t] = "confirmFailed" => failed'
            /\ status'[t] = "confirmed" => ~expired
            /\ failed => failed'
            /\ \A u \in Targets \ {t} : status'[u] = status[u]
        BY <1>0, <4>1 DEF PassTypeOK
      <4>4. \A u \in Involved : u \in Targets
        BY <1>0 DEF PassTypeOK, Involved
      <4> QED
        BY <3>1, <4>2, <4>3, <4>4 DEF TxInv, ConfirmInv, Active, Good
    <3> QED
      BY <3>2, <3>3
  <2>14. ASSUME NEW t \in Targets, WorkerStart(t) PROVE TxInv'
    <3>1. GoalInv' /\ EarlyInv'
      BY <1>0, <2>14 DEF WorkerStart, PassTypeOK, TxInv, GoalInv, Existing, EarlyInv
    <3>2. LaunchInv'
      BY <1>0, <2>14
      DEF WorkerStart, PassTypeOK, TxInv, LaunchInv, LaunchedInv, Active, Involved, rolloutVars
    <3>3. ConfirmInv'
      BY <2>14 DEF WorkerStart, TxInv, ConfirmInv, Active
    <3> QED
      BY <3>1, <3>2, <3>3 DEF TxInv
  <2>15. ASSUME NEW t \in Targets, TransactionSet(t) PROVE TxInv'
    <3>1. GoalInv' /\ EarlyInv'
      BY <1>0, <2>15 DEF TransactionSet, PassTypeOK, TxInv, GoalInv, Existing, EarlyInv
    <3>2. LaunchInv'
      BY <1>0, <2>15
      DEF TransactionSet, PassTypeOK, TxInv, LaunchInv, LaunchedInv, Active, Involved, rolloutVars
    <3>3. ConfirmInv'
      BY <2>15 DEF TransactionSet, TxInv, ConfirmInv, Active
    <3> QED
      BY <3>1, <3>2, <3>3 DEF TxInv
  <2>16. ASSUME NEW t \in Targets, NEW b \in BOOLEAN, WorkerReturns(t, b) PROVE TxInv'
    <3>1. GoalInv' /\ EarlyInv'
      BY <1>0, <2>16 DEF WorkerReturns, PassTypeOK, TxInv, GoalInv, Existing, EarlyInv
    <3>2. LaunchInv'
      BY <1>0, <2>16
      DEF WorkerReturns, PassTypeOK, TxInv, LaunchInv, LaunchedInv, Active, Involved, rolloutVars
    <3>3. ConfirmInv'
      BY <2>16 DEF WorkerReturns, TxInv, ConfirmInv, Active, Confirming
    <3> QED
      BY <3>1, <3>2, <3>3 DEF TxInv
  <2>17. CASE \E t \in Targets : DataServerTimeout(t)
    BY <1>1, <2>17 DEF DataServerTimeout, rolloutVars
  <2> QED
    BY <1>4, <2>1, <2>2, <2>3, <2>4, <2>5, <2>6, <2>7, <2>8, <2>9, <2>10, <2>11, <2>12,
       <2>13, <2>14, <2>15, <2>16, <2>17, <2>18, <2>19, <2>20
    DEF RolloutNext, TransactionStep, Abort, RolledBack, Confirmed
<1> QED
  BY <1>1, <1>2, <1>3, <1>4 DEF Next, RolloutStep, wvars, rvars, rolloutVars

\* The initial state has no transaction.
LEMMA TxInit == WorkspaceInit => TxInv
  BY DEF WorkspaceInit, RolloutInit, TxInv, GoalInv, Existing, LaunchInv, ConfirmInv, EarlyInv, Confirming

\* The types and the transaction, for the theorems below.
LEMMA TxAlways == Spec => [](WorkspaceTypeOK /\ TxInv)
  BY InitType, TxInit, TypeStep, TxStep, PTL DEF Spec

\* ConfirmTargets is entered only when every goroutine ended without an error, and
\* under a context that is done it sends nothing: however goroutines, timeouts,
\* answers and restarts interleave, no target is confirmed while another one that
\* takes part failed.
THEOREM TargetsConfirmedTogether == Spec => []ConfirmedTogether
<1>1. TxInv => ConfirmedTogether
  BY DEF TxInv, EarlyInv, ConfirmInv, ConfirmedTogether, Good, Involved
<1> QED
  BY <1>1, TxAlways, PTL

-----------------------------------------------------------------------------
(* What a pass leaves. *)

\* A Rollout that becomes Ready does so in UpdateConfigs, with no write that failed.
LEMMA ReadyStep ==
    ASSUME WorkspaceTypeOK, Next, cond # "ready", cond' = "ready"
    PROVE  /\ pc = "api" /\ ~goal.deleting /\ Refused = {}
           /\ \E held \in SUBSET delete : configs' = WrittenConfigs({}, held)
<1>0. wake \in BOOLEAN /\ cond \in Conditions /\ stray \subseteq Targets /\ fails \in 0..MaxFails
  BY DEF WorkspaceTypeOK, RolloutTypeOK, Conditions
<1>1. CASE UpdateConfigs
  <2>1. PICK bad \in SUBSET Involved, held \in SUBSET delete :
            configs' = WrittenConfigs(bad, held) /\ bad \union Refused = {} /\ ~goal.deleting
    BY <1>1 DEF UpdateConfigs, Return
  <2> QED
    BY <1>1, <2>1 DEF UpdateConfigs
<1>2. CASE ReconcileFails \/ Restart \/ RemoveFinalizer
  BY <1>2 DEF ReconcileFails, Restart, RemoveFinalizer, Return, rolloutVars
<1>3. CASE ReturnFailed
  BY <1>0, <1>3, ReturnFailedInv
<1>4. CASE WorkspaceDeletes
  BY <1>4 DEF WorkspaceDeletes, rolloutVars
<1>5. CASE UNCHANGED cond
  BY <1>5
<1> QED
  BY <1>1, <1>2, <1>3, <1>4, <1>5
  DEF Next, WorkspaceStep, RolloutStep, RolloutNext, TransactionStep, rolloutVars,
      DeleteWorkspace, SecretEvent, SetRef, WorkspaceFails, WorkspaceGone,
      WorkspaceApplies, WorkspaceReports, Reconcile, ReconcileGone, Expire, Launched,
      RolledBack, Confirmed, WaitEnds, LaunchWorker, LeaveOut, Abort, RollbackTarget,
      ConfirmTarget, WorkerStart, TransactionSet, WorkerReturns, DataServerTimeout,
      LateSet, ReleaseConfig

\* A Rollout becomes Ready only when updateConfigFromAPIServer created every Config
\* of the reference that the pass read and asked every other one to go, also one
\* the Transactor's finalizer keeps: while the pass runs Configs may go, but
\* nothing else creates one.
THEOREM ReadyAlwaysComplete == Spec => ReadyIsComplete
<1> DEFINE A == cond # "ready" /\ cond' = "ready" =>
                    /\ \A t \in Targets : configs'[t] = "there" <=> t \in Git[goal.ref]
                    /\ expired \/ \A t \in Involved : status[t] \in {"confirmed", "unavailable"}
<1>1. WorkspaceTypeOK /\ TxInv /\ [Next]_wvars => [A]_rvars
  <2> SUFFICES ASSUME WorkspaceTypeOK, TxInv, Next, cond # "ready", cond' = "ready"
               PROVE  A
    BY DEF wvars
  <2>1. /\ pc = "api" /\ ~goal.deleting /\ Refused = {}
        /\ \E held \in SUBSET delete : configs' = WrittenConfigs({}, held)
    BY ReadyStep
  <2>2. /\ update = Git[goal.ref] /\ Existing \subseteq update \union delete
        /\ delete \subseteq Targets \ update
    BY <2>1 DEF TxInv, GoalInv, WorkspaceTypeOK, RolloutTypeOK
  <2>3. \A t \in Targets : configs'[t] = "there" <=> t \in Git[goal.ref]
    BY <2>1, <2>2 DEF Refused, Existing, WrittenConfigs
  <2>4. expired \/ \A t \in Involved : status[t] \in {"confirmed", "unavailable"}
    BY <2>1 DEF TxInv, ConfirmInv, Good, Confirming
  <2> QED
    BY <2>3, <2>4
<1> QED
  BY <1>1, TxAlways, PTL DEF Spec, ReadyIsComplete

\* A Rollout is created under the finalizer of its Workspace.
LEMMA OwnerStep == WorkspaceTypeOK /\ OwnerInv /\ [Next]_wvars => OwnerInv'
<1> SUFFICES ASSUME WorkspaceTypeOK, OwnerInv, [Next]_wvars PROVE OwnerInv'
  OBVIOUS
<1>1. CASE DeleteWorkspace \/ SecretEvent \/ (\E r \in Refs : SetRef(r))
  BY <1>1 DEF DeleteWorkspace, SecretEvent, SetRef, rolloutVars, wsVars, OwnerInv
<1>2. CASE WorkspaceFails
  BY <1>2 DEF WorkspaceFails, rolloutVars, OwnerInv, WorkspaceTypeOK
<1>3. CASE WorkspaceStep
  BY <1>3
  DEF WorkspaceStep, WorkspaceGone, WorkspaceDeletes, WorkspaceApplies, WorkspaceReports,
      rolloutVars, wsVars, OwnerInv
<1>4. CASE RolloutStep
  <2>1. ref' \in {ref, None}
    <3>1. CASE RemoveFinalizer
      BY <3>1 DEF RemoveFinalizer
    <3>2. CASE UNCHANGED ref
      BY <3>2
    <3> QED
      BY <1>4, <3>1, <3>2
      DEF RolloutStep, RolloutNext, TransactionStep, rolloutVars, ReconcileFails, Restart,
          Reconcile, ReconcileGone, Expire, Launched, RolledBack, Confirmed, WaitEnds,
          LaunchWorker, LeaveOut, Abort, RollbackTarget, ConfirmTarget, WorkerStart,
          TransactionSet, WorkerReturns, DataServerTimeout, LateSet, ReleaseConfig,
          UpdateConfigs
  <2> QED
    BY <1>4, <2>1 DEF RolloutStep, wsVars, OwnerInv
<1>5. CASE UNCHANGED wvars
  BY <1>5 DEF wvars, rvars, rolloutVars, wsVars, OwnerInv
<1> QED
  BY <1>1, <1>2, <1>3, <1>4, <1>5 DEF Next

\* The finalizers of the two controllers order a deletion: the Workspace's is
\* there as long as a Rollout is, and the Rollout's goes at the end of a pass that
\* has asked every Config to go.
THEOREM DeletionAlwaysOrdered == Spec => DeletionIsOrdered
<1> DEFINE A == /\ wsRef # None /\ wsRef' = None => ref = None
                /\ ref # None /\ ref' = None /\ finalizer =>
                        \A t \in Targets : configs'[t] # "there"
<1>1. WorkspaceTypeOK /\ TxInv /\ OwnerInv /\ [Next]_wvars => [A]_wvars
  <2> SUFFICES ASSUME WorkspaceTypeOK, TxInv, OwnerInv, Next PROVE A
    OBVIOUS
  <2>1. CASE DeleteWorkspace \/ SecretEvent \/ (\E r \in Refs : SetRef(r))
    BY <2>1, RolloutAssumption DEF DeleteWorkspace, SecretEvent, SetRef, rolloutVars, wsVars, OwnerInv
  <2>2. CASE WorkspaceFails \/ WorkspaceGone \/ WorkspaceReports
    BY <2>2 DEF WorkspaceFails, WorkspaceGone, WorkspaceReports, rolloutVars, wsVars
  <2>3. CASE WorkspaceDeletes
    BY <2>3 DEF WorkspaceDeletes, rolloutVars, wsVars
  <2>4. CASE WorkspaceApplies
    BY <2>4 DEF WorkspaceApplies
  <2>5. CASE RolloutStep
    <3>1. UNCHANGED wsRef
      BY <2>5 DEF RolloutStep, wsVars
    <3>2. CASE UNCHANGED ref
      BY <3>1, <3>2
    <3>3. CASE RemoveFinalizer
      BY <3>1, <3>3 DEF RemoveFinalizer, TxInv, GoalInv
    <3> QED
      BY <2>5, <3>2, <3>3
      DEF RolloutStep, RolloutNext, TransactionStep, rolloutVars, ReconcileFails, Restart,
          Reconcile, ReconcileGone, Expire, Launched, RolledBack, Confirmed, WaitEnds,
          LaunchWorker, LeaveOut, Abort, RollbackTarget, ConfirmTarget, WorkerStart,
          TransactionSet, WorkerReturns, DataServerTimeout, LateSet, ReleaseConfig,
          UpdateConfigs
  <2> QED
    BY <2>1, <2>2, <2>3, <2>4, <2>5 DEF Next, WorkspaceStep
<1>2. WorkspaceInit => OwnerInv
  BY DEF WorkspaceInit, RolloutInit, OwnerInv
<1> QED
  BY <1>1, <1>2, TxAlways, OwnerStep, PTL DEF Spec, DeletionIsOrdered

-----------------------------------------------------------------------------
(* The transaction as an atomic commit. *)

\* A goroutine at work belongs to a target of the transaction of which nothing is
\* known yet, and nobody has tried to confirm before the confirmation.
NetInv ==
    /\ pc = "idle" => Involved = {}
    /\ \A t \in Targets : Active(t) => t \in Involved /\ status[t] \in {"none", "unknown"}
    /\ pc \notin Confirming =>
        \A t \in Targets : status[t] \notin {"confirmed", "confirmFailed"}

LEMMA NetUnchanged ==
    ASSUME NetInv, UNCHANGED <<update, delete, worker, status>>,
           pc' = pc \/ (pc' \notin {"idle"} /\ (pc' \in Confirming \/ pc \notin Confirming))
    PROVE  NetInv'
BY DEF NetInv, Active, Involved

\* A Reconcile that ends takes its transaction with it.
LEMMA ReturnEnds ==
    ASSUME Reset, open' = open
    PROVE  NetInv' /\ Net!NEnd
<1>1. /\ pc' = "idle" /\ update' = {} /\ delete' = {}
      /\ worker' = [t \in Targets |-> "none"] /\ status' = [t \in Targets |-> "none"]
  BY DEF Reset
<1>2. Involved' = {}
  BY <1>1 DEF Involved
<1>3. NetInv'
  BY <1>1, <1>2 DEF NetInv, Active
<1>4. NetOf("none") = "none"
  BY DEF NetOf
<1>5. NetState' = [t \in Targets |-> "none"]
  BY <1>1, <1>4 DEF NetState
<1> QED
  BY <1>2, <1>3, <1>5 DEF Net!NEnd, Net!Unknown

\* What a pass leaves alone the transaction does not see.
LEMMA NetStutters ==
    ASSUME UNCHANGED <<update, delete, status, open>>
    PROVE  UNCHANGED Net!nvars
BY DEF Net!nvars, Involved, NetState

LEMMA NetOfStatus ==
    /\ NetOf("none") = "none" /\ NetOf("unknown") = "none" /\ NetOf("unavailable") = "out"
    /\ NetOf("failed") = "failed" /\ NetOf("applied") = "prepared"
    /\ NetOf("cancelled") = "undone" /\ NetOf("cancelFailed") = "undone"
    /\ NetOf("confirmed") = "committed" /\ NetOf("confirmFailed") = "unsure"
BY DEF NetOf

LEMMA NetChange ==
    ASSUME PassTypeOK, NEW t \in Targets, NEW s, status' = [status EXCEPT ![t] = s]
    PROVE  NetState' = [NetState EXCEPT ![t] = NetOf(s)]
BY DEF PassTypeOK, NetState

\* Before the confirmation, and in it, as the transaction sees it.
LEMMA NotCommitting ==
    ASSUME PassTypeOK, NetInv, pc \notin Confirming
    PROVE  ~Net!Committing
<1>1. \A t \in Involved : t \in Targets
  BY DEF PassTypeOK, Involved
<1>2. \A t \in Involved : status[t] \in Status \ {"confirmed", "confirmFailed"}
  BY <1>1 DEF PassTypeOK, NetInv
<1>3. \A s \in Status \ {"confirmed", "confirmFailed"} : NetOf(s) \notin {"committed", "unsure"}
  BY NetOfStatus DEF Status
<1> QED
  BY <1>1, <1>2, <1>3 DEF Net!Committing, NetState

LEMMA ConfirmAgreed ==
    ASSUME PassTypeOK, TxInv, pc = "confirm"
    PROVE  ~Net!Undoing /\ (~expired => Net!Agreed)
<1>1. \A t \in Involved : t \in Targets
  BY DEF PassTypeOK, Involved
<1>2. \A t \in Involved :
        status[t] \in {"applied", "confirmed", "confirmFailed", "unavailable", "failed"}
  BY DEF TxInv, ConfirmInv, Good, Confirming
<1>3. \A t \in Involved : status[t] = "failed" => expired
  BY DEF TxInv, ConfirmInv, Confirming
<1>4. \A t \in Involved : NetState[t] = NetOf(status[t])
  BY <1>1 DEF NetState
<1> QED
  BY <1>2, <1>3, <1>4, NetOfStatus DEF Net!Undoing, Net!Agreed

\* Every step of the Rollout is a step of the commit, or none.
LEMMA NetStep ==
    WorkspaceTypeOK /\ TxInv /\ NetInv /\ [Next]_wvars => NetInv' /\ [Net!NNext]_Net!nvars
<1> SUFFICES ASSUME WorkspaceTypeOK, TxInv, NetInv, [Next]_wvars
             PROVE  NetInv' /\ [Net!NNext]_Net!nvars
  OBVIOUS
<1>0. PassTypeOK /\ open \subseteq Targets
  BY DEF WorkspaceTypeOK, RolloutTypeOK, PassTypeOK
<1>1. ASSUME UNCHANGED <<pc, update, delete, worker, status, open>>
      PROVE  NetInv' /\ [Net!NNext]_Net!nvars
  BY <1>1, NetUnchanged, NetStutters
<1>2. ASSUME Reset, open' = open
      PROVE  NetInv' /\ [Net!NNext]_Net!nvars
  BY <1>2, ReturnEnds DEF Net!NNext
<1>3. CASE DeleteWorkspace \/ SecretEvent \/ (\E r \in Refs : SetRef(r)) \/ WorkspaceFails
  BY <1>1, <1>3 DEF DeleteWorkspace, SecretEvent, SetRef, WorkspaceFails, txVars, dsVars
<1>4. CASE WorkspaceStep
  BY <1>1, <1>4
  DEF WorkspaceStep, WorkspaceGone, WorkspaceDeletes, WorkspaceApplies, WorkspaceReports, txVars,
      dsVars
<1>5. CASE ReconcileFails \/ Restart \/ (ReturnFailed /\ open' = open)
  BY <1>2, <1>5 DEF ReconcileFails, Restart, ReturnFailed, Return
<1>6. CASE UpdateConfigs \/ RemoveFinalizer
  <2>1. CASE Reset
    BY <1>2, <1>6, <2>1 DEF UpdateConfigs, RemoveFinalizer
  <2>2. CASE pc = "api" /\ pc' = "finalizer" /\ UNCHANGED <<txVars, open>>
    BY <2>2, NetUnchanged, NetStutters DEF txVars, Confirming
  <2> QED
    BY <1>6, <2>1, <2>2 DEF UpdateConfigs, RemoveFinalizer, Return
<1>7. CASE ReconcileGone \/ Expire \/ \E t \in Targets : ReleaseConfig(t)
  BY <1>1, <1>7 DEF ReconcileGone, Expire, ReleaseConfig, txVars, dsVars
<1>8. CASE Reconcile
  <2>1. pc = "idle" /\ pc' = "launch" /\ UNCHANGED <<worker, status, open>>
    BY <1>8 DEF Reconcile, dsVars
  <2>2. Involved = {} /\ \A t \in Targets : worker[t] = "none" /\ status[t] = "none"
    BY <2>1 DEF NetInv, TxInv, EarlyInv
  <2>3. NetInv'
    BY <2>1, <2>2 DEF NetInv, Active
  <2>4. NetState' = NetState /\ NetState = [t \in Targets |-> "none"]
    BY <2>1, <2>2, NetOfStatus DEF NetState
  <2>5. Involved' \in SUBSET Targets
    BY TypeStep DEF WorkspaceTypeOK, RolloutTypeOK, Involved
  <2>6. Net!NBegin
    BY <2>1, <2>2, <2>4, <2>5 DEF Net!NBegin, Net!Unknown
  <2> QED
    BY <2>3, <2>6 DEF Net!NNext
<1>9. CASE Launched \/ (Confirmed /\ ~failed) \/ \E b \in BOOLEAN : WaitEnds(b)
  <2>1. UNCHANGED <<update, delete, worker, status, open>>
    BY <1>9 DEF Launched, Confirmed, WaitEnds, txVars, dsVars
  <2>2. pc' \in {"run", "api", "rollback", "confirm"}
        /\ (pc \in Confirming => pc' = "api")
    BY <1>9 DEF Launched, Confirmed, WaitEnds, Confirming
  <2>3. NetInv'
    BY <2>1, <2>2, NetUnchanged DEF Confirming
  <2> QED
    BY <2>1, <2>3, NetStutters
<1>10. ASSUME NEW t \in Targets, LaunchWorker(t)
       PROVE  NetInv' /\ [Net!NNext]_Net!nvars
  <2>1. /\ pc = "launch" /\ pc' = pc /\ worker' = [worker EXCEPT ![t] = "spawned"]
        /\ t \in Involved /\ status[t] = "none" /\ UNCHANGED <<update, delete, status, open>>
    BY <1>0, <1>10 DEF LaunchWorker, TxInv, LaunchInv, PassTypeOK, Involved, dsVars
  <2>2. NetInv'
    BY <1>0, <2>1 DEF NetInv, Active, Involved, PassTypeOK
  <2> QED
    BY <2>1, <2>2, NetStutters
<1>11. ASSUME NEW t \in Involved, NEW s \in Status, pc \notin Confirming, pc' = pc,
              status[t] \in {"none", "unknown"}, s \in {"failed", "applied", "unavailable"},
              status' = [status EXCEPT ![t] = s], UNCHANGED <<update, delete, open>>,
              worker' = [worker EXCEPT ![t] = "done"] \/ (worker' = worker /\ worker[t] = "none")
       PROVE  NetInv' /\ [Net!NNext]_Net!nvars
  <2>1. t \in Targets
    BY <1>0 DEF PassTypeOK, Involved
  <2>2. NetInv'
    BY <1>0, <1>11, <2>1 DEF NetInv, Active, Involved, PassTypeOK
  <2>3. NetState' = [NetState EXCEPT ![t] = NetOf(s)] /\ NetState[t] = "none"
    BY <1>0, <1>11, <2>1, NetChange, NetOfStatus DEF NetState
  <2>4. NetOf(s) \in {"out", "failed", "prepared"} /\ Involved' = Involved
    BY <1>11, NetOfStatus DEF Involved
  <2>5. Net!NReport(t, NetOf(s))
    BY <1>0, <1>11, <2>3, <2>4, NotCommitting DEF Net!NReport
  <2> QED
    BY <2>1, <2>2, <2>4, <2>5 DEF Net!NNext
<1>12. ASSUME NEW t \in Targets, LeaveOut(t)
       PROVE  NetInv' /\ [Net!NNext]_Net!nvars
  <2>1. /\ pc = "launch" /\ pc' = pc /\ status' = [status EXCEPT ![t] = "unavailable"]
        /\ t \in Involved /\ status[t] = "none" /\ worker[t] = "none"
        /\ UNCHANGED <<update, delete, worker, open>>
    BY <1>0, <1>12 DEF LeaveOut, TxInv, LaunchInv, PassTypeOK, Involved, dsVars
  <2> QED
    BY <1>11, <2>1 DEF Status, Confirming
<1>13. ASSUME NEW t \in Targets, WorkerStart(t)
       PROVE  NetInv' /\ [Net!NNext]_Net!nvars
  <2>1. Active(t) /\ pc \notin Confirming /\ t \in Involved
        /\ status[t] \in {"none", "unknown"} /\ pc' = pc /\ UNCHANGED <<update, delete, open>>
    BY <1>13 DEF WorkerStart, Active, NetInv, TxInv, ConfirmInv, dsVars
  <2>2. CASE expired
    BY <1>11, <1>13, <2>1, <2>2 DEF WorkerStart, Status
  <2>3. CASE ~expired
    <3>1. status' = status /\ worker' = [worker EXCEPT ![t] = "rpc"]
      BY <1>0, <1>13, <2>3 DEF WorkerStart, PassTypeOK
    <3>2. NetInv'
      BY <1>0, <2>1, <3>1 DEF NetInv, Active, Involved, PassTypeOK
    <3> QED
      BY <2>1, <3>1, <3>2, NetStutters
  <2> QED
    BY <2>2, <2>3
<1>14. ASSUME NEW t \in Targets, NEW b \in BOOLEAN, WorkerReturns(t, b)
       PROVE  NetInv' /\ [Net!NNext]_Net!nvars
  <2>1. Active(t) /\ pc \notin Confirming /\ t \in Involved
        /\ status[t] \in {"none", "unknown"} /\ pc' = pc /\ UNCHANGED <<update, delete, open>>
    BY <1>14 DEF WorkerReturns, Active, NetInv, TxInv, ConfirmInv
  <2> QED
    BY <1>11, <1>14, <2>1 DEF WorkerReturns, Status
<1>15. ASSUME NEW t \in Targets, TransactionSet(t)
       PROVE  NetInv' /\ [Net!NNext]_Net!nvars
  <2>1. /\ Active(t) /\ t \in Involved /\ status[t] \in {"none", "unknown"} /\ pc' = pc
        /\ worker' \in {[worker EXCEPT ![t] = "ok"], [worker EXCEPT ![t] = "err"]}
        /\ UNCHANGED <<update, delete, status>>
    BY <1>15 DEF TransactionSet, Active, NetInv
  <2>2. NetInv'
    BY <1>0, <2>1 DEF NetInv, Active, Involved, PassTypeOK
  <2>3. CASE open' = open
    BY <2>1, <2>2, <2>3, NetStutters
  <2>4. CASE t \notin open /\ open' = open \union {t}
    <3>1. NetState' = NetState /\ NetState[t] = "none" /\ Involved' = Involved
      BY <2>1, NetOfStatus DEF NetState, Involved
    <3>2. Net!NHold(t)
      BY <2>1, <2>4, <3>1 DEF Net!NHold
    <3> QED
      BY <2>2, <3>2 DEF Net!NNext
  <2> QED
    BY <1>15, <2>3, <2>4 DEF TransactionSet
<1>16. ASSUME NEW t \in Targets, RollbackTarget(t)
       PROVE  NetInv' /\ [Net!NNext]_Net!nvars
  <2>1. pc = "rollback" /\ pc' = pc /\ t \in Involved /\ UNCHANGED <<update, delete, worker>>
    BY <1>0, <1>16 DEF RollbackTarget, PassTypeOK, Involved
  <2>2. CASE status[t] = "none" /\ status' = [status EXCEPT ![t] = "unknown"] /\ open' = open
    <3>1. NetState' = NetState
      BY <1>0, <2>2, NetOfStatus DEF NetState, PassTypeOK
    <3>2. NetInv'
      BY <1>0, <2>1, <2>2 DEF NetInv, Active, Involved, PassTypeOK
    <3> QED
      BY <2>1, <2>2, <3>1, <3>2 DEF Net!nvars, Involved
  <2>3. ASSUME NEW s \in {"cancelled", "cancelFailed"}, status[t] = "applied",
               status' = [status EXCEPT ![t] = s], open' \in {open, open \ {t}}
        PROVE  NetInv' /\ [Net!NNext]_Net!nvars
    <3>1. NetInv'
      BY <1>0, <2>1, <2>3 DEF NetInv, Active, Involved, PassTypeOK
    <3>2. NetState' = [NetState EXCEPT ![t] = "undone"] /\ NetState[t] = "prepared"
      <4>1. NetOf(s) = "undone" /\ NetState[t] = "prepared"
        BY <2>3, NetOfStatus DEF NetState
      <4>2. NetState' = [NetState EXCEPT ![t] = NetOf(s)]
        BY <1>0, <2>3, NetChange
      <4> QED
        BY <4>1, <4>2
    <3>3. Net!NRollback(t)
      BY <1>0, <2>1, <2>3, <3>2, NotCommitting DEF Net!NRollback, Involved, Confirming
    <3> QED
      BY <3>1, <3>3 DEF Net!NNext
  <2>4. CASE UNCHANGED <<status, open>>
    BY <1>1, <2>1, <2>4
  <2> QED
    BY <1>16, <2>2, <2>3, <2>4 DEF RollbackTarget
<1>17. ASSUME NEW t \in Targets, ConfirmTarget(t)
       PROVE  NetInv' /\ [Net!NNext]_Net!nvars
  <2>1. pc = "confirm" /\ pc' = pc /\ t \in Involved /\ UNCHANGED <<update, delete, worker>>
    BY <1>0, <1>17 DEF ConfirmTarget, PassTypeOK, Involved
  <2>2. CASE status[t] # "applied"
    BY <1>1, <1>17, <2>1, <2>2 DEF ConfirmTarget
  <2>3. CASE status[t] = "applied"
    <3>1. PICK answered \in BOOLEAN, executed \in BOOLEAN :
            /\ executed => ~expired /\ t \in open
            /\ answered => executed
            /\ open' = IF executed THEN open \ {t} ELSE open
            /\ status' = [status EXCEPT ![t] =
                            IF answered THEN "confirmed" ELSE "confirmFailed"]
      BY <1>17, <2>3 DEF ConfirmTarget
    <3>2. NetInv'
      <4>1. \A u \in Targets : ~Active(u)
        BY <2>1 DEF TxInv, ConfirmInv, Confirming
      <4> QED
        BY <2>1, <4>1 DEF NetInv, Active, Confirming
    <3>3. NetState[t] = "prepared" /\ Involved' = Involved
      BY <2>1, <2>3, NetOfStatus DEF NetState, Involved
    <3>4. NetState' = [NetState EXCEPT ![t] = IF answered THEN "committed" ELSE "unsure"]
      <4> DEFINE s == IF answered THEN "confirmed" ELSE "confirmFailed"
      <4>1. NetOf(s) = IF answered THEN "committed" ELSE "unsure"
        BY NetOfStatus
      <4>2. status' = [status EXCEPT ![t] = s]
        BY <3>1
      <4> HIDE DEF s
      <4>3. NetState' = [NetState EXCEPT ![t] = NetOf(s)]
        BY <1>0, <4>2, NetChange
      <4> QED
        BY <4>1, <4>3
    <3>5. CASE executed
      <4>1. Net!NCommit(t, IF answered THEN "committed" ELSE "unsure")
        BY <1>0, <2>1, <3>1, <3>3, <3>4, <3>5, ConfirmAgreed DEF Net!NCommit
      <4> QED
        BY <3>2, <4>1 DEF Net!NNext
    <3>6. CASE ~executed
      <4>1. Net!NNotConfirmed(t)
        BY <1>0, <2>1, <3>1, <3>3, <3>4, <3>6, ConfirmAgreed DEF Net!NNotConfirmed
      <4> QED
        BY <3>2, <4>1 DEF Net!NNext
    <3> QED
      BY <3>5, <3>6
  <2> QED
    BY <2>2, <2>3
<1>18. ASSUME NEW t \in Targets, DataServerTimeout(t)
       PROVE  NetInv' /\ [Net!NNext]_Net!nvars
  <2>1. t \in open /\ open' = open \ {t} /\ UNCHANGED <<pc, update, delete, worker, status>>
    BY <1>18 DEF DataServerTimeout, txVars
  <2>2. NetInv'
    BY <2>1, NetUnchanged
  <2>3. Net!NTimeout(t)
    BY <2>1 DEF Net!NTimeout, Involved, NetState
  <2> QED
    BY <2>2, <2>3 DEF Net!NNext
<1>20. ASSUME NEW t \in Targets, LateSet(t)
       PROVE  NetInv' /\ [Net!NNext]_Net!nvars
  <2>1. /\ open' \in {open, open \union {t}} /\ UNCHANGED <<pc, update, delete, worker, status>>
    BY <1>20 DEF LateSet, txVars
  <2>2. CASE t \in open \/ open' = open
    BY <1>1, <2>1, <2>2
  <2>3. CASE t \notin open /\ open' = open \union {t}
    <3>1. NetInv'
      BY <2>1, NetUnchanged
    <3>2. Net!NHold(t)
      BY <2>1, <2>3 DEF Net!NHold, Involved, NetState
    <3> QED
      BY <3>1, <3>2 DEF Net!NNext
  <2> QED
    BY <2>1, <2>2, <2>3
<1>19. CASE UNCHANGED wvars
  BY <1>1, <1>19 DEF wvars, rvars, txVars, dsVars
<1> QED
  BY <1>3, <1>4, <1>5, <1>6, <1>7, <1>8, <1>9, <1>10, <1>12, <1>13, <1>14, <1>15, <1>16,
     <1>17, <1>18, <1>19, <1>20
  DEF Next, RolloutStep, RolloutNext, TransactionStep, Abort, RolledBack, Confirmed

\* Without a transaction there is nothing to commit.
LEMMA NetInitial == WorkspaceInit => NetInv /\ Net!NInit
<1> SUFFICES ASSUME WorkspaceInit PROVE NetInv /\ Net!NInit
  OBVIOUS
<1>1. /\ update = {} /\ delete = {} /\ open = {}
      /\ worker = [t \in Targets |-> "none"] /\ status = [t \in Targets |-> "none"]
  BY DEF WorkspaceInit, RolloutInit
<1>2. Involved = {} /\ NetState = [t \in Targets |-> "none"]
  BY <1>1, NetOfStatus DEF Involved, NetState
<1>3. NetInv
  BY <1>1, <1>2 DEF NetInv, Active
<1> QED
  BY <1>1, <1>2, <1>3 DEF Net!NInit, Net!Unknown

\* TransactToAllTargets is an atomic commit, for any targets, references, timeouts
\* and failures: a data-server executes a confirmation only when every target that
\* takes part has accepted, whether or not the answer arrives, and no change is
\* rolled back beside one that is or may be confirmed.
THEOREM RolloutImplementsCommit == Spec => ImplementsCommit
<1>1. WorkspaceTypeOK /\ TxInv /\ NetInv /\ [Next]_wvars => NetInv' /\ [Net!NNext]_Net!nvars
  BY NetStep
<1>2. WorkspaceInit => NetInv /\ Net!NInit
  BY NetInitial
<1> QED
  BY <1>1, <1>2, TxAlways, PTL DEF Spec, ImplementsCommit, Net!NSpec
=============================================================================
