------------------------------- MODULE Rollout -------------------------------
(***************************************************************************)
(* The Rollout controller (src/pkg/reconcilers/rollout): it runs one       *)
(* network-wide transaction over the targets whose Configs a git reference *)
(* creates or removes, and then creates and deletes these Configs in the   *)
(* API server.                                                             *)
(*                                                                         *)
(* A transaction (transactionManager) launches a goroutine per target that *)
(* calls TransactionSet, waits for all of them or for the global timeout,  *)
(* and then confirms or rolls back.  The data-server (external) holds an   *)
(* unconfirmed transaction open and rolls it back by itself after a while. *)
(* The request names the target and the transaction and carries no intent: *)
(* what the transaction agrees on is that every target takes one.  The     *)
(* Configs reach the devices through the Transactor, once they are in the  *)
(* API server.                                                             *)
(* Each target has at most one Config, so that a set of targets stands for *)
(* a set of Configs.                                                       *)
(***************************************************************************)
EXTENDS Naturals, FiniteSets

CONSTANTS
    Targets,
    Refs,               \* git references
    Git,                \* [Refs -> targets that have a Config in the reference]
    MaxFails,           \* bound on failing API and git calls
    None

ASSUME RolloutAssumption ==
    /\ Git \in [Refs -> SUBSET Targets]
    /\ MaxFails \in Nat
    /\ None \notin Refs

VARIABLES
    ref,            \* spec.ref of the Rollout, None when there is no Rollout
    skip,           \* its spec.skipUnavailableTarget: the Workspace sets it, an
                    \* operator may edit it
    deleting,       \* its deletionTimestamp is set
    finalizer,      \* its finalizer is there
    cond,           \* its Ready condition
    wake,           \* the Rollout is in the controller's queue
    ownerWake,      \* its owner, the Workspace, is in the queue of its controller
    configs,        \* [Targets -> the target's Config in the API server]
    pc,             \* where Reconcile is
    goal,           \* the reference and the deletion that Reconcile read
    update, delete, \* newTargetUpdateConfigStore, newTargetDeleteConfigStore
    todo,           \* targets the current loop has not reached
    worker,         \* [Targets -> the goroutine that applies to the target]
    status,         \* [Targets -> targetStatus]
    failed,         \* errChan, or the joined errors of ConfirmTargets, has an error
    expired,        \* the transaction's context is done
    open,           \* targets whose data-server holds an unconfirmed transaction
    stray,          \* targets with a TransactionSet under way that nobody waits for
    fails           \* failing API and git calls so far

rolloutVars == <<ref, skip, deleting, finalizer, cond>>
txVars == <<goal, update, delete, todo, worker, status, failed, expired>>
dsVars == <<open, stray>>
rvars == <<rolloutVars, wake, ownerWake, configs, pc, txVars, dsVars, fails>>

\* A Config that is going has its deletionTimestamp and the Transactor's finalizer.
ConfigState == {"none", "there", "going"}

Worker == {"none", "spawned", "rpc", "ok", "err", "done"}
Status == {"none", "unavailable", "failed", "applied", "unknown", "cancelled",
           "cancelFailed", "confirmed", "confirmFailed"}

RolloutTypeOK ==
    /\ ref \in Refs \union {None}
    /\ skip \in BOOLEAN /\ deleting \in BOOLEAN /\ finalizer \in BOOLEAN
    /\ cond \in {"none", "rolling", "failed", "ready"}
    /\ wake \in BOOLEAN /\ ownerWake \in BOOLEAN
    /\ configs \in [Targets -> ConfigState]
    /\ pc \in {"idle", "launch", "run", "rollback", "confirm", "api", "finalizer"}
    /\ goal \in [ref : Refs \union {None}, deleting : BOOLEAN]
    /\ update \subseteq Targets /\ delete \subseteq Targets \ update
    /\ todo \subseteq update \union delete
    /\ worker \in [Targets -> Worker] /\ status \in [Targets -> Status]
    /\ failed \in BOOLEAN /\ expired \in BOOLEAN
    /\ open \subseteq Targets /\ stray \subseteq Targets
    /\ fails \in 0..MaxFails

NoGoal == [ref |-> None, deleting |-> FALSE]

RolloutInit ==
    /\ ref = None /\ skip \in BOOLEAN /\ deleting = FALSE /\ finalizer = FALSE /\ cond = "none"
    /\ wake = FALSE /\ ownerWake = FALSE
    /\ configs = [t \in Targets |-> "none"]
    /\ pc = "idle" /\ goal = NoGoal
    /\ update = {} /\ delete = {} /\ todo = {}
    /\ worker = [t \in Targets |-> "none"] /\ status = [t \in Targets |-> "none"]
    /\ failed = FALSE /\ expired = FALSE
    /\ open = {} /\ stray = {}
    /\ fails = 0

\* transactionManager.targets
Involved == update \union delete

\* The targets with a Config in the API server, one that is going included.
Existing == {t \in Targets : configs[t] # "none"}

\* A call that fails is counted.
Counted(ok) == IF ok THEN UNCHANGED fails ELSE fails < MaxFails /\ fails' = fails + 1

-----------------------------------------------------------------------------
(* Reconcile. *)

\* Reconcile returns.  Goroutines still at work lose their waiter and their
\* context, but a call that was sent may still reach the data-server.
Reset ==
    /\ pc' = "idle" /\ goal' = NoGoal
    /\ update' = {} /\ delete' = {} /\ todo' = {}
    /\ worker' = [t \in Targets |-> "none"]
    /\ status' = [t \in Targets |-> "none"]
    /\ failed' = FALSE /\ expired' = FALSE
    /\ stray' = stray \union {t \in Targets : worker[t] = "rpc"}

\* handleStatus and the return of Reconcile.  Errors are not returned: only
\* requeue brings the Rollout back, the controller ignores status changes
\* (GenerationChangedPredicate).  The one exception is the write of the status: if
\* it fails the condition stays what it was and the Rollout is requeued.
Return(condition, requeue, saved) ==
    /\ cond' = IF saved THEN condition ELSE cond
    /\ wake' = (wake \/ requeue \/ ~saved)
    /\ Reset

\* A call before the transaction fails: finalizer, git or list.
ReconcileFails ==
    /\ pc = "idle" /\ wake /\ ref # None
    /\ Counted(FALSE)
    /\ finalizer' \in {finalizer, TRUE}
    /\ \E saved \in BOOLEAN : Return("rolling", TRUE, saved)
    /\ UNCHANGED <<ref, skip, deleting, ownerWake, configs, open>>

\* The Configs of the reference (none when deleting), and every other Config of
\* the API server as the ones to delete (getToBeDeletedconfigs).
Reconcile ==
    /\ pc = "idle" /\ wake /\ ref # None
    /\ wake' = FALSE
    /\ finalizer' = TRUE
    /\ goal' = [ref |-> ref, deleting |-> deleting]
    /\ update' = IF deleting THEN {} ELSE Git[ref]
    /\ delete' = Existing \ update'
    /\ todo' = update' \union delete'
    /\ pc' = "launch"
    /\ UNCHANGED <<ref, skip, deleting, cond, ownerWake, configs,
                   worker, status, failed, expired, dsVars, fails>>

\* The key is in the queue but the Rollout is gone.
ReconcileGone ==
    /\ pc = "idle" /\ wake /\ ref = None
    /\ wake' = FALSE
    /\ UNCHANGED <<rolloutVars, ownerWake, configs, pc, txVars, dsVars, fails>>

\* Reconcile after a transaction that failed.
ReturnFailed ==
    \E saved \in BOOLEAN :
        /\ Counted(saved)
        /\ Return(IF goal.deleting THEN "rolling" ELSE "failed", FALSE, saved)

-----------------------------------------------------------------------------
(* TransactToAllTargets. *)

\* One turn of the launch loop: the target is there and Ready, or it is not.  An
\* unavailable target aborts the transaction if the flag is set, and is left out
\* if it is not.
LaunchWorker(t) ==
    /\ pc = "launch" /\ t \in todo 
    /\ todo' = todo \ {t}
    /\ worker' = [worker EXCEPT ![t] = "spawned"]
    /\ UNCHANGED <<rolloutVars, wake, ownerWake, configs, pc, goal, update, delete,
                   status, failed, expired, dsVars, fails>>

LeaveOut(t) ==
    /\ pc = "launch" /\ t \in todo /\ ~skip
    /\ todo' = todo \ {t}
    /\ status' = [status EXCEPT ![t] = "unavailable"]
    /\ UNCHANGED <<rolloutVars, wake, ownerWake, configs, pc, goal, update, delete,
                   worker, failed, expired, dsVars, fails>>

Abort(t) ==
    /\ pc = "launch" /\ t \in todo /\ skip
    /\ ReturnFailed
    /\ UNCHANGED <<ref, skip, deleting, finalizer, ownerWake, configs, open>>

Launched ==
    /\ pc = "launch" /\ todo = {}
    /\ pc' = "run"
    /\ UNCHANGED <<rolloutVars, wake, ownerWake, configs, txVars, dsVars, fails>>

\* The goroutine starts: with the context done it reports a failure (in the
\* status, not on errChan), otherwise it calls TransactionSet.
WorkerStart(t) ==
    /\ worker[t] = "spawned"
    /\ worker' = [worker EXCEPT ![t] = IF expired THEN "done" ELSE "rpc"]
    /\ status' = [status EXCEPT ![t] = IF expired THEN "failed" ELSE @]
    /\ UNCHANGED <<rolloutVars, wake, ownerWake, configs, pc, goal, update, delete,
                   todo, failed, expired, dsVars, fails>>

\* The data-server answers: it opens a transaction, or refuses (it does when one
\* is open already).
TransactionSet(t) ==
    /\ worker[t] = "rpc"
    /\ \/ /\ t \notin open
          /\ open' = open \union {t}
          /\ worker' = [worker EXCEPT ![t] = "ok"]
       \/ /\ worker' = [worker EXCEPT ![t] = "err"]
          /\ UNCHANGED open
    /\ UNCHANGED <<rolloutVars, wake, ownerWake, configs, pc, goal, update, delete,
                   todo, status, failed, expired, stray, fails>>

\* applyConfigToTarget returns with the answer, or with the target's or the
\* global timeout: select picks either when both are there.
WorkerReturns(t, timedOut) ==
    /\ worker[t] \in {"ok", "err"} \/ (timedOut /\ worker[t] = "rpc")
    /\ worker' = [worker EXCEPT ![t] = "done"]
    /\ IF worker[t] = "ok" /\ ~timedOut
       THEN /\ status' = [status EXCEPT ![t] = "applied"]
            /\ UNCHANGED failed
       ELSE /\ status' = [status EXCEPT ![t] = "failed"]
            /\ failed' = TRUE
    /\ stray' = IF worker[t] = "rpc" THEN stray \union {t} ELSE stray
    /\ UNCHANGED <<rolloutVars, wake, ownerWake, configs, pc, goal, update, delete,
                   todo, expired, open, fails>>

\* A call that nobody waits for any more reaches the data-server, or is lost.
LateSet(t) ==
    /\ t \in stray
    /\ stray' = stray \ {t}
    /\ open' \in {open, open \union {t}}
    /\ UNCHANGED <<rolloutVars, wake, ownerWake, configs, pc, txVars, fails>>

\* The global timeout.
Expire ==
    /\ pc \in {"launch", "run", "rollback", "confirm"} /\ ~expired
    /\ expired' = TRUE
    /\ UNCHANGED <<rolloutVars, wake, ownerWake, configs, pc, goal, update, delete,
                   todo, worker, status, failed, dsVars, fails>>

\* Mutant: only done is waited for.
WaitEndsWhenDone(timedOut) ==
    /\ pc = "run" /\ ~timedOut
    /\ \A t \in Targets : worker[t] \in {"none", "done"}
    /\ pc' = IF failed THEN "rollback" ELSE "confirm"
    /\ todo' = Involved
    /\ UNCHANGED <<rolloutVars, wake, ownerWake, configs, goal, update, delete,
                   worker, status, failed, expired, dsVars, fails>>

\* select on done and ctx.Done: all goroutines ended, or the context did.
WaitEnds(timedOut) ==
    /\ pc = "run"
    /\ IF timedOut THEN expired ELSE \A t \in Targets : worker[t] \in {"none", "done"}
    /\ pc' = IF timedOut \/ failed THEN "rollback" ELSE "confirm"
    /\ todo' = Involved
    /\ UNCHANGED <<rolloutVars, wake, ownerWake, configs, goal, update, delete,
                   worker, status, failed, expired, dsVars, fails>>

\* cancel: a call under a context that is done is not sent; one that timed out
\* may have been executed.
RollbackTarget(t) ==
    /\ pc = "rollback" /\ t \in todo
    /\ todo' = todo \ {t}
    /\ \/ /\ status[t] = "none"
          /\ status' = [status EXCEPT ![t] = "unknown"]
          /\ UNCHANGED open
       \/ /\ status[t] = "applied"
          /\ \E answered \in BOOLEAN, executed \in BOOLEAN :
                /\ executed => ~expired
                /\ answered => executed
                /\ open' = IF executed THEN open \ {t} ELSE open
                /\ status' = [status EXCEPT ![t] =
                                IF answered THEN "cancelled" ELSE "cancelFailed"]
       \/ /\ status[t] \notin {"none", "applied"}
          /\ UNCHANGED <<status, open>>
    /\ UNCHANGED <<rolloutVars, wake, ownerWake, configs, pc, goal, update, delete,
                   worker, failed, expired, stray, fails>>

RolledBack ==
    /\ pc = "rollback" /\ todo = {}
    /\ ReturnFailed
    /\ UNCHANGED <<ref, skip, deleting, finalizer, ownerWake, configs, open>>

\* Mutant: the context is not passed to the confirmation.
ConfirmTargetAnyway(t) ==
    /\ pc = "confirm" /\ t \in todo
    /\ todo' = todo \ {t}
    /\ open' = open \ {t}
    /\ status' = [status EXCEPT ![t] = IF @ = "applied" THEN "confirmed" ELSE @]
    /\ UNCHANGED <<rolloutVars, wake, ownerWake, configs, pc, goal, update, delete,
                   worker, failed, expired, stray, fails>>

\* Mutant: a confirmation is sent under a context that is done.
ConfirmTargetLate(t) ==
    /\ pc = "confirm" /\ t \in todo
    /\ todo' = todo \ {t}
    /\ IF status[t] = "applied"
       THEN \E answered \in BOOLEAN, executed \in BOOLEAN :
                /\ executed => t \in open
                /\ answered => executed /\ ~expired
                /\ open' = IF executed THEN open \ {t} ELSE open
                /\ status' = [status EXCEPT ![t] =
                                IF answered THEN "confirmed" ELSE "confirmFailed"]
                /\ failed' = (failed \/ ~answered)
       ELSE UNCHANGED <<status, failed, open>>
    /\ UNCHANGED <<rolloutVars, wake, ownerWake, configs, pc, goal, update, delete,
                   worker, expired, stray, fails>>

\* confirm: the data-server can only confirm what is still open.
ConfirmTarget(t) ==
    /\ pc = "confirm" /\ t \in todo
    /\ todo' = todo \ {t}
    /\ IF status[t] = "applied"
       THEN \E answered \in BOOLEAN, executed \in BOOLEAN :
                /\ executed => ~expired /\ t \in open
                /\ answered => executed
                /\ open' = IF executed THEN open \ {t} ELSE open
                /\ status' = [status EXCEPT ![t] =
                                IF answered THEN "confirmed" ELSE "confirmFailed"]
                /\ failed' = (failed \/ ~answered)
       ELSE UNCHANGED <<status, failed, open>>
    /\ UNCHANGED <<rolloutVars, wake, ownerWake, configs, pc, goal, update, delete,
                   worker, expired, stray, fails>>

Confirmed ==
    /\ pc = "confirm" /\ todo = {}
    /\ IF failed
       THEN /\ ReturnFailed
            /\ UNCHANGED <<ref, skip, deleting, finalizer, ownerWake, configs, open>>
       ELSE /\ pc' = "api"
            /\ UNCHANGED <<rolloutVars, wake, ownerWake, configs, txVars,
                           dsVars, fails>>

-----------------------------------------------------------------------------
(* After the transaction. *)

\* The Configs after the writes of updateConfigFromAPIServer that do not fail.  The
\* Transactor puts its finalizer on a Config before it transacts it: a Delete of
\* one in held, or of one that is going, only stamps it.
WrittenConfigs(bad, held) ==
    [t \in Targets |->
        CASE t \in update \ bad /\ configs[t] = "none" -> "there"
          [] t \in delete \ bad /\ configs[t] = "there" ->
                IF t \in held THEN "going" ELSE "none"
          [] OTHER -> configs[t]]

\* Writes the API server refuses: a Config that exists cannot be created, also one
\* that is going, and one that is gone cannot be deleted.
Refused == (update \intersect Existing) \union (delete \ Existing)

\* Mutant: an error of a write to the API server is only logged.
UpdateConfigsAnyway ==
    /\ pc = "api"
    /\ \E bad \in SUBSET Involved, held \in SUBSET delete, saved \in BOOLEAN :
        /\ Counted(bad = {} /\ saved)
        /\ configs' = WrittenConfigs(bad, held)
        /\ IF goal.deleting
           THEN /\ pc' = "finalizer"
                /\ UNCHANGED <<cond, wake, txVars, stray>>
           ELSE Return("ready", FALSE, saved)
    /\ UNCHANGED <<ref, skip, deleting, finalizer, ownerWake, open>>

\* updateConfigFromAPIServer: every Config of the reference is created and every
\* other one deleted; bad are the writes that fail.
UpdateConfigs ==
    /\ pc = "api"
    /\ \E bad \in SUBSET Involved, held \in SUBSET delete, saved \in BOOLEAN :
        /\ Counted(bad = {} /\ saved)
        /\ configs' = WrittenConfigs(bad, held)
        /\ \/ /\ bad \union Refused # {}
              /\ Return("rolling", TRUE, saved)
           \/ /\ bad \union Refused = {} /\ ~goal.deleting
              /\ Return("ready", FALSE, saved)
           \/ /\ bad \union Refused = {} /\ goal.deleting /\ saved
              /\ pc' = "finalizer"
              /\ UNCHANGED <<cond, wake, txVars, stray>>
    /\ UNCHANGED <<ref, skip, deleting, finalizer, ownerWake, open>>

\* The Configs were asked to go: the Rollout loses its finalizer and goes, and its
\* owner hears of it.
RemoveFinalizer ==
    /\ pc = "finalizer"
    /\ \/ /\ ref' = None /\ deleting' = FALSE /\ finalizer' = FALSE
          /\ ownerWake' = TRUE
          /\ Return("none", FALSE, TRUE)
          /\ UNCHANGED fails
       \/ /\ Counted(FALSE)
          /\ \E saved \in BOOLEAN : Return("rolling", TRUE, saved)
          /\ UNCHANGED <<ref, deleting, finalizer, ownerWake>>
    /\ UNCHANGED <<skip, configs, open>>

-----------------------------------------------------------------------------
(* The data-server and the process. *)

\* The data-server rolls a transaction back that was not confirmed in time.  A
\* confirmation or a rollback that arrives after its caller gave up looks the same
\* from here.
DataServerTimeout(t) ==
    /\ t \in open
    /\ open' = open \ {t}
    /\ UNCHANGED <<rolloutVars, wake, ownerWake, configs, pc, txVars, stray, fails>>

\* The Transactor takes its finalizer away once the device no longer has the
\* Config, and the Config goes.
ReleaseConfig(t) ==
    /\ configs[t] = "going"
    /\ configs' = [configs EXCEPT ![t] = "none"]
    /\ UNCHANGED <<rolloutVars, wake, ownerWake, pc, txVars, dsVars, fails>>

\* The controller process restarts: every object is queued again.
Restart ==
    /\ Counted(FALSE)
    /\ Reset
    /\ wake' = TRUE /\ ownerWake' = TRUE
    /\ UNCHANGED <<rolloutVars, configs, open>>

\* What Reconcile and its goroutines do by themselves.
TransactionStep ==
    \/ Launched \/ RolledBack \/ Confirmed \/ UpdateConfigs \/ RemoveFinalizer
    \/ \E timedOut \in BOOLEAN : WaitEnds(timedOut)
    \/ \E t \in Targets :
        \/ LaunchWorker(t) \/ LeaveOut(t) \/ Abort(t)
        \/ RollbackTarget(t) \/ ConfirmTarget(t)

RolloutNext ==
    \/ ReconcileFails \/ Reconcile \/ ReconcileGone \/ Expire \/ Restart \/ TransactionStep
    \/ \E t \in Targets :
        \/ WorkerStart(t) \/ TransactionSet(t)
        \/ \E timedOut \in BOOLEAN : WorkerReturns(t, timedOut)
        \/ LateSet(t) \/ DataServerTimeout(t) \/ ReleaseConfig(t)

\* Reconcile goes on whenever it can and its timers fire.  A data-server need
\* not answer.
RolloutFairness ==
    /\ WF_rvars(Reconcile) /\ WF_rvars(ReconcileGone)
    /\ WF_rvars(TransactionStep) /\ WF_rvars(Expire)

-----------------------------------------------------------------------------
(* Properties. *)

\* The transaction is network-wide: no target is confirmed while another one
\* that takes part failed, is unknown or was never reached.  A goroutine that
\* finds the context done reports its failure only in the status, so that the
\* confirmation is entered; it is the context that keeps it from confirming.
ConfirmedTogether ==
    (\E t \in Targets : status[t] = "confirmed") =>
        \A t \in Involved : status[t] \in {"applied", "confirmed", "confirmFailed"}
                                \union (IF skip THEN {} ELSE {"unavailable"})

\* A Rollout becomes Ready only with every Config of its reference in the API
\* server, every other one gone or asked to go (the Transactor's finalizer may
\* still keep it) and, unless the global timeout struck, with every target that
\* took part confirmed.
ReadyIsComplete ==
    [][cond # "ready" /\ cond' = "ready" =>
        /\ \A t \in Targets : configs'[t] = "there" <=> t \in Git[goal.ref]
        /\ expired \/ \A t \in Involved : status[t] \in {"confirmed", "unavailable"}]_rvars

\* What the status of a target means for the transaction.
NetOf(s) ==
    CASE s \in {"none", "unknown"} -> "none"
      [] s = "unavailable" -> "out"
      [] s = "failed" -> "failed"
      [] s = "applied" -> "prepared"
      [] s \in {"cancelled", "cancelFailed"} -> "undone"
      [] s = "confirmed" -> "committed"
      [] s = "confirmFailed" -> "unsure"

NetState == [t \in Targets |-> NetOf(status[t])]

Net == INSTANCE NetworkCommit WITH members <- Involved, state <- NetState, held <- open

\* TransactToAllTargets is an atomic commit over the targets that take part: the
\* data-server executes a confirmation only when all of them accepted, also one
\* whose answer is lost, and confirmations and rollbacks exclude each other.
ImplementsCommit == Net!NSpec

\* Whatever the data-server answers or fails to answer, a transaction ends.
TransactionEnds == pc # "idle" ~> pc = "idle"
=============================================================================
