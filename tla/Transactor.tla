----------------------------- MODULE Transactor -----------------------------
(***************************************************************************)
(* The Configs of one target and the transactions that bring them to its   *)
(* datastore: the reconciler pkg/reconcilers/targetconfig/reconciler.go    *)
(* and pkg/sdc/target/manager/transactor.go.                               *)
(*                                                                         *)
(* A pass of the reconciler lists the Configs, sends one TransactionSet    *)
(* with all that is to be updated or deleted, confirms it and then writes  *)
(* finalizers and statuses, object by object.  Meanwhile the user creates, *)
(* edits and deletes Configs, the runtime may replay the applied configs   *)
(* into a datastore that was lost (RecoverConfigs, in the goroutine of     *)
(* module TargetRuntime), and the config-server may crash.                 *)
(*                                                                         *)
(* The data-server (external) holds a transaction open after               *)
(* TransactionSet and rolls it back when no confirm comes in time.         *)
(*                                                                         *)
(* Abstractions: a Config is its spec (a value; GetShaSum tells specs      *)
(* apart), what concerns its finalizer, and its status; messages, the      *)
(* schema, priorities and Deviation objects are left out.  The cache the   *)
(* client reads from is current at the moment of the read.                 *)
(***************************************************************************)
EXTENDS Naturals

CONSTANTS
  Names,      \* the Configs that name this target
  Specs,      \* their possible contents
  None,       \* no Config, no applied config, no intent
  MaxEdits,   \* bound: changes the user makes
  MaxFails,   \* bound: failed RPCs and API calls
  MaxResets   \* bound: losses of the datastore, crashes, requests to clear

Value == Specs \cup {None}
(* gen is metadata.generation; cond and obsGen are the ConfigReady condition,
   ready the Ready condition, devGen whether deviationGeneration is set. *)
Config ==
  [spec : Specs, gen : Nat, deleting : BOOLEAN, fin : BOOLEAN,
   applied : Value, cond : {"none", "Ready", "Failed", "Unrecoverable"},
   obsGen : Nat, ready : {"none", "False", "True"},
   devGen : BOOLEAN]

ASSUME TransactorAssumption ==
  /\ None \notin Specs \cup Names \cup Config
  /\ MaxEdits \in Nat /\ MaxFails \in Nat /\ MaxResets \in Nat

VARIABLES
  configs,    \* the Config objects in the API server
  store,      \* external: the intents in the target's datastore
  tx, backup, \* external: whose transaction is open; what its rollback restores
  runtime,    \* the target's runtime: "up" when GetDatastore hands it out, else
              \* how far RecoverConfigs is; "Ready" or "Failed": what it tells
  replay,     \* RecoverConfigs: the applied configs it listed
  copies,     \* setRecoveredConfigs: the Configs it listed and is still to write
  rec,        \* where the targetconfig Reconcile is
  snap,       \* the copies of the Configs it listed
  upd, del,   \* configsToUpdate, configsToDelete
  left, cur,  \* the loop over them: what is left, the one in between
  mark,       \* the failure processFailedConfig records
  outcome,    \* how Reconcile ends: "ok", "retry", "stop", "blocked"
  queued,     \* a request for the target: queued, in backoff or RequeueAfter
  torn,       \* ghost: Configs whose statuses came apart from the datastore
  edits, fails, resets

envVars == <<edits, fails, resets>>
serverVars == <<store, tx, backup>>
runtimeVars == <<runtime, replay, copies>>
passVars == <<snap, upd, del, left, cur, mark, outcome>>
txVars == <<configs, serverVars, runtimeVars, rec, passVars, queued, torn,
            envVars>>

Present(objs) == {c \in Names : objs[c] # None}

(* What Configs, the transaction and a pass may hold; a replay is made of
   applied configs, not of Configs. *)
TxTypeOK ==
  /\ configs \in [Names -> Config \cup {None}]
  /\ store \in [Names -> Value] /\ backup \in [Names -> Value]
  /\ tx \in {"none", "pass", "clear", "recovery"}
  /\ runtime \in {"down", "listed", "set", "Ready", "Failed", "up"}
  /\ replay \in [Names -> Value] /\ copies \in [Names -> Config \cup {None}]
  /\ rec \in {"idle", "set", "confirm", "update", "delete", "fail", "ready"}
  /\ snap \in [Names -> Config \cup {None}]
  /\ upd \in SUBSET Names /\ del \in SUBSET Names /\ left \in SUBSET Names
  /\ cur \in Names \cup {None}
  /\ mark \in {"Failed", "Unrecoverable"}
  /\ outcome \in {"ok", "retry", "stop", "blocked"}
  /\ queued \in BOOLEAN
  /\ torn \in SUBSET Names
  /\ edits \in 0 .. MaxEdits /\ fails \in 0 .. MaxFails
  /\ resets \in 0 .. MaxResets

NoConfigs == [c \in Names |-> None]

(* A Config as its user creates it. *)
NewConfig(s) ==
  [spec |-> s, gen |-> 1, deleting |-> FALSE, fin |-> FALSE, applied |-> None,
   cond |-> "none", obsGen |-> 0, ready |-> "none", devGen |-> FALSE]

(* The target has its runtime, and Configs that nobody has seen yet. *)
TxInit ==
  /\ configs \in [Names -> {None} \cup {NewConfig(s) : s \in Specs}]
  /\ store = NoConfigs /\ tx = "none" /\ backup = NoConfigs
  /\ runtime = "up" /\ replay = NoConfigs /\ copies = NoConfigs
  /\ rec = "idle"
  /\ snap = NoConfigs /\ upd = {} /\ del = {} /\ left = {} /\ cur = None
  /\ mark = "Failed" /\ outcome = "ok"
  /\ queued = TRUE
  /\ torn = {}
  /\ edits = 0 /\ fails = 0 /\ resets = 0

(* Write a Config.  The event of a change is a request for the target
   (ConfigForTargetEventHandler). *)
Event == queued \/ configs' # configs

Write(objs) == configs' = objs /\ queued' = Event

InFlight == rec \in {"set", "confirm", "update", "delete"}

Fails == fails < MaxFails /\ fails' = fails + 1

----------------------------------------------------------------------------
(* The user. *)

Edit(objs) ==
  /\ edits < MaxEdits /\ edits' = edits + 1
  /\ Write(objs)
  /\ UNCHANGED <<serverVars, runtimeVars, rec, passVars, fails, resets>>

CreateConfig(c, s) ==
  /\ configs[c] = None
  /\ Edit([configs EXCEPT ![c] = NewConfig(s)])
  /\ UNCHANGED torn

(* setNextGeneration: a changed spec is a new generation. *)
UpdateConfig(c, s) ==
  /\ configs[c] # None /\ ~configs[c].deleting /\ configs[c].spec # s
  /\ Edit([configs EXCEPT ![c].spec = s, ![c].gen = @ + 1])
  /\ UNCHANGED torn

(* A Config without finalizer goes at once, be it in a transaction or not. *)
DeleteConfig(c) ==
  /\ configs[c] # None /\ ~configs[c].deleting
  /\ IF configs[c].fin
       THEN /\ Edit([configs EXCEPT ![c].deleting = TRUE, ![c].gen = @ + 1])
            /\ UNCHANGED torn
       ELSE /\ Edit([configs EXCEPT ![c] = None])
            /\ torn' = IF InFlight /\ c \in upd THEN torn \cup {c} ELSE torn

----------------------------------------------------------------------------
(* The end of a pass. *)

Done(request) ==
  /\ rec' = "idle"
  /\ queued' = request
  /\ snap' = NoConfigs /\ upd' = {} /\ del' = {} /\ left' = {} /\ cur' = None
  /\ mark' = "Failed" /\ outcome' = "ok"

(* The Ready condition of a listed copy: ReadyFromApplied, or not Ready for the
   target's sake while it blocks. *)
ShownReady(o, obj) == IF o # "blocked" /\ obj.cond = "Ready" THEN "True" ELSE "False"

(* Mutant: a pass that succeeded is requeued too. *)
AgainAlways(o) == {o # "stop"}

(* A target whose runtime blocks is polled; one that is not Ready is not, its
   status change is a request. *)
Again(o) == IF o = "blocked" THEN BOOLEAN ELSE {o = "retry"}

(* updateConfigsForTarget lists the Configs, then writes one after the other
   from that list (setConfigsReadyFromApplied, setConfigsNotReady): those that
   applyStatus finds changed.  Then Reconcile returns. *)
ReadyLoop(o, request) ==
  LET stale == {c \in Present(configs) :
                  \/ configs[c].ready # ShownReady(o, configs[c])
                  \/ configs[c].devGen}
  IN IF stale = {}
       THEN \E again \in Again(o) : Done(request \/ again)
       ELSE /\ rec' = "ready"
            /\ snap' = configs /\ left' = stale
            /\ outcome' = o
            /\ upd' = {} /\ del' = {} /\ cur' = None /\ mark' = "Failed"
            /\ queued' = request

(* Mutant: the error is swallowed. *)
TransactErrsSilently(confirmed) ==
  /\ ReadyLoop("ok", queued)
  /\ torn' = IF confirmed THEN torn \cup upd \cup del ELSE torn

(* Transact returned a retryable error.  With its transaction confirmed, the
   statuses do not tell what the datastore holds. *)
TransactErrs(confirmed) ==
  /\ ReadyLoop("retry", queued)
  /\ torn' = IF confirmed THEN torn \cup upd \cup del ELSE torn

(* One turn of updateConfigsForTarget.  applyStatus sends the whole status of
   the listed copy; a Config that is gone is an error. *)
UpdateConfigForTarget(c) ==
  /\ rec = "ready" /\ c \in left
  /\ IF configs[c] = None
       THEN /\ Done(TRUE)
            /\ UNCHANGED configs
       ELSE /\ configs' = [configs EXCEPT
                             ![c].applied = snap[c].applied,
                             ![c].cond = snap[c].cond,
                             ![c].obsGen = snap[c].obsGen,
                             ![c].ready = ShownReady(outcome, snap[c]),
                             ![c].devGen = FALSE]
            /\ IF left = {c}
                 THEN \E again \in Again(outcome) : Done(Event \/ again)
                 ELSE /\ left' = left \ {c}
                      /\ queued' = Event
                      /\ UNCHANGED <<rec, snap, upd, del, cur, mark, outcome>>
  /\ UNCHANGED <<serverVars, runtimeVars, torn, envVars>>

(* An API call of the pass fails: Transact returns a retryable error, or
   Reconcile does. *)
ApiCallFails ==
  /\ Fails
  /\ \/ /\ rec \in {"update", "delete", "fail"}
        /\ TransactErrs(rec # "fail")
     \/ /\ rec = "ready"
        /\ Done(TRUE)
        /\ UNCHANGED torn
  /\ UNCHANGED <<configs, serverVars, runtimeVars, edits, resets>>

----------------------------------------------------------------------------
(* Reconcile: the target blocks, or Transact. *)

ReconcileBlocked ==
  /\ rec = "idle" /\ queued /\ runtime # "up"
  /\ ReadyLoop("blocked", FALSE)
  /\ UNCHANGED <<configs, serverVars, runtimeVars, torn, envVars>>

IsRecoverable(o) == o.cond # "Unrecoverable" \/ o.obsGen # o.gen

(* getConfigsToTransact: what changed; with any change, everything. *)
NoChange(o) == o.cond = "Ready" /\ o.applied = o.spec
Changed(objs) ==
  {c \in Present(objs) :
     IsRecoverable(objs[c]) /\ (objs[c].deleting \/ ~NoChange(objs[c]))}
configsToDelete(objs) ==
  {c \in Present(objs) : Changed(objs) # {} /\ objs[c].deleting}
configsToUpdate(objs) ==
  {c \in Present(objs) : Changed(objs) # {} /\ ~objs[c].deleting}

(* Transact up to its RPC: list, then nothing to do or a transaction. *)
Transact ==
  /\ rec = "idle" /\ queued /\ runtime = "up"
  /\ \/ /\ Changed(configs) = {}
        /\ ReadyLoop("ok", FALSE)
        /\ UNCHANGED fails
     \/ /\ Changed(configs) # {}
        /\ rec' = "set" /\ queued' = FALSE
        /\ snap' = configs
        /\ upd' = configsToUpdate(configs) /\ del' = configsToDelete(configs)
        /\ UNCHANGED <<left, cur, mark, outcome, fails>>
     \/ /\ Fails                    \* List or applyDeviation fails
        /\ ReadyLoop("retry", FALSE)
  /\ UNCHANGED <<configs, serverVars, runtimeVars, torn, edits, resets>>

(* External: the intents the transaction leaves in the datastore. *)
Intents ==
  [c \in Names |-> IF c \in upd THEN snap[c].spec
                   ELSE IF c \in del THEN None ELSE store[c]]

ServeSet == tx' = "pass" /\ backup' = store /\ store' = Intents

(* setIntents: the data-server takes the transaction. *)
SetAccepted ==
  /\ rec = "set" /\ tx = "none"
  /\ ServeSet
  /\ rec' = "confirm"
  /\ UNCHANGED <<configs, runtimeVars, passVars, queued, torn, envVars>>

(* handleTransactionErrors: the loop over what is reported as failed. *)
FailLoop(cs, m, o) ==
  /\ rec' = "fail"
  /\ left' = cs /\ mark' = m /\ outcome' = o
  /\ UNCHANGED <<snap, upd, del, cur>>

(* Another transaction is open: Aborted, which is worth a retry. *)
SetAborted ==
  /\ rec = "set" /\ tx # "none"
  /\ FailLoop(upd \cup del, "Failed", "retry")
  /\ UNCHANGED <<configs, serverVars, runtimeVars, queued, torn, envVars>>

(* No response: an error code says whether a retry may help.  The data-server
   may have executed the transaction; it then rolls it back. *)
SetFails ==
  /\ rec = "set" /\ Fails
  /\ (tx = "none" /\ ServeSet) \/ UNCHANGED serverVars
  /\ \/ FailLoop(upd \cup del, "Failed", "retry")
     \/ FailLoop(upd \cup del, "Unrecoverable", "stop")
  /\ UNCHANGED <<configs, runtimeVars, queued, torn, edits, resets>>

(* A response with intent errors: the intents it reports are marked and
   Transact returns no error.  An intent nobody sent marks them all. *)
SetRejected ==
  /\ rec = "set" /\ Fails
  /\ \/ \E cs \in (SUBSET (upd \cup del)) \ {{}} :
          FailLoop(cs, "Unrecoverable", "ok")
     \/ FailLoop(upd \cup del, "Unrecoverable", "stop")
  /\ UNCHANGED <<configs, serverVars, runtimeVars, queued, torn, edits,
                 resets>>

(* TransactionConfirm: from here the statuses catch up with the datastore. *)
ConfirmSucceeds ==
  /\ rec = "confirm" /\ tx = "pass"
  /\ tx' = "none" /\ backup' = NoConfigs
  /\ torn' = IF runtime = "up"
               THEN torn \ ((upd \cup del) \cap Present(configs))
               ELSE torn
  /\ rec' = "update" /\ left' = upd
  /\ UNCHANGED <<configs, store, runtimeVars, snap, upd, del, cur, mark,
                 outcome, queued, envVars>>

(* The answer is lost, or the transaction was rolled back before. *)
ConfirmFails ==
  /\ rec = "confirm"
  /\ IF tx = "pass" THEN Fails ELSE UNCHANGED fails
  /\ \/ /\ tx = "pass"
        /\ tx' = "none" /\ backup' = NoConfigs
        /\ TransactErrs(TRUE)
     \/ /\ UNCHANGED <<tx, backup>>
        /\ TransactErrs(FALSE)
  /\ UNCHANGED <<configs, store, runtimeVars, edits, resets>>

(* Mutant: the finalizer is set on the failed Configs only. *)
ApplyFinalizerOnFailure(c) ==
  /\ rec \in {"update", "fail"} /\ cur = None /\ c \in left
  /\ IF configs[c] = None
       THEN /\ TransactErrs(rec = "update")
            /\ UNCHANGED configs
       ELSE /\ Write([configs EXCEPT ![c].fin = @ \/ rec = "fail"])
            /\ cur' = c
            /\ UNCHANGED <<rec, snap, upd, del, left, mark, outcome, torn>>
  /\ UNCHANGED <<serverVars, runtimeVars, envVars>>

(* applyFinalizer on each Config of the loop; one that is gone is an error. *)
ApplyFinalizer(c) ==
  /\ rec \in {"update", "fail"} /\ cur = None /\ c \in left
  /\ IF configs[c] = None
       THEN /\ TransactErrs(rec = "update")
            /\ UNCHANGED configs
       ELSE /\ Write([configs EXCEPT ![c].fin = TRUE])
            /\ cur' = c
            /\ UNCHANGED <<rec, snap, upd, del, left, mark, outcome, torn>>
  /\ UNCHANGED <<serverVars, runtimeVars, envVars>>

(* The status write of the loop: the Config is read again, one that is being
   deleted is skipped. *)
WriteStatus(in, obj) ==
  /\ rec = in /\ cur # None
  /\ IF configs[cur] = None
       THEN /\ TransactErrs(in = "update")
            /\ UNCHANGED configs
       ELSE /\ Write(IF configs[cur].deleting
                       THEN configs
                       ELSE [configs EXCEPT ![cur] = obj])
            /\ left' = left \ {cur} /\ cur' = None
            /\ UNCHANGED <<rec, snap, upd, del, mark, outcome, torn>>
  /\ UNCHANGED <<serverVars, runtimeVars, envVars>>

(* Mutant: the spec read now is recorded as the applied one. *)
updateConfigWithSuccessOfNow ==
  WriteStatus("update",
    [configs[cur] EXCEPT !.cond = "Ready", !.obsGen = @, !.ready = "True",
                         !.devGen = FALSE, !.applied = configs[cur].spec])

(* The generation and the spec that were transacted, not the ones read now. *)
updateConfigWithSuccess ==
  WriteStatus("update",
    [configs[cur] EXCEPT !.cond = "Ready", !.obsGen = snap[cur].gen, !.ready = "True",
                         !.devGen = FALSE, !.applied = snap[cur].spec])

updateConfigWithError ==
  WriteStatus("fail",
    [configs[cur] EXCEPT !.cond = mark, !.obsGen = snap[cur].gen, !.ready = "False",
                         !.devGen = (mark = "Unrecoverable")])

(* deleteFinalizer: the deleting Config goes, and its Deviation with it. *)
DeleteFinalizer(c) ==
  /\ rec = "delete" /\ c \in left
  /\ Write([configs EXCEPT ![c] = None])
  /\ left' = left \ {c}
  /\ UNCHANGED <<serverVars, runtimeVars, rec, snap, upd, del, cur, mark,
                 outcome, torn, envVars>>

(* configsToDelete follows configsToUpdate; then Transact returns, and what it
   returns decides how Reconcile goes on. *)
LoopEnds ==
  /\ rec \in {"update", "delete", "fail"} /\ cur = None /\ left = {}
  /\ \/ /\ rec = "update" /\ del # {}
        /\ rec' = "delete" /\ left' = del
        /\ UNCHANGED <<snap, upd, del, cur, mark, outcome, queued>>
     \/ /\ rec = "delete" \/ (rec = "update" /\ del = {})
        /\ ReadyLoop("ok", queued)
     \/ rec = "fail" /\ outcome # "stop" /\ ReadyLoop(outcome, queued)
     \/ rec = "fail" /\ outcome = "stop" /\ Done(queued)
  /\ UNCHANGED <<configs, serverVars, runtimeVars, torn, envVars>>

Reconcile ==
  \/ ReconcileBlocked \/ Transact
  \/ SetAccepted \/ SetAborted \/ SetFails \/ SetRejected
  \/ ConfirmSucceeds \/ ConfirmFails
  \/ \E c \in Names : ApplyFinalizer(c) \/ DeleteFinalizer(c)
                      \/ UpdateConfigForTarget(c)
  \/ updateConfigWithSuccess \/ updateConfigWithError
  \/ LoopEnds

----------------------------------------------------------------------------
(* The datastore is lost and recovered. *)

(* Its TransactionConfirm is under way. *)
Confirming == (tx = "pass" /\ rec = "confirm") \/ (tx = "recovery" /\ runtime = "set")

(* External: the transaction's timeout; ahead of its confirm it is a failure. *)
Rollback ==
  /\ tx # "none"
  /\ IF Confirming THEN Fails ELSE UNCHANGED fails
  /\ tx' = "none" /\ store' = backup /\ backup' = NoConfigs
  /\ UNCHANGED <<configs, runtimeVars, rec, passVars, queued, torn,
                 edits, resets>>

Resets == resets < MaxResets /\ resets' = resets + 1

RuntimeDown == runtime' = "down" /\ replay' = NoConfigs /\ copies' = NoConfigs

(* External: the data-server restarts empty, or the runtime makes the
   datastore anew for a changed definition. *)
StoreIsLost ==
  /\ Resets
  /\ store' = NoConfigs /\ tx' = "none" /\ backup' = NoConfigs
  /\ RuntimeDown
  /\ torn' = IF InFlight THEN torn \cup upd \cup del ELSE torn
  /\ UNCHANGED <<configs, rec, passVars, queued, edits, fails>>

(* RecoverConfigs: the Configs with an applied config, as it was applied. *)
RecoverList ==
  /\ runtime = "down"
  /\ runtime' = "listed"
  /\ replay' = [c \in Names |-> IF configs[c] = None THEN None
                                                     ELSE configs[c].applied]
  /\ UNCHANGED <<configs, serverVars, copies, rec, passVars, queued, torn, envVars>>

Replayed == [c \in Names |-> IF replay[c] = None THEN store[c] ELSE replay[c]]

ServeReplay == tx = "none" /\ tx' = "recovery" /\ backup' = store /\ store' = Replayed

(* recoverIntents: the transaction "recovery"; while another one is open it is
   refused, and tried again. *)
RecoverSet ==
  /\ runtime = "listed" /\ replay # NoConfigs
  /\ ServeReplay
  /\ runtime' = "set"
  /\ UNCHANGED <<configs, replay, copies, rec, passVars, queued, torn, envVars>>

(* setRecoveredConfigs begins: the list of the Configs with an applied config. *)
TellRecovered(m) ==
  /\ runtime' = m /\ replay' = NoConfigs
  /\ copies' = [c \in Names |-> IF configs[c] # None /\ configs[c].applied # None
                                THEN configs[c] ELSE None]

(* The replay is confirmed, or there is nothing to replay. *)
RecoverConfirm ==
  /\ \/ runtime = "set" /\ tx = "recovery" /\ tx' = "none" /\ backup' = NoConfigs
     \/ runtime = "listed" /\ replay = NoConfigs /\ UNCHANGED <<tx, backup>>
  /\ TellRecovered("Ready")
  /\ UNCHANGED <<configs, store, rec, passVars, queued, torn, envVars>>

(* The transaction was rolled back before its confirm. *)
RecoverRefused ==
  /\ runtime = "set" /\ tx # "recovery"
  /\ TellRecovered("Failed")
  /\ UNCHANGED <<configs, serverVars, rec, passVars, queued, torn, envVars>>

(* An answer of the data-server is lost, or the replay is refused; or a call to
   the API server fails, after which it all begins again. *)
RecoverFails ==
  /\ Fails
  /\ \/ /\ runtime = "listed" /\ replay # NoConfigs
        /\ ServeReplay \/ UNCHANGED serverVars
        /\ TellRecovered("Failed")
     \/ /\ runtime = "set" /\ tx = "recovery"
        /\ UNCHANGED store
        /\ \/ tx' = "none" /\ backup' = NoConfigs
           \/ UNCHANGED <<tx, backup>>
        /\ TellRecovered("Failed")
     \/ /\ runtime \in {"Ready", "Failed"}
        /\ RuntimeDown /\ UNCHANGED serverVars
  /\ UNCHANGED <<configs, rec, passVars, queued, torn, edits, resets>>

(* One turn of setRecoveredConfigs: ConfigReady at the listed generation, and with
   it the whole status of the listed copy.  What the copy says already is not
   written, unless the message differs; a Config that is gone is an error. *)
RecoverStatus(c) ==
  /\ runtime \in {"Ready", "Failed"} /\ copies[c] # None
  /\ LET copy == copies[c]
         same == copy.cond = runtime /\ copy.obsGen = copy.gen /\ ~copy.devGen
     IN  \/ /\ configs[c] # None
            /\ Write([configs EXCEPT ![c].applied = copy.applied, ![c].cond = runtime,
                                     ![c].obsGen = copy.gen, ![c].ready = copy.ready,
                                     ![c].devGen = FALSE])
            /\ copies' = [copies EXCEPT ![c] = None] /\ UNCHANGED <<runtime, replay>>
         \/ /\ same
            /\ copies' = [copies EXCEPT ![c] = None] /\ UNCHANGED <<runtime, replay>>
            /\ UNCHANGED <<configs, queued>>
         \/ /\ configs[c] = None
            /\ RuntimeDown /\ UNCHANGED <<configs, queued>>
  /\ UNCHANGED <<serverVars, rec, passVars, torn, envVars>>

(* RecoverConfigs returns.  The runtime runs, and the target becomes Ready, which
   is a request too; or the next pass of the run loop begins again. *)
RecoverEnds ==
  /\ runtime \in {"Ready", "Failed"} /\ copies = NoConfigs
  /\ \/ runtime = "Ready" /\ runtime' = "up" /\ queued' = TRUE
        /\ UNCHANGED <<replay, copies>>
     \/ runtime = "Failed" /\ RuntimeDown /\ UNCHANGED queued
  /\ UNCHANGED <<configs, serverVars, rec, passVars, torn, envVars>>

(* The config-server crashes and starts again; its informers queue a request
   and its runtime has to recover. *)
Crash ==
  /\ Resets
  /\ rec' = "idle"
  /\ snap' = NoConfigs /\ upd' = {} /\ del' = {} /\ left' = {} /\ cur' = None
  /\ mark' = "Failed" /\ outcome' = "ok"
  /\ queued' = TRUE
  /\ RuntimeDown
  /\ torn' = IF rec \in {"update", "delete"} THEN torn \cup upd \cup del ELSE torn
  /\ UNCHANGED <<configs, serverVars, edits, fails>>

Recovery ==
  \/ RecoverList \/ RecoverSet \/ RecoverConfirm \/ RecoverRefused \/ RecoverEnds
  \/ \E c \in Names : RecoverStatus(c)

TxNext ==
  \/ \E c \in Names, s \in Specs : CreateConfig(c, s) \/ UpdateConfig(c, s)
  \/ \E c \in Names : DeleteConfig(c)
  \/ Reconcile \/ ApiCallFails
  \/ Rollback \/ StoreIsLost \/ Recovery \/ RecoverFails \/ Crash

TxSpec == TxInit /\ [][TxNext]_txVars

(* The work queue is served, the data-server rolls back a
   transaction nobody confirms, and the runtime goes on trying to recover. *)
TxFairness ==
  WF_txVars(Reconcile) /\ WF_txVars(Recovery \/ Rollback)

TxFairSpec == TxSpec /\ TxFairness

----------------------------------------------------------------------------
(* Properties. *)

(* Nothing is left to do: no request, no pass, no transaction. *)
AtRest ==
  /\ rec = "idle" /\ ~queued
  /\ runtime = "up" /\ tx = "none"

Live(c) == configs[c] # None /\ ~configs[c].deleting

(* transactor.go:402-431: when nothing is left to do, what the status of a
   Config that shows Ready or ConfigReady calls applied is what the datastore
   holds, whatever was edited, failed, rolled back or replayed on the way,
   unless a transaction was torn. *)
ReadyIsApplied ==
  AtRest => \A c \in Names \ torn :
    Live(c) /\ (configs[c].ready = "True" \/ configs[c].cond = "Ready")
      => store[c] = configs[c].applied

(* transactor.go:240-267: an intent stays in the datastore only with a Config
   that carries the finalizer, so that its deletion will be seen; and a Config
   that was deleted has left the datastore. *)
StoredIsOwned ==
  AtRest => \A c \in Names \ torn :
    store[c] # None => configs[c] # None /\ configs[c].fin

(* targetconfig/reconciler.go:194-219: when nothing is left to do, no Config is
   being deleted and none failed for its present generation, every Config has
   its present spec applied and shows Ready: no edit was missed. *)
NothingForgotten ==
  AtRest /\ (\A c \in Present(configs) : Live(c) /\ IsRecoverable(configs[c]))
    => \A c \in Present(configs) :
         configs[c].ready = "True" /\ configs[c].applied = configs[c].spec

(* targetconfig/reconciler.go:194-219: once the user and the failures pause,
   the reconciler comes to rest; its own status writes, each of which is a
   request, do not keep it going. *)
ComesToRest == <>[]AtRest
=============================================================================
