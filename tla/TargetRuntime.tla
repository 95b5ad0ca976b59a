--------------------------- MODULE TargetRuntime ---------------------------
(***************************************************************************)
(* The runtime of one target (pkg/sdc/target/manager/runtime.go): the run  *)
(* loop that brings the target's datastore in the data-server to the       *)
(* desired definition, replays the accepted configs into it and only then  *)
(* hands it out (TargetManager.GetDatastore, manager.go).                  *)
(*                                                                         *)
(* The loop is one goroutine; its steps are cut where another actor can    *)
(* get in between: around every RPC, and between the reads of the desired  *)
(* state.  The other actors are the connection manager (module             *)
(* DSConnManager), the reconciler that sets the desired state, the timers  *)
(* and the data-server itself, which is external.                          *)
(*                                                                         *)
(* Abstractions: a definition stands for a CreateDataStoreRequest and for  *)
(* its hash (ComputeCreateDSHash); the configs that were accepted are one  *)
(* bit of the datastore, "intents" (the Transactor module has them one by  *)
(* one); error texts are left out.                                         *)
(***************************************************************************)
EXTENDS DSConnManager

CONSTANTS
  Defs,      \* target definitions the reconciler can compute
  Nil,       \* no desired definition, no running hash
  NoStore,   \* the data-server has no datastore for the target
  NoKey,     \* no recovery key
  MaxToken   \* bound: values of the recovery retry annotation

ASSUME RuntimeAssumption ==
  /\ Nil \notin Defs
  /\ MaxToken \in Nat
  /\ NoKey \notin (Defs \cup {Nil}) \X (0 .. MaxToken)
  /\ NoStore \notin [def : Defs, intents : BOOLEAN]

VARIABLES
  desired,        \* t.desired and t.desiredHash, written together
  token,          \* t.recoveryToken
  phase, dsReady, datastoreReady, recovered,
  failedKey,      \* t.recoveryFailedKey; NoKey when recoveryFailedErr is nil
  runningHash,
  watcher,        \* t.watcher is not nil
  told,           \* t.lastNotified is the status the waiting loop shows
  wakeCh,         \* the coalescing trigger holds a token
  timer,          \* a wakeAfter timer is running
  stopCh,         \* Stop was called
  pc,             \* where the run goroutine is
  cur,            \* reconcileOnce: desired as captured at its start
  want,           \* ensureDatastore: wantHash
  cl,             \* the client this pass took from the connection manager
  try,            \* the recovery key when the replay in progress started
  rpc,            \* the RPC in progress: not executed, executed, answer lost
  store,          \* external: the datastore in the data-server
  missed          \* ghost: an outage the loop is never told of

loopVars == <<cur, want, cl, try, rpc>>
shownVars == <<phase, dsReady, datastoreReady, recovered, runningHash>>
runtimeVars == <<desired, token, shownVars, failedKey, watcher, told,
                 wakeCh, timer, stopCh, pc, loopVars, store, missed>>
vars == <<connVars, runtimeVars>>

Phases == {"Pending", "WaitingForDS", "EnsuringDatastore", "Recovering",
           "RecoveryFailed", "Running", "Degraded", "Deleting"}
PCs == {"new", "subscribe", "select", "undesired", "undelete", "client",
        "probe", "delete", "create", "recovery", "recover", "run", "exited"}
Hashes == Defs \cup {Nil}
Keys == Hashes \X (0 .. MaxToken)
Stores == [def : Defs, intents : BOOLEAN]

(* Status(): what the reconciler and GetDatastore see. *)
Status == <<phase, dsReady, datastoreReady, runningHash, recovered>>

(* Mutant: the key leaves the retry token out. *)
recoveryKeyNoToken == desired

recoveryKey == <<desired, token>>

ShownTypeOK ==
  /\ phase \in Phases
  /\ dsReady \in BOOLEAN /\ datastoreReady \in BOOLEAN /\ recovered \in BOOLEAN
  /\ runningHash \in Hashes

FlagTypeOK ==
  /\ watcher \in BOOLEAN /\ told \in BOOLEAN /\ wakeCh \in BOOLEAN
  /\ timer \in BOOLEAN /\ stopCh \in BOOLEAN /\ missed \in BOOLEAN

DataTypeOK ==
  /\ desired \in Hashes /\ token \in 0 .. MaxToken
  /\ failedKey \in Keys \cup {NoKey}
  /\ store \in Stores \cup {NoStore}

LoopTypeOK ==
  /\ pc \in PCs
  /\ cur \in Hashes /\ want \in Hashes
  /\ cl \in Nat
  /\ try \in Keys \cup {NoKey}
  /\ rpc \in {"none", "done", "lost"}

(* What the fields and locals of the runtime may hold; the latch holds a key
   of a definition and a token. *)
TypeOK == ConnTypeOK /\ ShownTypeOK /\ FlagTypeOK /\ DataTypeOK /\ LoopTypeOK

(* NewTargetRuntime.  The datastore may have survived an earlier process. *)
Init ==
  /\ ConnInit
  /\ desired = Nil /\ token = 0
  /\ phase = "Pending"
  /\ dsReady = FALSE /\ datastoreReady = FALSE /\ recovered = FALSE
  /\ failedKey = NoKey
  /\ runningHash = Nil
  /\ watcher = FALSE
  /\ told = FALSE
  /\ wakeCh = FALSE /\ timer = FALSE /\ stopCh = FALSE
  /\ pc = "new"
  /\ cur = Nil /\ want = Nil /\ cl = 0 /\ try = NoKey /\ rpc = "none"
  /\ store \in Stores \cup {NoStore}
  /\ missed = FALSE

----------------------------------------------------------------------------
(* Calls of the other actors. *)

(* Mutant: the loop is not woken. *)
SetDesiredNoWake(d) ==
  /\ desired' = d
  /\ UNCHANGED <<connVars, token, shownVars, failedKey, watcher, told,
                 wakeCh, timer, stopCh, pc, loopVars, store, missed>>

SetDesired(d) ==
  /\ desired' = d
  /\ wakeCh' = TRUE
  /\ UNCHANGED <<connVars, token, shownVars, failedKey, watcher, told,
                 timer, stopCh, pc, loopVars, store, missed>>

SetRecoveryRetryToken(t) ==
  /\ token' = t
  /\ wakeCh' = (wakeCh \/ token # t)
  /\ UNCHANGED <<connVars, desired, shownVars, failedKey, watcher, told,
                 timer, stopCh, pc, loopVars, store, missed>>

(* UpsertSubscription, DeleteSubscription: record it and wake the loop. *)
SubscriptionChanged ==
  /\ wakeCh' = TRUE
  /\ UNCHANGED <<connVars, desired, token, shownVars, failedKey, watcher,
                 told, timer, stopCh, pc, loopVars, store, missed>>

TimerFires ==
  /\ timer
  /\ timer' = FALSE
  /\ wakeCh' = TRUE
  /\ UNCHANGED <<connVars, desired, token, shownVars, failedKey, watcher,
                 told, stopCh, pc, loopVars, store, missed>>

(* Mutant: no startOnce, a stopped loop starts again. *)
StartAgain ==
  /\ pc' = IF pc \in {"new", "exited"} THEN "subscribe" ELSE pc
  /\ UNCHANGED <<connVars, desired, token, shownVars, failedKey, watcher,
                 told, wakeCh, timer, stopCh, loopVars, store, missed>>

(* startOnce: the loop starts once, and never after Stop. *)
Start ==
  /\ pc' = IF pc = "new" THEN "subscribe" ELSE pc
  /\ UNCHANGED <<connVars, desired, token, shownVars, failedKey, watcher,
                 told, wakeCh, timer, stopCh, loopVars, store, missed>>

(* Stop closes stopCh; its caller waits for pc = "exited" (done is closed). *)
Stop ==
  /\ stopCh' = TRUE
  /\ pc' = IF pc = "new" THEN "exited" ELSE pc
  /\ UNCHANGED <<connVars, desired, token, shownVars, failedKey, watcher,
                 told, wakeCh, timer, loopVars, store, missed>>

(* GetDatastore / GetClient would hand out the datastore now. *)
HandedOut == dsReady /\ datastoreReady /\ phase = "Running" /\ Client # 0

----------------------------------------------------------------------------
(* The run goroutine. *)

(* What no step of the loop writes. *)
NotMine == <<desired, token, stopCh, missed>>

stopRuntime == watcher' = FALSE

(* reconcileOnce returns: its locals are gone. *)
Return ==
  /\ pc' = "select"
  /\ cur' = Nil /\ want' = Nil /\ cl' = 0 /\ try' = NoKey /\ rpc' = "none"

Go(next) == pc' = next

(* defer t.notifyIfChanged(): part of every step of reconcileOnce. *)
notifyIfChanged == told' = (pc' = "select")

(* run: Subscribe(8), then the initial wake. *)
RunSubscribe ==
  /\ pc = "subscribe"
  /\ \/ /\ SubscribeAdd \/ SubscribeRead
        /\ UNCHANGED <<pc, wakeCh>>
     \/ /\ SubscribeSend
        /\ pc' = "select"
        /\ wakeCh' = TRUE
  /\ UNCHANGED <<NotMine, shownVars, failedKey, watcher, told, timer,
                 loopVars, store>>

(* Mutants: Down does not reset recovered; the loop is not woken. *)
HandleDSEventKeepsRecovered ==
  /\ pc = "select"
  /\ Receive
  /\ dsReady' = (Head(chan) = "Up")
  /\ wakeCh' = TRUE
  /\ UNCHANGED <<NotMine, phase, datastoreReady, recovered, runningHash,
                 failedKey, watcher, timer, pc, loopVars, store>>
  /\ told' = (told /\ Status' = Status)

HandleDSEventNoWake ==
  /\ pc = "select"
  /\ Receive
  /\ dsReady' = (Head(chan) = "Up")
  /\ recovered' = (recovered /\ Head(chan) = "Up")
  /\ UNCHANGED <<NotMine, phase, datastoreReady, runningHash, failedKey,
                 watcher, wakeCh, timer, pc, loopVars, store>>
  /\ told' = (told /\ Status' = Status)

(* case ev := <-dsEvents: setDSReady and wake. *)
HandleDSEvent ==
  /\ pc = "select"
  /\ Receive
  /\ dsReady' = (Head(chan) = "Up")
  /\ recovered' = (recovered /\ Head(chan) = "Up")
  /\ wakeCh' = TRUE
  /\ UNCHANGED <<NotMine, phase, datastoreReady, runningHash, failedKey,
                 watcher, timer, pc, loopVars, store>>
  /\ told' = (told /\ Status' = Status)

(* case <-stopCh: shutdown; the datastore is left alone. *)
Shutdown ==
  /\ pc = "select" /\ stopCh
  /\ phase' = "Deleting"
  /\ stopRuntime
  /\ pc' = "exited"
  /\ Unsubscribe
  /\ UNCHANGED <<NotMine, dsReady, datastoreReady, recovered, runningHash,
                 failedKey, told, wakeCh, timer, loopVars, store>>

(* case <-wakeCh: reconcileOnce up to its first RPC or client lookup. *)
ReconcileOnce ==
  /\ pc = "select" /\ wakeCh
  /\ wakeCh' = FALSE
  /\ \/ /\ desired = Nil                       \* nothing desired
        /\ stopRuntime
        /\ Go("undesired")
        /\ UNCHANGED <<phase, loopVars>>
     \/ /\ desired # Nil /\ ~dsReady
        /\ phase' = "WaitingForDS"
        /\ stopRuntime
        /\ Return
     \/ /\ desired # Nil /\ dsReady
        /\ cur' = desired
        /\ phase' = IF phase # "Running" THEN "EnsuringDatastore" ELSE phase
        /\ Go("client")
        /\ UNCHANGED <<watcher, want, cl, try, rpc>>
  /\ UNCHANGED <<connVars, NotMine, dsReady, datastoreReady, recovered,
                 runningHash, failedKey, timer, store>>
  /\ notifyIfChanged

(* The tail of reconcileOnce with nothing desired: setRecovered(false), and
   Pending unless Degraded or a definition came in meanwhile. *)
NothingDesired(p) ==
  /\ recovered' = FALSE
  /\ datastoreReady' = FALSE
  /\ phase' = IF desired = Nil /\ p # "Degraded" THEN "Pending" ELSE p
  /\ Return

(* ensureDatastoreDeleted: no data-server, nothing to do now; else its RPC. *)
EnsureDatastoreDeleted ==
  /\ pc = "undesired"
  /\ IF ~dsReady \/ Client = 0
       THEN /\ runningHash' = Nil
            /\ NothingDesired(phase)
       ELSE /\ cl' = Client
            /\ Go("undelete")
            /\ UNCHANGED <<phase, datastoreReady, recovered, runningHash, cur,
                           want, try, rpc>>
  /\ UNCHANGED <<connVars, NotMine, dsReady, failedKey, watcher, wakeCh,
                 timer, store>>
  /\ notifyIfChanged

EnsureDatastoreDeletedReturns ==
  /\ pc = "undelete"
  /\ \/ /\ rpc = "done"
        /\ runningHash' = Nil
        /\ NothingDesired(phase)
     \/ /\ rpc # "done"                        \* keeps runningHash
        /\ UNCHANGED runningHash
        /\ NothingDesired("Degraded")
  /\ UNCHANGED <<connVars, NotMine, dsReady, failedKey, watcher, wakeCh,
                 timer, store>>
  /\ notifyIfChanged

(* ds.Client(), then wantHash: desired is read again, after cur. *)
TakeClient ==
  /\ pc = "client"
  /\ IF Client = 0
       THEN /\ phase' = "WaitingForDS"
            /\ Return
       ELSE /\ cl' = Client
            /\ want' = desired
            /\ Go("probe")
            /\ UNCHANGED <<phase, cur, try, rpc>>
  /\ UNCHANGED <<connVars, NotMine, dsReady, datastoreReady, recovered,
                 runningHash, failedKey, watcher, wakeCh, timer, store>>
  /\ notifyIfChanged

(* An RPC of the loop reaches the data-server: its client was not closed. *)
Reaches == rpc = "none" /\ cl = client /\ link = "ready"

Degraded == phase' = "Degraded" /\ Return

(* ensureDatastore 1): probe the datastore. *)
ProbeFails ==
  /\ pc = "probe"
  /\ datastoreReady' = FALSE /\ recovered' = FALSE
  /\ Degraded
  /\ UNCHANGED <<connVars, NotMine, dsReady, runningHash, failedKey, watcher,
                 wakeCh, timer, store>>
  /\ notifyIfChanged

(* Not found: leave Running before the datastore is created. *)
ProbeNotFound ==
  /\ pc = "probe" /\ Reaches /\ store = NoStore
  /\ phase' = "EnsuringDatastore"
  /\ Go("create")
  /\ UNCHANGED <<connVars, NotMine, dsReady, datastoreReady, recovered,
                 runningHash, failedKey, watcher, wakeCh, timer, loopVars,
                 store>>
  /\ notifyIfChanged

HashDiffers == runningHash # Nil /\ want # Nil /\ runningHash # want

(* Mutant: setPhase and stopRuntime come after the delete. *)
ProbeOutdatedStillRunning ==
  /\ pc = "probe" /\ Reaches /\ store # NoStore /\ HashDiffers
  /\ Go("delete")
  /\ UNCHANGED <<connVars, NotMine, shownVars, failedKey, watcher, wakeCh,
                 timer, loopVars, store>>
  /\ notifyIfChanged

(* 2) It exists with another hash: leave Running, stop the components. *)
ProbeOutdated ==
  /\ pc = "probe" /\ Reaches /\ store # NoStore /\ HashDiffers
  /\ phase' = "EnsuringDatastore"
  /\ stopRuntime
  /\ Go("delete")
  /\ UNCHANGED <<connVars, NotMine, dsReady, datastoreReady, recovered,
                 runningHash, failedKey, wakeCh, timer, loopVars, store>>
  /\ notifyIfChanged

(* 3) It exists and its hash matches, or no hash is known yet. *)
ProbeFound ==
  /\ pc = "probe" /\ Reaches /\ store # NoStore /\ ~HashDiffers
  /\ runningHash' = IF runningHash = Nil THEN want ELSE runningHash
  /\ datastoreReady' = TRUE
  /\ Go("recovery")
  /\ UNCHANGED <<connVars, NotMine, phase, dsReady, recovered, failedKey,
                 watcher, wakeCh, timer, loopVars, store>>
  /\ notifyIfChanged

DeleteReturns ==
  /\ pc = "delete"
  /\ \/ /\ rpc = "done"
        /\ rpc' = "none"
        /\ Go("create")
        /\ UNCHANGED <<phase, cur, want, cl, try>>
     \/ rpc # "done" /\ Degraded
  /\ UNCHANGED <<connVars, NotMine, dsReady, datastoreReady, recovered,
                 runningHash, failedKey, watcher, wakeCh, timer, store>>
  /\ notifyIfChanged

(* A fresh datastore holds no intents. *)
CreateReturns ==
  /\ pc = "create"
  /\ \/ /\ rpc = "done"
        /\ runningHash' = want
        /\ datastoreReady' = TRUE
        /\ recovered' = FALSE
        /\ rpc' = "none"
        /\ Go("recovery")
        /\ UNCHANGED <<phase, cur, want, cl, try>>
     \/ /\ rpc # "done"
        /\ Degraded
        /\ UNCHANGED <<runningHash, datastoreReady, recovered>>
  /\ UNCHANGED <<connVars, NotMine, dsReady, failedKey, watcher, wakeCh,
                 timer, store>>
  /\ notifyIfChanged

----------------------------------------------------------------------------
(* Recovery: replay the configs before the datastore is handed out. *)

recoveryLatched == failedKey # NoKey /\ failedKey = recoveryKey

CheckRecovery ==
  /\ pc = "recovery"
  /\ \/ /\ recovered
        /\ Go("run")
        /\ UNCHANGED <<phase, loopVars>>
     \/ /\ ~recovered /\ recoveryLatched
        /\ phase' = "RecoveryFailed"
        /\ Return
     \/ /\ ~recovered /\ ~recoveryLatched
        /\ phase' = "Recovering"
        /\ try' = recoveryKey
        /\ Go("recover")
        /\ UNCHANGED <<cur, want, cl, rpc>>
  /\ UNCHANGED <<connVars, NotMine, dsReady, datastoreReady, recovered,
                 runningHash, failedKey, watcher, wakeCh, timer, store>>
  /\ notifyIfChanged

(* setRecoveryResult(msg, nil) clears the latch. *)
RecoverSucceeds ==
  /\ pc = "recover" /\ rpc = "done"
  /\ recovered' = TRUE
  /\ failedKey' = NoKey
  /\ rpc' = "none" /\ try' = NoKey
  /\ Go("run")
  /\ UNCHANGED <<connVars, NotMine, phase, dsReady, datastoreReady,
                 runningHash, watcher, wakeCh, timer, cur, want, cl, store>>
  /\ notifyIfChanged

(* A transient error, or the status of a config could not be written after
   the replay: retried by a timer. *)
RecoverFailsTransiently ==
  /\ pc = "recover"
  /\ recovered' = FALSE
  /\ phase' = "Recovering"
  /\ timer' = TRUE
  /\ Return
  /\ UNCHANGED <<connVars, NotMine, dsReady, datastoreReady, runningHash,
                 failedKey, watcher, wakeCh, store>>
  /\ notifyIfChanged

(* A TransactionError that is not recoverable: the data-server rejects the
   configs, or the client was closed (Canceled is not a recoverable code).
   The latch takes the key of now, not the one the attempt started with. *)
RecoverIsRejected ==
  /\ pc = "recover" /\ rpc = "none" /\ (link = "ready" \/ cl # client)
  /\ recovered' = FALSE
  /\ failedKey' = recoveryKey
  /\ phase' = "RecoveryFailed"
  /\ Return
  /\ UNCHANGED <<connVars, NotMine, dsReady, datastoreReady, runningHash,
                 watcher, wakeCh, timer, store>>
  /\ notifyIfChanged

(* ensureRuntime, Running, then reconcileCollector, whose problems never
   change the phase: a failed start is retried by a timer. *)
EnterRunning ==
  /\ pc = "run"
  /\ watcher' = TRUE
  /\ phase' = "Running"
  /\ timer' \in {timer, TRUE}
  /\ Return
  /\ UNCHANGED <<connVars, NotMine, dsReady, datastoreReady, recovered,
                 runningHash, failedKey, wakeCh, store>>
  /\ notifyIfChanged

Loop ==
  \/ RunSubscribe \/ HandleDSEvent \/ Shutdown
  \/ ReconcileOnce
  \/ EnsureDatastoreDeleted \/ EnsureDatastoreDeletedReturns
  \/ TakeClient \/ ProbeFails \/ ProbeNotFound \/ ProbeOutdated \/ ProbeFound
  \/ DeleteReturns \/ CreateReturns
  \/ CheckRecovery \/ RecoverSucceeds \/ RecoverFailsTransiently
  \/ RecoverIsRejected \/ EnterRunning

----------------------------------------------------------------------------
(* The data-server (external), and the connection to it. *)

Serve(s) ==
  /\ Reaches
  /\ store' = s
  /\ rpc' = "done"
  /\ UNCHANGED <<connVars, NotMine, shownVars, failedKey, watcher, told,
                 wakeCh, timer, pc, cur, want, cl, try>>

(* DeleteDataStore; not found counts as deleted. *)
ServeDelete == pc \in {"delete", "undelete"} /\ Serve(NoStore)

ServeCreate ==
  /\ pc = "create" /\ store = NoStore
  /\ Serve([def |-> cur, intents |-> FALSE])

ServeReplay ==
  /\ pc = "recover" /\ store # NoStore
  /\ Serve([store EXCEPT !.intents = TRUE])

DownBuffered == \E i \in 1 .. Len(chan) : chan[i] = "Down"

(* The connection breaks: an answer under way is lost, and a data-server that
   restarted may come back without the datastore or without its intents. *)
DataServerRestarts ==
  /\ LinkBreaks
  /\ rpc' = IF rpc = "done" THEN "lost" ELSE rpc
  /\ \/ store' \in {store, NoStore}
     \/ store # NoStore /\ store' = [store EXCEPT !.intents = FALSE]
  /\ UNCHANGED <<NotMine, shownVars, failedKey, watcher, told, wakeCh,
                 timer, pc, cur, want, cl, try>>

(* An outage the monitor misses, or whose Down the full buffer drops with no
   other Down waiting in it, never reaches the loop. *)
Connection ==
  \/ /\ ensureClient \/ MarkUp \/ closeClient
     /\ UNCHANGED runtimeVars
  \/ /\ \/ MonitorFails /\ missed' = (missed \/ ~DownBuffered')
        \/ MonitorMisses /\ missed' = TRUE
     /\ UNCHANGED <<desired, token, shownVars, failedKey, watcher, told,
                    wakeCh, timer, stopCh, pc, loopVars, store>>

Server == ServeDelete \/ ServeCreate \/ ServeReplay \/ DataServerRestarts

(* Any caller, in any order. *)
Callers ==
  \/ \E d \in Hashes : SetDesired(d)
  \/ \E t \in 0 .. MaxToken : SetRecoveryRetryToken(t)
  \/ SubscriptionChanged \/ TimerFires \/ Start \/ Stop

Next == Loop \/ Connection \/ Server \/ Callers

Spec == Init /\ [][Next]_vars

----------------------------------------------------------------------------
(* Fairness.  The goroutines of the process run, RPCs return and timers fire;
   a data-server that is asked again and again serves the RPC at last; a
   reconciler that shows the target as not settled asks again (the fallback
   requeue of 30 s, targetdatastore/reconciler.go:68). *)

Requeue ==
  /\ phase \notin {"Running", "RecoveryFailed"} /\ desired # Nil
  /\ SetDesired(desired)

Serves == ServeDelete \/ ServeCreate \/ ServeReplay
ProbeAnswered == ProbeNotFound \/ ProbeOutdated \/ ProbeFound

Fairness ==
  /\ WF_vars(Loop) /\ WF_vars(TimerFires) /\ WF_vars(Requeue)
  /\ SF_vars(Shutdown)
  /\ SF_vars(Serves) /\ SF_vars(ProbeAnswered) /\ SF_vars(RecoverSucceeds)

FairSpec == Spec /\ Fairness

Contract == INSTANCE RuntimeContract WITH
  loop <- IF pc \in {"new", "exited"} THEN pc ELSE "running",
  running <- phase = "Running",
  exists <- store # NoStore

(* The runtime implements its contract. *)
ImplementsContract == Contract!CSpec

----------------------------------------------------------------------------
(* Properties. *)

HoldsIntents == store # NoStore /\ store.intents

(* A loss of the intents the loop is going to learn of, or never will: the
   connection is broken, a Down event is on its way, or the outage was missed;
   or the loop is deleting a datastore nobody desires (it stays Running until
   that RPC has returned). *)
LossPending ==
  \/ link = "broken" \/ connPC = "close" \/ DownBuffered \/ missed
  \/ pc = "undelete"

(* runtime.go:376, manager.go:236: a datastore that is handed out and counts
   as recovered holds the accepted configs, through restarts of the
   data-server, dropped events, lost answers and changed definitions. *)
HandedOutHoldsIntents ==
  HandedOut /\ recovered => HoldsIntents \/ LossPending

(* runtime.go:792: an idle loop has told the reconciler its present status;
   no change is left untold when nothing will wake the loop. *)
IdleIsNotified ==
  pc = "select" /\ ~wakeCh /\ sub # "closed" => told

(* runtime.go:355 and 449: a datastore being created or deleted because of
   its definition is never handed out, and its components are stopped before
   it is deleted. *)
UntouchedWhileHandedOut ==
  /\ pc \in {"delete", "create"} => ~HandedOut
  /\ pc = "delete" => ~watcher

(* One definition is desired, and the loop knows the data-server reachable. *)
Calm(d) ==
  /\ desired = d /\ dsReady /\ state = "Up" /\ link = "ready"
  /\ cl \in {0, client}

(* runtime.go:264-416 and targetdatastore/reconciler.go:68: a loop that is
   stopped exits; a calm one keeps coming back to Running or to a latched
   recovery failure: no wake-up is lost, and no failed pass is the last one. *)
Settles ==
  \A d \in Defs :
    <>[](pc # "new" /\ (stopCh \/ Calm(d)))
      => []<>(IF stopCh THEN pc = "exited"
                        ELSE phase \in {"Running", "RecoveryFailed"})

(* runtime.go:376-378, "Running implies recovered", and manager.go:204-206,
   "(PhaseRunning implies all three)": a datastore that is handed out was
   recovered.  Violated: Down and Up are handled before the wake, which resets
   recovered and leaves the phase at Running. *)
RunningImpliesRecovered == HandedOut => recovered
=============================================================================
