-------------------------- MODULE TargetDatastore --------------------------
(***************************************************************************)
(* The life of one Target: the reconciler that owns its Ready condition    *)
(* and its finalizer (pkg/reconcilers/targetdatastore/reconciler.go), the  *)
(* TargetManager that holds its runtime (pkg/sdc/target/manager/           *)
(* manager.go), the user who creates and deletes the Target, and a         *)
(* config-server that may crash.  The runtime takes part through its       *)
(* contract (RuntimeContract), which TargetRuntime is shown to implement.  *)
(*                                                                         *)
(* controller-runtime runs one Reconcile per Target at a time, for a       *)
(* queued request; a request that arrives meanwhile stays queued.  A       *)
(* Reconcile reads the Target once and works on that copy; its own writes  *)
(* queue it again if they change something.  The texts of the Ready        *)
(* condition and the recorded events are left out.                         *)
(***************************************************************************)
EXTENDS RuntimeContract, Naturals

CONSTANTS
  MaxTargets,  \* bound: times the user creates the Target
  MaxCrashes,  \* bound: crashes of the config-server
  MaxFlips     \* bound: changes of the discovery condition

ASSUME LifeAssumption ==
  MaxTargets \in Nat /\ MaxCrashes \in Nat /\ MaxFlips \in Nat

VARIABLES
  target,      \* the Target: absent, live, or deleting (deletionTimestamp)
  finalizers,  \* its finalizers: this reconciler's and the config reconciler's
  discovered,  \* its TargetDiscoveryReady condition is True
  ready,       \* its Ready condition is True
  created, crashes, flips,  \* counters of the bounds
  registered,  \* TargetManager.targets has a runtime (the contract's)
  queued,      \* a request for the Target is in the work queue
  requeue,     \* a RequeueAfter timer is running
  rec,         \* where Reconcile is
  copy,        \* what it read of the Target and of the runtime
  dropped,     \* ghost: an event was dropped since Reconcile last read the status
  mrpc         \* DeleteDatastore's RPC: not executed, executed, answer lost

objVars == <<target, finalizers, discovered, ready>>
envVars == <<created, crashes, flips>>
recVars == <<queued, requeue, rec, copy>>
lifeVars == <<objVars, envVars, registered, recVars, dropped, mrpc>>
allVars == <<cvars, lifeVars>>

RecPCs == {"idle", "finalizer", "pipeline", "token", "apply", "status", "write",
           "stop", "waitStop", "delete", "finalize"}

(* owned: it has this reconciler's finalizer. *)
Copies == [owned : BOOLEAN, discovered : BOOLEAN, running : BOOLEAN]
NoCopy == [owned |-> FALSE, discovered |-> FALSE, running |-> FALSE]

ObjTypeOK ==
  /\ target \in {"absent", "live", "deleting"}
  /\ finalizers \in SUBSET {"datastore", "config"}
  /\ discovered \in BOOLEAN /\ ready \in BOOLEAN

EnvTypeOK ==
  /\ created \in 0 .. MaxTargets /\ crashes \in 0 .. MaxCrashes
  /\ flips \in 0 .. MaxFlips

RecTypeOK ==
  /\ registered \in BOOLEAN /\ queued \in BOOLEAN /\ requeue \in BOOLEAN
  /\ rec \in RecPCs /\ copy \in Copies /\ dropped \in BOOLEAN
  /\ mrpc \in {"none", "done", "lost"}

(* The Target carries no finalizer but the two reconcilers' own, and Reconcile
   is at one of its steps. *)
LifeTypeOK == CTypeOK /\ ObjTypeOK /\ EnvTypeOK /\ RecTypeOK

LifeInit ==
  /\ CInit /\ exists = FALSE
  /\ target = "absent" /\ finalizers = {}
  /\ discovered = FALSE /\ ready = FALSE
  /\ created = 0 /\ crashes = 0 /\ flips = 0
  /\ registered = FALSE
  /\ queued = FALSE /\ requeue = FALSE
  /\ rec = "idle" /\ copy = NoCopy /\ dropped = FALSE /\ mrpc = "none"

----------------------------------------------------------------------------
(* The user, the discovery controller and the config reconciler change the
   Target; each change queues a request. *)

CreateTarget ==
  /\ target = "absent" /\ created < MaxTargets
  /\ target' = "live"
  /\ created' = created + 1
  /\ queued' = TRUE
  /\ UNCHANGED <<cvars, finalizers, discovered, ready, crashes, flips,
                 registered, requeue, rec, copy, dropped, mrpc>>

(* The object goes once it is being deleted and has no finalizer. *)
Gone(fs) ==
  /\ finalizers' = fs
  /\ target' = IF fs = {} THEN "absent" ELSE "deleting"
  /\ discovered' = (discovered /\ fs # {})

DeleteTarget ==
  /\ target = "live"
  /\ Gone(finalizers)
  /\ ready' = (ready /\ finalizers # {})
  /\ queued' = TRUE
  /\ UNCHANGED <<cvars, envVars, registered, requeue, rec, copy, dropped, mrpc>>

DiscoveryChanges ==
  /\ target = "live" /\ flips < MaxFlips
  /\ discovered' = ~discovered
  /\ flips' = flips + 1
  /\ queued' = TRUE
  /\ UNCHANGED <<cvars, target, finalizers, ready, created, crashes,
                 registered, requeue, rec, copy, dropped, mrpc>>

(* targetconfig reconciler: its finalizer, added on a live Target and removed
   from a deleting one. *)
AddConfigFinalizer ==
  /\ target = "live" /\ "config" \notin finalizers
  /\ finalizers' = finalizers \cup {"config"}
  /\ queued' = TRUE
  /\ UNCHANGED <<cvars, target, discovered, ready, envVars, registered,
                 requeue, rec, copy, dropped, mrpc>>

RemoveConfigFinalizer ==
  /\ target = "deleting" /\ "config" \in finalizers
  /\ Gone(finalizers \ {"config"})
  /\ ready' = (ready /\ target' # "absent")
  /\ queued' = TRUE
  /\ UNCHANGED <<cvars, envVars, registered, requeue, rec, copy, dropped, mrpc>>

----------------------------------------------------------------------------
(* Reconcile.  It begins with the request taken from the queue and ends with
   Done(again): RequeueAfter or an error when again. *)

Begin == rec = "idle" /\ queued

Done(again) ==
  /\ rec' = "idle" /\ copy' = NoCopy
  /\ requeue' = (requeue \/ again)

(* Not found: the reconcile loop is done. *)
ReconcileAbsent ==
  /\ Begin /\ target = "absent"
  /\ queued' = FALSE
  /\ Done(FALSE)
  /\ UNCHANGED <<cvars, objVars, envVars, registered, dropped, mrpc>>

(* The Target is read. *)
ReconcileLive ==
  /\ Begin /\ target = "live"
  /\ queued' = FALSE
  /\ rec' = "finalizer"
  /\ copy' = [NoCopy EXCEPT !.owned = "datastore" \in finalizers,
                            !.discovered = discovered]
  /\ UNCHANGED <<cvars, objVars, envVars, registered, requeue, dropped, mrpc>>

(* Mutant: a finalizer of another name is added. *)
AddFinalizerWrongName ==
  /\ rec = "finalizer"
  /\ finalizers' = finalizers \cup {"target"}
  /\ rec' = "pipeline"
  /\ UNCHANGED <<cvars, target, discovered, ready, envVars, registered, queued,
                 requeue, copy, dropped, mrpc>>

(* AddFinalizer applies it unless the copy has it.  By now the Target may be
   deleting, and the API server forbids a new finalizer (ReconcileErrs), or gone,
   and the apply makes a Target that has nothing but the finalizer. *)
AddFinalizer ==
  /\ rec = "finalizer"
  /\ rec' = "pipeline"
  /\ \/ /\ copy.owned
        /\ UNCHANGED <<target, finalizers, queued>>
     \/ /\ ~copy.owned /\ target # "deleting"
        /\ target' = "live"
        /\ finalizers' = finalizers \cup {"datastore"}
        /\ queued' = TRUE
  /\ UNCHANGED <<cvars, discovered, ready, envVars, registered, requeue, copy, dropped,
                 mrpc>>

(* applyReady. *)
WriteReady(value) ==
  /\ ready' = value
  /\ queued' = (queued \/ value # ready)

(* The pipeline up to the runtime, on the copy.  Discovery not ready clears the
   desired state of a runtime that exists; a schema that is not ready (again) or
   an invalid configuration (its parts are watched) leaves it as it is. *)
Pipeline ==
  /\ rec = "pipeline"
  /\ \/ ~copy.discovered /\ WriteReady(FALSE) /\ Done(FALSE)
     \/ copy.discovered /\ WriteReady(FALSE) /\ \E again \in BOOLEAN : Done(again)
     \/ copy.discovered /\ rec' = "token" /\ UNCHANGED <<ready, queued, requeue, copy>>
  /\ UNCHANGED <<cvars, target, finalizers, discovered, envVars, registered, dropped,
                 mrpc>>

(* SetRecoveryRetryToken and ApplyDesired call GetOrCreate: a runtime that is
   not in the map is made anew. *)
GetOrCreate ==
  /\ rec = "token"
  /\ rec' = "apply"
  /\ registered' = TRUE
  /\ IF registered
       THEN UNCHANGED cvars
       ELSE /\ loop' = "new"
            /\ stopCh' = FALSE /\ running' = FALSE /\ told' = FALSE
            /\ UNCHANGED exists
  /\ UNCHANGED <<objVars, envVars, queued, requeue, copy, dropped, mrpc>>

(* ApplyDesired: Start (idempotent), SetDesired. *)
ApplyDesired ==
  /\ rec = "apply"
  /\ rec' = "status"
  /\ CStart
  /\ UNCHANGED <<objVars, envVars, registered, queued, requeue, copy, dropped, mrpc>>

(* The status of the runtime is read. *)
ReconcileStatus ==
  /\ rec = "status"
  /\ copy' = [copy EXCEPT !.running = running]
  /\ dropped' = FALSE
  /\ rec' = "write"
  /\ UNCHANGED <<cvars, objVars, envVars, registered, queued, requeue, mrpc>>

(* readyFromRuntime, applyReady.  A running target is not requeued, the runtime
   notifies, nor is one that waits for a human (RecoveryFailed). *)
ReconcileWrites ==
  /\ rec = "write"
  /\ WriteReady(copy.running)
  /\ \E again \in BOOLEAN : Done(again /\ ~copy.running)
  /\ UNCHANGED <<cvars, target, finalizers, discovered, envVars, registered, dropped,
                 mrpc>>

(* A read or a write of Reconcile fails: the error requeues the request. *)
ReconcileErrs ==
  /\ rec \in {"finalizer", "pipeline", "write"}
  /\ Done(TRUE)
  /\ UNCHANGED <<cvars, objVars, envVars, registered, queued, dropped, mrpc>>

----------------------------------------------------------------------------
(* reconcileDelete.  Every failure keeps the finalizer and requeues. *)

(* retryDelete, and waiting for other finalizers: the status write itself may
   fail. *)
Retry ==
  /\ WriteReady(FALSE) \/ UNCHANGED <<ready, queued>>
  /\ Done(TRUE)

(* With a second finalizer it waits: the runtime and the datastore have to outlive
   the config cleanup. *)
ReconcileDelete ==
  /\ Begin /\ target = "deleting"
  /\ IF {"datastore", "config"} \subseteq finalizers
       THEN ready' \in {FALSE, ready} /\ queued' = (ready' # ready) /\ Done(TRUE)
       ELSE queued' = FALSE /\ rec' = "stop" /\ UNCHANGED <<ready, requeue, copy>>
  /\ UNCHANGED <<cvars, target, finalizers, discovered, envVars, registered, dropped,
                 mrpc>>

(* TargetManager.Delete: stop the runtime, if there is one. *)
DeleteStops ==
  /\ rec = "stop"
  /\ IF registered
       THEN CStop /\ rec' = "waitStop"
       ELSE rec' = "delete" /\ UNCHANGED cvars
  /\ UNCHANGED <<objVars, envVars, registered, queued, requeue, copy, dropped, mrpc>>

(* Mutants: the runtime is dropped although its loop did not exit; the failed
   delete is not requeued. *)
DeleteWaitsDrops ==
  /\ rec = "waitStop"
  /\ registered' = FALSE
  /\ rec' = "delete"
  /\ UNCHANGED <<cvars, objVars, envVars, queued, requeue, copy, dropped, mrpc>>

DeleteWaitsNoRequeue ==
  /\ rec = "waitStop"
  /\ \/ /\ loop = "exited"
        /\ registered' = FALSE
        /\ rec' = "delete"
        /\ UNCHANGED <<ready, queued, requeue, copy>>
     \/ /\ loop # "exited"
        /\ WriteReady(FALSE) /\ Done(FALSE)
        /\ UNCHANGED registered
  /\ UNCHANGED <<cvars, target, finalizers, discovered, envVars, dropped, mrpc>>

(* The loop has exited: only then is the runtime taken out of the map.  On a
   timeout the runtime stays and the next Reconcile waits for it again. *)
DeleteWaits ==
  /\ rec = "waitStop"
  /\ \/ /\ loop = "exited"
        /\ registered' = FALSE
        /\ rec' = "delete"
        /\ UNCHANGED <<ready, queued, requeue, copy>>
     \/ /\ loop # "exited"
        /\ Retry
        /\ UNCHANGED registered
  /\ UNCHANGED <<cvars, target, finalizers, discovered, envVars, dropped, mrpc>>

(* Mutant: the finalizer goes although the RPC failed. *)
DeleteReturnsAnyway ==
  /\ rec = "delete"
  /\ mrpc' = "none"
  /\ rec' = "finalize"
  /\ UNCHANGED <<cvars, objVars, envVars, registered, queued, requeue, copy, dropped>>

(* DeleteDatastore returned: gone (deleted or not found), or no client, an
   error or a timeout. *)
DeleteReturns ==
  /\ rec = "delete"
  /\ mrpc' = "none"
  /\ IF mrpc = "done"
       THEN rec' = "finalize" /\ UNCHANGED <<ready, queued, requeue, copy>>
       ELSE Retry
  /\ UNCHANGED <<cvars, target, finalizers, discovered, envVars, registered, dropped>>

(* deleteDeviation or RemoveFinalizer may fail; with the last finalizer the
   object goes.  A Target that never got this finalizer is left alone. *)
RemoveFinalizer ==
  /\ rec = "finalize"
  /\ \/ Retry /\ UNCHANGED <<target, finalizers, discovered>>
     \/ /\ Done(FALSE)
        /\ IF "datastore" \in finalizers
             THEN /\ Gone(finalizers \ {"datastore"})
                  /\ ready' = (ready /\ target' # "absent")
                  /\ queued' = TRUE
             ELSE UNCHANGED <<objVars, queued>>
  /\ UNCHANGED <<cvars, envVars, registered, dropped, mrpc>>

Reconcile ==
  \/ ReconcileAbsent \/ ReconcileLive \/ AddFinalizer \/ Pipeline
  \/ GetOrCreate \/ ApplyDesired \/ ReconcileStatus \/ ReconcileWrites
  \/ ReconcileErrs
  \/ ReconcileDelete \/ DeleteStops \/ DeleteWaits \/ DeleteReturns \/ RemoveFinalizer

RequeueFires ==
  /\ requeue
  /\ requeue' = FALSE
  /\ queued' = TRUE
  /\ UNCHANGED <<cvars, objVars, envVars, registered, rec, copy, dropped, mrpc>>

----------------------------------------------------------------------------
(* Mutant: notifyIfChanged records the status but calls nobody. *)
RuntimeWorksUnheard ==
  /\ CWork
  /\ UNCHANGED lifeVars

(* The runtime at work.  When it notifies, the event queues a request, unless
   the events channel is full: notifier drops it. *)
RuntimeWorks ==
  /\ CWork
  /\ \/ /\ told' /\ (~told \/ running' # running)
        /\ \/ queued' = TRUE /\ UNCHANGED dropped
           \/ dropped' = TRUE /\ UNCHANGED queued
     \/ /\ ~(told' /\ (~told \/ running' # running))
        /\ UNCHANGED <<queued, dropped>>
  /\ UNCHANGED <<objVars, envVars, registered, requeue, rec, copy, mrpc>>

RuntimeExits == CExit /\ UNCHANGED lifeVars

(* External: the data-server executes DeleteDatastore, loses the answer, or
   restarts without the datastore. *)
ServeDelete ==
  /\ rec = "delete" /\ mrpc = "none"
  /\ exists' = FALSE
  /\ mrpc' \in {"done", "lost"}
  /\ UNCHANGED <<loop, stopCh, running, told, objVars, envVars, registered,
                 recVars, dropped>>

DataServerLosesStore == CLoss /\ UNCHANGED lifeVars

(* The config-server crashes and starts again: its memory is new, and the
   informers queue a request for the Target that exists. *)
Crash ==
  /\ crashes < MaxCrashes
  /\ crashes' = crashes + 1
  /\ loop' = "new" /\ stopCh' = FALSE /\ running' = FALSE /\ told' = FALSE
  /\ registered' = FALSE
  /\ rec' = "idle" /\ copy' = NoCopy /\ dropped' = FALSE /\ mrpc' = "none"
  /\ requeue' = FALSE
  /\ queued' = (target # "absent")
  /\ UNCHANGED <<exists, objVars, created, flips>>

LifeNext ==
  \/ CreateTarget \/ DeleteTarget \/ DiscoveryChanges
  \/ AddConfigFinalizer \/ RemoveConfigFinalizer
  \/ Reconcile \/ RequeueFires
  \/ RuntimeWorks \/ RuntimeExits \/ ServeDelete \/ DataServerLosesStore
  \/ Crash

LifeSpec == LifeInit /\ [][LifeNext]_allVars

(* The work queue is served, timers fire, API calls that are retried succeed
   at last, a stopped loop exits and a loop that goes on notifies its status
   (each pass of it ends), and the data-server executes a delete that is
   retried. *)
LifeFairness ==
  /\ WF_allVars(Reconcile) /\ WF_allVars(RequeueFires)
  /\ WF_allVars(RemoveConfigFinalizer)
  /\ WF_allVars(RuntimeExits)
  /\ WF_allVars(RuntimeWorks /\ told' /\ ~told)
  /\ SF_allVars(ServeDelete /\ mrpc' = "done")
  /\ SF_allVars(DeleteWaits /\ rec' = "delete")
  /\ SF_allVars(AddFinalizer) /\ SF_allVars(Pipeline) /\ SF_allVars(ReconcileWrites)
  /\ SF_allVars(RemoveFinalizer /\ rec' = "idle" /\ target' = "absent")

LifeFairSpec == LifeSpec /\ LifeFairness

----------------------------------------------------------------------------
(* Properties. *)

(* manager.go:145-173, reconciler.go:222: while no Target exists, the
   data-server has no datastore for it and no run loop is left that could
   create one, however the deletion was interrupted, retried or crashed. *)
NoTargetNoDatastore ==
  target = "absent" => ~exists /\ loop # "running"

(* runtime.go:127 and 259: the runtime is taken out of the manager only after
   its loop has exited, so two loops never run for one target. *)
UnregisteredDoesNotRun == ~registered => loop # "running"

(* reconciler.go:222: finalization that keeps failing is retried until the
   Target is gone. *)
DeletionCompletes == target = "deleting" ~> target = "absent"

(* The Ready condition of a live Target follows a runtime that has left Running
   for good, whatever Reconcile was doing when it did.  manager.go:45 says that "a
   dropped event is covered by the reconciler's fallback requeue"; a pass that saw
   the runtime Running leaves no requeue behind, so that case is excepted. *)
ReadyFollows ==
  <>[](target = "live" /\ ~running) =>
    <>[](~ready \/ (dropped /\ ~queued /\ ~requeue))
=============================================================================
