------------------------------ MODULE Workspace ------------------------------
(***************************************************************************)
(* The Workspace controller (src/pkg/reconcilers/workspace) and the        *)
(* Rollout it owns: a user sets the git reference of a Workspace, the      *)
(* controller downloads it and creates or updates the Rollout, and copies  *)
(* the Rollout's verdict into its own condition.                           *)
(***************************************************************************)
EXTENDS Rollout

CONSTANT MaxEdits       \* bound on what the user does to the Workspace

ASSUME WorkspaceAssumption == MaxEdits \in Nat

VARIABLES
    wsRef,          \* spec.ref of the Workspace, None when there is none
    wsDeleting, wsFinalizer,
    wsCond,         \* its Ready condition
    edits           \* what the user did so far

wsVars == <<wsRef, wsDeleting, wsFinalizer, wsCond>>
wvars == <<rvars, wsVars, edits>>

WorkspaceTypeOK ==
    /\ RolloutTypeOK
    /\ wsRef \in Refs \union {None}
    /\ wsDeleting \in BOOLEAN /\ wsFinalizer \in BOOLEAN
    /\ wsCond \in {"none", "rolling", "failed", "ready"}
    /\ edits \in 0..MaxEdits

WorkspaceInit ==
    /\ RolloutInit
    /\ wsRef = None /\ wsDeleting = FALSE /\ wsFinalizer = FALSE /\ wsCond = "none"
    /\ edits = 0

-----------------------------------------------------------------------------
(* The user. *)

\* The Workspace is created or its reference changed: the generation changes.
SetRef(r) ==
    /\ edits < MaxEdits /\ edits' = edits + 1
    /\ ~wsDeleting /\ r # wsRef
    /\ wsRef' = r
    /\ ownerWake' = TRUE
    /\ UNCHANGED <<rolloutVars, wake, configs, pc, txVars, dsVars, fails,
                   wsDeleting, wsFinalizer, wsCond>>

\* Without a finalizer the Workspace goes at once.
DeleteWorkspace ==
    /\ edits < MaxEdits /\ edits' = edits + 1
    /\ wsRef # None /\ ~wsDeleting
    /\ IF wsFinalizer
       THEN wsDeleting' = TRUE /\ UNCHANGED <<wsRef, wsCond>>
       ELSE wsRef' = None /\ wsCond' = "none" /\ UNCHANGED wsDeleting
    /\ ownerWake' = TRUE
    /\ UNCHANGED <<rolloutVars, wake, configs, pc, txVars, dsVars, fails,
                   wsFinalizer>>

\* A Secret the Workspace uses changes.
SecretEvent ==
    /\ edits < MaxEdits /\ edits' = edits + 1
    /\ ownerWake' = TRUE
    /\ UNCHANGED <<rolloutVars, wake, configs, pc, txVars, dsVars, fails,
                   wsVars>>

-----------------------------------------------------------------------------
(* Reconcile of the Workspace. *)

\* Creating, changing the spec of, or deleting the Rollout queues it and, since
\* the controller Owns it, the Workspace.
RolloutEvent == wake' = TRUE /\ ownerWake' = TRUE

\* A call to the API server or to git fails; the Workspace is requeued.
WorkspaceFails ==
    /\ ownerWake /\ wsRef # None
    /\ fails < MaxFails /\ fails' = fails + 1
    /\ wsFinalizer' \in {wsFinalizer, wsFinalizer \/ ~wsDeleting}
    /\ wsCond' = "failed"
    /\ UNCHANGED <<rolloutVars, wake, ownerWake, configs, pc, txVars, dsVars,
                   wsRef, wsDeleting, edits>>

WorkspaceGone ==
    /\ ownerWake /\ wsRef = None
    /\ ownerWake' = FALSE
    /\ UNCHANGED <<rolloutVars, wake, configs, pc, txVars, dsVars, fails,
                   wsVars, edits>>

\* Mutant: the finalizer is removed as soon as the Rollout is asked to go.
WorkspaceDeletesAtOnce ==
    /\ ownerWake /\ wsRef # None /\ wsDeleting
    /\ deleting' = (ref # None) /\ wake' = TRUE /\ ownerWake' = FALSE
    /\ wsRef' = None /\ wsDeleting' = FALSE /\ wsFinalizer' = FALSE /\ wsCond' = "none"
    /\ UNCHANGED <<ref, skip, finalizer, cond, configs, pc, txVars, dsVars, fails,
                   edits>>

\* Deletion: the Rollout is deleted first; once it is not found the finalizer is
\* removed.  A Rollout that has no finalizer yet goes at once.
WorkspaceDeletes ==
    /\ ownerWake /\ wsRef # None /\ wsDeleting
    /\ \/ /\ ref = None
          /\ ownerWake' = FALSE
          /\ wsRef' = None /\ wsDeleting' = FALSE /\ wsFinalizer' = FALSE /\ wsCond' = "none"
          /\ UNCHANGED <<rolloutVars, wake>>
       \/ /\ ref # None /\ finalizer
          /\ deleting' = TRUE
          /\ IF deleting THEN ownerWake' = FALSE /\ UNCHANGED wake ELSE RolloutEvent
          /\ UNCHANGED <<ref, skip, finalizer, cond, wsVars>>
       \/ /\ ref # None /\ ~finalizer
          /\ RolloutEvent
          /\ ref' = None /\ cond' = "none"
          /\ UNCHANGED <<skip, deleting, finalizer, wsVars>>
    /\ UNCHANGED <<configs, pc, txVars, dsVars, fails, edits>>

\* getRolloutStatus
RolloutStatus ==
    CASE ref = None -> "new"
      [] ref # None /\ cond = "failed" -> "failed"
      [] ref # None /\ cond \in {"none", "rolling"} -> "rolling"
      [] ref # None /\ cond = "ready" /\ ref # wsRef -> "differs"
      [] ref # None /\ cond = "ready" /\ ref = wsRef -> "done"

\* The reference is downloaded and the Rollout created or updated
\* (applyRollout).  Its condition stays what it is.
WorkspaceApplies ==
    /\ ownerWake /\ wsRef # None /\ ~wsDeleting
    /\ RolloutStatus \in {"new", "differs"}
    /\ wsFinalizer' = TRUE
    /\ ref' = wsRef
    /\ RolloutEvent
    /\ wsCond' = "rolling"
    /\ UNCHANGED <<skip, deleting, finalizer, cond, configs, pc, txVars, dsVars, fails,
                   wsRef, wsDeleting, edits>>

\* The verdict of the Rollout is copied; nothing is requeued.
WorkspaceReports ==
    /\ ownerWake /\ wsRef # None /\ ~wsDeleting
    /\ RolloutStatus \in {"failed", "rolling", "done"}
    /\ wsFinalizer' = TRUE
    /\ ownerWake' = FALSE
    /\ wsCond' = CASE RolloutStatus = "failed" -> "failed"
                   [] RolloutStatus = "rolling" -> "rolling"
                   [] RolloutStatus = "done" -> "ready"
    /\ UNCHANGED <<rolloutVars, wake, configs, pc, txVars, dsVars, fails,
                   wsRef, wsDeleting, edits>>

WorkspaceStep ==
    WorkspaceGone \/ WorkspaceDeletes \/ WorkspaceApplies \/ WorkspaceReports

\* A step of the Rollout controller.
RolloutStep ==
    /\ RolloutNext
    /\ UNCHANGED <<wsVars, edits>>

Next ==
    \/ DeleteWorkspace \/ SecretEvent \/ \E r \in Refs : SetRef(r)
    \/ WorkspaceFails \/ WorkspaceStep
    \/ RolloutStep

Spec == WorkspaceInit /\ [][Next]_wvars

FairSpec == Spec /\ RolloutFairness /\ WF_wvars(WorkspaceStep)

-----------------------------------------------------------------------------
(* Properties. *)

\* A Workspace is gone only once its Rollout is, and a Rollout that was started
\* goes only once every Config is gone or asked to go: the finalizers of the two
\* controllers order the deletion, whatever fails or restarts.
DeletionIsOrdered ==
    [][/\ wsRef # None /\ wsRef' = None => ref = None
       /\ ref # None /\ ref' = None /\ finalizer =>
            \A t \in Targets : configs'[t] # "there"]_wvars
=============================================================================
