------------------------------- MODULE Schema --------------------------------
(***************************************************************************)
(* The Schema controller (src/pkg/reconcilers/schema) and its loader       *)
(* (src/pkg/schema): the repositories of a Schema are copied into the      *)
(* directory of its provider and version, and the schema-server (external) *)
(* makes a schema of what it finds there.                                  *)
(*                                                                         *)
(* There is one Schema; it may be deleted and created again.  The copy of  *)
(* a repository is there or not.  The loader's references are lost with    *)
(* the process, directory and schema-server stay.                          *)
(***************************************************************************)
EXTENDS Naturals

CONSTANTS
    Repos,          \* repositories a Schema may name
    MaxEdits,       \* bound on what the user does
    MaxFaults,      \* bound on failing calls and restarts
    None

ASSUME SchemaAssumption ==
    /\ MaxEdits \in Nat /\ MaxFaults \in Nat
    /\ \A s \in SUBSET Repos : None # s

VARIABLES
    cr,             \* the Schema in the API server
    wake,           \* it is in the controller's queue
    pc,             \* where Reconcile is
    seen, before,   \* spec.repositories and the condition as this Reconcile read them
    todo, failed,   \* Load: repositories to come, and whether one had an error
    refs,           \* Loader.schemas: the repositories of the reference, or None
    dir,            \* copies in the directory, None when it does not exist
    server,         \* the schema in the schema-server, or None
    edits, faults,
    gaps            \* ghost: why what is loaded may differ from the spec

passVars == <<pc, seen, before, todo, failed>>
vars == <<cr, wake, passVars, refs, dir, server, edits, faults, gaps>>

Specs == (SUBSET Repos) \ {{}}
\* "unloaded" is the condition Failed with the message of a load, "failed" any other.
Conditions == {"none", "loading", "unloaded", "failed", "ready"}
NoCR == [spec |-> None, deleting |-> FALSE, finalizer |-> FALSE, cond |-> "none"]

SchemaTypeOK ==
    /\ cr \in [spec : Specs \union {None}, deleting : BOOLEAN, finalizer : BOOLEAN,
               cond : Conditions]
    /\ wake \in BOOLEAN
    /\ pc \in {"idle", "load", "server", "create", "unserve", "unref", "unfinalize"}
    /\ seen \in Specs \union {None} /\ before \in Conditions
    /\ todo \subseteq Repos /\ failed \in BOOLEAN
    /\ refs \in Specs \union {None}
    /\ dir \in (SUBSET Repos) \union {None}
    /\ server \in [content : SUBSET Repos, st : {"initializing", "ok", "failed"}] \union {None}
    /\ edits \in 0..MaxEdits /\ faults \in 0..MaxFaults
    /\ gaps \subseteq {"partial", "changed", "leftover", "unreachable", "unsaid"}
    /\ pc # "idle" => cr.finalizer /\ cr.spec # None
    /\ pc \in {"load", "server", "create"} => refs = seen

Init ==
    /\ cr = NoCR /\ wake = FALSE
    /\ pc = "idle" /\ seen = None /\ before = "none" /\ todo = {} /\ failed = FALSE
    /\ refs = None /\ dir = None /\ server = None
    /\ edits = 0 /\ faults = 0 /\ gaps = {}

Edit == edits < MaxEdits /\ edits' = edits + 1
Fault == faults < MaxFaults /\ faults' = faults + 1

-----------------------------------------------------------------------------
(* The user. *)

CreateSchema(s) ==
    /\ Edit /\ cr.spec = None
    /\ cr' = [NoCR EXCEPT !.spec = s] /\ wake' = TRUE
    /\ UNCHANGED <<passVars, refs, dir, server, faults, gaps>>

\* Provider and version are immutable, the repositories are not; a directory
\* that exists is not loaded again.
ChangeRepositories(s) ==
    /\ Edit /\ cr.spec # None /\ ~cr.deleting /\ s # cr.spec
    /\ cr' = [cr EXCEPT !.spec = s] /\ wake' = TRUE
    /\ gaps' = IF dir = None /\ pc = "idle" THEN gaps ELSE gaps \union {"changed"}
    /\ UNCHANGED <<passVars, refs, dir, server, faults>>

DeleteCR ==
    /\ Edit /\ cr.spec # None /\ ~cr.deleting
    /\ cr' = IF cr.finalizer THEN [cr EXCEPT !.deleting = TRUE] ELSE NoCR
    /\ wake' = TRUE
    /\ UNCHANGED <<passVars, refs, dir, server, faults, gaps>>

\* A Secret that a repository uses changes.
SecretEvent ==
    /\ Edit /\ cr.spec # None /\ wake' = TRUE
    /\ UNCHANGED <<cr, passVars, refs, dir, server, faults, gaps>>

-----------------------------------------------------------------------------
(* Reconcile. *)

Idle ==
    pc' = "idle" /\ seen' = None /\ before' = "none" /\ todo' = {} /\ failed' = FALSE

\* The pass took its Schema off the queue when it began; what has come since stays.
Requeued == wake /\ pc # "idle"

\* handleError: nothing is requeued, and a status is no event for this
\* controller; only a status that cannot be written brings the Schema back.  The
\* condition is compared with the one from before the pass, and a load may fail
\* with the same message again: then Loading, which the pass wrote, stays.
HandleError(c, cond) ==
    /\ Idle
    /\ \/ cr' = [c EXCEPT !.cond = cond] /\ wake' = Requeued
       \/ cond = "unloaded" /\ before = cond /\ cr' = c /\ wake' = Requeued
       \/ cr' = c /\ wake' = TRUE

\* handleSuccess
HandleSuccess ==
    /\ Idle
    /\ \/ cr' = [cr EXCEPT !.cond = "ready"] /\ UNCHANGED <<wake, faults>>
       \/ Fault /\ UNCHANGED cr /\ wake' = TRUE

NotFound ==
    /\ pc = "idle" /\ wake /\ cr.spec = None
    /\ wake' = FALSE
    /\ UNCHANGED <<cr, passVars, refs, dir, server, edits, faults, gaps>>

\* AddFinalizer, AddRef, GetRef, and the condition Loading if there is nothing
\* in the directory's place.
Begin ==
    /\ pc = "idle" /\ wake /\ cr.spec # None /\ ~cr.deleting
    /\ wake' = FALSE
    /\ refs' = cr.spec /\ seen' = cr.spec /\ before' = cr.cond
    /\ IF dir = None
       THEN /\ cr' = [cr EXCEPT !.finalizer = TRUE, !.cond = "loading"]
            /\ pc' = "load" /\ todo' = cr.spec
       ELSE /\ cr' = [cr EXCEPT !.finalizer = TRUE]
            /\ pc' = "server" /\ UNCHANGED todo
    /\ gaps' = gaps \ {"unsaid"}
    /\ UNCHANGED <<failed, dir, server, edits, faults>>

\* Get, AddFinalizer or the condition Loading fails: unless not even the status can
\* be written, or it was Get, the Schema waits for its next event.
BeginFails ==
    /\ pc = "idle" /\ wake /\ cr.spec # None /\ ~cr.deleting
    /\ Fault
    /\ \/ UNCHANGED refs /\ HandleError(cr, "failed")
       \/ refs' \in {refs, cr.spec} /\ HandleError([cr EXCEPT !.finalizer = TRUE], "failed")
    /\ UNCHANGED <<dir, server, edits, gaps>>

\* download: one repository is cloned and copied.  A failure is kept and the next
\* one tried; a copy that failed may have made the directory.
Base == IF dir = None THEN {} ELSE dir

LoadRepo(r) ==
    /\ pc = "load" /\ r \in todo
    /\ todo' = todo \ {r}
    /\ \/ dir' = Base \union {r} /\ UNCHANGED <<failed, faults>>
       \/ Fault /\ failed' = TRUE /\ dir' \in {dir, Base}
    /\ UNCHANGED <<cr, wake, pc, seen, before, refs, server, edits, gaps>>

\* Mutant: Load has succeeded when the directory is there.
LoadedAnyway ==
    /\ pc = "load" /\ todo = {}
    /\ \/ dir = None /\ HandleError(cr, "failed")
       \/ dir # None /\ pc' = "server" /\ UNCHANGED <<cr, wake, seen, before, todo, failed>>
    /\ UNCHANGED <<refs, dir, server, edits, faults, gaps>>

\* Mutant: the error of Load ends the pass without a status.
LoadedSilently ==
    /\ pc = "load" /\ todo = {}
    /\ \/ failed /\ Idle /\ UNCHANGED <<cr, wake>>
          /\ gaps' = IF dir = None THEN gaps ELSE gaps \union {"partial"}
       \/ ~failed /\ pc' = "server" /\ UNCHANGED <<cr, wake, seen, before, todo, failed, gaps>>
    /\ UNCHANGED <<refs, dir, server, edits, faults>>

\* The end of Load.  What was copied before a failure stays.
Loaded ==
    /\ pc = "load" /\ todo = {}
    /\ \/ /\ failed
          /\ HandleError(cr, "unloaded")
          /\ gaps' = gaps \union (IF dir = None THEN {} ELSE {"partial"})
                         \union (IF cr'.cond = "loading" THEN {"unsaid"} ELSE {})
       \/ /\ ~failed
          /\ pc' = "server"
          /\ UNCHANGED <<cr, wake, seen, before, todo, failed, gaps>>
    /\ UNCHANGED <<refs, dir, server, edits, faults>>

ServerStatus == IF server = None THEN "none" ELSE server.st

\* GetSchemaDetails: a schema that is not there, or failed, is created.  An error
\* counts as not there too; then the schema-server refuses to create it again.
GetSchemaDetails ==
    /\ pc = "server"
    /\ \/ /\ ServerStatus \in {"none", "failed"}
          /\ pc' = "create"
          /\ server' = [content |-> dir, st |-> "initializing"]
          /\ UNCHANGED <<cr, wake, seen, before, todo, failed, faults>>
       \/ /\ ServerStatus = "initializing"
          /\ HandleError(cr, "failed")
          /\ UNCHANGED <<server, faults>>
       \/ /\ ServerStatus = "ok"
          /\ HandleSuccess
          /\ UNCHANGED server
       \/ /\ Fault
          /\ HandleError(cr, "failed")
          /\ UNCHANGED server
    /\ UNCHANGED <<refs, dir, edits, gaps>>

\* CreateSchema returns.
CreateReturns ==
    /\ pc = "create"
    /\ \/ ServerStatus = "ok" /\ HandleSuccess
       \/ ServerStatus = "failed" /\ HandleError(cr, "failed") /\ UNCHANGED faults
    /\ UNCHANGED <<refs, dir, server, edits, gaps>>

-----------------------------------------------------------------------------
(* Deletion: schema-server, directory, finalizer. *)

\* Mutant: the schema-server keeps the schema.
UnserveNothing ==
    /\ pc = "idle" /\ wake /\ cr.deleting
    /\ wake' = FALSE
    /\ pc' = "unref"
    /\ UNCHANGED <<cr, seen, before, todo, failed, refs, dir, server, edits, faults, gaps>>

\* "in case of err it does not exist" (reconciler.go:153): a schema-server that
\* cannot be asked keeps its schema.
Unserve ==
    /\ pc = "idle" /\ wake /\ cr.deleting
    /\ wake' = FALSE
    /\ pc' = "unref"
    /\ \/ server' = None /\ UNCHANGED <<faults, gaps>>
       \/ /\ server # None /\ Fault
          /\ gaps' = gaps \union {"unreachable"}
          /\ UNCHANGED server
    /\ UNCHANGED <<cr, seen, before, todo, failed, refs, dir, edits>>

\* The schema-server cannot be reached, or does not delete: the deletion hangs, as
\* after any failing step of it, until the next event or restart.
UnserveFails ==
    /\ pc = "idle" /\ wake /\ cr.deleting
    /\ Fault
    /\ HandleError(cr, "failed")
    /\ UNCHANGED <<refs, dir, server, edits, gaps>>

\* DelRef: without a reference, as after a restart, the directory stays.  A
\* removal that fails leaves some of it.
DelRef ==
    /\ pc = "unref"
    /\ \/ /\ refs = None
          /\ pc' = "unfinalize"
          /\ gaps' = IF dir = None THEN gaps ELSE gaps \union {"leftover"}
          /\ UNCHANGED <<cr, wake, seen, before, todo, failed, refs, dir, faults>>
       \/ /\ refs # None
          /\ pc' = "unfinalize"
          /\ refs' = None /\ dir' = None
          /\ UNCHANGED <<cr, wake, seen, before, todo, failed, faults, gaps>>
       \/ /\ refs # None /\ dir # None /\ Fault
          /\ dir' \in SUBSET dir
          /\ gaps' = gaps \union {"partial"}
          /\ HandleError(cr, "failed")
          /\ UNCHANGED refs
    /\ UNCHANGED <<server, edits>>

RemoveFinalizer ==
    /\ pc = "unfinalize"
    /\ \/ /\ Idle /\ cr' = NoCR
          /\ gaps' = IF dir = None /\ server = None THEN {} ELSE gaps
          /\ UNCHANGED <<wake, faults>>
       \/ /\ Fault /\ HandleError(cr, "failed")
          /\ UNCHANGED gaps
    /\ UNCHANGED <<refs, dir, server, edits>>

-----------------------------------------------------------------------------
(* The schema-server and the process. *)

\* The schema-server has parsed the directory.
ServerEnds ==
    /\ ServerStatus = "initializing"
    /\ \/ server' = [server EXCEPT !.st = "ok"] /\ UNCHANGED faults
       \/ Fault /\ server' = [server EXCEPT !.st = "failed"]
    /\ UNCHANGED <<cr, wake, passVars, refs, dir, edits, gaps>>

\* The process restarts: references are lost, every Schema is queued.
Restart ==
    /\ Fault
    /\ Idle /\ refs' = None /\ wake' = (cr.spec # None)
    /\ gaps' = IF pc = "load" /\ dir # None THEN gaps \union {"partial"} ELSE gaps
    /\ UNCHANGED <<cr, dir, server, edits>>

ReconcileStep ==
    \/ NotFound \/ Begin \/ Loaded \/ GetSchemaDetails \/ CreateReturns
    \/ Unserve \/ DelRef \/ RemoveFinalizer
    \/ \E r \in Repos : LoadRepo(r)

Next ==
    \/ DeleteCR \/ SecretEvent
    \/ \E s \in Specs : CreateSchema(s) \/ ChangeRepositories(s)
    \/ ReconcileStep \/ BeginFails \/ UnserveFails
    \/ ServerEnds \/ Restart

Spec == Init /\ [][Next]_vars

\* The worker goes on and the schema-server ends what it began.
FairSpec == Spec /\ WF_vars(ReconcileStep) /\ WF_vars(ServerEnds)

-----------------------------------------------------------------------------
(* Properties. *)

\* A Ready Schema is the one its repositories describe: all of them are in the
\* directory, nothing of an earlier Schema is, and this is what the schema-server
\* parsed.  Excepted are the gaps the controller does not notice: a load that
\* failed or was cut off half-way, repositories that were changed, and what an
\* earlier deletion left.
ReadyIsLoaded ==
    cr.cond = "ready" /\ ~cr.deleting /\ gaps \subseteq {"unsaid"} =>
        /\ dir = cr.spec
        /\ server = [content |-> cr.spec, st |-> "ok"]

\* A Schema is gone only with its directory, its reference and the schema in the
\* schema-server ("delete the reference from disk", reconciler.go:164).  Excepted
\* are a deletion after a restart, which has lost the reference, and one that
\* could not reach the schema-server.
GoneIsRemoved ==
    cr.spec = None => /\ refs = None
                      /\ dir # None => "leftover" \in gaps
                      /\ server # None => "unreachable" \in gaps

\* A Schema does not stay undecided: whatever fails and whenever the process
\* restarts, in the end it says Ready or Failed, or is gone.  Excepted is a load
\* that failed twice in the same way, after which it goes on saying Loading.
SchemaIsDecided ==
    cr.spec # None ~> \/ cr.spec = None \/ cr.cond \in {"ready", "failed", "unloaded"}
                      \/ "unsaid" \in gaps
=============================================================================
