------------------------------ MODULE Discovery ------------------------------
(***************************************************************************)
(* One DiscoveryRule: its controller (src/pkg/reconcilers/discoveryrule),  *)
(* the instances of the rule it starts and stops                           *)
(* (src/pkg/discovery/discoveryrule), and the Targets they create and      *)
(* delete; the Deviations they create are in Deviations.                   *)
(*                                                                         *)
(* Each instance is a goroutine that scans its hosts, creates a Target per *)
(* host it discovers and, at the end of the pass, deletes the children of  *)
(* the rule that this pass did not discover.  Stop cancels its context:    *)
(* nothing more is sent, but what was sent before may still be executed.   *)
(***************************************************************************)
EXTENDS Naturals, FiniteSets

CONSTANTS
    Hosts,
    DRSpecs,        \* the sets of hosts a valid rule may cover
    Invalid,        \* a spec that Validate rejects
    Instances,      \* names for the instances that are alive at once
    MaxEdits,       \* bound on the changes the users make
    MaxFaults,      \* bound on failing calls, on hosts and references that go,
                    \* and on Stops that cut a request off
    None

ASSUME DiscoveryAssumption ==
    /\ DRSpecs \subseteq SUBSET Hosts /\ Hosts \in DRSpecs
    /\ None \notin DRSpecs \union Instances /\ Invalid \notin DRSpecs \union {None}
    /\ MaxEdits \in Nat /\ MaxFaults \in Nat

VARIABLES
    rule,           \* the DiscoveryRule: spec (None: no rule), version, deleting, finalizer
    ruleWake,       \* it is queued in its controller
    refs,           \* the Secrets and profiles it refers to exist
    store,          \* discoveryStore: the instance of the rule, None: none
    drs,            \* the instances
    up,             \* the hosts that answer
    inFlight,       \* requests of stopped instances the API server has not executed
    targets,        \* the Targets labelled with the rule, by host
    edits, faults,
    leaked          \* ghost: Stop found no cancel function

drVars == <<rule, ruleWake, refs, store, drs>>
dvars == <<drVars, up, inFlight, targets, edits, faults, leaked>>

NoRule == [spec |-> None, version |-> 0, deleting |-> FALSE, finalizer |-> FALSE]
Exited == [st |-> "exited", version |-> 0, cfg |-> {}, cancelled |-> FALSE,
           todo |-> {}, children |-> {}]

DiscoveryTypeOK ==
    /\ rule \in [spec : DRSpecs \union {Invalid, None}, version : 0..(MaxEdits + MaxFaults),
                 deleting : BOOLEAN, finalizer : BOOLEAN]
    /\ {ruleWake, refs, leaked} \subseteq BOOLEAN
    /\ store \in Instances \union {None}
    /\ drs \in [Instances -> [st : {"exited", "created", "idle", "scan", "delete"},
                              version : 0..(MaxEdits + MaxFaults), cfg : SUBSET Hosts,
                              cancelled : BOOLEAN, todo : SUBSET Hosts,
                              children : SUBSET Hosts]]
    /\ up \subseteq Hosts
    /\ inFlight \subseteq {"apply", "delete"} \X Hosts
    /\ targets \in [Hosts -> {"none", "live", "deleting"}]
    /\ edits \in 0..MaxEdits /\ faults \in 0..MaxFaults

DiscoveryInit ==
    /\ rule = [NoRule EXCEPT !.spec = Hosts]
    /\ ruleWake = TRUE /\ refs = TRUE
    /\ store = None /\ drs = [i \in Instances |-> Exited]
    /\ up = Hosts /\ inFlight = {}
    /\ targets = [h \in Hosts |-> "none"]
    /\ edits = 0 /\ faults = 0 /\ leaked = FALSE

Edit == edits < MaxEdits /\ edits' = edits + 1
Fault == faults < MaxFaults /\ faults' = faults + 1

-----------------------------------------------------------------------------
(* The user and the devices. *)

\* `version` stands for the generation of the rule and the resourceVersions of
\* what it refers to.  A rule that was deleted does not come back.
SetRule(s) ==
    /\ Edit /\ ~rule.deleting /\ rule.spec \notin {None, s}
    /\ rule' = [rule EXCEPT !.spec = s, !.version = @ + 1]
    /\ ruleWake' = TRUE
    /\ UNCHANGED <<refs, store, drs, up, inFlight, targets, faults, leaked>>

DeleteRule ==
    /\ Edit /\ rule.spec # None /\ ~rule.deleting
    /\ rule' = IF rule.finalizer THEN [rule EXCEPT !.deleting = TRUE]
               ELSE NoRule
    /\ ruleWake' = TRUE
    /\ UNCHANGED <<refs, store, drs, up, inFlight, targets, faults, leaked>>

\* A Secret or a profile goes, or comes back: the controller watches them.
LoseRefs ==
    /\ Fault /\ refs /\ refs' = FALSE
    /\ ruleWake' = (ruleWake \/ rule.spec # None)
    /\ UNCHANGED <<rule, store, drs, up, inFlight, targets, edits, leaked>>

RestoreRefs ==
    /\ ~refs /\ refs' = TRUE
    /\ ruleWake' = (ruleWake \/ rule.spec # None)
    /\ rule' = [rule EXCEPT !.version = IF rule.spec = None THEN 0 ELSE @ + 1]
    /\ UNCHANGED <<store, drs, up, inFlight, targets, edits, faults, leaked>>

HostDown(h) ==
    /\ Fault /\ h \in up /\ up' = up \ {h}
    /\ UNCHANGED <<drVars, inFlight, targets, edits, leaked>>

HostUp(h) ==
    /\ h \notin up /\ up' = up \union {h}
    /\ UNCHANGED <<drVars, inFlight, targets, edits, faults, leaked>>

-----------------------------------------------------------------------------
(* Reconcile of the rule. *)

\* Mutant: the instance is only forgotten.
StoppedForgets(i) == drs

\* Stop: Run stores the cancel function; before that there is none to call.
\* What is left of a cancelled pass sends nothing any more: every call it makes
\* fails at once, and it returns.
Stopped(i) ==
    IF i # None /\ drs[i].st # "created"
    THEN [drs EXCEPT ![i] = [@ EXCEPT !.st = "idle", !.cancelled = TRUE, !.todo = {},
                                      !.children = {}]]
    ELSE drs

\* What an instance may have sent without an answer: it creates the Targets of
\* several hosts at once and deletes Targets one at a time.
Unanswered(i) ==
    CASE i # None /\ drs[i].st = "scan" -> SUBSET ({"apply"} \X (drs[i].todo \cap up))
      [] i # None /\ drs[i].st = "delete" -> {{}} \union {{<<"delete", h>>} : h \in drs[i].todo}
      [] OTHER -> {{}}

\* What a Stop leaves behind: the requests R, and the ghost of a Stop that came
\* before Run.
LeftBehind(i, R) ==
    /\ inFlight' = inFlight \union R
    /\ leaked' = (leaked \/ (i # None /\ drs[i].st = "created"))

Charged(bad) == IF bad THEN Fault ELSE UNCHANGED faults

\* Validate accepts the spec of the rule.
Valid == rule.spec \in DRSpecs /\ ~rule.deleting

RuleNotFound ==
    /\ ruleWake /\ rule.spec = None /\ ruleWake' = FALSE
    /\ UNCHANGED <<rule, refs, store, drs, up, inFlight, targets, edits, faults, leaked>>

\* Stop, drop it from the store, remove the finalizer; if that fails the rule
\* is requeued.
RuleDeletes ==
    /\ ruleWake /\ rule.deleting
    /\ drs' = Stopped(store) /\ store' = None
    /\ \E R \in Unanswered(store), failed \in BOOLEAN :
          /\ LeftBehind(store, R) /\ Charged(R # {} \/ failed)
          /\ rule' = IF failed THEN rule ELSE NoRule
          /\ ruleWake' = failed
    /\ UNCHANGED <<refs, up, targets, edits>>

\* getDRConfig fails.  The status always changes (StartTime), so its own event
\* keeps the rule queued.
RuleNoConfig ==
    /\ ruleWake /\ Valid /\ ~refs
    /\ drs' = Stopped(store) /\ store' = None
    /\ \E R \in Unanswered(store) : LeftBehind(store, R) /\ Charged(R # {})
    /\ rule' = [rule EXCEPT !.finalizer = TRUE]
    /\ UNCHANGED <<ruleWake, refs, up, targets, edits>>

\* HasChanged says no.
RuleUnchanged ==
    /\ ruleWake /\ Valid /\ refs
    /\ store # None /\ drs[store].version = rule.version
    /\ ruleWake' = FALSE
    /\ UNCHANGED <<rule, refs, store, drs, up, inFlight, targets, edits, faults, leaked>>

\* The instance in the store is stopped, and a new one is created and run in a
\* goroutine of its own.
RuleStarts ==
    /\ ruleWake /\ Valid /\ refs
    /\ store # None => drs[store].version # rule.version
    /\ \E i \in Instances : drs[i].st = "exited"
    /\ store' = CHOOSE i \in Instances : drs[i].st = "exited"
    /\ drs' = [Stopped(store) EXCEPT ![store'] =
                  [Exited EXCEPT !.st = "created", !.version = rule.version,
                                 !.cfg = rule.spec]]
    /\ \E R \in Unanswered(store) : LeftBehind(store, R) /\ Charged(R # {})
    /\ rule' = [rule EXCEPT !.finalizer = TRUE]
    /\ UNCHANGED <<ruleWake, refs, up, targets, edits>>

\* Validate fails, as long as the spec is what it is, and an instance of an older
\* spec runs on; or the finalizer or the status cannot be written.  The rule is
\* requeued.
RuleFails ==
    /\ ruleWake /\ rule.spec # None /\ ~rule.deleting
    /\ \/ rule.spec = Invalid /\ UNCHANGED faults
       \/ Fault
    /\ UNCHANGED <<drVars, up, inFlight, targets, edits, leaked>>

-----------------------------------------------------------------------------
(* An instance of the rule. *)

\* Run: from here on Stop reaches it.
RunBegins(i) ==
    /\ drs[i].st = "created"
    /\ drs' = [drs EXCEPT ![i].st = "idle"]
    /\ UNCHANGED <<rule, ruleWake, refs, store, up, inFlight, targets, edits, faults, leaked>>

\* Between two passes it looks at its context; a pass starts without children.
PassBegins(i) ==
    /\ drs[i].st = "idle"
    /\ drs' = [drs EXCEPT ![i] =
                  IF @.cancelled THEN Exited
                  ELSE [@ EXCEPT !.st = "scan", !.todo = drs[i].cfg]]
    /\ UNCHANGED <<rule, ruleWake, refs, store, up, inFlight, targets, edits, faults, leaked>>

\* The Target of a host when an Apply of it is executed: one that is being
\* deleted stays so.
Applied(h) == [targets EXCEPT ![h] = IF @ = "none" THEN "live" ELSE @]

\* The Target of a host when a Delete of it is executed.
Deleted(h) == [targets EXCEPT ![h] = IF @ = "live" THEN "deleting" ELSE @]

\* createTarget: the child is recorded, then its Target is applied.  The call
\* may fail.
Discover(i, h) ==
    /\ drs[i].st = "scan" /\ h \in drs[i].todo /\ h \in up
    /\ drs' = [drs EXCEPT ![i].todo = @ \ {h}, ![i].children = @ \union {h}]
    /\ \/ targets' = Applied(h) /\ UNCHANGED faults
       \/ Fault /\ UNCHANGED targets
    /\ UNCHANGED <<rule, ruleWake, refs, store, up, inFlight, edits, leaked>>

\* The host does not answer.
DiscoverFails(i, h) ==
    /\ drs[i].st = "scan" /\ h \in drs[i].todo /\ h \notin up
    /\ drs' = [drs EXCEPT ![i].todo = @ \ {h}]
    /\ UNCHANGED <<rule, ruleWake, refs, store, up, inFlight, targets, edits, faults, leaked>>

\* The pass of i goes on with the Targets in T to be deleted, or is over.
Deleting(i, T) ==
    drs' = [drs EXCEPT ![i] = IF T # {} THEN [@ EXCEPT !.st = "delete", !.todo = T]
                              ELSE [@ EXCEPT !.st = "idle", !.todo = {}, !.children = {}]]

\* Mutant: the pass ends without deleting anything.
PassListsNone(i) ==
    /\ drs[i].st = "scan" /\ drs[i].todo = {} /\ Deleting(i, {})
    /\ UNCHANGED <<rule, ruleWake, refs, store, up, inFlight, targets, edits, faults, leaked>>

\* All hosts are scanned.  deleteUnWantedTargets lists the Targets of the rule,
\* which may fail; those that this pass did not discover are to be deleted.
PassLists(i) ==
    /\ drs[i].st = "scan" /\ drs[i].todo = {}
    /\ \/ Deleting(i, {h \in Hosts \ drs[i].children : targets[h] # "none"})
          /\ UNCHANGED faults
       \/ Fault /\ Deleting(i, {})
    /\ UNCHANGED <<rule, ruleWake, refs, store, up, inFlight, targets, edits, leaked>>

\* One Delete; when it fails the next one is tried.
DeleteUnwanted(i, h) ==
    /\ drs[i].st = "delete" /\ h \in drs[i].todo
    /\ Deleting(i, drs[i].todo \ {h})
    /\ \/ targets' = Deleted(h) /\ UNCHANGED faults
       \/ Fault /\ UNCHANGED targets
    /\ UNCHANGED <<rule, ruleWake, refs, store, up, inFlight, edits, leaked>>

-----------------------------------------------------------------------------
(* The API server and the controllers of the Target. *)

\* A request of a stopped instance is executed, or lost.
LateRequest(r) ==
    /\ r \in inFlight /\ inFlight' = inFlight \ {r}
    /\ targets' \in {targets, IF r[1] = "apply" THEN Applied(r[2]) ELSE Deleted(r[2])}
    /\ UNCHANGED <<drVars, up, edits, faults, leaked>>

\* The garbage collector: the owner of the Target is gone.
CollectTarget(h) ==
    /\ rule.spec = None /\ targets[h] = "live"
    /\ targets' = [targets EXCEPT ![h] = "deleting"]
    /\ UNCHANGED <<drVars, up, inFlight, edits, faults, leaked>>

\* The finalizers of a deleted Target are done.
TargetGone(h) ==
    /\ targets[h] = "deleting"
    /\ targets' = [targets EXCEPT ![h] = "none"]
    /\ UNCHANGED <<drVars, up, inFlight, edits, faults, leaked>>

RuleReconcile ==
    RuleNotFound \/ RuleDeletes \/ RuleNoConfig \/ RuleUnchanged \/ RuleStarts

Instance(i) ==
    \/ RunBegins(i) \/ PassBegins(i) \/ PassLists(i)
    \/ \E h \in Hosts : Discover(i, h) \/ DiscoverFails(i, h) \/ DeleteUnwanted(i, h)

\* What discovery does that no other controller sees.
DiscoveryInternal ==
    \/ \E s \in DRSpecs \union {Invalid} : SetRule(s)
    \/ DeleteRule \/ LoseRefs \/ RestoreRefs
    \/ \E h \in Hosts : HostDown(h) \/ HostUp(h)
    \/ RuleReconcile \/ RuleFails

\* What may change a Target.
TargetStep ==
    \/ \E i \in Instances : Instance(i)
    \/ \E h \in Hosts : CollectTarget(h) \/ TargetGone(h)
    \/ \E r \in inFlight : LateRequest(r)
=============================================================================
