-------------------------------- MODULE Fleet --------------------------------
(***************************************************************************)
(* Discovery and the ConfigSet controller (src/pkg/reconcilers/configset): *)
(* the Targets that come and go are events for a ConfigSet, which keeps    *)
(* one Config per Target it selects.  The controllers of Target and Config *)
(* are their outcomes: a Config is applied or not, a deletion completes.   *)
(***************************************************************************)
EXTENDS Discovery

CONSTANT CSSpecs    \* the specs a ConfigSet may have

ASSUME FleetAssumption ==
    /\ CSSpecs # {} /\ None \notin CSSpecs
    /\ None \notin [targets : SUBSET Hosts, spec : CSSpecs]

VARIABLES
    cs,             \* the ConfigSet: spec (None: none), deleting, finalizer,
                    \* status: cond and the state it shows per target
    csWake,         \* it is queued in its controller
    csPass,         \* the Targets a pass has listed, None: no pass
    configs,        \* its Configs, by host
    csFailed        \* ghost: the last pass left something undone

csVars == <<cs, csWake, csPass, configs, csFailed>>
vars == <<dvars, csVars>>

NoShown == [h \in Hosts |-> "absent"]
NoSet == [spec |-> None, deleting |-> FALSE, finalizer |-> FALSE, cond |-> "none",
          shown |-> NoShown]
NoConfig == [spec |-> None, deleting |-> FALSE, ready |-> FALSE]

Init ==
    /\ DiscoveryInit
    /\ cs = [NoSet EXCEPT !.spec = CHOOSE s \in CSSpecs : TRUE]
    /\ csWake = TRUE /\ csPass = None
    /\ configs = [h \in Hosts |-> NoConfig]
    /\ csFailed = FALSE

Exists(h) == configs[h].spec # None
Live == {h \in Hosts : targets[h] = "live"}

\* The events of Targets and of owned Configs queue the ConfigSet.
Event == csWake' = (cs.spec # None)

-----------------------------------------------------------------------------
(* The user. *)

SetConfigSet(s) ==
    /\ Edit /\ ~cs.deleting /\ s # cs.spec
    /\ cs' = [cs EXCEPT !.spec = s]
    /\ csWake' = TRUE
    /\ UNCHANGED <<drVars, up, inFlight, targets, faults, leaked, csPass, configs, csFailed>>

DeleteConfigSet ==
    /\ Edit /\ cs.spec # None /\ ~cs.deleting
    /\ cs' = IF cs.finalizer THEN [cs EXCEPT !.deleting = TRUE] ELSE NoSet
    /\ csWake' = TRUE
    /\ UNCHANGED <<drVars, up, inFlight, targets, faults, leaked, csPass, configs, csFailed>>

-----------------------------------------------------------------------------
(* Reconcile of the ConfigSet. *)

SetNotFound ==
    /\ csWake /\ csPass = None /\ cs.spec = None /\ csWake' = FALSE
    /\ UNCHANGED <<dvars, cs, csPass, configs, csFailed>>

\* AddFinalizer, then unrollDownstreamTargets: the Targets that are not being
\* deleted.
ListTargets ==
    /\ csWake /\ csPass = None /\ cs.spec # None /\ ~cs.deleting
    /\ csWake' = FALSE
    /\ cs' = [cs EXCEPT !.finalizer = TRUE]
    /\ csPass' = [targets |-> Live, spec |-> cs.spec]
    /\ UNCHANGED <<dvars, configs, csFailed>>

\* The finalizer cannot be written, or is and the Targets not listed: requeued.
ListTargetsFails ==
    /\ csWake /\ csPass = None /\ cs.spec # None /\ ~cs.deleting
    /\ Fault
    /\ \E f \in {cs.finalizer, TRUE} :
          cs' = [cs EXCEPT !.cond = "failed", !.finalizer = f]
    /\ UNCHANGED <<drVars, up, inFlight, targets, edits, leaked, csWake, csPass, configs, csFailed>>

\* What ensureConfigs makes of one Config when the calls for the hosts in F fail.
Ensured(h, F) ==
    CASE h \in F -> configs[h]
      [] h \in csPass.targets \ F /\ ~Exists(h) -> [NoConfig EXCEPT !.spec = csPass.spec]
      [] h \in csPass.targets \ F /\ Exists(h) -> [configs[h] EXCEPT !.spec = csPass.spec]
      [] h \notin csPass.targets \union F /\ Exists(h) -> [configs[h] EXCEPT !.deleting = TRUE]
      [] OTHER -> configs[h]

\* The state it shows for one Target; a Config that is as it should be needs no
\* call, if the Configs were listed.
Shown(h, F, listed) ==
    CASE h \notin csPass.targets -> "absent"
      [] h \in csPass.targets /\ listed /\ configs[h].spec = csPass.spec ->
            IF configs[h].ready THEN "ready" ELSE "notready"
      [] h \in csPass.targets /\ ~(listed /\ configs[h].spec = csPass.spec) ->
            IF h \in F THEN "failed" ELSE "pending"

\* ensureConfigs, determineOverallStatus and the status.  A status that changes
\* and a Config that changes are events; a failed call alone is none.
EnsureConfigs(F, listed) ==
    /\ csPass # None
    /\ LET shown == [h \in Hosts |-> Shown(h, F, listed)]
           cond  == IF \E h \in Hosts : shown[h] \in {"pending", "failed", "notready"}
                    THEN "failed" ELSE "ready"
       IN  /\ configs' = [h \in Hosts |-> Ensured(h, F)]
           /\ cs' = IF cs.spec = None THEN cs ELSE [cs EXCEPT !.cond = cond, !.shown = shown]
           /\ csWake' = (csWake \/ cs' # cs \/ configs' # configs)
    /\ csFailed' = \E h \in F : Ensured(h, {}) # configs[h]
    /\ csPass' = None
    /\ UNCHANGED <<drVars, up, inFlight, targets, leaked, edits>>

\* A list of the Configs that fails looks like none: each one that exists is
\* created again, which fails, and none is deleted.
Ensure ==
    \/ EnsureConfigs({}, TRUE) /\ UNCHANGED faults
    \/ \E h \in Hosts : Fault /\ EnsureConfigs({h}, TRUE)
    \/ Fault /\ EnsureConfigs({h \in Hosts : Exists(h)}, FALSE)

\* The Configs are deleted; only when a pass finds none is the finalizer removed.
\* A failed call, of which the others are none the worse, requeues the ConfigSet;
\* but a list that fails looks like none.
DeleteConfigs ==
    /\ csWake /\ csPass = None /\ cs.deleting
    /\ \/ /\ \E h \in Hosts : Exists(h)
          /\ configs' = [h \in Hosts |-> [configs[h] EXCEPT !.deleting = Exists(h)]]
          /\ csWake' = FALSE
          /\ UNCHANGED <<cs, faults>>
       \/ /\ ((\A h \in Hosts : ~Exists(h)) /\ UNCHANGED faults) \/ Fault
          /\ cs' = NoSet /\ csWake' = FALSE
          /\ UNCHANGED configs
       \/ /\ Fault /\ cs' = [cs EXCEPT !.cond = "failed"]
          /\ \E S \in SUBSET {h \in Hosts : Exists(h)} :
                configs' = [h \in Hosts |-> IF h \in S THEN [configs[h] EXCEPT !.deleting = TRUE]
                                           ELSE configs[h]]
          /\ UNCHANGED csWake
    /\ UNCHANGED <<drVars, up, inFlight, targets, edits, leaked, csPass, csFailed>>

-----------------------------------------------------------------------------
(* The controllers of the Config. *)

\* The Config is applied to its target; a Config that is ready stays so while a
\* new spec waits for its transaction.
ConfigReady(h) ==
    /\ Exists(h) /\ ~configs[h].deleting /\ ~configs[h].ready /\ targets[h] = "live"
    /\ configs' = [configs EXCEPT ![h].ready = TRUE]
    /\ Event
    /\ UNCHANGED <<dvars, cs, csPass, csFailed>>

ConfigGone(h) ==
    /\ configs[h].deleting
    /\ configs' = [configs EXCEPT ![h] = NoConfig]
    /\ Event
    /\ UNCHANGED <<dvars, cs, csPass, csFailed>>

\* The garbage collector, when the ConfigSet went without its Configs.
CollectConfig(h) ==
    /\ cs.spec = None /\ csPass = None /\ Exists(h) /\ ~configs[h].deleting
    /\ configs' = [configs EXCEPT ![h].deleting = TRUE]
    /\ UNCHANGED <<dvars, cs, csWake, csPass, csFailed>>

-----------------------------------------------------------------------------
\* Mutant: nothing watches the Targets.
Unwatched(A) == A /\ UNCHANGED csVars

\* The watch of Targets queues the ConfigSet when one is created or changes.
Watched(A) ==
    /\ A
    /\ csWake' = (csWake \/ (cs.spec # None /\ targets' # targets))
    /\ UNCHANGED <<cs, csPass, configs, csFailed>>

SetReconcile == SetNotFound \/ ListTargets \/ Ensure \/ DeleteConfigs

Next ==
    \/ DiscoveryInternal /\ UNCHANGED csVars
    \/ Watched(TargetStep)
    \/ \E s \in CSSpecs : SetConfigSet(s)
    \/ DeleteConfigSet
    \/ SetReconcile \/ ListTargetsFails
    \/ \E h \in Hosts : ConfigReady(h) \/ ConfigGone(h) \/ CollectConfig(h)

Spec == Init /\ [][Next]_vars

\* The controllers' workers, the goroutines of the instances, the garbage
\* collector and the controllers of Target and Config go on.  A host that is
\* scanned again and again is not always cut off; nothing is assumed of users,
\* failures and references.
Fairness ==
    /\ WF_vars(RuleReconcile /\ UNCHANGED csVars)
    /\ \A i \in Instances : WF_vars(Watched(Instance(i)))
    /\ \A h \in Hosts : WF_vars(Watched(CollectTarget(h))) /\ WF_vars(Watched(TargetGone(h)))
    /\ WF_vars(SetNotFound) /\ WF_vars(ListTargets) /\ WF_vars(Ensure) /\ WF_vars(DeleteConfigs)
    /\ \A h \in Hosts : WF_vars(ConfigReady(h)) /\ WF_vars(ConfigGone(h))
                        /\ WF_vars(CollectConfig(h))

FairSpec == Spec /\ Fairness

-----------------------------------------------------------------------------
(* Properties. *)

(* Types, and what the states of the two controllers have to do with each other:
   an instance in the store was not stopped, and a ConfigSet being deleted has
   its finalizer. *)
FleetTypeOK ==
    /\ DiscoveryTypeOK
    /\ cs \in [spec : CSSpecs \union {None}, deleting : BOOLEAN, finalizer : BOOLEAN,
               cond : {"none", "ready", "failed"},
               shown : [Hosts -> {"absent", "pending", "failed", "notready", "ready"}]]
    /\ {csWake, csFailed} \subseteq BOOLEAN
    /\ csPass \in {None} \union [targets : SUBSET Hosts, spec : CSSpecs]
    /\ configs \in [Hosts -> [spec : CSSpecs \union {None}, deleting : BOOLEAN,
                              ready : BOOLEAN]]
    /\ store # None => drs[store].st # "exited" /\ ~drs[store].cancelled
    /\ cs.deleting => cs.finalizer /\ cs.spec # None

(* While the rule is there, a Target is deleted only by the instance of the rule
   the controller knows, for a host its pass did not discover, or by the Delete
   that instance had sent when it was stopped: an instance that was stopped, with
   the hosts of an older spec, sends none any more.  (Stop cancels the context,
   under which deleteUnWantedChildren lists and deletes.) *)
MayDelete(h) ==
    store # None /\ drs[store].st = "delete" /\ h \notin drs[store].children

OnlyCurrentDeletes ==
    [][\A h \in Hosts :
          /\ targets[h] = "live" /\ targets'[h] = "deleting" /\ rule.spec # None /\ ~leaked =>
                MayDelete(h) \/ <<"delete", h>> \in inFlight \ inFlight'
          /\ <<"delete", h>> \in inFlight' \ inFlight => MayDelete(h) /\ store' # store]_vars

(* Whenever the ConfigSet is not queued and no pass is running, the Configs are
   the ones its spec and the Targets of now call for, unless the last pass failed:
   no event of a Target or a Config may get lost between the list of a pass and
   its end. *)
ConfigsAreCurrent ==
    ~csWake /\ csPass = None /\ cs.spec # None /\ ~cs.deleting /\ ~csFailed =>
        /\ \A h \in Live : configs[h].spec = cs.spec
        /\ \A h \in Hosts \ Live : Exists(h) => configs[h].deleting

(* In the end, unless the rule's spec is invalid, there is a Target exactly for
   every host of the rule that answers, with a Config of the ConfigSet that the
   controllers did not give up on, and what was deleted is gone. *)
FleetConverges ==
    <>[](refs /\ ~leaked /\ rule.spec # Invalid =>
            /\ \A h \in Hosts :
                  targets[h] = IF rule.spec # None /\ h \in rule.spec \cap up THEN "live" ELSE "none"
            /\ ~csFailed => \A h \in Hosts :
                  configs[h] = IF cs.spec # None /\ targets[h] = "live"
                               THEN [spec |-> cs.spec, deleting |-> FALSE, ready |-> TRUE]
                               ELSE NoConfig)
=============================================================================
