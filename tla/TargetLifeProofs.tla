-------------------------- MODULE TargetLifeProofs --------------------------
(***************************************************************************)
(* Proofs about who creates, uses and removes Targets: discovery and the   *)
(* ConfigSet controller (Discovery, Fleet), and the life of one Target     *)
(* (TargetDatastore).                                                      *)
(*                                                                         *)
(* DiscoveryInv holds for the DiscoveryRule and its instances, SetInv for  *)
(* the ConfigSet and its pass.  The only thing the second needs of the     *)
(* first is that what discovery does to Targets are steps the ConfigSet    *)
(* watches; so each half is proved on its own.  LifeInv holds for every    *)
(* number of creations, crashes and changes of the discovery condition of  *)
(* a Target, whichever runtime events are dropped.                         *)
(***************************************************************************)
EXTENDS Fleet, TargetDatastore, TLAPS

-----------------------------------------------------------------------------
(* The inductive invariant. *)

Versions == 0..(MaxEdits + MaxFaults)
Rules == [spec : DRSpecs \union {Invalid, None}, version : Versions, deleting : BOOLEAN,
          finalizer : BOOLEAN]

\* A pass deletes what it did not discover; a cancelled one is over.
DRs == {d \in [st : {"exited", "created", "idle", "scan", "delete"}, version : Versions,
               cfg : SUBSET Hosts, cancelled : BOOLEAN, todo : SUBSET Hosts,
               children : SUBSET Hosts] :
          /\ d.st = "delete" => d.todo \cap d.children = {}
          /\ d.cancelled => d.st = "idle"}

\* A Delete left behind was sent by the instance that was in the store.
CurrentSends ==
    \A h \in Hosts :
       <<"delete", h>> \in inFlight' \ inFlight => MayDelete(h) /\ store' # store

Requests == {"apply", "delete"} \X Hosts

\* The version counts edits and references that came back, each of which was
\* lost before: the bounds of the users and of the failures bound it.
VersionInv == rule.version + (IF refs THEN 0 ELSE 1) <= edits + faults

\* The instance the controller knows was not stopped.
StoreInv == store # None => drs[store].st # "exited" /\ ~drs[store].cancelled

\* Every other instance that is alive was, unless a Stop came before Run.
InstanceInv ==
    ~leaked => \A i \in Instances : drs[i].st # "exited" /\ ~drs[i].cancelled => i = store

RuleInv == rule \in Rules /\ {ruleWake, refs, leaked} \subseteq BOOLEAN
DrsInv == store \in Instances \union {None} /\ drs \in [Instances -> DRs]
WorldInv ==
    /\ up \subseteq Hosts /\ inFlight \subseteq Requests
    /\ targets \in [Hosts -> {"none", "live", "deleting"}]
BoundsInv == edits \in 0..MaxEdits /\ faults \in 0..MaxFaults

DiscoveryInv ==
    RuleInv /\ DrsInv /\ WorldInv /\ BoundsInv /\ VersionInv /\ StoreInv /\ InstanceInv

Conds == {"none", "ready", "failed"}
Shows == [Hosts -> {"absent", "pending", "failed", "notready", "ready"}]
Sets == [spec : CSSpecs \union {None}, deleting : BOOLEAN, finalizer : BOOLEAN,
         cond : Conds, shown : Shows]
Passes == [targets : SUBSET Hosts, spec : CSSpecs]
Configs == [spec : CSSpecs \union {None}, deleting : BOOLEAN, ready : BOOLEAN]

SetTypes ==
    /\ cs \in Sets
    /\ {csWake, csFailed} \subseteq BOOLEAN
    /\ csPass \in {None} \union Passes
    /\ configs \in [Hosts -> Configs]

\* The finalizer stands between a user's delete and the end of the ConfigSet: it
\* is there while a deletion or a pass goes on, and a ConfigSet that is gone has none.
FinalizerInv ==
    /\ cs.spec = None => ~cs.finalizer
    /\ cs.deleting => cs.finalizer
    /\ csPass # None => cs.finalizer

\* What a pass has listed is true as long as nothing queued the ConfigSet again.
PassInv ==
    csPass # None /\ ~csWake => csPass.targets = Live /\ csPass.spec = cs.spec

SetInv == SetTypes /\ FinalizerInv /\ PassInv /\ ConfigsAreCurrent

FleetInv == DiscoveryInv /\ SetInv

-----------------------------------------------------------------------------
(* Discovery. *)

\* The bounds of what users and failures do stay bounds.
LEMMA EditBounds ==
  ASSUME BoundsInv, Edit, faults' = faults
  PROVE  BoundsInv' /\ edits' + faults' = edits + faults + 1
BY DiscoveryAssumption DEF BoundsInv, Edit

LEMMA FaultBounds ==
  ASSUME BoundsInv, Fault, edits' = edits
  PROVE  BoundsInv' /\ edits' + faults' = edits + faults + 1
BY DiscoveryAssumption DEF BoundsInv, Fault

LEMMA VersionNat ==
  ASSUME DiscoveryInv
  PROVE  rule.version \in Nat /\ edits \in Nat /\ faults \in Nat
BY DiscoveryAssumption DEF DiscoveryInv, RuleInv, Rules, Versions, BoundsInv

LEMMA DiscoveryInitInv ==
  ASSUME DiscoveryInit
  PROVE  DiscoveryInv
<1>1. 0 \in Versions /\ 0 \in 0..MaxEdits /\ 0 \in 0..MaxFaults
  BY DiscoveryAssumption DEF Versions
<1>2. RuleInv
  BY <1>1, DiscoveryAssumption DEF DiscoveryInit, RuleInv, Rules, NoRule
<1>3. Exited \in DRs
  BY <1>1 DEF Exited, DRs
<1>4. DrsInv
  BY <1>3 DEF DiscoveryInit, DrsInv
<1>5. WorldInv /\ BoundsInv
  BY <1>1 DEF DiscoveryInit, WorldInv, BoundsInv
<1>6. VersionInv
  BY DEF DiscoveryInit, VersionInv, NoRule
<1>7. StoreInv
  BY DEF DiscoveryInit, StoreInv
<1>8. InstanceInv
  BY DEF DiscoveryInit, InstanceInv, Exited
<1> QED BY <1>2, <1>4, <1>5, <1>6, <1>7, <1>8 DEF DiscoveryInv

\* A step of a user or a failure that leaves discovery alone.
LEMMA DiscoveryUntouched ==
  ASSUME DiscoveryInv, UNCHANGED <<drVars, up, inFlight, targets, leaked>>,
         \/ UNCHANGED <<edits, faults>>
         \/ Edit /\ UNCHANGED faults
         \/ Fault /\ UNCHANGED edits
  PROVE  DiscoveryInv'
<1>1. BoundsInv' /\ edits' + faults' >= edits + faults /\ edits' + faults' \in Nat
  <2>1. CASE UNCHANGED <<edits, faults>>
    BY <2>1, VersionNat DEF DiscoveryInv, BoundsInv
  <2>2. CASE ~UNCHANGED <<edits, faults>>
    <3>1. CASE Edit /\ UNCHANGED faults
      BY <3>1, EditBounds, VersionNat DEF DiscoveryInv
    <3>2. CASE Fault /\ UNCHANGED edits
      BY <3>2, FaultBounds, VersionNat DEF DiscoveryInv
    <3> QED BY <2>2, <3>1, <3>2
  <2> QED BY <2>1, <2>2
<1>2. VersionInv'
  <2>1. rule' = rule /\ refs' = refs
    BY DEF drVars
  <2>2. VersionInv
    BY DEF DiscoveryInv
  <2> QED BY <1>1, <2>1, <2>2, VersionNat DEF VersionInv
<1>3. RuleInv' /\ DrsInv' /\ WorldInv' /\ StoreInv' /\ InstanceInv'
  BY DEF DiscoveryInv, drVars, RuleInv, DrsInv, WorldInv, StoreInv, InstanceInv
<1> QED BY <1>1, <1>2, <1>3 DEF DiscoveryInv

\* The steps of users that change the rule or what it refers to.
LEMMA RuleEdited ==
  ASSUME DiscoveryInv,
         (\E s \in DRSpecs \union {Invalid} : SetRule(s)) \/ DeleteRule \/ LoseRefs \/ RestoreRefs
  PROVE  DiscoveryInv' /\ UNCHANGED <<inFlight, targets>>
<1>0. /\ UNCHANGED <<store, drs, up, inFlight, targets, leaked>>
  BY DEF SetRule, DeleteRule, LoseRefs, RestoreRefs
<1>1. BoundsInv' /\ VersionInv' /\ rule'.version \in Nat
  <2>0. /\ rule.version \in Nat /\ edits \in Nat /\ faults \in Nat
        /\ BoundsInv /\ refs \in BOOLEAN
        /\ rule.version + (IF refs THEN 0 ELSE 1) <= edits + faults
        /\ rule \in Rules
    BY VersionNat DEF DiscoveryInv, RuleInv, VersionInv
  <2>1. ASSUME NEW s \in DRSpecs \union {Invalid}, SetRule(s)
        PROVE  BoundsInv' /\ VersionInv' /\ rule'.version \in Nat
    <3>1. BoundsInv' /\ edits' + faults' = edits + faults + 1
      <4>1. Edit /\ faults' = faults
        BY <2>1 DEF SetRule
      <4> QED BY <2>0, <4>1, EditBounds
    <3>2. rule'.version = rule.version + 1 /\ refs' = refs
      BY <2>0, <2>1 DEF SetRule, Rules
    <3> QED BY <2>0, <3>1, <3>2 DEF VersionInv
  <2>2. ASSUME DeleteRule
        PROVE  BoundsInv' /\ VersionInv' /\ rule'.version \in Nat
    <3>1. BoundsInv' /\ edits' + faults' = edits + faults + 1
      <4>1. Edit /\ faults' = faults
        BY <2>2 DEF DeleteRule
      <4> QED BY <2>0, <4>1, EditBounds
    <3>2. (rule'.version = rule.version \/ rule'.version = 0) /\ refs' = refs
      BY <2>0, <2>2 DEF DeleteRule, Rules, NoRule
    <3> QED BY <2>0, <3>1, <3>2 DEF VersionInv
  <2>3. ASSUME LoseRefs
        PROVE  BoundsInv' /\ VersionInv' /\ rule'.version \in Nat
    <3>1. BoundsInv' /\ edits' + faults' = edits + faults + 1
      BY <2>0, <2>3, FaultBounds DEF LoseRefs
    <3>2. rule' = rule /\ refs /\ ~refs'
      BY <2>3 DEF LoseRefs
    <3> QED BY <2>0, <3>1, <3>2 DEF VersionInv
  <2>4. ASSUME RestoreRefs
        PROVE  BoundsInv' /\ VersionInv' /\ rule'.version \in Nat
    <3>1. UNCHANGED <<edits, faults>> /\ ~refs /\ refs'
      BY <2>4 DEF RestoreRefs
    <3>2. rule'.version = 0 \/ rule'.version = rule.version + 1
      BY <2>0, <2>4 DEF RestoreRefs, Rules
    <3> QED BY <2>0, <3>1, <3>2 DEF VersionInv, BoundsInv
  <2> QED BY <2>1, <2>2, <2>3, <2>4
<1>2. RuleInv'
  <2>1. rule'.version \in Versions
    <3>1. rule'.version <= (edits + faults)'
      BY <1>1, DiscoveryAssumption DEF VersionInv, BoundsInv
    <3> QED BY <1>1, <3>1, DiscoveryAssumption DEF BoundsInv, Versions
  <2>2. rule \in Rules /\ {ruleWake, refs, leaked} \subseteq BOOLEAN
    BY DEF DiscoveryInv, RuleInv
  <2>3. 0 \in Versions
    BY DiscoveryAssumption DEF Versions
  <2>4. rule' \in Rules
    <3>1. CASE \E s \in DRSpecs \union {Invalid} : SetRule(s)
      BY <2>1, <2>2, <3>1 DEF SetRule, Rules
    <3>2. CASE DeleteRule
      BY <2>2, <2>3, <3>2 DEF DeleteRule, Rules, NoRule
    <3>3. CASE LoseRefs
      BY <2>2, <3>3 DEF LoseRefs
    <3>4. CASE RestoreRefs
      BY <2>1, <2>2, <3>4 DEF RestoreRefs, Rules
    <3> QED BY <3>1, <3>2, <3>3, <3>4
  <2>5. {ruleWake', refs', leaked'} \subseteq BOOLEAN
    BY <2>2 DEF SetRule, DeleteRule, LoseRefs, RestoreRefs
  <2> QED BY <2>4, <2>5 DEF RuleInv
<1>3. DrsInv' /\ WorldInv' /\ StoreInv' /\ InstanceInv'
  BY <1>0 DEF DiscoveryInv, DrsInv, WorldInv, StoreInv, InstanceInv
<1> QED BY <1>0, <1>1, <1>2, <1>3 DEF DiscoveryInv

\* VersionInv and the bounds, for a step that neither edits nor changes the
\* version and the references, or drops the rule.
LEMMA VersionStays ==
  ASSUME DiscoveryInv, refs' = refs, edits' = edits,
         rule'.version \in {rule.version, 0},
         faults' = faults \/ Fault
  PROVE  BoundsInv' /\ VersionInv'
<1>1. /\ rule.version \in Nat /\ edits \in Nat /\ faults \in Nat
      /\ BoundsInv /\ rule.version + (IF refs THEN 0 ELSE 1) <= edits + faults
  BY VersionNat DEF DiscoveryInv, VersionInv
<1>2. BoundsInv' /\ edits' + faults' >= edits + faults
  <2>1. CASE faults' = faults
    BY <1>1, <2>1 DEF BoundsInv
  <2>2. CASE Fault
    BY <1>1, <2>2, FaultBounds
  <2> QED BY <2>1, <2>2
<1>3. rule'.version <= rule.version
  BY <1>1
<1>4. edits' \in Nat /\ faults' \in Nat /\ rule'.version \in Nat
  BY <1>1, <1>2, DiscoveryAssumption DEF BoundsInv
<1> DEFINE k == IF refs THEN 0 ELSE 1
<1>5. k \in Nat /\ k' = k /\ rule.version + k <= edits + faults
  BY <1>1
<1>6. VersionInv' <=> rule'.version + k' <= edits' + faults'
  BY DEF VersionInv
<1> HIDE DEF k
<1>7. rule'.version + k <= edits' + faults'
  <2>1. \A v, w, m, e, f, d, c \in Nat :
          v <= w /\ w + m <= e + f /\ d + c >= e + f => v + m <= d + c
    OBVIOUS
  <2> QED BY <1>1, <1>2, <1>3, <1>4, <1>5, <2>1
<1> QED BY <1>2, <1>5, <1>6, <1>7

\* Stop of the instance in the store: it is cancelled, or it leaked; the others
\* are left alone.  What it leaves behind are requests, a Delete only of a Target
\* its pass did not discover.
LEMMA StopKnown ==
  ASSUME DiscoveryInv, NEW R \in Unanswered(store), LeftBehind(store, R)
  PROVE  /\ Stopped(store) \in [Instances -> DRs]
         /\ \A i \in Instances : i # store => Stopped(store)[i] = drs[i]
         /\ leaked' \in BOOLEAN
         /\ ~leaked' => \A i \in Instances :
               Stopped(store)[i].st = "exited" \/ Stopped(store)[i].cancelled
         /\ inFlight' \subseteq Requests
         /\ \A h \in Hosts : <<"delete", h>> \in inFlight' \ inFlight => MayDelete(h)
<1>1. /\ drs \in [Instances -> DRs] /\ store \in Instances \union {None}
      /\ leaked \in BOOLEAN /\ inFlight \subseteq Requests /\ up \subseteq Hosts
  BY DEF DiscoveryInv, DrsInv, RuleInv, WorldInv
<1>2. Stopped(store) \in [Instances -> DRs]
  <2> DEFINE d == [drs[store] EXCEPT !.st = "idle", !.cancelled = TRUE, !.todo = {},
                                     !.children = {}]
  <2>1. CASE store # None /\ drs[store].st # "created"
    <3>1. d \in DRs /\ Stopped(store) = [drs EXCEPT ![store] = d]
      BY <1>1, <2>1 DEF Stopped, DRs
    <3> HIDE DEF d
    <3> QED BY <1>1, <3>1
  <2>2. CASE ~(store # None /\ drs[store].st # "created")
    BY <1>1, <2>2 DEF Stopped
  <2> QED BY <2>1, <2>2
<1>4. \A i \in Instances : i # store => Stopped(store)[i] = drs[i]
  BY <1>1 DEF Stopped
<1>5. leaked' \in BOOLEAN /\ (~leaked' => ~leaked)
  BY <1>1 DEF LeftBehind
<1>6. ASSUME ~leaked', NEW i \in Instances
      PROVE  Stopped(store)[i].st = "exited" \/ Stopped(store)[i].cancelled
  <2>1. CASE i = store
    <3>1. drs[i].st # "created" /\ i # None
      BY <1>6, <2>1, DiscoveryAssumption DEF LeftBehind
    <3> QED BY <1>1, <2>1, <3>1 DEF Stopped, DRs
  <2>2. CASE i # store
    <3>1. drs[i].st = "exited" \/ drs[i].cancelled
      BY <1>5, <1>6, <2>2 DEF DiscoveryInv, InstanceInv
    <3> QED BY <1>4, <2>2, <3>1
  <2> QED BY <2>1, <2>2
<1>7. \A q \in R : /\ q \in Requests
                  /\ \A h \in Hosts : q = <<"delete", h>> => MayDelete(h)
  <2>1. CASE store # None /\ drs[store].st = "scan"
    <3>1. R \subseteq {"apply"} \X Hosts
      BY <1>1, <2>1 DEF Unanswered
    <3> QED BY <3>1 DEF Requests
  <2>2. CASE store # None /\ drs[store].st = "delete"
    <3>1. drs[store].todo \subseteq Hosts /\ drs[store].todo \cap drs[store].children = {}
      BY <1>1, <2>2 DEF DRs
    <3>2. \A q \in R : \E g \in drs[store].todo : q = <<"delete", g>>
      BY <2>2 DEF Unanswered
    <3> QED BY <2>2, <3>1, <3>2 DEF Requests, MayDelete
  <2>3. CASE ~(store # None /\ drs[store].st \in {"scan", "delete"})
    <3>1. R = {}
      BY <2>3 DEF Unanswered
    <3> QED BY <3>1
  <2> QED BY <2>1, <2>2, <2>3
<1>8. inFlight' = inFlight \union R
  BY DEF LeftBehind
<1> QED BY <1>1, <1>2, <1>4, <1>5, <1>6, <1>7, <1>8

\* The controller of the rule.
LEMMA RuleReconciled ==
  ASSUME DiscoveryInv, RuleReconcile
  PROVE  DiscoveryInv' /\ targets' = targets /\ CurrentSends
<1>0. /\ rule \in Rules /\ ruleWake \in BOOLEAN /\ refs \in BOOLEAN /\ leaked \in BOOLEAN
      /\ store \in Instances \union {None} /\ drs \in [Instances -> DRs]
  BY DEF DiscoveryInv, RuleInv, DrsInv
<1>1. ASSUME RuleNotFound \/ RuleUnchanged
      PROVE  DiscoveryInv' /\ targets' = targets /\ CurrentSends
  <2>1. BoundsInv' /\ VersionInv'
    BY <1>1, VersionStays DEF RuleNotFound, RuleUnchanged
  <2>2. RuleInv' /\ DrsInv' /\ WorldInv' /\ StoreInv' /\ InstanceInv'
    BY <1>1 DEF RuleNotFound, RuleUnchanged, DiscoveryInv, RuleInv, DrsInv, WorldInv,
                StoreInv, InstanceInv
  <2> QED BY <1>1, <2>1, <2>2 DEF DiscoveryInv, RuleNotFound, RuleUnchanged, CurrentSends
<1>2. ASSUME RuleDeletes \/ RuleNoConfig
      PROVE  DiscoveryInv' /\ targets' = targets /\ CurrentSends
  <2>0. PICK R \in Unanswered(store) : LeftBehind(store, R)
    BY <1>2 DEF RuleDeletes, RuleNoConfig
  <2>1. /\ drs' = Stopped(store) /\ store' = None
        /\ refs' = refs /\ up' = up /\ targets' = targets /\ edits' = edits
        /\ faults' = faults \/ Fault
    BY <1>2 DEF RuleDeletes, RuleNoConfig, Charged
  <2>2. rule' \in Rules /\ rule'.version \in {rule.version, 0} /\ ruleWake' \in BOOLEAN
    <3>1. 0 \in Versions
      BY DiscoveryAssumption DEF Versions
    <3>2. CASE RuleDeletes
      <4>1. \/ rule' = NoRule /\ ruleWake' = FALSE
            \/ rule' = rule /\ ruleWake' = TRUE
        BY <3>2 DEF RuleDeletes
      <4>2. NoRule \in Rules /\ NoRule.version = 0
        BY <3>1 DEF NoRule, Rules
      <4> QED BY <1>0, <4>1, <4>2
    <3>3. CASE RuleNoConfig
      BY <1>0, <3>3 DEF RuleNoConfig, Rules
    <3> QED BY <1>2, <3>2, <3>3
  <2>3. BoundsInv' /\ VersionInv'
    BY <2>1, <2>2, VersionStays
  <2>4. RuleInv' /\ DrsInv' /\ WorldInv' /\ StoreInv'
    BY <1>0, <2>0, <2>1, <2>2, StopKnown DEF DiscoveryInv, RuleInv, DrsInv, WorldInv, StoreInv
  <2>5. InstanceInv'
    BY <2>0, <2>1, StopKnown DEF InstanceInv
  <2>6. CurrentSends
    BY <2>0, <2>1, StopKnown DEF MayDelete, CurrentSends
  <2> QED BY <2>1, <2>3, <2>4, <2>5, <2>6 DEF DiscoveryInv
<1>3. ASSUME RuleStarts
      PROVE  DiscoveryInv' /\ targets' = targets /\ CurrentSends
  <2> DEFINE new == [Exited EXCEPT !.st = "created", !.version = rule.version,
                                   !.cfg = rule.spec]
  <2>0. PICK R \in Unanswered(store) : LeftBehind(store, R)
    BY <1>3 DEF RuleStarts
  <2>1. /\ drs' = [Stopped(store) EXCEPT ![store'] = new]
        /\ rule' = [rule EXCEPT !.finalizer = TRUE]
        /\ UNCHANGED <<ruleWake, refs, up, targets, edits>>
        /\ faults' = faults \/ Fault
        /\ rule.spec \in DRSpecs
    BY <1>3 DEF RuleStarts, Valid, Charged
  <2>2. store' \in Instances /\ drs[store'].st = "exited"
    <3>1. \E i \in Instances : drs[i].st = "exited"
      BY <1>3 DEF RuleStarts
    <3>2. store' = CHOOSE i \in Instances : drs[i].st = "exited"
      BY <1>3 DEF RuleStarts
    <3> QED BY <3>1, <3>2
  <2>3. new \in DRs /\ new.st = "created" /\ ~new.cancelled
    <3>1. 0 \in Versions
      BY DiscoveryAssumption DEF Versions
    <3>2. rule.spec \in SUBSET Hosts
      BY <1>0, <2>1, DiscoveryAssumption DEF Rules
    <3> QED BY <1>0, <3>1, <3>2 DEF Exited, DRs, Rules
  <2> HIDE DEF new
  <2>4. rule' \in Rules /\ rule'.version = rule.version
    BY <1>0, <2>1 DEF Rules
  <2>5. BoundsInv' /\ VersionInv'
    BY <2>1, <2>4, VersionStays
  <2>6. RuleInv' /\ DrsInv' /\ WorldInv'
    BY <1>0, <2>0, <2>1, <2>2, <2>3, <2>4, StopKnown DEF DiscoveryInv, RuleInv, DrsInv, WorldInv
  <2>7. StoreInv'
    BY <2>0, <2>1, <2>2, <2>3, StopKnown DEF StoreInv
  <2>8. InstanceInv'
    BY <2>0, <2>1, <2>2, <2>3, StopKnown DEF InstanceInv
  <2>9. CurrentSends
    BY <2>0, <2>2, StopKnown, DiscoveryAssumption DEF MayDelete, CurrentSends
  <2> QED BY <2>1, <2>5, <2>6, <2>7, <2>8, <2>9 DEF DiscoveryInv
<1> QED BY <1>1, <1>2, <1>3 DEF RuleReconcile

\* What discovery does that no other controller sees.
LEMMA DiscoveryInternalInv ==
  ASSUME DiscoveryInv, DiscoveryInternal
  PROVE  DiscoveryInv' /\ targets' = targets /\ CurrentSends
<1>1. CASE (\E s \in DRSpecs \union {Invalid} : SetRule(s)) \/ DeleteRule \/ LoseRefs \/ RestoreRefs
  BY <1>1, RuleEdited DEF CurrentSends
<1>2. CASE RuleReconcile
  BY <1>2, RuleReconciled
<1>3. CASE RuleFails
  <2>1. /\ UNCHANGED <<drVars, up, inFlight, targets, leaked>>
        /\ (UNCHANGED <<edits, faults>> \/ (Fault /\ UNCHANGED edits))
    BY <1>3 DEF RuleFails
  <2> QED BY <2>1, DiscoveryUntouched DEF CurrentSends
<1>4. ASSUME NEW h \in Hosts, HostDown(h) \/ HostUp(h)
      PROVE  DiscoveryInv' /\ UNCHANGED <<inFlight, targets>>
  <2>1. /\ UNCHANGED <<drVars, inFlight, targets, edits, leaked>> /\ up' \subseteq Hosts
        /\ faults' = faults \/ Fault
    BY <1>4 DEF HostDown, HostUp, DiscoveryInv, WorldInv
  <2>2. BoundsInv' /\ VersionInv'
    BY <2>1, VersionStays DEF drVars
  <2>3. RuleInv' /\ DrsInv' /\ WorldInv' /\ StoreInv' /\ InstanceInv'
    BY <2>1 DEF drVars, DiscoveryInv, RuleInv, DrsInv, WorldInv, StoreInv, InstanceInv
  <2> QED BY <2>1, <2>2, <2>3 DEF DiscoveryInv
<1> QED BY <1>1, <1>2, <1>3, <1>4 DEF DiscoveryInternal, CurrentSends

\* A step of an instance that leaves it as it is for the controller.
LEMMA InstanceStays ==
  ASSUME DiscoveryInv, NEW i \in Instances, NEW d \in DRs,
         drs' = [drs EXCEPT ![i] = d], drs[i].st # "exited",
         \/ d.st # "exited" /\ d.cancelled = drs[i].cancelled
         \/ d.st = "exited" /\ drs[i].cancelled,
         UNCHANGED <<store, leaked>>
  PROVE  DrsInv' /\ StoreInv' /\ InstanceInv'
<1>1. drs \in [Instances -> DRs] /\ store \in Instances \union {None}
  BY DEF DiscoveryInv, DrsInv
<1>2. DrsInv'
  BY <1>1 DEF DrsInv
<1>3. \A k \in Instances : drs'[k] = IF k = i THEN d ELSE drs[k]
  BY <1>1
<1>4. StoreInv'
  BY <1>1, <1>3 DEF DiscoveryInv, StoreInv
<1>5. InstanceInv'
  BY <1>1, <1>3 DEF DiscoveryInv, InstanceInv
<1> QED BY <1>2, <1>4, <1>5

\* What may change a Target.
LEMMA TargetStepInv ==
  ASSUME DiscoveryInv, TargetStep
  PROVE  DiscoveryInv' /\ inFlight' \subseteq inFlight
<1>0. drs \in [Instances -> DRs] /\ targets \in [Hosts -> {"none", "live", "deleting"}]
      /\ inFlight \subseteq Requests
  BY DEF DiscoveryInv, DrsInv, WorldInv
<1>1. /\ UNCHANGED <<rule, ruleWake, refs, store, up, edits, leaked>>
      /\ (faults' = faults \/ Fault) /\ inFlight' \subseteq inFlight
  BY DEF TargetStep, Instance, RunBegins, PassBegins, PassLists, DeleteUnwanted, Discover,
         DiscoverFails, LateRequest, CollectTarget, TargetGone, drVars
<1>2. BoundsInv' /\ VersionInv'
  BY <1>1, VersionStays
<1>3. RuleInv'
  BY <1>1 DEF DiscoveryInv, RuleInv
<1>4. WorldInv'
  <2> DEFINE Ts == [Hosts -> {"none", "live", "deleting"}]
  <2>1. \A h \in Hosts : Applied(h) \in Ts /\ Deleted(h) \in Ts
    BY <1>0 DEF Applied, Deleted
  <2>2. \A h \in Hosts : [targets EXCEPT ![h] = "deleting"] \in Ts
                      /\ [targets EXCEPT ![h] = "none"] \in Ts
    BY <1>0
  <2>3. \A q \in inFlight : q[2] \in Hosts
    BY <1>0 DEF Requests
  <2> HIDE DEF Ts
  <2>4. ASSUME NEW i \in Instances, Instance(i)
        PROVE  targets' \in Ts
    BY <1>0, <2>1, <2>4 DEF Instance, RunBegins, PassBegins, PassLists, DeleteUnwanted,
                            Discover, DiscoverFails, Ts
  <2>5. ASSUME NEW h \in Hosts, CollectTarget(h) \/ TargetGone(h)
        PROVE  targets' \in Ts
    BY <2>2, <2>5 DEF CollectTarget, TargetGone
  <2>6. ASSUME NEW q \in inFlight, LateRequest(q)
        PROVE  targets' \in Ts
    BY <1>0, <2>1, <2>3, <2>6 DEF LateRequest, Ts
  <2> QED BY <1>1, <2>4, <2>5, <2>6 DEF TargetStep, DiscoveryInv, WorldInv, Ts
<1>5. DrsInv' /\ StoreInv' /\ InstanceInv'
  <2>1. ASSUME NEW i \in Instances, RunBegins(i)
        PROVE  DrsInv' /\ StoreInv' /\ InstanceInv'
    <3> DEFINE d == [drs[i] EXCEPT !.st = "idle"]
    <3>1. /\ drs' = [drs EXCEPT ![i] = d] /\ drs[i].st # "exited"
      BY <1>0, <2>1 DEF RunBegins
    <3>2. d \in DRs /\ d.st # "exited" /\ d.cancelled = drs[i].cancelled
      BY <1>0 DEF DRs
    <3> HIDE DEF d
    <3> QED BY <1>1, <3>1, <3>2, InstanceStays
  <2>2. ASSUME NEW i \in Instances, PassBegins(i)
        PROVE  DrsInv' /\ StoreInv' /\ InstanceInv'
    <3> DEFINE d == IF drs[i].cancelled THEN Exited
                    ELSE [drs[i] EXCEPT !.st = "scan", !.todo = drs[i].cfg]
    <3>1. /\ drs' = [drs EXCEPT ![i] = d] /\ drs[i].st # "exited"
      BY <1>0, <2>2 DEF PassBegins
    <3>2. 0 \in Versions
      BY DiscoveryAssumption DEF Versions
    <3>3. /\ d \in DRs
          /\ \/ d.st # "exited" /\ d.cancelled = drs[i].cancelled
             \/ d.st = "exited" /\ drs[i].cancelled
      BY <1>0, <3>2 DEF DRs, Exited
    <3> HIDE DEF d
    <3> QED BY <1>1, <3>1, <3>3, InstanceStays
  <2>3. ASSUME NEW i \in Instances, NEW T \in SUBSET (Hosts \ drs[i].children),
               drs[i].st \in {"scan", "delete"}, Deleting(i, T)
        PROVE  DrsInv' /\ StoreInv' /\ InstanceInv'
    <3> DEFINE d == IF T # {} THEN [drs[i] EXCEPT !.st = "delete", !.todo = T]
                    ELSE [drs[i] EXCEPT !.st = "idle", !.todo = {}, !.children = {}]
    <3>1. /\ drs' = [drs EXCEPT ![i] = d] /\ drs[i].st # "exited"
      BY <1>0, <2>3 DEF Deleting
    <3>2. d \in DRs /\ d.st # "exited" /\ d.cancelled = drs[i].cancelled
      BY <1>0, <2>3 DEF DRs
    <3> HIDE DEF d
    <3> QED BY <1>1, <3>1, <3>2, InstanceStays
  <2>4. ASSUME NEW i \in Instances, NEW h \in Hosts, Discover(i, h)
        PROVE  DrsInv' /\ StoreInv' /\ InstanceInv'
    <3> DEFINE d == [drs[i] EXCEPT !.todo = @ \ {h}, !.children = @ \union {h}]
    <3>1. /\ drs' = [drs EXCEPT ![i] = d] /\ drs[i].st # "exited"
      BY <1>0, <2>4 DEF Discover, DRs
    <3>2. d \in DRs /\ d.st = drs[i].st /\ d.cancelled = drs[i].cancelled
      BY <1>0 DEF DRs
    <3> HIDE DEF d
    <3> QED BY <1>1, <3>1, <3>2, InstanceStays
  <2>5. ASSUME NEW i \in Instances, NEW h \in Hosts, DiscoverFails(i, h)
        PROVE  DrsInv' /\ StoreInv' /\ InstanceInv'
    <3> DEFINE d == [drs[i] EXCEPT !.todo = @ \ {h}]
    <3>1. /\ drs' = [drs EXCEPT ![i] = d] /\ drs[i].st # "exited"
      BY <1>0, <2>5 DEF DiscoverFails, DRs
    <3>2. d \in DRs /\ d.st = drs[i].st /\ d.cancelled = drs[i].cancelled
      BY <1>0 DEF DRs
    <3> HIDE DEF d
    <3> QED BY <1>1, <3>1, <3>2, InstanceStays
  <2>6. ASSUME NEW h \in Hosts, CollectTarget(h) \/ TargetGone(h)
        PROVE  DrsInv' /\ StoreInv' /\ InstanceInv'
    BY <2>6 DEF CollectTarget, TargetGone, drVars, DiscoveryInv, DrsInv, StoreInv, InstanceInv
  <2>7. ASSUME NEW q \in inFlight, LateRequest(q)
        PROVE  DrsInv' /\ StoreInv' /\ InstanceInv'
    BY <2>7 DEF LateRequest, drVars, DiscoveryInv, DrsInv, StoreInv, InstanceInv
  <2>8. ASSUME NEW i \in Instances, PassLists(i)
        PROVE  DrsInv' /\ StoreInv' /\ InstanceInv'
    BY <2>3, <2>8 DEF PassLists
  <2>9. ASSUME NEW i \in Instances, NEW h \in Hosts, DeleteUnwanted(i, h)
        PROVE  DrsInv' /\ StoreInv' /\ InstanceInv'
    <3>1. drs[i].todo \ {h} \in SUBSET (Hosts \ drs[i].children)
      BY <1>0, <2>9 DEF DRs, DeleteUnwanted
    <3> QED BY <2>3, <2>9, <3>1 DEF DeleteUnwanted
  <2> QED BY <2>1, <2>2, <2>4, <2>5, <2>6, <2>7, <2>8, <2>9 DEF TargetStep, Instance
<1> QED BY <1>1, <1>2, <1>3, <1>4, <1>5 DEF DiscoveryInv

\* While the rule is there, what makes a Target go is a Delete of the instance in
\* the store, or one it had sent when it was stopped.
LEMMA CurrentDeletes ==
  ASSUME DiscoveryInv, TargetStep, NEW h \in Hosts,
         targets[h] = "live", targets'[h] = "deleting", rule.spec # None, ~leaked
  PROVE  MayDelete(h) \/ <<"delete", h>> \in inFlight \ inFlight'
<1>0. /\ drs \in [Instances -> DRs] /\ targets \in [Hosts -> {"none", "live", "deleting"}]
      /\ inFlight \subseteq Requests
  BY DEF DiscoveryInv, DrsInv, WorldInv
<1>1. \A i \in Instances : ~RunBegins(i) /\ ~PassBegins(i) /\ ~PassLists(i)
  BY DEF RunBegins, PassBegins, PassLists
<1>2. \A i \in Instances, g \in Hosts : ~Discover(i, g) /\ ~DiscoverFails(i, g)
  BY <1>0 DEF Discover, DiscoverFails, Applied
<1>3. \A g \in Hosts : ~CollectTarget(g) /\ ~TargetGone(g)
  BY <1>0 DEF CollectTarget, TargetGone
<1>4. CASE \E i \in Instances, g \in Hosts : DeleteUnwanted(i, g)
  <2>1. PICK i \in Instances, g \in Hosts : DeleteUnwanted(i, g)
    BY <1>4
  <2>2. g = h /\ drs[i].st = "delete" /\ h \in drs[i].todo
    BY <1>0, <2>1 DEF DeleteUnwanted, Deleted
  <2>3. h \notin drs[i].children
    BY <1>0, <2>2 DEF DRs
  <2>4. ~drs[i].cancelled
    BY <1>0, <2>2 DEF DRs
  <2>5. store = i
    BY <2>2, <2>4 DEF DiscoveryInv, InstanceInv
  <2> QED BY <2>2, <2>3, <2>5, DiscoveryAssumption DEF MayDelete
<1>5. CASE \E q \in inFlight : LateRequest(q)
  <2>1. PICK q \in inFlight : LateRequest(q)
    BY <1>5
  <2>2. q = <<q[1], q[2]>> /\ q[1] \in {"apply", "delete"}
    BY <1>0 DEF Requests
  <2>3. q[1] = "delete" /\ q[2] = h
    BY <1>0, <2>1, <2>2 DEF LateRequest, Applied, Deleted
  <2> QED BY <2>1, <2>2, <2>3 DEF LateRequest
<1> QED BY <1>1, <1>2, <1>3, <1>4, <1>5 DEF TargetStep, Instance

-----------------------------------------------------------------------------
(* The ConfigSet. *)

LEMMA SetInitInv ==
  ASSUME Init
  PROVE  SetInv
<1>1. (CHOOSE s \in CSSpecs : TRUE) \in CSSpecs
  BY FleetAssumption
<1>2. NoSet \in Sets /\ ~NoSet.deleting /\ ~NoSet.finalizer
  BY DEF NoSet, NoShown, Sets, Shows, Conds
<1>3. cs \in Sets /\ ~cs.deleting /\ ~cs.finalizer
  BY <1>1, <1>2 DEF Init, NoSet, Sets
<1>4. NoConfig \in Configs
  BY DEF NoConfig, Configs
<1>5. csWake /\ csPass = None /\ ~csFailed /\ configs \in [Hosts -> Configs]
  BY <1>4 DEF Init
<1>6. SetTypes
  <2>1. csWake \in BOOLEAN /\ csFailed \in BOOLEAN
    BY DEF Init
  <2> QED BY <1>3, <1>5, <2>1 DEF SetTypes
<1> QED BY <1>3, <1>5, <1>6 DEF SetInv, FinalizerInv, PassInv, ConfigsAreCurrent

\* Steps of the others that the ConfigSet does not see.
LEMMA SetUntouched ==
  ASSUME SetInv, UNCHANGED csVars, targets' = targets
  PROVE  SetInv'
<1>1. UNCHANGED <<cs, csWake, csPass, configs, csFailed>> /\ Live' = Live
  BY DEF csVars, Live
<1>2. SetTypes' /\ FinalizerInv' /\ PassInv'
  BY <1>1 DEF SetInv, SetTypes, FinalizerInv, PassInv
<1>3. ConfigsAreCurrent'
  BY <1>1 DEF SetInv, ConfigsAreCurrent, Exists
<1> QED BY <1>2, <1>3 DEF SetInv

\* A Target that changes queues the ConfigSet, so what its pass has listed need
\* no longer be true.
LEMMA SetWatches ==
  ASSUME SetInv, NEW ACTION A, Watched(A)
  PROVE  SetInv'
<1>1. UNCHANGED <<cs, csPass, configs, csFailed>>
  BY DEF Watched
<1>2. /\ csWake' \in BOOLEAN /\ (csWake => csWake')
      /\ targets' # targets /\ cs.spec # None => csWake'
  BY DEF Watched, SetInv, SetTypes
<1>3. SetTypes' /\ FinalizerInv'
  BY <1>1, <1>2 DEF SetInv, SetTypes, FinalizerInv
<1>4. CASE targets' = targets
  <2>1. Live' = Live
    BY <1>4 DEF Live
  <2>2. PassInv'
    BY <1>1, <1>2, <2>1 DEF SetInv, PassInv
  <2>3. ConfigsAreCurrent'
    BY <1>1, <1>2, <2>1 DEF SetInv, ConfigsAreCurrent, Exists
  <2> QED BY <1>3, <2>2, <2>3 DEF SetInv
<1>5. CASE targets' # targets
  <2>1. csWake' \/ cs.spec = None
    BY <1>2, <1>5
  <2>2. PassInv'
    BY <1>1, <2>1 DEF SetInv, PassInv, FinalizerInv
  <2>3. ConfigsAreCurrent'
    BY <1>1, <2>1 DEF ConfigsAreCurrent
  <2> QED BY <1>3, <2>2, <2>3 DEF SetInv
<1> QED BY <1>4, <1>5

\* A step that leaves the ConfigSet queued, or gone, has only the types and the
\* finalizer to keep.
LEMMA QueuedOrGone ==
  ASSUME SetTypes', FinalizerInv', csWake' \/ cs'.spec = None
  PROVE  SetInv'
BY DEF SetInv, PassInv, ConfigsAreCurrent, FinalizerInv

\* The user.
LEMMA SetEdited ==
  ASSUME SetInv, (\E s \in CSSpecs : SetConfigSet(s)) \/ DeleteConfigSet
  PROVE  SetInv'
<1>0. SetTypes /\ FinalizerInv
  BY DEF SetInv
<1>1. csWake' /\ UNCHANGED <<csPass, configs, csFailed>>
  BY DEF SetConfigSet, DeleteConfigSet
<1>2. cs' \in Sets /\ FinalizerInv'
  <2>1. ASSUME NEW s \in CSSpecs, SetConfigSet(s)
        PROVE  cs' \in Sets /\ FinalizerInv'
    <3>1. cs' \in Sets /\ cs'.spec = s /\ cs'.deleting = cs.deleting /\ cs'.finalizer = cs.finalizer
      BY <1>0, <2>1 DEF SetConfigSet, SetTypes, Sets
    <3> QED BY <1>0, <1>1, <3>1, FleetAssumption DEF FinalizerInv
  <2>2. ASSUME DeleteConfigSet
        PROVE  cs' \in Sets /\ FinalizerInv'
    <3>1. CASE cs.finalizer
      <4>1. cs' \in Sets /\ cs'.spec = cs.spec /\ cs'.finalizer
        BY <1>0, <2>2, <3>1 DEF DeleteConfigSet, SetTypes, Sets
      <4> QED BY <2>2, <4>1 DEF FinalizerInv, DeleteConfigSet
    <3>2. CASE ~cs.finalizer
      <4>1. cs' = NoSet /\ csPass' = None
        BY <1>0, <1>1, <2>2, <3>2 DEF DeleteConfigSet, FinalizerInv
      <4> QED BY <4>1 DEF FinalizerInv, NoSet, NoShown, Sets, Shows, Conds
    <3> QED BY <3>1, <3>2
  <2> QED BY <2>1, <2>2
<1>3. SetTypes'
  BY <1>0, <1>1, <1>2 DEF SetTypes
<1> QED BY <1>1, <1>2, <1>3, QueuedOrGone

\* A pass starts: it lists what there is.
LEMMA PassStarts ==
  ASSUME SetInv, ListTargets
  PROVE  SetInv'
<1>0. SetTypes /\ FinalizerInv
  BY DEF SetInv
<1>1. /\ ~csWake' /\ cs.spec # None /\ ~cs.deleting
      /\ cs' = [cs EXCEPT !.finalizer = TRUE] /\ csPass' = [targets |-> Live, spec |-> cs.spec]
      /\ UNCHANGED <<configs, csFailed, targets>>
  BY DEF ListTargets, dvars
<1>2. /\ cs' \in Sets /\ cs'.spec = cs.spec /\ ~cs'.deleting /\ cs'.finalizer
  BY <1>0, <1>1 DEF SetTypes, Sets
<1>3. csPass' \in Passes /\ csPass'.targets = Live /\ csPass'.spec = cs.spec
  BY <1>0, <1>1 DEF SetTypes, Sets, Passes, Live
<1>4. csPass' # None
  BY <1>3, FleetAssumption DEF Passes
<1>5. Live' = Live
  BY <1>1 DEF Live
<1>6. SetTypes'
  <2>1. csWake' \in BOOLEAN
    BY DEF ListTargets
  <2> QED BY <1>0, <1>1, <1>2, <1>3, <2>1 DEF SetTypes
<1>7. FinalizerInv' /\ PassInv' /\ ConfigsAreCurrent'
  BY <1>1, <1>2, <1>3, <1>4, <1>5 DEF FinalizerInv, PassInv, ConfigsAreCurrent
<1> QED BY <1>6, <1>7 DEF SetInv

\* What ensureConfigs makes of a Config is one again; of a host whose call does
\* not fail it makes what it makes when none fails.
LEMMA EnsuredTypes ==
  ASSUME SetTypes, csPass \in Passes, NEW h \in Hosts, NEW F \in SUBSET Hosts
  PROVE  /\ Ensured(h, F) \in Configs
         /\ h \notin F => Ensured(h, F) = Ensured(h, {})
<1>1. configs[h] \in Configs /\ NoConfig \in Configs
  BY DEF SetTypes, NoConfig, Configs
<1>2. csPass.spec \in CSSpecs /\ csPass.targets \in SUBSET Hosts
  BY DEF Passes
<1>3. [NoConfig EXCEPT !.spec = csPass.spec] \in Configs
  BY <1>1, <1>2 DEF Configs
<1>4. [configs[h] EXCEPT !.spec = csPass.spec] \in Configs
  BY <1>1, <1>2 DEF Configs
<1>5. [configs[h] EXCEPT !.deleting = TRUE] \in Configs
  BY <1>1 DEF Configs
<1>6. Ensured(h, F) \in Configs
  BY <1>1, <1>3, <1>4, <1>5 DEF Ensured
<1>7. h \notin F => Ensured(h, F) = Ensured(h, {})
  BY DEF Ensured
<1> QED BY <1>6, <1>7

\* A pass that finds nothing to do found the Configs its list calls for.
LEMMA NothingToDo ==
  ASSUME SetTypes, csPass \in Passes, NEW h \in Hosts, Ensured(h, {}) = configs[h]
  PROVE  IF h \in csPass.targets THEN configs[h].spec = csPass.spec
         ELSE Exists(h) => configs[h].deleting
<1>1. configs[h] \in Configs /\ NoConfig \in Configs /\ csPass.spec \in CSSpecs
  BY DEF SetTypes, NoConfig, Configs, Passes
<1>2. CASE h \in csPass.targets /\ ~Exists(h)
  <2>1. configs[h] = [NoConfig EXCEPT !.spec = csPass.spec]
    BY <1>2 DEF Ensured
  <2> QED BY <1>1, <1>2, <2>1 DEF Configs
<1>3. CASE h \in csPass.targets /\ Exists(h)
  <2>1. configs[h] = [configs[h] EXCEPT !.spec = csPass.spec]
    BY <1>3 DEF Ensured
  <2> QED BY <1>1, <1>3, <2>1 DEF Configs
<1>4. CASE h \notin csPass.targets /\ Exists(h)
  <2>1. configs[h] = [configs[h] EXCEPT !.deleting = TRUE]
    BY <1>4 DEF Ensured
  <2> QED BY <1>1, <1>4, <2>1 DEF Configs
<1> QED BY <1>2, <1>3, <1>4

\* A pass ends.  When it leaves the ConfigSet alone, nothing changed since its
\* list and it changed nothing itself; what it did not do because a call failed
\* is what csFailed notes.
LEMMA PassEnsures ==
  ASSUME SetInv, NEW F \in SUBSET Hosts, NEW listed \in BOOLEAN, EnsureConfigs(F, listed)
  PROVE  SetInv'
<1>0. SetTypes /\ FinalizerInv /\ PassInv
  BY DEF SetInv
<1> DEFINE shown == [h \in Hosts |-> Shown(h, F, listed)]
           cond  == IF \E h \in Hosts : shown[h] \in {"pending", "failed", "notready"}
                    THEN "failed" ELSE "ready"
           new   == [cs EXCEPT !.cond = cond, !.shown = shown]
<1>1. /\ csPass # None /\ csPass' = None /\ targets' = targets
      /\ configs' = [h \in Hosts |-> Ensured(h, F)]
      /\ cs' = cs \/ cs' = new
      /\ csWake' = (csWake \/ cs' # cs \/ configs' # configs)
      /\ csFailed' = \E h \in F : Ensured(h, {}) # configs[h]
  BY DEF EnsureConfigs
<1>2. csPass \in Passes
  BY <1>0, <1>1 DEF SetTypes
<1>3. shown \in Shows /\ cond \in Conds
  <2>1. \A h \in Hosts : Shown(h, F, listed) \in {"absent", "pending", "failed", "notready", "ready"}
    BY DEF Shown
  <2> QED BY <2>1 DEF Shows, Conds
<1> HIDE DEF shown, cond
<1>4. /\ cs' \in Sets /\ cs'.spec = cs.spec /\ cs'.deleting = cs.deleting
      /\ cs'.finalizer = cs.finalizer
  <2>1. cs \in Sets
    BY <1>0 DEF SetTypes
  <2>2. new \in Sets /\ new.spec = cs.spec /\ new.deleting = cs.deleting
        /\ new.finalizer = cs.finalizer
    BY <1>3, <2>1 DEF Sets
  <2> HIDE DEF new
  <2> QED BY <1>1, <2>1, <2>2
<1> HIDE DEF new
<1>5. SetTypes'
  <2>1. configs' \in [Hosts -> Configs]
    BY <1>0, <1>1, <1>2, EnsuredTypes
  <2>2. csWake' \in BOOLEAN /\ csFailed' \in BOOLEAN
    BY <1>0, <1>1 DEF SetTypes
  <2> QED BY <1>1, <1>4, <2>1, <2>2 DEF SetTypes
<1>6. FinalizerInv' /\ PassInv'
  BY <1>0, <1>1, <1>4 DEF FinalizerInv, PassInv
<1>7. ConfigsAreCurrent'
  <2> SUFFICES ASSUME ~csWake', ~csFailed'
               PROVE  /\ \A h \in Live' : configs'[h].spec = cs'.spec
                      /\ \A h \in Hosts \ Live' : configs'[h].spec # None => configs'[h].deleting
    BY DEF ConfigsAreCurrent, Exists
  <2>1. ~csWake /\ configs' = configs /\ Live' = Live
    BY <1>1 DEF Live
  <2>2. csPass.targets = Live /\ csPass.spec = cs.spec
    BY <1>0, <1>1, <2>1 DEF PassInv
  <2>3. ASSUME NEW h \in Hosts
        PROVE  Ensured(h, {}) = configs[h]
    <3>1. CASE h \in F
      BY <1>1, <3>1
    <3>2. CASE h \notin F
      <4>1. Ensured(h, F) = configs[h]
        BY <1>1, <2>1
      <4> QED BY <1>0, <1>2, <3>2, <4>1, EnsuredTypes
    <3> QED BY <3>1, <3>2
  <2>4. ASSUME NEW h \in Hosts
        PROVE  IF h \in Live THEN configs[h].spec = cs.spec
               ELSE configs[h].spec # None => configs[h].deleting
    BY <1>0, <1>2, <2>2, <2>3, NothingToDo DEF Exists
  <2>5. Live \subseteq Hosts
    BY DEF Live
  <2> QED BY <1>4, <2>1, <2>4, <2>5
<1> QED BY <1>5, <1>6, <1>7 DEF SetInv

\* The rest of its controller: the ConfigSet is gone, being deleted, or a call
\* failed.
LEMMA SetReconciles ==
  ASSUME SetInv, SetNotFound \/ ListTargetsFails \/ DeleteConfigs
  PROVE  SetInv'
<1>0. SetTypes /\ FinalizerInv
  BY DEF SetInv
<1>1. csPass = None /\ csPass' = None /\ csFailed' = csFailed
  BY DEF SetNotFound, ListTargetsFails, DeleteConfigs
<1>2. NoSet \in Sets /\ NoSet.spec = None /\ ~NoSet.finalizer /\ ~NoSet.deleting
  BY DEF NoSet, NoShown, Sets, Shows, Conds
<1>3. ASSUME NEW f \in {cs.finalizer, TRUE}
      PROVE  LET c == [cs EXCEPT !.cond = "failed", !.finalizer = f]
             IN  c \in Sets /\ c.spec = cs.spec /\ c.deleting = cs.deleting /\ c.finalizer = f
  BY <1>0 DEF SetTypes, Sets, Conds
<1>4. \/ cs' = cs \/ cs' = NoSet
      \/ \E f \in {cs.finalizer, TRUE} :
            /\ cs' = [cs EXCEPT !.cond = "failed", !.finalizer = f]
            /\ f = cs.finalizer \/ cs.spec # None
  <2>1. CASE SetNotFound
    BY <2>1 DEF SetNotFound
  <2>2. CASE ListTargetsFails
    BY <2>2 DEF ListTargetsFails
  <2>3. CASE DeleteConfigs
    <3>1. [cs EXCEPT !.cond = "failed"]
            = [cs EXCEPT !.cond = "failed", !.finalizer = cs.finalizer]
      BY <1>0 DEF SetTypes, Sets
    <3>2. \/ cs' = cs \/ cs' = NoSet \/ cs' = [cs EXCEPT !.cond = "failed"]
      BY <2>3 DEF DeleteConfigs
    <3> QED BY <3>1, <3>2
  <2> QED BY <2>1, <2>2, <2>3
<1>5. /\ cs' \in Sets /\ FinalizerInv' /\ (cs'.deleting => cs.deleting)
      /\ cs'.spec = None \/ cs'.deleting = cs.deleting
  <2>1. CASE cs' = cs \/ cs' = NoSet
    BY <1>0, <1>1, <1>2, <2>1 DEF SetTypes, FinalizerInv
  <2>2. CASE \E f \in {cs.finalizer, TRUE} :
                /\ cs' = [cs EXCEPT !.cond = "failed", !.finalizer = f]
                /\ f = cs.finalizer \/ cs.spec # None
    BY <1>0, <1>1, <1>3, <2>2 DEF SetTypes, FinalizerInv
  <2> QED BY <1>4, <2>1, <2>2
<1>6. csWake' \in BOOLEAN
  BY <1>0 DEF SetNotFound, ListTargetsFails, DeleteConfigs, SetTypes
<1>7. configs' \in [Hosts -> Configs]
  <2>1. \A h \in Hosts : [configs[h] EXCEPT !.deleting = Exists(h)] \in Configs
    BY <1>0 DEF SetTypes, Configs, Exists
  <2>2. \A h \in Hosts : [configs[h] EXCEPT !.deleting = TRUE] \in Configs /\ configs[h] \in Configs
    BY <1>0 DEF SetTypes, Configs
  <2>3. CASE configs' = configs
    BY <1>0, <2>3 DEF SetTypes
  <2>4. CASE configs' = [h \in Hosts |-> [configs[h] EXCEPT !.deleting = Exists(h)]]
    BY <2>1, <2>4
  <2>5. CASE \E S \in SUBSET {h \in Hosts : Exists(h)} :
                configs' = [h \in Hosts |-> IF h \in S THEN [configs[h] EXCEPT !.deleting = TRUE]
                                           ELSE configs[h]]
    BY <2>2, <2>5
  <2>6. CASE SetNotFound \/ ListTargetsFails
    BY <2>3, <2>6 DEF SetNotFound, ListTargetsFails
  <2>7. CASE DeleteConfigs
    <3> HIDE DEF Configs
    <3> QED BY <2>3, <2>4, <2>5, <2>7 DEF DeleteConfigs
  <2> QED BY <2>6, <2>7
<1>8. SetTypes'
  BY <1>0, <1>1, <1>5, <1>6, <1>7 DEF SetTypes
<1>9. CASE SetNotFound
  <2>1. cs'.spec = None
    BY <1>9 DEF SetNotFound
  <2> QED BY <1>5, <1>8, <2>1, QueuedOrGone
<1>10. CASE ListTargetsFails
  <2>1. csWake'
    BY <1>10 DEF ListTargetsFails
  <2> QED BY <1>5, <1>8, <2>1, QueuedOrGone
<1>11. CASE DeleteConfigs
  <2>1. cs.deleting
    BY <1>11 DEF DeleteConfigs
  <2>2. cs'.spec = None \/ cs'.deleting
    BY <1>5, <2>1
  <2> QED BY <1>1, <1>5, <1>8, <2>2 DEF SetInv, PassInv, ConfigsAreCurrent
<1> QED BY <1>9, <1>10, <1>11

\* The controllers of the Configs: a Config that changes or goes queues the
\* ConfigSet; one that is collected has none.
LEMMA ConfigSteps ==
  ASSUME SetInv, NEW h \in Hosts, ConfigReady(h) \/ ConfigGone(h) \/ CollectConfig(h)
  PROVE  SetInv'
<1>0. SetTypes /\ FinalizerInv
  BY DEF SetInv
<1>1. UNCHANGED <<cs, csPass, csFailed>>
  BY DEF ConfigReady, ConfigGone, CollectConfig
<1>2. csWake' \in BOOLEAN /\ (csWake' \/ cs'.spec = None)
  BY <1>0 DEF ConfigReady, ConfigGone, CollectConfig, Event, SetTypes
<1>3. configs' \in [Hosts -> Configs]
  <2>1. /\ [configs[h] EXCEPT !.ready = TRUE] \in Configs
        /\ [configs[h] EXCEPT !.deleting = TRUE] \in Configs
        /\ NoConfig \in Configs
    BY <1>0 DEF SetTypes, Configs, NoConfig
  <2>2. \E c \in Configs : configs' = [configs EXCEPT ![h] = c]
    BY <2>1 DEF ConfigReady, ConfigGone, CollectConfig
  <2> QED BY <1>0, <2>2 DEF SetTypes
<1>4. SetTypes' /\ FinalizerInv'
  BY <1>0, <1>1, <1>2, <1>3 DEF SetTypes, FinalizerInv
<1> QED BY <1>2, <1>4, QueuedOrGone

-----------------------------------------------------------------------------
(* The whole. *)

\* A step of the controller of the ConfigSet leaves discovery alone, as a step
\* of a user or of a Config does.
LEMMA SetStepLeavesDiscovery ==
  ASSUME \/ \E s \in CSSpecs : SetConfigSet(s)
         \/ DeleteConfigSet \/ SetReconcile \/ ListTargetsFails
         \/ \E h \in Hosts : ConfigReady(h) \/ ConfigGone(h) \/ CollectConfig(h)
  PROVE  /\ UNCHANGED <<drVars, up, inFlight, targets, leaked>>
         /\ \/ UNCHANGED <<edits, faults>>
            \/ Edit /\ UNCHANGED faults
            \/ Fault /\ UNCHANGED edits
<1>1. ASSUME (\E s \in CSSpecs : SetConfigSet(s)) \/ DeleteConfigSet
      PROVE  UNCHANGED <<drVars, up, inFlight, targets, leaked>> /\ Edit /\ UNCHANGED faults
  BY <1>1 DEF SetConfigSet, DeleteConfigSet
<1>2. ASSUME \/ SetNotFound \/ ListTargets
             \/ \E h \in Hosts : ConfigReady(h) \/ ConfigGone(h) \/ CollectConfig(h)
      PROVE  UNCHANGED <<drVars, up, inFlight, targets, leaked>> /\ UNCHANGED <<edits, faults>>
  BY <1>2 DEF SetNotFound, ListTargets, ConfigReady, ConfigGone, CollectConfig, dvars
<1>3. ASSUME ListTargetsFails
      PROVE  UNCHANGED <<drVars, up, inFlight, targets, leaked>> /\ Fault /\ UNCHANGED edits
  BY <1>3 DEF ListTargetsFails
<1>4. ASSUME Ensure \/ DeleteConfigs
      PROVE  /\ UNCHANGED <<drVars, up, inFlight, targets, leaked, edits>>
             /\ UNCHANGED faults \/ Fault
  BY <1>4 DEF Ensure, EnsureConfigs, DeleteConfigs
<1> QED BY <1>1, <1>2, <1>3, <1>4 DEF SetReconcile

\* Initial states and steps of the system.
LEMMA FleetInitInv == Init => FleetInv
BY DiscoveryInitInv, SetInitInv DEF Init, FleetInv

LEMMA FleetNextInv ==
  ASSUME FleetInv, [Next]_vars
  PROVE  FleetInv'
<1>0. DiscoveryInv /\ SetInv
  BY DEF FleetInv
<1>1. CASE DiscoveryInternal /\ UNCHANGED csVars
  BY <1>0, <1>1, DiscoveryInternalInv, SetUntouched DEF FleetInv
<1>2. CASE Watched(TargetStep)
  <2>1. TargetStep
    BY <1>2 DEF Watched
  <2> QED BY <1>0, <1>2, <2>1, TargetStepInv, SetWatches DEF FleetInv
<1>3. CASE \/ \E s \in CSSpecs : SetConfigSet(s)
           \/ DeleteConfigSet \/ SetReconcile \/ ListTargetsFails
           \/ \E h \in Hosts : ConfigReady(h) \/ ConfigGone(h) \/ CollectConfig(h)
  <2>1. DiscoveryInv'
    BY <1>0, <1>3, SetStepLeavesDiscovery, DiscoveryUntouched
  <2>2. CASE (\E s \in CSSpecs : SetConfigSet(s)) \/ DeleteConfigSet
    BY <1>0, <2>1, <2>2, SetEdited DEF FleetInv
  <2>3. CASE SetNotFound \/ DeleteConfigs \/ ListTargetsFails
    BY <1>0, <2>1, <2>3, SetReconciles DEF FleetInv
  <2>4. CASE ListTargets
    BY <1>0, <2>1, <2>4, PassStarts DEF FleetInv
  <2>5. CASE Ensure
    <3>1. \E F \in SUBSET Hosts, listed \in BOOLEAN : EnsureConfigs(F, listed)
      BY <2>5 DEF Ensure
    <3> QED BY <1>0, <2>1, <3>1, PassEnsures DEF FleetInv
  <2>6. CASE \E h \in Hosts : ConfigReady(h) \/ ConfigGone(h) \/ CollectConfig(h)
    BY <1>0, <2>1, <2>6, ConfigSteps DEF FleetInv
  <2> QED BY <1>3, <2>2, <2>3, <2>4, <2>5, <2>6 DEF SetReconcile
<1>4. CASE UNCHANGED vars
  <2>1. UNCHANGED <<drVars, up, inFlight, targets, leaked, edits, faults>> /\ UNCHANGED csVars
        /\ targets' = targets
    BY <1>4 DEF vars, dvars
  <2>2. DiscoveryInv'
    BY <1>0, <2>1, DiscoveryUntouched
  <2> QED BY <1>0, <2>1, <2>2, SetUntouched DEF FleetInv
<1> QED BY <1>1, <1>2, <1>3, <1>4 DEF Next

(* The inductive invariant holds in every state of discovery and the ConfigSet
   controller. *)
THEOREM FleetInvariant == Spec => []FleetInv
<1>1. Init => FleetInv
  BY FleetInitInv
<1>2. FleetInv /\ [Next]_vars => FleetInv'
  BY FleetNextInv
<1> QED BY <1>1, <1>2, PTL DEF Spec

(* Types of discovery and the ConfigSet controller; the instance in the
   discoveryStore was not stopped, and a ConfigSet that is being deleted has its
   finalizer. *)
THEOREM FleetTypes == Spec => []FleetTypeOK
<1>1. FleetInv => FleetTypeOK
  <2> SUFFICES ASSUME FleetInv PROVE FleetTypeOK
    OBVIOUS
  <2>1. DiscoveryTypeOK
    <3>1. drs \in [Instances -> [st : {"exited", "created", "idle", "scan", "delete"},
                                version : Versions, cfg : SUBSET Hosts, cancelled : BOOLEAN,
                                todo : SUBSET Hosts, children : SUBSET Hosts]]
      BY DEF FleetInv, DiscoveryInv, DrsInv, DRs
    <3> QED BY <3>1 DEF FleetInv, DiscoveryInv, RuleInv, DrsInv, WorldInv, BoundsInv, Rules,
                        Requests, Versions, DiscoveryTypeOK
  <2> QED BY <2>1 DEF FleetInv, DiscoveryInv, StoreInv, SetInv, SetTypes, FinalizerInv, Sets,
                      Shows, Conds, Passes, Configs, FleetTypeOK
<1> QED BY <1>1, FleetInvariant, PTL

(* Whenever the ConfigSet is not queued and no pass runs, its Configs are the
   ones its spec and the Targets of now call for, unless the last pass failed. *)
THEOREM SettledConfigsAreCurrent == Spec => []ConfigsAreCurrent
<1>1. FleetInv => ConfigsAreCurrent
  BY DEF FleetInv, SetInv
<1> QED BY <1>1, FleetInvariant, PTL

(* While the rule is there, a Target is deleted only by the instance in the
   discoveryStore, for a host its pass did not discover, or by the Delete it had
   sent when it was stopped, unless a Stop came before Run. *)
THEOREM StoppedInstanceSendsNothing == Spec => OnlyCurrentDeletes
<1> DEFINE P == \A h \in Hosts :
              /\ targets[h] = "live" /\ targets'[h] = "deleting" /\ rule.spec # None /\ ~leaked =>
                    MayDelete(h) \/ <<"delete", h>> \in inFlight \ inFlight'
              /\ <<"delete", h>> \in inFlight' \ inFlight => MayDelete(h) /\ store' # store
<1>1. FleetInv /\ [Next]_vars => [P]_vars
  <2> SUFFICES ASSUME FleetInv, Next PROVE P
    OBVIOUS
  <2>0. DiscoveryInv
    BY DEF FleetInv
  <2>1. CASE DiscoveryInternal
    BY <2>0, <2>1, DiscoveryInternalInv DEF CurrentSends
  <2>2. CASE TargetStep
    BY <2>0, <2>2, CurrentDeletes, TargetStepInv
  <2>3. CASE UNCHANGED <<drVars, up, inFlight, targets, leaked>>
    BY <2>3
  <2> QED BY <2>0, <2>1, <2>2, <2>3, SetStepLeavesDiscovery DEF Next, Watched
<1> QED BY <1>1, FleetInvariant, PTL DEF Spec, OnlyCurrentDeletes

-----------------------------------------------------------------------------
(* The life of a Target (TargetDatastore). *)

(* Why the two safety properties hold through every interruption: the
   finalizer covers the time in which a datastore or a run loop can exist, and
   the steps of reconcileDelete come in one order. *)
FinalizerCovers ==
  /\ target = "absent" => finalizers = {}
  /\ "datastore" \notin finalizers =>
       /\ ~exists /\ loop # "running" /\ ~registered
       /\ rec \notin {"pipeline", "token", "apply", "status", "write"}
       /\ rec = "finalizer" => ~copy.owned

DeleteOrder ==
  /\ rec = "apply" => registered
  /\ rec \in {"delete", "finalize"} => ~registered
  /\ mrpc # "none" => rec = "delete" /\ ~exists
  /\ rec = "finalize" => ~exists
  /\ rec \in {"stop", "waitStop", "delete", "finalize"} /\ "datastore" \in finalizers =>
       target = "deleting" /\ finalizers = {"datastore"}

LifeInv == UnregisteredDoesNotRun /\ FinalizerCovers /\ DeleteOrder

(* Every step of the reconciler, the manager, the runtime, the user and a
   crash keeps the types. *)
LEMMA LifeTypeStep ==
  LifeTypeOK /\ [LifeNext]_allVars => LifeTypeOK'
<1> SUFFICES ASSUME CTypeOK, ObjTypeOK, EnvTypeOK, RecTypeOK,
                    [LifeNext]_allVars
             PROVE  CTypeOK' /\ ObjTypeOK' /\ EnvTypeOK' /\ RecTypeOK'
  BY DEF LifeTypeOK
<1> USE LifeAssumption
        DEF CTypeOK, ObjTypeOK, EnvTypeOK, RecTypeOK, RecPCs, cvars, lifeVars, objVars, envVars,
            recVars
<1>0. NoCopy \in Copies
  BY DEF NoCopy, Copies
<1>1. CASE CreateTarget
  <2>1. CTypeOK'
    BY <1>1 DEF CreateTarget
  <2>2. ObjTypeOK'
    BY <1>1 DEF CreateTarget
  <2>3. EnvTypeOK'
    BY <1>1 DEF CreateTarget
  <2>4. RecTypeOK'
    BY <1>1 DEF CreateTarget
  <2>5. QED
    BY <2>1, <2>2, <2>3, <2>4
<1>2. CASE DeleteTarget
  <2>1. CTypeOK'
    BY <1>2 DEF DeleteTarget, Gone
  <2>2. ObjTypeOK'
    BY <1>2 DEF DeleteTarget, Gone
  <2>3. EnvTypeOK'
    BY <1>2 DEF DeleteTarget, Gone
  <2>4. RecTypeOK'
    BY <1>2 DEF DeleteTarget, Gone
  <2>5. QED
    BY <2>1, <2>2, <2>3, <2>4
<1>3. CASE DiscoveryChanges
  <2>1. CTypeOK'
    BY <1>3 DEF DiscoveryChanges
  <2>2. ObjTypeOK'
    BY <1>3 DEF DiscoveryChanges
  <2>3. EnvTypeOK'
    BY <1>3 DEF DiscoveryChanges
  <2>4. RecTypeOK'
    BY <1>3 DEF DiscoveryChanges
  <2>5. QED
    BY <2>1, <2>2, <2>3, <2>4
<1>4. CASE AddConfigFinalizer
  <2>1. CTypeOK'
    BY <1>4 DEF AddConfigFinalizer
  <2>2. ObjTypeOK'
    BY <1>4 DEF AddConfigFinalizer
  <2>3. EnvTypeOK'
    BY <1>4 DEF AddConfigFinalizer
  <2>4. RecTypeOK'
    BY <1>4 DEF AddConfigFinalizer
  <2>5. QED
    BY <2>1, <2>2, <2>3, <2>4
<1>5. CASE RemoveConfigFinalizer
  <2>1. CTypeOK'
    BY <1>5 DEF RemoveConfigFinalizer, Gone
  <2>2. ObjTypeOK'
    BY <1>5 DEF RemoveConfigFinalizer, Gone
  <2>3. EnvTypeOK'
    BY <1>5 DEF RemoveConfigFinalizer, Gone
  <2>4. RecTypeOK'
    BY <1>5 DEF RemoveConfigFinalizer, Gone
  <2>5. QED
    BY <2>1, <2>2, <2>3, <2>4
<1>6. CASE ReconcileAbsent
  <2>1. CTypeOK'
    BY <1>6 DEF ReconcileAbsent, Begin, Done
  <2>2. ObjTypeOK'
    BY <1>6 DEF ReconcileAbsent, Begin, Done
  <2>3. EnvTypeOK'
    BY <1>6 DEF ReconcileAbsent, Begin, Done
  <2>4. RecTypeOK'
    BY <1>0, <1>6 DEF ReconcileAbsent, Begin, Done
  <2>5. QED
    BY <2>1, <2>2, <2>3, <2>4
<1>7. CASE ReconcileLive
  <2>1. CTypeOK'
    BY <1>7 DEF ReconcileLive, Begin
  <2>2. ObjTypeOK'
    BY <1>7 DEF ReconcileLive, Begin
  <2>3. EnvTypeOK'
    BY <1>7 DEF ReconcileLive, Begin
  <2>4. RecTypeOK'
    <3>1. [NoCopy EXCEPT !.owned = "datastore" \in finalizers, !.discovered = discovered]
            \in Copies
      <4>1. \A p, q \in BOOLEAN : [NoCopy EXCEPT !.owned = p, !.discovered = q] \in Copies
        BY DEF NoCopy, Copies
      <4>2. ("datastore" \in finalizers) \in BOOLEAN /\ discovered \in BOOLEAN
        OBVIOUS
      <4> QED BY <4>1, <4>2, Zenon
    <3> QED BY <1>7, <3>1 DEF ReconcileLive, Begin
  <2>5. QED
    BY <2>1, <2>2, <2>3, <2>4
<1>8. CASE AddFinalizer
  <2>1. CTypeOK'
    BY <1>8 DEF AddFinalizer
  <2>2. ObjTypeOK'
    BY <1>8 DEF AddFinalizer
  <2>3. EnvTypeOK'
    BY <1>8 DEF AddFinalizer
  <2>4. RecTypeOK'
    BY <1>8 DEF AddFinalizer
  <2>5. QED
    BY <2>1, <2>2, <2>3, <2>4
<1>9. CASE Pipeline
  <2>1. CTypeOK'
    BY <1>9 DEF Pipeline, WriteReady, Done
  <2>2. ObjTypeOK'
    BY <1>9 DEF Pipeline, WriteReady, Done
  <2>3. EnvTypeOK'
    BY <1>9 DEF Pipeline, WriteReady, Done
  <2>4. RecTypeOK'
    BY <1>0, <1>9 DEF Pipeline, WriteReady, Done
  <2>5. QED
    BY <2>1, <2>2, <2>3, <2>4
<1>10. CASE GetOrCreate
  <2>1. CTypeOK'
    BY <1>10 DEF GetOrCreate
  <2>2. ObjTypeOK'
    BY <1>10 DEF GetOrCreate
  <2>3. EnvTypeOK'
    BY <1>10 DEF GetOrCreate
  <2>4. RecTypeOK'
    BY <1>10 DEF GetOrCreate
  <2>5. QED
    BY <2>1, <2>2, <2>3, <2>4
<1>11. CASE ApplyDesired
  <2>1. CTypeOK'
    BY <1>11 DEF ApplyDesired, CStart
  <2>2. ObjTypeOK'
    BY <1>11 DEF ApplyDesired, CStart
  <2>3. EnvTypeOK'
    BY <1>11 DEF ApplyDesired, CStart
  <2>4. RecTypeOK'
    BY <1>11 DEF ApplyDesired, CStart
  <2>5. QED
    BY <2>1, <2>2, <2>3, <2>4
<1>12. CASE ReconcileStatus
  <2>1. CTypeOK'
    BY <1>12 DEF ReconcileStatus
  <2>2. ObjTypeOK'
    BY <1>12 DEF ReconcileStatus
  <2>3. EnvTypeOK'
    BY <1>12 DEF ReconcileStatus
  <2>4. RecTypeOK'
    BY <1>12 DEF ReconcileStatus, Copies
  <2>5. QED
    BY <2>1, <2>2, <2>3, <2>4
<1>13. CASE ReconcileWrites
  <2>1. CTypeOK'
    BY <1>13 DEF ReconcileWrites, WriteReady, Done
  <2>2. ObjTypeOK'
    <3>1. copy.running \in BOOLEAN
      BY DEF Copies
    <3> QED BY <1>13, <3>1 DEF ReconcileWrites, WriteReady
  <2>3. EnvTypeOK'
    BY <1>13 DEF ReconcileWrites, WriteReady, Done
  <2>4. RecTypeOK'
    BY <1>0, <1>13 DEF ReconcileWrites, WriteReady, Done
  <2>5. QED
    BY <2>1, <2>2, <2>3, <2>4
<1>14. CASE ReconcileErrs
  <2>1. CTypeOK'
    BY <1>14 DEF ReconcileErrs, Done
  <2>2. ObjTypeOK'
    BY <1>14 DEF ReconcileErrs, Done
  <2>3. EnvTypeOK'
    BY <1>14 DEF ReconcileErrs, Done
  <2>4. RecTypeOK'
    BY <1>0, <1>14 DEF ReconcileErrs, Done
  <2>5. QED
    BY <2>1, <2>2, <2>3, <2>4
<1>15. CASE ReconcileDelete
  <2>1. CTypeOK'
    BY <1>15 DEF ReconcileDelete, Begin, Done
  <2>2. ObjTypeOK'
    BY <1>15 DEF ReconcileDelete, Begin, Done
  <2>3. EnvTypeOK'
    BY <1>15 DEF ReconcileDelete, Begin, Done
  <2>4. RecTypeOK'
    BY <1>0, <1>15 DEF ReconcileDelete, Begin, Done
  <2>5. QED
    BY <2>1, <2>2, <2>3, <2>4
<1>16. CASE DeleteStops
  <2>1. CTypeOK'
    BY <1>16 DEF DeleteStops, CStop
  <2>2. ObjTypeOK'
    BY <1>16 DEF DeleteStops, CStop
  <2>3. EnvTypeOK'
    BY <1>16 DEF DeleteStops, CStop
  <2>4. RecTypeOK'
    BY <1>16 DEF DeleteStops, CStop
  <2>5. QED
    BY <2>1, <2>2, <2>3, <2>4
<1>17. CASE DeleteWaits
  <2>1. CTypeOK'
    BY <1>17 DEF DeleteWaits, Retry, WriteReady, Done
  <2>2. ObjTypeOK'
    BY <1>17 DEF DeleteWaits, Retry, WriteReady, Done
  <2>3. EnvTypeOK'
    BY <1>17 DEF DeleteWaits, Retry, WriteReady, Done
  <2>4. RecTypeOK'
    BY <1>0, <1>17 DEF DeleteWaits, Retry, WriteReady, Done
  <2>5. QED
    BY <2>1, <2>2, <2>3, <2>4
<1>18. CASE DeleteReturns
  <2>1. CTypeOK'
    BY <1>18 DEF DeleteReturns, Retry, WriteReady, Done
  <2>2. ObjTypeOK'
    BY <1>18 DEF DeleteReturns, Retry, WriteReady, Done
  <2>3. EnvTypeOK'
    BY <1>18 DEF DeleteReturns, Retry, WriteReady, Done
  <2>4. RecTypeOK'
    BY <1>0, <1>18 DEF DeleteReturns, Retry, WriteReady, Done
  <2>5. QED
    BY <2>1, <2>2, <2>3, <2>4
<1>19. CASE RemoveFinalizer
  <2>1. CTypeOK'
    BY <1>19 DEF RemoveFinalizer, Retry, WriteReady, Done, Gone
  <2>2. ObjTypeOK'
    BY <1>19 DEF RemoveFinalizer, Retry, WriteReady, Done, Gone
  <2>3. EnvTypeOK'
    BY <1>19 DEF RemoveFinalizer, Retry, WriteReady, Done, Gone
  <2>4. RecTypeOK'
    BY <1>0, <1>19 DEF RemoveFinalizer, Retry, WriteReady, Done, Gone
  <2>5. QED
    BY <2>1, <2>2, <2>3, <2>4
<1>20. CASE RequeueFires
  <2>1. CTypeOK'
    BY <1>20 DEF RequeueFires
  <2>2. ObjTypeOK'
    BY <1>20 DEF RequeueFires
  <2>3. EnvTypeOK'
    BY <1>20 DEF RequeueFires
  <2>4. RecTypeOK'
    BY <1>20 DEF RequeueFires
  <2>5. QED
    BY <2>1, <2>2, <2>3, <2>4
<1>21. CASE RuntimeWorks
  <2>1. CTypeOK'
    BY <1>21 DEF RuntimeWorks, CWork
  <2>2. ObjTypeOK'
    BY <1>21 DEF RuntimeWorks, CWork
  <2>3. EnvTypeOK'
    BY <1>21 DEF RuntimeWorks, CWork
  <2>4. RecTypeOK'
    BY <1>21 DEF RuntimeWorks, CWork
  <2>5. QED
    BY <2>1, <2>2, <2>3, <2>4
<1>22. CASE RuntimeExits
  <2>1. CTypeOK'
    BY <1>22 DEF RuntimeExits, CExit
  <2>2. ObjTypeOK'
    BY <1>22 DEF RuntimeExits, CExit
  <2>3. EnvTypeOK'
    BY <1>22 DEF RuntimeExits, CExit
  <2>4. RecTypeOK'
    BY <1>22 DEF RuntimeExits, CExit
  <2>5. QED
    BY <2>1, <2>2, <2>3, <2>4
<1>23. CASE ServeDelete
  <2>1. CTypeOK'
    BY <1>23 DEF ServeDelete
  <2>2. ObjTypeOK'
    BY <1>23 DEF ServeDelete
  <2>3. EnvTypeOK'
    BY <1>23 DEF ServeDelete
  <2>4. RecTypeOK'
    BY <1>23 DEF ServeDelete
  <2>5. QED
    BY <2>1, <2>2, <2>3, <2>4
<1>24. CASE DataServerLosesStore
  <2>1. CTypeOK'
    BY <1>24 DEF DataServerLosesStore, CLoss
  <2>2. ObjTypeOK'
    BY <1>24 DEF DataServerLosesStore, CLoss
  <2>3. EnvTypeOK'
    BY <1>24 DEF DataServerLosesStore, CLoss
  <2>4. RecTypeOK'
    BY <1>24 DEF DataServerLosesStore, CLoss
  <2>5. QED
    BY <2>1, <2>2, <2>3, <2>4
<1>25. CASE Crash
  <2>1. CTypeOK'
    BY <1>25 DEF Crash
  <2>2. ObjTypeOK'
    BY <1>25 DEF Crash
  <2>3. EnvTypeOK'
    BY <1>25 DEF Crash
  <2>4. RecTypeOK'
    BY <1>0, <1>25 DEF Crash
  <2>5. QED
    BY <2>1, <2>2, <2>3, <2>4
<1>26. CASE UNCHANGED allVars
  BY <1>26 DEF allVars
<1> QED
  BY <1>1, <1>2, <1>3, <1>4, <1>5, <1>6, <1>7, <1>8, <1>9, <1>10, <1>11,
     <1>12, <1>13, <1>14, <1>15, <1>16, <1>17, <1>18, <1>19, <1>20, <1>21,
     <1>22, <1>23, <1>24, <1>25, <1>26
     DEF LifeNext, Reconcile

(* Every such step keeps the order of finalization. *)
LEMMA LifeInvStep ==
  LifeTypeOK /\ LifeInv /\ [LifeNext]_allVars => LifeInv'
<1> SUFFICES ASSUME LifeTypeOK, LifeInv, [LifeNext]_allVars
             PROVE  LifeInv'
  OBVIOUS
<1> USE DEF LifeInv, LifeTypeOK, CTypeOK, ObjTypeOK, RecTypeOK,
            UnregisteredDoesNotRun, FinalizerCovers, DeleteOrder, RecPCs,
            Copies, NoCopy, cvars, lifeVars, objVars, recVars
<1>1. CASE CreateTarget
  <2>1. UnregisteredDoesNotRun'
    BY <1>1 DEF CreateTarget
  <2>2. FinalizerCovers'
    BY <1>1 DEF CreateTarget
  <2>3. DeleteOrder'
    BY <1>1 DEF CreateTarget
  <2>4. QED
    BY <2>1, <2>2, <2>3 DEF LifeInv
<1>2. CASE DeleteTarget
  <2>1. UnregisteredDoesNotRun'
    BY <1>2 DEF DeleteTarget, Gone
  <2>2. FinalizerCovers'
    BY <1>2 DEF DeleteTarget, Gone
  <2>3. DeleteOrder'
    BY <1>2 DEF DeleteTarget, Gone
  <2>4. QED
    BY <2>1, <2>2, <2>3 DEF LifeInv
<1>3. CASE DiscoveryChanges
  <2>1. UnregisteredDoesNotRun'
    BY <1>3 DEF DiscoveryChanges
  <2>2. FinalizerCovers'
    BY <1>3 DEF DiscoveryChanges
  <2>3. DeleteOrder'
    BY <1>3 DEF DiscoveryChanges
  <2>4. QED
    BY <2>1, <2>2, <2>3 DEF LifeInv
<1>4. CASE AddConfigFinalizer
  <2>1. UnregisteredDoesNotRun'
    BY <1>4 DEF AddConfigFinalizer
  <2>2. FinalizerCovers'
    BY <1>4 DEF AddConfigFinalizer
  <2>3. DeleteOrder'
    BY <1>4 DEF AddConfigFinalizer
  <2>4. QED
    BY <2>1, <2>2, <2>3 DEF LifeInv
<1>5. CASE RemoveConfigFinalizer
  <2>1. UnregisteredDoesNotRun'
    BY <1>5 DEF RemoveConfigFinalizer, Gone
  <2>2. FinalizerCovers'
    BY <1>5 DEF RemoveConfigFinalizer, Gone
  <2>3. DeleteOrder'
    BY <1>5 DEF RemoveConfigFinalizer, Gone
  <2>4. QED
    BY <2>1, <2>2, <2>3 DEF LifeInv
<1>6. CASE ReconcileAbsent
  <2>1. UnregisteredDoesNotRun'
    BY <1>6 DEF ReconcileAbsent, Begin, Done
  <2>2. FinalizerCovers'
    BY <1>6 DEF ReconcileAbsent, Begin, Done
  <2>3. DeleteOrder'
    BY <1>6 DEF ReconcileAbsent, Begin, Done
  <2>4. QED
    BY <2>1, <2>2, <2>3 DEF LifeInv
<1>7. CASE ReconcileLive
  <2>1. UnregisteredDoesNotRun'
    BY <1>7 DEF ReconcileLive, Begin
  <2>2. FinalizerCovers'
    BY <1>7 DEF ReconcileLive, Begin
  <2>3. DeleteOrder'
    BY <1>7 DEF ReconcileLive, Begin
  <2>4. QED
    BY <2>1, <2>2, <2>3 DEF LifeInv
<1>8. CASE AddFinalizer
  <2>1. UnregisteredDoesNotRun'
    BY <1>8 DEF AddFinalizer
  <2>2. FinalizerCovers'
    BY <1>8 DEF AddFinalizer
  <2>3. DeleteOrder'
    BY <1>8 DEF AddFinalizer
  <2>4. QED
    BY <2>1, <2>2, <2>3 DEF LifeInv
<1>9. CASE Pipeline
  <2>1. UnregisteredDoesNotRun'
    BY <1>9 DEF Pipeline, WriteReady, Done
  <2>2. FinalizerCovers'
    BY <1>9 DEF Pipeline, WriteReady, Done
  <2>3. DeleteOrder'
    BY <1>9 DEF Pipeline, WriteReady, Done
  <2>4. QED
    BY <2>1, <2>2, <2>3 DEF LifeInv
<1>10. CASE GetOrCreate
  <2>1. UnregisteredDoesNotRun'
    BY <1>10 DEF GetOrCreate
  <2>2. FinalizerCovers'
    BY <1>10 DEF GetOrCreate
  <2>3. DeleteOrder'
    BY <1>10 DEF GetOrCreate
  <2>4. QED
    BY <2>1, <2>2, <2>3 DEF LifeInv
<1>11. CASE ApplyDesired
  <2>1. UnregisteredDoesNotRun'
    BY <1>11 DEF ApplyDesired, CStart
  <2>2. FinalizerCovers'
    BY <1>11 DEF ApplyDesired, CStart
  <2>3. DeleteOrder'
    BY <1>11 DEF ApplyDesired, CStart
  <2>4. QED
    BY <2>1, <2>2, <2>3 DEF LifeInv
<1>12. CASE ReconcileStatus
  <2>1. UnregisteredDoesNotRun'
    BY <1>12 DEF ReconcileStatus
  <2>2. FinalizerCovers'
    BY <1>12 DEF ReconcileStatus
  <2>3. DeleteOrder'
    BY <1>12 DEF ReconcileStatus
  <2>4. QED
    BY <2>1, <2>2, <2>3 DEF LifeInv
<1>13. CASE ReconcileWrites
  <2>1. UnregisteredDoesNotRun'
    BY <1>13 DEF ReconcileWrites, WriteReady, Done
  <2>2. FinalizerCovers'
    BY <1>13 DEF ReconcileWrites, WriteReady, Done
  <2>3. DeleteOrder'
    BY <1>13 DEF ReconcileWrites, WriteReady, Done
  <2>4. QED
    BY <2>1, <2>2, <2>3 DEF LifeInv
<1>14. CASE ReconcileErrs
  <2>1. UnregisteredDoesNotRun'
    BY <1>14 DEF ReconcileErrs, Done
  <2>2. FinalizerCovers'
    BY <1>14 DEF ReconcileErrs, Done
  <2>3. DeleteOrder'
    BY <1>14 DEF ReconcileErrs, Done
  <2>4. QED
    BY <2>1, <2>2, <2>3 DEF LifeInv
<1>15. CASE ReconcileDelete
  <2>1. UnregisteredDoesNotRun'
    BY <1>15 DEF ReconcileDelete, Begin, Done
  <2>2. FinalizerCovers'
    BY <1>15 DEF ReconcileDelete, Begin, Done
  <2>3. DeleteOrder'
    BY <1>15 DEF ReconcileDelete, Begin, Done
  <2>4. QED
    BY <2>1, <2>2, <2>3 DEF LifeInv
<1>16. CASE DeleteStops
  <2>1. UnregisteredDoesNotRun'
    BY <1>16 DEF DeleteStops, CStop
  <2>2. FinalizerCovers'
    BY <1>16 DEF DeleteStops, CStop
  <2>3. DeleteOrder'
    BY <1>16 DEF DeleteStops, CStop
  <2>4. QED
    BY <2>1, <2>2, <2>3 DEF LifeInv
<1>17. CASE DeleteWaits
  <2>1. UnregisteredDoesNotRun'
    BY <1>17 DEF DeleteWaits, Retry, WriteReady, Done
  <2>2. FinalizerCovers'
    <3>1. /\ UNCHANGED <<target, finalizers, exists, loop>>
          /\ \/ rec' = "delete" /\ registered' = FALSE
             \/ rec' = "idle" /\ registered' = registered
      BY <1>17, Zenon DEF DeleteWaits, Retry, Done
    <3> QED BY <3>1
  <2>3. DeleteOrder'
    BY <1>17 DEF DeleteWaits, Retry, WriteReady, Done
  <2>4. QED
    BY <2>1, <2>2, <2>3 DEF LifeInv
<1>18. CASE DeleteReturns
  <2>1. UnregisteredDoesNotRun'
    BY <1>18 DEF DeleteReturns, Retry, WriteReady, Done
  <2>2. FinalizerCovers'
    BY <1>18 DEF DeleteReturns, Retry, WriteReady, Done
  <2>3. DeleteOrder'
    BY <1>18 DEF DeleteReturns, Retry, WriteReady, Done
  <2>4. QED
    BY <2>1, <2>2, <2>3 DEF LifeInv
<1>19. CASE RemoveFinalizer
  <2>1. UnregisteredDoesNotRun'
    BY <1>19 DEF RemoveFinalizer, Retry, WriteReady, Done, Gone
  <2>2. FinalizerCovers'
    BY <1>19 DEF RemoveFinalizer, Retry, WriteReady, Done, Gone
  <2>3. DeleteOrder'
    BY <1>19 DEF RemoveFinalizer, Retry, WriteReady, Done, Gone
  <2>4. QED
    BY <2>1, <2>2, <2>3 DEF LifeInv
<1>20. CASE RequeueFires
  <2>1. UnregisteredDoesNotRun'
    BY <1>20 DEF RequeueFires
  <2>2. FinalizerCovers'
    BY <1>20 DEF RequeueFires
  <2>3. DeleteOrder'
    BY <1>20 DEF RequeueFires
  <2>4. QED
    BY <2>1, <2>2, <2>3 DEF LifeInv
<1>21. CASE RuntimeWorks
  <2>1. UnregisteredDoesNotRun'
    BY <1>21 DEF RuntimeWorks, CWork
  <2>2. FinalizerCovers'
    BY <1>21 DEF RuntimeWorks, CWork
  <2>3. DeleteOrder'
    BY <1>21 DEF RuntimeWorks, CWork
  <2>4. QED
    BY <2>1, <2>2, <2>3 DEF LifeInv
<1>22. CASE RuntimeExits
  <2>1. UnregisteredDoesNotRun'
    BY <1>22 DEF RuntimeExits, CExit
  <2>2. FinalizerCovers'
    BY <1>22 DEF RuntimeExits, CExit
  <2>3. DeleteOrder'
    BY <1>22 DEF RuntimeExits, CExit
  <2>4. QED
    BY <2>1, <2>2, <2>3 DEF LifeInv
<1>23. CASE ServeDelete
  <2>1. UnregisteredDoesNotRun'
    BY <1>23 DEF ServeDelete
  <2>2. FinalizerCovers'
    BY <1>23 DEF ServeDelete
  <2>3. DeleteOrder'
    BY <1>23 DEF ServeDelete
  <2>4. QED
    BY <2>1, <2>2, <2>3 DEF LifeInv
<1>24. CASE DataServerLosesStore
  <2>1. UnregisteredDoesNotRun'
    BY <1>24 DEF DataServerLosesStore, CLoss
  <2>2. FinalizerCovers'
    BY <1>24 DEF DataServerLosesStore, CLoss
  <2>3. DeleteOrder'
    BY <1>24 DEF DataServerLosesStore, CLoss
  <2>4. QED
    BY <2>1, <2>2, <2>3 DEF LifeInv
<1>25. CASE Crash
  <2>1. UnregisteredDoesNotRun'
    BY <1>25 DEF Crash
  <2>2. FinalizerCovers'
    BY <1>25 DEF Crash
  <2>3. DeleteOrder'
    BY <1>25 DEF Crash
  <2>4. QED
    BY <2>1, <2>2, <2>3 DEF LifeInv
<1>26. CASE UNCHANGED allVars
  BY <1>26 DEF allVars
<1> QED
  BY <1>1, <1>2, <1>3, <1>4, <1>5, <1>6, <1>7, <1>8, <1>9, <1>10, <1>11,
     <1>12, <1>13, <1>14, <1>15, <1>16, <1>17, <1>18, <1>19, <1>20, <1>21,
     <1>22, <1>23, <1>24, <1>25, <1>26
     DEF LifeNext, Reconcile

(* The life of a Target keeps its types: the reconciler is always at one of
   its steps and only its own and the config reconciler's finalizer occur. *)
THEOREM LifeTypeCorrect == LifeSpec => []LifeTypeOK
<1>1. LifeInit => LifeTypeOK
  <2> SUFFICES ASSUME LifeInit PROVE LifeTypeOK
    OBVIOUS
  <2>1. CTypeOK /\ ObjTypeOK
    BY DEF LifeInit, CInit, CTypeOK, ObjTypeOK
  <2>2. EnvTypeOK
    BY LifeAssumption DEF LifeInit, EnvTypeOK
  <2>3. RecTypeOK
    BY DEF LifeInit, RecTypeOK, RecPCs, Copies, NoCopy
  <2>4. QED
    BY <2>1, <2>2, <2>3 DEF LifeTypeOK
<1>2. QED
  BY <1>1, LifeTypeStep, PTL DEF LifeSpec

(* The finalizer covers every datastore and every run loop, through crashes
   and interrupted deletions. *)
THEOREM LifeInvariant == LifeSpec => []LifeInv
<1>1. LifeInit => LifeInv
  BY DEF LifeInit, CInit, LifeInv, UnregisteredDoesNotRun, FinalizerCovers,
         DeleteOrder
<1>2. QED
  BY <1>1, LifeInvStep, LifeTypeCorrect, PTL DEF LifeSpec

(* No datastore and no run loop is left behind when the Target is gone. *)
THEOREM NoDatastoreLeftBehind == LifeSpec => []NoTargetNoDatastore
<1>1. LifeInv => NoTargetNoDatastore
  BY DEF LifeInv, FinalizerCovers, NoTargetNoDatastore
<1>2. QED
  BY <1>1, LifeInvariant, PTL

(* A runtime the manager does not hold has no running loop: two loops never
   work on the datastore of one target. *)
THEOREM OneLoopPerTarget == LifeSpec => []UnregisteredDoesNotRun
<1>1. LifeInv => UnregisteredDoesNotRun
  BY DEF LifeInv
<1>2. QED
  BY <1>1, LifeInvariant, PTL
=============================================================================
