--------------------------- MODULE TelemetryProofs ---------------------------
(***************************************************************************)
(* Proofs about the telemetry of a target (Telemetry): what the collector  *)
(* recorded as subscribed is subscribed, and no wake, timer or             *)
(* notification on the way to it gets lost.                                *)
(***************************************************************************)
EXTENDS Telemetry, WellFoundedInduction, TLAPS

-----------------------------------------------------------------------------
(* The inductive invariant. *)

Conds == {"none", "ready", "failed"}
CRRecords == [spec : Specs \union {None}, deleting : BOOLEAN, finalizer : BOOLEAN, cond : Conds]
Collectors == [address : Ports, paths : Snapshots]

CRInv ==
    /\ crs \in [CRs -> CRRecords]
    /\ crWake \subseteq CRs /\ matches \subseteq CRs
    /\ announce \in BOOLEAN /\ waking \in BOOLEAN

SubsInv == subs \in [CRs -> Specs \union {None}]

RunInv ==
    /\ target \in TargetPorts \union {None} /\ health \in {"up", "degraded", "down"}
    /\ wakeCh \in BOOLEAN /\ timer \in BOOLEAN /\ stolen \in BOOLEAN
    /\ pass \in {"idle", "port", "dial"} /\ dialing \in Ports
    /\ pass # "idle" => target # None

CollInv ==
    /\ coll \in Collectors /\ subChan \in BOOLEAN
    /\ loop \in {"none", "due", "post", "wait"}
    /\ (loop = "none") = (coll.address = 0)

CountInv == stale \in [due : Nat, post : Nat] /\ zombies \in Nat

StreamInv == stream \in {None} \union Streams /\ SnapshotIsStreamed

DialInv == pass = "dial" => dialing # 0 /\ coll = Stopped

\* A collector that is not yet what the CRs declared has the right endpoint and
\* is about to update.
AboutToServe ==
    IF DOMAIN GetPaths = {} \/ Address = 0 THEN coll = Stopped
    ELSE coll.address = Address /\ (loop = "due" \/ subChan \/ coll.paths = GetPaths)

\* When no pass is to come, the one that runs goes on with what the CRs declare
\* now, and the last one left the collector so that it will serve it.
Settled ==
    /\ pass = "port" => DOMAIN GetPaths # {}
    /\ pass = "dial" => DOMAIN GetPaths # {} /\ dialing = Address
    /\ pass = "idle" /\ ~timer /\ ~stolen => AboutToServe

SettledInv == target # None /\ health = "up" /\ ~waking /\ ~wakeCh => Settled

TelemetryInv ==
    CRInv /\ SubsInv /\ RunInv /\ CollInv /\ CountInv /\ StreamInv /\ DialInv /\ SettledInv

-----------------------------------------------------------------------------
(* What the Subscriptions compute. *)

LEMMA LessThanNat == IsWellFoundedOn({ss \in Nat \X Nat : ss[1] < ss[2]}, Nat)
BY NatLessThanWellFounded, Zenon DEF OpToRel

\* A set of numbers has a least one, and Min is it.
LEMMA LeastNat ==
  ASSUME NEW S, S \subseteq Nat, S # {}
  PROVE  Min(S) \in S /\ \A y \in S : Min(S) <= y
<1> DEFINE R == {ss \in Nat \X Nat : ss[1] < ss[2]}
<1>1. \E x \in S : \A y \in S : ~ (<<y, x>> \in R)
  BY LessThanNat, WFMin
<1>2. PICK x \in S : \A y \in S : ~ (<<y, x>> \in R)
  BY <1>1
<1>3. ASSUME NEW y \in S PROVE x <= y
  <2>1. ~ (<<y, x>> \in R)
    BY <1>2
  <2>2. x \in Nat /\ y \in Nat
    OBVIOUS
  <2>3. ~ (y < x)
    BY <2>1, <2>2
  <2> QED BY <2>2, <2>3
<1> QED BY <1>3 DEF Min

\* recomputeCurrent gives each path an interval that an enabled subscription
\* declares, and no lower one is declared.
LEMMA LowestInterval ==
  ASSUME SubsInv, NEW p \in DOMAIN GetPaths
  PROVE  /\ \E c \in Enabled(p) : GetPaths[p] = subs[c].interval[p]
         /\ \A c \in Enabled(p) : GetPaths[p] <= subs[c].interval[p]
         /\ GetPaths[p] \in Intervals \ {None}
<1> DEFINE S == {subs[c].interval[p] : c \in Enabled(p)}
<1>1. Enabled(p) # {} /\ p \in Paths /\ GetPaths[p] = Min(S)
  BY DEF GetPaths
<1>2. S \subseteq Intervals \ {None}
  <2> SUFFICES ASSUME NEW c \in Enabled(p)
               PROVE  subs[c].interval[p] \in Intervals \ {None}
    OBVIOUS
  <2>1. subs[c] \in Specs /\ p \in DOMAIN subs[c].interval /\ subs[c].interval[p] # None
    BY DEF Enabled, SubsInv
  <2> QED BY <2>1 DEF Intervals
<1>3. S # {}
  BY <1>1
<1>4. S \subseteq Nat
  BY <1>2, TelemetryAssumption
<1>5. Min(S) \in S /\ \A y \in S : Min(S) <= y
  BY <1>3, <1>4, LeastNat
<1> QED BY <1>1, <1>2, <1>5

LEMMA GetPathsType ==
  ASSUME SubsInv
  PROVE  GetPaths \in Snapshots
<1> DEFINE Q == {q \in Paths : Enabled(q) # {}}
<1>1. DOMAIN GetPaths = Q /\ GetPaths = [p \in Q |-> GetPaths[p]]
  BY DEF GetPaths
<1>2. \A p \in Q : GetPaths[p] \in Intervals \ {None}
  BY <1>1, LowestInterval
<1> HIDE DEF Q
<1>3. GetPaths \in [Q -> Intervals \ {None}]
  BY <1>1, <1>2
<1>4. Q \in SUBSET Paths
  BY DEF Q
<1> QED BY <1>3, <1>4 DEF Snapshots

LEMMA AddressType ==
  ASSUME SubsInv, target \in TargetPorts
  PROVE  Address \in Ports
<1> DEFINE with == {c \in CRs : subs[c] # None /\ subs[c].port # 0}
<1>1. Port = IF with = {} THEN 0 ELSE subs[Min(with)].port
  BY DEF Port
<1>2. ASSUME with # {} PROVE Min(with) \in with
  BY <1>2, LeastNat, TelemetryAssumption
<1>3. \A c \in with : subs[c].port \in Ports
  BY DEF SubsInv, Ports
<1> HIDE DEF with
<1>4. Port \in Ports
  <2>1. 0 \in Ports
    BY DEF Ports
  <2> QED BY <1>1, <1>2, <1>3, <2>1
<1> QED BY <1>4 DEF Address, Ports

\* They are functions of the Subscriptions and the definition of the runtime.
LEMMA SameAddress ==
  ASSUME subs' = subs, target' = target
  PROVE  GetPaths' = GetPaths /\ Address' = Address
BY DEF GetPaths, Enabled, Address, Port

LEMMA EmptySnapshot == <<>> \in Snapshots /\ DOMAIN <<>> = {} /\ ~Requests(<<>>)
BY DEF Snapshots, Requests

LEMMA StoppedType == Stopped \in Collectors /\ Stopped.address = 0 /\ DOMAIN Stopped.paths = {}
                     /\ ~Requests(Stopped.paths)
BY EmptySnapshot DEF Stopped, Collectors, Ports

-----------------------------------------------------------------------------
(* The invariant is kept: the parts a step does not touch. *)

LEMMA CRStays ==
  ASSUME CRInv, UNCHANGED crVars, waking' \in BOOLEAN
  PROVE  CRInv'
BY DEF CRInv, crVars

LEMMA CollStays ==
  ASSUME CollInv, CountInv, StreamInv, UNCHANGED collVars
  PROVE  CollInv' /\ CountInv' /\ StreamInv'
BY DEF CollInv, CountInv, StreamInv, collVars, SnapshotIsStreamed

\* Nothing is claimed while a pass is to come, or none can reach the collector.
LEMMA PassToCome ==
  ASSUME target' = None \/ health' # "up" \/ waking' \/ wakeCh'
  PROVE  SettledInv'
BY DEF SettledInv

\* A step that leaves the run loop and the collector alone.
LEMMA SettledStays ==
  ASSUME SettledInv,
         UNCHANGED <<target, health, subs, wakeCh, timer, pass, dialing, coll, subChan, loop>>,
         waking' = waking, stolen' = stolen
  PROVE  SettledInv'
<1>1. GetPaths' = GetPaths /\ Address' = Address
  BY SameAddress
<1> QED BY <1>1 DEF SettledInv, Settled, AboutToServe

LEMMA InitInv == Init => TelemetryInv
<1> SUFFICES ASSUME Init PROVE TelemetryInv
  OBVIOUS
<1>1. CRInv
  <2>1. NoCR \in CRRecords
    BY DEF NoCR, CRRecords, Conds
  <2> QED BY <2>1 DEF Init, CRInv
<1>2. SubsInv
  BY DEF Init, SubsInv
<1>3. RunInv
  BY DEF Init, RunInv, Ports
<1>4. CollInv
  BY StoppedType DEF Init, CollInv
<1>5. CountInv
  BY DEF Init, CountInv
<1>6. StreamInv
  BY StoppedType DEF Init, StreamInv, SnapshotIsStreamed
<1>7. DialInv /\ SettledInv
  BY DEF Init, DialInv, SettledInv
<1> QED BY <1>1, <1>2, <1>3, <1>4, <1>5, <1>6, <1>7 DEF TelemetryInv

-----------------------------------------------------------------------------
(* The users and the controller. *)

LEMMA NoCRType == NoCR \in CRRecords
BY DEF NoCR, CRRecords, Conds

\* Steps that the runtime does not see.
LEMMA UnseenSteps ==
  ASSUME TelemetryInv,
         \/ \E c \in CRs, s \in Specs : SetSpec(c, s)
         \/ \E c \in CRs : DeleteCR(c) \/ Deselect(c) \/ SubscriptionNotFound(c)
         \/ TargetEvent
  PROVE  TelemetryInv'
<1>1. /\ UNCHANGED <<waking, target, health, subs, wakeCh, timer, pass, dialing, stolen>>
      /\ UNCHANGED collVars
  BY DEF SetSpec, DeleteCR, Deselect, SubscriptionNotFound, TargetEvent
<1>2. crs' \in [CRs -> CRRecords]
  <2>0. crs \in [CRs -> CRRecords]
    BY DEF TelemetryInv, CRInv
  <2>1. \A c \in CRs, s \in Specs : [crs[c] EXCEPT !.spec = s] \in CRRecords
    BY <2>0 DEF CRRecords
  <2>2. \A c \in CRs : [crs[c] EXCEPT !.deleting = TRUE] \in CRRecords
    BY <2>0 DEF CRRecords
  <2>3. ASSUME NEW c \in CRs, NEW s \in Specs, SetSpec(c, s) PROVE crs' \in [CRs -> CRRecords]
    <3>1. crs' = [crs EXCEPT ![c] = [crs[c] EXCEPT !.spec = s]]
      BY <2>0, <2>3 DEF SetSpec
    <3> QED BY <2>0, <2>1, <3>1
  <2>4. ASSUME NEW c \in CRs, DeleteCR(c) PROVE crs' \in [CRs -> CRRecords]
    <3>1. crs' = [crs EXCEPT ![c] = IF crs[c].finalizer THEN [crs[c] EXCEPT !.deleting = TRUE]
                                    ELSE NoCR]
      BY <2>0, <2>4 DEF DeleteCR
    <3> QED BY <2>0, <2>2, <3>1, NoCRType
  <2> QED BY <2>0, <2>3, <2>4 DEF Deselect, SubscriptionNotFound, TargetEvent
<1>3. crWake' \subseteq CRs /\ matches' \subseteq CRs /\ announce' \in BOOLEAN
  BY DEF TelemetryInv, CRInv, SetSpec, DeleteCR, Deselect, SubscriptionNotFound, TargetEvent
<1>4. CRInv'
  BY <1>1, <1>2, <1>3 DEF TelemetryInv, CRInv
<1>5. CollInv' /\ CountInv' /\ StreamInv'
  BY <1>1, CollStays DEF TelemetryInv
<1>6. SettledInv'
  BY <1>1, SettledStays DEF TelemetryInv, collVars
<1>7. SubsInv' /\ RunInv' /\ DialInv'
  BY <1>1 DEF TelemetryInv, SubsInv, RunInv, DialInv, collVars
<1> QED BY <1>4, <1>5, <1>6, <1>7 DEF TelemetryInv

\* What the controller stores is announced: while the wake is to come nothing is
\* claimed, and without a runtime nothing is stored.
LEMMA StoredIsAnnounced ==
  ASSUME TelemetryInv, ~waking,
         crs' \in [CRs -> CRRecords], crWake' \subseteq CRs, UNCHANGED <<matches, announce>>,
         SubsInv', waking' \in BOOLEAN, waking' \/ (subs' = subs /\ waking' = waking),
         UNCHANGED <<target, health, wakeCh, timer, pass, dialing, stolen>>,
         UNCHANGED collVars
  PROVE  TelemetryInv'
<1>1. CRInv'
  BY DEF TelemetryInv, CRInv
<1>2. CollInv' /\ CountInv' /\ StreamInv'
  BY CollStays DEF TelemetryInv
<1>3. RunInv' /\ DialInv'
  BY DEF TelemetryInv, RunInv, DialInv, collVars
<1>4. SettledInv'
  <2>1. CASE waking'
    BY <2>1, PassToCome
  <2>2. CASE subs' = subs /\ waking' = waking
    BY <2>2, SettledStays DEF TelemetryInv, collVars
  <2> QED BY <2>1, <2>2
<1> QED BY <1>1, <1>2, <1>3, <1>4 DEF TelemetryInv

\* Upsert and Remove: something is stored, or there is no runtime to store it in.
LEMMA UpsertStores ==
  ASSUME TelemetryInv, NEW c \in CRs, ~waking,
         (crs[c].spec # None /\ Upsert(c)) \/ Remove(c)
  PROVE  SubsInv' /\ waking' \in BOOLEAN /\ (waking' \/ (subs' = subs /\ waking' = waking))
<1>0. SubsInv /\ waking = FALSE /\ crs[c].spec \in Specs \union {None}
  BY DEF TelemetryInv, CRInv, CRRecords
<1>1. CASE crs[c].spec # None /\ Upsert(c)
  <2>1. /\ waking' \in BOOLEAN
        /\ HasRuntime(c) => waking' = TRUE
        /\ ~HasRuntime(c) => waking' = FALSE
    BY <1>1 DEF Upsert, HasRuntime
  <2>2. subs' = IF HasRuntime(c) THEN AddSubscription(c, crs[c].spec) ELSE subs
    BY <1>1 DEF Upsert
  <2>3. AddSubscription(c, crs[c].spec) \in [CRs -> Specs \union {None}]
    BY <1>0 DEF SubsInv, AddSubscription
  <2>4. SubsInv'
    BY <1>0, <2>2, <2>3 DEF SubsInv
  <2>5. CASE HasRuntime(c)
    <3>1. waking'
      BY <2>1, <2>5, Zenon
    <3> QED BY <2>1, <2>4, <3>1
  <2>6. CASE ~HasRuntime(c)
    <3>1. subs' = subs
      BY <2>2, <2>6
    <3>2. waking' = FALSE
      BY <2>1, <2>6
    <3> QED BY <1>0, <2>4, <3>1, <3>2
  <2> QED BY <2>5, <2>6
<1>2. CASE Remove(c)
  <2>1. /\ waking' \in BOOLEAN
        /\ HasRuntime(c) => waking' = TRUE
        /\ ~HasRuntime(c) => waking' = FALSE
    BY <1>2 DEF Remove, HasRuntime
  <2>2. subs' = IF HasRuntime(c) THEN DelSubscription(c) ELSE subs
    BY <1>2 DEF Remove
  <2>3. DelSubscription(c) \in [CRs -> Specs \union {None}]
    BY <1>0 DEF SubsInv, DelSubscription
  <2>4. SubsInv'
    BY <1>0, <2>2, <2>3 DEF SubsInv
  <2>5. CASE HasRuntime(c)
    <3>1. waking'
      BY <2>1, <2>5, Zenon
    <3> QED BY <2>1, <2>4, <3>1
  <2>6. CASE ~HasRuntime(c)
    <3>1. subs' = subs
      BY <2>2, <2>6
    <3>2. waking' = FALSE
      BY <2>1, <2>6
    <3> QED BY <1>0, <2>4, <3>1, <3>2
  <2> QED BY <2>5, <2>6
<1> QED BY <1>1, <1>2

LEMMA SetCondType ==
  ASSUME CRInv, NEW c \in CRs, NEW cond \in Conds, NEW finalizer \in BOOLEAN,
         SetCond(c, cond, finalizer)
  PROVE  crs' \in [CRs -> CRRecords] /\ crWake' \subseteq CRs
<1> DEFINE new == [crs[c] EXCEPT !.finalizer = finalizer, !.cond = cond]
<1>1. crs \in [CRs -> CRRecords] /\ crs' = [crs EXCEPT ![c] = new]
  BY DEF CRInv, SetCond
<1>2. new \in CRRecords
  BY <1>1 DEF CRRecords
<1> HIDE DEF new
<1> QED BY <1>1, <1>2 DEF CRInv, SetCond

LEMMA ControllerSteps ==
  ASSUME TelemetryInv, NEW c \in CRs,
         ApplySubscription(c) \/ RemoveSubscription(c) \/ SubscriptionFails(c)
  PROVE  TelemetryInv'
<1>0. CRInv /\ crs \in [CRs -> CRRecords] /\ "ready" \in Conds /\ "failed" \in Conds
  BY DEF TelemetryInv, CRInv, Conds
<1>1. /\ ~waking /\ UNCHANGED <<matches, announce>>
      /\ UNCHANGED <<target, health, wakeCh, timer, pass, dialing, stolen>>
      /\ UNCHANGED collVars
  BY DEF ApplySubscription, RemoveSubscription, SubscriptionFails
<1>2. ASSUME ApplySubscription(c)
      PROVE  /\ crs' \in [CRs -> CRRecords] /\ crWake' \subseteq CRs
             /\ SubsInv' /\ waking' \in BOOLEAN /\ (waking' \/ (subs' = subs /\ waking' = waking))
  <2>1. crs[c].spec # None /\ Upsert(c) /\ SetCond(c, "ready", TRUE)
    BY <1>2 DEF ApplySubscription
  <2>2. crs' \in [CRs -> CRRecords] /\ crWake' \subseteq CRs
    BY <1>0, <2>1, SetCondType
  <2> QED BY <1>1, <2>1, <2>2, UpsertStores
<1>3. ASSUME RemoveSubscription(c)
      PROVE  /\ crs' \in [CRs -> CRRecords] /\ crWake' \subseteq CRs
             /\ SubsInv' /\ waking' \in BOOLEAN /\ (waking' \/ (subs' = subs /\ waking' = waking))
  <2>1. crs' \in [CRs -> CRRecords] /\ crWake' \subseteq CRs /\ Remove(c)
    BY <1>0, <1>3, NoCRType DEF RemoveSubscription, CRInv
  <2> QED BY <1>1, <2>1, UpsertStores
<1>4. ASSUME SubscriptionFails(c)
      PROVE  /\ crs' \in [CRs -> CRRecords] /\ crWake' \subseteq CRs
             /\ SubsInv' /\ waking' \in BOOLEAN /\ (waking' \/ (subs' = subs /\ waking' = waking))
  <2>1. crs[c].spec # None
    BY <1>4 DEF SubscriptionFails
  <2>2. CASE \E finalizer \in {crs[c].finalizer, TRUE} :
               SetCond(c, "failed", finalizer) /\ UNCHANGED <<subs, waking>>
    <3>1. PICK finalizer \in BOOLEAN : SetCond(c, "failed", finalizer) /\ UNCHANGED <<subs, waking>>
      BY <1>0, <2>2 DEF CRRecords
    <3>2. crs' \in [CRs -> CRRecords] /\ crWake' \subseteq CRs
      BY <1>0, <3>1, SetCondType
    <3> QED BY <3>1, <3>2 DEF TelemetryInv, SubsInv, CRInv
  <2>3. CASE Remove(c) /\ SetCond(c, "failed", TRUE)
    <3>1. crs' \in [CRs -> CRRecords] /\ crWake' \subseteq CRs
      BY <1>0, <2>3, SetCondType
    <3> QED BY <1>1, <2>3, <3>1, UpsertStores
  <2>4. CASE Upsert(c) /\ crs' = [crs EXCEPT ![c].finalizer = TRUE] /\ UNCHANGED crWake
    <3>1. crs' \in [CRs -> CRRecords] /\ crWake' \subseteq CRs
      <4>1. [crs[c] EXCEPT !.finalizer = TRUE] \in CRRecords
        BY <1>0 DEF CRRecords
      <4>2. crs' = [crs EXCEPT ![c] = [crs[c] EXCEPT !.finalizer = TRUE]]
        BY <1>0, <2>4
      <4> QED BY <1>0, <2>4, <4>1, <4>2 DEF CRInv
    <3> QED BY <1>1, <2>1, <2>4, <3>1, UpsertStores
  <2> QED BY <1>4, <2>2, <2>3, <2>4 DEF SubscriptionFails
<1> QED BY <1>1, <1>2, <1>3, <1>4, StoredIsAnnounced

-----------------------------------------------------------------------------
(* The runtime and what wakes it. *)

\* stopCollector leaves nothing behind.
LEMMA StopCollectorInv ==
  ASSUME StopCollector
  PROVE  CollInv' /\ CountInv' /\ StreamInv' /\ coll' = Stopped
<1>1. /\ coll' = Stopped /\ subChan' = FALSE /\ loop' = "none"
      /\ stale' = [due |-> 0, post |-> 0] /\ stream' = None /\ zombies' = 0
  BY DEF StopCollector
<1>2. CollInv'
  BY <1>1, StoppedType DEF CollInv
<1>3. CountInv'
  BY <1>1 DEF CountInv
<1>4. StreamInv'
  BY <1>1, StoppedType DEF StreamInv, SnapshotIsStreamed
<1> QED BY <1>1, <1>2, <1>3, <1>4

\* Every wake makes a pass to come.
LEMMA WakeSteps ==
  ASSUME TelemetryInv,
         \/ \E port \in TargetPorts : CreateRuntime(port)
         \/ HealthFails \/ HealthRecovers \/ Wake \/ TimerFires
  PROVE  TelemetryInv'
<1>1. /\ wakeCh' /\ wakeCh' \in BOOLEAN
      /\ UNCHANGED <<crs, crWake, matches, subs, pass, dialing, stolen>> /\ UNCHANGED collVars
  BY DEF CreateRuntime, HealthFails, HealthRecovers, Wake, TimerFires, crVars
<1>2. announce' \in BOOLEAN /\ waking' \in BOOLEAN /\ timer' \in BOOLEAN
  BY DEF TelemetryInv, CRInv, RunInv, CreateRuntime, HealthFails, HealthRecovers, Wake,
         TimerFires, crVars
<1>3. /\ health' \in {"up", "degraded", "down"} /\ target' \in TargetPorts \union {None}
      /\ target # None => target' = target
  BY DEF TelemetryInv, RunInv, CreateRuntime, HealthFails, HealthRecovers, Wake, TimerFires
<1>4. CRInv' /\ SubsInv'
  BY <1>1, <1>2 DEF TelemetryInv, CRInv, SubsInv
<1>5. RunInv'
  BY <1>1, <1>2, <1>3 DEF TelemetryInv, RunInv
<1>6. CollInv' /\ CountInv' /\ StreamInv'
  BY <1>1, CollStays DEF TelemetryInv
<1>7. DialInv'
  BY <1>1 DEF TelemetryInv, DialInv, collVars
<1>8. SettledInv'
  BY <1>1, PassToCome
<1> QED BY <1>4, <1>5, <1>6, <1>7, <1>8 DEF TelemetryInv

LEMMA RuntimeGoes ==
  ASSUME TelemetryInv, DeleteRuntime
  PROVE  TelemetryInv'
<1>1. /\ pass = "idle" /\ target' = None /\ wakeCh' = FALSE /\ timer' = FALSE
      /\ subs' = [c \in CRs |-> None] /\ StopCollector
      /\ UNCHANGED crVars /\ UNCHANGED <<waking, health, pass, dialing, stolen>>
  BY DEF DeleteRuntime
<1>2. CRInv'
  BY <1>1, CRStays DEF TelemetryInv, CRInv
<1>3. SubsInv' /\ RunInv' /\ DialInv'
  BY <1>1 DEF TelemetryInv, SubsInv, RunInv, DialInv
<1>4. CollInv' /\ CountInv' /\ StreamInv'
  BY <1>1, StopCollectorInv
<1>5. SettledInv'
  BY <1>1, PassToCome
<1> QED BY <1>2, <1>3, <1>4, <1>5 DEF TelemetryInv

-----------------------------------------------------------------------------
(* The Collector. *)

\* A step of the collector's goroutines that leaves its endpoint, its snapshot
\* and what is on its way alone.
LEMMA CollectorStays ==
  ASSUME TelemetryInv, CountInv', StreamInv', UNCHANGED crVars,
         UNCHANGED <<waking, target, health, subs, wakeCh, timer, pass, dialing,
                     coll, subChan, loop, stolen>>
  PROVE  TelemetryInv'
<1>1. CRInv'
  BY CRStays DEF TelemetryInv, CRInv
<1>2. SubsInv' /\ RunInv' /\ DialInv' /\ CollInv'
  BY DEF TelemetryInv, SubsInv, RunInv, DialInv, CollInv
<1>3. SettledInv'
  BY SettledStays DEF TelemetryInv
<1> QED BY <1>1, <1>2, <1>3 DEF TelemetryInv

\* What the goroutine of a snapshot does to its stream: it opens or fails.
LEMMA StreamStays ==
  ASSUME StreamInv, NEW b \in BOOLEAN, coll' = coll,
         stream' = IF stream = None THEN None ELSE [stream EXCEPT !.open = b]
  PROVE  StreamInv'
<1>1. CASE stream = None
  BY <1>1 DEF StreamInv, SnapshotIsStreamed
<1>2. CASE stream # None
  <2>1. stream \in Streams /\ stream' = [stream EXCEPT !.open = b]
    BY <1>2 DEF StreamInv
  <2>2. stream' \in Streams /\ stream'.paths = stream.paths
    BY <2>1 DEF Streams
  <2>3. stream' # None
    BY <2>2, TelemetryAssumption
  <2> QED BY <1>2, <2>2, <2>3 DEF StreamInv, SnapshotIsStreamed
<1> QED BY <1>1, <1>2

LEMMA StreamSteps ==
  ASSUME TelemetryInv, StreamOpens \/ StreamFails \/ ZombieStops \/ ZombieExits
  PROVE  TelemetryInv'
<1>0. CountInv /\ StreamInv
  BY DEF TelemetryInv
<1>1. /\ UNCHANGED crVars
      /\ UNCHANGED <<waking, target, health, subs, wakeCh, timer, pass, dialing,
                     coll, subChan, loop, stolen, stale>>
  BY DEF StreamOpens, StreamFails, ZombieStops, ZombieExits
<1>2. zombies' \in Nat
  <2>1. zombies \in Nat
    BY <1>0 DEF CountInv
  <2>2. \/ zombies' = zombies
        \/ zombies > 0 /\ zombies' = zombies - 1
    BY DEF StreamOpens, StreamFails, ZombieStops, ZombieExits
  <2> QED BY <2>1, <2>2
<1>3. CountInv'
  BY <1>0, <1>1, <1>2 DEF CountInv
<1>4. StreamInv'
  <2>1. \E b \in BOOLEAN : stream' = IF stream = None THEN None ELSE [stream EXCEPT !.open = b]
    BY DEF StreamOpens, StreamFails, ZombieStops, ZombieExits
  <2> QED BY <1>0, <1>1, <2>1, StreamStays
<1> QED BY <1>1, <1>3, <1>4, CollectorStays

LEMMA StaleSteps ==
  ASSUME TelemetryInv, StaleUpdate \/ StaleExit
  PROVE  TelemetryInv'
<1>0. CountInv /\ StreamInv
  BY DEF TelemetryInv
<1>1. /\ UNCHANGED crVars
      /\ UNCHANGED <<waking, target, health, subs, wakeCh, timer, pass, dialing,
                     coll, subChan, loop, stolen, stream, zombies>>
  BY DEF StaleUpdate, StaleExit
<1>2. stale' \in [due : Nat, post : Nat]
  BY <1>0 DEF CountInv, StaleUpdate, StaleExit
<1>3. CountInv' /\ StreamInv'
  BY <1>0, <1>1, <1>2 DEF CountInv, StreamInv, SnapshotIsStreamed
<1> QED BY <1>1, <1>3, CollectorStays

\* A stale loop that takes a notification: from then on nothing is claimed of a
\* run loop that is idle.
LEMMA StealInv ==
  ASSUME TelemetryInv, StaleSteals
  PROVE  TelemetryInv'
<1>1. /\ UNCHANGED crVars /\ stolen' = TRUE /\ subChan' = FALSE
      /\ UNCHANGED <<waking, target, health, subs, wakeCh, timer, pass, dialing,
                     coll, loop, stream, zombies>>
  BY DEF StaleSteals
<1>2. stale' \in [due : Nat, post : Nat]
  BY DEF TelemetryInv, CountInv, StaleSteals
<1>3. CRInv'
  BY <1>1, CRStays DEF TelemetryInv, CRInv
<1>4. SubsInv' /\ RunInv' /\ DialInv'
  BY <1>1 DEF TelemetryInv, SubsInv, RunInv, DialInv
<1>5. CollInv' /\ CountInv' /\ StreamInv'
  BY <1>1, <1>2 DEF TelemetryInv, CollInv, CountInv, StreamInv, SnapshotIsStreamed
<1>6. SettledInv'
  <2>1. GetPaths' = GetPaths /\ Address' = Address
    BY <1>1, SameAddress
  <2> QED BY <1>1, <2>1 DEF TelemetryInv, SettledInv, Settled
<1> QED BY <1>3, <1>4, <1>5, <1>6 DEF TelemetryInv

\* update of the running loop: the snapshot is what the CRs declare now.
LEMMA UpdateInv ==
  ASSUME TelemetryInv, Update
  PROVE  TelemetryInv'
<1>0. /\ CollInv /\ CountInv /\ StreamInv /\ SubsInv /\ SettledInv /\ GetPaths \in Snapshots
      /\ coll \in Collectors
  BY GetPathsType DEF TelemetryInv, CollInv
<1>1. /\ UNCHANGED crVars /\ loop = "due" /\ loop' = "post"
      /\ UNCHANGED <<waking, target, health, subs, wakeCh, timer, pass, dialing,
                     subChan, stale, stolen>>
  BY DEF Update
<1>2. GetPaths' = GetPaths /\ Address' = Address
  BY <1>1, SameAddress
<1>3. /\ coll' \in Collectors /\ coll'.address = coll.address /\ coll'.paths = GetPaths
  <2>1. CASE HasPathsChanged(GetPaths)
    <3>1. coll' = [coll EXCEPT !.paths = GetPaths]
      BY <2>1 DEF Update
    <3> QED BY <1>0, <3>1 DEF Collectors
  <2>2. CASE ~HasPathsChanged(GetPaths)
    BY <1>0, <2>2 DEF Update, HasPathsChanged
  <2> QED BY <2>1, <2>2
<1>4. CollInv'
  BY <1>0, <1>1, <1>3 DEF CollInv
<1>5. CountInv'
  <2>1. zombies' \in Nat
    BY <1>0 DEF CountInv, Update
  <2> QED BY <1>0, <1>1, <2>1 DEF CountInv
<1>6. StreamInv'
  <2>1. CASE HasPathsChanged(GetPaths) /\ ~Requests(GetPaths)
    <3>1. stream' = None
      BY <2>1 DEF Update
    <3> QED BY <1>3, <2>1, <3>1 DEF StreamInv, SnapshotIsStreamed
  <2>2. CASE HasPathsChanged(GetPaths) /\ Requests(GetPaths)
    <3>1. stream' = [paths |-> GetPaths, open |-> FALSE]
      BY <2>2 DEF Update
    <3>2. stream' \in Streams /\ stream'.paths = GetPaths
      BY <1>0, <3>1 DEF Streams
    <3>3. stream' # None
      BY <3>2, TelemetryAssumption
    <3> QED BY <1>3, <2>2, <3>2, <3>3 DEF StreamInv, SnapshotIsStreamed
  <2>3. CASE ~HasPathsChanged(GetPaths)
    <3>1. coll' = coll /\ stream' = stream
      BY <2>3 DEF Update
    <3> QED BY <1>0, <3>1 DEF StreamInv, SnapshotIsStreamed
  <2> QED BY <2>1, <2>2, <2>3
<1>7. coll.address # 0 /\ coll # Stopped
  BY <1>0, <1>1, StoppedType DEF CollInv
<1>8. DialInv'
  BY <1>1, <1>7 DEF TelemetryInv, DialInv
<1>9. SettledInv'
  BY <1>0, <1>1, <1>2, <1>3, <1>7 DEF SettledInv, Settled, AboutToServe
<1>10. CRInv' /\ SubsInv' /\ RunInv'
  <2>1. CRInv'
    BY <1>1, CRStays DEF TelemetryInv, CRInv
  <2> QED BY <1>1, <2>1 DEF TelemetryInv, SubsInv, RunInv
<1> QED BY <1>4, <1>5, <1>6, <1>8, <1>9, <1>10 DEF TelemetryInv

\* Back in its select the loop takes the notification that waits, if there is one.
LEMMA SelectInv ==
  ASSUME TelemetryInv, Select
  PROVE  TelemetryInv'
<1>0. CollInv /\ CountInv /\ StreamInv /\ SettledInv
  BY DEF TelemetryInv
<1>1. /\ UNCHANGED crVars /\ loop = "post" /\ loop' = (IF subChan THEN "due" ELSE "wait")
      /\ subChan' = FALSE
      /\ UNCHANGED <<waking, target, health, subs, wakeCh, timer, pass, dialing,
                     coll, stale, stream, zombies, stolen>>
  BY DEF Select
<1>2. GetPaths' = GetPaths /\ Address' = Address
  BY <1>1, SameAddress
<1>3. CollInv' /\ CountInv' /\ StreamInv'
  BY <1>0, <1>1 DEF CollInv, CountInv, StreamInv, SnapshotIsStreamed
<1>4. SettledInv'
  BY <1>0, <1>1, <1>2 DEF SettledInv, Settled, AboutToServe
<1>5. CRInv'
  BY <1>1, CRStays DEF TelemetryInv, CRInv
<1>6. SubsInv' /\ RunInv' /\ DialInv'
  BY <1>1 DEF TelemetryInv, SubsInv, RunInv, DialInv
<1> QED BY <1>3, <1>4, <1>5, <1>6 DEF TelemetryInv

-----------------------------------------------------------------------------
(* The run loop. *)

LEMMA PassStepInv ==
  ASSUME TelemetryInv, Pass
  PROVE  TelemetryInv'
<1>0. /\ CollInv /\ CountInv /\ StreamInv /\ RunInv /\ SubsInv
  BY DEF TelemetryInv
<1>1. /\ UNCHANGED crVars /\ target # None /\ pass = "idle" /\ wakeCh' = FALSE
      /\ UNCHANGED <<waking, target, health, subs, timer, dialing, stolen>>
  BY DEF Pass
<1>2. GetPaths' = GetPaths /\ Address' = Address
  BY <1>1, SameAddress
<1>3. CRInv' /\ SubsInv'
  <2>1. CRInv'
    BY <1>1, CRStays DEF TelemetryInv, CRInv
  <2> QED BY <1>0, <1>1, <2>1 DEF SubsInv
<1>4. CASE health = "up" /\ DOMAIN GetPaths # {} /\ pass' = "port" /\ UNCHANGED collVars
  <2>1. CollInv' /\ CountInv' /\ StreamInv'
    BY <1>0, <1>4, CollStays
  <2>2. RunInv' /\ DialInv'
    BY <1>0, <1>1, <1>4 DEF RunInv, DialInv
  <2>3. SettledInv'
    BY <1>2, <1>4 DEF SettledInv, Settled
  <2> QED BY <1>3, <2>1, <2>2, <2>3 DEF TelemetryInv
<1>5. CASE /\ health = "down" \/ (health = "up" /\ DOMAIN GetPaths = {})
           /\ StopCollector /\ UNCHANGED pass
  <2>1. CollInv' /\ CountInv' /\ StreamInv' /\ coll' = Stopped
    BY <1>5, StopCollectorInv
  <2>2. RunInv' /\ DialInv'
    BY <1>0, <1>1, <1>5 DEF RunInv, DialInv
  <2>3. SettledInv'
    BY <1>1, <1>2, <1>5, <2>1 DEF SettledInv, Settled, AboutToServe
  <2> QED BY <1>3, <2>1, <2>2, <2>3 DEF TelemetryInv
<1>6. CASE health = "degraded" /\ UNCHANGED <<pass, collVars>>
  <2>1. CollInv' /\ CountInv' /\ StreamInv'
    BY <1>0, <1>6, CollStays
  <2>2. RunInv' /\ DialInv'
    BY <1>0, <1>1, <1>6 DEF RunInv, DialInv
  <2>3. SettledInv'
    BY <1>1, <1>6, PassToCome
  <2> QED BY <1>3, <2>1, <2>2, <2>3 DEF TelemetryInv
<1> QED
  <2>1. \/ health = "up" /\ DOMAIN GetPaths # {} /\ pass' = "port" /\ UNCHANGED collVars
        \/ /\ health = "down" \/ (health = "up" /\ DOMAIN GetPaths = {})
           /\ StopCollector /\ UNCHANGED pass
        \/ health = "degraded" /\ UNCHANGED <<pass, collVars>>
    BY DEF Pass
  <2> QED BY <1>4, <1>5, <1>6, <2>1

\* The collector has the endpoint: it is notified, and will look again.
LEMMA NotifyInv ==
  ASSUME CollInv, CountInv, StreamInv, Notify, coll.address # 0,
         UNCHANGED <<coll, stale, stream, zombies>>
  PROVE  CollInv' /\ CountInv' /\ StreamInv' /\ (loop' = "due" \/ subChan')
<1>1. CASE loop = "wait"
  BY <1>1 DEF Notify, CollInv, CountInv, StreamInv, SnapshotIsStreamed
<1>2. CASE loop # "wait"
  BY <1>2 DEF Notify, CollInv, CountInv, StreamInv, SnapshotIsStreamed
<1> QED BY <1>1, <1>2

\* Stop of a collector that will be started again: its loop may be left behind.
LEMMA CollectorStopInv ==
  ASSUME CollInv, CountInv, CollectorStop, UNCHANGED subChan
  PROVE  CollInv' /\ CountInv' /\ StreamInv' /\ coll' = Stopped
<1>1. coll' = Stopped /\ loop' = "none" /\ stream' = None /\ zombies' = 0
  BY DEF CollectorStop
<1>2. stale' \in [due : Nat, post : Nat]
  BY DEF CollectorStop, CountInv
<1>3. CollInv' /\ CountInv'
  BY <1>1, <1>2, StoppedType DEF CollInv, CountInv
<1>4. StreamInv'
  BY <1>1, StoppedType DEF StreamInv, SnapshotIsStreamed
<1> QED BY <1>1, <1>3, <1>4

LEMMA ReconcileInv ==
  ASSUME TelemetryInv, ReconcileCollector
  PROVE  TelemetryInv'
<1>0. /\ CollInv /\ CountInv /\ StreamInv /\ RunInv /\ SubsInv /\ SettledInv
  BY DEF TelemetryInv
<1>1. /\ UNCHANGED crVars /\ pass = "port"
      /\ UNCHANGED <<waking, target, health, subs, wakeCh, timer, stolen>>
  BY DEF ReconcileCollector
<1>2. GetPaths' = GetPaths /\ Address' = Address /\ Address \in Ports
  <2>1. target \in TargetPorts
    BY <1>0, <1>1 DEF RunInv
  <2> QED BY <1>0, <1>1, <2>1, SameAddress, AddressType
<1>3. CRInv' /\ SubsInv'
  <2>1. CRInv'
    BY <1>1, CRStays DEF TelemetryInv, CRInv
  <2> QED BY <1>0, <1>1, <2>1 DEF SubsInv
<1>4. CASE Address = 0 /\ StopCollector /\ pass' = "idle" /\ UNCHANGED dialing
  <2>1. CollInv' /\ CountInv' /\ StreamInv' /\ coll' = Stopped
    BY <1>4, StopCollectorInv
  <2>2. RunInv' /\ DialInv'
    BY <1>0, <1>1, <1>4 DEF RunInv, DialInv
  <2>3. SettledInv'
    BY <1>2, <1>4, <2>1 DEF SettledInv, Settled, AboutToServe
  <2> QED BY <1>3, <2>1, <2>2, <2>3 DEF TelemetryInv
<1>5. CASE /\ Address # 0 /\ coll.address = Address /\ Notify
           /\ pass' = "idle" /\ UNCHANGED <<coll, stale, stream, zombies, dialing>>
  <2>1. CollInv' /\ CountInv' /\ StreamInv' /\ (loop' = "due" \/ subChan')
    BY <1>0, <1>5, NotifyInv
  <2>2. RunInv' /\ DialInv'
    BY <1>0, <1>1, <1>5 DEF RunInv, DialInv
  <2>3. SettledInv'
    BY <1>0, <1>1, <1>2, <1>5, <2>1 DEF SettledInv, Settled, AboutToServe
  <2> QED BY <1>3, <2>1, <2>2, <2>3 DEF TelemetryInv
<1>6. CASE /\ Address # 0 /\ CollectorStop /\ UNCHANGED subChan
           /\ pass' = "dial" /\ dialing' = Address
  <2>1. CollInv' /\ CountInv' /\ StreamInv' /\ coll' = Stopped
    BY <1>0, <1>6, CollectorStopInv
  <2>2. RunInv' /\ DialInv'
    BY <1>0, <1>1, <1>2, <1>6, <2>1 DEF RunInv, DialInv
  <2>3. SettledInv'
    BY <1>0, <1>1, <1>2, <1>6 DEF SettledInv, Settled
  <2> QED BY <1>3, <2>1, <2>2, <2>3 DEF TelemetryInv
<1> QED BY <1>4, <1>5, <1>6 DEF ReconcileCollector

LEMMA DialInvKept ==
  ASSUME TelemetryInv, DialSucceeds \/ DialFails
  PROVE  TelemetryInv'
<1>0. /\ CollInv /\ CountInv /\ StreamInv /\ RunInv /\ SubsInv /\ SettledInv
      /\ dialing # 0 /\ coll = Stopped /\ dialing \in Ports
  BY DEF TelemetryInv, DialInv, RunInv, DialSucceeds, DialFails
<1>1. /\ UNCHANGED crVars /\ pass = "dial" /\ pass' = "idle" /\ dialing' = 0
      /\ UNCHANGED <<waking, target, health, subs, wakeCh, stolen>>
      /\ timer' \in BOOLEAN
  BY <1>0 DEF DialSucceeds, DialFails, RunInv
<1>2. GetPaths' = GetPaths /\ Address' = Address
  BY <1>1, SameAddress
<1>3. CRInv'
  BY <1>1, CRStays DEF TelemetryInv, CRInv
<1>4. SubsInv' /\ RunInv' /\ DialInv'
  BY <1>0, <1>1 DEF SubsInv, RunInv, DialInv, Ports
<1>5. CASE DialSucceeds
  <2>1. /\ coll' = [address |-> dialing, paths |-> <<>>] /\ loop' = "due"
        /\ UNCHANGED <<subChan, stale, stream, zombies, timer>>
    BY <1>5 DEF DialSucceeds
  <2>2. /\ coll' \in Collectors /\ coll'.address = dialing /\ DOMAIN coll'.paths = {}
        /\ ~Requests(coll'.paths)
    BY <1>0, <2>1, EmptySnapshot DEF Collectors
  <2>3. CollInv' /\ CountInv'
    BY <1>0, <2>1, <2>2 DEF CollInv, CountInv
  <2>4. stream = None
    BY <1>0, StoppedType DEF StreamInv, SnapshotIsStreamed
  <2>5. StreamInv'
    BY <2>1, <2>2, <2>4 DEF StreamInv, SnapshotIsStreamed, Requests
  <2>6. SettledInv'
    BY <1>0, <1>1, <1>2, <2>1, <2>2 DEF SettledInv, Settled, AboutToServe
  <2> QED BY <1>3, <1>4, <2>3, <2>5, <2>6 DEF TelemetryInv
<1>6. CASE DialFails
  <2>1. UNCHANGED collVars /\ timer' = TRUE
    BY <1>6 DEF DialFails
  <2>2. CollInv' /\ CountInv' /\ StreamInv'
    BY <1>0, <2>1, CollStays
  <2>3. SettledInv'
    BY <1>1, <2>1 DEF SettledInv, Settled
  <2> QED BY <1>3, <1>4, <2>2, <2>3 DEF TelemetryInv
<1> QED BY <1>5, <1>6

-----------------------------------------------------------------------------
(* The whole. *)

LEMMA NextInv ==
  ASSUME TelemetryInv, [Next]_vars
  PROVE  TelemetryInv'
<1>1. CASE Environment
  <2>1. CASE \E c \in CRs : SubscriptionFails(c)
    BY <2>1, ControllerSteps
  <2>2. CASE (\E c \in CRs, s \in Specs : SetSpec(c, s)) \/ \E c \in CRs : DeleteCR(c) \/ Deselect(c)
    BY <2>2, UnseenSteps
  <2>3. CASE (\E port \in TargetPorts : CreateRuntime(port)) \/ HealthFails \/ HealthRecovers
    BY <2>3, WakeSteps
  <2>4. CASE DeleteRuntime
    BY <2>4, RuntimeGoes
  <2>5. CASE DialFails
    BY <2>5, DialInvKept
  <2>6. CASE StreamFails \/ ZombieStops
    BY <2>6, StreamSteps
  <2>7. CASE StaleSteals
    BY <2>7, StealInv
  <2> QED BY <1>1, <2>1, <2>2, <2>3, <2>4, <2>5, <2>6, <2>7 DEF Environment
<1>2. CASE \E c \in CRs : Controller(c)
  BY <1>2, ControllerSteps, UnseenSteps DEF Controller
<1>3. CASE TargetEvent
  BY <1>3, UnseenSteps
<1>4. CASE Wake \/ TimerFires
  BY <1>4, WakeSteps
<1>5. CASE Pass
  BY <1>5, PassStepInv
<1>6. CASE ReconcileCollector
  BY <1>6, ReconcileInv
<1>7. CASE DialSucceeds
  BY <1>7, DialInvKept
<1>8. CASE Update
  BY <1>8, UpdateInv
<1>9. CASE Select
  BY <1>9, SelectInv
<1>10. CASE StaleUpdate \/ StaleExit
  BY <1>10, StaleSteps
<1>11. CASE StreamOpens \/ ZombieExits
  BY <1>11, StreamSteps
<1>12. CASE UNCHANGED vars
  <2>1. /\ UNCHANGED crVars /\ UNCHANGED collVars
        /\ UNCHANGED <<waking, target, health, subs, wakeCh, timer, pass, dialing,
                       coll, subChan, loop, stolen>>
    BY <1>12 DEF vars, collVars
  <2>2. CountInv' /\ StreamInv'
    BY <2>1, CollStays DEF TelemetryInv
  <2> QED BY <2>1, <2>2, CollectorStays
<1> QED BY <1>1, <1>2, <1>3, <1>4, <1>5, <1>6, <1>7, <1>8, <1>9, <1>10, <1>11, <1>12 DEF Next

(* The inductive invariant holds in every state of the telemetry of a target. *)
THEOREM TelemetryInvariant == Spec => []TelemetryInv
<1>1. Init => TelemetryInv
  BY InitInv
<1>2. TelemetryInv /\ [Next]_vars => TelemetryInv'
  BY NextInv
<1> QED BY <1>1, <1>2, PTL DEF Spec

(* Types of the telemetry of a target, the intervals that recomputeCurrent
   computes included; the collector has a loop exactly when it has an endpoint,
   and while the run loop dials, it is stopped. *)
THEOREM TelemetryTypes == Spec => []TelemetryTypeOK
<1>1. TelemetryInv => TelemetryTypeOK
  BY DEF TelemetryInv, CRInv, SubsInv, RunInv, CollInv, CountInv, StreamInv, DialInv,
         CRRecords, Conds, Collectors, TelemetryTypeOK
<1> QED BY <1>1, TelemetryInvariant, PTL

(* What the collector recorded as subscribed is subscribed: there is a live
   runSubscription for its snapshot, and none for another one. *)
THEOREM RecordedIsStreamed == Spec => []SnapshotIsStreamed
<1>1. TelemetryInv => SnapshotIsStreamed
  BY DEF TelemetryInv, StreamInv
<1> QED BY <1>1, TelemetryInvariant, PTL

(* When nothing is on its way to the collector, and no stale loop took a
   notification, it is connected and subscribed as the Subscriptions ask for. *)
THEOREM NoNotificationLost == Spec => []CollectorIsCurrent
<1>1. TelemetryInv => CollectorIsCurrent
  <2> SUFFICES ASSUME TelemetryInv, Quiet, ~stolen PROVE Serves
    BY DEF CollectorIsCurrent
  <2>1. AboutToServe
    BY DEF TelemetryInv, SettledInv, Settled, Quiet
  <2>2. CASE DOMAIN GetPaths = {} \/ Address = 0
    BY <2>1, <2>2 DEF AboutToServe, Serves
  <2>3. CASE ~(DOMAIN GetPaths = {} \/ Address = 0)
    <3>1. coll.address = Address /\ coll.paths = GetPaths /\ coll \in Collectors
      BY <2>1, <2>3 DEF AboutToServe, Quiet, TelemetryInv, CollInv
    <3> QED BY <2>3, <3>1 DEF Serves, Collectors
  <2> QED BY <2>2, <2>3
<1> QED BY <1>1, TelemetryInvariant, PTL
=============================================================================
