------------------------------ MODULE Telemetry ------------------------------
(***************************************************************************)
(* Telemetry of one target: the Subscription controller, the Subscriptions *)
(* of its runtime, the part of the run loop that owns the collector        *)
(* (reconcileCollector) and the gNMI Collector with its loop and streams   *)
(* (src/pkg/sdc/target/manager: subscription.go, collector.go, runtime.go).*)
(*                                                                         *)
(* The config side of the run loop is TargetRuntime; here it is `health`,  *)
(* what a pass finds before it reaches the collector.                      *)
(***************************************************************************)
EXTENDS Integers, FiniteSetsExt

CONSTANTS
    CRs,            \* Subscription CRs: numbers, in the order of their names
    Paths,
    Unparsable,     \* the paths of which no request can be built
    Specs,          \* their specs: a port (0: none) and the paths they declare
    TargetPorts,    \* ports a Target may define, 0 when it does not
    MaxEdits,       \* bound on what users do to the CRs
    MaxFaults,      \* bound on failing calls, dials and streams, outages of the
                    \* data-server, relabelled and deleted Targets
    None            \* no spec, no runtime, no stream; a disabled subscription

Ports == {0} \union {s.port : s \in Specs} \union TargetPorts
Intervals == UNION {{s.interval[p] : p \in DOMAIN s.interval} : s \in Specs}
Snapshots == UNION {[Q -> Intervals \ {None}] : Q \in SUBSET Paths}
Streams == [paths : Snapshots, open : BOOLEAN]

ASSUME TelemetryAssumption ==
    /\ CRs \subseteq Nat /\ CRs # {}
    /\ \A s \in Specs : s.port \in Nat /\ DOMAIN s.interval \subseteq Paths
    /\ Intervals \ {None} \subseteq Nat
    /\ TargetPorts \subseteq Nat /\ Unparsable \subseteq Paths
    /\ MaxEdits \in Nat /\ MaxFaults \in Nat
    /\ None \notin Nat /\ None \notin Specs /\ None \notin Streams

VARIABLES
    crs,            \* CR -> spec (None: it does not exist), deleting, finalizer, cond
    crWake,         \* the CRs queued in the controller
    matches,        \* the CRs whose selector matches the labels of the Target
    announce,       \* a status write of the Target whose event is still to come
    waking,         \* Upsert or DeleteSubscription stored, its wake still to come
    target,         \* port in the definition of the runtime, None: no runtime
    health,         \* what a pass finds before it reaches the collector
    subs,           \* Subscriptions: what each CR last declared, None: nothing
    wakeCh, timer,
    pass,           \* where the run loop is
    dialing,        \* the address Start dials
    coll,           \* the collector: address (0: stopped) and path snapshot
    subChan,        \* its notification channel of capacity 1
    loop,           \* the loop of the last Start
    stale,          \* loops of earlier Starts of this Collector, by where they are
    stream,         \* runSubscription of the current snapshot
    zombies,        \* cancelled runSubscriptions on the current gNMI client
    edits, faults,
    stolen          \* ghost: a stale loop took a notification

crVars == <<crs, crWake, matches, announce>>
collVars == <<coll, subChan, loop, stale, stream, zombies>>
vars == <<crVars, waking, target, health, subs, wakeCh, timer, pass, dialing,
          collVars, edits, faults, stolen>>

NoCR == [spec |-> None, deleting |-> FALSE, finalizer |-> FALSE, cond |-> "none"]
Stopped == [address |-> 0, paths |-> <<>>]

Init ==
    /\ crs = [c \in CRs |-> NoCR] /\ crWake = {} /\ matches = CRs
    /\ announce = FALSE /\ waking = FALSE
    /\ target \in TargetPorts
    /\ health = "up" /\ subs = [c \in CRs |-> None]
    /\ wakeCh = TRUE /\ timer = FALSE /\ pass = "idle" /\ dialing = 0
    /\ coll = Stopped /\ subChan = FALSE /\ loop = "none"
    /\ stale = [due |-> 0, post |-> 0] /\ stream = None /\ zombies = 0
    /\ edits = 0 /\ faults = 0 /\ stolen = FALSE

-----------------------------------------------------------------------------
(* Subscriptions. *)

\* The CRs that declare the path with an enabled subscription.
Enabled(p) ==
    {c \in CRs : subs[c] # None /\ p \in DOMAIN subs[c].interval /\ subs[c].interval[p] # None}

\* recomputeCurrent and GetPaths: the lowest interval of an enabled subscription.
GetPaths ==
    [p \in {q \in Paths : Enabled(q) # {}} |-> Min({subs[c].interval[p] : c \in Enabled(p)})]

\* buildSubscribeRequests succeeds on a snapshot that is not empty.  One path that
\* cannot be parsed fails it, and with it all others.
Requests(paths) == DOMAIN paths # {} /\ DOMAIN paths \intersect Unparsable = {}

\* The port of the first CR that has one.
Port ==
    LET with == {c \in CRs : subs[c] # None /\ subs[c].port # 0}
    IN  IF with = {} THEN 0 ELSE subs[Min(with)].port

\* AddSubscription: the CR declares exactly its spec; what it declared before
\* and no longer does is pruned.
AddSubscription(c, s) == [subs EXCEPT ![c] = s]

DelSubscription(c) == [subs EXCEPT ![c] = None]

-----------------------------------------------------------------------------
(* The users, the Target and the data-server. *)

Edit == edits < MaxEdits /\ edits' = edits + 1
Fault == faults < MaxFaults /\ faults' = faults + 1

SetSpec(c, s) ==
    /\ Edit /\ s # crs[c].spec /\ ~crs[c].deleting
    /\ crs' = [crs EXCEPT ![c].spec = s]
    /\ crWake' = crWake \union {c}
    /\ UNCHANGED <<matches, announce, waking, target, health, subs, wakeCh, timer,
                   pass, dialing, collVars, faults, stolen>>

DeleteCR(c) ==
    /\ Edit /\ crs[c].spec # None /\ ~crs[c].deleting
    /\ crs' = [crs EXCEPT ![c] = IF @.finalizer THEN [@ EXCEPT !.deleting = TRUE] ELSE NoCR]
    /\ crWake' = crWake \union {c}
    /\ UNCHANGED <<matches, announce, waking, target, health, subs, wakeCh, timer,
                   pass, dialing, collVars, faults, stolen>>

\* The labels of the Target no longer match; the event of the old object
\* still queues the CR.
Deselect(c) ==
    /\ Fault /\ c \in matches
    /\ matches' = matches \ {c}
    /\ crWake' = IF crs[c].spec # None THEN crWake \union {c} ELSE crWake
    /\ UNCHANGED <<crs, announce, waking, target, health, subs, wakeCh, timer,
                   pass, dialing, collVars, edits, stolen>>

\* ApplyDesired creates the runtime, whose loop starts with a wake; the status
\* the target controller then writes is an event of the Target.
CreateRuntime(port) ==
    /\ target = None
    /\ target' = port /\ wakeCh' = TRUE /\ announce' = TRUE
    /\ UNCHANGED <<crs, crWake, matches, waking, health, subs, timer,
                   pass, dialing, collVars, edits, faults, stolen>>

\* TargetForSubscriptionEventHandler queues the CRs that match.
TargetEvent ==
    /\ announce /\ announce' = FALSE
    /\ crWake' = crWake \union {c \in matches : crs[c].spec # None}
    /\ UNCHANGED <<crs, matches, waking, target, health, subs, wakeCh, timer,
                   pass, dialing, collVars, edits, faults, stolen>>

\* Degraded: the pass returns before it reaches the collector.  Down: it stops
\* the components.
HealthFails ==
    /\ Fault /\ target # None /\ health = "up"
    /\ health' \in {"degraded", "down"}
    /\ wakeCh' = TRUE
    /\ UNCHANGED <<crVars, waking, target, subs, timer, pass, dialing, collVars,
                   edits, stolen>>

HealthRecovers ==
    /\ target # None /\ health # "up" /\ health' = "up"
    /\ wakeCh' = TRUE
    /\ UNCHANGED <<crVars, waking, target, subs, timer, pass, dialing, collVars,
                   edits, faults, stolen>>

-----------------------------------------------------------------------------
(* The Subscription controller: one worker. *)

\* The runtime, if there is one, of a Target the CR selects.
HasRuntime(c) == target # None /\ c \in matches

\* A status that changes is an event of the CR itself.
SetCond(c, cond, finalizer) ==
    /\ crs' = [crs EXCEPT ![c].finalizer = finalizer, ![c].cond = cond]
    /\ crWake' = IF cond = crs[c].cond THEN crWake \ {c} ELSE crWake

\* UpsertSubscription on the runtime, if the controller finds one.
Upsert(c) ==
    /\ subs' = IF HasRuntime(c) THEN AddSubscription(c, crs[c].spec) ELSE subs
    /\ waking' = HasRuntime(c)

Remove(c) ==
    /\ subs' = IF HasRuntime(c) THEN DelSubscription(c) ELSE subs
    /\ waking' = HasRuntime(c)

\* AddFinalizer, ApplySubscription, handleSuccess.
ApplySubscription(c) ==
    /\ c \in crWake /\ ~waking
    /\ crs[c].spec # None /\ ~crs[c].deleting
    /\ Upsert(c)
    /\ SetCond(c, "ready", TRUE)
    /\ UNCHANGED <<matches, announce, target, health, wakeCh, timer, pass, dialing,
                   collVars, edits, faults, stolen>>

RemoveSubscription(c) ==
    /\ c \in crWake /\ ~waking /\ crs[c].deleting
    /\ Remove(c)
    /\ crs' = [crs EXCEPT ![c] = NoCR]
    /\ crWake' = crWake \ {c}
    /\ UNCHANGED <<matches, announce, target, health, wakeCh, timer, pass, dialing,
                   collVars, edits, faults, stolen>>

\* A call to the API server faults.  handleError returns no error, so only the
\* event of its own status write brings the CR back, and not when it was Failed
\* already; a status write that faults is an error, and the CR is requeued.
SubscriptionFails(c) ==
    /\ c \in crWake /\ ~waking /\ crs[c].spec # None
    /\ Fault
    /\ \/ \E finalizer \in {crs[c].finalizer, TRUE} :
             SetCond(c, "failed", finalizer) /\ UNCHANGED <<subs, waking>>
       \/ crs[c].deleting /\ Remove(c) /\ SetCond(c, "failed", TRUE)
       \/ /\ ~crs[c].deleting /\ Upsert(c)
          /\ crs' = [crs EXCEPT ![c].finalizer = TRUE] /\ UNCHANGED crWake
    /\ UNCHANGED <<matches, announce, target, health, wakeCh, timer, pass, dialing,
                   collVars, edits, stolen>>

\* The CR went before its turn came.
SubscriptionNotFound(c) ==
    /\ c \in crWake /\ ~waking /\ crs[c].spec = None
    /\ crWake' = crWake \ {c}
    /\ UNCHANGED <<crs, matches, announce, waking, target, health, subs, wakeCh,
                   timer, pass, dialing, collVars, edits, faults, stolen>>

\* The wake at the end of UpsertSubscription and DeleteSubscription.
Wake ==
    /\ waking /\ waking' = FALSE
    /\ wakeCh' = TRUE
    /\ UNCHANGED <<crVars, target, health, subs, timer, pass, dialing, collVars,
                   edits, faults, stolen>>

\* wakeAfter.
TimerFires ==
    /\ timer /\ timer' = FALSE
    /\ wakeCh' = TRUE
    /\ UNCHANGED <<crVars, waking, target, health, subs, pass, dialing, collVars,
                   edits, faults, stolen>>

-----------------------------------------------------------------------------
(* The Collector.  Stop and update hold its lock. *)

\* Stop: everything of the collector ends with its context.  Loops that are not
\* parked in their select are still to notice.
CollectorStop ==
    /\ coll' = Stopped
    /\ loop' = "none"
    /\ stale' = CASE loop = "due" -> [stale EXCEPT !.due = @ + 1]
                   [] loop = "post" -> [stale EXCEPT !.post = @ + 1]
                   [] OTHER -> stale
    /\ stream' = None /\ zombies' = 0

\* stopCollector: the run loop drops this Collector, and its channel.
StopCollector ==
    /\ coll' = Stopped /\ subChan' = FALSE /\ loop' = "none"
    /\ stale' = [due |-> 0, post |-> 0] /\ stream' = None /\ zombies' = 0

\* NotifySubscriptionChanged: a parked loop gets it at once; one notification
\* waits in the channel, more are dropped.
Notify ==
    IF loop = "wait" THEN loop' = "due" /\ UNCHANGED subChan
    ELSE subChan' = TRUE /\ UNCHANGED loop

\* Mutant: the intervals are not compared.
HasPathsChangedByName(new) == DOMAIN coll.paths # DOMAIN new

\* hasPathsChanged.
HasPathsChanged(new) == coll.paths # new

\* update of the running loop, and the start of runSubscription: it returns when
\* there is nothing it can request, and the snapshot stays recorded.  A stream
\* that is replaced shares its client with the next one.
Update ==
    /\ loop = "due" /\ loop' = "post"
    /\ IF HasPathsChanged(GetPaths)
       THEN /\ coll' = [coll EXCEPT !.paths = GetPaths]
            /\ stream' = IF Requests(GetPaths) THEN [paths |-> GetPaths, open |-> FALSE]
                         ELSE None
            /\ zombies' = IF stream = None THEN zombies ELSE zombies + 1
       ELSE UNCHANGED <<coll, stream, zombies>>
    /\ UNCHANGED <<crVars, waking, target, health, subs, wakeCh, timer, pass,
                   dialing, subChan, stale, edits, faults, stolen>>

\* Back in its select.
Select ==
    /\ loop = "post"
    /\ loop' = IF subChan THEN "due" ELSE "wait"
    /\ subChan' = FALSE
    /\ UNCHANGED <<crVars, waking, target, health, subs, wakeCh, timer, pass,
                   dialing, coll, stale, stream, zombies, edits, faults, stolen>>

\* Mutant: update does not look at its context, and subscribes the new client
\* under the old one, which ends the stream at once.
StaleUpdateApplies ==
    /\ stale.due > 0
    /\ stale' = [due |-> stale.due - 1, post |-> stale.post + 1]
    /\ IF coll.address # 0 /\ HasPathsChanged(GetPaths)
       THEN coll' = [coll EXCEPT !.paths = GetPaths] /\ stream' = None
       ELSE UNCHANGED <<coll, stream>>
    /\ UNCHANGED <<crVars, waking, target, health, subs, wakeCh, timer, pass,
                   dialing, subChan, loop, zombies, edits, faults, stolen>>

\* update of a stale loop finds its context cancelled.
StaleUpdate ==
    /\ stale.due > 0
    /\ stale' = [due |-> stale.due - 1, post |-> stale.post + 1]
    /\ UNCHANGED <<crVars, waking, target, health, subs, wakeCh, timer, pass,
                   dialing, coll, subChan, loop, stream, zombies, edits, faults, stolen>>

StaleExit ==
    /\ stale.post > 0
    /\ stale' = [stale EXCEPT !.post = @ - 1]
    /\ UNCHANGED <<crVars, waking, target, health, subs, wakeCh, timer, pass,
                   dialing, coll, subChan, loop, stream, zombies, edits, faults, stolen>>

\* Its select finds the context done and a notification: either may win.
StaleSteals ==
    /\ stale.post > 0 /\ subChan
    /\ stale' = [due |-> stale.due + 1, post |-> stale.post - 1]
    /\ subChan' = FALSE /\ stolen' = TRUE
    /\ UNCHANGED <<crVars, waking, target, health, subs, wakeCh, timer, pass,
                   dialing, coll, loop, stream, zombies, edits, faults>>

\* Mutant: a stream is not restarted once one failed.
StreamOpensOnce ==
    /\ stream # None /\ ~stream.open /\ faults = 0
    /\ stream' = [stream EXCEPT !.open = TRUE]
    /\ UNCHANGED <<crVars, waking, target, health, subs, wakeCh, timer, pass,
                   dialing, coll, subChan, loop, stale, zombies, edits, faults, stolen>>

\* runSubscription subscribes, at first and after its backoff.
StreamOpens ==
    /\ stream # None /\ ~stream.open
    /\ stream' = [stream EXCEPT !.open = TRUE]
    /\ UNCHANGED <<crVars, waking, target, health, subs, wakeCh, timer, pass,
                   dialing, coll, subChan, loop, stale, zombies, edits, faults, stolen>>

StreamFails ==
    /\ stream # None /\ stream.open
    /\ Fault
    /\ stream' = [stream EXCEPT !.open = FALSE]
    /\ UNCHANGED <<crVars, waking, target, health, subs, wakeCh, timer, pass,
                   dialing, coll, subChan, loop, stale, zombies, edits, stolen>>

\* A cancelled runSubscription stops the subscriptions of its client: those of
\* its successor on that client too, whose reader sees them fail.
ZombieStops ==
    /\ zombies > 0 /\ stream # None /\ stream.open
    /\ stream' = [stream EXCEPT !.open = FALSE]
    /\ zombies' \in {zombies, zombies - 1}
    /\ UNCHANGED <<crVars, waking, target, health, subs, wakeCh, timer, pass,
                   dialing, coll, subChan, loop, stale, edits, faults, stolen>>

ZombieExits ==
    /\ zombies > 0 /\ zombies' = zombies - 1
    /\ stream' = IF stream = None THEN None ELSE [stream EXCEPT !.open = FALSE]
    /\ UNCHANGED <<crVars, waking, target, health, subs, wakeCh, timer, pass,
                   dialing, coll, subChan, loop, stale, edits, faults, stolen>>

-----------------------------------------------------------------------------
(* The run loop. *)

\* A pass up to the collector: HasActivePaths is read first, the port after it.
Pass ==
    /\ target # None /\ pass = "idle" /\ wakeCh /\ wakeCh' = FALSE
    /\ \/ /\ health = "up" /\ DOMAIN GetPaths # {}
          /\ pass' = "port" /\ UNCHANGED collVars
       \/ /\ \/ health = "down"
             \/ health = "up" /\ DOMAIN GetPaths = {}
          /\ StopCollector /\ UNCHANGED pass
       \/ /\ health = "degraded"
          /\ UNCHANGED <<pass, collVars>>
    /\ UNCHANGED <<crVars, waking, target, health, subs, timer, dialing, edits,
                   faults, stolen>>

Address == IF Port # 0 THEN Port ELSE target

\* The rest of reconcileCollector.
ReconcileCollector ==
    /\ pass = "port"
    /\ \/ /\ Address = 0
          /\ StopCollector
          /\ pass' = "idle" /\ UNCHANGED dialing
       \/ /\ Address # 0 /\ coll.address = Address
          /\ Notify
          /\ pass' = "idle" /\ UNCHANGED <<coll, stale, stream, zombies, dialing>>
       \/ /\ Address # 0 /\ coll.address # Address
          /\ CollectorStop /\ UNCHANGED subChan
          /\ pass' = "dial" /\ dialing' = Address
    /\ UNCHANGED <<crVars, waking, target, health, subs, wakeCh, timer, edits,
                   faults, stolen>>

DialSucceeds ==
    /\ pass = "dial" /\ pass' = "idle"
    /\ coll' = [address |-> dialing, paths |-> <<>>]
    /\ loop' = "due" /\ dialing' = 0
    /\ UNCHANGED <<crVars, waking, target, health, subs, wakeCh, timer, subChan,
                   stale, stream, zombies, edits, faults, stolen>>

DialFails ==
    /\ pass = "dial" /\ pass' = "idle"
    /\ Fault
    /\ timer' = TRUE /\ dialing' = 0
    /\ UNCHANGED <<crVars, waking, target, health, subs, wakeCh, collVars, edits, stolen>>

\* The Target is deleted: shutdown, and the runtime goes with its Subscriptions.
DeleteRuntime ==
    /\ Fault /\ target # None /\ pass = "idle"
    /\ target' = None /\ subs' = [c \in CRs |-> None]
    /\ wakeCh' = FALSE /\ timer' = FALSE
    /\ StopCollector
    /\ UNCHANGED <<crVars, waking, health, pass, dialing, edits, stolen>>

-----------------------------------------------------------------------------
Controller(c) ==
    ApplySubscription(c) \/ RemoveSubscription(c) \/ SubscriptionNotFound(c)

Environment ==
    \/ \E c \in CRs, s \in Specs : SetSpec(c, s)
    \/ \E c \in CRs : DeleteCR(c) \/ Deselect(c) \/ SubscriptionFails(c)
    \/ \E port \in TargetPorts : CreateRuntime(port)
    \/ DeleteRuntime \/ HealthFails \/ HealthRecovers
    \/ DialFails \/ StreamFails \/ ZombieStops \/ StaleSteals

Next ==
    \/ Environment
    \/ \E c \in CRs : Controller(c)
    \/ TargetEvent \/ Wake \/ TimerFires
    \/ Pass \/ ReconcileCollector \/ DialSucceeds
    \/ Update \/ Select \/ StaleUpdate \/ StaleExit
    \/ StreamOpens \/ ZombieExits

Spec == Init /\ [][Next]_vars

\* The controller's worker, the run loop, the loops of the collector and the
\* streams are goroutines that are scheduled; a dial and a restarted stream are
\* assumed to succeed in the end; nothing is assumed of users and failures.
Fairness ==
    /\ \A c \in CRs : WF_vars(Controller(c))
    /\ WF_vars(TargetEvent) /\ WF_vars(Wake) /\ WF_vars(TimerFires)
    /\ WF_vars(Pass) /\ WF_vars(ReconcileCollector) /\ WF_vars(DialSucceeds)
    /\ WF_vars(Update) /\ WF_vars(Select) /\ WF_vars(StaleUpdate) /\ WF_vars(StaleExit)
    /\ WF_vars(StreamOpens) /\ WF_vars(ZombieExits)

FairSpec == Spec /\ Fairness

-----------------------------------------------------------------------------
(* Properties. *)

(* Types, and the shape of the collector: it has a loop exactly when it has an
   endpoint, and while the run loop dials, it is stopped. *)
TelemetryTypeOK ==
    /\ crs \in [CRs -> [spec : Specs \union {None}, deleting : BOOLEAN,
                        finalizer : BOOLEAN, cond : {"none", "ready", "failed"}]]
    /\ crWake \subseteq CRs /\ matches \subseteq CRs
    /\ {announce, waking, wakeCh, timer, subChan, stolen} \subseteq BOOLEAN
    /\ target \in TargetPorts \union {None} /\ health \in {"up", "degraded", "down"}
    /\ subs \in [CRs -> Specs \union {None}]
    /\ pass \in {"idle", "port", "dial"} /\ dialing \in Ports
    /\ coll \in [address : Ports, paths : Snapshots]
    /\ loop \in {"none", "due", "post", "wait"} /\ stale \in [due : Nat, post : Nat]
    /\ stream \in {None} \union Streams /\ zombies \in Nat
    /\ (loop = "none") = (coll.address = 0)
    /\ pass = "dial" => dialing # 0 /\ coll = Stopped /\ target # None

(* What the collector recorded as subscribed, and can request, is subscribed:
   there is a live runSubscription for its snapshot, and none for another one.
   collector.go's update promises that a stale loop stays off the new client. *)
SnapshotIsStreamed ==
    IF Requests(coll.paths) THEN stream # None /\ stream.paths = coll.paths
    ELSE stream = None

\* Nothing is on its way to the collector.
Quiet ==
    /\ target # None /\ health = "up"
    /\ ~waking /\ ~wakeCh /\ ~timer /\ pass = "idle"
    /\ loop \in {"none", "wait"} /\ ~subChan

\* The collector serves what the CRs declared: endpoint and paths.
Serves ==
    IF DOMAIN GetPaths = {} \/ Address = 0 THEN coll = Stopped
    ELSE coll = [address |-> Address, paths |-> GetPaths]

(* When nothing is on its way, the collector is connected to the address and
   subscribed to the paths and intervals the Subscriptions ask for, unless a
   stale loop took a notification: no wake, timer or notification of
   reconcileCollector and NotifySubscriptionChanged may get lost. *)
CollectorIsCurrent == Quiet /\ ~stolen => Serves

\* What the runtime holds of a CR the controller did not give up on.
Reached(c) ==
    \/ crs[c].cond = "failed" \/ c \notin matches
    \/ subs[c] = IF crs[c].deleting THEN None ELSE crs[c].spec

(* Telemetry converges: in the end the runtime holds the spec of every CR that
   selects the target and did not fail, and the device streams exactly what they
   ask for, if requests can be built of it, whatever dials and streams failed
   before. *)
SubscriptionsReachDevice ==
    <>[](target # None =>
            /\ \A c \in CRs : Reached(c)
            /\ health = "up" /\ ~stolen /\ Requests(GetPaths) /\ Address # 0 =>
                  stream = [paths |-> GetPaths, open |-> TRUE])
=============================================================================
