----------------------------- MODULE Deviations ------------------------------
(***************************************************************************)
(* The deviation watcher of a target (src/pkg/sdc/target/manager/          *)
(* deviation_watcher.go) and the Deviation objects it writes: one for the  *)
(* target, one per Config.                                                 *)
(*                                                                         *)
(* The data-server (external) reports again and again what deviates, each  *)
(* time from START to END.  The run loop of the target starts and stops    *)
(* watchers; Stop cancels a watcher's goroutine and does not wait for it,  *)
(* and a crash of the config-server clears nothing.                        *)
(* Transactor and discovery make the objects, discovery and the garbage    *)
(* collector remove them.                                                  *)
(***************************************************************************)
EXTENDS Naturals

CONSTANTS
    Configs,
    Device,         \* stands for "__", the deviations no intent has
    Paths,
    MaxStarts,      \* bound on the watchers that are started
    MaxEdits,       \* bound on what users and the device do
    MaxFaults,      \* bound on broken streams, failing API calls, crashes
    None

Names == Configs \union {Device}
Messages == Names \X (Paths \union {None})

ASSUME DeviationsAssumption ==
    /\ MaxStarts \in Nat /\ MaxEdits \in Nat /\ MaxFaults \in Nat
    /\ Device \notin Configs
    /\ None \notin Names \union Paths
    /\ \A S \in (SUBSET Paths) \union (SUBSET Messages) : S # None

VARIABLES
    target,         \* the Target is there
    watcher,        \* t.watcher, 0 for nil
    starts,         \* watchers started so far
    clearing,       \* Stop has cleared the Deviation and not cancelled yet
    w,              \* [1..MaxStarts -> goroutine of a watcher]
    configs,        \* Configs in the API server
    intents,        \* Configs with an intent in the datastore
    actual,         \* what deviates, per intent and for the device
    objs,           \* the Deviation objects
    edits, faults

runVars == <<target, watcher, starts, clearing>>
dsVars == <<configs, intents, actual>>
vars == <<runVars, w, dsVars, objs, edits, faults>>

Watchers == 1..MaxStarts
Unreported == [n \in Names |-> None]
Reports == [Names -> (SUBSET Paths) \union {None}]

\* A goroutine: started, deviations (buf) and the stream's messages to come
\* (left) are those of start(); pub and call are the Applies of processDeviations,
\* call the one under way.  Ghosts: snap is what the data-server reports in this
\* cycle, mixed that a stream broke between START and END.
NoWatcher == [pc |-> "none", cancelled |-> FALSE, started |-> FALSE, buf |-> Unreported,
              left |-> None, pub |-> {}, call |-> None, snap |-> Unreported, mixed |-> FALSE]

DeviationsTypeOK ==
    /\ target \in BOOLEAN /\ clearing \in BOOLEAN
    /\ watcher \in 0..starts /\ starts \in 0..MaxStarts
    /\ w \in [Watchers -> [pc : {"none", "dial", "recv", "publish", "dead"},
                           cancelled : BOOLEAN, started : BOOLEAN, buf : Reports,
                           left : (SUBSET Messages) \union {None}, pub : SUBSET Names,
                           call : Names \union {None}, snap : Reports, mixed : BOOLEAN]]
    /\ configs \subseteq Configs /\ intents \subseteq configs
    /\ actual \in [Names -> SUBSET Paths]
    /\ objs \in [Names -> [dev : SUBSET Paths, owned : BOOLEAN] \union {None}]
    /\ edits \in 0..MaxEdits /\ faults \in 0..MaxFaults
    /\ \A i \in Watchers : w[i].pc \in {"dial", "recv", "publish"} => i = watcher \/ w[i].cancelled

\* The Target's runtime gets to Running with the Configs of earlier days, which
\* recovery has replayed.
Init ==
    /\ target = TRUE /\ watcher = 0 /\ starts = 0 /\ clearing = FALSE
    /\ w = [i \in Watchers |-> NoWatcher]
    /\ configs \in SUBSET Configs /\ intents = configs /\ actual = [n \in Names |-> {}]
    /\ objs = [n \in Names |-> IF n \in configs THEN [dev |-> {}, owned |-> TRUE] ELSE None]
    /\ edits = 0 /\ faults = 0

Edit == edits < MaxEdits /\ edits' = edits + 1
Fault == faults < MaxFaults /\ faults' = faults + 1

-----------------------------------------------------------------------------
(* The run loop of the target: ensureRuntime, stopRuntime. *)

EnsureRuntime ==
    /\ target /\ watcher = 0 /\ starts < MaxStarts
    /\ starts' = starts + 1 /\ watcher' = starts'
    /\ w' = [w EXCEPT ![watcher'].pc = "dial"]
    /\ UNCHANGED <<target, clearing, dsVars, objs, edits, faults>>

\* Stop, first half: clearTargetDeviation.
StopClears ==
    /\ watcher # 0 /\ ~clearing
    /\ clearing' = TRUE
    /\ \/ /\ objs' = IF objs[Device] = None THEN objs ELSE [objs EXCEPT ![Device].dev = {}]
          /\ UNCHANGED faults
       \/ Fault /\ UNCHANGED objs
    /\ UNCHANGED <<target, watcher, starts, w, dsVars, edits>>

\* Stop, second half: cancel.  From now on every call of the goroutine fails, and
\* it goes on dialling for ever; only an Apply under way may still be executed.
Cancelled(g) ==
    IF g.call = None
    THEN [NoWatcher EXCEPT !.pc = "dead"]
    ELSE [NoWatcher EXCEPT !.pc = "publish", !.cancelled = TRUE, !.call = g.call,
                           !.buf[g.call] = g.buf[g.call]]

StopCancels ==
    /\ clearing
    /\ clearing' = FALSE /\ watcher' = 0
    /\ w' = [w EXCEPT ![watcher] = Cancelled(@)]
    /\ UNCHANGED <<target, starts, dsVars, objs, edits, faults>>

\* The config-server restarts: its goroutines end without a Stop, the Deviations
\* stay as they are, and a Stop before the next Start does nothing.
Crash ==
    /\ Fault
    /\ watcher' = 0 /\ clearing' = FALSE
    /\ w' = [i \in Watchers |-> IF w[i].pc \in {"dial", "recv", "publish"}
                               THEN Cancelled(w[i]) ELSE w[i]]
    /\ UNCHANGED <<target, starts, dsVars, objs, edits>>

\* The finalizers of the Target are done; the runtime was stopped before.  (The
\* reconciler deletes a Deviation by the name of the Target, which none has.)
TargetGone ==
    /\ Edit /\ target /\ watcher = 0
    /\ target' = FALSE
    /\ UNCHANGED <<watcher, starts, clearing, w, dsVars, objs, faults>>

-----------------------------------------------------------------------------
(* The goroutine of a watcher. *)

\* The rest of what a step of watcher i leaves alone.
Only(i, new) ==
    /\ w' = [w EXCEPT ![i] = new]
    /\ UNCHANGED <<runVars, dsVars, edits>>

Opened(i) ==
    /\ w[i].pc = "dial"
    /\ Only(i, [w[i] EXCEPT !.pc = "recv"])
    /\ UNCHANGED <<objs, faults>>

\* What the data-server reports in a cycle that starts now.
Report == [n \in Names |-> IF n \in intents \union {Device} THEN actual[n] ELSE None]

\* START resets the deviations and sets those of the device to none; if one was
\* already received it is refused.
RecvStart(i) ==
    /\ w[i].pc = "recv" /\ w[i].left = None
    /\ Only(i, [w[i] EXCEPT !.started = TRUE,
                            !.buf = IF w[i].started THEN @ ELSE [Unreported EXCEPT ![Device] = {}],
                            !.left = (intents \X {None})
                                       \union {m \in Names \X Paths : m[2] \in actual[m[1]]},
                            !.snap = Report])
    /\ UNCHANGED <<objs, faults>>

\* UPDATE: one deviation, or that the intent exists.
RecvUpdate(i, m) ==
    /\ w[i].pc = "recv" /\ w[i].left # None /\ m \in w[i].left
    /\ LET new == (IF w[i].buf[m[1]] = None THEN {} ELSE w[i].buf[m[1]])
                    \union ({m[2]} \ {None})
       IN  Only(i, [w[i] EXCEPT !.left = @ \ {m},
                                !.buf[m[1]] = IF w[i].started THEN new ELSE @])
    /\ UNCHANGED <<objs, faults>>

\* Mutant: END does not reset started.
RecvEndKeepsStarted(i) ==
    /\ w[i].pc = "recv" /\ w[i].left = {}
    /\ Only(i, [w[i] EXCEPT !.pc = "publish", !.left = None,
                            !.pub = {n \in Names : w[i].buf[n] # None}])
    /\ UNCHANGED <<objs, faults>>

\* END: what was received is published.
RecvEnd(i) ==
    /\ w[i].pc = "recv" /\ w[i].left = {}
    /\ Only(i, [w[i] EXCEPT !.pc = "publish", !.left = None, !.started = FALSE,
                            !.pub = {n \in Names : w[i].buf[n] # None}])
    /\ UNCHANGED <<objs, faults>>

\* Mutant: a broken stream is not opened again.
BrokenForGood(i) ==
    /\ w[i].pc = "recv" /\ Fault
    /\ Only(i, [w[i] EXCEPT !.pc = "dead", !.left = None])
    /\ UNCHANGED objs

\* The stream breaks; what was received and started are kept.
Broken(i) ==
    /\ w[i].pc = "recv" /\ Fault
    /\ Only(i, [w[i] EXCEPT !.pc = "dial", !.left = None, !.mixed = @ \/ w[i].started])
    /\ UNCHANGED objs

\* processDSDeviations: the Apply is sent, and then executed or not.
SendApply(i, n) ==
    /\ w[i].pc = "publish" /\ ~w[i].cancelled /\ w[i].call = None /\ n \in w[i].pub
    /\ Only(i, [w[i] EXCEPT !.call = n])
    /\ UNCHANGED <<objs, faults>>

\* An Apply under way when the context is cancelled may still be executed.  It
\* makes an object that is not there, without an owner.
ApplyEnds(i) ==
    /\ w[i].call # None
    /\ LET n == w[i].call IN
       /\ Only(i, IF w[i].cancelled THEN [NoWatcher EXCEPT !.pc = "dead"]
                  ELSE [w[i] EXCEPT !.call = None, !.pub = @ \ {n}])
       /\ \/ /\ objs' = [objs EXCEPT ![n] = [dev |-> w[i].buf[n],
                                             owned |-> objs[n] # None /\ objs[n].owned]]
             /\ UNCHANGED faults
          \/ /\ IF w[i].cancelled THEN UNCHANGED faults ELSE Fault
             /\ UNCHANGED objs

PublishEnds(i) ==
    /\ w[i].pc = "publish" /\ ~w[i].cancelled /\ w[i].pub = {}
    /\ Only(i, [w[i] EXCEPT !.pc = "recv", !.buf = Unreported, !.snap = Unreported,
                            !.mixed = FALSE])
    /\ UNCHANGED <<objs, faults>>

WatcherStep(i) ==
    \/ Opened(i) \/ RecvStart(i) \/ RecvEnd(i)
    \/ \E m \in Messages : RecvUpdate(i, m)
    \/ \E n \in Names : SendApply(i, n)
    \/ ApplyEnds(i) \/ PublishEnds(i)

-----------------------------------------------------------------------------
(* Configs, the device, and who else touches the objects. *)

CreateConfig(c) ==
    /\ Edit /\ c \notin configs
    /\ configs' = configs \union {c}
    /\ UNCHANGED <<runVars, w, intents, actual, objs, faults>>

\* Transact: every Config gets its Deviation before its intent is set.
ApplyDeviation(c) ==
    /\ c \in configs /\ objs[c] = None
    /\ objs' = [objs EXCEPT ![c] = [dev |-> {}, owned |-> TRUE]]
    /\ UNCHANGED <<runVars, w, dsVars, edits, faults>>

SetIntent(c) ==
    /\ c \in configs \ intents /\ objs[c] # None
    /\ intents' = intents \union {c}
    /\ UNCHANGED <<runVars, w, configs, actual, objs, edits, faults>>

\* The intent is removed and then the Config.  (deleteDeviation names the
\* Deviation by the Config, which none is called.)
RemoveConfig(c) ==
    /\ Edit /\ c \in configs
    /\ configs' = configs \ {c} /\ intents' = intents \ {c}
    /\ actual' = [actual EXCEPT ![c] = {}]
    /\ UNCHANGED <<runVars, w, objs, faults>>

Deviate(n, S) ==
    /\ Edit /\ n \in intents \union {Device} /\ S # actual[n]
    /\ actual' = [actual EXCEPT ![n] = S]
    /\ UNCHANGED <<runVars, w, configs, intents, objs, faults>>

\* applyTargetDeviationCR
DiscoveryApplies ==
    /\ target /\ objs[Device] = None
    /\ objs' = [objs EXCEPT ![Device] = [dev |-> {}, owned |-> TRUE]]
    /\ UNCHANGED <<runVars, w, dsVars, edits, faults>>

Removed(n) ==
    /\ objs[n] # None /\ objs[n].owned
    /\ objs' = [objs EXCEPT ![n] = None]
    /\ UNCHANGED <<runVars, w, dsVars, edits, faults>>

\* deleteUnwantedDeviations: it compares the name of a Deviation with names of
\* Targets and so deletes each one discovery has made.
DiscoveryPrunes == target /\ Removed(Device)

\* The garbage collector.
Collect(n) == (IF n = Device THEN ~target ELSE n \notin configs) /\ Removed(n)

Next ==
    \/ EnsureRuntime \/ StopClears \/ StopCancels \/ Crash \/ TargetGone
    \/ \E i \in Watchers : WatcherStep(i) \/ Broken(i)
    \/ \E c \in Configs : CreateConfig(c) \/ ApplyDeviation(c) \/ SetIntent(c) \/ RemoveConfig(c)
    \/ \E n \in Names, S \in SUBSET Paths : Deviate(n, S)
    \/ DiscoveryApplies \/ DiscoveryPrunes
    \/ \E n \in Names : Collect(n)

Spec == Init /\ [][Next]_vars

\* The goroutines run, and the data-server goes on reporting.
FairSpec == Spec /\ \A i \in Watchers : WF_vars(WatcherStep(i))

-----------------------------------------------------------------------------
(* Properties. *)

\* What is published is one report of the data-server, whole and nothing else:
\* also that an intent or the device no longer deviates.  The code does not keep
\* this when the stream breaks between START and END, since the START of the next
\* stream is then refused; the report after that is whole again.
ReportIsWhole ==
    \A i \in Watchers : w[i].pc = "publish" /\ ~w[i].cancelled /\ ~w[i].mixed => w[i].buf = w[i].snap

\* While a watcher runs, the Deviations come to say what deviates, whatever
\* streams broke, Applies failed or objects were deleted before.
DeviationsConverge ==
    []<>(watcher = 0 \/ \A n \in intents \union {Device} :
                           objs[n] # None /\ objs[n].dev = actual[n])
=============================================================================
