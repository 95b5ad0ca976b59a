-------------------------- MODULE DeviationsProofs ---------------------------
(***************************************************************************)
(* Proofs about Deviations: the types, with which goroutines work at all,  *)
(* and that a published report is whole.                                   *)
(***************************************************************************)
EXTENDS Deviations, TLAPS

Goroutine ==
    [pc : {"none", "dial", "recv", "publish", "dead"},
     cancelled : BOOLEAN, started : BOOLEAN, buf : Reports,
     left : (SUBSET Messages) \union {None}, pub : SUBSET Names,
     call : Names \union {None}, snap : Reports, mixed : BOOLEAN]

Object == [dev : SUBSET Paths, owned : BOOLEAN]

\* What the stream has yet to say of n, and what was received of n so far.
ToCome(g, n) == {p \in Paths \union {None} : <<n, p>> \in g.left}
Received(g, n) == IF g.buf[n] = None THEN {} ELSE g.buf[n]

\* What was received of n and what is to come make the report of n.
Covers(g, n) ==
    IF ToCome(g, n) = {}
    THEN g.buf[n] = g.snap[n]
    ELSE g.snap[n] = Received(g, n) \union (ToCome(g, n) \ {None})

\* What holds of one goroutine.  Between START and END it is either mixed, by a
\* stream that broke there, or it has received the report up to what is to come;
\* and it publishes only what it was told of.
GoroutineInv(g) ==
    /\ g.call # None => g.pc = "publish" /\ g.buf[g.call] \in SUBSET Paths
    /\ g.call # None /\ ~g.cancelled => g.call \in g.pub
    /\ \A n \in g.pub : g.buf[n] \in SUBSET Paths
    /\ g.pub # {} => g.pc = "publish"
    /\ g.left # None => g.pc = "recv" /\ g.started
    /\ g.started => g.pc \in {"dial", "recv"}
    /\ g.started /\ g.left = None => g.mixed
    /\ g.left # None /\ ~g.mixed => \A n \in Names : Covers(g, n)
    /\ g.pc = "publish" /\ ~g.cancelled /\ ~g.mixed => g.buf = g.snap

\* The run loop: Stop clears before it cancels.
RunInv ==
    /\ target \in BOOLEAN /\ clearing \in BOOLEAN
    /\ watcher \in 0..starts /\ starts \in 0..MaxStarts
    /\ clearing => watcher # 0

\* The goroutines: one that is not cancelled is the run loop's.
WatchersInv ==
    /\ w \in [Watchers -> Goroutine]
    /\ \A i \in Watchers : GoroutineInv(w[i])
    /\ \A i \in Watchers : i > starts => w[i] = NoWatcher
    /\ \A i \in Watchers : w[i].pc \in {"dial", "recv", "publish"} => i = watcher \/ w[i].cancelled

\* The datastore: what no intent has does not deviate.
StoreInv ==
    /\ configs \subseteq Configs /\ intents \subseteq configs
    /\ actual \in [Names -> SUBSET Paths]
    /\ \A n \in Names : n \notin intents \union {Device} => actual[n] = {}

BoundsInv == edits \in 0..MaxEdits /\ faults \in 0..MaxFaults

ObjectsInv == objs \in [Names -> Object \union {None}]

DevInv == RunInv /\ WatchersInv /\ StoreInv /\ BoundsInv /\ ObjectsInv

\* A failing call stays in the bound.
LEMMA FaultType ==
    ASSUME Fault, faults \in 0..MaxFaults PROVE faults' \in 0..MaxFaults
  BY DeviationsAssumption DEF Fault

\* An edit stays in the bound.
LEMMA EditType ==
    ASSUME Edit, edits \in 0..MaxEdits PROVE edits' \in 0..MaxEdits
  BY DeviationsAssumption DEF Edit

-----------------------------------------------------------------------------
(* The steps of one goroutine keep its invariant. *)

\* A goroutine that does nothing, never started or dead.
LEMMA IdleKeeps ==
    ASSUME NEW p \in {"none", "dial", "dead"}
    PROVE  /\ [NoWatcher EXCEPT !.pc = p] \in Goroutine
           /\ GoroutineInv([NoWatcher EXCEPT !.pc = p])
  BY DeviationsAssumption DEF NoWatcher, Goroutine, GoroutineInv, Unreported, Reports

\* Opening the stream.
LEMMA OpenedKeeps ==
    ASSUME NEW g \in Goroutine, GoroutineInv(g), g.pc = "dial"
    PROVE  /\ [g EXCEPT !.pc = "recv"] \in Goroutine
           /\ GoroutineInv([g EXCEPT !.pc = "recv"])
  BY DEF Goroutine, GoroutineInv, Covers, ToCome, Received

\* A stream that breaks.
LEMMA BrokenKeeps ==
    ASSUME NEW g \in Goroutine, GoroutineInv(g), g.pc = "recv",
           NEW new, new = [g EXCEPT !.pc = "dial", !.left = None, !.mixed = @ \/ g.started]
    PROVE  new \in Goroutine /\ GoroutineInv(new)
<1>1. new \in Goroutine
  BY DEF Goroutine
<1>2. /\ new.pc = "dial" /\ new.left = None /\ new.mixed = (g.mixed \/ g.started)
      /\ new.call = g.call /\ new.buf = g.buf /\ new.pub = g.pub /\ new.started = g.started
  BY DEF Goroutine
<1> QED
  BY <1>1, <1>2 DEF GoroutineInv

\* START: what is to come of each name is what the data-server reports.
LEMMA StartKeeps ==
    ASSUME NEW g \in Goroutine, GoroutineInv(g), g.pc = "recv", g.left = None,
           intents \subseteq Configs, actual \in [Names -> SUBSET Paths],
           \A n \in Names : n \notin intents \union {Device} => actual[n] = {},
           NEW new,
           new = [g EXCEPT !.started = TRUE,
                           !.buf = IF g.started THEN @ ELSE [Unreported EXCEPT ![Device] = {}],
                           !.left = (intents \X {None})
                                      \union {m \in Names \X Paths : m[2] \in actual[m[1]]},
                           !.snap = Report]
    PROVE  new \in Goroutine /\ GoroutineInv(new)
<1> DEFINE L == (intents \X {None}) \union {m \in Names \X Paths : m[2] \in actual[m[1]]}
<1>1. L \in SUBSET Messages /\ L # None
  BY DeviationsAssumption DEF Messages, Names
<1>2. Report \in Reports /\ [Unreported EXCEPT ![Device] = {}] \in Reports
  BY DEF Report, Reports, Unreported, Names
<1>3. new \in Goroutine
  BY <1>1, <1>2 DEF Goroutine
<1>4. /\ new.pc = "recv" /\ new.left = L /\ new.mixed = g.mixed /\ new.snap = Report
      /\ new.call = g.call /\ new.pub = g.pub /\ new.started
      /\ new.buf = IF g.started THEN g.buf ELSE [Unreported EXCEPT ![Device] = {}]
  BY DEF Goroutine
<1>5. g.call = None /\ g.pub = {}
  BY DEF GoroutineInv
<1>6. ASSUME ~g.mixed, NEW n \in Names PROVE Covers(new, n)
  <2>1. ~g.started
    BY <1>6 DEF GoroutineInv
  <2>2. new.buf[n] = IF n = Device THEN {} ELSE None
    BY <1>4, <2>1 DEF Unreported, Names
  <2>3. \A p \in Paths \union {None} :
           <<n, p>> \in L <=> (n \in intents /\ p = None) \/ (p \in Paths /\ p \in actual[n])
    OBVIOUS
  <2>4. ToCome(new, n) = (IF n \in intents THEN {None} ELSE {}) \union actual[n]
    BY <1>4, <2>3 DEF ToCome
  <2>5. new.snap[n] = IF n \in intents \union {Device} THEN actual[n] ELSE None
    BY <1>4 DEF Report
  <2>6. Received(new, n) = {}
    BY <2>2 DEF Received
  <2>7. None \notin actual[n]
    BY DeviationsAssumption
  <2>8. CASE ToCome(new, n) = {}
    <3>1. n \notin intents /\ actual[n] = {}
      BY <2>4, <2>8
    <3> QED
      BY <3>1, <2>8, <2>2, <2>5 DEF Covers
  <2>9. CASE ToCome(new, n) # {}
    <3>1. n \in intents \union {Device}
      BY <2>4, <2>9
    <3>2. new.snap[n] = ToCome(new, n) \ {None}
      BY <3>1, <2>4, <2>5, <2>7
    <3> QED
      BY <3>2, <2>6, <2>9 DEF Covers
  <2> QED
    BY <2>8, <2>9
<1> HIDE DEF L
<1> QED
  BY <1>1, <1>3, <1>4, <1>5, <1>6 DEF GoroutineInv

\* UPDATE moves a message from what is to come to what was received.
LEMMA UpdateKeeps ==
    ASSUME NEW g \in Goroutine, GoroutineInv(g), g.pc = "recv", g.left # None,
           NEW m \in g.left,
           NEW new,
           new = [g EXCEPT !.left = @ \ {m},
                           !.buf[m[1]] = IF g.started
                                         THEN (IF g.buf[m[1]] = None THEN {} ELSE g.buf[m[1]])
                                                \union ({m[2]} \ {None})
                                         ELSE @]
    PROVE  new \in Goroutine /\ GoroutineInv(new)
<1>0. g.left \in SUBSET Messages /\ g.buf \in [Names -> (SUBSET Paths) \union {None}]
  BY DEF Goroutine, Reports
<1>1. PICK k \in Names, q \in Paths \union {None} : m = <<k, q>>
  BY <1>0 DEF Messages
<1>2. g.started /\ g.call = None /\ g.pub = {}
  BY DEF GoroutineInv
<1>3. Received(g, k) \in SUBSET Paths /\ {q} \ {None} \in SUBSET Paths
  BY <1>0 DEF Received
<1> DEFINE B == [g.buf EXCEPT ![k] = Received(g, k) \union ({q} \ {None})]
<1>4. new = [g EXCEPT !.left = g.left \ {m}, !.buf = B]
  BY <1>1, <1>2 DEF Received, Goroutine
<1>5. B \in Reports
  BY <1>0, <1>3 DEF Reports
<1> HIDE DEF B
<1>6. new \in Goroutine
  <2>1. g.left \ {m} \in (SUBSET Messages) \union {None}
    BY <1>0
  <2> QED
    BY <2>1, <1>4, <1>5 DEF Goroutine
<1>7. /\ new.pc = "recv" /\ new.left = g.left \ {m} /\ new.mixed = g.mixed
      /\ new.snap = g.snap /\ new.call = g.call /\ new.pub = g.pub /\ new.started
      /\ new.buf = B
  BY <1>2, <1>4 DEF Goroutine
<1>8. new.left # None
  BY <1>0, <1>7, DeviationsAssumption
<1>9. ASSUME ~g.mixed, NEW n \in Names PROVE Covers(new, n)
  <2>1. Covers(g, n)
    BY <1>9 DEF GoroutineInv
  <2>2. CASE n # k
    <3>1. ToCome(new, n) = ToCome(g, n)
      BY <1>1, <1>7, <2>2 DEF ToCome
    <3>2. new.buf[n] = g.buf[n] /\ new.snap[n] = g.snap[n]
      BY <1>7, <2>2, <1>0 DEF B
    <3> QED
      BY <2>1, <3>1, <3>2 DEF Covers, Received
  <2>3. CASE n = k
    <3>1. ToCome(new, k) = ToCome(g, k) \ {q} /\ q \in ToCome(g, k)
      BY <1>1, <1>7 DEF ToCome
    <3>2. g.snap[k] = Received(g, k) \union (ToCome(g, k) \ {None})
      BY <2>1, <2>3, <3>1 DEF Covers
    <3>3. new.buf[k] = Received(g, k) \union ({q} \ {None}) /\ new.snap[k] = g.snap[k]
      BY <1>0, <1>7 DEF B
    <3>4. new.snap[k] = new.buf[k] \union (ToCome(new, k) \ {None})
      BY <3>1, <3>2, <3>3
    <3>5. CASE ToCome(new, k) = {}
      BY <2>3, <3>4, <3>5 DEF Covers
    <3>6. CASE ToCome(new, k) # {}
      <4>1. Received(new, k) = new.buf[k]
        BY <1>3, <3>3, DeviationsAssumption DEF Received
      <4> QED
        BY <2>3, <3>4, <3>6, <4>1 DEF Covers
    <3> QED
      BY <3>5, <3>6
  <2> QED
    BY <2>2, <2>3
<1> QED
  BY <1>2, <1>6, <1>7, <1>8, <1>9 DEF GoroutineInv

\* END: nothing is to come, so what was received is the report.
LEMMA EndKeeps ==
    ASSUME NEW g \in Goroutine, GoroutineInv(g), g.pc = "recv", g.left = {},
           NEW new,
           new = [g EXCEPT !.pc = "publish", !.left = None, !.started = FALSE,
                           !.pub = {n \in Names : g.buf[n] # None}]
    PROVE  new \in Goroutine /\ GoroutineInv(new)
<1>1. new \in Goroutine
  BY DEF Goroutine
<1>2. /\ new.pc = "publish" /\ new.left = None /\ new.mixed = g.mixed /\ ~new.started
      /\ new.snap = g.snap /\ new.call = g.call /\ new.buf = g.buf
      /\ new.pub = {n \in Names : g.buf[n] # None}
  BY DEF Goroutine
<1>3. g.left # None
  BY DeviationsAssumption
<1>4. g.call = None
  BY DEF GoroutineInv
<1>5. \A n \in new.pub : new.buf[n] \in SUBSET Paths
  BY <1>2 DEF Goroutine, Reports
<1>6. ~g.mixed => g.buf = g.snap
  <2> SUFFICES ASSUME ~g.mixed PROVE g.buf = g.snap
    OBVIOUS
  <2>1. \A n \in Names : Covers(g, n)
    BY <1>3 DEF GoroutineInv
  <2>2. \A n \in Names : g.buf[n] = g.snap[n]
    BY <2>1 DEF Covers, ToCome
  <2> QED
    BY <2>2 DEF Goroutine, Reports
<1> QED
  BY <1>1, <1>2, <1>4, <1>5, <1>6 DEF GoroutineInv

\* An Apply is sent.
LEMMA SendKeeps ==
    ASSUME NEW g \in Goroutine, GoroutineInv(g), g.pc = "publish", ~g.cancelled,
           NEW n \in g.pub,
           NEW new, new = [g EXCEPT !.call = n]
    PROVE  new \in Goroutine /\ GoroutineInv(new)
<1>1. new \in Goroutine
  BY DEF Goroutine
<1>2. /\ new.pc = g.pc /\ new.left = g.left /\ new.mixed = g.mixed /\ new.started = g.started
      /\ new.snap = g.snap /\ new.call = n /\ new.buf = g.buf /\ new.pub = g.pub
      /\ new.cancelled = g.cancelled
  BY DEF Goroutine
<1> QED
  BY <1>1, <1>2 DEF GoroutineInv

\* An Apply ends, executed or not.
LEMMA ApplyKeeps ==
    ASSUME NEW g \in Goroutine, GoroutineInv(g), g.call # None, ~g.cancelled,
           NEW new, new = [g EXCEPT !.call = None, !.pub = @ \ {g.call}]
    PROVE  new \in Goroutine /\ GoroutineInv(new)
<1>1. new \in Goroutine
  BY DEF Goroutine
<1>2. /\ new.pc = g.pc /\ new.left = g.left /\ new.mixed = g.mixed /\ new.started = g.started
      /\ new.snap = g.snap /\ new.call = None /\ new.buf = g.buf /\ new.pub = g.pub \ {g.call}
      /\ new.cancelled = g.cancelled
  BY DEF Goroutine
<1> QED
  BY <1>1, <1>2 DEF GoroutineInv

\* Everything is published.
LEMMA PublishedKeeps ==
    ASSUME NEW g \in Goroutine, GoroutineInv(g), g.pc = "publish", g.pub = {}, ~g.cancelled,
           NEW new,
           new = [g EXCEPT !.pc = "recv", !.buf = Unreported, !.snap = Unreported,
                           !.mixed = FALSE]
    PROVE  new \in Goroutine /\ GoroutineInv(new)
<1>1. new \in Goroutine
  BY DEF Goroutine, Unreported, Reports
<1>2. /\ new.pc = "recv" /\ new.left = g.left /\ new.started = g.started
      /\ new.call = g.call /\ new.pub = {}
  BY DEF Goroutine
<1>3. g.left = None /\ ~g.started /\ g.call = None
  BY DEF GoroutineInv
<1> QED
  BY <1>1, <1>2, <1>3 DEF GoroutineInv

\* Stop: what is left of the goroutine is at most the Apply under way.
LEMMA CancelKeeps ==
    ASSUME NEW g \in Goroutine, GoroutineInv(g)
    PROVE  /\ Cancelled(g) \in Goroutine /\ GoroutineInv(Cancelled(g))
           /\ Cancelled(g).pc \in {"dial", "recv", "publish"} => Cancelled(g).cancelled
<1>1. CASE g.call = None
  <2>1. Cancelled(g) = [NoWatcher EXCEPT !.pc = "dead"]
    BY <1>1 DEF Cancelled
  <2>2. [NoWatcher EXCEPT !.pc = "dead"].pc = "dead"
    BY DEF NoWatcher
  <2> QED
    BY <2>1, <2>2, IdleKeeps
<1>2. CASE g.call # None
  <2> DEFINE B == [Unreported EXCEPT ![g.call] = g.buf[g.call]]
  <2>1. g.call \in Names /\ g.buf[g.call] \in SUBSET Paths
    BY <1>2 DEF Goroutine, GoroutineInv
  <2>2. B \in Reports /\ B[g.call] = g.buf[g.call]
    BY <2>1 DEF Reports, Unreported
  <2>3. Cancelled(g) = [pc |-> "publish", cancelled |-> TRUE, started |-> FALSE, buf |-> B,
                        left |-> None, pub |-> {}, call |-> g.call, snap |-> Unreported,
                        mixed |-> FALSE]
    BY <1>2 DEF Cancelled, NoWatcher
  <2>4. Unreported \in Reports
    BY DEF Reports, Unreported
  <2> HIDE DEF B
  <2> QED
    BY <2>1, <2>2, <2>3, <2>4 DEF Goroutine, GoroutineInv
<1> QED
  BY <1>1, <1>2

-----------------------------------------------------------------------------
(* Every step keeps the invariant. *)

\* The invariant holds at the start.
LEMMA DevInit == Init => DevInv
<1> SUFFICES ASSUME Init PROVE DevInv
  OBVIOUS
<1>1. RunInv /\ BoundsInv
  <2>1. /\ target \in BOOLEAN /\ clearing = FALSE
        /\ watcher = 0 /\ starts = 0 /\ edits = 0 /\ faults = 0
    BY DEF Init
  <2>2. 0 \in 0..0 /\ 0 \in 0..MaxStarts /\ 0 \in 0..MaxEdits /\ 0 \in 0..MaxFaults
    BY DeviationsAssumption
  <2> QED
    BY <2>1, <2>2 DEF RunInv, BoundsInv
<1>2. StoreInv
  BY DEF Init, StoreInv
<1>3. NoWatcher \in Goroutine /\ GoroutineInv(NoWatcher) /\ NoWatcher.pc = "none"
  BY DeviationsAssumption DEF NoWatcher, Goroutine, GoroutineInv, Unreported, Reports
<1>4. WatchersInv
  BY <1>3 DEF Init, WatchersInv
<1>5. ObjectsInv
  BY DeviationsAssumption DEF Init, ObjectsInv, Object, Names
<1> QED
  BY <1>1, <1>2, <1>4, <1>5 DEF DevInv

\* A step of goroutine i that keeps its own invariant keeps that of them all.
LEMMA OnlyKeeps ==
    ASSUME DevInv, NEW i \in Watchers, w[i].pc # "none", NEW new, Only(i, new),
           new \in Goroutine, GoroutineInv(new),
           new.pc \in {"dial", "recv", "publish"} => i = watcher \/ new.cancelled
    PROVE  RunInv' /\ WatchersInv' /\ StoreInv' /\ edits' \in 0..MaxEdits
<1> USE DEF DevInv
<1>1. RunInv' /\ StoreInv' /\ edits' \in 0..MaxEdits
  BY DEF Only, RunInv, StoreInv, BoundsInv, runVars, dsVars
<1>2. WatchersInv'
  <2>1. w' = [w EXCEPT ![i] = new] /\ UNCHANGED <<starts, watcher>>
    BY DEF Only, runVars
  <2>2. ~(i > starts)
    BY DEF NoWatcher, WatchersInv
  <2> QED
    BY <2>1, <2>2 DEF WatchersInv
<1> QED
  BY <1>1, <1>2

\* A step of a goroutine that calls nobody.
LEMMA QuietStep ==
    ASSUME DevInv, NEW i \in Watchers, w[i].pc \in {"dial", "recv", "publish"},
           NEW new, Only(i, new),
           new \in Goroutine, GoroutineInv(new), new.cancelled = w[i].cancelled,
           UNCHANGED objs, faults' \in 0..MaxFaults
    PROVE  DevInv'
<1>1. i = watcher \/ w[i].cancelled
  BY DEF DevInv, WatchersInv
<1>2. RunInv' /\ WatchersInv' /\ StoreInv' /\ edits' \in 0..MaxEdits
  BY <1>1, OnlyKeeps
<1>3. ObjectsInv'
  BY DEF DevInv, ObjectsInv
<1> QED
  BY <1>2, <1>3 DEF DevInv, BoundsInv

\* An Apply that ends writes what was received of its Deviation.
LEMMA ApplyStep ==
    ASSUME DevInv, NEW i \in Watchers, ApplyEnds(i) PROVE DevInv'
<1> DEFINE n == w[i].call
           new == IF w[i].cancelled THEN [NoWatcher EXCEPT !.pc = "dead"]
                  ELSE [w[i] EXCEPT !.call = None, !.pub = @ \ {n}]
<1>1. w[i] \in Goroutine /\ GoroutineInv(w[i]) /\ n # None
  BY DEF DevInv, WatchersInv, ApplyEnds
<1>2. w[i].pc = "publish" /\ n \in Names /\ w[i].buf[n] \in SUBSET Paths
  BY <1>1 DEF Goroutine, GoroutineInv
<1>3. Only(i, new)
  BY DEF ApplyEnds
<1>4. /\ new \in Goroutine /\ GoroutineInv(new)
      /\ new.pc \in {"dial", "recv", "publish"} => i = watcher \/ new.cancelled
  <2>1. CASE w[i].cancelled
    <3>1. new = [NoWatcher EXCEPT !.pc = "dead"] /\ new.pc = "dead"
      BY <2>1 DEF NoWatcher
    <3> QED
      BY <3>1, IdleKeeps
  <2>2. CASE ~w[i].cancelled
    <3>1. new \in Goroutine /\ GoroutineInv(new)
      BY <1>1, <2>2, ApplyKeeps
    <3>2. i = watcher
      BY <1>2, <2>2 DEF DevInv, WatchersInv
    <3> QED
      BY <3>1, <3>2
  <2> QED
    BY <2>1, <2>2
<1>5. RunInv' /\ WatchersInv' /\ StoreInv' /\ edits' \in 0..MaxEdits
  <2> HIDE DEF new
  <2> QED
    BY <1>2, <1>3, <1>4, OnlyKeeps
<1>6. faults' \in 0..MaxFaults
  BY FaultType DEF ApplyEnds, DevInv, BoundsInv
<1>8. ObjectsInv'
  <2>1. CASE UNCHANGED objs
    BY <2>1 DEF DevInv, ObjectsInv
  <2>2. CASE objs' = [objs EXCEPT ![n] = [dev |-> w[i].buf[n],
                                          owned |-> objs[n] # None /\ objs[n].owned]]
    <3>1. objs \in [Names -> Object \union {None}]
      BY DEF DevInv, ObjectsInv
    <3>2. (objs[n] # None /\ objs[n].owned) \in BOOLEAN
      BY <1>2, <3>1 DEF Object
    <3>3. objs' \in [Names -> Object \union {None}]
      BY <1>2, <2>2, <3>1, <3>2 DEF Object
    <3> QED
      BY <3>3 DEF ObjectsInv
  <2> QED
    BY <2>1, <2>2 DEF ApplyEnds
<1> QED
  BY <1>5, <1>6, <1>8 DEF DevInv, BoundsInv

\* A step of a goroutine, its stream that breaks included.
LEMMA GoroutineStep ==
    ASSUME DevInv, NEW i \in Watchers, WatcherStep(i) \/ Broken(i) PROVE DevInv'
<1> DEFINE g == w[i]
<1>1. g \in Goroutine /\ GoroutineInv(g)
  BY DEF DevInv, WatchersInv
<1>2. faults \in 0..MaxFaults
  BY DEF DevInv, BoundsInv
<1>3. CASE Opened(i)
  <2> DEFINE new == [g EXCEPT !.pc = "recv"]
  <2>1. g.pc = "dial" /\ Only(i, new) /\ UNCHANGED <<objs, faults>>
    BY <1>3 DEF Opened
  <2>2. new \in Goroutine /\ GoroutineInv(new) /\ new.cancelled = g.cancelled
    BY <1>1, <2>1, OpenedKeeps DEF Goroutine
  <2> HIDE DEF new
  <2> QED
    BY <1>2, <2>1, <2>2, QuietStep
<1>4. CASE RecvStart(i)
  <2> DEFINE new == [g EXCEPT !.started = TRUE,
                     !.buf = IF g.started THEN @ ELSE [Unreported EXCEPT ![Device] = {}],
                     !.left = (intents \X {None})
                                \union {m \in Names \X Paths : m[2] \in actual[m[1]]},
                     !.snap = Report]
  <2>1. g.pc = "recv" /\ g.left = None /\ Only(i, new) /\ UNCHANGED <<objs, faults>>
    BY <1>4 DEF RecvStart
  <2>2. /\ intents \subseteq Configs /\ actual \in [Names -> SUBSET Paths]
        /\ \A n \in Names : n \notin intents \union {Device} => actual[n] = {}
    BY DEF DevInv, StoreInv
  <2>3. new \in Goroutine /\ GoroutineInv(new)
    BY <1>1, <2>1, <2>2, StartKeeps
  <2>4. new.cancelled = g.cancelled
    BY <1>1 DEF Goroutine
  <2> HIDE DEF new
  <2> QED
    BY <1>2, <2>1, <2>3, <2>4, QuietStep
<1>5. ASSUME NEW m \in Messages, RecvUpdate(i, m) PROVE DevInv'
  <2> DEFINE new == [g EXCEPT !.left = @ \ {m},
                     !.buf[m[1]] = IF g.started
                                   THEN (IF g.buf[m[1]] = None THEN {} ELSE g.buf[m[1]])
                                          \union ({m[2]} \ {None})
                                   ELSE @]
  <2>1. /\ g.pc = "recv" /\ g.left # None /\ m \in g.left
        /\ Only(i, new) /\ UNCHANGED <<objs, faults>>
    BY <1>5 DEF RecvUpdate
  <2>2. new \in Goroutine /\ GoroutineInv(new)
    BY <1>1, <2>1, UpdateKeeps
  <2>3. new.cancelled = g.cancelled
    BY <1>1 DEF Goroutine
  <2> HIDE DEF new
  <2> QED
    BY <1>2, <2>1, <2>2, <2>3, QuietStep
<1>6. CASE RecvEnd(i)
  <2> DEFINE new == [g EXCEPT !.pc = "publish", !.left = None, !.started = FALSE,
                     !.pub = {n \in Names : g.buf[n] # None}]
  <2>1. g.pc = "recv" /\ g.left = {} /\ Only(i, new) /\ UNCHANGED <<objs, faults>>
    BY <1>6 DEF RecvEnd
  <2>2. new \in Goroutine /\ GoroutineInv(new) /\ new.cancelled = g.cancelled
    BY <1>1, <2>1, EndKeeps DEF Goroutine
  <2> HIDE DEF new
  <2> QED
    BY <1>2, <2>1, <2>2, QuietStep
<1>7. CASE Broken(i)
  <2> DEFINE new == [g EXCEPT !.pc = "dial", !.left = None, !.mixed = @ \/ g.started]
  <2>1. g.pc = "recv" /\ Only(i, new) /\ Fault /\ UNCHANGED objs
    BY <1>7 DEF Broken
  <2>2. new \in Goroutine /\ GoroutineInv(new) /\ new.cancelled = g.cancelled
    BY <1>1, <2>1, BrokenKeeps DEF Goroutine
  <2> HIDE DEF new
  <2> QED
    BY <1>2, <2>1, <2>2, QuietStep, FaultType
<1>8. ASSUME NEW n \in Names, SendApply(i, n) PROVE DevInv'
  <2> DEFINE new == [g EXCEPT !.call = n]
  <2>1. /\ g.pc = "publish" /\ ~g.cancelled /\ n \in g.pub
        /\ Only(i, new) /\ UNCHANGED <<objs, faults>>
    BY <1>8 DEF SendApply
  <2>2. new \in Goroutine /\ GoroutineInv(new) /\ new.cancelled = g.cancelled
    BY <1>1, <2>1, SendKeeps DEF Goroutine
  <2> HIDE DEF new
  <2> QED
    BY <1>2, <2>1, <2>2, QuietStep
<1>9. CASE PublishEnds(i)
  <2> DEFINE new == [g EXCEPT !.pc = "recv", !.buf = Unreported, !.snap = Unreported,
                     !.mixed = FALSE]
  <2>1. /\ g.pc = "publish" /\ ~g.cancelled /\ g.pub = {}
        /\ Only(i, new) /\ UNCHANGED <<objs, faults>>
    BY <1>9 DEF PublishEnds
  <2>2. new \in Goroutine /\ GoroutineInv(new) /\ new.cancelled = g.cancelled
    BY <1>1, <2>1, PublishedKeeps DEF Goroutine
  <2> HIDE DEF new
  <2> QED
    BY <1>2, <2>1, <2>2, QuietStep
<1> QED
  BY <1>3, <1>4, <1>5, <1>6, <1>7, <1>8, <1>9, ApplyStep DEF WatcherStep
-----------------------------------------------------------------------------
(* The run loop, the users and the objects. *)

\* Starting and stopping a watcher.
LEMMA RunLoopStep ==
    ASSUME DevInv, EnsureRuntime \/ StopClears \/ StopCancels \/ Crash \/ TargetGone
    PROVE  DevInv'
<1>1. CASE EnsureRuntime
  <2>1. starts' = starts + 1 /\ watcher' = starts + 1 /\ starts' \in Watchers /\ watcher = 0
    BY <1>1, DeviationsAssumption DEF EnsureRuntime, DevInv, RunInv, Watchers
  <2>2. ~clearing /\ UNCHANGED <<target, clearing, dsVars, objs, edits, faults>>
    BY <1>1, <2>1 DEF EnsureRuntime, DevInv, RunInv
  <2>3. RunInv'
    BY <2>1, <2>2, DeviationsAssumption DEF DevInv, RunInv, Watchers
  <2>4. w' = [w EXCEPT ![starts'] = [NoWatcher EXCEPT !.pc = "dial"]]
    <3>1. w[starts'] = NoWatcher
      BY <2>1 DEF DevInv, WatchersInv, RunInv
    <3> QED
      BY <1>1, <2>1, <3>1 DEF EnsureRuntime, DevInv, WatchersInv
  <2>5. [NoWatcher EXCEPT !.pc = "dial"] \in Goroutine
        /\ GoroutineInv([NoWatcher EXCEPT !.pc = "dial"])
    BY IdleKeeps
  <2>6. \A j \in Watchers : w[j].pc \in {"dial", "recv", "publish"} => w[j].cancelled
    BY <2>1, DeviationsAssumption DEF DevInv, WatchersInv, Watchers
  <2>7. \A j \in Watchers : j > starts' => j > starts /\ j # starts'
    BY <2>1, DeviationsAssumption DEF DevInv, RunInv, Watchers
  <2>8. w' \in [Watchers -> Goroutine] /\ \A j \in Watchers : GoroutineInv(w'[j])
    BY <2>1, <2>4, <2>5 DEF DevInv, WatchersInv
  <2>9. WatchersInv'
    BY <2>1, <2>4, <2>6, <2>7, <2>8 DEF DevInv, WatchersInv
  <2>10. ObjectsInv'
    BY <2>2 DEF DevInv, ObjectsInv
  <2> QED
    BY <2>2, <2>3, <2>9, <2>10 DEF DevInv, StoreInv, BoundsInv, dsVars
<1>2. CASE StopClears
  <2>1. /\ UNCHANGED <<target, watcher, starts, w, configs, intents, actual, edits>>
        /\ watcher # 0 /\ clearing'
    BY <1>2 DEF StopClears, dsVars
  <2>2. RunInv' /\ WatchersInv' /\ StoreInv'
    BY <2>1 DEF DevInv, RunInv, WatchersInv, StoreInv
  <2>3. BoundsInv'
    BY <1>2, <2>1, FaultType DEF StopClears, DevInv, BoundsInv
  <2>4. ObjectsInv'
    <3>1. objs \in [Names -> Object \union {None}] /\ Device \in Names
      BY DEF DevInv, ObjectsInv, Names
    <3>2. CASE objs' = objs
      BY <3>1, <3>2 DEF ObjectsInv
    <3>3. CASE objs[Device] # None /\ objs' = [objs EXCEPT ![Device].dev = {}]
      <4>1. [objs[Device] EXCEPT !.dev = {}] \in Object
        BY <3>1, <3>3 DEF Object
      <4> QED
        BY <3>1, <3>3, <4>1 DEF ObjectsInv
    <3> QED
      BY <1>2, <3>2, <3>3 DEF StopClears
  <2> QED
    BY <2>2, <2>3, <2>4 DEF DevInv
<1>3. CASE StopCancels
  <2>1. /\ clearing /\ clearing' = FALSE /\ watcher' = 0
        /\ w' = [w EXCEPT ![watcher] = Cancelled(w[watcher])]
        /\ UNCHANGED <<target, starts, configs, intents, actual, objs, edits, faults>>
    BY <1>3 DEF StopCancels, dsVars, DevInv, WatchersInv
  <2>2. watcher \in Watchers /\ watcher <= starts /\ watcher # 0
    BY <2>1, DeviationsAssumption DEF DevInv, RunInv, Watchers
  <2>3. RunInv' /\ StoreInv' /\ BoundsInv' /\ ObjectsInv'
    <3>1. RunInv'
      <4>1. 0 \in 0..starts
        BY DEF DevInv, RunInv
      <4> QED
        BY <2>1, <4>1 DEF DevInv, RunInv
    <3> QED
      BY <2>1, <3>1 DEF DevInv, StoreInv, BoundsInv, ObjectsInv
  <2>4. w[watcher] \in Goroutine /\ GoroutineInv(w[watcher])
    BY <2>2 DEF DevInv, WatchersInv
  <2> DEFINE new == Cancelled(w[watcher])
  <2>5. /\ new \in Goroutine /\ GoroutineInv(new)
        /\ new.pc \in {"dial", "recv", "publish"} => new.cancelled
    BY <2>4, CancelKeeps
  <2> HIDE DEF new
  <2>6. ~(watcher > starts)
    BY <2>2 DEF DevInv, RunInv
  <2>7. w' = [w EXCEPT ![watcher] = new]
    BY <2>1 DEF new
  <2>8. WatchersInv'
    <3>1. w' \in [Watchers -> Goroutine] /\ \A j \in Watchers : GoroutineInv(w'[j])
      BY <2>2, <2>5, <2>7 DEF DevInv, WatchersInv
    <3>2. \A j \in Watchers : j > starts' => w'[j] = NoWatcher
      BY <2>1, <2>2, <2>6, <2>7 DEF DevInv, WatchersInv
    <3>3. \A j \in Watchers : w'[j].pc \in {"dial", "recv", "publish"} => w'[j].cancelled
      BY <2>2, <2>5, <2>7 DEF DevInv, WatchersInv
    <3> QED
      BY <3>1, <3>2, <3>3 DEF WatchersInv
  <2> QED
    BY <2>3, <2>8 DEF DevInv
<1>4. CASE TargetGone
  <2>1. BoundsInv'
    BY <1>4, EditType DEF TargetGone, DevInv, BoundsInv
  <2> QED
    BY <1>4, <2>1 DEF TargetGone, DevInv, RunInv, WatchersInv, StoreInv, ObjectsInv, dsVars
<1>5. CASE Crash
  <2>1. /\ clearing' = FALSE /\ watcher' = 0
        /\ UNCHANGED <<target, starts, configs, intents, actual, objs, edits>>
    BY <1>5 DEF Crash, dsVars
  <2>2. RunInv' /\ StoreInv' /\ ObjectsInv'
    <3>1. 0 \in 0..starts
      BY DeviationsAssumption DEF DevInv, RunInv
    <3> QED
      BY <2>1, <3>1 DEF DevInv, RunInv, StoreInv, ObjectsInv
  <2>3. BoundsInv'
    BY <1>5, <2>1, FaultType DEF Crash, DevInv, BoundsInv
  <2>4. ASSUME NEW j \in Watchers
        PROVE  /\ w'[j] \in Goroutine /\ GoroutineInv(w'[j])
               /\ w'[j].pc \in {"dial", "recv", "publish"} => w'[j].cancelled
               /\ j > starts => w'[j] = NoWatcher
    <3>1. w[j] \in Goroutine /\ GoroutineInv(w[j]) /\ (j > starts => w[j] = NoWatcher)
      BY DEF DevInv, WatchersInv
    <3>2. CASE w[j].pc \in {"dial", "recv", "publish"}
      <4>1. w'[j] = Cancelled(w[j]) /\ ~(j > starts)
        BY <1>5, <3>1, <3>2 DEF Crash, NoWatcher
      <4> QED
        BY <3>1, <4>1, CancelKeeps
    <3>3. CASE w[j].pc \notin {"dial", "recv", "publish"}
      <4>1. w'[j] = w[j]
        BY <1>5, <3>3 DEF Crash
      <4> QED
        BY <3>1, <3>3, <4>1
    <3> QED
      BY <3>2, <3>3
  <2>5. WatchersInv'
    <3>1. w' = [j \in Watchers |-> w'[j]]
      BY <1>5 DEF Crash
    <3> QED
      BY <2>1, <2>4, <3>1 DEF WatchersInv
  <2> QED
    BY <2>2, <2>3, <2>5 DEF DevInv
<1> QED
  BY <1>1, <1>2, <1>3, <1>4, <1>5

\* A step of the users, the transactor or the device, with its data of the right kind.
LEMMA StoreStep ==
    ASSUME DevInv, StoreInv', edits' \in 0..MaxEdits, UNCHANGED <<runVars, w, objs, faults>>
    PROVE  DevInv'
  BY DEF DevInv, RunInv, WatchersInv, BoundsInv, ObjectsInv, runVars

\* A step of somebody else that gives one object another value.
LEMMA ObjectStep ==
    ASSUME DevInv, NEW n \in Names, NEW o \in Object \union {None},
           objs' = [objs EXCEPT ![n] = o], UNCHANGED <<runVars, w, dsVars, edits, faults>>
    PROVE  DevInv'
<1>1. RunInv' /\ WatchersInv' /\ StoreInv' /\ BoundsInv'
  BY DEF DevInv, RunInv, WatchersInv, StoreInv, BoundsInv, runVars, dsVars
<1>2. ObjectsInv'
  BY DEF DevInv, ObjectsInv, runVars, Names
<1> QED
  BY <1>1, <1>2 DEF DevInv

\* What users and the transactor do to Configs and intents, and the device.
LEMMA ConfigsStep ==
    ASSUME DevInv,
           \/ \E c \in Configs : CreateConfig(c) \/ SetIntent(c) \/ RemoveConfig(c)
           \/ \E n \in Names, S \in SUBSET Paths : Deviate(n, S)
    PROVE  DevInv'
<1>0. StoreInv /\ edits \in 0..MaxEdits
  BY DEF DevInv, BoundsInv
<1>1. ASSUME NEW c \in Configs, CreateConfig(c) PROVE DevInv'
  <2>1. StoreInv'
    BY <1>0, <1>1 DEF CreateConfig, StoreInv
  <2> QED
    BY <1>0, <1>1, <2>1, StoreStep, EditType DEF CreateConfig
<1>2. ASSUME NEW c \in Configs, SetIntent(c) PROVE DevInv'
  <2>1. StoreInv'
    BY <1>0, <1>2 DEF SetIntent, StoreInv
  <2> QED
    BY <1>0, <1>2, <2>1, StoreStep DEF SetIntent
<1>3. ASSUME NEW c \in Configs, RemoveConfig(c) PROVE DevInv'
  <2>1. c \in Names
    BY DEF Names
  <2>2. StoreInv'
    BY <1>0, <1>3, <2>1 DEF RemoveConfig, StoreInv
  <2> QED
    BY <1>0, <1>3, <2>2, StoreStep, EditType DEF RemoveConfig
<1>4. ASSUME NEW n \in Names, NEW S \in SUBSET Paths, Deviate(n, S) PROVE DevInv'
  <2>1. StoreInv'
    BY <1>0, <1>4 DEF Deviate, StoreInv
  <2> QED
    BY <1>0, <1>4, <2>1, StoreStep, EditType DEF Deviate
<1> QED
  BY <1>1, <1>2, <1>3, <1>4

\* Who else makes or removes a Deviation.
LEMMA ObjectsStep ==
    ASSUME DevInv,
           \/ \E c \in Configs : ApplyDeviation(c)
           \/ DiscoveryApplies \/ DiscoveryPrunes
           \/ \E n \in Names : Collect(n)
    PROVE  DevInv'
<1> DEFINE fresh == [dev |-> {}, owned |-> TRUE]
<1>1. fresh \in Object \union {None}
  BY DEF Object
<1>2. Configs \subseteq Names /\ Device \in Names
  BY DEF Names
<1> HIDE DEF fresh
<1>3. ASSUME NEW c \in Configs, ApplyDeviation(c) PROVE DevInv'
  BY <1>1, <1>2, <1>3, ObjectStep DEF ApplyDeviation, fresh
<1>4. CASE DiscoveryApplies
  BY <1>1, <1>2, <1>4, ObjectStep DEF DiscoveryApplies, fresh
<1>5. ASSUME NEW n \in Names, Removed(n) PROVE DevInv'
  BY <1>1, <1>5, ObjectStep DEF Removed
<1> QED
  BY <1>2, <1>3, <1>4, <1>5 DEF DiscoveryPrunes, Collect

\* Every step keeps the invariant.
LEMMA DevStep == DevInv /\ [Next]_vars => DevInv'
<1> SUFFICES ASSUME DevInv, [Next]_vars PROVE DevInv'
  OBVIOUS
<1>1. CASE UNCHANGED vars
  BY <1>1 DEF vars, runVars, dsVars, DevInv, RunInv, WatchersInv, StoreInv, BoundsInv, ObjectsInv
<1>2. CASE Next
  BY <1>2, RunLoopStep, GoroutineStep, ConfigsStep, ObjectsStep DEF Next
<1> QED
  BY <1>1, <1>2

\* The inductive invariant holds of every behaviour: whole reports up to what is to
\* come, and one goroutine that is not cancelled.
THEOREM DeviationsInvariant == Spec => []DevInv
<1> QED
  BY DevInit, DevStep, PTL DEF Spec

\* The types hold always; a goroutine that works is the run loop's or cancelled.
THEOREM DeviationsTypes == Spec => []DeviationsTypeOK
<1>1. DevInv => DeviationsTypeOK
  BY DEF DevInv, RunInv, WatchersInv, StoreInv, BoundsInv, ObjectsInv, DeviationsTypeOK,
         Goroutine, Object
<1> QED
  BY <1>1, DeviationsInvariant, PTL

\* What processDeviations publishes is one report of the data-server, whole, unless a
\* stream broke between its START and its END.
THEOREM PublishedReportIsWhole == Spec => []ReportIsWhole
<1>1. DevInv => ReportIsWhole
  BY DEF DevInv, WatchersInv, GoroutineInv, ReportIsWhole
<1> QED
  BY <1>1, DeviationsInvariant, PTL
=============================================================================
