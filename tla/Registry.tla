------------------------------ MODULE Registry ------------------------------
(***************************************************************************)
(* The aggregated API server's storage of one resource                     *)
(* (src/pkg/registry/generic): the collection-wide resourceVersion counter,*)
(* the writes that take versions from it, and the lists and watches that   *)
(* clients build a cache from.                                             *)
(*                                                                         *)
(* A write runs under the counter's mutex and has two visible halves: the  *)
(* object is in storage (lists, which take no lock, see it) and, later,    *)
(* the counter has advanced and the event is in the hands of the watcher   *)
(* manager.  The manager (external) passes one event at a time to every    *)
(* registered watcher.  The client is client-go's reflector (external): it *)
(* lists and then watches from the list's version, or watches with         *)
(* sendInitialEvents; after a break it resumes from the last version seen. *)
(***************************************************************************)
EXTENDS Naturals, Sequences, FiniteSetsExt

CONSTANTS
    Objects,        \* keys of the collection
    Clients,        \* watch clients
    MaxVersion,     \* bound on the resourceVersion counter
    MaxFaults,      \* bound on restarts and broken connections together
    QueueSize,      \* watchQueueSize
    None            \* no object

ASSUME RegistryAssumption ==
    /\ MaxVersion \in Nat /\ MaxFaults \in Nat /\ QueueSize \in Nat \ {0}
    /\ None \notin Nat

VARIABLES
    store,          \* [Objects -> None or the stored object's version]
    current,        \* rvAllocator.current
    ready,          \* rvAllocator.once has run
    lock,           \* << >>, or the event of the write that holds rvAllocator.mu
    bus,            \* << >>, or the event the watcher manager is distributing
    phase,          \* [Clients -> where the list or watch request is]
    todo,           \* [Clients -> objects the storage iteration has not reached]
    start,          \* [Clients -> starting point of the watch]
    queue,          \* [Clients -> watcher.queue]
    cancelled,      \* [Clients -> the watch's context is cancelled]
    bookmark,       \* [Clients -> the watch was asked for with sendInitialEvents]
    cache,          \* [Clients -> [Objects -> None or version]]
    seen,           \* [Clients -> version the client resumes from]
    life,           \* ghost: number of restarts so far
    synced,         \* ghost: [Clients -> life the client's full state is from, or
                    \*         None if it was completed by a watch from version 0]
    misread,        \* ghost: an initialisation of the counter failed to list
    rewound,        \* ghost: a restart lost versions that only deletes carried
    faults          \* restarts and broken connections so far

server == <<store, current, ready, lock, bus>>
watches == <<phase, todo, start, queue, cancelled, bookmark>>
clients == <<cache, seen, synced>>
vars == <<server, watches, clients, life, misread, rewound, faults>>

Version == 0..MaxVersion
Event == [obj : Objects, rv : Version, gone : BOOLEAN]

\* The phases between which a client's request can be interrupted.  "list" and
\* "resume" are the client's two ways to go on: from nothing, and from seen.
Phase == {"list", "listing", "listed", "resume", "registered",
          "initial", "collecting", "collected", "stream"}

TypeOK ==
    /\ store \in [Objects -> Version \union {None}]
    /\ current \in Version /\ ready \in BOOLEAN
    /\ lock \in {<<>>} \union {<<e>> : e \in Event}
    /\ bus \in {<<>>} \union {<<e>> : e \in Event}
    /\ phase \in [Clients -> Phase]
    /\ todo \in [Clients -> SUBSET Objects]
    /\ start \in [Clients -> Version]
    /\ queue \in [Clients -> Seq(Event)]
    /\ \A c \in Clients : Len(queue[c]) <= QueueSize
    /\ cancelled \in [Clients -> BOOLEAN] /\ bookmark \in [Clients -> BOOLEAN]
    /\ cache \in [Clients -> [Objects -> Version \union {None}]]
    /\ seen \in [Clients -> Version]
    /\ synced \in [Clients -> 0..MaxFaults \union {None}]
    /\ life \in 0..MaxFaults /\ faults \in 0..MaxFaults
    /\ misread \in BOOLEAN /\ rewound \in BOOLEAN

Stored == {o \in Objects : store[o] # None}

Highest(S) == Max({0} \union {store[o] : o \in S})

Empty == [o \in Objects |-> None]

\* The process starts with what storage holds and no client.  The first life
\* starts with an empty collection.
Init ==
    /\ store = Empty
    /\ current = 0 /\ ready = FALSE
    /\ lock = <<>> /\ bus = <<>>
    /\ phase = [c \in Clients |-> "list"]
    /\ todo = [c \in Clients |-> {}]
    /\ start = [c \in Clients |-> 0]
    /\ queue = [c \in Clients |-> <<>>]
    /\ cancelled = [c \in Clients |-> FALSE] /\ bookmark = [c \in Clients |-> FALSE]
    /\ cache = [c \in Clients |-> Empty]
    /\ seen = [c \in Clients |-> 0]
    /\ synced = [c \in Clients |-> 0]
    /\ life = 0 /\ misread = FALSE /\ rewound = FALSE /\ faults = 0

-----------------------------------------------------------------------------
(* The counter and the writes. *)

\* Mutant: the counter starts from 0 in every life.
InitRVFromZero ==
    /\ ~ready /\ ready' = TRUE
    /\ current' = 0
    /\ UNCHANGED <<store, lock, bus, watches, clients, life, misread, rewound, faults>>

\* ensureInit: the highest version among the objects the iteration visited.
\* A failing List leaves the objects it did not reach out, and is not retried.
InitRV ==
    /\ ~ready
    /\ \E visited \in SUBSET Stored :
        /\ current' = Highest(visited)
        /\ misread' = (misread \/ visited # Stored)
    /\ ready' = TRUE
    /\ UNCHANGED <<store, lock, bus, watches, clients, life, rewound, faults>>

\* rvAllocator.write, first half: the object goes to storage with the next
\* version.  A storage error returns with nothing changed.
WriteStore(o, object, event) ==
    /\ ready /\ lock = <<>>
    /\ current < MaxVersion
    /\ store' = [store EXCEPT ![o] = object]
    /\ lock' = <<event>>
    /\ UNCHANGED <<current, ready, bus, watches, clients, life, misread, rewound, faults>>

\* strategy.Create, strategy.Update and statusStrategy.Update (of an object
\* that changed: IsEqual returns before the write).
CreateOrUpdate(o) ==
    WriteStore(o, current + 1, [obj |-> o, rv |-> current + 1, gone |-> FALSE])

\* strategy.Delete: only the event carries the new version.
Delete(o) ==
    /\ store[o] # None
    /\ WriteStore(o, None, [obj |-> o, rv |-> current + 1, gone |-> TRUE])

\* rvAllocator.write, second half: the counter advances and the event is handed
\* to the watcher manager, still under the lock.
Publish ==
    /\ lock # <<>> /\ bus = <<>>
    /\ current' = lock[1].rv
    /\ bus' = lock
    /\ lock' = <<>>
    /\ UNCHANGED <<store, ready, watches, clients, life, misread, rewound, faults>>

\* Phases in which the client's watcher is registered with the manager.
Registered == {"registered", "initial", "collecting", "collected", "stream"}

\* Mutant: an event that does not fit the queue is skipped.
DistributeSkips ==
    /\ bus # <<>> /\ bus' = <<>>
    /\ queue' = [c \in Clients |->
                    IF phase[c] \in Registered /\ Len(queue[c]) < QueueSize
                    THEN queue[c] \o bus ELSE queue[c]]
    /\ UNCHANGED <<store, current, ready, lock, phase, todo, start, cancelled, bookmark,
                   clients, life, misread, rewound, faults>>

\* watcher.OnChange for every registered watcher: a full queue cancels the
\* watch, and the manager drops a watcher whose OnChange returned false.
Distribute ==
    LET to == {c \in Clients : phase[c] \in Registered /\ ~cancelled[c]}
        full == {c \in to : Len(queue[c]) = QueueSize}
    IN  /\ bus # <<>>
        /\ bus' = <<>>
        /\ queue' = [c \in Clients |->
                        IF c \in to \ full THEN queue[c] \o bus ELSE queue[c]]
        /\ cancelled' = [c \in Clients |-> cancelled[c] \/ c \in full]
        /\ UNCHANGED <<store, current, ready, lock, phase, todo, start, bookmark, clients,
                       life, misread, rewound, faults>>

-----------------------------------------------------------------------------
(* List. *)

\* rvAllocator.Current: the lock is free and the counter initialised.
CurrentKnown == ready /\ lock = <<>>

\* strategy.List reads the version first and then iterates over storage.
ListBegin(c) ==
    /\ phase[c] = "list" /\ CurrentKnown
    /\ seen' = [seen EXCEPT ![c] = current]
    /\ synced' = [synced EXCEPT ![c] = life]
    /\ cache' = [cache EXCEPT ![c] = Empty]
    /\ phase' = [phase EXCEPT ![c] = "listing"]
    /\ todo' = [todo EXCEPT ![c] = Objects]
    /\ UNCHANGED <<server, start, queue, cancelled, bookmark, life, misread, rewound, faults>>

\* One object of the iteration of strategy.List, or of the initial state of a
\* watch: writes go on between two of them.
Visit(c, o) ==
    /\ phase[c] \in {"listing", "collecting"} /\ o \in todo[c]
    /\ cache' = [cache EXCEPT ![c][o] = IF store[o] = None THEN @ ELSE store[o]]
    /\ todo' = [todo EXCEPT ![c] = @ \ {o}]
    /\ phase' = [phase EXCEPT ![c] =
                    IF todo[c] # {o} THEN @
                    ELSE IF @ = "listing" THEN "listed" ELSE "collected"]
    /\ UNCHANGED <<server, start, queue, cancelled, bookmark, seen, synced,
                   life, misread, rewound, faults>>

-----------------------------------------------------------------------------
(* Watch: watcher.listAndWatch. *)

\* The watcher of a request that ended is gone with its queue.
Discard(c) ==
    /\ start' = [start EXCEPT ![c] = 0]
    /\ queue' = [queue EXCEPT ![c] = <<>>]
    /\ cancelled' = [cancelled EXCEPT ![c] = FALSE]
    /\ todo' = [todo EXCEPT ![c] = {}]
    /\ bookmark' = [bookmark EXCEPT ![c] = FALSE]

\* The watcher registers with the manager before it reads the version.
\* From "list" the client asks for the initial events (watch-list); after a
\* list or a broken watch it gives the version to resume from, and "0" makes the
\* server send the initial state too, without a bookmark at its end.
Register(c) ==
    /\ phase[c] \in {"list", "listed", "resume"}
    /\ bookmark' = [bookmark EXCEPT ![c] = phase[c] = "list"]
    /\ IF bookmark'[c] \/ seen[c] = 0
       THEN /\ phase' = [phase EXCEPT ![c] = "initial"]
            /\ cache' = [cache EXCEPT ![c] = IF bookmark'[c] THEN Empty ELSE @]
            /\ synced' = [synced EXCEPT ![c] = IF bookmark'[c] THEN life ELSE None]
       ELSE /\ phase' = [phase EXCEPT ![c] = "registered"]
            /\ UNCHANGED <<cache, synced>>
    /\ UNCHANGED <<server, todo, start, queue, cancelled, seen, life, misread, rewound, faults>>

\* A version that is not the current one is answered with 410 Gone, and the
\* client lists again.
Resume(c) ==
    /\ phase[c] = "registered" /\ CurrentKnown
    /\ IF seen[c] = current
       THEN /\ phase' = [phase EXCEPT ![c] = "stream"]
            /\ start' = [start EXCEPT ![c] = current]
            /\ UNCHANGED <<todo, queue, cancelled, bookmark>>
       ELSE /\ phase' = [phase EXCEPT ![c] = "list"]
            /\ Discard(c)
    /\ UNCHANGED <<server, clients, life, misread, rewound, faults>>

StartInitial(c) ==
    /\ phase[c] = "initial" /\ CurrentKnown
    /\ start' = [start EXCEPT ![c] = current]
    /\ phase' = [phase EXCEPT ![c] = "collecting"]
    /\ todo' = [todo EXCEPT ![c] = Objects]
    /\ UNCHANGED <<server, queue, cancelled, bookmark, clients, life, misread, rewound, faults>>

\* The collected objects reach the client, and the bookmark that ends them if it
\* asked for one.  The client takes its version from the last of what it got.
SendInitial(c) ==
    /\ phase[c] = "collected"
    /\ \E v \in {seen[c]} \union {cache[c][o] : o \in Objects} :
        /\ v # None
        /\ seen' = [seen EXCEPT ![c] = IF bookmark[c] THEN start[c] ELSE v]
    /\ phase' = [phase EXCEPT ![c] = "stream"]
    /\ UNCHANGED <<server, todo, start, queue, cancelled, bookmark, cache, synced,
                   life, misread, rewound, faults>>

\* An event is passed on unless the starting point covers it.
Passes(c, e) == e.rv > start[c]

\* One turn of the loop of listAndWatch.  A cancelled loop may still find its
\* queue ready and send: select picks any ready case.
Stream(c) ==
    LET e == Head(queue[c])
    IN  /\ phase[c] = "stream" /\ queue[c] # <<>>
        /\ queue' = [queue EXCEPT ![c] = Tail(@)]
        /\ IF Passes(c, e)
           THEN /\ cache' = [cache EXCEPT ![c][e.obj] = IF e.gone THEN None ELSE e.rv]
                /\ seen' = [seen EXCEPT ![c] = e.rv]
           ELSE UNCHANGED <<cache, seen>>
        /\ UNCHANGED <<server, phase, todo, start, cancelled, bookmark, synced,
                       life, misread, rewound, faults>>

\* Where a client goes whose request ended early: a watch that had its initial
\* state is resumed, anything else begins again.
Interrupted(c) ==
    CASE phase[c] \in {"listing", "initial", "collecting", "collected"} -> "list"
      [] phase[c] \in {"registered", "stream"} -> "resume"
      [] OTHER -> phase[c]

\* Mutant: the loop does not look at its context.
CloseUnsent(c) ==
    /\ phase[c] = "collected" /\ cancelled[c]
    /\ phase' = [phase EXCEPT ![c] = Interrupted(c)]
    /\ Discard(c)
    /\ UNCHANGED <<server, clients, life, misread, rewound, faults>>

\* The loop sees its context cancelled and closes the result channel.
Close(c) ==
    /\ phase[c] \in {"collected", "stream"} /\ cancelled[c]
    /\ phase' = [phase EXCEPT ![c] = Interrupted(c)]
    /\ Discard(c)
    /\ UNCHANGED <<server, clients, life, misread, rewound, faults>>

-----------------------------------------------------------------------------
(* Faults. *)

\* The connection of a request breaks, or the client ends it.
Disconnect(c) ==
    /\ faults < MaxFaults /\ faults' = faults + 1
    /\ phase[c] \notin {"list", "listed", "resume"}
    /\ phase' = [phase EXCEPT ![c] = Interrupted(c)]
    /\ Discard(c)
    /\ UNCHANGED <<server, clients, life, misread, rewound>>

\* The API server restarts: storage stays, the counter, the event between
\* storage and watchers and every request are lost.
Restart ==
    /\ faults < MaxFaults /\ faults' = faults + 1
    /\ life' = life + 1
    /\ rewound' = (rewound \/ (ready /\ Highest(Stored) < current + Len(lock)))
    /\ current' = 0 /\ ready' = FALSE
    /\ lock' = <<>> /\ bus' = <<>>
    /\ phase' = [c \in Clients |-> Interrupted(c)]
    /\ queue' = [c \in Clients |-> <<>>]
    /\ todo' = [c \in Clients |-> {}]
    /\ start' = [c \in Clients |-> 0]
    /\ cancelled' = [c \in Clients |-> FALSE]
    /\ bookmark' = [c \in Clients |-> FALSE]
    /\ UNCHANGED <<store, clients, misread>>

ClientStep(c) ==
    \/ ListBegin(c) \/ Register(c) \/ Resume(c) \/ StartInitial(c)
    \/ SendInitial(c) \/ Stream(c) \/ Close(c)
    \/ \E o \in Objects : Visit(c, o)

Next ==
    \/ InitRV \/ Publish \/ Distribute \/ Restart
    \/ \E o \in Objects : Delete(o) \/ CreateOrUpdate(o)
    \/ \E c \in Clients : ClientStep(c) \/ Disconnect(c)

Spec == Init /\ [][Next]_vars

\* A request that was accepted goes on, and a client that is not watching asks
\* again: goroutines and reflectors are always scheduled.  Nobody has to write,
\* and nothing has to fail.
FairSpec ==
    /\ Spec
    /\ WF_vars(InitRV) /\ WF_vars(Publish) /\ WF_vars(Distribute)
    /\ \A c \in Clients : WF_vars(ClientStep(c))

-----------------------------------------------------------------------------
(* Properties. *)

\* The events on their way to c: written to storage but not yet applied.
Pending(c) == queue[c] \o bus \o lock

PendingFor(c, o) ==
    {i \in DOMAIN Pending(c) : Pending(c)[i].obj = o /\ Pending(c)[i].rv > start[c]}

\* Nothing the collection went through is lost between a client's state and the
\* events on their way to it: for every object either the last event pending
\* for it, or (without one) the cache, is what is stored.
Told(c, o) ==
    LET p == PendingFor(c, o)
        last == Pending(c)[Max(p)]
    IN  IF p = {} THEN cache[c][o] = store[o]
        ELSE store[o] = IF last.gone THEN None ELSE last.rv

Streaming(c) == phase[c] = "stream" /\ ~cancelled[c]

\* The client's full state is of this life of the server, or of an earlier one
\* and the counter came back to where it was.
Trusted(c) ==
    \/ synced[c] = life
    \/ synced[c] # None /\ ~misread /\ ~rewound

\* A watch gives its client the whole history after its starting point, whatever
\* writes, lists, other watches and restarts do meanwhile: subscribing before
\* reading the version, reading it before the iteration, publishing under the
\* lock, closing on overflow and answering an unknown version with 410 together
\* leave no gap (rvAllocator, listAndWatch).  It does not hold for a client that
\* watched from version 0, or that resumes after a restart which gives versions
\* of deletes out again.
StreamIsComplete ==
    \A c \in Clients :
        Streaming(c) /\ Trusted(c) => \A o \in Objects : Told(c, o)

\* Unless the counter was initialised from an incomplete list, a version names
\* one stored object, no object is stored above the counter (and the write in
\* progress), and the events are in the order of their versions.
VersionsAreOrdered ==
    ~misread /\ ready =>
        /\ \A o \in Stored : store[o] <= current + Len(lock)
        /\ \A o, p \in Stored : store[o] = store[p] => o = p
        /\ \A c \in Clients : \A i, j \in DOMAIN Pending(c) :
            i < j => Pending(c)[i].rv < Pending(c)[j].rv

\* Once writes and faults stop every client streams and, if its state can be
\* trusted, holds exactly what is stored: overflow, 410 and broken connections
\* all end in a new list or a watch that resumes.
CatchesUp ==
    <>[](\A c \in Clients : Streaming(c) /\ (Trusted(c) => cache[c] = store))
=============================================================================
