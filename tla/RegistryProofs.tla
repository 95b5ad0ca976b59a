---------------------------- MODULE RegistryProofs ----------------------------
(***************************************************************************)
(* Proofs about the storage of the API server (Registry): versions are     *)
(* ordered, and a watch leaves no gap between what a client holds and the  *)
(* events on their way to it, for every number of objects, clients,        *)
(* writes, faults and places in a watcher's queue.                         *)
(***************************************************************************)
EXTENDS Registry, SequenceTheorems, WellFoundedInduction, TLAPS

-----------------------------------------------------------------------------
(* The inductive invariant. *)

ServerType ==
    /\ store \in [Objects -> Version \union {None}]
    /\ current \in Version /\ ready \in BOOLEAN
    /\ lock \in {<<>>} \union {<<e>> : e \in Event}
    /\ bus \in {<<>>} \union {<<e>> : e \in Event}

WatchType ==
    /\ phase \in [Clients -> Phase]
    /\ todo \in [Clients -> SUBSET Objects]
    /\ start \in [Clients -> Version]
    /\ queue \in [Clients -> Seq(Event)]
    /\ \A c \in Clients : Len(queue[c]) <= QueueSize
    /\ cancelled \in [Clients -> BOOLEAN] /\ bookmark \in [Clients -> BOOLEAN]

ClientType ==
    /\ cache \in [Clients -> [Objects -> Version \union {None}]]
    /\ seen \in [Clients -> Version]
    /\ synced \in [Clients -> 0..MaxFaults \union {None}]

GhostType ==
    /\ life \in 0..MaxFaults /\ faults \in 0..MaxFaults /\ life <= faults
    /\ misread \in BOOLEAN /\ rewound \in BOOLEAN

TypeInv == ServerType /\ WatchType /\ ClientType /\ GhostType

Elems(s) == {s[i] : i \in DOMAIN s}

\* The events that are not yet with the watchers, and those on their way to c.
Wire == Elems(bus) \union Elems(lock)
Coming(c) == Elems(queue[c]) \union Wire

\* What storage holds after the write an event tells of.
Result(e) == IF e.gone THEN None ELSE e.rv

\* For every object the latest of the events E tells what st holds.
Latest(st, E) ==
    \A e \in E : (\A f \in E : f.obj = e.obj => f.rv <= e.rv) => st[e.obj] = Result(e)

\* The write in progress takes the next version, the event the manager holds
\* has been counted, and there is neither before the counter is initialised.
CounterInv ==
    /\ \A e \in Elems(lock) : e.rv = current + 1
    /\ \A e \in Elems(bus) : e.rv <= current
    /\ ~ready => lock = <<>> /\ bus = <<>>
    /\ Latest(store, Wire)

\* Stored versions are distinct and covered by the counter.  The first holds
\* through a restart, the second from the initialisation of the counter on.
VersionInv ==
    ~misread =>
        /\ \A o, p \in Stored : store[o] = store[p] => o = p
        /\ ready => \A o \in Stored : store[o] <= current + Len(lock)

\* A queue is in the order of versions and ends before the event the manager
\* holds; a cancelled watch has missed one.
QueueInv(c) ==
    /\ \A i, j \in DOMAIN queue[c] : i < j => queue[c][i].rv < queue[c][j].rv
    /\ \A e \in Elems(queue[c]) :
        e.rv <= current /\ (cancelled[c] => e.rv < current) /\ \A f \in Elems(bus) : e.rv < f.rv
    /\ ~cancelled[c] => Latest(store, Coming(c))

\* What is left of a request, phase by phase.
PhaseInv(c) ==
    /\ phase[c] \notin Registered \/ ~ready => queue[c] = <<>> /\ ~cancelled[c]
    /\ phase[c] \notin {"listing", "collecting"} => todo[c] = {}
    /\ phase[c] \in {"listing", "collecting", "collected", "stream"} => ready
    /\ phase[c] \in {"collecting", "collected", "stream"} => start[c] <= current
    /\ synced[c] # None => synced[c] <= life
    /\ phase[c] = "listing" => synced[c] = life
    /\ phase[c] \in {"initial", "collecting", "collected"} /\ synced[c] # None =>
        synced[c] = life /\ bookmark[c]
    /\ synced[c] = life /\ phase[c] \notin {"list", "initial"} => ready

\* A full state is collected into an empty cache.
BlankInv(c) ==
    phase[c] \in {"initial", "listing", "collecting"} /\ synced[c] # None =>
        \A o \in Objects : phase[c] = "initial" \/ o \in todo[c] => cache[c][o] = None

\* The highest version given out, as far as the next life can know it.
Level == IF ready THEN current ELSE Highest(Stored)

\* The version a client would resume from.
Ref(c) == IF phase[c] \in {"collecting", "collected"} THEN start[c] ELSE seen[c]

Same(c, o) == o \notin todo[c] => cache[c][o] = store[o]

\* A client whose version is the current one, with no write in progress, holds
\* what is stored: this is why Resume may go on without a list.  It has to hold
\* for interrupted requests too, and through restarts.
PointInv(c) ==
    Trusted(c) /\ phase[c] \notin {"list", "initial"} =>
        /\ Ref(c) <= Level
        /\ Ref(c) = Level /\ lock = <<>> => \A o \in Objects : Same(c, o)

\* An object without an event on its way after the starting point is held as it
\* is stored.
KeptInv(c) ==
    Trusted(c) /\ phase[c] \in {"collecting", "collected", "stream"} /\ ~cancelled[c] =>
        \A o \in Objects :
            (\A e \in Coming(c) : e.obj = o => e.rv <= start[c]) => Same(c, o)

ClientInv(c) == QueueInv(c) /\ PhaseInv(c) /\ BlankInv(c) /\ PointInv(c) /\ KeptInv(c)

RegistryInv ==
    /\ TypeInv
    /\ CounterInv /\ VersionInv
    /\ \A c \in Clients : ClientInv(c)

-----------------------------------------------------------------------------
(* Maxima, and the elements of short sequences. *)

LEMMA LessThanWellFounded == IsWellFoundedOn({ss \in Nat \X Nat : ss[1] < ss[2]}, Nat)
BY NatLessThanWellFounded, Zenon DEF OpToRel

\* A set of bounded numbers has a greatest one, and Max is it.
LEMMA GreatestNat ==
  ASSUME NEW n \in Nat, NEW S, S \subseteq 0..n, S # {}
  PROVE  Max(S) \in S /\ \A y \in S : y <= Max(S)
<1> DEFINE R == {ss \in Nat \X Nat : ss[1] < ss[2]}
           T == {n - x : x \in S}
<1>1. T \subseteq Nat /\ T # {}
  <2>1. \A x \in 0..n : n - x \in Nat
    OBVIOUS
  <2>2. \A x \in S : x \in 0..n
    OBVIOUS
  <2>3. T \subseteq Nat
    BY <2>1, <2>2
  <2>4. PICK x \in S : TRUE
    OBVIOUS
  <2>5. n - x \in T
    BY <2>4
  <2> QED BY <2>3, <2>5
<1>2. \E t \in T : \A u \in T : ~ (<<u, t>> \in R)
  BY <1>1, LessThanWellFounded, WFMin
<1>3. PICK t \in T : \A u \in T : ~ (<<u, t>> \in R)
  BY <1>2
<1>4. PICK x \in S : t = n - x
  BY <1>3
<1>5. ASSUME NEW y \in S PROVE x >= y
  <2>1. n - y \in T /\ n - y \in Nat /\ t \in Nat
    BY <1>1
  <2>2. ~ (n - y < t)
    BY <2>1, <1>3
  <2> QED BY <2>2, <1>4
<1>6. Max(S) \in S /\ \A y \in S : Max(S) >= y
  BY <1>4, <1>5 DEF Max
<1> QED BY <1>6

\* Highest is 0 or the version of one of the objects, and no object has more.
LEMMA HighestStored ==
  ASSUME ServerType, NEW S \in SUBSET Stored
  PROVE  /\ Highest(S) \in Version
         /\ \A o \in S : store[o] <= Highest(S)
         /\ Highest(S) = 0 \/ \E o \in S : Highest(S) = store[o]
<1> DEFINE H == {0} \union {store[o] : o \in S}
<1>1. H \subseteq 0..MaxVersion /\ H # {} /\ MaxVersion \in Nat
  BY RegistryAssumption DEF ServerType, Stored, Version
<1>2. Highest(S) = Max(H)
  BY DEF Highest
<1> HIDE DEF H
<1>3. Max(H) \in H /\ \A y \in H : y <= Max(H)
  BY <1>1, GreatestNat
<1> QED BY <1>1, <1>2, <1>3 DEF H, Version

LEMMA ElemsOne == Elems(<<>>) = {} /\ \A e : Elems(<<e>>) = {e}
BY DEF Elems

LEMMA SlotType ==
  ASSUME ServerType
  PROVE  /\ lock = <<>> \/ (lock = <<lock[1]>> /\ lock[1] \in Event /\ Len(lock) = 1)
         /\ bus = <<>> \/ (bus = <<bus[1]>> /\ bus[1] \in Event /\ Len(bus) = 1)
         /\ lock \in Seq(Event) /\ bus \in Seq(Event)
         /\ Len(<<>>) = 0
<1>1. \A s : s \in {<<>>} \union {<<e>> : e \in Event} =>
        s = <<>> \/ \E e \in Event : s = <<e>>
  OBVIOUS
<1>2. \A e \in Event : <<e>>[1] = e /\ Len(<<e>>) = 1 /\ <<e>> \in Seq(Event)
  OBVIOUS
<1>3. <<>> \in Seq(Event) /\ Len(<<>>) = 0
  BY EmptySeq
<1> QED BY <1>1, <1>2, <1>3 DEF ServerType

LEMMA ElemsType ==
  ASSUME NEW s \in Seq(Event)
  PROVE  Elems(s) \subseteq Event /\ (Elems(s) = {} <=> s = <<>>)
<1>1. DOMAIN s = 1..Len(s) /\ Len(s) \in Nat /\ \A i \in 1..Len(s) : s[i] \in Event
  BY LenProperties, ElementOfSeq
<1>2. s # <<>> => Len(s) # 0
  BY EmptySeq
<1>3. s # <<>> => 1 \in DOMAIN s
  BY <1>1, <1>2
<1>4. s # <<>> => s[1] \in Elems(s)
  BY <1>3 DEF Elems
<1>5. Elems(s) \subseteq Event
  BY <1>1 DEF Elems
<1> QED BY <1>4, <1>5, ElemsOne

LEMMA ElemsConcat ==
  ASSUME NEW s \in Seq(Event), NEW t \in Seq(Event)
  PROVE  Elems(s \o t) = Elems(s) \union Elems(t)
<1>1. s \o t \in Seq(Event) /\ Len(s \o t) = Len(s) + Len(t)
      /\ \A i \in 1 .. Len(s) + Len(t) :
           (s \o t)[i] = IF i <= Len(s) THEN s[i] ELSE t[i - Len(s)]
  BY ConcatProperties
<1>2. /\ Len(s) \in Nat /\ Len(t) \in Nat
      /\ DOMAIN s = 1..Len(s) /\ DOMAIN t = 1..Len(t)
      /\ DOMAIN (s \o t) = 1..(Len(s) + Len(t))
  BY <1>1, LenProperties
<1>3. ASSUME NEW i \in DOMAIN s PROVE s[i] \in Elems(s \o t)
  <2>1. i \in DOMAIN (s \o t) /\ (s \o t)[i] = s[i]
    BY <1>1, <1>2
  <2> QED BY <2>1 DEF Elems
<1>4. ASSUME NEW i \in DOMAIN t PROVE t[i] \in Elems(s \o t)
  <2>1. i + Len(s) \in DOMAIN (s \o t) /\ (s \o t)[i + Len(s)] = t[i]
    BY <1>1, <1>2
  <2> QED BY <2>1 DEF Elems
<1>5. ASSUME NEW i \in DOMAIN (s \o t) PROVE (s \o t)[i] \in Elems(s) \union Elems(t)
  <2>1. CASE i <= Len(s)
    BY <2>1, <1>1, <1>2 DEF Elems
  <2>2. CASE ~ (i <= Len(s))
    <3>1. i - Len(s) \in DOMAIN t /\ (s \o t)[i] = t[i - Len(s)]
      BY <2>2, <1>1, <1>2
    <3> QED BY <3>1 DEF Elems
  <2> QED BY <2>1, <2>2
<1> QED BY <1>3, <1>4, <1>5 DEF Elems

LEMMA ElemsTail ==
  ASSUME NEW s \in Seq(Event), s # <<>>
  PROVE  /\ Elems(s) = {Head(s)} \union Elems(Tail(s))
         /\ Tail(s) \in Seq(Event) /\ Head(s) \in Event
         /\ DOMAIN Tail(s) = 1..(Len(s) - 1) /\ Len(Tail(s)) = Len(s) - 1
         /\ \A i \in DOMAIN Tail(s) : Tail(s)[i] = s[i + 1] /\ i + 1 \in DOMAIN s
         /\ Head(s) = s[1] /\ 1 \in DOMAIN s
<1>1. /\ Len(s) \in Nat \ {0} /\ DOMAIN s = 1..Len(s)
      /\ Tail(s) \in Seq(Event) /\ Len(Tail(s)) = Len(s) - 1 /\ Head(s) \in Event
      /\ \A i \in 1 .. Len(Tail(s)) : Tail(s)[i] = s[i + 1]
  BY HeadTailProperties, EmptySeq, LenProperties
<1>2. DOMAIN Tail(s) = 1..(Len(s) - 1)
  BY <1>1, LenProperties
<1>3. Head(s) = s[1]
  OBVIOUS
<1>4. ASSUME NEW i \in DOMAIN s, i # 1 PROVE s[i] \in Elems(Tail(s))
  <2>1. i - 1 \in DOMAIN Tail(s) /\ Tail(s)[i - 1] = s[i]
    BY <1>1, <1>2, <1>4
  <2> QED BY <2>1 DEF Elems
<1>5. ASSUME NEW i \in DOMAIN Tail(s) PROVE Tail(s)[i] = s[i + 1] /\ i + 1 \in DOMAIN s
  BY <1>1, <1>2
<1>6. Elems(s) = {Head(s)} \union Elems(Tail(s))
  BY <1>1, <1>3, <1>4, <1>5 DEF Elems
<1> QED BY <1>1, <1>2, <1>3, <1>5, <1>6

-----------------------------------------------------------------------------
(* Types. *)

LEMMA TypesSplit == TypeInv => TypeOK
BY DEF TypeInv, ServerType, WatchType, ClientType, GhostType, TypeOK

LEMMA TypeInit == Init => TypeInv
<1> SUFFICES ASSUME Init PROVE TypeInv
  OBVIOUS
<1> USE RegistryAssumption
<1>1. 0 \in Version /\ 0 \in 0..MaxFaults
  BY DEF Version
<1>2. ServerType
  BY <1>1 DEF Init, Empty, ServerType
<1>3. WatchType
  <2>1. <<>> \in Seq(Event) /\ Len(<<>>) = 0
    BY EmptySeq
  <2>2. "list" \in Phase
    BY DEF Phase
  <2> QED BY <1>1, <2>1, <2>2 DEF Init, WatchType
<1>4. ClientType
  BY <1>1 DEF Init, Empty, ClientType
<1>5. GhostType
  <2>1. life = 0 /\ faults = 0 /\ misread = FALSE /\ rewound = FALSE
    BY DEF Init
  <2>2. life <= faults
    BY <2>1
  <2> QED BY <1>1, <2>1, <2>2 DEF GhostType
<1> QED BY <1>2, <1>3, <1>4, <1>5 DEF TypeInv

\* A request that ends goes on in a phase of its own and leaves nothing behind.
LEMMA DiscardType ==
  ASSUME WatchType, NEW c \in Clients, NEW p \in Phase,
         phase' = [phase EXCEPT ![c] = p], Discard(c)
  PROVE  WatchType'
<1>1. <<>> \in Seq(Event) /\ Len(<<>>) = 0 /\ 0 \in Version /\ QueueSize \in Nat
  BY EmptySeq, RegistryAssumption DEF Version
<1> QED BY <1>1 DEF WatchType, Discard

LEMMA InterruptedType ==
  ASSUME WatchType, NEW c \in Clients
  PROVE  Interrupted(c) \in Phase
BY DEF WatchType, Interrupted, Phase

LEMMA TypeStep == TypeInv /\ [Next]_vars => TypeInv'
<1> SUFFICES ASSUME ServerType, WatchType, ClientType, GhostType, [Next]_vars
             PROVE  TypeInv'
  BY DEF TypeInv
<1> USE RegistryAssumption DEF server, watches, clients
<1>0. MaxVersion \in Nat /\ MaxFaults \in Nat /\ QueueSize \in Nat /\ 0 \in Version
  BY DEF Version
<1>1. CASE InitRV
  <2>1. PICK visited \in SUBSET Stored :
          current' = Highest(visited) /\ misread' = (misread \/ visited # Stored)
    BY <1>1 DEF InitRV
  <2>2. current' \in Version
    BY <2>1, HighestStored
  <2>3. misread' \in BOOLEAN
    BY <2>1 DEF GhostType
  <2>4. ServerType'
    BY <1>1, <2>2 DEF InitRV, ServerType
  <2>5. WatchType' /\ ClientType'
    BY <1>1 DEF InitRV, WatchType, ClientType
  <2>6. GhostType'
    BY <1>1, <2>3 DEF InitRV, GhostType
  <2> QED BY <2>4, <2>5, <2>6 DEF TypeInv
<1>2. ASSUME NEW o \in Objects, NEW object \in {None, current + 1},
             NEW g \in BOOLEAN, WriteStore(o, object, [obj |-> o, rv |-> current + 1, gone |-> g])
      PROVE  TypeInv'
  <2>1. current + 1 \in Version
    BY <1>2 DEF WriteStore, ServerType, Version
  <2>2. [obj |-> o, rv |-> current + 1, gone |-> g] \in Event
    BY <2>1 DEF Event
  <2>3. object \in Version \union {None}
    BY <2>1
  <2>4. ServerType'
    BY <1>2, <2>2, <2>3 DEF WriteStore, ServerType
  <2>5. WatchType' /\ ClientType' /\ GhostType'
    BY <1>2 DEF WriteStore, WatchType, ClientType, GhostType
  <2> QED BY <2>4, <2>5 DEF TypeInv
<1>3. CASE \E o \in Objects : Delete(o) \/ CreateOrUpdate(o)
  BY <1>2, <1>3 DEF Delete, CreateOrUpdate
<1>4. CASE Publish
  <2>1. lock[1] \in Event /\ lock[1].rv \in Version
    BY <1>4, SlotType DEF Publish, Event
  <2>2. ServerType'
    BY <1>4, <2>1 DEF Publish, ServerType
  <2>3. WatchType' /\ ClientType' /\ GhostType'
    BY <1>4 DEF Publish, WatchType, ClientType, GhostType
  <2> QED BY <2>2, <2>3 DEF TypeInv
<1>5. CASE Distribute
  <2> DEFINE to == {c \in Clients : phase[c] \in Registered /\ ~cancelled[c]}
             full == {c \in to : Len(queue[c]) = QueueSize}
  <2>1. /\ bus # <<>> /\ bus' = <<>>
        /\ queue' = [c \in Clients |-> IF c \in to \ full THEN queue[c] \o bus ELSE queue[c]]
        /\ cancelled' = [c \in Clients |-> cancelled[c] \/ c \in full]
        /\ UNCHANGED <<store, current, ready, lock, phase, todo, start, bookmark, clients,
                       life, misread, rewound, faults>>
    BY <1>5 DEF Distribute
  <2>2. bus \in Seq(Event) /\ Len(bus) = 1
    BY <2>1, SlotType
  <2>3. ASSUME NEW c \in Clients
        PROVE  queue'[c] \in Seq(Event) /\ Len(queue'[c]) <= QueueSize
    <3>1. queue[c] \in Seq(Event) /\ Len(queue[c]) \in Nat /\ Len(queue[c]) <= QueueSize
      BY LenProperties DEF WatchType
    <3>2. queue[c] \o bus \in Seq(Event) /\ Len(queue[c] \o bus) = Len(queue[c]) + 1
      BY <3>1, <2>2, ConcatProperties
    <3>3. c \in to \ full => Len(queue[c]) + 1 <= QueueSize
      BY <1>0, <3>1
    <3> QED BY <2>1, <3>1, <3>2, <3>3
  <2>4. queue' \in [Clients -> Seq(Event)]
    BY <2>1, <2>3
  <2>5. cancelled' \in [Clients -> BOOLEAN]
    BY <2>1
  <2> HIDE DEF to, full
  <2>6. WatchType'
    BY <2>1, <2>3, <2>4, <2>5 DEF WatchType
  <2>7. ServerType' /\ ClientType' /\ GhostType'
    BY <2>1 DEF ServerType, ClientType, GhostType
  <2> QED BY <2>6, <2>7 DEF TypeInv
<1>6. CASE Restart
  <2>1. ServerType'
    BY <1>6, <1>0 DEF Restart, ServerType
  <2>2. <<>> \in Seq(Event) /\ Len(<<>>) = 0
    BY EmptySeq
  <2>3. phase' \in [Clients -> Phase]
    BY <1>6, InterruptedType DEF Restart
  <2>4. WatchType'
    BY <1>6, <1>0, <2>2, <2>3 DEF Restart, WatchType
  <2>5. ClientType'
    BY <1>6 DEF Restart, ClientType
  <2>6. rewound' \in BOOLEAN
    BY <1>6 DEF Restart, GhostType, ServerType
  <2>7. GhostType'
    BY <1>6, <2>6 DEF Restart, GhostType
  <2> QED BY <2>1, <2>4, <2>5, <2>7 DEF TypeInv
<1>7. ASSUME NEW c \in Clients, ListBegin(c) PROVE TypeInv'
  <2>1. ServerType' /\ GhostType'
    BY <1>7 DEF ListBegin, ServerType, GhostType
  <2>2. WatchType'
    BY <1>7 DEF ListBegin, WatchType, Phase
  <2>3. ClientType'
    BY <1>7 DEF ListBegin, ClientType, ServerType, GhostType, Empty
  <2> QED BY <2>1, <2>2, <2>3 DEF TypeInv
<1>8. ASSUME NEW c \in Clients, Register(c) PROVE TypeInv'
  <2>1. ServerType' /\ GhostType'
    BY <1>8 DEF Register, ServerType, GhostType
  <2>2. WatchType'
    BY <1>8 DEF Register, WatchType, Phase
  <2>3. Empty \in [Objects -> Version \union {None}] /\ life \in 0..MaxFaults
    BY DEF Empty, GhostType
  <2>4. ClientType'
    BY <1>8, <2>3 DEF Register, ClientType
  <2> QED BY <2>1, <2>2, <2>4 DEF TypeInv
<1>9. ASSUME NEW c \in Clients, Resume(c) PROVE TypeInv'
  <2>1. ServerType' /\ ClientType' /\ GhostType'
    BY <1>9 DEF Resume, ServerType, ClientType, GhostType
  <2>2. "list" \in Phase /\ "stream" \in Phase
    BY DEF Phase
  <2>3. WatchType'
    BY <1>9, <2>2, DiscardType DEF Resume, WatchType, ServerType
  <2> QED BY <2>1, <2>3 DEF TypeInv
<1>10. ASSUME NEW c \in Clients, StartInitial(c) PROVE TypeInv'
  <2>1. ServerType' /\ ClientType' /\ GhostType'
    BY <1>10 DEF StartInitial, ServerType, ClientType, GhostType
  <2>2. WatchType'
    BY <1>10 DEF StartInitial, WatchType, ServerType, Phase
  <2> QED BY <2>1, <2>2 DEF TypeInv
<1>11. ASSUME NEW c \in Clients, SendInitial(c) PROVE TypeInv'
  <2>1. ServerType' /\ GhostType'
    BY <1>11 DEF SendInitial, ServerType, GhostType
  <2>2. WatchType'
    BY <1>11 DEF SendInitial, WatchType, Phase
  <2>3. ClientType'
    BY <1>11 DEF SendInitial, ClientType, WatchType
  <2> QED BY <2>1, <2>2, <2>3 DEF TypeInv
<1>12. ASSUME NEW c \in Clients, Stream(c) PROVE TypeInv'
  <2>1. ServerType' /\ GhostType'
    BY <1>12 DEF Stream, ServerType, GhostType
  <2>2. queue[c] \in Seq(Event) /\ queue[c] # <<>> /\ Len(queue[c]) \in Nat
    BY <1>12, LenProperties DEF Stream, WatchType
  <2>3. Tail(queue[c]) \in Seq(Event) /\ Len(Tail(queue[c])) <= Len(queue[c])
        /\ Head(queue[c]) \in Event
    BY <2>2, ElemsTail
  <2>4. WatchType'
    BY <1>12, <2>2, <2>3 DEF Stream, WatchType
  <2> DEFINE e == Head(queue[c])
  <2>5. e.obj \in Objects /\ e.rv \in Version
    BY <2>3 DEF Event
  <2>6. CASE Passes(c, e)
    <3>1. /\ cache' = [cache EXCEPT ![c][e.obj] = IF e.gone THEN None ELSE e.rv]
          /\ seen' = [seen EXCEPT ![c] = e.rv] /\ synced' = synced
      BY <1>12, <2>6 DEF Stream
    <3>2. (IF e.gone THEN None ELSE e.rv) \in Version \union {None}
      BY <2>5
    <3> HIDE DEF e
    <3>3. cache' \in [Clients -> [Objects -> Version \union {None}]]
      BY <3>1, <3>2, <2>5 DEF ClientType
    <3>4. seen' \in [Clients -> Version]
      BY <3>1, <2>5 DEF ClientType
    <3> QED BY <2>1, <2>4, <3>1, <3>3, <3>4 DEF ClientType, TypeInv
  <2>7. CASE ~Passes(c, e)
    <3>1. UNCHANGED <<cache, seen, synced>>
      BY <1>12, <2>7 DEF Stream
    <3> QED BY <2>1, <2>4, <3>1 DEF ClientType, TypeInv
  <2> QED BY <2>6, <2>7
<1>13. ASSUME NEW c \in Clients, Close(c) PROVE TypeInv'
  BY <1>13, InterruptedType, DiscardType
     DEF Close, ServerType, ClientType, GhostType, TypeInv
<1>14. ASSUME NEW c \in Clients, Disconnect(c) PROVE TypeInv'
  <2>1. WatchType'
    BY <1>14, InterruptedType, DiscardType DEF Disconnect
  <2>2. ServerType' /\ ClientType'
    BY <1>14 DEF Disconnect, ServerType, ClientType
  <2>3. GhostType'
    BY <1>14 DEF Disconnect, GhostType
  <2> QED BY <2>1, <2>2, <2>3 DEF TypeInv
<1>15. ASSUME NEW c \in Clients, NEW o \in Objects, Visit(c, o) PROVE TypeInv'
  <2>1. ServerType' /\ GhostType'
    BY <1>15 DEF Visit, ServerType, GhostType
  <2>2. WatchType'
    BY <1>15 DEF Visit, WatchType, Phase
  <2>3. ClientType'
    BY <1>15 DEF Visit, ClientType, ServerType
  <2> QED BY <2>1, <2>2, <2>3 DEF TypeInv
<1>16. CASE UNCHANGED vars
  BY <1>16 DEF vars, TypeInv, ServerType, WatchType, ClientType, GhostType
<1> QED
  BY <1>1, <1>3, <1>4, <1>5, <1>6, <1>7, <1>8, <1>9, <1>10, <1>11, <1>12, <1>13,
     <1>14, <1>15, <1>16 DEF Next, ClientStep

-----------------------------------------------------------------------------
(* The events of one server life. *)

\* A write adds an event that is later than all others and stores its result.
LEMMA LatestAdd ==
  ASSUME NEW st, NEW E \in SUBSET Event, NEW e \in Event,
         st \in [Objects -> Version \union {None}],
         \A f \in E : f.rv < e.rv, Latest(st, E)
  PROVE  Latest([st EXCEPT ![e.obj] = Result(e)], E \union {e})
<1> DEFINE su == [st EXCEPT ![e.obj] = Result(e)]
           F == E \union {e}
<1>1. \A f \in F : f.obj \in Objects /\ f.rv \in Nat
  BY RegistryAssumption DEF Event, Version
<1>2. SUFFICES ASSUME NEW d \in F, \A f \in F : f.obj = d.obj => f.rv <= d.rv
               PROVE  su[d.obj] = Result(d)
  BY DEF Latest
<1>3. CASE d = e
  BY <1>1, <1>3
<1>4. CASE d # e
  <2>1. d \in E /\ d.rv < e.rv
    BY <1>4
  <2>2. d.obj # e.obj
    <3>1. d.obj = e.obj => e.rv <= d.rv
      BY <1>2
    <3> QED BY <1>1, <2>1, <3>1
  <2>3. st[d.obj] = Result(d)
    BY <1>2, <2>1 DEF Latest
  <2> QED BY <1>1, <2>2, <2>3
<1> QED BY <1>3, <1>4

\* Events that are earlier than the rest may go.
LEMMA LatestDrop ==
  ASSUME NEW st, NEW E \in SUBSET Event, NEW F \in SUBSET E,
         \A d \in E \ F : \A f \in F : d.rv < f.rv, Latest(st, E)
  PROVE  Latest(st, F)
<1>1. \A f \in E : f.rv \in Nat
  BY RegistryAssumption DEF Event, Version
<1>2. SUFFICES ASSUME NEW e \in F, \A f \in F : f.obj = e.obj => f.rv <= e.rv
               PROVE  st[e.obj] = Result(e)
  BY DEF Latest
<1>3. ASSUME NEW f \in E, f.obj = e.obj PROVE f.rv <= e.rv
  BY <1>1, <1>2, <1>3
<1> QED BY <1>3 DEF Latest

LEMMA ServerStays ==
  ASSUME CounterInv, VersionInv, UNCHANGED <<server, misread>>
  PROVE  CounterInv' /\ VersionInv'
BY DEF CounterInv, VersionInv, server, Wire, Latest, Elems, Result, Stored

\* The event and the object of a write.
Written(o, g) == [obj |-> o, rv |-> current + 1, gone |-> g]
Write(o, g) == WriteStore(o, IF g THEN None ELSE current + 1, Written(o, g))

LEMMA Writes ==
  ASSUME NEW o \in Objects, Delete(o) \/ CreateOrUpdate(o)
  PROVE  \E g \in BOOLEAN : Write(o, g)
<1>1. CASE Delete(o)
  <2>1. Write(o, TRUE)
    BY <1>1 DEF Delete, Write, Written
  <2> QED BY <2>1
<1>2. CASE CreateOrUpdate(o)
  <2>1. Write(o, FALSE)
    BY <1>2 DEF CreateOrUpdate, Write, Written
  <2> QED BY <2>1
<1> QED BY <1>1, <1>2

\* What a write does, without its records.
LEMMA WriteShape ==
  ASSUME ServerType, CounterInv, NEW o \in Objects, NEW g \in BOOLEAN, Write(o, g)
  PROVE  \E e \in Event :
           /\ e.obj = o /\ e.rv = current + 1
           /\ store' = [store EXCEPT ![e.obj] = Result(e)]
           /\ Elems(lock) = {} /\ Elems(lock') = {e}
           /\ ready /\ lock = <<>> /\ lock' = <<e>> /\ Len(lock') = 1 /\ Len(lock) = 0
           /\ UNCHANGED <<current, ready, bus, watches, clients, life, misread, rewound>>
<1> DEFINE e == Written(o, g)
<1>1. e \in Event
  BY RegistryAssumption DEF Write, WriteStore, Written, Event, Version, ServerType
<1>2. e.obj = o /\ e.rv = current + 1 /\ e.gone = g
  BY DEF Written
<1>3. /\ store' = [store EXCEPT ![o] = IF g THEN None ELSE current + 1]
      /\ ready /\ lock = <<>> /\ lock' = <<e>>
      /\ UNCHANGED <<current, ready, bus, watches, clients, life, misread, rewound>>
  BY DEF Write, WriteStore
<1>4. Len(lock') = 1 /\ Len(lock) = 0
  BY <1>3, SlotType
<1> HIDE DEF e
<1>5. Elems(lock) = {} /\ Elems(lock') = {e}
  BY <1>3, ElemsOne
<1>6. store' = [store EXCEPT ![e.obj] = Result(e)]
  BY <1>2, <1>3 DEF Result
<1> QED BY <1>1, <1>2, <1>3, <1>4, <1>5, <1>6

LEMMA WireType ==
  ASSUME ServerType
  PROVE  /\ Wire \in SUBSET Event /\ Elems(bus) \in SUBSET Event /\ Elems(lock) \in SUBSET Event
         /\ current \in Nat /\ \A e \in Event : e.rv \in Nat
<1>1. lock \in Seq(Event) /\ bus \in Seq(Event)
  BY SlotType
<1>2. current \in Nat /\ \A e \in Event : e.rv \in Nat
  BY RegistryAssumption DEF ServerType, Event, Version
<1> QED BY <1>1, <1>2, ElemsType DEF Wire

LEMMA CounterWrite ==
  ASSUME ServerType, CounterInv, VersionInv,
         NEW o \in Objects, NEW g \in BOOLEAN, Write(o, g)
  PROVE  CounterInv' /\ VersionInv'
<1>1. PICK e \in Event :
           /\ e.obj = o /\ e.rv = current + 1
           /\ store' = [store EXCEPT ![e.obj] = Result(e)]
           /\ Elems(lock) = {} /\ Elems(lock') = {e}
           /\ ready /\ lock = <<>> /\ lock' = <<e>> /\ Len(lock') = 1 /\ Len(lock) = 0
           /\ UNCHANGED <<current, ready, bus, watches, clients, life, misread, rewound>>
  BY WriteShape
<1>2. /\ Wire \in SUBSET Event /\ Elems(bus) \in SUBSET Event
      /\ current \in Nat /\ \A f \in Event : f.rv \in Nat
  BY WireType
<1>3. Wire' = Wire \union {e} /\ Elems(bus') = Elems(bus)
  BY <1>1 DEF Wire
<1>4. \A f \in Wire : f.rv < e.rv
  BY <1>1, <1>2 DEF CounterInv, Wire
<1>5. Latest(store', Wire')
  BY <1>1, <1>2, <1>3, <1>4, LatestAdd DEF CounterInv, ServerType
<1>6. CounterInv'
  BY <1>1, <1>3, <1>5 DEF CounterInv
<1>7. ASSUME ~misread
      PROVE  /\ \A p \in Stored' : store'[p] <= current + 1
             /\ \A p, q \in Stored' : store'[p] = store'[q] => p = q
  <2>1. \A p \in Stored : store[p] <= current /\ store[p] \in Nat /\ p \in Objects
    BY <1>1, <1>2, <1>7, RegistryAssumption DEF VersionInv, Stored, ServerType, Version
  <2>2. \A p \in Stored' : IF p = o THEN store'[p] = current + 1
                           ELSE p \in Stored /\ store'[p] = store[p]
    BY <1>1 DEF Stored, Result, ServerType
  <2>3. \A p, q \in Stored : store[p] = store[q] => p = q
    BY <1>7 DEF VersionInv
  <2>4. \A v \in Nat : v <= current => v # current + 1 /\ v <= current + 1
    BY <1>2
  <2>5. \A p \in Stored' : p # o => store'[p] # current + 1 /\ store'[p] <= current + 1
    BY <2>1, <2>2, <2>4
  <2> QED BY <1>2, <2>2, <2>3, <2>5
<1>8. VersionInv'
  BY <1>1, <1>7 DEF VersionInv
<1> QED BY <1>6, <1>8

\* Publishing moves the event on; the set of events stays.
LEMMA PublishShape ==
  ASSUME ServerType, CounterInv, Publish
  PROVE  /\ Wire' = Wire /\ Elems(bus) = {} /\ Elems(bus') = Elems(lock) /\ Elems(lock') = {}
         /\ current' = current + 1 /\ lock' = <<>> /\ lock # <<>>
         /\ Len(lock) = 1 /\ Len(lock') = 0 /\ current \in Nat /\ ready
         /\ UNCHANGED <<store, ready, watches, clients, life, misread, rewound>>
<1>1. /\ lock # <<>> /\ bus = <<>> /\ current' = lock[1].rv /\ bus' = lock /\ lock' = <<>>
      /\ UNCHANGED <<store, ready, watches, clients, life, misread, rewound>>
  BY DEF Publish
<1>2. lock = <<lock[1]>> /\ Len(lock) = 1 /\ Len(lock') = 0
  BY <1>1, SlotType
<1>3. lock[1] \in Elems(lock)
  BY <1>2, ElemsOne
<1>4. current' = current + 1 /\ ready
  BY <1>1, <1>3 DEF CounterInv
<1>5. Elems(bus) = {} /\ Elems(bus') = Elems(lock) /\ Elems(lock') = {}
  BY <1>1, ElemsOne
<1> QED BY <1>1, <1>2, <1>4, <1>5, WireType DEF Wire

LEMMA CounterPublish ==
  ASSUME ServerType, CounterInv, VersionInv, Publish
  PROVE  CounterInv' /\ VersionInv'
<1>1. /\ Wire' = Wire /\ Elems(bus') = Elems(lock) /\ Elems(lock') = {}
      /\ current' = current + 1 /\ Len(lock) = 1 /\ Len(lock') = 0
      /\ lock' = <<>> /\ current \in Nat /\ ready
      /\ UNCHANGED <<store, ready, misread>>
  BY PublishShape
<1>2. CounterInv'
  <2>1. \A e \in Elems(bus') : e.rv <= current'
    BY <1>1 DEF CounterInv
  <2>2. Latest(store', Wire')
    BY <1>1 DEF CounterInv
  <2> QED BY <1>1, <2>1, <2>2 DEF CounterInv
<1>3. VersionInv'
  <2>1. current' + Len(lock') = current + Len(lock)
    BY <1>1
  <2> QED BY <1>1, <2>1 DEF VersionInv, Stored
<1> QED BY <1>2, <1>3

LEMMA CounterDistribute ==
  ASSUME ServerType, CounterInv, VersionInv, Distribute
  PROVE  CounterInv' /\ VersionInv'
<1>1. bus' = <<>> /\ UNCHANGED <<store, current, ready, lock, misread>>
  BY DEF Distribute
<1>2. Elems(bus') = {} /\ Wire' = Elems(lock)
  BY <1>1, ElemsOne DEF Wire
<1>3. Wire \in SUBSET Event /\ current \in Nat /\ \A e \in Event : e.rv \in Nat
  BY WireType
<1>4. \A d \in Wire \ Elems(lock) : \A f \in Elems(lock) : d.rv < f.rv
  BY <1>3 DEF CounterInv, Wire
<1>5. Latest(store, Elems(lock))
  BY <1>3, <1>4, LatestDrop DEF CounterInv, Wire
<1>6. CounterInv'
  BY <1>1, <1>2, <1>5 DEF CounterInv
<1> QED BY <1>1, <1>6 DEF VersionInv, Stored

LEMMA CounterInitRV ==
  ASSUME ServerType, CounterInv, VersionInv, InitRV
  PROVE  CounterInv' /\ VersionInv'
<1>1. PICK visited \in SUBSET Stored :
        current' = Highest(visited) /\ misread' = (misread \/ visited # Stored)
  BY DEF InitRV
<1>2. ~ready /\ ready' = TRUE /\ UNCHANGED <<store, lock, bus>>
  BY DEF InitRV
<1>3. lock = <<>> /\ bus = <<>> /\ Len(lock) = 0
  BY <1>2, SlotType DEF CounterInv
<1>4. Elems(lock') = {} /\ Elems(bus') = {} /\ Wire' = {}
  BY <1>2, <1>3, ElemsOne DEF Wire
<1>5. CounterInv'
  BY <1>2, <1>3, <1>4 DEF CounterInv, Latest
<1>6. /\ Highest(Stored) \in Nat
      /\ \A o \in Stored : store[o] <= Highest(Stored) /\ store[o] \in Nat
  BY HighestStored, RegistryAssumption DEF ServerType, Version, Stored
<1>7. Stored' = Stored
  BY <1>2 DEF Stored
<1>8. ASSUME ~misread' PROVE \A o \in Stored' : store'[o] <= current' + Len(lock')
  <2>1. visited = Stored
    BY <1>1, <1>8, Zenon
  <2>2. current' = Highest(Stored) /\ Len(lock') = 0
    BY <1>1, <1>2, <1>3, <2>1
  <2>3. current' + Len(lock') = Highest(Stored)
    BY <1>6, <2>2
  <2> QED BY <1>2, <1>6, <1>7, <2>3
<1>9. VersionInv'
  BY <1>1, <1>2, <1>7, <1>8 DEF VersionInv
<1> QED BY <1>5, <1>9

LEMMA CounterRestart ==
  ASSUME ServerType, CounterInv, VersionInv, Restart
  PROVE  CounterInv' /\ VersionInv'
<1>1. lock' = <<>> /\ bus' = <<>> /\ ready' = FALSE /\ store' = store /\ misread' = misread
  BY DEF Restart
<1>2. Elems(lock') = {} /\ Elems(bus') = {} /\ Wire' = {}
  BY <1>1, ElemsOne DEF Wire
<1>3. CounterInv'
  BY <1>1, <1>2 DEF CounterInv, Latest
<1>4. VersionInv'
  BY <1>1 DEF VersionInv, Stored
<1> QED BY <1>3, <1>4

-----------------------------------------------------------------------------
(* A client through the steps of the server. *)

LEMMA ComingType ==
  ASSUME ServerType, WatchType, NEW c \in Clients
  PROVE  Coming(c) \in SUBSET Event /\ Elems(queue[c]) \in SUBSET Event /\ queue[c] \in Seq(Event)
<1>1. queue[c] \in Seq(Event)
  BY DEF WatchType
<1> QED BY <1>1, WireType, ElemsType DEF Coming

LEMMA TrustedSynced ==
  ASSUME ClientType, GhostType, NEW c \in Clients, Trusted(c)
  PROVE  synced[c] # None
<1>1. life # None
  BY RegistryAssumption DEF GhostType
<1> QED BY <1>1 DEF Trusted

\* The state of c is what its invariant is about, beside the server.
SameClient(c) ==
    /\ phase'[c] = phase[c] /\ todo'[c] = todo[c] /\ start'[c] = start[c]
    /\ queue'[c] = queue[c] /\ cancelled'[c] = cancelled[c] /\ bookmark'[c] = bookmark[c]
    /\ cache'[c] = cache[c] /\ seen'[c] = seen[c] /\ synced'[c] = synced[c]

LEMMA ClientStays ==
  ASSUME NEW c \in Clients, ClientInv(c), SameClient(c),
         UNCHANGED <<server, life, misread, rewound>>
  PROVE  ClientInv(c)'
<1> USE DEF SameClient, server
<1>1. Coming(c)' = Coming(c) /\ Elems(queue[c])' = Elems(queue[c]) /\ Elems(bus)' = Elems(bus)
  BY DEF Coming, Wire, Elems
<1>2. Trusted(c)' = Trusted(c)
  BY DEF Trusted
<1>3. QueueInv(c)'
  BY <1>1 DEF ClientInv, QueueInv, Latest, Result
<1>4. PhaseInv(c)'
  BY DEF ClientInv, PhaseInv
<1>5. BlankInv(c)'
  BY DEF ClientInv, BlankInv
<1>6. PointInv(c)'
  <2>1. Level' = Level /\ Ref(c)' = Ref(c)
    BY DEF Level, Highest, Stored, Ref
  <2> QED BY <1>2, <2>1 DEF ClientInv, PointInv, Same
<1>7. KeptInv(c)'
  BY <1>1, <1>2 DEF ClientInv, KeptInv, Same
<1> QED BY <1>3, <1>4, <1>5, <1>6, <1>7 DEF ClientInv

LEMMA ClientWrite ==
  ASSUME TypeInv, CounterInv, NEW c \in Clients, ClientInv(c),
         NEW o \in Objects, NEW g \in BOOLEAN, Write(o, g)
  PROVE  ClientInv(c)'
<1>1. PICK e \in Event :
           /\ e.obj = o /\ e.rv = current + 1
           /\ store' = [store EXCEPT ![e.obj] = Result(e)]
           /\ Elems(lock) = {} /\ Elems(lock') = {e}
           /\ ready /\ lock = <<>> /\ lock' = <<e>> /\ Len(lock') = 1 /\ Len(lock) = 0
           /\ UNCHANGED <<current, ready, bus, watches, clients, life, misread, rewound>>
  BY WriteShape DEF TypeInv
<1>2. /\ Coming(c) \in SUBSET Event /\ current \in Nat /\ \A f \in Event : f.rv \in Nat
      /\ store \in [Objects -> Version \union {None}] /\ start[c] \in Nat
  BY ComingType, WireType, RegistryAssumption DEF TypeInv, ServerType, WatchType, Version
<1>3. Coming(c)' = Coming(c) \union {e}
  BY <1>1 DEF Coming, Wire, watches
<1>4. \A f \in Coming(c) : f.rv < e.rv
  <2>1. \A f \in Coming(c) : f.rv <= current
    BY <1>1 DEF Coming, Wire, CounterInv, ClientInv, QueueInv
  <2> QED BY <1>1, <1>2, <2>1
<1>5. Trusted(c)' = Trusted(c)
  BY <1>1 DEF Trusted, clients
<1>6. QueueInv(c)'
  <2>1. ASSUME ~cancelled[c] PROVE Latest(store', Coming(c)')
    <3>1. Latest(store, Coming(c))
      BY <2>1 DEF ClientInv, QueueInv
    <3>2. Latest([store EXCEPT ![e.obj] = Result(e)], Coming(c) \union {e})
      BY <1>2, <1>4, <3>1, LatestAdd
    <3> QED BY <1>1, <1>3, <3>2
  <2> QED BY <1>1, <2>1 DEF ClientInv, QueueInv, watches, Elems
<1>7. PhaseInv(c)' /\ BlankInv(c)'
  BY <1>1 DEF ClientInv, PhaseInv, BlankInv, watches, clients
<1>8. PointInv(c)'
  <2>1. Level' = Level /\ Ref(c)' = Ref(c) /\ lock' # <<>>
    BY <1>1 DEF Level, Ref, watches, clients
  <2> QED BY <1>1, <1>5, <2>1 DEF ClientInv, PointInv, watches
<1>9. KeptInv(c)'
  <2> SUFFICES ASSUME Trusted(c), phase[c] \in {"collecting", "collected", "stream"},
                      ~cancelled[c], NEW p \in Objects,
                      \A f \in Coming(c)' : f.obj = p => f.rv <= start[c]
               PROVE  Same(c, p)'
    BY <1>1, <1>5 DEF KeptInv, watches
  <2>1. start[c] <= current
    BY DEF ClientInv, PhaseInv
  <2>2. p # o
    <3>1. e.obj = p => e.rv <= start[c]
      BY <1>3
    <3> QED BY <1>1, <1>2, <2>1, <3>1
  <2>3. Same(c, p)
    BY <1>3 DEF ClientInv, KeptInv
  <2>4. store'[p] = store[p]
    BY <1>1, <1>2, <2>2
  <2> QED BY <1>1, <2>3, <2>4 DEF Same, watches, clients
<1> QED BY <1>6, <1>7, <1>8, <1>9 DEF ClientInv

LEMMA ClientPublish ==
  ASSUME TypeInv, CounterInv, NEW c \in Clients, ClientInv(c), Publish
  PROVE  ClientInv(c)'
<1>1. /\ Wire' = Wire /\ Elems(bus) = {} /\ Elems(bus') = Elems(lock) /\ Elems(lock') = {}
      /\ current' = current + 1 /\ lock' = <<>> /\ current \in Nat /\ ready
      /\ UNCHANGED <<store, ready, watches, clients, life, misread, rewound>>
  BY PublishShape DEF TypeInv
<1>2. /\ Elems(queue[c]) \in SUBSET Event /\ \A f \in Event : f.rv \in Nat
      /\ start[c] \in Nat /\ seen[c] \in Nat
  BY ComingType, WireType, RegistryAssumption DEF TypeInv, WatchType, ClientType, Version
<1>3. Coming(c)' = Coming(c) /\ Elems(queue[c])' = Elems(queue[c])
  BY <1>1 DEF Coming, watches
<1>4. Trusted(c)' = Trusted(c)
  BY <1>1 DEF Trusted, clients
<1>5. QueueInv(c)'
  <2>1. \A e \in Elems(queue[c]) : e.rv <= current + 1 /\ e.rv < current + 1
    BY <1>1, <1>2 DEF ClientInv, QueueInv
  <2>2. \A f \in Elems(bus') : f.rv = current + 1
    BY <1>1 DEF CounterInv
  <2>3. ~cancelled[c] => Latest(store', Coming(c)')
    BY <1>1, <1>3 DEF ClientInv, QueueInv
  <2> QED BY <1>1, <1>3, <2>1, <2>2, <2>3 DEF ClientInv, QueueInv, watches
<1>6. PhaseInv(c)'
  <2>1. start[c] <= current => start[c] <= current'
    BY <1>1, <1>2
  <2> QED BY <1>1, <2>1 DEF ClientInv, PhaseInv, watches, clients
<1>7. BlankInv(c)'
  BY <1>1 DEF ClientInv, BlankInv, watches, clients
<1>8. PointInv(c)'
  <2>1. Level = current /\ Level' = current + 1 /\ Ref(c)' = Ref(c) /\ Ref(c) \in Nat
    BY <1>1, <1>2 DEF Level, Ref, watches, clients
  <2>2. Trusted(c) /\ phase[c] \notin {"list", "initial"} => Ref(c) <= current
    BY <2>1 DEF ClientInv, PointInv
  <2>3. Ref(c) <= current => Ref(c) <= current + 1 /\ Ref(c) # current + 1
    BY <1>1, <2>1
  <2> QED BY <1>1, <1>4, <2>1, <2>2, <2>3 DEF PointInv, watches
<1>9. KeptInv(c)'
  BY <1>1, <1>3, <1>4 DEF ClientInv, KeptInv, Same, watches, clients
<1> QED BY <1>5, <1>6, <1>7, <1>8, <1>9 DEF ClientInv

\* An event behind a queue keeps its order.
LEMMA OrderedAppend ==
  ASSUME NEW s \in Seq(Event), NEW b \in Event, \A e \in Elems(s) : e.rv < b.rv,
         \A i, j \in DOMAIN s : i < j => s[i].rv < s[j].rv
  PROVE  \A i, j \in DOMAIN (s \o <<b>>) :
           i < j => (s \o <<b>>)[i].rv < (s \o <<b>>)[j].rv
<1> DEFINE u == s \o <<b>>
<1>1. <<b>> \in Seq(Event) /\ Len(<<b>>) = 1 /\ <<b>>[1] = b
  OBVIOUS
<1>2. /\ u \in Seq(Event) /\ Len(u) = Len(s) + 1
      /\ \A i \in 1 .. Len(s) + 1 : u[i] = IF i <= Len(s) THEN s[i] ELSE <<b>>[i - Len(s)]
  BY <1>1, ConcatProperties
<1>3. Len(s) \in Nat /\ DOMAIN s = 1..Len(s) /\ DOMAIN u = 1..(Len(s) + 1)
  BY <1>2, LenProperties
<1>4. \A i \in DOMAIN s : s[i] \in Elems(s) /\ u[i] = s[i]
  BY <1>2, <1>3 DEF Elems
<1>5. u[Len(s) + 1] = b
  <2>1. (Len(s) + 1) - Len(s) = 1 /\ ~ (Len(s) + 1 <= Len(s)) /\ Len(s) + 1 \in 1..(Len(s) + 1)
    BY <1>3
  <2> QED BY <1>1, <1>2, <2>1
<1> HIDE DEF u
<1>6. SUFFICES ASSUME NEW i \in DOMAIN u, NEW j \in DOMAIN u, i < j
               PROVE  u[i].rv < u[j].rv
  BY DEF u
<1>7. i \in DOMAIN s
  BY <1>3, <1>6
<1>8. CASE j = Len(s) + 1
  BY <1>4, <1>5, <1>7, <1>8
<1>9. CASE j # Len(s) + 1
  <2>1. j \in DOMAIN s
    BY <1>3, <1>9
  <2> QED BY <1>4, <1>6, <1>7, <2>1
<1> QED BY <1>8, <1>9

LEMMA ClientDistribute ==
  ASSUME TypeInv, CounterInv, VersionInv, NEW c \in Clients, ClientInv(c), Distribute
  PROVE  ClientInv(c)'
<1> DEFINE to == {d \in Clients : phase[d] \in Registered /\ ~cancelled[d]}
           full == {d \in to : Len(queue[d]) = QueueSize}
<1>1. /\ bus # <<>> /\ bus' = <<>>
      /\ queue' = [d \in Clients |-> IF d \in to \ full THEN queue[d] \o bus ELSE queue[d]]
      /\ cancelled' = [d \in Clients |-> cancelled[d] \/ d \in full]
      /\ UNCHANGED <<store, current, ready, lock, phase, todo, start, bookmark, clients,
                     life, misread, rewound>>
  BY DEF Distribute
<1>2. /\ bus = <<bus[1]>> /\ bus[1] \in Event /\ bus \in Seq(Event)
      /\ Elems(bus) = {bus[1]} /\ Elems(bus') = {}
  BY <1>1, SlotType, ElemsOne DEF TypeInv
<1>3. /\ Elems(queue[c]) \in SUBSET Event /\ queue[c] \in Seq(Event)
      /\ current \in Nat /\ \A f \in Event : f.rv \in Nat
  BY ComingType, WireType DEF TypeInv
<1>4. ready /\ bus[1].rv <= current /\ Wire' = Elems(lock)
  BY <1>1, <1>2 DEF CounterInv, Wire
<1>5. Trusted(c)' = Trusted(c)
  BY <1>1 DEF Trusted, clients
<1>6. BlankInv(c)' /\ PointInv(c)'
  <2>1. Level' = Level /\ Ref(c)' = Ref(c)
    BY <1>1 DEF Level, Highest, Stored, Ref, clients
  <2> QED BY <1>1, <1>5, <2>1 DEF ClientInv, BlankInv, PointInv, Same, clients
<1>7. CASE c \in to \ full
  <2>1. queue'[c] = queue[c] \o bus /\ phase[c] \in Registered /\ ~cancelled[c] /\ ~cancelled'[c]
    BY <1>1, <1>7
  <2>2. Elems(queue'[c]) = Elems(queue[c]) \union Elems(bus)
    BY <1>2, <1>3, <2>1, ElemsConcat
  <2>3. Coming(c)' = Coming(c)
    BY <1>1, <1>2, <2>2 DEF Coming, Wire
  <2>4. \A i, j \in DOMAIN queue'[c] : i < j => queue'[c][i].rv < queue'[c][j].rv
    BY <1>2, <1>3, <2>1, OrderedAppend DEF ClientInv, QueueInv
  <2>5. QueueInv(c)'
    BY <1>1, <1>2, <1>4, <2>1, <2>2, <2>3, <2>4 DEF ClientInv, QueueInv
  <2>6. PhaseInv(c)'
    BY <1>1, <1>4, <2>1 DEF ClientInv, PhaseInv, clients
  <2>7. KeptInv(c)'
    BY <1>1, <1>5, <2>1, <2>3 DEF ClientInv, KeptInv, Same, clients
  <2> QED BY <1>6, <2>5, <2>6, <2>7 DEF ClientInv
<1>8. CASE c \in full
  <2>1. queue'[c] = queue[c] /\ phase[c] \in Registered /\ cancelled'[c]
    BY <1>1, <1>8
  <2>2. \A e \in Elems(queue[c]) : e.rv < current
    <3>1. \A e \in Elems(queue[c]) : e.rv < bus[1].rv
      BY <1>2 DEF ClientInv, QueueInv
    <3> QED BY <1>2, <1>3, <1>4, <3>1
  <2>3. QueueInv(c)'
    BY <1>1, <1>2, <2>1, <2>2 DEF ClientInv, QueueInv
  <2>4. PhaseInv(c)'
    BY <1>1, <1>4, <2>1 DEF ClientInv, PhaseInv, clients
  <2>5. KeptInv(c)'
    BY <2>1 DEF KeptInv
  <2> QED BY <1>6, <2>3, <2>4, <2>5 DEF ClientInv
<1>9. CASE c \notin to
  <2>1. queue'[c] = queue[c] /\ cancelled'[c] = cancelled[c]
    <3>1. cancelled[c] \in BOOLEAN
      BY DEF TypeInv, WatchType
    <3> QED BY <1>1, <1>9, <3>1
  <2>2. cancelled[c] \/ phase[c] \notin Registered
    BY <1>9
  <2>3. ~cancelled[c] => Latest(store', Coming(c)')
    <3>1. ~cancelled[c] => Elems(queue'[c]) = {}
      BY <2>1, <2>2, ElemsOne DEF ClientInv, PhaseInv
    <3>2. Latest(store', Wire')
      BY CounterDistribute DEF TypeInv, CounterInv
    <3>3. ~cancelled[c] => Coming(c)' = Wire'
      BY <3>1 DEF Coming
    <3> QED BY <3>2, <3>3
  <2>4. QueueInv(c)'
    BY <1>1, <1>2, <2>1, <2>3 DEF ClientInv, QueueInv
  <2>5. PhaseInv(c)'
    BY <1>1, <2>1 DEF ClientInv, PhaseInv, clients
  <2>6. KeptInv(c)'
    BY <1>1, <2>1, <2>2 DEF KeptInv, Registered
  <2> QED BY <1>6, <2>4, <2>5, <2>6 DEF ClientInv
<1> QED BY <1>7, <1>8, <1>9

\* Initialising the counter from a complete list brings back the level that
\* clients of earlier lives know; after an incomplete one they are not trusted.
LEMMA ClientInitRV ==
  ASSUME TypeInv, CounterInv, NEW c \in Clients, ClientInv(c), InitRV
  PROVE  ClientInv(c)'
<1>1. PICK visited \in SUBSET Stored :
        current' = Highest(visited) /\ misread' = (misread \/ visited # Stored)
  BY DEF InitRV
<1>2. ~ready /\ ready' /\ UNCHANGED <<store, lock, bus, watches, clients, life, rewound>>
  BY DEF InitRV
<1>3. queue[c] = <<>> /\ ~cancelled[c] /\ lock = <<>> /\ bus = <<>>
  BY <1>2 DEF CounterInv, ClientInv, PhaseInv
<1>4. Elems(queue'[c]) = {} /\ Coming(c)' = {} /\ DOMAIN queue'[c] = {}
  BY <1>2, <1>3, ElemsOne DEF Coming, Wire, watches
<1>5. phase[c] \notin {"listing", "collecting", "collected", "stream"}
  BY <1>2 DEF ClientInv, PhaseInv
<1>6. QueueInv(c)'
  BY <1>4 DEF QueueInv, Latest
<1>7. PhaseInv(c)' /\ BlankInv(c)'
  BY <1>2, <1>3, <1>5 DEF ClientInv, PhaseInv, BlankInv, watches, clients
<1>8. ASSUME Trusted(c)', phase[c] \notin {"list", "initial"}
      PROVE  Trusted(c) /\ visited = Stored
  <2>1. synced[c] # life
    BY <1>2, <1>8 DEF ClientInv, PhaseInv
  <2>2. synced[c] # None /\ ~misread' /\ ~rewound
    BY <1>2, <1>8, <2>1 DEF Trusted, clients
  <2>3. ~misread /\ visited = Stored
    BY <1>1, <2>2, Zenon
  <2> QED BY <2>2, <2>3 DEF Trusted
<1>9. PointInv(c)'
  <2> SUFFICES ASSUME Trusted(c)', phase[c] \notin {"list", "initial"}
               PROVE  /\ Ref(c)' <= Level'
                      /\ Ref(c)' = Level' /\ lock = <<>> => \A o \in Objects : Same(c, o)'
    BY <1>2 DEF PointInv, watches
  <2>1. Trusted(c) /\ visited = Stored
    BY <1>8
  <2>2. Level' = Level /\ Ref(c)' = Ref(c)
    BY <1>1, <1>2, <2>1 DEF Level, Ref, watches, clients
  <2> QED BY <1>2, <2>1, <2>2 DEF ClientInv, PointInv, Same, watches, clients
<1>10. KeptInv(c)'
  BY <1>2, <1>5 DEF KeptInv, watches
<1> QED BY <1>6, <1>7, <1>9, <1>10 DEF ClientInv

\* What the next life will find in storage is the last version given out,
\* unless it was rewound.
LEMMA LevelRestart ==
  ASSUME TypeInv, CounterInv, VersionInv, Restart, ~misread, ~rewound', ready
  PROVE  Highest(Stored) = current + Len(lock)
<1>1. ~ (Highest(Stored) < current + Len(lock))
  BY DEF Restart
<1>2. current \in Nat /\ Len(lock) \in Nat
  BY WireType, SlotType, LenProperties DEF TypeInv
<1>3. /\ Highest(Stored) \in Nat
      /\ Highest(Stored) = 0 \/ \E o \in Stored : Highest(Stored) = store[o]
  BY HighestStored, RegistryAssumption DEF TypeInv, Version
<1>4. \A o \in Stored : store[o] <= current + Len(lock)
  BY DEF VersionInv
<1> QED BY <1>1, <1>2, <1>3, <1>4

LEMMA ClientRestart ==
  ASSUME TypeInv, CounterInv, VersionInv, NEW c \in Clients, ClientInv(c), Restart
  PROVE  ClientInv(c)'
<1>1. /\ phase'[c] = Interrupted(c) /\ queue'[c] = <<>> /\ todo'[c] = {} /\ ~cancelled'[c]
      /\ lock' = <<>> /\ bus' = <<>> /\ ~ready' /\ life' = life + 1 /\ (rewound => rewound')
      /\ UNCHANGED <<store, clients, misread>>
  BY DEF Restart
<1>2. Elems(queue'[c]) = {} /\ Coming(c)' = {} /\ DOMAIN queue'[c] = {}
  BY <1>1, ElemsOne DEF Coming, Wire
<1>3. /\ phase'[c] \in {"list", "listed", "resume"}
      /\ phase'[c] # "list" => phase[c] \in {"listed", "resume", "registered", "stream"}
  BY <1>1 DEF Interrupted, TypeInv, WatchType, Phase
<1>4. /\ synced'[c] = synced[c] /\ synced[c] # life + 1
      /\ synced[c] # None => synced[c] <= life + 1
  <2>1. /\ life \in Nat /\ synced[c] \in Nat \union {None} /\ None \notin Nat
        /\ synced'[c] = synced[c]
    BY <1>1, RegistryAssumption DEF TypeInv, GhostType, ClientType, clients
  <2>2. synced[c] # None => synced[c] <= life
    BY DEF ClientInv, PhaseInv
  <2> QED BY <2>1, <2>2
<1>5. QueueInv(c)'
  BY <1>2 DEF QueueInv, Latest
<1>6. PhaseInv(c)' /\ BlankInv(c)' /\ KeptInv(c)'
  BY <1>1, <1>3, <1>4 DEF PhaseInv, BlankInv, KeptInv, Registered
<1>7. PointInv(c)'
  <2> SUFFICES ASSUME Trusted(c)', phase'[c] # "list"
               PROVE  /\ Ref(c)' <= Level'
                      /\ Ref(c)' = Level' => \A o \in Objects : Same(c, o)'
    BY DEF PointInv
  <2>1. synced[c] # None /\ ~misread /\ ~rewound' /\ ~rewound
    BY <1>1, <1>4 DEF Trusted
  <2>2. Trusted(c) /\ phase[c] \notin {"list", "initial"} /\ todo[c] = {}
    BY <1>3, <2>1 DEF Trusted, ClientInv, PhaseInv
  <2>3. Ref(c)' = seen[c] /\ Ref(c) = seen[c] /\ seen[c] \in Nat
    BY <1>1, <1>3, RegistryAssumption DEF Ref, clients, TypeInv, ClientType, Version
  <2>4. Level' = Highest(Stored)
    BY <1>1 DEF Level, Highest, Stored
  <2>5. \A o \in Objects : Same(c, o)' = Same(c, o)
    BY <1>1, <2>2 DEF Same, clients
  <2>6. CASE ~ready
    <3>1. lock = <<>> /\ Level = Highest(Stored)
      BY <2>6 DEF CounterInv, Level
    <3> QED BY <2>2, <2>3, <2>4, <2>5, <3>1 DEF ClientInv, PointInv
  <2>7. CASE ready
    <3>1. Highest(Stored) = current + Len(lock) /\ Level = current
      BY <2>1, <2>7, LevelRestart DEF Level
    <3>2. current \in Nat
      BY WireType DEF TypeInv
    <3>3. seen[c] <= current /\ (seen[c] = current /\ lock = <<>> => \A o \in Objects : Same(c, o))
      BY <2>2, <2>3, <3>1 DEF ClientInv, PointInv
    <3>4. CASE lock = <<>>
      <4>1. Level' = current
        BY <2>4, <3>1, <3>2, <3>4, SlotType DEF TypeInv
      <4> QED BY <2>3, <2>5, <3>3, <3>4, <4>1
    <3>5. CASE lock # <<>>
      <4>1. Level' = current + 1
        BY <2>4, <3>1, <3>5, SlotType DEF TypeInv
      <4> QED BY <2>3, <3>2, <3>3, <4>1
    <3> QED BY <3>4, <3>5
  <2> QED BY <2>6, <2>7 DEF TypeInv, ServerType
<1> QED BY <1>5, <1>6, <1>7 DEF ClientInv

-----------------------------------------------------------------------------
(* A client through its own steps. *)

\* The queue and the server stay: so does what is on the way.
LEMMA QueueStays ==
  ASSUME NEW c \in Clients, ClientInv(c), UNCHANGED <<server, queue, cancelled>>
  PROVE  QueueInv(c)' /\ Coming(c)' = Coming(c)
BY DEF ClientInv, QueueInv, Coming, Wire, Elems, Latest, Result, server

LEMMA LevelStays ==
  ASSUME UNCHANGED server
  PROVE  Level' = Level
BY DEF Level, Highest, Stored, server

LEMMA ClientListBegin ==
  ASSUME TypeInv, NEW c \in Clients, ClientInv(c), ListBegin(c)
  PROVE  ClientInv(c)'
<1>1. /\ phase[c] = "list" /\ ready /\ seen'[c] = current /\ synced'[c] = life
      /\ cache'[c] = Empty /\ phase'[c] = "listing" /\ todo'[c] = Objects
      /\ UNCHANGED <<server, start, queue, cancelled, bookmark, life, misread, rewound>>
  BY DEF ListBegin, CurrentKnown, TypeInv, WatchType, ClientType
<1>2. life \in Nat /\ current \in Nat
  BY WireType, RegistryAssumption DEF TypeInv, GhostType
<1>3. QueueInv(c)' /\ Coming(c)' = Coming(c)
  BY <1>1, QueueStays
<1>4. PhaseInv(c)'
  BY <1>1, <1>2 DEF ClientInv, PhaseInv, server, Registered
<1>5. BlankInv(c)' /\ KeptInv(c)'
  BY <1>1 DEF BlankInv, KeptInv, Empty
<1>6. PointInv(c)'
  <2>1. Level' = current /\ Ref(c)' = current
    BY <1>1 DEF Level, Ref, server
  <2> QED BY <1>1, <1>2, <2>1 DEF PointInv, Same
<1> QED BY <1>3, <1>4, <1>5, <1>6 DEF ClientInv

LEMMA ClientRegister ==
  ASSUME TypeInv, NEW c \in Clients, ClientInv(c), Register(c)
  PROVE  ClientInv(c)'
<1>1. /\ phase[c] \in {"list", "listed", "resume"}
      /\ bookmark'[c] = (phase[c] = "list")
      /\ UNCHANGED <<server, todo, start, queue, cancelled, seen, life, misread, rewound>>
  BY DEF Register, TypeInv, WatchType
<1>2. QueueInv(c)' /\ Coming(c)' = Coming(c)
  BY <1>1, QueueStays
<1>3. queue'[c] = <<>> /\ ~cancelled'[c] /\ todo'[c] = {}
  BY <1>1 DEF ClientInv, PhaseInv, Registered
<1>4. CASE bookmark'[c] \/ seen[c] = 0
  <2>1. phase'[c] = "initial"
    BY <1>4 DEF Register, TypeInv, WatchType
  <2>2. IF phase[c] = "list" THEN cache'[c] = Empty /\ synced'[c] = life /\ bookmark'[c]
        ELSE synced'[c] = None
    BY <1>1, <1>4 DEF Register, TypeInv, ClientType
  <2>3. life \in Nat
    BY RegistryAssumption DEF TypeInv, GhostType
  <2>4. PhaseInv(c)'
    BY <1>1, <1>3, <2>1, <2>2, <2>3 DEF PhaseInv
  <2>5. BlankInv(c)'
    BY <2>1, <2>2 DEF BlankInv, Empty
  <2>6. PointInv(c)' /\ KeptInv(c)'
    BY <2>1 DEF PointInv, KeptInv
  <2> QED BY <1>2, <2>4, <2>5, <2>6 DEF ClientInv
<1>5. CASE ~ (bookmark'[c] \/ seen[c] = 0)
  <2>1. phase'[c] = "registered" /\ UNCHANGED <<cache, synced>>
    BY <1>5 DEF Register, TypeInv, WatchType
  <2>2. phase[c] \in {"listed", "resume"}
    BY <1>1, <1>5
  <2>3. PhaseInv(c)' /\ BlankInv(c)' /\ KeptInv(c)'
    BY <1>1, <1>3, <2>1, <2>2 DEF ClientInv, PhaseInv, BlankInv, KeptInv, server
  <2>4. PointInv(c)'
    <3>1. Level' = Level /\ Ref(c)' = Ref(c) /\ Trusted(c)' = Trusted(c)
      BY <1>1, <2>1, <2>2, LevelStays DEF Ref, Trusted
    <3> QED BY <1>1, <2>1, <2>2, <3>1 DEF ClientInv, PointInv, Same, server
  <2> QED BY <1>2, <2>3, <2>4 DEF ClientInv
<1> QED BY <1>4, <1>5

\* A request ends and its client lists again, or resumes a watch it had.
Leaves(c, p) ==
    /\ phase' = [phase EXCEPT ![c] = p]
    /\ Discard(c)
    /\ p = "list" \/ (p = "resume" /\ phase[c] \in {"registered", "stream"})
    /\ UNCHANGED <<server, clients, life, misread, rewound>>

LEMMA ClientLeaves ==
  ASSUME TypeInv, CounterInv, NEW c \in Clients, ClientInv(c), NEW p, Leaves(c, p)
  PROVE  ClientInv(c)'
<1>1. /\ phase'[c] = p /\ queue'[c] = <<>> /\ ~cancelled'[c] /\ todo'[c] = {}
      /\ p = "list" \/ (p = "resume" /\ phase[c] \in {"registered", "stream"})
      /\ UNCHANGED <<server, clients, life, misread, rewound>>
  BY DEF Leaves, Discard, TypeInv, WatchType
<1>2. Elems(queue'[c]) = {} /\ DOMAIN queue'[c] = {} /\ Wire' = Wire /\ Coming(c)' = Wire'
  BY <1>1, ElemsOne DEF Coming, Wire, server
<1>3. QueueInv(c)'
  <2>1. Latest(store', Coming(c)')
    BY <1>1, <1>2 DEF CounterInv, server
  <2> QED BY <1>2, <2>1 DEF QueueInv
<1>4. PhaseInv(c)'
  BY <1>1 DEF ClientInv, PhaseInv, server, clients
<1>5. BlankInv(c)' /\ KeptInv(c)'
  BY <1>1 DEF BlankInv, KeptInv
<1>6. PointInv(c)'
  <2> SUFFICES ASSUME Trusted(c)', p = "resume"
               PROVE  /\ Ref(c)' <= Level'
                      /\ Ref(c)' = Level' /\ lock' = <<>> => \A o \in Objects : Same(c, o)'
    BY <1>1 DEF PointInv
  <2>1. phase[c] \in {"registered", "stream"} /\ todo[c] = {}
    BY <1>1 DEF ClientInv, PhaseInv
  <2>2. Level' = Level /\ Ref(c)' = Ref(c) /\ Trusted(c)' = Trusted(c)
    BY <1>1, <2>1, LevelStays DEF Ref, Trusted, clients
  <2>3. \A o \in Objects : Same(c, o)' = Same(c, o)
    BY <1>1, <2>1 DEF Same, server, clients
  <2> QED BY <1>1, <2>1, <2>2, <2>3 DEF ClientInv, PointInv, server
<1> QED BY <1>3, <1>4, <1>5, <1>6 DEF ClientInv

\* The version read under the lock is the one the client has: it is up to date.
LEMMA ClientResume ==
  ASSUME TypeInv, CounterInv, NEW c \in Clients, ClientInv(c), Resume(c)
  PROVE  ClientInv(c)'
<1>1. CASE seen[c] # current
  <2>1. Leaves(c, "list")
    BY <1>1 DEF Resume, Leaves
  <2> QED BY <2>1, ClientLeaves
<1>2. CASE seen[c] = current
  <2>1. /\ phase[c] = "registered" /\ phase'[c] = "stream" /\ start'[c] = current
        /\ ready /\ lock = <<>>
        /\ UNCHANGED <<server, todo, queue, cancelled, bookmark, clients, life, misread, rewound>>
    BY <1>2 DEF Resume, CurrentKnown, TypeInv, WatchType
  <2>2. QueueInv(c)' /\ Coming(c)' = Coming(c)
    BY <2>1, QueueStays
  <2>3. current \in Nat
    BY WireType DEF TypeInv
  <2>4. PhaseInv(c)' /\ BlankInv(c)'
    BY <2>1, <2>3 DEF ClientInv, PhaseInv, BlankInv, server, clients, Registered
  <2>5. Level' = Level /\ Level = current /\ Ref(c)' = Ref(c) /\ Ref(c) = seen[c]
        /\ Trusted(c)' = Trusted(c)
    BY <2>1, LevelStays DEF Level, Ref, Trusted, clients
  <2>6. \A o \in Objects : Same(c, o)' = Same(c, o)
    BY <2>1 DEF Same, server, clients
  <2>7. PointInv(c)'
    BY <2>1, <2>5, <2>6 DEF ClientInv, PointInv, server
  <2>8. Trusted(c) => \A o \in Objects : Same(c, o)
    BY <1>2, <2>1, <2>5 DEF ClientInv, PointInv
  <2>9. KeptInv(c)'
    BY <2>5, <2>6, <2>8 DEF KeptInv
  <2> QED BY <2>2, <2>4, <2>7, <2>9 DEF ClientInv
<1> QED BY <1>1, <1>2

LEMMA ClientStartInitial ==
  ASSUME TypeInv, NEW c \in Clients, ClientInv(c), StartInitial(c)
  PROVE  ClientInv(c)'
<1>1. /\ phase[c] = "initial" /\ ready /\ start'[c] = current /\ phase'[c] = "collecting"
      /\ todo'[c] = Objects
      /\ UNCHANGED <<server, queue, cancelled, bookmark, clients, life, misread, rewound>>
  BY DEF StartInitial, CurrentKnown, TypeInv, WatchType
<1>2. QueueInv(c)' /\ Coming(c)' = Coming(c)
  BY <1>1, QueueStays
<1>3. current \in Nat
  BY WireType DEF TypeInv
<1>4. PhaseInv(c)' /\ BlankInv(c)'
  BY <1>1, <1>3 DEF ClientInv, PhaseInv, BlankInv, server, clients, Registered
<1>5. PointInv(c)'
  <2>1. Level' = current /\ Ref(c)' = current
    BY <1>1 DEF Level, Ref, server
  <2> QED BY <1>1, <1>3, <2>1 DEF PointInv, Same
<1>6. KeptInv(c)'
  BY <1>1 DEF KeptInv, Same
<1> QED BY <1>2, <1>4, <1>5, <1>6 DEF ClientInv

\* The bookmark carries the starting point, which then is the client's version.
LEMMA ClientSendInitial ==
  ASSUME TypeInv, NEW c \in Clients, ClientInv(c), SendInitial(c)
  PROVE  ClientInv(c)'
<1>1. /\ phase[c] = "collected" /\ phase'[c] = "stream" /\ (bookmark[c] => seen'[c] = start[c])
      /\ UNCHANGED <<server, todo, start, queue, cancelled, bookmark, cache, synced,
                     life, misread, rewound>>
  BY DEF SendInitial, TypeInv, WatchType, ClientType
<1>2. QueueInv(c)' /\ Coming(c)' = Coming(c)
  BY <1>1, QueueStays
<1>3. PhaseInv(c)' /\ BlankInv(c)'
  BY <1>1 DEF ClientInv, PhaseInv, BlankInv, server, Registered
<1>4. Level' = Level /\ Trusted(c)' = Trusted(c)
  BY <1>1, LevelStays DEF Trusted
<1>5. Trusted(c) => Ref(c)' = Ref(c)
  <2>1. Trusted(c) => bookmark[c]
    BY <1>1, TrustedSynced DEF TypeInv, ClientInv, PhaseInv
  <2> QED BY <1>1, <2>1 DEF Ref
<1>6. \A o \in Objects : Same(c, o)' = Same(c, o)
  BY <1>1 DEF Same, server
<1>7. PointInv(c)'
  BY <1>1, <1>4, <1>5, <1>6 DEF ClientInv, PointInv, server
<1>8. KeptInv(c)'
  BY <1>1, <1>2, <1>4, <1>6 DEF ClientInv, KeptInv
<1> QED BY <1>2, <1>3, <1>7, <1>8 DEF ClientInv

\* A visited object is held as it is stored: if it is not stored, the cache was
\* empty for it.
LEMMA ClientVisit ==
  ASSUME TypeInv, NEW c \in Clients, ClientInv(c), NEW o \in Objects, Visit(c, o)
  PROVE  ClientInv(c)'
<1>1. /\ phase[c] \in {"listing", "collecting"} /\ o \in todo[c]
      /\ todo'[c] = todo[c] \ {o}
      /\ phase'[c] = IF todo[c] # {o} THEN phase[c]
                     ELSE IF phase[c] = "listing" THEN "listed" ELSE "collected"
      /\ cache'[c][o] = IF store[o] = None THEN cache[c][o] ELSE store[o]
      /\ \A p \in Objects : p # o => cache'[c][p] = cache[c][p]
      /\ UNCHANGED <<server, start, queue, cancelled, bookmark, seen, synced,
                     life, misread, rewound>>
  BY DEF Visit, TypeInv, WatchType, ClientType
<1>2. QueueInv(c)' /\ Coming(c)' = Coming(c)
  BY <1>1, QueueStays
<1>3. todo'[c] = {} \/ phase'[c] = phase[c]
  BY <1>1
<1>4. phase'[c] = phase[c] \/ (phase[c] = "listing" /\ phase'[c] = "listed")
      \/ (phase[c] = "collecting" /\ phase'[c] = "collected")
  BY <1>1
<1>5. PhaseInv(c)'
  BY <1>1, <1>3, <1>4 DEF ClientInv, PhaseInv, server, Registered
<1>6. BlankInv(c)'
  BY <1>1, <1>4 DEF ClientInv, BlankInv
<1>7. Level' = Level /\ Ref(c)' = Ref(c) /\ Trusted(c)' = Trusted(c)
  BY <1>1, <1>4, LevelStays DEF Ref, Trusted
<1>8. ASSUME Trusted(c), NEW p \in Objects, p # o => Same(c, p) PROVE Same(c, p)'
  <2>1. CASE p = o
    <3>1. store[o] = None => cache[c][o] = None
      BY <1>1, <1>8, TrustedSynced DEF TypeInv, ClientInv, BlankInv
    <3> QED BY <1>1, <2>1, <3>1 DEF Same, server
  <2>2. CASE p # o
    BY <1>1, <1>8, <2>2 DEF Same, server
  <2> QED BY <2>1, <2>2
<1>9. PointInv(c)'
  BY <1>1, <1>4, <1>7, <1>8 DEF ClientInv, PointInv, server
<1>10. KeptInv(c)'
  BY <1>1, <1>2, <1>4, <1>7, <1>8 DEF ClientInv, KeptInv
<1> QED BY <1>2, <1>5, <1>6, <1>9, <1>10 DEF ClientInv

\* The event at the head is earlier than what comes behind it.
LEMMA HeadFirst ==
  ASSUME TypeInv, CounterInv, NEW c \in Clients, QueueInv(c), queue[c] # <<>>
  PROVE  /\ Elems(queue[c]) = {Head(queue[c])} \union Elems(Tail(queue[c]))
         /\ \A f \in Elems(Tail(queue[c])) \union Wire : Head(queue[c]).rv < f.rv
         /\ \A i, j \in DOMAIN Tail(queue[c]) :
              i < j => Tail(queue[c])[i].rv < Tail(queue[c])[j].rv
<1> DEFINE q == queue[c]
           h == Head(q)
<1>1. q \in Seq(Event) /\ Elems(q) \in SUBSET Event
      /\ current \in Nat /\ \A f \in Event : f.rv \in Nat
  BY ComingType, WireType DEF TypeInv
<1>2. /\ Elems(q) = {h} \union Elems(Tail(q)) /\ h \in Event
      /\ DOMAIN Tail(q) = 1..(Len(q) - 1) /\ h = q[1] /\ 1 \in DOMAIN q
      /\ \A i \in DOMAIN Tail(q) : Tail(q)[i] = q[i + 1] /\ i + 1 \in DOMAIN q
  BY <1>1, ElemsTail
<1>3. \A i, j \in DOMAIN q : i < j => q[i].rv < q[j].rv
  BY DEF QueueInv
<1>4. /\ Len(q) \in Nat
      /\ \A i \in 1..(Len(q) - 1) : i \in Nat /\ 1 < i + 1
      /\ \A i, j \in 1..(Len(q) - 1) : i < j => i + 1 < j + 1
  BY <1>1, LenProperties
<1>5. \A f \in Elems(Tail(q)) : h.rv < f.rv
  BY <1>2, <1>3, <1>4 DEF Elems
<1>6. \A f \in Elems(bus) : h.rv < f.rv
  BY <1>2 DEF QueueInv
<1>7. \A f \in Elems(lock) : h.rv < f.rv
  <2>1. h.rv <= current /\ h.rv \in Nat
    BY <1>1, <1>2 DEF QueueInv
  <2>2. \A f \in Elems(lock) : f.rv = current + 1
    BY DEF CounterInv
  <2> QED BY <1>1, <2>1, <2>2
<1>8. \A i, j \in DOMAIN Tail(q) : i < j => Tail(q)[i].rv < Tail(q)[j].rv
  BY <1>2, <1>3, <1>4
<1> QED BY <1>2, <1>5, <1>6, <1>7, <1>8 DEF Wire

LEMMA ClientStream ==
  ASSUME TypeInv, CounterInv, NEW c \in Clients, ClientInv(c), Stream(c)
  PROVE  ClientInv(c)'
<1> DEFINE h == Head(queue[c])
           rest == Elems(Tail(queue[c])) \union Wire
<1>1. /\ phase[c] = "stream" /\ queue[c] # <<>> /\ queue'[c] = Tail(queue[c])
      /\ UNCHANGED <<server, phase, todo, start, cancelled, bookmark, synced,
                     life, misread, rewound>>
  BY DEF Stream, TypeInv, WatchType
<1>2. IF h.rv > start[c]
      THEN /\ cache'[c] = [cache[c] EXCEPT ![h.obj] = IF h.gone THEN None ELSE h.rv]
           /\ seen'[c] = h.rv
      ELSE cache'[c] = cache[c] /\ seen'[c] = seen[c]
  BY DEF Stream, Passes, TypeInv, ClientType
<1>3. /\ Elems(queue[c]) = {h} \union Elems(Tail(queue[c]))
      /\ \A f \in rest : h.rv < f.rv
      /\ \A i, j \in DOMAIN Tail(queue[c]) :
           i < j => Tail(queue[c])[i].rv < Tail(queue[c])[j].rv
  BY <1>1, HeadFirst DEF ClientInv
<1>4. /\ Coming(c) \in SUBSET Event /\ Elems(queue[c]) \in SUBSET Event
      /\ current \in Nat /\ start[c] \in Nat /\ \A f \in Event : f.rv \in Nat /\ f.obj \in Objects
      /\ cache[c] \in [Objects -> Version \union {None}]
  <2>1. \A f \in Event : f.obj \in Objects
    BY DEF Event
  <2>2. start[c] \in Nat /\ cache[c] \in [Objects -> Version \union {None}]
    BY RegistryAssumption DEF TypeInv, WatchType, ClientType, Version
  <2> QED BY <2>1, <2>2, ComingType, WireType DEF TypeInv
<1>5. Coming(c)' = rest /\ Coming(c) = {h} \union rest /\ h \in Event
  BY <1>1, <1>3, <1>4 DEF Coming, Wire, server
<1>6. \A f \in Elems(queue[c]) :
        f.rv <= current /\ (cancelled[c] => f.rv < current) /\ \A g \in Elems(bus) : f.rv < g.rv
  BY DEF ClientInv, QueueInv
<1> HIDE DEF h, rest
<1>7. QueueInv(c)'
  <2>1. ASSUME ~cancelled[c] PROVE Latest(store, rest)
    <3>1. Latest(store, Coming(c)) /\ rest \in SUBSET Coming(c)
      BY <1>5, <2>1 DEF ClientInv, QueueInv
    <3>2. \A d \in Coming(c) \ rest : \A f \in rest : d.rv < f.rv
      BY <1>3, <1>5
    <3> QED BY <1>4, <3>1, <3>2, LatestDrop
  <2> QED BY <1>1, <1>3, <1>5, <1>6, <2>1 DEF QueueInv, server
<1>8. PhaseInv(c)'
  BY <1>1 DEF ClientInv, PhaseInv, server, Registered
<1>9. BlankInv(c)'
  BY <1>1 DEF BlankInv
<1>10. Level' = Level /\ Level = current /\ Trusted(c)' = Trusted(c)
  BY <1>1, LevelStays DEF Level, Trusted, ClientInv, PhaseInv
<1>11. KeptInv(c)'
  <2> SUFFICES ASSUME Trusted(c), ~cancelled[c], NEW o \in Objects,
                      \A f \in rest : f.obj = o => f.rv <= start[c]
               PROVE  Same(c, o)'
    BY <1>1, <1>5, <1>10 DEF KeptInv
  <2>1. CASE h.rv > start[c] /\ h.obj = o
    <3>1. \A f \in rest : f.obj # o
      BY <1>3, <1>4, <1>5, <2>1
    <3>2. \A f \in Coming(c) : f.obj = h.obj => f.rv <= h.rv
      BY <1>4, <1>5, <2>1, <3>1
    <3>3. Latest(store, Coming(c)) /\ h \in Coming(c)
      BY <1>5 DEF ClientInv, QueueInv
    <3>4. store[h.obj] = Result(h)
      BY <3>2, <3>3 DEF Latest
    <3>5. cache'[c][o] = Result(h)
      BY <1>2, <1>4, <2>1 DEF Result
    <3> QED BY <1>1, <2>1, <3>4, <3>5 DEF Same, server
  <2>2. CASE ~ (h.rv > start[c] /\ h.obj = o)
    <3>1. h.obj = o => h.rv <= start[c]
      BY <1>4, <1>5, <2>2
    <3>2. Same(c, o)
      BY <1>1, <1>5, <3>1 DEF ClientInv, KeptInv
    <3>3. cache'[c][o] = cache[c][o]
      BY <1>2, <1>4, <1>5, <2>2
    <3> QED BY <1>1, <3>2, <3>3 DEF Same, server
  <2> QED BY <2>1, <2>2
<1>12. PointInv(c)'
  <2>1. CASE h.rv > start[c]
    <3>1. Ref(c)' = h.rv /\ h.rv <= current /\ (cancelled[c] => h.rv < current) /\ h.rv \in Nat
      BY <1>1, <1>2, <1>3, <1>4, <1>5, <1>6, <2>1 DEF Ref
    <3>2. ASSUME Trusted(c), h.rv = current, lock = <<>>, NEW o \in Objects PROVE Same(c, o)'
      <4>1. ~cancelled[c]
        BY <1>4, <3>1, <3>2
      <4>2. \A f \in rest : f.rv <= current /\ f \in Event
        BY <1>3, <1>4, <1>5, <1>6, <3>2, ElemsOne DEF rest, Wire, CounterInv
      <4>3. rest = {}
        BY <1>3, <1>4, <3>2, <4>2
      <4> QED BY <1>1, <1>5, <1>10, <1>11, <3>2, <4>1, <4>3 DEF KeptInv
    <3> QED BY <1>1, <1>10, <3>1, <3>2 DEF PointInv, server
  <2>2. CASE ~ (h.rv > start[c])
    <3>1. Ref(c)' = Ref(c) /\ cache'[c] = cache[c]
      BY <1>1, <1>2, <2>2 DEF Ref
    <3> QED BY <1>1, <1>10, <3>1 DEF ClientInv, PointInv, Same, server
  <2> QED BY <2>1, <2>2
<1> QED BY <1>7, <1>8, <1>9, <1>11, <1>12 DEF ClientInv

\* A watch that is closed, and any request that is interrupted.
LEMMA Interrupts ==
  ASSUME WatchType, NEW c \in Clients, Close(c) \/ Disconnect(c)
  PROVE  Leaves(c, Interrupted(c))
BY DEF Close, Disconnect, Leaves, Interrupted, WatchType, Phase

-----------------------------------------------------------------------------
(* The invariant. *)

LEMMA RegistryInit == Init => RegistryInv
<1> SUFFICES ASSUME Init PROVE RegistryInv
  OBVIOUS
<1>1. TypeInv
  BY TypeInit
<1>2. lock = <<>> /\ bus = <<>> /\ ~ready /\ store = Empty /\ life = 0
  BY DEF Init
<1>3. Elems(lock) = {} /\ Elems(bus) = {} /\ Wire = {} /\ Stored = {}
  BY <1>2, ElemsOne DEF Wire, Stored, Empty
<1>4. CounterInv /\ VersionInv
  BY <1>2, <1>3 DEF CounterInv, VersionInv, Latest
<1>5. ASSUME NEW c \in Clients PROVE ClientInv(c)
  <2>1. phase[c] = "list" /\ todo[c] = {} /\ queue[c] = <<>> /\ cancelled[c] = FALSE
        /\ synced[c] = 0
    BY DEF Init
  <2>2. Elems(queue[c]) = {} /\ Coming(c) = {} /\ DOMAIN queue[c] = {}
    BY <1>3, <2>1, ElemsOne DEF Coming
  <2>3. QueueInv(c)
    BY <2>2 DEF QueueInv, Latest
  <2>4. PhaseInv(c)
    BY <1>2, <2>1 DEF PhaseInv
  <2>5. BlankInv(c) /\ PointInv(c) /\ KeptInv(c)
    BY <2>1 DEF BlankInv, PointInv, KeptInv
  <2> QED BY <2>3, <2>4, <2>5 DEF ClientInv
<1> QED BY <1>1, <1>4, <1>5 DEF RegistryInv

\* A step of one client leaves the others alone.
LEMMA OthersStay ==
  ASSUME TypeInv, NEW c \in Clients, ClientStep(c) \/ Disconnect(c)
  PROVE  /\ UNCHANGED <<server, life, misread, rewound>>
         /\ \A d \in Clients : d # c => SameClient(d)
<1> USE DEF TypeInv, WatchType, ClientType, SameClient, watches, clients
<1>1. CASE ListBegin(c)
  BY <1>1 DEF ListBegin
<1>2. CASE Register(c)
  BY <1>2 DEF Register
<1>3. CASE Resume(c)
  BY <1>3 DEF Resume, Discard
<1>4. CASE StartInitial(c)
  BY <1>4 DEF StartInitial
<1>5. CASE SendInitial(c)
  BY <1>5 DEF SendInitial
<1>6. CASE Stream(c)
  BY <1>6 DEF Stream
<1>7. CASE Close(c)
  BY <1>7 DEF Close, Discard
<1>8. CASE Disconnect(c)
  BY <1>8 DEF Disconnect, Discard
<1>9. ASSUME NEW o \in Objects, Visit(c, o)
      PROVE  /\ UNCHANGED <<server, life, misread, rewound>>
             /\ \A d \in Clients : d # c => SameClient(d)
  BY <1>9 DEF Visit
<1> QED BY <1>1, <1>2, <1>3, <1>4, <1>5, <1>6, <1>7, <1>8, <1>9 DEF ClientStep

LEMMA RegistryStep == RegistryInv /\ [Next]_vars => RegistryInv'
<1> SUFFICES ASSUME RegistryInv, [Next]_vars PROVE RegistryInv'
  OBVIOUS
<1>0. /\ TypeInv /\ CounterInv /\ VersionInv /\ TypeInv' /\ ServerType /\ WatchType
      /\ \A c \in Clients : ClientInv(c)
  BY TypeStep DEF RegistryInv, TypeInv
<1>1. CASE InitRV
  BY <1>0, <1>1, CounterInitRV, ClientInitRV DEF RegistryInv
<1>2. CASE Publish
  BY <1>0, <1>2, CounterPublish, ClientPublish DEF RegistryInv
<1>3. CASE Distribute
  BY <1>0, <1>3, CounterDistribute, ClientDistribute DEF RegistryInv
<1>4. CASE Restart
  BY <1>0, <1>4, CounterRestart, ClientRestart DEF RegistryInv
<1>5. ASSUME NEW o \in Objects, Delete(o) \/ CreateOrUpdate(o) PROVE RegistryInv'
  <2>1. PICK g \in BOOLEAN : Write(o, g)
    BY <1>5, Writes
  <2>2. CounterInv' /\ VersionInv'
    BY <1>0, <2>1, CounterWrite
  <2>3. \A c \in Clients : ClientInv(c)'
    BY <1>0, <2>1, ClientWrite
  <2> QED BY <1>0, <2>2, <2>3 DEF RegistryInv
<1>6. ASSUME NEW c \in Clients, ClientStep(c) \/ Disconnect(c) PROVE RegistryInv'
  <2>1. /\ UNCHANGED <<server, life, misread, rewound>>
        /\ \A d \in Clients : d # c => SameClient(d)
    BY <1>0, <1>6, OthersStay
  <2>2. CounterInv' /\ VersionInv'
    BY <1>0, <2>1, ServerStays
  <2>3. \A d \in Clients : d # c => ClientInv(d)'
    BY <1>0, <2>1, ClientStays
  <2>4. ClientInv(c)'
    <3>1. CASE Close(c) \/ Disconnect(c)
      <4>1. Leaves(c, Interrupted(c))
        BY <1>0, <3>1, Interrupts
      <4> QED BY <1>0, <4>1, ClientLeaves
    <3>2. CASE ListBegin(c)
      BY <1>0, <3>2, ClientListBegin
    <3>3. CASE Register(c)
      BY <1>0, <3>3, ClientRegister
    <3>4. CASE Resume(c)
      BY <1>0, <3>4, ClientResume
    <3>5. CASE StartInitial(c)
      BY <1>0, <3>5, ClientStartInitial
    <3>6. CASE SendInitial(c)
      BY <1>0, <3>6, ClientSendInitial
    <3>7. CASE Stream(c)
      BY <1>0, <3>7, ClientStream
    <3>8. ASSUME NEW o \in Objects, Visit(c, o) PROVE ClientInv(c)'
      BY <1>0, <3>8, ClientVisit
    <3> QED
      BY <1>6, <3>1, <3>2, <3>3, <3>4, <3>5, <3>6, <3>7, <3>8 DEF ClientStep
  <2> QED BY <1>0, <2>2, <2>3, <2>4 DEF RegistryInv
<1>7. CASE UNCHANGED vars
  <2>1. UNCHANGED <<server, life, misread, rewound>> /\ \A c \in Clients : SameClient(c)
    BY <1>7 DEF vars, watches, clients, SameClient
  <2>2. CounterInv' /\ VersionInv'
    BY <1>0, <2>1, ServerStays
  <2>3. \A c \in Clients : ClientInv(c)'
    BY <1>0, <2>1, ClientStays
  <2> QED BY <1>0, <2>2, <2>3 DEF RegistryInv
<1> QED BY <1>1, <1>2, <1>3, <1>4, <1>5, <1>6, <1>7 DEF Next

LEMMA RegistryInvariant == Spec => []RegistryInv
<1>1. RegistryInv /\ [Next]_vars => RegistryInv'
  BY RegistryStep
<1> QED BY RegistryInit, <1>1, PTL DEF Spec

-----------------------------------------------------------------------------
(* What it says about the events as sequences. *)

\* Where an event of Pending comes from, and that later ones have higher versions.
LEMMA PendingOrdered ==
  ASSUME TypeInv, CounterInv, NEW c \in Clients, QueueInv(c)
  PROVE  /\ Pending(c) \in Seq(Event) /\ Elems(Pending(c)) = Coming(c)
         /\ \A i, j \in DOMAIN Pending(c) : i < j => Pending(c)[i].rv < Pending(c)[j].rv
<1> DEFINE q == queue[c]
           qb == q \o bus
<1>1. /\ q \in Seq(Event) /\ bus \in Seq(Event) /\ lock \in Seq(Event)
      /\ Elems(q) \in SUBSET Event /\ Elems(bus) \in SUBSET Event
      /\ current \in Nat /\ \A f \in Event : f.rv \in Nat
  BY ComingType, WireType, SlotType DEF TypeInv
<1>2. qb \in Seq(Event) /\ Elems(qb) = Elems(q) \union Elems(bus)
  BY <1>1, ElemsConcat, ConcatProperties
<1>3. \A i, j \in DOMAIN qb : i < j => qb[i].rv < qb[j].rv
  <2>1. CASE bus = <<>>
    <3>1. qb = q
      BY <1>1, <2>1, ConcatEmptySeq
    <3> HIDE DEF qb
    <3> QED BY <3>1 DEF QueueInv
  <2>2. CASE bus # <<>>
    <3>1. bus = <<bus[1]>> /\ bus[1] \in Event
      BY <2>2, SlotType DEF TypeInv
    <3>2. Elems(bus) = {bus[1]}
      BY <3>1, ElemsOne
    <3>3. \A e \in Elems(q) : e.rv < bus[1].rv
      BY <3>2 DEF QueueInv
    <3>4. \A i, j \in DOMAIN q : i < j => q[i].rv < q[j].rv
      BY DEF QueueInv
    <3> QED BY <1>1, <3>1, <3>3, <3>4, OrderedAppend
  <2> QED BY <2>1, <2>2
<1>4. \A e \in Elems(qb) : e.rv <= current
  BY <1>2 DEF CounterInv, QueueInv
<1>5. Pending(c) = qb \o lock
  BY DEF Pending
<1> HIDE DEF qb
<1>6. Pending(c) \in Seq(Event) /\ Elems(Pending(c)) = Coming(c)
  BY <1>1, <1>2, <1>5, ElemsConcat, ConcatProperties DEF Coming, Wire
<1>7. CASE lock = <<>>
  <2>1. Pending(c) = qb
    BY <1>2, <1>5, <1>7, ConcatEmptySeq
  <2> QED BY <1>3, <1>6, <2>1
<1>8. CASE lock # <<>>
  <2>1. lock = <<lock[1]>> /\ lock[1] \in Event
    BY <1>8, SlotType DEF TypeInv
  <2>2. lock[1].rv = current + 1
    BY <2>1, ElemsOne DEF CounterInv
  <2>3. \A e \in Elems(qb) : e.rv < lock[1].rv
    BY <1>1, <1>2, <1>4, <2>2
  <2>4. \A i, j \in DOMAIN (qb \o <<lock[1]>>) :
          i < j => (qb \o <<lock[1]>>)[i].rv < (qb \o <<lock[1]>>)[j].rv
    BY <1>2, <1>3, <2>1, <2>3, OrderedAppend
  <2> QED BY <1>5, <1>6, <2>1, <2>4
<1> QED BY <1>7, <1>8

\* The last event pending for an object is the latest of those on their way.
LEMMA StreamingTold ==
  ASSUME TypeInv, CounterInv, NEW c \in Clients, ClientInv(c), Streaming(c), Trusted(c),
         NEW o \in Objects
  PROVE  Told(c, o)
<1> DEFINE s == Pending(c)
           p == PendingFor(c, o)
<1>1. /\ s \in Seq(Event) /\ Elems(s) = Coming(c)
      /\ \A i, j \in DOMAIN s : i < j => s[i].rv < s[j].rv
  BY PendingOrdered DEF ClientInv
<1>2. DOMAIN s = 1..Len(s) /\ Len(s) \in Nat /\ \A i \in DOMAIN s : s[i] \in Event
  BY <1>1, LenProperties, ElementOfSeq
<1>3. \A e \in Event : e.rv \in Nat
  BY WireType DEF TypeInv
<1>4. start[c] \in Nat
  BY RegistryAssumption DEF TypeInv, WatchType, Version
<1>5. p = {i \in DOMAIN s : s[i].obj = o /\ s[i].rv > start[c]}
  BY DEF PendingFor
<1>6. phase[c] = "stream" /\ ~cancelled[c] /\ todo[c] = {}
  BY DEF Streaming, ClientInv, PhaseInv
<1>7. \A e \in Coming(c) : \E i \in DOMAIN s : e = s[i]
  BY <1>1 DEF Elems
<1> HIDE DEF s, p
<1>8. CASE p = {}
  <2>1. \A e \in Coming(c) : e.obj = o => e.rv <= start[c]
    BY <1>2, <1>3, <1>4, <1>5, <1>7, <1>8
  <2>2. cache[c][o] = store[o]
    BY <1>6, <2>1 DEF ClientInv, KeptInv, Same
  <2> QED BY <1>8, <2>2 DEF Told, p
<1>9. CASE p # {}
  <2>1. Max(p) \in p /\ \A j \in p : j <= Max(p)
    <3>1. p \subseteq 0..Len(s)
      BY <1>2, <1>5
    <3> QED BY <1>2, <1>9, <3>1, GreatestNat
  <2> DEFINE m == Max(p)
             last == s[m]
  <2>2. m \in DOMAIN s /\ last.obj = o /\ last.rv > start[c] /\ last \in Event
    BY <1>2, <1>5, <2>1
  <2>3. last \in Coming(c)
    BY <1>1, <2>2 DEF Elems
  <2> HIDE DEF m
  <2>4. ASSUME NEW j \in DOMAIN s, s[j].obj = o PROVE s[j].rv <= last.rv
    <3>1. CASE s[j].rv > start[c]
      <4>1. j \in p /\ j <= m
        BY <1>5, <2>1, <2>4, <3>1 DEF m
      <4>2. j = m \/ j < m
        BY <1>2, <2>2, <4>1
      <4>3. j < m => s[j].rv < last.rv
        BY <1>1, <2>2
      <4> QED BY <1>2, <1>3, <2>2, <4>2, <4>3
    <3>2. CASE ~ (s[j].rv > start[c])
      BY <1>2, <1>3, <1>4, <2>2, <3>2
    <3> QED BY <3>1, <3>2
  <2>5. \A f \in Coming(c) : f.obj = last.obj => f.rv <= last.rv
    BY <1>7, <2>2, <2>4
  <2>6. Latest(store, Coming(c))
    BY <1>6 DEF ClientInv, QueueInv
  <2>7. store[o] = Result(last)
    BY <2>2, <2>3, <2>5, <2>6 DEF Latest
  <2> QED BY <1>9, <2>7 DEF Told, Result, p, s, m
<1> QED BY <1>8, <1>9

-----------------------------------------------------------------------------
(* The theorems. *)

\* Every value of the storage, the counter, the requests and the clients has its
\* type, and no watcher's queue outgrows watchQueueSize.
THEOREM RegistryTypeCorrect == Spec => []TypeOK
<1>1. RegistryInv => TypeOK
  BY TypesSplit DEF RegistryInv
<1> QED BY <1>1, RegistryInvariant, PTL

\* Unless the counter was initialised from an incomplete list, a version names
\* one stored object, none is stored above the counter and the write in
\* progress, and every watcher is told in the order of versions.
THEOREM VersionsAreOrderedAlways == Spec => []VersionsAreOrdered
<1>1. RegistryInv => VersionsAreOrdered
  <2> SUFFICES ASSUME RegistryInv, ~misread, ready
               PROVE  /\ \A o \in Stored : store[o] <= current + Len(lock)
                      /\ \A o, p \in Stored : store[o] = store[p] => o = p
                      /\ \A c \in Clients : \A i, j \in DOMAIN Pending(c) :
                           i < j => Pending(c)[i].rv < Pending(c)[j].rv
    BY DEF VersionsAreOrdered
  <2>1. \A c \in Clients : \A i, j \in DOMAIN Pending(c) :
          i < j => Pending(c)[i].rv < Pending(c)[j].rv
    BY PendingOrdered DEF RegistryInv, ClientInv
  <2> QED BY <2>1 DEF RegistryInv, VersionInv
<1> QED BY <1>1, RegistryInvariant, PTL

\* A watch leaves no gap: what a streaming client whose state can be trusted
\* holds, with the events on their way to it, is what is stored, whatever
\* writes, lists, other watches, overflows, broken connections and restarts
\* happened (rvAllocator.write, strategy.List, listAndWatch).
THEOREM StreamIsCompleteAlways == Spec => []StreamIsComplete
<1>1. RegistryInv => StreamIsComplete
  BY StreamingTold DEF StreamIsComplete, RegistryInv
<1> QED BY <1>1, RegistryInvariant, PTL
=============================================================================
