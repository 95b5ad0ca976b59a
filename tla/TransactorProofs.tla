-------------------------- MODULE TransactorProofs ---------------------------
(***************************************************************************)
(* Proofs about Transactor with the requests of ClearDeviation beside it:  *)
(* the types, that the statuses tell what the datastore holds, that no     *)
(* edit is forgotten, and that a cleared deviation is stored.              *)
(***************************************************************************)
EXTENDS ClearDeviation, TLAPS

\* TxTypeOK in the parts that a step leaves alone or not.
ConfigsType == configs \in [Names -> Config \cup {None}]
ServerType ==
  /\ store \in [Names -> Value] /\ backup \in [Names -> Value]
  /\ tx \in {"none", "pass", "clear", "recovery"}
RuntimeType ==
  /\ runtime \in {"down", "listed", "set", "Ready", "Failed", "up"}
  /\ replay \in [Names -> Value] /\ copies \in [Names -> Config \cup {None}]
PassType ==
  /\ rec \in {"idle", "set", "confirm", "update", "delete", "fail", "ready"}
  /\ snap \in [Names -> Config \cup {None}]
  /\ upd \in SUBSET Names /\ del \in SUBSET Names /\ left \in SUBSET Names
  /\ cur \in Names \cup {None}
  /\ mark \in {"Failed", "Unrecoverable"}
  /\ outcome \in {"ok", "retry", "stop", "blocked"}
GhostType == queued \in BOOLEAN /\ torn \in SUBSET Names
BoundsType ==
  edits \in 0 .. MaxEdits /\ fails \in 0 .. MaxFails /\ resets \in 0 .. MaxResets
Types == ConfigsType /\ ServerType /\ RuntimeType /\ PassType /\ GhostType /\ BoundsType

\* What the datastore holds when the open transaction is not confirmed.
Kept(c) == IF tx = "none" THEN store[c] ELSE backup[c]

\* The status write of a confirmed Config is still to come.
Pending(c) == rec = "update" /\ c \in left

\* A Config waits for its deletion only with the finalizer, and shows an applied
\* config without it only if torn, by the stale status of one that was there before.
Owned(c) == configs[c] # None /\ configs[c].applied # None => configs[c].fin
OwnerInv ==
  \A c \in Names :
    /\ configs[c] # None /\ configs[c].deleting => configs[c].fin
    /\ Owned(c) \/ c \in torn \/ Pending(c)

\* The part of a Config that the recovery and updateConfigsForTarget leave alone.
SameOwner(c) ==
  /\ configs[c] = None <=> configs'[c] = None
  /\ configs[c] # None => /\ configs'[c].deleting = configs[c].deleting
                          /\ configs'[c].fin = configs[c].fin
                          /\ c \notin torn' => configs'[c].applied = configs[c].applied

InTransact == rec \in {"set", "confirm", "update", "delete", "fail"}

\* A pass: what it lists it updates or deletes, what it deletes stays until it
\* removes the finalizer, and the Config in between has the finalizer.
PassInv ==
  /\ InTransact => /\ upd = {c \in Present(snap) : ~snap[c].deleting}
                   /\ del = {c \in Present(snap) : snap[c].deleting}
                   /\ upd \cup del # {}
  /\ rec \in {"update", "fail"} => left \subseteq upd \cup del
  /\ rec = "update" => left \subseteq upd
  /\ rec = "delete" => left \subseteq del /\ del # {}
  /\ rec \in {"set", "confirm", "update", "fail"} =>
       \A c \in del : configs[c] # None /\ configs[c].deleting
  /\ rec = "delete" => \A c \in left : configs[c] # None /\ configs[c].deleting
  /\ cur # None => /\ rec \in {"update", "fail"}
                   /\ cur \in left /\ configs[cur] # None /\ configs[cur].fin

\* The list of updateConfigsForTarget: nobody else writes applied configs.
ReadyInv ==
  rec = "ready" =>
    /\ left \subseteq Present(snap)
    /\ \A c \in Names \ torn : snap[c] # None =>
      /\ snap[c].applied # None => snap[c].fin
      /\ snap[c].fin => configs[c] # None /\ configs[c].fin
      /\ configs[c] # None => configs[c].applied = snap[c].applied

\* The transaction in flight and the ghost.
FlightInv ==
  /\ InFlight => \A c \in upd : configs[c] = None => c \in torn
  /\ InFlight /\ runtime # "up" => upd \cup del \subseteq torn
  /\ rec = "confirm" /\ tx = "pass" =>
       \A c \in Names : store[c] = IF c \in upd THEN snap[c].spec
                                   ELSE IF c \in del THEN None ELSE backup[c]
  /\ tx = "clear" => \A c \in Names \ torn : store[c] = backup[c]

\* The replay is there for the runtime.
Recovered == runtime \in {"Ready", "up"}

\* What the recovery has set and is about to confirm; and the copies that
\* setRecoveredConfigs still has to write, which are stale for torn Configs only.
RecoverInv ==
  /\ runtime = "set" /\ tx = "recovery" =>
       \A c \in Names : store[c] = IF replay[c] = None THEN backup[c] ELSE replay[c]
  /\ \A c \in Names : copies[c] # None =>
       /\ runtime \in {"Ready", "Failed"}
       /\ c \notin torn => /\ configs[c] # None /\ configs[c].fin
                           /\ configs[c].applied = copies[c].applied

\* What one Config says of what the datastore keeps.
Told(c) ==
  /\ configs[c] = None => Kept(c) = None
  /\ Live(c) => IF Pending(c) THEN Kept(c) = snap[c].spec
                ELSE \/ Kept(c) = configs[c].applied
                     \/ ~Recovered /\ Kept(c) = None
  /\ rec \in {"update", "delete"} /\ c \in del => Kept(c) = None
  /\ runtime \in {"listed", "set"} =>
       replay[c] = IF configs[c] = None THEN None ELSE configs[c].applied

ToldInv == \A c \in Names \ torn : Told(c)

\* A Config for which the reconciler does not try again by itself.
Stuck == \E c \in Present(configs) : configs[c].deleting \/ ~IsRecoverable(configs[c])
Settled == Stuck \/ \A c \in Present(configs) : NoChange(configs[c]) /\ configs[c].ready = "True"

\* Without a request nothing has changed since the list of the pass, and outside
\* of a pass there is nothing to do.
QueueInv ==
  /\ rec = "fail" => outcome # "blocked"
  /\ ~queued =>
     /\ rec = "idle" /\ runtime = "up" => Settled
     /\ rec # "idle" => configs = snap
     /\ rec = "update" => \A c \in upd \ left : NoChange(configs[c])
     /\ rec = "fail" /\ outcome # "retry" => mark = "Unrecoverable" /\ (left # {} \/ Stuck)
     /\ rec = "ready" => left # {} /\ \A c \in left :
          /\ configs[c] # None
          /\ configs[c].ready # ShownReady(outcome, configs[c]) \/ configs[c].devGen

\* A clear transaction that waits for its confirm has set what was asked for.
ClearInv ==
  req.pc = "confirm" /\ tx = "clear" => \A c \in Wanted : store[c] = req.want[c]

TransactorInv ==
  /\ Types /\ ClearTypeOK /\ OwnerInv /\ PassInv /\ ReadyInv
  /\ FlightInv /\ RecoverInv /\ ToldInv /\ QueueInv /\ ClearInv

----------------------------------------------------------------------------
(* Bounds, and what a step leaves alone. *)

\* A failed call, a loss or a request, and an edit stay in their bounds.
LEMMA BoundsStay ==
  ASSUME BoundsType,
         Fails \/ UNCHANGED fails,
         Resets \/ UNCHANGED resets,
         (edits < MaxEdits /\ edits' = edits + 1) \/ UNCHANGED edits
  PROVE  BoundsType'
<1>1. fails' \in 0 .. MaxFails
  BY TransactorAssumption DEF BoundsType, Fails
<1>2. resets' \in 0 .. MaxResets
  BY TransactorAssumption DEF BoundsType, Resets
<1>3. edits' \in 0 .. MaxEdits
  BY TransactorAssumption DEF BoundsType
<1> QED
  BY <1>1, <1>2, <1>3 DEF BoundsType

\* The pass and the Configs stay.
LEMMA PassStays ==
  ASSUME PassType, OwnerInv, PassInv, ReadyInv, ConfigsType,
         UNCHANGED <<configs, rec, passVars>>, torn \subseteq torn'
  PROVE  PassType' /\ OwnerInv' /\ PassInv' /\ ReadyInv' /\ ConfigsType'
<1>1. UNCHANGED <<snap, upd, del, left, cur, mark, outcome>>
  BY DEF passVars
<1> QED
  BY <1>1 DEF PassType, OwnerInv, Owned, Pending, PassInv, ReadyInv, ConfigsType, InTransact,
              Present

\* A step that makes no request leaves the Configs alone, and so what there is to do.
LEMMA QueueKeeps ==
  ASSUME QueueInv, UNCHANGED <<rec, snap, upd, left, mark, outcome>>,
         runtime' = runtime \/ runtime' # "up" \/ queued',
         ~queued' => ~queued /\ configs' = configs
  PROVE  QueueInv'
  BY DEF QueueInv, Settled, Stuck, Present, NoChange, IsRecoverable, ShownReady

\* The same for a step that leaves the whole pass alone.
LEMMA QueueStays ==
  ASSUME QueueInv, UNCHANGED <<rec, passVars>>,
         runtime' = runtime \/ runtime' # "up" \/ queued',
         ~queued' => ~queued /\ configs' = configs
  PROVE  QueueInv'
  BY QueueKeeps DEF passVars

\* The request stays, and the store while a clear transaction is open.
LEMMA ClearStays ==
  ASSUME ClearTypeOK, ClearInv, UNCHANGED cdVars,
         tx' = "clear" => tx = "clear" /\ store' = store
  PROVE  ClearTypeOK' /\ ClearInv'
  BY DEF ClearTypeOK, ClearInv, cdVars, Wanted

\* The runtime stays, and so what it recovered, for the Configs that keep what they
\* call applied.
LEMMA RecoverStays ==
  ASSUME RecoverInv, UNCHANGED runtimeVars,
         runtime = "up" \/ torn \subseteq torn',
         tx' = "recovery" => tx = "recovery" /\ UNCHANGED <<store, backup>>,
         runtime # "up" => \A c \in Names \ torn' : configs[c] # None /\ configs[c].fin =>
           /\ configs'[c] # None /\ configs'[c].fin
           /\ configs'[c].applied = configs[c].applied
  PROVE  RecoverInv'
<1>1. UNCHANGED <<runtime, replay, copies>>
  BY DEF runtimeVars
<1>2. CASE runtime = "up"
  BY <1>1, <1>2 DEF RecoverInv
<1>3. CASE runtime # "up"
  BY <1>1, <1>3 DEF RecoverInv
<1> QED
  BY <1>2, <1>3

----------------------------------------------------------------------------
(* The user. *)

\* A Config as the users see it: what was applied stays with it, a finalizer keeps
\* it, and a deletion is not taken back.
LEMMA EditStep ==
  ASSUME TransactorInv, NEW c \in Names, NEW o \in Config \cup {None},
         Edit([configs EXCEPT ![c] = o]), UNCHANGED cdVars,
         torn' \in SUBSET Names, torn \subseteq torn',
         o # None => (o.deleting => o.fin)
                     /\ (o.applied # None => o.fin \/ c \in torn' \/ Pending(c)),
         c \notin torn' => (IF o = None THEN None ELSE o.applied)
                             = (IF configs[c] = None THEN None ELSE configs[c].applied),
         configs[c] # None /\ configs[c].fin =>
           o # None /\ o.fin /\ (configs[c].deleting => o.deleting),
         o # None /\ ~o.deleting => configs[c] = None \/ ~configs[c].deleting,
         o = None => configs[c] = None \/ ~configs[c].deleting,
         o = None /\ InFlight /\ c \in upd => c \in torn'
  PROVE  TransactorInv'
<1>1. /\ configs' = [configs EXCEPT ![c] = o]
      /\ queued' = (queued \/ configs' # configs)
      /\ edits < MaxEdits /\ edits' = edits + 1
      /\ UNCHANGED <<store, tx, backup, runtimeVars, rec, passVars, fails, resets>>
      /\ UNCHANGED <<runtime, replay, copies>>
      /\ UNCHANGED <<snap, upd, del, left, cur, mark, outcome>>
  BY DEF Edit, Write, Event, serverVars, runtimeVars, passVars
<1>2. Types /\ ConfigsType
  BY DEF TransactorInv, Types
<1>3. /\ configs'[c] = o
      /\ \A d \in Names : d # c => configs'[d] = configs[d]
  BY <1>1, <1>2 DEF ConfigsType
<1>4. Types'
  <2>1. ConfigsType' /\ ServerType' /\ RuntimeType' /\ PassType' /\ GhostType'
    BY <1>1, <1>2 DEF Types, ConfigsType, ServerType, RuntimeType, PassType, GhostType, passVars
  <2>2. BoundsType'
    BY <1>1, <1>2, BoundsStay DEF Types
  <2> QED
    BY <2>1, <2>2 DEF Types
<1>5. OwnerInv'
  <2>1. \A d \in Names : Pending(d)' = Pending(d)
    BY <1>1 DEF Pending
  <2>2. OwnerInv /\ torn \subseteq torn'
    BY DEF TransactorInv
  <2> QED
    BY <1>3, <2>1, <2>2 DEF OwnerInv, Owned
<1>6. PassInv'
  <2>1. \A d \in Names : configs[d] # None /\ configs[d].deleting =>
           configs'[d] # None /\ configs'[d].deleting
    BY <1>3 DEF TransactorInv, OwnerInv
  <2>2. cur # None => configs'[cur] # None /\ configs'[cur].fin
    BY <1>3, <1>2 DEF TransactorInv, PassInv, Types, PassType
  <2> QED
    BY <1>1, <1>2, <2>1, <2>2
       DEF TransactorInv, PassInv, InTransact, Present, Types, PassType
<1>7. ReadyInv'
  BY <1>1, <1>3 DEF TransactorInv, ReadyInv, Present
<1>8. FlightInv'
  <2>1. InFlight' = InFlight
    BY <1>1 DEF InFlight
  <2>2. InFlight => \A d \in upd : configs'[d] = None => d \in torn'
    BY <1>2, <1>3 DEF TransactorInv, FlightInv, Types, PassType
  <2> QED
    BY <1>1, <2>1, <2>2 DEF TransactorInv, FlightInv
<1>9. ToldInv'
  <2> SUFFICES ASSUME NEW d \in Names, d \notin torn' PROVE Told(d)'
    BY DEF ToldInv
  <2>1. Told(d) /\ d \notin torn
    BY DEF TransactorInv, ToldInv
  <2>2. Kept(d)' = Kept(d) /\ Pending(d)' = Pending(d)
    BY <1>1 DEF Kept, Pending
  <2>3. CASE d # c
    BY <1>1, <1>3, <2>1, <2>2, <2>3 DEF Told, Recovered, Live
  <2>4. CASE d = c
    <3>1. Pending(c) => InFlight /\ c \in upd
      BY DEF Pending, InFlight, TransactorInv, PassInv
    <3>2. configs[c] = None => ~Pending(c)
      BY <3>1, <2>1, <2>4 DEF TransactorInv, FlightInv
    <3>3. o = None => ~Pending(c)
      BY <3>1, <2>4
    <3>4. configs'[c] = None => Kept(c) = None
      BY <1>3, <2>1, <2>4, <3>3 DEF Told, Recovered, Live
    <3>5. Live(c)' => IF Pending(c) THEN Kept(c) = snap[c].spec
                      ELSE \/ Kept(c) = configs'[c].applied
                           \/ ~Recovered /\ Kept(c) = None
      BY <1>3, <2>1, <2>4, <3>2 DEF Told, Recovered, Live
    <3> QED
      BY <1>1, <1>3, <2>1, <2>2, <2>4, <3>4, <3>5 DEF Told, Recovered
  <2> QED
    BY <2>3, <2>4
<1>10. QueueInv'
  BY <1>1, QueueStays DEF TransactorInv
<1>11. ClearTypeOK' /\ ClearInv'
  BY <1>1, ClearStays DEF TransactorInv
<1>12. RecoverInv'
  BY <1>1, <1>3, RecoverStays DEF TransactorInv
<1> QED
  BY <1>4, <1>5, <1>6, <1>7, <1>8, <1>9, <1>10, <1>11, <1>12 DEF TransactorInv

\* An edited or deleted Config is a Config, of the next generation.
LEMMA EditedConfig ==
  ASSUME NEW o \in Config
  PROVE  /\ \A s \in Specs : LET n == [o EXCEPT !.spec = s, !.gen = @ + 1]
                             IN  /\ n \in Config /\ n.deleting = o.deleting
                                 /\ n.fin = o.fin /\ n.applied = o.applied
         /\ LET n == [o EXCEPT !.deleting = TRUE, !.gen = @ + 1]
            IN  n \in Config /\ n.deleting /\ n.fin = o.fin /\ n.applied = o.applied
<1>1. o.gen + 1 \in Nat
  BY DEF Config
<1>2. \A g \in Nat, s \in Specs : LET n == [o EXCEPT !.spec = s, !.gen = g]
                                 IN  /\ n \in Config /\ n.deleting = o.deleting
                                     /\ n.fin = o.fin /\ n.applied = o.applied
  BY DEF Config
<1>3. \A g \in Nat : LET n == [o EXCEPT !.deleting = TRUE, !.gen = g]
                    IN  n \in Config /\ n.deleting /\ n.fin = o.fin /\ n.applied = o.applied
  BY DEF Config
<1> QED
  BY <1>1, <1>2, <1>3

\* The user creates, edits or deletes a Config.
LEMMA UserStep ==
  ASSUME TransactorInv, UNCHANGED cdVars,
         \/ \E c \in Names, s \in Specs : CreateConfig(c, s) \/ UpdateConfig(c, s)
         \/ \E c \in Names : DeleteConfig(c)
  PROVE  TransactorInv'
<1>0. configs \in [Names -> Config \cup {None}] /\ torn \in SUBSET Names /\ OwnerInv
  BY DEF TransactorInv, Types, ConfigsType, GhostType
<1>1. ASSUME NEW c \in Names, NEW s \in Specs, CreateConfig(c, s) PROVE TransactorInv'
  <2> DEFINE o == NewConfig(s)
  <2>1. o \in Config /\ ~o.deleting /\ ~o.fin /\ o.applied = None
    BY DEF NewConfig, Config, Value
  <2>2. configs[c] = None /\ Edit([configs EXCEPT ![c] = o]) /\ torn' = torn
    BY <1>1 DEF CreateConfig
  <2>3. o # None
    BY <2>1, TransactorAssumption
  <2> HIDE DEF o
  <2> QED
    BY <1>0, <2>1, <2>2, <2>3, EditStep
<1>2. ASSUME NEW c \in Names, NEW s \in Specs, UpdateConfig(c, s) PROVE TransactorInv'
  <2> DEFINE o == [configs[c] EXCEPT !.spec = s, !.gen = @ + 1]
  <2>1. configs[c] \in Config /\ configs[c] # None /\ ~configs[c].deleting
    BY <1>0, <1>2 DEF UpdateConfig
  <2>2. /\ o \in Config /\ o.deleting = configs[c].deleting /\ o.fin = configs[c].fin
        /\ o.applied = configs[c].applied
    BY <2>1, EditedConfig
  <2>3. o # None
    BY <2>2, TransactorAssumption
  <2>4. Edit([configs EXCEPT ![c] = o]) /\ torn' = torn
    <3>1. [configs EXCEPT ![c].spec = s, ![c].gen = @ + 1] = [configs EXCEPT ![c] = o]
      BY <1>0, <2>1
    <3> QED
      BY <1>2, <3>1 DEF UpdateConfig
  <2>5. configs[c].applied # None => configs[c].fin \/ c \in torn' \/ Pending(c)
    BY <1>0, <2>1, <2>4 DEF OwnerInv, Owned
  <2> HIDE DEF o
  <2> QED
    BY <1>0, <2>1, <2>2, <2>3, <2>4, <2>5, EditStep
<1>3. ASSUME NEW c \in Names, DeleteConfig(c), configs[c].fin PROVE TransactorInv'
  <2> DEFINE o == [configs[c] EXCEPT !.deleting = TRUE, !.gen = @ + 1]
  <2>1. configs[c] \in Config /\ configs[c] # None /\ ~configs[c].deleting
    BY <1>0, <1>3 DEF DeleteConfig
  <2>2. o \in Config /\ o.deleting /\ o.fin = configs[c].fin /\ o.applied = configs[c].applied
    BY <2>1, EditedConfig
  <2>3. o # None
    BY <2>2, TransactorAssumption
  <2>4. Edit([configs EXCEPT ![c] = o]) /\ torn' = torn
    <3>1. [configs EXCEPT ![c].deleting = TRUE, ![c].gen = @ + 1] = [configs EXCEPT ![c] = o]
      BY <1>0, <2>1
    <3> QED
      BY <1>3, <3>1 DEF DeleteConfig
  <2> HIDE DEF o
  <2> QED
    BY <1>0, <1>3, <2>1, <2>2, <2>3, <2>4, EditStep
<1>4. ASSUME NEW c \in Names, DeleteConfig(c), ~configs[c].fin PROVE TransactorInv'
  <2>1. configs[c] \in Config /\ configs[c] # None /\ ~configs[c].deleting
    BY <1>0, <1>4 DEF DeleteConfig
  <2>2. /\ Edit([configs EXCEPT ![c] = None])
        /\ torn' = IF InFlight /\ c \in upd THEN torn \cup {c} ELSE torn
    BY <1>4 DEF DeleteConfig
  <2>3. torn' \in SUBSET Names /\ torn \subseteq torn' /\ (InFlight /\ c \in upd => c \in torn')
    BY <1>0, <2>2
  <2>4. c \notin torn' => configs[c].applied = None
    <3>1. Pending(c) => c \in torn'
      BY <2>3 DEF Pending, InFlight, TransactorInv, PassInv
    <3> QED
      BY <1>0, <1>4, <2>1, <2>3, <3>1 DEF OwnerInv, Owned
  <2> QED
    BY <1>0, <1>4, <2>1, <2>2, <2>3, <2>4, EditStep
<1> QED
  BY <1>1, <1>2, <1>3, <1>4

----------------------------------------------------------------------------
(* The data-server and cleardeviation requests. *)

\* A step of the data-server that changes nothing of what it keeps for a Config
\* that is not torn.
LEMMA ServerStep ==
  ASSUME TransactorInv, UNCHANGED <<configs, runtimeVars, rec, passVars, queued>>,
         ServerType', torn' \in SUBSET Names, torn \subseteq torn', BoundsType',
         ClearTypeOK', ClearInv',
         \A c \in Names \ torn' : Kept(c)' = Kept(c),
         tx' \in {"pass", "recovery"} => UNCHANGED serverVars,
         tx' = "clear" => \A c \in Names \ torn' : store'[c] = backup'[c]
  PROVE  TransactorInv'
<1>1. /\ UNCHANGED <<configs, runtime, replay, copies, rec, queued>>
      /\ UNCHANGED <<snap, upd, del, left, cur, mark, outcome>>
  BY DEF runtimeVars, passVars
<1>2. PassType' /\ OwnerInv' /\ PassInv' /\ ReadyInv' /\ ConfigsType'
  BY PassStays DEF TransactorInv, Types
<1>3. Types'
  BY <1>1, <1>2 DEF TransactorInv, Types, RuntimeType, GhostType
<1>4. QueueInv'
  BY <1>1, QueueStays DEF TransactorInv
<1>5. FlightInv'
  BY <1>1 DEF TransactorInv, FlightInv, InFlight, serverVars
<1>6. ToldInv'
  <2> SUFFICES ASSUME NEW c \in Names, c \notin torn' PROVE Told(c)'
    BY DEF ToldInv
  <2>1. Told(c)
    BY DEF TransactorInv, ToldInv
  <2> QED
    BY <1>1, <2>1 DEF Told, Recovered, Live, Pending
<1>7. RecoverInv'
  BY RecoverStays DEF TransactorInv, serverVars
<1> QED
  BY <1>2, <1>3, <1>4, <1>5, <1>6, <1>7 DEF TransactorInv

\* The timeout of a transaction brings back what it would have kept.
LEMMA RollbackStep ==
  ASSUME TransactorInv, UNCHANGED cdVars, Rollback PROVE TransactorInv'
<1>1. /\ tx # "none" /\ tx' = "none" /\ store' = backup
      /\ backup' = NoConfigs /\ torn' = torn
      /\ UNCHANGED <<configs, runtimeVars, rec, passVars, queued>>
  BY DEF Rollback
<1>2. BoundsType'
  BY BoundsStay DEF Rollback, TransactorInv, Types
<1>3. ServerType' /\ torn' \in SUBSET Names
  BY <1>1 DEF TransactorInv, Types, ServerType, GhostType, NoConfigs, Value
<1>4. \A c \in Names : Kept(c)' = Kept(c)
  BY <1>1 DEF Kept
<1>5. ClearTypeOK' /\ ClearInv'
  BY <1>1, ClearStays DEF TransactorInv
<1> QED
  BY <1>1, <1>2, <1>3, <1>4, <1>5, ServerStep

\* A request that is answered, or tried again, has the right type.
LEMMA RetryType ==
  ASSUME ClearTypeOK, req.pc # "idle",
         NEW r \in {"none", "cleared", "unconfirmed", "failed"}, Retry(r)
  PROVE  ClearTypeOK' /\ req'.pc # "confirm"
<1>1. CASE Answer(r)
  <2>1. NoRequest \in [pc : {"idle", "set", "confirm"}, want : [Names -> Value],
                       attempt : 0 .. MaxAttempts]
    BY ClearAssumption DEF NoRequest, NoConfigs, Value
  <2>2. NoRequest.pc = "idle" /\ \A c \in Names : NoRequest.want[c] = None
    BY DEF NoRequest, NoConfigs
  <2> QED
    BY <1>1, <2>1, <2>2 DEF ClearTypeOK, Answer, Wanted
<1>2. CASE /\ req.attempt < MaxAttempts
           /\ req' = [req EXCEPT !.pc = "set", !.attempt = @ + 1]
           /\ UNCHANGED reply
  <2>1. req \in [pc : {"idle", "set", "confirm"}, want : [Names -> Value],
                 attempt : 0 .. MaxAttempts]
    BY DEF ClearTypeOK
  <2>2. req.attempt + 1 \in 0 .. MaxAttempts
    BY <1>2, <2>1, ClearAssumption
  <2>3. /\ req' \in [pc : {"idle", "set", "confirm"}, want : [Names -> Value],
                     attempt : 0 .. MaxAttempts]
        /\ req'.pc = "set" /\ req'.want = req.want
    BY <1>2, <2>1, <2>2
  <2> QED
    BY <1>2, <2>3 DEF ClearTypeOK, Wanted
<1> QED
  BY <1>1, <1>2 DEF Retry

\* The data-server takes the transaction of a request.
LEMMA ServeClearFacts ==
  ASSUME TransactorInv, ServeClear
  PROVE  /\ ServerType' /\ torn' \in SUBSET Names /\ torn \subseteq torn'
         /\ tx' = "clear"
         /\ \A c \in Names : Kept(c)' = Kept(c)
         /\ \A c \in Names \ torn' : store'[c] = backup'[c]
         /\ \A c \in Wanted : store'[c] = req.want[c]
<1>1. /\ tx = "none" /\ tx' = "clear" /\ backup' = store
      /\ store' = [c \in Names |-> IF c \in Wanted THEN req.want[c] ELSE store[c]]
      /\ torn' = torn \cup {c \in Wanted : req.want[c] # store[c]}
  BY DEF ServeClear
<1>2. ServerType /\ torn \in SUBSET Names /\ Wanted \subseteq Names
      /\ req.want \in [Names -> Value]
  BY DEF TransactorInv, Types, GhostType, Wanted, ClearTypeOK
<1>3. ServerType' /\ torn' \in SUBSET Names /\ torn \subseteq torn'
  BY <1>1, <1>2 DEF ServerType
<1>4. \A c \in Names : Kept(c)' = Kept(c)
  BY <1>1 DEF Kept
<1>5. \A c \in Names \ torn' : store'[c] = backup'[c]
  BY <1>1, <1>2
<1>6. \A c \in Wanted : store'[c] = req.want[c]
  BY <1>1, <1>2
<1> QED
  BY <1>1, <1>3, <1>4, <1>5, <1>6

\* The transaction of a request is confirmed: only torn Configs see it.
LEMMA ClearCommitFacts ==
  ASSUME TransactorInv, tx = "clear", tx' = "none", backup' = NoConfigs,
         UNCHANGED <<store, torn>>
  PROVE  ServerType' /\ \A c \in Names \ torn' : Kept(c)' = Kept(c)
<1>1. ServerType'
  BY DEF TransactorInv, Types, ServerType, NoConfigs, Value
<1>2. \A c \in Names \ torn' : Kept(c)' = Kept(c)
  BY DEF TransactorInv, FlightInv, Kept
<1> QED
  BY <1>1, <1>2

\* Every step of a request.
LEMMA ClearRequestStep ==
  ASSUME TransactorInv,
         (\E cs \in SUBSET Names : ClearDeviations(cs)) \/ ClearStep
  PROVE  TransactorInv'
<1>0. /\ ClearTypeOK /\ BoundsType /\ ServerType /\ torn \in SUBSET Names
      /\ configs \in [Names -> Config \cup {None}]
  BY DEF TransactorInv, Types, GhostType, ConfigsType
<1>1. ASSUME UNCHANGED serverVars, torn' = torn
      PROVE  /\ ServerType' /\ torn' \in SUBSET Names /\ torn \subseteq torn'
             /\ \A c \in Names \ torn' : Kept(c)' = Kept(c)
             /\ tx' = "clear" => \A c \in Names \ torn' : store'[c] = backup'[c]
  <2>1. tx' = tx /\ store' = store /\ backup' = backup
    BY <1>1 DEF serverVars
  <2> QED
    BY <1>0, <1>1, <2>1 DEF ServerType, Kept, TransactorInv, FlightInv
<1>2. ASSUME NEW cs \in SUBSET Names, ClearDeviations(cs) PROVE TransactorInv'
  <2>1. BoundsType'
    BY <1>0, <1>2, BoundsStay DEF ClearDeviations
  <2>2. /\ req' = [pc |-> "set", attempt |-> 1,
                   want |-> [c \in Names |-> IF c \in cs THEN configs[c].spec ELSE None]]
        /\ reply' = "none" /\ cs # {} /\ cs \subseteq Present(configs)
    BY <1>2 DEF ClearDeviations
  <2>3. \A c \in cs : configs[c].spec \in Specs /\ configs[c].spec # None
    BY <1>0, <2>2, TransactorAssumption DEF Present, Config
  <2>4. /\ req'.pc = "set"
        /\ req'.want = [c \in Names |-> IF c \in cs THEN configs[c].spec ELSE None]
    BY <2>2
  <2>5. req'.want \in [Names -> Value] /\ 1 \in 0 .. MaxAttempts
    BY <2>3, <2>4, ClearAssumption DEF Value
  <2>6. Wanted' # {}
    BY <2>2, <2>3, <2>4 DEF Wanted
  <2>7. ClearTypeOK' /\ ClearInv'
    BY <2>2, <2>4, <2>5, <2>6 DEF ClearTypeOK, ClearInv
  <2> QED
    BY <1>1, <1>2, <2>1, <2>7, ServerStep DEF ClearDeviations
<1>3. CASE ClearSet
  <2>1. BoundsType'
    BY <1>0, <1>3, BoundsStay DEF ClearSet, envVars
  <2>2. ClearTypeOK' /\ req'.want = req.want /\ Wanted' = Wanted
    BY <1>0, <1>3 DEF ClearSet, ClearTypeOK, Wanted
  <2>3. ClearInv'
    BY <1>3, <2>2, ServeClearFacts DEF ClearSet, ClearInv
  <2> QED
    BY <1>3, <2>1, <2>2, <2>3, ServeClearFacts, ServerStep DEF ClearSet
<1>4. CASE ClearAborted
  <2>1. BoundsType'
    BY <1>0, <1>4, BoundsStay DEF ClearAborted, envVars
  <2>2. ClearTypeOK' /\ ClearInv'
    BY <1>0, <1>4, RetryType DEF ClearAborted, ClearInv
  <2> QED
    BY <1>1, <1>4, <2>1, <2>2, ServerStep DEF ClearAborted
<1>5. CASE ClearSetFails
  <2>1. BoundsType'
    BY <1>0, <1>5, BoundsStay DEF ClearSetFails
  <2>2. ClearTypeOK' /\ ClearInv'
    BY <1>0, <1>5, RetryType DEF ClearSetFails, ClearInv
  <2>3. CASE ServeClear
    BY <1>5, <2>1, <2>2, <2>3, ServeClearFacts, ServerStep DEF ClearSetFails
  <2>4. CASE UNCHANGED <<serverVars, torn>>
    BY <1>1, <1>5, <2>1, <2>2, <2>4, ServerStep DEF ClearSetFails
  <2> QED
    BY <1>5, <2>3, <2>4 DEF ClearSetFails
<1>6. CASE ClearRejected
  <2>1. BoundsType'
    BY <1>0, <1>6, BoundsStay DEF ClearRejected
  <2>2. ClearTypeOK' /\ ClearInv'
    BY <1>0, <1>6 DEF ClearRejected, ClearTypeOK, ClearInv, Wanted, serverVars
  <2> QED
    BY <1>1, <1>6, <2>1, <2>2, ServerStep DEF ClearRejected
<1>7. CASE ClearConfirm
  <2>1. BoundsType'
    BY <1>0, <1>7, BoundsStay DEF ClearConfirm, envVars
  <2>2. ClearTypeOK' /\ ClearInv'
    BY <1>0, <1>7, RetryType DEF ClearConfirm, ClearInv, Retry
  <2> QED
    BY <1>0, <1>7, <2>1, <2>2, ClearCommitFacts, ServerStep DEF ClearConfirm
<1>8. CASE ClearConfirmFails
  <2>1. BoundsType'
    BY <1>0, <1>8, BoundsStay DEF ClearConfirmFails
  <2>2. ClearTypeOK' /\ ClearInv'
    BY <1>0, <1>8, RetryType DEF ClearConfirmFails, ClearInv
  <2>3. CASE tx = "clear" /\ tx' = "none" /\ backup' = NoConfigs
    BY <1>0, <1>8, <2>1, <2>2, <2>3, ClearCommitFacts, ServerStep DEF ClearConfirmFails
  <2>4. CASE UNCHANGED <<tx, backup>>
    BY <1>1, <1>8, <2>1, <2>2, <2>4, ServerStep DEF ClearConfirmFails, serverVars
  <2> QED
    BY <1>8, <2>3, <2>4 DEF ClearConfirmFails
<1> QED
  BY <1>2, <1>3, <1>4, <1>5, <1>6, <1>7, <1>8 DEF ClearStep

----------------------------------------------------------------------------
(* The datastore is lost and recovered. *)

\* The datastore is empty: what was in flight is torn, nothing else is claimed.
LEMMA StoreIsLostStep ==
  ASSUME TransactorInv, UNCHANGED cdVars, StoreIsLost PROVE TransactorInv'
<1>1. /\ store' = NoConfigs /\ tx' = "none" /\ backup' = NoConfigs
      /\ runtime' = "down" /\ replay' = NoConfigs /\ copies' = NoConfigs
      /\ torn' = IF InFlight THEN torn \cup upd \cup del ELSE torn
      /\ UNCHANGED <<configs, rec, passVars, queued>>
      /\ UNCHANGED <<snap, upd, del, left, cur, mark, outcome>>
  BY DEF StoreIsLost, RuntimeDown, passVars
<1>2. torn' \in SUBSET Names /\ torn \subseteq torn' /\ (InFlight => upd \cup del \subseteq torn')
  BY <1>1 DEF TransactorInv, Types, PassType, GhostType
<1>3. PassType' /\ OwnerInv' /\ PassInv' /\ ReadyInv' /\ ConfigsType'
  BY <1>1, <1>2, PassStays DEF TransactorInv, Types
<1>4. BoundsType'
  BY BoundsStay DEF StoreIsLost, TransactorInv, Types
<1>5. Types'
  BY <1>1, <1>3, <1>2, <1>4
     DEF TransactorInv, Types, ServerType, RuntimeType, GhostType, NoConfigs, Value
<1>6. QueueInv'
  BY <1>1, QueueStays DEF TransactorInv
<1>7. FlightInv'
  <2>1. InFlight' = InFlight
    BY <1>1 DEF InFlight
  <2> QED
    BY <1>1, <1>2, <2>1 DEF TransactorInv, FlightInv
<1>8. ToldInv'
  <2> SUFFICES ASSUME NEW c \in Names, c \notin torn' PROVE Told(c)'
    BY DEF ToldInv
  <2>1. Kept(c)' = None
    BY <1>1 DEF Kept, NoConfigs
  <2>2. ~Pending(c)'
    BY <1>1, <1>2 DEF Pending, InFlight, TransactorInv, PassInv
  <2> QED
    BY <1>1, <2>1, <2>2 DEF Told, Recovered
<1>9. ClearTypeOK' /\ ClearInv'
  BY <1>1, ClearStays DEF TransactorInv
<1>10. RecoverInv'
  BY <1>1 DEF RecoverInv, NoConfigs
<1> QED
  BY <1>3, <1>5, <1>6, <1>7, <1>8, <1>9, <1>10 DEF TransactorInv

\* A step of RecoverConfigs that writes no status: the request, if there is one, stays.
LEMMA RuntimeStep ==
  ASSUME TransactorInv, UNCHANGED cdVars, UNCHANGED <<configs, rec, passVars, torn>>,
         runtime # "up", queued' \in BOOLEAN, queued => queued',
         runtime' # "up" \/ queued',
         BoundsType', ServerType', RuntimeType', RecoverInv', ToldInv',
         tx' \in {"pass", "clear"} => UNCHANGED <<store, tx, backup>>
  PROVE  TransactorInv'
<1>1. UNCHANGED <<snap, upd, del, left, cur, mark, outcome>>
  BY DEF passVars
<1>2. PassType' /\ OwnerInv' /\ PassInv' /\ ReadyInv' /\ ConfigsType'
  BY PassStays DEF TransactorInv, Types
<1>3. Types'
  BY <1>2 DEF TransactorInv, Types, GhostType
<1>4. QueueInv'
  BY QueueStays DEF TransactorInv
<1>5. FlightInv'
  BY <1>1 DEF TransactorInv, FlightInv, InFlight
<1>6. ClearTypeOK' /\ ClearInv'
  BY ClearStays DEF TransactorInv
<1> QED
  BY <1>2, <1>3, <1>4, <1>5, <1>6 DEF TransactorInv

\* What a step has in common with RuntimeStep that leaves the data-server alone.
LEMMA SameServer ==
  ASSUME TransactorInv, UNCHANGED serverVars, UNCHANGED envVars \/ (Fails /\ UNCHANGED <<edits, resets>>)
  PROVE  /\ UNCHANGED <<store, tx, backup>> /\ ServerType' /\ BoundsType'
         /\ \A c \in Names : Kept(c)' = Kept(c)
<1>1. UNCHANGED <<store, tx, backup>>
  BY DEF serverVars
<1>2. BoundsType'
  BY BoundsStay DEF TransactorInv, Types, envVars
<1> QED
  BY <1>1, <1>2 DEF TransactorInv, Types, ServerType, Kept

\* RecoverConfigs lists what is applied.
LEMMA RecoverListStep ==
  ASSUME TransactorInv, UNCHANGED cdVars, RecoverList PROVE TransactorInv'
<1>1. /\ runtime = "down" /\ runtime' = "listed"
      /\ replay' = [c \in Names |-> IF configs[c] = None THEN None ELSE configs[c].applied]
      /\ UNCHANGED <<serverVars, copies, configs, rec, passVars, queued, torn, envVars>>
      /\ UNCHANGED <<snap, upd, del, left, cur, mark, outcome>>
  BY DEF RecoverList, passVars
<1>2. /\ UNCHANGED <<store, tx, backup>> /\ ServerType' /\ BoundsType'
      /\ \A c \in Names : Kept(c)' = Kept(c)
  BY <1>1, SameServer
<1>3. RuntimeType'
  BY <1>1 DEF TransactorInv, Types, ConfigsType, RuntimeType, Config, Value
<1>4. RecoverInv'
  BY <1>1 DEF TransactorInv, RecoverInv
<1>5. ToldInv'
  BY <1>1, <1>2 DEF TransactorInv, ToldInv, Told, Recovered, Pending, Live
<1>6. queued' \in BOOLEAN
  BY <1>1 DEF TransactorInv, Types, GhostType
<1> QED
  BY <1>1, <1>2, <1>3, <1>4, <1>5, <1>6, RuntimeStep

\* The data-server takes the replay: what it keeps is unchanged.
LEMMA ServeReplayFacts ==
  ASSUME TransactorInv, ServeReplay
  PROVE  /\ ServerType' /\ tx' = "recovery"
         /\ \A c \in Names :
              /\ Kept(c)' = Kept(c)
              /\ store'[c] = IF replay[c] = None THEN backup'[c] ELSE replay[c]
<1>1. tx = "none" /\ tx' = "recovery" /\ backup' = store /\ store' = Replayed
  BY DEF ServeReplay
<1>2. ServerType'
  BY <1>1 DEF TransactorInv, Types, ServerType, RuntimeType, Replayed
<1>3. \A c \in Names : Kept(c)' = Kept(c)
  BY <1>1 DEF Kept
<1> QED
  BY <1>1, <1>2, <1>3 DEF Replayed

\* recoverIntents sets its transaction.
LEMMA RecoverSetStep ==
  ASSUME TransactorInv, UNCHANGED cdVars, RecoverSet PROVE TransactorInv'
<1>1. /\ runtime = "listed" /\ runtime' = "set" /\ ServeReplay
      /\ UNCHANGED <<replay, copies, configs, rec, passVars, queued, torn, envVars>>
      /\ UNCHANGED <<snap, upd, del, left, cur, mark, outcome>>
  BY DEF RecoverSet, passVars
<1>2. /\ ServerType' /\ tx' = "recovery"
      /\ \A c \in Names :
           /\ Kept(c)' = Kept(c)
           /\ store'[c] = IF replay[c] = None THEN backup'[c] ELSE replay[c]
  BY <1>1, ServeReplayFacts
<1>3. RuntimeType' /\ BoundsType' /\ queued' \in BOOLEAN
  BY <1>1 DEF TransactorInv, Types, RuntimeType, GhostType, BoundsType, envVars
<1>4. RecoverInv'
  BY <1>1, <1>2 DEF TransactorInv, RecoverInv
<1>5. ToldInv'
  BY <1>1, <1>2 DEF TransactorInv, ToldInv, Told, Recovered, Pending, Live
<1> QED
  BY <1>1, <1>2, <1>3, <1>4, <1>5, RuntimeStep

\* While the runtime is not up, a Config in a transaction is torn.
LEMMA NotInFlight ==
  ASSUME TransactorInv, runtime # "up", NEW c \in Names \ torn
  PROVE  ~Pending(c) /\ ~(rec \in {"update", "delete"} /\ c \in del)
  BY DEF Pending, InFlight, TransactorInv, PassInv, FlightInv

\* What the replay sets, for a Config that is not torn.
LEMMA ReplayIsApplied ==
  ASSUME TransactorInv, runtime = "set", tx = "recovery", NEW c \in Names \ torn
  PROVE  /\ configs[c] = None => store[c] = None
         /\ Live(c) => store[c] = configs[c].applied
<1>1. Told(c) /\ ~Recovered /\ ~Pending(c)
  BY NotInFlight DEF TransactorInv, ToldInv, Recovered
<1>2. Kept(c) = backup[c] /\ store[c] = IF replay[c] = None THEN backup[c] ELSE replay[c]
  BY DEF Kept, TransactorInv, RecoverInv
<1>3. replay[c] = IF configs[c] = None THEN None ELSE configs[c].applied
  BY <1>1 DEF Told
<1> QED
  BY <1>1, <1>2, <1>3 DEF Told, Live

\* setRecoveredConfigs lists the Configs with an applied config: those that are not
\* torn keep it, and their finalizer.
LEMMA TellFacts ==
  ASSUME TransactorInv, runtime # "up", UNCHANGED <<configs, torn>>,
         NEW m \in {"Ready", "Failed"}, TellRecovered(m)
  PROVE  RuntimeType' /\ RecoverInv' /\ runtime' = m
<1>1. /\ runtime' = m /\ replay' = NoConfigs
      /\ copies' = [c \in Names |-> IF configs[c] # None /\ configs[c].applied # None
                                    THEN configs[c] ELSE None]
  BY DEF TellRecovered
<1>2. RuntimeType'
  BY <1>1 DEF TransactorInv, Types, ConfigsType, RuntimeType, NoConfigs, Value
<1>3. ASSUME NEW c \in Names, copies'[c] # None, c \notin torn
      PROVE  configs[c] # None /\ configs[c].fin /\ copies'[c] = configs[c]
  <2>1. configs[c] # None /\ configs[c].applied # None /\ copies'[c] = configs[c]
    BY <1>1, <1>3
  <2>2. Owned(c)
    BY <1>3, NotInFlight DEF TransactorInv, OwnerInv
  <2> QED
    BY <2>1, <2>2 DEF Owned
<1>4. RecoverInv'
  BY <1>1, <1>3 DEF RecoverInv
<1> QED
  BY <1>1, <1>2, <1>4

\* The replay is confirmed, or there was nothing to replay.
LEMMA RecoverConfirmStep ==
  ASSUME TransactorInv, UNCHANGED cdVars, RecoverConfirm PROVE TransactorInv'
<1>1. /\ runtime \in {"listed", "set"} /\ TellRecovered("Ready")
      /\ UNCHANGED <<configs, store, rec, passVars, queued, torn, envVars>>
      /\ UNCHANGED <<snap, upd, del, left, cur, mark, outcome>>
  BY DEF RecoverConfirm, passVars
<1>2. RuntimeType' /\ RecoverInv' /\ runtime' = "Ready"
  BY <1>1, TellFacts
<1>3. BoundsType' /\ queued' \in BOOLEAN
  BY <1>1 DEF TransactorInv, Types, GhostType, BoundsType, envVars
<1>4. CASE runtime = "set" /\ tx = "recovery" /\ tx' = "none" /\ backup' = NoConfigs
  <2>1. ServerType'
    BY <1>1, <1>4 DEF TransactorInv, Types, ServerType, NoConfigs, Value
  <2>2. ToldInv'
    <3> SUFFICES ASSUME NEW c \in Names, c \notin torn' PROVE Told(c)'
      BY DEF ToldInv
    <3>1. Kept(c)' = store[c]
      BY <1>1, <1>4 DEF Kept
    <3>2. ~Pending(c) /\ ~(rec \in {"update", "delete"} /\ c \in del)
      BY <1>1, <1>4, NotInFlight
    <3>3. ~Pending(c)'
      BY <1>1, <3>2 DEF Pending
    <3>4. /\ configs[c] = None => store[c] = None
          /\ Live(c) => store[c] = configs[c].applied
      BY <1>1, <1>4, ReplayIsApplied
    <3> QED
      BY <1>1, <1>2, <3>1, <3>2, <3>3, <3>4 DEF Told, Live
  <2> QED
    BY <1>1, <1>2, <1>3, <1>4, <2>1, <2>2, RuntimeStep
<1>5. CASE runtime = "listed" /\ replay = NoConfigs /\ UNCHANGED <<tx, backup>>
  <2>1. ServerType'
    BY <1>1, <1>5 DEF TransactorInv, Types, ServerType
  <2>2. ToldInv'
    <3> SUFFICES ASSUME NEW c \in Names, c \notin torn' PROVE Told(c)'
      BY DEF ToldInv
    <3>1. Kept(c)' = Kept(c) /\ Told(c) /\ replay[c] = None
      BY <1>1, <1>5 DEF Kept, TransactorInv, ToldInv, NoConfigs
    <3>2. ~Pending(c) /\ ~(rec \in {"update", "delete"} /\ c \in del)
      BY <1>1, <1>5, NotInFlight
    <3>3. ~Pending(c)'
      BY <1>1, <3>2 DEF Pending
    <3> QED
      BY <1>1, <1>2, <1>5, <3>1, <3>2, <3>3 DEF Told, Live
  <2> QED
    BY <1>1, <1>2, <1>3, <1>5, <2>1, <2>2, RuntimeStep
<1> QED
  BY <1>4, <1>5 DEF RecoverConfirm

\* The transaction was rolled back before its confirm.
LEMMA RecoverRefusedStep ==
  ASSUME TransactorInv, UNCHANGED cdVars, RecoverRefused PROVE TransactorInv'
<1>1. /\ runtime = "set" /\ TellRecovered("Failed")
      /\ UNCHANGED <<configs, serverVars, rec, passVars, queued, torn, envVars>>
      /\ UNCHANGED <<snap, upd, del, left, cur, mark, outcome>>
  BY DEF RecoverRefused, passVars
<1>2. RuntimeType' /\ RecoverInv' /\ runtime' = "Failed"
  BY <1>1, TellFacts
<1>3. /\ UNCHANGED <<store, tx, backup>> /\ ServerType' /\ BoundsType'
      /\ \A c \in Names : Kept(c)' = Kept(c)
  BY <1>1, SameServer
<1>4. ToldInv'
  BY <1>1, <1>2, <1>3 DEF TransactorInv, ToldInv, Told, Recovered, Pending, Live
<1>5. queued' \in BOOLEAN
  BY <1>1 DEF TransactorInv, Types, GhostType
<1> QED
  BY <1>1, <1>2, <1>3, <1>4, <1>5, RuntimeStep

\* The runtime begins to recover again, with nothing of the last time.
LEMMA DownFacts ==
  ASSUME TransactorInv, RuntimeDown, UNCHANGED <<configs, rec, passVars, torn>>,
         \A c \in Names : Kept(c)' = Kept(c)
  PROVE  RuntimeType' /\ RecoverInv' /\ ToldInv' /\ runtime' = "down"
<1>1. /\ runtime' = "down" /\ replay' = NoConfigs /\ copies' = NoConfigs
      /\ UNCHANGED <<snap, upd, del, left, cur, mark, outcome>>
  BY DEF RuntimeDown, passVars
<1>2. RuntimeType' /\ RecoverInv'
  BY <1>1 DEF RuntimeType, RecoverInv, NoConfigs, Value
<1>3. ToldInv'
  BY <1>1 DEF TransactorInv, ToldInv, Told, Recovered, Pending, Live
<1> QED
  BY <1>1, <1>2, <1>3

\* The replay fails, and may have been set or confirmed all the same; or a call to
\* the API server fails afterwards.
LEMMA RecoverFailsStep ==
  ASSUME TransactorInv, UNCHANGED cdVars, RecoverFails PROVE TransactorInv'
<1>1. /\ Fails /\ UNCHANGED <<configs, rec, passVars, queued, torn, edits, resets>>
      /\ UNCHANGED <<snap, upd, del, left, cur, mark, outcome>>
  BY DEF RecoverFails, passVars
<1>2. BoundsType' /\ queued' \in BOOLEAN
  <2>1. BoundsType'
    BY <1>1, BoundsStay DEF TransactorInv, Types
  <2> QED
    BY <1>1, <2>1 DEF TransactorInv, Types, GhostType
<1>3. CASE runtime = "listed" /\ (ServeReplay \/ UNCHANGED serverVars) /\ TellRecovered("Failed")
  <2>1. RuntimeType' /\ RecoverInv' /\ runtime' = "Failed"
    BY <1>1, <1>3, TellFacts
  <2>2. /\ ServerType' /\ \A c \in Names : Kept(c)' = Kept(c)
        /\ tx' \in {"pass", "clear"} => UNCHANGED <<store, tx, backup>>
    <3>1. CASE ServeReplay
      BY <3>1, ServeReplayFacts
    <3>2. CASE UNCHANGED serverVars
      BY <1>1, <3>2, SameServer
    <3> QED
      BY <1>3, <3>1, <3>2
  <2>3. ToldInv'
    BY <1>1, <1>3, <2>1, <2>2 DEF TransactorInv, ToldInv, Told, Recovered, Pending, Live
  <2> QED
    BY <1>1, <1>2, <1>3, <2>1, <2>2, <2>3, RuntimeStep
<1>4. CASE /\ runtime = "set" /\ tx = "recovery" /\ store' = store /\ TellRecovered("Failed")
           /\ (tx' = "none" /\ backup' = NoConfigs) \/ UNCHANGED <<tx, backup>>
  <2>1. RuntimeType' /\ RecoverInv' /\ runtime' = "Failed"
    BY <1>1, <1>4, TellFacts
  <2>2. ServerType'
    BY <1>4 DEF TransactorInv, Types, ServerType, NoConfigs, Value
  <2>3. ToldInv'
    <3> SUFFICES ASSUME NEW c \in Names, c \notin torn' PROVE Told(c)'
      BY DEF ToldInv
    <3>1. Kept(c)' \in {Kept(c), store[c]} /\ Told(c) /\ ~Recovered
      BY <1>1, <1>4 DEF Kept, TransactorInv, ToldInv, Recovered
    <3>2. ~Pending(c) /\ ~(rec \in {"update", "delete"} /\ c \in del)
      BY <1>1, <1>4, NotInFlight
    <3>3. ~Pending(c)' /\ ~Recovered'
      BY <1>1, <2>1, <3>2 DEF Pending, Recovered
    <3>4. /\ configs[c] = None => store[c] = None
          /\ Live(c) => store[c] = configs[c].applied
      BY <1>1, <1>4, ReplayIsApplied
    <3> QED
      BY <1>1, <2>1, <3>1, <3>2, <3>3, <3>4 DEF Told, Live
  <2> QED
    BY <1>1, <1>2, <1>4, <2>1, <2>2, <2>3, RuntimeStep
<1>5. CASE runtime \in {"Ready", "Failed"} /\ RuntimeDown /\ UNCHANGED serverVars
  <2>1. /\ UNCHANGED <<store, tx, backup>> /\ ServerType'
        /\ \A c \in Names : Kept(c)' = Kept(c)
    BY <1>1, <1>5, SameServer
  <2>2. RuntimeType' /\ RecoverInv' /\ ToldInv' /\ runtime' = "down"
    BY <1>1, <1>5, <2>1, DownFacts
  <2> QED
    BY <1>1, <1>2, <1>5, <2>1, <2>2, RuntimeStep
<1> QED
  BY <1>3, <1>4, <1>5 DEF RecoverFails

\* RecoverConfigs returns: the runtime runs, with a request; or it begins again.
LEMMA RecoverEndsStep ==
  ASSUME TransactorInv, UNCHANGED cdVars, RecoverEnds PROVE TransactorInv'
<1>1. /\ runtime \in {"Ready", "Failed"}
      /\ UNCHANGED <<configs, serverVars, rec, passVars, torn, envVars>>
      /\ UNCHANGED <<snap, upd, del, left, cur, mark, outcome>>
  BY DEF RecoverEnds, passVars
<1>2. /\ UNCHANGED <<store, tx, backup>> /\ ServerType' /\ BoundsType'
      /\ \A c \in Names : Kept(c)' = Kept(c)
  BY <1>1, SameServer
<1>3. CASE /\ runtime = "Ready" /\ runtime' = "up" /\ queued' = TRUE
           /\ copies = NoConfigs /\ UNCHANGED <<replay, copies>>
  <2>1. RuntimeType' /\ RecoverInv'
    BY <1>3 DEF TransactorInv, Types, RuntimeType, RecoverInv, NoConfigs
  <2>2. ToldInv'
    BY <1>1, <1>2, <1>3 DEF TransactorInv, ToldInv, Told, Recovered, Pending, Live
  <2> QED
    BY <1>1, <1>2, <1>3, <2>1, <2>2, RuntimeStep
<1>4. CASE RuntimeDown /\ UNCHANGED queued
  <2>1. RuntimeType' /\ RecoverInv' /\ ToldInv' /\ runtime' = "down"
    BY <1>1, <1>2, <1>4, DownFacts
  <2>2. queued' \in BOOLEAN
    BY <1>4 DEF TransactorInv, Types, GhostType
  <2> QED
    BY <1>1, <1>2, <1>4, <2>1, <2>2, RuntimeStep
<1> QED
  BY <1>3, <1>4 DEF RecoverEnds

\* Where no owner changes and a Config that is not torn keeps what it calls applied,
\* owners, the pass and its list stay.
LEMMA OwnersStay ==
  ASSUME PassType, OwnerInv, PassInv, ReadyInv, UNCHANGED <<rec, passVars, torn>>,
         \A c \in Names : SameOwner(c)
  PROVE  PassType' /\ OwnerInv' /\ PassInv' /\ ReadyInv'
<1>1. UNCHANGED <<rec, snap, upd, del, left, cur, mark, outcome, torn>>
  BY DEF passVars
<1>2. PassType'
  BY <1>1 DEF PassType
<1>3. OwnerInv'
  BY <1>1 DEF OwnerInv, Owned, Pending, SameOwner
<1>4. PassInv'
  <2>1. left \subseteq Names /\ del \subseteq Names /\ (cur # None => cur \in Names)
    BY DEF PassType
  <2>2. \A c \in Names : /\ configs[c] # None /\ configs[c].deleting =>
                              configs'[c] # None /\ configs'[c].deleting
                         /\ configs[c] # None /\ configs[c].fin =>
                              configs'[c] # None /\ configs'[c].fin
    BY DEF SameOwner
  <2> QED
    BY <1>1, <2>1, <2>2 DEF PassInv, InTransact, Present
<1>5. ReadyInv'
  BY <1>1 DEF ReadyInv, Present, SameOwner
<1> QED
  BY <1>2, <1>3, <1>4, <1>5

\* One turn of setRecoveredConfigs: the listed status is no news for a Config that is
\* not torn, but for its conditions.
LEMMA RecoverStatusStep ==
  ASSUME TransactorInv, UNCHANGED cdVars, NEW c \in Names, RecoverStatus(c)
  PROVE  TransactorInv'
<1>1. /\ runtime \in {"Ready", "Failed"} /\ copies[c] # None
      /\ UNCHANGED <<serverVars, rec, passVars, torn, envVars>>
      /\ UNCHANGED <<snap, upd, del, left, cur, mark, outcome>>
  BY DEF RecoverStatus, passVars
<1>2. /\ UNCHANGED <<store, tx, backup>> /\ ServerType' /\ BoundsType'
      /\ \A d \in Names : Kept(d)' = Kept(d)
  BY <1>1, SameServer
<1>3. /\ queued \in BOOLEAN /\ configs \in [Names -> Config \cup {None}] /\ RuntimeType
      /\ copies \in [Names -> Config \cup {None}] /\ copies[c] \in Config
  BY <1>1 DEF TransactorInv, Types, GhostType, ConfigsType, RuntimeType
<1>4. CASE RuntimeDown /\ UNCHANGED <<configs, queued>>
  <2>1. RuntimeType' /\ RecoverInv' /\ ToldInv' /\ runtime' = "down"
    BY <1>1, <1>2, <1>4, DownFacts
  <2> QED
    BY <1>1, <1>2, <1>3, <1>4, <2>1, RuntimeStep
<1>5. CASE /\ copies' = [copies EXCEPT ![c] = None] /\ UNCHANGED <<runtime, replay>>
           /\ UNCHANGED <<configs, queued>>
  <2>1. copies'[c] = None /\ \A d \in Names : d # c => copies'[d] = copies[d]
    BY <1>3, <1>5
  <2>2. RuntimeType' /\ RecoverInv'
    BY <1>1, <1>2, <1>3, <1>5, <2>1 DEF TransactorInv, RuntimeType, RecoverInv
  <2>3. ToldInv'
    BY <1>1, <1>2, <1>5 DEF TransactorInv, ToldInv, Told, Recovered, Pending, Live
  <2> QED
    BY <1>1, <1>2, <1>3, <1>5, <2>2, <2>3, RuntimeStep
<1>6. CASE /\ configs[c] # None
           /\ Write([configs EXCEPT ![c].applied = copies[c].applied, ![c].cond = runtime,
                                    ![c].obsGen = copies[c].gen, ![c].ready = copies[c].ready,
                                    ![c].devGen = FALSE])
           /\ copies' = [copies EXCEPT ![c] = None] /\ UNCHANGED <<runtime, replay>>
  <2> DEFINE n == [configs[c] EXCEPT !.applied = copies[c].applied, !.cond = runtime,
                                     !.obsGen = copies[c].gen, !.ready = copies[c].ready,
                                     !.devGen = FALSE]
  <2>1. configs[c] \in Config
    BY <1>3, <1>6
  <2>2. /\ n \in Config /\ n.deleting = configs[c].deleting /\ n.fin = configs[c].fin
        /\ n.applied = copies[c].applied
    BY <1>1, <1>3, <2>1 DEF Config
  <2>3. configs' = [configs EXCEPT ![c] = n] /\ queued' = (queued \/ configs' # configs)
    BY <1>6 DEF Write, Event
  <2>4. n # None
    BY <2>2, TransactorAssumption
  <2> HIDE DEF n
  <2>5. ConfigsType' /\ configs'[c] = n /\ \A d \in Names : d # c => configs'[d] = configs[d]
    BY <1>3, <2>2, <2>3 DEF ConfigsType
  <2>6. \A d \in Names : SameOwner(d)
    <3>1. c \notin torn => configs[c].applied = copies[c].applied
      BY <1>1 DEF TransactorInv, RecoverInv
    <3> QED
      BY <1>1, <1>6, <2>2, <2>4, <2>5, <3>1 DEF SameOwner
  <2>7. PassType' /\ OwnerInv' /\ PassInv' /\ ReadyInv'
    BY <1>1, <2>6, OwnersStay DEF TransactorInv, Types
  <2>8. copies'[c] = None /\ \A d \in Names : d # c => copies'[d] = copies[d]
    BY <1>3, <1>6
  <2>9. RuntimeType' /\ RecoverInv'
    <3>1. RuntimeType'
      BY <1>3, <1>6 DEF RuntimeType
    <3>2. RecoverInv'
      BY <1>1, <1>2, <1>6, <2>6, <2>8 DEF TransactorInv, RecoverInv, SameOwner
    <3> QED
      BY <3>1, <3>2
  <2>10. Types'
    BY <1>1, <1>2, <1>3, <2>3, <2>5, <2>7, <2>9 DEF TransactorInv, Types, GhostType
  <2>11. QueueInv'
    BY <1>1, <1>6, <2>3, QueueStays DEF TransactorInv
  <2>12. FlightInv'
    <3>1. InFlight' = InFlight
      BY <1>1 DEF InFlight
    <3>2. \A d \in upd : configs'[d] = None => configs[d] = None
      BY <2>6 DEF SameOwner, TransactorInv, Types, PassType
    <3> QED
      BY <1>1, <1>2, <1>6, <3>1, <3>2 DEF TransactorInv, FlightInv
  <2>13. ToldInv'
    <3> SUFFICES ASSUME NEW d \in Names, d \notin torn' PROVE Told(d)'
      BY DEF ToldInv
    <3>1. Told(d) /\ Kept(d)' = Kept(d) /\ Pending(d)' = Pending(d) /\ SameOwner(d)
      BY <1>1, <1>2, <2>6 DEF TransactorInv, ToldInv, Pending
    <3> QED
      BY <1>1, <1>6, <3>1 DEF Told, Recovered, Live, SameOwner
  <2>14. ClearTypeOK' /\ ClearInv'
    BY <1>2, ClearStays DEF TransactorInv
  <2> QED
    BY <2>7, <2>9, <2>10, <2>11, <2>12, <2>13, <2>14 DEF TransactorInv
<1> QED
  BY <1>4, <1>5, <1>6 DEF RecoverStatus

----------------------------------------------------------------------------
(* The end of a pass. *)

\* A pass that ends leaves the datastore as the statuses tell, or torn.
LEMMA AfterPass ==
  ASSUME TransactorInv, rec' \in {"idle", "ready"}, UNCHANGED store,
         \A c \in Names : SameOwner(c),
         UNCHANGED runtimeVars \/ (runtime' = "down" /\ copies' = NoConfigs),
         torn \subseteq torn',
         \/ UNCHANGED <<tx, backup>>
         \/ tx = "pass" /\ tx' = "none" /\ rec = "confirm" /\ upd \cup del \subseteq torn',
         \A c \in Names \ torn' : ~Pending(c)
  PROVE  FlightInv' /\ ToldInv' /\ RecoverInv'
<1>1. \A c \in Names \ torn' : Kept(c)' = Kept(c)
  BY DEF Kept, TransactorInv, FlightInv
<1>2. FlightInv'
  BY DEF TransactorInv, FlightInv, InFlight
<1>3. RecoverInv'
  <2>1. CASE UNCHANGED runtimeVars
    BY <2>1, RecoverStays DEF TransactorInv, SameOwner
  <2>2. CASE runtime' = "down" /\ copies' = NoConfigs
    BY <2>2 DEF RecoverInv, NoConfigs
  <2> QED
    BY <2>1, <2>2
<1>4. ToldInv'
  <2> SUFFICES ASSUME NEW c \in Names, c \notin torn' PROVE Told(c)'
    BY DEF ToldInv
  <2>1. /\ Told(c) /\ ~Pending(c) /\ ~Pending(c)' /\ Kept(c)' = Kept(c)
        /\ SameOwner(c)
    BY <1>1 DEF TransactorInv, ToldInv, Pending
  <2>2. CASE UNCHANGED runtimeVars
    BY <2>1, <2>2 DEF Told, Recovered, Live, runtimeVars, SameOwner
  <2>3. CASE runtime' = "down"
    BY <2>1, <2>3 DEF Told, Recovered, Live, SameOwner
  <2> QED
    BY <2>2, <2>3
<1> QED
  BY <1>2, <1>4, <1>3

\* A crash: the transaction it leaves open will be rolled back.
LEMMA CrashStep ==
  ASSUME TransactorInv, UNCHANGED cdVars, Crash PROVE TransactorInv'
<1>1. /\ rec' = "idle" /\ queued' = TRUE /\ runtime' = "down"
      /\ replay' = NoConfigs /\ copies' = NoConfigs
      /\ snap' = NoConfigs /\ upd' = {} /\ del' = {} /\ left' = {} /\ cur' = None
      /\ mark' = "Failed" /\ outcome' = "ok"
      /\ torn' = IF rec \in {"update", "delete"} THEN torn \cup upd \cup del ELSE torn
      /\ UNCHANGED <<configs, store, tx, backup>>
  BY DEF Crash, RuntimeDown, serverVars
<1>2. BoundsType'
  BY BoundsStay DEF Crash, TransactorInv, Types
<1>3. torn' \in SUBSET Names /\ torn \subseteq torn' /\ (rec = "update" => upd \subseteq torn')
  BY <1>1 DEF TransactorInv, Types, PassType, GhostType
<1>4. Types'
  BY <1>1, <1>2, <1>3 DEF TransactorInv, Types, ConfigsType, ServerType, RuntimeType,
                          PassType, GhostType, NoConfigs, Value
<1>5. \A c \in Names \ torn' : ~Pending(c)
  BY <1>3 DEF Pending, TransactorInv, PassInv
<1>6. OwnerInv' /\ PassInv' /\ ReadyInv'
  BY <1>1, <1>3, <1>5 DEF TransactorInv, OwnerInv, Owned, PassInv, ReadyInv, InTransact
<1>7. FlightInv' /\ ToldInv' /\ RecoverInv'
  <2>1. \A c \in Names : SameOwner(c)
    BY <1>1 DEF SameOwner
  <2> QED
    BY <1>1, <1>3, <1>5, <2>1, AfterPass
<1>8. QueueInv'
  BY <1>1 DEF QueueInv
<1>9. ClearTypeOK' /\ ClearInv'
  BY <1>1, ClearStays DEF TransactorInv
<1> QED
  BY <1>4, <1>6, <1>7, <1>8, <1>9 DEF TransactorInv

\* Reconcile returns: no pass is left, and a request if there is one.
LEMMA DoneFacts ==
  ASSUME NEW r \in BOOLEAN, Done(r)
  PROVE  PassType' /\ PassInv' /\ ReadyInv' /\ rec' = "idle" /\ queued' = r
  BY DEF Done, PassType, PassInv, ReadyInv, InTransact, NoConfigs

\* What applyStatus finds changed.
Stale(o, c) == configs[c].ready # ShownReady(o, configs[c]) \/ configs[c].devGen

\* updateConfigsForTarget lists the Configs whose Ready condition is to be changed.
LEMMA ReadyLoopFacts ==
  ASSUME ConfigsType, \A c \in Names \ torn' : Owned(c),
         NEW o \in {"ok", "retry", "stop", "blocked"}, NEW r \in BOOLEAN,
         ReadyLoop(o, r), UNCHANGED configs
  PROVE  /\ PassType' /\ PassInv' /\ ReadyInv' /\ rec' \in {"idle", "ready"}
         /\ queued' \in BOOLEAN
         /\ rec' = "ready" =>
              /\ snap' = configs /\ left' # {} /\ outcome' = o
              /\ \A c \in left' : configs[c] # None /\ Stale(o, c)
         /\ rec' = "idle" /\ ~queued' =>
              /\ ~r /\ o # "retry"
              /\ \A c \in Present(configs) : configs[c].ready = ShownReady(o, configs[c])
<1> DEFINE stale == {c \in Present(configs) : Stale(o, c)}
<1>1. CASE stale = {}
  <2>1. PICK again \in Again(o) : Done(r \/ again)
    BY <1>1 DEF ReadyLoop, Stale
  <2>2. again \in BOOLEAN /\ (o = "retry" => again)
    BY <2>1 DEF Again
  <2>3. PassType' /\ PassInv' /\ ReadyInv' /\ rec' = "idle" /\ queued' = (r \/ again)
    BY <2>1, <2>2, DoneFacts
  <2>4. \A c \in Present(configs) : configs[c].ready = ShownReady(o, configs[c])
    BY <1>1 DEF Stale
  <2> QED
    BY <2>2, <2>3, <2>4
<1>2. CASE stale # {}
  <2>1. /\ rec' = "ready" /\ snap' = configs /\ left' = stale /\ outcome' = o
        /\ upd' = {} /\ del' = {} /\ cur' = None /\ mark' = "Failed" /\ queued' = r
    BY <1>2 DEF ReadyLoop, Stale
  <2>2. stale \subseteq Present(configs) /\ Present(configs) \subseteq Names
    BY DEF Present
  <2>3. PassType'
    BY <2>1, <2>2 DEF PassType, ConfigsType
  <2>4. PassInv'
    BY <2>1 DEF PassInv, InTransact
  <2>5. ReadyInv'
    BY <2>1, <2>2 DEF ReadyInv, Owned, Present
  <2>6. \A c \in left' : configs[c] # None /\ Stale(o, c)
    BY <2>1 DEF Present
  <2> QED
    BY <1>2, <2>1, <2>3, <2>4, <2>5, <2>6
<1> QED
  BY <1>1, <1>2

\* A pass ends, with updateConfigsForTarget or at once: the invariant holds if
\* nothing is left to do where no request is left.
LEMMA PassEnds ==
  ASSUME TransactorInv, UNCHANGED cdVars, UNCHANGED <<configs, store, runtimeVars>>,
         NEW o \in {"ok", "retry", "stop", "blocked"}, NEW r \in BOOLEAN,
         \/ ReadyLoop(o, r)
         \/ Done(r),
         ~r /\ o # "retry" /\ runtime = "up"
           /\ (\/ Done(r)
               \/ \A c \in Present(configs) : configs[c].ready = ShownReady(o, configs[c]))
           => Settled,
         o = "retry" => ReadyLoop(o, r),
         torn' \in SUBSET Names, torn \subseteq torn', BoundsType', ServerType',
         \/ UNCHANGED <<tx, backup>>
         \/ tx = "pass" /\ tx' = "none" /\ rec = "confirm" /\ upd \cup del \subseteq torn',
         \A c \in Names \ torn' : ~Pending(c)
  PROVE  TransactorInv'
<1>0. \A c \in Names \ torn' : Owned(c)
  BY DEF TransactorInv, OwnerInv
<1>1. ConfigsType /\ ConfigsType' /\ OwnerInv' /\ RuntimeType'
  <2>1. OwnerInv'
    BY <1>0 DEF TransactorInv, OwnerInv, Owned
  <2> QED
    BY <2>1 DEF TransactorInv, Types, ConfigsType, RuntimeType, runtimeVars
<1>2. /\ PassType' /\ PassInv' /\ ReadyInv' /\ rec' \in {"idle", "ready"} /\ queued' \in BOOLEAN
      /\ QueueInv'
  <2>1. runtime' = runtime
    BY DEF runtimeVars
  <2>2. CASE ReadyLoop(o, r)
    <3>1. /\ PassType' /\ PassInv' /\ ReadyInv' /\ rec' \in {"idle", "ready"}
          /\ queued' \in BOOLEAN
          /\ rec' = "ready" =>
               /\ snap' = configs /\ left' # {} /\ outcome' = o
               /\ \A c \in left' : configs[c] # None /\ Stale(o, c)
          /\ rec' = "idle" /\ ~queued' =>
               /\ ~r /\ o # "retry"
               /\ \A c \in Present(configs) : configs[c].ready = ShownReady(o, configs[c])
      BY <1>0, <1>1, <2>2, ReadyLoopFacts
    <3>2. rec' = "idle" /\ ~queued' /\ runtime = "up" => Settled
      BY <3>1
    <3>3. Settled' = Settled
      BY DEF Settled, Stuck, Present, NoChange, IsRecoverable
    <3>4. QueueInv'
      BY <2>1, <3>1, <3>2, <3>3 DEF QueueInv, Stale
    <3> QED
      BY <3>1, <3>4
  <2>3. CASE Done(r) /\ o # "retry"
    <3>1. PassType' /\ PassInv' /\ ReadyInv' /\ rec' = "idle" /\ queued' = r
      BY <2>3, DoneFacts
    <3>2. ~queued' /\ runtime = "up" => Settled
      BY <2>3, <3>1
    <3>3. Settled' = Settled
      BY DEF Settled, Stuck, Present, NoChange, IsRecoverable
    <3>4. QueueInv'
      BY <2>1, <3>1, <3>2, <3>3 DEF QueueInv
    <3> QED
      BY <3>1, <3>4
  <2> QED
    BY <2>2, <2>3
<1>3. FlightInv' /\ ToldInv' /\ RecoverInv'
  <2>1. \A c \in Names : SameOwner(c)
    BY DEF SameOwner
  <2> QED
    BY <1>2, <2>1, AfterPass
<1>4. ClearTypeOK' /\ ClearInv'
  BY ClearStays DEF TransactorInv
<1>5. Types'
  BY <1>1, <1>2 DEF Types, GhostType
<1> QED
  BY <1>1, <1>2, <1>3, <1>4, <1>5 DEF TransactorInv

\* Transact returns a retryable error; with its transaction confirmed, what it
\* concerned is torn.
LEMMA TransactErrsStep ==
  ASSUME TransactorInv, UNCHANGED cdVars, UNCHANGED <<configs, store, runtimeVars>>,
         NEW b \in BOOLEAN, TransactErrs(b), rec = "update" => b, BoundsType',
         \/ UNCHANGED <<tx, backup>>
         \/ /\ tx = "pass" /\ tx' = "none" /\ backup' = NoConfigs /\ rec = "confirm" /\ b
  PROVE  TransactorInv'
<1>1. ReadyLoop("retry", queued) /\ torn' = IF b THEN torn \cup upd \cup del ELSE torn
  BY DEF TransactErrs
<1>2. /\ torn' \in SUBSET Names /\ torn \subseteq torn' /\ (b => upd \cup del \subseteq torn')
      /\ queued \in BOOLEAN
  BY <1>1 DEF TransactorInv, Types, PassType, GhostType
<1>3. ServerType'
  BY DEF TransactorInv, Types, ServerType, NoConfigs, Value
<1>4. \A c \in Names \ torn' : ~Pending(c)
  BY <1>2 DEF Pending, TransactorInv, PassInv
<1> QED
  BY <1>1, <1>2, <1>3, <1>4, PassEnds

\* An API call of the pass fails.
LEMMA ApiCallFailsStep ==
  ASSUME TransactorInv, UNCHANGED cdVars, ApiCallFails PROVE TransactorInv'
<1>1. UNCHANGED <<configs, store, runtimeVars>> /\ UNCHANGED <<tx, backup>> /\ BoundsType'
  BY BoundsStay DEF ApiCallFails, serverVars, TransactorInv, Types
<1>2. CASE rec \in {"update", "delete", "fail"} /\ TransactErrs(rec # "fail")
  BY <1>1, <1>2, TransactErrsStep
<1>3. CASE rec = "ready" /\ Done(TRUE) /\ UNCHANGED torn
  <2>1. \A c \in Names \ torn' : ~Pending(c)
    BY <1>3 DEF Pending
  <2>2. torn' \in SUBSET Names /\ ServerType'
    BY <1>1, <1>3 DEF TransactorInv, Types, GhostType, ServerType
  <2> QED
    BY <1>1, <1>3, <2>1, <2>2, PassEnds
<1> QED
  BY <1>2, <1>3 DEF ApiCallFails

----------------------------------------------------------------------------
(* Reconcile. *)

\* One turn of updateConfigsForTarget: what was applied stays unless torn, and the write makes
\* a request.
LEMMA UpdateConfigForTargetStep ==
  ASSUME TransactorInv, UNCHANGED cdVars, NEW c \in Names, UpdateConfigForTarget(c)
  PROVE  TransactorInv'
<1>1. /\ rec = "ready" /\ c \in left /\ UNCHANGED <<store, tx, backup, torn>>
      /\ UNCHANGED runtimeVars /\ BoundsType'
  BY BoundsStay DEF UpdateConfigForTarget, serverVars, envVars, TransactorInv, Types
<1>2. \A d \in Names : ~Pending(d)
  BY <1>1 DEF Pending
<1>3. torn' \in SUBSET Names /\ ServerType' /\ RuntimeType'
  BY <1>1 DEF TransactorInv, Types, GhostType, ServerType, RuntimeType, runtimeVars
<1>4. CASE configs[c] = None
  <2>1. Done(TRUE) /\ UNCHANGED configs
    BY <1>4 DEF UpdateConfigForTarget
  <2> QED
    BY <1>1, <1>2, <1>3, <2>1, PassEnds
<1>5. CASE configs[c] # None
  <2> DEFINE s == snap[c]
             n == [configs[c] EXCEPT !.applied = s.applied, !.cond = s.cond,
                                     !.obsGen = s.obsGen, !.ready = ShownReady(outcome, s),
                                     !.devGen = FALSE]
  <2>1. /\ configs[c] \in Config /\ s \in Config /\ s # None
        /\ c \notin torn => s.applied = configs[c].applied
    BY <1>1, <1>5 DEF TransactorInv, Types, ConfigsType, PassType, ReadyInv, Present
  <2>2. ShownReady(outcome, s) \in {"False", "True"}
    BY DEF ShownReady
  <2>3. /\ n \in Config /\ n.deleting = configs[c].deleting /\ n.fin = configs[c].fin
        /\ n.applied = s.applied /\ n.ready = ShownReady(outcome, s) /\ ~n.devGen
    BY <2>1, <2>2 DEF Config
  <2>4. configs' = [configs EXCEPT ![c] = n]
    BY <1>5 DEF UpdateConfigForTarget
  <2>5. n # None
    BY <2>3, TransactorAssumption
  <2> HIDE DEF n
  <2>6. ConfigsType' /\ configs'[c] = n
    BY <2>3, <2>4 DEF TransactorInv, Types, ConfigsType
  <2>7. \A d \in Names : SameOwner(d)
    BY <1>1, <1>5, <2>1, <2>3, <2>4, <2>5 DEF SameOwner, TransactorInv, Types, ConfigsType
  <2>8. OwnerInv'
    BY <1>1, <1>2, <2>7 DEF OwnerInv, Owned, SameOwner, TransactorInv
  <2>9. Event = TRUE
    <3>1. CASE queued
      BY <3>1 DEF Event
    <3>2. CASE ~queued
      <4>1. /\ configs = snap
            /\ configs[c].ready # ShownReady(outcome, configs[c]) \/ configs[c].devGen
        BY <1>1, <3>2 DEF TransactorInv, QueueInv
      <4>2. configs'[c].ready # configs[c].ready \/ configs'[c].devGen # configs[c].devGen
        BY <2>3, <2>6, <4>1
      <4> QED
        BY <4>2 DEF Event
    <3> QED
      BY <3>1, <3>2
  <2>10. /\ PassType' /\ PassInv' /\ ReadyInv'
         /\ rec' \in {"idle", "ready"} /\ queued' = TRUE
    <3>1. CASE left = {c}
      <4>1. PICK again \in Again(outcome) : Done(Event \/ again)
        BY <1>5, <3>1 DEF UpdateConfigForTarget
      <4>2. Done(TRUE)
        BY <2>9, <4>1
      <4> QED
        BY <4>2, DoneFacts
    <3>2. CASE left # {c}
      <4>1. /\ left' = left \ {c} /\ queued' = Event
            /\ UNCHANGED <<rec, snap, upd, del, cur, mark, outcome>>
        BY <1>5, <3>2 DEF UpdateConfigForTarget
      <4>2. PassType'
        BY <4>1 DEF TransactorInv, Types, PassType
      <4>3. PassInv'
        BY <1>1, <4>1 DEF TransactorInv, PassInv, InTransact
      <4>4. ReadyInv'
        BY <1>1, <2>7, <4>1 DEF TransactorInv, ReadyInv, Present, SameOwner
      <4> QED
        BY <1>1, <2>9, <4>1, <4>2, <4>3, <4>4
    <3> QED
      BY <3>1, <3>2
  <2>11. FlightInv' /\ ToldInv' /\ RecoverInv'
    BY <1>1, <1>2, <2>7, <2>10, AfterPass
  <2>12. QueueInv'
    BY <2>10 DEF QueueInv
  <2>13. ClearTypeOK' /\ ClearInv'
    BY <1>1, ClearStays DEF TransactorInv
  <2>14. Types'
    BY <1>1, <1>3, <2>6, <2>10 DEF Types, GhostType
  <2> QED
    BY <2>8, <2>10, <2>11, <2>12, <2>13, <2>14 DEF TransactorInv
<1> QED
  BY <1>4, <1>5

\* The target blocks, or there is nothing to do, or the Configs cannot be listed.
LEMMA NoTransactionStep ==
  ASSUME TransactorInv, UNCHANGED cdVars, UNCHANGED <<configs, serverVars, runtimeVars, torn>>,
         rec = "idle", BoundsType',
         NEW o \in {"ok", "retry", "blocked"}, ReadyLoop(o, FALSE),
         o = "ok" => Changed(configs) = {},
         o = "blocked" => runtime # "up"
  PROVE  TransactorInv'
<1>1. UNCHANGED <<store, tx, backup>> /\ ServerType' /\ torn' \in SUBSET Names
  BY DEF serverVars, TransactorInv, Types, ServerType, GhostType
<1>2. \A c \in Names \ torn' : ~Pending(c)
  BY DEF Pending
<1>3. ASSUME o # "retry", runtime = "up",
             \A c \in Present(configs) : configs[c].ready = ShownReady(o, configs[c])
      PROVE  Settled
  <2>1. o = "ok" /\ Changed(configs) = {}
    BY <1>3
  <2>2. CASE Stuck
    BY <2>2 DEF Settled
  <2>3. CASE ~Stuck
    <3> SUFFICES ASSUME NEW c \in Present(configs)
                 PROVE  NoChange(configs[c]) /\ configs[c].ready = "True"
      BY DEF Settled
    <3>1. ~configs[c].deleting /\ IsRecoverable(configs[c])
      BY <2>3 DEF Stuck
    <3>2. NoChange(configs[c])
      BY <2>1, <3>1 DEF Changed
    <3> QED
      BY <1>3, <2>1, <3>2 DEF NoChange, ShownReady
  <2> QED
    BY <2>2, <2>3
<1>4. ~Done(FALSE) \/ o = "retry" \/ runtime # "up" \/
         \A c \in Present(configs) : configs[c].ready = ShownReady(o, configs[c])
  <2>1. ConfigsType /\ \A c \in Names \ torn' : Owned(c)
    BY <1>2 DEF TransactorInv, Types, OwnerInv
  <2> QED
    BY <2>1, ReadyLoopFacts DEF Done
<1> QED
  BY <1>1, <1>2, <1>3, <1>4, PassEnds

\* Reconcile up to its first RPC.
LEMMA StartStep ==
  ASSUME TransactorInv, UNCHANGED cdVars, ReconcileBlocked \/ Transact PROVE TransactorInv'
<1>1. CASE ReconcileBlocked
  <2>1. BoundsType'
    BY <1>1, BoundsStay DEF ReconcileBlocked, envVars, TransactorInv, Types
  <2> QED
    BY <1>1, <2>1, NoTransactionStep DEF ReconcileBlocked
<1>2. CASE Transact
  <2>1. /\ rec = "idle" /\ runtime = "up"
        /\ UNCHANGED <<configs, serverVars, runtimeVars, torn>>
    BY <1>2 DEF Transact
  <2>2. BoundsType'
    BY <1>2, BoundsStay DEF Transact, TransactorInv, Types
  <2>3. CASE Changed(configs) = {} /\ ReadyLoop("ok", FALSE)
    BY <2>1, <2>2, <2>3, NoTransactionStep
  <2>4. CASE ReadyLoop("retry", FALSE)
    BY <2>1, <2>2, <2>4, NoTransactionStep
  <2>5. CASE /\ Changed(configs) # {}
             /\ rec' = "set" /\ queued' = FALSE
             /\ snap' = configs
             /\ upd' = configsToUpdate(configs) /\ del' = configsToDelete(configs)
             /\ UNCHANGED <<left, cur, mark, outcome>>
    <3>1. /\ upd' = {c \in Present(configs) : ~configs[c].deleting}
          /\ del' = {c \in Present(configs) : configs[c].deleting}
      BY <2>5 DEF configsToUpdate, configsToDelete
    <3>2. upd' \cup del' # {} /\ upd' \subseteq Names /\ del' \subseteq Names
      BY <2>5, <3>1 DEF Changed, Present
    <3>3. cur = None
      BY <2>1 DEF TransactorInv, PassInv
    <3>4. PassType' /\ ConfigsType' /\ OwnerInv'
      BY <2>1, <2>5, <3>2 DEF TransactorInv, Types, PassType, ConfigsType, OwnerInv, Owned, Pending
    <3>5. PassInv' /\ ReadyInv'
      BY <2>1, <2>5, <3>1, <3>2, <3>3 DEF PassInv, ReadyInv, InTransact, Present
    <3>6. Types'
      BY <2>1, <2>2, <2>5, <3>4
         DEF TransactorInv, Types, ServerType, RuntimeType, GhostType, serverVars, runtimeVars
    <3>7. FlightInv'
      BY <2>1, <2>5, <3>1 DEF TransactorInv, FlightInv, Present, serverVars, runtimeVars
    <3>8. ToldInv'
      BY <2>1, <2>5 DEF TransactorInv, ToldInv, Told, Recovered, Kept, Pending, Live, serverVars, runtimeVars
    <3>9. QueueInv'
      BY <2>1, <2>5 DEF QueueInv
    <3>10. ClearTypeOK' /\ ClearInv'
      BY <2>1, ClearStays DEF TransactorInv, serverVars
    <3>11. RecoverInv'
      BY <2>1, RecoverStays DEF TransactorInv, serverVars
    <3> QED
      BY <3>4, <3>5, <3>6, <3>7, <3>8, <3>9, <3>10, <3>11 DEF TransactorInv
  <2> QED
    BY <1>2, <2>3, <2>4, <2>5 DEF Transact
<1> QED
  BY <1>1, <1>2

\* The data-server takes the transaction of a pass: what it keeps is unchanged.
LEMMA ServeSetFacts ==
  ASSUME TransactorInv, InTransact, tx = "none", ServeSet
  PROVE  /\ ServerType' /\ tx' = "pass"
         /\ \A c \in Names : /\ Kept(c)' = Kept(c)
                             /\ store'[c] = IF c \in upd THEN snap[c].spec
                                            ELSE IF c \in del THEN None ELSE backup'[c]
<1>1. tx' = "pass" /\ backup' = store /\ store' = Intents
  BY DEF ServeSet
<1>2. \A c \in upd : snap[c].spec \in Specs
  BY DEF TransactorInv, Types, PassType, PassInv, Present, Config
<1>3. ServerType'
  BY <1>1, <1>2 DEF TransactorInv, Types, ServerType, Intents, Value
<1>4. \A c \in Names : Kept(c)' = Kept(c)
  BY <1>1 DEF Kept
<1> QED
  BY <1>1, <1>3, <1>4 DEF Intents

\* setIntents: the data-server takes the transaction.
LEMMA SetAcceptedStep ==
  ASSUME TransactorInv, UNCHANGED cdVars, SetAccepted PROVE TransactorInv'
<1>1. /\ rec = "set" /\ rec' = "confirm" /\ tx = "none" /\ ServeSet
      /\ UNCHANGED <<configs, runtimeVars, runtime, replay, copies, queued, torn, envVars>>
      /\ UNCHANGED <<snap, upd, del, left, cur, mark, outcome>>
  BY DEF SetAccepted, runtimeVars, passVars
<1>2. /\ ServerType' /\ tx' = "pass"
      /\ \A c \in Names : /\ Kept(c)' = Kept(c)
                          /\ store'[c] = IF c \in upd THEN snap[c].spec
                                         ELSE IF c \in del THEN None ELSE backup'[c]
  BY <1>1, ServeSetFacts DEF InTransact
<1>3. Types'
  BY <1>1, <1>2 DEF TransactorInv, Types, ConfigsType, RuntimeType, PassType, GhostType,
                    BoundsType, envVars
<1>4. OwnerInv' /\ PassInv' /\ ReadyInv'
  BY <1>1 DEF TransactorInv, OwnerInv, Owned, Pending, PassInv, ReadyInv, InTransact, Present
<1>5. FlightInv'
  BY <1>1, <1>2 DEF TransactorInv, FlightInv, InFlight
<1>6. ToldInv'
  BY <1>1, <1>2 DEF TransactorInv, ToldInv, Told, Recovered, Pending, Live
<1>7. QueueInv'
  BY <1>1 DEF TransactorInv, QueueInv
<1>8. ClearTypeOK' /\ ClearInv'
  BY <1>2, ClearStays DEF TransactorInv
<1>9. RecoverInv'
  BY <1>1, <1>2, RecoverStays DEF TransactorInv
<1> QED
  BY <1>3, <1>4, <1>5, <1>6, <1>7, <1>8, <1>9 DEF TransactorInv

\* handleTransactionErrors: what failed is marked, and a failure that is not
\* retried is marked Unrecoverable.
LEMMA FailLoopStep ==
  ASSUME TransactorInv, UNCHANGED cdVars, rec = "set",
         UNCHANGED <<configs, runtimeVars, queued, torn>>, BoundsType',
         NEW cs, cs \subseteq upd \cup del, cs # {},
         NEW m \in {"Failed", "Unrecoverable"}, NEW o \in {"ok", "retry", "stop"},
         o # "retry" => m = "Unrecoverable",
         FailLoop(cs, m, o),
         UNCHANGED serverVars \/ (tx = "none" /\ ServeSet)
  PROVE  TransactorInv'
<1>1. /\ rec' = "fail" /\ left' = cs /\ mark' = m /\ outcome' = o
      /\ UNCHANGED <<configs, runtime, replay, copies, queued, torn>>
      /\ UNCHANGED <<snap, upd, del, cur>>
  BY DEF FailLoop, runtimeVars
<1>2. /\ ServerType' /\ (tx' \in {"clear", "recovery"} => UNCHANGED <<tx, store, backup>>)
      /\ \A c \in Names : Kept(c)' = Kept(c)
  <2>1. CASE UNCHANGED serverVars
    BY <2>1 DEF serverVars, TransactorInv, Types, ServerType, Kept
  <2>2. CASE tx = "none" /\ ServeSet
    BY <2>2, ServeSetFacts DEF InTransact
  <2> QED
    BY <2>1, <2>2
<1>3. Types'
  BY <1>1, <1>2 DEF TransactorInv, Types, ConfigsType, RuntimeType, PassType, GhostType
<1>4. OwnerInv' /\ ReadyInv'
  BY <1>1 DEF TransactorInv, OwnerInv, Owned, Pending, ReadyInv
<1>5. PassInv'
  BY <1>1 DEF TransactorInv, PassInv, InTransact, Present
<1>6. FlightInv'
  BY <1>1, <1>2 DEF TransactorInv, FlightInv, InFlight
<1>7. ToldInv'
  BY <1>1, <1>2 DEF TransactorInv, ToldInv, Told, Recovered, Pending, Live
<1>8. QueueInv'
  BY <1>1 DEF TransactorInv, QueueInv
<1>9. ClearTypeOK' /\ ClearInv'
  BY <1>2, ClearStays DEF TransactorInv
<1>10. RecoverInv'
  BY <1>1, <1>2, RecoverStays DEF TransactorInv
<1> QED
  BY <1>3, <1>4, <1>5, <1>6, <1>7, <1>8, <1>9, <1>10 DEF TransactorInv

\* TransactionSet is aborted, fails or is rejected.
LEMMA SetErrsStep ==
  ASSUME TransactorInv, UNCHANGED cdVars, SetAborted \/ SetFails \/ SetRejected
  PROVE  TransactorInv'
<1>0. rec = "set" /\ upd \cup del # {}
  BY DEF SetAborted, SetFails, SetRejected, TransactorInv, PassInv, InTransact
<1>1. CASE SetAborted
  <2>1. BoundsType'
    BY <1>1, BoundsStay DEF SetAborted, envVars, TransactorInv, Types
  <2> QED
    BY <1>0, <1>1, <2>1, FailLoopStep DEF SetAborted
<1>2. CASE SetFails
  <2>1. BoundsType'
    BY <1>2, BoundsStay DEF SetFails, TransactorInv, Types
  <2>2. \/ FailLoop(upd \cup del, "Failed", "retry")
        \/ FailLoop(upd \cup del, "Unrecoverable", "stop")
    BY <1>2 DEF SetFails
  <2>3. /\ UNCHANGED <<configs, runtimeVars, queued, torn>>
        /\ UNCHANGED serverVars \/ (tx = "none" /\ ServeSet)
    BY <1>2 DEF SetFails
  <2> QED
    BY <1>0, <2>1, <2>2, <2>3, FailLoopStep
<1>3. CASE SetRejected
  <2>1. BoundsType'
    BY <1>3, BoundsStay DEF SetRejected, TransactorInv, Types
  <2>2. /\ UNCHANGED <<configs, runtimeVars, queued, torn>>
        /\ UNCHANGED serverVars
    BY <1>3 DEF SetRejected
  <2>3. PICK cs \in SUBSET (upd \cup del), o \in {"ok", "stop"} :
           cs # {} /\ FailLoop(cs, "Unrecoverable", o)
    <3>1. CASE FailLoop(upd \cup del, "Unrecoverable", "stop")
      BY <1>0, <3>1
    <3>2. CASE \E cs \in (SUBSET (upd \cup del)) \ {{}} : FailLoop(cs, "Unrecoverable", "ok")
      BY <3>2
    <3> QED
      BY <1>3, <3>1, <3>2 DEF SetRejected
  <2> QED
    BY <1>0, <2>1, <2>2, <2>3, FailLoopStep
<1> QED
  BY <1>1, <1>2, <1>3

\* TransactionConfirm: what was sent is kept from now on, and for what is still
\* there the statuses catch up.
LEMMA ConfirmSucceedsStep ==
  ASSUME TransactorInv, UNCHANGED cdVars, ConfirmSucceeds PROVE TransactorInv'
<1>1. /\ rec = "confirm" /\ rec' = "update" /\ left' = upd
      /\ tx = "pass" /\ tx' = "none" /\ backup' = NoConfigs
      /\ torn' = IF runtime = "up" THEN torn \ ((upd \cup del) \cap Present(configs)) ELSE torn
      /\ UNCHANGED <<configs, store, runtimeVars, runtime, replay, copies, queued, envVars>>
      /\ UNCHANGED <<snap, upd, del, cur, mark, outcome>>
  BY DEF ConfirmSucceeds, runtimeVars
<1>2. /\ PassType /\ upd \subseteq Names /\ del \subseteq Names /\ cur = None
      /\ \A c \in upd : ~snap[c].deleting
      /\ \A c \in del : snap[c].deleting /\ configs[c] # None /\ configs[c].deleting
      /\ \A c \in upd : configs[c] = None => c \in torn
      /\ runtime # "up" => upd \cup del \subseteq torn
      /\ \A c \in Names : store[c] = IF c \in upd THEN snap[c].spec
                                     ELSE IF c \in del THEN None ELSE backup[c]
  BY <1>1 DEF TransactorInv, Types, PassType, PassInv, FlightInv, InFlight, InTransact
<1>3. Types'
  BY <1>1, <1>2 DEF TransactorInv, Types, ConfigsType, ServerType, RuntimeType, PassType,
                    GhostType, BoundsType, envVars, NoConfigs, Value
<1>4. OwnerInv' /\ ReadyInv'
  <2>1. ASSUME NEW c \in Names PROVE Owned(c)' \/ c \in torn' \/ Pending(c)'
    <3>1. Owned(c)' = Owned(c) /\ (Owned(c) \/ c \in torn)
      BY <1>1 DEF Owned, Pending, TransactorInv, OwnerInv
    <3>2. c \in upd => Pending(c)'
      BY <1>1 DEF Pending
    <3>3. c \in del => Owned(c)
      BY <1>2 DEF Owned, TransactorInv, OwnerInv
    <3>4. c \in torn => c \in torn' \/ c \in upd \cup del
      BY <1>1
    <3> QED
      BY <3>1, <3>2, <3>3, <3>4
  <2> QED
    BY <1>1, <2>1 DEF TransactorInv, OwnerInv, ReadyInv
<1>5. PassInv'
  BY <1>1, <1>2 DEF TransactorInv, PassInv, InTransact, Present
<1>6. FlightInv'
  <2>1. \A c \in upd : configs[c] = None => c \in torn'
    BY <1>1, <1>2 DEF Present
  <2> QED
    BY <1>1, <1>2, <2>1 DEF FlightInv
<1>7. ToldInv'
  <2> SUFFICES ASSUME NEW c \in Names, c \notin torn' PROVE Told(c)'
    BY DEF ToldInv
  <2>1. Kept(c)' = store[c]
    BY <1>1 DEF Kept
  <2>2. CASE c \in upd \cup del
    <3>1. runtime = "up"
      BY <1>1, <1>2, <2>2
    <3>2. configs[c] # None
      BY <1>1, <1>2, <2>2 DEF Present
    <3>3. CASE c \in upd
      <4>1. Kept(c)' = snap[c].spec /\ c \notin del /\ Pending(c)'
        BY <1>1, <1>2, <2>1, <3>3 DEF Pending
      <4> QED
        BY <1>1, <3>1, <3>2, <4>1 DEF Told, Recovered
    <3>4. CASE c \in del
      <4>1. Kept(c)' = None /\ ~Live(c)'
        BY <1>1, <1>2, <2>1, <3>4 DEF Live
      <4> QED
        BY <1>1, <3>1, <3>2, <4>1 DEF Told, Recovered
    <3> QED
      BY <2>2, <3>3, <3>4
  <2>3. CASE c \notin upd \cup del
    <3>1. c \notin torn
      BY <1>1, <2>3
    <3>2. Told(c) /\ ~Pending(c) /\ ~Pending(c)'
      BY <1>1, <2>3, <3>1 DEF TransactorInv, ToldInv, Pending
    <3>3. Kept(c)' = Kept(c)
      BY <1>1, <1>2, <2>1, <2>3 DEF Kept
    <3> QED
      BY <1>1, <2>3, <3>2, <3>3 DEF Told, Recovered, Live
  <2> QED
    BY <2>2, <2>3
<1>8. QueueInv'
  BY <1>1 DEF TransactorInv, QueueInv
<1>9. ClearTypeOK' /\ ClearInv'
  BY <1>1, ClearStays DEF TransactorInv
<1>10. RecoverInv'
  BY <1>1, RecoverStays DEF TransactorInv
<1> QED
  BY <1>3, <1>4, <1>5, <1>6, <1>7, <1>8, <1>9, <1>10 DEF TransactorInv

\* The answer to the confirm is lost, or the transaction is no more.
LEMMA ConfirmFailsStep ==
  ASSUME TransactorInv, UNCHANGED cdVars, ConfirmFails PROVE TransactorInv'
<1>1. rec = "confirm" /\ UNCHANGED <<configs, store, runtimeVars>> /\ BoundsType'
  BY BoundsStay DEF ConfirmFails, TransactorInv, Types
<1>2. CASE tx = "pass" /\ tx' = "none" /\ backup' = NoConfigs /\ TransactErrs(TRUE)
  BY <1>1, <1>2, TransactErrsStep
<1>3. CASE UNCHANGED <<tx, backup>> /\ TransactErrs(FALSE)
  BY <1>1, <1>3, TransactErrsStep
<1> QED
  BY <1>2, <1>3 DEF ConfirmFails

\* A write of the loops over what was updated or failed: one Config changes, keeps
\* its place, its deletion and its finalizer, and what it calls applied unless its
\* status write is the one that was pending.
LEMMA LoopWriteStep ==
  ASSUME TransactorInv, UNCHANGED cdVars, rec \in {"update", "fail"},
         NEW c \in left, NEW n \in Config,
         configs[c] # None,
         n.deleting = configs[c].deleting, configs[c].fin => n.fin,
         n.applied # None => n.fin,
         configs' = configs \/ configs' = [configs EXCEPT ![c] = n],
         queued' = Event,
         UNCHANGED <<serverVars, runtimeVars, envVars, rec, snap, upd, del, mark, outcome, torn>>,
         \/ left' = left /\ n.applied = configs[c].applied
         \/ /\ left' = left \ {c}
            /\ configs' = configs => configs[c].deleting \/ n = configs[c]
            /\ IF rec = "update" THEN n.applied = snap[c].spec ELSE n.applied = configs[c].applied,
         \/ cur' = None
         \/ cur' = c /\ left' = left /\ configs'[c].fin,
         QueueInv'
  PROVE  TransactorInv'
<1>1. /\ UNCHANGED <<store, tx, backup, runtime, replay, copies, rec, snap, upd, del, mark, outcome, torn>>
      /\ UNCHANGED <<edits, fails, resets>>
  BY DEF serverVars, runtimeVars, envVars
<1>2. Types /\ c \in Names /\ upd \subseteq Names /\ del \subseteq Names /\ n # None
      /\ left \subseteq upd \cup del /\ (rec = "update" => c \in upd) /\ left' \subseteq left
  BY TransactorAssumption DEF TransactorInv, Types, PassType, PassInv
<1>3. /\ \A d \in Names : d # c => configs'[d] = configs[d]
      /\ configs'[c] = n \/ configs'[c] = configs[c]
      /\ configs'[c] # None /\ configs'[c].deleting = configs[c].deleting
      /\ configs[c].fin => configs'[c].fin
  BY <1>2 DEF Types, ConfigsType
<1>4. Types'
  <2>1. ConfigsType'
    BY <1>2 DEF Types, ConfigsType
  <2>2. PassType' /\ GhostType'
    BY <1>1, <1>2 DEF Types, PassType, GhostType, Event
  <2> QED
    BY <1>1, <1>2, <2>1, <2>2 DEF Types, ServerType, RuntimeType, BoundsType
<1>5. OwnerInv'
  <2> SUFFICES ASSUME NEW d \in Names
               PROVE  /\ configs'[d] # None /\ configs'[d].deleting => configs'[d].fin
                      /\ Owned(d)' \/ d \in torn' \/ Pending(d)'
    BY DEF OwnerInv
  <2>1. CASE d # c
    BY <1>1, <1>3, <2>1 DEF TransactorInv, OwnerInv, Owned, Pending
  <2>2. CASE d = c
    <3>1. configs'[c].deleting => configs'[c].fin
      BY <1>2, <1>3 DEF TransactorInv, OwnerInv
    <3>2. Owned(c)' \/ c \in torn \/ (Pending(c) /\ left' = left)
      <4>1. CASE left' = left
        BY <1>2, <1>3, <4>1 DEF TransactorInv, OwnerInv, Owned
      <4>2. CASE left' # left
        <5>1. configs'[c].fin \/ c \in torn \/ configs'[c].applied = None
          BY <1>2, <1>3, <4>2 DEF TransactorInv, OwnerInv, Owned, Types, ConfigsType
        <5> QED
          BY <5>1 DEF Owned
      <4> QED
        BY <4>1, <4>2
    <3>3. Pending(c) /\ left' = left => Pending(c)'
      BY <1>1 DEF Pending
    <3> QED
      BY <1>1, <2>2, <3>1, <3>2, <3>3
  <2> QED
    BY <2>1, <2>2
<1>6. PassInv'
  <2>1. \A d \in Names : configs[d] # None /\ configs[d].deleting =>
           configs'[d] # None /\ configs'[d].deleting
    BY <1>3
  <2>2. cur' # None => cur' \in left' /\ configs'[cur'] # None /\ configs'[cur'].fin
    BY <1>3
  <2> QED
    BY <1>1, <1>2, <2>1, <2>2 DEF TransactorInv, PassInv, InTransact, Present
<1>7. ReadyInv'
  BY <1>1 DEF ReadyInv
<1>8. FlightInv'
  <2>1. \A d \in upd : configs'[d] = None => configs[d] = None
    BY <1>2, <1>3
  <2>2. InFlight' = InFlight
    BY <1>1 DEF InFlight
  <2> QED
    BY <1>1, <2>1, <2>2 DEF TransactorInv, FlightInv
<1>9. ToldInv'
  <2> SUFFICES ASSUME NEW d \in Names, d \notin torn' PROVE Told(d)'
    BY DEF ToldInv
  <2>1. Told(d) /\ Kept(d)' = Kept(d)
    BY <1>1 DEF TransactorInv, ToldInv, Kept
  <2>2. CASE d # c
    <3>1. Pending(d)' = Pending(d)
      BY <1>1, <2>2 DEF Pending
    <3> QED
      BY <1>1, <1>3, <2>1, <2>2, <3>1 DEF Told, Recovered, Live
  <2>3. CASE d = c
    <3>1. rec = "update" => runtime = "up"
      BY <1>1, <1>2, <2>3 DEF TransactorInv, FlightInv, InFlight
    <3>2. CASE left' = left /\ n.applied = configs[c].applied
      <4>1. Pending(c)' = Pending(c) /\ configs'[c].applied = configs[c].applied
        BY <1>1, <1>3, <3>2 DEF Pending
      <4> QED
        BY <1>1, <1>3, <2>1, <2>3, <4>1 DEF Told, Recovered, Live
    <3>3. CASE left' = left \ {c} /\ rec = "update"
      <4>1. ~Pending(c)' /\ Pending(c) /\ n.applied = snap[c].spec
        BY <1>1, <1>2, <3>3 DEF Pending
      <4>0. left' # left
        BY <3>3
      <4>2. Live(c)' => Live(c) /\ configs'[c] = n
        <5>1. configs' = configs => configs[c].deleting \/ n = configs[c]
          BY <4>0
        <5>2. configs' # configs => configs'[c] = n
          BY <1>2 DEF Types, ConfigsType
        <5> QED
          BY <1>3, <5>1, <5>2 DEF Live
      <4>3. Live(c)' => Kept(c)' = configs'[c].applied
        BY <2>1, <2>3, <4>1, <4>2 DEF Told, Recovered
      <4> QED
        BY <1>1, <1>3, <2>1, <2>3, <3>1, <3>3, <4>1, <4>3 DEF Told, Recovered
    <3>4. CASE left' = left \ {c} /\ rec = "fail"
      <4>1. configs'[c].applied = configs[c].applied /\ ~Pending(c)' /\ ~Pending(c)
        BY <1>1, <1>2, <1>3, <3>4 DEF Pending
      <4> QED
        BY <1>1, <1>3, <2>1, <2>3, <4>1 DEF Told, Recovered, Live
    <3> QED
      BY <3>2, <3>3, <3>4
  <2> QED
    BY <2>2, <2>3
<1>10. ClearTypeOK' /\ ClearInv'
  BY <1>1, ClearStays DEF TransactorInv
<1>11. RecoverInv'
  <2>1. runtime # "up" /\ c \notin torn => configs'[c].applied = configs[c].applied
    <3>1. runtime # "up" /\ rec = "update" => c \in torn
      BY <1>2 DEF TransactorInv, FlightInv, InFlight
    <3> QED
      BY <1>3, <3>1
  <2> QED
    BY <1>1, <1>3, <2>1, RecoverStays DEF TransactorInv
<1> QED
  BY <1>4, <1>5, <1>6, <1>7, <1>8, <1>9, <1>10, <1>11 DEF TransactorInv

\* applyFinalizer on a Config of the loop.
LEMMA ApplyFinalizerStep ==
  ASSUME TransactorInv, UNCHANGED cdVars, NEW c \in Names, ApplyFinalizer(c)
  PROVE  TransactorInv'
<1>1. /\ rec \in {"update", "fail"} /\ cur = None /\ c \in left
      /\ UNCHANGED <<serverVars, runtimeVars, envVars>>
  BY DEF ApplyFinalizer
<1>2. CASE configs[c] = None
  <2>1. TransactErrs(rec = "update") /\ UNCHANGED configs
    BY <1>2 DEF ApplyFinalizer
  <2>2. BoundsType' /\ UNCHANGED <<store, tx, backup>>
    BY <1>1, BoundsStay DEF TransactorInv, Types, envVars, serverVars
  <2> QED
    BY <1>1, <2>1, <2>2, TransactErrsStep
<1>3. CASE configs[c] # None
  <2> DEFINE n == [configs[c] EXCEPT !.fin = TRUE]
  <2>1. configs[c] \in Config /\ configs \in [Names -> Config \cup {None}]
    BY <1>3 DEF TransactorInv, Types, ConfigsType
  <2>2. /\ n \in Config /\ n.deleting = configs[c].deleting /\ n.fin
        /\ n.applied = configs[c].applied
    BY <2>1 DEF Config
  <2>3. /\ configs' = [configs EXCEPT ![c] = n] /\ queued' = Event /\ cur' = c
        /\ UNCHANGED <<rec, snap, upd, del, left, mark, outcome, torn>>
    BY <1>3 DEF ApplyFinalizer, Write
  <2> HIDE DEF n
  <2>4. configs'[c].fin
    BY <2>1, <2>2, <2>3
  <2>5. QueueInv'
    BY <1>1, <2>3, QueueKeeps DEF TransactorInv, Event, runtimeVars
  <2> QED
    BY <1>1, <1>3, <2>2, <2>3, <2>4, <2>5, LoopWriteStep
<1> QED
  BY <1>2, <1>3

\* The Config between its finalizer and its status is there.
LEMMA CurIsThere ==
  ASSUME TransactorInv, cur # None
  PROVE  /\ rec \in {"update", "fail"} /\ cur \in left /\ cur \in Names
         /\ configs[cur] \in Config /\ configs[cur] # None /\ configs[cur].fin
         /\ snap[cur] \in Config /\ snap[cur] # None
<1>1. rec \in {"update", "fail"} /\ cur \in left /\ configs[cur] # None /\ configs[cur].fin
  BY DEF TransactorInv, PassInv
<1>2. cur \in Names /\ configs[cur] \in Config
  BY <1>1 DEF TransactorInv, Types, PassType, ConfigsType
<1>3. snap[cur] # None
  BY <1>1 DEF TransactorInv, PassInv, InTransact, Present
<1>4. snap[cur] \in Config
  BY <1>2, <1>3 DEF TransactorInv, Types, PassType
<1> QED
  BY <1>1, <1>2, <1>3, <1>4

\* updateConfigWithSuccess records what was transacted, and so what is kept.
LEMMA SuccessStep ==
  ASSUME TransactorInv, UNCHANGED cdVars, updateConfigWithSuccess PROVE TransactorInv'
<1> DEFINE n == [configs[cur] EXCEPT !.cond = "Ready", !.obsGen = snap[cur].gen,
                                     !.ready = "True",
                                     !.devGen = FALSE, !.applied = snap[cur].spec]
<1>1. WriteStatus("update", n)
  BY DEF updateConfigWithSuccess
<1>2. /\ rec = "update" /\ cur # None
      /\ UNCHANGED <<serverVars, runtimeVars, envVars>>
  BY <1>1 DEF WriteStatus
<1>3. /\ cur \in left /\ cur \in Names
      /\ configs[cur] \in Config /\ configs[cur] # None /\ configs[cur].fin
      /\ snap[cur] \in Config /\ snap[cur] # None
  BY <1>2, CurIsThere
<1>4. snap[cur].gen \in Nat /\ snap[cur].spec \in Specs /\ snap[cur].spec \in Value
  BY <1>3 DEF Config, Value
<1>5. /\ n \in Config /\ n.deleting = configs[cur].deleting /\ n.fin = configs[cur].fin
      /\ n.applied = snap[cur].spec /\ n.cond = "Ready" /\ n.spec = configs[cur].spec
  BY <1>3, <1>4 DEF Config
<1> HIDE DEF n
<1>6. /\ configs' = IF configs[cur].deleting THEN configs ELSE [configs EXCEPT ![cur] = n]
      /\ queued' = Event /\ left' = left \ {cur} /\ cur' = None
      /\ UNCHANGED <<rec, snap, upd, del, mark, outcome, torn>>
  BY <1>1, <1>3 DEF WriteStatus, Write
<1>7. configs'[cur] = IF configs[cur].deleting THEN configs[cur] ELSE n
  BY <1>3, <1>6 DEF TransactorInv, Types, ConfigsType
<1>8. QueueInv'
  <2>1. CASE queued'
    BY <1>2, <1>6, <2>1 DEF QueueInv
  <2>2. CASE ~queued'
    <3>1. ~queued /\ configs' = configs
      BY <1>6, <2>2 DEF Event
    <3>2. configs = snap /\ \A c \in upd \ left : NoChange(configs[c])
      BY <1>2, <3>1 DEF TransactorInv, QueueInv
    <3>3. ~snap[cur].deleting
      BY <1>2, <1>3 DEF TransactorInv, PassInv, InTransact
    <3>4. configs[cur] = n
      BY <1>7, <3>1, <3>2, <3>3
    <3>5. NoChange(configs[cur])
      BY <1>5, <3>2, <3>4 DEF NoChange
    <3> QED
      BY <1>2, <1>6, <3>1, <3>2, <3>5 DEF QueueInv, NoChange
  <2> QED
    BY <2>1, <2>2
<1>9. configs' = configs => configs[cur].deleting \/ n = configs[cur]
  BY <1>7
<1> QED
  BY <1>2, <1>3, <1>5, <1>6, <1>8, <1>9, LoopWriteStep

\* updateConfigWithError records the failure for the generation that failed.
LEMMA ErrorStep ==
  ASSUME TransactorInv, UNCHANGED cdVars, updateConfigWithError PROVE TransactorInv'
<1> DEFINE n == [configs[cur] EXCEPT !.cond = mark, !.obsGen = snap[cur].gen,
                                     !.ready = "False",
                                     !.devGen = (mark = "Unrecoverable")]
<1>1. WriteStatus("fail", n)
  BY DEF updateConfigWithError
<1>2. /\ rec = "fail" /\ cur # None
      /\ UNCHANGED <<serverVars, runtimeVars, envVars>>
  BY <1>1 DEF WriteStatus
<1>3. /\ cur \in left /\ cur \in Names
      /\ configs[cur] \in Config /\ configs[cur] # None /\ configs[cur].fin
      /\ snap[cur] \in Config /\ snap[cur] # None
  BY <1>2, CurIsThere
<1>4. snap[cur].gen \in Nat /\ mark \in {"none", "Ready", "Failed", "Unrecoverable"}
  BY <1>3 DEF Config, TransactorInv, Types, PassType
<1>5. /\ n \in Config /\ n.deleting = configs[cur].deleting /\ n.fin = configs[cur].fin
      /\ n.applied = configs[cur].applied /\ n.cond = mark /\ n.obsGen = snap[cur].gen
  BY <1>3, <1>4 DEF Config
<1> HIDE DEF n
<1>6. /\ configs' = IF configs[cur].deleting THEN configs ELSE [configs EXCEPT ![cur] = n]
      /\ queued' = Event /\ left' = left \ {cur} /\ cur' = None
      /\ UNCHANGED <<rec, snap, upd, del, mark, outcome, torn>>
  BY <1>1, <1>3 DEF WriteStatus, Write
<1>7. configs'[cur] = IF configs[cur].deleting THEN configs[cur] ELSE n
  BY <1>3, <1>6 DEF TransactorInv, Types, ConfigsType
<1>8. QueueInv'
  <2>1. CASE queued'
    BY <1>2, <1>6, <2>1 DEF TransactorInv, QueueInv
  <2>2. CASE ~queued'
    <3>1. ~queued /\ configs' = configs
      BY <1>6, <2>2 DEF Event
    <3>2. /\ outcome # "blocked" /\ configs = snap
          /\ outcome # "retry" => mark = "Unrecoverable"
      BY <1>2, <3>1 DEF TransactorInv, QueueInv
    <3>3. outcome # "retry" => configs[cur].deleting \/ ~IsRecoverable(configs[cur])
      BY <1>5, <1>7, <3>1, <3>2 DEF IsRecoverable
    <3>4. outcome # "retry" => Stuck'
      BY <1>3, <3>1, <3>3 DEF Stuck, Present
    <3> QED
      BY <1>2, <1>6, <3>1, <3>2, <3>4 DEF QueueInv
  <2> QED
    BY <2>1, <2>2
<1>9. configs' = configs => configs[cur].deleting \/ n = configs[cur]
  BY <1>7
<1>10. n.applied # None => n.fin
  BY <1>3, <1>5
<1> QED
  BY <1>2, <1>3, <1>5, <1>6, <1>8, <1>9, <1>10, LoopWriteStep

\* deleteFinalizer: the Config goes, and its intent is gone.
LEMMA DeleteFinalizerStep ==
  ASSUME TransactorInv, UNCHANGED cdVars, NEW c \in Names, DeleteFinalizer(c)
  PROVE  TransactorInv'
<1>1. /\ rec = "delete" /\ c \in left /\ left' = left \ {c}
      /\ configs' = [configs EXCEPT ![c] = None] /\ queued' = Event
      /\ UNCHANGED runtimeVars
      /\ UNCHANGED <<store, tx, backup, runtime, replay, copies, rec, snap, upd, del, cur, mark, outcome,
                     torn, envVars>>
  BY DEF DeleteFinalizer, Write, serverVars, runtimeVars
<1>2. /\ Types /\ left \subseteq del /\ del \subseteq Names /\ cur = None
      /\ snap[c].deleting /\ c \in del /\ c \notin upd
      /\ \A d \in left : configs[d] # None /\ configs[d].deleting
  BY <1>1 DEF TransactorInv, Types, PassType, PassInv, InTransact
<1>3. configs'[c] = None /\ \A d \in Names : d # c => configs'[d] = configs[d]
  BY <1>1, <1>2 DEF Types, ConfigsType
<1>4. Types'
  BY <1>1, <1>2 DEF Types, ConfigsType, ServerType, RuntimeType, PassType, GhostType, BoundsType,
                    envVars, Event
<1>5. OwnerInv' /\ ReadyInv'
  BY <1>1, <1>3 DEF TransactorInv, OwnerInv, Owned, Pending, ReadyInv
<1>6. PassInv'
  <2>1. \A d \in left' : configs'[d] # None /\ configs'[d].deleting
    BY <1>1, <1>2, <1>3
  <2> QED
    BY <1>1, <1>2, <2>1 DEF TransactorInv, PassInv, InTransact, Present
<1>7. FlightInv'
  <2>1. \A d \in upd : configs'[d] = None => configs[d] = None
    BY <1>2, <1>3 DEF Types, PassType
  <2>2. InFlight' = InFlight
    BY <1>1 DEF InFlight
  <2> QED
    BY <1>1, <2>1, <2>2 DEF TransactorInv, FlightInv
<1>8. ToldInv'
  <2> SUFFICES ASSUME NEW d \in Names, d \notin torn' PROVE Told(d)'
    BY DEF ToldInv
  <2>1. Told(d) /\ Kept(d)' = Kept(d) /\ ~Pending(d) /\ ~Pending(d)'
    BY <1>1 DEF TransactorInv, ToldInv, Kept, Pending
  <2>2. CASE d # c
    BY <1>1, <1>3, <2>1, <2>2 DEF Told, Recovered, Live
  <2>3. CASE d = c
    <3>1. runtime = "up"
      BY <1>1, <1>2, <2>3 DEF TransactorInv, FlightInv, InFlight
    <3>2. Kept(c) = None
      BY <1>1, <1>2, <2>1, <2>3 DEF Told, Recovered
    <3> QED
      BY <1>1, <1>3, <2>1, <2>3, <3>1, <3>2 DEF Told, Recovered, Live
  <2> QED
    BY <2>2, <2>3
<1>9. QueueInv'
  BY <1>1 DEF TransactorInv, QueueInv, Event
<1>10. ClearTypeOK' /\ ClearInv'
  BY <1>1, ClearStays DEF TransactorInv
<1>11. RecoverInv'
  <2>1. runtime # "up" => c \in torn
    BY <1>1, <1>2 DEF TransactorInv, FlightInv, InFlight
  <2> QED
    BY <1>1, <1>3, <2>1, RecoverStays DEF TransactorInv
<1> QED
  BY <1>4, <1>5, <1>6, <1>7, <1>8, <1>9, <1>10, <1>11 DEF TransactorInv

\* The loops end, and with them Transact.
LEMMA LoopEndsStep ==
  ASSUME TransactorInv, UNCHANGED cdVars, LoopEnds PROVE TransactorInv'
<1>1. /\ rec \in {"update", "delete", "fail"} /\ cur = None /\ left = {}
      /\ UNCHANGED <<configs, serverVars, runtimeVars, torn>> /\ UNCHANGED <<store, tx, backup>>
      /\ BoundsType'
  BY BoundsStay DEF LoopEnds, envVars, serverVars, TransactorInv, Types
<1>2. \A c \in Names \ torn' : ~Pending(c)
  BY <1>1 DEF Pending
<1>3. torn' \in SUBSET Names /\ ServerType' /\ queued \in BOOLEAN
  BY <1>1 DEF TransactorInv, Types, GhostType, ServerType
<1>4. /\ upd = {c \in Present(snap) : ~snap[c].deleting}
      /\ del = {c \in Present(snap) : snap[c].deleting}
  BY <1>1 DEF TransactorInv, PassInv, InTransact
<1>5. CASE /\ rec = "update" /\ del # {}
           /\ rec' = "delete" /\ left' = del
           /\ UNCHANGED <<snap, upd, del, cur, mark, outcome, queued>>
  <2>1. Types'
    BY <1>1, <1>3, <1>5 DEF TransactorInv, Types, ConfigsType, RuntimeType, PassType, GhostType,
                            runtimeVars
  <2>2. OwnerInv' /\ ReadyInv'
    BY <1>1, <1>5 DEF TransactorInv, OwnerInv, Owned, Pending, ReadyInv
  <2>3. PassInv'
    BY <1>1, <1>5 DEF TransactorInv, PassInv, InTransact, Present
  <2>4. FlightInv'
    BY <1>1, <1>5 DEF TransactorInv, FlightInv, InFlight, runtimeVars
  <2>5. ToldInv'
    BY <1>1, <1>5 DEF TransactorInv, ToldInv, Told, Recovered, Kept, Pending, Live, runtimeVars
  <2>6. QueueInv'
    BY <1>1, <1>5 DEF TransactorInv, QueueInv
  <2>7. ClearTypeOK' /\ ClearInv'
    BY <1>1, ClearStays DEF TransactorInv
  <2>8. RecoverInv'
    BY <1>1, RecoverStays DEF TransactorInv
  <2> QED
    BY <2>1, <2>2, <2>3, <2>4, <2>5, <2>6, <2>7, <2>8 DEF TransactorInv
<1>6. CASE /\ rec = "delete" \/ (rec = "update" /\ del = {})
           /\ ReadyLoop("ok", queued)
  <2>1. ASSUME ~queued, \A c \in Present(configs) : configs[c].ready = ShownReady("ok", configs[c])
        PROVE  Settled
    <3>1. configs = snap
      BY <1>1, <2>1 DEF TransactorInv, QueueInv
    <3>2. CASE rec = "delete"
      <4>1. del # {}
        BY <3>2 DEF TransactorInv, PassInv
      <4>2. Stuck
        BY <1>4, <3>1, <4>1 DEF Stuck
      <4> QED
        BY <4>2 DEF Settled
    <3>3. CASE rec = "update" /\ del = {}
      <4>1. \A c \in Present(configs) : c \in upd \ left
        BY <1>1, <1>4, <3>1, <3>3
      <4>2. \A c \in Present(configs) : NoChange(configs[c])
        BY <2>1, <3>3, <4>1 DEF TransactorInv, QueueInv
      <4>3. \A c \in Present(configs) : configs[c].ready = "True"
        BY <2>1, <4>2 DEF NoChange, ShownReady
      <4> QED
        BY <4>2, <4>3 DEF Settled
    <3> QED
      BY <1>6, <3>2, <3>3
  <2>2. Done(queued) /\ ~queued =>
           \A c \in Present(configs) : configs[c].ready = ShownReady("ok", configs[c])
    <3>1. ConfigsType /\ \A c \in Names \ torn' : Owned(c)
      BY <1>1, <1>2 DEF TransactorInv, Types, OwnerInv
    <3> QED
      BY <1>1, <1>3, <1>6, <3>1, ReadyLoopFacts DEF Done
  <2> QED
    BY <1>1, <1>2, <1>3, <1>6, <2>1, <2>2, PassEnds
<1>7. CASE rec = "fail" /\ (ReadyLoop(outcome, queued) \/ (outcome # "retry" /\ Done(queued)))
  <2>1. outcome \in {"ok", "retry", "stop", "blocked"}
    BY DEF TransactorInv, Types, PassType
  <2>2. ~queued /\ outcome # "retry" => Settled
    BY <1>1, <1>7 DEF TransactorInv, QueueInv, Settled
  <2> QED
    BY <1>1, <1>2, <1>3, <1>7, <2>1, <2>2, PassEnds
<1> QED
  BY <1>5, <1>6, <1>7 DEF LoopEnds

----------------------------------------------------------------------------
(* The theorems. *)

\* The invariant holds at the start.
LEMMA TransactorInit == ClearInit => TransactorInv
<1> SUFFICES ASSUME ClearInit PROVE TransactorInv
  OBVIOUS
<1>0. /\ configs \in [Names -> Config \cup {None}]
      /\ \A c \in Names : configs[c] # None => ~configs[c].deleting /\ configs[c].applied = None
  <2>1. \A s \in Specs : /\ NewConfig(s) \in Config /\ ~NewConfig(s).deleting
                         /\ NewConfig(s).applied = None
    BY DEF NewConfig, Config, Value
  <2>2. configs \in [Names -> {None} \cup {NewConfig(s) : s \in Specs}]
    BY DEF ClearInit, TxInit
  <2> HIDE DEF Config
  <2> QED
    BY <2>1, <2>2
<1>1. /\ store = NoConfigs /\ tx = "none" /\ backup = NoConfigs
      /\ runtime = "up" /\ replay = NoConfigs /\ copies = NoConfigs /\ rec = "idle"
      /\ snap = NoConfigs /\ upd = {} /\ del = {} /\ left = {} /\ cur = None
      /\ mark = "Failed" /\ outcome = "ok" /\ queued = TRUE /\ torn = {}
      /\ edits = 0 /\ fails = 0 /\ resets = 0
      /\ req = NoRequest /\ reply = "none"
  BY DEF ClearInit, TxInit
<1>2. Types
  <2>1. BoundsType
    BY <1>1, TransactorAssumption DEF BoundsType
  <2>2. ConfigsType /\ ServerType /\ RuntimeType /\ PassType /\ GhostType
    BY <1>0, <1>1 DEF ConfigsType, ServerType, RuntimeType, PassType, GhostType, NoConfigs, Value
  <2> QED
    BY <2>1, <2>2 DEF Types
<1>3. ClearTypeOK
  <2>1. NoRequest \in [pc : {"idle", "set", "confirm"}, want : [Names -> Value],
                       attempt : 0 .. MaxAttempts]
    BY ClearAssumption DEF NoRequest, NoConfigs, Value
  <2>2. NoRequest.pc = "idle" /\ \A c \in Names : NoRequest.want[c] = None
    BY DEF NoRequest, NoConfigs
  <2> QED
    BY <1>1, <2>1, <2>2 DEF ClearTypeOK, Wanted
<1>4. OwnerInv /\ PassInv /\ ReadyInv /\ FlightInv /\ RecoverInv /\ QueueInv /\ ClearInv
  BY <1>0, <1>1 DEF OwnerInv, Owned, PassInv, ReadyInv, FlightInv, RecoverInv, QueueInv, ClearInv,
                    NoConfigs, InTransact, InFlight
<1>5. ToldInv
  BY <1>0, <1>1 DEF ToldInv, Told, Recovered, Kept, Live, Pending, NoConfigs
<1> QED
  BY <1>2, <1>3, <1>4, <1>5 DEF TransactorInv

\* Every step keeps the invariant.
LEMMA TransactorStep == TransactorInv /\ [ClearNext]_allVars => TransactorInv'
<1> SUFFICES ASSUME TransactorInv, [ClearNext]_allVars PROVE TransactorInv'
  OBVIOUS
<1>1. CASE UNCHANGED allVars
  <2>1. /\ UNCHANGED <<configs, serverVars, runtimeVars, rec, passVars, queued, torn, envVars>>
        /\ UNCHANGED cdVars
    BY <1>1 DEF allVars, txVars
  <2>2. UNCHANGED <<store, tx, backup>>
    BY <2>1 DEF serverVars
  <2>3. ServerType' /\ BoundsType' /\ torn' \in SUBSET Names
    BY <2>1, <2>2 DEF TransactorInv, Types, ServerType, BoundsType, GhostType, envVars
  <2>4. ClearTypeOK' /\ ClearInv'
    BY <2>1, <2>2, ClearStays DEF TransactorInv
  <2>5. \A c \in Names : Kept(c)' = Kept(c)
    BY <2>2 DEF Kept
  <2>6. tx' = "clear" => \A c \in Names \ torn' : store'[c] = backup'[c]
    BY <2>1, <2>2 DEF TransactorInv, FlightInv
  <2> QED
    BY <2>1, <2>3, <2>4, <2>5, <2>6, ServerStep
<1>2. CASE Reconcile /\ UNCHANGED cdVars
  BY <1>2, StartStep, SetAcceptedStep, SetErrsStep, ConfirmSucceedsStep, ConfirmFailsStep,
     ApplyFinalizerStep, DeleteFinalizerStep, UpdateConfigForTargetStep, SuccessStep, ErrorStep,
     LoopEndsStep
     DEF Reconcile
<1>3. CASE TxNext /\ UNCHANGED cdVars
  BY <1>2, <1>3, UserStep, ApiCallFailsStep, RollbackStep, StoreIsLostStep, RecoverListStep,
     RecoverSetStep, RecoverConfirmStep, RecoverRefusedStep, RecoverStatusStep, RecoverEndsStep,
     RecoverFailsStep, CrashStep
     DEF TxNext, Recovery
<1>4. CASE (\E cs \in SUBSET Names : ClearDeviations(cs)) \/ ClearStep
  BY <1>4, ClearRequestStep
<1> QED
  BY <1>1, <1>3, <1>4 DEF ClearNext

\* The inductive invariant holds of every behaviour of the reconciler, its faults and
\* the requests beside it.
THEOREM TransactorInvariant == ClearSpec => []TransactorInv
<1>1. ClearSafety => []TransactorInv
  BY TransactorInit, TransactorStep, PTL DEF ClearSafety
<1> QED
  BY <1>1, PTL DEF ClearSpec

\* Configs, transactions, passes and requests have their types, and a request is
\* tried at most MaxAttempts times.
THEOREM TransactorTypes == ClearSpec => [](TxTypeOK /\ ClearTypeOK)
<1>1. TransactorInv => TxTypeOK /\ ClearTypeOK
  BY DEF TransactorInv, Types, ConfigsType, ServerType, RuntimeType, PassType, GhostType,
         BoundsType, TxTypeOK
<1> QED
  BY <1>1, TransactorInvariant, PTL

\* At rest, what the status of a Config that shows Ready calls applied is what the
\* datastore holds, whatever was edited, failed, rolled back or replayed before.
THEOREM AppliedIsStored == ClearSpec => []ReadyIsApplied
<1>1. TransactorInv => ReadyIsApplied
  BY DEF TransactorInv, ToldInv, Told, Recovered, Kept, Pending, ReadyIsApplied, AtRest, Live
<1> QED
  BY <1>1, TransactorInvariant, PTL

\* At rest, an intent is in the datastore only with a Config that has the finalizer.
THEOREM StoredHasOwner == ClearSpec => []StoredIsOwned
<1>1. TransactorInv => StoredIsOwned
  <2> SUFFICES ASSUME TransactorInv, AtRest, NEW c \in Names \ torn, store[c] # None
               PROVE  configs[c] # None /\ configs[c].fin
    BY DEF StoredIsOwned
  <2>1. Told(c) /\ Kept(c) = store[c] /\ ~Pending(c) /\ runtime = "up"
    BY DEF TransactorInv, ToldInv, Kept, AtRest, Pending
  <2>2. configs[c] # None
    BY <2>1 DEF Told, Recovered
  <2> QED
    BY <2>1, <2>2 DEF Told, Recovered, Live, TransactorInv, OwnerInv, Owned
<1> QED
  BY <1>1, TransactorInvariant, PTL

\* At rest, with no deletion waiting and no failure for the present generation, every
\* Config has its present spec applied and shows Ready.
THEOREM NoEditForgotten == ClearSpec => []NothingForgotten
<1>1. TransactorInv => NothingForgotten
  <2> SUFFICES ASSUME TransactorInv, AtRest,
                      \A c \in Present(configs) : Live(c) /\ IsRecoverable(configs[c])
               PROVE  \A c \in Present(configs) :
                        configs[c].ready = "True" /\ configs[c].applied = configs[c].spec
    BY DEF NothingForgotten
  <2>1. Settled
    BY DEF TransactorInv, QueueInv, AtRest
  <2>2. ~Stuck
    BY DEF Stuck, Live
  <2> QED
    BY <2>1, <2>2 DEF Settled, NoChange
<1> QED
  BY <1>1, TransactorInvariant, PTL

\* A cleardeviation request that is answered without an error has its specs in the
\* datastore, confirmed, at the moment of the answer.
THEOREM ClearedDeviationIsStored == ClearSpec => ClearedIsStored
<1> DEFINE A == reply # "cleared" /\ reply' = "cleared" =>
                  tx' = "none" /\ \A c \in Wanted : store'[c] = req.want[c]
<1>1. TransactorInv /\ [ClearNext]_allVars => [A]_allVars
  <2> SUFFICES ASSUME TransactorInv, ClearNext, reply # "cleared", reply' = "cleared"
               PROVE  tx' = "none" /\ \A c \in Wanted : store'[c] = req.want[c]
    OBVIOUS
  <2>1. ClearConfirm
    BY DEF ClearNext, cdVars, ClearDeviations, ClearStep, ClearSet, ClearAborted, ClearSetFails,
           ClearRejected, ClearConfirmFails, Retry, Answer
  <2> QED
    BY <2>1 DEF ClearConfirm, TransactorInv, ClearInv
<1>2. ClearSafety => [][A]_allVars
  BY <1>1, TransactorInit, TransactorStep, PTL DEF ClearSafety
<1> QED
  BY <1>2, PTL DEF ClearSpec, ClearedIsStored
=============================================================================
