---------------------------- MODULE SchemaProofs -----------------------------
(***************************************************************************)
(* Proofs about Schema: the types, and that a Schema is gone only with     *)
(* what was loaded for it.                                                 *)
(***************************************************************************)
EXTENDS Schema, TLAPS

CRType ==
    [spec : Specs \union {None}, deleting : BOOLEAN, finalizer : BOOLEAN, cond : Conditions]

\* A pass that goes to the schema-server has a directory: Load ends without an
\* error only after it has copied a repository, and a Schema names at least one.
\* A Schema waits for its deletion only because of its finalizer.
LoadInv ==
    /\ pc = "load" => dir # None \/ failed \/ todo # {}
    /\ pc = "server" => dir # None
    /\ cr.deleting => cr.finalizer /\ cr.spec # None

TypeInv == SchemaTypeOK /\ LoadInv

\* The absence of a spec is not a spec.
LEMMA NoneIsNoSet == None \notin SUBSET Repos
  BY SchemaAssumption

\* A failing call stays in the bound.
LEMMA FaultType ==
    ASSUME Fault, faults \in 0..MaxFaults PROVE faults' \in 0..MaxFaults
  BY SchemaAssumption DEF Fault

\* An edit stays in the bound.
LEMMA EditType ==
    ASSUME Edit, edits \in 0..MaxEdits PROVE edits' \in 0..MaxEdits
  BY SchemaAssumption DEF Edit

\* handleError leaves a Schema of the right type and no pass.
LEMMA HandleErrorType ==
    ASSUME NEW c \in CRType, NEW k \in Conditions, HandleError(c, k), wake \in BOOLEAN
    PROVE  /\ cr' \in CRType /\ wake' \in BOOLEAN
           /\ cr'.spec = c.spec /\ cr'.deleting = c.deleting /\ cr'.finalizer = c.finalizer
           /\ cr'.cond \in {c.cond, k}
           /\ pc' = "idle" /\ seen' = None /\ before' = "none" /\ todo' = {} /\ failed' = FALSE
  BY DEF HandleError, Requeued, Idle, CRType

\* handleSuccess leaves a Schema of the right type and no pass.
LEMMA HandleSuccessType ==
    ASSUME cr \in CRType, HandleSuccess, wake \in BOOLEAN, faults \in 0..MaxFaults
    PROVE  /\ cr' \in CRType /\ wake' \in BOOLEAN /\ faults' \in 0..MaxFaults
           /\ cr'.spec = cr.spec /\ cr'.deleting = cr.deleting
           /\ cr'.finalizer = cr.finalizer /\ cr'.cond \in {cr.cond, "ready"}
           /\ pc' = "idle" /\ seen' = None /\ before' = "none" /\ todo' = {} /\ failed' = FALSE
<1>1. faults' \in 0..MaxFaults
  BY FaultType DEF HandleSuccess
<1>2. cr' \in CRType /\ wake' \in BOOLEAN
  BY DEF HandleSuccess, CRType, Conditions
<1>3. /\ cr'.spec = cr.spec /\ cr'.deleting = cr.deleting /\ cr'.finalizer = cr.finalizer
      /\ cr'.cond \in {cr.cond, "ready"}
  BY DEF HandleSuccess, CRType
<1> QED
  BY <1>1, <1>2, <1>3 DEF HandleSuccess, Idle

\* The controller starts with a Schema of the right type and no pass.
LEMMA InitTypeInv == Init => TypeInv
<1>1. Init => 0 \in 0..MaxEdits /\ 0 \in 0..MaxFaults
  BY SchemaAssumption
<1>2. Init => cr \in CRType /\ ~cr.deleting
  BY DEF Init, NoCR, CRType, Conditions
<1> QED
  BY <1>1, <1>2 DEF Init, TypeInv, LoadInv, SchemaTypeOK, CRType, Conditions

\* Every action keeps the types, and a pass reaches the schema-server only with a
\* directory.
LEMMA TypeInvStep == TypeInv /\ [Next]_vars => TypeInv'
<1> SUFFICES ASSUME TypeInv, [Next]_vars PROVE TypeInv'
  OBVIOUS
<1>0. cr \in CRType /\ wake \in BOOLEAN /\ faults \in 0..MaxFaults /\ cr.spec \in Specs \union {None}
  BY DEF TypeInv, SchemaTypeOK, CRType
<1> USE NoneIsNoSet, FaultType, EditType
<1>1. CASE DeleteCR
  <2>1. cr' \in CRType /\ (cr'.deleting => cr'.finalizer /\ cr'.spec # None)
    BY <1>0, <1>1 DEF DeleteCR, NoCR, CRType, Conditions
  <2>2. pc' # "idle" => cr'.finalizer /\ cr'.spec # None
    BY <1>0, <1>1 DEF DeleteCR, passVars, CRType, TypeInv, SchemaTypeOK
  <2>3. edits' \in 0..MaxEdits /\ wake' \in BOOLEAN
    BY <1>1 DEF DeleteCR, TypeInv, SchemaTypeOK
  <2> QED
    BY <1>1, <2>1, <2>2, <2>3 DEF DeleteCR, passVars, CRType, TypeInv, LoadInv, SchemaTypeOK
<1>2. CASE SecretEvent
  BY <1>2 DEF SecretEvent, TypeInv, LoadInv, SchemaTypeOK, passVars
<1>3. ASSUME NEW s \in Specs, CreateSchema(s) PROVE TypeInv'
  BY <1>3 DEF CreateSchema, NoCR, TypeInv, LoadInv, SchemaTypeOK, passVars, Specs, Conditions
<1>4. ASSUME NEW s \in Specs, ChangeRepositories(s) PROVE TypeInv'
  BY <1>4 DEF ChangeRepositories, TypeInv, LoadInv, SchemaTypeOK, passVars, Specs
<1>5. CASE NotFound
  BY <1>5 DEF NotFound, TypeInv, LoadInv, SchemaTypeOK, passVars
<1>6. CASE Begin
  <2>1. cr' \in CRType /\ cr'.finalizer /\ cr'.spec = cr.spec /\ ~cr'.deleting
    BY <1>0, <1>6 DEF Begin, CRType, Conditions
  <2>2. cr.spec \in Specs /\ cr.spec # None /\ cr.spec # {} /\ cr.spec \subseteq Repos
    BY <1>0, <1>6 DEF Begin, Specs
  <2>3. gaps' \subseteq {"partial", "changed", "leftover", "unreachable", "unsaid"}
    BY <1>6 DEF Begin, TypeInv, SchemaTypeOK
  <2>4. seen' \in Specs \union {None} /\ refs' = seen' /\ before' \in Conditions
    BY <1>0, <1>6, <2>2 DEF Begin, CRType
  <2>5. /\ pc' \in {"load", "server"} /\ todo' \subseteq Repos
        /\ pc' = "load" => todo' # {}
        /\ pc' = "server" => dir # None
    BY <1>6, <2>2 DEF Begin, TypeInv, SchemaTypeOK
  <2> QED
    BY <1>6, <2>1, <2>2, <2>3, <2>4, <2>5
    DEF Begin, CRType, TypeInv, LoadInv, SchemaTypeOK
<1>7. CASE BeginFails
  <2>1. PICK c \in CRType : /\ c.spec = cr.spec /\ ~c.deleting /\ HandleError(c, "failed")
                            /\ refs' \in {refs, cr.spec}
    <3> DEFINE d == [cr EXCEPT !.finalizer = TRUE]
    <3>1. ~cr.deleting /\ ~d.deleting /\ d \in CRType /\ d.spec = cr.spec
      BY <1>0, <1>7 DEF BeginFails, CRType
    <3>2. \/ HandleError(cr, "failed") /\ refs' = refs
          \/ HandleError(d, "failed") /\ refs' \in {refs, cr.spec}
      BY <1>7 DEF BeginFails
    <3> HIDE DEF d
    <3> QED
      BY <1>0, <3>1, <3>2
  <2>2. /\ cr' \in CRType /\ wake' \in BOOLEAN
        /\ cr'.deleting => cr'.finalizer /\ cr'.spec # None
    BY <2>1, <1>0, HandleErrorType DEF Conditions, TypeInv, LoadInv
  <2>3. pc' = "idle" /\ seen' = None /\ before' = "none" /\ todo' = {} /\ failed' = FALSE
    BY <2>1, <1>0, HandleErrorType DEF Conditions
  <2> QED
    BY <1>7, <2>1, <2>2, <2>3
    DEF BeginFails, TypeInv, LoadInv, SchemaTypeOK, CRType, Conditions
<1>8. ASSUME NEW r \in Repos, LoadRepo(r) PROVE TypeInv'
  <2>1. /\ dir' \in (SUBSET Repos) \union {None}
        /\ dir' # None \/ failed'
    BY <1>8 DEF LoadRepo, Base, TypeInv, SchemaTypeOK
  <2>2. todo' \subseteq Repos /\ failed' \in BOOLEAN /\ faults' \in 0..MaxFaults
    BY <1>8 DEF LoadRepo, TypeInv, SchemaTypeOK
  <2> QED
    BY <1>8, <2>1, <2>2 DEF LoadRepo, TypeInv, LoadInv, SchemaTypeOK
<1>9. CASE Loaded
  <2>1. CASE failed /\ HandleError(cr, "unloaded")
    <3>1. /\ cr' \in CRType /\ wake' \in BOOLEAN
          /\ cr'.deleting => cr'.finalizer /\ cr'.spec # None
      BY <2>1, <1>0, HandleErrorType DEF Conditions, TypeInv, LoadInv
    <3>2. pc' = "idle" /\ seen' = None /\ before' = "none" /\ todo' = {} /\ failed' = FALSE
      BY <2>1, <1>0, HandleErrorType DEF Conditions
    <3>3. gaps' \subseteq {"partial", "changed", "leftover", "unreachable", "unsaid"}
      BY <1>9, <2>1 DEF Loaded, TypeInv, SchemaTypeOK
    <3> QED
      BY <1>9, <3>1, <3>2, <3>3
      DEF Loaded, TypeInv, LoadInv, SchemaTypeOK, CRType, Conditions
  <2>2. CASE ~failed
    BY <1>9, <2>2 DEF Loaded, TypeInv, LoadInv, SchemaTypeOK
  <2> QED
    BY <1>9, <2>1, <2>2 DEF Loaded
<1>10. CASE GetSchemaDetails
  <2>1. CASE HandleError(cr, "failed") /\ UNCHANGED server
    <3>1. /\ cr' \in CRType /\ wake' \in BOOLEAN
          /\ cr'.deleting => cr'.finalizer /\ cr'.spec # None
      BY <2>1, <1>0, HandleErrorType DEF Conditions, TypeInv, LoadInv
    <3>2. pc' = "idle" /\ seen' = None /\ before' = "none" /\ todo' = {} /\ failed' = FALSE
      BY <2>1, <1>0, HandleErrorType DEF Conditions
    <3>3. faults' \in 0..MaxFaults
      BY <1>0, <1>10, <2>1, HandleSuccessType DEF GetSchemaDetails
    <3> QED
      BY <1>10, <2>1, <3>1, <3>2, <3>3
      DEF GetSchemaDetails, TypeInv, LoadInv, SchemaTypeOK, CRType, Conditions
  <2>2. CASE HandleSuccess /\ UNCHANGED server
    <3>1. /\ cr' \in CRType /\ wake' \in BOOLEAN /\ faults' \in 0..MaxFaults
          /\ cr'.deleting => cr'.finalizer /\ cr'.spec # None
      BY <2>2, <1>0, HandleSuccessType DEF TypeInv, LoadInv
    <3>2. pc' = "idle" /\ seen' = None /\ before' = "none" /\ todo' = {} /\ failed' = FALSE
      BY <2>2, <1>0, HandleSuccessType
    <3> QED
      BY <1>10, <2>2, <3>1, <3>2
      DEF GetSchemaDetails, TypeInv, LoadInv, SchemaTypeOK, CRType, Conditions
  <2>3. CASE /\ pc' = "create" /\ server' = [content |-> dir, st |-> "initializing"]
             /\ UNCHANGED <<cr, wake, seen, before, todo, failed, faults>>
    <3>1. dir \in SUBSET Repos
      BY <1>10 DEF GetSchemaDetails, TypeInv, LoadInv, SchemaTypeOK
    <3>2. server' \in [content : SUBSET Repos, st : {"initializing", "ok", "failed"}]
      BY <2>3, <3>1
    <3> QED
      BY <1>10, <2>3, <3>2 DEF GetSchemaDetails, TypeInv, LoadInv, SchemaTypeOK
  <2> QED
    BY <1>10, <2>1, <2>2, <2>3 DEF GetSchemaDetails
<1>11. CASE CreateReturns
  <2>1. CASE HandleError(cr, "failed") /\ UNCHANGED faults
    <3>1. /\ cr' \in CRType /\ wake' \in BOOLEAN
          /\ cr'.deleting => cr'.finalizer /\ cr'.spec # None
      BY <2>1, <1>0, HandleErrorType DEF Conditions, TypeInv, LoadInv
    <3>2. pc' = "idle" /\ seen' = None /\ before' = "none" /\ todo' = {} /\ failed' = FALSE
      BY <2>1, <1>0, HandleErrorType DEF Conditions
    <3> QED
      BY <1>11, <2>1, <3>1, <3>2
      DEF CreateReturns, TypeInv, LoadInv, SchemaTypeOK, CRType, Conditions
  <2>2. CASE HandleSuccess
    <3>1. /\ cr' \in CRType /\ wake' \in BOOLEAN /\ faults' \in 0..MaxFaults
          /\ cr'.deleting => cr'.finalizer /\ cr'.spec # None
      BY <2>2, <1>0, HandleSuccessType DEF TypeInv, LoadInv
    <3>2. pc' = "idle" /\ seen' = None /\ before' = "none" /\ todo' = {} /\ failed' = FALSE
      BY <2>2, <1>0, HandleSuccessType
    <3> QED
      BY <1>11, <2>2, <3>1, <3>2
      DEF CreateReturns, TypeInv, LoadInv, SchemaTypeOK, CRType, Conditions
  <2> QED
    BY <1>11, <2>1, <2>2 DEF CreateReturns
<1>12. CASE Unserve
  <2>1. faults' \in 0..MaxFaults
    BY <1>0, <1>12 DEF Unserve
  <2>2. gaps' \subseteq {"partial", "changed", "leftover", "unreachable", "unsaid"}
    BY <1>12 DEF Unserve, TypeInv, SchemaTypeOK
  <2>3. server' \in {server, None}
    BY <1>12 DEF Unserve
  <2> QED
    BY <1>12, <2>1, <2>2, <2>3 DEF Unserve, TypeInv, LoadInv, SchemaTypeOK
<1>13. CASE UnserveFails
  <2>1. /\ cr' \in CRType /\ wake' \in BOOLEAN
        /\ cr'.deleting => cr'.finalizer /\ cr'.spec # None
    BY <1>13, <1>0, HandleErrorType DEF UnserveFails, Conditions, TypeInv, LoadInv
  <2>2. pc' = "idle" /\ seen' = None /\ before' = "none" /\ todo' = {} /\ failed' = FALSE
    BY <1>13, <1>0, HandleErrorType DEF UnserveFails, Conditions
  <2> QED
    BY <1>13, <2>1, <2>2
    DEF UnserveFails, TypeInv, LoadInv, SchemaTypeOK, CRType, Conditions
<1>14. CASE DelRef
  <2>1. CASE HandleError(cr, "failed") /\ Fault
    <3>1. /\ cr' \in CRType /\ wake' \in BOOLEAN
          /\ cr'.deleting => cr'.finalizer /\ cr'.spec # None
      BY <2>1, <1>0, HandleErrorType DEF Conditions, TypeInv, LoadInv
    <3>2. pc' = "idle" /\ seen' = None /\ before' = "none" /\ todo' = {} /\ failed' = FALSE
      BY <2>1, <1>0, HandleErrorType DEF Conditions
    <3> QED
      BY <1>14, <2>1, <3>1, <3>2
      DEF DelRef, TypeInv, LoadInv, SchemaTypeOK, CRType, Conditions
  <2>2. CASE pc' = "unfinalize"
    <3>1. gaps' \subseteq {"partial", "changed", "leftover", "unreachable", "unsaid"}
      BY <1>14, <2>2 DEF DelRef, TypeInv, SchemaTypeOK
    <3>2. /\ refs' \in {refs, None} /\ dir' \in {dir, None}
          /\ UNCHANGED <<cr, wake, seen, before, todo, failed, faults>>
      BY <1>14, <2>2 DEF DelRef, HandleError, Idle
    <3> QED
      BY <1>14, <2>2, <3>1, <3>2 DEF DelRef, TypeInv, LoadInv, SchemaTypeOK
  <2> QED
    BY <1>14, <2>1, <2>2 DEF DelRef
<1>15. CASE RemoveFinalizer
  <2>1. CASE HandleError(cr, "failed") /\ Fault
    <3>1. /\ cr' \in CRType /\ wake' \in BOOLEAN
          /\ cr'.deleting => cr'.finalizer /\ cr'.spec # None
      BY <2>1, <1>0, HandleErrorType DEF Conditions, TypeInv, LoadInv
    <3>2. pc' = "idle" /\ seen' = None /\ before' = "none" /\ todo' = {} /\ failed' = FALSE
      BY <2>1, <1>0, HandleErrorType DEF Conditions
    <3> QED
      BY <1>15, <2>1, <3>1, <3>2
      DEF RemoveFinalizer, TypeInv, LoadInv, SchemaTypeOK, CRType, Conditions
  <2>2. CASE Idle /\ cr' = NoCR /\ UNCHANGED <<wake, faults>>
    BY <1>15, <2>2
    DEF RemoveFinalizer, Idle, NoCR, TypeInv, LoadInv, SchemaTypeOK, Conditions
  <2> QED
    BY <1>15, <2>1, <2>2 DEF RemoveFinalizer
<1>16. CASE ServerEnds
  BY <1>16 DEF ServerEnds, ServerStatus, TypeInv, LoadInv, SchemaTypeOK, passVars
<1>17. CASE Restart
  BY <1>17 DEF Restart, Idle, TypeInv, LoadInv, SchemaTypeOK, Conditions
<1>18. CASE UNCHANGED vars
  BY <1>18 DEF vars, passVars, TypeInv, LoadInv, SchemaTypeOK
<1> QED
  BY <1>1, <1>2, <1>3, <1>4, <1>5, <1>6, <1>7, <1>8, <1>9, <1>10, <1>11, <1>12, <1>13,
     <1>14, <1>15, <1>16, <1>17, <1>18 DEF Next, ReconcileStep

\* Reconcile, the loader, users and restarts keep every variable of the Schema
\* controller in its type; a reference that a pass works with is the one it read.
THEOREM SchemaTypeCorrect == Spec => []SchemaTypeOK
<1>2. TypeInv => SchemaTypeOK
  BY DEF TypeInv
<1> QED
  BY InitTypeInv, <1>2, TypeInvStep, PTL DEF Spec

-----------------------------------------------------------------------------
(* What a deletion leaves. *)

Served == server # None => "unreachable" \in gaps
Removed == refs = None /\ (dir # None => "leftover" \in gaps) /\ Served

\* Only a Schema with a finalizer has something loaded, and what the earlier steps
\* of a deletion removed is still gone in the later ones.
GoneInv ==
    /\ ~cr.finalizer => Removed
    /\ cr.spec = None => ~cr.finalizer
    /\ cr.deleting => cr.finalizer
    /\ pc \in {"unref", "unfinalize"} => cr.deleting
    /\ pc = "unref" => Served
    /\ pc = "unfinalize" => Removed

\* Every action keeps the order of the deletion.
LEMMA GoneInvStep == TypeInv /\ GoneInv /\ [Next]_vars => GoneInv'
<1> SUFFICES ASSUME TypeInv, GoneInv, [Next]_vars PROVE GoneInv'
  OBVIOUS
<1>0. cr \in CRType /\ wake \in BOOLEAN /\ faults \in 0..MaxFaults
  BY DEF TypeInv, SchemaTypeOK, CRType
<1>1. CASE DeleteCR
  BY <1>0, <1>1 DEF DeleteCR, NoCR, passVars, GoneInv, Removed, Served, CRType
<1>2. CASE SecretEvent
  BY <1>2 DEF SecretEvent, passVars, GoneInv, Removed, Served
<1>3. ASSUME NEW s \in Specs, CreateSchema(s) PROVE GoneInv'
  BY <1>3 DEF CreateSchema, NoCR, passVars, GoneInv, Removed, Served
<1>4. ASSUME NEW s \in Specs, ChangeRepositories(s) PROVE GoneInv'
  BY <1>0, <1>4, NoneIsNoSet
  DEF ChangeRepositories, passVars, GoneInv, Removed, Served, CRType, Specs
<1>5. CASE NotFound
  BY <1>5 DEF NotFound, passVars, GoneInv, Removed, Served
<1>6. CASE Begin
  BY <1>0, <1>6 DEF Begin, GoneInv, Removed, Served, CRType
<1>7. CASE BeginFails
  <2> DEFINE d == [cr EXCEPT !.finalizer = TRUE]
  <2>1. /\ d \in CRType /\ d.finalizer
        /\ d.spec = cr.spec /\ d.spec # None /\ ~d.deleting
    BY <1>0, <1>7 DEF BeginFails, CRType
  <2>2. \/ HandleError(cr, "failed") /\ UNCHANGED refs
        \/ HandleError(d, "failed")
    BY <1>7 DEF BeginFails
  <2> HIDE DEF d
  <2>3. CASE HandleError(cr, "failed") /\ UNCHANGED refs
    <3>1. /\ cr'.spec = cr.spec /\ cr'.deleting = cr.deleting
          /\ cr'.finalizer = cr.finalizer /\ pc' = "idle"
      BY <1>0, <2>3, HandleErrorType DEF Conditions
    <3> QED
      BY <1>7, <2>3, <3>1 DEF BeginFails, GoneInv, Removed, Served
  <2>4. CASE HandleError(d, "failed")
    <3>1. cr'.spec = d.spec /\ ~cr'.deleting /\ cr'.finalizer /\ pc' = "idle"
      BY <1>0, <2>1, <2>4, HandleErrorType DEF Conditions
    <3> QED
      BY <2>1, <3>1 DEF GoneInv
  <2> QED
    BY <2>2, <2>3, <2>4
<1>8. ASSUME NEW r \in Repos, LoadRepo(r) PROVE GoneInv'
  BY <1>8 DEF LoadRepo, GoneInv, TypeInv, SchemaTypeOK
<1>9. CASE /\ cr.finalizer
           /\ HandleError(cr, "failed") \/ HandleError(cr, "unloaded") \/ HandleSuccess
  <2>1. /\ cr'.spec = cr.spec /\ cr'.deleting = cr.deleting
        /\ cr'.finalizer = cr.finalizer /\ pc' = "idle"
    BY <1>0, <1>9, HandleErrorType, HandleSuccessType DEF Conditions
  <2> QED
    BY <1>9, <2>1 DEF GoneInv
<1>10. CASE Loaded
  BY <1>9, <1>10 DEF Loaded, GoneInv, TypeInv, SchemaTypeOK
<1>11. CASE GetSchemaDetails
  BY <1>9, <1>11 DEF GetSchemaDetails, GoneInv, TypeInv, SchemaTypeOK
<1>12. CASE CreateReturns
  BY <1>9, <1>12 DEF CreateReturns, TypeInv, SchemaTypeOK
<1>13. CASE Unserve
  BY <1>13 DEF Unserve, GoneInv, Removed, Served
<1>14. CASE UnserveFails
  BY <1>9, <1>14 DEF UnserveFails, GoneInv
<1>15. CASE DelRef
  <2>1. CASE pc' = "unfinalize"
    BY <1>15, <2>1 DEF DelRef, HandleError, Idle, GoneInv, Removed, Served
  <2> QED
    BY <1>9, <1>15, <2>1 DEF DelRef, TypeInv, SchemaTypeOK
<1>16. CASE RemoveFinalizer
  <2>1. CASE Idle /\ cr' = NoCR
    BY <1>16, <2>1 DEF RemoveFinalizer, Idle, NoCR, HandleError, GoneInv, Removed, Served
  <2> QED
    BY <1>9, <1>16, <2>1 DEF RemoveFinalizer, TypeInv, SchemaTypeOK
<1>17. CASE ServerEnds
  BY <1>17 DEF ServerEnds, ServerStatus, passVars, GoneInv, Removed, Served
<1>18. CASE Restart
  BY <1>18 DEF Restart, Idle, GoneInv, Removed, Served
<1>19. CASE UNCHANGED vars
  BY <1>19 DEF vars, passVars, GoneInv, Removed, Served
<1> QED
  BY <1>1, <1>2, <1>3, <1>4, <1>5, <1>6, <1>7, <1>8, <1>10, <1>11, <1>12, <1>13, <1>14,
     <1>15, <1>16, <1>17, <1>18, <1>19 DEF Next, ReconcileStep

\* The order of the deletion (schema-server, reference and directory, finalizer)
\* and the finalizer that Reconcile sets before it loads anything: whatever fails
\* and restarts, a Schema is gone only with what was loaded for it, but for the
\* two gaps of DelRef and the schema-server.
THEOREM SchemaLeavesNothing == Spec => []GoneIsRemoved
<1>1. Init => TypeInv /\ GoneInv
  <2>1. Init => TypeInv
    BY InitTypeInv
  <2>2. Init => GoneInv
    BY DEF Init, NoCR, GoneInv, Removed, Served
  <2> QED
    BY <2>1, <2>2
<1>2. GoneInv => GoneIsRemoved
  BY DEF GoneInv, GoneIsRemoved, Removed, Served
<1> QED
  BY <1>1, <1>2, TypeInvStep, GoneInvStep, PTL DEF Spec

-----------------------------------------------------------------------------
(* What a Ready Schema has loaded. *)

\* Nothing happened that the controller does not notice.
Clean == gaps \subseteq {"unsaid"}

\* Without a gap: the directory holds what the running load has copied so far, and
\* otherwise nothing or all repositories of the Schema; the schema-server made its
\* schema of all of them; and a Schema that says Ready was parsed.
ContentInv ==
    Clean =>
        /\ pc = "load" => /\ server = None
                          /\ todo \subseteq cr.spec
                          /\ failed \/ Base = cr.spec \ todo
        /\ pc # "load" => dir \in {None, cr.spec}
        /\ pc \in {"server", "create"} => dir # None
        /\ dir = None => server = None
        /\ server # None => server.content = cr.spec
        /\ cr.cond = "ready" /\ ~cr.deleting => server # None /\ server.st = "ok"

\* A gap that is noted is no longer clean, and none goes away.
LEMMA GapNoted ==
    ASSUME NEW G, NEW H, H \subseteq {"partial", "leftover", "unreachable"},
           gaps' = (gaps \union H) \union G, Clean'
    PROVE  Clean /\ H = {}
<1>1. \A x \in gaps : x \in {"unsaid"}
  BY DEF Clean
<1>2. \A x \in H : x \in {"unsaid"} /\ x # "unsaid"
  BY DEF Clean
<1> QED
  BY <1>1, <1>2 DEF Clean

\* A pass that ends with an error leaves what is loaded alone.
LEMMA ContentAfterError ==
    ASSUME TypeInv, ContentInv, NEW k \in {"failed", "unloaded"}, HandleError(cr, k),
           UNCHANGED <<dir, server>>, Clean' => Clean,
           Clean' => pc # "load" \/ dir = None
    PROVE  ContentInv'
<1>1. /\ cr'.spec = cr.spec /\ cr'.deleting = cr.deleting /\ pc' = "idle"
      /\ cr'.cond = "ready" => cr.cond = "ready"
  BY HandleErrorType DEF TypeInv, SchemaTypeOK, CRType, Conditions
<1> QED
  BY <1>1 DEF ContentInv

\* A pass that ends well found its schema parsed.
LEMMA ContentAfterSuccess ==
    ASSUME TypeInv, ContentInv, HandleSuccess, ServerStatus = "ok",
           pc # "load", UNCHANGED <<dir, server, gaps>>
    PROVE  ContentInv'
<1>1. cr'.spec = cr.spec /\ cr'.deleting = cr.deleting /\ pc' = "idle"
  BY HandleSuccessType DEF TypeInv, SchemaTypeOK, CRType
<1> QED
  BY <1>1 DEF ContentInv, ServerStatus, Clean

\* Every action keeps what is loaded together with the Schema.
LEMMA ContentStep == TypeInv /\ GoneInv /\ ContentInv /\ [Next]_vars => ContentInv'
<1> SUFFICES ASSUME TypeInv, GoneInv, ContentInv, [Next]_vars PROVE ContentInv'
  OBVIOUS
<1>0. cr \in CRType /\ (pc # "idle" => cr.spec # None)
  BY DEF TypeInv, SchemaTypeOK, CRType
<1> USE NoneIsNoSet
<1>1. CASE DeleteCR
  <2>1. CASE cr.finalizer
    BY <1>0, <1>1, <2>1 DEF DeleteCR, passVars, ContentInv, Clean, Base, CRType
  <2>2. CASE ~cr.finalizer
    <3>1. pc = "idle" /\ (Clean => dir = None /\ server = None)
      BY <2>2 DEF TypeInv, SchemaTypeOK, GoneInv, Removed, Served, Clean
    <3> QED
      BY <1>1, <2>2, <3>1 DEF DeleteCR, NoCR, passVars, ContentInv, Clean
  <2> QED
    BY <2>1, <2>2
<1>2. CASE SecretEvent
  BY <1>2 DEF SecretEvent, passVars, ContentInv, Clean, Base
<1>3. ASSUME NEW s \in Specs, CreateSchema(s) PROVE ContentInv'
  <2>1. pc = "idle" /\ (Clean => dir = None /\ server = None)
    BY <1>0, <1>3 DEF CreateSchema, GoneInv, Removed, Served, Clean
  <2> QED
    BY <1>3, <2>1 DEF CreateSchema, NoCR, passVars, ContentInv, Clean
<1>4. ASSUME NEW s \in Specs, ChangeRepositories(s) PROVE ContentInv'
  <2>1. Clean' => Clean /\ dir = None /\ pc = "idle"
    BY <1>4 DEF ChangeRepositories, Clean
  <2>2. cr'.deleting = cr.deleting /\ cr'.cond = cr.cond
    BY <1>0, <1>4 DEF ChangeRepositories, CRType
  <2> QED
    BY <1>4, <2>1, <2>2 DEF ChangeRepositories, passVars, ContentInv
<1>5. CASE NotFound
  BY <1>5 DEF NotFound, passVars, ContentInv, Clean, Base
<1>6. CASE Begin
  <2>1. Clean' => Clean
    BY <1>6 DEF Begin, Clean
  <2>2. /\ cr'.spec = cr.spec /\ cr'.deleting = cr.deleting
        /\ dir # None => cr'.cond = cr.cond
        /\ dir = None => cr'.cond = "loading"
    BY <1>0, <1>6 DEF Begin, CRType
  <2>3. CASE dir = None
    BY <1>6, <2>1, <2>2, <2>3 DEF Begin, ContentInv, Base
  <2>4. CASE dir # None
    BY <1>6, <2>1, <2>2, <2>4 DEF Begin, ContentInv
  <2> QED
    BY <2>3, <2>4
<1>7. CASE BeginFails
  <2> DEFINE d == [cr EXCEPT !.finalizer = TRUE]
  <2>1. /\ d \in CRType /\ d.spec = cr.spec /\ d.deleting = cr.deleting /\ d.cond = cr.cond
    BY <1>0 DEF CRType
  <2>2. HandleError(cr, "failed") \/ HandleError(d, "failed")
    BY <1>7 DEF BeginFails
  <2>3. wake \in BOOLEAN
    BY DEF TypeInv, SchemaTypeOK
  <2> HIDE DEF d
  <2>4. /\ cr'.spec = cr.spec /\ cr'.deleting = cr.deleting /\ pc' = "idle"
        /\ cr'.cond = "ready" => cr.cond = "ready"
    BY <1>0, <2>1, <2>2, <2>3, HandleErrorType DEF Conditions
  <2> QED
    BY <1>7, <2>4 DEF BeginFails, ContentInv, Clean
<1>8. ASSUME NEW r \in Repos, LoadRepo(r) PROVE ContentInv'
  <2>1. CASE Base' = Base \union {r} /\ dir' # None /\ UNCHANGED failed
    BY <1>8, <2>1 DEF LoadRepo, ContentInv, Clean
  <2>2. CASE failed'
    BY <1>8, <2>2 DEF LoadRepo, ContentInv, Clean
  <2>3. dir' = Base \union {r} => Base' = Base \union {r} /\ dir' # None
    BY DEF Base, TypeInv, SchemaTypeOK
  <2> QED
    BY <1>8, <2>1, <2>2, <2>3 DEF LoadRepo
<1>9. CASE Loaded
  <2>1. CASE failed
    <3>1. \E G : gaps' = (gaps \union (IF dir = None THEN {} ELSE {"partial"})) \union G
      BY <1>9, <2>1 DEF Loaded
    <3>2. Clean' => Clean /\ dir = None
      BY <3>1, GapNoted
    <3> QED
      BY <1>9, <2>1, <3>2, ContentAfterError DEF Loaded
  <2>2. CASE ~failed
    <3>1. dir # None
      BY <1>9, <2>2 DEF Loaded, TypeInv, LoadInv
    <3> QED
      BY <1>9, <2>2, <3>1 DEF Loaded, ContentInv, Clean, Base
  <2> QED
    BY <2>1, <2>2
<1>10. CASE GetSchemaDetails
  <2>1. CASE pc' = "create"
    <3>1. /\ server' = [content |-> dir, st |-> "initializing"] /\ UNCHANGED <<cr, dir, gaps>>
          /\ ServerStatus \in {"none", "failed"}
      BY <1>10, <2>1 DEF GetSchemaDetails, HandleError, HandleSuccess, Idle
    <3>2. pc = "server" /\ server'.content = dir
      BY <1>10, <3>1 DEF GetSchemaDetails
    <3>3. Clean => ~(cr.cond = "ready" /\ ~cr.deleting)
      BY <3>1 DEF ContentInv, ServerStatus
    <3> QED
      BY <2>1, <3>1, <3>2, <3>3 DEF ContentInv, Clean
  <2>2. CASE HandleError(cr, "failed") /\ UNCHANGED server
    BY <1>10, <2>2, ContentAfterError DEF GetSchemaDetails, Clean
  <2>3. CASE HandleSuccess /\ ServerStatus = "ok" /\ UNCHANGED server
    BY <1>10, <2>3, ContentAfterSuccess DEF GetSchemaDetails
  <2> QED
    BY <1>10, <2>1, <2>2, <2>3 DEF GetSchemaDetails
<1>11. CASE CreateReturns
  BY <1>11, ContentAfterError, ContentAfterSuccess DEF CreateReturns, Clean
<1>12. CASE Unserve
  <2>1. \/ server' = None /\ gaps' = (gaps \union {}) \union {}
        \/ gaps' = (gaps \union {"unreachable"}) \union {}
    BY <1>12 DEF Unserve
  <2>2. Clean' => Clean /\ server' = None
    BY <2>1, GapNoted
  <2> QED
    BY <1>12, <2>2 DEF Unserve, ContentInv
<1>13. CASE UnserveFails
  BY <1>13, ContentAfterError DEF UnserveFails, Clean
<1>14. CASE DelRef
  <2>0. \/ /\ gaps' = (gaps \union {}) \union {}
           /\ dir' = None /\ pc' = "unfinalize" /\ cr' = cr /\ server' = server
        \/ gaps' = (gaps \union {"leftover"}) \union {}
        \/ gaps' = (gaps \union {"partial"}) \union {}
    BY <1>14 DEF DelRef
  <2>1. Clean' => Clean /\ dir' = None /\ pc' = "unfinalize" /\ cr' = cr /\ server' = server
    BY <2>0, GapNoted
  <2>2. Clean => server = None
    BY <1>14 DEF DelRef, GoneInv, Served, Clean
  <2>3. cr.deleting
    BY <1>14 DEF DelRef, GoneInv
  <2> QED
    BY <2>1, <2>2, <2>3 DEF ContentInv
<1>15. CASE RemoveFinalizer
  <2>1. CASE HandleError(cr, "failed") /\ UNCHANGED gaps
    BY <1>15, <2>1, ContentAfterError DEF RemoveFinalizer, Clean
  <2>2. CASE Idle /\ cr' = NoCR
    <3>1. Clean' => dir = None /\ server = None
      BY <1>15, <2>2 DEF RemoveFinalizer, HandleError, GoneInv, Removed, Served, Clean
    <3> QED
      BY <1>15, <2>2, <3>1 DEF RemoveFinalizer, Idle, NoCR, ContentInv
  <2> QED
    BY <1>15, <2>1, <2>2 DEF RemoveFinalizer
<1>16. CASE ServerEnds
  <2>1. /\ server # None /\ server.st = "initializing"
        /\ server'.content = server.content
    BY <1>16 DEF ServerEnds, ServerStatus, TypeInv, SchemaTypeOK
  <2> QED
    BY <1>16, <2>1 DEF ServerEnds, passVars, ContentInv, Clean, Base
<1>17. CASE Restart
  <2>1. Clean' => Clean /\ (pc # "load" \/ dir = None)
    BY <1>17 DEF Restart, Clean
  <2> QED
    BY <1>17, <2>1 DEF Restart, Idle, ContentInv
<1>18. CASE UNCHANGED vars
  BY <1>18 DEF vars, passVars, ContentInv, Clean, Base
<1> QED
  BY <1>1, <1>2, <1>3, <1>4, <1>5, <1>6, <1>7, <1>8, <1>9, <1>10, <1>11, <1>12, <1>13,
     <1>14, <1>15, <1>16, <1>17, <1>18 DEF Next, ReconcileStep

\* A Schema says Ready only when all its repositories are in the directory and the
\* schema-server parsed just these, whatever is deleted, created again or restarted
\* in between, but for the gaps that loader.go and the reconciler do not notice.
THEOREM ReadySchemaIsLoaded == Spec => []ReadyIsLoaded
<1>1. Init => TypeInv /\ GoneInv /\ ContentInv
  <2>1. Init => GoneInv /\ ContentInv
    BY DEF Init, NoCR, GoneInv, Removed, Served, ContentInv
  <2> QED
    BY <2>1, InitTypeInv
<1>2. TypeInv /\ GoneInv /\ ContentInv => ReadyIsLoaded
  <2> SUFFICES ASSUME TypeInv, GoneInv, ContentInv, cr.cond = "ready", ~cr.deleting, Clean
               PROVE  dir = cr.spec /\ server = [content |-> cr.spec, st |-> "ok"]
    BY DEF ReadyIsLoaded, Clean
  <2>1. server # None /\ server.st = "ok" /\ server.content = cr.spec /\ pc # "load"
    BY DEF ContentInv
  <2>2. server \in [content : SUBSET Repos, st : {"initializing", "ok", "failed"}]
    BY <2>1 DEF TypeInv, SchemaTypeOK
  <2>3. dir = cr.spec
    BY <2>1 DEF ContentInv
  <2> QED
    BY <2>1, <2>2, <2>3
<1> QED
  BY <1>1, <1>2, TypeInvStep, GoneInvStep, ContentStep, PTL DEF Spec
=============================================================================
