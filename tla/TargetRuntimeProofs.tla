------------------------ MODULE TargetRuntimeProofs ------------------------
(***************************************************************************)
(* Proofs about the connection manager to the data-server and about the    *)
(* runtime of a target that uses it, for every set of definitions, retry   *)
(* token, buffer size and number of connections.                           *)
(***************************************************************************)
EXTENDS TargetRuntime, SequenceTheorems, TLAPS

-----------------------------------------------------------------------------
(* The connection manager on its own (DSConnManager). *)

(* The client that is handed out depends on where run() is: the manager is Up
   only while it monitors, and from the end of the dial on m.client is the
   client of the latest dial. *)
ClientInv ==
  /\ state = "Up" => connPC = "monitor"
  /\ connPC \in {"setUp", "monitor"} => client = dials /\ client # 0

(* Every step of run(), of Subscribe and of a receiver keeps the types. *)
LEMMA ConnTypeStep ==
  ConnTypeOK /\ [ConnNext]_connVars => ConnTypeOK'
<1> SUFFICES ASSUME ConnTypeOK, [ConnNext]_connVars
             PROVE  ConnTypeOK'
  OBVIOUS
<1> USE DEF ConnTypeOK, DSState, ConnPC, SubState
<1>1. CASE ensureClient
  BY <1>1 DEF ensureClient, setDown, broadcast
<1>2. CASE MarkUp
  BY <1>2 DEF MarkUp, setUp, broadcast
<1>3. CASE MonitorFails
  BY <1>3 DEF MonitorFails, setDown, broadcast
<1>4. CASE MonitorMisses
  BY <1>4 DEF MonitorMisses
<1>5. CASE closeClient
  BY <1>5 DEF closeClient
<1>6. CASE ConnStop
  BY <1>6 DEF ConnStop, setDown, broadcast
<1>7. CASE LinkBreaks
  BY <1>7 DEF LinkBreaks
<1>8. CASE CancelContext
  BY <1>8 DEF CancelContext
<1>9. CASE SubscribeAdd
  BY <1>9 DEF SubscribeAdd
<1>10. CASE SubscribeRead
  BY <1>10 DEF SubscribeRead
<1>11. CASE SubscribeSend
  BY <1>11 DEF SubscribeSend
<1>12. CASE Receive
  BY <1>12 DEF Receive
<1>13. CASE Unsubscribe
  BY <1>13 DEF Unsubscribe
<1>14. CASE UNCHANGED connVars
  BY <1>14 DEF connVars
<1>15. QED
  BY <1>1, <1>2, <1>3, <1>4, <1>5, <1>6, <1>7, <1>8, <1>9, <1>10, <1>11,
   <1>12, <1>13, <1>14 DEF ConnNext

(* New: Down, no client, an empty channel. *)
LEMMA ConnTypeInit == ConnInit => ConnTypeOK
<1> SUFFICES ASSUME ConnInit PROVE ConnTypeOK
  OBVIOUS
<1>1. chan \in Seq(DSState)
  BY EmptySeq, Zenon DEF ConnInit
<1>2. client \in Nat /\ dials \in Nat
  BY DEF ConnInit
<1>3. QED
  BY <1>1, <1>2, Zenon DEF ConnInit, ConnTypeOK, DSState, ConnPC, SubState

(* The connection manager keeps its types: no step of run(), of Subscribe or
   of a receiver puts anything but Up and Down into the channel. *)
THEOREM ConnTypeCorrect == ConnSpec => []ConnTypeOK
  BY ConnTypeInit, ConnTypeStep, PTL DEF ConnSpec

(* The manager never says Up without a client, and the client it hands out is
   the one of the latest dial, however dials, outages, subscribers and a stop
   interleave. *)
THEOREM UpHasClientAlways == ConnSpec => []UpHasClient
<1>1. ConnInit => ClientInv
  BY DEF ConnInit, ClientInv
<1>2. ConnTypeOK /\ ClientInv /\ [ConnNext]_connVars => ClientInv'
  <2> SUFFICES ASSUME ConnTypeOK, ClientInv, [ConnNext]_connVars
               PROVE  ClientInv'
    OBVIOUS
  <2> USE DEF ConnTypeOK, ClientInv, DSState, ConnPC
  <2>1. CASE ensureClient
    BY <2>1 DEF ensureClient, setDown
  <2>2. CASE MarkUp
    BY <2>2 DEF MarkUp, setUp
  <2>3. CASE MonitorFails
    BY <2>3 DEF MonitorFails, setDown
  <2>4. CASE closeClient
    BY <2>4 DEF closeClient
  <2>5. CASE ConnStop
    BY <2>5 DEF ConnStop, setDown
  <2>6. CASE MonitorMisses \/ LinkBreaks \/ CancelContext
    BY <2>6 DEF MonitorMisses, LinkBreaks, CancelContext
  <2>7. CASE SubscribeAdd \/ SubscribeRead \/ SubscribeSend \/ Receive
               \/ Unsubscribe
    BY <2>7 DEF SubscribeAdd, SubscribeRead, SubscribeSend, Receive,
                Unsubscribe
  <2>8. CASE UNCHANGED connVars
    BY <2>8 DEF connVars
  <2>9. QED
    BY <2>1, <2>2, <2>3, <2>4, <2>5, <2>6, <2>7, <2>8 DEF ConnNext
<1>3. ClientInv => UpHasClient
  BY DEF ClientInv, UpHasClient
<1>4. QED
  BY <1>1, <1>2, <1>3, ConnTypeCorrect, PTL DEF ConnSpec

-----------------------------------------------------------------------------
(* The runtime of a target. *)

(* While a pass is about to create the datastore it has a definition. *)
HasDefinition ==
  pc \in {"client", "probe", "delete", "create"} => cur \in Defs

(* A step of the runtime is a step of the connection manager or leaves it
   alone: what is proved of DSConnManager holds in the composition. *)
LEMMA RuntimeConnStep == [Next]_vars => [ConnNext]_connVars
<1> SUFFICES ASSUME [Next]_vars PROVE [ConnNext]_connVars
  OBVIOUS
<1>1. CASE \E d \in Hashes : SetDesired(d)
  BY <1>1 DEF SetDesired
<1>2. CASE \E t \in 0 .. MaxToken : SetRecoveryRetryToken(t)
  BY <1>2 DEF SetRecoveryRetryToken
<1>3. CASE SubscriptionChanged
  BY <1>3 DEF SubscriptionChanged
<1>4. CASE TimerFires
  BY <1>4 DEF TimerFires
<1>5. CASE Start
  BY <1>5 DEF Start
<1>6. CASE Stop
  BY <1>6 DEF Stop
<1>7. CASE RunSubscribe
  BY <1>7 DEF RunSubscribe, ConnNext
<1>8. CASE HandleDSEvent
  BY <1>8 DEF HandleDSEvent, ConnNext
<1>9. CASE Shutdown
  BY <1>9 DEF Shutdown, stopRuntime, ConnNext
<1>10. CASE ReconcileOnce
  BY <1>10 DEF ReconcileOnce, stopRuntime, Go, Return, notifyIfChanged
<1>11. CASE EnsureDatastoreDeleted
  BY <1>11 DEF EnsureDatastoreDeleted, NothingDesired, Client, Go, Return,
              notifyIfChanged
<1>12. CASE EnsureDatastoreDeletedReturns
  BY <1>12 DEF EnsureDatastoreDeletedReturns, NothingDesired, Return,
              notifyIfChanged
<1>13. CASE TakeClient
  BY <1>13 DEF TakeClient, Client, Go, Return, notifyIfChanged
<1>14. CASE ProbeFails
  BY <1>14 DEF ProbeFails, Degraded, Return, notifyIfChanged
<1>15. CASE ProbeNotFound
  BY <1>15 DEF ProbeNotFound, Go, notifyIfChanged
<1>16. CASE ProbeOutdated
  BY <1>16 DEF ProbeOutdated, stopRuntime, Go, notifyIfChanged
<1>17. CASE ProbeFound
  BY <1>17 DEF ProbeFound, Go, notifyIfChanged
<1>18. CASE DeleteReturns
  BY <1>18 DEF DeleteReturns, Degraded, Go, Return, notifyIfChanged
<1>19. CASE CreateReturns
  BY <1>19 DEF CreateReturns, Degraded, Go, Return, notifyIfChanged
<1>20. CASE CheckRecovery
  BY <1>20 DEF CheckRecovery, recoveryKey, Go, Return, notifyIfChanged
<1>21. CASE RecoverSucceeds
  BY <1>21 DEF RecoverSucceeds, Go, notifyIfChanged
<1>22. CASE RecoverFailsTransiently
  BY <1>22 DEF RecoverFailsTransiently, Return, notifyIfChanged
<1>23. CASE RecoverIsRejected
  BY <1>23 DEF RecoverIsRejected, recoveryKey, Return, notifyIfChanged
<1>24. CASE EnterRunning
  BY <1>24 DEF EnterRunning, Return, notifyIfChanged
<1>25. CASE ServeDelete
  BY <1>25 DEF ServeDelete, Serve
<1>26. CASE ServeCreate
  BY <1>26 DEF ServeCreate, Serve
<1>27. CASE ServeReplay
  BY <1>27 DEF ServeReplay, Serve
<1>28. CASE DataServerRestarts
  BY <1>28 DEF DataServerRestarts, ConnNext
<1>29. CASE Connection
  BY <1>29 DEF Connection, runtimeVars, ConnNext
<1>30. CASE UNCHANGED vars
  BY <1>30 DEF vars
<1>31. QED
  BY <1>1, <1>2, <1>3, <1>4, <1>5, <1>6, <1>7, <1>8, <1>9, <1>10,
     <1>11, <1>12, <1>13, <1>14, <1>15, <1>16, <1>17, <1>18, <1>19,
     <1>20, <1>21, <1>22, <1>23, <1>24, <1>25, <1>26, <1>27, <1>28,
     <1>29, <1>30
     DEF Next, Loop, Server, Callers

(* The composition with a runtime implements the connection manager. *)
THEOREM RuntimeRefinesConn == Spec => ConnSpec
<1>1. Init => ConnInit
  BY DEF Init
<1>2. QED
  BY <1>1, RuntimeConnStep, PTL DEF Spec, ConnSpec

(* Every step of the loop and of the other actors keeps the types. *)
LEMMA RuntimeTypeStep ==
  TypeOK /\ HasDefinition /\ [Next]_vars => TypeOK' /\ HasDefinition'
<1> SUFFICES ASSUME ConnTypeOK, ShownTypeOK, FlagTypeOK, DataTypeOK,
                    LoopTypeOK, HasDefinition, [Next]_vars
             PROVE  /\ ShownTypeOK' /\ FlagTypeOK' /\ DataTypeOK'
                    /\ LoopTypeOK' /\ HasDefinition'
  BY RuntimeConnStep, ConnTypeStep DEF TypeOK
<1> USE RuntimeAssumption
        DEF ConnTypeOK, ShownTypeOK, FlagTypeOK, DataTypeOK, LoopTypeOK,
            HasDefinition, Phases, PCs, Hashes, Keys, Stores, shownVars,
            loopVars, NotMine
<1>1. CASE \E d \in Hashes : SetDesired(d)
  <2>1. ShownTypeOK'
    BY <1>1 DEF SetDesired
  <2>2. FlagTypeOK'
    BY <1>1 DEF SetDesired
  <2>3. DataTypeOK'
    BY <1>1 DEF SetDesired
  <2>4. LoopTypeOK' /\ HasDefinition'
    BY <1>1 DEF SetDesired
  <2>5. QED
    BY <2>1, <2>2, <2>3, <2>4
<1>2. CASE \E t \in 0 .. MaxToken : SetRecoveryRetryToken(t)
  <2>1. ShownTypeOK'
    BY <1>2 DEF SetRecoveryRetryToken
  <2>2. FlagTypeOK'
    BY <1>2 DEF SetRecoveryRetryToken
  <2>3. DataTypeOK'
    BY <1>2 DEF SetRecoveryRetryToken
  <2>4. LoopTypeOK' /\ HasDefinition'
    BY <1>2 DEF SetRecoveryRetryToken
  <2>5. QED
    BY <2>1, <2>2, <2>3, <2>4
<1>3. CASE SubscriptionChanged
  <2>1. ShownTypeOK'
    BY <1>3 DEF SubscriptionChanged
  <2>2. FlagTypeOK'
    BY <1>3 DEF SubscriptionChanged
  <2>3. DataTypeOK'
    BY <1>3 DEF SubscriptionChanged
  <2>4. LoopTypeOK' /\ HasDefinition'
    BY <1>3 DEF SubscriptionChanged
  <2>5. QED
    BY <2>1, <2>2, <2>3, <2>4
<1>4. CASE TimerFires
  <2>1. ShownTypeOK'
    BY <1>4 DEF TimerFires
  <2>2. FlagTypeOK'
    BY <1>4 DEF TimerFires
  <2>3. DataTypeOK'
    BY <1>4 DEF TimerFires
  <2>4. LoopTypeOK' /\ HasDefinition'
    BY <1>4 DEF TimerFires
  <2>5. QED
    BY <2>1, <2>2, <2>3, <2>4
<1>5. CASE Start
  <2>1. ShownTypeOK'
    BY <1>5 DEF Start
  <2>2. FlagTypeOK'
    BY <1>5 DEF Start
  <2>3. DataTypeOK'
    BY <1>5 DEF Start
  <2>4. LoopTypeOK' /\ HasDefinition'
    BY <1>5 DEF Start
  <2>5. QED
    BY <2>1, <2>2, <2>3, <2>4
<1>6. CASE Stop
  <2>1. ShownTypeOK'
    BY <1>6 DEF Stop
  <2>2. FlagTypeOK'
    BY <1>6 DEF Stop
  <2>3. DataTypeOK'
    BY <1>6 DEF Stop
  <2>4. LoopTypeOK' /\ HasDefinition'
    BY <1>6 DEF Stop
  <2>5. QED
    BY <2>1, <2>2, <2>3, <2>4
<1>7. CASE RunSubscribe
  <2>1. ShownTypeOK'
    BY <1>7 DEF RunSubscribe
  <2>2. FlagTypeOK'
    BY <1>7 DEF RunSubscribe
  <2>3. DataTypeOK'
    BY <1>7 DEF RunSubscribe
  <2>4. LoopTypeOK' /\ HasDefinition'
    BY <1>7 DEF RunSubscribe
  <2>5. QED
    BY <2>1, <2>2, <2>3, <2>4
<1>8. CASE HandleDSEvent
  <2>1. ShownTypeOK'
    BY <1>8 DEF HandleDSEvent
  <2>2. FlagTypeOK'
    BY <1>8 DEF HandleDSEvent
  <2>3. DataTypeOK'
    BY <1>8 DEF HandleDSEvent
  <2>4. LoopTypeOK' /\ HasDefinition'
    BY <1>8 DEF HandleDSEvent
  <2>5. QED
    BY <2>1, <2>2, <2>3, <2>4
<1>9. CASE Shutdown
  <2>1. ShownTypeOK'
    BY <1>9 DEF Shutdown, stopRuntime
  <2>2. FlagTypeOK'
    BY <1>9 DEF Shutdown, stopRuntime
  <2>3. DataTypeOK'
    BY <1>9 DEF Shutdown, stopRuntime
  <2>4. LoopTypeOK' /\ HasDefinition'
    BY <1>9 DEF Shutdown, stopRuntime
  <2>5. QED
    BY <2>1, <2>2, <2>3, <2>4
<1>10. CASE ReconcileOnce
  <2>1. ShownTypeOK'
    BY <1>10 DEF ReconcileOnce, stopRuntime, Go, Return, notifyIfChanged
  <2>2. FlagTypeOK'
    BY <1>10 DEF ReconcileOnce, stopRuntime, Go, Return, notifyIfChanged
  <2>3. DataTypeOK'
    BY <1>10 DEF ReconcileOnce, stopRuntime, Go, Return, notifyIfChanged
  <2>4. LoopTypeOK' /\ HasDefinition'
    BY <1>10 DEF ReconcileOnce, stopRuntime, Go, Return, notifyIfChanged
  <2>5. QED
    BY <2>1, <2>2, <2>3, <2>4
<1>11. CASE EnsureDatastoreDeleted
  <2>1. ShownTypeOK'
    BY <1>11 DEF EnsureDatastoreDeleted, NothingDesired, Client, Go, Return,
              notifyIfChanged
  <2>2. FlagTypeOK'
    BY <1>11 DEF EnsureDatastoreDeleted, NothingDesired, Client, Go, Return,
              notifyIfChanged
  <2>3. DataTypeOK'
    BY <1>11 DEF EnsureDatastoreDeleted, NothingDesired, Client, Go, Return,
              notifyIfChanged
  <2>4. LoopTypeOK' /\ HasDefinition'
    BY <1>11 DEF EnsureDatastoreDeleted, NothingDesired, Client, Go, Return,
              notifyIfChanged
  <2>5. QED
    BY <2>1, <2>2, <2>3, <2>4
<1>12. CASE EnsureDatastoreDeletedReturns
  <2>1. ShownTypeOK'
    BY <1>12 DEF EnsureDatastoreDeletedReturns, NothingDesired, Return,
              notifyIfChanged
  <2>2. FlagTypeOK'
    BY <1>12 DEF EnsureDatastoreDeletedReturns, NothingDesired, Return,
              notifyIfChanged
  <2>3. DataTypeOK'
    BY <1>12 DEF EnsureDatastoreDeletedReturns, NothingDesired, Return,
              notifyIfChanged
  <2>4. LoopTypeOK' /\ HasDefinition'
    BY <1>12 DEF EnsureDatastoreDeletedReturns, NothingDesired, Return,
              notifyIfChanged
  <2>5. QED
    BY <2>1, <2>2, <2>3, <2>4
<1>13. CASE TakeClient
  <2>1. ShownTypeOK'
    BY <1>13 DEF TakeClient, Client, Go, Return, notifyIfChanged
  <2>2. FlagTypeOK'
    BY <1>13 DEF TakeClient, Client, Go, Return, notifyIfChanged
  <2>3. DataTypeOK'
    BY <1>13 DEF TakeClient, Client, Go, Return, notifyIfChanged
  <2>4. LoopTypeOK' /\ HasDefinition'
    BY <1>13 DEF TakeClient, Client, Go, Return, notifyIfChanged
  <2>5. QED
    BY <2>1, <2>2, <2>3, <2>4
<1>14. CASE ProbeFails
  <2>1. ShownTypeOK'
    BY <1>14 DEF ProbeFails, Degraded, Return, notifyIfChanged
  <2>2. FlagTypeOK'
    BY <1>14 DEF ProbeFails, Degraded, Return, notifyIfChanged
  <2>3. DataTypeOK'
    BY <1>14 DEF ProbeFails, Degraded, Return, notifyIfChanged
  <2>4. LoopTypeOK' /\ HasDefinition'
    BY <1>14 DEF ProbeFails, Degraded, Return, notifyIfChanged
  <2>5. QED
    BY <2>1, <2>2, <2>3, <2>4
<1>15. CASE ProbeNotFound
  <2>1. ShownTypeOK'
    BY <1>15 DEF ProbeNotFound, Go, notifyIfChanged
  <2>2. FlagTypeOK'
    BY <1>15 DEF ProbeNotFound, Go, notifyIfChanged
  <2>3. DataTypeOK'
    BY <1>15 DEF ProbeNotFound, Go, notifyIfChanged
  <2>4. LoopTypeOK' /\ HasDefinition'
    BY <1>15 DEF ProbeNotFound, Go, notifyIfChanged
  <2>5. QED
    BY <2>1, <2>2, <2>3, <2>4
<1>16. CASE ProbeOutdated
  <2>1. ShownTypeOK'
    BY <1>16 DEF ProbeOutdated, stopRuntime, Go, notifyIfChanged
  <2>2. FlagTypeOK'
    BY <1>16 DEF ProbeOutdated, stopRuntime, Go, notifyIfChanged
  <2>3. DataTypeOK'
    BY <1>16 DEF ProbeOutdated, stopRuntime, Go, notifyIfChanged
  <2>4. LoopTypeOK' /\ HasDefinition'
    BY <1>16 DEF ProbeOutdated, stopRuntime, Go, notifyIfChanged
  <2>5. QED
    BY <2>1, <2>2, <2>3, <2>4
<1>17. CASE ProbeFound
  <2>1. ShownTypeOK'
    BY <1>17 DEF ProbeFound, Go, notifyIfChanged
  <2>2. FlagTypeOK'
    BY <1>17 DEF ProbeFound, Go, notifyIfChanged
  <2>3. DataTypeOK'
    BY <1>17 DEF ProbeFound, Go, notifyIfChanged
  <2>4. LoopTypeOK' /\ HasDefinition'
    BY <1>17 DEF ProbeFound, Go, notifyIfChanged
  <2>5. QED
    BY <2>1, <2>2, <2>3, <2>4
<1>18. CASE DeleteReturns
  <2>1. ShownTypeOK'
    BY <1>18 DEF DeleteReturns, Degraded, Go, Return, notifyIfChanged
  <2>2. FlagTypeOK'
    BY <1>18 DEF DeleteReturns, Degraded, Go, Return, notifyIfChanged
  <2>3. DataTypeOK'
    BY <1>18 DEF DeleteReturns, Degraded, Go, Return, notifyIfChanged
  <2>4. LoopTypeOK' /\ HasDefinition'
    BY <1>18 DEF DeleteReturns, Degraded, Go, Return, notifyIfChanged
  <2>5. QED
    BY <2>1, <2>2, <2>3, <2>4
<1>19. CASE CreateReturns
  <2>1. ShownTypeOK'
    BY <1>19 DEF CreateReturns, Degraded, Go, Return, notifyIfChanged
  <2>2. FlagTypeOK'
    BY <1>19 DEF CreateReturns, Degraded, Go, Return, notifyIfChanged
  <2>3. DataTypeOK'
    BY <1>19 DEF CreateReturns, Degraded, Go, Return, notifyIfChanged
  <2>4. LoopTypeOK' /\ HasDefinition'
    BY <1>19 DEF CreateReturns, Degraded, Go, Return, notifyIfChanged
  <2>5. QED
    BY <2>1, <2>2, <2>3, <2>4
<1>20. CASE CheckRecovery
  <2>1. ShownTypeOK'
    BY <1>20 DEF CheckRecovery, recoveryKey, Go, Return, notifyIfChanged
  <2>2. FlagTypeOK'
    BY <1>20 DEF CheckRecovery, recoveryKey, Go, Return, notifyIfChanged
  <2>3. DataTypeOK'
    BY <1>20 DEF CheckRecovery, recoveryKey, Go, Return, notifyIfChanged
  <2>4. LoopTypeOK' /\ HasDefinition'
    BY <1>20 DEF CheckRecovery, recoveryKey, Go, Return, notifyIfChanged
  <2>5. QED
    BY <2>1, <2>2, <2>3, <2>4
<1>21. CASE RecoverSucceeds
  <2>1. ShownTypeOK'
    BY <1>21 DEF RecoverSucceeds, Go, notifyIfChanged
  <2>2. FlagTypeOK'
    BY <1>21 DEF RecoverSucceeds, Go, notifyIfChanged
  <2>3. DataTypeOK'
    BY <1>21 DEF RecoverSucceeds, Go, notifyIfChanged
  <2>4. LoopTypeOK' /\ HasDefinition'
    BY <1>21 DEF RecoverSucceeds, Go, notifyIfChanged
  <2>5. QED
    BY <2>1, <2>2, <2>3, <2>4
<1>22. CASE RecoverFailsTransiently
  <2>1. ShownTypeOK'
    BY <1>22 DEF RecoverFailsTransiently, Return, notifyIfChanged
  <2>2. FlagTypeOK'
    BY <1>22 DEF RecoverFailsTransiently, Return, notifyIfChanged
  <2>3. DataTypeOK'
    BY <1>22 DEF RecoverFailsTransiently, Return, notifyIfChanged
  <2>4. LoopTypeOK' /\ HasDefinition'
    BY <1>22 DEF RecoverFailsTransiently, Return, notifyIfChanged
  <2>5. QED
    BY <2>1, <2>2, <2>3, <2>4
<1>23. CASE RecoverIsRejected
  <2>1. ShownTypeOK'
    BY <1>23 DEF RecoverIsRejected, recoveryKey, Return, notifyIfChanged
  <2>2. FlagTypeOK'
    BY <1>23 DEF RecoverIsRejected, recoveryKey, Return, notifyIfChanged
  <2>3. DataTypeOK'
    BY <1>23 DEF RecoverIsRejected, recoveryKey, Return, notifyIfChanged
  <2>4. LoopTypeOK' /\ HasDefinition'
    BY <1>23 DEF RecoverIsRejected, recoveryKey, Return, notifyIfChanged
  <2>5. QED
    BY <2>1, <2>2, <2>3, <2>4
<1>24. CASE EnterRunning
  <2>1. ShownTypeOK'
    BY <1>24 DEF EnterRunning, Return, notifyIfChanged
  <2>2. FlagTypeOK'
    BY <1>24 DEF EnterRunning, Return, notifyIfChanged
  <2>3. DataTypeOK'
    BY <1>24 DEF EnterRunning, Return, notifyIfChanged
  <2>4. LoopTypeOK' /\ HasDefinition'
    BY <1>24 DEF EnterRunning, Return, notifyIfChanged
  <2>5. QED
    BY <2>1, <2>2, <2>3, <2>4
<1>25. CASE ServeDelete
  <2>1. ShownTypeOK'
    BY <1>25 DEF ServeDelete, Serve
  <2>2. FlagTypeOK'
    BY <1>25 DEF ServeDelete, Serve
  <2>3. DataTypeOK'
    BY <1>25 DEF ServeDelete, Serve
  <2>4. LoopTypeOK' /\ HasDefinition'
    BY <1>25 DEF ServeDelete, Serve
  <2>5. QED
    BY <2>1, <2>2, <2>3, <2>4
<1>26. CASE ServeCreate
  <2>1. ShownTypeOK'
    BY <1>26 DEF ServeCreate, Serve
  <2>2. FlagTypeOK'
    BY <1>26 DEF ServeCreate, Serve
  <2>3. DataTypeOK'
    BY <1>26 DEF ServeCreate, Serve
  <2>4. LoopTypeOK' /\ HasDefinition'
    BY <1>26 DEF ServeCreate, Serve
  <2>5. QED
    BY <2>1, <2>2, <2>3, <2>4
<1>27. CASE ServeReplay
  <2>1. ShownTypeOK'
    BY <1>27 DEF ServeReplay, Serve
  <2>2. FlagTypeOK'
    BY <1>27 DEF ServeReplay, Serve
  <2>3. DataTypeOK'
    BY <1>27 DEF ServeReplay, Serve
  <2>4. LoopTypeOK' /\ HasDefinition'
    BY <1>27 DEF ServeReplay, Serve
  <2>5. QED
    BY <2>1, <2>2, <2>3, <2>4
<1>28. CASE DataServerRestarts
  <2>1. ShownTypeOK'
    BY <1>28 DEF DataServerRestarts
  <2>2. FlagTypeOK'
    BY <1>28 DEF DataServerRestarts
  <2>3. DataTypeOK'
    BY <1>28 DEF DataServerRestarts
  <2>4. LoopTypeOK' /\ HasDefinition'
    BY <1>28 DEF DataServerRestarts
  <2>5. QED
    BY <2>1, <2>2, <2>3, <2>4
<1>29. CASE Connection
  <2>1. ShownTypeOK'
    BY <1>29 DEF Connection, runtimeVars
  <2>2. FlagTypeOK'
    BY <1>29 DEF Connection, runtimeVars
  <2>3. DataTypeOK'
    BY <1>29 DEF Connection, runtimeVars
  <2>4. LoopTypeOK' /\ HasDefinition'
    BY <1>29 DEF Connection, runtimeVars
  <2>5. QED
    BY <2>1, <2>2, <2>3, <2>4
<1>30. CASE UNCHANGED vars
  BY <1>30 DEF vars, runtimeVars
<1>31. QED
  BY <1>1, <1>2, <1>3, <1>4, <1>5, <1>6, <1>7, <1>8, <1>9, <1>10,
     <1>11, <1>12, <1>13, <1>14, <1>15, <1>16, <1>17, <1>18, <1>19,
     <1>20, <1>21, <1>22, <1>23, <1>24, <1>25, <1>26, <1>27, <1>28,
     <1>29, <1>30
     DEF Next, Loop, Server, Callers

(* The runtime keeps its types. *)
THEOREM RuntimeTypeCorrect == Spec => []TypeOK
<1>1. Init => TypeOK /\ HasDefinition
  <2> SUFFICES ASSUME Init PROVE TypeOK /\ HasDefinition
    OBVIOUS
  <2>1. ConnTypeOK
    BY ConnTypeInit DEF Init
  <2>2. ShownTypeOK
    BY DEF Init, ShownTypeOK, Phases, Hashes
  <2>3. FlagTypeOK
    BY DEF Init, FlagTypeOK
  <2>4. DataTypeOK
    BY RuntimeAssumption DEF Init, DataTypeOK, Hashes, Keys, Stores
  <2>5. LoopTypeOK /\ HasDefinition
    BY DEF Init, LoopTypeOK, HasDefinition, PCs, Hashes
  <2>6. QED
    BY <2>1, <2>2, <2>3, <2>4, <2>5 DEF TypeOK
<1>2. QED
  BY <1>1, RuntimeTypeStep, PTL DEF Spec

(* Every step of the runtime is a step its contract allows, or changes nothing
   the contract shows. *)
LEMMA ContractStep ==
  TypeOK /\ [Next]_vars => [Contract!CNext]_(Contract!cvars)
<1> SUFFICES ASSUME TypeOK, [Next]_vars
             PROVE  [Contract!CNext]_(Contract!cvars)
  OBVIOUS
<1> USE RuntimeAssumption
        DEF TypeOK, FlagTypeOK, LoopTypeOK, PCs, shownVars, loopVars, NotMine
<1>1. CASE \E d \in Hashes : SetDesired(d)
  BY <1>1 DEF SetDesired, Contract!cvars
<1>2. CASE \E t \in 0 .. MaxToken : SetRecoveryRetryToken(t)
  BY <1>2 DEF SetRecoveryRetryToken, Contract!cvars
<1>3. CASE SubscriptionChanged
  BY <1>3 DEF SubscriptionChanged, Contract!cvars
<1>4. CASE TimerFires
  BY <1>4 DEF TimerFires, Contract!cvars
<1>5. CASE Start
  <2>1. Contract!CStart
    BY <1>5 DEF Start, Contract!CStart
  <2>2. QED
    BY <2>1 DEF Contract!CNext
<1>6. CASE Stop
  <2>1. Contract!CStop
    BY <1>6 DEF Stop, Contract!CStop
  <2>2. QED
    BY <2>1 DEF Contract!CNext
<1>7. CASE RunSubscribe
  <2>1. Contract!CWork
    BY <1>7 DEF RunSubscribe, Contract!CWork
  <2>2. QED
    BY <2>1 DEF Contract!CNext
<1>8. CASE HandleDSEvent
  <2>1. Contract!CWork
    BY <1>8 DEF HandleDSEvent, Contract!CWork
  <2>2. QED
    BY <2>1 DEF Contract!CNext
<1>9. CASE Shutdown
  <2>1. Contract!CExit
    BY <1>9 DEF Shutdown, stopRuntime, Contract!CExit
  <2>2. QED
    BY <2>1 DEF Contract!CNext
<1>10. CASE ReconcileOnce
  <2>1. Contract!CWork
    BY <1>10 DEF ReconcileOnce, stopRuntime, Go, Return, notifyIfChanged, Contract!CWork
  <2>2. QED
    BY <2>1 DEF Contract!CNext
<1>11. CASE EnsureDatastoreDeleted
  <2>1. Contract!CWork
    BY <1>11 DEF EnsureDatastoreDeleted, NothingDesired, Client, Go, Return,
              notifyIfChanged, Contract!CWork
  <2>2. QED
    BY <2>1 DEF Contract!CNext
<1>12. CASE EnsureDatastoreDeletedReturns
  <2>1. Contract!CWork
    BY <1>12 DEF EnsureDatastoreDeletedReturns, NothingDesired, Return,
              notifyIfChanged, Contract!CWork
  <2>2. QED
    BY <2>1 DEF Contract!CNext
<1>13. CASE TakeClient
  <2>1. Contract!CWork
    BY <1>13 DEF TakeClient, Client, Go, Return, notifyIfChanged, Contract!CWork
  <2>2. QED
    BY <2>1 DEF Contract!CNext
<1>14. CASE ProbeFails
  <2>1. Contract!CWork
    BY <1>14 DEF ProbeFails, Degraded, Return, notifyIfChanged, Contract!CWork
  <2>2. QED
    BY <2>1 DEF Contract!CNext
<1>15. CASE ProbeNotFound
  <2>1. Contract!CWork
    BY <1>15 DEF ProbeNotFound, Go, notifyIfChanged, Contract!CWork
  <2>2. QED
    BY <2>1 DEF Contract!CNext
<1>16. CASE ProbeOutdated
  <2>1. Contract!CWork
    BY <1>16 DEF ProbeOutdated, stopRuntime, Go, notifyIfChanged, Contract!CWork
  <2>2. QED
    BY <2>1 DEF Contract!CNext
<1>17. CASE ProbeFound
  <2>1. Contract!CWork
    BY <1>17 DEF ProbeFound, Go, notifyIfChanged, Contract!CWork
  <2>2. QED
    BY <2>1 DEF Contract!CNext
<1>18. CASE DeleteReturns
  <2>1. Contract!CWork
    BY <1>18 DEF DeleteReturns, Degraded, Go, Return, notifyIfChanged, Contract!CWork
  <2>2. QED
    BY <2>1 DEF Contract!CNext
<1>19. CASE CreateReturns
  <2>1. Contract!CWork
    BY <1>19 DEF CreateReturns, Degraded, Go, Return, notifyIfChanged, Contract!CWork
  <2>2. QED
    BY <2>1 DEF Contract!CNext
<1>20. CASE CheckRecovery
  <2>1. Contract!CWork
    BY <1>20 DEF CheckRecovery, recoveryKey, Go, Return, notifyIfChanged, Contract!CWork
  <2>2. QED
    BY <2>1 DEF Contract!CNext
<1>21. CASE RecoverSucceeds
  <2>1. Contract!CWork
    BY <1>21 DEF RecoverSucceeds, Go, notifyIfChanged, Contract!CWork
  <2>2. QED
    BY <2>1 DEF Contract!CNext
<1>22. CASE RecoverFailsTransiently
  <2>1. Contract!CWork
    BY <1>22 DEF RecoverFailsTransiently, Return, notifyIfChanged, Contract!CWork
  <2>2. QED
    BY <2>1 DEF Contract!CNext
<1>23. CASE RecoverIsRejected
  <2>1. Contract!CWork
    BY <1>23 DEF RecoverIsRejected, recoveryKey, Return, notifyIfChanged, Contract!CWork
  <2>2. QED
    BY <2>1 DEF Contract!CNext
<1>24. CASE EnterRunning
  <2>1. Contract!CWork
    BY <1>24 DEF EnterRunning, Return, notifyIfChanged, Contract!CWork
  <2>2. QED
    BY <2>1 DEF Contract!CNext
<1>25. CASE ServeDelete
  <2>1. Contract!CWork
    BY <1>25 DEF ServeDelete, Serve, Contract!CWork
  <2>2. QED
    BY <2>1 DEF Contract!CNext
<1>26. CASE ServeCreate
  <2>1. Contract!CWork
    BY <1>26 DEF ServeCreate, Serve, Contract!CWork
  <2>2. QED
    BY <2>1 DEF Contract!CNext
<1>27. CASE ServeReplay
  <2>1. Contract!CWork
    BY <1>27 DEF ServeReplay, Serve, Contract!CWork
  <2>2. QED
    BY <2>1 DEF Contract!CNext
<1>28. CASE DataServerRestarts
  BY <1>28 DEF DataServerRestarts, Contract!CNext, Contract!CLoss, Contract!cvars
<1>29. CASE Connection
  BY <1>29 DEF Connection, runtimeVars, Contract!cvars
<1>30. CASE UNCHANGED vars
  BY <1>30 DEF vars, runtimeVars, Contract!cvars
<1>31. QED
  BY <1>1, <1>2, <1>3, <1>4, <1>5, <1>6, <1>7, <1>8, <1>9, <1>10,
     <1>11, <1>12, <1>13, <1>14, <1>15, <1>16, <1>17, <1>18, <1>19,
     <1>20, <1>21, <1>22, <1>23, <1>24, <1>25, <1>26, <1>27, <1>28,
     <1>29, <1>30
     DEF Next, Loop, Server, Callers

(* The runtime implements its contract: one loop, started once and never after
   Stop, that alone creates and deletes the datastore and shows Running. *)
THEOREM RuntimeImplementsContract == Spec => ImplementsContract
<1>1. Init => Contract!CInit
  BY RuntimeAssumption DEF Init, Contract!CInit, Stores
<1>2. QED
  BY <1>1, ContractStep, RuntimeTypeCorrect, PTL
     DEF Spec, ImplementsContract, Contract!CSpec

----------------------------------------------------------------------------
(* Why a datastore that is handed out as recovered holds the configs. *)

(* Where the phase follows from the place in the loop. *)
PhaseInv ==
  /\ pc \in {"delete", "create"} => phase = "EnsuringDatastore"
  /\ pc = "delete" => ~watcher
  /\ pc \in {"new", "subscribe", "exited"} => phase # "Running"

(* A loss of intents that has not reset "recovered" yet. *)
Pending ==
  \/ pc = "undelete" \/ missed \/ DownBuffered
  \/ link = "broken" /\ connPC \in {"setUp", "monitor"}

(* A recovered runtime without such a loss: if the datastore is missing, this
   pass is rebuilding it; if it exists, it holds the intents, or it was just
   created and the answer, which resets recovered, is under way. *)
IntentsInv ==
  /\ pc \notin {"undelete", "delete", "create", "recover"} => rpc = "none"
  /\ link = "ready" => connPC \in {"setUp", "monitor"}
  /\ pc = "recover" => ~recovered
  /\ pc = "recover" /\ rpc = "done" => HoldsIntents
  /\ recovered /\ pc # "exited" /\ ~Pending =>
       IF store = NoStore
         THEN phase # "Running" /\ pc \notin {"recovery", "run"}
         ELSE store.intents \/ (pc = "create" /\ rpc = "done")

(* Every step keeps the phase in line with the place in the loop. *)
LEMMA PhaseStep == TypeOK /\ PhaseInv /\ [Next]_vars => PhaseInv'
<1> SUFFICES ASSUME TypeOK, PhaseInv, [Next]_vars
             PROVE  PhaseInv'
  OBVIOUS
<1> USE DEF TypeOK, ShownTypeOK, FlagTypeOK, LoopTypeOK, Phases, PCs, PhaseInv,
            shownVars, loopVars, NotMine
<1>1. CASE \E d \in Hashes : SetDesired(d)
  BY <1>1 DEF SetDesired
<1>2. CASE \E t \in 0 .. MaxToken : SetRecoveryRetryToken(t)
  BY <1>2 DEF SetRecoveryRetryToken
<1>3. CASE SubscriptionChanged
  BY <1>3 DEF SubscriptionChanged
<1>4. CASE TimerFires
  BY <1>4 DEF TimerFires
<1>5. CASE Start
  BY <1>5 DEF Start
<1>6. CASE Stop
  BY <1>6 DEF Stop
<1>7. CASE RunSubscribe
  BY <1>7 DEF RunSubscribe
<1>8. CASE HandleDSEvent
  BY <1>8 DEF HandleDSEvent
<1>9. CASE Shutdown
  BY <1>9 DEF Shutdown, stopRuntime
<1>10. CASE ReconcileOnce
  BY <1>10 DEF ReconcileOnce, stopRuntime, Go, Return, notifyIfChanged
<1>11. CASE EnsureDatastoreDeleted
  BY <1>11 DEF EnsureDatastoreDeleted, NothingDesired, Client, Go, Return,
              notifyIfChanged
<1>12. CASE EnsureDatastoreDeletedReturns
  BY <1>12 DEF EnsureDatastoreDeletedReturns, NothingDesired, Return,
              notifyIfChanged
<1>13. CASE TakeClient
  BY <1>13 DEF TakeClient, Client, Go, Return, notifyIfChanged
<1>14. CASE ProbeFails
  BY <1>14 DEF ProbeFails, Degraded, Return, notifyIfChanged
<1>15. CASE ProbeNotFound
  BY <1>15 DEF ProbeNotFound, Go, notifyIfChanged
<1>16. CASE ProbeOutdated
  BY <1>16 DEF ProbeOutdated, stopRuntime, Go, notifyIfChanged
<1>17. CASE ProbeFound
  BY <1>17 DEF ProbeFound, Go, notifyIfChanged
<1>18. CASE DeleteReturns
  BY <1>18 DEF DeleteReturns, Degraded, Go, Return, notifyIfChanged
<1>19. CASE CreateReturns
  BY <1>19 DEF CreateReturns, Degraded, Go, Return, notifyIfChanged
<1>20. CASE CheckRecovery
  BY <1>20 DEF CheckRecovery, recoveryKey, Go, Return, notifyIfChanged
<1>21. CASE RecoverSucceeds
  BY <1>21 DEF RecoverSucceeds, Go, notifyIfChanged
<1>22. CASE RecoverFailsTransiently
  BY <1>22 DEF RecoverFailsTransiently, Return, notifyIfChanged
<1>23. CASE RecoverIsRejected
  BY <1>23 DEF RecoverIsRejected, recoveryKey, Return, notifyIfChanged
<1>24. CASE EnterRunning
  BY <1>24 DEF EnterRunning, Return, notifyIfChanged
<1>25. CASE ServeDelete
  BY <1>25 DEF ServeDelete, Serve
<1>26. CASE ServeCreate
  BY <1>26 DEF ServeCreate, Serve
<1>27. CASE ServeReplay
  BY <1>27 DEF ServeReplay, Serve
<1>28. CASE DataServerRestarts
  BY <1>28 DEF DataServerRestarts
<1>29. CASE Connection
  BY <1>29 DEF Connection, runtimeVars
<1>30. CASE UNCHANGED vars
  BY <1>30 DEF vars, runtimeVars
<1>31. QED
  BY <1>1, <1>2, <1>3, <1>4, <1>5, <1>6, <1>7, <1>8, <1>9, <1>10,
     <1>11, <1>12, <1>13, <1>14, <1>15, <1>16, <1>17, <1>18, <1>19,
     <1>20, <1>21, <1>22, <1>23, <1>24, <1>25, <1>26, <1>27, <1>28,
     <1>29, <1>30
     DEF Next, Loop, Server, Callers

(* Where the phase follows from the place in the loop, it always does. *)
THEOREM PhaseInvariant == Spec => []PhaseInv
<1>1. Init => PhaseInv
  BY DEF Init, PhaseInv
<1>2. QED
  BY <1>1, PhaseStep, RuntimeTypeCorrect, PTL DEF Spec

(* A datastore is never handed out while its definition makes the loop delete
   or create it. *)
THEOREM NeverTouchedWhileHandedOut == Spec => []UntouchedWhileHandedOut
<1>1. PhaseInv => UntouchedWhileHandedOut
  BY DEF PhaseInv, UntouchedWhileHandedOut, HandedOut
<1>2. QED
  BY <1>1, PhaseInvariant, PTL

(* Every step that leaves the loop waiting with nothing to wake it has told
   the reconciler the status. *)
LEMMA NotifiedStep == TypeOK /\ IdleIsNotified /\ [Next]_vars => IdleIsNotified'
<1> SUFFICES ASSUME TypeOK, IdleIsNotified, [Next]_vars
             PROVE  IdleIsNotified'
  OBVIOUS
<1> USE DEF TypeOK, FlagTypeOK, LoopTypeOK, PCs, IdleIsNotified, shownVars,
            loopVars, NotMine
<1>1. CASE \E d \in Hashes : SetDesired(d)
  BY <1>1 DEF SetDesired, connVars
<1>2. CASE \E t \in 0 .. MaxToken : SetRecoveryRetryToken(t)
  BY <1>2 DEF SetRecoveryRetryToken, connVars
<1>3. CASE SubscriptionChanged
  BY <1>3 DEF SubscriptionChanged, connVars
<1>4. CASE TimerFires
  BY <1>4 DEF TimerFires, connVars
<1>5. CASE Start
  BY <1>5 DEF Start, connVars
<1>6. CASE Stop
  BY <1>6 DEF Stop, connVars
<1>7. CASE RunSubscribe
  BY <1>7 DEF RunSubscribe, SubscribeAdd, SubscribeRead, SubscribeSend
<1>8. CASE HandleDSEvent
  BY <1>8 DEF HandleDSEvent, connVars
<1>9. CASE Shutdown
  BY <1>9 DEF Shutdown, stopRuntime, connVars
<1>10. CASE ReconcileOnce
  BY <1>10 DEF ReconcileOnce, stopRuntime, Go, Return, notifyIfChanged, connVars
<1>11. CASE EnsureDatastoreDeleted
  BY <1>11 DEF EnsureDatastoreDeleted, NothingDesired, Client, Go, Return,
              notifyIfChanged, connVars
<1>12. CASE EnsureDatastoreDeletedReturns
  BY <1>12 DEF EnsureDatastoreDeletedReturns, NothingDesired, Return,
              notifyIfChanged, connVars
<1>13. CASE TakeClient
  BY <1>13 DEF TakeClient, Client, Go, Return, notifyIfChanged, connVars
<1>14. CASE ProbeFails
  BY <1>14 DEF ProbeFails, Degraded, Return, notifyIfChanged, connVars
<1>15. CASE ProbeNotFound
  BY <1>15 DEF ProbeNotFound, Go, notifyIfChanged, connVars
<1>16. CASE ProbeOutdated
  BY <1>16 DEF ProbeOutdated, stopRuntime, Go, notifyIfChanged, connVars
<1>17. CASE ProbeFound
  BY <1>17 DEF ProbeFound, Go, notifyIfChanged, connVars
<1>18. CASE DeleteReturns
  BY <1>18 DEF DeleteReturns, Degraded, Go, Return, notifyIfChanged, connVars
<1>19. CASE CreateReturns
  BY <1>19 DEF CreateReturns, Degraded, Go, Return, notifyIfChanged, connVars
<1>20. CASE CheckRecovery
  BY <1>20 DEF CheckRecovery, recoveryKey, Go, Return, notifyIfChanged, connVars
<1>21. CASE RecoverSucceeds
  BY <1>21 DEF RecoverSucceeds, Go, notifyIfChanged, connVars
<1>22. CASE RecoverFailsTransiently
  BY <1>22 DEF RecoverFailsTransiently, Return, notifyIfChanged, connVars
<1>23. CASE RecoverIsRejected
  BY <1>23 DEF RecoverIsRejected, recoveryKey, Return, notifyIfChanged, connVars
<1>24. CASE EnterRunning
  BY <1>24 DEF EnterRunning, Return, notifyIfChanged, connVars
<1>25. CASE ServeDelete
  BY <1>25 DEF ServeDelete, Serve, connVars
<1>26. CASE ServeCreate
  BY <1>26 DEF ServeCreate, Serve, connVars
<1>27. CASE ServeReplay
  BY <1>27 DEF ServeReplay, Serve, connVars
<1>28. CASE DataServerRestarts
  BY <1>28 DEF DataServerRestarts, LinkBreaks
<1>29. CASE Connection
  BY <1>29 DEF Connection, runtimeVars, connVars, ensureClient, MarkUp, closeClient,
              MonitorFails, MonitorMisses
<1>30. CASE UNCHANGED vars
  BY <1>30 DEF vars, runtimeVars, connVars
<1>31. QED
  BY <1>1, <1>2, <1>3, <1>4, <1>5, <1>6, <1>7, <1>8, <1>9, <1>10,
     <1>11, <1>12, <1>13, <1>14, <1>15, <1>16, <1>17, <1>18, <1>19,
     <1>20, <1>21, <1>22, <1>23, <1>24, <1>25, <1>26, <1>27, <1>28,
     <1>29, <1>30
     DEF Next, Loop, Server, Callers

(* An idle loop has told the reconciler its present status. *)
THEOREM IdleAlwaysNotified == Spec => []IdleIsNotified
<1>1. Init => IdleIsNotified
  BY DEF Init, IdleIsNotified
<1>2. QED
  BY <1>1, NotifiedStep, RuntimeTypeCorrect, PTL DEF Spec

(* A buffered Down stays buffered unless the channel is read. *)
LEMMA DownStaysBuffered ==
  ASSUME ConnTypeOK, DownBuffered,
         chan' = chan \/ \E ev \in DSState : chan' = Append(chan, ev)
  PROVE  DownBuffered'
<1>1. PICK i \in 1 .. Len(chan) : chan[i] = "Down"
  BY DEF DownBuffered
<1>2. i \in 1 .. Len(chan') /\ chan'[i] = "Down"
  BY <1>1 DEF ConnTypeOK
<1>3. QED
  BY <1>2 DEF DownBuffered

(* A reader that received something else has the Down still before it. *)
LEMMA DownIsReceivedLast ==
  ASSUME ConnTypeOK, DownBuffered, Receive, Head(chan) = "Up"
  PROVE  DownBuffered'
<1>1. PICK i \in 1 .. Len(chan) : chan[i] = "Down"
  BY DEF DownBuffered
<1>2. i # 1
  BY <1>1 DEF ConnTypeOK, Receive
<1>3. i - 1 \in 1 .. Len(chan') /\ chan'[i - 1] = "Down"
  BY <1>1, <1>2 DEF ConnTypeOK, Receive
<1>4. QED
  BY <1>3 DEF DownBuffered

(* Every step keeps the intents of a recovered datastore, or leaves a loss
   that is going to reset "recovered". *)
LEMMA IntentsStep ==
  TypeOK /\ PhaseInv /\ IntentsInv /\ [Next]_vars => IntentsInv'
<1> SUFFICES ASSUME TypeOK, PhaseInv, IntentsInv, [Next]_vars
             PROVE  IntentsInv'
  OBVIOUS
<1> USE RuntimeAssumption
        DEF TypeOK, ConnTypeOK, ShownTypeOK, FlagTypeOK, DataTypeOK, LoopTypeOK,
            Phases, PCs, ConnPC, DSState, Stores, PhaseInv, IntentsInv, Pending,
            HoldsIntents, shownVars, loopVars, NotMine
<1>1. CASE \E d \in Hashes : SetDesired(d)
  BY <1>1, DownStaysBuffered DEF SetDesired, connVars
<1>2. CASE \E t \in 0 .. MaxToken : SetRecoveryRetryToken(t)
  BY <1>2, DownStaysBuffered DEF SetRecoveryRetryToken, connVars
<1>3. CASE SubscriptionChanged
  BY <1>3, DownStaysBuffered DEF SubscriptionChanged, connVars
<1>4. CASE TimerFires
  BY <1>4, DownStaysBuffered DEF TimerFires, connVars
<1>5. CASE Start
  BY <1>5, DownStaysBuffered DEF Start, connVars
<1>6. CASE Stop
  BY <1>6, DownStaysBuffered DEF Stop, connVars
<1>7. CASE RunSubscribe
  <2>1. DownBuffered => DownBuffered'
    BY <1>7, DownStaysBuffered DEF RunSubscribe, SubscribeAdd, SubscribeRead,
       SubscribeSend
  <2>2. QED
    BY <1>7, <2>1 DEF RunSubscribe, SubscribeAdd, SubscribeRead, SubscribeSend
<1>8. CASE HandleDSEvent
  <2>1. DownBuffered /\ recovered' => DownBuffered'
    BY <1>8, DownIsReceivedLast DEF HandleDSEvent
  <2>2. QED
    BY <1>8, <2>1 DEF HandleDSEvent, Receive
<1>9. CASE Shutdown
  BY <1>9, DownStaysBuffered DEF Shutdown, stopRuntime, Unsubscribe, connVars
<1>10. CASE ReconcileOnce
  BY <1>10, DownStaysBuffered DEF ReconcileOnce, stopRuntime, Go, Return, notifyIfChanged, connVars
<1>11. CASE EnsureDatastoreDeleted
  BY <1>11, DownStaysBuffered DEF EnsureDatastoreDeleted, NothingDesired, Client, Go, Return,
              notifyIfChanged, connVars
<1>12. CASE EnsureDatastoreDeletedReturns
  BY <1>12, DownStaysBuffered DEF EnsureDatastoreDeletedReturns, NothingDesired, Return,
              notifyIfChanged, connVars
<1>13. CASE TakeClient
  BY <1>13, DownStaysBuffered DEF TakeClient, Client, Go, Return, notifyIfChanged, connVars
<1>14. CASE ProbeFails
  BY <1>14, DownStaysBuffered DEF ProbeFails, Degraded, Return, notifyIfChanged, connVars
<1>15. CASE ProbeNotFound
  BY <1>15, DownStaysBuffered DEF ProbeNotFound, Go, notifyIfChanged, Reaches, connVars
<1>16. CASE ProbeOutdated
  BY <1>16, DownStaysBuffered DEF ProbeOutdated, stopRuntime, Go, notifyIfChanged, Reaches, connVars
<1>17. CASE ProbeFound
  BY <1>17, DownStaysBuffered DEF ProbeFound, Go, notifyIfChanged, Reaches, connVars
<1>18. CASE DeleteReturns
  BY <1>18, DownStaysBuffered DEF DeleteReturns, Degraded, Go, Return, notifyIfChanged, connVars
<1>19. CASE CreateReturns
  BY <1>19, DownStaysBuffered DEF CreateReturns, Degraded, Go, Return, notifyIfChanged, connVars
<1>20. CASE CheckRecovery
  BY <1>20, DownStaysBuffered DEF CheckRecovery, recoveryKey, Go, Return, notifyIfChanged, connVars
<1>21. CASE RecoverSucceeds
  BY <1>21, DownStaysBuffered DEF RecoverSucceeds, Go, notifyIfChanged, connVars
<1>22. CASE RecoverFailsTransiently
  BY <1>22, DownStaysBuffered DEF RecoverFailsTransiently, Return, notifyIfChanged, connVars
<1>23. CASE RecoverIsRejected
  BY <1>23, DownStaysBuffered DEF RecoverIsRejected, recoveryKey, Return, notifyIfChanged, connVars
<1>24. CASE EnterRunning
  BY <1>24, DownStaysBuffered DEF EnterRunning, Return, notifyIfChanged, connVars
<1>25. CASE ServeDelete
  BY <1>25, DownStaysBuffered DEF ServeDelete, Serve, Reaches, connVars
<1>26. CASE ServeCreate
  BY <1>26, DownStaysBuffered DEF ServeCreate, Serve, Reaches, connVars
<1>27. CASE ServeReplay
  BY <1>27, DownStaysBuffered DEF ServeReplay, Serve, Reaches, connVars
<1>28. CASE DataServerRestarts
  BY <1>28, DownStaysBuffered DEF DataServerRestarts, LinkBreaks, connVars
<1>29. CASE Connection
  <2>1. CASE ensureClient /\ UNCHANGED runtimeVars
    <3>1. DownBuffered => DownBuffered'
      BY <2>1, DownStaysBuffered DEF ensureClient, setDown, broadcast
    <3>2. QED
      BY <2>1, <3>1 DEF ensureClient, runtimeVars
  <2>2. CASE MarkUp /\ UNCHANGED runtimeVars
    <3>1. DownBuffered => DownBuffered'
      BY <2>2, DownStaysBuffered DEF MarkUp, setUp, broadcast
    <3>2. QED
      BY <2>2, <3>1 DEF MarkUp, runtimeVars
  <2>3. CASE closeClient /\ UNCHANGED runtimeVars
    BY <2>3, DownStaysBuffered DEF closeClient, runtimeVars
  <2>4. CASE /\ MonitorFails /\ missed' = (missed \/ ~DownBuffered')
             /\ UNCHANGED <<desired, token, shownVars, failedKey, watcher,
                                told, wakeCh, timer, stopCh, pc, loopVars,
                                store>>
    BY <2>4 DEF MonitorFails
  <2>5. CASE /\ MonitorMisses /\ missed' = TRUE
             /\ UNCHANGED <<desired, token, shownVars, failedKey, watcher,
                                told, wakeCh, timer, stopCh, pc, loopVars,
                                store>>
    BY <2>5 DEF MonitorMisses
  <2>6. QED
    BY <1>29, <2>1, <2>2, <2>3, <2>4, <2>5 DEF Connection
<1>30. CASE UNCHANGED vars
  BY <1>30, DownStaysBuffered DEF vars, runtimeVars, connVars
<1>31. QED
  BY <1>1, <1>2, <1>3, <1>4, <1>5, <1>6, <1>7, <1>8, <1>9, <1>10,
     <1>11, <1>12, <1>13, <1>14, <1>15, <1>16, <1>17, <1>18, <1>19,
     <1>20, <1>21, <1>22, <1>23, <1>24, <1>25, <1>26, <1>27, <1>28,
     <1>29, <1>30
     DEF Next, Loop, Server, Callers

(* The intents of a recovered datastore are there, or their loss is pending. *)
THEOREM IntentsInvariant == Spec => []IntentsInv
<1>1. Init => IntentsInv
  BY DEF Init, ConnInit, IntentsInv
<1>2. QED
  BY <1>1, IntentsStep, PhaseInvariant, RuntimeTypeCorrect, PTL DEF Spec

(* A datastore that is handed out and counts as recovered holds the accepted
   configs, through restarts, lost answers and redefinitions. *)
THEOREM HandedOutAlwaysHoldsIntents == Spec => []HandedOutHoldsIntents
<1>1. TypeOK /\ PhaseInv /\ IntentsInv => HandedOutHoldsIntents
  BY DEF TypeOK, DataTypeOK, PhaseInv, IntentsInv, Pending, LossPending, HoldsIntents,
         HandedOut, HandedOutHoldsIntents
<1>2. QED
  BY <1>1, IntentsInvariant, PhaseInvariant, RuntimeTypeCorrect, PTL
=============================================================================
