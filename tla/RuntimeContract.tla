-------------------------- MODULE RuntimeContract --------------------------
(***************************************************************************)
(* What the runtime of a target promises to the TargetManager and to the   *)
(* reconcilers, whatever the data-server and the connection to it do       *)
(* (comments of Start, Stop and shutdown in runtime.go, of Delete in       *)
(* manager.go):                                                            *)
(*   - one loop, started once, never again after Stop;                     *)
(*   - only a running loop creates or deletes the datastore, and only a    *)
(*     running loop shows the phase Running;                               *)
(*   - the loop exits only when stopped.                                   *)
(* TargetRuntime implements it; TargetDatastore builds on it.              *)
(***************************************************************************)

VARIABLES
  loop,       \* the run goroutine: not started, running, exited (done closed)
  stopCh,     \* Stop was called
  running,    \* Status() shows the phase Running
  told,       \* the status shown is the one last notified
  exists      \* the datastore exists in the data-server

cvars == <<loop, stopCh, running, told, exists>>

(* What a caller can see of a runtime. *)
CTypeOK ==
  /\ loop \in {"new", "running", "exited"}
  /\ stopCh \in BOOLEAN /\ running \in BOOLEAN /\ told \in BOOLEAN
  /\ exists \in BOOLEAN

CInit ==
  /\ loop = "new"
  /\ stopCh = FALSE /\ running = FALSE /\ told = FALSE
  /\ exists \in BOOLEAN

CStart ==
  /\ loop' = IF loop = "new" THEN "running" ELSE loop
  /\ UNCHANGED <<stopCh, running, told, exists>>

CStop ==
  /\ stopCh' = TRUE
  /\ loop' = IF loop = "new" THEN "exited" ELSE loop
  /\ UNCHANGED <<running, told, exists>>

(* The loop works: phases, datastore and notifications change. *)
CWork ==
  /\ loop = "running"
  /\ running' \in BOOLEAN /\ told' \in BOOLEAN /\ exists' \in BOOLEAN
  /\ UNCHANGED <<loop, stopCh>>

CExit ==
  /\ loop = "running" /\ stopCh
  /\ loop' = "exited"
  /\ running' = FALSE
  /\ UNCHANGED <<stopCh, told, exists>>

(* The data-server restarts without the datastore. *)
CLoss ==
  /\ exists' = FALSE
  /\ UNCHANGED <<loop, stopCh, running, told>>

CNext == CStart \/ CStop \/ CWork \/ CExit \/ CLoss

CSpec == CInit /\ [][CNext]_cvars
=============================================================================
