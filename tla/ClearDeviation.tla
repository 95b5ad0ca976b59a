--------------------------- MODULE ClearDeviation ---------------------------
(***************************************************************************)
(* The cleardeviation request of a Target, beside the target config        *)
(* reconciler: ClearDeviations in src/apis/config/target_helpers.go, which *)
(* runs in the API server, in another process than the reconciler.         *)
(*                                                                         *)
(* The request lists the Configs, sends their specs in a transaction of    *)
(* its own that reverts the deviating paths, and confirms it; what is      *)
(* recoverable is tried again with the same specs.  The data-server admits *)
(* one transaction at a time, so this and the reconciler shut each other   *)
(* out and may overwrite what the other has just set.                      *)
(***************************************************************************)
EXTENDS Transactor

CONSTANT MaxAttempts    \* clearDeviationTxMaxAttempts

ASSUME ClearAssumption == MaxAttempts \in Nat \ {0}

VARIABLES
  req,        \* the request: where it is, the specs it listed, its attempts
  reply       \* the answer to the last request

cdVars == <<req, reply>>
allVars == <<txVars, cdVars>>

NoRequest == [pc |-> "idle", want |-> NoConfigs, attempt |-> 0]
Wanted == {c \in Names : req.want[c] # None}

(* What a request may hold; its attempts are bounded. *)
ClearTypeOK ==
  /\ req \in [pc : {"idle", "set", "confirm"}, want : [Names -> Value],
              attempt : 0 .. MaxAttempts]
  /\ reply \in {"none", "cleared", "unconfirmed", "failed"}
  /\ req.pc = "idle" <=> Wanted = {}

ClearInit == TxInit /\ req = NoRequest /\ reply = "none"

----------------------------------------------------------------------------

(* The target is Ready and every name is the one of a Config: other requests
   are refused.  Bound: a request is an edit and a reset. *)
ClearDeviations(cs) ==
  /\ req.pc = "idle" /\ runtime = "up"
  /\ cs # {} /\ cs \subseteq Present(configs)
  /\ Resets /\ edits < MaxEdits /\ edits' = edits + 1
  /\ req' = [pc |-> "set", attempt |-> 1,
             want |-> [c \in Names |-> IF c \in cs THEN configs[c].spec ELSE None]]
  /\ reply' = "none"
  /\ UNCHANGED <<configs, serverVars, runtimeVars, rec, passVars, queued, torn,
                 fails>>

Answer(r) == req' = NoRequest /\ reply' = r

(* retryClearDeviationTx: an error of a recoverable code is retried; the caller
   may also have gone. *)
Retry(r) ==
  \/ /\ req.attempt < MaxAttempts
     /\ req' = [req EXCEPT !.pc = "set", !.attempt = @ + 1]
     /\ UNCHANGED reply
  \/ Answer(r)

(* External: the specs of the request replace what the datastore holds, be it
   newer or not yet there.  No status tells of it, hence `torn`. *)
ServeClear ==
  /\ tx = "none" /\ tx' = "clear"
  /\ backup' = store
  /\ store' = [c \in Names |-> IF c \in Wanted THEN req.want[c] ELSE store[c]]
  /\ torn' = torn \cup {c \in Wanted : req.want[c] # store[c]}

ClearSet ==
  /\ req.pc = "set"
  /\ ServeClear
  /\ req' = [req EXCEPT !.pc = "confirm"]
  /\ UNCHANGED <<configs, runtimeVars, rec, passVars, queued, reply, envVars>>

ClearAborted ==
  /\ req.pc = "set" /\ tx # "none"
  /\ Retry("failed")
  /\ UNCHANGED <<configs, serverVars, runtimeVars, rec, passVars, queued, torn,
                 envVars>>

(* No response; the data-server may have taken the transaction. *)
ClearSetFails ==
  /\ req.pc = "set" /\ Fails
  /\ ServeClear \/ UNCHANGED <<serverVars, torn>>
  /\ Retry("failed")
  /\ UNCHANGED <<configs, runtimeVars, rec, passVars, queued, edits, resets>>

(* A response with errors for intents: nothing is set, and it is confirmed all
   the same. *)
ClearRejected ==
  /\ req.pc = "set" /\ tx = "none" /\ Fails
  /\ req' = [req EXCEPT !.pc = "confirm"]
  /\ UNCHANGED <<configs, serverVars, runtimeVars, rec, passVars, queued, torn,
                 reply, edits, resets>>

ClearConfirm ==
  /\ req.pc = "confirm" /\ tx = "clear"
  /\ tx' = "none" /\ backup' = NoConfigs
  /\ Answer("cleared")
  /\ UNCHANGED <<configs, store, runtimeVars, rec, passVars, queued, torn, envVars>>

(* Mutant: the error of the confirm is dropped. *)
ClearConfirmFailsSilently ==
  /\ req.pc = "confirm"
  /\ IF tx = "clear" THEN Fails ELSE UNCHANGED fails
  /\ Retry("cleared")
  /\ UNCHANGED <<configs, serverVars, runtimeVars, rec, passVars, queued, torn,
                 edits, resets>>

(* The confirm fails: its answer is lost or the transaction is no more.  The
   response of the TransactionSet is there, and with it Success for each Config it
   names without an error; only the message tells of the confirm. *)
ClearConfirmFails ==
  /\ req.pc = "confirm"
  /\ IF tx = "clear" THEN Fails ELSE UNCHANGED fails
  /\ \/ tx = "clear" /\ tx' = "none" /\ backup' = NoConfigs
     \/ UNCHANGED <<tx, backup>>
  /\ Retry("unconfirmed")
  /\ UNCHANGED <<configs, store, runtimeVars, rec, passVars, queued, torn,
                 edits, resets>>

ClearStep ==
  ClearSet \/ ClearAborted \/ ClearSetFails \/ ClearRejected
  \/ ClearConfirm \/ ClearConfirmFails

ClearNext ==
  \/ TxNext /\ UNCHANGED cdVars
  \/ \E cs \in SUBSET Names : ClearDeviations(cs)
  \/ ClearStep

ClearSafety == ClearInit /\ [][ClearNext]_allVars

(* The reconciler's fairness, and a request goes on until it is answered. *)
ClearFairness == TxFairness /\ WF_allVars(ClearStep)

ClearSpec == ClearSafety /\ ClearFairness

----------------------------------------------------------------------------
(* Properties. *)

(* target_helpers.go:473-506: a request that is answered without an error has
   its specs in the datastore, confirmed and by no other transaction
   overwritten, at the moment of the answer, however often it was tried, aborted
   or rolled back before. *)
ClearedIsStored ==
  [][reply # "cleared" /\ reply' = "cleared" =>
       /\ tx' = "none"
       /\ \A c \in Wanted : store'[c] = req.want[c]]_allVars
=============================================================================
