---------------------------- MODULE NetworkCommit ----------------------------
(***************************************************************************)
(* What the network-wide transaction of a Rollout promises                 *)
(* (TransactToAllTargets), whatever targets, timeouts and restarts do:     *)
(*   - a change is confirmed on a target only when every target that takes *)
(*     part and is not left out has accepted its own;                      *)
(*   - once a change is confirmed, or a confirmation is without an answer, *)
(*     none is rolled back and no target turns out to have failed;         *)
(*   - once one is rolled back, none is confirmed.                         *)
(* Rollout implements it.                                                  *)
(***************************************************************************)
CONSTANT Targets

VARIABLES
    members,    \* targets that take part, {} without a transaction
    state,      \* [Targets -> what the transaction knows of the target]
    held        \* targets whose data-server holds an unconfirmed change

nvars == <<members, state, held>>

Unknown == [t \in Targets |-> "none"]

\* Every target that takes part is left out or has accepted its change.
Agreed == \A t \in members : state[t] \in {"out", "prepared", "committed", "unsure"}

\* A confirmation was sent, or may have been.
Committing == \E t \in members : state[t] \in {"committed", "unsure"}
Undoing == \E t \in members : state[t] = "undone"

NInit == members = {} /\ state = Unknown /\ held = {}

NBegin ==
    /\ members = {} /\ state = Unknown
    /\ members' \in SUBSET Targets
    /\ UNCHANGED <<state, held>>

\* The data-server accepts a change of t; the call may come from an earlier
\* transaction, or from a goroutine that nobody waits for.
NHold(t) ==
    /\ t \notin held
    /\ held' = held \union {t}
    /\ UNCHANGED <<members, state>>

\* The transaction learns of t.
NReport(t, verdict) ==
    /\ t \in members /\ state[t] = "none" /\ ~Committing
    /\ state' = [state EXCEPT ![t] = verdict]
    /\ UNCHANGED <<members, held>>

\* The data-server confirms the change of t; its answer may not arrive.
NCommit(t, answer) ==
    /\ t \in members \intersect held /\ state[t] = "prepared" /\ Agreed
    /\ held' = held \ {t}
    /\ state' = [state EXCEPT ![t] = answer]
    /\ UNCHANGED members

\* The confirmation of t was not executed.
NNotConfirmed(t) ==
    /\ t \in members /\ state[t] = "prepared" /\ ~Undoing
    /\ state' = [state EXCEPT ![t] = "unsure"]
    /\ UNCHANGED <<members, held>>

NRollback(t) ==
    /\ t \in members /\ state[t] = "prepared" /\ ~Committing
    /\ state' = [state EXCEPT ![t] = "undone"]
    /\ held' \in {held, held \ {t}}
    /\ UNCHANGED members

\* The data-server gives up what was not confirmed in time.
NTimeout(t) ==
    /\ t \in held
    /\ held' = held \ {t}
    /\ UNCHANGED <<members, state>>

NEnd ==
    /\ members' = {} /\ state' = Unknown
    /\ UNCHANGED held

NNext ==
    \/ NBegin \/ NEnd
    \/ \E t \in Targets :
        \/ NHold(t) \/ NNotConfirmed(t) \/ NRollback(t) \/ NTimeout(t)
        \/ \E verdict \in {"out", "failed", "prepared"} : NReport(t, verdict)
        \/ \E answer \in {"committed", "unsure"} : NCommit(t, answer)

NSpec == NInit /\ [][NNext]_nvars
=============================================================================
