--------------------------- MODULE DSConnManager ---------------------------
(***************************************************************************)
(* The connection manager to the data-server                               *)
(* (pkg/sdc/dataserver/manager/manager.go) and one of its subscribers.     *)
(*                                                                         *)
(* The run goroutine dials, publishes Up, monitors the gRPC connection,    *)
(* publishes Down, closes the client and dials again.  m.state and the     *)
(* broadcast of a transition change together, under m.mu.  A subscriber    *)
(* owns a buffered channel; a broadcast never blocks and drops the event   *)
(* when the buffer is full.  Subscribe registers the channel first and     *)
(* sends the snapshot of State() afterwards, outside every lock, so a      *)
(* broadcast can fall between the three steps.                             *)
(*                                                                         *)
(* Subscribers do not interact (broadcast treats each alike), so one       *)
(* stands for all.  Backoff only delays the next dial and is left out.     *)
(***************************************************************************)
EXTENDS Naturals, Sequences

CONSTANTS
  ChanCap,   \* buffer of the subscriber's channel: Subscribe(8) in run()
  MaxDials   \* bound: connections the run goroutine makes

ASSUME ConnAssumption == ChanCap \in Nat /\ ChanCap >= 3 /\ MaxDials \in Nat

VARIABLES
  state,     \* m.state
  client,    \* m.client: 0 is nil, n the client made by the n-th dial
  dials,     \* connections made so far
  connPC,    \* where run() is
  link,      \* the gRPC connection of m.client as network and server make it
  ctxDone,   \* the context of the process is cancelled
  chan,      \* events buffered in the subscriber's channel
  sub        \* progress of Subscribe, then "subscribed" or "closed"

connVars == <<state, client, dials, connPC, link, ctxDone, chan, sub>>

DSState == {"Down", "Up"}
ConnPC == {"dial", "setUp", "monitor", "close", "stopped"}
SubState == {"none", "added", "readDown", "readUp", "subscribed", "closed"}

(* What the fields of DSConnManager and a subscriber's channel may hold: only
   Up and Down are ever sent. *)
ConnTypeOK ==
  /\ state \in DSState
  /\ client \in Nat
  /\ dials \in Nat
  /\ connPC \in ConnPC
  /\ link \in {"ready", "broken"}
  /\ ctxDone \in BOOLEAN
  /\ chan \in Seq(DSState)
  /\ sub \in SubState

ConnInit ==
  /\ state = "Down"
  /\ client = 0
  /\ dials = 0
  /\ connPC = "dial"
  /\ link = "broken"
  /\ ctxDone = FALSE
  /\ chan = <<>>
  /\ sub = "none"

(* Client(): the client while Up, else nil. *)
Client == IF state = "Up" THEN client ELSE 0

(* Non-blocking fan-out: drop if the subscriber is slow. *)
broadcast(ev) ==
  chan' = IF sub \in {"none", "closed"} \/ Len(chan) >= ChanCap
            THEN chan
            ELSE Append(chan, ev)

setUp ==
  /\ state' = "Up"
  /\ IF state # "Up" \/ client = 0 THEN broadcast("Up") ELSE UNCHANGED chan

setDown ==
  /\ state' = "Down"
  /\ IF state # "Down" THEN broadcast("Down") ELSE UNCHANGED chan

(* Mutant: a failed dial ends the run goroutine. *)
ensureClientGivesUp ==
  /\ connPC = "dial" /\ ~ctxDone
  /\ \/ /\ dials < MaxDials
        /\ dials' = dials + 1 /\ client' = dials + 1
        /\ link' = "ready"
        /\ connPC' = "setUp"
        /\ UNCHANGED <<state, ctxDone, chan, sub>>
     \/ /\ setDown
        /\ connPC' = "stopped"
        /\ UNCHANGED <<client, dials, link, ctxDone, sub>>

(* ensureClient: the dial blocks until the connection is Ready and stores
   the client before Up is published; a failed dial leaves the manager Down
   (setDown has nothing to change) and is retried. *)
ensureClient ==
  /\ connPC = "dial" /\ ~ctxDone
  /\ \/ /\ dials < MaxDials
        /\ dials' = dials + 1
        /\ client' = dials + 1
        /\ link' = "ready"
        /\ connPC' = "setUp"
        /\ UNCHANGED <<state, ctxDone, chan, sub>>
     \/ /\ setDown
        /\ UNCHANGED <<client, dials, connPC, link, ctxDone, sub>>

MarkUp ==
  /\ connPC = "setUp"
  /\ setUp
  /\ connPC' = "monitor"
  /\ UNCHANGED <<client, dials, link, ctxDone, sub>>

(* Mutant: the client is closed without publishing Down first. *)
MonitorFailsSilently ==
  /\ connPC = "monitor" /\ link = "broken"
  /\ connPC' = "close"
  /\ UNCHANGED <<state, client, dials, link, ctxDone, chan, sub>>

(* monitor returns an error: the connection is in TransientFailure. *)
MonitorFails ==
  /\ connPC = "monitor" /\ link = "broken"
  /\ setDown
  /\ connPC' = "close"
  /\ UNCHANGED <<client, dials, link, ctxDone, sub>>

(* monitor polls every 500 ms and reconnects an Idle connection itself: an
   outage that is over at the next poll is never reported as Down. *)
MonitorMisses ==
  /\ connPC = "monitor" /\ link = "broken" /\ ~ctxDone
  /\ link' = "ready"
  /\ UNCHANGED <<state, client, dials, connPC, ctxDone, chan, sub>>

(* closeClient after setDown: m.client is cleared last. *)
closeClient ==
  /\ connPC = "close"
  /\ client' = 0
  /\ connPC' = "dial"
  /\ UNCHANGED <<state, dials, link, ctxDone, chan, sub>>

(* Mutant: closeAllSubs is forgotten. *)
ConnStopKeepsSubs ==
  /\ ctxDone /\ connPC \in {"dial", "monitor"}
  /\ setDown
  /\ client' = 0
  /\ connPC' = "stopped"
  /\ link' = "broken"
  /\ UNCHANGED <<dials, ctxDone, sub>>

(* The context is cancelled: monitor returns, the client is closed and every
   subscriber's channel is closed (what it buffers can still be received; a
   Subscribe in progress panics on it, which ends the stopping process). *)
ConnStop ==
  /\ ctxDone /\ connPC \in {"dial", "monitor"}
  /\ setDown
  /\ client' = 0
  /\ connPC' = "stopped"
  /\ link' = "broken"
  /\ sub' = IF sub = "none" THEN "none" ELSE "closed"
  /\ UNCHANGED <<dials, ctxDone>>

(* External: the data-server restarts or the network drops the connection.
   The last connection the bound allows stays. *)
LinkBreaks ==
  /\ link = "ready" /\ dials < MaxDials
  /\ link' = "broken"
  /\ UNCHANGED <<state, client, dials, connPC, ctxDone, chan, sub>>

(* External: the process is asked to stop. *)
CancelContext ==
  /\ ~ctxDone
  /\ ctxDone' = TRUE
  /\ UNCHANGED <<state, client, dials, connPC, link, chan, sub>>

----------------------------------------------------------------------------
(* Subscribe, in three steps. *)

SubscribeAdd ==
  /\ sub = "none"
  /\ sub' = "added"
  /\ UNCHANGED <<state, client, dials, connPC, link, ctxDone, chan>>

SubscribeRead ==
  /\ sub = "added"
  /\ sub' = IF state = "Up" THEN "readUp" ELSE "readDown"
  /\ UNCHANGED <<state, client, dials, connPC, link, ctxDone, chan>>

(* Mutant: the progress of Subscribe is sent, not the state. *)
SubscribeSendRaw ==
  /\ sub \in {"readUp", "readDown"}
  /\ Len(chan) < ChanCap
  /\ chan' = Append(chan, sub)
  /\ sub' = "subscribed"
  /\ UNCHANGED <<state, client, dials, connPC, link, ctxDone>>

SubscribeSend ==
  /\ sub \in {"readUp", "readDown"}
  /\ Len(chan) < ChanCap
  /\ chan' = Append(chan, IF sub = "readUp" THEN "Up" ELSE "Down")
  /\ sub' = "subscribed"
  /\ UNCHANGED <<state, client, dials, connPC, link, ctxDone>>

Receive ==
  /\ sub \in {"subscribed", "closed"} /\ chan # <<>>
  /\ chan' = Tail(chan)
  /\ UNCHANGED <<state, client, dials, connPC, link, ctxDone, sub>>

(* The cancel function Subscribe returned: nobody receives any more. *)
Unsubscribe ==
  /\ sub \in {"subscribed", "closed"}
  /\ sub' = "closed" /\ chan' = <<>>
  /\ UNCHANGED <<state, client, dials, connPC, link, ctxDone>>

ConnNext ==
  \/ ensureClient \/ MarkUp \/ MonitorFails \/ MonitorMisses \/ closeClient
  \/ ConnStop \/ LinkBreaks \/ CancelContext
  \/ SubscribeAdd \/ SubscribeRead \/ SubscribeSend \/ Receive
  \/ Unsubscribe

ConnSpec == ConnInit /\ [][ConnNext]_connVars

(* The run goroutine runs, and a data-server that is dialled again and again
   answers at last. *)
ConnFairness ==
  /\ WF_connVars(MarkUp) /\ WF_connVars(closeClient) /\ WF_connVars(ConnStop)
  /\ WF_connVars(MonitorFails)
  /\ SF_connVars(ensureClient /\ client' # client)

ConnFairSpec == ConnSpec /\ ConnFairness

----------------------------------------------------------------------------
(* Properties. *)

(* manager.go:118: while the manager says Up it hands out a client, and that
   client is the one of the latest dial: a client is never closed before Down
   is published, and never published after its successor was dialled. *)
UpHasClient == state = "Up" => client # 0 /\ client = dials

(* manager.go:187-223: an outage is followed by a new connection, unless the
   process stops. *)
Reconnects == state = "Down" ~> state = "Up" \/ ctxDone

(* manager.go:189-195: a stop ends the goroutine with no client left and every
   channel that was registered closed. *)
StopReleases ==
  ctxDone /\ connPC # "stopped"
    ~> connPC = "stopped" /\ client = 0 /\ sub \in {"none", "closed"}
=============================================================================
