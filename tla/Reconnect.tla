------------------------------- MODULE Reconnect ----------------------------
(***************************************************************************)
(* What the firmware's tasks promise about a tunnel session, without the   *)
(* bytes: how network_task moves through an attempt, when the USB consumer *)
(* may use the client, and how a failure seen by any task ends the         *)
(* session.  AtomBridge implements it; it has no counters, so that its     *)
(* liveness can be checked on unbounded behaviours.                        *)
(***************************************************************************)
EXTENDS Integers

VARIABLES
  net,      \* program counter of network_task
  client,   \* bridge_client is set
  link,     \* the WebSocket client's connection
  authed,   \* websocket_authenticated
  failed,   \* forwarder.failed
  bits,     \* the event group
  signals   \* tasks about to set FAILED

vars == <<net, client, link, authed, failed, bits, signals>>

Tasks == {"usb", "main", "ws"}
NetStates == {"backoff", "connecting", "authenticating", "attaching",
              "diagnosing", "online", "closing", "stopping"}

TypeOK ==
  /\ net \in NetStates
  /\ client \in BOOLEAN /\ authed \in BOOLEAN /\ failed \in BOOLEAN
  /\ link \in {"down", "connecting", "open"}
  /\ bits \subseteq {"connected", "authenticated", "failed"}
  /\ signals \subseteq Tasks

Init ==
  /\ net = "backoff" /\ client = FALSE /\ failed = FALSE
  /\ link = "down" /\ authed = FALSE
  /\ bits = {} /\ signals = {}

-----------------------------------------------------------------------------
(* Failures.                                                               *)

\* A task fails the stream, or finds it failed, and will say so.
Notice(t) ==
  /\ failed' = TRUE
  /\ signals' = signals \cup {t}
  /\ UNCHANGED <<net, client, link, authed, bits>>

\* The USB peer sends while the stream is failed: cdc_rx_callback notices.
PeerSends == failed /\ Notice("usb")

\* Faulty: the signal sets no bit.
SignalLost(t) ==
  /\ t \in signals
  /\ signals' = signals \ {t}
  /\ UNCHANGED <<net, client, link, authed, failed, bits>>

Signal(t) ==
  /\ t \in signals
  /\ signals' = signals \ {t}
  /\ bits' = bits \cup {"failed"}
  /\ UNCHANGED <<net, client, link, authed, failed>>

-----------------------------------------------------------------------------
(* The WebSocket client.                                                   *)

\* Faulty: the connection is not announced.
WsConnectedSilently ==
  /\ link = "connecting"
  /\ link' = "open" /\ authed' = FALSE
  /\ UNCHANGED <<net, client, failed, bits, signals>>

WsConnected ==
  /\ link = "connecting"
  /\ link' = "open" /\ authed' = FALSE
  /\ bits' = bits \cup {"connected"}
  /\ UNCHANGED <<net, client, failed, signals>>

WsAccepted ==
  /\ link = "open" /\ ~authed /\ net = "authenticating"
  /\ authed' = TRUE
  /\ bits' = bits \cup {"authenticated"}
  /\ UNCHANGED <<net, client, link, failed, signals>>

WsLost ==
  /\ link \in {"connecting", "open"}
  /\ link' = "down"
  /\ signals' = signals \cup {"ws"}
  /\ UNCHANGED <<net, client, authed, failed, bits>>

-----------------------------------------------------------------------------
(* network_task.                                                           *)

Start ==
  /\ net = "backoff"
  /\ net' = "connecting" /\ link' = "connecting" /\ bits' = {}
  /\ UNCHANGED <<client, authed, failed, signals>>

SayHello ==
  /\ net = "connecting" /\ "connected" \in bits /\ link = "open"
  /\ net' = "authenticating"
  /\ bits' = bits \ {"connected", "failed"}
  /\ UNCHANGED <<client, link, authed, failed, signals>>

Accept ==
  /\ net = "authenticating" /\ "authenticated" \in bits
  /\ net' = "attaching"
  /\ bits' = bits \ {"authenticated", "failed"}
  /\ UNCHANGED <<client, link, authed, failed, signals>>

\* A wait that ends without the bit it is for, by FAILED.
FailedEndsWait ==
  /\ \/ net = "connecting" /\ "connected" \notin bits
     \/ net = "authenticating" /\ "authenticated" \notin bits
     \/ net = "online"
  /\ "failed" \in bits
  /\ net' = "closing"
  /\ bits' = bits \ {"failed"}
  /\ UNCHANGED <<client, link, authed, failed, signals>>

\* A wait that times out, or a hello that cannot be sent.
GiveUp ==
  /\ \/ net = "connecting" /\ bits' = bits \ {"connected", "failed"}
     \/ /\ net = "authenticating" /\ "authenticated" \notin bits
        /\ bits' = bits \ {"failed"}
  /\ net' = "closing"
  /\ UNCHANGED <<client, link, authed, failed, signals>>

Attach ==
  /\ net = "attaching"
  /\ client' = TRUE /\ failed' = FALSE
  /\ net' = "diagnosing"
  /\ UNCHANGED <<link, authed, bits, signals>>

Diagnosed ==
  /\ net = "diagnosing" /\ link = "open"
  /\ net' = "online"
  /\ UNCHANGED <<client, link, authed, failed, bits, signals>>

DiagnosisFails ==
  /\ net = "diagnosing"
  /\ net' = "closing"
  /\ failed' = TRUE /\ bits' = bits \cup {"failed"}
  /\ UNCHANGED <<client, link, authed, signals>>

DiagnoseAgain ==
  /\ net = "online" /\ "failed" \notin bits
  /\ net' = "diagnosing"
  /\ UNCHANGED <<client, link, authed, failed, bits, signals>>

Detach ==
  /\ net = "closing"
  /\ client' = FALSE /\ failed' = TRUE
  /\ net' = "stopping"
  /\ UNCHANGED <<link, authed, bits, signals>>

Stop ==
  /\ net = "stopping" /\ "ws" \notin signals
  /\ link' = "down" /\ authed' = FALSE
  /\ net' = "backoff"
  /\ UNCHANGED <<client, failed, bits, signals>>

\* Steps network_task takes by itself, however the link behaves.
Proceed ==
  \/ Start \/ SayHello \/ Accept \/ FailedEndsWait
  \/ Attach \/ Diagnosed \/ DiagnoseAgain \/ Detach \/ Stop

Next ==
  \/ Proceed \/ GiveUp \/ DiagnosisFails
  \/ WsConnected \/ WsAccepted \/ WsLost
  \/ PeerSends
  \/ \E t \in Tasks : Notice(t) \/ Signal(t)

Spec == Init /\ [][Next]_vars

TaskFairness ==
  /\ WF_vars(Proceed \/ GiveUp \/ DiagnosisFails)
  /\ \A t \in Tasks : WF_vars(Signal(t))

FairSpec == Spec /\ TaskFairness

-----------------------------------------------------------------------------
(* Properties.                                                             *)

\* app_main sends only through a client that network_task will not destroy before
\* it has cleared it: a set client means a session that is up or being closed.
ClientHasSession == client => net \in {"diagnosing", "online", "closing"}

\* A failure noticed while a session is attached ends that session, although
\* FAILED is cleared by three different waits and AUTHENTICATED wins over it.
FailureEndsSession == client /\ failed ~> ~client

\* Reconnects keep the tunnel alive: from every back-off the bridge gets to an
\* attached session again.
Reconnects == net = "backoff" ~> client

-----------------------------------------------------------------------------
(* Reconnecting under good conditions: once a session, or the first        *)
(* attempt, has been lost, for whatever reason, the backend is reachable    *)
(* until the next is attached, waits do not time out and sends succeed.     *)

GoodLink ==
  \/ Proceed \/ WsConnected \/ WsAccepted
  \/ ~failed /\ WsLost
  \/ client /\ \E t \in Tasks : Notice(t)
  \/ link = "down" /\ (GiveUp \/ DiagnosisFails)
  \/ \E t \in Tasks : Signal(t)

GoodFairness ==
  /\ WF_vars(Proceed \/ (link = "down" /\ (GiveUp \/ DiagnosisFails)))
  /\ \A t \in Tasks : WF_vars(Signal(t))
  /\ WF_vars(WsConnected) /\ WF_vars(WsAccepted)

\* The USB peer is silent while the bridge reconnects.
SilentPeerSpec == Init /\ [][GoodLink]_vars /\ GoodFairness

\* The USB peer keeps sending, as a Nano whose connection request is not answered
\* does twice a second.
TalkingPeerSpec ==
  /\ Init
  /\ [][GoodLink \/ PeerSends]_vars
  /\ GoodFairness /\ WF_vars(PeerSends)

=============================================================================
