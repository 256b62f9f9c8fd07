------------------------------ MODULE AtomBridge ----------------------------
(***************************************************************************)
(* The tasks of the Tan Bridge firmware around the forwarder               *)
(* (firmware/tan-bridge-setup/main/setup_main.c):                          *)
(*                                                                         *)
(*   usb      cdc_rx_callback: reads a chunk, pushes it, signals a failure *)
(*   main     app_main: re-enumerates the peer on request, pops a chunk,   *)
(*            hands it to the setup protocol or sends it into the tunnel   *)
(*   network  network_task: connect, authenticate, attach, diagnose, tear  *)
(*            down, back off, for ever                                     *)
(*   ws       websocket_event_handler: what the WebSocket client reports   *)
(*                                                                         *)
(* The link, the backend and the USB peer are the environment.  A step is  *)
(* what runs between two points at which another task may run: one         *)
(* critical section, one wait, one send.                                   *)
(***************************************************************************)
EXTENDS Forwarding

CONSTANTS MaxChunks,        \* bound: chunks the USB peer emits
          MaxAttempts       \* bound: connection attempts

VARIABLES
  fw,         \* the forwarder
  emitted,    \* chunks read from USB since boot
  attached,   \* USB data connection up (tud_connect / tud_disconnect)
  usbSession, \* USB attachments since boot
  held,       \* chunks cdc_rx_callback has read and not yet pushed
  request,    \* usb_reconnect_requested
  setup,      \* setup_protocol_active
  client,     \* bridge_client is set
  mutex,      \* holder of bridge_mutex
  bits,       \* the event group
  signals,    \* tasks that saw a failure and are about to set FAILED
  main,       \* program counter of app_main
  batch,      \* the popped chunk with its generation, or << >>
  net,        \* program counter of network_task
  attempts,   \* connection attempts so far
  link,       \* the WebSocket client's connection
  authed,     \* websocket_authenticated
  consumed,   \* chunks given to the setup protocol
  tunnel      \* history: what was forwarded, and the generation it went out in

usbVars  == <<emitted, attached, usbSession, held>>
mainVars == <<request, setup, main, batch, consumed, tunnel>>
netVars  == <<client, net, attempts>>
wsVars   == <<link, authed>>
vars == <<fw, usbVars, mainVars, netVars, wsVars, mutex, bits, signals>>

Tasks == {"usb", "main", "ws"}

Init ==
  /\ fw = InitialForwarder
  /\ emitted = 0 /\ attached = TRUE /\ usbSession = 1 /\ held = << >>
  /\ request = FALSE /\ setup = FALSE /\ main = "top" /\ batch = << >>
  /\ consumed = 0 /\ tunnel = << >>
  /\ client = FALSE /\ net = "backoff" /\ attempts = 0
  /\ link = "down" /\ authed = FALSE
  /\ mutex = "free" /\ bits = {} /\ signals = {}

-----------------------------------------------------------------------------
(* Setting FAILED is a step of its own: signal_websocket_failure runs after *)
(* the critical section that saw or caused the failure.                    *)

Signal(t) ==
  /\ t \in signals
  /\ signals' = signals \ {t}
  /\ bits' = bits \cup {"failed"}
  /\ UNCHANGED <<fw, usbVars, mainVars, netVars, wsVars, mutex>>

-----------------------------------------------------------------------------
(* cdc_rx_callback and the line-state callback.                            *)

\* What a chunk contains matters only until the peer is recognised.
UsbRead(kind) ==
  /\ kind # "noise" => fw.peer = "unknown"
  /\ attached /\ held = << >> /\ "usb" \notin signals
  /\ emitted < MaxChunks
  /\ emitted' = emitted + 1
  /\ held' = << [id |-> emitted + 1, kind |-> kind, usb |-> usbSession,
                 pushedIn |-> 0, peer |-> "unknown"] >>
  /\ UNCHANGED <<fw, attached, usbSession, mainVars, netVars, wsVars, mutex,
                 bits, signals>>

UsbPush ==
  /\ held # << >>
  /\ LET chunk == [held[1] EXCEPT !.pushedIn = fw.generation,
                                  !.peer = PeerAfter(fw, held[1])]
     IN  fw' = Push(fw, chunk)
  /\ held' = << >>
  /\ signals' = IF fw'.failed THEN signals \cup {"usb"} ELSE signals
  /\ UNCHANGED <<emitted, attached, usbSession, mainVars, netVars, wsVars,
                 mutex, bits>>

\* cdc_line_state_callback: the computer drops DTR.
DropDtr ==
  /\ setup
  /\ setup' = FALSE
  /\ UNCHANGED <<fw, usbVars, request, main, batch, consumed, tunnel, netVars,
                 wsVars, mutex, bits, signals>>

-----------------------------------------------------------------------------
(* app_main.                                                               *)

\* recover_usb_session: tud_disconnect, then 250 ms of waiting.
RecoverStart ==
  /\ main = "top" /\ request
  /\ request' = FALSE
  /\ attached' = FALSE
  /\ main' = "recovering"
  /\ UNCHANGED <<fw, emitted, usbSession, held, setup, batch, consumed, tunnel,
                 netVars, wsVars, mutex, bits, signals>>

\* The wait lets a callback that is already running finish, and the driver's
\* queue is drained before the ring reopens.
RecoverEnd ==
  /\ main = "recovering" /\ held = << >>
  /\ fw' = Recovered(fw)
  /\ attached' = TRUE /\ usbSession' = usbSession + 1
  /\ main' = "pop"
  /\ UNCHANGED <<emitted, held, request, setup, batch, consumed, tunnel,
                 netVars, wsVars, mutex, bits, signals>>

\* The rest of an iteration: a pop, after the check of the request flag.
PopChunk ==
  /\ \/ main = "pop"
     \/ main = "top" /\ ~request
  /\ IF CanPop(fw)
       THEN /\ fw' = Pop(fw)
            /\ batch' = << [chunk |-> Head(fw.ring), under |-> fw.generation] >>
            /\ main' = "popped"
       ELSE main' = "top" /\ UNCHANGED <<fw, batch>>
  /\ UNCHANGED <<usbVars, request, setup, consumed, tunnel, netVars, wsVars,
                 mutex, bits, signals>>

\* Faulty: the peer the forwarder has recognised is not consulted.
DispatchByFlag ==
  /\ main = "popped"
  /\ IF setup
       THEN /\ consumed' = consumed + 1
            /\ batch' = << >> /\ main' = "top"
       ELSE main' = "locking" /\ UNCHANGED <<consumed, batch>>
  /\ UNCHANGED <<fw, usbVars, setup, request, tunnel, netVars, wsVars, mutex, bits,
                 signals>>

\* setup_bytes decides between consume_bytes and bridge_send_usb.
Dispatch ==
  /\ main = "popped"
  /\ IF setup \/ fw.peer = "setup"
       THEN /\ setup' = TRUE
            /\ consumed' = consumed + 1
            /\ batch' = << >> /\ main' = "top"
       ELSE main' = "locking" /\ UNCHANGED <<setup, consumed, batch>>
  /\ UNCHANGED <<fw, usbVars, request, tunnel, netVars, wsVars, mutex, bits,
                 signals>>

\* bridge_send_usb, with the mutex: send, or drop a chunk whose session is gone.
LockForSend ==
  /\ main = "locking" /\ mutex = "free"
  /\ IF client /\ Current(fw, batch[1].under)
       THEN mutex' = "main" /\ main' = "sending" /\ UNCHANGED <<fw, batch>>
       ELSE /\ fw' = DropChunk(fw)
            /\ batch' = << >> /\ main' = "top" /\ UNCHANGED mutex
  /\ UNCHANGED <<usbVars, request, setup, consumed, tunnel, netVars, wsVars,
                 bits, signals>>

\* 250 ms without the mutex: the chunk is counted as discarded, then the
\* stream is failed.
LockTimeout ==
  /\ main = "locking" /\ mutex = "network"
  /\ fw' = DropChunk(fw)
  /\ batch' = << >> /\ main' = "failing"
  /\ UNCHANGED <<usbVars, request, setup, consumed, tunnel, netVars, wsVars,
                 mutex, bits, signals>>

SendOk ==
  /\ main = "sending" /\ link = "open"
  /\ tunnel' = Append(tunnel, [chunk |-> batch[1].chunk, under |-> fw.generation])
  /\ fw' = [fw EXCEPT !.forwarded = @ + 1]
  /\ batch' = << >> /\ main' = "top" /\ mutex' = "free"
  /\ UNCHANGED <<usbVars, request, setup, consumed, netVars, wsVars, bits,
                 signals>>

\* Faulty: a send that fails loses its chunk and lets the stream go on.
SendFailsLossy ==
  /\ main = "sending"
  /\ fw' = DropChunk(fw)
  /\ batch' = << >> /\ main' = "top" /\ mutex' = "free"
  /\ UNCHANGED <<usbVars, request, setup, consumed, tunnel, netVars, wsVars, bits,
                 signals>>

\* The mutex is held until the stream has been failed.
SendFails ==
  /\ main = "sending"
  /\ fw' = DropChunk(fw)
  /\ batch' = << >> /\ main' = "failing"
  /\ UNCHANGED <<usbVars, request, setup, consumed, tunnel, netVars, wsVars,
                 mutex, bits, signals>>

\* fail_forwarding, first half; Signal("main") is the second.
FailStream ==
  /\ main = "failing"
  /\ fw' = Fail(fw)
  /\ signals' = signals \cup {"main"}
  /\ main' = "signalling"
  /\ UNCHANGED <<usbVars, request, setup, batch, consumed, tunnel, netVars,
                 wsVars, mutex, bits>>

\* Once FAILED is set, the mutex is given back if bridge_send_usb holds it.
LeaveFailure ==
  /\ main = "signalling" /\ "main" \notin signals
  /\ mutex' = IF mutex = "main" THEN "free" ELSE mutex
  /\ main' = "top"
  /\ UNCHANGED <<fw, usbVars, request, setup, batch, consumed, tunnel, netVars,
                 wsVars, bits, signals>>

Main ==
  \/ RecoverStart \/ RecoverEnd \/ PopChunk \/ Dispatch \/ LockForSend
  \/ LockTimeout \/ SendOk \/ SendFails \/ FailStream \/ LeaveFailure

-----------------------------------------------------------------------------
(* network_task.                                                           *)

netFrame == <<usbVars, mainVars, signals>>

\* Wi-Fi and clock are up, the back-off is over: clear every bit and start a
\* client.  (A failed association, time sync or client start only lengthens the
\* back-off.)
\* 1.5 s of back-off outlast a re-enumeration that is due or in progress: app_main
\* waits at most 250 ms for the mutex before it looks at the request, and 250 ms
\* with USB disconnected.
NetStart ==
  /\ net = "backoff"
  /\ main # "recovering" /\ ~request
  /\ attempts < MaxAttempts
  /\ attempts' = attempts + 1
  /\ bits' = {}
  /\ link' = "connecting"
  /\ net' = "connecting"
  /\ UNCHANGED <<fw, client, authed, mutex, netFrame>>

\* The first wait returns on CONNECTED, FAILED or after 15 s, and clears both
\* bits.  With CONNECTED the hello is sent; without, or when the send fails,
\* FAILED is set, so that the second wait returns at once, clearing it.
NetConnected ==
  /\ net = "connecting"
  /\ \/ "connected" \in bits /\ link = "open" /\ net' = "authenticating"
     \/ net' = "closing"
  /\ bits' = bits \ {"connected", "failed"}
  /\ UNCHANGED <<fw, client, attempts, wsVars, mutex, netFrame>>

\* The second wait returns on AUTHENTICATED, FAILED or after 10 s, and clears
\* both; AUTHENTICATED wins.
NetAuthenticated ==
  /\ net = "authenticating"
  /\ net' = IF "authenticated" \in bits THEN "attaching" ELSE "closing"
  /\ bits' = bits \ {"authenticated", "failed"}
  /\ UNCHANGED <<fw, client, attempts, wsVars, mutex, netFrame>>

\* Faulty: the client is changed without waiting for the mutex.
NetLockBarging ==
  /\ net \in {"attaching", "closing"} /\ mutex # "network"
  /\ mutex' = "network"
  /\ UNCHANGED <<fw, netVars, wsVars, bits, netFrame>>

\* set_bridge_client and clear_bridge_client take the mutex ...
NetLock ==
  /\ net \in {"attaching", "closing"} /\ mutex = "free"
  /\ mutex' = "network"
  /\ UNCHANGED <<fw, netVars, wsVars, bits, netFrame>>

\* ... and change the client and the forwarder under it.
NetAttach ==
  /\ net = "attaching" /\ mutex = "network"
  /\ client' = TRUE
  /\ fw' = Begin(fw)
  /\ request' = fw'.recovering
  /\ mutex' = "free"
  /\ net' = "diagnosing"
  /\ UNCHANGED <<attempts, usbVars, setup, main, batch, consumed, tunnel, wsVars,
                 bits, signals>>

\* send_forwarding_diagnostics; when it fails, fail_forwarding (whose FAILED bit
\* nobody waits for any more) and out of the loop.
NetDiagnose ==
  /\ net = "diagnosing"
  /\ \/ link = "open" /\ net' = "online" /\ UNCHANGED <<fw, bits>>
     \/ /\ net' = "closing"
        /\ fw' = Fail(fw)
        /\ bits' = bits \cup {"failed"}
  /\ UNCHANGED <<client, attempts, wsVars, mutex, netFrame>>

\* The 30 s wait: FAILED ends the session, the timeout sends diagnostics again.
NetOnline ==
  /\ net = "online"
  /\ net' = IF "failed" \in bits THEN "closing" ELSE "diagnosing"
  /\ bits' = bits \ {"failed"}
  /\ UNCHANGED <<fw, client, attempts, wsVars, mutex, netFrame>>

\* Faulty: clear_bridge_client leaves the client set.
NetDetachKeepsClient ==
  /\ net = "closing" /\ mutex = "network"
  /\ fw' = Fail(fw)
  /\ mutex' = "free"
  /\ net' = "stopping"
  /\ UNCHANGED <<client, attempts, wsVars, bits, netFrame>>

NetDetach ==
  /\ net = "closing" /\ mutex = "network"
  /\ client' = FALSE
  /\ fw' = Fail(fw)
  /\ mutex' = "free"
  /\ net' = "stopping"
  /\ UNCHANGED <<attempts, wsVars, bits, netFrame>>

\* The client is stopped and destroyed: its task is gone.
NetStop ==
  /\ net = "stopping" /\ "ws" \notin signals
  /\ link' = "down" /\ authed' = FALSE
  /\ net' = "backoff"
  /\ UNCHANGED <<fw, client, attempts, mutex, bits, netFrame>>

Network ==
  \/ NetStart \/ NetConnected \/ NetAuthenticated \/ NetLock \/ NetAttach
  \/ NetDiagnose \/ NetOnline \/ NetDetach \/ NetStop

-----------------------------------------------------------------------------
(* websocket_event_handler.                                                *)

wsFrame == <<usbVars, mainVars, netVars, mutex>>

WsConnected ==
  /\ link = "connecting" /\ "ws" \notin signals
  /\ link' = "open" /\ authed' = FALSE
  /\ bits' = bits \cup {"connected"}
  /\ UNCHANGED <<fw, signals, wsFrame>>

\* An error, a disconnection or a close, at any stage.
WsLost ==
  /\ link \in {"connecting", "open"} /\ "ws" \notin signals
  /\ link' = "down"
  /\ signals' = signals \cup {"ws"}
  /\ UNCHANGED <<fw, authed, bits, wsFrame>>

\* The backend answers the hello.
WsAccepted ==
  /\ link = "open" /\ ~authed /\ net = "authenticating" /\ "ws" \notin signals
  /\ authed' = TRUE
  /\ bits' = bits \cup {"authenticated"}
  /\ UNCHANGED <<fw, link, signals, wsFrame>>

\* What else may arrive fails the stream: a refused hello, a message that is
\* malformed or out of place, a record while the ring is closed or the setup
\* protocol is active, a record USB does not take.  A record that is delivered
\* (deliver_backend_record) changes nothing here.
WsFault ==
  /\ link = "open" /\ "ws" \notin signals
  /\ fw' = Fail(fw)
  /\ signals' = signals \cup {"ws"}
  /\ UNCHANGED <<wsVars, bits, wsFrame>>

Ws == WsConnected \/ WsLost \/ WsAccepted \/ WsFault

-----------------------------------------------------------------------------

Next ==
  \/ \E kind \in Kinds : UsbRead(kind)
  \/ UsbPush \/ DropDtr
  \/ Main \/ Network \/ Ws
  \/ \E t \in Tasks : Signal(t)

Spec == Init /\ [][Next]_vars

\* Every task of the firmware keeps being scheduled.  Nothing is assumed of the
\* peer, the link or the backend.
TaskFairness ==
  /\ WF_vars(UsbPush) /\ WF_vars(Main) /\ WF_vars(Network)
  /\ \A t \in Tasks : WF_vars(Signal(t))

FairSpec == Spec /\ TaskFairness

-----------------------------------------------------------------------------
(* Properties.                                                             *)

TypeOK ==
  /\ fw \in Forwarder
  /\ emitted \in Nat /\ usbSession \in Nat /\ consumed \in Nat /\ attempts \in Nat
  /\ attached \in BOOLEAN /\ request \in BOOLEAN /\ setup \in BOOLEAN
  /\ client \in BOOLEAN /\ authed \in BOOLEAN
  /\ held \in Seq(Chunk) /\ Len(held) <= 1
  /\ batch \in Seq([chunk : Chunk, under : Nat]) /\ Len(batch) <= 1
  /\ tunnel \in Seq([chunk : Chunk, under : Nat])
  /\ mutex \in {"free", "main", "network"}
  /\ bits \subseteq {"connected", "authenticated", "failed"}
  /\ signals \subseteq Tasks
  /\ main \in {"top", "recovering", "pop", "popped", "locking", "sending",
               "failing", "signalling"}
  /\ net \in {"backoff", "connecting", "authenticating", "attaching",
              "diagnosing", "online", "closing", "stopping"}
  /\ link \in {"down", "connecting", "open"}

\* Every chunk pushed is accounted for exactly once: forwarded, discarded, given
\* to the setup protocol, still in the ring, or in app_main's hands.  The counters
\* are updated by three tasks in critical sections of their own.
Conservation ==
  fw.received = fw.forwarded + fw.discarded + consumed
                + Len(fw.ring) + Len(batch)

\* Bytes of an earlier connection do not enter a later one: what is forwarded
\* under a session was pushed in it - or before the first session, by a peer not
\* yet recognised, whose bytes tan_forward_begin leaves in the ring.
GenerationIsolation ==
  \A i \in 1 .. Len(tunnel) :
    LET e == tunnel[i] IN
    \/ e.under = e.chunk.pushedIn
    \/ e.chunk.pushedIn = 0 /\ e.under = 1 /\ e.chunk.peer = "unknown"

\* A fault invalidates the whole stream: within a session the backend receives
\* consecutive chunks, in order, with none lost, duplicated or swapped.
NoGapInSession ==
  \A i \in 1 .. Len(tunnel) - 1 :
    tunnel[i].under = tunnel[i + 1].under =>
      tunnel[i + 1].chunk.id = tunnel[i].chunk.id + 1

\* A SASSI negotiation with the Nano never spans two tunnel sessions: after a
\* chunk of a recognised Nano, the next session carries only chunks of a later
\* USB attachment.
FreshHandshake ==
  \A i \in 1 .. Len(tunnel) - 1 :
    LET a == tunnel[i]
        b == tunnel[i + 1]
    IN  a.under # b.under /\ a.chunk.peer = "nano" => a.chunk.usb < b.chunk.usb

\* What a computer sends to the setup protocol never reaches the backend.
SetupStaysLocal ==
  \A i \in 1 .. Len(tunnel) : tunnel[i].chunk.peer # "setup"

\* The client is never stopped and destroyed while app_main sends through it.
ClientOutlivesSend == net = "stopping" => main # "sending"

\* A computer in setup is never disconnected from USB; only a recognised Nano is.
OnlyNanoReenumerates == [][attached /\ ~attached' => fw.peer = "nano"]_vars

\* A ring closed for re-enumeration is opened again, by app_main or by a failure:
\* a request set under the mutex is never lost between the two tasks.
RecoveryCompletes == fw.recovering ~> ~fw.recovering

\* The session protocol without the bytes.
Session == INSTANCE Reconnect WITH failed <- fw.failed

\* Every step of the tasks is a step of the session protocol, or none of it.
ImplementsSession == Session!Spec

\* What app_main relies on when it finds bridge_client set: network_task has a session
\* up, or is still before clear_bridge_client, which waits for app_main's send.
ClientHasSession == Session!ClientHasSession

=============================================================================
