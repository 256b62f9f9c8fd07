----------------------------- MODULE NanoSession ----------------------------
(***************************************************************************)
(* The service's session with the Nano (apps/service/src/device.rs): one   *)
(* worker negotiates, follows the Nano's busy state, and synchronises its  *)
(* logs and profiles whenever that is due.                                 *)
(*                                                                         *)
(* A host step is one turn of the worker: one message handled, by          *)
(* poll_session when idle or by request_transfer inside a synchronisation, *)
(* with everything the code does before it reads again.  The Nano answers  *)
(* requests in order, and locks its file system for a roast.               *)
(***************************************************************************)
EXTENDS Integers, Sequences, FiniteSets

CONSTANTS
  Profile,     \* profiles on the Nano
  Log,         \* logs: those it starts with and those roasts will write
  OldLog,      \* the logs it starts with, imported before
  Damaged,     \* files whose transfer always fails its CRC
  MaxSync,     \* bound: synchronisations the operator asks for
  MaxDrops,    \* bound: transports that fail, refreshes, negotiation timeouts
  MaxResets    \* bound: resets of the Nano that the transport survives

File == Profile \cup Log

\* Names are numbers, so that the files of one kind sort.
ASSUME NanoSessionAssumption ==
  /\ Profile \subseteq Nat /\ Log \subseteq Nat /\ Profile \cap Log = {}
  /\ OldLog \subseteq Log /\ Damaged \subseteq OldLog
  /\ MaxSync \in Nat /\ MaxDrops \in Nat /\ MaxResets \in Nat

VARIABLES
  host,      \* the worker: its session, the snapshot's busy, the synchronisation
  imported,  \* native_files: pairs of a device path and the content read for it
  wire,      \* messages on their way to the host
  asks,      \* requests on their way to the Nano
  nano,      \* open: it considers the session negotiated; seed of its requests;
             \* the roast that locks its file system; its files
  syncs, drops, resets,
  refused    \* history: start-up runs refused since the roast began

vars == <<host, imported, wire, asks, nano, syncs, drops, resets, refused>>
bounds == <<syncs, drops, resets>>

-----------------------------------------------------------------------------

Phases == {"closed", "handshake", "time", "status", "firmware", "ready"}
Stages == {"none", "logs", "profiles", "files"}

\* With no session, reconnecting() and degraded() forget busy too.
NoSession ==
  [phase |-> "closed", settled |-> TRUE, pending |-> << >>, seed |-> << >>,
   attempted |-> FALSE, waiting |-> FALSE, busy |-> "unknown", trigger |-> "none",
   stage |-> "none", todo |-> {}, known |-> {}, outcome |-> "none"]

\* The notebook was synchronised with what the Nano holds, before this start.
Init ==
  /\ host = NoSession
  /\ imported = {<<f, f>> : f \in OldLog}
  /\ wire = << >> /\ asks = << >>
  /\ nano = [open |-> FALSE, seed |-> 1, roast |-> "none", files |-> OldLog \cup Profile]
  /\ syncs = 0 /\ drops = 0 /\ resets = 0 /\ refused = 0

Idle == host.phase # "closed" /\ host.stage = "none"
Syncing == host.stage # "none"
KnownPaths == {p[1] : p \in imported}

-----------------------------------------------------------------------------
(* synchronize, as functions from a session to what it becomes.  Each also *)
(* returns the request it writes, if any.                                  *)

Sends(h, ask)   == [session |-> h, ask |-> ask, import |-> {}]
Quiet(h)        == Sends(h, << >>)
Asks(h, type)   == Sends(h, << [type |-> type] >>)
Drop            == Quiet(NoSession)

Ended(h) == [h EXCEPT !.trigger = "none", !.stage = "none", !.todo = {}, !.known = {}]

\* sync_failure_keeps_session.
Refusals == {"device_busy", "device_session_negotiating", "sassi_outcome_103"}

\* Faulty: a refused start-up run is retried without showing the Nano busy.
FailedRetries(h, trigger, reason) ==
  IF reason \notin Refusals THEN Drop
  ELSE Quiet([Ended(h) EXCEPT !.attempted = FALSE, !.waiting = TRUE, !.outcome = "refused"])

\* After a refusal the start-up path shows the Nano busy and tries again; the
\* manual path only keeps the session.  Any other failure drops it.
Failed(h, trigger, reason) ==
  IF reason \notin Refusals THEN Drop
  ELSE Quiet(IF trigger = "startup"
               THEN [Ended(h) EXCEPT !.attempted = FALSE, !.waiting = TRUE,
                                     !.busy = "locked", !.outcome = "refused"]
               ELSE [Ended(h) EXCEPT !.outcome = "refused"])

\* synchronize and the head of synchronize_run: the attempt counts as made before
\* anything is known about the Nano.
Begin(h, trigger) ==
  LET tried == [h EXCEPT !.attempted = TRUE]
  IN  IF h.phase # "ready" THEN Failed(tried, trigger, "device_session_negotiating")
      ELSE IF h.busy = "locked" THEN Failed(tried, trigger, "device_busy")
      ELSE Asks([tried EXCEPT !.trigger = trigger, !.stage = "logs"], "logs")

SyncDue(h) ==
  h.phase = "ready" /\ h.stage = "none" /\ ~h.attempted /\ h.busy # "locked" /\ ~h.waiting

\* Faulty: known paths are not read last.
BeforeByName(f, g, known) ==
  \/ f \in Profile /\ g \notin Profile
  \/ (f \in Profile <=> g \in Profile) /\ f < g

\* New paths before known ones, profiles before logs, then by name.
Before(f, g, known) ==
  \/ f \notin known /\ g \in known
  \/ /\ f \in known <=> g \in known
     /\ \/ f \in Profile /\ g \notin Profile
        \/ (f \in Profile <=> g \in Profile) /\ f < g

First(files, known) ==
  CHOOSE f \in files : \A g \in files \ {f} : Before(f, g, known)

\* Faulty: what is requested is not in the order in which replies are filed.
ReadOnUnsorted(h) ==
  IF h.todo = {} THEN Quiet([Ended(h) EXCEPT !.outcome = "done"])
  ELSE Sends(h, << [type |-> "read", file |-> First(h.todo, {})] >>)

\* The next file is requested, or the run is complete.
ReadOn(h) ==
  IF h.todo = {} THEN Quiet([Ended(h) EXCEPT !.outcome = "done"])
  ELSE Sends(h, << [type |-> "read", file |-> First(h.todo, h.known)] >>)

-----------------------------------------------------------------------------
(* handle_message.                                                         *)

\* A request is answered in the first phase, or again when a newer one arrives
\* before the acknowledgement; on a bridge not before the replay has settled.
Request(h, m) ==
  IF ~(h.phase = "handshake" \/ (h.phase = "time" /\ h.seed # << m.seed >>))
    THEN Quiet(h)
  ELSE IF ~h.settled THEN Quiet([h EXCEPT !.pending = << m >>])
  ELSE Sends([h EXCEPT !.pending = << >>, !.seed = << m.seed >>, !.phase = "time"],
             << [type |-> "time", seed |-> m.seed] >>)

Status(h, m) ==
  CASE h.phase = "status" ->
         Asks([h EXCEPT !.busy = m.lock, !.phase = "firmware"], "firmware")
    [] h.phase = "ready" ->
         Quiet([h EXCEPT !.busy = m.lock,
                         !.attempted = @ /\ ~(h.busy = "locked" /\ m.lock = "free")])
    [] OTHER -> Quiet(h)

Handle(h, m) ==
  CASE m.type = "request" -> Request(h, m)
    [] m.type = "time" /\ h.phase = "time" -> Asks([h EXCEPT !.phase = "status"], "status")
    [] m.type = "status" -> Status(h, m)
    [] m.type = "firmware" /\ h.phase = "firmware" -> Quiet([h EXCEPT !.phase = "ready"])
    [] m.type = "busy" -> Quiet([h EXCEPT !.busy = "locked", !.attempted = FALSE])
    [] m.type = "free" -> Quiet([h EXCEPT !.busy = "free", !.attempted = FALSE])
    [] m.type = "chunk" -> Quiet([h EXCEPT !.attempted = FALSE])
    [] m.type = "garbage" -> Drop
    [] OTHER -> Quiet(h)

\* poll_session is followed by the check whether a synchronisation is due.
Poll(h, m) ==
  LET polled == Handle(h, m)
  IN  IF SyncDue(polled.session) THEN Begin(polled.session, "startup") ELSE polled

-----------------------------------------------------------------------------
(* request_transfer and the loop of synchronize_run.  A reply of the kind  *)
(* asked for is accepted; its path is not compared with the one requested. *)

Asked(h) == IF h.stage = "files" THEN "file" ELSE "directory"

Listing(h, m) ==
  IF h.stage = "logs"
    THEN Asks([h EXCEPT !.stage = "profiles", !.todo = m.entries \cap Log], "profiles")
    ELSE ReadOn([h EXCEPT !.stage = "files", !.todo = @ \cup (m.entries \cap Profile),
                          !.known = KnownPaths])

\* One transaction imports the file under the path that was asked for.
Transferred(h, m) ==
  LET path == First(h.todo, h.known)
  IN  [ReadOn([h EXCEPT !.todo = @ \ {path}]) EXCEPT !.import = {<<path, m.file>>}]

Transfer(h, m) ==
  CASE m.type = "directory" /\ Asked(h) = "directory" -> Listing(h, m)
    [] m.type = "file" /\ Asked(h) = "file" -> Transferred(h, m)
    [] m.type = "refused" /\ m.kind = Asked(h) -> Failed(h, h.trigger, "sassi_outcome_103")
    [] m.type = "busy" -> Failed(h, h.trigger, "device_busy")
    [] m.type = "chunk" -> Quiet([h EXCEPT !.attempted = FALSE])
    [] m.type = "request" -> Failed(h, h.trigger, "device_restarted_during_transfer")
    [] m.type = "garbage" -> Failed(h, h.trigger, "protocol_invalidcrc")
    [] OTHER -> Quiet(h)

-----------------------------------------------------------------------------
(* The worker's turns.                                                     *)

\* What a turn leaves behind.  A dropped session takes its transport along.
Become(next, unread) ==
  /\ host' = next.session
  /\ imported' = {p \in imported : \A q \in next.import : p[1] # q[1]} \cup next.import
  /\ IF next.session.phase = "closed"
       THEN wire' = << >> /\ asks' = << >>
       ELSE wire' = unread /\ asks' = asks \o next.ask
  /\ refused' =
       IF host.trigger = "startup" /\ next.session.trigger = "none" /\ next.session.outcome = "refused"
         THEN refused + 1 ELSE refused

HasPending == host.phase = "handshake" /\ host.settled /\ host.pending # << >>

\* The request kept while the replay settled.
AnswerPending ==
  /\ HasPending
  /\ Become(Handle(host, host.pending[1]), wire)
  /\ UNCHANGED <<nano, bounds>>

Receive ==
  /\ wire # << >> /\ host.phase # "closed" /\ ~HasPending
  /\ Become(IF Syncing THEN Transfer(host, Head(wire)) ELSE Poll(host, Head(wire)),
            Tail(wire))
  /\ UNCHANGED <<nano, bounds>>

\* A poll that reads nothing.
StartDue ==
  /\ wire = << >> /\ SyncDue(host)
  /\ Become(Begin(host, "startup"), wire)
  /\ UNCHANGED <<nano, bounds>>

\* Every five seconds while the snapshot shows busy.
PollStatus ==
  /\ Idle /\ host.phase = "ready" /\ host.busy = "locked"
  /\ \A i \in DOMAIN asks : asks[i].type # "status"
  /\ \A i \in DOMAIN wire : wire[i].type # "status"
  /\ Become(Asks(host, "status"), wire)
  /\ UNCHANGED <<nano, bounds>>

\* The 750 ms of the replay window, and the 2 s before a retry, are over.
Settle ==
  /\ Idle /\ ~host.settled
  /\ host' = [host EXCEPT !.settled = TRUE]
  /\ UNCHANGED <<imported, wire, asks, nano, bounds, refused>>

RetryDue ==
  /\ Idle /\ host.waiting
  /\ host' = [host EXCEPT !.waiting = FALSE]
  /\ UNCHANGED <<imported, wire, asks, nano, bounds, refused>>

\* Command::Synchronize, handled between polls.
Synchronize ==
  /\ Idle /\ syncs < MaxSync
  /\ syncs' = syncs + 1
  /\ Become(Begin(host, "manual"), wire)
  /\ UNCHANGED <<nano, drops, resets>>

\* Ten seconds without the reply asked for: none is coming.
Timeout ==
  /\ Syncing /\ wire = << >> /\ asks = << >>
  /\ Become(Failed(host, host.trigger, "request_timeout"), wire)
  /\ UNCHANGED <<nano, bounds>>

\* Twelve seconds in one phase of the negotiation, because the Nano was reset.
NegotiationTimeout ==
  /\ host.phase \in {"status", "firmware"} /\ ~nano.open
  /\ Become(Drop, wire)
  /\ UNCHANGED <<nano, bounds>>

\* The transport fails, negotiation is slow, the operator refreshes a session that
\* is not ready, another bridge takes over.
Lose ==
  /\ host.phase # "closed" /\ drops < MaxDrops
  /\ drops' = drops + 1
  /\ Become(Drop, wire)
  /\ UNCHANGED <<nano, syncs, resets>>

Requests(seeds) == [i \in DOMAIN seeds |-> [type |-> "request", seed |-> seeds[i]]]

\* A new transport: USB, or a bridge that may have buffered requests of before.  The
\* seed of the Nano's current request is 1, that of an older one 0.
Connect ==
  /\ host.phase = "closed"
  /\ \E bridge \in BOOLEAN, replay \in {<< >>, << 0 >>, << 1 >>, << 0, 1 >>} :
       /\ replay # << >> => bridge
       /\ host' = [NoSession EXCEPT !.phase = "handshake", !.settled = ~bridge]
       /\ wire' = Requests(replay)
  /\ nano' = [nano EXCEPT !.open = FALSE, !.seed = 1]
  /\ UNCHANGED <<imported, asks, bounds, refused>>

Host ==
  \/ AnswerPending \/ Receive \/ StartDue \/ PollStatus \/ Settle \/ RetryDue
  \/ Timeout \/ NegotiationTimeout \/ Connect

-----------------------------------------------------------------------------
(* The Nano.                                                               *)

\* Requests repeat until the session is negotiated, slower than the answers.
NanoRequest ==
  /\ host.phase # "closed" /\ ~nano.open
  /\ asks = << >> /\ host.pending = << >>
  /\ \A i \in DOMAIN wire : wire[i].type # "request"
  /\ wire' = Append(wire, [type |-> "request", seed |-> nano.seed])
  /\ UNCHANGED <<host, imported, asks, nano, bounds, refused>>

Locked == nano.roast # "none"
Lock   == IF Locked THEN "locked" ELSE "free"

\* A time synchronisation under the seed of its last request opens the session.
Opens(q) == q.type = "time" /\ q.seed = nano.seed

ReplyTo(q) ==
  CASE Opens(q) -> << [type |-> "time"] >>
    [] q.type = "status" /\ nano.open -> << [type |-> "status", lock |-> Lock] >>
    [] q.type = "firmware" /\ nano.open -> << [type |-> "firmware"] >>
    [] q.type \in {"logs", "profiles"} /\ nano.open ->
         IF Locked THEN << [type |-> "refused", kind |-> "directory"] >>
         ELSE << [type |-> "directory",
                  entries |-> nano.files \cap (IF q.type = "logs" THEN Log ELSE Profile)] >>
    [] q.type = "read" /\ nano.open ->
         IF Locked THEN << [type |-> "refused", kind |-> "file"] >>
         ELSE IF q.file \in Damaged THEN << [type |-> "garbage"] >>
         ELSE << [type |-> "file", file |-> q.file] >>
    [] OTHER -> << >>

Serve ==
  /\ asks # << >>
  /\ wire' = wire \o ReplyTo(Head(asks))
  /\ asks' = Tail(asks)
  /\ nano' = [nano EXCEPT !.open = @ \/ Opens(Head(asks))]
  /\ UNCHANGED <<host, imported, bounds, refused>>

Says(message) == IF nano.open THEN Append(wire, [type |-> message]) ELSE wire

\* A roast begins, writes its log, and ends.  Messages take milliseconds and a roast
\* lasts minutes: when it ends, no transfer is pending and nothing but an answer to a
\* poll or a negotiation is on its way (timing).  Only the
\* notifications of its begin and end may be missed.
RoastBegins ==
  /\ ~Locked /\ nano.files # File
  /\ nano' = [nano EXCEPT !.roast = "begun"]
  /\ wire' \in {wire, Says("busy")}
  /\ refused' = 0
  /\ UNCHANGED <<host, imported, asks, bounds>>

RoastWrites ==
  /\ nano.roast = "begun"
  /\ \E f \in Log \ nano.files :
       /\ \A g \in Log \ nano.files : f <= g
       /\ nano' = [nano EXCEPT !.roast = "logged", !.files = @ \cup {f}]
  /\ wire' = Says("chunk")
  /\ UNCHANGED <<host, imported, asks, bounds, refused>>

RoastEnds ==
  /\ nano.roast = "logged"
  /\ \A i \in DOMAIN asks : asks[i].type \notin {"logs", "profiles", "read"}
  /\ \A i \in DOMAIN wire : wire[i].type \in {"request", "time", "status", "firmware"}
  /\ nano' = [nano EXCEPT !.roast = "none"]
  /\ wire' \in {wire, Says("free")}
  /\ UNCHANGED <<host, imported, asks, bounds, refused>>

NanoResets ==
  /\ nano.open /\ resets < MaxResets
  /\ resets' = resets + 1
  /\ nano' = [nano EXCEPT !.open = FALSE, !.roast = "none", !.seed = @ + 1]
  /\ asks' = << >>
  /\ UNCHANGED <<host, imported, wire, syncs, drops, refused>>

Next ==
  \/ Host \/ Synchronize \/ Lose
  \/ NanoRequest \/ Serve \/ RoastBegins \/ RoastWrites \/ RoastEnds \/ NanoResets

Spec == Init /\ [][Next]_vars

\* The worker keeps turning, timers expire, the Nano asks and answers, and a roast
\* that has begun ends.
Fairness ==
  /\ WF_vars(AnswerPending \/ Receive \/ StartDue \/ Timeout \/ Connect)
  /\ WF_vars(NegotiationTimeout)
  /\ WF_vars(PollStatus) /\ WF_vars(Settle) /\ WF_vars(RetryDue)
  /\ WF_vars(NanoRequest) /\ WF_vars(Serve)
  /\ WF_vars(RoastWrites) /\ WF_vars(RoastEnds)

FairSpec == Spec /\ Fairness

-----------------------------------------------------------------------------
(* Properties.                                                             *)

Message ==
  [type : {"request"}, seed : Nat]
    \cup [type : {"time", "firmware", "busy", "free", "chunk", "garbage"}]
    \cup [type : {"status"}, lock : {"locked", "free"}]
    \cup [type : {"directory"}, entries : SUBSET File]
    \cup [type : {"file"}, file : File]
    \cup [type : {"refused"}, kind : {"directory", "file"}]

Ask ==
  [type : {"status", "firmware", "logs", "profiles"}]
    \cup [type : {"time"}, seed : Nat] \cup [type : {"read"}, file : File]

Session ==
  [phase : Phases, settled : BOOLEAN, pending : Seq([type : {"request"}, seed : Nat]),
   seed : Seq(Nat), attempted : BOOLEAN, waiting : BOOLEAN,
   busy : {"unknown", "locked", "free"}, trigger : {"none", "startup", "manual"},
   stage : Stages, todo : SUBSET File, known : SUBSET File,
   outcome : {"none", "done", "refused"}]

TypeOK ==
  /\ host \in Session
  /\ imported \subseteq File \X File
  /\ \A i \in DOMAIN wire : wire[i] \in Message
  /\ \A i \in DOMAIN asks : asks[i] \in Ask
  /\ nano \in [open : BOOLEAN, seed : Nat, roast : {"none", "begun", "logged"},
               files : SUBSET File]
  /\ syncs \in Nat /\ drops \in Nat /\ resets \in Nat /\ refused \in Nat

\* What is imported under a path is the content of that path, although a reply is
\* accepted without comparing its path and aborted requests leave replies behind.
Attributed == \A p \in imported : p[1] = p[2]

\* A busy Nano is left alone: at most one start-up run is refused, and recorded as
\* failed, in a roast, however many notifications were missed.
RefusedOnce == refused <= 1

\* A manual synchronisation that was refused has used up the session's attempt,
\* and nothing shows that the Nano is busy.
Muted == host.attempted /\ host.outcome = "refused" /\ host.busy # "locked"

\* The Nano waits for an answer to its request, and the worker ignores requests.
Deaf == host.phase = "ready" /\ ~nano.open

Evidence(f) == f \in nano.files /\ f \notin Damaged

\* Every file on the Nano is imported in the end: through roasts, missed unlock
\* notifications, dropped transports, and an old file whose transfer always fails.
CatchesUp ==
  \A f \in File : Evidence(f) ~> f \in KnownPaths \/ Muted \/ Deaf

=============================================================================
