------------------------------- MODULE NanoSync ------------------------------
(***************************************************************************)
(* The companion synchronises a Nano: its device manager                   *)
(* (apps/companion/src/device/device-manager.ts) drives a session          *)
(* (RoasterSession) over a child process that owns the serial port         *)
(* (apps/serial-bridge/src/main.rs, spoken to by rust-serial-transport.ts) *)
(* and imports the logs it reads (KlogImport).                             *)
(*                                                                         *)
(* The companion is one JavaScript thread: a host step is one macrotask,   *)
(* or one of the continuations the module names.  A chunk of the child's   *)
(* output holds one line, a data line one frame.  The child's main thread  *)
(* performs its commands in order and answers each; its reader thread      *)
(* writes data lines of its own accord, so the Nano's answer may be read   *)
(* before the answer to the write.                                         *)
(***************************************************************************)
EXTENDS RoasterSession, KlogImport, FiniteSets

CONSTANTS
  Log,          \* paths of the logs, numbers in the order of their names
  FirstFiles,   \* what the Nano holds at first: a function from some logs to contents
  Written,      \* the logs roasts write: pairs of a path and a content
  Chunks,       \* how many chunks the listing of a directory, and a log, is sent in
  MaxLists,     \* bound: lists of ports
  MaxFaults,    \* bound: faults of the port, the child and the Nano, a stop
  MaxEdits,     \* bound: logs written and locks taken by roasts
  MaxSyncs      \* bound: synchronisations asked for over HTTP

ASSUME NanoSyncAssumption ==
  /\ Log \subseteq Nat /\ DOMAIN FirstFiles \subseteq Log
  /\ \A p \in DOMAIN FirstFiles : FirstFiles[p] \in Content
  /\ Written \subseteq Log \X Content
  /\ DOMAIN Chunks = {"logs", "profiles", "log"}
  /\ \A k \in DOMAIN Chunks : Chunks[k] \in Nat \ {0}
  /\ {MaxLists, MaxFaults, MaxEdits, MaxSyncs} \subseteq Nat

VARIABLES
  s,         \* the session
  m,         \* the manager: its snapshot, its synchronisation, its scan
  lines,     \* output of the child the companion has not read
  bridge,    \* the child: see FirstBridge
  asks,      \* frames on their way to the Nano
  nano,      \* the Nano, its files and the transfer it is sending
  db,        \* the database
  used,      \* bounds
  crossed    \* history: requests that were reported as failed and reached the Nano

vars == <<s, m, lines, bridge, asks, nano, db, used, crossed>>

-----------------------------------------------------------------------------

FirstManager ==
  [conn |-> "disconnected", attempted |-> FALSE, sync |-> "idle", stage |-> "none",
   logs |-> {}, of |-> "none", scan |-> "none", opening |-> 0, behind |-> FALSE,
   stopped |-> FALSE]

\* generation: of its registry of ports.  sid: the session whose port works, or 0; last:
\* the last one numbered.  cmds: lines of its input, done: what came of writing the first.
FirstBridge ==
  [live |-> TRUE, generation |-> 0, sid |-> 0, last |-> 0, cmds |-> << >>, done |-> "no"]

FirstNano ==
  [plugged |-> TRUE, open |-> FALSE, seed |-> 1, locked |-> FALSE, files |-> FirstFiles,
   sending |-> << >>, held |-> {<<p, FirstFiles[p]>> : p \in DOMAIN FirstFiles}]

Init ==
  /\ s = FirstSession /\ m = FirstManager
  /\ lines = << >> /\ asks = << >>
  /\ bridge = FirstBridge /\ nano = FirstNano
  /\ db = EmptyDatabase
  /\ used = [faults |-> 0, edits |-> 0, syncs |-> 0, garbled |-> FALSE]
  /\ crossed = 0

-----------------------------------------------------------------------------
(* The manager.                                                            *)

\* synchronize: one at a time.  It throws, and leaves no trace, unless connected.
Synchronize(h, mgr) ==
  IF mgr.stopped \/ mgr.stage # "none" \/ h.conn # "connected" THEN << h, mgr >>
  ELSE << Transfer(h, "directory", "logs"), [mgr EXCEPT !.sync = "syncing", !.stage = "logs"] >>

Due(h, mgr) ==
  h.conn = "connected" /\ h.status /\ h.firmware /\ h.busy # "locked" /\ ~mgr.attempted

\* #applySession, which the session calls with every snapshot.
Apply(h, mgr) ==
  LET known == [mgr EXCEPT !.conn = h.conn, !.attempted = @ /\ h.conn = "connected"]
  IN  IF ~h.told THEN << h, mgr >>
      ELSE IF Due(h, known) THEN Synchronize(h, [known EXCEPT !.attempted = TRUE])
      ELSE << h, known >>

\* The end of a host step: the manager hears of it, and the child of its commands;
\* with no child a command throws at once.
Leaves(h, mgr) ==
  LET both == Apply(h, mgr)
  IN  /\ s' = [both[1] EXCEPT !.told = FALSE, !.out = << >>]
      /\ m' = both[2]
      /\ bridge' = [bridge EXCEPT !.cmds = IF bridge.live THEN @ \o both[1].out ELSE @]

Waiting(reason) == reason \in {"device_busy", "sassi_outcome_103"}

\* The catch of #synchronize.
SyncFailed(h, mgr, reason) ==
  << h, [mgr EXCEPT !.stage = "none", !.logs = {}, !.of = "none",
                    !.attempted = @ /\ ~Waiting(reason),
                    !.sync = IF Waiting(reason) THEN "idle" ELSE "failed"] >>

\* The logs of the listing, in order of their names; then the run is complete.
NextLog(h, mgr) ==
  IF mgr.logs = {}
    THEN << h, [mgr EXCEPT !.stage = "none", !.of = "none", !.sync = "ready"] >>
    ELSE << Transfer(h, "file", CHOOSE p \in mgr.logs : \A q \in mgr.logs : p <= q),
            [mgr EXCEPT !.stage = "files"] >>

\* Faulty: a log that cannot be read is skipped, and the session used on.
ResumedSkipping(h, mgr, outcome) ==
  CASE ~outcome.ok /\ mgr.stage # "files" -> SyncFailed(h, mgr, outcome.reason)
    [] ~outcome.ok /\ mgr.stage = "files" ->
         NextLog(h, [mgr EXCEPT !.logs = @ \ {CHOOSE p \in @ : \A q \in @ : p <= q}])
    [] outcome.ok /\ mgr.stage = "logs" ->
         << Transfer(h, "directory", "profiles"),
            [mgr EXCEPT !.stage = "profiles", !.logs = outcome.value.data[1].entries,
                        !.of = outcome.value.data[1].path] >>
    [] outcome.ok /\ mgr.stage = "profiles" -> NextLog(h, mgr)
    [] OTHER -> NextLog(h, [mgr EXCEPT !.logs = @ \ {outcome.value.path}])

\* #synchronize, resumed with what its request was settled with.
Resumed(h, mgr, outcome) ==
  CASE ~outcome.ok -> SyncFailed(h, mgr, outcome.reason)
    [] outcome.ok /\ mgr.stage = "logs" ->
         << Transfer(h, "directory", "profiles"),
            [mgr EXCEPT !.stage = "profiles", !.logs = outcome.value.data[1].entries,
                        !.of = outcome.value.data[1].path] >>
    [] outcome.ok /\ mgr.stage = "profiles" -> NextLog(h, mgr)
    [] OTHER -> NextLog(h, [mgr EXCEPT !.logs = @ \ {outcome.value.path}])

\* A rejected log is counted; any other failure of the import ends the run.
Resume ==
  LET outcome  == s.settled[1]
      reading  == outcome.ok /\ m.stage = "files"
      imported == IF reading THEN Import(db, outcome.value.data[1].content, outcome.value.path)
                             ELSE [db |-> db, outcome |-> "known"]
      idle     == [s EXCEPT !.settled = Silence]
      both     == IF imported.outcome = "duplicate"
                    THEN SyncFailed(idle, m, "device_sync_failed")
                    ELSE Resumed(idle, m, outcome)
  IN  /\ m.stage # "none" /\ s.settled # Silence /\ ~s.writing
      /\ db' = imported.db
      /\ Leaves(both[1], both[2])
      /\ UNCHANGED <<lines, asks, nano, used, crossed>>

\* Continuations run before the next macrotask.
Between == ~(m.stage # "none" /\ s.settled # Silence /\ ~s.writing)
Settled == Between /\ m.opening = 0

\* POST /device/synchronize; without a connection, or during another, it is nothing.
AskToSync ==
  /\ Settled /\ used.syncs < MaxSyncs
  /\ s.conn = "connected" /\ m.stage = "none"
  /\ used' = [used EXCEPT !.syncs = @ + 1]
  /\ LET both == Synchronize(s, m) IN Leaves(both[1], both[2])
  /\ UNCHANGED <<lines, asks, nano, db, crossed>>

\* Faulty: a scan begins though another is in flight.
ScanAgain ==
  /\ Settled /\ ~m.stopped /\ m.conn = "disconnected"
  /\ bridge.live /\ bridge.generation < MaxLists
  /\ Leaves(Sends(s, "list", "listed", None), [m EXCEPT !.scan = "listing"])
  /\ UNCHANGED <<lines, asks, nano, db, used, crossed>>

\* #scan, every 1.5 s, up to the answer of list.  Without a child, list throws.
Scan ==
  /\ Settled /\ m.scan = "none" /\ ~m.stopped /\ m.conn = "disconnected"
  /\ bridge.live /\ bridge.generation < MaxLists
  /\ Leaves(Sends(s, "list", "listed", None), [m EXCEPT !.scan = "listing"])
  /\ UNCHANGED <<lines, asks, nano, db, used, crossed>>

ScanFailed(mgr) == [mgr EXCEPT !.scan = "none", !.conn = "disconnected"]

\* No Nano, one to connect to, or several, which is refused as a failure is.
Listed(list) ==
  CASE list.found = "one" ->
         Leaves(Connect(s, list.generation), [m EXCEPT !.scan = "opening", !.behind = FALSE])
    [] list.found = "none" -> Leaves(s, [ScanFailed(m) EXCEPT !.attempted = FALSE, !.sync = "idle"])
    [] OTHER -> Leaves(s, ScanFailed(m))

-----------------------------------------------------------------------------
(* The transport: lines of the child, and time.                            *)

Fault == used.faults < MaxFaults /\ used' = [used EXCEPT !.faults = @ + 1]

Continue(then, ok) ==
  IF then \in {"listed", "opened"} THEN Leaves(s, ScanFailed(m))
  ELSE Leaves(Answered(s, then, ok), m)

Response(line) ==
  CASE line.then = "listed" /\ line.ok -> Listed(line.value)
    [] line.then = "opened" /\ line.ok -> Leaves(s, [m EXCEPT !.opening = line.sid])
    [] OTHER -> Continue(line.then, line.ok)

\* A line numbered before open() has returned is out of sequence: it is dropped, and
\* so is the session, with the next one.
Data(line) ==
  IF line.sid = m.opening THEN Leaves(s, [m EXCEPT !.behind = TRUE])
  ELSE IF m.behind THEN Leaves(Disconnected(s, line.sid), m)
  ELSE Leaves(IF line.frame = None THEN Disconnected(s, line.sid)
              ELSE Received(s, line.sid, line.frame), m)

\* #handleMessage of the transport.
ReadLine ==
  /\ Between /\ lines # << >>
  /\ m.opening # 0 => Head(lines).type = "data"
  /\ lines' = Tail(lines)
  /\ IF Head(lines).type = "response" THEN Response(Head(lines)) ELSE Data(Head(lines))
  /\ UNCHANGED <<asks, nano, db, used, crossed>>

\* open() returns, and connect() with it.
OpenReturns ==
  /\ Between /\ m.opening # 0
  /\ Leaves(Opened(s, m.opening), [m EXCEPT !.opening = 0, !.scan = "none"])
  /\ UNCHANGED <<lines, asks, nano, db, used, crossed>>

\* Faulty: a request that is late is given up, and the session used on.
RequestTimeoutKeeps ==
  /\ Settled /\ s.timer
  /\ IF lines = << >> /\ bridge.cmds = << >> THEN UNCHANGED used ELSE Fault
  /\ Leaves([Reject(s, "failed") EXCEPT !.pending = None, !.timer = FALSE], m)
  /\ UNCHANGED <<lines, asks, nano, db, crossed>>

\* Ten seconds since the timer of the request was armed; racing what the child has
\* still to say is a fault.
RequestTimeout ==
  /\ Settled /\ s.timer
  /\ IF lines = << >> /\ bridge.cmds = << >> THEN UNCHANGED used ELSE Fault
  /\ Leaves(Fail(s), m)
  /\ UNCHANGED <<lines, asks, nano, db, crossed>>

\* Ten seconds since a command, whose answer will be ignored.  The request that
\* wrote it was given up before: its timer was armed first (timing).
CommandTimeout ==
  LET head == Head(bridge.cmds)
      idle == [bridge EXCEPT !.cmds[1].then = "nothing"]
  IN  /\ Settled /\ bridge.cmds # << >> /\ used.faults < MaxFaults
      /\ head.then # "nothing" /\ lines = << >>
      /\ head.op = "write" => ~s.timer \/ Len(bridge.cmds) > 1
      /\ used' = [used EXCEPT !.faults = @ + 1]
      /\ LET both == IF head.then \in {"listed", "opened"} THEN << s, ScanFailed(m) >>
                     ELSE << Answered(s, head.then, FALSE), m >>
             after == Apply(both[1], both[2])
         IN  /\ s' = [after[1] EXCEPT !.told = FALSE, !.out = << >>]
             /\ m' = after[2]
             /\ bridge' = [idle EXCEPT !.cmds = @ \o after[1].out]
      /\ UNCHANGED <<lines, asks, nano, db, crossed>>

\* A write of a handler has not been answered.
Writing ==
  \/ \E i \in DOMAIN bridge.cmds : bridge.cmds[i].then \in {"rearm", "handler"}
  \/ \E i \in DOMAIN lines : lines[i].type = "response" /\ lines[i].then \in {"rearm", "handler"}

\* #handleExit: nothing restarts the child.  A session hears that its port has gone, and
\* whoever waits for an answer that it failed.
BridgeExits ==
  LET over   == IF s.sid # 0 \/ Writing THEN Fail(s) ELSE s
      failed == IF s.writing THEN RequestFailed(over) ELSE over
      both   == Apply(failed, m)
  IN  /\ Settled /\ bridge.live
      /\ \/ used.faults < MaxFaults /\ used' = [used EXCEPT !.faults = @ + 1]
         \/ bridge.cmds # << >> /\ Head(bridge.cmds).op = "shutdown" /\ UNCHANGED used
      /\ s' = [both[1] EXCEPT !.told = FALSE, !.out = << >>]
      /\ m' = IF m.scan = "none" THEN both[2] ELSE ScanFailed(both[2])
      /\ bridge' = [bridge EXCEPT !.live = FALSE, !.sid = 0, !.cmds = << >>, !.done = "no"]
      /\ lines' = << >> /\ asks' = << >>
      /\ UNCHANGED <<nano, db, crossed>>

\* stop: dispose of the session, then shut the child down.
Stop ==
  /\ Settled /\ ~m.stopped /\ Fault
  /\ Leaves(Sends(Close(s), "shutdown", "nothing", None), [m EXCEPT !.stopped = TRUE])
  /\ UNCHANGED <<lines, asks, nano, db, crossed>>

Host == Resume \/ ReadLine \/ OpenReturns \/ Scan

-----------------------------------------------------------------------------
(* The child (main.rs).                                                    *)

Current == Head(bridge.cmds)
CanPerform == bridge.live /\ bridge.cmds # << >> /\ bridge.done = "no"

\* emit_ok, emit_error.  An answer nobody waits for any more is ignored by its id.
Answer(ok, value, sid) ==
  IF Current.then = "nothing" THEN lines
  ELSE Append(lines, [type |-> "response", then |-> Current.then, ok |-> ok,
                      value |-> value, sid |-> sid])

\* write_payload: it reaches the port, and is answered later; or fails before or after
\* that.  Without that session, or a port that works, it fails.
PerformWrite ==
  /\ CanPerform /\ Current.op = "write"
  /\ \E done \in {"ok", "error"}, reaches \in BOOLEAN :
       /\ done = "ok" => reaches = (Current.sid = bridge.sid)
       /\ reaches => Current.sid = bridge.sid
       /\ IF done = "error" /\ Current.sid = bridge.sid THEN Fault ELSE UNCHANGED used
       /\ bridge' = [bridge EXCEPT !.done = IF Current.sid = bridge.sid THEN done ELSE "error"]
       /\ asks' = IF reaches THEN Append(asks, Current.frame) ELSE asks
       /\ crossed' = IF reaches /\ done = "error" /\ Current.then = "request"
                       THEN crossed + 1 ELSE crossed
  /\ UNCHANGED <<s, m, lines, nano, db>>

AnswerWrite ==
  /\ bridge.live /\ bridge.done # "no"
  /\ lines' = Answer(bridge.done = "ok", "none", 0)
  /\ bridge' = [bridge EXCEPT !.cmds = Tail(@), !.done = "no"]
  /\ UNCHANGED <<s, m, asks, nano, db, used, crossed>>

\* A list is a new registry, of no Nano, of one or of it and another; or there is none,
\* and the old registry stays.
Lists(found) ==
  LET generation == bridge.generation + 1
  IN  /\ lines' = Answer(TRUE, [found |-> found, generation |-> generation], 0)
      /\ bridge' = [bridge EXCEPT !.cmds = Tail(@), !.generation = generation]

PerformList ==
  /\ CanPerform /\ Current.op = "list"
  /\ \/ Lists(IF nano.plugged THEN "one" ELSE "none") /\ UNCHANGED used
     \/ nano.plugged /\ Lists("several") /\ Fault
     \/ /\ lines' = Answer(FALSE, "none", 0) /\ Fault
        /\ bridge' = [bridge EXCEPT !.cmds = Tail(@)]
  /\ UNCHANGED <<s, m, asks, nano, db, crossed>>

\* The session before is closed, whatever becomes of the port.  A port of another list is
\* refused; one that has gone, or does not open, has used up a number.  The Nano of one
\* that opens begins to negotiate.
Stale == Current.frame.generation # bridge.generation

PerformOpen ==
  LET next == bridge.last + 1 IN
  /\ CanPerform /\ Current.op = "open"
  /\ \/ /\ ~Stale /\ nano.plugged /\ UNCHANGED used
        /\ lines' = Answer(TRUE, "none", next)
        /\ bridge' = [bridge EXCEPT !.cmds = Tail(@), !.last = next, !.sid = next]
        /\ nano' = [nano EXCEPT !.open = FALSE, !.sending = << >>]
        /\ asks' = << >>
     \/ /\ IF ~Stale /\ nano.plugged THEN Fault ELSE UNCHANGED used
        /\ lines' = Answer(FALSE, "none", 0)
        /\ bridge' = [bridge EXCEPT !.cmds = Tail(@), !.sid = 0,
                                    !.last = IF Stale THEN @ ELSE next]
        /\ UNCHANGED <<nano, asks>>
  /\ UNCHANGED <<s, m, db, crossed>>

\* Of another session it is refused, and nobody minds.
PerformClose ==
  /\ CanPerform /\ Current.op = "close"
  /\ bridge' = [bridge EXCEPT !.cmds = Tail(@),
                              !.sid = IF Current.sid = @ THEN 0 ELSE @]
  /\ UNCHANGED <<s, m, lines, asks, nano, db, used, crossed>>

Child == PerformWrite \/ AnswerWrite \/ PerformList \/ PerformOpen \/ PerformClose

-----------------------------------------------------------------------------
(* The Nano.                                                               *)

\* What it transmits becomes a data line of the session that is open (the reader thread).
Transmits(frame) ==
  lines' = IF bridge.sid = 0 THEN lines
           ELSE Append(lines, [type |-> "data", sid |-> bridge.sid, frame |-> frame])

Frame(type) == [type |-> type, seed |-> nano.seed]
ChunksOf(kind, data) == IF kind = "file" THEN Chunks.log ELSE Chunks[data.path]
ChunkOf(kind, n, data) ==
  [type |-> "chunk", seed |-> nano.seed, kind |-> kind, outcome |-> 0, seq |-> n,
   final |-> n = ChunksOf(kind, data), malformed |-> FALSE, data |-> data]

NanoRequest ==
  /\ nano.plugged /\ ~nano.open /\ bridge.sid # 0 /\ lines = << >> /\ asks = << >>
  /\ Transmits([type |-> "request", seed |-> nano.seed, supported |-> TRUE])
  /\ UNCHANGED <<s, m, bridge, asks, nano, db, used, crossed>>

Listing(path) ==
  [path |-> path, entries |-> IF path = "logs" THEN DOMAIN nano.files ELSE {}]
FileData(path) == [path |-> path, content |-> nano.files[path]]

Hears(q) == q.seed = nano.seed /\ (nano.open \/ q.type = "time")

ServeTime(q) ==
  /\ q.type = "time" /\ UNCHANGED used
  /\ Transmits([type |-> "time", seed |-> q.seed, at |-> q.at])
  /\ nano' = [nano EXCEPT !.open = TRUE]

ServeInfo(q) ==
  /\ q.type = "info" /\ UNCHANGED <<nano, used>>
  /\ Transmits([type |-> "info", seed |-> q.seed, code |-> q.code,
                value |-> IF nano.locked THEN "locked" ELSE "free"])

\* A request is answered with its first chunk, and gives up the transfer before it.
SendFrom(kind, n, data) ==
  /\ Transmits(ChunkOf(kind, n, data))
  /\ nano' = [nano EXCEPT !.sending = IF n = ChunksOf(kind, data) THEN << >>
                                      ELSE << [kind |-> kind, seq |-> n, data |-> data] >>]

ServeTransfer(q) ==
  LET data == IF q.type = "directory" THEN Listing(q.path) ELSE FileData(q.path) IN
  /\ q.type \in {"directory", "file"}
  /\ \/ /\ nano.locked /\ UNCHANGED <<nano, used>>
        /\ Transmits([ChunkOf(q.type, 0, data) EXCEPT !.outcome = 103])
     \/ ~nano.locked /\ SendFrom(q.type, 1, data) /\ UNCHANGED used
     \/ /\ ~nano.locked /\ ChunkOf(q.type, 1, data).final /\ q.type = "directory"
        /\ used.faults < MaxFaults
        /\ used' = [used EXCEPT !.faults = @ + 1, !.garbled = TRUE]
        /\ Transmits([ChunkOf(q.type, 1, data) EXCEPT !.malformed = TRUE]) /\ UNCHANGED nano

\* Each acknowledgement brings the next chunk.
ServeAck(q) ==
  /\ q.type = "ack" /\ UNCHANGED used
  /\ IF nano.sending = << >> THEN UNCHANGED <<nano, lines>>
     ELSE LET c == nano.sending[1] IN SendFrom(c.kind, c.seq + 1, c.data)

Serve ==
  /\ nano.plugged /\ asks # << >>
  /\ asks' = Tail(asks)
  /\ IF Hears(Head(asks))
       THEN ServeTime(Head(asks)) \/ ServeInfo(Head(asks)) \/ ServeTransfer(Head(asks)) \/ ServeAck(Head(asks))
       ELSE UNCHANGED <<nano, lines, used>>
  /\ UNCHANGED <<s, m, bridge, db, crossed>>

\* A roast locks the file system, writes a log, and unlocks it.
Notifies(value) ==
  IF nano.open THEN Transmits([type |-> "notice", seed |-> nano.seed, value |-> value])
  ELSE UNCHANGED lines

Roast ==
  /\ nano.plugged /\ ~nano.locked /\ used.edits < MaxEdits
  /\ used' = [used EXCEPT !.edits = @ + 1]
  /\ nano' = [nano EXCEPT !.locked = TRUE]
  /\ Notifies("locked")
  /\ UNCHANGED <<s, m, bridge, asks, db, crossed>>

RoastEnds ==
  /\ nano.plugged /\ nano.locked
  /\ \E w \in Written :
       nano' = [nano EXCEPT !.locked = FALSE, !.held = @ \cup {w},
                  !.files = [p \in DOMAIN @ \cup {w[1]} |-> IF p = w[1] THEN w[2] ELSE @[p]]]
  /\ Notifies("free")
  /\ UNCHANGED <<s, m, bridge, asks, db, used, crossed>>

\* A frame is damaged, the Nano restarts under another seed, or its cable is pulled: the
\* reader says so and ends, and what is written to the session fails from then on.
Damage ==
  /\ nano.plugged /\ bridge.sid # 0 /\ Fault
  /\ Transmits(Frame("damaged"))
  /\ UNCHANGED <<s, m, bridge, asks, nano, db, crossed>>

Restart ==
  /\ nano.plugged /\ nano.open /\ Fault
  /\ nano' = [nano EXCEPT !.open = FALSE, !.seed = 3 - @, !.locked = FALSE, !.sending = << >>]
  /\ asks' = << >>
  /\ UNCHANGED <<s, m, lines, bridge, db, crossed>>

Unplug ==
  /\ nano.plugged /\ Fault
  /\ nano' = [nano EXCEPT !.plugged = FALSE, !.open = FALSE, !.sending = << >>]
  /\ Transmits(None)
  /\ bridge' = [bridge EXCEPT !.sid = 0]
  /\ asks' = << >>
  /\ UNCHANGED <<s, m, db, crossed>>

Plug ==
  /\ ~nano.plugged
  /\ nano' = [nano EXCEPT !.plugged = TRUE]
  /\ UNCHANGED <<s, m, lines, bridge, asks, db, used, crossed>>

Next ==
  \/ Host \/ AskToSync \/ Stop \/ RequestTimeout \/ CommandTimeout \/ BridgeExits
  \/ Child \/ NanoRequest \/ Serve \/ Roast \/ RoastEnds
  \/ Damage \/ Restart \/ Unplug \/ Plug

Spec == Init /\ [][Next]_vars

\* The event loop turns, an armed timer expires even if lines keep
\* coming, the child works through its commands.
Fairness ==
  /\ WF_vars(Host) /\ SF_vars(RequestTimeout) /\ WF_vars(Child)

FairSpec == Spec /\ Fairness

-----------------------------------------------------------------------------
(* Properties.                                                             *)

TypeOK ==
  /\ s.conn \in {"disconnected", "reconnecting", "connected"}
  /\ s.busy \in {"unknown", "locked", "free"} /\ s.sid \in Nat
  /\ s.pending.kind \in {"none", "time", "info", "directory", "file"}
  /\ {s.status, s.firmware, s.timer, s.writing} \subseteq BOOLEAN
  /\ Len(s.settled) <= 1 /\ s.out = << >> /\ ~s.told /\ crossed \in Nat
  /\ m \in [conn : {"disconnected", "reconnecting", "connected"}, attempted : BOOLEAN,
             sync : {"idle", "syncing", "ready", "failed"},
             stage : {"none", "logs", "profiles", "files"}, logs : SUBSET Log,
             of : {"none", "logs", "profiles"}, scan : {"none", "listing", "opening"},
             opening : Nat, behind : BOOLEAN, stopped : BOOLEAN]

\* What is filed under a path is what the Nano held there at some time, although the
\* path of an answer is not compared with the request: after a request given up, a
\* timeout or a reconnection no late chunk ends up in another file.  Three requests
\* reported as failed that had reached the Nano are needed for that: two listings
\* whose late answers stand for those of a later run, and a log requested after them.
Attributed == crossed < 3 => \A f \in db.files : <<f.path, f.sha>> \in nano.held

\* The synchronisation works on the listing it asked for, unless a request reported
\* as failed had reached the Nano: its answer is taken for that of the next one.
ListingIsOwn == m.of = "profiles" => crossed > 0

\* No port is opened by its place in another list than that it was found in (that would
\* be another device): none is listed anew between a list and the opening of what it
\* found, though lists and openings are given up and tried again.
OpensCurrent == bridge.cmds # << >> /\ Current.op = "open" => ~Stale

Syncing == m.stage # "none"

\* parseDirectory threw: nothing will ever settle the promise, and as there is one
\* synchronisation at a time there will be no other.
Hung == Syncing /\ used.garbled /\ s.settled = Silence /\ ~s.writing /\ ~IsTransfer(s.pending)

\* A synchronisation that has begun ends, whatever becomes of the port, the child, the
\* Nano and the session, unless a malformed listing has hung it.
SyncEnds == Syncing ~> ~Syncing \/ Hung

=============================================================================
