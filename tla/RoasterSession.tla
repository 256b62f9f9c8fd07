---------------------------- MODULE RoasterSession ---------------------------
(***************************************************************************)
(* The companion's session with a Nano                                     *)
(* (apps/companion/src/device/roaster-session.ts), as functions from a     *)
(* session to the session one of its methods leaves.                       *)
(*                                                                         *)
(* A method runs to its first await.  What it asks of the bridge is        *)
(* appended to .out with a name, .then, for the code after the await;      *)
(* Answered is that code.  .told says that the manager's onChange ran.     *)
(***************************************************************************)
EXTENDS Naturals, Sequences

None == [kind |-> "none"]
Silence == << >>

\* sid 0: no session.  seed 0: none negotiated, in the session and in its decoder.
\* settled: what the promise of the last transfer became, until the caller resumes;
\* writing: the caller still awaits the write of its request.
FirstSession ==
  [conn |-> "disconnected", status |-> FALSE, firmware |-> FALSE, busy |-> "unknown",
   sid |-> 0, seed |-> 0, pending |-> None, timer |-> FALSE,
   settled |-> Silence, writing |-> FALSE, told |-> FALSE, out |-> << >>]

IsTransfer(p) == p.kind \in {"directory", "file"}
Rejected(reason) == << [ok |-> FALSE, reason |-> reason] >>
Resolved(value)  == << [ok |-> TRUE, value |-> value] >>

Command(op, sid, then, frame) == [op |-> op, sid |-> sid, then |-> then, frame |-> frame]

Sends(s, op, then, frame) ==
  [s EXCEPT !.out = Append(@, Command(op, s.sid, then, frame))]

Reject(s, reason) ==
  IF IsTransfer(s.pending) THEN [s EXCEPT !.settled = Rejected(reason)] ELSE s

Hangup(s) == IF s.sid = 0 THEN s ELSE Sends(s, "close", "nothing", None)

\* Faulty: the caller of a transfer is not told.
FailSilently(s) ==
  [Hangup(s) EXCEPT !.sid = 0, !.seed = 0, !.pending = None, !.timer = FALSE,
                    !.conn = "disconnected", !.status = FALSE, !.busy = "unknown",
                    !.told = TRUE]

\* #fail.  The port is closed without waiting for it.
Fail(s) ==
  LET closing == Hangup(Reject(s, "failed"))
  IN  [closing EXCEPT !.sid = 0, !.seed = 0, !.pending = None, !.timer = FALSE,
                      !.conn = "disconnected", !.status = FALSE, !.busy = "unknown",
                      !.told = TRUE]

\* close, for dispose: the snapshot stays as it is.
Close(s) ==
  [Hangup(Reject(s, "serial_session_closed")) EXCEPT !.sid = 0, !.pending = None, !.timer = FALSE]

\* A port, by the list it was found in.
Candidate(generation) == [kind |-> "candidate", generation |-> generation]

\* connect, up to the answer of open.
Connect(s, generation) ==
  [Sends([Close(s) EXCEPT !.seed = 0], "open", "opened", Candidate(generation)) EXCEPT
     !.conn = "reconnecting", !.status = FALSE, !.firmware = FALSE,
     !.busy = "unknown", !.told = TRUE]

\* The end of connect: the session is known, and the Nano has ten seconds.
Opened(s, sid) == [s EXCEPT !.sid = sid, !.timer = TRUE]

-----------------------------------------------------------------------------
(* Requests of the caller.                                                 *)

\* listDirectory and readFile.
Transfer(s, kind, path) ==
  CASE s.conn # "connected" \/ s.sid = 0 \/ s.seed = 0 ->
         [s EXCEPT !.settled = Rejected("session_not_ready")]
    [] s.pending # None -> [s EXCEPT !.settled = Rejected("session_command_in_flight")]
    [] s.busy = "locked" -> [s EXCEPT !.settled = Rejected("device_busy")]
    [] OTHER ->
         Sends([s EXCEPT !.pending = [kind |-> kind, path |-> path, next |-> 1, got |-> << >>],
                         !.timer = TRUE, !.writing = TRUE, !.settled = Silence],
               "write", "request", [type |-> kind, path |-> path, seed |-> s.seed])

\* A time synchronisation or an information request, sent by a handler.
Ask(s, pending, frame) ==
  Sends([s EXCEPT !.pending = pending, !.timer = TRUE], "write", "handler", frame)

Info(s, code) ==
  IF s.pending # None \/ s.seed = 0 THEN s
  ELSE Ask(s, [kind |-> "info", code |-> code], [type |-> "info", code |-> code, seed |-> s.seed])

\* #sendAcknowledgement: after a chunk of a transfer its timer is armed again.
Acknowledge(s, then) ==
  IF s.seed = 0 THEN Fail(s) ELSE Sends(s, "write", then, [type |-> "ack", seed |-> s.seed])

-----------------------------------------------------------------------------
(* #handleMessage.  An exception fails the session.                        *)

\* #handleConnectionRequest of a supported device: ignored while anything is
\* pending, or once connected.
ConnectionRequest(s, f) ==
  IF ~f.supported THEN Fail(s)
  ELSE IF s.pending # None \/ s.conn = "connected" THEN s
  ELSE Ask([s EXCEPT !.seed = f.seed, !.conn = "reconnecting", !.firmware = FALSE,
                     !.status = FALSE, !.busy = "unknown", !.told = TRUE],
           [kind |-> "time", at |-> s.sid],
           [type |-> "time", at |-> s.sid, seed |-> f.seed])

TimeSyncAck(s, f) ==
  IF s.pending.kind # "time" \/ s.pending.at # f.at THEN Fail(s)
  ELSE Info([s EXCEPT !.pending = None, !.timer = FALSE, !.conn = "connected", !.told = TRUE], 9)

InfoResponse(s, f) ==
  IF s.pending.kind # "info" \/ s.pending.code # f.code THEN s
  ELSE LET answered == [s EXCEPT !.pending = None, !.timer = FALSE, !.told = TRUE]
       IN  IF f.code = 9 THEN Info([answered EXCEPT !.status = TRUE, !.busy = f.value], 3)
           ELSE [answered EXCEPT !.firmware = TRUE]

\* #acceptTransferChunk, then #handleDirectoryChunk or #handleFileChunk.  The kind is
\* compared with the request, the path is not.
Chunk(s, f) ==
  LET p    == s.pending
      idle == [s EXCEPT !.pending = None, !.timer = FALSE]
      got  == Append(p.got, f.data)
  IN  CASE p.kind # f.kind -> s
        [] p.kind = f.kind /\ f.outcome # 0 ->
             [idle EXCEPT !.settled = Rejected(IF f.outcome = 103 THEN "sassi_outcome_103"
                                               ELSE "sassi_outcome"),
                          !.busy = IF f.outcome = 103 THEN "locked" ELSE @,
                          !.told = @ \/ f.outcome = 103]
        [] p.kind = f.kind /\ f.outcome = 0 /\ f.seq # p.next ->
             Fail([idle EXCEPT !.settled = Rejected("sassi_data_sequence_error")])
        [] p.kind = f.kind /\ f.outcome = 0 /\ f.seq = p.next /\ ~f.final ->
             Acknowledge([s EXCEPT !.pending.next = @ + 1, !.pending.got = got], "rearm")
        [] OTHER ->
             \* parseDirectory throws before the promise is resolved
             IF f.kind = "directory" /\ f.malformed THEN Fail(idle)
             ELSE [idle EXCEPT !.settled = Resolved([path |-> p.path, data |-> got])]

Notification(s, f) == [s EXCEPT !.busy = f.value, !.told = TRUE]

HandleMessage(s, f) ==
  CASE f.type = "request"   -> ConnectionRequest(s, f)
    [] f.type = "time"      -> TimeSyncAck(s, f)
    [] f.type = "info"      -> InfoResponse(s, f)
    [] f.type = "chunk"     -> Chunk(s, f)
    [] f.type = "notice"    -> Notification(s, f)
    [] f.type = "increment" -> Acknowledge(s, "handler")
    [] OTHER                -> s

\* The listener: the decoder refuses a damaged frame, and one whose check is under
\* another seed; a connection request carries its own.
Received(s, sid, f) ==
  IF sid # s.sid THEN s
  ELSE IF f.type = "damaged" \/ (f.type # "request" /\ f.seed # s.seed) THEN Fail(s)
  ELSE HandleMessage(s, f)

Disconnected(s, sid) == IF sid = s.sid THEN Fail(s) ELSE s

-----------------------------------------------------------------------------
(* The code after an await of the transport.                               *)

RequestFailed(s) ==
  [s EXCEPT !.timer = FALSE, !.pending = None, !.writing = FALSE,
            !.settled = IF @ = Silence THEN Rejected("write_failed") ELSE @]

Answered(s, then, ok) ==
  CASE then = "request" -> IF ok THEN [s EXCEPT !.writing = FALSE] ELSE RequestFailed(s)
    [] then = "rearm"   -> IF ok THEN [s EXCEPT !.timer = TRUE] ELSE Fail(s)
    [] then = "handler" -> IF ok THEN s ELSE Fail(s)
    [] OTHER            -> s

=============================================================================
