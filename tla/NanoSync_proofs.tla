-------------------------- MODULE NanoSync_proofs ---------------------------
(***************************************************************************)
(* Proofs about the companion's synchronisation, for any logs, any number  *)
(* of sessions, faults and roasts.  An answer says neither which request   *)
(* it is of nor, in the session, which path: answers meet requests by      *)
(* their order alone.  A request that was reported as failed and reached   *)
(* the Nano leaves its answer in the way of those of later ones.           *)
(*                                                                         *)
(* What is asked and not answered, in the commands, on its way to the Nano *)
(* and in the lines, is one queue.  The invariant says that its members    *)
(* can be numbered so that none but the request that waits is further back *)
(* than the number of requests that crossed; and, as each listing of a run *)
(* takes one from the front, that the log of another request is as many    *)
(* listings further still.                                                 *)
(*                                                                         *)
(* A second invariant, at the end, says that the ports to be opened are of *)
(* the last list: what lists comes after what opens among the commands.    *)
(***************************************************************************)
EXTENDS NanoSync, WellFoundedInduction, TLAPS

\* A list, of whatever.
IsSeq(q) == \E S : q \in Seq(S)

\* The fields of a session and of a manager.
SessionFields == {"conn", "status", "firmware", "busy", "sid", "seed", "pending", "timer",
                  "settled", "writing", "told", "out"}
ManagerFields == {"conn", "attempted", "sync", "stage", "logs", "of", "scan", "opening",
                  "behind", "stopped"}

-----------------------------------------------------------------------------
(* The host: a session h and a manager mgr, which a step is half way with. *)

\* The pending request of a session, and what its last one was settled with.
PendingOK(p) ==
  \/ p.kind \in {"none", "time", "info"}
  \/ /\ IsTransfer(p) /\ DOMAIN p = {"kind", "path", "next", "got"}
     /\ p.next \in Nat \ {0} /\ IsSeq(p.got) /\ (p.next = 1 <=> p.got = << >>)

SettledOK(o) ==
  \/ o = Silence
  \/ \E reason : o = Rejected(reason)
  \/ \E path, data : o = Resolved([path |-> path, data |-> data])

Shape(h, mgr) ==
  /\ DOMAIN h = SessionFields /\ DOMAIN mgr = ManagerFields
  /\ h.sid \in Nat /\ h.timer \in BOOLEAN /\ h.writing \in BOOLEAN
  /\ PendingOK(h.pending) /\ SettledOK(h.settled)
  /\ mgr.stage \in {"none", "logs", "profiles", "files"} /\ mgr.opening \in Nat

\* A transfer is of the synchronisation that runs, which waits for it.
Talk(h, mgr) ==
  /\ IsTransfer(h.pending) =>
       /\ h.sid # 0 /\ h.timer /\ h.settled = Silence /\ mgr.stage # "none"
       /\ mgr.stage = "files" <=> h.pending.kind = "file"
       /\ mgr.stage = "logs" => h.pending.path = "logs"
  /\ h.writing => mgr.stage # "none"

\* The manager looks for a port only while the session has none.
Link(h, mgr) ==
  /\ h.sid # 0 => h.conn # "disconnected" /\ mgr.conn # "disconnected" /\ mgr.scan = "none"
  /\ mgr.opening # 0 => mgr.scan = "opening"
  /\ mgr.scan = "opening" =>
       h.conn = "reconnecting" /\ mgr.conn = "reconnecting" /\ ~h.timer

-----------------------------------------------------------------------------
(* What has been asked of the child: commands c, and answers among lines.  *)

\* The i-th line answers a command whose answer is then.
Told(ls, i, then) == ls[i].type = "response" /\ ls[i].then = then

\* At most one command of a kind is asked and not answered.
Single(then, c, ls) ==
  /\ \A i, j \in DOMAIN c : c[i].then = then /\ c[j].then = then => i = j
  /\ \A i, j \in DOMAIN ls : Told(ls, i, then) /\ Told(ls, j, then) => i = j
  /\ \A i \in DOMAIN c, j \in DOMAIN ls : ~(c[i].then = then /\ Told(ls, j, then))

\* A command of that kind is not answered yet.
Outstanding(then, c, ls) ==
  (\E i \in DOMAIN c : c[i].then = then) \/ (\E j \in DOMAIN ls : Told(ls, j, then))

\* The host waits for each answer that is to come.
Tickets(h, mgr, c, ls) ==
  /\ \A then \in {"request", "listed", "opened"} : Single(then, c, ls)
  /\ Outstanding("request", c, ls) => h.writing
  /\ Outstanding("listed", c, ls) => mgr.scan = "listing"
  /\ Outstanding("opened", c, ls) => mgr.scan = "opening" /\ mgr.opening = 0

Writes == {"request", "rearm", "handler"}

\* A list is asked for after every write.
Ordered(mgr, c, ls) ==
  \A then \in Writes :
    /\ mgr.scan = "opening" => ~Outstanding(then, c, ls)
    /\ \A i, j \in DOMAIN c : c[i].then = "listed" /\ c[j].then = then => j < i
    /\ \A i, j \in DOMAIN ls : Told(ls, i, "listed") /\ Told(ls, j, then) => j < i
    /\ \A i \in DOMAIN ls, j \in DOMAIN c : ~(Told(ls, i, "listed") /\ c[j].then = then)

\* A request that waits for its first chunk.
Awaits(p) == IsTransfer(p) /\ p.next = 1

\* A request that waits for its first chunk is the last command.
Latest(h, c) ==
  Awaits(h.pending) =>
    \A i \in DOMAIN c : c[i].then = "request" => i = Len(c) /\ c[i].sid = h.sid

\* f is what the Nano holds now, held what it ever did.
DataOK(kind, data, f, held) ==
  IF kind = "file" THEN <<data.path, data.content>> \in held ELSE data.entries \subseteq DOMAIN f

AskOK(q, f) == q.type = "file" => q.path \in DOMAIN f

\* A command the host gives; last is the number of the last session.
CommandOK(e, f, last) ==
  /\ DOMAIN e = {"op", "sid", "then", "frame"}
  /\ e.sid \in 0 .. last
  /\ e.op \in {"list", "open", "close", "write", "shutdown"}
  /\ e.op = "write" => e.sid # 0 /\ AskOK(e.frame, f) /\ e.then \in Writes \cup {"nothing"}
  /\ e.then = "request" => e.op = "write" /\ e.frame.type \in {"directory", "file"}
  /\ e.op = "list" => e.then \in {"listed", "nothing"}
  /\ e.op = "open" => e.then \in {"opened", "nothing"}
  /\ e.op \in {"close", "shutdown"} => e.then = "nothing"

IsChunk(frame) == frame # None /\ frame.type = "chunk"

\* A line the child writes.
LineOK(e, f, held, last) ==
  /\ e.type \in {"data", "response"}
  /\ e.type = "data" =>
       /\ e.sid \in 1 .. last
       /\ e.frame = None \/ e.frame.type \in {"damaged", "request", "time", "info", "chunk", "notice"}
       /\ IsChunk(e.frame) =>
            /\ e.frame.kind \in {"directory", "file"} /\ e.frame.seq \in Nat
            /\ e.frame.outcome \in Nat /\ (e.frame.outcome = 0 <=> e.frame.seq # 0)
            /\ e.frame.outcome = 0 => DataOK(e.frame.kind, e.frame.data, f, held)
  /\ e.type = "response" => e.ok \in BOOLEAN
  /\ e.type = "response" /\ e.then = "opened" /\ e.ok => e.sid \in 1 .. last

\* Nothing has been said yet in a session.
Fresh(o, c, ls, qs, bs) ==
  /\ \A i \in DOMAIN c : c[i].op = "write" => c[i].sid # o
  /\ \A i \in DOMAIN ls : ls[i].type = "data" /\ ls[i].sid = o => ~IsChunk(ls[i].frame)
  /\ bs = o => qs = << >>

\* A session that is being opened has heard nothing yet.
NewSession(mgr, c, ls, qs, bs) ==
  /\ mgr.opening # 0 => Fresh(mgr.opening, c, ls, qs, bs)
  /\ \A i \in DOMAIN ls : Told(ls, i, "opened") /\ ls[i].ok => Fresh(ls[i].sid, c, ls, qs, bs)

-----------------------------------------------------------------------------
(* What is on its way in a session: requests and first chunks.             *)

FirstChunk(frame) == IsChunk(frame) /\ frame.seq <= 1

\* The first chunks of a session among the lines, its requests on their way to the Nano,
\* and its requests among the commands the child has not performed.
InLines(i, sid, ls) ==
  sid # 0 /\ i \in DOMAIN ls /\ ls[i].type = "data" /\ ls[i].sid = sid /\ FirstChunk(ls[i].frame)
InAsks(i, sid, qs, bs) ==
  sid # 0 /\ bs = sid /\ i \in DOMAIN qs /\ qs[i].type \in {"directory", "file"}
InCommands(i, sid, c, dn) ==
  /\ sid # 0 /\ i \in DOMAIN c /\ c[i].op = "write" /\ c[i].sid = sid
  /\ c[i].frame.type \in {"directory", "file"} /\ (i = 1 => dn = "no")

\* The listings a run has behind it.
Depth(h, mgr) ==
  IF mgr.stage = "none" \/ (h.settled # Silence /\ ~h.settled[1].ok) THEN 0
  ELSE IF mgr.stage = "files" THEN 2
  ELSE (IF mgr.stage = "profiles" THEN 1 ELSE 0)
       + (IF h.settled # Silence \/ (IsTransfer(h.pending) /\ ~Awaits(h.pending)) THEN 1 ELSE 0)

\* The request that waits was, or will be, reported as failed.
Failing(c, ls, dn) ==
  \/ c # << >> /\ c[1].then = "request" /\ dn = "error"
  \/ \E i \in DOMAIN ls : Told(ls, i, "request") /\ ~ls[i].ok

\* What is on its way is numbered: after base, up to own, which is the request p that
\* waits.  It is at most x places after base, or is that request; and a log is d
\* places, for the listings of the run, before that, or is that request.
Own(p, own, kind, path, n) == Awaits(p) /\ n = own /\ p.kind = kind /\ p.path = path

Placed(base, own, p, d, failing, x, kind, path, n) ==
  /\ n \in Int /\ base < n /\ n <= own
  /\ n <= x + base \/ (Own(p, own, kind, path, n) /\ ~failing /\ n <= x + base + 1)
  /\ kind = "file" => n + d <= x + base \/ Own(p, own, kind, path, n)

LinesPlaced(base, own, rl, sid, p, d, failing, ls, x) ==
  /\ \A i \in DOMAIN ls : InLines(i, sid, ls) =>
       Placed(base, own, p, d, failing, x, ls[i].frame.kind, ls[i].frame.data.path, rl[i])
  /\ \A i, j \in DOMAIN ls : i < j /\ InLines(i, sid, ls) /\ InLines(j, sid, ls) => rl[i] < rl[j]

AsksPlaced(base, own, ra, sid, p, d, failing, qs, bs, x) ==
  /\ \A i \in DOMAIN qs : InAsks(i, sid, qs, bs) =>
       Placed(base, own, p, d, failing, x, qs[i].type, qs[i].path, ra[i])
  /\ \A i, j \in DOMAIN qs : i < j /\ InAsks(i, sid, qs, bs) /\ InAsks(j, sid, qs, bs) => ra[i] < ra[j]

CommandsPlaced(base, own, rc, sid, p, d, failing, c, dn, x) ==
  /\ \A i \in DOMAIN c : InCommands(i, sid, c, dn) =>
       Placed(base, own, p, d, failing, x, c[i].frame.type, c[i].frame.path, rc[i])
  /\ \A i, j \in DOMAIN c : i < j /\ InCommands(i, sid, c, dn) /\ InCommands(j, sid, c, dn) => rc[i] < rc[j]

\* Lines are before what the Nano has not answered, and that before the commands.
InOrder(rl, ra, rc, sid, c, ls, qs, bs, dn) ==
  /\ \A i \in DOMAIN ls, j \in DOMAIN qs : InLines(i, sid, ls) /\ InAsks(j, sid, qs, bs) => rl[i] < ra[j]
  /\ \A i \in DOMAIN ls, j \in DOMAIN c : InLines(i, sid, ls) /\ InCommands(j, sid, c, dn) => rl[i] < rc[j]
  /\ \A i \in DOMAIN qs, j \in DOMAIN c : InAsks(i, sid, qs, bs) /\ InCommands(j, sid, c, dn) => ra[i] < rc[j]

RankedBy(base, own, rl, ra, rc, sid, p, d, failing, c, ls, qs, bs, dn, x) ==
  /\ base \in Int /\ own \in Int
  /\ LinesPlaced(base, own, rl, sid, p, d, failing, ls, x)
  /\ AsksPlaced(base, own, ra, sid, p, d, failing, qs, bs, x)
  /\ CommandsPlaced(base, own, rc, sid, p, d, failing, c, dn, x)
  /\ InOrder(rl, ra, rc, sid, c, ls, qs, bs, dn)

\* What is on its way can be numbered so.
Ranked(sid, p, d, failing, c, ls, qs, bs, dn, x) ==
  \E base, own, rl, ra, rc : RankedBy(base, own, rl, ra, rc, sid, p, d, failing, c, ls, qs, bs, dn, x)

-----------------------------------------------------------------------------
(* What was read.                                                          *)

\* What was received of the request that waits.
GotOK(h, mgr, f, held, x) ==
  IsTransfer(h.pending) /\ h.pending.got # << >> =>
    LET d == h.pending.got[1] IN
    /\ h.pending.kind = "file" => (x < 3 => <<h.pending.path, d.content>> \in held)
    /\ h.pending.kind = "directory" =>
         d.entries \subseteq DOMAIN f /\ (x = 0 => d.path = h.pending.path)

\* What the request was settled with.
ReadOK(h, mgr, f, held, x) ==
  h.settled # Silence /\ h.settled[1].ok =>
    LET v == h.settled[1].value
        d == v.data[1] IN
    /\ mgr.stage = "files" => (x < 3 => <<v.path, d.content>> \in held)
    /\ mgr.stage = "logs" => d.entries \subseteq DOMAIN f /\ (x = 0 => d.path = "logs")

-----------------------------------------------------------------------------
(* The invariant.                                                          *)

HostOK(h, mgr) == Shape(h, mgr) /\ Talk(h, mgr) /\ Link(h, mgr)

\* The commands c, the lines ls, the asks qs and the session bs of the child.
QueuesOK(h, mgr, c, ls, qs, bs, f, held, last) ==
  /\ IsSeq(c) /\ IsSeq(ls) /\ IsSeq(qs)
  /\ Tickets(h, mgr, c, ls) /\ Ordered(mgr, c, ls) /\ Latest(h, c)
  /\ \A i \in DOMAIN c : CommandOK(c[i], f, last)
  /\ \A i \in DOMAIN ls : LineOK(ls[i], f, held, last)
  /\ \A i \in DOMAIN qs : AskOK(qs[i], f)
  /\ NewSession(mgr, c, ls, qs, bs)

\* What is on its way is numbered, while fewer than three requests have crossed.
PlacesOK(h, mgr, c, ls, qs, bs, dn, x) ==
  x < 3 => Ranked(h.sid, h.pending, Depth(h, mgr), Failing(c, ls, dn), c, ls, qs, bs, dn, x)

\* Half way through a step of the host, with the commands c and the lines ls.
Turn(h, mgr, c, ls) ==
  /\ HostOK(h, mgr)
  /\ QueuesOK(h, mgr, c, ls, asks, bridge.sid, nano.files, nano.held, bridge.last)
  /\ PlacesOK(h, mgr, c, ls, asks, bridge.sid, bridge.done, crossed)
  /\ GotOK(h, mgr, nano.files, nano.held, crossed)
  /\ ReadOK(h, mgr, nano.files, nano.held, crossed)
  /\ mgr.logs \subseteq DOMAIN nano.files /\ h.sid <= bridge.last /\ mgr.opening <= bridge.last
  /\ crossed = 0 => mgr.of # "profiles"
  /\ bridge.done # "no" => c # << >>

\* The child and the Nano.
World ==
  /\ DOMAIN bridge = {"live", "generation", "sid", "last", "cmds", "done"}
  /\ bridge.last \in Nat /\ bridge.sid \in 0 .. bridge.last
  /\ bridge.done \in {"no", "ok", "error"}
  /\ ~bridge.live => bridge.cmds = << >>
  /\ bridge.done # "no" => bridge.cmds # << >> /\ bridge.cmds[1].op = "write"
  /\ DOMAIN nano = {"plugged", "open", "seed", "locked", "files", "sending", "held"}
  /\ DOMAIN nano.files \subseteq Log
  /\ \A p \in DOMAIN nano.files : <<p, nano.files[p]>> \in nano.held
  /\ nano.sending # << >> =>
       /\ nano.sending[1].kind \in {"directory", "file"} /\ nano.sending[1].seq \in Nat \ {0}
       /\ DataOK(nano.sending[1].kind, nano.sending[1].data, nano.files, nano.held)
  /\ crossed \in Nat

\* Between two steps of the host, which has said all and told all.
Inv ==
  /\ Turn(s, m, bridge.cmds, lines) /\ ~s.told /\ s.out = << >>
  /\ World
  /\ DOMAIN db = {"files", "quarantine", "profiles", "roasts", "rows", "fts"} /\ Attributed

-----------------------------------------------------------------------------
(* Sequences.                                                              *)

\* What is left of a queue when some are taken from its head.
IsRest(r, q) ==
  /\ IsSeq(q) /\ IsSeq(r)
  /\ \E k \in 0 .. Len(q) : Len(r) = Len(q) - k /\ \A i \in 1 .. Len(r) : r[i] = q[i + k]

\* A queue with one more at its end.
Grown(r, q, e) ==
  /\ IsSeq(q) /\ IsSeq(r)
  /\ Len(r) = Len(q) + 1 /\ r[Len(r)] = e /\ \A i \in 1 .. Len(q) : r[i] = q[i]

\* The places of a queue.
LEMMA SeqFacts ==
  ASSUME NEW q, IsSeq(q)
  PROVE  /\ Len(q) \in Nat /\ DOMAIN q = 1 .. Len(q)
         /\ q = << >> <=> Len(q) = 0
<1>1. PICK S : q \in Seq(S)
  BY DEF IsSeq
<1> QED
  BY <1>1

\* The empty queue.
LEMMA NoneLeft ==
  ASSUME NEW q, IsSeq(q)
  PROVE  IsSeq(<< >>) /\ DOMAIN << >> = {} /\ Len(<< >>) = 0 /\ IsRest(<< >>, q)
<1>1. << >> \in Seq({}) /\ Len(<< >>) = 0
  OBVIOUS
<1>2. IsSeq(<< >>)
  BY <1>1 DEF IsSeq
<1> QED
  BY <1>1, <1>2, SeqFacts DEF IsRest

\* Nothing is taken, or the head is.
LEMMA RestOfAll ==
  ASSUME NEW q, IsSeq(q)
  PROVE  IsRest(q, q)
<1> QED
  BY SeqFacts DEF IsRest

\* A queue without its first.
LEMMA RestOfHead ==
  ASSUME NEW q, IsSeq(q), q # << >>
  PROVE  /\ IsRest(Tail(q), q) /\ IsSeq(Tail(q)) /\ Head(q) = q[1] /\ 1 \in DOMAIN q
         /\ Len(Tail(q)) = Len(q) - 1 /\ DOMAIN Tail(q) = 1 .. Len(q) - 1
         /\ \A i \in 1 .. Len(q) - 1 : Tail(q)[i] = q[i + 1]
<1>1. PICK S : q \in Seq(S)
  BY DEF IsSeq
<1>2. Tail(q) \in Seq(S) /\ Len(q) > 0
  BY <1>1
<1>3. IsSeq(Tail(q))
  BY <1>2 DEF IsSeq
<1>4. /\ Len(Tail(q)) = Len(q) - 1 /\ Len(q) \in Nat /\ DOMAIN Tail(q) = 1 .. Len(q) - 1
      /\ \A i \in 1 .. Len(q) - 1 : Tail(q)[i] = q[i + 1]
      /\ Head(q) = q[1] /\ 1 \in DOMAIN q
  BY <1>1, <1>2
<1> QED
  BY <1>3, <1>4 DEF IsRest

\* Where each of the rest was.
LEMMA RestAt ==
  ASSUME NEW r, NEW q, IsRest(r, q)
  PROVE  /\ IsSeq(q) /\ IsSeq(r) /\ Len(r) \in Nat /\ Len(q) \in Nat
         /\ DOMAIN q = 1 .. Len(q) /\ DOMAIN r = 1 .. Len(r)
         /\ \E k \in Nat : /\ Len(r) = Len(q) - k
                           /\ \A i \in DOMAIN r : i \in Nat /\ i + k \in DOMAIN q /\ r[i] = q[i + k]
<1>1. /\ IsSeq(q) /\ IsSeq(r) /\ Len(r) \in Nat /\ Len(q) \in Nat
      /\ DOMAIN q = 1 .. Len(q) /\ DOMAIN r = 1 .. Len(r)
  BY SeqFacts DEF IsRest
<1>2. PICK k \in 0 .. Len(q) : Len(r) = Len(q) - k /\ \A i \in 1 .. Len(r) : r[i] = q[i + k]
  BY DEF IsRest
<1>3. k \in Nat
  BY <1>1
<1>4. ASSUME NEW i \in DOMAIN r PROVE i \in Nat /\ i + k \in DOMAIN q /\ r[i] = q[i + k]
  BY <1>1, <1>2
<1> QED
  BY <1>1, <1>2, <1>3, <1>4

\* One is added.
LEMMA GrownByOne ==
  ASSUME NEW q, IsSeq(q), NEW e
  PROVE  Grown(Append(q, e), q, e) /\ IsSeq(Append(q, e))
<1>1. PICK S : q \in Seq(S)
  BY DEF IsSeq
<1>2. Append(q, e) \in Seq(S \cup {e})
  BY <1>1
<1>3. IsSeq(Append(q, e))
  BY <1>2 DEF IsSeq
<1> QED
  BY <1>1, <1>3 DEF Grown

\* None, one or two are added.
LEMMA Joined ==
  ASSUME NEW q, IsSeq(q)
  PROVE  /\ q \o << >> = q
         /\ \A e : q \o << e >> = Append(q, e)
         /\ \A e, d : q \o << e, d >> = Append(Append(q, e), d)
<1>1. PICK S : q \in Seq(S)
  BY DEF IsSeq
<1>2. q \o << >> = q
  BY <1>1
<1>3. ASSUME NEW e PROVE q \o << e >> = Append(q, e)
  BY <1>1
<1>4. ASSUME NEW e, NEW d PROVE q \o << e, d >> = Append(Append(q, e), d)
  <2>1. q \in Seq(S \cup {e, d}) /\ << e, d >> \in Seq(S \cup {e, d})
    BY <1>1
  <2> QED
    BY <2>1
<1> QED
  BY <1>2, <1>3, <1>4

-----------------------------------------------------------------------------
(* What becomes of the queues.                                             *)

\* Something is taken from the heads, or lost.
LEMMA QueuesShorten ==
  ASSUME NEW h, NEW mgr, NEW c, NEW ls, NEW qs, NEW bs, NEW f, NEW held, NEW last,
         QueuesOK(h, mgr, c, ls, qs, bs, f, held, last),
         NEW c2, IsRest(c2, c), NEW ls2, IsRest(ls2, ls), NEW qs2, IsRest(qs2, qs),
         NEW bs2, bs2 = bs \/ bs2 = 0 
  PROVE  QueuesOK(h, mgr, c2, ls2, qs2, bs2, f, held, last)
<1>1. /\ IsSeq(c2) /\ IsSeq(ls2) /\ IsSeq(qs2)
      /\ Len(c) \in Nat /\ Len(c2) \in Nat /\ DOMAIN c = 1 .. Len(c) /\ DOMAIN c2 = 1 .. Len(c2)
      /\ Len(qs) \in Nat /\ Len(qs2) \in Nat /\ DOMAIN qs2 = 1 .. Len(qs2)
  BY RestAt
<1>5. PICK k \in Nat :
        /\ Len(c2) = Len(c) - k
        /\ \A i \in DOMAIN c2 : i \in Nat /\ i + k \in DOMAIN c /\ c2[i] = c[i + k]
  BY RestAt, SMTT(30)
<1>6. PICK l \in Nat : \A i \in DOMAIN ls2 : i \in Nat /\ i + l \in DOMAIN ls /\ ls2[i] = ls[i + l]
  BY RestAt
<1>7. PICK n \in Nat :
        /\ Len(qs2) = Len(qs) - n
        /\ \A i \in DOMAIN qs2 : i \in Nat /\ i + n \in DOMAIN qs /\ qs2[i] = qs[i + n]
  BY RestAt
<1>8. \A then : Outstanding(then, c2, ls2) => Outstanding(then, c, ls)
  BY <1>5, <1>6 DEF Outstanding, Told
<1>9. \A then : Single(then, c, ls) => Single(then, c2, ls2)
  <2> SUFFICES ASSUME NEW then, Single(then, c, ls) PROVE Single(then, c2, ls2)
    OBVIOUS
  <2>1. \A i, j \in DOMAIN c2 : c2[i].then = then /\ c2[j].then = then => i = j
    <3>1. \A i, j \in DOMAIN c : c[i].then = then /\ c[j].then = then => i = j
      BY DEF Single
    <3> QED BY <1>5, <3>1
  <2>2. \A i, j \in DOMAIN ls2 : Told(ls2, i, then) /\ Told(ls2, j, then) => i = j
    <3>1. \A i, j \in DOMAIN ls : Told(ls, i, then) /\ Told(ls, j, then) => i = j
      BY DEF Single
    <3> QED BY <1>6, <3>1 DEF Told
  <2>3. \A i \in DOMAIN c2, j \in DOMAIN ls2 : ~(c2[i].then = then /\ Told(ls2, j, then))
    BY <1>5, <1>6 DEF Single, Told
  <2> QED
    BY <2>1, <2>2, <2>3 DEF Single
<1>10. Tickets(h, mgr, c2, ls2)
  BY <1>8, <1>9 DEF QueuesOK, Tickets
<1>11. Ordered(mgr, c2, ls2)
  <2> SUFFICES ASSUME NEW then \in Writes
        PROVE /\ mgr.scan = "opening" => ~Outstanding(then, c2, ls2)
              /\ \A i, j \in DOMAIN c2 : c2[i].then = "listed" /\ c2[j].then = then => j < i
              /\ \A i, j \in DOMAIN ls2 : Told(ls2, i, "listed") /\ Told(ls2, j, then) => j < i
              /\ \A i \in DOMAIN ls2, j \in DOMAIN c2 : ~(Told(ls2, i, "listed") /\ c2[j].then = then)
    BY DEF Ordered
  <2>1. /\ mgr.scan = "opening" => ~Outstanding(then, c, ls)
        /\ \A i, j \in DOMAIN c : c[i].then = "listed" /\ c[j].then = then => j < i
        /\ \A i, j \in DOMAIN ls : Told(ls, i, "listed") /\ Told(ls, j, then) => j < i
        /\ \A i \in DOMAIN ls, j \in DOMAIN c : ~(Told(ls, i, "listed") /\ c[j].then = then)
    BY DEF QueuesOK, Ordered
  <2>2. \A i, j \in DOMAIN c2 : c2[i].then = "listed" /\ c2[j].then = then => j < i
    <3> SUFFICES ASSUME NEW i \in DOMAIN c2, NEW j \in DOMAIN c2, c2[i].then = "listed", c2[j].then = then
                 PROVE j < i
      OBVIOUS
    <3>1. j + k < i + k
      BY <1>5, <2>1
    <3> QED BY <3>1, <1>5
  <2>3. \A i, j \in DOMAIN ls2 : Told(ls2, i, "listed") /\ Told(ls2, j, then) => j < i
    <3> SUFFICES ASSUME NEW i \in DOMAIN ls2, NEW j \in DOMAIN ls2, Told(ls2, i, "listed"), Told(ls2, j, then)
                 PROVE j < i
      OBVIOUS
    <3>1. j + l < i + l
      BY <1>6, <2>1 DEF Told
    <3> QED BY <3>1, <1>6
  <2>4. \A i \in DOMAIN ls2, j \in DOMAIN c2 : ~(Told(ls2, i, "listed") /\ c2[j].then = then)
    BY <1>5, <1>6, <2>1 DEF Told
  <2> QED
    BY <1>8, <2>1, <2>2, <2>3, <2>4
<1>12. Latest(h, c2)
  <2> SUFFICES ASSUME Awaits(h.pending), NEW i \in DOMAIN c2, c2[i].then = "request"
               PROVE i = Len(c2) /\ c2[i].sid = h.sid
    BY DEF Latest
  <2>1. i + k = Len(c) /\ c[i + k].sid = h.sid
    BY <1>5 DEF QueuesOK, Latest
  <2>2. i \in Nat /\ c2[i] = c[i + k] /\ Len(c2) = Len(c) - k
    BY <1>5
  <2>3. i = Len(c2)
    BY <1>1, <2>1, <2>2
  <2> QED
    BY <2>1, <2>2, <2>3
<1>13. /\ \A i \in DOMAIN c2 : CommandOK(c2[i], f, last)
       /\ \A i \in DOMAIN ls2 : LineOK(ls2[i], f, held, last)
       /\ \A i \in DOMAIN qs2 : AskOK(qs2[i], f)
  BY <1>5, <1>6, <1>7 DEF QueuesOK
<1>14. \A o : o # 0 /\ Fresh(o, c, ls, qs, bs) => Fresh(o, c2, ls2, qs2, bs2)
  <2> SUFFICES ASSUME NEW o, o # 0, Fresh(o, c, ls, qs, bs) PROVE Fresh(o, c2, ls2, qs2, bs2)
    OBVIOUS
  <2>1. \A i \in DOMAIN c2 : c2[i].op = "write" => c2[i].sid # o
    BY <1>5 DEF Fresh
  <2>2. \A i \in DOMAIN ls2 : ls2[i].type = "data" /\ ls2[i].sid = o => ~IsChunk(ls2[i].frame)
    BY <1>6 DEF Fresh
  <2>3. bs2 = o => qs2 = << >>
    <3>1. bs2 = o => Len(qs) = 0
      BY SeqFacts DEF Fresh, QueuesOK
    <3> QED
      BY <3>1, <1>1, <1>7, SeqFacts
  <2> QED
    BY <2>1, <2>2, <2>3 DEF Fresh
<1>15. NewSession(mgr, c2, ls2, qs2, bs2)
  <2>1. \A i \in DOMAIN ls : Told(ls, i, "opened") /\ ls[i].ok => ls[i].sid # 0
    BY DEF QueuesOK, LineOK, Told
  <2> QED
    BY <2>1, <1>6, <1>14 DEF QueuesOK, NewSession, Told
<1> QED
  BY <1>1, <1>10, <1>11, <1>12, <1>13, <1>15 DEF QueuesOK

\* The host goes on, and the port stays as it is looked for.
LEMMA QueuesHost ==
  ASSUME NEW h, NEW mgr, NEW c, NEW ls, NEW qs, NEW bs, NEW f, NEW held, NEW last,
         QueuesOK(h, mgr, c, ls, qs, bs, f, held, last),
         NEW h2, NEW mgr2,
         h2.writing = h.writing \/ ~Outstanding("request", c, ls),
         mgr2.scan = mgr.scan, mgr2.opening = mgr.opening,
         Awaits(h2.pending) => (Awaits(h.pending) /\ h2.sid = h.sid) \/ ~Outstanding("request", c, ls)
  PROVE  QueuesOK(h2, mgr2, c, ls, qs, bs, f, held, last)
<1>1. Tickets(h2, mgr2, c, ls)
  BY DEF QueuesOK, Tickets
<1>2. Ordered(mgr2, c, ls)
  BY DEF QueuesOK, Ordered
<1>3. Latest(h2, c)
  <2> SUFFICES ASSUME Awaits(h2.pending), NEW i \in DOMAIN c, c[i].then = "request"
               PROVE i = Len(c) /\ c[i].sid = h2.sid
    BY DEF Latest
  <2>1. Outstanding("request", c, ls)
    BY DEF Outstanding
  <2> QED
    BY <2>1 DEF QueuesOK, Latest
<1>4. NewSession(mgr2, c, ls, qs, bs)
  BY DEF QueuesOK, NewSession
<1> QED
  BY <1>1, <1>2, <1>3, <1>4 DEF QueuesOK

\* Files are written, sessions opened: what was in order stays so.
LEMMA QueuesWorld ==
  ASSUME NEW h, NEW mgr, NEW c, NEW ls, NEW qs, NEW bs, NEW f, NEW held, NEW last \in Nat,
         QueuesOK(h, mgr, c, ls, qs, bs, f, held, last),
         NEW f2, DOMAIN f \subseteq DOMAIN f2, NEW held2, held \subseteq held2,
         NEW last2 \in Nat, last <= last2, NEW bs2, bs2 = bs \/ bs2 = 0 \/ bs2 > last,
         bs2 > last => qs = << >>
  PROVE  QueuesOK(h, mgr, c, ls, qs, bs2, f2, held2, last2)
<1>1. \A kind, data : DataOK(kind, data, f, held) => DataOK(kind, data, f2, held2)
  BY DEF DataOK
<1>2. \A q : AskOK(q, f) => AskOK(q, f2)
  BY DEF AskOK
<1>3. \A e : CommandOK(e, f, last) => CommandOK(e, f2, last2)
  <2> SUFFICES ASSUME NEW e, CommandOK(e, f, last) PROVE CommandOK(e, f2, last2)
    OBVIOUS
  <2>1. e.sid \in 0 .. last2
    BY DEF CommandOK
  <2>2. e.op = "write" => AskOK(e.frame, f2)
    BY <1>2 DEF CommandOK
  <2> QED
    BY <2>1, <2>2 DEF CommandOK
<1>4. \A e : LineOK(e, f, held, last) => LineOK(e, f2, held2, last2)
  <2> SUFFICES ASSUME NEW e, LineOK(e, f, held, last) PROVE LineOK(e, f2, held2, last2)
    OBVIOUS
  <2>1. e.sid \in 1 .. last => e.sid \in 1 .. last2
    OBVIOUS
  <2> QED
    BY <1>1, <2>1 DEF LineOK
<1>5. \A o : o # 0 /\ Fresh(o, c, ls, qs, bs) => Fresh(o, c, ls, qs, bs2)
  BY DEF Fresh
<1>6. NewSession(mgr, c, ls, qs, bs2)
  <2>1. \A i \in DOMAIN ls : Told(ls, i, "opened") /\ ls[i].ok => ls[i].sid # 0
    BY DEF QueuesOK, LineOK, Told
  <2> QED
    BY <2>1, <1>5 DEF QueuesOK, NewSession
<1> QED
  BY <1>2, <1>3, <1>4, <1>6 DEF QueuesOK

\* What the host asks of the child: a port when it has none, a request when none is
\* outstanding, and nothing behind a request that waits.
Askable(e, h, mgr, c, ls) ==
  /\ e.then \in {"nothing", "listed", "opened", "request", "rearm", "handler"}
  /\ e.then = "listed" => mgr.scan = "listing" /\ ~Outstanding("listed", c, ls)
  /\ e.then = "opened" => /\ mgr.scan = "opening" /\ mgr.opening = 0
                          /\ ~Outstanding("opened", c, ls)
  /\ e.then = "request" => h.writing /\ ~Outstanding("request", c, ls)
  /\ e.op = "write" => e.then \in Writes /\ mgr.scan = "none" /\ mgr.opening = 0 /\ e.sid = h.sid
  /\ Awaits(h.pending) => e.then = "request" /\ e.sid = h.sid

\* The host appends a command.
LEMMA QueuesCommand ==
  ASSUME NEW h, NEW mgr, NEW c, NEW ls, NEW qs, NEW bs, NEW f, NEW held, NEW last,
         QueuesOK(h, mgr, c, ls, qs, bs, f, held, last),
         NEW e, CommandOK(e, f, last), Askable(e, h, mgr, c, ls)
  PROVE  QueuesOK(h, mgr, Append(c, e), ls, qs, bs, f, held, last)
<1> DEFINE c2 == Append(c, e)
<1>1. /\ IsSeq(c2) /\ Len(c) \in Nat /\ Len(c2) = Len(c) + 1 /\ DOMAIN c = 1 .. Len(c)
      /\ DOMAIN c2 = 1 .. Len(c2) /\ c2[Len(c2)] = e /\ \A i \in 1 .. Len(c) : c2[i] = c[i]
  BY GrownByOne, SeqFacts DEF Grown, QueuesOK
<1> HIDE DEF c2
<1>2. \A i \in DOMAIN c2 : \/ i = Len(c2) /\ c2[i] = e
                           \/ i \in DOMAIN c /\ c2[i] = c[i] /\ i < Len(c2)
  BY <1>1
<1>3. \A then : Outstanding(then, c2, ls) => Outstanding(then, c, ls) \/ then = e.then
  BY <1>2 DEF Outstanding
<1>4. \A then : Single(then, c, ls) /\ (then = e.then => ~Outstanding(then, c, ls)) => Single(then, c2, ls)
  <2> SUFFICES ASSUME NEW then, Single(then, c, ls), then = e.then => ~Outstanding(then, c, ls)
               PROVE  Single(then, c2, ls)
    OBVIOUS
  <2>1. ASSUME NEW i \in DOMAIN c2, NEW j \in DOMAIN c2, c2[i].then = then, c2[j].then = then
        PROVE  i = j
    BY <2>1, <1>2 DEF Single, Outstanding
  <2>2. ASSUME NEW i \in DOMAIN c2, NEW j \in DOMAIN ls PROVE ~(c2[i].then = then /\ Told(ls, j, then))
    BY <1>2 DEF Single, Outstanding
  <2> QED
    BY <2>1, <2>2 DEF Single
<1>5. Tickets(h, mgr, c2, ls)
  BY <1>3, <1>4 DEF QueuesOK, Tickets, Askable
<1>6. Ordered(mgr, c2, ls)
  <2> SUFFICES ASSUME NEW then \in Writes
        PROVE /\ mgr.scan = "opening" => ~Outstanding(then, c2, ls)
              /\ \A i, j \in DOMAIN c2 : c2[i].then = "listed" /\ c2[j].then = then => j < i
              /\ \A i, j \in DOMAIN ls : Told(ls, i, "listed") /\ Told(ls, j, then) => j < i
              /\ \A i \in DOMAIN ls, j \in DOMAIN c2 : ~(Told(ls, i, "listed") /\ c2[j].then = then)
    BY DEF Ordered
  <2>1. /\ mgr.scan = "opening" => ~Outstanding(then, c, ls)
        /\ \A i, j \in DOMAIN c : c[i].then = "listed" /\ c[j].then = then => j < i
        /\ \A i, j \in DOMAIN ls : Told(ls, i, "listed") /\ Told(ls, j, then) => j < i
        /\ \A i \in DOMAIN ls, j \in DOMAIN c : ~(Told(ls, i, "listed") /\ c[j].then = then)
    BY DEF QueuesOK, Ordered
  <2>2. then = e.then => mgr.scan = "none" /\ ~Outstanding("listed", c, ls)
    <3>1. then = e.then => e.op = "write"
      BY DEF Writes, CommandOK
    <3> QED
      BY <3>1 DEF QueuesOK, Tickets, Askable
  <2>3. then # "listed"
    BY DEF Writes
  <2>4. mgr.scan = "opening" => ~Outstanding(then, c2, ls)
    BY <1>3, <2>1, <2>2
  <2>5. ASSUME NEW i \in DOMAIN c2, NEW j \in DOMAIN c2, c2[i].then = "listed", c2[j].then = then
        PROVE  j < i
    <3>1. CASE i \in DOMAIN c /\ j \in DOMAIN c /\ c2[i] = c[i] /\ c2[j] = c[j]
      BY <2>1, <2>5, <3>1
    <3>2. CASE i = Len(c2) /\ c2[i] = e /\ j \in DOMAIN c /\ j < Len(c2)
      BY <3>2
    <3>3. CASE c2[j] = e
      BY <1>2, <2>2, <2>3, <2>5, <3>3 DEF Outstanding
    <3> QED
      BY <1>2, <2>3, <2>5, <3>1, <3>2, <3>3
  <2>6. \A i \in DOMAIN ls, j \in DOMAIN c2 : ~(Told(ls, i, "listed") /\ c2[j].then = then)
    BY <1>2, <2>1, <2>2 DEF Outstanding
  <2> QED
    BY <2>1, <2>4, <2>5, <2>6
<1>7. Latest(h, c2)
  <2> SUFFICES ASSUME Awaits(h.pending), NEW i \in DOMAIN c2, c2[i].then = "request"
               PROVE i = Len(c2) /\ c2[i].sid = h.sid
    BY DEF Latest
  <2> QED
    BY <1>2 DEF Askable, Outstanding
<1>8. \A i \in DOMAIN c2 : CommandOK(c2[i], f, last)
  BY <1>2 DEF QueuesOK
<1>9. NewSession(mgr, c2, ls, qs, bs)
  <2>1. CASE e.op = "write"
    <3>1. mgr.opening = 0 /\ ~Outstanding("opened", c, ls)
      BY <2>1 DEF Askable, QueuesOK, Tickets
    <3>2. \A i \in DOMAIN ls : ~Told(ls, i, "opened")
      BY <3>1 DEF Outstanding
    <3> QED
      BY <3>1, <3>2 DEF NewSession
  <2>2. CASE e.op # "write"
    <3>1. \A o : Fresh(o, c, ls, qs, bs) => Fresh(o, c2, ls, qs, bs)
      BY <1>2, <2>2 DEF Fresh
    <3> QED
      BY <3>1 DEF QueuesOK, NewSession
  <2> QED
    BY <2>1, <2>2
<1> QED
  BY <1>1, <1>5, <1>6, <1>7, <1>8, <1>9 DEF QueuesOK, c2

\* A line the child may write: an answer to what was outstanding, data of a session
\* that is not new.
Sayable(e, h, mgr, c, ls, qs, bs) ==
  /\ e.type = "response" =>
       /\ e.then \in {"request", "rearm", "handler", "listed", "opened"}
       /\ ~Outstanding(e.then, c, ls) \/ e.then \in {"rearm", "handler"}
       /\ e.then = "request" => h.writing
       /\ e.then = "listed" => mgr.scan = "listing" /\ \A then \in Writes, i \in DOMAIN c : c[i].then # then
       /\ e.then = "opened" => mgr.scan = "opening" /\ mgr.opening = 0
       /\ e.then = "opened" /\ e.ok => Fresh(e.sid, c, ls, qs, bs)
       /\ e.then \in Writes => mgr.scan # "opening" /\ \A i \in DOMAIN ls : ~Told(ls, i, "listed")
  /\ e.type = "data" /\ IsChunk(e.frame) => bs = e.sid /\ qs # << >>

\* The child or the Nano adds a line.
LEMMA QueuesLine ==
  ASSUME NEW h, NEW mgr, NEW c, NEW ls, NEW qs, NEW bs, NEW f, NEW held, NEW last,
         QueuesOK(h, mgr, c, ls, qs, bs, f, held, last),
         NEW e, LineOK(e, f, held, last), Sayable(e, h, mgr, c, ls, qs, bs)
  PROVE  QueuesOK(h, mgr, c, Append(ls, e), qs, bs, f, held, last)
<1> DEFINE l2 == Append(ls, e)
<1>1. /\ IsSeq(l2) /\ Len(ls) \in Nat /\ Len(l2) = Len(ls) + 1 /\ DOMAIN ls = 1 .. Len(ls)
      /\ DOMAIN l2 = 1 .. Len(l2) /\ l2[Len(l2)] = e /\ \A i \in 1 .. Len(ls) : l2[i] = ls[i]
  BY GrownByOne, SeqFacts DEF Grown, QueuesOK
<1> HIDE DEF l2
<1>2. \A i \in DOMAIN l2 : \/ i = Len(l2) /\ l2[i] = e
                           \/ i \in DOMAIN ls /\ l2[i] = ls[i] /\ i < Len(l2)
  BY <1>1
<1>2a. \A i \in DOMAIN ls : i \in DOMAIN l2 /\ l2[i] = ls[i] /\ i \in Nat /\ i < Len(l2)
  BY <1>1
<1>2b. e.type = "data" => e.type # "response"
  OBVIOUS
<1>3. \A then : Outstanding(then, c, l2) => Outstanding(then, c, ls) \/ (e.type = "response" /\ then = e.then)
  BY <1>2 DEF Outstanding, Told
<1>4. \A then : /\ Single(then, c, ls)
                /\ (e.type = "response" /\ then = e.then) => ~Outstanding(then, c, ls)
                => Single(then, c, l2)
  <2> SUFFICES ASSUME NEW then, Single(then, c, ls),
                      (e.type = "response" /\ then = e.then) => ~Outstanding(then, c, ls)
               PROVE  Single(then, c, l2)
    OBVIOUS
  <2>1. ASSUME NEW i \in DOMAIN l2, NEW j \in DOMAIN l2, Told(l2, i, then), Told(l2, j, then)
        PROVE  i = j
    BY <2>1, <1>2 DEF Single, Outstanding, Told
  <2>2. ASSUME NEW i \in DOMAIN c, NEW j \in DOMAIN l2 PROVE ~(c[i].then = then /\ Told(l2, j, then))
    BY <1>2 DEF Single, Outstanding, Told
  <2> QED
    BY <2>1, <2>2 DEF Single
<1>5. Tickets(h, mgr, c, l2)
  BY <1>3, <1>4 DEF QueuesOK, Tickets, Sayable
<1>6. Ordered(mgr, c, l2)
  <2> SUFFICES ASSUME NEW then \in Writes
        PROVE /\ mgr.scan = "opening" => ~Outstanding(then, c, l2)
              /\ \A i, j \in DOMAIN c : c[i].then = "listed" /\ c[j].then = then => j < i
              /\ \A i, j \in DOMAIN l2 : Told(l2, i, "listed") /\ Told(l2, j, then) => j < i
              /\ \A i \in DOMAIN l2, j \in DOMAIN c : ~(Told(l2, i, "listed") /\ c[j].then = then)
    BY DEF Ordered
  <2>1. /\ mgr.scan = "opening" => ~Outstanding(then, c, ls)
        /\ \A i, j \in DOMAIN c : c[i].then = "listed" /\ c[j].then = then => j < i
        /\ \A i, j \in DOMAIN ls : Told(ls, i, "listed") /\ Told(ls, j, then) => j < i
        /\ \A i \in DOMAIN ls, j \in DOMAIN c : ~(Told(ls, i, "listed") /\ c[j].then = then)
    BY DEF QueuesOK, Ordered
  <2>3. then # "listed"
    BY DEF Writes
  <2>4. mgr.scan = "opening" => ~Outstanding(then, c, l2)
    BY <1>3, <2>1 DEF Sayable
  <2>5. ASSUME NEW i \in DOMAIN l2, NEW j \in DOMAIN l2, Told(l2, i, "listed"), Told(l2, j, then)
        PROVE  j < i
    <3>1. CASE i \in DOMAIN ls /\ j \in DOMAIN ls /\ l2[i] = ls[i] /\ l2[j] = ls[j]
      BY <2>1, <2>5, <3>1 DEF Told
    <3>2. CASE i = Len(l2) /\ l2[i] = e /\ j \in DOMAIN ls /\ j < Len(l2)
      BY <3>2
    <3>3. CASE l2[j] = e
      <4>1. e.type = "response" /\ e.then = then
        BY <2>5, <3>3 DEF Told
      <4> QED
        BY <1>2, <2>3, <2>5, <3>3, <4>1 DEF Told, Sayable
    <3> QED
      BY <1>2, <2>3, <2>5, <3>1, <3>2, <3>3
  <2>6. \A i \in DOMAIN l2, j \in DOMAIN c : ~(Told(l2, i, "listed") /\ c[j].then = then)
    BY <1>2, <2>1 DEF Told, Sayable
  <2> QED
    BY <2>1, <2>4, <2>5, <2>6
<1>7. \A i \in DOMAIN l2 : LineOK(l2[i], f, held, last)
  BY <1>2 DEF QueuesOK
<1>8. \A o : Fresh(o, c, ls, qs, bs) => Fresh(o, c, l2, qs, bs)
  BY <1>2 DEF Fresh, Sayable
<1>9. NewSession(mgr, c, l2, qs, bs)
  <2>1. ASSUME NEW i \in DOMAIN l2, Told(l2, i, "opened"), l2[i].ok PROVE Fresh(l2[i].sid, c, l2, qs, bs)
    BY <2>1, <1>2, <1>8 DEF QueuesOK, NewSession, Told, Sayable
  <2> QED
    BY <2>1, <1>8 DEF QueuesOK, NewSession
<1> QED
  BY <1>1, <1>5, <1>6, <1>7, <1>9 DEF QueuesOK, Latest, l2

\* A frame reaches the Nano, of the session it was written in.
LEMMA QueuesAsk ==
  ASSUME NEW h, NEW mgr, NEW c, NEW ls, NEW qs, NEW bs, NEW f, NEW held, NEW last,
         QueuesOK(h, mgr, c, ls, qs, bs, f, held, last),
         NEW i \in DOMAIN c, c[i].op = "write", c[i].sid = bs
  PROVE  QueuesOK(h, mgr, c, ls, Append(qs, c[i].frame), bs, f, held, last)
<1> DEFINE q2 == Append(qs, c[i].frame)
<1>1. /\ IsSeq(q2) /\ Len(qs) \in Nat /\ Len(q2) = Len(qs) + 1 /\ DOMAIN qs = 1 .. Len(qs)
      /\ DOMAIN q2 = 1 .. Len(q2) /\ q2[Len(q2)] = c[i].frame /\ \A j \in 1 .. Len(qs) : q2[j] = qs[j]
  BY GrownByOne, SeqFacts DEF Grown, QueuesOK
<1> HIDE DEF q2
<1>2. \A j \in DOMAIN q2 : q2[j] = c[i].frame \/ (j \in DOMAIN qs /\ q2[j] = qs[j])
  BY <1>1
<1>3. \A j \in DOMAIN q2 : AskOK(q2[j], f)
  BY <1>2 DEF QueuesOK, CommandOK
<1>4. \A o : Fresh(o, c, ls, qs, bs) => Fresh(o, c, ls, q2, bs)
  BY DEF Fresh
<1>5. NewSession(mgr, c, ls, q2, bs)
  BY <1>4 DEF QueuesOK, NewSession
<1> QED
  BY <1>1, <1>3, <1>5 DEF QueuesOK, q2

\* The first command is given up: its answer will be ignored.
LEMMA QueuesForget ==
  ASSUME NEW h, NEW mgr, NEW c, NEW ls, NEW qs, NEW bs, NEW f, NEW held, NEW last,
         QueuesOK(h, mgr, c, ls, qs, bs, f, held, last), c # << >>
  PROVE  LET c2 == [c EXCEPT ![1].then = "nothing"] IN
         /\ QueuesOK(h, mgr, c2, ls, qs, bs, f, held, last)
         /\ IsSeq(c2) /\ Len(c2) = Len(c) /\ DOMAIN c2 = DOMAIN c /\ 1 \in DOMAIN c
         /\ c2[1].then = "nothing" /\ c2[1].op = c[1].op /\ c2[1].sid = c[1].sid
         /\ c2[1].frame = c[1].frame
         /\ \A i \in DOMAIN c : i # 1 => c2[i] = c[i]
         /\ Single(c[1].then, c, ls) => ~Outstanding(c[1].then, c2, ls) \/ c[1].then = "nothing"
         /\ \A then : Outstanding(then, c2, ls) /\ then # "nothing" => Outstanding(then, c, ls)
<1> DEFINE c2 == [c EXCEPT ![1].then = "nothing"]
<1>0. IsSeq(c) /\ Len(c) \in Nat /\ DOMAIN c = 1 .. Len(c) /\ 1 \in DOMAIN c
  BY SeqFacts DEF QueuesOK
<1>1. DOMAIN c2 = DOMAIN c /\ (\A i \in DOMAIN c : i # 1 => c2[i] = c[i])
  OBVIOUS
<1>2. c2[1] = [c[1] EXCEPT !.then = "nothing"]
  BY <1>0
<1>3. CommandOK(c[1], f, last)
  BY <1>0 DEF QueuesOK
<1>4. /\ c2[1].then = "nothing" /\ c2[1].op = c[1].op /\ c2[1].sid = c[1].sid
      /\ c2[1].frame = c[1].frame /\ DOMAIN c2[1] = DOMAIN c[1]
  BY <1>2, <1>3 DEF CommandOK
<1>5. CommandOK(c2[1], f, last)
  BY <1>3, <1>4 DEF CommandOK
<1>6. IsSeq(c2) /\ Len(c2) = Len(c)
  <2>1. PICK S : c \in Seq(S)
    BY <1>0 DEF IsSeq
  <2>2. c2 \in Seq(S \cup {c2[1]}) /\ Len(c2) = Len(c)
    BY <2>1, <1>0, <1>1
  <2> QED
    BY <2>2 DEF IsSeq
<1> HIDE DEF c2
<1>7. \A then : Outstanding(then, c2, ls) /\ then # "nothing" => Outstanding(then, c, ls)
  BY <1>1, <1>4 DEF Outstanding
<1>8. \A then : then # "nothing" /\ Single(then, c, ls) => Single(then, c2, ls)
  <2> SUFFICES ASSUME NEW then, then # "nothing", Single(then, c, ls) PROVE Single(then, c2, ls)
    OBVIOUS
  <2>1. \A i \in DOMAIN c2 : c2[i].then = then => i \in DOMAIN c /\ c[i].then = then
    BY <1>1, <1>4
  <2> QED
    BY <2>1 DEF Single
<1>9. Tickets(h, mgr, c2, ls)
  BY <1>7, <1>8 DEF QueuesOK, Tickets
<1>10. \A i \in DOMAIN c2, then \in Writes \cup {"listed", "request"} :
         c2[i].then = then => i \in DOMAIN c /\ c[i].then = then /\ c2[i] = c[i]
  BY <1>1, <1>4 DEF Writes
<1>11. Ordered(mgr, c2, ls)
  BY <1>7, <1>10 DEF QueuesOK, Ordered, Writes
<1>12. Latest(h, c2)
  BY <1>6, <1>10 DEF QueuesOK, Latest
<1>13. \A i \in DOMAIN c2 : CommandOK(c2[i], f, last)
  BY <1>1, <1>5 DEF QueuesOK
<1>14. \A o : Fresh(o, c, ls, qs, bs) => Fresh(o, c2, ls, qs, bs)
  BY <1>0, <1>1, <1>4 DEF Fresh
<1>15. NewSession(mgr, c2, ls, qs, bs)
  BY <1>14 DEF QueuesOK, NewSession
<1>16. Single(c[1].then, c, ls) => ~Outstanding(c[1].then, c2, ls) \/ c[1].then = "nothing"
  BY <1>0, <1>1, <1>4 DEF Single, Outstanding
<1>17. QueuesOK(h, mgr, c2, ls, qs, bs, f, held, last)
  BY <1>6, <1>9, <1>11, <1>12, <1>13, <1>15 DEF QueuesOK
<1> QED
  BY <1>0, <1>1, <1>4, <1>6, <1>7, <1>16, <1>17 DEF c2

-----------------------------------------------------------------------------
(* What becomes of the places.                                             *)

\* Further from the front, or with fewer listings: the request p that waits is the
\* same, and it fails only if one more has crossed.
LEMMA PlacedStill ==
  ASSUME NEW base \in Int, NEW own \in Int, NEW p, NEW d \in Int, NEW d2 \in Int, d2 <= d,
         NEW failing, NEW failing2, NEW x \in Int, NEW x2 \in Int, x <= x2,
         failing2 => failing \/ x + 1 <= x2,
         NEW kind, NEW path, NEW n,
         Placed(base, own, p, d, failing, x, kind, path, n)
  PROVE  Placed(base, own, p, d2, failing2, x2, kind, path, n)
<1>1. n \in Int /\ base < n /\ n <= own
  BY DEF Placed
<1>2. n <= x2 + base \/ (Own(p, own, kind, path, n) /\ ~failing2 /\ n <= x2 + base + 1)
  BY <1>1 DEF Placed
<1>3. kind = "file" => n + d2 <= x2 + base \/ Own(p, own, kind, path, n)
  BY <1>1 DEF Placed
<1> QED
  BY <1>1, <1>2, <1>3 DEF Placed

\* A numbering stays one for a depth that is not more and a count that is not less.
LEMMA RankedStill ==
  ASSUME NEW sid, NEW p, NEW d \in Int, NEW failing, NEW c, NEW ls, NEW qs, NEW bs, NEW dn,
         NEW x \in Int, Ranked(sid, p, d, failing, c, ls, qs, bs, dn, x),
         NEW d2 \in Int, d2 <= d, NEW x2 \in Int, x <= x2,
         NEW failing2, failing2 => failing \/ x + 1 <= x2
  PROVE  Ranked(sid, p, d2, failing2, c, ls, qs, bs, dn, x2)
<1>1. PICK base, own, rl, ra, rc :
        RankedBy(base, own, rl, ra, rc, sid, p, d, failing, c, ls, qs, bs, dn, x)
  BY DEF Ranked
<1>2. base \in Int /\ own \in Int
  BY <1>1 DEF RankedBy
<1>3. \A kind, path, n : Placed(base, own, p, d, failing, x, kind, path, n)
                           => Placed(base, own, p, d2, failing2, x2, kind, path, n)
  BY <1>2, PlacedStill
<1>4. LinesPlaced(base, own, rl, sid, p, d2, failing2, ls, x2)
  BY <1>1, <1>3 DEF RankedBy, LinesPlaced
<1>5. AsksPlaced(base, own, ra, sid, p, d2, failing2, qs, bs, x2)
  BY <1>1, <1>3 DEF RankedBy, AsksPlaced
<1>6. CommandsPlaced(base, own, rc, sid, p, d2, failing2, c, dn, x2)
  BY <1>1, <1>3 DEF RankedBy, CommandsPlaced
<1>7. RankedBy(base, own, rl, ra, rc, sid, p, d2, failing2, c, ls, qs, bs, dn, x2)
  BY <1>1, <1>4, <1>5, <1>6 DEF RankedBy
<1> QED
  BY <1>7 DEF Ranked

\* Nothing waited, or what waited has failed and the run with it.
LEMMA RankedFree ==
  ASSUME NEW sid, NEW p, NEW d \in Int, NEW failing, NEW c, NEW ls, NEW qs, NEW bs, NEW dn,
         NEW x \in Int, Ranked(sid, p, d, failing, c, ls, qs, bs, dn, x),
         NEW d2 \in Int, (~Awaits(p) /\ d2 <= d) \/ ((~Awaits(p) \/ failing) /\ d2 = 0),
         NEW p2, NEW failing2
  PROVE  Ranked(sid, p2, d2, failing2, c, ls, qs, bs, dn, x)
<1>1. PICK base, own, rl, ra, rc :
        RankedBy(base, own, rl, ra, rc, sid, p, d, failing, c, ls, qs, bs, dn, x)
  BY DEF Ranked
<1>2. base \in Int /\ own \in Int
  BY <1>1 DEF RankedBy
<1>3. \A kind, path, n : Placed(base, own, p, d, failing, x, kind, path, n)
                           => Placed(base, own, p2, d2, failing2, x, kind, path, n)
  <2> SUFFICES ASSUME NEW kind, NEW path, NEW n, Placed(base, own, p, d, failing, x, kind, path, n)
               PROVE  Placed(base, own, p2, d2, failing2, x, kind, path, n)
    OBVIOUS
  <2>1. n \in Int /\ base < n /\ n <= own /\ n <= x + base
    BY DEF Placed, Own
  <2>2. kind = "file" => n + d2 <= x + base
    BY <1>2, <2>1 DEF Placed, Own
  <2> QED
    BY <2>1, <2>2 DEF Placed
<1>4. LinesPlaced(base, own, rl, sid, p2, d2, failing2, ls, x)
  BY <1>1, <1>3 DEF RankedBy, LinesPlaced
<1>5. AsksPlaced(base, own, ra, sid, p2, d2, failing2, qs, bs, x)
  BY <1>1, <1>3 DEF RankedBy, AsksPlaced
<1>6. CommandsPlaced(base, own, rc, sid, p2, d2, failing2, c, dn, x)
  BY <1>1, <1>3 DEF RankedBy, CommandsPlaced
<1>7. RankedBy(base, own, rl, ra, rc, sid, p2, d2, failing2, c, ls, qs, bs, dn, x)
  BY <1>1, <1>4, <1>5, <1>6 DEF RankedBy
<1> QED
  BY <1>7 DEF Ranked

\* Nothing is on its way.
LEMMA RankedNone ==
  ASSUME NEW sid, NEW p, NEW d, NEW failing, NEW c, NEW ls, NEW qs, NEW bs, NEW dn, NEW x,
         \A i : ~InLines(i, sid, ls) /\ ~InAsks(i, sid, qs, bs) /\ ~InCommands(i, sid, c, dn)
  PROVE  Ranked(sid, p, d, failing, c, ls, qs, bs, dn, x)
<1>1. RankedBy(0, 0, << >>, << >>, << >>, sid, p, d, failing, c, ls, qs, bs, dn, x)
  BY DEF RankedBy, LinesPlaced, AsksPlaced, CommandsPlaced, InOrder
<1> QED
  BY <1>1 DEF Ranked

\* What is on its way was, where it is.
LEMMA RankedSame ==
  ASSUME NEW sid, NEW p, NEW d, NEW failing, NEW c, NEW ls, NEW qs, NEW bs, NEW dn,
         NEW x, Ranked(sid, p, d, failing, c, ls, qs, bs, dn, x),
         NEW c2, NEW ls2, NEW qs2, NEW bs2, NEW dn2,
         \A i : InLines(i, sid, ls2) => InLines(i, sid, ls) /\ ls2[i] = ls[i],
         \A i : InAsks(i, sid, qs2, bs2) => InAsks(i, sid, qs, bs) /\ qs2[i] = qs[i],
         \A i : InCommands(i, sid, c2, dn2) => InCommands(i, sid, c, dn) /\ c2[i].frame = c[i].frame
  PROVE  Ranked(sid, p, d, failing, c2, ls2, qs2, bs2, dn2, x)
<1>1. PICK base, own, rl, ra, rc :
        RankedBy(base, own, rl, ra, rc, sid, p, d, failing, c, ls, qs, bs, dn, x)
  BY DEF Ranked
<1>2. /\ \A i : InLines(i, sid, ls) => i \in DOMAIN ls
      /\ \A i : InAsks(i, sid, qs, bs) => i \in DOMAIN qs
      /\ \A i : InCommands(i, sid, c, dn) => i \in DOMAIN c
  BY DEF InLines, InAsks, InCommands
<1>3. LinesPlaced(base, own, rl, sid, p, d, failing, ls2, x)
  BY <1>1, <1>2 DEF RankedBy, LinesPlaced
<1>4. AsksPlaced(base, own, ra, sid, p, d, failing, qs2, bs2, x)
  BY <1>1, <1>2 DEF RankedBy, AsksPlaced
<1>5. CommandsPlaced(base, own, rc, sid, p, d, failing, c2, dn2, x)
  <2>1. \A i \in DOMAIN c2 : InCommands(i, sid, c2, dn2) =>
          Placed(base, own, p, d, failing, x, c2[i].frame.type, c2[i].frame.path, rc[i])
    BY <1>1, <1>2 DEF RankedBy, CommandsPlaced
  <2>2. \A i, j \in DOMAIN c2 : i < j /\ InCommands(i, sid, c2, dn2) /\ InCommands(j, sid, c2, dn2)
          => rc[i] < rc[j]
    BY <1>1, <1>2 DEF RankedBy, CommandsPlaced
  <2> QED
    BY <2>1, <2>2 DEF CommandsPlaced
<1>6. InOrder(rl, ra, rc, sid, c2, ls2, qs2, bs2, dn2)
  BY <1>1, <1>2 DEF RankedBy, InOrder
<1>7. RankedBy(base, own, rl, ra, rc, sid, p, d, failing, c2, ls2, qs2, bs2, dn2, x)
  BY <1>1, <1>3, <1>4, <1>5, <1>6 DEF RankedBy
<1> QED
  BY <1>7 DEF Ranked

\* Something is taken from the heads.
LEMMA RankedRest ==
  ASSUME NEW sid, NEW p, NEW d, NEW failing, NEW c, NEW ls, NEW qs, NEW bs, NEW dn,
         NEW x, Ranked(sid, p, d, failing, c, ls, qs, bs, dn, x),
         NEW c2, IsRest(c2, c), NEW ls2, IsRest(ls2, ls), NEW qs2, IsRest(qs2, qs),
         NEW dn2, c2 = c => dn2 = dn,
         c2 = c \/ (c # << >> /\ c2 = Tail(c))
  PROVE  Ranked(sid, p, d, failing, c2, ls2, qs2, bs, dn2, x)
<1>1. PICK base, own, rl, ra, rc :
        RankedBy(base, own, rl, ra, rc, sid, p, d, failing, c, ls, qs, bs, dn, x)
  BY DEF Ranked
<1>2. PICK l \in Nat :
        /\ Len(ls2) = Len(ls) - l
        /\ \A i \in DOMAIN ls2 : i \in Nat /\ i + l \in DOMAIN ls /\ ls2[i] = ls[i + l]
  BY RestAt, SMTT(30)
<1>3. PICK n \in Nat :
        /\ Len(qs2) = Len(qs) - n
        /\ \A i \in DOMAIN qs2 : i \in Nat /\ i + n \in DOMAIN qs /\ qs2[i] = qs[i + n]
  BY RestAt, SMTT(30)
<1>4. PICK k \in Nat :
        \A i \in DOMAIN c2 :
          /\ i \in Nat /\ i + k \in DOMAIN c /\ c2[i] = c[i + k]
          /\ i + k = 1 => i = 1 /\ dn2 = dn
  <2>1. IsSeq(c) /\ DOMAIN c = 1 .. Len(c) /\ Len(c) \in Nat
    BY RestAt
  <2>2. CASE c2 = c
    <3>1. \A i \in DOMAIN c2 : i \in Nat /\ i + 0 \in DOMAIN c /\ c2[i] = c[i + 0] /\ dn2 = dn
      BY <2>1, <2>2
    <3>2. \A i \in DOMAIN c2 : i + 0 = 1 => i = 1
      BY <3>1
    <3> QED
      BY <3>1, <3>2
  <2>3. CASE c # << >> /\ c2 = Tail(c)
    <3>1. DOMAIN c2 = 1 .. Len(c) - 1 /\ \A i \in 1 .. Len(c) - 1 : c2[i] = c[i + 1]
      BY <2>1, <2>3, RestOfHead
    <3>2. \A i \in DOMAIN c2 : i \in Nat /\ i + 1 \in DOMAIN c /\ c2[i] = c[i + 1] /\ i + 1 # 1
      BY <2>1, <3>1
    <3> QED
      BY <3>2
  <2> QED
    BY <2>2, <2>3
<1> DEFINE rl2 == [i \in DOMAIN ls2 |-> rl[i + l]]
           ra2 == [i \in DOMAIN qs2 |-> ra[i + n]]
           rc2 == [i \in DOMAIN c2 |-> rc[i + k]]
<1>5. /\ \A i : InLines(i, sid, ls2) => i \in DOMAIN ls2 /\ InLines(i + l, sid, ls) /\ rl2[i] = rl[i + l]
      /\ \A i : InAsks(i, sid, qs2, bs) => i \in DOMAIN qs2 /\ InAsks(i + n, sid, qs, bs) /\ ra2[i] = ra[i + n]
      /\ \A i : InCommands(i, sid, c2, dn2) => i \in DOMAIN c2 /\ InCommands(i + k, sid, c, dn) /\ rc2[i] = rc[i + k]
  BY <1>2, <1>3, <1>4 DEF InLines, InAsks, InCommands
<1> HIDE DEF rl2, ra2, rc2
<1>6. LinesPlaced(base, own, rl2, sid, p, d, failing, ls2, x)
  <2>1. \A i \in DOMAIN ls2 : InLines(i, sid, ls2) =>
          Placed(base, own, p, d, failing, x, ls2[i].frame.kind, ls2[i].frame.data.path, rl2[i])
    BY <1>1, <1>2, <1>5 DEF RankedBy, LinesPlaced
  <2>2. ASSUME NEW i \in DOMAIN ls2, NEW j \in DOMAIN ls2, i < j, InLines(i, sid, ls2), InLines(j, sid, ls2)
        PROVE  rl2[i] < rl2[j]
    <3>1. i + l < j + l /\ i + l \in DOMAIN ls /\ j + l \in DOMAIN ls
      BY <1>2, <2>2
    <3> QED
      BY <1>1, <1>5, <2>2, <3>1 DEF RankedBy, LinesPlaced
  <2> QED
    BY <2>1, <2>2 DEF LinesPlaced
<1>7. AsksPlaced(base, own, ra2, sid, p, d, failing, qs2, bs, x)
  <2>1. \A i \in DOMAIN qs2 : InAsks(i, sid, qs2, bs) =>
          Placed(base, own, p, d, failing, x, qs2[i].type, qs2[i].path, ra2[i])
    BY <1>1, <1>3, <1>5 DEF RankedBy, AsksPlaced
  <2>2. ASSUME NEW i \in DOMAIN qs2, NEW j \in DOMAIN qs2, i < j, InAsks(i, sid, qs2, bs), InAsks(j, sid, qs2, bs)
        PROVE  ra2[i] < ra2[j]
    <3>1. i + n < j + n /\ i + n \in DOMAIN qs /\ j + n \in DOMAIN qs
      BY <1>3, <2>2
    <3> QED
      BY <1>1, <1>5, <2>2, <3>1 DEF RankedBy, AsksPlaced
  <2> QED
    BY <2>1, <2>2 DEF AsksPlaced
<1>8. CommandsPlaced(base, own, rc2, sid, p, d, failing, c2, dn2, x)
  <2>1. \A i \in DOMAIN c2 : InCommands(i, sid, c2, dn2) =>
          Placed(base, own, p, d, failing, x, c2[i].frame.type, c2[i].frame.path, rc2[i])
    BY <1>1, <1>4, <1>5 DEF RankedBy, CommandsPlaced
  <2>2. ASSUME NEW i \in DOMAIN c2, NEW j \in DOMAIN c2, i < j,
               InCommands(i, sid, c2, dn2), InCommands(j, sid, c2, dn2)
        PROVE  rc2[i] < rc2[j]
    <3>1. i + k < j + k /\ i + k \in DOMAIN c /\ j + k \in DOMAIN c
      BY <1>4, <2>2
    <3> QED
      BY <1>1, <1>5, <2>2, <3>1 DEF RankedBy, CommandsPlaced
  <2> QED
    BY <2>1, <2>2 DEF CommandsPlaced
<1>9. InOrder(rl2, ra2, rc2, sid, c2, ls2, qs2, bs, dn2)
  BY <1>1, <1>2, <1>3, <1>4, <1>5 DEF RankedBy, InOrder
<1>10. RankedBy(base, own, rl2, ra2, rc2, sid, p, d, failing, c2, ls2, qs2, bs, dn2, x)
  BY <1>1, <1>6, <1>7, <1>8, <1>9 DEF RankedBy
<1> QED
  BY <1>10 DEF Ranked

\* A request is written behind all that is on its way, when none waits.
LEMMA RankedIssue ==
  ASSUME NEW sid, NEW p, NEW d \in Int, NEW failing, NEW c, NEW ls, NEW qs, NEW bs, NEW dn,
         NEW x \in Nat, Ranked(sid, p, d, failing, c, ls, qs, bs, dn, x), ~Awaits(p), IsSeq(c),
         NEW p2, Awaits(p2), NEW d2 \in Int, d2 <= d,
         NEW e, e.frame.type = p2.kind, e.frame.path = p2.path
  PROVE  Ranked(sid, p2, d2, FALSE, Append(c, e), ls, qs, bs, dn, x)
<1>1. PICK base, own, rl, ra, rc :
        RankedBy(base, own, rl, ra, rc, sid, p, d, failing, c, ls, qs, bs, dn, x)
  BY DEF Ranked
<1>2. base \in Int /\ own \in Int
  BY <1>1 DEF RankedBy
<1> DEFINE last == x + base + 1
           c2   == Append(c, e)
           rc2  == [i \in DOMAIN c2 |-> IF i = Len(c2) THEN last ELSE rc[i]]
<1>3. /\ Len(c) \in Nat /\ Len(c2) = Len(c) + 1 /\ DOMAIN c = 1 .. Len(c) /\ DOMAIN c2 = 1 .. Len(c2)
      /\ c2[Len(c2)] = e /\ \A i \in 1 .. Len(c) : c2[i] = c[i]
  BY GrownByOne, SeqFacts DEF Grown
<1>4. rc2[Len(c2)] = last /\ \A i \in DOMAIN c : rc2[i] = rc[i]
  BY <1>3
<1>5. last \in Int
  BY <1>2
<1> HIDE DEF rc2, c2
<1>6. \A i \in DOMAIN c2 : \/ i = Len(c2) /\ c2[i] = e /\ rc2[i] = last
                           \/ i \in DOMAIN c /\ c2[i] = c[i] /\ rc2[i] = rc[i] /\ i < Len(c2) /\ i \in Nat
  BY <1>3, <1>4
<1>7. \A i : InCommands(i, sid, c2, dn) =>
        \/ i = Len(c2) /\ c2[i] = e /\ rc2[i] = last
        \/ InCommands(i, sid, c, dn) /\ i \in DOMAIN c /\ c2[i] = c[i] /\ rc2[i] = rc[i] /\ i < Len(c2)
  BY <1>6 DEF InCommands
<1>8. \A kind, path, n : Placed(base, own, p, d, failing, x, kind, path, n)
                           => Placed(base, last, p2, d2, FALSE, x, kind, path, n) /\ n < last /\ n \in Int
  <2> SUFFICES ASSUME NEW kind, NEW path, NEW n, Placed(base, own, p, d, failing, x, kind, path, n)
               PROVE  Placed(base, last, p2, d2, FALSE, x, kind, path, n) /\ n < last /\ n \in Int
    OBVIOUS
  <2>1. n \in Int /\ base < n /\ n <= x + base
    BY DEF Placed, Own
  <2>2. n < last
    BY <1>2, <2>1
  <2>3. kind = "file" => n + d2 <= x + base
    BY <1>2, <2>1 DEF Placed, Own
  <2>4. n <= last
    BY <1>5, <2>1, <2>2
  <2> HIDE DEF last
  <2> QED
    BY <2>1, <2>2, <2>3, <2>4 DEF Placed
<1>9. Placed(base, last, p2, d2, FALSE, x, p2.kind, p2.path, last)
  <2>1. base < last /\ last <= x + base + 1
    BY <1>2
  <2>2. last <= last
    BY <1>5
  <2> HIDE DEF last
  <2> QED
    BY <1>5, <2>1, <2>2 DEF Placed, Own
<1> HIDE DEF last
<1>10. LinesPlaced(base, last, rl, sid, p2, d2, FALSE, ls, x)
  BY <1>1, <1>8 DEF RankedBy, LinesPlaced
<1>11. AsksPlaced(base, last, ra, sid, p2, d2, FALSE, qs, bs, x)
  BY <1>1, <1>8 DEF RankedBy, AsksPlaced
<1>12. CommandsPlaced(base, last, rc2, sid, p2, d2, FALSE, c2, dn, x)
  <2>1. ASSUME NEW i \in DOMAIN c2, InCommands(i, sid, c2, dn)
        PROVE  Placed(base, last, p2, d2, FALSE, x, c2[i].frame.type, c2[i].frame.path, rc2[i])
    <3>1. CASE c2[i] = e /\ rc2[i] = last
      BY <1>9, <3>1
    <3>2. CASE InCommands(i, sid, c, dn) /\ i \in DOMAIN c /\ c2[i] = c[i] /\ rc2[i] = rc[i]
      BY <1>1, <1>8, <3>2 DEF RankedBy, CommandsPlaced
    <3> QED
      BY <1>7, <2>1, <3>1, <3>2
  <2>2. ASSUME NEW i \in DOMAIN c2, NEW j \in DOMAIN c2, i < j, InCommands(i, sid, c2, dn), InCommands(j, sid, c2, dn)
        PROVE  rc2[i] < rc2[j]
    <3>1. i # Len(c2)
      BY <1>3, <2>2
    <3>2. InCommands(i, sid, c, dn) /\ i \in DOMAIN c /\ rc2[i] = rc[i]
      BY <1>7, <2>2, <3>1
    <3>3. CASE rc2[j] = last
      BY <1>1, <1>8, <3>2, <3>3 DEF RankedBy, CommandsPlaced
    <3>4. CASE InCommands(j, sid, c, dn) /\ j \in DOMAIN c /\ rc2[j] = rc[j]
      BY <1>1, <2>2, <3>2, <3>4 DEF RankedBy, CommandsPlaced
    <3> QED
      BY <1>7, <2>2, <3>3, <3>4
  <2> QED
    BY <2>1, <2>2 DEF CommandsPlaced
<1>13. InOrder(rl, ra, rc2, sid, c2, ls, qs, bs, dn)
  <2>1. ASSUME NEW i \in DOMAIN ls, NEW j \in DOMAIN c2, InLines(i, sid, ls), InCommands(j, sid, c2, dn)
        PROVE  rl[i] < rc2[j]
    <3>1. CASE rc2[j] = last
      BY <1>1, <1>8, <2>1, <3>1 DEF RankedBy, LinesPlaced
    <3>2. CASE InCommands(j, sid, c, dn) /\ j \in DOMAIN c /\ rc2[j] = rc[j]
      BY <1>1, <2>1, <3>2 DEF RankedBy, InOrder
    <3> QED
      BY <1>7, <2>1, <3>1, <3>2
  <2>2. ASSUME NEW i \in DOMAIN qs, NEW j \in DOMAIN c2, InAsks(i, sid, qs, bs), InCommands(j, sid, c2, dn)
        PROVE  ra[i] < rc2[j]
    <3>1. CASE rc2[j] = last
      BY <1>1, <1>8, <2>2, <3>1 DEF RankedBy, AsksPlaced
    <3>2. CASE InCommands(j, sid, c, dn) /\ j \in DOMAIN c /\ rc2[j] = rc[j]
      BY <1>1, <2>2, <3>2 DEF RankedBy, InOrder
    <3> QED
      BY <1>7, <2>2, <3>1, <3>2
  <2> QED
    BY <1>1, <2>1, <2>2 DEF RankedBy, InOrder
<1>14. RankedBy(base, last, rl, ra, rc2, sid, p2, d2, FALSE, c2, ls, qs, bs, dn, x)
  BY <1>2, <1>5, <1>10, <1>11, <1>12, <1>13 DEF RankedBy
<1> QED
  BY <1>14 DEF Ranked, c2

\* The first chunk at the head of the lines is taken for the answer to the request p:
\* the log of another is not, as two listings were taken before it, and a listing of
\* another only after a request that crossed.
LEMMA RankedTake ==
  ASSUME NEW sid, NEW p, NEW d \in Int, NEW failing, NEW c, NEW ls, NEW qs, NEW bs, NEW dn,
         NEW x \in Nat, x < 3, Ranked(sid, p, d, failing, c, ls, qs, bs, dn, x),
         IsSeq(ls), ls # << >>, IsSeq(c), IsSeq(qs),
         InLines(1, sid, ls), Awaits(p), ls[1].frame.kind = p.kind,
         p.kind = "file" => d = 2
  PROVE  /\ p.kind = "file" => ls[1].frame.data.path = p.path
         /\ x = 0 => ls[1].frame.data.path = p.path
         /\ \A p2, failing2 : \A d2 \in Int :
              d2 = 0 \/ d2 <= (IF p.kind = "file" THEN d ELSE d + 1)
              => Ranked(sid, p2, d2, failing2, c, Tail(ls), qs, bs, dn, x)
<1>1. PICK base, own, rl, ra, rc :
        RankedBy(base, own, rl, ra, rc, sid, p, d, failing, c, ls, qs, bs, dn, x)
  BY DEF Ranked
<1>2. base \in Int /\ own \in Int
  BY <1>1 DEF RankedBy
<1>3. /\ Len(ls) \in Nat /\ DOMAIN ls = 1 .. Len(ls) /\ 1 \in DOMAIN ls
      /\ DOMAIN Tail(ls) = 1 .. Len(ls) - 1 /\ \A i \in 1 .. Len(ls) - 1 : Tail(ls)[i] = ls[i + 1]
  BY RestOfHead, SeqFacts
<1> DEFINE n1 == rl[1]
<1>4. Placed(base, own, p, d, failing, x, p.kind, ls[1].frame.data.path, n1)
  BY <1>1, <1>3 DEF RankedBy, LinesPlaced
<1>5. n1 \in Int /\ base < n1 /\ n1 <= own
  BY <1>4 DEF Placed
<1> HIDE DEF n1
<1>6. p.kind = "file" => Own(p, own, p.kind, ls[1].frame.data.path, n1)
  <2>1. p.kind = "file" => ~(n1 + d <= x + base)
    BY <1>2, <1>5
  <2> QED
    BY <1>4, <2>1 DEF Placed
<1>7. x = 0 => Own(p, own, p.kind, ls[1].frame.data.path, n1)
  <2>1. x = 0 => ~(n1 <= x + base)
    BY <1>2, <1>5
  <2> QED
    BY <1>4, <2>1 DEF Placed
<1>8. ASSUME NEW p2, NEW failing2, NEW d2 \in Int, d2 = 0 \/ d2 <= (IF p.kind = "file" THEN d ELSE d + 1)
      PROVE  Ranked(sid, p2, d2, failing2, c, Tail(ls), qs, bs, dn, x)
  <2>1. ASSUME NEW kind, NEW path, NEW n, Placed(base, own, p, d, failing, x, kind, path, n), n1 < n
        PROVE  Placed(n1, own, p2, d2, failing2, x, kind, path, n)
    <3>1. n \in Int /\ n1 < n /\ n <= own
      BY <2>1 DEF Placed
    <3>2. n <= x + n1
      BY <1>2, <1>5, <2>1, <3>1 DEF Placed
    <3>3. kind = "file" /\ p.kind = "file" => n + d2 <= x + n1
      <4>1. p.kind = "file" => own = n1
        BY <1>6 DEF Own
      <4> QED
        BY <1>5, <3>1, <4>1
    <3>4. kind = "file" /\ p.kind # "file" => n + d2 <= x + n1
      <4>1. kind = "file" /\ p.kind # "file" => n + d <= x + base
        BY <2>1 DEF Placed, Own
      <4> QED
        BY <1>2, <1>5, <1>8, <3>1, <3>2, <4>1
    <3> QED
      BY <3>1, <3>2, <3>3, <3>4 DEF Placed
  <2> DEFINE l2  == Tail(ls)
             rl2 == [i \in DOMAIN l2 |-> rl[i + 1]]
  <2>2. \A i \in DOMAIN l2 : /\ i \in Nat /\ i + 1 \in DOMAIN ls /\ l2[i] = ls[i + 1]
                             /\ rl2[i] = rl[i + 1] /\ 1 < i + 1
    BY <1>3
  <2>3. \A i \in DOMAIN l2 : InLines(i, sid, l2) => InLines(i + 1, sid, ls) /\ n1 < rl[i + 1]
    BY <1>1, <1>3, <2>2 DEF RankedBy, LinesPlaced, InLines, n1
  <2> HIDE DEF rl2, l2
  <2>4. LinesPlaced(n1, own, rl2, sid, p2, d2, failing2, l2, x)
    <3>1. ASSUME NEW i \in DOMAIN l2, InLines(i, sid, l2)
          PROVE  Placed(n1, own, p2, d2, failing2, x, l2[i].frame.kind, l2[i].frame.data.path, rl2[i])
      BY <1>1, <2>1, <2>2, <2>3, <3>1 DEF RankedBy, LinesPlaced
    <3>2. ASSUME NEW i \in DOMAIN l2, NEW j \in DOMAIN l2, i < j, InLines(i, sid, l2), InLines(j, sid, l2)
          PROVE  rl2[i] < rl2[j]
      <4>1. i + 1 < j + 1
        BY <2>2, <3>2
      <4> QED
        BY <1>1, <2>2, <2>3, <3>2, <4>1 DEF RankedBy, LinesPlaced
    <3> QED
      BY <3>1, <3>2 DEF LinesPlaced
  <2>5. AsksPlaced(n1, own, ra, sid, p2, d2, failing2, qs, bs, x)
    <3>1. \A i \in DOMAIN qs : InAsks(i, sid, qs, bs) => n1 < ra[i]
      BY <1>1, <1>3 DEF RankedBy, InOrder, n1
    <3> QED
      BY <1>1, <2>1, <3>1 DEF RankedBy, AsksPlaced
  <2>6. CommandsPlaced(n1, own, rc, sid, p2, d2, failing2, c, dn, x)
    <3>1. \A i \in DOMAIN c : InCommands(i, sid, c, dn) => n1 < rc[i]
      BY <1>1, <1>3 DEF RankedBy, InOrder, n1
    <3> QED
      BY <1>1, <2>1, <3>1 DEF RankedBy, CommandsPlaced
  <2>7. InOrder(rl2, ra, rc, sid, c, l2, qs, bs, dn)
    BY <1>1, <2>2, <2>3 DEF RankedBy, InOrder
  <2>8. RankedBy(n1, own, rl2, ra, rc, sid, p2, d2, failing2, c, l2, qs, bs, dn, x)
    BY <1>2, <1>5, <2>4, <2>5, <2>6, <2>7 DEF RankedBy
  <2> QED
    BY <2>8 DEF Ranked, l2
<1> QED
  BY <1>6, <1>7, <1>8 DEF Own

\* The Nano answers the head of what it was asked: the answer has its place.
LEMMA RankedServe ==
  ASSUME NEW sid, NEW p, NEW d, NEW failing, NEW c, NEW ls, NEW qs, NEW bs, NEW dn,
         NEW x, Ranked(sid, p, d, failing, c, ls, qs, bs, dn, x),
         IsSeq(ls), IsSeq(qs), qs # << >>, NEW e,
         sid # 0 /\ e.type = "data" /\ e.sid = sid /\ FirstChunk(e.frame) =>
           InAsks(1, sid, qs, bs) /\ e.frame.kind = qs[1].type /\ e.frame.data.path = qs[1].path
  PROVE  Ranked(sid, p, d, failing, c, Append(ls, e), Tail(qs), bs, dn, x)
<1>1. PICK base, own, rl, ra, rc :
        RankedBy(base, own, rl, ra, rc, sid, p, d, failing, c, ls, qs, bs, dn, x)
  BY DEF Ranked
<1>2. /\ Len(qs) \in Nat /\ DOMAIN qs = 1 .. Len(qs) /\ 1 \in DOMAIN qs
      /\ DOMAIN Tail(qs) = 1 .. Len(qs) - 1 /\ \A i \in 1 .. Len(qs) - 1 : Tail(qs)[i] = qs[i + 1]
  BY RestOfHead, SeqFacts
<1> DEFINE l2  == Append(ls, e)
           q2  == Tail(qs)
           rl2 == [i \in DOMAIN l2 |-> IF i = Len(l2) THEN ra[1] ELSE rl[i]]
           ra2 == [i \in DOMAIN q2 |-> ra[i + 1]]
<1>3. /\ Len(ls) \in Nat /\ Len(l2) = Len(ls) + 1 /\ DOMAIN ls = 1 .. Len(ls) /\ DOMAIN l2 = 1 .. Len(l2)
      /\ l2[Len(l2)] = e /\ \A i \in 1 .. Len(ls) : l2[i] = ls[i]
  BY GrownByOne, SeqFacts DEF Grown
<1>4. \A i \in DOMAIN l2 :
        \/ i = Len(l2) /\ l2[i] = e /\ rl2[i] = ra[1]
        \/ i \in DOMAIN ls /\ l2[i] = ls[i] /\ rl2[i] = rl[i] /\ i < Len(l2)
  BY <1>3
<1>5. \A i \in DOMAIN q2 : /\ i \in Nat /\ i + 1 \in DOMAIN qs /\ q2[i] = qs[i + 1]
                           /\ ra2[i] = ra[i + 1] /\ 1 < i + 1
  BY <1>2
<1> HIDE DEF l2, q2, rl2, ra2
<1>6. \A i : InLines(i, sid, l2) =>
        \/ /\ i = Len(l2) /\ rl2[i] = ra[1] /\ l2[i] = e
           /\ InAsks(1, sid, qs, bs) /\ e.frame.kind = qs[1].type /\ e.frame.data.path = qs[1].path
        \/ InLines(i, sid, ls) /\ i \in DOMAIN ls /\ l2[i] = ls[i] /\ rl2[i] = rl[i] /\ i < Len(l2)
  BY <1>4 DEF InLines
<1>7. \A i : InAsks(i, sid, q2, bs) =>
        i \in DOMAIN q2 /\ i + 1 \in DOMAIN qs /\ InAsks(i + 1, sid, qs, bs) /\ ra2[i] = ra[i + 1]
        /\ q2[i] = qs[i + 1] /\ 1 < i + 1 /\ i \in Nat
  BY <1>5 DEF InAsks
<1>8. LinesPlaced(base, own, rl2, sid, p, d, failing, l2, x)
  <2>1. ASSUME NEW i \in DOMAIN l2, InLines(i, sid, l2)
        PROVE  Placed(base, own, p, d, failing, x, l2[i].frame.kind, l2[i].frame.data.path, rl2[i])
    <3>1. CASE l2[i] = e /\ rl2[i] = ra[1] /\ InAsks(1, sid, qs, bs)
               /\ e.frame.kind = qs[1].type /\ e.frame.data.path = qs[1].path
      BY <1>1, <1>2, <3>1 DEF RankedBy, AsksPlaced
    <3>2. CASE InLines(i, sid, ls) /\ i \in DOMAIN ls /\ l2[i] = ls[i] /\ rl2[i] = rl[i]
      BY <1>1, <3>2 DEF RankedBy, LinesPlaced
    <3> QED
      BY <1>6, <2>1, <3>1, <3>2
  <2>2. ASSUME NEW i \in DOMAIN l2, NEW j \in DOMAIN l2, i < j, InLines(i, sid, l2), InLines(j, sid, l2)
        PROVE  rl2[i] < rl2[j]
    <3>1. i # Len(l2)
      BY <1>3, <2>2
    <3>2. InLines(i, sid, ls) /\ i \in DOMAIN ls /\ rl2[i] = rl[i]
      BY <1>6, <2>2, <3>1
    <3>3. CASE rl2[j] = ra[1] /\ InAsks(1, sid, qs, bs)
      BY <1>1, <1>2, <3>2, <3>3 DEF RankedBy, InOrder
    <3>4. CASE InLines(j, sid, ls) /\ j \in DOMAIN ls /\ rl2[j] = rl[j]
      BY <1>1, <2>2, <3>2, <3>4 DEF RankedBy, LinesPlaced
    <3> QED
      BY <1>6, <2>2, <3>3, <3>4
  <2> QED
    BY <2>1, <2>2 DEF LinesPlaced
<1>9. AsksPlaced(base, own, ra2, sid, p, d, failing, q2, bs, x)
  <2>1. \A i \in DOMAIN q2 : InAsks(i, sid, q2, bs) =>
          Placed(base, own, p, d, failing, x, q2[i].type, q2[i].path, ra2[i])
    BY <1>1, <1>7 DEF RankedBy, AsksPlaced
  <2>2. ASSUME NEW i \in DOMAIN q2, NEW j \in DOMAIN q2, i < j, InAsks(i, sid, q2, bs), InAsks(j, sid, q2, bs)
        PROVE  ra2[i] < ra2[j]
    <3>1. i + 1 < j + 1
      BY <1>5, <2>2
    <3> QED
      BY <1>1, <1>7, <2>2, <3>1 DEF RankedBy, AsksPlaced
  <2> QED
    BY <2>1, <2>2 DEF AsksPlaced
<1>10. InOrder(rl2, ra2, rc, sid, c, l2, q2, bs, dn)
  <2>1. ASSUME NEW i \in DOMAIN l2, NEW j \in DOMAIN q2, InLines(i, sid, l2), InAsks(j, sid, q2, bs)
        PROVE  rl2[i] < ra2[j]
    <3>1. CASE rl2[i] = ra[1] /\ InAsks(1, sid, qs, bs)
      BY <1>1, <1>2, <1>7, <2>1, <3>1 DEF RankedBy, AsksPlaced
    <3>2. CASE InLines(i, sid, ls) /\ i \in DOMAIN ls /\ rl2[i] = rl[i]
      BY <1>1, <1>7, <2>1, <3>2 DEF RankedBy, InOrder
    <3> QED
      BY <1>6, <2>1, <3>1, <3>2
  <2>2. ASSUME NEW i \in DOMAIN l2, NEW j \in DOMAIN c, InLines(i, sid, l2), InCommands(j, sid, c, dn)
        PROVE  rl2[i] < rc[j]
    <3>1. CASE rl2[i] = ra[1] /\ InAsks(1, sid, qs, bs)
      BY <1>1, <1>2, <2>2, <3>1 DEF RankedBy, InOrder
    <3>2. CASE InLines(i, sid, ls) /\ i \in DOMAIN ls /\ rl2[i] = rl[i]
      BY <1>1, <2>2, <3>2 DEF RankedBy, InOrder
    <3> QED
      BY <1>6, <2>2, <3>1, <3>2
  <2>3. \A i \in DOMAIN q2, j \in DOMAIN c : InAsks(i, sid, q2, bs) /\ InCommands(j, sid, c, dn) => ra2[i] < rc[j]
    BY <1>1, <1>7 DEF RankedBy, InOrder
  <2> QED
    BY <2>1, <2>2, <2>3 DEF InOrder
<1>11. RankedBy(base, own, rl2, ra2, rc, sid, p, d, failing, c, l2, q2, bs, dn, x)
  BY <1>1, <1>8, <1>9, <1>10 DEF RankedBy
<1> QED
  BY <1>11 DEF Ranked, l2, q2

\* A written frame reaches the Nano and is behind what it was asked before.
LEMMA RankedWrite ==
  ASSUME NEW sid, NEW p, NEW d, NEW failing, NEW c, NEW ls, NEW qs, NEW bs, NEW dn,
         NEW x, Ranked(sid, p, d, failing, c, ls, qs, bs, dn, x),
         IsSeq(c), c # << >>, IsSeq(qs), dn = "no", c[1].op = "write", c[1].sid = bs,
         NEW dn2, dn2 # "no"
  PROVE  Ranked(sid, p, d, failing, c, ls, Append(qs, c[1].frame), bs, dn2, x)
<1>1. PICK base, own, rl, ra, rc :
        RankedBy(base, own, rl, ra, rc, sid, p, d, failing, c, ls, qs, bs, dn, x)
  BY DEF Ranked
<1>2. DOMAIN c = 1 .. Len(c) /\ Len(c) \in Nat /\ 1 \in DOMAIN c
  BY RestOfHead, SeqFacts
<1> DEFINE q2  == Append(qs, c[1].frame)
           ra2 == [i \in DOMAIN q2 |-> IF i = Len(q2) THEN rc[1] ELSE ra[i]]
<1>3. /\ Len(qs) \in Nat /\ Len(q2) = Len(qs) + 1 /\ DOMAIN qs = 1 .. Len(qs) /\ DOMAIN q2 = 1 .. Len(q2)
      /\ q2[Len(q2)] = c[1].frame /\ \A i \in 1 .. Len(qs) : q2[i] = qs[i]
  BY GrownByOne, SeqFacts DEF Grown
<1>4. \A i \in DOMAIN q2 :
        \/ i = Len(q2) /\ q2[i] = c[1].frame /\ ra2[i] = rc[1]
        \/ i \in DOMAIN qs /\ q2[i] = qs[i] /\ ra2[i] = ra[i] /\ i < Len(q2)
  BY <1>3
<1> HIDE DEF q2, ra2
<1>5. \A i : InAsks(i, sid, q2, bs) =>
        \/ i = Len(q2) /\ q2[i] = c[1].frame /\ ra2[i] = rc[1] /\ InCommands(1, sid, c, dn)
        \/ InAsks(i, sid, qs, bs) /\ i \in DOMAIN qs /\ q2[i] = qs[i] /\ ra2[i] = ra[i] /\ i < Len(q2)
  BY <1>2, <1>4 DEF InAsks, InCommands
<1>6. \A i : InCommands(i, sid, c, dn2) => InCommands(i, sid, c, dn) /\ i \in DOMAIN c /\ i \in Nat /\ 1 < i
  BY <1>2 DEF InCommands
<1>7. AsksPlaced(base, own, ra2, sid, p, d, failing, q2, bs, x)
  <2>1. ASSUME NEW i \in DOMAIN q2, InAsks(i, sid, q2, bs)
        PROVE  Placed(base, own, p, d, failing, x, q2[i].type, q2[i].path, ra2[i])
    <3>1. CASE q2[i] = c[1].frame /\ ra2[i] = rc[1] /\ InCommands(1, sid, c, dn)
      BY <1>1, <1>2, <3>1 DEF RankedBy, CommandsPlaced
    <3>2. CASE InAsks(i, sid, qs, bs) /\ i \in DOMAIN qs /\ q2[i] = qs[i] /\ ra2[i] = ra[i]
      BY <1>1, <3>2 DEF RankedBy, AsksPlaced
    <3> QED
      BY <1>5, <2>1, <3>1, <3>2
  <2>2. ASSUME NEW i \in DOMAIN q2, NEW j \in DOMAIN q2, i < j, InAsks(i, sid, q2, bs), InAsks(j, sid, q2, bs)
        PROVE  ra2[i] < ra2[j]
    <3>1. i # Len(q2)
      BY <1>3, <2>2
    <3>2. InAsks(i, sid, qs, bs) /\ i \in DOMAIN qs /\ ra2[i] = ra[i]
      BY <1>5, <2>2, <3>1
    <3>3. CASE ra2[j] = rc[1] /\ InCommands(1, sid, c, dn)
      BY <1>1, <1>2, <3>2, <3>3 DEF RankedBy, InOrder
    <3>4. CASE InAsks(j, sid, qs, bs) /\ j \in DOMAIN qs /\ ra2[j] = ra[j]
      BY <1>1, <2>2, <3>2, <3>4 DEF RankedBy, AsksPlaced
    <3> QED
      BY <1>5, <2>2, <3>3, <3>4
  <2> QED
    BY <2>1, <2>2 DEF AsksPlaced
<1>8. CommandsPlaced(base, own, rc, sid, p, d, failing, c, dn2, x)
  BY <1>1, <1>6 DEF RankedBy, CommandsPlaced
<1>9. InOrder(rl, ra2, rc, sid, c, ls, q2, bs, dn2)
  <2>1. ASSUME NEW i \in DOMAIN ls, NEW j \in DOMAIN q2, InLines(i, sid, ls), InAsks(j, sid, q2, bs)
        PROVE  rl[i] < ra2[j]
    <3>1. CASE ra2[j] = rc[1] /\ InCommands(1, sid, c, dn)
      BY <1>1, <1>2, <2>1, <3>1 DEF RankedBy, InOrder
    <3>2. CASE InAsks(j, sid, qs, bs) /\ j \in DOMAIN qs /\ ra2[j] = ra[j]
      BY <1>1, <2>1, <3>2 DEF RankedBy, InOrder
    <3> QED
      BY <1>5, <2>1, <3>1, <3>2
  <2>2. \A i \in DOMAIN ls, j \in DOMAIN c : InLines(i, sid, ls) /\ InCommands(j, sid, c, dn2) => rl[i] < rc[j]
    BY <1>1, <1>6 DEF RankedBy, InOrder
  <2>3. ASSUME NEW i \in DOMAIN q2, NEW j \in DOMAIN c, InAsks(i, sid, q2, bs), InCommands(j, sid, c, dn2)
        PROVE  ra2[i] < rc[j]
    <3>1. CASE ra2[i] = rc[1] /\ InCommands(1, sid, c, dn)
      BY <1>1, <1>2, <1>6, <2>3, <3>1 DEF RankedBy, CommandsPlaced
    <3>2. CASE InAsks(i, sid, qs, bs) /\ i \in DOMAIN qs /\ ra2[i] = ra[i]
      BY <1>1, <1>6, <2>3, <3>2 DEF RankedBy, InOrder
    <3> QED
      BY <1>5, <2>3, <3>1, <3>2
  <2> QED
    BY <2>1, <2>2, <2>3 DEF InOrder
<1>10. RankedBy(base, own, rl, ra2, rc, sid, p, d, failing, c, ls, q2, bs, dn2, x)
  BY <1>1, <1>7, <1>8, <1>9 DEF RankedBy
<1> QED
  BY <1>10 DEF Ranked, q2

\* The request that waits never reaches the Nano: what is left was in its way.
LEMMA RankedLost ==
  ASSUME NEW sid, NEW p, NEW d, NEW failing, NEW c, NEW ls, NEW qs, NEW bs, NEW dn,
         NEW x, Ranked(sid, p, d, failing, c, ls, qs, bs, dn, x),
         IsSeq(c), Len(c) = 1, dn = "no", InCommands(1, sid, c, dn),
         NEW dn2, dn2 # "no", NEW failing2
  PROVE  Ranked(sid, p, d, failing2, c, ls, qs, bs, dn2, x)
<1>1. PICK base, own, rl, ra, rc :
        RankedBy(base, own, rl, ra, rc, sid, p, d, failing, c, ls, qs, bs, dn, x)
  BY DEF Ranked
<1>2. DOMAIN c = {1}
  BY SeqFacts
<1>3. \A i : ~InCommands(i, sid, c, dn2)
  BY <1>2 DEF InCommands
<1>4. rc[1] <= own /\ rc[1] \in Int /\ own \in Int
  BY <1>1, <1>2 DEF RankedBy, CommandsPlaced, Placed
<1>5. ASSUME NEW kind, NEW path, NEW n, Placed(base, own, p, d, failing, x, kind, path, n), n < rc[1]
      PROVE  Placed(base, own, p, d, failing2, x, kind, path, n)
  <2>1. n \in Int /\ n # own
    BY <1>4, <1>5 DEF Placed
  <2> QED
    BY <1>5, <2>1 DEF Placed, Own
<1>6. LinesPlaced(base, own, rl, sid, p, d, failing2, ls, x)
  <2>1. \A i \in DOMAIN ls : InLines(i, sid, ls) => rl[i] < rc[1]
    BY <1>1, <1>2 DEF RankedBy, InOrder
  <2> QED
    BY <1>1, <1>5, <2>1 DEF RankedBy, LinesPlaced
<1>7. AsksPlaced(base, own, ra, sid, p, d, failing2, qs, bs, x)
  <2>1. \A i \in DOMAIN qs : InAsks(i, sid, qs, bs) => ra[i] < rc[1]
    BY <1>1, <1>2 DEF RankedBy, InOrder
  <2> QED
    BY <1>1, <1>5, <2>1 DEF RankedBy, AsksPlaced
<1>8. RankedBy(base, own, rl, ra, rc, sid, p, d, failing2, c, ls, qs, bs, dn2, x)
  BY <1>1, <1>3, <1>6, <1>7 DEF RankedBy, CommandsPlaced, InOrder
<1> QED
  BY <1>8 DEF Ranked

-----------------------------------------------------------------------------
(* What the host does, half way through a step.                            *)

\* What a method asks of the child goes behind what it asked before.
LEMMA Sent ==
  ASSUME NEW c, IsSeq(c), NEW o, IsSeq(o), NEW e
  PROVE  /\ IsSeq(c \o o) /\ IsSeq(Append(o, e))
         /\ c \o Append(o, e) = Append(c \o o, e)
<1>1. PICK S : c \in Seq(S)
  BY DEF IsSeq
<1>2. PICK T : o \in Seq(T)
  BY DEF IsSeq
<1>3. c \in Seq(S \cup T \cup {e}) /\ o \in Seq(S \cup T \cup {e}) /\ e \in S \cup T \cup {e}
  BY <1>1, <1>2
<1>4. c \o o \in Seq(S \cup T \cup {e}) /\ Append(o, e) \in Seq(S \cup T \cup {e})
  BY <1>3
<1>5. c \o Append(o, e) = Append(c \o o, e)
  BY <1>3
<1> QED
  BY <1>4, <1>5 DEF IsSeq

\* What was appended to is not empty.
LEMMA AppendSome ==
  ASSUME NEW q, IsSeq(q), NEW e
  PROVE  Append(q, e) # << >>
<1>1. Len(Append(q, e)) = Len(q) + 1 /\ Len(q) \in Nat
  BY GrownByOne, SeqFacts DEF Grown
<1>2. Len(<< >>) = 0
  BY NoneLeft
<1>3. Len(Append(q, e)) # Len(<< >>)
  BY <1>1, <1>2
<1> QED
  BY <1>3, Zenon

\* The manager's work, but for what it knows of the connection.
SameWork(mgr, mgr2) ==
  /\ DOMAIN mgr2 = ManagerFields
  /\ mgr2.stage = mgr.stage /\ mgr2.logs = mgr.logs /\ mgr2.of = mgr.of
  /\ mgr2.scan = mgr.scan /\ mgr2.opening = mgr.opening

\* A request that waits has a depth like any other state of a run.
LEMMA DepthIs ==
  ASSUME NEW h, NEW mgr
  PROVE  Depth(h, mgr) \in 0 .. 2
<1> QED
  BY DEF Depth

\* The session and the child do not change what is on its way.
LEMMA TurnKeeps ==
  ASSUME World, NEW h, NEW mgr, NEW c, NEW ls, Turn(h, mgr, c, ls),
         NEW h2, DOMAIN h2 = SessionFields, NEW mgr2, SameWork(mgr, mgr2),
         h2.sid = h.sid, h2.writing = h.writing, h2.settled = h.settled, h2.timer \in BOOLEAN,
         \/ h2.pending = h.pending /\ (h.timer => h2.timer)
         \/ ~IsTransfer(h.pending) /\ h2.pending.kind \in {"none", "time", "info"},
         h.sid # 0 => h2.conn # "disconnected" /\ mgr2.conn # "disconnected",
         mgr.scan = "opening" => h2.conn = "reconnecting" /\ mgr2.conn = "reconnecting" /\ ~h2.timer
  PROVE  Turn(h2, mgr2, c, ls)
<1>1. HostOK(h2, mgr2)
  BY DEF Turn, HostOK, Shape, Talk, Link, SameWork, PendingOK, IsTransfer
<1>2. Awaits(h2.pending) => Awaits(h.pending) /\ h2.pending = h.pending
  BY DEF Awaits, IsTransfer
<1>3. QueuesOK(h2, mgr2, c, ls, asks, bridge.sid, nano.files, nano.held, bridge.last)
  BY <1>2, QueuesHost DEF Turn, SameWork
<1>4. Depth(h2, mgr2) = Depth(h, mgr)
  BY <1>2 DEF Depth, SameWork, IsTransfer
<1>5. PlacesOK(h2, mgr2, c, ls, asks, bridge.sid, bridge.done, crossed)
  <2> SUFFICES ASSUME crossed < 3
               PROVE  Ranked(h2.sid, h2.pending, Depth(h2, mgr2), Failing(c, ls, bridge.done), c, ls,
                             asks, bridge.sid, bridge.done, crossed)
    BY DEF PlacesOK
  <2>1. Ranked(h.sid, h.pending, Depth(h, mgr), Failing(c, ls, bridge.done), c, ls,
               asks, bridge.sid, bridge.done, crossed)
    BY DEF Turn, PlacesOK
  <2>2. CASE h2.pending = h.pending
    BY <2>1, <2>2, <1>4
  <2>3. CASE ~IsTransfer(h.pending)
    <3>1. ~Awaits(h.pending)
      BY <2>3 DEF Awaits
    <3> DEFINE d == Depth(h, mgr)
               fl == Failing(c, ls, bridge.done)
    <3>2. d \in Int /\ d <= d /\ crossed \in Int
      BY DepthIs DEF World
    <3> HIDE DEF d, fl
    <3>3. Ranked(h.sid, h.pending, d, fl, c, ls, asks, bridge.sid, bridge.done, crossed)
      BY <2>1 DEF d, fl
    <3>4. Ranked(h.sid, h2.pending, d, fl, c, ls, asks, bridge.sid, bridge.done, crossed)
      BY <3>1, <3>2, <3>3, RankedFree
    <3> QED
      BY <3>4, <1>4 DEF d, fl
  <2> QED
    BY <2>2, <2>3
<1>6. GotOK(h2, mgr2, nano.files, nano.held, crossed)
  BY DEF Turn, GotOK, IsTransfer
<1>7. ReadOK(h2, mgr2, nano.files, nano.held, crossed)
  BY DEF Turn, ReadOK, SameWork
<1> QED
  BY <1>1, <1>3, <1>5, <1>6, <1>7 DEF Turn, SameWork

\* A command that asks for no transfer.
LEMMA TurnSends ==
  ASSUME World, NEW h, NEW mgr, NEW c, NEW ls, Turn(h, mgr, c, ls),
         NEW e, CommandOK(e, nano.files, bridge.last), Askable(e, h, mgr, c, ls),
         e.op = "write" => e.frame.type \notin {"directory", "file"}
  PROVE  Turn(h, mgr, Append(c, e), ls)
<1>1. QueuesOK(h, mgr, Append(c, e), ls, asks, bridge.sid, nano.files, nano.held, bridge.last)
  BY QueuesCommand DEF Turn
<1> DEFINE c2 == Append(c, e)
<1>2. IsSeq(c)
  BY DEF Turn, QueuesOK
<1>3. /\ Len(c) \in Nat /\ Len(c2) = Len(c) + 1 /\ DOMAIN c = 1 .. Len(c) /\ DOMAIN c2 = 1 .. Len(c2)
      /\ c2[Len(c2)] = e /\ \A i \in 1 .. Len(c) : c2[i] = c[i]
      /\ (c = << >> <=> Len(c) = 0)
  BY <1>2, GrownByOne, SeqFacts DEF Grown
<1> HIDE DEF c2
<1>4. \A i \in DOMAIN c2 : (i = Len(c2) /\ c2[i] = e) \/ (i \in DOMAIN c /\ c2[i] = c[i])
  BY <1>3
<1>5. \A i : InCommands(i, h.sid, c2, bridge.done)
               => InCommands(i, h.sid, c, bridge.done) /\ c2[i].frame = c[i].frame
  BY <1>4 DEF InCommands
<1>6. Failing(c2, ls, bridge.done) => Failing(c, ls, bridge.done)
  <2>1. e.then # "request"
    BY DEF CommandOK
  <2>2. Len(c) = 0 => c2[1] = e
    BY <1>3
  <2>3. Len(c) # 0 => c2[1] = c[1]
    BY <1>3
  <2> QED
    BY <1>3, <2>1, <2>2, <2>3 DEF Failing
<1>7. PlacesOK(h, mgr, c2, ls, asks, bridge.sid, bridge.done, crossed)
  <2> SUFFICES ASSUME crossed < 3
               PROVE  Ranked(h.sid, h.pending, Depth(h, mgr), Failing(c2, ls, bridge.done), c2, ls,
                             asks, bridge.sid, bridge.done, crossed)
    BY DEF PlacesOK
  <2> DEFINE d  == Depth(h, mgr)
             fl == Failing(c, ls, bridge.done)
             f2 == Failing(c2, ls, bridge.done)
  <2>1. Ranked(h.sid, h.pending, d, fl, c, ls, asks, bridge.sid, bridge.done, crossed)
    BY DEF Turn, PlacesOK
  <2>2. d \in Int /\ d <= d /\ crossed \in Int /\ crossed <= crossed
    BY DepthIs DEF World
  <2>3. f2 => fl
    BY <1>6
  <2> HIDE DEF d, fl, f2
  <2>4. Ranked(h.sid, h.pending, d, f2, c, ls, asks, bridge.sid, bridge.done, crossed)
    BY <2>1, <2>2, <2>3, RankedStill
  <2>5. Ranked(h.sid, h.pending, d, f2, c2, ls, asks, bridge.sid, bridge.done, crossed)
    BY <2>4, <1>5, RankedSame
  <2> QED
    BY <2>5 DEF d, f2
<1>8. c2 # << >>
  BY <1>3
<1> QED
  BY <1>1, <1>7, <1>8 DEF Turn, c2

\* The session ends: nothing is on its way in a session that is none.
LEMMA TurnEnds ==
  ASSUME World, NEW h, NEW mgr, NEW c, NEW ls, Turn(h, mgr, c, ls),
         NEW h2, DOMAIN h2 = SessionFields, NEW mgr2, SameWork(mgr, mgr2),
         h2.sid = 0, h2.pending = None, h2.timer = FALSE, SettledOK(h2.settled),
         h2.settled = h.settled \/ (h2.settled # Silence /\ ~h2.settled[1].ok),
         h2.writing = h.writing \/ (h2.writing = FALSE /\ ~Outstanding("request", c, ls)),
         mgr.scan = "opening" => h2.conn = "reconnecting" /\ mgr2.conn = "reconnecting"
  PROVE  Turn(h2, mgr2, c, ls)
<1>1. ~IsTransfer(h2.pending) /\ ~Awaits(h2.pending)
  BY DEF IsTransfer, Awaits, None
<1>2. HostOK(h2, mgr2)
  <2>1. PendingOK(h2.pending)
    BY DEF PendingOK, None
  <2>2. Shape(h2, mgr2)
    <3>1. Shape(h, mgr)
      BY DEF Turn, HostOK
    <3>2. h2.writing \in BOOLEAN /\ h2.timer \in BOOLEAN /\ h2.sid \in Nat
      <4>1. h.writing \in BOOLEAN
        BY <3>1 DEF Shape
      <4>2. h2.writing \in BOOLEAN /\ h2.timer \in BOOLEAN
        BY <4>1, Zenon
      <4> QED
        BY <4>2
    <3>3. mgr2.stage \in {"none", "logs", "profiles", "files"} /\ mgr2.opening \in Nat
      BY <3>1 DEF Shape, SameWork
    <3> QED
      BY <2>1, <3>2, <3>3 DEF Shape, SameWork
  <2>3. Talk(h2, mgr2) /\ Link(h2, mgr2)
    BY <1>1 DEF Turn, HostOK, Shape, Talk, Link, SameWork
  <2> QED
    BY <2>2, <2>3 DEF HostOK
<1>3. QueuesOK(h2, mgr2, c, ls, asks, bridge.sid, nano.files, nano.held, bridge.last)
  <2>1. h2.writing = h.writing \/ ~Outstanding("request", c, ls)
    OBVIOUS
  <2> QED
    BY <1>1, <2>1, QueuesHost DEF Turn, SameWork
<1>4. PlacesOK(h2, mgr2, c, ls, asks, bridge.sid, bridge.done, crossed)
  <2>1. \A i : ~InLines(i, h2.sid, ls) /\ ~InAsks(i, h2.sid, asks, bridge.sid)
               /\ ~InCommands(i, h2.sid, c, bridge.done)
    BY DEF InLines, InAsks, InCommands
  <2> QED
    BY <2>1, RankedNone DEF PlacesOK
<1>5. GotOK(h2, mgr2, nano.files, nano.held, crossed)
  BY <1>1 DEF GotOK
<1>6. ReadOK(h2, mgr2, nano.files, nano.held, crossed)
  BY DEF Turn, ReadOK, SameWork
<1>7. h2.sid <= bridge.last
  BY DEF World
<1> QED
  BY <1>2, <1>3, <1>4, <1>5, <1>6, <1>7 DEF Turn, SameWork

\* A run begins, goes on or ends, with no request outstanding.
LEMMA TurnIdle ==
  ASSUME World, NEW h, NEW mgr, NEW c, NEW ls, Turn(h, mgr, c, ls), ~h.writing, ~IsTransfer(h.pending),
         NEW h2, DOMAIN h2 = SessionFields, NEW mgr2, DOMAIN mgr2 = ManagerFields,
         h2.sid = h.sid, h2.writing = FALSE, h2.pending = h.pending, h2.timer = h.timer,
         h2.conn = h.conn, mgr2.conn = mgr.conn, mgr2.scan = mgr.scan, mgr2.opening = mgr.opening,
         \/ h2.settled = Silence /\ mgr2.stage = "none"
         \/ /\ h2.settled # Silence /\ SettledOK(h2.settled) /\ ~h2.settled[1].ok
            /\ mgr2.stage \in {"logs", "profiles", "files"},
         mgr2.logs \subseteq DOMAIN nano.files, crossed = 0 => mgr2.of # "profiles"
  PROVE  Turn(h2, mgr2, c, ls)
<1>1. HostOK(h2, mgr2)
  BY DEF Turn, HostOK, Shape, Talk, Link, SettledOK
<1>2. ~Awaits(h2.pending) /\ ~Awaits(h.pending)
  BY DEF Awaits
<1>3. QueuesOK(h2, mgr2, c, ls, asks, bridge.sid, nano.files, nano.held, bridge.last)
  <2>1. h2.writing = h.writing
    BY DEF Turn, HostOK, Shape
  <2> QED
    BY <1>2, <2>1, QueuesHost DEF Turn
<1>4. Depth(h2, mgr2) = 0
  BY DEF Depth
<1>5. PlacesOK(h2, mgr2, c, ls, asks, bridge.sid, bridge.done, crossed)
  <2> SUFFICES ASSUME crossed < 3
               PROVE  Ranked(h.sid, h.pending, 0, Failing(c, ls, bridge.done), c, ls,
                             asks, bridge.sid, bridge.done, crossed)
    BY <1>4 DEF PlacesOK
  <2> DEFINE d  == Depth(h, mgr)
             fl == Failing(c, ls, bridge.done)
  <2>1. Ranked(h.sid, h.pending, d, fl, c, ls, asks, bridge.sid, bridge.done, crossed)
    BY DEF Turn, PlacesOK
  <2>2. d \in Int /\ crossed \in Int
    BY DepthIs DEF World
  <2> HIDE DEF d, fl
  <2>3. Ranked(h.sid, h.pending, 0, fl, c, ls, asks, bridge.sid, bridge.done, crossed)
    BY <2>1, <2>2, <1>2, RankedFree
  <2> QED
    BY <2>3 DEF fl
<1>6. GotOK(h2, mgr2, nano.files, nano.held, crossed)
  BY DEF GotOK
<1>7. ReadOK(h2, mgr2, nano.files, nano.held, crossed)
  BY DEF ReadOK
<1> QED
  BY <1>1, <1>3, <1>5, <1>6, <1>7 DEF Turn

\* The listings a run has behind it when it asks for the next thing.
Listings(stage) == IF stage = "files" THEN 2 ELSE IF stage = "profiles" THEN 1 ELSE 0

\* From h and mgr, the session h2 and the manager mgr2 wait for what frame asks.
Requests(h, mgr, h2, mgr2, frame) ==
  /\ DOMAIN h2 = SessionFields /\ DOMAIN mgr2 = ManagerFields
  /\ h.sid # 0 /\ h2.sid = h.sid /\ h2.writing = TRUE /\ h2.timer = TRUE /\ h2.settled = Silence
  /\ frame.type \in {"directory", "file"}
  /\ h2.pending = [kind |-> frame.type, path |-> frame.path, next |-> 1, got |-> << >>]
  /\ h2.conn = h.conn /\ mgr2.conn = mgr.conn /\ mgr2.scan = mgr.scan /\ mgr2.opening = mgr.opening
  /\ mgr2.stage \in {"logs", "profiles", "files"} /\ (mgr2.stage = "files" <=> frame.type = "file")
  /\ mgr2.stage = "logs" => frame.path = "logs"
  /\ frame.type = "file" => frame.path \in DOMAIN nano.files
  /\ mgr2.logs \subseteq DOMAIN nano.files /\ (crossed = 0 => mgr2.of # "profiles")
  /\ Listings(mgr2.stage) <= Depth(h, mgr)

\* A request is asked for.
LEMMA TurnIssues ==
  ASSUME World, NEW h, NEW mgr, NEW c, NEW ls, Turn(h, mgr, c, ls), ~h.writing, ~IsTransfer(h.pending),
         NEW h2, NEW mgr2, NEW frame, Requests(h, mgr, h2, mgr2, frame)
  PROVE  Turn(h2, mgr2, Append(c, Command("write", h.sid, "request", frame)), ls)
<1> USE DEF Requests
<1> DEFINE kind == frame.type
           path == frame.path
<1> DEFINE e == Command("write", h.sid, "request", frame)
<1>0. h2.pending.kind = kind /\ h2.pending.path = path /\ h2.pending.next = 1 /\ h2.pending.got = << >>
      /\ DOMAIN h2.pending = {"kind", "path", "next", "got"}
  OBVIOUS
<1>1. IsTransfer(h2.pending) /\ Awaits(h2.pending) /\ ~Awaits(h.pending)
  BY <1>0 DEF IsTransfer, Awaits
<1>2. mgr.scan = "none" /\ mgr.opening = 0
  BY DEF Turn, HostOK, Link
<1>3. HostOK(h2, mgr2)
  <2>1. PendingOK(h2.pending)
    <3>1. IsSeq(<< >>)
      <4>1. << >> \in Seq({})
        OBVIOUS
      <4> QED
        BY <4>1 DEF IsSeq
    <3> QED
      BY <1>1, <3>1, <1>0 DEF PendingOK
  <2>2. Shape(h2, mgr2)
    BY <2>1 DEF Turn, HostOK, Shape, SettledOK
  <2>3. Talk(h2, mgr2)
    BY <1>0, <1>1 DEF Talk
  <2>4. Link(h2, mgr2)
    BY <1>2 DEF Turn, HostOK, Link
  <2> QED
    BY <2>2, <2>3, <2>4 DEF HostOK
<1>4. ~Outstanding("request", c, ls)
  BY DEF Turn, QueuesOK, Tickets
<1>5. QueuesOK(h2, mgr2, c, ls, asks, bridge.sid, nano.files, nano.held, bridge.last)
  BY <1>4, QueuesHost DEF Turn
<1>6. e.op = "write" /\ e.sid = h.sid /\ e.then = "request" /\ e.frame = frame
      /\ DOMAIN e = {"op", "sid", "then", "frame"}
  BY DEF Command
<1> HIDE DEF e
<1>7. CommandOK(e, nano.files, bridge.last)
  <2>1. e.sid \in 0 .. bridge.last
    BY <1>6 DEF Turn, HostOK, Shape, World
  <2>2. AskOK(e.frame, nano.files)
    BY <1>6 DEF AskOK
  <2> QED
    BY <1>6, <2>1, <2>2 DEF CommandOK, Writes
<1>8. Askable(e, h2, mgr2, c, ls)
  BY <1>2, <1>4, <1>6 DEF Askable, Writes
<1>9. QueuesOK(h2, mgr2, Append(c, e), ls, asks, bridge.sid, nano.files, nano.held, bridge.last)
  BY <1>5, <1>7, <1>8, QueuesCommand
<1>10. Depth(h2, mgr2) = Listings(mgr2.stage)
  BY <1>1 DEF Depth, Listings
<1>11. IsSeq(c)
  BY DEF Turn, QueuesOK
<1>12. PlacesOK(h2, mgr2, Append(c, e), ls, asks, bridge.sid, bridge.done, crossed)
  <2> SUFFICES ASSUME crossed < 3
               PROVE  Ranked(h2.sid, h2.pending, Depth(h2, mgr2), Failing(Append(c, e), ls, bridge.done),
                             Append(c, e), ls, asks, bridge.sid, bridge.done, crossed)
    BY DEF PlacesOK
  <2> DEFINE d  == Depth(h, mgr)
             d2 == Depth(h2, mgr2)
             fl == Failing(c, ls, bridge.done)
             f2 == Failing(Append(c, e), ls, bridge.done)
  <2>1. Ranked(h.sid, h.pending, d, fl, c, ls, asks, bridge.sid, bridge.done, crossed)
    BY DEF Turn, PlacesOK
  <2>2. d \in Int /\ d2 \in Int /\ d2 <= d /\ crossed \in Nat
    BY DepthIs, <1>10 DEF World
  <2>3. f2 = FALSE
    <3>1. ~\E i \in DOMAIN ls : Told(ls, i, "request")
      BY <1>4 DEF Outstanding
    <3>2. c # << >> => Append(c, e)[1] = c[1] /\ c[1].then # "request"
      <4>1. c # << >> => 1 \in DOMAIN c /\ 1 \in 1 .. Len(c)
        BY <1>11, RestOfHead, SeqFacts
      <4> QED
        BY <1>4, <1>11, <4>1, GrownByOne DEF Grown, Outstanding
    <3>3. c = << >> => bridge.done = "no"
      BY DEF Turn
    <3> QED
      BY <3>1, <3>2, <3>3 DEF Failing
  <2> HIDE DEF d, d2, fl, f2
  <2>4. Ranked(h.sid, h2.pending, d2, FALSE, Append(c, e), ls, asks, bridge.sid, bridge.done, crossed)
    BY <2>1, <2>2, <1>0, <1>1, <1>6, <1>11, RankedIssue
  <2> QED
    BY <2>3, <2>4 DEF d2, f2
<1>13. GotOK(h2, mgr2, nano.files, nano.held, crossed)
  BY <1>0 DEF GotOK
<1>14. ReadOK(h2, mgr2, nano.files, nano.held, crossed)
  BY DEF ReadOK
<1>15. Append(c, e) # << >>
  BY <1>11, AppendSome
<1> QED
  BY <1>3, <1>9, <1>12, <1>13, <1>14, <1>15 DEF Turn, e

-----------------------------------------------------------------------------
(* The manager hears of the session, and the child of its commands.        *)

\* What was there before stays in front.
LEMMA SentBehind ==
  ASSUME NEW c, IsSeq(c), c # << >>, NEW o, IsSeq(o)
  PROVE  c \o o # << >> /\ (c \o o)[1] = c[1]
<1>1. PICK S : c \in Seq(S)
  BY DEF IsSeq
<1>2. PICK T : o \in Seq(T)
  BY DEF IsSeq
<1>3. c \in Seq(S \cup T) /\ o \in Seq(S \cup T) /\ Len(c) > 0
  BY <1>1, <1>2
<1>4. c \o o \in Seq(S \cup T) /\ Len(c \o o) > 0 /\ (c \o o)[1] = c[1]
  BY <1>3
<1>5. Len(<< >>) = 0
  BY NoneLeft
<1> QED
  BY <1>4, <1>5

\* What a promise was settled with.
LEMMA RejectedIs ==
  ASSUME NEW reason
  PROVE  Rejected(reason) # Silence /\ SettledOK(Rejected(reason)) /\ ~Rejected(reason)[1].ok
<1>1. Len(Rejected(reason)) = 1 /\ Rejected(reason)[1] = [ok |-> FALSE, reason |-> reason]
  BY DEF Rejected
<1>2. Len(<< >>) = 0
  BY NoneLeft
<1>3. Rejected(reason) # Silence
  BY <1>1, <1>2 DEF Silence
<1>4. ~Rejected(reason)[1].ok
  BY <1>1
<1> QED
  BY <1>3, <1>4 DEF SettledOK

\* What a request is settled with that was answered.
LEMMA ResolvedIs ==
  ASSUME NEW path, NEW data
  PROVE  LET o == Resolved([path |-> path, data |-> data])
         IN  o # Silence /\ SettledOK(o) /\ o[1].ok /\ o[1].value.path = path /\ o[1].value.data = data
<1> DEFINE o == Resolved([path |-> path, data |-> data])
<1>1. Len(o) = 1 /\ o[1] = [ok |-> TRUE, value |-> [path |-> path, data |-> data]]
  BY DEF Resolved
<1>2. Len(<< >>) = 0
  BY NoneLeft
<1>3. o # Silence
  BY <1>1, <1>2 DEF Silence
<1>4. o[1].ok /\ o[1].value.path = path /\ o[1].value.data = data
  BY <1>1
<1>5. SettledOK(o)
  BY DEF SettledOK
<1> QED
  BY <1>3, <1>4, <1>5

\* What the manager knows once it has heard of the session.
Known(h, mgr) ==
  IF h.told THEN [mgr EXCEPT !.conn = h.conn, !.attempted = @ /\ h.conn = "connected"] ELSE mgr

\* A method has run so far, and asked for h.out; c were the commands before.
Mid(h, mgr, c, ls) ==
  /\ IsSeq(c) /\ IsSeq(h.out) /\ DOMAIN mgr = ManagerFields
  /\ Turn(h, Known(h, mgr), c \o h.out, ls)

\* To hear of a snapshot changes nothing of the work of the manager.
LEMMA KnownWork ==
  ASSUME NEW h, NEW mgr, DOMAIN mgr = ManagerFields
  PROVE  /\ SameWork(mgr, Known(h, mgr))
         /\ Known(h, mgr).conn = IF h.told THEN h.conn ELSE mgr.conn
<1> QED
  BY DEF SameWork, Known, ManagerFields

\* Only what was asked of it, and what it has said, matters of a session.
LEMMA TurnSilent ==
  ASSUME World, NEW h, NEW mgr, NEW c, NEW ls, Turn(h, mgr, c, ls),
         NEW h2, DOMAIN h2 = SessionFields, NEW mgr2, SameWork(mgr, mgr2), mgr2.conn = mgr.conn,
         h2.sid = h.sid, h2.writing = h.writing, h2.settled = h.settled, h2.timer = h.timer,
         h2.pending = h.pending, h2.conn = h.conn
  PROVE  Turn(h2, mgr2, c, ls)
<1>1. h.timer \in BOOLEAN
  BY DEF Turn, HostOK, Shape
<1>2. h2.timer \in BOOLEAN
  BY <1>1, Zenon
<1>3. /\ h.sid # 0 => h.conn # "disconnected" /\ mgr.conn # "disconnected"
      /\ mgr.scan = "opening" => h.conn = "reconnecting" /\ mgr.conn = "reconnecting" /\ ~h.timer
  BY DEF Turn, HostOK, Link
<1> QED
  BY <1>2, <1>3, TurnKeeps

\* From h and mgr, the manager mgr2 is about to ask for that.
Wants(h, mgr, mgr2, kind, path) ==
  /\ kind \in {"directory", "file"} /\ DOMAIN mgr2 = ManagerFields
  /\ mgr2.conn = mgr.conn /\ mgr2.scan = mgr.scan /\ mgr2.opening = mgr.opening
  /\ mgr2.stage \in {"logs", "profiles", "files"} /\ (mgr2.stage = "files" <=> kind = "file")
  /\ mgr2.stage = "logs" => path = "logs"
  /\ kind = "file" => path \in DOMAIN nano.files
  /\ mgr2.logs \subseteq DOMAIN nano.files /\ (crossed = 0 => mgr2.of # "profiles")
  /\ Listings(mgr2.stage) <= Depth(h, mgr)

\* A session, or the same with its answer taken.
AsksFrom(h, i) == i = h \/ i = [h EXCEPT !.settled = Silence]

\* A run asks for its next thing: i is the session h, whose answer was taken.
LEMMA Transfers ==
  ASSUME World, NEW h, NEW mgr, NEW c, NEW ls, IsSeq(c), IsSeq(h.out),
         Turn(h, mgr, c \o h.out, ls), ~h.writing, ~IsTransfer(h.pending),
         NEW i, AsksFrom(h, i),
         NEW kind, NEW path, NEW mgr2, Wants(h, mgr, mgr2, kind, path)
  PROVE  LET h2 == Transfer(i, kind, path)
         IN  Turn(h2, mgr2, c \o h2.out, ls) /\ IsSeq(h2.out) /\ (h2.told => h.told)
<1> USE DEF Wants, AsksFrom
<1> DEFINE h2 == Transfer(i, kind, path)
<1>1. DOMAIN h = SessionFields /\ h.writing \in BOOLEAN
  BY DEF Turn, HostOK, Shape
<1>2. /\ DOMAIN i = SessionFields /\ i.conn = h.conn /\ i.sid = h.sid /\ i.pending = h.pending
      /\ i.timer = h.timer /\ i.writing = h.writing /\ i.out = h.out /\ i.told = h.told
  BY <1>1 DEF SessionFields
<1>3. ASSUME NEW reason, h2 = [i EXCEPT !.settled = Rejected(reason)]
      PROVE  Turn(h2, mgr2, c \o h2.out, ls) /\ IsSeq(h2.out) /\ (h2.told => h.told)
  <2>1. /\ DOMAIN h2 = SessionFields /\ h2.conn = h.conn /\ h2.sid = h.sid /\ h2.pending = h.pending
        /\ h2.timer = h.timer /\ h2.writing = h.writing /\ h2.out = h.out /\ h2.told = h.told
        /\ h2.settled = Rejected(reason)
    BY <1>2, <1>3 DEF SessionFields
  <2> HIDE DEF h2
  <2>2. h2.settled # Silence /\ SettledOK(h2.settled) /\ ~h2.settled[1].ok
    BY <2>1, RejectedIs
  <2>3. h2.writing = FALSE
    BY <2>1, <1>1
  <2>4. Turn(h2, mgr2, c \o h.out, ls)
    BY <2>1, <2>2, <2>3, TurnIdle
  <2> QED
    BY <2>1, <2>4
<1>4. ASSUME i.conn = "connected", i.sid # 0, i.pending = None,
             h2 = Sends([i EXCEPT !.pending = [kind |-> kind, path |-> path, next |-> 1, got |-> << >>],
                                  !.timer = TRUE, !.writing = TRUE, !.settled = Silence],
                        "write", "request", [type |-> kind, path |-> path, seed |-> i.seed])
      PROVE  Turn(h2, mgr2, c \o h2.out, ls) /\ IsSeq(h2.out) /\ (h2.told => h.told)
  <2> DEFINE frame == [type |-> kind, path |-> path, seed |-> i.seed]
             e     == Command("write", h.sid, "request", frame)
  <2>1. /\ DOMAIN h2 = SessionFields /\ h2.conn = h.conn /\ h2.sid = h.sid
        /\ h2.pending = [kind |-> kind, path |-> path, next |-> 1, got |-> << >>]
        /\ h2.timer = TRUE /\ h2.writing = TRUE /\ h2.out = Append(h.out, e) /\ h2.told = h.told
        /\ h2.settled = Silence
    BY <1>2, <1>4 DEF SessionFields, Sends
  <2>2. frame.type = kind /\ frame.path = path
    OBVIOUS
  <2> HIDE DEF h2, frame
  <2>2a. Requests(h, mgr, h2, mgr2, frame)
    BY <1>2, <1>4, <2>1, <2>2 DEF Requests
  <2>3. Turn(h2, mgr2, Append(c \o h.out, e), ls)
    BY <2>2a, TurnIssues
  <2>4. c \o h2.out = Append(c \o h.out, e) /\ IsSeq(h2.out)
    BY <2>1, Sent
  <2> QED
    BY <2>1, <2>3, <2>4
<1>5. CASE i.conn # "connected" \/ i.sid = 0 \/ i.seed = 0
  BY <1>3, <1>5 DEF Transfer
<1>6. CASE ~(i.conn # "connected" \/ i.sid = 0 \/ i.seed = 0)
  <2>1. CASE i.pending # None
    BY <1>3, <1>6, <2>1 DEF Transfer
  <2>2. CASE i.pending = None /\ i.busy = "locked"
    BY <1>3, <1>6, <2>2 DEF Transfer
  <2>3. CASE i.pending = None /\ i.busy # "locked"
    BY <1>4, <1>6, <2>3 DEF Transfer
  <2> QED
    BY <2>1, <2>2, <2>3
<1> QED
  BY <1>5, <1>6

\* A synchronisation begins, of itself or over HTTP.
LEMMA Synchronizes ==
  ASSUME World, NEW h, NEW mgr, NEW c, NEW ls, IsSeq(c), IsSeq(h.out), DOMAIN mgr = ManagerFields,
         Turn(h, mgr, c \o h.out, ls)
  PROVE  LET a == Synchronize(h, mgr)
         IN  Turn(a[1], a[2], c \o a[1].out, ls) /\ IsSeq(a[1].out) /\ (a[1].told => h.told)
<1>1. CASE mgr.stopped \/ mgr.stage # "none" \/ h.conn # "connected"
  BY <1>1 DEF Synchronize
<1>2. CASE ~(mgr.stopped \/ mgr.stage # "none" \/ h.conn # "connected")
  <2> DEFINE mgr2 == [mgr EXCEPT !.sync = "syncing", !.stage = "logs"]
             h2   == Transfer(h, "directory", "logs")
  <2>1. /\ DOMAIN mgr2 = ManagerFields /\ mgr2.conn = mgr.conn /\ mgr2.scan = mgr.scan
        /\ mgr2.opening = mgr.opening /\ mgr2.stage = "logs" /\ mgr2.logs = mgr.logs /\ mgr2.of = mgr.of
    BY DEF ManagerFields
  <2>2. ~h.writing /\ ~IsTransfer(h.pending)
    BY <1>2 DEF Turn, HostOK, Talk
  <2>3. Listings(mgr2.stage) <= Depth(h, mgr)
    BY <2>1, DepthIs DEF Listings
  <2>4. mgr2.logs \subseteq DOMAIN nano.files /\ (crossed = 0 => mgr2.of # "profiles")
    BY <2>1 DEF Turn
  <2>5. Synchronize(h, mgr) = << h2, mgr2 >>
    BY <1>2 DEF Synchronize
  <2> HIDE DEF mgr2
  <2>6. Turn(h2, mgr2, c \o h2.out, ls) /\ IsSeq(h2.out) /\ (h2.told => h.told)
    <3>1. Wants(h, mgr, mgr2, "directory", "logs")
      BY <2>1, <2>3, <2>4 DEF Wants
    <3>2. AsksFrom(h, h)
      BY DEF AsksFrom
    <3> QED
      BY <2>2, <3>1, <3>2, Transfers
  <2> HIDE DEF h2
  <2> QED
    BY <2>5, <2>6
<1> QED
  BY <1>1, <1>2

\* The manager hears of the session, and may begin a synchronisation.
LEMMA Applies ==
  ASSUME World, NEW h, NEW mgr, NEW c, NEW ls, Mid(h, mgr, c, ls)
  PROVE  LET a == Apply(h, mgr)
         IN  Turn(a[1], a[2], c \o a[1].out, ls) /\ IsSeq(a[1].out)
<1> DEFINE k  == Known(h, mgr)
           k2 == [k EXCEPT !.attempted = TRUE]
<1>1. Turn(h, k, c \o h.out, ls) /\ DOMAIN mgr = ManagerFields /\ IsSeq(c) /\ IsSeq(h.out)
  BY DEF Mid
<1>2. SameWork(k, k2) /\ k2.conn = k.conn /\ DOMAIN k2 = ManagerFields
  <2>1. DOMAIN k = ManagerFields
    BY <1>1, KnownWork DEF SameWork
  <2> HIDE DEF k
  <2> QED
    BY <2>1 DEF SameWork, ManagerFields
<1>3. \/ Apply(h, mgr) = << h, k >>
      \/ Apply(h, mgr) = Synchronize(h, k2)
  BY DEF Apply, Known
<1> HIDE DEF k, k2
<1>4. CASE Apply(h, mgr) = << h, k >>
  BY <1>1, <1>4
<1>5. CASE Apply(h, mgr) = Synchronize(h, k2)
  <2>1. DOMAIN h = SessionFields
    BY <1>1 DEF Turn, HostOK, Shape
  <2>2. Turn(h, k2, c \o h.out, ls)
    BY <1>1, <1>2, <2>1, TurnSilent
  <2> QED
    BY <1>1, <1>2, <1>5, <2>2, Synchronizes
<1> QED
  BY <1>3, <1>4, <1>5

\* With no child nothing is written, and what was asked of it is nothing.
LEMMA TurnMute ==
  ASSUME World, NEW h, NEW mgr, NEW c, NEW ls, Turn(h, mgr, c, ls), ~bridge.live
  PROVE  Turn(h, mgr, << >>, ls)
<1>1. bridge.done = "no"
  BY DEF World
<1>2. IsSeq(c) /\ IsSeq(ls) /\ IsSeq(asks)
  BY DEF Turn, QueuesOK
<1>3. QueuesOK(h, mgr, << >>, ls, asks, bridge.sid, nano.files, nano.held, bridge.last)
  BY <1>2, NoneLeft, RestOfAll, QueuesShorten DEF Turn
<1>4. PlacesOK(h, mgr, << >>, ls, asks, bridge.sid, bridge.done, crossed)
  <2> SUFFICES ASSUME crossed < 3
               PROVE  Ranked(h.sid, h.pending, Depth(h, mgr), Failing(<< >>, ls, bridge.done), << >>, ls,
                             asks, bridge.sid, bridge.done, crossed)
    BY DEF PlacesOK
  <2> DEFINE d  == Depth(h, mgr)
             fl == Failing(c, ls, bridge.done)
             f2 == Failing(<< >>, ls, bridge.done)
  <2>1. Ranked(h.sid, h.pending, d, fl, c, ls, asks, bridge.sid, bridge.done, crossed)
    BY DEF Turn, PlacesOK
  <2>2. d \in Int /\ d <= d /\ crossed \in Int /\ crossed <= crossed
    BY DepthIs DEF World
  <2>3. f2 => fl
    BY DEF Failing
  <2> HIDE DEF d, fl, f2
  <2>4. Ranked(h.sid, h.pending, d, f2, c, ls, asks, bridge.sid, bridge.done, crossed)
    BY <2>1, <2>2, <2>3, RankedStill
  <2>5. \A i : ~InCommands(i, h.sid, << >>, bridge.done)
    BY DEF InCommands
  <2>6. Ranked(h.sid, h.pending, d, f2, << >>, ls, asks, bridge.sid, bridge.done, crossed)
    BY <2>4, <2>5, RankedSame
  <2> QED
    BY <2>6 DEF d, f2
<1> QED
  BY <1>1, <1>3, <1>4 DEF Turn

\* The step has ended.
Landed ==
  /\ Turn(s, m, bridge.cmds, lines) /\ ~s.told /\ s.out = << >>
  /\ World

\* Half way is all the way when nothing is left to say.
LEMMA Lands ==
  ASSUME World, NEW h, NEW mgr, NEW c, NEW ls, Turn(h, mgr, c, ls), DOMAIN mgr = ManagerFields,
         s' = [h EXCEPT !.told = FALSE, !.out = << >>], m' = mgr,
         bridge'.cmds = c, DOMAIN bridge' = DOMAIN bridge, bridge'.live = bridge.live,
         bridge'.sid = bridge.sid, bridge'.last = bridge.last, bridge'.done = bridge.done,
         ~bridge.live => c = << >>, bridge.done # "no" => c # << >> /\ c[1].op = "write",
         lines' = ls, asks' = asks, nano' = nano, crossed' = crossed
  PROVE  Landed'
<1>1. DOMAIN h = SessionFields
  BY DEF Turn, HostOK, Shape
<1>2. /\ DOMAIN s' = SessionFields /\ s'.sid = h.sid /\ s'.writing = h.writing /\ s'.settled = h.settled
      /\ s'.timer = h.timer /\ s'.pending = h.pending /\ s'.conn = h.conn
      /\ ~s'.told /\ s'.out = << >>
  BY <1>1 DEF SessionFields
<1>3. SameWork(mgr, mgr)
  BY DEF SameWork
<1>4. Turn(s', m', c, ls)
  BY <1>2, <1>3, TurnSilent
<1>5. Turn(s, m, bridge.cmds, lines)'
  BY <1>4 DEF Turn
<1>6. World'
  BY DEF World
<1> QED
  BY <1>2, <1>5, <1>6 DEF Landed

\* The end of a host step.
LEMMA LeavesWell ==
  ASSUME World, NEW h, NEW mgr, NEW ls, Mid(h, mgr, bridge.cmds, ls), Leaves(h, mgr),
         lines' = ls, asks' = asks, nano' = nano, crossed' = crossed
  PROVE  Landed'
<1> DEFINE a == Apply(h, mgr)
           c == bridge.cmds
<1>1. Turn(a[1], a[2], c \o a[1].out, ls) /\ IsSeq(a[1].out) /\ IsSeq(c)
  BY Applies DEF Mid
<1>2. DOMAIN a[2] = ManagerFields
  BY <1>1 DEF Turn, HostOK, Shape
<1>3. /\ s' = [a[1] EXCEPT !.told = FALSE, !.out = << >>] /\ m' = a[2]
      /\ bridge' = [bridge EXCEPT !.cmds = IF bridge.live THEN c \o a[1].out ELSE c]
  BY DEF Leaves
<1>4. /\ bridge'.cmds = (IF bridge.live THEN c \o a[1].out ELSE c)
      /\ DOMAIN bridge' = DOMAIN bridge /\ bridge'.live = bridge.live
      /\ bridge'.sid = bridge.sid /\ bridge'.last = bridge.last /\ bridge'.done = bridge.done
  BY <1>3 DEF World
<1> HIDE DEF a
<1>5. bridge.done # "no" => c \o a[1].out # << >> /\ (c \o a[1].out)[1].op = "write"
  <2> SUFFICES ASSUME bridge.done # "no" PROVE c \o a[1].out # << >> /\ (c \o a[1].out)[1].op = "write"
    OBVIOUS
  <2>1. c # << >> /\ c[1].op = "write"
    BY DEF World
  <2> QED
    BY <1>1, <2>1, SentBehind
<1>6. CASE bridge.live
  BY <1>1, <1>2, <1>3, <1>4, <1>5, <1>6, Lands
<1>7. CASE ~bridge.live
  <2>1. c = << >> /\ bridge.done = "no"
    BY <1>7 DEF World
  <2>2. Turn(a[1], a[2], c, ls)
    BY <1>1, <1>7, <2>1, TurnMute
  <2> QED
    BY <1>2, <1>3, <1>4, <1>7, <2>1, <2>2, Lands
<1> QED
  BY <1>6, <1>7

-----------------------------------------------------------------------------
(* The session's methods.                                                  *)

\* From h to h2 with no word to the child: no transfer begins or ends.
Continues(h, mgr, h2) ==
  /\ DOMAIN h2 = SessionFields
  /\ h2.sid = h.sid /\ h2.writing = h.writing /\ h2.settled = h.settled /\ h2.out = h.out
  /\ h2.timer \in BOOLEAN /\ (h.told => h2.told)
  /\ h2.conn = h.conn \/ (h2.told /\ h2.conn # "disconnected")
  /\ \/ h2.pending = h.pending /\ (h.timer => h2.timer)
     \/ ~IsTransfer(h.pending) /\ h2.pending.kind \in {"none", "time", "info"}
  /\ mgr.scan = "opening" => h2.conn = h.conn /\ ~h2.timer

\* The session changes otherwise than in what the invariant is about.
LEMMA MidKeeps ==
  ASSUME World, NEW h, NEW mgr, NEW c, NEW ls, Mid(h, mgr, c, ls), NEW h2, Continues(h, mgr, h2)
  PROVE  Mid(h2, mgr, c, ls)
<1> DEFINE k  == Known(h, mgr)
           k2 == Known(h2, mgr)
<1>1. /\ SameWork(mgr, k) /\ k.conn = IF h.told THEN h.conn ELSE mgr.conn
      /\ SameWork(mgr, k2) /\ k2.conn = IF h2.told THEN h2.conn ELSE mgr.conn
  BY KnownWork DEF Mid
<1>2. Turn(h, k, c \o h.out, ls)
  BY DEF Mid
<1> HIDE DEF k, k2
<1>3. SameWork(k, k2)
  BY <1>1 DEF SameWork
<1>4. /\ h.sid # 0 => h2.conn # "disconnected" /\ k2.conn # "disconnected"
      /\ mgr.scan = "opening" => h2.conn = "reconnecting" /\ k2.conn = "reconnecting" /\ ~h2.timer
  <2>1. Link(h, k) /\ k.scan = mgr.scan
    BY <1>1, <1>2 DEF Turn, HostOK, SameWork
  <2>2. h.sid # 0 => h.conn # "disconnected" /\ k.conn # "disconnected"
    BY <2>1 DEF Link
  <2>3. mgr.scan = "opening" => h.conn = "reconnecting" /\ k.conn = "reconnecting"
    BY <2>1 DEF Link
  <2> QED
    BY <1>1, <2>2, <2>3 DEF Continues
<1>5. k.scan = mgr.scan
  BY <1>1 DEF SameWork
<1>6. Turn(h2, k2, c \o h.out, ls)
  BY <1>2, <1>3, <1>4, <1>5, TurnKeeps DEF Continues
<1> QED
  BY <1>6 DEF Mid, Continues, k2

\* A session sends a command that asks for no transfer.
LEMMA MidSends ==
  ASSUME World, NEW h, NEW mgr, NEW c, NEW ls, Mid(h, mgr, c, ls), NEW op, NEW then, NEW frame,
         CommandOK(Command(op, h.sid, then, frame), nano.files, bridge.last),
         Askable(Command(op, h.sid, then, frame), h, Known(h, mgr), c \o h.out, ls),
         op = "write" => frame.type \notin {"directory", "file"}
  PROVE  Mid(Sends(h, op, then, frame), mgr, c, ls)
<1> DEFINE e  == Command(op, h.sid, then, frame)
           h2 == Sends(h, op, then, frame)
           k  == Known(h, mgr)
<1>0. e.op = op /\ e.frame = frame
  BY DEF Command
<1>1. Turn(h, k, c \o h.out, ls) /\ IsSeq(c) /\ IsSeq(h.out) /\ DOMAIN mgr = ManagerFields
  BY DEF Mid
<1>2. DOMAIN h = SessionFields
  BY <1>1 DEF Turn, HostOK, Shape
<1>3. /\ DOMAIN h2 = SessionFields /\ h2.sid = h.sid /\ h2.writing = h.writing /\ h2.settled = h.settled
      /\ h2.timer = h.timer /\ h2.pending = h.pending /\ h2.conn = h.conn /\ h2.told = h.told
      /\ h2.out = Append(h.out, e)
  BY <1>2 DEF SessionFields, Sends
<1> HIDE DEF h2, e
<1>4. Turn(h, k, Append(c \o h.out, e), ls)
  <2>1. CommandOK(e, nano.files, bridge.last) /\ Askable(e, h, k, c \o h.out, ls)
        /\ (e.op = "write" => e.frame.type \notin {"directory", "file"})
    BY <1>0 DEF e
  <2> HIDE DEF k
  <2> QED
    BY <1>1, <2>1, TurnSends
<1>5. c \o h2.out = Append(c \o h.out, e) /\ IsSeq(h2.out)
  BY <1>1, <1>3, Sent
<1>6. Known(h2, mgr) = k
  BY <1>3 DEF Known
<1>7. SameWork(k, k)
  BY <1>1, KnownWork DEF SameWork
<1> HIDE DEF k
<1>8. Turn(h2, k, Append(c \o h.out, e), ls)
  BY <1>3, <1>4, <1>7, TurnSilent
<1> QED
  BY <1>1, <1>5, <1>6, <1>8 DEF Mid, h2

\* The session h is over: h2 hangs up, and fails the request that waits.
Over(h, h2) ==
  /\ DOMAIN h2 = SessionFields
  /\ h2.sid = 0 /\ h2.pending = None /\ h2.timer = FALSE /\ h2.writing = h.writing
  /\ SettledOK(h2.settled)
  /\ h2.settled = h.settled \/ (h2.settled # Silence /\ ~h2.settled[1].ok)
  /\ h2.out = h.out \/ h2.out = Append(h.out, Command("close", h.sid, "nothing", None))

\* The session is over.
LEMMA MidOver ==
  ASSUME World, NEW h, NEW mgr, NEW c, NEW ls, Mid(h, mgr, c, ls), NEW h2, Over(h, h2),
         mgr.scan # "opening" \/ (h2.conn = h.conn /\ h2.told = h.told)
  PROVE  Mid(h2, mgr, c, ls)
<1> DEFINE k  == Known(h, mgr)
           k2 == Known(h2, mgr)
           e  == Command("close", h.sid, "nothing", None)
<1>1. /\ SameWork(mgr, k) /\ k.conn = IF h.told THEN h.conn ELSE mgr.conn
      /\ SameWork(mgr, k2) /\ k2.conn = IF h2.told THEN h2.conn ELSE mgr.conn
  BY KnownWork DEF Mid
<1>2. Turn(h, k, c \o h.out, ls) /\ IsSeq(c) /\ IsSeq(h.out) /\ DOMAIN mgr = ManagerFields
  BY DEF Mid
<1>0. e.op = "close" /\ e.then = "nothing" /\ e.sid = h.sid /\ DOMAIN e = {"op", "sid", "then", "frame"}
  BY DEF Command
<1> HIDE DEF k, k2, e
<1>3. SameWork(k, k2)
  BY <1>1 DEF SameWork
<1>4. k.scan = "opening" => h2.conn = "reconnecting" /\ k2.conn = "reconnecting"
  <2>1. Link(h, k) /\ k.scan = mgr.scan
    BY <1>1, <1>2 DEF Turn, HostOK, SameWork
  <2> QED
    BY <1>1, <2>1 DEF Link
<1>5. Turn(h2, k2, c \o h.out, ls)
  BY <1>2, <1>3, <1>4, TurnEnds DEF Over
<1>6. CASE h2.out = h.out
  BY <1>2, <1>5, <1>6 DEF Mid, k2
<1>7. CASE h2.out = Append(h.out, e)
  <2>1. CommandOK(e, nano.files, bridge.last)
    <3>1. e.sid \in 0 .. bridge.last
      BY <1>0, <1>2 DEF Turn, HostOK, Shape, World
    <3> QED
      BY <1>0, <3>1 DEF CommandOK
  <2>2. ~Awaits(h2.pending)
    BY DEF Over, Awaits, IsTransfer, None
  <2>3. Askable(e, h2, k2, c \o h.out, ls)
    BY <1>0, <2>2 DEF Askable
  <2>4. Turn(h2, k2, Append(c \o h.out, e), ls)
    BY <1>0, <1>5, <2>1, <2>3, TurnSends
  <2>5. c \o h2.out = Append(c \o h.out, e) /\ IsSeq(h2.out)
    BY <1>2, <1>7, Sent
  <2> QED
    BY <1>2, <2>4, <2>5 DEF Mid, k2
<1> QED
  BY <1>6, <1>7 DEF Over, e

\* Fail and Close do that.
LEMMA Rejects ==
  ASSUME NEW h, DOMAIN h = SessionFields, SettledOK(h.settled), NEW reason
  PROVE  LET h2 == Reject(h, reason)
         IN  /\ DOMAIN h2 = SessionFields /\ h2.sid = h.sid /\ h2.writing = h.writing /\ h2.out = h.out
             /\ h2.conn = h.conn /\ h2.told = h.told /\ SettledOK(h2.settled)
             /\ h2.settled = h.settled \/ (h2.settled # Silence /\ ~h2.settled[1].ok)
             /\ h2.timer = h.timer /\ h2.pending = h.pending
<1> DEFINE h2 == Reject(h, reason)
<1>1. CASE IsTransfer(h.pending)
  <2>1. h2 = [h EXCEPT !.settled = Rejected(reason)]
    BY <1>1 DEF Reject
  <2>2. /\ DOMAIN h2 = SessionFields /\ h2.sid = h.sid /\ h2.writing = h.writing /\ h2.out = h.out
        /\ h2.conn = h.conn /\ h2.told = h.told /\ h2.settled = Rejected(reason)
        /\ h2.timer = h.timer /\ h2.pending = h.pending
    BY <2>1 DEF SessionFields
  <2> QED
    BY <2>2, RejectedIs
<1>2. CASE ~IsTransfer(h.pending)
  BY <1>2 DEF Reject
<1> QED
  BY <1>1, <1>2

\* #hangup closes the port of the session, if it has one.
LEMMA HangsUp ==
  ASSUME NEW h, DOMAIN h = SessionFields
  PROVE  LET h2 == Hangup(h)
         IN  /\ DOMAIN h2 = SessionFields /\ h2.sid = h.sid /\ h2.writing = h.writing
             /\ h2.conn = h.conn /\ h2.told = h.told /\ h2.settled = h.settled
             /\ h2.out = h.out \/ h2.out = Append(h.out, Command("close", h.sid, "nothing", None))
             /\ h.sid = 0 => h2 = h
<1> DEFINE h2 == Hangup(h)
<1>1. CASE h.sid = 0
  BY <1>1 DEF Hangup
<1>2. CASE h.sid # 0
  <2>1. h2 = [h EXCEPT !.out = Append(@, Command("close", h.sid, "nothing", None))]
    BY <1>2 DEF Hangup, Sends
  <2> QED
    BY <1>2, <2>1 DEF SessionFields
<1> QED
  BY <1>1, <1>2

\* #fail ends the session.
LEMMA Fails ==
  ASSUME NEW h, DOMAIN h = SessionFields, SettledOK(h.settled)
  PROVE  Over(h, Fail(h)) /\ Fail(h).told = TRUE /\ Fail(h).conn = "disconnected"
<1> DEFINE r == Reject(h, "failed")
           g == Hangup(r)
<1>1. /\ DOMAIN r = SessionFields /\ r.sid = h.sid /\ r.writing = h.writing /\ r.out = h.out
      /\ SettledOK(r.settled) /\ (r.settled = h.settled \/ (r.settled # Silence /\ ~r.settled[1].ok))
  BY Rejects
<1> HIDE DEF r
<1>2. /\ DOMAIN g = SessionFields /\ g.writing = r.writing /\ g.settled = r.settled
      /\ g.out = r.out \/ g.out = Append(r.out, Command("close", r.sid, "nothing", None))
  BY <1>1, HangsUp
<1>3. Fail(h) = [g EXCEPT !.sid = 0, !.seed = 0, !.pending = None, !.timer = FALSE,
                          !.conn = "disconnected", !.status = FALSE, !.busy = "unknown", !.told = TRUE]
  BY DEF Fail, r
<1> HIDE DEF g
<1> DEFINE h2 == Fail(h)
<1>4. /\ DOMAIN h2 = SessionFields /\ h2.sid = 0 /\ h2.pending = None /\ h2.timer = FALSE
      /\ h2.writing = g.writing /\ h2.settled = g.settled /\ h2.out = g.out
      /\ h2.told = TRUE /\ h2.conn = "disconnected"
  BY <1>2, <1>3 DEF SessionFields
<1> HIDE DEF h2
<1>5. Over(h, h2)
  BY <1>1, <1>2, <1>4 DEF Over
<1> QED
  BY <1>4, <1>5 DEF h2

\* close ends the session.
LEMMA Closes ==
  ASSUME NEW h, DOMAIN h = SessionFields, SettledOK(h.settled)
  PROVE  Over(h, Close(h)) /\ Close(h).told = h.told /\ Close(h).conn = h.conn
         /\ (h.sid = 0 /\ ~IsTransfer(h.pending) => Close(h).out = h.out)
<1> DEFINE r == Reject(h, "serial_session_closed")
           g == Hangup(r)
<1>1. /\ DOMAIN r = SessionFields /\ r.sid = h.sid /\ r.writing = h.writing /\ r.out = h.out
      /\ r.conn = h.conn /\ r.told = h.told
      /\ SettledOK(r.settled) /\ (r.settled = h.settled \/ (r.settled # Silence /\ ~r.settled[1].ok))
  BY Rejects
<1> HIDE DEF r
<1>2. /\ DOMAIN g = SessionFields /\ g.writing = r.writing /\ g.settled = r.settled
      /\ g.conn = r.conn /\ g.told = r.told
      /\ g.out = r.out \/ g.out = Append(r.out, Command("close", r.sid, "nothing", None))
      /\ r.sid = 0 => g = r
  BY <1>1, HangsUp
<1>3. Close(h) = [g EXCEPT !.sid = 0, !.pending = None, !.timer = FALSE]
  BY DEF Close, r
<1> HIDE DEF g
<1> DEFINE h2 == Close(h)
<1>4. /\ DOMAIN h2 = SessionFields /\ h2.sid = 0 /\ h2.pending = None /\ h2.timer = FALSE
      /\ h2.writing = g.writing /\ h2.settled = g.settled /\ h2.out = g.out
      /\ h2.told = g.told /\ h2.conn = g.conn
  BY <1>2, <1>3 DEF SessionFields
<1> HIDE DEF h2
<1>5. Over(h, h2)
  BY <1>1, <1>2, <1>4 DEF Over
<1>6. h.sid = 0 => h2.out = h.out
  BY <1>1, <1>2, <1>4
<1> QED
  BY <1>1, <1>2, <1>4, <1>5, <1>6 DEF h2

\* A session fails while no port is being opened.
LEMMA MidFails ==
  ASSUME World, NEW h, NEW mgr, NEW c, NEW ls, Mid(h, mgr, c, ls), mgr.scan # "opening"
  PROVE  Mid(Fail(h), mgr, c, ls)
<1>1. DOMAIN h = SessionFields /\ SettledOK(h.settled)
  BY DEF Mid, Turn, HostOK, Shape
<1> QED
  BY <1>1, Fails, MidOver

\* A handler asks for the time or for information.
LEMMA MidAsks ==
  ASSUME World, NEW h, NEW mgr, NEW c, NEW ls, Mid(h, mgr, c, ls), h.sid # 0, ~IsTransfer(h.pending),
         NEW pending, pending.kind \in {"time", "info"},
         NEW frame, frame.type \notin {"directory", "file"}
  PROVE  Mid(Ask(h, pending, frame), mgr, c, ls)
<1> DEFINE h2 == [h EXCEPT !.pending = pending, !.timer = TRUE]
<1>1. DOMAIN h = SessionFields /\ h.sid \in Nat /\ h.sid <= bridge.last
  BY DEF Mid, Turn, HostOK, Shape
<1>2. /\ DOMAIN h2 = SessionFields /\ h2.sid = h.sid /\ h2.writing = h.writing /\ h2.settled = h.settled
      /\ h2.out = h.out /\ h2.conn = h.conn /\ h2.told = h.told /\ h2.timer = TRUE /\ h2.pending = pending
  BY <1>1 DEF SessionFields
<1> HIDE DEF h2
<1>3. mgr.scan = "none" /\ mgr.opening = 0
  BY KnownWork DEF Mid, Turn, HostOK, Link, SameWork
<1>4. Mid(h2, mgr, c, ls)
  <2>1. h2.timer \in BOOLEAN
    BY <1>2, Zenon
  <2>2. Continues(h, mgr, h2)
    BY <1>2, <1>3, <2>1 DEF Continues
  <2> QED
    BY <2>2, MidKeeps
<1>5. Ask(h, pending, frame) = Sends(h2, "write", "handler", frame)
  BY DEF Ask, h2
<1> DEFINE e == Command("write", h2.sid, "handler", frame)
           k == Known(h2, mgr)
<1>6. e.op = "write" /\ e.sid = h.sid /\ e.then = "handler" /\ e.frame = frame
      /\ DOMAIN e = {"op", "sid", "then", "frame"}
  BY <1>2 DEF Command
<1>7. k.scan = "none" /\ k.opening = 0
  BY <1>3, <1>4, KnownWork DEF Mid, SameWork
<1> HIDE DEF e, k
<1>8. CommandOK(e, nano.files, bridge.last)
  <2>1. e.sid \in 0 .. bridge.last
    BY <1>1, <1>6 DEF World
  <2> QED
    BY <1>6, <2>1 DEF CommandOK, Writes, AskOK
<1>9. Askable(e, h2, k, c \o h2.out, ls)
  <2>1. ~Awaits(h2.pending)
    BY <1>2 DEF Awaits, IsTransfer
  <2> QED
    BY <1>2, <1>6, <1>7, <2>1 DEF Askable, Writes
<1> QED
  BY <1>4, <1>5, <1>8, <1>9, MidSends DEF e, k

\* The information of the Nano is asked for.
LEMMA MidInfo ==
  ASSUME World, NEW h, NEW mgr, NEW c, NEW ls, Mid(h, mgr, c, ls), h.sid # 0, NEW code
  PROVE  Mid(Info(h, code), mgr, c, ls)
<1>1. CASE h.pending # None \/ h.seed = 0
  BY <1>1 DEF Info
<1>2. CASE ~(h.pending # None \/ h.seed = 0)
  <2> DEFINE pending == [kind |-> "info", code |-> code]
             frame   == [type |-> "info", code |-> code, seed |-> h.seed]
  <2>1. pending.kind = "info" /\ frame.type = "info"
    OBVIOUS
  <2>2. ~IsTransfer(h.pending)
    BY <1>2 DEF IsTransfer, None
  <2>3. Info(h, code) = Ask(h, pending, frame)
    BY <1>2 DEF Info
  <2> HIDE DEF pending, frame
  <2> QED
    BY <2>1, <2>2, <2>3, MidAsks
<1> QED
  BY <1>1, <1>2

\* A chunk is acknowledged.
LEMMA MidAcknowledges ==
  ASSUME World, NEW h, NEW mgr, NEW c, NEW ls, Mid(h, mgr, c, ls), h.sid # 0, ~Awaits(h.pending)
  PROVE  Mid(Acknowledge(h, "rearm"), mgr, c, ls)
<1>1. DOMAIN h = SessionFields /\ h.sid \in Nat /\ h.sid <= bridge.last /\ DOMAIN mgr = ManagerFields
  BY DEF Mid, Turn, HostOK, Shape
<1>2. mgr.scan = "none" /\ mgr.opening = 0
  BY KnownWork DEF Mid, Turn, HostOK, Link, SameWork
<1>3. CASE h.seed = 0
  BY <1>2, <1>3, MidFails DEF Acknowledge
<1>4. CASE h.seed # 0
  <2> DEFINE frame == [type |-> "ack", seed |-> h.seed]
             e == Command("write", h.sid, "rearm", frame)
             k == Known(h, mgr)
  <2>1. e.op = "write" /\ e.sid = h.sid /\ e.then = "rearm" /\ e.frame = frame /\ frame.type = "ack"
        /\ DOMAIN e = {"op", "sid", "then", "frame"}
    BY DEF Command
  <2>2. k.scan = "none" /\ k.opening = 0
    BY <1>1, <1>2, KnownWork DEF SameWork
  <2>3. Acknowledge(h, "rearm") = Sends(h, "write", "rearm", frame)
    BY <1>4 DEF Acknowledge
  <2> HIDE DEF e, k, frame
  <2>4. CommandOK(e, nano.files, bridge.last)
    <3>1. e.sid \in 0 .. bridge.last
      BY <1>1, <2>1 DEF World
    <3> QED
      BY <2>1, <3>1 DEF CommandOK, Writes, AskOK
  <2>5. Askable(e, h, k, c \o h.out, ls)
    BY <2>1, <2>2 DEF Askable, Writes
  <2>6. frame.type \notin {"directory", "file"}
    BY <2>1
  <2> QED
    BY <2>3, <2>4, <2>5, <2>6, MidSends DEF e, k
<1> QED
  BY <1>3, <1>4

\* A request to connect, and the answers about time and state.
LEMMA MidConnection ==
  ASSUME World, NEW h, NEW mgr, NEW c, NEW ls, Mid(h, mgr, c, ls), h.sid # 0, NEW f
  PROVE  Mid(ConnectionRequest(h, f), mgr, c, ls)
<1>1. DOMAIN h = SessionFields /\ h.timer \in BOOLEAN
  BY DEF Mid, Turn, HostOK, Shape
<1>2. mgr.scan = "none"
  BY KnownWork DEF Mid, Turn, HostOK, Link, SameWork
<1>3. CASE ~f.supported
  BY <1>2, <1>3, MidFails DEF ConnectionRequest
<1>4. CASE f.supported /\ (h.pending # None \/ h.conn = "connected")
  BY <1>4 DEF ConnectionRequest
<1>5. CASE f.supported /\ ~(h.pending # None \/ h.conn = "connected")
  <2> DEFINE h2 == [h EXCEPT !.seed = f.seed, !.conn = "reconnecting", !.firmware = FALSE,
                             !.status = FALSE, !.busy = "unknown", !.told = TRUE]
             pending == [kind |-> "time", at |-> h.sid]
             frame   == [type |-> "time", at |-> h.sid, seed |-> f.seed]
  <2>1. /\ DOMAIN h2 = SessionFields /\ h2.sid = h.sid /\ h2.writing = h.writing /\ h2.settled = h.settled
        /\ h2.out = h.out /\ h2.conn = "reconnecting" /\ h2.told = TRUE /\ h2.timer = h.timer
        /\ h2.pending = h.pending
    BY <1>1 DEF SessionFields
  <2>2. pending.kind = "time" /\ frame.type = "time"
    OBVIOUS
  <2>3. ConnectionRequest(h, f) = Ask(h2, pending, frame)
    BY <1>5 DEF ConnectionRequest
  <2> HIDE DEF h2, pending, frame
  <2>4. Continues(h, mgr, h2)
    <3>1. h2.timer \in BOOLEAN
      BY <1>1, <2>1, Zenon
    <3> QED
      BY <1>2, <2>1, <3>1 DEF Continues
  <2>5. ~IsTransfer(h2.pending)
    BY <1>5, <2>1 DEF IsTransfer, None
  <2>6. Mid(h2, mgr, c, ls)
    BY <2>4, MidKeeps
  <2> QED
    BY <2>1, <2>2, <2>3, <2>5, <2>6, MidAsks
<1> QED
  BY <1>3, <1>4, <1>5

\* The time is acknowledged.
LEMMA MidTime ==
  ASSUME World, NEW h, NEW mgr, NEW c, NEW ls, Mid(h, mgr, c, ls), h.sid # 0, NEW f
  PROVE  Mid(TimeSyncAck(h, f), mgr, c, ls)
<1>1. DOMAIN h = SessionFields
  BY DEF Mid, Turn, HostOK, Shape
<1>2. mgr.scan = "none"
  BY KnownWork DEF Mid, Turn, HostOK, Link, SameWork
<1>3. CASE h.pending.kind # "time" \/ h.pending.at # f.at
  BY <1>2, <1>3, MidFails DEF TimeSyncAck
<1>4. CASE ~(h.pending.kind # "time" \/ h.pending.at # f.at)
  <2> DEFINE h2 == [h EXCEPT !.pending = None, !.timer = FALSE, !.conn = "connected", !.told = TRUE]
  <2>1. /\ DOMAIN h2 = SessionFields /\ h2.sid = h.sid /\ h2.writing = h.writing /\ h2.settled = h.settled
        /\ h2.out = h.out /\ h2.conn = "connected" /\ h2.told = TRUE /\ h2.timer = FALSE
        /\ h2.pending = None
    BY <1>1 DEF SessionFields
  <2>2. TimeSyncAck(h, f) = Info(h2, 9)
    BY <1>4 DEF TimeSyncAck
  <2> HIDE DEF h2
  <2>3. Continues(h, mgr, h2)
    <3>1. h2.timer \in BOOLEAN
      BY <2>1, Zenon
    <3> QED
      BY <1>2, <1>4, <2>1, <3>1 DEF Continues, IsTransfer, None
  <2> QED
    BY <2>1, <2>2, <2>3, MidKeeps, MidInfo
<1> QED
  BY <1>3, <1>4

\* The information of the Nano is taken in.
LEMMA MidInformed ==
  ASSUME World, NEW h, NEW mgr, NEW c, NEW ls, Mid(h, mgr, c, ls), h.sid # 0, NEW f
  PROVE  Mid(InfoResponse(h, f), mgr, c, ls)
<1>1. DOMAIN h = SessionFields
  BY DEF Mid, Turn, HostOK, Shape
<1>2. mgr.scan = "none"
  BY KnownWork DEF Mid, Turn, HostOK, Link, SameWork
<1>3. CASE h.pending.kind # "info" \/ h.pending.code # f.code
  BY <1>3 DEF InfoResponse
<1>4. CASE ~(h.pending.kind # "info" \/ h.pending.code # f.code)
  <2> DEFINE g  == [h EXCEPT !.pending = None, !.timer = FALSE, !.told = TRUE]
             h2 == [g EXCEPT !.status = TRUE, !.busy = f.value]
             h3 == [g EXCEPT !.firmware = TRUE]
  <2>1. \A h4 \in {h2, h3} :
          /\ DOMAIN h4 = SessionFields /\ h4.sid = h.sid /\ h4.writing = h.writing
          /\ h4.settled = h.settled /\ h4.out = h.out /\ h4.conn = h.conn /\ h4.told = TRUE
          /\ h4.timer = FALSE /\ h4.pending = None
    BY <1>1 DEF SessionFields
  <2>2. InfoResponse(h, f) = Info(h2, 3) \/ InfoResponse(h, f) = h3
    BY <1>4 DEF InfoResponse
  <2> HIDE DEF h2, h3
  <2>3. ASSUME NEW h4 \in {h2, h3} PROVE Mid(h4, mgr, c, ls) /\ h4.sid # 0
    <3>0. /\ DOMAIN h4 = SessionFields /\ h4.sid = h.sid /\ h4.writing = h.writing
          /\ h4.settled = h.settled /\ h4.out = h.out /\ h4.conn = h.conn /\ h4.told = TRUE
          /\ h4.timer = FALSE /\ h4.pending = None
      BY <2>1
    <3>1. h4.timer \in BOOLEAN
      BY <3>0, Zenon
    <3>2. Continues(h, mgr, h4)
      BY <1>2, <1>4, <3>0, <3>1 DEF Continues, IsTransfer, None
    <3> QED
      BY <3>0, <3>2, MidKeeps
  <2> QED
    BY <2>2, <2>3, MidInfo
<1> QED
  BY <1>3, <1>4

\* A notice of the Nano is taken in.
LEMMA MidNotified ==
  ASSUME World, NEW h, NEW mgr, NEW c, NEW ls, Mid(h, mgr, c, ls), h.sid # 0, NEW f
  PROVE  Mid(Notification(h, f), mgr, c, ls)
<1> DEFINE h2 == Notification(h, f)
<1>1. DOMAIN h = SessionFields /\ h.timer \in BOOLEAN
  BY DEF Mid, Turn, HostOK, Shape
<1>2. mgr.scan = "none"
  BY KnownWork DEF Mid, Turn, HostOK, Link, SameWork
<1>3. /\ DOMAIN h2 = SessionFields /\ h2.sid = h.sid /\ h2.writing = h.writing /\ h2.settled = h.settled
      /\ h2.out = h.out /\ h2.conn = h.conn /\ h2.told = TRUE /\ h2.timer = h.timer
      /\ h2.pending = h.pending
  BY <1>1 DEF SessionFields, Notification
<1> HIDE DEF h2
<1>4. h2.timer \in BOOLEAN
  BY <1>1, <1>3, Zenon
<1>5. Continues(h, mgr, h2)
  BY <1>2, <1>3, <1>4 DEF Continues
<1> QED
  BY <1>5, MidKeeps DEF h2

-----------------------------------------------------------------------------
(* What is taken from the queues.                                          *)

\* The queues c2 and ls2 are what is left of c and ls.
Follows(h, mgr, c, ls, c2, ls2) ==
  /\ QueuesOK(h, mgr, c2, ls2, asks, bridge.sid, nano.files, nano.held, bridge.last)
  /\ \A p, d, failing :
       Ranked(h.sid, p, d, failing, c, ls, asks, bridge.sid, bridge.done, crossed)
         => Ranked(h.sid, p, d, failing, c2, ls2, asks, bridge.sid, bridge.done, crossed)
  /\ Failing(c2, ls2, bridge.done) => Failing(c, ls, bridge.done)
  /\ bridge.done # "no" => c2 # << >>

\* Half way through a step, with what follows.
LEMMA TurnFollows ==
  ASSUME World, NEW h, NEW mgr, NEW c, NEW ls, Turn(h, mgr, c, ls),
         NEW c2, NEW ls2, Follows(h, mgr, c, ls, c2, ls2)
  PROVE  Turn(h, mgr, c2, ls2)
<1>1. PlacesOK(h, mgr, c2, ls2, asks, bridge.sid, bridge.done, crossed)
  <2> SUFFICES ASSUME crossed < 3
               PROVE  Ranked(h.sid, h.pending, Depth(h, mgr), Failing(c2, ls2, bridge.done), c2, ls2,
                             asks, bridge.sid, bridge.done, crossed)
    BY DEF PlacesOK
  <2> DEFINE d  == Depth(h, mgr)
             fl == Failing(c, ls, bridge.done)
             f2 == Failing(c2, ls2, bridge.done)
  <2>1. Ranked(h.sid, h.pending, d, fl, c, ls, asks, bridge.sid, bridge.done, crossed)
    BY DEF Turn, PlacesOK
  <2>2. d \in Int /\ d <= d /\ crossed \in Int /\ crossed <= crossed
    BY DepthIs DEF World
  <2>3. f2 => fl
    BY DEF Follows
  <2> HIDE DEF d, fl, f2
  <2>4. Ranked(h.sid, h.pending, d, f2, c, ls, asks, bridge.sid, bridge.done, crossed)
    BY <2>1, <2>2, <2>3, RankedStill
  <2>5. Ranked(h.sid, h.pending, d, f2, c2, ls2, asks, bridge.sid, bridge.done, crossed)
    BY <2>4 DEF Follows
  <2> QED
    BY <2>5 DEF d, f2
<1> QED
  BY <1>1 DEF Turn, Follows

\* A line is read.
LEMMA Reads ==
  ASSUME World, NEW h, NEW mgr, NEW c, NEW ls, Turn(h, mgr, c, ls), ls # << >>
  PROVE  Follows(h, mgr, c, ls, c, Tail(ls)) /\ Turn(h, mgr, c, Tail(ls))
<1>1. IsSeq(c) /\ IsSeq(ls) /\ IsSeq(asks)
  BY DEF Turn, QueuesOK
<1>2. IsRest(Tail(ls), ls) /\ IsRest(c, c) /\ IsRest(asks, asks)
  BY <1>1, RestOfAll, RestOfHead
<1>3. QueuesOK(h, mgr, c, Tail(ls), asks, bridge.sid, nano.files, nano.held, bridge.last)
  BY <1>2, QueuesShorten DEF Turn
<1>4. ASSUME NEW p, NEW d, NEW failing,
             Ranked(h.sid, p, d, failing, c, ls, asks, bridge.sid, bridge.done, crossed)
      PROVE  Ranked(h.sid, p, d, failing, c, Tail(ls), asks, bridge.sid, bridge.done, crossed)
  BY <1>2, <1>4, RankedRest
<1>5. Failing(c, Tail(ls), bridge.done) => Failing(c, ls, bridge.done)
  <2>1. \A i \in DOMAIN Tail(ls) : i + 1 \in DOMAIN ls /\ Tail(ls)[i] = ls[i + 1]
    BY <1>1, RestOfHead, SeqFacts
  <2> QED
    BY <2>1 DEF Failing, Told
<1>6. Follows(h, mgr, c, ls, c, Tail(ls))
  BY <1>3, <1>4, <1>5 DEF Follows, Turn
<1> QED
  BY <1>6, TurnFollows

\* The answer to the write of a request is taken, for what it is, or not waited for.
LEMMA TurnAnswered ==
  ASSUME World, NEW h, NEW mgr, NEW c, NEW ls, Turn(h, mgr, c, ls),
         NEW c2, NEW ls2, Follows(h, mgr, c, ls, c2, ls2), ~Outstanding("request", c2, ls2)
  PROVE  /\ Turn([h EXCEPT !.writing = FALSE], mgr, c2, ls2)
         /\ ~Awaits(h.pending) \/ Failing(c, ls, bridge.done) => Turn(RequestFailed(h), mgr, c2, ls2)
<1>0. DOMAIN h = SessionFields /\ h.timer \in BOOLEAN /\ SettledOK(h.settled)
  BY DEF Turn, HostOK, Shape
<1>1. Turn(h, mgr, c2, ls2)
  BY TurnFollows
<1>2. Turn([h EXCEPT !.writing = FALSE], mgr, c2, ls2)
  <2> DEFINE h2 == [h EXCEPT !.writing = FALSE]
  <2>1. /\ DOMAIN h2 = SessionFields /\ h2.sid = h.sid /\ h2.writing = FALSE /\ h2.settled = h.settled
        /\ h2.out = h.out /\ h2.conn = h.conn /\ h2.told = h.told /\ h2.timer = h.timer
        /\ h2.pending = h.pending
    BY <1>0 DEF SessionFields
  <2> HIDE DEF h2
  <2>2. h2.writing \in BOOLEAN /\ h2.timer \in BOOLEAN
    BY <1>0, <2>1, Zenon
  <2>3. HostOK(h2, mgr)
    BY <2>1, <2>2 DEF Turn, HostOK, Shape, Talk, Link
  <2>4. QueuesOK(h2, mgr, c2, ls2, asks, bridge.sid, nano.files, nano.held, bridge.last)
    BY <1>1, <2>1, QueuesHost DEF Turn
  <2>5. Depth(h2, mgr) = Depth(h, mgr)
    BY <2>1 DEF Depth
  <2>6. PlacesOK(h2, mgr, c2, ls2, asks, bridge.sid, bridge.done, crossed)
    BY <1>1, <2>1, <2>5 DEF Turn, PlacesOK
  <2>7. GotOK(h2, mgr, nano.files, nano.held, crossed) /\ ReadOK(h2, mgr, nano.files, nano.held, crossed)
    BY <1>1, <2>1 DEF Turn, GotOK, ReadOK
  <2> QED
    BY <1>1, <2>1, <2>3, <2>4, <2>6, <2>7 DEF Turn, h2
<1>3. ASSUME ~Awaits(h.pending) \/ Failing(c, ls, bridge.done) PROVE Turn(RequestFailed(h), mgr, c2, ls2)
  <2> DEFINE h2 == RequestFailed(h)
  <2>1. /\ DOMAIN h2 = SessionFields /\ h2.sid = h.sid /\ h2.writing = FALSE
        /\ h2.settled = (IF h.settled = Silence THEN Rejected("write_failed") ELSE h.settled)
        /\ h2.out = h.out /\ h2.conn = h.conn /\ h2.told = h.told /\ h2.timer = FALSE
        /\ h2.pending = None
    BY <1>0 DEF SessionFields, RequestFailed
  <2> HIDE DEF h2
  <2>2. h2.writing \in BOOLEAN /\ h2.timer \in BOOLEAN
    BY <2>1, Zenon
  <2>3. ~IsTransfer(h2.pending) /\ ~Awaits(h2.pending) /\ PendingOK(h2.pending)
    BY <2>1 DEF IsTransfer, Awaits, None, PendingOK
  <2>4. /\ SettledOK(h2.settled) /\ h2.settled # Silence
        /\ h2.settled = h.settled \/ (h.settled = Silence /\ ~h2.settled[1].ok)
    BY <1>0, <2>1, RejectedIs
  <2>5. HostOK(h2, mgr)
    <3>1. Shape(h2, mgr)
      BY <2>1, <2>2, <2>3, <2>4 DEF Turn, HostOK, Shape
    <3>2. Talk(h2, mgr)
      BY <2>1, <2>3 DEF Talk
    <3>3. Link(h2, mgr)
      BY <2>1 DEF Turn, HostOK, Link
    <3> QED
      BY <3>1, <3>2, <3>3 DEF HostOK
  <2>6. QueuesOK(h2, mgr, c2, ls2, asks, bridge.sid, nano.files, nano.held, bridge.last)
    BY <1>1, <2>3, QueuesHost DEF Turn
  <2>7. PlacesOK(h2, mgr, c2, ls2, asks, bridge.sid, bridge.done, crossed)
    <3> SUFFICES ASSUME crossed < 3
                 PROVE  Ranked(h.sid, h2.pending, Depth(h2, mgr), Failing(c2, ls2, bridge.done), c2, ls2,
                               asks, bridge.sid, bridge.done, crossed)
      BY <2>1 DEF PlacesOK
    <3> DEFINE d  == Depth(h, mgr)
               d2 == Depth(h2, mgr)
               fl == Failing(c, ls, bridge.done)
               f2 == Failing(c2, ls2, bridge.done)
    <3>1. Ranked(h.sid, h.pending, d, fl, c, ls, asks, bridge.sid, bridge.done, crossed)
      BY DEF Turn, PlacesOK
    <3>2. d \in Int /\ d2 \in Int /\ crossed \in Int
      BY DepthIs DEF World
    <3>3. Awaits(h.pending) => d2 = 0
      <4>1. Awaits(h.pending) => h.settled = Silence
        BY DEF Awaits, Turn, HostOK, Talk
      <4> QED
        BY <2>4, <4>1 DEF Depth
    <3>4. d2 = 0 \/ h.settled = h2.settled
      BY <2>4 DEF Depth
    <3>5. h.settled = h2.settled => d2 = d
      BY <2>4 DEF Depth
    <3>6. d2 <= d
      BY <3>2, <3>4, <3>5, DepthIs
    <3>7. ~Awaits(h.pending) \/ fl
      BY <1>3
    <3> HIDE DEF d, d2, fl, f2
    <3>8. (~Awaits(h.pending) /\ d2 <= d) \/ ((~Awaits(h.pending) \/ fl) /\ d2 = 0)
      BY <3>3, <3>6, <3>7
    <3>9. Ranked(h.sid, h2.pending, d2, f2, c, ls, asks, bridge.sid, bridge.done, crossed)
      BY <3>1, <3>2, <3>8, RankedFree
    <3>10. Ranked(h.sid, h2.pending, d2, f2, c2, ls2, asks, bridge.sid, bridge.done, crossed)
      BY <3>9 DEF Follows
    <3> QED
      BY <3>10 DEF d2, f2
  <2>8. GotOK(h2, mgr, nano.files, nano.held, crossed)
    BY <2>3 DEF GotOK
  <2>9. ReadOK(h2, mgr, nano.files, nano.held, crossed)
    BY <2>4 DEF Turn, ReadOK
  <2> QED
    BY <1>1, <2>1, <2>5, <2>6, <2>7, <2>8, <2>9 DEF Turn, h2
<1> QED
  BY <1>2, <1>3

\* A step begins with nothing said.
LEMMA Starts ==
  ASSUME NEW h, NEW mgr, NEW c, NEW ls, Turn(h, mgr, c, ls), ~h.told, h.out = << >>
  PROVE  Mid(h, mgr, c, ls) /\ c \o h.out = c /\ Known(h, mgr) = mgr
<1>1. IsSeq(c) /\ DOMAIN mgr = ManagerFields
  BY DEF Turn, QueuesOK, HostOK, Shape
<1>2. c \o h.out = c /\ IsSeq(h.out)
  BY <1>1, Joined, NoneLeft
<1>3. Known(h, mgr) = mgr
  BY DEF Known
<1> QED
  BY <1>1, <1>2, <1>3 DEF Mid

-----------------------------------------------------------------------------
(* Chunks.                                                                 *)

\* The head of the lines is a chunk for the transfer that is pending.
Taken(h, ls) ==
  /\ ls # << >> /\ ls[1].type = "data" /\ ls[1].sid = h.sid /\ IsChunk(ls[1].frame)
  /\ IsTransfer(h.pending) /\ h.pending.kind = ls[1].frame.kind
  /\ ls[1].frame.outcome # 0 \/ ls[1].frame.seq = h.pending.next

\* A first chunk is of the request that waits; and, with it, one listing more is
\* behind the run.
LEMMA TakesPlace ==
  ASSUME World, NEW h, NEW mgr, NEW c, NEW ls, Turn(h, mgr, c, ls), Taken(h, ls), crossed < 3
  PROVE  /\ Awaits(h.pending) =>
              /\ h.pending.kind = "file" => ls[1].frame.data.path = h.pending.path
              /\ crossed = 0 => ls[1].frame.data.path = h.pending.path
         /\ \A p2, failing2 : \A d2 \in Int :
              d2 = 0 \/ d2 <= (IF ~Awaits(h.pending) \/ h.pending.kind = "file"
                               THEN Depth(h, mgr) ELSE Depth(h, mgr) + 1)
              => Ranked(h.sid, p2, d2, failing2, c, Tail(ls), asks, bridge.sid, bridge.done, crossed)
<1> DEFINE d  == Depth(h, mgr)
           fl == Failing(c, ls, bridge.done)
           p  == h.pending
           f  == ls[1].frame
<1>1. Ranked(h.sid, p, d, fl, c, ls, asks, bridge.sid, bridge.done, crossed)
  BY DEF Turn, PlacesOK
<1>2. d \in Int /\ 0 <= d /\ crossed \in Nat /\ crossed \in Int
  BY DepthIs DEF World
<1>3. IsSeq(c) /\ IsSeq(ls) /\ IsSeq(asks) /\ 1 \in DOMAIN ls
  BY RestOfHead DEF Turn, QueuesOK, Taken
<1>4. LineOK(ls[1], nano.files, nano.held, bridge.last)
  BY <1>3 DEF Turn, QueuesOK
<1>5. PendingOK(p) /\ h.sid # 0
  BY DEF Turn, HostOK, Shape, Talk, Taken
<1>6. p.kind = "file" => d = 2
  BY DEF Turn, HostOK, Talk, Depth, Taken, Silence
<1>7. CASE Awaits(p)
  <2>1. FirstChunk(f)
    <3>1. f.seq = 0 \/ f.seq = 1
      BY <1>4, <1>7 DEF Taken, LineOK, Awaits
    <3> QED
      BY <3>1 DEF Taken, FirstChunk
  <2>2. InLines(1, h.sid, ls)
    BY <1>3, <1>5, <2>1 DEF InLines, Taken
  <2>3. ls # << >> /\ ls[1].frame.kind = p.kind
    BY DEF Taken
  <2> HIDE DEF d, fl, p
  <2>4. /\ p.kind = "file" => ls[1].frame.data.path = p.path
        /\ crossed = 0 => ls[1].frame.data.path = p.path
        /\ \A p2, failing2 : \A d2 \in Int :
             d2 = 0 \/ d2 <= (IF p.kind = "file" THEN d ELSE d + 1)
             => Ranked(h.sid, p2, d2, failing2, c, Tail(ls), asks, bridge.sid, bridge.done, crossed)
    BY <1>1, <1>2, <1>3, <1>6, <1>7, <2>2, <2>3, RankedTake
  <2> QED
    BY <1>7, <2>4 DEF d, p
<1>8. CASE ~Awaits(p)
  <2>1. IsRest(Tail(ls), ls) /\ IsRest(c, c) /\ IsRest(asks, asks)
    BY <1>3, RestOfAll, RestOfHead DEF Taken
  <2> HIDE DEF d, fl, p
  <2>2. ASSUME NEW p2, NEW failing2, NEW d2 \in Int, d2 = 0 \/ d2 <= d
        PROVE  Ranked(h.sid, p2, d2, failing2, c, Tail(ls), asks, bridge.sid, bridge.done, crossed)
    <3>1. Ranked(h.sid, p2, d2, failing2, c, ls, asks, bridge.sid, bridge.done, crossed)
      BY <1>1, <1>2, <1>8, <2>2, RankedFree
    <3> QED
      BY <2>1, <3>1, RankedRest
  <2> QED
    BY <1>8, <2>2 DEF d, p
<1> QED
  BY <1>7, <1>8

\* What has been got, with the chunk.
LEMMA TakesData ==
  ASSUME World, NEW h, NEW mgr, NEW c, NEW ls, Turn(h, mgr, c, ls), Taken(h, ls), ls[1].frame.outcome = 0
  PROVE  LET got == Append(h.pending.got, ls[1].frame.data)
         IN  /\ IsSeq(got) /\ got # << >>
             /\ h.pending.kind = "file" => (crossed < 3 => <<h.pending.path, got[1].content>> \in nano.held)
             /\ h.pending.kind = "directory" =>
                  /\ got[1].entries \subseteq DOMAIN nano.files
                  /\ crossed = 0 => got[1].path = h.pending.path
<1> DEFINE p   == h.pending
           f   == ls[1].frame
           got == Append(p.got, f.data)
<1>1. PendingOK(p) /\ IsSeq(p.got) /\ p.next \in Nat /\ (p.next = 1 <=> p.got = << >>)
  BY DEF Turn, HostOK, Shape, PendingOK, Taken, IsTransfer
<1>2. LineOK(ls[1], nano.files, nano.held, bridge.last)
  BY RestOfHead DEF Turn, QueuesOK, Taken
<1>3. DataOK(p.kind, f.data, nano.files, nano.held) /\ p.kind \in {"directory", "file"}
  BY <1>2 DEF LineOK, Taken, IsTransfer
<1>4. IsSeq(got) /\ got # << >>
  BY <1>1, GrownByOne, AppendSome
<1>5. got[1] = IF p.got = << >> THEN f.data ELSE p.got[1]
  <2>1. Len(p.got) \in Nat /\ got[Len(got)] = f.data /\ Len(got) = Len(p.got) + 1
        /\ (\A i \in 1 .. Len(p.got) : got[i] = p.got[i]) /\ (p.got = << >> <=> Len(p.got) = 0)
    BY <1>1, GrownByOne, SeqFacts DEF Grown
  <2> HIDE DEF got
  <2> QED
    BY <2>1
<1> HIDE DEF got
<1>6. CASE p.got = << >>
  <2>1. Awaits(p)
    BY <1>1, <1>6 DEF Awaits, Taken
  <2>2. crossed < 3 => /\ p.kind = "file" => f.data.path = p.path
                       /\ crossed = 0 => f.data.path = p.path
    BY <2>1, TakesPlace
  <2>3. crossed \in Nat
    BY DEF World
  <2> QED
    BY <1>3, <1>4, <1>5, <1>6, <2>2, <2>3 DEF DataOK, got
<1>7. CASE p.got # << >>
  <2>1. GotOK(h, mgr, nano.files, nano.held, crossed) /\ IsTransfer(p)
    BY DEF Turn, Taken
  <2> QED
    BY <1>4, <1>5, <1>7, <2>1 DEF GotOK, got
<1> QED
  BY <1>6, <1>7

\* From h and mgr, with the chunk at the head of ls, to h2 and mgr2.
Takes(h, mgr, h2, mgr2, f) ==
  /\ DOMAIN h2 = SessionFields /\ SameWork(mgr, mgr2) /\ mgr2.conn \in {mgr.conn, h.conn}
  /\ h2.sid = h.sid /\ h2.writing = h.writing /\ h2.conn = h.conn
  /\ \/ \E reason : /\ h2.pending = None /\ h2.timer = FALSE /\ h2.settled = Rejected(reason)
     \/ /\ f.outcome = 0 /\ h2.timer = h.timer /\ h2.settled = h.settled
        /\ h2.pending = [h.pending EXCEPT !.next = @ + 1, !.got = Append(h.pending.got, f.data)]
     \/ /\ f.outcome = 0 /\ h2.pending = None /\ h2.timer = FALSE
        /\ h2.settled = Resolved([path |-> h.pending.path, data |-> Append(h.pending.got, f.data)])

\* A first chunk is taken for the request that waits.
LEMMA TurnTakes ==
  ASSUME World, NEW h, NEW mgr, NEW c, NEW ls, Turn(h, mgr, c, ls), Taken(h, ls),
         NEW h2, NEW mgr2, Takes(h, mgr, h2, mgr2, ls[1].frame)
  PROVE  Turn(h2, mgr2, c, Tail(ls)) /\ ~Awaits(h2.pending)
<1> DEFINE p   == h.pending
           f   == ls[1].frame
           got == Append(p.got, f.data)
<1>1. /\ PendingOK(p) /\ p.kind \in {"directory", "file"} /\ h.timer \in BOOLEAN /\ h.writing \in BOOLEAN
      /\ DOMAIN p = {"kind", "path", "next", "got"} /\ p.next \in Nat \ {0} /\ h.settled = Silence
      /\ mgr.stage # "none" /\ mgr.stage \in {"none", "logs", "profiles", "files"}
      /\ (mgr.stage = "files" <=> p.kind = "file") /\ (mgr.stage = "logs" => p.path = "logs")
      /\ h.sid # 0 /\ h.timer
  BY DEF Turn, HostOK, Shape, Talk, PendingOK, Taken, IsTransfer
<1>2. f.outcome = 0 =>
        /\ IsSeq(got) /\ got # << >>
        /\ p.kind = "file" => (crossed < 3 => <<p.path, got[1].content>> \in nano.held)
        /\ p.kind = "directory" => /\ got[1].entries \subseteq DOMAIN nano.files
                                   /\ crossed = 0 => got[1].path = p.path
  BY TakesData
<1>3. /\ h2.sid = h.sid /\ h2.writing = h.writing /\ h2.conn = h.conn /\ DOMAIN h2 = SessionFields
      /\ mgr2.stage = mgr.stage /\ mgr2.opening = mgr.opening /\ mgr2.scan = mgr.scan
      /\ DOMAIN mgr2 = ManagerFields /\ mgr2.logs = mgr.logs /\ mgr2.of = mgr.of
      /\ mgr2.conn \in {mgr.conn, h.conn}
  BY DEF Takes, SameWork
<1> HIDE DEF got
<1>4. \/ \E reason : h2.pending = None /\ h2.timer = FALSE /\ h2.settled = Rejected(reason)
      \/ /\ f.outcome = 0 /\ h2.timer = h.timer /\ h2.settled = Silence
         /\ h2.pending = [p EXCEPT !.next = @ + 1, !.got = got]
      \/ /\ f.outcome = 0 /\ h2.pending = None /\ h2.timer = FALSE
         /\ h2.settled = Resolved([path |-> p.path, data |-> got])
  BY <1>1 DEF Takes, got
<1>5. h.sid # 0 => mgr2.conn # "disconnected" /\ h.conn # "disconnected"
  BY <1>3 DEF Turn, HostOK, Link
<1>6. mgr.scan = "none" /\ mgr.opening = 0
  BY <1>1 DEF Turn, HostOK, Link
<1>7. Link(h2, mgr2)
  BY <1>3, <1>5, <1>6 DEF Link
<1>8. Turn(h, mgr, c, Tail(ls))
  BY Reads DEF Taken
\* what is on its way, with one taken
<1>9. ASSUME crossed < 3, NEW d2 \in Int,
             d2 = 0 \/ d2 <= (IF ~Awaits(p) \/ p.kind = "file" THEN Depth(h, mgr) ELSE Depth(h, mgr) + 1)
      PROVE  Ranked(h2.sid, h2.pending, d2, Failing(c, Tail(ls), bridge.done), c, Tail(ls), asks, bridge.sid,
                    bridge.done, crossed)
  BY <1>3, <1>9, TakesPlace
<1>10. ASSUME Shape(h2, mgr2), Talk(h2, mgr2), ~Awaits(h2.pending),
              Depth(h2, mgr2) = 0 \/ Depth(h2, mgr2)
                <= (IF ~Awaits(p) \/ p.kind = "file" THEN Depth(h, mgr) ELSE Depth(h, mgr) + 1),
              GotOK(h2, mgr2, nano.files, nano.held, crossed),
              ReadOK(h2, mgr2, nano.files, nano.held, crossed)
       PROVE  Turn(h2, mgr2, c, Tail(ls)) /\ ~Awaits(h2.pending)
  <2>1. Depth(h2, mgr2) \in Int
    BY DepthIs
  <2>2. PlacesOK(h2, mgr2, c, Tail(ls), asks, bridge.sid, bridge.done, crossed)
    BY <1>9, <1>10, <2>1 DEF PlacesOK
  <2>3. QueuesOK(h2, mgr2, c, Tail(ls), asks, bridge.sid, nano.files, nano.held, bridge.last)
    BY <1>3, <1>8, <1>10, QueuesHost DEF Turn
  <2>4. HostOK(h2, mgr2)
    BY <1>7, <1>10 DEF HostOK
  <2> QED
    BY <1>3, <1>8, <1>10, <2>2, <2>3, <2>4 DEF Turn
<1>11. mgr2.opening \in Nat /\ h2.sid \in Nat
  BY <1>3 DEF Turn, HostOK, Shape
<1>12. CASE \E reason : h2.pending = None /\ h2.timer = FALSE /\ h2.settled = Rejected(reason)
  <2>1. PICK reason : h2.pending = None /\ h2.timer = FALSE /\ h2.settled = Rejected(reason)
    BY <1>12
  <2>2. ~IsTransfer(h2.pending) /\ ~Awaits(h2.pending) /\ PendingOK(h2.pending)
    BY <2>1 DEF IsTransfer, Awaits, None, PendingOK
  <2>3. SettledOK(h2.settled) /\ h2.settled # Silence /\ ~h2.settled[1].ok
    BY <2>1, RejectedIs
  <2>4. h2.writing \in BOOLEAN /\ h2.timer \in BOOLEAN
    BY <1>1, <1>3, <2>1, Zenon
  <2>5. Shape(h2, mgr2)
    BY <1>1, <1>3, <1>11, <2>2, <2>3, <2>4 DEF Shape
  <2>6. Talk(h2, mgr2)
    BY <1>1, <1>3, <2>2 DEF Talk
  <2>7. Depth(h2, mgr2) = 0
    BY <2>3 DEF Depth
  <2>8. GotOK(h2, mgr2, nano.files, nano.held, crossed) /\ ReadOK(h2, mgr2, nano.files, nano.held, crossed)
    BY <2>2, <2>3 DEF GotOK, ReadOK
  <2> QED
    BY <1>10, <2>2, <2>5, <2>6, <2>7, <2>8
<1>13. CASE /\ f.outcome = 0 /\ h2.timer = h.timer /\ h2.settled = Silence
            /\ h2.pending = [p EXCEPT !.next = @ + 1, !.got = got]
  <2>1. /\ h2.pending.kind = p.kind /\ h2.pending.path = p.path /\ h2.pending.next = p.next + 1
        /\ h2.pending.got = got /\ DOMAIN h2.pending = {"kind", "path", "next", "got"}
    BY <1>1, <1>13
  <2>2. IsTransfer(h2.pending) /\ ~Awaits(h2.pending) /\ PendingOK(h2.pending)
    BY <1>1, <1>2, <1>13, <2>1 DEF IsTransfer, Awaits, PendingOK
  <2>4. h2.writing \in BOOLEAN /\ h2.timer \in BOOLEAN
    BY <1>1, <1>3, <1>13, Zenon
  <2>5. Shape(h2, mgr2)
    BY <1>1, <1>3, <1>11, <1>13, <2>2, <2>4 DEF Shape, SettledOK
  <2>6. Talk(h2, mgr2)
    BY <1>1, <1>3, <1>13, <2>1 DEF Talk
  <2>7. Depth(h2, mgr2) <= (IF ~Awaits(p) \/ p.kind = "file" THEN Depth(h, mgr) ELSE Depth(h, mgr) + 1)
    BY <1>1, <1>3, <1>13, <2>2 DEF Depth, IsTransfer
  <2>8. GotOK(h2, mgr2, nano.files, nano.held, crossed)
    BY <1>1, <1>2, <1>13, <2>1 DEF GotOK
  <2>9. ReadOK(h2, mgr2, nano.files, nano.held, crossed)
    BY <1>13 DEF ReadOK
  <2> QED
    BY <1>10, <2>2, <2>5, <2>6, <2>7, <2>8, <2>9
<1>14. CASE /\ f.outcome = 0 /\ h2.pending = None /\ h2.timer = FALSE
            /\ h2.settled = Resolved([path |-> p.path, data |-> got])
  <2>2. ~IsTransfer(h2.pending) /\ ~Awaits(h2.pending) /\ PendingOK(h2.pending)
    BY <1>14 DEF IsTransfer, Awaits, None, PendingOK
  <2>3. /\ SettledOK(h2.settled) /\ h2.settled # Silence /\ h2.settled[1].ok
        /\ h2.settled[1].value.path = p.path /\ h2.settled[1].value.data = got
    BY <1>14, ResolvedIs
  <2>4. h2.writing \in BOOLEAN /\ h2.timer \in BOOLEAN
    BY <1>1, <1>3, <1>14, Zenon
  <2>5. Shape(h2, mgr2)
    BY <1>1, <1>3, <1>11, <2>2, <2>3, <2>4 DEF Shape
  <2>6. Talk(h2, mgr2)
    BY <1>1, <1>3, <2>2 DEF Talk
  <2>7. Depth(h2, mgr2) <= (IF ~Awaits(p) \/ p.kind = "file" THEN Depth(h, mgr) ELSE Depth(h, mgr) + 1)
    BY <1>1, <1>3, <2>2, <2>3 DEF Depth, IsTransfer
  <2>8. GotOK(h2, mgr2, nano.files, nano.held, crossed)
    BY <2>2 DEF GotOK
  <2>9. ReadOK(h2, mgr2, nano.files, nano.held, crossed)
    BY <1>1, <1>2, <1>3, <1>14, <2>3 DEF ReadOK
  <2> QED
    BY <1>10, <2>2, <2>5, <2>6, <2>7, <2>8, <2>9
<1> QED
  BY <1>4, <1>12, <1>13, <1>14

\* A session that fails at once, whatever it has just done with its transfer.
LEMMA FailsFrom ==
  ASSUME NEW h, NEW x, DOMAIN x = SessionFields, SettledOK(x.settled),
         x.sid = h.sid, x.writing = h.writing, x.out = h.out,
         x.settled = h.settled \/ (x.settled # Silence /\ ~x.settled[1].ok)
  PROVE  Over(h, Fail(x))
<1> DEFINE h2 == Fail(x)
<1>1. Over(x, h2)
  BY Fails
<1> HIDE DEF h2
<1>2. /\ DOMAIN h2 = SessionFields /\ h2.sid = 0 /\ h2.pending = None /\ h2.timer = FALSE
      /\ h2.writing = h.writing /\ SettledOK(h2.settled)
      /\ h2.out = h.out \/ h2.out = Append(h.out, Command("close", h.sid, "nothing", None))
  BY <1>1 DEF Over
<1>3. h2.settled = h.settled \/ (h2.settled # Silence /\ ~h2.settled[1].ok)
  BY <1>1 DEF Over
<1> QED
  BY <1>2, <1>3 DEF Over, h2

\* The session takes a chunk, or refuses it.
LEMMA MidChunk ==
  ASSUME World, NEW h, NEW mgr, NEW c, NEW ls, Turn(h, mgr, c, ls), ~h.told, h.out = << >>,
         ls # << >>, ls[1].type = "data", ls[1].sid = h.sid, IsChunk(ls[1].frame)
  PROVE  Mid(Chunk(h, ls[1].frame), mgr, c, Tail(ls))
<1> DEFINE p    == h.pending
           f    == ls[1].frame
           idle == [h EXCEPT !.pending = None, !.timer = FALSE]
           got  == Append(p.got, f.data)
<1>1. Turn(h, mgr, c, Tail(ls))
  BY Reads
<1>2. Mid(h, mgr, c, Tail(ls)) /\ c \o h.out = c /\ IsSeq(c) /\ IsSeq(h.out) /\ DOMAIN mgr = ManagerFields
  BY <1>1, Starts DEF Mid
<1>3. DOMAIN h = SessionFields /\ SettledOK(h.settled)
  BY DEF Turn, HostOK, Shape
<1>4. f.kind \in {"directory", "file"}
  BY RestOfHead DEF Turn, QueuesOK, LineOK
<1>5. p.kind = f.kind => mgr.scan # "opening" /\ h.sid # 0 /\ IsTransfer(p)
  BY <1>4 DEF IsTransfer, Turn, HostOK, Talk, Link
<1>6. ASSUME NEW h2, p.kind = f.kind, f.outcome # 0 \/ f.seq = p.next,
             Takes(h, mgr, h2, Known(h2, mgr), f), h2.out = h.out
      PROVE  Mid(h2, mgr, c, Tail(ls)) /\ ~Awaits(h2.pending) /\ h2.sid # 0
  <2> DEFINE k == Known(h2, mgr)
  <2>1. Taken(h, ls)
    BY <1>5, <1>6 DEF Taken
  <2> HIDE DEF k
  <2>2. Turn(h2, k, c, Tail(ls)) /\ ~Awaits(h2.pending)
    BY <1>6, <2>1, TurnTakes DEF k
  <2>3. h2.sid # 0
    BY <1>5, <1>6 DEF Takes
  <2> QED
    BY <1>2, <1>6, <2>2, <2>3 DEF Mid, k
<1>7. ASSUME NEW h2, DOMAIN h2 = SessionFields, h2.conn = h.conn
      PROVE  SameWork(mgr, Known(h2, mgr)) /\ Known(h2, mgr).conn \in {mgr.conn, h.conn}
  BY <1>2, <1>7, KnownWork
<1>8. ASSUME NEW x, DOMAIN x = SessionFields, SettledOK(x.settled), p.kind = f.kind,
             x.sid = h.sid, x.writing = h.writing, x.out = h.out,
             x.settled = h.settled \/ (x.settled # Silence /\ ~x.settled[1].ok)
      PROVE  Mid(Fail(x), mgr, c, Tail(ls))
  BY <1>2, <1>5, <1>8, FailsFrom, MidOver
<1>9. CASE p.kind # f.kind
  BY <1>2, <1>9 DEF Chunk
<1>10. CASE p.kind = f.kind /\ f.outcome # 0
  <2> DEFINE reason == IF f.outcome = 103 THEN "sassi_outcome_103" ELSE "sassi_outcome"
             h2 == Chunk(h, f)
  <2>1. h2 = [idle EXCEPT !.settled = Rejected(reason), !.busy = IF f.outcome = 103 THEN "locked" ELSE @,
                          !.told = @ \/ f.outcome = 103]
    BY <1>10 DEF Chunk
  <2>2. /\ DOMAIN h2 = SessionFields /\ h2.sid = h.sid /\ h2.writing = h.writing /\ h2.conn = h.conn
        /\ h2.pending = None /\ h2.timer = FALSE /\ h2.settled = Rejected(reason) /\ h2.out = h.out
    BY <1>3, <2>1 DEF SessionFields
  <2> HIDE DEF h2, reason
  <2>3. Takes(h, mgr, h2, Known(h2, mgr), f)
    BY <1>7, <2>2 DEF Takes
  <2> QED
    BY <1>6, <1>10, <2>2, <2>3 DEF h2
<1>11. CASE p.kind = f.kind /\ f.outcome = 0 /\ f.seq # p.next
  <2> DEFINE x == [idle EXCEPT !.settled = Rejected("sassi_data_sequence_error")]
  <2>1. Chunk(h, f) = Fail(x)
    BY <1>11 DEF Chunk
  <2>2. /\ DOMAIN x = SessionFields /\ x.sid = h.sid /\ x.writing = h.writing /\ x.out = h.out
        /\ x.settled = Rejected("sassi_data_sequence_error")
    BY <1>3 DEF SessionFields
  <2> HIDE DEF x
  <2>3. SettledOK(x.settled) /\ x.settled # Silence /\ ~x.settled[1].ok
    BY <2>2, RejectedIs
  <2> QED
    BY <1>8, <1>11, <2>1, <2>2, <2>3
<1>12. CASE p.kind = f.kind /\ f.outcome = 0 /\ f.seq = p.next /\ ~f.final
  <2> DEFINE x == [h EXCEPT !.pending.next = @ + 1, !.pending.got = got]
  <2>1. Chunk(h, f) = Acknowledge(x, "rearm")
    BY <1>12 DEF Chunk
  <2>2. /\ DOMAIN x = SessionFields /\ x.sid = h.sid /\ x.writing = h.writing /\ x.out = h.out
        /\ x.settled = h.settled /\ x.conn = h.conn /\ x.timer = h.timer
        /\ x.pending = [p EXCEPT !.next = @ + 1, !.got = got]
    BY <1>3 DEF SessionFields
  <2> HIDE DEF x
  <2>3. Takes(h, mgr, x, Known(x, mgr), f)
    BY <1>7, <1>12, <2>2 DEF Takes
  <2>4. Mid(x, mgr, c, Tail(ls)) /\ ~Awaits(x.pending) /\ x.sid # 0
    BY <1>6, <1>12, <2>2, <2>3
  <2> QED
    BY <2>1, <2>4, MidAcknowledges
<1>13. CASE p.kind = f.kind /\ f.outcome = 0 /\ f.seq = p.next /\ f.final
  <2>1. CASE f.kind = "directory" /\ f.malformed
    <3>1. Chunk(h, f) = Fail(idle)
      BY <1>13, <2>1 DEF Chunk
    <3>2. /\ DOMAIN idle = SessionFields /\ idle.sid = h.sid /\ idle.writing = h.writing
          /\ idle.out = h.out /\ idle.settled = h.settled
      BY <1>3 DEF SessionFields
    <3> HIDE DEF idle
    <3> QED
      BY <1>3, <1>8, <1>13, <3>1, <3>2
  <2>2. CASE ~(f.kind = "directory" /\ f.malformed)
    <3> DEFINE h2 == Chunk(h, f)
    <3>1. h2 = [idle EXCEPT !.settled = Resolved([path |-> p.path, data |-> got])]
      BY <1>13, <2>2 DEF Chunk
    <3>2. /\ DOMAIN h2 = SessionFields /\ h2.sid = h.sid /\ h2.writing = h.writing /\ h2.conn = h.conn
          /\ h2.pending = None /\ h2.timer = FALSE /\ h2.out = h.out
          /\ h2.settled = Resolved([path |-> p.path, data |-> got])
      BY <1>3, <3>1 DEF SessionFields
    <3> HIDE DEF h2
    <3>3. Takes(h, mgr, h2, Known(h2, mgr), f)
      BY <1>7, <1>13, <3>2 DEF Takes
    <3> QED
      BY <1>6, <1>13, <3>2, <3>3 DEF h2
  <2> QED
    BY <2>1, <2>2
<1> QED
  BY <1>9, <1>10, <1>11, <1>12, <1>13

-----------------------------------------------------------------------------
(* The host reads a line.                                                  *)

\* A line is at the head of those the companion has not read, between two steps.
AtLine(line) ==
  /\ Landed /\ lines # << >> /\ line = lines[1]
  /\ lines' = Tail(lines) /\ UNCHANGED <<asks, nano, crossed>>

\* A line is read, and nothing is done about it yet.
LEMMA LineRead ==
  ASSUME NEW line, AtLine(line)
  PROVE  /\ World /\ Turn(s, m, bridge.cmds, lines) /\ ~s.told /\ s.out = << >>
         /\ Turn(s, m, bridge.cmds, Tail(lines)) /\ Mid(s, m, bridge.cmds, Tail(lines))
         /\ Follows(s, m, bridge.cmds, lines, bridge.cmds, Tail(lines))
         /\ IsSeq(lines) /\ IsSeq(bridge.cmds) /\ 1 \in DOMAIN lines /\ line = Head(lines)
         /\ LineOK(line, nano.files, nano.held, bridge.last)
<1>1. World /\ Turn(s, m, bridge.cmds, lines) /\ ~s.told /\ s.out = << >> /\ lines # << >>
  BY DEF AtLine, Landed
<1>2. Follows(s, m, bridge.cmds, lines, bridge.cmds, Tail(lines)) /\ Turn(s, m, bridge.cmds, Tail(lines))
  BY <1>1, Reads
<1>3. IsSeq(lines) /\ IsSeq(bridge.cmds)
  BY <1>1 DEF Turn, QueuesOK
<1>4. 1 \in DOMAIN lines /\ line = Head(lines)
  BY <1>1, <1>3, RestOfHead DEF AtLine
<1>5. LineOK(line, nano.files, nano.held, bridge.last)
  BY <1>1, <1>4 DEF Turn, QueuesOK, AtLine
<1>6. Mid(s, m, bridge.cmds, Tail(lines))
  BY <1>1, <1>2, Starts
<1> QED
  BY <1>1, <1>2, <1>3, <1>4, <1>5, <1>6

\* The end of such a step.
LEMMA LineLands ==
  ASSUME NEW line, AtLine(line), NEW h, NEW mgr, Mid(h, mgr, bridge.cmds, Tail(lines)), Leaves(h, mgr)
  PROVE  Landed'
<1> QED
  BY LineRead, LeavesWell DEF AtLine

\* A frame of the Nano.
LEMMA MidMessage ==
  ASSUME NEW line, AtLine(line), line.type = "data", line.frame # None
  PROVE  Mid(Received(s, line.sid, line.frame), m, bridge.cmds, Tail(lines))
<1> DEFINE f == line.frame
<1>1. /\ World /\ Turn(s, m, bridge.cmds, lines) /\ Mid(s, m, bridge.cmds, Tail(lines))
      /\ LineOK(line, nano.files, nano.held, bridge.last) /\ ~s.told /\ s.out = << >> /\ lines # << >>
      /\ line = lines[1]
  BY LineRead DEF AtLine
<1>2. line.sid # 0 /\ f.type \in {"damaged", "request", "time", "info", "chunk", "notice"}
  BY <1>1 DEF LineOK, World
<1>3. s.sid # 0 => m.scan # "opening"
  BY <1>1 DEF Turn, HostOK, Link
<1>4. CASE line.sid # s.sid
  BY <1>1, <1>4 DEF Received
<1>5. CASE line.sid = s.sid /\ (f.type = "damaged" \/ (f.type # "request" /\ f.seed # s.seed))
  BY <1>1, <1>2, <1>3, <1>5, MidFails DEF Received
<1>6. CASE line.sid = s.sid /\ ~(f.type = "damaged" \/ (f.type # "request" /\ f.seed # s.seed))
  <2>1. Received(s, line.sid, f) = HandleMessage(s, f) /\ s.sid # 0
    BY <1>2, <1>6 DEF Received
  <2>2. CASE f.type = "request"
    <3>1. HandleMessage(s, f) = ConnectionRequest(s, f)
      BY <2>2 DEF HandleMessage
    <3> QED
      BY <1>1, <2>1, <3>1, MidConnection
  <2>3. CASE f.type = "time"
    <3>1. HandleMessage(s, f) = TimeSyncAck(s, f)
      BY <2>3 DEF HandleMessage
    <3> QED
      BY <1>1, <2>1, <3>1, MidTime
  <2>4. CASE f.type = "info"
    <3>1. HandleMessage(s, f) = InfoResponse(s, f)
      BY <2>4 DEF HandleMessage
    <3> QED
      BY <1>1, <2>1, <3>1, MidInformed
  <2>5. CASE f.type = "notice"
    <3>1. HandleMessage(s, f) = Notification(s, f)
      BY <2>5 DEF HandleMessage
    <3> QED
      BY <1>1, <2>1, <3>1, MidNotified
  <2>6. CASE f.type = "chunk"
    <3>1. HandleMessage(s, f) = Chunk(s, f)
      BY <2>6 DEF HandleMessage
    <3>2. IsChunk(f)
      BY <2>6 DEF IsChunk
    <3> QED
      BY <1>1, <1>6, <2>1, <3>1, <3>2, MidChunk
  <2> QED
    BY <1>2, <1>6, <2>2, <2>3, <2>4, <2>5, <2>6
<1> QED
  BY <1>4, <1>5, <1>6

\* A data line.
LEMMA DataLands ==
  ASSUME NEW line, AtLine(line), line.type = "data", Data(line)
  PROVE  Landed'
<1>1. /\ World /\ Turn(s, m, bridge.cmds, Tail(lines)) /\ Mid(s, m, bridge.cmds, Tail(lines))
      /\ LineOK(line, nano.files, nano.held, bridge.last) /\ ~s.told /\ s.out = << >>
  BY LineRead
<1>2. Mid(Disconnected(s, line.sid), m, bridge.cmds, Tail(lines))
  <2>1. line.sid # 0
    BY <1>1 DEF LineOK, World
  <2>2. s.sid # 0 => m.scan # "opening"
    BY <1>1 DEF Turn, HostOK, Link
  <2> QED
    BY <1>1, <2>1, <2>2, MidFails DEF Disconnected
<1>3. CASE line.sid = m.opening
  <2> DEFINE m2 == [m EXCEPT !.behind = TRUE]
  <2>1. SameWork(m, m2) /\ m2.conn = m.conn /\ DOMAIN s = SessionFields
    BY <1>1 DEF Turn, HostOK, Shape, SameWork, ManagerFields
  <2>2. Leaves(s, m2)
    BY <1>3 DEF Data
  <2> HIDE DEF m2
  <2>3. Turn(s, m2, bridge.cmds, Tail(lines))
    BY <1>1, <2>1, TurnSilent
  <2>4. Mid(s, m2, bridge.cmds, Tail(lines))
    BY <1>1, <2>3, Starts
  <2> QED
    BY <2>2, <2>4, LineLands
<1>4. CASE line.sid # m.opening /\ (m.behind \/ line.frame = None)
  BY <1>2, <1>4, LineLands DEF Data
<1>5. CASE line.sid # m.opening /\ ~m.behind /\ line.frame # None
  <2>1. Leaves(Received(s, line.sid, line.frame), m)
    BY <1>5 DEF Data
  <2>2. Mid(Received(s, line.sid, line.frame), m, bridge.cmds, Tail(lines))
    BY <1>5, MidMessage
  <2> QED
    BY <2>1, <2>2, LineLands
<1> QED
  BY <1>3, <1>4, <1>5

-----------------------------------------------------------------------------
(* The manager looks for a port.                                           *)

\* It goes on to another part of its scan.
Scans(h, mgr, mgr2, c, ls) ==
  /\ DOMAIN mgr2 = ManagerFields
  /\ mgr2.stage = mgr.stage /\ mgr2.logs = mgr.logs /\ mgr2.of = mgr.of
  /\ mgr2.opening \in 0 .. bridge.last /\ Link(h, mgr2)
  /\ Outstanding("listed", c, ls) => mgr2.scan = "listing"
  /\ Outstanding("opened", c, ls) => mgr2.scan = "opening" /\ mgr2.opening = 0
  /\ mgr2.scan = "opening" => \A then \in Writes : ~Outstanding(then, c, ls)
  /\ mgr2.opening # 0 => Fresh(mgr2.opening, c, ls, asks, bridge.sid)

\* The scan of the manager goes on.
LEMMA TurnScans ==
  ASSUME World, NEW h, NEW mgr, NEW c, NEW ls, Turn(h, mgr, c, ls),
         NEW mgr2, Scans(h, mgr, mgr2, c, ls)
  PROVE  Turn(h, mgr2, c, ls)
<1>1. mgr2.opening \in Nat /\ mgr2.opening <= bridge.last
  BY DEF Scans, World
<1>2. HostOK(h, mgr2)
  BY <1>1 DEF Turn, HostOK, Shape, Talk, Scans
<1>3. QueuesOK(h, mgr2, c, ls, asks, bridge.sid, nano.files, nano.held, bridge.last)
  <2>1. QueuesOK(h, mgr, c, ls, asks, bridge.sid, nano.files, nano.held, bridge.last)
    BY DEF Turn
  <2>2. Tickets(h, mgr2, c, ls)
    BY <2>1 DEF QueuesOK, Tickets, Scans
  <2>3. Ordered(mgr2, c, ls)
    BY <2>1 DEF QueuesOK, Ordered, Scans
  <2>4. NewSession(mgr2, c, ls, asks, bridge.sid)
    BY <2>1 DEF QueuesOK, NewSession, Scans
  <2> QED
    BY <2>1, <2>2, <2>3, <2>4 DEF QueuesOK
<1>4. Depth(h, mgr2) = Depth(h, mgr)
  BY DEF Depth, Scans
<1>5. PlacesOK(h, mgr2, c, ls, asks, bridge.sid, bridge.done, crossed)
  BY <1>4 DEF Turn, PlacesOK
<1>6. GotOK(h, mgr2, nano.files, nano.held, crossed) /\ ReadOK(h, mgr2, nano.files, nano.held, crossed)
  BY DEF Turn, GotOK, ReadOK, Scans
<1> QED
  BY <1>1, <1>2, <1>3, <1>5, <1>6 DEF Turn, Scans

\* What is outstanding once a line is read was so before; what it answers is not.
LEMMA LessOutstanding ==
  ASSUME NEW c, NEW ls, IsSeq(ls), ls # << >>
  PROVE  /\ \A then : Outstanding(then, c, Tail(ls)) => Outstanding(then, c, ls)
         /\ \A then : Told(ls, 1, then) => Outstanding(then, c, ls)
         /\ \A then : Told(ls, 1, then) /\ Single(then, c, ls) => ~Outstanding(then, c, Tail(ls))
<1>1. 1 \in DOMAIN ls /\ \A i \in DOMAIN Tail(ls) : i + 1 \in DOMAIN ls /\ i + 1 # 1 /\ Tail(ls)[i] = ls[i + 1]
  BY RestOfHead, SeqFacts
<1>2. \A then : Outstanding(then, c, Tail(ls)) => Outstanding(then, c, ls)
  BY <1>1 DEF Outstanding, Told
<1>3. ASSUME NEW then, Told(ls, 1, then), Single(then, c, ls) PROVE ~Outstanding(then, c, Tail(ls))
  <2>1. \A i \in DOMAIN c : c[i].then # then
    BY <1>1, <1>3 DEF Single
  <2>2. \A j \in DOMAIN Tail(ls) : ~Told(Tail(ls), j, then)
    BY <1>1, <1>3 DEF Single, Told
  <2> QED
    BY <2>1, <2>2 DEF Outstanding
<1> QED
  BY <1>1, <1>2, <1>3 DEF Outstanding

\* What is known when the answer that a scan waits for is read.
LEMMA ScanAnswered ==
  ASSUME NEW line, AtLine(line), line.type = "response", line.then \in {"listed", "opened"}
  PROVE  /\ s.sid = 0 /\ m.opening = 0 /\ ~IsTransfer(s.pending)
         /\ line.then = "listed" => m.scan = "listing"
         /\ line.then = "opened" => m.scan = "opening"
         /\ ~Outstanding("listed", bridge.cmds, Tail(lines))
         /\ ~Outstanding("opened", bridge.cmds, Tail(lines))
         /\ \A then \in Writes : ~Outstanding(then, bridge.cmds, Tail(lines))
         /\ DOMAIN m = ManagerFields /\ DOMAIN s = SessionFields
<1> DEFINE c == bridge.cmds
<1>1. /\ IsSeq(lines) /\ lines # << >> /\ line = lines[1] /\ 1 \in DOMAIN lines
      /\ Turn(s, m, c, lines)
  BY LineRead DEF AtLine
<1>2. Tickets(s, m, c, lines) /\ Ordered(m, c, lines) /\ Link(s, m) /\ Talk(s, m) /\ Shape(s, m)
  BY <1>1 DEF Turn, QueuesOK, HostOK
<1>3. Told(lines, 1, line.then)
  BY <1>1 DEF Told
<1>4. Outstanding(line.then, c, lines)
  BY <1>1, <1>3, LessOutstanding
<1>5. /\ line.then = "listed" => m.scan = "listing"
      /\ line.then = "opened" => m.scan = "opening" /\ m.opening = 0
  BY <1>2, <1>4 DEF Tickets
<1>6. s.sid = 0 /\ m.opening = 0 /\ ~IsTransfer(s.pending)
  BY <1>2, <1>5 DEF Link, Talk
<1>7. ~Outstanding(line.then, c, Tail(lines))
  BY <1>1, <1>2, <1>3, LessOutstanding DEF Tickets
<1>8. ~Outstanding("listed", c, Tail(lines)) /\ ~Outstanding("opened", c, Tail(lines))
  BY <1>1, <1>2, <1>5, <1>7, LessOutstanding DEF Tickets
<1>9. ASSUME NEW then \in Writes PROVE ~Outstanding(then, c, Tail(lines))
  <2>1. CASE line.then = "opened"
    BY <1>1, <1>2, <1>5, <2>1, LessOutstanding DEF Ordered
  <2>2. CASE line.then = "listed"
    <3>1. \A j \in DOMAIN c : c[j].then # then
      BY <1>1, <1>2, <1>3, <2>2 DEF Ordered
    <3>2. \A j \in DOMAIN lines : Told(lines, j, then) => j < 1
      BY <1>1, <1>2, <1>3, <2>2 DEF Ordered
    <3>3. DOMAIN lines = 1 .. Len(lines)
      BY <1>1, SeqFacts
    <3>4. ~Outstanding(then, c, lines)
      BY <3>1, <3>2, <3>3 DEF Outstanding
    <3> QED
      BY <1>1, <3>4, LessOutstanding
  <2> QED
    BY <2>1, <2>2
<1> QED
  BY <1>2, <1>5, <1>6, <1>8, <1>9 DEF Shape

\* The scan is over, without a port.
LEMMA ScanEnds ==
  ASSUME NEW line, AtLine(line), line.type = "response", line.then \in {"listed", "opened"},
         NEW mgr, Leaves(s, mgr), DOMAIN mgr = ManagerFields, mgr.scan = "none", mgr.stage = m.stage,
         mgr.logs = m.logs, mgr.of = m.of, mgr.opening = m.opening
  PROVE  Landed'
<1> DEFINE c == bridge.cmds
<1>1. World /\ Turn(s, m, c, Tail(lines)) /\ ~s.told /\ s.out = << >>
  BY LineRead
<1>2. Scans(s, m, mgr, c, Tail(lines))
  BY <1>1, ScanAnswered DEF Scans, Link, World
<1>3. Mid(s, mgr, c, Tail(lines))
  BY <1>1, <1>2, TurnScans, Starts
<1> QED
  BY <1>3, LineLands

\* A port has been found.
LEMMA ListedLands ==
  ASSUME NEW line, AtLine(line), line.type = "response", line.then = "listed", NEW g,
         Leaves(Connect(s, g), [m EXCEPT !.scan = "opening", !.behind = FALSE])
  PROVE  Landed'
<1> DEFINE c   == bridge.cmds
           ls  == Tail(lines)
           mgr == [m EXCEPT !.scan = "opening", !.behind = FALSE]
           e   == Command("open", 0, "opened", Candidate(g))
           h1  == Close(s)
           h2  == [h1 EXCEPT !.conn = "reconnecting"]
           h3  == Connect(s, g)
           k   == Known(h3, mgr)
           k1  == [m EXCEPT !.conn = "reconnecting"]
<1>1. /\ World /\ Turn(s, m, c, ls) /\ Mid(s, m, c, ls) /\ ~s.told /\ s.out = << >> /\ IsSeq(c)
  BY LineRead
<1>2. /\ s.sid = 0 /\ m.opening = 0 /\ ~IsTransfer(s.pending) /\ m.scan = "listing"
      /\ ~Outstanding("listed", c, ls) /\ ~Outstanding("opened", c, ls)
      /\ \A then \in Writes : ~Outstanding(then, c, ls)
      /\ DOMAIN m = ManagerFields /\ DOMAIN s = SessionFields
  BY ScanAnswered
<1>3. Over(s, h1) /\ h1.told = s.told /\ h1.conn = s.conn /\ h1.out = << >>
  BY <1>1, <1>2, Closes DEF Turn, HostOK, Shape
<1> HIDE DEF h1
<1>4. Turn(h1, m, c, ls)
  <2>1. Mid(h1, m, c, ls)
    BY <1>1, <1>2, <1>3, MidOver
  <2>2. Known(h1, m) = m /\ c \o h1.out = c
    BY <1>1, <1>3, Joined DEF Known
  <2> QED
    BY <2>1, <2>2 DEF Mid
<1>5. /\ DOMAIN h1 = SessionFields /\ h1.sid = 0 /\ h1.pending = None /\ h1.timer = FALSE
  BY <1>3 DEF Over
<1>6. /\ DOMAIN h2 = SessionFields /\ h2.sid = 0 /\ h2.pending = None /\ h2.timer = FALSE
      /\ h2.writing = h1.writing /\ h2.settled = h1.settled /\ h2.conn = "reconnecting"
  BY <1>5 DEF SessionFields
<1>7. /\ DOMAIN h3 = SessionFields /\ h3.sid = 0 /\ h3.pending = None /\ h3.timer = FALSE
      /\ h3.writing = h1.writing /\ h3.settled = h1.settled /\ h3.conn = "reconnecting" /\ h3.told = TRUE
      /\ h3.out = Append(<< >>, e)
  <2>1. h3 = [Sends([h1 EXCEPT !.seed = 0], "open", "opened", Candidate(g)) EXCEPT
                !.conn = "reconnecting", !.status = FALSE, !.firmware = FALSE,
                !.busy = "unknown", !.told = TRUE]
    BY DEF Connect, h1
  <2> HIDE DEF h3
  <2> QED
    BY <1>3, <1>5, <2>1 DEF SessionFields, Sends
<1>8. e.op = "open" /\ e.then = "opened" /\ e.sid = 0 /\ DOMAIN e = {"op", "sid", "then", "frame"}
  BY DEF Command
<1>9. /\ DOMAIN k1 = ManagerFields /\ k1.conn = "reconnecting" /\ k1.stage = m.stage /\ k1.logs = m.logs
      /\ k1.of = m.of /\ k1.scan = m.scan /\ k1.opening = m.opening
  BY <1>2 DEF ManagerFields
<1>10. /\ DOMAIN k = ManagerFields /\ k.conn = "reconnecting" /\ k.stage = m.stage /\ k.logs = m.logs
       /\ k.of = m.of /\ k.scan = "opening" /\ k.opening = 0 /\ DOMAIN mgr = ManagerFields
  BY <1>2, <1>7 DEF ManagerFields, Known
<1> HIDE DEF h2, h3, k, k1, e, mgr
<1>11. Turn(h2, k1, c, ls)
  <2>1. SameWork(m, k1)
    BY <1>9 DEF SameWork
  <2>2. h2.timer \in BOOLEAN
    BY <1>6, Zenon
  <2> QED
    BY <1>1, <1>2, <1>4, <1>5, <1>6, <1>9, <2>1, <2>2, TurnKeeps
<1>12. Turn(h2, k, c, ls)
  <2>1. Scans(h2, k1, k, c, ls)
    BY <1>1, <1>2, <1>6, <1>9, <1>10 DEF Scans, Link, World
  <2> QED
    BY <1>1, <1>11, <2>1, TurnScans
<1>13. Turn(h2, k, Append(c, e), ls)
  <2>1. CommandOK(e, nano.files, bridge.last)
    BY <1>1, <1>8 DEF CommandOK, World
  <2>2. Askable(e, h2, k, c, ls)
    BY <1>2, <1>6, <1>8, <1>10 DEF Askable, Awaits, IsTransfer, None
  <2> QED
    BY <1>1, <1>8, <1>12, <2>1, <2>2, TurnSends
<1>14. Turn(h3, k, Append(c, e), ls)
  <2>1. SameWork(k, k)
    BY <1>10 DEF SameWork
  <2> QED
    BY <1>1, <1>6, <1>7, <1>13, <2>1, TurnSilent
<1>15. c \o h3.out = Append(c, e) /\ IsSeq(h3.out)
  <2> DEFINE o == << >>
  <2>1. IsSeq(c) /\ IsSeq(o) /\ c \o o = c /\ h3.out = Append(o, e)
    BY <1>1, <1>7, NoneLeft, Joined
  <2> HIDE DEF o, c
  <2>2. IsSeq(Append(o, e)) /\ c \o Append(o, e) = Append(c \o o, e)
    BY <2>1, Sent
  <2> QED
    BY <2>1, <2>2
<1>16. Mid(h3, mgr, c, ls)
  BY <1>1, <1>10, <1>14, <1>15 DEF Mid, k
<1> QED
  BY <1>16, LineLands DEF h3, mgr

\* The port is open.
LEMMA OpenedLands ==
  ASSUME NEW line, AtLine(line), line.type = "response", line.then = "opened", line.ok,
         Leaves(s, [m EXCEPT !.opening = line.sid])
  PROVE  Landed'
<1> DEFINE c   == bridge.cmds
           ls  == Tail(lines)
           mgr == [m EXCEPT !.opening = line.sid]
<1>1. /\ World /\ Turn(s, m, c, ls) /\ Turn(s, m, c, lines) /\ ~s.told /\ s.out = << >>
      /\ IsSeq(lines) /\ 1 \in DOMAIN lines /\ line = lines[1] /\ lines # << >>
      /\ LineOK(line, nano.files, nano.held, bridge.last)
  BY LineRead DEF AtLine
<1>2. /\ m.scan = "opening" /\ ~Outstanding("listed", c, ls) /\ ~Outstanding("opened", c, ls)
      /\ \A then \in Writes : ~Outstanding(then, c, ls)
      /\ DOMAIN m = ManagerFields /\ s.sid = 0
  BY ScanAnswered
<1>3. Fresh(line.sid, c, ls, asks, bridge.sid)
  <2>1. Fresh(line.sid, c, lines, asks, bridge.sid)
    BY <1>1 DEF Turn, QueuesOK, NewSession, Told
  <2>2. \A i \in DOMAIN ls : i + 1 \in DOMAIN lines /\ ls[i] = lines[i + 1]
    BY <1>1, RestOfHead, SeqFacts
  <2> QED
    BY <2>1, <2>2 DEF Fresh
<1>4. /\ DOMAIN mgr = ManagerFields /\ mgr.conn = m.conn /\ mgr.stage = m.stage /\ mgr.logs = m.logs
      /\ mgr.of = m.of /\ mgr.scan = m.scan /\ mgr.opening = line.sid
  BY <1>2 DEF ManagerFields
<1>5. line.sid \in 0 .. bridge.last
  BY <1>1 DEF LineOK, World
<1>6. Link(s, m)
  BY <1>1 DEF Turn, HostOK
<1> HIDE DEF mgr, ls, c
<1>7. Scans(s, m, mgr, c, ls)
  BY <1>2, <1>3, <1>4, <1>5, <1>6 DEF Scans, Link
<1>8. Mid(s, mgr, c, ls)
  BY <1>1, <1>7, TurnScans, Starts
<1> QED
  BY <1>8, LineLands DEF mgr, ls, c

\* The code after the await of a write.
LEMMA AnsweredLands ==
  ASSUME NEW line, AtLine(line), line.type = "response", Leaves(Answered(s, line.then, line.ok), m)
  PROVE  Landed'
<1> DEFINE c  == bridge.cmds
           ls == Tail(lines)
           h2 == Answered(s, line.then, line.ok)
<1>1. /\ World /\ Turn(s, m, c, lines) /\ Mid(s, m, c, ls) /\ ~s.told /\ s.out = << >>
      /\ IsSeq(lines) /\ lines # << >> /\ line = lines[1] /\ Follows(s, m, c, lines, c, ls)
      /\ 1 \in DOMAIN lines /\ LineOK(line, nano.files, nano.held, bridge.last)
  BY LineRead DEF AtLine
<1>2. Tickets(s, m, c, lines) /\ Ordered(m, c, lines) /\ DOMAIN s = SessionFields
  BY <1>1 DEF Turn, QueuesOK, HostOK, Shape
<1>3. Told(lines, 1, line.then) /\ Outstanding(line.then, c, lines)
  BY <1>1, LessOutstanding DEF Told
<1>4. line.then \in Writes => m.scan # "opening"
  BY <1>2, <1>3 DEF Ordered
<1>5. CASE line.then = "request"
  <2>1. ~Outstanding("request", c, ls)
    BY <1>1, <1>2, <1>3, <1>5, LessOutstanding DEF Tickets
  <2>2. CASE line.ok
    <3> DEFINE h == [s EXCEPT !.writing = FALSE]
    <3>1. h2 = h
      BY <1>5, <2>2 DEF Answered
    <3>2. Turn(h, m, c, ls)
      BY <1>1, <2>1, TurnAnswered
    <3>3. ~h.told /\ h.out = << >>
      BY <1>1, <1>2 DEF SessionFields
    <3> HIDE DEF h
    <3> QED
      BY <3>1, <3>2, <3>3, Starts, LineLands
  <2>3. CASE ~line.ok
    <3> DEFINE h == RequestFailed(s)
    <3>1. h2 = h
      BY <1>5, <2>3 DEF Answered
    <3>2. Failing(c, lines, bridge.done)
      BY <1>1, <1>3, <1>5, <2>3 DEF Failing
    <3>3. Turn(h, m, c, ls)
      BY <1>1, <2>1, <3>2, TurnAnswered
    <3>4. ~h.told /\ h.out = << >>
      BY <1>1, <1>2 DEF SessionFields, RequestFailed
    <3> HIDE DEF h
    <3> QED
      BY <3>1, <3>3, <3>4, Starts, LineLands
  <2> QED
    BY <2>2, <2>3
<1>6. CASE line.then \in {"rearm", "handler"} /\ ~line.ok
  <2>1. h2 = Fail(s)
    BY <1>6 DEF Answered
  <2>2. Mid(Fail(s), m, c, ls)
    BY <1>1, <1>4, <1>6, MidFails DEF Writes
  <2> QED
    BY <2>1, <2>2, LineLands
<1>7. CASE line.then = "rearm" /\ line.ok
  <2> DEFINE h == [s EXCEPT !.timer = TRUE]
  <2>1. h2 = h
    BY <1>7 DEF Answered
  <2>2. /\ DOMAIN h = SessionFields /\ h.sid = s.sid /\ h.writing = s.writing /\ h.settled = s.settled
        /\ h.out = s.out /\ h.conn = s.conn /\ h.told = s.told /\ h.timer = TRUE /\ h.pending = s.pending
    BY <1>2 DEF SessionFields
  <2> HIDE DEF h
  <2>3. h.timer \in BOOLEAN
    BY <2>2, Zenon
  <2>4. Continues(s, m, h)
    BY <1>4, <1>7, <2>2, <2>3 DEF Continues, Writes
  <2>5. Mid(h, m, c, ls)
    BY <1>1, <2>4, MidKeeps
  <2> QED
    BY <2>1, <2>5, LineLands
<1>8. CASE line.then \notin {"request", "rearm", "handler"} \/ (line.then = "handler" /\ line.ok)
  <2>1. h2 = s
    BY <1>8 DEF Answered
  <2> QED
    BY <1>1, <2>1, LineLands
<1> QED
  BY <1>5, <1>6, <1>7, <1>8

\* An answer of the child.
LEMMA ResponseLands ==
  ASSUME NEW line, AtLine(line), line.type = "response", Response(line)
  PROVE  Landed'
<1>1. CASE line.then \in {"listed", "opened"}
  <2> DEFINE sf == ScanFailed(m)
             s2 == [sf EXCEPT !.attempted = FALSE, !.sync = "idle"]
  <2>1. DOMAIN m = ManagerFields
    BY <1>1, ScanAnswered
  <2>2. \A mgr \in {sf, s2} :
          /\ DOMAIN mgr = ManagerFields /\ mgr.scan = "none" /\ mgr.stage = m.stage
          /\ mgr.logs = m.logs /\ mgr.of = m.of /\ mgr.opening = m.opening
    BY <2>1 DEF ScanFailed, ManagerFields
  <2>3. ASSUME NEW mgr \in {sf, s2}, Leaves(s, mgr) PROVE Landed'
    <3>1. /\ DOMAIN mgr = ManagerFields /\ mgr.scan = "none" /\ mgr.stage = m.stage
          /\ mgr.logs = m.logs /\ mgr.of = m.of /\ mgr.opening = m.opening
      BY <2>2
    <3> QED
      BY <1>1, <2>3, <3>1, ScanEnds
  <2>4. CASE ~line.ok
    <3>1. Leaves(s, sf)
      BY <1>1, <2>4 DEF Response, Continue
    <3> HIDE DEF sf, s2
    <3> QED
      BY <2>3, <3>1
  <2>5. CASE line.then = "opened" /\ line.ok
    BY <2>5, OpenedLands DEF Response
  <2>6. CASE line.then = "listed" /\ line.ok
    <3>1. Listed(line.value)
      BY <2>6 DEF Response
    <3>2. CASE line.value.found = "one"
      <4>1. Leaves(Connect(s, line.value.generation), [m EXCEPT !.scan = "opening", !.behind = FALSE])
        BY <3>1, <3>2 DEF Listed
      <4> QED
        BY <2>6, <4>1, ListedLands
    <3>3. CASE line.value.found # "one"
      <4>1. Leaves(s, sf) \/ Leaves(s, s2)
        BY <3>1, <3>3 DEF Listed
      <4> HIDE DEF sf, s2
      <4> QED
        BY <2>3, <4>1
    <3> QED
      BY <3>2, <3>3
  <2> QED
    BY <1>1, <2>4, <2>5, <2>6
<1>2. CASE line.then \notin {"listed", "opened"}
  <2>1. Leaves(Answered(s, line.then, line.ok), m)
    BY <1>2 DEF Response, Continue
  <2> QED
    BY <2>1, AnsweredLands
<1> QED
  BY <1>1, <1>2

\* A line is read.
LEMMA ReadLineLands ==
  ASSUME Landed, ReadLine
  PROVE  Landed'
<1> DEFINE line == lines[1]
<1>1. lines # << >> /\ lines' = Tail(lines) /\ UNCHANGED <<asks, nano, crossed>>
  BY DEF ReadLine
<1>2. AtLine(line)
  BY <1>1 DEF AtLine
<1> HIDE DEF line
<1>3. line = Head(lines) /\ LineOK(line, nano.files, nano.held, bridge.last)
  BY <1>2, LineRead
<1>4. CASE line.type = "response"
  BY <1>2, <1>3, <1>4, ResponseLands DEF ReadLine
<1>5. CASE line.type = "data"
  BY <1>2, <1>3, <1>5, DataLands DEF ReadLine
<1> QED
  BY <1>3, <1>4, <1>5 DEF LineOK

-----------------------------------------------------------------------------
(* The other steps of the host.                                            *)

\* Between two steps nothing has been said.
LEMMA AtRest ==
  ASSUME Landed
  PROVE  /\ World /\ Turn(s, m, bridge.cmds, lines) /\ ~s.told /\ s.out = << >>
         /\ Mid(s, m, bridge.cmds, lines) /\ Known(s, m) = m
         /\ DOMAIN s = SessionFields /\ DOMAIN m = ManagerFields
         /\ IsSeq(bridge.cmds) /\ IsSeq(lines) /\ IsSeq(asks) /\ IsSeq(s.out)
         /\ bridge.cmds \o s.out = bridge.cmds
<1>1. World /\ Turn(s, m, bridge.cmds, lines) /\ ~s.told /\ s.out = << >>
  BY DEF Landed
<1>2. Mid(s, m, bridge.cmds, lines) /\ Known(s, m) = m /\ bridge.cmds \o s.out = bridge.cmds
  BY <1>1, Starts
<1>3. IsSeq(s.out)
  BY <1>2 DEF Mid
<1> QED
  BY <1>1, <1>2, <1>3 DEF Turn, HostOK, Shape, QueuesOK

\* connect returns: nothing of the new session is on its way.
LEMMA OpenReturnsLands ==
  ASSUME Landed, OpenReturns
  PROVE  Landed'
<1> DEFINE c  == bridge.cmds
           o  == m.opening
           m2 == [m EXCEPT !.opening = 0, !.scan = "none"]
           h2 == Opened(s, o)
<1>1. /\ World /\ Turn(s, m, c, lines) /\ ~s.told /\ s.out = << >>
      /\ DOMAIN s = SessionFields /\ DOMAIN m = ManagerFields
  BY AtRest
<1>2. o # 0 /\ Leaves(h2, m2) /\ UNCHANGED <<lines, asks, nano, db, used, crossed>>
  BY DEF OpenReturns
<1>3. /\ m.scan = "opening" /\ s.conn = "reconnecting" /\ m.conn = "reconnecting" /\ s.sid = 0
      /\ ~IsTransfer(s.pending) /\ o \in Nat /\ o <= bridge.last
  BY <1>1, <1>2 DEF Turn, HostOK, Link, Talk, Shape
<1>4. ~Outstanding("listed", c, lines) /\ ~Outstanding("opened", c, lines)
  BY <1>1, <1>2, <1>3 DEF Turn, QueuesOK, Tickets
<1>5. Fresh(o, c, lines, asks, bridge.sid)
  BY <1>1, <1>2 DEF Turn, QueuesOK, NewSession
<1>6. /\ DOMAIN m2 = ManagerFields /\ m2.conn = m.conn /\ m2.stage = m.stage /\ m2.logs = m.logs
      /\ m2.of = m.of /\ m2.scan = "none" /\ m2.opening = 0
  BY <1>1 DEF ManagerFields
<1>7. /\ DOMAIN h2 = SessionFields /\ h2.sid = o /\ h2.writing = s.writing /\ h2.settled = s.settled
      /\ h2.timer = TRUE /\ h2.pending = s.pending /\ h2.conn = s.conn /\ h2.out = s.out /\ h2.told = s.told
  BY <1>1 DEF SessionFields, Opened
<1> HIDE DEF m2, h2, o, c
<1>8. Turn(s, m2, c, lines)
  <2>1. Scans(s, m, m2, c, lines)
    BY <1>1, <1>3, <1>4, <1>6 DEF Scans, Link, World
  <2> QED
    BY <1>1, <2>1, TurnScans
<1>9. HostOK(h2, m2)
  BY <1>1, <1>3, <1>6, <1>7 DEF Turn, HostOK, Shape, Talk, Link
<1>10. QueuesOK(h2, m2, c, lines, asks, bridge.sid, nano.files, nano.held, bridge.last)
  BY <1>3, <1>7, <1>8, QueuesHost DEF Turn, Awaits
<1>11. PlacesOK(h2, m2, c, lines, asks, bridge.sid, bridge.done, crossed)
  <2>1. \A i : ~InLines(i, o, lines) /\ ~InAsks(i, o, asks, bridge.sid) /\ ~InCommands(i, o, c, bridge.done)
    <3>1. \A i : ~InLines(i, o, lines) /\ ~InCommands(i, o, c, bridge.done)
      BY <1>5 DEF Fresh, InLines, InCommands, FirstChunk
    <3>2. \A i : ~InAsks(i, o, asks, bridge.sid)
      BY <1>1, <1>5, NoneLeft, AtRest DEF Fresh, InAsks
    <3> QED
      BY <3>1, <3>2
  <2> QED
    BY <1>7, <2>1, RankedNone DEF PlacesOK
<1>12. /\ GotOK(h2, m2, nano.files, nano.held, crossed)
       /\ ReadOK(h2, m2, nano.files, nano.held, crossed)
  BY <1>3, <1>6, <1>7, <1>8 DEF Turn, GotOK, ReadOK
<1>13. Turn(h2, m2, c, lines)
  BY <1>3, <1>6, <1>7, <1>8, <1>9, <1>10, <1>11, <1>12 DEF Turn
<1>14. Mid(h2, m2, c, lines)
  BY <1>1, <1>7, <1>13, Starts
<1> QED
  BY <1>1, <1>2, <1>14, LeavesWell DEF c, h2, m2, o

\* The manager asks for the ports.
LEMMA ScanLands ==
  ASSUME Landed, Scan
  PROVE  Landed'
<1> DEFINE c  == bridge.cmds
           m2 == [m EXCEPT !.scan = "listing"]
           e  == Command("list", s.sid, "listed", None)
<1>1. /\ World /\ Turn(s, m, c, lines) /\ ~s.told /\ s.out = << >> /\ c \o s.out = c
      /\ DOMAIN s = SessionFields /\ DOMAIN m = ManagerFields
  BY AtRest
<1>2. /\ m.scan = "none" /\ m.conn = "disconnected"
      /\ Leaves(Sends(s, "list", "listed", None), m2) /\ UNCHANGED <<lines, asks, nano, db, used, crossed>>
  BY DEF Scan
<1>3. s.sid = 0 /\ ~IsTransfer(s.pending) /\ m.opening = 0
  BY <1>1, <1>2 DEF Turn, HostOK, Link, Talk, Shape
<1>4. ~Outstanding("listed", c, lines) /\ ~Outstanding("opened", c, lines)
  BY <1>1, <1>2 DEF Turn, QueuesOK, Tickets
<1>5. /\ DOMAIN m2 = ManagerFields /\ m2.conn = m.conn /\ m2.stage = m.stage /\ m2.logs = m.logs
      /\ m2.of = m.of /\ m2.scan = "listing" /\ m2.opening = 0
  BY <1>1, <1>3 DEF ManagerFields
<1>6. e.op = "list" /\ e.then = "listed" /\ e.sid = 0 /\ DOMAIN e = {"op", "sid", "then", "frame"}
  BY <1>3 DEF Command
<1> HIDE DEF m2, c, e
<1>7. Mid(s, m2, c, lines) /\ Known(s, m2) = m2
  <2>1. Scans(s, m, m2, c, lines)
    BY <1>1, <1>3, <1>4, <1>5 DEF Scans, Link, World
  <2> QED
    BY <1>1, <2>1, TurnScans, Starts
<1>8. CommandOK(e, nano.files, bridge.last)
  BY <1>1, <1>6 DEF CommandOK, World
<1>9. Askable(e, s, m2, c, lines)
  BY <1>3, <1>4, <1>5, <1>6 DEF Askable, Awaits
<1>10. Mid(Sends(s, "list", "listed", None), m2, c, lines)
  BY <1>1, <1>7, <1>8, <1>9, MidSends DEF e
<1> QED
  BY <1>1, <1>2, <1>10, LeavesWell DEF c, m2

\* A synchronisation is asked for over HTTP.
LEMMA AskToSyncLands ==
  ASSUME Landed, AskToSync
  PROVE  Landed'
<1> DEFINE c == bridge.cmds
           a == Synchronize(s, m)
<1>1. /\ World /\ Turn(s, m, c, lines) /\ ~s.told /\ c \o s.out = c /\ IsSeq(c) /\ IsSeq(s.out)
      /\ DOMAIN m = ManagerFields
  BY AtRest
<1>2. Leaves(a[1], a[2]) /\ UNCHANGED <<lines, asks, nano, db, crossed>>
  BY DEF AskToSync
<1>3. Turn(a[1], a[2], c \o a[1].out, lines) /\ IsSeq(a[1].out) /\ ~a[1].told
  <2>1. Turn(s, m, c \o s.out, lines)
    BY <1>1
  <2> QED
    BY <1>1, <2>1, Synchronizes
<1> HIDE DEF a, c
<1>4. Mid(a[1], a[2], c, lines)
  <2>1. Known(a[1], a[2]) = a[2] /\ DOMAIN a[2] = ManagerFields
    BY <1>3 DEF Known, Turn, HostOK, Shape
  <2> QED
    BY <1>1, <1>3, <2>1 DEF Mid
<1> QED
  BY <1>1, <1>2, <1>4, LeavesWell DEF c

\* A request is late.
LEMMA RequestTimeoutLands ==
  ASSUME Landed, RequestTimeout
  PROVE  Landed'
<1>1. World /\ Turn(s, m, bridge.cmds, lines) /\ Mid(s, m, bridge.cmds, lines)
  BY AtRest
<1>2. s.timer /\ Leaves(Fail(s), m) /\ UNCHANGED <<lines, asks, nano, db, crossed>>
  BY DEF RequestTimeout
<1>3. m.scan # "opening"
  BY <1>1, <1>2 DEF Turn, HostOK, Link
<1>4. Mid(Fail(s), m, bridge.cmds, lines)
  BY <1>1, <1>3, MidFails
<1> QED
  BY <1>1, <1>2, <1>4, LeavesWell

\* The companion is stopped.
LEMMA StopLands ==
  ASSUME Landed, Stop
  PROVE  Landed'
<1> DEFINE c  == bridge.cmds
           m2 == [m EXCEPT !.stopped = TRUE]
           h1 == Close(s)
           e  == Command("shutdown", h1.sid, "nothing", None)
<1>1. /\ World /\ Turn(s, m, c, lines) /\ ~s.told /\ s.out = << >>
      /\ DOMAIN s = SessionFields /\ DOMAIN m = ManagerFields
  BY AtRest
<1>2. /\ Leaves(Sends(h1, "shutdown", "nothing", None), m2)
      /\ UNCHANGED <<lines, asks, nano, db, crossed>>
  BY DEF Stop
<1>3. SameWork(m, m2) /\ m2.conn = m.conn
  BY <1>1 DEF SameWork, ManagerFields
<1>4. Over(s, h1) /\ h1.told = s.told /\ h1.conn = s.conn
  BY <1>1, Closes DEF Turn, HostOK, Shape
<1> HIDE DEF m2, c, h1
<1>5. Mid(h1, m2, c, lines)
  <2>1. Turn(s, m2, c, lines)
    BY <1>1, <1>3, TurnSilent
  <2>2. Mid(s, m2, c, lines)
    BY <1>1, <2>1, Starts
  <2> QED
    BY <1>1, <1>4, <2>2, MidOver
<1>6. h1.sid = 0 /\ ~Awaits(h1.pending)
  BY <1>4 DEF Over, Awaits, IsTransfer, None
<1>7. e.op = "shutdown" /\ e.then = "nothing" /\ e.sid = 0 /\ DOMAIN e = {"op", "sid", "then", "frame"}
  BY <1>6 DEF Command
<1> HIDE DEF e
<1>8. CommandOK(e, nano.files, bridge.last)
  BY <1>1, <1>7 DEF CommandOK, World
<1>9. Askable(e, h1, Known(h1, m2), c \o h1.out, lines)
  BY <1>6, <1>7 DEF Askable
<1>10. Mid(Sends(h1, "shutdown", "nothing", None), m2, c, lines)
  BY <1>1, <1>5, <1>8, <1>9, MidSends DEF e
<1> QED
  BY <1>1, <1>2, <1>10, LeavesWell DEF c, m2, h1

\* A command is late: its answer is waited for no more.
LEMMA CommandTimeoutLands ==
  ASSUME Landed, CommandTimeout
  PROVE  Landed'
<1> DEFINE c     == bridge.cmds
           c2    == [c EXCEPT ![1].then = "nothing"]
           then  == c[1].then
           both  == IF Head(c).then \in {"listed", "opened"} THEN << s, ScanFailed(m) >>
                    ELSE << Answered(s, Head(c).then, FALSE), m >>
           after == Apply(both[1], both[2])
<1>1. /\ World /\ Turn(s, m, c, lines) /\ ~s.told /\ s.out = << >> /\ IsSeq(c) /\ IsSeq(lines)
      /\ DOMAIN s = SessionFields /\ DOMAIN m = ManagerFields
  BY AtRest
<1>2. /\ c # << >> /\ Head(c).then # "nothing"
      /\ Head(c).op = "write" => ~s.timer \/ Len(c) > 1
      /\ s' = [after[1] EXCEPT !.told = FALSE, !.out = << >>] /\ m' = after[2]
      /\ bridge' = [[bridge EXCEPT !.cmds[1].then = "nothing"] EXCEPT !.cmds = @ \o after[1].out]
      /\ UNCHANGED <<lines, asks, nano, db, crossed>>
  BY DEF CommandTimeout
<1>3. /\ Head(c) = c[1] /\ 1 \in DOMAIN c /\ Len(c) \in Nat /\ DOMAIN c = 1 .. Len(c)
      /\ CommandOK(c[1], nano.files, bridge.last)
  BY <1>1, <1>2, RestOfHead, SeqFacts DEF Turn, QueuesOK
<1>4. /\ bridge'.cmds = c2 \o after[1].out
      /\ DOMAIN bridge' = DOMAIN bridge /\ bridge'.live = bridge.live
      /\ bridge'.sid = bridge.sid /\ bridge'.last = bridge.last /\ bridge'.done = bridge.done
  BY <1>1, <1>2 DEF World
<1>5. /\ QueuesOK(s, m, c2, lines, asks, bridge.sid, nano.files, nano.held, bridge.last)
      /\ IsSeq(c2) /\ Len(c2) = Len(c) /\ DOMAIN c2 = DOMAIN c
      /\ c2[1].then = "nothing" /\ c2[1].op = c[1].op /\ c2[1].sid = c[1].sid
      /\ c2[1].frame = c[1].frame
      /\ \A i \in DOMAIN c : i # 1 => c2[i] = c[i]
      /\ Single(then, c, lines) => ~Outstanding(then, c2, lines)
      /\ \A t : Outstanding(t, c2, lines) /\ t # "nothing" => Outstanding(t, c, lines)
  <2>1. QueuesOK(s, m, c, lines, asks, bridge.sid, nano.files, nano.held, bridge.last) /\ c # << >>
    BY <1>1, <1>2 DEF Turn
  <2>2. then # "nothing"
    BY <1>2, <1>3
  <2> HIDE DEF c, after
  <2>3. /\ QueuesOK(s, m, c2, lines, asks, bridge.sid, nano.files, nano.held, bridge.last)
        /\ IsSeq(c2) /\ Len(c2) = Len(c) /\ DOMAIN c2 = DOMAIN c
        /\ c2[1].then = "nothing" /\ c2[1].op = c[1].op /\ c2[1].sid = c[1].sid
        /\ c2[1].frame = c[1].frame
        /\ \A i \in DOMAIN c : i # 1 => c2[i] = c[i]
        /\ Single(c[1].then, c, lines) => ~Outstanding(c[1].then, c2, lines) \/ c[1].then = "nothing"
        /\ \A t : Outstanding(t, c2, lines) /\ t # "nothing" => Outstanding(t, c, lines)
    BY <2>1, QueuesForget
  <2> QED
    BY <2>2, <2>3
<1> HIDE DEF c2, after, c
<1>6. Follows(s, m, c, lines, c2, lines)
  <2>1. ASSUME NEW p, NEW d, NEW failing,
               Ranked(s.sid, p, d, failing, c, lines, asks, bridge.sid, bridge.done, crossed)
        PROVE  Ranked(s.sid, p, d, failing, c2, lines, asks, bridge.sid, bridge.done, crossed)
    <3>1. \A i : InCommands(i, s.sid, c2, bridge.done)
                   => InCommands(i, s.sid, c, bridge.done) /\ c2[i].frame = c[i].frame
      BY <1>5 DEF InCommands
    <3> QED
      BY <2>1, <3>1, RankedSame
  <2>2. Failing(c2, lines, bridge.done) => Failing(c, lines, bridge.done)
    BY <1>5 DEF Failing
  <2>3. c2 # << >>
    BY <1>1, <1>2, <1>5, SeqFacts
  <2> QED
    BY <1>5, <2>1, <2>2, <2>3 DEF Follows
<1>7. Turn(s, m, c2, lines) /\ Mid(s, m, c2, lines)
  BY <1>1, <1>6, TurnFollows, Starts
<1>8. Tickets(s, m, c, lines) /\ Ordered(m, c, lines) /\ Latest(s, c) /\ Link(s, m) /\ Talk(s, m) /\ Shape(s, m)
  BY <1>1 DEF Turn, QueuesOK, HostOK
<1>9. Outstanding(then, c, lines)
  BY <1>3 DEF Outstanding
<1>10. then \in {"listed", "opened"} \cup Writes
  BY <1>2, <1>3 DEF CommandOK
<1>11. Mid(both[1], both[2], c2, lines)
  <2>1. CASE then \in {"listed", "opened"}
    <3> DEFINE m2 == ScanFailed(m)
    <3>1. both[1] = s /\ both[2] = m2
      BY <1>3, <2>1
    <3>2. /\ DOMAIN m2 = ManagerFields /\ m2.stage = m.stage /\ m2.logs = m.logs
          /\ m2.of = m.of /\ m2.scan = "none" /\ m2.opening = m.opening
      BY <1>1 DEF ManagerFields, ScanFailed
    <3>3. /\ then = "listed" => m.scan = "listing"
          /\ then = "opened" => m.scan = "opening" /\ m.opening = 0
      BY <1>8, <1>9 DEF Tickets
    <3>4. s.sid = 0 /\ m.opening = 0
      BY <1>8, <2>1, <3>3 DEF Link, Shape
    <3>5. ~Outstanding("listed", c2, lines) /\ ~Outstanding("opened", c2, lines)
      <4>1. ~Outstanding(then, c2, lines)
        BY <1>5, <1>8, <2>1 DEF Tickets
      <4>2. then = "listed" => ~Outstanding("opened", c, lines)
        BY <1>8, <3>3 DEF Tickets
      <4>3. then = "opened" => ~Outstanding("listed", c, lines)
        BY <1>8, <3>3 DEF Tickets
      <4> QED
        BY <1>5, <2>1, <4>1, <4>2, <4>3
    <3> HIDE DEF m2
    <3>6. Scans(s, m, m2, c2, lines)
      BY <1>1, <3>2, <3>4, <3>5 DEF Scans, Link, World
    <3>7. Mid(s, m2, c2, lines)
      BY <1>1, <1>7, <3>6, TurnScans, Starts
    <3> QED
      BY <3>1, <3>7
  <2>2. CASE then \in {"rearm", "handler"}
    <3>1. both[1] = Fail(s) /\ both[2] = m
      BY <1>3, <2>2 DEF Answered
    <3>2. m.scan # "opening"
      BY <1>8, <1>9, <2>2 DEF Ordered, Writes
    <3>3. Mid(Fail(s), m, c2, lines)
      BY <1>1, <1>7, <3>2, MidFails
    <3> QED
      BY <3>1, <3>3
  <2>3. CASE then = "request"
    <3> DEFINE h == RequestFailed(s)
    <3>1. both[1] = h /\ both[2] = m
      BY <1>3, <2>3 DEF Answered
    <3>2. ~Awaits(s.pending)
      <4> SUFFICES ASSUME Awaits(s.pending) PROVE FALSE
        OBVIOUS
      <4>1. s.timer
        BY <1>8 DEF Talk, Awaits
      <4>2. 1 = Len(c)
        BY <1>3, <1>8, <2>3 DEF Latest
      <4>3. Head(c).op = "write"
        BY <1>3, <2>3 DEF CommandOK
      <4>4. Len(c) > 1
        BY <1>2, <4>1, <4>3, Zenon
      <4>5. 1 > 1
        BY <4>2, <4>4, Zenon
      <4> QED
        BY <4>5
    <3>3. ~Outstanding("request", c2, lines)
      BY <1>5, <1>8, <2>3 DEF Tickets
    <3>4. Turn(h, m, c2, lines)
      BY <1>1, <1>6, <3>2, <3>3, TurnAnswered
    <3>5. ~h.told /\ h.out = << >>
      BY <1>1 DEF SessionFields, RequestFailed
    <3> HIDE DEF h
    <3>6. Mid(h, m, c2, lines)
      BY <3>4, <3>5, Starts
    <3> QED
      BY <3>1, <3>6
  <2> QED
    BY <1>10, <2>1, <2>2, <2>3 DEF Writes
<1> HIDE DEF both
<1>12. /\ Turn(after[1], after[2], c2 \o after[1].out, lines) /\ IsSeq(after[1].out)
  BY <1>1, <1>11, Applies DEF after
<1>13. bridge.live /\ DOMAIN after[2] = ManagerFields
  BY <1>1, <1>2, <1>12 DEF World, Turn, HostOK, Shape, c
<1>14. bridge.done # "no" => c2 \o after[1].out # << >> /\ (c2 \o after[1].out)[1].op = "write"
  <2> SUFFICES ASSUME bridge.done # "no"
               PROVE  c2 \o after[1].out # << >> /\ (c2 \o after[1].out)[1].op = "write"
    OBVIOUS
  <2>1. c[1].op = "write" /\ c2 # << >>
    BY <1>1, <1>2, <1>5, SeqFacts DEF World, c
  <2> QED
    BY <1>5, <1>12, <2>1, SentBehind
<1> QED
  BY <1>1, <1>2, <1>4, <1>12, <1>13, <1>14, Lands

\* With nothing on its way the queues are in order.
LEMMA QueuesEmpty ==
  ASSUME NEW h, NEW mgr, mgr.opening = 0, NEW bs, NEW f, NEW held, NEW last
  PROVE  QueuesOK(h, mgr, << >>, << >>, << >>, bs, f, held, last)
<1> DEFINE e == << >>
<1>1. e \in Seq({})
  OBVIOUS
<1>2. IsSeq(e) /\ DOMAIN e = {}
  BY <1>1, SeqFacts, NoneLeft DEF IsSeq
<1> HIDE DEF e
<1>3. Tickets(h, mgr, e, e)
  BY <1>2 DEF Tickets, Single, Outstanding
<1>4. Ordered(mgr, e, e)
  BY <1>2 DEF Ordered, Outstanding
<1>5. Latest(h, e) /\ NewSession(mgr, e, e, e, bs)
  BY <1>2 DEF Latest, NewSession
<1>6. QueuesOK(h, mgr, e, e, e, bs, f, held, last)
  BY <1>2, <1>3, <1>4, <1>5 DEF QueuesOK
<1> QED
  BY <1>6 DEF e

\* The child exits: the session ends, and nothing is left of what was asked.
LEMMA BridgeExitsLands ==
  ASSUME Landed, BridgeExits
  PROVE  Landed'
<1> DEFINE over   == IF s.sid # 0 \/ Writing THEN Fail(s) ELSE s
           failed == IF s.writing THEN RequestFailed(over) ELSE over
           known  == Known(failed, m)
           m2     == IF m.scan = "none" THEN known ELSE ScanFailed(known)
           h2     == [failed EXCEPT !.told = FALSE, !.out = << >>]
<1>1. /\ World /\ Turn(s, m, bridge.cmds, lines) /\ ~s.told /\ s.out = << >>
      /\ DOMAIN s = SessionFields /\ DOMAIN m = ManagerFields
  BY AtRest
<1>2. /\ Between /\ m.opening = 0
      /\ s' = [Apply(failed, m)[1] EXCEPT !.told = FALSE, !.out = << >>]
      /\ m' = IF m.scan = "none" THEN Apply(failed, m)[2] ELSE ScanFailed(Apply(failed, m)[2])
      /\ bridge' = [bridge EXCEPT !.live = FALSE, !.sid = 0, !.cmds = << >>, !.done = "no"]
      /\ lines' = << >> /\ asks' = << >> /\ UNCHANGED <<nano, db, crossed>>
  BY DEF BridgeExits, Settled
<1>3. /\ SettledOK(s.settled) /\ PendingOK(s.pending)
      /\ s.writing \in BOOLEAN /\ s.timer \in BOOLEAN
      /\ IsTransfer(s.pending) => s.sid # 0
  BY <1>1 DEF Turn, HostOK, Shape, Talk
<1>4. /\ DOMAIN over = SessionFields /\ over.sid = 0 /\ over.timer \in BOOLEAN /\ over.writing = s.writing
      /\ ~IsTransfer(over.pending) /\ PendingOK(over.pending) /\ SettledOK(over.settled)
      /\ over.settled = s.settled \/ (over.settled # Silence /\ ~over.settled[1].ok)
      /\ over.told => over.conn = "disconnected"
  <2>1. CASE s.sid # 0 \/ Writing
    <3>1. over = Fail(s)
      BY <2>1
    <3> HIDE DEF over
    <3>2. Over(s, over) /\ over.conn = "disconnected"
      BY <1>1, <1>3, <3>1, Fails
    <3>3. over.timer \in BOOLEAN
      BY <3>2, Zenon DEF Over
    <3>4. ~IsTransfer(over.pending) /\ PendingOK(over.pending)
      BY <3>2 DEF Over, IsTransfer, None, PendingOK
    <3> QED
      BY <3>2, <3>3, <3>4 DEF Over
  <2>2. CASE ~(s.sid # 0 \/ Writing)
    <3>1. over = s /\ s.sid = 0
      BY <2>2
    <3> HIDE DEF over
    <3> QED
      BY <1>1, <1>3, <3>1
  <2> QED
    BY <2>1, <2>2
<1> HIDE DEF over
<1>5. /\ DOMAIN failed = SessionFields /\ failed.sid = 0 /\ failed.timer \in BOOLEAN
      /\ ~IsTransfer(failed.pending) /\ PendingOK(failed.pending)
      /\ failed.writing = FALSE /\ SettledOK(failed.settled)
      /\ failed.settled = s.settled \/ (failed.settled # Silence /\ ~failed.settled[1].ok)
      /\ failed.told => failed.conn = "disconnected"
  <2>1. CASE ~s.writing
    <3>1. failed = over /\ s.writing = FALSE
      BY <1>3, <2>1
    <3> HIDE DEF failed
    <3> QED
      BY <1>4, <3>1
  <2>2. CASE s.writing
    <3>1. failed = RequestFailed(over)
      BY <2>2
    <3> HIDE DEF failed
    <3>2. /\ DOMAIN failed = SessionFields /\ failed.sid = 0 /\ failed.pending = None /\ failed.timer = FALSE
          /\ failed.writing = FALSE /\ failed.conn = over.conn /\ failed.told = over.told
          /\ failed.settled = IF over.settled = Silence THEN Rejected("write_failed") ELSE over.settled
      BY <1>4, <3>1 DEF RequestFailed, SessionFields
    <3>3. ~IsTransfer(failed.pending) /\ PendingOK(failed.pending)
      BY <3>2 DEF IsTransfer, None, PendingOK
    <3>4. failed.timer \in BOOLEAN
      BY <3>2, Zenon
    <3> QED
      BY <1>4, <3>2, <3>3, <3>4, RejectedIs
  <2> QED
    BY <2>1, <2>2
<1> HIDE DEF failed
<1>6. Apply(failed, m) = << failed, known >>
  BY <1>1, <1>5 DEF Apply, Due, Known
<1>7. s' = h2 /\ m' = m2
  BY <1>2, <1>6
<1>8. /\ DOMAIN h2 = SessionFields /\ h2.sid = 0 /\ h2.pending = failed.pending /\ h2.timer = failed.timer
      /\ h2.writing = FALSE /\ h2.settled = failed.settled /\ h2.told = FALSE /\ h2.out = << >>
  BY <1>5 DEF SessionFields
<1>9. /\ DOMAIN m2 = ManagerFields /\ m2.stage = m.stage /\ m2.logs = m.logs /\ m2.of = m.of
      /\ m2.scan = "none" /\ m2.opening = 0
  <2>1. SameWork(m, known)
    BY <1>1, KnownWork
  <2> HIDE DEF known
  <2> QED
    BY <1>1, <1>2, <2>1 DEF ScanFailed, ManagerFields, SameWork
<1> HIDE DEF h2, m2
<1>10. World'
  BY <1>1, <1>2 DEF World
<1>11. /\ bridge'.cmds = << >> /\ bridge'.sid = 0 /\ bridge'.last = bridge.last /\ bridge'.done = "no"
  BY <1>1, <1>2 DEF World
<1>12. HostOK(h2, m2)
  <2>1. ~IsTransfer(h2.pending) /\ PendingOK(h2.pending) /\ h2.timer \in BOOLEAN
    BY <1>5, <1>8
  <2>2. h2.writing \in BOOLEAN
    BY <1>8, Zenon
  <2>3. Shape(h2, m2)
    BY <1>1, <1>5, <1>8, <1>9, <2>1, <2>2 DEF Turn, HostOK, Shape
  <2>4. Talk(h2, m2) /\ Link(h2, m2)
    BY <1>8, <1>9, <2>1 DEF Talk, Link
  <2> QED
    BY <2>3, <2>4 DEF HostOK
<1>13. QueuesOK(h2, m2, << >>, << >>, << >>, 0, nano.files, nano.held, bridge.last)
  BY <1>9, QueuesEmpty
<1>14. PlacesOK(h2, m2, << >>, << >>, << >>, 0, "no", crossed)
  <2>1. \A i : ~InLines(i, 0, << >>) /\ ~InAsks(i, 0, << >>, 0) /\ ~InCommands(i, 0, << >>, "no")
    BY DEF InLines, InAsks, InCommands
  <2> QED
    BY <1>8, <2>1, RankedNone DEF PlacesOK
<1>15. /\ GotOK(h2, m2, nano.files, nano.held, crossed)
       /\ ReadOK(h2, m2, nano.files, nano.held, crossed)
  <2>1. ~IsTransfer(h2.pending)
    BY <1>5, <1>8
  <2> QED
    BY <1>1, <1>5, <1>8, <1>9, <2>1 DEF Turn, GotOK, ReadOK
<1>16. Turn(s, m, bridge.cmds, lines)'
  <2>1. /\ nano' = nano /\ crossed' = crossed /\ lines' = << >> /\ asks' = << >> /\ s' = h2 /\ m' = m2
    BY <1>2, <1>7
  <2>2. /\ m2.logs \subseteq DOMAIN nano.files /\ h2.sid <= bridge.last /\ m2.opening <= bridge.last
        /\ crossed = 0 => m2.of # "profiles"
    BY <1>1, <1>8, <1>9 DEF Turn, World
  <2>3. /\ QueuesOK(s', m', bridge'.cmds, lines', asks', bridge'.sid, nano'.files, nano'.held, bridge'.last)
        /\ PlacesOK(s', m', bridge'.cmds, lines', asks', bridge'.sid, bridge'.done, crossed')
    BY <1>11, <1>13, <1>14, <2>1
  <2>4. /\ HostOK(s', m') /\ GotOK(s', m', nano'.files, nano'.held, crossed')
        /\ ReadOK(s', m', nano'.files, nano'.held, crossed')
    BY <1>12, <1>15, <2>1
  <2>5. /\ m'.logs \subseteq DOMAIN nano'.files /\ s'.sid <= bridge'.last /\ m'.opening <= bridge'.last
        /\ crossed' = 0 => m'.of # "profiles"
        /\ bridge'.done # "no" => bridge'.cmds # << >>
    BY <1>11, <2>1, <2>2
  <2> QED
    BY <2>3, <2>4, <2>5 DEF Turn
<1> QED
  BY <1>7, <1>8, <1>10, <1>16 DEF Landed

-----------------------------------------------------------------------------
(* The synchronisation goes on.                                            *)

DatabaseFields == {"files", "quarantine", "profiles", "roasts", "rows", "fts"}

\* Nothing of d but other tables.
SameFiles(d, d2) == DOMAIN d2 = DatabaseFields /\ d2.files = d.files

\* What an import files is what it was given.
LEMMA ImportFiles ==
  ASSUME NEW d, DOMAIN d = DatabaseFields, NEW c, NEW path
  PROVE  LET r == Import(d, c, path).db
         IN  /\ DOMAIN r = DatabaseFields
             /\ \A f \in r.files : f \in d.files \/ (f.sha = c /\ f.path = path)
<1> DEFINE file == [sha |-> c, path |-> path]
           g    == [d EXCEPT !.files = @ \cup {file}]
           b    == ResolveProfile(g, c)
           r    == Import(d, c, path).db
<1>1. ASSUME NEW a, DOMAIN a = DatabaseFields, NEW n, NEW entry
      PROVE  SameFiles(a, ReplaceFts(a, n, entry))
  BY <1>1 DEF SameFiles, ReplaceFts, DatabaseFields
<1>2. DOMAIN g = DatabaseFields /\ g.files = d.files \cup {file}
  BY DEF DatabaseFields
<1> HIDE DEF g
<1>3. SameFiles(g, b)
  BY <1>2 DEF SameFiles, ResolveProfile, DatabaseFields
<1> HIDE DEF b
<1>4. SameFiles(b, InsertRoast(b, file))
  BY <1>3 DEF SameFiles, InsertRoast, InsertProjection, DatabaseFields
<1>5. ASSUME NEW n PROVE SameFiles(b, UpdateRoast(b, n, file))
  <2> DEFINE roast == [NextRevision(b.roasts[n]) EXCEPT !.source = file, !.facts = file.sha]
             b1 == [b EXCEPT !.roasts[n] = ReplaceTelemetry(roast, file.sha)]
  <2>1. SameFiles(b, b1)
    BY <1>3 DEF SameFiles, DatabaseFields
  <2> HIDE DEF b1
  <2> DEFINE row == b1.rows[n]
             b2  == [b1 EXCEPT !.rows[n] = [NextRevision(row) EXCEPT !.facts = file.sha,
                                                        !.profile = RevisionShown(b1, file.sha)]]
  <2>2. SameFiles(b1, b2)
    BY <2>1 DEF SameFiles, DatabaseFields
  <2>3. \E entry : RefreshExistingProjection(b1, n, file.sha) = ReplaceFts(b2, n, entry)
    BY DEF RefreshExistingProjection
  <2> HIDE DEF b2
  <2>4. UpdateRoast(b, n, file) = RefreshExistingProjection(b1, n, file.sha)
    BY DEF UpdateRoast, b1
  <2> QED
    BY <1>1, <2>1, <2>2, <2>3, <2>4 DEF SameFiles
<1>6. SameFiles(d, Quarantine(d, c))
  BY DEF SameFiles, Quarantine, DatabaseFields
<1>7. \/ r \in {d, Quarantine(d, c), InsertRoast(b, file)}
      \/ \E n : r = UpdateRoast(b, n, file)
  BY DEF Import, Record, b, g
<1> HIDE DEF r
<1>8. SameFiles(d, r) \/ SameFiles(b, r)
  BY <1>4, <1>5, <1>6, <1>7 DEF SameFiles
<1>9. file.sha = c /\ file.path = path
  OBVIOUS
<1> HIDE DEF file
<1>10. DOMAIN r = DatabaseFields /\ \A f \in r.files : f \in d.files \/ f = file
  BY <1>2, <1>3, <1>8 DEF SameFiles
<1> QED
  BY <1>9, <1>10 DEF r

\* Among natural numbers there is a least.
LEMMA LeastOf ==
  ASSUME NEW T \in SUBSET Nat, T # {}
  PROVE \E x \in T : \A y \in T : x <= y
<1> DEFINE R == {p \in Nat \X Nat : p[1] < p[2]}
<1>1. R = OpToRel(<, Nat)
  BY DEF OpToRel
<1>2. IsWellFoundedOn(R, Nat)
  BY <1>1, NatLessThanWellFounded
<1>3. \A x, y \in Nat : y < x => <<y, x>> \in R
  OBVIOUS
<1>4. PICK x \in T : \A y \in T : ~ (<<y, x>> \in R)
  <2> HIDE DEF R
  <2> QED BY <1>2, WFMin
<1> HIDE DEF R
<1>5. ASSUME NEW y \in T PROVE x <= y
  <2>1. x \in Nat /\ y \in Nat /\ ~ (y < x)
    BY <1>3, <1>4
  <2> QED
    BY <2>1
<1> QED BY <1>4, <1>5

\* A run that ends.
LEMMA MidEnds ==
  ASSUME World, Turn(s, m, bridge.cmds, lines), ~s.told, s.out = << >>,
         m.stage # "none", s.settled # Silence, ~s.writing,
         NEW mgr, DOMAIN mgr = ManagerFields, mgr.conn = m.conn, mgr.scan = m.scan,
         mgr.opening = m.opening, mgr.stage = "none", mgr.of = "none",
         mgr.logs \subseteq DOMAIN nano.files
  PROVE  Mid([s EXCEPT !.settled = Silence], mgr, bridge.cmds, lines)
<1> DEFINE idle == [s EXCEPT !.settled = Silence]
<1>1. DOMAIN s = SessionFields /\ s.writing \in BOOLEAN /\ ~IsTransfer(s.pending)
  BY DEF Turn, HostOK, Shape, Talk
<1>2. /\ DOMAIN idle = SessionFields /\ idle.conn = s.conn /\ idle.sid = s.sid /\ idle.pending = s.pending
      /\ idle.timer = s.timer /\ idle.writing = FALSE /\ idle.out = s.out /\ idle.told = s.told
      /\ idle.settled = Silence
  BY <1>1 DEF SessionFields
<1> HIDE DEF idle
<1>3. Turn(idle, mgr, bridge.cmds, lines)
  BY <1>1, <1>2, TurnIdle
<1> QED
  BY <1>2, <1>3, Starts DEF idle

\* A run that asks for its next thing.
LEMMA MidAsksNext ==
  ASSUME World, Turn(s, m, bridge.cmds, lines), ~s.told, s.out = << >>,
         m.stage # "none", s.settled # Silence, ~s.writing,
         NEW kind \in {"directory", "file"}, NEW path,
         NEW mgr, DOMAIN mgr = ManagerFields,
         mgr.conn = m.conn, mgr.scan = m.scan, mgr.opening = m.opening,
         mgr.stage \in {"profiles", "files"}, mgr.stage = "files" <=> kind = "file",
         kind = "file" => path \in DOMAIN nano.files,
         mgr.logs \subseteq DOMAIN nano.files, crossed = 0 => mgr.of # "profiles",
         Listings(mgr.stage) <= Depth(s, m)
  PROVE  Mid(Transfer([s EXCEPT !.settled = Silence], kind, path), mgr, bridge.cmds, lines)
<1> DEFINE idle == [s EXCEPT !.settled = Silence]
           h2   == Transfer(idle, kind, path)
<1>1. ~IsTransfer(s.pending)
  BY DEF Turn, HostOK, Talk
<1>2. bridge.cmds \o s.out = bridge.cmds /\ IsSeq(s.out) /\ IsSeq(bridge.cmds)
  BY Starts DEF Mid
<1>3. Turn(s, m, bridge.cmds \o s.out, lines)
  BY <1>2
<1>4. Turn(h2, mgr, bridge.cmds \o h2.out, lines) /\ IsSeq(h2.out) /\ (h2.told => s.told)
  <2>1. AsksFrom(s, idle)
    BY DEF AsksFrom
  <2>2. Wants(s, m, mgr, kind, path)
    BY DEF Wants
  <2> DEFINE c == bridge.cmds
  <2>3. World /\ IsSeq(c) /\ IsSeq(s.out) /\ Turn(s, m, c \o s.out, lines) /\ ~s.writing /\ ~IsTransfer(s.pending)
    BY <1>1, <1>2, <1>3
  <2> HIDE DEF idle, c, h2
  <2>4. LET h == Transfer(idle, kind, path)
        IN  Turn(h, mgr, c \o h.out, lines) /\ IsSeq(h.out) /\ (h.told => s.told)
    BY <2>1, <2>2, <2>3, Transfers
  <2> QED
    BY <2>4 DEF c, h2
<1> HIDE DEF h2
<1>5. Known(h2, mgr) = mgr
  BY <1>4 DEF Known
<1> QED
  BY <1>2, <1>4, <1>5 DEF Mid, h2

\* The next log, or the end.
LEMMA MidNextLog ==
  ASSUME World, Turn(s, m, bridge.cmds, lines), ~s.told, s.out = << >>,
         m.stage # "none", s.settled # Silence, ~s.writing, Depth(s, m) = 2,
         NEW mgr, DOMAIN mgr = ManagerFields, mgr.conn = m.conn, mgr.scan = m.scan,
         mgr.opening = m.opening, mgr.of = m.of, mgr.logs \subseteq m.logs
  PROVE  LET a == NextLog([s EXCEPT !.settled = Silence], mgr)
         IN  Mid(a[1], a[2], bridge.cmds, lines)
<1> DEFINE idle == [s EXCEPT !.settled = Silence]
<1>1. m.logs \subseteq DOMAIN nano.files /\ (crossed = 0 => m.of # "profiles")
  BY DEF Turn
<1>2. CASE mgr.logs = {}
  <2> DEFINE m2 == [mgr EXCEPT !.stage = "none", !.of = "none", !.sync = "ready"]
  <2>1. NextLog(idle, mgr) = << idle, m2 >>
    BY <1>2 DEF NextLog
  <2>2. /\ DOMAIN m2 = ManagerFields /\ m2.conn = m.conn /\ m2.scan = m.scan /\ m2.opening = m.opening
        /\ m2.stage = "none" /\ m2.of = "none" /\ m2.logs = mgr.logs
    BY DEF ManagerFields
  <2> HIDE DEF m2, idle
  <2>3. Mid(idle, m2, bridge.cmds, lines)
    BY <1>1, <2>2, MidEnds DEF idle
  <2> QED
    BY <2>1, <2>3 DEF idle
<1>3. CASE mgr.logs # {}
  <2> DEFINE path == CHOOSE p \in mgr.logs : \A q \in mgr.logs : p <= q
             m2   == [mgr EXCEPT !.stage = "files"]
             h2   == Transfer(idle, "file", path)
  <2>1. NextLog(idle, mgr) = << h2, m2 >>
    BY <1>3 DEF NextLog
  <2>2. /\ DOMAIN m2 = ManagerFields /\ m2.conn = m.conn /\ m2.scan = m.scan /\ m2.opening = m.opening
        /\ m2.stage = "files" /\ m2.of = m.of /\ m2.logs = mgr.logs
    BY DEF ManagerFields
  <2>3. path \in mgr.logs
    <3>1. mgr.logs \in SUBSET Nat
      BY <1>1, NanoSyncAssumption DEF World
    <3>2. \E p \in mgr.logs : \A q \in mgr.logs : p <= q
      BY <1>3, <3>1, LeastOf
    <3> QED
      BY <3>2
  <2>4. path \in DOMAIN nano.files
    BY <1>1, <2>3
  <2>5. Listings(m2.stage) <= Depth(s, m)
    BY <2>2 DEF Listings
  <2> HIDE DEF m2, path
  <2>6. Mid(h2, m2, bridge.cmds, lines)
    BY <1>1, <2>2, <2>4, <2>5, MidAsksNext
  <2> HIDE DEF h2
  <2> QED
    BY <2>1, <2>6
<1> QED
  BY <1>2, <1>3

\* The run goes on, or ends, with what its request was settled with.
LEMMA MidResumes ==
  ASSUME World, Turn(s, m, bridge.cmds, lines), ~s.told, s.out = << >>,
         m.stage # "none", s.settled # Silence, ~s.writing,
         NEW a, LET idle == [s EXCEPT !.settled = Silence]
                IN  \/ \E reason : a = SyncFailed(idle, m, reason)
                    \/ a = Resumed(idle, m, s.settled[1])
  PROVE  Mid(a[1], a[2], bridge.cmds, lines)
<1> DEFINE idle    == [s EXCEPT !.settled = Silence]
           outcome == s.settled[1]
<1>1. /\ DOMAIN m = ManagerFields /\ DOMAIN s = SessionFields /\ SettledOK(s.settled)
      /\ m.stage \in {"logs", "profiles", "files"} /\ m.logs \subseteq DOMAIN nano.files
      /\ crossed = 0 => m.of # "profiles"
  BY DEF Turn, HostOK, Shape
<1>2. ASSUME NEW reason, a = SyncFailed(idle, m, reason)
      PROVE  Mid(a[1], a[2], bridge.cmds, lines)
  <2> DEFINE m2 == [m EXCEPT !.stage = "none", !.logs = {}, !.of = "none",
                    !.attempted = @ /\ ~Waiting(reason),
                    !.sync = IF Waiting(reason) THEN "idle" ELSE "failed"]
  <2>1. a = << idle, m2 >>
    BY <1>2 DEF SyncFailed
  <2>2. /\ DOMAIN m2 = ManagerFields /\ m2.conn = m.conn /\ m2.scan = m.scan /\ m2.opening = m.opening
        /\ m2.stage = "none" /\ m2.of = "none" /\ m2.logs = {}
    BY <1>1 DEF ManagerFields
  <2> HIDE DEF m2
  <2>3. Mid(idle, m2, bridge.cmds, lines)
    BY <2>2, MidEnds
  <2> HIDE DEF idle
  <2> QED
    BY <2>1, <2>3
<1>3. CASE a = Resumed(idle, m, outcome) /\ ~outcome.ok
  BY <1>2, <1>3 DEF Resumed
<1>4. CASE a = Resumed(idle, m, outcome) /\ outcome.ok /\ m.stage = "logs"
  <2> DEFINE d  == outcome.value.data[1]
             m2 == [m EXCEPT !.stage = "profiles", !.logs = d.entries, !.of = d.path]
             h2 == Transfer(idle, "directory", "profiles")
  <2>1. a = << h2, m2 >>
    BY <1>4 DEF Resumed
  <2>2. /\ DOMAIN m2 = ManagerFields /\ m2.conn = m.conn /\ m2.scan = m.scan /\ m2.opening = m.opening
        /\ m2.stage = "profiles" /\ m2.of = d.path /\ m2.logs = d.entries
    BY <1>1 DEF ManagerFields
  <2>3. d.entries \subseteq DOMAIN nano.files /\ (crossed = 0 => d.path = "logs")
    BY <1>4 DEF Turn, ReadOK
  <2>4. Depth(s, m) = 1 /\ Listings(m2.stage) <= Depth(s, m)
    BY <1>4, <2>2 DEF Depth, Listings
  <2> HIDE DEF m2, d
  <2>5. Mid(h2, m2, bridge.cmds, lines)
    BY <2>2, <2>3, <2>4, MidAsksNext
  <2> HIDE DEF h2
  <2> QED
    BY <2>1, <2>5
<1>5. CASE a = Resumed(idle, m, outcome) /\ outcome.ok /\ m.stage = "profiles"
  <2>1. a = NextLog(idle, m)
    BY <1>5 DEF Resumed
  <2>2. Depth(s, m) = 2
    BY <1>5 DEF Depth
  <2> QED
    BY <1>1, <2>1, <2>2, MidNextLog
<1>6. CASE a = Resumed(idle, m, outcome) /\ outcome.ok /\ m.stage = "files"
  <2> DEFINE m2 == [m EXCEPT !.logs = @ \ {outcome.value.path}]
  <2>1. a = NextLog(idle, m2)
    BY <1>6 DEF Resumed
  <2>2. Depth(s, m) = 2
    BY <1>6 DEF Depth
  <2>3. /\ DOMAIN m2 = ManagerFields /\ m2.conn = m.conn /\ m2.scan = m.scan /\ m2.opening = m.opening
        /\ m2.of = m.of /\ m2.logs \subseteq m.logs
    BY <1>1 DEF ManagerFields
  <2> HIDE DEF m2
  <2> QED
    BY <2>1, <2>2, <2>3, MidNextLog
<1>7. outcome.ok \/ ~outcome.ok
  OBVIOUS
<1> QED
  BY <1>1, <1>2, <1>3, <1>4, <1>5, <1>6, <1>7

\* What is filed is what was read, under the path that was asked for.
LEMMA ResumeLands ==
  ASSUME Landed, DOMAIN db = DatabaseFields, Attributed, Resume
  PROVE  Landed' /\ (DOMAIN db = DatabaseFields)' /\ Attributed'
<1> DEFINE outcome  == s.settled[1]
           reading  == outcome.ok /\ m.stage = "files"
           imported == IF reading THEN Import(db, outcome.value.data[1].content, outcome.value.path)
                                  ELSE [db |-> db, outcome |-> "known"]
           idle     == [s EXCEPT !.settled = Silence]
           both     == IF imported.outcome = "duplicate"
                         THEN SyncFailed(idle, m, "device_sync_failed")
                         ELSE Resumed(idle, m, outcome)
<1>1. World /\ Turn(s, m, bridge.cmds, lines) /\ ~s.told /\ s.out = << >>
  BY AtRest
<1>2. /\ m.stage # "none" /\ s.settled # Silence /\ ~s.writing
      /\ db' = imported.db /\ Leaves(both[1], both[2]) /\ UNCHANGED <<lines, asks, nano, used, crossed>>
  BY DEF Resume
<1>3. /\ DOMAIN db' = DatabaseFields
      /\ \A f \in db'.files : f \in db.files
           \/ (reading /\ f.sha = outcome.value.data[1].content /\ f.path = outcome.value.path)
  <2>1. CASE reading
    <3>1. db' = Import(db, outcome.value.data[1].content, outcome.value.path).db
      BY <1>2, <2>1
    <3> QED
      BY <2>1, <3>1, ImportFiles
  <2>2. CASE ~reading
    <3>1. db' = db
      BY <1>2, <2>2
    <3> QED
      BY <3>1
  <2> QED
    BY <2>1, <2>2
<1>4. reading /\ crossed < 3 => <<outcome.value.path, outcome.value.data[1].content>> \in nano.held
  BY <1>1, <1>2 DEF Turn, ReadOK
<1>5. Attributed'
  <2>1. nano' = nano /\ crossed' = crossed
    BY <1>2
  <2> HIDE DEF imported, both, reading
  <2> QED
    BY <1>3, <1>4, <2>1 DEF Attributed
<1>6. Mid(both[1], both[2], bridge.cmds, lines)
  <2>1. \/ \E reason : both = SyncFailed(idle, m, reason)
        \/ both = Resumed(idle, m, outcome)
    <3> HIDE DEF imported
    <3>1. CASE imported.outcome = "duplicate"
      BY <3>1
    <3>2. CASE imported.outcome # "duplicate"
      BY <3>2
    <3> QED
      BY <3>1, <3>2
  <2> HIDE DEF both
  <2> QED
    BY <1>1, <1>2, <2>1, MidResumes
<1> HIDE DEF both, imported
<1>7. Landed'
  BY <1>1, <1>2, <1>6, LeavesWell
<1> QED
  BY <1>3, <1>5, <1>7

-----------------------------------------------------------------------------
(* The child and the Nano.                                                 *)

\* A step the companion takes no part in.
LEMMA WorldLands ==
  ASSUME Landed, World', s' = s, m' = m,
         QueuesOK(s, m, bridge'.cmds, lines', asks', bridge'.sid, nano'.files, nano'.held, bridge'.last),
         crossed' < 3 => Ranked(s.sid, s.pending, Depth(s, m), Failing(bridge'.cmds, lines', bridge'.done),
                                bridge'.cmds, lines', asks', bridge'.sid, bridge'.done, crossed'),
         DOMAIN nano.files \subseteq DOMAIN nano'.files, nano.held \subseteq nano'.held,
         crossed <= crossed', bridge.last <= bridge'.last
  PROVE  Landed'
<1>1. World /\ Turn(s, m, bridge.cmds, lines) /\ ~s.told /\ s.out = << >>
  BY AtRest
<1>2. HostOK(s', m')
  BY <1>1 DEF Turn
<1>3. PlacesOK(s', m', bridge'.cmds, lines', asks', bridge'.sid, bridge'.done, crossed')
  BY DEF PlacesOK
<1>4. crossed \in Nat /\ crossed' \in Nat /\ bridge.last \in Nat /\ bridge'.last \in Nat
  BY <1>1 DEF World
<1>5. (crossed' < 3 => crossed < 3) /\ (crossed' = 0 => crossed = 0)
  BY <1>4
<1>6. GotOK(s', m', nano'.files, nano'.held, crossed')
  BY <1>1, <1>5 DEF Turn, GotOK
<1>7. ReadOK(s', m', nano'.files, nano'.held, crossed')
  BY <1>1, <1>5 DEF Turn, ReadOK
<1>8. /\ m'.logs \subseteq DOMAIN nano'.files /\ s'.sid <= bridge'.last /\ m'.opening <= bridge'.last
      /\ crossed' = 0 => m'.of # "profiles"
  BY <1>1, <1>4, <1>5 DEF Turn, HostOK, Shape
<1>9. bridge'.done # "no" => bridge'.cmds # << >>
  BY DEF World
<1>10. Turn(s, m, bridge.cmds, lines)'
  BY <1>2, <1>3, <1>6, <1>7, <1>8, <1>9 DEF Turn
<1> QED
  BY <1>1, <1>10 DEF Landed

\* The head of the commands.
LEMMA AtHead ==
  ASSUME Landed, bridge.cmds # << >>
  PROVE  /\ 1 \in DOMAIN bridge.cmds /\ Current = bridge.cmds[1] /\ Len(bridge.cmds) \in Nat
         /\ DOMAIN bridge.cmds = 1 .. Len(bridge.cmds)
         /\ CommandOK(Current, nano.files, bridge.last)
         /\ Outstanding(Current.then, bridge.cmds, lines)
<1>1. IsSeq(bridge.cmds) /\ Turn(s, m, bridge.cmds, lines)
  BY AtRest
<1>2. /\ 1 \in DOMAIN bridge.cmds /\ Current = bridge.cmds[1] /\ Len(bridge.cmds) \in Nat
      /\ DOMAIN bridge.cmds = 1 .. Len(bridge.cmds)
  BY <1>1, RestOfHead, SeqFacts DEF Current
<1> QED
  BY <1>1, <1>2 DEF Turn, QueuesOK, Outstanding

\* A command is written to the port, or is not, or nobody knows.
LEMMA PerformWriteLands ==
  ASSUME Landed, PerformWrite
  PROVE  Landed'
<1> DEFINE c  == bridge.cmds
           e  == Current
           d  == Depth(s, m)
           fl == Failing(c, lines, "no")
           p  == s.pending
<1>1. /\ World /\ Turn(s, m, c, lines) /\ IsSeq(c) /\ IsSeq(lines) /\ IsSeq(asks)
  BY AtRest
<1>2. bridge.live /\ c # << >> /\ bridge.done = "no" /\ e.op = "write" /\ UNCHANGED <<s, m, lines, nano, db>>
  BY DEF PerformWrite, CanPerform
<1>3. PICK done \in {"ok", "error"}, reaches \in BOOLEAN :
        /\ done = "ok" => reaches = (e.sid = bridge.sid)
        /\ reaches => e.sid = bridge.sid
        /\ bridge' = [bridge EXCEPT !.done = IF e.sid = bridge.sid THEN done ELSE "error"]
        /\ asks' = IF reaches THEN Append(asks, e.frame) ELSE asks
        /\ crossed' = IF reaches /\ done = "error" /\ e.then = "request" THEN crossed + 1 ELSE crossed
  BY DEF PerformWrite
<1>4. /\ 1 \in DOMAIN c /\ e = c[1] /\ Len(c) \in Nat /\ DOMAIN c = 1 .. Len(c)
      /\ CommandOK(e, nano.files, bridge.last)
  BY <1>2, AtHead
<1> DEFINE dn == IF e.sid = bridge.sid THEN done ELSE "error"
           f2 == Failing(c, lines, dn)
<1>5. /\ bridge'.cmds = c /\ bridge'.sid = bridge.sid /\ bridge'.last = bridge.last /\ bridge'.done = dn
      /\ bridge'.live = bridge.live /\ DOMAIN bridge' = DOMAIN bridge
  BY <1>1, <1>3 DEF World
<1>6. dn \in {"ok", "error"}
  BY <1>3
<1>7. World'
  <2>1. nano' = nano
    BY <1>2
  <2>2. crossed' \in Nat
    BY <1>1, <1>3 DEF World
  <2> HIDE DEF dn
  <2> QED
    BY <1>1, <1>2, <1>4, <1>5, <1>6, <2>1, <2>2 DEF World
<1>8. QueuesOK(s, m, c, lines, asks', bridge.sid, nano.files, nano.held, bridge.last)
  <2>1. QueuesOK(s, m, c, lines, asks, bridge.sid, nano.files, nano.held, bridge.last)
    BY <1>1 DEF Turn
  <2>2. CASE reaches
    <3>1. asks' = Append(asks, c[1].frame) /\ c[1].op = "write" /\ c[1].sid = bridge.sid
      BY <1>2, <1>3, <1>4, <2>2
    <3> HIDE DEF c
    <3> QED
      BY <1>4, <2>1, <3>1, QueuesAsk
  <2>3. CASE ~reaches
    BY <1>3, <2>1, <2>3
  <2> QED
    BY <2>2, <2>3
<1>9. crossed' < 3 => Ranked(s.sid, p, d, f2, c, lines, asks', bridge.sid, dn, crossed')
  <2> SUFFICES ASSUME crossed' < 3
               PROVE  Ranked(s.sid, p, d, f2, c, lines, asks', bridge.sid, dn, crossed')
    OBVIOUS
  <2>1. crossed \in Nat /\ crossed \in Int /\ crossed' \in Int /\ crossed <= crossed' /\ crossed < 3 /\ d \in Int /\ d <= d
    BY <1>1, <1>3, DepthIs DEF World
  <2>2. Ranked(s.sid, p, d, fl, c, lines, asks, bridge.sid, "no", crossed)
    BY <1>1, <1>2, <2>1 DEF Turn, PlacesOK
  <2>3. f2 => fl \/ (e.then = "request" /\ dn = "error")
    BY <1>4 DEF Failing
  <2>4. CASE reaches
    <3>1. asks' = Append(asks, c[1].frame) /\ c[1].op = "write" /\ c[1].sid = bridge.sid /\ dn = done
      BY <1>2, <1>3, <1>4, <2>4
    <3>2. e.then = "request" /\ dn = "error" => crossed' = crossed + 1
      BY <1>3, <2>4, <3>1
    <3>3. f2 => fl \/ crossed + 1 <= crossed'
      BY <2>1, <2>3, <3>2
    <3>4. dn # "no"
      BY <1>6
    <3> HIDE DEF c, d, fl, f2, dn
    <3>5. Ranked(s.sid, p, d, fl, c, lines, asks', bridge.sid, dn, crossed)
      BY <1>1, <1>2, <2>2, <3>1, <3>4, RankedWrite DEF c
    <3> QED
      BY <2>1, <3>3, <3>5, RankedStill
  <2>5. CASE ~reaches
    <3>1. asks' = asks /\ dn = "error" /\ crossed' = crossed
      BY <1>3, <2>5
    <3>2. CASE e.then = "request" /\ Awaits(p)
      <4>1. 1 = Len(c) /\ e.sid = s.sid
        BY <1>1, <1>4, <3>2 DEF Turn, QueuesOK, Latest
      <4>2. e.sid # 0 /\ e.frame.type \in {"directory", "file"}
        BY <1>2, <1>4, <3>2 DEF CommandOK
      <4>3. InCommands(1, s.sid, c, "no")
        BY <1>2, <1>4, <4>1, <4>2 DEF InCommands
      <4>4. dn # "no" /\ Len(c) = 1
        BY <3>1, <4>1
      <4> HIDE DEF c, d, fl, f2, dn
      <4> QED
        BY <1>1, <2>2, <3>1, <4>3, <4>4, RankedLost DEF c
    <3>3. CASE ~(e.then = "request" /\ Awaits(p))
      <4>1. \A i : InCommands(i, s.sid, c, dn) => InCommands(i, s.sid, c, "no") /\ c[i].frame = c[i].frame
        BY DEF InCommands
      <4> HIDE DEF c, d, fl, f2, dn
      <4>2. Ranked(s.sid, p, d, fl, c, lines, asks', bridge.sid, dn, crossed)
        BY <2>2, <3>1, <4>1, RankedSame
      <4>3. CASE e.then # "request"
        BY <2>1, <2>3, <3>1, <4>2, <4>3, RankedStill
      <4>4. CASE ~Awaits(p)
        BY <2>1, <3>1, <4>2, <4>4, RankedFree
      <4> QED
        BY <3>3, <4>3, <4>4
    <3> QED
      BY <3>2, <3>3
  <2> QED
    BY <2>4, <2>5
<1>10. crossed <= crossed'
  BY <1>1, <1>3 DEF World
<1> HIDE DEF dn
<1>11. bridge.last <= bridge'.last
  BY <1>1, <1>5 DEF World
<1>12. nano' = nano /\ s' = s /\ m' = m /\ lines' = lines
  BY <1>2
<1>13. /\ QueuesOK(s, m, bridge'.cmds, lines', asks', bridge'.sid, nano'.files, nano'.held, bridge'.last)
       /\ crossed' < 3 => Ranked(s.sid, s.pending, Depth(s, m), Failing(bridge'.cmds, lines', bridge'.done),
                                 bridge'.cmds, lines', asks', bridge'.sid, bridge'.done, crossed')
  BY <1>5, <1>8, <1>9, <1>12
<1> QED
  BY <1>7, <1>10, <1>11, <1>12, <1>13, WorldLands

\* The head of the commands is done, and answered.
Done(ok, sid) ==
  /\ bridge.cmds # << >> /\ bridge'.cmds = Tail(bridge.cmds) /\ bridge'.done = "no"
  /\ \E value : lines' = Answer(ok, value, sid)
  /\ asks' \in {asks, << >>} /\ UNCHANGED <<s, m, crossed>>
  /\ nano'.files = nano.files /\ nano'.held = nano.held
  /\ bridge.last <= bridge'.last
  /\ \/ bridge'.sid = bridge.sid
     \/ bridge'.sid = 0
     \/ bridge'.sid > bridge.last /\ asks' = << >>
  /\ ok \/ (Current.then = "request" => bridge.done = "error")
  /\ Current.then = "opened" /\ ok => sid = bridge'.last /\ sid > bridge.last /\ asks' = << >>

\* The answer may be said.
LEMMA AnswerSayable ==
  ASSUME Landed, NEW ok \in BOOLEAN, NEW sid, Done(ok, sid), Current.then # "nothing",
         NEW e, e.type = "response", e.then = Current.then, e.ok = ok, e.sid = sid, bridge'.last \in Nat
  PROVE  /\ Sayable(e, s, m, Tail(bridge.cmds), lines, asks', bridge'.sid)
         /\ LineOK(e, nano.files, nano.held, bridge'.last)
<1> DEFINE c  == bridge.cmds
           c2 == Tail(c)
           then == Current.then
<1>1. World /\ Turn(s, m, c, lines) /\ IsSeq(c) /\ IsSeq(lines) /\ c # << >>
  BY AtRest DEF Done
<1>2. /\ 1 \in DOMAIN c /\ Current = c[1] /\ DOMAIN c = 1 .. Len(c)
      /\ CommandOK(c[1], nano.files, bridge.last) /\ Outstanding(then, c, lines)
  BY <1>1, AtHead
<1>3. \A i \in DOMAIN c2 : i + 1 \in DOMAIN c /\ i + 1 # 1 /\ c2[i] = c[i + 1]
  BY <1>1, RestOfHead, SeqFacts
<1>4. Tickets(s, m, c, lines) /\ Ordered(m, c, lines)
  BY <1>1 DEF Turn, QueuesOK
<1>5. then \in {"request", "rearm", "handler", "listed", "opened"}
  BY <1>2 DEF CommandOK, Writes
<1> HIDE DEF c2, c
<1>6. ASSUME Single(then, c, lines) PROVE ~Outstanding(then, c2, lines)
  <2>1. \A i \in DOMAIN c2 : c2[i].then # then
    BY <1>2, <1>3, <1>6 DEF Single
  <2>2. \A j \in DOMAIN lines : ~Told(lines, j, then)
    BY <1>2, <1>6 DEF Single
  <2> QED
    BY <2>1, <2>2 DEF Outstanding
<1>7. ~Outstanding(then, c2, lines) \/ then \in {"rearm", "handler"}
  BY <1>4, <1>5, <1>6 DEF Tickets
<1>8. /\ then = "request" => s.writing
      /\ then = "listed" => m.scan = "listing"
      /\ then = "opened" => m.scan = "opening" /\ m.opening = 0
      /\ then \in Writes => m.scan # "opening"
  BY <1>2, <1>4 DEF Tickets, Ordered
<1>9. then = "listed" => \A t \in Writes, i \in DOMAIN c2 : c2[i].then # t
  <2> SUFFICES ASSUME then = "listed", NEW t \in Writes, NEW i \in DOMAIN c2, c2[i].then = t PROVE FALSE
    OBVIOUS
  <2>1. i + 1 \in DOMAIN c /\ c[i + 1].then = t
    BY <1>3
  <2>2. i + 1 < 1
    BY <1>2, <1>4, <2>1 DEF Ordered
  <2> QED
    BY <1>2, <2>1, <2>2
<1>10. then \in Writes => \A i \in DOMAIN lines : ~Told(lines, i, "listed")
  BY <1>2, <1>4 DEF Ordered
<1>11. then = "opened" /\ ok => Fresh(sid, c2, lines, asks', bridge'.sid)
  <2> SUFFICES ASSUME then = "opened", ok PROVE Fresh(sid, c2, lines, asks', bridge'.sid)
    OBVIOUS
  <2>1. sid > bridge.last /\ asks' = << >> /\ bridge.last \in Nat /\ sid \in Nat
    BY <1>1 DEF Done, World
  <2>2. \A i \in DOMAIN c : c[i].sid \in 0 .. bridge.last
    BY <1>1 DEF Turn, QueuesOK, CommandOK, c
  <2>3. \A i \in DOMAIN lines : lines[i].type = "data" => lines[i].sid \in 1 .. bridge.last
    BY <1>1 DEF Turn, QueuesOK, LineOK
  <2>4. \A i \in DOMAIN c2 : c2[i].sid # sid
    BY <1>3, <2>1, <2>2
  <2>5. \A i \in DOMAIN lines : lines[i].type = "data" => lines[i].sid # sid
    BY <2>1, <2>3
  <2> QED
    BY <2>1, <2>4, <2>5 DEF Fresh
<1>12. Sayable(e, s, m, c2, lines, asks', bridge'.sid)
  BY <1>5, <1>7, <1>8, <1>9, <1>10, <1>11 DEF Sayable
<1>13. LineOK(e, nano.files, nano.held, bridge'.last)
  <2>1. then = "opened" /\ ok => sid \in 1 .. bridge'.last
    BY <1>1 DEF Done, World
  <2> QED
    BY <2>1 DEF LineOK
<1> QED
  BY <1>12, <1>13 DEF c2, c

\* A command of the child is done, and its answer is a line.
LEMMA DoneLands ==
  ASSUME Landed, NEW ok \in BOOLEAN, NEW sid, Done(ok, sid), World'
  PROVE  Landed'
<1> DEFINE c  == bridge.cmds
           c2 == Tail(c)
           then == Current.then
           d  == Depth(s, m)
           fl == Failing(c, lines, bridge.done)
           f2 == Failing(c2, lines', "no")
           p  == s.pending
<1>1. /\ World /\ Turn(s, m, c, lines) /\ IsSeq(c) /\ IsSeq(lines) /\ IsSeq(asks) /\ c # << >>
  BY AtRest DEF Done
<1>2. /\ 1 \in DOMAIN c /\ Current = c[1]
  BY <1>1, AtHead
<1>3. PICK value : lines' = Answer(ok, value, sid)
  BY DEF Done
<1> DEFINE e == [type |-> "response", then |-> then, ok |-> ok, value |-> value, sid |-> sid]
<1>4. \/ then = "nothing" /\ lines' = lines
      \/ then # "nothing" /\ lines' = Append(lines, e)
  BY <1>3 DEF Answer
<1>5. e.type = "response" /\ e.then = then /\ e.ok = ok /\ e.sid = sid
  OBVIOUS
<1> HIDE DEF e
<1>6. IsRest(c2, c) /\ IsRest(lines, lines) /\ IsRest(asks', asks) /\ c2 # c /\ IsSeq(c2)
  <2>1. IsRest(c2, c) /\ Len(c2) = Len(c) - 1 /\ Len(c) \in Nat /\ IsSeq(c2)
    BY <1>1, RestOfHead, SeqFacts
  <2> HIDE DEF c2
  <2>2. c2 # c
    BY <2>1
  <2> QED
    BY <1>1, <2>1, <2>2, RestOfAll, NoneLeft DEF Done
<1>7. bridge.last \in Nat /\ bridge'.last \in Nat /\ bridge.last <= bridge'.last
  BY <1>1 DEF World, Done
<1>8. QueuesOK(s, m, c2, lines, asks', bridge'.sid, nano.files, nano.held, bridge'.last)
  <2>1. QueuesOK(s, m, c, lines, asks, bridge.sid, nano.files, nano.held, bridge.last)
    BY <1>1 DEF Turn
  <2> HIDE DEF c, c2
  <2>2. QueuesOK(s, m, c2, lines, asks', bridge.sid, nano.files, nano.held, bridge.last)
    BY <1>6, <2>1, QueuesShorten
  <2>3. /\ bridge'.sid = bridge.sid \/ bridge'.sid = 0 \/ bridge'.sid > bridge.last
        /\ bridge'.sid > bridge.last => asks' = << >>
    BY <1>1 DEF Done, World
  <2> QED
    BY <1>7, <2>2, <2>3, QueuesWorld
<1>9. QueuesOK(s, m, c2, lines', asks', bridge'.sid, nano.files, nano.held, bridge'.last)
  <2>1. CASE then = "nothing"
    BY <1>4, <1>8, <2>1
  <2>2. CASE then # "nothing"
    <3>1. /\ Sayable(e, s, m, c2, lines, asks', bridge'.sid)
          /\ LineOK(e, nano.files, nano.held, bridge'.last)
      BY <1>5, <1>7, <2>2, AnswerSayable
    <3> HIDE DEF c, c2
    <3> QED
      BY <1>4, <1>8, <2>2, <3>1, QueuesLine
  <2> QED
    BY <2>1, <2>2
<1>10. Grown(Append(lines, e), lines, e) /\ IsSeq(Append(lines, e)) /\ DOMAIN lines = 1 .. Len(lines)
       /\ DOMAIN Append(lines, e) = 1 .. Len(Append(lines, e)) /\ Len(lines) \in Nat
  BY <1>1, GrownByOne, SeqFacts
<1>11. \A i \in DOMAIN lines' : (i \in DOMAIN lines /\ lines'[i] = lines[i]) \/ (lines'[i] = e /\ then # "nothing")
  <2>1. CASE lines' = lines
    BY <2>1
  <2>2. CASE then # "nothing" /\ lines' = Append(lines, e)
    <3> DEFINE l2 == Append(lines, e)
    <3>1. \A i \in DOMAIN l2 : (i \in DOMAIN lines /\ l2[i] = lines[i]) \/ l2[i] = e
      <4> HIDE DEF l2
      <4> QED
        BY <1>10 DEF Grown, l2
    <3> QED
      BY <2>2, <3>1
  <2> QED
    BY <1>4, <2>1, <2>2
<1>12. crossed < 3 => Ranked(s.sid, p, d, f2, c2, lines', asks', bridge'.sid, "no", crossed)
  <2> SUFFICES ASSUME crossed < 3
               PROVE  Ranked(s.sid, p, d, f2, c2, lines', asks', bridge'.sid, "no", crossed)
    OBVIOUS
  <2>1. crossed \in Int /\ crossed <= crossed /\ d \in Int /\ d <= d
    BY <1>1, DepthIs DEF World
  <2>2. Ranked(s.sid, p, d, fl, c, lines, asks, bridge.sid, bridge.done, crossed)
    BY <1>1 DEF Turn, PlacesOK
  <2>3. f2 => fl
    <3>1. ASSUME NEW i \in DOMAIN lines', Told(lines', i, "request"), ~lines'[i].ok PROVE fl
      <4>1. CASE i \in DOMAIN lines /\ lines'[i] = lines[i]
        BY <3>1, <4>1 DEF Failing, Told
      <4>2. CASE lines'[i] = e
        <5>1. then = "request" /\ ~ok
          BY <1>5, <3>1, <4>2 DEF Told
        <5>2. bridge.done = "error"
          BY <5>1 DEF Done
        <5> QED
          BY <1>1, <1>2, <5>1, <5>2 DEF Failing
      <4> QED
        BY <1>11, <4>1, <4>2
    <3> QED
      BY <3>1 DEF Failing
  <2>4. \A i : InLines(i, s.sid, lines') => InLines(i, s.sid, lines) /\ lines'[i] = lines[i]
    BY <1>5, <1>11 DEF InLines
  <2>5. \A i : InAsks(i, s.sid, asks', bridge'.sid) => InAsks(i, s.sid, asks', bridge.sid) /\ asks'[i] = asks'[i]
    <3>1. CASE bridge'.sid = bridge.sid
      BY <3>1
    <3>2. CASE bridge'.sid = 0
      BY <3>2 DEF InAsks
    <3>3. CASE asks' = << >>
      <4>1. DOMAIN asks' = {}
        BY <1>1, <3>3, NoneLeft
      <4> QED
        BY <4>1 DEF InAsks
    <3> QED
      BY <3>1, <3>2, <3>3 DEF Done
  <2> HIDE DEF c, c2, d, fl, f2
  <2>6. Ranked(s.sid, p, d, f2, c, lines, asks, bridge.sid, bridge.done, crossed)
    BY <2>1, <2>2, <2>3, RankedStill
  <2>7. Ranked(s.sid, p, d, f2, c2, lines, asks', bridge.sid, "no", crossed)
    BY <1>1, <1>6, <2>6, RankedRest DEF c, c2
  <2> QED
    BY <2>4, <2>5, <2>7, RankedSame
<1>13. /\ QueuesOK(s, m, bridge'.cmds, lines', asks', bridge'.sid, nano'.files, nano'.held, bridge'.last)
       /\ crossed' < 3 => Ranked(s.sid, s.pending, Depth(s, m), Failing(bridge'.cmds, lines', bridge'.done),
                                 bridge'.cmds, lines', asks', bridge'.sid, bridge'.done, crossed')
  <2>1. /\ bridge'.cmds = c2 /\ bridge'.done = "no" /\ nano'.files = nano.files /\ nano'.held = nano.held
        /\ crossed' = crossed
    BY DEF Done
  <2> QED
    BY <1>9, <1>12, <2>1
<1>14. /\ s' = s /\ m' = m /\ crossed <= crossed' /\ nano'.files = nano.files /\ nano'.held = nano.held
  BY <1>1 DEF Done, World
<1> QED
  BY <1>7, <1>13, <1>14, WorldLands

\* The child is done with a command that opened nothing.
LEMMA DoneQuietly ==
  ASSUME NEW ok, bridge.cmds # << >>, bridge.done = "no", ~ok \/ Current.then # "opened",
         ok \/ Current.then # "request",
         bridge'.cmds = Tail(bridge.cmds), bridge'.done = bridge.done,
         bridge'.sid = bridge.sid \/ bridge'.sid = 0,
         bridge.last \in Nat, bridge'.last \in Nat, bridge.last <= bridge'.last,
         \E value : lines' = Answer(ok, value, 0), UNCHANGED <<s, m, asks, nano, crossed>>
  PROVE  Done(ok, 0)
<1>1. /\ bridge.cmds # << >> /\ bridge'.cmds = Tail(bridge.cmds) /\ bridge'.done = "no"
      /\ \E value : lines' = Answer(ok, value, 0)
  OBVIOUS
<1>2. /\ asks' \in {asks, << >>} /\ UNCHANGED <<s, m, crossed>>
      /\ nano'.files = nano.files /\ nano'.held = nano.held
  OBVIOUS
<1>3. bridge.last <= bridge'.last
  OBVIOUS
<1>4. bridge'.sid = bridge.sid \/ bridge'.sid = 0 \/ (bridge'.sid > bridge.last /\ asks' = << >>)
  BY Zenon
<1>5. /\ ok \/ (Current.then = "request" => bridge.done = "error")
      /\ Current.then = "opened" /\ ok => 0 = bridge'.last /\ 0 > bridge.last /\ asks' = << >>
  OBVIOUS
<1> QED
  BY <1>1, <1>2, <1>3, <1>4, <1>5 DEF Done

\* A command of the child is done.
LEMMA ChildLands ==
  ASSUME Landed, Child
  PROVE  Landed'
<1>1. World
  BY AtRest
<1>2. CASE PerformWrite
  BY <1>2, PerformWriteLands
<1>3. CASE AnswerWrite
  <2>0. bridge.cmds # << >>
    BY <1>1, <1>3 DEF World, AnswerWrite
  <2>1. CommandOK(Current, nano.files, bridge.last) /\ Current.op = "write"
    BY <1>1, <1>3, <2>0, AtHead DEF World, AnswerWrite
  <2>2. /\ bridge.live /\ bridge.done # "no" /\ lines' = Answer(bridge.done = "ok", "none", 0)
        /\ bridge' = [bridge EXCEPT !.cmds = Tail(@), !.done = "no"]
        /\ UNCHANGED <<s, m, asks, nano, db, used, crossed>>
    BY <1>3 DEF AnswerWrite
  <2>3. /\ bridge'.cmds = Tail(bridge.cmds) /\ bridge'.done = "no" /\ bridge'.sid = bridge.sid
        /\ bridge'.last = bridge.last /\ bridge'.live = bridge.live /\ DOMAIN bridge' = DOMAIN bridge
    BY <1>1, <2>2 DEF World
  <2>4. World'
    BY <1>1, <2>2, <2>3 DEF World
  <2> DEFINE ok == bridge.done = "ok"
  <2>5. ok \in BOOLEAN /\ (ok \/ bridge.done = "error") /\ Current.then # "opened"
    BY <1>1, <2>1, <2>2 DEF World, CommandOK, Writes
  <2>6. lines' = Answer(ok, "none", 0)
    BY <2>2
  <2> HIDE DEF ok
  <2>7. Done(ok, 0)
    BY <1>1, <2>0, <2>2, <2>3, <2>5, <2>6 DEF Done, World
  <2> QED
    BY <2>4, <2>5, <2>7, DoneLands
<1>4. CASE PerformList
  <2>1. /\ bridge.live /\ bridge.cmds # << >> /\ bridge.done = "no" /\ Current.op = "list"
        /\ UNCHANGED <<s, m, asks, nano, crossed>>
    BY <1>4 DEF PerformList, CanPerform
  <2>2. Current.then \notin {"opened", "request"} /\ bridge.last \in Nat
    BY <1>1, <2>1, AtHead DEF CommandOK, World
  <2>3. PICK ok \in BOOLEAN :
          /\ \E value : lines' = Answer(ok, value, 0)
          /\ \/ bridge' = [bridge EXCEPT !.cmds = Tail(@)]
             \/ bridge' = [bridge EXCEPT !.cmds = Tail(@), !.generation = bridge.generation + 1]
    BY <1>4, Zenon DEF PerformList, Lists
  <2>4. /\ bridge'.cmds = Tail(bridge.cmds) /\ bridge'.done = bridge.done /\ bridge'.sid = bridge.sid
        /\ bridge'.last = bridge.last /\ bridge'.live = bridge.live /\ DOMAIN bridge' = DOMAIN bridge
    BY <1>1, <2>3 DEF World
  <2>5. World'
    BY <1>1, <2>1, <2>4 DEF World
  <2>6. bridge.last <= bridge'.last /\ bridge'.last \in Nat
    BY <2>2, <2>4
  <2>7. Done(ok, 0)
    BY <2>1, <2>2, <2>3, <2>4, <2>6, DoneQuietly
  <2> QED
    BY <2>5, <2>7, DoneLands
<1>5. CASE PerformOpen
  <2>1. bridge.live /\ bridge.cmds # << >> /\ bridge.done = "no" /\ Current.op = "open" /\ UNCHANGED <<s, m, db, crossed>>
    BY <1>5 DEF PerformOpen, CanPerform
  <2>2. Current.then # "request" /\ bridge.last \in Nat
    BY <1>1, <2>1, AtHead DEF CommandOK, World
  <2>3. CASE /\ lines' = Answer(TRUE, "none", bridge.last + 1)
             /\ bridge' = [bridge EXCEPT !.cmds = Tail(@), !.last = bridge.last + 1,
                                         !.sid = bridge.last + 1]
             /\ nano' = [nano EXCEPT !.open = FALSE, !.sending = << >>]
             /\ asks' = << >>
    <3>1. /\ bridge'.cmds = Tail(bridge.cmds) /\ bridge'.done = bridge.done /\ bridge'.sid = bridge.last + 1
          /\ bridge'.last = bridge.last + 1 /\ bridge'.live = bridge.live /\ DOMAIN bridge' = DOMAIN bridge
      BY <1>1, <2>3 DEF World
    <3>2. /\ DOMAIN nano' = DOMAIN nano /\ nano'.files = nano.files /\ nano'.held = nano.held
          /\ nano'.sending = << >>
      BY <1>1, <2>3 DEF World
    <3>3. bridge.last + 1 \in Nat /\ bridge.last + 1 \in 0 .. bridge.last + 1
          /\ bridge.last + 1 > bridge.last /\ bridge.last <= bridge.last + 1
      BY <2>2
    <3>4. World'
      BY <1>1, <2>1, <3>1, <3>2, <3>3 DEF World
    <3>5. Done(TRUE, bridge.last + 1)
      BY <2>1, <2>3, <3>1, <3>2, <3>3 DEF Done
    <3> QED
      BY <3>4, <3>5, DoneLands
  <2>4. CASE /\ lines' = Answer(FALSE, "none", 0)
             /\ bridge' = [bridge EXCEPT !.cmds = Tail(@), !.sid = 0,
                                         !.last = IF Stale THEN @ ELSE bridge.last + 1]
             /\ UNCHANGED <<nano, asks>>
    <3>0. bridge'.last = IF Stale THEN bridge.last ELSE bridge.last + 1
      BY <1>1, <2>4 DEF World
    <3>1. /\ bridge'.cmds = Tail(bridge.cmds) /\ bridge'.done = bridge.done /\ bridge'.sid = 0
          /\ bridge'.live = bridge.live /\ DOMAIN bridge' = DOMAIN bridge
          /\ bridge'.last \in Nat /\ bridge.last <= bridge'.last /\ 0 \in 0 .. bridge'.last
      <4>1. /\ bridge'.cmds = Tail(bridge.cmds) /\ bridge'.done = bridge.done /\ bridge'.sid = 0
            /\ bridge'.live = bridge.live /\ DOMAIN bridge' = DOMAIN bridge
        BY <1>1, <2>4 DEF World
      <4> QED
        BY <2>2, <3>0, <4>1
    <3>2. World'
      BY <1>1, <2>1, <2>4, <3>1 DEF World
    <3> DEFINE ok == FALSE
    <3>3. ~ok /\ ok \in BOOLEAN /\ \E value : lines' = Answer(ok, value, 0)
      BY <2>4
    <3> HIDE DEF ok
    <3>4. UNCHANGED <<s, m, asks, nano, crossed>>
      BY <2>1, <2>4
    <3>5. /\ bridge.last \in Nat /\ (bridge'.sid = bridge.sid \/ bridge'.sid = 0)
          /\ (ok \/ Current.then # "request")
      BY <2>2, <3>1
    <3>6. Done(ok, 0)
      BY <2>1, <3>1, <3>3, <3>4, <3>5, DoneQuietly
    <3> QED
      BY <3>2, <3>3, <3>6, DoneLands
  <2> QED
    BY <1>5, <2>3, <2>4 DEF PerformOpen
<1>6. CASE PerformClose
  <2>1. /\ bridge.live /\ bridge.cmds # << >> /\ bridge.done = "no" /\ Current.op = "close"
        /\ bridge' = [bridge EXCEPT !.cmds = Tail(@), !.sid = IF Current.sid = @ THEN 0 ELSE @]
        /\ UNCHANGED <<s, m, lines, asks, nano, db, used, crossed>>
    BY <1>6 DEF PerformClose, CanPerform
  <2>2. /\ bridge'.cmds = Tail(bridge.cmds) /\ bridge'.done = bridge.done
        /\ bridge'.sid = bridge.sid \/ bridge'.sid = 0
        /\ bridge'.last = bridge.last /\ bridge'.live = bridge.live /\ DOMAIN bridge' = DOMAIN bridge
    BY <1>1, <2>1 DEF World
  <2>3. Current.then = "nothing"
    BY <2>1, AtHead DEF CommandOK
  <2>4. lines' = Answer(TRUE, "none", 0)
    BY <2>1, <2>3 DEF Answer
  <2>5. World'
    BY <1>1, <2>1, <2>2 DEF World
  <2> DEFINE ok == TRUE
  <2>6. ok /\ ok \in BOOLEAN /\ \E value : lines' = Answer(ok, value, 0)
    BY <2>4
  <2>7. bridge.last \in Nat /\ bridge'.last \in Nat /\ bridge.last <= bridge'.last
    BY <1>1, <2>2 DEF World
  <2> HIDE DEF ok
  <2>8. Done(ok, 0)
    BY <2>1, <2>2, <2>3, <2>6, <2>7, DoneQuietly
  <2> QED
    BY <2>5, <2>6, <2>8, DoneLands
<1> QED
  BY <1>2, <1>3, <1>4, <1>5, <1>6 DEF Child

\* A line with a frame, of the session that is open.
DataLine(frame) == [type |-> "data", sid |-> bridge.sid, frame |-> frame]

\* A first chunk answers the ask that is taken.
FrameOK(frame) ==
  /\ LineOK(DataLine(frame), nano.files, nano.held, bridge.last)
  /\ IsChunk(frame) => asks # << >>
  /\ FirstChunk(frame) =>
       /\ asks # << >> /\ asks' = Tail(asks) /\ asks[1].type \in {"directory", "file"}
       /\ frame.kind = asks[1].type /\ frame.data.path = asks[1].path

\* A step of the Nano: it takes an ask or loses them, says a frame, loses the session or
\* holds more; the companion and the commands are as they were.
NanoDoes ==
  /\ UNCHANGED <<s, m, crossed>>
  /\ bridge'.cmds = bridge.cmds /\ bridge'.done = bridge.done /\ bridge'.last = bridge.last
  /\ bridge'.sid = bridge.sid \/ bridge'.sid = 0
  /\ DOMAIN nano.files \subseteq DOMAIN nano'.files /\ nano.held \subseteq nano'.held
  /\ asks' = asks \/ asks' = << >> \/ (asks # << >> /\ asks' = Tail(asks))
  /\ \/ lines' = lines
     \/ bridge.sid # 0 /\ \E frame : FrameOK(frame) /\ lines' = Append(lines, DataLine(frame))

\* Such a step keeps the invariant: a first chunk goes to the place of its ask.
LEMMA NanoDoesLands ==
  ASSUME Landed, World', NanoDoes
  PROVE  Landed'
<1> DEFINE c  == bridge.cmds
           d  == Depth(s, m)
           fl == Failing(c, lines, bridge.done)
           f2 == Failing(c, lines', bridge.done)
           p  == s.pending
<1>1. /\ World /\ Turn(s, m, c, lines) /\ IsSeq(c) /\ IsSeq(lines) /\ IsSeq(asks)
  BY AtRest
<1>2. IsRest(asks', asks) /\ IsRest(c, c) /\ IsRest(lines, lines)
  BY <1>1, RestOfAll, NoneLeft, RestOfHead DEF NanoDoes
<1>3. QueuesOK(s, m, c, lines, asks, bridge.sid, nano.files, nano.held, bridge.last)
  BY <1>1 DEF Turn
<1>4. \/ lines' = lines
      \/ \E e : /\ lines' = Append(lines, e) /\ e.type = "data" /\ e.sid = bridge.sid /\ FrameOK(e.frame)
                /\ LineOK(e, nano.files, nano.held, bridge.last)
  BY DEF NanoDoes, FrameOK, DataLine
<1> HIDE DEF c, d, fl, f2, p
<1>5. /\ QueuesOK(s, m, c, lines', asks, bridge.sid, nano.files, nano.held, bridge.last)
      /\ IsSeq(lines')
      /\ f2 => fl
      /\ crossed < 3 => Ranked(s.sid, p, d, fl, c, lines', asks', bridge.sid, bridge.done, crossed)
  <2>1. crossed < 3 => Ranked(s.sid, p, d, fl, c, lines, asks, bridge.sid, bridge.done, crossed)
    BY <1>1 DEF Turn, PlacesOK, c, d, fl, p
  <2>2. crossed < 3 => Ranked(s.sid, p, d, fl, c, lines, asks', bridge.sid, bridge.done, crossed)
    BY <1>2, <2>1, RankedRest
  <2>3. CASE lines' = lines
    BY <1>1, <1>3, <2>2, <2>3 DEF f2, fl
  <2>4. ASSUME NEW e, lines' = Append(lines, e), e.type = "data", e.sid = bridge.sid, FrameOK(e.frame),
               LineOK(e, nano.files, nano.held, bridge.last)
        PROVE  (QueuesOK(s, m, c, lines', asks, bridge.sid, nano.files, nano.held, bridge.last)
               /\ IsSeq(lines') /\ (f2 => fl)
               /\ (crossed < 3 => Ranked(s.sid, p, d, fl, c, lines', asks', bridge.sid, bridge.done, crossed)))
    <3>1. Sayable(e, s, m, c, lines, asks, bridge.sid)
      BY <2>4 DEF Sayable, FrameOK
    <3>2. QueuesOK(s, m, c, Append(lines, e), asks, bridge.sid, nano.files, nano.held, bridge.last)
      BY <1>3, <2>4, <3>1, QueuesLine
    <3> DEFINE l2 == Append(lines, e)
    <3>3. Grown(l2, lines, e) /\ IsSeq(l2) /\ DOMAIN lines = 1 .. Len(lines)
          /\ DOMAIN l2 = 1 .. Len(l2) /\ Len(lines) \in Nat
      BY <1>1, GrownByOne, SeqFacts
    <3> HIDE DEF l2
    <3>4. \A i \in DOMAIN l2 : (i \in DOMAIN lines /\ l2[i] = lines[i]) \/ l2[i] = e
      BY <3>3 DEF Grown
    <3>5. Failing(c, l2, bridge.done) => Failing(c, lines, bridge.done)
      BY <2>4, <3>4 DEF Failing, Told
    <3>6. CASE ~FirstChunk(e.frame)
      <4>1. \A i : InLines(i, s.sid, l2) => InLines(i, s.sid, lines) /\ l2[i] = lines[i]
        BY <3>4, <3>6 DEF InLines
      <4>2. crossed < 3 => Ranked(s.sid, p, d, fl, c, l2, asks', bridge.sid, bridge.done, crossed)
        BY <2>2, <4>1, RankedSame
      <4> QED
        BY <2>4, <3>2, <3>3, <3>5, <4>2 DEF f2, fl, l2
    <3>7. CASE FirstChunk(e.frame)
      <4>1. /\ asks # << >> /\ asks' = Tail(asks) /\ asks[1].type \in {"directory", "file"}
            /\ e.frame.kind = asks[1].type /\ e.frame.data.path = asks[1].path /\ 1 \in DOMAIN asks
        BY <1>1, <2>4, <3>7, RestOfHead DEF FrameOK
      <4>2. s.sid # 0 /\ e.type = "data" /\ e.sid = s.sid /\ FirstChunk(e.frame) =>
              InAsks(1, s.sid, asks, bridge.sid) /\ e.frame.kind = asks[1].type
              /\ e.frame.data.path = asks[1].path
        BY <2>4, <4>1 DEF InAsks
      <4>3. crossed < 3 => Ranked(s.sid, p, d, fl, c, Append(lines, e), Tail(asks), bridge.sid, bridge.done, crossed)
        BY <1>1, <2>1, <4>1, <4>2, RankedServe
      <4> QED
        BY <2>4, <3>2, <3>3, <3>5, <4>1, <4>3 DEF f2, fl, l2
    <3> QED
      BY <3>6, <3>7
  <2> QED
    BY <1>4, <2>3, <2>4
<1>6. /\ bridge'.sid = bridge.sid \/ bridge'.sid = 0
      /\ bridge.last \in Nat /\ bridge'.sid \in 0 .. bridge.last /\ crossed \in Nat
  BY <1>1 DEF NanoDoes, World
<1>7. QueuesOK(s, m, c, lines', asks', bridge'.sid, nano'.files, nano'.held, bridge.last)
  <2>1. IsRest(lines', lines')
    BY <1>5, RestOfAll
  <2>2. QueuesOK(s, m, c, lines', asks', bridge'.sid, nano.files, nano.held, bridge.last)
    BY <1>2, <1>5, <1>6, <2>1, QueuesShorten
  <2>3. /\ DOMAIN nano.files \subseteq DOMAIN nano'.files /\ nano.held \subseteq nano'.held
        /\ bridge.last <= bridge.last /\ ~(bridge'.sid > bridge.last)
    BY <1>6 DEF NanoDoes
  <2> QED
    BY <1>6, <2>2, <2>3, QueuesWorld
<1>8. crossed < 3 => Ranked(s.sid, p, d, f2, c, lines', asks', bridge'.sid, bridge.done, crossed)
  <2> SUFFICES ASSUME crossed < 3 PROVE Ranked(s.sid, p, d, f2, c, lines', asks', bridge'.sid, bridge.done, crossed)
    OBVIOUS
  <2>1. \A i : InAsks(i, s.sid, asks', bridge'.sid) => InAsks(i, s.sid, asks', bridge.sid) /\ asks'[i] = asks'[i]
    BY <1>6 DEF InAsks
  <2>2. Ranked(s.sid, p, d, fl, c, lines', asks', bridge'.sid, bridge.done, crossed)
    BY <1>5, <2>1, RankedSame
  <2>3. d \in Int /\ d <= d /\ crossed \in Int /\ crossed <= crossed
    BY <1>6, DepthIs DEF d
  <2> QED
    BY <1>5, <2>2, <2>3, RankedStill
<1>9. /\ s' = s /\ m' = m /\ crossed' = crossed /\ bridge'.cmds = c /\ bridge'.done = bridge.done
      /\ bridge'.last = bridge.last
      /\ DOMAIN nano.files \subseteq DOMAIN nano'.files /\ nano.held \subseteq nano'.held
  BY DEF NanoDoes, c
<1>10. /\ QueuesOK(s, m, bridge'.cmds, lines', asks', bridge'.sid, nano'.files, nano'.held, bridge'.last)
       /\ crossed' < 3 => Ranked(s.sid, s.pending, Depth(s, m), Failing(bridge'.cmds, lines', bridge'.done),
                                 bridge'.cmds, lines', asks', bridge'.sid, bridge'.done, crossed')
  BY <1>7, <1>8, <1>9 DEF d, f2, p
<1>11. crossed <= crossed' /\ bridge.last <= bridge'.last
  BY <1>6, <1>9
<1> QED
  BY <1>9, <1>10, <1>11, WorldLands

\* What the Nano transmits is a line, if a session is open.
LEMMA Transmitted ==
  ASSUME NEW frame, bridge.sid # 0 => FrameOK(frame), Transmits(frame)
  PROVE  \/ lines' = lines
         \/ bridge.sid # 0 /\ \E fr : FrameOK(fr) /\ lines' = Append(lines, DataLine(fr))
BY DEF Transmits, DataLine

\* A frame that is no chunk.
LEMMA QuietFrame ==
  ASSUME World, bridge.sid # 0, NEW frame,
         frame = None \/ frame.type \in {"damaged", "request", "time", "info", "notice"}
  PROVE  FrameOK(frame)
<1>1. ~IsChunk(frame)
  BY DEF IsChunk
<1>2. bridge.sid \in 1 .. bridge.last
  BY DEF World
<1>3. DataLine(frame).type = "data" /\ DataLine(frame).sid = bridge.sid /\ DataLine(frame).frame = frame
  BY DEF DataLine
<1> QED
  BY <1>1, <1>2, <1>3 DEF FrameOK, LineOK, FirstChunk

\* A chunk.
LEMMA ChunkFrame ==
  ASSUME World, bridge.sid # 0, asks # << >>,
         NEW frame, frame # None, frame.type = "chunk", frame.kind \in {"directory", "file"},
         frame.seq \in Nat, frame.outcome \in Nat, frame.outcome = 0 <=> frame.seq # 0,
         frame.outcome = 0 => DataOK(frame.kind, frame.data, nano.files, nano.held),
         frame.seq <= 1 => /\ asks' = Tail(asks) /\ frame.kind = asks[1].type
                           /\ frame.data.path = asks[1].path
  PROVE  FrameOK(frame)
<1>1. bridge.sid \in 1 .. bridge.last
  BY DEF World
<1>2. DataLine(frame).type = "data" /\ DataLine(frame).sid = bridge.sid /\ DataLine(frame).frame = frame
  BY DEF DataLine
<1>3. LineOK(DataLine(frame), nano.files, nano.held, bridge.last)
  BY <1>1, <1>2 DEF LineOK
<1> QED
  BY <1>3 DEF FrameOK, FirstChunk

\* The Nano is as it was but for what it sends, a thing it holds or held.
Sending(kind, data) ==
  /\ DOMAIN nano' = DOMAIN nano /\ nano'.files = nano.files /\ nano'.held = nano.held
  /\ \/ nano'.sending = << >>
     \/ nano'.sending = nano.sending
     \/ /\ nano'.sending # << >> /\ nano'.sending[1].kind = kind /\ nano'.sending[1].data = data
        /\ nano'.sending[1].seq \in Nat \ {0}

\* What the Nano sends is a thing it holds or held.
LEMMA WorldSends ==
  ASSUME World, UNCHANGED <<bridge, crossed>>, NEW kind \in {"directory", "file"}, NEW data,
         DataOK(kind, data, nano.files, nano.held), Sending(kind, data)
  PROVE  World'
BY DEF World, Sending

\* The n-th chunk of a thing the Nano holds or held.
LEMMA ChunkIs ==
  ASSUME NEW kind, NEW n \in Nat, NEW data
  PROVE  /\ ChunkOf(kind, n, data) # None
         /\ ChunkOf(kind, n, data).type = "chunk" /\ ChunkOf(kind, n, data).kind = kind
         /\ ChunkOf(kind, n, data).seq = n /\ ChunkOf(kind, n, data).data = data
         /\ ChunkOf(kind, n, data).outcome = 0
BY DEF ChunkOf, None

\* A chunk is transmitted, and the next will be of the same thing.
LEMMA SendsFrom ==
  ASSUME World, asks # << >>, UNCHANGED <<bridge, crossed>>,
         NEW kind \in {"directory", "file"}, NEW n \in Nat \ {0}, NEW data,
         DataOK(kind, data, nano.files, nano.held), SendFrom(kind, n, data),
         n = 1 => asks' = Tail(asks) /\ kind = asks[1].type /\ data.path = asks[1].path
  PROVE  /\ World' /\ nano'.files = nano.files /\ nano'.held = nano.held
         /\ \/ lines' = lines
            \/ bridge.sid # 0 /\ \E frame : FrameOK(frame) /\ lines' = Append(lines, DataLine(frame))
<1> DEFINE chunk == ChunkOf(kind, n, data)
<1>1. /\ Transmits(chunk)
      /\ nano' = [nano EXCEPT !.sending = IF n = ChunksOf(kind, data) THEN << >>
                                          ELSE << [kind |-> kind, seq |-> n, data |-> data] >>]
  BY DEF SendFrom
<1>2. /\ chunk # None /\ chunk.type = "chunk" /\ chunk.kind = kind /\ chunk.seq = n /\ chunk.data = data
      /\ chunk.outcome = 0
  BY ChunkIs
<1> HIDE DEF chunk
<1>3. bridge.sid # 0 => FrameOK(chunk)
  BY <1>2, ChunkFrame
<1>4. Sending(kind, data)
  BY <1>1 DEF Sending, World
<1> QED
  BY <1>1, <1>3, <1>4, Transmitted, WorldSends DEF Sending

\* An ask that is heard.
LEMMA AskHead ==
  ASSUME Landed, asks # << >>
  PROVE  IsSeq(asks) /\ Head(asks) = asks[1] /\ AskOK(asks[1], nano.files)
<1>1. Turn(s, m, bridge.cmds, lines) /\ IsSeq(asks)
  BY AtRest
<1>2. Head(asks) = asks[1] /\ 1 \in DOMAIN asks
  BY <1>1, RestOfHead
<1> QED
  BY <1>1, <1>2 DEF Turn, QueuesOK

\* A step of the Nano that changes neither what it holds nor the child's session.
Replies ==
  /\ World'
  /\ nano'.files = nano.files /\ nano'.held = nano.held
  /\ \/ lines' = lines
     \/ bridge.sid # 0 /\ \E frame : FrameOK(frame) /\ lines' = Append(lines, DataLine(frame))

\* The Nano holds what it held, and goes on sending or gives it up.
LEMMA WorldSame ==
  ASSUME World, UNCHANGED <<bridge, crossed>>,
         DOMAIN nano' = DOMAIN nano, nano'.files = nano.files, nano'.held = nano.held,
         nano'.sending = nano.sending \/ nano'.sending = << >>
  PROVE  World'
BY DEF World

\* The time and the information are read.
LEMMA ServesTime ==
  ASSUME World, UNCHANGED <<bridge, crossed>>, NEW q, ServeTime(q) \/ ServeInfo(q)
  PROVE  Replies
<1>1. CASE ServeTime(q)
  <2> DEFINE frame == [type |-> "time", seed |-> q.seed, at |-> q.at]
  <2>1. Transmits(frame) /\ nano' = [nano EXCEPT !.open = TRUE] /\ frame.type = "time"
    BY <1>1 DEF ServeTime
  <2> HIDE DEF frame
  <2>2. bridge.sid # 0 => FrameOK(frame)
    BY <2>1, QuietFrame
  <2>3. World' /\ nano'.files = nano.files /\ nano'.held = nano.held
    BY <2>1, WorldSame DEF World
  <2> QED
    BY <2>1, <2>2, <2>3, Transmitted DEF Replies
<1>2. CASE ServeInfo(q)
  <2> DEFINE frame == [type |-> "info", seed |-> q.seed, code |-> q.code,
                       value |-> IF nano.locked THEN "locked" ELSE "free"]
  <2>1. Transmits(frame) /\ nano' = nano /\ frame.type = "info"
    BY <1>2 DEF ServeInfo
  <2> HIDE DEF frame
  <2>2. bridge.sid # 0 => FrameOK(frame)
    BY <2>1, QuietFrame
  <2>3. World' /\ nano'.files = nano.files /\ nano'.held = nano.held
    BY <2>1, WorldSame DEF World
  <2> QED
    BY <2>1, <2>2, <2>3, Transmitted DEF Replies
<1> QED
  BY <1>1, <1>2

\* A listing or a log is begun, refused, or, a listing, spoilt.
LEMMA ServesTransfer ==
  ASSUME World, UNCHANGED <<bridge, crossed>>, asks # << >>, asks' = Tail(asks),
         AskOK(asks[1], nano.files), ServeTransfer(asks[1])
  PROVE  Replies
<1> DEFINE q    == asks[1]
           data == IF q.type = "directory" THEN Listing(q.path) ELSE FileData(q.path)
           no   == [ChunkOf(q.type, 0, data) EXCEPT !.outcome = 103]
           bad  == [ChunkOf(q.type, 1, data) EXCEPT !.malformed = TRUE]
<1>1. /\ q.type \in {"directory", "file"}
      /\ \/ Transmits(no) /\ nano' = nano
         \/ SendFrom(q.type, 1, data)
         \/ Transmits(bad) /\ nano' = nano
  BY DEF ServeTransfer
<1>2. data.path = q.path
  BY DEF Listing, FileData
<1>3. DataOK(q.type, data, nano.files, nano.held)
  <2>1. CASE q.type = "directory"
    BY <2>1 DEF DataOK, Listing
  <2>2. CASE q.type = "file"
    <3>1. q.path \in DOMAIN nano.files
      BY <2>2 DEF AskOK
    <3> QED
      BY <2>2, <3>1 DEF DataOK, FileData, World
  <2> QED
    BY <1>1, <2>1, <2>2
<1> HIDE DEF data
<1>4. /\ no # None /\ no.type = "chunk" /\ no.kind = q.type /\ no.seq = 0 /\ no.data = data /\ no.outcome = 103
      /\ bad # None /\ bad.type = "chunk" /\ bad.kind = q.type /\ bad.seq = 1 /\ bad.data = data /\ bad.outcome = 0
  BY DEF ChunkOf, None
<1> HIDE DEF no, bad, q
<1>5. q = asks[1]
  BY DEF q
<1>6. ASSUME NEW frame \in {no, bad}, Transmits(frame), nano' = nano
      PROVE  Replies
  <2>1. /\ frame # None /\ frame.type = "chunk" /\ frame.kind = asks[1].type /\ frame.seq \in Nat
        /\ frame.outcome \in Nat /\ (frame.outcome = 0 <=> frame.seq # 0)
        /\ frame.data.path = asks[1].path /\ frame.kind \in {"directory", "file"}
        /\ DataOK(frame.kind, frame.data, nano.files, nano.held)
    BY <1>1, <1>2, <1>3, <1>4, <1>5, <1>6
  <2>2. bridge.sid # 0 => FrameOK(frame)
    BY <2>1, ChunkFrame
  <2>3. World' /\ nano'.files = nano.files /\ nano'.held = nano.held
    BY <1>6, WorldSame
  <2> QED
    BY <1>6, <2>2, <2>3, Transmitted DEF Replies
<1>7. CASE SendFrom(q.type, 1, data)
  <2> DEFINE kind == q.type
             n    == 1
  <2>1. /\ kind \in {"directory", "file"} /\ n \in Nat \ {0} /\ SendFrom(kind, n, data)
        /\ DataOK(kind, data, nano.files, nano.held)
        /\ kind = asks[1].type /\ data.path = asks[1].path
    BY <1>1, <1>2, <1>3, <1>5, <1>7
  <2> HIDE DEF kind, n
  <2> QED
    BY <2>1, SendsFrom DEF Replies
<1> QED
  BY <1>1, <1>6, <1>7

\* The next chunk is brought.
LEMMA ServesAck ==
  ASSUME World, UNCHANGED <<bridge, crossed>>, asks # << >>, NEW q, ServeAck(q)
  PROVE  Replies
<1>1. CASE nano.sending = << >>
  <2>1. nano' = nano /\ lines' = lines
    BY <1>1 DEF ServeAck
  <2> QED
    BY <2>1, WorldSame DEF Replies
<1>2. CASE nano.sending # << >>
  <2> DEFINE c == nano.sending[1]
  <2>1. SendFrom(c.kind, c.seq + 1, c.data)
    BY <1>2 DEF ServeAck
  <2>2. /\ c.kind \in {"directory", "file"} /\ c.seq \in Nat \ {0}
        /\ DataOK(c.kind, c.data, nano.files, nano.held)
    BY <1>2 DEF World
  <2> HIDE DEF c
  <2>3. c.seq + 1 \in Nat \ {0} /\ c.seq + 1 # 1
    BY <2>2
  <2> QED
    BY <2>1, <2>2, <2>3, SendsFrom DEF Replies
<1> QED
  BY <1>1, <1>2

\* The Nano takes what was asked next.
LEMMA ServeLands ==
  ASSUME Landed, Serve
  PROVE  Landed' /\ nano'.held = nano.held
<1>1. World
  BY AtRest
<1>2. /\ asks # << >> /\ asks' = Tail(asks) /\ UNCHANGED <<s, m, bridge, db, crossed>>
      /\ \/ ServeTime(asks[1]) \/ ServeInfo(asks[1]) \/ ServeTransfer(asks[1]) \/ ServeAck(asks[1])
         \/ UNCHANGED <<nano, lines, used>>
  BY AskHead DEF Serve
<1>3. AskOK(asks[1], nano.files)
  BY <1>2, AskHead
<1>4. Replies
  <2>1. CASE UNCHANGED <<nano, lines, used>>
    BY <1>1, <1>2, <2>1, WorldSame DEF Replies
  <2>2. CASE ServeTime(asks[1]) \/ ServeInfo(asks[1])
    BY <1>1, <1>2, <2>2, ServesTime
  <2>3. CASE ServeTransfer(asks[1])
    BY <1>1, <1>2, <1>3, <2>3, ServesTransfer
  <2>4. CASE ServeAck(asks[1])
    BY <1>1, <1>2, <2>4, ServesAck
  <2> QED
    BY <1>2, <2>1, <2>2, <2>3, <2>4
<1> QED
  BY <1>2, <1>4, NanoDoesLands DEF Replies, NanoDoes

\* What the Nano says of its own accord.
LEMMA Spontaneous ==
  ASSUME World, NEW frame, Transmits(frame) \/ lines' = lines,
         frame = None \/ frame.type \in {"damaged", "request", "time", "info", "notice"}
  PROVE  \/ lines' = lines
         \/ bridge.sid # 0 /\ \E fr : FrameOK(fr) /\ lines' = Append(lines, DataLine(fr))
BY QuietFrame, Transmitted

\* A roast ends with a log, which the Nano holds from now on.
LEMMA RoastEndsLands ==
  ASSUME Landed, RoastEnds
  PROVE  Landed' /\ nano.held \subseteq nano'.held
<1>1. World
  BY AtRest
<1>2. PICK w \in Written :
        nano' = [nano EXCEPT !.locked = FALSE, !.held = nano.held \cup {w},
                   !.files = [p \in DOMAIN nano.files \cup {w[1]} |-> IF p = w[1] THEN w[2] ELSE nano.files[p]]]
  BY DEF RoastEnds
<1>3. UNCHANGED <<s, m, bridge, asks, db, crossed>> /\ Notifies("free")
  BY DEF RoastEnds
<1>4. w = <<w[1], w[2]>> /\ w[1] \in Log
  BY NanoSyncAssumption
<1> DEFINE f2 == [p \in DOMAIN nano.files \cup {w[1]} |-> IF p = w[1] THEN w[2] ELSE nano.files[p]]
<1>5. /\ nano'.held = nano.held \cup {w} /\ nano'.files = f2 /\ nano'.sending = nano.sending
      /\ DOMAIN nano' = DOMAIN nano
  BY <1>1, <1>2 DEF World
<1>6. DOMAIN f2 = DOMAIN nano.files \cup {w[1]}
  OBVIOUS
<1>7. \A p \in DOMAIN f2 : <<p, f2[p]>> \in nano.held \cup {w}
  BY <1>1, <1>4 DEF World
<1> HIDE DEF f2
<1>8. DOMAIN nano.files \subseteq DOMAIN nano'.files /\ nano.held \subseteq nano'.held
  BY <1>5, <1>6
<1>9. World'
  <2>1. DOMAIN nano'.files \subseteq Log /\ \A p \in DOMAIN nano'.files : <<p, nano'.files[p]>> \in nano'.held
    BY <1>1, <1>4, <1>5, <1>6, <1>7 DEF World
  <2>2. nano.sending # << >> =>
          DataOK(nano.sending[1].kind, nano.sending[1].data, nano'.files, nano'.held)
    BY <1>1, <1>8 DEF World, DataOK
  <2> QED
    BY <1>1, <1>3, <1>5, <2>1, <2>2 DEF World
<1>10. \/ lines' = lines
       \/ bridge.sid # 0 /\ \E fr : FrameOK(fr) /\ lines' = Append(lines, DataLine(fr))
  <2> DEFINE frame == [type |-> "notice", seed |-> nano.seed, value |-> "free"]
  <2>1. (Transmits(frame) \/ lines' = lines) /\ frame.type = "notice"
    BY <1>3 DEF Notifies
  <2> HIDE DEF frame
  <2> QED
    BY <1>1, <2>1, Spontaneous
<1> QED
  BY <1>3, <1>8, <1>9, <1>10, NanoDoesLands DEF NanoDoes

\* The Nano begins to negotiate, locks its file system, is disturbed, restarts, is pulled
\* out or plugged in.
NanoAlone == NanoRequest \/ Roast \/ Damage \/ Restart \/ Unplug \/ Plug

\* None of these touches a file, a command or what is filed.
LEMMA NanoAloneLands ==
  ASSUME Landed, NanoAlone
  PROVE  Landed' /\ nano'.held = nano.held /\ db' = db /\ crossed' = crossed
<1>1. World
  BY AtRest
<1>2. /\ UNCHANGED <<s, m, db, crossed>>
      /\ nano' = nano \/ nano' = [nano EXCEPT !.locked = TRUE] \/ nano' = [nano EXCEPT !.plugged = TRUE]
         \/ nano' = [nano EXCEPT !.open = FALSE, !.seed = 3 - @, !.locked = FALSE, !.sending = << >>]
         \/ nano' = [nano EXCEPT !.plugged = FALSE, !.open = FALSE, !.sending = << >>]
      /\ bridge' = bridge \/ bridge' = [bridge EXCEPT !.sid = 0]
      /\ asks' = asks \/ asks' = << >>
  BY DEF NanoAlone, NanoRequest, Roast, Damage, Restart, Unplug, Plug
<1>3. \E frame : /\ Transmits(frame) \/ lines' = lines
                 /\ frame = None \/ frame.type \in {"damaged", "request", "time", "info", "notice"}
  <2>1. CASE NanoRequest
    <3> DEFINE frame == [type |-> "request", seed |-> nano.seed, supported |-> TRUE]
    <3>1. Transmits(frame) /\ frame.type = "request"
      BY <2>1 DEF NanoRequest
    <3> HIDE DEF frame
    <3> QED
      BY <3>1
  <2>2. CASE Roast
    <3> DEFINE frame == [type |-> "notice", seed |-> nano.seed, value |-> "locked"]
    <3>1. (Transmits(frame) \/ lines' = lines) /\ frame.type = "notice"
      BY <2>2 DEF Roast, Notifies
    <3> HIDE DEF frame
    <3> QED
      BY <3>1
  <2>3. CASE Damage
    <3> DEFINE frame == Frame("damaged")
    <3>1. Transmits(frame) /\ frame.type = "damaged"
      BY <2>3 DEF Damage, Frame
    <3> HIDE DEF frame
    <3> QED
      BY <3>1
  <2>4. CASE Unplug
    BY <2>4 DEF Unplug
  <2>5. CASE Restart \/ Plug
    <3>1. lines' = lines
      BY <2>5 DEF Restart, Plug
    <3> QED
      BY <3>1
  <2> QED
    BY <2>1, <2>2, <2>3, <2>4, <2>5 DEF NanoAlone
<1>4. \/ lines' = lines
      \/ bridge.sid # 0 /\ \E fr : FrameOK(fr) /\ lines' = Append(lines, DataLine(fr))
  BY <1>1, <1>3, Spontaneous
<1>5. /\ DOMAIN nano' = DOMAIN nano /\ nano'.files = nano.files /\ nano'.held = nano.held
      /\ nano'.sending = nano.sending \/ nano'.sending = << >>
  BY <1>1, <1>2 DEF World
<1>6. /\ DOMAIN bridge' = DOMAIN bridge /\ bridge'.cmds = bridge.cmds /\ bridge'.done = bridge.done
      /\ bridge'.last = bridge.last /\ bridge'.live = bridge.live
      /\ bridge'.sid = bridge.sid \/ bridge'.sid = 0
  BY <1>1, <1>2 DEF World
<1>7. World'
  BY <1>1, <1>2, <1>5, <1>6 DEF World
<1>8. NanoDoes
  BY <1>2, <1>4, <1>5, <1>6 DEF NanoDoes
<1> QED
  BY <1>2, <1>5, <1>7, <1>8, NanoDoesLands

-----------------------------------------------------------------------------
(* The specification.                                                      *)

\* The companion before it has looked for a port.
LEMMA InitLands ==
  ASSUME Init
  PROVE  Inv
<1>1. /\ s = FirstSession /\ m = FirstManager /\ lines = << >> /\ asks = << >>
      /\ bridge = [live |-> TRUE, generation |-> 0, sid |-> 0, last |-> 0, cmds |-> << >>, done |-> "no"]
      /\ nano = FirstNano /\ db = EmptyDatabase /\ crossed = 0
  BY DEF Init, FirstBridge
<1>2. /\ DOMAIN s = SessionFields /\ s.sid = 0 /\ s.pending = None /\ s.settled = Silence
      /\ s.out = << >> /\ s.conn = "disconnected"
  BY <1>1 DEF FirstSession, SessionFields
<1>3. s.timer = FALSE /\ s.writing = FALSE /\ ~s.told
  BY <1>1 DEF FirstSession
<1>4. /\ DOMAIN m = ManagerFields /\ m.stage = "none" /\ m.logs = {} /\ m.of = "none"
      /\ m.scan = "none" /\ m.opening = 0 /\ m.conn = "disconnected"
  BY <1>1 DEF FirstManager, ManagerFields
<1>5. ~IsTransfer(s.pending) /\ PendingOK(s.pending)
  BY <1>2 DEF IsTransfer, None, PendingOK
<1>6. HostOK(s, m)
  <2>1. s.writing \in BOOLEAN /\ s.timer \in BOOLEAN
    BY <1>3, Zenon
  <2>2. SettledOK(s.settled)
    BY <1>2 DEF SettledOK
  <2>3. Shape(s, m)
    BY <1>2, <1>4, <1>5, <2>1, <2>2 DEF Shape
  <2>4. Talk(s, m) /\ Link(s, m)
    BY <1>2, <1>3, <1>4, <1>5 DEF Talk, Link
  <2> QED
    BY <2>3, <2>4 DEF HostOK
<1>7. QueuesOK(s, m, << >>, << >>, << >>, 0, nano.files, nano.held, 0)
  BY <1>4, QueuesEmpty
<1>8. PlacesOK(s, m, << >>, << >>, << >>, 0, "no", crossed)
  <2>1. \A i : ~InLines(i, 0, << >>) /\ ~InAsks(i, 0, << >>, 0) /\ ~InCommands(i, 0, << >>, "no")
    BY DEF InLines, InAsks, InCommands
  <2> QED
    BY <1>2, <2>1, RankedNone DEF PlacesOK
<1>9. /\ GotOK(s, m, nano.files, nano.held, crossed)
      /\ ReadOK(s, m, nano.files, nano.held, crossed)
  BY <1>2, <1>5 DEF GotOK, ReadOK
<1>10. /\ bridge.cmds = << >> /\ bridge.sid = 0 /\ bridge.last = 0 /\ bridge.done = "no"
       /\ DOMAIN bridge = {"live", "generation", "sid", "last", "cmds", "done"} /\ bridge.live
  BY <1>1
<1>11. Turn(s, m, bridge.cmds, lines)
  BY <1>1, <1>2, <1>4, <1>6, <1>7, <1>8, <1>9, <1>10 DEF Turn
<1>12. World
  <2>1. /\ nano.files = FirstFiles /\ nano.sending = << >>
        /\ nano.held = {<<p, FirstFiles[p]>> : p \in DOMAIN FirstFiles}
        /\ DOMAIN nano = {"plugged", "open", "seed", "locked", "files", "sending", "held"}
    BY <1>1 DEF FirstNano
  <2>2. DOMAIN nano.files \subseteq Log /\ \A p \in DOMAIN nano.files : <<p, nano.files[p]>> \in nano.held
    BY <2>1, NanoSyncAssumption
  <2> QED
    BY <1>1, <1>10, <2>1, <2>2 DEF World
<1>13. DOMAIN db = DatabaseFields /\ Attributed
  BY <1>1 DEF EmptyDatabase, DatabaseFields, Attributed
<1> QED
  BY <1>2, <1>3, <1>11, <1>12, <1>13 DEF Inv, DatabaseFields

\* What is filed stays what the Nano held while nothing is filed.
LEMMA FiledStill ==
  ASSUME Attributed, db' = db, nano.held \subseteq nano'.held,
         crossed \in Nat, crossed' = crossed \/ crossed' = crossed + 1
  PROVE  Attributed'
<1>1. crossed' < 3 => crossed < 3
  OBVIOUS
<1>2. db'.files = db.files
  OBVIOUS
<1> QED
  BY <1>1, <1>2 DEF Attributed

\* Every step, one lemma each.
LEMMA NextLands ==
  ASSUME Inv, [Next]_vars
  PROVE  Inv'
<1>1. Landed /\ DOMAIN db = DatabaseFields /\ Attributed /\ crossed \in Nat
  BY DEF Inv, Landed, DatabaseFields, World
<1>2. CASE Resume
  <2>1. Landed' /\ (DOMAIN db = DatabaseFields)' /\ Attributed'
    BY <1>1, <1>2, ResumeLands
  <2> QED
    BY <2>1 DEF Inv, Landed, DatabaseFields
<1> DEFINE Filed == /\ db' = db /\ nano.held \subseteq nano'.held
                    /\ crossed' = crossed \/ crossed' = crossed + 1
<1>3. ASSUME Landed', Filed PROVE Inv'
  <2>1. Attributed'
    BY <1>1, <1>3, FiledStill
  <2>2. (DOMAIN db = DatabaseFields)'
    BY <1>1, <1>3
  <2> QED
    BY <1>3, <2>1, <2>2 DEF Inv, Landed, DatabaseFields
<1> HIDE DEF Filed
<1>4. CASE ReadLine
  BY <1>1, <1>3, <1>4, ReadLineLands DEF ReadLine, Filed
<1>5. CASE OpenReturns
  BY <1>1, <1>3, <1>5, OpenReturnsLands DEF OpenReturns, Filed
<1>6. CASE Scan
  BY <1>1, <1>3, <1>6, ScanLands DEF Scan, Filed
<1>7. CASE AskToSync
  BY <1>1, <1>3, <1>7, AskToSyncLands DEF AskToSync, Filed
<1>8. CASE Stop
  BY <1>1, <1>3, <1>8, StopLands DEF Stop, Filed
<1>9. CASE RequestTimeout
  BY <1>1, <1>3, <1>9, RequestTimeoutLands DEF RequestTimeout, Filed
<1>10. CASE CommandTimeout
  BY <1>1, <1>3, <1>10, CommandTimeoutLands DEF CommandTimeout, Filed
<1>11. CASE BridgeExits
  BY <1>1, <1>3, <1>11, BridgeExitsLands DEF BridgeExits, Filed
<1>12. CASE Child
  <2>1. Landed'
    BY <1>1, <1>12, ChildLands
  <2>2. CASE PerformOpen
    <3>1. db' = db /\ crossed' = crossed
      BY <2>2 DEF PerformOpen
    <3>2. nano' = nano \/ nano' = [nano EXCEPT !.open = FALSE, !.sending = << >>]
      BY <2>2 DEF PerformOpen
    <3>3. nano'.held = nano.held
      BY <1>1, <3>2 DEF Landed, World
    <3> QED
      BY <1>3, <2>1, <3>1, <3>3 DEF Filed
  <2>3. CASE PerformWrite
    <3>1. db' = db /\ nano' = nano /\ (crossed' = crossed \/ crossed' = crossed + 1)
      BY <2>3 DEF PerformWrite
    <3> QED
      BY <1>3, <2>1, <3>1 DEF Filed
  <2>4. CASE AnswerWrite \/ PerformList \/ PerformClose
    <3>1. db' = db /\ nano' = nano /\ crossed' = crossed
      BY <2>4 DEF AnswerWrite, PerformList, PerformClose
    <3> QED
      BY <1>3, <2>1, <3>1 DEF Filed
  <2> QED
    BY <1>12, <2>2, <2>3, <2>4 DEF Child
<1>13. CASE Serve
  <2>1. Landed' /\ Filed
    BY <1>1, <1>13, ServeLands DEF Serve, Filed
  <2> QED
    BY <1>3, <2>1
<1>14. CASE RoastEnds
  <2>1. Landed' /\ Filed
    BY <1>1, <1>14, RoastEndsLands DEF RoastEnds, Filed
  <2> QED
    BY <1>3, <2>1
<1>15. CASE NanoAlone
  <2>1. Landed' /\ Filed
    BY <1>1, <1>15, NanoAloneLands DEF Filed
  <2> QED
    BY <1>3, <2>1
<1>16. CASE UNCHANGED vars
  <2>1. Inv' <=> Inv
    BY <1>16 DEF vars, Inv, Turn, World, Attributed
  <2> QED
    BY <2>1
<1> QED
  BY <1>2, <1>4, <1>5, <1>6, <1>7, <1>8, <1>9, <1>10, <1>11, <1>12, <1>13, <1>14, <1>15, <1>16
     DEF Next, Host, NanoAlone

\* The inductive invariant: the host and the child agree on what was asked, and what is
\* on its way is numbered.
THEOREM Invariant == Spec => []Inv
BY InitLands, NextLands, PTL DEF Spec

\* What the companion files under a path is what the Nano held there at some time,
\* unless three requests reported as failed had reached the Nano: for any logs, any
\* number of sessions, faults and roasts.
THEOREM FilesAttributed == Spec => []Attributed
<1>1. Inv => Attributed
  BY DEF Inv
<1> QED
  BY <1>1, Invariant, PTL

\* A synchronisation works on the listing it asked for, unless a request reported as
\* failed had reached the Nano.
THEOREM ListingsAreOwn == Spec => []ListingIsOwn
<1>1. Inv => ListingIsOwn
  BY DEF Inv, Turn, World, ListingIsOwn
<1> QED
  BY <1>1, Invariant, PTL

-----------------------------------------------------------------------------
(* Ports are opened by the list they were found in.                        *)

\* The listing of ports that was answered.
IsFound(line) == line.type = "response" /\ line.then = "listed" /\ line.ok

\* A port to open is of the last list, and none is listed before it is opened; a list
\* whose answer is awaited is the last, and so is one whose answer is on its way.
OfOneList(c, ls, g) ==
  /\ \A i \in DOMAIN c : c[i].op = "open" => c[i].frame.generation = g
  /\ \A i, j \in DOMAIN c : c[i].op = "list" /\ c[j].op = "open" => j < i
  /\ \A i, j \in DOMAIN c : c[i].op = "list" /\ c[i].then = "listed" /\ c[j].op = "list" => j <= i
  /\ \A k \in DOMAIN ls : IsFound(ls[k]) =>
       ls[k].value.generation = g /\ \A i \in DOMAIN c : c[i].op # "list"

\* Nothing is listed or opened by these commands.
Harmless(q) == IsSeq(q) /\ \A i \in DOMAIN q : q[i].op \notin {"list", "open"}

\* Of c2, what lists and opens was in c: some were taken from its head, harmless ones
\* added to its end, and answers may be awaited no more.
NoneNew(c, c2) ==
  \E k \in Nat : \A i \in DOMAIN c2 : c2[i].op \in {"list", "open"} =>
    /\ i \in Nat /\ i + k \in DOMAIN c /\ i + k \in Nat
    /\ c2[i].op = c[i + k].op /\ c2[i].frame = c[i + k].frame
    /\ c2[i].then = "listed" => c[i + k].then = "listed"

\* Of ls2, the listings of ports were in ls.
NoneFound(ls, ls2) ==
  \A k \in DOMAIN ls2 : IsFound(ls2[k]) => \E j \in DOMAIN ls : ls2[k] = ls[j]

\* What is taken, and what is harmless, leaves the ports of one list.
LEMMA OneListStill ==
  ASSUME NEW c, NEW ls, NEW g, OfOneList(c, ls, g),
         NEW c2, NoneNew(c, c2), NEW ls2, NoneFound(ls, ls2)
  PROVE  OfOneList(c2, ls2, g)
<1>1. PICK k \in Nat : \A i \in DOMAIN c2 : c2[i].op \in {"list", "open"} =>
        /\ i \in Nat /\ i + k \in DOMAIN c /\ i + k \in Nat
        /\ c2[i].op = c[i + k].op /\ c2[i].frame = c[i + k].frame
        /\ c2[i].then = "listed" => c[i + k].then = "listed"
  BY DEF NoneNew
<1>2. ASSUME NEW i \in DOMAIN c2, c2[i].op = "open" PROVE c2[i].frame.generation = g
  BY <1>1, <1>2 DEF OfOneList
<1>3. ASSUME NEW i \in DOMAIN c2, NEW j \in DOMAIN c2, c2[i].op = "list", c2[j].op = "open" PROVE j < i
  <2>1. j + k < i + k
    BY <1>1, <1>3 DEF OfOneList
  <2> QED
    BY <1>1, <1>3, <2>1
<1>4. ASSUME NEW i \in DOMAIN c2, NEW j \in DOMAIN c2, c2[i].op = "list", c2[i].then = "listed", c2[j].op = "list"
      PROVE  j <= i
  <2>1. j + k <= i + k
    BY <1>1, <1>4 DEF OfOneList
  <2> QED
    BY <1>1, <1>4, <2>1
<1>5. ASSUME NEW n \in DOMAIN ls2, IsFound(ls2[n])
      PROVE  ls2[n].value.generation = g /\ \A i \in DOMAIN c2 : c2[i].op # "list"
  <2>1. PICK j \in DOMAIN ls : ls2[n] = ls[j]
    BY <1>5 DEF NoneFound
  <2>2. ls[j].value.generation = g /\ \A i \in DOMAIN c : c[i].op # "list"
    BY <1>5, <2>1 DEF OfOneList
  <2> QED
    BY <1>1, <2>1, <2>2
<1> QED
  BY <1>2, <1>3, <1>4, <1>5 DEF OfOneList

\* Commands taken from the head, or added to the end.
LEMMA NoneNewTail ==
  ASSUME NEW c, IsSeq(c), c # << >>
  PROVE  NoneNew(c, Tail(c))
<1>1. /\ Len(c) \in Nat /\ DOMAIN c = 1 .. Len(c) /\ DOMAIN Tail(c) = 1 .. Len(c) - 1
      /\ \A i \in 1 .. Len(c) - 1 : Tail(c)[i] = c[i + 1]
  BY RestOfHead, SeqFacts
<1> DEFINE t == Tail(c)
<1>2. DOMAIN t = 1 .. Len(c) - 1 /\ \A i \in 1 .. Len(c) - 1 : t[i] = c[i + 1]
  BY <1>1
<1> HIDE DEF t
<1>3. \A i \in DOMAIN t : i \in Nat /\ i + 1 \in Nat /\ i + 1 \in DOMAIN c /\ t[i] = c[i + 1]
  BY <1>1, <1>2
<1>4. NoneNew(c, t)
  BY <1>3 DEF NoneNew
<1> QED
  BY <1>4 DEF t

\* Commands that stay.
LEMMA NoneNewSame ==
  ASSUME NEW c, IsSeq(c)
  PROVE  NoneNew(c, c)
<1>1. \A i \in DOMAIN c : i \in Nat /\ i + 0 = i
  BY SeqFacts
<1> QED
  BY <1>1 DEF NoneNew

\* Harmless commands added to the end.
LEMMA NoneNewAdded ==
  ASSUME NEW c, IsSeq(c), NEW q, Harmless(q)
  PROVE  NoneNew(c, c \o q) /\ IsSeq(c \o q)
<1>1. PICK S : c \in Seq(S)
  BY DEF IsSeq
<1>2. PICK T : q \in Seq(T)
  BY DEF Harmless, IsSeq
<1>3. c \in Seq(S \cup T) /\ q \in Seq(S \cup T)
  BY <1>1, <1>2
<1>4. /\ c \o q \in Seq(S \cup T) /\ Len(c) \in Nat /\ Len(q) \in Nat /\ DOMAIN c = 1 .. Len(c)
      /\ DOMAIN q = 1 .. Len(q) /\ Len(c \o q) = Len(c) + Len(q)
      /\ \A i \in 1 .. Len(c) + Len(q) :
           (c \o q)[i] = IF i <= Len(c) THEN c[i] ELSE q[i - Len(c)]
  BY <1>3
<1> DEFINE r == c \o q
<1>5. DOMAIN r = 1 .. Len(c) + Len(q)
  BY <1>4
<1>6. \A i \in DOMAIN r : i \in Nat /\ r[i] = IF i <= Len(c) THEN c[i] ELSE q[i - Len(c)]
  BY <1>4, <1>5
<1> HIDE DEF r
<1>7. ASSUME NEW i \in DOMAIN r, r[i].op \in {"list", "open"}
      PROVE  i \in Nat /\ i + 0 \in DOMAIN c /\ i + 0 \in Nat /\ r[i] = c[i + 0]
  <2>1. CASE i <= Len(c)
    BY <1>4, <1>5, <1>6, <2>1
  <2>2. CASE i > Len(c)
    <3>1. i - Len(c) \in DOMAIN q /\ r[i] = q[i - Len(c)]
      BY <1>4, <1>5, <1>6, <2>2
    <3> QED
      BY <1>7, <3>1 DEF Harmless
  <2> QED
    BY <1>4, <1>6, <2>1, <2>2
<1>8. NoneNew(c, r)
  BY <1>7 DEF NoneNew
<1> QED
  BY <1>4, <1>8 DEF r, IsSeq

\* A session that has asked for nothing that lists or opens a port.
Says(h) == "out" \in DOMAIN h /\ Harmless(h.out)

\* Another harmless command, and other fields.
LEMMA SaysMore ==
  ASSUME NEW h, Says(h), NEW op, op \notin {"list", "open"}, NEW then, NEW frame
  PROVE  Says(Sends(h, op, then, frame))
<1> DEFINE e == Command(op, h.sid, then, frame)
           q == Append(h.out, e)
           r == [h EXCEPT !.out = q]
<1>1. IsSeq(h.out) /\ e.op = op
  BY DEF Says, Harmless, Command
<1> HIDE DEF e
<1>2. /\ IsSeq(q) /\ Len(h.out) \in Nat /\ DOMAIN h.out = 1 .. Len(h.out) /\ DOMAIN q = 1 .. Len(q)
      /\ Len(q) = Len(h.out) + 1 /\ q[Len(q)] = e /\ \A i \in 1 .. Len(h.out) : q[i] = h.out[i]
  BY <1>1, GrownByOne, SeqFacts DEF Grown
<1> HIDE DEF q
<1>3. Harmless(q)
  <2>1. ASSUME NEW i \in DOMAIN q PROVE q[i] = e \/ (i \in DOMAIN h.out /\ q[i] = h.out[i])
    BY <1>2
  <2> QED
    BY <1>1, <1>2, <2>1 DEF Says, Harmless
<1>4. "out" \in DOMAIN r /\ r.out = q
  BY DEF Says
<1> QED
  BY <1>3, <1>4 DEF Says, Sends, e, q

\* What ends a session says no more than that its port be closed.
LEMMA SaysEnds ==
  ASSUME NEW h, Says(h)
  PROVE  /\ \A reason : Says(Reject(h, reason))
         /\ Says(Hangup(h)) /\ Says(Fail(h)) /\ Says(Close(h)) /\ Says(RequestFailed(h))
<1>1. ASSUME NEW g, Says(g), NEW reason PROVE Says(Reject(g, reason))
  BY <1>1 DEF Reject, Says
<1>2. ASSUME NEW g, Says(g) PROVE Says(Hangup(g))
  BY <1>2, SaysMore DEF Hangup
<1>3. Says(Fail(h))
  <2> DEFINE g == Hangup(Reject(h, "failed"))
  <2>1. Says(g)
    BY <1>1, <1>2
  <2> HIDE DEF g
  <2>2. Says([g EXCEPT !.sid = 0, !.seed = 0, !.pending = None, !.timer = FALSE,
                       !.conn = "disconnected", !.status = FALSE, !.busy = "unknown",
                       !.told = TRUE])
    BY <2>1 DEF Says
  <2> QED
    BY <2>2 DEF Fail, g
<1>4. Says(Close(h))
  <2> DEFINE g == Hangup(Reject(h, "serial_session_closed"))
  <2>1. Says(g)
    BY <1>1, <1>2
  <2> HIDE DEF g
  <2>2. Says([g EXCEPT !.sid = 0, !.pending = None, !.timer = FALSE])
    BY <2>1 DEF Says
  <2> QED
    BY <2>2 DEF Close, g
<1>5. Says(RequestFailed(h))
  BY DEF RequestFailed, Says
<1> QED
  BY <1>1, <1>2, <1>3, <1>4, <1>5

\* Requests and acknowledgements are writes.
LEMMA SaysAsks ==
  ASSUME NEW h, Says(h)
  PROVE  /\ \A kind, path : Says(Transfer(h, kind, path))
         /\ \A pending, frame : Says(Ask(h, pending, frame))
         /\ \A code : Says(Info(h, code))
         /\ \A then : Says(Acknowledge(h, then))
<1>1. ASSUME NEW pending, NEW frame PROVE Says(Ask(h, pending, frame))
  <2> DEFINE g == [h EXCEPT !.pending = pending, !.timer = TRUE]
  <2>1. Says(g)
    BY DEF Says
  <2> HIDE DEF g
  <2> QED
    BY <2>1, SaysMore DEF Ask, g
<1>2. ASSUME NEW code PROVE Says(Info(h, code))
  BY <1>1 DEF Info
<1>3. ASSUME NEW then PROVE Says(Acknowledge(h, then))
  BY SaysMore, SaysEnds DEF Acknowledge
<1>4. ASSUME NEW kind, NEW path PROVE Says(Transfer(h, kind, path))
  <2> DEFINE g == [h EXCEPT !.pending = [kind |-> kind, path |-> path, next |-> 1, got |-> << >>],
                            !.timer = TRUE, !.writing = TRUE, !.settled = Silence]
             e == [type |-> kind, path |-> path, seed |-> h.seed]
  <2>1. Says(Sends(g, "write", "request", e))
    <3>1. Says(g)
      BY DEF Says
    <3> HIDE DEF g, e
    <3> QED
      BY <3>1, SaysMore
  <2>2. \A reason : Says([h EXCEPT !.settled = Rejected(reason)])
    BY DEF Says
  <2>3. \/ \E reason : Transfer(h, kind, path) = [h EXCEPT !.settled = Rejected(reason)]
        \/ Transfer(h, kind, path) = Sends(g, "write", "request", e)
    BY DEF Transfer
  <2> HIDE DEF g, e
  <2> QED
    BY <2>1, <2>2, <2>3
<1> QED
  BY <1>1, <1>2, <1>3, <1>4

\* So is all that answers a message.
LEMMA SaysReceived ==
  ASSUME NEW h, Says(h), NEW sid, NEW f
  PROVE  Says(Received(h, sid, f)) /\ Says(Disconnected(h, sid))
<1>1. Says(ConnectionRequest(h, f))
  <2> DEFINE g == [h EXCEPT !.seed = f.seed, !.conn = "reconnecting", !.firmware = FALSE,
                            !.status = FALSE, !.busy = "unknown", !.told = TRUE]
  <2>1. Says(g)
    BY DEF Says
  <2> HIDE DEF g
  <2>2. Says(Ask(g, [kind |-> "time", at |-> h.sid], [type |-> "time", at |-> h.sid, seed |-> f.seed]))
    BY <2>1, SaysAsks
  <2>3. Says(Fail(h))
    BY SaysEnds
  <2> QED
    BY <2>2, <2>3 DEF ConnectionRequest, g
<1>2. Says(TimeSyncAck(h, f))
  <2> DEFINE g == [h EXCEPT !.pending = None, !.timer = FALSE, !.conn = "connected", !.told = TRUE]
  <2>1. Says(g)
    BY DEF Says
  <2> HIDE DEF g
  <2>2. Says(Info(g, 9)) /\ Says(Fail(h))
    BY <2>1, SaysAsks, SaysEnds
  <2> QED
    BY <2>2 DEF TimeSyncAck, g
<1>3. Says(InfoResponse(h, f))
  <2> DEFINE a == [h EXCEPT !.pending = None, !.timer = FALSE, !.told = TRUE]
             g == [a EXCEPT !.status = TRUE, !.busy = f.value]
             k == [a EXCEPT !.firmware = TRUE]
  <2>1. Says(g) /\ Says(k)
    BY DEF Says
  <2> HIDE DEF g
  <2>2. Says(Info(g, 3))
    BY <2>1, SaysAsks
  <2> HIDE DEF k
  <2> QED
    BY <2>1, <2>2 DEF InfoResponse, g, k
<1>4. Says(Chunk(h, f))
  <2> DEFINE p    == h.pending
             idle == [h EXCEPT !.pending = None, !.timer = FALSE]
             got  == Append(p.got, f.data)
             h1 == [idle EXCEPT !.settled = Rejected(IF f.outcome = 103 THEN "sassi_outcome_103"
                                               ELSE "sassi_outcome"),
                          !.busy = IF f.outcome = 103 THEN "locked" ELSE @,
                          !.told = @ \/ f.outcome = 103]
             h2 == [idle EXCEPT !.settled = Rejected("sassi_data_sequence_error")]
             h3 == [h EXCEPT !.pending.next = @ + 1, !.pending.got = got]
             h4 == [idle EXCEPT !.settled = Resolved([path |-> p.path, data |-> got])]
  <2>1. Says(h1) /\ Says(h2) /\ Says(h3) /\ Says(h4) /\ Says(idle)
    BY DEF Says
  <2>2. Chunk(h, f) \in {h, h1, Fail(h2), Acknowledge(h3, "rearm"), Fail(idle), h4}
    BY DEF Chunk
  <2> HIDE DEF h1, h2, h3, h4, idle
  <2>3. Says(Fail(h2)) /\ Says(Acknowledge(h3, "rearm")) /\ Says(Fail(idle))
    BY <2>1, SaysEnds, SaysAsks
  <2> QED
    BY <2>1, <2>2, <2>3
<1>5. Says(Notification(h, f))
  BY DEF Notification, Says
<1>6. Says(HandleMessage(h, f))
  BY <1>1, <1>2, <1>3, <1>4, <1>5, SaysAsks DEF HandleMessage
<1>7. Says(Fail(h))
  BY SaysEnds
<1> QED
  BY <1>6, <1>7 DEF Received, Disconnected

\* The code after an await ends the session, or says nothing.
LEMMA SaysAnswered ==
  ASSUME NEW h, Says(h), NEW then, NEW ok
  PROVE  Says(Answered(h, then, ok))
<1>1. Says([h EXCEPT !.writing = FALSE]) /\ Says([h EXCEPT !.timer = TRUE])
  BY DEF Says
<1>2. Says(Fail(h)) /\ Says(RequestFailed(h))
  BY SaysEnds
<1> QED
  BY <1>1, <1>2 DEF Answered

\* The manager asks for transfers only.
LEMMA SaysManages ==
  ASSUME NEW h, Says(h), NEW mgr
  PROVE  /\ Says(Synchronize(h, mgr)[1]) /\ Says(Apply(h, mgr)[1])
         /\ Says(NextLog(h, mgr)[1]) /\ \A reason : Says(SyncFailed(h, mgr, reason)[1])
<1>1. ASSUME NEW mgr2 PROVE Synchronize(h, mgr2)[1] \in {h, Transfer(h, "directory", "logs")}
  BY DEF Synchronize
<1>2. Says(Transfer(h, "directory", "logs"))
  BY SaysAsks
<1>3. ASSUME NEW mgr2 PROVE Says(Synchronize(h, mgr2)[1])
  BY <1>1, <1>2
<1>4. Says(Apply(h, mgr)[1])
  <2> DEFINE k == [mgr EXCEPT !.conn = h.conn, !.attempted = @ /\ h.conn = "connected"]
             t == [k EXCEPT !.attempted = TRUE]
  <2>1. Apply(h, mgr)[1] \in {h, Synchronize(h, t)[1]}
    BY DEF Apply
  <2> HIDE DEF t
  <2> QED
    BY <1>3, <2>1
<1>5. Says(NextLog(h, mgr)[1])
  <2>1. NextLog(h, mgr)[1] = h \/ \E p : NextLog(h, mgr)[1] = Transfer(h, "file", p)
    BY DEF NextLog
  <2> QED
    BY <2>1, SaysAsks
<1>6. \A reason : SyncFailed(h, mgr, reason)[1] = h
  BY DEF SyncFailed
<1> QED
  BY <1>3, <1>4, <1>5, <1>6

\* A synchronisation that goes on asks for transfers only.
LEMMA SaysResumed ==
  ASSUME NEW h, Says(h), NEW mgr, NEW outcome
  PROVE  Says(Resumed(h, mgr, outcome)[1])
<1>1. \/ Resumed(h, mgr, outcome)[1] = SyncFailed(h, mgr, outcome.reason)[1]
      \/ Resumed(h, mgr, outcome)[1] = Transfer(h, "directory", "profiles")
      \/ \E mgr2 : Resumed(h, mgr, outcome)[1] = NextLog(h, mgr2)[1]
  BY Zenon DEF Resumed
<1> QED
  BY <1>1, SaysManages, SaysAsks

\* The commands and the lines of the child are of one list.
OneList == OfOneList(bridge.cmds, lines, bridge.generation)

\* Nothing is said yet.
LEMMA SaysNothing ==
  ASSUME Landed
  PROVE  Says(s)
<1>1. "out" \in DOMAIN s /\ s.out = << >>
  BY AtRest DEF SessionFields
<1>2. Harmless(<< >>)
  BY AtRest, NoneLeft DEF Harmless
<1> QED
  BY <1>1, <1>2 DEF Says

\* A step that adds harmless commands and takes lines.
LEMMA OneListKept ==
  ASSUME OneList, NoneNew(bridge.cmds, bridge'.cmds), NoneFound(lines, lines'),
         bridge'.generation = bridge.generation
  PROVE  OneList'
<1> QED
  BY OneListStill DEF OneList

\* Lines that stay, or are taken from the head.
LEMMA FoundSame ==
  /\ \A ls : NoneFound(ls, ls)
  /\ \A ls : IsSeq(ls) /\ ls # << >> => NoneFound(ls, Tail(ls))
<1>1. ASSUME NEW ls, IsSeq(ls), ls # << >> PROVE NoneFound(ls, Tail(ls))
  <2> DEFINE t == Tail(ls)
  <2>1. /\ Len(ls) \in Nat /\ DOMAIN ls = 1 .. Len(ls) /\ DOMAIN t = 1 .. Len(ls) - 1
        /\ \A i \in 1 .. Len(ls) - 1 : t[i] = ls[i + 1]
    BY <1>1, RestOfHead, SeqFacts
  <2> HIDE DEF t
  <2>2. \A i \in DOMAIN t : i + 1 \in DOMAIN ls /\ t[i] = ls[i + 1]
    BY <2>1
  <2>3. NoneFound(ls, t)
    BY <2>2 DEF NoneFound
  <2> QED
    BY <2>3 DEF t
<1> QED
  BY <1>1 DEF NoneFound

\* Another line, which is not the answer of a list.
LEMMA FoundMore ==
  ASSUME NEW ls, IsSeq(ls), NEW e, ~IsFound(e)
  PROVE  NoneFound(ls, Append(ls, e))
<1> DEFINE q == Append(ls, e)
<1>1. /\ Len(ls) \in Nat /\ DOMAIN ls = 1 .. Len(ls) /\ DOMAIN q = 1 .. Len(q)
      /\ Len(q) = Len(ls) + 1 /\ q[Len(q)] = e /\ \A i \in 1 .. Len(ls) : q[i] = ls[i]
  BY GrownByOne, SeqFacts DEF Grown
<1> HIDE DEF q
<1>2. \A i \in DOMAIN q : q[i] = e \/ (i \in DOMAIN ls /\ q[i] = ls[i])
  BY <1>1
<1>3. NoneFound(ls, q)
  BY <1>2 DEF NoneFound
<1> QED
  BY <1>3 DEF q

\* A step of the host that has asked for no port.
LEMMA LeavesOneList ==
  ASSUME Landed, OneList, NEW h, NEW mgr, Says(h), Leaves(h, mgr), NoneFound(lines, lines')
  PROVE  OneList'
<1> DEFINE a == Apply(h, mgr)[1]
           o == a.out
           c == bridge.cmds
<1>1. IsSeq(c) /\ DOMAIN bridge = {"live", "generation", "sid", "last", "cmds", "done"}
  BY AtRest DEF World
<1>2. Harmless(o)
  <2>1. Says(a)
    BY SaysManages
  <2> HIDE DEF a
  <2> QED
    BY <2>1 DEF Says
<1>3. bridge' = [bridge EXCEPT !.cmds = IF bridge.live THEN @ \o o ELSE @]
  BY DEF Leaves
<1> HIDE DEF o
<1>4. bridge'.generation = bridge.generation /\ bridge'.cmds \in {c \o o, c}
  BY <1>1, <1>3
<1>5. NoneNew(c, c \o o) /\ NoneNew(c, c)
  BY <1>1, <1>2, NoneNewAdded, NoneNewSame
<1>6. NoneNew(bridge.cmds, bridge'.cmds)
  BY <1>4, <1>5
<1> QED
  BY <1>4, <1>6, OneListKept

\* A list is asked for when none is awaited.
LEMMA OneListScans ==
  ASSUME Landed, OneList, Scan
  PROVE  OneList'
<1> DEFINE c == bridge.cmds
           e == Command("list", s.sid, "listed", None)
           g == Sends(s, "list", "listed", None)
           k == [m EXCEPT !.scan = "listing"]
<1>1. /\ IsSeq(c) /\ IsSeq(lines) /\ Turn(s, m, c, lines) /\ ~s.told /\ s.out = << >>
      /\ "out" \in DOMAIN s /\ "told" \in DOMAIN s /\ DOMAIN s = SessionFields
      /\ DOMAIN bridge = {"live", "generation", "sid", "last", "cmds", "done"}
  BY AtRest DEF SessionFields, World
<1>2. m.scan = "none" /\ Leaves(g, k) /\ lines' = lines
  BY DEF Scan
<1>3. /\ \A i \in DOMAIN c : c[i].then # "listed"
      /\ \A j \in DOMAIN lines : ~Told(lines, j, "listed")
  BY <1>1, <1>2 DEF Turn, QueuesOK, Tickets, Outstanding
<1>4. bridge'.generation = bridge.generation /\ bridge'.cmds \in {c, Append(c, e)}
  <2>1. g.out = << e >> /\ g.told = s.told
    <3>1. g.out = Append(<< >>, e) /\ g.told = s.told
      BY <1>1 DEF Sends
    <3>2. Append(<< >>, e) = << e >>
      BY Joined, NoneLeft, <1>1
    <3> QED
      BY <3>1, <3>2
  <2> HIDE DEF g, k, e
  <2>2. Apply(g, k)[1] = g
    BY <1>1, <2>1 DEF Apply
  <2>3. bridge' = [bridge EXCEPT !.cmds = IF bridge.live THEN @ \o << e >> ELSE @]
    BY <1>2, <2>1, <2>2 DEF Leaves
  <2>4. c \o << e >> = Append(c, e)
    BY <1>1, Joined
  <2> QED
    BY <1>1, <2>3, <2>4
<1>5. CASE bridge'.cmds = c
  BY <1>1, <1>2, <1>4, <1>5, NoneNewSame, FoundSame, OneListKept
<1>6. CASE bridge'.cmds = Append(c, e)
  <2> DEFINE q == Append(c, e)
  <2>1. /\ Len(c) \in Nat /\ DOMAIN c = 1 .. Len(c) /\ DOMAIN q = 1 .. Len(c) + 1
        /\ q[Len(c) + 1] = e /\ \A i \in 1 .. Len(c) : q[i] = c[i]
    BY <1>1, GrownByOne, SeqFacts DEF Grown
  <2>2. e.op = "list"
    BY DEF Command
  <2> HIDE DEF q, e
  <2>3. \A k1 \in DOMAIN lines : ~IsFound(lines[k1])
    BY <1>3 DEF IsFound, Told
  <2>4. \A i \in DOMAIN q : i \in Nat /\ ((i = Len(c) + 1 /\ q[i] = e) \/ (i <= Len(c) /\ i \in DOMAIN c /\ q[i] = c[i]))
    BY <2>1
  <2>5. OfOneList(q, lines, bridge.generation)
    BY <1>3, <2>1, <2>2, <2>3, <2>4 DEF OneList, OfOneList
  <2> QED
    BY <1>2, <1>4, <1>6, <2>5 DEF OneList, q
<1> QED
  BY <1>4, <1>5, <1>6

\* A port found is asked for by the list it was found in, which is the last.
LEMMA OneListFound ==
  ASSUME OneList, NEW line, AtLine(line), line.type = "response", line.then = "listed", line.ok,
         NEW mgr, Leaves(Connect(s, line.value.generation), mgr)
  PROVE  OneList'
<1> DEFINE c  == bridge.cmds
           g  == line.value.generation
           e  == Command("open", 0, "opened", Candidate(g))
           h1 == Close(s)
           h2 == Connect(s, g)
<1>1. /\ s.sid = 0 /\ s.out = << >> /\ DOMAIN s = SessionFields /\ IsSeq(c) /\ IsSeq(lines)
      /\ 1 \in DOMAIN lines /\ lines[1] = line
      /\ DOMAIN bridge = {"live", "generation", "sid", "last", "cmds", "done"}
  BY ScanAnswered, LineRead DEF AtLine, World
<1>2. DOMAIN h1 = SessionFields /\ h1.sid = 0 /\ h1.out = << >>
  <2> DEFINE r == Reject(s, "serial_session_closed")
  <2>1. DOMAIN r = SessionFields /\ r.sid = 0 /\ r.out = << >>
    BY <1>1 DEF Reject, SessionFields
  <2> HIDE DEF r
  <2>2. Hangup(r) = r
    BY <2>1 DEF Hangup
  <2>3. h1 = [r EXCEPT !.sid = 0, !.pending = None, !.timer = FALSE]
    BY <2>2 DEF Close, r
  <2> HIDE DEF h1
  <2> QED
    BY <2>1, <2>3 DEF SessionFields
<1>3. h2.out = << e >> /\ h2.conn = "reconnecting"
  <2>1. h2 = [Sends([h1 EXCEPT !.seed = 0], "open", "opened", Candidate(g)) EXCEPT
                !.conn = "reconnecting", !.status = FALSE, !.firmware = FALSE,
                !.busy = "unknown", !.told = TRUE]
    BY DEF Connect, h1
  <2> HIDE DEF h1, h2
  <2>2. h2.out = Append(<< >>, e) /\ h2.conn = "reconnecting"
    BY <1>2, <2>1 DEF SessionFields, Sends
  <2>3. Append(<< >>, e) = << e >>
    BY <1>1, Joined, NoneLeft
  <2> QED
    BY <2>2, <2>3
<1>4. e.op = "open" /\ e.frame.generation = g
  BY DEF Command, Candidate
<1> HIDE DEF h2, e, h1
<1>5. Apply(h2, mgr)[1] = h2
  BY <1>3 DEF Apply, Due
<1>6. bridge' = [bridge EXCEPT !.cmds = IF bridge.live THEN @ \o << e >> ELSE @]
  BY <1>3, <1>5 DEF Leaves, h2
<1>7. c \o << e >> = Append(c, e)
  BY <1>1, Joined
<1>8. bridge'.generation = bridge.generation /\ bridge'.cmds \in {c, Append(c, e)}
  BY <1>1, <1>6, <1>7
<1>9. NoneFound(lines, Tail(lines)) /\ lines' = Tail(lines)
  BY <1>1, FoundSame DEF AtLine
<1>10. CASE bridge'.cmds = c
  BY <1>1, <1>8, <1>9, <1>10, NoneNewSame, OneListKept
<1>11. CASE bridge'.cmds = Append(c, e)
  <2> DEFINE q == Append(c, e)
  <2>1. /\ Len(c) \in Nat /\ DOMAIN c = 1 .. Len(c) /\ DOMAIN q = 1 .. Len(c) + 1
        /\ q[Len(c) + 1] = e /\ \A i \in 1 .. Len(c) : q[i] = c[i]
    BY <1>1, GrownByOne, SeqFacts DEF Grown
  <2> HIDE DEF q
  <2>2. g = bridge.generation /\ \A i \in DOMAIN c : c[i].op # "list"
    BY <1>1 DEF OneList, OfOneList, IsFound
  <2>3. \A i \in DOMAIN q : q[i] = e \/ (i \in DOMAIN c /\ q[i] = c[i])
    BY <2>1
  <2>4. \A i \in DOMAIN q : q[i].op # "list"
    BY <1>4, <2>2, <2>3
  <2>5. \A i \in DOMAIN q : q[i].op = "open" => q[i].frame.generation = bridge.generation
    BY <1>4, <2>2, <2>3 DEF OneList, OfOneList
  <2>6. \A k \in DOMAIN lines' : IsFound(lines'[k]) => lines'[k].value.generation = bridge.generation
    BY <1>9 DEF OneList, OfOneList, NoneFound
  <2>7. OfOneList(q, lines', bridge.generation)
    BY <2>4, <2>5, <2>6 DEF OfOneList
  <2> QED
    BY <1>8, <1>11, <2>7 DEF OneList, q
<1> QED
  BY <1>8, <1>10, <1>11

\* The child numbers a new list, when no port of the old one is to be opened.
LEMMA OneListListed ==
  ASSUME Landed, OneList, PerformList
  PROVE  OneList'
<1> DEFINE c == bridge.cmds
           t == Tail(c)
           n == bridge.generation + 1
<1>1. /\ c # << >> /\ Current = c[1] /\ c[1].op = "list" /\ IsSeq(c) /\ IsSeq(lines) /\ 1 \in DOMAIN c
      /\ c[1].then \in {"listed", "nothing"}
      /\ DOMAIN bridge = {"live", "generation", "sid", "last", "cmds", "done"}
  BY AtRest, AtHead DEF PerformList, CanPerform, CommandOK, World
<1>2. NoneNew(c, t)
  BY <1>1, NoneNewTail
<1>3. CASE /\ lines' = Answer(FALSE, "none", 0) /\ bridge' = [bridge EXCEPT !.cmds = Tail(@)]
  <2>1. NoneFound(lines, lines')
    <3> DEFINE e == [type |-> "response", then |-> Current.then, ok |-> FALSE, value |-> "none", sid |-> 0]
    <3>1. ~IsFound(e)
      BY DEF IsFound
    <3>2. lines' \in {lines, Append(lines, e)}
      BY <1>3 DEF Answer
    <3> HIDE DEF e
    <3> QED
      BY <1>1, <3>1, <3>2, FoundSame, FoundMore
  <2>2. bridge'.cmds = t /\ bridge'.generation = bridge.generation
    BY <1>1, <1>3
  <2> QED
    BY <1>2, <2>1, <2>2, OneListKept
<1>4. ASSUME NEW found, Lists(found) PROVE OneList'
  <2> DEFINE e == [type |-> "response", then |-> Current.then, ok |-> TRUE,
                   value |-> [found |-> found, generation |-> n], sid |-> 0]
  <2>1. bridge'.cmds = t /\ bridge'.generation = n
    BY <1>1, <1>4 DEF Lists
  <2>2. /\ e.then = c[1].then /\ e.value.generation = n
        /\ lines' = IF c[1].then = "nothing" THEN lines ELSE Append(lines, e)
    BY <1>1, <1>4 DEF Lists, Answer
  <2>3. /\ Len(c) \in Nat /\ DOMAIN c = 1 .. Len(c) /\ DOMAIN t = 1 .. Len(c) - 1
        /\ \A i \in 1 .. Len(c) - 1 : t[i] = c[i + 1]
    BY <1>1, RestOfHead, SeqFacts
  <2> HIDE DEF t, e, n
  <2>4. \A i \in DOMAIN t : i \in Nat \ {0} /\ i + 1 \in DOMAIN c /\ t[i] = c[i + 1] /\ ~(i + 1 <= 1)
    BY <2>3
  <2>5. \A i \in DOMAIN t : t[i].op # "open"
    <3>1. \A j \in DOMAIN c : c[j].op = "open" => j < 1
      BY <1>1 DEF OneList, OfOneList
    <3> QED
      BY <2>4, <3>1
  <2>6. \A k \in DOMAIN lines : ~IsFound(lines[k])
    BY <1>1 DEF OneList, OfOneList
  <2>7. OfOneList(t, << >>, n)
    <3>1. OfOneList(t, lines, bridge.generation)
      BY <1>2, FoundSame, OneListStill DEF OneList, t
    <3>2. DOMAIN << >> = {}
      BY <1>1, NoneLeft
    <3> QED
      BY <2>5, <3>1, <3>2 DEF OfOneList
  <2>8. \A k \in DOMAIN lines' : IsFound(lines'[k]) =>
          lines'[k].value.generation = n /\ \A i \in DOMAIN t : t[i].op # "list"
    <3>1. CASE c[1].then = "nothing"
      BY <2>2, <2>6, <3>1
    <3>2. CASE c[1].then = "listed"
      <4>1. \A i \in DOMAIN t : t[i].op # "list"
        <5>1. \A j \in DOMAIN c : c[j].op = "list" => j <= 1
          BY <1>1, <3>2 DEF OneList, OfOneList
        <5> QED
          BY <2>4, <5>1
      <4> DEFINE q == Append(lines, e)
      <4>2. \A k \in DOMAIN q : q[k] = e \/ (k \in DOMAIN lines /\ q[k] = lines[k])
        <5>1. /\ Len(lines) \in Nat /\ DOMAIN lines = 1 .. Len(lines) /\ DOMAIN q = 1 .. Len(q)
              /\ Len(q) = Len(lines) + 1 /\ q[Len(q)] = e /\ \A i \in 1 .. Len(lines) : q[i] = lines[i]
          BY <1>1, GrownByOne, SeqFacts DEF Grown
        <5> HIDE DEF q
        <5> QED
          BY <5>1
      <4>3. lines' = q
        BY <2>2, <3>2
      <4> HIDE DEF q
      <4> QED
        BY <2>2, <2>6, <4>1, <4>2, <4>3
    <3> QED
      BY <1>1, <3>1, <3>2
  <2> QED
    BY <2>1, <2>7, <2>8 DEF OneList, OfOneList
<1> QED
  BY <1>3, <1>4 DEF PerformList

\* A line is read.
LEMMA OneListReads ==
  ASSUME Landed, OneList, ReadLine
  PROVE  OneList'
<1> DEFINE line == lines[1]
<1>1. lines # << >> /\ lines' = Tail(lines) /\ UNCHANGED <<asks, nano, crossed>>
  BY DEF ReadLine
<1>2. AtLine(line) /\ line = Head(lines)
  BY <1>1, AtRest, RestOfHead DEF AtLine
<1>3. NoneFound(lines, lines') /\ Says(s)
  BY <1>1, AtRest, FoundSame, SaysNothing
<1>4. ASSUME NEW h, NEW mgr, Says(h), Leaves(h, mgr) PROVE OneList'
  BY <1>3, <1>4, LeavesOneList
<1> HIDE DEF line
<1>5. \A then, ok : Says(Answered(s, then, ok))
  BY <1>3, SaysAnswered
<1>6. ASSUME line.type = "response", Response(line) PROVE OneList'
  <2>1. CASE line.then = "listed" /\ line.ok
    <3>1. Listed(line.value)
      BY <1>6, <2>1 DEF Response
    <3>2. CASE line.value.found = "one"
      BY <1>2, <1>6, <2>1, <3>1, <3>2, OneListFound DEF Listed
    <3>3. CASE line.value.found # "one"
      <4>1. \E mgr : Leaves(s, mgr)
        BY <3>1, <3>3, Zenon DEF Listed
      <4> QED
        BY <1>3, <1>4, <4>1
    <3> QED
      BY <3>2, <3>3
  <2>2. CASE ~(line.then = "listed" /\ line.ok)
    <3>1. \/ \E mgr : Leaves(s, mgr)
          \/ Leaves(Answered(s, line.then, line.ok), m)
      BY <1>6, <2>2, Zenon DEF Response, Continue
    <3> QED
      BY <1>3, <1>4, <1>5, <3>1
  <2> QED
    BY <2>1, <2>2
<1>7. ASSUME Data(line) PROVE OneList'
  <2>1. \/ \E mgr : Leaves(s, mgr)
        \/ Leaves(Disconnected(s, line.sid), m)
        \/ Leaves(Received(s, line.sid, line.frame), m)
    BY <1>7, Zenon DEF Data
  <2>2. Says(Disconnected(s, line.sid)) /\ Says(Received(s, line.sid, line.frame))
    BY <1>3, SaysReceived
  <2> QED
    BY <1>3, <1>4, <2>1, <2>2
<1>8. (line.type = "response" /\ Response(line)) \/ Data(line)
  BY <1>2 DEF ReadLine
<1> QED
  BY <1>6, <1>7, <1>8

\* The other steps of the host that say something.
LEMMA OneListHost ==
  ASSUME Landed, OneList, Resume \/ OpenReturns \/ AskToSync \/ Stop \/ RequestTimeout
  PROVE  OneList'
<1>1. Says(s) /\ "out" \in DOMAIN s
  BY SaysNothing DEF Says
<1>2. lines' = lines /\ NoneFound(lines, lines')
  <2>1. lines' = lines
    BY DEF Resume, OpenReturns, AskToSync, Stop, RequestTimeout
  <2> QED
    BY <2>1, FoundSame
<1>3. ASSUME NEW h, NEW mgr, Says(h), Leaves(h, mgr) PROVE OneList'
  BY <1>2, <1>3, LeavesOneList
<1>4. CASE Resume
  <2> DEFINE outcome  == s.settled[1]
             reading  == outcome.ok /\ m.stage = "files"
             imported == IF reading THEN Import(db, outcome.value.data[1].content, outcome.value.path)
                                    ELSE [db |-> db, outcome |-> "known"]
             idle     == [s EXCEPT !.settled = Silence]
             failed   == SyncFailed(idle, m, "device_sync_failed")
             resumed  == Resumed(idle, m, outcome)
             both     == IF imported.outcome = "duplicate" THEN failed ELSE resumed
  <2>1. Leaves(both[1], both[2])
    BY <1>4 DEF Resume
  <2>2. Says(idle)
    BY <1>1 DEF Says
  <2> HIDE DEF idle, imported
  <2>3. Says(failed[1]) /\ Says(resumed[1])
    BY <2>2, SaysManages, SaysResumed
  <2>4. Says(both[1])
    BY <2>3
  <2> HIDE DEF both
  <2> QED
    BY <1>3, <2>1, <2>4
<1>5. CASE OpenReturns
  <2>1. Says(Opened(s, m.opening))
    BY <1>1 DEF Opened, Says
  <2> QED
    BY <1>3, <1>5, <2>1 DEF OpenReturns
<1>6. CASE AskToSync
  <2>1. Leaves(Synchronize(s, m)[1], Synchronize(s, m)[2])
    BY <1>6 DEF AskToSync
  <2> QED
    BY <1>1, <1>3, <2>1, SaysManages
<1>7. CASE Stop
  <2>1. Says(Sends(Close(s), "shutdown", "nothing", None))
    BY <1>1, SaysEnds, SaysMore
  <2> QED
    BY <1>3, <1>7, <2>1 DEF Stop
<1>8. CASE RequestTimeout
  <2>1. Says(Fail(s))
    BY <1>1, SaysEnds
  <2> QED
    BY <1>3, <1>8, <2>1 DEF RequestTimeout
<1> QED
  BY <1>4, <1>5, <1>6, <1>7, <1>8

\* A command is given up: nobody waits for its answer.
LEMMA OneListGivesUp ==
  ASSUME Landed, OneList, CommandTimeout
  PROVE  OneList'
<1> DEFINE c     == bridge.cmds
           idle  == [bridge EXCEPT !.cmds[1].then = "nothing"]
           both  == IF Head(c).then \in {"listed", "opened"} THEN << s, ScanFailed(m) >>
                    ELSE << Answered(s, Head(c).then, FALSE), m >>
           after == Apply(both[1], both[2])
           d     == [c EXCEPT ![1].then = "nothing"]
<1>1. /\ c # << >> /\ lines' = lines /\ bridge' = [idle EXCEPT !.cmds = @ \o after[1].out]
  BY DEF CommandTimeout
<1>2. /\ IsSeq(c) /\ DOMAIN bridge = {"live", "generation", "sid", "last", "cmds", "done"}
      /\ 1 \in DOMAIN c
  BY <1>1, AtRest, AtHead DEF World
<1>3. Harmless(after[1].out)
  <2>1. Says(s) /\ Says(Answered(s, Head(c).then, FALSE))
    BY SaysNothing, SaysAnswered
  <2>2. Says(both[1])
    BY <2>1
  <2> HIDE DEF both
  <2>3. Says(after[1])
    BY <2>2, SaysManages
  <2> QED
    BY <2>3 DEF Says
<1> HIDE DEF after
<1>4. /\ IsSeq(d) /\ DOMAIN d = DOMAIN c
      /\ \A i \in DOMAIN c : d[i].op = c[i].op /\ d[i].frame = c[i].frame
                             /\ (d[i].then = c[i].then \/ d[i].then = "nothing")
  <2>1. QueuesOK(s, m, c, lines, asks, bridge.sid, nano.files, nano.held, bridge.last)
    BY AtRest DEF Turn
  <2> HIDE DEF c, idle
  <2>2. /\ IsSeq(d) /\ DOMAIN d = DOMAIN c
        /\ d[1].then = "nothing" /\ d[1].op = c[1].op /\ d[1].frame = c[1].frame
        /\ \A i \in DOMAIN c : i # 1 => d[i] = c[i]
    BY <1>1, <2>1, QueuesForget DEF c
  <2> HIDE DEF d
  <2> QED
    BY <2>2
<1>5. idle.cmds = d /\ idle.generation = bridge.generation /\ DOMAIN idle = DOMAIN bridge
  BY <1>2
<1> HIDE DEF idle
<1>6. bridge'.cmds = d \o after[1].out /\ bridge'.generation = bridge.generation
  BY <1>1, <1>2, <1>5
<1> HIDE DEF d
<1>7. NoneNew(d, d \o after[1].out)
  BY <1>3, <1>4, NoneNewAdded
<1>8. NoneNew(c, d)
  <2>1. \A i \in DOMAIN d : /\ i \in Nat /\ i + 0 \in DOMAIN c /\ i + 0 \in Nat
                            /\ d[i].op = c[i + 0].op /\ d[i].frame = c[i + 0].frame
                            /\ d[i].then = "listed" => c[i + 0].then = "listed"
    <3>1. \A i \in DOMAIN c : i \in Nat /\ i + 0 = i
      BY <1>2, SeqFacts
    <3> QED
      BY <1>4, <3>1
  <2> QED
    BY <2>1 DEF NoneNew
<1>9. OfOneList(d, lines, bridge.generation)
  BY <1>8, FoundSame, OneListStill DEF OneList
<1>10. OfOneList(d \o after[1].out, lines, bridge.generation)
  BY <1>7, <1>9, FoundSame, OneListStill
<1> QED
  BY <1>1, <1>6, <1>10 DEF OneList

\* Answers of the child to anything but a list.
LEMMA OneListAnswers ==
  ASSUME Landed, OneList, AnswerWrite \/ PerformOpen \/ PerformClose
  PROVE  OneList'
<1> DEFINE c == bridge.cmds
<1>1. /\ c # << >> /\ IsSeq(c) /\ IsSeq(lines) /\ Current.then # "listed"
      /\ DOMAIN bridge = {"live", "generation", "sid", "last", "cmds", "done"}
  <2>1. World /\ IsSeq(c) /\ IsSeq(lines)
    BY AtRest
  <2>2. c # << >>
    BY <2>1 DEF World, AnswerWrite, PerformOpen, PerformClose, CanPerform
  <2>3. Current = c[1] /\ CommandOK(Current, nano.files, bridge.last)
    BY <2>2, AtHead
  <2>4. Current.op \in {"write", "open", "close"}
    BY <2>1, <2>3 DEF World, AnswerWrite, PerformOpen, PerformClose
  <2> QED
    BY <2>1, <2>2, <2>3, <2>4 DEF World, CommandOK, Writes
<1>2. bridge'.cmds = Tail(c) /\ bridge'.generation = bridge.generation
  <2>1. CASE AnswerWrite
    <3>1. bridge' = [bridge EXCEPT !.cmds = Tail(@), !.done = "no"]
      BY <2>1 DEF AnswerWrite
    <3> QED
      BY <1>1, <3>1
  <2>2. CASE PerformOpen
    <3> DEFINE next  == bridge.last + 1
               other == IF Stale THEN bridge.last ELSE next
    <3>1. \/ bridge' = [bridge EXCEPT !.cmds = Tail(@), !.last = next, !.sid = next]
          \/ bridge' = [bridge EXCEPT !.cmds = Tail(@), !.sid = 0, !.last = other]
      BY <2>2 DEF PerformOpen
    <3> HIDE DEF next, other
    <3> QED
      BY <1>1, <3>1
  <2>3. CASE PerformClose
    <3>1. bridge' = [bridge EXCEPT !.cmds = Tail(@), !.sid = IF Current.sid = @ THEN 0 ELSE @]
      BY <2>3 DEF PerformClose
    <3> QED
      BY <1>1, <3>1
  <2> QED
    BY <2>1, <2>2, <2>3
<1>3. lines' = lines \/ \E ok, value, sid : lines' = Answer(ok, value, sid)
  <2>1. CASE AnswerWrite
    BY <2>1 DEF AnswerWrite
  <2>2. CASE PerformOpen
    BY <2>2 DEF PerformOpen
  <2>3. CASE PerformClose
    BY <2>3 DEF PerformClose
  <2> QED
    BY <2>1, <2>2, <2>3
<1>4. ASSUME NEW ok, NEW value, NEW sid, lines' = Answer(ok, value, sid) PROVE NoneFound(lines, lines')
  <2> DEFINE e == [type |-> "response", then |-> Current.then, ok |-> ok, value |-> value, sid |-> sid]
  <2>1. ~IsFound(e)
    BY <1>1 DEF IsFound
  <2>2. lines' \in {lines, Append(lines, e)}
    BY <1>4 DEF Answer
  <2> HIDE DEF e
  <2> QED
    BY <1>1, <2>1, <2>2, FoundSame, FoundMore
<1>5. NoneFound(lines, lines')
  BY <1>3, <1>4, FoundSame
<1> QED
  BY <1>1, <1>2, <1>5, NoneNewTail, OneListKept

\* The Nano answers no list.
LEMMA OneListNano ==
  ASSUME Landed, OneList, Serve \/ NanoRequest \/ Roast \/ RoastEnds \/ Damage \/ Restart \/ Unplug \/ Plug
  PROVE  OneList'
<1>1. IsSeq(bridge.cmds) /\ IsSeq(lines) /\ DOMAIN bridge = {"live", "generation", "sid", "last", "cmds", "done"}
  BY AtRest DEF World
<1>2. bridge'.cmds = bridge.cmds /\ bridge'.generation = bridge.generation
  BY <1>1 DEF Serve, NanoRequest, Roast, RoastEnds, Damage, Restart, Unplug, Plug
<1>3. lines' = lines \/ \E frame : Transmits(frame)
  BY Zenon DEF Serve, ServeTime, ServeInfo, ServeTransfer, ServeAck, SendFrom, Notifies,
               NanoRequest, Roast, RoastEnds, Damage, Restart, Unplug, Plug
<1>4. ASSUME NEW frame, Transmits(frame) PROVE NoneFound(lines, lines')
  <2> DEFINE e == [type |-> "data", sid |-> bridge.sid, frame |-> frame]
  <2>1. ~IsFound(e)
    BY DEF IsFound
  <2>2. lines' \in {lines, Append(lines, e)}
    BY <1>4 DEF Transmits
  <2> HIDE DEF e
  <2> QED
    BY <1>1, <2>1, <2>2, FoundSame, FoundMore
<1>5. NoneFound(lines, lines')
  BY <1>3, <1>4, FoundSame
<1> QED
  BY <1>1, <1>2, <1>5, NoneNewSame, OneListKept

\* Every step.
LEMMA OneListNext ==
  ASSUME Inv, OneList, [Next]_vars
  PROVE  OneList'
<1>1. Landed
  BY DEF Inv, Landed
<1>2. CASE ReadLine
  BY <1>1, <1>2, OneListReads
<1>3. CASE Resume \/ OpenReturns \/ AskToSync \/ Stop \/ RequestTimeout
  BY <1>1, <1>3, OneListHost
<1>4. CASE Scan
  BY <1>1, <1>4, OneListScans
<1>5. CASE CommandTimeout
  BY <1>1, <1>5, OneListGivesUp
<1>6. CASE BridgeExits
  <2>1. bridge'.cmds = << >> /\ lines' = << >>
    BY <1>1, <1>6 DEF BridgeExits, Landed, World
  <2>2. DOMAIN << >> = {}
    BY <1>1, AtRest, NoneLeft
  <2>3. \A g : OfOneList(<< >>, << >>, g)
    BY <2>2 DEF OfOneList
  <2> QED
    BY <2>1, <2>3 DEF OneList
<1>7. CASE PerformWrite
  <2>1. bridge'.cmds = bridge.cmds /\ bridge'.generation = bridge.generation /\ lines' = lines
    BY <1>1, <1>7 DEF PerformWrite, Landed, World
  <2> QED
    BY <2>1 DEF OneList
<1>8. CASE PerformList
  BY <1>1, <1>8, OneListListed
<1>9. CASE AnswerWrite \/ PerformOpen \/ PerformClose
  BY <1>1, <1>9, OneListAnswers
<1>10. CASE Serve \/ NanoRequest \/ Roast \/ RoastEnds \/ Damage \/ Restart \/ Unplug \/ Plug
  BY <1>1, <1>10, OneListNano
<1>11. CASE UNCHANGED vars
  BY <1>11 DEF vars, OneList
<1> QED
  BY <1>2, <1>3, <1>4, <1>5, <1>6, <1>7, <1>8, <1>9, <1>10, <1>11 DEF Next, Host, Child

\* A port is opened by the list it was found in: for any number of lists, and whichever
\* of them and of the openings are given up.
THEOREM OpensOfLastList == Spec => []OpensCurrent
<1>1. Init => OneList
  <2>1. ASSUME Init PROVE bridge.cmds = << >> /\ lines = << >> /\ DOMAIN << >> = {}
    BY <2>1 DEF Init, FirstBridge
  <2> QED
    BY <2>1 DEF OneList, OfOneList
<1>2. Inv /\ OneList /\ [Next]_vars => OneList'
  BY OneListNext
<1>3. Inv /\ OneList => OpensCurrent
  <2> SUFFICES ASSUME Inv, OneList, bridge.cmds # << >>, Current.op = "open" PROVE ~Stale
    BY DEF OpensCurrent
  <2>1. Landed
    BY DEF Inv, Landed
  <2>2. Current = bridge.cmds[1] /\ 1 \in DOMAIN bridge.cmds
    BY <2>1, AtHead
  <2> QED
    BY <2>2 DEF OneList, OfOneList, Stale
<1> QED
  BY <1>1, <1>2, <1>3, Invariant, PTL DEF Spec
=============================================================================
