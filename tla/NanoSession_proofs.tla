-------------------------- MODULE NanoSession_proofs ------------------------
(***************************************************************************)
(* Proofs about the worker's session with the Nano, for any profiles and   *)
(* logs, any number of synchronisations, lost transports and resets: what  *)
(* is imported under a path is that file, although the path of a reply is  *)
(* not looked at, and a roast refuses at most one start-up run.            *)
(***************************************************************************)
EXTENDS NanoSession, WellFoundedInduction, TLAPS

-----------------------------------------------------------------------------
(* First is well defined: any files left have a first one.                 *)

\* Among natural numbers there is a least.
LEMMA LeastOf ==
  ASSUME NEW T \in SUBSET Nat, T # {}
  PROVE \E x \in T : \A y \in T : x <= y
<1> DEFINE R == {p \in Nat \X Nat : p[1] < p[2]}
<1>1. R = OpToRel(<, Nat)
  BY DEF OpToRel
<1>2. IsWellFoundedOn(R, Nat)
  BY <1>1, NatLessThanWellFounded
<1>3. \A x, y \in Nat : y < x => <<y, x>> \in R
  OBVIOUS
<1>4. PICK x \in T : \A y \in T : ~ (<<y, x>> \in R)
  <2> HIDE DEF R
  <2> QED BY <1>2, WFMin
<1> HIDE DEF R
<1>5. ASSUME NEW y \in T PROVE x <= y
  <2>1. x \in Nat /\ y \in Nat /\ ~ (y < x)
    BY <1>3, <1>4
  <2> QED
    BY <2>1
<1> QED BY <1>4, <1>5

\* There is a first file of any that are left, so that First is one of them.
LEMMA FirstIsLeft ==
  ASSUME NEW files \in SUBSET File, files # {}, NEW known
  PROVE  First(files, known) \in files
<1>1. Profile \subseteq Nat /\ Log \subseteq Nat /\ File \subseteq Nat
  BY NanoSessionAssumption DEF File
<1> DEFINE fresh == files \ known
           rest  == IF fresh = {} THEN files ELSE fresh
           small == rest \cap Profile
           class == IF small = {} THEN rest ELSE small
<1>2. class \in SUBSET Nat /\ class # {} /\ class \subseteq files
  BY <1>1
<1>3. PICK f \in class : \A g \in class : f <= g
  BY <1>2, LeastOf
<1>4. \A g \in files \ {f} : Before(f, g, known)
  <2> SUFFICES ASSUME NEW g \in files \ {f} PROVE Before(f, g, known)
    OBVIOUS
  <2>1. f \in Nat /\ g \in Nat /\ f \in files
    BY <1>1, <1>2
  <2>2. CASE f \notin known /\ g \in known
    BY <2>2 DEF Before
  <2>3. CASE g \in rest
    <3>1. f \in known <=> g \in known
      BY <2>3
    <3>2. CASE f \in Profile /\ g \notin Profile
      BY <3>1, <3>2 DEF Before
    <3>3. CASE g \in class
      BY <1>3, <2>1, <3>1, <3>3 DEF Before
    <3> QED
      BY <2>3, <3>2, <3>3
  <2> QED
    BY <2>2, <2>3
<1> QED
  BY <1>2, <1>4 DEF First

-----------------------------------------------------------------------------
(* The turns of the worker.  A turn makes of the session h the answer r to *)
(* the message m: r.session, what it asks, what it imports.                *)

Sound(h) ==
  /\ h \in Session
  /\ h.stage = "none" <=> h.trigger = "none"
  /\ h.stage # "none" => h.phase = "ready"
  /\ h.stage = "none" => (h.todo = {} /\ h.known = {})
  /\ h.stage = "files" => h.todo # {}

Answer == [session : Session, ask : {<< >>} \cup {<< q >> : q \in Ask}, import : SUBSET (File \X File)]

SameRun(h, n) ==
  n.stage = h.stage /\ n.trigger = h.trigger /\ n.todo = h.todo /\ n.known = h.known

SameTalk(h, n) == n.phase = h.phase /\ n.pending = h.pending

Early == {"handshake", "time"}
Past  == {"status", "firmware", "ready"}
Free(m) == m.type = "free" \/ (m.type = "status" /\ m.lock = "free")

\* The session is dropped.
Drops(r) == r.session.phase = "closed" /\ r.session = NoSession /\ r.ask = << >> /\ r.import = {}

\* A request is kept until the replay has settled, or answered.
TakesRequest(h, m, r) ==
  /\ m.type = "request" /\ h.phase \in Early
  /\ SameRun(h, r.session) /\ r.session.busy = h.busy /\ r.import = {}
  /\ \/ r.ask = << >> /\ r.session.phase = h.phase /\ r.session.pending = << m >>
     \/ /\ r.ask = << [type |-> "time", seed |-> m.seed] >>
        /\ r.session.phase = "time" /\ r.session.pending = << >>

\* The next phase of the negotiation.
Proceeds(h, m, r) ==
  /\ SameRun(h, r.session) /\ r.session.pending = h.pending /\ r.import = {}
  /\ \/ /\ m.type = "time" /\ h.phase = "time" /\ r.session.phase = "status"
        /\ r.ask = << [type |-> "status"] >> /\ r.session.busy = h.busy
     \/ /\ m.type = "status" /\ h.phase = "status" /\ r.session.phase = "firmware"
        /\ r.ask = << [type |-> "firmware"] >> /\ r.session.busy = m.lock
     \/ /\ m.type = "firmware" /\ h.phase = "firmware" /\ r.session.phase = "ready"
        /\ r.ask = << >> /\ r.session.busy = h.busy

\* Nothing but what the worker knows of the Nano's lock.
Hears(h, m, r) ==
  /\ ~(m.type = "time" /\ h.phase = "time")
  /\ SameTalk(h, r.session) /\ SameRun(h, r.session) /\ r.ask = << >> /\ r.import = {}
  /\ \/ r.session.busy = h.busy
     \/ m.type = "busy" /\ r.session.busy = "locked"
     \/ m.type = "free" /\ r.session.busy = "free"
     \/ m.type = "status" /\ r.session.busy = m.lock

\* Nothing that matters to the Nano, but that its status may be asked for.
Stays(h, r) ==
  /\ SameTalk(h, r.session) /\ SameRun(h, r.session) /\ r.session.busy = h.busy
  /\ r.ask = << >> \/ (h.phase = "ready" /\ r.ask = << [type |-> "status"] >>)
  /\ r.import = {}

\* A run begins, on a Nano that is not known to be locked.
Starts(h, r) ==
  /\ h.stage = "none" /\ r.session.phase = "ready" /\ h.phase \in {"firmware", "ready"}
  /\ r.session.pending = h.pending
  /\ r.session.stage = "logs" /\ r.session.trigger \in {"startup", "manual"}
  /\ r.session.busy # "locked"
  /\ r.ask = << [type |-> "logs"] >> /\ r.import = {}

\* The answer that was asked for: the next request, or the end of the run.
Fetches(h, m, r) ==
  /\ SameTalk(h, r.session) /\ r.session.busy = h.busy /\ h.stage # "none"
  /\ \/ m.type = "directory" /\ r.import = {}
     \/ /\ m.type = "file" /\ h.stage = "files"
        /\ r.import = {<<First(h.todo, h.known), m.file>>}
  /\ \/ /\ r.session.stage = "profiles" /\ r.session.trigger = h.trigger
        /\ r.ask = << [type |-> "profiles"] >>
     \/ /\ r.session.stage = "files" /\ r.session.trigger = h.trigger
        /\ r.ask = << [type |-> "read", file |-> First(r.session.todo, r.session.known)] >>
     \/ /\ r.session.stage = "none" /\ r.session.outcome = "done" /\ r.ask = << >>

\* The Nano is busy: the run ends and the session stays.
Refuses(h, m, r) ==
  /\ SameTalk(h, r.session) /\ h.stage # "none" /\ m.type \in {"busy", "refused"}
  /\ r.session.stage = "none" /\ r.ask = << >> /\ r.import = {}
  /\ h.trigger = "startup" => r.session.busy = "locked"
  /\ r.session.busy \in {h.busy, "locked"}

\* What a session is made of.
LEMMA SessionFields ==
  ASSUME NEW h \in Session
  PROVE  /\ h.phase \in Phases /\ h.stage \in Stages
         /\ h.trigger \in {"none", "startup", "manual"}
         /\ h.busy \in {"unknown", "locked", "free"}
         /\ h.todo \in SUBSET File /\ h.known \in SUBSET File
         /\ h.outcome \in {"none", "done", "refused"}
         /\ h.attempted \in BOOLEAN /\ h.settled \in BOOLEAN /\ h.waiting \in BOOLEAN
         /\ h.pending \in Seq([type : {"request"}, seed : Nat]) /\ h.seed \in Seq(Nat)
  BY DEF Session

\* Without a session there is no run, and dropping one makes it so.
LEMMA Closed == Sound(NoSession) /\ NoSession.phase = "closed" /\ Drop \in Answer /\ Drops(Drop)
  BY DEF Sound, NoSession, Session, Phases, Stages, Drop, Quiet, Sends, Answer, Drops

\* What an answer is made of.
LEMMA Made ==
  ASSUME NEW n \in Session, NEW ask \in {<< >>} \cup {<< q >> : q \in Ask}
  PROVE  /\ Sends(n, ask) \in Answer
         /\ Sends(n, ask).session = n /\ Sends(n, ask).ask = ask /\ Sends(n, ask).import = {}
         /\ Quiet(n) = Sends(n, << >>)
  BY DEF Sends, Answer, Quiet

\* A message that tells nothing of the negotiation leaves all but what is known of the lock.
LEMMA Heard ==
  ASSUME NEW h, NEW n \in Session, NEW m, Sound(h), h.stage = "none",
         ~(m.type = "time" /\ h.phase = "time"), n.phase = h.phase, n.pending = h.pending, SameRun(h, n),
         \/ n.busy = h.busy
         \/ m.type = "busy" /\ n.busy = "locked"
         \/ m.type = "free" /\ n.busy = "free"
         \/ m.type = "status" /\ n.busy = m.lock
  PROVE  Quiet(n) \in Answer /\ Sound(Quiet(n).session) /\ Hears(h, m, Quiet(n))
<1>1. /\ Quiet(n) \in Answer /\ Quiet(n).session = n /\ Quiet(n).ask = << >>
      /\ Quiet(n).import = {}
  BY Made
<1> QED
  BY <1>1 DEF Hears, SameTalk, SameRun, Sound

\* handle_message.
LEMMA Handled ==
  ASSUME NEW h, NEW m \in Message, Sound(h), h.stage = "none",
         NEW r, r = Handle(h, m)
  PROVE  /\ r \in Answer /\ Sound(r.session)
         /\ Drops(r) \/ TakesRequest(h, m, r) \/ Proceeds(h, m, r) \/ Hears(h, m, r)
<1>0. h \in Session /\ h.trigger = "none" /\ h.todo = {} /\ h.known = {} /\ SameRun(h, h)
  BY DEF Sound, SameRun
<1>q. CASE r = Quiet(h) /\ ~(m.type = "time" /\ h.phase = "time")
  BY <1>0, <1>q, Heard
<1>1. CASE m.type = "request"
  <2>1. m \in [type : {"request"}, seed : Nat]
    BY <1>1 DEF Message
  <2>2. r = Request(h, m)
    BY <1>1 DEF Handle
  <2> DEFINE answered == h.phase = "handshake" \/ (h.phase = "time" /\ h.seed # << m.seed >>)
  <2>3. CASE ~answered
    BY <1>q, <1>1, <2>2, <2>3 DEF Request
  <2>4. CASE answered /\ ~h.settled
    <3> DEFINE n == [h EXCEPT !.pending = << m >>]
    <3>1. << m >> \in Seq([type : {"request"}, seed : Nat])
      BY <2>1
    <3>2. /\ n \in Session /\ n.pending = << m >> /\ n.phase = h.phase /\ n.busy = h.busy
          /\ n.stage = h.stage /\ n.trigger = h.trigger /\ n.todo = h.todo /\ n.known = h.known
      BY <1>0, <3>1 DEF Session
    <3>3. r = Quiet(n)
      BY <2>2, <2>4 DEF Request
    <3> HIDE DEF n
    <3>4. r \in Answer /\ r.session = n /\ r.ask = << >> /\ r.import = {}
      BY <3>2, <3>3, Made
    <3> QED
      BY <1>0, <1>1, <2>4, <3>2, <3>4 DEF TakesRequest, SameRun, Sound, Early
  <2>5. CASE answered /\ h.settled
    <3> DEFINE n == [h EXCEPT !.pending = << >>, !.seed = << m.seed >>, !.phase = "time"]
               q == [type |-> "time", seed |-> m.seed]
    <3>1. << m.seed >> \in Seq(Nat) /\ << >> \in Seq([type : {"request"}, seed : Nat])
      BY <2>1
    <3>2. /\ n \in Session /\ n.pending = << >> /\ n.phase = "time" /\ n.busy = h.busy
          /\ n.stage = h.stage /\ n.trigger = h.trigger /\ n.todo = h.todo /\ n.known = h.known
      BY <1>0, <3>1 DEF Session, Phases
    <3>3. r = Sends(n, << q >>)
      BY <2>2, <2>5 DEF Request
    <3>4. q \in Ask
      BY <2>1 DEF Ask
    <3> HIDE DEF n
    <3>5. r \in Answer /\ r.session = n /\ r.ask = << q >> /\ r.import = {}
      BY <3>2, <3>3, <3>4, Made
    <3> QED
      BY <1>0, <1>1, <2>5, <3>2, <3>5 DEF TakesRequest, SameRun, Sound, Early
  <2> QED
    BY <2>3, <2>4, <2>5
<1>2. CASE m.type = "time" /\ h.phase = "time"
  <2> DEFINE n == [h EXCEPT !.phase = "status"]
             q == [type |-> "status"]
  <2>1. r = Sends(n, << q >>)
    BY <1>2 DEF Handle, Asks
  <2>2. /\ n \in Session /\ n.pending = h.pending /\ n.phase = "status" /\ n.busy = h.busy
        /\ n.stage = h.stage /\ n.trigger = h.trigger /\ n.todo = h.todo /\ n.known = h.known
    BY <1>0 DEF Session, Phases
  <2>3. q \in Ask
    BY DEF Ask
  <2> HIDE DEF n
  <2>4. r \in Answer /\ r.session = n /\ r.ask = << q >> /\ r.import = {}
    BY <2>1, <2>2, <2>3, Made
  <2> QED
    BY <1>0, <1>2, <2>2, <2>4 DEF Proceeds, SameRun, Sound
<1>3. CASE m.type = "status"
  <2>1. m.lock \in {"locked", "free"}
    BY <1>3 DEF Message
  <2>2. r = Status(h, m)
    BY <1>3 DEF Handle
  <2>3. CASE h.phase = "status"
    <3> DEFINE n == [h EXCEPT !.busy = m.lock, !.phase = "firmware"]
               q == [type |-> "firmware"]
    <3>1. r = Sends(n, << q >>)
      BY <2>2, <2>3 DEF Status, Asks
    <3>2. /\ n \in Session /\ n.pending = h.pending /\ n.phase = "firmware" /\ n.busy = m.lock
          /\ n.stage = h.stage /\ n.trigger = h.trigger /\ n.todo = h.todo /\ n.known = h.known
      BY <1>0, <2>1 DEF Session, Phases
    <3>3. q \in Ask
      BY DEF Ask
    <3> HIDE DEF n
    <3>4. r \in Answer /\ r.session = n /\ r.ask = << q >> /\ r.import = {}
      BY <3>1, <3>2, <3>3, Made
    <3> QED
      BY <1>0, <1>3, <2>3, <3>2, <3>4 DEF Proceeds, SameRun, Sound
  <2>4. CASE h.phase = "ready"
    <3> DEFINE n == [h EXCEPT !.busy = m.lock,
                              !.attempted = h.attempted /\ ~(h.busy = "locked" /\ m.lock = "free")]
    <3>1. r = Quiet(n)
      BY <2>2, <2>4 DEF Status
    <3>2. /\ n \in Session /\ n.pending = h.pending /\ n.phase = h.phase /\ n.busy = m.lock
          /\ n.stage = h.stage /\ n.trigger = h.trigger /\ n.todo = h.todo /\ n.known = h.known
      BY <1>0, <2>1 DEF Session
    <3> HIDE DEF n
    <3> QED
      BY <1>3, <3>1, <3>2, Heard DEF SameRun
  <2>5. CASE h.phase \notin {"status", "ready"}
    BY <1>q, <1>3, <2>2, <2>5 DEF Status
  <2> QED
    BY <2>3, <2>4, <2>5
<1>4. CASE m.type = "firmware" /\ h.phase = "firmware"
  <2> DEFINE n == [h EXCEPT !.phase = "ready"]
  <2>1. r = Sends(n, << >>)
    BY <1>4 DEF Handle, Quiet
  <2>2. /\ n \in Session /\ n.pending = h.pending /\ n.phase = "ready" /\ n.busy = h.busy
        /\ n.stage = h.stage /\ n.trigger = h.trigger /\ n.todo = h.todo /\ n.known = h.known
    BY <1>0 DEF Session, Phases
  <2> HIDE DEF n
  <2>3. r \in Answer /\ r.session = n /\ r.ask = << >> /\ r.import = {}
    BY <2>1, <2>2, Made
  <2> QED
    BY <1>0, <1>4, <2>2, <2>3 DEF Proceeds, SameRun, Sound
<1>5. ASSUME NEW busy \in {"unknown", "locked", "free"},
             NEW n, n = [h EXCEPT !.busy = busy, !.attempted = FALSE]
      PROVE  /\ n \in Session /\ n.pending = h.pending /\ n.phase = h.phase /\ n.busy = busy
             /\ SameRun(h, n)
  BY <1>0, <1>5 DEF Session, SameRun
<1>6. CASE m.type = "busy"
  <2>1. r = Quiet([h EXCEPT !.busy = "locked", !.attempted = FALSE])
    BY <1>6 DEF Handle
  <2> QED
    BY <1>5, <1>6, <2>1, Heard
<1>7. CASE m.type = "free"
  <2>1. r = Quiet([h EXCEPT !.busy = "free", !.attempted = FALSE])
    BY <1>7 DEF Handle
  <2> QED
    BY <1>5, <1>7, <2>1, Heard
<1>8. CASE m.type = "chunk"
  <2> DEFINE n == [h EXCEPT !.attempted = FALSE]
  <2>1. r = Quiet(n)
    BY <1>8 DEF Handle
  <2>2. /\ n \in Session /\ n.pending = h.pending /\ n.phase = h.phase /\ n.busy = h.busy
        /\ n.stage = h.stage /\ n.trigger = h.trigger /\ n.todo = h.todo /\ n.known = h.known
    BY <1>0 DEF Session
  <2> HIDE DEF n
  <2> QED
    BY <1>8, <2>1, <2>2, Heard DEF SameRun
<1>9. CASE m.type = "garbage"
  <2>1. r = Drop
    BY <1>9 DEF Handle
  <2> QED
    BY <2>1, Closed DEF Drop, Quiet, Sends
<1> QED
  BY <1>q, <1>1, <1>2, <1>3, <1>4, <1>6, <1>7, <1>8, <1>9 DEF Handle

\* A refusal ends the run and keeps the session.
LEMMA FailedKeeps ==
  ASSUME NEW h, Sound(h), NEW trigger \in {"startup", "manual"}, NEW reason \in Refusals,
         NEW r, r = Failed(h, trigger, reason)
  PROVE  /\ r \in Answer /\ Sound(r.session) /\ SameTalk(h, r.session)
         /\ r.session.stage = "none" /\ r.ask = << >> /\ r.import = {}
         /\ r.session.busy = IF trigger = "startup" THEN "locked" ELSE h.busy
         /\ h.stage = "none" => SameRun(h, r.session)
<1>0. /\ h \in Session
      /\ h.stage = "none" => (h.trigger = "none" /\ h.todo = {} /\ h.known = {})
  BY DEF Sound
<1> DEFINE e == Ended(h)
           n == IF trigger = "startup"
                  THEN [e EXCEPT !.attempted = FALSE, !.waiting = TRUE, !.busy = "locked",
                                 !.outcome = "refused"]
                  ELSE [e EXCEPT !.outcome = "refused"]
<1>1. r = Quiet(n)
  BY DEF Failed
<1>2. /\ e \in Session /\ e.pending = h.pending /\ e.phase = h.phase /\ e.busy = h.busy
      /\ e.stage = "none" /\ e.trigger = "none" /\ e.todo = {} /\ e.known = {}
  BY <1>0 DEF Ended, Session, Stages
<1> HIDE DEF e
<1>3. /\ n \in Session /\ n.pending = e.pending /\ n.phase = e.phase
      /\ n.busy = (IF trigger = "startup" THEN "locked" ELSE e.busy)
      /\ n.stage = e.stage /\ n.trigger = e.trigger /\ n.todo = e.todo /\ n.known = e.known
  BY <1>2 DEF Session
<1> HIDE DEF n
<1>4. r \in Answer /\ r.session = n /\ r.ask = << >> /\ r.import = {}
  BY <1>1, <1>3, Made
<1> QED
  BY <1>0, <1>2, <1>3, <1>4 DEF SameTalk, SameRun, Sound

\* synchronize, up to the first request.
LEMMA Begun ==
  ASSUME NEW h, Sound(h), h.stage = "none", NEW trigger \in {"startup", "manual"},
         NEW r, r = Begin(h, trigger), trigger = "startup" => SyncDue(h)
  PROVE  /\ r \in Answer /\ Sound(r.session)
         /\ \/ Starts(h, r) /\ h.phase = "ready" /\ r.session.busy = h.busy
            \/ trigger = "manual" /\ Stays(h, r)
<1>0. h \in Session /\ h.trigger = "none" /\ h.todo = {} /\ h.known = {}
  BY DEF Sound
<1> DEFINE tried == [h EXCEPT !.attempted = TRUE]
<1>1. /\ tried \in Session /\ tried.pending = h.pending /\ tried.phase = h.phase
      /\ tried.busy = h.busy /\ tried.stage = h.stage /\ tried.trigger = h.trigger
      /\ tried.todo = h.todo /\ tried.known = h.known
  BY <1>0 DEF Session
<1>2. r = IF h.phase # "ready" THEN Failed(tried, trigger, "device_session_negotiating")
          ELSE IF h.busy = "locked" THEN Failed(tried, trigger, "device_busy")
          ELSE Asks([tried EXCEPT !.trigger = trigger, !.stage = "logs"], "logs")
  BY DEF Begin
<1> HIDE DEF tried
<1>3. Sound(tried)
  BY <1>0, <1>1 DEF Sound
<1>4. CASE h.phase # "ready" \/ h.busy = "locked"
  <2>1. trigger = "manual"
    BY <1>4 DEF SyncDue
  <2>2. PICK reason \in Refusals : r = Failed(tried, trigger, reason)
    BY <1>2, <1>4 DEF Refusals
  <2>3. tried.stage = "none" /\ trigger # "startup"
    BY <1>1, <2>1
  <2>4. /\ r \in Answer /\ Sound(r.session) /\ SameTalk(tried, r.session)
        /\ r.ask = << >> /\ r.import = {} /\ r.session.busy = tried.busy
        /\ SameRun(tried, r.session)
    BY <1>3, <2>2, <2>3, FailedKeeps
  <2>5. SameTalk(h, r.session) /\ SameRun(h, r.session)
    BY <1>1, <2>4 DEF SameTalk, SameRun
  <2> QED
    BY <1>1, <2>1, <2>4, <2>5 DEF Stays
<1>5. CASE h.phase = "ready" /\ h.busy # "locked"
  <2> DEFINE n == [tried EXCEPT !.trigger = trigger, !.stage = "logs"]
             q == [type |-> "logs"]
  <2>1. r = Sends(n, << q >>) /\ q \in Ask
    BY <1>2, <1>5 DEF Asks, Ask
  <2>2. /\ n \in Session /\ n.pending = h.pending /\ n.phase = "ready" /\ n.busy = h.busy
        /\ n.stage = "logs" /\ n.trigger = trigger
    BY <1>1, <1>5 DEF Session, Stages
  <2> HIDE DEF n
  <2>3. r \in Answer /\ r.session = n /\ r.ask = << q >> /\ r.import = {}
    BY <2>1, <2>2, Made
  <2> QED
    BY <1>5, <2>2, <2>3 DEF Starts, Sound
<1> QED
  BY <1>4, <1>5

\* poll_session, and the synchronisation that may have become due.
LEMMA Polled ==
  ASSUME NEW h, NEW m \in Message, Sound(h), h.stage = "none",
         NEW r, r = Poll(h, m)
  PROVE  /\ r \in Answer /\ Sound(r.session)
         /\ \/ Drops(r) \/ TakesRequest(h, m, r) \/ Proceeds(h, m, r) \/ Hears(h, m, r)
            \/ Starts(h, r) /\ (h.busy = "locked" => Free(m))
<1> DEFINE p == Handle(h, m)
           n == p.session
<1>1. /\ p \in Answer /\ Sound(n)
      /\ Drops(p) \/ TakesRequest(h, m, p) \/ Proceeds(h, m, p) \/ Hears(h, m, p)
  BY Handled
<1>2. r = IF SyncDue(n) THEN Begin(n, "startup") ELSE p
  BY DEF Poll
<1> HIDE DEF p
<1>3. CASE ~SyncDue(n)
  BY <1>1, <1>2, <1>3
<1>4. CASE SyncDue(n)
  <2>1. n.phase = "ready" /\ n.stage = "none" /\ n.busy # "locked"
    BY <1>4 DEF SyncDue
  <2>2. /\ h.phase \in {"firmware", "ready"} /\ n.pending = h.pending
        /\ n.busy = h.busy \/ (m.type = "free") \/ (m.type = "status" /\ n.busy = m.lock)
    BY <1>1, <2>1 DEF Drops, TakesRequest, Proceeds, Hears, SameTalk, SameRun, Early
  <2>3. r \in Answer /\ Sound(r.session) /\ Starts(n, r) /\ r.session.busy = n.busy
    BY <1>1, <1>2, <1>4, <2>1, <2>2, Begun
  <2>4. Starts(h, r)
    BY <2>2, <2>3 DEF Starts
  <2>5. m.type = "status" => m.lock \in {"locked", "free"}
    BY DEF Message
  <2> QED
    BY <2>1, <2>2, <2>3, <2>4, <2>5 DEF Free
<1> QED
  BY <1>3, <1>4

\* The loop of synchronize_run goes on with a file that is left.
LEMMA ReadsOn ==
  ASSUME NEW h \in Session, h.stage = "files", h.trigger # "none", h.phase = "ready",
         NEW r, r = ReadOn(h)
  PROVE  /\ r \in Answer /\ Sound(r.session) /\ SameTalk(h, r.session)
         /\ r.session.busy = h.busy /\ r.import = {}
         /\ \/ /\ r.session.stage = "files" /\ r.session.trigger = h.trigger
               /\ r.ask = << [type |-> "read", file |-> First(r.session.todo, r.session.known)] >>
            \/ /\ r.session.stage = "none" /\ r.session.outcome = "done" /\ r.ask = << >>
<1>1. CASE h.todo = {}
  <2> DEFINE n == [Ended(h) EXCEPT !.outcome = "done"]
  <2>1. r = Sends(n, << >>)
    BY <1>1 DEF ReadOn, Quiet
  <2>2. /\ n \in Session /\ n.pending = h.pending /\ n.phase = h.phase /\ n.busy = h.busy
        /\ n.stage = "none" /\ n.trigger = "none" /\ n.outcome = "done"
        /\ n.todo = {} /\ n.known = {}
    BY DEF Ended, Session, Stages
  <2> HIDE DEF n
  <2>3. r \in Answer /\ r.session = n /\ r.ask = << >> /\ r.import = {}
    BY <2>1, <2>2, Made
  <2> QED
    BY <2>2, <2>3 DEF SameTalk, Sound
<1>2. CASE h.todo # {}
  <2> DEFINE q == [type |-> "read", file |-> First(h.todo, h.known)]
  <2>1. h.todo \in SUBSET File
    BY SessionFields
  <2>2. First(h.todo, h.known) \in File
    BY <1>2, <2>1, FirstIsLeft
  <2>3. r = Sends(h, << q >>) /\ q \in Ask
    BY <1>2, <2>2 DEF ReadOn, Ask
  <2>4. r \in Answer /\ r.session = h /\ r.ask = << q >> /\ r.import = {}
    BY <2>3, Made
  <2> QED
    BY <1>2, <2>4 DEF SameTalk, Sound
<1> QED
  BY <1>1, <1>2

\* request_transfer and what synchronize_run does with the reply.
LEMMA Transfers ==
  ASSUME NEW h, NEW m \in Message, Sound(h), h.stage # "none", imported \subseteq File \X File,
         NEW r, r = Transfer(h, m)
  PROVE  /\ r \in Answer /\ Sound(r.session)
         /\ Drops(r) \/ Fetches(h, m, r) \/ Refuses(h, m, r) \/ Hears(h, m, r)
<1>0. /\ h \in Session /\ h.trigger \in {"startup", "manual"} /\ h.phase = "ready"
      /\ h.stage \in {"logs", "profiles", "files"}
      /\ h.todo \in SUBSET File /\ h.known \in SUBSET File
  BY SessionFields DEF Sound, Stages
<1>d. CASE r = Drop
  BY <1>d, Closed DEF Drop, Quiet, Sends
<1>f. ASSUME NEW reason \in Refusals, r = Failed(h, h.trigger, reason), m.type \in {"busy", "refused"}
      PROVE  r \in Answer /\ Sound(r.session) /\ Refuses(h, m, r)
  BY <1>0, <1>f, FailedKeeps DEF Refuses
<1>1. CASE m.type = "directory" /\ Asked(h) = "directory"
  <2>1. m.entries \in SUBSET File
    BY <1>1 DEF Message
  <2>2. r = Listing(h, m)
    BY <1>1 DEF Transfer
  <2>3. CASE h.stage = "logs"
    <3> DEFINE n == [h EXCEPT !.stage = "profiles", !.todo = m.entries \cap Log]
               q == [type |-> "profiles"]
    <3>1. m.entries \cap Log \in SUBSET File
      BY <2>1
    <3>2. /\ n \in Session /\ n.pending = h.pending /\ n.phase = h.phase /\ n.busy = h.busy
          /\ n.stage = "profiles" /\ n.trigger = h.trigger
      BY <1>0, <3>1 DEF Session, Stages
    <3>3. r = Sends(n, << q >>) /\ q \in Ask
      BY <2>2, <2>3 DEF Listing, Asks, Ask
    <3> HIDE DEF n
    <3>4. r \in Answer /\ r.session = n /\ r.ask = << q >> /\ r.import = {}
      BY <3>2, <3>3, Made
    <3> QED
      BY <1>0, <1>1, <3>2, <3>4 DEF Fetches, SameTalk, Sound
  <2>4. CASE h.stage # "logs"
    <3> DEFINE n == [h EXCEPT !.stage = "files", !.todo = h.todo \cup (m.entries \cap Profile),
                              !.known = KnownPaths]
    <3>1. h.todo \cup (m.entries \cap Profile) \in SUBSET File /\ KnownPaths \in SUBSET File
      BY <1>0, <2>1 DEF KnownPaths
    <3>2. /\ n \in Session /\ n.pending = h.pending /\ n.phase = h.phase /\ n.busy = h.busy
          /\ n.stage = "files" /\ n.trigger = h.trigger
      BY <1>0, <3>1 DEF Session, Stages
    <3>3. r = ReadOn(n)
      BY <2>2, <2>4 DEF Listing
    <3> HIDE DEF n
    <3> QED
      BY <1>0, <1>1, <3>2, <3>3, ReadsOn DEF Fetches, SameTalk
  <2> QED
    BY <2>3, <2>4
<1>2. CASE m.type = "file" /\ Asked(h) = "file"
  <2>1. m.file \in File /\ h.stage = "files"
    BY <1>2 DEF Message, Asked
  <2> DEFINE path == First(h.todo, h.known)
             n == [h EXCEPT !.todo = h.todo \ {path}]
             s == ReadOn(n)
  <2>2. r = [s EXCEPT !.import = {<<path, m.file>>}]
    BY <1>2 DEF Transfer, Transferred
  <2>3. /\ n \in Session /\ n.pending = h.pending /\ n.phase = h.phase /\ n.busy = h.busy
        /\ n.stage = "files" /\ n.trigger = h.trigger
    BY <1>0, <2>1 DEF Session, Stages
  <2> HIDE DEF n
  <2>4. /\ s \in Answer /\ Sound(s.session) /\ SameTalk(n, s.session)
        /\ s.session.busy = n.busy /\ s.import = {}
        /\ \/ /\ s.session.stage = "files" /\ s.session.trigger = n.trigger
              /\ s.ask = << [type |-> "read", file |-> First(s.session.todo, s.session.known)] >>
           \/ /\ s.session.stage = "none" /\ s.session.outcome = "done" /\ s.ask = << >>
    BY <1>0, <2>3, ReadsOn
  <2>5. path \in File
    BY <1>0, <2>1, FirstIsLeft DEF Sound
  <2> HIDE DEF s, path
  <2>6. r \in Answer /\ r.session = s.session /\ r.ask = s.ask /\ r.import = {<<path, m.file>>}
    BY <2>1, <2>2, <2>4, <2>5 DEF Answer
  <2> USE DEF path
  <2> QED
    BY <1>0, <1>2, <2>1, <2>3, <2>4, <2>6 DEF Fetches, SameTalk
<1>3. CASE m.type = "refused" /\ m.kind = Asked(h)
  <2>1. r = Failed(h, h.trigger, "sassi_outcome_103")
    BY <1>3 DEF Transfer
  <2> QED
    BY <1>f, <1>3, <2>1 DEF Refusals
<1>4. CASE m.type = "busy"
  <2>1. r = Failed(h, h.trigger, "device_busy")
    BY <1>4 DEF Transfer
  <2> QED
    BY <1>f, <1>4, <2>1 DEF Refusals
<1>5. CASE m.type \in {"request", "garbage"}
  <2>1. r = Drop
    BY <1>5 DEF Transfer, Failed, Refusals
  <2> QED
    BY <1>d, <2>1
<1>6. CASE m.type = "chunk"
  <2> DEFINE n == [h EXCEPT !.attempted = FALSE]
  <2>1. r = Sends(n, << >>)
    BY <1>6 DEF Transfer, Quiet
  <2>2. /\ n \in Session /\ n.pending = h.pending /\ n.phase = h.phase /\ n.busy = h.busy
        /\ n.stage = h.stage /\ n.trigger = h.trigger /\ n.todo = h.todo /\ n.known = h.known
    BY <1>0 DEF Session
  <2> HIDE DEF n
  <2>3. r \in Answer /\ r.session = n /\ r.ask = << >> /\ r.import = {}
    BY <2>1, <2>2, Made
  <2> QED
    BY <1>0, <2>2, <2>3 DEF Hears, SameTalk, SameRun, Sound
<1>7. CASE r = Quiet(h)
  <2>1. r \in Answer /\ r.session = h /\ r.ask = << >> /\ r.import = {}
    BY <1>0, <1>7, Made
  <2> QED
    BY <1>0, <2>1 DEF Hears, SameTalk, SameRun
<1> QED
  BY <1>1, <1>2, <1>3, <1>4, <1>5, <1>6, <1>7 DEF Transfer

-----------------------------------------------------------------------------
(* Types, and the worker's steps as turns.                                 *)

NanoTypes ==
  [open : BOOLEAN, seed : Nat, roast : {"none", "begun", "logged"}, files : SUBSET File]

TypeInv ==
  /\ Sound(host)
  /\ imported \subseteq File \X File
  /\ wire \in Seq(Message) /\ asks \in Seq(Ask)
  /\ nano \in NanoTypes
  /\ {syncs, drops, resets, refused} \subseteq Nat

\* What a turn does that reads nothing.
Alone(r) ==
  \/ Drops(r)
  \/ /\ host.phase = "handshake" /\ host.pending # << >> /\ r.ask # << >>
     /\ TakesRequest(host, host.pending[1], r)
  \/ Stays(host, r)
  \/ Starts(host, r) /\ host.busy # "locked"

\* What a turn does about the message it reads.
Reads(m, r) ==
  \/ Drops(r) \/ TakesRequest(host, m, r) \/ Proceeds(host, m, r) \/ Hears(host, m, r)
  \/ Starts(host, r) /\ (host.busy = "locked" => Free(m))
  \/ Fetches(host, m, r) \/ Refuses(host, m, r)

\* A turn that reads d messages.
Turn(d, r) ==
  /\ host.phase # "closed" /\ Sound(r.session) /\ UNCHANGED nano
  /\ d = 0 => Alone(r) /\ Become(r, wire)
  /\ d = 1 => wire # << >> /\ Reads(Head(wire), r) /\ Become(r, Tail(wire))

\* The worker's own steps, but for a new transport.
WorkerStep ==
  \/ AnswerPending \/ Receive \/ StartDue \/ PollStatus \/ Settle \/ RetryDue
  \/ Timeout \/ NegotiationTimeout \/ Synchronize \/ Lose

\* Every step of the worker is such a turn.
LEMMA Turns ==
  ASSUME TypeInv, WorkerStep
  PROVE  \E r \in Answer, d \in {0, 1} : Turn(d, r)
<1>0. Sound(host) /\ host \in Session /\ Drop \in Answer /\ Drops(Drop) /\ Sound(Drop.session)
  BY Closed DEF TypeInv, Sound, Drop, Quiet, Sends
<1>1. CASE AnswerPending
  <2> DEFINE m == host.pending[1]
             r == Handle(host, m)
  <2>1. host.phase = "handshake" /\ host.settled /\ host.pending # << >> /\ Become(r, wire)
        /\ UNCHANGED nano
    BY <1>1 DEF AnswerPending, HasPending
  <2>2. m \in [type : {"request"}, seed : Nat]
    <3>1. host.pending \in Seq([type : {"request"}, seed : Nat])
      BY <1>0, SessionFields
    <3>2. \A S : \A s \in Seq(S) : s # << >> => s[1] \in S
      OBVIOUS
    <3> QED
      BY <2>1, <3>1, <3>2
  <2>3. m \in Message /\ m.type = "request" /\ host.stage = "none"
    BY <1>0, <2>1, <2>2 DEF Message, Sound
  <2>4. r = Sends([host EXCEPT !.pending = << >>, !.seed = << m.seed >>, !.phase = "time"],
                  << [type |-> "time", seed |-> m.seed] >>)
    BY <2>1, <2>3 DEF Handle, Request
  <2>5. r.ask # << >>
    BY <2>4 DEF Sends
  <2>6. /\ r \in Answer /\ Sound(r.session)
        /\ Drops(r) \/ TakesRequest(host, m, r) \/ Proceeds(host, m, r) \/ Hears(host, m, r)
    BY <1>0, <2>3, Handled
  <2> HIDE DEF r
  <2>7. TakesRequest(host, m, r)
    BY <2>3, <2>5, <2>6 DEF Drops, Proceeds, Hears
  <2>8. Alone(r)
    BY <2>1, <2>5, <2>7 DEF Alone
  <2>9. Turn(0, r)
    BY <2>1, <2>6, <2>8 DEF Turn
  <2> QED
    BY <2>6, <2>9
<1>2. CASE Receive
  <2> DEFINE m == Head(wire)
             r == IF Syncing THEN Transfer(host, m) ELSE Poll(host, m)
  <2>1. wire # << >> /\ host.phase # "closed" /\ Become(r, Tail(wire)) /\ UNCHANGED nano
    BY <1>2 DEF Receive
  <2>2. m \in Message
    BY <2>1 DEF TypeInv
  <2>3. r \in Answer /\ Sound(r.session) /\ Reads(m, r)
    <3>1. CASE Syncing
      BY <1>0, <2>2, <3>1, Transfers DEF Syncing, Reads, TypeInv
    <3>2. CASE ~Syncing
      BY <1>0, <2>2, <3>2, Polled DEF Syncing, Reads
    <3> QED
      BY <3>1, <3>2
  <2> HIDE DEF r
  <2> QED
    BY <2>1, <2>3 DEF Turn
<1>3. CASE StartDue
  <2> DEFINE r == Begin(host, "startup")
  <2>1. /\ SyncDue(host) /\ Become(r, wire) /\ UNCHANGED nano
        /\ host.stage = "none" /\ host.phase = "ready" /\ host.busy # "locked"
    BY <1>3 DEF StartDue, SyncDue
  <2>2. r \in Answer /\ Sound(r.session) /\ Starts(host, r)
    BY <1>0, <2>1, Begun
  <2> HIDE DEF r
  <2> QED
    BY <2>1, <2>2 DEF Turn, Alone
<1>4. CASE PollStatus
  <2> DEFINE r == Asks(host, "status")
  <2>1. Become(r, wire) /\ UNCHANGED nano /\ host.phase = "ready"
    BY <1>4 DEF PollStatus
  <2>2. r \in Answer /\ r.session = host /\ r.ask = << [type |-> "status"] >> /\ r.import = {}
    BY <1>0, Made DEF Asks, Ask
  <2> HIDE DEF r
  <2>3. Stays(host, r) /\ Sound(r.session)
    BY <1>0, <2>1, <2>2 DEF Stays, SameTalk, SameRun
  <2> QED
    BY <2>1, <2>2, <2>3 DEF Turn, Alone
<1>5. CASE Settle \/ RetryDue
  <2> DEFINE r == Quiet(host')
  <2>1. /\ host' \in {[host EXCEPT !.settled = TRUE], [host EXCEPT !.waiting = FALSE]}
        /\ UNCHANGED <<imported, wire, asks, nano, refused>>
        /\ host.phase # "closed" /\ host.stage = "none"
    BY <1>5 DEF Settle, RetryDue, Idle
  <2>2. /\ host' \in Session /\ host'.phase = host.phase /\ host'.pending = host.pending
        /\ host'.busy = host.busy /\ host'.stage = host.stage /\ host'.trigger = host.trigger
        /\ host'.todo = host.todo /\ host'.known = host.known
    BY <1>0, <2>1 DEF Session
  <2>3. r \in Answer /\ r.session = host' /\ r.ask = << >> /\ r.import = {}
    BY <2>2, Made
  <2>4. Sound(r.session) /\ Stays(host, r)
    BY <1>0, <2>2, <2>3 DEF Sound, Stays, SameTalk, SameRun
  <2> HIDE DEF r
  <2>5. host.trigger = "none"
    BY <1>0, <2>1 DEF Sound
  <2>6. Become(r, wire)
    BY <2>1, <2>2, <2>3, <2>5 DEF Become, TypeInv
  <2> QED
    BY <2>1, <2>3, <2>4, <2>6 DEF Turn, Alone
<1>6. CASE Timeout
  <2>1. Failed(host, host.trigger, "request_timeout") = Drop
    BY DEF Failed, Refusals
  <2>2. host.phase # "closed"
    BY <1>0, <1>6 DEF Timeout, Syncing, Sound
  <2>3. Become(Drop, wire) /\ UNCHANGED nano
    BY <1>6, <2>1 DEF Timeout
  <2> QED
    BY <1>0, <2>2, <2>3 DEF Turn, Alone
<1>7. CASE NegotiationTimeout \/ Lose
  <2>1. Become(Drop, wire) /\ UNCHANGED nano /\ host.phase # "closed"
    BY <1>7 DEF NegotiationTimeout, Lose
  <2> QED
    BY <1>0, <2>1 DEF Turn, Alone
<1>8. CASE Synchronize
  <2> DEFINE r == Begin(host, "manual")
  <2>1. Become(r, wire) /\ UNCHANGED nano /\ host.stage = "none" /\ host.phase # "closed"
    BY <1>8 DEF Synchronize, Idle
  <2>2. /\ r \in Answer /\ Sound(r.session)
        /\ (Starts(host, r) /\ r.session.busy = host.busy) \/ Stays(host, r)
    BY <1>0, <2>1, Begun
  <2> HIDE DEF r
  <2>3. Alone(r)
    BY <2>2 DEF Alone, Starts
  <2> QED
    BY <2>1, <2>2, <2>3 DEF Turn
<1> QED
  BY <1>1, <1>2, <1>3, <1>4, <1>5, <1>6, <1>7, <1>8 DEF WorkerStep

\* What a turn leaves of what is on its way, and what it adds.
LEMMA TurnLeaves ==
  ASSUME TypeInv, NEW r \in Answer, NEW d \in {0, 1}, Turn(d, r)
  PROVE  /\ host' = r.session /\ UNCHANGED nano
         /\ wire' \in Seq(Message) /\ asks' \in Seq(Ask)
         /\ \/ r.session.phase = "closed" /\ wire' = << >> /\ asks' = << >>
            \/ /\ r.session.phase # "closed"
               /\ Len(wire) - d \in Nat /\ DOMAIN wire = 1 .. Len(wire)
               /\ DOMAIN wire' = 1 .. Len(wire) - d
               /\ \A i \in DOMAIN wire' : i + d \in DOMAIN wire /\ wire'[i] = wire[i + d]
               /\ \A k \in DOMAIN asks' :
                    \/ k \in DOMAIN asks /\ asks'[k] = asks[k]
                    \/ k = Len(asks) + 1 /\ k \notin DOMAIN asks /\ r.ask = << asks'[k] >>
               /\ r.ask = << >> => asks' = asks
         /\ imported' \subseteq imported \cup r.import
         /\ refused' = IF /\ host.trigger = "startup" /\ r.session.trigger = "none"
                          /\ r.session.outcome = "refused"
                         THEN refused + 1 ELSE refused
<1>t. wire \in Seq(Message) /\ asks \in Seq(Ask)
  BY DEF TypeInv
<1> DEFINE unread == IF d = 0 THEN wire ELSE Tail(wire)
<1>1. Become(r, unread) /\ UNCHANGED nano /\ (d = 1 => wire # << >>)
  BY DEF Turn
<1>2. /\ unread \in Seq(Message) /\ Len(wire) - d \in Nat /\ DOMAIN wire = 1 .. Len(wire)
      /\ DOMAIN unread = 1 .. Len(wire) - d
      /\ \A i \in DOMAIN unread : i + d \in DOMAIN wire /\ unread[i] = wire[i + d]
  <2>1. CASE d = 0
    BY <1>t, <2>1
  <2>2. CASE d = 1
    <3>1. wire # << >>
      BY <1>1, <2>2
    <3>2. /\ Tail(wire) \in Seq(Message) /\ Len(Tail(wire)) = Len(wire) - 1
          /\ \A i \in 1 .. Len(wire) - 1 : Tail(wire)[i] = wire[i + 1]
      BY <1>t, <3>1
    <3> QED
      BY <1>t, <2>2, <3>1, <3>2
  <2> QED
    BY <2>1, <2>2
<1> HIDE DEF unread
<1>3. /\ asks \o r.ask \in Seq(Ask)
      /\ \A k \in DOMAIN (asks \o r.ask) :
           \/ k \in DOMAIN asks /\ (asks \o r.ask)[k] = asks[k]
           \/ k = Len(asks) + 1 /\ k \notin DOMAIN asks /\ r.ask = << (asks \o r.ask)[k] >>
      /\ r.ask = << >> => asks \o r.ask = asks
  <2>1. r.ask \in {<< >>} \cup {<< q >> : q \in Ask}
    BY DEF Answer
  <2>2. CASE r.ask = << >>
    BY <1>t, <2>2
  <2>3. ASSUME NEW q \in Ask, r.ask = << q >>
        PROVE  <1>3!1 /\ <1>3!2 /\ <1>3!3
    BY <1>t, <2>3
  <2> QED
    BY <2>1, <2>2, <2>3
<1>4. imported' \subseteq imported \cup r.import
  BY <1>1 DEF Become
<1>5. host' = r.session
  BY <1>1 DEF Become
<1>6. refused' = IF /\ host.trigger = "startup" /\ r.session.trigger = "none"
                    /\ r.session.outcome = "refused"
                   THEN refused + 1 ELSE refused
  BY <1>1 DEF Become
<1>7. CASE r.session.phase = "closed"
  <2>1. wire' = << >> /\ asks' = << >>
    BY <1>1, <1>7 DEF Become
  <2> QED
    BY <1>1, <1>4, <1>5, <1>6, <1>7, <2>1
<1>8. CASE r.session.phase # "closed"
  <2>1. wire' = unread /\ asks' = asks \o r.ask
    BY <1>1, <1>8 DEF Become
  <2> QED
    BY <1>1, <1>2, <1>3, <1>4, <1>5, <1>6, <1>8, <2>1
<1> QED
  BY <1>7, <1>8

\* A message more on the wire, or none.
LEMMA Sent ==
  ASSUME TypeInv, NEW ms \in {<< >>} \cup {<< m >> : m \in Message}, wire' = wire \o ms
  PROVE  /\ wire' \in Seq(Message)
         /\ DOMAIN wire = 1 .. Len(wire) /\ Len(wire) \in Nat
         /\ \A i \in DOMAIN wire : i \in DOMAIN wire' /\ wire'[i] = wire[i]
         /\ \A i \in DOMAIN wire' :
              \/ i \in DOMAIN wire
              \/ i = Len(wire) + 1 /\ i \notin DOMAIN wire /\ ms = << wire'[i] >>
         /\ ms # << >> => (Len(wire) + 1 \in DOMAIN wire' /\ ms = << wire'[Len(wire) + 1] >>)
<1>t. wire \in Seq(Message)
  BY DEF TypeInv
<1>1. CASE ms = << >>
  BY <1>t, <1>1
<1>2. ASSUME NEW m \in Message, ms = << m >>
      PROVE  /\ wire' \in Seq(Message)
             /\ DOMAIN wire = 1 .. Len(wire) /\ Len(wire) \in Nat
             /\ \A i \in DOMAIN wire : i \in DOMAIN wire' /\ wire'[i] = wire[i]
             /\ \A i \in DOMAIN wire' :
                  \/ i \in DOMAIN wire
                  \/ i = Len(wire) + 1 /\ i \notin DOMAIN wire /\ ms = << wire'[i] >>
             /\ Len(wire) + 1 \in DOMAIN wire' /\ ms = << wire'[Len(wire) + 1] >>
  BY <1>t, <1>2
<1> QED
  BY <1>1, <1>2

\* The next request is served, and what is said of it is one message or nothing.
LEMMA Served ==
  ASSUME TypeInv, Serve
  PROVE  /\ asks # << >> /\ Head(asks) \in Ask /\ Head(asks) = asks[1] /\ 1 \in DOMAIN asks
         /\ asks' \in Seq(Ask) /\ DOMAIN asks = 1 .. Len(asks) /\ Len(asks) \in Nat
         /\ DOMAIN asks' = 1 .. Len(asks) - 1
         /\ \A k \in DOMAIN asks' : k + 1 \in DOMAIN asks /\ asks'[k] = asks[k + 1]
         /\ ReplyTo(Head(asks)) \in {<< >>} \cup {<< m >> : m \in Message}
<1>t. asks \in Seq(Ask) /\ asks # << >>
  BY DEF TypeInv, Serve
<1>1. asks' = Tail(asks)
  BY DEF Serve
<1>2. Head(asks) \in Ask
  BY <1>t
<1>3. \A q \in Ask : ReplyTo(q) \in {<< >>} \cup {<< m >> : m \in Message}
  <2> SUFFICES ASSUME NEW q \in Ask
               PROVE  ReplyTo(q) \in {<< >>} \cup {<< m >> : m \in Message}
    OBVIOUS
  <2>1. \A m \in Message : << m >> \in {<< n >> : n \in Message}
    OBVIOUS
  <2>2. nano.files \in SUBSET File /\ Lock \in {"locked", "free"}
    BY DEF TypeInv, NanoTypes, Lock
  <2>3. /\ [type |-> "time"] \in Message /\ [type |-> "firmware"] \in Message
        /\ [type |-> "garbage"] \in Message /\ [type |-> "status", lock |-> Lock] \in Message
        /\ [type |-> "refused", kind |-> "directory"] \in Message
        /\ [type |-> "refused", kind |-> "file"] \in Message
    BY <2>2 DEF Message
  <2>4. \A set \in SUBSET File : [type |-> "directory", entries |-> nano.files \cap set] \in Message
    BY <2>2 DEF Message
  <2>5. q.type = "read" => [type |-> "file", file |-> q.file] \in Message
    BY DEF Message, Ask
  <2>6. Log \in SUBSET File /\ Profile \in SUBSET File
    BY DEF File
  <2> QED
    BY <2>1, <2>3, <2>4, <2>5, <2>6 DEF ReplyTo
<1>4. /\ Tail(asks) \in Seq(Ask) /\ Len(Tail(asks)) = Len(asks) - 1 /\ Len(asks) \in Nat \ {0}
      /\ \A k \in 1 .. Len(asks) - 1 : Tail(asks)[k] = asks[k + 1]
  BY <1>t
<1> QED
  BY <1>t, <1>1, <1>2, <1>3, <1>4

\* The steps of Next.
LEMMA Steps ==
  ASSUME [Next]_vars
  PROVE  \/ WorkerStep \/ Connect \/ NanoRequest \/ Serve
         \/ RoastBegins \/ RoastWrites \/ RoastEnds \/ NanoResets \/ UNCHANGED vars
  BY DEF Next, Host, WorkerStep

\* What the Nano says of a roast.
RoastWords == {"busy", "chunk", "free"}

\* The Nano says a word about the roast, or nothing.
LEMMA Said ==
  ASSUME TypeInv, NEW w \in RoastWords, wire' \in {wire, Says(w)}
  PROVE  \E ms \in {<< >>} \cup {<< m >> : m \in Message} :
           wire' = wire \o ms /\ (ms # << >> => nano.open /\ ms = << [type |-> w] >>)
<1>1. [type |-> w] \in Message
  BY DEF Message, RoastWords
<1>2. wire \in Seq(Message)
  BY DEF TypeInv
<1>3. wire = wire \o << >> /\ Append(wire, [type |-> w]) = wire \o << [type |-> w] >>
  BY <1>1, <1>2
<1>4. CASE wire' = wire
  BY <1>3, <1>4
<1>5. CASE nano.open /\ wire' = Append(wire, [type |-> w])
  <2>1. << [type |-> w] >> \in {<< m >> : m \in Message}
    BY <1>1
  <2> QED
    BY <1>3, <1>5, <2>1
<1> QED
  BY <1>4, <1>5 DEF Says

\* Every step keeps the types.
LEMMA TypeStep ==
  ASSUME TypeInv, [Next]_vars
  PROVE  TypeInv'
<1>t. /\ Sound(host) /\ host \in Session /\ imported \subseteq File \X File
      /\ wire \in Seq(Message) /\ asks \in Seq(Ask) /\ nano \in NanoTypes
      /\ syncs \in Nat /\ drops \in Nat /\ resets \in Nat /\ refused \in Nat
  BY DEF TypeInv, Sound
<1>1. CASE WorkerStep
  <2>1. PICK r \in Answer, d \in {0, 1} : Turn(d, r)
    BY <1>1, Turns
  <2>2. /\ host' = r.session /\ UNCHANGED nano /\ wire' \in Seq(Message) /\ asks' \in Seq(Ask)
        /\ imported' \subseteq imported \cup r.import /\ refused' \in Nat
    BY <1>t, <2>1, TurnLeaves
  <2>3. Sound(host') /\ r.import \subseteq File \X File
    BY <2>1, <2>2 DEF Turn, Answer
  <2>4. {syncs', drops', resets'} \subseteq Nat
    BY <1>t, <1>1 DEF WorkerStep, AnswerPending, Receive, StartDue, PollStatus, Settle, RetryDue,
                      Timeout, NegotiationTimeout, Synchronize, Lose, bounds
  <2> QED
    BY <1>t, <2>2, <2>3, <2>4 DEF TypeInv
<1>2. CASE Connect
  <2>1. PICK bridge \in BOOLEAN, replay \in {<< >>, << 0 >>, << 1 >>, << 0, 1 >>} :
          /\ host' = [NoSession EXCEPT !.phase = "handshake", !.settled = ~bridge]
          /\ wire' = Requests(replay)
    BY <1>2 DEF Connect
  <2>2. Sound(host')
    <3>1. /\ NoSession \in Session /\ NoSession.stage = "none" /\ NoSession.trigger = "none"
          /\ NoSession.todo = {} /\ NoSession.known = {}
      BY Closed DEF Sound, NoSession
    <3>2. /\ host' \in Session /\ host'.stage = "none" /\ host'.trigger = "none"
          /\ host'.todo = {} /\ host'.known = {}
      BY <2>1, <3>1 DEF Session, Phases
    <3> QED
      BY <3>2 DEF Sound
  <2>3. replay \in Seq(Nat)
    <3>1. << >> \in Seq(Nat) /\ << 0 >> \in Seq(Nat) /\ << 1 >> \in Seq(Nat) /\ << 0, 1 >> \in Seq(Nat)
      OBVIOUS
    <3> QED
      BY <3>1
  <2>4. \A n \in Nat : [type |-> "request", seed |-> n] \in Message
    BY DEF Message
  <2>5. wire' \in Seq(Message)
    BY <2>1, <2>3, <2>4 DEF Requests
  <2>6. nano' \in NanoTypes
    BY <1>t, <1>2 DEF Connect, NanoTypes
  <2> QED
    BY <1>t, <1>2, <2>2, <2>5, <2>6 DEF TypeInv, Connect, bounds
<1>3. CASE NanoRequest
  <2>1. [type |-> "request", seed |-> nano.seed] \in Message
    BY <1>t DEF Message, NanoTypes
  <2>2. wire' \in Seq(Message)
    BY <1>t, <1>3, <2>1 DEF NanoRequest
  <2> QED
    BY <1>t, <1>3, <2>2 DEF TypeInv, NanoRequest, bounds
<1>4. CASE Serve
  <2>1. wire' = wire \o ReplyTo(Head(asks)) /\ UNCHANGED <<host, imported, bounds, refused>>
    BY <1>4 DEF Serve
  <2>2. wire' \in Seq(Message) /\ asks' \in Seq(Ask)
    BY <1>4, <2>1, Served, Sent
  <2>3. nano' \in NanoTypes
    BY <1>t, <1>4 DEF Serve, NanoTypes, Opens
  <2> QED
    BY <1>t, <2>1, <2>2, <2>3 DEF TypeInv, bounds
<1>5. CASE RoastBegins \/ RoastWrites \/ RoastEnds
  <2>1. PICK w \in RoastWords : wire' \in {wire, Says(w)}
    BY <1>5 DEF RoastBegins, RoastWrites, RoastEnds, RoastWords
  <2>2. wire' \in Seq(Message)
    BY <2>1, Said, Sent
  <2>3. UNCHANGED <<host, imported, asks, bounds>> /\ refused' \in {0, refused}
    <3>1. CASE RoastBegins
      BY <3>1 DEF RoastBegins
    <3>2. CASE RoastWrites
      BY <3>2 DEF RoastWrites
    <3>3. CASE RoastEnds
      BY <3>3 DEF RoastEnds
    <3> QED
      BY <1>5, <3>1, <3>2, <3>3
  <2>4. nano' \in NanoTypes
    <3>1. nano.files \in SUBSET File /\ Log \subseteq File
      BY <1>t DEF NanoTypes, File
    <3>2. CASE RoastBegins
      BY <1>t, <3>2 DEF RoastBegins, NanoTypes
    <3>3. CASE RoastWrites
      <4>1. PICK f \in Log : nano' = [nano EXCEPT !.roast = "logged", !.files = nano.files \cup {f}]
        BY <3>3 DEF RoastWrites
      <4>2. nano.files \cup {f} \in SUBSET File
        BY <3>1
      <4> QED
        BY <1>t, <4>1, <4>2 DEF NanoTypes
    <3>4. CASE RoastEnds
      BY <1>t, <3>4 DEF RoastEnds, NanoTypes
    <3> QED
      BY <1>5, <3>2, <3>3, <3>4
  <2> QED
    BY <1>t, <2>2, <2>3, <2>4 DEF TypeInv, bounds
<1>6. CASE NanoResets
  <2>1. asks' \in Seq(Ask) /\ resets' \in Nat
    BY <1>t, <1>6 DEF NanoResets
  <2>2. nano' \in NanoTypes
    <3>1. nano.seed \in Nat /\ nano.seed + 1 \in Nat
      BY <1>t DEF NanoTypes
    <3> DEFINE n == nano.seed + 1
    <3>2. nano' = [nano EXCEPT !.open = FALSE, !.roast = "none", !.seed = n]
      BY <1>6 DEF NanoResets
    <3> HIDE DEF n
    <3>3. n \in Nat
      BY <3>1 DEF n
    <3> QED
      BY <1>t, <3>2, <3>3 DEF NanoTypes
  <2> QED
    BY <1>t, <1>6, <2>1, <2>2 DEF TypeInv, NanoResets
<1>7. CASE UNCHANGED vars
  BY <1>7 DEF vars, bounds, TypeInv
<1> QED
  BY <1>1, <1>2, <1>3, <1>4, <1>5, <1>6, <1>7, Steps

-----------------------------------------------------------------------------
(* The handshake.  The Nano counts its requests, so the one that opens the *)
(* session is the last that was asked: after it there are no others.       *)

Greeted == host.phase \in Past \/ \E i \in DOMAIN wire : wire[i].type = "time"

\* Before its first answer a new session has heard nothing but requests.
FirstWords ==
  host.phase = "handshake" =>
    (asks = << >> /\ ~nano.open /\ \A i \in DOMAIN wire : wire[i].type = "request")

\* A request on its way is newer than all that were answered or kept, and no answer of
\* the Nano follows it.
Newest(i) ==
  /\ wire[i].seed <= nano.seed
  /\ \A k \in DOMAIN asks : asks[k].type = "time" => asks[k].seed < wire[i].seed
  /\ host.pending # << >> => host.pending[1].seed < wire[i].seed
  /\ \A j \in DOMAIN wire : j > i => (wire[j].type # "time"
       /\ (wire[j].type = "request" => wire[i].seed < wire[j].seed))

InOrder ==
  host.phase \in Early => \A i \in DOMAIN wire : wire[i].type = "request" => Newest(i)

\* A Nano that was reset after it had answered stays deaf: no request that would open it
\* is under way.
DeafInv == (~nano.open /\ Greeted) => \A k \in DOMAIN asks : ~Opens(asks[k])

HandshakeInv ==
  /\ host.phase = "closed" => asks = << >>
  /\ FirstWords
  /\ (host.phase = "time" /\ nano.open) => Greeted
  /\ InOrder
  /\ DeafInv

\* A turn keeps it.
LEMMA HandshakeTurn ==
  ASSUME TypeInv, HandshakeInv, NEW r \in Answer, NEW d \in {0, 1}, Turn(d, r)
  PROVE  HandshakeInv'
<1> DEFINE m == Head(wire)
<1>1. /\ host' = r.session /\ UNCHANGED nano /\ host.phase # "closed" /\ nano.open \in BOOLEAN
      /\ nano.seed \in Nat
  BY TurnLeaves DEF Turn, TypeInv, NanoTypes
<1>2. CASE r.session.phase = "closed"
  <2>1. wire' = << >> /\ asks' = << >>
    BY <1>2, TurnLeaves
  <2> QED
    BY <1>1, <1>2, <2>1 DEF HandshakeInv, FirstWords, InOrder, DeafInv, Greeted, Early, Past
<1>3. CASE r.session.phase # "closed"
  <2>1. /\ Len(wire) - d \in Nat /\ DOMAIN wire = 1 .. Len(wire)
        /\ DOMAIN wire' = 1 .. Len(wire) - d
        /\ \A i \in DOMAIN wire' : i + d \in DOMAIN wire /\ wire'[i] = wire[i + d]
        /\ \A k \in DOMAIN asks' :
             \/ k \in DOMAIN asks /\ asks'[k] = asks[k]
             \/ k = Len(asks) + 1 /\ k \notin DOMAIN asks /\ r.ask = << asks'[k] >>
        /\ r.ask = << >> => asks' = asks
    BY <1>3, TurnLeaves
  <2>2. d = 1 => (1 \in DOMAIN wire /\ m = wire[1] /\ Reads(m, r))
    BY <2>1 DEF Turn, TypeInv
  <2>3. d = 0 => Alone(r)
    BY DEF Turn
  <2>4. CASE /\ r.session.phase = host.phase /\ r.session.pending = host.pending
             /\ \A q : r.ask = << q >> => q.type # "time"
             /\ host.phase = "handshake" => r.ask = << >>
             /\ d = 1 => ~(m.type = "time" /\ host.phase = "time")
    <3>1. Greeted' => Greeted
      BY <1>1, <2>1, <2>4 DEF Greeted
    <3>2. (host.phase = "time" /\ Greeted) => Greeted'
      <4> SUFFICES ASSUME host.phase = "time", NEW i \in DOMAIN wire, wire[i].type = "time"
                   PROVE  Greeted'
        BY DEF Greeted, Past
      <4>1. i \in Int /\ i > d /\ d \in Int
        BY <2>1, <2>2, <2>4
      <4>2. i - d \in DOMAIN wire' /\ wire'[i - d] = wire[i]
        BY <2>1, <4>1
      <4> QED
        BY <4>2 DEF Greeted
    <3>4. FirstWords'
      BY <1>1, <2>1, <2>4 DEF HandshakeInv, FirstWords
    <3>5. InOrder'
      BY <1>1, <2>1, <2>4 DEF HandshakeInv, InOrder, Newest
    <3>6. DeafInv'
      BY <1>1, <2>1, <2>4, <3>1 DEF HandshakeInv, DeafInv, Opens
    <3> QED
      BY <1>1, <1>3, <2>4, <3>2, <3>4, <3>5, <3>6 DEF HandshakeInv
  <2>5. CASE /\ r.session.phase \in Past
             /\ host.phase \in Past \/ (d = 1 /\ m.type = "time")
             /\ \A q : r.ask = << q >> => q.type # "time"
    <3>1. Greeted
      BY <2>2, <2>5 DEF Greeted
    <3>2. Greeted' /\ host'.phase \notin Early /\ host'.phase \notin {"closed", "handshake", "time"}
      BY <1>1, <2>5 DEF Greeted, Early, Past
    <3>3. DeafInv'
      BY <1>1, <2>1, <2>5, <3>1 DEF HandshakeInv, DeafInv, Opens
    <3> QED
      BY <3>2, <3>3 DEF HandshakeInv, FirstWords, InOrder
  <2>6. CASE d = 1 /\ TakesRequest(host, m, r)
    <3>1. m.type = "request" /\ host.phase \in Early /\ Newest(1) /\ 1 \in DOMAIN wire /\ m = wire[1]
      BY <2>2, <2>6 DEF TakesRequest, HandshakeInv, InOrder
    <3>2. \A i \in DOMAIN wire' : /\ i + 1 \in DOMAIN wire /\ i + 1 > 1 /\ wire'[i] = wire[i + 1]
                                  /\ wire'[i].type # "time"
                                  /\ wire'[i].type = "request" => m.seed < wire'[i].seed
      BY <2>1, <2>6, <3>1 DEF Newest
    <3>3. ~Greeted
      BY <2>1, <3>1 DEF Greeted, Early, Past, Newest
    <3>4. host'.phase \in Early /\ ~nano.open
      BY <1>1, <2>6, <3>1, <3>3 DEF TakesRequest, HandshakeInv, FirstWords, Early
    <3>5. ~Greeted'
      BY <3>2, <3>4 DEF Greeted, Early, Past
    <3>6. FirstWords'
      BY <1>1, <2>1, <2>6 DEF TakesRequest, HandshakeInv, FirstWords
    <3>7. InOrder'
      <4> SUFFICES ASSUME NEW i \in DOMAIN wire', wire'[i].type = "request"
                   PROVE  Newest(i)'
        BY DEF InOrder
      <4>1. i + 1 \in DOMAIN wire /\ Newest(i + 1)
        BY <3>1, <3>2 DEF HandshakeInv, InOrder
      <4>2. wire'[i].seed <= nano'.seed
        BY <1>1, <3>2, <4>1 DEF Newest
      <4>3. \A k \in DOMAIN asks' : asks'[k].type = "time" => asks'[k].seed < wire'[i].seed
        BY <2>1, <2>6, <3>2, <4>1 DEF Newest, TakesRequest
      <4>4. host'.pending # << >> => host'.pending[1].seed < wire'[i].seed
        BY <1>1, <2>6, <3>2, <4>1 DEF Newest, TakesRequest
      <4>5. \A j \in DOMAIN wire' : j > i => (wire'[j].type # "time"
              /\ (wire'[j].type = "request" => wire'[i].seed < wire'[j].seed))
        <5> SUFFICES ASSUME NEW j \in DOMAIN wire', j > i
                     PROVE  /\ wire'[j].type # "time"
                            /\ wire'[j].type = "request" => wire'[i].seed < wire'[j].seed
          OBVIOUS
        <5>1. j \in Int /\ i \in Int /\ j + 1 > i + 1 /\ j + 1 \in DOMAIN wire
          BY <2>1, <3>2
        <5> QED
          BY <3>2, <4>1, <5>1 DEF Newest
      <4> QED
        BY <4>2, <4>3, <4>4, <4>5 DEF Newest
    <3> QED
      BY <1>1, <1>3, <3>4, <3>5, <3>6, <3>7 DEF HandshakeInv, DeafInv
  <2>7. CASE /\ d = 0 /\ host.phase = "handshake" /\ host.pending # << >> /\ r.ask # << >>
             /\ TakesRequest(host, host.pending[1], r)
    <3> DEFINE p == host.pending[1]
    <3>1. /\ host'.phase = "time" /\ host'.pending = << >>
          /\ r.ask = << [type |-> "time", seed |-> p.seed] >>
          /\ asks = << >> /\ ~nano.open /\ \A i \in DOMAIN wire : wire[i].type = "request"
      BY <1>1, <2>7 DEF TakesRequest, HandshakeInv, FirstWords
    <3>2. \A i \in DOMAIN wire' : i \in DOMAIN wire /\ wire'[i] = wire[i]
      BY <2>1, <2>7
    <3>3. ~Greeted'
      BY <3>1, <3>2 DEF Greeted, Past
    <3>4. InOrder'
      <4> SUFFICES ASSUME NEW i \in DOMAIN wire', wire'[i].type = "request"
                   PROVE  Newest(i)'
        BY DEF InOrder
      <4>1. i \in DOMAIN wire /\ wire'[i] = wire[i] /\ Newest(i)
        BY <2>7, <3>2 DEF HandshakeInv, InOrder, Early
      <4>2. \A k \in DOMAIN asks' : asks'[k].type = "time" => asks'[k].seed < wire'[i].seed
        BY <2>1, <2>7, <3>1, <4>1 DEF Newest
      <4> QED
        BY <1>1, <3>1, <3>2, <4>1, <4>2 DEF Newest
    <3> QED
      BY <1>1, <3>1, <3>3, <3>4 DEF HandshakeInv, FirstWords, DeafInv
  <2>8. host.stage # "none" => host.phase = "ready"
    BY DEF TypeInv, Sound
  <2>9. CASE \/ Stays(host, r) /\ d = 0 
             \/ Hears(host, m, r) /\ d = 1
    BY <2>4, <2>9 DEF Stays, Hears, SameTalk
  <2>10. CASE Proceeds(host, m, r) /\ d = 1
    BY <2>5, <2>10 DEF Proceeds, Past
  <2>11. CASE Starts(host, r)
    BY <2>5, <2>11 DEF Starts, Past
  <2>12. CASE (Fetches(host, m, r) \/ Refuses(host, m, r)) /\ d = 1
    BY <2>5, <2>8, <2>12 DEF Fetches, Refuses, SameTalk, Past
  <2> QED
    BY <1>3, <2>2, <2>3, <2>6, <2>7, <2>9, <2>10, <2>11, <2>12 DEF Alone, Reads, Drops
<1> QED
  BY <1>2, <1>3

\* A message of the Nano that is neither a request nor an answer in the handshake.
LEMMA HandshakeTold ==
  ASSUME TypeInv, HandshakeInv, NEW ms \in {<< >>} \cup {<< m >> : m \in Message},
         wire' = wire \o ms, UNCHANGED <<host, asks>>, nano'.open = nano.open, nano'.seed = nano.seed,
         ms # << >> => nano.open,
         \A m : ms = << m >> => m.type \notin {"request", "time"}
  PROVE  HandshakeInv'
<1>1. /\ \A i \in DOMAIN wire : i \in DOMAIN wire' /\ wire'[i] = wire[i]
      /\ \A i \in DOMAIN wire' :
           \/ i \in DOMAIN wire
           \/ i \notin DOMAIN wire /\ ms = << wire'[i] >>
  BY Sent
<1>2. host' = host /\ asks' = asks
  OBVIOUS
<1>3. Greeted' <=> Greeted
  BY <1>1, <1>2 DEF Greeted
<1>4. FirstWords'
  BY <1>1, <1>2 DEF HandshakeInv, FirstWords
<1>5. \A i \in DOMAIN wire' : wire'[i].type \in {"request", "time"} => (i \in DOMAIN wire /\ wire'[i] = wire[i])
  BY <1>1
<1>6. InOrder'
  BY <1>2, <1>5 DEF HandshakeInv, InOrder, Newest
<1>7. DeafInv'
  BY <1>2, <1>3 DEF HandshakeInv, DeafInv, Opens
<1> QED
  BY <1>2, <1>3, <1>4, <1>6, <1>7 DEF HandshakeInv

\* The Nano serves a request.
LEMMA HandshakeServed ==
  ASSUME TypeInv, HandshakeInv, Serve
  PROVE  HandshakeInv'
<1> DEFINE q == Head(asks)
<1>1. /\ asks # << >> /\ q = asks[1] /\ 1 \in DOMAIN asks
      /\ \A k \in DOMAIN asks' : k + 1 \in DOMAIN asks /\ asks'[k] = asks[k + 1]
      /\ ReplyTo(q) \in {<< >>} \cup {<< m >> : m \in Message}
  BY Served
<1>2. /\ wire' = wire \o ReplyTo(q) /\ host' = host /\ nano'.seed = nano.seed
      /\ nano'.open = (nano.open \/ Opens(q)) /\ nano.seed \in Nat
  BY DEF Serve, TypeInv, NanoTypes
<1>3. /\ \A i \in DOMAIN wire : i \in DOMAIN wire' /\ wire'[i] = wire[i]
      /\ \A i \in DOMAIN wire' :
           \/ i \in DOMAIN wire
           \/ i \notin DOMAIN wire /\ ReplyTo(q) = << wire'[i] >>
      /\ ReplyTo(q) # << >> =>
           (Len(wire) + 1 \in DOMAIN wire' /\ ReplyTo(q) = << wire'[Len(wire) + 1] >>)
  BY <1>1, <1>2, Sent
<1>4. host.phase \notin {"closed", "handshake"}
  BY <1>1 DEF HandshakeInv, FirstWords
<1>5. \A m : ReplyTo(q) = << m >> => (m.type # "request" /\ (m.type = "time" => Opens(q)))
  BY DEF ReplyTo
<1>6. Greeted => Greeted'
  BY <1>2, <1>3 DEF Greeted
<1>7. Opens(q) => Greeted'
  <2>1. Opens(q) => ReplyTo(q) = << [type |-> "time"] >>
    BY DEF ReplyTo, Opens
  <2> QED
    BY <1>3, <2>1 DEF Greeted
<1>8. InOrder'
  <2> SUFFICES ASSUME host.phase \in Early, NEW i \in DOMAIN wire', wire'[i].type = "request"
               PROVE  Newest(i)'
    BY <1>2 DEF InOrder
  <2>1. i \in DOMAIN wire /\ wire'[i] = wire[i] /\ Newest(i)
    BY <1>3, <1>5 DEF HandshakeInv, InOrder
  <2>2. ~Opens(q)
    <3>1. Opens(q) => (q.type = "time" /\ q.seed = nano.seed)
      BY DEF Opens
    <3>2. wire[i].seed \in Nat
      BY <2>1 DEF TypeInv, Message
    <3> QED
      BY <1>1, <1>2, <2>1, <3>1, <3>2 DEF Newest
  <2>3. \A j \in DOMAIN wire' : wire'[j].type \in {"request", "time"}
                                  => (j \in DOMAIN wire /\ wire'[j] = wire[j])
    BY <1>3, <1>5, <2>2
  <2>4. \A k \in DOMAIN asks' : asks'[k].type = "time" => asks'[k].seed < wire'[i].seed
    BY <1>1, <2>1 DEF Newest
  <2> QED
    BY <1>2, <2>1, <2>3, <2>4 DEF Newest
<1>9. DeafInv'
  <2> SUFFICES ASSUME ~nano'.open, Greeted'
               PROVE  \A k \in DOMAIN asks' : ~(asks'[k].type = "time" /\ asks'[k].seed = nano'.seed)
    BY DEF DeafInv, Opens
  <2>1. ~nano.open /\ ~Opens(q)
    BY <1>2
  <2>2. ReplyTo(q) = << >>
    BY <2>1 DEF ReplyTo
  <2>3. Greeted
    BY <1>2, <1>3, <2>2 DEF Greeted
  <2> QED
    BY <1>1, <1>2, <2>1, <2>3 DEF HandshakeInv, DeafInv, Opens
<1> QED
  BY <1>2, <1>4, <1>6, <1>7, <1>8, <1>9 DEF HandshakeInv, FirstWords

\* Every step keeps it.
LEMMA HandshakeStep ==
  ASSUME TypeInv, HandshakeInv, [Next]_vars
  PROVE  HandshakeInv'
<1>t. /\ wire \in Seq(Message) /\ asks \in Seq(Ask)
      /\ nano \in NanoTypes /\ nano.seed \in Nat
  BY DEF TypeInv, NanoTypes
<1>1. CASE WorkerStep
  BY <1>1, Turns, HandshakeTurn
<1>2. CASE Connect
  <2>1. PICK bridge \in BOOLEAN, replay \in {<< >>, << 0 >>, << 1 >>, << 0, 1 >>} :
          /\ host' = [NoSession EXCEPT !.phase = "handshake", !.settled = ~bridge]
          /\ wire' = Requests(replay)
    BY <1>2 DEF Connect
  <2>2. host'.phase = "handshake" /\ host'.pending = << >>
    BY <2>1 DEF NoSession
  <2>3. nano'.open = FALSE /\ nano'.seed = 1 /\ asks' = << >>
    BY <1>t, <1>2 DEF Connect, HandshakeInv, NanoTypes
  <2>4. /\ \A i \in DOMAIN wire' : wire'[i].type = "request" /\ wire'[i].seed <= 1
        /\ \A i, j \in DOMAIN wire' : j > i => wire'[i].seed < wire'[j].seed
    <3>1. DOMAIN replay \subseteq {1, 2}
      OBVIOUS
    <3>2. \A i \in DOMAIN replay : replay[i] <= 1
      OBVIOUS
    <3>3. \A i, j \in DOMAIN replay : j > i => replay[i] < replay[j]
      OBVIOUS
    <3> QED
      BY <2>1, <3>2, <3>3 DEF Requests
  <2>5. InOrder'
    BY <2>2, <2>3, <2>4 DEF InOrder, Newest
  <2> QED
    BY <2>2, <2>3, <2>4, <2>5 DEF HandshakeInv, FirstWords, DeafInv
<1>3. CASE NanoRequest
  <2> DEFINE m == [type |-> "request", seed |-> nano.seed]
  <2>1. /\ host' = host /\ nano' = nano /\ asks = << >> /\ asks' = asks /\ ~nano.open
        /\ host.pending = << >> /\ \A i \in DOMAIN wire : wire[i].type # "request"
        /\ host.phase # "closed"
    BY <1>3 DEF NanoRequest
  <2>2. m \in Message /\ wire' = wire \o << m >>
    BY <1>t, <1>3 DEF NanoRequest, Message
  <2>3. /\ \A i \in DOMAIN wire : i \in DOMAIN wire' /\ wire'[i] = wire[i]
        /\ \A i \in DOMAIN wire' :
             \/ i \in DOMAIN wire
             \/ i = Len(wire) + 1 /\ i \notin DOMAIN wire /\ << m >> = << wire'[i] >>
        /\ DOMAIN wire = 1 .. Len(wire) /\ Len(wire) \in Nat
    BY <2>2, Sent
  <2>4. FirstWords'
    BY <2>1, <2>3 DEF HandshakeInv, FirstWords
  <2>5. InOrder'
    <3> SUFFICES ASSUME NEW i \in DOMAIN wire', wire'[i].type = "request"
                 PROVE  Newest(i)'
      BY DEF InOrder
    <3>1. i = Len(wire) + 1 /\ wire'[i] = m
      BY <2>1, <2>3
    <3>2. \A j \in DOMAIN wire' : ~(j > i)
      BY <2>3, <3>1
    <3> QED
      BY <1>t, <2>1, <3>1, <3>2 DEF Newest
  <2> QED
    BY <2>1, <2>4, <2>5 DEF HandshakeInv, DeafInv
<1>4. CASE Serve
  BY <1>4, HandshakeServed
<1>5. CASE RoastBegins \/ RoastWrites \/ RoastEnds
  <2>1. PICK w \in RoastWords : wire' \in {wire, Says(w)}
    BY <1>5 DEF RoastBegins, RoastWrites, RoastEnds, RoastWords
  <2>2. UNCHANGED <<host, asks>> /\ nano'.open = nano.open /\ nano'.seed = nano.seed
    BY <1>t, <1>5 DEF RoastBegins, RoastWrites, RoastEnds, NanoTypes
  <2>3. PICK ms \in {<< >>} \cup {<< m >> : m \in Message} :
          wire' = wire \o ms /\ (ms # << >> => nano.open /\ ms = << [type |-> w] >>)
    BY <2>1, Said
  <2>4. \A m : ms = << m >> => m.type \notin {"request", "time"}
    BY <2>3 DEF RoastWords
  <2> QED
    BY <2>2, <2>3, <2>4, HandshakeTold
<1>6. CASE NanoResets
  <2>1. /\ nano.open /\ asks' = << >> /\ wire' = wire /\ host' = host
        /\ ~nano'.open /\ nano'.seed = nano.seed + 1
    BY <1>t, <1>6 DEF NanoResets, NanoTypes
  <2>2. InOrder'
    <3> SUFFICES ASSUME host.phase \in Early, NEW i \in DOMAIN wire, wire[i].type = "request"
                 PROVE  Newest(i)'
      BY <2>1 DEF InOrder
    <3>1. Newest(i) /\ wire[i].seed \in Nat
      BY DEF HandshakeInv, InOrder, TypeInv, Message
    <3> QED
      BY <1>t, <2>1, <3>1 DEF Newest
  <2> QED
    BY <2>1, <2>2 DEF HandshakeInv, FirstWords, DeafInv
<1>7. CASE UNCHANGED vars
  BY <1>7 DEF vars, HandshakeInv, FirstWords, InOrder, Newest, DeafInv, Greeted, Opens
<1> QED
  BY <1>1, <1>2, <1>3, <1>4, <1>5, <1>6, <1>7, Steps

-----------------------------------------------------------------------------
(* The transfers.  While the Nano serves files at most one is asked for,   *)
(* and it is the one the worker waits for.                                 *)

Transferring == {"logs", "profiles", "read"}
Available    == nano.open /\ ~Locked

\* What is asked for, answered, and refused.
Sought   == {k \in DOMAIN asks : asks[k].type \in Transferring}
Supplied == {i \in DOMAIN wire : wire[i].type \in {"directory", "file"}}
Refused  == {i \in DOMAIN wire : wire[i].type \in {"busy", "refused"}}

\* Only a Nano that has been greeted speaks of files.
SpeaksOfFiles ==
  (host.phase # "closed" /\ (Sought # {} \/ Supplied # {} \/ Refused # {})) => Greeted

\* A refusal is on its way only while the Nano is locked, or deaf.
RefusedInv == Refused # {} => ~Available

\* What is supplied is what the worker waits for, and the only thing.
SuppliedInv ==
  \A i \in Supplied :
    /\ host.stage # "none"
    /\ wire[i].type = "file" => (host.stage = "files" /\ wire[i].file = First(host.todo, host.known))
    /\ Sought = {}
    /\ \A j \in Supplied : j = i
    /\ \A j \in Refused : j > i

\* So is what is asked of a Nano that serves files.
SoughtInv ==
  Available => \A k \in Sought :
    /\ host.stage # "none"
    /\ asks[k].type = "read" => (host.stage = "files" /\ asks[k].file = First(host.todo, host.known))
    /\ \A l \in Sought : l = k

TransferInv == SpeaksOfFiles /\ RefusedInv /\ SuppliedInv /\ SoughtInv /\ Attributed

\* A greeting is not forgotten before the session ends.
LEMMA GreetedStays ==
  ASSUME TypeInv, HandshakeInv, NEW r \in Answer, NEW d \in {0, 1}, Turn(d, r), Greeted,
         r.session.phase # "closed"
  PROVE  Greeted'
<1> DEFINE m == Head(wire)
<1>1. /\ host' = r.session /\ r.session.phase \in Phases
      /\ Len(wire) - d \in Nat /\ DOMAIN wire = 1 .. Len(wire)
      /\ DOMAIN wire' = 1 .. Len(wire) - d
      /\ \A i \in DOMAIN wire' : i + d \in DOMAIN wire /\ wire'[i] = wire[i + d]
  BY TurnLeaves, SessionFields DEF Turn, Sound
<1>2. d = 1 => (1 \in DOMAIN wire /\ m = wire[1] /\ Reads(m, r))
  BY <1>1 DEF Turn, TypeInv
<1>3. d = 0 => Alone(r)
  BY DEF Turn
<1>4. host.phase # "handshake"
  BY DEF HandshakeInv, FirstWords, Greeted, Past
<1>5. CASE r.session.phase \in Past
  BY <1>1, <1>5 DEF Greeted
<1>6. CASE r.session.phase = "time" /\ host.phase = "time" /\ ~(d = 1 /\ m.type = "time")
  <2>1. PICK i \in DOMAIN wire : wire[i].type = "time"
    BY <1>6 DEF Greeted, Past
  <2>2. i \in Int /\ d \in Int /\ i > d
    BY <1>1, <1>2, <1>6, <2>1
  <2>3. i - d \in DOMAIN wire' /\ wire'[i - d] = wire[i]
    BY <1>1, <2>2
  <2> QED
    BY <2>1, <2>3 DEF Greeted
<1>7. CASE d = 1 /\ TakesRequest(host, m, r)
  <2>1. host.phase = "time" /\ Newest(1) /\ wire[1].type = "request"
    BY <1>2, <1>4, <1>7 DEF TakesRequest, HandshakeInv, InOrder, Early
  <2> QED
    BY <1>1, <2>1 DEF Newest, Greeted, Past
<1>8. CASE \/ Stays(host, r) /\ d = 0 
           \/ Hears(host, m, r) /\ d = 1
  <2>1. r.session.phase = host.phase /\ (d = 1 => ~(m.type = "time" /\ host.phase = "time"))
    BY <1>8 DEF Stays, Hears, SameTalk
  <2> QED
    BY <1>1, <1>4, <1>5, <1>6, <2>1 DEF Phases, Past
<1>9. CASE Proceeds(host, m, r) \/ Starts(host, r)
  BY <1>5, <1>9 DEF Proceeds, Starts, Past
<1>10. CASE Fetches(host, m, r) \/ Refuses(host, m, r)
  <2>1. host.phase = "ready"
    BY <1>10 DEF Fetches, Refuses, TypeInv, Sound
  <2> QED
    BY <1>5, <1>10, <2>1 DEF Fetches, Refuses, SameTalk, Past
<1> QED
  BY <1>2, <1>3, <1>4, <1>7, <1>8, <1>9, <1>10 DEF Alone, Reads, Drops

\* A turn keeps it.
LEMMA TransferTurn ==
  ASSUME TypeInv, HandshakeInv, TransferInv, NEW r \in Answer, NEW d \in {0, 1}, Turn(d, r)
  PROVE  TransferInv'
<1> DEFINE m == Head(wire)
<1>1. /\ host' = r.session /\ UNCHANGED nano /\ host.phase # "closed"
      /\ imported' \subseteq imported \cup r.import
  BY TurnLeaves DEF Turn
<1>a. Available' = Available
  BY <1>1 DEF Available, Locked
<1>2. d = 1 => (1 \in DOMAIN wire /\ m = wire[1] /\ Reads(m, r))
  <2>1. wire # << >> => (1 \in DOMAIN wire /\ Head(wire) = wire[1])
    BY DEF TypeInv
  <2> QED
    BY <2>1 DEF Turn
<1>3. d = 0 => Alone(r)
  BY DEF Turn
<1>4. Attributed'
  <2>1. CASE r.import = {}
    BY <1>1, <2>1 DEF TransferInv, Attributed
  <2>2. CASE d = 1 /\ m.type = "file" /\ r.import = {<<First(host.todo, host.known), m.file>>}
    <3>1. 1 \in Supplied
      BY <1>2, <2>2 DEF Supplied
    <3>2. m.file = First(host.todo, host.known)
      BY <1>2, <2>2, <3>1 DEF TransferInv, SuppliedInv
    <3> QED
      BY <1>1, <2>2, <3>2 DEF TransferInv, Attributed
  <2> QED
    BY <1>2, <1>3, <2>1, <2>2
    DEF Alone, Reads, Drops, TakesRequest, Proceeds, Hears, Stays, Starts, Fetches, Refuses
<1>5. CASE r.session.phase = "closed"
  <2>1. wire' = << >> /\ asks' = << >>
    BY <1>5, TurnLeaves
  <2>2. Sought' = {} /\ Supplied' = {} /\ Refused' = {}
    BY <2>1 DEF Sought, Supplied, Refused
  <2> QED
    BY <1>4, <2>2 DEF TransferInv, SpeaksOfFiles, RefusedInv, SuppliedInv, SoughtInv
<1>6. CASE r.session.phase # "closed"
  <2>1. /\ Len(wire) - d \in Nat /\ DOMAIN wire = 1 .. Len(wire)
        /\ DOMAIN wire' = 1 .. Len(wire) - d
        /\ \A i \in DOMAIN wire' : i + d \in DOMAIN wire /\ wire'[i] = wire[i + d]
        /\ \A k \in DOMAIN asks' :
             \/ k \in DOMAIN asks /\ asks'[k] = asks[k]
             \/ k = Len(asks) + 1 /\ k \notin DOMAIN asks /\ r.ask = << asks'[k] >>
    BY <1>6, TurnLeaves
  <2>2. /\ \A i \in Supplied' : i \in Int /\ i > 0 /\ i + d \in Supplied /\ wire'[i] = wire[i + d]
        /\ \A i \in Refused' : i \in Int /\ i > 0 /\ i + d \in Refused
    BY <2>1 DEF Supplied, Refused
  <2>3. RefusedInv'
    BY <1>a, <2>2 DEF TransferInv, RefusedInv
  <2>4. Greeted => Greeted'
    BY <1>6, GreetedStays
  \* The run goes on as it was.
  <2>5. CASE /\ SameRun(host, r.session)
             /\ \A q : r.ask = << q >> => q.type \notin Transferring
    <3>1. \A k \in Sought' : k \in Sought /\ asks'[k] = asks[k]
      BY <2>1, <2>5 DEF Sought
    <3>2. SpeaksOfFiles'
      BY <1>1, <2>2, <2>4, <3>1 DEF TransferInv, SpeaksOfFiles
    <3>3. SoughtInv'
      BY <1>1, <1>a, <2>5, <3>1 DEF TransferInv, SoughtInv, SameRun
    <3>4. SuppliedInv'
      <4> SUFFICES ASSUME NEW i \in Supplied'
                   PROVE  /\ host'.stage # "none"
                          /\ wire'[i].type = "file" =>
                               (host'.stage = "files" /\ wire'[i].file = First(host'.todo, host'.known))
                          /\ Sought' = {}
                          /\ \A j \in Supplied' : j = i
                          /\ \A j \in Refused' : j > i
        BY DEF SuppliedInv
      <4>1. i + d \in Supplied /\ wire'[i] = wire[i + d] /\ i \in Int /\ d \in Int
        BY <2>2
      <4>2. Sought' = {}
        BY <3>1, <4>1 DEF TransferInv, SuppliedInv
      <4>3. \A j \in Supplied' : j = i
        BY <2>2, <4>1 DEF TransferInv, SuppliedInv
      <4>4. \A j \in Refused' : j > i
        BY <2>2, <4>1 DEF TransferInv, SuppliedInv
      <4> QED
        BY <1>1, <2>5, <4>1, <4>2, <4>3, <4>4 DEF TransferInv, SuppliedInv, SameRun
    <3> QED
      BY <1>4, <2>3, <3>2, <3>3, <3>4 DEF TransferInv
  \* A run begins, where nothing is left of another.
  <2>6. CASE Starts(host, r)
    <3>1. Supplied = {} /\ (Available => Sought = {})
      BY <2>6 DEF Starts, TransferInv, SuppliedInv, SoughtInv
    <3>2. Supplied' = {} /\ Greeted'
      BY <1>1, <2>2, <2>6, <3>1 DEF Starts, Greeted, Past
    <3>3. Available => \A k \in Sought' : k = Len(asks) + 1 /\ asks'[k].type = "logs"
      BY <2>1, <2>6, <3>1 DEF Starts, Sought
    <3>4. SoughtInv'
      BY <1>1, <1>a, <2>6, <3>3 DEF Starts, SoughtInv
    <3> QED
      BY <1>4, <2>3, <3>2, <3>4 DEF TransferInv, SpeaksOfFiles, SuppliedInv
  \* A directory or a file comes in.
  <2>7. CASE d = 1 /\ Fetches(host, m, r)
    <3>1. 1 \in Supplied
      BY <1>2, <2>7 DEF Fetches, Supplied
    <3>2. Sought = {} /\ Supplied' = {}
      BY <2>2, <2>7, <3>1 DEF TransferInv, SuppliedInv
    <3>3. \A k \in Sought' : k = Len(asks) + 1 /\ r.ask = << asks'[k] >>
      BY <2>1, <3>2 DEF Sought
    <3>4. \A k \in Sought' :
            /\ r.session.stage # "none"
            /\ asks'[k].type = "read" => /\ r.session.stage = "files"
                                         /\ asks'[k].file = First(r.session.todo, r.session.known)
      BY <2>7, <3>3 DEF Fetches
    <3>5. SoughtInv'
      BY <1>1, <3>3, <3>4 DEF SoughtInv
    <3>6. Greeted'
      BY <1>1, <2>7 DEF Fetches, SameTalk, TypeInv, Sound, Greeted, Past
    <3> QED
      BY <1>4, <2>3, <3>2, <3>5, <3>6 DEF TransferInv, SpeaksOfFiles, SuppliedInv
  \* The run ends with a refusal.
  <2>8. CASE d = 1 /\ Refuses(host, m, r)
    <3>1. 1 \in Refused /\ ~Available
      BY <1>2, <2>8 DEF Refuses, Refused, TransferInv, RefusedInv
    <3>2. Supplied' = {}
      BY <2>2, <2>8, <3>1 DEF TransferInv, SuppliedInv
    <3>3. Greeted'
      BY <1>1, <2>8 DEF Refuses, SameTalk, TypeInv, Sound, Greeted, Past
    <3> QED
      BY <1>4, <1>a, <2>3, <3>1, <3>2, <3>3 DEF TransferInv, SpeaksOfFiles, SuppliedInv, SoughtInv
  <2>9. CASE TakesRequest(host, m, r) \/ TakesRequest(host, host.pending[1], r)
    BY <2>5, <2>9 DEF TakesRequest, Transferring
  <2>a. ASSUME NEW t \in {"status", "firmware"}, r.ask = << >> \/ r.ask = << [type |-> t] >>
        PROVE  \A q : r.ask = << q >> => q.type \notin Transferring
    BY <2>a DEF Transferring
  <2>10. CASE Proceeds(host, m, r)
    <3>1. \A q : r.ask = << q >> => q.type \notin Transferring
      BY <2>a, <2>10 DEF Proceeds
    <3> QED
      BY <2>5, <2>10, <3>1 DEF Proceeds
  <2>11. CASE Hears(host, m, r) \/ Stays(host, r)
    <3>1. \A q : r.ask = << q >> => q.type \notin Transferring
      BY <2>a, <2>11 DEF Hears, Stays
    <3> QED
      BY <2>5, <2>11, <3>1 DEF Hears, Stays
  <2> QED
    BY <1>2, <1>3, <1>6, <2>6, <2>7, <2>8, <2>9, <2>10, <2>11 DEF Alone, Reads, Drops
<1> QED
  BY <1>5, <1>6

\* The Nano serves a request.
LEMMA TransferServed ==
  ASSUME TypeInv, HandshakeInv, TransferInv, Serve
  PROVE  TransferInv'
<1> DEFINE q == Head(asks)
<1>1. /\ asks # << >> /\ q = asks[1] /\ 1 \in DOMAIN asks /\ q \in Ask
      /\ \A k \in DOMAIN asks' : k \in Int /\ k > 0 /\ k + 1 \in DOMAIN asks /\ asks'[k] = asks[k + 1]
      /\ ReplyTo(q) \in {<< >>} \cup {<< m >> : m \in Message}
  BY Served
<1>2. /\ wire' = wire \o ReplyTo(q) /\ host' = host /\ imported' = imported
      /\ nano'.roast = nano.roast /\ nano'.open = (nano.open \/ Opens(q))
  BY DEF Serve, TypeInv, NanoTypes
<1>3. /\ \A i \in DOMAIN wire : i \in DOMAIN wire' /\ wire'[i] = wire[i] /\ i <= Len(wire) /\ i \in Int
      /\ \A i \in DOMAIN wire' :
           \/ i \in DOMAIN wire
           \/ i = Len(wire) + 1 /\ i \notin DOMAIN wire /\ ReplyTo(q) = << wire'[i] >>
      /\ Len(wire) \in Nat
  BY <1>1, <1>2, Sent
<1>4. host.phase # "closed"
  BY <1>1 DEF HandshakeInv
<1>5. Greeted => Greeted'
  BY <1>2, <1>3 DEF Greeted
<1>6. Greeted => (Available' <=> Available)
  BY <1>1, <1>2 DEF HandshakeInv, DeafInv, Available, Locked
<1>7. \A k \in Sought' : k + 1 \in Sought /\ asks'[k] = asks[k + 1] /\ k \in Int /\ k + 1 # 1
  BY <1>1 DEF Sought
<1>8. Sought' # {} => Sought # {}
  BY <1>7
<1>9. Attributed'
  BY <1>2 DEF TransferInv, Attributed
\* What the answer may be.
<1>10. CASE \A m : ReplyTo(q) = << m >> => m.type \notin {"directory", "file", "refused", "busy"}
  <2>1. Supplied' = Supplied /\ Refused' = Refused /\ \A i \in Supplied : wire'[i] = wire[i]
    BY <1>3, <1>10 DEF Supplied, Refused
  <2>2. SpeaksOfFiles'
    BY <1>2, <1>4, <1>5, <1>8, <2>1 DEF TransferInv, SpeaksOfFiles
  <2>3. RefusedInv'
    BY <1>4, <1>6, <2>1 DEF TransferInv, RefusedInv, SpeaksOfFiles
  <2>4. SuppliedInv'
    BY <1>2, <1>8, <2>1 DEF TransferInv, SuppliedInv
  <2>5. SoughtInv'
    <3> SUFFICES ASSUME Available', NEW k \in Sought'
                 PROVE  /\ host'.stage # "none"
                        /\ asks'[k].type = "read" =>
                             (host'.stage = "files" /\ asks'[k].file = First(host'.todo, host'.known))
                        /\ \A l \in Sought' : l = k
      BY DEF SoughtInv
    <3>1. Greeted /\ Available
      BY <1>4, <1>6, <1>8 DEF TransferInv, SpeaksOfFiles
    <3>2. k + 1 \in Sought /\ \A l \in Sought' : l + 1 \in Sought
      BY <1>7
    <3> QED
      BY <1>2, <1>7, <3>1, <3>2 DEF TransferInv, SoughtInv
  <2> QED
    BY <1>9, <2>2, <2>3, <2>4, <2>5 DEF TransferInv
<1>11. CASE nano.open /\ q.type \in Transferring
  <2>1. 1 \in Sought /\ Greeted /\ Greeted' /\ (Available' <=> Available)
    BY <1>1, <1>4, <1>5, <1>6, <1>11 DEF Sought, TransferInv, SpeaksOfFiles
  <2>2. CASE Locked
    <3>1. ~Available /\ ~Available'
      BY <2>1, <2>2 DEF Available
    <3>2. \A m : ReplyTo(q) = << m >> => m.type = "refused"
      BY <1>11, <2>2 DEF ReplyTo, Transferring, Opens
    <3>3. Supplied = {}
      BY <2>1 DEF TransferInv, SuppliedInv
    <3>4. Supplied' = {}
      BY <1>3, <3>2, <3>3 DEF Supplied
    <3> QED
      BY <1>9, <2>1, <3>1, <3>4
      DEF TransferInv, SpeaksOfFiles, RefusedInv, SuppliedInv, SoughtInv
  <2>3. CASE ~Locked
    <3>1. Available /\ Available'
      BY <1>11, <2>1, <2>3 DEF Available
    <3>2. /\ Refused = {} /\ Supplied = {} /\ Sought' = {}
          /\ host.stage # "none"
          /\ q.type = "read" => (host.stage = "files" /\ q.file = First(host.todo, host.known))
      BY <1>1, <1>7, <2>1, <3>1 DEF TransferInv, RefusedInv, SuppliedInv, SoughtInv
    <3>3. \A m : ReplyTo(q) = << m >> =>
            /\ m.type \notin {"busy", "refused"}
            /\ m.type = "file" => (q.type = "read" /\ m.file = q.file)
      BY <1>11, <2>3 DEF ReplyTo, Transferring, Opens
    <3>4. Refused' = {}
      BY <1>3, <3>2, <3>3 DEF Refused
    <3>5. \A i \in Supplied' : i = Len(wire) + 1 /\ ReplyTo(q) = << wire'[i] >>
      BY <1>3, <3>2 DEF Supplied
    <3>6. SuppliedInv'
      BY <1>2, <3>2, <3>3, <3>4, <3>5 DEF SuppliedInv
    <3> QED
      BY <1>9, <2>1, <3>2, <3>4, <3>6 DEF TransferInv, SpeaksOfFiles, RefusedInv, SoughtInv
  <2> QED
    BY <2>2, <2>3
<1> QED
  <2>1. ~(nano.open /\ q.type \in Transferring) =>
          \A m : ReplyTo(q) = << m >> => m.type \in {"time", "status", "firmware"}
    BY DEF ReplyTo, Transferring
  <2> QED
    BY <1>10, <1>11, <2>1

\* The Nano asks for a session, begins a roast or goes on with it.
LEMMA TransferTold ==
  ASSUME TypeInv, HandshakeInv, TransferInv, NEW ms \in {<< >>} \cup {<< m >> : m \in Message},
         wire' = wire \o ms, UNCHANGED <<host, asks, imported>>, nano'.open = nano.open,
         Available' => Available,
         \A m : ms = << m >> => /\ m.type \in {"request", "chunk", "busy"}
                                /\ m.type = "busy" => (nano.open /\ ~Available')
  PROVE  TransferInv'
<1>1. /\ \A i \in DOMAIN wire : i \in DOMAIN wire' /\ wire'[i] = wire[i] /\ i <= Len(wire) /\ i \in Int
      /\ \A i \in DOMAIN wire' :
           \/ i \in DOMAIN wire
           \/ i = Len(wire) + 1 /\ i \notin DOMAIN wire /\ ms = << wire'[i] >>
      /\ Len(wire) \in Nat
  BY Sent
<1>2. host' = host /\ asks' = asks /\ imported' = imported
  OBVIOUS
<1>3. /\ Sought' = Sought /\ Supplied' = Supplied
      /\ \A i \in Supplied : wire'[i] = wire[i] /\ i <= Len(wire) /\ i \in Int
  BY <1>1, <1>2 DEF Sought, Supplied
<1>4. \A i \in Refused' : i \in Refused \/ (nano.open /\ ~Available' /\ i = Len(wire) + 1)
  BY <1>1 DEF Refused
<1>5. (host.phase # "closed" /\ nano.open) => Greeted
  <2>1. host.phase \in Phases
    BY SessionFields DEF TypeInv, Sound
  <2> QED
    BY <2>1 DEF HandshakeInv, FirstWords, Greeted, Phases, Past
<1>6. Greeted => Greeted'
  BY <1>1, <1>2 DEF Greeted
<1>7. SpeaksOfFiles'
  BY <1>2, <1>3, <1>4, <1>5, <1>6 DEF TransferInv, SpeaksOfFiles
<1>8. RefusedInv'
  BY <1>4 DEF TransferInv, RefusedInv
<1>9. SuppliedInv'
  <2> SUFFICES ASSUME NEW i \in Supplied'
               PROVE  /\ host'.stage # "none"
                      /\ wire'[i].type = "file" =>
                           (host'.stage = "files" /\ wire'[i].file = First(host'.todo, host'.known))
                      /\ Sought' = {}
                      /\ \A j \in Supplied' : j = i
                      /\ \A j \in Refused' : j > i
    BY DEF SuppliedInv
  <2>1. i \in Supplied /\ wire'[i] = wire[i] /\ i <= Len(wire) /\ i \in Int
    BY <1>3
  <2>2. /\ host.stage # "none"
        /\ wire[i].type = "file" =>
             (host.stage = "files" /\ wire[i].file = First(host.todo, host.known))
        /\ Sought = {}
        /\ \A j \in Supplied : j = i
        /\ \A j \in Refused : j > i
    BY <2>1 DEF TransferInv, SuppliedInv
  <2>3. \A j \in Refused' : j > i
    BY <1>1, <1>4, <2>1, <2>2
  <2> QED
    BY <1>2, <1>3, <2>1, <2>2, <2>3
<1>10. SoughtInv'
  BY <1>2, <1>3 DEF TransferInv, SoughtInv
<1>11. Attributed'
  BY <1>2 DEF TransferInv, Attributed
<1> QED
  BY <1>7, <1>8, <1>9, <1>10, <1>11 DEF TransferInv

\* Every step keeps it.
LEMMA TransferStep ==
  ASSUME TypeInv, HandshakeInv, TransferInv, [Next]_vars
  PROVE  TransferInv'
<1>t. /\ wire \in Seq(Message) /\ asks \in Seq(Ask) /\ nano \in NanoTypes
  BY DEF TypeInv
<1>1. CASE WorkerStep
  BY <1>1, Turns, TransferTurn
<1>2. CASE Connect
  <2>1. PICK replay \in {<< >>, << 0 >>, << 1 >>, << 0, 1 >>} : wire' = Requests(replay)
    BY <1>2 DEF Connect
  <2>2. asks' = << >> /\ imported' = imported
    BY <1>2 DEF Connect, HandshakeInv
  <2>3. \A i \in DOMAIN wire' : wire'[i].type = "request"
    BY <2>1 DEF Requests
  <2>4. Sought' = {} /\ Supplied' = {} /\ Refused' = {}
    BY <2>2, <2>3 DEF Sought, Supplied, Refused
  <2> QED
    BY <2>2, <2>4
    DEF TransferInv, SpeaksOfFiles, RefusedInv, SuppliedInv, SoughtInv, Attributed
<1>3. CASE NanoRequest
  <2> DEFINE m == [type |-> "request", seed |-> nano.seed]
  <2>1. UNCHANGED <<host, asks, imported, nano>>
    BY <1>3 DEF NanoRequest
  <2>2. m \in Message /\ wire' = wire \o << m >>
    BY <1>t, <1>3 DEF NanoRequest, Message, NanoTypes
  <2>3. Available' = Available
    BY <2>1 DEF Available, Locked
  <2>4. << m >> \in {<< >>} \cup {<< n >> : n \in Message} /\ \A n : << m >> = << n >> => n.type = "request"
    BY <2>2
  <2> QED
    BY <2>1, <2>2, <2>3, <2>4, TransferTold
<1>4. CASE Serve
  BY <1>4, TransferServed
<1>5. CASE RoastBegins
  <2>1. UNCHANGED <<host, asks, imported>> /\ wire' \in {wire, Says("busy")}
        /\ nano'.open = nano.open /\ nano'.roast = "begun"
    BY <1>t, <1>5 DEF RoastBegins, NanoTypes
  <2>2. ~Available'
    BY <2>1 DEF Available, Locked
  <2>3. PICK ms \in {<< >>} \cup {<< m >> : m \in Message} :
          wire' = wire \o ms /\ (ms # << >> => nano.open /\ ms = << [type |-> "busy"] >>)
    BY <2>1, Said DEF RoastWords
  <2>4. \A m : ms = << m >> => m.type = "busy" /\ nano.open
    BY <2>3
  <2> QED
    BY <2>1, <2>2, <2>3, <2>4, TransferTold
<1>6. CASE RoastWrites
  <2>1. UNCHANGED <<host, asks, imported>> /\ wire' \in {wire, Says("chunk")}
        /\ nano'.open = nano.open /\ nano'.roast = "logged"
    BY <1>t, <1>6 DEF RoastWrites, NanoTypes
  <2>2. ~Available'
    BY <2>1 DEF Available, Locked
  <2>3. PICK ms \in {<< >>} \cup {<< m >> : m \in Message} :
          wire' = wire \o ms /\ (ms # << >> => nano.open /\ ms = << [type |-> "chunk"] >>)
    BY <2>1, Said DEF RoastWords
  <2>4. \A m : ms = << m >> => m.type = "chunk"
    BY <2>3
  <2> QED
    BY <2>1, <2>2, <2>3, <2>4, TransferTold
<1>7. CASE RoastEnds
  <2>1. /\ UNCHANGED <<host, asks, imported>> /\ wire' \in {wire, Says("free")}
        /\ \A k \in DOMAIN asks : asks[k].type \notin Transferring
        /\ \A i \in DOMAIN wire : wire[i].type \notin {"directory", "file", "busy", "refused"}
    BY <1>7 DEF RoastEnds, Transferring
  <2>2. PICK ms \in {<< >>} \cup {<< m >> : m \in Message} :
          wire' = wire \o ms /\ (ms # << >> => nano.open /\ ms = << [type |-> "free"] >>)
    BY <2>1, Said DEF RoastWords
  <2>3. \A i \in DOMAIN wire' : wire'[i].type \notin {"directory", "file", "busy", "refused"}
    <3> SUFFICES ASSUME NEW i \in DOMAIN wire'
                 PROVE  wire'[i].type \notin {"directory", "file", "busy", "refused"}
      OBVIOUS
    <3>1. (i \in DOMAIN wire /\ wire'[i] = wire[i]) \/ ms = << wire'[i] >>
      BY <2>2, Sent
    <3>2. CASE ms = << wire'[i] >>
      <4>1. \A x : << x >> # << >>
        OBVIOUS
      <4>2. << wire'[i] >> = << [type |-> "free"] >>
        BY <2>2, <3>2, <4>1
      <4>3. \A x, y : << x >> = << y >> => x = y
        OBVIOUS
      <4>4. wire'[i] = [type |-> "free"]
        BY <4>2, <4>3
      <4> QED
        BY <4>4
    <3> QED
      BY <2>1, <3>1, <3>2
  <2>4. Sought' = {} /\ Supplied' = {} /\ Refused' = {}
    BY <2>1, <2>3 DEF Sought, Supplied, Refused
  <2> QED
    BY <2>1, <2>4
    DEF TransferInv, SpeaksOfFiles, RefusedInv, SuppliedInv, SoughtInv, Attributed
<1>8. CASE NanoResets
  <2>1. UNCHANGED <<host, wire, imported>> /\ asks' = << >> /\ ~nano'.open
    BY <1>t, <1>8 DEF NanoResets, NanoTypes
  <2>2. Sought' = {} /\ Supplied' = Supplied /\ Refused' = Refused /\ Greeted' = Greeted /\ ~Available'
    BY <2>1 DEF Sought, Supplied, Refused, Greeted, Available
  <2> QED
    BY <2>1, <2>2
    DEF TransferInv, SpeaksOfFiles, RefusedInv, SuppliedInv, SoughtInv, Attributed
<1>9. CASE UNCHANGED vars
  <2>1. Sought' = Sought /\ Supplied' = Supplied /\ Refused' = Refused /\ Greeted' = Greeted
        /\ Available' = Available
    BY <1>9 DEF vars, Sought, Supplied, Refused, Greeted, Available, Locked
  <2> QED
    BY <1>9, <2>1 DEF vars, TransferInv, SpeaksOfFiles, RefusedInv, SuppliedInv, SoughtInv, Attributed
<1> QED
  BY <1>1, <1>2, <1>3, <1>4, <1>5, <1>6, <1>7, <1>8, <1>9, Steps

-----------------------------------------------------------------------------
(* The refusals.  Once a start-up run was refused the worker knows the     *)
(* Nano to be locked, and hears of nothing else while the roast lasts.     *)

Shut == Locked \/ Refused # {}

\* Nothing that says the lock is open follows a refusal.
RefusedLast == \A i \in Refused, j \in DOMAIN wire : i < j => ~Free(wire[j])

\* The worker knows of the lock, and nothing on its way says otherwise.
Warned ==
  /\ host.trigger # "startup"
  /\ host.phase \in {"firmware", "ready"} => host.busy = "locked"
  /\ \A i \in DOMAIN wire : ~Free(wire[i])

RefusalInv ==
  /\ RefusedOnce
  /\ RefusedLast
  /\ (refused = 1 /\ Shut) => Warned

\* A turn of the worker.
LEMMA RefusalTurn ==
  ASSUME TypeInv, RefusalInv, NEW r \in Answer, NEW d \in {0, 1}, Turn(d, r)
  PROVE  RefusalInv'
<1> DEFINE m == Head(wire)
           counted == /\ host.trigger = "startup" /\ r.session.trigger = "none"
                      /\ r.session.outcome = "refused"
<1>1. /\ host' = r.session /\ nano' = nano /\ Sound(host) /\ Sound(r.session)
      /\ host.phase # "closed" /\ refused \in Nat
      /\ refused' = IF counted THEN refused + 1 ELSE refused
      /\ \/ r.session.phase = "closed" /\ wire' = << >>
         \/ /\ r.session.phase # "closed" /\ Len(wire) - d \in Nat
            /\ DOMAIN wire = 1 .. Len(wire) /\ DOMAIN wire' = 1 .. Len(wire) - d
            /\ \A i \in DOMAIN wire' : i + d \in DOMAIN wire /\ wire'[i] = wire[i + d]
  BY TurnLeaves DEF Turn, TypeInv
<1>2. d = 1 => /\ wire # << >> /\ 1 \in DOMAIN wire /\ m = wire[1] /\ m \in Message
               /\ Reads(m, r)
  <2>1. wire \in Seq(Message)
    BY DEF TypeInv
  <2> QED
    BY <2>1 DEF Turn
<1>3. d = 0 => Alone(r)
  BY DEF Turn
<1> HIDE DEF m, counted
<1>4. \/ Drops(r)
      \/ \E n : TakesRequest(host, n, r)
      \/ Stays(host, r)
      \/ Starts(host, r) /\ (host.busy = "locked" => (d = 1 /\ Free(m)))
      \/ d = 1 /\ (Proceeds(host, m, r) \/ Hears(host, m, r) \/ Fetches(host, m, r) \/ Refuses(host, m, r))
  BY <1>2, <1>3 DEF Alone, Reads
\* The session is dropped.
<1>5. CASE Drops(r)
  <2>1. r.session.trigger = "none" /\ r.session.outcome = "none" /\ r.session.phase = "closed"
    BY <1>5 DEF Drops, NoSession
  <2>2. wire' = << >> /\ DOMAIN wire' = {} /\ refused' = refused
    BY <1>1, <2>1 DEF counted
  <2>3. Refused' = {}
    BY <2>2 DEF Refused
  <2>4. Warned' /\ RefusedLast' /\ RefusedOnce'
    BY <1>1, <2>1, <2>2, <2>3 DEF Warned, RefusedLast, RefusedOnce, RefusalInv
  <2> QED
    BY <2>4 DEF RefusalInv
<1>6. CASE ~Drops(r)
  <2>1. r.session.phase # "closed"
    <3>1. host.phase \in Phases
      BY <1>1, SessionFields DEF Sound
    <3> QED
      BY <1>1, <1>4, <1>6, <3>1
      DEF TakesRequest, Early, Proceeds, Hears, Stays, Starts, Fetches, Refuses, SameTalk
  <2>2. /\ Len(wire) - d \in Nat /\ DOMAIN wire = 1 .. Len(wire)
        /\ DOMAIN wire' = 1 .. Len(wire) - d
        /\ \A i \in DOMAIN wire' : i + d \in DOMAIN wire /\ wire'[i] = wire[i + d] /\ i \in Int /\ i > 0
    BY <1>1, <2>1
  <2>3. \A i \in Refused' : i \in DOMAIN wire' /\ i + d \in Refused
    BY <2>2 DEF Refused
  <2>4. RefusedLast'
    <3> SUFFICES ASSUME NEW i \in Refused', NEW j \in DOMAIN wire', i < j
                 PROVE  ~Free(wire'[j])
      BY DEF RefusedLast
    <3>1. i + d \in Refused /\ j + d \in DOMAIN wire /\ i + d < j + d /\ wire'[j] = wire[j + d]
      BY <2>2, <2>3
    <3> QED
      BY <3>1 DEF RefusalInv, RefusedLast
  <2>5. Shut' => Shut
    BY <1>1, <2>3 DEF Shut, Locked
  <2>6. CASE counted
    <3>1. d = 1 /\ Refuses(host, m, r)
      BY <1>1, <1>4, <1>6, <2>6
      DEF counted, TakesRequest, Proceeds, Hears, Stays, Starts, Fetches, SameRun, Sound
    <3>2. 1 \in Refused
      BY <1>2, <3>1 DEF Refuses, Refused
    <3>3. refused = 0 /\ refused' = 1
      BY <1>1, <2>6, <3>2 DEF counted, RefusalInv, RefusedOnce, Shut, Warned
    <3>4. \A j \in DOMAIN wire' : ~Free(wire'[j])
      <4> SUFFICES ASSUME NEW j \in DOMAIN wire'
                   PROVE  ~Free(wire'[j])
        OBVIOUS
      <4>1. j + 1 \in DOMAIN wire /\ 1 < j + 1 /\ wire'[j] = wire[j + 1]
        BY <2>2, <3>1
      <4> QED
        BY <3>2, <4>1 DEF RefusalInv, RefusedLast
    <3>5. host'.trigger = "none" /\ host'.busy = "locked"
      BY <1>1, <2>6, <3>1 DEF counted, Refuses
    <3>6. Warned'
      BY <3>4, <3>5 DEF Warned
    <3> QED
      BY <2>4, <3>3, <3>6 DEF RefusalInv, RefusedOnce
  <2>7. CASE ~counted
    <3>1. refused' = refused
      BY <1>1, <2>7
    <3>2. ASSUME refused = 1, Shut
          PROVE  Warned'
      <4>1. Warned
        BY <3>2 DEF RefusalInv
      <4>2. \A i \in DOMAIN wire' : ~Free(wire'[i])
        BY <2>2, <4>1 DEF Warned
      <4>3. d = 1 => ~Free(m)
        BY <1>2, <4>1 DEF Warned
      <4>4. d = 1 /\ m.type = "status" => m.lock = "locked"
        BY <1>2, <4>3 DEF Free, Message
      <4>5. r.session.trigger # "startup" /\ (r.session.phase \in {"firmware", "ready"} => r.session.busy = "locked")
        <5>1. CASE \E n : TakesRequest(host, n, r)
          BY <4>1, <5>1 DEF Warned, TakesRequest, SameRun, Early
        <5>2. CASE Stays(host, r)
          BY <4>1, <5>2 DEF Warned, Stays, SameRun, SameTalk
        <5>3. CASE Starts(host, r) /\ (host.busy = "locked" => (d = 1 /\ Free(m)))
          BY <4>1, <4>3, <5>3 DEF Warned, Starts
        <5>4. CASE d = 1 /\ Proceeds(host, m, r)
          BY <4>1, <4>4, <5>4 DEF Warned, Proceeds, SameRun
        <5>5. CASE d = 1 /\ Hears(host, m, r)
          BY <4>1, <4>3, <4>4, <5>5 DEF Warned, Hears, SameRun, SameTalk, Free
        <5>6. CASE d = 1 /\ Fetches(host, m, r)
          BY <1>1, <4>1, <5>6 DEF Warned, Fetches, SameTalk, Sound
        <5>7. CASE d = 1 /\ Refuses(host, m, r)
          BY <1>1, <4>1, <5>7 DEF Warned, Refuses, SameTalk, Sound
        <5> QED
          BY <1>4, <1>6, <5>1, <5>2, <5>3, <5>4, <5>5, <5>6, <5>7
      <4> QED
        BY <1>1, <4>2, <4>5 DEF Warned
    <3> QED
      BY <2>4, <2>5, <3>1, <3>2 DEF RefusalInv, RefusedOnce
  <2> QED
    BY <2>6, <2>7
<1> QED
  BY <1>5, <1>6

\* The Nano says something, or nothing; that its lock is open only when it is.
LEMMA RefusalTold ==
  ASSUME TypeInv, RefusalInv, NEW ms \in {<< >>} \cup {<< m >> : m \in Message},
         wire' = wire \o ms, host' = host,
         \A m : (ms = << m >> /\ Free(m)) => (Refused = {} /\ ~Locked'),
         refused' = 0 \/ (refused' = refused /\ (Shut' => Shut))
  PROVE  RefusalInv'
<1>1. /\ \A i \in DOMAIN wire : i \in DOMAIN wire' /\ wire'[i] = wire[i] /\ i <= Len(wire) /\ i \in Int
      /\ \A i \in DOMAIN wire' :
           \/ i \in DOMAIN wire
           \/ i = Len(wire) + 1 /\ i \notin DOMAIN wire /\ ms = << wire'[i] >>
      /\ Len(wire) \in Nat
  BY Sent
<1>2. RefusedLast'
  <2> SUFFICES ASSUME NEW i \in Refused', NEW j \in DOMAIN wire', i < j, Free(wire'[j])
               PROVE  FALSE
    BY DEF RefusedLast
  <2>1. i \in DOMAIN wire /\ i \in Refused
    BY <1>1 DEF Refused
  <2>2. CASE j \in DOMAIN wire
    BY <1>1, <2>1, <2>2 DEF RefusalInv, RefusedLast
  <2>3. CASE ms = << wire'[j] >>
    BY <2>1, <2>3
  <2> QED
    BY <1>1, <2>2, <2>3
<1>3. ASSUME refused' = 1, Shut'
      PROVE  Warned'
  <2>1. refused = 1 /\ Shut /\ Warned
    BY <1>3 DEF RefusalInv
  <2>2. ASSUME NEW j \in DOMAIN wire', Free(wire'[j])
        PROVE  FALSE
    <3>1. ms = << wire'[j] >> /\ j \notin DOMAIN wire /\ j = Len(wire) + 1
      BY <1>1, <2>1, <2>2 DEF Warned
    <3>2. Refused = {} /\ ~Locked'
      BY <2>2, <3>1
    <3>3. PICK i \in Refused' : TRUE
      BY <1>3, <3>2 DEF Shut
    <3>4. i \in DOMAIN wire' /\ i \notin DOMAIN wire
      BY <1>1, <3>2 DEF Refused
    <3>5. i = j
      BY <1>1, <3>1, <3>4
    <3> QED
      BY <2>2, <3>3, <3>5 DEF Refused, Free
  <2> QED
    BY <2>1, <2>2 DEF Warned
<1>4. RefusedOnce'
  BY DEF RefusalInv, RefusedOnce
<1> QED
  BY <1>2, <1>3, <1>4 DEF RefusalInv

\* Every step keeps it.
LEMMA RefusalStep ==
  ASSUME TypeInv, TransferInv, RefusalInv, [Next]_vars
  PROVE  RefusalInv'
<1>t. /\ wire \in Seq(Message) /\ asks \in Seq(Ask) /\ nano \in NanoTypes
      /\ wire = wire \o << >>
  BY DEF TypeInv
<1>n. \A w \in RoastWords : \A m : << m >> = << [type |-> w] >> => m.type = w
  OBVIOUS
<1>e. \A m : << m >> # << >>
  OBVIOUS
<1>1. CASE WorkerStep
  BY <1>1, Turns, RefusalTurn
<1>2. CASE Connect
  <2>1. PICK replay \in {<< >>, << 0 >>, << 1 >>, << 0, 1 >>} : wire' = Requests(replay)
    BY <1>2 DEF Connect
  <2>2. /\ host'.trigger = "none" /\ host'.phase = "handshake" /\ refused' = refused
    BY <1>2 DEF Connect, NoSession
  <2>3. \A i \in DOMAIN wire' : wire'[i].type = "request"
    BY <2>1 DEF Requests
  <2>4. Refused' = {} /\ \A i \in DOMAIN wire' : ~Free(wire'[i])
    BY <2>3 DEF Refused, Free
  <2>5. Warned'
    BY <2>2, <2>4 DEF Warned
  <2>6. RefusedLast' /\ RefusedOnce'
    BY <2>2, <2>4 DEF RefusedLast, RefusalInv, RefusedOnce
  <2> QED
    BY <2>5, <2>6 DEF RefusalInv
<1>3. CASE NanoRequest
  <2> DEFINE m == [type |-> "request", seed |-> nano.seed]
  <2>1. host' = host /\ nano' = nano /\ refused' = refused
    BY <1>3 DEF NanoRequest
  <2>2. m \in Message /\ wire' = wire \o << m >> /\ m.type = "request"
    BY <1>t, <1>3 DEF NanoRequest, Message, NanoTypes
  <2> HIDE DEF m
  <2>3. << m >> \in {<< >>} \cup {<< n >> : n \in Message} /\ \A n : << m >> = << n >> => n = m
    BY <2>2
  <2>4. Refused' = Refused
    <3>1. /\ \A i \in DOMAIN wire : i \in DOMAIN wire' /\ wire'[i] = wire[i]
          /\ \A i \in DOMAIN wire' : i \in DOMAIN wire \/ << m >> = << wire'[i] >>
      BY <2>2, <2>3, Sent
    <3> QED
      BY <2>2, <2>3, <3>1 DEF Refused
  <2>5. Shut' => Shut
    BY <2>1, <2>4 DEF Shut, Locked
  <2>6. \A n : (<< m >> = << n >> /\ Free(n)) => (Refused = {} /\ ~Locked')
    BY <2>2, <2>3 DEF Free
  <2> QED
    BY <2>1, <2>2, <2>3, <2>5, <2>6, RefusalTold
<1>4. CASE Serve
  <2> DEFINE ms == ReplyTo(Head(asks))
  <2>1. /\ host' = host /\ refused' = refused /\ wire' = wire \o ms /\ nano'.roast = nano.roast
    BY <1>t, <1>4 DEF Serve, NanoTypes
  <2>2. ms \in {<< >>} \cup {<< m >> : m \in Message}
    BY <1>4, Served
  <2>3. \A m : ms = << m >> =>
          /\ Free(m) => Available
          /\ m.type \in {"busy", "refused"} => Locked
    BY DEF ReplyTo, Free, Lock, Available, Opens
  <2> HIDE DEF ms
  <2>4. \A i \in Refused' : i \in Refused \/ Locked
    BY <2>1, <2>2, <2>3, Sent DEF Refused
  <2>5. (Locked' <=> Locked) /\ (Shut' => Shut)
    BY <2>1, <2>4 DEF Shut, Locked
  <2>6. \A m : (ms = << m >> /\ Free(m)) => (Refused = {} /\ ~Locked')
    BY <2>3, <2>5 DEF TransferInv, RefusedInv, Available
  <2> QED
    BY <2>1, <2>2, <2>5, <2>6, RefusalTold
<1>5. CASE RoastBegins
  <2>1. host' = host /\ refused' = 0 /\ wire' \in {wire, Says("busy")}
    BY <1>5 DEF RoastBegins
  <2>2. PICK ms \in {<< >>} \cup {<< m >> : m \in Message} :
          wire' = wire \o ms /\ (ms # << >> => nano.open /\ ms = << [type |-> "busy"] >>)
    BY <2>1, Said DEF RoastWords
  <2>3. \A m : ms = << m >> => m.type = "busy"
    BY <1>n, <1>e, <2>2 DEF RoastWords
  <2>4. \A m : (ms = << m >> /\ Free(m)) => (Refused = {} /\ ~Locked')
    BY <2>3 DEF Free
  <2> QED
    BY <2>1, <2>2, <2>4, RefusalTold
<1>6. CASE RoastWrites
  <2>1. /\ host' = host /\ refused' = refused /\ wire' \in {wire, Says("chunk")}
        /\ nano.roast = "begun"
    BY <1>6 DEF RoastWrites
  <2>2. PICK ms \in {<< >>} \cup {<< m >> : m \in Message} :
          wire' = wire \o ms /\ (ms # << >> => nano.open /\ ms = << [type |-> "chunk"] >>)
    BY <2>1, Said DEF RoastWords
  <2>3. \A m : ms = << m >> => m.type = "chunk"
    BY <1>n, <1>e, <2>2 DEF RoastWords
  <2>4. \A m : (ms = << m >> /\ Free(m)) => (Refused = {} /\ ~Locked')
    BY <2>3 DEF Free
  <2>5. Shut
    BY <2>1 DEF Shut, Locked
  <2> QED
    BY <2>1, <2>2, <2>4, <2>5, RefusalTold
<1>7. CASE RoastEnds
  <2>1. /\ host' = host /\ refused' = refused /\ wire' \in {wire, Says("free")}
        /\ nano'.roast = "none"
        /\ \A i \in DOMAIN wire : wire[i].type \notin {"busy", "refused"}
    BY <1>t, <1>7 DEF RoastEnds, NanoTypes
  <2>2. PICK ms \in {<< >>} \cup {<< m >> : m \in Message} :
          wire' = wire \o ms /\ (ms # << >> => nano.open /\ ms = << [type |-> "free"] >>)
    BY <2>1, Said DEF RoastWords
  <2>3. \A m : ms = << m >> => m.type = "free"
    BY <1>n, <1>e, <2>2 DEF RoastWords
  <2>4. Refused = {} /\ ~Locked'
    BY <2>1 DEF Refused, Locked
  <2>5. Refused' = {}
    <3>1. \A i \in DOMAIN wire' : (i \in DOMAIN wire /\ wire'[i] = wire[i]) \/ wire'[i].type = "free"
      BY <2>2, <2>3, Sent
    <3> QED
      BY <2>1, <3>1 DEF Refused
  <2>6. ~Shut'
    BY <2>4, <2>5 DEF Shut
  <2> QED
    BY <2>1, <2>2, <2>4, <2>6, RefusalTold
<1>8. CASE NanoResets
  <2>1. host' = host /\ refused' = refused /\ wire' = wire /\ nano'.roast = "none"
    BY <1>t, <1>8 DEF NanoResets, NanoTypes
  <2>2. (Shut' => Shut) /\ wire' = wire \o << >>
    BY <1>t, <2>1 DEF Shut, Refused, Locked
  <2> QED
    BY <1>e, <2>1, <2>2, RefusalTold
<1>9. CASE UNCHANGED vars
  <2>1. host' = host /\ refused' = refused /\ wire' = wire /\ nano' = nano
    BY <1>9 DEF vars
  <2>2. (Shut' => Shut) /\ wire' = wire \o << >>
    BY <1>t, <2>1 DEF Shut, Refused, Locked
  <2> QED
    BY <1>e, <2>1, <2>2, RefusalTold
<1> QED
  BY <1>1, <1>2, <1>3, <1>4, <1>5, <1>6, <1>7, <1>8, <1>9, Steps

-----------------------------------------------------------------------------
(* The invariant of the session, and what follows from it.                 *)

Inv == TypeInv /\ HandshakeInv /\ TransferInv /\ RefusalInv

\* It holds before the first transport.
LEMMA InitInv ==
  ASSUME Init
  PROVE  Inv
<1>1. /\ host = NoSession /\ imported = {<<f, f>> : f \in OldLog} /\ wire = << >> /\ asks = << >>
      /\ nano = [open |-> FALSE, seed |-> 1, roast |-> "none", files |-> OldLog \cup Profile]
      /\ syncs = 0 /\ drops = 0 /\ resets = 0 /\ refused = 0
  BY DEF Init
<1>2. OldLog \cup Profile \subseteq File /\ OldLog \subseteq File
  BY NanoSessionAssumption DEF File
<1>3. DOMAIN wire = {} /\ DOMAIN asks = {}
  BY <1>1
<1>4. Sound(host) /\ host.phase = "closed"
  BY <1>1, Closed
<1>5. TypeInv
  <2>1. imported \subseteq File \X File
    BY <1>1, <1>2
  <2>2. nano \in NanoTypes
    BY <1>1, <1>2 DEF NanoTypes
  <2>3. wire \in Seq(Message) /\ asks \in Seq(Ask)
    BY <1>1
  <2> QED
    BY <1>1, <1>4, <2>1, <2>2, <2>3 DEF TypeInv
<1>6. HandshakeInv
  BY <1>1, <1>3, <1>4 DEF HandshakeInv, FirstWords, InOrder, DeafInv
<1>7. TransferInv
  <2>1. Sought = {} /\ Supplied = {} /\ Refused = {}
    BY <1>3 DEF Sought, Supplied, Refused
  <2>2. Attributed
    BY <1>1 DEF Attributed
  <2> QED
    BY <1>4, <2>1, <2>2 DEF TransferInv, SpeaksOfFiles, RefusedInv, SuppliedInv, SoughtInv
<1>8. RefusalInv
  BY <1>1, <1>3 DEF RefusalInv, RefusedOnce, RefusedLast
<1> QED
  BY <1>5, <1>6, <1>7, <1>8 DEF Inv

\* Every step keeps it.
LEMMA NextInv ==
  ASSUME Inv, [Next]_vars
  PROVE  Inv'
BY TypeStep, HandshakeStep, TransferStep, RefusalStep DEF Inv

\* The types and the three parts hold in every state: a request is newer than those that
\* were answered, a Nano that serves files has one request at most and it is the
\* worker's, a reset one stays deaf, and a worker that was refused knows of the lock.
THEOREM Invariant == Spec => []Inv
<1>1. Init => Inv
  BY InitInv
<1>2. Inv /\ [Next]_vars => Inv'
  BY NextInv
<1> QED
  BY <1>1, <1>2, PTL DEF Spec

\* What is imported under a path is the content of that path, although no reply is
\* compared with the request: the one reply that can be on its way is the one to it.
THEOREM FilesAreOwn == Spec => []Attributed
<1>1. Inv => Attributed
  BY DEF Inv, TransferInv
<1> QED
  BY <1>1, Invariant, PTL

\* At most one start-up run is refused in a roast: the worker that was refused starts no
\* other before something tells it that the lock is open, and while the roast lasts
\* nothing on its way does.
THEOREM RefusesOnce == Spec => []RefusedOnce
<1>1. Inv => RefusedOnce
  BY DEF Inv, RefusalInv
<1> QED
  BY <1>1, Invariant, PTL

\* Every variable has its type in every state.
THEOREM TypeCorrect == Spec => []TypeOK
<1>1. Inv => TypeOK
  BY DEF Inv, TypeInv, Sound, TypeOK, NanoTypes
<1> QED
  BY <1>1, Invariant, PTL

=============================================================================
