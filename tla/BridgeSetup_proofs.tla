-------------------------- MODULE BridgeSetup_proofs -------------------------
(***************************************************************************)
(* What setting up a bridge promises (the safety properties of             *)
(* BridgeSetup), for any number of panels, clicks, claims and faults: a    *)
(* panel that says the bridge is configured is right, the Atom always has  *)
(* a credential, and an open port can be given back.                       *)
(***************************************************************************)
EXTENDS BridgeSetup, TLAPS

Ops == {"idle", "opening", "status", "scan", "rescan", "claim", "configure",
        "abandoning", "finishing"}
Panels == [mounted : BOOLEAN, op : Ops, ref : BOOLEAN, waiting : Nat, leaving : BOOLEAN,
           status : BOOLEAN, networks : BOOLEAN, claim : Nat, configured : Nat, left : BOOLEAN]
Ports  == [owner : Nat, closing : BOOLEAN, alive : BOOLEAN]

Requests == [id : Nat, op : Ops, n : Nat]
Lines    == [id : Nat, ok : BOOLEAN]

Flash  == [ssid : Nat, pass : Nat, claim : Nat, token : Nat]
Writes == {"ssid", "pass", "claim", "token", "commit"}
Saving == {"token", "claim", "commit"}
Configs == [n : Nat, id : Nat, step : Writes \cup {"none"}]
NetStages == Saving \cup {"none", "offline", "hello", "attached"}
Nets    == [stage : NetStages, n : Nat]
Atoms   == [nvs : Flash, mem : Flash, config : Configs, due : BOOLEAN, net : Nets]

PanelTypes == /\ panel \in Seq(Panels)
              /\ port \in Ports /\ port.owner \in 0 .. Len(panel)
LineTypes  == /\ tx \in Seq(Requests) /\ wire \in Seq(Lines)
              /\ issued \in [request : Nat, claim : Nat]
AtomTypes  == atom \in Atoms /\ raced \in BOOLEAN

TypesOK == PanelTypes /\ LineTypes /\ AtomTypes

-----------------------------------------------------------------------------
(* Lemmas about sequences.                                                 *)

\* A sequence over a set stays one when it is emptied, grows, shrinks or is updated.
LEMMA SeqOperations ==
  ASSUME NEW S, NEW s \in Seq(S)
  PROVE  /\ << >> \in Seq(S)
         /\ \A x \in S : Append(s, x) \in Seq(S) /\ Len(Append(s, x)) = Len(s) + 1
         /\ s # << >> => Head(s) \in S /\ Tail(s) \in Seq(S)
         /\ \A x \in S, i \in DOMAIN s :
              [s EXCEPT ![i] = x] \in Seq(S) /\ Len([s EXCEPT ![i] = x]) = Len(s)
         /\ \A n \in 0 .. Len(s) : SubSeq(s, n + 1, Len(s)) \in Seq(S)
  OBVIOUS

\* The places of a sequence that has grown by one.
LEMMA AppendAt ==
  ASSUME NEW S, NEW s \in Seq(S), NEW x
  PROVE  /\ Len(s) \in Nat /\ DOMAIN s = 1 .. Len(s)
         /\ DOMAIN Append(s, x) = 1 .. Len(s) + 1 /\ Append(s, x)[Len(s) + 1] = x
         /\ \A i \in DOMAIN s : Append(s, x)[i] = s[i]
  OBVIOUS

\* The places of a sequence without its first element.
LEMMA TailAt ==
  ASSUME NEW S, NEW s \in Seq(S), s # << >>
  PROVE  /\ Len(s) \in Nat \ {0} /\ DOMAIN s = 1 .. Len(s) /\ Head(s) = s[1]
         /\ DOMAIN Tail(s) = 1 .. Len(s) - 1
         /\ \A i \in DOMAIN Tail(s) : Tail(s)[i] = s[i + 1]
  OBVIOUS

\* A panel that becomes another leaves the others alone.
LEMMA Became ==
  ASSUME panel \in Seq(Panels), NEW p \in DOMAIN panel, NEW q \in Panels, Becomes(p, q)
  PROVE  /\ panel' \in Seq(Panels) /\ Len(panel') = Len(panel) /\ DOMAIN panel' = DOMAIN panel
         /\ panel'[p] = q /\ \A r \in DOMAIN panel \ {p} : panel'[r] = panel[r]
  BY DEF Becomes

-----------------------------------------------------------------------------
(* What steps do to the lines between panel and Atom.                      *)

Unread == {wire[i] : i \in DOMAIN wire}

\* A request is written, or none.
Sends(op, n) ==
  LET id == issued.request + 1 IN
  /\ tx' = Append(tx, [id |-> id, op |-> op, n |-> n])
  /\ issued' = [request |-> id, claim |-> IF n = 0 THEN issued.claim ELSE n]
  /\ op = "configure" <=> n # 0
  /\ n # 0 => n = issued.claim + 1

\* Lines are read, not written.
LinesTaken == wire' \in Seq(Lines) /\ Unread' \subseteq Unread

\* However they are read.
LEMMA TakenOfWire ==
  ASSUME wire \in Seq(Lines)
  PROVE  /\ UNCHANGED wire => LinesTaken
         /\ wire # << >> /\ wire' = Tail(wire) => LinesTaken
         /\ \A n \in 0 .. Len(wire) : wire' = SubSeq(wire, n + 1, Len(wire)) => LinesTaken
<1>1. UNCHANGED wire => LinesTaken
  BY DEF LinesTaken, Unread
<1>2. ASSUME wire # << >>, wire' = Tail(wire) PROVE LinesTaken
  <2>1. wire' \in Seq(Lines)
    BY <1>2, SeqOperations
  <2>2. \A i \in DOMAIN wire' : i + 1 \in DOMAIN wire /\ wire'[i] = wire[i + 1]
    BY <1>2, TailAt
  <2> QED
    BY <2>1, <2>2 DEF LinesTaken, Unread
<1>3. ASSUME NEW n \in 0 .. Len(wire), wire' = SubSeq(wire, n + 1, Len(wire))
      PROVE  LinesTaken
  <2>1. wire' \in Seq(Lines)
    BY <1>3, SeqOperations
  <2>2. \A i \in DOMAIN wire' : i + n \in DOMAIN wire /\ wire'[i] = wire[i + n]
    BY <1>3
  <2> QED
    BY <2>1, <2>2 DEF LinesTaken, Unread
<1> QED
  BY <1>1, <1>2, <1>3

-----------------------------------------------------------------------------
(* The steps of a panel, by what they do to panel, port and requests.  The *)
(* panel r becomes q.                                                      *)

Same(r, q) == q.mounted = r.mounted /\ q.left = r.left

\* Nothing is sent and the port is left alone.
Quiet(p, r, q) ==
  /\ Same(r, q) /\ UNCHANGED <<port, tx, issued>>
  /\ \/ /\ r.op = "idle" /\ r.mounted
        /\ q.op = "opening" /\ q.ref = r.ref /\ q.waiting = r.waiting /\ q.configured = 0
     \/ /\ r.op = "idle" /\ r.mounted /\ r.ref
        /\ q.op = "claim" /\ q.ref /\ q.waiting = r.waiting /\ q.configured = r.configured
     \/ /\ r.op # "status" /\ (r.waiting # 0 \/ r.op \in {"opening", "claim", "idle"})
        /\ q.op = "idle" /\ q.ref = r.ref /\ q.waiting = 0 /\ q.configured = r.configured
     \/ /\ q.op = r.op /\ q.ref = r.ref /\ q.waiting = r.waiting
        /\ q.configured = r.configured /\ q.claim = r.claim

\* The port is opened, and the status asked for.
Opens(p, r, q) ==
  /\ Same(r, q) /\ r.op = "opening" /\ port.owner = 0
  /\ port' \in Ports /\ port'.owner = p /\ ~port'.closing
  /\ Sends("status", 0)
  /\ q.op = "status" /\ q.waiting = issued.request + 1
  /\ q.ref = r.ref /\ q.configured = r.configured

\* Another request is written.
GoesOn(p, r, q) ==
  /\ Same(r, q) /\ Usable(p) /\ UNCHANGED port
  /\ q.waiting = issued.request + 1 /\ q.ref = r.ref /\ q.configured = r.configured
  /\ Sends(q.op, q.claim)
  /\ \/ q.op = "scan" /\ r.op = "idle" /\ r.ref /\ r.mounted
     \/ q.op = "rescan" /\ r.op = "scan"
     \/ q.op = "configure" /\ r.op = "claim"

\* The status has come: the client is published.
Publishes(p, r, q) ==
  /\ Same(r, q) /\ Usable(p) /\ UNCHANGED <<port, tx, issued>>
  /\ r.op = "status" /\ q.op = "idle" /\ q.ref /\ q.waiting = 0
  /\ q.configured = r.configured

\* The configuration has been answered, and the client is closed.
Finishes(p, r, q) ==
  /\ Same(r, q) /\ Usable(p) /\ port' = Closing(p) /\ UNCHANGED <<tx, issued>>
  /\ r.op = "configure" /\ [id |-> r.waiting, ok |-> TRUE] \in Unread
  /\ q.op = "finishing" /\ q.ref = r.ref /\ q.waiting = 0 /\ q.configured = r.claim

\* The client is closed because it could not connect, or its panel or operator leaves.
Leaves(p, r, q) ==
  /\ port' \in {port, Closing(p)} /\ UNCHANGED <<tx, issued>>
  /\ q.configured = r.configured /\ q.claim = r.claim
  /\ \/ /\ r.op = "status" /\ Same(r, q) /\ port' = Closing(p)
        /\ q.op = "abandoning" /\ q.ref = r.ref /\ q.waiting = 0
     \/ /\ r.mounted /\ ~q.mounted /\ (r.ref => port' = Closing(p))
        /\ q.left = (r.op \in {"opening", "status"})
        /\ q.op = r.op /\ ~q.ref /\ q.waiting = r.waiting
     \/ /\ r.mounted /\ r.op = "idle" /\ Same(r, q) /\ port' = Closing(p)
        /\ q.op = r.op /\ ~q.ref /\ q.waiting = r.waiting

\* The port is given back.
GivesBack(p, r, q) ==
  /\ Same(r, q) /\ port.owner = p /\ r.waiting = 0
  /\ port' = NoPort /\ UNCHANGED <<tx, issued>>
  /\ q.op = (IF r.op \in {"abandoning", "finishing"} THEN "idle" ELSE r.op)
  /\ q.ref = (r.ref /\ q.op = r.op) /\ q.waiting = 0
  /\ q.configured = r.configured /\ q.claim = r.claim

Kinds(p, r, q) ==
  \/ Quiet(p, r, q) \/ Opens(p, r, q) \/ GoesOn(p, r, q) \/ Publishes(p, r, q)
  \/ Finishes(p, r, q) \/ Leaves(p, r, q) \/ GivesBack(p, r, q)

PanelStep(p) ==
  /\ UNCHANGED <<atom, raced>> /\ LinesTaken
  /\ \E q \in Panels : Becomes(p, q) /\ Kinds(p, panel[p], q)

\* The panel r awaits the answer to a request.
Awaits(r, q, op, n) ==
  /\ q.op = op /\ q.waiting = issued.request + 1 /\ q.claim = n
  /\ Same(r, q) /\ q.ref = r.ref /\ q.configured = r.configured

\* A request that is asked is written.
LEMMA AsksSends ==
  ASSUME LineTypes, NEW p, NEW r \in Panels, NEW op \in Ops \ {"configure"}, Asks(p, r, op, 0)
  PROVE  \E q \in Panels : Becomes(p, q) /\ Sends(op, 0) /\ Awaits(r, q, op, 0)
<1> DEFINE q == [r EXCEPT !.op = op, !.waiting = issued.request + 1, !.claim = 0]
<1>1. issued.request + 1 \in Nat
  BY DEF LineTypes
<1>2. q \in Panels /\ Awaits(r, q, op, 0)
  BY <1>1 DEF Panels, Awaits, Same
<1> QED
  BY <1>2 DEF Asks, Sends

\* So is a configuration, under the next claim.
LEMMA ConfigureSends ==
  ASSUME LineTypes, NEW p, NEW r \in Panels, Asks(p, r, "configure", issued.claim + 1)
  PROVE  \E q \in Panels : /\ Becomes(p, q) /\ Sends("configure", issued.claim + 1)
                           /\ Awaits(r, q, "configure", issued.claim + 1)
<1> DEFINE id == issued.request + 1
           n  == issued.claim + 1
           q  == [r EXCEPT !.op = "configure", !.waiting = id, !.claim = n]
<1>1. id \in Nat /\ n \in Nat /\ n # 0
  BY DEF LineTypes
<1>2. Becomes(p, q) /\ Sends("configure", n)
  BY <1>1 DEF Asks, Sends
<1> HIDE DEF n
<1>3. q \in Panels /\ Awaits(r, q, "configure", n)
  BY <1>1 DEF Panels, Ops, Awaits, Same
<1> QED
  BY <1>2, <1>3 DEF n

\* The effect's cleanup.
LEMMA UnmountStep ==
  ASSUME TypesOK, NEW p \in DOMAIN panel, Unmount(p)
  PROVE  PanelStep(p)
<1> DEFINE r == panel[p]
           q == [r EXCEPT !.mounted = FALSE, !.ref = FALSE,
                          !.left = r.op \in {"opening", "status"}]
<1>0. r \in Panels /\ (r.op \in {"opening", "status"}) \in BOOLEAN
  BY DEF TypesOK, PanelTypes
<1>1. r \in Panels /\ q \in Panels
  BY <1>0 DEF Panels
<1>2. LinesTaken /\ UNCHANGED <<atom, raced, tx, issued>> /\ Becomes(p, q)
  BY TakenOfWire DEF Unmount, TypesOK, LineTypes
<1>3. Leaves(p, r, q)
  BY <1>1, <1>2 DEF Unmount, Leaves, Panels, Same
<1> QED
  BY <1>1, <1>2, <1>3 DEF PanelStep, Kinds

\* The buttons.
LEMMA PressStep ==
  ASSUME TypesOK, NEW p \in DOMAIN panel, Press(p)
  PROVE  PanelStep(p)
<1> DEFINE r == panel[p]
<1>1. r \in Panels /\ r.mounted /\ r.op = "idle"
  BY DEF TypesOK, PanelTypes, Press, Connect, Scan, Configure, Disconnect, Click
<1>2. LinesTaken /\ UNCHANGED <<atom, raced>>
  BY TakenOfWire DEF TypesOK, LineTypes, Press, Connect, Scan, Configure, Disconnect
<1>3. CASE Connect(p)
  <2> DEFINE q == [r EXCEPT !.op = "opening", !.configured = 0]
  <2>1. q \in Panels /\ Becomes(p, q)
    BY <1>1, <1>3 DEF Connect, Panels, Ops
  <2>2. Quiet(p, r, q)
    BY <1>1, <1>3, <2>1 DEF Connect, Quiet, Panels, Same
  <2> QED
    BY <1>2, <2>1, <2>2 DEF PanelStep, Kinds
<1>4. CASE Scan(p)
  <2>1. CASE Usable(p)
    <3>0. Asks(p, r, "scan", 0) /\ "scan" \in Ops \ {"configure"} /\ LineTypes
      BY <1>4, <2>1 DEF Scan, AsksOrFails, TypesOK, Ops
    <3>1. PICK q \in Panels :
            Becomes(p, q) /\ Sends("scan", 0) /\ Awaits(r, q, "scan", 0)
      BY <1>1, <3>0, AsksSends
    <3>2. GoesOn(p, r, q)
      BY <1>1, <1>4, <2>1, <3>1 DEF Scan, GoesOn, Awaits
    <3> QED
      BY <1>2, <3>1, <3>2 DEF PanelStep, Kinds
  <2>2. CASE ~Usable(p)
    <3>1. Becomes(p, Idle(r)) /\ UNCHANGED <<port, tx, issued>>
      BY <1>4, <2>2 DEF Scan, AsksOrFails
    <3>2. Idle(r) \in Panels /\ Quiet(p, r, Idle(r))
      BY <1>1, <3>1 DEF Quiet, Same, Panels, Idle, Ops
    <3> QED
      BY <1>2, <3>1, <3>2 DEF PanelStep, Kinds
  <2> QED
    BY <2>1, <2>2
<1>5. CASE Configure(p)
  <2> DEFINE q == [r EXCEPT !.op = "claim"]
  <2>1. q \in Panels /\ Becomes(p, q)
    BY <1>1, <1>5 DEF Configure, Panels, Ops
  <2>2. Quiet(p, r, q)
    BY <1>1, <1>5, <2>1 DEF Configure, Quiet, Panels, Same
  <2> QED
    BY <1>2, <2>1, <2>2 DEF PanelStep, Kinds
<1>6. CASE Disconnect(p) /\ r.ref
  <2> DEFINE q == [r EXCEPT !.ref = FALSE, !.leaving = TRUE]
  <2>1. q \in Panels /\ Becomes(p, q)
    BY <1>1, <1>6 DEF Disconnect, Panels
  <2>2. Leaves(p, r, q)
    BY <1>1, <1>6, <2>1 DEF Disconnect, Leaves, Panels, Same
  <2> QED
    BY <1>2, <2>1, <2>2 DEF PanelStep, Kinds
<1>7. CASE Disconnect(p) /\ ~r.ref
  <2> DEFINE q == [r EXCEPT !.status = FALSE, !.networks = FALSE]
  <2>1. q \in Panels /\ Becomes(p, q)
    BY <1>1, <1>7 DEF Disconnect, Panels
  <2>2. Quiet(p, r, q)
    BY <1>1, <1>7, <2>1 DEF Disconnect, Quiet, Panels, Same
  <2> QED
    BY <1>2, <2>1, <2>2 DEF PanelStep, Kinds
<1> QED
  BY <1>3, <1>4, <1>5, <1>6, <1>7 DEF Press

\* What the panel awaited has come, or failed.
LEMMA ContinueStep ==
  ASSUME TypesOK, NEW p \in DOMAIN panel, Continue(p)
  PROVE  PanelStep(p)
<1> DEFINE r == panel[p]
<1>1. r \in Panels /\ LineTypes /\ p \in Nat /\ port \in Ports
  BY DEF TypesOK, PanelTypes
<1>2. LinesTaken /\ UNCHANGED <<atom, raced>>
  BY TakenOfWire DEF TypesOK, LineTypes, Continue, Opened, Claimed, ReadLine, ReadFails, PortClosed
<1>i. /\ Idle(r) \in Panels
      /\ (/\ r.op # "status" /\ (r.waiting # 0 \/ r.op \in {"opening", "claim", "idle"})
          /\ Becomes(p, Idle(r)) /\ UNCHANGED <<port, tx, issued>>)
           => PanelStep(p)
  <2>1. Idle(r) \in Panels
    BY <1>1 DEF Panels, Idle, Ops
  <2>2. ASSUME r.op # "status", r.waiting # 0 \/ r.op \in {"opening", "claim", "idle"},
               UNCHANGED <<port, tx, issued>>
        PROVE  Quiet(p, r, Idle(r))
    BY <1>1, <2>2 DEF Quiet, Same, Panels, Idle, Ops
  <2> QED
    BY <1>2, <2>1, <2>2 DEF PanelStep, Kinds
<1>3. CASE Opened(p)
  <2>1. CASE Becomes(p, Idle(r)) /\ UNCHANGED <<port, tx, issued>>
    BY <1>3, <1>i, <2>1 DEF Opened
  <2>2. CASE port.owner = 0 /\ port' = [NoPort EXCEPT !.owner = p] /\ Asks(p, r, "status", 0)
    <3>0. "status" \in Ops \ {"configure"}
      BY DEF Ops
    <3>1. PICK q \in Panels :
            Becomes(p, q) /\ Sends("status", 0) /\ Awaits(r, q, "status", 0)
      BY <1>1, <2>2, <3>0, AsksSends
    <3>2. port' \in Ports /\ port'.owner = p /\ ~port'.closing
      BY <1>1, <2>2 DEF NoPort, Ports
    <3>3. Opens(p, r, q)
      BY <1>1, <1>3, <2>2, <3>1, <3>2 DEF Opened, Opens, Awaits
    <3> QED
      BY <1>2, <3>1, <3>3 DEF PanelStep, Kinds
  <2> QED
    BY <1>3, <2>1, <2>2 DEF Opened
<1>4. CASE Claimed(p)
  <2>1. CASE Becomes(p, Idle(r)) /\ UNCHANGED <<tx, issued>>
    BY <1>4, <1>i, <2>1 DEF Claimed
  <2>2. CASE Usable(p) /\ Asks(p, r, "configure", issued.claim + 1)
    <3>1. PICK q \in Panels :
            /\ Becomes(p, q) /\ Sends("configure", issued.claim + 1)
            /\ Awaits(r, q, "configure", issued.claim + 1)
      BY <1>1, <2>2, ConfigureSends
    <3>2. GoesOn(p, r, q)
      BY <1>1, <1>4, <2>2, <3>1 DEF Claimed, GoesOn, Awaits
    <3> QED
      BY <1>2, <3>1, <3>2 DEF PanelStep, Kinds
  <2> QED
    BY <1>4, <2>1, <2>2 DEF Claimed, AsksOrFails
<1>5. ASSUME Fails(p), r.waiting # 0, UNCHANGED <<tx, issued>> PROVE PanelStep(p)
  <2>1. CASE r.op = "status"
    <3> DEFINE q == [r EXCEPT !.op = "abandoning", !.waiting = 0]
    <3>1. q \in Panels /\ Becomes(p, q) /\ port' = Closing(p)
      BY <1>1, <1>5, <2>1 DEF Fails, Panels, Ops
    <3>2. Leaves(p, r, q)
      BY <1>1, <1>5, <2>1, <3>1 DEF Leaves, Same, Panels
    <3> QED
      BY <1>2, <3>1, <3>2 DEF PanelStep, Kinds
  <2>2. CASE r.op # "status"
    BY <1>5, <1>i, <2>2 DEF Fails
  <2> QED
    BY <2>1, <2>2
<1>6. CASE ReadFails(p)
  BY <1>5, <1>6 DEF ReadFails
<1>7. ASSUME Succeeds(p), Usable(p), r.waiting # 0, [id |-> r.waiting, ok |-> TRUE] \in Unread
      PROVE  PanelStep(p)
  <2>1. CASE r.op = "status" /\ UNCHANGED <<port, tx, issued>>
    <3> DEFINE q == [Idle(r) EXCEPT !.ref = TRUE, !.status = TRUE, !.networks = FALSE]
    <3>1. q \in Panels /\ Becomes(p, q)
      BY <1>1, <1>7, <1>i, <2>1 DEF Succeeds, Panels, Idle, Ops
    <3>2. Publishes(p, r, q)
      BY <1>1, <1>7, <2>1 DEF Publishes, Same, Panels, Idle
    <3> QED
      BY <1>2, <3>1, <3>2 DEF PanelStep, Kinds
  <2>2. CASE r.op = "rescan" /\ UNCHANGED <<port, tx, issued>>
    <3> DEFINE q == [Idle(r) EXCEPT !.status = TRUE]
    <3>1. q \in Panels /\ Becomes(p, q)
      BY <1>1, <1>7, <1>i, <2>2 DEF Succeeds, Panels, Idle, Ops
    <3>2. Quiet(p, r, q)
      BY <1>1, <1>7, <2>2 DEF Quiet, Same, Panels, Idle
    <3> QED
      BY <1>2, <3>1, <3>2 DEF PanelStep, Kinds
  <2>3. CASE r.op = "scan" /\ AsksOrFails(p, [r EXCEPT !.networks = TRUE], "rescan", 0)
             /\ UNCHANGED port
    <3> DEFINE t == [r EXCEPT !.networks = TRUE]
    <3>0. "rescan" \in Ops \ {"configure"} /\ t \in Panels /\ Asks(p, t, "rescan", 0)
      BY <1>1, <1>7, <2>3 DEF AsksOrFails, Ops, Panels
    <3>1. PICK q \in Panels :
            Becomes(p, q) /\ Sends("rescan", 0) /\ Awaits(t, q, "rescan", 0)
      BY <1>1, <3>0, AsksSends
    <3>2. GoesOn(p, r, q)
      BY <1>1, <1>7, <2>3, <3>1 DEF GoesOn, Awaits, Same, Panels
    <3> QED
      BY <1>2, <3>1, <3>2 DEF PanelStep, Kinds
  <2>4. CASE r.op = "configure" /\ port' = Closing(p) /\ UNCHANGED <<tx, issued>>
    <3> DEFINE q == [r EXCEPT !.op = "finishing", !.waiting = 0, !.configured = r.claim]
    <3>1. q \in Panels /\ Becomes(p, q)
      BY <1>1, <1>7, <2>4 DEF Succeeds, Panels, Ops
    <3>2. Finishes(p, r, q)
      BY <1>1, <1>7, <2>4 DEF Finishes, Same, Panels
    <3> QED
      BY <1>2, <3>1, <3>2 DEF PanelStep, Kinds
  <2> QED
    BY <1>7, <2>1, <2>2, <2>3, <2>4 DEF Succeeds
<1>8. CASE ReadLine(p)
  <2>1. CASE Head(wire) = [id |-> r.waiting, ok |-> TRUE]
    <3>1. wire # << >> /\ wire \in Seq(Lines)
      BY <1>1, <1>8 DEF ReadLine, LineTypes
    <3>2. Head(wire) = wire[1]
      BY <3>1
    <3>3. [id |-> r.waiting, ok |-> TRUE] \in Unread
      <4>1. 1 \in DOMAIN wire
        BY <3>1
      <4>2. wire[1] \in Unread
        BY <4>1 DEF Unread
      <4> QED
        BY <2>1, <3>2, <4>2, Zenon
    <3> QED
      BY <1>7, <1>8, <2>1, <3>3 DEF ReadLine
  <2>2. CASE Head(wire) # [id |-> r.waiting, ok |-> TRUE]
    BY <1>5, <1>8, <2>2 DEF ReadLine
  <2> QED
    BY <2>1, <2>2
<1>9. CASE PortClosed(p)
  <2> DEFINE over == r.op \in {"abandoning", "finishing"}
             q == [r EXCEPT !.op       = IF over THEN "idle" ELSE @,
                            !.leaving  = FALSE,
                            !.ref      = @ /\ ~over,
                            !.status   = @ /\ ~over /\ ~r.leaving,
                            !.networks = @ /\ r.op # "finishing" /\ ~r.leaving]
  <2>1. Becomes(p, q)
    BY <1>9 DEF PortClosed
  <2>2. q \in Panels
    <3>1. ASSUME NEW op \in Ops, NEW b1 \in BOOLEAN, NEW b2 \in BOOLEAN, NEW b3 \in BOOLEAN
          PROVE  [r EXCEPT !.op = op, !.leaving = FALSE, !.ref = b1, !.status = b2,
                           !.networks = b3] \in Panels
      BY <1>1 DEF Panels
    <3>2. /\ (IF over THEN "idle" ELSE r.op) \in Ops /\ (r.ref /\ ~over) \in BOOLEAN
          /\ (r.status /\ ~over /\ ~r.leaving) \in BOOLEAN
          /\ (r.networks /\ r.op # "finishing" /\ ~r.leaving) \in BOOLEAN
      BY <1>1 DEF Panels, Ops
    <3> QED
      BY <3>1, <3>2
  <2>3. GivesBack(p, r, q)
    BY <1>1, <1>9 DEF PortClosed, GivesBack, Same, Panels
  <2> QED
    BY <1>2, <2>1, <2>2, <2>3 DEF PanelStep, Kinds
<1> QED
  BY <1>3, <1>4, <1>6, <1>8, <1>9 DEF Continue

-----------------------------------------------------------------------------
(* The steps of the Atom, by what they do to its memory and the lines.     *)

AtomIs(nvs, mem, config, net) ==
  /\ atom' \in Atoms
  /\ atom'.nvs = nvs /\ atom'.mem = mem /\ atom'.config = config /\ atom'.net = net

\* A line may be written.
LineAdded(line) == wire' \in Seq(Lines) /\ Unread' \subseteq Unread \cup {line}

\* A request is taken up: a configuration, or another, which is answered.
Takes ==
  /\ tx # << >> /\ tx' = Tail(tx) /\ atom.config.step = "none" /\ UNCHANGED raced
  /\ LET request == Head(tx) IN
     \/ /\ request.op = "configure" /\ UNCHANGED wire
        /\ AtomIs(atom.nvs, atom.mem, [n |-> request.n, id |-> request.id, step |-> "ssid"],
                  atom.net)
     \/ /\ request.op # "configure" /\ UNCHANGED atom
        /\ \E ok \in BOOLEAN : LineAdded([id |-> request.id, ok |-> ok])

\* One write of a configuration.
WritesTo(field, n, next) ==
  /\ UNCHANGED <<tx, wire, raced>> /\ atom.config.step = field
  /\ AtomIs([atom.nvs EXCEPT ![field] = n], atom.mem,
            [n |-> atom.config.n, id |-> atom.config.id, step |-> next], atom.net)

Commits ==
  LET config == atom.config IN
  /\ UNCHANGED <<tx, raced>> /\ config.step = "commit" /\ LineAdded([id |-> config.id, ok |-> TRUE])
  /\ AtomIs(atom.nvs, Stored(config.n, config.n, config.n, 0), NoConfig, atom.net)

\* The configuration ends with an error.
GivesUp ==
  /\ UNCHANGED <<tx, raced>> /\ LineAdded([id |-> atom.config.id, ok |-> FALSE])
  /\ AtomIs(atom.nvs, atom.mem, NoConfig, atom.net)

\* The network task goes on without writing.
Talks(stage, n) ==
  /\ UNCHANGED <<tx, wire, raced>>
  /\ AtomIs(atom.nvs, atom.mem, atom.config, [stage |-> stage, n |-> n])
  /\ \/ stage \in {"offline", "attached"} /\ n = 0
     \/ stage = "hello" /\ n \in {0, atom.mem.claim} /\ (n # 0 => atom.mem.token = 0)
     \/ stage = "token" /\ n = atom.net.n /\ n # 0

Persists ==
  LET n == atom.net.n IN
  /\ UNCHANGED <<tx, wire>> /\ raced' = (raced \/ Newer)
  /\ \/ /\ atom.net.stage = "token"
        /\ AtomIs([atom.nvs EXCEPT !.token = n], atom.mem, atom.config,
                  [stage |-> "claim", n |-> n])
     \/ /\ atom.net.stage = "claim"
        /\ AtomIs([atom.nvs EXCEPT !.claim = 0], atom.mem, atom.config,
                  [stage |-> "commit", n |-> n])
     \/ /\ atom.net.stage = "commit"
        /\ AtomIs(atom.nvs, [atom.mem EXCEPT !.token = n, !.claim = 0], atom.config,
                  [stage |-> "attached", n |-> n])

StartsAgain ==
  /\ tx' = << >> /\ wire' = << >> /\ UNCHANGED raced
  /\ \E stage \in {"none", "offline"} :
       AtomIs(atom.nvs, atom.nvs, NoConfig, [stage |-> stage, n |-> 0])

Loses ==
  /\ UNCHANGED <<atom, raced>>
  /\ UNCHANGED tx \/ (tx # << >> /\ tx' = Tail(tx))
  /\ LineAdded([id |-> 0, ok |-> FALSE])

AtomStep ==
  /\ UNCHANGED <<panel, issued>> /\ port' \in Ports
  /\ port'.owner = port.owner /\ port'.closing = port.closing
  /\ \/ Takes \/ Commits \/ GivesUp \/ Persists \/ StartsAgain \/ Loses
     \/ WritesTo("ssid", atom.config.n, "pass") \/ WritesTo("pass", atom.config.n, "claim")
     \/ WritesTo("claim", atom.config.n, "token") \/ WritesTo("token", 0, "commit")
     \/ \E stage \in NetStages, n \in Nat : Talks(stage, n)

\* A line that is written, or dropped.
LEMMA LineWritten ==
  ASSUME wire \in Seq(Lines), NEW line \in Lines
  PROVE  /\ wire' = Append(wire, line) => LineAdded(line)
         /\ UNCHANGED wire => LineAdded(line)
         /\ wire # << >> /\ wire' = Tail(wire) => LineAdded(line)
<1>1. ASSUME wire' = Append(wire, line) PROVE LineAdded(line)
  <2>1. wire' \in Seq(Lines)
    BY <1>1, SeqOperations
  <2>2. \A i \in DOMAIN wire' : (i \in DOMAIN wire /\ wire'[i] = wire[i]) \/ wire'[i] = line
    BY <1>1, AppendAt
  <2> QED
    BY <2>1, <2>2 DEF LineAdded, Unread
<1> QED
  BY <1>1, TakenOfWire DEF LineAdded, LinesTaken, Unread

\* app_main takes up a request.
LEMMA TakeRequestStep ==
  ASSUME TypesOK, TakeRequest
  PROVE  AtomStep
<1> DEFINE request == Head(tx)
<1>1. request \in Requests /\ tx # << >>
  BY SeqOperations DEF TakeRequest, TypesOK, LineTypes
<1>2. UNCHANGED <<panel, issued, port, raced>>
  BY DEF TakeRequest, page
<1>3. CASE /\ request.op = "configure" /\ UNCHANGED wire
           /\ atom' = [atom EXCEPT !.config = [n |-> request.n, id |-> request.id,
                                               step |-> "ssid"]]
  <2>1. [n |-> request.n, id |-> request.id, step |-> "ssid"] \in Configs
    BY <1>1 DEF Requests, Configs, Writes
  <2>2. AtomIs(atom.nvs, atom.mem, [n |-> request.n, id |-> request.id, step |-> "ssid"],
               atom.net)
    BY <1>3, <2>1 DEF AtomIs, TypesOK, AtomTypes, Atoms
  <2> QED
    BY <1>1, <1>2, <1>3, <2>2 DEF AtomStep, Takes, TakeRequest, TypesOK, PanelTypes
<1>4. ASSUME request.op # "configure", UNCHANGED atom,
             NEW ok \in BOOLEAN, Answers(request.id, ok)
      PROVE  AtomStep
  <2>1. [id |-> request.id, ok |-> ok] \in Lines
    BY <1>1 DEF Requests, Lines
  <2>2. LineAdded([id |-> request.id, ok |-> ok])
    BY <1>4, <2>1, LineWritten DEF Answers, TypesOK, LineTypes
  <2> QED
    BY <1>1, <1>2, <1>4, <2>2 DEF AtomStep, Takes, TakeRequest, TypesOK, PanelTypes
<1>5. \A ok \in {TRUE, request.op # "scan"} : ok \in BOOLEAN
  OBVIOUS
<1> QED
  BY <1>3, <1>4, <1>5 DEF TakeRequest

\* A write of a configuration, or its commit.
LEMMA StoreStep ==
  ASSUME TypesOK, Store
  PROVE  AtomStep
<1> DEFINE config == atom.config
<1>1. /\ atom \in Atoms /\ config \in Configs /\ atom.nvs \in Flash /\ config.step \in Writes
      /\ config.n \in Nat /\ config.id \in Nat
      /\ UNCHANGED <<panel, issued, port, raced, tx>> /\ port \in Ports
  BY DEF Store, page, TypesOK, AtomTypes, PanelTypes, Atoms, Configs
<1>2. CASE config.step = "commit"
  <2>1. Stored(config.n, config.n, config.n, 0) \in Flash /\ NoConfig \in Configs
    BY <1>1 DEF Stored, Flash, NoConfig, Configs
  <2>2. AtomIs(atom.nvs, Stored(config.n, config.n, config.n, 0), NoConfig, atom.net)
    BY <1>1, <1>2, <2>1 DEF Store, AtomIs, Atoms
  <2>3. [id |-> config.id, ok |-> TRUE] \in Lines
    BY <1>1 DEF Lines
  <2>4. LineAdded([id |-> config.id, ok |-> TRUE])
    BY <1>2, <2>3, LineWritten DEF Store, Answers, TypesOK, LineTypes
  <2> QED
    BY <1>1, <1>2, <2>2, <2>4 DEF AtomStep, Commits
<1>3. ASSUME NEW field \in Writes \ {"commit"}, config.step = field
      PROVE  WritesTo(field, IF field = "token" THEN 0 ELSE config.n, WriteAfter[field])
  <2> DEFINE n == IF field = "token" THEN 0 ELSE config.n
             nvs == [atom.nvs EXCEPT ![field] = n]
             next == WriteAfter[field]
             to == [n |-> config.n, id |-> config.id, step |-> next]
  <2>1. n \in Nat /\ next \in Writes
    BY <1>1 DEF Writes, WriteAfter
  <2>2. nvs \in Flash /\ to \in Configs
    BY <1>1, <2>1 DEF Flash, Configs, Writes
  <2>3. UNCHANGED wire /\ atom' = [atom EXCEPT !.nvs = nvs, !.config = to]
    <3>1. [config EXCEPT !.step = next] = to
      BY <1>1 DEF Configs
    <3>2. UNCHANGED wire /\ atom' = [atom EXCEPT !.nvs = nvs,
                                                 !.config = [config EXCEPT !.step = next]]
      BY <1>1, <1>3 DEF Store, Written, Writes
    <3> QED
      BY <3>1, <3>2
  <2> HIDE DEF n, nvs, next, to
  <2>4. AtomIs(nvs, atom.mem, to, atom.net)
    BY <1>1, <2>2, <2>3 DEF AtomIs, Atoms
  <2> QED
    BY <1>1, <1>3, <2>3, <2>4 DEF WritesTo, n, nvs, next, to
<1>4. CASE config.step # "commit"
  <2>1. \/ WritesTo("ssid", config.n, "pass") \/ WritesTo("pass", config.n, "claim")
        \/ WritesTo("claim", config.n, "token") \/ WritesTo("token", 0, "commit")
    BY <1>1, <1>3, <1>4 DEF Writes, WriteAfter
  <2> QED
    BY <1>1, <2>1 DEF AtomStep
<1> QED
  BY <1>2, <1>4

\* A write that fails.
LEMMA StoreFailsStep ==
  ASSUME TypesOK, StoreFails
  PROVE  AtomStep
<1>1. /\ atom \in Atoms /\ atom.config \in Configs /\ port \in Ports
      /\ UNCHANGED <<panel, issued, port, raced, tx>>
  BY DEF StoreFails, page, TypesOK, AtomTypes, PanelTypes, Atoms
<1>2. NoConfig \in Configs /\ [id |-> atom.config.id, ok |-> FALSE] \in Lines
  BY <1>1 DEF NoConfig, Configs, Lines
<1>3. AtomIs(atom.nvs, atom.mem, NoConfig, atom.net)
  BY <1>1, <1>2 DEF StoreFails, AtomIs, Atoms
<1>4. LineAdded([id |-> atom.config.id, ok |-> FALSE])
  BY <1>2, LineWritten DEF StoreFails, Answers, TypesOK, LineTypes
<1> QED
  BY <1>1, <1>3, <1>4 DEF AtomStep, GivesUp

\* The network task goes from one stage to another.
LEMMA NetMoves ==
  ASSUME TypesOK, NEW stage \in NetStages, NEW n \in Nat, Net(stage, n),
         UNCHANGED <<page, tx, wire, issued, raced>>,
         \/ stage \in {"offline", "attached"} /\ n = 0
         \/ stage = "hello" /\ n \in {0, atom.mem.claim} /\ (n # 0 => atom.mem.token = 0)
         \/ stage = "token" /\ n = atom.net.n /\ n # 0
  PROVE  AtomStep
<1>1. atom \in Atoms /\ [stage |-> stage, n |-> n] \in Nets /\ port \in Ports
  BY DEF TypesOK, AtomTypes, PanelTypes, Nets
<1>2. AtomIs(atom.nvs, atom.mem, atom.config, [stage |-> stage, n |-> n])
  BY <1>1 DEF Net, AtomIs, Atoms
<1> QED
  BY <1>1, <1>2 DEF AtomStep, Talks, page

\* The stages of a connection with the backend.
LEMMA NetworkStep ==
  ASSUME TypesOK, Hello \/ Authenticated \/ NetFails \/ PersistFails
  PROVE  AtomStep
<1>1. /\ atom.net.n \in Nat /\ atom.mem.claim \in Nat
      /\ {"offline", "attached", "hello", "token"} \subseteq NetStages
  BY DEF TypesOK, AtomTypes, Atoms, Nets, Flash, NetStages, Saving
<1>2. CASE Hello
  <2> DEFINE n == IF atom.mem.token # 0 THEN 0 ELSE atom.mem.claim
  <2>1. n \in Nat /\ Net("hello", n) /\ UNCHANGED <<page, tx, wire, issued, raced>>
        /\ n \in {0, atom.mem.claim} /\ (n # 0 => atom.mem.token = 0)
    BY <1>1, <1>2 DEF Hello
  <2> HIDE DEF n
  <2> QED
    BY <1>1, <2>1, NetMoves
<1>3. CASE Authenticated
  <2>1. UNCHANGED <<page, tx, wire, issued, raced>>
    BY <1>3 DEF Authenticated
  <2>2. CASE atom.net.n # 0
    BY <1>1, <1>3, <2>1, <2>2, NetMoves DEF Authenticated
  <2>3. CASE atom.net.n = 0
    BY <1>1, <1>3, <2>1, <2>3, NetMoves DEF Authenticated
  <2> QED
    BY <2>2, <2>3
<1>4. CASE NetFails \/ PersistFails
  BY <1>1, <1>4, NetMoves DEF NetFails, PersistFails
<1> QED
  BY <1>2, <1>3, <1>4

\* A device token is stored, write by write.
LEMMA PersistStep ==
  ASSUME TypesOK, Persist
  PROVE  AtomStep
<1> DEFINE n == atom.net.n
           nvs == atom.nvs
           mem == atom.mem
           net == atom.net
<1>1. /\ atom \in Atoms /\ n \in Nat /\ nvs \in Flash /\ mem \in Flash /\ net \in Nets
      /\ net.n = n
      /\ port \in Ports /\ UNCHANGED <<panel, issued, port, tx, wire>> /\ raced' = (raced \/ Newer)
  BY DEF Persist, page, TypesOK, AtomTypes, PanelTypes, Atoms, Nets
<1> HIDE DEF n, nvs, mem, net
<1>2. /\ [nvs EXCEPT !.token = n] \in Flash /\ [nvs EXCEPT !.claim = 0] \in Flash
      /\ [mem EXCEPT !.token = n, !.claim = 0] \in Flash
  BY <1>1 DEF Flash
<1>n. \A stage \in {"claim", "commit", "attached"} :
        /\ [net EXCEPT !.stage = stage] = [stage |-> stage, n |-> n]
        /\ [stage |-> stage, n |-> n] \in Nets
  BY <1>1 DEF Nets, NetStages, Saving
<1> USE DEF n, nvs, mem, net
<1>3. CASE net.stage = "token"
  <2>1. atom' = [atom EXCEPT !.nvs = [nvs EXCEPT !.token = n],
                             !.net = [net EXCEPT !.stage = "claim"]]
    BY <1>1, <1>3 DEF Persist
  <2>2. AtomIs([nvs EXCEPT !.token = n], mem, atom.config, [stage |-> "claim", n |-> n])
    BY <1>1, <1>2, <1>n, <2>1 DEF AtomIs, Atoms
  <2> QED
    BY <1>1, <1>3, <2>2 DEF AtomStep, Persists
<1>4. CASE net.stage = "claim"
  <2>1. atom' = [atom EXCEPT !.nvs = [nvs EXCEPT !.claim = 0],
                             !.net = [net EXCEPT !.stage = "commit"]]
    BY <1>1, <1>4 DEF Persist
  <2>2. AtomIs([nvs EXCEPT !.claim = 0], mem, atom.config, [stage |-> "commit", n |-> n])
    BY <1>1, <1>2, <1>n, <2>1 DEF AtomIs, Atoms
  <2> QED
    BY <1>1, <1>4, <2>2 DEF AtomStep, Persists
<1>5. CASE net.stage = "commit"
  <2>1. atom' = [atom EXCEPT !.mem = [mem EXCEPT !.token = n, !.claim = 0],
                             !.net = [net EXCEPT !.stage = "attached"]]
    BY <1>1, <1>5 DEF Persist
  <2>2. AtomIs(nvs, [mem EXCEPT !.token = n, !.claim = 0], atom.config,
               [stage |-> "attached", n |-> n])
    BY <1>1, <1>2, <1>n, <2>1 DEF AtomIs, Atoms
  <2> QED
    BY <1>1, <1>5, <2>2 DEF AtomStep, Persists
<1> QED
  BY <1>3, <1>4, <1>5 DEF Persist

\* The Atom starts from what its flash holds.
LEMMA BootedAtom ==
  ASSUME NEW nvs \in Flash
  PROVE  /\ Booted(nvs) \in Atoms
         /\ Booted(nvs).nvs = nvs /\ Booted(nvs).mem = nvs /\ Booted(nvs).config = NoConfig
         /\ \E stage \in {"none", "offline"} : Booted(nvs).net = [stage |-> stage, n |-> 0]
<1> DEFINE stage == IF nvs.ssid # 0 /\ HasCredential(nvs) THEN "offline" ELSE "none"
<1>1. stage \in {"none", "offline"} /\ NoConfig \in Configs
      /\ [stage |-> stage, n |-> 0] \in Nets
  BY DEF Configs, NoConfig, Nets, NetStages
<1>2. Booted(nvs) = [nvs |-> nvs, mem |-> nvs, config |-> NoConfig, due |-> FALSE,
                     net |-> [stage |-> stage, n |-> 0]]
  BY DEF Booted
<1> HIDE DEF stage
<1> QED
  BY <1>1, <1>2 DEF Atoms

\* Restarts, power cycles and lost lines.
LEMMA LossStep ==
  ASSUME TypesOK, Restart \/ PowerCycle \/ LoseLine
  PROVE  AtomStep
<1>1. atom \in Atoms /\ port \in Ports /\ atom.nvs \in Flash
  BY DEF TypesOK, AtomTypes, PanelTypes, Atoms
<1>2. CASE Restart \/ PowerCycle
  <2>1. atom' = Booted(atom.nvs) /\ tx' = << >> /\ wire' = << >>
        /\ UNCHANGED <<panel, issued, raced>>
        /\ port' = [port EXCEPT !.alive = @ /\ port.owner = 0]
    BY <1>2 DEF Restart, PowerCycle, Reboots
  <2>2. StartsAgain
    BY <1>1, <2>1, BootedAtom DEF StartsAgain, AtomIs
  <2>3. (port.alive /\ port.owner = 0) \in BOOLEAN
    OBVIOUS
  <2>4. port' \in Ports /\ port'.owner = port.owner /\ port'.closing = port.closing
    BY <1>1, <2>1, <2>3 DEF Ports
  <2> QED
    BY <2>1, <2>2, <2>4 DEF AtomStep
<1>3. CASE LoseLine
  <2>1. UNCHANGED <<panel, port, atom, issued, raced>> /\ wire \in Seq(Lines)
        /\ [id |-> 0, ok |-> FALSE] \in Lines
    BY <1>3 DEF LoseLine, page, TypesOK, LineTypes, Lines
  <2>2. LineAdded([id |-> 0, ok |-> FALSE])
    BY <1>3, <2>1, LineWritten DEF LoseLine
  <2>3. Loses
    BY <1>3, <2>1, <2>2 DEF LoseLine, Loses
  <2> QED
    BY <1>1, <2>1, <2>3 DEF AtomStep
<1> QED
  BY <1>2, <1>3

\* A panel is mounted when the last one has been left.
Mounts ==
  /\ panel' = Append(panel, NewPanel) /\ ~panel[Len(panel)].mounted
  /\ UNCHANGED <<port, tx, wire, atom, issued, raced>>

\* Every step is one of these.
LEMMA Steps ==
  ASSUME TypesOK, [Next]_vars
  PROVE  \/ Mounts \/ AtomStep \/ \E p \in DOMAIN panel : PanelStep(p)
         \/ UNCHANGED <<panel, port, tx, wire, atom, issued, raced>>
<1>1. CASE Mount
  BY <1>1 DEF Mount, Mounts
<1>2. ASSUME NEW p \in DOMAIN panel, Unmount(p) \/ Press(p) \/ Continue(p)
      PROVE  PanelStep(p)
  BY <1>2, UnmountStep, PressStep, ContinueStep
<1>3. CASE Atom
  BY <1>3, TakeRequestStep, StoreStep, StoreFailsStep, NetworkStep, PersistStep, LossStep DEF Atom
<1>4. CASE UNCHANGED vars
  BY <1>4 DEF vars, page
<1> QED
  BY <1>1, <1>2, <1>3, <1>4 DEF Next, Panel

-----------------------------------------------------------------------------
(* Types.                                                                  *)

\* The port of a client that is closed.
LEMMA ClosingPort ==
  ASSUME port \in Ports, NEW p
  PROVE  /\ Closing(p) \in Ports /\ Closing(p).owner = port.owner
         /\ port.owner = p => Closing(p).closing
         /\ port.owner # p => Closing(p) = port
         /\ port.closing => Closing(p).closing
         /\ NoPort \in Ports /\ NoPort.owner = 0
  BY DEF Closing, Ports, NoPort

\* Every step keeps the types.
LEMMA TypesStep ==
  ASSUME TypesOK, [Next]_vars
  PROVE  TypesOK'
<1>1. CASE Mounts
  <2>1. NewPanel \in Panels
    BY DEF NewPanel, Panels, Ops
  <2>2. panel' \in Seq(Panels) /\ Len(panel') = Len(panel) + 1 /\ Len(panel) \in Nat
    BY <1>1, <2>1, SeqOperations DEF Mounts, TypesOK, PanelTypes
  <2> QED
    BY <1>1, <2>2 DEF Mounts, TypesOK, PanelTypes, LineTypes, AtomTypes
<1>2. CASE AtomStep
  <2>1. PanelTypes'
    BY <1>2 DEF AtomStep, TypesOK, PanelTypes
  <2>2. AtomTypes'
    BY <1>2 DEF AtomStep, TypesOK, AtomTypes, AtomIs, Takes, Commits, GivesUp, Persists,
       StartsAgain, Loses, WritesTo, Talks
  <2>3. tx' \in Seq(Requests)
    <3>1. tx' \in {tx, << >>} \/ (tx # << >> /\ tx' = Tail(tx))
      BY <1>2 DEF AtomStep, AtomIs, Takes, Commits, GivesUp, Persists,
         StartsAgain, Loses, WritesTo, Talks
    <3> QED
      BY <3>1, SeqOperations DEF TypesOK, LineTypes
  <2>4. wire' \in Seq(Lines)
    <3>1. UNCHANGED wire \/ wire' = << >> \/ wire' \in Seq(Lines)
      BY <1>2 DEF AtomStep, Takes, Commits, GivesUp, Persists,
         StartsAgain, Loses, WritesTo, Talks, LineAdded
    <3> QED
      BY <3>1, SeqOperations DEF TypesOK, LineTypes
  <2> QED
    BY <1>2, <2>1, <2>2, <2>3, <2>4 DEF AtomStep, TypesOK, LineTypes
<1>3. ASSUME NEW p \in DOMAIN panel, PanelStep(p) PROVE TypesOK'
  <2>1. PICK q \in Panels : Becomes(p, q) /\ Kinds(p, panel[p], q)
    BY <1>3 DEF PanelStep
  <2>2. port \in Ports /\ p \in 1 .. Len(panel)
    BY DEF TypesOK, PanelTypes
  <2>3. port' \in Ports /\ port'.owner \in {port.owner, p, 0}
    BY <2>1, <2>2, ClosingPort DEF Kinds, Quiet, Opens, GoesOn, Publishes, Finishes, Leaves,
       GivesBack
  <2>4. PanelTypes'
    BY <2>1, <2>2, <2>3, Became DEF TypesOK, PanelTypes
  <2>5. tx' \in Seq(Requests) /\ issued' \in [request : Nat, claim : Nat]
    <3>1. CASE UNCHANGED <<tx, issued>>
      BY <3>1 DEF TypesOK, LineTypes
    <3>2. ASSUME NEW op \in Ops, NEW n \in Nat, Sends(op, n)
          PROVE  tx' \in Seq(Requests) /\ issued' \in [request : Nat, claim : Nat]
      <4>1. issued.request + 1 \in Nat /\ issued.claim \in Nat
        BY DEF TypesOK, LineTypes
      <4>2. [id |-> issued.request + 1, op |-> op, n |-> n] \in Requests
        BY <4>1 DEF Requests
      <4> QED
        BY <3>2, <4>1, <4>2, SeqOperations DEF Sends, TypesOK, LineTypes
    <3>3. "status" \in Ops /\ q.op \in Ops /\ q.claim \in Nat
      BY DEF Ops, Panels
    <3> QED
      BY <2>1, <3>1, <3>2, <3>3 DEF Kinds, Quiet, Opens, GoesOn, Publishes, Finishes, Leaves,
         GivesBack
  <2> QED
    BY <1>3, <2>4, <2>5 DEF PanelStep, LinesTaken, TypesOK, LineTypes, AtomTypes
<1>4. CASE UNCHANGED <<panel, port, tx, wire, atom, issued, raced>>
  BY <1>4 DEF TypesOK, PanelTypes, LineTypes, AtomTypes
<1> QED
  BY <1>1, <1>2, <1>3, <1>4, Steps

-----------------------------------------------------------------------------
(* The port.                                                               *)

Asking == {"status", "scan", "rescan", "configure"}

\* Only the last panel is mounted, and one is left only while it connects, or after; one
\* that connects is mounted or left.  A panel that awaits an answer has the port, and
\* its request is the last one written.
PanelOK(p) ==
  LET rec == panel[p] IN
  /\ rec.mounted => p = Len(panel) /\ ~rec.left
  /\ rec.op \in {"opening", "status"} => rec.mounted \/ rec.left
  /\ rec.left => rec.op \in {"opening", "status", "abandoning", "idle"}
  /\ rec.waiting # 0 => rec.waiting = issued.request /\ port.owner = p
  /\ rec.waiting # 0 <=> rec.op \in Asking

PanelInv == \A p \in DOMAIN panel : PanelOK(p)

PortInv == PanelInv /\ PortHeld

\* A step of a panel keeps what is said of it.
LEMMA StepOfPanel ==
  ASSUME TypesOK, PortInv, NEW p \in DOMAIN panel, NEW q \in Panels, Becomes(p, q),
         Kinds(p, panel[p], q)
  PROVE  PanelOK(p)' /\ PortHeld'
<1> DEFINE r == panel[p]
<1>1. /\ r \in Panels /\ q \in Panels /\ panel'[p] = q /\ port \in Ports /\ p # 0
      /\ Len(panel') = Len(panel) /\ \A o \in DOMAIN panel \ {p} : panel'[o] = panel[o]
      /\ port.owner \in 0 .. Len(panel) /\ DOMAIN panel = 1 .. Len(panel)
      /\ issued.request \in Nat /\ issued.request + 1 # 0
      /\ PanelOK(p) /\ PortHeld
  BY Became DEF TypesOK, PanelTypes, LineTypes, PortInv, PanelInv
<1>o. port.owner # 0 /\ port.owner # p => panel'[port.owner] = panel[port.owner]
  BY <1>1
<1> USE DEF Same, Asking, PanelOK, PortHeld
<1>2. CASE Quiet(p, r, q)
  BY <1>1, <1>o, <1>2 DEF Quiet
<1>3. CASE Opens(p, r, q)
  BY <1>1, <1>3 DEF Opens, Sends
<1>4. CASE GoesOn(p, r, q)
  BY <1>1, <1>o, <1>4 DEF GoesOn, Sends, Usable
<1>5. CASE Publishes(p, r, q)
  BY <1>1, <1>o, <1>5 DEF Publishes, Usable
<1>6. CASE Finishes(p, r, q)
  BY <1>1, <1>o, <1>6, ClosingPort DEF Finishes, Usable
<1>7. CASE Leaves(p, r, q)
  <2>1. /\ port'.owner = port.owner /\ UNCHANGED issued
        /\ port' = Closing(p) /\ port.owner = p => port'.closing
        /\ port' = port \/ port' = Closing(p)
        /\ port.owner # p => port' = port
    BY <1>1, <1>7, ClosingPort DEF Leaves
  <2>2. CASE r.op = "status" /\ Same(r, q) /\ port' = Closing(p) /\ q.op = "abandoning"
             /\ q.waiting = 0
    <3>1. PanelOK(p)'
      BY <1>1, <2>1, <2>2
    <3>2. PortHeld'
      BY <1>1, <1>o, <2>1, <2>2
    <3> QED
      BY <3>1, <3>2
  <2>3. CASE r.mounted /\ ~q.mounted /\ (r.ref => port' = Closing(p))
             /\ q.left = (r.op \in {"opening", "status"}) /\ q.op = r.op
             /\ q.waiting = r.waiting
    <3>1. PanelOK(p)'
      BY <1>1, <2>1, <2>3
    <3>2. PortHeld'
      BY <1>1, <1>o, <2>1, <2>3
    <3> QED
      BY <3>1, <3>2
  <2>4. CASE r.mounted /\ r.op = "idle" /\ Same(r, q) /\ port' = Closing(p) /\ q.op = r.op
             /\ q.waiting = r.waiting
    <3>1. PanelOK(p)'
      BY <1>1, <2>1, <2>4
    <3>2. PortHeld'
      BY <1>1, <1>o, <2>1, <2>4
    <3> QED
      BY <3>1, <3>2
  <2> QED
    BY <1>7, <2>2, <2>3, <2>4 DEF Leaves
<1>8. CASE GivesBack(p, r, q)
  BY <1>1, <1>8, ClosingPort DEF GivesBack
<1> QED
  BY <1>2, <1>3, <1>4, <1>5, <1>6, <1>7, <1>8 DEF Kinds

\* It does not take the port from a panel that awaits an answer, nor does it write a
\* request in its place.
LEMMA OthersWait ==
  ASSUME TypesOK, PortInv, NEW p \in DOMAIN panel, NEW q \in Panels, Becomes(p, q),
         Kinds(p, panel[p], q), NEW o \in DOMAIN panel \ {p}
  PROVE  /\ panel'[o] = panel[o]
         /\ panel[o].waiting # 0 => UNCHANGED <<port, tx, issued>>
<1>1. panel'[o] = panel[o] /\ PanelOK(o) /\ p # 0
  BY Became DEF TypesOK, PanelTypes, PortInv, PanelInv
<1>2. ASSUME port.owner = o PROVE UNCHANGED <<port, tx, issued>>
  BY <1>1, <1>2, ClosingPort DEF Kinds, Quiet, Opens, GoesOn, Publishes, Finishes,
     Leaves, GivesBack, Usable, TypesOK, PanelTypes
<1> QED
  BY <1>1, <1>2 DEF PanelOK

\* Every step keeps the account of the port.
LEMMA PortStep ==
  ASSUME TypesOK, PortInv, [Next]_vars
  PROVE  PortInv'
<1>1. CASE Mounts
  <2> DEFINE n == Len(panel) + 1
  <2>1. NewPanel \in Panels /\ panel \in Seq(Panels) /\ port.owner \in 0 .. Len(panel)
    BY DEF NewPanel, Panels, Ops, TypesOK, PanelTypes
  <2>2. /\ DOMAIN panel' = 1 .. n /\ panel'[n] = NewPanel /\ DOMAIN panel = 1 .. Len(panel)
        /\ \A o \in DOMAIN panel : panel'[o] = panel[o] /\ ~panel[o].mounted
        /\ UNCHANGED <<port, issued>> /\ Len(panel) \in Nat
    BY <1>1, <2>1, AppendAt DEF Mounts, PortInv, PanelInv, PanelOK
  <2>3. \A o \in DOMAIN panel : PanelOK(o)'
    BY <2>2 DEF PortInv, PanelInv, PanelOK
  <2>4. ASSUME NEW o \in DOMAIN panel', o = n PROVE PanelOK(o)'
    <3>1. Len(panel') = n
      BY <1>1, <2>1, SeqOperations DEF Mounts
    <3> QED
      BY <2>2, <2>4, <3>1 DEF PanelOK, NewPanel, Asking
  <2>5. PortHeld'
    BY <2>1, <2>2 DEF PortInv, PortHeld
  <2> QED
    BY <2>2, <2>3, <2>4, <2>5 DEF PortInv, PanelInv
<1>2. CASE AtomStep
  <2>1. PortHeld'
    BY <1>2 DEF AtomStep, PortInv, PortHeld
  <2>2. PanelInv'
    BY <1>2 DEF AtomStep, PortInv, PanelInv, PanelOK
  <2> QED
    BY <2>1, <2>2 DEF PortInv
<1>3. ASSUME NEW p \in DOMAIN panel, PanelStep(p) PROVE PortInv'
  <2>1. PICK q \in Panels : Becomes(p, q) /\ Kinds(p, panel[p], q)
    BY <1>3 DEF PanelStep
  <2>2. PanelOK(p)' /\ PortHeld'
    BY <2>1, StepOfPanel
  <2>3. Len(panel') = Len(panel) /\ DOMAIN panel' = DOMAIN panel
    BY <2>1, Became DEF TypesOK, PanelTypes
  <2>4. ASSUME NEW o \in DOMAIN panel \ {p} PROVE PanelOK(o)'
    BY <2>1, <2>3, OthersWait DEF PortInv, PanelInv, PanelOK
  <2> QED
    BY <2>2, <2>3, <2>4 DEF PortInv, PanelInv
<1>4. CASE UNCHANGED <<panel, port, tx, wire, atom, issued, raced>>
  BY <1>4 DEF PortInv, PanelInv, PanelOK, PortHeld
<1> QED
  BY <1>1, <1>2, <1>3, <1>4, Steps

-----------------------------------------------------------------------------
(* Requests are taken up, and answered, in the order they were written;    *)
(* claims are configured in the order they were issued.                    *)

Pending == {tx[i] : i \in DOMAIN tx}

Configures(request) == request.op = "configure"

QueueInv ==
  /\ \A i, j \in DOMAIN tx : i < j => tx[i].id < tx[j].id
  /\ \A m \in Pending : /\ m.id \in 1 .. issued.request
                        /\ Configures(m) => m.n \in 1 .. issued.claim
  /\ \A l, m \in Pending : Configures(l) /\ Configures(m) /\ l.id < m.id => l.n < m.n

Configuring == atom.config.step # "none"

\* What is answered is before what is being stored, and that before what is pending.
AnsweredInv ==
  /\ Configuring => /\ atom.config.id \in 1 .. issued.request
                    /\ \A m \in Pending : atom.config.id < m.id
  /\ \A line \in Unread : line.ok =>
       /\ line.id <= issued.request
       /\ \A m \in Pending : line.id < m.id
       /\ Configuring => line.id < atom.config.id

\* What memory and network task have is older than what is being stored, and that older
\* than what is pending.
ClaimsInv ==
  /\ {atom.nvs.claim, atom.mem.claim, atom.net.n} \subseteq 0 .. issued.claim
  /\ Configuring => /\ atom.config.n \in 1 .. issued.claim
                    /\ atom.mem.claim < atom.config.n /\ atom.net.n < atom.config.n
  /\ \A m \in Pending : Configures(m) =>
       /\ atom.mem.claim < m.n /\ atom.net.n < m.n
       /\ Configuring => atom.config.n < m.n

OrderInv == QueueInv /\ AnsweredInv /\ ClaimsInv

\* The first request that is pending is taken.
LEMMA FirstTaken ==
  ASSUME tx \in Seq(Requests), tx # << >>, tx' = Tail(tx), QueueInv
  PROVE  /\ Head(tx) \in Pending /\ Head(tx) \in Requests
         /\ \A m \in Pending' : m \in Pending /\ Head(tx).id < m.id
         /\ \A i \in DOMAIN tx' : i + 1 \in DOMAIN tx /\ tx'[i] = tx[i + 1]
<1>1. /\ 1 \in DOMAIN tx /\ Head(tx) = tx[1] /\ Head(tx) \in Requests
      /\ \A i \in DOMAIN tx' : i \in Nat /\ i # 0 /\ i + 1 \in DOMAIN tx /\ tx'[i] = tx[i + 1]
  BY TailAt, SeqOperations
<1>2. \A i \in DOMAIN tx' : tx'[i] \in Pending /\ Head(tx).id < tx'[i].id
  <2> TAKE i \in DOMAIN tx'
  <2>1. i + 1 \in DOMAIN tx /\ 1 < i + 1 /\ tx'[i] = tx[i + 1]
    BY <1>1
  <2> QED
    BY <1>1, <2>1 DEF QueueInv, Pending
<1> QED
  BY <1>1, <1>2 DEF Pending

\* A request is written behind the others.
LEMMA LastSent ==
  ASSUME TypesOK, NEW op \in Ops, NEW n \in Nat, Sends(op, n)
  PROVE  LET m == [id |-> issued.request + 1, op |-> op, n |-> n] IN
         /\ Pending' = Pending \cup {m} /\ (Configures(m) <=> n # 0)
         /\ issued'.request = issued.request + 1
         /\ issued'.claim = IF n = 0 THEN issued.claim ELSE issued.claim + 1
         /\ n # 0 => n = issued.claim + 1
<1> DEFINE m == [id |-> issued.request + 1, op |-> op, n |-> n]
<1>1. tx \in Seq(Requests) /\ tx' = Append(tx, m)
  BY DEF TypesOK, LineTypes, Sends
<1>2. Pending' = Pending \cup {m}
  <2> HIDE DEF m
  <2>1. /\ Len(tx) \in Nat /\ DOMAIN tx = 1 .. Len(tx) /\ DOMAIN tx' = 1 .. Len(tx) + 1
        /\ tx'[Len(tx) + 1] = m /\ \A i \in DOMAIN tx : tx'[i] = tx[i]
    BY <1>1, AppendAt
  <2> QED
    BY <2>1 DEF Pending
<1> QED
  BY <1>2 DEF Sends, Configures

\* What a panel does to requests and lines.
LEMMA PanelLines ==
  ASSUME TypesOK, NEW p \in DOMAIN panel, PanelStep(p)
  PROVE  /\ UNCHANGED <<atom, raced>> /\ LinesTaken
         /\ UNCHANGED <<tx, issued>> \/ \E op \in Ops, n \in Nat : Sends(op, n)
<1>1. PICK q \in Panels : Becomes(p, q) /\ Kinds(p, panel[p], q)
  BY DEF PanelStep
<1>2. "status" \in Ops /\ q.op \in Ops /\ q.claim \in Nat
  BY DEF Ops, Panels
<1> QED
  BY <1>1, <1>2 DEF PanelStep, Kinds, Quiet, Opens, GoesOn, Publishes, Finishes, Leaves, GivesBack

\* The requests stay in order.
LEMMA QueueStep ==
  ASSUME TypesOK, QueueInv, [Next]_vars
  PROVE  QueueInv'
<1>1. CASE UNCHANGED <<tx, issued>>
  BY <1>1 DEF QueueInv, Pending
<1>2. CASE tx' = << >> /\ UNCHANGED issued
  BY <1>2 DEF QueueInv, Pending
<1>3. CASE tx # << >> /\ tx' = Tail(tx) /\ UNCHANGED issued
  <2>1. /\ \A m \in Pending' : m \in Pending
        /\ \A i \in DOMAIN tx' : i + 1 \in DOMAIN tx /\ tx'[i] = tx[i + 1]
    BY <1>3, FirstTaken DEF TypesOK, LineTypes
  <2>2. \A i, j \in DOMAIN tx' : i < j => i + 1 < j + 1
    BY <1>3, SeqOperations DEF TypesOK, LineTypes
  <2> QED
    BY <1>3, <2>1, <2>2 DEF QueueInv, Configures
<1>4. ASSUME NEW op \in Ops, NEW n \in Nat, Sends(op, n) PROVE QueueInv'
  <2> DEFINE m == [id |-> issued.request + 1, op |-> op, n |-> n]
  <2>1. /\ Pending' = Pending \cup {m} /\ (Configures(m) <=> n # 0)
        /\ issued'.request = issued.request + 1
        /\ issued'.claim = IF n = 0 THEN issued.claim ELSE issued.claim + 1
        /\ n # 0 => n = issued.claim + 1
        /\ issued.request \in Nat /\ issued.claim \in Nat
    BY <1>4, LastSent DEF TypesOK, LineTypes
  <2>2. m.id = issued.request + 1 /\ m.n = n
    OBVIOUS
  <2>3. /\ Len(tx) \in Nat /\ DOMAIN tx = 1 .. Len(tx) /\ DOMAIN tx' = 1 .. Len(tx) + 1
        /\ tx'[Len(tx) + 1] = m /\ \A i \in DOMAIN tx : tx'[i] = tx[i]
    BY <1>4, AppendAt DEF Sends, TypesOK, LineTypes
  <2> HIDE DEF m
  <2>4. \A i \in DOMAIN tx : tx[i].id \in Nat /\ tx[i].id < m.id
    BY <2>1, <2>2 DEF QueueInv, Pending
  <2>5. \A i, j \in DOMAIN tx' : i < j => tx'[i].id < tx'[j].id
    BY <2>3, <2>4 DEF QueueInv
  <2>6. \A l \in Pending' : /\ l.id \in 1 .. issued'.request
                            /\ Configures(l) => l.n \in 1 .. issued'.claim
    BY <2>1, <2>2 DEF QueueInv
  <2>7. \A k, l \in Pending' : Configures(k) /\ Configures(l) /\ k.id < l.id => k.n < l.n
    <3> TAKE k, l \in Pending'
    <3>1. CASE k \in Pending /\ l \in Pending
      BY <3>1 DEF QueueInv
    <3>2. CASE k \in Pending /\ l = m
      BY <2>1, <2>2, <3>2 DEF QueueInv
    <3>3. CASE k = m
      BY <2>1, <2>2, <3>3 DEF QueueInv
    <3> QED
      BY <2>1, <3>1, <3>2, <3>3
  <2> QED
    BY <2>5, <2>6, <2>7 DEF QueueInv, Configures
<1>5. \A p \in DOMAIN panel : PanelStep(p) => QueueInv'
  BY <1>1, <1>4, PanelLines
<1>6. CASE AtomStep
  BY <1>1, <1>2, <1>3, <1>6 DEF AtomStep, Takes, Commits, GivesUp, Persists, StartsAgain, Loses,
     WritesTo, Talks
<1> QED
  BY <1>1, <1>5, <1>6, Steps DEF Mounts

\* Lines not yet read are lines.
LEMMA UnreadLines ==
  ASSUME TypesOK
  PROVE  \A line \in Unread : line \in Lines /\ line.id \in Nat
<1>1. \A i \in DOMAIN wire : wire[i] \in Lines
  BY DEF TypesOK, LineTypes
<1> QED
  BY <1>1 DEF Unread, Lines

\* What the storing of a token does to the claims.
LEMMA PersistsFields ==
  ASSUME TypesOK, Persists
  PROVE  /\ UNCHANGED <<tx, wire>> /\ atom'.config = atom.config
         /\ atom'.mem.claim \in {atom.mem.claim, 0} /\ atom'.nvs.claim \in {atom.nvs.claim, 0}
         /\ atom'.net.n = atom.net.n
         /\ atom'.nvs.ssid = atom.nvs.ssid /\ atom'.nvs.pass = atom.nvs.pass
<1> DEFINE nvs == atom.nvs
           mem == atom.mem
           n == atom.net.n
<1>0. nvs \in Flash /\ mem \in Flash
  BY DEF TypesOK, AtomTypes, Atoms
<1>u. UNCHANGED <<tx, wire>>
  BY DEF Persists
<1>f. /\ [nvs EXCEPT !.token = n].claim = nvs.claim
      /\ [nvs EXCEPT !.token = n].ssid = nvs.ssid /\ [nvs EXCEPT !.token = n].pass = nvs.pass
      /\ [nvs EXCEPT !.claim = 0].claim = 0
      /\ [nvs EXCEPT !.claim = 0].ssid = nvs.ssid /\ [nvs EXCEPT !.claim = 0].pass = nvs.pass
      /\ [mem EXCEPT !.token = n, !.claim = 0].claim = 0
  BY <1>0 DEF Flash
<1>1. CASE AtomIs([nvs EXCEPT !.token = n], mem, atom.config, [stage |-> "claim", n |-> n])
  BY <1>u, <1>f, <1>1 DEF AtomIs
<1>2. CASE AtomIs([nvs EXCEPT !.claim = 0], mem, atom.config, [stage |-> "commit", n |-> n])
  BY <1>u, <1>f, <1>2 DEF AtomIs
<1>3. CASE AtomIs(nvs, [mem EXCEPT !.token = n, !.claim = 0], atom.config,
                  [stage |-> "attached", n |-> n])
  BY <1>u, <1>f, <1>3 DEF AtomIs
<1> QED
  BY <1>1, <1>2, <1>3 DEF Persists

\* A request that is sent is after all that are pending, stored or answered.
LEMMA SentIsLast ==
  ASSUME TypesOK, OrderInv, UNCHANGED atom, LinesTaken,
         UNCHANGED <<tx, issued>> \/ \E op \in Ops, n \in Nat : Sends(op, n)
  PROVE  AnsweredInv' /\ ClaimsInv'
<1>t. issued.request \in Nat /\ issued.claim \in Nat
  BY DEF TypesOK, LineTypes
<1>1. CASE UNCHANGED <<tx, issued>>
  <2>1. AnsweredInv'
    BY <1>1 DEF OrderInv, AnsweredInv, LinesTaken, Configuring, Pending
  <2>2. ClaimsInv'
    BY <1>1 DEF OrderInv, ClaimsInv, Configuring, Pending
  <2> QED
    BY <2>1, <2>2
<1>2. ASSUME NEW op \in Ops, NEW n \in Nat, Sends(op, n) PROVE AnsweredInv' /\ ClaimsInv'
  <2> DEFINE m == [id |-> issued.request + 1, op |-> op, n |-> n]
  <2>1. /\ Pending' = Pending \cup {m} /\ (Configures(m) <=> n # 0)
        /\ issued'.request = issued.request + 1
        /\ issued'.claim = IF n = 0 THEN issued.claim ELSE issued.claim + 1
        /\ n # 0 => n = issued.claim + 1
    BY <1>2, LastSent
  <2>2. m.id = issued.request + 1 /\ m.n = n
    OBVIOUS
  <2> HIDE DEF m
  <2>3. AnsweredInv'
    <3>1. Configuring => /\ atom.config.id \in 1 .. issued.request
                         /\ \A l \in Pending : atom.config.id < l.id
      BY DEF OrderInv, AnsweredInv
    <3>2. \A line \in Unread : line.ok =>
            /\ line.id <= issued.request
            /\ \A l \in Pending : line.id < l.id
            /\ Configuring => line.id < atom.config.id
      BY DEF OrderInv, AnsweredInv
    <3>3. Configuring => /\ atom.config.id \in 1 .. issued'.request
                         /\ \A l \in Pending' : atom.config.id < l.id
      BY <1>t, <2>1, <2>2, <3>1
    <3>4. \A line \in Unread : line.id \in Nat
      BY UnreadLines
    <3>5. \A line \in Unread : line.ok =>
            /\ line.id <= issued'.request
            /\ \A l \in Pending' : line.id < l.id
            /\ Configuring => line.id < atom.config.id
      BY <1>t, <2>1, <2>2, <3>2, <3>4
    <3> QED
      BY <3>3, <3>5 DEF AnsweredInv, LinesTaken, Configuring
  <2>4. ClaimsInv'
    <3>1. /\ {atom.nvs.claim, atom.mem.claim, atom.net.n} \subseteq 0 .. issued.claim
          /\ Configuring => /\ atom.config.n \in 1 .. issued.claim
                            /\ atom.mem.claim < atom.config.n /\ atom.net.n < atom.config.n
      BY DEF OrderInv, ClaimsInv
    <3>2. /\ {atom.nvs.claim, atom.mem.claim, atom.net.n} \subseteq 0 .. issued'.claim
          /\ Configuring => atom.config.n \in 1 .. issued'.claim
      BY <1>t, <2>1, <3>1
    <3>3. \A l \in Pending' : Configures(l) =>
            /\ atom.mem.claim < l.n /\ atom.net.n < l.n
            /\ Configuring => atom.config.n < l.n
      <4> TAKE l \in Pending'
      <4>1. CASE l \in Pending
        BY <4>1 DEF OrderInv, ClaimsInv
      <4>2. CASE l = m
        BY <1>t, <2>1, <2>2, <3>1, <4>2
      <4> QED
        BY <2>1, <4>1, <4>2
    <3> QED
      BY <3>1, <3>2, <3>3 DEF ClaimsInv, Configuring, Configures
  <2> QED
    BY <2>3, <2>4
<1> QED
  BY <1>1, <1>2

\* The Atom answers in order.
LEMMA AtomAnswers ==
  ASSUME TypesOK, OrderInv, AtomStep
  PROVE  AnsweredInv'
<1>t. /\ issued.request \in Nat /\ UNCHANGED issued /\ tx \in Seq(Requests)
      /\ \A m \in Pending : m.id \in 1 .. issued.request
      /\ Configuring => /\ atom.config.id \in 1 .. issued.request
                        /\ \A m \in Pending : atom.config.id < m.id
      /\ \A line \in Unread : line.ok =>
           /\ line.id <= issued.request
           /\ \A m \in Pending : line.id < m.id
           /\ Configuring => line.id < atom.config.id
  BY DEF TypesOK, LineTypes, OrderInv, AnsweredInv, QueueInv, AtomStep
<1>0. UNCHANGED tx => Pending' = Pending
  BY DEF Pending
<1>l. \A line \in Unread : line.id \in Nat
  BY UnreadLines
<1>1. CASE Takes
  <2> DEFINE h == Head(tx)
  <2>1. /\ h \in Pending /\ \A m \in Pending' : m \in Pending /\ h.id < m.id
        /\ ~Configuring
    BY <1>1, FirstTaken DEF Takes, Configuring, OrderInv, TypesOK, LineTypes
  <2>2. CASE h.op = "configure"
    <3>1. /\ UNCHANGED wire /\ atom'.config.id = h.id /\ atom'.config.step # "none"
      BY <1>1, <2>2 DEF Takes, AtomIs
    <3> HIDE DEF h
    <3>2. Unread' = Unread
      BY <3>1 DEF Unread
    <3> QED
      BY <1>t, <2>1, <3>1, <3>2 DEF AnsweredInv, Configuring
  <2>3. CASE h.op # "configure"
    <3>1. PICK ok \in BOOLEAN : UNCHANGED atom /\ LineAdded([id |-> h.id, ok |-> ok])
      BY <1>1, <2>3 DEF Takes
    <3> HIDE DEF h
    <3>2. \A line \in Unread' : line \in Unread \/ line.id = h.id
      BY <3>1 DEF LineAdded
    <3> QED
      BY <1>t, <2>1, <3>1, <3>2 DEF AnsweredInv, Configuring
  <2> QED
    BY <2>2, <2>3
<1>2. CASE Commits \/ GivesUp
  <2>1. Pending' = Pending /\ ~Configuring'
    BY <1>0, <1>2 DEF Commits, GivesUp, AtomIs, NoConfig, Configuring
  <2>2. CASE Commits
    <3>1. Configuring /\ Unread' \subseteq Unread \cup {[id |-> atom.config.id, ok |-> TRUE]}
      BY <2>2 DEF Commits, LineAdded, Configuring
    <3> QED
      BY <1>t, <2>1, <3>1 DEF AnsweredInv
  <2>3. CASE GivesUp
    <3>1. Unread' \subseteq Unread \cup {[id |-> atom.config.id, ok |-> FALSE]}
      BY <2>3 DEF GivesUp, LineAdded
    <3> QED
      BY <1>t, <2>1, <3>1 DEF AnsweredInv
  <2> QED
    BY <1>2, <2>2, <2>3
<1>3. ASSUME UNCHANGED <<tx, wire>>, atom'.config.id = atom.config.id,
             Configuring' => Configuring
      PROVE  AnsweredInv'
  <2>1. Unread' = Unread
    BY <1>3 DEF Unread
  <2> QED
    BY <1>t, <1>0, <1>3, <2>1 DEF AnsweredInv
<1>6. ASSUME NEW field, NEW n, NEW next, WritesTo(field, n, next), field # "none"
      PROVE  AnsweredInv'
  BY <1>3, <1>6 DEF WritesTo, AtomIs, Configuring
<1>7. CASE Persists
  BY <1>3, <1>7, PersistsFields DEF Configuring
<1>8. ASSUME NEW stage \in NetStages, NEW n \in Nat, Talks(stage, n) PROVE AnsweredInv'
  BY <1>3, <1>8 DEF Talks, AtomIs, Configuring
<1>4. CASE StartsAgain
  BY <1>4 DEF StartsAgain, AtomIs, NoConfig, AnsweredInv, Configuring, Unread
<1>5. CASE Loses
  <2>1. /\ Pending' \subseteq Pending /\ UNCHANGED atom
        /\ \A line \in Unread' : line.ok => line \in Unread
    BY <1>t, <1>0, <1>5, FirstTaken DEF Loses, LineAdded, OrderInv
  <2> QED
    BY <1>t, <2>1 DEF AnsweredInv, Configuring
<1> QED
  BY <1>1, <1>2, <1>4, <1>5, <1>6, <1>7, <1>8 DEF AtomStep

\* What it stores gets newer.
LEMMA AtomClaims ==
  ASSUME TypesOK, OrderInv, AtomStep
  PROVE  ClaimsInv'
<1> DEFINE nvs == atom.nvs
           mem == atom.mem
           net == atom.net
           config == atom.config
<1>t. /\ issued.claim \in Nat /\ UNCHANGED issued /\ tx \in Seq(Requests)
      /\ atom \in Atoms /\ nvs \in Flash /\ mem \in Flash /\ net \in Nets /\ config \in Configs
      /\ nvs.claim \in 0 .. issued.claim /\ mem.claim \in 0 .. issued.claim
      /\ net.n \in 0 .. issued.claim
  BY DEF TypesOK, LineTypes, AtomTypes, OrderInv, ClaimsInv, AtomStep, Atoms
<1>c. Configuring => config.n \in 1 .. issued.claim /\ mem.claim < config.n /\ net.n < config.n
  BY DEF OrderInv, ClaimsInv
<1>m. \A m \in Pending : Configures(m) =>
        /\ m.n \in 1 .. issued.claim
        /\ mem.claim < m.n /\ net.n < m.n /\ (Configuring => config.n < m.n)
  BY DEF OrderInv, QueueInv, ClaimsInv
<1>0. UNCHANGED tx => Pending' = Pending
  BY DEF Pending
<1>1. CASE Takes
  <2> DEFINE h == Head(tx)
  <2>1. /\ h \in Pending /\ \A m \in Pending' : m \in Pending /\ h.id < m.id
        /\ ~Configuring
    BY <1>1, FirstTaken DEF Takes, Configuring, OrderInv, TypesOK, LineTypes
  <2>2. \A m \in Pending' : Configures(h) /\ Configures(m) => h.n < m.n
    BY <2>1 DEF OrderInv, QueueInv
  <2>3. CASE h.op = "configure"
    <3>1. atom'.config.n = h.n /\ atom'.mem = mem /\ atom'.net = net /\ atom'.nvs = nvs
      BY <1>1, <2>3 DEF Takes, AtomIs
    <3>2. Configures(h)
      BY <2>3 DEF Configures
    <3> HIDE DEF h
    <3> QED
      BY <1>t, <1>m, <2>1, <2>2, <3>1, <3>2 DEF ClaimsInv, Configures
  <2>4. CASE h.op # "configure"
    <3>1. UNCHANGED atom
      BY <1>1, <2>4 DEF Takes
    <3> QED
      BY <1>t, <1>c, <1>m, <2>1, <3>1 DEF ClaimsInv, Configures, Configuring
  <2> QED
    BY <2>3, <2>4
<1>2. CASE Commits
  <2>1. /\ atom'.mem.claim = config.n /\ atom'.net = net /\ atom'.nvs = nvs
        /\ ~Configuring' /\ Configuring /\ UNCHANGED tx
    BY <1>2 DEF Commits, AtomIs, Stored, NoConfig, Configuring
  <2> QED
    BY <1>t, <1>c, <1>m, <1>0, <2>1 DEF ClaimsInv, Configures
<1>3. CASE GivesUp
  <2>1. /\ atom'.mem = mem /\ atom'.net = net /\ atom'.nvs = nvs /\ ~Configuring' /\ UNCHANGED tx
    BY <1>3 DEF GivesUp, AtomIs, NoConfig, Configuring
  <2> QED
    BY <1>t, <1>m, <1>0, <2>1 DEF ClaimsInv, Configures
<1>4. CASE Persists
  <2>1. /\ atom'.mem.claim \in {mem.claim, 0} /\ atom'.net.n = net.n
        /\ atom'.nvs.claim \in {nvs.claim, 0} /\ atom'.config = config /\ UNCHANGED tx
    BY <1>4, PersistsFields
  <2> QED
    BY <1>t, <1>c, <1>m, <1>0, <2>1 DEF ClaimsInv, Configures, Configuring
<1>5. ASSUME NEW stage \in NetStages, NEW n \in Nat, Talks(stage, n) PROVE ClaimsInv'
  <2>1. /\ atom'.mem = mem /\ atom'.net.n \in {0, mem.claim, net.n}
        /\ atom'.nvs = nvs /\ atom'.config = config /\ UNCHANGED tx
    BY <1>5 DEF Talks, AtomIs
  <2> QED
    BY <1>t, <1>c, <1>m, <1>0, <2>1 DEF ClaimsInv, Configures, Configuring
<1>6. CASE \/ WritesTo("ssid", config.n, "pass") \/ WritesTo("pass", config.n, "claim")
           \/ WritesTo("claim", config.n, "token") \/ WritesTo("token", 0, "commit")
  <2>1. /\ atom'.mem = mem /\ atom'.net = net /\ atom'.config.n = config.n /\ UNCHANGED tx
        /\ Configuring /\ atom'.nvs.claim \in {nvs.claim, config.n}
    BY <1>t, <1>6 DEF WritesTo, AtomIs, Flash, Configuring
  <2> QED
    BY <1>t, <1>c, <1>m, <1>0, <2>1 DEF ClaimsInv, Configures, Configuring
<1>7. CASE StartsAgain
  <2>1. /\ atom'.mem = nvs /\ atom'.net.n = 0 /\ atom'.nvs = nvs /\ ~Configuring'
        /\ Pending' = {}
    BY <1>7 DEF StartsAgain, AtomIs, NoConfig, Configuring, Pending
  <2> QED
    BY <1>t, <2>1 DEF ClaimsInv
<1>8. CASE Loses
  <2>1. Pending' \subseteq Pending /\ UNCHANGED atom
    BY <1>t, <1>0, <1>8, FirstTaken DEF Loses, OrderInv
  <2> QED
    BY <1>t, <1>c, <1>m, <2>1 DEF ClaimsInv, Configures, Configuring
<1> QED
  BY <1>1, <1>2, <1>3, <1>4, <1>5, <1>6, <1>7, <1>8 DEF AtomStep

\* Every step keeps the order.
LEMMA OrderStep ==
  ASSUME TypesOK, OrderInv, [Next]_vars
  PROVE  OrderInv'
<1>0. QueueInv'
  BY QueueStep DEF OrderInv
<1>1. ASSUME UNCHANGED <<tx, wire, atom, issued>> PROVE AnsweredInv' /\ ClaimsInv'
  BY <1>1, SentIsLast, TakenOfWire DEF TypesOK, LineTypes
<1>2. ASSUME NEW p \in DOMAIN panel, PanelStep(p) PROVE AnsweredInv' /\ ClaimsInv'
  BY <1>2, PanelLines, SentIsLast
<1> QED
  BY <1>0, <1>1, <1>2, AtomAnswers, AtomClaims, Steps DEF OrderInv, Mounts

-----------------------------------------------------------------------------
(* What the flash holds.                                                   *)

\* What has been written of a configuration is there, if no token was stored meanwhile.
StoreInv ==
  LET config == atom.config IN
  ~raced =>
    /\ config.step \in {"pass", "claim", "token", "commit"} => atom.nvs.ssid = config.n
    /\ config.step \in {"claim", "token", "commit"} => atom.nvs.pass = config.n
    /\ config.step \in {"token", "commit"} => atom.nvs.claim = config.n
    /\ config.step = "commit" => atom.nvs.token = 0

\* A token that is being stored has a number; once it is, it stays, or a newer claim is
\* in the flash.
TokenInv ==
  /\ atom.net.stage \in Saving => atom.net.n # 0
  /\ ~raced /\ atom.net.stage = "claim" =>
       atom.nvs.token = atom.net.n \/ atom.nvs.claim > atom.net.n

FlashInv == StoreInv /\ TokenInv

\* The Atom has the configuration n, and no other.
Holds(n) ==
  /\ ~Configuring
  /\ atom.nvs.ssid = n /\ atom.nvs.pass = n
  /\ {atom.nvs.claim, atom.nvs.token} \ {0} = {n}
  /\ {atom.mem.claim, atom.mem.token} \subseteq {0, n}
  /\ atom.nvs.claim = 0 => atom.net.n \in {0, n}

\* The writes of a configuration, and what they leave.
LEMMA WritesFields ==
  ASSUME TypesOK, NEW field \in {"ssid", "pass", "claim", "token"}, NEW n \in Nat, NEW next,
         WritesTo(field, n, next)
  PROVE  /\ atom'.nvs[field] = n
         /\ \A other \in {"ssid", "pass", "claim", "token"} \ {field} :
              atom'.nvs[other] = atom.nvs[other]
         /\ atom'.config.n = atom.config.n /\ atom'.config.id = atom.config.id
         /\ atom'.config.step = next /\ atom.config.step = field
         /\ atom'.mem = atom.mem /\ atom'.net = atom.net
         /\ UNCHANGED <<tx, wire, raced>>
<1>1. atom.nvs \in Flash
  BY DEF TypesOK, AtomTypes, Atoms
<1> QED
  BY <1>1 DEF WritesTo, AtomIs, Flash

\* The four of them.
LEMMA WritesInOrder ==
  ASSUME TypesOK, OrderInv, FlashInv,
         \/ WritesTo("ssid", atom.config.n, "pass") \/ WritesTo("pass", atom.config.n, "claim")
         \/ WritesTo("claim", atom.config.n, "token") \/ WritesTo("token", 0, "commit")
  PROVE  FlashInv'
<1>t. atom.config.n \in Nat /\ 0 \in Nat /\ atom.net.n \in Nat /\ atom.nvs.claim \in Nat
  BY DEF TypesOK, AtomTypes, Atoms, Configs, Nets, Flash
<1>1. Configuring => atom.net.n < atom.config.n
  BY DEF OrderInv, ClaimsInv
<1>2. CASE WritesTo("ssid", atom.config.n, "pass")
  BY <1>t, <1>2, WritesFields DEF FlashInv, StoreInv, TokenInv
<1>3. CASE WritesTo("pass", atom.config.n, "claim")
  BY <1>t, <1>3, WritesFields DEF FlashInv, StoreInv, TokenInv
<1>4. CASE WritesTo("claim", atom.config.n, "token")
  BY <1>t, <1>1, <1>4, WritesFields DEF FlashInv, StoreInv, TokenInv, Configuring
<1>5. CASE WritesTo("token", 0, "commit")
  BY <1>t, <1>1, <1>5, WritesFields DEF FlashInv, StoreInv, TokenInv, Configuring
<1> QED
  BY <1>2, <1>3, <1>4, <1>5

\* The three steps that store a token.
LEMMA PersistCases ==
  ASSUME TypesOK, Persists
  PROVE  LET n == atom.net.n IN
         \/ /\ atom.net.stage = "token" /\ atom'.net.stage = "claim"
            /\ atom'.nvs.token = n /\ atom'.nvs.claim = atom.nvs.claim
            /\ atom'.mem = atom.mem
         \/ /\ atom.net.stage = "claim" /\ atom'.net.stage = "commit"
            /\ atom'.nvs.token = atom.nvs.token /\ atom'.nvs.claim = 0
            /\ atom'.mem = atom.mem
         \/ /\ atom.net.stage = "commit" /\ atom'.net.stage = "attached"
            /\ atom'.nvs = atom.nvs /\ atom'.mem.token = n /\ atom'.mem.claim = 0
<1> DEFINE nvs == atom.nvs
           mem == atom.mem
           n == atom.net.n
<1>0. nvs \in Flash /\ mem \in Flash
  BY DEF TypesOK, AtomTypes, Atoms
<1>1. /\ [nvs EXCEPT !.token = n].claim = nvs.claim /\ [nvs EXCEPT !.token = n].token = n
      /\ [nvs EXCEPT !.claim = 0].claim = 0 /\ [nvs EXCEPT !.claim = 0].token = nvs.token
      /\ [mem EXCEPT !.token = n, !.claim = 0].claim = 0
      /\ [mem EXCEPT !.token = n, !.claim = 0].token = n
  BY <1>0 DEF Flash
<1>2. CASE /\ atom.net.stage = "token"
           /\ AtomIs([nvs EXCEPT !.token = n], mem, atom.config, [stage |-> "claim", n |-> n])
  BY <1>1, <1>2 DEF AtomIs
<1>3. CASE /\ atom.net.stage = "claim"
           /\ AtomIs([nvs EXCEPT !.claim = 0], mem, atom.config, [stage |-> "commit", n |-> n])
  BY <1>1, <1>3 DEF AtomIs
<1>4. CASE /\ atom.net.stage = "commit"
           /\ AtomIs(nvs, [mem EXCEPT !.token = n, !.claim = 0], atom.config,
                     [stage |-> "attached", n |-> n])
  BY <1>1, <1>4 DEF AtomIs
<1> QED
  BY <1>2, <1>3, <1>4 DEF Persists

\* Every step of the Atom keeps what is said of the flash.
LEMMA FlashStep ==
  ASSUME TypesOK, OrderInv, FlashInv, AtomStep
  PROVE  FlashInv'
<1>t. atom.config.n \in Nat /\ atom.net.n \in Nat /\ atom.nvs.claim \in Nat
  BY DEF TypesOK, AtomTypes, Atoms, Configs, Nets, Flash
<1>1. CASE Takes
  BY <1>1 DEF Takes, AtomIs, FlashInv, StoreInv, TokenInv
<1>2. CASE Commits
  <2>1. Configuring => atom.net.n < atom.config.n
    BY DEF OrderInv, ClaimsInv
  <2> QED
    BY <1>t, <1>2, <2>1 DEF Commits, AtomIs, NoConfig, FlashInv, StoreInv, TokenInv, Configuring
<1>3. CASE GivesUp
  BY <1>3 DEF GivesUp, AtomIs, NoConfig, FlashInv, StoreInv, TokenInv
<1>4. CASE Persists
  <2>1. atom'.config = atom.config /\ atom'.net.n = atom.net.n
        /\ atom'.nvs.ssid = atom.nvs.ssid /\ atom'.nvs.pass = atom.nvs.pass
    BY <1>4, PersistsFields
  <2>2. atom.net.stage \in Saving /\ (Configuring => raced') /\ (raced => raced')
    BY <1>4 DEF Persists, Saving, Newer, Configuring
  <2>3. StoreInv'
    BY <2>1, <2>2 DEF StoreInv, Configuring
  <2>4. TokenInv'
    BY <1>4, <2>1, <2>2, PersistCases DEF FlashInv, TokenInv, Saving
  <2> QED
    BY <2>3, <2>4 DEF FlashInv
<1>5. ASSUME NEW stage \in NetStages, NEW n \in Nat, Talks(stage, n) PROVE FlashInv'
  BY <1>5 DEF Talks, AtomIs, FlashInv, StoreInv, TokenInv, Saving
<1>6. CASE StartsAgain \/ Loses
  BY <1>6 DEF StartsAgain, Loses, AtomIs, NoConfig, FlashInv, StoreInv, TokenInv, Saving
<1> QED
  BY <1>1, <1>2, <1>3, <1>4, <1>5, <1>6, WritesInOrder DEF AtomStep

\* A configuration that is held is not lost, if none is pending and it is the last.
LEMMA HoldsOn ==
  ASSUME TypesOK, OrderInv, FlashInv, AtomStep, NEW n, Holds(n), n = issued.claim,
         \A m \in Pending : ~Configures(m), ~raced'
  PROVE  Holds(n)'
<1>t. /\ atom.net.n \in 0 .. n /\ atom.nvs.claim \in Nat /\ n \in Nat /\ atom.nvs.token \in Nat
      /\ tx \in Seq(Requests)
  BY DEF TypesOK, AtomTypes, LineTypes, Atoms, Flash, Nets, OrderInv, ClaimsInv
<1>0. /\ atom.nvs.claim \in {0, n} /\ atom.nvs.token \in {0, n} /\ n # 0 /\ ~Configuring
      /\ atom.nvs.claim = n \/ atom.nvs.token = n
  BY DEF Holds
<1>1. CASE Takes
  <2>1. Head(tx) \in Pending
    BY <1>t, <1>1, FirstTaken DEF Takes, OrderInv
  <2>2. UNCHANGED atom
    BY <1>1, <2>1 DEF Takes, Configures
  <2> QED
    BY <2>2 DEF Holds, Configuring
<1>2. CASE Commits
  BY <1>0, <1>2 DEF Commits, Configuring
<1>3. CASE GivesUp
  BY <1>3 DEF GivesUp, AtomIs, NoConfig, Holds, Configuring
<1>4. CASE Persists
  <2>1. atom'.config = atom.config /\ atom'.net.n = atom.net.n
        /\ atom'.nvs.ssid = atom.nvs.ssid /\ atom'.nvs.pass = atom.nvs.pass
    BY <1>4, PersistsFields
  <2>2. ~raced /\ atom.net.n # 0 /\ ~(atom.nvs.claim > atom.net.n)
    BY <1>4 DEF Persists, Saving, Newer, FlashInv, TokenInv
  <2>3. atom.net.n = n
    BY <1>t, <1>0, <2>2 DEF Holds
  <2>4. atom.net.stage = "claim" => atom.nvs.token = n
    BY <2>2, <2>3 DEF FlashInv, TokenInv
  <2>5. /\ atom'.nvs.claim \in {0, n} /\ atom'.nvs.token \in {0, n}
        /\ atom'.nvs.claim = n \/ atom'.nvs.token = n
        /\ {atom'.mem.claim, atom'.mem.token} \subseteq {0, n}
    BY <1>0, <1>4, <2>3, <2>4, PersistCases DEF Holds
  <2> QED
    BY <1>0, <2>1, <2>3, <2>5 DEF Holds, Configuring
<1>5. ASSUME NEW stage \in NetStages, NEW k \in Nat, Talks(stage, k) PROVE Holds(n)'
  BY <1>5 DEF Talks, AtomIs, Holds, Configuring
<1>6. CASE StartsAgain
  BY <1>0, <1>6 DEF StartsAgain, AtomIs, NoConfig, Holds, Configuring
<1>7. CASE Loses
  BY <1>7 DEF Loses, Holds, Configuring
<1>8. ASSUME NEW field, NEW k, NEW next, WritesTo(field, k, next), field # "none"
      PROVE  Holds(n)'
  BY <1>0, <1>8 DEF WritesTo, Configuring
<1> QED
  BY <1>1, <1>2, <1>3, <1>4, <1>5, <1>6, <1>7, <1>8 DEF AtomStep

-----------------------------------------------------------------------------
(* What a panel is told.                                                   *)

GoodAnswer(rec) == [id |-> rec.waiting, ok |-> TRUE]

\* The configuration a panel awaits is the last, wherever its request is; once it has been
\* answered, the Atom has it.
AnswerOK(rec) ==
  rec.op = "configure" =>
    /\ rec.claim = issued.claim
    /\ \A m \in Pending : m.id = rec.waiting => Configures(m) /\ m.n = rec.claim
    /\ Configuring /\ atom.config.id = rec.waiting => atom.config.n = rec.claim
    /\ ~raced /\ GoodAnswer(rec) \in Unread => Holds(rec.claim)

\* A panel that shows a configuration shows the last, and writes no more.
ConfiguredOK(rec) ==
  rec.mounted /\ rec.configured # 0 =>
    /\ rec.configured = issued.claim
    /\ rec.op = "finishing" \/ (rec.op = "idle" /\ ~rec.ref)
    /\ \A m \in Pending : ~Configures(m)
    /\ ~raced => Holds(rec.configured)

ToldInv == \A p \in DOMAIN panel : AnswerOK(panel[p]) /\ ConfiguredOK(panel[p])

Inv == TypesOK /\ PortInv /\ OrderInv /\ FlashInv /\ ToldInv

\* The answer to the last request is there when nothing is pending or being stored.
LEMMA AnsweredLast ==
  ASSUME TypesOK, OrderInv, NEW rec, rec.waiting = issued.request, GoodAnswer(rec) \in Unread
  PROVE  Pending = {} /\ ~Configuring
<1>1. /\ \A m \in Pending : rec.waiting < m.id /\ m.id \in 1 .. issued.request
      /\ Configuring => rec.waiting < atom.config.id /\ atom.config.id \in 1 .. issued.request
  BY DEF OrderInv, AnsweredInv, QueueInv, GoodAnswer
<1>2. issued.request \in Nat
  BY DEF TypesOK, LineTypes
<1> QED
  BY <1>1, <1>2

\* The Atom answers a configuration when it has it.
LEMMA AtomTells ==
  ASSUME Inv, AtomStep, NEW p \in DOMAIN panel, AnswerOK(panel[p])
  PROVE  AnswerOK(panel[p])'
<1> DEFINE rec == panel[p]
<1>0. UNCHANGED <<panel, issued>> /\ panel'[p] = rec
  BY DEF AtomStep
<1> DEFINE Told ==
             /\ rec.claim = issued.claim
             /\ \A m \in Pending' : m.id = rec.waiting => Configures(m) /\ m.n = rec.claim
             /\ Configuring' /\ atom'.config.id = rec.waiting => atom'.config.n = rec.claim
             /\ ~raced' /\ GoodAnswer(rec) \in Unread' => Holds(issued.claim)'
<1>1. SUFFICES ASSUME rec.op = "configure" PROVE Told
  BY <1>0 DEF AnswerOK, GoodAnswer, Configures
<1>2. /\ rec.claim = issued.claim /\ rec.waiting # 0 /\ rec.waiting = issued.request
      /\ \A m \in Pending : m.id = rec.waiting => Configures(m) /\ m.n = rec.claim
      /\ Configuring /\ atom.config.id = rec.waiting => atom.config.n = rec.claim
      /\ ~raced /\ GoodAnswer(rec) \in Unread => Holds(rec.claim)
  BY <1>1 DEF AnswerOK, Inv, PortInv, PanelInv, PanelOK, Asking
<1>3. UNCHANGED raced \/ (raced => raced')
  BY DEF AtomStep, Takes, Commits, GivesUp, Persists, StartsAgain, Loses, WritesTo, Talks
<1>4. ASSUME ~raced', GoodAnswer(rec) \in Unread PROVE Holds(issued.claim)'
  <2>1. Pending = {} /\ ~raced
    BY <1>2, <1>3, <1>4, AnsweredLast DEF Inv
  <2>2. PICK n : n = issued.claim
    OBVIOUS
  <2>3. Holds(n)
    BY <1>2, <1>4, <2>1, <2>2
  <2>4. Holds(n)'
    BY <1>4, <2>1, <2>2, <2>3, HoldsOn DEF Inv
  <2> QED
    BY <1>0, <2>2, <2>4 DEF Holds
<1>5. CASE Takes
  <2> DEFINE h == Head(tx)
  <2>1. h \in Pending /\ Pending' \subseteq Pending
    BY <1>5, FirstTaken DEF Takes, Inv, OrderInv, TypesOK, LineTypes
  <2>2. CASE h.op = "configure"
    <3>1. UNCHANGED wire /\ atom'.config.id = h.id /\ atom'.config.n = h.n
      BY <1>5, <2>2 DEF Takes, AtomIs
    <3>2. Unread' = Unread
      BY <3>1 DEF Unread
    <3> HIDE DEF h
    <3> QED
      BY <1>2, <1>4, <2>1, <3>1, <3>2
  <2>3. CASE h.op # "configure"
    <3>1. PICK ok \in BOOLEAN : UNCHANGED atom /\ LineAdded([id |-> h.id, ok |-> ok])
      BY <1>5, <2>3 DEF Takes
    <3>2. h.id # rec.waiting
      BY <1>2, <2>1, <2>3 DEF Configures
    <3>3. GoodAnswer(rec) \in Unread' => GoodAnswer(rec) \in Unread
      BY <3>1, <3>2 DEF LineAdded, GoodAnswer
    <3> QED
      BY <1>2, <1>4, <2>1, <3>1, <3>3 DEF Configuring
  <2> QED
    BY <2>2, <2>3
<1>0p. UNCHANGED tx => Pending' = Pending
  BY DEF Pending
<1>0u. UNCHANGED wire => Unread' = Unread
  BY DEF Unread
<1>6. CASE Commits
  <2>1. /\ Pending' = Pending /\ ~Configuring' /\ Configuring /\ atom.config.step = "commit"
        /\ Unread' \subseteq Unread \cup {[id |-> atom.config.id, ok |-> TRUE]}
        /\ AtomIs(atom.nvs, Stored(atom.config.n, atom.config.n, atom.config.n, 0), NoConfig,
                  atom.net)
        /\ UNCHANGED raced
    BY <1>0p, <1>6 DEF Commits, AtomIs, NoConfig, Configuring, LineAdded
  <2>2. ASSUME atom.config.id = rec.waiting, ~raced PROVE Holds(issued.claim)'
    <3>1. atom.config.n = issued.claim /\ issued.claim \in Nat \ {0}
      BY <1>2, <2>1, <2>2 DEF Inv, OrderInv, ClaimsInv, TypesOK, LineTypes
    <3>2. /\ atom.nvs.ssid = issued.claim /\ atom.nvs.pass = issued.claim
          /\ atom.nvs.claim = issued.claim /\ atom.nvs.token = 0
      BY <2>1, <2>2, <3>1 DEF Inv, FlashInv, StoreInv
    <3> QED
      BY <1>0, <2>1, <3>1, <3>2 DEF Holds, AtomIs, Stored
  <2>3. GoodAnswer(rec) \in Unread' => GoodAnswer(rec) \in Unread \/ atom.config.id = rec.waiting
    BY <2>1 DEF GoodAnswer
  <2> QED
    BY <1>2, <1>4, <2>1, <2>2, <2>3
<1>7. CASE GivesUp \/ Loses
  <2>1. /\ Pending' \subseteq Pending
        /\ atom' = atom \/ ~Configuring'
        /\ \A line \in Unread' : line.ok => line \in Unread
    <3>1. CASE GivesUp
      BY <1>0p, <3>1 DEF GivesUp, AtomIs, NoConfig, Configuring, LineAdded
    <3>2. CASE Loses
      BY <1>0p, <3>2, FirstTaken DEF Loses, LineAdded, Inv, OrderInv, TypesOK, LineTypes
    <3> QED
      BY <1>7, <3>1, <3>2
  <2>2. GoodAnswer(rec) \in Unread' => GoodAnswer(rec) \in Unread
    BY <2>1 DEF GoodAnswer
  <2> QED
    BY <1>2, <1>4, <2>1, <2>2 DEF Configuring
<1>8. CASE StartsAgain
  BY <1>2, <1>8 DEF StartsAgain, AtomIs, NoConfig, Configuring, Pending, Unread
<1>9. ASSUME UNCHANGED <<tx, wire>>, Configuring' => Configuring,
             atom'.config.id = atom.config.id, atom'.config.n = atom.config.n
      PROVE  Told
  BY <1>0p, <1>0u, <1>2, <1>4, <1>9
<1>10. CASE Persists
  BY <1>9, <1>10, PersistsFields DEF Configuring, Inv
<1>11. ASSUME NEW stage \in NetStages, NEW n \in Nat, Talks(stage, n) PROVE Told
  BY <1>9, <1>11 DEF Talks, AtomIs, Configuring
<1>12. ASSUME NEW field, NEW n, NEW next, WritesTo(field, n, next), field # "none"
       PROVE  Told
  BY <1>9, <1>12 DEF WritesTo, AtomIs, Configuring
<1> HIDE DEF Told
<1> QED
  BY <1>5, <1>6, <1>7, <1>8, <1>10, <1>11, <1>12 DEF AtomStep

\* It does not lose one that a panel shows.
LEMMA AtomShows ==
  ASSUME Inv, AtomStep, NEW p \in DOMAIN panel, ConfiguredOK(panel[p])
  PROVE  ConfiguredOK(panel[p])'
<1> DEFINE rec == panel[p]
<1>r. UNCHANGED raced \/ (raced => raced')
  BY DEF AtomStep, Takes, Commits, GivesUp, Persists, StartsAgain, Loses, WritesTo, Talks
<1>1. UNCHANGED <<panel, issued>> /\ (raced => raced')
  BY <1>r DEF AtomStep
<1>t. tx' \in {tx, << >>} \/ (tx # << >> /\ tx' = Tail(tx))
  BY DEF AtomStep, Takes, Commits, GivesUp, Persists, StartsAgain, Loses, WritesTo, Talks
<1>2. Pending' \subseteq Pending
  BY <1>t, FirstTaken DEF Inv, OrderInv, TypesOK, LineTypes, Pending
<1>3. ASSUME rec.mounted, rec.configured # 0, ~raced' PROVE Holds(rec.configured)'
  <2>0. PICK n : n = issued.claim
    OBVIOUS
  <2>1. /\ rec.configured = n /\ Holds(n) /\ \A m \in Pending : ~Configures(m)
    BY <1>1, <1>3, <2>0 DEF ConfiguredOK
  <2>2. Holds(n)'
    BY <1>3, <2>0, <2>1, HoldsOn DEF Inv
  <2> QED
    BY <1>1, <2>1, <2>2 DEF Holds
<1> QED
  BY <1>1, <1>2, <1>3 DEF ConfiguredOK, Configures

\* What a panel reads is not added to.
LEMMA SameTold ==
  ASSUME UNCHANGED <<tx, issued, atom, raced>>, LinesTaken, NEW r, NEW q,
         q.op = r.op, q.claim = r.claim, q.waiting = r.waiting, AnswerOK(r)
  PROVE  q.op = "configure" =>
           /\ q.claim = issued'.claim
           /\ \A m \in Pending' : m.id = q.waiting => Configures(m) /\ m.n = q.claim
           /\ Configuring' /\ atom'.config.id = q.waiting => atom'.config.n = q.claim
           /\ ~raced' /\ GoodAnswer(q) \in Unread' => Holds(q.claim)
<1>1. Pending' = Pending /\ (Configuring' <=> Configuring)
  BY DEF Pending, Configuring
<1>2. GoodAnswer(q) = GoodAnswer(r)
  BY DEF GoodAnswer
<1> QED
  BY <1>1, <1>2 DEF AnswerOK, LinesTaken

\* A step of a panel: the answer it awaits.
LEMMA PanelAwaits ==
  ASSUME Inv, NEW p \in DOMAIN panel, NEW q \in Panels, Becomes(p, q),
         UNCHANGED <<atom, raced>>, LinesTaken, Kinds(p, panel[p], q)
  PROVE  AnswerOK(panel[p])'
<1> DEFINE r == panel[p]
<1>1. panel'[p] = q /\ PanelOK(p) /\ AnswerOK(r)
  BY Became DEF Inv, TypesOK, PanelTypes, PortInv, PanelInv, ToldInv
<1>2. CASE /\ q.op = r.op /\ q.claim = r.claim /\ q.waiting = r.waiting
           /\ UNCHANGED <<tx, issued>>
  <2>1. q.op = "configure" =>
           /\ q.claim = issued'.claim
           /\ \A m \in Pending' : m.id = q.waiting => Configures(m) /\ m.n = q.claim
           /\ Configuring' /\ atom'.config.id = q.waiting => atom'.config.n = q.claim
           /\ ~raced' /\ GoodAnswer(q) \in Unread' => Holds(q.claim)
    BY <1>1, <1>2, SameTold
  <2> QED
    BY <1>1, <2>1 DEF AnswerOK, Configures, GoodAnswer, Holds, Configuring
<1>3. CASE q.op # "configure"
  BY <1>1, <1>3 DEF AnswerOK
<1>4. CASE q.op = "configure" /\ Sends(q.op, q.claim) /\ q.waiting = issued.request + 1
  <2> DEFINE m == [id |-> issued.request + 1, op |-> q.op, n |-> q.claim]
  <2>0. q.op \in Ops /\ q.claim \in Nat
    BY DEF Panels
  <2>1. /\ Pending' = Pending \cup {m} /\ (Configures(m) <=> q.claim # 0)
        /\ issued'.claim = IF q.claim = 0 THEN issued.claim ELSE issued.claim + 1
        /\ q.claim # 0 => q.claim = issued.claim + 1
    BY <1>4, <2>0, LastSent DEF Inv
  <2>2. m.id = q.waiting /\ m.n = q.claim /\ q.claim # 0
    BY <1>4 DEF Sends
  <2>3. issued.request \in Nat /\ q.waiting = issued.request + 1
    BY <1>4 DEF Inv, TypesOK, LineTypes
  <2>4. /\ \A l \in Pending : l.id # q.waiting
        /\ Configuring => atom.config.id # q.waiting
        /\ \A line \in Unread : line.ok => line.id # q.waiting
    <3>1. /\ \A l \in Pending : l.id \in 1 .. issued.request
          /\ Configuring => atom.config.id \in 1 .. issued.request
          /\ \A line \in Unread : line.ok => line.id <= issued.request
      BY DEF Inv, OrderInv, QueueInv, AnsweredInv
    <3> QED
      BY <2>3, <3>1
  <2> HIDE DEF m
  <2>5. \A l \in Pending' : l.id = q.waiting => Configures(l) /\ l.n = q.claim
    BY <2>1, <2>2, <2>4
  <2>6. GoodAnswer(q) \notin Unread'
    BY <2>4 DEF GoodAnswer, LinesTaken
  <2> QED
    BY <1>1, <2>1, <2>2, <2>4, <2>5, <2>6 DEF AnswerOK, Configures, Configuring, GoodAnswer
<1>5. r.waiting # 0 <=> r.op \in Asking
  BY <1>1 DEF PanelOK
<1> QED
  BY <1>2, <1>3, <1>4, <1>5 DEF Kinds, Quiet, Opens, GoesOn, Publishes, Finishes, Leaves,
     GivesBack, Asking

\* A step of a panel: the configuration it shows.
LEMMA PanelShows ==
  ASSUME Inv, NEW p \in DOMAIN panel, NEW q \in Panels, Becomes(p, q),
         UNCHANGED <<atom, raced>>, LinesTaken, Kinds(p, panel[p], q)
  PROVE  ConfiguredOK(panel[p])'
<1> DEFINE r == panel[p]
<1>1. panel'[p] = q /\ PanelOK(p) /\ ConfiguredOK(r) /\ AnswerOK(r)
  BY Became DEF Inv, TypesOK, PanelTypes, PortInv, PanelInv, ToldInv
<1>2. SUFFICES ASSUME q.mounted, q.configured # 0
               PROVE  /\ q.configured = issued'.claim
                      /\ q.op = "finishing" \/ (q.op = "idle" /\ ~q.ref)
                      /\ \A m \in Pending' : ~Configures(m)
                      /\ ~raced' => Holds(q.configured)
  BY <1>1 DEF ConfiguredOK, Configures, Holds, Configuring
<1>0. UNCHANGED tx => Pending' = Pending
  BY DEF Pending
<1>3. ASSUME UNCHANGED <<tx, issued>>, q.configured = r.configured, r.mounted,
             r.op = "finishing" \/ (r.op = "idle" /\ ~r.ref)
               => q.op = "finishing" \/ (q.op = "idle" /\ ~q.ref)
      PROVE  /\ q.configured = issued'.claim
             /\ q.op = "finishing" \/ (q.op = "idle" /\ ~q.ref)
             /\ \A m \in Pending' : ~Configures(m)
             /\ ~raced' => Holds(q.configured)
  BY <1>0, <1>1, <1>2, <1>3 DEF ConfiguredOK
<1>w. r.waiting # 0 <=> r.op \in Asking
  BY <1>1 DEF PanelOK
<1>c. r.mounted /\ r.configured # 0 => r.op = "finishing" \/ (r.op = "idle" /\ ~r.ref)
  BY <1>1 DEF ConfiguredOK
<1> HIDE DEF r
<1>4. CASE Quiet(p, r, q)
  BY <1>2, <1>3, <1>4, <1>w, <1>c DEF Quiet, Same, Asking
<1>5. CASE Opens(p, r, q)
  BY <1>2, <1>5, <1>c DEF Opens, Same
<1>6. CASE GoesOn(p, r, q)
  BY <1>2, <1>6, <1>c DEF GoesOn, Same
<1>7. CASE Publishes(p, r, q)
  BY <1>2, <1>7, <1>c DEF Publishes, Same
<1>8. CASE Finishes(p, r, q)
  <2>1. /\ UNCHANGED <<tx, issued>> /\ q.op = "finishing" /\ q.configured = r.claim
        /\ r.op = "configure" /\ GoodAnswer(r) \in Unread
    BY <1>8 DEF Finishes, GoodAnswer
  <2>2. r.waiting = issued.request
    BY <1>1, <2>1 DEF PanelOK, Asking, r
  <2>3. Pending = {}
    BY <2>1, <2>2, AnsweredLast DEF Inv
  <2> QED
    BY <1>0, <1>1, <2>1, <2>3 DEF AnswerOK
<1>9. CASE Leaves(p, r, q)
  BY <1>2, <1>3, <1>9, <1>c DEF Leaves, Same
<1>10. CASE GivesBack(p, r, q)
  BY <1>2, <1>3, <1>10, <1>c DEF GivesBack, Same
<1> QED
  BY <1>4, <1>5, <1>6, <1>7, <1>8, <1>9, <1>10 DEF Kinds, r

\* The other panels are told what they were.
LEMMA OthersTold ==
  ASSUME Inv, NEW p \in DOMAIN panel, NEW q \in Panels, Becomes(p, q),
         UNCHANGED <<atom, raced>>, LinesTaken, Kinds(p, panel[p], q),
         NEW o \in DOMAIN panel \ {p}
  PROVE  AnswerOK(panel[o])' /\ ConfiguredOK(panel[o])'
<1> DEFINE r == panel[o]
<1>1. /\ panel'[o] = r /\ PanelOK(o) /\ PanelOK(p) /\ AnswerOK(r) /\ ConfiguredOK(r)
      /\ r.waiting # 0 => UNCHANGED <<port, tx, issued>>
  BY OthersWait DEF Inv, PortInv, PanelInv, ToldInv
<1>2. AnswerOK(panel[o])'
  <2>1. CASE r.op # "configure"
    BY <1>1, <2>1 DEF AnswerOK
  <2>2. CASE r.op = "configure"
    <3>1. UNCHANGED <<tx, issued>>
      BY <1>1, <2>2 DEF PanelOK, Asking
    <3>2. /\ r.claim = issued'.claim
          /\ \A m \in Pending' : m.id = r.waiting => Configures(m) /\ m.n = r.claim
          /\ Configuring' /\ atom'.config.id = r.waiting => atom'.config.n = r.claim
          /\ ~raced' /\ GoodAnswer(r) \in Unread' => Holds(r.claim)
      BY <1>1, <2>2, <3>1, SameTold
    <3> QED
      BY <1>1, <3>2 DEF AnswerOK, Configures, GoodAnswer, Holds, Configuring
  <2> QED
    BY <2>1, <2>2
<1>3. CASE ~r.mounted \/ r.configured = 0
  BY <1>1, <1>2, <1>3 DEF ConfiguredOK
<1>4. CASE r.mounted /\ r.configured # 0
  <2>1. ~panel[p].mounted
    BY <1>1, <1>4 DEF PanelOK
  <2>2. panel[p].op = "claim" => ~Usable(p)
    BY <1>1, <2>1 DEF Usable, Inv, PortInv, PortHeld, PanelOK, TypesOK, PanelTypes
  <2>3. UNCHANGED <<tx, issued>> \/ \E op \in Ops \ {"configure"} : Sends(op, 0)
    <3>1. CASE UNCHANGED <<tx, issued>>
      BY <3>1
    <3>2. CASE Opens(p, panel[p], q)
      BY <3>2 DEF Opens, Ops
    <3>3. CASE GoesOn(p, panel[p], q)
      <4>1. q.op \in {"scan", "rescan"} /\ Sends(q.op, q.claim)
        BY <2>2, <3>3 DEF GoesOn
      <4>2. q.claim = 0
        BY <4>1 DEF Sends
      <4> QED
        BY <4>1, <4>2 DEF Ops
    <3> QED
      BY <3>1, <3>2, <3>3 DEF Kinds, Quiet, Publishes, Finishes, Leaves, GivesBack
  <2>4. /\ issued'.claim = issued.claim
        /\ \A m \in Pending' : m \in Pending \/ ~Configures(m)
    <3>1. CASE UNCHANGED <<tx, issued>>
      BY <3>1 DEF Pending
    <3>2. ASSUME NEW op \in Ops \ {"configure"}, Sends(op, 0)
          PROVE  /\ issued'.claim = issued.claim
                 /\ \A m \in Pending' : m \in Pending \/ ~Configures(m)
      <4>1. 0 \in Nat /\ op \in Ops /\ TypesOK
        BY DEF Inv
      <4> QED
        BY <3>2, <4>1, LastSent
    <3> QED
      BY <2>3, <3>1, <3>2
  <2>5. ConfiguredOK(panel[o])'
    BY <1>1, <1>4, <2>4 DEF ConfiguredOK, Configures, Holds, Configuring
  <2> QED
    BY <1>2, <2>5
<1> QED
  BY <1>2, <1>3, <1>4

\* Every step keeps what the panels are told.
LEMMA ToldStep ==
  ASSUME Inv, [Next]_vars
  PROVE  ToldInv'
<1>0. /\ TypesOK /\ panel \in Seq(Panels) /\ wire \in Seq(Lines)
      /\ \A o \in DOMAIN panel : AnswerOK(panel[o]) /\ ConfiguredOK(panel[o])
  BY DEF Inv, TypesOK, PanelTypes, LineTypes, ToldInv
<1>1. CASE Mounts
  <2> DEFINE n == Len(panel) + 1
  <2>1. NewPanel \in Panels
    BY DEF NewPanel, Panels, Ops
  <2>2. /\ DOMAIN panel' = 1 .. n /\ panel'[n] = NewPanel /\ DOMAIN panel = 1 .. Len(panel)
        /\ \A o \in DOMAIN panel : panel'[o] = panel[o]
        /\ Len(panel) \in Nat
    BY <1>0, <1>1, <2>1, AppendAt DEF Mounts
  <2>3. UNCHANGED <<tx, wire, atom, issued, raced>>
    BY <1>1 DEF Mounts
  <2>4. ASSUME NEW o \in DOMAIN panel
        PROVE  AnswerOK(panel[o])' /\ ConfiguredOK(panel[o])'
    <3>1. panel'[o] = panel[o] /\ AnswerOK(panel[o]) /\ ConfiguredOK(panel[o])
      BY <1>0, <2>2
    <3>2. AnswerOK(panel[o])'
      BY <2>3, <3>1 DEF AnswerOK, Pending, Unread, Configuring, Holds, Configures, GoodAnswer
    <3>3. ConfiguredOK(panel[o])'
      BY <2>3, <3>1 DEF ConfiguredOK, Pending, Configuring, Holds, Configures
    <3> QED
      BY <3>2, <3>3
  <2>5. ASSUME NEW o, o = n PROVE AnswerOK(panel[o])' /\ ConfiguredOK(panel[o])'
    BY <2>2, <2>5 DEF AnswerOK, ConfiguredOK, NewPanel
  <2> HIDE DEF n
  <2>6. \A o \in DOMAIN panel' : o \in DOMAIN panel \/ o = n
    BY <2>2 DEF n
  <2> QED
    BY <2>4, <2>5, <2>6 DEF ToldInv
<1>2. CASE AtomStep
  BY <1>0, <1>2, AtomTells, AtomShows DEF ToldInv, AtomStep
<1>3. ASSUME NEW p \in DOMAIN panel, PanelStep(p) PROVE ToldInv'
  <2>1. PICK q \in Panels : Becomes(p, q) /\ Kinds(p, panel[p], q)
    BY <1>3 DEF PanelStep
  <2>2. UNCHANGED <<atom, raced>> /\ LinesTaken
    BY <1>3 DEF PanelStep
  <2>3. AnswerOK(panel[p])' /\ ConfiguredOK(panel[p])'
    BY <2>1, <2>2, PanelAwaits, PanelShows
  <2>4. \A o \in DOMAIN panel \ {p} : AnswerOK(panel[o])' /\ ConfiguredOK(panel[o])'
    BY <2>1, <2>2, OthersTold
  <2>5. DOMAIN panel' = DOMAIN panel
    BY <1>0, <2>1, Became
  <2> QED
    BY <2>3, <2>4, <2>5 DEF ToldInv
<1>4. CASE UNCHANGED <<panel, port, tx, wire, atom, issued, raced>>
  <2>1. ASSUME NEW o \in DOMAIN panel
        PROVE  AnswerOK(panel[o])' /\ ConfiguredOK(panel[o])'
    <3>1. UNCHANGED <<tx, wire, atom, issued, raced>>
      BY <1>4
    <3>2. panel'[o] = panel[o] /\ AnswerOK(panel[o]) /\ ConfiguredOK(panel[o])
      BY <1>0, <1>4
    <3>3. AnswerOK(panel[o])'
      BY <3>1, <3>2 DEF AnswerOK, Pending, Unread, Configuring, Holds, Configures, GoodAnswer
    <3>4. ConfiguredOK(panel[o])'
      BY <3>1, <3>2 DEF ConfiguredOK, Pending, Configuring, Holds, Configures
    <3> QED
      BY <3>3, <3>4
  <2> QED
    BY <1>4, <2>1 DEF ToldInv
<1> QED
  BY <1>0, <1>1, <1>2, <1>3, <1>4, Steps

-----------------------------------------------------------------------------
(* The invariant, and the properties.                                      *)

\* It holds of a new Atom, of one with a claim and of one that is enrolled.
LEMMA InitInv ==
  ASSUME Init
  PROVE  Inv
<1>1. /\ panel = << NewPanel >> /\ port = NoPort /\ tx = << >> /\ wire = << >>
      /\ issued = [request |-> 0, claim |-> 1] /\ raced = FALSE
  BY DEF Init
<1>2. PICK nvs \in {Stored(0, 0, 0, 0), Stored(1, 1, 1, 0), Stored(1, 1, 0, 1)} :
        atom = Booted(nvs)
  BY DEF Init
<1>3. nvs \in Flash /\ nvs.claim \in {0, 1}
  BY <1>2 DEF Stored, Flash
<1>4. /\ atom \in Atoms /\ atom.nvs = nvs /\ atom.mem = nvs /\ atom.config = NoConfig
      /\ atom.net.stage \in {"none", "offline"} /\ atom.net.n = 0
  BY <1>2, <1>3, BootedAtom
<1>5. /\ NewPanel \in Panels /\ Len(panel) = 1 /\ DOMAIN panel = {1} /\ panel[1] = NewPanel
      /\ panel \in Seq(Panels)
  BY <1>1 DEF NewPanel, Panels, Ops
<1>6. Pending = {} /\ Unread = {} /\ DOMAIN tx = {} /\ ~Configuring
  BY <1>1, <1>4 DEF Pending, Unread, Configuring, NoConfig
<1>7. TypesOK
  <2>1. PanelTypes
    BY <1>1, <1>5 DEF PanelTypes, NoPort, Ports
  <2>2. LineTypes
    BY <1>1 DEF LineTypes
  <2>3. AtomTypes
    BY <1>1, <1>4 DEF AtomTypes
  <2> QED
    BY <2>1, <2>2, <2>3 DEF TypesOK
<1>8. PortInv
  BY <1>1, <1>5 DEF PortInv, PanelInv, PanelOK, PortHeld, NewPanel, NoPort, Asking
<1>9. OrderInv
  BY <1>1, <1>3, <1>4, <1>6 DEF OrderInv, QueueInv, AnsweredInv, ClaimsInv
<1>10. FlashInv
  BY <1>4 DEF FlashInv, StoreInv, TokenInv, NoConfig, Saving
<1>11. ToldInv
  BY <1>5 DEF ToldInv, AnswerOK, ConfiguredOK, NewPanel
<1> QED
  BY <1>7, <1>8, <1>9, <1>10, <1>11 DEF Inv

\* Every step keeps it.
LEMMA NextInv ==
  ASSUME Inv, [Next]_vars
  PROVE  Inv'
<1>1. TypesOK' /\ PortInv' /\ OrderInv' /\ ToldInv'
  BY TypesStep, PortStep, OrderStep, ToldStep DEF Inv
<1>2. CASE AtomStep
  BY <1>1, <1>2, FlashStep DEF Inv
<1>3. CASE UNCHANGED <<atom, raced>>
  BY <1>1, <1>3 DEF Inv, FlashInv, StoreInv, TokenInv
<1> QED
  BY <1>2, <1>3, Steps DEF Inv, Mounts, PanelStep

\* What the properties rest on.
THEOREM Invariant == Spec => []Inv
<1>1. Init => Inv
  BY InitInv
<1>2. Inv /\ [Next]_vars => Inv'
  BY NextInv
<1> QED
  BY <1>1, <1>2, PTL DEF Spec

\* An open port is that of a panel whose operator can disconnect, of a connection in
\* progress, or one that is being closed; a panel that was left while it was connecting
\* keeps it (connect, disconnect and the effect's cleanup).
THEOREM PortGivenBack == Spec => []PortHeld
<1>1. Inv => PortHeld
  BY DEF Inv, PortInv
<1> QED
  BY <1>1, Invariant, PTL

\* A panel that tells the operator that the bridge is configured is right, whatever was
\* lost or restarted before: the flash holds that configuration, unless a token was being
\* stored over it (configure, send_configuration_result, persist_device_token).
THEOREM ConfiguredIsTrue == Spec => []ConfiguredIsStored
<1>1. Inv => ConfiguredIsStored
  BY DEF Inv, ToldInv, ConfiguredOK, Holds, ConfiguredIsStored
<1> QED
  BY <1>1, Invariant, PTL

\* The write that erases the token finds the new claim, and the one that erases a claim
\* the new token.
LEMMA CredentialKept ==
  ASSUME Inv, [Next]_vars, HasCredential(atom.nvs)
  PROVE  HasCredential(atom'.nvs) \/ raced'
<1>t. /\ TypesOK /\ atom.config.n \in Nat /\ atom.net.n \in Nat
      /\ atom.nvs.claim \in Nat /\ atom.nvs.token \in Nat
  BY DEF Inv, TypesOK, AtomTypes, Atoms, Configs, Nets, Flash
<1>1. Configuring => atom.config.n # 0
  BY DEF Inv, OrderInv, ClaimsInv
<1>2. CASE UNCHANGED atom
  BY <1>2
<1>3. CASE AtomStep
  <2>1. ASSUME atom'.nvs = atom.nvs PROVE HasCredential(atom'.nvs) \/ raced'
    BY <2>1
  <2>2. CASE \/ WritesTo("ssid", atom.config.n, "pass")
             \/ WritesTo("pass", atom.config.n, "claim")
    <3>1. atom'.nvs.claim = atom.nvs.claim /\ atom'.nvs.token = atom.nvs.token
      BY <1>t, <2>2, WritesFields
    <3> QED
      BY <3>1 DEF HasCredential
  <2>3. CASE WritesTo("claim", atom.config.n, "token")
    BY <1>t, <1>1, <2>3, WritesFields DEF HasCredential, Configuring
  <2>4. CASE WritesTo("token", 0, "commit")
    <3>1. /\ atom'.nvs.claim = atom.nvs.claim /\ Configuring /\ atom.config.step = "token"
          /\ UNCHANGED raced
      BY <1>t, <2>4, WritesFields DEF Configuring
    <3> QED
      BY <1>1, <3>1 DEF HasCredential, Inv, FlashInv, StoreInv
  <2>5. CASE Persists
    <3>1. atom.net.n # 0 /\ (raced => raced') /\ (Newer => raced')
      BY <2>5 DEF Persists, Saving, Inv, FlashInv, TokenInv
    <3>2. atom.net.stage = "claim" /\ ~raced /\ ~Newer => atom.nvs.token = atom.net.n
      BY DEF Inv, FlashInv, TokenInv, Newer
    <3> QED
      BY <1>t, <2>5, <3>1, <3>2, PersistCases DEF HasCredential
  <2>6. CASE \/ Takes \/ Commits \/ GivesUp \/ StartsAgain \/ Loses
             \/ \E stage \in NetStages, n \in Nat : Talks(stage, n)
    BY <2>1, <2>6 DEF Takes, Commits, GivesUp, StartsAgain, Loses, Talks, AtomIs
  <2> QED
    BY <1>3, <2>2, <2>3, <2>4, <2>5, <2>6 DEF AtomStep
<1> QED
  BY <1>t, <1>2, <1>3, Steps DEF Mounts, PanelStep

\* No step, failed write or power cycle takes the Atom's last credential, unless a token
\* is stored over a newer configuration: the order of the writes of
\* send_configuration_result and persist_device_token.
THEOREM CredentialStays == Spec => KeepsACredential
<1>1. Inv /\ [Next]_vars =>
        [HasCredential(atom.nvs) => HasCredential(atom'.nvs) \/ raced']_vars
  BY CredentialKept
<1> QED
  BY <1>1, Invariant, PTL DEF Spec, KeepsACredential

=============================================================================
