------------------------ MODULE BridgeSessions_proofs ------------------------
(***************************************************************************)
(* Types, enrolment and revocation, for any number of bridges, claims and  *)
(* connections, revocations and restarts: a claim enrols one bridge; an    *)
(* Atom's device token is the one the service stores; a revoked bridge     *)
(* loses its session, whatever is queued; and the row of a bridge follows  *)
(* its newest connection.                                                  *)
(***************************************************************************)
EXTENDS BridgeSessions, TLAPS

Rows  == [known : BOOLEAN, token : Claim \cup {None}, revoked : BOOLEAN,
          state : {"connected", "offline"}, revision : Nat]
Conns == [stage : Stages, bridge : Bridge \cup {None}, kind : {"claim", "token"},
          secret : Claim \cup {None}, revision : Nat]
Atoms == [claim : Claim \cup {None}, token : Claim \cup {None}, conn : Conn \cup {None}]

\* TypeOK, part by part.
RowsOK  == row \in [Bridge -> Rows] /\ claim \in [Claim -> {"none", "open", "consumed", "expired"}]
ConnsOK == conn \in [Conn -> Conns] /\ atom \in [Bridge -> Atoms]
QueueOK == /\ queue \in Seq(Command) /\ session \in Conn \cup {None} /\ shown \in Bridge \cup {None}
           /\ revoking \subseteq Bridge /\ overtook \subseteq Conn
           /\ revokes \in Nat /\ restarts \in Nat

\* A connection that has said hello belongs to a bridge and has shown a secret; one that
\* has not, has authenticated under no revision.
Bound ==
  \A c \in Conn :
    IF conn[c].stage = "idle" THEN conn[c].revision = 0
    ELSE conn[c].bridge \in Bridge /\ conn[c].secret \in Claim

\* The commands that attach a connection which has said hello, under its bridge.
Started == {m \in Command : m.command = "attach" =>
              /\ m.conn \in Conn /\ conn[m.conn].stage # "idle"
              /\ conn[m.conn].bridge = m.bridge}

\* So is the session's connection, and the snapshot names its bridge.
Named ==
  /\ queue \in Seq(Started)
  /\ session # None => conn[session].stage # "idle" /\ conn[session].bridge = shown

TypeInv == RowsOK /\ ConnsOK /\ QueueOK /\ Bound /\ Named

\* The parts make it up.
LEMMA Parts == TypeOK <=> RowsOK /\ ConnsOK /\ QueueOK
  BY DEF TypeOK, RowsOK, ConnsOK, QueueOK, Rows, Conns, Atoms

\* What a queue holds stays what it is when a command is added or taken.
LEMMA QueueTypes ==
  ASSUME NEW S, NEW q \in Seq(S)
  PROVE  /\ \A m \in S : Append(q, m) \in Seq(S)
         /\ q # << >> => Tail(q) \in Seq(S) /\ Head(q) \in S
         /\ \A T : S \subseteq T => q \in Seq(T)
  OBVIOUS

\* An empty queue is one.
LEMMA EmptyQueue == \A S : << >> \in Seq(S)
  OBVIOUS

\* The updates of a row keep its type.
LEMMA RowTypes ==
  ASSUME NEW r \in Rows
  PROVE  /\ r.revision + 1 \in Nat
         /\ Offline(r) \in Rows /\ [Offline(r) EXCEPT !.revoked = TRUE] \in Rows
         /\ \A n \in Nat : [r EXCEPT !.state = "connected", !.revision = n] \in Rows
<1> DEFINE n == r.revision + 1
<1>1. n \in Nat
  BY DEF Rows
<1> HIDE DEF n
<1>2. [r EXCEPT !.state = "offline", !.revision = n] \in Rows
  BY <1>1 DEF Rows
<1>3. \A m \in Nat : [r EXCEPT !.state = "connected", !.revision = m] \in Rows
  BY DEF Rows
<1>4. Offline(r) \in Rows
  BY <1>2 DEF Offline, n
<1>5. [Offline(r) EXCEPT !.revoked = TRUE] \in Rows
  BY <1>4 DEF Rows
<1> QED
  BY <1>1, <1>3, <1>4, <1>5 DEF n

\* So does the drop of a transport.
LEMMA DroppedType ==
  ASSUME row \in [Bridge -> Rows], NEW c
  PROVE  Dropped(c) \in [Bridge -> Rows]
<1>1. CASE c = None \/ row[conn[c].bridge].revision # conn[c].revision
  BY <1>1 DEF Dropped
<1>2. CASE conn[c].bridge \notin Bridge
  BY <1>2 DEF Dropped
<1>3. CASE conn[c].bridge \in Bridge
  BY <1>3, RowTypes DEF Dropped
<1> QED
  BY <1>1, <1>2, <1>3

\* The drop changes neither token nor revocation, and no revision goes back.
LEMMA DroppedKeeps ==
  ASSUME row \in [Bridge -> Rows], NEW c, NEW b \in Bridge
  PROVE  /\ Dropped(c)[b].token = row[b].token /\ Dropped(c)[b].revoked = row[b].revoked
         /\ Dropped(c)[b].revision >= row[b].revision
         /\ \/ Dropped(c)[b] = row[b]
            \/ c # None /\ b = conn[c].bridge /\ row[b].revision = conn[c].revision
<1>1. \A r \in Rows : /\ Offline(r).token = r.token /\ Offline(r).revoked = r.revoked
                      /\ Offline(r).revision >= r.revision
  <2> TAKE r \in Rows
  <2> DEFINE n == r.revision + 1
  <2>1. r.revision \in Nat /\ n \in Nat /\ n >= r.revision
    BY DEF Rows
  <2> HIDE DEF n
  <2>2. Offline(r) = [r EXCEPT !.state = "offline", !.revision = n]
    BY DEF Offline, n
  <2>3. Offline(r).token = r.token /\ Offline(r).revoked = r.revoked /\ Offline(r).revision = n
    BY <2>2 DEF Rows
  <2> QED
    BY <2>1, <2>3
<1>2. row[b] \in Rows /\ row[b].revision \in Nat
  BY DEF Rows
<1>3. CASE c = None \/ row[conn[c].bridge].revision # conn[c].revision
  BY <1>2, <1>3 DEF Dropped
<1>4. CASE c # None /\ row[conn[c].bridge].revision = conn[c].revision
  <2>1. Dropped(c) = [row EXCEPT ![conn[c].bridge] = Offline(row[conn[c].bridge])]
    BY <1>4 DEF Dropped
  <2>2. CASE conn[c].bridge = b
    BY <1>1, <1>2, <1>4, <2>1, <2>2
  <2>3. CASE conn[c].bridge # b
    BY <1>2, <2>1, <2>3
  <2> QED
    BY <2>2, <2>3
<1> QED
  BY <1>3, <1>4

\* Closing a connection leaves connections.
LEMMA ClosingType ==
  ASSUME conn \in [Conn -> Conns], NEW c
  PROVE  Closing(c) \in [Conn -> Conns]
<1>1. \A x \in Conns : [x EXCEPT !.stage = "closed"] \in Conns
  BY DEF Conns, Stages
<1> QED
  BY <1>1 DEF Closing

\* Every step keeps the rows and the claims.
LEMMA RowsStep ==
  ASSUME RowsOK, ConnsOK, QueueOK, [Next]_vars
  PROVE  RowsOK'
<1> USE DEF RowsOK
<1>1. ASSUME NEW k \in Claim, CreateClaim(k) \/ Expire(k) PROVE RowsOK'
  BY <1>1 DEF CreateClaim, Expire
<1>2. ASSUME NEW b \in Bridge, RevokeRow(b) PROVE RowsOK'
  <2>1. row[b] \in Rows
    OBVIOUS
  <2> QED
    BY <1>2, <2>1, RowTypes DEF RevokeRow
<1>3. ASSUME NEW b \in Bridge, RevokeDetach(b) PROVE RowsOK'
  BY <1>3 DEF RevokeDetach
<1>4. ASSUME NEW b \in Bridge, NEW k \in Claim, Configure(b, k) PROVE RowsOK'
  BY <1>4 DEF Configure
<1>5. ASSUME NEW c \in Conn, NEW b \in Bridge, Hello(c, b) PROVE RowsOK'
  BY <1>5 DEF Hello
<1>6. ASSUME NEW c \in Conn, Authenticate(c) PROVE RowsOK'
  <2> DEFINE b == conn[c].bridge
  <2>1. conn[c] \in Conns
    BY DEF ConnsOK
  <2>2. claim' \in [Claim -> {"none", "open", "consumed", "expired"}]
    BY <1>6 DEF Authenticate
  <2>3. CASE b \in Bridge
    <3> DEFINE n == row[b].revision + 1
    <3>1. row[b] \in Rows /\ n \in Nat
      BY <2>3, RowTypes
    <3> HIDE DEF n
    <3>2. [row[b] EXCEPT !.state = "connected", !.revision = n] \in Rows
      BY <3>1, RowTypes
    <3>3. [known |-> TRUE, token |-> conn[c].secret, revoked |-> FALSE,
           state |-> "connected", revision |-> n] \in Rows
      BY <2>1, <3>1 DEF Rows, Conns
    <3> QED
      BY <1>6, <2>2, <3>1, <3>2, <3>3 DEF Authenticate, n
  <2>4. CASE b \notin Bridge
    BY <1>6, <2>2, <2>4 DEF Authenticate
  <2> QED
    BY <2>3, <2>4
<1>7. ASSUME NEW c \in Conn, Respond(c) \/ RespondFails(c) \/ Attach(c) PROVE RowsOK'
  BY <1>7 DEF Respond, RespondFails, Attach
<1>8. CASE HandleAttach \/ HandleDetach \/ SessionEnds
  BY <1>8, DroppedType DEF HandleAttach, HandleDetach, SessionEnds
<1>9. CASE Restart \/ UNCHANGED vars
  BY <1>9 DEF Restart, vars
<1> QED
  BY <1>1, <1>2, <1>3, <1>4, <1>5, <1>6, <1>7, <1>8, <1>9 DEF Next

\* A connection that takes another stage keeps everything else.
LEMMA Staged ==
  ASSUME NEW x \in Conns, NEW stage \in Stages
  PROVE  /\ [x EXCEPT !.stage = stage] \in Conns
         /\ [x EXCEPT !.stage = stage].stage = stage
         /\ [x EXCEPT !.stage = stage].bridge = x.bridge
         /\ [x EXCEPT !.stage = stage].secret = x.secret
         /\ [x EXCEPT !.stage = stage].kind = x.kind
         /\ [x EXCEPT !.stage = stage].revision = x.revision
  BY DEF Conns

\* Connections that have said hello take other stages, and nothing else.
OnlyStages ==
  /\ conn' = [c \in Conn |-> conn'[c]]
  /\ \A c \in Conn :
       \/ conn'[c] = conn[c]
       \/ \E stage \in {"responded", "attached", "closed"} :
            /\ conn[c].stage # "idle"
            /\ stage # "closed" => conn[c].stage \in {"accepted", "responded"}
            /\ conn'[c] = [conn[c] EXCEPT !.stage = stage]

\* The one field is what they change.
LEMMA OnlyStagesKeeps ==
  ASSUME conn \in [Conn -> Conns], OnlyStages
  PROVE  /\ conn' \in [Conn -> Conns]
         /\ \A c \in Conn :
              /\ conn'[c].bridge = conn[c].bridge /\ conn'[c].secret = conn[c].secret
              /\ conn'[c].kind = conn[c].kind /\ conn'[c].revision = conn[c].revision
              /\ conn'[c].stage = "idle" <=> conn[c].stage = "idle"
              /\ \/ conn'[c] = conn[c] \/ conn'[c].stage = "closed"
                 \/ /\ conn'[c].stage \in {"responded", "attached"}
                    /\ conn[c].stage \in {"accepted", "responded"}
<1> DEFINE Keeps(c) ==
             /\ conn'[c] \in Conns
             /\ conn'[c].bridge = conn[c].bridge /\ conn'[c].secret = conn[c].secret
             /\ conn'[c].kind = conn[c].kind /\ conn'[c].revision = conn[c].revision
             /\ conn'[c].stage = "idle" <=> conn[c].stage = "idle"
             /\ \/ conn'[c] = conn[c] \/ conn'[c].stage = "closed"
                \/ /\ conn'[c].stage \in {"responded", "attached"}
                   /\ conn[c].stage \in {"accepted", "responded"}
<1>1. ASSUME NEW c \in Conn PROVE Keeps(c)
  <2>1. conn[c] \in Conns
    OBVIOUS
  <2>2. CASE conn'[c] = conn[c]
    BY <2>1, <2>2
  <2>3. ASSUME NEW stage \in {"responded", "attached", "closed"},
               conn[c].stage # "idle",
               stage # "closed" => conn[c].stage \in {"accepted", "responded"},
               conn'[c] = [conn[c] EXCEPT !.stage = stage]
        PROVE  Keeps(c)
    <3>1. stage \in Stages
      BY DEF Stages
    <3> QED
      BY <2>1, <2>3, <3>1, Staged
  <2> QED
    BY <2>2, <2>3 DEF OnlyStages
<1> QED
  BY <1>1 DEF OnlyStages

\* All actions but the hello and the authentication do no more to connections.
LEMMA StagesMove ==
  ASSUME conn \in [Conn -> Conns], session \in Conn \cup {None}, NEW c \in Conn,
         session # None => conn[session].stage # "idle",
         \/ \E b \in Bridge, k \in Claim : Configure(b, k)
         \/ Respond(c) \/ RespondFails(c) \/ Attach(c)
         \/ HandleAttach \/ HandleDetach \/ SessionEnds \/ Restart
  PROVE  OnlyStages
<1> USE DEF OnlyStages
<1>2. ASSUME NEW b \in Bridge, NEW k \in Claim, Configure(b, k) PROVE OnlyStages
  BY <1>2 DEF Configure
<1>3. CASE Respond(c) \/ RespondFails(c) \/ Attach(c)
  <2>1. /\ conn[c].stage \in {"accepted", "responded"}
        /\ \E stage \in {"responded", "attached", "closed"} :
             conn' = [conn EXCEPT ![c] = [conn[c] EXCEPT !.stage = stage]]
    BY <1>3 DEF Respond, RespondFails, Attach
  <2> QED
    BY <2>1
<1>4. CASE HandleAttach \/ HandleDetach \/ SessionEnds
  <2>1. \/ conn' = conn
        \/ session # None /\ conn' = [conn EXCEPT ![session] = [conn[session] EXCEPT !.stage = "closed"]]
    BY <1>4 DEF HandleAttach, HandleDetach, SessionEnds, Closing
  <2>2. CASE conn' = conn
    BY <2>2
  <2>3. CASE session # None /\ conn' = [conn EXCEPT ![session] = [conn[session] EXCEPT !.stage = "closed"]]
    BY <2>3
  <2> QED
    BY <2>1, <2>2, <2>3
<1>5. CASE Restart
  BY <1>5 DEF Restart
<1> QED
  BY <1>2, <1>3, <1>4, <1>5

\* Every step keeps the connections and the Atoms.
LEMMA ConnsStep ==
  ASSUME TypeInv, [Next]_vars
  PROVE  ConnsOK'
<1> USE DEF TypeInv, ConnsOK
<1>s. session \in Conn \cup {None} /\ (session # None => conn[session].stage # "idle")
  BY DEF QueueOK, Named
<1>1. ASSUME NEW k \in Claim, CreateClaim(k) \/ Expire(k) PROVE ConnsOK'
  BY <1>1 DEF CreateClaim, Expire
<1>2. ASSUME NEW b \in Bridge, RevokeRow(b) \/ RevokeDetach(b) PROVE ConnsOK'
  BY <1>2 DEF RevokeRow, RevokeDetach
<1>4. ASSUME NEW b \in Bridge, NEW k \in Claim, Configure(b, k) PROVE ConnsOK'
  <2>1. [claim |-> k, token |-> None, conn |-> None] \in Atoms
    BY DEF Atoms
  <2>2. atom' \in [Bridge -> Atoms]
    BY <1>4, <2>1 DEF Configure
  <2>3. CASE Conn = {}
    BY <1>4, <2>2, <2>3 DEF Configure
  <2>4. ASSUME NEW c \in Conn PROVE ConnsOK'
    BY <1>s, <1>4, <2>2, StagesMove, OnlyStagesKeeps
  <2> QED
    BY <2>3, <2>4
<1>5. ASSUME NEW c \in Conn, NEW b \in Bridge, Hello(c, b) PROVE ConnsOK'
  <2>1. \A a \in Atoms : [a EXCEPT !.conn = c] \in Atoms
    BY DEF Atoms
  <2>2. atom[b] \in Atoms
    OBVIOUS
  <2>3. atom' \in [Bridge -> Atoms]
    BY <1>5, <2>1 DEF Hello
  <2>4. PICK kind \in {"token", "claim"}, secret \in Claim :
          conn' = [conn EXCEPT ![c] = [stage |-> "hello", bridge |-> b, kind |-> kind,
                                       secret |-> secret, revision |-> 0]]
    BY <1>5, <2>2 DEF Hello, Atoms
  <2>5. [stage |-> "hello", bridge |-> b, kind |-> kind, secret |-> secret,
         revision |-> 0] \in Conns
    BY DEF Conns, Stages
  <2> QED
    BY <2>3, <2>4, <2>5
<1>6. ASSUME NEW c \in Conn, Authenticate(c) PROVE ConnsOK'
  <2> DEFINE n == row[conn[c].bridge].revision + 1
  <2>1. conn[c] \in Conns /\ conn[c].bridge \in Bridge
    BY <1>6 DEF Authenticate, Bound
  <2>2. n \in Nat
    BY <2>1, RowTypes DEF RowsOK
  <2>4. \/ conn' = [conn EXCEPT ![c] = [conn[c] EXCEPT !.stage = "accepted", !.revision = n]]
        \/ conn' = [conn EXCEPT ![c] = [conn[c] EXCEPT !.stage = "closed"]]
    BY <1>6 DEF Authenticate
  <2> HIDE DEF n
  <2>3. [conn[c] EXCEPT !.stage = "accepted", !.revision = n] \in Conns
    BY <2>1, <2>2 DEF Conns, Stages
  <2>5. [conn[c] EXCEPT !.stage = "closed"] \in Conns
    BY <2>1 DEF Conns, Stages
  <2>6. atom' = atom
    BY <1>6 DEF Authenticate
  <2> QED
    BY <2>3, <2>4, <2>5, <2>6
<1>7. ASSUME NEW c \in Conn, Respond(c) \/ RespondFails(c) \/ Attach(c) PROVE ConnsOK'
  <2>1. conn[c].secret \in Claim
    BY <1>7 DEF Respond, RespondFails, Attach, Bound
  <2>2. \A a \in Atoms : [a EXCEPT !.claim = None, !.token = conn[c].secret] \in Atoms
    BY <2>1 DEF Atoms
  <2>3. \/ atom' = atom
        \/ atom' = [atom EXCEPT ![conn[c].bridge] =
                      [atom[conn[c].bridge] EXCEPT !.claim = None, !.token = conn[c].secret]]
    BY <1>7 DEF Respond, RespondFails, Attach
  <2>4. atom' \in [Bridge -> Atoms]
    BY <2>2, <2>3
  <2> QED
    BY <1>s, <1>7, <2>4, StagesMove, OnlyStagesKeeps
<1>8. CASE HandleAttach \/ HandleDetach \/ SessionEnds \/ Restart
  <2>1. atom' = atom
    BY <1>8 DEF HandleAttach, HandleDetach, SessionEnds, Restart
  <2>2. CASE Conn = {}
    BY <1>8, <2>1, <2>2, ClosingType DEF HandleAttach, HandleDetach, SessionEnds, Restart
  <2>3. ASSUME NEW c \in Conn PROVE ConnsOK'
    BY <1>s, <1>8, <2>1, StagesMove, OnlyStagesKeeps
  <2> QED
    BY <2>2, <2>3
<1>9. CASE UNCHANGED vars
  BY <1>9 DEF vars
<1> QED
  BY <1>1, <1>2, <1>4, <1>5, <1>6, <1>7, <1>8, <1>9 DEF Next

\* What an authentication makes of its connection.
LEMMA Authenticated ==
  ASSUME TypeInv, NEW c \in Conn, Authenticate(c)
  PROVE  /\ conn[c].stage = "hello" /\ conn[c].bridge \in Bridge /\ conn[c].secret \in Claim
         /\ conn' = [conn EXCEPT ![c] = conn'[c]]
         /\ conn'[c].bridge = conn[c].bridge /\ conn'[c].secret = conn[c].secret
         /\ conn'[c].kind = conn[c].kind
         /\ \/ conn'[c].stage = "closed" /\ conn'[c].revision = conn[c].revision
            \/ conn'[c].stage = "accepted"
               /\ conn'[c].revision = row[conn[c].bridge].revision + 1
<1> USE DEF TypeInv, ConnsOK, Bound
<1>1. conn[c] \in Conns /\ conn[c].stage = "hello" /\ conn[c].bridge \in Bridge
      /\ conn[c].secret \in Claim
  BY DEF Authenticate
<1> DEFINE n == row[conn[c].bridge].revision + 1
<1>2. \/ conn' = [conn EXCEPT ![c] = [conn[c] EXCEPT !.stage = "accepted", !.revision = n]]
      \/ conn' = [conn EXCEPT ![c] = [conn[c] EXCEPT !.stage = "closed"]]
  BY DEF Authenticate
<1> HIDE DEF n
<1>3. CASE conn' = [conn EXCEPT ![c] = [conn[c] EXCEPT !.stage = "accepted", !.revision = n]]
  BY <1>1, <1>3 DEF Conns, n
<1>4. CASE conn' = [conn EXCEPT ![c] = [conn[c] EXCEPT !.stage = "closed"]]
  BY <1>1, <1>4 DEF Conns
<1> QED
  BY <1>2, <1>3, <1>4

\* What a hello makes of its connection.
LEMMA SaidHello ==
  ASSUME TypeInv, NEW c \in Conn, NEW b \in Bridge, Hello(c, b)
  PROVE  /\ conn' = [conn EXCEPT ![c] = conn'[c]] /\ conn[c].stage = "idle"
         /\ conn'[c].stage = "hello" /\ conn'[c].bridge = b /\ conn'[c].revision = 0
         /\ conn'[c].secret \in Claim
         /\ \/ conn'[c].kind = "token" /\ conn'[c].secret = atom[b].token
            \/ conn'[c].kind = "claim" /\ conn'[c].secret = atom[b].claim
               /\ atom[b].token = None
<1>1. atom[b] \in Atoms
  BY DEF TypeInv, ConnsOK
<1> QED
  BY <1>1 DEF Hello, Atoms, TypeInv, ConnsOK

\* Every step keeps what binds connections.
LEMMA BoundStep ==
  ASSUME TypeInv, [Next]_vars
  PROVE  Bound'
<1> USE DEF TypeInv, ConnsOK, Bound
<1>s. session \in Conn \cup {None} /\ (session # None => conn[session].stage # "idle")
  BY DEF QueueOK, Named
<1>1. ASSUME NEW k \in Claim, CreateClaim(k) \/ Expire(k) PROVE Bound'
  BY <1>1 DEF CreateClaim, Expire
<1>2. ASSUME NEW b \in Bridge, RevokeRow(b) \/ RevokeDetach(b) PROVE Bound'
  BY <1>2 DEF RevokeRow, RevokeDetach
<1>3. ASSUME NEW c \in Conn, NEW b \in Bridge, Hello(c, b) PROVE Bound'
  BY <1>3, SaidHello
<1>4. ASSUME NEW c \in Conn, Authenticate(c) PROVE Bound'
  BY <1>4, Authenticated
<1>5. ASSUME NEW c \in Conn,
             \/ \E b \in Bridge, k \in Claim : Configure(b, k)
             \/ Respond(c) \/ RespondFails(c) \/ Attach(c)
             \/ HandleAttach \/ HandleDetach \/ SessionEnds \/ Restart
      PROVE  Bound'
  <2>1. OnlyStages
    BY <1>s, <1>5, StagesMove
  <2> QED
    BY <2>1, OnlyStagesKeeps
<1>6. CASE UNCHANGED vars
  BY <1>6 DEF vars
<1>7. CASE Conn = {}
  BY <1>7
<1>8. CASE Conn # {}
  BY <1>1, <1>2, <1>3, <1>4, <1>5, <1>6, <1>8 DEF Next
<1> QED
  BY <1>7, <1>8

\* A connection that has said hello has for good, to the same bridge with the same secret.
StaysStarted ==
  \A c \in Conn : conn[c].stage # "idle" =>
    /\ conn'[c].stage # "idle" /\ conn'[c].bridge = conn[c].bridge
    /\ conn'[c].secret = conn[c].secret /\ conn'[c].kind = conn[c].kind

\* A connection that has begun is never idle again.
LEMMA StartedOnce ==
  ASSUME TypeInv, [Next]_vars
  PROVE  StaysStarted
<1> USE DEF TypeInv, ConnsOK, StaysStarted
<1>s. session \in Conn \cup {None} /\ (session # None => conn[session].stage # "idle")
  BY DEF QueueOK, Named
<1>1. ASSUME NEW k \in Claim, CreateClaim(k) \/ Expire(k) PROVE StaysStarted
  BY <1>1 DEF CreateClaim, Expire
<1>2. ASSUME NEW b \in Bridge, RevokeRow(b) \/ RevokeDetach(b) PROVE StaysStarted
  BY <1>2 DEF RevokeRow, RevokeDetach
<1>3. ASSUME NEW c \in Conn, NEW b \in Bridge, Hello(c, b) PROVE StaysStarted
  BY <1>3, SaidHello
<1>4. ASSUME NEW c \in Conn, Authenticate(c) PROVE StaysStarted
  BY <1>4, Authenticated
<1>5. ASSUME NEW c \in Conn,
             \/ \E b \in Bridge, k \in Claim : Configure(b, k)
             \/ Respond(c) \/ RespondFails(c) \/ Attach(c)
             \/ HandleAttach \/ HandleDetach \/ SessionEnds \/ Restart
      PROVE  StaysStarted
  <2>1. OnlyStages
    BY <1>s, <1>5, StagesMove
  <2> QED
    BY <2>1, OnlyStagesKeeps
<1>6. CASE UNCHANGED vars
  BY <1>6 DEF vars
<1>7. CASE Conn = {}
  BY <1>7
<1>8. CASE Conn # {}
  BY <1>1, <1>2, <1>3, <1>4, <1>5, <1>6, <1>8 DEF Next
<1> QED
  BY <1>7, <1>8

\* Commands that name such connections still do.
LEMMA StartedGrows ==
  ASSUME StaysStarted
  PROVE  Started \subseteq Started'
  BY DEF StaysStarted, Started

\* Every step keeps the queue, the session and the bounds.
LEMMA QueueStep ==
  ASSUME TypeInv, [Next]_vars
  PROVE  QueueOK' /\ Named'
<1> USE DEF TypeInv, QueueOK, Named
<1>s. StaysStarted /\ Started \subseteq Started'
  BY StartedOnce, StartedGrows
<1>q. queue \in Seq(Started')
  BY <1>s, QueueTypes
<1>1. ASSUME NEW k \in Claim, CreateClaim(k) \/ Expire(k) PROVE QueueOK' /\ Named'
  BY <1>s, <1>q, <1>1 DEF CreateClaim, Expire
<1>2. ASSUME NEW b \in Bridge, RevokeRow(b) PROVE QueueOK' /\ Named'
  BY <1>s, <1>q, <1>2 DEF RevokeRow
<1>3. ASSUME NEW b \in Bridge, RevokeDetach(b) PROVE QueueOK' /\ Named'
  <2> DEFINE m == [command |-> "detach", conn |-> None, bridge |-> b]
  <2>1. m \in Command /\ m.command = "detach"
    BY DEF Command
  <2>2. m \in Started'
    BY <2>1 DEF Started
  <2>3. queue' = Append(queue, m) /\ conn' = conn /\ session' = session /\ shown' = shown
        /\ revoking' = revoking \ {b} /\ overtook' = overtook \cup InHandshake(b)
        /\ revokes' = revokes /\ restarts' = restarts
    BY <1>3 DEF RevokeDetach
  <2> HIDE DEF m
  <2>4. queue' \in Seq(Command) /\ queue' \in Seq(Started')
    BY <1>q, <2>1, <2>2, <2>3, QueueTypes
  <2> QED
    BY <2>3, <2>4 DEF InHandshake
<1>4. ASSUME NEW b \in Bridge, NEW k \in Claim, Configure(b, k) PROVE QueueOK' /\ Named'
  BY <1>s, <1>q, <1>4 DEF Configure, StaysStarted
<1>5. ASSUME NEW c \in Conn, NEW b \in Bridge, Hello(c, b) PROVE QueueOK' /\ Named'
  BY <1>s, <1>q, <1>5 DEF Hello, StaysStarted
<1>6. ASSUME NEW c \in Conn, Authenticate(c) \/ Respond(c) \/ RespondFails(c)
      PROVE QueueOK' /\ Named'
  <2>1. UNCHANGED <<queue, session, shown, revoking, revokes, restarts, overtook>>
    BY <1>6 DEF Authenticate, Respond, RespondFails
  <2> QED
    BY <1>s, <1>q, <2>1 DEF StaysStarted
<1>7. ASSUME NEW c \in Conn, Attach(c) PROVE QueueOK' /\ Named'
  <2> DEFINE m == [command |-> "attach", conn |-> c, bridge |-> conn[c].bridge]
  <2>1. conn[c].stage # "idle" /\ conn[c].bridge \in Bridge
    BY <1>7 DEF Attach, Bound
  <2>2. m \in Command /\ m.conn = c /\ m.bridge = conn[c].bridge
    BY <2>1 DEF Command
  <2>3. m \in Started'
    BY <1>s, <2>1, <2>2 DEF Started, StaysStarted
  <2>4. queue' = Append(queue, m)
        /\ UNCHANGED <<session, shown, revoking, revokes, restarts, overtook>>
    BY <1>7 DEF Attach
  <2> HIDE DEF m
  <2>5. queue' \in Seq(Command) /\ queue' \in Seq(Started')
    BY <1>q, <2>2, <2>3, <2>4, QueueTypes
  <2> QED
    BY <1>s, <2>4, <2>5 DEF StaysStarted
<1>8. CASE HandleAttach
  <2>1. Head(queue) \in Started' /\ Head(queue) \in Command /\ Head(queue).command = "attach"
        /\ queue' = Tail(queue) /\ queue' \in Seq(Command) /\ queue' \in Seq(Started')
    BY <1>8, <1>q, QueueTypes DEF HandleAttach
  <2>2. session' = Head(queue).conn /\ shown' = Head(queue).bridge
        /\ UNCHANGED <<revoking, revokes, restarts, overtook>>
    BY <1>8 DEF HandleAttach
  <2>3. Head(queue).bridge \in Bridge /\ Head(queue).conn \in Conn
        /\ conn'[Head(queue).conn].stage # "idle" /\ conn'[Head(queue).conn].bridge = Head(queue).bridge
    BY <2>1 DEF Started, Command
  <2> QED
    BY <2>1, <2>2, <2>3
<1>9. CASE HandleDetach
  <2>1. queue' = Tail(queue) /\ queue' \in Seq(Command) /\ queue' \in Seq(Started')
    BY <1>9, <1>q, QueueTypes DEF HandleDetach
  <2>2. session' \in {session, None} /\ UNCHANGED <<shown, revoking, revokes, restarts, overtook>>
    BY <1>9 DEF HandleDetach
  <2> QED
    BY <1>s, <2>1, <2>2 DEF StaysStarted
<1>10. CASE SessionEnds
  BY <1>s, <1>q, <1>10 DEF SessionEnds
<1>11. CASE Restart
  BY <1>11, EmptyQueue DEF Restart
<1>12. CASE UNCHANGED vars
  BY <1>s, <1>q, <1>12 DEF vars, StaysStarted
<1> QED
  BY <1>1, <1>2, <1>3, <1>4, <1>5, <1>6, <1>7, <1>8, <1>9, <1>10, <1>11, <1>12 DEF Next

\* The initial states.
LEMMA InitTyped == Init => TypeInv
<1> SUFFICES ASSUME Init PROVE TypeInv
  OBVIOUS
<1>1. NoRow \in Rows /\ NoConn \in Conns /\ NoConn.stage = "idle" /\ NoConn.revision = 0
  BY DEF Rows, Conns, NoRow, NoConn, Stages
<1>2. [claim |-> None, token |-> None, conn |-> None] \in Atoms
  BY DEF Atoms
<1>3. RowsOK /\ ConnsOK
  BY <1>1, <1>2 DEF Init, RowsOK, ConnsOK
<1>4. Bound
  BY <1>1 DEF Init, Bound
<1> QED
  BY <1>3, <1>4, EmptyQueue DEF Init, TypeInv, QueueOK, Named

\* TypeInv is an invariant.
LEMMA Typed == Spec => []TypeInv
<1>1. TypeInv /\ [Next]_vars => TypeInv'
  BY RowsStep, ConnsStep, BoundStep, QueueStep DEF TypeInv
<1> QED
  BY InitTyped, <1>1, PTL DEF Spec

\* Every reachable state has the declared types: rows, claims, Atoms, connections, the
\* queue of the worker and its session.
THEOREM TypeCorrect == Spec => []TypeOK
<1>1. TypeInv => TypeOK
  BY Parts DEF TypeInv
<1> QED
  BY <1>1, Typed, PTL

-----------------------------------------------------------------------------
(* Claims and device tokens.                                               *)


\* What the NVS of an Atom holds.
Held(b) == {atom[b].claim, atom[b].token}

\* A token is stored only once its claim is consumed.
Consumed == \A b \in Bridge : row[b].token # None => claim[row[b].token] = "consumed"

\* The token replaces the claim.
Exclusive == \A b \in Bridge : atom[b].token # None => atom[b].claim = None

\* A claim that is being presented is still the Atom's, or has become its token.
Presented ==
  \A c \in Conn : conn[c].stage = "hello" /\ conn[c].kind = "claim" =>
    conn[c].secret \in Held(conn[c].bridge)

\* A claim that was redeemed, for an Atom that waits for the answer, is what the
\* service stores for it.
Awaited ==
  \A c \in Conn :
    conn[c].stage = "accepted" /\ conn[c].kind = "claim" /\ Listening(conn[c].bridge, c) =>
      conn[c].secret \in Held(conn[c].bridge) /\ row[conn[c].bridge].token = conn[c].secret

TokenInv ==
  /\ ClaimEnrolsOne /\ TokenAgreement
  /\ Consumed /\ Exclusive /\ Presented /\ Awaited

\* The steps that touch no token, claim or handshake.
Quiet ==
  /\ UNCHANGED atom
  /\ \A b \in Bridge : row'[b].token = row[b].token
  /\ \A k \in Claim : claim[k] = "consumed" => claim'[k] = "consumed"
  /\ \A c \in Conn : conn'[c].stage \in {"hello", "accepted"} => conn'[c] = conn[c]

\* What touches neither tokens nor pending proofs preserves the invariant of the tokens.
LEMMA QuietKeeps ==
  ASSUME TypeInv, TokenInv, Quiet
  PROVE  TokenInv'
<1> USE DEF Quiet
<1>1. \A b \in Bridge : row[b].token \in Claim \cup {None}
  BY DEF TypeInv, RowsOK, Rows
<1>2. ClaimEnrolsOne' /\ TokenAgreement' /\ Consumed' /\ Exclusive'
  BY <1>1 DEF TokenInv, ClaimEnrolsOne, TokenAgreement, Consumed, Exclusive
<1>3. \A c \in Conn : conn'[c].stage \in {"hello", "accepted"} => conn'[c].bridge \in Bridge
  BY DEF TypeInv, Bound
<1>4. Presented' /\ Awaited'
  BY <1>3 DEF TokenInv, Presented, Awaited, Held, Listening
<1> QED
  BY <1>2, <1>4 DEF TokenInv

\* A claim is being presented: it is the Atom's claim, unless it is its token.
LEMMA WhoseClaim ==
  ASSUME TypeInv, TokenInv, NEW b \in Bridge, NEW k \in Claim, k \in Held(b)
  PROVE  atom[b].token \in {None, k}
  BY BridgeSessionsAssumption DEF TokenInv, Exclusive, Held

\* A claim is redeemed.
LEMMA RedeemedStep ==
  ASSUME TypeInv, TokenInv, NEW c \in Conn, Authenticate(c), Redeemable(c)
  PROVE  TokenInv'
<1> DEFINE b == conn[c].bridge
           k == conn[c].secret
<1>1. /\ b \in Bridge /\ k \in Claim /\ conn[c].stage = "hello" /\ conn[c].kind = "claim"
      /\ claim[k] = "open" /\ row[b] \in Rows /\ row[b].revision + 1 \in Nat
  BY Authenticated, RowTypes DEF Redeemable, TypeInv, RowsOK
<1>2. ~Recognised(c)
  BY <1>1 DEF Recognised
<1>3. /\ UNCHANGED atom
      /\ claim' = [claim EXCEPT ![k] = "consumed"]
      /\ row' = [row EXCEPT ![b] = [known |-> TRUE, token |-> k, revoked |-> FALSE,
                                    state |-> "connected", revision |-> row[b].revision + 1]]
  BY <1>2 DEF Authenticate
<1>4. /\ row'[b].token = k /\ \A a \in Bridge \ {b} : row'[a] = row[a]
      /\ claim'[k] = "consumed" /\ \A l \in Claim \ {k} : claim'[l] = claim[l]
  BY <1>1, <1>3 DEF TypeInv, RowsOK
<1>5. /\ conn'[c].bridge = b /\ conn'[c].secret = k /\ conn'[c].kind = "claim"
      /\ conn'[c].stage \in {"accepted", "closed"}
      /\ \A d \in Conn \ {c} : conn'[d] = conn[d]
  BY <1>1, Authenticated DEF TypeInv, ConnsOK
<1>6. k \in Held(b)
  BY <1>1 DEF TokenInv, Presented
<1> HIDE DEF b, k
<1>7. \A a \in Bridge : row[a].token # k /\ row[a].token \in Claim \cup {None}
  BY <1>1, BridgeSessionsAssumption DEF TokenInv, Consumed, TypeInv, RowsOK, Rows
<1>8. ClaimEnrolsOne'
  BY <1>1, <1>4, <1>7 DEF TokenInv, ClaimEnrolsOne
<1>9. Consumed'
  BY <1>1, <1>4, <1>7 DEF TokenInv, Consumed
<1>10. TokenAgreement'
  BY <1>1, <1>3, <1>4, <1>6, WhoseClaim DEF TokenInv, TokenAgreement
<1>11. Exclusive' /\ Presented'
  BY <1>3, <1>5 DEF TokenInv, Exclusive, Presented, Held
<1>12. Awaited'
  <2> SUFFICES ASSUME NEW d \in Conn, (conn[d].stage = "accepted" /\ conn[d].kind = "claim")',
                      Listening(conn[d].bridge, d)'
               PROVE  (conn[d].secret \in Held(conn[d].bridge)
                       /\ row[conn[d].bridge].token = conn[d].secret)'
    BY DEF Awaited
  <2>1. CASE d = c
    BY <1>3, <1>4, <1>5, <1>6, <2>1 DEF Held
  <2>2. CASE d # c
    <3>1. /\ conn'[d] = conn[d] /\ conn[d].bridge \in Bridge /\ conn[d].secret \in Claim
          /\ conn[d].secret \in Held(conn[d].bridge) /\ row[conn[d].bridge].token = conn[d].secret
      BY <1>3, <1>5, <2>2 DEF TokenInv, Awaited, Listening, TypeInv, Bound
    <3>2. conn[d].bridge # b
      <4>1. ASSUME conn[d].bridge = b PROVE FALSE
        <5>1. conn[d].secret # k
          BY <1>1, <1>7, <3>1, <4>1
        <5>2. atom[b].token \in {None, k} /\ atom[b].token \in {None, conn[d].secret}
          BY <1>1, <1>6, <3>1, <4>1, WhoseClaim
        <5>3. atom[b].token = None
          BY <5>1, <5>2
        <5>4. k = atom[b].claim /\ conn[d].secret = atom[b].claim
          BY <1>1, <1>6, <3>1, <4>1, <5>3, BridgeSessionsAssumption DEF Held
        <5> QED
          BY <5>1, <5>4
      <4> QED
        BY <4>1
    <3> QED
      BY <1>3, <1>4, <3>1, <3>2 DEF Held
  <2> QED
    BY <2>1, <2>2
<1> QED
  BY <1>8, <1>9, <1>10, <1>11, <1>12 DEF TokenInv

\* A device token is recognised, or nothing is.
LEMMA OtherwiseStep ==
  ASSUME TypeInv, TokenInv, NEW c \in Conn, Authenticate(c), ~Redeemable(c)
  PROVE  TokenInv'
<1> DEFINE b == conn[c].bridge
<1>1. b \in Bridge /\ row[b] \in Rows /\ row[b].revision + 1 \in Nat
  BY Authenticated, RowTypes DEF TypeInv, RowsOK
<1>2. UNCHANGED <<atom, claim>>
  BY DEF Authenticate
<1>3. \A a \in Bridge : row'[a].token = row[a].token
  <2>1. \/ row' = row
        \/ row' = [row EXCEPT ![b] = [row[b] EXCEPT !.state = "connected",
                                                    !.revision = row[b].revision + 1]]
    BY DEF Authenticate
  <2>2. [row[b] EXCEPT !.state = "connected", !.revision = row[b].revision + 1].token
          = row[b].token
    BY <1>1 DEF Rows
  <2> QED
    BY <1>1, <2>1, <2>2 DEF TypeInv, RowsOK
<1>4. /\ conn'[c].kind = conn[c].kind /\ conn'[c].stage \in {"accepted", "closed"}
      /\ \A d \in Conn \ {c} : conn'[d] = conn[d]
  BY Authenticated DEF TypeInv, ConnsOK
<1>5. conn'[c].stage = "accepted" => conn'[c].kind # "claim"
  <2>1. CASE Recognised(c)
    BY <1>4, <2>1 DEF Recognised
  <2>2. CASE ~Recognised(c)
    <3>1. conn' = [conn EXCEPT ![c] = [conn[c] EXCEPT !.stage = "closed"]] /\ conn[c] \in Conns
      BY <2>2 DEF Authenticate, TypeInv, ConnsOK
    <3> QED
      BY <3>1, Staged DEF Stages, TypeInv, ConnsOK
  <2> QED
    BY <2>1, <2>2
<1>6. ClaimEnrolsOne' /\ TokenAgreement' /\ Consumed' /\ Exclusive'
  BY <1>2, <1>3 DEF TokenInv, ClaimEnrolsOne, TokenAgreement, Consumed, Exclusive
<1>7. Presented'
  BY <1>2, <1>4 DEF TokenInv, Presented, Held
<1>8. Awaited'
  <2>1. \A d \in Conn : conn'[d].stage = "accepted" => conn'[d].bridge \in Bridge
    BY <1>1, <1>4, Authenticated DEF TypeInv, Bound
  <2> QED
    BY <1>2, <1>3, <1>4, <1>5, <2>1 DEF TokenInv, Awaited, Held, Listening
<1> QED
  BY <1>6, <1>7, <1>8 DEF TokenInv

\* An Atom is configured.
LEMMA ConfigureStep ==
  ASSUME TypeInv, TokenInv, NEW b \in Bridge, NEW k \in Claim, Configure(b, k)
  PROVE  TokenInv'
<1>1. /\ atom' = [atom EXCEPT ![b] = [claim |-> k, token |-> None, conn |-> None]]
      /\ UNCHANGED <<row, claim>>
  BY DEF Configure
<1>2. /\ atom'[b].token = None /\ atom'[b].conn = None /\ \A a \in Bridge \ {b} : atom'[a] = atom[a]
  BY <1>1 DEF TypeInv, ConnsOK
<1>3. \A c \in Conn : \/ conn'[c] = conn[c] /\ ~(conn[c].stage = "hello" /\ conn[c].bridge = b)
                      \/ conn'[c].stage = "closed"
  <2> TAKE c \in Conn
  <2>1. conn[c] \in Conns /\ "closed" \in Stages
    BY DEF TypeInv, ConnsOK, Stages
  <2>2. CASE conn[c].bridge = b /\ conn[c].stage = "hello"
    BY <2>1, <2>2, Staged DEF Configure
  <2>3. CASE ~(conn[c].bridge = b /\ conn[c].stage = "hello")
    BY <2>3 DEF Configure
  <2> QED
    BY <2>2, <2>3
<1>4. ClaimEnrolsOne' /\ TokenAgreement' /\ Consumed' /\ Exclusive'
  BY <1>1, <1>2 DEF TokenInv, ClaimEnrolsOne, TokenAgreement, Consumed, Exclusive
<1>5. \A c \in Conn : conn[c].stage \in {"hello", "accepted"} => conn[c].bridge \in Bridge
  BY DEF TypeInv, Bound
<1>6. Presented' /\ Awaited'
  BY <1>1, <1>2, <1>3, <1>5, BridgeSessionsAssumption
     DEF TokenInv, Presented, Awaited, Held, Listening
<1> QED
  BY <1>4, <1>6 DEF TokenInv

\* An Atom opens a connection.
LEMMA HelloStep ==
  ASSUME TypeInv, TokenInv, NEW c \in Conn, NEW b \in Bridge, Hello(c, b)
  PROVE  TokenInv'
<1>1. atom' = [atom EXCEPT ![b] = [atom[b] EXCEPT !.conn = c]] /\ UNCHANGED <<row, claim>>
      /\ atom[b] \in Atoms
  BY DEF Hello, TypeInv, ConnsOK
<1>2. /\ \A a \in Bridge : atom'[a].token = atom[a].token /\ atom'[a].claim = atom[a].claim
      /\ \A a \in Bridge : atom'[a].conn \in {atom[a].conn, c}
  BY <1>1 DEF Atoms, TypeInv, ConnsOK
<1>3. /\ conn'[c].stage = "hello" /\ conn'[c].bridge = b
      /\ conn'[c].kind = "claim" => conn'[c].secret = atom[b].claim
      /\ \A d \in Conn \ {c} : conn'[d] = conn[d]
  BY SaidHello DEF TypeInv, ConnsOK
<1>4. \A d \in Conn : conn[d].stage \in {"hello", "accepted"} => conn[d].bridge \in Bridge
  BY DEF TypeInv, Bound
<1>5. ClaimEnrolsOne' /\ TokenAgreement' /\ Consumed' /\ Exclusive'
  BY <1>1, <1>2 DEF TokenInv, ClaimEnrolsOne, TokenAgreement, Consumed, Exclusive
<1>6. Presented'
  BY <1>2, <1>3, <1>4 DEF TokenInv, Presented, Held
<1>7. Awaited'
  BY <1>1, <1>2, <1>3, <1>4 DEF TokenInv, Awaited, Held, Listening
<1> QED
  BY <1>5, <1>6, <1>7 DEF TokenInv

\* The answer reaches an Atom that waits for it.
LEMMA ReceivedStep ==
  ASSUME TypeInv, TokenInv, NEW c \in Conn, conn[c].stage = "accepted",
         conn[c].kind = "claim", Listening(conn[c].bridge, c),
         UNCHANGED <<row, claim>>,
         atom' = [atom EXCEPT ![conn[c].bridge] =
                    [atom[conn[c].bridge] EXCEPT !.claim = None, !.token = conn[c].secret]],
         \A d \in Conn : conn'[d] = conn[d] \/ conn'[d].stage = "responded"
  PROVE  TokenInv'
<1> DEFINE b == conn[c].bridge
           k == conn[c].secret
<1>1. b \in Bridge /\ k \in Claim /\ k \in Held(b) /\ row[b].token = k /\ atom[b] \in Atoms
  BY DEF TypeInv, Bound, TokenInv, Awaited, ConnsOK
<1>2. /\ atom'[b].claim = None /\ atom'[b].token = k /\ atom'[b].conn = atom[b].conn
      /\ \A a \in Bridge \ {b} : atom'[a] = atom[a]
  BY <1>1 DEF Atoms, TypeInv, ConnsOK
<1> HIDE DEF b, k
<1>3. ClaimEnrolsOne' /\ Consumed' /\ Exclusive'
  BY <1>1, <1>2 DEF TokenInv, ClaimEnrolsOne, Consumed, Exclusive
<1>4. TokenAgreement'
  BY <1>1, <1>2 DEF TokenInv, TokenAgreement
<1>5. \A l \in Claim : l \in Held(b) => l = k
  BY <1>1, WhoseClaim, BridgeSessionsAssumption DEF Held
<1>6. \A d \in Conn : conn[d].stage \in {"hello", "accepted"} =>
        conn[d].bridge \in Bridge /\ conn[d].secret \in Claim
  BY DEF TypeInv, Bound
<1>7. \A a \in Bridge, l \in Claim : l \in Held(a) => l \in Held(a)'
  <2> TAKE a \in Bridge, l \in Claim
  <2>1. CASE a = b
    BY <1>2, <1>5, <2>1 DEF Held
  <2>2. CASE a # b
    BY <1>2, <2>2 DEF Held
  <2> QED
    BY <2>1, <2>2
<1>8. Presented'
  BY <1>6, <1>7 DEF TokenInv, Presented
<1>9. \A a \in Bridge : atom'[a].conn = atom[a].conn
  BY <1>2
<1>10. Awaited'
  BY <1>6, <1>7, <1>9 DEF TokenInv, Awaited, Listening
<1> QED
  BY <1>3, <1>4, <1>8, <1>10 DEF TokenInv

\* Every step keeps the invariant.
LEMMA TokenStep ==
  ASSUME TypeInv, TokenInv, [Next]_vars
  PROVE  TokenInv'
<1>s. /\ conn \in [Conn -> Conns] /\ row \in [Bridge -> Rows]
      /\ session \in Conn \cup {None} /\ (session # None => conn[session].stage # "idle")
  BY DEF TypeInv, ConnsOK, RowsOK, QueueOK, Named
<1>1. ASSUME NEW k \in Claim, CreateClaim(k) \/ Expire(k) PROVE TokenInv'
  <2>1. Quiet
    BY <1>1 DEF CreateClaim, Expire, Quiet, TypeInv, RowsOK
  <2> QED
    BY <2>1, QuietKeeps
<1>2. ASSUME NEW b \in Bridge, RevokeRow(b) \/ RevokeDetach(b) PROVE TokenInv'
  <2>1. /\ row[b].revision + 1 \in Nat /\ Offline(row[b]) \in Rows
    BY <1>s, RowTypes
  <2>2. Offline(row[b]).token = row[b].token
    BY <1>s DEF Offline, Rows
  <2>3. [Offline(row[b]) EXCEPT !.revoked = TRUE].token = row[b].token
    BY <2>1, <2>2 DEF Rows
  <2>4. Quiet
    BY <1>s, <1>2, <2>3 DEF RevokeRow, RevokeDetach, Quiet
  <2> QED
    BY <2>4, QuietKeeps
<1>3. ASSUME NEW c \in Conn, RespondFails(c) \/ Attach(c) \/ HandleAttach \/ HandleDetach
                             \/ SessionEnds \/ Restart
      PROVE TokenInv'
  <2>1. OnlyStages
    BY <1>s, <1>3, StagesMove
  <2>2. \A d \in Conn : conn'[d].stage \in {"hello", "accepted"} => conn'[d] = conn[d]
    BY <1>s, <2>1, OnlyStagesKeeps
  <2>3. UNCHANGED <<atom, claim>> /\ row' \in {row, Dropped(session)}
    BY <1>3 DEF RespondFails, Attach, HandleAttach, HandleDetach, SessionEnds, Restart
  <2>4. \A b \in Bridge : row'[b].token = row[b].token
    BY <1>s, <2>3, DroppedKeeps
  <2>5. Quiet
    BY <2>2, <2>3, <2>4 DEF Quiet
  <2> QED
    BY <2>5, QuietKeeps
<1>4. ASSUME NEW c \in Conn, Respond(c) PROVE TokenInv'
  <2>1. \A d \in Conn : conn'[d] = conn[d] \/ conn'[d].stage = "responded"
    <3>1. conn' = [conn EXCEPT ![c] = [conn[c] EXCEPT !.stage = "responded"]]
          /\ "responded" \in Stages
      BY <1>4 DEF Respond, Stages
    <3> QED
      BY <1>s, <3>1, Staged
  <2>2. \/ atom' = atom
        \/ /\ conn[c].kind = "claim" /\ Listening(conn[c].bridge, c)
           /\ atom' = [atom EXCEPT ![conn[c].bridge] =
                        [atom[conn[c].bridge] EXCEPT !.claim = None, !.token = conn[c].secret]]
    BY <1>4 DEF Respond
  <2>3. UNCHANGED <<row, claim>> /\ conn[c].stage = "accepted"
    BY <1>4 DEF Respond
  <2>4. CASE atom' = atom
    BY <2>1, <2>3, <2>4, QuietKeeps DEF Quiet
  <2> QED
    BY <2>1, <2>2, <2>3, <2>4, ReceivedStep
<1>5. ASSUME NEW c \in Conn, Authenticate(c) PROVE TokenInv'
  BY <1>5, RedeemedStep, OtherwiseStep
<1>6. CASE UNCHANGED vars
  BY <1>6, QuietKeeps DEF vars, Quiet
<1>7. ASSUME NEW c \in Conn PROVE TokenInv'
  BY <1>1, <1>2, <1>3, <1>4, <1>5, <1>6, <1>7, ConfigureStep, HelloStep DEF Next
<1>8. CASE Conn = {}
  <2>1. CASE HandleAttach \/ HandleDetach \/ SessionEnds \/ Restart
    <3>1. UNCHANGED <<atom, claim>> /\ row' \in {row, Dropped(session)}
      BY <2>1 DEF HandleAttach, HandleDetach, SessionEnds, Restart
    <3>2. \A b \in Bridge : row'[b].token = row[b].token
      BY <1>s, <3>1, DroppedKeeps
    <3> QED
      BY <1>8, <3>1, <3>2, QuietKeeps DEF Quiet
  <2> QED
    BY <1>1, <1>2, <1>6, <1>8, <2>1, ConfigureStep DEF Next
<1> QED
  BY <1>7, <1>8

\* Init, and the invariant.
LEMMA TokensInvariant == Spec => []TokenInv
<1>1. Init => TokenInv
  BY BridgeSessionsAssumption
     DEF Init, NoRow, NoConn, TokenInv, ClaimEnrolsOne, TokenAgreement, Consumed,
         Exclusive, Presented, Awaited
<1>2. TypeInv /\ TokenInv /\ [Next]_vars => TokenInv'
  BY TokenStep
<1> QED
  BY <1>1, <1>2, Typed, PTL DEF Spec

\* A claim enrols one bridge, whatever Atoms and connections present it (authenticate).
THEOREM EnrolsOne == Spec => []ClaimEnrolsOne
<1>1. TokenInv => ClaimEnrolsOne
  BY DEF TokenInv
<1> QED
  BY <1>1, TokensInvariant, PTL

\* An Atom's device token is the one the service stores for it, whatever answers were
\* lost or late (persist_device_token, websocket_session).
THEOREM TokensAgree == Spec => []TokenAgreement
<1>1. TokenInv => TokenAgreement
  BY DEF TokenInv
<1> QED
  BY <1>1, TokensInvariant, PTL

-----------------------------------------------------------------------------
(* Revocation.                                                             *)

\* A revoked bridge's connection on its way to the worker: the detach command is still
\* to be sent, or was sent before its attach command.
Overtaking(c, b) == row[b].revoked => b \in revoking \/ c \in overtook

Handshakes ==
  \A c \in Conn : conn[c].stage \in {"accepted", "responded"} => Overtaking(c, conn[c].bridge)

\* Or it follows the attach command in the queue.
Detaches(i, b) == queue[i].command = "detach" /\ queue[i].bridge = b

Queued ==
  \A i \in 1 .. Len(queue) : queue[i].command = "attach" =>
    \/ Overtaking(queue[i].conn, queue[i].bridge)
    \/ \E j \in i + 1 .. Len(queue) : Detaches(j, queue[i].bridge)

RevokedInv == RevokedIsDetached /\ Handshakes /\ Queued

\* The elements of a queue that is added to, or taken from.
LEMMA AppendAt ==
  ASSUME NEW S, NEW q \in Seq(S), NEW m \in S
  PROVE  /\ Len(Append(q, m)) = Len(q) + 1 /\ Len(q) \in Nat
         /\ \A i \in 1 .. Len(q) : Append(q, m)[i] = q[i]
         /\ Append(q, m)[Len(q) + 1] = m
  OBVIOUS

\* What a queue's tail holds, place by place.
LEMMA TailAt ==
  ASSUME NEW S, NEW q \in Seq(S), q # << >>
  PROVE  /\ Len(Tail(q)) = Len(q) - 1 /\ Len(q) \in Nat \ {0} /\ Head(q) = q[1]
         /\ \A i \in 1 .. Len(q) - 1 : Tail(q)[i] = q[i + 1]
  OBVIOUS

\* Each command is about a bridge.
LEMMA QueueBridges ==
  ASSUME TypeInv
  PROVE  \A i \in 1 .. Len(queue) : queue[i].bridge \in Bridge
<1>1. \A S : \A q \in Seq(S) : \A i \in 1 .. Len(q) : q[i] \in S
  OBVIOUS
<1>2. \A i \in 1 .. Len(queue) : queue[i] \in Command
  BY <1>1 DEF TypeInv, QueueOK
<1> QED
  BY <1>2 DEF Command

\* The steps that leave the queue and the session, revoke nothing and make nothing of
\* the history go away.
Steady ==
  /\ UNCHANGED <<queue, session>>
  /\ revoking \subseteq revoking' /\ overtook \subseteq overtook'
  /\ \A b \in Bridge : row'[b].revoked => row[b].revoked \/ b \in revoking'

\* What held of the queue and the session still does.
LEMMA SteadyKeeps ==
  ASSUME TypeInv, RevokedInv, StaysStarted, Steady
  PROVE  RevokedIsDetached' /\ Queued'
<1> USE DEF Steady
<1>1. session \in Conn \cup {None} /\ (session # None => conn[session].stage # "idle")
  BY DEF TypeInv, QueueOK, Named
<1>2. session # None => conn[session].bridge \in Bridge /\ conn'[session].bridge = conn[session].bridge
  BY <1>1, BridgeSessionsAssumption DEF TypeInv, Bound, StaysStarted
<1>3. RevokedIsDetached'
  BY <1>1, <1>2 DEF RevokedInv, RevokedIsDetached, DetachPending
<1>5. Queued'
  BY QueueBridges DEF RevokedInv, Queued, Overtaking, Detaches
<1> QED
  BY <1>3, <1>5

\* The steps that leave a row's revocation, what is being revoked and the history.
Settled ==
  /\ UNCHANGED <<revoking, overtook>>
  /\ \A b \in Bridge : row'[b].revoked => row[b].revoked

\* A connection in its handshake was in it, or has just been accepted.
LEMMA HandshakesKeep ==
  ASSUME TypeInv, RevokedInv, Settled,
         \A c \in Conn : conn'[c].stage \in {"accepted", "responded"} =>
           \/ ~row'[conn'[c].bridge].revoked
           \/ /\ conn[c].stage \in {"accepted", "responded"}
              /\ conn'[c].bridge = conn[c].bridge
  PROVE  Handshakes'
  BY DEF TypeInv, Bound, RevokedInv, Handshakes, Overtaking, Settled

\* Each handler that only moves stages.
LEMMA StagesSettle ==
  ASSUME TypeInv, OnlyStages
  PROVE  \A c \in Conn : conn'[c].stage \in {"accepted", "responded"} =>
           /\ conn[c].stage \in {"accepted", "responded"}
           /\ conn'[c].bridge = conn[c].bridge
  BY OnlyStagesKeeps DEF TypeInv, ConnsOK

\* A connection authenticates only for a bridge that is not revoked.
LEMMA AuthenticateRevoked ==
  ASSUME TypeInv, RevokedInv, NEW c \in Conn, Authenticate(c)
  PROVE  Settled /\ Handshakes'
<1> DEFINE b == conn[c].bridge
<1>1. b \in Bridge /\ row[b] \in Rows /\ row[b].revision + 1 \in Nat
  BY Authenticated, RowTypes DEF TypeInv, RowsOK
<1>2. \A r \in Rows, n \in Nat :
        [r EXCEPT !.state = "connected", !.revision = n].revoked = r.revoked
  BY DEF Rows
<1>3. /\ \A a \in Bridge : row'[a].revoked => row[a].revoked
      /\ conn'[c].stage = "accepted" => ~row'[b].revoked
  <2>1. CASE Redeemable(c)
    <3>1. row' = [row EXCEPT ![b] = [known |-> TRUE, token |-> conn[c].secret, revoked |-> FALSE,
                                     state |-> "connected", revision |-> row[b].revision + 1]]
      BY <2>1 DEF Authenticate, Redeemable, Recognised
    <3> QED
      BY <1>1, <3>1 DEF TypeInv, RowsOK
  <2>2. CASE Recognised(c)
    <3>1. row' = [row EXCEPT ![b] = [row[b] EXCEPT !.state = "connected",
                                                   !.revision = row[b].revision + 1]]
      BY <2>2 DEF Authenticate, Redeemable, Recognised
    <3>2. row'[b].revoked = row[b].revoked /\ \A a \in Bridge \ {b} : row'[a] = row[a]
      BY <1>1, <1>2, <3>1 DEF TypeInv, RowsOK
    <3> QED
      BY <2>2, <3>2 DEF Recognised
  <2>3. CASE ~Redeemable(c) /\ ~Recognised(c)
    <3>1. row' = row /\ conn' = [conn EXCEPT ![c] = [conn[c] EXCEPT !.stage = "closed"]]
          /\ conn[c] \in Conns
      BY <2>3 DEF Authenticate, TypeInv, ConnsOK
    <3> QED
      BY <3>1, Staged DEF Stages, TypeInv, ConnsOK
  <2> QED
    BY <2>1, <2>2, <2>3
<1>4. Settled
  BY <1>3 DEF Settled, Authenticate
<1>5. conn'[c].bridge = b /\ conn'[c].stage \in {"accepted", "closed"}
      /\ \A d \in Conn \ {c} : conn'[d] = conn[d]
  BY Authenticated DEF TypeInv, ConnsOK
<1> QED
  BY <1>3, <1>4, <1>5, HandshakesKeep

\* The operator revokes: the row.
LEMMA RevokeRowStep ==
  ASSUME TypeInv, RevokedInv, StaysStarted, NEW b \in Bridge, RevokeRow(b)
  PROVE  RevokedInv'
<1>1. /\ revoking' = revoking \cup {b} /\ UNCHANGED <<conn, queue, session, overtook>>
      /\ row' = [row EXCEPT ![b] = [Offline(row[b]) EXCEPT !.revoked = TRUE]]
  BY DEF RevokeRow
<1>2. \A a \in Bridge \ {b} : row'[a] = row[a]
  BY <1>1 DEF TypeInv, RowsOK
<1>3. Steady
  BY <1>1, <1>2 DEF Steady
<1>4. Handshakes'
  BY <1>1, <1>2 DEF RevokedInv, Handshakes, Overtaking, TypeInv, Bound
<1> QED
  BY <1>3, <1>4, SteadyKeeps DEF RevokedInv

\* Then the command.
LEMMA RevokeDetachStep ==
  ASSUME TypeInv, RevokedInv, NEW b \in Bridge, RevokeDetach(b)
  PROVE  RevokedInv'
<1> DEFINE m == [command |-> "detach", conn |-> None, bridge |-> b]
<1>n. PICK n : n = Len(queue) + 1
  OBVIOUS
<1>1. /\ revoking' = revoking \ {b} /\ overtook' = overtook \cup InHandshake(b)
      /\ queue' = Append(queue, m) /\ UNCHANGED <<row, conn, session>>
  BY DEF RevokeDetach
<1>2. m \in Command /\ m.command = "detach" /\ m.bridge = b
  BY DEF Command
<1> HIDE DEF m
<1>3. /\ Len(queue') = n /\ n \in Nat /\ Len(queue) \in Nat
      /\ \A i \in 1 .. Len(queue) : queue'[i] = queue[i]
      /\ queue'[n] = m
  BY <1>n, <1>1, <1>2, AppendAt DEF TypeInv, QueueOK
<1>4. Detaches(n, b)'
  BY <1>2, <1>3 DEF Detaches
<1>5. RevokedIsDetached'
  <2>1. DetachPending(b)'
    BY <1>n, <1>3, <1>4 DEF DetachPending, Detaches
  <2>2. \A a : DetachPending(a) /\ a # b => DetachPending(a)'
    BY <1>1, <1>3 DEF DetachPending
  <2> QED
    BY <1>1, <2>1, <2>2 DEF RevokedInv, RevokedIsDetached
<1>6. Handshakes'
  BY <1>1 DEF RevokedInv, Handshakes, Overtaking, InHandshake
<1>7. Queued'
  <2> SUFFICES ASSUME NEW i \in 1 .. Len(queue'), queue'[i].command = "attach"
               PROVE  \/ Overtaking(queue[i].conn, queue[i].bridge)'
                      \/ \E j \in i + 1 .. Len(queue') : Detaches(j, queue[i].bridge)'
    BY DEF Queued
  <2>1. i \in 1 .. Len(queue) /\ queue'[i] = queue[i] /\ i # n
    BY <1>n, <1>2, <1>3
  <2>2. CASE queue[i].bridge = b
    <3>1. n \in i + 1 .. Len(queue')
      BY <1>n, <1>3, <2>1
    <3>2. Detaches(n, queue[i].bridge)'
      BY <1>4, <2>1, <2>2 DEF Detaches
    <3> QED
      BY <3>1, <3>2
  <2>3. CASE queue[i].bridge # b /\ Overtaking(queue[i].conn, queue[i].bridge)
    BY <1>1, <2>1, <2>3 DEF Overtaking
  <2>4. ASSUME NEW j \in i + 1 .. Len(queue), Detaches(j, queue[i].bridge)
        PROVE  \E l \in i + 1 .. Len(queue') : Detaches(l, queue[i].bridge)'
    <3>1. j \in 1 .. Len(queue) /\ j \in i + 1 .. Len(queue')
      BY <1>n, <1>3, <2>1, <2>4
    <3>2. Detaches(j, queue[i].bridge)'
      BY <1>3, <2>1, <2>4, <3>1 DEF Detaches
    <3> QED
      BY <3>1, <3>2
  <2> QED
    BY <2>1, <2>2, <2>3, <2>4 DEF RevokedInv, Queued
<1> QED
  BY <1>5, <1>6, <1>7 DEF RevokedInv

\* A connection is handed to the worker.
LEMMA AttachStep ==
  ASSUME TypeInv, RevokedInv, StaysStarted, NEW c \in Conn, Attach(c)
  PROVE  RevokedInv'
<1> DEFINE m == [command |-> "attach", conn |-> c, bridge |-> conn[c].bridge]
<1>n. PICK n : n = Len(queue) + 1
  OBVIOUS
<1>1. /\ queue' = Append(queue, m) /\ conn[c].stage = "responded"
      /\ UNCHANGED <<row, session, revoking, overtook>>
  BY DEF Attach
<1>2. conn[c].bridge \in Bridge
  BY <1>1 DEF TypeInv, Bound
<1>3. m \in Command /\ m.command = "attach" /\ m.bridge = conn[c].bridge /\ m.conn = c
  BY <1>2 DEF Command
<1> HIDE DEF m
<1>4. /\ Len(queue') = n /\ n \in Nat /\ Len(queue) \in Nat
      /\ \A i \in 1 .. Len(queue) : queue'[i] = queue[i]
      /\ queue'[n] = m
  BY <1>n, <1>1, <1>3, AppendAt DEF TypeInv, QueueOK
<1>5. OnlyStages
  BY StagesMove DEF TypeInv, ConnsOK, QueueOK, Named
<1>6. Handshakes'
  BY <1>1, <1>5, StagesSettle, HandshakesKeep DEF Settled
<1>7. RevokedIsDetached'
  <2>1. \A a : DetachPending(a) => DetachPending(a)'
    BY <1>1, <1>4 DEF DetachPending
  <2>2. session # None => conn'[session].bridge = conn[session].bridge
    BY DEF TypeInv, QueueOK, Named, StaysStarted
  <2> QED
    BY <1>1, <2>1, <2>2 DEF RevokedInv, RevokedIsDetached
<1>8. Overtaking(c, conn[c].bridge)
  BY <1>1 DEF RevokedInv, Handshakes
<1>9. Queued'
  <2> SUFFICES ASSUME NEW i \in 1 .. Len(queue'), queue'[i].command = "attach"
               PROVE  \/ Overtaking(queue[i].conn, queue[i].bridge)'
                      \/ \E j \in i + 1 .. Len(queue') : Detaches(j, queue[i].bridge)'
    BY DEF Queued
  <2>1. CASE i = n
    BY <1>1, <1>3, <1>4, <1>8, <2>1 DEF Overtaking
  <2>2. CASE i # n
    <3>1. i \in 1 .. Len(queue) /\ queue'[i] = queue[i]
      BY <1>n, <1>4, <2>2
    <3>2. CASE Overtaking(queue[i].conn, queue[i].bridge)
      BY <1>1, <3>1, <3>2 DEF Overtaking
    <3>3. ASSUME NEW j \in i + 1 .. Len(queue), Detaches(j, queue[i].bridge)
          PROVE  \E l \in i + 1 .. Len(queue') : Detaches(l, queue[i].bridge)'
      <4>1. j \in 1 .. Len(queue) /\ j \in i + 1 .. Len(queue')
        BY <1>n, <1>4, <3>1, <3>3
      <4>2. Detaches(j, queue[i].bridge)'
        BY <1>4, <3>1, <3>3, <4>1 DEF Detaches
      <4> QED
        BY <4>1, <4>2
    <3> QED
      BY <3>1, <3>2, <3>3 DEF RevokedInv, Queued
  <2> QED
    BY <2>1, <2>2
<1> QED
  BY <1>6, <1>7, <1>9 DEF RevokedInv

\* A command is taken: what is behind the others stays behind them.
LEMMA TakenQueue ==
  ASSUME TypeInv, RevokedInv, queue # << >>, queue' = Tail(queue), Settled,
         \A b \in Bridge : row'[b].revoked = row[b].revoked
  PROVE  Queued'
<1>1. /\ Len(queue') = Len(queue) - 1 /\ Len(queue) \in Nat \ {0}
      /\ \A i \in 1 .. Len(queue) - 1 : queue'[i] = queue[i + 1]
  BY TailAt DEF TypeInv, QueueOK
<1> SUFFICES ASSUME NEW i \in 1 .. Len(queue'), queue'[i].command = "attach"
             PROVE  \/ Overtaking(queue[i].conn, queue[i].bridge)'
                    \/ \E j \in i + 1 .. Len(queue') : Detaches(j, queue[i].bridge)'
  BY DEF Queued
<1>2. i + 1 \in 1 .. Len(queue) /\ queue'[i] = queue[i + 1] /\ queue[i + 1].bridge \in Bridge
  BY <1>1, QueueBridges
<1>3. CASE Overtaking(queue[i + 1].conn, queue[i + 1].bridge)
  BY <1>2, <1>3 DEF Overtaking, Settled
<1>4. ASSUME NEW j \in i + 2 .. Len(queue), Detaches(j, queue[i + 1].bridge)
      PROVE  \E l \in i + 1 .. Len(queue') : Detaches(l, queue[i].bridge)'
  <2>1. j - 1 \in i + 1 .. Len(queue') /\ j - 1 \in 1 .. Len(queue) - 1 /\ (j - 1) + 1 = j
    BY <1>1
  <2>2. Detaches(j - 1, queue[i].bridge)'
    BY <1>1, <1>2, <1>4, <2>1 DEF Detaches
  <2> QED
    BY <2>1, <2>2
<1>5. (i + 1) + 1 = i + 2
  BY <1>1
<1> QED
  BY <1>2, <1>3, <1>4, <1>5 DEF RevokedInv, Queued

\* A detach command ahead of the others is for no other bridge.
LEMMA StillPending ==
  ASSUME TypeInv, queue # << >>, queue' = Tail(queue), UNCHANGED revoking,
         NEW b, DetachPending(b),
         ~(Head(queue).command = "detach" /\ Head(queue).bridge = b)
  PROVE  DetachPending(b)'
<1>1. /\ Len(queue') = Len(queue) - 1 /\ Len(queue) \in Nat \ {0} /\ Head(queue) = queue[1]
      /\ \A i \in 1 .. Len(queue) - 1 : queue'[i] = queue[i + 1]
  BY TailAt DEF TypeInv, QueueOK
<1>2. CASE b \in revoking
  BY <1>2 DEF DetachPending
<1>3. ASSUME NEW i \in 1 .. Len(queue), queue[i].command = "detach", queue[i].bridge = b
      PROVE  DetachPending(b)'
  <2>1. i # 1
    BY <1>1, <1>3
  <2>2. i - 1 \in 1 .. Len(queue') /\ i - 1 \in 1 .. Len(queue) - 1 /\ (i - 1) + 1 = i
    BY <1>1, <2>1
  <2>3. queue'[i - 1] = queue[i]
    BY <1>1, <2>2
  <2> QED
    BY <1>3, <2>2, <2>3 DEF DetachPending
<1> QED
  BY <1>2, <1>3 DEF DetachPending

\* The worker takes a command, or its session ends.
LEMMA WorkerStep ==
  ASSUME TypeInv, RevokedInv, StaysStarted, HandleAttach \/ HandleDetach \/ SessionEnds
  PROVE  RevokedInv'
<1>1. UNCHANGED <<revoking, overtook>> /\ row' \in {row, Dropped(session)}
  BY DEF HandleAttach, HandleDetach, SessionEnds
<1>2. \A b \in Bridge : row'[b].revoked = row[b].revoked
  BY <1>1, DroppedKeeps DEF TypeInv, RowsOK
<1>3. Settled
  BY <1>1, <1>2 DEF Settled
<1>4. session \in Conn \cup {None} /\ (session # None => conn[session].stage # "idle")
  BY DEF TypeInv, QueueOK, Named
<1>5. Handshakes'
  <2>1. CASE Conn = {}
    BY <2>1 DEF Handshakes
  <2>2. CASE Conn # {}
    <3>1. OnlyStages
      BY <1>4, <2>2, StagesMove DEF TypeInv, ConnsOK
    <3> QED
      BY <1>3, <3>1, StagesSettle, HandshakesKeep
  <2> QED
    BY <2>1, <2>2
<1>6. CASE HandleAttach
  <2>1. /\ queue # << >> /\ queue' = Tail(queue) /\ Head(queue).command = "attach"
        /\ session' = Head(queue).conn
    BY <1>6 DEF HandleAttach
  <2>2. Queued'
    BY <1>2, <1>3, <2>1, TakenQueue
  <2>3. /\ Len(queue') = Len(queue) - 1 /\ Len(queue) \in Nat \ {0} /\ Head(queue) = queue[1]
        /\ \A i \in 1 .. Len(queue) - 1 : queue'[i] = queue[i + 1]
    BY <2>1, TailAt DEF TypeInv, QueueOK
  <2>4. /\ Head(queue) \in Started /\ Head(queue) \in Command
    BY <2>1, QueueTypes DEF TypeInv, QueueOK, Named
  <2>b. PICK b, c : b = Head(queue).bridge /\ c = Head(queue).conn
    OBVIOUS
  <2>5. b \in Bridge /\ c \in Conn /\ conn'[c].bridge = b
    BY <2>b, <2>1, <2>4 DEF Command, Started, StaysStarted
  <2>6. row[b].revoked => \/ b \in revoking \/ c \in overtook
                          \/ \E j \in 2 .. Len(queue) : Detaches(j, b)
    BY <2>b, <2>1, <2>3 DEF RevokedInv, Queued, Overtaking
  <2>7. ASSUME NEW j \in 2 .. Len(queue), Detaches(j, b) PROVE DetachPending(b)'
    <3>1. j - 1 \in 1 .. Len(queue') /\ j - 1 \in 1 .. Len(queue) - 1 /\ (j - 1) + 1 = j
      BY <2>3
    <3>2. queue'[j - 1] = queue[j]
      BY <2>3, <3>1
    <3> QED
      BY <2>7, <3>1, <3>2 DEF DetachPending, Detaches
  <2>8. RevokedIsDetached'
    BY <2>b, <1>1, <1>2, <2>1, <2>5, <2>6, <2>7 DEF RevokedIsDetached, DetachPending
  <2> QED
    BY <1>5, <2>2, <2>8 DEF RevokedInv
<1>7. CASE HandleDetach
  <2>1. /\ queue # << >> /\ queue' = Tail(queue) /\ Head(queue).command = "detach"
        /\ IF shown = Head(queue).bridge THEN session' = None ELSE session' = session
        /\ shown' = shown
    BY <1>7 DEF HandleDetach
  <2>2. Queued'
    BY <1>2, <1>3, <2>1, TakenQueue
  <2>3. RevokedIsDetached'
    <3>1. CASE session' = None
      BY <3>1 DEF RevokedIsDetached
    <3>2. CASE session' = session /\ session # None /\ shown # Head(queue).bridge
      <4>1. conn[session].bridge = shown /\ conn'[session].bridge = shown /\ shown \in Bridge
        BY <1>4, <3>2 DEF TypeInv, Named, StaysStarted, Bound
      <4>2. row[shown].revoked => DetachPending(shown) \/ session \in overtook
        BY <3>2, <4>1 DEF RevokedInv, RevokedIsDetached
      <4>3. DetachPending(shown) => DetachPending(shown)'
        BY <1>1, <2>1, <3>2, StillPending
      <4>4. conn'[session'].bridge = shown /\ row'[shown].revoked = row[shown].revoked
            /\ DetachPending(conn[session].bridge)' = DetachPending(shown)'
        BY <1>2, <2>1, <3>2, <4>1 DEF DetachPending
      <4> QED
        BY <1>1, <3>2, <4>2, <4>3, <4>4 DEF RevokedIsDetached
    <3> QED
      BY <2>1, <3>1, <3>2
  <2> QED
    BY <1>5, <2>2, <2>3 DEF RevokedInv
<1>8. CASE SessionEnds
  <2>1. session' = None /\ UNCHANGED queue
    BY <1>8 DEF SessionEnds
  <2>3. Queued'
    BY <1>1, <1>2, <2>1, QueueBridges DEF RevokedInv, Queued, Overtaking, Detaches
  <2> QED
    BY <1>5, <2>1, <2>3 DEF RevokedInv, RevokedIsDetached
<1> QED
  BY <1>6, <1>7, <1>8

\* Every step keeps the invariant.
LEMMA RevokedStep ==
  ASSUME TypeInv, RevokedInv, [Next]_vars
  PROVE  RevokedInv'
<1>s. StaysStarted
  BY StartedOnce
<1>1. ASSUME NEW k \in Claim, CreateClaim(k) \/ Expire(k) PROVE RevokedInv'
  <2>1. UNCHANGED <<row, conn, queue, session, revoking, overtook>>
    BY <1>1 DEF CreateClaim, Expire
  <2> QED
    BY <1>s, <2>1, SteadyKeeps DEF Steady, RevokedInv, Handshakes, Overtaking
<1>2. ASSUME NEW b \in Bridge, NEW k \in Claim, Configure(b, k) PROVE RevokedInv'
  <2>1. Steady /\ Settled
    BY <1>2 DEF Configure, Steady, Settled
  <2>2. \A c \in Conn : conn'[c].stage \in {"accepted", "responded"} =>
          conn[c].stage \in {"accepted", "responded"} /\ conn'[c].bridge = conn[c].bridge
    <3> TAKE c \in Conn
    <3>1. conn[c] \in Conns /\ "closed" \in Stages
      BY DEF TypeInv, ConnsOK, Stages
    <3>2. conn'[c] \in {conn[c], [conn[c] EXCEPT !.stage = "closed"]}
      BY <1>2 DEF Configure
    <3> QED
      BY <3>1, <3>2, Staged
  <2>3. Handshakes'
    BY <2>1, <2>2, HandshakesKeep
  <2> QED
    BY <1>s, <2>1, <2>3, SteadyKeeps DEF RevokedInv
<1>3. ASSUME NEW c \in Conn, NEW b \in Bridge, Hello(c, b) PROVE RevokedInv'
  <2>1. Steady /\ Settled
    BY <1>3 DEF Hello, Steady, Settled
  <2>2. conn'[c].stage = "hello" /\ \A d \in Conn \ {c} : conn'[d] = conn[d]
    BY <1>3, SaidHello DEF TypeInv, ConnsOK
  <2>3. Handshakes'
    BY <2>1, <2>2, HandshakesKeep
  <2> QED
    BY <1>s, <2>1, <2>3, SteadyKeeps DEF RevokedInv
<1>4. ASSUME NEW c \in Conn, Authenticate(c) PROVE RevokedInv'
  <2>1. Settled /\ Handshakes'
    BY <1>4, AuthenticateRevoked
  <2>2. Steady
    BY <1>4, <2>1 DEF Authenticate, Steady, Settled
  <2> QED
    BY <1>s, <2>1, <2>2, SteadyKeeps DEF RevokedInv
<1>5. ASSUME NEW c \in Conn, Respond(c) \/ RespondFails(c) PROVE RevokedInv'
  <2>1. Steady /\ Settled
    BY <1>5 DEF Respond, RespondFails, Steady, Settled
  <2>2. OnlyStages
    BY <1>5, StagesMove DEF TypeInv, ConnsOK, QueueOK, Named
  <2>3. Handshakes'
    BY <2>1, <2>2, StagesSettle, HandshakesKeep
  <2> QED
    BY <1>s, <2>1, <2>3, SteadyKeeps DEF RevokedInv
<1>6. CASE Restart
  <2>1. \A c \in Conn : conn'[c].stage \notin {"accepted", "responded"}
    <3> TAKE c \in Conn
    <3>1. conn[c] \in Conns /\ "closed" \in Stages
      BY DEF TypeInv, ConnsOK, Stages
    <3> QED
      BY <1>6, <3>1, Staged DEF Restart
  <2>2. queue' = << >> /\ session' = None
    BY <1>6 DEF Restart
  <2> QED
    BY <2>1, <2>2 DEF RevokedInv, RevokedIsDetached, Handshakes, Queued
<1>7. CASE UNCHANGED vars
  BY <1>7, <1>s, SteadyKeeps DEF vars, Steady, RevokedInv, Handshakes, Overtaking
<1> QED
  BY <1>s, <1>1, <1>2, <1>3, <1>4, <1>5, <1>6, <1>7, RevokeRowStep, RevokeDetachStep,
     AttachStep, WorkerStep DEF Next

\* A revoked bridge has a session only as long as its detach command is on its way, or
\* when it was between authentication and attachment as the command was sent
\* (bridge_revoke, websocket_session, device_loop).
THEOREM RevocationEnds == Spec => []RevokedIsDetached
<1>1. Init => RevokedInv
  BY DEF Init, NoConn, RevokedInv, RevokedIsDetached, Handshakes, Queued
<1>2. TypeInv /\ RevokedInv /\ [Next]_vars => RevokedInv'
  BY RevokedStep
<1>3. RevokedInv => RevokedIsDetached
  BY DEF RevokedInv
<1> QED
  BY <1>1, <1>2, <1>3, Typed, PTL DEF Spec

-----------------------------------------------------------------------------
(* Which connection the row belongs to.                                    *)

Live(c) == conn[c].stage \in {"accepted", "responded", "attached"}

\* A connection authenticated under a revision its bridge's row has had.
Counted ==
  \A c \in Conn :
    /\ conn[c].stage # "idle" => conn[c].revision <= row[conn[c].bridge].revision
    /\ Live(c) => conn[c].revision # 0

\* Each under one of its own.
Distinct ==
  \A c, d \in Conn :
    conn[c].bridge = conn[d].bridge /\ conn[c].revision = conn[d].revision
      /\ conn[c].revision # 0 => c = d

NewestInv == NewestStaysConnected /\ Counted /\ Distinct

\* What an authentication, accepted or not, makes of the rows.
LEMMA AuthenticatedRow ==
  ASSUME TypeInv, NEW c \in Conn, Authenticate(c)
  PROVE  /\ \A b \in Bridge \ {conn[c].bridge} : row'[b] = row[b]
         /\ \/ conn'[c].stage = "closed" /\ row' = row
            \/ /\ conn'[c].stage = "accepted" /\ row'[conn[c].bridge].state = "connected"
               /\ row'[conn[c].bridge].revision = row[conn[c].bridge].revision + 1
<1> DEFINE b == conn[c].bridge
           n == row[b].revision + 1
<1>1. b \in Bridge /\ row[b] \in Rows /\ n \in Nat /\ conn[c] \in Conns
      /\ {"accepted", "closed"} \subseteq Stages
  BY Authenticated, RowTypes DEF TypeInv, RowsOK, ConnsOK, Stages
<1>2. \A r \in Rows, m \in Nat :
        LET x == [r EXCEPT !.state = "connected", !.revision = m]
        IN  x.state = "connected" /\ x.revision = m
  BY DEF Rows
<1>3. \A m \in Nat : [conn[c] EXCEPT !.stage = "accepted", !.revision = m].stage = "accepted"
  BY <1>1 DEF Conns
<1>4. CASE Redeemable(c)
  <2>1. /\ row' = [row EXCEPT ![b] = [known |-> TRUE, token |-> conn[c].secret, revoked |-> FALSE,
                                      state |-> "connected", revision |-> n]]
        /\ conn' = [conn EXCEPT ![c] = [conn[c] EXCEPT !.stage = "accepted", !.revision = n]]
    BY <1>4 DEF Authenticate, Redeemable, Recognised
  <2> QED
    BY <1>1, <1>3, <2>1 DEF TypeInv, RowsOK, ConnsOK
<1>5. CASE Recognised(c)
  <2>1. /\ row' = [row EXCEPT ![b] = [row[b] EXCEPT !.state = "connected", !.revision = n]]
        /\ conn' = [conn EXCEPT ![c] = [conn[c] EXCEPT !.stage = "accepted", !.revision = n]]
    BY <1>5 DEF Authenticate, Redeemable, Recognised
  <2> HIDE DEF n
  <2>2. row'[b].state = "connected" /\ row'[b].revision = n
        /\ \A a \in Bridge \ {b} : row'[a] = row[a]
    BY <1>1, <1>2, <2>1 DEF TypeInv, RowsOK
  <2>3. conn'[c].stage = "accepted"
    BY <1>1, <1>3, <2>1 DEF TypeInv, ConnsOK
  <2> QED
    BY <2>2, <2>3 DEF n
<1>6. CASE ~Redeemable(c) /\ ~Recognised(c)
  <2>1. row' = row /\ conn' = [conn EXCEPT ![c] = [conn[c] EXCEPT !.stage = "closed"]]
    BY <1>6 DEF Authenticate
  <2> QED
    BY <1>1, <2>1, Staged DEF TypeInv, ConnsOK
<1> QED
  BY <1>4, <1>5, <1>6

\* Everybody's numbers.
LEMMA Numbers ==
  ASSUME TypeInv
  PROVE  /\ \A c \in Conn : conn[c].revision \in Nat
         /\ \A b \in Bridge : row[b].revision \in Nat
         /\ \A c \in Conn : conn[c].stage # "idle" => conn[c].bridge \in Bridge
         /\ \A c \in Conn : conn[c].stage = "idle" => conn[c].revision = 0
  BY DEF TypeInv, Bound, RowsOK, ConnsOK, Rows, Conns

\* A connection authenticates: its revision is above all others of its bridge.
LEMMA NewestStep ==
  ASSUME TypeInv, NewestInv, NEW c \in Conn, Authenticate(c)
  PROVE  NewestInv'
<1> DEFINE b == conn[c].bridge
<1>1. /\ b \in Bridge /\ conn[c].stage = "hello" /\ conn'[c].bridge = b
      /\ \A d \in Conn \ {c} : conn'[d] = conn[d]
      /\ \A a \in Bridge \ {b} : row'[a] = row[a]
  BY Authenticated, AuthenticatedRow DEF TypeInv, ConnsOK
<1>2. CASE conn'[c].stage = "closed"
  <2>1. row' = row /\ conn'[c].revision = conn[c].revision
    BY <1>2, Authenticated, AuthenticatedRow
  <2>2. Counted'
    BY <1>1, <1>2, <2>1 DEF NewestInv, Counted, Live
  <2>3. Distinct'
    BY <1>1, <2>1 DEF NewestInv, Distinct
  <2>4. NewestStaysConnected'
    BY <1>1, <1>2, <2>1 DEF NewestInv, NewestStaysConnected
  <2> QED
    BY <2>2, <2>3, <2>4 DEF NewestInv
<1>3. CASE conn'[c].stage = "accepted"
  <2>1. /\ row'[b].state = "connected" /\ row'[b].revision = row[b].revision + 1
        /\ conn'[c].revision = row[b].revision + 1
    BY <1>3, Authenticated, AuthenticatedRow
  <2>2. \A d \in Conn \ {c} : conn[d].bridge = b => conn[d].revision <= row[b].revision
    BY <1>1, Numbers DEF NewestInv, Counted
  <2>3. Counted'
    BY <1>1, <1>3, <2>1, Numbers DEF NewestInv, Counted, Live
  <2>4. Distinct'
    <3> SUFFICES ASSUME NEW d \in Conn, NEW e \in Conn,
                        conn'[d].bridge = conn'[e].bridge,
                        conn'[d].revision = conn'[e].revision, conn'[d].revision # 0
                 PROVE  d = e
      BY DEF Distinct
    <3>1. CASE d # c /\ e # c
      BY <1>1, <3>1 DEF NewestInv, Distinct
    <3>2. CASE d = c /\ e # c
      BY <1>1, <2>1, <2>2, <3>2, Numbers
    <3>3. CASE d # c /\ e = c
      BY <1>1, <2>1, <2>2, <3>3, Numbers
    <3> QED
      BY <3>1, <3>2, <3>3
  <2>5. NewestStaysConnected'
    <3> SUFFICES ASSUME NEW d \in Conn, Live(d)', ~row'[conn'[d].bridge].revoked,
                        \A e \in Conn : conn'[e].bridge = conn'[d].bridge =>
                          conn'[e].revision <= conn'[d].revision
                 PROVE  row'[conn'[d].bridge].state = "connected"
      BY DEF NewestStaysConnected, Live
    <3>1. CASE conn'[d].bridge = b
      BY <2>1, <3>1
    <3>2. CASE conn'[d].bridge # b
      <4>1. /\ conn'[d] = conn[d] /\ Live(d) /\ conn[d].bridge \in Bridge
            /\ row'[conn[d].bridge] = row[conn[d].bridge]
        BY <1>1, <3>2, Numbers DEF Live
      <4>2. \A e \in Conn : conn[e].bridge = conn[d].bridge => conn[e].revision <= conn[d].revision
        BY <1>1, <3>2, <4>1
      <4> QED
        BY <4>1, <4>2 DEF NewestInv, NewestStaysConnected, Live
    <3> QED
      BY <3>1, <3>2
  <2> QED
    BY <2>3, <2>4, <2>5 DEF NewestInv
<1> QED
  BY <1>2, <1>3, Authenticated

\* A connection says hello.
LEMMA GreetingStep ==
  ASSUME TypeInv, NewestInv, NEW c \in Conn, NEW b \in Bridge, Hello(c, b)
  PROVE  NewestInv'
<1>1. /\ conn[c].stage = "idle" /\ conn'[c].stage = "hello" /\ conn'[c].bridge = b
      /\ conn'[c].revision = 0 /\ \A d \in Conn \ {c} : conn'[d] = conn[d]
      /\ row' = row
  BY SaidHello DEF Hello, TypeInv, ConnsOK
<1>2. Counted'
  BY <1>1, Numbers DEF NewestInv, Counted, Live
<1>3. Distinct'
  BY <1>1 DEF NewestInv, Distinct
<1>4. NewestStaysConnected'
  <2> SUFFICES ASSUME NEW d \in Conn, Live(d)', ~row'[conn'[d].bridge].revoked,
                      \A e \in Conn : conn'[e].bridge = conn'[d].bridge =>
                        conn'[e].revision <= conn'[d].revision
               PROVE  row'[conn'[d].bridge].state = "connected"
    BY DEF NewestStaysConnected, Live
  <2>1. d # c /\ conn'[d] = conn[d] /\ Live(d)
    BY <1>1 DEF Live
  <2>2. conn[c].revision = 0 /\ conn[d].revision \in Nat
    BY <1>1, Numbers
  <2>3. \A e \in Conn : conn[e].bridge = conn[d].bridge => conn[e].revision <= conn[d].revision
    BY <1>1, <2>1, <2>2
  <2> QED
    BY <1>1, <2>1, <2>3 DEF NewestInv, NewestStaysConnected, Live
<1> QED
  BY <1>2, <1>3, <1>4 DEF NewestInv

\* A transport is dropped, or a bridge revoked: the row of a live connection that is the
\* newest goes offline only with its own transport, or revoked.
LEMMA OnlyItsOwn ==
  ASSUME TypeInv, NewestInv, OnlyStages, RowsOK',
         \A b \in Bridge :
           \/ row'[b] = row[b]
           \/ row'[b].revoked /\ row'[b].revision >= row[b].revision
           \/ /\ row'[b].revision >= row[b].revision
              /\ \E s \in Conn : /\ conn[s].bridge = b /\ row[b].revision = conn[s].revision
                                 /\ ~Live(s)'
  PROVE  NewestInv'
<1>1. \A c \in Conn :
        /\ conn'[c].bridge = conn[c].bridge /\ conn'[c].revision = conn[c].revision
        /\ conn'[c].stage = "idle" <=> conn[c].stage = "idle"
        /\ Live(c)' => Live(c)
  BY OnlyStagesKeeps DEF TypeInv, ConnsOK, Live
<1>2. \A b \in Bridge : row'[b].revision >= row[b].revision /\ row'[b].revision \in Nat
  BY Numbers DEF RowsOK, Rows
<1>3. Counted'
  BY <1>1, <1>2, Numbers DEF NewestInv, Counted
<1>4. Distinct'
  BY <1>1 DEF NewestInv, Distinct
<1>5. NewestStaysConnected'
  <2> SUFFICES ASSUME NEW d \in Conn, Live(d)', ~row'[conn'[d].bridge].revoked,
                      \A e \in Conn : conn'[e].bridge = conn'[d].bridge =>
                        conn'[e].revision <= conn'[d].revision
               PROVE  row'[conn'[d].bridge].state = "connected"
    BY DEF NewestStaysConnected, Live
  <2>1. /\ Live(d) /\ conn'[d].bridge = conn[d].bridge /\ conn[d].bridge \in Bridge
        /\ conn[d].revision \in Nat /\ conn[d].revision # 0
        /\ conn[d].revision <= row[conn[d].bridge].revision
    BY <1>1, Numbers DEF Live, NewestInv, Counted
  <2>2. \A e \in Conn : conn[e].bridge = conn[d].bridge => conn[e].revision <= conn[d].revision
    BY <1>1, <2>1
  <2>3. CASE row'[conn[d].bridge] = row[conn[d].bridge]
    BY <2>1, <2>2, <2>3 DEF NewestInv, NewestStaysConnected, Live
  <2>4. ASSUME NEW s \in Conn, conn[s].bridge = conn[d].bridge,
               row[conn[d].bridge].revision = conn[s].revision, ~Live(s)'
        PROVE  FALSE
    <3>1. conn[s].revision = conn[d].revision
      BY <2>1, <2>2, <2>4, Numbers
    <3>2. s = d
      BY <2>1, <2>4, <3>1 DEF NewestInv, Distinct
    <3> QED
      BY <2>4, <3>2
  <2> QED
    BY <2>1, <2>3, <2>4
<1> QED
  BY <1>3, <1>4, <1>5 DEF NewestInv

\* Every step keeps the invariant.
LEMMA RowsNewestStep ==
  ASSUME TypeInv, NewestInv, [Next]_vars
  PROVE  NewestInv'
<1>s. /\ conn \in [Conn -> Conns] /\ row \in [Bridge -> Rows]
      /\ session \in Conn \cup {None} /\ (session # None => conn[session].stage # "idle")
  BY DEF TypeInv, ConnsOK, RowsOK, QueueOK, Named
<1>r. RowsOK'
  BY RowsStep DEF TypeInv
<1>1. ASSUME NEW k \in Claim, CreateClaim(k) \/ Expire(k) PROVE NewestInv'
  BY <1>1 DEF CreateClaim, Expire, NewestInv, NewestStaysConnected, Counted, Distinct, Live
<1>2. ASSUME NEW b \in Bridge, RevokeDetach(b) PROVE NewestInv'
  BY <1>2 DEF RevokeDetach, NewestInv, NewestStaysConnected, Counted, Distinct, Live
<1>3. ASSUME NEW b \in Bridge, RevokeRow(b) PROVE NewestInv'
  <2>1. row' = [row EXCEPT ![b] = [Offline(row[b]) EXCEPT !.revoked = TRUE]] /\ conn' = conn
    BY <1>3 DEF RevokeRow
  <2> DEFINE n == row[b].revision + 1
  <2>r. row[b] \in Rows
    BY <1>s
  <2>m. row[b].revision \in Nat /\ Offline(row[b]) \in Rows
    BY <2>r, RowTypes DEF Rows
  <2>2. n \in Nat /\ n >= row[b].revision /\ row[b] \in Rows /\ Offline(row[b]) \in Rows
    BY <2>r, <2>m
  <2> HIDE DEF n
  <2>3. Offline(row[b]) = [row[b] EXCEPT !.state = "offline", !.revision = n]
    BY DEF Offline, n
  <2>4. Offline(row[b]).revision = n
    BY <2>2, <2>3 DEF Rows
  <2>5. /\ [Offline(row[b]) EXCEPT !.revoked = TRUE].revision = n
        /\ [Offline(row[b]) EXCEPT !.revoked = TRUE].revoked
    BY <2>2, <2>4 DEF Rows
  <2>6. /\ row'[b].revoked /\ row'[b].revision >= row[b].revision
        /\ \A a \in Bridge \ {b} : row'[a] = row[a]
    BY <1>s, <2>1, <2>2, <2>5
  <2>7. OnlyStages
    BY <1>s, <2>1 DEF OnlyStages
  <2> QED
    BY <1>r, <2>6, <2>7, OnlyItsOwn
<1>4. ASSUME NEW c \in Conn,
             \/ \E b \in Bridge, k \in Claim : Configure(b, k)
             \/ Respond(c) \/ RespondFails(c) \/ Attach(c) \/ Restart
      PROVE  NewestInv'
  <2>1. OnlyStages
    BY <1>s, <1>4, StagesMove
  <2>2. row' = row
    BY <1>4 DEF Configure, Respond, RespondFails, Attach, Restart
  <2> QED
    BY <1>r, <2>1, <2>2, OnlyItsOwn
<1>5. ASSUME NEW c \in Conn, HandleAttach \/ HandleDetach \/ SessionEnds PROVE NewestInv'
  <2>1. OnlyStages
    BY <1>s, <1>5, StagesMove
  <2>n. PICK t : t = session
    OBVIOUS
  <2>2. \/ row' = row
        \/ row' = Dropped(t) /\ (t # None => conn' = Closing(t))
    BY <1>5, <2>n DEF HandleAttach, HandleDetach, SessionEnds
  <2>3. CASE row' = row
    BY <1>r, <2>1, <2>3, OnlyItsOwn
  <2>4. CASE row' = Dropped(t) /\ t = None
    <3>1. row' = row
      BY <2>4 DEF Dropped
    <3> QED
      BY <1>r, <2>1, <3>1, OnlyItsOwn
  <2>5. CASE row' = Dropped(t) /\ t # None /\ conn' = Closing(t)
    <3>1. conn' = [conn EXCEPT ![t] = [conn[t] EXCEPT !.stage = "closed"]]
          /\ t \in Conn /\ conn[t] \in Conns
      BY <1>s, <2>n, <2>5 DEF Closing
    <3>2. conn'[t].stage = "closed"
      BY <1>s, <3>1 DEF Conns
    <3>3. ~Live(t)'
      BY <3>2 DEF Live
    <3>4. \A b \in Bridge :
            /\ row'[b].revision >= row[b].revision
            /\ \/ row'[b] = row[b]
               \/ b = conn[t].bridge /\ row[b].revision = conn[t].revision
      <4> TAKE b \in Bridge
      <4>1. /\ Dropped(t)[b].revision >= row[b].revision
            /\ \/ Dropped(t)[b] = row[b]
               \/ b = conn[t].bridge /\ row[b].revision = conn[t].revision
        BY <1>s, DroppedKeeps
      <4>2. row'[b] = Dropped(t)[b]
        BY <2>5
      <4> QED
        BY <4>1, <4>2
    <3> QED
      BY <1>r, <2>1, <3>1, <3>3, <3>4, OnlyItsOwn
  <2> QED
    BY <2>2, <2>3, <2>4, <2>5
<1>6. CASE UNCHANGED vars
  BY <1>6 DEF vars, NewestInv, NewestStaysConnected, Counted, Distinct, Live
<1>7. CASE Conn = {}
  BY <1>7 DEF NewestInv, NewestStaysConnected, Counted, Distinct
<1>8. CASE Conn # {}
  BY <1>1, <1>2, <1>3, <1>4, <1>5, <1>6, <1>8, NewestStep, GreetingStep DEF Next
<1> QED
  BY <1>7, <1>8

\* While the connection that authenticated last for a bridge lives and the operator has
\* not revoked it, the row says connected: no drop of an older transport undoes it
\* (Drop for WebSocketBridgeTransport).
THEOREM NewestConnected == Spec => []NewestStaysConnected
<1>1. Init => NewestInv
  BY DEF Init, NoConn, NewestInv, NewestStaysConnected, Counted, Distinct, Live
<1>2. TypeInv /\ NewestInv /\ [Next]_vars => NewestInv'
  BY RowsNewestStep
<1>3. NewestInv => NewestStaysConnected
  BY DEF NewestInv
<1> QED
  BY <1>1, <1>2, <1>3, Typed, PTL DEF Spec
=============================================================================
