---------------------------- MODULE BridgeSessions --------------------------
(***************************************************************************)
(* The life of a Tan Bridge as the service sees it: a claim is redeemed    *)
(* for a device token, connections authenticate, their transports are      *)
(* attached to the one Nano session, the operator revokes, transports are  *)
(* dropped (bridge_session.rs, lan_bridge.rs, api.rs, device.rs).          *)
(*                                                                         *)
(* Three kinds of actors meet in the database row and in the command queue *)
(* of the device worker: one task per connection, the operator's requests, *)
(* and the worker.  A device token is named by the claim that issued it.   *)
(***************************************************************************)
EXTENDS Integers, Sequences, FiniteSets

CONSTANTS
  Bridge,       \* bridge ids
  Claim,        \* claims the operator may create, and the tokens they issue
  Conn,         \* connections, each used once
  None,
  MaxRevokes,   \* bound: revocations by the operator
  MaxRestarts   \* bound: restarts of the service

ASSUME BridgeSessionsAssumption ==
  /\ None \notin Bridge \cup Claim \cup Conn
  /\ MaxRevokes \in Nat /\ MaxRestarts \in Nat

VARIABLES
  row,       \* tan_bridges
  claim,     \* bridge_claims
  atom,      \* each Atom: the claim or device token in NVS, its open connection
  conn,      \* the task of each connection
  queue,     \* commands of the device worker
  session,   \* the connection whose transport the worker holds
  shown,     \* snapshot.bridge_id
  revoking,  \* bridges revoked in the database, not yet detached
  revokes, restarts,
  overtook   \* history: connections of a bridge revoked during their handshake

vars == <<row, claim, atom, conn, queue, session, shown, revoking, revokes,
          restarts, overtook>>

-----------------------------------------------------------------------------

NoRow  == [known |-> FALSE, token |-> None, revoked |-> FALSE,
           state |-> "offline", revision |-> 0]
NoConn == [stage |-> "idle", bridge |-> None, kind |-> "token", secret |-> None,
           revision |-> 0]

\* A handshake is in progress between the hello and the attach command.
Stages == {"idle", "hello", "accepted", "responded", "attached", "closed"}

Init ==
  /\ row = [b \in Bridge |-> NoRow]
  /\ claim = [k \in Claim |-> "none"]
  /\ atom = [b \in Bridge |-> [claim |-> None, token |-> None, conn |-> None]]
  /\ conn = [c \in Conn |-> NoConn]
  /\ queue = << >> /\ session = None /\ shown = None
  /\ revoking = {} /\ revokes = 0 /\ restarts = 0 /\ overtook = {}

-----------------------------------------------------------------------------
(* The operator and the Atom.                                              *)

\* lan_bridge::create_claim.
CreateClaim(k) ==
  /\ claim[k] = "none"
  /\ claim' = [claim EXCEPT ![k] = "open"]
  /\ UNCHANGED <<row, atom, conn, queue, session, shown, revoking, revokes,
                 restarts, overtook>>

\* Ten minutes pass.
Expire(k) ==
  /\ claim[k] = "open"
  /\ claim' = [claim EXCEPT ![k] = "expired"]
  /\ UNCHANGED <<row, atom, conn, queue, session, shown, revoking, revokes,
                 restarts, overtook>>

\* send_configuration_result: the claim replaces whatever the Atom had, and the
\* Atom restarts.  The same claim may be given to two Atoms.  The restart takes
\* seconds, so a hello sent before it has been answered or lost when the next one
\* is sent (timing).
Configure(b, k) ==
  /\ claim[k] # "none" /\ atom[b].claim # k /\ atom[b].token # k
  /\ atom' = [atom EXCEPT ![b] = [claim |-> k, token |-> None, conn |-> None]]
  /\ conn' = [c \in Conn |->
       IF conn[c].bridge = b /\ conn[c].stage = "hello"
         THEN [conn[c] EXCEPT !.stage = "closed"] ELSE conn[c]]
  /\ UNCHANGED <<row, claim, queue, session, shown, revoking, revokes,
                 restarts, overtook>>

\* backend_hello: the device token if there is one, else the claim.  The Atom has one
\* WebSocket client: opening a connection gives up the one before.
Hello(c, b) ==
  /\ conn[c].stage = "idle"
  /\ atom[b].claim # None \/ atom[b].token # None
  /\ atom' = [atom EXCEPT ![b].conn = c]
  /\ LET withToken == atom[b].token # None
     IN  conn' = [conn EXCEPT ![c] =
           [stage |-> "hello", bridge |-> b,
            kind |-> IF withToken THEN "token" ELSE "claim",
            secret |-> IF withToken THEN atom[b].token ELSE atom[b].claim,
            revision |-> 0]]
  /\ UNCHANGED <<row, claim, queue, session, shown, revoking, revokes,
                 restarts, overtook>>

-----------------------------------------------------------------------------
(* accept_hello and authenticate: one transaction.                         *)

\* Faulty: a consumed claim is accepted again.
RedeemableTwice(c) == conn[c].kind = "claim" /\ claim[conn[c].secret] \in {"open", "consumed"}

Redeemable(c) == conn[c].kind = "claim" /\ claim[conn[c].secret] = "open"

\* Faulty: revocation is not looked at.
RecognisedRevoked(c) ==
  LET r == row[conn[c].bridge]
  IN  conn[c].kind = "token" /\ r.known /\ r.token = conn[c].secret

Recognised(c) ==
  LET r == row[conn[c].bridge]
  IN  conn[c].kind = "token" /\ r.known /\ ~r.revoked /\ r.token = conn[c].secret

Authenticate(c) ==
  /\ conn[c].stage = "hello"
  /\ LET b == conn[c].bridge
         next == row[b].revision + 1
     IN  \/ /\ Redeemable(c)
            /\ row' = [row EXCEPT ![b] = [known |-> TRUE, token |-> conn[c].secret,
                                          revoked |-> FALSE, state |-> "connected",
                                          revision |-> next]]
            /\ claim' = [claim EXCEPT ![conn[c].secret] = "consumed"]
            /\ conn' = [conn EXCEPT ![c] = [@ EXCEPT !.stage = "accepted", !.revision = next]]
         \/ /\ Recognised(c)
            /\ row' = [row EXCEPT ![b] = [@ EXCEPT !.state = "connected", !.revision = next]]
            /\ conn' = [conn EXCEPT ![c] = [@ EXCEPT !.stage = "accepted", !.revision = next]]
            /\ UNCHANGED claim
         \/ /\ ~Redeemable(c) /\ ~Recognised(c)
            /\ conn' = [conn EXCEPT ![c].stage = "closed"]
            /\ UNCHANGED <<row, claim>>
  /\ UNCHANGED <<atom, queue, session, shown, revoking, revokes, restarts, overtook>>

\* Faulty: an answer to an abandoned connection is taken.
ListeningToAny(b, c) == TRUE

\* The Atom still has the connection it sent its hello on.
Listening(b, c) == atom[b].conn = c

\* The response is sent.  When it reaches an Atom that is still waiting for it, a
\* newly issued token is persisted and the claim erased in one NVS commit.
Respond(c) ==
  /\ conn[c].stage = "accepted"
  /\ conn' = [conn EXCEPT ![c].stage = "responded"]
  /\ LET b == conn[c].bridge
         k == conn[c].secret
         issued == conn[c].kind = "claim" /\ Listening(b, c)
     IN  \E received \in BOOLEAN :
           atom' = IF received /\ issued
                     THEN [atom EXCEPT ![b] = [@ EXCEPT !.claim = None, !.token = k]] ELSE atom
  /\ UNCHANGED <<row, claim, queue, session, shown, revoking, revokes, restarts,
                 overtook>>

\* The response cannot be sent: the task returns before there is a transport.
RespondFails(c) ==
  /\ conn[c].stage = "accepted"
  /\ conn' = [conn EXCEPT ![c].stage = "closed"]
  /\ UNCHANGED <<row, claim, atom, queue, session, shown, revoking, revokes,
                 restarts, overtook>>

\* The transport is built and handed to the worker.
Attach(c) ==
  /\ conn[c].stage = "responded"
  /\ conn' = [conn EXCEPT ![c].stage = "attached"]
  /\ queue' = Append(queue, [command |-> "attach", conn |-> c, bridge |-> conn[c].bridge])
  /\ UNCHANGED <<row, claim, atom, session, shown, revoking, revokes, restarts,
                 overtook>>

-----------------------------------------------------------------------------
(* bridge_revoke: the row under the database lock, the command after it.   *)

Offline(r) == [r EXCEPT !.state = "offline", !.revision = @ + 1]

InHandshake(b) ==
  {c \in Conn : conn[c].bridge = b /\ conn[c].stage \in {"accepted", "responded"}}

RevokeRow(b) ==
  /\ row[b].known /\ revokes < MaxRevokes /\ b \notin revoking
  /\ revokes' = revokes + 1
  /\ row' = [row EXCEPT ![b] = [Offline(@) EXCEPT !.revoked = TRUE]]
  /\ revoking' = revoking \cup {b}
  /\ UNCHANGED <<claim, atom, conn, queue, session, shown, restarts, overtook>>

RevokeDetach(b) ==
  /\ b \in revoking
  /\ revoking' = revoking \ {b}
  /\ queue' = Append(queue, [command |-> "detach", conn |-> None, bridge |-> b])
  /\ overtook' = overtook \cup InHandshake(b)
  /\ UNCHANGED <<row, claim, atom, conn, session, shown, revokes, restarts>>

-----------------------------------------------------------------------------
(* device_loop.                                                            *)

\* Faulty: the row goes offline whatever has happened to it since.
DroppedAnyway(c) ==
  IF c # None
    THEN [row EXCEPT ![conn[c].bridge] = Offline(@)]
    ELSE row

\* Drop of a transport: the row goes offline unless it has changed since this
\* connection authenticated.
Dropped(c) ==
  IF c # None /\ row[conn[c].bridge].revision = conn[c].revision
    THEN [row EXCEPT ![conn[c].bridge] = Offline(@)]
    ELSE row

Closing(c) == [conn EXCEPT ![c].stage = "closed"]

\* Faulty: the bridge is stored for the session, and no transport is dropped.
HandleAttachSwapped ==
  /\ queue # << >> /\ Head(queue).command = "attach"
  /\ session' = Head(queue).bridge /\ shown' = Head(queue).bridge
  /\ queue' = Tail(queue)
  /\ UNCHANGED <<row, claim, atom, conn, revoking, revokes, restarts, overtook>>

HandleAttach ==
  /\ queue # << >> /\ Head(queue).command = "attach"
  /\ row' = Dropped(session)
  /\ conn' = IF session = None THEN conn ELSE Closing(session)
  /\ session' = Head(queue).conn /\ shown' = Head(queue).bridge
  /\ queue' = Tail(queue)
  /\ UNCHANGED <<claim, atom, revoking, revokes, restarts, overtook>>

HandleDetach ==
  /\ queue # << >> /\ Head(queue).command = "detach"
  /\ IF shown = Head(queue).bridge
       THEN /\ row' = Dropped(session)
            /\ conn' = IF session = None THEN conn ELSE Closing(session)
            /\ session' = None
       ELSE UNCHANGED <<row, conn, session>>
  /\ queue' = Tail(queue)
  /\ UNCHANGED <<claim, atom, shown, revoking, revokes, restarts, overtook>>

\* The session ends by itself: the peer closed, a queue overflowed, negotiation
\* timed out, a refresh before Ready, a failed synchronisation.  The snapshot
\* forgets the bridge, except after a synchronisation that failed.
SessionEnds ==
  /\ session # None
  /\ row' = Dropped(session)
  /\ conn' = Closing(session)
  /\ session' = None
  /\ shown' \in {None, shown}
  /\ UNCHANGED <<claim, atom, queue, revoking, revokes, restarts, overtook>>

\* The process dies: nothing is dropped, the rows stay as they are.
Restart ==
  /\ restarts < MaxRestarts
  /\ restarts' = restarts + 1
  /\ conn' = [c \in Conn |-> IF conn[c].stage = "idle" THEN conn[c]
                             ELSE [conn[c] EXCEPT !.stage = "closed"]]
  /\ queue' = << >> /\ session' = None /\ shown' = None /\ revoking' = {}
  /\ UNCHANGED <<row, claim, atom, revokes, overtook>>

-----------------------------------------------------------------------------

Next ==
  \/ \E k \in Claim : CreateClaim(k) \/ Expire(k)
  \/ \E b \in Bridge : RevokeRow(b) \/ RevokeDetach(b)
  \/ \E b \in Bridge, k \in Claim : Configure(b, k)
  \/ \E c \in Conn, b \in Bridge : Hello(c, b)
  \/ \E c \in Conn : Authenticate(c) \/ Respond(c) \/ RespondFails(c) \/ Attach(c)
  \/ HandleAttach \/ HandleDetach \/ SessionEnds \/ Restart

Spec == Init /\ [][Next]_vars

-----------------------------------------------------------------------------
(* Properties.                                                             *)

Command == [command : {"attach", "detach"}, conn : Conn \cup {None}, bridge : Bridge]

TypeOK ==
  /\ row \in [Bridge -> [known : BOOLEAN, token : Claim \cup {None}, revoked : BOOLEAN,
                         state : {"connected", "offline"}, revision : Nat]]
  /\ claim \in [Claim -> {"none", "open", "consumed", "expired"}]
  /\ atom \in [Bridge -> [claim : Claim \cup {None}, token : Claim \cup {None},
                          conn : Conn \cup {None}]]
  /\ conn \in [Conn -> [stage : Stages, bridge : Bridge \cup {None},
                        kind : {"claim", "token"}, secret : Claim \cup {None},
                        revision : Nat]]
  /\ queue \in Seq(Command)
  /\ session \in Conn \cup {None} /\ shown \in Bridge \cup {None}
  /\ revoking \subseteq Bridge /\ overtook \subseteq Conn
  /\ revokes \in Nat /\ restarts \in Nat

\* A claim enrols one bridge: connections that present the same claim at the same
\* time, from one Atom or two, never end up with two rows holding its token.
ClaimEnrolsOne ==
  \A a, b \in Bridge :
    row[a].token = row[b].token /\ row[a].token # None => a = b

\* An Atom that has persisted a device token is never locked out by a lost or late
\* response: the token is the one the service stores for it, whatever happened to
\* the connection that issued it.
TokenAgreement ==
  \A b \in Bridge : atom[b].token # None => atom[b].token = row[b].token

\* The drop of an old transport does not take a newer connection's row offline: while
\* the connection that authenticated last for a bridge lives, and the operator has not
\* revoked the bridge, the row says connected.
NewestStaysConnected ==
  \A c \in Conn :
    /\ conn[c].stage \in {"accepted", "responded", "attached"}
    /\ ~row[conn[c].bridge].revoked
    /\ \A d \in Conn : conn[d].bridge = conn[c].bridge => conn[d].revision <= conn[c].revision
    => row[conn[c].bridge].state = "connected"

DetachPending(b) ==
  b \in revoking \/ \E i \in 1 .. Len(queue) : queue[i].command = "detach" /\ queue[i].bridge = b

\* Revocation ends the session of the bridge: once its command has been handled, a
\* revoked bridge has no session, except one that was between authentication and
\* attachment when the command was sent.
RevokedIsDetached ==
  session # None /\ row[conn[session].bridge].revoked =>
    DetachPending(conn[session].bridge) \/ session \in overtook

\* Revocation ends the session of the bridge, without the exception.
RevocationDetaches ==
  session # None /\ row[conn[session].bridge].revoked =>
    DetachPending(conn[session].bridge)

=============================================================================
