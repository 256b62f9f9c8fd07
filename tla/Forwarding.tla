----------------------------- MODULE Forwarding -----------------------------
(***************************************************************************)
(* The Atom's USB-to-tunnel ring (firmware/tan-bridge-setup/main/          *)
(* forwarding.c).  Every operation is a pure function of the forwarder; the *)
(* firmware runs each of them inside one short critical section.           *)
(*                                                                         *)
(* A chunk is what one USB read returned.  It counts as one unit of ring   *)
(* capacity, and its `kind' says what tan_forward_push recognises in it:   *)
(* "nano" completes the KL* prefix (which may have begun in the chunk      *)
(* before), "json" contains '{', "noise" neither.  A pop takes one chunk;  *)
(* the code's may join several.  Left out: the head index and the counters *)
(* of overflows, failures, recoveries and the high-water mark.             *)
(***************************************************************************)
EXTENDS Integers, Sequences

CONSTANT Capacity   \* TAN_FORWARD_CAPACITY, in chunks

ASSUME CapacityAssumption == Capacity \in Nat \ {0}

Peers == {"unknown", "nano", "setup"}
Kinds == {"nano", "json", "noise"}

\* A chunk remembers which USB attachment it was read on, and, from the moment
\* it is pushed, the generation and the peer the forwarder then had.
Chunk == [id : Nat, kind : Kinds, usb : Nat, pushedIn : Nat, peer : Peers]

\* tan_forwarder_t.  The byte ring is a sequence of chunks; generation counts
\* the sessions begun since boot.
Forwarder ==
  [ring : Seq(Chunk), generation : Nat, failed : BOOLEAN, recovering : BOOLEAN,
   peer : Peers, received : Nat, forwarded : Nat, discarded : Nat]

InitialForwarder ==
  [ring |-> << >>, generation |-> 0, failed |-> FALSE, recovering |-> FALSE,
   peer |-> "unknown", received |-> 0, forwarded |-> 0, discarded |-> 0]

-----------------------------------------------------------------------------
(* The predicates the operations branch on.                                *)

\* A fault or a pending re-enumeration closes the ring to everything but a
\* computer that is talking the setup protocol.
Closed(f) == (f.failed \/ f.recovering) /\ f.peer # "setup"

\* The peer is recognised once, from the first chunk that identifies it.
PeerAfter(f, c) ==
  IF f.peer # "unknown" \/ c.kind = "noise" THEN f.peer
  ELSE IF c.kind = "json" THEN "setup" ELSE "nano"

-----------------------------------------------------------------------------
(* discard() and the operations.                                           *)

\* Faulty: the bytes are thrown away and the counter runs backwards, or stays.
DiscardBackwards(f) == [f EXCEPT !.discarded = @ - Len(f.ring), !.ring = << >>]
DiscardUncounted(f) == [f EXCEPT !.ring = << >>]

Discard(f) == [f EXCEPT !.discarded = @ + Len(f.ring), !.ring = << >>]

Fail(f) == [Discard(f) EXCEPT !.failed = TRUE]

DropChunk(f) == [f EXCEPT !.discarded = @ + 1]

Push(f, c) ==
  LET seen == [f EXCEPT !.received = @ + 1, !.peer = PeerAfter(f, c)]
  IN  IF Closed(seen) THEN DropChunk(seen)
      ELSE IF Len(f.ring) >= Capacity THEN DropChunk(Fail(seen))
      ELSE [seen EXCEPT !.ring = Append(@, c)]

\* tan_forward_pop returns nothing while the ring is closed or empty.
CanPop(f) == ~Closed(f) /\ f.ring # << >>
Pop(f) == [f EXCEPT !.ring = Tail(@)]

\* Faulty: a known Nano is not re-enumerated; any peer is; the fault is kept.
BeginWithoutRecovery(f) ==
  LET opened == [f EXCEPT !.generation = @ + 1, !.failed = FALSE]
  IN  IF f.peer = "nano" THEN Discard(opened) ELSE opened
BeginRecoversAll(f) ==
  [Discard(f) EXCEPT !.generation = @ + 1, !.failed = FALSE, !.recovering = TRUE]
BeginKeepsFault(f) ==
  LET opened == [f EXCEPT !.generation = @ + 1, !.recovering = (f.peer = "nano")]
  IN  IF f.peer = "nano" THEN Discard(opened) ELSE opened

\* tan_forward_begin: a known Nano must be re-enumerated before its bytes count.
Begin(f) ==
  LET opened == [f EXCEPT !.generation = @ + 1, !.failed = FALSE,
                          !.recovering = (f.peer = "nano")]
  IN  IF f.peer = "nano" THEN Discard(opened) ELSE opened

\* Faulty: the ring stays closed after the re-enumeration.
RecoveredStillClosed(f) == Discard(f)

Recovered(f) == [Discard(f) EXCEPT !.recovering = FALSE]

\* Faulty: a chunk popped in an earlier session still counts as current.
CurrentAnyGeneration(f, g) == ~f.failed /\ ~f.recovering

Current(f, g) == ~f.failed /\ ~f.recovering /\ f.generation = g

=============================================================================
