-------------------------- MODULE AtomBridge_proofs -------------------------
(***************************************************************************)
(* Proofs about the tasks of the Tan Bridge firmware, for every ring       *)
(* capacity, every number of chunks and every number of attempts: types,   *)
(* the account of the chunks, the life of the client, that the tasks       *)
(* implement the session protocol (Reconnect), and what the backend        *)
(* receives in a session of the tunnel.                                    *)
(***************************************************************************)
EXTENDS AtomBridge, TLAPS

-----------------------------------------------------------------------------
(* What each operation of the forwarder returns.  The proofs about the tasks *)
(* use these lemmas and never the definitions.                             *)

\* The empty ring is a ring.
LEMMA EmptyRing == << >> \in Seq(Chunk) /\ Len(<< >>) = 0
  OBVIOUS

\* The three fields discard() and its callers write can be replaced one by one.
LEMMA FieldTypes ==
  ASSUME NEW f \in Forwarder, NEW s \in Seq(Chunk), NEW n \in Nat
  PROVE  /\ [f EXCEPT !.ring = s] \in Forwarder
         /\ [f EXCEPT !.discarded = n] \in Forwarder
         /\ Len(f.ring) \in Nat
  BY DEF Forwarder

\* A discard moves the ring into the count of discarded chunks and touches nothing
\* else.
LEMMA DiscardFacts ==
  ASSUME NEW f \in Forwarder
  PROVE  /\ Discard(f) \in Forwarder
         /\ Discard(f).ring = << >>
         /\ Discard(f).discarded = f.discarded + Len(f.ring)
         /\ Discard(f).received = f.received
         /\ Discard(f).forwarded = f.forwarded
         /\ Discard(f).peer = f.peer
         /\ Discard(f).generation = f.generation
         /\ Discard(f).recovering = f.recovering
         /\ Discard(f).failed = f.failed
<1> DEFINE g == [f EXCEPT !.discarded = f.discarded + Len(f.ring)]
<1>1. f.discarded + Len(f.ring) \in Nat
  BY FieldTypes, EmptyRing DEF Forwarder
<1>2. g \in Forwarder
  BY <1>1, EmptyRing, FieldTypes
<1>3. Discard(f) = [g EXCEPT !.ring = << >>]
  BY DEF Discard, Forwarder
<1>4. Discard(f) \in Forwarder
  BY <1>1, <1>2, <1>3, EmptyRing, FieldTypes
<1> QED
  BY <1>4 DEF Discard, Forwarder

\* A failure discards and closes the ring.
LEMMA FailFacts ==
  ASSUME NEW f \in Forwarder
  PROVE  /\ Fail(f) \in Forwarder
         /\ Fail(f).failed
         /\ Fail(f).ring = << >>
         /\ Fail(f).discarded = f.discarded + Len(f.ring)
         /\ Fail(f).received = f.received
         /\ Fail(f).forwarded = f.forwarded
         /\ Fail(f).peer = f.peer
         /\ Fail(f).generation = f.generation
         /\ Fail(f).recovering = f.recovering
  BY DiscardFacts DEF Fail, Forwarder

\* A chunk that is dropped is counted, and nothing else happens.
LEMMA DropChunkFacts ==
  ASSUME NEW f \in Forwarder
  PROVE  /\ DropChunk(f) \in Forwarder
         /\ DropChunk(f).ring = f.ring
         /\ DropChunk(f).discarded = f.discarded + 1
         /\ DropChunk(f).received = f.received
         /\ DropChunk(f).forwarded = f.forwarded
         /\ DropChunk(f).peer = f.peer
         /\ DropChunk(f).generation = f.generation
         /\ DropChunk(f).recovering = f.recovering
         /\ DropChunk(f).failed = f.failed
  BY DEF DropChunk, Forwarder

\* A chunk that is sent is counted, and nothing else happens.
LEMMA SentFacts ==
  ASSUME NEW f \in Forwarder, NEW g, g = [f EXCEPT !.forwarded = @ + 1]
  PROVE  /\ g \in Forwarder
         /\ g.ring = f.ring
         /\ g.discarded = f.discarded
         /\ g.received = f.received
         /\ g.forwarded = f.forwarded + 1
         /\ g.peer = f.peer
         /\ g.generation = f.generation
         /\ g.recovering = f.recovering
         /\ g.failed = f.failed
  BY DEF Forwarder

\* The peer, once known, stays.
LEMMA PeerFacts ==
  ASSUME NEW f \in Forwarder, NEW c \in Chunk
  PROVE  /\ PeerAfter(f, c) \in Peers
         /\ f.peer # "unknown" => PeerAfter(f, c) = f.peer
  BY DEF PeerAfter, Forwarder, Peers, Kinds, Chunk

\* A pushed chunk is counted once: in the ring, or as discarded - together with the
\* whole ring when it overflows.  A failed or recovering ring takes nothing, unless
\* the peer is a computer in setup.
LEMMA PushFacts ==
  ASSUME NEW f \in Forwarder, NEW c \in Chunk
  PROVE  /\ Push(f, c) \in Forwarder
         /\ Push(f, c).received = f.received + 1
         /\ Push(f, c).forwarded = f.forwarded
         /\ Push(f, c).discarded + Len(Push(f, c).ring) = f.discarded + Len(f.ring) + 1
         /\ Push(f, c).generation = f.generation
         /\ Push(f, c).recovering = f.recovering
         /\ Push(f, c).peer = PeerAfter(f, c)
         /\ f.failed => Push(f, c).failed
         /\ Push(f, c).ring \in {f.ring, << >>, Append(f.ring, c)}
         /\ Closed(f) /\ PeerAfter(f, c) # "setup" => Push(f, c).ring = f.ring
         /\ Push(f, c).failed /\ ~f.failed => Push(f, c).ring = << >>
<1> DEFINE seen == [f EXCEPT !.received = f.received + 1, !.peer = PeerAfter(f, c)]
<1>1. /\ seen \in Forwarder
      /\ seen.received = f.received + 1 /\ seen.peer = PeerAfter(f, c)
      /\ seen.ring = f.ring /\ seen.forwarded = f.forwarded
      /\ seen.discarded = f.discarded /\ seen.generation = f.generation
      /\ seen.recovering = f.recovering /\ seen.failed = f.failed
  <2> DEFINE counted == [f EXCEPT !.received = f.received + 1]
  <2>1. counted \in Forwarder /\ PeerAfter(f, c) \in Peers
    BY PeerFacts DEF Forwarder
  <2>2. seen = [counted EXCEPT !.peer = PeerAfter(f, c)]
    BY DEF Forwarder
  <2>3. seen \in Forwarder
    BY <2>1, <2>2 DEF Forwarder
  <2> QED
    BY <2>3 DEF Forwarder
<1> HIDE DEF seen
<1>2. CASE Closed(seen)
  <2>1. Push(f, c) = DropChunk(seen)
    BY <1>2 DEF Push, seen
  <2>2. f.discarded \in Nat /\ Len(f.ring) \in Nat
    BY DEF Forwarder
  <2>3. /\ Push(f, c) \in Forwarder /\ Push(f, c).ring = f.ring
        /\ Push(f, c).failed = f.failed
        /\ Push(f, c).discarded = f.discarded + 1
        /\ Push(f, c).received = f.received + 1 /\ Push(f, c).forwarded = f.forwarded
        /\ Push(f, c).peer = PeerAfter(f, c) /\ Push(f, c).generation = f.generation
        /\ Push(f, c).recovering = f.recovering
    BY <1>1, <2>1, DropChunkFacts
  <2> QED
    BY <2>2, <2>3
<1>3. CASE ~Closed(seen) /\ Len(f.ring) >= Capacity
  <2> DEFINE failed == Fail(seen)
  <2>1. Push(f, c) = DropChunk(failed)
    BY <1>3 DEF Push, seen
  <2>2. /\ failed \in Forwarder /\ failed.failed /\ failed.ring = << >>
        /\ failed.discarded = f.discarded + Len(f.ring)
        /\ failed.received = f.received + 1 /\ failed.forwarded = f.forwarded
        /\ failed.peer = PeerAfter(f, c) /\ failed.generation = f.generation
        /\ failed.recovering = f.recovering
    BY <1>1, FailFacts
  <2>3. f.discarded \in Nat /\ Len(f.ring) \in Nat
    BY DEF Forwarder
  <2>4. /\ Push(f, c) \in Forwarder /\ Push(f, c).ring = << >> /\ Push(f, c).failed
        /\ Push(f, c).discarded = failed.discarded + 1
        /\ Push(f, c).received = f.received + 1 /\ Push(f, c).forwarded = f.forwarded
        /\ Push(f, c).peer = PeerAfter(f, c) /\ Push(f, c).generation = f.generation
        /\ Push(f, c).recovering = f.recovering
    BY <2>1, <2>2, DropChunkFacts
  <2>5. ~(Closed(f) /\ PeerAfter(f, c) # "setup")
    BY <1>1, <1>3 DEF Closed
  <2> QED
    BY <2>2, <2>3, <2>4, <2>5, EmptyRing
<1>4. CASE ~Closed(seen) /\ ~(Len(f.ring) >= Capacity)
  <2>1. Push(f, c) = [seen EXCEPT !.ring = Append(f.ring, c)]
    BY <1>1, <1>4 DEF Push, seen
  <2>2. Append(f.ring, c) \in Seq(Chunk) /\ Len(Append(f.ring, c)) = Len(f.ring) + 1
    BY DEF Forwarder
  <2>3. f.discarded \in Nat /\ Len(f.ring) \in Nat
    BY DEF Forwarder
  <2>4. /\ Push(f, c) \in Forwarder /\ Push(f, c).ring = Append(f.ring, c)
        /\ Push(f, c).failed = f.failed
        /\ Push(f, c).discarded = f.discarded
        /\ Push(f, c).received = f.received + 1 /\ Push(f, c).forwarded = f.forwarded
        /\ Push(f, c).peer = PeerAfter(f, c) /\ Push(f, c).generation = f.generation
        /\ Push(f, c).recovering = f.recovering
    BY <1>1, <2>1, <2>2 DEF Forwarder
  <2>5. ~(Closed(f) /\ PeerAfter(f, c) # "setup")
    BY <1>1, <1>4 DEF Closed
  <2> QED
    BY <2>2, <2>3, <2>4, <2>5
<1> QED
  BY <1>2, <1>3, <1>4

\* A chunk that is pushed joins the ring, or fails the stream, or is lost on a ring
\* that is failed or waits for the re-enumeration.
LEMMA PushOutcome ==
  ASSUME NEW f \in Forwarder, NEW c \in Chunk
  PROVE  \/ Push(f, c).failed
         \/ Push(f, c).ring = f.ring /\ f.recovering
         \/ Push(f, c).ring = Append(f.ring, c)
<1> DEFINE seen == [f EXCEPT !.received = f.received + 1, !.peer = PeerAfter(f, c)]
<1>1. /\ seen.ring = f.ring /\ seen.recovering = f.recovering /\ seen.failed = f.failed
      /\ DropChunk(seen).ring = f.ring /\ DropChunk(seen).failed = f.failed
      /\ DropChunk(Fail(seen)).failed
  BY DEF Forwarder, DropChunk, Fail, Discard
<1>2. CASE Closed(seen)
  BY <1>1, <1>2 DEF Push, Closed
<1>3. CASE ~Closed(seen) /\ Len(f.ring) >= Capacity
  BY <1>1, <1>3 DEF Push
<1>4. CASE ~Closed(seen) /\ ~(Len(f.ring) >= Capacity)
  <2>1. Push(f, c) = [seen EXCEPT !.ring = Append(f.ring, c)]
    BY <1>1, <1>4 DEF Push
  <2> QED
    BY <2>1 DEF Forwarder
<1> QED
  BY <1>2, <1>3, <1>4

\* A pop takes the head of the ring.
LEMMA PopFacts ==
  ASSUME NEW f \in Forwarder, CanPop(f)
  PROVE  /\ Pop(f) \in Forwarder
         /\ Head(f.ring) \in Chunk
         /\ Pop(f).ring = Tail(f.ring)
         /\ Len(f.ring) = Len(Pop(f).ring) + 1
         /\ Pop(f).discarded = f.discarded
         /\ Pop(f).received = f.received
         /\ Pop(f).forwarded = f.forwarded
         /\ Pop(f).peer = f.peer
         /\ Pop(f).generation = f.generation
         /\ Pop(f).recovering = f.recovering
         /\ Pop(f).failed = f.failed
<1>1. f.ring \in Seq(Chunk) /\ f.ring # << >>
  BY DEF CanPop, Forwarder
<1>2. /\ Head(f.ring) \in Chunk /\ Tail(f.ring) \in Seq(Chunk)
      /\ Len(f.ring) = Len(Tail(f.ring)) + 1
  BY <1>1
<1> QED
  BY <1>2 DEF Pop, Forwarder

\* A new session has a generation of its own and no fault; with a known Nano its
\* ring is empty and closed until the re-enumeration.
LEMMA BeginFacts ==
  ASSUME NEW f \in Forwarder
  PROVE  /\ Begin(f) \in Forwarder
         /\ Begin(f).generation = f.generation + 1
         /\ ~Begin(f).failed
         /\ Begin(f).recovering = (f.peer = "nano")
         /\ Begin(f).peer = f.peer
         /\ Begin(f).received = f.received
         /\ Begin(f).forwarded = f.forwarded
         /\ Begin(f).discarded + Len(Begin(f).ring) = f.discarded + Len(f.ring)
         /\ Begin(f).ring = IF f.peer = "nano" THEN << >> ELSE f.ring
<1> DEFINE opened == [f EXCEPT !.generation = f.generation + 1, !.failed = FALSE,
                               !.recovering = (f.peer = "nano")]
<1>1. /\ opened \in Forwarder
      /\ opened.generation = f.generation + 1 /\ ~opened.failed
      /\ opened.recovering = (f.peer = "nano")
      /\ opened.peer = f.peer /\ opened.received = f.received
      /\ opened.forwarded = f.forwarded /\ opened.discarded = f.discarded
      /\ opened.ring = f.ring
  <2> DEFINE begun == [f EXCEPT !.generation = f.generation + 1]
             cleared == [begun EXCEPT !.failed = FALSE]
  <2>1. begun \in Forwarder
    BY DEF Forwarder
  <2>2. cleared \in Forwarder
    BY <2>1 DEF Forwarder
  <2>3. opened = [cleared EXCEPT !.recovering = (f.peer = "nano")]
    BY DEF Forwarder
  <2>4. opened \in Forwarder
    BY <2>2, <2>3 DEF Forwarder
  <2> QED
    BY <2>4 DEF Forwarder
<1> HIDE DEF opened
<1>2. f.discarded \in Nat /\ Len(f.ring) \in Nat
  BY DEF Forwarder
<1>3. CASE f.peer = "nano"
  <2>1. Begin(f) = Discard(opened)
    BY <1>3 DEF Begin, opened
  <2> QED
    BY <1>1, <1>2, <1>3, <2>1, DiscardFacts, EmptyRing
<1>4. CASE f.peer # "nano"
  BY <1>1, <1>2, <1>4 DEF Begin, opened
<1> QED
  BY <1>3, <1>4

\* A finished re-enumeration opens an empty ring, and leaves a failure in place.
LEMMA RecoveredFacts ==
  ASSUME NEW f \in Forwarder
  PROVE  /\ Recovered(f) \in Forwarder
         /\ ~Recovered(f).recovering
         /\ Recovered(f).ring = << >>
         /\ Recovered(f).discarded = f.discarded + Len(f.ring)
         /\ Recovered(f).received = f.received
         /\ Recovered(f).forwarded = f.forwarded
         /\ Recovered(f).peer = f.peer
         /\ Recovered(f).generation = f.generation
         /\ Recovered(f).failed = f.failed
  BY DiscardFacts DEF Recovered, Forwarder

-----------------------------------------------------------------------------
(* Chunks in hand.                                                         *)

Batch == [chunk : Chunk, under : Nat]

\* A sequence that holds nothing, or one element, is a sequence.
LEMMA Singletons ==
  /\ << >> \in Seq(Chunk) /\ << >> \in Seq(Batch) /\ Len(<< >>) = 0
  /\ \A c \in Chunk : << c >> \in Seq(Chunk) /\ Len(<< c >>) = 1
  /\ \A b \in Batch : << b >> \in Seq(Batch) /\ Len(<< b >>) = 1
  OBVIOUS

\* A sequence that is not empty has a first element.
LEMMA FirstElement ==
  ASSUME NEW S, NEW s \in Seq(S), s # << >>
  PROVE  Len(s) \in Nat \ {0} /\ s[1] \in S
<1>1. Len(s) \in Nat \ {0}
  OBVIOUS
<1> QED
  BY <1>1

-----------------------------------------------------------------------------
(* Types.                                                                  *)

\* The chunk cdc_rx_callback reads, and the same chunk as it pushes it.
LEMMA ChunkTypes ==
  /\ \A i, u \in Nat, k \in Kinds :
       [id |-> i, kind |-> k, usb |-> u, pushedIn |-> 0, peer |-> "unknown"] \in Chunk
  /\ \A c \in Chunk, g \in Nat, p \in Peers :
       [c EXCEPT !.pushedIn = g, !.peer = p] \in Chunk
  BY DEF Chunk, Peers, Kinds

\* The chunk UsbPush hands to tan_forward_push.
Pushed(f, c) == [c EXCEPT !.pushedIn = f.generation, !.peer = PeerAfter(f, c)]

\* That chunk is a chunk.
LEMMA UsbPushType ==
  ASSUME TypeOK, held # << >>
  PROVE  held[1] \in Chunk /\ Pushed(fw, held[1]) \in Chunk
<1>1. held[1] \in Chunk
  BY FirstElement DEF TypeOK
<1>2. fw.generation \in Nat /\ PeerAfter(fw, held[1]) \in Peers
  BY <1>1, PeerFacts DEF TypeOK, Forwarder
<1> QED
  BY <1>1, <1>2, ChunkTypes DEF Pushed

\* The chunk app_main holds, while it holds one.
LEMMA BatchType ==
  ASSUME TypeOK, batch # << >>
  PROVE  batch[1] \in Batch /\ batch[1].chunk \in Chunk /\ batch[1].under \in Nat
<1>1. batch[1] \in Batch
  BY FirstElement DEF TypeOK, Batch
<1> QED
  BY <1>1 DEF Batch

-----------------------------------------------------------------------------
(* The type invariant, with the one fact its proof needs: app_main holds a   *)
(* chunk between a pop and what becomes of it.                               *)

BatchHeld == batch # << >> <=> main \in {"popped", "locking", "sending"}

TypeInv == TypeOK /\ BatchHeld

\* The variables the tasks use as flags are Boolean; only network_task copies one from
\* the forwarder.
Flags == {attached, request, setup, client, authed} \subseteq BOOLEAN

\* No step, of any task, sets a flag to anything but a Boolean.
LEMMA FlagTypes == TypeOK /\ [Next]_vars => Flags'
<1> SUFFICES ASSUME TypeOK, [Next]_vars PROVE Flags'
  OBVIOUS
<1>0. Flags /\ fw \in Forwarder
  BY DEF TypeOK, Flags
<1> USE <1>0 DEF Flags, usbVars, mainVars, netVars, wsVars
<1>1. ASSUME NEW kind \in Kinds, UsbRead(kind) PROVE Flags'
  BY <1>1 DEF UsbRead
<1>2. CASE UsbPush
  BY <1>2 DEF UsbPush
<1>3. CASE DropDtr
  BY <1>3 DEF DropDtr
<1>4. CASE Main
  <2>1. CASE RecoverStart \/ RecoverEnd
    BY <2>1 DEF RecoverStart, RecoverEnd
  <2>2. CASE PopChunk
    BY <2>2 DEF PopChunk
  <2>3. CASE Dispatch
    BY <2>3 DEF Dispatch
  <2>4. CASE LockForSend \/ LockTimeout
    BY <2>4 DEF LockForSend, LockTimeout
  <2>5. CASE SendOk \/ SendFails
    BY <2>5 DEF SendOk, SendFails
  <2>6. CASE FailStream \/ LeaveFailure
    BY <2>6 DEF FailStream, LeaveFailure
  <2> QED
    BY <1>4, <2>1, <2>2, <2>3, <2>4, <2>5, <2>6 DEF Main
<1>5. CASE Network
  <2> USE DEF netFrame
  <2>1. CASE NetStart \/ NetConnected \/ NetAuthenticated
    BY <2>1 DEF NetStart, NetConnected, NetAuthenticated
  <2>2. CASE NetLock \/ NetDiagnose \/ NetOnline
    BY <2>2 DEF NetLock, NetDiagnose, NetOnline
  <2>3. CASE NetAttach
    <3>1. fw'.recovering \in BOOLEAN
      BY <2>3, BeginFacts DEF NetAttach
    <3> QED
      BY <2>3, <3>1 DEF NetAttach
  <2>4. CASE NetDetach \/ NetStop
    BY <2>4 DEF NetDetach, NetStop
  <2> QED
    BY <1>5, <2>1, <2>2, <2>3, <2>4 DEF Network
<1>6. CASE Ws
  BY <1>6 DEF Ws, WsConnected, WsLost, WsAccepted, WsFault, wsFrame
<1>7. ASSUME NEW t \in Tasks, Signal(t) PROVE Flags'
  BY <1>7 DEF Signal
<1>8. CASE UNCHANGED vars
  BY <1>8 DEF vars
<1> QED
  BY <1>1, <1>2, <1>3, <1>4, <1>5, <1>6, <1>7, <1>8 DEF Next

\* The callbacks and the WebSocket client keep the types.
LEMMA CallbackTypes ==
  ASSUME TypeInv, Flags',
         \/ \E kind \in Kinds : UsbRead(kind)
         \/ UsbPush \/ DropDtr \/ Ws
         \/ \E t \in Tasks : Signal(t)
  PROVE  TypeInv'
<1> USE DEF TypeInv, TypeOK, BatchHeld, Flags, usbVars, mainVars, netVars, wsVars
<1>1. ASSUME NEW kind \in Kinds, UsbRead(kind) PROVE TypeInv'
  <2> DEFINE c == [id |-> emitted + 1, kind |-> kind, usb |-> usbSession,
                   pushedIn |-> 0, peer |-> "unknown"]
  <2>1. c \in Chunk
    <3>1. emitted + 1 \in Nat /\ usbSession \in Nat
      OBVIOUS
    <3> QED
      BY <3>1, ChunkTypes
  <2>2. held' = << c >>
    BY <1>1 DEF UsbRead
  <2> HIDE DEF c
  <2>3. held' \in Seq(Chunk) /\ Len(held') <= 1
    BY <2>1, <2>2, Singletons
  <2> QED
    BY <1>1, <2>3 DEF UsbRead
<1>2. CASE UsbPush
  <2> DEFINE c == Pushed(fw, held[1])
  <2>1. c \in Chunk
    BY <1>2, UsbPushType DEF UsbPush
  <2>2. fw' = Push(fw, c)
    BY <1>2 DEF UsbPush, Pushed
  <2> HIDE DEF c
  <2>3. fw' \in Forwarder
    BY <2>1, <2>2, PushFacts
  <2>4. held' \in Seq(Chunk) /\ Len(held') <= 1
    BY <1>2, Singletons DEF UsbPush
  <2> QED
    BY <1>2, <2>3, <2>4 DEF UsbPush, Tasks
<1>3. CASE DropDtr
  BY <1>3 DEF DropDtr
<1>4. CASE Ws
  BY <1>4, FailFacts DEF Ws, WsConnected, WsLost, WsAccepted, WsFault, wsFrame, Tasks
<1>5. ASSUME NEW t \in Tasks, Signal(t) PROVE TypeInv'
  BY <1>5 DEF Signal
<1> QED
  BY <1>1, <1>2, <1>3, <1>4, <1>5

\* app_main keeps the types.
LEMMA MainTypes == TypeInv /\ Flags' /\ Main => TypeInv'
<1> SUFFICES ASSUME TypeInv, Flags', Main PROVE TypeInv'
  OBVIOUS
<1> USE DEF TypeInv, TypeOK, BatchHeld, Flags, usbVars, mainVars, netVars, wsVars
<1>1. CASE RecoverStart
  BY <1>1 DEF RecoverStart
<1>2. CASE RecoverEnd
  BY <1>2, RecoveredFacts DEF RecoverEnd
<1>3. CASE PopChunk
  <2>1. CASE CanPop(fw)
    <3> DEFINE b == [chunk |-> Head(fw.ring), under |-> fw.generation]
    <3>1. Pop(fw) \in Forwarder /\ Head(fw.ring) \in Chunk
      BY <2>1, PopFacts
    <3>2. b \in Batch
      BY <3>1 DEF Batch, Forwarder
    <3>3. fw' = Pop(fw) /\ batch' = << b >> /\ main' = "popped"
      BY <1>3, <2>1 DEF PopChunk
    <3> HIDE DEF b
    <3>4. batch' \in Seq(Batch) /\ Len(batch') <= 1 /\ batch' # << >>
      BY <3>2, <3>3, Singletons
    <3> QED
      BY <1>3, <3>1, <3>3, <3>4 DEF PopChunk, Batch
  <2>2. CASE ~CanPop(fw)
    BY <1>3, <2>2 DEF PopChunk
  <2> QED
    BY <2>1, <2>2
<1>4. CASE Dispatch
  <2>1. CASE main' = "top" /\ batch' = << >>
    BY <1>4, <2>1, Singletons DEF Dispatch, Batch
  <2>2. CASE main' = "locking" /\ UNCHANGED <<consumed, batch>>
    BY <1>4, <2>2 DEF Dispatch
  <2> QED
    BY <1>4, <2>1, <2>2 DEF Dispatch
<1>5. CASE LockForSend
  <2>1. CASE mutex' = "main" /\ main' = "sending" /\ UNCHANGED <<fw, batch>>
    BY <1>5, <2>1 DEF LockForSend
  <2>2. CASE fw' = DropChunk(fw) /\ batch' = << >> /\ main' = "top" /\ UNCHANGED mutex
    BY <1>5, <2>2, Singletons, DropChunkFacts DEF LockForSend, Batch
  <2> QED
    BY <1>5, <2>1, <2>2 DEF LockForSend
<1>6. CASE LockTimeout
  BY <1>6, Singletons, DropChunkFacts DEF LockTimeout, Batch
<1>7. CASE SendOk
  <2> DEFINE e == [chunk |-> batch[1].chunk, under |-> fw.generation]
  <2>1. e \in Batch
    BY <1>7, BatchType DEF SendOk, Batch, Forwarder
  <2>2. tunnel' = Append(tunnel, e)
    BY <1>7 DEF SendOk
  <2> HIDE DEF e
  <2>3. tunnel' \in Seq(Batch)
    BY <2>1, <2>2 DEF Batch
  <2>4. fw' \in Forwarder
    BY <1>7, SentFacts DEF SendOk
  <2> QED
    BY <1>7, <2>3, <2>4, Singletons DEF SendOk, Batch
<1>8. CASE SendFails
  BY <1>8, Singletons, DropChunkFacts DEF SendFails, Batch
<1>9. CASE FailStream
  BY <1>9, FailFacts DEF FailStream, Tasks
<1>10. CASE LeaveFailure
  BY <1>10 DEF LeaveFailure
<1> QED
  BY <1>1, <1>2, <1>3, <1>4, <1>5, <1>6, <1>7, <1>8, <1>9, <1>10 DEF Main

\* network_task keeps the types.
LEMMA NetworkTypes == TypeInv /\ Flags' /\ Network => TypeInv'
<1> SUFFICES ASSUME TypeInv, Flags', Network PROVE TypeInv'
  OBVIOUS
<1> USE DEF TypeInv, TypeOK, BatchHeld, Flags, usbVars, mainVars, netVars, wsVars, netFrame
<1>1. CASE NetStart \/ NetConnected \/ NetAuthenticated
  <2>1. CASE NetStart
    BY <2>1 DEF NetStart
  <2>2. CASE NetConnected
    BY <2>2 DEF NetConnected
  <2>3. CASE NetAuthenticated
    BY <2>3 DEF NetAuthenticated
  <2> QED
    BY <1>1, <2>1, <2>2, <2>3
<1>2. CASE NetLock
  BY <1>2 DEF NetLock
<1>3. CASE NetAttach
  <2>1. fw' \in Forwarder /\ fw'.recovering \in BOOLEAN
    BY <1>3, BeginFacts DEF NetAttach
  <2> QED
    BY <1>3, <2>1 DEF NetAttach
<1>4. CASE NetDiagnose
  <2>1. CASE net' = "online" /\ UNCHANGED <<fw, bits>>
    BY <1>4, <2>1 DEF NetDiagnose
  <2>2. CASE net' = "closing" /\ fw' = Fail(fw) /\ bits' = bits \cup {"failed"}
    BY <1>4, <2>2, FailFacts DEF NetDiagnose
  <2> QED
    BY <1>4, <2>1, <2>2 DEF NetDiagnose
<1>5. CASE NetOnline
  BY <1>5 DEF NetOnline
<1>6. CASE NetDetach
  BY <1>6, FailFacts DEF NetDetach
<1>7. CASE NetStop
  BY <1>7 DEF NetStop
<1> QED
  BY <1>1, <1>2, <1>3, <1>4, <1>5, <1>6, <1>7 DEF Network

\* Every step keeps the types.
LEMMA TypeStep == TypeInv /\ [Next]_vars => TypeInv'
<1>1. TypeInv /\ UNCHANGED vars => TypeInv'
  BY DEF TypeInv, TypeOK, BatchHeld, vars, usbVars, mainVars, netVars, wsVars
<1>2. TypeInv => TypeOK
  BY DEF TypeInv
<1> QED
  BY <1>1, <1>2, FlagTypes, CallbackTypes, MainTypes, NetworkTypes DEF Next

\* The state the firmware boots in has the types.
LEMMA TypeInit == Init => TypeInv
<1> SUFFICES ASSUME Init PROVE TypeInv
  OBVIOUS
<1>1. fw \in Forwarder
  BY EmptyRing DEF Init, InitialForwarder, Forwarder, Peers
<1>2. Flags
  BY DEF Init, Flags
<1> QED
  BY <1>1, <1>2, Singletons DEF Init, TypeInv, TypeOK, BatchHeld, Flags, Batch, Tasks

\* The variables of every task keep their types, in every interleaving.
THEOREM TypesHold == Spec => []TypeOK
<1>1. Spec => []TypeInv
  BY TypeInit, TypeStep, PTL DEF Spec
<1>2. TypeInv => TypeOK
  BY DEF TypeInv
<1> QED
  BY <1>1, <1>2, PTL

-----------------------------------------------------------------------------
(* Conservation.                                                           *)

\* The lengths and counters Conservation adds up are numbers, and app_main holds one
\* chunk or none.
Counts ==
  /\ fw \in Forwarder
  /\ fw.received \in Nat /\ fw.forwarded \in Nat /\ fw.discarded \in Nat
  /\ Len(fw.ring) \in Nat /\ consumed \in Nat /\ Len(batch) \in Nat
  /\ Len(batch) = IF main \in {"popped", "locking", "sending"} THEN 1 ELSE 0

\* The type invariant gives the counts their types.
LEMMA CountTypes == TypeInv => Counts
<1> SUFFICES ASSUME TypeInv PROVE Counts
  OBVIOUS
<1>1. fw \in Forwarder /\ consumed \in Nat /\ batch \in Seq(Batch) /\ Len(batch) <= 1
  BY DEF TypeInv, TypeOK, Batch
<1>2. /\ fw.received \in Nat /\ fw.forwarded \in Nat /\ fw.discarded \in Nat
      /\ Len(fw.ring) \in Nat
  BY <1>1 DEF Forwarder
<1>3. Len(batch) = IF batch # << >> THEN 1 ELSE 0
  <2>1. CASE batch # << >>
    <3>1. Len(batch) \in Nat \ {0}
      BY <1>1, <2>1, FirstElement
    <3>2. Len(batch) = 1
      BY <1>1, <3>1
    <3> QED
      BY <2>1, <3>2
  <2>2. CASE batch = << >>
    BY <2>2, Singletons
  <2> QED
    BY <2>1, <2>2
<1> QED
  BY <1>1, <1>2, <1>3 DEF Counts, TypeInv, BatchHeld

\* What a step adds to the chunks received, it adds to the places a chunk may be.
Moved(received, forwarded, closed, used, hands) ==
  /\ fw'.received = fw.received + received
  /\ fw'.forwarded = fw.forwarded + forwarded
  /\ fw'.discarded + Len(fw'.ring) = fw.discarded + Len(fw.ring) + closed
  /\ consumed' = consumed + used
  /\ Len(batch') = Len(batch) + hands

\* A step that moves as many chunks as it adds keeps the account balanced.
LEMMA Balance ==
  ASSUME Counts, Counts', Conservation,
         NEW r \in Int, NEW f \in Int, NEW d \in Int, NEW u \in Int, NEW h \in Int,
         Moved(r, f, d, u, h), r = f + d + u + h
  PROVE  Conservation'
<1> DEFINE f1 == fw.forwarded   d1 == fw.discarded   l1 == Len(fw.ring)
           u1 == consumed       h1 == Len(batch)     r1 == fw.received
           f2 == fw'.forwarded  d2 == fw'.discarded  l2 == Len(fw'.ring)
           u2 == consumed'      h2 == Len(batch')    r2 == fw'.received
<1>1. f1 \in Int /\ d1 \in Int /\ l1 \in Int /\ u1 \in Int /\ h1 \in Int
  BY DEF Counts
<1>2. f2 \in Int /\ d2 \in Int /\ l2 \in Int /\ u2 \in Int /\ h2 \in Int
  BY DEF Counts
<1>3. /\ r1 = f1 + d1 + u1 + l1 + h1 /\ r2 = r1 + r
      /\ f2 = f1 + f /\ d2 + l2 = d1 + l1 + d /\ u2 = u1 + u /\ h2 = h1 + h
  BY DEF Moved, Conservation
<1>4. r2 = f2 + d2 + u2 + l2 + h2
  <2> HIDE DEF f1, d1, l1, u1, h1, r1, f2, d2, l2, u2, h2, r2
  <2> QED
    BY <1>1, <1>2, <1>3
<1> QED
  BY <1>4 DEF Conservation

Balanced == \E r, f, d, u, h \in Int : Moved(r, f, d, u, h) /\ r = f + d + u + h

\* A step that loses no chunk and leaves those in hand alone.
Still ==
  /\ UNCHANGED <<consumed, batch>>
  /\ fw'.received = fw.received /\ fw'.forwarded = fw.forwarded
  /\ fw'.discarded + Len(fw'.ring) = fw.discarded + Len(fw.ring)

\* Such a step keeps the account balanced.
LEMMA StillBalances ==
  ASSUME Counts, Still
  PROVE  Balanced
<1> DEFINE r1 == fw.received   f1 == fw.forwarded   a1 == fw.discarded + Len(fw.ring)
           u1 == consumed      h1 == Len(batch)
<1>1. r1 \in Int /\ f1 \in Int /\ a1 \in Int /\ u1 \in Int /\ h1 \in Int
  BY DEF Counts
<1>2. /\ fw'.received = r1 /\ fw'.forwarded = f1 /\ fw'.discarded + Len(fw'.ring) = a1
      /\ consumed' = u1 /\ Len(batch') = h1
  BY DEF Still
<1>3. r1 = r1 + 0 /\ f1 = f1 + 0 /\ a1 = a1 + 0 /\ u1 = u1 + 0 /\ h1 = h1 + 0
  <2> HIDE DEF r1, f1, a1, u1, h1
  <2> QED
    BY <1>1
<1>4. Moved(0, 0, 0, 0, 0)
  BY <1>2, <1>3, Zenon DEF Moved
<1> QED
  BY <1>4 DEF Balanced

\* A step that touches neither the forwarder nor what app_main and the setup
\* protocol hold is one.
LEMMA IdleIsStill ==
  ASSUME UNCHANGED <<fw, consumed, batch>>
  PROVE  Still
  BY DEF Still

\* A failure is one: the ring it empties is counted as discarded.
LEMMA FailIsStill ==
  ASSUME Counts, fw' = Fail(fw), UNCHANGED <<consumed, batch>>
  PROVE  Still
<1>1. /\ fw'.ring = << >> /\ fw'.discarded = fw.discarded + Len(fw.ring)
      /\ fw'.received = fw.received /\ fw'.forwarded = fw.forwarded
  BY FailFacts DEF Counts
<1> DEFINE a1 == fw.discarded + Len(fw.ring)
<1>2. a1 \in Int
  BY DEF Counts
<1>3. a1 + 0 = a1
  <2> HIDE DEF a1
  <2> QED
    BY <1>2
<1> QED
  BY <1>1, <1>3, EmptyRing DEF Still

\* A chunk in hand is dropped.
LEMMA DropBalances ==
  ASSUME Counts, fw' = DropChunk(fw), UNCHANGED consumed, Len(batch) = 1, Len(batch') = 0
  PROVE  Balanced
<1>1. /\ fw'.ring = fw.ring /\ fw'.discarded = fw.discarded + 1
      /\ fw'.received = fw.received /\ fw'.forwarded = fw.forwarded
  BY DropChunkFacts DEF Counts
<1> DEFINE r1 == fw.received   f1 == fw.forwarded  d1 == fw.discarded
           l1 == Len(fw.ring)  u1 == consumed
<1>2. r1 \in Int /\ f1 \in Int /\ d1 \in Int /\ l1 \in Int /\ u1 \in Int
  BY DEF Counts
<1>3. /\ r1 = r1 + 0 /\ f1 = f1 + 0 /\ (d1 + 1) + l1 = d1 + l1 + 1 /\ u1 = u1 + 0
      /\ 0 = 1 + (0 - 1)
  <2> HIDE DEF r1, f1, d1, l1, u1
  <2> QED
    BY <1>2
<1>4. Moved(0, 0, 1, 0, 0 - 1)
  BY <1>1, <1>3, Zenon DEF Moved
<1> QED
  BY <1>4 DEF Balanced

\* A chunk moves from the USB peer into the ring or the discarded, from the ring into
\* app_main's hands, and from there to the setup protocol or the tunnel.
LEMMA PushBalances ==
  ASSUME TypeInv, Counts, UsbPush
  PROVE  Balanced
<1> DEFINE c == Pushed(fw, held[1])
           f1 == fw.forwarded  a1 == fw.discarded + Len(fw.ring)
           u1 == consumed      h1 == Len(batch)
<1>1. c \in Chunk /\ fw' = Push(fw, c)
  BY UsbPushType DEF UsbPush, Pushed, TypeInv
<1>2. /\ fw'.received = fw.received + 1 /\ fw'.forwarded = f1
      /\ fw'.discarded + Len(fw'.ring) = a1 + 1
  <2> HIDE DEF c
  <2> QED
    BY <1>1, PushFacts DEF Counts
<1>3. consumed' = u1 /\ Len(batch') = h1
  BY DEF UsbPush, mainVars
<1>4. f1 \in Int /\ u1 \in Int /\ h1 \in Int
  BY DEF Counts
<1>5. f1 = f1 + 0 /\ u1 = u1 + 0 /\ h1 = h1 + 0
  <2> HIDE DEF f1, u1, h1
  <2> QED
    BY <1>4
<1>6. Moved(1, 0, 1, 0, 0)
  BY <1>2, <1>3, <1>5, Zenon DEF Moved
<1> QED
  BY <1>6 DEF Balanced

\* A pop moves one chunk from the ring into app_main's hands.
LEMMA PopBalances ==
  ASSUME Counts, Counts', PopChunk, CanPop(fw)
  PROVE  Balanced
<1> DEFINE r1 == fw.received  f1 == fw.forwarded  d1 == fw.discarded
           l1 == Len(fw.ring)  l2 == Len(fw'.ring)  u1 == consumed
<1>1. /\ fw' = Pop(fw) /\ main' = "popped" /\ main \in {"pop", "top"}
      /\ UNCHANGED consumed
  BY DEF PopChunk
<1>2. /\ fw'.received = r1 /\ fw'.forwarded = f1 /\ fw'.discarded = d1 /\ l1 = l2 + 1
  BY <1>1, PopFacts DEF Counts
<1>3. /\ r1 \in Int /\ f1 \in Int /\ d1 \in Int /\ u1 \in Int /\ l1 \in Int /\ l2 \in Int
      /\ Len(batch) = 0 /\ Len(batch') = 1
  BY <1>1 DEF Counts
<1>4. /\ r1 = r1 + 0 /\ f1 = f1 + 0 /\ d1 + l2 = d1 + l1 + (0 - 1) /\ u1 = u1 + 0
      /\ 1 = 0 + 1
  <2> HIDE DEF r1, f1, d1, l1, l2, u1
  <2> QED
    BY <1>2, <1>3
<1>5. Moved(0, 0, 0 - 1, 0, 1)
  BY <1>1, <1>2, <1>3, <1>4, Zenon DEF Moved
<1> QED
  BY <1>5 DEF Balanced

\* The chunk in hand is forwarded, or given to the setup protocol.
LEMMA HandsEmptied ==
  ASSUME Counts, NEW u \in Int, NEW f \in Int, f + u = 1,
         fw'.received = fw.received, fw'.forwarded = fw.forwarded + f,
         fw'.discarded = fw.discarded, fw'.ring = fw.ring, consumed' = consumed + u,
         Len(batch) = 1, Len(batch') = 0
  PROVE  Balanced
<1> DEFINE r1 == fw.received  a1 == fw.discarded + Len(fw.ring)
<1>1. r1 \in Int /\ a1 \in Int
  BY DEF Counts
<1>2. r1 = r1 + 0 /\ a1 = a1 + 0 /\ 0 = 1 + (0 - 1) /\ 0 = f + 0 + u + (0 - 1)
  <2> HIDE DEF r1, a1
  <2> QED
    BY <1>1
<1>3. Moved(0, f, 0, u, 0 - 1)
  BY <1>2, Zenon DEF Moved
<1> SUFFICES \E v, w, x, y, z \in Int : Moved(v, w, x, y, z) /\ v = w + x + y + z
  BY DEF Balanced
<1> WITNESS 0 \in Int, f \in Int, 0 \in Int, u \in Int, 0 - 1 \in Int
<1> QED
  BY <1>2, <1>3

\* Each step of app_main moves at most one chunk.
LEMMA MainBalances ==
  ASSUME Counts, Counts', Main
  PROVE  Balanced
<1>0. Counts /\ Counts'
  OBVIOUS
<1> USE DEF usbVars, mainVars, netVars, wsVars
<1>1. CASE RecoverStart \/ LeaveFailure
  BY <1>1, IdleIsStill, StillBalances DEF RecoverStart, LeaveFailure
<1>2. CASE RecoverEnd
  <2> DEFINE a1 == fw.discarded + Len(fw.ring)
  <2>1. /\ fw'.ring = << >> /\ fw'.discarded = a1
        /\ fw'.received = fw.received /\ fw'.forwarded = fw.forwarded
    BY <1>2, RecoveredFacts DEF RecoverEnd, Counts
  <2>2. a1 \in Int
    BY DEF Counts
  <2>3. a1 + 0 = a1
    <3> HIDE DEF a1
    <3> QED
      BY <2>2
  <2>4. Still
    BY <1>2, <2>1, <2>3, EmptyRing DEF RecoverEnd, Still
  <2> QED
    BY <2>4, StillBalances
<1>3. CASE PopChunk
  <2>1. CASE CanPop(fw)
    BY <1>3, <2>1, PopBalances
  <2>2. CASE ~CanPop(fw)
    BY <1>3, <2>2, IdleIsStill, StillBalances DEF PopChunk
  <2> QED
    BY <2>1, <2>2
<1>4. CASE Dispatch
  <2>1. CASE UNCHANGED <<consumed, batch>>
    BY <1>4, <2>1, IdleIsStill, StillBalances DEF Dispatch
  <2>2. CASE consumed' = consumed + 1 /\ main' = "top"
    <3>1. fw' = fw /\ Len(batch) = 1 /\ Len(batch') = 0
      BY <1>4, <2>2 DEF Dispatch, Counts
    <3>2. fw'.forwarded = fw.forwarded + 0
      BY <3>1, SMT DEF Counts
    <3> QED
      BY <2>2, <3>1, <3>2, HandsEmptied
  <2> QED
    BY <1>4, <2>1, <2>2 DEF Dispatch
<1>5. CASE LockForSend
  <2>1. CASE UNCHANGED <<fw, batch>>
    BY <1>5, <2>1, IdleIsStill, StillBalances DEF LockForSend
  <2>2. CASE fw' = DropChunk(fw) /\ main' = "top"
    <3>1. UNCHANGED consumed /\ Len(batch) = 1 /\ Len(batch') = 0
      BY <1>5, <2>2 DEF LockForSend, Counts
    <3> QED
      BY <2>2, <3>1, DropBalances
  <2> QED
    BY <1>5, <2>1, <2>2 DEF LockForSend
<1>6. CASE LockTimeout \/ SendFails
  <2>1. fw' = DropChunk(fw) /\ UNCHANGED consumed /\ Len(batch) = 1 /\ Len(batch') = 0
    BY <1>6 DEF LockTimeout, SendFails, Counts
  <2> QED
    BY <2>1, DropBalances
<1>7. CASE SendOk
  <2>1. consumed' = consumed + 0 /\ Len(batch) = 1 /\ Len(batch') = 0
    BY <1>7 DEF SendOk, Counts
  <2>2. /\ fw'.received = fw.received /\ fw'.forwarded = fw.forwarded + 1
        /\ fw'.discarded = fw.discarded /\ fw'.ring = fw.ring
    BY <1>7, SentFacts DEF SendOk, Counts
  <2> QED
    BY <2>1, <2>2, HandsEmptied
<1>8. CASE FailStream
  BY <1>8, FailIsStill, StillBalances DEF FailStream
<1> QED
  BY <1>1, <1>2, <1>3, <1>4, <1>5, <1>6, <1>7, <1>8 DEF Main

\* A new session may empty the ring, a failure empties it: the rest of network_task
\* touches no chunk.
LEMMA NetworkBalances ==
  ASSUME Counts, Network
  PROVE  Balanced
<1> USE DEF netFrame, usbVars, mainVars, netVars, wsVars
<1>1. CASE NetStart \/ NetConnected \/ NetAuthenticated \/ NetLock \/ NetOnline \/ NetStop
  <2>1. UNCHANGED <<fw, consumed, batch>>
    BY <1>1 DEF NetStart, NetConnected, NetAuthenticated, NetLock, NetOnline, NetStop
  <2> QED
    BY <2>1, IdleIsStill, StillBalances
<1>2. CASE NetAttach
  <2>1. fw' = Begin(fw) /\ UNCHANGED <<consumed, batch>>
    BY <1>2 DEF NetAttach
  <2>2. Still
    BY <2>1, BeginFacts DEF Still, Counts
  <2> QED
    BY <2>2, StillBalances
<1>3. CASE NetDiagnose \/ NetDetach
  <2>1. (fw' = fw \/ fw' = Fail(fw)) /\ UNCHANGED <<consumed, batch>>
    BY <1>3 DEF NetDiagnose, NetDetach
  <2> QED
    BY <2>1, IdleIsStill, FailIsStill, StillBalances
<1> QED
  BY <1>1, <1>2, <1>3 DEF Network

\* Each step moves chunks from one place to another, or counts one in.
LEMMA ConservationStep ==
  TypeInv /\ Counts /\ Counts' /\ Conservation /\ [Next]_vars => Conservation'
<1> SUFFICES ASSUME TypeInv, Counts, Counts', Conservation, [Next]_vars PROVE Balanced
  BY Balance DEF Balanced
<1> USE DEF usbVars, mainVars, netVars, wsVars
<1>1. ASSUME NEW kind \in Kinds, UsbRead(kind) PROVE Balanced
  BY <1>1, IdleIsStill, StillBalances DEF UsbRead
<1>2. CASE DropDtr
  BY <1>2, IdleIsStill, StillBalances DEF DropDtr
<1>3. CASE Ws
  <2>1. (fw' = fw \/ fw' = Fail(fw)) /\ UNCHANGED <<consumed, batch>>
    BY <1>3 DEF Ws, WsConnected, WsLost, WsAccepted, WsFault, wsFrame
  <2> QED
    BY <2>1, IdleIsStill, FailIsStill, StillBalances
<1>4. ASSUME NEW t \in Tasks, Signal(t) PROVE Balanced
  BY <1>4, IdleIsStill, StillBalances DEF Signal
<1>5. CASE UNCHANGED vars
  BY <1>5, IdleIsStill, StillBalances DEF vars
<1> QED
  BY <1>1, <1>2, <1>3, <1>4, <1>5, PushBalances, MainBalances, NetworkBalances DEF Next

\* Every chunk pushed is forwarded, discarded, given to the setup protocol, in the
\* ring or in app_main's hands - once, whatever the capacity and the interleaving.
THEOREM NothingUncounted == Spec => []Conservation
<1>1. Init => Conservation
  BY Singletons DEF Init, InitialForwarder, Conservation
<1> QED
  BY <1>1, TypeInit, TypeStep, CountTypes, ConservationStep, PTL DEF Spec

-----------------------------------------------------------------------------
(* The client is not destroyed while app_main sends through it.            *)

\* app_main sends only with bridge_mutex, and only through a client that is set;
\* network_task changes the client under the same mutex, and stops one it has cleared.
SendLocked == main = "sending" => mutex = "main" /\ client
ClientInSession == client => net \in {"diagnosing", "online", "closing"}

LockInv == SendLocked /\ ClientInSession

\* Every step keeps the mutex between a send and a change of the client.
LEMMA LockStep == TypeOK /\ LockInv /\ [Next]_vars => LockInv'
<1> SUFFICES ASSUME TypeOK, LockInv, [Next]_vars PROVE LockInv'
  OBVIOUS
<1> USE DEF LockInv, SendLocked, ClientInSession, usbVars, mainVars, netVars, wsVars
<1>1. ASSUME NEW kind \in Kinds, UsbRead(kind) PROVE LockInv'
  BY <1>1 DEF UsbRead
<1>2. CASE UsbPush \/ DropDtr
  BY <1>2 DEF UsbPush, DropDtr
<1>3. CASE Main
  <2>1. CASE RecoverStart \/ RecoverEnd \/ FailStream
    BY <2>1 DEF RecoverStart, RecoverEnd, FailStream
  <2>2. CASE PopChunk \/ Dispatch
    BY <2>2 DEF PopChunk, Dispatch
  <2>3. CASE LockForSend \/ LockTimeout
    BY <2>3 DEF LockForSend, LockTimeout
  <2>4. CASE SendOk \/ SendFails \/ LeaveFailure
    BY <2>4 DEF SendOk, SendFails, LeaveFailure
  <2> QED
    BY <1>3, <2>1, <2>2, <2>3, <2>4 DEF Main
<1>4. CASE Network
  <2> USE DEF netFrame
  <2>1. CASE NetStart \/ NetConnected \/ NetAuthenticated
    BY <2>1 DEF NetStart, NetConnected, NetAuthenticated
  <2>2. CASE NetLock
    BY <2>2 DEF NetLock
  <2>3. CASE NetAttach
    BY <2>3 DEF NetAttach
  <2>4. CASE NetDiagnose \/ NetOnline
    BY <2>4 DEF NetDiagnose, NetOnline
  <2>5. CASE NetDetach
    BY <2>5 DEF NetDetach
  <2>6. CASE NetStop
    BY <2>6 DEF NetStop
  <2> QED
    BY <1>4, <2>1, <2>2, <2>3, <2>4, <2>5, <2>6 DEF Network
<1>5. CASE Ws
  BY <1>5 DEF Ws, WsConnected, WsLost, WsAccepted, WsFault, wsFrame
<1>6. ASSUME NEW t \in Tasks, Signal(t) PROVE LockInv'
  BY <1>6 DEF Signal
<1>7. CASE UNCHANGED vars
  BY <1>7 DEF vars
<1> QED
  BY <1>1, <1>2, <1>3, <1>4, <1>5, <1>6, <1>7 DEF Next

\* network_task never stops and destroys the client app_main is sending through: a
\* stop comes after the client was cleared under the mutex a send holds.
THEOREM ClientOutlives == Spec => []ClientOutlivesSend
<1>1. Init => LockInv
  BY DEF Init, LockInv, SendLocked, ClientInSession
<1>2. TypeInv => TypeOK
  BY DEF TypeInv
<1>3. LockInv => ClientOutlivesSend
  BY DEF LockInv, SendLocked, ClientInSession, ClientOutlivesSend
<1> QED
  BY <1>1, <1>2, <1>3, TypeInit, TypeStep, LockStep, PTL DEF Spec

-----------------------------------------------------------------------------
(* Only a recognised Nano is disconnected from USB.                        *)

\* What a step may do to the forwarder.
LEMMA ForwarderSteps ==
  ASSUME [Next]_vars
  PROVE  \/ fw' = fw \/ fw' = DropChunk(fw) \/ fw' = Fail(fw) \/ fw' = Recovered(fw)
         \/ fw' = [fw EXCEPT !.forwarded = @ + 1]
         \/ CanPop(fw) /\ fw' = Pop(fw)
         \/ UsbPush \/ NetAttach
<1>1. CASE Main
  BY <1>1 DEF Main, RecoverStart, RecoverEnd, PopChunk, Dispatch, LockForSend,
              LockTimeout, SendOk, SendFails, FailStream, LeaveFailure
<1>2. CASE Network
  BY <1>2 DEF Network, NetStart, NetConnected, NetAuthenticated, NetLock, NetDiagnose,
              NetOnline, NetDetach, NetStop
<1>3. CASE Ws
  BY <1>3 DEF Ws, WsConnected, WsLost, WsAccepted, WsFault
<1>4. ASSUME NEW kind \in Kinds, UsbRead(kind) PROVE fw' = fw
  BY <1>4 DEF UsbRead
<1>5. ASSUME NEW t \in Tasks, Signal(t) PROVE fw' = fw
  BY <1>5 DEF Signal
<1>6. DropDtr \/ UNCHANGED vars => fw' = fw
  BY DEF DropDtr, vars
<1> QED
  BY <1>1, <1>2, <1>3, <1>4, <1>5, <1>6 DEF Next

\* A peer, once recognised, is never forgotten or taken for another.
LEMMA PeerStays ==
  ASSUME TypeInv, [Next]_vars, fw.peer # "unknown"
  PROVE  fw'.peer = fw.peer
<1>0. fw \in Forwarder
  BY DEF TypeInv, TypeOK
<1>1. CASE UsbPush
  <2> DEFINE c == Pushed(fw, held[1])
  <2>1. c \in Chunk /\ fw' = Push(fw, c)
    BY <1>1, UsbPushType DEF UsbPush, Pushed, TypeInv
  <2> HIDE DEF c
  <2> QED
    BY <1>0, <2>1, PushFacts, PeerFacts
<1>2. CASE NetAttach
  BY <1>0, <1>2, BeginFacts DEF NetAttach
<1>3. CASE ~UsbPush /\ ~NetAttach
  BY <1>0, <1>3, ForwarderSteps, DropChunkFacts, FailFacts, RecoveredFacts, SentFacts,
     PopFacts
<1> QED
  BY <1>1, <1>2, <1>3

\* A re-enumeration is requested only for a Nano, and the peer is still one when app_main
\* gets to the request.
RequestInv == request => fw.peer = "nano"

\* Every step keeps it so.
LEMMA RequestStep == TypeInv /\ RequestInv /\ [Next]_vars => RequestInv'
<1> SUFFICES ASSUME TypeInv, RequestInv, [Next]_vars, request' PROVE fw'.peer = "nano"
  BY DEF RequestInv
<1>1. CASE NetAttach
  BY <1>1, BeginFacts DEF NetAttach, TypeInv, TypeOK
<1>2. CASE ~NetAttach
  <2> USE DEF usbVars, mainVars, netVars, wsVars
  <2>1. request
    <3>1. CASE Main
      BY <3>1 DEF Main, RecoverStart, RecoverEnd, PopChunk, Dispatch, LockForSend,
                  LockTimeout, SendOk, SendFails, FailStream, LeaveFailure
    <3>2. CASE Network
      BY <1>2, <3>2 DEF Network, NetStart, NetConnected, NetAuthenticated, NetLock,
                        NetDiagnose, NetOnline, NetDetach, NetStop, netFrame
    <3>3. CASE Ws
      BY <3>3 DEF Ws, WsConnected, WsLost, WsAccepted, WsFault, wsFrame
    <3>4. ASSUME NEW kind \in Kinds, UsbRead(kind) PROVE request
      BY <3>4 DEF UsbRead
    <3>5. ASSUME NEW t \in Tasks, Signal(t) PROVE request
      BY <3>5 DEF Signal
    <3>6. UsbPush \/ DropDtr \/ UNCHANGED vars => request
      BY DEF UsbPush, DropDtr, vars
    <3> QED
      BY <3>1, <3>2, <3>3, <3>4, <3>5, <3>6 DEF Next
  <2> QED
    BY <2>1, PeerStays DEF RequestInv
<1> QED
  BY <1>1, <1>2

\* Only RecoverStart disconnects, and only on a request.
LEMMA DisconnectStep ==
  ASSUME TypeInv, RequestInv, [Next]_vars
  PROVE  attached /\ ~attached' => fw.peer = "nano"
<1> SUFFICES ASSUME attached, ~attached' PROVE fw.peer = "nano"
  OBVIOUS
<1> USE DEF usbVars, mainVars, netVars, wsVars
<1>1. CASE RecoverStart
  BY <1>1 DEF RecoverStart, RequestInv
<1>2. Main => RecoverStart
  BY DEF Main, RecoverEnd, PopChunk, Dispatch, LockForSend, LockTimeout, SendOk,
         SendFails, FailStream, LeaveFailure
<1>3. ~Network
  BY DEF Network, NetStart, NetConnected, NetAuthenticated, NetLock, NetAttach,
         NetDiagnose, NetOnline, NetDetach, NetStop, netFrame
<1>4. ~Ws
  BY DEF Ws, WsConnected, WsLost, WsAccepted, WsFault, wsFrame
<1>5. ASSUME NEW kind \in Kinds PROVE ~UsbRead(kind)
  BY DEF UsbRead
<1>6. ASSUME NEW t \in Tasks PROVE ~Signal(t)
  BY DEF Signal
<1>7. ~UsbPush /\ ~DropDtr /\ ~UNCHANGED vars
  BY DEF UsbPush, DropDtr, vars
<1> QED
  BY <1>1, <1>2, <1>3, <1>4, <1>5, <1>6, <1>7 DEF Next

\* A computer in setup, or a peer nobody has recognised, is never disconnected from
\* USB, however late app_main sees the request.
THEOREM ReenumeratesNano == Spec => OnlyNanoReenumerates
<1>1. Init => RequestInv
  BY DEF Init, RequestInv
<1>2. TypeInv /\ RequestInv /\ [Next]_vars => [attached /\ ~attached' => fw.peer = "nano"]_vars
  BY DisconnectStep
<1> QED
  BY <1>1, <1>2, TypeInit, TypeStep, RequestStep, PTL DEF Spec, OnlyNanoReenumerates

-----------------------------------------------------------------------------
(* Implementation of the session protocol.                                 *)

\* A step that leaves the variables of the session protocol alone.
LEMMA Stutters ==
  ASSUME UNCHANGED <<net, client, link, authed, bits, signals>>, fw'.failed = fw.failed
  PROVE  [Session!Next]_(Session!vars)
  BY DEF Session!vars

\* What a task does to the stream is, to the session, a failure noticed or nothing.
LEMMA UsbSimulates ==
  ASSUME TypeInv, UsbPush
  PROVE  [Session!Next]_(Session!vars)
<1> DEFINE c == Pushed(fw, held[1])
<1>1. c \in Chunk /\ fw' = Push(fw, c)
  BY UsbPushType DEF UsbPush, Pushed, TypeInv
<1>2. /\ fw.failed \in BOOLEAN /\ fw'.failed \in BOOLEAN
      /\ fw.failed => fw'.failed
  <2> HIDE DEF c
  <2> QED
    BY <1>1, PushFacts DEF TypeInv, TypeOK, Forwarder
<1>3. /\ UNCHANGED <<net, client, link, authed, bits>>
      /\ signals' = IF fw'.failed THEN signals \cup {"usb"} ELSE signals
  BY DEF UsbPush, netVars, wsVars
<1>4. CASE fw'.failed
  <2>1. Session!Notice("usb")
    BY <1>2, <1>3, <1>4 DEF Session!Notice
  <2> QED
    BY <2>1 DEF Session!Next, Session!Tasks
<1>5. CASE ~fw'.failed
  BY <1>2, <1>3, <1>5, Stutters
<1> QED
  BY <1>4, <1>5

\* Of the steps of app_main only fail_forwarding is a step of the session protocol.
LEMMA MainSimulates ==
  ASSUME TypeInv, Main
  PROVE  [Session!Next]_(Session!vars)
<1>0. fw \in Forwarder
  BY DEF TypeInv, TypeOK
<1>1. CASE FailStream
  <2>1. fw'.failed = TRUE
    BY <1>0, <1>1, FailFacts DEF FailStream, Forwarder
  <2>2. Session!Notice("main")
    BY <1>1, <2>1 DEF FailStream, netVars, wsVars, Session!Notice
  <2> QED
    BY <2>2 DEF Session!Next, Session!Tasks
<1>2. CASE ~FailStream
  <2>1. UNCHANGED <<net, client, link, authed, bits, signals>>
    BY <1>2 DEF Main, RecoverStart, RecoverEnd, PopChunk, Dispatch, LockForSend,
                LockTimeout, SendOk, SendFails, LeaveFailure, netVars, wsVars
  <2>2. \/ fw' = fw \/ fw' = Recovered(fw) \/ fw' = DropChunk(fw)
        \/ fw' = [fw EXCEPT !.forwarded = @ + 1]
        \/ CanPop(fw) /\ fw' = Pop(fw)
    BY <1>2 DEF Main, RecoverStart, RecoverEnd, PopChunk, Dispatch, LockForSend,
                LockTimeout, SendOk, SendFails, LeaveFailure
  <2>3. fw'.failed = fw.failed
    BY <1>0, <2>2, RecoveredFacts, DropChunkFacts, SentFacts, PopFacts
  <2> QED
    BY <2>1, <2>3, Stutters
<1> QED
  BY <1>1, <1>2

\* What the WebSocket client reports is reported in the session protocol, and a
\* fault is a failure noticed.
LEMMA WsSimulates ==
  ASSUME TypeInv, Ws
  PROVE  [Session!Next]_(Session!vars)
<1> USE DEF wsFrame, wsVars, netVars
<1>1. CASE WsConnected
  <2>1. Session!WsConnected
    BY <1>1 DEF WsConnected, Session!WsConnected
  <2> QED
    BY <2>1 DEF Session!Next
<1>2. CASE WsLost
  <2>1. Session!WsLost
    BY <1>2 DEF WsLost, Session!WsLost
  <2> QED
    BY <2>1 DEF Session!Next
<1>3. CASE WsAccepted
  <2>1. Session!WsAccepted
    BY <1>3 DEF WsAccepted, Session!WsAccepted
  <2> QED
    BY <2>1 DEF Session!Next
<1>4. CASE WsFault
  <2>1. fw'.failed = TRUE
    BY <1>4, FailFacts DEF WsFault, TypeInv, TypeOK, Forwarder
  <2>2. Session!Notice("ws")
    BY <1>4, <2>1 DEF WsFault, Session!Notice
  <2> QED
    BY <2>2 DEF Session!Next, Session!Tasks
<1> QED
  BY <1>1, <1>2, <1>3, <1>4 DEF Ws

\* network_task's steps are the session protocol's, but for its lock.
LEMMA NetworkSimulates ==
  ASSUME TypeInv, Network
  PROVE  [Session!Next]_(Session!vars)
<1>0. fw \in Forwarder
  BY DEF TypeInv, TypeOK
<1> USE DEF netFrame, wsVars, netVars
<1>1. CASE NetStart
  <2>1. Session!Start
    BY <1>1 DEF NetStart, Session!Start
  <2> QED
    BY <2>1 DEF Session!Next, Session!Proceed
<1>2. CASE NetConnected
  <2>1. Session!SayHello \/ Session!GiveUp
    BY <1>2 DEF NetConnected, Session!SayHello, Session!GiveUp
  <2> QED
    BY <2>1 DEF Session!Next, Session!Proceed
<1>3. CASE NetAuthenticated
  <2>1. CASE "authenticated" \in bits
    <3>1. Session!Accept
      BY <1>3, <2>1 DEF NetAuthenticated, Session!Accept
    <3> QED
      BY <3>1 DEF Session!Next, Session!Proceed
  <2>2. CASE "authenticated" \notin bits
    <3>1. bits' = bits \ {"failed"}
      BY <1>3, <2>2 DEF NetAuthenticated
    <3>2. Session!GiveUp
      BY <1>3, <2>2, <3>1 DEF NetAuthenticated, Session!GiveUp
    <3> QED
      BY <3>2 DEF Session!Next
  <2> QED
    BY <2>1, <2>2
<1>4. CASE NetLock
  BY <1>4, Stutters DEF NetLock
<1>5. CASE NetAttach
  <2>1. fw'.failed = FALSE
    BY <1>0, <1>5, BeginFacts DEF NetAttach, Forwarder
  <2>2. Session!Attach
    BY <1>5, <2>1 DEF NetAttach, Session!Attach
  <2> QED
    BY <2>2 DEF Session!Next, Session!Proceed
<1>6. CASE NetDiagnose
  <2>1. CASE link = "open" /\ net' = "online" /\ UNCHANGED <<fw, bits>>
    <3>1. Session!Diagnosed
      BY <1>6, <2>1 DEF NetDiagnose, Session!Diagnosed
    <3> QED
      BY <3>1 DEF Session!Next, Session!Proceed
  <2>2. CASE net' = "closing" /\ fw' = Fail(fw) /\ bits' = bits \cup {"failed"}
    <3>1. fw'.failed = TRUE
      BY <1>0, <2>2, FailFacts DEF Forwarder
    <3>2. Session!DiagnosisFails
      BY <1>6, <2>2, <3>1 DEF NetDiagnose, Session!DiagnosisFails
    <3> QED
      BY <3>2 DEF Session!Next
  <2> QED
    BY <1>6, <2>1, <2>2 DEF NetDiagnose
<1>7. CASE NetOnline
  <2>1. CASE "failed" \in bits
    <3>1. Session!FailedEndsWait
      BY <1>7, <2>1 DEF NetOnline, Session!FailedEndsWait
    <3> QED
      BY <3>1 DEF Session!Next, Session!Proceed
  <2>2. CASE "failed" \notin bits
    <3>1. bits' = bits
      BY <1>7, <2>2 DEF NetOnline
    <3>2. Session!DiagnoseAgain
      BY <1>7, <2>2, <3>1 DEF NetOnline, Session!DiagnoseAgain
    <3> QED
      BY <3>2 DEF Session!Next, Session!Proceed
  <2> QED
    BY <2>1, <2>2
<1>8. CASE NetDetach
  <2>1. fw'.failed = TRUE
    BY <1>0, <1>8, FailFacts DEF NetDetach, Forwarder
  <2>2. Session!Detach
    BY <1>8, <2>1 DEF NetDetach, Session!Detach
  <2> QED
    BY <2>2 DEF Session!Next, Session!Proceed
<1>9. CASE NetStop
  <2>1. Session!Stop
    BY <1>9 DEF NetStop, Session!Stop
  <2> QED
    BY <2>1 DEF Session!Next, Session!Proceed
<1> QED
  BY <1>1, <1>2, <1>3, <1>4, <1>5, <1>6, <1>7, <1>8, <1>9 DEF Network

\* Every step of the tasks is a step of the session protocol, or none of it.
LEMMA SimulationStep == TypeInv /\ [Next]_vars => [Session!Next]_(Session!vars)
<1> SUFFICES ASSUME TypeInv, [Next]_vars PROVE [Session!Next]_(Session!vars)
  OBVIOUS
<1> USE DEF netVars, wsVars
<1>1. ASSUME NEW kind \in Kinds, UsbRead(kind) PROVE [Session!Next]_(Session!vars)
  BY <1>1, Stutters DEF UsbRead
<1>2. CASE DropDtr
  BY <1>2, Stutters DEF DropDtr
<1>3. ASSUME NEW t \in Tasks, Signal(t) PROVE [Session!Next]_(Session!vars)
  <2>1. Session!Signal(t)
    BY <1>3 DEF Signal, Session!Signal
  <2> QED
    BY <2>1 DEF Session!Next, Session!Tasks, Tasks
<1>4. CASE UNCHANGED vars
  BY <1>4, Stutters DEF vars
<1> QED
  BY <1>1, <1>2, <1>3, <1>4, UsbSimulates, MainSimulates, WsSimulates, NetworkSimulates
     DEF Next

\* Whatever the tasks do, and however their steps interleave, network_task, the client
\* and the failure signals behave as the session protocol says.
THEOREM Implements == Spec => ImplementsSession
<1>1. Init => Session!Init
  BY DEF Init, InitialForwarder, Session!Init
<1> QED
  BY <1>1, TypeInit, TypeStep, SimulationStep, PTL
     DEF Spec, ImplementsSession, Session!Spec

-----------------------------------------------------------------------------
(* The session protocol itself.  Both invariants are of its tasks alone:   *)
(* no assumption is made of the link, the backend, the USB peer, or of     *)
(* what the firmware does besides.                                         *)

\* Every step, of any task or of the link, keeps the variables in their types.
LEMMA SessionTypeStep == Session!TypeOK /\ [Session!Next]_(Session!vars) => Session!TypeOK'
<1> SUFFICES ASSUME Session!TypeOK, [Session!Next]_(Session!vars) PROVE Session!TypeOK'
  OBVIOUS
<1> USE DEF Session!TypeOK, Session!NetStates, Session!Tasks
<1>1. CASE Session!Start \/ Session!SayHello \/ Session!Accept \/ Session!FailedEndsWait
  BY <1>1 DEF Session!Start, Session!SayHello, Session!Accept, Session!FailedEndsWait
<1>2. CASE Session!Attach \/ Session!Diagnosed \/ Session!DiagnoseAgain \/ Session!Detach \/ Session!Stop
  BY <1>2 DEF Session!Attach, Session!Diagnosed, Session!DiagnoseAgain, Session!Detach, Session!Stop
<1>3. CASE Session!GiveUp \/ Session!DiagnosisFails
  BY <1>3 DEF Session!GiveUp, Session!DiagnosisFails
<1>4. CASE Session!WsConnected \/ Session!WsAccepted \/ Session!WsLost
  BY <1>4 DEF Session!WsConnected, Session!WsAccepted, Session!WsLost
<1>5. CASE Session!PeerSends \/ \E t \in Session!Tasks : Session!Notice(t) \/ Session!Signal(t)
  BY <1>5 DEF Session!PeerSends, Session!Notice, Session!Signal
<1>6. CASE UNCHANGED Session!vars
  BY <1>6 DEF Session!vars
<1> QED
  BY <1>1, <1>2, <1>3, <1>4, <1>5, <1>6 DEF Session!Next, Session!Proceed

\* The variables of the session protocol keep their types.
THEOREM SessionTyped == Session!Spec => []Session!TypeOK
<1>1. Session!Init => Session!TypeOK
  BY DEF Session!Init, Session!TypeOK, Session!NetStates
<1> QED
  BY <1>1, SessionTypeStep, PTL DEF Session!Spec

\* The client is set only by Attach, which goes on to the session, and the session
\* is left only through Detach, which clears it: no step in between frees the
\* client network_task is about to destroy.
LEMMA SessionClientStep == Session!ClientHasSession /\ [Session!Next]_(Session!vars) => Session!ClientHasSession'
<1> SUFFICES ASSUME Session!ClientHasSession, [Session!Next]_(Session!vars) PROVE Session!ClientHasSession'
  OBVIOUS
<1> USE DEF Session!ClientHasSession
<1>1. CASE Session!Start \/ Session!SayHello \/ Session!Accept \/ Session!FailedEndsWait \/ Session!GiveUp
  BY <1>1 DEF Session!Start, Session!SayHello, Session!Accept, Session!FailedEndsWait, Session!GiveUp
<1>2. CASE Session!Attach \/ Session!Diagnosed \/ Session!DiagnoseAgain \/ Session!DiagnosisFails
  BY <1>2 DEF Session!Attach, Session!Diagnosed, Session!DiagnoseAgain, Session!DiagnosisFails
<1>3. CASE Session!Detach \/ Session!Stop
  BY <1>3 DEF Session!Detach, Session!Stop
<1>4. CASE Session!WsConnected \/ Session!WsAccepted \/ Session!WsLost
  BY <1>4 DEF Session!WsConnected, Session!WsAccepted, Session!WsLost
<1>5. CASE Session!PeerSends \/ \E t \in Session!Tasks : Session!Notice(t) \/ Session!Signal(t)
  BY <1>5 DEF Session!PeerSends, Session!Notice, Session!Signal
<1>6. CASE UNCHANGED Session!vars
  BY <1>6 DEF Session!vars
<1> QED
  BY <1>1, <1>2, <1>3, <1>4, <1>5, <1>6 DEF Session!Next, Session!Proceed

\* A set client means a session that is up or being closed.
THEOREM SessionClient == Session!Spec => []Session!ClientHasSession
<1>1. Session!Init => Session!ClientHasSession
  BY DEF Session!Init, Session!ClientHasSession
<1> QED
  BY <1>1, SessionClientStep, PTL DEF Session!Spec

\* So the client app_main finds set is of a session of network_task that is up or being
\* closed.
THEOREM ClientSafe == Spec => []ClientHasSession
BY Implements, SessionClient, PTL DEF ImplementsSession, ClientHasSession

-----------------------------------------------------------------------------
(* What a tunnel session carries: no bytes of an earlier connection, none  *)
(* of a computer in setup, consecutive chunks only, and no half of a       *)
(* negotiation that another session began.                                 *)

(* The invariant.  A chunk that is not the setup protocol's belongs to the *)
(* session it was pushed in; one pushed before the first session, by a     *)
(* peer not yet recognised, also to the first.                             *)

Belongs(c, g) ==
  /\ c.peer # "setup"
  /\ c.pushedIn = g \/ (c.pushedIn = 0 /\ g = 1 /\ c.peer = "unknown")

Fresh(f) ==
  {c \in Chunk : Belongs(c, f.generation) /\ (f.peer = "unknown" => c.peer = "unknown")}

\* The ring of a peer that is not in setup holds chunks of the session in progress, and
\* none once the stream has failed.
RingFresh(f) ==
  f.peer # "setup" => f.ring \in Seq(Fresh(f)) /\ (f.failed => f.ring = << >>)

\* The chunk app_main means to forward belongs to the session it was popped in, and
\* while it is sent that session lasts.
BatchFresh ==
  /\ main \in {"locking", "sending"} \/ (main = "popped" /\ fw.peer # "setup")
       => Belongs(batch[1].chunk, batch[1].under)
  /\ main = "sending" => batch[1].under = fw.generation

\* network_task begins a session only on a stream that failed, but for the first.
BetweenSessions ==
  net \in {"backoff", "connecting", "authenticating", "attaching", "stopping"}
    => fw.failed \/ fw.generation = 0

TunnelFresh == tunnel \in Seq({e \in Batch : Belongs(e.chunk, e.under)})

IsolationInv == RingFresh(fw) /\ BatchFresh /\ BetweenSessions /\ TunnelFresh

-----------------------------------------------------------------------------
(* The ring stays fresh under every operation of the forwarder.            *)

\* A sequence over a set is one over every larger set.
LEMMA LargerSet ==
  ASSUME NEW S, NEW T, S \subseteq T, NEW s \in Seq(S)
  PROVE  s \in Seq(T)
  OBVIOUS

\* A sequence over a set stays one when it is emptied, grows or shrinks.
LEMMA SeqOperations ==
  ASSUME NEW S
  PROVE  /\ << >> \in Seq(S)
         /\ \A s \in Seq(S), c \in S : Append(s, c) \in Seq(S)
         /\ \A s \in Seq(S) : s # << >> => Head(s) \in S /\ Tail(s) \in Seq(S)
  OBVIOUS

\* An emptied ring is fresh.
LEMMA EmptyIsFresh ==
  ASSUME NEW f, f.ring = << >>
  PROVE  RingFresh(f)
  BY SeqOperations DEF RingFresh

\* What keeps ring, generation, peer and failure keeps the ring fresh.
LEMMA SameIsFresh ==
  ASSUME NEW f, NEW g, RingFresh(f), g.ring = f.ring, g.generation = f.generation,
         g.peer = f.peer, g.failed = f.failed
  PROVE  RingFresh(g)
  BY DEF RingFresh, Fresh

\* A pushed chunk belongs to the session in progress.
LEMMA PushIsFresh ==
  ASSUME NEW f \in Forwarder, NEW c \in Chunk, RingFresh(f),
         c.pushedIn = f.generation, c.peer = PeerAfter(f, c)
  PROVE  RingFresh(Push(f, c))
<1> DEFINE g == Push(f, c)
<1>1. /\ g.generation = f.generation /\ g.peer = PeerAfter(f, c)
      /\ g.ring \in {f.ring, << >>, Append(f.ring, c)}
      /\ f.failed => g.failed
      /\ Closed(f) /\ PeerAfter(f, c) # "setup" => g.ring = f.ring
      /\ g.failed /\ ~f.failed => g.ring = << >>
  BY PushFacts
<1>2. f.peer # "unknown" => PeerAfter(f, c) = f.peer
  BY PeerFacts
<1> HIDE DEF g
<1>3. SUFFICES ASSUME g.peer # "setup"
               PROVE  g.ring \in Seq(Fresh(g)) /\ (g.failed => g.ring = << >>)
  BY DEF RingFresh, g
<1>4. f.peer # "setup" /\ f.ring \in Seq(Fresh(f)) /\ (f.failed => f.ring = << >>)
  BY <1>1, <1>2, <1>3 DEF RingFresh
<1>5. Fresh(f) \subseteq Fresh(g) /\ c \in Fresh(g)
  BY <1>1, <1>2, <1>3 DEF Fresh, Belongs
<1>6. f.ring \in Seq(Fresh(g))
  BY <1>4, <1>5, LargerSet
<1>7. g.ring \in Seq(Fresh(g))
  <2> DEFINE T == Fresh(g)
  <2>1. f.ring \in Seq(T) /\ c \in T
    BY <1>5, <1>6
  <2> HIDE DEF T
  <2>2. << >> \in Seq(T) /\ Append(f.ring, c) \in Seq(T)
    BY <2>1, SeqOperations
  <2>3. g.ring \in Seq(T)
    BY <1>1, <2>1, <2>2, Zenon
  <2> QED
    BY <2>3 DEF T
<1>8. CASE f.failed
  BY <1>1, <1>3, <1>4, <1>7, <1>8 DEF Closed
<1>9. CASE ~f.failed
  BY <1>1, <1>7, <1>9
<1> QED
  BY <1>8, <1>9

\* A pop leaves a fresh ring, and takes a chunk of the session in progress.
LEMMA PopIsFresh ==
  ASSUME NEW f \in Forwarder, CanPop(f), RingFresh(f)
  PROVE  /\ RingFresh(Pop(f))
         /\ f.peer # "setup" => Belongs(Head(f.ring), f.generation)
<1> DEFINE g == Pop(f)
<1>1. /\ g.ring = Tail(f.ring) /\ g.peer = f.peer /\ g.generation = f.generation
      /\ g.failed = f.failed
  BY PopFacts
<1> HIDE DEF g
<1>2. SUFFICES ASSUME f.peer # "setup"
               PROVE  /\ g.ring \in Seq(Fresh(g)) /\ (g.failed => g.ring = << >>)
                      /\ Belongs(Head(f.ring), f.generation)
  BY <1>1 DEF RingFresh, g
<1>3. f.ring \in Seq(Fresh(f)) /\ f.ring # << >> /\ ~f.failed
  BY <1>2 DEF RingFresh, CanPop
<1>4. Fresh(g) = Fresh(f)
  BY <1>1 DEF Fresh
<1>5. Head(f.ring) \in Fresh(f) /\ Tail(f.ring) \in Seq(Fresh(f))
  BY <1>3, SeqOperations
<1> QED
  BY <1>1, <1>3, <1>4, <1>5 DEF Fresh

\* A session begun on a failed stream, or the first one, has a fresh ring.
LEMMA BeginIsFresh ==
  ASSUME NEW f \in Forwarder, RingFresh(f), f.failed \/ f.generation = 0
  PROVE  RingFresh(Begin(f))
<1> DEFINE g == Begin(f)
<1>1. /\ g.generation = f.generation + 1 /\ g.peer = f.peer /\ ~g.failed
      /\ g.ring = IF f.peer = "nano" THEN << >> ELSE f.ring
  BY BeginFacts
<1> HIDE DEF g
<1>2. SUFFICES ASSUME f.peer # "setup" PROVE g.ring \in Seq(Fresh(g))
  BY <1>1 DEF RingFresh, g
<1>3. CASE g.ring = << >>
  BY <1>3, SeqOperations
<1>4. CASE g.ring # << >>
  <2>1. f.peer = "unknown" /\ g.ring = f.ring /\ f.generation = 0
    BY <1>1, <1>2, <1>4 DEF RingFresh, Forwarder, Peers
  <2>2. Fresh(f) \subseteq Fresh(g)
    BY <1>1, <2>1 DEF Fresh, Belongs
  <2> QED
    BY <1>2, <2>1, <2>2, LargerSet DEF RingFresh
<1> QED
  BY <1>3, <1>4

-----------------------------------------------------------------------------
(* The steps of the tasks.                                                 *)

\* What a step does to the forwarder, if anything, keeps the ring fresh.
LEMMA RingStep ==
  ASSUME TypeInv, IsolationInv, [Next]_vars
  PROVE  RingFresh(fw')
<1>0. fw \in Forwarder /\ RingFresh(fw)
  BY DEF TypeInv, TypeOK, IsolationInv
<1>1. CASE UNCHANGED fw
  BY <1>0, <1>1
<1>2. CASE UsbPush
  <2> DEFINE c == Pushed(fw, held[1])
  <2>1. c \in Chunk /\ held[1] \in Chunk /\ fw' = Push(fw, c)
    BY <1>2, UsbPushType DEF UsbPush, Pushed, TypeInv
  <2>2. c.pushedIn = fw.generation /\ c.peer = PeerAfter(fw, held[1]) /\ c.kind = held[1].kind
    BY <2>1 DEF Pushed, Chunk
  <2> HIDE DEF c
  <2>3. c.peer = PeerAfter(fw, c)
    BY <2>2 DEF PeerAfter
  <2> QED
    BY <1>0, <2>1, <2>2, <2>3, PushIsFresh
<1>3. CASE fw' = Recovered(fw)
  BY <1>0, <1>3, RecoveredFacts, EmptyIsFresh
<1>4. CASE CanPop(fw) /\ fw' = Pop(fw)
  BY <1>0, <1>4, PopIsFresh
<1>5. CASE fw' = DropChunk(fw)
  BY <1>0, <1>5, DropChunkFacts, SameIsFresh
<1>6. CASE fw' = [fw EXCEPT !.forwarded = @ + 1]
  BY <1>0, <1>6, SentFacts, SameIsFresh
<1>7. CASE fw' = Fail(fw)
  BY <1>0, <1>7, FailFacts, EmptyIsFresh
<1>8. CASE NetAttach
  <2>1. fw.failed \/ fw.generation = 0
    BY <1>8 DEF NetAttach, IsolationInv, BetweenSessions
  <2> QED
    BY <1>0, <1>8, <2>1, BeginIsFresh DEF NetAttach
<1> QED
  BY <1>1, <1>2, <1>3, <1>4, <1>5, <1>6, <1>7, <1>8, ForwarderSteps

\* Only app_main changes what it holds, and no other task begins a session while it
\* sends.
LEMMA BatchStep ==
  ASSUME TypeInv, LockInv, IsolationInv, [Next]_vars
  PROVE  BatchFresh'
<1>0. /\ fw \in Forwarder /\ BatchFresh /\ RingFresh(fw)
      /\ main = "sending" => mutex = "main"
  BY DEF TypeInv, TypeOK, IsolationInv, LockInv, SendLocked
<1> USE DEF BatchFresh, usbVars, mainVars, netVars, wsVars
<1>a. ASSUME UNCHANGED <<main, batch>>, fw'.generation = fw.generation,
             fw.peer = "setup" => fw'.peer = "setup"
      PROVE  BatchFresh'
  BY <1>0, <1>a
<1>1. CASE UsbPush
  <2> DEFINE c == Pushed(fw, held[1])
  <2>1. c \in Chunk /\ fw' = Push(fw, c)
    BY <1>1, UsbPushType DEF UsbPush, Pushed, TypeInv
  <2> HIDE DEF c
  <2>2. fw'.generation = fw.generation /\ (fw.peer = "setup" => fw'.peer = "setup")
    BY <1>0, <2>1, PushFacts, PeerFacts
  <2> QED
    BY <1>1, <1>a, <2>2 DEF UsbPush
<1>2. CASE RecoverStart \/ RecoverEnd \/ FailStream \/ LeaveFailure
  BY <1>2 DEF RecoverStart, RecoverEnd, FailStream, LeaveFailure
<1>3. CASE PopChunk
  <2>1. CASE CanPop(fw)
    <3>1. /\ fw' = Pop(fw) /\ main' = "popped"
          /\ batch' = << [chunk |-> Head(fw.ring), under |-> fw.generation] >>
      BY <1>3, <2>1 DEF PopChunk
    <3>2. fw'.peer = fw.peer /\ (fw.peer # "setup" => Belongs(Head(fw.ring), fw.generation))
      BY <1>0, <2>1, <3>1, PopFacts, PopIsFresh
    <3>3. batch'[1].chunk = Head(fw.ring) /\ batch'[1].under = fw.generation
      BY <3>1
    <3> QED
      BY <3>1, <3>2, <3>3
  <2>2. CASE ~CanPop(fw)
    BY <1>3, <2>2 DEF PopChunk
  <2> QED
    BY <2>1, <2>2
<1>4. CASE Dispatch
  BY <1>0, <1>4 DEF Dispatch
<1>5. CASE LockForSend
  BY <1>0, <1>5 DEF LockForSend, Current
<1>6. CASE LockTimeout \/ SendOk \/ SendFails
  BY <1>6 DEF LockTimeout, SendOk, SendFails
<1>7. CASE NetAttach
  <2>1. main # "sending" /\ UNCHANGED <<main, batch>> /\ fw'.peer = fw.peer
    BY <1>0, <1>7, BeginFacts DEF NetAttach
  <2> QED
    BY <1>0, <2>1
<1>8. CASE UNCHANGED <<main, batch>> /\ (fw' = fw \/ fw' = Fail(fw))
  BY <1>0, <1>8, <1>a, FailFacts
<1>9. \/ UNCHANGED <<main, batch>> /\ (fw' = fw \/ fw' = Fail(fw))
      \/ UsbPush \/ Main \/ NetAttach
  <2>1. CASE Network
    BY <2>1 DEF Network, NetStart, NetConnected, NetAuthenticated, NetLock, NetDiagnose,
                NetOnline, NetDetach, NetStop, netFrame
  <2>2. CASE Ws
    BY <2>2 DEF Ws, WsConnected, WsLost, WsAccepted, WsFault, wsFrame
  <2>3. ASSUME NEW kind \in Kinds, UsbRead(kind) PROVE UNCHANGED <<main, batch, fw>>
    BY <2>3 DEF UsbRead
  <2>4. ASSUME NEW t \in Tasks, Signal(t) PROVE UNCHANGED <<main, batch, fw>>
    BY <2>4 DEF Signal
  <2>5. DropDtr \/ UNCHANGED vars => UNCHANGED <<main, batch, fw>>
    BY DEF DropDtr, vars
  <2> QED
    BY <2>1, <2>2, <2>3, <2>4, <2>5 DEF Next
<1> QED
  BY <1>1, <1>2, <1>3, <1>4, <1>5, <1>6, <1>7, <1>8, <1>9 DEF Main

\* Between the end of a session and the beginning of the next nobody clears the fault.
LEMMA BetweenStep ==
  ASSUME TypeInv, IsolationInv, [Next]_vars
  PROVE  BetweenSessions'
<1>0. fw \in Forwarder /\ BetweenSessions
  BY DEF TypeInv, TypeOK, IsolationInv
<1> USE DEF BetweenSessions, usbVars, mainVars, netVars, wsVars
<1>a. ASSUME UNCHANGED net, fw.failed => fw'.failed, fw'.generation = fw.generation
      PROVE  BetweenSessions'
  BY <1>0, <1>a
<1>1. CASE UsbPush
  <2> DEFINE c == Pushed(fw, held[1])
  <2>1. c \in Chunk /\ fw' = Push(fw, c)
    BY <1>1, UsbPushType DEF UsbPush, Pushed, TypeInv
  <2> HIDE DEF c
  <2>2. fw'.generation = fw.generation /\ (fw.failed => fw'.failed)
    BY <1>0, <2>1, PushFacts
  <2> QED
    BY <1>1, <1>a, <2>2 DEF UsbPush
<1>2. CASE Main
  <2>1. /\ UNCHANGED net
        /\ \/ fw' = fw \/ fw' = Recovered(fw) \/ fw' = DropChunk(fw) \/ fw' = Fail(fw)
           \/ fw' = [fw EXCEPT !.forwarded = @ + 1]
           \/ CanPop(fw) /\ fw' = Pop(fw)
    BY <1>2 DEF Main, RecoverStart, RecoverEnd, PopChunk, Dispatch, LockForSend,
                LockTimeout, SendOk, SendFails, FailStream, LeaveFailure
  <2>2. fw'.generation = fw.generation /\ (fw.failed => fw'.failed)
    BY <1>0, <2>1, RecoveredFacts, DropChunkFacts, FailFacts, SentFacts, PopFacts
  <2> QED
    BY <1>a, <2>1, <2>2
<1>3. CASE Network
  <2>1. CASE NetStart \/ NetConnected \/ NetAuthenticated
    BY <1>0, <2>1 DEF NetStart, NetConnected, NetAuthenticated
  <2>2. CASE NetLock
    BY <1>a, <2>2 DEF NetLock
  <2>3. CASE NetAttach \/ NetDiagnose \/ NetOnline
    BY <2>3 DEF NetAttach, NetDiagnose, NetOnline
  <2>4. CASE NetDetach
    BY <1>0, <2>4, FailFacts DEF NetDetach
  <2>5. CASE NetStop
    BY <1>0, <2>5 DEF NetStop
  <2> QED
    BY <1>3, <2>1, <2>2, <2>3, <2>4, <2>5 DEF Network
<1>4. CASE Ws
  <2>1. UNCHANGED net /\ (fw' = fw \/ fw' = Fail(fw))
    BY <1>4 DEF Ws, WsConnected, WsLost, WsAccepted, WsFault, wsFrame
  <2> QED
    BY <1>0, <1>a, <2>1, FailFacts
<1>5. ASSUME NEW kind \in Kinds, UsbRead(kind) PROVE BetweenSessions'
  BY <1>5, <1>a DEF UsbRead
<1>6. ASSUME NEW t \in Tasks, Signal(t) PROVE BetweenSessions'
  BY <1>6, <1>a DEF Signal
<1>7. CASE DropDtr \/ UNCHANGED vars
  BY <1>7, <1>a DEF DropDtr, vars
<1> QED
  BY <1>1, <1>2, <1>3, <1>4, <1>5, <1>6, <1>7 DEF Next

\* Only a completed send extends what the backend has received.
LEMMA TunnelStep ==
  ASSUME TypeInv, IsolationInv, [Next]_vars
  PROVE  TunnelFresh'
<1> DEFINE Good == {e \in Batch : Belongs(e.chunk, e.under)}
<1>0. tunnel \in Seq(Good) /\ BatchFresh /\ fw \in Forwarder
  BY DEF IsolationInv, TunnelFresh, TypeInv, TypeOK
<1>1. CASE SendOk
  <2> DEFINE e == [chunk |-> batch[1].chunk, under |-> fw.generation]
  <2>1. Belongs(batch[1].chunk, fw.generation) /\ batch[1].chunk \in Chunk
    BY <1>0, <1>1, BatchType DEF SendOk, BatchFresh, TypeInv, BatchHeld
  <2>2. e \in Good
    BY <1>0, <2>1 DEF Batch, Forwarder
  <2>3. tunnel' = Append(tunnel, e)
    BY <1>1 DEF SendOk
  <2> HIDE DEF e, Good
  <2>4. tunnel' \in Seq(Good)
    BY <1>0, <2>2, <2>3, SeqOperations
  <2> QED
    BY <2>4 DEF Good, TunnelFresh
<1>2. CASE UNCHANGED tunnel
  BY <1>0, <1>2 DEF TunnelFresh
<1>3. SendOk \/ UNCHANGED tunnel
  <2> USE DEF usbVars, mainVars, netVars, wsVars
  <2>1. CASE Main
    BY <2>1 DEF Main, RecoverStart, RecoverEnd, PopChunk, Dispatch, LockForSend,
                LockTimeout, SendFails, FailStream, LeaveFailure
  <2>2. CASE Network
    BY <2>2 DEF Network, NetStart, NetConnected, NetAuthenticated, NetLock, NetAttach,
                NetDiagnose, NetOnline, NetDetach, NetStop, netFrame
  <2>3. CASE Ws
    BY <2>3 DEF Ws, WsConnected, WsLost, WsAccepted, WsFault, wsFrame
  <2>4. ASSUME NEW kind \in Kinds, UsbRead(kind) PROVE UNCHANGED tunnel
    BY <2>4 DEF UsbRead
  <2>5. ASSUME NEW t \in Tasks, Signal(t) PROVE UNCHANGED tunnel
    BY <2>5 DEF Signal
  <2>6. UsbPush \/ DropDtr \/ UNCHANGED vars => UNCHANGED tunnel
    BY DEF UsbPush, DropDtr, vars
  <2> QED
    BY <2>1, <2>2, <2>3, <2>4, <2>5, <2>6 DEF Next
<1> QED
  BY <1>1, <1>2, <1>3

\* Every step keeps the invariant.
LEMMA IsolationStep ==
  TypeInv /\ LockInv /\ IsolationInv /\ [Next]_vars => IsolationInv'
<1> SUFFICES ASSUME TypeInv, LockInv, IsolationInv, [Next]_vars PROVE IsolationInv'
  OBVIOUS
<1>1. RingFresh(fw')
  BY RingStep
<1> QED
  BY <1>1, BatchStep, BetweenStep, TunnelStep DEF IsolationInv, RingFresh, Fresh

\* Before the first session there is nothing to tell apart.
LEMMA IsolationInit == Init => IsolationInv
<1> SUFFICES ASSUME Init PROVE IsolationInv
  OBVIOUS
<1>1. RingFresh(fw)
  BY EmptyIsFresh DEF Init, InitialForwarder
<1>2. BatchFresh /\ BetweenSessions
  BY DEF Init, InitialForwarder, BatchFresh, BetweenSessions
<1>3. TunnelFresh
  BY SeqOperations DEF Init, TunnelFresh
<1> QED
  BY <1>1, <1>2, <1>3 DEF IsolationInv

\* The invariant holds in every state.
LEMMA IsolationHolds == Spec => []IsolationInv
<1>1. TypeInv => TypeOK
  BY DEF TypeInv
<1>2. Init => LockInv
  BY DEF Init, LockInv, SendLocked, ClientInSession
<1> QED
  BY <1>1, <1>2, TypeInit, TypeStep, LockStep, IsolationInit, IsolationStep, PTL DEF Spec

\* What it says of each chunk the backend has received.
LEMMA ReceivedBelongs ==
  ASSUME IsolationInv, NEW i \in 1 .. Len(tunnel)
  PROVE  Belongs(tunnel[i].chunk, tunnel[i].under)
<1>1. tunnel[i] \in {e \in Batch : Belongs(e.chunk, e.under)}
  BY DEF IsolationInv, TunnelFresh
<1> QED
  BY <1>1

\* What is forwarded in a session was pushed in it - or before the first session, by a
\* peer not yet recognised.
THEOREM SessionsIsolated == Spec => []GenerationIsolation
<1>1. IsolationInv => GenerationIsolation
  BY ReceivedBelongs DEF GenerationIsolation, Belongs
<1> QED
  BY <1>1, IsolationHolds, PTL

\* Nothing a computer sends after it was recognised as talking the setup protocol, the
\* chunk that gave it away included, reaches the backend.
THEOREM SetupIsLocal == Spec => []SetupStaysLocal
<1>1. IsolationInv => SetupStaysLocal
  BY ReceivedBelongs DEF SetupStaysLocal, Belongs
<1> QED
  BY <1>1, IsolationHolds, PTL

-----------------------------------------------------------------------------
(* Sessions and re-enumerations.                                           *)

\* A request is answered by disconnecting a Nano whose ring is closed, and before
\* network_task begins another session.
RecoveryPending ==
  /\ request \/ main = "recovering" => fw.recovering
  /\ main = "recovering" => ~request
  /\ net \in {"connecting", "authenticating", "attaching"} => ~request /\ main # "recovering"

\* A stream without a client has failed, unless there has been no session.
ClientOpens ==
  /\ client \/ fw.failed \/ fw.generation = 0
  /\ client => fw.generation # 0

\* The setup protocol is active only for a computer that was recognised.
SetupKnown == setup => fw.peer = "setup"

StateInv == RecoveryPending /\ ClientOpens /\ SetupKnown

\* What a step does to the session of the forwarder.
LEMMA SessionSteps ==
  ASSUME TypeInv, [Next]_vars
  PROVE  /\ fw' \in Forwarder
         /\ ~NetAttach => fw'.generation = fw.generation
         /\ ~NetAttach /\ ~RecoverEnd => fw'.recovering = fw.recovering
         /\ ~NetAttach /\ fw.failed => fw'.failed
<1>0. fw \in Forwarder
  BY DEF TypeInv, TypeOK
<1>1. CASE UsbPush
  <2> DEFINE c == Pushed(fw, held[1])
  <2>1. c \in Chunk /\ fw' = Push(fw, c)
    BY <1>1, UsbPushType DEF UsbPush, Pushed, TypeInv
  <2> HIDE DEF c
  <2> QED
    BY <1>0, <2>1, PushFacts
<1>2. CASE NetAttach
  BY <1>0, <1>2, BeginFacts DEF NetAttach
<1>3. CASE RecoverEnd
  BY <1>0, <1>3, RecoveredFacts DEF RecoverEnd
<1>4. CASE ~UsbPush /\ ~NetAttach /\ ~RecoverEnd
  <2>1. fw' = Recovered(fw) => fw' = fw \/ fw' = DropChunk(fw) \/ fw' = Fail(fw)
          \/ fw' = [fw EXCEPT !.forwarded = @ + 1] \/ (CanPop(fw) /\ fw' = Pop(fw))
    <3> USE <1>4 DEF usbVars, mainVars, netVars, wsVars
    <3>1. CASE Main
      BY <3>1 DEF Main, RecoverStart, PopChunk, Dispatch, LockForSend,
                  LockTimeout, SendOk, SendFails, FailStream, LeaveFailure
    <3>2. CASE Network
      BY <3>2 DEF Network, NetStart, NetConnected, NetAuthenticated, NetLock,
                  NetDiagnose, NetOnline, NetDetach, NetStop
    <3>3. CASE Ws
      BY <3>3 DEF Ws, WsConnected, WsLost, WsAccepted, WsFault
    <3>4. ASSUME NEW kind \in Kinds, UsbRead(kind) PROVE fw' = fw
      BY <3>4 DEF UsbRead
    <3>5. ASSUME NEW t \in Tasks, Signal(t) PROVE fw' = fw
      BY <3>5 DEF Signal
    <3>6. DropDtr \/ UNCHANGED vars => fw' = fw
      BY DEF DropDtr, vars
    <3> QED
      BY <3>1, <3>2, <3>3, <3>4, <3>5, <3>6 DEF Next
  <2> QED
    BY <1>0, <1>4, <2>1, ForwarderSteps, DropChunkFacts, FailFacts, SentFacts, PopFacts
<1> QED
  BY <1>1, <1>2, <1>3, <1>4

\* Only network_task moves between the states of an attempt, and only app_main, on its
\* way to a request, disconnects.
LEMMA RecoveryStep ==
  ASSUME TypeInv, RecoveryPending, [Next]_vars
  PROVE  RecoveryPending'
<1>0. /\ ~NetAttach /\ ~RecoverEnd => fw'.recovering = fw.recovering
      /\ fw \in Forwarder
  BY SessionSteps DEF TypeInv, TypeOK
<1> USE DEF RecoveryPending, usbVars, mainVars, netVars, wsVars
<1>a. ASSUME UNCHANGED <<request, main, net>>, ~NetAttach, ~RecoverEnd
      PROVE  RecoveryPending'
  BY <1>0, <1>a
<1>1. CASE RecoverStart
  BY <1>0, <1>1 DEF RecoverStart, RecoverEnd, NetAttach
<1>2. CASE RecoverEnd
  BY <1>2 DEF RecoverEnd
<1>3. CASE PopChunk \/ Dispatch \/ LockForSend
  BY <1>0, <1>3 DEF PopChunk, Dispatch, LockForSend, RecoverEnd, NetAttach
<1>4. CASE LockTimeout \/ SendOk \/ SendFails \/ FailStream \/ LeaveFailure
  BY <1>0, <1>4 DEF LockTimeout, SendOk, SendFails, FailStream, LeaveFailure, RecoverEnd, NetAttach
<1>5. CASE Network
  <2> USE DEF netFrame
  <2>1. CASE NetAttach
    BY <1>0, <2>1, BeginFacts DEF NetAttach
  <2>2. CASE NetStart \/ NetConnected \/ NetAuthenticated \/ NetLock
    BY <1>0, <2>2 DEF NetStart, NetConnected, NetAuthenticated, NetLock, NetAttach, RecoverEnd
  <2>3. CASE NetDiagnose \/ NetOnline \/ NetDetach \/ NetStop
    BY <1>0, <2>3 DEF NetDiagnose, NetOnline, NetDetach, NetStop, NetAttach, RecoverEnd
  <2> QED
    BY <1>5, <2>1, <2>2, <2>3 DEF Network
<1>6. CASE Ws
  BY <1>0, <1>6 DEF Ws, WsConnected, WsLost, WsAccepted, WsFault, wsFrame, NetAttach, RecoverEnd
<1>7. ASSUME NEW kind \in Kinds, UsbRead(kind) PROVE RecoveryPending'
  BY <1>0, <1>7 DEF UsbRead, NetAttach, RecoverEnd
<1>8. ASSUME NEW t \in Tasks, Signal(t) PROVE RecoveryPending'
  BY <1>0, <1>8 DEF Signal, NetAttach, RecoverEnd
<1>9. CASE UsbPush
  BY <1>0, <1>9 DEF UsbPush, NetAttach, RecoverEnd
<1>10. CASE DropDtr \/ UNCHANGED vars
  BY <1>0, <1>10 DEF DropDtr, vars, NetAttach, RecoverEnd
<1> QED
  BY <1>1, <1>2, <1>3, <1>4, <1>5, <1>6, <1>7, <1>8, <1>9, <1>10 DEF Next, Main

\* The client is set with the session it begins, and cleared with the failure that
\* ends it.
LEMMA ClientOpensStep ==
  ASSUME TypeInv, ClientOpens, [Next]_vars
  PROVE  ClientOpens'
<1>0. /\ fw \in Forwarder
      /\ ~NetAttach => fw'.generation = fw.generation /\ (fw.failed => fw'.failed)
  BY SessionSteps DEF TypeInv, TypeOK
<1> USE DEF ClientOpens, usbVars, mainVars, netVars, wsVars
<1>1. CASE NetAttach
  <2>1. fw'.generation = fw.generation + 1 /\ fw.generation \in Nat /\ client'
    BY <1>0, <1>1, BeginFacts DEF NetAttach, Forwarder
  <2> QED
    BY <2>1
<1>2. CASE NetDetach
  BY <1>0, <1>2, FailFacts DEF NetDetach
<1>3. CASE UNCHANGED client /\ ~NetAttach
  BY <1>0, <1>3
<1>4. NetAttach \/ NetDetach \/ (UNCHANGED client /\ ~NetAttach)
  <2>1. CASE Main
    BY <2>1 DEF Main, RecoverStart, RecoverEnd, PopChunk, Dispatch, LockForSend,
                LockTimeout, SendOk, SendFails, FailStream, LeaveFailure
  <2>2. CASE Network
    BY <2>2 DEF Network, NetStart, NetConnected, NetAuthenticated, NetLock,
                NetDiagnose, NetOnline, NetStop
  <2>3. CASE Ws
    BY <2>3 DEF Ws, WsConnected, WsLost, WsAccepted, WsFault, wsFrame
  <2>4. ASSUME NEW kind \in Kinds, UsbRead(kind) PROVE UNCHANGED client
    BY <2>4 DEF UsbRead
  <2>5. ASSUME NEW t \in Tasks, Signal(t) PROVE UNCHANGED client
    BY <2>5 DEF Signal
  <2>6. UsbPush \/ DropDtr \/ UNCHANGED vars => UNCHANGED client
    BY DEF UsbPush, DropDtr, vars
  <2> QED
    BY <2>1, <2>2, <2>3, <2>4, <2>5, <2>6 DEF Next
<1> QED
  BY <1>1, <1>2, <1>3, <1>4

\* app_main makes the setup protocol active for a recognised computer, which no step
\* forgets.
LEMMA SetupKnownStep ==
  ASSUME TypeInv, SetupKnown, [Next]_vars
  PROVE  SetupKnown'
<1>1. setup' => setup \/ fw.peer = "setup"
  <2> USE DEF usbVars, mainVars, netVars, wsVars
  <2>1. CASE Main
    BY <2>1 DEF Main, RecoverStart, RecoverEnd, PopChunk, Dispatch, LockForSend,
                LockTimeout, SendOk, SendFails, FailStream, LeaveFailure
  <2>2. CASE Network
    BY <2>2 DEF Network, NetStart, NetConnected, NetAuthenticated, NetLock, NetAttach,
                NetDiagnose, NetOnline, NetDetach, NetStop, netFrame
  <2>3. CASE Ws
    BY <2>3 DEF Ws, WsConnected, WsLost, WsAccepted, WsFault, wsFrame
  <2>4. ASSUME NEW kind \in Kinds, UsbRead(kind) PROVE UNCHANGED setup
    BY <2>4 DEF UsbRead
  <2>5. ASSUME NEW t \in Tasks, Signal(t) PROVE UNCHANGED setup
    BY <2>5 DEF Signal
  <2>6. UsbPush \/ DropDtr \/ UNCHANGED vars => ~setup' \/ UNCHANGED setup
    BY DEF UsbPush, DropDtr, vars
  <2> QED
    BY <2>1, <2>2, <2>3, <2>4, <2>5, <2>6 DEF Next
<1> QED
  BY <1>1, PeerStays DEF SetupKnown

\* Every step keeps all three.
LEMMA StateStep == TypeInv /\ StateInv /\ [Next]_vars => StateInv'
  BY RecoveryStep, ClientOpensStep, SetupKnownStep DEF StateInv

-----------------------------------------------------------------------------
(* What a step does to the chunks between the USB peer and the backend.    *)

streamVars == <<emitted, held, usbSession, batch, tunnel>>

\* app_main goes on, at most, from a chunk that is not the setup protocol's.
Quiet ==
  /\ UNCHANGED <<fw, streamVars>>
  /\ \/ UNCHANGED main
     \/ /\ main # "failing" /\ main' \notin {"popped", "failing"}
        /\ main = "popped" => fw.peer # "setup"

\* The stream fails; at most, app_main is the one that fails it.
Breaks ==
  /\ fw' = Fail(fw) /\ UNCHANGED streamVars
  /\ UNCHANGED main \/ (main = "failing" /\ main' = "signalling")

Takes == PopChunk /\ CanPop(fw)

\* The setup protocol consumes the chunk in hand.
Consumes ==
  /\ main = "popped" /\ fw.peer = "setup" /\ batch' = << >> /\ main' = "top"
  /\ UNCHANGED <<fw, emitted, held, usbSession, tunnel>>

\* The chunk in hand is lost: its session is gone, or will be.
Loses ==
  /\ main \in {"locking", "sending"} /\ batch' = << >> /\ fw' = DropChunk(fw)
  /\ \/ main' = "failing"
     \/ main' = "top" /\ ~(client /\ Current(fw, batch[1].under))
  /\ UNCHANGED <<emitted, held, usbSession, tunnel>>

\* Every step is one of these.
LEMMA StreamSteps ==
  ASSUME TypeInv, StateInv, [Next]_vars
  PROVE  \/ Quiet \/ Breaks \/ Takes \/ Consumes \/ Loses
         \/ \E kind \in Kinds : UsbRead(kind)
         \/ UsbPush \/ RecoverEnd \/ SendOk \/ NetAttach
<1> USE DEF streamVars, usbVars, mainVars, netVars, wsVars
<1>1. CASE Main
  <2>1. CASE RecoverStart \/ LeaveFailure
    BY <2>1 DEF RecoverStart, LeaveFailure, Quiet
  <2>2. CASE PopChunk
    <3>1. ~CanPop(fw) => Quiet
      BY <2>2 DEF PopChunk, Quiet
    <3> QED
      BY <2>2, <3>1 DEF Takes
  <2>3. CASE Dispatch
    <3>1. setup => fw.peer = "setup"
      BY DEF StateInv, SetupKnown
    <3>2. CASE setup \/ fw.peer = "setup"
      <4>1. Consumes
        BY <2>3, <3>1, <3>2 DEF Dispatch, Consumes
      <4> QED
        BY <4>1
    <3>3. CASE ~(setup \/ fw.peer = "setup")
      <4>1. Quiet
        BY <2>3, <3>3 DEF Dispatch, Quiet
      <4> QED
        BY <4>1
    <3> QED
      BY <3>2, <3>3
  <2>4. CASE LockForSend
    <3>1. CASE client /\ Current(fw, batch[1].under)
      BY <2>4, <3>1 DEF LockForSend, Quiet
    <3>2. CASE ~(client /\ Current(fw, batch[1].under))
      BY <2>4, <3>2 DEF LockForSend, Loses
    <3> QED
      BY <3>1, <3>2
  <2>5. CASE LockTimeout \/ SendFails
    BY <2>5 DEF LockTimeout, SendFails, Loses
  <2>6. CASE FailStream
    BY <2>6 DEF FailStream, Breaks
  <2> QED
    BY <1>1, <2>1, <2>2, <2>3, <2>4, <2>5, <2>6 DEF Main
<1>2. CASE Network
  <2> USE DEF netFrame
  <2>1. CASE NetStart \/ NetConnected \/ NetAuthenticated \/ NetLock
    BY <2>1 DEF NetStart, NetConnected, NetAuthenticated, NetLock, Quiet
  <2>2. CASE NetOnline \/ NetStop
    BY <2>2 DEF NetOnline, NetStop, Quiet
  <2>3. CASE NetDiagnose \/ NetDetach
    BY <2>3 DEF NetDiagnose, NetDetach, Quiet, Breaks
  <2> QED
    BY <1>2, <2>1, <2>2, <2>3 DEF Network
<1>3. CASE Ws
  BY <1>3 DEF Ws, WsConnected, WsLost, WsAccepted, WsFault, wsFrame, Quiet, Breaks
<1>4. ASSUME NEW t \in Tasks, Signal(t) PROVE Quiet
  BY <1>4 DEF Signal, Quiet
<1>5. DropDtr \/ UNCHANGED vars => Quiet
  BY DEF DropDtr, vars, Quiet
<1> QED
  BY <1>1, <1>2, <1>3, <1>4, <1>5 DEF Next

-----------------------------------------------------------------------------
(* The last chunk the backend has received, and the chunk in hand.         *)

Last == tunnel[Len(tunnel)]
InSession == tunnel # << >> /\ Last.under = fw.generation
Working == batch # << >> /\ batch[1].under = fw.generation

\* Nothing has been received or taken in a session whose ring waits for the Nano; a chunk
\* in hand from before a session goes before the session's first.
SessionInv ==
  /\ fw.recovering => fw.peer = "nano" /\ fw.ring = << >> /\ ~InSession /\ ~Working
  /\ tunnel # << >> => Last.under <= fw.generation /\ fw.generation # 0
  /\ batch # << >> => batch[1].under <= fw.generation
  /\ batch # << >> /\ ~Working => ~InSession

\* The types of the chunks that are compared.
LEMMA StreamTypes ==
  ASSUME TypeInv
  PROVE  /\ fw \in Forwarder /\ fw.generation \in Nat /\ emitted \in Nat /\ usbSession \in Nat
         /\ fw.ring \in Seq(Chunk) /\ Len(fw.ring) \in Nat
         /\ held # << >> => held[1] \in Chunk
         /\ batch # << >> => batch[1] \in Batch
         /\ tunnel \in Seq(Batch)
         /\ tunnel # << >> => Last \in Batch
         /\ batch # << >> <=> main \in {"popped", "locking", "sending"}
<1>1. fw \in Forwarder /\ held \in Seq(Chunk) /\ batch \in Seq(Batch) /\ tunnel \in Seq(Batch)
  BY DEF TypeInv, TypeOK, Batch
<1>2. tunnel # << >> => Last \in Batch
  BY <1>1 DEF Last
<1> QED
  BY <1>1, <1>2, FirstElement DEF TypeInv, TypeOK, BatchHeld, Forwarder

\* What a chunk that is sent makes of the last one.
LEMMA LastSent ==
  ASSUME TypeInv, SendOk
  PROVE  /\ tunnel' # << >> /\ batch # << >>
         /\ Len(tunnel') = Len(tunnel) + 1
         /\ Last' = [chunk |-> batch[1].chunk, under |-> fw.generation]
         /\ Last' \in Batch
         /\ \A i \in 1 .. Len(tunnel) : tunnel'[i] = tunnel[i]
<1> DEFINE e == [chunk |-> batch[1].chunk, under |-> fw.generation]
<1>1. tunnel \in Seq(Batch) /\ batch # << >> /\ batch[1] \in Batch /\ fw.generation \in Nat
  BY StreamTypes DEF SendOk
<1>2. e \in Batch /\ tunnel' = Append(tunnel, e)
  BY <1>1 DEF Batch, SendOk
<1> HIDE DEF e
<1>3. /\ tunnel' # << >> /\ Len(tunnel') = Len(tunnel) + 1
      /\ tunnel'[Len(tunnel) + 1] = e
      /\ \A i \in 1 .. Len(tunnel) : tunnel'[i] = tunnel[i]
  BY <1>1, <1>2
<1> QED
  BY <1>1, <1>2, <1>3 DEF e, Last

\* The chunk a pop takes.
LEMMA Taken ==
  ASSUME TypeInv, Takes
  PROVE  /\ fw' = Pop(fw) /\ batch' # << >>
         /\ batch'[1].chunk = Head(fw.ring) /\ batch'[1].under = fw.generation
         /\ Head(fw.ring) \in Chunk
         /\ main \in {"top", "pop"} /\ main' = "popped"
         /\ UNCHANGED <<emitted, held, usbSession, tunnel>>
<1>1. /\ fw' = Pop(fw) /\ main' = "popped" /\ main \in {"top", "pop"}
      /\ batch' = << [chunk |-> Head(fw.ring), under |-> fw.generation] >>
      /\ UNCHANGED <<emitted, held, usbSession, tunnel>>
  BY DEF Takes, PopChunk, usbVars
<1>2. Head(fw.ring) \in Chunk
  BY PopFacts, StreamTypes DEF Takes
<1> QED
  BY <1>1, <1>2

\* Every step keeps it.
LEMMA SessionStep ==
  ASSUME TypeInv, LockInv, IsolationInv, StateInv, SessionInv, [Next]_vars
  PROVE  SessionInv'
<1>0. /\ fw \in Forwarder /\ fw.generation \in Nat
      /\ batch # << >> => batch[1] \in Batch
      /\ tunnel # << >> => Last \in Batch
      /\ batch # << >> <=> main \in {"popped", "locking", "sending"}
  BY StreamTypes
<1>u. /\ batch # << >> => batch[1].under \in Nat
      /\ tunnel # << >> => Last.under \in Nat
  BY <1>0 DEF Batch
<1> USE DEF SessionInv, InSession, Working, streamVars
<1>a. ASSUME UNCHANGED <<batch, tunnel>>, fw'.generation = fw.generation,
             fw'.recovering => fw.recovering,
             fw'.recovering => fw'.peer = fw.peer /\ (fw'.ring = fw.ring \/ fw'.ring = << >>)
      PROVE  SessionInv'
  BY <1>a DEF Last
<1>b. ASSUME batch' = << >>, UNCHANGED tunnel, fw'.generation = fw.generation,
             fw'.recovering = fw.recovering, fw'.peer = fw.peer, fw'.ring = fw.ring
      PROVE  SessionInv'
  BY <1>b DEF Last
<1>1. CASE Quiet
  BY <1>1, <1>a DEF Quiet
<1>2. CASE Breaks
  BY <1>0, <1>2, <1>a, FailFacts DEF Breaks
<1>3. CASE Takes
  <2>1. ~fw.recovering
    BY <1>3 DEF Takes, CanPop
  <2>2. fw'.generation = fw.generation /\ fw'.recovering = fw.recovering
    BY <1>0, <1>3, Taken, PopFacts DEF Takes
  <2> QED
    BY <1>0, <1>3, <2>1, <2>2, Taken DEF Last
<1>4. CASE Consumes
  BY <1>4, <1>b DEF Consumes
<1>5. CASE Loses
  BY <1>0, <1>5, <1>b, DropChunkFacts DEF Loses
<1>6. ASSUME NEW kind \in Kinds, UsbRead(kind) PROVE SessionInv'
  BY <1>6, <1>a DEF UsbRead, mainVars
<1>7. CASE UsbPush
  <2> DEFINE c == Pushed(fw, held[1])
  <2>1. c \in Chunk /\ fw' = Push(fw, c)
    BY <1>7, UsbPushType DEF UsbPush, Pushed, TypeInv
  <2> HIDE DEF c
  <2>2. /\ fw'.generation = fw.generation /\ fw'.recovering = fw.recovering
        /\ fw'.peer = PeerAfter(fw, c)
        /\ fw.peer # "unknown" => PeerAfter(fw, c) = fw.peer
        /\ Closed(fw) /\ PeerAfter(fw, c) # "setup" => fw'.ring = fw.ring
    BY <1>0, <2>1, PushFacts, PeerFacts
  <2>3. fw'.recovering => fw'.peer = fw.peer /\ fw'.ring = fw.ring
    BY <2>2 DEF Closed
  <2> QED
    BY <1>7, <1>a, <2>2, <2>3 DEF UsbPush, mainVars
<1>8. CASE RecoverEnd
  BY <1>0, <1>8, <1>a, RecoveredFacts DEF RecoverEnd
<1>9. CASE SendOk
  <2>1. fw.generation # 0 /\ batch[1].under = fw.generation
    BY <1>9 DEF SendOk, LockInv, SendLocked, StateInv, ClientOpens, IsolationInv, BatchFresh
  <2>2. /\ fw'.generation = fw.generation /\ fw'.recovering = fw.recovering
        /\ batch' = << >>
    BY <1>0, <1>9, SentFacts DEF SendOk
  <2>3. ~fw.recovering
    BY <1>0, <1>9, <2>1 DEF SendOk
  <2> QED
    BY <1>0, <1>9, <2>1, <2>2, <2>3, LastSent
<1>10. CASE NetAttach
  <2>1. /\ fw'.generation = fw.generation + 1 /\ fw'.peer = fw.peer
        /\ fw'.recovering = (fw.peer = "nano")
        /\ fw'.ring = IF fw.peer = "nano" THEN << >> ELSE fw.ring
        /\ UNCHANGED <<batch, tunnel>>
    BY <1>0, <1>10, BeginFacts DEF NetAttach
  <2>2. Last' = Last
    BY <2>1 DEF Last
  <2>3. /\ tunnel # << >> => Last.under <= fw'.generation /\ Last.under # fw'.generation
        /\ batch # << >> => batch[1].under <= fw'.generation /\ batch[1].under # fw'.generation
        /\ fw'.generation # 0
    BY <1>0, <1>u, <2>1
  <2> QED
    BY <2>1, <2>2, <2>3
<1> QED
  BY <1>1, <1>2, <1>3, <1>4, <1>5, <1>6, <1>7, <1>8, <1>9, <1>10, StreamSteps

-----------------------------------------------------------------------------
(* Numbers.                                                                *)

\* The ring holds consecutive chunks, the last of which is number n.
Run(r, n) == \A i \in 1 .. Len(r) : r[i].id = n - Len(r) + i

\* The number of the last chunk that was pushed.
Waiting == IF held = << >> THEN emitted ELSE emitted - 1

\* What is pushed is what was read last; ring, chunk in hand and last chunk received in
\* the session follow on one another, until the stream fails or is about to.
NumberInv ==
  /\ held # << >> => held[1].id = emitted
  /\ fw.peer # "setup" => Run(fw.ring, Waiting)
  /\ Working /\ ~fw.failed /\ fw.peer # "setup" => batch[1].chunk.id = Waiting - Len(fw.ring)
  /\ InSession /\ Working /\ (fw.peer # "setup" \/ main # "popped")
       => batch[1].chunk.id = Last.chunk.id + 1
  /\ InSession /\ batch = << >> /\ ~fw.failed /\ main # "failing" /\ fw.peer # "setup"
       => Last.chunk.id = Waiting - Len(fw.ring)

\* A run stays one when it is emptied, when it grows by the next chunk, and without its
\* first.
LEMMA RunFacts ==
  ASSUME NEW r \in Seq(Chunk), NEW n \in Int
  PROVE  /\ Run(<< >>, n)
         /\ \A c \in Chunk : Run(r, n) /\ c.id = n + 1
              => Run(Append(r, c), n + 1) /\ Len(Append(r, c)) = Len(r) + 1
         /\ Run(r, n) /\ r # << >>
              => Run(Tail(r), n) /\ Head(r).id = n - Len(r) + 1 /\ Len(Tail(r)) = Len(r) - 1
<1> USE DEF Run
<1>1. Run(<< >>, n)
  OBVIOUS
<1>2. ASSUME NEW c \in Chunk, Run(r, n), c.id = n + 1
      PROVE  Run(Append(r, c), n + 1) /\ Len(Append(r, c)) = Len(r) + 1
  <2> DEFINE s == Append(r, c)
  <2>1. /\ Len(s) = Len(r) + 1 /\ Len(r) \in Nat
        /\ \A i \in 1 .. Len(r) : s[i] = r[i]
        /\ s[Len(r) + 1] = c
    OBVIOUS
  <2> HIDE DEF s
  <2>2. ASSUME NEW i \in 1 .. Len(s) PROVE s[i].id = n + 1 - Len(s) + i
    <3>1. CASE i \in 1 .. Len(r)
      <4>1. r[i].id = n - Len(r) + i /\ s[i] = r[i]
        BY <1>2, <2>1, <3>1
      <4>2. n - Len(r) + i = n + 1 - Len(s) + i
        BY <2>1, <3>1
      <4> QED
        BY <4>1, <4>2
    <3>2. CASE i = Len(r) + 1
      BY <1>2, <2>1, <3>2
    <3> QED
      BY <2>1, <3>1, <3>2
  <2> QED
    BY <2>1, <2>2 DEF s
<1>3. ASSUME Run(r, n), r # << >>
      PROVE  Run(Tail(r), n) /\ Head(r).id = n - Len(r) + 1 /\ Len(Tail(r)) = Len(r) - 1
  <2> DEFINE s == Tail(r)
  <2>1. /\ Len(s) = Len(r) - 1 /\ Len(r) \in Nat \ {0}
        /\ \A i \in 1 .. Len(s) : s[i] = r[i + 1]
        /\ Head(r) = r[1]
    BY <1>3
  <2> HIDE DEF s
  <2>2. ASSUME NEW i \in 1 .. Len(s) PROVE s[i].id = n - Len(s) + i
    <3>1. i + 1 \in 1 .. Len(r) /\ s[i] = r[i + 1]
      BY <2>1
    <3> QED
      BY <1>3, <2>1, <3>1
  <2>3. Head(r).id = n - Len(r) + 1
    BY <1>3, <2>1
  <2> QED
    BY <2>1, <2>2, <2>3 DEF s
<1> QED
  BY <1>1, <1>2, <1>3

\* The chunk that is pushed, as it was read.
LEMMA PushedAsRead ==
  ASSUME TypeInv, UsbPush
  PROVE  \E c \in Chunk :
           /\ fw' = Push(fw, c)
           /\ c.id = held[1].id /\ c.usb = held[1].usb /\ c.peer = PeerAfter(fw, c)
           /\ c.pushedIn = fw.generation
           /\ held # << >> /\ held' = << >>
           /\ UNCHANGED <<emitted, usbSession, batch, tunnel, main>>
<1> DEFINE c == Pushed(fw, held[1])
<1>1. c \in Chunk /\ held[1] \in Chunk /\ fw' = Push(fw, c)
  BY UsbPushType DEF UsbPush, Pushed, TypeInv
<1>2. /\ c.id = held[1].id /\ c.usb = held[1].usb /\ c.pushedIn = fw.generation
      /\ c.peer = PeerAfter(fw, held[1]) /\ c.kind = held[1].kind
  BY <1>1 DEF Pushed, Chunk
<1> HIDE DEF c
<1>3. c.peer = PeerAfter(fw, c)
  BY <1>2 DEF PeerAfter
<1> QED
  BY <1>1, <1>2, <1>3 DEF UsbPush, mainVars

\* Every step keeps the numbers in order.
LEMMA NumberStep ==
  ASSUME TypeInv, LockInv, IsolationInv, StateInv, SessionInv, NumberInv, [Next]_vars
  PROVE  NumberInv'
<1>0. /\ fw \in Forwarder /\ emitted \in Nat /\ fw.generation \in Nat
      /\ fw.ring \in Seq(Chunk) /\ Len(fw.ring) \in Nat
      /\ batch # << >> => batch[1] \in Batch
      /\ tunnel # << >> => Last \in Batch
      /\ batch # << >> <=> main \in {"popped", "locking", "sending"}
  BY StreamTypes
<1>w. Waiting \in Int
  BY <1>0 DEF Waiting
<1>p. fw'.peer # "setup" => fw.peer # "setup"
  BY PeerStays
<1>r. RingFresh(fw')
  BY RingStep
<1>s. SessionInv'
  BY SessionStep
<1> USE DEF NumberInv, streamVars
<1>1. CASE Quiet
  <2>1. UNCHANGED <<fw, held, emitted, batch, tunnel>>
    BY <1>1 DEF Quiet
  <2>2. Last' = Last /\ Waiting' = Waiting /\ InSession' = InSession /\ Working' = Working
    BY <2>1 DEF Last, Waiting, InSession, Working
  <2>3. /\ batch # << >> /\ main' = "popped" => main = "popped"
        /\ main = "popped" => main' = "popped" \/ fw.peer # "setup"
        /\ main' # "failing" => main # "failing"
    BY <1>1 DEF Quiet
  <2> QED
    BY <2>1, <2>2, <2>3
<1>2. CASE Breaks
  <2>1. /\ fw'.failed /\ fw'.ring = << >> /\ fw'.generation = fw.generation
        /\ fw'.peer = fw.peer
        /\ UNCHANGED <<held, emitted, batch, tunnel>>
    BY <1>0, <1>2, FailFacts DEF Breaks
  <2>2. Last' = Last /\ Waiting' = Waiting /\ InSession' = InSession /\ Working' = Working
    BY <2>1 DEF Last, Waiting, InSession, Working
  <2>3. batch # << >> => main' = main
    BY <1>0, <1>2 DEF Breaks
  <2>4. Run(fw'.ring, Waiting')
    BY <1>w, <2>1, <2>2, EmptyRing, RunFacts
  <2> QED
    BY <2>1, <2>2, <2>3, <2>4 DEF Working
<1>3. CASE Takes
  <2>1. /\ fw'.ring = Tail(fw.ring) /\ fw'.generation = fw.generation /\ fw'.peer = fw.peer
        /\ fw'.failed = fw.failed /\ fw.ring # << >>
        /\ UNCHANGED <<held, emitted, tunnel>>
        /\ batch'[1].chunk = Head(fw.ring) /\ batch'[1].under = fw.generation /\ batch' # << >>
        /\ main' = "popped" /\ main # "failing" /\ batch = << >>
    BY <1>0, <1>3, Taken, PopFacts DEF Takes, CanPop
  <2>2. Last' = Last /\ Waiting' = Waiting /\ InSession' = InSession
    BY <2>1 DEF Last, Waiting, InSession
  <2>3. fw.peer # "setup" => /\ Run(Tail(fw.ring), Waiting)
                             /\ Head(fw.ring).id = Waiting - Len(fw.ring) + 1
                             /\ Len(Tail(fw.ring)) = Len(fw.ring) - 1
    BY <1>0, <1>w, <2>1, RunFacts
  <2>4. fw.peer # "setup" => ~fw.failed
    BY <1>3 DEF Takes, CanPop, Closed
  <2>5. fw.peer # "setup" => batch'[1].chunk.id = Waiting - Len(fw'.ring)
    BY <1>0, <1>w, <2>1, <2>3
  <2>6. fw.peer # "setup" /\ InSession => batch'[1].chunk.id = Last.chunk.id + 1
    BY <1>0, <1>w, <2>1, <2>3, <2>4
  <2> QED
    BY <2>1, <2>2, <2>3, <2>5, <2>6
<1>4. CASE Consumes
  BY <1>4 DEF Consumes, Working, InSession
<1>5. CASE Loses
  <2>1. /\ fw'.ring = fw.ring /\ fw'.generation = fw.generation /\ fw'.peer = fw.peer
        /\ fw'.failed = fw.failed
        /\ UNCHANGED <<held, emitted, tunnel>> /\ batch' = << >> /\ batch # << >>
    BY <1>0, <1>5, DropChunkFacts DEF Loses
  <2>2. Last' = Last /\ Waiting' = Waiting /\ InSession' = InSession
    BY <2>1 DEF Last, Waiting, InSession
  <2>3. InSession /\ ~fw.failed => main' = "failing"
    <3>1. InSession /\ ~fw.failed => client /\ ~fw.recovering /\ Working
      BY <2>1 DEF SessionInv, InSession, StateInv, ClientOpens
    <3>2. Working /\ ~fw.failed /\ ~fw.recovering => Current(fw, batch[1].under)
      BY DEF Working, Current
    <3> QED
      BY <1>5, <3>1, <3>2 DEF Loses
  <2> QED
    BY <2>1, <2>2, <2>3 DEF Working
<1>6. ASSUME NEW kind \in Kinds, UsbRead(kind) PROVE NumberInv'
  <2>1. /\ held = << >> /\ held' # << >> /\ emitted' = emitted + 1 /\ held'[1].id = emitted + 1
        /\ UNCHANGED <<fw, main, batch, tunnel>>
    BY <1>6 DEF UsbRead, mainVars
  <2>2. Last' = Last /\ InSession' = InSession /\ Working' = Working
    BY <2>1 DEF Last, InSession, Working
  <2>3. Waiting' = Waiting
    BY <1>0, <2>1 DEF Waiting
  <2> QED
    BY <2>1, <2>2, <2>3
<1>7. CASE UsbPush
  <2> PICK c \in Chunk :
         /\ fw' = Push(fw, c) /\ c.id = held[1].id /\ held # << >> /\ held' = << >>
         /\ UNCHANGED <<emitted, batch, tunnel, main>>
    BY <1>7, PushedAsRead
  <2>1. /\ fw'.generation = fw.generation
        /\ \/ fw'.failed
           \/ fw'.ring = fw.ring /\ fw.recovering
           \/ fw'.ring = Append(fw.ring, c)
        /\ fw.failed => fw'.failed
    BY <1>0, PushFacts, PushOutcome
  <2>2. Last' = Last /\ InSession' = InSession /\ Working' = Working
    BY <2>1 DEF Last, InSession, Working
  <2>3. Waiting' = Waiting + 1 /\ c.id = Waiting'
    BY <1>0 DEF Waiting
  <2>4. CASE fw'.ring = Append(fw.ring, c)
    <3>1. fw'.peer # "setup" => /\ Run(fw'.ring, Waiting')
                                /\ Len(fw'.ring) = Len(fw.ring) + 1
      BY <1>0, <1>w, <1>p, <2>3, <2>4, RunFacts
    <3>2. Waiting' - (Len(fw.ring) + 1) = Waiting - Len(fw.ring)
      BY <1>0, <1>w, <2>3
    <3> QED
      BY <1>p, <2>1, <2>2, <3>1, <3>2
  <2>5. CASE fw'.failed
    <3>1. fw'.peer # "setup" => Run(fw'.ring, Waiting')
      BY <1>r, <1>w, <2>3, <2>5, RunFacts, EmptyRing DEF RingFresh
    <3> QED
      BY <1>p, <2>1, <2>2, <2>5, <3>1
  <2>6. CASE fw'.ring = fw.ring /\ fw.recovering
    <3>1. fw.ring = << >> /\ ~InSession /\ ~Working
      BY <2>6 DEF SessionInv
    <3>2. fw'.ring = << >> /\ Waiting' \in Int
      BY <1>w, <2>3, <2>6, <3>1
    <3>3. Run(fw'.ring, Waiting')
      BY <3>2, RunFacts, EmptyRing
    <3> QED
      BY <2>2, <3>1, <3>3
  <2> QED
    BY <2>1, <2>4, <2>5, <2>6
<1>8. CASE RecoverEnd
  <2>1. /\ fw.recovering /\ ~InSession /\ ~Working
    BY <1>8 DEF RecoverEnd, StateInv, RecoveryPending, SessionInv
  <2>2. /\ fw'.generation = fw.generation /\ fw'.ring = << >>
        /\ UNCHANGED <<held, emitted, batch, tunnel>>
    BY <1>0, <1>8, RecoveredFacts DEF RecoverEnd
  <2>3. ~InSession' /\ ~Working' /\ Waiting' = Waiting
    BY <2>1, <2>2 DEF InSession, Working, Last, Waiting
  <2>4. Run(fw'.ring, Waiting')
    BY <1>w, <2>2, <2>3, RunFacts, EmptyRing
  <2> QED
    BY <2>2, <2>3, <2>4
<1>9. CASE SendOk
  <2>1. /\ fw'.ring = fw.ring /\ fw'.generation = fw.generation /\ fw'.peer = fw.peer
        /\ fw'.failed = fw.failed /\ batch' = << >> /\ UNCHANGED <<held, emitted>>
    BY <1>0, <1>9, SentFacts DEF SendOk, usbVars
  <2>2. Last'.chunk = batch[1].chunk
    BY <1>9, LastSent
  <2>3. Working
    BY <1>0, <1>9 DEF SendOk, IsolationInv, BatchFresh, Working
  <2>4. Waiting' = Waiting
    BY <2>1 DEF Waiting
  <2> QED
    BY <2>1, <2>2, <2>3, <2>4 DEF Working
<1>10. CASE NetAttach
  <2>1. /\ fw'.ring = IF fw.peer = "nano" THEN << >> ELSE fw.ring
        /\ fw'.generation = fw.generation + 1
        /\ UNCHANGED <<held, emitted, batch, tunnel>>
    BY <1>0, <1>10, BeginFacts DEF NetAttach, usbVars
  <2>2. ~InSession' /\ ~Working'
    <3>1. /\ tunnel # << >> => Last.under <= fw.generation /\ Last.under \in Nat
          /\ batch # << >> => batch[1].under <= fw.generation /\ batch[1].under \in Nat
      BY <1>0 DEF SessionInv, Batch
    <3>2. Last' = Last
      BY <2>1 DEF Last
    <3> QED
      BY <1>0, <2>1, <3>1, <3>2 DEF InSession, Working
  <2>3. Waiting' = Waiting
    BY <2>1 DEF Waiting
  <2>4. fw'.peer # "setup" => Run(fw'.ring, Waiting')
    BY <1>w, <1>p, <2>1, <2>3, RunFacts, EmptyRing
  <2> QED
    BY <2>1, <2>2, <2>3, <2>4
<1> QED
  BY <1>1, <1>2, <1>3, <1>4, <1>5, <1>6, <1>7, <1>8, <1>9, <1>10, StreamSteps

-----------------------------------------------------------------------------
(* USB attachments.                                                        *)

\* Chunks read so far; a Nano's were pushed once the peer was known to be one.
Known == {c \in Chunk : c.usb <= usbSession /\ (c.peer = "nano" => fw.peer = "nano")}

\* Chunks of a later USB attachment than the last one received.
Later == {c \in Chunk : Last.chunk.usb < c.usb}

\* The last chunk was a Nano's, and its session is over, and USB has been attached again.
Reattached ==
  tunnel # << >> /\ Last.chunk.peer = "nano" /\ Last.under # fw.generation /\ ~fw.recovering

UsbInv ==
  /\ held # << >> => held[1].usb <= usbSession
  /\ fw.ring \in Seq(Known)
  /\ batch # << >> => batch[1].chunk \in Known
  /\ tunnel # << >> => Last.chunk \in Known
  /\ Reattached =>
       /\ Last.chunk.usb < usbSession
       /\ held # << >> => Last.chunk.usb < held[1].usb
       /\ fw.ring \in Seq(Later)
       /\ Working => batch[1].chunk \in Later

\* What is known of a chunk stays known.
LEMMA KnownStays ==
  ASSUME TypeInv, [Next]_vars, usbSession' = usbSession \/ usbSession' = usbSession + 1
  PROVE  Known \subseteq Known'
<1>1. fw.peer = "nano" => fw'.peer = "nano"
  BY PeerStays
<1>2. usbSession \in Nat /\ usbSession <= usbSession'
  BY StreamTypes
<1>3. usbSession' \in Nat
  BY <1>2, StreamTypes
<1>4. ASSUME NEW c \in Known PROVE c \in Known'
  <2>1. c.usb \in Nat /\ c \in Chunk
    BY DEF Known, Chunk
  <2> QED
    BY <1>1, <1>2, <1>3, <2>1 DEF Known
<1> QED
  BY <1>4

\* A step that reads, pushes, takes and sends nothing changes nothing.
LEMMA UsbFrame ==
  ASSUME UsbInv, Known \subseteq Known',
         UNCHANGED <<held, usbSession, tunnel>>,
         fw'.generation = fw.generation, fw'.recovering = fw.recovering,
         fw'.ring = fw.ring \/ fw'.ring = << >>,
         batch' = batch \/ batch' = << >>
  PROVE  UsbInv'
<1>1. Last' = Last /\ Later' = Later /\ Reattached' = Reattached
  BY DEF Last, Later, Reattached
<1>2. fw'.ring \in Seq(Known')
  <2>1. fw.ring \in Seq(Known')
    BY LargerSet DEF UsbInv
  <2> QED
    BY <2>1, SeqOperations
<1>3. Reattached => fw'.ring \in Seq(Later)
  BY SeqOperations DEF UsbInv
<1>4. Working' => Working /\ batch' = batch
  BY DEF Working
<1> QED
  BY <1>1, <1>2, <1>3, <1>4 DEF UsbInv

\* Every step keeps it.
LEMMA UsbStep ==
  ASSUME TypeInv, LockInv, IsolationInv, StateInv, SessionInv, UsbInv, [Next]_vars
  PROVE  UsbInv'
<1>0. /\ fw \in Forwarder /\ usbSession \in Nat /\ fw.generation \in Nat
      /\ held # << >> => held[1] \in Chunk
      /\ batch # << >> => batch[1] \in Batch
      /\ tunnel # << >> => Last \in Batch
      /\ batch # << >> <=> main \in {"popped", "locking", "sending"}
  BY StreamTypes
<1>s. SessionInv'
  BY SessionStep
<1>k. usbSession' = usbSession \/ usbSession' = usbSession + 1 => Known \subseteq Known'
  BY KnownStays
<1> USE DEF streamVars
<1>1. CASE Quiet
  BY <1>1, <1>k, UsbFrame DEF Quiet
<1>2. CASE Breaks
  BY <1>0, <1>2, <1>k, FailFacts, UsbFrame DEF Breaks
<1>3. CASE Takes
  <2>1. /\ fw'.ring = Tail(fw.ring) /\ fw'.generation = fw.generation
        /\ fw'.recovering = fw.recovering /\ fw.ring # << >>
        /\ UNCHANGED <<held, usbSession, tunnel>>
        /\ batch'[1].chunk = Head(fw.ring) /\ batch' # << >>
    BY <1>0, <1>3, Taken, PopFacts DEF Takes, CanPop
  <2>2. Last' = Last /\ Later' = Later /\ Reattached' = Reattached
    BY <2>1 DEF Last, Later, Reattached
  <2>3. fw'.ring \in Seq(Known') /\ Head(fw.ring) \in Known'
    <3>1. fw.ring \in Seq(Known')
      BY <1>k, <2>1, LargerSet DEF UsbInv
    <3> QED
      BY <2>1, <3>1, SeqOperations
  <2>4. Reattached => fw'.ring \in Seq(Later) /\ Head(fw.ring) \in Later
    BY <2>1, SeqOperations DEF UsbInv
  <2> QED
    BY <1>k, <2>1, <2>2, <2>3, <2>4 DEF UsbInv
<1>4. CASE Consumes
  BY <1>4, <1>k, UsbFrame DEF Consumes
<1>5. CASE Loses
  BY <1>0, <1>5, <1>k, DropChunkFacts, UsbFrame DEF Loses
<1>6. ASSUME NEW kind \in Kinds, UsbRead(kind) PROVE UsbInv'
  <2>1. /\ held' # << >> /\ held'[1].usb = usbSession
        /\ UNCHANGED <<fw, usbSession, batch, tunnel>>
    BY <1>6 DEF UsbRead, mainVars
  <2>2. Last' = Last /\ Known' = Known /\ Later' = Later /\ Reattached' = Reattached
        /\ Working' = Working
    BY <2>1 DEF Last, Known, Later, Reattached, Working
  <2> QED
    BY <1>0, <2>1, <2>2 DEF UsbInv
<1>7. CASE UsbPush
  <2> PICK c \in Chunk :
         /\ fw' = Push(fw, c) /\ c.usb = held[1].usb /\ c.peer = PeerAfter(fw, c)
         /\ held # << >> /\ held' = << >>
         /\ UNCHANGED <<usbSession, batch, tunnel>>
    BY <1>7, PushedAsRead
  <2>1. /\ fw'.generation = fw.generation /\ fw'.recovering = fw.recovering
        /\ fw'.peer = c.peer
        /\ fw'.ring \in {fw.ring, << >>, Append(fw.ring, c)}
    BY <1>0, PushFacts
  <2>2. Last' = Last /\ Later' = Later /\ Reattached' = Reattached /\ Working' = Working
    BY <2>1 DEF Last, Later, Reattached, Working
  <2>3. c \in Known' /\ (Reattached => c \in Later)
    BY <2>1 DEF UsbInv, Known, Later
  <2>4. fw'.ring \in Seq(Known')
    <3> DEFINE T == Known'
    <3>1. fw.ring \in Seq(T) /\ c \in T
      BY <1>k, <2>3, LargerSet DEF UsbInv
    <3> HIDE DEF T
    <3>2. << >> \in Seq(T) /\ Append(fw.ring, c) \in Seq(T)
      BY <3>1, SeqOperations
    <3>3. fw'.ring \in Seq(T)
      BY <2>1, <3>1, <3>2, Zenon
    <3> QED
      BY <3>3 DEF T
  <2>5. Reattached => fw'.ring \in Seq(Later)
    <3> DEFINE T == Later
    <3> SUFFICES ASSUME Reattached PROVE fw'.ring \in Seq(T)
      OBVIOUS
    <3>1. fw.ring \in Seq(T) /\ c \in T
      BY <2>3 DEF UsbInv
    <3> HIDE DEF T
    <3>2. << >> \in Seq(T) /\ Append(fw.ring, c) \in Seq(T)
      BY <3>1, SeqOperations
    <3> QED
      BY <2>1, <3>1, <3>2, Zenon
  <2> QED
    BY <1>k, <2>1, <2>2, <2>3, <2>4, <2>5 DEF UsbInv
<1>8. CASE RecoverEnd
  <2>1. /\ batch = << >> /\ held = << >> /\ usbSession' = usbSession + 1
        /\ fw'.ring = << >> /\ UNCHANGED <<held, batch, tunnel>>
    BY <1>0, <1>8, RecoveredFacts DEF RecoverEnd
  <2>2. Last' = Last
    BY <2>1 DEF Last
  <2>3. tunnel # << >> => Last.chunk \in Known' /\ Last.chunk.usb < usbSession'
    <3>1. tunnel # << >> => Last.chunk \in Known /\ Last.chunk.usb \in Nat
      BY DEF UsbInv, Known, Chunk
    <3>2. tunnel # << >> => Last.chunk.usb <= usbSession
      BY DEF UsbInv, Known
    <3> QED
      BY <1>0, <1>k, <2>1, <3>1, <3>2
  <2>4. fw'.ring \in Seq(Known') /\ fw'.ring \in Seq(Later')
    BY <2>1, SeqOperations
  <2> QED
    BY <2>1, <2>2, <2>3, <2>4 DEF UsbInv, Working, Reattached
<1>9. CASE SendOk
  <2>1. /\ fw'.ring = fw.ring /\ fw'.generation = fw.generation
        /\ batch' = << >> /\ UNCHANGED <<held, usbSession>>
    BY <1>0, <1>9, SentFacts DEF SendOk, usbVars
  <2>2. Last' = [chunk |-> batch[1].chunk, under |-> fw.generation] /\ batch # << >>
    BY <1>9, LastSent
  <2>3. ~Reattached'
    BY <2>1, <2>2 DEF Reattached
  <2>4. fw'.ring \in Seq(Known')
    BY <1>k, <2>1, LargerSet DEF UsbInv
  <2> QED
    BY <1>k, <2>1, <2>2, <2>3, <2>4 DEF UsbInv
<1>10. CASE NetAttach
  <2>1. /\ fw'.ring = IF fw.peer = "nano" THEN << >> ELSE fw.ring
        /\ fw'.recovering = (fw.peer = "nano")
        /\ UNCHANGED <<held, usbSession, batch, tunnel>>
    BY <1>0, <1>10, BeginFacts DEF NetAttach, usbVars
  <2>2. Last' = Last
    BY <2>1 DEF Last
  <2>3. ~Reattached'
    BY <2>1, <2>2 DEF UsbInv, Known, Reattached
  <2>4. fw'.ring \in Seq(Known')
    <3>1. fw.ring \in Seq(Known')
      BY <1>k, <2>1, LargerSet DEF UsbInv
    <3> QED
      BY <2>1, <3>1, SeqOperations
  <2> QED
    BY <1>k, <2>1, <2>2, <2>3, <2>4 DEF UsbInv
<1> QED
  BY <1>1, <1>2, <1>3, <1>4, <1>5, <1>6, <1>7, <1>8, <1>9, <1>10, StreamSteps

-----------------------------------------------------------------------------
(* The two properties.                                                     *)

StreamInv == /\ TypeInv /\ LockInv /\ IsolationInv /\ StateInv
             /\ SessionInv /\ NumberInv /\ UsbInv

\* Before the first chunk nothing is held, taken or received.
LEMMA StreamInit == Init => StreamInv
<1> SUFFICES ASSUME Init PROVE StreamInv
  OBVIOUS
<1> USE DEF Init, InitialForwarder
<1>1. TypeInv /\ IsolationInv
  BY TypeInit, IsolationInit
<1>2. LockInv /\ StateInv
  BY DEF LockInv, SendLocked, ClientInSession, StateInv, RecoveryPending, ClientOpens,
         SetupKnown
<1>3. SessionInv
  BY DEF SessionInv, InSession, Working
<1>4. NumberInv
  <2>1. Run(<< >>, 0)
    BY EmptyRing DEF Run
  <2>2. fw.ring = << >> /\ Waiting = 0
    BY DEF Waiting
  <2> QED
    BY <2>1, <2>2 DEF NumberInv, InSession, Working
<1>5. UsbInv
  BY SeqOperations DEF UsbInv, Reattached, Working
<1> QED
  BY <1>1, <1>2, <1>3, <1>4, <1>5 DEF StreamInv

\* Every step keeps the whole invariant.
LEMMA StreamStep == StreamInv /\ [Next]_vars => StreamInv'
<1>1. TypeInv => TypeOK
  BY DEF TypeInv
<1> QED
  BY <1>1, TypeStep, LockStep, IsolationStep, StateStep, SessionStep, NumberStep, UsbStep
     DEF StreamInv

\* What the backend has received grows only by a chunk that follows the last one of its
\* session, and that was read after a re-enumeration if the last one was a Nano's of
\* another session.
LEMMA Received ==
  ASSUME StreamInv, [Next]_vars
  PROVE  \/ UNCHANGED tunnel
         \/ /\ tunnel \in Seq(Batch) /\ tunnel' \in Seq(Batch)
            /\ Len(tunnel') = Len(tunnel) + 1
            /\ \A i \in 1 .. Len(tunnel) : tunnel'[i] = tunnel[i]
            /\ tunnel # << >> =>
                 LET a == tunnel[Len(tunnel)]
                     b == tunnel'[Len(tunnel) + 1]
                 IN  /\ a.under = b.under => b.chunk.id = a.chunk.id + 1
                     /\ a.under # b.under /\ a.chunk.peer = "nano" => a.chunk.usb < b.chunk.usb
<1> USE DEF StreamInv, streamVars
<1>1. CASE SendOk
  <2>1. /\ tunnel \in Seq(Batch) /\ batch # << >> /\ Len(tunnel') = Len(tunnel) + 1
        /\ Last' = [chunk |-> batch[1].chunk, under |-> fw.generation]
        /\ \A i \in 1 .. Len(tunnel) : tunnel'[i] = tunnel[i]
    BY <1>1, StreamTypes, LastSent
  <2>2. tunnel' \in Seq(Batch)
    BY TypeStep, StreamTypes DEF TypeInv, TypeOK, Batch
  <2>3. tunnel'[Len(tunnel) + 1] = [chunk |-> batch[1].chunk, under |-> fw.generation]
    BY <2>1 DEF Last
  <2>4. Working /\ main # "popped" /\ ~fw.recovering
    BY <1>1, <2>1 DEF SendOk, IsolationInv, BatchFresh, Working, SessionInv
  <2>5. tunnel # << >> =>
          /\ Last.under = fw.generation => batch[1].chunk.id = Last.chunk.id + 1
          /\ Last.under # fw.generation /\ Last.chunk.peer = "nano"
               => Last.chunk.usb < batch[1].chunk.usb
    BY <2>4 DEF NumberInv, InSession, UsbInv, Reattached, Later
  <2> QED
    BY <2>1, <2>2, <2>3, <2>5 DEF Last
<1>2. ~SendOk => UNCHANGED tunnel
  BY StreamSteps, Taken DEF Quiet, Breaks, Consumes, Loses, UsbRead, UsbPush, RecoverEnd,
                            NetAttach, mainVars
<1> QED
  BY <1>1, <1>2

\* Neighbours of a sequence that grows by one are neighbours it had, or its last two.
LEMMA Neighbours ==
  ASSUME NEW s \in Seq(Batch), NEW t \in Seq(Batch), Len(t) = Len(s) + 1,
         \A i \in 1 .. Len(s) : t[i] = s[i], NEW i \in 1 .. Len(t) - 1
  PROVE  \/ i \in 1 .. Len(s) - 1 /\ t[i] = s[i] /\ t[i + 1] = s[i + 1]
         \/ s # << >> /\ i = Len(s) /\ t[i] = s[Len(s)] /\ t[i + 1] = t[Len(s) + 1]
<1>1. Len(s) \in Nat /\ i \in 1 .. Len(s)
  OBVIOUS
<1>2. CASE i = Len(s)
  BY <1>1, <1>2
<1>3. CASE i # Len(s)
  <2>1. i \in 1 .. Len(s) - 1 /\ i + 1 \in 1 .. Len(s)
    BY <1>1, <1>3
  <2> QED
    BY <1>1, <2>1
<1> QED
  BY <1>2, <1>3

\* The stream invariant holds in every state.
LEMMA StreamHolds == Spec => []StreamInv
  BY StreamInit, StreamStep, PTL DEF Spec

\* Within a session the backend receives consecutive chunks, in order, none lost, repeated
\* or swapped, however the tasks interleave and whatever fails.
THEOREM Gapless == Spec => []NoGapInSession
<1>1. Init => NoGapInSession
  BY DEF Init, NoGapInSession
<1>2. StreamInv /\ NoGapInSession /\ [Next]_vars => NoGapInSession'
  <2> SUFFICES ASSUME StreamInv, NoGapInSession, [Next]_vars PROVE NoGapInSession'
    OBVIOUS
  <2>1. CASE UNCHANGED tunnel
    BY <2>1 DEF NoGapInSession
  <2>2. CASE ~UNCHANGED tunnel
    BY <2>2, Received, Neighbours DEF NoGapInSession
  <2> QED
    BY <2>1, <2>2
<1> QED
  BY <1>1, <1>2, StreamHolds, PTL DEF Spec

\* After a chunk of a Nano the next session carries only chunks read since the Nano was
\* enumerated again: no negotiation spans two sessions.
THEOREM HandshakesFresh == Spec => []FreshHandshake
<1>1. Init => FreshHandshake
  BY DEF Init, FreshHandshake
<1>2. StreamInv /\ FreshHandshake /\ [Next]_vars => FreshHandshake'
  <2> SUFFICES ASSUME StreamInv, FreshHandshake, [Next]_vars PROVE FreshHandshake'
    OBVIOUS
  <2>1. CASE UNCHANGED tunnel
    BY <2>1 DEF FreshHandshake
  <2>2. CASE ~UNCHANGED tunnel
    BY <2>2, Received, Neighbours DEF FreshHandshake
  <2> QED
    BY <2>1, <2>2
<1> QED
  BY <1>1, <1>2, StreamHolds, PTL DEF Spec

=============================================================================
