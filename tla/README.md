# Tan Studio: a TLA+ verification project

Tan Studio records coffee roasts. A Kaffelogic Nano roaster talks the SASSI
protocol over USB. An M5Stack Atom, the *Tan Bridge*, carries those bytes
through a WebSocket to a Rust service, which keeps the session with the Nano,
imports its logs and profiles into an SQLite notebook, and serves the notebook
over HTTP, with attachments in a content-addressed store. A TypeScript
companion does the same on one machine: it reaches the Nano through a child
process that owns the serial port, imports its logs, and serves a catalogue and
a library of roasts. An MCP gateway lets agents use the notebook, and a panel
of the web application sets an Atom up from the browser.

This directory models the parts of that system in which several actors meet:
the firmware's tasks, the life of a bridge and its setup, the sessions with the
Nano, the notebook under imports and edits, the gateway, and attachment
content. Paths below are relative to the repository.

## Inventory

| component | code | state it keeps | operations |
|---|---|---|---|
| Byte forwarding | `firmware/tan-bridge-setup/main/forwarding.c` | ring, peer, generation, failed, recovering, counters | push, pop, fail, begin, recovered, current |
| Firmware tasks | `firmware/tan-bridge-setup/main/setup_main.c` | mutex, client, event group, re-enumeration request, setup flag | USB callback, `app_main`, `network_task`, WebSocket events |
| Device worker | `apps/service/src/device.rs` | one session, snapshot, decoder | commands, polls, negotiation, synchronisation |
| Bridge sessions | `bridge_session.rs`, `lan_bridge.rs`, `api.rs` | `bridge_claims`, `tan_bridges`, a task per connection | claim, hello, attach, revoke, drop |
| Attachments | `core_api.rs`, `object_store.rs`, `object_store/gcs.rs` | rows, disk, bucket | upload, edit, replicate, collect, serve |
| Companion: device | `apps/companion/src/device/roaster-session.ts`, `device-manager.ts`, `rust-serial-transport.ts` | one session, one pending request with its timer, a snapshot, a synchronisation | scan, open, negotiate, list, read, stop |
| Serial bridge process | `apps/serial-bridge/src/main.rs` | a registry of ports with its generation, a session, a reader thread | list, open, write, close, shutdown |
| Companion: import | `apps/companion/src/import/klog-importer.ts` | files, quarantine, profiles, roasts, library rows, search index | import, quarantine |
| Companion: notebook | `repositories/catalog-repository.ts`, `roast-repository.ts`, `services/roast-library-query.ts`, `cursor.ts`, `routes/*` | providers, coffees, lots, roasts, copies of their names; signed cursors | create, rename, archive, assign, query, page, detail, series |
| MCP gateway | `plugins/tan-studio/src/http.ts`, `mcp.ts`, `api.ts`, `results.ts`; `apps/service/src/agent_auth.rs` | counters and buckets of requests, a delegation per request; a signing key, revocations | admit, delegate, call, abort, close; authorise, revoke |
| Bridge setup | `apps/web/src/components/tan-bridge-setup-panel.tsx`, `lib/tan-bridge-setup.ts`; the setup protocol and NVS of `setup_main.c` | the panel's state, an open port; four NVS keys | connect, scan, configure, disconnect; store, restart, persist token |
| Rust notebook | `core_api.rs`, `inventory.rs` | coffees, roasts, profiles, revisions | CRUD with `If-Match` |
| Rust importers | `klog.rs`, `kpro.rs` | `native_files`, roasts, telemetry | import, quarantine |
| Credentials | `api_token.rs`, `operator_session.rs` | tokens, signed cookies | check, issue, revoke |
| Other firmware | `firmware/tan-bridge-esp32s3`, `firmware/usb-role-probe` | spool, session | not deployed |
| Desktop, other web screens, packages | `apps/desktop`, `apps/web`, `packages` | — | screens, launching, codecs, schemas |

How they interact:

- The USB callback pushes into the forwarder; `app_main` pops and either feeds
  the setup protocol or sends through the WebSocket client, under
  `bridge_mutex`; `network_task` sets and clears that client under the same
  mutex; everyone reports failures through one event group. The forwarder is
  touched only in short critical sections.
- A WebSocket connection authenticates in one database transaction, then sends
  a command carrying its transport to the device worker. Revocation updates the
  row and then sends a command. The drop of a transport writes the row again.
- The worker alternates between commands, `poll_session` and whole
  synchronisations, in one thread. The Nano answers in order and may lock its
  file system at any moment.
- An upload touches the disk, the bucket and the row in separate steps; the
  start-up replication pass and other uploads run in between.
- The companion is one JavaScript thread. Its session writes commands to the
  child and is called back for their answers and, on their own, for the Nano's
  lines. The child performs commands one after another and answers each, while
  its reader thread passes on what the Nano sends; the manager drives it, awaits its promises, and imports what they
  bring. The notebook's copies of names are kept by hand, by every writer.
- The gateway is one JavaScript thread with many requests at their awaits. A
  request asks the Rust service for a delegation, runs one tool, whose calls
  the Rust service authorises and performs, and gives back its place; a timer
  or a caller that leaves may abort it at any await, but not what it has asked
  of the service.
- The setup panel awaits the operator, the backend and the Atom's lines; it may
  be unmounted at each. The Atom stores a configuration in NVS on one core
  while its network task stores the token of an earlier claim on the other.

What is hard: five tasks on the Atom with a failure possible at each of their
steps; stale bits and stale generations after a reconnection; database columns
written by three parties; notifications that are missed; content that two rows
share; answers that arrive before the acknowledgement of their question;
timers that race the answer they wait for; writes whose answer is lost; names
copied into four tables; flash that is written key by key. What makes each
component correct is listed with its properties below, and the individual
hazards, each at its line, are in `PROJECT.json`.

## Modules

### Forwarding

`forwarding.c`, as pure functions of a record `f`: `Push`, `Pop`, `Fail`,
`Begin`, `Recovered`, `Current`. A chunk is the bytes of one USB read and one
unit of capacity; its `kind` is what the recogniser finds in it. A chunk also
carries history (its number, the USB attachment it was read on, the generation
and the peer when it was pushed), so that properties can speak about where
bytes came from. Left out: ring indices, `overflows`, `failures`,
`recoveries`, `high_water`. `tan_ws_feed`, which joins WebSocket fragments,
appears only through its outcomes.

### AtomBridge

The firmware's tasks around that record. A step is what runs between two points
where another task can run.

| model | code |
|---|---|
| `UsbRead`, `UsbPush` | `cdc_rx_callback`: the read, then the critical section |
| `RecoverStart`, `RecoverEnd` | `recover_usb_session`: before and after its 250 ms |
| `PopChunk`, `Dispatch` | the loop of `app_main` |
| `LockForSend`, `LockTimeout`, `SendOk`, `SendFails` | `bridge_send_usb` |
| `FailStream`, `Signal` | `fail_forwarding`: the critical section, then the event bit |
| `NetStart` ... `NetStop` | one turn of `network_task` |
| `WsConnected`, `WsLost`, `WsAccepted`, `WsFault` | `websocket_event_handler` and what it calls |

Environment: the peer, the link and the backend behave in any way.

Two guards stand for time. `NetStart` requires that no re-enumeration is due or
in progress: it follows a back-off of at least 1.5 s, while `app_main` needs at
most 250 ms to give up the mutex and 250 ms to re-enumerate. (Without the
guard, `NoGapInSession` fails: a ring reopened by the previous session's
recovery loses the beginning of the new stream.) `RecoverEnd` requires that a
callback which had already read has pushed: it has 250 ms for that.

### Reconnect

What the tasks promise about a session, without bytes and without counters:
`failed`, the event group, the client and the program counter of
`network_task`. It is the abstract specification that AtomBridge implements
(`ImplementsSession`, with `failed <- fw.failed`), and small enough to check
liveness on unbounded behaviours.

### BridgeSessions

Claims, device tokens, connections, the worker's command queue and the row of
each bridge. `authenticate` is one action because it is one transaction;
`RevokeRow` and `RevokeDetach` are two because `bridge_revoke` releases the
database before it sends. A device token is named by the claim that issued it.
`Dropped` is `Drop for WebSocketBridgeTransport`, which is part of every action
that replaces or ends the session. `Configure` closes a hello still unanswered:
the Atom restarts, which takes seconds.

### NanoSession

The worker's session with the Nano. A host step is one message with everything
the code does before it reads again; `handle_message`, `poll_session`,
`synchronize_run` and `request_transfer` are functions from a session to the
session it becomes, with the request it writes and the file it imports. The
Nano is outside the repository: it is modelled from what `device.rs` expects,
with the order of its answers, its lock during a roast, notifications that may
be missed, a file whose transfer always fails, and resets.

Timing: when a roast ends, no transfer is in flight (messages take
milliseconds, a roast minutes). Without that guard a directory reply left over
from a refused request is taken for another listing, because
`request_transfer` accepts replies by kind and never compares paths. The Nano
repeats its connection request more slowly than the answer arrives.

### Attachments

`attachments_put_content` with one action per await: read the row, spool,
inspect, rename, inspect the bucket, post, update, check references, delete on
disk, delete in the bucket; `Edit` for the handlers that only move the
revision; the replication pass; a restart at any point; the loss of the disk
after a complete pass. With `Replicated = FALSE` it is the local-disk store.

### RoasterSession

`roaster-session.ts` as functions of a session `s`: one per method
(`Connect`, `Close`, `Fail`, `Transfer`) and per message handled
(`ConnectionRequest`, `TimeSyncAck`, `InfoResponse`, `Chunk`, `Notification`).
A method runs to its first await; what it asks of the transport is appended to
`s.out` with a name for the code after the await, and `Answered` is that code.
`s.settled` is what the promise of a transfer has become until its caller
resumes. Left out: bytes and framing (a frame is a record, or damaged), and
what the snapshot only displays.

### NanoSync

The companion's device manager around that session, the serial bridge process,
the Nano and the importer.

| model | code |
|---|---|
| `Scan`, `Listed`, `OpenReturns` | `#scan` and `connect`, at their awaits |
| `Apply` | `#applySession`, the session's `onChange` |
| `Synchronize`, `Resume`, `NextLog`, `SyncFailed` | `synchronize`, `#synchronize` |
| `ReadLine`, `Data`, `Response` | `#handleMessage` of `rust-serial-transport.ts` |
| `RequestTimeout`, `CommandTimeout`, `BridgeExits` | the session's timer, the transport's, `#handleExit` |
| `Stop` | `stop` |
| `PerformList`, `PerformOpen`, `PerformClose` | the arms of the child's loop in `main.rs`, with `list_ports` |
| `PerformWrite`, `AnswerWrite` | `write_payload`, and the answer to it |
| `Transmits`, `Unplug` | the child's reader thread: a data line, the last line |
| `NanoRequest`, `Serve`, `Roast` ... `Plug` | the Nano (external) |

A host step is one macrotask with the continuations it wakes; `Between` and
`Settled` say that no continuation is waiting.

The child's main thread performs one command after another. A list replaces its
registry of ports and counts its `generation`, unless the enumeration fails;
it may find the Nano, none, or the Nano beside another device, which the manager
refuses. An opening first closes the session before, whatever becomes of it; it
is refused if it names another generation, and fails if the port has gone or
does not open. `bridge.sid` is the session whose port works: after the cable was
pulled the child keeps its session until it is closed, but every write to it
fails and nothing more is read from it, so that it counts as none. The end of
the process, by a fault or after `shutdown`, is `BridgeExits`: it rejects whoever
waits for an answer, and fails the session if that is a handler of it
(`Writing`) or if a port is open.

Two guards stand for time: a
request's timeout that races what the child still has to say counts as a fault,
and a command times out after the request that wrote it, whose timer was armed
first.

### KlogImport, Catalog, RoastLibrary, Library

`KlogImport` is the importer as one operator from the database to the database
and an outcome: every table it writes, by content and by path, with its
quarantine and its refusals. Parsing is the constants `Unsafe`, `ProfileOf` and
`DocumentOf`. `Catalog` adds the operations of providers, coffees, lots and
roasts, each a database and an HTTP status, with the copies they keep in
`roast_library_rows` and its search index. `RoastLibrary` is the query: filter,
groups, order, page, cursor. `Library` composes them: writers change the
notebook between the requests of a reader. A step is a transaction. A record is
known by its place, as none is ever deleted; attributes nothing else copies are
left out. `NanoSync` uses the same `Import`.

### McpGateway

`http.ts` with one action per await of its handler (`Arrive`, `Body`,
`Delegated`, `Output`, `Close`), the API calls of a tool (`HeadersArrive`,
`BodyArrives`, `CallLost`, `BodyLost`), the abort, and the Rust side
(`Delegate`, `Perform`, `Revoke`, `RestartService`). A tool is the sequence of
methods it calls. The tools of `mcp.ts` make the ten sequences, with two
exceptions no property depends on: `tan_status` makes three GETs at once
(`api.ts:172-176`), where the model has GETs after one another, and a tool
whose own validation fails makes no call. One
record with a revision stands for what agents write. The release in `finally`
is part of the steps that leave the handler. Left out: the MCP library's own
state, shapes of inputs and results, eviction of idle buckets.

### BridgeSetup

A panel is one mounting of the component: `device-screen.tsx:155-176` mounts it
again whenever `connected` changes, and what the old one awaits goes on. `op` is
the await its handler has reached. `port` is the browser's serial port, open
for one client; a close waits for the request in progress. The Atom writes its
four NVS keys one by one (`Store`); nvs_set takes effect at once. Its network
task presents the claim in memory and stores the token it is given (`Persist`),
also one write at a time, on the other core. A configuration is known by the
number of its claim.

### Definitions that begin "Faulty"

Next to an operator there is sometimes a variant of it with a plausible mistake
(a dropped guard, a missing reset). No action uses it. It is there to be
substituted for the operator, to see that the property it names would notice.

## Runs

| run | question | instance | size |
|---|---|---|---|
| `atom_bridge` | do bytes stay whole, and in their session, over all interleavings? | ring of 2, 3 chunks, 2 attempts | 528 000 states |
| `reconnect_silent` | does every failure end the session, and does the bridge come back? | unbounded | 267 states |
| `reconnect_talking` | does it also when the USB peer keeps sending? (no) | unbounded | small |
| `attachments` | is content lost in any other way than by the race? | 2 rows, 2 uploads, 2 digests, 1 edit, 1 restart, bucket | 500 000 states |
| `attachments_lost` | can content be lost at all? (yes) | the same, local disk | small |
| `bridge_sessions` | do rows, tokens, names and sessions agree? | 2 Atoms, 2 claims, 3 connections, 1 revocation, 1 restart | 604 000 states |
| `bridge_revocation` | does revocation always end the session? (no) | the same | small |
| `nano_session` | is every log imported, under its own name, without disturbing roasts? | 1 profile, 3 logs, 2 roasts, 1 damaged file, 1 manual run, 1 drop, 1 reset | 108 000 states |
| `nano_sync` | does a synchronisation of the companion always end, and file what it read where it belongs? | 1 log and 1 that a roast writes, a listing of 2 chunks, 3 lists of ports, 1 fault, 1 roast, 1 manual run | 507 000 states |
| `mcp_gateway` | are places given back, and callers told the truth about their writes? | 3 requests of 2 agents, 2 places, 1 per agent, bursts of 2 and 1, 1 fault, 1 refill | 407 000 states |
| `library` | do the library, its index and its pages agree with the notebook? | 2 contents, 2 paths, 2 names, a seeded or empty notebook, 3 writes, 1 restart | 59 000 states |
| `bridge_setup` | is what the panel says stored, and do port and buttons come back? | 2 mountings, 4 clicks, 3 claims, 1 fault | 227 000 states |

Why the bounds are enough. A ring of two overflows on the third chunk, and a
chunk can be in the callback's hands, in the ring and in `app_main`'s hands at
once; two attempts put a boundary between sessions. Two uploads of two contents
and two rows are the least in which one replaces what the other brings. Three
connections of two bridges let one reconnect while its old session lives and
another take over. Two new logs let one roast begin while the log of the other
is not yet imported. In `nano_sync` a listing of two chunks has an
acknowledgement in its middle; three lists of ports let one fail or be given up
and be made again, and still two sessions follow on one another, so that lines
of the first reach the second; one late answer is its bound, and the exception of `Attributed` for
three was found, and the two below it checked, on a larger instance of the same
module (one chunk per listing, two faults, three manual runs, one list of ports, the new
log before the old one by name: 1 372 000 states). In `mcp_gateway` three requests exceed two places, two of one agent
exceed its one, and each bucket runs empty; one of the tools reads before it
writes and two write the same record. In `library` three writes are enough to
import a log, assign it and rename what it was assigned to between two pages of
one row. In `bridge_setup` two mountings compete for one port, and four clicks
connect, scan, configure and connect again; the third claim leaves one to store
beside the token of the one before. `CHECK_DEADLOCK FALSE` is set where the
bounds (a used-up connection, upload, attempt, request, click, fault) let the
system stop; `Reconnect` and `Library` always have a step, and their runs check
deadlock.

### Properties

- **AtomBridge.** `Conservation`: received = forwarded + discarded + consumed +
  what is in the ring and in `app_main`'s hands, although three tasks update
  the counters. `GenerationIsolation`: bytes forwarded in a session were pushed
  in it (bytes of a peer not yet recognised, pushed before the first session,
  are the exception the code makes). `NoGapInSession`: within a session chunks
  are consecutive. `FreshHandshake`: after bytes of a Nano, the next session
  carries only bytes of a later USB attachment. `SetupStaysLocal`,
  `OnlyNanoReenumerates`, `ClientOutlivesSend`, `RecoveryCompletes`,
  `ImplementsSession`; and, through it, `ClientHasSession`.
- **Reconnect.** `FailureEndsSession`, although `FAILED` is
  cleared by three waits and `AUTHENTICATED` wins over it; `Reconnects`.
- **Attachments.** `LostOnlyByRace`, `AcceptedIsReplicated`, `PassClosesGap`,
  `CollectsWhatItReplaced`; and `Retrievable`, which does not hold.
- **BridgeSessions.** `ClaimEnrolsOne`, `TokenAgreement`,
  `NewestStaysConnected`, `RevokedIsDetached`; and `RevocationDetaches`, which
  does not hold.
- **NanoSession.** `Attributed`, `RefusedOnce`, `CatchesUp`, which has two
  exceptions, each a state the code really gets into: `Muted` (a refused manual
  run used up the attempt) and `Deaf` (the Nano was reset, the transport was
  not, and a Ready session ignores connection requests).
- **NanoSync.** `Attributed`: what is filed under a path the Nano held there,
  over timeouts, reconnections and late chunks, although paths of answers are
  not compared. A request that was reported as failed and was delivered
  (`crossed`) leaves its answer to a later one; a run lists two directories
  before it reads a log, so that it takes three of them to misfile a log (TLC
  finds the log of another path with `MaxFaults = 3`), and the property excepts
  that. `ListingIsOwn`: nor is the listing another directory's, except after one
  such request. `OpensCurrent`: the child opens a port by its place in a list,
  and that is the list it was found in, although lists and openings are given
  up after ten seconds and tried again while the child still has them.
  `SyncEnds`: whatever dies, the promise is settled, unless `parseDirectory`
  threw (`Hung`).
- **McpGateway.** `CountersExact`: the counters are the requests, on every way
  out of the handler. `NotMisreported`: a caller is told failure only of a write
  that has not been and will not be performed, except when the answer broke off
  after its headers (`cut`). `Answered`: the timer reaches every await.
- **Library.** `LibraryAgrees`: rows and search entries are what the roast's own
  page shows, after any writes. `PagesWhole`: pages put together hold the list
  they began with as long as nothing listed has gone or moved towards the
  beginning, with nothing twice while nothing changed; the exception is the group
  of roasts without a coffee, of which there may be two. `SeriesIsOwn`: a curve is that of the roast that was read.
- **BridgeSetup.** `ConfiguredIsStored`: what the panel calls configured is in
  the flash, whole. `KeepsACredential`: no step takes an Atom's last credential.
  Both except the race of two writers (`raced`). `PortHeld`: the open port is
  always somebody's to close, except that of a panel left while it connected
  (`left`). `ActivityEnds`: what a panel began ends, unless the line it waits
  for was lost (`Unanswered`).

An exception is a state the code gets into and the property names; without it
TLC finds the property violated. What it excepts is a hazard the property does
not cover: `PROJECT.json` lists those of `Muted`, `cut` and `raced` without a
property, those of `left` and `Unanswered` with a note, and without a property
also the worker's queue of 256 records, which is not modelled. `TypeOK` of
Attachments, NanoSession, NanoSync, Reconnect and Library says what shape the
state has, for the reader; it is not one of the runs' properties, and that of
Reconnect is proved (`SessionTyped`).

### Fairness

AtomBridge: every firmware task keeps being scheduled (`TaskFairness`), which
the idle delays in its loops provide; nothing of peer, link or backend.
Reconnect assumes in its runs a reachable backend from the first loss on: the
client connects and is accepted, and waits do not time out (`GoodLink`); each
fairness condition is on a step that this restriction allows. NanoSession:
the worker turns, its timers expire, the Nano asks, answers, and ends its
roasts. NanoSync: the event loop turns and the child works through its
commands (weak), and an armed timer expires although lines keep coming
(strong: other steps may disable it for a moment again and again); nothing of
the Nano, which may never answer. McpGateway: the timer of a request expires
and the handler's own continuations run, per request; nothing of the notebook,
the authority or the caller. BridgeSetup: the page's event loop, the operator's
answer to the port chooser, an end to the backend client's wait, and the Atom's
`app_main`. Attachments, BridgeSessions and Library are checked for safety only.

## Disagreements between code and documents

1. **A talking peer can block reconnection** (`reconnect_talking`). Between
   sessions the forwarder is failed, so every USB chunk sets `FAILED`
   (`setup_main.c:1482`), which ends the waits of the next attempt.
2. **An upload can lose its bytes** (`attachments_lost`). The reference check
   and the delete (`core_api.rs:1341`) are apart; another upload of the same
   content may have found the object on the disk in between.
3. **Revocation can be overtaken** (`bridge_revocation`). A connection between
   authentication and attachment attaches after the detach command.

These are runs. The following are known from the models and reading, and appear
there as exceptions of a property or as behaviour no property speaks of:

- A manual synchronisation during negotiation is refused and uses up the
  session's attempt (`device.rs:676`): `Muted`.
- A write whose answer breaks off after its headers is reported as failed
  (`api.ts:149-165`; ADR 0009:28 has unknown outcomes reported as such): `cut`.
- A token of an earlier claim that is stored while a newer configuration is can
  leave the Atom without claim and token, and a failed NVS write leaves a
  mixture of two configurations; the firmware's `README.md:12` says "atomically
  stores", `docs/10:263` that failure retains the prior generation: `raced`.
- A panel left while it connects keeps the port (`left`); a lost line leaves it
  busy, as reads have no timeout (`Unanswered`), and a stray line makes every
  later answer that of the request before.
- The panel says the Atom can be unplugged as soon as it has acknowledged the
  configuration, before the service has accepted a session.
- A malformed listing hangs the companion's synchronisation and all later ones
  (`Hung`); a request reported as failed may have been delivered, and its answer
  is taken for the next one's (`crossed`): one makes a listing that of the other
  directory, three can file a log under the path of another.
- The child process is not started again when it exits; a data line before
  `open()` has returned is dropped, which ends the session with a sequence gap.
- The content A, then B, then A again under one path violates the unique digest
  and ends the synchronisation (`klog-importer.ts:57` calls the import
  idempotent): the outcome `duplicate` of `Import`.
- Grouping by coffee gives two groups without a coffee; offset cursors skip rows
  of a list that shrinks or is reordered; rebuilding a search entry loses the
  notes of the log.

## What is proved

Every safety property the passing runs check: of the firmware, where the
number of interleavings is largest and the bounds of TLC bite most (the ring
holds 32 KiB, not two chunks); of the life of a bridge and of attachment
content, where rows, commands and stores are written by several parties; of the
MCP gateway, whose requests are many; of the setup panel and the flash of the
Atom; of the companion's notebook; of the worker's session with the Nano; and of the
companion's synchronisation over its child process.
The theorems hold for every value of the constants, bounds included, and for
sets of any size, infinite ones too. Nothing is assumed of links, backends,
peers or callers, and no fairness.

| theorem | statement | inductive invariant |
|---|---|---|
| `AtomBridge_proofs!SessionTyped` | `Session!Spec => []Session!TypeOK` | `TypeOK` of Reconnect itself |
| `AtomBridge_proofs!SessionClient` | `Session!Spec => []Session!ClientHasSession` | the property itself |
| `AtomBridge_proofs!TypesHold` | `Spec => []TypeOK` | `TypeInv` |
| `AtomBridge_proofs!NothingUncounted` | `Spec => []Conservation` | `TypeInv /\ Conservation` |
| `AtomBridge_proofs!ClientOutlives` | `Spec => []ClientOutlivesSend` | `TypeOK /\ LockInv` |
| `AtomBridge_proofs!Implements` | `Spec => Session!Spec` | `TypeInv` |
| `AtomBridge_proofs!ClientSafe` | `Spec => []ClientHasSession` | by `Implements` and `SessionClient` |
| `AtomBridge_proofs!ReenumeratesNano` | `Spec => OnlyNanoReenumerates` | `TypeInv /\ RequestInv` |
| `AtomBridge_proofs!SessionsIsolated` | `Spec => []GenerationIsolation` | `TypeInv /\ LockInv /\ IsolationInv` |
| `AtomBridge_proofs!SetupIsLocal` | `Spec => []SetupStaysLocal` | the same |
| `AtomBridge_proofs!Gapless` | `Spec => []NoGapInSession` | `StreamInv` |
| `AtomBridge_proofs!HandshakesFresh` | `Spec => []FreshHandshake` | `StreamInv` |
| `BridgeSessions_proofs!TypeCorrect` | `Spec => []TypeOK` | `TypeInv` |
| `BridgeSessions_proofs!EnrolsOne` | `Spec => []ClaimEnrolsOne` | `TypeInv /\ TokenInv` |
| `BridgeSessions_proofs!TokensAgree` | `Spec => []TokenAgreement` | the same |
| `BridgeSessions_proofs!RevocationEnds` | `Spec => []RevokedIsDetached` | `TypeInv /\ RevokedInv` |
| `BridgeSessions_proofs!NewestConnected` | `Spec => []NewestStaysConnected` | `TypeInv /\ NewestInv` |
| `Attachments_proofs!TypeCorrect` | `Spec => []TypeOK` | `Inv` |
| `Attachments_proofs!LossIsRace` | `Spec => []LostOnlyByRace` | `Inv` |
| `Attachments_proofs!AcceptedHasCopy` | `Spec => []AcceptedIsReplicated` | `Inv` |
| `Attachments_proofs!PassLeavesNothing` | `Spec => []PassClosesGap` | `Inv` |
| `Attachments_proofs!CollectsReplaced` | `Spec => CollectsWhatItReplaced` | `Inv` |
| `McpGateway_proofs!TypeCorrect` | `Spec => []TypeOK` | `GatewayInv` |
| `McpGateway_proofs!CountsExactly` | `Spec => []CountersExact` | `GatewayInv` |
| `McpGateway_proofs!TellsTruth` | `Spec => []NotMisreported` | `GatewayInv` |
| `BridgeSetup_proofs!PortGivenBack` | `Spec => []PortHeld` | `Inv` |
| `BridgeSetup_proofs!ConfiguredIsTrue` | `Spec => []ConfiguredIsStored` | `Inv` |
| `BridgeSetup_proofs!CredentialStays` | `Spec => KeepsACredential` | `Inv` |
| `Library_proofs!CopiesAgree` | `Spec => []LibraryAgrees` | `Inv` |
| `Library_proofs!CurveIsOwn` | `Spec => []SeriesIsOwn` | `Inv` |
| `Library_proofs!PagesAreWhole` | `Spec => []PagesWhole` | `Inv` |
| `NanoSession_proofs!TypeCorrect` | `Spec => []TypeOK` | `Inv` |
| `NanoSession_proofs!FilesAreOwn` | `Spec => []Attributed` | `Inv` |
| `NanoSession_proofs!RefusesOnce` | `Spec => []RefusedOnce` | `Inv` |
| `NanoSync_proofs!Invariant` | `Spec => []Inv` | `Inv` |
| `NanoSync_proofs!FilesAttributed` | `Spec => []Attributed` | `Inv` |
| `NanoSync_proofs!ListingsAreOwn` | `Spec => []ListingIsOwn` | `Inv` |
| `NanoSync_proofs!OpensOfLastList` | `Spec => []OpensCurrent` | `OneList` |

Assumptions used: `BridgeSessionsAssumption` (`None` is no bridge, claim or
connection), `AttachmentsAssumption` (`None` is no digest, an upload has a
content), `McpGatewayAssumption` (capacities and bursts are at least one),
`AsksAssumption` (a request calls one of the tools, or none),
`CatalogAssumption` (`Null` is no name), `LibraryAssumption` (a database begins
empty or with the demo seed, a roast has a time, a query asks for at least one
item a page), `NanoSessionAssumption` and `NanoSyncAssumption` (names sort, as
numbers do; the files the Nano starts with, and those roasts write, are some of
its files). Of `CapacityAssumption` (the ring holds something) and of every bound
nothing is used but that it is a number.

The argument, from the bottom:

- **Firmware.** Lemmas say, operation by operation, what each function of
  `forwarding.c` returns. The other proofs cite these lemmas instead of the
  definitions.
- `TypeInv` is the type invariant with `BatchHeld`: `app_main` holds a chunk
  exactly between a pop and what becomes of it. Without it the send has no
  chunk to send, and the account no last term. The Boolean flags have a lemma
  of their own (`FlagTypes`).
- `Conservation` is proved as an account: each step moves at most one chunk
  from one place to another, or the whole ring into the discarded (`Balanced`,
  one lemma per kind of movement).
- `LockInv`: `app_main` sends only with the mutex and through a client that is
  set, and a client is set only in a session. `network_task` clears it under
  the same mutex before it stops it, so that no send outlives it.
- `RequestInv`: a re-enumeration is requested only for a Nano; a recognised peer
  stays what it is (`PeerStays`), so that it still is one when `app_main` acts.
- `IsolationInv`: the ring of a peer that is not in setup holds chunks of the
  session in progress and is empty after a failure (`RingFresh`); the chunk in
  hand belongs to the session it was popped in, which lasts while it is sent,
  because only a holder of the mutex begins another (`BatchFresh`); and
  `network_task` begins a session only on a stream that failed, or as the first
  (`BetweenSessions`). The last is what makes it harmless that
  `tan_forward_begin` leaves the ring of an unrecognised peer alone.
- `StreamInv` adds to that what the numbers of the chunks need. `StateInv` says
  in which states the flags can be: a re-enumeration is over before the next
  session begins (`RecoveryPending`), and a stream without a client has failed,
  but for the first (`ClientOpens`). `SessionInv`: a ring that waits for the Nano
  is empty and nothing of the session has been received. `NumberInv`: what was
  received last, what `app_main` holds, the ring and what was read last follow
  on one another, until the stream fails; a failure empties the ring, and the
  session carries nothing after it. `UsbInv`: after bytes of a Nano in an earlier
  session, all that is on its way was read under a later attachment.
- `Implements`: the initial states correspond, and each step of each task is a
  step of Reconnect or leaves its variables alone. A step of `app_main` is a
  stutter unless it fails the stream; a push is a stutter unless it finds or
  makes the stream failed.

- **Bridge sessions.** All handlers but the hello and the authentication move
  connections from one stage to another and leave whose they are, the secret
  they showed and the revision they authenticated under (`OnlyStages`). With
  that, `TypeInv` adds to the types that a connection that has said hello has a
  bridge and a secret (`Bound`), and that the queue and the session speak of
  such connections under their own bridge (`Named`).
- `TokenInv`: an Atom holds a claim or a token, never both (`Exclusive`); a
  claim that is being presented is still the Atom's, or has become its token
  (`Presented`); an answer an Atom waits for carries the token of its row
  (`Awaited`). Without the last, `TokenAgreement` would fail at the step that
  stores the token.
- `RevokedInv` follows a revoked bridge's connection to the worker: in its
  handshake, then as an attach command, then as the session, the detach is still
  to be sent, or behind it in the queue, or overtaken. It speaks of the order of
  the queue, which may have any length.
- `NewestInv`: no revision of a connection is above its row's, and those of one
  bridge are distinct; the drop of a transport touches the row only when the
  revisions are equal, and so only for the newest connection.
- **Attachments.** What a row names, or an upload has found and is about to
  name, is `Needed`. A step never removes what is needed, except a delete, and
  then it is in `raced` (`Preserves`, because the upload that deletes has looked:
  `Looked`). So what an upload relies on is still there when the row is written
  (`Relies`), which makes `LostOnlyByRace` inductive. `Covers`: while the pass
  runs, what rows name is in the bucket, or raced, or in the rest of its
  listing. `Remembers`: a row whose revision has not changed has the digest the
  handler read.
- **MCP gateway.** `Sound` says for one request what holds at each stage: a call
  not yet performed has done nothing, an answer says what it did, headers that
  say ok have followed the deed, and what the caller is told fits. It needs that
  a tool writes in its last call only (`ToolFacts`). Each step moves one request
  (`Step`) and stays, enters, is admitted or leaves as the counters do; the
  requests in flight are finitely many (`CountInv`), which gives the counters
  something to count when there are infinitely many requests. That a counter is
  at least one when it is given back follows from the request in flight, not
  from a guard: the code has none.

- **Setup panel.** `PortInv` keeps an account of the port: who has it, and that
  what they await lets them close it. `OrderInv` is the order of the cable:
  requests and claims are numbered, and what was answered is older than what is
  being stored, and that older than what is pending. `FlashInv` says what each
  write has left in the flash (`StoreInv`) and that a stored token stays unless a
  newer claim is there (`TokenInv`). `ToldInv`: while the answer to a
  configuration is on its way, and after it was read, the Atom `Holds` that
  configuration and no other. It needs the order: the answer to the last request
  can only be there when nothing is pending or being stored (`AnsweredLast`).
- **Notebook.** The operations are functions of a database, and so are the
  lemmas: each of KlogImport and Catalog makes of a notebook a notebook
  (`NotebookOK`), and what it leaves alone is said once (`Keeps` for the tables
  of names, `OneWritten` for one roast with its row and its entry). The step of
  the specification then needs no more than that it is one of these.
  `ViewerOK`: the number of a roast's stream only grows, and under one number a
  reader and the roast agree on the log it came from. `NextRevision`, the
  increment every write makes, is an operator of its own so that a lemma can
  say what it leaves alone.
- **Pages.** A list is ordered by rank (`InOrder`): a strict total order on a
  finite set gives every element a number of predecessors of its own, so that
  the ranks are the places (`Ordered`). The order by time and roast is total, and
  so is that of groups, as one coffee has one label in all rows (`Grouped`).
  `PagerOK` is about a reader half way: it has been given all it is owed that now
  lies before its `offset`, and exactly the items before it while nothing changed
  (`Reading`). A page takes the place further or, if it is the last, leaves
  nothing behind it (`PageShown`). A write keeps this as long as the list
  `Grew`: what then lies before the place lay before it earlier; otherwise
  nothing is owed any more (`PagerDisturbed`). What a group's count promised is
  the number of rows of its coffee (`Counted`); roasts without a coffee are the
  exception, as they may be two groups.
- **Session with the Nano.** First every turn of the worker is shown to be one
  of eight kinds (`Turns`), so that the invariants never see `handle_message`;
  that `First` is a file of those left needs the least number principle
  (`LeastOf`, from the library's theorem on well-founded relations).
  `HandshakeInv`: the Nano counts its requests, so a request on its way is newer
  than all that were answered or kept; the one that opens the session is then
  the last, and a Nano that was reset after it had greeted stays deaf until the
  transport is closed (`DeafInv`). `TransferInv` uses that: a Nano that serves
  files has been asked for one at most, the one the worker waits for
  (`SoughtInv`), what it supplies is the only answer under way (`SuppliedInv`),
  and refusals are on their way only while it is locked or deaf (`RefusedInv`).
  So what is accepted without comparing paths is what was asked for.
  `RefusalInv`: nothing that says the lock is open follows a refusal, so that a
  worker that was refused in this roast knows of the lock until the roast and
  its refusals are over (`Warned`).

- **Synchronisation of the companion.** Answers say neither which request they
  are of nor, in the session, which path; they meet requests by their order
  alone. What has been asked and not answered is one queue: requests among the
  child's commands, requests on their way to the Nano, and first chunks in the
  child's output that the companion has not read. `Ranked` says
  that its members can be numbered, in the order in which they will be answered,
  so that none but the request that waits is further back than `crossed` places,
  and the log of another request, as each listing of a run takes one place from
  the front (`Depth`), that many places less. With `crossed < 3` the answer at
  the front is then that of the log that waits, or a listing's; with
  `crossed = 0` it is that of any request that waits. The numbers are
  existential: a step keeps, shortens or extends the numbering (`RankedStill`,
  `RankedTake`, `RankedIssue`), and a request that fails without reaching the
  Nano leaves no number behind (`RankedLost`). The rest of `Turn` is what this
  needs: the host has one request, one `list` and one `open` out at a time, and
  waits for their answers (`Tickets`); a `list` is asked for after every write
  (`Ordered`), so that a request of an earlier session is answered before another
  session begins; a session that has just been opened has heard nothing
  (`NewSession`); a request that waits is the last command (`Latest`). `Turn` is
  about a host half way through a step, with the commands it has meant to send so
  far (`Mid`): the session's methods call one another and the manager, and each
  has a lemma of its own.
- **Lists of ports.** `OneList` is a second invariant, proved with the first: an
  opening among the child's commands carries the generation the registry has,
  and stands before every list, so that none is made before it is performed; a
  list whose answer is awaited is the last command that lists; and an answer
  that is on its way carries that generation too, and then no list is among the
  commands (`OfOneList`). The lists and openings that were given up are ignored
  by their answers, but still performed in their order.

An invariant found for a proof was first checked by TLC, the one of NanoSession
with two of each bound (548 000 states), the one of NanoSync on three instances
(up to 3 173 000 states) when lists of ports did not yet fail nor openings close
a session, and proved again since; `OneList`, with the safety properties, on the
instance of `nano_sync` with two faults (4 925 000 states); `PagerOK` on
the instance of `library` and with four writes (442 000 states).

Only model-checked: the refusals of a property in the runs that expect one, and
the liveness properties (`RecoveryCompletes`, `FailureEndsSession`,
`Reconnects`, `CatchesUp`, `SyncEnds`, `Answered`, `ActivityEnds`). Liveness
under fairness, `ENABLED`, induction over data and recursive operators are out of
the prover's reach; the modules declare no recursive operator.

## Not modelled

`PROJECT.json` lists every part with a reason. In short:

- **Most of the TypeScript.** Of its lines the map covers about a tenth. The
  rest is screens, generated clients, schemas and mock-ups, which hold no
  protocol; codecs and parsers (`packages/device-sassi`,
  `native-format-adapters`, `printing-adapters`), which are pure functions over
  bytes and appear in the models as their outcomes; the use cases of
  `packages/application`, which no program of the repository calls; and the
  handlers of brews, labels and preferences, of one table and one request each.
- **Editors of the web application.** A form is keyed by the record's id and
  revision, so that a save carries the revision that was shown; a refetch that
  brings a new revision mounts the form again and drops what was typed. There is
  one request at a time and nothing for a model to interleave but that.
- **The Rust notebook** (`core_api.rs`, `inventory.rs`) and the matching of logs
  with roasts in `klog.rs`. Each handler is one transaction under the
  connection's mutex. The companion's catalogue, of which they are the
  successor, is modelled. Hazards that are therefore not covered: a planned
  roast restored beside another, and a log path the Nano uses again.
- **The ESP32-S3 image** with its spool, and the USB probe: not deployed.
- **Credentials, start-up, configuration, static files, the desktop shell**: a
  row or a signature per request, or wiring.
- In modelled components: Wi-Fi association and clock synchronisation on the
  Atom; serial port discovery, `sync_runs` and the snapshot's counters in the
  worker; byte queues of a transport; the serial bridge's validation of
  its input, and how it groups and configures ports; what only the companion's snapshot shows;
  library filters and groupings beyond one of each kind; the MCP library's own
  state and the eviction of idle peers.

## Order of work

1. Forwarding, AtomBridge, Reconnect, BridgeSessions, NanoSession, Attachments,
   their runs, and the proofs about the firmware.
2. RoasterSession and NanoSync with KlogImport; McpGateway; Catalog, RoastLibrary
   and Library; BridgeSetup; the proofs about bridges, attachments and gateway.
3. The proofs about the stream, the setup panel, the notebook and the session
   with the Nano.
4. The proofs about the companion's synchronisation, the pages of its library and
   what the firmware's session refines.
5. What would come next: `klog.rs` and the planned roasts of `core_api.rs`, by
   the pattern of KlogImport and Catalog; the spool, with torn appends, once it
   is deployed.
