------------------------------ MODULE BridgeSetup ----------------------------
(***************************************************************************)
(* Setting up a Tan Bridge from the browser: the panel of the web          *)
(* application (components/tan-bridge-setup-panel.tsx), its client of the  *)
(* serial port (lib/tan-bridge-setup.ts), and the Atom's setup protocol    *)
(* (setup_main.c), beside the Atom's network task, which redeems the claim *)
(* of an earlier configuration at the same time.                           *)
(*                                                                         *)
(* A panel is one mounting of the component; what it awaits outlives it.   *)
(* A configuration is known by the number of its claim.  0 is none.        *)
(***************************************************************************)
EXTENDS Naturals, Sequences

CONSTANTS
  MaxPanels,    \* bound: mountings of the panel
  MaxClicks,    \* bound: buttons pressed
  MaxClaims,    \* bound: number of the last claim
  MaxFaults     \* bound: failed writes of the flash, lost lines, power cycles

ASSUME BridgeSetupAssumption ==
  {MaxPanels, MaxClicks, MaxClaims, MaxFaults} \subseteq Nat

VARIABLES
  panel,    \* the panels mounted so far; only the last may still be
  port,     \* the serial port: the panel whose client has it open, and how it fares
  tx,       \* requests the Atom has not taken up
  wire,     \* lines of the Atom the client has not read
  atom,     \* its flash and memory, and what its tasks are doing
  issued,   \* numbers of the last request and the last claim
  clicks, faults,  \* bounds
  raced     \* history: a device token was being stored over a newer configuration

page == <<panel, port, clicks>>
vars == <<page, tx, wire, atom, issued, faults, raced>>

-----------------------------------------------------------------------------

\* op: what the panel's handler awaits; ref: clientRef; waiting: the request whose answer
\* is awaited; leaving: disconnect awaits its close; left: unmounted while connecting.
NewPanel ==
  [mounted |-> TRUE, op |-> "idle", ref |-> FALSE, waiting |-> 0, leaving |-> FALSE,
   status |-> FALSE, networks |-> FALSE, claim |-> 0, configured |-> 0, left |-> FALSE]

NoPort   == [owner |-> 0, closing |-> FALSE, alive |-> TRUE]
NoConfig == [n |-> 0, id |-> 0, step |-> "none"]

Stored(ssid, pass, claim, token) ==
  [ssid |-> ssid, pass |-> pass, claim |-> claim, token |-> token]

HasCredential(stored) == stored.claim # 0 \/ stored.token # 0

\* app_main starts network_task if there is a network and a credential.
Booted(nvs) ==
  [nvs |-> nvs, mem |-> nvs, config |-> NoConfig, due |-> FALSE,
   net |-> [stage |-> IF nvs.ssid # 0 /\ HasCredential(nvs) THEN "offline" ELSE "none",
            n |-> 0]]

\* A new Atom, one whose claim is not redeemed yet, or one that is enrolled.
Init ==
  /\ panel = << NewPanel >> /\ port = NoPort
  /\ tx = << >> /\ wire = << >>
  /\ \E nvs \in {Stored(0, 0, 0, 0), Stored(1, 1, 1, 0), Stored(1, 1, 0, 1)} : atom = Booted(nvs)
  /\ issued = [request |-> 0, claim |-> 1]
  /\ clicks = 0 /\ faults = 0 /\ raced = FALSE

Becomes(p, rec) == panel' = [panel EXCEPT ![p] = rec]

\* The buttons need the panel, and that nothing goes on.
Click(p) ==
  /\ panel[p].mounted /\ panel[p].op = "idle"
  /\ clicks < MaxClicks /\ clicks' = clicks + 1

Fault == faults < MaxFaults /\ faults' = faults + 1

-----------------------------------------------------------------------------
(* The client of the port.                                                 *)

\* exchange throws when the client is closed or the port is lost.
Usable(p) == port.owner = p /\ ~port.closing /\ port.alive

\* close: no more is read; the port is given back once no request is in progress.
\* A client that is closed already is left alone.
Closing(p) == IF port.owner = p THEN [port EXCEPT !.closing = TRUE] ELSE port

Idle(rec) == [rec EXCEPT !.op = "idle", !.waiting = 0]

\* exchange: the request is written, its line awaited.
Asks(p, rec, op, claim) ==
  LET id == issued.request + 1 IN
  /\ tx' = Append(tx, [id |-> id, op |-> op, n |-> claim])
  /\ issued' = [request |-> id, claim |-> IF claim = 0 THEN issued.claim ELSE claim]
  /\ Becomes(p, [rec EXCEPT !.op = op, !.waiting = id, !.claim = claim])

AsksOrFails(p, rec, op, claim) ==
  IF Usable(p) THEN Asks(p, rec, op, claim)
  ELSE Becomes(p, Idle(rec)) /\ UNCHANGED <<tx, issued>>

\* Faulty: connect's catch leaves the port open.
FailsOpen(p) == Becomes(p, Idle(panel[p])) /\ UNCHANGED port

\* The handler's catch: connect closes the client it has not published yet.
Fails(p) ==
  IF panel[p].op = "status"
    THEN /\ Becomes(p, [panel[p] EXCEPT !.op = "abandoning", !.waiting = 0])
         /\ port' = Closing(p)
    ELSE Becomes(p, Idle(panel[p])) /\ UNCHANGED port

-----------------------------------------------------------------------------
(* The panel.                                                              *)

Mount ==
  /\ ~panel[Len(panel)].mounted /\ Len(panel) < MaxPanels
  /\ panel' = Append(panel, NewPanel)
  /\ UNCHANGED <<port, clicks, tx, wire, atom, issued, faults, raced>>

\* The effect's cleanup: a client that is still being connected is not in the ref.
Unmount(p) ==
  /\ panel[p].mounted
  /\ Becomes(p, [panel[p] EXCEPT !.mounted = FALSE, !.ref = FALSE,
                                 !.left = panel[p].op \in {"opening", "status"}])
  /\ port' = IF panel[p].ref THEN Closing(p) ELSE port
  /\ UNCHANGED <<clicks, tx, wire, atom, issued, faults, raced>>

\* clientRef is empty when there is no status, so there is nothing to close first.
Connect(p) ==
  /\ Click(p) /\ ~panel[p].status
  /\ Becomes(p, [panel[p] EXCEPT !.op = "opening", !.configured = 0])
  /\ UNCHANGED <<port, tx, wire, atom, issued, faults, raced>>

\* requestPort and open: a port that is open cannot be opened again; the operator may
\* choose none.
Opened(p) ==
  /\ panel[p].op = "opening"
  /\ \/ /\ port.owner = 0 /\ port' = [NoPort EXCEPT !.owner = p]
        /\ Asks(p, panel[p], "status", 0)
     \/ Becomes(p, Idle(panel[p])) /\ UNCHANGED <<port, tx, issued>>
  /\ UNCHANGED <<clicks, wire, atom, faults, raced>>

Scan(p) ==
  /\ Click(p) /\ panel[p].ref
  /\ AsksOrFails(p, panel[p], "scan", 0)
  /\ UNCHANGED <<port, wire, atom, faults, raced>>

\* configure begins with a claim of the backend.
Configure(p) ==
  /\ Click(p) /\ panel[p].ref /\ panel[p].networks
  /\ Becomes(p, [panel[p] EXCEPT !.op = "claim"])
  /\ UNCHANGED <<port, tx, wire, atom, issued, faults, raced>>

\* createBridgeClaim, or no answer of the backend.
Claimed(p) ==
  /\ panel[p].op = "claim"
  /\ \/ /\ issued.claim < MaxClaims
        /\ AsksOrFails(p, panel[p], "configure", issued.claim + 1)
     \/ Becomes(p, Idle(panel[p])) /\ UNCHANGED <<tx, issued>>
  /\ UNCHANGED <<port, clicks, wire, atom, faults, raced>>

\* What the handler does with a good answer.
Succeeds(p) ==
  \/ /\ panel[p].op \in {"status", "rescan"}
     /\ Becomes(p, [Idle(panel[p]) EXCEPT
                      !.ref = @ \/ panel[p].op = "status", !.status = TRUE,
                      !.networks = @ /\ panel[p].op = "rescan"])
     /\ UNCHANGED <<port, tx, issued>>
  \/ /\ panel[p].op = "scan"
     /\ AsksOrFails(p, [panel[p] EXCEPT !.networks = TRUE], "rescan", 0)
     /\ UNCHANGED port
  \/ /\ panel[p].op = "configure"
     /\ Becomes(p, [panel[p] EXCEPT !.op = "finishing", !.waiting = 0,
                                    !.configured = panel[p].claim])
     /\ port' = Closing(p) /\ UNCHANGED <<tx, issued>>

\* readLine: the next line is taken, whatever it answers.
ReadLine(p) ==
  /\ panel[p].waiting # 0 /\ Usable(p) /\ wire # << >>
  /\ wire' = Tail(wire)
  /\ IF Head(wire) = [id |-> panel[p].waiting, ok |-> TRUE] THEN Succeeds(p)
     ELSE Fails(p) /\ UNCHANGED <<tx, issued>>
  /\ UNCHANGED <<clicks, atom, faults, raced>>

\* Faulty: close does not cancel the reader.
ReadFailsWhenLost(p) ==
  /\ panel[p].waiting # 0 /\ port.owner = p /\ ~port.alive
  /\ Fails(p) /\ UNCHANGED <<clicks, tx, wire, atom, issued, faults, raced>>

\* The reader is cancelled, or the port is lost.
ReadFails(p) ==
  /\ panel[p].waiting # 0 /\ ~Usable(p)
  /\ Fails(p) /\ UNCHANGED <<clicks, tx, wire, atom, issued, faults, raced>>

\* disconnect: a second click, while the first awaits its close, finds no client.
Disconnect(p) ==
  /\ Click(p) /\ panel[p].status
  /\ IF panel[p].ref
       THEN /\ Becomes(p, [panel[p] EXCEPT !.ref = FALSE, !.leaving = TRUE])
            /\ port' = Closing(p)
       ELSE /\ Becomes(p, [panel[p] EXCEPT !.status = FALSE, !.networks = FALSE])
            /\ UNCHANGED port
  /\ UNCHANGED <<tx, wire, atom, issued, faults, raced>>

\* The rest of close, and of the handler that awaits it.  Lines the computer had not
\* read may be there for the next client.
PortClosed(p) ==
  /\ port.owner = p /\ port.closing /\ panel[p].waiting = 0
  /\ port' = NoPort
  /\ \E n \in 0 .. Len(wire) : wire' = SubSeq(wire, n + 1, Len(wire))
  /\ LET was  == panel[p]
         over == was.op \in {"abandoning", "finishing"}
     IN  Becomes(p, [was EXCEPT
           !.op       = IF over THEN "idle" ELSE @,
           !.leaving  = FALSE,
           !.ref      = @ /\ ~over,
           !.status   = @ /\ ~over /\ ~was.leaving,
           !.networks = @ /\ was.op # "finishing" /\ ~was.leaving])
  /\ UNCHANGED <<clicks, tx, atom, issued, faults, raced>>

\* A handler of a panel goes on.
Continue(p) == Opened(p) \/ Claimed(p) \/ ReadLine(p) \/ ReadFails(p) \/ PortClosed(p)

Press(p) == Connect(p) \/ Scan(p) \/ Configure(p) \/ Disconnect(p)

Panel == Mount \/ \E p \in DOMAIN panel : Unmount(p) \/ Press(p) \/ Continue(p)

-----------------------------------------------------------------------------
(* app_main: requests, one at a time.                                      *)

\* send_json: what no computer reads may be dropped.
Answers(id, ok) ==
  \/ wire' = Append(wire, [id |-> id, ok |-> ok])
  \/ port.owner = 0 /\ UNCHANGED wire

\* process_request; a scan may fail.
TakeRequest ==
  /\ tx # << >> /\ atom.config.step = "none"
  /\ tx' = Tail(tx)
  /\ LET request == Head(tx) IN
     \/ /\ request.op = "configure"
        /\ atom' = [atom EXCEPT !.config = [n |-> request.n, id |-> request.id, step |-> "ssid"]]
        /\ UNCHANGED wire
     \/ /\ request.op # "configure"
        /\ \E ok \in {TRUE, request.op # "scan"} : Answers(request.id, ok)
        /\ UNCHANGED atom
  /\ UNCHANGED <<page, issued, faults, raced>>

\* Faulty: the device token is erased first.
WritesErasingFirst ==
  [ssid |-> "token", token |-> "pass", pass |-> "claim", claim |-> "commit"]

\* The order of the writes: each names the one after it.
WriteAfter == [ssid |-> "pass", pass |-> "claim", claim |-> "token", token |-> "commit"]

\* nvs_set and nvs_erase take effect at once, not at the commit.
Written(nvs, config) ==
  [nvs EXCEPT ![config.step] = IF config.step = "token" THEN 0 ELSE config.n]

\* send_configuration_result: the flash, write by write, then the memory, the answer,
\* and a restart in 750 ms.
Store ==
  LET config == atom.config IN
  /\ config.step # "none"
  /\ IF config.step = "commit"
       THEN /\ atom' = [atom EXCEPT !.mem = Stored(config.n, config.n, config.n, 0),
                                    !.config = NoConfig, !.due = TRUE]
            /\ Answers(config.id, TRUE)
       ELSE /\ atom' = [atom EXCEPT !.nvs = Written(@, config),
                                    !.config.step = WriteAfter[@]]
            /\ UNCHANGED wire
  /\ UNCHANGED <<page, tx, issued, faults, raced>>

\* Faulty: the result of a write is not looked at.
StoreIgnoresFailure ==
  LET config == atom.config IN
  /\ Fault /\ config.step \in DOMAIN WriteAfter
  /\ atom' = [atom EXCEPT !.config.step = WriteAfter[@]]
  /\ UNCHANGED <<page, tx, wire, issued, raced>>

\* A write or the commit fails: what was written stays.
StoreFails ==
  /\ Fault /\ atom.config.step # "none"
  /\ atom' = [atom EXCEPT !.config = NoConfig]
  /\ Answers(atom.config.id, FALSE)
  /\ UNCHANGED <<page, tx, issued, raced>>

-----------------------------------------------------------------------------
(* The network task and its WebSocket client, on the other core.           *)

Net(stage, n) == atom' = [atom EXCEPT !.net = [stage |-> stage, n |-> n]]

\* backend_hello; n is the claim it presents, if it has no device token.
Hello ==
  /\ atom.net.stage = "offline"
  /\ Net("hello", IF atom.mem.token # 0 THEN 0 ELSE atom.mem.claim)
  /\ UNCHANGED <<page, tx, wire, issued, faults, raced>>

\* authenticate_backend_message: an answer without a device token will do only if
\* there is one.
Authenticated ==
  /\ atom.net.stage = "hello"
  /\ IF atom.net.n # 0 THEN Net("token", atom.net.n)
     ELSE Net(IF atom.mem.token # 0 THEN "attached" ELSE "offline", 0)
  /\ UNCHANGED <<page, tx, wire, issued, faults, raced>>

NetFails ==
  /\ atom.net.stage \in {"hello", "attached"}
  /\ Net("offline", 0)
  /\ UNCHANGED <<page, tx, wire, issued, faults, raced>>

Newer == atom.config.step # "none" \/ atom.nvs.claim > atom.net.n

\* persist_device_token, write by write, whatever has been configured since.
Persist ==
  LET n == atom.net.n IN
  /\ \/ /\ atom.net.stage = "token"
        /\ atom' = [atom EXCEPT !.nvs.token = n, !.net.stage = "claim"]
     \/ /\ atom.net.stage = "claim"
        /\ atom' = [atom EXCEPT !.nvs.claim = 0, !.net.stage = "commit"]
     \/ /\ atom.net.stage = "commit"
        /\ atom' = [atom EXCEPT !.mem.token = n, !.mem.claim = 0, !.net.stage = "attached"]
  /\ raced' = (raced \/ Newer)
  /\ UNCHANGED <<page, tx, wire, issued, faults>>

PersistFails ==
  /\ Fault /\ atom.net.stage \in {"token", "claim", "commit"}
  /\ Net("offline", 0)
  /\ UNCHANGED <<page, tx, wire, issued, raced>>

-----------------------------------------------------------------------------
(* Restarts and losses.                                                    *)

Reboots ==
  /\ atom' = Booted(atom.nvs) /\ tx' = << >> /\ wire' = << >>
  /\ port' = [port EXCEPT !.alive = @ /\ port.owner = 0]
  /\ UNCHANGED <<panel, clicks, issued, raced>>

\* restart_after_configuration.
Restart == atom.due /\ Reboots /\ UNCHANGED faults

PowerCycle == Fault /\ Reboots

\* A request is lost, or cut by a ring that was discarded, which makes it malformed;
\* or a line is not written in time.
LoseLine ==
  /\ Fault
  /\ \/ /\ tx # << >> /\ tx' = Tail(tx)
        /\ wire' \in {wire, Append(wire, [id |-> 0, ok |-> FALSE])}
     \/ wire # << >> /\ wire' = Tail(wire) /\ UNCHANGED tx
  /\ UNCHANGED <<page, atom, issued, raced>>

Atom ==
  \/ TakeRequest \/ Store \/ StoreFails \/ Hello \/ Authenticated \/ NetFails
  \/ Persist \/ PersistFails \/ Restart \/ PowerCycle \/ LoseLine

Next == Panel \/ Atom

\* The page's event loop goes on, the operator answers the browser's question for the
\* port, the backend's client gives up at last, and app_main runs.
Fairness ==
  /\ \A p \in 1 .. MaxPanels : WF_vars(p \in DOMAIN panel /\ Continue(p))
  /\ WF_vars(TakeRequest) /\ WF_vars(Store)

Spec == Init /\ [][Next]_vars /\ Fairness

-----------------------------------------------------------------------------
(* Properties.                                                             *)

\* A panel that tells the operator to unplug the Atom, because the bridge is configured,
\* is right: the flash holds that network and nothing but that claim, or the token it was
\* redeemed for.  The exception is the race of the next property.
ConfiguredIsStored ==
  \A p \in DOMAIN panel :
    LET n == panel[p].configured IN
    panel[p].mounted /\ n # 0 /\ ~raced =>
      /\ atom.nvs.ssid = n /\ atom.nvs.pass = n
      /\ {atom.nvs.claim, atom.nvs.token} \ {0} = {n}

\* No step, failed write or power cycle leaves an Atom that had a claim or a token with
\* neither.  The exception: a token that is stored while a newer configuration is, or
\* after it, erases the newer claim.
KeepsACredential ==
  [][HasCredential(atom.nvs) => HasCredential(atom'.nvs) \/ raced']_vars

\* An open port can be given back: it is that of a panel whose operator can disconnect,
\* of a connection in progress, or one that is being closed.  The exception: a panel that
\* was left while it was connecting keeps the port for good.
PortHeld ==
  port.owner # 0 /\ ~port.closing =>
    LET p == panel[port.owner] IN
    p.left \/ (p.mounted /\ (p.ref \/ p.op = "status"))

\* The client awaits an answer that will not come: it has no timeout.
Unanswered(p) ==
  /\ p \in DOMAIN panel /\ panel[p].waiting # 0 /\ Usable(p) /\ wire = << >>
  /\ atom.config.id # panel[p].waiting
  /\ \A i \in DOMAIN tx : tx[i].id # panel[p].waiting

Busy(p) == p \in DOMAIN panel /\ panel[p].op # "idle"

\* What a panel began comes to an end, whatever is lost, closed or restarted meanwhile, so
\* that its buttons can be used again.  The exception is an answer that was lost.
ActivityEnds == \A p \in 1 .. MaxPanels : Busy(p) ~> (~Busy(p) \/ Unanswered(p))

=============================================================================
