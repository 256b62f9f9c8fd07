------------------------------ MODULE McpGateway -----------------------------
(***************************************************************************)
(* Hosted MCP: the HTTP service agents call                                *)
(* (plugins/tan-studio/src/http.ts), the tools it runs (mcp.ts), their     *)
(* calls of the notebook API (api.ts, results.ts), and what the Rust       *)
(* service does with them (agent_auth.rs).                                 *)
(*                                                                         *)
(* The gateway is one JavaScript thread: a step of it is one event with    *)
(* the continuations it wakes.  A call it gives up is not taken back: the  *)
(* notebook may still perform it.                                          *)
(***************************************************************************)
EXTENDS Naturals, Sequences, FiniteSets

CONSTANTS
  Request,      \* requests that agents make
  Agent,
  By,           \* the agent of each request
  Asks,         \* the tool each request calls: the methods of its API calls
  Writers,      \* agents whose credential may write
  MaxActive,    \* requests in flight
  MaxPerAgent,  \* requests of one agent in flight
  PeerBurst,    \* tokens of a full bucket of a peer; all requests come from one
  AgentBurst,   \* tokens of a full bucket of an agent
  MaxFaults,    \* bound: failures of a connection, restarts of the service, revocations
  MaxWaits      \* bound: seconds that bring tokens

ASSUME McpGatewayAssumption ==
  /\ By \in [Request -> Agent] /\ Writers \subseteq Agent
  /\ {MaxActive, MaxPerAgent, PeerBurst, AgentBurst} \subseteq Nat \ {0}
  /\ {MaxFaults, MaxWaits} \subseteq Nat

VARIABLES
  req,    \* each request, in the gateway and in the notebook
  gate,   \* the gateway: requests in flight, and admission
  rust,   \* the Rust service: signing key, revoked agents, one brew, writes applied
  used      \* bounds

vars == <<req, gate, rust, used>>

-----------------------------------------------------------------------------
(* The tools: what each asks of the API, in order.  Reads come first, and  *)
(* a tool writes once.                                                     *)

GetContext      == << "GET" >>
GetRoast        == << "GET", "GET" >>     \* the roast, then its series
CreateCoffee    == << "POST" >>
UpdateCoffee    == << "PATCH" >>
UpdateRoast     == << "PATCH" >>
RecordBrew      == << "POST" >>
UpdateBrew      == << "GET", "PATCH" >>   \* the recipe, then the merged recipe
AddNote         == << "POST" >>
SetProfileImage == << "PUT" >>
CreateLabel     == << "POST" >>

NoTool == << >>
Tools == {NoTool, GetContext, GetRoast, CreateCoffee, UpdateCoffee, UpdateRoast,
          RecordBrew, UpdateBrew, AddNote, SetProfileImage, CreateLabel}

ASSUME AsksAssumption == Asks \in [Request -> Tools]

IsWrite(method) == method # "GET"
Writes(r) == \E i \in DOMAIN Asks[r] : IsWrite(Asks[r][i])

Calling(r)  == Asks[r][req[r].api]
LastCall(r) == req[r].api = Len(Asks[r])

-----------------------------------------------------------------------------

Stages == {"new", "body", "delegating", "calling", "reading", "output", "closing", "done"}

\* What a caller is told: that the request failed (refused, over capacity, a conflict
\* of revisions, an error), that it is done, or that its outcome is not known.
Outcomes == {"none", "failed", "ok", "unknown"}

\* revision: of the brew, as the agent has read it; core: the API call in the notebook;
\* key: of the delegation; cut: the body of the answer to a write was lost.
NewRequest ==
  [stage |-> "new", api |-> 1, revision |-> 0, delegated |-> "none", key |-> 0,
   core |-> "none", status |-> "none", aborted |-> FALSE, admitted |-> FALSE,
   outcome |-> "none", cut |-> FALSE]

Init ==
  /\ req  = [r \in Request |-> NewRequest]
  /\ gate = [active |-> 0, perAgent |-> [a \in Agent |-> 0], peer |-> PeerBurst,
             tokens |-> [a \in Agent |-> AgentBurst]]
  /\ rust = [key |-> 1, revoked |-> {}, revision |-> 1, applied |-> {}]
  /\ used = [faults |-> 0, waits |-> 0]

Becomes(r, rec) == req' = [req EXCEPT ![r] = rec]
At(r, stage) == req[r].stage = stage
Fault == used.faults < MaxFaults /\ used' = [used EXCEPT !.faults = @ + 1]

\* Faulty: an empty bucket is taken for one with a token.
AdmitsEmpty(tokens) == tokens >= 0

\* Admission: a token is spent if there is one.  Buckets fill with time.
Admits(tokens) == tokens >= 1
Spent(tokens)  == IF Admits(tokens) THEN tokens - 1 ELSE tokens

Filled(tokens, burst) == IF tokens < burst THEN tokens + 1 ELSE tokens

\* Two seconds bring a peer a token, and an agent no fewer.
Wait ==
  /\ used.waits < MaxWaits /\ used' = [used EXCEPT !.waits = @ + 1]
  /\ gate' = [gate EXCEPT !.peer = Filled(@, PeerBurst),
                          !.tokens = [a \in Agent |-> Filled(@[a], AgentBurst)]]
  /\ UNCHANGED <<req, rust>>

-----------------------------------------------------------------------------
(* The request handler.                                                    *)

Refuse(r) == Becomes(r, [req[r] EXCEPT !.stage = "done", !.outcome = "failed"])

\* Up to the first await: capacity, then headers; the timer starts.
Arrive(r) ==
  LET entered == [gate EXCEPT !.peer = Spent(@)] IN
  /\ At(r, "new")
  /\ UNCHANGED <<rust, used>>
  /\ \/ Refuse(r) /\ gate' = gate
     \/ /\ ~Admits(gate.peer) \/ gate.active >= MaxActive
        /\ Refuse(r) /\ gate' = entered
     \/ /\ Admits(gate.peer) /\ gate.active < MaxActive
        /\ \/ Refuse(r) /\ gate' = entered
           \/ /\ Becomes(r, [req[r] EXCEPT !.stage = "body",
                           !.revision = IF Writes(r) THEN rust.revision ELSE 0])
              /\ gate' = [entered EXCEPT !.active = @ + 1]

Closing(r, outcome) ==
  [req[r] EXCEPT !.stage = "closing", !.outcome = outcome, !.delegated = "none"]

\* finally: the counters are given back, the abort gives up what is still in flight.
Release(r) ==
  [gate EXCEPT !.active = @ - 1,
               !.perAgent[By[r]] = IF req[r].admitted THEN @ - 1 ELSE @]

\* The body has been read.  Until it is parsed there is no handler to close.
Body(r) ==
  /\ At(r, "body") /\ UNCHANGED <<rust, used>>
  /\ \/ Refuse(r) /\ gate' = Release(r)
     \/ Becomes(r, Closing(r, "failed")) /\ UNCHANGED gate
     \/ Becomes(r, [req[r] EXCEPT !.stage = "delegating"]) /\ UNCHANGED gate

\* The tool begins with its first call; a request that calls no tool has its result.
Starts(r) ==
  LET begun == [req[r] EXCEPT !.admitted = TRUE, !.delegated = "none"]
  IN  IF Asks[r] = NoTool THEN [begun EXCEPT !.stage = "output", !.outcome = "ok"]
      ELSE [begun EXCEPT !.stage = "calling", !.core = "queued"]

\* Faulty: the agent is charged before its capacity is known.
DelegatedCharged(r) ==
  LET a == By[r]
      asked == [gate EXCEPT !.tokens[a] = Spent(@)]
  IN
  /\ At(r, "delegating") /\ req[r].delegated # "none"
  /\ UNCHANGED <<rust, used>>
  /\ IF req[r].delegated = "denied"
       THEN Becomes(r, Closing(r, "failed")) /\ UNCHANGED gate
       ELSE /\ gate' = [asked EXCEPT !.perAgent[a] = @ + 1]
            /\ IF Admits(gate.tokens[a]) /\ gate.perAgent[a] < MaxPerAgent
                 THEN Becomes(r, Starts(r))
                 ELSE Becomes(r, Closing(r, "failed"))

\* The delegation has been answered: scope, then capacity of the agent.
Delegated(r) ==
  LET a == By[r]
      asked == [gate EXCEPT !.tokens[a] = Spent(@)]
  IN
  /\ At(r, "delegating") /\ req[r].delegated # "none"
  /\ UNCHANGED <<rust, used>>
  /\ \/ /\ req[r].delegated = "denied"
        /\ Becomes(r, Closing(r, "failed")) /\ UNCHANGED gate
     \/ /\ req[r].delegated = "granted"
        /\ ~Admits(gate.tokens[a]) \/ gate.perAgent[a] >= MaxPerAgent
        /\ Becomes(r, Closing(r, "failed")) /\ gate' = asked
     \/ /\ req[r].delegated = "granted"
        /\ Admits(gate.tokens[a]) /\ gate.perAgent[a] < MaxPerAgent
        /\ Becomes(r, Starts(r))
        /\ gate' = [asked EXCEPT !.perAgent[a] = @ + 1]

\* The authority cannot be reached: mcp_unavailable.
DelegationFails(r) ==
  /\ At(r, "delegating") /\ req[r].delegated = "none" /\ Fault
  /\ Becomes(r, Closing(r, "failed"))
  /\ UNCHANGED <<gate, rust>>

-----------------------------------------------------------------------------
(* The calls of the API.                                                   *)

\* An answer that has arrived, or that nobody waits for any more, is forgotten.
Forgotten(core) == IF core = "answered" THEN "none" ELSE core
ToolEnds(r, outcome) ==
  [req[r] EXCEPT !.stage = "output", !.outcome = outcome,
                 !.core = Forgotten(@), !.status = "none"]

\* An answer that is not 2xx is unwrapped into an error; another has a body to read.
HeadersArrive(r) ==
  /\ At(r, "calling") /\ req[r].core = "answered"
  /\ \/ req[r].status = "ok"
        /\ Becomes(r, [req[r] EXCEPT !.stage = "reading", !.core = "none", !.status = "none"])
     \/ req[r].status # "ok" /\ Becomes(r, ToolEnds(r, req[r].status))
  /\ UNCHANGED <<gate, rust, used>>

\* The tool goes on with its next call, or returns its result.
BodyArrives(r) ==
  /\ At(r, "reading")
  /\ \/ LastCall(r) /\ Becomes(r, ToolEnds(r, "ok"))
     \/ ~LastCall(r) /\ Becomes(r, [req[r] EXCEPT !.stage = "calling", !.api = @ + 1,
                                                  !.core = "queued"])
  /\ UNCHANGED <<gate, rust, used>>

\* Faulty: a lost call is an error like any other.
LostFails(r) == "failed"

\* fetchApi: a write without an answer has an unknown outcome.
Lost(r) == IF IsWrite(Calling(r)) THEN "unknown" ELSE "failed"

\* The connection is lost, or 15 seconds are over, before the headers: fetch rejects.
CallLost(r) ==
  /\ At(r, "calling")
  /\ IF req[r].core = "none" THEN UNCHANGED used ELSE Fault
  /\ Becomes(r, ToolEnds(r, Lost(r)))
  /\ UNCHANGED <<gate, rust>>

\* Or after them: reading the body rejects, outside of fetchApi.
BodyLost(r) ==
  /\ At(r, "reading") /\ Fault
  /\ Becomes(r, [ToolEnds(r, "failed") EXCEPT !.cut = IsWrite(Calling(r))])
  /\ UNCHANGED <<gate, rust>>

-----------------------------------------------------------------------------
(* The end of a request.                                                   *)

\* Faulty: the request for a delegation is not given the signal.
AbortAfterDelegation(r) ==
  /\ ~req[r].aborted
  /\ \/ At(r, "body") /\ Refuse(r) /\ gate' = Release(r)
     \/ At(r, "delegating") /\ Becomes(r, [req[r] EXCEPT !.aborted = TRUE]) /\ UNCHANGED gate
     \/ /\ req[r].stage \in {"calling", "reading", "output"}
        /\ Becomes(r, [ToolEnds(r, "unknown") EXCEPT !.aborted = TRUE]) /\ UNCHANGED gate
  /\ UNCHANGED <<rust, used>>

\* Twenty seconds are over, or the caller has gone: whatever is awaited is given up.
Abort(r) ==
  /\ ~req[r].aborted
  /\ \/ At(r, "body") /\ Refuse(r) /\ gate' = Release(r)
     \/ /\ At(r, "delegating")
        /\ Becomes(r, [Closing(r, "unknown") EXCEPT !.aborted = TRUE]) /\ UNCHANGED gate
     \/ /\ req[r].stage \in {"calling", "reading", "output"}
        /\ Becomes(r, [ToolEnds(r, "unknown") EXCEPT !.aborted = TRUE]) /\ UNCHANGED gate
  /\ UNCHANGED <<rust, used>>

\* The response of the MCP handler is read, unless it is too large or the signal is set.
Output(r) ==
  /\ At(r, "output")
  /\ \/ req[r].aborted /\ Becomes(r, Closing(r, "unknown")) /\ UNCHANGED used
     \/ ~req[r].aborted /\ Becomes(r, Closing(r, req[r].outcome)) /\ UNCHANGED used
     \/ /\ ~req[r].aborted /\ Fault
        /\ Becomes(r, Closing(r, IF Writes(r) THEN "unknown" ELSE "failed"))
  /\ UNCHANGED <<gate, rust>>

Close(r) ==
  /\ At(r, "closing")
  /\ Becomes(r, [req[r] EXCEPT !.stage = "done", !.aborted = FALSE, !.admitted = FALSE])
  /\ gate' = Release(r)
  /\ UNCHANGED <<rust, used>>

-----------------------------------------------------------------------------
(* The Rust service.                                                       *)

\* delegate: a valid credential, and a scope that covers the operation.
Delegate(r) ==
  LET granted == By[r] \notin rust.revoked /\ (Writes(r) => By[r] \in Writers) IN
  /\ At(r, "delegating") /\ req[r].delegated = "none"
  /\ Becomes(r, [req[r] EXCEPT !.delegated = IF granted THEN "granted" ELSE "denied",
                               !.key = rust.key])
  /\ UNCHANGED <<gate, rust, used>>

\* What the call answers reaches a gateway that still waits for it.
Answers(r, status) ==
  IF At(r, "calling") THEN [req[r] EXCEPT !.core = "answered", !.status = status]
  ELSE [req[r] EXCEPT !.core = "none"]

\* authorize, then the handler of the route; a revocation in between counts as one
\* after it.  A PATCH carries the revision the agent has read.
Perform(r) ==
  LET method == Calling(r)
      valid  == req[r].key = rust.key /\ By[r] \notin rust.revoked
      stale  == method = "PATCH" /\ req[r].revision # rust.revision
  IN
  /\ req[r].core = "queued"
  /\ \/ ~valid /\ Becomes(r, Answers(r, "failed")) /\ UNCHANGED rust
     \/ valid /\ stale /\ Becomes(r, Answers(r, "failed")) /\ UNCHANGED rust
     \/ /\ valid /\ ~stale
        /\ Becomes(r, Answers(r, "ok"))
        /\ rust' = IF ~IsWrite(method) THEN rust
                   ELSE [rust EXCEPT !.applied = @ \cup {r},
                                     !.revision = IF method = "PATCH" THEN @ + 1 ELSE @]
  /\ UNCHANGED <<gate, used>>

\* revoke, by the operator.
Revoke ==
  \E a \in Agent \ rust.revoked :
    /\ Fault
    /\ rust' = [rust EXCEPT !.revoked = @ \cup {a}]
    /\ UNCHANGED <<req, gate>>

\* A restart makes a new key; calls in the service are lost.
RestartService ==
  /\ Fault
  /\ rust' = [rust EXCEPT !.key = @ + 1]
  /\ req' = [r \in Request |->
               [req[r] EXCEPT !.core = IF @ = "queued" THEN "none" ELSE @]]
  /\ UNCHANGED gate

-----------------------------------------------------------------------------

Handler(r) ==
  \/ Arrive(r) \/ Body(r) \/ Delegated(r) \/ DelegationFails(r) \/ HeadersArrive(r)
  \/ BodyArrives(r) \/ CallLost(r) \/ BodyLost(r) \/ Abort(r) \/ Output(r) \/ Close(r)

Service(r) == Delegate(r) \/ Perform(r)

Next ==
  \/ \E r \in Request : Handler(r) \/ Service(r)
  \/ Wait \/ Revoke \/ RestartService

Spec == Init /\ [][Next]_vars

\* The timer of a request expires, and what its handler awaits of itself ends.  Nothing
\* is assumed of the notebook, the authority or the caller.
Fairness == \A r \in Request : WF_vars(Abort(r) \/ Output(r) \/ Close(r))

FairSpec == Spec /\ Fairness

-----------------------------------------------------------------------------
(* Properties.                                                             *)

InFlight == {r \in Request : req[r].stage \notin {"new", "done"}}
Admitted(a) == {r \in InFlight : req[r].admitted /\ By[r] = a}

\* Every field keeps its range; in particular no counter or bucket falls below zero
\* (http.ts counts with plain numbers).
TypeOK ==
  /\ req \in [Request -> [stage : Stages, api : 1..2, revision : Nat,
                          delegated : {"none", "granted", "denied"}, key : Nat,
                          core : {"none", "queued", "answered"},
                          status : {"none", "ok", "failed"},
                          aborted : BOOLEAN, admitted : BOOLEAN,
                          outcome : Outcomes, cut : BOOLEAN]]
  /\ gate \in [active : 0..MaxActive, perAgent : [Agent -> 0..MaxPerAgent],
               peer : 0..PeerBurst, tokens : [Agent -> 0..AgentBurst]]
  /\ rust \in [key : Nat, revoked : SUBSET Agent, revision : Nat, applied : SUBSET Request]

\* The counters of http.ts are the requests in flight, on every way out of the handler:
\* a slot that leaked would lower the capacity for good, one given back twice raise it.
CountersExact ==
  /\ gate.active = Cardinality(InFlight)
  /\ \A a \in Agent : gate.perAgent[a] = Cardinality(Admitted(a))

\* The notebook may still perform the write.
Outstanding(r) == req[r].core = "queued" /\ IsWrite(Calling(r))

\* A caller that is told its write failed may repeat it.  That is only said of a write
\* the notebook has not performed, then or later, unless the answer broke off after its
\* headers; and success is only said of one it has.
NotMisreported ==
  \A r \in Request : At(r, "done") /\ Writes(r) =>
    /\ req[r].outcome = "failed" =>
         req[r].cut \/ (r \notin rust.applied /\ ~Outstanding(r))
    /\ req[r].outcome = "ok" => r \in rust.applied

\* Every request that is taken in is answered and gives back its place, whatever the
\* notebook and the authority do: the timer reaches every await.
Answered == \A r \in Request : At(r, "body") ~> At(r, "done")

=============================================================================
