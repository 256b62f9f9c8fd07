-------------------------- MODULE McpGateway_proofs --------------------------
(***************************************************************************)
(* The gateway counts exactly, and tells callers the truth about their     *)
(* writes: for any set of requests and agents, any capacity and bursts,    *)
(* and any number of faults.                                               *)
(***************************************************************************)
EXTENDS McpGateway, FiniteSetTheorems, TLAPS

-----------------------------------------------------------------------------
(* The tools.                                                              *)

\* A tool makes one call or two, and only the last may write.
LEMMA ToolFacts ==
  ASSUME NEW r \in Request
  PROVE  /\ Len(Asks[r]) \in 0 .. 2 /\ DOMAIN Asks[r] = 1 .. Len(Asks[r])
         /\ Asks[r] # NoTool => Len(Asks[r]) # 0
         /\ Asks[r] = NoTool => Len(Asks[r]) = 0
         /\ \A i \in DOMAIN Asks[r] : IsWrite(Asks[r][i]) => i = Len(Asks[r])
<1>1. Asks[r] \in {<< >>, << "GET" >>, << "GET", "GET" >>, << "POST" >>, << "PATCH" >>,
                  << "GET", "PATCH" >>, << "PUT" >>}
  BY AsksAssumption DEF Tools, NoTool, GetContext, GetRoast, CreateCoffee, UpdateCoffee,
     UpdateRoast, RecordBrew, UpdateBrew, AddNote, SetProfileImage, CreateLabel
<1>2. CASE Asks[r] = << >>
  BY <1>2 DEF NoTool
<1>3. CASE \E m : Asks[r] = << m >>
  <2>1. PICK m : Asks[r] = << m >>
    BY <1>3
  <2> QED
    BY <2>1 DEF NoTool
<1>4. CASE \E m : Asks[r] = << "GET", m >>
  <2>1. PICK m : Asks[r] = << "GET", m >>
    BY <1>4
  <2>2. Len(Asks[r]) = 2 /\ DOMAIN Asks[r] = 1 .. 2 /\ ~IsWrite(Asks[r][1]) /\ Asks[r] # NoTool
    BY <2>1 DEF NoTool, IsWrite
  <2> QED
    BY <2>2
<1> QED
  BY <1>1, <1>2, <1>3, <1>4

\* A tool that writes does so in its last call.
LEMMA LastWrites ==
  ASSUME NEW r \in Request, NEW i \in DOMAIN Asks[r]
  PROVE  /\ Writes(r) /\ i = Len(Asks[r]) => IsWrite(Asks[r][i])
         /\ IsWrite(Asks[r][i]) => Writes(r) /\ i = Len(Asks[r])
         /\ Asks[r] # NoTool /\ i \in 1 .. 2
         /\ i # Len(Asks[r]) => i + 1 \in DOMAIN Asks[r] /\ ~IsWrite(Asks[r][i])
  BY ToolFacts DEF Writes

-----------------------------------------------------------------------------
(* One request: what holds of it at each stage, when done says whether its *)
(* write has been performed.                                               *)

Requests ==
  [stage : Stages, api : 1..2, revision : Nat, delegated : {"none", "granted", "denied"},
   key : Nat, core : {"none", "queued", "answered"}, status : {"none", "ok", "failed"},
   aborted : BOOLEAN, admitted : BOOLEAN, outcome : Outcomes, cut : BOOLEAN]

Early == {"new", "body", "delegating"}
Ended == {"output", "closing", "done"}
Live(q) == q.stage \notin {"new", "done"}

WritesAt(r, q) == IsWrite(Asks[r][q.api])

\* Nothing has been asked of the notebook yet.
Begins(q, done) == q.stage \in Early => q.api = 1 /\ q.core = "none" /\ ~q.admitted /\ ~done

\* A call there is, is one of the tool's.
Called(r, q) ==
  q.stage \in {"calling", "reading"} \/ q.core = "queued" => q.api \in DOMAIN Asks[r]

\* A call that has not been performed has done nothing; its answer says what it did.
Waits(r, q, done) ==
  /\ q.core = "queued" => ~done
  /\ q.stage = "calling" =>
       /\ done => WritesAt(r, q) /\ q.core = "answered"
       /\ q.core = "answered" => q.status # "none" /\ (q.status = "failed" => ~done)
       /\ q.core = "answered" /\ q.status = "ok" /\ WritesAt(r, q) => done

\* Headers that say ok have followed the deed.
Reads(r, q, done) ==
  q.stage = "reading" => q.core = "none" /\ (done <=> WritesAt(r, q))

\* What the caller is, or will be, told.
Tells(r, q, done) ==
  q.stage \in Ended /\ Writes(r) =>
    /\ q.outcome = "failed" => q.cut \/ (~done /\ ~(q.core = "queued" /\ WritesAt(r, q)))
    /\ q.outcome = "ok" => done

Sound(r, q, done) ==
  /\ q \in Requests /\ Begins(q, done) /\ Called(r, q)
  /\ Waits(r, q, done) /\ Reads(r, q, done) /\ Tells(r, q, done)

AllSound == \A r \in Request : Sound(r, req[r], r \in rust.applied)

GateOK ==
  gate \in [active : 0..MaxActive, perAgent : [Agent -> 0..MaxPerAgent],
            peer : 0..PeerBurst, tokens : [Agent -> 0..AgentBurst]]
RustOK == rust \in [key : Nat, revoked : SUBSET Agent, revision : Nat, applied : SUBSET Request]

\* The requests in flight are finitely many, whatever Request is.
CountInv == IsFiniteSet(InFlight) /\ CountersExact

GatewayInv ==
  /\ req = [r \in Request |-> req[r]] /\ AllSound
  /\ GateOK /\ RustOK /\ CountInv

-----------------------------------------------------------------------------
(* The steps of one request.                                               *)

\* A step that replaces one request leaves the others.
LEMMA Became ==
  ASSUME req = [s \in Request |-> req[s]], NEW r \in Request, NEW q, Becomes(r, q)
  PROVE  /\ req' = [s \in Request |-> req'[s]] /\ req'[r] = q
         /\ \A s \in Request \ {r} : req'[s] = req[s]
  BY DEF Becomes

\* The request becomes q, and q is sound; of the others nothing changes.
Moves(r, q) ==
  /\ Becomes(r, q) /\ Sound(r, q, r \in rust'.applied)
  /\ \A s \in Request \ {r} : s \in rust'.applied <=> s \in rust.applied

\* A step of one request keeps all requests sound.
LEMMA MovesKeep ==
  ASSUME GatewayInv, NEW r \in Request, NEW q, Moves(r, q)
  PROVE  req' = [s \in Request |-> req'[s]] /\ AllSound'
  BY Became DEF GatewayInv, AllSound, Moves

\* How a step counts: not at all, in, as admitted, or out.
Stays(r, q) ==
  /\ gate'.active = gate.active /\ gate'.perAgent = gate.perAgent
  /\ Live(q) = Live(req[r]) /\ q.admitted = req[r].admitted
Enters(r, q) ==
  /\ gate'.active = gate.active + 1 /\ gate'.perAgent = gate.perAgent
  /\ ~Live(req[r]) /\ Live(q) /\ ~q.admitted
IsAdmitted(r, q) ==
  /\ gate'.active = gate.active
  /\ gate'.perAgent = [gate.perAgent EXCEPT ![By[r]] = @ + 1]
  /\ Live(req[r]) /\ Live(q) /\ ~req[r].admitted /\ q.admitted
Leaves(r, q) ==
  /\ gate'.active = gate.active - 1
  /\ gate'.perAgent = [gate.perAgent EXCEPT ![By[r]] = IF req[r].admitted THEN @ - 1 ELSE @]
  /\ Live(req[r]) /\ ~Live(q)

\* The admitted requests of an agent are finitely many.
LEMMA Finite ==
  ASSUME CountInv, NEW a \in Agent
  PROVE  IsFiniteSet(Admitted(a))
  BY FS_Subset DEF CountInv, Admitted

\* The counters stay exact when a step begins and ends no request.
LEMMA StaysCounts ==
  ASSUME GatewayInv, NEW r \in Request, NEW q, Becomes(r, q), Stays(r, q)
  PROVE  CountInv'
<1>1. InFlight' = InFlight
  BY Became DEF GatewayInv, InFlight, Stays, Live
<1>2. \A s \in InFlight' : req'[s].admitted = req[s].admitted
  BY <1>1, Became DEF GatewayInv, InFlight, Stays, Live
<1>3. \A a \in Agent : Admitted(a)' = Admitted(a)
  BY <1>1, <1>2 DEF Admitted
<1> QED
  BY <1>1, <1>3 DEF GatewayInv, CountInv, CountersExact, Stays

\* They stay exact when a request arrives and is counted in.
LEMMA EntersCounts ==
  ASSUME GatewayInv, NEW r \in Request, NEW q, Becomes(r, q), Enters(r, q)
  PROVE  CountInv'
<1>1. InFlight' = InFlight \cup {r} /\ r \notin InFlight
  BY Became DEF GatewayInv, InFlight, Enters, Live
<1>2. /\ \A s \in InFlight : req'[s].admitted = req[s].admitted
      /\ ~req'[r].admitted
  BY <1>1, Became DEF GatewayInv, InFlight, Enters
<1>3. \A a \in Agent : Admitted(a)' = Admitted(a)
  BY <1>1, <1>2 DEF Admitted
<1>4. IsFiniteSet(InFlight') /\ Cardinality(InFlight') = Cardinality(InFlight) + 1
  BY <1>1, FS_AddElement DEF GatewayInv, CountInv
<1> QED
  BY <1>3, <1>4 DEF GatewayInv, CountInv, CountersExact, Enters

\* They stay exact when a request is admitted for its agent.
LEMMA AdmittedCounts ==
  ASSUME GatewayInv, NEW r \in Request, NEW q, Becomes(r, q), IsAdmitted(r, q)
  PROVE  CountInv'
<1> DEFINE b == By[r]
<1>0. b \in Agent
  BY McpGatewayAssumption
<1>1. InFlight' = InFlight /\ r \in InFlight
  BY Became DEF GatewayInv, InFlight, IsAdmitted, Live
<1>m. /\ \A s \in InFlight \ {r} : req'[s].admitted = req[s].admitted
      /\ req'[r].admitted /\ ~req[r].admitted
  BY Became DEF GatewayInv, InFlight, IsAdmitted
<1>2. \A a \in Agent \ {b} : Admitted(a)' = Admitted(a)
  BY <1>1, <1>m DEF Admitted
<1>3. Admitted(b)' = Admitted(b) \cup {r} /\ r \notin Admitted(b)
  BY <1>1, <1>m DEF Admitted
<1>4. Cardinality(Admitted(b)') = Cardinality(Admitted(b)) + 1
  BY <1>0, <1>3, Finite, FS_AddElement DEF GatewayInv
<1>5. gate.perAgent \in [Agent -> 0..MaxPerAgent]
  BY DEF GatewayInv, GateOK
<1>6. \A a \in Agent : gate'.perAgent[a] = Cardinality(Admitted(a)')
  BY <1>0, <1>2, <1>4, <1>5 DEF GatewayInv, CountInv, CountersExact, IsAdmitted
<1> QED
  BY <1>1, <1>6 DEF GatewayInv, CountInv, CountersExact, IsAdmitted

\* They stay exact when a request leaves, however far it had come.
LEMMA LeavesCounts ==
  ASSUME GatewayInv, NEW r \in Request, NEW q, Becomes(r, q), Leaves(r, q)
  PROVE  CountInv'
<1> DEFINE b == By[r]
<1>0. b \in Agent
  BY McpGatewayAssumption
<1>1. InFlight' = InFlight \ {r} /\ r \in InFlight
  BY Became DEF GatewayInv, InFlight, Leaves, Live
<1>2. IsFiniteSet(InFlight') /\ Cardinality(InFlight') = Cardinality(InFlight) - 1
  BY <1>1, FS_RemoveElement DEF GatewayInv, CountInv
<1>m. \A s \in InFlight' : req'[s].admitted = req[s].admitted
  BY <1>1, Became DEF GatewayInv, InFlight
<1>3. \A a \in Agent : Admitted(a)' = Admitted(a) \ {r}
  BY <1>1, <1>m DEF Admitted
<1>4. \A a \in Agent : r \in Admitted(a) <=> a = b /\ req[r].admitted
  BY <1>0, <1>1 DEF Admitted
<1>5. \A a \in Agent : Cardinality(Admitted(a)') =
        IF a = b /\ req[r].admitted THEN Cardinality(Admitted(a)) - 1 ELSE Cardinality(Admitted(a))
  BY <1>3, <1>4, Finite, FS_RemoveElement DEF GatewayInv
<1>6. gate.perAgent \in [Agent -> 0..MaxPerAgent]
  BY DEF GatewayInv, GateOK
<1>7. \A a \in Agent : gate'.perAgent[a] = Cardinality(Admitted(a)')
  BY <1>0, <1>5, <1>6 DEF GatewayInv, CountInv, CountersExact, Leaves
<1> QED
  BY <1>2, <1>7 DEF GatewayInv, CountInv, CountersExact, Leaves

\* A step of a request, and how it counts.
Step(r) ==
  \E q : /\ Moves(r, q)
         /\ Stays(r, q) \/ Enters(r, q) \/ IsAdmitted(r, q) \/ Leaves(r, q)

\* A step of one request preserves the invariant.
LEMMA StepKeeps ==
  ASSUME GatewayInv, NEW r \in Request, Step(r), GateOK', RustOK'
  PROVE  GatewayInv'
<1>1. PICK q : /\ Moves(r, q)
               /\ Stays(r, q) \/ Enters(r, q) \/ IsAdmitted(r, q) \/ Leaves(r, q)
  BY DEF Step
<1>2. CountInv'
  BY <1>1, StaysCounts, EntersCounts, AdmittedCounts, LeavesCounts DEF Moves
<1> QED
  BY <1>1, <1>2, MovesKeep DEF GatewayInv

\* A request is typed and sound.
LEMMA OneRequest ==
  ASSUME GatewayInv, NEW r \in Request
  PROVE  req[r] \in Requests /\ Sound(r, req[r], r \in rust.applied)
  BY DEF GatewayInv, AllSound, Sound

\* A request that gives back its place has one.
LEMMA ReleaseOK ==
  ASSUME GatewayInv, NEW r \in Request, Live(req[r])
  PROVE  /\ Release(r).active = gate.active - 1
         /\ Release(r).perAgent = [gate.perAgent EXCEPT ![By[r]] = IF req[r].admitted THEN @ - 1 ELSE @]
         /\ gate' = Release(r) => GateOK'
<1> DEFINE b == By[r]
           spent == [gate.perAgent EXCEPT ![b] = IF req[r].admitted THEN @ - 1 ELSE @]
<1>0. b \in Agent /\ MaxActive \in Nat /\ MaxPerAgent \in Nat
  BY McpGatewayAssumption
<1>1. r \in InFlight
  BY DEF InFlight, Live
<1>2. gate.active \in 1 .. MaxActive
  <2>1. Cardinality(InFlight) # 0
    BY <1>1, FS_EmptySet DEF GatewayInv, CountInv
  <2> QED
    BY <2>1 DEF GatewayInv, GateOK, CountInv, CountersExact
<1>3. req[r].admitted => gate.perAgent[b] \in 1 .. MaxPerAgent
  <2>1. SUFFICES ASSUME req[r].admitted PROVE gate.perAgent[b] \in 1 .. MaxPerAgent
    OBVIOUS
  <2>2. r \in Admitted(b)
    BY <1>1, <2>1 DEF Admitted
  <2>3. Cardinality(Admitted(b)) # 0
    BY <1>0, <2>2, Finite, FS_EmptySet DEF GatewayInv
  <2> QED
    BY <1>0, <2>3 DEF GatewayInv, GateOK, CountInv, CountersExact
<1>4. gate.active - 1 \in 0 .. MaxActive
  BY <1>0, <1>2
<1>5. spent \in [Agent -> 0 .. MaxPerAgent]
  BY <1>0, <1>3 DEF GatewayInv, GateOK
<1>6. Release(r) = [gate EXCEPT !.active = gate.active - 1, !.perAgent = spent]
  BY DEF Release, GatewayInv, GateOK
<1> HIDE DEF spent
<1>7. Release(r).active = gate.active - 1 /\ Release(r).perAgent = spent
  BY <1>6 DEF GatewayInv, GateOK
<1>8. gate' = Release(r) => GateOK'
  BY <1>4, <1>5, <1>6 DEF GatewayInv, GateOK
<1> QED
  BY <1>7, <1>8 DEF spent

\* A token that is spent was there.
LEMMA Spending ==
  ASSUME NEW burst \in Nat, NEW tokens \in 0 .. burst
  PROVE  Spent(tokens) \in 0 .. burst
  BY DEF Spent, Admits

-----------------------------------------------------------------------------
(* The handlers of the gateway.                                            *)

\* A refusal before the call is made tells the truth: nothing has been performed.
LEMMA RefuseSound ==
  ASSUME GatewayInv, NEW r \in Request, req[r].stage \in Early, Refuse(r), UNCHANGED rust
  PROVE  \E q : Moves(r, q) /\ ~Live(q) /\ q.admitted = req[r].admitted
<1> DEFINE q == [req[r] EXCEPT !.stage = "done", !.outcome = "failed"]
<1>1. q \in Requests
  BY OneRequest DEF Requests, Stages, Outcomes
<1>2. q.stage = "done" /\ q.core = "none" /\ r \notin rust.applied
      /\ q.admitted = req[r].admitted /\ q.outcome = "failed"
  BY OneRequest DEF Requests, Sound, Begins
<1>3. Becomes(r, q)
  BY DEF Refuse
<1> HIDE DEF q
<1>4. Sound(r, q, r \in rust'.applied)
  BY <1>1, <1>2 DEF Sound, Begins, Called, Waits, Reads, Tells, Early
<1> QED
  BY <1>2, <1>3, <1>4 DEF Moves, Live

\* Up to its first await a request is refused for capacity or its headers, or counted in.
LEMMA ArriveStep ==
  ASSUME GatewayInv, NEW r \in Request, Arrive(r)
  PROVE  Step(r) /\ GateOK' /\ RustOK'
<1> DEFINE entered == [gate EXCEPT !.peer = Spent(@)]
<1>1. RustOK' /\ UNCHANGED rust /\ req[r].stage = "new"
  BY DEF Arrive, At, GatewayInv, RustOK
<1>2. gate \in [active : 0..MaxActive, perAgent : [Agent -> 0..MaxPerAgent],
                peer : 0..PeerBurst, tokens : [Agent -> 0..AgentBurst]]
  BY DEF GatewayInv, GateOK
<1>3. Spent(gate.peer) \in 0 .. PeerBurst
  BY <1>2, Spending, McpGatewayAssumption
<1>4. /\ entered \in [active : 0..MaxActive, perAgent : [Agent -> 0..MaxPerAgent],
                      peer : 0..PeerBurst, tokens : [Agent -> 0..AgentBurst]]
      /\ entered.active = gate.active /\ entered.perAgent = gate.perAgent
  BY <1>2, <1>3
<1>5. CASE Refuse(r) /\ gate' \in {gate, entered}
  <2>1. PICK q : Moves(r, q) /\ ~Live(q) /\ q.admitted = req[r].admitted
    BY <1>1, <1>5, RefuseSound DEF Early
  <2> QED
    BY <1>1, <1>2, <1>4, <1>5, <2>1 DEF Step, Stays, Live, GateOK
<1>6. CASE /\ gate.active < MaxActive
           /\ Becomes(r, [req[r] EXCEPT !.stage = "body",
                           !.revision = IF Writes(r) THEN rust.revision ELSE 0])
           /\ gate' = [entered EXCEPT !.active = @ + 1]
  <2> DEFINE n == IF Writes(r) THEN rust.revision ELSE 0
             q == [req[r] EXCEPT !.stage = "body", !.revision = n]
  <2>1. n \in Nat
    BY DEF GatewayInv, RustOK
  <2> HIDE DEF n
  <2>2. q \in Requests /\ q.stage = "body" /\ q.api = 1 /\ q.core = "none" /\ ~q.admitted
        /\ r \notin rust.applied
    BY <1>1, <2>1, OneRequest DEF Requests, Stages, Sound, Begins, Early
  <2>3. Becomes(r, q)
    BY <1>6 DEF n
  <2> HIDE DEF q
  <2>4. Moves(r, q)
    BY <1>1, <2>2, <2>3 DEF Moves, Sound, Begins, Called, Waits, Reads, Tells, Ended
  <2>5. gate'.active = gate.active + 1 /\ gate'.perAgent = gate.perAgent /\ GateOK'
    <3>1. gate.active + 1 \in 0 .. MaxActive
      BY <1>2, <1>6, McpGatewayAssumption
    <3>2. gate' = [entered EXCEPT !.active = gate.active + 1]
      BY <1>4, <1>6
    <3> HIDE DEF entered
    <3> QED
      BY <1>4, <3>1, <3>2 DEF GateOK
  <2> QED
    BY <1>1, <2>2, <2>4, <2>5 DEF Step, Enters, Live
<1> QED
  BY <1>5, <1>6 DEF Arrive

\* The gate's counters, when they are left alone, and rust.
LEMMA Alone ==
  ASSUME GatewayInv
  PROVE  /\ UNCHANGED gate => GateOK' /\ gate'.active = gate.active /\ gate'.perAgent = gate.perAgent
         /\ UNCHANGED rust => RustOK' /\ rust'.applied = rust.applied
  BY DEF GatewayInv, GateOK, RustOK

\* What a request becomes when its handler is closed.
LEMMA ClosingFields ==
  ASSUME GatewayInv, NEW r \in Request, NEW outcome \in Outcomes
  PROVE  LET q == Closing(r, outcome) IN
         /\ q \in Requests /\ q.stage = "closing" /\ q.outcome = outcome
         /\ q.core = req[r].core /\ q.api = req[r].api /\ q.cut = req[r].cut
         /\ q.admitted = req[r].admitted
  BY OneRequest DEF Closing, Requests, Stages

\* A request that has asked nothing of the notebook may be told anything but success.
LEMMA CloseEarly ==
  ASSUME GatewayInv, NEW r \in Request, req[r].stage \in Early, Live(req[r]),
         NEW outcome \in {"failed", "unknown"}, Becomes(r, Closing(r, outcome)),
         UNCHANGED rust
  PROVE  \E q : Moves(r, q) /\ Live(q) /\ q.admitted = req[r].admitted
<1> DEFINE q == Closing(r, outcome)
<1>1. /\ q \in Requests /\ q.stage = "closing" /\ q.outcome = outcome
      /\ q.core = req[r].core /\ q.admitted = req[r].admitted
  BY ClosingFields DEF Outcomes
<1>2. q.core = "none" /\ r \notin rust.applied
  BY <1>1, OneRequest DEF Sound, Begins
<1> HIDE DEF q
<1>3. Sound(r, q, r \in rust'.applied)
  BY <1>1, <1>2 DEF Sound, Begins, Called, Waits, Reads, Tells, Early
<1> QED
  BY <1>1, <1>3 DEF Moves, Live, q

\* The body has been read and parsed, or refused.
LEMMA BodyStep ==
  ASSUME GatewayInv, NEW r \in Request, Body(r)
  PROVE  Step(r) /\ GateOK' /\ RustOK'
<1>1. RustOK' /\ UNCHANGED rust /\ req[r].stage = "body" /\ Live(req[r]) /\ req[r].stage \in Early
  BY Alone DEF Body, At, Live, Early
<1>2. CASE Refuse(r) /\ gate' = Release(r)
  <2>1. PICK q : Moves(r, q) /\ ~Live(q) /\ q.admitted = req[r].admitted
    BY <1>1, <1>2, RefuseSound
  <2>2. GateOK' /\ Leaves(r, q)
    BY <1>1, <1>2, <2>1, ReleaseOK DEF Leaves
  <2> QED
    BY <1>1, <2>1, <2>2 DEF Step
<1>3. CASE Becomes(r, Closing(r, "failed")) /\ UNCHANGED gate
  <2>1. PICK q : Moves(r, q) /\ Live(q) /\ q.admitted = req[r].admitted
    BY <1>1, <1>3, CloseEarly
  <2> QED
    BY <1>1, <1>3, <2>1, Alone DEF Step, Stays
<1>4. CASE Becomes(r, [req[r] EXCEPT !.stage = "delegating"]) /\ UNCHANGED gate
  <2> DEFINE q == [req[r] EXCEPT !.stage = "delegating"]
  <2>1. q \in Requests /\ q.stage = "delegating" /\ q.api = 1 /\ q.core = "none"
        /\ q.admitted = req[r].admitted /\ ~q.admitted /\ r \notin rust.applied
    BY <1>1, OneRequest DEF Requests, Stages, Sound, Begins
  <2>2. Becomes(r, q)
    BY <1>4
  <2> HIDE DEF q
  <2>3. Moves(r, q)
    BY <1>1, <2>1, <2>2 DEF Moves, Sound, Begins, Called, Waits, Reads, Tells, Ended
  <2> QED
    BY <1>1, <1>4, <2>1, <2>3, Alone DEF Step, Stays, Live
<1> QED
  BY <1>2, <1>3, <1>4 DEF Body

\* The delegation has been answered: the request is admitted for its agent, or closed.
LEMMA DelegatedStep ==
  ASSUME GatewayInv, NEW r \in Request, Delegated(r)
  PROVE  Step(r) /\ GateOK' /\ RustOK'
<1> DEFINE a == By[r]
           asked == [gate EXCEPT !.tokens[a] = Spent(@)]
<1>1. RustOK' /\ UNCHANGED rust /\ req[r].stage = "delegating" /\ Live(req[r])
      /\ req[r].stage \in Early
  BY Alone DEF Delegated, At, Live, Early
<1>2. gate \in [active : 0..MaxActive, perAgent : [Agent -> 0..MaxPerAgent],
                peer : 0..PeerBurst, tokens : [Agent -> 0..AgentBurst]]
  BY DEF GatewayInv, GateOK
<1>3. a \in Agent /\ {MaxActive, MaxPerAgent, PeerBurst, AgentBurst} \subseteq Nat
  BY McpGatewayAssumption
<1>4. /\ asked \in [active : 0..MaxActive, perAgent : [Agent -> 0..MaxPerAgent],
                    peer : 0..PeerBurst, tokens : [Agent -> 0..AgentBurst]]
      /\ asked.active = gate.active /\ asked.perAgent = gate.perAgent
  <2>1. Spent(gate.tokens[a]) \in 0 .. AgentBurst
    BY <1>2, <1>3, Spending
  <2>2. [gate.tokens EXCEPT ![a] = Spent(gate.tokens[a])] \in [Agent -> 0 .. AgentBurst]
    BY <1>2, <2>1
  <2> QED
    BY <1>2, <2>2
<1>5. CASE Becomes(r, Closing(r, "failed")) /\ gate' \in {gate, asked}
  <2>1. PICK q : Moves(r, q) /\ Live(q) /\ q.admitted = req[r].admitted
    BY <1>1, <1>5, CloseEarly
  <2> QED
    BY <1>1, <1>2, <1>4, <1>5, <2>1 DEF Step, Stays, GateOK
<1>6. CASE /\ gate.perAgent[a] < MaxPerAgent
           /\ Becomes(r, Starts(r)) /\ gate' = [asked EXCEPT !.perAgent[a] = @ + 1]
  <2> DEFINE q == Starts(r)
  <2>1. req[r] \in Requests /\ req[r].api = 1 /\ req[r].core = "none" /\ ~req[r].admitted
        /\ r \notin rust.applied
    BY <1>1, OneRequest DEF Sound, Begins
  <2>2. q \in Requests /\ q.admitted /\ Sound(r, q, r \in rust.applied) /\ Live(q)
    <3>1. CASE Asks[r] = NoTool
      <4>1. /\ q \in Requests /\ q.stage = "output" /\ q.core = "none" /\ q.admitted
            /\ q.outcome = "ok"
        BY <2>1, <3>1 DEF Starts, Requests, Stages, Outcomes
      <4>2. ~Writes(r)
        BY <3>1 DEF Writes, NoTool
      <4> HIDE DEF q
      <4> QED
        BY <2>1, <4>1, <4>2 DEF Sound, Begins, Called, Waits, Reads, Tells, Early, Live
    <3>2. CASE Asks[r] # NoTool
      <4>1. /\ q \in Requests /\ q.stage = "calling" /\ q.core = "queued" /\ q.admitted
            /\ q.api = 1
        BY <2>1, <3>2 DEF Starts, Requests, Stages, Outcomes
      <4>2. 1 \in DOMAIN Asks[r]
        BY <3>2, ToolFacts
      <4> HIDE DEF q
      <4> QED
        BY <2>1, <4>1, <4>2 DEF Sound, Begins, Called, Waits, Reads, Tells, Early, Ended, Live
    <3> QED
      BY <3>1, <3>2
  <2>3. Moves(r, q)
    BY <1>1, <1>6, <2>1, <2>2 DEF Moves
  <2>4. /\ gate'.active = gate.active
        /\ gate'.perAgent = [gate.perAgent EXCEPT ![a] = gate.perAgent[a] + 1]
        /\ GateOK'
    <3>1. gate.perAgent[a] + 1 \in 0 .. MaxPerAgent
      BY <1>2, <1>3, <1>6
    <3>2. [gate.perAgent EXCEPT ![a] = gate.perAgent[a] + 1] \in [Agent -> 0 .. MaxPerAgent]
      BY <1>2, <3>1
    <3>3. gate' = [asked EXCEPT !.perAgent = [gate.perAgent EXCEPT ![a] = gate.perAgent[a] + 1]]
      BY <1>2, <1>4, <1>6
    <3> HIDE DEF asked
    <3> QED
      BY <1>4, <3>2, <3>3 DEF GateOK
  <2> QED
    BY <1>1, <2>1, <2>2, <2>3, <2>4 DEF Step, IsAdmitted
<1> QED
  BY <1>5, <1>6 DEF Delegated

\* No delegation could be had.
LEMMA DelegationFailsStep ==
  ASSUME GatewayInv, NEW r \in Request, DelegationFails(r)
  PROVE  Step(r) /\ GateOK' /\ RustOK'
<1>1. UNCHANGED <<gate, rust>> /\ req[r].stage \in Early /\ Live(req[r])
      /\ Becomes(r, Closing(r, "failed"))
  BY DEF DelegationFails, At, Early, Live
<1>2. PICK q : Moves(r, q) /\ Live(q) /\ q.admitted = req[r].admitted
  BY <1>1, CloseEarly
<1> QED
  BY <1>1, <1>2, Alone DEF Step, Stays

-----------------------------------------------------------------------------
(* The calls of the API.                                                   *)

\* What a request becomes when its tool has ended.
LEMMA ToolEndsFields ==
  ASSUME GatewayInv, NEW r \in Request, NEW outcome \in Outcomes
  PROVE  LET q == ToolEnds(r, outcome) IN
         /\ q \in Requests /\ q.stage = "output" /\ q.outcome = outcome
         /\ q.core = Forgotten(req[r].core) /\ q.api = req[r].api /\ q.cut = req[r].cut
         /\ q.admitted = req[r].admitted
<1>1. Forgotten(req[r].core) \in {"none", "queued", "answered"}
  BY OneRequest DEF Forgotten, Requests
<1>2. ToolEnds(r, outcome) =
        [req[r] EXCEPT !.stage = "output", !.outcome = outcome,
                       !.core = Forgotten(req[r].core), !.status = "none"]
  BY OneRequest DEF ToolEnds, Requests
<1>3. req[r] \in Requests
  BY OneRequest
<1> QED
  BY <1>1, <1>2, <1>3 DEF Requests, Stages

\* The end of a tool is sound if what the caller is told is true.
LEMMA EndTool ==
  ASSUME GatewayInv, NEW r \in Request, req[r].stage \in {"calling", "reading", "output"},
         NEW outcome \in Outcomes, NEW q \in Requests, Becomes(r, q), UNCHANGED <<gate, rust>>,
         q.stage = "output", q.outcome = outcome, q.core = Forgotten(req[r].core),
         q.api = req[r].api, q.admitted = req[r].admitted,
         Writes(r) /\ outcome = "failed" =>
           q.cut \/ (r \notin rust.applied /\ ~(q.core = "queued" /\ WritesAt(r, req[r]))),
         Writes(r) /\ outcome = "ok" => r \in rust.applied
  PROVE  Step(r) /\ GateOK' /\ RustOK'
<1>1. /\ q.core = "queued" => req[r].core = "queued"
      /\ req[r].core = "queued" => r \notin rust.applied /\ req[r].api \in DOMAIN Asks[r]
      /\ WritesAt(r, q) = WritesAt(r, req[r])
  BY OneRequest DEF Forgotten, Sound, Called, Waits, WritesAt
<1>2. Sound(r, q, r \in rust.applied)
  BY <1>1 DEF Sound, Begins, Called, Waits, Reads, Tells, Early
<1>3. Moves(r, q)
  BY <1>2 DEF Moves
<1>4. Live(q) /\ Live(req[r])
  BY DEF Live
<1> QED
  BY <1>3, <1>4, Alone DEF Step, Stays

\* The headers of the notebook's answer arrive.
LEMMA HeadersArriveStep ==
  ASSUME GatewayInv, NEW r \in Request, HeadersArrive(r)
  PROVE  Step(r) /\ GateOK' /\ RustOK'
<1>1. UNCHANGED <<gate, rust>> /\ req[r].stage = "calling" /\ req[r].core = "answered"
  BY DEF HeadersArrive, At
<1>2. /\ req[r] \in Requests /\ req[r].status \in {"ok", "failed"}
      /\ req[r].api \in DOMAIN Asks[r]
      /\ req[r].status = "failed" => r \notin rust.applied
      /\ req[r].status = "ok" => (r \in rust.applied <=> WritesAt(r, req[r]))
  BY <1>1, OneRequest DEF Sound, Called, Waits, Requests
<1>3. CASE req[r].status = "ok"
  <2> DEFINE q == [req[r] EXCEPT !.stage = "reading", !.core = "none", !.status = "none"]
  <2>1. q \in Requests /\ q.stage = "reading" /\ q.core = "none" /\ q.api = req[r].api
        /\ q.admitted = req[r].admitted
    BY <1>2 DEF Requests, Stages
  <2>2. Becomes(r, q)
    BY <1>3 DEF HeadersArrive
  <2> HIDE DEF q
  <2>3. Sound(r, q, r \in rust.applied)
    BY <1>2, <1>3, <2>1 DEF Sound, Begins, Called, Waits, Reads, Tells, Early, Ended, WritesAt
  <2>4. Moves(r, q) /\ Live(q) /\ Live(req[r])
    BY <1>1, <2>1, <2>2, <2>3 DEF Moves, Live
  <2> QED
    BY <1>1, <2>1, <2>4, Alone DEF Step, Stays
<1>4. CASE req[r].status # "ok"
  <2>1. /\ Becomes(r, ToolEnds(r, req[r].status))
        /\ req[r].status = "failed" /\ "failed" \in Outcomes
    BY <1>2, <1>4 DEF HeadersArrive, Outcomes
  <2>2. Forgotten(req[r].core) = "none"
    BY <1>1 DEF Forgotten
  <2> QED
    BY <1>1, <1>2, <2>1, <2>2, ToolEndsFields, EndTool
<1> QED
  BY <1>3, <1>4

\* Its body arrives.
LEMMA BodyArrivesStep ==
  ASSUME GatewayInv, NEW r \in Request, BodyArrives(r)
  PROVE  Step(r) /\ GateOK' /\ RustOK'
<1>1. UNCHANGED <<gate, rust>> /\ req[r].stage = "reading"
  BY DEF BodyArrives, At
<1>2. /\ req[r] \in Requests /\ req[r].core = "none" /\ req[r].api \in DOMAIN Asks[r]
      /\ r \in rust.applied <=> WritesAt(r, req[r])
  BY <1>1, OneRequest DEF Sound, Called, Reads
<1>3. CASE LastCall(r)
  <2>1. Becomes(r, ToolEnds(r, "ok")) /\ "ok" \in Outcomes
    BY <1>3 DEF BodyArrives, Outcomes
  <2>2. Writes(r) => r \in rust.applied
    BY <1>2, <1>3, LastWrites DEF LastCall, WritesAt
  <2> QED
    BY <1>1, <2>1, <2>2, ToolEndsFields, EndTool
<1>4. CASE ~LastCall(r)
  <2> DEFINE n == req[r].api + 1
             q == [req[r] EXCEPT !.stage = "calling", !.api = n, !.core = "queued"]
  <2>1. n \in DOMAIN Asks[r] /\ n \in 1 .. 2 /\ r \notin rust.applied
    BY <1>2, <1>4, LastWrites DEF LastCall, WritesAt
  <2>2. Becomes(r, q)
    BY <1>4 DEF BodyArrives
  <2> HIDE DEF n
  <2>3. q \in Requests /\ q.stage = "calling" /\ q.core = "queued" /\ q.api = n
        /\ q.admitted = req[r].admitted
    BY <1>2, <2>1 DEF Requests, Stages
  <2> HIDE DEF q
  <2>4. Sound(r, q, r \in rust.applied)
    BY <2>1, <2>3 DEF Sound, Begins, Called, Waits, Reads, Tells, Early, Ended
  <2>5. Moves(r, q) /\ Live(q) /\ Live(req[r])
    BY <1>1, <2>2, <2>3, <2>4 DEF Moves, Live
  <2> QED
    BY <1>1, <2>3, <2>5, Alone DEF Step, Stays
<1> QED
  BY <1>3, <1>4

\* The call, or its answer, is lost.
LEMMA CallLostStep ==
  ASSUME GatewayInv, NEW r \in Request, CallLost(r)
  PROVE  Step(r) /\ GateOK' /\ RustOK'
<1>1. UNCHANGED <<gate, rust>> /\ req[r].stage = "calling" /\ Becomes(r, ToolEnds(r, Lost(r)))
  BY DEF CallLost, At
<1>2. Lost(r) \in Outcomes /\ Lost(r) # "ok" /\ (Lost(r) = "failed" => ~WritesAt(r, req[r]))
  BY DEF Lost, Outcomes, WritesAt, Calling
<1>3. Lost(r) = "failed" => r \notin rust.applied
  BY <1>1, <1>2, OneRequest DEF Sound, Waits
<1> QED
  BY <1>1, <1>2, <1>3, ToolEndsFields, EndTool

\* The answer breaks off after its headers.
LEMMA BodyLostStep ==
  ASSUME GatewayInv, NEW r \in Request, BodyLost(r)
  PROVE  Step(r) /\ GateOK' /\ RustOK'
<1> DEFINE t == ToolEnds(r, "failed")
           cut == IsWrite(Calling(r))
           q == [t EXCEPT !.cut = cut]
<1>1. UNCHANGED <<gate, rust>> /\ req[r].stage = "reading" /\ Becomes(r, q)
  BY DEF BodyLost, At
<1>2. /\ t \in Requests /\ t.stage = "output" /\ t.outcome = "failed"
      /\ t.core = Forgotten(req[r].core) /\ t.api = req[r].api /\ t.admitted = req[r].admitted
  BY ToolEndsFields DEF Outcomes
<1>3. cut \in BOOLEAN /\ (cut <=> WritesAt(r, req[r]))
  BY DEF IsWrite, Calling, WritesAt
<1>4. ~cut => r \notin rust.applied
  BY <1>1, <1>3, OneRequest DEF Sound, Reads
<1> HIDE DEF t, cut
<1>5. /\ q \in Requests /\ q.stage = "output" /\ q.outcome = "failed" /\ q.cut = cut
      /\ q.core = Forgotten(req[r].core) /\ q.api = req[r].api /\ q.admitted = req[r].admitted
  BY <1>2, <1>3 DEF Requests
<1> QED
  BY <1>1, <1>3, <1>4, <1>5, EndTool DEF Outcomes

-----------------------------------------------------------------------------
(* The end of a request.                                                   *)

\* The deadline passes or the caller goes: what is awaited is given up, wherever it is.
LEMMA AbortStep ==
  ASSUME GatewayInv, NEW r \in Request, Abort(r)
  PROVE  Step(r) /\ GateOK' /\ RustOK'
<1>1. UNCHANGED rust /\ RustOK'
  BY Alone DEF Abort
<1>2. CASE At(r, "body") /\ Refuse(r) /\ gate' = Release(r)
  <2>1. req[r].stage \in Early /\ Live(req[r])
    BY <1>2 DEF At, Early, Live
  <2>2. PICK q : Moves(r, q) /\ ~Live(q) /\ q.admitted = req[r].admitted
    BY <1>1, <1>2, <2>1, RefuseSound
  <2>3. GateOK' /\ Leaves(r, q)
    BY <1>2, <2>1, <2>2, ReleaseOK DEF Leaves
  <2> QED
    BY <1>1, <2>2, <2>3 DEF Step
<1>3. CASE /\ At(r, "delegating") /\ UNCHANGED gate
           /\ Becomes(r, [Closing(r, "unknown") EXCEPT !.aborted = TRUE])
  <2> DEFINE t == Closing(r, "unknown")
             q == [t EXCEPT !.aborted = TRUE]
  <2>1. req[r].stage \in Early /\ Live(req[r])
    BY <1>3 DEF At, Early, Live
  <2>2. t \in Requests /\ t.stage = "closing" /\ t.outcome = "unknown"
        /\ t.core = req[r].core /\ t.admitted = req[r].admitted
    BY ClosingFields DEF Outcomes
  <2>3. q.core = "none" /\ r \notin rust.applied
    BY <2>1, <2>2, OneRequest DEF Sound, Begins
  <2>4. Becomes(r, q)
    BY <1>3
  <2> HIDE DEF t
  <2>5. q \in Requests /\ q.stage = "closing" /\ q.outcome = "unknown"
        /\ q.admitted = req[r].admitted
    BY <2>2 DEF Requests
  <2> HIDE DEF q
  <2>6. Moves(r, q) /\ Live(q)
    BY <1>1, <2>3, <2>4, <2>5 DEF Moves, Live, Sound, Begins, Called, Waits, Reads, Tells, Early
  <2> QED
    BY <1>1, <1>3, <2>1, <2>5, <2>6, Alone DEF Step, Stays
<1>4. CASE /\ req[r].stage \in {"calling", "reading", "output"} /\ UNCHANGED gate
           /\ Becomes(r, [ToolEnds(r, "unknown") EXCEPT !.aborted = TRUE])
  <2> DEFINE t == ToolEnds(r, "unknown")
             q == [t EXCEPT !.aborted = TRUE]
  <2>1. /\ t \in Requests /\ t.stage = "output" /\ t.outcome = "unknown"
        /\ t.core = Forgotten(req[r].core) /\ t.api = req[r].api /\ t.admitted = req[r].admitted
    BY ToolEndsFields DEF Outcomes
  <2>2. Becomes(r, q)
    BY <1>4
  <2> HIDE DEF t
  <2>3. /\ q \in Requests /\ q.stage = "output" /\ q.outcome = "unknown"
        /\ q.core = Forgotten(req[r].core) /\ q.api = req[r].api /\ q.admitted = req[r].admitted
    BY <2>1 DEF Requests
  <2> QED
    BY <1>1, <1>4, <2>2, <2>3, EndTool DEF Outcomes
<1> QED
  BY <1>2, <1>3, <1>4 DEF Abort

\* The response of the MCP handler is read, or is too large.
LEMMA OutputStep ==
  ASSUME GatewayInv, NEW r \in Request, Output(r)
  PROVE  Step(r) /\ GateOK' /\ RustOK'
<1>1. UNCHANGED <<gate, rust>> /\ req[r].stage = "output" /\ Live(req[r])
  BY DEF Output, At, Live
<1>2. PICK outcome \in {"unknown", req[r].outcome, IF Writes(r) THEN "unknown" ELSE "failed"} :
        Becomes(r, Closing(r, outcome))
  BY DEF Output
<1>3. /\ outcome \in Outcomes
      /\ Writes(r) => outcome \in {"unknown", req[r].outcome}
  BY <1>2, OneRequest DEF Requests, Outcomes
<1> DEFINE q == Closing(r, outcome)
<1>4. /\ q \in Requests /\ q.stage = "closing" /\ q.outcome = outcome
      /\ q.core = req[r].core /\ q.api = req[r].api /\ q.cut = req[r].cut
      /\ q.admitted = req[r].admitted
  BY <1>3, ClosingFields
<1> HIDE DEF q
<1>5. WritesAt(r, q) = WritesAt(r, req[r])
  BY <1>4 DEF WritesAt
<1>6. Sound(r, q, r \in rust.applied)
  BY <1>1, <1>3, <1>4, <1>5, OneRequest
  DEF Sound, Begins, Called, Waits, Reads, Tells, Early, Ended
<1>7. Moves(r, q) /\ Live(q)
  BY <1>1, <1>2, <1>4, <1>6 DEF Moves, Live, q
<1> QED
  BY <1>1, <1>4, <1>7, Alone DEF Step, Stays

\* The connection of the caller closes, and the counters are given back.
LEMMA CloseStep ==
  ASSUME GatewayInv, NEW r \in Request, Close(r)
  PROVE  Step(r) /\ GateOK' /\ RustOK'
<1> DEFINE q == [req[r] EXCEPT !.stage = "done", !.aborted = FALSE, !.admitted = FALSE]
<1>1. UNCHANGED rust /\ req[r].stage = "closing" /\ Live(req[r]) /\ gate' = Release(r)
  BY DEF Close, At, Live
<1>2. Becomes(r, q)
  BY DEF Close
<1>3. /\ q \in Requests /\ q.stage = "done" /\ q.outcome = req[r].outcome
      /\ q.core = req[r].core /\ q.api = req[r].api /\ q.cut = req[r].cut
  BY OneRequest DEF Requests, Stages
<1> HIDE DEF q
<1>4. WritesAt(r, q) = WritesAt(r, req[r])
  BY <1>3 DEF WritesAt
<1>5. Sound(r, q, r \in rust.applied)
  BY <1>1, <1>3, <1>4, OneRequest
  DEF Sound, Begins, Called, Waits, Reads, Tells, Early, Ended
<1>6. Moves(r, q) /\ ~Live(q)
  BY <1>1, <1>2, <1>3, <1>5 DEF Moves, Live
<1>7. Leaves(r, q) /\ GateOK'
  BY <1>1, <1>6, ReleaseOK DEF Leaves
<1> QED
  BY <1>1, <1>6, <1>7, Alone DEF Step

-----------------------------------------------------------------------------
(* The Rust service.                                                       *)

\* The service issues a delegation, or does not.
LEMMA DelegateStep ==
  ASSUME GatewayInv, NEW r \in Request, Delegate(r)
  PROVE  Step(r) /\ GateOK' /\ RustOK'
<1>1. /\ UNCHANGED <<gate, rust>> /\ req[r].stage = "delegating" /\ Live(req[r])
      /\ req[r].stage \in Early
  BY DEF Delegate, At, Live, Early
<1>2. PICK d \in {"granted", "denied"} :
        Becomes(r, [req[r] EXCEPT !.delegated = d, !.key = rust.key])
  BY DEF Delegate
<1> DEFINE q == [req[r] EXCEPT !.delegated = d, !.key = rust.key]
<1>3. /\ q \in Requests /\ q.stage = "delegating" /\ q.core = "none" /\ q.api = 1
      /\ q.admitted = req[r].admitted /\ ~q.admitted /\ r \notin rust.applied
  BY <1>1, OneRequest DEF Requests, Sound, Begins, GatewayInv, RustOK
<1>4. Becomes(r, q)
  BY <1>2
<1> HIDE DEF q
<1>5. Moves(r, q) /\ Live(q)
  BY <1>1, <1>3, <1>4 DEF Moves, Live, Sound, Begins, Called, Waits, Reads, Tells, Ended
<1> QED
  BY <1>1, <1>3, <1>5, Alone DEF Step, Stays

\* A call is performed for a gateway that waits for it, or for one that does not.
LEMMA AnswersSound ==
  ASSUME GatewayInv, NEW r \in Request, req[r].core = "queued",
         NEW status \in {"ok", "failed"}, NEW done \in BOOLEAN,
         done <=> status = "ok" /\ WritesAt(r, req[r])
  PROVE  LET q == Answers(r, status) IN
         /\ Sound(r, q, done) /\ Live(q) = Live(req[r]) /\ q.admitted = req[r].admitted
<1>1. /\ req[r] \in Requests /\ req[r].stage \in {"calling"} \cup Ended
      /\ req[r].api \in DOMAIN Asks[r] /\ r \notin rust.applied
      /\ Tells(r, req[r], r \in rust.applied)
  BY OneRequest DEF Sound, Begins, Called, Waits, Reads, Early, Ended, Requests, Stages
<1>2. CASE req[r].stage = "calling"
  <2> DEFINE q == [req[r] EXCEPT !.core = "answered", !.status = status]
  <2>1. /\ q \in Requests /\ q.stage = "calling" /\ q.core = "answered" /\ q.status = status
        /\ q.api = req[r].api /\ q.admitted = req[r].admitted
    BY <1>1, <1>2 DEF Requests
  <2> HIDE DEF q
  <2>2. WritesAt(r, q) = WritesAt(r, req[r])
    BY <2>1 DEF WritesAt
  <2>3. Sound(r, q, done) /\ Live(q) /\ Live(req[r])
    BY <1>1, <1>2, <2>1, <2>2
    DEF Sound, Begins, Called, Waits, Reads, Tells, Early, Ended, Live
  <2> QED
    BY <1>2, <2>1, <2>3 DEF Answers, At, q
<1>3. CASE req[r].stage # "calling"
  <2> DEFINE q == [req[r] EXCEPT !.core = "none"]
  <2>1. /\ q \in Requests /\ q.stage = req[r].stage /\ q.core = "none"
        /\ q.outcome = req[r].outcome /\ q.cut = req[r].cut /\ q.admitted = req[r].admitted
    BY <1>1 DEF Requests
  <2> HIDE DEF q
  <2>2. Sound(r, q, done) /\ Live(q) = Live(req[r])
    BY <1>1, <1>3, <2>1 DEF Sound, Begins, Called, Waits, Reads, Tells, Early, Ended, Live
  <2> QED
    BY <1>3, <2>1, <2>2 DEF Answers, At, q
<1> QED
  BY <1>2, <1>3

\* The notebook performs the call, or refuses it.
LEMMA PerformStep ==
  ASSUME GatewayInv, NEW r \in Request, Perform(r)
  PROVE  Step(r) /\ GateOK' /\ RustOK'
<1>1. UNCHANGED gate /\ req[r].core = "queued" /\ r \notin rust.applied
  BY OneRequest DEF Perform, Sound, Waits
<1>2. ASSUME NEW status \in {"ok", "failed"}, Becomes(r, Answers(r, status)),
             r \in rust'.applied <=> status = "ok" /\ WritesAt(r, req[r]),
             \A s \in Request \ {r} : s \in rust'.applied <=> s \in rust.applied
      PROVE  Step(r)
  <2> DEFINE done == r \in rust'.applied
  <2>1. done \in BOOLEAN
    OBVIOUS
  <2>2. /\ Sound(r, Answers(r, status), done) /\ Live(Answers(r, status)) = Live(req[r])
        /\ Answers(r, status).admitted = req[r].admitted
    BY <1>1, <1>2, <2>1, AnswersSound
  <2> QED
    BY <1>1, <1>2, <2>2 DEF Step, Moves, Stays
<1>3. CASE Becomes(r, Answers(r, "failed")) /\ UNCHANGED rust
  BY <1>1, <1>2, <1>3, Alone
<1>4. CASE /\ Becomes(r, Answers(r, "ok")) /\ ~IsWrite(Calling(r)) /\ UNCHANGED rust
  BY <1>1, <1>2, <1>4, Alone DEF WritesAt, Calling
<1>5. CASE /\ Becomes(r, Answers(r, "ok")) /\ IsWrite(Calling(r))
           /\ rust' = [rust EXCEPT !.applied = @ \cup {r},
                                   !.revision = IF Calling(r) = "PATCH" THEN @ + 1 ELSE @]
  <2> DEFINE n == IF Calling(r) = "PATCH" THEN rust.revision + 1 ELSE rust.revision
  <2>1. n \in Nat /\ rust' = [rust EXCEPT !.applied = rust.applied \cup {r}, !.revision = n]
    BY <1>5 DEF GatewayInv, RustOK
  <2> HIDE DEF n
  <2>2. RustOK' /\ rust'.applied = rust.applied \cup {r}
    BY <2>1 DEF GatewayInv, RustOK
  <2> QED
    BY <1>1, <1>2, <1>5, <2>2, Alone DEF WritesAt, Calling
<1> QED
  BY <1>3, <1>4, <1>5 DEF Perform

-----------------------------------------------------------------------------
(* What no request does.                                                   *)

\* Time fills the buckets, up to their burst.
LEMMA WaitKeeps ==
  ASSUME GatewayInv, Wait
  PROVE  GatewayInv'
<1>1. gate \in [active : 0..MaxActive, perAgent : [Agent -> 0..MaxPerAgent],
                peer : 0..PeerBurst, tokens : [Agent -> 0..AgentBurst]]
  BY DEF GatewayInv, GateOK
<1>2. /\ PeerBurst \in Nat /\ AgentBurst \in Nat
      /\ \A b \in Nat : \A t \in 0 .. b : Filled(t, b) \in 0 .. b
  BY McpGatewayAssumption DEF Filled
<1> DEFINE peer == Filled(gate.peer, PeerBurst)
           tokens == [a \in Agent |-> Filled(gate.tokens[a], AgentBurst)]
<1>3. peer \in 0 .. PeerBurst /\ tokens \in [Agent -> 0 .. AgentBurst]
  BY <1>1, <1>2
<1>4. gate' = [gate EXCEPT !.peer = peer, !.tokens = tokens]
  BY <1>1 DEF Wait
<1> HIDE DEF peer, tokens
<1>5. GateOK' /\ gate'.active = gate.active /\ gate'.perAgent = gate.perAgent
  BY <1>1, <1>3, <1>4 DEF GateOK
<1>6. UNCHANGED <<req, rust>>
  BY DEF Wait
<1>7. CountInv'
  BY <1>5, <1>6 DEF GatewayInv, CountInv, CountersExact, InFlight, Admitted
<1> QED
  BY <1>5, <1>6, <1>7 DEF GatewayInv, AllSound, RustOK

\* A revocation changes neither requests nor counters.
LEMMA RevokeKeeps ==
  ASSUME GatewayInv, Revoke
  PROVE  GatewayInv'
<1>1. PICK a \in Agent : rust' = [rust EXCEPT !.revoked = @ \cup {a}]
  BY DEF Revoke
<1>2. UNCHANGED <<req, gate>>
  BY DEF Revoke
<1>3. RustOK' /\ rust'.applied = rust.applied
  BY <1>1 DEF GatewayInv, RustOK
<1>4. CountInv'
  BY <1>2 DEF GatewayInv, CountInv, CountersExact, InFlight, Admitted
<1> QED
  BY <1>2, <1>3, <1>4 DEF GatewayInv, AllSound, GateOK

\* A restart of the service changes its key only.
LEMMA RestartKeeps ==
  ASSUME GatewayInv, RestartService
  PROVE  GatewayInv'
<1>1. UNCHANGED gate /\ rust' = [rust EXCEPT !.key = @ + 1]
  BY DEF RestartService
<1>2. RustOK' /\ rust'.applied = rust.applied
  <2> DEFINE n == rust.key + 1
  <2>1. n \in Nat /\ rust' = [rust EXCEPT !.key = n]
    BY <1>1 DEF GatewayInv, RustOK
  <2> HIDE DEF n
  <2> QED
    BY <2>1 DEF GatewayInv, RustOK
<1>3. /\ req' = [r \in Request |-> req'[r]]
      /\ \A r \in Request :
           req'[r] = [req[r] EXCEPT !.core = IF @ = "queued" THEN "none" ELSE @]
  BY DEF RestartService
<1>4. ASSUME NEW r \in Request
      PROVE  /\ Sound(r, req'[r], r \in rust.applied)
             /\ req'[r].stage = req[r].stage /\ req'[r].admitted = req[r].admitted
  <2> DEFINE c == IF req[r].core = "queued" THEN "none" ELSE req[r].core
             q == [req[r] EXCEPT !.core = c]
  <2>1. req[r] \in Requests /\ c \in {"none", "answered"} /\ (c # req[r].core => c = "none")
        /\ (req[r].core # "queued" => c = req[r].core)
    BY OneRequest DEF Requests
  <2>2. req'[r] = q
    BY <1>3, <2>1 DEF Requests
  <2> HIDE DEF c
  <2>3. /\ q \in Requests /\ q.core = c /\ q.stage = req[r].stage /\ q.api = req[r].api
        /\ q.status = req[r].status /\ q.outcome = req[r].outcome /\ q.cut = req[r].cut
        /\ q.admitted = req[r].admitted
    BY <2>1 DEF Requests
  <2> HIDE DEF q
  <2>4. WritesAt(r, q) = WritesAt(r, req[r])
    BY <2>3 DEF WritesAt
  <2>5. Sound(r, q, r \in rust.applied)
    BY <2>1, <2>3, <2>4, OneRequest
    DEF Sound, Begins, Called, Waits, Reads, Tells, Early, Ended
  <2> QED
    BY <2>2, <2>3, <2>5
<1>5. InFlight' = InFlight
  BY <1>4 DEF InFlight
<1>6. \A s \in InFlight' : req'[s].admitted = req[s].admitted
  BY <1>4, <1>5 DEF InFlight
<1>7. \A a \in Agent : Admitted(a)' = Admitted(a)
  BY <1>5, <1>6 DEF Admitted
<1>8. CountInv'
  BY <1>1, <1>5, <1>7 DEF GatewayInv, CountInv, CountersExact
<1> QED
  BY <1>1, <1>2, <1>3, <1>4, <1>8 DEF GatewayInv, AllSound, GateOK

-----------------------------------------------------------------------------

\* At first no request has come.
LEMMA InitInv ==
  ASSUME Init
  PROVE  GatewayInv
<1>1. \A r \in Request : req[r] = NewRequest
  BY DEF Init
<1>2. AllSound
  BY <1>1 DEF Init, AllSound, Sound, Requests, NewRequest, Stages, Outcomes, Begins, Called,
     Waits, Reads, Tells, Early, Ended
<1>3. InFlight = {} /\ \A a \in Agent : Admitted(a) = {}
  BY <1>1 DEF InFlight, Admitted, NewRequest
<1>4. CountInv
  BY <1>3, FS_EmptySet DEF Init, CountInv, CountersExact
<1>5. GateOK /\ RustOK
  BY McpGatewayAssumption DEF Init, GateOK, RustOK
<1> QED
  BY <1>2, <1>4, <1>5 DEF GatewayInv, Init

\* Every step of the system preserves the invariant.
LEMMA NextInv ==
  ASSUME GatewayInv, [Next]_vars
  PROVE  GatewayInv'
<1>1. ASSUME NEW r \in Request, Handler(r) \/ Service(r)
      PROVE  Step(r) /\ GateOK' /\ RustOK'
  BY <1>1, ArriveStep, BodyStep, DelegatedStep, DelegationFailsStep, HeadersArriveStep,
     BodyArrivesStep, CallLostStep, BodyLostStep, AbortStep, OutputStep, CloseStep,
     DelegateStep, PerformStep DEF Handler, Service
<1>2. CASE \E r \in Request : Handler(r) \/ Service(r)
  BY <1>1, <1>2, StepKeeps
<1>3. CASE UNCHANGED vars
  <2>1. UNCHANGED <<req, gate, rust>>
    BY <1>3 DEF vars
  <2> QED
    BY <2>1 DEF GatewayInv, AllSound, GateOK, RustOK, CountInv, CountersExact, InFlight, Admitted
<1> QED
  BY <1>2, <1>3, WaitKeeps, RevokeKeeps, RestartKeeps DEF Next

\* The invariant holds in every behaviour.
LEMMA Invariant == Spec => []GatewayInv
<1>1. Init => GatewayInv
  BY InitInv
<1>2. GatewayInv /\ [Next]_vars => GatewayInv'
  BY NextInv
<1> QED
  BY <1>1, <1>2, PTL DEF Spec

\* Type correctness: no counter of http.ts falls below zero or passes its limit, and no
\* bucket holds more than its burst.
THEOREM TypeCorrect == Spec => []TypeOK
<1>1. GatewayInv => TypeOK
  <2>1. ASSUME GatewayInv PROVE req \in [Request -> Requests]
    BY <2>1 DEF GatewayInv, AllSound, Sound
  <2> QED
    BY <2>1 DEF TypeOK, GatewayInv, GateOK, RustOK, Requests
<1> QED
  BY <1>1, Invariant, PTL

\* http.ts counts the requests in flight, and those of each agent, exactly: every way
\* out of the handler gives back what was taken, once.
THEOREM CountsExactly == Spec => []CountersExact
<1>1. GatewayInv => CountersExact
  BY DEF GatewayInv, CountInv
<1> QED
  BY <1>1, Invariant, PTL

\* A caller is told that its write failed only if the notebook has not performed it and
\* will not, or the answer broke off after its headers (api.ts); and that it is done
\* only if it is.
THEOREM TellsTruth == Spec => []NotMisreported
<1>1. GatewayInv => NotMisreported
  <2> SUFFICES ASSUME GatewayInv, NEW r \in Request, At(r, "done"), Writes(r)
               PROVE  /\ req[r].outcome = "failed" =>
                           req[r].cut \/ (r \notin rust.applied /\ ~Outstanding(r))
                      /\ req[r].outcome = "ok" => r \in rust.applied
    BY DEF NotMisreported
  <2> QED
    BY OneRequest DEF Sound, Tells, Ended, At, Outstanding, WritesAt, Calling
<1> QED
  BY <1>1, Invariant, PTL

=============================================================================
