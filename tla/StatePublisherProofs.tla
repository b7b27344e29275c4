------------------------- MODULE StatePublisherProofs -------------------------
(***************************************************************************)
(* Proofs about the writers of the state branch, for any number of them.   *)
(* First, their calls are calls that the coordinator lets anybody make, so *)
(* all that is proved of it holds among them; then, what an owner may      *)
(* believe of the branch.                                                  *)
(***************************************************************************)
EXTENDS StatePublisher, StateWriterCoordinatorProofs

-----------------------------------------------------------------------------
(* Tokens in the coordinator.                                              *)

\* A step of the coordinator leases a ticket under a fresh token, or leaves it the
\* token it had.
TokenStep ==
  /\ meta'.admitted \in {meta.admitted, meta.admitted + 1}
  /\ \A t \in Tickets : tickets'[t].state = "leased" =>
       \/ tickets[t].state = "leased" /\ tickets'[t].token = tickets[t].token
       \/ tickets'[t].token = meta'.admitted /\ meta'.admitted = meta.admitted + 1

LEMMA TokensAreFresh ==
  ASSUME TypeOK, [Next]_vars
  PROVE  TokenStep
<1>1. /\ ReclaimedAndPruned \in [Tickets -> Row] /\ ReclaimedMeta \in Meta
      /\ ReclaimedMeta.admitted = meta.admitted
      /\ \A t \in Tickets : ReclaimedAndPruned[t].state = "leased" =>
            ReclaimedAndPruned[t] = tickets[t]
  BY ReclaimFacts
<1>2. ASSUME NEW t \in Tickets, Acquire(t)
      PROVE  TokenStep
  <2> DEFINE seen == SeenTable(t)
             token == meta.admitted + 1
  <2>1. /\ seen \in [Tickets -> Row] /\ ClassOf[t] \in Classes
        /\ \A u \in Tickets : seen[u].state = "leased" => seen[u] = tickets[u]
    BY SeenFacts, TicketAssumption
  <2>2. CASE Admits(t, seen, ReclaimedMeta)
    <3>1. /\ tickets' = [seen EXCEPT ![t] = LeasedRow(@, token)]
          /\ meta'.admitted = token
      BY <1>1, <1>2, <2>1, <2>2, AdmittedMetaType DEF Acquire
    <3>2. LeasedRow(seen[t], token).token = token
      BY <2>1 DEF LeasedRow, Row
    <3>3. QED
      BY <2>1, <3>1, <3>2 DEF TokenStep
  <2>3. CASE ~Admits(t, seen, ReclaimedMeta)
    <3>1. tickets' = seen /\ meta' = ReclaimedMeta
      BY <1>2, <2>3 DEF Acquire
    <3>2. QED
      BY <1>1, <2>1, <3>1 DEF TokenStep
  <2>4. QED
    BY <2>2, <2>3
<1>3. ASSUME NEW t \in Tickets, NEW k \in 1..meta.admitted, Heartbeat(t, k)
      PROVE  TokenStep
  <2>1. \A r \in Row : RenewedRow(r).token = r.token /\ RenewedRow(r).state = r.state
    BY DEF RenewedRow, Row
  <2>2. QED
    BY <1>1, <1>3, <2>1 DEF Heartbeat, TokenStep
<1>4. ASSUME NEW t \in Tickets, NEW k \in 1..meta.admitted, Release(t, k)
      PROVE  TokenStep
  <2>1. CompletedRow(ReclaimedAndPruned[t]).state = "completed"
    BY <1>1 DEF CompletedRow, Row
  <2>2. meta'.admitted = meta.admitted
    BY <1>1, <1>4 DEF Release, Meta
  <2>3. QED
    BY <1>1, <1>4, <2>1, <2>2 DEF Release, TokenStep
<1>5. CASE Stats
  BY <1>1, <1>5 DEF Stats, TokenStep
<1>6. CASE Tick
  <2>1. \A r \in Row : TickedRow(r).state = r.state /\ TickedRow(r).token = r.token
    BY DEF TickedRow, Terminal, Row
  <2>2. QED
    BY <1>6, <2>1 DEF Tick, TypeOK, TokenStep
<1>7. CASE UNCHANGED vars
  BY <1>7 DEF vars, TokenStep
<1>8. QED
  BY <1>2, <1>3, <1>4, <1>5, <1>6, <1>7 DEF Next

-----------------------------------------------------------------------------
(* The writers' calls.                                                     *)

\* The shape of the writers' state, as far as the proofs need it.
WriterShape == [pc: Phases, token: Nat, base: Nat, strikes: Int]

ShapeOK ==
  /\ writers \in [Tickets -> WriterShape]
  /\ watchdogs \in [Tickets -> [state: {"none", "running", "closing", "gone"}, missed: Int]]
  /\ \A m \in late : m.writer \in Tickets
  /\ branch \in Seq(Commit)

Watching == {"running", "closing"}

IssuedTokens == 1..meta.admitted

\* Whoever has a lease, renews it or ends it has a token that was issued.
TokensIssued ==
  /\ \A t \in Tickets : tickets[t].state = "leased" => tickets[t].token \in IssuedTokens
  /\ \A w \in Tickets : writers[w].pc \in Holding => writers[w].token \in IssuedTokens
  /\ \A w \in Tickets : watchdogs[w].state \in Watching => writers[w].token \in IssuedTokens
  /\ \A m \in late : m.kind \in {"heartbeat", "release"} => m.token \in IssuedTokens

CallInv == TypeOK /\ ShapeOK /\ TokensIssued

\* What a step does to the tokens of writer w: it leaves them alone, and its
\* phases past the lease follow from earlier ones, or w reads them off its row.
TokenKept(w) ==
  /\ writers'[w].token = writers[w].token
  /\ writers'[w].pc \in Holding => writers[w].pc \in Holding
  /\ watchdogs'[w].state \in Watching =>
       watchdogs[w].state \in Watching \/ writers[w].pc \in Holding

TokenRead(w) ==
  tickets'[w].state = "leased" /\ writers'[w].token = tickets'[w].token

\* A late request is an earlier one, or carries the token of its writer.
LateFrom(m) ==
  \/ m \in late
  \/ \E w \in Tickets :
       /\ m.token = writers[w].token
       /\ writers[w].pc \in Holding \/ watchdogs[w].state \in Watching

LEMMA CallsKeepTokens ==
  ASSUME CallInv, [Next]_vars, ShapeOK',
         \A w \in Tickets : TokenKept(w) \/ TokenRead(w),
         \A m \in late' : m.kind \in {"heartbeat", "release"} => LateFrom(m)
  PROVE  CallInv'
<1>1. meta.admitted \in Nat /\ TokenStep
  BY TokensAreFresh DEF CallInv, TypeOK, Meta
<1>2. IssuedTokens \subseteq IssuedTokens'
  BY <1>1 DEF IssuedTokens, TokenStep
<1>3. \A t \in Tickets : tickets'[t].state = "leased" => tickets'[t].token \in IssuedTokens'
  <2> SUFFICES ASSUME NEW t \in Tickets, tickets'[t].state = "leased"
               PROVE  tickets'[t].token \in IssuedTokens'
    OBVIOUS
  <2>1. CASE tickets[t].state = "leased" /\ tickets'[t].token = tickets[t].token
    BY <1>2, <2>1 DEF CallInv, TokensIssued
  <2>2. CASE tickets'[t].token = meta'.admitted /\ meta'.admitted = meta.admitted + 1
    BY <1>1, <2>2 DEF IssuedTokens
  <2>3. QED
    BY <1>1, <2>1, <2>2 DEF TokenStep
<1>4. \A w \in Tickets : writers'[w].pc \in Holding => writers'[w].token \in IssuedTokens'
  BY <1>2, <1>3 DEF CallInv, TokensIssued, TokenKept, TokenRead
<1>5. \A w \in Tickets :
        watchdogs'[w].state \in Watching => writers'[w].token \in IssuedTokens'
  BY <1>2, <1>3 DEF CallInv, TokensIssued, TokenKept, TokenRead
<1>6. \A m \in late' : m.kind \in {"heartbeat", "release"} => m.token \in IssuedTokens'
  BY <1>2 DEF CallInv, TokensIssued, LateFrom
<1>7. TokensIssued'
  BY <1>3, <1>4, <1>5, <1>6 DEF TokensIssued
<1>8. QED
  BY <1>7, TypesStep DEF CallInv

\* The backend checks an update of several fields one field at a time.
LEMMA WriterUpdates ==
  ASSUME NEW f \in [Tickets -> WriterShape], NEW w \in Tickets
  PROVE  /\ \A v \in Phases : [f EXCEPT ![w].pc = v] \in [Tickets -> WriterShape]
         /\ \A v \in Nat : [f EXCEPT ![w].token = v] \in [Tickets -> WriterShape]
         /\ \A v \in Nat : [f EXCEPT ![w].base = v] \in [Tickets -> WriterShape]
         /\ \A v \in Int : [f EXCEPT ![w].strikes = v] \in [Tickets -> WriterShape]
  BY DEF WriterShape

\* A writer that only moves on keeps its token and its base; the others stay.
LEMMA GotoFacts ==
  ASSUME ShapeOK, NEW w \in Tickets, NEW pc \in Phases, Goto(w, pc)
  PROVE  /\ writers' \in [Tickets -> WriterShape]
         /\ writers'[w].pc = pc
         /\ \A v \in Tickets : writers'[v].token = writers[v].token
                               /\ writers'[v].base = writers[v].base
         /\ \A v \in Tickets : v # w => writers'[v] = writers[v]
  BY DEF ShapeOK, WriterShape, Goto

LEMMA LoseAnswerFacts ==
  ASSUME ShapeOK, NEW w \in Tickets, NEW kind, LoseAnswer(kind, w)
  PROVE  \A m \in late' :
            \/ m \in late
            \/ m.kind = kind /\ m.writer = w /\ m.token = writers[w].token
  BY DEF LoseAnswer

\* A closed watchdog was running, or its writer had a lease, if it watches on.
LEMMA CloseFacts ==
  ASSUME ShapeOK, NEW w \in Tickets, NEW ack \in BOOLEAN, CloseWatchdog(w, ack)
  PROVE  /\ watchdogs' \in [Tickets ->
                              [state: {"none", "running", "closing", "gone"}, missed: Int]]
         /\ \A v \in Tickets : v # w => watchdogs'[v] = watchdogs[v]
         /\ watchdogs'[w].state = IF ack THEN "gone" ELSE "closing"
  BY DEF ShapeOK, CloseWatchdog

LEMMA PushedType ==
  ASSUME ShapeOK, NEW w \in Tickets
  PROVE  Pushed(w) \in Seq(Commit)
<1>1. [writer |-> w, owned |-> OwnsLease(w)] \in Commit
  BY DEF Commit, OwnsLease, Owns
<1>2. QED
  BY <1>1 DEF Pushed, ShapeOK

\* A call that names an issued token is one the coordinator lets anybody make.
LEMMA CallsAreSteps ==
  ASSUME NEW w \in Tickets
  PROVE  /\ Acquire(w) => [Next]_vars
         /\ \A k \in IssuedTokens : Heartbeat(w, k) => [Next]_vars
         /\ \A k \in IssuedTokens : Release(w, k) => [Next]_vars
         /\ Stats => [Next]_vars
         /\ Tick => [Next]_vars
         /\ UNCHANGED vars => [Next]_vars
<1>1. Acquire(w) => Next
  BY Zenon DEF Next
<1>2. \A k \in IssuedTokens : Heartbeat(w, k) => Next
  BY Zenon DEF Next, IssuedTokens
<1>3. \A k \in IssuedTokens : Release(w, k) => Next
  BY Zenon DEF Next, IssuedTokens
<1>4. (Stats => Next) /\ (Tick => Next)
  BY Zenon DEF Next
<1>5. QED
  BY <1>1, <1>2, <1>3, <1>4

-----------------------------------------------------------------------------
(* Every step of a writer is a step of the coordinator.                    *)

CoordinatorStep == [Next]_vars /\ CallInv'

LEMMA PollIsStep ==
  ASSUME CallInv, NEW w \in Tickets, Poll(w)
  PROVE  CoordinatorStep
<1>1. [Next]_vars /\ TypeOK'
  BY CallsAreSteps, TypesStep DEF Poll, CallInv
<1>2. tickets'[w] \in Row /\ writers[w].token \in Nat
  BY <1>1 DEF TypeOK, CallInv, ShapeOK, WriterShape
<1>3. /\ late' = late /\ branch' = branch
      /\ \A v \in Tickets : v # w => writers'[v] = writers[v] /\ watchdogs'[v] = watchdogs[v]
  BY DEF Poll, CallInv, ShapeOK, Goto
<1>4. CASE tickets'[w].state = "leased"
  <2>1. /\ writers' = [writers EXCEPT ![w].pc = "leased",
                                      ![w].token = tickets'[w].token,
                                      ![w].strikes = 0]
        /\ watchdogs' = [watchdogs EXCEPT ![w] =
             [state |-> "running", missed |-> LeaseMs - tickets'[w].expiresIn]]
    BY <1>4 DEF Poll
  <2>2. /\ tickets'[w].token \in Nat
        /\ LeaseMs - tickets'[w].expiresIn \in Int
    BY <1>2, TimeAssumption DEF Row
  <2>3. watchdogs' \in [Tickets ->
                          [state: {"none", "running", "closing", "gone"}, missed: Int]]
    BY <2>1, <2>2 DEF CallInv, ShapeOK
  <2> DEFINE w1 == [writers EXCEPT ![w].pc = "leased"]
             w2 == [w1 EXCEPT ![w].token = tickets'[w].token]
             w3 == [w2 EXCEPT ![w].strikes = 0]
  <2>4. writers' \in [Tickets -> WriterShape] /\ writers'[w].token = tickets'[w].token
    <3>1. w1 \in [Tickets -> WriterShape]
      BY WriterUpdates DEF CallInv, ShapeOK, Phases
    <3> HIDE DEF w1
    <3>2. w2 \in [Tickets -> WriterShape] /\ w2[w].token = tickets'[w].token
      BY <2>2, <3>1, WriterUpdates DEF WriterShape
    <3> HIDE DEF w2
    <3>3. w3 \in [Tickets -> WriterShape] /\ w3[w].token = tickets'[w].token
      BY <3>2, WriterUpdates DEF WriterShape
    <3>4. writers' = w3
      BY <2>1 DEF w1, w2
    <3>5. QED
      BY <3>3, <3>4
  <2>5. ShapeOK'
    BY <1>3, <2>3, <2>4 DEF CallInv, ShapeOK
  <2>6. \A v \in Tickets : TokenKept(v) \/ TokenRead(v)
    BY <1>3, <1>4, <2>4 DEF TokenKept, TokenRead
  <2>7. QED
    BY <1>1, <1>3, <2>5, <2>6, CallsKeepTokens DEF CoordinatorStep, LateFrom
<1>5. CASE tickets'[w].state = "queued"
  <2>1. /\ writers' = [writers EXCEPT ![w].strikes = 0]
        /\ watchdogs' = watchdogs
    BY <1>5, tickets'[w].state # "leased" DEF Poll
  <2> writers' \in [Tickets -> WriterShape]
    BY <2>1, WriterUpdates, 0 \in Int DEF CallInv, ShapeOK
  <2>2. ShapeOK'
    BY <1>3, <2>1 DEF CallInv, ShapeOK
  <2>3. \A v \in Tickets : TokenKept(v)
    BY <2>1 DEF TokenKept, CallInv, ShapeOK, WriterShape
  <2>4. QED
    BY <1>1, <1>3, <2>2, <2>3, CallsKeepTokens DEF CoordinatorStep, LateFrom
<1>6. CASE tickets'[w].state \notin {"leased", "queued"}
  <2>1. Goto(w, "ended") /\ watchdogs' = watchdogs
    BY <1>6 DEF Poll
  <2>2. ShapeOK'
    BY <1>3, <2>1, GotoFacts DEF CallInv, ShapeOK, Phases
  <2>3. \A v \in Tickets : TokenKept(v)
    BY <2>1, GotoFacts DEF TokenKept, CallInv, Phases, Holding
  <2>4. QED
    BY <1>1, <1>3, <2>2, <2>3, CallsKeepTokens DEF CoordinatorStep, LateFrom
<1>7. QED
  BY <1>4, <1>5, <1>6

\* The steps in which a writer moves on, its watchdog as it was.
LEMMA MoveIsStep ==
  ASSUME CallInv, [Next]_vars, NEW w \in Tickets, NEW pc \in Phases, Goto(w, pc),
         pc \in Holding => writers[w].pc \in Holding,
         watchdogs' = watchdogs, branch' \in Seq(Commit),
         \A m \in late' : m.writer \in Tickets
                          /\ (m.kind \in {"heartbeat", "release"} => LateFrom(m))
  PROVE  CoordinatorStep
<1>1. ShapeOK'
  BY GotoFacts DEF CallInv, ShapeOK
<1>2. \A v \in Tickets : TokenKept(v)
  BY GotoFacts DEF TokenKept, CallInv
<1>3. QED
  BY <1>1, <1>2, CallsKeepTokens DEF CoordinatorStep

\* The steps that end a writer and close its watchdog.
LEMMA EndIsStep ==
  ASSUME CallInv, [Next]_vars, NEW w \in Tickets, Goto(w, "ended"),
         NEW ack \in BOOLEAN, CloseWatchdog(w, ack),
         ack \/ writers[w].pc \in Holding \/ watchdogs[w].state \in Watching,
         branch' = branch,
         \A m \in late' : m.writer \in Tickets
                          /\ (m.kind \in {"heartbeat", "release"} => LateFrom(m))
  PROVE  CoordinatorStep
<1>1. ShapeOK'
  BY GotoFacts, CloseFacts DEF CallInv, ShapeOK, Phases
<1>2. \A v \in Tickets : TokenKept(v)
  BY GotoFacts, CloseFacts DEF TokenKept, CallInv, Phases, Holding, Watching
<1>3. QED
  BY <1>1, <1>2, CallsKeepTokens DEF CoordinatorStep

LEMMA WriterIsStep ==
  ASSUME CallInv, NEW w \in Tickets, WriterStep(w)
  PROVE  CoordinatorStep
<1> USE DEF Phases, Holding, Watching
<1> writers[w].pc \in Holding => writers[w].token \in IssuedTokens
  BY DEF CallInv, TokensIssued
<1> ShapeOK /\ branch \in Seq(Commit)
  BY DEF CallInv, ShapeOK
<1> \A m \in late : m.writer \in Tickets /\ LateFrom(m)
  BY DEF CallInv, ShapeOK, LateFrom
<1>1. CASE Start(w)
  BY <1>1, CallsAreSteps, MoveIsStep DEF Start
<1>2. CASE Poll(w)
  BY <1>2, PollIsStep
<1>3. CASE PollLost(w)
  <2>1. [Next]_vars
    BY <1>3, CallsAreSteps DEF PollLost
  <2>2. /\ watchdogs' = watchdogs /\ branch' = branch
        /\ \A m \in late' : m \in late \/ (m.kind = "acquire" /\ m.writer = w)
    BY <1>3 DEF PollLost, LoseAnswer
  <2>3. /\ writers' \in [Tickets -> WriterShape]
        /\ \A v \in Tickets : writers'[v].token = writers[v].token
        /\ \A v \in Tickets : writers'[v].pc \in Holding => writers[v].pc \in Holding
    <3> DEFINE strikes == writers[w].strikes + 1
               pc == IF strikes < COORDINATOR_AMBIGUOUS_REQUEST_LIMIT
                     THEN writers[w].pc ELSE "ended"
               w1 == [writers EXCEPT ![w].strikes = strikes]
               w2 == [w1 EXCEPT ![w].pc = pc]
    <3>1. strikes \in Int /\ pc \in Phases
      BY DEF ShapeOK, WriterShape
    <3>2. writers' = w2
      BY <1>3 DEF PollLost, ShapeOK
    <3>3. w1 \in [Tickets -> WriterShape]
      BY <3>1, WriterUpdates DEF ShapeOK
    <3>4. \A v \in Tickets : w1[v].token = writers[v].token /\ w1[v].pc = writers[v].pc
      BY DEF ShapeOK, WriterShape
    <3> HIDE DEF w1
    <3>5. w2 \in [Tickets -> WriterShape]
      BY <3>1, <3>3, WriterUpdates
    <3>6. \A v \in Tickets : /\ w2[v].token = w1[v].token
                             /\ w2[v].pc \in Holding => w1[v].pc \in Holding
      BY <3>3, <3>4 DEF WriterShape
    <3>7. QED
      BY <3>2, <3>4, <3>5, <3>6
  <2>4. ShapeOK' /\ \A v \in Tickets : TokenKept(v)
    BY <2>2, <2>3 DEF ShapeOK, TokenKept
  <2>5. QED
    BY <2>1, <2>2, <2>4, CallsKeepTokens DEF CoordinatorStep
<1>4. CASE GiveUp(w)
  BY <1>4, CallsAreSteps, MoveIsStep DEF GiveUp
<1>5. CASE Fetch(w)
  <2>1. [Next]_vars
    BY <1>5, CallsAreSteps DEF Fetch
  <2>2. Len(branch) \in Nat
    BY DEF CallInv, ShapeOK
  <2>3. /\ writers' \in [Tickets -> WriterShape]
        /\ \A v \in Tickets : writers'[v].token = writers[v].token
        /\ \A v \in Tickets : writers'[v].pc \in Holding => writers[v].pc \in Holding
    BY ZenonT(60), <1>5, <2>2 DEF Fetch, ShapeOK, WriterShape
  <2>4. ShapeOK' /\ \A v \in Tickets : TokenKept(v)
    BY <1>5, <2>3 DEF ShapeOK, TokenKept, Fetch
  <2>5. QED
    BY <1>5, <2>1, <2>4, CallsKeepTokens DEF CoordinatorStep, Fetch
<1>6. CASE FetchStops(w)
  BY <1>6, CallsAreSteps, MoveIsStep DEF FetchStops
<1>7. CASE AssertActive(w)
  BY <1>7, CallsAreSteps, MoveIsStep DEF AssertActive
<1>8. CASE AssertActiveLost(w)
  BY <1>8, CallsAreSteps, MoveIsStep, LoseAnswerFacts DEF AssertActiveLost, LateFrom
<1>9. CASE Push(w)
  BY <1>9, CallsAreSteps, MoveIsStep, PushedType DEF Push
<1>10. CASE PushLost(w)
  BY <1>10, CallsAreSteps, MoveIsStep, LoseAnswerFacts DEF PushLost, LateFrom
<1>11. CASE ReleaseLease(w)
  <2>1. ReleaseAcknowledged(w, writers[w].token) \in BOOLEAN
    BY DEF ReleaseAcknowledged, Owns
  <2>2. QED
    BY <1>11, <2>1, CallsAreSteps, EndIsStep DEF ReleaseLease
<1>12. CASE ReleaseLost(w)
  <2>1. [Next]_vars /\ branch' = branch /\ Goto(w, "ended") /\ CloseWatchdog(w, FALSE)
    BY <1>12, CallsAreSteps DEF ReleaseLost
  <2>2. \A m \in late' : m.writer \in Tickets /\ LateFrom(m)
    BY <1>12 DEF ReleaseLost, LoseAnswer, LateFrom
  <2>3. QED
    BY <1>12, <2>1, <2>2, EndIsStep DEF ReleaseLost
<1>13. CASE Crash(w)
  <2>1. [Next]_vars /\ branch' = branch /\ Goto(w, "ended")
    BY <1>13, CallsAreSteps DEF Crash
  <2>2. \A m \in late' : m.writer \in Tickets
                         /\ (m.kind \in {"heartbeat", "release"} => LateFrom(m))
    BY <1>13 DEF Crash
  <2>3. \E ack \in BOOLEAN : /\ CloseWatchdog(w, ack)
                             /\ ack \/ watchdogs[w].state \in Watching
    BY <1>13 DEF Crash
  <2>4. QED
    BY <2>1, <2>2, <2>3, EndIsStep
<1>14. QED
  BY <1>1, <1>2, <1>3, <1>4, <1>5, <1>6, <1>7, <1>8, <1>9, <1>10, <1>11, <1>12, <1>13
     DEF WriterStep

LEMMA PublisherIsStep ==
  ASSUME CallInv, [PublisherNext]_publisherVars
  PROVE  CoordinatorStep
<1> USE DEF Phases, Holding, Watching
<1> ShapeOK /\ branch \in Seq(Commit)
  BY DEF CallInv, ShapeOK
<1> \A m \in late : m.writer \in Tickets /\ LateFrom(m)
  BY DEF CallInv, ShapeOK, LateFrom
<1>1. ASSUME NEW w \in Tickets, WriterStep(w)
      PROVE  CoordinatorStep
  BY <1>1, WriterIsStep
<1>2. ASSUME NEW w \in Tickets, Renew(w)
      PROVE  CoordinatorStep
  <2>1. [Next]_vars
    BY <1>2, CallsAreSteps DEF Renew, CallInv, TokensIssued
  <2>2. /\ watchdogs' \in [Tickets ->
                             [state: {"none", "running", "closing", "gone"}, missed: Int]]
        /\ \A v \in Tickets : watchdogs'[v].state = watchdogs[v].state
    BY <1>2 DEF Renew, ShapeOK
  <2>3. ShapeOK' /\ \A v \in Tickets : TokenKept(v)
    BY <1>2, <2>2 DEF Renew, ShapeOK, TokenKept
  <2>4. QED
    BY <1>2, <2>1, <2>3, CallsKeepTokens DEF CoordinatorStep, Renew
<1>3. ASSUME NEW w \in Tickets, WatchdogReleases(w)
      PROVE  CoordinatorStep
  <2>1. [Next]_vars
    BY <1>3, CallsAreSteps DEF WatchdogReleases, CallInv, TokensIssued
  <2>2. /\ watchdogs' \in [Tickets ->
                             [state: {"none", "running", "closing", "gone"}, missed: Int]]
        /\ \A v \in Tickets : watchdogs'[v].state \in {watchdogs[v].state, "gone"}
    BY <1>3 DEF WatchdogReleases, ShapeOK
  <2>3. \A m \in late' : m.writer \in Tickets /\ LateFrom(m)
    BY <1>3 DEF WatchdogReleases, LoseAnswer, LateFrom
  <2>4. ShapeOK' /\ \A v \in Tickets : TokenKept(v)
    BY <1>3, <2>2, <2>3 DEF WatchdogReleases, ShapeOK, TokenKept
  <2>5. QED
    BY <2>1, <2>3, <2>4, CallsKeepTokens DEF CoordinatorStep
<1>4. ASSUME NEW m \in late, Deliver(m)
      PROVE  CoordinatorStep
  <2>1. m.writer \in Tickets
    OBVIOUS
  <2>2. [Next]_vars
    BY <1>4, <2>1, CallsAreSteps DEF Deliver, CallInv, TokensIssued
  <2>3. branch' \in Seq(Commit)
    BY <1>4, <2>1, PushedType DEF Deliver
  <2>4. ShapeOK' /\ \A v \in Tickets : TokenKept(v)
    BY <1>4, <2>3 DEF Deliver, ShapeOK, TokenKept
  <2>5. QED
    BY <1>4, <2>2, <2>4, CallsKeepTokens DEF CoordinatorStep, Deliver
<1>5. CASE OthersRead
  <2>1. ShapeOK' /\ \A v \in Tickets : TokenKept(v)
    BY <1>5 DEF OthersRead, ShapeOK, TokenKept
  <2>2. [Next]_vars
    BY <1>5 DEF OthersRead, Next
  <2>3. QED
    BY <1>5, <2>1, <2>2, CallsKeepTokens DEF CoordinatorStep, OthersRead
<1>6. CASE PublisherTick
  <2>1. /\ Tick /\ UNCHANGED <<writers, branch>>
        /\ late' = {m \in late : m.kind = "push"}
        /\ watchdogs' = [w \in Tickets |->
             IF watchdogs[w].state = "running"
             THEN [watchdogs[w] EXCEPT !.missed = Smaller(@ + 1, LeaseMs)]
             ELSE watchdogs[w]]
    BY <1>6 DEF PublisherTick
  <2>2. \A w \in Tickets : Smaller(watchdogs[w].missed + 1, LeaseMs) \in Int
    BY TimeAssumption DEF Smaller, ShapeOK
  <2>3. /\ watchdogs' \in [Tickets ->
                             [state: {"none", "running", "closing", "gone"}, missed: Int]]
        /\ \A v \in Tickets : watchdogs'[v].state = watchdogs[v].state
    BY <2>1, <2>2 DEF ShapeOK
  <2>4. ShapeOK' /\ \A v \in Tickets : TokenKept(v)
    BY <2>1, <2>3 DEF ShapeOK, TokenKept
  <2>5. [Next]_vars
    BY <2>1 DEF Next
  <2>6. QED
    BY <2>1, <2>4, <2>5, CallsKeepTokens DEF CoordinatorStep
<1>7. CASE UNCHANGED publisherVars
  <2>1. ShapeOK' /\ \A v \in Tickets : TokenKept(v)
    BY <1>7 DEF publisherVars, ShapeOK, TokenKept
  <2>2. UNCHANGED vars /\ late' = late
    BY <1>7 DEF publisherVars, vars
  <2>3. QED
    BY <2>1, <2>2, CallsKeepTokens DEF CoordinatorStep
<1>8. QED
  BY <1>1, <1>2, <1>3, <1>4, <1>5, <1>6, <1>7 DEF PublisherNext

LEMMA CallInvHolds == PublisherSpec => []CallInv /\ [][Next]_vars
<1>1. PublisherInit => Init /\ CallInv
  <2> SUFFICES ASSUME PublisherInit PROVE CallInv
    BY DEF PublisherInit
  <2>1. TypeOK
    BY RowTypes DEF PublisherInit, Init, TypeOK, Meta
  <2>2. ShapeOK
    BY DEF PublisherInit, ShapeOK, WriterShape, Phases, NoToken
  <2>3. TokensIssued
    BY DEF PublisherInit, Init, TokensIssued, NoRow, Holding, Watching
  <2>4. QED
    BY <2>1, <2>2, <2>3 DEF CallInv
<1>2. CallInv /\ [PublisherNext]_publisherVars => CallInv' /\ [Next]_vars
  BY PublisherIsStep DEF CoordinatorStep
<1>3. QED
  BY <1>1, <1>2, PTL DEF PublisherSpec

\* The writers, their watchdogs and requests that arrive late, whatever is lost
\* or crashes, make of the coordinator one of the behaviours of its own
\* specification: they never present a token that was not issued.
THEOREM PublisherImplementsCoordinator == PublisherSpec => Spec
<1>1. PublisherInit => Init
  BY DEF PublisherInit
<1>2. QED
  BY <1>1, CallInvHolds, PTL DEF PublisherSpec, Spec

-----------------------------------------------------------------------------
(* What an owner may believe of the branch.                                *)

\* A push that arrives late is one of a writer past its own push.
LatePushersAreDone ==
  \A m \in late : m.kind = "push" => writers[m.writer].pc \in {"releasing", "ended"}

TipInv == OwnersSeeTheTip /\ LatePushersAreDone

AtTheTip(w) == writers[w].pc \in {"staged", "pushing"} /\ OwnsLease(w)

\* Nobody gets a lease back under the token it had: the writer that owns its
\* lease after a step, and has had it for a while, owned it before.
LEMMA OwnershipIsNotRegained ==
  ASSUME CallInv, [Next]_vars, NEW w \in Tickets,
         writers[w].pc \in Holding, writers'[w].token = writers[w].token, OwnsLease(w)'
  PROVE  OwnsLease(w)
<1>1. TokenStep
  BY TokensAreFresh DEF CallInv
<1>2. writers[w].token \in 1..meta.admitted /\ meta.admitted \in Nat
  BY DEF CallInv, TokensIssued, IssuedTokens, TypeOK, Meta
<1>3. tickets'[w].state = "leased" /\ tickets'[w].token = writers[w].token
  BY DEF OwnsLease, Owns
<1>4. QED
  BY <1>1, <1>2, <1>3 DEF OwnsLease, Owns, TokenStep

\* A step keeps TipInv if it adds no commit of a lease still owned while another
\* writer is at the tip, brings nobody new to the tip except on it, and lets no
\* writer with a late push go back to work.
LEMMA TipIsKept ==
  ASSUME CallInv, CallInv', [Next]_vars, TipInv,
         \A w \in Tickets :
            writers'[w].pc \in {"staged", "pushing"} =>
               \/ /\ writers[w].pc \in {"staged", "pushing"}
                  /\ writers'[w].token = writers[w].token
                  /\ writers'[w].base = writers[w].base
               \/ writers'[w].base = Len(branch'),
         \/ branch' = branch
         \/ \E v \in Tickets : /\ branch' = Pushed(v)
                               /\ writers'[v].pc \notin {"staged", "pushing"}
                               /\ UNCHANGED vars,
         OneActiveLease
  PROVE  OwnersSeeTheTip'
<1> SUFFICES ASSUME NEW w \in Tickets,
                    writers'[w].pc \in {"staged", "pushing"}, OwnsLease(w)',
                    NEW i \in (writers'[w].base + 1)..Len(branch')
             PROVE  ~branch'[i].owned
  BY DEF OwnersSeeTheTip
<1>1. /\ branch \in Seq(Commit) /\ branch' \in Seq(Commit)
      /\ writers[w].base \in Nat /\ writers'[w].base \in Nat
  BY DEF CallInv, ShapeOK, WriterShape
<1>2. /\ writers[w].pc \in {"staged", "pushing"}
      /\ writers'[w].token = writers[w].token
      /\ writers'[w].base = writers[w].base
  <2>1. writers'[w].base # Len(branch')
    BY <1>1
  <2>2. QED
    BY <2>1
<1>3. OwnsLease(w)
  BY <1>2, OwnershipIsNotRegained DEF Holding
<1>4. \A j \in (writers[w].base + 1)..Len(branch) : ~branch[j].owned
  BY <1>2, <1>3 DEF TipInv, OwnersSeeTheTip
<1>5. CASE branch' = branch
  BY <1>2, <1>4, <1>5
<1>6. ASSUME NEW v \in Tickets, branch' = Pushed(v), v # w
      PROVE  ~branch'[i].owned
  <2>1. ~OwnsLease(v)
    BY <1>3, <1>6 DEF OwnsLease, Owns, OneActiveLease
  <2>2. CASE i \in 1..Len(branch)
    <3>1. branch'[i] = branch[i]
      BY <1>1, <1>6, <2>2 DEF Pushed
    <3>2. QED
      BY <1>1, <1>2, <1>4, <2>2, <3>1
  <2>3. CASE i = Len(branch) + 1
    <3>1. branch'[i] = [writer |-> v, owned |-> OwnsLease(v)]
      BY <1>1, <1>6, <2>3 DEF Pushed
    <3>2. QED
      BY <2>1, <3>1
  <2>4. Len(branch') = Len(branch) + 1
    BY <1>1, <1>6 DEF Pushed
  <2>5. QED
    BY <1>1, <2>2, <2>3, <2>4
<1>7. QED
  BY <1>5, <1>6

\* What a step does to the writers, as far as TipIsKept asks.
WritersKeepTheirBase ==
  \A w \in Tickets :
    writers'[w].pc \in {"staged", "pushing"} =>
      \/ /\ writers[w].pc \in {"staged", "pushing"}
         /\ writers'[w].token = writers[w].token
         /\ writers'[w].base = writers[w].base
      \/ writers'[w].base = Len(branch')

CommitAdded ==
  \/ branch' = branch
  \/ \E v \in Tickets : /\ branch' = Pushed(v)
                        /\ writers'[v].pc \notin {"staged", "pushing"}
                        /\ UNCHANGED vars

TipStep == WritersKeepTheirBase /\ CommitAdded /\ LatePushersAreDone'

\* A step that only moves one writer on, and makes late at most its own push.
LEMMA MoveKeepsTip ==
  ASSUME CallInv, TipInv, NEW w \in Tickets, NEW pc \in Phases, Goto(w, pc),
         pc \in {"staged", "pushing"} => writers[w].pc \in {"staged", "pushing"},
         writers[w].pc \in {"releasing", "ended"} => pc \in {"releasing", "ended"},
         \A m \in late' : m.kind = "push" =>
            m \in late \/ (m.writer = w /\ pc \in {"releasing", "ended"})
  PROVE  WritersKeepTheirBase /\ LatePushersAreDone'
<1>1. /\ writers'[w].pc = pc
      /\ \A v \in Tickets : writers'[v].token = writers[v].token
                            /\ writers'[v].base = writers[v].base
      /\ \A v \in Tickets : v # w => writers'[v] = writers[v]
  BY GotoFacts DEF CallInv
<1>2. WritersKeepTheirBase
  BY <1>1 DEF WritersKeepTheirBase
<1>3. \A m \in late : m.writer \in Tickets
  BY DEF CallInv, ShapeOK
<1>4. LatePushersAreDone'
  BY <1>1, <1>3 DEF TipInv, LatePushersAreDone
<1>5. QED
  BY <1>2, <1>4

\* A step that changes neither the writers nor, but for its end, the late requests.
LEMMA StayKeepsTip ==
  ASSUME TipInv, writers' = writers,
         \A m \in late' : m.kind = "push" => m \in late
  PROVE  WritersKeepTheirBase /\ LatePushersAreDone'
  BY DEF TipInv, WritersKeepTheirBase, LatePushersAreDone

LEMMA WriterKeepsTip ==
  ASSUME CallInv, TipInv, NEW w \in Tickets, WriterStep(w)
  PROVE  TipStep
<1> USE DEF Phases, TipStep, CommitAdded
<1>1. CASE Start(w)
  BY <1>1, MoveKeepsTip DEF Start
<1>2. CASE Poll(w)
  <2>1. /\ late' = late /\ branch' = branch /\ writers[w].pc = "polling"
        /\ \A v \in Tickets : v # w => writers'[v] = writers[v]
    BY <1>2 DEF Poll, Goto, CallInv, ShapeOK, WriterShape
  <2> writers'[w].pc \notin {"staged", "pushing"}
    <3>1. writers \in [Tickets -> WriterShape]
      BY DEF CallInv, ShapeOK
    <3>2. CASE tickets'[w].state = "leased"
      <4>1. writers' = [writers EXCEPT ![w].pc = "leased",
                                       ![w].token = tickets'[w].token,
                                       ![w].strikes = 0]
        BY <1>2, <3>2 DEF Poll
      <4>2. writers'[w].pc = "leased"
        BY <3>1, <4>1 DEF WriterShape
      <4>3. QED
        BY <4>2
    <3>3. CASE tickets'[w].state = "queued"
      <4>1. writers' = [writers EXCEPT ![w].strikes = 0]
        BY <1>2, <3>3, tickets'[w].state # "leased" DEF Poll
      <4>2. QED
        BY <2>1, <3>1, <4>1 DEF WriterShape
    <3>4. CASE tickets'[w].state \notin {"leased", "queued"}
      <4>1. Goto(w, "ended")
        BY <1>2, <3>4 DEF Poll
      <4>2. QED
        BY <4>1, GotoFacts DEF CallInv
    <3>5. QED
      BY <3>2, <3>3, <3>4
  <2>2. WritersKeepTheirBase
    BY <2>1 DEF WritersKeepTheirBase
  <2>3. LatePushersAreDone'
    BY <2>1 DEF TipInv, LatePushersAreDone, CallInv, ShapeOK
  <2>4. QED
    BY <2>1, <2>2, <2>3
<1>3. CASE PollLost(w)
  <2>1. /\ branch' = branch /\ writers[w].pc = "polling"
        /\ \A m \in late' : m \in late \/ m.kind = "acquire"
    BY <1>3 DEF PollLost, LoseAnswer
  <2>2. /\ writers'[w].pc \in {"polling", "ended"}
        /\ \A v \in Tickets : v # w => writers'[v] = writers[v]
    BY <1>3 DEF PollLost, CallInv, ShapeOK, WriterShape
  <2>3. WritersKeepTheirBase
    BY <2>2 DEF WritersKeepTheirBase
  <2>4. LatePushersAreDone'
    BY <2>1, <2>2 DEF TipInv, LatePushersAreDone, CallInv, ShapeOK
  <2>5. QED
    BY <2>1, <2>3, <2>4
<1>4. CASE GiveUp(w)
  BY <1>4, MoveKeepsTip DEF GiveUp
<1>5. CASE Fetch(w)
  <2>1. /\ late' = late /\ branch' = branch /\ writers[w].pc = "leased"
        /\ writers'[w].base = Len(branch)
        /\ \A v \in Tickets : v # w => writers'[v] = writers[v]
    BY <1>5 DEF Fetch, CallInv, ShapeOK, WriterShape
  <2>2. WritersKeepTheirBase
    BY <2>1 DEF WritersKeepTheirBase
  <2>3. LatePushersAreDone'
    BY <2>1 DEF TipInv, LatePushersAreDone, CallInv, ShapeOK
  <2>4. QED
    BY <2>1, <2>2, <2>3
<1>6. CASE FetchStops(w)
  BY <1>6, MoveKeepsTip DEF FetchStops
<1>7. CASE AssertActive(w)
  BY <1>7, MoveKeepsTip DEF AssertActive
<1>8. CASE AssertActiveLost(w)
  <2>1. \A m \in late' : m \in late \/ m.kind = "heartbeat"
    BY <1>8 DEF AssertActiveLost, LoseAnswer
  <2>2. QED
    BY <1>8, <2>1, MoveKeepsTip DEF AssertActiveLost
<1>9. CASE Push(w)
  <2>1. WritersKeepTheirBase /\ LatePushersAreDone'
    BY <1>9, MoveKeepsTip DEF Push
  <2>2. CommitAdded
    BY <1>9, GotoFacts DEF Push, CallInv
  <2>3. QED
    BY <2>1, <2>2
<1>10. CASE PushLost(w)
  <2>1. \A m \in late' : m \in late \/ m.writer = w
    BY <1>10 DEF PushLost, LoseAnswer
  <2>2. QED
    BY <1>10, <2>1, MoveKeepsTip DEF PushLost
<1>11. CASE ReleaseLease(w)
  BY <1>11, MoveKeepsTip DEF ReleaseLease
<1>12. CASE ReleaseLost(w)
  <2>1. \A m \in late' : m \in late \/ m.kind = "release"
    BY <1>12 DEF ReleaseLost, LoseAnswer
  <2>2. QED
    BY <1>12, <2>1, MoveKeepsTip DEF ReleaseLost
<1>13. CASE Crash(w)
  <2>1. \A m \in late' : m \in late \/ m.writer = w
    BY <1>13 DEF Crash
  <2>2. QED
    BY <1>13, <2>1, MoveKeepsTip DEF Crash
<1>14. QED
  BY <1>1, <1>2, <1>3, <1>4, <1>5, <1>6, <1>7, <1>8, <1>9, <1>10, <1>11, <1>12, <1>13
     DEF WriterStep

LEMMA PublisherKeepsTip ==
  ASSUME CallInv, TipInv, [PublisherNext]_publisherVars
  PROVE  TipStep
<1> USE DEF TipStep, CommitAdded
<1>1. ASSUME NEW w \in Tickets, WriterStep(w)
      PROVE  TipStep
  BY <1>1, WriterKeepsTip
<1>2. ASSUME NEW w \in Tickets, Renew(w)
      PROVE  TipStep
  BY <1>2, StayKeepsTip DEF Renew
<1>3. ASSUME NEW w \in Tickets, WatchdogReleases(w)
      PROVE  TipStep
  <2>1. \A m \in late' : m \in late \/ m.kind = "release"
    BY <1>3 DEF WatchdogReleases, LoseAnswer
  <2>2. QED
    BY <1>3, <2>1, StayKeepsTip DEF WatchdogReleases
<1>4. ASSUME NEW m \in late, Deliver(m)
      PROVE  TipStep
  <2>1. WritersKeepTheirBase /\ LatePushersAreDone'
    BY <1>4, StayKeepsTip DEF Deliver
  <2>2. CommitAdded
    <3>1. m.writer \in Tickets
      BY DEF CallInv, ShapeOK
    <3>2. CASE m.kind = "push"
      BY <1>4, <3>1, <3>2 DEF Deliver, TipInv, LatePushersAreDone
    <3>3. CASE m.kind # "push"
      BY <1>4, <3>3 DEF Deliver
    <3>4. QED
      BY <3>2, <3>3
  <2>3. QED
    BY <2>1, <2>2
<1>5. CASE OthersRead
  BY <1>5, StayKeepsTip DEF OthersRead
<1>6. CASE PublisherTick
  BY <1>6, StayKeepsTip DEF PublisherTick
<1>7. CASE UNCHANGED publisherVars
  BY <1>7, StayKeepsTip DEF publisherVars
<1>8. QED
  BY <1>1, <1>2, <1>3, <1>4, <1>5, <1>6, <1>7 DEF PublisherNext

\* While a writer owns its lease, what it fetched stays the tip of the branch but
\* for pushes that outlived their own lease: two writers are never both owners,
\* and a lease that was lost does not come back under the token it had.
THEOREM OwnersKnowTheTip == PublisherSpec => []OwnersSeeTheTip
<1>1. PublisherInit => TipInv
  BY DEF PublisherInit, TipInv, OwnersSeeTheTip, LatePushersAreDone
<1>2. /\ CallInv /\ [Next]_vars /\ CallInv' /\ OneActiveLease
      /\ TipInv /\ [PublisherNext]_publisherVars
      => TipInv'
  <2> SUFFICES ASSUME CallInv, [Next]_vars, CallInv', OneActiveLease,
                      TipInv, [PublisherNext]_publisherVars
               PROVE  TipInv'
    OBVIOUS
  <2>1. TipStep
    BY PublisherKeepsTip
  <2>2. OwnersSeeTheTip'
    BY <2>1, TipIsKept DEF TipStep, WritersKeepTheirBase, CommitAdded
  <2>3. QED
    BY <2>1, <2>2 DEF TipInv, TipStep
<1>3. PublisherSpec => []OneActiveLease
  BY PublisherImplementsCoordinator, ExclusiveLeases, PTL
<1>4. TipInv => OwnersSeeTheTip
  BY DEF TipInv
<1>5. QED
  BY <1>1, <1>2, <1>3, <1>4, CallInvHolds, PTL DEF PublisherSpec

-----------------------------------------------------------------------------
(* The watchdog.                                                               *)

\* A lease runs for no longer than a renewal gives it, and its deadline is not past.
Timely(r) == r.state = "leased" => r.expiresIn <= LeaseMs /\ r.deadlineIn >= 0

LeaseTimes == \A t \in Tickets : Timely(tickets[t])

LEMMA RowTimes ==
  ASSUME NEW r \in Row, Timely(r)
  PROVE  /\ Timely(TickedRow(r))
         /\ r.state = "leased" => Timely(RenewedRow(r))
         /\ \A k \in Nat : Timely(LeasedRow(r, k))
<1>1. r.state = "leased" => Timely(RenewedRow(r))
  BY TimeAssumption DEF Timely, RenewedRow, Smaller, Row
<1>2. ASSUME NEW k \in Nat PROVE Timely(LeasedRow(r, k))
  BY TimeAssumption DEF Timely, LeasedRow, Smaller, Row
<1>3. Timely(TickedRow(r))
  <2>1. CASE r.state = "leased"
    <3>1. /\ TickedRow(r).expiresIn = CountedDown(r.expiresIn)
          /\ TickedRow(r).deadlineIn = CountedDown(r.deadlineIn)
      BY <2>1 DEF TickedRow, Terminal, Row
    <3>2. QED
      BY <2>1, <3>1, TimeAssumption DEF Timely, CountedDown, Row
  <2>2. CASE r.state # "leased"
    BY <2>2 DEF Timely, TickedRow, Terminal, Row
  <2>3. QED
    BY <2>1, <2>2
<1>4. QED
  BY <1>1, <1>2, <1>3

\* No operation leaves a lease that runs too long, or past its deadline.
LEMMA LeaseTimesStep ==
  ASSUME TypeOK, LeaseTimes, [Next]_vars
  PROVE  LeaseTimes'
<1>1. /\ ReclaimedAndPruned \in [Tickets -> Row]
      /\ \A t \in Tickets : Timely(ReclaimedAndPruned[t])
  BY ReclaimFacts DEF LeaseTimes, Timely
<1>2. ASSUME NEW t \in Tickets, Acquire(t)
      PROVE  LeaseTimes'
  <2> DEFINE seen == SeenTable(t)
             token == meta.admitted + 1
  <2>1. seen \in [Tickets -> Row] /\ \A u \in Tickets : Timely(seen[u])
    BY SeenFacts DEF LeaseTimes, Timely
  <2>2. token \in Nat
    BY DEF TypeOK, Meta
  <2>3. tickets' \in {seen, [seen EXCEPT ![t] = LeasedRow(@, token)]}
    BY <1>2 DEF Acquire
  <2> HIDE DEF seen, token
  <2>4. Timely(LeasedRow(seen[t], token))
    BY <2>1, <2>2, RowTimes
  <2>5. QED
    BY <2>1, <2>3, <2>4 DEF LeaseTimes
<1>3. ASSUME NEW t \in Tickets, NEW k \in 1..meta.admitted, Heartbeat(t, k)
      PROVE  LeaseTimes'
  <2>1. ReclaimedAndPruned[t].state = "leased" => Timely(RenewedRow(ReclaimedAndPruned[t]))
    BY <1>1, RowTimes
  <2>2. QED
    BY <1>1, <1>3, <2>1 DEF Heartbeat, Owns, LeaseTimes
<1>4. ASSUME NEW t \in Tickets, NEW k \in 1..meta.admitted, Release(t, k)
      PROVE  LeaseTimes'
  <2>1. Timely(CompletedRow(ReclaimedAndPruned[t]))
    BY <1>1 DEF CompletedRow, Row, Timely
  <2>2. QED
    BY <1>1, <1>4, <2>1 DEF Release, LeaseTimes
<1>5. CASE Stats
  BY <1>1, <1>5 DEF Stats, LeaseTimes
<1>6. CASE Tick
  BY <1>6, RowTimes DEF Tick, LeaseTimes, TypeOK
<1>7. CASE UNCHANGED vars
  BY <1>7 DEF vars, LeaseTimes
<1>8. QED
  BY <1>2, <1>3, <1>4, <1>5, <1>6, <1>7 DEF Next

\* A call leaves a lease that is not over as it was, or renews it, and never sets
\* a deadline that has passed back.
RowHeld(w) ==
  /\ tickets[w].deadlineIn = 0 => tickets'[w].deadlineIn = 0
  /\ tickets[w].state = "leased" /\ ~Reclaimable(tickets[w]) =>
       tickets'[w] = tickets[w] \/ tickets'[w] = RenewedRow(tickets[w])

\* So does every call but another acquire or the release of the ticket itself.
LEMMA CallsHold ==
  ASSUME TypeOK, NEW w \in Tickets
  PROVE  /\ \A t \in Tickets, k \in Nat : Heartbeat(t, k) => RowHeld(w)
         /\ \A t \in Tickets \ {w}, k \in Nat : Release(t, k) => RowHeld(w)
         /\ \A t \in Tickets \ {w} : Acquire(t) => RowHeld(w)
         /\ Stats => RowHeld(w)
         /\ UNCHANGED vars => RowHeld(w)
         /\ Acquire(w) /\ tickets[w].state = "leased" /\ ~Reclaimable(tickets[w])
              => tickets'[w] = tickets[w]
<1> DEFINE tb == ReclaimedAndPruned
<1>1. tb \in [Tickets -> Row] /\ tickets[w] \in Row
  BY ReclaimFacts DEF TypeOK
<1>2. tickets[w].deadlineIn = 0 => tb[w].deadlineIn = 0
  BY <1>1 DEF ReclaimedAndPruned, ReclaimedRow, NoRow, Row
<1>3. tickets[w].state = "leased" /\ ~Reclaimable(tickets[w]) => tb[w] = tickets[w]
  BY <1>1 DEF ReclaimedAndPruned, ReclaimedRow, Pruned, DueForPrune, Terminal
<1> HIDE DEF tb
<1>4. tickets'[w] = tb[w] => RowHeld(w)
  BY <1>2, <1>3 DEF RowHeld
<1>5. ASSUME NEW t \in Tickets, NEW k \in Nat, Heartbeat(t, k)
      PROVE  RowHeld(w)
  <2>1. tickets' = IF Owns(tb, t, k) THEN [tb EXCEPT ![t] = RenewedRow(@)] ELSE tb
    BY <1>5 DEF Heartbeat, tb
  <2>2. RenewedRow(tb[w]).deadlineIn = tb[w].deadlineIn
    BY <1>1 DEF RenewedRow, Row
  <2>3. tickets'[w] = tb[w] \/ tickets'[w] = RenewedRow(tb[w])
    BY <1>1, <2>1
  <2>4. QED
    BY <1>2, <1>3, <2>2, <2>3 DEF RowHeld
<1>6. ASSUME NEW t \in Tickets \ {w}, NEW k \in Nat, Release(t, k)
      PROVE  RowHeld(w)
  <2>1. tickets' \in {tb, [tb EXCEPT ![t] = CompletedRow(@)]}
    BY <1>6 DEF Release, tb
  <2>2. QED
    BY <1>1, <1>4, <2>1
<1>7. ASSUME NEW t \in Tickets, Acquire(t)
      PROVE  /\ t # w => tickets'[w] = tb[w]
             /\ t = w /\ tb[w].state = "leased" => tickets'[w] = tb[w]
  <2> DEFINE seen == SeenTable(t)
             token == meta.admitted + 1
  <2>1. /\ tickets' = IF Admits(t, seen, ReclaimedMeta)
                      THEN [seen EXCEPT ![t] = LeasedRow(@, token)] ELSE seen
    BY <1>7 DEF Acquire
  <2>2. seen \in [Tickets -> Row]
    BY SeenFacts
  <2>3. t # w => seen[w] = tb[w]
    BY <1>1 DEF SeenTable, tb
  <2>4. t = w /\ tb[w].state = "leased" => seen[w] = tb[w]
    BY <1>1 DEF SeenTable, tb
  <2>5. Admits(t, seen, ReclaimedMeta) => seen[t].state = "queued"
    BY DEF Admits
  <2> HIDE DEF seen, token
  <2>6. QED
    BY <2>1, <2>2, <2>3, <2>4, <2>5
<1>8. Stats => tickets'[w] = tb[w]
  BY DEF Stats, tb
<1>9. UNCHANGED vars => RowHeld(w)
  BY DEF vars, RowHeld
<1>10. \A t \in Tickets \ {w} : Acquire(t) => RowHeld(w)
  BY <1>4, <1>7
<1>11. Acquire(w) /\ tickets[w].state = "leased" /\ ~Reclaimable(tickets[w])
         => tickets'[w] = tickets[w]
  BY <1>3, <1>7
<1>12. QED
  BY <1>4, <1>5, <1>6, <1>8, <1>9, <1>10, <1>11

\* The lease of w is its own, and has as long to go as the missed renewals leave it.
Renewed(w) ==
  /\ OwnsLease(w)
  /\ tickets[w].expiresIn >= Smaller(LeaseMs - watchdogs[w].missed, tickets[w].deadlineIn)

\* While a watchdog runs, its writer holds on, none of its releases is on the way,
\* and none of its polls that could lease the ticket once more.
Watched(w) ==
  /\ writers[w].pc \in Holding /\ watchdogs[w].missed \in Nat
  /\ \A m \in late : m.writer = w => m.kind # "release"
  /\ watchdogs[w].missed < LeaseMs =>
       /\ tickets[w].deadlineIn = 0 \/ Renewed(w)
       /\ \A m \in late : m.writer = w /\ m.kind = "acquire" => tickets[w].deadlineIn > 0

\* A writer that has no lease yet has no watchdog, and sent no release.
Unwatched(w) ==
  watchdogs[w].state = "none" /\ \A m \in late : m.writer = w => m.kind # "release"

WatchInv ==
  /\ LeaseTimes
  /\ \A w \in Tickets : watchdogs[w].state = "running" => Watched(w)
  /\ \A w \in Tickets : writers[w].pc \in {"idle", "polling"} => Unwatched(w)

\* A lease that was renewed in time is not over before its deadline.
LEMMA RenewedIsNotOver ==
  ASSUME TypeOK, WatchInv, NEW w \in Tickets, watchdogs[w].state = "running",
         watchdogs[w].missed < LeaseMs, tickets[w].deadlineIn # 0
  PROVE  /\ Renewed(w) /\ tickets[w].deadlineIn > 0
         /\ tickets[w].state = "leased" /\ ~Reclaimable(tickets[w])
<1>1. /\ Renewed(w) /\ tickets[w].state = "leased"
      /\ tickets[w].deadlineIn >= 0 /\ tickets[w] \in Row /\ watchdogs[w].missed \in Nat
  BY DEF WatchInv, Watched, Renewed, OwnsLease, Owns, LeaseTimes, Timely, TypeOK
<1>2. tickets[w].deadlineIn > 0 /\ tickets[w].expiresIn \in Int /\ tickets[w].deadlineIn \in Int
  BY <1>1 DEF Row
<1>3. tickets[w].expiresIn > 0
  BY <1>1, <1>2, TimeAssumption DEF Renewed, Smaller
<1>4. QED
  BY <1>1, <1>2, <1>3 DEF Reclaimable

\* A call that holds the row, in a step that leaves the watchdog of w alone.
LEMMA WatchKept ==
  ASSUME CallInv, WatchInv, NEW w \in Tickets, watchdogs[w].state = "running",
         watchdogs'[w] = watchdogs[w], writers'[w].token = writers[w].token,
         writers'[w].pc \in Holding,
         watchdogs[w].missed < LeaseMs => RowHeld(w),
         \A m \in late' : m.writer = w /\ m.kind \in {"acquire", "release"} => m \in late
  PROVE  Watched(w)'
<1>1. Watched(w) /\ TypeOK
  BY DEF WatchInv, CallInv
<1>2. \A m \in late' : m.writer = w => m.kind # "release"
  BY <1>1 DEF Watched
<1>3. ASSUME watchdogs[w].missed < LeaseMs
      PROVE  /\ tickets'[w].deadlineIn = 0 \/ Renewed(w)'
             /\ tickets[w].deadlineIn > 0 => tickets'[w].deadlineIn > 0
  <2>1. CASE tickets[w].deadlineIn = 0
    BY <1>3, <2>1 DEF RowHeld
  <2>2. CASE tickets[w].deadlineIn # 0
    <3>1. /\ Renewed(w) /\ tickets[w].deadlineIn > 0
          /\ tickets'[w] = tickets[w] \/ tickets'[w] = RenewedRow(tickets[w])
      BY <1>1, <1>3, <2>2, RenewedIsNotOver DEF RowHeld
    <3>2. tickets[w] \in Row
      BY <1>1 DEF TypeOK
    <3>3. /\ RenewedRow(tickets[w]).deadlineIn = tickets[w].deadlineIn
          /\ RenewedRow(tickets[w]).state = tickets[w].state
          /\ RenewedRow(tickets[w]).token = tickets[w].token
          /\ RenewedRow(tickets[w]).expiresIn = Smaller(LeaseMs, tickets[w].deadlineIn)
      BY <3>2 DEF RenewedRow, Row
    <3>4. Smaller(LeaseMs, tickets[w].deadlineIn)
            >= Smaller(LeaseMs - watchdogs[w].missed, tickets[w].deadlineIn)
      BY <1>1, <3>2, TimeAssumption DEF Watched, Smaller, Row
    <3>5. QED
      BY <3>1, <3>3, <3>4 DEF Renewed, OwnsLease, Owns
  <2>3. QED
    BY <2>1, <2>2
<1>4. QED
  BY <1>1, <1>2, <1>3 DEF Watched

\* A poll that is answered with a lease is answered with one that is not over.
LEMMA LeaseGranted ==
  ASSUME TypeOK, NEW w \in Tickets, Acquire(w), tickets'[w].state = "leased"
  PROVE  tickets'[w].deadlineIn > 0
<1> DEFINE seen == SeenTable(w)
           token == meta.admitted + 1
<1>1. tickets' = IF Admits(w, seen, ReclaimedMeta)
                 THEN [seen EXCEPT ![w] = LeasedRow(@, token)] ELSE seen
  BY DEF Acquire
<1>2. seen \in [Tickets -> Row]
  BY SeenFacts
<1>3. ASSUME seen[w].state = "leased"
      PROVE  seen[w].deadlineIn > 0
  <2>1. ReclaimedAndPruned \in [Tickets -> Row] /\ tickets[w] \in Row
    BY ReclaimFacts DEF TypeOK
  <2>2. seen[w] = ReclaimedAndPruned[w] /\ ReclaimedAndPruned[w].state = "leased"
    BY <1>3, <2>1 DEF SeenTable, InsertedRow, NoRow, Row
  <2>3. seen[w] = tickets[w] /\ ~Reclaimable(tickets[w])
    BY <1>3, <2>1, <2>2 DEF ReclaimedAndPruned, ReclaimedRow, NoRow, Row
  <2>4. QED
    BY <1>3, <2>1, <2>3 DEF Reclaimable, Row
<1>4. LeasedRow(seen[w], token).deadlineIn > 0
  BY <1>2, TimeAssumption DEF LeasedRow, Row
<1> HIDE DEF seen, token
<1>5. QED
  BY <1>1, <1>2, <1>3, <1>4

\* Nor does a step that leaves a writer without a lease give it a watchdog.
LEMMA UnwatchedKept ==
  ASSUME WatchInv, NEW w \in Tickets, writers[w].pc \in {"idle", "polling"},
         watchdogs'[w] = watchdogs[w],
         \A m \in late' : m.writer = w /\ m.kind = "release" => m \in late
  PROVE  Unwatched(w)'
  BY DEF WatchInv, Unwatched

WatchStep(w) ==
  /\ watchdogs'[w].state = "running" => Watched(w)'
  /\ writers'[w].pc \in {"idle", "polling"} => Unwatched(w)'

LEMMA PollWatched ==
  ASSUME CallInv, CallInv', WatchInv, LeaseTimes', NEW w \in Tickets, Poll(w)
  PROVE  WatchStep(w)
<1> TypeOK /\ ShapeOK
  BY DEF CallInv
<1>1. writers[w].pc = "polling" /\ Acquire(w) /\ UNCHANGED late
  BY DEF Poll
<1>2. Unwatched(w)
  BY <1>1 DEF WatchInv
<1>3. CASE tickets'[w].state = "leased"
  <2>1. /\ writers' = [writers EXCEPT ![w].pc = "leased",
                                      ![w].token = tickets'[w].token,
                                      ![w].strikes = 0]
        /\ watchdogs' = [watchdogs EXCEPT ![w] =
             [state |-> "running", missed |-> LeaseMs - tickets'[w].expiresIn]]
    BY <1>3 DEF Poll
  <2>2. writers'[w].pc = "leased" /\ writers'[w].token = tickets'[w].token
    BY <2>1 DEF ShapeOK, WriterShape
  <2>3. watchdogs'[w].missed = LeaseMs - tickets'[w].expiresIn
    BY <2>1 DEF ShapeOK
  <2>4. tickets'[w] \in Row /\ Timely(tickets'[w])
    BY DEF CallInv, TypeOK, LeaseTimes
  <2>5. watchdogs'[w].missed \in Nat
    BY <1>3, <2>3, <2>4, TimeAssumption DEF Timely, Row
  <2>6. tickets'[w].expiresIn >= Smaller(LeaseMs - watchdogs'[w].missed, tickets'[w].deadlineIn)
    BY <2>3, <2>4, TimeAssumption DEF Smaller, Row
  <2>7. Renewed(w)'
    BY <1>3, <2>2, <2>6 DEF Renewed, OwnsLease, Owns
  <2>8. tickets'[w].deadlineIn > 0
    BY <1>1, <1>3, LeaseGranted
  <2>9. \A m \in late' : m.writer = w => m.kind # "release"
    BY <1>1, <1>2 DEF Unwatched
  <2>10. QED
    BY <2>2, <2>5, <2>7, <2>8, <2>9 DEF Watched, WatchStep, Holding
<1>4. CASE tickets'[w].state # "leased"
  <2>1. watchdogs' = watchdogs
    BY <1>4 DEF Poll
  <2>2. Unwatched(w)'
    BY <1>1, <1>2, <2>1 DEF Unwatched
  <2>3. QED
    BY <1>2, <2>1, <2>2 DEF WatchStep, Unwatched
<1>5. QED
  BY <1>3, <1>4

\* The steps of a writer that has its lease and goes on.
LEMMA HolderWatched ==
  ASSUME CallInv, WatchInv, NEW w \in Tickets, NEW pc \in Holding, writers[w].pc \in Holding,
         writers'[w].pc = pc, writers'[w].token = writers[w].token, watchdogs' = watchdogs,
         RowHeld(w), \A m \in late' : m.kind \in {"acquire", "release"} => m \in late
  PROVE  WatchStep(w)
<1>1. watchdogs'[w].state = "running" => Watched(w)'
  BY WatchKept
<1>2. QED
  BY <1>1 DEF WatchStep, Holding

LEMMA WriterWatched ==
  ASSUME CallInv, CallInv', WatchInv, LeaseTimes', NEW w \in Tickets, WriterStep(w)
  PROVE  WatchStep(w)
<1> USE DEF Phases, Holding
<1> TypeOK /\ ShapeOK
  BY DEF CallInv
<1> writers[w].token \in Nat
  BY DEF ShapeOK, WriterShape
<1>1. CASE Start(w)
  <2>1. writers'[w].pc = "polling" /\ writers[w].pc = "idle" /\ UNCHANGED <<watchdogs, late>>
    BY <1>1, GotoFacts DEF Start
  <2>2. Unwatched(w) /\ Unwatched(w)'
    BY <2>1 DEF WatchInv, Unwatched
  <2>3. QED
    BY <2>1, <2>2 DEF WatchStep, Unwatched
<1>2. CASE Poll(w)
  BY <1>2, PollWatched
<1>3. CASE PollLost(w)
  <2>1. writers[w].pc = "polling" /\ watchdogs' = watchdogs
        /\ \A m \in late' : m \in late \/ m.kind = "acquire"
    BY <1>3 DEF PollLost, LoseAnswer
  <2>2. Unwatched(w) /\ Unwatched(w)'
    BY <2>1 DEF WatchInv, Unwatched
  <2>3. QED
    BY <2>1, <2>2 DEF WatchStep, Unwatched
<1>4. CASE GiveUp(w)
  <2>1. writers'[w].pc = "ended" /\ writers[w].pc = "polling" /\ UNCHANGED <<watchdogs, late>>
    BY <1>4, GotoFacts DEF GiveUp
  <2>2. Unwatched(w) /\ Unwatched(w)'
    BY <2>1 DEF WatchInv, Unwatched
  <2>3. QED
    BY <2>1, <2>2 DEF WatchStep, Unwatched
<1>5. CASE Fetch(w)
  <2>1. /\ writers[w].pc \in Holding /\ writers'[w].pc = "staged"
        /\ writers'[w].token = writers[w].token /\ UNCHANGED <<watchdogs, late, vars>>
    BY <1>5 DEF Fetch, ShapeOK, WriterShape
  <2>2. RowHeld(w)
    BY <2>1, CallsHold
  <2>3. QED
    BY <2>1, <2>2, HolderWatched
<1>6. CASE FetchStops(w)
  <2>1. /\ writers[w].pc \in Holding /\ writers'[w].pc = "releasing"
        /\ writers'[w].token = writers[w].token /\ UNCHANGED <<watchdogs, late, vars>>
    BY <1>6, GotoFacts DEF FetchStops
  <2>2. RowHeld(w)
    BY <2>1, CallsHold
  <2>3. QED
    BY <2>1, <2>2, HolderWatched
<1>7. CASE AssertActive(w)
  <2>1. /\ writers[w].pc \in Holding /\ writers'[w].pc \in Holding
        /\ writers'[w].token = writers[w].token /\ UNCHANGED <<watchdogs, late>>
    BY <1>7, GotoFacts DEF AssertActive
  <2>2. RowHeld(w)
    BY <1>7, CallsHold DEF AssertActive
  <2>3. QED
    BY <2>1, <2>2, HolderWatched
<1>8. CASE AssertActiveLost(w)
  <2>1. /\ writers[w].pc \in Holding /\ writers'[w].pc = "releasing"
        /\ writers'[w].token = writers[w].token /\ UNCHANGED <<watchdogs, vars>>
        /\ \A m \in late' : m.kind \in {"acquire", "release"} => m \in late
    BY <1>8, GotoFacts DEF AssertActiveLost, LoseAnswer
  <2>2. RowHeld(w)
    BY <2>1, CallsHold
  <2>3. QED
    BY <2>1, <2>2, HolderWatched
<1>9. CASE Push(w)
  <2>1. /\ writers[w].pc \in Holding /\ writers'[w].pc = "releasing"
        /\ writers'[w].token = writers[w].token /\ UNCHANGED <<watchdogs, late, vars>>
    BY <1>9, GotoFacts DEF Push
  <2>2. RowHeld(w)
    BY <2>1, CallsHold
  <2>3. QED
    BY <2>1, <2>2, HolderWatched
<1>10. CASE PushLost(w)
  <2>1. /\ writers[w].pc \in Holding /\ writers'[w].pc = "releasing"
        /\ writers'[w].token = writers[w].token /\ UNCHANGED <<watchdogs, vars>>
        /\ \A m \in late' : m.kind \in {"acquire", "release"} => m \in late
    BY <1>10, GotoFacts DEF PushLost, LoseAnswer
  <2>2. RowHeld(w)
    BY <2>1, CallsHold
  <2>3. QED
    BY <2>1, <2>2, HolderWatched
<1>11. CASE ReleaseLease(w) \/ ReleaseLost(w) \/ Crash(w)
  <2>1. Goto(w, "ended") /\ \E ack \in BOOLEAN : CloseWatchdog(w, ack)
    <3>1. ReleaseAcknowledged(w, writers[w].token) \in BOOLEAN
      BY DEF ReleaseAcknowledged, Owns
    <3>2. QED
      BY <1>11, <3>1 DEF ReleaseLease, ReleaseLost, Crash
  <2>2. writers'[w].pc = "ended" /\ watchdogs'[w].state \in {"gone", "closing"}
    BY <2>1, GotoFacts, CloseFacts
  <2>3. QED
    BY <2>2 DEF WatchStep
<1>12. QED
  BY <1>1, <1>2, <1>3, <1>4, <1>5, <1>6, <1>7, <1>8, <1>9, <1>10, <1>11 DEF WriterStep

\* The steps of another writer, whose calls name its own ticket.
LEMMA OtherWatched ==
  ASSUME CallInv, WatchInv, NEW w \in Tickets, NEW v \in Tickets \ {w}, WriterStep(v)
  PROVE  WatchStep(w)
<1> TypeOK /\ ShapeOK /\ writers[v].token \in Nat
  BY DEF CallInv, ShapeOK, WriterShape
<1>1. writers'[w] = writers[w]
  <2>1. CASE Poll(v)
    BY <2>1 DEF Poll, Goto, ShapeOK
  <2>2. CASE PollLost(v)
    BY <2>2 DEF PollLost, ShapeOK
  <2>3. CASE Fetch(v)
    BY <2>3 DEF Fetch, ShapeOK
  <2>4. CASE ~(Poll(v) \/ PollLost(v) \/ Fetch(v))
    <3>1. \E pc \in Phases : Goto(v, pc)
      BY <2>4 DEF WriterStep, Start, GiveUp, FetchStops, AssertActive, AssertActiveLost, Push,
                  PushLost, ReleaseLease, ReleaseLost, Crash, Phases
    <3>2. QED
      BY <3>1, GotoFacts
  <2>5. QED
    BY <2>1, <2>2, <2>3, <2>4
<1>2. watchdogs'[w] = watchdogs[w]
  <2>1. CASE Poll(v)
    BY <2>1 DEF Poll, ShapeOK
  <2>2. CASE \E ack \in BOOLEAN : CloseWatchdog(v, ack)
    BY <2>2, CloseFacts
  <2>3. CASE ReleaseLease(v)
    <3>1. ReleaseAcknowledged(v, writers[v].token) \in BOOLEAN
      BY DEF ReleaseAcknowledged, Owns
    <3>2. QED
      BY <2>2, <2>3, <3>1 DEF ReleaseLease
  <2>4. CASE ReleaseLost(v) \/ Crash(v)
    BY <2>2, <2>4 DEF ReleaseLost, Crash
  <2>5. CASE ~(Poll(v) \/ ReleaseLease(v) \/ ReleaseLost(v) \/ Crash(v))
    BY <2>5 DEF WriterStep, Start, PollLost, GiveUp, Fetch, FetchStops, AssertActive,
                AssertActiveLost, Push, PushLost
  <2>6. QED
    BY <2>1, <2>3, <2>4, <2>5
<1>3. \A m \in late' : m \in late \/ m.writer = v
  <2>1. CASE \E kind \in {"acquire", "heartbeat", "push", "release"} : LoseAnswer(kind, v)
    BY <2>1 DEF LoseAnswer
  <2>2. CASE Crash(v)
    BY <2>2 DEF Crash
  <2>3. CASE UNCHANGED late
    BY <2>3
  <2>4. QED
    BY <2>1, <2>2, <2>3
       DEF WriterStep, Start, Poll, PollLost, GiveUp, Fetch, FetchStops, AssertActive,
           AssertActiveLost, Push, PushLost, ReleaseLease, ReleaseLost
<1>4. UNCHANGED vars \/ Acquire(v) \/ Heartbeat(v, writers[v].token) \/ Release(v, writers[v].token)
  BY DEF WriterStep, Start, Poll, PollLost, GiveUp, Fetch, FetchStops, AssertActive,
         AssertActiveLost, Push, PushLost, ReleaseLease, ReleaseLost, Crash
<1>5. RowHeld(w)
  BY <1>4, CallsHold
<1>6. watchdogs'[w].state = "running" => Watched(w)'
  <2>1. watchdogs[w].state = "running" => writers[w].pc \in Holding
    BY DEF WatchInv, Watched
  <2>2. QED
    BY <1>1, <1>2, <1>3, <1>5, <2>1, WatchKept
<1>7. writers'[w].pc \in {"idle", "polling"} => Unwatched(w)'
  BY <1>1, <1>2, <1>3, UnwatchedKept
<1>8. QED
  BY <1>6, <1>7 DEF WatchStep

\* The steps of watchdogs, late requests and others' reads: the writers rest.
LEMMA RestWatched ==
  ASSUME CallInv, WatchInv, NEW w \in Tickets, UNCHANGED writers,
         watchdogs'[w] = watchdogs[w],
         watchdogs[w].state = "running" /\ watchdogs[w].missed < LeaseMs => RowHeld(w),
         \A m \in late' : m.writer = w /\ m.kind \in {"acquire", "release"} => m \in late
  PROVE  WatchStep(w)
<1>1. watchdogs'[w].state = "running" => Watched(w)'
  <2>1. watchdogs[w].state = "running" => writers[w].pc \in Holding
    BY DEF WatchInv, Watched
  <2>2. QED
    BY <2>1, WatchKept
<1>2. writers'[w].pc \in {"idle", "polling"} => Unwatched(w)'
  BY UnwatchedKept
<1>3. QED
  BY <1>1, <1>2 DEF WatchStep

\* A renewal gives the lease its whole time again, up to the deadline.
LEMMA RenewWatched ==
  ASSUME CallInv, WatchInv, NEW w \in Tickets, Renew(w)
  PROVE  WatchStep(w)
<1>1. /\ watchdogs[w].state = "running" /\ Heartbeat(w, writers[w].token)
      /\ watchdogs' = [watchdogs EXCEPT ![w].missed = IF @ < LeaseMs THEN 0 ELSE @]
      /\ UNCHANGED <<writers, late>>
  BY DEF Renew
<1>2. /\ Watched(w) /\ TypeOK /\ ShapeOK /\ writers[w].token \in Nat
      /\ watchdogs[w].missed \in Nat /\ writers[w].pc \in Holding
      /\ tickets[w] \in Row
  BY <1>1 DEF WatchInv, CallInv, ShapeOK, WriterShape, Watched, TypeOK
<1>3. watchdogs'[w].missed = IF watchdogs[w].missed < LeaseMs THEN 0 ELSE watchdogs[w].missed
  BY <1>1, <1>2 DEF ShapeOK
<1>4. RowHeld(w)
  BY <1>1, <1>2, CallsHold
<1>5. ASSUME watchdogs'[w].missed < LeaseMs
      PROVE  /\ tickets'[w].deadlineIn = 0 \/ Renewed(w)'
             /\ tickets[w].deadlineIn > 0 => tickets'[w].deadlineIn > 0
  <2>1. watchdogs[w].missed < LeaseMs /\ watchdogs'[w].missed = 0
    BY <1>2, <1>3, <1>5
  <2>2. CASE tickets[w].deadlineIn = 0
    BY <1>4, <2>2 DEF RowHeld
  <2>3. CASE tickets[w].deadlineIn # 0
    <3>1. /\ Renewed(w) /\ tickets[w].deadlineIn > 0
          /\ tickets[w].state = "leased" /\ ~Reclaimable(tickets[w])
      BY <1>1, <1>2, <2>1, <2>3, RenewedIsNotOver
    <3>2. ReclaimedAndPruned[w] = tickets[w]
      BY <3>1 DEF ReclaimedAndPruned, ReclaimedRow, Pruned, DueForPrune, Terminal
    <3>3. tickets' = [ReclaimedAndPruned EXCEPT ![w] = RenewedRow(@)]
      BY <1>1, <3>1, <3>2 DEF Heartbeat, Renewed, OwnsLease, Owns
    <3>4. ReclaimedAndPruned \in [Tickets -> Row]
      BY <1>2, ReclaimFacts
    <3>5. tickets'[w] = RenewedRow(tickets[w])
      BY <3>2, <3>3, <3>4
    <3>6. /\ RenewedRow(tickets[w]).deadlineIn = tickets[w].deadlineIn
          /\ RenewedRow(tickets[w]).state = tickets[w].state
          /\ RenewedRow(tickets[w]).token = tickets[w].token
          /\ RenewedRow(tickets[w]).expiresIn = Smaller(LeaseMs, tickets[w].deadlineIn)
      BY <1>2 DEF RenewedRow, Row
    <3>7. LeaseMs - watchdogs'[w].missed = LeaseMs
      BY <2>1, TimeAssumption
    <3>8. Smaller(LeaseMs, tickets[w].deadlineIn) \in Int
      BY <1>2, TimeAssumption DEF Smaller, Row
    <3>9. QED
      BY <1>1, <3>1, <3>5, <3>6, <3>7, <3>8 DEF Renewed, OwnsLease, Owns
  <2>4. QED
    BY <2>2, <2>3
<1>6. watchdogs'[w].missed \in Nat /\ watchdogs'[w].state = "running"
  BY <1>1, <1>2, <1>3 DEF ShapeOK
<1>7. Watched(w)'
  BY <1>1, <1>2, <1>3, <1>5, <1>6 DEF Watched
<1>8. writers'[w].pc \notin {"idle", "polling"}
  BY <1>1, <1>2 DEF Holding
<1>9. QED
  BY <1>7, <1>8 DEF WatchStep

\* A tick takes one from the lease, and adds one to the missed renewals.
LEMMA TickWatched ==
  ASSUME CallInv, WatchInv, NEW w \in Tickets, PublisherTick
  PROVE  WatchStep(w)
<1>1. /\ tickets' = [t \in Tickets |-> TickedRow(tickets[t])]
      /\ watchdogs' = [v \in Tickets |->
           IF watchdogs[v].state = "running"
           THEN [watchdogs[v] EXCEPT !.missed = Smaller(@ + 1, LeaseMs)]
           ELSE watchdogs[v]]
      /\ late' = {m \in late : m.kind = "push"}
      /\ UNCHANGED writers
  BY DEF PublisherTick, Tick
<1>2. TypeOK /\ ShapeOK /\ tickets[w] \in Row
  BY DEF CallInv, TypeOK
<1>3. ASSUME watchdogs'[w].state = "running"
      PROVE  Watched(w)'
  <2>1. watchdogs[w].state = "running" /\ Watched(w)
        /\ watchdogs'[w].missed = Smaller(watchdogs[w].missed + 1, LeaseMs)
    BY <1>1, <1>2, <1>3 DEF ShapeOK, WatchInv
  <2>2. watchdogs'[w].missed \in Nat
    BY <2>1, TimeAssumption DEF Smaller, Watched
  <2>3. ASSUME watchdogs'[w].missed < LeaseMs
        PROVE  tickets'[w].deadlineIn = 0 \/ Renewed(w)'
    <3>1. watchdogs[w].missed < LeaseMs /\ watchdogs'[w].missed = watchdogs[w].missed + 1
      BY <2>1, <2>3, TimeAssumption DEF Smaller, Watched
    <3>2. CASE tickets[w].deadlineIn = 0
      <4>1. TickedRow(tickets[w]).deadlineIn \in {tickets[w].deadlineIn,
                                                 CountedDown(tickets[w].deadlineIn)}
        <5>1. CASE tickets[w].state = "leased"
          BY <1>2, <5>1 DEF TickedRow, Terminal, Row
        <5>2. CASE tickets[w].state # "leased"
          BY <1>2, <5>2 DEF TickedRow, Terminal, Row
        <5>3. QED
          BY <5>1, <5>2
      <4>2. QED
        BY <1>1, <3>2, <4>1 DEF CountedDown
    <3>3. CASE tickets[w].deadlineIn # 0
      <4>1. /\ Renewed(w) /\ tickets[w].deadlineIn > 0
            /\ tickets[w].state = "leased" /\ ~Reclaimable(tickets[w])
        BY <1>2, <2>1, <3>1, <3>3, RenewedIsNotOver
      <4>2. /\ tickets'[w].state = "leased" /\ tickets'[w].token = tickets[w].token
            /\ tickets'[w].expiresIn = CountedDown(tickets[w].expiresIn)
            /\ tickets'[w].deadlineIn = CountedDown(tickets[w].deadlineIn)
        BY <1>1, <1>2, <4>1 DEF TickedRow, Terminal, Row
      <4>3. tickets'[w].expiresIn
              >= Smaller(LeaseMs - watchdogs'[w].missed, tickets'[w].deadlineIn)
        <5>1. tickets[w].expiresIn
                >= Smaller(LeaseMs - watchdogs[w].missed, tickets[w].deadlineIn)
          BY <4>1 DEF Renewed
        <5>2. watchdogs[w].missed \in Nat
          BY <2>1 DEF Watched
        <5>3. tickets[w].expiresIn > 0 /\ tickets[w].expiresIn \in Int
              /\ tickets[w].deadlineIn \in Int
          BY <1>2, <4>1 DEF Reclaimable, Row
        <5>4. tickets'[w].expiresIn = tickets[w].expiresIn - 1
              /\ tickets'[w].deadlineIn = tickets[w].deadlineIn - 1
          BY <4>1, <4>2, <5>3 DEF CountedDown
        <5>5. QED
          BY <3>1, <5>1, <5>2, <5>3, <5>4, TimeAssumption DEF Smaller
      <4>4. QED
        BY <1>1, <4>1, <4>2, <4>3 DEF Renewed, OwnsLease, Owns
    <3>4. QED
      BY <3>2, <3>3
  <2>4. \A m \in late' : m.kind \notin {"acquire", "release"}
    BY <1>1
  <2>5. QED
    BY <1>1, <2>1, <2>2, <2>3, <2>4 DEF Watched
<1>4. writers'[w].pc \in {"idle", "polling"} => Unwatched(w)'
  BY <1>1, <1>2 DEF WatchInv, Unwatched, ShapeOK
<1>5. QED
  BY <1>3, <1>4 DEF WatchStep

LEMMA PublisherWatched ==
  ASSUME CallInv, CallInv', WatchInv, [Next]_vars, [PublisherNext]_publisherVars
  PROVE  WatchInv'
<1> TypeOK /\ ShapeOK
  BY DEF CallInv
<1>1. LeaseTimes'
  BY LeaseTimesStep DEF WatchInv
<1> SUFFICES ASSUME NEW w \in Tickets PROVE WatchStep(w)
  BY <1>1 DEF WatchInv, WatchStep
<1>2. ASSUME NEW v \in Tickets, WriterStep(v)
      PROVE  WatchStep(w)
  BY <1>1, <1>2, WriterWatched, OtherWatched
<1>3. ASSUME NEW v \in Tickets, Renew(v)
      PROVE  WatchStep(w)
  <2>1. CASE v = w
    BY <1>3, <2>1, RenewWatched
  <2>2. CASE v # w
    <3>1. /\ UNCHANGED <<writers, late>> /\ watchdogs'[w] = watchdogs[w]
          /\ Heartbeat(v, writers[v].token) /\ writers[v].token \in Nat
      BY <1>3, <2>2 DEF Renew, ShapeOK, WriterShape
    <3>2. RowHeld(w)
      BY <3>1, CallsHold
    <3>3. QED
      BY <3>1, <3>2, RestWatched
  <2>3. QED
    BY <2>1, <2>2
<1>4. ASSUME NEW v \in Tickets, WatchdogReleases(v)
      PROVE  WatchStep(w)
  <2>1. /\ watchdogs' = [watchdogs EXCEPT ![v].state = "gone"] /\ UNCHANGED writers
        /\ watchdogs[v].state = "closing"
        /\ UNCHANGED vars \/ Release(v, writers[v].token)
        /\ \A m \in late' : m \in late \/ m.writer = v
        /\ writers[v].token \in Nat
    BY <1>4 DEF WatchdogReleases, LoseAnswer, ShapeOK, WriterShape
  <2>2. CASE v = w
    <3>1. watchdogs'[w].state = "gone"
      BY <2>1, <2>2 DEF ShapeOK
    <3>2. writers'[w].pc \notin {"idle", "polling"}
      BY <2>1, <2>2 DEF WatchInv, Unwatched
    <3>3. QED
      BY <3>1, <3>2 DEF WatchStep
  <2>3. CASE v # w
    <3>1. watchdogs'[w] = watchdogs[w]
      BY <2>1, <2>3 DEF ShapeOK
    <3>2. RowHeld(w)
      BY <2>1, <2>3, CallsHold
    <3>3. QED
      BY <2>1, <2>3, <3>1, <3>2, RestWatched
  <2>4. QED
    BY <2>2, <2>3
<1>5. ASSUME NEW m \in late, Deliver(m)
      PROVE  WatchStep(w)
  <2>1. UNCHANGED <<writers, watchdogs>> /\ late' \subseteq late
    BY <1>5 DEF Deliver
  <2>2. ASSUME watchdogs[w].state = "running", watchdogs[w].missed < LeaseMs
        PROVE  RowHeld(w)
    <3>1. m.writer \in Tickets
      BY DEF ShapeOK
    <3>2. CASE m.kind = "acquire" /\ m.writer = w /\ Acquire(m.writer)
      <4>1. tickets[w].deadlineIn > 0 /\ tickets[w] \in Row
        BY <2>2, <3>2 DEF WatchInv, Watched, TypeOK
      <4>2. tickets[w].deadlineIn # 0
        BY <4>1 DEF Row
      <4>3. tickets'[w] = tickets[w]
        BY <2>2, <3>2, <4>2, RenewedIsNotOver, CallsHold
      <4>4. QED
        BY <4>3 DEF RowHeld
    <3>3. CASE m.kind = "acquire" /\ m.writer # w /\ Acquire(m.writer)
      BY <3>1, <3>3, CallsHold
    <3>4. CASE m.kind = "heartbeat" /\ Heartbeat(m.writer, m.token)
      <4>1. m.token \in Nat
        BY <3>4 DEF CallInv, TokensIssued, IssuedTokens
      <4>2. QED
        BY <3>1, <3>4, <4>1, CallsHold
    <3>5. CASE m.kind = "release" /\ Release(m.writer, m.token)
      <4>1. m.writer # w
        BY <2>2, <3>5 DEF WatchInv, Watched
      <4>2. m.token \in Nat
        BY <3>5 DEF CallInv, TokensIssued, IssuedTokens
      <4>3. QED
        BY <3>1, <3>5, <4>1, <4>2, CallsHold
    <3>6. CASE UNCHANGED vars
      BY <3>6, CallsHold
    <3>7. QED
      BY <1>5, <3>2, <3>3, <3>4, <3>5, <3>6 DEF Deliver
  <2>3. QED
    BY <2>1, <2>2, RestWatched
<1>6. CASE OthersRead
  <2>1. UNCHANGED <<writers, watchdogs, late>> /\ RowHeld(w)
    BY <1>6, CallsHold DEF OthersRead
  <2>2. QED
    BY <2>1, RestWatched
<1>7. CASE PublisherTick
  BY <1>7, TickWatched
<1>8. CASE UNCHANGED publisherVars
  <2>1. UNCHANGED <<writers, watchdogs, late>> /\ UNCHANGED vars
    BY <1>8 DEF publisherVars, vars
  <2>2. RowHeld(w)
    BY <2>1, CallsHold
  <2>3. QED
    BY <2>1, <2>2, RestWatched
<1>9. QED
  BY <1>2, <1>3, <1>4, <1>5, <1>6, <1>7, <1>8 DEF PublisherNext

\* A watchdog that runs and has not missed every renewal of a lease keeps it for its
\* writer until the deadline, whatever other writers, late requests and reclaims do:
\* a poll that arrives late finds the ticket leased or is dropped before the lease
\* can be over, and no release can be on its way while the watchdog runs.
THEOREM WatchdogsKeepLeases == PublisherSpec => []WatchdogKeepsLease
<1>1. PublisherInit => WatchInv
  BY DEF PublisherInit, Init, WatchInv, LeaseTimes, Timely, NoRow, Unwatched
<1>2. /\ CallInv /\ CallInv' /\ [Next]_vars /\ WatchInv /\ [PublisherNext]_publisherVars
      => WatchInv'
  BY PublisherWatched
<1>3. WatchInv => WatchdogKeepsLease
  BY DEF WatchInv, Watched, Renewed, WatchdogKeepsLease
<1>4. QED
  BY <1>1, <1>2, <1>3, CallInvHolds, PTL DEF PublisherSpec

=============================================================================
