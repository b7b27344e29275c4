-------------------- MODULE StateWriterCoordinatorProofs --------------------
(***************************************************************************)
(* Proofs about the state-writer coordinator, for every set of tickets and *)
(* every choice of the time constants.                                     *)
(***************************************************************************)
EXTENDS StateWriterCoordinator, FiniteSetTheorems, WellFoundedInduction, TLAPS

-----------------------------------------------------------------------------
(* What the operators of the module build out of well-formed rows.         *)

\* A row with one field replaced is a row.  (The backend checks an update of
\* several fields one field at a time.)
LEMMA RowUpdates ==
  ASSUME NEW r \in Row
  PROVE  /\ \A v \in RowStates : [r EXCEPT !.state = v] \in Row
         /\ \A v \in Nat : [r EXCEPT !.token = v] \in Row
         /\ \A v \in 0..QueuedStaleMs : [r EXCEPT !.unseenFor = v] \in Row
         /\ \A v \in Int : [r EXCEPT !.expiresIn = v] \in Row
         /\ \A v \in Int : [r EXCEPT !.deadlineIn = v] \in Row
         /\ \A v \in 0..(RetentionMs + 1) : [r EXCEPT !.terminalFor = v] \in Row
  BY DEF Row

LEMMA NoRowType == NoRow \in Row
  BY TimeAssumption DEF NoRow, Row, RowStates, NoToken

LEMMA InsertedRowType ==
  ASSUME NEW n \in Nat
  PROVE  InsertedRow(n) \in Row
<1> DEFINE r1 == [NoRow EXCEPT !.state = "queued"]
<1>1. r1 \in Row
  BY NoRowType, RowUpdates DEF RowStates
<1> HIDE DEF r1
<1>2. [r1 EXCEPT !.seq = n] \in Row
  BY <1>1 DEF Row
<1>3. QED
  BY <1>2 DEF r1, InsertedRow

LEMMA ReclaimedRowType ==
  ASSUME NEW r \in Row
  PROVE  ReclaimedRow(r) \in Row
<1> DEFINE r1 == [r EXCEPT !.state = "expired"]
<1>1. r1 \in Row
  BY RowUpdates DEF RowStates
<1> HIDE DEF r1
<1> DEFINE r2 == [r1 EXCEPT !.terminalFor = 0]
<1>2. r2 \in Row
  BY <1>1, RowUpdates, TimeAssumption
<1> HIDE DEF r2
<1>3. [r2 EXCEPT !.expiresIn = 0] \in Row
  BY <1>2, RowUpdates
<1>4. QED
  BY <1>3 DEF r1, r2, ReclaimedRow

LEMMA RenewedRowType ==
  ASSUME NEW r \in Row
  PROVE  RenewedRow(r) \in Row
<1> DEFINE r1 == [r EXCEPT !.unseenFor = 0]
<1>1. r1 \in Row
  BY RowUpdates, TimeAssumption
<1> HIDE DEF r1
<1>2. Smaller(LeaseMs, r.deadlineIn) \in Int
  BY TimeAssumption DEF Smaller, Row
<1>3. [r1 EXCEPT !.expiresIn = Smaller(LeaseMs, r.deadlineIn)] \in Row
  BY <1>1, <1>2, RowUpdates
<1>4. QED
  BY <1>3 DEF r1, RenewedRow

LEMMA CompletedRowType ==
  ASSUME NEW r \in Row
  PROVE  CompletedRow(r) \in Row
<1> DEFINE r1 == [r EXCEPT !.state = "completed"]
<1>1. r1 \in Row
  BY RowUpdates DEF RowStates
<1> HIDE DEF r1
<1> DEFINE r2 == [r1 EXCEPT !.unseenFor = 0]
<1>2. r2 \in Row
  BY <1>1, RowUpdates, TimeAssumption
<1> HIDE DEF r2
<1> DEFINE r3 == [r2 EXCEPT !.terminalFor = 0]
<1>3. r3 \in Row
  BY <1>2, RowUpdates, TimeAssumption
<1> HIDE DEF r3
<1>4. [r3 EXCEPT !.expiresIn = 0] \in Row
  BY <1>3, RowUpdates
<1>5. QED
  BY <1>4 DEF r1, r2, r3, CompletedRow

LEMMA LeasedRowType ==
  ASSUME NEW r \in Row, NEW k \in Nat
  PROVE  LeasedRow(r, k) \in Row
<1> DEFINE r1 == [r EXCEPT !.state = "leased"]
<1>1. r1 \in Row
  BY RowUpdates DEF RowStates
<1> HIDE DEF r1
<1> DEFINE r2 == [r1 EXCEPT !.token = k]
<1>2. r2 \in Row
  BY <1>1, RowUpdates
<1> HIDE DEF r2
<1> DEFINE r3 == [r2 EXCEPT !.unseenFor = 0]
<1>3. r3 \in Row
  BY <1>2, RowUpdates, TimeAssumption
<1> HIDE DEF r3
<1> DEFINE r4 == [r3 EXCEPT !.expiresIn = Smaller(LeaseMs, MaxLeaseAgeMs)]
<1>4. r4 \in Row
  BY <1>3, RowUpdates, TimeAssumption DEF Smaller
<1> HIDE DEF r4
<1>5. [r4 EXCEPT !.deadlineIn = MaxLeaseAgeMs] \in Row
  BY <1>4, RowUpdates, TimeAssumption
<1>6. QED
  BY <1>5 DEF r1, r2, r3, r4, LeasedRow

LEMMA TickedRowType ==
  ASSUME NEW r \in Row
  PROVE  TickedRow(r) \in Row
<1>1. /\ Smaller(r.unseenFor + 1, QueuedStaleMs) \in 0..QueuedStaleMs
      /\ CountedDown(r.expiresIn) \in Int
      /\ CountedDown(r.deadlineIn) \in Int
      /\ Smaller(r.terminalFor + 1, RetentionMs + 1) \in 0..(RetentionMs + 1)
  BY TimeAssumption DEF Row, Smaller, CountedDown
<1> DEFINE r1 == [r EXCEPT !.expiresIn = CountedDown(r.expiresIn)]
<1>2. r1 \in Row
  BY <1>1, RowUpdates
<1> HIDE DEF r1
<1>3. [r1 EXCEPT !.deadlineIn = CountedDown(r.deadlineIn)] \in Row
  BY <1>1, <1>2, RowUpdates
<1>4. [r EXCEPT !.expiresIn = CountedDown(r.expiresIn),
                !.deadlineIn = CountedDown(r.deadlineIn)] \in Row
  BY <1>3 DEF r1
<1>5. CASE r.state = "leased"
  BY <1>4, <1>5, Zenon DEF TickedRow, Terminal
<1>6. CASE r.state = "queued"
  BY <1>1, <1>6, RowUpdates DEF TickedRow, Terminal
<1>7. CASE Terminal(r)
  BY <1>1, <1>7, RowUpdates DEF TickedRow, Terminal
<1>8. CASE r.state = "absent"
  BY <1>8 DEF TickedRow, Terminal
<1>9. QED
  BY <1>5, <1>6, <1>7, <1>8, r.state \in RowStates DEF Row, RowStates, Terminal

\* The rows the operations write are rows.
LEMMA RowTypes ==
  /\ NoRow \in Row
  /\ \A n \in Nat : InsertedRow(n) \in Row
  /\ \A r \in Row : /\ ReclaimedRow(r) \in Row
                    /\ [r EXCEPT !.unseenFor = 0] \in Row
                    /\ RenewedRow(r) \in Row
                    /\ CompletedRow(r) \in Row
                    /\ TickedRow(r) \in Row
                    /\ \A k \in Nat : LeasedRow(r, k) \in Row
<1>1. 0 \in 0..QueuedStaleMs
  BY TimeAssumption
<1>2. ASSUME NEW r \in Row PROVE [r EXCEPT !.unseenFor = 0] \in Row
  BY <1>1, RowUpdates
<1>3. QED
  BY <1>2, NoRowType, InsertedRowType, ReclaimedRowType, RenewedRowType,
     CompletedRowType, TickedRowType, LeasedRowType

\* reclaimAndPruneSync only ends rows: a row still queued or leased after it
\* is the row it was before, and the turn counters are not touched.
LEMMA ReclaimFacts ==
  ASSUME TypeOK
  PROVE  /\ ReclaimedAndPruned \in [Tickets -> Row]
         /\ ReclaimedMeta \in Meta
         /\ ReclaimedMeta.admitted = meta.admitted
         /\ ReclaimedMeta.batchTurns = meta.batchTurns
         /\ ReclaimedMeta.intakeTurns = meta.intakeTurns
         /\ \A t \in Tickets :
              ReclaimedAndPruned[t].state \in {"queued", "leased"} =>
                ReclaimedAndPruned[t] = tickets[t]
<1>1. ReclaimedAndPruned \in [Tickets -> Row]
  BY RowTypes DEF ReclaimedAndPruned, TypeOK
<1>2. ReclaimedCount \in Nat
  <2>1. IsFiniteSet({t \in Tickets : Reclaimable(tickets[t])})
    BY TicketAssumption, FS_Subset
  <2>2. QED
    BY <2>1, FS_CardinalityType DEF ReclaimedCount
<1>3. /\ ReclaimedMeta \in Meta
      /\ ReclaimedMeta.admitted = meta.admitted
      /\ ReclaimedMeta.batchTurns = meta.batchTurns
      /\ ReclaimedMeta.intakeTurns = meta.intakeTurns
  BY <1>2 DEF ReclaimedMeta, Meta, TypeOK
<1>4. ASSUME NEW t \in Tickets,
             ReclaimedAndPruned[t].state \in {"queued", "leased"}
      PROVE  ReclaimedAndPruned[t] = tickets[t]
  BY <1>4 DEF ReclaimedAndPruned, ReclaimedRow, NoRow, TypeOK, Row
<1>5. QED
  BY <1>1, <1>3, <1>4

\* Admission keeps the totals well-formed.
LEMMA AdmittedMetaType ==
  ASSUME NEW m \in Meta, NEW tb, NEW c \in Classes
  PROVE  /\ AdmittedMeta(m, tb, c) \in Meta
         /\ AdmittedMeta(m, tb, c).admitted = m.admitted + 1
  BY DEF AdmittedMeta, BatchTurnsAfter, IntakeTurnsAfter, Meta, Classes

\* The history variable stays a count per class.
LEMMA ObserveType ==
  ASSUME TypeOK, NEW tb, NEW a, Observe(tb, a)
  PROVE  bypass' \in [Classes -> Nat]
  BY DEF Observe, TypeOK

-----------------------------------------------------------------------------
(* The shape of the four kinds of step.                                    *)

\* The table of an acquire before the admission.
LEMMA SeenFacts ==
  ASSUME TypeOK, NEW t \in Tickets
  PROVE  /\ SeenTable(t) \in [Tickets -> Row]
         /\ SeenTable(t)[t].state # "absent"
         /\ \A u \in Tickets :
              SeenTable(t)[u].state = "leased" => SeenTable(t)[u] = tickets[u]
<1>1. ReclaimedAndPruned \in [Tickets -> Row]
  BY ReclaimFacts
<1>2. InsertedRow(seq + 1) \in Row
  BY RowTypes DEF TypeOK
<1>3. SeenTable(t) \in [Tickets -> Row]
  BY <1>1, <1>2, RowTypes DEF SeenTable
<1>4. SeenTable(t)[t].state # "absent"
  BY <1>1 DEF SeenTable, InsertedRow, NoRow, Row
<1>5. ASSUME NEW u \in Tickets, SeenTable(t)[u].state = "leased"
      PROVE  SeenTable(t)[u] = tickets[u]
  <2>1. ReclaimedAndPruned[u].state = "leased" /\ SeenTable(t)[u] = ReclaimedAndPruned[u]
    BY <1>1, <1>5 DEF SeenTable, InsertedRow, NoRow, Row
  <2>2. QED
    BY <2>1, ReclaimFacts
<1>6. QED
  BY <1>3, <1>4, <1>5

-----------------------------------------------------------------------------
(* Type correctness.                                                       *)

\* Every operation leaves well-formed rows, totals and counters.
LEMMA TypesStep ==
  ASSUME TypeOK, [Next]_vars
  PROVE  TypeOK'
<1>1. ASSUME NEW t \in Tickets, Acquire(t)
      PROVE  TypeOK'
  <2>1. meta.admitted + 1 \in Nat
    BY DEF TypeOK, Meta
  <2>2. tickets' \in [Tickets -> Row]
    BY <1>1, <2>1, SeenFacts, RowTypes DEF Acquire
  <2>3. meta' \in Meta
    BY <1>1, ReclaimFacts, AdmittedMetaType, TicketAssumption DEF Acquire
  <2>4. seq' \in Nat
    BY <1>1 DEF Acquire, TypeOK
  <2>5. bypass' \in [Classes -> Nat]
    BY <1>1, ObserveType DEF Acquire
  <2>6. QED
    BY <2>2, <2>3, <2>4, <2>5 DEF TypeOK
<1>2. ASSUME NEW t \in Tickets, NEW k \in 1..meta.admitted, Heartbeat(t, k)
      PROVE  TypeOK'
  <2>1. tickets' \in [Tickets -> Row]
    BY <1>2, ReclaimFacts, RowTypes DEF Heartbeat
  <2>2. QED
    BY <1>2, <2>1, ReclaimFacts, ObserveType DEF Heartbeat, TypeOK
<1>3. ASSUME NEW t \in Tickets, NEW k \in 1..meta.admitted, Release(t, k)
      PROVE  TypeOK'
  <2>1. tickets' \in [Tickets -> Row]
    BY <1>3, ReclaimFacts, RowTypes DEF Release
  <2>2. meta' \in Meta
    BY <1>3, ReclaimFacts DEF Release, Meta
  <2>3. QED
    BY <1>3, <2>1, <2>2, ObserveType DEF Release, TypeOK
<1>4. ASSUME Stats PROVE TypeOK'
  BY <1>4, ReclaimFacts, ObserveType DEF Stats, TypeOK
<1>5. ASSUME Tick PROVE TypeOK'
  BY <1>5, RowTypes DEF Tick, TypeOK
<1>6. ASSUME UNCHANGED vars PROVE TypeOK'
  BY <1>6 DEF vars, TypeOK
<1>7. QED
  BY <1>1, <1>2, <1>3, <1>4, <1>5, <1>6 DEF Next

\* Every reachable table, total and counter has the shape its schema declares.
THEOREM TypeCorrect == Spec => []TypeOK
<1>1. Init => TypeOK
  BY RowTypes DEF Init, TypeOK, Meta
<1>2. TypeOK /\ [Next]_vars => TypeOK'
  BY TypesStep
<1>3. QED
  BY <1>1, <1>2, PTL DEF Spec

-----------------------------------------------------------------------------
(* Exclusive, bounded leases.                                              *)

\* What a row says of the lease it holds.
LeaseBounded(r) ==
  r.state = "leased" => r.expiresIn <= r.deadlineIn /\ r.deadlineIn <= MaxLeaseAgeMs

\* The rows admission, renewal and time write respect the deadline.
LEMMA LeaseBounds ==
  ASSUME NEW r \in Row, LeaseBounded(r)
  PROVE  /\ LeaseBounded(TickedRow(r))
         /\ r.state = "leased" => LeaseBounded(RenewedRow(r))
         /\ \A k \in Nat : LeaseBounded(LeasedRow(r, k))
<1>1. r.state = "leased" => LeaseBounded(RenewedRow(r))
  BY TimeAssumption DEF LeaseBounded, RenewedRow, Smaller, Row
<1>2. ASSUME NEW k \in Nat PROVE LeaseBounded(LeasedRow(r, k))
  BY TimeAssumption DEF LeaseBounded, LeasedRow, Smaller, Row
<1>3. LeaseBounded(TickedRow(r))
  <2>1. CASE r.state = "leased"
    <3>1. /\ TickedRow(r).expiresIn = CountedDown(r.expiresIn)
          /\ TickedRow(r).deadlineIn = CountedDown(r.deadlineIn)
      BY <2>1 DEF TickedRow, Terminal, Row
    <3>2. QED
      BY <2>1, <3>1, TimeAssumption DEF LeaseBounded, CountedDown, Row
  <2>2. CASE r.state # "leased"
    BY <2>2 DEF LeaseBounded, TickedRow, Terminal, Row
  <2>3. QED
    BY <2>1, <2>2
<1>4. QED
  BY <1>1, <1>2, <1>3

\* A state whose tickets hold exclusive, bounded leases.
LeaseInv == TypeOK /\ OneActiveLease /\ LeaseWithinDeadline

\* A step that only keeps or ends leases keeps them exclusive and bounded.
LEMMA LeasesOnlyEnd ==
  ASSUME LeaseInv,
         \A t \in Tickets : tickets'[t].state = "leased" =>
            tickets[t].state = "leased" /\ LeaseBounded(tickets'[t])
  PROVE  OneActiveLease' /\ LeaseWithinDeadline'
  BY DEF LeaseInv, OneActiveLease, LeaseWithinDeadline, LeaseBounded

\* reclaimAndPruneSync by itself is such a step.
LEMMA ReclaimKeepsLeases ==
  ASSUME LeaseInv, NEW t \in Tickets, ReclaimedAndPruned[t].state = "leased"
  PROVE  /\ tickets[t].state = "leased"
         /\ LeaseBounded(ReclaimedAndPruned[t])
  BY ReclaimFacts DEF LeaseInv, LeaseWithinDeadline, LeaseBounded

\* At every moment at most one writer owns the state branch, and no renewal
\* carries an ownership past the deadline fixed when it was granted.
THEOREM ExclusiveLeases == Spec => [](OneActiveLease /\ LeaseWithinDeadline)
<1>1. Init => OneActiveLease /\ LeaseWithinDeadline
  BY DEF Init, OneActiveLease, LeaseWithinDeadline, NoRow
<1>2. LeaseInv /\ [Next]_vars => (OneActiveLease /\ LeaseWithinDeadline)'
  <2> SUFFICES ASSUME LeaseInv, [Next]_vars
               PROVE  OneActiveLease' /\ LeaseWithinDeadline'
    OBVIOUS
  <2>0. TypeOK
    BY DEF LeaseInv
  <2>1. ASSUME NEW t \in Tickets, Acquire(t)
        PROVE  OneActiveLease' /\ LeaseWithinDeadline'
    <3> DEFINE seen == SeenTable(t)
               token == meta.admitted + 1
    <3>1. seen \in [Tickets -> Row] /\ token \in Nat
      BY <2>0, SeenFacts DEF TypeOK, Meta
    <3>2. \A u \in Tickets : seen[u].state = "leased" =>
             tickets[u].state = "leased" /\ LeaseBounded(seen[u])
      BY <2>0, SeenFacts DEF LeaseInv, LeaseWithinDeadline, LeaseBounded
    <3>3. CASE Admits(t, seen, ReclaimedMeta)
      <4>1. tickets' = [seen EXCEPT ![t] = LeasedRow(@, token)]
        BY <2>1, <3>3 DEF Acquire
      <4>2. \A u \in Tickets : seen[u].state # "leased"
        BY <3>3 DEF Admits, Active
      <4>3. LeaseBounded(LeasedRow(seen[t], token))
        BY <3>1, <4>2, LeaseBounds DEF LeaseBounded
      <4>4. \A u \in Tickets : tickets'[u].state = "leased" =>
               u = t /\ LeaseBounded(tickets'[u])
        BY <3>1, <4>1, <4>2, <4>3
      <4>5. QED
        BY <4>4 DEF OneActiveLease, LeaseWithinDeadline, LeaseBounded
    <3>4. CASE ~Admits(t, seen, ReclaimedMeta)
      <4>1. tickets' = seen
        BY <2>1, <3>4 DEF Acquire
      <4>2. QED
        BY <4>1, <3>2, LeasesOnlyEnd
    <3>5. QED
      BY <3>3, <3>4
  <2>2. ASSUME NEW t \in Tickets, NEW k \in 1..meta.admitted, Heartbeat(t, k)
        PROVE  OneActiveLease' /\ LeaseWithinDeadline'
    <3> DEFINE tb == ReclaimedAndPruned
    <3>1. tb \in [Tickets -> Row]
      BY <2>0, ReclaimFacts
    <3>2. \A u \in Tickets : tb[u].state = "leased" =>
             tickets[u].state = "leased" /\ LeaseBounded(tb[u])
      BY ReclaimKeepsLeases
    <3>3. CASE Owns(tb, t, k)
      <4>1. tickets' = [tb EXCEPT ![t] = RenewedRow(@)]
        BY <2>2, <3>3 DEF Heartbeat
      <4>2. tb[t].state = "leased" /\ LeaseBounded(RenewedRow(tb[t]))
        BY <3>1, <3>2, <3>3, LeaseBounds DEF Owns
      <4>3. QED
        BY <3>1, <3>2, <4>1, <4>2, LeasesOnlyEnd
    <3>4. CASE ~Owns(tb, t, k)
      BY <2>2, <3>2, <3>4, LeasesOnlyEnd DEF Heartbeat
    <3>5. QED
      BY <3>3, <3>4
  <2>3. ASSUME NEW t \in Tickets, NEW k \in 1..meta.admitted, Release(t, k)
        PROVE  OneActiveLease' /\ LeaseWithinDeadline'
    <3> DEFINE tb == ReclaimedAndPruned
    <3>1. tb \in [Tickets -> Row]
      BY <2>0, ReclaimFacts
    <3>2. \A u \in Tickets : tb[u].state = "leased" =>
             tickets[u].state = "leased" /\ LeaseBounded(tb[u])
      BY ReclaimKeepsLeases
    <3>3. CompletedRow(tb[t]).state = "completed"
      BY <3>1 DEF CompletedRow, Row
    <3>4. \A u \in Tickets : tickets'[u].state = "leased" => tickets'[u] = tb[u]
      BY <2>3, <3>1, <3>3 DEF Release
    <3>5. QED
      BY <3>2, <3>4, LeasesOnlyEnd
  <2>4. ASSUME Stats PROVE OneActiveLease' /\ LeaseWithinDeadline'
    BY <2>4, ReclaimKeepsLeases, LeasesOnlyEnd DEF Stats
  <2>5. ASSUME Tick PROVE OneActiveLease' /\ LeaseWithinDeadline'
    <3>1. ASSUME NEW u \in Tickets, tickets'[u].state = "leased"
          PROVE  tickets[u].state = "leased" /\ LeaseBounded(tickets'[u])
      <4>1. tickets'[u] = TickedRow(tickets[u]) /\ tickets[u] \in Row
        BY <2>0, <2>5 DEF Tick, TypeOK
      <4>2. tickets[u].state = "leased"
        BY <3>1, <4>1 DEF TickedRow, Terminal, Row
      <4>3. LeaseBounded(tickets[u])
        BY DEF LeaseInv, LeaseWithinDeadline, LeaseBounded
      <4>4. QED
        BY <4>1, <4>2, <4>3, LeaseBounds
    <3>2. QED
      BY <3>1, LeasesOnlyEnd
  <2>6. ASSUME UNCHANGED vars PROVE OneActiveLease' /\ LeaseWithinDeadline'
    BY <2>6 DEF vars, LeaseInv, OneActiveLease, LeaseWithinDeadline
  <2>7. QED
    BY <2>1, <2>2, <2>3, <2>4, <2>5, <2>6 DEF Next
<1>3. QED
  BY <1>1, <1>2, TypeCorrect, PTL DEF Spec, LeaseInv

-----------------------------------------------------------------------------
(* No starvation of ordinary writers.                                      *)

\* The inductive form: the bound needs the counters that enforce it.
BypassInv == TypeOK /\ OrdinaryBypassBounded /\ BypassIsCounted

\* A step that admits nobody keeps the bound: it may only empty the class.
LEMMA NoAdmission ==
  ASSUME BypassInv, NEW tb, Observe(tb, {}), tickets' = tb,
         meta'.batchTurns = meta.batchTurns,
         meta'.intakeTurns = meta.intakeTurns,
         NoneQueued(tickets, "ordinary") => bypass["ordinary"] = 0
  PROVE  /\ OrdinaryBypassBounded' /\ BypassIsCounted'
         /\ NoneQueued(tickets', "ordinary") => bypass'["ordinary"] = 0
<1>1. bypass'["ordinary"] = IF NoneQueued(tb, "ordinary") THEN 0 ELSE bypass["ordinary"]
  BY DEF Observe, Classes
<1>2. bypass["ordinary"] \in Nat /\ meta.batchTurns \in Nat /\ meta.intakeTurns \in Nat
  BY DEF BypassInv, TypeOK, Meta, Classes
<1>3. bypass["ordinary"] <= meta.batchTurns + meta.intakeTurns
  BY <1>2 DEF BypassInv, BypassIsCounted
<1>4. QED
  BY <1>1, <1>2, <1>3
  DEF BypassInv, OrdinaryBypassBounded, BypassIsCounted, MAX_CONSECUTIVE_PRIORITY_TURNS

\* While no ordinary writer waits there is nothing to count.
IdleIsZero == NoneQueued(tickets, "ordinary") => bypass["ordinary"] = 0

\* Priority writers pass a waiting ordinary writer at most twice in a row.
THEOREM OrdinaryNeverStarves == Spec => []OrdinaryBypassBounded
<1>1. Init => OrdinaryBypassBounded /\ BypassIsCounted /\ IdleIsZero
  BY DEF Init, OrdinaryBypassBounded, BypassIsCounted, IdleIsZero, Classes,
         MAX_CONSECUTIVE_PRIORITY_TURNS
<1>2. BypassInv /\ IdleIsZero /\ [Next]_vars
        => (OrdinaryBypassBounded /\ BypassIsCounted /\ IdleIsZero)'
  <2> SUFFICES ASSUME BypassInv, IdleIsZero, [Next]_vars
               PROVE  OrdinaryBypassBounded' /\ BypassIsCounted' /\ IdleIsZero'
    OBVIOUS
  <2>0. TypeOK
    BY DEF BypassInv
  <2>00. /\ ReclaimedMeta.batchTurns = meta.batchTurns
         /\ ReclaimedMeta.intakeTurns = meta.intakeTurns
         /\ ReclaimedMeta \in Meta
    BY <2>0, ReclaimFacts
  <2>1. ASSUME NEW t \in Tickets, Acquire(t)
        PROVE  OrdinaryBypassBounded' /\ BypassIsCounted' /\ IdleIsZero'
    <3> DEFINE seen == SeenTable(t)
               c == ClassOf[t]
               m == ReclaimedMeta
    <3>1. seen \in [Tickets -> Row] /\ c \in Classes
      BY <2>0, SeenFacts, TicketAssumption
    <3>2. CASE ~Admits(t, seen, m)
      <4>1. tickets' = seen /\ meta' = m /\ Observe(seen, {})
        BY <2>1, <3>2 DEF Acquire
      <4>2. QED
        BY <4>1, <2>00, NoAdmission DEF IdleIsZero
    <3>3. CASE Admits(t, seen, m)
      <4> DEFINE tb == [seen EXCEPT ![t] = LeasedRow(@, meta.admitted + 1)]
      <4>1. tickets' = tb /\ meta' = AdmittedMeta(m, tb, c) /\ Observe(tb, {c})
        BY <2>1, <3>3 DEF Acquire
      <4>2. c = HeadClass(seen, m)
        BY <3>3 DEF Admits, IsQueuedHead, Queued
      <4>3. ~NoneQueued(tb, "ordinary") => ~NoneQueued(seen, "ordinary")
        <5>1. LeasedRow(seen[t], meta.admitted + 1).state = "leased"
          BY <3>1 DEF LeasedRow, Row
        <5>2. QED
          BY <3>1, <5>1 DEF NoneQueued, Queued
      <4>4. bypass'["ordinary"] = IF NoneQueued(tb, "ordinary") \/ c = "ordinary"
                                  THEN 0 ELSE bypass["ordinary"] + 1
        BY <4>1 DEF Observe, Classes
      <4>5. CASE NoneQueued(tb, "ordinary") \/ c = "ordinary"
        <5>1. bypass'["ordinary"] = 0
          BY <4>4, <4>5
        <5>2. meta'.batchTurns \in Nat /\ meta'.intakeTurns \in Nat
          BY <4>1, <2>00, <3>1, AdmittedMetaType DEF Meta
        <5>3. QED
          BY <5>1, <5>2 DEF OrdinaryBypassBounded, BypassIsCounted, IdleIsZero,
                            MAX_CONSECUTIVE_PRIORITY_TURNS
      <4>6. CASE ~NoneQueued(tb, "ordinary") /\ c # "ordinary"
        <5>1. bypass'["ordinary"] = bypass["ordinary"] + 1
          BY <4>4, <4>6
        <5>2. m.batchTurns + m.intakeTurns < MAX_CONSECUTIVE_PRIORITY_TURNS
          BY <4>2, <4>3, <4>6
          DEF HeadClass, IntakeTurn, BatchTurn, PriorityBudgetAvailable
        <5>3. meta'.batchTurns + meta'.intakeTurns = m.batchTurns + m.intakeTurns + 1
          BY <4>1, <4>6, <2>00, <3>1
          DEF AdmittedMeta, BatchTurnsAfter, IntakeTurnsAfter, Meta, Classes
        <5>4. /\ bypass["ordinary"] \in Nat
              /\ meta.batchTurns \in Nat /\ meta.intakeTurns \in Nat
          BY <2>0 DEF TypeOK, Meta, Classes
        <5>5. bypass["ordinary"] <= meta.batchTurns + meta.intakeTurns
          BY <5>4 DEF IdleIsZero, BypassInv, BypassIsCounted
        <5>6. QED
          BY <2>00, <4>1, <4>6, <5>1, <5>2, <5>3, <5>4, <5>5
          DEF OrdinaryBypassBounded, BypassIsCounted, IdleIsZero,
              MAX_CONSECUTIVE_PRIORITY_TURNS
      <4>7. QED
        BY <4>5, <4>6
    <3>4. QED
      BY <3>2, <3>3
  <2>2. ASSUME NEW t \in Tickets, NEW k \in 1..meta.admitted, Heartbeat(t, k)
        PROVE  OrdinaryBypassBounded' /\ BypassIsCounted' /\ IdleIsZero'
    BY <2>2, <2>00, NoAdmission DEF Heartbeat, IdleIsZero
  <2>3. ASSUME NEW t \in Tickets, NEW k \in 1..meta.admitted, Release(t, k)
        PROVE  OrdinaryBypassBounded' /\ BypassIsCounted' /\ IdleIsZero'
    <3>1. meta'.batchTurns = meta.batchTurns /\ meta'.intakeTurns = meta.intakeTurns
      BY <2>3, <2>00 DEF Release, Meta
    <3>2. QED
      BY <2>3, <3>1, NoAdmission DEF Release, IdleIsZero
  <2>4. ASSUME Stats PROVE OrdinaryBypassBounded' /\ BypassIsCounted' /\ IdleIsZero'
    BY <2>4, <2>00, NoAdmission DEF Stats, IdleIsZero
  <2>5. ASSUME Tick PROVE OrdinaryBypassBounded' /\ BypassIsCounted' /\ IdleIsZero'
    <3>1. \A u \in Tickets : tickets'[u].state = tickets[u].state
      <4>1. ASSUME NEW r \in Row PROVE TickedRow(r).state = r.state
        BY DEF TickedRow, Terminal, Row
      <4>2. QED
        BY <2>0, <2>5, <4>1 DEF Tick, TypeOK
    <3>2. Queued(tickets', "ordinary") = Queued(tickets, "ordinary")
      BY <3>1 DEF Queued
    <3>3. QED
      BY <2>5, <3>2
      DEF Tick, BypassInv, OrdinaryBypassBounded, BypassIsCounted, IdleIsZero, NoneQueued
  <2>6. ASSUME UNCHANGED vars
        PROVE  OrdinaryBypassBounded' /\ BypassIsCounted' /\ IdleIsZero'
    BY <2>6
    DEF vars, BypassInv, OrdinaryBypassBounded, BypassIsCounted, IdleIsZero, NoneQueued, Queued
  <2>7. QED
    BY <2>1, <2>2, <2>3, <2>4, <2>5, <2>6 DEF Next
<1>3. QED
  BY <1>1, <1>2, TypeCorrect, PTL DEF Spec, BypassInv

-----------------------------------------------------------------------------
(* The ticket queue implements the abstract exclusive lease.               *)

\* The tokens of the leased rows: what the refinement maps to the holders.
Holders == {tickets[t].token : t \in Active(tickets)}

\* A step that grants nothing either leaves the holder or removes it.
LEMMA HolderStaysOrEnds ==
  ASSUME OneActiveLease, meta'.admitted = meta.admitted,
         \A t \in Tickets : tickets'[t].state = "leased" =>
            tickets[t].state = "leased" /\ tickets'[t].token = tickets[t].token
  PROVE  Lock!End \/ UNCHANGED <<Holders, meta.admitted>>
<1>1. CASE \E t \in Tickets : tickets'[t].state = "leased"
  <2>1. PICK t \in Tickets : tickets'[t].state = "leased"
    BY <1>1
  <2>2. Active(tickets) = {t}
    BY <2>1 DEF OneActiveLease, Active
  <2>3. Active(tickets') = {t}
    BY <2>1, <2>2 DEF Active
  <2>4. Holders = {tickets[t].token} /\ Holders' = {tickets'[t].token}
    BY <2>2, <2>3 DEF Holders
  <2>5. QED
    BY <2>1, <2>4
<1>2. CASE ~\E t \in Tickets : tickets'[t].state = "leased"
  <2>1. Holders' = {}
    BY <1>2 DEF Holders, Active
  <2>2. QED
    BY <2>1 DEF Lock!End, Holders
<1>3. QED
  BY <1>1, <1>2

\* Every behaviour of the coordinator is one of an exclusive lease whose
\* tokens are fresh: an owner that lost its lease never becomes owner again.
THEOREM RefinesLock == Spec => ImplementsLock
<1>1. Init => Lock!Init
  BY DEF Init, Lock!Init, Active, NoRow
<1>2. TypeOK /\ OneActiveLease /\ [Next]_vars => [Lock!Next]_<<Holders, meta.admitted>>
  <2> SUFFICES ASSUME TypeOK, OneActiveLease, [Next]_vars
               PROVE  Lock!Grant \/ Lock!End \/ UNCHANGED <<Holders, meta.admitted>>
    BY DEF Lock!Next
  <2>0. /\ ReclaimedAndPruned \in [Tickets -> Row]
        /\ ReclaimedMeta.admitted = meta.admitted
        /\ ReclaimedMeta \in Meta
        /\ \A t \in Tickets : ReclaimedAndPruned[t].state = "leased" =>
              ReclaimedAndPruned[t] = tickets[t]
    BY ReclaimFacts
  <2>1. ASSUME NEW t \in Tickets, Acquire(t)
        PROVE  Lock!Grant \/ Lock!End \/ UNCHANGED <<Holders, meta.admitted>>
    <3> DEFINE seen == SeenTable(t)
               token == meta.admitted + 1
    <3>1. /\ seen \in [Tickets -> Row] /\ ClassOf[t] \in Classes
          /\ \A u \in Tickets : seen[u].state = "leased" => seen[u] = tickets[u]
      BY SeenFacts, TicketAssumption
    <3>2. CASE Admits(t, seen, ReclaimedMeta)
      <4>1. /\ tickets' = [seen EXCEPT ![t] = LeasedRow(@, token)]
            /\ meta'.admitted = token
        BY <2>0, <2>1, <3>1, <3>2, AdmittedMetaType DEF Acquire
      <4>2. LeasedRow(seen[t], token).state = "leased" /\ LeasedRow(seen[t], token).token = token
        BY <3>1 DEF LeasedRow, Row
      <4>3. Active(seen) = {}
        BY <3>2 DEF Admits
      <4>4. Active(tickets') = {t}
        BY <3>1, <4>1, <4>2, <4>3 DEF Active
      <4>5. Holders' = {token}
        BY <3>1, <4>1, <4>2, <4>4 DEF Holders
      <4>6. QED
        BY <4>1, <4>5 DEF Lock!Grant, Holders
    <3>3. CASE ~Admits(t, seen, ReclaimedMeta)
      <4>1. tickets' = seen /\ meta' = ReclaimedMeta
        BY <2>1, <3>3 DEF Acquire
      <4>2. QED
        BY <2>0, <3>1, <4>1, HolderStaysOrEnds
    <3>4. QED
      BY <3>2, <3>3
  <2>2. ASSUME NEW t \in Tickets, NEW k \in 1..meta.admitted, Heartbeat(t, k)
        PROVE  Lock!Grant \/ Lock!End \/ UNCHANGED <<Holders, meta.admitted>>
    <3>1. ASSUME NEW r \in Row PROVE RenewedRow(r).token = r.token /\ RenewedRow(r).state = r.state
      BY DEF RenewedRow, Row
    <3>2. \A u \in Tickets : tickets'[u].state = "leased" =>
             tickets[u].state = "leased" /\ tickets'[u].token = tickets[u].token
      BY <2>0, <2>2, <3>1 DEF Heartbeat
    <3>3. QED
      BY <2>0, <2>2, <3>2, HolderStaysOrEnds DEF Heartbeat
  <2>3. ASSUME NEW t \in Tickets, NEW k \in 1..meta.admitted, Release(t, k)
        PROVE  Lock!Grant \/ Lock!End \/ UNCHANGED <<Holders, meta.admitted>>
    <3>1. CompletedRow(ReclaimedAndPruned[t]).state = "completed"
      BY <2>0 DEF CompletedRow, Row
    <3>2. \A u \in Tickets : tickets'[u].state = "leased" =>
             tickets[u].state = "leased" /\ tickets'[u].token = tickets[u].token
      BY <2>0, <2>3, <3>1 DEF Release
    <3>3. meta'.admitted = meta.admitted
      BY <2>0, <2>3 DEF Release, Meta
    <3>4. QED
      BY <3>2, <3>3, HolderStaysOrEnds
  <2>4. ASSUME Stats
        PROVE  Lock!Grant \/ Lock!End \/ UNCHANGED <<Holders, meta.admitted>>
    BY <2>0, <2>4, HolderStaysOrEnds DEF Stats
  <2>5. ASSUME Tick
        PROVE  Lock!Grant \/ Lock!End \/ UNCHANGED <<Holders, meta.admitted>>
    <3>1. ASSUME NEW r \in Row
          PROVE  TickedRow(r).state = r.state /\ TickedRow(r).token = r.token
      BY DEF TickedRow, Terminal, Row
    <3>2. \A u \in Tickets : tickets'[u].state = "leased" =>
             tickets[u].state = "leased" /\ tickets'[u].token = tickets[u].token
      BY <2>5, <3>1 DEF Tick, TypeOK
    <3>3. QED
      BY <2>5, <3>2, HolderStaysOrEnds DEF Tick
  <2>6. ASSUME UNCHANGED vars
        PROVE  Lock!Grant \/ Lock!End \/ UNCHANGED <<Holders, meta.admitted>>
    BY <2>6 DEF vars, Holders, Active
  <2>7. QED
    BY <2>1, <2>2, <2>3, <2>4, <2>5, <2>6 DEF Next
<1>3. QED
  BY <1>1, <1>2, TypeCorrect, ExclusiveLeases, PTL DEF Spec, ImplementsLock, Lock!Spec, Holders

-----------------------------------------------------------------------------
(* Both at once.                                                           *)

\* acquire and heartbeat keep one owner, whose lease no renewal takes past its
\* deadline.
THEOREM LeasesAreDisciplined == Spec => []LeaseDiscipline
BY ExclusiveLeases, PTL DEF LeaseDiscipline

-----------------------------------------------------------------------------
(* A waiting writer and an idle coordinator always make progress.          *)

\* Natural numbers have a least one among them.
LEMMA LeastNumber ==
  ASSUME NEW T, T \subseteq Nat, T # {}
  PROVE  \E x \in T : \A y \in T : x <= y
<1>1. PICK x \in T : \A y \in T : ~(<<y, x>> \in OpToRel(<, Nat))
  BY NatLessThanWellFounded, WFMin
<1>2. ASSUME NEW y \in T PROVE x <= y
  <2>1. ~(y < x)
    BY <1>1 DEF OpToRel
  <2>2. QED
    BY <2>1
<1>3. QED
  BY <1>2

\* The class that is served next has a ticket in the queue.
LEMMA ServedClassWaits ==
  ASSUME NEW tb, NEW m, NEW t \in Tickets, tb[t].state = "queued"
  PROVE  ~NoneQueued(tb, HeadClass(tb, m))
<1>1. ClassOf[t] \in Classes /\ ~NoneQueued(tb, ClassOf[t])
  BY TicketAssumption DEF NoneQueued, Queued
<1>2. CASE IntakeTurn(tb, m)
  BY <1>2 DEF HeadClass, IntakeTurn
<1>3. CASE ~IntakeTurn(tb, m) /\ BatchTurn(tb, m)
  BY <1>3 DEF HeadClass, BatchTurn
<1>4. CASE ~IntakeTurn(tb, m) /\ ~BatchTurn(tb, m)
  <2>1. ~NoneQueued(tb, "ordinary")
    BY <1>1, <1>4 DEF Classes, IntakeTurn, BatchTurn, PriorityBudgetAvailable
  <2>2. QED
    BY <1>4, <2>1 DEF HeadClass
<1>5. QED
  BY <1>2, <1>3, <1>4

\* queuedOrderSync never takes the first of an empty list.
THEOREM HeadExists == Spec => []WaitersHaveAHead
<1>1. TypeOK => WaitersHaveAHead
  <2> SUFFICES ASSUME TypeOK, NEW t \in Tickets, tickets[t].state = "queued"
               PROVE  \E u \in Tickets : IsQueuedHead(tickets, meta, u)
    BY DEF WaitersHaveAHead
  <2> DEFINE waiting == Queued(tickets, HeadClass(tickets, meta))
             seqs == {tickets[u].seq : u \in waiting}
  <2>1. seqs \subseteq Nat /\ seqs # {}
    BY ServedClassWaits DEF NoneQueued, Queued, TypeOK, Row
  <2>2. PICK n \in seqs : \A k \in seqs : n <= k
    BY <2>1, LeastNumber
  <2>3. PICK u \in waiting : tickets[u].seq = n
    OBVIOUS
  <2>4. u \in Tickets /\ IsQueuedHead(tickets, meta, u)
    BY <2>2, <2>3 DEF IsQueuedHead, Queued
  <2>5. QED
    BY <2>4
<1>2. QED
  BY <1>1, TypeCorrect, PTL

-----------------------------------------------------------------------------
(* The totals.                                                             *)

\* The live rows before the operation, after its reclaim, and those it ends.
LiveIn(tb) == {t \in Tickets : Live(tb[t])}
Ending == {t \in Tickets : Reclaimable(tickets[t])}

LEMMA LiveIsFinite ==
  ASSUME NEW tb
  PROVE  IsFiniteSet(LiveIn(tb)) /\ Cardinality(LiveIn(tb)) \in Nat
<1>1. IsFiniteSet(LiveIn(tb))
  BY TicketAssumption, FS_Subset DEF LiveIn
<1>2. QED
  BY <1>1, FS_CardinalityType

\* What reclaiming takes from the live rows it adds to the expired total.
LEMMA ReclaimBalances ==
  ASSUME TypeOK, TotalsBalance
  PROVE  seq = ReclaimedMeta.completed + ReclaimedMeta.expired
               + Cardinality(LiveIn(ReclaimedAndPruned))
<1>1. Ending \subseteq LiveIn(tickets)
  BY DEF Ending, LiveIn, Reclaimable, Live
<1>2. LiveIn(ReclaimedAndPruned) = LiveIn(tickets) \ Ending
  <2> SUFFICES ASSUME NEW t \in Tickets
               PROVE  Live(ReclaimedAndPruned[t])
                        <=> Live(tickets[t]) /\ ~Reclaimable(tickets[t])
    BY DEF LiveIn, Ending
  <2>1. tickets[t] \in Row
    BY DEF TypeOK
  <2>2. Live(ReclaimedRow(tickets[t])) <=> Live(tickets[t]) /\ ~Reclaimable(tickets[t])
    BY <2>1 DEF Live, ReclaimedRow, Row
  <2>3. Pruned(t) => ~Live(tickets[t])
    BY DEF Pruned, DueForPrune, Terminal, Live
  <2>4. ~Live(NoRow)
    BY DEF Live, NoRow
  <2>5. QED
    BY <2>2, <2>3, <2>4 DEF ReclaimedAndPruned
<1>3. IsFiniteSet(LiveIn(tickets)) /\ Cardinality(LiveIn(tickets)) \in Nat
  BY LiveIsFinite
<1>4. IsFiniteSet(Ending) /\ Cardinality(Ending) \in Nat
  BY <1>1, <1>3, FS_Subset, FS_CardinalityType
<1>5. Cardinality(LiveIn(tickets) \ Ending) = Cardinality(LiveIn(tickets)) - Cardinality(Ending)
  <2>1. LiveIn(tickets) \cap Ending = Ending
    BY <1>1
  <2>2. QED
    BY <1>3, <2>1, FS_Difference
<1>6. ReclaimedMeta.completed = meta.completed
      /\ ReclaimedMeta.expired = meta.expired + Cardinality(Ending)
  BY DEF ReclaimedMeta, ReclaimedCount, Ending, TypeOK, Meta
<1>7. seq = meta.completed + meta.expired + Cardinality(LiveIn(tickets))
  BY DEF TotalsBalance, LiveIn
<1>8. meta.completed \in Nat /\ meta.expired \in Nat
  BY DEF TypeOK, Meta
<1>9. QED
  BY <1>2, <1>3, <1>4, <1>5, <1>6, <1>7, <1>8

\* Every row ever inserted is counted once, whatever ends, removes or repeats it.
THEOREM TotalsStayBalanced == Spec => []TotalsBalance
<1>1. Init => TotalsBalance
  <2> SUFFICES ASSUME Init PROVE TotalsBalance
    OBVIOUS
  <2>1. {t \in Tickets : Live(tickets[t])} = {}
    BY DEF Init, Live, NoRow
  <2>2. QED
    BY <2>1, FS_EmptySet DEF Init, TotalsBalance
<1>2. TypeOK /\ TotalsBalance /\ [Next]_vars => TotalsBalance'
  <2> SUFFICES ASSUME TypeOK, TotalsBalance, [Next]_vars PROVE TotalsBalance'
    OBVIOUS
  <2> DEFINE tb == ReclaimedAndPruned
             m == ReclaimedMeta
  <2>1. tb \in [Tickets -> Row] /\ m \in Meta /\ seq \in Nat
    BY ReclaimFacts DEF TypeOK
  <2>2. seq = m.completed + m.expired + Cardinality(LiveIn(tb))
    BY ReclaimBalances
  <2>3. IsFiniteSet(LiveIn(tb)) /\ Cardinality(LiveIn(tb)) \in Nat
    BY LiveIsFinite
  <2>4. m.completed \in Nat /\ m.expired \in Nat
    BY <2>1 DEF Meta
  <2>5. TotalsBalance' <=> seq' = meta'.completed + meta'.expired + Cardinality(LiveIn(tickets'))
    BY DEF TotalsBalance, LiveIn
  <2> HIDE DEF tb, m
  <2>6. ASSUME seq' = seq, meta'.completed = m.completed, meta'.expired = m.expired,
               LiveIn(tickets') = LiveIn(tb)
        PROVE  TotalsBalance'
    BY <2>2, <2>5, <2>6
  <2>7. ASSUME NEW t \in Tickets, Acquire(t)
        PROVE  TotalsBalance'
    <3> DEFINE seen == SeenTable(t)
    <3>1. seen \in [Tickets -> Row]
      BY SeenFacts
    <3>2. LiveIn(tickets') = LiveIn(seen)
      <4>1. CASE ~Admits(t, seen, m)
        BY <2>7, <4>1 DEF Acquire, m
      <4>2. CASE Admits(t, seen, m)
        <5>1. tickets' = [seen EXCEPT ![t] = LeasedRow(@, meta.admitted + 1)]
          BY <2>7, <4>2 DEF Acquire, m
        <5>2. LeasedRow(seen[t], meta.admitted + 1).state = "leased" /\ seen[t].state = "queued"
          BY <3>1, <4>2 DEF LeasedRow, Row, Admits
        <5>3. \A u \in Tickets : Live(tickets'[u]) <=> Live(seen[u])
          BY <3>1, <5>1, <5>2 DEF Live
        <5>4. QED
          BY <5>3 DEF LiveIn
      <4>3. QED
        BY <4>1, <4>2
    <3>3. meta'.completed = m.completed /\ meta'.expired = m.expired
      BY <2>7 DEF Acquire, AdmittedMeta, m
    <3>4. CASE tb[t].state = "absent"
      <4>1. seq' = seq + 1
        BY <2>7, <3>4 DEF Acquire, tb
      <4>2. seen = [tb EXCEPT ![t] = InsertedRow(seq + 1)]
        BY <3>4 DEF SeenTable, tb
      <4>3. Live(InsertedRow(seq + 1)) /\ ~Live(tb[t])
        BY <3>4 DEF Live, InsertedRow, NoRow
      <4>4. LiveIn(seen) = LiveIn(tb) \cup {t} /\ t \notin LiveIn(tb)
        BY <2>1, <4>2, <4>3 DEF LiveIn
      <4>5. Cardinality(LiveIn(seen)) = Cardinality(LiveIn(tb)) + 1
        BY <2>3, <4>4, FS_AddElement
      <4>6. QED
        BY <2>1, <2>2, <2>3, <2>4, <2>5, <3>2, <3>3, <4>1, <4>5
    <3>5. CASE tb[t].state # "absent"
      <4>1. seq' = seq
        BY <2>7, <3>5 DEF Acquire, tb
      <4>2. \A u \in Tickets : seen[u].state = tb[u].state
        BY <2>1, <3>5 DEF SeenTable, tb, Row
      <4>3. LiveIn(seen) = LiveIn(tb)
        BY <4>2 DEF LiveIn, Live
      <4>4. QED
        BY <2>6, <3>2, <3>3, <4>1, <4>3
    <3>6. QED
      BY <3>4, <3>5
  <2>8. ASSUME NEW t \in Tickets, NEW k \in 1..meta.admitted, Heartbeat(t, k)
        PROVE  TotalsBalance'
    <3>1. \A r \in Row : RenewedRow(r).state = r.state
      BY DEF RenewedRow, Row
    <3>2. \A u \in Tickets : tickets'[u].state = tb[u].state
      BY <2>1, <2>8, <3>1 DEF Heartbeat, tb
    <3>3. LiveIn(tickets') = LiveIn(tb)
      BY <3>2 DEF LiveIn, Live
    <3>4. QED
      BY <2>6, <2>8, <3>3 DEF Heartbeat, m
  <2>9. ASSUME NEW t \in Tickets, NEW k \in 1..meta.admitted, Release(t, k)
        PROVE  TotalsBalance'
    <3>1. CASE ~Owns(tb, t, k)
      BY <2>6, <2>9, <3>1 DEF Release, tb, m
    <3>2. CASE Owns(tb, t, k)
      <4>1. tickets' = [tb EXCEPT ![t] = CompletedRow(@)] /\ seq' = seq
            /\ meta' = [m EXCEPT !.completed = @ + 1]
        BY <2>9, <3>2 DEF Release, tb, m
      <4>2. CompletedRow(tb[t]).state = "completed"
        BY <2>1 DEF CompletedRow, Row
      <4>3. LiveIn(tickets') = LiveIn(tb) \ {t} /\ t \in LiveIn(tb)
        BY <2>1, <3>2, <4>1, <4>2 DEF LiveIn, Live, Owns
      <4>4. Cardinality(LiveIn(tickets')) = Cardinality(LiveIn(tb)) - 1
        BY <2>3, <4>3, FS_RemoveElement
      <4>5. meta'.completed = m.completed + 1 /\ meta'.expired = m.expired
        BY <2>1, <4>1 DEF Meta
      <4>6. QED
        BY <2>1, <2>2, <2>3, <2>4, <2>5, <4>1, <4>4, <4>5
    <3>3. QED
      BY <3>1, <3>2
  <2>10. ASSUME Stats PROVE TotalsBalance'
    BY <2>6, <2>10 DEF Stats, tb, m
  <2>11. ASSUME Tick PROVE TotalsBalance'
    <3>1. \A r \in Row : TickedRow(r).state = r.state
      BY DEF TickedRow, Terminal, Row
    <3>2. \A u \in Tickets : tickets'[u].state = tickets[u].state
      BY <2>11, <3>1 DEF Tick, TypeOK
    <3>3. LiveIn(tickets') = LiveIn(tickets)
      BY <3>2 DEF LiveIn, Live
    <3>4. QED
      BY <2>5, <2>11, <3>3 DEF Tick, TotalsBalance, LiveIn
  <2>12. ASSUME UNCHANGED vars PROVE TotalsBalance'
    BY <2>12 DEF vars, TotalsBalance
  <2>13. QED
    BY <2>7, <2>8, <2>9, <2>10, <2>11, <2>12 DEF Next
<1>3. QED
  BY <1>1, <1>2, TypeCorrect, PTL DEF Spec

-----------------------------------------------------------------------------
(* No starvation of the priority classes.                                  *)

\* How often a waiting batch was passed: by one intake turn, which the counter
\* shows, then by an ordinary turn, which resets it, then by an intake turn again.
BatchPassed(b, m) ==
  \/ b <= 1 /\ b <= m.intakeTurns
  \/ m.batchTurns = 0 /\ m.intakeTurns <= 1 /\ b <= 2 + m.intakeTurns

\* How often a waiting intake was passed: by a batch, which either used up the
\* joint budget or reset the intake's counter, again by a batch when the ordinary
\* writers have left meanwhile, and by an ordinary turn, which resets both.
IntakePassed(i, m) ==
  \/ i = 0
  \/ i <= 1 /\ m.batchTurns + m.intakeTurns >= MAX_CONSECUTIVE_PRIORITY_TURNS
  \/ i <= 2 /\ m.intakeTurns = 0
  \/ i <= 3 /\ m.batchTurns = 0 /\ m.intakeTurns = 0

PassedInv == /\ BatchPassed(bypass["publication_batch"], meta)
             /\ IntakePassed(bypass["cluster_intake"], meta)

\* A turn of another class, taken from the table `seen` by the turn rules, while a
\* batch or an intake goes on waiting.
LEMMA TurnPassesBatch ==
  ASSUME NEW m \in Meta, NEW seen, NEW after, NEW b \in Nat, BatchPassed(b, m),
         HeadClass(seen, m) # "publication_batch",
         ~NoneQueued(seen, "publication_batch")
  PROVE  BatchPassed(b + 1, AdmittedMeta(m, after, HeadClass(seen, m)))
<1> DEFINE n == AdmittedMeta(m, after, HeadClass(seen, m))
<1>1. m.batchTurns \in Nat /\ m.intakeTurns \in Nat
  BY DEF Meta
<1>2. CASE HeadClass(seen, m) = "cluster_intake"
  <2>1. n.intakeTurns = m.intakeTurns + 1 /\ n.batchTurns \in {0, m.batchTurns}
    BY <1>2 DEF AdmittedMeta, IntakeTurnsAfter, BatchTurnsAfter
  <2>2. m.intakeTurns = 0
    BY <1>1, <1>2 DEF HeadClass, IntakeTurn, MAX_CONSECUTIVE_INTAKE_TURNS
  <2>3. QED
    BY <1>1, <2>1, <2>2 DEF BatchPassed
<1>3. CASE HeadClass(seen, m) = "ordinary"
  <2>1. n.intakeTurns = 0 /\ n.batchTurns = 0
    BY <1>3 DEF AdmittedMeta, IntakeTurnsAfter, BatchTurnsAfter
  <2>2. m.batchTurns + m.intakeTurns >= 2
    BY <1>1, <1>3 DEF HeadClass, BatchTurn, PriorityBudgetAvailable,
                     MAX_CONSECUTIVE_PRIORITY_TURNS, MAX_CONSECUTIVE_BATCH_TURNS
  <2>3. b <= 1
    BY <1>1, <2>2 DEF BatchPassed
  <2>4. QED
    BY <2>1, <2>3 DEF BatchPassed
<1>4. QED
  BY <1>2, <1>3 DEF HeadClass

LEMMA TurnPassesIntake ==
  ASSUME NEW m \in Meta, NEW seen, NEW after, NEW i \in Nat, IntakePassed(i, m),
         HeadClass(seen, m) # "cluster_intake",
         ~NoneQueued(seen, "cluster_intake"),
         HeadClass(seen, m) # "ordinary"
           => (NoneQueued(after, "ordinary") <=> NoneQueued(seen, "ordinary"))
  PROVE  IntakePassed(i + 1, AdmittedMeta(m, after, HeadClass(seen, m)))
<1> DEFINE n == AdmittedMeta(m, after, HeadClass(seen, m))
<1>1. m.batchTurns \in Nat /\ m.intakeTurns \in Nat
  BY DEF Meta
<1>2. CASE HeadClass(seen, m) = "publication_batch"
  <2>1. n.batchTurns = m.batchTurns + 1
        /\ n.intakeTurns = IF NoneQueued(seen, "ordinary") THEN 0 ELSE m.intakeTurns
    BY <1>2 DEF AdmittedMeta, IntakeTurnsAfter, BatchTurnsAfter
  <2>2. ~NoneQueued(seen, "ordinary") => m.batchTurns + m.intakeTurns < 2
    BY <1>2 DEF HeadClass, BatchTurn, PriorityBudgetAvailable, MAX_CONSECUTIVE_PRIORITY_TURNS
  <2>3. m.intakeTurns >= 1
    BY <1>1, <1>2 DEF HeadClass, IntakeTurn, BatchTurn, MAX_CONSECUTIVE_INTAKE_TURNS
  <2>4. i <= 1
    BY <1>1, <2>3 DEF IntakePassed
  <2>5. ~NoneQueued(seen, "ordinary") => i = 0
    BY <1>1, <2>2, <2>3 DEF IntakePassed, MAX_CONSECUTIVE_PRIORITY_TURNS
  <2>6. QED
    BY <1>1, <2>1, <2>3, <2>4, <2>5 DEF IntakePassed, MAX_CONSECUTIVE_PRIORITY_TURNS
<1>3. CASE HeadClass(seen, m) = "ordinary"
  <2>1. n.intakeTurns = 0 /\ n.batchTurns = 0
    BY <1>3 DEF AdmittedMeta, IntakeTurnsAfter, BatchTurnsAfter
  <2>2. m.batchTurns + m.intakeTurns >= 1
    BY <1>1, <1>3 DEF HeadClass, IntakeTurn, PriorityBudgetAvailable,
                     MAX_CONSECUTIVE_PRIORITY_TURNS, MAX_CONSECUTIVE_INTAKE_TURNS
  <2>3. i <= 2
    BY <1>1, <2>2 DEF IntakePassed
  <2>4. QED
    BY <2>1, <2>3 DEF IntakePassed
<1>4. QED
  BY <1>2, <1>3 DEF HeadClass

\* A step that admits nobody leaves the counts or forgets them.
LEMMA NoAdmissionPasses ==
  ASSUME TypeOK, PassedInv, NEW tb, Observe(tb, {}),
         meta'.batchTurns = meta.batchTurns,
         meta'.intakeTurns = meta.intakeTurns
  PROVE  PassedInv'
<1>1. \A c \in Classes : bypass'[c] = 0 \/ bypass'[c] = bypass[c]
  BY DEF Observe
<1>2. meta.batchTurns \in Nat /\ meta.intakeTurns \in Nat
  BY DEF TypeOK, Meta
<1>3. QED
  BY <1>1, <1>2 DEF PassedInv, BatchPassed, IntakePassed, Classes

\* A waiting batch or intake is passed three times at most.
THEOREM PriorityNeverStarves == Spec => []PriorityBypassBounded
<1>1. Init => PassedInv
  BY DEF Init, PassedInv, BatchPassed, IntakePassed, Classes
<1>2. TypeOK /\ PassedInv /\ [Next]_vars => PassedInv'
  <2> SUFFICES ASSUME TypeOK, PassedInv, [Next]_vars PROVE PassedInv'
    OBVIOUS
  <2>1. /\ ReclaimedMeta.batchTurns = meta.batchTurns
        /\ ReclaimedMeta.intakeTurns = meta.intakeTurns
        /\ ReclaimedMeta \in Meta
    BY ReclaimFacts
  <2>2. ASSUME NEW t \in Tickets, Acquire(t)
        PROVE  PassedInv'
    <3> DEFINE seen == SeenTable(t)
               c == ClassOf[t]
               m == ReclaimedMeta
    <3>1. seen \in [Tickets -> Row] /\ c \in Classes
      BY SeenFacts, TicketAssumption
    <3>2. CASE ~Admits(t, seen, m)
      <4>1. meta' = m /\ Observe(seen, {})
        BY <2>2, <3>2 DEF Acquire
      <4>2. QED
        BY <2>1, <4>1, NoAdmissionPasses
    <3>3. CASE Admits(t, seen, m)
      <4> DEFINE tb == [seen EXCEPT ![t] = LeasedRow(@, meta.admitted + 1)]
      <4>1. meta' = AdmittedMeta(m, tb, c) /\ Observe(tb, {c})
        BY <2>2, <3>3 DEF Acquire
      <4>2. c = HeadClass(seen, m)
        BY <3>3 DEF Admits, IsQueuedHead, Queued
      <4>3. \A d \in Classes : d # c => (NoneQueued(tb, d) <=> NoneQueued(seen, d))
        BY <3>1 DEF NoneQueued, Queued
      <4>4. \A d \in Classes :
              bypass'[d] = IF NoneQueued(tb, d) \/ d = c THEN 0 ELSE bypass[d] + 1
        BY <4>1 DEF Observe
      <4>5. \A d \in Classes : bypass[d] \in Nat
        BY DEF TypeOK
      <4>6. meta'.batchTurns \in Nat /\ meta'.intakeTurns \in Nat
        BY <2>1, <3>1, <4>1, AdmittedMetaType DEF Meta
      <4> HIDE DEF tb, m, seen, c
      <4>7. BatchPassed(bypass'["publication_batch"], meta')
        <5> DEFINE b == bypass["publication_batch"]
        <5>1. CASE bypass'["publication_batch"] = 0
          BY <4>6, <5>1 DEF BatchPassed
        <5>2. CASE bypass'["publication_batch"] # 0
          <6>1. c # "publication_batch" /\ bypass'["publication_batch"] = b + 1
                /\ ~NoneQueued(seen, "publication_batch")
            BY <4>3, <4>4, <5>2 DEF Classes
          <6>2. b \in Nat /\ BatchPassed(b, m)
            BY <2>1, <4>5 DEF Classes, PassedInv, BatchPassed, m
          <6>3. QED
            BY <2>1, <4>1, <4>2, <6>1, <6>2, TurnPassesBatch DEF m
        <5>3. QED
          BY <5>1, <5>2
      <4>8. IntakePassed(bypass'["cluster_intake"], meta')
        <5> DEFINE i == bypass["cluster_intake"]
        <5>1. CASE bypass'["cluster_intake"] = 0
          BY <5>1 DEF IntakePassed
        <5>2. CASE bypass'["cluster_intake"] # 0
          <6>1. c # "cluster_intake" /\ bypass'["cluster_intake"] = i + 1
                /\ ~NoneQueued(seen, "cluster_intake")
            BY <4>3, <4>4, <5>2 DEF Classes
          <6>2. i \in Nat /\ IntakePassed(i, m)
            BY <2>1, <4>5 DEF Classes, PassedInv, IntakePassed, m
          <6>3. c # "ordinary" => (NoneQueued(tb, "ordinary") <=> NoneQueued(seen, "ordinary"))
            BY <4>3 DEF Classes
          <6>4. QED
            BY <2>1, <4>1, <4>2, <6>1, <6>2, <6>3, TurnPassesIntake DEF m
        <5>3. QED
          BY <5>1, <5>2
      <4>9. QED
        BY <4>7, <4>8 DEF PassedInv
    <3>4. QED
      BY <3>2, <3>3
  <2>3. ASSUME NEW t \in Tickets, NEW k \in 1..meta.admitted, Heartbeat(t, k)
        PROVE  PassedInv'
    BY <2>1, <2>3, NoAdmissionPasses DEF Heartbeat
  <2>4. ASSUME NEW t \in Tickets, NEW k \in 1..meta.admitted, Release(t, k)
        PROVE  PassedInv'
    <3>1. meta'.batchTurns = meta.batchTurns /\ meta'.intakeTurns = meta.intakeTurns
      BY <2>1, <2>4 DEF Release, Meta
    <3>2. QED
      BY <2>4, <3>1, NoAdmissionPasses DEF Release
  <2>5. ASSUME Stats PROVE PassedInv'
    BY <2>1, <2>5, NoAdmissionPasses DEF Stats
  <2>6. ASSUME UNCHANGED <<meta, bypass>> PROVE PassedInv'
    BY <2>6 DEF PassedInv
  <2>7. QED
    BY <2>2, <2>3, <2>4, <2>5, <2>6 DEF Next, Tick, vars
<1>3. TypeOK /\ PassedInv => PriorityBypassBounded
  BY DEF TypeOK, Meta, Classes, PassedInv, BatchPassed, IntakePassed, PriorityBypassBounded,
         MAX_CONSECUTIVE_PRIORITY_TURNS
<1>4. QED
  BY <1>1, <1>2, <1>3, TypeCorrect, PTL DEF Spec

=============================================================================
