----------------------- MODULE StateWriterCoordinator -----------------------
(***************************************************************************)
(* The durable ticket queue that serialises writers of the state branch:   *)
(* dashboard/state-writer-coordinator.ts.  Every operation is one SQLite   *)
(* transaction of a Durable Object, hence one atomic action.               *)
(*                                                                         *)
(* Time.  The code stores absolute times and compares them with Date.now().*)
(* The model stores the differences instead (how long a lease still lasts, *)
(* how long a row was not seen, how long it has been terminal) and one     *)
(* action, Tick, moves them all.  Ages stop at the threshold past which    *)
(* the code cannot tell them apart, so time itself needs no bound.         *)
(***************************************************************************)
EXTENDS Integers, FiniteSets

CONSTANTS
  Tickets,        \* ticket ids; a client draws one, and its owner id, at random
  ClassOf,        \* the writer class each ticket asks for
  LeaseMs,        \* lease renewal, in ticks
  QueuedStaleMs,  \* a queued ticket not polled for this long is reclaimed
  MaxLeaseAgeMs,  \* absolute cap of one ownership
  RetentionMs,    \* how long terminal rows are kept
  PruneLimit,     \* rows one operation may delete
  MaxSeq          \* bound: rows ever inserted

Classes == {"ordinary", "publication_batch", "cluster_intake"}

MAX_CONSECUTIVE_BATCH_TURNS == 2
MAX_CONSECUTIVE_INTAKE_TURNS == 1
MAX_CONSECUTIVE_PRIORITY_TURNS == 2

ASSUME TicketAssumption ==
  /\ ClassOf \in [Tickets -> Classes]
  /\ IsFiniteSet(Tickets)
ASSUME TimeAssumption ==
  /\ LeaseMs \in Nat \ {0} /\ QueuedStaleMs \in Nat \ {0}
  /\ MaxLeaseAgeMs \in Nat \ {0} /\ RetentionMs \in Nat \ {0}
  /\ PruneLimit \in Nat \ {0} /\ MaxSeq \in Nat

VARIABLES
  tickets,  \* the ticket table: ticket id -> row (state "absent": no row)
  seq,      \* the AUTOINCREMENT high-water mark; never reused
  meta,     \* the singleton row of totals and turn counters
  bypass    \* history: class -> admissions of other classes while it waited

vars == <<tickets, seq, meta, bypass>>

-----------------------------------------------------------------------------
(* Rows.                                                                   *)

Smaller(a, b) == IF a <= b THEN a ELSE b

NoToken == 0

RowStates == {"absent", "queued", "leased", "completed", "expired"}

Row == [state      : RowStates,
        seq        : Nat,
        token      : Nat,   \* crypto.randomUUID(): fresh at every admission
        unseenFor  : 0..QueuedStaleMs,   \* now - last_seen_at
        expiresIn  : Int,                \* lease_expires_at - now
        deadlineIn : Int,                \* lease_deadline_at - now
        terminalFor: 0..(RetentionMs + 1)]  \* now - completed_at

NoRow == [state |-> "absent", seq |-> 0, token |-> NoToken, unseenFor |-> 0,
          expiresIn |-> 0, deadlineIn |-> 0, terminalFor |-> 0]

\* INSERT ... VALUES (..., 'queued', now, now)
InsertedRow(n) == [NoRow EXCEPT !.state = "queued", !.seq = n]

Terminal(r) == r.state \in {"completed", "expired"}
Live(r)     == r.state \in {"queued", "leased"}

Meta == [admitted: Nat, completed: Nat, expired: Nat,
         batchTurns: Nat, intakeTurns: Nat]

-----------------------------------------------------------------------------
(* reclaimAndPruneSync: the first thing every operation does.              *)

\* Mutant: only queued tickets are reclaimed.
MutantReclaimable(r) == r.state = "queued" /\ r.unseenFor >= QueuedStaleMs

Reclaimable(r) ==
  \/ r.state = "leased" /\ (r.expiresIn <= 0 \/ r.deadlineIn <= 0)
  \/ r.state = "queued" /\ r.unseenFor >= QueuedStaleMs

ReclaimedRow(r) ==
  IF Reclaimable(r)
  THEN [r EXCEPT !.state = "expired", !.terminalFor = 0, !.expiresIn = 0]
  ELSE r

\* Mutant: stale queued tickets are reclaimed but not counted.
MutantReclaimedCount == Cardinality({t \in Tickets : /\ tickets[t].state = "leased"
                                                     /\ Reclaimable(tickets[t])})

ReclaimedCount == Cardinality({t \in Tickets : Reclaimable(tickets[t])})

\* A terminal row of this operation has age 0, so the rows due for deletion
\* are the terminal ones of the state the operation starts in.
DueForPrune == {t \in Tickets : /\ Terminal(tickets[t])
                                /\ tickets[t].terminalFor >= RetentionMs}

\* ORDER BY completed_at, seq
PruneBefore(u, t) ==
  \/ tickets[u].terminalFor > tickets[t].terminalFor
  \/ /\ tickets[u].terminalFor = tickets[t].terminalFor
     /\ tickets[u].seq < tickets[t].seq

Pruned(t) ==
  /\ t \in DueForPrune
  /\ Cardinality({u \in DueForPrune : PruneBefore(u, t)}) < PruneLimit

ReclaimedAndPruned ==
  [t \in Tickets |-> IF Pruned(t) THEN NoRow ELSE ReclaimedRow(tickets[t])]

ReclaimedMeta == [meta EXCEPT !.expired = @ + ReclaimedCount]

-----------------------------------------------------------------------------
(* queuedHeadSync: the class that is served next, then FIFO inside it.     *)

Queued(tb, c) == {t \in Tickets : tb[t].state = "queued" /\ ClassOf[t] = c}

Active(tb) == {t \in Tickets : tb[t].state = "leased"}

NoneQueued(tb, c) == Queued(tb, c) = {}

\* Mutant: the joint budget of the two priority classes is dropped.
MutantPriorityBudget(tb, m) == TRUE

PriorityBudgetAvailable(tb, m) ==
  \/ NoneQueued(tb, "ordinary")
  \/ m.batchTurns + m.intakeTurns < MAX_CONSECUTIVE_PRIORITY_TURNS

\* Mutant: intake turns are not limited against batches.
MutantIntakeTurn(tb, m) ==
  ~NoneQueued(tb, "cluster_intake") /\ PriorityBudgetAvailable(tb, m)

IntakeTurn(tb, m) ==
  /\ ~NoneQueued(tb, "cluster_intake")
  /\ PriorityBudgetAvailable(tb, m)
  /\ \/ NoneQueued(tb, "publication_batch") /\ NoneQueued(tb, "ordinary")
     \/ m.intakeTurns < MAX_CONSECUTIVE_INTAKE_TURNS

\* Mutant: the batch limit holds even when no ordinary writer waits.
MutantBatchTurn(tb, m) ==
  /\ ~NoneQueued(tb, "publication_batch")
  /\ PriorityBudgetAvailable(tb, m)
  /\ m.batchTurns < MAX_CONSECUTIVE_BATCH_TURNS

BatchTurn(tb, m) ==
  /\ ~NoneQueued(tb, "publication_batch")
  /\ PriorityBudgetAvailable(tb, m)
  /\ \/ NoneQueued(tb, "ordinary")
     \/ m.batchTurns < MAX_CONSECUTIVE_BATCH_TURNS

HeadClass(tb, m) == IF IntakeTurn(tb, m) THEN "cluster_intake"
                    ELSE IF BatchTurn(tb, m) THEN "publication_batch"
                    ELSE "ordinary"

IsQueuedHead(tb, m, t) ==
  /\ t \in Queued(tb, HeadClass(tb, m))
  /\ \A u \in Queued(tb, HeadClass(tb, m)) : tb[t].seq <= tb[u].seq

-----------------------------------------------------------------------------
(* Admission: the lease and the turn counters.                             *)

LeasedRow(r, token) ==
  [r EXCEPT !.state = "leased", !.token = token, !.unseenFor = 0,
            !.expiresIn = Smaller(LeaseMs, MaxLeaseAgeMs),
            !.deadlineIn = MaxLeaseAgeMs]

\* The turn counters after a turn of class c.  tb is the table after the
\* admission, as the NOT EXISTS subqueries of the update see it.
BatchTurnsAfter(m, tb, c) ==
  CASE c = "publication_batch" -> m.batchTurns + 1
    [] c = "ordinary" -> 0
    [] c = "cluster_intake" -> IF NoneQueued(tb, "ordinary") THEN 0 ELSE m.batchTurns

IntakeTurnsAfter(m, tb, c) ==
  CASE c = "cluster_intake" -> m.intakeTurns + 1
    [] c = "ordinary" -> 0
    [] c = "publication_batch" -> IF NoneQueued(tb, "ordinary") THEN 0 ELSE m.intakeTurns

AdmittedMeta(m, tb, c) ==
  [admitted    |-> m.admitted + 1,
   completed   |-> m.completed,
   expired     |-> m.expired,
   batchTurns  |-> BatchTurnsAfter(m, tb, c),
   intakeTurns |-> IntakeTurnsAfter(m, tb, c)]

\* History: how often a waiting class was passed over.  admitted is the set of
\* classes this operation admitted (at most one).
Observe(tb, admitted) ==
  bypass' = [c \in Classes |->
               IF NoneQueued(tb, c) \/ c \in admitted THEN 0
               ELSE IF admitted # {} THEN bypass[c] + 1
               ELSE bypass[c]]

-----------------------------------------------------------------------------
(* Operations.                                                             *)

Init ==
  /\ tickets = [t \in Tickets |-> NoRow]
  /\ seq = 0
  /\ meta = [admitted |-> 0, completed |-> 0, expired |-> 0,
             batchTurns |-> 0, intakeTurns |-> 0]
  /\ bypass = [c \in Classes |-> 0]

\* The table of an acquire after the insert and the last_seen_at update.
SeenTable(t) ==
  LET tb == ReclaimedAndPruned
  IN  [tb EXCEPT ![t] =
         CASE @.state = "absent" -> InsertedRow(seq + 1)
           [] @.state = "queued" -> [@ EXCEPT !.unseenFor = 0]
           [] OTHER -> @]

\* Mutant: the head is admitted although another ticket is leased.
MutantAdmits(t, tb, m) == tb[t].state = "queued" /\ IsQueuedHead(tb, m, t)

Admits(t, tb, m) ==
  /\ tb[t].state = "queued"
  /\ Active(tb) = {}
  /\ IsQueuedHead(tb, m, t)

\* acquire: insert or find the ticket, refresh it while queued, and lease it
\* when nobody holds a lease and it is the head of the queue.  A terminal or a
\* leased ticket is answered as it is.
Acquire(t) ==
  LET fresh    == ReclaimedAndPruned[t].state = "absent"
      seen     == SeenTable(t)
      admitted == Admits(t, seen, ReclaimedMeta)
      token    == meta.admitted + 1
      tb       == IF admitted THEN [seen EXCEPT ![t] = LeasedRow(@, token)] ELSE seen
  IN  /\ fresh => seq < MaxSeq
      /\ tickets' = tb
      /\ seq' = IF fresh THEN seq + 1 ELSE seq
      /\ meta' = IF admitted
                 THEN AdmittedMeta(ReclaimedMeta, tb, ClassOf[t])
                 ELSE ReclaimedMeta
      /\ Observe(tb, IF admitted THEN {ClassOf[t]} ELSE {})

\* The row a caller's ticket id, owner and token name, still owned.
Owns(tb, t, token) == tb[t].state = "leased" /\ tb[t].token = token

\* Mutant: a renewal is not capped by the deadline.
MutantRenewedRow(r) == [r EXCEPT !.unseenFor = 0, !.expiresIn = LeaseMs]

\* Mutant: a heartbeat records that the writer was seen and forgets to renew.
MutantUnrenewedRow(r) == [r EXCEPT !.unseenFor = 0]

\* heartbeat: renews a lease its caller still owns, never past its deadline.
RenewedRow(r) == [r EXCEPT !.unseenFor = 0,
                           !.expiresIn = Smaller(LeaseMs, r.deadlineIn)]

Heartbeat(t, token) ==
  LET tb == ReclaimedAndPruned
  IN  /\ tickets' = IF Owns(tb, t, token)
                    THEN [tb EXCEPT ![t] = RenewedRow(@)]
                    ELSE tb
      /\ meta' = ReclaimedMeta
      /\ UNCHANGED seq
      /\ Observe(tickets', {})

\* release: completes a lease its caller still owns; a repeat of a release
\* that already completed is acknowledged and changes nothing.
CompletedRow(r) == [r EXCEPT !.state = "completed", !.unseenFor = 0,
                             !.terminalFor = 0, !.expiresIn = 0]

Release(t, token) ==
  LET tb == ReclaimedAndPruned
  IN  /\ IF Owns(tb, t, token)
         THEN /\ tickets' = [tb EXCEPT ![t] = CompletedRow(@)]
              /\ meta' = [ReclaimedMeta EXCEPT !.completed = @ + 1]
         ELSE /\ tickets' = tb
              /\ meta' = ReclaimedMeta
      /\ UNCHANGED seq
      /\ Observe(tickets', {})

\* What release answers: the repeat of a release that completed is a success.
ReleaseAcknowledged(t, token) ==
  LET tb == ReclaimedAndPruned
  IN  Owns(tb, t, token) \/ (tb[t].state = "completed" /\ tb[t].token = token)

\* stats: a read that reclaims and prunes first.
Stats ==
  /\ tickets' = ReclaimedAndPruned
  /\ meta' = ReclaimedMeta
  /\ UNCHANGED seq
  /\ Observe(tickets', {})

\* Time passes by one unit for every row.
CountedDown(n) == IF n > 0 THEN n - 1 ELSE n

TickedRow(r) ==
  CASE r.state = "queued" ->
         [r EXCEPT !.unseenFor = Smaller(r.unseenFor + 1, QueuedStaleMs)]
    [] r.state = "leased" ->
         [r EXCEPT !.expiresIn = CountedDown(r.expiresIn),
                   !.deadlineIn = CountedDown(r.deadlineIn)]
    [] Terminal(r) ->
         [r EXCEPT !.terminalFor = Smaller(r.terminalFor + 1, RetentionMs + 1)]
    [] OTHER -> r

Tick ==
  /\ tickets' = [t \in Tickets |-> TickedRow(tickets[t])]
  /\ UNCHANGED <<seq, meta, bypass>>

\* Callers present any token ever issued: requests are retried, delayed and
\* repeated by watchdogs that outlive the writer.
Next ==
  \/ \E t \in Tickets : Acquire(t)
  \/ \E t \in Tickets : \E k \in 1..meta.admitted : Heartbeat(t, k)
  \/ \E t \in Tickets : \E k \in 1..meta.admitted : Release(t, k)
  \/ Stats
  \/ Tick

Spec == Init /\ [][Next]_vars

-----------------------------------------------------------------------------
(* What the coordinator promises.                                          *)

\* Type invariant: rows, totals and turn counters keep the shape the STRICT
\* tables declare.
TypeOK ==
  /\ tickets \in [Tickets -> Row]
  /\ seq \in Nat
  /\ meta \in Meta
  /\ bypass \in [Classes -> Nat]

\* At most one ticket is leased: acquire's "no active row" test, which the
\* unique index state_writer_one_active_ticket backs up, after any reclaim.
OneActiveLease ==
  \A t, u \in Tickets :
     tickets[t].state = "leased" /\ tickets[u].state = "leased" => t = u

\* A lease never outlives its absolute deadline, however often it is renewed:
\* the MIN(now + lease, deadline) of acquire and heartbeat.
LeaseWithinDeadline ==
  \A t \in Tickets :
     tickets[t].state = "leased" =>
       /\ tickets[t].expiresIn <= tickets[t].deadlineIn
       /\ tickets[t].deadlineIn <= MaxLeaseAgeMs

\* What the repository's writers rely on, after any reclaim, renewal or repeated
\* call: one owner, and for a bounded time.
LeaseDiscipline == OneActiveLease /\ LeaseWithinDeadline

\* Every row ever inserted is completed, expired or still live, and is counted
\* once: the totals agree with the table across reclaim, release and prune.
TotalsBalance ==
  seq = meta.completed + meta.expired
        + Cardinality({t \in Tickets : Live(tickets[t])})

\* "after two such turns an ordinary writer is guaranteed the next lease":
\* queuedOrderSync never lets priority classes pass a waiting ordinary writer
\* more than twice, whatever expires or arrives in between.
OrdinaryBypassBounded == bypass["ordinary"] <= MAX_CONSECUTIVE_PRIORITY_TURNS

\* Why it holds: while an ordinary writer waits, the turn counters record at
\* least the turns that passed it, because only an ordinary turn resets them.
BypassIsCounted ==
  \/ NoneQueued(tickets, "ordinary")
  \/ bypass["ordinary"] <= meta.batchTurns + meta.intakeTurns

\* The priority classes cannot starve each other either: one ordinary turn and
\* at most two turns of the other priority class pass a waiting one.
PriorityBypassBounded ==
  /\ bypass["publication_batch"] <= MAX_CONSECUTIVE_PRIORITY_TURNS + 1
  /\ bypass["cluster_intake"] <= MAX_CONSECUTIVE_PRIORITY_TURNS + 1

\* The queue always has a head while a ticket waits (the ordinary.shift()! of
\* queuedOrderSync is never applied to an empty list), so an idle coordinator
\* with waiting writers can always admit one of them.
WaitersHaveAHead ==
  (\E t \in Tickets : tickets[t].state = "queued") =>
     \E t \in Tickets : IsQueuedHead(tickets, meta, t)

\* The abstract lock: at most one holder, a lease that ended never comes back,
\* every grant carries a token that was never issued before.
Lock == INSTANCE ExclusiveLease
          WITH holders <- {tickets[t].token : t \in Active(tickets)},
               issued  <- meta.admitted

\* The ticket queue implements the abstract lock.
ImplementsLock == Lock!Spec

=============================================================================
