----------------------- MODULE ExactReviewQueueProofs -----------------------
(***************************************************************************)
(* Proofs about the review lane of the exact-review queue, for callers     *)
(* that may send anything at any time, any set of items and any limits.    *)
(*                                                                         *)
(* All steps but one, the alarm's commit, only let single items evolve: an *)
(* item's lease is kept with its holder, or given up (Evolves).  The commit*)
(* is the only one that writes leases, with ids that were never used.      *)
(***************************************************************************)
EXTENDS ExactReviewQueue, FiniteSetTheorems, TLAPS

(* The pull requests this alarm may yet write a lease for. *)
Candidates == {k \in Keys : alarm.cand[k] # 0 /\ ~alarm.parked[k]}

(* The admission made before the first await is still good after it.       *)
AdmissionFits ==
  alarm.pc = "probing" => Cardinality(ActiveReviews(items) \cup Candidates) <= Capacity

(* CapacityRespected alone is not inductive: the commit relies on what the *)
(* admission counted, and on leases existing only where an item is active. *)
IInv == QueueTypeOK /\ LeasesConsistent /\ CapacityRespected /\ AdmissionFits

Evolves(old, new, seq) ==
  /\ new \in Item /\ LeaseConsistent(new, seq)
  /\ new.lease.id # NoLeaseId => /\ new.lease.id = old.lease.id
                                 /\ SameHands(old.lease, new.lease)

Inactive == {"absent", "pending", "parked"}

-----------------------------------------------------------------------------
(* Items.                                                                  *)

(* The empty records have their types. *)
LEMMA EmptyRecords == NoDecision \in Decision /\ NoLease \in Lease /\ Absent \in Item
<1>1. NoDecision \in Decision
  BY DEF NoDecision, Decision, Actions, NoHead, NoMarker
<1>2. NoLease \in Lease
  BY <1>1 DEF NoLease, Lease, NoLeaseId, NoRun, Phases
<1>3. NoWatermark \in Watermark
  BY DEF NoWatermark, Watermark
<1>. QED
  BY <1>1, <1>2, <1>3 DEF Absent, Item, ItemStates

(* An item that gives up its lease evolves. *)
LEMMA Freed ==
  ASSUME NEW old \in Item, NEW new \in Item, NEW seq \in Nat,
         new.state \in Inactive, new.lease = NoLease
  PROVE  Evolves(old, new, seq)
BY DEF Evolves, LeaseConsistent, Active, Inactive, NoLease, NoLeaseId, NoRun, Item

(* An item without a lease may move to any other inactive state. *)
LEMMA Idle ==
  ASSUME NEW old \in Item, NEW new \in Item, NEW seq \in Nat,
         LeaseConsistent(old, seq), old.state \in Inactive,
         new.state \in Inactive, new.lease = old.lease, new.revision >= old.revision
  PROVE  Evolves(old, new, seq)
BY DEF Evolves, LeaseConsistent, Active, Inactive, NoLeaseId, NoRun, Item, Lease

(* An item evolves when it keeps its state and its lease's claim. *)
LEMMA Kept ==
  ASSUME NEW old \in Item, NEW new \in Item, NEW seq \in Nat,
         LeaseConsistent(old, seq), new.state = old.state,
         new.revision >= old.revision,
         new.lease.id = old.lease.id, new.lease.run = old.lease.run,
         new.lease.attempt = old.lease.attempt,
         new.lease.revision = old.lease.revision,
         new.lease.decision = old.lease.decision,
         \/ new.lease.superseding = old.lease.superseding
         \/ new.lease.superseding = new.revision /\ new.revision > old.revision
  PROVE  Evolves(old, new, seq)
BY DEF Evolves, SameHands, LeaseConsistent, Active, Item, Lease

LEMMA RequeuedItem ==
  ASSUME NEW item \in Item
  PROVE  /\ Requeued(item) \in Item
         /\ Requeued(item).state = "pending" /\ Requeued(item).lease = NoLease
         /\ Requeued(item).revision = item.revision
         /\ Requeued(item).failures = item.failures
         /\ Requeued(item).decision = item.decision
         /\ Requeued(item).recoveries = item.recoveries
BY EmptyRecords DEF Requeued, Item, ItemStates

LEMMA FailedOnceItem ==
  ASSUME NEW item \in Item
  PROVE  /\ FailedOnce(item) \in Item
         /\ FailedOnce(item).state \in {"pending", "parked"}
         /\ FailedOnce(item).lease = item.lease
         /\ FailedOnce(item).revision = item.revision
<1>1. ASSUME NEW n \in Nat, NEW s \in {"pending", "parked"}
      PROVE  LET new == [item EXCEPT !.failures = n, !.state = s]
             IN  new \in Item /\ new.state = s /\ new.lease = item.lease
                 /\ new.revision = item.revision
  BY DEF Item, ItemStates
<1>2. item.failures + 1 \in Nat
  BY DEF Item
<1> DEFINE s == IF item.failures + 1 >= RetryLimit THEN "parked" ELSE "pending"
<1>3. s \in {"pending", "parked"}
  OBVIOUS
<1>. QED
  BY <1>1, <1>2, <1>3 DEF FailedOnce

(* reclaimExpiredExactReviewLease lets an item evolve. *)
LEMMA ReclaimedEvolves ==
  ASSUME NEW item \in Item, NEW seq \in Nat, LeaseConsistent(item, seq)
  PROVE  Evolves(item, Reclaimed(item), seq)
<1>1. CASE ~Active(item) \/ Live(item)
  <2>1. Reclaimed(item) = item
    BY <1>1 DEF Reclaimed
  <2>. QED
    BY <2>1, Kept DEF Item
<1>2. CASE ~(~Active(item) \/ Live(item))
  <2>1. Absent \in Item /\ Absent.state \in Inactive /\ Absent.lease = NoLease
    BY EmptyRecords DEF Absent, Inactive
  <2>2. ASSUME NEW n \in Nat
        PROVE  /\ [Requeued(item) EXCEPT !.failures = n] \in Item
               /\ [Requeued(item) EXCEPT !.failures = n].state \in Inactive
               /\ [Requeued(item) EXCEPT !.failures = n].lease = NoLease
    BY RequeuedItem DEF Item, Inactive
  <2>3. item.failures \in Nat
    BY DEF Item
  <2>4. /\ Reclaimed(item) \in Item /\ Reclaimed(item).state \in Inactive
        /\ Reclaimed(item).lease = NoLease
    BY <1>2, <2>1, <2>2, <2>3 DEF Reclaimed
  <2>. QED
    BY <2>4, Freed
<1>. QED
  BY <1>1, <1>2

(* finishExactReviewQueueItem gives up the lease in every outcome. *)
LEMMA FinishedEvolves ==
  ASSUME NEW item \in Item, NEW seq \in Nat, NEW report \in Report
  PROVE  Evolves(item, Finished(item, report), seq)
<1>1. Absent \in Item /\ Absent.state \in Inactive /\ Absent.lease = NoLease
  BY EmptyRecords DEF Absent, Inactive
<1>2. /\ Requeued(item) \in Item /\ Requeued(item).state \in Inactive
      /\ Requeued(item).lease = NoLease
  BY RequeuedItem DEF Inactive
<1>3. /\ FailedOnce(Requeued(item)) \in Item
      /\ FailedOnce(Requeued(item)).state \in Inactive
      /\ FailedOnce(Requeued(item)).lease = NoLease
  BY RequeuedItem, FailedOnceItem DEF Inactive
<1> DEFINE renewed == [Requeued(item) EXCEPT !.failures = 0, !.recoveries = 0]
<1>4. renewed \in Item /\ renewed.state \in Inactive /\ renewed.lease = NoLease
  BY RequeuedItem DEF Item, Inactive
<1>5. Finished(item, report) \in {Absent, Requeued(item), FailedOnce(Requeued(item)), renewed}
  BY DEF Finished
<1>6. /\ Finished(item, report) \in Item /\ Finished(item, report).state \in Inactive
      /\ Finished(item, report).lease = NoLease
  <2> HIDE DEF renewed
  <2>. QED
    BY <1>1, <1>2, <1>3, <1>4, <1>5
<1>. QED
  BY <1>6, Freed

(* recoverParkedExactReviewItems resumes a parked item. *)
LEMMA RecoveredEvolves ==
  ASSUME NEW item \in Item, NEW seq \in Nat, LeaseConsistent(item, seq), Recoverable(item)
  PROVE  Evolves(item, Recovered(item), seq)
<1>1. /\ Recovered(item) \in Item /\ Recovered(item).state \in Inactive
      /\ Recovered(item).lease = item.lease /\ Recovered(item).revision >= item.revision
  <2>1. ASSUME NEW n \in Nat, NEW new,
               new = [item EXCEPT !.state = "pending", !.recoveries = n, !.failures = 0]
        PROVE  /\ new \in Item /\ new.state = "pending" /\ new.lease = item.lease
               /\ new.revision = item.revision
    BY <2>1 DEF Item, ItemStates
  <2> DEFINE n == item.recoveries + 1
  <2>2. n \in Nat /\ item.revision \in Nat
    BY DEF Item
  <2>3. Recovered(item) = [item EXCEPT !.state = "pending", !.recoveries = n, !.failures = 0]
    BY DEF Recovered
  <2> HIDE DEF n
  <2>4. /\ Recovered(item) \in Item /\ Recovered(item).state = "pending"
        /\ Recovered(item).lease = item.lease /\ Recovered(item).revision = item.revision
    BY <2>1, <2>2, <2>3
  <2>. QED
    BY <2>2, <2>4 DEF Inactive
<1>2. item.state \in Inactive
  BY DEF Recoverable, Inactive
<1>. QED
  BY <1>1, <1>2, Idle

(* mergePendingExactReviewDecision and its kin produce decisions. *)
LEMMA MergedDecisionType ==
  ASSUME NEW item \in Item, NEW d \in Decision
  PROVE  MergedDecision(item, d) \in Decision
<1>1. item.decision \in Decision
  BY DEF Item
<1>2. mergePending(item.decision, d) \in Decision
  BY <1>1 DEF mergePending, Decision
<1>. QED
  BY <1>2 DEF MergedDecision

LEMMA AdvanceWatermarkType ==
  ASSUME NEW w \in Watermark, NEW d \in Decision
  PROVE  AdvanceWatermark(w, d) \in Watermark
BY DEF AdvanceWatermark, Watermark, Decision

(* What an accepted decision makes of an item: the merged decision at the  *)
(* new revision; a lease that is given up, or kept with the supersession   *)
(* recorded in it; a fresh retry budget, unless the input is the same.     *)
LEMMA UpdatedFields ==
  ASSUME NEW item \in Item, NEW d \in Decision, NEW revision \in Nat
  PROVE  LET new   == Updated(item, d, revision)
             freed == IF SupersedesActive(item, d) THEN Requeued(item) ELSE item
             fresh == Mergeable(freed) /\ ~KeepsRetryBudget(item, d)
         IN  /\ new \in Item /\ new.decision = MergedDecision(item, d)
             /\ new.revision = revision
             /\ new.state = IF fresh THEN "pending" ELSE freed.state
             /\ new.failures = IF fresh THEN 0 ELSE item.failures
             /\ new.recoveries = IF fresh THEN 0 ELSE item.recoveries
             /\ new.lease.id = freed.lease.id /\ new.lease.run = freed.lease.run
             /\ new.lease.attempt = freed.lease.attempt
             /\ new.lease.generation = freed.lease.generation
             /\ new.lease.revision = freed.lease.revision
             /\ new.lease.decision = freed.lease.decision
             /\ new.lease.phase = freed.lease.phase
             /\ new.lease.superseding = IF QueuesStatusSupersession(item, d) THEN revision
                                        ELSE freed.lease.superseding
             /\ ~QueuesStatusSupersession(item, d) => new.lease = freed.lease
<1> DEFINE freed  == IF SupersedesActive(item, d) THEN Requeued(item) ELSE item
           super  == IF QueuesStatusSupersession(item, d) THEN revision
                     ELSE freed.lease.superseding
           marked == [freed EXCEPT !.lease.superseding = super]
           fresh  == Mergeable(freed) /\ ~KeepsRetryBudget(item, d)
           state  == IF fresh THEN "pending" ELSE marked.state
           fails  == IF fresh THEN 0 ELSE marked.failures
           recovs == IF fresh THEN 0 ELSE marked.recoveries
           merged == MergedDecision(item, d)
           water  == AdvanceWatermark(item.watermark, d)
           new    == [marked EXCEPT !.decision = merged, !.revision = revision,
                                    !.watermark = water, !.state = state,
                                    !.failures = fails, !.recoveries = recovs]
<1>1. Updated(item, d, revision) = new
  BY DEF Updated
<1>2. /\ freed \in Item /\ freed.failures = item.failures
      /\ freed.recoveries = item.recoveries
  BY RequeuedItem
<1>3. freed.lease \in Lease /\ freed.lease.superseding \in Nat
  BY <1>2 DEF Item, Lease
<1>4. super \in Nat
  BY <1>3
<1>5. /\ marked \in Item /\ marked.state = freed.state
      /\ marked.failures = freed.failures /\ marked.recoveries = freed.recoveries
      /\ marked.lease = [freed.lease EXCEPT !.superseding = super]
  <2> HIDE DEF super, freed
  <2>1. [freed.lease EXCEPT !.superseding = super] \in Lease
    BY <1>3, <1>4 DEF Lease
  <2>. QED
    BY <1>2, <1>3, <2>1 DEF Item
<1>6. /\ marked.state \in ItemStates /\ marked.failures \in Nat
      /\ marked.recoveries \in Nat
  <2> HIDE DEF marked
  <2>. QED
    BY <1>5 DEF Item
<1>7. state \in ItemStates /\ fails \in Nat /\ recovs \in Nat
  <2> HIDE DEF marked, fresh
  <2>. QED
    BY <1>6 DEF ItemStates
<1>8. merged \in Decision /\ water \in Watermark
  BY MergedDecisionType, AdvanceWatermarkType DEF Item
<1>9. /\ new \in Item /\ new.state = state /\ new.revision = revision
      /\ new.lease = marked.lease /\ new.decision = merged
      /\ new.failures = fails /\ new.recoveries = recovs
  <2> HIDE DEF marked, state, fails, recovs, merged, water
  <2>. QED
    BY <1>5, <1>7, <1>8 DEF Item
<1>10. /\ marked.lease.id = freed.lease.id /\ marked.lease.run = freed.lease.run
       /\ marked.lease.attempt = freed.lease.attempt
       /\ marked.lease.generation = freed.lease.generation
       /\ marked.lease.revision = freed.lease.revision
       /\ marked.lease.decision = freed.lease.decision
       /\ marked.lease.phase = freed.lease.phase
       /\ marked.lease.superseding = super
  <2> HIDE DEF freed, super, marked
  <2>. QED
    BY <1>3, <1>5 DEF Lease
<1>11. ~QueuesStatusSupersession(item, d) => marked.lease = freed.lease
  <2>1. ~QueuesStatusSupersession(item, d) => super = freed.lease.superseding
    OBVIOUS
  <2> HIDE DEF freed, super, marked
  <2>. QED
    BY <1>3, <1>5, <2>1 DEF Lease
<1>12. /\ state = (IF fresh THEN "pending" ELSE freed.state)
       /\ fails = (IF fresh THEN 0 ELSE item.failures)
       /\ recovs = (IF fresh THEN 0 ELSE item.recoveries)
  <2> HIDE DEF marked, freed, fresh
  <2>. QED
    BY <1>2, <1>5
<1>13. /\ new \in Item /\ new.decision = merged /\ new.revision = revision
       /\ new.state = (IF fresh THEN "pending" ELSE freed.state)
       /\ new.failures = (IF fresh THEN 0 ELSE item.failures)
       /\ new.recoveries = (IF fresh THEN 0 ELSE item.recoveries)
       /\ new.lease.id = freed.lease.id /\ new.lease.run = freed.lease.run
       /\ new.lease.attempt = freed.lease.attempt
       /\ new.lease.generation = freed.lease.generation
       /\ new.lease.revision = freed.lease.revision
       /\ new.lease.decision = freed.lease.decision
       /\ new.lease.phase = freed.lease.phase
       /\ new.lease.superseding = super
       /\ ~QueuesStatusSupersession(item, d) => new.lease = freed.lease
  <2> HIDE DEF marked, state, fails, recovs, merged, super, freed, fresh, new
  <2>. QED
    BY <1>9, <1>10, <1>11, <1>12
<1> HIDE DEF new
<1>. QED
  BY <1>1, <1>13

(* An accepted decision lets an item evolve: it keeps the lease, records a *)
(* supersession in it, or takes it away.                                   *)
LEMMA UpdatedEvolves ==
  ASSUME NEW item \in Item, NEW seq \in Nat, LeaseConsistent(item, seq),
         NEW d \in Decision, NEW revision \in Nat, revision > item.revision
  PROVE  Evolves(item, Updated(item, d, revision), seq)
<1> DEFINE new == Updated(item, d, revision)
<1>1. new \in Item /\ new.revision = revision /\ new.revision >= item.revision
  <2>1. new \in Item /\ new.revision = revision
    BY UpdatedFields
  <2>2. item.revision \in Nat
    BY DEF Item
  <2> HIDE DEF new
  <2>. QED
    BY <2>1, <2>2
<1>2. CASE SupersedesActive(item, d)
  <2>1. ~QueuesStatusSupersession(item, d)
    BY <1>2 DEF SupersedesActive, QueuesStatusSupersession
  <2>2. Requeued(item).lease = NoLease /\ Requeued(item).state = "pending"
    BY RequeuedItem
  <2>3. new.lease = NoLease /\ new.state = "pending"
    BY <1>2, <2>1, <2>2, UpdatedFields
  <2> HIDE DEF new
  <2>. QED
    BY <1>1, <2>3, Freed DEF Inactive, new
<1>3. CASE ~SupersedesActive(item, d) /\ item.state \in Inactive
  <2>1. ~QueuesStatusSupersession(item, d)
    BY <1>3 DEF QueuesStatusSupersession, Active, Inactive
  <2>2. new.lease = item.lease /\ new.state \in Inactive
    BY <1>3, <2>1, UpdatedFields DEF Inactive
  <2> HIDE DEF new
  <2>. QED
    BY <1>1, <1>3, <2>2, Idle DEF new
<1>4. CASE ~SupersedesActive(item, d) /\ item.state \notin Inactive
  <2>1. ~Mergeable(item)
    BY <1>4 DEF Mergeable, Inactive
  <2>2. /\ new.state = item.state
        /\ new.lease.id = item.lease.id /\ new.lease.run = item.lease.run
        /\ new.lease.attempt = item.lease.attempt
        /\ new.lease.revision = item.lease.revision
        /\ new.lease.decision = item.lease.decision
    BY <1>4, <2>1, UpdatedFields
  <2>3. \/ new.lease.superseding = item.lease.superseding
        \/ new.lease.superseding = revision
    BY <1>4, UpdatedFields
  <2> HIDE DEF new
  <2>. QED
    BY <1>1, <2>2, <2>3, Kept DEF new
<1>. QED
  BY <1>2, <1>3, <1>4

(* exactReviewDecisionAtLiveHead lets a pending item evolve. *)
LEMMA AdvancedEvolves ==
  ASSUME NEW item \in Item, NEW seq \in Nat, LeaseConsistent(item, seq),
         item.state \in Inactive, NEW head \in Nat
  PROVE  Evolves(item, AdvancedToLiveHead(item, head), seq)
<1> DEFINE d == AtLiveHead(item.decision, head)
           revision == item.revision + 1
<1>1. d \in Decision
  <2>1. item.decision \in Decision
    BY DEF Item
  <2>. QED
    BY <2>1 DEF AtLiveHead, Decision
<1>2. revision \in Nat /\ revision >= item.revision
  BY DEF Item
<1>3. ASSUME NEW new, new = [item EXCEPT !.decision = d, !.revision = revision,
                                         !.failures = 0, !.recoveries = 0]
      PROVE  /\ new \in Item /\ new.state = item.state /\ new.lease = item.lease
             /\ new.revision = revision
  <2> HIDE DEF d, revision
  <2>. QED
    BY <1>1, <1>2, <1>3 DEF Item
<1>4. AdvancedToLiveHead(item, head) = [item EXCEPT !.decision = d, !.revision = revision,
                                                    !.failures = 0, !.recoveries = 0]
  BY DEF AdvancedToLiveHead
<1> HIDE DEF d, revision
<1>. QED
  BY <1>2, <1>3, <1>4, Idle

-----------------------------------------------------------------------------
(* Steps.                                                                  *)

KeepsHands ==
  \A k \in Keys :
    items[k].lease.id # NoLeaseId /\ items'[k].lease.id = items[k].lease.id =>
      SameHands(items[k].lease, items'[k].lease)

(* A lease with a new id is written for a head that this alarm has seen.   *)
WritesProbed ==
  \A k \in Keys :
    items'[k].lease.id \notin {NoLeaseId, items[k].lease.id} =>
      \/ items'[k].lease.decision.head \in {NoHead, alarm.probe[k].head}
      \/ alarm.probe[k].state = "closed" /\ HasCommandContext(items'[k].lease.decision)

(* A new id has never been handed out, and nobody has claimed it yet.      *)
WritesUnclaimed ==
  /\ leaseSeq' >= leaseSeq
  /\ \A k \in Keys :
       items'[k].lease.id \notin {NoLeaseId, items[k].lease.id} =>
         items'[k].lease.id > leaseSeq /\ items'[k].lease.run = NoRun

LeasesMove == KeepsHands /\ WritesProbed /\ WritesUnclaimed

(* Active reviews are finitely many, and a subset of them is not more.     *)
LEMMA FewerReviews ==
  ASSUME NEW S \in SUBSET Keys, NEW T \in SUBSET S
  PROVE  /\ IsFiniteSet(T) /\ Cardinality(S) \in Nat /\ Cardinality(T) \in Nat
         /\ Cardinality(T) <= Cardinality(S)
<1>1. IsFiniteSet(S)
  BY LimitAssumption, FS_Subset
<1>. QED
  BY <1>1, FS_Subset, FS_CardinalityType

(* A step in which every item evolves. *)
LEMMA EvolvingStep ==
  ASSUME IInv, items' \in [Keys -> Item], leaseSeq' = leaseSeq,
         \A k \in Keys : Evolves(items[k], items'[k], leaseSeq)
  PROVE  /\ LeasesConsistent' /\ CapacityRespected' /\ LeasesMove
         /\ ActiveReviews(items') \subseteq ActiveReviews(items)
<1>1. LeasesConsistent'
  BY DEF IInv, LeasesConsistent, Evolves
<1>2. LeasesMove
  <2>1. leaseSeq' >= leaseSeq
    BY DEF IInv, QueueTypeOK
  <2>. QED
    BY <2>1 DEF LeasesMove, KeepsHands, WritesProbed, WritesUnclaimed, Evolves
<1>3. ActiveReviews(items') \subseteq ActiveReviews(items)
  BY DEF IInv, LeasesConsistent, LeaseConsistent, Evolves, ActiveReviews
<1>4. CapacityRespected'
  <2>1. ActiveReviews(items) \in SUBSET Keys
    BY DEF ActiveReviews
  <2>2. /\ Cardinality(ActiveReviews(items)) \in Nat
        /\ Cardinality(ActiveReviews(items')) \in Nat
        /\ Cardinality(ActiveReviews(items')) <= Cardinality(ActiveReviews(items))
    BY <1>3, <2>1, FewerReviews
  <2>. QED
    BY <2>2, LimitAssumption DEF IInv, CapacityRespected
<1>. QED
  BY <1>1, <1>2, <1>3, <1>4

(* ... while the alarm waits, or looks at what it admitted. *)
LEMMA AdmissionStillFits ==
  ASSUME AdmissionFits, ActiveReviews(items') \subseteq ActiveReviews(items),
         alarm'.pc = "probing" => alarm.pc = "probing" /\ Candidates' = Candidates
  PROVE  AdmissionFits'
<1>1. SUFFICES ASSUME alarm'.pc = "probing"
               PROVE  Cardinality(ActiveReviews(items') \cup Candidates') <= Capacity
  BY DEF AdmissionFits
<1>2. Candidates' = Candidates /\ alarm.pc = "probing"
  BY <1>1
<1>3. ActiveReviews(items) \cup Candidates \in SUBSET Keys
  BY DEF ActiveReviews, Candidates
<1>4. ActiveReviews(items') \cup Candidates' \in SUBSET (ActiveReviews(items) \cup Candidates)
  BY <1>2
<1>5. Cardinality(ActiveReviews(items) \cup Candidates) <= Capacity
  BY <1>2 DEF AdmissionFits
<1>. QED
  BY <1>3, <1>4, <1>5, FewerReviews, LimitAssumption

(* A handler that touches one item. *)
LEMMA OneItemStep ==
  ASSUME IInv, NEW k \in Keys, NEW STATE new, Evolves(items[k], new, leaseSeq),
         items' = [items EXCEPT ![k] = new], UNCHANGED <<leaseSeq, alarm>>,
         lastRevision' \in [Keys -> Nat], audits' \subseteq Audit
  PROVE  IInv' /\ LeasesMove
<1>1. items \in [Keys -> Item] /\ alarm \in AlarmState /\ leaseSeq \in Nat
  BY DEF IInv, QueueTypeOK
<1>2. items' \in [Keys -> Item]
  BY <1>1 DEF Evolves
<1>3. ASSUME NEW j \in Keys
      PROVE  Evolves(items[j], items'[j], leaseSeq)
  <2>1. LeaseConsistent(items[j], leaseSeq)
    BY DEF IInv, LeasesConsistent
  <2>2. CASE j = k
    BY <1>1, <2>2
  <2>3. CASE j # k
    <3>1. items'[j] = items[j] /\ items[j] \in Item
      BY <1>1, <2>3
    <3>2. items[j].revision >= items[j].revision
      BY <3>1 DEF Item
    <3>. QED
      BY <1>1, <2>1, <3>1, <3>2, Kept
  <2>. QED
    BY <2>2, <2>3
<1>4. /\ LeasesConsistent' /\ CapacityRespected' /\ LeasesMove
      /\ ActiveReviews(items') \subseteq ActiveReviews(items)
  BY <1>2, <1>3, EvolvingStep
<1>5. Candidates' = Candidates
  BY DEF Candidates
<1>6. AdmissionFits'
  BY <1>4, <1>5, AdmissionStillFits DEF IInv
<1>7. QueueTypeOK'
  BY <1>1, <1>2 DEF QueueTypeOK, AlarmState
<1>. QED
  BY <1>4, <1>6, <1>7 DEF IInv

LEMMA UnchangedStep ==
  ASSUME IInv, UNCHANGED queueVars
  PROVE  IInv' /\ LeasesMove
<1>1. \A k \in Keys : items[k].lease \in Lease
  BY DEF IInv, QueueTypeOK, Item
<1>2. LeasesMove
  <2>1. leaseSeq' >= leaseSeq
    BY DEF IInv, QueueTypeOK, queueVars
  <2>. QED
    BY <1>1, <2>1 DEF queueVars, LeasesMove, KeepsHands, WritesProbed, WritesUnclaimed,
                      SameHands
<1>3. ActiveReviews(items') = ActiveReviews(items) /\ Candidates' = Candidates
  BY DEF queueVars, Candidates
<1>4. IInv'
  BY <1>3 DEF IInv, queueVars, QueueTypeOK, LeasesConsistent, CapacityRespected,
              AdmissionFits
<1>. QED
  BY <1>2, <1>4

-----------------------------------------------------------------------------
(* The handlers.                                                           *)

(* What every handler's proof needs of the item it has looked up.          *)
LEMMA Lookup ==
  ASSUME IInv, NEW k \in Keys
  PROVE  /\ items[k] \in Item /\ LeaseConsistent(items[k], leaseSeq)
         /\ leaseSeq \in Nat /\ lastRevision \in [Keys -> Nat] /\ audits \subseteq Audit
         /\ items[k].lease \in Lease /\ items[k].revision \in Nat
BY DEF IInv, QueueTypeOK, LeasesConsistent, Item

LEMMA AuditType ==
  ASSUME NEW k \in Keys, items[k] \in Item, NEW prior \in Nat, NEW next \in Nat
  PROVE  SupersessionAudit(k, prior, next) \in Audit
BY DEF SupersessionAudit, Audit, Item, Lease

LEMMA NextRevisionType ==
  ASSUME NEW k \in Keys, lastRevision \in [Keys -> Nat], NEW minimum \in Nat,
         NEW command \in BOOLEAN
  PROVE  NextRevision(k, minimum, command) \in Nat /\ NextRevision(k, minimum, command) >= minimum
BY DEF NextRevision

LEMMA EnqueueStep ==
  ASSUME IInv, NEW k \in Keys, NEW d \in Decision, Enqueue(k, d)
  PROVE  IInv' /\ LeasesMove
<1>1. CASE EnqueueNew(k, d)
  <2> DEFINE revision == NextRevision(k, 1, HasCommandContext(d))
             water    == AdvanceWatermark(NoWatermark, d)
             new == [Absent EXCEPT !.state = "pending", !.revision = revision,
                                   !.decision = d, !.watermark = water]
  <2>1. revision \in Nat /\ revision >= 1
    BY Lookup, NextRevisionType DEF HasCommandContext
  <2>2. water \in Watermark
    BY AdvanceWatermarkType DEF NoWatermark, Watermark
  <2>3. new \in Item /\ new.state = "pending" /\ new.lease = NoLease
    <3>1. Absent \in Item /\ Absent.lease = NoLease
      BY EmptyRecords DEF Absent
    <3> HIDE DEF revision, water
    <3>. QED
      BY <2>1, <2>2, <3>1 DEF Item, ItemStates
  <2>4. Evolves(items[k], new, leaseSeq)
    <3> HIDE DEF new
    <3>. QED
      BY <2>3, Lookup, Freed DEF Inactive
  <2>5. lastRevision' \in [Keys -> Nat]
    <3> HIDE DEF revision
    <3>1. lastRevision' = [lastRevision EXCEPT ![k] =
                             IF revision > lastRevision[k] THEN revision ELSE lastRevision[k]]
      BY <1>1 DEF EnqueueNew, revision
    <3>. QED
      BY <2>1, <3>1, Lookup
  <2>6. items' = [items EXCEPT ![k] = new] /\ UNCHANGED <<leaseSeq, alarm>> /\ audits' \subseteq Audit
    BY <1>1, Lookup DEF EnqueueNew
  <2> HIDE DEF new
  <2>. QED
    BY <2>4, <2>5, <2>6, OneItemStep
<1>2. CASE EnqueueExisting(k, d)
  <2> DEFINE command  == HasCommandContext(items[k].decision) \/ HasCommandContext(d)
             revision == NextRevision(k, items[k].revision + 1, command)
             new      == Updated(items[k], d, revision)
  <2>1. revision \in Nat /\ revision > items[k].revision
    <3>1. command \in BOOLEAN /\ items[k].revision + 1 \in Nat
      BY Lookup DEF HasCommandContext
    <3>2. revision \in Nat /\ revision >= items[k].revision + 1
      <4> HIDE DEF command
      <4>. QED
        BY <3>1, Lookup, NextRevisionType
    <3> HIDE DEF revision
    <3>. QED
      BY <3>2, Lookup
  <2>2. Evolves(items[k], new, leaseSeq)
    <3> HIDE DEF revision
    <3>. QED
      BY <2>1, Lookup, UpdatedEvolves
  <2>3. lastRevision' \in [Keys -> Nat]
    <3>1. lastRevision' = IF command THEN [lastRevision EXCEPT ![k] = revision] ELSE lastRevision
      BY <1>2 DEF EnqueueExisting
    <3> HIDE DEF command, revision
    <3>. QED
      BY <2>1, <3>1, Lookup
  <2>4. audits' \subseteq Audit
    <3>1. SupersessionAudit(k, items[k].revision, revision) \in Audit
      <4> HIDE DEF revision
      <4>. QED
        BY <2>1, Lookup, AuditType
    <3>2. \/ audits' = audits
          \/ audits' = audits \cup {SupersessionAudit(k, items[k].revision, revision)}
      BY <1>2 DEF EnqueueExisting
    <3>. QED
      BY <3>1, <3>2, Lookup
  <2>5. items' = [items EXCEPT ![k] = new] /\ UNCHANGED <<leaseSeq, alarm>>
    BY <1>2 DEF EnqueueExisting
  <2> HIDE DEF new
  <2>. QED
    BY <2>2, <2>3, <2>4, <2>5, OneItemStep
<1>3. CASE UNCHANGED queueVars
  BY <1>3, UnchangedStep
<1>. QED
  BY <1>1, <1>2, <1>3 DEF Enqueue, EnqueueIgnored

(* A claim moves the lease to the run, or to the run's newer attempt.      *)
LEMMA ClaimLeaseStep ==
  ASSUME IInv, NEW k \in Keys, NEW id \in Nat, NEW revision \in Nat,
         NEW run \in Nat \ {NoRun}, NEW attempt \in Nat,
         ClaimLease(k, id, revision, run, attempt)
  PROVE  IInv' /\ LeasesMove
<1> DEFINE item  == items[k]
           lease == item.lease
           gen   == lease.generation + 1
           taken == [lease EXCEPT !.run = run, !.attempt = attempt, !.generation = gen]
           new   == [item EXCEPT !.state = "leased", !.lease = taken]
<1>1. /\ item \in Item /\ lease \in Lease /\ LeaseConsistent(item, leaseSeq)
      /\ leaseSeq \in Nat
  BY Lookup
<1>2. gen \in Nat /\ gen > lease.generation /\ lease.attempt \in Nat
  BY <1>1 DEF Lease
<1>3. /\ taken \in Lease /\ taken.run = run /\ taken.attempt = attempt
      /\ taken.generation = gen
      /\ taken.id = lease.id /\ taken.revision = lease.revision
      /\ taken.decision = lease.decision /\ taken.superseding = lease.superseding
  <2> HIDE DEF lease, gen
  <2>. QED
    BY <1>1, <1>2 DEF Lease
<1>4. /\ new \in Item /\ new.state = "leased" /\ new.lease = taken
      /\ new.revision = item.revision
  <2> HIDE DEF taken, item
  <2>. QED
    BY <1>1, <1>3 DEF Item, ItemStates
<1>5. /\ lease.id # NoLeaseId /\ lease.run \in {NoRun, run}
      /\ lease.run = NoRun \/ attempt > lease.attempt
  BY DEF ClaimLease, Claimable, Live
<1>6. items' = [items EXCEPT ![k] = new]
  BY <1>1 DEF ClaimLease, IInv, QueueTypeOK
<1>7. LeaseConsistent(new, leaseSeq)
  <2> HIDE DEF new, taken
  <2>. QED
    BY <1>1, <1>3, <1>4, <1>5 DEF LeaseConsistent, Active, NoRun
<1>8. SameHands(lease, taken)
  <2>1. attempt >= lease.attempt
    BY <1>1, <1>2, <1>5 DEF LeaseConsistent
  <2> HIDE DEF taken, lease, gen
  <2>. QED
    BY <1>2, <1>3, <1>5, <2>1 DEF SameHands
<1>9. Evolves(item, new, leaseSeq)
  <2> HIDE DEF new, taken
  <2>. QED
    BY <1>3, <1>4, <1>7, <1>8 DEF Evolves
<1>10. /\ UNCHANGED <<leaseSeq, alarm>> /\ lastRevision' \in [Keys -> Nat]
       /\ audits' \subseteq Audit
  BY Lookup DEF ClaimLease
<1> HIDE DEF new
<1>. QED
  BY <1>6, <1>9, <1>10, OneItemStep

(* A heartbeat renews the lease, or gives it up to a queued supersession.  *)
LEMMA HeartbeatStep ==
  ASSUME IInv, NEW k \in Keys, NEW id \in Nat, NEW revision \in Nat,
         NEW run \in Nat, NEW attempt \in Nat, NEW generation \in Nat,
         NEW head \in Nat, NEW phase \in Phases,
         \/ Heartbeat(k, id, revision, run, attempt, generation, head, phase)
         \/ HeartbeatSuperseded(k, id, revision, run, attempt, generation, head, phase)
  PROVE  IInv' /\ LeasesMove
<1>1. CASE Heartbeat(k, id, revision, run, attempt, generation, head, phase)
  <2> DEFINE lease == [items[k].lease EXCEPT !.phase = phase]
             new   == [items[k] EXCEPT !.lease = lease]
  <2>1. /\ lease \in Lease /\ lease.id = items[k].lease.id /\ lease.run = items[k].lease.run
        /\ lease.attempt = items[k].lease.attempt
        /\ lease.revision = items[k].lease.revision
        /\ lease.decision = items[k].lease.decision
        /\ lease.superseding = items[k].lease.superseding
    BY Lookup DEF Lease
  <2>2. /\ new \in Item /\ new.state = items[k].state /\ new.lease = lease
        /\ new.revision = items[k].revision
    <3> HIDE DEF lease
    <3>. QED
      BY <2>1, Lookup DEF Item
  <2>3. items' = [items EXCEPT ![k] = new]
    BY <1>1 DEF Heartbeat, IInv, QueueTypeOK
  <2>4. Evolves(items[k], new, leaseSeq)
    <3>1. new.revision >= items[k].revision
      BY <2>2, Lookup
    <3> HIDE DEF new, lease
    <3>. QED
      BY <2>1, <2>2, <3>1, Lookup, Kept
  <2>5. /\ UNCHANGED <<leaseSeq, alarm>> /\ lastRevision' \in [Keys -> Nat]
        /\ audits' \subseteq Audit
    BY <1>1, Lookup DEF Heartbeat
  <2> HIDE DEF new
  <2>. QED
    BY <2>3, <2>4, <2>5, OneItemStep
<1>2. CASE HeartbeatSuperseded(k, id, revision, run, attempt, generation, head, phase)
  <2> DEFINE new == Requeued(items[k])
  <2>1. Evolves(items[k], new, leaseSeq)
    BY Lookup, RequeuedItem, Freed DEF Inactive
  <2>2. audits' \subseteq Audit
    <3>1. items[k].lease.revision \in Nat
      BY Lookup DEF Lease
    <3>. QED
      BY <1>2, <3>1, Lookup, AuditType DEF HeartbeatSuperseded
  <2>3. /\ items' = [items EXCEPT ![k] = new] /\ UNCHANGED <<leaseSeq, alarm>>
        /\ lastRevision' \in [Keys -> Nat]
    BY <1>2, Lookup DEF HeartbeatSuperseded
  <2> HIDE DEF new
  <2>. QED
    BY <2>1, <2>2, <2>3, OneItemStep
<1>. QED
  BY <1>1, <1>2

(* Reclaiming, expiring and the steps that end a lease.                    *)
LEMMA LeaseEndStep ==
  ASSUME IInv, NEW k \in Keys, NEW id \in Nat, NEW revision \in Nat, NEW run \in Nat,
         NEW attempt \in Nat, NEW generation \in Nat, NEW report \in Report,
         \/ ReclaimOnTouch(k) \/ Expire(k) \/ ClaimTerminal(k, id, revision, run)
         \/ Complete(k, id, revision, run, attempt, generation, report)
         \/ Reconcile(k, run, attempt, generation, report)
  PROVE  IInv' /\ LeasesMove
<1>1. /\ UNCHANGED <<leaseSeq, alarm>> /\ lastRevision' \in [Keys -> Nat]
      /\ audits' \subseteq Audit
  BY Lookup DEF ReclaimOnTouch, Expire, ClaimTerminal, Complete, Reconcile
<1>2. CASE ReclaimOnTouch(k)
  <2>1. Evolves(items[k], Reclaimed(items[k]), leaseSeq)
    BY Lookup, ReclaimedEvolves
  <2>. QED
    BY <1>1, <1>2, <2>1, OneItemStep DEF ReclaimOnTouch
<1>3. CASE Expire(k)
  <2> DEFINE lease == [items[k].lease EXCEPT !.expired = TRUE]
             new   == [items[k] EXCEPT !.lease = lease]
  <2>1. /\ lease \in Lease /\ lease.id = items[k].lease.id /\ lease.run = items[k].lease.run
        /\ lease.attempt = items[k].lease.attempt
        /\ lease.revision = items[k].lease.revision
        /\ lease.decision = items[k].lease.decision
        /\ lease.superseding = items[k].lease.superseding
    BY Lookup DEF Lease
  <2>2. /\ new \in Item /\ new.state = items[k].state /\ new.lease = lease
        /\ new.revision = items[k].revision
    <3> HIDE DEF lease
    <3>. QED
      BY <2>1, Lookup DEF Item
  <2>3. items' = [items EXCEPT ![k] = new]
    BY <1>3 DEF Expire, IInv, QueueTypeOK
  <2>4. Evolves(items[k], new, leaseSeq)
    <3>1. new.revision >= items[k].revision
      BY <2>2, Lookup
    <3> HIDE DEF new, lease
    <3>. QED
      BY <2>1, <2>2, <3>1, Lookup, Kept
  <2> HIDE DEF new
  <2>. QED
    BY <1>1, <2>3, <2>4, OneItemStep
<1>4. CASE ClaimTerminal(k, id, revision, run)
  <2>1. Absent \in Item /\ Absent.state \in Inactive /\ Absent.lease = NoLease
    BY EmptyRecords DEF Absent, Inactive
  <2>2. Evolves(items[k], Absent, leaseSeq)
    BY <2>1, Lookup, Freed
  <2>. QED
    BY <1>1, <1>4, <2>2, OneItemStep DEF ClaimTerminal
<1>5. CASE \/ Complete(k, id, revision, run, attempt, generation, report)
           \/ Reconcile(k, run, attempt, generation, report)
  <2>1. Evolves(items[k], Finished(items[k], report), leaseSeq)
    BY Lookup, FinishedEvolves
  <2>. QED
    BY <1>1, <1>5, <2>1, OneItemStep DEF Complete, Reconcile
<1>. QED
  BY <1>2, <1>3, <1>4, <1>5

-----------------------------------------------------------------------------
(* The alarm.                                                              *)

LEMMA IdleAlarmType == IdleAlarm \in AlarmState /\ IdleAlarm.pc = "idle"
<1>1. NoProbe \in [state : ProbeStates, head : Nat]
  BY DEF NoProbe, ProbeStates, NoHead
<1>. QED
  BY <1>1 DEF IdleAlarm, AlarmState, DispatchResults, NoLeaseId

(* A step of the alarm that lets every item evolve and is past, or before, *)
(* its probes.                                                             *)
LEMMA AlarmEvolves ==
  ASSUME IInv, items' \in [Keys -> Item], UNCHANGED <<lastRevision, audits, leaseSeq>>,
         \A k \in Keys : Evolves(items[k], items'[k], leaseSeq),
         alarm' \in AlarmState, alarm'.pc # "probing"
  PROVE  IInv' /\ LeasesMove
<1>1. LeasesConsistent' /\ CapacityRespected' /\ LeasesMove
  BY EvolvingStep
<1>2. QueueTypeOK' /\ AdmissionFits'
  BY DEF IInv, QueueTypeOK, AdmissionFits
<1>. QED
  BY <1>1, <1>2 DEF IInv

LEMMA StaysEvolves ==
  ASSUME IInv, NEW k \in Keys
  PROVE  Evolves(items[k], items[k], leaseSeq)
<1>1. items[k].revision >= items[k].revision
  BY Lookup
<1>. QED
  BY <1>1, Lookup, Kept

LEMMA HousekeepStep ==
  ASSUME IInv, NEW due \in SUBSET Keys, AlarmHousekeep(due)
  PROVE  IInv' /\ LeasesMove
<1>1. ASSUME NEW k \in Keys
      PROVE  Evolves(items[k], items'[k], leaseSeq)
  <2>1. items'[k] = IF k \in due /\ Recoverable(items[k])
                    THEN Recovered(items[k]) ELSE Reclaimed(items[k])
    BY DEF AlarmHousekeep
  <2>. QED
    BY <2>1, Lookup, RecoveredEvolves, ReclaimedEvolves
<1>2. items' \in [Keys -> Item]
  <2>1. items' = [k \in Keys |-> IF k \in due /\ Recoverable(items[k])
                                 THEN Recovered(items[k]) ELSE Reclaimed(items[k])]
    BY DEF AlarmHousekeep
  <2>. QED
    BY <1>1, <2>1 DEF Evolves
<1>3. alarm' \in AlarmState /\ alarm'.pc # "probing"
  <2>1. ASSUME NEW pc \in {"idle", "preflight"}
        PROVE  LET new == [IdleAlarm EXCEPT !.pc = pc]
               IN  new \in AlarmState /\ new.pc = pc
    BY IdleAlarmType DEF AlarmState
  <2>2. \E pc \in {"idle", "preflight"} : alarm' = [IdleAlarm EXCEPT !.pc = pc]
    BY DEF AlarmHousekeep
  <2>. QED
    BY <2>1, <2>2
<1>. QED
  BY <1>1, <1>2, <1>3, AlarmEvolves DEF AlarmHousekeep

(* The admission counts the active reviews and what it admits together.    *)
LEMMA AdmitStep ==
  ASSUME IInv, NEW admitted \in SUBSET Keys, NEW checked \in SUBSET Keys,
         AlarmAdmit(admitted, checked)
  PROVE  IInv' /\ LeasesMove
<1> DEFINE rows == [k \in Keys |-> Reclaimed(items[k])]
<1>1. items' = rows /\ UNCHANGED <<lastRevision, audits, leaseSeq>>
  BY DEF AlarmAdmit
<1>2. ASSUME NEW k \in Keys
      PROVE  Evolves(items[k], items'[k], leaseSeq)
  BY <1>1, Lookup, ReclaimedEvolves
<1>3. items' \in [Keys -> Item]
  BY <1>1, <1>2 DEF Evolves
<1>4. CASE admitted \cup checked = {}
  <2>1. alarm' = IdleAlarm
    BY <1>4 DEF AlarmAdmit
  <2>. QED
    BY <1>1, <1>2, <1>3, <2>1, IdleAlarmType, AlarmEvolves
<1>5. CASE admitted \cup checked # {}
  <2> DEFINE cand   == [k \in Keys |-> IF k \in admitted \cup checked
                                      THEN rows[k].revision ELSE 0]
             parked == [k \in Keys |-> k \in checked]
  <2>1. alarm' = [alarm EXCEPT !.pc = "probing", !.cand = cand, !.parked = parked]
    BY <1>5 DEF AlarmAdmit
  <2>2. alarm \in AlarmState
    BY DEF IInv, QueueTypeOK
  <2>3. cand \in [Keys -> Nat] /\ parked \in [Keys -> BOOLEAN]
    BY <1>1, <1>3 DEF Item
  <2>4. alarm' \in AlarmState /\ alarm'.cand = cand /\ alarm'.parked = parked
    <3> HIDE DEF cand, parked
    <3>. QED
      BY <2>1, <2>2, <2>3 DEF AlarmState
  <2>5. LeasesConsistent' /\ CapacityRespected' /\ LeasesMove
    BY <1>1, <1>2, <1>3, EvolvingStep
  <2>6. Candidates' \subseteq admitted
    BY <2>4 DEF Candidates
  <2>7. Cardinality(ActiveReviews(items') \cup admitted) <= Capacity
    <3>1. CASE admitted = {}
      BY <2>5, <3>1 DEF CapacityRespected
    <3>2. CASE admitted # {}
      <4>1. Cardinality(admitted) + Cardinality(ActiveReviews(items')) <= Capacity
        BY <1>1, <3>2 DEF AlarmAdmit, Admissible
      <4>2. IsFiniteSet(admitted) /\ IsFiniteSet(ActiveReviews(items'))
        <5>1. ActiveReviews(items') \in SUBSET Keys
          BY DEF ActiveReviews
        <5>. QED
          BY <5>1, LimitAssumption, FS_Subset
      <4>3. /\ Cardinality(admitted) \in Nat /\ Cardinality(ActiveReviews(items')) \in Nat
            /\ Cardinality(ActiveReviews(items') \cup admitted) \in Nat
            /\ Cardinality(ActiveReviews(items') \cap admitted) \in Nat
            /\ Cardinality(ActiveReviews(items') \cup admitted) =
                 Cardinality(ActiveReviews(items')) + Cardinality(admitted)
                   - Cardinality(ActiveReviews(items') \cap admitted)
        BY <4>2, FS_Union, FS_Intersection, FS_CardinalityType
      <4>. QED
        BY <4>1, <4>3, LimitAssumption
    <3>. QED
      BY <3>1, <3>2
  <2>8. AdmissionFits'
    <3>1. ActiveReviews(items') \cup admitted \in SUBSET Keys
      BY DEF ActiveReviews
    <3>2. ActiveReviews(items') \cup Candidates' \in SUBSET (ActiveReviews(items') \cup admitted)
      BY <2>6
    <3>3. Cardinality(ActiveReviews(items') \cup Candidates') <= Capacity
      BY <2>7, <3>1, <3>2, FewerReviews, LimitAssumption
    <3>. QED
      BY <3>3 DEF AdmissionFits
  <2>9. QueueTypeOK'
    BY <1>1, <1>3, <2>4 DEF IInv, QueueTypeOK
  <2>. QED
    BY <2>5, <2>8, <2>9 DEF IInv
<1>. QED
  BY <1>4, <1>5

(* A probe or a dispatch changes what the alarm knows, not the queue.      *)
LEMMA AlarmLearnsStep ==
  ASSUME IInv, UNCHANGED <<items, lastRevision, audits, leaseSeq>>,
         alarm' \in AlarmState, alarm'.pc = alarm.pc, Candidates' = Candidates
  PROVE  IInv' /\ LeasesMove
<1>1. items' \in [Keys -> Item]
  BY DEF IInv, QueueTypeOK
<1>2. \A k \in Keys : Evolves(items[k], items'[k], leaseSeq)
  BY StaysEvolves
<1>3. /\ LeasesConsistent' /\ CapacityRespected' /\ LeasesMove
      /\ ActiveReviews(items') \subseteq ActiveReviews(items)
  BY <1>1, <1>2, EvolvingStep
<1>4. AdmissionFits'
  BY <1>3, AdmissionStillFits DEF IInv
<1>5. QueueTypeOK'
  BY DEF IInv, QueueTypeOK
<1>. QED
  BY <1>3, <1>4, <1>5 DEF IInv

LEMMA ProbeStep ==
  ASSUME IInv, NEW k \in Keys, NEW result \in [state : ProbeStates, head : Nat],
         AlarmProbe(k, result)
  PROVE  IInv' /\ LeasesMove
<1> DEFINE probe == [alarm.probe EXCEPT ![k] = result]
<1>1. alarm \in AlarmState
  BY DEF IInv, QueueTypeOK
<1>2. probe \in [Keys -> [state : ProbeStates, head : Nat]]
  BY <1>1 DEF AlarmState
<1>3. alarm' = [alarm EXCEPT !.probe = probe]
  BY <1>1 DEF AlarmProbe, AlarmState
<1>4. /\ alarm' \in AlarmState /\ alarm'.pc = alarm.pc
      /\ alarm'.cand = alarm.cand /\ alarm'.parked = alarm.parked
  <2> HIDE DEF probe
  <2>. QED
    BY <1>1, <1>2, <1>3 DEF AlarmState
<1>5. Candidates' = Candidates
  BY <1>4 DEF Candidates
<1>. QED
  BY <1>4, <1>5, AlarmLearnsStep DEF AlarmProbe

LEMMA DispatchStep ==
  ASSUME IInv, NEW k \in Keys, NEW res \in DispatchResults, AlarmDispatch(k, res)
  PROVE  IInv' /\ LeasesMove
<1> DEFINE result == [j \in Keys |-> CASE j = k -> res
                        [] j # k /\ res = "global" /\ alarm.result[j] = "todo" -> "unattempted"
                        [] OTHER -> alarm.result[j]]
<1>1. alarm \in AlarmState
  BY DEF IInv, QueueTypeOK
<1>2. result \in [Keys -> DispatchResults]
  <2>1. \A j \in Keys : alarm.result[j] \in DispatchResults
    BY <1>1 DEF AlarmState
  <2>. QED
    BY <2>1 DEF DispatchResults
<1>3. alarm' = [alarm EXCEPT !.result = result]
  BY DEF AlarmDispatch
<1>4. /\ alarm' \in AlarmState /\ alarm'.pc = alarm.pc
      /\ alarm'.cand = alarm.cand /\ alarm'.parked = alarm.parked
  <2> HIDE DEF result
  <2>. QED
    BY <1>1, <1>2, <1>3 DEF AlarmState
<1>5. Candidates' = Candidates
  BY <1>4 DEF Candidates
<1>. QED
  BY <1>4, <1>5, AlarmLearnsStep DEF AlarmDispatch

(* A failed dispatch takes back a lease that no run has claimed.           *)
LEMMA MergeStep ==
  ASSUME IInv, AlarmMerge
  PROVE  IInv' /\ LeasesMove
<1>1. ASSUME NEW k \in Keys
      PROVE  /\ Evolves(items[k], items'[k], leaseSeq)
  <2>1. CASE OwnsDispatchFailure(k)
    <3> DEFINE s == IF alarm.result[k] = "rejected" THEN "parked" ELSE "pending"
    <3>1. items'[k] = [Requeued(items[k]) EXCEPT !.state = s]
      BY <2>1 DEF AlarmMerge
    <3>2. s \in {"parked", "pending"}
      OBVIOUS
    <3>3. Requeued(items[k]) \in Item /\ Requeued(items[k]).lease = NoLease
      BY Lookup, RequeuedItem
    <3>4. /\ items'[k] \in Item /\ items'[k].lease = NoLease /\ items'[k].state = s
      <4> HIDE DEF s
      <4>. QED
        BY <3>1, <3>2, <3>3 DEF Item, ItemStates
    <3>. QED
      BY <3>2, <3>4, Lookup, Freed DEF Inactive
  <2>2. CASE ~OwnsDispatchFailure(k)
    <3>1. items'[k] = items[k]
      BY <2>2 DEF AlarmMerge
    <3>. QED
      BY <3>1, StaysEvolves
  <2>. QED
    BY <2>1, <2>2
<1>2. items' \in [Keys -> Item]
  <2>1. items' = [k \in Keys |-> items'[k]]
    BY DEF AlarmMerge
  <2>. QED
    BY <1>1, <2>1 DEF Evolves
<1>. QED
  BY <1>1, <1>2, IdleAlarmType, AlarmEvolves DEF AlarmMerge

(* What the probes make of a candidate. *)
LEMMA CheckedEvolves ==
  ASSUME IInv, NEW k \in Keys, NEW global \in BOOLEAN
  PROVE  Evolves(items[k], Checked(k, global), leaseSeq)
<1> DEFINE item == items[k]
           probe == alarm.probe[k]
<1>1. item \in Item /\ LeaseConsistent(item, leaseSeq) /\ leaseSeq \in Nat
  BY Lookup
<1>2. Evolves(item, item, leaseSeq)
  BY StaysEvolves
<1>3. Evolves(item, Absent, leaseSeq)
  <2>1. Absent \in Item /\ Absent.state \in Inactive /\ Absent.lease = NoLease
    BY EmptyRecords DEF Absent, Inactive
  <2>. QED
    BY <1>1, <2>1, Freed
<1>4. StillCandidate(k) => item.state \in Inactive
  BY DEF StillCandidate, Inactive
<1>5. StillCandidate(k) => Evolves(item, FailedOnce(item), leaseSeq)
  <2>1. FailedOnce(item).revision >= item.revision
    BY <1>1, FailedOnceItem DEF Item
  <2>. QED
    BY <1>1, <1>4, <2>1, FailedOnceItem, Idle DEF Inactive
<1>6. StillCandidate(k) => Evolves(item, AdvancedToLiveHead(item, probe.head), leaseSeq)
  <2>1. probe.head \in Nat
    BY DEF IInv, QueueTypeOK, AlarmState
  <2>. QED
    BY <1>1, <1>4, <2>1, AdvancedEvolves
<1>7. \/ Checked(k, global) = item
      \/ Checked(k, global) = Absent
      \/ StillCandidate(k) /\ Checked(k, global) = FailedOnce(item)
      \/ StillCandidate(k) /\ Checked(k, global) = AdvancedToLiveHead(item, probe.head)
  BY DEF Checked
<1>. QED
  BY <1>2, <1>3, <1>5, <1>6, <1>7

(* The commit: the leases it writes fit the admission, are new, and go to  *)
(* items that had none.                                                    *)
LEMMA CommitStep ==
  ASSUME IInv, NEW global \in BOOLEAN, AlarmCommit(global)
  PROVE  IInv' /\ LeasesMove
<1> DEFINE chosen == Dispatchable(global)
           n == Cardinality(chosen)
<1>1. /\ chosen \in SUBSET Keys /\ chosen \subseteq Candidates
      /\ \A k \in chosen : items[k].state = "pending"
  BY DEF Dispatchable, Candidates, StillCandidate
<1>2. n \in Nat /\ leaseSeq \in Nat /\ leaseSeq' = leaseSeq + n
  <2>1. IsFiniteSet(chosen)
    BY <1>1, LimitAssumption, FS_Subset
  <2>. QED
    BY <2>1, FS_CardinalityType, Lookup DEF AlarmCommit, IInv, QueueTypeOK
<1>3. PICK ids \in [chosen -> (leaseSeq + 1)..(leaseSeq + n)] :
        /\ \A j, k \in chosen : ids[j] = ids[k] => j = k
        /\ items' = [k \in Keys |-> IF k \in chosen THEN DispatchLease(items[k], ids[k])
                                    ELSE Checked(k, global)]
        /\ alarm' = IF chosen = {} THEN IdleAlarm
                    ELSE [alarm EXCEPT !.pc = "dispatching",
                            !.result = [k \in Keys |-> IF k \in chosen THEN "todo" ELSE "none"],
                            !.lease = [k \in Keys |-> IF k \in chosen THEN ids[k]
                                                                     ELSE NoLeaseId]]
  BY DEF AlarmCommit
<1>4. ASSUME NEW k \in chosen
      PROVE  /\ ids[k] \in Nat /\ ids[k] > leaseSeq /\ ids[k] <= leaseSeq'
             /\ items'[k] \in Item /\ items'[k].lease.id = ids[k]
             /\ LeaseConsistent(items'[k], leaseSeq')
             /\ items[k].lease.id = NoLeaseId
             /\ items'[k].lease.decision = items[k].decision
             /\ items'[k].lease.run = NoRun
  <2> HIDE DEF chosen, n
  <2>1. ids[k] \in Nat /\ ids[k] > leaseSeq /\ ids[k] <= leaseSeq'
    BY <1>2, <1>3
  <2>2. k \in Keys /\ items[k].state = "pending"
    BY <1>1
  <2>3. items[k] \in Item /\ LeaseConsistent(items[k], leaseSeq)
    BY <2>2, Lookup
  <2> DEFINE id == ids[k]
             revision == items[k].revision
             decision == items[k].decision
             lease == [NoLease EXCEPT !.id = id, !.revision = revision, !.decision = decision]
             new == [items[k] EXCEPT !.state = "dispatching", !.lease = lease]
  <2>4. items'[k] = new
    BY <1>3, <2>2 DEF DispatchLease
  <2>5. revision \in Nat /\ decision \in Decision
    BY <2>3 DEF Item
  <2>6. /\ lease \in Lease /\ lease.id = id /\ lease.revision = revision
        /\ lease.run = NoRun /\ lease.superseding = 0 /\ lease.attempt = 0
        /\ lease.decision = decision
    <3>1. NoLease \in Lease /\ NoLease.run = NoRun /\ NoLease.superseding = 0
          /\ NoLease.attempt = 0
      BY EmptyRecords DEF NoLease
    <3> HIDE DEF id, revision, decision
    <3>2. id \in Nat
      BY <2>1 DEF id
    <3>. QED
      BY <2>5, <3>1, <3>2 DEF Lease
  <2>7. /\ new \in Item /\ new.state = "dispatching" /\ new.lease = lease
        /\ new.revision = revision
    <3> HIDE DEF lease
    <3>. QED
      BY <2>3, <2>6 DEF Item, ItemStates
  <2>8. LeaseConsistent(new, leaseSeq')
    <3> HIDE DEF new, lease, revision
    <3>. QED
      BY <1>2, <2>1, <2>5, <2>6, <2>7 DEF LeaseConsistent, Active, NoLeaseId, NoRun
  <2>9. items[k].lease.id = NoLeaseId
    BY <2>2, <2>3 DEF LeaseConsistent, Active
  <2> HIDE DEF new, lease
  <2>. QED
    BY <2>1, <2>4, <2>6, <2>7, <2>8, <2>9
<1>5. ASSUME NEW k \in Keys \ chosen
      PROVE  /\ Evolves(items[k], items'[k], leaseSeq) /\ items'[k] \in Item
             /\ LeaseConsistent(items'[k], leaseSeq') /\ items'[k].lease.id <= leaseSeq
  <2> HIDE DEF chosen, n
  <2>1. items'[k] = Checked(k, global)
    BY <1>3
  <2>2. Evolves(items[k], items'[k], leaseSeq)
    BY <2>1, CheckedEvolves
  <2>3. LeaseConsistent(items'[k], leaseSeq) /\ items'[k] \in Item
    BY <2>2 DEF Evolves
  <2>4. items'[k].lease.id <= leaseSeq' /\ items'[k].lease.id <= leaseSeq
    BY <1>2, <2>3 DEF LeaseConsistent, Item, Lease
  <2>. QED
    BY <2>2, <2>3, <2>4 DEF LeaseConsistent
<1>6. items' \in [Keys -> Item]
  <2> HIDE DEF chosen, n
  <2>1. \A k \in Keys : items'[k] \in Item
    BY <1>4, <1>5
  <2>. QED
    BY <1>3, <2>1
<1>7. LeasesConsistent'
  <2> HIDE DEF chosen, n
  <2>1. \A k \in Keys : LeaseConsistent(items'[k], leaseSeq')
    BY <1>4, <1>5
  <2>2. ASSUME NEW j \in Keys, NEW k \in Keys,
               items'[j].lease.id = items'[k].lease.id, items'[k].lease.id # NoLeaseId
        PROVE  j = k
    <3>1. CASE j \in chosen /\ k \in chosen
      BY <1>3, <1>4, <2>2, <3>1
    <3>2. CASE j \notin chosen /\ k \notin chosen
      BY <1>5, <2>2, <3>2 DEF Evolves, IInv, LeasesConsistent
    <3>3. CASE (j \in chosen) # (k \in chosen)
      <4>1. ASSUME NEW x \in chosen, NEW y \in Keys \ chosen
            PROVE  items'[x].lease.id # items'[y].lease.id
        <5>1. items'[y].lease.id \in Nat
          BY <1>5 DEF Item, Lease
        <5>. QED
          BY <1>2, <1>4, <1>5, <5>1
      <4>. QED
        BY <2>2, <3>3, <4>1
    <3>. QED
      BY <3>1, <3>2, <3>3
  <2>. QED
    BY <2>1, <2>2 DEF LeasesConsistent
<1>8. LeasesMove
  <2>1. KeepsHands
    <3> HIDE DEF chosen, n
    <3>. QED
      BY <1>4, <1>5 DEF KeepsHands, Evolves
  <2>2. ASSUME NEW k \in Keys, items'[k].lease.id \notin {NoLeaseId, items[k].lease.id}
        PROVE  k \in chosen
    <3> HIDE DEF chosen, n
    <3>. QED
      BY <1>5, <2>2 DEF Evolves
  <2>3. ASSUME NEW k \in chosen
        PROVE  \/ items'[k].lease.decision.head \in {NoHead, alarm.probe[k].head}
               \/ /\ alarm.probe[k].state = "closed"
                  /\ HasCommandContext(items'[k].lease.decision)
    <3>1. \/ alarm.probe[k].state = "open" /\ ~StaleLiveHead(items[k], alarm.probe[k])
          \/ alarm.probe[k].state = "closed" /\ HasCommandContext(items[k].decision)
      BY DEF Dispatchable
    <3> HIDE DEF chosen, n
    <3>. QED
      BY <1>4, <3>1 DEF StaleLiveHead
  <2>4. WritesUnclaimed
    <3>1. leaseSeq' >= leaseSeq
      BY <1>2
    <3>2. \A k \in chosen : items'[k].lease.id > leaseSeq /\ items'[k].lease.run = NoRun
      <4> HIDE DEF chosen, n
      <4>. QED
        BY <1>4
    <3> HIDE DEF chosen, n
    <3>. QED
      BY <2>2, <3>1, <3>2 DEF WritesUnclaimed
  <2> HIDE DEF chosen, n
  <2>. QED
    BY <2>1, <2>2, <2>3, <2>4 DEF LeasesMove, WritesProbed
<1>9. CapacityRespected'
  <2> HIDE DEF n
  <2>1. ActiveReviews(items') \subseteq ActiveReviews(items) \cup Candidates
    <3>1. ASSUME NEW k \in Keys, Active(items'[k]), k \notin chosen
          PROVE  Active(items[k])
      <4> HIDE DEF chosen
      <4>1. items'[k].lease.id # NoLeaseId
        BY <1>5, <3>1 DEF LeaseConsistent
      <4>2. items[k].lease.id # NoLeaseId
        BY <1>5, <3>1, <4>1 DEF Evolves
      <4>. QED
        BY <4>2, Lookup DEF LeaseConsistent
    <3>. QED
      BY <1>1, <3>1 DEF ActiveReviews
  <2>2. ActiveReviews(items) \cup Candidates \in SUBSET Keys
    BY DEF ActiveReviews, Candidates
  <2>3. Cardinality(ActiveReviews(items) \cup Candidates) <= Capacity
    BY DEF IInv, AdmissionFits, AlarmCommit
  <2>4. Cardinality(ActiveReviews(items')) <= Capacity
    BY <2>1, <2>2, <2>3, FewerReviews, LimitAssumption
  <2>. QED
    BY <2>4 DEF CapacityRespected
<1>10. alarm' \in AlarmState /\ alarm'.pc # "probing"
  <2> HIDE DEF chosen, n
  <2>1. CASE chosen = {}
    BY <1>3, <2>1, IdleAlarmType
  <2>2. CASE chosen # {}
    <3> DEFINE result == [k \in Keys |-> IF k \in chosen THEN "todo" ELSE "none"]
               lease == [k \in Keys |-> IF k \in chosen THEN ids[k] ELSE NoLeaseId]
    <3>1. alarm' = [alarm EXCEPT !.pc = "dispatching", !.result = result, !.lease = lease]
      BY <1>3, <2>2
    <3>2. result \in [Keys -> DispatchResults] /\ lease \in [Keys -> Nat]
      BY <1>4 DEF DispatchResults, NoLeaseId
    <3>3. alarm \in AlarmState
      BY DEF IInv, QueueTypeOK
    <3> HIDE DEF result, lease
    <3>. QED
      BY <3>1, <3>2, <3>3 DEF AlarmState
  <2>. QED
    BY <2>1, <2>2
<1>11. QueueTypeOK' /\ AdmissionFits'
  <2>1. UNCHANGED <<lastRevision, audits>> /\ leaseSeq' \in Nat
    BY <1>2 DEF AlarmCommit
  <2>. QED
    BY <1>6, <1>10, <2>1 DEF IInv, QueueTypeOK, AdmissionFits
<1>. QED
  BY <1>7, <1>8, <1>9, <1>11 DEF IInv

-----------------------------------------------------------------------------
(* What the transitions of one item leave of its work: the decision, the   *)
(* revision and the retry budget.                                          *)

(* The item is still there, for the same decision at the same revision.    *)
SameWork(old, new) == new.decision = old.decision /\ new.revision = old.revision

SameBudget(old, new) == new.failures = old.failures /\ new.recoveries = old.recoveries

(* The lease was given up, or there was none. *)
Unleased(old, new) ==
  /\ old.state # "absent" /\ new.state \in {"pending", "parked"}
  /\ \/ new.lease = NoLease
     \/ old.state \in Inactive /\ new.lease = old.lease

ChargedOnce(old, new) ==
  /\ new.failures = old.failures + 1 /\ new.recoveries = old.recoveries
  /\ new.state = IF new.failures >= RetryLimit THEN "parked" ELSE "pending"

Renewed(new) == new.failures = 0 /\ new.recoveries = 0 /\ new.state = "pending"

LEMMA RequeuedWork ==
  ASSUME NEW item \in Item, item.state # "absent"
  PROVE  LET new == Requeued(item) IN
         new \in Item /\ SameWork(item, new) /\ Unleased(item, new) /\ SameBudget(item, new)
                      /\ new.state = "pending"
BY RequeuedItem DEF SameWork, Unleased, SameBudget

LEMMA FailedOnceWork ==
  ASSUME NEW item \in Item, item.state \in {"pending", "parked"}
  PROVE  LET new == FailedOnce(item) IN
         new \in Item /\ SameWork(item, new) /\ Unleased(item, new) /\ ChargedOnce(item, new)
<1> DEFINE n == item.failures + 1
           s == IF n >= RetryLimit THEN "parked" ELSE "pending"
<1>1. n \in Nat /\ s \in {"pending", "parked"}
  BY DEF Item
<1>2. ASSUME NEW new, new = [item EXCEPT !.failures = n, !.state = s]
      PROVE  /\ new \in Item /\ new.failures = n /\ new.state = s
             /\ new.recoveries = item.recoveries /\ new.lease = item.lease
             /\ new.decision = item.decision /\ new.revision = item.revision
  <2> HIDE DEF n, s
  <2>. QED
    BY <1>1, <1>2 DEF Item, ItemStates
<1>3. FailedOnce(item) = [item EXCEPT !.failures = n, !.state = s]
  BY DEF FailedOnce
<1>. QED
  BY <1>1, <1>2, <1>3 DEF SameWork, Unleased, ChargedOnce, Inactive

LEMMA RecoveredWork ==
  ASSUME NEW item \in Item, item.state = "parked"
  PROVE  LET new == Recovered(item) IN
         /\ new \in Item /\ SameWork(item, new) /\ Unleased(item, new)
         /\ new.state = "pending" /\ new.failures = 0
         /\ new.recoveries = item.recoveries + 1
<1> DEFINE n == item.recoveries + 1
<1>1. n \in Nat
  BY DEF Item
<1>2. ASSUME NEW new, new = [item EXCEPT !.state = "pending", !.recoveries = n, !.failures = 0]
      PROVE  /\ new \in Item /\ new.failures = 0 /\ new.state = "pending"
             /\ new.recoveries = n /\ new.lease = item.lease
             /\ new.decision = item.decision /\ new.revision = item.revision
  <2> HIDE DEF n
  <2>. QED
    BY <1>1, <1>2 DEF Item, ItemStates
<1>3. Recovered(item) = [item EXCEPT !.state = "pending", !.recoveries = n, !.failures = 0]
  BY DEF Recovered
<1>. QED
  BY <1>2, <1>3 DEF SameWork, Unleased, Inactive

(* A reclaimed lease leaves the work, unless it was a one-shot repair.     *)
LEMMA ReclaimedWork ==
  ASSUME NEW item \in Item
  PROVE  LET new == Reclaimed(item)
             changed == InputIdentityChanged(item.lease.decision, item.decision)
         IN  \/ (~Active(item) \/ Live(item)) /\ new = item
             \/ Active(item) /\ ~Live(item) /\ OneShot(item) /\ ~changed /\ new = Absent
             \/ /\ Active(item) /\ ~Live(item)
                /\ new \in Item /\ SameWork(item, new) /\ Unleased(item, new)
                /\ new.state = "pending" /\ new.recoveries = item.recoveries
                /\ new.failures = IF changed THEN 0 ELSE item.failures
<1> DEFINE changed == InputIdentityChanged(item.lease.decision, item.decision)
           n == IF changed THEN 0 ELSE item.failures
           new == [Requeued(item) EXCEPT !.failures = n]
<1>1. n \in Nat
  BY DEF Item
<1>2. /\ Requeued(item) \in Item /\ Requeued(item).state = "pending"
      /\ Requeued(item).lease = NoLease /\ Requeued(item).recoveries = item.recoveries
      /\ Requeued(item).decision = item.decision /\ Requeued(item).revision = item.revision
  BY RequeuedItem
<1>3. /\ new \in Item /\ new.state = "pending" /\ new.lease = NoLease /\ new.failures = n
      /\ new.recoveries = item.recoveries /\ new.decision = item.decision
      /\ new.revision = item.revision
  <2> HIDE DEF n
  <2>. QED
    BY <1>1, <1>2 DEF Item
<1>4. CASE ~Active(item) \/ Live(item)
  BY <1>4 DEF Reclaimed
<1>5. CASE Active(item) /\ ~Live(item)
  <2>1. Reclaimed(item) = IF OneShot(item) /\ ~changed THEN Absent ELSE new
    BY <1>5 DEF Reclaimed
  <2>2. item.state # "absent"
    BY <1>5 DEF Active
  <2>3. new.failures = IF changed THEN 0 ELSE item.failures
    <3>1. n = IF changed THEN 0 ELSE item.failures
      OBVIOUS
    <3> HIDE DEF new, changed, n
    <3>. QED
      BY <1>3, <3>1
  <2> HIDE DEF new
  <2>. QED
    BY <1>3, <1>5, <2>1, <2>2, <2>3 DEF SameWork, Unleased
<1>. QED
  BY <1>4, <1>5

(* What a report leaves of the work, and of the retry budget.              *)
LEMMA FinishedWork ==
  ASSUME NEW item \in Item, item.state # "absent", NEW report \in Report,
         ValidReport(report)
  PROVE  LET new == Finished(item, report)
             changed == /\ item.revision > item.lease.revision
                        /\ InputIdentityChanged(item.lease.decision, item.decision)
         IN  \/ /\ new = Absent /\ ~changed
                /\ report.success \/ report.terminal \/ OneShot(item)
             \/ /\ new \in Item /\ SameWork(item, new) /\ Unleased(item, new)
                /\ \/ /\ SameBudget(item, new) /\ new.state = "pending"
                      /\ ~report.success /\ ~report.terminal /\ report.deferral
                   \/ ChargedOnce(item, new) /\ ~report.success /\ ~report.terminal
                   \/ Renewed(new) /\ (changed \/ report.success)
<1> DEFINE changed == /\ item.revision > item.lease.revision
                      /\ InputIdentityChanged(item.lease.decision, item.decision)
           queued == Requeued(item)
           failed == FailedOnce(Requeued(item))
           renewed == [Requeued(item) EXCEPT !.failures = 0, !.recoveries = 0]
           new == Finished(item, report)
<1>1. /\ queued \in Item /\ SameWork(item, queued) /\ Unleased(item, queued)
      /\ SameBudget(item, queued) /\ queued.state = "pending" /\ queued.lease = NoLease
  BY RequeuedWork, RequeuedItem
<1>2. /\ failed \in Item /\ SameWork(queued, failed) /\ ChargedOnce(queued, failed)
      /\ failed.state \in {"pending", "parked"} /\ failed.lease = NoLease
  BY <1>1, FailedOnceWork, FailedOnceItem
<1>3. SameWork(item, failed) /\ Unleased(item, failed) /\ ChargedOnce(item, failed)
  <2> HIDE DEF queued, failed
  <2>. QED
    BY <1>1, <1>2 DEF SameWork, Unleased, ChargedOnce, SameBudget
<1>4. renewed \in Item /\ SameWork(item, renewed) /\ Unleased(item, renewed) /\ Renewed(renewed)
  <2>1. renewed = [queued EXCEPT !.failures = 0, !.recoveries = 0]
    OBVIOUS
  <2>2. /\ renewed \in Item /\ renewed.state = queued.state /\ renewed.lease = queued.lease
        /\ renewed.decision = queued.decision /\ renewed.revision = queued.revision
        /\ renewed.failures = 0 /\ renewed.recoveries = 0
    <3> HIDE DEF queued, renewed
    <3>. QED
      BY <1>1, <2>1 DEF Item
  <2> HIDE DEF renewed, queued
  <2>. QED
    BY <1>1, <2>2 DEF SameWork, Unleased, Renewed
<1>5. \/ /\ new = Absent /\ ~changed
         /\ report.success \/ report.terminal \/ OneShot(item)
      \/ new = queued /\ ~report.success /\ ~report.terminal /\ report.deferral
      \/ new = failed /\ ~report.success /\ ~report.terminal
      \/ new = renewed /\ (changed \/ report.success)
  <2> HIDE DEF queued, failed, renewed
  <2>. QED
    BY Zenon DEF Finished, ValidReport, queued, failed, renewed
<1> HIDE DEF new, queued, failed, renewed, changed
<1>6. \/ /\ new = Absent /\ ~changed
         /\ report.success \/ report.terminal \/ OneShot(item)
      \/ /\ new \in Item /\ SameWork(item, new) /\ Unleased(item, new)
         /\ \/ /\ SameBudget(item, new) /\ new.state = "pending"
               /\ ~report.success /\ ~report.terminal /\ report.deferral
            \/ ChargedOnce(item, new) /\ ~report.success /\ ~report.terminal
            \/ Renewed(new) /\ (changed \/ report.success)
  <2>1. CASE new = queued /\ ~report.success /\ ~report.terminal /\ report.deferral
    BY <1>1, <2>1
  <2>2. CASE new = failed /\ ~report.success /\ ~report.terminal
    BY <1>2, <1>3, <2>2
  <2>3. CASE new = renewed /\ (changed \/ report.success)
    BY <1>4, <2>3
  <2>. QED
    BY <1>5, <2>1, <2>2, <2>3, Zenon
<1>. QED
  BY <1>6 DEF new, changed

(* A command that moves to the live head. *)
LEMMA AdvancedWork ==
  ASSUME NEW item \in Item, NEW head \in Nat
  PROVE  LET new == AdvancedToLiveHead(item, head) IN
         /\ new \in Item /\ new.revision = item.revision + 1
         /\ new.state = item.state /\ new.lease = item.lease
         /\ new.failures = 0 /\ new.recoveries = 0
         /\ new.decision \in Decision /\ new.decision.head = head
         /\ new.decision.action = item.decision.action
         /\ new.decision.marker = item.decision.marker
<1> DEFINE d == AtLiveHead(item.decision, head)
           revision == item.revision + 1
<1>1. /\ d \in Decision /\ d.head = head /\ d.action = item.decision.action
      /\ d.marker = item.decision.marker
  <2>1. item.decision \in Decision
    BY DEF Item
  <2>. QED
    BY <2>1 DEF AtLiveHead, Decision
<1>2. revision \in Nat
  BY DEF Item
<1>3. ASSUME NEW new, new = [item EXCEPT !.decision = d, !.revision = revision,
                                         !.failures = 0, !.recoveries = 0]
      PROVE  /\ new \in Item /\ new.state = item.state /\ new.lease = item.lease
             /\ new.revision = revision /\ new.decision = d
             /\ new.failures = 0 /\ new.recoveries = 0
  <2> HIDE DEF d, revision
  <2>. QED
    BY <1>1, <1>2, <1>3 DEF Item
<1>4. AdvancedToLiveHead(item, head) = [item EXCEPT !.decision = d, !.revision = revision,
                                                    !.failures = 0, !.recoveries = 0]
  BY DEF AdvancedToLiveHead
<1>5. SUFFICES ASSUME NEW new, new = AdvancedToLiveHead(item, head)
               PROVE  /\ new \in Item /\ new.revision = revision
                      /\ new.state = item.state /\ new.lease = item.lease
                      /\ new.failures = 0 /\ new.recoveries = 0 /\ new.decision = d
  BY <1>1
<1> HIDE DEF d, revision
<1>. QED
  BY <1>3, <1>4, <1>5

(* The dispatched item carries a snapshot of its decision and revision.    *)
LEMMA DispatchedWork ==
  ASSUME NEW item \in Item, NEW id \in Nat
  PROVE  LET new == DispatchLease(item, id) IN
         /\ new \in Item /\ new.state = "dispatching" /\ SameWork(item, new)
         /\ SameBudget(item, new)
         /\ new.lease.id = id /\ new.lease.run = NoRun /\ new.lease.phase = "review"
         /\ new.lease.decision = item.decision /\ new.lease.revision = item.revision
<1> DEFINE lease == [NoLease EXCEPT !.id = id, !.revision = item.revision,
                                    !.decision = item.decision]
           new == [item EXCEPT !.state = "dispatching", !.lease = lease]
<1>1. item.revision \in Nat /\ item.decision \in Decision
  BY DEF Item
<1>2. NoLease \in Lease /\ NoLease.run = NoRun /\ NoLease.phase = "review"
  BY EmptyRecords DEF NoLease
<1>3. /\ lease \in Lease /\ lease.id = id /\ lease.run = NoRun /\ lease.phase = "review"
      /\ lease.decision = item.decision /\ lease.revision = item.revision
  BY <1>1, <1>2 DEF Lease
<1>4. /\ new \in Item /\ new.state = "dispatching" /\ new.lease = lease
      /\ new.decision = item.decision /\ new.revision = item.revision
      /\ new.failures = item.failures /\ new.recoveries = item.recoveries
  <2> HIDE DEF lease
  <2>. QED
    BY <1>3 DEF Item, ItemStates
<1>5. DispatchLease(item, id) = new
  BY DEF DispatchLease
<1> HIDE DEF new, lease
<1>. QED
  BY <1>3, <1>4, <1>5 DEF SameWork, SameBudget

(* What the commit makes of a candidate that it does not dispatch.         *)
LEMMA CheckedWork ==
  ASSUME NEW k \in Keys, NEW global \in BOOLEAN
  PROVE  LET item  == items[k]
             probe == alarm.probe[k]
             command == HasCommandContext(item.decision)
             charged == /\ StillCandidate(k) /\ ~alarm.parked[k] /\ ~global
                        /\ probe.state = "unavailable"
         IN  \/ Checked(k, global) = item /\ ~charged
             \/ /\ Checked(k, global) = Absent /\ StillCandidate(k)
                /\ \/ probe.state \in {"withdrawn", "closed"}
                   \/ StaleLiveHead(item, probe)
             \/ /\ Checked(k, global) = AdvancedToLiveHead(item, probe.head)
                /\ StillCandidate(k) /\ StaleLiveHead(item, probe) /\ command
             \/ /\ Checked(k, global) = FailedOnce(item) /\ charged
                /\ item.state = "pending"
BY Zenon DEF Checked, StillCandidate, StaleLiveHead

(* The lease is kept: the same snapshot, and the same queued supersession. *)
SameLease(old, new) ==
  /\ new.lease.id = old.lease.id /\ new.lease.revision = old.lease.revision
  /\ new.lease.decision = old.lease.decision
  /\ new.lease.superseding = old.lease.superseding

SamePhase(old, new) == new.lease.phase = old.lease.phase

SameClaim(old, new) ==
  /\ new.lease.run = old.lease.run /\ new.lease.attempt = old.lease.attempt
  /\ new.lease.generation = old.lease.generation

(* A claim changes who holds the lease. *)
Claimed(item, run, attempt, generation) ==
  [item EXCEPT !.state = "leased",
               !.lease = [item.lease EXCEPT !.run = run, !.attempt = attempt,
                                            !.generation = generation]]

LEMMA ClaimedWork ==
  ASSUME NEW item \in Item, NEW run \in Nat, NEW attempt \in Nat, NEW generation \in Nat
  PROVE  LET new == Claimed(item, run, attempt, generation)
         IN  /\ new \in Item /\ new.state = "leased"
             /\ SameWork(item, new) /\ SameBudget(item, new) /\ SameLease(item, new)
             /\ SamePhase(item, new) /\ new.lease.run = run
             /\ new.lease.attempt = attempt /\ new.lease.generation = generation
<1> DEFINE lease == [item.lease EXCEPT !.run = run, !.attempt = attempt,
                                       !.generation = generation]
           new == [item EXCEPT !.state = "leased", !.lease = lease]
<1>1. item.lease \in Lease
  BY DEF Item
<1>2. /\ lease \in Lease /\ lease.run = run /\ lease.attempt = attempt
      /\ lease.generation = generation /\ lease.id = item.lease.id
      /\ lease.revision = item.lease.revision /\ lease.decision = item.lease.decision
      /\ lease.superseding = item.lease.superseding /\ lease.phase = item.lease.phase
  BY <1>1 DEF Lease
<1>3. /\ new \in Item /\ new.state = "leased" /\ new.lease = lease
      /\ new.decision = item.decision /\ new.revision = item.revision
      /\ new.failures = item.failures /\ new.recoveries = item.recoveries
  <2> HIDE DEF lease
  <2>. QED
    BY <1>2 DEF Item, ItemStates
<1> HIDE DEF new, lease
<1>4. /\ new \in Item /\ new.state = "leased"
      /\ SameWork(item, new) /\ SameBudget(item, new) /\ SameLease(item, new)
      /\ SamePhase(item, new) /\ new.lease.run = run
      /\ new.lease.attempt = attempt /\ new.lease.generation = generation
  BY <1>2, <1>3 DEF SameWork, SameBudget, SameLease, SamePhase
<1>. QED
  BY <1>4 DEF new, lease, Claimed

LEMMA ClaimLeaseWork ==
  ASSUME items \in [Keys -> Item], NEW k \in Keys, NEW id, NEW revision,
         NEW run \in Nat, NEW attempt \in Nat, ClaimLease(k, id, revision, run, attempt)
  PROVE  /\ items' = [items EXCEPT ![k] = items'[k]]
         /\ items'[k] \in Item /\ items'[k].state = "leased"
         /\ SameWork(items[k], items'[k]) /\ SameBudget(items[k], items'[k])
         /\ SameLease(items[k], items'[k]) /\ SamePhase(items[k], items'[k])
         /\ items'[k].lease.run = run /\ items'[k].lease.attempt = attempt
         /\ items'[k].lease.generation = items[k].lease.generation + 1
<1> DEFINE Fits(item, new, n) ==
             /\ new \in Item /\ new.state = "leased"
             /\ SameWork(item, new) /\ SameBudget(item, new) /\ SameLease(item, new)
             /\ SamePhase(item, new) /\ new.lease.run = run
             /\ new.lease.attempt = attempt /\ new.lease.generation = n
<1>1. \A item \in Item, n \in Nat : Fits(item, Claimed(item, run, attempt, n), n)
  BY ClaimedWork
<1>2. items[k] \in Item /\ items[k].lease.generation + 1 \in Nat
  BY DEF Item, Lease
<1>3. /\ items' = [items EXCEPT ![k] = items'[k]]
      /\ items'[k] = Claimed(items[k], run, attempt, items[k].lease.generation + 1)
  BY DEF ClaimLease, Claimed
<1>4. Fits(items[k], items'[k], items[k].lease.generation + 1)
  <2> HIDE DEF Fits
  <2>. QED
    BY <1>1, <1>2, <1>3
<1>. QED
  BY <1>3, <1>4

(* A heartbeat tells the phase. *)
LEMMA BeatenWork ==
  ASSUME NEW item \in Item, NEW phase \in Phases
  PROVE  LET new == [item EXCEPT !.lease.phase = phase]
         IN  /\ new \in Item /\ new.state = item.state /\ new.lease.phase = phase
             /\ SameWork(item, new) /\ SameBudget(item, new) /\ SameLease(item, new)
             /\ SameClaim(item, new)
<1> DEFINE lease == [item.lease EXCEPT !.phase = phase]
           new == [item EXCEPT !.lease = lease]
<1>1. item.lease \in Lease
  BY DEF Item
<1>2. /\ lease \in Lease /\ lease.run = item.lease.run /\ lease.attempt = item.lease.attempt
      /\ lease.generation = item.lease.generation /\ lease.id = item.lease.id
      /\ lease.revision = item.lease.revision /\ lease.decision = item.lease.decision
      /\ lease.superseding = item.lease.superseding /\ lease.phase = phase
  BY <1>1 DEF Lease
<1>3. /\ new \in Item /\ new.state = item.state /\ new.lease = lease
      /\ new.decision = item.decision /\ new.revision = item.revision
      /\ new.failures = item.failures /\ new.recoveries = item.recoveries
  <2> HIDE DEF lease
  <2>. QED
    BY <1>2 DEF Item
<1>4. [item EXCEPT !.lease.phase = phase] = new
  BY DEF Item
<1> HIDE DEF new, lease
<1>. QED
  BY <1>2, <1>3, <1>4 DEF SameWork, SameBudget, SameLease, SameClaim

(* The clock runs out on a lease. *)
LEMMA ExpiredWork ==
  ASSUME NEW item \in Item
  PROVE  LET new == [item EXCEPT !.lease.expired = TRUE]
         IN  /\ new \in Item /\ new.state = item.state /\ SamePhase(item, new)
             /\ SameWork(item, new) /\ SameBudget(item, new) /\ SameLease(item, new)
             /\ SameClaim(item, new)
<1> DEFINE lease == [item.lease EXCEPT !.expired = TRUE]
           new == [item EXCEPT !.lease = lease]
<1>1. item.lease \in Lease
  BY DEF Item
<1>2. /\ lease \in Lease /\ lease.run = item.lease.run /\ lease.attempt = item.lease.attempt
      /\ lease.generation = item.lease.generation /\ lease.id = item.lease.id
      /\ lease.revision = item.lease.revision /\ lease.decision = item.lease.decision
      /\ lease.superseding = item.lease.superseding /\ lease.phase = item.lease.phase
  BY <1>1 DEF Lease
<1>3. /\ new \in Item /\ new.state = item.state /\ new.lease = lease
      /\ new.decision = item.decision /\ new.revision = item.revision
      /\ new.failures = item.failures /\ new.recoveries = item.recoveries
  <2> HIDE DEF lease
  <2>. QED
    BY <1>2 DEF Item
<1>4. [item EXCEPT !.lease.expired = TRUE] = new
  BY DEF Item
<1> HIDE DEF new, lease
<1>. QED
  BY <1>2, <1>3, <1>4 DEF SameWork, SameBudget, SameLease, SameClaim, SamePhase

(* A new item. *)
LEMMA FreshWork ==
  ASSUME NEW d \in Decision, NEW revision \in Nat
  PROVE  LET new == [Absent EXCEPT !.state = "pending", !.revision = revision, !.decision = d,
                                   !.watermark = AdvanceWatermark(NoWatermark, d)]
         IN  /\ new \in Item /\ new.state = "pending" /\ new.lease = NoLease
             /\ new.decision = d /\ new.revision = revision
             /\ new.failures = 0 /\ new.recoveries = 0
<1> DEFINE water == AdvanceWatermark(NoWatermark, d)
           new == [Absent EXCEPT !.state = "pending", !.revision = revision, !.decision = d,
                                 !.watermark = water]
<1>1. water \in Watermark
  BY AdvanceWatermarkType DEF NoWatermark, Watermark
<1>2. /\ Absent \in Item /\ Absent.lease = NoLease
      /\ Absent.failures = 0 /\ Absent.recoveries = 0
  BY EmptyRecords DEF Absent
<1>3. /\ new \in Item /\ new.state = "pending" /\ new.lease = NoLease
      /\ new.decision = d /\ new.revision = revision
      /\ new.failures = 0 /\ new.recoveries = 0
  <2> HIDE DEF water
  <2>. QED
    BY <1>1, <1>2 DEF Item, ItemStates
<1> HIDE DEF new
<1>. QED
  BY <1>3 DEF new

-----------------------------------------------------------------------------
(* The theorems.                                                           *)

LEMMA QueueInitially == QueueInit => IInv
<1> SUFFICES ASSUME QueueInit PROVE IInv
  OBVIOUS
<1>1. QueueTypeOK
  BY EmptyRecords, IdleAlarmType DEF QueueInit, QueueTypeOK
<1>2. LeasesConsistent
  BY DEF QueueInit, LeasesConsistent, LeaseConsistent, Absent, NoLease, Active,
         NoLeaseId, NoRun
<1>3. ActiveReviews(items) = {}
  BY DEF QueueInit, ActiveReviews, Active, Absent
<1>4. CapacityRespected
  BY <1>3, FS_EmptySet, LimitAssumption DEF CapacityRespected
<1>5. AdmissionFits
  BY IdleAlarmType DEF QueueInit, AdmissionFits
<1>. QED
  BY <1>1, <1>2, <1>4, <1>5 DEF IInv

LEMMA QueueStep == IInv /\ [QueueNext]_queueVars => IInv' /\ LeasesMove
<1> SUFFICES ASSUME IInv, [QueueNext]_queueVars PROVE IInv' /\ LeasesMove
  OBVIOUS
<1>1. CASE UNCHANGED queueVars
  BY <1>1, UnchangedStep
<1>2. ASSUME NEW k \in Keys, NEW d \in Decision, Enqueue(k, d)
      PROVE  IInv' /\ LeasesMove
  BY <1>2, EnqueueStep
<1>3. ASSUME NEW k \in Keys, ReclaimOnTouch(k) \/ Expire(k)
      PROVE  IInv' /\ LeasesMove
  <2> DEFINE report == [success |-> TRUE, deferral |-> FALSE, terminal |-> FALSE,
                        requeueLatest |-> FALSE]
  <2>1. report \in Report /\ 0 \in Nat
    BY DEF Report
  <2> HIDE DEF report
  <2>. QED
    BY <1>3, <2>1, LeaseEndStep
<1>4. ASSUME NEW k \in Keys, NEW id \in Nat, NEW revision \in Nat, NEW attempt \in Nat,
             NEW generation \in Nat, NEW run \in Nat \ {NoRun},
             \/ ClaimLease(k, id, revision, run, attempt)
             \/ ClaimAgain(k, id, revision, run, attempt)
      PROVE  IInv' /\ LeasesMove
  BY <1>4, ClaimLeaseStep, UnchangedStep DEF ClaimAgain
<1>5. ASSUME NEW k \in Keys, NEW id \in Nat, NEW revision \in Nat, NEW attempt \in Nat,
             NEW generation \in Nat, NEW run \in Nat \ {NoRun}, NEW head \in Nat,
             NEW phase \in Phases,
             \/ Heartbeat(k, id, revision, run, attempt, generation, head, phase)
             \/ HeartbeatSuperseded(k, id, revision, run, attempt, generation, head, phase)
      PROVE  IInv' /\ LeasesMove
  <2>1. run \in Nat
    OBVIOUS
  <2>. QED
    BY <1>5, <2>1, HeartbeatStep
<1>6. ASSUME NEW k \in Keys, NEW id \in Nat, NEW revision \in Nat, NEW attempt \in Nat,
             NEW generation \in Nat, NEW run \in Nat \ {NoRun}, NEW report \in Report,
             \/ ClaimTerminal(k, id, revision, run)
             \/ Complete(k, id, revision, run, attempt, generation, report)
             \/ Reconcile(k, run, attempt, generation, report)
      PROVE  IInv' /\ LeasesMove
  <2>1. run \in Nat
    OBVIOUS
  <2>. QED
    BY <1>6, <2>1, LeaseEndStep
<1>7. ASSUME NEW k \in Keys, NEW id \in Nat, NEW revision \in Nat,
             NEW run \in Nat \ {NoRun}, ClaimTerminal(k, id, revision, run)
      PROVE  IInv' /\ LeasesMove
  <2> DEFINE report == [success |-> TRUE, deferral |-> FALSE, terminal |-> FALSE,
                        requeueLatest |-> FALSE]
  <2>1. report \in Report /\ 0 \in Nat
    BY DEF Report
  <2> HIDE DEF report
  <2>. QED
    BY <1>6, <1>7, <2>1
<1>8. ASSUME NEW k \in Keys, NEW state \in ProbeStates \ {"none"}, NEW head \in Nat,
             AlarmProbe(k, [state |-> state, head |-> head])
      PROVE  IInv' /\ LeasesMove
  <2>1. [state |-> state, head |-> head] \in [state : ProbeStates, head : Nat]
    OBVIOUS
  <2>. QED
    BY <1>8, <2>1, ProbeStep
<1>9. ASSUME NEW k \in Keys, NEW result \in {"none", "rejected", "global"},
             AlarmDispatch(k, result)
      PROVE  IInv' /\ LeasesMove
  <2>1. result \in DispatchResults
    BY DEF DispatchResults
  <2>. QED
    BY <1>9, <2>1, DispatchStep
<1>10. ASSUME NEW due \in SUBSET Keys, AlarmHousekeep(due)
       PROVE  IInv' /\ LeasesMove
  BY <1>10, HousekeepStep
<1>11. ASSUME NEW admitted \in SUBSET Keys, NEW checked \in SUBSET Keys,
              AlarmAdmit(admitted, checked)
       PROVE  IInv' /\ LeasesMove
  BY <1>11, AdmitStep
<1>12. ASSUME NEW global \in BOOLEAN, AlarmCommit(global)
       PROVE  IInv' /\ LeasesMove
  BY <1>12, CommitStep
<1>13. CASE AlarmMerge
  BY <1>13, MergeStep
<1>14. ASSUME NEW k \in Keys, NEW id \in Nat, NEW revision \in Nat, NEW attempt \in Nat,
              NEW generation \in Nat, NEW run \in Nat \ {NoRun},
              RunCall(k, id, revision, run, attempt, generation)
       PROVE  IInv' /\ LeasesMove
  BY <1>4, <1>5, <1>6, <1>7, <1>14 DEF RunCall
<1>15. ASSUME NEW k \in Keys, Handler(k)
       PROVE  IInv' /\ LeasesMove
  BY <1>2, <1>3, <1>14, <1>15 DEF Handler
<1>16. CASE AlarmTask
  BY <1>8, <1>9, <1>10, <1>11, <1>12, <1>13, <1>16 DEF AlarmTask
<1>. QED
  BY <1>1, <1>15, <1>16 DEF QueueNext

(* The shape of the queue's state survives any sequence of calls. *)
THEOREM QueueTypeCorrect == QueueSpec => []QueueTypeOK
<1>1. IInv => QueueTypeOK
  BY DEF IInv
<1>. QED
  BY <1>1, QueueInitially, QueueStep, PTL DEF QueueSpec

(* The fields of every item agree: a lease exists exactly while its item is*)
(* active, is claimed exactly while it is leased, belongs to a revision the*)
(* item has had, and its id names one item.                                *)
THEOREM LeasesStayConsistent == QueueSpec => []LeasesConsistent
<1>1. IInv => LeasesConsistent
  BY DEF IInv
<1>. QED
  BY <1>1, QueueInitially, QueueStep, PTL DEF QueueSpec

(* The alarm never has more review leases out than the capacity, although  *)
(* it waits for GitHub between the count and the lease.                    *)
THEOREM ReviewsFitCapacity == QueueSpec => []CapacityRespected
<1>1. IInv => CapacityRespected
  BY DEF IInv
<1>. QED
  BY <1>1, QueueInitially, QueueStep, PTL DEF QueueSpec

(* No handler exchanges the run of a claimed lease, the attempt without a  *)
(* new generation, or the decision a run was given.                        *)
THEOREM LeasesKeepHands == QueueSpec => LeaseKeepsHands
<1>1. IInv /\ [QueueNext]_queueVars =>
        [\A k \in Keys :
           items[k].lease.id # NoLeaseId /\ items'[k].lease.id = items[k].lease.id =>
             SameHands(items[k].lease, items'[k].lease)]_queueVars
  BY QueueStep DEF LeasesMove, KeepsHands
<1>. QED
  BY <1>1, QueueInitially, QueueStep, PTL DEF QueueSpec, LeaseKeepsHands

=============================================================================
