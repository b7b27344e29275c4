------------------------ MODULE PublicationLaneProofs ------------------------
(* Proofs about the publication lane, for any targets, results, batches, limits *)
(* and faults: that it drives the batch store as the open store lets it be      *)
(* driven; that no result is lost, given up for an older one, or reported as    *)
(* published without a receipt; that canonical records do not go back; and that *)
(* the dead letters stay within their limit.                                    *)
EXTENDS PublicationLane, PublicationBatchesProofs, FiniteSetTheorems, WellFoundedInduction

-----------------------------------------------------------------------------
(* The invariant.                                                              *)

Claimed(k) == results[k] # NoResult

\* The results the lane knows of: the queue took them, or a run published them.
Heard == given.taken \cup given.published

\* Why the result of run c may leave the queue: its review was published, or
\* another review of its target overtakes it.
Passed(c) == Twins(c) \cap given.published # {} \/ \E j \in Heard : Overtakes(j, c)

\* The same with a newer review, of a target whose numbering can be trusted.
Newer(j, c) == results[j].target = results[c].target /\ results[j].serial > results[c].serial

Yielded(c) ==
  \A t \in Targets : results[c].target = t /\ Trusted(t) =>
    Twins(c) \cap given.published # {} \/ \E j \in Heard : Newer(j, c)

Excused(c) == Passed(c) /\ Yielded(c)

\* Histories are of results that exist; what was taken is not above the head.
Histories ==
  /\ \A k \in Heard \cup given.dropped : Claimed(k)
  /\ \A k \in Keys : sent[k] > 0 => Claimed(k)
  /\ \A k \in given.taken : \A t \in Targets : results[k].target = t => results[k].source <= heads[t]

\* An item, and a dead letter, carries a result of the lineage it was made for,
\* and its revision counts deliveries.
Carries(k, c) == Claimed(k) /\ c \in given.taken \cap Twins(k)

Carried ==
  \A k \in Keys :
    /\ Live(k) => Carries(k, items[k].carries) /\ items[k].revision \in 1..sent[k]
    /\ ~Live(k) => items[k] = NoItem
    /\ \A r \in Revisions :
         IF letters[k][r].status = "none" THEN letters[k][r].carries = "none"
                                          ELSE Carries(k, letters[k][r].carries) /\ r <= sent[k]

\* What a batch owns is pending, at the revision that was claimed or a later one.
OwnedPending ==
  \A m \in memberships : Open(m) =>
    items[m.item].state = "pending" /\ m.revision <= items[m.item].revision

\* Memberships are of fences that were given out, and the lane is the one caller.
Granted ==
  /\ \A m \in memberships : \E g \in granted : g.batch = m.batch /\ SameFence(m, g)
  /\ \A b \in BatchIds : Leased(batches, b) => batches[b].owner = Publisher

\* A publisher acts on fences its batch was given, one for an item; it knows
\* nothing of them before it has prepared them.
Equipped(b, w) ==
  /\ w.manifest \subseteq FencesOf(b)
  /\ w.current \subseteq w.manifest
  /\ \A f, g \in w.manifest : f.item = g.item => f = g
  /\ w.pc \in {"idle", "claimed"} => w.manifest = {}
  /\ w.pc \in {"idle", "claimed", "loaded"} => \A k \in Keys : w.outcome[k] = "none"

Manifests == \A b \in BatchIds : Equipped(b, workers[b])

\* What a publisher will report as published has its receipt.
ReceiptFor(k, r) == \E p \in ReceiptsOf(k, r) : p.outcome = "published"

Reported ==
  \A b \in BatchIds : \A f \in workers[b].manifest :
    workers[b].outcome[f.item] = "published" => ReceiptFor(f.item, f.revision)

\* What it will report as superseded has its reason as long as it owns it.
Owns(b, f) ==
  /\ Live(f.item) /\ items[f.item].revision = f.revision
  /\ \E m \in memberships : m.batch = b /\ Open(m) /\ SameFence(m, f)

Reasoned ==
  \A b \in BatchIds : \A f \in workers[b].manifest :
    workers[b].outcome[f.item] = "superseded" /\ Owns(b, f) => Excused(items[f.item].carries)

\* A receipt of an item is of its lineage, one of a target of a review of it.
Founded(p) ==
  /\ p.fence \in Keys => Claimed(p.fence) /\ Twins(p.fence) \cap given.published # {}
  /\ p.fence \in Targets =>
       \E j \in given.published : results[j].target = p.fence /\ results[j].source >= p.revision

Receipted == \A p \in receipts : Founded(p)

\* The publication head and the canonical record of a target are of results that
\* were taken or published.
HeadOf(t) ==
  heads[t] > 0 => \E j \in Heard : /\ results[j].target = t /\ results[j].source >= heads[t]
                                   /\ Queued(t) => j \in given.taken

CanonicalOf(t) ==
  /\ canonical[t].serial > 0 =>
       \E j \in given.published : results[j].target = t /\ results[j].serial = canonical[t].serial
  /\ Queued(t) => canonical[t].source <= heads[t]

Headed == \A t \in Targets : HeadOf(t) /\ CanonicalOf(t)

\* The review of a target and the run that has it.
Running ==
  \A t \in Targets :
    LET r == reviews[t] IN
    r.state \in {"leased", "finishing"} =>
      /\ r.run \in RunsOf(t) /\ results[r.run].source = r.leaseRevision
      /\ r.leaseRevision <= r.revision

\* Runs are numbered in the order of their claims.
Counted == \A t \in Targets : \A k \in RunsOf(t) : results[k].serial <= Cardinality(RunsOf(t))

\* A review is finalised once its target was published directly.
Finishing ==
  \A t \in Targets :
    reviews[t].state = "finishing" =>
      /\ ~Queued(t)
      /\ \E j \in given.published :
           results[j].target = t /\ results[j].source >= reviews[t].leaseRevision

\* A run's source is not above what its target has come to, and what it shares
\* with the review that stands is not its lineage.
Within(r, head, res) ==
  /\ \/ res.source <= head
     \/ r.state = "pending" /\ res.source <= r.revision
     \/ r.state = "leased" /\ res.source <= r.leaseRevision
  /\ r.state # "none" => res.generation <= r.generation \/ res.source < r.revision

\* What was delivered is not above the head, of a target published by the queue.
Reached(t) == Queued(t) => \A k \in RunsOf(t) : sent[k] > 0 => results[k].source <= heads[t]

\* As long as the numbering of a target can be trusted, later runs have later sources.
InOrder(t) ==
  \A j, k \in RunsOf(t) :
    /\ results[j].source < results[k].source => results[j].serial < results[k].serial
    /\ j \in Twins(k) => j = k

Below(t) ==
  /\ \A k \in RunsOf(t) : Within(reviews[t], heads[t], results[k])
  /\ reviews[t].state # "none" => heads[t] <= reviews[t].revision

Numbered == \A t \in Targets : Reached(t) /\ (Trusted(t) => InOrder(t) /\ Below(t))

\* The result of a run is in the queue or among the dead letters.
Housed(c) ==
  \/ \E i \in Keys : Live(i) /\ items[i].carries = c
  \/ \E i \in Keys, r \in Revisions : letters[i][r].carries = c

Kept(k) ==
  \/ \E j \in Twins(k) : Housed(j) \/ j \in given.published \cup given.refreshed
  \/ \E j \in Heard, i \in Twins(k) :
       Overtakes(j, i) /\ \A t \in Targets : results[k].target = t /\ Trusted(t) => i = k

\* What the queue and the publishers are at any time.
QueueInv ==
  /\ LaneTypeOK /\ IInv
  /\ Granted /\ Manifests /\ Carried /\ OwnedPending /\ Running /\ Counted

\* What is reported is published.
ReportInv == QueueInv /\ Reported /\ PublishedIsPublished

\* What is known of a target's results is what was taken and published.
RecordInv == ReportInv /\ Histories /\ Receipted /\ Headed /\ Finishing /\ Numbered

\* No result is lost, and what is given up was passed by a newer one.
LaneInv ==
  /\ RecordInv /\ Reasoned
  /\ \A c \in given.dropped : Yielded(c)
  /\ \A k \in given.taken : Kept(k)

-----------------------------------------------------------------------------
(* Constants and types.                                                        *)

LEMMA PublisherOwns == Publisher \in Owners
  BY LaneAssumption DEF Publisher

\* A run that reviews something is told from one that does not by its target.
LEMMA ClaimedResult ==
  ASSUME LaneTypeOK, NEW k \in Keys
  PROVE  /\ Claimed(k) <=> results[k] \in Result
         /\ Claimed(k) <=> results[k].target \in Targets
         /\ Claimed(k) <=> results[k].target # "none"
         /\ results[k].source \in 0..MaxRevision
         /\ results[k].generation \in Nat /\ results[k].serial \in Nat
<1>1. results[k] \in Result \cup {NoResult}
  BY DEF LaneTypeOK
<1>2. "none" \notin Targets /\ MaxRevision \in Nat
  BY LaneAssumption
<1>3. NoResult.target = "none" /\ NoResult.source = 0 /\ NoResult.generation = 0
      /\ NoResult.serial = 0
  BY DEF NoResult
<1>4. CASE results[k] \in Result
  <2>1. results[k].target \in Targets
    BY <1>4 DEF Result
  <2>2. QED
    BY <1>2, <1>3, <1>4, <2>1 DEF Result, Claimed
<1>5. CASE results[k] = NoResult
  <2>1. results[k] \notin Result
    BY <1>2, <1>3, <1>5 DEF Result
  <2>2. QED
    BY <1>2, <1>3, <1>5, <2>1 DEF Claimed
<1>6. QED
  BY <1>1, <1>4, <1>5

LEMMA RowTypes ==
  ASSUME LaneTypeOK
  PROVE  /\ \A t \in Targets : reviews[t] \in Review
         /\ \A k \in Keys : /\ items[k] \in Item
                            /\ sent[k] \in 0..MaxDeliveries
                            /\ \A r \in Revisions : letters[k][r] \in Letter
         /\ \A b \in BatchIds : workers[b] \in Worker
  BY DEF LaneTypeOK

-----------------------------------------------------------------------------
(* The lane drives the batch store as any caller may.                          *)

\* An unfinished membership of a batch is behind a fence the batch was given.
LEMMA OpenFence ==
  ASSUME IInv, Granted, NEW b \in BatchIds, NEW m \in MembersOf(ReclaimedMemberships, b), Open(m)
  PROVE  [item |-> m.item, revision |-> m.revision, generation |-> m.generation] \in FencesOf(b)
<1>1. m \in memberships /\ m.batch = b
  BY ReclaimedMembers DEF IInv, MembersOf
<1>2. PICK g \in granted : g.batch = m.batch /\ SameFence(m, g)
  BY <1>1 DEF Granted
<1>3. QED
  BY <1>1, <1>2 DEF FencesOf, SameFence

\* Fetch completes the memberships that are out of date.
LEMMA FetchCompletes ==
  ASSUME IInv, Granted, NEW b \in BatchIds, Fetch(b)
  PROVE  \E fences \in SUBSET FencesOf(b) : \E outcome \in [fences -> Outcomes] :
           Complete(b, Publisher, {WithOutcome(f, outcome[f]) : f \in fences})
<1> DEFINE Fn(m) == [item |-> m.item, revision |-> m.revision, generation |-> m.generation]
           fences == {Fn(m) : m \in StaleMembers(b)}
           outcome == [f \in fences |-> "superseded"]
           completions == {WithOutcome(f, outcome[f]) : f \in fences}
<1>1. \A m \in StaleMembers(b) : Fn(m) \in FencesOf(b)
  <2> TAKE m \in StaleMembers(b)
  <2>1. m \in MembersOf(ReclaimedMemberships, b) /\ Open(m)
    BY DEF StaleMembers
  <2>2. QED
    BY <2>1, OpenFence
<1>2. fences \in SUBSET FencesOf(b)
  BY <1>1
<1>3. outcome \in [fences -> Outcomes]
  BY DEF Outcomes
<1>4. completions = {WithOutcome(m, "superseded") : m \in StaleMembers(b)}
  <2>1. \A m \in StaleMembers(b) : WithOutcome(Fn(m), outcome[Fn(m)]) = WithOutcome(m, "superseded")
    BY DEF WithOutcome
  <2>2. completions = {WithOutcome(Fn(m), outcome[Fn(m)]) : m \in StaleMembers(b)}
    OBVIOUS
  <2> HIDE DEF completions, outcome, fences, Fn
  <2>3. QED
    BY <2>1, <2>2
<1>5. Complete(b, Publisher, completions)
  BY <1>4 DEF Fetch
<1>6. QED
  BY <1>2, <1>3, <1>5

\* What a publisher reports, it reports of fences of its batch.
LEMMA CompleteBatchCompletes ==
  ASSUME NEW b \in BatchIds, NEW fences \in SUBSET FencesOf(b), CompleteBatch(b, fences)
  PROVE  \E outcome \in [fences -> Outcomes] :
           Complete(b, Publisher, {WithOutcome(f, outcome[f]) : f \in fences})
<1> DEFINE outcome == [f \in fences |-> SettledAs(Kind(b)[f.item])]
<1>1. \A f \in fences : SettledAs(Kind(b)[f.item]) \in Outcomes
  BY DEF SettledAs, Outcomes
<1>2. outcome \in [fences -> Outcomes]
  BY <1>1
<1>3. {WithOutcome(f, outcome[f]) : f \in fences}
        = {WithOutcome(f, SettledAs(Kind(b)[f.item])) : f \in fences}
  OBVIOUS
<1>4. QED
  BY <1>2, <1>3 DEF CompleteBatch

\* The candidates of a publisher's claim are at revisions that items may have.
LEMMA ClaimBatchClaims ==
  ASSUME LaneTypeOK, Carried, NEW b \in BatchIds, ClaimBatch(b)
  PROVE  \E chosen \in SUBSET {k \in Keys : Claimable(k)} :
           LET candidates == {[item |-> k, revision |-> items[k].revision] : k \in chosen}
           IN candidates \in SUBSET Candidate /\ Claim(b, Publisher, candidates)
<1>1. PICK chosen \in SUBSET {k \in Keys : Claimable(k)} :
        Claim(b, Publisher, {[item |-> k, revision |-> items[k].revision] : k \in chosen})
  BY DEF ClaimBatch
<1>2. ASSUME NEW k \in chosen
      PROVE  items[k].revision \in Revisions
  <2>1. Live(k) /\ k \in Keys
    BY <1>2 DEF Claimable, Live
  <2>2. items[k].revision \in 1..sent[k] /\ sent[k] \in 0..MaxDeliveries
    BY <2>1, RowTypes DEF Carried
  <2>3. QED
    BY <2>2, LaneAssumption
<1>3. {[item |-> k, revision |-> items[k].revision] : k \in chosen} \in SUBSET Candidate
  BY <1>2 DEF Candidate
<1>4. QED
  BY <1>1, <1>3

\* The steps that run no operation of the store.
Aside ==
  \/ \E t \in Targets : \/ ReviewEvent(t) \/ LoseReview(t) \/ CompleteReview(t)
                        \/ DirectPublish(t)
                        \/ \E k \in Keys : ClaimReview(t, k)
  \/ \E k \in Keys, r \in Revisions : \/ ReplayDeadLetter(k, r) \/ RecoverFresh(k, r)
                                      \/ ResolveDeadLetter(k, r)
  \/ \E b \in BatchIds : Prepare(b) \/ Crash(b) \/ NewRun(b)

LEMMA AsideKeepsBatches ==
  ASSUME Aside
  PROVE  UNCHANGED batchVars
  BY DEF Aside, ReviewEvent, LoseReview, CompleteReview, DirectPublish, ClaimReview,
         ReplayDeadLetter, RecoverFresh, ResolveDeadLetter, Prepare, Crash, NewRun

\* The steps that run one that only reclaims.
Touching ==
  \/ \E k \in Keys : Deliver(k)
  \/ PruneStale
  \/ \E b \in BatchIds : LostLease(b) \/ \E f \in workers[b].manifest : PublishItem(b, f)

LEMMA TouchingTouches ==
  ASSUME Touching
  PROVE  Touch
  BY DEF Touching, Deliver, DeliverRefused, DeliverDuplicate, DeliverNew, MayDeliver, PruneStale,
         LostLease, PublishItem

LEMMA LaneSteps ==
  ASSUME LaneNext
  PROVE  \/ Aside
         \/ Touching
         \/ \E b \in BatchIds : ClaimBatch(b)
         \/ \E b \in BatchIds : Load(b) \/ Commit(b) \/ Acknowledge(b)
         \/ \E b \in BatchIds : SendCompletion(b) \/ Release(b)
         \/ \E b \in BatchIds : BatchHeartbeat(b)
         \/ BatchHousekeeping
         \/ LaneTick
  BY DEF LaneNext, Aside, Touching, WorkerStep

\* The operations of the store that give no fence.
Keeping ==
  \/ UNCHANGED batchVars \/ Touch \/ Tick
  \/ \E cleanup \in SUBSET DueForCleanup : Stats(cleanup)
  \/ \E b \in BatchIds : \E o \in Owners : \E fences \in SUBSET FencesOf(b) :
       \/ \E ticks \in 1..LeaseTicks : Heartbeat(b, o, fences, ticks)
       \/ \E outcome \in [fences -> Outcomes] :
            Complete(b, o, {WithOutcome(f, outcome[f]) : f \in fences})

\* Any step of the lane but a claim is one of those.
LEMMA LaneKeeps ==
  ASSUME LaneTypeOK, IInv, Granted, Manifests, [LaneNext]_allVars
  PROVE  Keeping \/ \E b \in BatchIds : ClaimBatch(b)
<1> USE PublisherOwns
<1>1. CASE UNCHANGED allVars
  BY <1>1 DEF allVars, Keeping
<1>2. CASE Aside
  BY <1>2, AsideKeepsBatches DEF Keeping
<1>3. CASE Touching
  BY <1>3, TouchingTouches DEF Keeping
<1>5. ASSUME NEW b \in BatchIds, Load(b) \/ Commit(b) \/ Acknowledge(b)
      PROVE  Keeping
  <2>1. Fetch(b)
    BY <1>5 DEF Load, Commit, Acknowledge
  <2>2. QED
    BY <2>1, FetchCompletes DEF Keeping
<1>6. ASSUME NEW b \in BatchIds, SendCompletion(b) \/ Release(b)
      PROVE  Keeping
  <2>1. PICK fences : fences \in SUBSET FencesOf(b) /\ CompleteBatch(b, fences)
    BY <1>6 DEF SendCompletion, Release, Manifests, Equipped
  <2>2. QED
    BY <2>1, CompleteBatchCompletes DEF Keeping
<1>7. ASSUME NEW b \in BatchIds, BatchHeartbeat(b)
      PROVE  Keeping
  <2>1. workers[b].manifest \in SUBSET FencesOf(b) /\ LeaseTicks \in 1..LeaseTicks
    BY BatchAssumption DEF Manifests, Equipped
  <2>2. Heartbeat(b, Publisher, workers[b].manifest, LeaseTicks)
    BY <1>7 DEF BatchHeartbeat
  <2>3. QED
    BY <2>1, <2>2 DEF Keeping
<1>8. CASE BatchHousekeeping
  BY <1>8 DEF BatchHousekeeping, Keeping
<1>9. CASE LaneTick
  BY <1>9 DEF LaneTick, Keeping
<1>10. QED
  BY <1>1, <1>2, <1>3, <1>5, <1>6, <1>7, <1>8, <1>9, LaneSteps

\* Any step of the lane is a step of the store, or none.
LEMMA LaneDrivesBatches ==
  ASSUME LaneTypeOK, IInv, Granted, Manifests, Carried, [LaneNext]_allVars
  PROVE  [BatchNext]_batchVars
<1>1. CASE Keeping
  BY <1>1 DEF Keeping, BatchNext
<1>2. ASSUME NEW b \in BatchIds, ClaimBatch(b)
      PROVE  BatchNext
  BY <1>2, ClaimBatchClaims, PublisherOwns DEF BatchNext
<1>3. QED
  BY <1>1, <1>2, LaneKeeps

-----------------------------------------------------------------------------
(* Histories grow.                                                             *)

\* A run reviews one thing; what is delivered, taken, published, given up or given
\* out is so for good.
Grows ==
  /\ \A k \in Keys : Claimed(k) => results'[k] = results[k]
  /\ \A k \in Keys : sent[k] <= sent'[k]
  /\ given.taken \subseteq given'.taken /\ given.published \subseteq given'.published
  /\ given.dropped \subseteq given'.dropped /\ given.refreshed \subseteq given'.refreshed
  /\ receipts \subseteq receipts'
  /\ granted \subseteq granted'

-----------------------------------------------------------------------------
(* The review lane.                                                            *)

LEMMA NoReviewType ==
  /\ NoReview \in Review /\ NoReview.state = "none" /\ NoReview.revision = 0
  /\ NoReview.leaseRevision = 0 /\ NoReview.generation = 0 /\ NoReview.run = "none"
  BY LaneAssumption DEF NoReview, Review

LEMMA NextRevisionBound ==
  ASSUME LaneTypeOK, NEW t \in Targets, NEW n \in Nat
  PROVE  /\ NextRevision(t, n) \in Nat /\ NextRevision(t, n) >= n
         /\ NextRevision(t, n) > heads[t]
  BY LaneAssumption DEF NextRevision, Larger, LaneTypeOK

LEMMA ReviewEventResult ==
  ASSUME LaneTypeOK, NEW t \in Targets, ReviewEvent(t)
  PROVE  \E q \in Review :
           /\ reviews' = [reviews EXCEPT ![t] = q]
           /\ q.revision > reviews[t].revision /\ q.revision > heads[t]
           /\ q.leaseRevision = reviews[t].leaseRevision /\ q.generation = reviews[t].generation
           /\ \/ q.state = "pending"
              \/ /\ q.state = reviews[t].state /\ q.state \in {"leased", "finishing"}
                 /\ q.run = reviews[t].run
<1> DEFINE r == reviews[t]
           n == NextRevision(t, r.revision + 1)
<1>1. r \in Review
  BY RowTypes
<1>2. n \in 0..MaxRevision /\ n > r.revision /\ n > heads[t]
  <2>1. r.revision + 1 \in Nat /\ r.revision \in Nat
    BY <1>1, LaneAssumption DEF Review
  <2>2. n \in Nat /\ n >= r.revision + 1 /\ n > heads[t]
    BY <2>1, NextRevisionBound
  <2>3. n <= MaxRevision
    BY DEF ReviewEvent
  <2>4. QED
    BY <2>1, <2>2, <2>3, LaneAssumption
<1>3. DOMAIN reviews = Targets
  BY DEF LaneTypeOK
<1>5. CASE reviews' = [reviews EXCEPT ![t].state = "pending", ![t].revision = n]
  <2> DEFINE q == [r EXCEPT !.state = "pending", !.revision = n]
  <2>1. reviews' = [reviews EXCEPT ![t] = q]
    BY <1>5
  <2>2. q \in Review /\ q.state = "pending" /\ q.revision = n
        /\ q.leaseRevision = r.leaseRevision /\ q.generation = r.generation /\ q.run = r.run
    BY <1>1, <1>2 DEF Review
  <2> HIDE DEF q, n
  <2>3. QED
    BY <1>2, <2>1, <2>2
<1>6. CASE r.state \in {"leased", "finishing"} /\ reviews' = [reviews EXCEPT ![t].revision = n]
  <2> DEFINE q == [r EXCEPT !.revision = n]
  <2>1. reviews' = [reviews EXCEPT ![t] = q]
    BY <1>6
  <2>2. q \in Review /\ q.state = r.state /\ q.revision = n
        /\ q.leaseRevision = r.leaseRevision /\ q.generation = r.generation /\ q.run = r.run
    BY <1>1, <1>2 DEF Review
  <2> HIDE DEF q, n
  <2>3. QED
    BY <1>2, <1>6, <2>1, <2>2
<1>7. CASE reviews' = [reviews EXCEPT ![t].state = "pending", ![t].run = "none", ![t].revision = n]
  <2> DEFINE q == [r EXCEPT !.state = "pending", !.run = "none", !.revision = n]
  <2>1. reviews' = [reviews EXCEPT ![t] = q]
    BY <1>7
  <2>2. q \in Review /\ q.state = "pending" /\ q.revision = n
        /\ q.leaseRevision = r.leaseRevision /\ q.generation = r.generation /\ q.run = "none"
    BY <1>1, <1>2, LaneAssumption DEF Review
  <2> HIDE DEF q, n
  <2>3. QED
    BY <1>2, <2>1, <2>2
<1>8. QED
  BY <1>5, <1>6, <1>7 DEF ReviewEvent

\* A run that claims reviews the revision there is, under the next generation; it is
\* the newest of its target.
LEMMA ClaimReviewResult ==
  ASSUME LaneTypeOK, NEW t \in Targets, NEW k \in Keys, ClaimReview(t, k)
  PROVE  /\ ~Claimed(k) /\ reviews[t].state = "pending"
         /\ \E q \in Review :
              /\ reviews' = [reviews EXCEPT ![t] = q]
              /\ q.state = "leased" /\ q.revision = reviews[t].revision
              /\ q.leaseRevision = reviews[t].revision
              /\ q.generation = reviews[t].generation + 1 /\ q.run = k
         /\ \E res \in Result :
              /\ results' = [results EXCEPT ![k] = res]
              /\ res.target = t /\ res.source = reviews[t].revision
              /\ res.generation = reviews[t].generation + 1
              /\ res.serial = Cardinality(RunsOf(t)) + 1
         /\ RunsOf(t)' = RunsOf(t) \cup {k}
         /\ Cardinality(RunsOf(t)') = Cardinality(RunsOf(t)) + 1
         /\ \A u \in Targets : u # t => RunsOf(u)' = RunsOf(u)
<1> DEFINE r == reviews[t]
           q == [state |-> "leased", revision |-> r.revision, leaseRevision |-> r.revision,
                 generation |-> r.generation + 1, run |-> k]
           res == [target |-> t, source |-> r.revision, generation |-> r.generation + 1,
                   serial |-> Cardinality(RunsOf(t)) + 1]
<1>1. r \in Review /\ r.revision \in 0..MaxRevision /\ r.generation \in Nat
  BY RowTypes DEF Review
<1>2. IsFiniteSet(RunsOf(t)) /\ Cardinality(RunsOf(t)) \in Nat
  <2>1. RunsOf(t) \subseteq Keys
    BY DEF RunsOf
  <2>2. QED
    BY <2>1, BatchAssumption, FS_Subset, FS_CardinalityType
<1>3. q \in Review /\ q.state = "leased" /\ q.revision = r.revision
      /\ q.leaseRevision = r.revision /\ q.generation = r.generation + 1 /\ q.run = k
  BY <1>1 DEF Review
<1>4. res \in Result /\ res.target = t /\ res.source = r.revision
      /\ res.generation = r.generation + 1 /\ res.serial = Cardinality(RunsOf(t)) + 1
  BY <1>1, <1>2 DEF Result
<1>5. reviews' = [reviews EXCEPT ![t] = q] /\ results' = [results EXCEPT ![k] = res]
      /\ ~Claimed(k) /\ r.state = "pending"
  BY DEF ClaimReview, Claimed
<1> HIDE DEF q, res
<1>6. k \notin RunsOf(t) /\ \A u \in Targets : k \notin RunsOf(u)
  BY <1>5, ClaimedResult DEF RunsOf
<1>7. DOMAIN results = Keys
  BY DEF LaneTypeOK
<1>8. \A j \in Keys : results'[j] = IF j = k THEN res ELSE results[j]
  BY <1>5, <1>7
<1>9. RunsOf(t)' = RunsOf(t) \cup {k} /\ \A u \in Targets : u # t => RunsOf(u)' = RunsOf(u)
  BY <1>4, <1>6, <1>8 DEF RunsOf
<1>10. Cardinality(RunsOf(t)') = Cardinality(RunsOf(t)) + 1
  BY <1>2, <1>6, <1>9, FS_AddElement
<1>11. QED
  BY <1>3, <1>4, <1>5, <1>9, <1>10

LEMMA LoseReviewResult ==
  ASSUME LaneTypeOK, NEW t \in Targets, LoseReview(t)
  PROVE  /\ reviews[t].state = "leased"
         /\ \E q \in Review :
              /\ reviews' = [reviews EXCEPT ![t] = q]
              /\ q.state = "pending" /\ q.revision = reviews[t].revision
              /\ q.generation = reviews[t].generation
<1> DEFINE r == reviews[t]
           q == [r EXCEPT !.state = "pending", !.run = "none"]
<1>1. r \in Review
  BY RowTypes
<1>2. q \in Review /\ q.state = "pending" /\ q.revision = r.revision /\ q.generation = r.generation
  BY <1>1 DEF Review
<1>3. reviews' = [reviews EXCEPT ![t] = q] /\ r.state = "leased"
  BY DEF LoseReview
<1> HIDE DEF q
<1>4. QED
  BY <1>2, <1>3

LEMMA CompleteReviewResult ==
  ASSUME LaneTypeOK, NEW t \in Targets, CompleteReview(t)
  PROVE  /\ \/ reviews[t].state = "finishing"
            \/ reviews[t].state = "leased" /\ sent[reviews[t].run] > 0
         /\ \/ reviews' = [reviews EXCEPT ![t] = NoReview]
            \/ /\ reviews[t].revision > reviews[t].leaseRevision
               /\ \E q \in Review :
                    /\ reviews' = [reviews EXCEPT ![t] = q]
                    /\ q.state = "pending" /\ q.revision = reviews[t].revision
                    /\ q.generation = reviews[t].generation
<1> DEFINE r == reviews[t]
           q == [r EXCEPT !.state = "pending", !.run = "none"]
<1>1. r \in Review
  BY RowTypes
<1>2. q \in Review /\ q.state = "pending" /\ q.revision = r.revision /\ q.generation = r.generation
  BY <1>1 DEF Review
<1>3. \/ reviews' = [reviews EXCEPT ![t] = NoReview]
      \/ r.revision > r.leaseRevision /\ reviews' = [reviews EXCEPT ![t] = q]
  BY DEF CompleteReview
<1> HIDE DEF q
<1>4. QED
  BY <1>2, <1>3 DEF CompleteReview

-----------------------------------------------------------------------------
(* Enqueue of a publication.                                                   *)

LEMMA GreatestNumber ==
  ASSUME NEW N \in Nat, NEW T \in SUBSET (0..N), T # {}
  PROVE  \E x \in T : \A y \in T : y <= x
<1> DEFINE S == {N - y : y \in T}
<1>1. S \subseteq Nat /\ S # {}
  <2>1. \A y \in T : N - y \in Nat
    OBVIOUS
  <2>2. PICK y \in T : TRUE
    OBVIOUS
  <2>3. QED
    BY <2>1, <2>2
<1>2. PICK z \in S : \A y \in S : ~(<<y, z>> \in OpToRel(<, Nat))
  BY <1>1, NatLessThanWellFounded, WFMin
<1>3. PICK x \in T : z = N - x
  OBVIOUS
<1>4. ASSUME NEW y \in T PROVE y <= x
  <2>1. N - y \in S /\ N - y \in Nat /\ z \in Nat
    BY <1>1
  <2>2. ~(N - y < z)
    BY <1>2, <2>1 DEF OpToRel
  <2>3. QED
    BY <1>3, <2>1, <2>2
<1>5. QED
  BY <1>4

\* A live item carries a result of its own lineage.
LEMMA LiveItem ==
  ASSUME LaneTypeOK, Carried, NEW k \in Keys, Live(k)
  PROVE  /\ Claimed(k) /\ items[k].carries \in Keys /\ items[k].carries \in given.taken
         /\ Claimed(items[k].carries)
         /\ Of(k).target = results[k].target /\ Of(k).source = results[k].source
         /\ Of(k).generation = results[k].generation
         /\ Of(k).target \in Targets /\ Of(k).source \in 0..MaxRevision
         /\ items[k].revision \in 1..sent[k] /\ sent[k] \in 0..MaxDeliveries
         /\ items[k].revision \in Nat \ {0}
<1>1. Claimed(k) /\ items[k].carries \in given.taken \cap Twins(k)
      /\ items[k].revision \in 1..sent[k]
  BY DEF Carried, Carries
<1>2. sent[k] \in 0..MaxDeliveries /\ MaxDeliveries \in Nat
  BY RowTypes, LaneAssumption
<1>3. items[k].revision \in Nat \ {0}
  BY <1>1, <1>2
<1>4. items[k].carries \in Keys /\ Of(k).target = results[k].target
      /\ Of(k).source = results[k].source /\ Of(k).generation = results[k].generation
  BY <1>1 DEF Twins, Of
<1>5. Of(k).target \in Targets /\ Of(k).source \in 0..MaxRevision
  BY <1>1, <1>4, ClaimedResult
<1>6. Claimed(items[k].carries)
  BY <1>1, <1>4, ClaimedResult DEF Of
<1>7. QED
  BY <1>1, <1>2, <1>3, <1>4, <1>5, <1>6

Known(t, source) == {source, heads[t]} \cup Sources(t) \cup FinishingSource(t)

LEMMA NewestSourceIsNewest ==
  ASSUME LaneTypeOK, Carried, NEW t \in Targets, NEW source \in 0..MaxRevision
  PROVE  /\ NewestSource(t, source) \in Known(t, source)
         /\ NewestSource(t, source) \in 0..MaxRevision
         /\ \A m \in Known(t, source) : m <= NewestSource(t, source)
         /\ heads[t] <= NewestSource(t, source) /\ source <= NewestSource(t, source)
<1>1. Known(t, source) \in SUBSET (0..MaxRevision)
  <2>1. heads[t] \in 0..MaxRevision
    BY DEF LaneTypeOK
  <2>2. Sources(t) \subseteq 0..MaxRevision
    BY LiveItem DEF Sources
  <2>3. FinishingSource(t) \subseteq 0..MaxRevision
    BY RowTypes DEF FinishingSource, Review
  <2>4. QED
    BY <2>1, <2>2, <2>3 DEF Known
<1>2. Known(t, source) # {} /\ source \in Known(t, source) /\ heads[t] \in Known(t, source)
  BY DEF Known
<1>3. \E n \in Known(t, source) : \A m \in Known(t, source) : m <= n
  BY <1>1, <1>2, GreatestNumber, LaneAssumption
<1>4. NewestSource(t, source)
        = CHOOSE n \in Known(t, source) : \A m \in Known(t, source) : m <= n
  BY DEF NewestSource, Known
<1>5. NewestSource(t, source) \in Known(t, source)
      /\ \A m \in Known(t, source) : m <= NewestSource(t, source)
  BY <1>3, <1>4
<1>6. QED
  BY <1>1, <1>2, <1>5

\* What every delivery does.
LEMMA MayDeliverResult ==
  ASSUME LaneTypeOK, Carried, NEW k \in Keys, MayDeliver(k)
  PROVE  LET t == results[k].target
             n == NewestSource(t, results[k].source)
         IN /\ Claimed(k) /\ t \in Targets
            /\ sent' = [sent EXCEPT ![k] = sent[k] + 1] /\ sent[k] + 1 \in 1..MaxDeliveries
            /\ \A j \in Keys : sent[j] <= sent'[j] /\ sent'[j] \in 0..MaxDeliveries
            /\ heads' = [heads EXCEPT ![t] = n] /\ n \in 0..MaxRevision
            /\ n \in Known(t, results[k].source)
            /\ \A m \in Known(t, results[k].source) : m <= n
            /\ heads[t] <= n /\ results[k].source <= n
            /\ Touch
            /\ UNCHANGED <<reviews, results, receipts, canonical, letters, workers, faults>>
<1> DEFINE t == results[k].target
           n == NewestSource(t, results[k].source)
<1>1. Claimed(k) /\ t \in Targets /\ results[k].source \in 0..MaxRevision
  BY ClaimedResult DEF MayDeliver, Claimed
<1>2. /\ n \in 0..MaxRevision /\ n \in Known(t, results[k].source)
      /\ \A m \in Known(t, results[k].source) : m <= n
      /\ heads[t] <= n /\ results[k].source <= n
  BY <1>1, NewestSourceIsNewest
<1>3. sent' = [sent EXCEPT ![k] = sent[k] + 1] /\ sent[k] < MaxDeliveries
  BY DEF MayDeliver
<1>4. sent \in [Keys -> 0..MaxDeliveries] /\ MaxDeliveries \in Nat
  BY LaneAssumption DEF LaneTypeOK
<1>5. sent[k] + 1 \in 1..MaxDeliveries
      /\ \A j \in Keys : sent[j] <= sent'[j] /\ sent'[j] \in 0..MaxDeliveries
  BY <1>3, <1>4
<1>6. heads' = [heads EXCEPT ![t] = n] /\ Touch
      /\ UNCHANGED <<reviews, results, receipts, canonical, letters, workers, faults>>
  BY DEF MayDeliver
<1> HIDE DEF n, t
<1>7. QED
  BY <1>1, <1>2, <1>3, <1>5, <1>6 DEF n, t

\* The items of a lineage carry results of the same lineage.
LEMMA Lineage ==
  ASSUME LaneTypeOK, Carried, NEW k \in Keys, NEW j \in SameLineage(k)
  PROVE  /\ j \in Keys /\ Live(j)
         /\ j \in Twins(k) /\ k \in Twins(j) /\ Twins(j) = Twins(k)
         /\ items[j].carries \in given.taken \cap Twins(k)
<1>1. /\ j \in Keys /\ Live(j) /\ Of(j).target = results[k].target
      /\ Of(j).source = results[k].source /\ Of(j).generation = results[k].generation
  BY DEF SameLineage
<1>2. /\ items[j].carries \in Keys /\ items[j].carries \in given.taken
      /\ Of(j).target = results[j].target /\ Of(j).source = results[j].source
      /\ Of(j).generation = results[j].generation
  BY <1>1, LiveItem
<1>3. QED
  BY <1>1, <1>2 DEF Twins, Of

LEMMA NewestArtifactOfLineage ==
  ASSUME LaneTypeOK, Carried, Counted, NEW k \in Keys, Claimed(k)
  PROVE  /\ NewestArtifact(k) \in Keys /\ NewestArtifact(k) \in Twins(k)
         /\ NewestArtifact(k) \in given.taken \cup {k}
         /\ results[k].serial <= results[NewestArtifact(k)].serial
         /\ \A j \in SameLineage(k) :
              results[items[j].carries].serial <= results[NewestArtifact(k)].serial
<1> DEFINE runs == {items[j].carries : j \in SameLineage(k)} \cup {k}
           t == results[k].target
           N == Cardinality(RunsOf(t))
<1>1. \A c \in runs : c \in Twins(k) /\ c \in Keys /\ c \in given.taken \cup {k}
  BY Lineage DEF Twins
<1>2. t \in Targets
  BY ClaimedResult
<1>3. N \in Nat
  <2>1. RunsOf(t) \subseteq Keys
    BY DEF RunsOf
  <2>2. QED
    BY <2>1, BatchAssumption, FS_Subset, FS_CardinalityType
<1>4. \A c \in runs : c \in RunsOf(t)
  BY <1>1 DEF Twins, RunsOf
<1>5. \A c \in runs : results[c].serial \in 0..N
  <2> TAKE c \in runs
  <2>1. results[c].serial <= N
    BY <1>2, <1>4 DEF Counted
  <2>2. results[c].serial \in Nat
    BY <1>1, ClaimedResult
  <2>3. QED
    BY <1>3, <2>1, <2>2
<1> DEFINE serials == {results[c].serial : c \in runs}
<1>6. serials \in SUBSET (0..N) /\ serials # {}
  BY <1>5
<1>7. PICK x \in serials : \A y \in serials : y <= x
  <2> HIDE DEF serials, N
  <2>1. QED
    BY <1>3, <1>6, GreatestNumber
<1>8. \E j \in runs : \A i \in runs : results[i].serial <= results[j].serial
  BY <1>7
<1>9. NewestArtifact(k) = CHOOSE j \in runs : \A i \in runs : results[i].serial <= results[j].serial
  BY DEF NewestArtifact, Newest
<1>10. NewestArtifact(k) \in runs
       /\ \A i \in runs : results[i].serial <= results[NewestArtifact(k)].serial
  <2> HIDE DEF runs
  <2>1. QED
    BY <1>8, <1>9
<1>11. QED
  BY <1>1, <1>10

LEMMA NoItemType ==
  /\ NoItem \in Item /\ NoItem.state = "absent" /\ NoItem.revision = 0
  /\ NoItem.attempts = 0 /\ NoItem.carries = "none"
  BY LaneAssumption DEF NoItem, Item

Owned == OwnedItems(memberships')

LEMMA DeliverRefusedResult ==
  ASSUME LaneTypeOK, Carried, NEW k \in Keys, DeliverRefused(k)
  PROVE  /\ MayDeliver(k) /\ UNCHANGED items
         /\ results[k].source < NewestSource(results[k].target, results[k].source)
         /\ given'.dropped = given.dropped \cup {k}
         /\ given'.taken = given.taken /\ given'.published = given.published
         /\ given'.refreshed = given.refreshed
         /\ given' \in History
<1>1. given' = [given EXCEPT !.dropped = @ \cup {k}]
  BY DEF DeliverRefused
<1>2. /\ given'.dropped = given.dropped \cup {k}
      /\ given'.taken = given.taken /\ given'.published = given.published
      /\ given'.refreshed = given.refreshed /\ given' \in History
  BY <1>1 DEF LaneTypeOK, History
<1>3. QED
  BY <1>2 DEF DeliverRefused

\* The queue slot of the lineage stays, at its revision; what carries the result may
\* change if no batch publishes it, and other slots of the lineage go.
LEMMA DeliverDuplicateResult ==
  ASSUME LaneTypeOK, Carried, Counted, NEW k \in Keys, DeliverDuplicate(k)
  PROVE  /\ MayDeliver(k)
         /\ results[k].source = NewestSource(results[k].target, results[k].source)
         /\ \E j \in SameLineage(k) :
              /\ \/ items'[j] = items[j]
                 \/ /\ j \notin Owned
                    /\ items'[j] = [items[j] EXCEPT !.carries = NewestArtifact(k)]
              /\ \A i \in Keys : i # j =>
                   \/ items'[i] = items[i]
                   \/ i \in SameLineage(k) /\ i \notin Owned /\ items'[i] = NoItem
         /\ items' \in [Keys -> Item]
         /\ given'.taken = given.taken \cup {k}
         /\ given'.dropped = given.dropped /\ given'.published = given.published
         /\ given'.refreshed = given.refreshed
         /\ given' \in History
<1>1. PICK j \in Keys :
        /\ Retained(k, j)
        /\ items' = [i \in Keys |->
             IF i \in Duplicates(k, j) THEN NoItem
             ELSE IF i = j /\ j \notin Owned
             THEN [items[i] EXCEPT !.carries = NewestArtifact(k)] ELSE items[i]]
  BY DEF DeliverDuplicate, Owned
<1>2. j \in SameLineage(k)
  BY <1>1 DEF Retained
<1>3. j \notin Duplicates(k, j)
  BY DEF Duplicates
<1>4. \A i \in Duplicates(k, j) : i \in SameLineage(k) /\ i \notin Owned
  BY DEF Duplicates, Owned
<1>5. Claimed(k)
  BY DEF DeliverDuplicate, MayDeliver, Claimed
<1>6. \A i \in Keys : /\ items[i] \in Item
                      /\ [items[i] EXCEPT !.carries = NewestArtifact(k)] \in Item
  BY <1>5, RowTypes, NewestArtifactOfLineage DEF Item
<1> DEFINE new(i) == [items[i] EXCEPT !.carries = NewestArtifact(k)]
<1>7. \A i \in Keys :
        items'[i] = IF i \in Duplicates(k, j) THEN NoItem
                    ELSE IF i = j /\ j \notin Owned THEN new(i) ELSE items[i]
  BY <1>1
<1>8. \A i \in Keys : new(i) \in Item
  BY <1>6
<1>9. \/ items'[j] = items[j]
      \/ j \notin Owned /\ items'[j] = new(j)
  <2>1. items'[j] = IF j \notin Owned THEN new(j) ELSE items[j]
    BY <1>3, <1>7
  <2>2. QED
    BY <2>1
<1>10. \A i \in Keys : i # j => \/ items'[i] = items[i]
                                \/ i \in SameLineage(k) /\ i \notin Owned /\ items'[i] = NoItem
  <2> HIDE DEF new
  <2> QED
    BY <1>4, <1>7
<1>11. items' \in [Keys -> Item]
  <2>1. \A i \in Keys : items'[i] \in Item
    <3> HIDE DEF new
    <3> QED
      BY <1>6, <1>7, <1>8, NoItemType
  <2>2. QED
    BY <1>1, <2>1
<1>12. given' = [given EXCEPT !.taken = @ \cup {k}]
  BY DEF DeliverDuplicate
<1>13. /\ given'.taken = given.taken \cup {k}
       /\ given'.dropped = given.dropped /\ given'.published = given.published
       /\ given'.refreshed = given.refreshed
       /\ given' \in History
  BY <1>12 DEF LaneTypeOK, History
<1>14. MayDeliver(k) /\ results[k].source = NewestSource(results[k].target, results[k].source)
  BY DEF DeliverDuplicate
<1>15. QED
  BY <1>2, <1>9, <1>10, <1>11, <1>13, <1>14

\* A new item, or a new revision of the one there is; older publications of the
\* target, and duplicates, go unless a batch publishes them.
LEMMA DeliverNewResult ==
  ASSUME LaneTypeOK, Carried, NEW k \in Keys, DeliverNew(k)
  PROVE  /\ MayDeliver(k)
         /\ results[k].source = NewestSource(results[k].target, results[k].source)
         /\ items'[k].state = "pending" /\ items'[k].carries = k
         /\ items'[k].revision = items[k].revision + 1
         /\ items'[k].revision \in 1..sent'[k]
         /\ items[k].revision \in Nat
         /\ \A i \in Keys : i # k =>
              \/ items'[i] = items[i]
              \/ /\ i \notin Owned /\ items'[i] = NoItem
                 /\ i \in SameLineage(k) \cup Overtaken(k)
         /\ items' \in [Keys -> Item]
         /\ given'.taken = given.taken \cup {k}
         /\ given'.dropped = given.dropped \cup {items[j].carries : j \in Overtaken(k)}
         /\ given'.published = given.published /\ given'.refreshed = given.refreshed
         /\ given' \in History
<1> DEFINE it == [state |-> "pending", revision |-> items[k].revision + 1,
                  attempts |-> 0, carries |-> k]
           gone == Overtaken(k) \cup (SameLineage(k) \ Owned)
<1>1. items' = [j \in Keys |-> IF j = k THEN it ELSE IF j \in gone THEN NoItem ELSE items[j]]
  BY DEF DeliverNew, Owned
<1>2. MayDeliver(k) /\ results[k].source = NewestSource(results[k].target, results[k].source)
  BY DEF DeliverNew
<1>3. sent'[k] = sent[k] + 1 /\ sent[k] + 1 \in 1..MaxDeliveries /\ sent[k] \in 0..MaxDeliveries
  BY <1>2, MayDeliverResult DEF LaneTypeOK
<1>4. items[k].revision \in 0..sent[k]
  <2>1. CASE Live(k)
    BY <1>3, <2>1, LiveItem, LaneAssumption
  <2>2. CASE ~Live(k)
    BY <1>3, <2>2, NoItemType, LaneAssumption DEF Carried
  <2>3. QED
    BY <2>1, <2>2
<1>5. items[k].revision + 1 \in 1..sent'[k] /\ items[k].revision + 1 \in 0..MaxDeliveries
      /\ items[k].revision \in Nat
  BY <1>3, <1>4, LaneAssumption
<1>6. it \in Item /\ it.state = "pending" /\ it.carries = k
      /\ it.revision = items[k].revision + 1
  BY <1>5, LaneAssumption DEF Item
<1> HIDE DEF it
<1>7. items'[k] = it
  BY <1>1
<1>8. \A i \in gone : i \notin Owned /\ i \in SameLineage(k) \cup Overtaken(k)
  BY DEF Overtaken, Owned
<1>9. \A i \in Keys : i # k => items'[i] = IF i \in gone THEN NoItem ELSE items[i]
  BY <1>1
<1> HIDE DEF gone
<1>10. \A i \in Keys : items'[i] \in Item
  BY <1>6, <1>7, <1>9, NoItemType, RowTypes
<1>11. items' \in [Keys -> Item]
  BY <1>1, <1>10
<1>12. {items[j].carries : j \in Overtaken(k)} \subseteq Keys
  BY LiveItem DEF Overtaken
<1>13. given' = [given EXCEPT !.taken = @ \cup {k},
                              !.dropped = @ \cup {items[j].carries : j \in Overtaken(k)}]
  BY DEF DeliverNew
<1>14. /\ given'.taken = given.taken \cup {k}
       /\ given'.dropped = given.dropped \cup {items[j].carries : j \in Overtaken(k)}
       /\ given'.published = given.published /\ given'.refreshed = given.refreshed
       /\ given' \in History
  <2> DEFINE od == {items[j].carries : j \in Overtaken(k)}
  <2>1. given' = [given EXCEPT !.taken = @ \cup {k}, !.dropped = @ \cup od] /\ od \subseteq Keys
    BY <1>12, <1>13
  <2> HIDE DEF od
  <2>2. /\ given'.taken = given.taken \cup {k}
        /\ given'.dropped = given.dropped \cup od
        /\ given'.published = given.published /\ given'.refreshed = given.refreshed
        /\ given' \in History
    BY <2>1 DEF LaneTypeOK, History
  <2>3. QED
    BY <2>2 DEF od
<1>15. QED
  BY <1>2, <1>5, <1>6, <1>7, <1>8, <1>9, <1>11, <1>14

LEMMA PruneStaleResult ==
  ASSUME LaneTypeOK, Carried, PruneStale
  PROVE  /\ Touch
         /\ \E pruned \in SUBSET Stale :
              /\ \A i \in Keys : items'[i] = IF i \in pruned THEN NoItem ELSE items[i]
              /\ given'.dropped = given.dropped \cup {items[k].carries : k \in pruned}
         /\ items' \in [Keys -> Item]
         /\ given'.taken = given.taken /\ given'.published = given.published
         /\ given'.refreshed = given.refreshed
         /\ given' \in History
         /\ UNCHANGED <<reviews, results, sent, heads, receipts, canonical, letters, workers, faults>>
<1>1. PICK pruned \in SUBSET Stale :
        /\ items' = [k \in Keys |-> IF k \in pruned THEN NoItem ELSE items[k]]
        /\ given' = [given EXCEPT !.dropped = @ \cup {items[k].carries : k \in pruned}]
  BY DEF PruneStale
<1> DEFINE od == {items[k].carries : k \in pruned}
<1>2. od \subseteq Keys
  BY LiveItem DEF Stale
<1>3. items' \in [Keys -> Item] /\ \A i \in Keys : items'[i] = IF i \in pruned THEN NoItem ELSE items[i]
  BY <1>1, NoItemType, RowTypes
<1>4. given' = [given EXCEPT !.dropped = @ \cup od]
  BY <1>1
<1> HIDE DEF od
<1>5. /\ given'.dropped = given.dropped \cup od
      /\ given'.taken = given.taken /\ given'.published = given.published
      /\ given'.refreshed = given.refreshed
      /\ given' \in History
  BY <1>2, <1>4 DEF LaneTypeOK, History
<1>6. QED
  BY <1>3, <1>5 DEF od, PruneStale

-----------------------------------------------------------------------------
(* Dead letters.                                                               *)

\* An insertion opens the row, and keeps the artifact it has.
LEMMA InsertedResult ==
  ASSUME NEW ls \in [Keys -> [Revisions -> Letter]], NEW k \in Keys, NEW r \in Revisions,
         NEW c \in Keys
  PROVE  /\ Inserted(ls, k, r, c) \in [Revisions -> Letter]
         /\ Inserted(ls, k, r, c)[r].status = "open"
         /\ Inserted(ls, k, r, c)[r].carries
              = IF ls[k][r].status = "none" THEN c ELSE ls[k][r].carries
         /\ \A s \in Revisions : s # r => Inserted(ls, k, r, c)[s] = ls[k][s]
<1> DEFINE l == [status |-> "open",
                 carries |-> IF ls[k][r].status = "none" THEN c ELSE ls[k][r].carries]
<1>1. ls[k] \in [Revisions -> Letter] /\ ls[k][r] \in Letter
  OBVIOUS
<1>2. l \in Letter /\ l.status = "open"
      /\ l.carries = IF ls[k][r].status = "none" THEN c ELSE ls[k][r].carries
  BY <1>1 DEF Letter
<1>3. Inserted(ls, k, r, c) = [ls[k] EXCEPT ![r] = l]
  BY DEF Inserted
<1> HIDE DEF l
<1>4. QED
  BY <1>1, <1>2, <1>3

\* The letters of an item but one are what they were, apart from their status.
SameLetter(i, s) ==
  /\ letters'[i][s].carries = letters[i][s].carries
  /\ letters'[i][s].status = "none" <=> letters[i][s].status = "none"

SameLetters(i) == \A s \in Revisions : SameLetter(i, s)

\* An item becomes a letter, which keeps the artifact of its first insertion.
Filed(i, r, c) ==
  /\ letters'[i][r].status = "open"
  /\ letters'[i][r].carries = IF letters[i][r].status = "none" THEN c ELSE letters[i][r].carries
  /\ \A s \in Revisions : s # r => SameLetter(i, s)

\* The items of the queue and the letters before parked items move, and after.
LEMMA DrainedResult ==
  ASSUME LaneTypeOK, Carried,
         NEW its \in [Keys -> Item], NEW ls \in [Keys -> [Revisions -> Letter]],
         \E moved \in SUBSET Keys : Drained(its, ls, moved),
         \A i \in Keys : its[i].state = "parked" => its[i] = items[i],
         \A i \in Keys : \A s \in Revisions :
           /\ ls[i][s].carries = letters[i][s].carries
           /\ ls[i][s].status = "none" <=> letters[i][s].status = "none"
  PROVE  /\ items' \in [Keys -> Item]
         /\ letters' \in [Keys -> [Revisions -> Letter]]
         /\ \A i \in Keys :
              \/ items'[i] = its[i] /\ SameLetters(i)
              \/ /\ items[i].state = "parked" /\ its[i] = items[i] /\ items'[i] = NoItem
                 /\ Filed(i, items[i].revision, items[i].carries)
<1>1. PICK moved \in SUBSET Keys : Drained(its, ls, moved)
  OBVIOUS
<1>2. \A k \in moved : its[k].state = "parked" /\ k \in Keys /\ its[k] = items[k]
  BY <1>1 DEF Drained
<1>3. \A k \in moved : items[k].revision \in Revisions /\ items[k].carries \in Keys
  <2> TAKE k \in moved
  <2>1. Live(k)
    BY <1>2 DEF Live
  <2>2. QED
    BY <1>2, <2>1, LiveItem, LaneAssumption
<1>4. /\ items' = [k \in Keys |-> IF k \in moved THEN NoItem ELSE its[k]]
      /\ letters' = [k \in Keys |-> IF k \in moved
                                      THEN Inserted(ls, k, its[k].revision, its[k].carries)
                                      ELSE ls[k]]
  BY <1>1 DEF Drained
<1>5. ASSUME NEW k \in moved
      PROVE  /\ letters'[k] \in [Revisions -> Letter]
             /\ Filed(k, items[k].revision, items[k].carries)
  <2>1. PICK r \in Revisions, c \in Keys : r = items[k].revision /\ c = items[k].carries
    BY <1>3
  <2>2. k \in Keys
    BY <1>2
  <2>3. letters'[k] = Inserted(ls, k, r, c)
    BY <1>2, <1>4, <2>1
  <2>4. /\ Inserted(ls, k, r, c) \in [Revisions -> Letter]
        /\ Inserted(ls, k, r, c)[r].status = "open"
        /\ Inserted(ls, k, r, c)[r].carries
             = IF ls[k][r].status = "none" THEN c ELSE ls[k][r].carries
        /\ \A s \in Revisions : s # r => Inserted(ls, k, r, c)[s] = ls[k][s]
    <3>1. Inserted(ls, k, r, c) \in [Revisions -> Letter]
      BY <2>2, InsertedResult
    <3>2. Inserted(ls, k, r, c)[r].status = "open"
      BY <2>2, InsertedResult
    <3>3. Inserted(ls, k, r, c)[r].carries
             = IF ls[k][r].status = "none" THEN c ELSE ls[k][r].carries
      BY <2>2, InsertedResult
    <3>4. \A s \in Revisions : s # r => Inserted(ls, k, r, c)[s] = ls[k][s]
      BY <2>2, InsertedResult
    <3>5. QED
      BY <3>1, <3>2, <3>3, <3>4
  <2>5. QED
    BY <2>1, <2>2, <2>3, <2>4 DEF Filed, SameLetter
<1>6. \A i \in Keys : i \notin moved => items'[i] = its[i] /\ letters'[i] = ls[i]
  BY <1>4
<1>7. \A i \in Keys : i \notin moved => SameLetters(i)
  BY <1>6 DEF SameLetters, SameLetter
<1>8. \A i \in Keys : items'[i] \in Item /\ letters'[i] \in [Revisions -> Letter]
  <2> TAKE i \in Keys
  <2>1. CASE i \in moved
    BY <1>4, <1>5, <2>1, NoItemType
  <2>2. CASE i \notin moved
    BY <1>6, <2>2
  <2>3. QED
    BY <2>1, <2>2
<1>9. items' \in [Keys -> Item] /\ letters' \in [Keys -> [Revisions -> Letter]]
  BY <1>4, <1>8
<1>10. \A i \in moved : items'[i] = NoItem
  BY <1>4
<1>11. QED
  BY <1>2, <1>5, <1>6, <1>7, <1>9, <1>10

WithStatus(k, r, st) == [letters EXCEPT ![k][r].status = st]

LEMMA LetterStatus ==
  ASSUME LaneTypeOK, NEW k \in Keys, NEW r \in Revisions, letters[k][r].status # "none",
         NEW st \in {"replayed", "resolved"}
  PROVE  /\ WithStatus(k, r, st) \in [Keys -> [Revisions -> Letter]]
         /\ \A i \in Keys : \A s \in Revisions :
              /\ WithStatus(k, r, st)[i][s].carries = letters[i][s].carries
              /\ WithStatus(k, r, st)[i][s].status = "none" <=> letters[i][s].status = "none"
<1> DEFINE ls == WithStatus(k, r, st)
           row == [letters[k] EXCEPT ![r] = [letters[k][r] EXCEPT !.status = st]]
<1>1. \A i \in Keys : letters[i] \in [Revisions -> Letter] /\ \A s \in Revisions : letters[i][s] \in Letter
  BY DEF LaneTypeOK
<1>2. row \in [Revisions -> Letter] /\ row[r].carries = letters[k][r].carries /\ row[r].status = st
      /\ \A s \in Revisions : s # r => row[s] = letters[k][s]
  BY <1>1 DEF Letter
<1>3. ls = [letters EXCEPT ![k] = row]
  BY DEF WithStatus
<1>4. DOMAIN letters = Keys /\ letters \in [Keys -> [Revisions -> Letter]]
  BY DEF LaneTypeOK
<1> HIDE DEF row
<1>5. ls \in [Keys -> [Revisions -> Letter]]
  <2> HIDE DEF ls
  <2> QED
    BY <1>2, <1>3, <1>4
<1>6. \A i \in Keys : ls[i] = IF i = k THEN row ELSE letters[i]
  <2> HIDE DEF ls
  <2> QED
    BY <1>3, <1>4
<1>7. \A i \in Keys : \A s \in Revisions :
        /\ ls[i][s].carries = letters[i][s].carries
        /\ ls[i][s].status = "none" <=> letters[i][s].status = "none"
  <2> HIDE DEF ls
  <2> QED
    BY <1>2, <1>6
<1> HIDE DEF ls
<1>8. QED
  BY <1>5, <1>7 DEF ls

\* The operator's steps.  The item that is replayed carries what its letter has.
LEMMA ReplayResult ==
  ASSUME LaneTypeOK, Carried, NEW k \in Keys, NEW r \in Revisions, ReplayDeadLetter(k, r)
  PROVE  /\ items' \in [Keys -> Item] /\ letters' \in [Keys -> [Revisions -> Letter]]
         /\ ~Live(k) /\ letters[k][r].status = "open"
         /\ items'[k].state = "pending" /\ items'[k].revision = r
         /\ items'[k].carries = letters[k][r].carries /\ SameLetters(k)
         /\ \A i \in Keys : i # k =>
              \/ items'[i] = items[i] /\ SameLetters(i)
              \/ /\ items[i].state = "parked" /\ items'[i] = NoItem
                 /\ Filed(i, items[i].revision, items[i].carries)
         /\ UNCHANGED <<batchVars, reviews, results, sent, heads, receipts, canonical, workers,
                        given, faults>>
<1> DEFINE it == [state |-> "pending", revision |-> r, attempts |-> 0,
                  carries |-> letters[k][r].carries]
           its == [items EXCEPT ![k] = it]
           ls == WithStatus(k, r, "replayed")
<1>1. ~Live(k) /\ letters[k][r].status = "open" /\ \E moved \in SUBSET Keys : Drained(its, ls, moved)
      /\ UNCHANGED <<batchVars, reviews, results, sent, heads, receipts, canonical, workers,
                     given, faults>>
  BY DEF ReplayDeadLetter, IsOpen, WithStatus
<1>2. letters[k][r].carries \in Keys
  BY <1>1 DEF Carried, Carries, Twins
<1>3. /\ it \in Item /\ it.state = "pending" /\ it.revision = r
      /\ it.carries = letters[k][r].carries
  BY <1>2, LaneAssumption DEF Item
<1>4. its \in [Keys -> Item] /\ DOMAIN items = Keys
  BY <1>3 DEF LaneTypeOK
<1> HIDE DEF it
<1>5. \A i \in Keys : its[i] = IF i = k THEN it ELSE items[i]
  BY <1>4
<1>6. /\ ls \in [Keys -> [Revisions -> Letter]]
      /\ \A i \in Keys : \A s \in Revisions :
           /\ ls[i][s].carries = letters[i][s].carries
           /\ ls[i][s].status = "none" <=> letters[i][s].status = "none"
  BY <1>1, LetterStatus
<1> HIDE DEF its, ls
<1>7. \A i \in Keys : its[i].state = "parked" => its[i] = items[i] /\ i # k
  BY <1>3, <1>5
<1>8. /\ items' \in [Keys -> Item]
      /\ letters' \in [Keys -> [Revisions -> Letter]]
      /\ \A i \in Keys :
           \/ items'[i] = its[i] /\ SameLetters(i)
           \/ /\ items[i].state = "parked" /\ its[i] = items[i] /\ items'[i] = NoItem
              /\ Filed(i, items[i].revision, items[i].carries)
  BY <1>1, <1>4, <1>6, <1>7, DrainedResult
<1>9. items'[k] = it /\ SameLetters(k)
  BY <1>1, <1>5, <1>8 DEF Live
<1>10. \A i \in Keys : i # k =>
         \/ items'[i] = items[i] /\ SameLetters(i)
         \/ /\ items[i].state = "parked" /\ items'[i] = NoItem
            /\ Filed(i, items[i].revision, items[i].carries)
  BY <1>5, <1>8
<1>11. QED
  BY <1>1, <1>3, <1>8, <1>9, <1>10

LEMMA ResolveResult ==
  ASSUME LaneTypeOK, Carried, NEW k \in Keys, NEW r \in Revisions,
         ResolveDeadLetter(k, r) \/ RecoverFresh(k, r)
  PROVE  /\ items' \in [Keys -> Item] /\ letters' \in [Keys -> [Revisions -> Letter]]
         /\ letters[k][r].status = "open"
         /\ \A i \in Keys :
              \/ items'[i] = items[i] /\ SameLetters(i)
              \/ /\ items[i].state = "parked" /\ items'[i] = NoItem
                 /\ Filed(i, items[i].revision, items[i].carries)
         /\ UNCHANGED <<batchVars, results, sent, heads, receipts, canonical, workers, given, faults>>
<1> DEFINE ls == WithStatus(k, r, "resolved")
<1>1. letters[k][r].status = "open" /\ \E moved \in SUBSET Keys : Drained(items, ls, moved)
      /\ UNCHANGED <<batchVars, results, sent, heads, receipts, canonical, workers, given, faults>>
  BY DEF ResolveDeadLetter, RecoverFresh, IsOpen, WithStatus
<1>2. /\ ls \in [Keys -> [Revisions -> Letter]]
      /\ \A i \in Keys : \A s \in Revisions :
           /\ ls[i][s].carries = letters[i][s].carries
           /\ ls[i][s].status = "none" <=> letters[i][s].status = "none"
  BY <1>1, LetterStatus
<1> HIDE DEF ls
<1>3. items \in [Keys -> Item]
  BY DEF LaneTypeOK
<1>4. QED
  BY <1>1, <1>2, <1>3, DrainedResult

\* A fresh review starts where nothing was enqueued yet.
LEMMA RecoverReview ==
  ASSUME LaneTypeOK, Carried, NEW k \in Keys, NEW r \in Revisions, RecoverFresh(k, r)
  PROVE  LET t == results[k].target
         IN /\ t \in Targets /\ reviews[t].state = "none"
            /\ \E q \in Review :
                 /\ reviews' = [reviews EXCEPT ![t] = q]
                 /\ q.state = "pending" /\ q.revision > heads[t] /\ q.generation = 0
<1> DEFINE t == results[k].target
           n == NextRevision(t, 1)
           q == [NoReview EXCEPT !.state = "pending", !.revision = n]
<1>1. letters[k][r].status = "open" /\ reviews[t].state = "none" /\ n <= MaxRevision
      /\ reviews' = [reviews EXCEPT ![t] = q]
  BY DEF RecoverFresh, IsOpen
<1>2. t \in Targets
  BY <1>1, ClaimedResult DEF Carried, Carries
<1>3. n \in Nat /\ n > heads[t]
  BY <1>2, NextRevisionBound
<1>4. n \in 0..MaxRevision
  BY <1>1, <1>3, LaneAssumption
<1> HIDE DEF n
<1>5. q \in Review /\ q.state = "pending" /\ q.revision = n /\ q.generation = 0
  BY <1>4, NoReviewType DEF Review
<1> HIDE DEF q
<1>6. QED
  BY <1>1, <1>2, <1>3, <1>5

-----------------------------------------------------------------------------
(* The items that a completion settles.                                        *)

Kinds == {"published", "superseded", "retryable", "unattempted", "permanent", "refresh"}

\* What an item may become that stays.
Rearmed(it) == [it EXCEPT !.state = "pending", !.attempts = 0]
Waiting(it) == [it EXCEPT !.state = "pending"]
Retried(it) == [it EXCEPT !.state = "pending", !.attempts = @ + 1]

LEMMA ItemUpdate ==
  ASSUME NEW it \in Item,
         NEW new, new \in {Rearmed(it), Waiting(it), Retried(it), Parked(it)}
  PROVE  /\ new \in Item /\ new.state \in {"pending", "parked"}
         /\ new.revision = it.revision /\ new.carries = it.carries
<1>1. CASE new = Rearmed(it)
  BY <1>1 DEF Item, Rearmed
<1>2. CASE new = Waiting(it)
  BY <1>2 DEF Item, Waiting
<1>3. CASE new = Retried(it)
  <2>1. it.attempts + 1 \in Nat
    BY DEF Item
  <2>2. new = [state |-> "pending", revision |-> it.revision, attempts |-> it.attempts + 1,
               carries |-> it.carries]
    BY <1>3 DEF Item, Retried
  <2>3. QED
    BY <2>1, <2>2 DEF Item
<1>4. CASE new = Parked(it)
  <2>1. it.attempts + 1 \in Nat
    BY DEF Item
  <2>2. new = [state |-> "parked", revision |-> it.revision, attempts |-> it.attempts + 1,
               carries |-> it.carries]
    BY <1>4 DEF Item, Parked
  <2>3. QED
    BY <2>1, <2>2 DEF Item
<1>5. QED
  BY <1>1, <1>2, <1>3, <1>4

\* What becomes of one item: it is not settled; it stays in the queue or parks, at
\* its revision; it goes because it is done; or it goes and is filed as a letter.
Stays(k, settled) == k \notin settled /\ items'[k] = items[k] /\ SameLetters(k)

Requeued(k, settled) ==
  /\ k \in settled /\ items'[k].state \in {"pending", "parked"} /\ SameLetters(k)
  /\ items'[k].revision = items[k].revision /\ items'[k].carries = items[k].carries

Done(k, settled, kindOf, revisionOf) ==
  /\ k \in settled /\ items[k].revision = revisionOf[k]
  /\ kindOf[k] \in {"published", "superseded", "refresh"}
  /\ items'[k] = NoItem /\ SameLetters(k)
  /\ kindOf[k] = "superseded" => items[k].carries \in given'.dropped
  /\ kindOf[k] = "refresh" => items[k].carries \in given'.refreshed

DeadLettered(k, settled) ==
  k \in settled /\ items'[k] = NoItem /\ Filed(k, items[k].revision, items[k].carries)

LEMMA FinishItemsItems ==
  ASSUME LaneTypeOK, Carried, NEW settled \in SUBSET {k \in Keys : Live(k)},
         NEW kindOf, NEW revisionOf,
         \A k \in settled : /\ kindOf[k] \in Kinds
                            /\ revisionOf[k] \in Nat /\ revisionOf[k] <= items[k].revision,
         FinishItems(settled, kindOf, revisionOf)
  PROVE  /\ items' \in [Keys -> Item]
         /\ letters' \in [Keys -> [Revisions -> Letter]]
         /\ \A k \in Keys : \/ Stays(k, settled) \/ Requeued(k, settled)
                            \/ Done(k, settled, kindOf, revisionOf) \/ DeadLettered(k, settled)
<1> DEFINE newer     == {k \in settled : items[k].revision > revisionOf[k]}
           of(kinds) == {k \in settled \ newer : kindOf[k] \in kinds}
           failed    == of({"permanent", "retryable"})
           exhausted == {k \in failed : Exhausted(k)}
           refreshed == of({"refresh"})
<1>1. PICK in \in SUBSET exhausted :
       /\ items' = [k \in Keys |->
            CASE k \in newer -> [items[k] EXCEPT !.state = "pending", !.attempts = 0]
              [] k \in of({"published", "superseded", "refresh"}) \cup in -> NoItem
              [] k \in exhausted \ in -> Parked(items[k])
              [] k \in of({"unattempted"}) -> [items[k] EXCEPT !.state = "pending"]
              [] k \in failed \ exhausted ->
                   [items[k] EXCEPT !.state = "pending", !.attempts = @ + 1]
              [] OTHER -> items[k]]
       /\ letters' = [k \in Keys |-> IF k \in in
                                     THEN Inserted(letters, k, revisionOf[k], items[k].carries)
                                     ELSE letters[k]]
       /\ given' = [given EXCEPT
            !.dropped = @ \cup {items[k].carries : k \in of({"superseded"})},
            !.refreshed = @ \cup {items[k].carries : k \in refreshed}]
  BY DEF FinishItems
<1>2. \A k \in of({"superseded"}) : items[k].carries \in given'.dropped
  BY <1>1 DEF LaneTypeOK, History
<1>3. \A k \in refreshed : items[k].carries \in given'.refreshed
  BY <1>1 DEF LaneTypeOK, History
<1>4. letters \in [Keys -> [Revisions -> Letter]]
  BY DEF LaneTypeOK
<1>5. \A k \in settled : /\ k \in Keys /\ items[k] \in Item /\ items[k].state # "absent"
                         /\ items[k].revision \in Revisions /\ items[k].carries \in Keys
                         /\ items[k].revision \in Nat
  <2> TAKE k \in settled
  <2>1. k \in Keys /\ Live(k) /\ items[k] \in Item
    BY RowTypes
  <2>2. items[k].revision \in Revisions /\ items[k].carries \in Keys
    BY <2>1, LiveItem, LaneAssumption
  <2>3. QED
    BY <2>1, <2>2, LiveItem DEF Live
<1>6. \A k \in settled \ newer : items[k].revision = revisionOf[k]
  BY <1>5
<1>7. \A k \in in : k \in settled /\ k \notin newer /\ kindOf[k] \in {"permanent", "retryable"}
  OBVIOUS
<1>8. ASSUME NEW k \in Keys, k \notin in
      PROVE  letters'[k] = letters[k] /\ SameLetters(k)
  BY <1>1, <1>8 DEF SameLetters, SameLetter
<1>9. ASSUME NEW k \in in
      PROVE  /\ letters'[k] \in [Revisions -> Letter]
             /\ Filed(k, items[k].revision, items[k].carries)
  <2>1. PICK r \in Revisions, c \in Keys : r = items[k].revision /\ c = items[k].carries
    BY <1>5, <1>7
  <2>2. k \in Keys /\ revisionOf[k] = r
    BY <1>5, <1>6, <1>7, <2>1
  <2>3. letters'[k] = Inserted(letters, k, r, c)
    BY <1>1, <2>1, <2>2
  <2>4. Inserted(letters, k, r, c) \in [Revisions -> Letter]
    BY <1>4, <2>2, InsertedResult
  <2>5. Inserted(letters, k, r, c)[r].status = "open"
    BY <1>4, <2>2, InsertedResult
  <2>6. Inserted(letters, k, r, c)[r].carries
          = IF letters[k][r].status = "none" THEN c ELSE letters[k][r].carries
    BY <1>4, <2>2, InsertedResult
  <2>7. \A s \in Revisions : s # r => Inserted(letters, k, r, c)[s] = letters[k][s]
    BY <1>4, <2>2, InsertedResult
  <2>8. QED
    BY <2>1, <2>2, <2>3, <2>4, <2>5, <2>6, <2>7 DEF Filed, SameLetter
<1>10. \A k \in Keys : letters'[k] \in [Revisions -> Letter]
  BY <1>4, <1>8, <1>9
<1>11. letters' \in [Keys -> [Revisions -> Letter]]
  BY <1>1, <1>10
<1>12. ASSUME NEW k \in Keys
       PROVE  /\ items'[k] \in Item
              /\ \/ Stays(k, settled) \/ Requeued(k, settled)
                 \/ Done(k, settled, kindOf, revisionOf) \/ DeadLettered(k, settled)
  <2>1. CASE k \in newer
    <3>1. items'[k] = Rearmed(items[k])
      BY <1>1, <2>1 DEF Rearmed
    <3>2. k \in settled /\ k \notin in
      BY <2>1
    <3>3. /\ items'[k] \in Item /\ items'[k].state \in {"pending", "parked"}
          /\ items'[k].revision = items[k].revision /\ items'[k].carries = items[k].carries
      BY <1>5, <3>1, <3>2, ItemUpdate
    <3>4. QED
      BY <1>8, <3>2, <3>3 DEF Requeued
  <2>2. CASE k \in of({"published", "superseded", "refresh"})
    <3>1. items'[k] = NoItem
      BY <1>1, <2>2
    <3>2. k \in settled /\ k \notin in /\ kindOf[k] \in {"published", "superseded", "refresh"}
          /\ k \notin newer
      BY <2>2
    <3>3. items[k].revision = revisionOf[k]
      BY <1>6, <3>2
    <3>4. kindOf[k] = "superseded" => items[k].carries \in given'.dropped
      BY <1>2, <3>2
    <3>5. kindOf[k] = "refresh" => items[k].carries \in given'.refreshed
      BY <1>3, <3>2
    <3>6. QED
      BY <1>8, <3>1, <3>2, <3>3, <3>4, <3>5, NoItemType DEF Done
  <2>3. CASE k \in in
    <3>1. items'[k] = NoItem
      BY <1>1, <1>7, <2>3
    <3>2. QED
      BY <1>7, <1>9, <2>3, <3>1, NoItemType DEF DeadLettered
  <2>4. CASE k \in exhausted /\ k \notin in
    <3>1. k \in settled /\ k \notin newer /\ k \notin of({"published", "superseded", "refresh"})
      BY <2>4
    <3>2. items'[k] = Parked(items[k])
      BY <1>1, <2>4, <3>1
    <3>3. /\ items'[k] \in Item /\ items'[k].state \in {"pending", "parked"}
          /\ items'[k].revision = items[k].revision /\ items'[k].carries = items[k].carries
      BY <1>5, <3>1, <3>2, ItemUpdate
    <3>4. QED
      BY <1>8, <2>4, <3>1, <3>3 DEF Requeued
  <2>5. CASE k \in of({"unattempted"})
    <3>1. /\ k \in settled /\ k \notin newer /\ k \notin of({"published", "superseded", "refresh"})
          /\ k \notin exhausted /\ k \notin in
      BY <2>5
    <3>2. items'[k] = Waiting(items[k])
      BY <1>1, <2>5, <3>1 DEF Waiting
    <3>3. /\ items'[k] \in Item /\ items'[k].state \in {"pending", "parked"}
          /\ items'[k].revision = items[k].revision /\ items'[k].carries = items[k].carries
      BY <1>5, <3>1, <3>2, ItemUpdate
    <3>4. QED
      BY <1>8, <3>1, <3>3 DEF Requeued
  <2>6. CASE k \in failed /\ k \notin exhausted
    <3>1. /\ k \in settled /\ k \notin newer /\ k \notin of({"published", "superseded", "refresh"})
          /\ k \notin in /\ k \notin of({"unattempted"})
      BY <2>6
    <3>2. items'[k] = Retried(items[k])
      BY <1>1, <2>6, <3>1 DEF Retried
    <3>3. /\ items'[k] \in Item /\ items'[k].state \in {"pending", "parked"}
          /\ items'[k].revision = items[k].revision /\ items'[k].carries = items[k].carries
      BY <1>5, <3>1, <3>2, ItemUpdate
    <3>4. QED
      BY <1>8, <3>1, <3>3 DEF Requeued
  <2>7. CASE k \notin settled
    <3>1. items'[k] = items[k] /\ k \notin in
      BY <1>1, <2>7
    <3>2. QED
      BY <1>8, <2>7, <3>1, RowTypes DEF Stays
  <2>8. QED
    BY <2>1, <2>2, <2>3, <2>4, <2>5, <2>6, <2>7 DEF Kinds
<1>13. items' \in [Keys -> Item]
  BY <1>1, <1>12
<1>14. QED
  BY <1>11, <1>12, <1>13

\* Only what is reported as superseded is given up, only what is reported for
\* refresh is handed back; and only of a target of such an item does the review
\* change: one waits.
LEMMA FinishItemsGiven ==
  ASSUME LaneTypeOK, Carried, NEW settled \in SUBSET {k \in Keys : Live(k)},
         NEW kindOf, NEW revisionOf,
         FinishItems(settled, kindOf, revisionOf)
  PROVE  /\ given' \in History
         /\ given'.taken = given.taken /\ given'.published = given.published
         /\ given.dropped \subseteq given'.dropped /\ given.refreshed \subseteq given'.refreshed
         /\ \A c \in given'.dropped : c \in given.dropped \/ \E k \in settled :
              /\ kindOf[k] = "superseded" /\ ~(items[k].revision > revisionOf[k])
              /\ c = items[k].carries
         /\ \A t \in Targets :
              \/ reviews'[t] = reviews[t]
              \/ /\ reviews[t].state \in {"none", "pending"}
                 /\ reviews'[t].state = "pending"
                 /\ RunsOf(t) \cap given'.refreshed # {}
         /\ reviews' \in [Targets -> Review]
<1> DEFINE newer     == {k \in settled : items[k].revision > revisionOf[k]}
           of(kinds) == {k \in settled \ newer : kindOf[k] \in kinds}
           refreshed == of({"refresh"})
           mine(t) == {k \in refreshed : Of(k).target = t}
           n(t) == Cardinality(mine(t))
           gone == {items[k].carries : k \in of({"superseded"})}
           back == {items[k].carries : k \in refreshed}
<1>1. /\ \A t \in Targets : RefreshedReview(t, n(t)).revision <= MaxRevision
      /\ reviews' = [t \in Targets |-> RefreshedReview(t, n(t))]
      /\ given' = [given EXCEPT !.dropped = @ \cup gone, !.refreshed = @ \cup back]
  BY DEF FinishItems
<1>2. \A k \in settled : k \in Keys /\ Live(k) /\ items[k].carries \in Keys
  BY LiveItem
<1>3. gone \subseteq Keys /\ back \subseteq Keys
  BY <1>2
<1>4. \A c \in gone : \E k \in settled :
              /\ kindOf[k] = "superseded" /\ ~(items[k].revision > revisionOf[k])
              /\ c = items[k].carries
  OBVIOUS
<1>5. ASSUME NEW t \in Targets
      PROVE  /\ n(t) \in Nat
             /\ n(t) = 0 \/ RunsOf(t) \cap back # {}
  <2>1. mine(t) \subseteq Keys
    BY <1>2
  <2>2. IsFiniteSet(mine(t))
    BY <2>1, BatchAssumption, FS_Subset
  <2>3. n(t) \in Nat /\ (n(t) = 0 <=> mine(t) = {})
    <3> HIDE DEF mine
    <3> QED
      BY <2>2, FS_CardinalityType, FS_EmptySet
  <2>4. ASSUME mine(t) # {}
        PROVE  RunsOf(t) \cap back # {}
    <3>1. PICK k \in mine(t) : TRUE
      BY <2>4
    <3>2. items[k].carries \in back /\ items[k].carries \in Keys
          /\ results[items[k].carries].target = t
      BY <1>2, <3>1 DEF Of
    <3>3. QED
      BY <3>2 DEF RunsOf
  <2>5. QED
    BY <2>3, <2>4
<1> HIDE DEF gone, back, n
<1>6. /\ given' \in History
      /\ given'.taken = given.taken /\ given'.published = given.published
      /\ given'.dropped = given.dropped \cup gone
      /\ given'.refreshed = given.refreshed \cup back
  BY <1>1, <1>3 DEF LaneTypeOK, History
<1>7. ASSUME NEW t \in Targets
      PROVE  /\ reviews'[t] \in Review
             /\ \/ reviews'[t] = reviews[t]
                \/ /\ reviews[t].state \in {"none", "pending"}
                   /\ reviews'[t].state = "pending"
                     /\ RunsOf(t) \cap given'.refreshed # {}
  <2> DEFINE m == n(t)
  <2>1. reviews'[t] = RefreshedReview(t, m) /\ reviews[t] \in Review
        /\ RefreshedReview(t, m).revision <= MaxRevision
    BY <1>1, RowTypes
  <2>2. m \in Nat /\ (m = 0 \/ RunsOf(t) \cap given'.refreshed # {})
    BY <1>5, <1>6
  <2> HIDE DEF m
  <2>3. CASE m = 0
    BY <2>1, <2>3 DEF RefreshedReview
  <2>4. CASE m > 0 /\ reviews[t].state = "none"
    <3>1. RefreshedReview(t, m) = [NoReview EXCEPT !.state = "pending", !.revision = m]
      BY <2>4 DEF RefreshedReview
    <3>2. m <= MaxRevision
      BY <2>1, <3>1 DEF NoReview
    <3>3. m \in 0..MaxRevision
      BY <2>2, <3>2, LaneAssumption
    <3>4. RefreshedReview(t, m) \in Review /\ RefreshedReview(t, m).state = "pending"
          /\ RefreshedReview(t, m).revision = m
      BY <3>1, <3>3, NoReviewType DEF Review
    <3>5. QED
      BY <2>1, <2>2, <2>4, <3>4
  <2>5. CASE m > 0 /\ reviews[t].state = "pending"
    <3>1. RefreshedReview(t, m) = [reviews[t] EXCEPT !.revision = @ + m]
      BY <2>4, <2>5 DEF RefreshedReview
    <3>2. RefreshedReview(t, m).state = "pending"
          /\ RefreshedReview(t, m).revision = reviews[t].revision + m
      BY <2>1, <2>5, <3>1 DEF Review
    <3>3. reviews[t].revision \in Nat /\ reviews[t].revision + m \in 0..MaxRevision
      BY <2>1, <2>2, <3>2, LaneAssumption DEF Review
    <3>4. RefreshedReview(t, m) \in Review
      BY <2>1, <3>1, <3>3 DEF Review
    <3>5. QED
      BY <2>1, <2>2, <2>5, <3>2, <3>3, <3>4
  <2>6. CASE m > 0 /\ reviews[t].state \notin {"none", "pending"}
    BY <2>1, <2>6 DEF RefreshedReview
  <2>7. QED
    BY <2>2, <2>3, <2>4, <2>5, <2>6
<1>8. reviews' \in [Targets -> Review]
  BY <1>1, <1>7
<1>9. QED
  BY <1>4, <1>6, <1>7, <1>8

-----------------------------------------------------------------------------
(* The memberships a completion settles.                                       *)

\* m is n with another outcome.
SameMember(m, n) == m.batch = n.batch /\ SameFence(m, n)

LEMMA ReclaimedOrigin ==
  ASSUME IInv, NEW m \in ReclaimedMemberships
  PROVE  /\ \E n \in memberships : SameMember(m, n)
         /\ m.outcome = "published" \/ Open(m) => m \in memberships
<1>1. PICK n \in memberships :
        m = IF Open(n) /\ Overdue(n.batch) THEN [n EXCEPT !.outcome = "lease_expired"] ELSE n
  BY DEF ReclaimedMemberships
<1>2. n \in Membership
  BY DEF IInv, BatchTypeOK
<1>3. CASE Open(n) /\ Overdue(n.batch)
  <2>1. m = [n EXCEPT !.outcome = "lease_expired"]
    BY <1>1, <1>3
  <2>2. /\ m.batch = n.batch /\ m.item = n.item /\ m.revision = n.revision
        /\ m.generation = n.generation /\ m.outcome = "lease_expired"
    BY <1>2, <2>1 DEF Membership
  <2>3. QED
    BY <2>2 DEF SameMember, SameFence, Open, Unfinished
<1>4. CASE ~(Open(n) /\ Overdue(n.batch))
  BY <1>1, <1>4 DEF SameMember, SameFence
<1>5. QED
  BY <1>3, <1>4

LEMMA CompleteMembers ==
  ASSUME IInv, NEW b \in BatchIds, NEW o \in Owners,
         NEW completions, \A f \in completions : f.outcome \in Outcomes,
         Complete(b, o, completions)
  PROVE  /\ \A m \in memberships' :
              \/ /\ m \in ReclaimedMemberships
                 /\ \A f \in completions : m \notin Settles(b, o, f)
              \/ \E n \in ReclaimedMemberships, f \in completions :
                   /\ n \in Settles(b, o, f) /\ SameMember(m, n) /\ m.outcome = f.outcome
         /\ \A f \in completions : \A m \in Settles(b, o, f) : m \notin memberships'
<1> DEFINE settled(m) == {f \in completions : m \in Settles(b, o, f)}
           After(m) == IF settled(m) = {} THEN m
                       ELSE [m EXCEPT !.outcome = (CHOOSE f \in settled(m) : TRUE).outcome]
<1>1. memberships' = {After(m) : m \in ReclaimedMemberships}
  BY DEF Complete
<1>2. ASSUME NEW m \in ReclaimedMemberships, settled(m) # {}
      PROVE  \E f \in settled(m) : /\ SameMember(After(m), m) /\ After(m).outcome = f.outcome
                                   /\ ~Open(After(m))
  <2>1. PICK f \in settled(m) : f = CHOOSE g \in settled(m) : TRUE
    BY <1>2
  <2>2. f.outcome \in Outcomes
    BY <2>1
  <2>3. After(m) = [m EXCEPT !.outcome = f.outcome]
    BY <1>2, <2>1, <2>2
  <2>4. m \in Membership
    BY ReclaimedMembers DEF IInv
  <2> HIDE DEF After
  <2>5. SameMember(After(m), m) /\ After(m).outcome = f.outcome
    BY <2>3, <2>4 DEF SameMember, SameFence, Membership
  <2>6. ~Open(After(m))
    BY <2>2, <2>5 DEF Open, Outcomes, Unfinished
  <2>7. QED
    BY <2>1, <2>5, <2>6
<1>3. \A m \in ReclaimedMemberships : settled(m) = {} => After(m) = m
  OBVIOUS
<1>4. \A f \in completions : \A m \in Settles(b, o, f) : m \in ReclaimedMemberships /\ Open(m)
  BY DEF Settles, MembersOf
<1> HIDE DEF After
<1>5. ASSUME NEW m \in memberships'
      PROVE  \/ /\ m \in ReclaimedMemberships
                /\ \A f \in completions : m \notin Settles(b, o, f)
             \/ /\ ~Open(m)
                /\ \E n \in ReclaimedMemberships, f \in completions :
                     /\ n \in Settles(b, o, f) /\ SameMember(m, n) /\ m.outcome = f.outcome
  <2>1. PICK n \in ReclaimedMemberships : m = After(n)
    BY <1>1
  <2>2. CASE settled(n) = {}
    <3>1. m = n
      BY <1>3, <2>1, <2>2
    <3>2. QED
      BY <2>2, <3>1
  <2>3. CASE settled(n) # {}
    <3>1. PICK f \in settled(n) : /\ SameMember(m, n) /\ m.outcome = f.outcome /\ ~Open(m)
      BY <1>2, <2>1, <2>3
    <3>2. QED
      BY <3>1
  <2>4. QED
    BY <2>2, <2>3
<1>6. QED
  BY <1>4, <1>5

\* What a completion by the batch's own publisher settles is settled.
LEMMA PublisherSettles ==
  ASSUME IInv, Granted, NEW b \in BatchIds, NEW m \in MembersOf(ReclaimedMemberships, b), Open(m),
         NEW f, SameFence(m, f)
  PROVE  m \in Settles(b, Publisher, f)
<1>1. Leased(ReclaimedBatches, b)
  <2>1. Sound(ReclaimedBatches, ReclaimedMemberships)
    BY ReclaimIsSound DEF IInv
  <2>2. StillOpen(ReclaimedMemberships, b)
    BY DEF StillOpen
  <2>3. QED
    BY <2>1, <2>2 DEF Sound, LeasesMatch
<1>2. batches[b].owner = Publisher
  BY <1>1, ReclaimedRows DEF IInv, Granted
<1>3. QED
  BY <1>1, <1>2 DEF Settles

\* Nobody else owns the item of an open membership.
LEMMA OwnerIsOne ==
  ASSUME IInv, NEW m \in memberships, NEW n \in memberships, Open(m), Open(n), m.item = n.item
  PROVE  m = n
  BY DEF IInv, Sound, OneOwnerIn

LEMMA FetchResult ==
  ASSUME LaneTypeOK, IInv, Granted, Carried, NEW b \in BatchIds, Fetch(b)
  PROVE  \E gone \in SUBSET {k \in Keys : Live(k) /\ Surpassed(k)} :
           /\ items' \in [Keys -> Item]
           /\ \A k \in Keys : items'[k] = IF k \in gone THEN NoItem ELSE items[k]
           /\ \A m \in memberships' : Open(m) => m \in memberships /\ m.item \notin gone
           /\ given' \in History
           /\ given'.dropped = given.dropped \cup {items[k].carries : k \in gone}
           /\ given'.taken = given.taken /\ given'.published = given.published
           /\ given'.refreshed = given.refreshed
<1> DEFINE stale == StaleMembers(b)
           leaving == {n \in stale : Live(n.item) /\ items[n.item].revision = n.revision}
           gone == {m.item : m \in leaving}
           completions == {WithOutcome(m, "superseded") : m \in stale}
           od == {items[k].carries : k \in gone}
<1>1. /\ Complete(b, Publisher, completions)
      /\ items' = [k \in Keys |-> IF k \in gone THEN NoItem ELSE items[k]]
      /\ given' = [given EXCEPT !.dropped = @ \cup od]
  BY DEF Fetch
<1>2. \A m \in stale : m \in MembersOf(ReclaimedMemberships, b) /\ Open(m) /\ m \in memberships
                       /\ m.item \in Keys
  <2>1. \A m \in stale : m \in MembersOf(ReclaimedMemberships, b) /\ Open(m)
    BY DEF StaleMembers
  <2>2. \A m \in stale : m \in memberships
    BY <2>1, ReclaimedMembers DEF MembersOf, IInv
  <2>3. QED
    BY <2>1, <2>2 DEF IInv, BatchTypeOK, Membership
<1>3. gone \in SUBSET {k \in Keys : Live(k) /\ Surpassed(k)}
  <2>1. \A m \in leaving : Live(m.item) /\ Surpassed(m.item) /\ m.item \in Keys
    BY <1>2 DEF StaleMembers
  <2>2. QED
    BY <2>1
<1>4. od \subseteq Keys
  BY <1>3, LiveItem
<1>5. ASSUME NEW m \in stale
      PROVE  m \notin memberships'
  <2>1. SameFence(m, WithOutcome(m, "superseded"))
    BY DEF SameFence, WithOutcome
  <2>2. m \in Settles(b, Publisher, WithOutcome(m, "superseded"))
    BY <1>2, <2>1, PublisherSettles
  <2>3. \A f \in completions : f.outcome \in Outcomes
    BY DEF WithOutcome, Outcomes
  <2>4. WithOutcome(m, "superseded") \in completions
    OBVIOUS
  <2> HIDE DEF completions
  <2>5. QED
    BY <1>1, <2>2, <2>3, <2>4, PublisherOwns, CompleteMembers
<1>6. ASSUME NEW m \in memberships', Open(m)
      PROVE  m \in memberships /\ m.item \notin gone
  <2>1. m \in memberships
    <3>1. \A f \in completions : f.outcome \in Outcomes
      BY DEF WithOutcome, Outcomes
    <3> HIDE DEF completions
    <3>2. m \in ReclaimedMemberships
      BY <1>1, <1>6, <3>1, PublisherOwns, CompleteResult DEF IInv
    <3>3. QED
      BY <1>6, <3>2, ReclaimedMembers DEF IInv
  <2>2. ASSUME m.item \in gone
        PROVE  FALSE
    <3>1. PICK n \in stale : m.item = n.item
      BY <2>2
    <3>2. m = n
      BY <1>2, <1>6, <2>1, <3>1, OwnerIsOne
    <3>3. QED
      BY <1>5, <1>6, <3>1, <3>2
  <2>3. QED
    BY <2>1, <2>2
<1> HIDE DEF gone, stale, completions
<1>7. items' \in [Keys -> Item] /\ \A k \in Keys : items'[k] = IF k \in gone THEN NoItem ELSE items[k]
  BY <1>1, NoItemType, RowTypes
<1> HIDE DEF od
<1>8. /\ given' \in History
      /\ given'.dropped = given.dropped \cup od
      /\ given'.taken = given.taken /\ given'.published = given.published
      /\ given'.refreshed = given.refreshed
  BY <1>1, <1>4 DEF LaneTypeOK, History
<1>9. QED
  BY <1>3, <1>6, <1>7, <1>8 DEF od

\* What a fetch answers are fences of the batch, one for an item, and owned.
LEMMA FetchedFences ==
  ASSUME LaneTypeOK, IInv, Granted, Carried, NEW b \in BatchIds, Fetch(b), IInv'
  PROVE  /\ Fetched(b) \subseteq FencesOf(b)
         /\ \A f, g \in Fetched(b) : f.item = g.item => f = g
         /\ Fetched(b) \subseteq Fences
<1>1. ASSUME NEW f \in Fetched(b)
      PROVE  \E m \in memberships : /\ m.batch = b /\ Open(m) /\ m \in memberships'
                                    /\ f = [item |-> m.item, revision |-> m.revision,
                                            generation |-> m.generation]
  <2>1. PICK m \in memberships' : /\ m.batch = b /\ Open(m)
                                  /\ f = [item |-> m.item, revision |-> m.revision,
                                          generation |-> m.generation]
    BY DEF Fetched, MembersOf
  <2>2. m \in memberships
    BY <2>1, FetchResult
  <2>3. QED
    BY <2>1, <2>2
<1>2. ASSUME NEW f \in Fetched(b)
      PROVE  f \in FencesOf(b) /\ f \in Fences
  <2>1. PICK m \in memberships : /\ m.batch = b /\ Open(m)
                                 /\ f = [item |-> m.item, revision |-> m.revision,
                                         generation |-> m.generation]
    BY <1>1
  <2>2. PICK g \in granted : g.batch = b /\ SameFence(m, g)
    BY <2>1 DEF Granted
  <2>3. f \in FencesOf(b)
    BY <2>1, <2>2 DEF FencesOf, SameFence
  <2>4. f \in Fences
    BY <2>1 DEF IInv, BatchTypeOK, Membership, Fences
  <2>5. QED
    BY <2>3, <2>4
<1>3. ASSUME NEW f \in Fetched(b), NEW g \in Fetched(b), f.item = g.item
      PROVE  f = g
  <2>1. PICK m \in memberships : /\ m.batch = b /\ Open(m) /\ m \in memberships'
                                 /\ f = [item |-> m.item, revision |-> m.revision,
                                         generation |-> m.generation]
    BY <1>1
  <2>2. PICK n \in memberships : /\ n.batch = b /\ Open(n) /\ n \in memberships'
                                 /\ g = [item |-> n.item, revision |-> n.revision,
                                         generation |-> n.generation]
    BY <1>1
  <2>3. m = n
    BY <1>3, <2>1, <2>2, OwnerIsOne
  <2>4. QED
    BY <2>1, <2>2, <2>3
<1>4. QED
  BY <1>2, <1>3

\* The kind a publisher reports.
LEMMA KindIsKnown ==
  ASSUME LaneTypeOK, NEW b \in BatchIds, NEW k \in Keys
  PROVE  /\ Kind(b)[k] \in Kinds
         /\ SettledAs(Kind(b)[k]) \in Outcomes
         /\ Kind(b)[k] \in {"published", "superseded", "refresh"} => workers[b].outcome[k] = Kind(b)[k]
         /\ SettledAs(Kind(b)[k]) = "published" => workers[b].outcome[k] = "published"
<1>1. workers[b].outcome[k] \in WorkOutcomes
  BY RowTypes DEF Worker
<1>2. Kind(b)[k] = IF workers[b].outcome[k] \in {"none", "eligible"} THEN "retryable"
                                                                   ELSE workers[b].outcome[k]
  BY DEF Kind
<1>3. QED
  BY <1>1, <1>2 DEF Kinds, WorkOutcomes, SettledAs, Outcomes

\* The items that a completion of these fences settles.
SettledBy(b, fences) ==
  {f.item : f \in {g \in Accepted(b, Publisher, fences) :
                     Live(g.item) /\ items[g.item].revision >= g.revision}}

LEMMA CompleteBatchResult ==
  ASSUME LaneTypeOK, IInv, Granted, Carried, NEW b \in BatchIds, NEW fences \in SUBSET Fences,
         \A f, g \in fences : f.item = g.item => f = g,
         CompleteBatch(b, fences)
  PROVE  LET settled == SettledBy(b, fences)
         IN /\ settled \in SUBSET {k \in Keys : Live(k)}
            /\ FinishItems(settled, Kind(b), RevisionOf(fences))
            /\ \A k \in settled : \E f \in fences :
                 /\ f.item = k /\ RevisionOf(fences)[k] = f.revision
                 /\ Kind(b)[k] \in Kinds
                 /\ f.revision \in Nat /\ f.revision <= items[k].revision
                 /\ \E m \in memberships : m.batch = b /\ Open(m) /\ SameFence(m, f)
            /\ \A m \in memberships' : Open(m) => m \in memberships /\ m.item \notin settled
            /\ \A m \in memberships' :
                 m.outcome = "published" => m \in memberships \/ \E f \in fences :
                   SameFence(m, f) /\ workers[b].outcome[f.item] = "published"
            /\ UNCHANGED <<results, sent, heads, receipts, canonical, faults>>
<1> DEFINE settled == SettledBy(b, fences)
           completions == {WithOutcome(f, SettledAs(Kind(b)[f.item])) : f \in fences}
<1>1. /\ Complete(b, Publisher, completions)
      /\ FinishItems(settled, Kind(b), RevisionOf(fences))
      /\ UNCHANGED <<results, sent, heads, receipts, canonical, faults>>
  BY DEF CompleteBatch, SettledBy
<1>2. \A f \in fences : f.item \in Keys /\ f.revision \in Nat
  BY BatchAssumption DEF Fences
<1>3. \A f \in completions : f.outcome \in Outcomes
  BY <1>2, KindIsKnown DEF WithOutcome
<1>4. ASSUME NEW k \in settled
      PROVE  \E f \in fences :
               /\ f.item = k /\ Live(k) /\ items[k].revision >= f.revision
               /\ \E m \in Settles(b, Publisher, f) : TRUE
  BY DEF SettledBy, Accepted
<1>5. \A f \in fences : \A m \in Settles(b, Publisher, f) :
        m \in memberships /\ m.batch = b /\ Open(m) /\ SameFence(m, f) /\ m \in ReclaimedMemberships
        /\ m \in Settles(b, Publisher, WithOutcome(f, SettledAs(Kind(b)[f.item])))
  <2> TAKE f \in fences
  <2> TAKE m \in Settles(b, Publisher, f)
  <2>1. m \in ReclaimedMemberships /\ m.batch = b /\ Open(m) /\ SameFence(m, f)
    BY DEF Settles, MembersOf
  <2>2. m \in memberships
    BY <2>1, ReclaimedMembers DEF IInv
  <2>3. m \in Settles(b, Publisher, WithOutcome(f, SettledAs(Kind(b)[f.item])))
    BY DEF Settles, WithOutcome, SameFence
  <2>4. QED
    BY <2>1, <2>2, <2>3
<1>6. ASSUME NEW f \in fences
      PROVE  RevisionOf(fences)[f.item] = f.revision
  <2> DEFINE mine == {g \in fences : g.item = f.item}
  <2>1. mine = {f}
    OBVIOUS
  <2>2. (CHOOSE g \in mine : TRUE) = f
    BY <2>1
  <2>3. RevisionOf(fences)[f.item] = IF mine = {} THEN 0 ELSE (CHOOSE g \in mine : TRUE).revision
    BY <1>2 DEF RevisionOf
  <2> HIDE DEF mine
  <2>4. QED
    BY <2>1, <2>2, <2>3
<1>7. settled \in SUBSET {k \in Keys : Live(k)}
  BY <1>2, <1>4
<1>8. ASSUME NEW k \in settled
      PROVE  \E f \in fences :
               /\ f.item = k /\ RevisionOf(fences)[k] = f.revision
               /\ Kind(b)[k] \in Kinds
               /\ f.revision \in Nat /\ f.revision <= items[k].revision
               /\ \E m \in memberships : m.batch = b /\ Open(m) /\ SameFence(m, f)
  <2>1. PICK f \in fences : /\ f.item = k /\ Live(k) /\ items[k].revision >= f.revision
                            /\ \E m \in Settles(b, Publisher, f) : TRUE
    BY <1>4
  <2>2. k \in Keys
    BY <1>7
  <2>3. items[k].revision \in Nat
    BY <2>1, <2>2, LiveItem
  <2>4. RevisionOf(fences)[k] = f.revision /\ f.revision \in Nat /\ f.revision <= items[k].revision
    BY <1>2, <1>6, <2>1, <2>3
  <2>5. \E m \in memberships : m.batch = b /\ Open(m) /\ SameFence(m, f)
    BY <1>5, <2>1
  <2>6. QED
    BY <2>1, <2>2, <2>4, <2>5, KindIsKnown
<1> HIDE DEF settled
<1>9. \A f \in fences : WithOutcome(f, SettledAs(Kind(b)[f.item])) \in completions
  OBVIOUS
<1>10. /\ \A m \in memberships' :
            \/ m \in ReclaimedMemberships
            \/ \E n \in ReclaimedMemberships, f \in completions :
                 /\ n \in Settles(b, Publisher, f) /\ SameMember(m, n) /\ m.outcome = f.outcome
       /\ \A f \in completions : \A m \in Settles(b, Publisher, f) : m \notin memberships'
       /\ \A m \in memberships' : Open(m) => m \in ReclaimedMemberships
  <2> HIDE DEF completions
  <2>1. /\ \A m \in memberships' :
            \/ m \in ReclaimedMemberships
            \/ \E n \in ReclaimedMemberships, f \in completions :
                 /\ n \in Settles(b, Publisher, f) /\ SameMember(m, n) /\ m.outcome = f.outcome
        /\ \A f \in completions : \A m \in Settles(b, Publisher, f) : m \notin memberships'
    BY <1>1, <1>3, PublisherOwns, CompleteMembers
  <2>2. \A m \in memberships' : Open(m) => m \in ReclaimedMemberships
    BY <1>1, <1>3, PublisherOwns, CompleteResult DEF IInv
  <2>3. QED
    BY <2>1, <2>2
<1>11. ASSUME NEW m \in memberships', Open(m)
       PROVE  m \in memberships /\ m.item \notin settled
  <2>1. m \in memberships
    BY <1>10, <1>11, ReclaimedMembers DEF IInv
  <2>2. ASSUME m.item \in settled
        PROVE  FALSE
    <3>1. PICK f \in fences : f.item = m.item /\ \E n \in Settles(b, Publisher, f) : TRUE
      BY <1>4, <2>2
    <3>2. PICK n \in Settles(b, Publisher, f) : TRUE
      BY <3>1
    <3>3. n \in memberships /\ Open(n) /\ n.item = m.item
      BY <1>5, <3>1, <3>2 DEF SameFence
    <3>4. n = m
      BY <1>11, <2>1, <3>3, OwnerIsOne
    <3>5. QED
      BY <1>5, <1>9, <1>10, <1>11, <3>2, <3>4
  <2>3. QED
    BY <2>1, <2>2
<1>12. ASSUME NEW m \in memberships', m.outcome = "published"
       PROVE  m \in memberships \/ \E f \in fences :
                SameFence(m, f) /\ workers[b].outcome[f.item] = "published"
  <2>1. CASE m \in ReclaimedMemberships
    BY <1>12, <2>1, ReclaimedOrigin
  <2>2. CASE \E n \in ReclaimedMemberships, f \in completions :
                 /\ n \in Settles(b, Publisher, f) /\ SameMember(m, n) /\ m.outcome = f.outcome
    <3>1. PICK n \in ReclaimedMemberships, g \in fences :
            /\ n \in Settles(b, Publisher, WithOutcome(g, SettledAs(Kind(b)[g.item])))
            /\ SameMember(m, n)
            /\ m.outcome = WithOutcome(g, SettledAs(Kind(b)[g.item])).outcome
      BY <2>2
    <3>2. SameFence(m, g)
      BY <3>1 DEF Settles, SameMember, SameFence, WithOutcome
    <3>3. workers[b].outcome[g.item] = "published"
      BY <1>2, <1>12, <3>1, KindIsKnown DEF WithOutcome
    <3>4. QED
      BY <3>2, <3>3
  <2>3. QED
    BY <1>10, <2>1, <2>2
<1>13. QED
  BY <1>1, <1>7, <1>8, <1>11, <1>12 DEF settled

-----------------------------------------------------------------------------
(* Canonical publication.                                                      *)

\* A receipt is written for good; the canonical record and the histories follow it.
LEMMA AcceptPlanResult ==
  ASSUME LaneTypeOK, NEW fence \in Keys \cup Targets, NEW r \in Nat, NEW k \in Keys, Claimed(k),
         AcceptPlan(fence, r, k)
  PROVE  /\ receipts \subseteq receipts' /\ receipts' \subseteq Receipt
         /\ canonical' \in [Targets -> [serial: Nat, source: 0..MaxRevision]]
         /\ given' \in History
         /\ given'.taken = given.taken /\ given'.refreshed = given.refreshed
         /\ \E p \in Receipt :
              /\ receipts' = receipts \cup {p} /\ p.fence = fence /\ p.revision = r
              /\ \/ /\ p.outcome = "published" /\ NewerReceipts(fence, r) = {}
                    /\ given'.published = given.published \cup {k}
                    /\ given'.dropped = given.dropped
                    /\ canonical' = [canonical EXCEPT ![results[k].target] =
                                       [serial |-> results[k].serial, source |-> results[k].source]]
                 \/ /\ p.outcome = "superseded" /\ NewerReceipts(fence, r) # {}
                    /\ given'.published = given.published
                    /\ given'.dropped = given.dropped \cup {k}
                    /\ canonical' = canonical
<1> DEFINE newer == NewerReceipts(fence, r) # {}
           p == [fence |-> fence, revision |-> r,
                 outcome |-> IF newer THEN "superseded" ELSE "published"]
           new == [serial |-> results[k].serial, source |-> results[k].source]
<1>1. p \in Receipt /\ p.fence = fence /\ p.revision = r
      /\ p.outcome = IF newer THEN "superseded" ELSE "published"
  BY DEF Receipt
<1>2. receipts' = receipts \cup {p}
  BY DEF AcceptPlan
<1>3. CASE newer
  <2>1. given' = [given EXCEPT !.dropped = @ \cup {k}] /\ canonical' = canonical
    BY <1>3 DEF AcceptPlan
  <2>2. /\ given' \in History /\ given'.dropped = given.dropped \cup {k}
        /\ given'.taken = given.taken /\ given'.refreshed = given.refreshed
        /\ given'.published = given.published
    BY <2>1 DEF LaneTypeOK, History
  <2> HIDE DEF p
  <2>3. QED
    BY <1>1, <1>2, <1>3, <2>1, <2>2 DEF LaneTypeOK
<1>4. CASE ~newer
  <2>1. given' = [given EXCEPT !.published = @ \cup {k}]
        /\ canonical' = [canonical EXCEPT ![results[k].target] = new]
    BY <1>4 DEF AcceptPlan
  <2>2. /\ given' \in History /\ given'.published = given.published \cup {k}
        /\ given'.taken = given.taken /\ given'.refreshed = given.refreshed
        /\ given'.dropped = given.dropped
    BY <2>1 DEF LaneTypeOK, History
  <2>3. new \in [serial: Nat, source: 0..MaxRevision] /\ results[k].target \in Targets
    BY ClaimedResult
  <2>4. canonical' \in [Targets -> [serial: Nat, source: 0..MaxRevision]]
    <3> HIDE DEF new
    <3> QED
      BY <2>1, <2>3 DEF LaneTypeOK
  <2> HIDE DEF p
  <2>5. QED
    BY <1>1, <1>2, <1>4, <2>1, <2>2, <2>4 DEF LaneTypeOK
<1>5. QED
  BY <1>3, <1>4

LEMMA AcceptPlanTypes ==
  ASSUME LaneTypeOK, NEW fence \in Keys \cup Targets, NEW r \in Nat, NEW k \in Keys, Claimed(k),
         AcceptPlan(fence, r, k)
  PROVE  /\ receipts \subseteq receipts' /\ receipts' \subseteq Receipt
         /\ canonical' \in [Targets -> [serial: Nat, source: 0..MaxRevision]]
         /\ given' \in History
         /\ given'.taken = given.taken /\ given'.refreshed = given.refreshed
         /\ given.published \subseteq given'.published /\ given.dropped \subseteq given'.dropped
<1>1. given.published \subseteq given'.published /\ given.dropped \subseteq given'.dropped
  BY DEF AcceptPlan, LaneTypeOK, History
<1>2. /\ receipts \subseteq receipts' /\ receipts' \subseteq Receipt
      /\ canonical' \in [Targets -> [serial: Nat, source: 0..MaxRevision]]
      /\ given' \in History
      /\ given'.taken = given.taken /\ given'.refreshed = given.refreshed
  BY AcceptPlanResult
<1>3. QED
  BY <1>1, <1>2

-----------------------------------------------------------------------------
(* Types, and histories that grow.                                             *)

Typed == LaneTypeOK' /\ Grows

FaultKinds == [kinds: SUBSET {"retryable", "unattempted", "permanent", "refresh"}, left: Nat]

LEMMA FaultType ==
  ASSUME LaneTypeOK, Fault
  PROVE  faults' \in FaultKinds
<1>1. faults \in FaultKinds /\ faults.left \in Nat /\ faults.left > 0
  BY DEF LaneTypeOK, FaultKinds, Fault
<1>2. faults' = [faults EXCEPT !.left = @ - 1]
  BY DEF Fault
<1>3. faults.left - 1 \in Nat
  BY <1>1
<1>4. QED
  BY <1>1, <1>2, <1>3 DEF FaultKinds

\* A store operation never takes back a fence.
LEMMA GrantsGrow ==
  ASSUME [BatchNext]_batchVars
  PROVE  granted \subseteq granted'
<1>1. ASSUME NEW b \in BatchIds, NEW o \in Owners, NEW candidates \in SUBSET Candidate,
             Claim(b, o, candidates)
      PROVE  granted \subseteq granted'
  BY <1>1 DEF Claim
<1>2. ASSUME NEW b \in BatchIds, NEW o \in Owners, NEW completions, Complete(b, o, completions)
      PROVE  granted \subseteq granted'
  BY <1>2 DEF Complete
<1>3. QED
  BY <1>1, <1>2 DEF BatchNext, batchVars, ClaimRefused, Heartbeat, Touch, Stats, Tick

\* Results, deliveries and receipts that stay are not taken back.
LEMMA SentReflexive ==
  ASSUME LaneTypeOK, UNCHANGED sent
  PROVE  \A k \in Keys : sent[k] <= sent'[k]
  BY RowTypes, LaneAssumption DEF LaneTypeOK

ReviewLane(t) ==
  ReviewEvent(t) \/ LoseReview(t) \/ CompleteReview(t) \/ \E k \in Keys : ClaimReview(t, k)

LEMMA ReviewLaneKeeps ==
  ASSUME NEW t \in Targets, ReviewLane(t)
  PROVE  UNCHANGED <<batchVars, sent, items, heads, receipts, canonical, letters, workers, given>>
  BY DEF ReviewLane, ReviewEvent, LoseReview, CompleteReview, ClaimReview

LEMMA ReviewLaneTypes ==
  ASSUME LaneTypeOK, NEW t \in Targets, ReviewLane(t)
  PROVE  Typed
<1>1. UNCHANGED <<batchVars, sent, items, heads, receipts, canonical, letters, workers, given>>
  BY ReviewLaneKeeps
<1>2. BatchTypeOK'
  BY <1>1 DEF LaneTypeOK, BatchTypeOK, batchVars
<1>3. reviews' \in [Targets -> Review]
  <2>1. \E q \in Review : reviews' = [reviews EXCEPT ![t] = q]
    BY ReviewEventResult, LoseReviewResult, CompleteReviewResult, ClaimReviewResult, NoReviewType
       DEF ReviewLane
  <2>2. QED
    BY <2>1 DEF LaneTypeOK
<1>4. /\ results' \in [Keys -> Result \cup {NoResult}]
      /\ \A k \in Keys : Claimed(k) => results'[k] = results[k]
  <2>1. CASE UNCHANGED results
    BY <2>1 DEF LaneTypeOK
  <2>2. CASE \E k \in Keys : ClaimReview(t, k)
    <3>1. PICK k \in Keys : ClaimReview(t, k)
      BY <2>2
    <3>2. ~Claimed(k) /\ \E res \in Result : results' = [results EXCEPT ![k] = res]
      BY <3>1, ClaimReviewResult
    <3>3. QED
      BY <3>2 DEF LaneTypeOK
  <2>3. QED
    BY <2>1, <2>2 DEF ReviewLane, ReviewEvent, LoseReview, CompleteReview
<1>5. faults' \in FaultKinds
  <2>1. CASE UNCHANGED faults
    BY <2>1 DEF LaneTypeOK, FaultKinds
  <2>2. CASE Fault
    BY <2>2, FaultType
  <2>3. QED
    BY <2>1, <2>2 DEF ReviewLane, ReviewEvent, LoseReview, CompleteReview, ClaimReview
<1>6. LaneTypeOK'
  BY <1>1, <1>2, <1>3, <1>4, <1>5 DEF LaneTypeOK, FaultKinds
<1>7. Grows
  BY <1>1, <1>4, SentReflexive DEF Grows, batchVars
<1>8. QED
  BY <1>6, <1>7 DEF Typed

\* The run that publishes directly becomes the lease of its finalisation.
LEMMA DirectPublishResult ==
  ASSUME LaneTypeOK, Running, NEW t \in Targets, DirectPublish(t)
  PROVE  LET r == reviews[t]
         IN /\ r.state = "leased" /\ r.revision = r.leaseRevision /\ sent[r.run] = 0
            /\ ReceiptsOf(t, r.revision) = {}
            /\ r.run \in Keys /\ Claimed(r.run) /\ r.revision \in Nat
            /\ results[r.run].target = t /\ results[r.run].source = r.revision
            /\ AcceptPlan(t, r.revision, r.run)
            /\ \E q \in Review :
                 /\ reviews' = [reviews EXCEPT ![t] = q] /\ q.state = "finishing"
                 /\ q.revision = r.revision /\ q.leaseRevision = r.leaseRevision
                 /\ q.generation = r.generation /\ q.run = r.run
            /\ sent' = [sent EXCEPT ![r.run] = MaxDeliveries]
            /\ UNCHANGED <<batchVars, results, items, heads, letters, workers, faults>>
<1> DEFINE r == reviews[t]
           q == [r EXCEPT !.state = "finishing"]
<1>1. /\ r.state = "leased" /\ r.revision = r.leaseRevision /\ sent[r.run] = 0
      /\ ReceiptsOf(t, r.revision) = {}
      /\ AcceptPlan(t, r.revision, r.run)
      /\ reviews' = [reviews EXCEPT ![t] = q]
      /\ sent' = [sent EXCEPT ![r.run] = MaxDeliveries]
      /\ UNCHANGED <<batchVars, results, items, heads, letters, workers, faults>>
  BY DEF DirectPublish
<1>2. r \in Review
  BY RowTypes
<1>3. q \in Review /\ q.state = "finishing" /\ q.revision = r.revision
      /\ q.leaseRevision = r.leaseRevision /\ q.generation = r.generation /\ q.run = r.run
  BY <1>2 DEF Review
<1>4. r.run \in RunsOf(t) /\ results[r.run].source = r.leaseRevision
  BY <1>1 DEF Running
<1>5. r.run \in Keys /\ results[r.run].target = t /\ Claimed(r.run)
  BY <1>4, ClaimedResult DEF RunsOf
<1>6. r.revision \in Nat
  BY <1>2, LaneAssumption DEF Review
<1> HIDE DEF q
<1>7. QED
  BY <1>1, <1>3, <1>4, <1>5, <1>6

LEMMA DirectPublishTypes ==
  ASSUME LaneTypeOK, Running, NEW t \in Targets, DirectPublish(t)
  PROVE  Typed
<1> DEFINE r == reviews[t]
<1>1. /\ r.run \in Keys /\ Claimed(r.run) /\ r.revision \in Nat
      /\ AcceptPlan(t, r.revision, r.run) /\ sent[r.run] = 0
      /\ \E q \in Review : reviews' = [reviews EXCEPT ![t] = q]
      /\ sent' = [sent EXCEPT ![r.run] = MaxDeliveries]
      /\ UNCHANGED <<batchVars, results, items, heads, letters, workers, faults>>
  BY DirectPublishResult
<1>2. BatchTypeOK'
  BY <1>1 DEF LaneTypeOK, BatchTypeOK, batchVars
<1>3. reviews' \in [Targets -> Review]
  BY <1>1 DEF LaneTypeOK
<1>4. sent' \in [Keys -> 0..MaxDeliveries] /\ \A k \in Keys : sent[k] <= sent'[k]
  BY <1>1, LaneAssumption DEF LaneTypeOK
<1>5. /\ receipts \subseteq receipts' /\ receipts' \subseteq Receipt
      /\ canonical' \in [Targets -> [serial: Nat, source: 0..MaxRevision]]
      /\ given' \in History
      /\ given'.taken = given.taken /\ given'.refreshed = given.refreshed
      /\ given.published \subseteq given'.published /\ given.dropped \subseteq given'.dropped
  BY <1>1, AcceptPlanTypes
<1>6. LaneTypeOK'
  BY <1>1, <1>2, <1>3, <1>4, <1>5 DEF LaneTypeOK
<1>7. Grows
  BY <1>1, <1>4, <1>5 DEF Grows, batchVars
<1>8. QED
  BY <1>6, <1>7 DEF Typed

LEMMA DeliverTypes ==
  ASSUME LaneTypeOK, Carried, Counted, NEW k \in Keys, Deliver(k), BatchTypeOK', granted \subseteq granted'
  PROVE  Typed
<1>1. MayDeliver(k)
  BY DEF Deliver, DeliverRefused, DeliverDuplicate, DeliverNew
<1>2. /\ items' \in [Keys -> Item] /\ given' \in History
      /\ given.taken \subseteq given'.taken /\ given.published \subseteq given'.published
      /\ given.dropped \subseteq given'.dropped /\ given.refreshed \subseteq given'.refreshed
  BY DeliverRefusedResult, DeliverDuplicateResult, DeliverNewResult DEF Deliver, LaneTypeOK
<1>3. UNCHANGED <<reviews, results, receipts, canonical, letters, workers, faults>>
  BY <1>1 DEF MayDeliver
<1>4. sent' \in [Keys -> 0..MaxDeliveries] /\ \A j \in Keys : sent[j] <= sent'[j]
  BY <1>1, MayDeliverResult DEF LaneTypeOK
<1>5. heads' \in [Targets -> 0..MaxRevision]
  BY <1>1, MayDeliverResult DEF LaneTypeOK
<1>6. LaneTypeOK'
  BY <1>2, <1>3, <1>4, <1>5 DEF LaneTypeOK
<1>7. Grows
  BY <1>2, <1>3, <1>4 DEF Grows
<1>8. QED
  BY <1>6, <1>7 DEF Typed

LEMMA PruneStaleTypes ==
  ASSUME LaneTypeOK, Carried, PruneStale, BatchTypeOK', granted \subseteq granted'
  PROVE  Typed
<1>1. /\ items' \in [Keys -> Item] /\ given' \in History
      /\ given.dropped \subseteq given'.dropped
      /\ given'.taken = given.taken /\ given'.published = given.published
      /\ given'.refreshed = given.refreshed
      /\ UNCHANGED <<reviews, results, sent, heads, receipts, canonical, letters, workers, faults>>
  BY PruneStaleResult
<1>2. LaneTypeOK'
  BY <1>1 DEF LaneTypeOK
<1>3. Grows
  BY <1>1, SentReflexive DEF Grows
<1>4. QED
  BY <1>2, <1>3 DEF Typed

LEMMA OperatorTypes ==
  ASSUME LaneTypeOK, Carried, NEW k \in Keys, NEW r \in Revisions,
         ReplayDeadLetter(k, r) \/ RecoverFresh(k, r) \/ ResolveDeadLetter(k, r)
  PROVE  Typed
<1>1. /\ items' \in [Keys -> Item] /\ letters' \in [Keys -> [Revisions -> Letter]]
      /\ UNCHANGED <<batchVars, results, sent, heads, receipts, canonical, workers, given, faults>>
  BY ReplayResult, ResolveResult
<1>2. reviews' \in [Targets -> Review]
  <2>1. CASE RecoverFresh(k, r)
    BY <2>1, RecoverReview DEF LaneTypeOK
  <2>2. CASE ~RecoverFresh(k, r)
    BY <2>2 DEF ReplayDeadLetter, ResolveDeadLetter, LaneTypeOK
  <2>3. QED
    BY <2>1, <2>2
<1>3. BatchTypeOK'
  BY <1>1 DEF LaneTypeOK, BatchTypeOK, batchVars
<1>4. LaneTypeOK'
  BY <1>1, <1>2, <1>3 DEF LaneTypeOK
<1>5. Grows
  BY <1>1, SentReflexive DEF Grows, batchVars
<1>6. QED
  BY <1>4, <1>5 DEF Typed

-----------------------------------------------------------------------------
(* The publisher workflow.                                                     *)

Pcs == {"idle", "claimed", "loaded", "prepared", "committing", "acknowledging", "releasing", "over"}

\* The worker of a batch, and no other, becomes w.
Becomes(b, w) == workers' = [workers EXCEPT ![b] = w]

LEMMA GotoResult ==
  ASSUME LaneTypeOK, NEW b \in BatchIds, NEW pc \in Pcs, Goto(b, pc)
  PROVE  \E w \in Worker :
           /\ Becomes(b, w) /\ w.pc = pc
           /\ w.manifest = workers[b].manifest /\ w.current = workers[b].current
           /\ w.outcome = workers[b].outcome
<1> DEFINE w == [workers[b] EXCEPT !.pc = pc]
<1>1. workers[b] \in Worker
  BY RowTypes
<1>2. /\ w \in Worker /\ w.pc = pc
      /\ w.manifest = workers[b].manifest /\ w.current = workers[b].current
      /\ w.outcome = workers[b].outcome
  BY <1>1 DEF Worker, Pcs
<1>3. Becomes(b, w)
  BY DEF Goto, Becomes
<1> HIDE DEF w
<1>4. QED
  BY <1>2, <1>3

LEMMA LoadResult ==
  ASSUME LaneTypeOK, NEW b \in BatchIds, Load(b), Fetched(b) \subseteq Fences
  PROVE  /\ workers[b].pc = "claimed" /\ Fetch(b)
         /\ UNCHANGED <<reviews, results, sent, heads, receipts, canonical, letters, faults>>
         /\ \E w \in Worker :
              /\ Becomes(b, w) /\ w.pc \in {"over", "loaded"}
              /\ w.manifest = Fetched(b) /\ w.current = workers[b].current
              /\ w.outcome = workers[b].outcome
<1> DEFINE pc == IF Fetched(b) = {} THEN "over" ELSE "loaded"
           w == [workers[b] EXCEPT !.pc = pc, !.manifest = Fetched(b)]
<1>1. workers[b] \in Worker
  BY RowTypes
<1>2. pc \in {"over", "loaded"}
  OBVIOUS
<1>3. Becomes(b, w) /\ workers[b].pc = "claimed" /\ Fetch(b)
      /\ UNCHANGED <<reviews, results, sent, heads, receipts, canonical, letters, faults>>
  BY DEF Load, Becomes
<1> HIDE DEF pc
<1>4. /\ w \in Worker /\ w.pc = pc
      /\ w.manifest = Fetched(b) /\ w.current = workers[b].current
      /\ w.outcome = workers[b].outcome
  BY <1>1, <1>2 DEF Worker
<1> HIDE DEF w
<1>5. QED
  BY <1>2, <1>3, <1>4

\* What was prepared: eligible, overtaken by the canonical record, or failed.
LEMMA PrepareResult ==
  ASSUME LaneTypeOK, NEW b \in BatchIds, Prepare(b)
  PROVE  /\ workers[b].pc = "loaded"
         /\ UNCHANGED <<batchVars, reviews, results, sent, items, heads, receipts, canonical,
                        letters, given>>
         /\ faults' \in FaultKinds
         /\ \E w \in Worker :
              /\ Becomes(b, w) /\ w.pc = "prepared"
              /\ w.manifest = workers[b].manifest /\ w.current = workers[b].current
              /\ \A k \in Keys :
                   \/ w.outcome[k] \in WorkOutcomes \ {"published", "superseded"}
                   \/ /\ w.outcome[k] = "superseded"
                      /\ Live(k) /\ Of(k).serial < canonical[Of(k).target].serial
<1> DEFINE members == {f.item : f \in workers[b].manifest}
           overtaken(k) == Live(k) /\ Of(k).serial < canonical[Of(k).target].serial
<1>1. PICK failed \in SUBSET members, kind \in faults.kinds \cup {"none"} :
          /\ (failed = {}) = (kind = "none")
          /\ IF failed = {} THEN UNCHANGED faults ELSE Fault
          /\ workers' = [workers EXCEPT
               ![b].pc = "prepared",
               ![b].outcome = [k \in Keys |->
                  CASE k \notin members -> "none"
                    [] k \in failed -> kind
                    [] overtaken(k) -> "superseded"
                    [] OTHER -> "eligible"]]
  BY DEF Prepare
<1> DEFINE oc == [k \in Keys |-> CASE k \notin members -> "none"
                                   [] k \in failed -> kind
                                   [] overtaken(k) -> "superseded"
                                   [] OTHER -> "eligible"]
           w == [workers[b] EXCEPT !.pc = "prepared", !.outcome = oc]
<1>2. workers[b] \in Worker /\ faults \in FaultKinds
  BY RowTypes DEF LaneTypeOK, FaultKinds
<1>3. Becomes(b, w)
  BY <1>1 DEF Becomes
<1>4. kind \in WorkOutcomes \ {"published", "superseded"}
  BY <1>2 DEF FaultKinds, WorkOutcomes
<1>5. \A k \in Keys :
        \/ oc[k] \in WorkOutcomes \ {"published", "superseded"}
        \/ oc[k] = "superseded" /\ overtaken(k)
  <2> TAKE k \in Keys
  <2>1. oc[k] = CASE k \notin members -> "none"
                  [] k \in failed -> kind
                  [] overtaken(k) -> "superseded"
                  [] OTHER -> "eligible"
    OBVIOUS
  <2> HIDE DEF oc, overtaken, members
  <2>2. oc[k] \in {"none", kind, "eligible"} \/ (oc[k] = "superseded" /\ overtaken(k))
    BY <2>1, <1>1
  <2>3. QED
    BY <1>4, <2>2 DEF WorkOutcomes
<1>6. oc \in [Keys -> WorkOutcomes]
  <2>1. \A k \in Keys : oc[k] \in WorkOutcomes
    <3> HIDE DEF oc
    <3> QED
      BY <1>5 DEF WorkOutcomes
  <2>2. QED
    BY <2>1
<1> HIDE DEF oc
<1>7. /\ w \in Worker /\ w.pc = "prepared" /\ w.outcome = oc
      /\ w.manifest = workers[b].manifest /\ w.current = workers[b].current
  BY <1>2, <1>6 DEF Worker
<1>8. faults' \in FaultKinds
  <2>1. UNCHANGED faults \/ Fault
    BY <1>1
  <2>2. QED
    BY <1>2, <2>1, FaultType
<1>9. workers[b].pc = "loaded"
      /\ UNCHANGED <<batchVars, reviews, results, sent, items, heads, receipts, canonical,
                     letters, given>>
  BY DEF Prepare
<1> HIDE DEF w
<1>10. QED
  BY <1>3, <1>5, <1>7, <1>8, <1>9

LEMMA CommitResult ==
  ASSUME LaneTypeOK, NEW b \in BatchIds, Commit(b)
  PROVE  /\ Fetch(b)
         /\ UNCHANGED <<reviews, results, sent, heads, receipts, canonical, letters, faults>>
         /\ \E w \in Worker :
              /\ Becomes(b, w) /\ w.pc = "committing"
              /\ w.manifest = workers[b].manifest /\ w.current = workers[b].current
              /\ \A k \in Keys : w.outcome[k] \in {"retryable", workers[b].outcome[k]}
<1> DEFINE oc == [k \in Keys |->
             IF workers[b].outcome[k] = "eligible" /\ k \notin {f.item : f \in Fetched(b)}
             THEN "retryable" ELSE workers[b].outcome[k]]
           w == [workers[b] EXCEPT !.pc = "committing", !.outcome = oc]
<1>1. workers[b] \in Worker
  BY RowTypes
<1>2. Becomes(b, w)
  BY DEF Commit, Becomes
<1>3. \A k \in Keys : oc[k] \in {"retryable", workers[b].outcome[k]}
  OBVIOUS
<1>4. oc \in [Keys -> WorkOutcomes]
  BY <1>1 DEF Worker, WorkOutcomes
<1> HIDE DEF oc
<1>5. /\ w \in Worker /\ w.pc = "committing" /\ w.outcome = oc
      /\ w.manifest = workers[b].manifest /\ w.current = workers[b].current
  BY <1>1, <1>4 DEF Worker
<1>6. Fetch(b) /\ UNCHANGED <<reviews, results, sent, heads, receipts, canonical, letters, faults>>
  BY DEF Commit
<1> HIDE DEF w
<1>7. QED
  BY <1>2, <1>3, <1>5, <1>6

LEMMA AcknowledgeResult ==
  ASSUME LaneTypeOK, NEW b \in BatchIds, Acknowledge(b)
  PROVE  /\ Fetch(b)
         /\ UNCHANGED <<reviews, results, sent, heads, receipts, canonical, letters, faults>>
         /\ \E w \in Worker :
              /\ Becomes(b, w) /\ w.pc = "acknowledging"
              /\ w.manifest = workers[b].manifest
              /\ w.current = workers[b].manifest \cap Fetched(b)
              /\ w.outcome = workers[b].outcome
<1> DEFINE cur == workers[b].manifest \cap Fetched(b)
           w == [workers[b] EXCEPT !.pc = "acknowledging", !.current = cur]
<1>1. workers[b] \in Worker
  BY RowTypes
<1>2. Becomes(b, w)
  BY DEF Acknowledge, Becomes
<1>3. cur \in SUBSET Fences
  BY <1>1 DEF Worker
<1>4. Fetch(b) /\ UNCHANGED <<reviews, results, sent, heads, receipts, canonical, letters, faults>>
  BY DEF Acknowledge
<1> HIDE DEF cur
<1>5. /\ w \in Worker /\ w.pc = "acknowledging" /\ w.outcome = workers[b].outcome
      /\ w.manifest = workers[b].manifest /\ w.current = cur
  BY <1>1, <1>3 DEF Worker
<1> HIDE DEF w
<1>6. QED
  BY <1>2, <1>4, <1>5 DEF cur

LEMMA AnsweredResult ==
  ASSUME LaneTypeOK, NEW b \in BatchIds, NEW k \in Keys, NEW answer \in WorkOutcomes,
         Answered(b, k, answer)
  PROVE  /\ faults' \in FaultKinds
         /\ \E w \in Worker :
              /\ Becomes(b, w) /\ w.pc = workers[b].pc
              /\ w.manifest = workers[b].manifest /\ w.current = workers[b].current
              /\ w.outcome[k] \in {"retryable", answer}
              /\ \A j \in Keys : j # k => w.outcome[j] = workers[b].outcome[j]
<1>1. PICK a \in {"retryable", answer} :
        workers' = [workers EXCEPT ![b].outcome[k] = a]
  BY DEF Answered
<1> DEFINE oc == [workers[b].outcome EXCEPT ![k] = a]
           w == [workers[b] EXCEPT !.outcome = oc]
<1>2. workers[b] \in Worker /\ workers[b].outcome \in [Keys -> WorkOutcomes] /\ a \in WorkOutcomes
  BY RowTypes DEF Worker, WorkOutcomes
<1>3. oc \in [Keys -> WorkOutcomes] /\ oc[k] = a
      /\ \A j \in Keys : j # k => oc[j] = workers[b].outcome[j]
  BY <1>2
<1>4. Becomes(b, w)
  BY <1>1 DEF Becomes
<1> HIDE DEF oc
<1>5. /\ w \in Worker /\ w.pc = workers[b].pc /\ w.outcome = oc
      /\ w.manifest = workers[b].manifest /\ w.current = workers[b].current
  BY <1>2, <1>3 DEF Worker
<1>6. faults' \in FaultKinds
  <2>1. UNCHANGED faults \/ Fault
    BY DEF Answered
  <2>2. QED
    BY <2>1, FaultType DEF LaneTypeOK, FaultKinds
<1> HIDE DEF w
<1>7. QED
  BY <1>3, <1>4, <1>5, <1>6

\* An owner that nothing surpasses publishes once; what has a receipt is answered
\* from it, and nothing else is published.
Answers(f, a) ==
  \/ a \in {"retryable", "permanent"}
  \/ a = "superseded" /\ BatchOwned(f) /\ Surpassed(f.item)
  \/ \E p \in ReceiptsOf(f.item, f.revision) : a = p.outcome

Publishes(f, a) ==
  /\ BatchOwned(f) /\ ~Surpassed(f.item) /\ ReceiptsOf(f.item, f.revision) = {}
  /\ AcceptPlan(f.item, f.revision, items[f.item].carries)
  /\ a \in {"retryable", IF NewerReceipts(f.item, f.revision) # {} THEN "superseded" ELSE "published"}

LEMMA PublishItemResult ==
  ASSUME LaneTypeOK, NEW b \in BatchIds, NEW f \in workers[b].manifest, PublishItem(b, f)
  PROVE  /\ Touch /\ f.item \in Keys /\ f.revision \in Nat
         /\ UNCHANGED <<reviews, results, sent, items, heads, letters>>
         /\ faults' \in FaultKinds
         /\ \E w \in Worker :
              /\ Becomes(b, w) /\ w.pc = "committing"
              /\ w.manifest = workers[b].manifest /\ w.current = workers[b].current
              /\ \A j \in Keys : j # f.item => w.outcome[j] = workers[b].outcome[j]
              /\ \/ UNCHANGED <<receipts, canonical, given>> /\ Answers(f, w.outcome[f.item])
                 \/ Publishes(f, w.outcome[f.item])
<1> DEFINE k == f.item
           existing == ReceiptsOf(k, f.revision)
           kept == UNCHANGED <<receipts, canonical, given>>
           fate == IF NewerReceipts(k, f.revision) # {} THEN "superseded" ELSE "published"
<1>1. k \in Keys /\ f.revision \in Nat
  BY RowTypes, BatchAssumption DEF Worker, Fences
<1>2. Touch /\ UNCHANGED <<reviews, results, sent, items, heads, letters>>
      /\ workers[b].pc = "committing"
  BY DEF PublishItem
<1>3. \A p \in existing : p.outcome \in {"published", "superseded"}
  BY DEF LaneTypeOK, ReceiptsOf, Receipt
<1>4. \/ kept /\ BatchOwned(f) /\ Surpassed(k) /\ Answered(b, k, "superseded")
      \/ kept /\ Answered(b, k, "retryable")
      \/ kept /\ \E p \in existing : Answered(b, k, p.outcome) \/ Answered(b, k, "permanent")
      \/ /\ BatchOwned(f) /\ ~Surpassed(k) /\ existing = {}
         /\ AcceptPlan(k, f.revision, items[k].carries) /\ Answered(b, k, fate)
  <2>1. CASE BatchOwned(f) /\ Surpassed(k)
    BY <2>1 DEF PublishItem
  <2>2. CASE ~BatchOwned(f) /\ existing = {}
    BY <2>2 DEF PublishItem
  <2>3. CASE ~(BatchOwned(f) /\ Surpassed(k)) /\ existing # {}
    BY <2>3 DEF PublishItem
  <2>4. CASE BatchOwned(f) /\ ~Surpassed(k) /\ existing = {}
    BY <2>4 DEF PublishItem
  <2>5. QED
    BY <2>1, <2>2, <2>3, <2>4
<1>5. ASSUME NEW answer \in WorkOutcomes, Answered(b, k, answer)
      PROVE  /\ faults' \in FaultKinds
             /\ \E w \in Worker :
                  /\ Becomes(b, w) /\ w.pc = "committing"
                  /\ w.manifest = workers[b].manifest /\ w.current = workers[b].current
                  /\ \A j \in Keys : j # k => w.outcome[j] = workers[b].outcome[j]
                  /\ w.outcome[k] \in {"retryable", answer}
  BY <1>1, <1>2, <1>5, AnsweredResult
<1>6. {"superseded", "retryable", "permanent", "published"} \subseteq WorkOutcomes
  BY DEF WorkOutcomes
<1>7. CASE kept /\ BatchOwned(f) /\ Surpassed(k) /\ Answered(b, k, "superseded")
  <2>1. \A a \in {"retryable", "superseded"} : Answers(f, a)
    BY <1>7 DEF Answers
  <2>2. QED
    BY <1>1, <1>2, <1>5, <1>6, <1>7, <2>1
<1>8. CASE kept /\ Answered(b, k, "retryable")
  <2>1. \A a \in {"retryable", "retryable"} : Answers(f, a)
    BY DEF Answers
  <2>2. QED
    BY <1>1, <1>2, <1>5, <1>6, <1>8, <2>1
<1>9. CASE kept /\ \E p \in existing : Answered(b, k, p.outcome) \/ Answered(b, k, "permanent")
  <2>1. PICK p \in existing : Answered(b, k, p.outcome) \/ Answered(b, k, "permanent")
    BY <1>9
  <2>2. \A a \in {"retryable", "permanent", p.outcome} : Answers(f, a)
    BY DEF Answers
  <2>3. p.outcome \in WorkOutcomes
    BY <1>3, <1>6
  <2>4. CASE Answered(b, k, p.outcome)
    BY <1>1, <1>2, <1>5, <1>9, <2>2, <2>3, <2>4
  <2>5. CASE Answered(b, k, "permanent")
    BY <1>1, <1>2, <1>5, <1>6, <1>9, <2>2, <2>5
  <2>6. QED
    BY <2>1, <2>4, <2>5
<1>10. CASE /\ BatchOwned(f) /\ ~Surpassed(k) /\ existing = {}
            /\ AcceptPlan(k, f.revision, items[k].carries) /\ Answered(b, k, fate)
  <2>1. \A a \in {"retryable", fate} : Publishes(f, a)
    BY <1>10 DEF Publishes
  <2>2. fate \in WorkOutcomes
    BY <1>6
  <2> HIDE DEF fate
  <2>3. QED
    BY <1>1, <1>2, <1>5, <1>10, <2>1, <2>2
<1>11. QED
  BY <1>4, <1>7, <1>8, <1>9, <1>10

LEMMA NewRunResult ==
  ASSUME LaneTypeOK, NEW b \in BatchIds, NEW w, w = NoWorker
  PROVE  /\ w \in Worker /\ w.pc = "idle" /\ w.manifest = {} /\ w.current = {}
         /\ \A k \in Keys : w.outcome[k] = "none"
<1>1. [k \in Keys |-> "none"] \in [Keys -> WorkOutcomes]
  BY DEF WorkOutcomes
<1>2. QED
  BY <1>1 DEF NoWorker, Worker

-----------------------------------------------------------------------------
(* What a publisher works with.                                                *)

LEMMA EquippedStays ==
  ASSUME LaneTypeOK, Manifests, granted \subseteq granted', NEW b \in BatchIds, NEW w,
         Becomes(b, w), Equipped(b, w)
  PROVE  Manifests'
<1>1. \A c \in BatchIds : FencesOf(c) \subseteq FencesOf(c)'
  BY DEF FencesOf
<1>2. \A c \in BatchIds : workers'[c] = IF c = b THEN w ELSE workers[c]
  BY DEF Becomes, LaneTypeOK
<1>3. \A c \in BatchIds : Equipped(c, workers'[c])
  BY <1>2 DEF Manifests
<1>4. \A c \in BatchIds : Equipped(c, workers[c])'
  BY <1>1, <1>3 DEF Equipped
<1>5. QED
  BY <1>4 DEF Manifests

LEMMA ManifestsStay ==
  ASSUME Manifests, granted \subseteq granted', UNCHANGED workers
  PROVE  Manifests'
<1>1. \A c \in BatchIds : FencesOf(c) \subseteq FencesOf(c)'
  BY DEF FencesOf
<1>2. QED
  BY <1>1 DEF Manifests, Equipped

\* The steps of a publisher that only change where it is.
Moves(b) == ClaimBatch(b) \/ LostLease(b) \/ Crash(b) \/ SendCompletion(b) \/ Release(b)

LEMMA MovesResult ==
  ASSUME LaneTypeOK, Manifests, NEW b \in BatchIds, Moves(b)
  PROVE  \E w \in Worker :
           /\ Becomes(b, w) /\ Equipped(b, w)
           /\ w.manifest = workers[b].manifest /\ w.outcome = workers[b].outcome
<1>1. \E pc \in Pcs : /\ Goto(b, pc)
                      /\ pc # "idle" /\ pc # "loaded"
                      /\ pc = "claimed" => workers[b].pc = "idle"
  BY DEF Moves, ClaimBatch, Goto, LostLease, Crash, SendCompletion, Release, Pcs
<1>2. PICK pc \in Pcs, w \in Worker :
        /\ pc # "idle" /\ pc # "loaded"
        /\ pc = "claimed" => workers[b].pc = "idle"
        /\ Becomes(b, w) /\ w.pc = pc
        /\ w.manifest = workers[b].manifest /\ w.current = workers[b].current
        /\ w.outcome = workers[b].outcome
  BY <1>1, GotoResult
<1>3. Equipped(b, w)
  BY <1>2 DEF Manifests, Equipped
<1>4. QED
  BY <1>2, <1>3

\* The worker of a step is typed.
LEMMA BecomesType ==
  ASSUME LaneTypeOK, NEW b \in BatchIds, NEW w \in Worker, Becomes(b, w)
  PROVE  workers' \in [BatchIds -> Worker]
  BY DEF LaneTypeOK, Becomes

Fetches(b) == Load(b) \/ Commit(b) \/ Acknowledge(b)

LEMMA FetchesResult ==
  ASSUME LaneTypeOK, IInv, Granted, Carried, Manifests, IInv', NEW b \in BatchIds, Fetches(b)
  PROVE  /\ Fetch(b)
         /\ UNCHANGED <<reviews, results, sent, heads, receipts, canonical, letters, faults>>
         /\ \E w \in Worker :
              /\ Becomes(b, w) /\ Equipped(b, w)
              /\ \/ w.manifest = workers[b].manifest
                 \/ workers[b].pc = "claimed"
              /\ \A k \in Keys : w.outcome[k] \in {"retryable", workers[b].outcome[k]}
<1>1. Fetch(b)
  BY DEF Fetches, Load, Commit, Acknowledge
<1>2. /\ Fetched(b) \subseteq FencesOf(b)
      /\ \A f, g \in Fetched(b) : f.item = g.item => f = g
      /\ Fetched(b) \subseteq Fences
  BY <1>1, FetchedFences
<1>3. Equipped(b, workers[b])
  BY DEF Manifests
<1>4. CASE Load(b)
  <2>1. PICK w \in Worker :
           /\ Becomes(b, w) /\ w.pc \in {"over", "loaded"}
           /\ w.manifest = Fetched(b) /\ w.current = workers[b].current
           /\ w.outcome = workers[b].outcome
    BY <1>2, <1>4, LoadResult
  <2>2. workers[b].pc = "claimed"
        /\ UNCHANGED <<reviews, results, sent, heads, receipts, canonical, letters, faults>>
    BY <1>2, <1>4, LoadResult
  <2>3. workers[b].current = {} /\ \A k \in Keys : workers[b].outcome[k] = "none"
    BY <1>3, <2>2 DEF Equipped
  <2>4. Equipped(b, w)
    BY <1>2, <2>1, <2>3 DEF Equipped
  <2>5. QED
    BY <1>1, <2>1, <2>2, <2>4
<1>5. CASE Commit(b)
  <2>1. PICK w \in Worker :
           /\ Becomes(b, w) /\ w.pc = "committing"
           /\ w.manifest = workers[b].manifest /\ w.current = workers[b].current
           /\ \A k \in Keys : w.outcome[k] \in {"retryable", workers[b].outcome[k]}
    BY <1>5, CommitResult
  <2>2. Equipped(b, w)
    BY <1>3, <2>1 DEF Equipped
  <2>3. QED
    BY <1>1, <1>5, <2>1, <2>2, CommitResult
<1>6. CASE Acknowledge(b)
  <2>1. PICK w \in Worker :
           /\ Becomes(b, w) /\ w.pc = "acknowledging"
           /\ w.manifest = workers[b].manifest
           /\ w.current = workers[b].manifest \cap Fetched(b)
           /\ w.outcome = workers[b].outcome
    BY <1>6, AcknowledgeResult
  <2>2. Equipped(b, w)
    BY <1>3, <2>1 DEF Equipped
  <2>3. QED
    BY <1>1, <1>6, <2>1, <2>2, AcknowledgeResult
<1>7. QED
  BY <1>4, <1>5, <1>6 DEF Fetches

\* What a publisher publishes under its fence is the result the item carries.
LEMMA PublishesResult ==
  ASSUME LaneTypeOK, Carried, NEW f, f.item \in Keys, f.revision \in Nat, NEW a, Publishes(f, a)
  PROVE  /\ Live(f.item) /\ items[f.item].revision = f.revision
         /\ items[f.item].carries \in Keys /\ Claimed(items[f.item].carries)
         /\ AcceptPlan(f.item, f.revision, items[f.item].carries)
  BY LiveItem DEF Publishes, BatchOwned

Settling(b) == SendCompletion(b) \/ Release(b)

\* A publisher completes fences of its manifest.
LEMMA SettlingResult ==
  ASSUME LaneTypeOK, Manifests, NEW b \in BatchIds, Settling(b)
  PROVE  \E fences \in SUBSET Fences :
           /\ fences \subseteq workers[b].manifest
           /\ \A f, g \in fences : f.item = g.item => f = g
           /\ CompleteBatch(b, fences)
<1>1. workers[b].manifest \subseteq Fences /\ workers[b].current \subseteq workers[b].manifest
      /\ \A f, g \in workers[b].manifest : f.item = g.item => f = g
  BY RowTypes DEF Manifests, Equipped, Worker
<1>2. CompleteBatch(b, workers[b].manifest) \/ CompleteBatch(b, workers[b].current)
  BY DEF Settling, SendCompletion, Release
<1>3. QED
  BY <1>1, <1>2

LEMMA SettlingItems ==
  ASSUME LaneTypeOK, IInv, Granted, Carried, NEW b \in BatchIds, NEW fences \in SUBSET Fences,
         \A f, g \in fences : f.item = g.item => f = g,
         CompleteBatch(b, fences)
  PROVE  LET settled == SettledBy(b, fences)
         IN /\ items' \in [Keys -> Item] /\ letters' \in [Keys -> [Revisions -> Letter]]
            /\ \A k \in Keys :
                 \/ Stays(k, settled) \/ Requeued(k, settled)
                 \/ Done(k, settled, Kind(b), RevisionOf(fences)) \/ DeadLettered(k, settled)
<1> DEFINE settled == SettledBy(b, fences)
<1>1. /\ settled \in SUBSET {k \in Keys : Live(k)}
      /\ FinishItems(settled, Kind(b), RevisionOf(fences))
      /\ \A k \in settled : \E f \in fences :
           /\ f.item = k /\ RevisionOf(fences)[k] = f.revision
           /\ Kind(b)[k] \in Kinds
           /\ f.revision \in Nat /\ f.revision <= items[k].revision
  BY CompleteBatchResult
<1>2. \A k \in settled : /\ Kind(b)[k] \in Kinds
                         /\ RevisionOf(fences)[k] \in Nat
                         /\ RevisionOf(fences)[k] <= items[k].revision
  BY <1>1
<1> HIDE DEF settled
<1>3. /\ items' \in [Keys -> Item] /\ letters' \in [Keys -> [Revisions -> Letter]]
      /\ \A k \in Keys :
           \/ Stays(k, settled) \/ Requeued(k, settled)
           \/ Done(k, settled, Kind(b), RevisionOf(fences)) \/ DeadLettered(k, settled)
  BY <1>1, <1>2, FinishItemsItems
<1>4. QED
  BY <1>3 DEF settled

LEMMA WorkerTypes ==
  ASSUME LaneTypeOK, IInv, Granted, Carried, Manifests, IInv', granted \subseteq granted',
         NEW b \in BatchIds,
         \/ Moves(b) \/ Fetches(b) \/ Prepare(b) \/ NewRun(b)
         \/ \E f \in workers[b].manifest : PublishItem(b, f)
  PROVE  Typed /\ Manifests'
<1>1. BatchTypeOK'
  BY DEF IInv
<1>2. CASE Fetches(b)
  <2>1. /\ Fetch(b)
        /\ UNCHANGED <<reviews, results, sent, heads, receipts, canonical, letters, faults>>
    BY <1>2, FetchesResult
  <2>2. PICK w \in Worker : Becomes(b, w) /\ Equipped(b, w)
    BY <1>2, FetchesResult
  <2>3. Manifests' /\ workers' \in [BatchIds -> Worker]
    BY <2>2, EquippedStays, BecomesType
  <2>4. /\ items' \in [Keys -> Item] /\ given' \in History
        /\ given.dropped \subseteq given'.dropped
        /\ given'.taken = given.taken /\ given'.published = given.published
        /\ given'.refreshed = given.refreshed
    BY <2>1, FetchResult
  <2>5. LaneTypeOK'
    BY <1>1, <2>1, <2>3, <2>4 DEF LaneTypeOK
  <2>6. Grows
    BY <2>1, <2>4, SentReflexive DEF Grows
  <2>7. QED
    BY <2>3, <2>5, <2>6 DEF Typed
<1>3. CASE Prepare(b)
  <2>1. /\ workers[b].pc = "loaded"
        /\ UNCHANGED <<batchVars, reviews, results, sent, items, heads, receipts, canonical,
                       letters, given>>
        /\ faults' \in FaultKinds
    BY <1>3, PrepareResult
  <2>2. PICK w \in Worker : /\ Becomes(b, w) /\ w.pc = "prepared"
                            /\ w.manifest = workers[b].manifest /\ w.current = workers[b].current
    BY <1>3, PrepareResult
  <2>3. Equipped(b, w)
    BY <2>2 DEF Manifests, Equipped
  <2>4. Manifests' /\ workers' \in [BatchIds -> Worker]
    BY <2>2, <2>3, EquippedStays, BecomesType
  <2>5. LaneTypeOK'
    BY <1>1, <2>1, <2>4 DEF LaneTypeOK, FaultKinds
  <2>6. Grows
    BY <2>1, SentReflexive DEF Grows
  <2>7. QED
    BY <2>4, <2>5, <2>6 DEF Typed
<1>4. CASE NewRun(b)
  <2>1. UNCHANGED <<batchVars, reviews, results, sent, items, heads, receipts, canonical,
                    letters, given, faults>>
    BY <1>4 DEF NewRun
  <2>2. PICK w : w = NoWorker
    OBVIOUS
  <2>3. Becomes(b, w)
    BY <1>4, <2>2 DEF NewRun, Becomes
  <2>4. w \in Worker /\ Equipped(b, w)
    BY <2>2, NewRunResult DEF Equipped
  <2>5. Manifests' /\ workers' \in [BatchIds -> Worker]
    BY <2>3, <2>4, EquippedStays, BecomesType
  <2>6. LaneTypeOK'
    BY <1>1, <2>1, <2>5 DEF LaneTypeOK
  <2>7. Grows
    BY <2>1, SentReflexive DEF Grows
  <2>8. QED
    BY <2>5, <2>6, <2>7 DEF Typed
<1>5. ASSUME NEW f \in workers[b].manifest, PublishItem(b, f)
      PROVE  Typed /\ Manifests'
  <2>1. /\ f.item \in Keys /\ f.revision \in Nat
        /\ UNCHANGED <<reviews, results, sent, items, heads, letters>>
        /\ faults' \in FaultKinds
    BY <1>5, PublishItemResult
  <2>2. PICK w \in Worker :
              /\ Becomes(b, w) /\ w.pc = "committing"
              /\ w.manifest = workers[b].manifest /\ w.current = workers[b].current
              /\ \/ UNCHANGED <<receipts, canonical, given>>
                 \/ Publishes(f, w.outcome[f.item])
    BY <1>5, PublishItemResult
  <2>3. Equipped(b, w)
    BY <2>2 DEF Manifests, Equipped
  <2>4. Manifests' /\ workers' \in [BatchIds -> Worker]
    BY <2>2, <2>3, EquippedStays, BecomesType
  <2>5. /\ receipts \subseteq receipts' /\ receipts' \subseteq Receipt
        /\ canonical' \in [Targets -> [serial: Nat, source: 0..MaxRevision]]
        /\ given' \in History
        /\ given'.taken = given.taken /\ given'.refreshed = given.refreshed
        /\ given.published \subseteq given'.published /\ given.dropped \subseteq given'.dropped
    <3>1. CASE UNCHANGED <<receipts, canonical, given>>
      BY <3>1 DEF LaneTypeOK
    <3>2. CASE Publishes(f, w.outcome[f.item])
      <4>1. /\ items[f.item].carries \in Keys /\ Claimed(items[f.item].carries)
            /\ AcceptPlan(f.item, f.revision, items[f.item].carries)
        BY <2>1, <3>2, PublishesResult
      <4>2. QED
        BY <2>1, <4>1, AcceptPlanTypes
    <3>3. QED
      BY <2>2, <3>1, <3>2
  <2>6. LaneTypeOK'
    BY <1>1, <2>1, <2>4, <2>5 DEF LaneTypeOK, FaultKinds
  <2>7. Grows
    BY <2>1, <2>5, SentReflexive DEF Grows
  <2>8. QED
    BY <2>4, <2>6, <2>7 DEF Typed
<1>6. CASE Moves(b)
  <2>1. PICK w \in Worker : Becomes(b, w) /\ Equipped(b, w)
    BY <1>6, MovesResult
  <2>2. Manifests' /\ workers' \in [BatchIds -> Worker]
    BY <2>1, EquippedStays, BecomesType
  <2>3. CASE Settling(b)
    <3>1. PICK fences \in SUBSET Fences :
           /\ fences \subseteq workers[b].manifest
           /\ \A f, g \in fences : f.item = g.item => f = g
           /\ CompleteBatch(b, fences)
      BY <2>3, SettlingResult
    <3>2. /\ SettledBy(b, fences) \in SUBSET {k \in Keys : Live(k)}
          /\ FinishItems(SettledBy(b, fences), Kind(b), RevisionOf(fences))
          /\ UNCHANGED <<results, sent, heads, receipts, canonical, faults>>
      BY <3>1, CompleteBatchResult
    <3>3. items' \in [Keys -> Item] /\ letters' \in [Keys -> [Revisions -> Letter]]
      BY <3>1, SettlingItems
    <3>4. /\ given' \in History
          /\ given'.taken = given.taken /\ given'.published = given.published
          /\ given.dropped \subseteq given'.dropped /\ given.refreshed \subseteq given'.refreshed
          /\ reviews' \in [Targets -> Review]
      BY <3>2, FinishItemsGiven
    <3>5. LaneTypeOK'
      BY <1>1, <2>2, <3>2, <3>3, <3>4 DEF LaneTypeOK
    <3>6. Grows
      BY <3>2, <3>4, SentReflexive DEF Grows
    <3>7. QED
      BY <2>2, <3>5, <3>6 DEF Typed
  <2>4. CASE ~Settling(b)
    <3>1. UNCHANGED <<reviews, results, sent, items, heads, receipts, canonical, letters, given>>
          /\ (UNCHANGED faults \/ Fault)
      BY <1>6, <2>4 DEF Moves, Settling, ClaimBatch, LostLease, Crash
    <3>2. faults' \in FaultKinds
      BY <3>1, FaultType DEF LaneTypeOK, FaultKinds
    <3>3. LaneTypeOK'
      BY <1>1, <2>2, <3>1, <3>2 DEF LaneTypeOK, FaultKinds
    <3>4. Grows
      BY <3>1, SentReflexive DEF Grows
    <3>5. QED
      BY <2>2, <3>3, <3>4 DEF Typed
  <2>5. QED
    BY <2>3, <2>4
<1>7. QED
  BY <1>2, <1>3, <1>4, <1>5, <1>6

-----------------------------------------------------------------------------
(* Whose batches and memberships there are.                                    *)

\* Memberships come from memberships; leases keep their owner.
Inherits ==
  /\ \A m \in memberships' : \E n \in memberships : SameMember(m, n)
  /\ \A b \in BatchIds : Leased(batches', b) => Leased(batches, b) /\ batches'[b].owner = batches[b].owner

LEMMA ReclaimInherits ==
  ASSUME IInv, memberships' \subseteq ReclaimedMemberships,
         \A b \in BatchIds : Leased(batches', b) =>
           Leased(ReclaimedBatches, b) /\ batches'[b].owner = ReclaimedBatches[b].owner
  PROVE  Inherits
  BY ReclaimedOrigin, ReclaimedRows DEF Inherits, IInv

LEMMA KeepingInherits ==
  ASSUME IInv, Keeping
  PROVE  Inherits
<1>1. Sound(ReclaimedBatches, ReclaimedMemberships)
  BY ReclaimIsSound DEF IInv
<1>2. \A b \in BatchIds : ReclaimedBatches[b] \in Batch
  BY <1>1 DEF Sound
<1>3. CASE Touch
  BY <1>3, ReclaimInherits DEF Touch
<1>4. ASSUME NEW b \in BatchIds, NEW o \in Owners, NEW fences, NEW ticks \in 1..LeaseTicks,
             Heartbeat(b, o, fences, ticks)
      PROVE  Inherits
  <2> DEFINE row == [ReclaimedBatches[b] EXCEPT !.expiresIn = IF ticks > @ THEN ticks ELSE @]
  <2>1. batches' = [ReclaimedBatches EXCEPT ![b] = row] /\ memberships' = ReclaimedMemberships
    BY <1>4 DEF Heartbeat
  <2>2. row.state = ReclaimedBatches[b].state /\ row.owner = ReclaimedBatches[b].owner
    BY <1>2 DEF Batch
  <2> HIDE DEF row
  <2>3. \A c \in BatchIds : batches'[c].state = ReclaimedBatches[c].state
                            /\ batches'[c].owner = ReclaimedBatches[c].owner
    BY <1>1, <2>1, <2>2 DEF Sound
  <2>4. QED
    BY <2>1, <2>3, ReclaimInherits DEF Leased
<1>5. ASSUME NEW b \in BatchIds, NEW o \in Owners, NEW fences, NEW outcome \in [fences -> Outcomes],
             Complete(b, o, {WithOutcome(f, outcome[f]) : f \in fences})
      PROVE  Inherits
  <2> DEFINE completions == {WithOutcome(f, outcome[f]) : f \in fences}
             row == [ReclaimedBatches[b] EXCEPT !.state = "completed", !.terminalFor = 0]
  <2>1. \A f \in completions : f.outcome \in Outcomes
    BY DEF WithOutcome
  <2>2. Complete(b, o, completions)
    BY <1>5
  <2> HIDE DEF completions
  <2>3. \A m \in memberships' : \E n \in ReclaimedMemberships : SameMember(m, n)
    <3>1. \A m \in memberships' : \/ m \in ReclaimedMemberships
                                  \/ \E n \in ReclaimedMemberships : SameMember(m, n)
      BY <2>1, <2>2, CompleteMembers
    <3>2. QED
      BY <3>1 DEF SameMember, SameFence
  <2>4. \A m \in memberships' : \E n \in memberships : SameMember(m, n)
    <3>1. \A m \in ReclaimedMemberships : \E n \in memberships : SameMember(m, n)
      BY ReclaimedOrigin
    <3>2. QED
      BY <2>3, <3>1 DEF SameMember, SameFence
  <2>5. batches' = ReclaimedBatches \/ batches' = [ReclaimedBatches EXCEPT ![b] = row]
    BY <2>2 DEF Complete
  <2>6. row.state = "completed"
    BY <1>2 DEF Batch
  <2> HIDE DEF row
  <2>7. \A c \in BatchIds : Leased(batches', c) => Leased(ReclaimedBatches, c)
                                                   /\ batches'[c].owner = ReclaimedBatches[c].owner
    BY <1>1, <2>5, <2>6 DEF Sound, Leased
  <2>8. QED
    BY <2>4, <2>7, ReclaimedRows DEF Inherits, IInv
<1>6. ASSUME NEW cleanup \in SUBSET DueForCleanup, Stats(cleanup)
      PROVE  Inherits
  <2>1. memberships' \subseteq ReclaimedMemberships
    BY <1>6 DEF Stats
  <2>2. \A b \in BatchIds : Leased(batches', b) => batches'[b] = ReclaimedBatches[b]
    BY <1>6 DEF Stats, Leased, NoBatch
  <2>3. QED
    BY <2>1, <2>2, ReclaimInherits DEF Leased
<1>7. CASE Tick
  <2>1. \A b \in BatchIds : /\ batches'[b].state = batches[b].state
                            /\ batches'[b].owner = batches[b].owner
    <3> TAKE b \in BatchIds
    <3>1. batches[b] \in Batch
      BY DEF IInv, BatchTypeOK
    <3>2. \/ batches'[b] = batches[b]
          \/ batches'[b] = [batches[b] EXCEPT !.expiresIn = @ - 1]
          \/ batches'[b] = [batches[b] EXCEPT !.terminalFor = @ + 1]
      BY <1>7 DEF Tick
    <3>3. QED
      BY <3>1, <3>2 DEF Batch
  <2>2. UNCHANGED memberships
    BY <1>7 DEF Tick
  <2>3. QED
    BY <2>1, <2>2 DEF Inherits, Leased, SameMember, SameFence
<1>8. CASE UNCHANGED batchVars
  BY <1>8 DEF batchVars, Inherits, Leased, SameMember, SameFence
<1>9. QED
  BY <1>3, <1>4, <1>5, <1>6, <1>7, <1>8 DEF Keeping

\* The publisher of the lane is the one that claims, under fences it is given.
LEMMA GrantedStays ==
  ASSUME IInv, Granted, granted \subseteq granted',
         Inherits \/ \E b \in BatchIds, candidates \in SUBSET Candidate : Claim(b, Publisher, candidates)
  PROVE  Granted'
<1>1. CASE Inherits
  <2>1. \A m \in memberships' : \E g \in granted' : g.batch = m.batch /\ SameFence(m, g)
    BY <1>1 DEF Inherits, Granted, SameMember, SameFence
  <2>2. \A b \in BatchIds : Leased(batches', b) => batches'[b].owner = Publisher
    BY <1>1 DEF Inherits, Granted
  <2>3. QED
    BY <2>1, <2>2 DEF Granted, SameFence
<1>2. ASSUME NEW b \in BatchIds, NEW candidates \in SUBSET Candidate, Claim(b, Publisher, candidates)
      PROVE  Granted'
  <2>1. ASSUME NEW m \in memberships'
        PROVE  \E g \in granted' : g.batch = m.batch /\ SameFence(m, g)
    <3>1. CASE m \in ReclaimedMemberships
      BY <3>1, ReclaimedOrigin DEF Granted, SameMember, SameFence
    <3>2. CASE m \notin ReclaimedMemberships
      <4>1. PICK c \in Free(candidates) : m = NewMember(b, c)
        BY <1>2, <3>2 DEF Claim
      <4>2. NewFence(b, Publisher, c) \in granted'
        BY <1>2 DEF Claim
      <4>3. QED
        BY <4>1, <4>2 DEF NewMember, NewFence, SameFence
    <3>3. QED
      BY <3>1, <3>2
  <2>2. ASSUME NEW c \in BatchIds, Leased(batches', c)
        PROVE  batches'[c].owner = Publisher
    <3> DEFINE row == [state |-> "leased", owner |-> Publisher,
                       expiresIn |-> LeaseTicks, terminalFor |-> 0]
    <3>1. batches' = ReclaimedBatches \/ batches' = [ReclaimedBatches EXCEPT ![b] = row]
      BY <1>2 DEF Claim
    <3>2. row.owner = Publisher
      OBVIOUS
    <3>3. ReclaimedBatches \in [BatchIds -> Batch]
      BY ReclaimedRows DEF IInv
    <3> HIDE DEF row
    <3>4. batches'[c] = ReclaimedBatches[c] \/ batches'[c] = row
      BY <3>1, <3>3
    <3>5. CASE batches'[c] = ReclaimedBatches[c]
      BY <2>2, <3>5, ReclaimedRows DEF IInv, Granted, Leased
    <3>6. QED
      BY <3>2, <3>4, <3>5
  <2>3. QED
    BY <2>1, <2>2 DEF Granted, SameFence
<1>3. QED
  BY <1>1, <1>2

\* The store stays sound, and the lane its one caller.
LEMMA StoreStays ==
  ASSUME QueueInv, [LaneNext]_allVars
  PROVE  IInv' /\ granted \subseteq granted' /\ Granted'
<1>1. LaneTypeOK /\ IInv /\ Granted /\ Manifests /\ Carried
  BY DEF QueueInv
<1>2. [BatchNext]_batchVars
  BY <1>1, LaneDrivesBatches
<1>3. IInv' /\ granted \subseteq granted'
  BY <1>1, <1>2, StepIsSound, GrantsGrow
<1>4. Inherits \/ \E b \in BatchIds, candidates \in SUBSET Candidate : Claim(b, Publisher, candidates)
  BY <1>1, LaneKeeps, KeepingInherits, ClaimBatchClaims
<1>5. QED
  BY <1>1, <1>3, <1>4, GrantedStays

\* The steps that are no step of the queue.
Idling == UNCHANGED laneVars

\* The steps of the lane, by what they do to the queue.
LEMMA LaneCases ==
  ASSUME [LaneNext]_allVars
  PROVE  \/ Idling
         \/ \E t \in Targets : ReviewLane(t) \/ DirectPublish(t)
         \/ \E k \in Keys : Deliver(k)
         \/ \E k \in Keys, r \in Revisions : \/ ReplayDeadLetter(k, r) \/ RecoverFresh(k, r)
                                             \/ ResolveDeadLetter(k, r)
         \/ PruneStale
         \/ \E b \in BatchIds : \/ Moves(b) \/ Fetches(b) \/ Prepare(b) \/ NewRun(b)
                                \/ \E f \in workers[b].manifest : PublishItem(b, f)
<1>1. CASE UNCHANGED allVars
  BY <1>1 DEF allVars, Idling
<1>2. CASE LaneNext
  BY <1>2 DEF LaneNext, WorkerStep, ReviewLane, Moves, Fetches, Idling, BatchHeartbeat,
              BatchHousekeeping, LaneTick
<1>3. QED
  BY <1>1, <1>2

LEMMA IdlingTypes ==
  ASSUME LaneTypeOK, BatchTypeOK', granted \subseteq granted', Idling
  PROVE  Typed
<1>1. LaneTypeOK'
  BY DEF LaneTypeOK, Idling, laneVars
<1>2. Grows
  BY SentReflexive DEF Grows, Idling, laneVars
<1>3. QED
  BY <1>1, <1>2 DEF Typed

\* Every step leaves the queue typed, its histories longer and the publishers
\* with fences of their batches.
LEMMA TypesStay ==
  ASSUME QueueInv, [LaneNext]_allVars
  PROVE  Typed /\ Manifests'
<1>1. /\ LaneTypeOK /\ IInv /\ Granted /\ Manifests /\ Carried /\ Running /\ Counted
      /\ IInv' /\ BatchTypeOK' /\ granted \subseteq granted'
  BY StoreStays DEF QueueInv, IInv
<1>2. CASE Idling
  BY <1>1, <1>2, IdlingTypes, ManifestsStay DEF Idling, laneVars
<1>3. ASSUME NEW t \in Targets, ReviewLane(t) \/ DirectPublish(t)
      PROVE  Typed /\ Manifests'
  <2>1. Typed
    BY <1>1, <1>3, ReviewLaneTypes, DirectPublishTypes
  <2>2. UNCHANGED workers
    BY <1>3, ReviewLaneKeeps DEF DirectPublish
  <2>3. QED
    BY <1>1, <2>1, <2>2, ManifestsStay
<1>4. ASSUME NEW k \in Keys, Deliver(k)
      PROVE  Typed /\ Manifests'
  <2>1. Typed
    BY <1>1, <1>4, DeliverTypes
  <2>2. UNCHANGED workers
    BY <1>4 DEF Deliver, DeliverRefused, DeliverDuplicate, DeliverNew, MayDeliver
  <2>3. QED
    BY <1>1, <2>1, <2>2, ManifestsStay
<1>5. ASSUME NEW k \in Keys, NEW r \in Revisions,
             ReplayDeadLetter(k, r) \/ RecoverFresh(k, r) \/ ResolveDeadLetter(k, r)
      PROVE  Typed /\ Manifests'
  <2>1. Typed
    BY <1>1, <1>5, OperatorTypes
  <2>2. UNCHANGED workers
    BY <1>5 DEF ReplayDeadLetter, RecoverFresh, ResolveDeadLetter
  <2>3. QED
    BY <1>1, <2>1, <2>2, ManifestsStay
<1>6. CASE PruneStale
  <2>1. Typed
    BY <1>1, <1>6, PruneStaleTypes
  <2>2. UNCHANGED workers
    BY <1>6 DEF PruneStale
  <2>3. QED
    BY <1>1, <2>1, <2>2, ManifestsStay
<1>7. ASSUME NEW b \in BatchIds,
             \/ Moves(b) \/ Fetches(b) \/ Prepare(b) \/ NewRun(b)
             \/ \E f \in workers[b].manifest : PublishItem(b, f)
      PROVE  Typed /\ Manifests'
  BY <1>1, <1>7, WorkerTypes
<1>8. QED
  BY <1>2, <1>3, <1>4, <1>5, <1>6, <1>7, LaneCases

-----------------------------------------------------------------------------
(* What a batch owns.                                                          *)

\* Only a claim makes owners.
LEMMA KeepingOwners ==
  ASSUME IInv, Keeping, NEW m \in memberships', Open(m)
  PROVE  m \in memberships
<1>1. BatchTypeOK
  BY DEF IInv
<1>2. \A n \in ReclaimedMemberships : Open(n) => n \in memberships
  BY <1>1, ReclaimedMembers
<1>3. ASSUME NEW b \in BatchIds, NEW o \in Owners, NEW fences, NEW outcome \in [fences -> Outcomes],
             Complete(b, o, {WithOutcome(f, outcome[f]) : f \in fences})
      PROVE  m \in memberships
  <2> DEFINE completions == {WithOutcome(f, outcome[f]) : f \in fences}
  <2>1. \A f \in completions : f.outcome \in Outcomes
    BY DEF WithOutcome
  <2>2. Complete(b, o, completions)
    BY <1>3
  <2> HIDE DEF completions
  <2>3. m \in ReclaimedMemberships
    BY <1>1, <2>1, <2>2, CompleteResult
  <2>4. QED
    BY <1>2, <2>3
<1>4. QED
  BY <1>2, <1>3 DEF Keeping, batchVars, Touch, Tick, Stats, Heartbeat

\* A pending item is in the queue.
LEMMA PendingIsLive ==
  ASSUME NEW k, items[k].state = "pending"
  PROVE  Live(k)
  BY DEF Live

\* The owner of an item still finds it pending, at a later revision if not as it was.
LEMMA OwnedStay ==
  ASSUME QueueInv, [LaneNext]_allVars, NEW m \in memberships, Open(m), m \in memberships'
  PROVE  /\ items'[m.item].state = "pending" /\ items[m.item].revision <= items'[m.item].revision
         /\ items'[m.item] = items[m.item] \/ items[m.item].revision < items'[m.item].revision
<1> DEFINE i == m.item
           Still == /\ items'[i].state = "pending" /\ items[i].revision <= items'[i].revision
                    /\ items'[i] = items[i] \/ items[i].revision < items'[i].revision
<1>1. /\ LaneTypeOK /\ IInv /\ Granted /\ Manifests /\ Carried /\ Counted
      /\ items[i].state = "pending"
  BY DEF QueueInv, OwnedPending
<1>2. i \in Keys /\ items[i].revision \in Nat
  <2>1. i \in Keys
    BY <1>1 DEF IInv, BatchTypeOK, Membership
  <2>2. QED
    BY <1>1, <2>1, RowTypes, LaneAssumption DEF Item
<1>3. i \in Owned
  BY DEF Owned, OwnedItems
<1>4. items'[i] = items[i] => Still
  BY <1>1, <1>2
<1>5. UNCHANGED items => Still
  BY <1>4
<1> HIDE DEF i, Still
<1>6. ASSUME NEW t \in Targets, ReviewLane(t) \/ DirectPublish(t)
      PROVE  Still
  BY <1>5, <1>6, ReviewLaneKeeps DEF DirectPublish
<1>7. ASSUME NEW k \in Keys, Deliver(k)
      PROVE  Still
  <2>1. CASE DeliverRefused(k)
    BY <1>1, <1>5, <2>1, DeliverRefusedResult
  <2>2. CASE DeliverDuplicate(k)
    <3>1. PICK j \in SameLineage(k) :
            /\ items'[j] = items[j] \/ j \notin Owned
            /\ \A n \in Keys : n # j => items'[n] = items[n] \/ n \notin Owned
      BY <1>1, <2>2, DeliverDuplicateResult
    <3>2. QED
      BY <1>2, <1>3, <1>4, <3>1
  <2>3. CASE DeliverNew(k)
    <3>1. /\ items'[k].state = "pending" /\ items'[k].revision = items[k].revision + 1
          /\ items[k].revision \in Nat
          /\ \A n \in Keys : n # k => items'[n] = items[n] \/ n \notin Owned
      BY <1>1, <2>3, DeliverNewResult
    <3>2. CASE i = k
      BY <3>1, <3>2 DEF Still
    <3>3. QED
      BY <1>2, <1>3, <1>4, <3>1, <3>2
  <2>4. QED
    BY <1>7, <2>1, <2>2, <2>3 DEF Deliver
<1>8. ASSUME NEW k \in Keys, NEW r \in Revisions, ReplayDeadLetter(k, r)
      PROVE  Still
  <2>1. ~Live(k) /\ \A n \in Keys : n # k => items'[n] = items[n] \/ items[n].state = "parked"
    BY <1>1, <1>8, ReplayResult
  <2>2. i # k
    BY <1>1, <2>1, PendingIsLive DEF i
  <2>3. QED
    BY <1>1, <1>2, <1>4, <2>1, <2>2
<1>9. ASSUME NEW k \in Keys, NEW r \in Revisions, RecoverFresh(k, r) \/ ResolveDeadLetter(k, r)
      PROVE  Still
  <2>1. \A n \in Keys : items'[n] = items[n] \/ items[n].state = "parked"
    BY <1>1, <1>9, ResolveResult
  <2>2. QED
    BY <1>1, <1>2, <1>4, <2>1
<1>10. ASSUME PruneStale
       PROVE  Still
  <2>1. PICK pruned \in SUBSET Stale :
          \A n \in Keys : items'[n] = IF n \in pruned THEN NoItem ELSE items[n]
    BY <1>1, <1>10, PruneStaleResult
  <2>2. memberships' = ReclaimedMemberships
    BY <1>10 DEF PruneStale, Touch
  <2>3. i \notin Stale
    BY <1>3, <2>2 DEF Stale, Owned
  <2>4. i \notin pruned
    BY <2>3
  <2>5. items'[i] = items[i]
    BY <1>2, <2>1, <2>4
  <2>6. QED
    BY <1>4, <2>5
<1>11. ASSUME NEW b \in BatchIds, Settling(b)
       PROVE  Still
  <2>1. PICK fences \in SUBSET Fences :
          (\A f, g \in fences : f.item = g.item => f = g) /\ CompleteBatch(b, fences)
    BY <1>1, <1>11, SettlingResult
  <2>2. i \notin SettledBy(b, fences)
    BY <1>1, <2>1, CompleteBatchResult DEF i
  <2>3. \/ Stays(i, SettledBy(b, fences)) \/ Requeued(i, SettledBy(b, fences))
        \/ Done(i, SettledBy(b, fences), Kind(b), RevisionOf(fences))
        \/ DeadLettered(i, SettledBy(b, fences))
    BY <1>1, <1>2, <2>1, SettlingItems
  <2>4. items'[i] = items[i]
    BY <2>2, <2>3 DEF Stays, Requeued, Done, DeadLettered
  <2>5. QED
    BY <1>4, <2>4
<1>12. ASSUME NEW b \in BatchIds, Fetches(b)
       PROVE  Still
  <2>1. Fetch(b)
    BY <1>12 DEF Fetches, Load, Commit, Acknowledge
  <2>2. PICK gone \in SUBSET {k \in Keys : Live(k) /\ Surpassed(k)} :
          /\ \A k \in Keys : items'[k] = IF k \in gone THEN NoItem ELSE items[k]
          /\ \A n \in memberships' : Open(n) => n \in memberships /\ n.item \notin gone
    BY <1>1, <2>1, FetchResult
  <2>3. QED
    BY <1>2, <1>4, <2>2 DEF i
<1>13. ASSUME NEW b \in BatchIds,
              \/ Moves(b) /\ ~Settling(b)
              \/ Prepare(b) \/ NewRun(b)
              \/ \E f \in workers[b].manifest : PublishItem(b, f)
       PROVE  Still
  BY <1>5, <1>13 DEF Moves, Settling, ClaimBatch, LostLease, Crash, Prepare, NewRun, PublishItem
<1>14. ASSUME Idling
       PROVE  Still
  <2>1. UNCHANGED items
    BY <1>14 DEF Idling, laneVars
  <2>2. QED
    BY <1>5, <2>1
<1>15. ASSUME NEW b \in BatchIds,
              \/ Moves(b) \/ Fetches(b) \/ Prepare(b) \/ NewRun(b)
              \/ \E f \in workers[b].manifest : PublishItem(b, f)
       PROVE  Still
  BY <1>11, <1>12, <1>13, <1>15
<1>16. Still
  BY <1>6, <1>7, <1>8, <1>9, <1>10, <1>14, <1>15, LaneCases
<1>17. QED
  BY <1>16 DEF Still, i

\* A new owner finds its item pending, at the revision it claimed.
LEMMA NewOwner ==
  ASSUME QueueInv, [LaneNext]_allVars, NEW m \in memberships', Open(m), m \notin memberships
  PROVE  /\ items'[m.item].state = "pending" /\ m.revision = items'[m.item].revision
         /\ m.batch \in BatchIds /\ ClaimBatch(m.batch)
<1>1. LaneTypeOK /\ IInv /\ Granted /\ Manifests /\ Carried
  BY DEF QueueInv
<1>2. PICK b \in BatchIds : ClaimBatch(b)
  BY <1>1, LaneKeeps, KeepingOwners
<1>3. PICK chosen \in SUBSET {k \in Keys : Claimable(k)} :
        Claim(b, Publisher, {[item |-> k, revision |-> items[k].revision] : k \in chosen})
  BY <1>2 DEF ClaimBatch
<1> DEFINE candidates == {[item |-> k, revision |-> items[k].revision] : k \in chosen}
<1>4. m \notin ReclaimedMemberships
  BY <1>1, ReclaimedMembers DEF IInv
<1>5. PICK c \in candidates : m = NewMember(b, c)
  BY <1>3, <1>4 DEF Claim, Free
<1>6. PICK k \in chosen : c = [item |-> k, revision |-> items[k].revision]
  BY <1>5
<1>7. m.item = k /\ m.revision = items[k].revision /\ m.batch = b
  BY <1>5, <1>6 DEF NewMember
<1>8. items[k].state = "pending" /\ UNCHANGED items
  BY <1>2, <1>6 DEF Claimable, ClaimBatch
<1>9. QED
  BY <1>2, <1>7, <1>8

LEMMA OwnedPendingStays ==
  ASSUME QueueInv, [LaneNext]_allVars
  PROVE  OwnedPending'
<1> SUFFICES ASSUME NEW m \in memberships', Open(m)
             PROVE  items'[m.item].state = "pending" /\ m.revision <= items'[m.item].revision
  BY DEF OwnedPending, Open
<1>1. m \in Membership /\ items' \in [Keys -> Item]
  BY StoreStays, TypesStay DEF Typed, LaneTypeOK, IInv, BatchTypeOK
<1>2. m.item \in Keys /\ m.revision \in Nat /\ items'[m.item].revision \in Nat
  BY <1>1, BatchAssumption, LaneAssumption DEF Membership, Item
<1>3. CASE m \in memberships
  <2>1. m.revision <= items[m.item].revision /\ items[m.item].revision \in Nat
    BY <1>2, <1>3, RowTypes, LaneAssumption DEF QueueInv, OwnedPending, Item
  <2>2. items'[m.item].state = "pending" /\ items[m.item].revision <= items'[m.item].revision
    BY <1>3, OwnedStay
  <2>3. QED
    BY <1>2, <2>1, <2>2
<1>4. CASE m \notin memberships
  BY <1>2, <1>4, NewOwner
<1>5. QED
  BY <1>3, <1>4

-----------------------------------------------------------------------------
(* What items and letters carry.                                               *)

CarriedItem(k) ==
  /\ Live(k) => Carries(k, items[k].carries) /\ items[k].revision \in 1..sent[k]
  /\ ~Live(k) => items[k] = NoItem

CarriedLetter(k, r) ==
  IF letters[k][r].status = "none" THEN letters[k][r].carries = "none"
                                   ELSE Carries(k, letters[k][r].carries) /\ r <= sent[k]

\* What carries the result of a lineage goes on doing so.
LEMMA CarriesStays ==
  ASSUME LaneTypeOK, LaneTypeOK', Grows, NEW k \in Keys, NEW c, Carries(k, c)
  PROVE  Carries(k, c)'
<1>1. Claimed(k) /\ c \in given'.taken /\ c \in Keys
      /\ results[c].target = results[k].target /\ results[c].source = results[k].source
      /\ results[c].generation = results[k].generation
  BY DEF Carries, Twins, Grows
<1>2. Claimed(c)
  BY <1>1, ClaimedResult
<1>3. results'[k] = results[k] /\ results'[c] = results[c]
  BY <1>1, <1>2 DEF Grows
<1>4. QED
  BY <1>1, <1>3 DEF Carries, Twins, Claimed

LEMMA SentGrows ==
  ASSUME LaneTypeOK, LaneTypeOK', Grows, NEW k \in Keys
  PROVE  sent[k] \in Nat /\ sent'[k] \in Nat /\ sent[k] <= sent'[k]
  BY LaneAssumption DEF LaneTypeOK, Grows

LEMMA ItemKept ==
  ASSUME LaneTypeOK, LaneTypeOK', Grows, Carried, NEW k \in Keys,
         \/ items'[k] = items[k]
         \/ /\ Live(k) /\ items'[k].state # "absent"
            /\ items'[k].revision = items[k].revision /\ items'[k].carries = items[k].carries
         \/ items'[k] = NoItem
  PROVE  CarriedItem(k)'
<1>1. CASE items'[k] = NoItem
  BY <1>1, NoItemType DEF CarriedItem, Live
<1>2. CASE items'[k] = items[k] /\ ~Live(k)
  BY <1>2 DEF CarriedItem, Live, Carried
<1>3. CASE /\ Live(k) /\ items'[k].state # "absent"
           /\ items'[k].revision = items[k].revision /\ items'[k].carries = items[k].carries
  <2>1. Carries(k, items[k].carries) /\ items[k].revision \in 1..sent[k]
    BY <1>3 DEF Carried
  <2>2. Carries(k, items[k].carries)'
    <3>1. PICK c : c = items[k].carries
      OBVIOUS
    <3>2. Carries(k, c)'
      BY <2>1, <3>1, CarriesStays
    <3>3. items'[k].carries = c
      BY <1>3, <3>1
    <3>4. QED
      BY <3>2, <3>3 DEF Carries
  <2>3. items'[k].revision \in 1..sent'[k]
    BY <1>3, <2>1, SentGrows
  <2>4. QED
    BY <1>3, <2>2, <2>3 DEF CarriedItem, Live
<1>4. QED
  BY <1>1, <1>2, <1>3 DEF Live

LEMMA LetterKept ==
  ASSUME LaneTypeOK, LaneTypeOK', Grows, Carried, NEW k \in Keys, NEW r \in Revisions,
         SameLetter(k, r)
  PROVE  CarriedLetter(k, r)'
<1>1. r \in Nat
  BY LaneAssumption
<1>2. CASE letters[k][r].status = "none"
  BY <1>2 DEF CarriedLetter, SameLetter, Carried
<1>3. CASE letters[k][r].status # "none"
  <2>1. PICK c : c = letters[k][r].carries
    OBVIOUS
  <2>2. Carries(k, c) /\ r <= sent[k]
    BY <1>3, <2>1 DEF Carried
  <2>3. Carries(k, c)' /\ r <= sent'[k]
    BY <1>1, <2>2, CarriesStays, SentGrows
  <2>4. letters'[k][r].carries = c /\ letters'[k][r].status # "none"
    BY <1>3, <2>1 DEF SameLetter
  <2>5. QED
    BY <2>3, <2>4 DEF CarriedLetter, Carries
<1>4. QED
  BY <1>2, <1>3

LEMMA LetterFiled ==
  ASSUME LaneTypeOK, LaneTypeOK', Grows, Carried, NEW k \in Keys, Live(k),
         Filed(k, items[k].revision, items[k].carries), NEW s \in Revisions
  PROVE  CarriedLetter(k, s)'
<1>1. CASE s # items[k].revision
  BY <1>1, LetterKept DEF Filed
<1>2. CASE s = items[k].revision
  <2>1. PICK c : c = letters'[k][s].carries
    OBVIOUS
  <2>2. letters'[k][s].status = "open" /\ s \in Nat
        /\ c = IF letters[k][s].status = "none" THEN items[k].carries ELSE letters[k][s].carries
    BY <1>2, <2>1, LaneAssumption DEF Filed
  <2>3. Carries(k, c) /\ s <= sent[k]
    BY <1>2, <2>2, LiveItem DEF Carried
  <2>4. Carries(k, c)' /\ s <= sent'[k]
    BY <2>2, <2>3, CarriesStays, SentGrows
  <2>5. QED
    BY <2>1, <2>2, <2>4 DEF CarriedLetter, Carries
<1>3. QED
  BY <1>1, <1>2

\* An item that moved to the dead letters, or did not.
LEMMA MovedOrNot ==
  ASSUME LaneTypeOK, LaneTypeOK', Grows, Carried, NEW k \in Keys,
         \/ items'[k] = items[k] /\ SameLetters(k)
         \/ /\ Live(k) /\ items'[k] = NoItem
            /\ Filed(k, items[k].revision, items[k].carries)
  PROVE  CarriedItem(k)' /\ \A s \in Revisions : CarriedLetter(k, s)'
  BY ItemKept, LetterKept, LetterFiled DEF SameLetters

\* The letters of a step that files none.
LEMMA LettersKept ==
  ASSUME LaneTypeOK, LaneTypeOK', Grows, Carried, UNCHANGED letters, NEW k \in Keys
  PROVE  \A s \in Revisions : CarriedLetter(k, s)'
  BY LetterKept DEF SameLetter

LEMMA DeliverCarries ==
  ASSUME LaneTypeOK, LaneTypeOK', Grows, Carried, Counted, NEW k \in Keys, Deliver(k), NEW i \in Keys
  PROVE  CarriedItem(i)'
<1>1. MayDeliver(k)
  BY DEF Deliver, DeliverRefused, DeliverDuplicate, DeliverNew
<1>2. Claimed(k) /\ UNCHANGED results
  BY <1>1, MayDeliverResult DEF MayDeliver
<1>3. CASE DeliverRefused(k)
  BY <1>3, ItemKept, DeliverRefusedResult
<1>4. CASE DeliverDuplicate(k)
  <2>1. PICK j \in SameLineage(k) :
          /\ \/ items'[j] = items[j]
             \/ items'[j] = [items[j] EXCEPT !.carries = NewestArtifact(k)]
          /\ \A n \in Keys : n # j => items'[n] = items[n] \/ items'[n] = NoItem
    BY <1>4, DeliverDuplicateResult
  <2>2. CASE items'[i] = items[i] \/ items'[i] = NoItem
    BY <2>2, ItemKept
  <2>3. CASE i = j /\ items'[j] = [items[j] EXCEPT !.carries = NewestArtifact(k)]
    <3>1. items[j] \in Item /\ Live(j) /\ j \in Keys /\ Twins(j) = Twins(k)
      BY <2>1, RowTypes, Lineage
    <3>2. PICK c : c = NewestArtifact(k)
      OBVIOUS
    <3>3. c \in Twins(k) /\ c \in given.taken \cup {k}
      BY <1>2, <3>2, NewestArtifactOfLineage
    <3>4. items'[j].state = items[j].state /\ items'[j].revision = items[j].revision
          /\ items'[j].carries = c
      BY <2>3, <3>1, <3>2 DEF Item
    <3>5. given'.taken = given.taken \cup {k}
      BY <1>4, DeliverDuplicateResult
    <3>6. Claimed(j) /\ items[j].revision \in 1..sent[j]
      BY <3>1, LiveItem
    <3>7. Carries(j, c)'
      BY <1>2, <3>1, <3>3, <3>5, <3>6 DEF Carries, Twins, Claimed
    <3>8. items'[j].revision \in 1..sent'[j]
      BY <3>1, <3>4, <3>6, SentGrows
    <3>9. QED
      BY <2>3, <3>1, <3>4, <3>7, <3>8 DEF CarriedItem, Live, Carries
  <2>4. QED
    BY <2>1, <2>2, <2>3
<1>5. CASE DeliverNew(k)
  <2>1. /\ items'[k].state = "pending" /\ items'[k].carries = k
        /\ items'[k].revision \in 1..sent'[k]
        /\ \A n \in Keys : n # k => items'[n] = items[n] \/ items'[n] = NoItem
        /\ given'.taken = given.taken \cup {k}
    BY <1>5, DeliverNewResult
  <2>2. CASE i # k
    BY <2>1, <2>2, ItemKept
  <2>3. CASE i = k
    <3>1. Carries(k, k)'
      BY <1>2, <2>1 DEF Carries, Twins, Claimed
    <3>2. QED
      BY <2>1, <2>3, <3>1 DEF CarriedItem, Live, Carries
  <2>4. QED
    BY <2>2, <2>3
<1>6. QED
  BY <1>3, <1>4, <1>5 DEF Deliver

LEMMA OperatorCarries ==
  ASSUME LaneTypeOK, LaneTypeOK', Grows, Carried, NEW k \in Keys, NEW r \in Revisions,
         ReplayDeadLetter(k, r) \/ RecoverFresh(k, r) \/ ResolveDeadLetter(k, r), NEW i \in Keys
  PROVE  CarriedItem(i)' /\ \A s \in Revisions : CarriedLetter(i, s)'
<1>1. \A n \in Keys : items[n].state = "parked" => Live(n)
  BY DEF Live
<1>2. CASE RecoverFresh(k, r) \/ ResolveDeadLetter(k, r)
  BY <1>1, <1>2, ResolveResult, MovedOrNot
<1>3. CASE ReplayDeadLetter(k, r)
  <2>1. /\ letters[k][r].status = "open"
        /\ items'[k].state = "pending" /\ items'[k].revision = r
        /\ items'[k].carries = letters[k][r].carries /\ SameLetters(k)
        /\ \A n \in Keys : n # k =>
             \/ items'[n] = items[n] /\ SameLetters(n)
             \/ /\ items[n].state = "parked" /\ items'[n] = NoItem
                /\ Filed(n, items[n].revision, items[n].carries)
    BY <1>3, ReplayResult
  <2>2. CASE i # k
    BY <1>1, <2>1, <2>2, MovedOrNot
  <2>3. CASE i = k
    <3>1. \A s \in Revisions : CarriedLetter(k, s)'
      BY <2>1, LetterKept DEF SameLetters
    <3>2. PICK c : c = letters[k][r].carries
      OBVIOUS
    <3>3. Carries(k, c) /\ r <= sent[k] /\ r \in Nat \ {0}
      BY <2>1, <3>2, LaneAssumption DEF Carried
    <3>4. Carries(k, c)' /\ r \in 1..sent'[k]
      BY <3>3, CarriesStays, SentGrows
    <3>5. CarriedItem(k)'
      BY <2>1, <3>2, <3>4 DEF CarriedItem, Live, Carries
    <3>6. QED
      BY <2>3, <3>1, <3>5
  <2>4. QED
    BY <2>2, <2>3
<1>4. QED
  BY <1>2, <1>3

LEMMA SettlingCarries ==
  ASSUME LaneTypeOK, LaneTypeOK', Grows, IInv, Granted, Manifests, Carried,
         NEW b \in BatchIds, Settling(b), NEW i \in Keys
  PROVE  CarriedItem(i)' /\ \A s \in Revisions : CarriedLetter(i, s)'
<1>1. PICK fences \in SUBSET Fences :
        (\A f, g \in fences : f.item = g.item => f = g) /\ CompleteBatch(b, fences)
  BY SettlingResult
<1>2. PICK settled : settled = SettledBy(b, fences)
  OBVIOUS
<1>3. settled \in SUBSET {k \in Keys : Live(k)}
  BY <1>1, <1>2, CompleteBatchResult
<1>4. \/ Stays(i, settled) \/ Requeued(i, settled)
      \/ Done(i, settled, Kind(b), RevisionOf(fences)) \/ DeadLettered(i, settled)
  BY <1>1, <1>2, SettlingItems
<1>5. CASE Stays(i, settled)
  BY <1>5, MovedOrNot DEF Stays
<1>6. CASE Requeued(i, settled)
  <2>1. /\ Live(i) /\ items'[i].state # "absent" /\ SameLetters(i)
        /\ items'[i].revision = items[i].revision /\ items'[i].carries = items[i].carries
    BY <1>3, <1>6 DEF Requeued
  <2>2. QED
    BY <2>1, ItemKept, LetterKept DEF SameLetters
<1>7. CASE Done(i, settled, Kind(b), RevisionOf(fences))
  BY <1>7, ItemKept, LetterKept DEF SameLetters, Done
<1>8. CASE DeadLettered(i, settled)
  BY <1>3, <1>8, MovedOrNot DEF DeadLettered
<1>9. QED
  BY <1>4, <1>5, <1>6, <1>7, <1>8

LEMMA CarriedStays ==
  ASSUME QueueInv, [LaneNext]_allVars
  PROVE  Carried'
<1>1. /\ LaneTypeOK /\ IInv /\ Granted /\ Manifests /\ Carried /\ Counted
      /\ LaneTypeOK' /\ Grows
  BY TypesStay DEF QueueInv, Typed
<1> SUFFICES ASSUME NEW i \in Keys
             PROVE  CarriedItem(i)' /\ \A s \in Revisions : CarriedLetter(i, s)'
  BY DEF Carried, CarriedItem, CarriedLetter
<1>2. items'[i] = items[i] => CarriedItem(i)'
  BY <1>1, ItemKept
<1>3. UNCHANGED letters => \A s \in Revisions : CarriedLetter(i, s)'
  BY <1>1, LettersKept
<1>4. CASE UNCHANGED <<items, letters>>
  BY <1>2, <1>3, <1>4
<1>5. CASE Idling
  <2>1. UNCHANGED <<items, letters>>
    BY <1>5 DEF Idling, laneVars
  <2>2. QED
    BY <1>4, <2>1
<1>6. ASSUME NEW t \in Targets, ReviewLane(t) \/ DirectPublish(t)
      PROVE  UNCHANGED <<items, letters>>
  BY <1>6, ReviewLaneKeeps DEF DirectPublish
<1>7. ASSUME NEW k \in Keys, Deliver(k)
      PROVE  CarriedItem(i)' /\ UNCHANGED letters
  <2>1. CarriedItem(i)'
    BY <1>1, <1>7, DeliverCarries
  <2>2. UNCHANGED letters
    BY <1>7 DEF Deliver, DeliverRefused, DeliverDuplicate, DeliverNew, MayDeliver
  <2>3. QED
    BY <2>1, <2>2
<1>8. ASSUME NEW k \in Keys, NEW r \in Revisions,
             ReplayDeadLetter(k, r) \/ RecoverFresh(k, r) \/ ResolveDeadLetter(k, r)
      PROVE  CarriedItem(i)' /\ \A s \in Revisions : CarriedLetter(i, s)'
  BY <1>1, <1>8, OperatorCarries
<1>9. ASSUME PruneStale
      PROVE  CarriedItem(i)' /\ UNCHANGED letters
  <2>1. PICK pruned : \A n \in Keys : items'[n] = IF n \in pruned THEN NoItem ELSE items[n]
    BY <1>1, <1>9, PruneStaleResult
  <2>2. UNCHANGED letters
    BY <1>9 DEF PruneStale
  <2>3. QED
    BY <1>1, <2>1, <2>2, ItemKept
<1>10. ASSUME NEW b \in BatchIds, Fetches(b)
       PROVE  CarriedItem(i)' /\ UNCHANGED letters
  <2>1. Fetch(b) /\ UNCHANGED letters
    BY <1>10 DEF Fetches, Load, Commit, Acknowledge
  <2>2. PICK gone : \A n \in Keys : items'[n] = IF n \in gone THEN NoItem ELSE items[n]
    BY <1>1, <2>1, FetchResult
  <2>3. QED
    BY <1>1, <2>1, <2>2, ItemKept
<1>11. ASSUME NEW b \in BatchIds, Settling(b)
       PROVE  CarriedItem(i)' /\ \A s \in Revisions : CarriedLetter(i, s)'
  BY <1>1, <1>11, SettlingCarries
<1>12. ASSUME NEW b \in BatchIds,
              \/ Moves(b) /\ ~Settling(b)
              \/ Prepare(b) \/ NewRun(b)
              \/ \E f \in workers[b].manifest : PublishItem(b, f)
       PROVE  UNCHANGED <<items, letters>>
  BY <1>12 DEF Moves, Settling, ClaimBatch, LostLease, Crash, Prepare, NewRun, PublishItem
<1>13. ASSUME NEW b \in BatchIds,
              \/ Moves(b) \/ Fetches(b) \/ Prepare(b) \/ NewRun(b)
              \/ \E f \in workers[b].manifest : PublishItem(b, f)
       PROVE  CarriedItem(i)' /\ \A s \in Revisions : CarriedLetter(i, s)'
  BY <1>3, <1>4, <1>10, <1>11, <1>12, <1>13
<1>14. QED
  BY <1>3, <1>4, <1>5, <1>6, <1>7, <1>8, <1>9, <1>13, LaneCases

-----------------------------------------------------------------------------
(* The review of a target and its runs.                                        *)

\* A review that runs is at its run; one that does not waits or is gone.
Resting(t) == reviews'[t].state \in {"none", "pending"}

SameRun(t) ==
  /\ reviews[t].state \in {"leased", "finishing"}
  /\ reviews'[t].run = reviews[t].run /\ reviews'[t].leaseRevision = reviews[t].leaseRevision
  /\ reviews[t].revision <= reviews'[t].revision

LEMMA ReviewLaneSteps ==
  ASSUME LaneTypeOK, NEW u \in Targets, ReviewLane(u), NEW t \in Targets
  PROVE  \/ reviews'[t] = reviews[t]
         \/ Resting(t) \/ SameRun(t)
         \/ \E k \in Keys : ClaimReview(t, k)
<1>1. reviews[t] \in Review /\ reviews[t].revision \in Nat
  BY RowTypes, LaneAssumption DEF Review
<1>2. CASE ReviewEvent(u)
  <2>1. PICK q \in Review :
           /\ reviews' = [reviews EXCEPT ![u] = q]
           /\ q.revision > reviews[u].revision
           /\ q.leaseRevision = reviews[u].leaseRevision
           /\ \/ q.state = "pending"
              \/ /\ q.state = reviews[u].state /\ q.state \in {"leased", "finishing"}
                 /\ q.run = reviews[u].run
    BY <1>2, ReviewEventResult
  <2>2. q.revision \in Nat
    BY LaneAssumption DEF Review
  <2>3. reviews'[t] = IF t = u THEN q ELSE reviews[t]
    BY <2>1 DEF LaneTypeOK
  <2>4. QED
    BY <1>1, <2>1, <2>2, <2>3 DEF Resting, SameRun
<1>3. CASE LoseReview(u)
  <2>1. PICK q \in Review : reviews' = [reviews EXCEPT ![u] = q] /\ q.state = "pending"
    BY <1>3, LoseReviewResult
  <2>2. QED
    BY <2>1 DEF LaneTypeOK, Resting
<1>4. CASE CompleteReview(u)
  <2>1. PICK q \in Review : reviews' = [reviews EXCEPT ![u] = q] /\ q.state \in {"none", "pending"}
    BY <1>4, CompleteReviewResult, NoReviewType
  <2>2. QED
    BY <2>1 DEF LaneTypeOK, Resting
<1>5. ASSUME NEW k \in Keys, ClaimReview(u, k), t # u
      PROVE  reviews'[t] = reviews[t]
  <2>1. PICK q \in Review : reviews' = [reviews EXCEPT ![u] = q]
    BY <1>5, ClaimReviewResult
  <2>2. QED
    BY <1>5, <2>1 DEF LaneTypeOK
<1>6. QED
  BY <1>2, <1>3, <1>4, <1>5 DEF ReviewLane

\* A run never changes its review but when it claims it.
LEMMA ReviewSteps ==
  ASSUME QueueInv, [LaneNext]_allVars, NEW t \in Targets
  PROVE  \/ reviews'[t] = reviews[t]
         \/ Resting(t) \/ SameRun(t)
         \/ \E k \in Keys : ClaimReview(t, k)
<1>1. LaneTypeOK /\ IInv /\ Granted /\ Manifests /\ Carried /\ Running
  BY DEF QueueInv
<1> DEFINE Goal == \/ reviews'[t] = reviews[t]
                   \/ Resting(t) \/ SameRun(t)
                   \/ \E k \in Keys : ClaimReview(t, k)
<1>2. UNCHANGED reviews => Goal
  OBVIOUS
<1> HIDE DEF Goal
<1>3. ASSUME NEW u \in Targets, ReviewLane(u)
      PROVE  Goal
  BY <1>1, <1>3, ReviewLaneSteps DEF Goal
<1>4. ASSUME NEW u \in Targets, DirectPublish(u)
      PROVE  Goal
  <2>1. /\ reviews[u].state = "leased"
        /\ \E q \in Review :
             /\ reviews' = [reviews EXCEPT ![u] = q]
             /\ q.revision = reviews[u].revision
             /\ q.leaseRevision = reviews[u].leaseRevision /\ q.run = reviews[u].run
    BY <1>1, <1>4, DirectPublishResult
  <2>2. PICK q \in Review :
          /\ reviews' = [reviews EXCEPT ![u] = q]
          /\ q.revision = reviews[u].revision
          /\ q.leaseRevision = reviews[u].leaseRevision /\ q.run = reviews[u].run
    BY <2>1
  <2>3. reviews'[t] = IF t = u THEN q ELSE reviews[t]
    BY <1>1, <2>2 DEF LaneTypeOK
  <2>4. q.revision \in Nat
    BY LaneAssumption DEF Review
  <2>5. QED
    BY <2>1, <2>2, <2>3, <2>4 DEF Goal, SameRun
<1>5. ASSUME NEW k \in Keys, NEW r \in Revisions, RecoverFresh(k, r)
      PROVE  Goal
  <2>1. PICK u \in Targets : \E q \in Review :
          reviews' = [reviews EXCEPT ![u] = q] /\ q.state = "pending"
    BY <1>1, <1>5, RecoverReview
  <2>2. QED
    BY <1>1, <2>1 DEF LaneTypeOK, Resting, Goal
<1>6. ASSUME NEW k \in Keys, NEW r \in Revisions, ReplayDeadLetter(k, r) \/ ResolveDeadLetter(k, r)
      PROVE  UNCHANGED reviews
  BY <1>6 DEF ReplayDeadLetter, ResolveDeadLetter
<1>7. ASSUME NEW k \in Keys, Deliver(k)
      PROVE  UNCHANGED reviews
  BY <1>7 DEF Deliver, DeliverRefused, DeliverDuplicate, DeliverNew, MayDeliver
<1>8. ASSUME NEW b \in BatchIds, Settling(b)
      PROVE  Goal
  <2>1. PICK fences \in SUBSET Fences :
          (\A f, g \in fences : f.item = g.item => f = g) /\ CompleteBatch(b, fences)
    BY <1>1, <1>8, SettlingResult
  <2>2. /\ SettledBy(b, fences) \in SUBSET {k \in Keys : Live(k)}
        /\ FinishItems(SettledBy(b, fences), Kind(b), RevisionOf(fences))
    BY <1>1, <2>1, CompleteBatchResult
  <2>3. reviews'[t] = reviews[t] \/ reviews'[t].state = "pending"
    BY <1>1, <2>2, FinishItemsGiven
  <2>4. QED
    BY <2>3 DEF Goal, Resting
<1>9. ASSUME NEW b \in BatchIds,
             \/ Moves(b) /\ ~Settling(b)
             \/ Fetches(b) \/ Prepare(b) \/ NewRun(b)
             \/ \E f \in workers[b].manifest : PublishItem(b, f)
      PROVE  UNCHANGED reviews
  BY <1>9 DEF Moves, Settling, ClaimBatch, LostLease, Crash, Prepare, NewRun, PublishItem,
              Fetches, Load, Commit, Acknowledge
<1>10. ASSUME Idling \/ PruneStale
       PROVE  UNCHANGED reviews
  BY <1>10 DEF Idling, laneVars, PruneStale
<1>11. Goal
  BY <1>2, <1>3, <1>4, <1>5, <1>6, <1>7, <1>8, <1>9, <1>10, LaneCases
<1>12. QED
  BY <1>11 DEF Goal

\* Results change only when a run claims its review.
LEMMA ResultSteps ==
  ASSUME [LaneNext]_allVars
  PROVE  UNCHANGED results \/ \E t \in Targets, k \in Keys : ClaimReview(t, k)
<1>1. ASSUME NEW t \in Targets, ReviewLane(t) \/ DirectPublish(t)
      PROVE  UNCHANGED results \/ \E k \in Keys : ClaimReview(t, k)
  BY <1>1 DEF ReviewLane, ReviewEvent, LoseReview, CompleteReview, DirectPublish
<1>2. ASSUME NEW k \in Keys, Deliver(k)
      PROVE  UNCHANGED results
  BY <1>2 DEF Deliver, DeliverRefused, DeliverDuplicate, DeliverNew, MayDeliver
<1>3. ASSUME NEW k \in Keys, NEW r \in Revisions,
             ReplayDeadLetter(k, r) \/ RecoverFresh(k, r) \/ ResolveDeadLetter(k, r)
      PROVE  UNCHANGED results
  BY <1>3 DEF ReplayDeadLetter, RecoverFresh, ResolveDeadLetter
<1>4. ASSUME NEW b \in BatchIds,
             \/ Moves(b) \/ Fetches(b) \/ Prepare(b) \/ NewRun(b)
             \/ \E f \in workers[b].manifest : PublishItem(b, f)
      PROVE  UNCHANGED results
  BY <1>4 DEF Moves, ClaimBatch, LostLease, Crash, Prepare, NewRun, PublishItem,
              Fetches, Load, Commit, Acknowledge, SendCompletion, Release, CompleteBatch
<1>5. ASSUME Idling \/ PruneStale
      PROVE  UNCHANGED results
  BY <1>5 DEF Idling, laneVars, PruneStale
<1>6. QED
  BY <1>1, <1>2, <1>3, <1>4, <1>5, LaneCases

LEMMA RunsStay ==
  ASSUME LaneTypeOK, Grows, NEW t \in Targets, NEW k \in RunsOf(t)
  PROVE  k \in RunsOf(t)' /\ results'[k] = results[k]
<1>1. k \in Keys /\ results[k].target = t
  BY DEF RunsOf
<1>2. results'[k] = results[k]
  BY <1>1, ClaimedResult DEF Grows
<1>3. QED
  BY <1>1, <1>2 DEF RunsOf

LEMMA RunningStays ==
  ASSUME QueueInv, [LaneNext]_allVars
  PROVE  Running'
<1>1. LaneTypeOK /\ Running /\ Grows /\ LaneTypeOK'
  BY TypesStay DEF QueueInv, Typed
<1> SUFFICES ASSUME NEW t \in Targets, reviews'[t].state \in {"leased", "finishing"}
             PROVE  /\ reviews'[t].run \in RunsOf(t)'
                    /\ results'[reviews'[t].run].source = reviews'[t].leaseRevision
                    /\ reviews'[t].leaseRevision <= reviews'[t].revision
  BY DEF Running, RunsOf
<1>2. CASE reviews'[t] = reviews[t] \/ SameRun(t)
  <2>1. PICK k : k = reviews[t].run
    OBVIOUS
  <2>2. /\ reviews[t].state \in {"leased", "finishing"}
        /\ reviews'[t].run = k /\ reviews'[t].leaseRevision = reviews[t].leaseRevision
        /\ reviews'[t] = reviews[t] \/ reviews[t].revision <= reviews'[t].revision
    BY <1>2, <2>1 DEF SameRun
  <2>3. k \in RunsOf(t) /\ results[k].source = reviews[t].leaseRevision
        /\ reviews[t].leaseRevision <= reviews[t].revision
    BY <1>1, <2>1, <2>2 DEF Running
  <2>4. k \in RunsOf(t)' /\ results'[k] = results[k]
    BY <1>1, <2>3, RunsStay
  <2>5. reviews[t].revision \in Nat /\ reviews'[t].revision \in Nat /\ reviews[t].leaseRevision \in Nat
    BY <1>1, LaneAssumption DEF LaneTypeOK, Review
  <2>6. QED
    BY <2>2, <2>3, <2>4, <2>5
<1>3. ASSUME NEW k \in Keys, ClaimReview(t, k)
      PROVE  /\ reviews'[t].run \in RunsOf(t)'
             /\ results'[reviews'[t].run].source = reviews'[t].leaseRevision
             /\ reviews'[t].leaseRevision <= reviews'[t].revision
  <2>1. PICK q \in Review : /\ reviews' = [reviews EXCEPT ![t] = q]
                            /\ q.revision = reviews[t].revision
                            /\ q.leaseRevision = reviews[t].revision /\ q.run = k
    BY <1>1, <1>3, ClaimReviewResult
  <2>2. PICK res \in Result : /\ results' = [results EXCEPT ![k] = res]
                              /\ res.target = t /\ res.source = reviews[t].revision
    BY <1>1, <1>3, ClaimReviewResult
  <2>3. reviews'[t] = q /\ results'[k] = res
    BY <1>1, <2>1, <2>2 DEF LaneTypeOK
  <2>4. q.revision \in Nat
    BY LaneAssumption DEF Review
  <2>5. QED
    BY <2>1, <2>2, <2>3, <2>4 DEF RunsOf
<1>4. CASE Resting(t)
  BY <1>4 DEF Resting
<1>5. QED
  BY <1>2, <1>3, <1>4, ReviewSteps

LEMMA CountedStays ==
  ASSUME QueueInv, [LaneNext]_allVars
  PROVE  Counted'
<1>1. LaneTypeOK /\ Counted /\ Grows
  BY TypesStay DEF QueueInv, Typed
<1>2. CASE UNCHANGED results
  BY <1>1, <1>2 DEF Counted, RunsOf
<1>3. ASSUME NEW t \in Targets, NEW k \in Keys, ClaimReview(t, k)
      PROVE  Counted'
  <2>1. /\ RunsOf(t)' = RunsOf(t) \cup {k}
        /\ Cardinality(RunsOf(t)') = Cardinality(RunsOf(t)) + 1
        /\ \A u \in Targets : u # t => RunsOf(u)' = RunsOf(u)
    BY <1>1, <1>3, ClaimReviewResult
  <2>2. PICK res \in Result : /\ results' = [results EXCEPT ![k] = res]
                              /\ res.serial = Cardinality(RunsOf(t)) + 1
    BY <1>1, <1>3, ClaimReviewResult
  <2>3. results'[k] = res
    BY <1>1, <2>2 DEF LaneTypeOK
  <2>4. Cardinality(RunsOf(t)) \in Nat
    <3>1. IsFiniteSet(RunsOf(t))
      BY BatchAssumption, FS_Subset DEF RunsOf
    <3>2. QED
      BY <3>1, FS_CardinalityType
  <2>5. ASSUME NEW u \in Targets, NEW j \in RunsOf(u)
        PROVE  results'[j].serial <= Cardinality(RunsOf(u)) /\ results'[j].serial \in Nat
    <3>1. results'[j] = results[j] /\ j \in Keys
      BY <1>1, <2>5, RunsStay DEF RunsOf
    <3>2. QED
      BY <1>1, <2>5, <3>1, ClaimedResult DEF Counted
  <2>6. ASSUME NEW j \in RunsOf(t)'
        PROVE  results'[j].serial <= Cardinality(RunsOf(t)')
    BY <2>1, <2>2, <2>3, <2>4, <2>5
  <2>7. ASSUME NEW u \in Targets, NEW j \in RunsOf(u)'
        PROVE  results'[j].serial <= Cardinality(RunsOf(u)')
    BY <2>1, <2>5, <2>6
  <2>8. QED
    BY <2>7 DEF Counted, RunsOf
<1>4. QED
  BY <1>2, <1>3, ResultSteps

-----------------------------------------------------------------------------
(* The queue and its publishers, in every behaviour.                           *)

LEMMA LaneInitTypes ==
  ASSUME LaneInit
  PROVE  LaneTypeOK
<1>1. BatchTypeOK
  BY InitIsSound DEF LaneInit, IInv
<1>2. reviews \in [Targets -> Review]
  BY NoReviewType DEF LaneInit
<1>3. results \in [Keys -> Result \cup {NoResult}] /\ receipts \subseteq Receipt
  BY DEF LaneInit
<1>4. sent \in [Keys -> 0..MaxDeliveries] /\ heads \in [Targets -> 0..MaxRevision]
      /\ canonical \in [Targets -> [serial: Nat, source: 0..MaxRevision]]
  BY LaneAssumption DEF LaneInit
<1>5. items \in [Keys -> Item]
  BY NoItemType DEF LaneInit
<1>6. letters \in [Keys -> [Revisions -> Letter]]
  BY DEF LaneInit, NoLetter, Letter
<1>7. workers \in [BatchIds -> Worker]
  <2>1. NoWorker \in Worker
    BY DEF NoWorker, Worker, WorkOutcomes
  <2>2. QED
    BY <2>1 DEF LaneInit
<1>8. given \in History
  BY DEF LaneInit, History
<1>9. faults \in [kinds: SUBSET {"retryable", "unattempted", "permanent", "refresh"}, left: Nat]
  BY LaneAssumption DEF LaneInit
<1>10. QED
  BY <1>1, <1>2, <1>3, <1>4, <1>5, <1>6, <1>7, <1>8, <1>9 DEF LaneTypeOK

LEMMA QueueInitially ==
  ASSUME LaneInit
  PROVE  QueueInv
<1>1. LaneTypeOK /\ IInv
  BY LaneInitTypes, InitIsSound DEF LaneInit
<1>2. memberships = {} /\ \A b \in BatchIds : batches[b].state = "absent"
  BY DEF LaneInit, BatchInit, NoBatch
<1>3. Granted /\ OwnedPending
  BY <1>2 DEF Granted, OwnedPending, Leased
<1>4. Manifests
  BY DEF LaneInit, Manifests, Equipped, NoWorker
<1>5. Carried
  <2>1. \A k \in Keys : items[k] = NoItem /\ ~Live(k)
    BY NoItemType DEF LaneInit, Live
  <2>2. \A k \in Keys : \A r \in Revisions : letters[k][r].status = "none" /\ letters[k][r].carries = "none"
    BY DEF LaneInit, NoLetter
  <2>3. QED
    BY <2>1, <2>2 DEF Carried
<1>6. Running
  BY NoReviewType DEF LaneInit, Running
<1>7. Counted
  <2>1. \A t \in Targets : RunsOf(t) = {}
    BY LaneAssumption DEF LaneInit, RunsOf, NoResult
  <2>2. QED
    BY <2>1 DEF Counted
<1>8. QED
  BY <1>1, <1>3, <1>4, <1>5, <1>6, <1>7 DEF QueueInv

LEMMA QueueStays ==
  ASSUME QueueInv, [LaneNext]_allVars
  PROVE  QueueInv'
<1>1. IInv' /\ Granted'
  BY StoreStays
<1>2. LaneTypeOK' /\ Manifests'
  BY TypesStay DEF Typed
<1>3. QED
  BY <1>1, <1>2, CarriedStays, OwnedPendingStays, RunningStays, CountedStays DEF QueueInv

\* Reviews, results, items, heads, receipts, letters and publishers always have
\* their types, whatever fails and however often results are delivered.
THEOREM LaneTypeCorrect == LaneSpec => []LaneTypeOK
<1>1. QueueInv => LaneTypeOK
  BY DEF QueueInv
<1>2. QED
  BY <1>1, QueueInitially, QueueStays, PTL DEF LaneSpec

\* The lane's use of the batch store is one that the store is specified for: it
\* claims what it may, and presents only fences of the batch it names, so what is
\* proved of the store for any callers (one owner, unique fences, settled once)
\* holds in the lane.
THEOREM LaneImplementsBatches == LaneSpec => BatchSpec
<1>1. LaneInit => BatchInit
  BY DEF LaneInit
<1>2. QueueInv /\ [LaneNext]_allVars => [BatchNext]_batchVars
  BY LaneDrivesBatches DEF QueueInv
<1>3. QED
  BY <1>1, <1>2, QueueInitially, QueueStays, PTL DEF LaneSpec, BatchSpec

\* So an item has one owner in the lane and every owner a newer fence, and what is
\* settled stays settled, whoever crashes, repeats or comes late.
COROLLARY LaneKeepsOwnership == LaneSpec => ImplementsOwnership /\ SettledOnce
  BY LaneImplementsBatches, RefinesOwnership, SettledForGood

\* An item that a batch is publishing is taken from the queue only by the step that
\* settles its membership: supersede, duplicate removal, stale prune, replay and
\* drain leave it to the publisher.
THEOREM OwnedItemsStay == LaneSpec => OwnedItemsAreNotTaken
<1>1. ASSUME QueueInv, [LaneNext]_allVars
      PROVE  \A m \in memberships :
               Open(m) /\ Live(m.item) /\ items'[m.item].state = "absent" => m \notin memberships'
  <2> SUFFICES ASSUME NEW m \in memberships, Open(m), m \in memberships'
               PROVE  items'[m.item].state # "absent"
    OBVIOUS
  <2>1. items'[m.item].state = "pending"
    BY <1>1, OwnedStay
  <2>2. QED
    BY <2>1
<1>2. QueueInv /\ [LaneNext]_allVars
        => [\A m \in memberships :
              Open(m) /\ Live(m.item) /\ items'[m.item].state = "absent" => m \notin memberships']_allVars
  BY <1>1
<1>3. QED
  BY <1>2, QueueInitially, QueueStays, PTL DEF LaneSpec, OwnedItemsAreNotTaken

-----------------------------------------------------------------------------
(* What is reported as published.                                              *)

LEMMA ReceiptStays ==
  ASSUME receipts \subseteq receipts', NEW k, NEW r, ReceiptFor(k, r)
  PROVE  ReceiptFor(k, r)'
  BY DEF ReceiptFor, ReceiptsOf

\* The worker of a batch that takes no step has what it had.
LEMMA OtherWorkers ==
  ASSUME LaneTypeOK, NEW b \in BatchIds, NEW w, Becomes(b, w), NEW c \in BatchIds
  PROVE  workers'[c] = IF c = b THEN w ELSE workers[c]
  BY DEF LaneTypeOK, Becomes

LEMMA AcceptLeavesReceipt ==
  ASSUME NEW fence, NEW r, NEW k, AcceptPlan(fence, r, k), NewerReceipts(fence, r) = {}
  PROVE  ReceiptFor(fence, r)'
<1> DEFINE p == [fence |-> fence, revision |-> r, outcome |-> "published"]
<1>1. p \in receipts'
  BY DEF AcceptPlan
<1>2. p.fence = fence /\ p.revision = r /\ p.outcome = "published"
  OBVIOUS
<1> HIDE DEF p
<1>3. QED
  BY <1>1, <1>2 DEF ReceiptFor, ReceiptsOf

\* A publisher that publishes what it answers as published leaves its receipt.
LEMMA PublishReports ==
  ASSUME LaneTypeOK, Carried, NEW b \in BatchIds, NEW f \in workers[b].manifest, PublishItem(b, f),
         f.item \in Keys, workers'[b].outcome[f.item] = "published"
  PROVE  ReceiptFor(f.item, f.revision)'
<1>1. f.revision \in Nat
  BY PublishItemResult
<1>2. PICK w \in Worker :
        /\ Becomes(b, w)
        /\ \/ UNCHANGED <<receipts, canonical, given>> /\ Answers(f, w.outcome[f.item])
           \/ Publishes(f, w.outcome[f.item])
  BY PublishItemResult
<1>3. w.outcome[f.item] = "published"
  BY <1>2, OtherWorkers
<1>4. CASE UNCHANGED receipts /\ Answers(f, w.outcome[f.item])
  BY <1>3, <1>4 DEF Answers, ReceiptFor, ReceiptsOf
<1>5. CASE Publishes(f, w.outcome[f.item])
  <2>1. NewerReceipts(f.item, f.revision) = {}
    BY <1>3, <1>5 DEF Publishes
  <2>2. AcceptPlan(f.item, f.revision, items[f.item].carries)
    BY <1>5 DEF Publishes
  <2>3. QED
    BY <2>1, <2>2, AcceptLeavesReceipt
<1>6. QED
  BY <1>2, <1>4, <1>5

\* Whom the steps of a publisher concern.
LEMMA ReportedStays ==
  ASSUME QueueInv, Reported, [LaneNext]_allVars
  PROVE  Reported'
<1>1. /\ LaneTypeOK /\ IInv /\ Granted /\ Manifests /\ Carried
      /\ IInv' /\ receipts \subseteq receipts'
  BY StoreStays, TypesStay DEF QueueInv, Typed, Grows
<1>2. ASSUME NEW b \in BatchIds, workers'[b] = workers[b]
      PROVE  \A f \in workers'[b].manifest :
               workers'[b].outcome[f.item] = "published" => ReceiptFor(f.item, f.revision)'
  BY <1>1, <1>2, ReceiptStays DEF Reported
<1>3. ASSUME NEW b \in BatchIds, NEW w, Becomes(b, w),
             \A f \in w.manifest :
               w.outcome[f.item] = "published" => ReceiptFor(f.item, f.revision)'
      PROVE  Reported'
  <2>1. \A c \in BatchIds : workers'[c] = IF c = b THEN w ELSE workers[c]
    BY <1>1, <1>3, OtherWorkers
  <2>2. \A c \in BatchIds : \A f \in workers'[c].manifest :
          workers'[c].outcome[f.item] = "published" => ReceiptFor(f.item, f.revision)'
    BY <1>2, <1>3, <2>1
  <2>3. QED
    BY <2>2 DEF Reported, ReceiptFor, ReceiptsOf
<1>4. ASSUME UNCHANGED workers
      PROVE  Reported'
  BY <1>2, <1>4 DEF Reported, ReceiptFor, ReceiptsOf
<1>5. ASSUME NEW b \in BatchIds, Moves(b)
      PROVE  Reported'
  <2>1. PICK w \in Worker : /\ Becomes(b, w)
                            /\ w.manifest = workers[b].manifest /\ w.outcome = workers[b].outcome
    BY <1>1, <1>5, MovesResult
  <2>2. QED
    BY <1>1, <1>3, <2>1, ReceiptStays DEF Reported
<1>6. ASSUME NEW b \in BatchIds, Fetches(b)
      PROVE  Reported'
  <2>1. PICK w \in Worker :
          /\ Becomes(b, w)
          /\ w.manifest = workers[b].manifest \/ workers[b].pc = "claimed"
          /\ \A k \in Keys : w.outcome[k] \in {"retryable", workers[b].outcome[k]}
    BY <1>1, <1>6, FetchesResult
  <2>2. ASSUME NEW f \in w.manifest, w.outcome[f.item] = "published"
        PROVE  ReceiptFor(f.item, f.revision)'
    <3>1. f.item \in Keys
      BY DEF Worker, Fences
    <3>2. workers[b].outcome[f.item] = "published"
      BY <2>1, <2>2, <3>1
    <3>3. workers[b].pc # "claimed"
      BY <1>1, <3>1, <3>2 DEF Manifests, Equipped
    <3>4. QED
      BY <1>1, <2>1, <3>2, <3>3, ReceiptStays DEF Reported
  <2>3. QED
    BY <1>3, <2>1, <2>2
<1>7. ASSUME NEW b \in BatchIds, Prepare(b)
      PROVE  Reported'
  <2>1. PICK w \in Worker :
          /\ Becomes(b, w)
          /\ \A k \in Keys : w.outcome[k] # "published"
    BY <1>1, <1>7, PrepareResult
  <2>2. \A f \in w.manifest : f.item \in Keys
    BY DEF Worker, Fences
  <2>3. QED
    BY <1>3, <2>1, <2>2
<1>8. ASSUME NEW b \in BatchIds, NewRun(b)
      PROVE  Reported'
  <2>1. PICK w : w = NoWorker
    OBVIOUS
  <2>2. Becomes(b, w) /\ w.manifest = {}
    BY <1>8, <2>1 DEF NewRun, Becomes, NoWorker
  <2>3. QED
    BY <1>3, <2>2
<1>9. ASSUME NEW b \in BatchIds, NEW f \in workers[b].manifest, PublishItem(b, f)
      PROVE  Reported'
  <2>1. f.item \in Keys
    BY <1>1, <1>9, PublishItemResult
  <2>2. PICK w \in Worker :
          /\ Becomes(b, w) /\ w.manifest = workers[b].manifest
          /\ \A j \in Keys : j # f.item => w.outcome[j] = workers[b].outcome[j]
    BY <1>1, <1>9, PublishItemResult
  <2>3. w.outcome[f.item] = "published" => ReceiptFor(f.item, f.revision)'
    BY <1>1, <1>9, <2>1, <2>2, OtherWorkers, PublishReports
  <2>4. ASSUME NEW g \in w.manifest, w.outcome[g.item] = "published"
        PROVE  ReceiptFor(g.item, g.revision)'
    <3>1. g.item \in Keys
      BY DEF Worker, Fences
    <3>2. CASE g.item = f.item
      <4>1. g = f
        BY <1>1, <2>2, <3>2 DEF Manifests, Equipped
      <4>2. QED
        BY <2>3, <2>4, <4>1
    <3>3. CASE g.item # f.item
      BY <1>1, <2>2, <2>4, <3>1, <3>3, ReceiptStays DEF Reported
    <3>4. QED
      BY <3>2, <3>3
  <2>5. QED
    BY <1>3, <2>2, <2>4
<1>10. ASSUME NEW k \in Keys, Deliver(k)
       PROVE  UNCHANGED workers
  BY <1>10 DEF Deliver, DeliverRefused, DeliverDuplicate, DeliverNew, MayDeliver
<1>11. ASSUME NEW k \in Keys, NEW r \in Revisions,
              ReplayDeadLetter(k, r) \/ RecoverFresh(k, r) \/ ResolveDeadLetter(k, r)
       PROVE  UNCHANGED workers
  BY <1>11 DEF ReplayDeadLetter, RecoverFresh, ResolveDeadLetter
<1>12. ASSUME NEW t \in Targets, ReviewLane(t) \/ DirectPublish(t)
       PROVE  UNCHANGED workers
  BY <1>12, ReviewLaneKeeps DEF DirectPublish
<1>13. ASSUME Idling \/ PruneStale
       PROVE  UNCHANGED workers
  BY <1>13 DEF Idling, laneVars, PruneStale
<1>14. QED
  BY <1>4, <1>5, <1>6, <1>7, <1>8, <1>9, <1>10, <1>11, <1>12, <1>13, LaneCases

\* A membership becomes published only by a publisher's completion that says so.
LEMMA PublishedOrigin ==
  ASSUME QueueInv, [LaneNext]_allVars, NEW m \in memberships', m.outcome = "published"
  PROVE  \/ m \in memberships
         \/ \E b \in BatchIds : \E f \in workers[b].manifest :
              SameFence(m, f) /\ workers[b].outcome[f.item] = "published"
<1>1. LaneTypeOK /\ IInv /\ Granted /\ Manifests /\ Carried
  BY DEF QueueInv
<1>2. m \in ReclaimedMemberships => m \in memberships
  BY <1>1, ReclaimedOrigin
<1>3. CASE Aside \/ LaneTick
  <2>1. UNCHANGED memberships
    BY <1>3, AsideKeepsBatches DEF LaneTick, Tick, batchVars
  <2>2. QED
    BY <2>1
<1>4. CASE Touching
  BY <1>2, <1>4, TouchingTouches DEF Touch
<1>5. ASSUME NEW b \in BatchIds, ClaimBatch(b)
      PROVE  m \in memberships
  <2>1. PICK candidates : Claim(b, Publisher, candidates)
    BY <1>5 DEF ClaimBatch
  <2>2. m \in ReclaimedMemberships \/ \E c \in Free(candidates) : m = NewMember(b, c)
    BY <2>1 DEF Claim
  <2>3. \A c : NewMember(b, c).outcome # "published"
    BY DEF NewMember, Unfinished
  <2>4. QED
    BY <1>2, <2>2, <2>3
<1>6. ASSUME NEW b \in BatchIds, Load(b) \/ Commit(b) \/ Acknowledge(b)
      PROVE  m \in memberships
  <2> DEFINE completions == {WithOutcome(n, "superseded") : n \in StaleMembers(b)}
  <2>1. Complete(b, Publisher, completions)
    BY <1>6 DEF Load, Commit, Acknowledge, Fetch
  <2>2. \A f \in completions : f.outcome = "superseded"
    BY DEF WithOutcome
  <2> HIDE DEF completions
  <2>3. \A f \in completions : f.outcome \in Outcomes
    BY <2>2 DEF Outcomes
  <2>4. m \in ReclaimedMemberships \/ \E f \in completions : m.outcome = f.outcome
    BY <1>1, <2>1, <2>3, CompleteMembers, PublisherOwns
  <2>5. QED
    BY <1>2, <2>2, <2>4
<1>7. ASSUME NEW b \in BatchIds, SendCompletion(b) \/ Release(b)
      PROVE  \/ m \in memberships
             \/ \E f \in workers[b].manifest :
                  SameFence(m, f) /\ workers[b].outcome[f.item] = "published"
  <2>1. PICK fences \in SUBSET Fences :
          /\ fences \subseteq workers[b].manifest
          /\ \A f, g \in fences : f.item = g.item => f = g
          /\ CompleteBatch(b, fences)
    BY <1>1, <1>7, SettlingResult DEF Settling
  <2>2. m \in memberships \/ \E f \in fences :
          SameFence(m, f) /\ workers[b].outcome[f.item] = "published"
    BY <1>1, <2>1, CompleteBatchResult
  <2>3. QED
    BY <2>1, <2>2
<1>8. ASSUME NEW b \in BatchIds, BatchHeartbeat(b)
      PROVE  m \in memberships
  BY <1>2, <1>8 DEF BatchHeartbeat, Heartbeat
<1>9. CASE BatchHousekeeping
  BY <1>2, <1>9 DEF BatchHousekeeping, Stats
<1>10. CASE UNCHANGED allVars
  BY <1>10 DEF allVars, batchVars
<1>11. QED
  BY <1>3, <1>4, <1>5, <1>6, <1>7, <1>8, <1>9, <1>10, LaneSteps

LEMMA ReportStays ==
  ASSUME ReportInv, [LaneNext]_allVars
  PROVE  ReportInv'
<1>1. QueueInv /\ Reported /\ PublishedIsPublished
  BY DEF ReportInv
<1>2. QueueInv' /\ Reported'
  BY <1>1, QueueStays, ReportedStays
<1>3. receipts \subseteq receipts'
  BY <1>1, TypesStay DEF Typed, Grows
<1>4. ASSUME NEW m \in memberships', m.outcome = "published"
      PROVE  ReceiptFor(m.item, m.revision)'
  <2>1. ReceiptFor(m.item, m.revision)
    <3>1. CASE m \in memberships
      BY <1>1, <1>4, <3>1 DEF PublishedIsPublished, ReceiptFor
    <3>2. ASSUME NEW b \in BatchIds, NEW f \in workers[b].manifest,
                 SameFence(m, f), workers[b].outcome[f.item] = "published"
          PROVE  ReceiptFor(m.item, m.revision)
      BY <1>1, <3>2 DEF Reported, SameFence
    <3>3. QED
      BY <1>1, <1>4, <3>1, <3>2, PublishedOrigin
  <2>2. QED
    BY <1>3, <2>1, ReceiptStays
<1>5. PublishedIsPublished'
  BY <1>4 DEF PublishedIsPublished, ReceiptFor, ReceiptsOf
<1>6. QED
  BY <1>2, <1>5 DEF ReportInv

LEMMA ReportInitially ==
  ASSUME LaneInit
  PROVE  ReportInv
<1>1. QueueInv
  BY QueueInitially
<1>2. Reported /\ PublishedIsPublished
  BY DEF LaneInit, BatchInit, Reported, PublishedIsPublished, NoWorker
<1>3. QED
  BY <1>1, <1>2 DEF ReportInv

\* A membership is settled as published only if the publication it fenced has a
\* receipt: what a publisher was not answered as published it reports as
\* retryable, and no late or repeated completion, of this batch or of another run
\* under its id, settles a fence that is not its own.
THEOREM PublishedHasReceipt == LaneSpec => []PublishedIsPublished
<1>1. ReportInv => PublishedIsPublished
  BY DEF ReportInv
<1>2. QED
  BY <1>1, ReportInitially, ReportStays, PTL DEF LaneSpec

-----------------------------------------------------------------------------
(* The bound of the dead-letter store.                                         *)

\* Letters are finitely many.
LEMMA LettersAreFinite ==
  ASSUME NEW S \in SUBSET (Keys \X Revisions)
  PROVE  IsFiniteSet(S) /\ Cardinality(S) \in Nat
<1>1. IsFiniteSet(Revisions)
  BY LaneAssumption, FS_Interval
<1>2. IsFiniteSet(Keys \X Revisions)
  BY <1>1, BatchAssumption, FS_Product
<1>3. IsFiniteSet(S)
  BY <1>2, FS_Subset
<1>4. QED
  BY <1>3, FS_CardinalityType

Room(n) == IF n < DeadLetterLimit THEN DeadLetterLimit - n ELSE 0

\* The letters of some items, at a revision for each: as many, or fewer.
LettersAt(moved, f) == {<<k, f[k]>> : k \in moved}

LEMMA RoomIsKept ==
  ASSUME NEW old \in SUBSET (Keys \X Revisions), NEW moved \in SUBSET Keys, moved # {}, NEW f,
         Cardinality(moved) <= Room(Cardinality(old)),
         NEW X \in SUBSET (old \cup LettersAt(moved, f))
  PROVE  Cardinality(X) <= DeadLetterLimit
<1> DEFINE T == LettersAt(moved, f)
           g == [k \in moved |-> <<k, f[k]>>]
<1>1. IsFiniteSet(moved) /\ Cardinality(moved) \in Nat /\ Cardinality(moved) # 0
  BY BatchAssumption, FS_Subset, FS_CardinalityType, FS_EmptySet
<1>2. g \in Surjection(moved, T)
  BY DEF Surjection, LettersAt
<1>3. IsFiniteSet(T) /\ Cardinality(T) <= Cardinality(moved)
  BY <1>1, <1>2, FS_Surjection
<1>4. IsFiniteSet(old) /\ Cardinality(old) \in Nat /\ Cardinality(T) \in Nat
  BY <1>3, LettersAreFinite, FS_CardinalityType
<1> HIDE DEF T, g
<1>5. /\ IsFiniteSet(old \cup T)
      /\ Cardinality(old \cup T) = Cardinality(old) + Cardinality(T) - Cardinality(old \cap T)
      /\ Cardinality(old \cap T) \in Nat
  BY <1>3, <1>4, FS_Union, FS_Intersection, FS_CardinalityType
<1>6. Cardinality(old \cup T) \in Nat /\ Cardinality(old \cup T) <= DeadLetterLimit
  BY <1>1, <1>3, <1>4, <1>5, LaneAssumption, FS_CardinalityType DEF Room
<1>7. Cardinality(X) <= Cardinality(old \cup T) /\ Cardinality(X) \in Nat
  BY <1>5, FS_Subset, FS_CardinalityType DEF T
<1>8. QED
  BY <1>6, <1>7, LaneAssumption

LettersBounded == Written # {} => Cardinality(OpenLetters(letters') \ ComeBack) <= DeadLetterLimit

\* What drains parked items, from the items and letters there are just before.
Drains(its, ls) ==
  /\ its \in [Keys -> Item] /\ ls \in [Keys -> [Revisions -> Letter]]
  /\ \E moved \in SUBSET Keys : Drained(its, ls, moved)
  /\ \A i \in Keys : its[i].state = "parked" => its[i] = items[i]
  /\ \A i \in Keys : \A s \in Revisions : ls[i][s].status = "none" <=> letters[i][s].status = "none"

LEMMA DrainedBounded ==
  ASSUME LaneTypeOK, Carried, NEW its, NEW ls, Drains(its, ls)
  PROVE  LettersBounded
<1>1. PICK moved \in SUBSET Keys : Drained(its, ls, moved)
  BY DEF Drains
<1>2. \A k \in moved : its[k] = items[k] /\ items[k].state = "parked"
  BY <1>1 DEF Drained, Drains
<1>3. \A k \in moved : items[k].revision \in Revisions /\ items[k].carries \in Keys
  <2> TAKE k \in moved
  <2>1. Live(k)
    BY <1>2 DEF Live
  <2>2. QED
    BY <2>1, LiveItem, LaneAssumption
<1>4. \A k \in Keys : letters'[k] = IF k \in moved
                                     THEN Inserted(ls, k, its[k].revision, its[k].carries)
                                     ELSE ls[k]
  BY <1>1 DEF Drained
<1> DEFINE f == [k \in Keys |-> items[k].revision]
           old == OpenLetters(ls)
<1>5. ASSUME NEW k \in Keys, NEW r \in Revisions, <<k, r>> \notin LettersAt(moved, f)
      PROVE  letters'[k][r] = ls[k][r]
  <2>1. CASE k \in moved
    <3>1. PICK q \in Revisions, c \in Keys : q = items[k].revision /\ c = items[k].carries
      BY <1>3, <2>1
    <3>2. r # q
      BY <1>5, <2>1, <3>1 DEF LettersAt
    <3>3. letters'[k] = Inserted(ls, k, q, c)
      BY <1>2, <1>4, <2>1, <3>1
    <3>4. ls \in [Keys -> [Revisions -> Letter]]
      BY DEF Drains
    <3>5. \A s \in Revisions : s # q => Inserted(ls, k, q, c)[s] = ls[k][s]
      BY <3>4, InsertedResult
    <3>6. QED
      BY <3>2, <3>3, <3>5
  <2>2. CASE k \notin moved
    BY <1>4, <2>2
  <2>3. QED
    BY <2>1, <2>2
<1> HIDE DEF f
<1>6. OpenLetters(letters') \subseteq old \cup LettersAt(moved, f)
  BY <1>5 DEF OpenLetters
<1>7. Written # {} => moved # {}
  <2> SUFFICES ASSUME NEW l \in Written
               PROVE  moved # {}
    OBVIOUS
  <2>1. PICK k \in Keys, r \in Revisions :
          l = <<k, r>> /\ letters'[k][r].status = "open" /\ letters[k][r].status = "none"
    BY DEF Written, OpenLetters
  <2>2. letters'[k][r] # ls[k][r]
    BY <2>1 DEF Drains
  <2>3. QED
    BY <1>5, <2>2 DEF LettersAt
<1>8. Cardinality(moved) <= Room(Cardinality(old))
  <2>1. old \in SUBSET (Keys \X Revisions)
    BY DEF OpenLetters
  <2>2. Cardinality(old) \in Nat
    BY <2>1, LettersAreFinite
  <2>3. IsFiniteSet({k \in Keys : its[k].state = "parked"})
        /\ Cardinality({k \in Keys : its[k].state = "parked"}) \in Nat
    BY BatchAssumption, FS_Subset, FS_CardinalityType
  <2>4. Cardinality(moved) = IF Cardinality({k \in Keys : its[k].state = "parked"}) < Room(Cardinality(old))
                             THEN Cardinality({k \in Keys : its[k].state = "parked"})
                             ELSE Room(Cardinality(old))
    BY <1>1 DEF Drained, Room
  <2>5. QED
    BY <2>2, <2>3, <2>4, LaneAssumption DEF Room
<1>9. old \in SUBSET (Keys \X Revisions)
  BY DEF OpenLetters
<1> HIDE DEF old
<1>10. OpenLetters(letters') \ ComeBack \in SUBSET (old \cup LettersAt(moved, f))
  BY <1>6
<1>11. QED
  BY <1>7, <1>8, <1>9, <1>10, RoomIsKept DEF LettersBounded

LEMMA OperatorBounded ==
  ASSUME LaneTypeOK, Carried, NEW k \in Keys, NEW r \in Revisions,
         ReplayDeadLetter(k, r) \/ RecoverFresh(k, r) \/ ResolveDeadLetter(k, r)
  PROVE  LettersBounded
<1>1. letters[k][r].status = "open"
  BY DEF ReplayDeadLetter, RecoverFresh, ResolveDeadLetter, IsOpen
<1>2. \A st \in {"replayed", "resolved"} :
        /\ WithStatus(k, r, st) \in [Keys -> [Revisions -> Letter]]
        /\ \A i \in Keys : \A s \in Revisions :
             WithStatus(k, r, st)[i][s].status = "none" <=> letters[i][s].status = "none"
  <2> TAKE st \in {"replayed", "resolved"}
  <2>1. WithStatus(k, r, st) \in [Keys -> [Revisions -> Letter]]
    BY <1>1, LetterStatus
  <2>2. \A i \in Keys : \A s \in Revisions :
          WithStatus(k, r, st)[i][s].status = "none" <=> letters[i][s].status = "none"
    BY <1>1, LetterStatus
  <2>3. QED
    BY <2>1, <2>2
<1>3. CASE RecoverFresh(k, r) \/ ResolveDeadLetter(k, r)
  <2>1. \E moved \in SUBSET Keys : Drained(items, WithStatus(k, r, "resolved"), moved)
    BY <1>3 DEF RecoverFresh, ResolveDeadLetter, WithStatus
  <2>2. items \in [Keys -> Item]
    BY DEF LaneTypeOK
  <2>3. Drains(items, WithStatus(k, r, "resolved"))
    BY <1>2, <2>1, <2>2 DEF Drains
  <2>4. QED
    BY <2>3, DrainedBounded
<1>4. CASE ReplayDeadLetter(k, r)
  <2> DEFINE it == [state |-> "pending", revision |-> r, attempts |-> 0,
                    carries |-> letters[k][r].carries]
             its == [items EXCEPT ![k] = it]
  <2>1. \E moved \in SUBSET Keys : Drained(its, WithStatus(k, r, "replayed"), moved)
    BY <1>4 DEF ReplayDeadLetter, WithStatus
  <2>2. letters[k][r].carries \in Keys
    BY <1>1 DEF Carried, Carries, Twins
  <2>3. it \in Item /\ it.state = "pending"
    BY <2>2, LaneAssumption DEF Item
  <2>4. items \in [Keys -> Item]
    BY DEF LaneTypeOK
  <2> HIDE DEF it
  <2>5. its \in [Keys -> Item] /\ \A i \in Keys : its[i] = IF i = k THEN it ELSE items[i]
    BY <2>3, <2>4
  <2>6. \A i \in Keys : its[i].state = "parked" => its[i] = items[i]
    BY <2>3, <2>5
  <2> HIDE DEF its
  <2>7. Drains(its, WithStatus(k, r, "replayed"))
    BY <1>2, <2>1, <2>5, <2>6 DEF Drains
  <2>8. QED
    BY <2>7, DrainedBounded
<1>5. QED
  BY <1>3, <1>4

\* Only as many of the exhausted items as there is room for get new letters.
LEMMA FinishBounded ==
  ASSUME LaneTypeOK, Carried, NEW settled \in SUBSET {k \in Keys : Live(k)},
         NEW kindOf, NEW revisionOf,
         \A k \in settled : revisionOf[k] \in Nat /\ revisionOf[k] <= items[k].revision,
         FinishItems(settled, kindOf, revisionOf)
  PROVE  LettersBounded
<1> DEFINE newer     == {k \in settled : items[k].revision > revisionOf[k]}
           of(kinds) == {k \in settled \ newer : kindOf[k] \in kinds}
           failed    == of({"permanent", "retryable"})
           exhausted == {k \in failed : Exhausted(k)}
           known     == {k \in exhausted : letters[k][revisionOf[k]].status # "none"}
           open      == Cardinality(OpenLetters(letters))
           least     == open + Cardinality({k \in known : letters[k][revisionOf[k]].status # "open"})
           others    == Cardinality(exhausted \ known)
<1>1. PICK in \in SUBSET exhausted :
        /\ Lettered(exhausted, revisionOf, in)
        /\ letters' = [k \in Keys |-> IF k \in in
                                      THEN Inserted(letters, k, revisionOf[k], items[k].carries)
                                      ELSE letters[k]]
  BY DEF FinishItems
<1>2. \A k \in settled : /\ k \in Keys /\ items[k].revision \in Revisions
                         /\ items[k].revision \in Nat /\ items[k].carries \in Keys
  BY LiveItem, LaneAssumption
<1>3. \A k \in exhausted : k \in Keys /\ revisionOf[k] \in Revisions /\ items[k].carries \in Keys
  BY <1>2
<1>4. letters \in [Keys -> [Revisions -> Letter]]
  BY DEF LaneTypeOK
<1> DEFINE moved == in \ known
           T == LettersAt(moved, revisionOf)
<1>5. Cardinality(moved) <= Room(open)
  <2>1. Cardinality(moved) \in (IF others < Room(least) THEN others ELSE Room(least))
                                 ..(IF others < Room(open) THEN others ELSE Room(open))
    BY <1>1 DEF Lettered, Room
  <2>2. IsFiniteSet(exhausted \ known) /\ others \in Nat
    <3>1. exhausted \ known \in SUBSET Keys
      BY <1>3
    <3>2. QED
      BY <3>1, BatchAssumption, FS_Subset, FS_CardinalityType
  <2>3. OpenLetters(letters) \in SUBSET (Keys \X Revisions)
    BY DEF OpenLetters
  <2>4. open \in Nat
    BY <2>3, LettersAreFinite
  <2>5. Cardinality(moved) \in Nat
    <3>1. moved \in SUBSET Keys
      BY <1>3
    <3>2. QED
      BY <3>1, BatchAssumption, FS_Subset, FS_CardinalityType
  <2>6. least \in Nat
    <3>1. {k \in known : letters[k][revisionOf[k]].status # "open"} \in SUBSET Keys
      BY <1>3
    <3>2. Cardinality({k \in known : letters[k][revisionOf[k]].status # "open"}) \in Nat
      BY <3>1, BatchAssumption, FS_Subset, FS_CardinalityType
    <3>3. QED
      BY <2>4, <3>2
  <2> HIDE DEF moved, others, open, least
  <2>7. QED
    BY <2>1, <2>2, <2>4, <2>5, <2>6, LaneAssumption DEF Room
<1>6. moved \in SUBSET Keys /\ \A k \in in : k \in exhausted
  BY <1>3
<1>7. \A k \in in : k \in moved \/ letters[k][revisionOf[k]].status # "none"
  OBVIOUS
<1> HIDE DEF moved, open, exhausted, known
<1>8. ASSUME NEW k \in Keys, NEW r \in Revisions, letters'[k][r] # letters[k][r]
      PROVE  k \in in /\ r = revisionOf[k]
  <2>1. k \in in
    BY <1>1, <1>8
  <2>2. PICK q \in Revisions, c \in Keys : q = revisionOf[k] /\ c = items[k].carries
    BY <1>3, <1>6, <2>1
  <2>3. letters'[k] = Inserted(letters, k, q, c)
    BY <1>1, <2>1, <2>2
  <2>4. \A s \in Revisions : s # q => Inserted(letters, k, q, c)[s] = letters[k][s]
    BY <1>4, InsertedResult
  <2>5. QED
    BY <1>8, <2>1, <2>2, <2>3, <2>4
<1>9. ASSUME NEW k \in Keys, NEW r \in Revisions,
             letters'[k][r].status = "open", letters[k][r].status \notin {"replayed", "resolved"}
      PROVE  \/ <<k, r>> \in OpenLetters(letters)
             \/ <<k, r>> \in T /\ k \in moved
  <2>1. CASE letters'[k][r] = letters[k][r]
    BY <1>9, <2>1 DEF OpenLetters
  <2>2. CASE letters'[k][r] # letters[k][r]
    <3>1. k \in in /\ r = revisionOf[k]
      BY <1>8, <2>2
    <3>2. letters[k][r].status \in {"none", "open"}
      BY <1>4, <1>9 DEF Letter
    <3>3. CASE letters[k][r].status = "open"
      BY <3>3 DEF OpenLetters
    <3>4. CASE letters[k][r].status = "none"
      BY <1>7, <3>1, <3>4 DEF LettersAt
    <3>5. QED
      BY <3>2, <3>3, <3>4
  <2>3. QED
    BY <2>1, <2>2
<1> HIDE DEF T
<1>10. OpenLetters(letters') \ ComeBack \in SUBSET (OpenLetters(letters) \cup T)
  BY <1>9 DEF OpenLetters, ComeBack
<1>11. Written # {} => moved # {}
  <2> SUFFICES ASSUME NEW l \in Written
               PROVE  moved # {}
    OBVIOUS
  <2>1. PICK k \in Keys, r \in Revisions :
          l = <<k, r>> /\ letters'[k][r].status = "open" /\ letters[k][r].status = "none"
    BY DEF Written, OpenLetters
  <2>2. <<k, r>> \notin OpenLetters(letters)
    BY <2>1 DEF OpenLetters
  <2>3. QED
    BY <1>9, <2>1, <2>2
<1>12. OpenLetters(letters) \in SUBSET (Keys \X Revisions)
  BY DEF OpenLetters
<1>13. QED
  BY <1>5, <1>6, <1>10, <1>11, <1>12, RoomIsKept DEF LettersBounded, T, open

LEMMA BoundedStep ==
  ASSUME QueueInv, [LaneNext]_allVars
  PROVE  LettersBounded
<1>1. LaneTypeOK /\ IInv /\ Granted /\ Manifests /\ Carried
  BY DEF QueueInv
<1>2. CASE UNCHANGED letters
  BY <1>2 DEF LettersBounded, Written, OpenLetters
<1>3. ASSUME NEW t \in Targets, ReviewLane(t) \/ DirectPublish(t)
      PROVE  UNCHANGED letters
  BY <1>3, ReviewLaneKeeps DEF DirectPublish
<1>4. ASSUME NEW k \in Keys, Deliver(k)
      PROVE  UNCHANGED letters
  BY <1>4 DEF Deliver, DeliverRefused, DeliverDuplicate, DeliverNew, MayDeliver
<1>5. ASSUME Idling \/ PruneStale
      PROVE  UNCHANGED letters
  BY <1>5 DEF Idling, laneVars, PruneStale
<1>6. ASSUME NEW k \in Keys, NEW r \in Revisions,
             ReplayDeadLetter(k, r) \/ RecoverFresh(k, r) \/ ResolveDeadLetter(k, r)
      PROVE  LettersBounded
  BY <1>1, <1>6, OperatorBounded
<1>7. ASSUME NEW b \in BatchIds,
             \/ Moves(b) /\ ~Settling(b)
             \/ Fetches(b) \/ Prepare(b) \/ NewRun(b)
             \/ \E f \in workers[b].manifest : PublishItem(b, f)
      PROVE  UNCHANGED letters
  BY <1>7 DEF Moves, Settling, ClaimBatch, LostLease, Crash, Prepare, NewRun, PublishItem,
              Fetches, Load, Commit, Acknowledge
<1>8. ASSUME NEW b \in BatchIds, Settling(b)
      PROVE  LettersBounded
  <2>1. PICK fences \in SUBSET Fences :
          (\A f, g \in fences : f.item = g.item => f = g) /\ CompleteBatch(b, fences)
    BY <1>1, <1>8, SettlingResult
  <2>2. PICK settled : settled = SettledBy(b, fences)
    OBVIOUS
  <2>3. /\ settled \in SUBSET {k \in Keys : Live(k)}
        /\ FinishItems(settled, Kind(b), RevisionOf(fences))
        /\ \A k \in settled : \E f \in fences :
             RevisionOf(fences)[k] = f.revision /\ f.revision \in Nat /\ f.revision <= items[k].revision
    BY <1>1, <2>1, <2>2, CompleteBatchResult
  <2>4. \A k \in settled : RevisionOf(fences)[k] \in Nat /\ RevisionOf(fences)[k] <= items[k].revision
    BY <2>3
  <2>5. QED
    BY <1>1, <2>3, <2>4, FinishBounded
<1>9. QED
  BY <1>2, <1>3, <1>4, <1>5, <1>6, <1>7, <1>8, LaneCases

\* The dead-letter store does not grow beyond its limit, whichever of its three
\* writers adds to it (a completion that gives items up, the drain of parked items
\* in an operator's step, an insertion that reopens a row): a step that writes a new
\* row leaves no more open letters than the limit, those apart that it brought back.
THEOREM DeadLettersStayBounded == LaneSpec => DeadLettersBounded
<1>1. QueueInv /\ [LaneNext]_allVars
        => [Written # {} => Cardinality(OpenLetters(letters') \ ComeBack) <= DeadLetterLimit]_allVars
  BY BoundedStep DEF LettersBounded
<1>2. QED
  BY <1>1, QueueInitially, QueueStays, PTL DEF LaneSpec, DeadLettersBounded

-----------------------------------------------------------------------------
(* What the lane knows stays known.                                            *)

LEMMA ClaimedStays ==
  ASSUME LaneTypeOK, Grows, NEW k \in Keys, Claimed(k)
  PROVE  results'[k] = results[k] /\ Claimed(k)'
  BY DEF Grows, Claimed

LEMMA TwinsStay ==
  ASSUME LaneTypeOK, Grows, NEW k \in Keys, Claimed(k), NEW j \in Twins(k)
  PROVE  /\ j \in Keys /\ Claimed(j) /\ Claimed(j)'
         /\ results'[j] = results[j] /\ results'[k] = results[k]
         /\ j \in Twins(k)' /\ k \in Twins(j) /\ Twins(j) = Twins(k)
<1>1. j \in Keys /\ results[j].target = results[k].target
  BY DEF Twins
<1>2. Claimed(j)
  BY <1>1, ClaimedResult
<1>3. results'[j] = results[j] /\ results'[k] = results[k] /\ Claimed(j)'
  BY <1>1, <1>2, ClaimedStays
<1>4. QED
  BY <1>1, <1>2, <1>3 DEF Twins

LEMMA QueuedBefore ==
  ASSUME Grows, NEW t, Queued(t)'
  PROVE  Queued(t)
  BY DEF Grows, Queued

LEMMA TrustedBefore ==
  ASSUME LaneTypeOK, Grows, NEW t \in Targets, Trusted(t)'
  PROVE  Trusted(t) /\ Queued(t)'
<1>1. Queued(t) /\ Queued(t)'
  BY QueuedBefore DEF Trusted
<1>2. ASSUME NEW k \in RunsOf(t) \cap given.refreshed
      PROVE  FALSE
  <2>1. k \in RunsOf(t)' /\ k \in given'.refreshed
    BY <1>2, RunsStay DEF Grows
  <2>2. QED
    BY <2>1 DEF Trusted, Returned
<1>3. QED
  BY <1>1, <1>2 DEF Trusted, Returned

\* A result that was heard of is of a run.
LEMMA HeardStays ==
  ASSUME LaneTypeOK, Grows, Histories, NEW j \in Heard
  PROVE  j \in Keys /\ Claimed(j) /\ results'[j] = results[j] /\ j \in Heard'
<1>1. j \in Keys
  BY DEF Heard, LaneTypeOK, History
<1>2. QED
  BY <1>1, ClaimedStays DEF Histories, Heard, Grows

LEMMA PassedStays ==
  ASSUME LaneTypeOK, Grows, Histories, NEW c \in Keys, Claimed(c), Passed(c)
  PROVE  Passed(c)'
<1>1. results'[c] = results[c]
  BY ClaimedStays
<1>2. ASSUME NEW j \in Twins(c) \cap given.published
      PROVE  Passed(c)'
  BY <1>2, TwinsStay DEF Passed, Grows
<1>3. ASSUME NEW j \in Heard, Overtakes(j, c)
      PROVE  Passed(c)'
  BY <1>1, <1>3, HeardStays DEF Passed, Overtakes
<1>4. QED
  BY <1>2, <1>3 DEF Passed

LEMMA YieldedStays ==
  ASSUME LaneTypeOK, Grows, Histories, NEW c \in Keys, Claimed(c), Yielded(c)
  PROVE  Yielded(c)'
<1> SUFFICES ASSUME NEW t \in Targets, results'[c].target = t, Trusted(t)'
             PROVE  (Twins(c) \cap given.published # {} \/ \E j \in Heard : Newer(j, c))'
  BY DEF Yielded
<1>1. results'[c] = results[c] /\ Trusted(t)
  BY ClaimedStays, TrustedBefore
<1>2. ASSUME NEW j \in Twins(c) \cap given.published
      PROVE  j \in (Twins(c) \cap given.published)'
  BY <1>2, TwinsStay DEF Grows
<1>3. ASSUME NEW j \in Heard, Newer(j, c)
      PROVE  j \in Heard' /\ Newer(j, c)'
  BY <1>1, <1>3, HeardStays DEF Newer
<1>4. QED
  BY <1>1, <1>2, <1>3 DEF Yielded

LEMMA ExcusedStays ==
  ASSUME LaneTypeOK, Grows, Histories, NEW c \in Keys, Claimed(c), Excused(c)
  PROVE  Excused(c)'
  BY PassedStays, YieldedStays DEF Excused

-----------------------------------------------------------------------------
(* Why a result may go.                                                        *)

\* A newer source is a newer review, where the numbering can be trusted.
LEMMA SourceOrders ==
  ASSUME LaneTypeOK, Numbered, NEW t \in Targets, Trusted(t), NEW j \in Keys, NEW c \in Keys,
         results[j].target = t, results[c].target = t, results[j].source > results[c].source
  PROVE  results[j].serial > results[c].serial
<1>1. j \in RunsOf(t) /\ c \in RunsOf(t)
  BY DEF RunsOf
<1>2. /\ results[j].source \in 0..MaxRevision /\ results[c].source \in 0..MaxRevision
      /\ results[j].serial \in Nat /\ results[c].serial \in Nat
  BY ClaimedResult
<1>3. results[c].source < results[j].source => results[c].serial < results[j].serial
  BY <1>1 DEF Numbered, InOrder
<1>4. QED
  BY <1>2, <1>3, LaneAssumption

LEMMA SourceExcuses ==
  ASSUME LaneTypeOK, Numbered, NEW j \in Heard, NEW c \in Keys,
         results[j].target = results[c].target, results[j].source > results[c].source
  PROVE  Excused(c)
<1>1. j \in Keys
  BY DEF Heard, LaneTypeOK, History
<1>2. Passed(c)
  BY DEF Passed, Overtakes
<1>3. ASSUME NEW t \in Targets, results[c].target = t, Trusted(t)
      PROVE  Newer(j, c)
  BY <1>1, <1>3, SourceOrders DEF Newer
<1>4. Yielded(c)
  BY <1>3 DEF Yielded
<1>5. QED
  BY <1>2, <1>4 DEF Excused

LEMMA SurpassedExcused ==
  ASSUME LaneTypeOK, Carried, Headed, Numbered, NEW k \in Keys, Live(k), Surpassed(k)
  PROVE  Excused(items[k].carries)
<1>1. PICK c \in Keys : c = items[k].carries
  BY LiveItem
<1>2. PICK t \in Targets : t = results[c].target
  BY <1>1, LiveItem DEF Of
<1>3. results[c].source < heads[t] /\ results[c].source \in 0..MaxRevision /\ heads[t] \in 0..MaxRevision
  BY <1>1, <1>2, ClaimedResult DEF Surpassed, Of, LaneTypeOK
<1>4. PICK j \in Heard : results[j].target = t /\ results[j].source >= heads[t]
  BY <1>3, LaneAssumption DEF Headed, HeadOf
<1>5. j \in Keys
  BY DEF Heard, LaneTypeOK, History
<1>6. results[j].source > results[c].source
  BY <1>3, <1>4, <1>5, ClaimedResult, LaneAssumption
<1>7. QED
  BY <1>1, <1>2, <1>4, <1>6, SourceExcuses

LEMMA PublishedExcuses ==
  ASSUME NEW c, Twins(c) \cap given.published # {}
  PROVE  Excused(c)
  BY DEF Excused, Passed, Yielded

LEMMA ReceiptExcuses ==
  ASSUME LaneTypeOK, Carried, Receipted, NEW k \in Keys, Live(k), NEW p \in receipts, p.fence = k
  PROVE  Excused(items[k].carries)
<1>1. PICK c \in Keys : c = items[k].carries
  BY LiveItem
<1>2. Claimed(k) /\ c \in Twins(k)
  BY <1>1 DEF Carried, Carries
<1>3. Twins(c) = Twins(k)
  BY <1>2 DEF Twins
<1>4. Twins(k) \cap given.published # {}
  BY DEF Receipted, Founded
<1>5. QED
  BY <1>1, <1>3, <1>4, PublishedExcuses

LEMMA CanonicalExcuses ==
  ASSUME LaneTypeOK, Carried, Headed, NEW k \in Keys, Live(k),
         Of(k).serial < canonical[Of(k).target].serial
  PROVE  Excused(items[k].carries)
<1>1. PICK c \in Keys : c = items[k].carries
  BY LiveItem
<1>2. PICK t \in Targets : t = results[c].target
  BY <1>1, LiveItem DEF Of
<1>3. results[c].serial < canonical[t].serial /\ results[c].serial \in Nat /\ canonical[t].serial \in Nat
  BY <1>1, <1>2, ClaimedResult DEF Of, LaneTypeOK
<1>4. PICK j \in given.published : results[j].target = t /\ results[j].serial = canonical[t].serial
  BY <1>3 DEF Headed, CanonicalOf
<1>5. j \in Heard /\ results[j].target = results[c].target /\ results[j].serial > results[c].serial
  BY <1>2, <1>3, <1>4 DEF Heard
<1>6. QED
  BY <1>1, <1>5 DEF Excused, Passed, Overtakes, Yielded, Newer

-----------------------------------------------------------------------------
(* What a step may publish, take, give up, deliver and raise.                  *)

\* A batch publishes what it owns.
BatchPublishes(k, r) ==
  /\ Live(k) /\ ~Surpassed(k) /\ AcceptPlan(k, r, items[k].carries)
  /\ UNCHANGED <<reviews, results, sent, items, heads, letters>>

Recordless == UNCHANGED <<receipts, canonical>> /\ given'.published = given.published

LEMMA PublishItemRecords ==
  ASSUME LaneTypeOK, Carried, NEW b \in BatchIds, NEW f \in workers[b].manifest, PublishItem(b, f)
  PROVE  \/ UNCHANGED <<receipts, canonical, given>>
         \/ \E k \in Keys : \E r \in Nat : BatchPublishes(k, r)
<1>1. f.item \in Keys /\ f.revision \in Nat /\ UNCHANGED <<reviews, results, sent, items, heads, letters>>
  BY PublishItemResult
<1>2. UNCHANGED <<receipts, canonical, given>> \/ \E a : Publishes(f, a)
  BY PublishItemResult
<1>3. ASSUME NEW a, Publishes(f, a)
      PROVE  BatchPublishes(f.item, f.revision)
  BY <1>1, <1>3, PublishesResult DEF Publishes, BatchPublishes
<1>4. QED
  BY <1>1, <1>2, <1>3

LEMMA FetchRecords ==
  ASSUME LaneTypeOK, IInv, Granted, Carried, NEW b \in BatchIds, Fetches(b)
  PROVE  Recordless /\ given'.taken = given.taken
<1>1. Fetch(b) /\ UNCHANGED <<receipts, canonical>>
  BY DEF Fetches, Load, Commit, Acknowledge
<1>2. given'.taken = given.taken /\ given'.published = given.published
  BY <1>1, FetchResult
<1>3. QED
  BY <1>1, <1>2 DEF Recordless

LEMMA SettlingRecords ==
  ASSUME LaneTypeOK, IInv, Granted, Manifests, Carried, NEW b \in BatchIds, Settling(b)
  PROVE  Recordless /\ given'.taken = given.taken /\ UNCHANGED <<results, sent, heads>>
<1>1. PICK fences \in SUBSET Fences :
        (\A f, g \in fences : f.item = g.item => f = g) /\ CompleteBatch(b, fences)
  BY SettlingResult
<1>2. /\ SettledBy(b, fences) \in SUBSET {k \in Keys : Live(k)}
      /\ FinishItems(SettledBy(b, fences), Kind(b), RevisionOf(fences))
      /\ UNCHANGED <<results, sent, heads, receipts, canonical, faults>>
  BY <1>1, CompleteBatchResult
<1>3. given'.taken = given.taken /\ given'.published = given.published
  BY <1>2, FinishItemsGiven
<1>4. QED
  BY <1>2, <1>3 DEF Recordless

\* The other steps of a publisher.
Quiet(b) == (Moves(b) /\ ~Settling(b)) \/ Prepare(b) \/ NewRun(b)

LEMMA QuietKeeps ==
  ASSUME NEW b \in BatchIds, Quiet(b)
  PROVE  UNCHANGED <<reviews, results, sent, items, heads, receipts, canonical, letters, given>>
  BY DEF Quiet, Moves, Settling, ClaimBatch, LostLease, Crash, Prepare, NewRun

\* The cases of a step, with those of a publisher sorted by what they touch.
LEMMA RecordCases ==
  ASSUME [LaneNext]_allVars
  PROVE  \/ UNCHANGED <<reviews, results, sent, items, heads, receipts, canonical, letters, given>>
         \/ \E t \in Targets : ReviewLane(t) \/ DirectPublish(t)
         \/ \E k \in Keys : Deliver(k)
         \/ \E k \in Keys, r \in Revisions : \/ ReplayDeadLetter(k, r) \/ RecoverFresh(k, r)
                                             \/ ResolveDeadLetter(k, r)
         \/ PruneStale
         \/ \E b \in BatchIds : Fetches(b) \/ Settling(b)
         \/ \E b \in BatchIds : \E f \in workers[b].manifest : PublishItem(b, f)
<1>1. ASSUME Idling
      PROVE  UNCHANGED <<reviews, results, sent, items, heads, receipts, canonical, letters, given>>
  BY <1>1 DEF Idling, laneVars
<1>2. ASSUME NEW b \in BatchIds, Moves(b) \/ Prepare(b) \/ NewRun(b)
      PROVE  \/ UNCHANGED <<reviews, results, sent, items, heads, receipts, canonical, letters, given>>
             \/ Settling(b)
  BY <1>2, QuietKeeps DEF Quiet
<1>3. QED
  BY <1>1, <1>2, LaneCases

LEMMA RecordSteps ==
  ASSUME QueueInv, [LaneNext]_allVars
  PROVE  \/ Recordless
         \/ \E t \in Targets : DirectPublish(t)
         \/ \E k \in Keys : \E r \in Nat : BatchPublishes(k, r)
<1>1. LaneTypeOK /\ IInv /\ Granted /\ Manifests /\ Carried
  BY DEF QueueInv
<1>2. ASSUME NEW t \in Targets, ReviewLane(t)
      PROVE  Recordless
  BY <1>2, ReviewLaneKeeps DEF Recordless
<1>3. ASSUME NEW k \in Keys, Deliver(k)
      PROVE  Recordless
  <2>1. given'.published = given.published
    BY <1>1, <1>3, DeliverRefusedResult, DeliverDuplicateResult, DeliverNewResult DEF Deliver, QueueInv
  <2>2. UNCHANGED <<receipts, canonical>>
    BY <1>3 DEF Deliver, DeliverRefused, DeliverDuplicate, DeliverNew, MayDeliver
  <2>3. QED
    BY <2>1, <2>2 DEF Recordless
<1>4. ASSUME NEW k \in Keys, NEW r \in Revisions,
             ReplayDeadLetter(k, r) \/ RecoverFresh(k, r) \/ ResolveDeadLetter(k, r)
      PROVE  Recordless
  BY <1>4 DEF ReplayDeadLetter, RecoverFresh, ResolveDeadLetter, Recordless
<1>5. ASSUME PruneStale
      PROVE  Recordless
  BY <1>1, <1>5, PruneStaleResult DEF Recordless
<1>6. ASSUME NEW b \in BatchIds, Fetches(b) \/ Settling(b)
      PROVE  Recordless
  BY <1>1, <1>6, FetchRecords, SettlingRecords
<1>7. ASSUME NEW b \in BatchIds, NEW f \in workers[b].manifest, PublishItem(b, f)
      PROVE  Recordless \/ \E k \in Keys : \E r \in Nat : BatchPublishes(k, r)
  BY <1>1, <1>7, PublishItemRecords DEF Recordless
<1>8. ASSUME UNCHANGED <<receipts, canonical, given>>
      PROVE  Recordless
  BY <1>8 DEF Recordless
<1>9. QED
  BY <1>2, <1>3, <1>4, <1>5, <1>6, <1>7, <1>8, RecordCases

\* A delivery is refused for a newer source, or what it delivers is taken.
Accepts(k) ==
  /\ MayDeliver(k) /\ results[k].source = NewestSource(results[k].target, results[k].source)
  /\ given'.taken = given.taken \cup {k}

LEMMA DeliverOutcome ==
  ASSUME LaneTypeOK, Carried, Counted, NEW k \in Keys, Deliver(k)
  PROVE  /\ MayDeliver(k)
         /\ Accepts(k) \/ (DeliverRefused(k) /\ given'.taken = given.taken)
<1>1. ASSUME DeliverRefused(k)
      PROVE  MayDeliver(k) /\ given'.taken = given.taken
  BY <1>1, DeliverRefusedResult
<1>2. ASSUME DeliverDuplicate(k)
      PROVE  Accepts(k)
  BY <1>2, DeliverDuplicateResult DEF Accepts
<1>3. ASSUME DeliverNew(k)
      PROVE  Accepts(k)
  BY <1>3, DeliverNewResult DEF Accepts
<1>4. QED
  BY <1>1, <1>2, <1>3 DEF Deliver, Accepts

\* Only a delivery takes a result and raises a head.
LEMMA DeliverySteps ==
  ASSUME QueueInv, [LaneNext]_allVars
  PROVE  \/ given'.taken = given.taken /\ heads' = heads
            /\ (sent' = sent \/ \E t \in Targets : DirectPublish(t))
         \/ \E k \in Keys : Deliver(k)
<1>1. LaneTypeOK /\ IInv /\ Granted /\ Manifests /\ Carried
  BY DEF QueueInv
<1> DEFINE Rest == given'.taken = given.taken /\ heads' = heads /\ sent' = sent
<1>2. ASSUME NEW t \in Targets, ReviewLane(t)
      PROVE  Rest
  BY <1>2, ReviewLaneKeeps
<1>3. ASSUME NEW t \in Targets, DirectPublish(t)
      PROVE  given'.taken = given.taken /\ heads' = heads
  BY <1>1, <1>3 DEF DirectPublish, AcceptPlan, LaneTypeOK, History
<1>4. ASSUME NEW k \in Keys, NEW r \in Revisions,
             ReplayDeadLetter(k, r) \/ RecoverFresh(k, r) \/ ResolveDeadLetter(k, r)
      PROVE  Rest
  BY <1>4 DEF ReplayDeadLetter, RecoverFresh, ResolveDeadLetter
<1>5. ASSUME PruneStale
      PROVE  Rest
  BY <1>1, <1>5, PruneStaleResult
<1>6. ASSUME NEW b \in BatchIds, Fetches(b) \/ Settling(b)
      PROVE  Rest
  BY <1>1, <1>6, FetchRecords, SettlingRecords DEF Fetches, Load, Commit, Acknowledge
<1>7. ASSUME NEW b \in BatchIds, NEW f \in workers[b].manifest, PublishItem(b, f)
      PROVE  Rest
  <2>1. UNCHANGED <<sent, heads>> /\ (UNCHANGED given \/ \E a : Publishes(f, a))
    BY <1>1, <1>7, PublishItemResult
  <2>2. ASSUME NEW a, Publishes(f, a)
        PROVE  given'.taken = given.taken
    BY <1>1, <2>2 DEF Publishes, AcceptPlan, LaneTypeOK, History
  <2>3. QED
    BY <2>1, <2>2
<1>8. ASSUME UNCHANGED <<sent, heads, given>>
      PROVE  Rest
  BY <1>8
<1>9. QED
  BY <1>2, <1>3, <1>4, <1>5, <1>6, <1>7, <1>8, RecordCases

-----------------------------------------------------------------------------
(* Receipts.                                                                   *)

\* What acceptance does to the receipts and the canonical records.
AcceptedAs(fence, r, k, p) ==
  /\ receipts' = receipts \cup {p} /\ p.fence = fence /\ p.revision = r
  /\ \/ /\ k \in given'.published
        /\ canonical' = [canonical EXCEPT ![results[k].target] =
                           [serial |-> results[k].serial, source |-> results[k].source]]
     \/ NewerReceipts(fence, r) # {} /\ canonical' = canonical

LEMMA Accepting ==
  ASSUME LaneTypeOK, NEW fence \in Keys \cup Targets, NEW r \in Nat, NEW k \in Keys, Claimed(k),
         AcceptPlan(fence, r, k)
  PROVE  \E p : AcceptedAs(fence, r, k, p)
<1> DEFINE outcome == IF NewerReceipts(fence, r) # {} THEN "superseded" ELSE "published"
           p == [fence |-> fence, revision |-> r, outcome |-> outcome]
<1>1. receipts' = receipts \cup {p}
  BY DEF AcceptPlan
<1>2. p.fence = fence /\ p.revision = r
  OBVIOUS
<1>3. CASE NewerReceipts(fence, r) = {}
  <2>1. canonical' = [canonical EXCEPT ![results[k].target] =
                        [serial |-> results[k].serial, source |-> results[k].source]]
    BY <1>3 DEF AcceptPlan
  <2>2. given'.published = given.published \cup {k}
    BY <1>3 DEF AcceptPlan, LaneTypeOK, History
  <2> HIDE DEF p
  <2>3. QED
    BY <1>1, <1>2, <2>1, <2>2 DEF AcceptedAs
<1>4. CASE NewerReceipts(fence, r) # {}
  <2>1. canonical' = canonical
    BY <1>4 DEF AcceptPlan
  <2> HIDE DEF p
  <2>2. QED
    BY <1>1, <1>2, <1>4, <2>1 DEF AcceptedAs
<1>5. QED
  BY <1>3, <1>4

LEMMA FoundedStays ==
  ASSUME LaneTypeOK, Grows, Histories, Receipted, NEW p \in receipts
  PROVE  Founded(p)'
<1>1. Founded(p) /\ given.published \subseteq given'.published
  BY DEF Receipted, Grows
<1>2. ASSUME p.fence \in Keys
      PROVE  (Claimed(p.fence) /\ Twins(p.fence) \cap given.published # {})'
  <2>1. Claimed(p.fence) /\ \E j : j \in Twins(p.fence) \cap given.published
    BY <1>1, <1>2 DEF Founded
  <2>2. PICK j : j \in Twins(p.fence) \cap given.published
    BY <2>1
  <2>3. j \in Twins(p.fence)' /\ Claimed(p.fence)'
    BY <1>2, <2>1, <2>2, TwinsStay, ClaimedStays
  <2>4. QED
    BY <1>1, <2>2, <2>3
<1>3. ASSUME p.fence \in Targets
      PROVE  \E j \in given'.published : results'[j].target = p.fence /\ results'[j].source >= p.revision
  <2>1. PICK j \in given.published : results[j].target = p.fence /\ results[j].source >= p.revision
    BY <1>1, <1>3 DEF Founded
  <2>2. results'[j] = results[j]
    BY <2>1, HeardStays DEF Heard
  <2>3. QED
    BY <1>1, <2>1, <2>2
<1>4. QED
  BY <1>2, <1>3 DEF Founded

\* A newer receipt of a target is of a published review of a later source.
LEMMA NewerFounds ==
  ASSUME LaneTypeOK, Receipted, NEW t \in Targets, NEW r \in Nat, NewerReceipts(t, r) # {}
  PROVE  \E j \in given.published : results[j].target = t /\ results[j].source >= r
<1>1. PICK p \in receipts : p.fence = t /\ p.revision > r
  BY DEF NewerReceipts
<1>2. PICK j \in given.published : results[j].target = t /\ results[j].source >= p.revision
  BY <1>1 DEF Receipted, Founded
<1>3. p.revision \in Nat /\ results[j].source \in 0..MaxRevision
  BY ClaimedResult DEF LaneTypeOK, Receipt, History
<1>4. QED
  BY <1>1, <1>2, <1>3, LaneAssumption

\* A direct publication leaves a published review of at least its source.
LEMMA DirectFounds ==
  ASSUME LaneTypeOK, Running, Histories, Receipted, Grows, NEW t \in Targets, DirectPublish(t)
  PROVE  /\ ~Queued(t)'
         /\ \E p : AcceptedAs(t, reviews[t].revision, reviews[t].run, p)
         /\ reviews[t].run \in Keys /\ results[reviews[t].run].target = t
         /\ results' = results
         /\ \E j \in given'.published :
              results[j].target = t /\ results[j].source >= reviews[t].revision
<1>1. /\ reviews[t].run \in Keys /\ Claimed(reviews[t].run) /\ reviews[t].revision \in Nat
      /\ results[reviews[t].run].target = t /\ results[reviews[t].run].source = reviews[t].revision
      /\ AcceptPlan(t, reviews[t].revision, reviews[t].run) /\ UNCHANGED results
  BY DirectPublishResult
<1>2. PICK r, k : r = reviews[t].revision /\ k = reviews[t].run
  OBVIOUS
<1>3. PICK p : AcceptedAs(t, r, k, p)
  BY <1>1, <1>2, Accepting
<1>4. ~Queued(t)'
  BY <1>3 DEF AcceptedAs, Queued
<1>5. \E j \in given'.published : results[j].target = t /\ results[j].source >= r
  <2>1. CASE k \in given'.published
    BY <1>1, <1>2, <2>1
  <2>2. CASE NewerReceipts(t, r) # {}
    BY <1>1, <1>2, <2>2, NewerFounds DEF Grows
  <2>3. QED
    BY <1>3, <2>1, <2>2 DEF AcceptedAs
<1>6. QED
  BY <1>1, <1>2, <1>3, <1>4, <1>5

\* The publication of a batch accepts the result that its item carries.
LEMMA BatchAccepts ==
  ASSUME LaneTypeOK, Carried, Histories, NEW k \in Keys, NEW r \in Nat, BatchPublishes(k, r)
  PROVE  \E c \in Keys : /\ c = items[k].carries /\ Claimed(k) /\ Claimed(c)
                         /\ c \in Twins(k) /\ c \in given.taken
                         /\ \E p : AcceptedAs(k, r, c, p)
<1>1. PICK c \in Keys : c = items[k].carries /\ Claimed(k) /\ Claimed(c) /\ c \in given.taken
  BY LiveItem DEF BatchPublishes
<1>2. c \in Twins(k)
  BY <1>1 DEF BatchPublishes, Carried, Carries
<1>3. \E p : AcceptedAs(k, r, c, p)
  BY <1>1, Accepting DEF BatchPublishes
<1>4. QED
  BY <1>1, <1>2, <1>3

LEMMA ReceiptedStays ==
  ASSUME QueueInv, Histories, Receipted, [LaneNext]_allVars
  PROVE  Receipted'
<1>1. LaneTypeOK /\ Carried /\ Running /\ Grows
  BY TypesStay DEF QueueInv, Typed
<1>2. \A p \in receipts : Founded(p)'
  BY <1>1, FoundedStays
<1>3. CASE Recordless
  BY <1>2, <1>3 DEF Recordless, Receipted
<1>4. ASSUME NEW t \in Targets, DirectPublish(t)
      PROVE  Receipted'
  <2>1. PICK p : AcceptedAs(t, reviews[t].revision, reviews[t].run, p)
    BY <1>1, <1>4, DirectFounds
  <2>2. p.fence = t /\ p.revision = reviews[t].revision /\ receipts' = receipts \cup {p}
    BY <2>1 DEF AcceptedAs
  <2>3. results' = results /\ \E j \in given'.published :
          results[j].target = t /\ results[j].source >= reviews[t].revision
    BY <1>1, <1>4, DirectFounds
  <2>4. t \notin Keys
    BY LaneAssumption
  <2>5. Founded(p)'
    BY <2>2, <2>3, <2>4 DEF Founded
  <2>6. QED
    BY <1>2, <2>2, <2>5 DEF Receipted
<1>5. ASSUME NEW k \in Keys, NEW r \in Nat, BatchPublishes(k, r)
      PROVE  Receipted'
  <2>1. PICK c \in Keys : /\ c = items[k].carries /\ Claimed(k) /\ Claimed(c) /\ c \in Twins(k)
                          /\ \E p : AcceptedAs(k, r, c, p)
    BY <1>1, <1>5, BatchAccepts
  <2>2. PICK p : AcceptedAs(k, r, c, p)
    BY <2>1
  <2>3. p.fence = k /\ receipts' = receipts \cup {p}
    BY <2>2 DEF AcceptedAs
  <2>4. \E j \in Twins(k) : j \in given'.published
    <3>1. CASE c \in given'.published
      BY <2>1, <3>1
    <3>2. CASE NewerReceipts(k, r) # {}
      <4>1. PICK q \in receipts : q.fence = k
        BY <3>2 DEF NewerReceipts
      <4>2. QED
        BY <1>1, <4>1 DEF Receipted, Founded, Grows
    <3>3. QED
      BY <2>2, <3>1, <3>2 DEF AcceptedAs
  <2>5. k \notin Targets
    BY LaneAssumption
  <2>6. Claimed(k)' /\ \A j \in Twins(k) : j \in Twins(k)'
    BY <1>1, <2>1, TwinsStay, ClaimedStays
  <2>7. Founded(p)'
    BY <2>3, <2>4, <2>5, <2>6 DEF Founded
  <2>8. QED
    BY <1>2, <2>3, <2>7 DEF Receipted
<1>6. QED
  BY <1>3, <1>4, <1>5, RecordSteps

-----------------------------------------------------------------------------
(* Heads and canonical records.                                                *)

LEMMA HeadsGrow ==
  ASSUME QueueInv, [LaneNext]_allVars, NEW t \in Targets
  PROVE  heads[t] <= heads'[t] /\ heads[t] \in Nat /\ heads'[t] \in Nat
<1>1. LaneTypeOK /\ Carried /\ Counted /\ LaneTypeOK'
  BY TypesStay DEF QueueInv, Typed
<1>2. heads[t] \in Nat /\ heads'[t] \in Nat
  BY <1>1, LaneAssumption DEF LaneTypeOK
<1>3. ASSUME NEW k \in Keys, Deliver(k)
      PROVE  heads[t] <= heads'[t]
  <2>1. MayDeliver(k)
    BY <1>1, <1>3, DeliverOutcome
  <2>2. PICK u \in Targets, n \in 0..MaxRevision :
          heads' = [heads EXCEPT ![u] = n] /\ heads[u] <= n
    BY <1>1, <2>1, MayDeliverResult
  <2>3. QED
    BY <1>1, <1>2, <2>2 DEF LaneTypeOK
<1>4. QED
  BY <1>2, <1>3, DeliverySteps

\* A delivery raises the head of its target to what it delivers, or refuses it for
\* what the queue knows already.
LEMMA HeadSteps ==
  ASSUME LaneTypeOK, Carried, Counted, NEW k \in Keys, Deliver(k), NEW t \in Targets
  PROVE  /\ Claimed(k)
         /\ results[k].source <= heads'[t] \/ results[k].target # t
         /\ \/ heads'[t] = heads[t]
            \/ /\ results[k].target = t
               /\ \/ heads'[t] = results[k].source /\ k \in given'.taken
                  \/ heads'[t] \in Sources(t) \cup FinishingSource(t)
<1>1. MayDeliver(k)
  BY DeliverOutcome
<1>2. PICK u \in Targets : u = results[k].target
  BY <1>1, MayDeliverResult
<1>3. PICK n : n = NewestSource(u, results[k].source)
  OBVIOUS
<1>4. /\ Claimed(k) /\ heads' = [heads EXCEPT ![u] = n] /\ results[k].source <= n
      /\ n \in Known(u, results[k].source)
  BY <1>1, <1>2, <1>3, MayDeliverResult
<1>5. heads'[t] = IF t = u THEN n ELSE heads[t]
  BY <1>4 DEF LaneTypeOK
<1>6. Accepts(k) => n = results[k].source /\ k \in given'.taken
  BY <1>2, <1>3 DEF Accepts
<1>7. ~Accepts(k) => n # results[k].source
  <2>1. DeliverRefused(k) => results[k].source < n
    BY <1>2, <1>3, DeliverRefusedResult
  <2>2. results[k].source \in 0..MaxRevision
    BY ClaimedResult
  <2>3. QED
    BY <2>1, <2>2, LaneAssumption, DeliverOutcome
<1>8. QED
  BY <1>2, <1>4, <1>5, <1>6, <1>7 DEF Known

LEMMA HeadOfStays ==
  ASSUME QueueInv, Histories, Headed, Finishing, [LaneNext]_allVars, NEW t \in Targets
  PROVE  HeadOf(t)'
<1>1. LaneTypeOK /\ Carried /\ Counted /\ Grows
  BY TypesStay DEF QueueInv, Typed
<1>2. Queued(t)' => Queued(t)
  BY <1>1, QueuedBefore
<1>3. ASSUME NEW j \in Heard, results[j].target = t, results[j].source >= heads'[t],
             Queued(t)' => j \in given.taken
      PROVE  HeadOf(t)'
  BY <1>1, <1>3, HeardStays DEF HeadOf, Grows
<1>4. CASE heads'[t] = heads[t]
  BY <1>2, <1>3, <1>4 DEF Headed, HeadOf
<1>5. ASSUME NEW k \in Keys, Deliver(k), heads'[t] # heads[t]
      PROVE  HeadOf(t)'
  <2>1. results[k].target = t /\ Claimed(k)
    BY <1>1, <1>5, HeadSteps
  <2>2. CASE heads'[t] = results[k].source /\ k \in given'.taken
    <3>1. results'[k] = results[k] /\ results[k].source \in 0..MaxRevision
      BY <1>1, <2>1, ClaimedStays, ClaimedResult
    <3>2. k \in Heard' /\ results'[k].source >= heads'[t]
      BY <2>2, <3>1, LaneAssumption DEF Heard
    <3>3. QED
      BY <2>1, <2>2, <3>1, <3>2 DEF HeadOf
  <2>3. CASE heads'[t] \in Sources(t)
    <3>1. PICK i \in Keys : Live(i) /\ Of(i).target = t /\ Of(i).source = heads'[t]
      BY <2>3 DEF Sources
    <3>2. PICK c \in Keys : c = items[i].carries /\ c \in given.taken
      BY <1>1, <3>1, LiveItem
    <3>3. results[c].target = t /\ results[c].source = heads'[t] /\ results[c].source \in 0..MaxRevision
      BY <1>1, <3>1, <3>2, ClaimedResult DEF Of
    <3>4. results[c].source >= heads'[t]
      BY <3>3, LaneAssumption
    <3>5. QED
      BY <1>3, <3>2, <3>3, <3>4 DEF Heard
  <2>4. CASE heads'[t] \in FinishingSource(t)
    <3>1. reviews[t].state = "finishing" /\ heads'[t] = reviews[t].leaseRevision
      BY <2>4 DEF FinishingSource
    <3>2. PICK j \in given.published : results[j].target = t /\ results[j].source >= heads'[t]
      BY <3>1 DEF Finishing
    <3>3. ~Queued(t)'
      BY <1>2, <3>1 DEF Finishing
    <3>4. QED
      BY <1>3, <3>2, <3>3 DEF Heard
  <2>5. QED
    BY <1>1, <1>5, <2>2, <2>3, <2>4, HeadSteps
<1>6. QED
  BY <1>4, <1>5, DeliverySteps

LEMMA CanonicalOfStays ==
  ASSUME QueueInv, Histories, Receipted, Headed, [LaneNext]_allVars, NEW t \in Targets
  PROVE  CanonicalOf(t)'
<1>1. LaneTypeOK /\ Carried /\ Running /\ Grows /\ LaneTypeOK'
  BY TypesStay DEF QueueInv, Typed
<1>2. heads[t] <= heads'[t] /\ heads[t] \in Nat /\ heads'[t] \in Nat
  BY HeadsGrow
<1>3. canonical[t].source \in Nat
  BY <1>1, LaneAssumption DEF LaneTypeOK
<1>4. CASE canonical'[t] = canonical[t]
  <2>1. Queued(t)' => canonical'[t].source <= heads'[t]
    BY <1>1, <1>2, <1>3, <1>4, QueuedBefore DEF Headed, CanonicalOf
  <2>2. ASSUME canonical'[t].serial > 0
        PROVE  \E j \in given'.published :
                 results'[j].target = t /\ results'[j].serial = canonical'[t].serial
    <3>1. PICK j \in given.published : results[j].target = t /\ results[j].serial = canonical[t].serial
      BY <1>4, <2>2 DEF Headed, CanonicalOf
    <3>2. results'[j] = results[j] /\ j \in given'.published
      BY <1>1, <3>1, HeardStays DEF Heard, Grows
    <3>3. QED
      BY <1>4, <3>1, <3>2
  <2>3. QED
    BY <2>1, <2>2 DEF CanonicalOf
<1>5. ASSUME NEW k \in Keys, Claimed(k), results[k].target = t, k \in given'.published,
             canonical' = [canonical EXCEPT ![results[k].target] =
                             [serial |-> results[k].serial, source |-> results[k].source]],
             Queued(t)' => results[k].source <= heads'[t]
      PROVE  CanonicalOf(t)'
  <2>1. canonical'[t].serial = results[k].serial /\ canonical'[t].source = results[k].source
    BY <1>1, <1>5 DEF LaneTypeOK
  <2>2. results'[k] = results[k]
    BY <1>1, <1>5, ClaimedStays
  <2>3. QED
    BY <1>5, <2>1, <2>2 DEF CanonicalOf
<1>6. ASSUME NEW u \in Targets, NEW s, canonical' = [canonical EXCEPT ![u] = s], u # t
      PROVE  canonical'[t] = canonical[t]
  BY <1>1, <1>6 DEF LaneTypeOK
<1>7. ASSUME NEW u \in Targets, DirectPublish(u)
      PROVE  CanonicalOf(t)'
  <2>1. PICK k \in Keys : k = reviews[u].run /\ results[k].target = u
    BY <1>1, <1>7, DirectFounds
  <2>2. Claimed(k)
    BY <1>1, <2>1, ClaimedResult
  <2>3. PICK p : AcceptedAs(u, reviews[u].revision, k, p)
    BY <1>1, <1>7, <2>1, DirectFounds
  <2>4. ~Queued(u)'
    BY <1>1, <1>7, DirectFounds
  <2>5. CASE canonical' = canonical
    BY <1>4, <2>5
  <2>6. CASE /\ k \in given'.published
             /\ canonical' = [canonical EXCEPT ![results[k].target] =
                                [serial |-> results[k].serial, source |-> results[k].source]]
    <3>1. CASE u = t
      BY <1>5, <2>1, <2>2, <2>4, <2>6, <3>1
    <3>2. CASE u # t
      BY <1>4, <1>6, <2>1, <2>6, <3>2
    <3>3. QED
      BY <3>1, <3>2
  <2>7. QED
    BY <2>3, <2>5, <2>6 DEF AcceptedAs
<1>8. ASSUME NEW k \in Keys, NEW r \in Nat, BatchPublishes(k, r)
      PROVE  CanonicalOf(t)'
  <2>1. PICK c \in Keys : Claimed(c) /\ c \in given.taken /\ \E p : AcceptedAs(k, r, c, p)
    BY <1>1, <1>8, BatchAccepts
  <2>2. PICK p : AcceptedAs(k, r, c, p)
    BY <2>1
  <2>3. results[c].target \in Targets /\ results[c].source \in Nat
    BY <1>1, <2>1, ClaimedResult, LaneAssumption
  <2>4. results[c].target = t => results[c].source <= heads'[t]
    BY <1>2, <2>1, <2>3 DEF Histories
  <2>5. CASE canonical' = canonical
    BY <1>4, <2>5
  <2>6. CASE /\ c \in given'.published
             /\ canonical' = [canonical EXCEPT ![results[c].target] =
                                [serial |-> results[c].serial, source |-> results[c].source]]
    <3>1. CASE results[c].target = t
      BY <1>5, <2>1, <2>4, <2>6, <3>1
    <3>2. CASE results[c].target # t
      BY <1>4, <1>6, <2>3, <2>6, <3>2
    <3>3. QED
      BY <3>1, <3>2
  <2>7. QED
    BY <2>2, <2>5, <2>6 DEF AcceptedAs
<1>9. CASE Recordless
  BY <1>4, <1>9 DEF Recordless
<1>10. QED
  BY <1>7, <1>8, <1>9, RecordSteps

-----------------------------------------------------------------------------
(* The review of a target, and the order of its runs.                          *)

LEMMA ReviewLaneLocal ==
  ASSUME LaneTypeOK, NEW u \in Targets, ReviewLane(u), NEW t \in Targets, t # u
  PROVE  reviews'[t] = reviews[t]
<1>1. ASSUME NEW q, reviews' = [reviews EXCEPT ![u] = q]
      PROVE  reviews'[t] = reviews[t]
  BY <1>1 DEF LaneTypeOK
<1>2. CASE ReviewEvent(u)
  BY <1>1, <1>2, ReviewEventResult
<1>3. CASE LoseReview(u)
  BY <1>1, <1>3, LoseReviewResult
<1>4. CASE CompleteReview(u)
  BY <1>1, <1>4, CompleteReviewResult
<1>5. ASSUME NEW k \in Keys, ClaimReview(u, k)
      PROVE  reviews'[t] = reviews[t]
  BY <1>1, <1>5, ClaimReviewResult
<1>6. QED
  BY <1>2, <1>3, <1>4, <1>5 DEF ReviewLane

\* What may become of a review: its own lane moves it, its run publishes, or it is
\* asked for anew.
LEMMA ReviewMoves ==
  ASSUME QueueInv, [LaneNext]_allVars, NEW t \in Targets
  PROVE  \/ reviews'[t] = reviews[t]
         \/ ReviewLane(t) \/ DirectPublish(t)
         \/ \E k \in Keys, r \in Revisions : RecoverFresh(k, r) /\ results[k].target = t
         \/ reviews'[t].state = "pending" /\ Returned(t)'
<1>1. LaneTypeOK /\ IInv /\ Granted /\ Manifests /\ Carried /\ Running /\ Grows
  BY TypesStay DEF QueueInv, Typed
<1> DEFINE Goal == \/ reviews'[t] = reviews[t]
                   \/ ReviewLane(t) \/ DirectPublish(t)
                   \/ \E k \in Keys, r \in Revisions : RecoverFresh(k, r) /\ results[k].target = t
                   \/ reviews'[t].state = "pending" /\ Returned(t)'
<1>2. UNCHANGED reviews => Goal
  OBVIOUS
<1>3. ASSUME NEW u \in Targets, ReviewLane(u) \/ DirectPublish(u)
      PROVE  Goal
  <2>1. CASE u = t
    BY <1>3, <2>1
  <2>2. CASE ReviewLane(u) /\ u # t
    BY <1>1, <2>2, ReviewLaneLocal
  <2>3. CASE DirectPublish(u) /\ u # t
    <3>1. PICK q : reviews' = [reviews EXCEPT ![u] = q]
      BY <2>3 DEF DirectPublish
    <3>2. QED
      BY <1>1, <2>3, <3>1 DEF LaneTypeOK
  <2>4. QED
    BY <1>3, <2>1, <2>2, <2>3
<1>4. ASSUME NEW k \in Keys, NEW r \in Revisions, RecoverFresh(k, r)
      PROVE  Goal
  <2>1. PICK q : reviews' = [reviews EXCEPT ![results[k].target] = q] /\ results[k].target \in Targets
    BY <1>1, <1>4, RecoverReview
  <2>2. CASE results[k].target = t
    BY <1>4, <2>2
  <2>3. CASE results[k].target # t
    <3>1. reviews'[t] = reviews[t]
      BY <1>1, <2>1, <2>3 DEF LaneTypeOK
    <3>2. QED
      BY <3>1
  <2>4. QED
    BY <2>2, <2>3
<1>5. ASSUME NEW k \in Keys, NEW r \in Revisions, ReplayDeadLetter(k, r) \/ ResolveDeadLetter(k, r)
      PROVE  UNCHANGED reviews
  BY <1>5 DEF ReplayDeadLetter, ResolveDeadLetter
<1>6. ASSUME NEW b \in BatchIds, Settling(b)
      PROVE  Goal
  <2>1. PICK fences \in SUBSET Fences :
          (\A f, g \in fences : f.item = g.item => f = g) /\ CompleteBatch(b, fences)
    BY <1>1, <1>6, SettlingResult
  <2>2. /\ SettledBy(b, fences) \in SUBSET {k \in Keys : Live(k)}
        /\ FinishItems(SettledBy(b, fences), Kind(b), RevisionOf(fences))
    BY <1>1, <2>1, CompleteBatchResult
  <2>3. \/ reviews'[t] = reviews[t]
        \/ reviews'[t].state = "pending" /\ RunsOf(t) \cap given'.refreshed # {}
    BY <1>1, <2>2, FinishItemsGiven
  <2>4. RunsOf(t) \subseteq RunsOf(t)'
    BY <1>1, RunsStay
  <2>5. QED
    BY <2>3, <2>4 DEF Returned
<1>7. ASSUME \/ PruneStale
             \/ \E k \in Keys : Deliver(k)
             \/ \E b \in BatchIds : Fetches(b)
             \/ \E b \in BatchIds : \E f \in workers[b].manifest : PublishItem(b, f)
      PROVE  UNCHANGED reviews
  BY <1>7 DEF PruneStale, Deliver, DeliverRefused, DeliverDuplicate, DeliverNew, MayDeliver,
              Fetches, Load, Commit, Acknowledge, PublishItem
<1> HIDE DEF Goal
<1>8. Goal
  BY <1>2, <1>3, <1>4, <1>5, <1>6, <1>7, RecordCases
<1>9. QED
  BY <1>8 DEF Goal

\* A review finishes by direct publication.
LEMMA FinishingOrigin ==
  ASSUME QueueInv, [LaneNext]_allVars, NEW t \in Targets, reviews'[t].state = "finishing"
  PROVE  \/ DirectPublish(t)
         \/ reviews[t].state = "finishing" /\ reviews'[t].leaseRevision = reviews[t].leaseRevision
<1>1. LaneTypeOK /\ Carried
  BY DEF QueueInv
<1>2. ASSUME NEW q, reviews' = [reviews EXCEPT ![t] = q]
      PROVE  reviews'[t] = q
  BY <1>1, <1>2 DEF LaneTypeOK
<1>3. CASE ReviewEvent(t)
  <2>1. PICK q : /\ reviews' = [reviews EXCEPT ![t] = q]
                 /\ q.leaseRevision = reviews[t].leaseRevision
                 /\ q.state = "pending" \/ q.state = reviews[t].state
    BY <1>1, <1>3, ReviewEventResult
  <2>2. QED
    BY <1>2, <2>1
<1>4. CASE LoseReview(t)
  BY <1>1, <1>2, <1>4, LoseReviewResult
<1>5. CASE CompleteReview(t)
  <2>1. PICK q : reviews' = [reviews EXCEPT ![t] = q] /\ q.state \in {"none", "pending"}
    BY <1>1, <1>5, CompleteReviewResult, NoReviewType
  <2>2. QED
    BY <1>2, <2>1
<1>6. ASSUME NEW k \in Keys, ClaimReview(t, k)
      PROVE  FALSE
  <2>1. PICK q : reviews' = [reviews EXCEPT ![t] = q] /\ q.state = "leased"
    BY <1>1, <1>6, ClaimReviewResult
  <2>2. QED
    BY <1>2, <2>1
<1>7. ASSUME NEW k \in Keys, NEW r \in Revisions, RecoverFresh(k, r), results[k].target = t
      PROVE  FALSE
  <2>1. PICK q : reviews' = [reviews EXCEPT ![t] = q] /\ q.state = "pending"
    BY <1>1, <1>7, RecoverReview
  <2>2. QED
    BY <1>2, <2>1
<1>8. QED
  BY <1>3, <1>4, <1>5, <1>6, <1>7, ReviewMoves DEF ReviewLane

LEMMA FinishingStays ==
  ASSUME QueueInv, Histories, Receipted, Finishing, [LaneNext]_allVars
  PROVE  Finishing'
<1>1. LaneTypeOK /\ Running /\ Grows
  BY TypesStay DEF QueueInv, Typed
<1> SUFFICES ASSUME NEW t \in Targets, reviews'[t].state = "finishing"
             PROVE  /\ ~Queued(t)'
                    /\ \E j \in given'.published :
                         results'[j].target = t /\ results'[j].source >= reviews'[t].leaseRevision
  BY DEF Finishing, Queued
<1>2. CASE reviews[t].state = "finishing" /\ reviews'[t].leaseRevision = reviews[t].leaseRevision
  <2>1. PICK j \in given.published : results[j].target = t /\ results[j].source >= reviews[t].leaseRevision
    BY <1>2 DEF Finishing
  <2>2. results'[j] = results[j] /\ j \in given'.published
    BY <1>1, <2>1, HeardStays DEF Heard, Grows
  <2>3. ~Queued(t)'
    BY <1>1, <1>2, QueuedBefore DEF Finishing
  <2>4. QED
    BY <1>2, <2>1, <2>2, <2>3
<1>3. CASE DirectPublish(t)
  <2>1. ~Queued(t)' /\ results' = results /\ \E j \in given'.published :
          results[j].target = t /\ results[j].source >= reviews[t].revision
    BY <1>1, <1>3, DirectFounds
  <2>2. PICK q : /\ reviews' = [reviews EXCEPT ![t] = q]
                 /\ q.leaseRevision = reviews[t].leaseRevision
                 /\ reviews[t].revision = reviews[t].leaseRevision
    BY <1>1, <1>3, DirectPublishResult
  <2>3. reviews'[t].leaseRevision = reviews[t].revision
    BY <1>1, <2>2 DEF LaneTypeOK
  <2>4. QED
    BY <2>1, <2>3
<1>4. QED
  BY <1>2, <1>3, FinishingOrigin

LEMMA RunSteps ==
  ASSUME QueueInv, [LaneNext]_allVars, NEW t \in Targets
  PROVE  RunsOf(t)' = RunsOf(t) \/ \E k \in Keys : ClaimReview(t, k)
<1>1. LaneTypeOK
  BY DEF QueueInv
<1>2. ASSUME NEW u \in Targets, NEW k \in Keys, ClaimReview(u, k), u # t
      PROVE  RunsOf(t)' = RunsOf(t)
  BY <1>1, <1>2, ClaimReviewResult
<1>3. CASE UNCHANGED results
  BY <1>3 DEF RunsOf
<1>4. QED
  BY <1>2, <1>3, ResultSteps

\* Only a delivery or a direct publication marks a run as heard.
LEMMA SentSteps ==
  ASSUME QueueInv, [LaneNext]_allVars, NEW k \in Keys, sent'[k] # sent[k]
  PROVE  /\ Claimed(k)
         /\ Deliver(k) \/ \E t \in Targets : DirectPublish(t) /\ results[k].target = t
<1>1. LaneTypeOK /\ Carried /\ Counted /\ Running
  BY DEF QueueInv
<1>2. ASSUME NEW j \in Keys, Deliver(j)
      PROVE  j = k /\ Claimed(k)
  <2>1. MayDeliver(j)
    BY <1>1, <1>2, DeliverOutcome
  <2>2. sent' = [sent EXCEPT ![j] = sent[j] + 1] /\ Claimed(j)
    BY <1>1, <2>1, MayDeliverResult
  <2>3. QED
    BY <1>1, <2>2 DEF LaneTypeOK
<1>3. ASSUME NEW t \in Targets, DirectPublish(t)
      PROVE  results[k].target = t /\ Claimed(k)
  <2>1. PICK j \in Keys : sent' = [sent EXCEPT ![j] = MaxDeliveries] /\ Claimed(j) /\ results[j].target = t
    BY <1>1, <1>3, DirectPublishResult
  <2>2. k = j
    BY <1>1, <2>1 DEF LaneTypeOK
  <2>3. QED
    BY <2>1, <2>2
<1>4. QED
  BY <1>2, <1>3, DeliverySteps

LEMMA ReachedStays ==
  ASSUME QueueInv, Histories, Numbered, [LaneNext]_allVars, NEW t \in Targets
  PROVE  Reached(t)'
<1>1. LaneTypeOK /\ Carried /\ Counted /\ Running /\ Grows
  BY TypesStay DEF QueueInv, Typed
<1> SUFFICES ASSUME Queued(t)', NEW k \in RunsOf(t)', sent'[k] > 0
             PROVE  results'[k].source <= heads'[t]
  BY DEF Reached
<1>2. k \in Keys /\ Queued(t)
  BY <1>1, QueuedBefore DEF RunsOf
<1>3. sent[k] > 0 \/ sent'[k] # sent[k]
  OBVIOUS
<1>4. Claimed(k)
  BY <1>2, <1>3, SentSteps DEF Histories
<1>5. results'[k] = results[k] /\ k \in RunsOf(t) /\ results[k].source \in Nat
  BY <1>1, <1>2, <1>4, ClaimedStays, ClaimedResult, LaneAssumption DEF RunsOf
<1>6. heads[t] <= heads'[t] /\ heads[t] \in Nat /\ heads'[t] \in Nat
  BY HeadsGrow
<1>7. CASE sent[k] > 0
  BY <1>2, <1>5, <1>6, <1>7 DEF Numbered, Reached
<1>8. CASE Deliver(k)
  BY <1>1, <1>2, <1>5, <1>8, HeadSteps DEF RunsOf
<1>9. ASSUME NEW u \in Targets, DirectPublish(u), results[k].target = u
      PROVE  FALSE
  <2>1. u = t
    BY <1>5, <1>9 DEF RunsOf
  <2>2. ~Queued(t)'
    <3>1. PICK p : AcceptedAs(u, reviews[u].revision, reviews[u].run, p)
      <4>1. reviews[u].run \in Keys /\ Claimed(reviews[u].run) /\ reviews[u].revision \in Nat
            /\ AcceptPlan(u, reviews[u].revision, reviews[u].run)
        BY <1>1, <1>9, DirectPublishResult
      <4>2. QED
        BY <1>1, <4>1, Accepting
    <3>2. QED
      BY <2>1, <3>1 DEF AcceptedAs, Queued
  <2>3. QED
    BY <2>2
<1>10. QED
  BY <1>2, <1>3, <1>7, <1>8, <1>9, SentSteps

LEMMA RunTypes ==
  ASSUME LaneTypeOK, NEW t \in Targets
  PROVE  /\ \A k \in RunsOf(t) : /\ k \in Keys /\ Claimed(k) /\ results[k].target = t
                                 /\ results[k].source \in Nat /\ results[k].serial \in Nat
                                 /\ results[k].generation \in Nat
         /\ reviews[t].revision \in Nat /\ reviews[t].leaseRevision \in Nat
         /\ reviews[t].generation \in Nat /\ heads[t] \in Nat
<1>1. \A k \in RunsOf(t) : /\ k \in Keys /\ Claimed(k) /\ results[k].target = t
                           /\ results[k].source \in 0..MaxRevision /\ results[k].serial \in Nat
                           /\ results[k].generation \in Nat
  BY ClaimedResult DEF RunsOf
<1>2. reviews[t] \in Review /\ heads[t] \in 0..MaxRevision
  BY DEF LaneTypeOK
<1>3. QED
  BY <1>1, <1>2, LaneAssumption DEF Review

LEMMA InOrderStays ==
  ASSUME QueueInv, Numbered, [LaneNext]_allVars, NEW t \in Targets, Trusted(t)'
  PROVE  InOrder(t)'
<1>1. LaneTypeOK /\ Counted /\ Grows
  BY TypesStay DEF QueueInv, Typed
<1>2. InOrder(t) /\ Below(t)
  BY <1>1, TrustedBefore DEF Numbered
<1>3. \A k \in RunsOf(t) : results'[k] = results[k]
  BY <1>1, RunsStay
<1>4. ASSUME NEW j \in RunsOf(t), NEW k \in RunsOf(t)
      PROVE  /\ results'[j].source < results'[k].source => results'[j].serial < results'[k].serial
             /\ j \in Twins(k)' => j = k
  <2>1. results'[j] = results[j] /\ results'[k] = results[k]
    BY <1>3
  <2>2. j \in Twins(k)' => j \in Twins(k)
    BY <2>1 DEF Twins
  <2>3. QED
    BY <1>2, <2>1, <2>2 DEF InOrder
<1>5. CASE RunsOf(t)' = RunsOf(t)
  BY <1>4, <1>5 DEF InOrder
<1>6. ASSUME NEW k \in Keys, ClaimReview(t, k)
      PROVE  InOrder(t)'
  <2>1. reviews[t].state = "pending" /\ RunsOf(t)' = RunsOf(t) \cup {k}
    BY <1>1, <1>6, ClaimReviewResult
  <2>2. PICK res \in Result :
          /\ results' = [results EXCEPT ![k] = res]
          /\ res.target = t /\ res.source = reviews[t].revision
          /\ res.generation = reviews[t].generation + 1
          /\ res.serial = Cardinality(RunsOf(t)) + 1
    BY <1>1, <1>6, ClaimReviewResult
  <2>3. results'[k] = res
    BY <1>1, <2>2 DEF LaneTypeOK
  <2>4. Cardinality(RunsOf(t)) \in Nat
    <3>1. IsFiniteSet(RunsOf(t))
      BY BatchAssumption, FS_Subset DEF RunsOf
    <3>2. QED
      BY <3>1, FS_CardinalityType
  <2>5. ASSUME NEW j \in RunsOf(t)
        PROVE  /\ results'[j].source <= results'[k].source
               /\ results'[j].serial < results'[k].serial
               /\ results'[j].source # results'[k].source \/ results'[j].generation # results'[k].generation
    <3>1. Within(reviews[t], heads[t], results[j]) /\ heads[t] <= reviews[t].revision
      BY <1>2, <2>1 DEF Below
    <3>2. results[j].serial <= Cardinality(RunsOf(t))
      BY <1>1 DEF Counted
    <3>3. results'[j] = results[j] /\ results[j].source \in Nat /\ results[j].serial \in Nat
          /\ results[j].generation \in Nat
          /\ reviews[t].revision \in Nat /\ reviews[t].generation \in Nat /\ heads[t] \in Nat
      BY <1>1, <1>3, RunTypes
    <3>4. QED
      BY <2>1, <2>2, <2>3, <2>4, <3>1, <3>2, <3>3 DEF Within
  <2>6. \A j \in RunsOf(t) : results'[j].source \in Nat /\ results'[j].serial \in Nat
    BY <1>1, <1>3, RunTypes
  <2>7. results'[k].source \in Nat /\ results'[k].serial \in Nat
    BY <1>1, <2>2, <2>3, <2>4, RunTypes
  <2>8. \A j \in RunsOf(t) : /\ ~(results'[k].source < results'[j].source)
                             /\ j \notin Twins(k)' /\ k \notin Twins(j)'
    BY <2>5, <2>6, <2>7 DEF Twins
  <2>9. ASSUME NEW j \in RunsOf(t)', NEW i \in RunsOf(t)'
        PROVE  /\ results'[j].source < results'[i].source => results'[j].serial < results'[i].serial
               /\ j \in Twins(i)' => j = i
    <3>1. CASE j \in RunsOf(t) /\ i \in RunsOf(t)
      BY <1>4, <3>1
    <3>2. CASE j = k /\ i = k
      BY <2>7, <3>2
    <3>3. CASE j \in RunsOf(t) /\ i = k
      BY <2>5, <2>8, <3>3
    <3>4. CASE j = k /\ i \in RunsOf(t)
      BY <2>8, <3>4
    <3>5. QED
      BY <2>1, <3>1, <3>2, <3>3, <3>4
  <2>10. QED
    BY <2>9 DEF InOrder
<1>7. QED
  BY <1>5, <1>6, RunSteps

LEMMA BelowWith ==
  ASSUME LaneTypeOK, Grows, NEW t \in Targets, RunsOf(t)' = RunsOf(t),
         \A k \in RunsOf(t) : Within(reviews'[t], heads'[t], results[k]),
         reviews'[t].state # "none" => heads'[t] <= reviews'[t].revision
  PROVE  Below(t)'
<1>1. \A k \in RunsOf(t) : results'[k] = results[k]
  BY RunsStay
<1>2. \A k \in RunsOf(t)' : Within(reviews'[t], heads'[t], results'[k])
  BY <1>1
<1>3. QED
  BY <1>2 DEF Below, Within

\* The review that stands bounds the sources of its target's runs, as a review
\* event raises its revision above what was published, and a run that completes has
\* delivered.
LEMMA LaneBelow ==
  ASSUME LaneTypeOK, Running, Grows, Finishing, NEW t \in Targets, Queued(t), Reached(t), Below(t),
         heads' = heads, RunsOf(t)' = RunsOf(t),
         ReviewEvent(t) \/ LoseReview(t) \/ CompleteReview(t)
  PROVE  Below(t)'
<1> DEFINE r == reviews[t]
           h == heads[t]
<1>1. \A k \in RunsOf(t) : /\ Within(r, h, results[k])
                           /\ results[k].source \in Nat /\ results[k].generation \in Nat
  BY RunTypes DEF Below
<1>2. r.revision \in Nat /\ r.leaseRevision \in Nat /\ r.generation \in Nat /\ h \in Nat
      /\ r.state \in {"none", "pending", "leased", "finishing"}
  BY RunTypes DEF LaneTypeOK, Review
<1>3. /\ r.state # "finishing"
      /\ r.state # "none" => h <= r.revision
      /\ r.state = "leased" => r.leaseRevision <= r.revision
  BY DEF Finishing, Below, Running
<1>4. ASSUME NEW q \in Review, reviews' = [reviews EXCEPT ![t] = q],
             \A k \in RunsOf(t) : Within(q, h, results[k]),
             q.state # "none" => h <= q.revision
      PROVE  Below(t)'
  <2>1. reviews'[t] = q
    BY <1>4 DEF LaneTypeOK
  <2>2. QED
    BY <1>4, <2>1, BelowWith
<1>5. \A q \in Review : q.revision \in Nat /\ q.leaseRevision \in Nat /\ q.generation \in Nat
  BY LaneAssumption DEF Review
<1>6. CASE ReviewEvent(t)
  <2>1. PICK q \in Review :
          /\ reviews' = [reviews EXCEPT ![t] = q]
          /\ q.revision > r.revision /\ q.revision > h
          /\ q.leaseRevision = r.leaseRevision /\ q.generation = r.generation
          /\ \/ q.state = "pending"
             \/ q.state = r.state /\ q.state \in {"leased", "finishing"}
    BY <1>6, ReviewEventResult
  <2> HIDE DEF r, h
  <2>2. ASSUME NEW k \in RunsOf(t)
        PROVE  Within(q, h, results[k])
    BY <1>1, <1>2, <1>3, <1>5, <2>1 DEF Within
  <2>3. h <= q.revision
    BY <1>2, <1>5, <2>1
  <2>4. QED
    BY <1>4, <2>1, <2>2, <2>3
<1>7. CASE LoseReview(t)
  <2>1. r.state = "leased"
    BY <1>7, LoseReviewResult
  <2>2. PICK q \in Review :
          /\ reviews' = [reviews EXCEPT ![t] = q]
          /\ q.state = "pending" /\ q.revision = r.revision /\ q.generation = r.generation
    BY <1>7, LoseReviewResult
  <2> HIDE DEF r, h
  <2>3. ASSUME NEW k \in RunsOf(t)
        PROVE  Within(q, h, results[k])
    BY <1>1, <1>2, <1>3, <1>5, <2>1, <2>2 DEF Within
  <2>4. QED
    BY <1>3, <1>4, <2>1, <2>2, <2>3
<1>8. CASE CompleteReview(t)
  <2>1. /\ r.state = "finishing" \/ (r.state = "leased" /\ sent[r.run] > 0)
        /\ \/ reviews' = [reviews EXCEPT ![t] = NoReview]
           \/ \E q \in Review : /\ reviews' = [reviews EXCEPT ![t] = q]
                                /\ q.state = "pending" /\ q.revision = r.revision
                                /\ q.generation = r.generation
    BY <1>8, CompleteReviewResult
  <2>2. r.state = "leased" /\ sent[r.run] > 0
    BY <1>3, <2>1
  <2>3. r.run \in RunsOf(t) /\ results[r.run].source = r.leaseRevision
    BY <2>2 DEF Running
  <2>4. r.leaseRevision <= h
    BY <2>2, <2>3 DEF Reached
  <2> HIDE DEF r, h
  <2>5. CASE reviews' = [reviews EXCEPT ![t] = NoReview]
    <3>1. ASSUME NEW k \in RunsOf(t)
          PROVE  Within(NoReview, h, results[k])
      BY <1>1, <1>2, <2>2, <2>4, NoReviewType DEF Within
    <3>2. QED
      BY <1>4, <2>5, <3>1, NoReviewType
  <2>6. ASSUME NEW q \in Review, reviews' = [reviews EXCEPT ![t] = q],
               q.state = "pending", q.revision = r.revision, q.generation = r.generation
        PROVE  Below(t)'
    <3>1. ASSUME NEW k \in RunsOf(t)
          PROVE  Within(q, h, results[k])
      BY <1>1, <1>2, <1>3, <1>5, <2>2, <2>6 DEF Within
    <3>2. QED
      BY <1>3, <1>4, <2>2, <2>6, <3>1
  <2>7. QED
    BY <2>1, <2>5, <2>6
<1>9. QED
  BY <1>6, <1>7, <1>8

LEMMA ClaimBelow ==
  ASSUME LaneTypeOK, Grows, NEW t \in Targets, NEW k \in Keys, Below(t), heads' = heads,
         ClaimReview(t, k)
  PROVE  Below(t)'
<1>1. reviews[t].state = "pending" /\ RunsOf(t)' = RunsOf(t) \cup {k}
  BY ClaimReviewResult
<1>2. PICK q \in Review :
        /\ reviews' = [reviews EXCEPT ![t] = q]
        /\ q.state = "leased" /\ q.revision = reviews[t].revision
        /\ q.leaseRevision = reviews[t].revision
        /\ q.generation = reviews[t].generation + 1 /\ q.run = k
  BY ClaimReviewResult
<1>3. PICK res \in Result :
        /\ results' = [results EXCEPT ![k] = res]
        /\ res.target = t /\ res.source = reviews[t].revision
        /\ res.generation = reviews[t].generation + 1
  BY ClaimReviewResult
<1>4. reviews'[t] = q /\ results'[k] = res
  BY <1>2, <1>3 DEF LaneTypeOK
<1>5. reviews[t].revision \in Nat /\ reviews[t].generation \in Nat /\ heads[t] \in Nat
  BY RunTypes
<1>6. ASSUME NEW j \in RunsOf(t)
      PROVE  Within(q, heads[t], results'[j])
  <2>1. Within(reviews[t], heads[t], results[j]) /\ heads[t] <= reviews[t].revision
    BY <1>1 DEF Below
  <2>2. results'[j] = results[j] /\ results[j].source \in Nat /\ results[j].generation \in Nat
    BY RunsStay, RunTypes
  <2>3. QED
    BY <1>1, <1>2, <1>5, <2>1, <2>2 DEF Within
<1>7. Within(q, heads[t], res)
  BY <1>2, <1>3, <1>5 DEF Within
<1>8. \A j \in RunsOf(t)' : Within(reviews'[t], heads'[t], results'[j])
  BY <1>1, <1>4, <1>6, <1>7
<1>9. heads[t] <= q.revision
  BY <1>1, <1>2 DEF Below
<1>10. QED
  BY <1>4, <1>8, <1>9 DEF Below, Within

\* What is delivered is not above the review that stands.
LEMMA DeliverBelow ==
  ASSUME LaneTypeOK, Carried, Counted, Running, Grows, Finishing, NEW t \in Targets, Queued(t),
         Below(t), NEW k \in Keys, Deliver(k)
  PROVE  Below(t)'
<1>1. MayDeliver(k)
  BY DeliverOutcome
<1>2. UNCHANGED <<reviews, results>>
  BY <1>1 DEF MayDeliver
<1>3. PICK u \in Targets : u = results[k].target
  BY <1>1, MayDeliverResult
<1>4. PICK n \in 0..MaxRevision : heads' = [heads EXCEPT ![u] = n] /\ n \in Known(u, results[k].source)
                                  /\ heads[u] <= n
  BY <1>1, <1>3, MayDeliverResult
<1>5. heads'[t] = (IF t = u THEN n ELSE heads[t]) /\ n \in Nat
  BY <1>4, LaneAssumption DEF LaneTypeOK
<1>6. RunsOf(t)' = RunsOf(t)
  BY <1>2 DEF RunsOf
<1>7. reviews[t].revision \in Nat /\ reviews[t].leaseRevision \in Nat
      /\ reviews[t].generation \in Nat /\ heads[t] \in Nat
  BY RunTypes
<1>8. ASSUME NEW j \in RunsOf(t)
      PROVE  Within(reviews'[t], heads'[t], results[j])
  <2>1. Within(reviews[t], heads[t], results[j]) /\ results[j].source \in Nat
    BY RunTypes DEF Below
  <2>2. QED
    BY <1>2, <1>4, <1>5, <1>7, <2>1 DEF Within
<1>9. ASSUME reviews[t].state # "none"
      PROVE  heads'[t] <= reviews[t].revision
  <2>1. heads[t] <= reviews[t].revision /\ reviews[t].state # "finishing"
    BY <1>9 DEF Below, Finishing
  <2>2. \A j \in RunsOf(t) : results[j].source <= reviews[t].revision
    <3> TAKE j \in RunsOf(t)
    <3>1. Within(reviews[t], heads[t], results[j]) /\ results[j].source \in Nat
      BY RunTypes DEF Below
    <3>2. reviews[t].state = "leased" => reviews[t].leaseRevision <= reviews[t].revision
      BY DEF Running
    <3>3. QED
      BY <1>7, <2>1, <3>1, <3>2 DEF Within
  <2>3. u = t => n \in {heads[t], results[k].source} \cup Sources(t)
    BY <1>3, <1>4, <2>1 DEF Known, FinishingSource
  <2>4. u = t => results[k].source <= reviews[t].revision
    BY <1>3, <2>2 DEF RunsOf
  <2>5. \A m \in Sources(t) : m <= reviews[t].revision
    <3> TAKE m \in Sources(t)
    <3>1. PICK i \in Keys : Live(i) /\ Of(i).target = t /\ Of(i).source = m
      BY DEF Sources
    <3>2. PICK c \in Keys : c = items[i].carries
      BY <3>1, LiveItem
    <3>3. c \in RunsOf(t) /\ results[c].source = m
      BY <3>1, <3>2 DEF RunsOf, Of
    <3>4. QED
      BY <2>2, <3>3
  <2>6. QED
    BY <1>5, <2>1, <2>3, <2>4, <2>5
<1>10. QED
  BY <1>2, <1>6, <1>8, <1>9, BelowWith

LEMMA BelowStays ==
  ASSUME QueueInv, Histories, Receipted, Finishing, Numbered, [LaneNext]_allVars,
         NEW t \in Targets, Trusted(t)'
  PROVE  Below(t)'
<1>1. LaneTypeOK /\ Carried /\ Counted /\ Running /\ Grows
  BY TypesStay DEF QueueInv, Typed
<1>2. Trusted(t) /\ Queued(t) /\ Queued(t)' /\ ~Returned(t)'
  BY <1>1, TrustedBefore DEF Trusted
<1>3. Reached(t) /\ Below(t)
  BY <1>2 DEF Numbered
<1>4. ASSUME NEW k \in Keys, Deliver(k)
      PROVE  Below(t)'
  BY <1>1, <1>2, <1>3, <1>4, DeliverBelow
<1>5. ASSUME NEW k \in Keys, ClaimReview(t, k)
      PROVE  Below(t)'
  BY <1>1, <1>3, <1>5, ClaimBelow DEF ClaimReview
<1>6. CASE heads' = heads /\ RunsOf(t)' = RunsOf(t)
  <2>1. CASE reviews'[t] = reviews[t]
    <3>1. \A k \in RunsOf(t) : Within(reviews'[t], heads'[t], results[k])
      BY <1>3, <1>6, <2>1 DEF Below
    <3>2. reviews'[t].state # "none" => heads'[t] <= reviews'[t].revision
      BY <1>3, <1>6, <2>1 DEF Below
    <3>3. QED
      BY <1>1, <1>6, <3>1, <3>2, BelowWith
  <2>2. CASE ReviewEvent(t) \/ LoseReview(t) \/ CompleteReview(t)
    BY <1>1, <1>2, <1>3, <1>6, <2>2, LaneBelow
  <2>3. CASE DirectPublish(t)
    BY <1>1, <1>2, <2>3, DirectFounds
  <2>4. ASSUME NEW k \in Keys, NEW r \in Revisions, RecoverFresh(k, r), results[k].target = t
        PROVE  Below(t)'
    <3>1. reviews[t].state = "none"
      BY <1>1, <2>4, RecoverReview
    <3>2. PICK q \in Review : /\ reviews' = [reviews EXCEPT ![t] = q]
                              /\ q.state = "pending" /\ q.revision > heads[t]
      BY <1>1, <2>4, RecoverReview
    <3>3. reviews'[t] = q /\ q.revision \in Nat /\ heads[t] \in Nat
      BY <1>1, <3>2, RunTypes, LaneAssumption DEF LaneTypeOK, Review
    <3>4. ASSUME NEW j \in RunsOf(t)
          PROVE  Within(q, heads[t], results[j])
      <4>1. Within(reviews[t], heads[t], results[j]) /\ results[j].source \in Nat
        BY <1>1, <1>3, RunTypes DEF Below
      <4>2. QED
        BY <3>1, <3>2, <3>3, <4>1 DEF Within
    <3>5. heads[t] <= q.revision
      BY <3>2, <3>3
    <3>6. QED
      BY <1>1, <1>6, <3>3, <3>4, <3>5, BelowWith
  <2>5. QED
    BY <1>2, <1>5, <2>1, <2>2, <2>3, <2>4, ReviewMoves DEF ReviewLane
<1>7. QED
  BY <1>4, <1>5, <1>6, DeliverySteps, RunSteps

LEMMA NumberedStays ==
  ASSUME QueueInv, Histories, Receipted, Finishing, Numbered, [LaneNext]_allVars
  PROVE  Numbered'
<1> SUFFICES ASSUME NEW t \in Targets
             PROVE  Reached(t)' /\ (Trusted(t)' => InOrder(t)' /\ Below(t)')
  BY DEF Numbered
<1>1. QED
  BY ReachedStays, InOrderStays, BelowStays

-----------------------------------------------------------------------------
(* What is given up as superseded.                                             *)

\* A result that a step gives up: a refused delivery; an item that the newer source
\* of an accepted one overtakes, or that the head of its target surpasses; what a
\* direct or a batch publication finds a newer receipt for; what a publisher owns
\* and reports as superseded.
Refused(c) == DeliverRefused(c)
OvertakenBy(k, c) == DeliverNew(k) /\ \E j \in Overtaken(k) : c = items[j].carries
Outrun(c) == \E k \in Keys : Live(k) /\ Surpassed(k) /\ c = items[k].carries
DirectLate(c) == \E t \in Targets : DirectPublish(t) /\ c = reviews[t].run
BatchLate(c) ==
  \E k \in Keys : \E r \in Nat :
    BatchPublishes(k, r) /\ NewerReceipts(k, r) # {} /\ c = items[k].carries
ReportedLate(c) ==
  \E b \in BatchIds : \E f \in workers[b].manifest :
    workers[b].outcome[f.item] = "superseded" /\ Owns(b, f) /\ c = items[f.item].carries

GivesUp(c) ==
  \/ Refused(c) \/ \E k \in Keys : OvertakenBy(k, c)
  \/ Outrun(c) \/ DirectLate(c) \/ BatchLate(c) \/ ReportedLate(c)

\* An item that a publisher settles as superseded or published is one that it owns.
LEMMA SettledOwns ==
  ASSUME LaneTypeOK, IInv, Granted, Carried, NEW b \in BatchIds, NEW fences \in SUBSET Fences,
         \A f, g \in fences : f.item = g.item => f = g,
         CompleteBatch(b, fences), NEW k \in SettledBy(b, fences),
         items[k].revision <= RevisionOf(fences)[k]
  PROVE  \E f \in fences : /\ f.item = k /\ f.revision = RevisionOf(fences)[k] /\ Owns(b, f)
                           /\ Kind(b)[k] \in Kinds
<1>1. /\ SettledBy(b, fences) \in SUBSET {j \in Keys : Live(j)}
      /\ \A j \in SettledBy(b, fences) : \E f \in fences :
           /\ f.item = j /\ RevisionOf(fences)[j] = f.revision
           /\ Kind(b)[j] \in Kinds
           /\ f.revision \in Nat /\ f.revision <= items[j].revision
           /\ \E m \in memberships : m.batch = b /\ Open(m) /\ SameFence(m, f)
  BY CompleteBatchResult
<1>2. PICK f \in fences :
        /\ f.item = k /\ RevisionOf(fences)[k] = f.revision
        /\ Kind(b)[k] \in Kinds
        /\ f.revision \in Nat /\ f.revision <= items[k].revision
        /\ \E m \in memberships : m.batch = b /\ Open(m) /\ SameFence(m, f)
  BY <1>1
<1>3. Live(k) /\ k \in Keys /\ items[k].revision \in Nat
  BY <1>1, LiveItem
<1>4. items[k].revision = f.revision
  BY <1>2, <1>3
<1>5. QED
  BY <1>2, <1>3, <1>4 DEF Owns

LEMMA FinishDrops ==
  ASSUME LaneTypeOK, NEW settled, NEW kindOf, NEW revisionOf,
         FinishItems(settled, kindOf, revisionOf), NEW c \in given'.dropped, c \notin given.dropped
  PROVE  \E k \in settled : /\ kindOf[k] = "superseded" /\ ~(items[k].revision > revisionOf[k])
                           /\ c = items[k].carries
<1> DEFINE newer     == {k \in settled : items[k].revision > revisionOf[k]}
           of(kinds) == {k \in settled \ newer : kindOf[k] \in kinds}
           gone == {items[k].carries : k \in of({"superseded"})}
           back == {items[k].carries : k \in of({"refresh"})}
<1>1. given' = [given EXCEPT !.dropped = @ \cup gone, !.refreshed = @ \cup back]
  BY DEF FinishItems
<1>2. c \in gone => \E k \in settled : /\ kindOf[k] = "superseded" /\ ~(items[k].revision > revisionOf[k])
                           /\ c = items[k].carries
  OBVIOUS
<1> HIDE DEF gone, back
<1>3. given'.dropped = given.dropped \cup gone
  BY <1>1 DEF LaneTypeOK, History
<1>4. QED
  BY <1>2, <1>3

LEMMA SettlingGivesUp ==
  ASSUME LaneTypeOK, IInv, Granted, Manifests, Carried, NEW b \in BatchIds, Settling(b),
         NEW c \in given'.dropped, c \notin given.dropped
  PROVE  ReportedLate(c)
<1>1. PICK fences \in SUBSET Fences :
        /\ fences \subseteq workers[b].manifest
        /\ \A f, g \in fences : f.item = g.item => f = g
        /\ CompleteBatch(b, fences)
  BY SettlingResult
<1>2. PICK settled : settled = SettledBy(b, fences)
  OBVIOUS
<1>3. /\ settled \in SUBSET {k \in Keys : Live(k)}
      /\ FinishItems(settled, Kind(b), RevisionOf(fences))
  BY <1>1, <1>2, CompleteBatchResult
<1>4. PICK k \in settled : /\ Kind(b)[k] = "superseded" /\ ~(items[k].revision > RevisionOf(fences)[k])
                           /\ c = items[k].carries
  BY <1>3, FinishDrops
<1>5. Live(k) /\ k \in Keys /\ items[k].revision \in Nat
  BY <1>3, LiveItem
<1>6. RevisionOf(fences)[k] \in Nat
  <2>1. \A j \in settled : \E f \in fences : RevisionOf(fences)[j] = f.revision /\ f.revision \in Nat
    BY <1>1, <1>2, CompleteBatchResult
  <2>2. QED
    BY <2>1
<1>7. items[k].revision <= RevisionOf(fences)[k]
  BY <1>4, <1>5, <1>6
<1>8. PICK f \in fences : f.item = k /\ Owns(b, f)
  BY <1>1, <1>2, <1>7, SettledOwns
<1>9. workers[b].outcome[k] = "superseded"
  BY <1>4, <1>5, KindIsKnown
<1>10. QED
  BY <1>1, <1>4, <1>8, <1>9 DEF ReportedLate

LEMMA DroppedSteps ==
  ASSUME QueueInv, [LaneNext]_allVars, NEW c \in given'.dropped, c \notin given.dropped
  PROVE  GivesUp(c)
<1>1. LaneTypeOK /\ IInv /\ Granted /\ Manifests /\ Carried /\ Counted /\ Running
  BY DEF QueueInv
<1>2. ASSUME NEW t \in Targets, ReviewLane(t)
      PROVE  FALSE
  BY <1>2, ReviewLaneKeeps
<1>3. ASSUME NEW t \in Targets, DirectPublish(t)
      PROVE  DirectLate(c)
  <2>1. given'.dropped \subseteq given.dropped \cup {reviews[t].run}
    BY <1>1, <1>3 DEF DirectPublish, AcceptPlan, LaneTypeOK, History
  <2>2. QED
    BY <1>3, <2>1 DEF DirectLate
<1>4. ASSUME NEW k \in Keys, Deliver(k)
      PROVE  Refused(c) \/ OvertakenBy(k, c)
  <2>1. CASE DeliverRefused(k)
    BY <1>1, <2>1, DeliverRefusedResult DEF Refused
  <2>2. CASE DeliverDuplicate(k)
    BY <1>1, <2>2, DeliverDuplicateResult
  <2>3. CASE DeliverNew(k)
    <3>1. given'.dropped = given.dropped \cup {items[j].carries : j \in Overtaken(k)}
      BY <1>1, <2>3, DeliverNewResult
    <3>2. QED
      BY <2>3, <3>1 DEF OvertakenBy
  <2>4. QED
    BY <1>4, <2>1, <2>2, <2>3 DEF Deliver
<1>5. ASSUME NEW k \in Keys, NEW r \in Revisions,
             ReplayDeadLetter(k, r) \/ RecoverFresh(k, r) \/ ResolveDeadLetter(k, r)
      PROVE  FALSE
  BY <1>5 DEF ReplayDeadLetter, RecoverFresh, ResolveDeadLetter
<1>6. ASSUME PruneStale
      PROVE  Outrun(c)
  <2>1. PICK pruned \in SUBSET Stale : given'.dropped = given.dropped \cup {items[k].carries : k \in pruned}
    BY <1>1, <1>6, PruneStaleResult
  <2>2. QED
    BY <2>1 DEF Stale, Outrun
<1>7. ASSUME NEW b \in BatchIds, Fetches(b)
      PROVE  Outrun(c)
  <2>1. Fetch(b)
    BY <1>7 DEF Fetches, Load, Commit, Acknowledge
  <2>2. PICK gone \in SUBSET {k \in Keys : Live(k) /\ Surpassed(k)} :
          given'.dropped = given.dropped \cup {items[k].carries : k \in gone}
    BY <1>1, <2>1, FetchResult
  <2>3. QED
    BY <2>2 DEF Outrun
<1>8. ASSUME NEW b \in BatchIds, Settling(b)
      PROVE  ReportedLate(c)
  BY <1>1, <1>8, SettlingGivesUp
<1>9. ASSUME NEW b \in BatchIds, NEW f \in workers[b].manifest, PublishItem(b, f)
      PROVE  BatchLate(c)
  <2>1. PICK k \in Keys, r \in Nat : BatchPublishes(k, r)
    BY <1>1, <1>9, PublishItemRecords
  <2>2. NewerReceipts(k, r) # {} /\ given'.dropped = given.dropped \cup {items[k].carries}
    BY <1>1, <2>1 DEF BatchPublishes, AcceptPlan, LaneTypeOK, History
  <2>3. QED
    BY <2>1, <2>2 DEF BatchLate
<1>10. ASSUME UNCHANGED given
       PROVE  FALSE
  BY <1>10
<1>11. QED
  BY <1>2, <1>3, <1>4, <1>5, <1>6, <1>7, <1>8, <1>9, <1>10, RecordCases DEF GivesUp

\* What is given up is a result.
LEMMA GivenUpIsClaimed ==
  ASSUME LaneTypeOK, Carried, Running, NEW c, GivesUp(c), c \in Keys
  PROVE  Claimed(c)
<1>1. ASSUME Refused(c)
      PROVE  Claimed(c)
  BY <1>1, DeliverRefusedResult, MayDeliverResult DEF Refused
<1>2. ASSUME NEW k \in Keys, Live(k), c = items[k].carries
      PROVE  Claimed(c)
  BY <1>2, LiveItem
<1>3. ASSUME NEW k \in Keys, OvertakenBy(k, c)
      PROVE  Claimed(c)
  BY <1>2, <1>3 DEF OvertakenBy, Overtaken
<1>4. ASSUME DirectLate(c)
      PROVE  Claimed(c)
  BY <1>4, DirectPublishResult DEF DirectLate
<1>5. ASSUME ReportedLate(c)
      PROVE  Claimed(c)
  <2>1. PICK b \in BatchIds :
          \E f \in workers[b].manifest : Owns(b, f) /\ c = items[f.item].carries
    BY <1>5 DEF ReportedLate
  <2>2. PICK f \in workers[b].manifest : Owns(b, f) /\ c = items[f.item].carries
    BY <2>1
  <2>3. f.item \in Keys
    BY RowTypes DEF Worker, Fences
  <2>4. QED
    BY <1>2, <2>2, <2>3 DEF Owns
<1>6. QED
  BY <1>1, <1>2, <1>3, <1>4, <1>5 DEF GivesUp, Outrun, BatchLate, BatchPublishes

LEMMA HistoriesStay ==
  ASSUME QueueInv, Histories, [LaneNext]_allVars
  PROVE  Histories'
<1>1. LaneTypeOK /\ Carried /\ Counted /\ Running /\ Grows /\ LaneTypeOK'
  BY TypesStay DEF QueueInv, Typed
<1>2. given' \in History
  BY <1>1 DEF LaneTypeOK
<1>3. ASSUME NEW k \in Keys, Claimed(k)
      PROVE  Claimed(k)'
  BY <1>1, <1>3, ClaimedStays
<1>4. ASSUME NEW k \in given'.taken
      PROVE  /\ Claimed(k) /\ results'[k] = results[k]
             /\ \A t \in Targets : results'[k].target = t => results'[k].source <= heads'[t]
  <2>1. k \in Keys
    BY <1>2 DEF History
  <2>2. CASE k \in given.taken
    <3>1. Claimed(k) /\ results'[k] = results[k] /\ results[k].source \in Nat
      BY <1>1, <2>1, <2>2, ClaimedStays, ClaimedResult, LaneAssumption DEF Histories, Heard
    <3>2. ASSUME NEW t \in Targets, results[k].target = t
          PROVE  results[k].source <= heads'[t]
      <4>1. results[k].source <= heads[t] /\ heads[t] <= heads'[t]
            /\ heads[t] \in Nat /\ heads'[t] \in Nat
        BY <2>2, <3>2, HeadsGrow DEF Histories
      <4>2. QED
        BY <3>1, <4>1
    <3>3. QED
      BY <3>1, <3>2
  <2>3. CASE k \notin given.taken
    <3>1. PICK j \in Keys : Deliver(j)
      BY <2>3, DeliverySteps
    <3>2. j = k
      BY <1>1, <2>3, <3>1, DeliverOutcome DEF Accepts
    <3>3. Claimed(k)
      BY <1>1, <3>1, <3>2, DeliverOutcome, MayDeliverResult
    <3>4. results'[k] = results[k]
      BY <1>1, <2>1, <3>3, ClaimedStays
    <3>5. \A t \in Targets : results[k].target = t => results[k].source <= heads'[t]
      BY <1>1, <3>1, <3>2, HeadSteps
    <3>6. QED
      BY <3>3, <3>4, <3>5
  <2>4. QED
    BY <2>2, <2>3
<1>5. ASSUME NEW k \in given'.published
      PROVE  Claimed(k)
  <2>1. CASE k \in given.published
    BY <2>1 DEF Histories, Heard
  <2>2. ASSUME k \notin given.published, NEW t \in Targets, DirectPublish(t)
        PROVE  Claimed(k)
    <3>1. AcceptPlan(t, reviews[t].revision, reviews[t].run) /\ Claimed(reviews[t].run)
      BY <1>1, <2>2, DirectPublishResult
    <3>2. given'.published \subseteq given.published \cup {reviews[t].run}
      BY <1>1, <3>1 DEF AcceptPlan, LaneTypeOK, History
    <3>3. QED
      BY <2>2, <3>1, <3>2
  <2>3. ASSUME k \notin given.published, NEW i \in Keys, NEW r \in Nat, BatchPublishes(i, r)
        PROVE  Claimed(k)
    <3>1. AcceptPlan(i, r, items[i].carries) /\ Claimed(items[i].carries)
      BY <1>1, <2>3, LiveItem DEF BatchPublishes
    <3>2. given'.published \subseteq given.published \cup {items[i].carries}
      BY <1>1, <3>1 DEF AcceptPlan, LaneTypeOK, History
    <3>3. QED
      BY <2>3, <3>1, <3>2
  <2>4. QED
    BY <2>1, <2>2, <2>3, RecordSteps DEF Recordless
<1>6. ASSUME NEW k \in given'.dropped
      PROVE  Claimed(k)
  <2>1. k \in Keys
    BY <1>2 DEF History
  <2>2. QED
    BY <1>1, <2>1, DroppedSteps, GivenUpIsClaimed DEF Histories
<1>7. ASSUME NEW k \in Keys, sent'[k] > 0
      PROVE  Claimed(k)
  BY <1>7, SentSteps DEF Histories
<1>8. given'.taken \subseteq Keys /\ given'.published \subseteq Keys /\ given'.dropped \subseteq Keys
  BY <1>2 DEF History
<1>9. QED
  BY <1>3, <1>4, <1>5, <1>6, <1>7, <1>8 DEF Histories, Heard

-----------------------------------------------------------------------------
(* The records of a target.                                                    *)

LEMMA RecordStays ==
  ASSUME RecordInv, [LaneNext]_allVars
  PROVE  RecordInv'
<1>1. /\ ReportInv /\ QueueInv /\ Histories /\ Receipted /\ Headed /\ Finishing /\ Numbered
  BY DEF RecordInv, ReportInv
<1>2. ReportInv'
  BY <1>1, ReportStays
<1>3. Histories'
  BY <1>1, HistoriesStay
<1>4. Receipted'
  BY <1>1, ReceiptedStays
<1>5. Headed'
  <2>1. ASSUME NEW t \in Targets
        PROVE  HeadOf(t)' /\ CanonicalOf(t)'
    BY <1>1, HeadOfStays, CanonicalOfStays
  <2>2. QED
    BY <2>1 DEF Headed
<1>6. Finishing'
  BY <1>1, FinishingStays
<1>7. Numbered'
  BY <1>1, NumberedStays
<1>8. QED
  BY <1>2, <1>3, <1>4, <1>5, <1>6, <1>7 DEF RecordInv

LEMMA RecordInitially ==
  ASSUME LaneInit
  PROVE  RecordInv
<1>1. ReportInv /\ LaneTypeOK
  BY ReportInitially DEF ReportInv, QueueInv
<1>2. /\ \A t \in Targets : reviews[t] = NoReview
      /\ \A k \in Keys : results[k] = NoResult /\ sent[k] = 0
      /\ receipts = {}
      /\ given.taken = {} /\ given.published = {} /\ given.dropped = {}
      /\ \A t \in Targets : heads[t] = 0 /\ canonical[t].serial = 0 /\ canonical[t].source = 0
  BY DEF LaneInit
<1>3. Histories
  BY <1>2 DEF Histories, Heard
<1>4. Receipted
  BY <1>2 DEF Receipted
<1>5. Headed
  BY <1>2 DEF Headed, HeadOf, CanonicalOf
<1>6. Finishing
  BY <1>2, NoReviewType DEF Finishing
<1>7. \A t \in Targets : RunsOf(t) = {}
  <2>1. \A k \in Keys : ~Claimed(k)
    BY <1>2 DEF Claimed
  <2>2. QED
    BY <1>1, <2>1, ClaimedResult DEF RunsOf
<1>8. Numbered
  BY <1>2, <1>7, NoReviewType DEF Numbered, Reached, InOrder, Below
<1>9. QED
  BY <1>1, <1>3, <1>4, <1>5, <1>6, <1>8 DEF RecordInv

\* What is published replaces an older source, or the same.
LEMMA AdvancingStep ==
  ASSUME RecordInv, [LaneNext]_allVars, NEW t \in Targets, Queued(t), Queued(t)' \/ ~Returned(t)
  PROVE  canonical'[t].source >= canonical[t].source
<1>1. /\ QueueInv /\ LaneTypeOK /\ Carried /\ Running /\ Histories /\ Receipted /\ Headed /\ Numbered
      /\ Grows
  BY TypesStay DEF RecordInv, ReportInv, QueueInv, Typed
<1>2. canonical[t].source \in Nat /\ heads[t] \in Nat /\ canonical[t].source <= heads[t]
  BY <1>1, LaneAssumption DEF LaneTypeOK, Headed, CanonicalOf
<1>3. CASE Recordless
  BY <1>2, <1>3 DEF Recordless
<1>4. ASSUME NEW u \in Targets, DirectPublish(u)
      PROVE  canonical'[t].source >= canonical[t].source
  <2>1. PICK k \in Keys : k = reviews[u].run
    BY <1>1, <1>4, DirectPublishResult
  <2>2. /\ results[k].target = u /\ results[k].source = reviews[u].revision
        /\ reviews[u].state = "leased" /\ results[k].source \in Nat
    BY <1>1, <1>4, <2>1, DirectPublishResult, ClaimedResult
  <2>3. PICK p : AcceptedAs(u, reviews[u].revision, k, p)
    BY <1>1, <1>4, <2>1, DirectFounds
  <2>4. CASE t # u \/ canonical' = canonical
    BY <1>1, <1>2, <2>2, <2>3, <2>4 DEF AcceptedAs, LaneTypeOK
  <2>5. CASE t = u /\ canonical' # canonical
    <3>1. canonical'[t].source = results[k].source
      BY <1>1, <2>2, <2>3, <2>5 DEF AcceptedAs, LaneTypeOK
    <3>2. Trusted(t)
      BY <1>1, <1>4, <2>5, DirectFounds DEF Trusted
    <3>3. heads[t] <= reviews[t].revision
      BY <1>1, <2>2, <2>5, <3>2 DEF Numbered, Below
    <3>4. QED
      BY <1>2, <2>2, <2>5, <3>1, <3>3
  <2>6. QED
    BY <2>4, <2>5
<1>5. ASSUME NEW k \in Keys, NEW r \in Nat, BatchPublishes(k, r)
      PROVE  canonical'[t].source >= canonical[t].source
  <2>1. PICK c \in Keys : c = items[k].carries /\ \E p : AcceptedAs(k, r, c, p)
    BY <1>1, <1>5, BatchAccepts
  <2>2. PICK p : AcceptedAs(k, r, c, p)
    BY <2>1
  <2>3. results[c].source \in Nat /\ ~(results[c].source < heads[results[c].target])
    BY <1>1, <1>5, <2>1, ClaimedResult, LaneAssumption DEF BatchPublishes, Surpassed, Of
  <2>4. CASE results[c].target # t \/ canonical' = canonical
    BY <1>1, <1>2, <2>2, <2>4 DEF AcceptedAs, LaneTypeOK
  <2>5. CASE results[c].target = t /\ canonical' # canonical
    <3>1. canonical'[t].source = results[c].source
      BY <1>1, <2>2, <2>5 DEF AcceptedAs, LaneTypeOK
    <3>2. QED
      BY <1>2, <2>3, <2>5, <3>1
  <2>6. QED
    BY <2>4, <2>5
<1>6. QED
  BY <1>1, <1>3, <1>4, <1>5, RecordSteps

\* The canonical record of a target that the queue alone publishes never goes back to
\* an older source: whatever a batch publishes is not older than the head of its
\* target, and the record is never newer; nor does the first direct publication take
\* it back, as the review it finalises was numbered above the head.
THEOREM CanonicalNeverGoesBack == LaneSpec => CanonicalAdvances
<1>1. ASSUME RecordInv, [LaneNext]_allVars
      PROVE  \A t \in Targets :
               Queued(t) /\ (Queued(t)' \/ ~Returned(t)) =>
                 canonical'[t].source >= canonical[t].source
  BY <1>1, AdvancingStep
<1>2. LaneInit => RecordInv
  BY RecordInitially
<1>3. RecordInv /\ [LaneNext]_allVars => RecordInv'
  BY RecordStays
<1>4. QED
  BY <1>1, <1>2, <1>3, PTL DEF LaneSpec, CanonicalAdvances

UndisturbedReviewCanPublish ==
  \A t \in Targets :
    Trusted(t) /\ reviews[t].state = "pending" => reviews[t].revision >= heads[t]

\* A review that waits can publish: its source is not older than the head of its
\* target, until a direct publication or a result that is handed back starts the
\* numbering over.  Nothing else that batches, retries, late and repeated deliveries
\* and operators do makes a waiting review stale.
THEOREM UndisturbedReviewsCanPublish == LaneSpec => []UndisturbedReviewCanPublish
<1>1. ASSUME RecordInv
      PROVE  UndisturbedReviewCanPublish
  <2>1. SUFFICES ASSUME NEW t \in Targets, Trusted(t), reviews[t].state = "pending"
                 PROVE  reviews[t].revision >= heads[t]
    BY DEF UndisturbedReviewCanPublish
  <2>2. heads[t] <= reviews[t].revision
    BY <1>1, <2>1 DEF RecordInv, Numbered, Below
  <2>3. heads[t] \in Nat /\ reviews[t].revision \in Nat
    BY <1>1, <2>1 DEF RecordInv, ReportInv, QueueInv, LaneTypeOK, Review
  <2>4. QED
    BY <2>2, <2>3
<1>2. LaneInit => RecordInv
  BY RecordInitially
<1>3. RecordInv /\ [LaneNext]_allVars => RecordInv'
  BY RecordStays
<1>4. QED
  BY <1>1, <1>2, <1>3, PTL DEF LaneSpec

-----------------------------------------------------------------------------
(* What is reported as superseded.                                             *)

\* What a publisher owns after a step it owned before, carrying the same result, as
\* one that only now claimed knows nothing yet of what it fetches.
LEMMA OwnsBefore ==
  ASSUME QueueInv, [LaneNext]_allVars, NEW b \in BatchIds, NEW f, f.item \in Keys, f.revision \in Nat,
         Owns(b, f)', ~ClaimBatch(b)
  PROVE  Owns(b, f) /\ items'[f.item] = items[f.item]
<1>1. PICK m \in memberships' : m.batch = b /\ Open(m) /\ SameFence(m, f)
  BY DEF Owns, Open, SameFence
<1>2. m \in memberships
  BY <1>1, NewOwner
<1>3. m.item = f.item /\ m.revision = f.revision
  BY <1>1 DEF SameFence
<1>4. items[f.item].state = "pending" /\ f.revision <= items[f.item].revision
      /\ items[f.item].revision \in Nat
  BY <1>1, <1>2, <1>3, RowTypes, LaneAssumption DEF QueueInv, OwnedPending, Item
<1>5. items'[f.item].revision = f.revision
  BY DEF Owns
<1>6. /\ items[f.item].revision <= items'[f.item].revision
      /\ items'[f.item] = items[f.item] \/ items[f.item].revision < items'[f.item].revision
  BY <1>1, <1>2, <1>3, OwnedStay
<1>7. items[f.item].revision = f.revision /\ items'[f.item] = items[f.item]
  BY <1>4, <1>5, <1>6
<1>8. QED
  BY <1>1, <1>2, <1>4, <1>7, PendingIsLive DEF Owns

\* Why a publisher is answered that what it owns is superseded.
LEMMA AnswerExcused ==
  ASSUME LaneTypeOK, Carried, Receipted, Headed, Numbered,
         NEW b \in BatchIds, NEW f \in workers[b].manifest, PublishItem(b, f), Live(f.item),
         workers'[b].outcome[f.item] = "superseded"
  PROVE  Excused(items[f.item].carries)
<1>1. PICK w \in Worker :
        /\ Becomes(b, w)
        /\ (UNCHANGED <<receipts, canonical, given>> /\ Answers(f, w.outcome[f.item]))
             \/ Publishes(f, w.outcome[f.item])
  BY PublishItemResult
<1>2. f.item \in Keys /\ w.outcome[f.item] = "superseded"
  BY <1>1, OtherWorkers, PublishItemResult
<1>3. CASE Surpassed(f.item)
  BY <1>2, <1>3, SurpassedExcused
<1>4. ASSUME NEW p \in receipts, p.fence = f.item
      PROVE  Excused(items[f.item].carries)
  BY <1>2, <1>4, ReceiptExcuses
<1>5. CASE Answers(f, w.outcome[f.item])
  BY <1>2, <1>3, <1>4, <1>5 DEF Answers, ReceiptsOf
<1>6. CASE Publishes(f, w.outcome[f.item])
  BY <1>2, <1>4, <1>6 DEF Publishes, NewerReceipts
<1>7. QED
  BY <1>1, <1>5, <1>6

\* What a publisher says is superseded it knew to be so, or learns it now.
LEMMA SupersededOrigin ==
  ASSUME QueueInv, Receipted, Headed, Numbered, [LaneNext]_allVars, NEW b \in BatchIds,
         NEW f \in workers'[b].manifest, workers'[b].outcome[f.item] = "superseded", Owns(b, f)
  PROVE  \/ f \in workers[b].manifest /\ workers[b].outcome[f.item] = "superseded"
         \/ Excused(items[f.item].carries)
<1> DEFINE Learnt == \/ f \in workers[b].manifest /\ workers[b].outcome[f.item] = "superseded"
                     \/ Excused(items[f.item].carries)
<1>1. LaneTypeOK /\ IInv /\ IInv' /\ Granted /\ Manifests /\ Carried /\ Typed
  BY StoreStays, TypesStay DEF QueueInv
<1>2. Live(f.item)
  BY DEF Owns
<1>3. f.item \in Keys
  BY <1>1, RowTypes DEF Typed, LaneTypeOK, Worker, Fences
<1>4. workers'[b] = workers[b] => Learnt
  OBVIOUS
<1>5. ASSUME NEW c \in BatchIds, NEW w, Becomes(c, w)
      PROVE  workers'[b] = IF b = c THEN w ELSE workers[b]
  BY <1>1, <1>5, OtherWorkers
<1> HIDE DEF Learnt
<1>6. ASSUME NEW c \in BatchIds, Moves(c)
      PROVE  Learnt
  <2>1. PICK w \in Worker : /\ Becomes(c, w)
                            /\ w.manifest = workers[c].manifest /\ w.outcome = workers[c].outcome
    BY <1>1, <1>6, MovesResult
  <2>2. workers'[b].manifest = workers[b].manifest /\ workers'[b].outcome = workers[b].outcome
    BY <1>5, <2>1
  <2>3. QED
    BY <2>2 DEF Learnt
<1>7. ASSUME NEW c \in BatchIds, Fetches(c)
      PROVE  Learnt
  <2>1. PICK w \in Worker : /\ Becomes(c, w)
                            /\ w.manifest = workers[c].manifest \/ workers[c].pc = "claimed"
                            /\ \A k \in Keys : w.outcome[k] \in {"retryable", workers[c].outcome[k]}
    BY <1>1, <1>7, FetchesResult
  <2>2. CASE b # c
    BY <1>4, <1>5, <2>1, <2>2
  <2>3. CASE b = c
    <3>1. workers[b].outcome[f.item] = "superseded"
      BY <1>3, <1>5, <2>1, <2>3
    <3>2. workers[b].pc # "claimed"
      BY <1>1, <1>3, <3>1 DEF Manifests, Equipped
    <3>3. QED
      BY <1>5, <2>1, <2>3, <3>1, <3>2 DEF Learnt
  <2>4. QED
    BY <2>2, <2>3
<1>8. ASSUME NEW c \in BatchIds, Prepare(c)
      PROVE  Learnt
  <2>1. PICK w \in Worker :
          /\ Becomes(c, w)
          /\ \A k \in Keys :
               \/ w.outcome[k] \in WorkOutcomes \ {"published", "superseded"}
               \/ Live(k) /\ Of(k).serial < canonical[Of(k).target].serial
    BY <1>1, <1>8, PrepareResult
  <2>2. CASE b # c
    BY <1>4, <1>5, <2>1, <2>2
  <2>3. CASE b = c
    <3>1. Of(f.item).serial < canonical[Of(f.item).target].serial
      BY <1>3, <1>5, <2>1, <2>3
    <3>2. QED
      BY <1>1, <1>2, <1>3, <3>1, CanonicalExcuses DEF Learnt
  <2>4. QED
    BY <2>2, <2>3
<1>9. ASSUME NEW c \in BatchIds, NewRun(c)
      PROVE  Learnt
  <2>1. PICK w : w = NoWorker
    OBVIOUS
  <2>2. Becomes(c, w) /\ w.manifest = {}
    BY <1>1, <1>9, <2>1, NewRunResult DEF NewRun, Becomes
  <2>3. QED
    BY <1>4, <1>5, <2>2
<1>10. ASSUME NEW c \in BatchIds, NEW g \in workers[c].manifest, PublishItem(c, g)
       PROVE  Learnt
  <2>1. PICK w \in Worker : /\ Becomes(c, w) /\ w.manifest = workers[c].manifest
                            /\ \A j \in Keys : j # g.item => w.outcome[j] = workers[c].outcome[j]
    BY <1>1, <1>10, PublishItemResult
  <2>2. CASE b # c
    BY <1>4, <1>5, <2>1, <2>2
  <2>3. CASE b = c /\ f.item # g.item
    BY <1>3, <1>5, <2>1, <2>3 DEF Learnt
  <2>4. CASE b = c /\ f.item = g.item
    <3>1. f = g
      BY <1>1, <1>5, <2>1, <2>4 DEF Manifests, Equipped
    <3>2. QED
      BY <1>1, <1>2, <1>10, <2>4, <3>1, AnswerExcused DEF Learnt
  <2>5. QED
    BY <2>2, <2>3, <2>4
<1>11. UNCHANGED workers => Learnt
  BY <1>4
<1>12. ASSUME \/ Idling \/ PruneStale \/ \E t \in Targets : ReviewLane(t) \/ DirectPublish(t)
              \/ \E k \in Keys : Deliver(k)
              \/ \E k \in Keys, r \in Revisions : \/ ReplayDeadLetter(k, r) \/ RecoverFresh(k, r)
                                                  \/ ResolveDeadLetter(k, r)
       PROVE  UNCHANGED workers
  BY <1>12, ReviewLaneKeeps DEF Idling, laneVars, PruneStale, DirectPublish, Deliver, DeliverRefused,
     DeliverDuplicate, DeliverNew, MayDeliver, ReplayDeadLetter, RecoverFresh, ResolveDeadLetter
<1>13. Learnt
  BY <1>6, <1>7, <1>8, <1>9, <1>10, <1>11, <1>12, LaneCases
<1>14. QED
  BY <1>13 DEF Learnt

LEMMA ReasonedStays ==
  ASSUME RecordInv, Reasoned, [LaneNext]_allVars
  PROVE  Reasoned'
<1> SUFFICES ASSUME NEW b \in BatchIds, NEW f \in workers'[b].manifest,
                    workers'[b].outcome[f.item] = "superseded", Owns(b, f)'
             PROVE  Excused(items[f.item].carries)'
  BY DEF Reasoned
<1>1. /\ QueueInv /\ LaneTypeOK /\ Carried /\ Manifests /\ Histories /\ Receipted /\ Headed /\ Numbered
      /\ Grows /\ LaneTypeOK'
  BY TypesStay DEF RecordInv, ReportInv, QueueInv, Typed
<1>2. f.item \in Keys /\ f.revision \in Nat
  BY <1>1, RowTypes, LaneAssumption DEF LaneTypeOK, Worker, Fences
<1>3. ~ClaimBatch(b)
  <2>1. ASSUME ClaimBatch(b)
        PROVE  FALSE
    <3>1. workers[b].pc = "idle" /\ Moves(b)
      BY <2>1 DEF ClaimBatch, Moves
    <3>2. PICK w \in Worker : Becomes(b, w) /\ w.manifest = workers[b].manifest
      BY <1>1, <3>1, MovesResult
    <3>3. workers'[b].manifest = {}
      BY <1>1, <3>1, <3>2, OtherWorkers DEF Manifests, Equipped
    <3>4. QED
      BY <3>3
  <2>2. QED
    BY <2>1
<1>4. Owns(b, f) /\ items'[f.item] = items[f.item]
  BY <1>1, <1>2, <1>3, OwnsBefore
<1>5. Excused(items[f.item].carries)
  BY <1>1, <1>4, SupersededOrigin DEF Reasoned
<1>6. PICK c \in Keys : c = items[f.item].carries /\ Claimed(c)
  BY <1>1, <1>2, <1>4, LiveItem DEF Owns
<1>7. Excused(c)'
  BY <1>1, <1>5, <1>6, ExcusedStays
<1>8. items'[f.item].carries = c
  BY <1>4, <1>6
<1>9. QED
  BY <1>7, <1>8

-----------------------------------------------------------------------------
(* What is given up was passed.                                                *)

\* A delivery is refused for a newer source that was taken or published.
LEMMA RefusedExcused ==
  ASSUME LaneTypeOK, Carried, Headed, Finishing, Numbered, NEW c \in Keys, DeliverRefused(c)
  PROVE  Excused(c)
<1>1. PICK t \in Targets : t = results[c].target
  BY DeliverRefusedResult, MayDeliverResult
<1>2. PICK n : n = NewestSource(t, results[c].source)
  OBVIOUS
<1>3. /\ results[c].source < n /\ n \in Known(t, results[c].source)
      /\ n \in 0..MaxRevision /\ results[c].source \in Nat
  BY <1>1, <1>2, DeliverRefusedResult, NewestSourceIsNewest, ClaimedResult, LaneAssumption
<1>4. n \in {heads[t]} \cup Sources(t) \cup FinishingSource(t)
  BY <1>3 DEF Known
<1>5. ASSUME NEW j \in Heard, results[j].target = t, results[j].source >= n
      PROVE  Excused(c)
  <2>1. j \in Keys /\ results[j].source \in Nat
    BY <1>5, ClaimedResult, LaneAssumption DEF Heard, LaneTypeOK, History
  <2>2. results[j].source > results[c].source
    BY <1>3, <1>5, <2>1, LaneAssumption
  <2>3. QED
    BY <1>1, <1>5, <2>2, SourceExcuses
<1>6. CASE n = heads[t]
  <2>1. heads[t] > 0
    BY <1>3, <1>6, LaneAssumption
  <2>2. PICK j \in Heard : results[j].target = t /\ results[j].source >= heads[t]
    BY <2>1 DEF Headed, HeadOf
  <2>3. QED
    BY <1>5, <1>6, <2>2
<1>7. CASE n \in Sources(t)
  <2>1. PICK i \in Keys : Live(i) /\ Of(i).target = t /\ n = Of(i).source
    BY <1>7 DEF Sources
  <2>2. PICK j \in Keys : j = items[i].carries /\ j \in Heard
    BY <2>1, LiveItem DEF Heard
  <2>3. results[j].target = t /\ results[j].source >= n
    BY <1>3, <2>1, <2>2, LaneAssumption DEF Of
  <2>4. QED
    BY <1>5, <2>2, <2>3
<1>8. CASE n \in FinishingSource(t)
  <2>1. reviews[t].state = "finishing" /\ n = reviews[t].leaseRevision
    BY <1>8 DEF FinishingSource
  <2>2. PICK j \in given.published : results[j].target = t /\ results[j].source >= n
    BY <2>1 DEF Finishing
  <2>3. QED
    BY <1>5, <2>2 DEF Heard
<1>9. QED
  BY <1>4, <1>6, <1>7, <1>8

LEMMA GivenUpExcused ==
  ASSUME RecordInv, Reasoned, NEW c \in Keys, GivesUp(c)
  PROVE  Excused(c) \/ DirectLate(c) \/ \E k \in Keys : OvertakenBy(k, c)
<1>1. /\ LaneTypeOK /\ Carried /\ Headed /\ Finishing /\ Numbered /\ Receipted
  BY DEF RecordInv, ReportInv, QueueInv
<1>2. CASE Refused(c)
  BY <1>1, <1>2, RefusedExcused DEF Refused
<1>3. CASE Outrun(c)
  BY <1>1, <1>3, SurpassedExcused DEF Outrun
<1>4. CASE BatchLate(c)
  <2>1. PICK k \in Keys : \E r \in Nat :
          Live(k) /\ NewerReceipts(k, r) # {} /\ c = items[k].carries
    BY <1>4 DEF BatchLate, BatchPublishes
  <2>2. PICK p \in receipts : p.fence = k
    BY <2>1 DEF NewerReceipts
  <2>3. QED
    BY <1>1, <2>1, <2>2, ReceiptExcuses
<1>5. CASE ReportedLate(c)
  BY <1>5 DEF ReportedLate, Reasoned
<1>6. QED
  BY <1>2, <1>3, <1>4, <1>5 DEF GivesUp

\* Where the numbering can be trusted, a newer source is of a newer review.
LEMMA OvertakenYields ==
  ASSUME LaneTypeOK, Carried, Counted, Grows, Numbered, NEW k \in Keys, NEW c \in Keys,
         OvertakenBy(k, c)
  PROVE  Yielded(c)'
<1>1. PICK j \in Overtaken(k) : c = items[j].carries
  BY DEF OvertakenBy
<1>2. j \in Keys /\ Live(j) /\ results[c].target = results[k].target
      /\ results[c].source < results[k].source
  BY <1>1 DEF Overtaken, Of
<1>3. DeliverNew(k)
  BY DEF OvertakenBy
<1>4. Claimed(k) /\ Claimed(c) /\ k \in Heard'
  BY <1>1, <1>2, <1>3, DeliverNewResult, MayDeliverResult, LiveItem DEF Heard
<1>5. results'[k] = results[k] /\ results'[c] = results[c]
  BY <1>4, ClaimedStays
<1>6. results[k].source \in Nat /\ results[c].source \in Nat
  BY ClaimedResult, LaneAssumption
<1>7. ASSUME NEW t \in Targets, results'[c].target = t, Trusted(t)'
      PROVE  Newer(k, c)'
  <2>1. Trusted(t) /\ results[k].target = t /\ results[c].target = t
    BY <1>2, <1>5, <1>7, TrustedBefore
  <2>2. results[k].source > results[c].source
    BY <1>2, <1>6
  <2>3. results[k].serial > results[c].serial
    BY <2>1, <2>2, SourceOrders
  <2>4. QED
    BY <1>2, <1>5, <2>3 DEF Newer
<1>8. QED
  BY <1>4, <1>7 DEF Yielded

LEMMA YieldedStep ==
  ASSUME RecordInv, Reasoned, \A c \in given.dropped : Yielded(c), [LaneNext]_allVars,
         NEW c \in given'.dropped
  PROVE  Yielded(c)'
<1>1. /\ QueueInv /\ LaneTypeOK /\ Carried /\ Counted /\ Running /\ Histories /\ Receipted /\ Numbered
      /\ Grows /\ LaneTypeOK'
  BY TypesStay DEF RecordInv, ReportInv, QueueInv, Typed
<1>2. c \in Keys
  BY <1>1 DEF LaneTypeOK, History
<1>3. CASE c \in given.dropped
  BY <1>1, <1>2, <1>3, YieldedStays DEF Histories
<1>4. CASE c \notin given.dropped
  <2>1. GivesUp(c)
    BY <1>1, <1>4, DroppedSteps
  <2>2. Claimed(c)
    BY <1>1, <1>2, <2>1, GivenUpIsClaimed
  <2>3. CASE Excused(c)
    BY <1>1, <1>2, <2>2, <2>3, YieldedStays DEF Excused
  <2>4. CASE DirectLate(c)
    <3>1. PICK t \in Targets : DirectPublish(t) /\ c = reviews[t].run
      BY <2>4 DEF DirectLate
    <3>2. ~Queued(t)' /\ results'[c].target = t
      BY <1>1, <3>1, DirectFounds
    <3>3. QED
      BY <3>2 DEF Yielded, Trusted
  <2>5. ASSUME NEW k \in Keys, OvertakenBy(k, c)
        PROVE  Yielded(c)'
    BY <1>1, <1>2, <2>5, OvertakenYields
  <2>6. QED
    BY <1>2, <2>1, <2>3, <2>4, <2>5, GivenUpExcused
<1>5. QED
  BY <1>3, <1>4

-----------------------------------------------------------------------------
(* What becomes of a result that is queued.                                    *)

\* A letter keeps its artifact: its rows are only reopened.
Archived(i) == SameLetters(i) \/ (Live(i) /\ Filed(i, items[i].revision, items[i].carries))

LEMMA LetterSteps ==
  ASSUME QueueInv, [LaneNext]_allVars, NEW i \in Keys
  PROVE  Archived(i)
<1>1. LaneTypeOK /\ IInv /\ Granted /\ Manifests /\ Carried
  BY DEF QueueInv
<1>2. CASE UNCHANGED letters
  BY <1>2 DEF Archived, SameLetters, SameLetter
<1>3. ASSUME NEW k \in Keys, NEW r \in Revisions, ReplayDeadLetter(k, r)
      PROVE  Archived(i)
  <2>1. SameLetters(i) \/ (items[i].state = "parked" /\ Filed(i, items[i].revision, items[i].carries))
    BY <1>1, <1>3, ReplayResult
  <2>2. QED
    BY <2>1 DEF Archived, Live
<1>4. ASSUME NEW k \in Keys, NEW r \in Revisions, RecoverFresh(k, r) \/ ResolveDeadLetter(k, r)
      PROVE  Archived(i)
  <2>1. SameLetters(i) \/ (items[i].state = "parked" /\ Filed(i, items[i].revision, items[i].carries))
    BY <1>1, <1>4, ResolveResult
  <2>2. QED
    BY <2>1 DEF Archived, Live
<1>5. ASSUME NEW b \in BatchIds, Settling(b)
      PROVE  Archived(i)
  <2>1. PICK fences \in SUBSET Fences :
          (\A f, g \in fences : f.item = g.item => f = g) /\ CompleteBatch(b, fences)
    BY <1>1, <1>5, SettlingResult
  <2>2. PICK settled : settled = SettledBy(b, fences)
    OBVIOUS
  <2>3. \/ Stays(i, settled) \/ Requeued(i, settled)
        \/ Done(i, settled, Kind(b), RevisionOf(fences)) \/ DeadLettered(i, settled)
    BY <1>1, <2>1, <2>2, SettlingItems
  <2>4. settled \in SUBSET {k \in Keys : Live(k)}
    BY <1>1, <2>1, <2>2, CompleteBatchResult
  <2>5. QED
    BY <2>3, <2>4 DEF Stays, Requeued, Done, DeadLettered, Archived
<1>6. ASSUME NEW t \in Targets, ReviewLane(t) \/ DirectPublish(t)
      PROVE  UNCHANGED letters
  BY <1>6, ReviewLaneKeeps DEF DirectPublish
<1>7. ASSUME NEW k \in Keys, Deliver(k)
      PROVE  UNCHANGED letters
  BY <1>7 DEF Deliver, DeliverRefused, DeliverDuplicate, DeliverNew, MayDeliver
<1>8. ASSUME NEW b \in BatchIds, Fetches(b)
      PROVE  UNCHANGED letters
  BY <1>8 DEF Fetches, Load, Commit, Acknowledge
<1>9. ASSUME NEW b \in BatchIds, NEW f \in workers[b].manifest, PublishItem(b, f)
      PROVE  UNCHANGED letters
  BY <1>9 DEF PublishItem
<1>10. QED
  BY <1>2, <1>3, <1>4, <1>5, <1>6, <1>7, <1>8, <1>9, RecordCases DEF PruneStale

\* Where an item's result is found, once it is filed.
LEMMA FiledHoused ==
  ASSUME LaneTypeOK, Carried, NEW i \in Keys, Live(i), Filed(i, items[i].revision, items[i].carries)
  PROVE  \E d \in Twins(items[i].carries) : Housed(d)'
<1>1. PICK c \in Keys : c = items[i].carries
  BY LiveItem
<1>2. PICK r \in Revisions : r = items[i].revision
  BY LiveItem, LaneAssumption
<1>3. c \in Twins(i)
  BY <1>1 DEF Carried, Carries
<1>4. letters'[i][r].carries = IF letters[i][r].status = "none" THEN c ELSE letters[i][r].carries
  BY <1>1, <1>2 DEF Filed
<1>5. CASE letters[i][r].status = "none"
  <2>1. Housed(c)'
    BY <1>4, <1>5 DEF Housed
  <2>2. QED
    BY <1>1, <2>1 DEF Twins
<1>6. CASE letters[i][r].status # "none"
  <2>1. PICK d \in Twins(i) : d = letters[i][r].carries
    BY <1>6 DEF Carried, Carries
  <2>2. Housed(d)'
    BY <1>4, <1>6, <2>1 DEF Housed
  <2>3. d \in Twins(c)
    BY <1>3, <2>1 DEF Twins
  <2>4. QED
    BY <1>1, <2>2, <2>3
<1>7. QED
  BY <1>5, <1>6

\* What a letter has stays housed.
LEMMA LetterHouses ==
  ASSUME QueueInv, [LaneNext]_allVars, NEW i \in Keys, NEW r \in Revisions, NEW c \in Keys,
         letters[i][r].carries = c
  PROVE  Housed(c)'
<1>1. Archived(i)
  BY LetterSteps
<1>2. letters[i][r].status # "none"
  BY LaneAssumption DEF QueueInv, Carried
<1>3. letters'[i][r].carries = letters[i][r].carries
  BY <1>1, <1>2 DEF Archived, SameLetters, SameLetter, Filed
<1>4. QED
  BY <1>3 DEF Housed

\* What becomes of the result c of an item: it, or a result of its lineage, is still
\* queued or filed; it is handed back; or it was passed.
Fated(c) ==
  \/ \E d \in Twins(c) : Housed(d)'
  \/ c \in given'.refreshed
  \/ Passed(c)'

LEMMA StillFated ==
  ASSUME NEW i \in Keys, items'[i].state # "absent", NEW c \in Keys, items'[i].carries \in Twins(c)
  PROVE  Fated(c)
<1>1. PICK d \in Twins(c) : d = items'[i].carries
  OBVIOUS
<1>2. Housed(d)'
  BY <1>1 DEF Housed, Live
<1>3. QED
  BY <1>2 DEF Fated

LEMMA DeliveryFated ==
  ASSUME LaneTypeOK, Carried, Counted, Grows, NEW k \in Keys, Deliver(k),
         NEW i \in Keys, Live(i), NEW c \in Keys, c = items[i].carries
  PROVE  Fated(c)
<1>1. c \in Twins(i) /\ c \in Twins(c) /\ Claimed(c)
  BY LiveItem DEF Carried, Carries, Twins
<1>2. items'[i] = items[i] => Fated(c)
  BY <1>1, StillFated DEF Live
<1>3. CASE DeliverRefused(k)
  BY <1>1, <1>2, <1>3, DeliverRefusedResult
<1>4. CASE DeliverDuplicate(k)
  <2>1. PICK j \in SameLineage(k) :
          /\ \/ items'[j] = items[j]
             \/ items'[j] = [items[j] EXCEPT !.carries = NewestArtifact(k)]
          /\ \A n \in Keys : n # j => items'[n] = items[n] \/ n \in SameLineage(k)
    BY <1>4, DeliverDuplicateResult
  <2>2. Claimed(k)
    BY <1>4, DeliverDuplicateResult, MayDeliverResult
  <2>3. j \in Keys /\ Live(j) /\ items[j].carries \in Twins(k) /\ items[j] \in Item
    BY <2>1, Lineage, RowTypes
  <2>4. items'[j].state # "absent" /\ items'[j].carries \in Twins(k)
    BY <2>1, <2>2, <2>3, NewestArtifactOfLineage DEF Live, Item
  <2>5. CASE i \in SameLineage(k)
    <3>1. c \in Twins(k)
      BY <1>1, <2>5, Lineage
    <3>2. Twins(c) = Twins(k)
      BY <3>1 DEF Twins
    <3>3. QED
      BY <1>1, <2>3, <2>4, <3>2, StillFated
  <2>6. QED
    BY <1>2, <2>1, <2>5
<1>5. CASE DeliverNew(k)
  <2>1. /\ items'[k].state = "pending" /\ items'[k].carries = k
        /\ \A n \in Keys : n # k => items'[n] = items[n] \/ n \in SameLineage(k) \cup Overtaken(k)
        /\ k \in given'.taken
    BY <1>5, DeliverNewResult
  <2>2. CASE i = k \/ i \in SameLineage(k)
    <3>1. k \in Twins(c)
      BY <1>1, <2>2, Lineage DEF Twins
    <3>2. QED
      BY <1>1, <2>1, <3>1, StillFated
  <2>3. CASE i \in Overtaken(k)
    <3>1. results[c].target = results[k].target /\ results[c].source < results[k].source
      BY <1>1, <2>3 DEF Overtaken, Of
    <3>2. Claimed(k)
      BY <1>5, DeliverNewResult, MayDeliverResult
    <3>3. results'[k] = results[k] /\ results'[c] = results[c]
          /\ results[k].source \in Nat /\ results[c].source \in Nat
      BY <1>1, <3>2, ClaimedStays, ClaimedResult, LaneAssumption
    <3>4. Overtakes(k, c)' /\ k \in Heard'
      BY <2>1, <3>1, <3>3 DEF Overtakes, Heard
    <3>5. QED
      BY <1>1, <3>4 DEF Fated, Passed
  <2>4. QED
    BY <1>1, <1>2, <2>1, <2>2, <2>3
<1>6. QED
  BY <1>1, <1>3, <1>4, <1>5 DEF Deliver

-----------------------------------------------------------------------------
(* No result is lost.                                                          *)

LEMMA ExcusedFated ==
  ASSUME LaneTypeOK, Grows, Histories, NEW c \in Keys, Claimed(c), Excused(c)
  PROVE  Fated(c)
<1>1. Passed(c)'
  BY PassedStays DEF Excused
<1>2. QED
  BY <1>1 DEF Fated

\* What a publisher settles goes for a reason, or is filed.
LEMMA SettlingFated ==
  ASSUME RecordInv, Reasoned, Grows, NEW b \in BatchIds, Settling(b),
         NEW i \in Keys, Live(i), NEW c \in Keys, c = items[i].carries
  PROVE  Fated(c)
<1>1. /\ LaneTypeOK /\ IInv /\ Granted /\ Manifests /\ Carried /\ Histories /\ Receipted /\ Reported
  BY DEF RecordInv, ReportInv, QueueInv
<1>2. c \in Twins(c) /\ Claimed(c)
  BY <1>1, LiveItem DEF Twins
<1>3. PICK fences \in SUBSET Fences :
        /\ fences \subseteq workers[b].manifest
        /\ \A f, g \in fences : f.item = g.item => f = g
        /\ CompleteBatch(b, fences)
  BY <1>1, SettlingResult
<1>4. PICK settled : settled = SettledBy(b, fences)
  OBVIOUS
<1>5. \/ Stays(i, settled) \/ Requeued(i, settled)
      \/ Done(i, settled, Kind(b), RevisionOf(fences)) \/ DeadLettered(i, settled)
  BY <1>1, <1>3, <1>4, SettlingItems
<1>6. CASE Stays(i, settled) \/ Requeued(i, settled)
  <2>1. items'[i].state # "absent" /\ items'[i].carries = c
    BY <1>6 DEF Stays, Requeued, Live
  <2>2. QED
    BY <1>2, <2>1, StillFated
<1>7. CASE DeadLettered(i, settled)
  <2>1. Filed(i, items[i].revision, items[i].carries)
    BY <1>7 DEF DeadLettered
  <2>2. \E d \in Twins(items[i].carries) : Housed(d)'
    BY <1>1, <2>1, FiledHoused
  <2>3. PICK d \in Twins(c) : Housed(d)'
    BY <2>2
  <2>4. QED
    BY <2>3 DEF Fated
<1>8. CASE Done(i, settled, Kind(b), RevisionOf(fences))
  <2>1. /\ i \in settled /\ items[i].revision = RevisionOf(fences)[i]
        /\ Kind(b)[i] \in {"published", "superseded", "refresh"}
        /\ Kind(b)[i] = "refresh" => items[i].carries \in given'.refreshed
    BY <1>8 DEF Done
  <2>2. items[i].revision \in Nat
    BY <1>1, LiveItem
  <2>3. items[i].revision <= RevisionOf(fences)[i]
    BY <2>1, <2>2
  <2>4. PICK f \in fences : f.item = i /\ f.revision = RevisionOf(fences)[i] /\ Owns(b, f)
    BY <1>1, <1>3, <1>4, <2>1, <2>3, SettledOwns
  <2>5. f \in workers[b].manifest /\ workers[b].outcome[f.item] = Kind(b)[i]
    BY <1>1, <1>3, <2>1, <2>4, KindIsKnown
  <2>6. CASE Kind(b)[i] = "published"
    <3>1. ReceiptFor(f.item, f.revision)
      BY <1>1, <2>5, <2>6 DEF Reported
    <3>2. PICK p \in receipts : p.fence = i
      BY <2>4, <3>1 DEF ReceiptFor, ReceiptsOf
    <3>3. Excused(c)
      BY <1>1, <3>2, ReceiptExcuses
    <3>4. QED
      BY <1>1, <1>2, <3>3, ExcusedFated
  <2>7. CASE Kind(b)[i] = "superseded"
    <3>1. Excused(c)
      BY <2>4, <2>5, <2>7 DEF Reasoned
    <3>2. QED
      BY <1>1, <1>2, <3>1, ExcusedFated
  <2>8. CASE Kind(b)[i] = "refresh"
    BY <2>1, <2>8 DEF Fated
  <2>9. QED
    BY <2>1, <2>6, <2>7, <2>8
<1>9. QED
  BY <1>5, <1>6, <1>7, <1>8

\* Whatever the step, a result that is queued stays, is filed or handed back, or was
\* passed.
LEMMA ItemFated ==
  ASSUME RecordInv, Reasoned, [LaneNext]_allVars,
         NEW i \in Keys, Live(i), NEW c \in Keys, c = items[i].carries
  PROVE  Fated(c)
<1>1. /\ LaneTypeOK /\ IInv /\ Granted /\ Manifests /\ Carried /\ Counted /\ Histories /\ Headed
      /\ Numbered /\ Grows
  BY TypesStay DEF RecordInv, ReportInv, QueueInv, Typed
<1>2. c \in Twins(c) /\ Claimed(c)
  BY <1>1, LiveItem DEF Twins
<1>3. items'[i] = items[i] => Fated(c)
  BY <1>2, StillFated DEF Live
<1>4. ASSUME Filed(i, items[i].revision, items[i].carries)
      PROVE  Fated(c)
  <2>1. \E d \in Twins(items[i].carries) : Housed(d)'
    BY <1>1, <1>4, FiledHoused
  <2>2. PICK d \in Twins(c) : Housed(d)'
    BY <2>1
  <2>3. QED
    BY <2>2 DEF Fated
<1>5. ASSUME Surpassed(i)
      PROVE  Fated(c)
  <2>1. Excused(c)
    BY <1>1, <1>5, SurpassedExcused
  <2>2. QED
    BY <1>1, <1>2, <2>1, ExcusedFated
<1>6. ASSUME NEW k \in Keys, Deliver(k)
      PROVE  Fated(c)
  BY <1>1, <1>6, DeliveryFated
<1>7. ASSUME NEW k \in Keys, NEW r \in Revisions, ReplayDeadLetter(k, r)
      PROVE  Fated(c)
  <2>1. /\ ~Live(k)
        /\ i # k => items'[i] = items[i] \/ Filed(i, items[i].revision, items[i].carries)
    BY <1>1, <1>7, ReplayResult
  <2>2. QED
    BY <1>3, <1>4, <2>1
<1>8. ASSUME NEW k \in Keys, NEW r \in Revisions, RecoverFresh(k, r) \/ ResolveDeadLetter(k, r)
      PROVE  Fated(c)
  <2>1. items'[i] = items[i] \/ Filed(i, items[i].revision, items[i].carries)
    BY <1>1, <1>8, ResolveResult
  <2>2. QED
    BY <1>3, <1>4, <2>1
<1>9. ASSUME PruneStale
      PROVE  Fated(c)
  <2>1. PICK pruned \in SUBSET Stale : items'[i] = IF i \in pruned THEN NoItem ELSE items[i]
    BY <1>1, <1>9, PruneStaleResult
  <2>2. QED
    BY <1>3, <1>5, <2>1 DEF Stale
<1>10. ASSUME NEW b \in BatchIds, Fetches(b)
       PROVE  Fated(c)
  <2>1. Fetch(b)
    BY <1>10 DEF Fetches, Load, Commit, Acknowledge
  <2>2. PICK gone \in SUBSET {k \in Keys : Live(k) /\ Surpassed(k)} :
          items'[i] = IF i \in gone THEN NoItem ELSE items[i]
    BY <1>1, <2>1, FetchResult
  <2>3. QED
    BY <1>3, <1>5, <2>2
<1>11. ASSUME NEW b \in BatchIds, Settling(b)
       PROVE  Fated(c)
  BY <1>1, <1>11, SettlingFated
<1>12. ASSUME \/ \E t \in Targets : ReviewLane(t) \/ DirectPublish(t)
              \/ \E b \in BatchIds : \E f \in workers[b].manifest : PublishItem(b, f)
       PROVE  UNCHANGED items
  BY <1>12, ReviewLaneKeeps DEF DirectPublish, PublishItem
<1>13. QED
  BY <1>3, <1>6, <1>7, <1>8, <1>9, <1>10, <1>11, <1>12, RecordCases

\* What keeps the account of a result goes on doing so.
LEMMA FatedKeeps ==
  ASSUME LaneTypeOK, Grows, Numbered', NEW k \in Keys, Claimed(k), NEW c \in Twins(k), Fated(c)
  PROVE  Kept(k)'
<1>1. /\ c \in Keys /\ Claimed(c)' /\ c \in Twins(k)' /\ results'[c] = results[c]
      /\ results'[k] = results[k] /\ Twins(c) = Twins(k)
  BY TwinsStay
<1>2. ASSUME NEW d \in Twins(c), Housed(d)'
      PROVE  Kept(k)'
  <2>1. d \in Twins(k)'
    BY <1>1, <1>2, TwinsStay
  <2>2. QED
    BY <1>2, <2>1 DEF Kept
<1>3. CASE c \in given'.refreshed
  BY <1>1, <1>3 DEF Kept
<1>4. ASSUME NEW j \in (Twins(c) \cap given.published)'
      PROVE  Kept(k)'
  <2>1. j \in Twins(k)'
    BY <1>1, <1>4 DEF Twins
  <2>2. QED
    BY <1>4, <2>1 DEF Kept
<1>5. ASSUME NEW j \in Heard', Overtakes(j, c)'
      PROVE  Kept(k)'
  <2>1. ASSUME NEW t \in Targets, results'[k].target = t, Trusted(t)'
        PROVE  c = k
    <3>1. k \in RunsOf(t)' /\ c \in RunsOf(t)'
      BY <1>1, <2>1 DEF RunsOf, Twins
    <3>2. QED
      BY <1>1, <2>1, <3>1 DEF Numbered, InOrder
  <2>2. QED
    BY <1>1, <1>5, <2>1 DEF Kept
<1>6. QED
  BY <1>2, <1>3, <1>4, <1>5 DEF Fated, Passed

LEMMA KeptOnes ==
  ASSUME RecordInv, Reasoned, [LaneNext]_allVars, Numbered', NEW k \in given.taken, Kept(k)
  PROVE  Kept(k)'
<1>1. /\ QueueInv /\ LaneTypeOK /\ Carried /\ Histories /\ Grows
  BY TypesStay DEF RecordInv, ReportInv, QueueInv, Typed
<1>2. k \in Keys /\ Claimed(k)
  BY <1>1 DEF Histories, Heard, LaneTypeOK, History
<1>3. ASSUME NEW j \in Twins(k)
      PROVE  j \in Twins(k)' /\ j \in Keys
  BY <1>1, <1>2, TwinsStay
<1>4. ASSUME NEW j \in Twins(k), NEW i \in Keys, Live(i), items[i].carries = j
      PROVE  Kept(k)'
  BY <1>1, <1>2, <1>3, <1>4, ItemFated, FatedKeeps
<1>5. ASSUME NEW j \in Twins(k), NEW i \in Keys, NEW r \in Revisions, letters[i][r].carries = j
      PROVE  Kept(k)'
  <2>1. Housed(j)'
    BY <1>1, <1>3, <1>5, LetterHouses
  <2>2. QED
    BY <1>3, <1>5, <2>1 DEF Kept
<1>6. ASSUME NEW j \in Twins(k), j \in given.published \cup given.refreshed
      PROVE  Kept(k)'
  <2>1. j \in given'.published \cup given'.refreshed
    BY <1>1, <1>6 DEF Grows
  <2>2. QED
    BY <1>3, <1>6, <2>1 DEF Kept
<1>7. ASSUME NEW j \in Heard, NEW i \in Twins(k), Overtakes(j, i),
             \A t \in Targets : results[k].target = t /\ Trusted(t) => i = k
      PROVE  Kept(k)'
  <2>1. j \in Heard' /\ results'[j] = results[j] /\ results'[i] = results[i]
        /\ results'[k] = results[k]
    BY <1>1, <1>2, <1>7, HeardStays, TwinsStay
  <2>2. Overtakes(j, i)'
    BY <1>7, <2>1 DEF Overtakes
  <2>3. \A t \in Targets : results'[k].target = t /\ Trusted(t)' => i = k
    BY <1>1, <1>7, <2>1, TrustedBefore
  <2>4. QED
    BY <1>3, <1>7, <2>1, <2>2, <2>3 DEF Kept
<1>8. QED
  BY <1>4, <1>5, <1>6, <1>7 DEF Kept, Housed

\* What a delivery takes is queued, by its own item or by one of its lineage.
LEMMA TakenKept ==
  ASSUME QueueInv, Grows, [LaneNext]_allVars, NEW k \in given'.taken, k \notin given.taken
  PROVE  Kept(k)'
<1>1. LaneTypeOK /\ Carried /\ Counted
  BY DEF QueueInv
<1>2. PICK n \in Keys : Deliver(n)
  BY DeliverySteps
<1>3. ~DeliverRefused(n) /\ n = k
  BY <1>1, <1>2, DeliverOutcome, DeliverRefusedResult DEF Accepts
<1>4. Claimed(k) /\ k \in Keys
  BY <1>1, <1>2, <1>3, DeliverOutcome, MayDeliverResult
<1>5. ASSUME NEW i \in Keys, NEW d \in Twins(k), items'[i].state # "absent", items'[i].carries = d
      PROVE  Kept(k)'
  <2>1. d \in Twins(k)'
    BY <1>1, <1>4, TwinsStay
  <2>2. Housed(d)'
    BY <1>5 DEF Housed, Live
  <2>3. QED
    BY <2>1, <2>2 DEF Kept
<1>6. CASE DeliverNew(k)
  <2>1. items'[k].state = "pending" /\ items'[k].carries = k /\ k \in Twins(k)
    BY <1>1, <1>4, <1>6, DeliverNewResult DEF Twins
  <2>2. QED
    BY <1>4, <1>5, <2>1
<1>7. CASE DeliverDuplicate(k)
  <2>1. PICK j \in SameLineage(k) :
          \/ items'[j] = items[j]
          \/ items'[j] = [items[j] EXCEPT !.carries = NewestArtifact(k)]
    BY <1>1, <1>4, <1>7, DeliverDuplicateResult
  <2>2. j \in Keys /\ Live(j) /\ items[j].carries \in Twins(k) /\ items[j] \in Item
    BY <1>1, <1>4, <2>1, Lineage, RowTypes
  <2>3. items'[j].state # "absent" /\ items'[j].carries \in Twins(k)
    BY <1>1, <1>4, <2>1, <2>2, NewestArtifactOfLineage DEF Live, Item
  <2>4. QED
    BY <1>5, <2>2, <2>3
<1>8. QED
  BY <1>2, <1>3, <1>6, <1>7 DEF Deliver

LEMMA LaneStays ==
  ASSUME LaneInv, [LaneNext]_allVars
  PROVE  LaneInv'
<1>1. RecordInv /\ Reasoned
  BY DEF LaneInv
<1>2. QueueInv /\ Grows
  BY <1>1, TypesStay DEF RecordInv, ReportInv, Typed
<1>3. RecordInv' /\ Numbered'
  BY <1>1, RecordStays DEF RecordInv
<1>4. Reasoned'
  BY <1>1, ReasonedStays
<1>5. ASSUME NEW c \in given'.dropped
      PROVE  Yielded(c)'
  BY <1>1, <1>5, YieldedStep DEF LaneInv
<1>6. ASSUME NEW k \in given'.taken
      PROVE  Kept(k)'
  <2>1. CASE k \in given.taken
    BY <1>1, <1>3, <2>1, KeptOnes DEF LaneInv
  <2>2. CASE k \notin given.taken
    BY <1>2, <1>6, <2>2, TakenKept
  <2>3. QED
    BY <2>1, <2>2
<1>7. QED
  BY <1>3, <1>4, <1>5, <1>6 DEF LaneInv

LEMMA LaneInitially ==
  ASSUME LaneInit
  PROVE  LaneInv
<1>1. RecordInv
  BY RecordInitially
<1>2. Reasoned /\ given.dropped = {} /\ given.taken = {}
  BY DEF LaneInit, Reasoned, NoWorker
<1>3. QED
  BY <1>1, <1>2 DEF LaneInv

\* A result that the queue took is accounted for as long as the queue runs: it, or a
\* result of its lineage, is queued, a dead letter, published or handed back for a
\* fresh review, or a later one was taken or published; through refusals, duplicates,
\* prunes, fetches, lost answers, crashes, exhausted retries and an operator's replay.
THEOREM ResultsAreKept == LaneSpec => []NoResultIsLost
<1>1. LaneInv => NoResultIsLost
  <2> SUFFICES ASSUME LaneInv, NEW k \in given.taken
               PROVE  \/ \E j \in Twins(k) :
                           \/ \E i \in Keys : Live(i) /\ items[i].carries = j
                           \/ j \in given.published \cup given.refreshed
                           \/ \E i \in Keys, r \in Revisions : letters[i][r].carries = j
                      \/ \E j \in given.taken \cup given.published, i \in Twins(k) :
                           Overtakes(j, i) /\ (i = k \/ ~Trusted(results[k].target))
    BY DEF NoResultIsLost
  <2>1. Kept(k) /\ LaneTypeOK /\ Histories
    BY DEF LaneInv, RecordInv, ReportInv, QueueInv
  <2>2. results[k].target \in Targets
    BY <2>1, ClaimedResult DEF Histories, Heard, LaneTypeOK, History
  <2>3. QED
    BY <2>1, <2>2 DEF Kept, Housed, Heard
<1>2. QED
  BY <1>1, LaneInitially, LaneStays, PTL DEF LaneSpec

\* What is given up as superseded, by a refusal, a newer delivery, a prune, a fetch, a
\* receipt or a publisher's report, was published before, or a newer review of its
\* target was taken or published, unless the target's numbering started over.
THEOREM GivenUpOnlyForNewer == LaneSpec => []GivenUpForNewer
<1>1. LaneInv => GivenUpForNewer
  <2> SUFFICES ASSUME LaneInv, NEW k \in given.dropped, Trusted(results[k].target)
               PROVE  \/ Twins(k) \cap given.published # {}
                      \/ \E j \in given.taken \cup given.published :
                           results[j].target = results[k].target /\ results[j].serial > results[k].serial
    BY DEF GivenUpForNewer
  <2>1. Yielded(k) /\ LaneTypeOK /\ Histories
    BY DEF LaneInv, RecordInv, ReportInv, QueueInv
  <2>2. results[k].target \in Targets
    BY <2>1, ClaimedResult DEF Histories, LaneTypeOK, History
  <2>3. QED
    BY <2>1, <2>2 DEF Yielded, Newer, Heard
<1>2. QED
  BY <1>1, LaneInitially, LaneStays, PTL DEF LaneSpec

=============================================================================
