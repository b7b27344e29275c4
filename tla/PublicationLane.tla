--------------------------- MODULE PublicationLane ---------------------------
(***************************************************************************)
(* The publication lane of the exact-review queue: what happens to the     *)
(* result of a review between the run that produced it and the canonical   *)
(* record of its target.  Handlers of dashboard/exact-review-queue.ts and  *)
(* the receipts of exact-review-direct-publication.ts, composed with the   *)
(* batch store and with the publisher workflow that drives it              *)
(* (src/repair/exact-review-batch-cli.ts).                                 *)
(*                                                                         *)
(* A review run is named by the key of the publication it enqueues.  Runs  *)
(* of one target are numbered in the order of their claims (`serial`): a   *)
(* later run saw the target later.  No guard of the queue reads a serial.  *)
(* The review lane itself is ExactReviewQueue; here it is its outline.     *)
(***************************************************************************)
EXTENDS PublicationBatches

CONSTANTS
  Targets,            \* reviewed pull requests and issues
  RetryLimit,         \* failures after which a publication is given up
  DeadLetterLimit,    \* EXACT_REVIEW_QUEUE_DEAD_LETTER_LIMIT
  DirectPublication,  \* vars.EXACT_REVIEW_DIRECT_PUBLICATION_ENABLED
  LateProducers,      \* may a run that lost its lease still enqueue its result?
  OperatorActs,       \* does an operator replay, recover and resolve dead letters?
  MaxRevision,        \* bound: revisions of a review
  MaxDeliveries,      \* bound: deliveries of one result
  FaultBudgets        \* bound: how publications fail, and how many faults there are

ASSUME LaneAssumption ==
  /\ RetryLimit \in Nat \ {0} /\ DeadLetterLimit \in Nat
  /\ {DirectPublication, LateProducers, OperatorActs} \subseteq BOOLEAN
  /\ MaxRevision \in Nat /\ MaxDeliveries \in Nat /\ Revisions = 1..MaxDeliveries
  /\ FaultBudgets \subseteq
       [kinds: SUBSET {"retryable", "unattempted", "permanent", "refresh"}, left: Nat]
  /\ Owners # {} /\ "none" \notin Keys \cup Targets /\ Keys \cap Targets = {}

VARIABLES
  reviews,    \* the review item of each target
  results,    \* what the run of each key reviews
  sent,       \* how often its result was delivered
  items,      \* the publication items of the queue
  heads,      \* publication head table: the newest source enqueued, by target
  receipts,   \* direct publication table: fence and revision already published
  canonical,  \* canonical record of each target: the serial and source it shows
  letters,    \* dead letter table, by item and revision
  workers,    \* the publisher workflow of each batch
  given,      \* history: results the queue took, published, or gave up as superseded
  faults      \* the failures of a publication there may be, and the faults left

laneVars == <<reviews, results, sent, items, heads, receipts, canonical, letters,
              workers, given, faults>>
allVars == <<batchVars, laneVars>>

-----------------------------------------------------------------------------

Publisher == CHOOSE o \in Owners : TRUE

Review == [state: {"none", "pending", "leased", "finishing"}, revision: 0..MaxRevision,
           leaseRevision: 0..MaxRevision, generation: Nat, run: Keys \cup {"none"}]
NoReview == [state |-> "none", revision |-> 0, leaseRevision |-> 0, generation |-> 0, run |-> "none"]

NoResult == [target |-> "none", source |-> 0, generation |-> 0, serial |-> 0]

\* carries: the run whose artifact the item publishes.
NoItem == [state |-> "absent", revision |-> 0, attempts |-> 0, carries |-> "none"]

Fences == [item: Keys, revision: Revisions, generation: 1..MaxGeneration]
WorkOutcomes == {"none", "eligible", "published", "superseded", "retryable",
                 "unattempted", "permanent", "refresh"}
NoWorker == [pc |-> "idle", manifest |-> {}, current |-> {}, outcome |-> [k \in Keys |-> "none"]]

\* A dead letter keeps the artifact of its first insertion.
NoLetter == [status |-> "none", carries |-> "none"]

Live(k) == items[k].state # "absent"
Of(k) == results[items[k].carries]

\* Mutant: the publication head is not consulted.
MutantSurpassed(k) == FALSE

\* A publication of a newer source of the target was enqueued.
Surpassed(k) == Of(k).source < heads[Of(k).target]

LaneInit ==
  /\ BatchInit
  /\ reviews = [t \in Targets |-> NoReview]
  /\ results = [k \in Keys |-> NoResult]
  /\ sent = [k \in Keys |-> 0]
  /\ items = [k \in Keys |-> NoItem]
  /\ heads = [t \in Targets |-> 0]
  /\ receipts = {}
  /\ canonical = [t \in Targets |-> [serial |-> 0, source |-> 0]]
  /\ letters = [k \in Keys |-> [r \in Revisions |-> NoLetter]]
  /\ workers = [b \in BatchIds |-> NoWorker]
  /\ given = [taken |-> {}, published |-> {}, dropped |-> {}, refreshed |-> {}]
  /\ faults \in FaultBudgets

Fault == faults.left > 0 /\ faults' = [faults EXCEPT !.left = @ - 1]

-----------------------------------------------------------------------------
(* The review lane in outline.                                             *)

Larger(a, b) == IF a >= b THEN a ELSE b

\* Mutant: a new item starts at revision 1, whatever was published.
MutantNextRevision(t, minimum) == minimum

\* nextExactReviewItemRevisionSync
NextRevision(t, minimum) == Larger(minimum, heads[t] + 1)

\* A source event: a new item, or the next revision of the one there is.  It
\* supersedes an active lease, unless the event does not ask for that.
ReviewEvent(t) ==
  LET r == reviews[t] IN
  /\ NextRevision(t, r.revision + 1) <= MaxRevision
  /\ \/ /\ r.state \in {"none", "pending"}
        /\ reviews' = [reviews EXCEPT ![t].state = "pending",
                                      ![t].revision = NextRevision(t, r.revision + 1)]
     \/ /\ r.state \in {"leased", "finishing"}
        /\ reviews' = [reviews EXCEPT ![t].revision = NextRevision(t, r.revision + 1)]
     \/ /\ r.state \in {"leased", "finishing"}
        /\ reviews' = [reviews EXCEPT ![t].state = "pending", ![t].run = "none",
                                      ![t].revision = NextRevision(t, r.revision + 1)]
  /\ UNCHANGED <<batchVars, results, sent, items, heads, receipts, canonical, letters,
                 workers, given, faults>>

RunsOf(t) == {k \in Keys : results[k].target = t}

\* A run is dispatched and claims the review.
ClaimReview(t, k) ==
  LET r == reviews[t] IN
  /\ r.state = "pending" /\ results[k] = NoResult
  /\ reviews' = [reviews EXCEPT ![t] = [state |-> "leased", revision |-> r.revision,
                                        leaseRevision |-> r.revision,
                                        generation |-> r.generation + 1, run |-> k]]
  /\ results' = [results EXCEPT ![k] = [target |-> t, source |-> r.revision,
                                        generation |-> r.generation + 1,
                                        serial |-> Cardinality(RunsOf(t)) + 1]]
  /\ UNCHANGED <<batchVars, sent, items, heads, receipts, canonical, letters,
                 workers, given, faults>>

\* The lease lapses: the run crashed, or is too slow.
LoseReview(t) ==
  /\ reviews[t].state = "leased"
  /\ Fault
  /\ reviews' = [reviews EXCEPT ![t].state = "pending", ![t].run = "none"]
  /\ UNCHANGED <<batchVars, results, sent, items, heads, receipts, canonical, letters,
                 workers, given>>

\* The run completes the review once its result is enqueued (or, published
\* directly, finalised): the item goes, or is pending again if a newer revision is
\* another input.
CompleteReview(t) ==
  LET r == reviews[t] IN
  /\ \/ r.state = "finishing"
     \/ r.state = "leased" /\ sent[r.run] > 0
  /\ \/ reviews' = [reviews EXCEPT ![t] = NoReview]
     \/ /\ r.revision > r.leaseRevision
        /\ reviews' = [reviews EXCEPT ![t].state = "pending", ![t].run = "none"]
  /\ UNCHANGED <<batchVars, results, sent, items, heads, receipts, canonical, letters,
                 workers, given, faults>>

-----------------------------------------------------------------------------
(* Enqueue of a publication.                                               *)

Sources(t) == {Of(j).source : j \in {k \in Keys : Live(k) /\ Of(k).target = t}}
FinishingSource(t) == IF reviews[t].state = "finishing" THEN {reviews[t].leaseRevision} ELSE {}

NewestSource(t, source) ==
  CHOOSE n \in {source, heads[t]} \cup Sources(t) \cup FinishingSource(t) :
    \A m \in {source, heads[t]} \cup Sources(t) \cup FinishingSource(t) : m <= n

SameLineage(k) == {j \in Keys : /\ Live(j)
                                /\ Of(j).target = results[k].target
                                /\ Of(j).source = results[k].source
                                /\ Of(j).generation = results[k].generation}

MayDeliver(k) ==
  /\ results[k] # NoResult /\ sent[k] < MaxDeliveries
  /\ \/ LateProducers
     \/ sent[k] > 0
     \/ /\ reviews[results[k].target].state = "leased"
        /\ reviews[results[k].target].run = k
  /\ sent' = [sent EXCEPT ![k] = @ + 1]
  /\ heads' = [heads EXCEPT ![results[k].target] =
                 NewestSource(results[k].target, results[k].source)]
  /\ Touch  \* activeLeaseSnapshot
  /\ UNCHANGED <<reviews, results, receipts, canonical, letters, workers, faults>>

\* A newer source is known already: the delivery is answered, and given up.
DeliverRefused(k) ==
  /\ MayDeliver(k)
  /\ results[k].source < NewestSource(results[k].target, results[k].source)
  /\ given' = [given EXCEPT !.dropped = @ \cup {k}]
  /\ UNCHANGED items

Newest(runs) == CHOOSE j \in runs : \A i \in runs : results[i].serial <= results[j].serial

\* The item that keeps the queue slot of a lineage: an owned one if there is.
Retained(k, j) ==
  LET owned == SameLineage(k) \cap OwnedItems(memberships') IN
  j \in IF owned # {} THEN owned ELSE SameLineage(k)

Duplicates(k, j) == (SameLineage(k) \ {j}) \ OwnedItems(memberships')

NewestArtifact(k) == Newest({items[j].carries : j \in SameLineage(k)} \cup {k})

\* Another run delivers the same lineage: the retained item takes the newest
\* artifact, unless a batch is publishing it, and its duplicates go.
DeliverDuplicate(k) ==
  /\ MayDeliver(k)
  /\ results[k].source = NewestSource(results[k].target, results[k].source)
  /\ \E j \in Keys :
       /\ Retained(k, j)
       /\ \/ j # k
          \/ items[j].carries # k
          \/ j \notin OwnedItems(memberships') /\ NewestArtifact(k) # k
       /\ items' = [i \in Keys |->
            IF i \in Duplicates(k, j) THEN NoItem
            ELSE IF i = j /\ j \notin OwnedItems(memberships')
            THEN [items[i] EXCEPT !.carries = NewestArtifact(k)] ELSE items[i]]
  /\ given' = [given EXCEPT !.taken = @ \cup {k}]

\* Mutant: an older publication goes even while a batch publishes it.
MutantOvertaken(k) == {j \in Keys : /\ Live(j) /\ Of(j).target = results[k].target
                                    /\ Of(j).source < results[k].source}

\* Older publications of the target that no batch is publishing.
Overtaken(k) == {j \in Keys : /\ Live(j) /\ Of(j).target = results[k].target
                              /\ Of(j).source < results[k].source
                              /\ j \notin OwnedItems(memberships')}

\* A new item, or the next revision of the same key's.
DeliverNew(k) ==
  /\ MayDeliver(k)
  /\ results[k].source = NewestSource(results[k].target, results[k].source)
  /\ \/ SameLineage(k) = {}
     \/ /\ Retained(k, k) /\ items[k].carries = k
        /\ k \in OwnedItems(memberships') \/ NewestArtifact(k) = k
  /\ items' = [j \in Keys |->
       IF j = k THEN [state |-> "pending", revision |-> items[k].revision + 1,
                      attempts |-> 0, carries |-> k]
       ELSE IF j \in Overtaken(k) \cup (SameLineage(k) \ OwnedItems(memberships'))
       THEN NoItem ELSE items[j]]
  /\ given' = [given EXCEPT !.taken = @ \cup {k},
                            !.dropped = @ \cup {items[j].carries : j \in Overtaken(k)}]

Deliver(k) == DeliverRefused(k) \/ DeliverDuplicate(k) \/ DeliverNew(k)

\* The alarm's stale prune, and the operator's supersede of listed candidates.
Stale == {k \in Keys : /\ Live(k) /\ Surpassed(k)
                       /\ k \notin OwnedItems(ReclaimedMemberships)}

PruneStale ==
  /\ \E pruned \in (SUBSET Stale) \ {{}} :
       /\ items' = [k \in Keys |-> IF k \in pruned THEN NoItem ELSE items[k]]
       /\ given' = [given EXCEPT !.dropped = @ \cup {items[k].carries : k \in pruned}]
  /\ Touch
  /\ UNCHANGED <<reviews, results, sent, heads, receipts, canonical, letters, workers, faults>>

-----------------------------------------------------------------------------
(* The receipts of canonical publication: accept.                          *)

Receipt == [fence: Keys \cup Targets, revision: Nat, outcome: {"published", "superseded"}]

ReceiptsOf(fence, revision) == {p \in receipts : p.fence = fence /\ p.revision = revision}
NewerReceipts(fence, revision) == {p \in receipts : p.fence = fence /\ p.revision > revision}

\* The result of run k is accepted under a fence that has no receipt yet.
AcceptPlan(fence, revision, k) ==
  LET outcome == IF NewerReceipts(fence, revision) # {} THEN "superseded" ELSE "published"
  IN /\ receipts' = receipts \cup {[fence |-> fence, revision |-> revision, outcome |-> outcome]}
     /\ IF outcome = "published"
        THEN /\ canonical' = [canonical EXCEPT ![results[k].target] =
                                [serial |-> results[k].serial, source |-> results[k].source]]
             /\ given' = [given EXCEPT !.published = @ \cup {k}]
        ELSE /\ given' = [given EXCEPT !.dropped = @ \cup {k}]
             /\ UNCHANGED canonical

\* The run publishes directly.  Whatever accept says, the review item becomes
\* the lease of its finalisation; the publication head does not move.  A fence
\* it no longer owns, or a receipt of another plan, leaves it the artifact path.
DirectPublish(t) ==
  LET r == reviews[t] IN
  /\ DirectPublication
  /\ r.state = "leased" /\ r.revision = r.leaseRevision /\ sent[r.run] = 0
  /\ ReceiptsOf(t, r.revision) = {}
  /\ AcceptPlan(t, r.revision, r.run)
  /\ reviews' = [reviews EXCEPT ![t].state = "finishing"]
  /\ sent' = [sent EXCEPT ![r.run] = MaxDeliveries]  \* and enqueues nothing
  /\ UNCHANGED <<batchVars, results, items, heads, letters, workers, faults>>

-----------------------------------------------------------------------------
(* Dead letters.                                                           *)

OpenLetters(ls) == {l \in Keys \X Revisions : ls[l[1]][l[2]].status = "open"}

\* insertDeadLetterSync; on a conflict it reopens the row.
Inserted(ls, k, r, carried) ==
  [ls[k] EXCEPT ![r] = [status |-> "open",
                        carries |-> IF @.status = "none" THEN carried ELSE @.carries]]

\* drainParkedDeadLettersSync: parked items move to the room there is.
Drained(its, ls, moved) ==
  LET parked == {k \in Keys : its[k].state = "parked"}
      open   == Cardinality(OpenLetters(ls))
      room   == IF open < DeadLetterLimit THEN DeadLetterLimit - open ELSE 0
  IN /\ moved \subseteq parked
     /\ Cardinality(moved) = IF Cardinality(parked) < room THEN Cardinality(parked) ELSE room
     /\ items' = [k \in Keys |-> IF k \in moved THEN NoItem ELSE its[k]]
     /\ letters' = [k \in Keys |-> IF k \in moved
                                     THEN Inserted(ls, k, its[k].revision, its[k].carries)
                                     ELSE ls[k]]

IsOpen(k, r) == OperatorActs /\ letters[k][r].status = "open"

\* The operator puts the artifact back in the queue.
ReplayDeadLetter(k, r) ==
  /\ IsOpen(k, r) /\ ~Live(k)
  /\ \E moved \in SUBSET Keys :
       Drained([items EXCEPT ![k] = [state |-> "pending", revision |-> r,
                                     attempts |-> 0, carries |-> letters[k][r].carries]],
               [letters EXCEPT ![k][r].status = "replayed"], moved)
  /\ UNCHANGED <<batchVars, reviews, results, sent, heads, receipts, canonical, workers,
                 given, faults>>

\* The operator asks for a fresh review instead.
RecoverFresh(k, r) ==
  LET t == results[k].target IN
  /\ IsOpen(k, r) /\ ~Live(k)
  /\ reviews[t].state = "none"
  /\ NextRevision(t, 1) <= MaxRevision
  /\ reviews' = [reviews EXCEPT ![t] = [NoReview EXCEPT !.state = "pending",
                                                        !.revision = NextRevision(t, 1)]]
  /\ \E moved \in SUBSET Keys : Drained(items, [letters EXCEPT ![k][r].status = "resolved"], moved)
  /\ UNCHANGED <<batchVars, results, sent, heads, receipts, canonical, workers, given, faults>>

ResolveDeadLetter(k, r) ==
  /\ IsOpen(k, r)
  /\ \E moved \in SUBSET Keys : Drained(items, [letters EXCEPT ![k][r].status = "resolved"], moved)
  /\ UNCHANGED <<batchVars, reviews, results, sent, heads, receipts, canonical, workers,
                 given, faults>>

-----------------------------------------------------------------------------
(* finishExactReviewPublicationQueueItem, for the items one call settles:  *)
(* kindOf is the completion each of them was given for revisionOf.         *)

\* The age limits of the code only bring exhaustion forward.
Exhausted(k) == items[k].attempts + 1 >= RetryLimit

\* Mutant: an exhausted item without room is dropped.
MutantParked(it) == NoItem

Parked(it) == [it EXCEPT !.state = "parked", !.attempts = @ + 1]

\* Mutant: the capacity is not looked at.
MutantLettered(exhausted, revisionOf, in) == in = exhausted

\* Exhausted items whose letter exists get in; the others as far as there is
\* room in the order of the call.
Lettered(exhausted, revisionOf, in) ==
  LET known == {k \in exhausted : letters[k][revisionOf[k]].status # "none"}
      open  == Cardinality(OpenLetters(letters))
      least == open + Cardinality({k \in known : letters[k][revisionOf[k]].status # "open"})
      room(n) == IF n < DeadLetterLimit THEN DeadLetterLimit - n ELSE 0
      others == Cardinality(exhausted \ known)
      atMost(n) == IF others < n THEN others ELSE n
  IN /\ known \subseteq in /\ in \subseteq exhausted
     /\ Cardinality(in \ known) \in atMost(room(least))..atMost(room(open))

\* refreshExactReviewPublicationItem: a new review starts at revision 1.
RefreshedReview(t, n) ==
  CASE n = 0 -> reviews[t]
    [] n > 0 /\ reviews[t].state = "none" ->
         [NoReview EXCEPT !.state = "pending", !.revision = n]
    [] n > 0 /\ reviews[t].state = "pending" -> [reviews[t] EXCEPT !.revision = @ + n]
    [] OTHER -> reviews[t]

FinishItems(settled, kindOf, revisionOf) ==
  LET newer     == {k \in settled : items[k].revision > revisionOf[k]}
      of(kinds) == {k \in settled \ newer : kindOf[k] \in kinds}
      failed    == of({"permanent", "retryable"})
      exhausted == {k \in failed : Exhausted(k)}
      refreshed == of({"refresh"})
      refreshes(t) == Cardinality({k \in refreshed : Of(k).target = t})
  IN \E in \in SUBSET exhausted :
       /\ Lettered(exhausted, revisionOf, in)
       /\ items' = [k \in Keys |->
            CASE k \in newer -> [items[k] EXCEPT !.state = "pending", !.attempts = 0]
              [] k \in of({"published", "superseded", "refresh"}) \cup in -> NoItem
              [] k \in exhausted \ in -> Parked(items[k])
              [] k \in of({"unattempted"}) -> [items[k] EXCEPT !.state = "pending"]
              [] k \in failed \ exhausted ->
                   [items[k] EXCEPT !.state = "pending", !.attempts = @ + 1]
              [] OTHER -> items[k]]
       /\ letters' = [k \in Keys |-> IF k \in in
                                     THEN Inserted(letters, k, revisionOf[k], items[k].carries)
                                     ELSE letters[k]]
       /\ \A t \in Targets : RefreshedReview(t, refreshes(t)).revision <= MaxRevision
       /\ reviews' = [t \in Targets |-> RefreshedReview(t, refreshes(t))]
       /\ given' = [given EXCEPT
            !.dropped = @ \cup {items[k].carries : k \in of({"superseded"})},
            !.refreshed = @ \cup {items[k].carries : k \in refreshed}]

-----------------------------------------------------------------------------
(* The handlers of a batch: claim, fetch, complete.                        *)

\* Candidates of a batch: pending, free, and not overtaken.
Claimable(k) ==
  /\ items[k].state = "pending"
  /\ k \notin OwnedItems(ReclaimedMemberships)
  /\ ~Surpassed(k)

\* A publisher workflow claims a batch.
ClaimBatch(b) ==
  /\ workers[b].pc = "idle"
  /\ \E chosen \in SUBSET {k \in Keys : Claimable(k)} :
       /\ chosen # {}
       /\ Claim(b, Publisher, {[item |-> k, revision |-> items[k].revision] : k \in chosen})
  /\ workers' = [workers EXCEPT ![b].pc = "claimed"]
  /\ UNCHANGED <<reviews, results, sent, items, heads, receipts, canonical, letters, given, faults>>

StaleMembers(b) ==
  {m \in MembersOf(ReclaimedMemberships, b) :
     /\ Open(m)
     /\ \/ ~Live(m.item)
        \/ items[m.item].revision # m.revision
        \/ Surpassed(m.item)}

\* Fetch settles the memberships that are out of date, and removes the items
\* that are overtaken at the very revision of the membership.
Fetch(b) ==
  LET stale == StaleMembers(b)
      gone == {m.item : m \in {n \in stale : /\ Live(n.item)
                                             /\ items[n.item].revision = n.revision}}
  IN /\ ReclaimedBatches[b].state \in {"leased", "completed"}
     /\ Complete(b, Publisher, {WithOutcome(m, "superseded") : m \in stale})
     /\ items' = [k \in Keys |-> IF k \in gone THEN NoItem ELSE items[k]]
     /\ given' = [given EXCEPT !.dropped = @ \cup {items[k].carries : k \in gone}]

\* What the call answers: the fences still to be published.
Fetched(b) ==
  {[item |-> m.item, revision |-> m.revision, generation |-> m.generation]
     : m \in {n \in MembersOf(memberships', b) :
                Open(n) /\ items'[n.item].state # "absent"
                        /\ items'[n.item].revision = n.revision}}

\* Mutant: what was prepared without a failure is reported as published.
MutantKind(b) == [k \in Keys |-> IF workers[b].outcome[k] = "eligible" THEN "published"
                                 ELSE IF workers[b].outcome[k] = "none" THEN "retryable"
                                 ELSE workers[b].outcome[k]]

\* What is not known to be published or overtaken is reported as retryable.
Kind(b) == [k \in Keys |-> IF workers[b].outcome[k] \in {"none", "eligible"} THEN "retryable"
                                                                       ELSE workers[b].outcome[k]]
RevisionOf(fences) == [k \in Keys |-> LET f == {g \in fences : g.item = k} IN
                                      IF f = {} THEN 0 ELSE (CHOOSE g \in f : TRUE).revision]
SettledAs(kind) == IF kind \in {"published", "superseded"} THEN kind ELSE "lease_expired"

\* Complete settles the accepted memberships and, in the same transaction, the
\* items behind them; an item at an older revision than its fence is left alone.
CompleteBatch(b, fences) ==
  LET accepted == Accepted(b, Publisher, fences)
  IN /\ Complete(b, Publisher, {WithOutcome(f, SettledAs(Kind(b)[f.item])) : f \in fences})
     /\ FinishItems({f.item : f \in {g \in accepted : /\ Live(g.item)
                                                      /\ items[g.item].revision >= g.revision}},
                    Kind(b), RevisionOf(fences))
     /\ UNCHANGED <<results, sent, heads, receipts, canonical, faults>>

-----------------------------------------------------------------------------
(* The publisher workflow.  Its steps run one after another; release runs  *)
(* always(), also when a step failed.                                      *)

Goto(b, pc) == workers' = [workers EXCEPT ![b].pc = pc]

\* A call that finds its lease gone fails the step.
LostLease(b) ==
  /\ workers[b].pc \in {"claimed", "loaded", "prepared", "committing"}
  /\ ReclaimedBatches[b].state \notin {"leased", "completed"}
  /\ Touch
  /\ Goto(b, IF workers[b].pc = "claimed" THEN "over" ELSE "releasing")
  /\ UNCHANGED <<reviews, results, sent, items, heads, receipts, canonical, letters, given, faults>>

\* claim also fetches: the manifest is what is still current.
Load(b) ==
  /\ workers[b].pc = "claimed"
  /\ Fetch(b)
  /\ workers' = [workers EXCEPT ![b].pc = IF Fetched(b) = {} THEN "over" ELSE "loaded",
                                ![b].manifest = Fetched(b)]
  /\ UNCHANGED <<reviews, results, sent, heads, receipts, canonical, letters, faults>>

\* Each item is prepared: its artifact is fetched, compared with the canonical
\* record, and found eligible, overtaken by that record, or unusable.
Prepare(b) ==
  LET members == {f.item : f \in workers[b].manifest}
      overtaken(k) == Live(k) /\ Of(k).serial < canonical[Of(k).target].serial
  IN /\ workers[b].pc = "loaded"
     /\ \E failed \in SUBSET members, kind \in faults.kinds \cup {"none"} :
          /\ (failed = {}) = (kind = "none")
          /\ IF failed = {} THEN UNCHANGED faults ELSE Fault
          /\ workers' = [workers EXCEPT
               ![b].pc = "prepared",
               ![b].outcome = [k \in Keys |->
                  CASE k \notin members -> "none"
                    [] k \in failed -> kind
                    [] overtaken(k) -> "superseded"
                    [] OTHER -> "eligible"]]
     /\ UNCHANGED <<batchVars, reviews, results, sent, items, heads, receipts, canonical,
                    letters, given>>

BatchHeartbeat(b) ==
  /\ workers[b].pc \in {"loaded", "prepared", "committing"}
  /\ Heartbeat(b, Publisher, workers[b].manifest, LeaseTicks)
  /\ UNCHANGED laneVars

\* commit fetches again, and publishes what is eligible and still current.
Commit(b) ==
  /\ workers[b].pc = "prepared"
  /\ Fetch(b)
  /\ workers' = [workers EXCEPT
       ![b].pc = "committing",
       ![b].outcome = [k \in Keys |->
          IF @[k] = "eligible" /\ k \notin {f.item : f \in Fetched(b)}
          THEN "retryable" ELSE @[k]]]
  /\ UNCHANGED <<reviews, results, sent, heads, receipts, canonical, letters, faults>>

\* The answers of publication-batch-results to the fence f.
BatchOwned(f) ==
  /\ Live(f.item) /\ items[f.item].revision = f.revision
  /\ \E m \in ReclaimedMemberships : /\ Open(m) /\ SameFence(m, f)
                                     /\ Leased(ReclaimedBatches, m.batch)

Answered(b, k, answer) ==
  \/ /\ workers' = [workers EXCEPT ![b].outcome[k] = answer]
     /\ UNCHANGED faults
  \/ /\ Fault  \* the answer is lost, or a later effect fails
     /\ workers' = [workers EXCEPT ![b].outcome[k] = "retryable"]

PublishItem(b, f) ==
  LET k == f.item
      existing == ReceiptsOf(k, f.revision)
      unchanged == UNCHANGED <<receipts, canonical, given>>
  IN /\ workers[b].pc = "committing" /\ f \in workers[b].manifest
     /\ workers[b].outcome[k] = "eligible"
     /\ Touch
     /\ CASE BatchOwned(f) /\ Surpassed(k) ->
               unchanged /\ Answered(b, k, "superseded")
          [] ~BatchOwned(f) /\ existing = {} ->
               unchanged /\ Answered(b, k, "retryable")
          [] existing # {} ->
               /\ unchanged
               /\ \E p \in existing : \/ Answered(b, k, p.outcome)
                                      \/ ~BatchOwned(f) /\ Answered(b, k, "permanent")
          [] OTHER ->
               /\ AcceptPlan(k, f.revision, items[k].carries)
               /\ Answered(b, k, IF NewerReceipts(k, f.revision) # {} THEN "superseded"
                                                                     ELSE "published")
     /\ UNCHANGED <<reviews, results, sent, items, heads, letters>>

\* complete fetches, then acknowledges what is still current.
Acknowledge(b) ==
  /\ workers[b].pc = "committing"
  /\ \A k \in Keys : workers[b].outcome[k] # "eligible"
  /\ Fetch(b)
  /\ workers' = [workers EXCEPT ![b].pc = "acknowledging",
                                ![b].current = workers[b].manifest \cap Fetched(b)]
  /\ UNCHANGED <<reviews, results, sent, heads, receipts, canonical, letters, faults>>

\* The answer may be lost: the release that follows says it all again.
SendCompletion(b) ==
  /\ workers[b].pc = "acknowledging"
  /\ CompleteBatch(b, workers[b].current)
  /\ Goto(b, "releasing")

\* release completes the whole manifest with what is known.
Release(b) ==
  /\ workers[b].pc = "releasing"
  /\ CompleteBatch(b, workers[b].manifest)
  /\ Goto(b, "over")

\* A step fails, and release still runs; or the runner dies.
Crash(b) ==
  /\ workers[b].pc \notin {"idle", "over"}
  /\ Fault
  /\ \/ workers[b].pc \notin {"claimed", "releasing"} /\ Goto(b, "releasing")
     \/ Goto(b, "over")
  /\ UNCHANGED <<batchVars, reviews, results, sent, items, heads, receipts, canonical,
                 letters, given>>

\* A later run; a batch id that was pruned stands for its id.
NewRun(b) ==
  /\ workers[b].pc = "over" /\ batches[b].state = "absent"
  /\ workers' = [workers EXCEPT ![b] = NoWorker]
  /\ UNCHANGED <<batchVars, reviews, results, sent, items, heads, receipts, canonical,
                 letters, given, faults>>

WorkerStep(b) ==
  \/ ClaimBatch(b) \/ Load(b) \/ Prepare(b) \/ Commit(b)
  \/ \E f \in workers[b].manifest : PublishItem(b, f)
  \/ Acknowledge(b) \/ SendCompletion(b) \/ Release(b) \/ LostLease(b)

\* stats, the alarm and every read reclaim what is overdue.
BatchHousekeeping ==
  /\ \E cleanup \in SUBSET DueForCleanup : Stats(cleanup)
  /\ UNCHANGED laneVars

LaneTick == Tick /\ UNCHANGED laneVars

LaneNext ==
  \/ \E t \in Targets : \/ ReviewEvent(t) \/ LoseReview(t) \/ CompleteReview(t)
                        \/ DirectPublish(t)
                        \/ \E k \in Keys : ClaimReview(t, k)
  \/ \E k \in Keys : \/ Deliver(k)
                     \/ \E r \in Revisions : \/ ReplayDeadLetter(k, r) \/ RecoverFresh(k, r)
                                             \/ ResolveDeadLetter(k, r)
  \/ PruneStale
  \/ \E b \in BatchIds : WorkerStep(b) \/ BatchHeartbeat(b) \/ Crash(b) \/ NewRun(b)
  \/ BatchHousekeeping
  \/ LaneTick

LaneSpec == LaneInit /\ [][LaneNext]_allVars

\* The alarm prunes, and dispatches publishers while publications are ready; they
\* run and, unless a fault stops them, are done or have renewed before their lease
\* is over (Punctual).  A later run has an id of its own, so here old receipts must
\* go; and time passes.
AtWork(b) == workers[b].pc \notin {"idle", "over"}
Punctual == \A b \in BatchIds :
  Leased(batches, b) /\ AtWork(b) => batches'[b].expiresIn > 0 \/ ~Leased(batches', b)

LaneFairSpec ==
  /\ LaneInit /\ [][LaneNext /\ Punctual]_allVars
  /\ \A b \in BatchIds : WF_allVars(WorkerStep(b)) /\ WF_allVars(NewRun(b))
  /\ WF_allVars(BatchHousekeeping) /\ WF_allVars(PruneStale)
  /\ WF_allVars(LaneTick /\ Punctual)

-----------------------------------------------------------------------------
(* Properties.                                                             *)

Result == [target: Targets, source: 0..MaxRevision, generation: Nat, serial: Nat]
Item == [state: {"absent", "pending", "parked"}, revision: 0..MaxDeliveries,
         attempts: Nat, carries: Keys \cup {"none"}]
Letter == [status: {"none", "open", "replayed", "resolved"}, carries: Keys \cup {"none"}]
Worker == [pc: {"idle", "claimed", "loaded", "prepared", "committing", "acknowledging",
                "releasing", "over"},
           manifest: SUBSET Fences, current: SUBSET Fences, outcome: [Keys -> WorkOutcomes]]
History == [taken: SUBSET Keys, published: SUBSET Keys, dropped: SUBSET Keys,
            refreshed: SUBSET Keys]

LaneTypeOK ==
  /\ BatchTypeOK
  /\ reviews \in [Targets -> Review]
  /\ results \in [Keys -> Result \cup {NoResult}]
  /\ sent \in [Keys -> 0..MaxDeliveries]
  /\ items \in [Keys -> Item]
  /\ heads \in [Targets -> 0..MaxRevision]
  /\ receipts \subseteq Receipt
  /\ canonical \in [Targets -> [serial: Nat, source: 0..MaxRevision]]
  /\ letters \in [Keys -> [Revisions -> Letter]]
  /\ workers \in [BatchIds -> Worker]
  /\ given \in History
  /\ faults \in [kinds: SUBSET {"retryable", "unattempted", "permanent", "refresh"}, left: Nat]

\* An item that a batch is publishing is taken from the queue only by the step
\* that settles its membership: neither a newer publication of the target, nor
\* the stale prune, nor an operator takes it from under the publisher.
OwnedItemsAreNotTaken ==
  [][\A m \in memberships :
       Open(m) /\ Live(m.item) /\ items'[m.item].state = "absent" => m \notin memberships']_allVars

\* All that was published of the target came through the queue.
Queued(t) == \A p \in receipts : p.fence # t

\* A result of the target was handed back for a fresh review.
Returned(t) == RunsOf(t) \cap given.refreshed # {}

\* The canonical record of a target never goes back to an older source, in
\* whatever order batches, retries, replays and late completions publish; nor
\* does the first direct publication take it back, unless its review was handed
\* back and numbered anew.
CanonicalAdvances ==
  [][\A t \in Targets :
       Queued(t) /\ (Queued(t)' \/ ~Returned(t)) =>
         canonical'[t].source >= canonical[t].source]_allVars

\* A membership is settled as published only if the publication it fenced has a
\* receipt: no late or repeated completion reports another claim's work.
PublishedIsPublished ==
  \A m \in memberships :
    m.outcome = "published" => \E p \in ReceiptsOf(m.item, m.revision) : p.outcome = "published"

\* Results of one lineage are the same review.
Twins(k) == {j \in Keys : /\ results[j].target = results[k].target
                          /\ results[j].source = results[k].source
                          /\ results[j].generation = results[k].generation}
Overtakes(j, k) == /\ results[j].target = results[k].target
                   /\ \/ results[j].source > results[k].source
                      \/ results[j].serial > results[k].serial

\* A target whose results all came through the queue and were not handed back
\* numbers its reviews in their order.
Trusted(t) == Queued(t) /\ ~Returned(t)

\* A result the queue took is still queued, or was published, or is a dead
\* letter, or was handed back for a fresh review, or a later review or a newer
\* source of its target was taken or published: later than itself, or, when the
\* numbering started over and two reviews share a lineage, than its twin.
NoResultIsLost ==
  \A k \in given.taken :
    \/ \E j \in Twins(k) : \/ \E i \in Keys : Live(i) /\ items[i].carries = j
                           \/ j \in given.published \cup given.refreshed
                           \/ \E i \in Keys, r \in Revisions : letters[i][r].carries = j
    \/ \E j \in given.taken \cup given.published, i \in Twins(k) :
         Overtakes(j, i) /\ (i = k \/ ~Trusted(results[k].target))

\* A result is given up as superseded only if a newer review of its target was
\* taken or published.
SupersededByNewer ==
  \A k \in given.dropped : \E j \in given.taken \cup given.published :
    /\ results[j].target = results[k].target
    /\ results[j].serial > results[k].serial

\* The same of the targets whose numbering can be trusted: no order of deliveries,
\* batches, retries and replays makes the queue, a batch or a receipt give up the
\* newest review, unless it was published before, and was delivered or replayed
\* once more.
GivenUpForNewer ==
  \A k \in given.dropped :
    Trusted(results[k].target) =>
    \/ Twins(k) \cap given.published # {}
    \/ \E j \in given.taken \cup given.published :
         results[j].target = results[k].target /\ results[j].serial > results[k].serial

\* The dead-letter store is bounded: what fails for good when it is full parks, be
\* it full of letters that were drained into it meanwhile.  A letter that was
\* replayed is not counted in the step in which it comes back: its row exists.
ComeBack == {l \in OpenLetters(letters') : letters[l[1]][l[2]].status \in {"replayed", "resolved"}}
Written == {l \in OpenLetters(letters') : letters[l[1]][l[2]].status = "none"}

DeadLettersBounded ==
  [][Written # {} => Cardinality(OpenLetters(letters') \ ComeBack) <= DeadLetterLimit]_allVars

\* No publication waits for ever: not behind a batch whose runner died, nor one
\* whose completion was lost, nor one that settled only part of its items.
PublicationsEnd == \A k \in Keys : items[k].state = "pending" ~> items[k].state # "pending"

\* A review that waits to run can still publish: its source is not older than
\* the publication head of its target.
WaitingReviewCanPublish ==
  \A t \in Targets : reviews[t].state = "pending" => reviews[t].revision >= heads[t]

=============================================================================
