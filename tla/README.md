# TLA+ verification of the state and review queues of LINA Check

LINA Check (this repository) reviews pull requests and issues of many GitHub
repositories with a model, publishes the results, and applies some of them.  A
Cloudflare Worker (`dashboard/`) receives webhooks and keeps the durable queues
in a Durable Object; GitHub Actions workflows, started by
`repository_dispatch`, do the work and report back; Node programs under `src/`
run inside those workflows and share one git branch of state.

What is hard in this system is not any one of these programs but what happens
between them: deliveries overtake each other, workflow runs die, are re-run and
answer late, the queue's alarm awaits GitHub in the middle of its work, several
writers push the same branch, and every one of these has a lease, a generation,
a token or a revision that is meant to make the late party harmless.  That
protocol is what this directory models.

Contents: [components](#1-components) ·
[modules and code](#2-modules-and-how-they-correspond-to-the-code) ·
[runs](#3-runs) · [fairness](#4-fairness) · [proofs](#5-proofs) ·
[disagreements](#6-disagreements-between-code-and-its-own-words) ·
[not modelled](#7-what-is-not-modelled-and-what-the-models-suppose) · [plan](#8-plan)

Paths below are relative to the repository's root.

## 1. Components

### 1.1 State-writer coordinator — `dashboard/state-writer-coordinator.ts` (modelled)

*State*: a ticket table (queued, leased, completed, expired; class, sequence,
lease token, expiry, absolute deadline) and a row of totals and turn counters.
*Operations*: acquire (also the poll), heartbeat, release, stats; every one
first reclaims what is overdue and prunes old terminal rows.
*Callers*: `src/repair/state-writer-coordinator.ts`, a client that polls in a
loop and a watchdog process that renews; so requests are repeated, delayed and
outlive their writer.
*Hard*: three writer classes share one lease with priorities and turn limits; a
release is repeated by the watchdog and an acquire by its client when an answer is
lost, and any other call may have reclaimed the ticket in between.
*Correct when*: at most one ticket is leased; tokens are never reused; renewals
stop at the deadline; no class is passed over for ever; the totals balance.

### 1.2 Exact-review queue, review lane — `dashboard/exact-review-queue.ts`, `exact-review-decision.ts`, `exact-review-read-model.ts` (modelled in part)

*State*: one item per target with the newest decision, its revision, the
authority watermark, the retry budget and the lease's dozen fields; an audit
table of superseded leases; the revision high-water mark of commands.
*Operations*: enqueue, claim, heartbeat, complete, reconcile, and the alarm:
reclaim, recover parked items, admit, read each target's live state, commit
leases, dispatch workflows, merge dispatch failures.
*Interactions*: handlers run atomically between awaits (the input gate of a
Durable Object), so every `await` of GitHub is a point where any other handler
may change the item.  The alarm awaits at three points, a claim at one.
*Hard*: answers of GitHub applied to items that changed meanwhile; dispatches
that fail after they started the run; supersession during a phase that must not
be interrupted; attempts and generations; budgets reset on five paths.
*Correct when*: no accepted source is lost; leases follow the newest source and
the head just seen live; a working run is not robbed of its lease; a lease does
not change hands without a new generation; capacity and retry budget hold; the
live head is reviewed in the end.

### 1.3 Ingress — `dashboard/worker.ts` (modelled in part)

*State*: the delivery table and the reservation sequence.  *Operations*: reserve
an authority number for a delivery, verify the head it names against the live
pull request, enqueue.  *Hard*: `updated_at` has a resolution of one second and
deliveries overtake, so the order of two events may rest on the reservation
number alone.  *Correct when*: the queue ends with the newest source.

### 1.4 Workflow runs and reconciler — `.github/workflows/sweep.yml.disabled`, `exact-review-reconcile.yml.disabled`, `dashboard/worker.ts` (modelled in part)

*State*: one attempt of a run, bound to a lease tuple.  *Operations*: claim,
heartbeats with phases, completion (which may be repeated), crash, re-run; the
reconciler reads a claim, reads the run's status, and reports later.
*Correct when*: a report about a dead attempt does not touch the next one.

### 1.5 State-writer client and state publisher — `src/repair/state-writer-coordinator.ts`, `git-publish.ts`, `detached-cleanup.ts` (modelled in part)

*State*: the client's ticket and token, the detached watchdog that renews it, the
state branch.  *Operations*: poll, fetch, assert the lease, push, release; the
watchdog's renewals and its clean-up.  *Hard*: a writer whose renewals fail
silently still pushes (a push has five minutes, the lease two); a writer dies
between push and release and a detached process releases for it; a request whose
answer was lost is executed later.  *Correct when*: publications are serialised
up to pushes that outlive their lease, a live watchdog keeps the lease, waiters
are served, no watchdog outlives its writer.

### 1.6 Publication lane, batches, direct publication, dead letters — `dashboard/exact-review-queue.ts`, `exact-review-publication-batches.ts`, `exact-review-publication-retry.ts`, `exact-review-direct-publication.ts` (modelled in part)

*State*: publication items (one per review run), the publication head of each
target, batches that lease sets of items with a fence (item, revision, claim
generation), receipts of canonical publication, dead letters up to a capacity.
*Operations*: deliver a result (refused, deduplicated against its lineage, or
new, superseding older ones), prune the stale, claim, fetch, heartbeat and
complete a batch, publish one item or directly, fail, park, replay, recover,
resolve.  *Hard*: an item is superseded while a batch that owns it is being
published; a batch expires, is recovered and completes late; a store of dead
letters is full when something fails for good.  *Correct when*: an item has one
owner and every grant a new fence; the canonical record never goes back; a
result is never given up for an older one; every publication ends.

### 1.7 Publication control — `dashboard/exact-review-queue.ts` (modelled)

*State*: the ceiling, the demand target, the cool-down, counted successes and
samples, receipts of batch reports.  *Operations*: the refresh in the alarm, the
feedback of completions and of batch telemetry.  *Hard*: hysteresis between limits
that a deployment may change under the stored document.  *Correct when*: a report
counts once; the demand target follows a backlog that lasts; clean publications
bring the ceiling back.

### 1.8 Command intake — `dashboard/exact-review-command-intake.ts` (modelled in part)

*State*: receipts and intakes per version of a comment, a watermark per comment.
*Operations*: admit; in the alarm verify against GitHub, enqueue, acknowledge,
finish, defer.  *Hard*: the alarm works on a snapshot across awaits while newer
versions are admitted; edits of one second cannot be ordered.  *Correct when*: the
queue takes each version once and in order, only what it took is acknowledged,
the live version is not given up, every command is decided.

### 1.9 Webhook read model — `dashboard/github-webhook-read-model.ts` (modelled in part)

*State*: rows of items, comments and runs with the time of the source, and what a
repair covered.  *Operations*: ingest a delivery, read, repair from what a poller
listed.  *Hard*: deliveries late, twice, out of order or lost; repairs carry what
GitHub said a while ago.  *Correct when*: what is served is complete, and the
deleted stays deleted.

### 1.10 Candidates for later

Command lifecycles and terminal finalisation
(`dashboard/exact-review-lifecycle.ts`), the admission order between targets, the
artifact and ETag caches, proof requests, the comment leases of `src/clawsweeper-review-comment-leases.ts`
(mutual exclusion through GitHub comments), the action ledger (append-only,
idempotency keys), the cluster-intake cursor store, and the scheduler policy
are self-contained protocols or pure functions.  The rest — review runner, apply
decisions, repair lane, live proof, telemetry, pages — is orchestration of I/O or
presentation; `PROJECT.json` lists each with its reason.

## 2. Modules and how they correspond to the code

| module | models | rests on |
|---|---|---|
| `ExclusiveLease` | what the coordinator promises: one holder, tokens never reused | — |
| `StateWriterCoordinator` | the ticket queue, one action per operation | `ExclusiveLease` (refinement) |
| `StatePublisher` | clients, watchdogs, late requests and the branch, composed with the coordinator | `StateWriterCoordinator` |
| `ExactReviewDecision` | decisions and the rules that compare and merge them | — |
| `ExactReviewQueue` | the review lane's state, handlers and alarm, open to any caller | `ExactReviewDecision` |
| `ExactReviewSystem` | the queue among GitHub, ingress, runs and reconciler | `ExactReviewQueue` |
| `FencedOwnership` | what the batch store promises: one owner, ever newer fences | — |
| `PublicationBatches` | the batch store, open to any caller | `FencedOwnership` (refinement) |
| `PublicationLane` | items, heads, receipts, dead letters and publishers on top of the batches | `PublicationBatches` |
| `PublicationControl` | the adaptive ceiling and the demand target | — |
| `CommandInbox` | what command intake promises: each version once, in order, acknowledged if taken | — |
| `CommandIntake` | the intake store, its part of the alarm, the queue's answers, the comment | `CommandInbox` (refinement) |
| `GithubReadModel` | GitHub, deliveries, the read model, pollers and their repairs | — |

Instances for TLC: `MCStateWriterCoordinator`, `MCStatePublisher`,
`MCExactReviewSystem`, `MCPublicationLane`, `MCLaneScenarios`, `MCStores`
(batches, read model), `MCAlarmStories` (control, intake).  Theorems:
`StateWriterCoordinatorProofs`, `StatePublisherProofs`, `ExactReviewQueueProofs`,
`ExactReviewSystemProofs`, `PublicationBatchesProofs`, `PublicationLaneProofs`,
`QueueAlarmProofs` (intake and control), `GithubReadModelProofs`.

### 2.1 The coordinator

Every operation is one synchronous SQLite transaction, hence one action
(`Acquire`, `Heartbeat`, `Release`, `Stats`); each starts from
`ReclaimedAndPruned`, the result of `reclaimAndPruneSync`, as the code does.  A
row keeps *differences* to the current time, and `Tick` moves them all, so
absolute time needs no bound: ages stop at the threshold past which the code
cannot tell them apart.  Callers present any ticket with any token ever issued:
that covers retries, delays, and watchdogs that outlive their writer.  Ticket and
owner ids are drawn together at random by the client, so a ticket id stands for
both.  `bypass` is a history variable that counts the turns that passed a waiting
class; no guard reads it.

### 2.2 The publishers

`writers[w].pc` is where `publishMainCommit` stands; one tick is the watchdog's
interval of 30 s.  A call is executed and answered in one step, or its answer is
lost: then it waits in `late` and is executed before the next tick (the client
aborts after 10 s) or never; a push may be executed at any time.  A renewal or a
poll that is missed between two ticks is a fault.  `branch` is the list of commits
that landed, with whether their writer still owned its lease; a push lands if its
base is the tip, git's own fast-forward check, which alone protects the branch
against a push that outlived its lease.  A client that gives up releases without a
token, which the endpoint answers with 400 (`exact-review-queue.ts:1698`); its
ticket goes stale instead, and so `GiveUp` changes nothing at the coordinator.

### 2.3 The review lane

`items[k]` is the record of one pull request; `lease` is the part of it that
`clearExactReviewLease` clears.  `audits` is the supersession audit,
`lastRevision` what `nextExactReviewCommandRevisionSync` reads back, `leaseSeq`
the source of fresh lease ids (`crypto.randomUUID`), and `alarm` the local
variables of the one alarm task in flight.

The handlers are the actions `EnqueueNew`/`EnqueueExisting`/`EnqueueIgnored`,
`ClaimLease`/`ClaimAgain`/`ClaimTerminal` (with `Claimable`, the test that is
made before *and* after the await), `Heartbeat`/`HeartbeatSuperseded`,
`Complete`, `Reconcile`.  `Finished` is `finishExactReviewQueueItem`, `Reclaimed`
is `reclaimExpiredExactReviewLease`; the first thing each handler does on an
expired lease is `ReclaimOnTouch`.

The alarm is cut at its awaits:

| part of `handleAlarm` | action | then awaits |
|---|---|---|
| startup: reclaim, recover parked items that are due | `AlarmHousekeep` | dispatch preflight |
| reclaim again, admit up to the capacity | `AlarmAdmit` | live state of each candidate |
| one answer | `AlarmProbe` | the others |
| drop, charge, advance or lease each candidate *if it is still the same* | `AlarmCommit` | workflow dispatches |
| one answer | `AlarmDispatch` | the others |
| apply failures, only to unclaimed exact leases | `AlarmMerge` | — |

A preflight that fails or is paused is `AlarmAdmit` with nothing admitted.

Abstractions, each a choice among what the code may do: whether a lease is past
its effective expiry (`Expire`, any moment), whether a pending item's backoff or
a parked item's recovery delay has passed (`admitted` and `due` are any subsets);
the order in which `exactReviewQueueAdmittedItems` picks (any admissible set).
The webhook actions are two classes, by the one bit the rules read
(`supersedesInProgress`); heartbeat phases are two, `status` and the others.

`ExactReviewSystem` adds the parties.  A run is bound to the lease it was started
for; a failed dispatch may have started it all the same; a claim's or a
completion's answer may be lost; a run may crash at any point, be re-run with a
higher attempt, and be reported by a reconciler that read the claim earlier.
Events and every fault come out of one `budget`.  `Timeout` of a lease whose run
is at work is such a fault (a slow run), and free when the run is gone.

History variables (`accepted`, `pushed`, `concluded`, `reviewed`, `fenced`,
`spent`) record what properties talk about; no guard reads them.

### 2.4 Batches and the publication lane

`PublicationBatches` is `exact-review-publication-batches.ts`: every operation
first reclaims overdue batches (`Touch`), `Claim` inserts memberships with the
next claim generation of each item, `Heartbeat` checks every fence, `Complete`
settles only memberships whose fence matches and ends the batch when none is
open, `Stats` prunes.  Owners call with any fence ever granted.

`PublicationLane` adds what `completePublicationBatch` and the enqueue do with the
items, in the same transaction as the store's: `DeliverRefused`,
`DeliverDuplicate`, `DeliverNew` are the three answers to a result,
`FinishItems` the settlement with its retry budget, dead letters and parking.
The publisher of a batch (`exact-review-batch-publisher.ts`) is a process per
batch id with `Load`, `Prepare`, `Commit`, `PublishItem`, `Acknowledge`,
`SendCompletion`, `Release` and `Crash`.  `canonical` is the record published
for a target; `AcceptPlan` is `accept` of the direct-publication store.

### 2.5 Publication control

Time is counted in units of five minutes; the clock is part of `ControlTick`.
`Sanitised` is the reading of the stored document under the present limits,
`AfterDemand` and `AfterFailure`/`AfterSuccess` its three updates, each a function of
the document, as in the code.  The backlog, its age and the drain are a sample
chosen by the environment.

### 2.6 Command intake

The variables `receipts`, `intakes`, `watermark` are the store's tables for one
comment; a version is an edit, and `comment.at` gives the second of each.
`alarm.step` is the await at which the alarm stands with the record it took from
its snapshot of due records; `isCurrent` is asked where the code asks it.  The
queue appears as its answers: deduplicated by delivery receipt, stale (and then no
receipt is left, so that the next try is no duplicate), or queued, with the item's
decision kept while it is leased.  GitHub may answer with the comment of an earlier
second, but as it was at the end of that second; the text of a comment never
returns to an earlier one within one second.  Delivery receipts (7 days) outlive
the commands that are pending.  Attempt counts and backoffs are choices.

### 2.7 The webhook read model

`github` is the truth, `sent` and `seen` the deliveries made and applied (a
delivery may be applied again), the rows what the Durable Object stores.  A
poller starts when what is served is not usable, reads GitHub at one later instant,
and repairs at a later one still; a call takes time.  A poller's call is a record `Poll(kind, runs,
start)` of what it asks for (the comments, a census of all runs, the verification of
some) and since when.

## 3. Runs

| run | configuration | distinct states | question |
|---|---|---|---|
| `coordinator` | one writer per class, 6 rows | 355,737 | exclusivity, deadline, totals, turn limits, existence of a head, refinement of the lock |
| `review` | seven scenarios | 655,870 | is a source lost, a run robbed, a conflict misreported; do leases follow the newest source; budget, capacity |
| `review_liveness` | two scenarios, `FairSpec` | 213,963 | is the live head reviewed in the end; is only a fenced run told so? |
| `publisher` | two writers of one class, one fault, `FairPublisherSpec` | 61,641 | are publications serialised, waiters served, watchdogs ended? |
| `stores` | batches, three stories of the read model | 458,118 | ownership under any caller; completeness under any deliveries |
| `lane` | six scenarios | 456,764 | is a result lost or given up for an older one; does a record go back? |
| `lane_liveness` | one batch, two faults, `LaneFairSpec` | 65,553 | does every publication end? |
| `alarm_stories` | four scenarios of control; two edits of a comment | 65,123 | control settles and recovers; intake keeps order, keeps the live command but for a tie within its second (section 7), ends |
| `fenced_claimant_answer` | three events, no fault | violation | section 6 |
| `refreshed_review_revision` | one refresh | violation | section 6 |
| `direct_publication_restart` | one direct publication | violation | section 6 |
| `comment_repair_race` | one comment, one poller | violation | section 6 |

**Scenarios.**  Several things that are rare together, such as three events, three
crashes and two pull requests, cannot be had in one state space.  So in most runs
the first state picks a scenario: a record of bounds (events, faults and their
kinds, commands, an end, rows, time) that stays as it is, rich in one thing and
poor in the others.  `Budgets` and `FaultBudgets` are constants of the modules; the other
bounds are conjuncts that an `MC` module adds to the next-state relation.  No
definition is replaced.  `stores` and `alarm_stories` put two components
that do not share state in one run: the first state picks the component and the
other one rests.

**Properties**, each stated with its reason in its module:

* coordinator: `LeaseDiscipline` (one leased row, below its deadline),
  `TotalsBalance` (every row ever inserted is counted once through reclaim,
  release, repeated calls and prune), `OrdinaryBypassBounded`,
  `PriorityBypassBounded`, `WaitersHaveAHead` (`ordinary.shift()!` never meets an
  empty list), `ImplementsLock`;
* review: `NoLostWork`, `LeaseIsCurrent`, `RetryBudget`, `LeasesConsistent`,
  `CapacityRespected`, `HealthyHolderKeepsLease`, `DispatchesProbedHead`,
  `LeaseKeepsHands`, `AcknowledgesOnlyFenced`, `LiveHeadReviewed`;
* publishers: `OwnersSeeTheTip`, `WatchdogKeepsLease`, `WaitersAreServed`,
  `WatchdogsEnd`;
* batches: `LeasedWhileUnfinished`, `FencesAreUnique`, `SettledOnce`,
  `ImplementsOwnership`;
* lane: `NoResultIsLost`, `GivenUpForNewer`, `PublishedIsPublished`,
  `DeadLettersBounded`, `OwnedItemsAreNotTaken`, `CanonicalAdvances`,
  `PublicationsEnd`; the first two and `CanonicalAdvances` distinguish targets whose
  reviews are numbered in their order (`Trusted`: all published through the queue, none
  handed back) from those whose numbering started over;
* control: `ReportedOnce`, `DemandSettles`, `CleanRunsRecover`;
* intake: `LiveCommandIsKept`, `ImplementsInbox`, `CommandsEnd`;
* read model: `CensusIsComplete`, `KnownRunsStay`, `NoResurrection`.

**Bounds.**  Two events are the least in which one supersedes or overtakes the
other; three let item and lease revision drift apart and a third arrive during
the status phase.  `UpdateSteps = {0, 1}` gives ties of the one-second clock and
the order the code expects.  One fault anywhere finds every single-fault
interleaving; three are needed to crash, re-run and lose an answer of one run.
`RetryLimit = 2` and `ParkedRecoveryLimit = 1` make a budget of four, so five
failures go past it; two items with a capacity of one make them compete.  Items
interact only through the capacity, the pending soft limit and the alarm's global
failure, which is why the other scenarios use one pull request.  `MaxLeases` bounds
the leases at one per event, background enqueue, command and fault, plus one.  In
the coordinator three tickets are enough for every class to wait behind every
other; `MaxSeq` bounds the rows ever inserted and lets tickets be pruned and come
back, as the next writers of their class (section 7).  Two publishers are enough for one to wait, push late or crash while the
other holds the lease.  Two results of one target, two batches and a generation
more than the retries show every order of publication of an older and a newer
source; a dead-letter limit of one fills with the first letter.  Two
edits are the least that can be in or out of order, within one second or not, and two
failures let one of them be deferred and the instance restart.  The read model's
clock runs past the time-to-live twice, so that a repaired snapshot grows old.

**Deadlock** is checked in `coordinator` and `publisher`, where time always passes.
The other runs may stop once their bounds are used up and everything is settled;
their configurations say `CHECK_DEADLOCK FALSE`, and that they stop only *there* is
what the liveness properties say.

**Mutants.**  Next to a definition may stand a `Mutant...` operator: the same
definition with a plausible slip (a dropped guard, a wrong comparison, a missing
generation).  Each property of a passing run is violated when one of them takes
the definition's place; they are not used by the specifications.

## 4. Fairness

Safety of the open specifications is checked without fairness.  Each fair
specification rests on something the deployment does:

* **Review** (`FairSpec`).  The Worker finishes a delivery, and the alarm takes up
  the reservations it could not finish: weak fairness per delivery.  GitHub starts a
  dispatched run and it goes on to a successful completion, unless a fault stops it:
  weak fairness per run over claim, completion and refusal; nothing is assumed of
  crashes, re-runs, phases, or the reconciler.  The alarm re-arms itself while work
  is left, answers arrive or fail: weak fairness of its parts without faults.  The
  clock reaches every expiry, an item's backoff passes: weak fairness of `Timeout`,
  strong fairness of `Housekeep({k})` and `Admit({k}, {})`, because an item is due at
  some alarms and not at others.
* **Publishers** (`PublisherFairness`).  Each client's and each watchdog's process
  goes on, time passes; nothing of starts, give-ups, crashes or late requests.
* **Lane** (`LaneFairSpec`).  Publisher processes go on and the lane starts new ones
  (`NewRun` per batch id), the alarm reclaims and prunes, time passes.  `Punctual`: a
  publisher that is alive renews before its batch lease is over; the workflow
  heartbeats in a loop, its job is bounded by `timeout-minutes: 60`, and its release
  step runs `always()`.
* **Control** (`ControlFairness`).  The alarm refreshes, time passes.  Successes and
  samples are not assumed; `DemandSettles` and `CleanRunsRecover` suppose a backlog
  that stays and clean publications that go on.
* **Intake** (`IntakeFairness`).  The alarm's awaits end with an answer or a failure:
  weak fairness of `AlarmStep`.  An alarm is set while an intake waits and its backoff
  is at most 15 minutes: strong fairness of `WakesFor(v)`, since a version is due at
  some alarms and not at others.

Faults are finitely many: with failures for ever nothing is promised, and
`LiveHeadReviewed` also accepts an item whose recoveries are spent.

## 5. Proofs

All theorems hold for every value of the constants that satisfies the `ASSUME`s
(finite sets of tickets, items or comments, positive limits, a deployment's limits in
their order).  Every one is proved to its last leaf, and every safety property
that a passing run checks is proved.  The `MC` modules only restrict the specification a
theorem speaks of (a scenario's bounds; which of two components moves), so what is
proved of it holds of the run's too.

**Coordinator** (`StateWriterCoordinatorProofs`).  `TypeCorrect`.
`ExclusiveLeases` and `LeasesAreDisciplined`: one lease, below its deadline,
inductive together with the type invariant; an admission sees no active row in the
table it writes.  `OrdinaryNeverStarves`: the bound on bypasses is not inductive; it
needs `BypassIsCounted`, that while an ordinary writer waits the two turn counters
record at least the turns that passed it, because only an ordinary turn, or the
absence of ordinary writers, resets them.  `PriorityNeverStarves`: `PassedInv` says
the same of the two priority classes and the remaining turns of the other.
`HeadExists`: the class whose turn it is has a waiting ticket (`ServedClassWaits`),
and a finite set of sequence numbers has a least one.  `TotalsStayBalanced`:
cardinalities of the live rows before and after reclaim, prune and insertion
(`ReclaimBalances`).  `RefinesLock`: under the mapping `holders` = tokens of leased
rows, `issued` = admissions, every operation is a grant, an end, or a stutter; a
lease found expired by another writer's acquire ends in the very step that grants
the next.

**Publishers** (`StatePublisherProofs`).  `PublisherImplementsCoordinator`: every
call that a client, a watchdog or a late request makes is a step of the open
coordinator, so its theorems hold among them; what it needs is that tokens in
clients and requests were issued (`CallInv`).  `OwnersKnowTheTip`:
`OwnersSeeTheTip` follows from `TipInv` with one fact about every step of the
coordinator (`TokenStep`): a lease that was lost does not come back under its
token, so a push that owned its lease since the fetch saw the tip.
`WatchdogsKeepLeases`: the property says nothing about time, so `WatchInv` says how
much is left: a lease whose watchdog missed `m` renewals has at least `LeaseMs - m` to go,
or all that is left to its deadline.  No other writer's call touches a row that is
not overdue (`RowHeld`), and its own late calls cannot harm it: no release is on the
way while the watchdog runs, and an acquire that is answers with the row as it is.

**Review lane, open queue** (`ExactReviewQueueProofs`).  `QueueSpec` lets callers
send anything — any decision, any lease tuple with any attempt and generation,
any report, any answer of GitHub.  `QueueTypeCorrect`, `LeasesStayConsistent`,
`ReviewsFitCapacity` and the action property `LeasesKeepHands` follow from one
invariant, `IInv`: types, `LeasesConsistent`, `CapacityRespected` and
`AdmissionFits`.  The last is why capacity survives the awaits: while the alarm is
probing, the active reviews *together with* the candidates fit in the capacity,
which no handler can break because no handler creates an active review.  The
proof rests on one relation, `Evolves(old, new, seq)` — the item keeps its lease
with its holder, or gives it up — which every step but one satisfies for every
item; the exception is `AlarmCommit`, which writes new leases with fresh ids.

**The composed system** (`ExactReviewSystemProofs`).  `RefinesQueue`: every step of
GitHub, ingress, runs, reconciler and alarm is, on the queue's variables, a step
that `QueueSpec` lets anybody make, or none.  What the proof needs is that the
calls are well typed, so its invariant (`SystemInv`) adds the types of the parties'
state (`PartiesTypeOK`) and the bound on leases; `SystemTypeCorrect` is that invariant.
Through the refinement `LeasesConsistent`, `CapacityRespected` and `LeaseKeepsHands`
hold of the specification that the runs check.  `DispatchesWhatItProbed` follows from
the queue's step alone.  What speaks of several parties needs five invariants
more, on top of `SystemInv`:

* `SourceInv`, for `WorkIsKept` and `LeasesAreCurrent`.  Per item: the newest accepted
  source is carried, concluded or moved past (`Owes`); nothing names a head that
  GitHub has not had (`Behind`); a one-shot repair, which the queue may drop, is for no
  accepted source (`OneShotSourceless`); while item and lease have the same revision they
  have the same decision (`Snapshot`), so that a completion that deletes the item
  concludes the source the item carries; and `LeaseIsCurrent` where the excuse of a
  status write is strengthened to one that was noted (`Current`), since only
  a noted supersession gives the lease up at the end.  In the alarm's awaits: a probe
  that found the head open is not behind the newest push as long as the candidate's
  revision stands (`ProbeSound`); the comparison of revisions in `AlarmCommit` is
  exactly what the proof uses.
* `ClaimInv`, for `OnlyFencedAreAcknowledged`.  A lease is claimed only by the run that was
  dispatched for it (`Owners`); an audit row is of a lease that no item holds any more
  (`Closed`), so that a claim made later cannot match it; what it names is fenced
  (`Told`).
* `RunInv`, for `HealthyHoldersAreKept`.  A claim was made by an attempt its run has
  reached (`Attempts`); what the reconciler has read is of an attempt that is over,
  though a later one may be at work by now (`Stopped`); and the leases the alarm has
  still to dispatch have no run (`Unstarted`), so a late dispatch failure finds no one
  at work.
* `FenceInv`, on top of the two before, for `OnlyDriftHidesFencing`.  A lease is of the
  item and the revision that its run was started with (`Bound`); no other item holds a
  lease that the alarm has still to dispatch (`Aimed`); and every fenced claim has a row in
  the audit, of its run, attempt and generation, of its item, and of its lease's
  revision or a later one (`Audited`).  So a fenced claimant that completes is told,
  unless the row's prior revision is past its lease's: the disagreement
  `fenced_claimant_answer` of section 6 has that cause and no other.
* `BudgetInv`, for `RetriesAreBounded`.  The bound is on a history of charges, the code
  counts failures and recoveries that a merge may reset; the link is
  `spent <= RetryLimit * recoveries + failures`, and an item whose input changed under its
  lease has spent nothing yet.

The attempt to prove `RetryBudget` found an error in the model: in `ReconcileApply` the
history variable charged a failure to an item whose input had changed under its lease, which
the code does not count as a retry (`finishExactReviewQueueItem`); the runs' bounds had
not reached it.  Step and property are as in the code now.

**Batches** (`PublicationBatchesProofs`).  The invariant joins types, `Sound` (an
item has one owner, a batch is leased while a member is unfinished),
`FencesCounted` (no grant carries a generation above its item's counter) and
`FencesAreUnique`; the third is what makes the fourth inductive, whatever rows are
pruned.  From it `BatchesStaySound`, `FencesStayUnique`, the action property
`SettledForGood`, and `RefinesOwnership`, the refinement of `FencedOwnership`.

**Publication lane** (`PublicationLaneProofs`).  Five invariants, each the one before and
more, so that a theorem rests on no more than it needs:

* `QueueInv`, the mechanics: types; the batch store's invariant; an item and a letter carry
  a result of the lineage they are of (`Carried`); what a batch owns is pending, at the
  claimed revision or a later one (`OwnedPending`); a publisher acts on fences that were
  granted to its batch (`Granted`, `Manifests`).  From it `LaneTypeCorrect`, and
  `LaneImplementsBatches`: every step of the lane is, on the store's variables, a step
  that `BatchSpec` lets some owner make, or none.  So the batch theorems hold among
  publishers that crash and come late (`LaneKeepsOwnership`).  `OwnedItemsStay` follows from
  the invariant and the step.
* `ReportInv` adds that what a publisher will report as published has its receipt
  (`Reported`); a completion settles only the fences it names, so `PublishedHasReceipt`.
* `RecordInv` adds what the records of a target stand for.  A receipt is of a result that
  was published (`Receipted`); the head and the canonical record of a target are those of
  results that were taken or published (`Headed`); and the numbering: while a target is
  `Trusted`, its runs' sources rise with their serials, no two runs share a lineage, and no run
  is ahead of the review and the head (`Numbered`).  From it `CanonicalNeverGoesBack`: while the queue alone
  publishes a target its record is not above the head, and a batch publishes nothing that
  the head has passed; the first direct publication is of a review numbered above the head.
  `UndisturbedReviewsCanPublish` states what `refreshed_review_revision` refutes, for the targets
  that are `Trusted`: nothing but a result handed back and a direct publication makes a
  waiting review stale.
* `LaneInv` adds that what a publisher will report as superseded, as long as it owns
  the item, has been overtaken (`Reasoned`); that what was given up was overtaken
  (`Yielded`); and that what was taken is accounted for (`Kept`).  From it `ResultsAreKept` and
  `GivenUpOnlyForNewer`.  Every way to give a result up (`GivesUp`: a refusal, a newer
  delivery, a prune, a fetch, a receipt found newer, a publisher's report) is a case of
  its own, and a result is removed from the queue by no other step.

`DeadLettersStayBounded` needs no more than `QueueInv`, but counting: of the letters a step
writes, those it drains fit into the room it saw (`RoomIsKept`), also when a completion drains
parked items and gives up others in one transaction.

The attempt to prove these three found that `NoResultIsLost`, `GivenUpForNewer` and
`CanonicalAdvances`, as first stated, were false beyond the bounds of the runs: they took it that a
target's reviews are numbered in the order they run.  Two things make the numbering start
over: a direct publication deletes the review without leaving a head
(`exact-review-queue.ts:4076`, section 6), and a review that is handed back after an unusable
artifact starts at revision 1 (15832).  Then a later review can have a lower source, or the
lineage of an earlier one, into which its result is deduplicated (1977-2060).  The
properties now say so with `Queued`, `Returned` and `Trusted`; where the queue numbers the
reviews undisturbed they say what they said before.  The proof also showed that one
completion may report different outcomes for items of one batch, which the abstract
store's next-state relation did not let an owner do; it does now.

**Intake and control** (`QueueAlarmProofs`).  `IntakeTypeCorrect`, `LiveCommandKept` and
`IntakeRefinesInbox` follow from `IntakeInv`.  Its core is `Taken`: nothing above the
watermark was taken, and what the alarm may still enqueue is newer than all that was.
The difficult case is a version whose delivery receipt is gone (`Forgotten`): the queue
would take it a second time.  It is not offered again because a redelivery is admitted only
within the watermark's second, and then a later edit of that second exists (`Outlived`),
which is what GitHub shows when the alarm verifies the version.  `Handled` ties a record's
stage to what was done (a version waiting for its acknowledgement was taken), for the
records of the alarm's old snapshot as for those of the store.  `ControlTypeCorrect` and
`ReportsCountOnce`: a report that is not among the receipts has lowered nothing.

**Read model** (`GithubReadModelProofs`).  `ReadTypeCorrect`, `CensusComplete`,
`KnownRunsAreKept` and `DeletionsStay` follow from `ReadInv`.  `Truthful`: no delivery and no
listing is newer than GitHub, what is as new agrees about an active run, and in all that was heard
a comment was live before it was deleted.  `Recorded`: a row is not ahead of GitHub, and
not older than a deletion that was delivered.  `Polled` and `Covers` carry the argument about
censuses: a poller that has read lists every run that has been active since before it
*started*, so when it is applied such a run's row has GitHub's own instant, and then
nothing that was heard can displace it.

**Only model-checked.**  Liveness, which is beyond the prover: `LiveHeadReviewed`,
`WaitersAreServed`, `WatchdogsEnd`, `PublicationsEnd`, `DemandSettles`, `CleanRunsRecover`,
`CommandsEnd`.  The theorems hold without fairness and say nothing of `ENABLED`.  No module declares a
recursive operator.  What the four runs of section 6 refute is of course not proved.

## 6. Disagreements between code and its own words

**A fenced run is not told so** (`fenced_claimant_answer`).
`dashboard/exact-review-queue.ts:3073` says of a completion that does not own its
lease: "A superseded active review has no completion left to record, but only
acknowledge it when the durable audit proves this exact v2 claimant was fenced by
a newer source revision."  The half *only when* holds (`AcknowledgesOnlyFenced`).
The half *when* does not: the enqueue that supersedes a lease audits
`priorRevision = current.revision` (line 2254), the *item's* revision, while the
completion is matched by the *lease's* (line 12378).  The two differ as soon as a
follow-up that does not supersede, such as a label event, has been merged into the
leased item.  The run's completion is answered `lease_not_claimed`: no work is lost,
but a run that did nothing wrong ends as a failed workflow.  The heartbeat's path
audits the lease's revision (line 2866).  The theorem `OnlyDriftHidesFencing` says that
this drift is the only way to lose the answer, in whatever order re-runs, expiries,
late calls and further pushes come.

**A refreshed review cannot publish** (`refreshed_review_revision`).  An unusable
artifact is handed back for a fresh review with revision 1
(`exact-review-queue.ts:15832`), though the target's publication head may be higher;
its result is then refused as superseded (1965-1975).  The comment there calls it
"the terminal recovery for an unusable artifact", and the operator's recovery, which
allocates above the head, has a test that its review "can still publish".  This and the
next are the only ways to it (`UndisturbedReviewsCanPublish`).

**A direct publication leaves no head** (`direct_publication_restart`).  A direct
publication writes a receipt at the review's revision but no publication head
(`exact-review-queue.ts:4076`).  Its item is deleted, the next review of the target
starts at revision 1, and its newer result is answered superseded.
`docs/limits.md:350` speaks of results "superseded by a newer or closed remote
tuple"; the tuple it yields to is older.

**A repair hides a comment** (`comment_repair_race`).  A complete repair tombstones
the rows a poller did not list, as of the repair and not of the listing
(`github-webhook-read-model.ts:623-639`); a comment written and delivered in between is
newer than the listing, older than the tombstone, and no later repair shows it again.
`docs/github-webhook-read-model.md:61` says that reads "repair the Durable Object
before later reads reuse it".  The censuses of runs are bounded by their start, this one
is not.

## 7. What is not modelled, and what the models suppose

*Review lane*: issue items; parked-command finalisation
(`planParkedCommandFinalization`) and the lifecycle projections; the status-writer
deferral among dispatchable items (lines 5898-5917); the retry-policy epoch; the
lower bound that publication heads give to new revisions in
`nextExactReviewItemRevisionSync` (the lane models it); the durations of backoffs and
leases; the audits `live_head_advanced`, whose lease is null and never matches a
completion; signature checks and the classification of other webhooks.
*Coordinator*: schema migrations.  A client draws a fresh ticket id and gives up on a
ticket that has ended, so it never inserts a pruned one again; in the model a pruned id
that comes back stands for the next writer of its class, and a late call with an old
token is that of the earlier one.  *Publishers*: what is committed; the merge and
rebase of files.

*Lane*: legacy one-item publishers, fresh lane and owner selection, the dispatch probe,
telemetry, command acknowledgements and witnesses (7319-7490), admission outcomes other
than public, receipts' seven days, the limit of 100 superseded items per enqueue.  The
per-reason retry limits (3, 14, 48) are one `RetryLimit`, age limits only bring
exhaustion forward, and `artifact_unavailable` never exhausts.  Results of one
lineage (source, generation) count as the same review.  Three limits of what is shown:

* a newer result published directly may be overwritten by an older one in a batch, as
  direct publication writes no head; `CanonicalAdvances` speaks of targets that publish
  through the queue only, and the publisher's comparison with the remote record when it
  prepares is the only guard of the others;
* two results of the *same* source may be published in either order, with that same
  guard;
* an operator's replay in a full dead-letter store frees a place that a parked item takes,
  and when the replayed one fails again the store holds one letter above its limit
  (`deadLetterCapacityAvailableSync`, line 12318, accepts any existing id).  So
  `DeadLettersBounded` speaks of steps: a *new* letter is written only where there is
  room, and letters that come back after a replay are not counted in that step.

*Control*: which items the admitted capacity goes to; how the backlog and the drain are
counted.  Successes come from completions of single items only (line 3370); batch
completions feed rate-limit failures (8998), so clean *batch* publications never raise
the ceiling, although `docs/limits.md:411` speaks of consecutive clean publications;
`CleanRunsRecover` is about the former.

*Intake*: Bay journeys, the allocation of authority and item revisions, what an
acknowledgement writes, the proof consumer.  Not even the model keeps every
live command: while a version is verified, between the reading of the comment and of
the item, an edit *within the same second* may be admitted, and `markVerified` then
supersedes it (`exact-review-command-intake.ts:295`); its redelivery is refused.
`LiveCommandNeverLost` states the promise without that exception
(`docs/proof/durable-command-intake/behavior-contract.md`: "must neither lose the
command nor enqueue the same comment version twice") and does not hold;
`LiveCommandIsKept` has the exception: another edit of the same second that GitHub
itself showed.

*Read model*: rows of jobs and checks, review activity, placeholders, item repairs, pruning
(30 days, 500 rows), watermarks.  One listing is one instant (a census is several
requests by status, and a run that changes status between them may be missed); the clocks of
GitHub and the queue agree; two events of one run are not at one instant.  A tombstone of the
race of section 6 can be undone by an edit, even of a comment deleted since; hence
`NoResurrection` supposes that the deletion was delivered.  The present
deployment reads workflow runs by polling (`wrangler.toml:58`), so repairs of runs are
off there.

The components not modelled at all are listed in `PROJECT.json` with the reason.

## 8. Plan

1. **Lifecycles**: the obligation to acknowledge, its drivers, parked finalisation,
   composed with the review lane and the intake; it closes the hazard at
   `exact-review-queue.ts:2298`.
2. **Admission order**: `exactReviewQueueAdmittedItems` as a pure algorithm against a
   reference (slots filled, no item skipped for a later one of its target).
3. **Cursor store and cluster intake, comment leases, action ledger, proof requests**.

Theorems to come with them: of a lifecycle module, that the obligation to acknowledge a
command survives supersession, on top of `SystemInv`; of admission, that the admitted set
fills the capacity.  With the publication head that a direct publication could leave
(section 6), `Trusted` could be dropped from the lane's properties; the proofs show where it is
used (`Numbered`).
