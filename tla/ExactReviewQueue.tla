-------------------------- MODULE ExactReviewQueue --------------------------
(***************************************************************************)
(* The review lane of the exact-review queue, a Durable Object:            *)
(* dashboard/exact-review-queue.ts.  One item per pull request holds the   *)
(* newest accepted decision, a revision that counts the decisions, and,    *)
(* while a workflow run may work on it, a lease: a snapshot of the         *)
(* decision that was dispatched with the run's claim on it.                *)
(*                                                                         *)
(* A handler runs atomically up to its first await and again after it,     *)
(* because only I/O opens the object's input gate.  So each action below   *)
(* is a handler, or the part of one between two awaits of GitHub.          *)
(*                                                                         *)
(* Time is abstract: a lease becomes expired at any moment (Expire), and a *)
(* pending item or a recoverable parked one may or may not be due when the *)
(* alarm looks.                                                            *)
(***************************************************************************)
EXTENDS ExactReviewDecision, FiniteSets

CONSTANTS
  Keys,                  \* item keys
  Capacity,              \* exactReviewQueueCapacity: review leases at a time
  PendingSoftLimit,      \* exactReviewPendingSoftLimit: background work is shed
  RetryLimit,            \* EXACT_REVIEW_RETRY_LIMIT
  ParkedRecoveryLimit    \* EXACT_REVIEW_PARKED_RECOVERY_LIMIT

ASSUME LimitAssumption ==
  /\ IsFiniteSet(Keys)
  /\ Capacity \in Nat \ {0} /\ PendingSoftLimit \in Nat
  /\ RetryLimit \in Nat \ {0} /\ ParkedRecoveryLimit \in Nat

VARIABLES
  items,         \* state.items: key -> item ("absent": no such property)
  lastRevision,  \* key -> revision high-water mark of lifecycles and commands
  audits,        \* the supersession audit table
  leaseSeq,      \* lease ids handed out so far (crypto.randomUUID: all differ)
  alarm          \* the alarm task in flight; alarmTask lets only one run

queueVars == <<items, lastRevision, audits, leaseSeq, alarm>>

-----------------------------------------------------------------------------
(* Items, leases, audit rows and the alarm's own local state.              *)

ItemStates == {"absent", "pending", "dispatching", "leased", "parked"}

(* leasePhase: the queue's rules single out "status"; "review" stands for  *)
(* the other values, undefined and "finalizing" included.                  *)
Phases == {"review", "status"}

NoLeaseId == 0
NoRun == 0

Lease == [id : Nat, revision : Nat, decision : Decision, expired : BOOLEAN,
          run : Nat, attempt : Nat, generation : Nat, phase : Phases,
          superseding : Nat]    \* statusSupersedingRevision, 0 when absent

NoLease == [id |-> NoLeaseId, revision |-> 0, decision |-> NoDecision,
            expired |-> FALSE, run |-> NoRun, attempt |-> 0, generation |-> 0,
            phase |-> "review", superseding |-> 0]

Item == [state : ItemStates, revision : Nat, decision : Decision,
         watermark : Watermark, lease : Lease, failures : Nat,
         recoveries : Nat]

Absent == [state |-> "absent", revision |-> 0, decision |-> NoDecision,
           watermark |-> NoWatermark, lease |-> NoLease, failures |-> 0,
           recoveries |-> 0]

Audit == [key : Keys, prior : Nat, next : Nat, lease : Nat, run : Nat,
          attempt : Nat, generation : Nat]

Active(item) == item.state \in {"dispatching", "leased"}
Mergeable(item) == item.state \in {"pending", "parked"}

(* isLiveExactReviewLease *)
Live(item) == item.lease.id # NoLeaseId /\ ~item.lease.expired

(* What the alarm learns of a candidate's target.                          *)
ProbeStates == {"none", "open", "closed", "withdrawn", "retryable", "unavailable"}
NoProbe == [state |-> "none", head |-> NoHead]
DispatchResults == {"none", "todo", "rejected", "global", "unattempted"}

IdleAlarm == [pc     |-> "idle",
              cand   |-> [k \in Keys |-> 0],          \* revision admitted, 0: none
              parked |-> [k \in Keys |-> FALSE],      \* admitted as parkedCandidate
              probe  |-> [k \in Keys |-> NoProbe],
              result |-> [k \in Keys |-> "none"],     \* of the workflow dispatch
              lease  |-> [k \in Keys |-> NoLeaseId]]  \* the lease dispatched

-----------------------------------------------------------------------------
(* Transitions of one item.                                                *)

(* clearExactReviewLease, and back to pending. *)
Requeued(item) == [item EXCEPT !.lease = NoLease, !.state = "pending"]

OneShot(item) == isLowPriority(item.lease.decision)

(* reclaimExpiredExactReviewLease: a timed-out lease is not a failure, so  *)
(* it spends no retry budget.                                              *)
Reclaimed(item) ==
  LET changed == InputIdentityChanged(item.lease.decision, item.decision)
  IN  IF ~Active(item) \/ Live(item) THEN item
      ELSE IF OneShot(item) /\ ~changed THEN Absent
      ELSE [Requeued(item) EXCEPT !.failures = IF changed THEN 0 ELSE item.failures]

(* One failed attempt: the retry budget, and parking when it is spent.     *)
FailedOnce(item) ==
  [item EXCEPT !.failures = item.failures + 1,
               !.state = IF item.failures + 1 >= RetryLimit THEN "parked" ELSE "pending"]

(* A workflow's report: outcome (a cancelled run retries as a failed one), *)
(* deferral = retry_kind given, terminal = review_failure_reason given,    *)
(* requeueLatest = the source drifted under the review.                    *)
Report == [success : BOOLEAN, deferral : BOOLEAN, terminal : BOOLEAN,
           requeueLatest : BOOLEAN]

ValidReport(r) == /\ r.deferral => ~r.success /\ ~r.terminal
                  /\ r.terminal => ~r.success
                  /\ r.requeueLatest => r.success

(* Mutant: only a failed review is followed by the newer revision. *)
MutantFinished(item, report) ==
  IF report.success \/ report.terminal THEN Absent
  ELSE IF report.deferral THEN Requeued(item) ELSE FailedOnce(Requeued(item))

(* finishExactReviewQueueItem *)
Finished(item, report) ==
  LET retrying == ~report.success /\ ~report.terminal
      changed  == /\ item.revision > item.lease.revision
                  /\ InputIdentityChanged(item.lease.decision, item.decision)
      deferral == report.deferral /\ ~changed /\ ~report.requeueLatest
      requeued == \/ deferral
                  \/ ~OneShot(item) /\ retrying
                  \/ changed
                  \/ report.requeueLatest
  IN  CASE ~requeued -> Absent
        [] requeued /\ deferral -> Requeued(item)
        [] requeued /\ ~deferral /\ retrying /\ ~changed -> FailedOnce(Requeued(item))
        [] OTHER -> [Requeued(item) EXCEPT !.failures = 0, !.recoveries = 0]

(* recoverParkedExactReviewItems *)
Recoverable(item) == item.state = "parked" /\ item.recoveries < ParkedRecoveryLimit

(* Mutant: a recovery does not count. *)
MutantRecovered(item) == [item EXCEPT !.state = "pending", !.failures = 0]

Recovered(item) ==
  [item EXCEPT !.state = "pending", !.recoveries = item.recoveries + 1, !.failures = 0]

-----------------------------------------------------------------------------
(* POST /enqueue *)

PendingReviews == {k \in Keys : items[k].state = "pending"}

(* The decision an active review is working on, else the queued one.       *)
ActiveDecision(item) == IF Active(item) THEN item.lease.decision ELSE item.decision

(* A command without an authority tuple binds to the item's own authority; *)
(* any other decision must be newer than what the item has accepted.       *)
BindsCommand(d) == HasCommandContext(d) /\ d.head = NoHead /\ d.seq = 0

Admits(item, d) ==
  /\ ~isLowPriority(d) /\ ~isScheduled(d)
  /\ BindsCommand(d) \/ CanSupersedeReview(ActiveDecision(item), item.watermark, d)

SupersedesActive(item, d) ==
  /\ Active(item) /\ ~BindsCommand(d) /\ supersedesInProgress(d)
  /\ item.lease.phase # "status"

(* Mutant: an event of the status phase is left to the next heartbeat. *)
MutantQueuesStatusSupersession(item, d) == FALSE

QueuesStatusSupersession(item, d) ==
  /\ Active(item) /\ ~BindsCommand(d) /\ supersedesInProgress(d)
  /\ item.lease.phase = "status"
  /\ InputIdentityChanged(item.lease.decision, d)

(* nextExactReviewItemRevisionSync or nextExactReviewCommandRevisionSync.  *)
NextRevision(k, minimum, command) ==
  IF command /\ lastRevision[k] >= minimum THEN lastRevision[k] + 1 ELSE minimum

MergedDecision(item, d) ==
  IF SupersedesActive(item, d) \/ (Active(item) /\ ~BindsCommand(d))
  THEN d
  ELSE mergePending(item.decision, d)

(* Only a decision with the very same input keeps the retry budget.        *)
KeepsRetryBudget(item, d) ==
  /\ Mergeable(item) \/ SupersedesActive(item, d)
  /\ ~HasCommandContext(d)
  /\ ~InputIdentityChanged(item.decision, MergedDecision(item, d))

Updated(item, d, revision) ==
  LET freed  == IF SupersedesActive(item, d) THEN Requeued(item) ELSE item
      marked == [freed EXCEPT !.lease.superseding =
                   IF QueuesStatusSupersession(item, d) THEN revision
                                                        ELSE freed.lease.superseding]
      fresh  == Mergeable(freed) /\ ~KeepsRetryBudget(item, d)
  IN  [marked EXCEPT !.decision = MergedDecision(item, d),
                     !.revision = revision,
                     !.watermark = AdvanceWatermark(item.watermark, d),
                     !.state = IF fresh THEN "pending" ELSE marked.state,
                     !.failures = IF fresh THEN 0 ELSE marked.failures,
                     !.recoveries = IF fresh THEN 0 ELSE marked.recoveries]

(* The audit row of a superseded lease.  Its prior revision is the item's, *)
(* not the lease's.                                                        *)
SupersessionAudit(k, prior, next) ==
  [key |-> k, prior |-> prior, next |-> next, lease |-> items[k].lease.id,
   run |-> items[k].lease.run, attempt |-> items[k].lease.attempt,
   generation |-> items[k].lease.generation]

EnqueueExisting(k, d) ==
  LET item     == items[k]
      command  == HasCommandContext(item.decision) \/ HasCommandContext(d)
      revision == NextRevision(k, item.revision + 1, command)
  IN  /\ item.state # "absent" /\ Admits(item, d)
      /\ items' = [items EXCEPT ![k] = Updated(item, d, revision)]
      /\ audits' = IF SupersedesActive(item, d)
                   THEN audits \cup {SupersessionAudit(k, item.revision, revision)}
                   ELSE audits
      /\ lastRevision' = IF command THEN [lastRevision EXCEPT ![k] = revision]
                                    ELSE lastRevision
      /\ UNCHANGED <<leaseSeq, alarm>>

(* Background work is shed when the pending backlog is at its soft limit.  *)
Sheds(d) == /\ isLowPriority(d) \/ isScheduled(d)
            /\ Cardinality(PendingReviews) >= PendingSoftLimit

EnqueueNew(k, d) ==
  LET revision == NextRevision(k, 1, HasCommandContext(d))
  IN  /\ items[k].state = "absent" /\ ~Sheds(d)
      /\ items' = [items EXCEPT ![k] =
                     [Absent EXCEPT !.state = "pending", !.revision = revision,
                                    !.decision = d,
                                    !.watermark = AdvanceWatermark(NoWatermark, d)]]
      /\ lastRevision' = [lastRevision EXCEPT ![k] =
                            IF revision > lastRevision[k] THEN revision ELSE lastRevision[k]]
      /\ UNCHANGED <<audits, leaseSeq, alarm>>

(* A delivery the queue answers without changing the item: background work *)
(* for an existing item or past the limit, or a source that is not newer.  *)
EnqueueIgnored(k, d) ==
  /\ IF items[k].state = "absent" THEN Sheds(d) ELSE ~Admits(items[k], d)
  /\ UNCHANGED queueVars

Enqueue(k, d) == EnqueueNew(k, d) \/ EnqueueExisting(k, d) \/ EnqueueIgnored(k, d)

-----------------------------------------------------------------------------
(* POST /claim, /heartbeat, /complete and /reconcile.                      *)

(* Touching an expired lease reclaims it before anything else. *)
ReclaimOnTouch(k) ==
  /\ Active(items[k]) /\ ~Live(items[k])
  /\ items' = [items EXCEPT ![k] = Reclaimed(items[k])]
  /\ UNCHANGED <<lastRevision, audits, leaseSeq, alarm>>

(* The lease tuple names this item's live lease and no other run owns it;  *)
(* checked before and again after the hosted-target admission.             *)
Claimable(k, id, revision, run) ==
  /\ items[k].lease.id = id /\ items[k].lease.revision = revision
  /\ Live(items[k])
  /\ items[k].lease.run \in {NoRun, run}

(* Mutant: a rerun renews the lease under the older attempt's generation. *)
MutantClaimLease(k, id, revision, run, attempt) ==
  LET lease == items[k].lease
  IN  /\ Claimable(k, id, revision, run)
      /\ lease.run = NoRun \/ attempt > lease.attempt
      /\ items' = [items EXCEPT ![k].state = "leased",
                                ![k].lease = [lease EXCEPT !.run = run, !.attempt = attempt]]
      /\ UNCHANGED <<lastRevision, audits, leaseSeq, alarm>>

(* A first claim, or a rerun's: a new generation fences the older attempt. *)
ClaimLease(k, id, revision, run, attempt) ==
  LET lease == items[k].lease
  IN  /\ Claimable(k, id, revision, run)
      /\ lease.run = NoRun \/ attempt > lease.attempt
      /\ items' = [items EXCEPT ![k].state = "leased",
                                ![k].lease = [lease EXCEPT !.run = run,
                                                !.attempt = attempt,
                                                !.generation = lease.generation + 1]]
      /\ UNCHANGED <<lastRevision, audits, leaseSeq, alarm>>

(* The same attempt claims again (its answer was lost): the lease is       *)
(* renewed under the same generation.                                      *)
ClaimAgain(k, id, revision, run, attempt) ==
  /\ Claimable(k, id, revision, run)
  /\ items[k].lease.run = run /\ attempt = items[k].lease.attempt
  /\ UNCHANGED queueVars

(* Hosted-target admission found the target withdrawn. *)
ClaimTerminal(k, id, revision, run) ==
  /\ Claimable(k, id, revision, run)
  /\ items' = [items EXCEPT ![k] = Absent]
  /\ UNCHANGED <<lastRevision, audits, leaseSeq, alarm>>

OwnsHeartbeat(k, id, revision, run, attempt, generation, head) ==
  /\ items[k].state = "leased" /\ Live(items[k])
  /\ items[k].lease.id = id /\ items[k].lease.revision = revision
  /\ items[k].lease.run = run /\ items[k].lease.attempt = attempt
  /\ items[k].lease.generation = generation
  /\ items[k].lease.decision.head \in {NoHead, head}

(* Leaving the status phase is where a supersession that arrived during it *)
(* takes effect.                                                           *)
StatusSuccessorSupersedes(item, phase) ==
  /\ phase # "status" /\ item.lease.phase = "status"
  /\ \/ item.lease.superseding > item.lease.revision
     \/ /\ item.lease.superseding = 0
        /\ item.revision > item.lease.revision
        /\ supersedesInProgress(item.decision)
        /\ InputIdentityChanged(item.lease.decision, item.decision)

Heartbeat(k, id, revision, run, attempt, generation, head, phase) ==
  /\ OwnsHeartbeat(k, id, revision, run, attempt, generation, head)
  /\ ~StatusSuccessorSupersedes(items[k], phase)
  /\ items' = [items EXCEPT ![k].lease.phase = phase]
  /\ UNCHANGED <<lastRevision, audits, leaseSeq, alarm>>

HeartbeatSuperseded(k, id, revision, run, attempt, generation, head, phase) ==
  /\ OwnsHeartbeat(k, id, revision, run, attempt, generation, head)
  /\ StatusSuccessorSupersedes(items[k], phase)
  /\ audits' = audits \cup {SupersessionAudit(k, items[k].lease.revision, items[k].revision)}
  /\ items' = [items EXCEPT ![k] = Requeued(items[k])]
  /\ UNCHANGED <<lastRevision, leaseSeq, alarm>>

(* The completion's ownership test; a lease that expired but was not       *)
(* reclaimed yet still completes.                                          *)
OwnsCompletion(k, id, revision, run, attempt, generation) ==
  /\ items[k].lease.id = id /\ id # NoLeaseId
  /\ items[k].lease.revision = revision
  /\ items[k].lease.generation = generation
  /\ items[k].lease.run = run /\ items[k].lease.attempt = attempt

Complete(k, id, revision, run, attempt, generation, report) ==
  /\ ValidReport(report)
  /\ OwnsCompletion(k, id, revision, run, attempt, generation)
  /\ items' = [items EXCEPT ![k] = Finished(items[k], report)]
  /\ UNCHANGED <<lastRevision, audits, leaseSeq, alarm>>

(* Mutant: the audit is matched by lease and revision alone. *)
MutantProvesSuperseded(k, id, revision, run, attempt, generation) ==
  \E a \in audits : a.key = k /\ a.prior = revision /\ a.next > revision

(* supersededCompletionRevisionSync: does the audit prove that this very   *)
(* claimant was fenced by a newer source?                                  *)
ProvesSuperseded(k, id, revision, run, attempt, generation) ==
  \E a \in audits : /\ a.key = k /\ a.prior = revision /\ a.lease = id
                    /\ a.run = run /\ a.attempt = attempt
                    /\ a.generation = generation /\ a.next > revision

(* What a completion that does not own the lease is told. *)
CompletionConflict(k, id, revision, run, attempt, generation) ==
  IF ProvesSuperseded(k, id, revision, run, attempt, generation)
  THEN "lease_superseded" ELSE "lease_not_claimed"

(* Mutant: a terminal run is matched by its id, whatever the attempt. *)
MutantReconcileMatches(k, run, attempt, generation) ==
  items[k].state = "leased" /\ items[k].lease.run = run

(* A finished workflow run that its own completion call did not settle.    *)
ReconcileMatches(k, run, attempt, generation) ==
  /\ items[k].state = "leased" /\ items[k].lease.run = run
  /\ items[k].lease.attempt = attempt /\ items[k].lease.generation = generation

Reconcile(k, run, attempt, generation, report) ==
  /\ ReconcileMatches(k, run, attempt, generation)
  /\ items' = [items EXCEPT ![k] = Finished(items[k], report)]
  /\ UNCHANGED <<lastRevision, audits, leaseSeq, alarm>>

(* Time passes a lease's effective expiry.                                 *)
Expire(k) ==
  /\ Active(items[k]) /\ Live(items[k])
  /\ items' = [items EXCEPT ![k].lease.expired = TRUE]
  /\ UNCHANGED <<lastRevision, audits, leaseSeq, alarm>>

-----------------------------------------------------------------------------
(* The alarm.  handleAlarm awaits GitHub at three points: between them it  *)
(* works on state it has just read again.                                  *)

ActiveReviews(rows) == {k \in Keys : Active(rows[k])}

(* Startup housekeeping: expired leases and the parked items that are due. *)
(* With nothing to admit or to check the alarm is over.                    *)
ParkedTerminalCandidates(rows) ==
  {k \in Keys : rows[k].state = "parked" /\ ~Recoverable(rows[k])}

AlarmHousekeep(due) ==
  LET rows == [k \in Keys |-> IF k \in due /\ Recoverable(items[k])
                              THEN Recovered(items[k]) ELSE Reclaimed(items[k])]
      work == \/ \E k \in Keys : rows[k].state = "pending"
              \/ ParkedTerminalCandidates(rows) # {}
  IN  /\ alarm.pc = "idle"
      /\ items' = rows
      /\ alarm' = [IdleAlarm EXCEPT !.pc = IF work THEN "preflight" ELSE "idle"]
      /\ UNCHANGED <<lastRevision, audits, leaseSeq>>

(* Mutant: only dispatching leases are counted. *)
MutantAdmissible(rows, admitted) ==
  /\ admitted \subseteq {k \in Keys : rows[k].state = "pending"}
  /\ Cardinality(admitted) + Cardinality({k \in Keys : rows[k].state = "dispatching"})
       <= Capacity

(* exactReviewQueueAdmittedItems fills the free review slots with ready    *)
(* items.  One exhausted parked item may ride along for a terminal check.  *)
Admissible(rows, admitted) ==
  /\ admitted \subseteq {k \in Keys : rows[k].state = "pending"}
  /\ Cardinality(admitted) + Cardinality(ActiveReviews(rows)) <= Capacity

AlarmAdmit(admitted, checked) ==
  LET rows == [k \in Keys |-> Reclaimed(items[k])]
  IN  /\ alarm.pc = "preflight"
      /\ admitted # {} => Admissible(rows, admitted)
      /\ checked \subseteq ParkedTerminalCandidates(rows) /\ Cardinality(checked) <= 1
      /\ items' = rows
      /\ alarm' = IF admitted \cup checked = {} THEN IdleAlarm
                  ELSE [alarm EXCEPT !.pc = "probing",
                          !.cand = [k \in Keys |-> IF k \in admitted \cup checked
                                                   THEN rows[k].revision ELSE 0],
                          !.parked = [k \in Keys |-> k \in checked]]
      /\ UNCHANGED <<lastRevision, audits, leaseSeq>>

(* The live read of one candidate's target. *)
AlarmProbe(k, result) ==
  /\ alarm.pc = "probing" /\ alarm.cand[k] # 0 /\ alarm.probe[k] = NoProbe
  /\ alarm' = [alarm EXCEPT !.probe[k] = result]
  /\ UNCHANGED <<items, lastRevision, audits, leaseSeq>>

(* The item is still the one that was admitted. *)
StillCandidate(k) ==
  /\ alarm.cand[k] # 0 /\ items[k].revision = alarm.cand[k]
  /\ items[k].state = IF alarm.parked[k] THEN "parked" ELSE "pending"

(* Mutant: the comparison is the wrong way round. *)
MutantStaleLiveHead(item, probe) ==
  probe.state = "open" /\ item.decision.head > probe.head

(* exactReviewQueueHasStaleLiveHead *)
StaleLiveHead(item, probe) ==
  probe.state = "open" /\ item.decision.head \notin {NoHead, probe.head}

(* A command survives a stale head: it moves to the live one. *)
AdvancedToLiveHead(item, head) ==
  [item EXCEPT !.decision = AtLiveHead(item.decision, head),
               !.revision = item.revision + 1, !.failures = 0, !.recoveries = 0]

(* What the probe makes of a candidate, before any dispatch.  global: a    *)
(* failure of GitHub as a whole charges no item.                           *)
Checked(k, global) ==
  LET item    == items[k]
      probe   == alarm.probe[k]
      command == HasCommandContext(item.decision)
      exempt  == item.state = "parked" /\ command
  IN  CASE ~StillCandidate(k) \/ exempt -> item
        [] StillCandidate(k) /\ ~exempt /\ probe.state = "withdrawn" -> Absent
        [] StillCandidate(k) /\ ~exempt /\ probe.state = "closed" /\ ~command -> Absent
        [] StillCandidate(k) /\ ~exempt /\ StaleLiveHead(item, probe) ->
             IF command THEN AdvancedToLiveHead(item, probe.head) ELSE Absent
        [] StillCandidate(k) /\ ~exempt /\ probe.state = "unavailable"
             /\ item.state = "pending" /\ ~global -> FailedOnce(item)
        [] OTHER -> item

(* A command acknowledges through the workflow even on a closed target. *)
Dispatchable(global) ==
  {k \in Keys :
     /\ ~global /\ StillCandidate(k) /\ ~alarm.parked[k]
     /\ \/ alarm.probe[k].state = "open" /\ ~StaleLiveHead(items[k], alarm.probe[k])
        \/ alarm.probe[k].state = "closed" /\ HasCommandContext(items[k].decision)}

(* Mutant: the dispatch keeps the claim that an earlier lease left behind. *)
MutantDispatchLease(item, id) ==
  [item EXCEPT !.state = "dispatching",
               !.lease = [item.lease EXCEPT !.id = id, !.revision = item.revision + 1,
                                            !.decision = item.decision]]

(* The lease written before the workflow is dispatched. *)
DispatchLease(item, id) ==
  [item EXCEPT !.state = "dispatching",
               !.lease = [NoLease EXCEPT !.id = id, !.revision = item.revision,
                                         !.decision = item.decision]]

AlarmCommit(global) ==
  LET chosen == Dispatchable(global)
  IN  /\ alarm.pc = "probing"
      /\ \A k \in Keys : alarm.cand[k] # 0 => alarm.probe[k] # NoProbe
      /\ global => \E k \in Keys : ~alarm.parked[k] /\ alarm.probe[k].state = "unavailable"
      /\ \E ids \in [chosen -> (leaseSeq + 1)..(leaseSeq + Cardinality(chosen))] :
           /\ \A j, k \in chosen : ids[j] = ids[k] => j = k
           /\ items' = [k \in Keys |-> IF k \in chosen
                                       THEN DispatchLease(items[k], ids[k])
                                       ELSE Checked(k, global)]
           /\ alarm' = IF chosen = {} THEN IdleAlarm
                       ELSE [alarm EXCEPT !.pc = "dispatching",
                               !.result = [k \in Keys |-> IF k \in chosen THEN "todo"
                                                                         ELSE "none"],
                               !.lease = [k \in Keys |-> IF k \in chosen THEN ids[k]
                                                                        ELSE NoLeaseId]]
      /\ leaseSeq' = leaseSeq + Cardinality(chosen)
      /\ UNCHANGED <<lastRevision, audits>>

(* One repository_dispatch.  After a global failure the rest are skipped.  *)
AlarmDispatch(k, result) ==
  /\ alarm.pc = "dispatching" /\ alarm.result[k] = "todo"
  /\ alarm' = [alarm EXCEPT !.result =
       [j \in Keys |-> CASE j = k -> result
                         [] j # k /\ result = "global" /\ alarm.result[j] = "todo"
                              -> "unattempted"
                         [] OTHER -> alarm.result[j]]]
  /\ UNCHANGED <<items, lastRevision, audits, leaseSeq>>

(* A failure is applied only while its exact lease is unclaimed: the run   *)
(* may exist although the call failed.                                     *)
OwnsDispatchFailure(k) ==
  /\ alarm.result[k] \in {"rejected", "global", "unattempted"}
  /\ items[k].lease.id = alarm.lease[k] /\ items[k].state = "dispatching"
  /\ items[k].lease.run = NoRun

AlarmMerge ==
  /\ alarm.pc = "dispatching" /\ \A k \in Keys : alarm.result[k] # "todo"
  /\ items' = [k \in Keys |->
       IF OwnsDispatchFailure(k)
       THEN [Requeued(items[k]) EXCEPT !.state = IF alarm.result[k] = "rejected"
                                                 THEN "parked" ELSE "pending"]
       ELSE items[k]]
  /\ alarm' = IdleAlarm
  /\ UNCHANGED <<lastRevision, audits, leaseSeq>>

QueueInit ==
  /\ items = [k \in Keys |-> Absent]
  /\ lastRevision = [k \in Keys |-> 0]
  /\ audits = {} /\ leaseSeq = 0 /\ alarm = IdleAlarm

(* The queue with callers that may send anything, at any time. *)
RunCall(k, id, revision, run, attempt, generation) ==
  \/ ClaimLease(k, id, revision, run, attempt)
  \/ ClaimAgain(k, id, revision, run, attempt)
  \/ ClaimTerminal(k, id, revision, run)
  \/ \E head \in Nat, phase \in Phases :
       \/ Heartbeat(k, id, revision, run, attempt, generation, head, phase)
       \/ HeartbeatSuperseded(k, id, revision, run, attempt, generation, head, phase)
  \/ \E report \in Report :
       \/ Complete(k, id, revision, run, attempt, generation, report)
       \/ Reconcile(k, run, attempt, generation, report)

Handler(k) ==
  \/ \E d \in Decision : Enqueue(k, d)
  \/ ReclaimOnTouch(k) \/ Expire(k)
  \/ \E id, revision, attempt, generation \in Nat, run \in Nat \ {NoRun} :
       RunCall(k, id, revision, run, attempt, generation)

AlarmTask ==
  \/ \E due \in SUBSET Keys : AlarmHousekeep(due)
  \/ \E admitted, checked \in SUBSET Keys : AlarmAdmit(admitted, checked)
  \/ \E k \in Keys, state \in ProbeStates \ {"none"}, head \in Nat :
       AlarmProbe(k, [state |-> state, head |-> head])
  \/ \E global \in BOOLEAN : AlarmCommit(global)
  \/ \E k \in Keys, result \in {"none", "rejected", "global"} : AlarmDispatch(k, result)
  \/ AlarmMerge

QueueNext == AlarmTask \/ \E k \in Keys : Handler(k)

QueueSpec == QueueInit /\ [][QueueNext]_queueVars

-----------------------------------------------------------------------------
(* What the queue keeps whoever calls it.                                  *)

AlarmState ==
  [pc : {"idle", "preflight", "probing", "dispatching"}, cand : [Keys -> Nat],
   parked : [Keys -> BOOLEAN], probe : [Keys -> [state : ProbeStates, head : Nat]],
   result : [Keys -> DispatchResults], lease : [Keys -> Nat]]

(* The shape of the durable state and of the alarm's.                      *)
QueueTypeOK ==
  /\ items \in [Keys -> Item] /\ lastRevision \in [Keys -> Nat]
  /\ audits \subseteq Audit /\ leaseSeq \in Nat /\ alarm \in AlarmState

(* The fields of an item agree after every handler: a lease exists exactly *)
(* while the item is active, it is claimed exactly while it is leased, its *)
(* revision is one the item has had, a recorded supersession is newer than *)
(* the lease, and a lease id names one item.  Every handler finds its item *)
(* by these fields, and none writes them all.                              *)
LeaseConsistent(item, seq) ==
  /\ Active(item) <=> item.lease.id # NoLeaseId
  /\ item.state = "leased" <=> item.lease.run # NoRun
  /\ item.lease.run = NoRun => item.lease.attempt = 0
  /\ item.lease.id <= seq
  /\ item.lease.revision <= item.revision
  /\ item.lease.superseding # 0 =>
       item.lease.superseding \in (item.lease.revision + 1)..item.revision

LeasesConsistent ==
  /\ \A k \in Keys : LeaseConsistent(items[k], leaseSeq)
  /\ \A j, k \in Keys :
       items[j].lease.id = items[k].lease.id /\ items[k].lease.id # NoLeaseId => j = k

(* The alarm picks its admissions, awaits GitHub, and dispatches: whatever *)
(* happens while it waits, it never has more review leases out than the    *)
(* capacity.                                                               *)
CapacityRespected == Cardinality(ActiveReviews(items)) <= Capacity

(* A lease never changes hands: the run that claimed it keeps it, a later  *)
(* attempt of that run only takes it under a higher generation, and what   *)
(* was dispatched to be reviewed is never exchanged under the run.         *)
SameHands(old, new) ==
  /\ new.decision = old.decision /\ new.revision = old.revision
  /\ old.run # NoRun => new.run = old.run
  /\ <<new.run, new.attempt>> # <<old.run, old.attempt>> =>
       new.generation > old.generation /\ new.attempt >= old.attempt

LeaseKeepsHands ==
  [][\A k \in Keys :
       items[k].lease.id # NoLeaseId /\ items'[k].lease.id = items[k].lease.id =>
         SameHands(items[k].lease, items'[k].lease)]_queueVars

=============================================================================
