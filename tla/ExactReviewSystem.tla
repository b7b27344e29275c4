------------------------- MODULE ExactReviewSystem -------------------------
(***************************************************************************)
(* The exact-review queue among the parties that call it: GitHub, which    *)
(* changes pull requests and sends webhooks; the Worker's ingress, which   *)
(* reserves an authority number for a webhook, verifies the head it names  *)
(* against the live pull request and enqueues it (dashboard/worker.ts);    *)
(* the workflow runs that repository_dispatch starts, each bound to one    *)
(* lease; and the reconciler that settles runs which died.                 *)
(*                                                                         *)
(* Faults (a crash, a lost answer, a failed dispatch, a failed read, a     *)
(* slow run whose lease runs out, a failed review) are finitely many, and  *)
(* so are events, commands and background enqueues: the initial state      *)
(* chooses a budget of them.                                               *)
(***************************************************************************)
EXTENDS ExactReviewQueue, Sequences

CONSTANTS
  MaxEvents,      \* bound: webhook events GitHub sends
  UpdateSteps,    \* by how much an event may move updated_at
  Budgets,        \* bound: what may happen, one record for each scenario
  MaxLeases,      \* bound: leases the alarm writes, and so workflow runs
  MaxAttempts     \* bound: attempts of one workflow run

(* kinds and left: which faults happen, and how many of them; keys: the    *)
(* pull requests at work; events and steps: how many webhook events, and   *)
(* by how much they move updated_at; markers and background: the commands  *)
(* and the background (recovery, scheduled) enqueues; ends: may a pull     *)
(* request be closed or its target withdrawn?                              *)
Budget ==
  [kinds : SUBSET {"claim", "report", "answer", "crash", "rerun", "probe", "dispatch", "slow"},
   left : Nat, keys : SUBSET Keys, events : 0..MaxEvents, steps : SUBSET UpdateSteps,
   markers : SUBSET Markers, background : Nat, ends : BOOLEAN]

ASSUME BoundAssumption ==
  /\ Keys # {} /\ IsFiniteSet(Markers)
  /\ MaxEvents \in Nat /\ MaxLeases \in Nat
  /\ UpdateSteps \subseteq Nat
  /\ Budgets \subseteq Budget
  /\ MaxAttempts \in Nat \ {0}

VARIABLES
  gh,          \* GitHub: key -> the pull request's live state
  deliveries,  \* the webhook deliveries sent, in order, and how far each is
  sourceSeq,   \* EXACT_REVIEW_SOURCE_AUTHORITY_SEQUENCE_KEY
  issued,      \* markers of the commands issued
  background,  \* background enqueues so far
  runs,        \* the workflow runs; run r works on lease r
  terminals,   \* terminal-run reports the reconciler has read, not applied
  budget,      \* what may happen; left counts the faults that still may
  accepted,    \* history: key -> newest accepted webhook source
  pushed,      \* history: key -> head of the newest accepted superseding event
  concluded,   \* history: key -> has a review of that source concluded?
  reviewed,    \* history: key -> the heads whose review has concluded
  fenced,      \* history: running claims that a newer source superseded
  spent        \* history: key -> failures charged to the current input

envVars == <<gh, deliveries, sourceSeq, issued, background, runs, terminals, budget>>
history == <<accepted, pushed, concluded, reviewed, fenced, spent>>
vars == <<queueVars, envVars, history>>

Runs == 1..MaxLeases

Source(d) == <<d.head, d.updatedAt>>
NoSource == <<NoHead, 0>>

(* "resending": the completion was applied, its answer lost.  A run that   *)
(* has ended will not be heard of again; a dead one may be re-run.         *)
RunPcs == {"none", "queued", "admitting", "reviewing", "resending", "ended", "dead"}

NoRunRow == [pc |-> "none", key |-> CHOOSE k \in Keys : TRUE, revision |-> 0,
             head |-> NoHead, attempt |-> 0, generation |-> 0]

EndedRun == [NoRunRow EXCEPT !.pc = "ended"]

Claimant(r) == <<r, runs[r].attempt, runs[r].generation>>

(* A lease whose run is about to start, still to claim it, or working      *)
(* under it.                                                               *)
Healthy(k) ==
  LET lease == items[k].lease
  IN  /\ lease.id \in Runs
      /\ IF lease.run = NoRun
         THEN \/ runs[lease.id].pc \in {"queued", "admitting"}
              \/ alarm.lease[k] = lease.id /\ alarm.result[k] = "todo"
         ELSE runs[lease.id].pc = "reviewing" /\ lease.generation = runs[lease.id].generation

Fault(kind) ==
  /\ kind \in budget.kinds /\ budget.left > 0
  /\ budget' = [budget EXCEPT !.left = @ - 1]
NoFault == budget' = budget

(* How a step moves the count of failures charged to an item's input:      *)
(* charged keys count one more, a changed or renewed input starts afresh.  *)
Charge(charged, renewed) ==
  spent' = [k \in Keys |->
    IF \/ items'[k].state = "absent" \/ k \in renewed
       \/ InputIdentityChanged(items[k].decision, items'[k].decision)
    THEN 0 ELSE spent[k] + (IF k \in charged THEN 1 ELSE 0)]

-----------------------------------------------------------------------------
(* GitHub.                                                                 *)

(* A webhook event: pushes move the head.  updated_at has one-second       *)
(* resolution, so two events may share it.                                 *)
Change(k, action, later) ==
  LET head      == IF action = "push" THEN gh[k].head + 1 ELSE gh[k].head
      updatedAt == gh[k].updatedAt + later
  IN  /\ gh[k].state = "open"
      /\ k \in budget.keys /\ later \in budget.steps /\ Len(deliveries) < budget.events
      /\ gh' = [gh EXCEPT ![k].head = head, ![k].updatedAt = updatedAt]
      /\ deliveries' = Append(deliveries,
           [key |-> k, pc |-> "sent",
            decision |-> [action |-> action, head |-> head, updatedAt |-> updatedAt,
                          seq |-> 0, marker |-> NoMarker]])
      /\ UNCHANGED <<queueVars, sourceSeq, issued, background, runs, terminals, budget, history>>

(* The pull request closes, or its repository stops being hosted. *)
EndTarget(k, state) ==
  /\ budget.ends /\ k \in budget.keys /\ gh[k].state = "open"
  /\ gh' = [gh EXCEPT ![k].state = state]
  /\ UNCHANGED <<queueVars, deliveries, sourceSeq, issued, background, runs, terminals, budget,
                 history>>

-----------------------------------------------------------------------------
(* Ingress.  Deliveries overtake one another; the delivery table answers   *)
(* a repeated one without looking at it.                                   *)

Handled(k) == [key |-> k, pc |-> "done", decision |-> NoDecision]

(* POST /source-authority/reserve *)
Reserve(i) ==
  /\ i \in DOMAIN deliveries /\ deliveries[i].pc = "sent"
  /\ sourceSeq' = sourceSeq + 1
  /\ deliveries' = [deliveries EXCEPT ![i].pc = "reserved", ![i].decision.seq = sourceSeq + 1]
  /\ UNCHANGED <<queueVars, gh, issued, background, runs, terminals, budget, history>>

(* bindLivePullRequestHeadAuthority; the alarm does the same for the       *)
(* reservations the Worker could not finish.                               *)
VerifyHead(i) ==
  /\ i \in DOMAIN deliveries /\ deliveries[i].pc = "reserved"
  /\ deliveries' = [deliveries EXCEPT ![i] =
       IF gh[deliveries[i].key].head = deliveries[i].decision.head
       THEN [deliveries[i] EXCEPT !.pc = "verified"] ELSE Handled(deliveries[i].key)]
  /\ UNCHANGED <<queueVars, gh, sourceSeq, issued, background, runs, terminals, budget, history>>

Ingest(i) ==
  LET k == deliveries[i].key
      d == deliveries[i].decision
      item == items[k]
      taken == item.state = "absent" \/ Admits(item, d)
  IN  /\ i \in DOMAIN deliveries /\ deliveries[i].pc = "verified"
      /\ Enqueue(k, d)
      /\ deliveries' = [deliveries EXCEPT ![i] = Handled(k)]
      /\ accepted' = IF taken THEN [accepted EXCEPT ![k] = Source(d)] ELSE accepted
      /\ concluded' = IF taken THEN [concluded EXCEPT ![k] = FALSE] ELSE concluded
      /\ pushed' = IF taken /\ supersedesInProgress(d)
                   THEN [pushed EXCEPT ![k] = d.head] ELSE pushed
      /\ fenced' = IF item.state # "absent" /\ Admits(item, d) /\ SupersedesActive(item, d)
                      /\ item.lease.run # NoRun
                   THEN fenced \cup {<<item.lease.run, item.lease.attempt,
                                       item.lease.generation>>}
                   ELSE fenced
      /\ Charge({}, {})
      /\ UNCHANGED <<gh, sourceSeq, issued, background, runs, terminals, budget, reviewed>>

(* repository_dispatch of an explicit command. *)
IssueCommand(k, m) ==
  /\ k \in budget.keys /\ m \in budget.markers \ issued
  /\ issued' = issued \cup {m}
  /\ Enqueue(k, [NoDecision EXCEPT !.action = "command", !.marker = m])
  /\ Charge({}, {})
  /\ UNCHANGED <<gh, deliveries, sourceSeq, background, runs, terminals, budget,
                 accepted, pushed, concluded, reviewed, fenced>>

IssueBackground(k, action) ==
  /\ k \in budget.keys /\ background < budget.background
  /\ background' = background + 1
  /\ Enqueue(k, [NoDecision EXCEPT !.action = action])
  /\ Charge({}, {})
  /\ UNCHANGED <<gh, deliveries, sourceSeq, issued, runs, terminals, budget,
                 accepted, pushed, concluded, reviewed, fenced>>

-----------------------------------------------------------------------------
(* Workflow runs.                                                          *)

(* The first half of a claim.  The queue reclaims the item's lease if it   *)
(* has expired, and refuses a lease that is not active.                    *)
ClaimBegin(r) ==
  LET k == runs[r].key
  IN  /\ runs[r].pc = "queued"
      /\ \/ /\ ReclaimOnTouch(k)
            /\ runs' = [runs EXCEPT ![r] = EndedRun]
         \/ /\ ~(Active(items[k]) /\ ~Live(items[k]))
            /\ runs' = [runs EXCEPT ![r] = IF Claimable(k, r, runs[r].revision, r)
                                           THEN [runs[r] EXCEPT !.pc = "admitting"]
                                           ELSE EndedRun]
            /\ UNCHANGED queueVars
      /\ Charge({}, {})
      /\ UNCHANGED <<gh, deliveries, sourceSeq, issued, background, terminals, budget,
                     accepted, pushed, concluded, reviewed, fenced>>

(* The second half, after the hosted-target admission has been awaited. *)
ClaimCommit(r) ==
  LET k == runs[r].key
      lease == items[k].lease
  IN  /\ runs[r].pc = "admitting"
      /\ \/ /\ gh[k].state # "withdrawn"
            /\ ClaimLease(k, r, runs[r].revision, r, runs[r].attempt)
            /\ \/ /\ runs' = [runs EXCEPT ![r].pc = "reviewing",
                                          ![r].generation = lease.generation + 1]
                  /\ NoFault
               \/ runs' = [runs EXCEPT ![r].pc = "queued"] /\ Fault("claim")   \* answer lost
         \/ /\ gh[k].state # "withdrawn"
            /\ ClaimAgain(k, r, runs[r].revision, r, runs[r].attempt)
            /\ runs' = [runs EXCEPT ![r].pc = "reviewing", ![r].generation = lease.generation]
            /\ NoFault
         \/ /\ gh[k].state = "withdrawn"
            /\ ClaimTerminal(k, r, runs[r].revision, r)
            /\ runs' = [runs EXCEPT ![r] = EndedRun] /\ NoFault
         \/ /\ Claimable(k, r, runs[r].revision, r)       \* admission retryable
            /\ runs' = [runs EXCEPT ![r].pc = "queued"] /\ Fault("claim")
            /\ UNCHANGED queueVars
         \/ /\ \/ ~Claimable(k, r, runs[r].revision, r)
               \/ lease.run = r /\ runs[r].attempt < lease.attempt
            /\ runs' = [runs EXCEPT ![r] = EndedRun] /\ NoFault
            /\ UNCHANGED queueVars
      /\ Charge({}, {})
      /\ UNCHANGED <<gh, deliveries, sourceSeq, issued, background, terminals,
                     accepted, pushed, concluded, reviewed, fenced>>

(* A heartbeat that the queue accepts, or answers with lease_superseded.   *)
Beat(r, phase) ==
  LET k == runs[r].key
      run == runs[r]
  IN  /\ run.pc = "reviewing" /\ phase # items[k].lease.phase
      /\ \/ /\ Heartbeat(k, r, run.revision, r, run.attempt, run.generation, run.head, phase)
            /\ UNCHANGED <<runs, fenced>>
         \/ /\ HeartbeatSuperseded(k, r, run.revision, r, run.attempt, run.generation,
                                   run.head, phase)
            /\ runs' = [runs EXCEPT ![r] = EndedRun] /\ UNCHANGED fenced
      /\ Charge({}, {})
      /\ UNCHANGED <<gh, deliveries, sourceSeq, issued, background, terminals, budget,
                     accepted, pushed, concluded, reviewed>>

FailureReport == [success |-> FALSE, deferral |-> FALSE, terminal |-> FALSE,
                  requeueLatest |-> FALSE]

SuccessReport == [FailureReport EXCEPT !.success = TRUE]

(* A report that ends the review of the leased source. *)
Concludes(report) == report.success \/ report.terminal

(* A failed review is charged to the input it was dispatched for. *)
Charged(k, report) ==
  IF ~report.success /\ ~report.terminal /\ ~report.deferral
     /\ ~InputIdentityChanged(items[k].lease.decision, items[k].decision)
  THEN {k} ELSE {}

Finish(r, report, lost) ==
  LET k == runs[r].key
      run == runs[r]
  IN  /\ run.pc = "reviewing"
      /\ CASE lost -> Fault("answer")
           [] ~lost /\ report = SuccessReport -> NoFault
           [] OTHER -> Fault("report")
      /\ Complete(k, r, run.revision, r, run.attempt, run.generation, report)
      /\ runs' = [runs EXCEPT ![r] = IF lost THEN [run EXCEPT !.pc = "resending"] ELSE EndedRun]
      /\ concluded' = IF Concludes(report) /\ Source(items[k].lease.decision) = accepted[k]
                      THEN [concluded EXCEPT ![k] = TRUE] ELSE concluded
      /\ reviewed' = IF Concludes(report)
                     THEN [reviewed EXCEPT ![k] = reviewed[k] \cup {items[k].lease.decision.head}]
                     ELSE reviewed
      /\ Charge(Charged(k, report), IF report.success THEN {k} ELSE {})
      /\ UNCHANGED <<gh, deliveries, sourceSeq, issued, background, terminals,
                     accepted, pushed, fenced>>

(* A completion of a lease the run no longer owns is refused. *)
FinishRefused(r) ==
  LET run == runs[r]
  IN  /\ run.pc \in {"reviewing", "resending"}
      /\ ~OwnsCompletion(run.key, r, run.revision, r, run.attempt, run.generation)
      /\ runs' = [runs EXCEPT ![r] = EndedRun]
      /\ fenced' = fenced \ {Claimant(r)}
      /\ UNCHANGED <<queueVars, gh, deliveries, sourceSeq, issued, background, terminals,
                     budget, accepted, pushed, concluded, reviewed, spent>>

Crash(r) ==
  /\ runs[r].pc \in {"queued", "admitting", "reviewing"}
  /\ Fault("crash")
  /\ runs' = [runs EXCEPT ![r].pc = "dead"]
  /\ fenced' = fenced \ {Claimant(r)}
  /\ UNCHANGED <<queueVars, gh, deliveries, sourceSeq, issued, background, terminals,
                 accepted, pushed, concluded, reviewed, spent>>

(* An operator re-runs the workflow run. *)
Rerun(r) ==
  /\ runs[r].pc = "dead" /\ runs[r].attempt < MaxAttempts
  /\ Fault("rerun")
  /\ runs' = [runs EXCEPT ![r].pc = "queued", ![r].attempt = @ + 1, ![r].generation = 0]
  /\ UNCHANGED <<queueVars, gh, deliveries, sourceSeq, issued, background, terminals, history>>

-----------------------------------------------------------------------------
(* The reconciler reads the claim, then the run's status, then reports.    *)

ReconcileRead(r) ==
  LET k == runs[r].key
  IN  /\ runs[r].pc = "dead"
      /\ items[k].state = "leased" /\ items[k].lease.run = r
      /\ terminals' = terminals \cup {[key |-> k, run |-> r, attempt |-> items[k].lease.attempt,
                                       generation |-> items[k].lease.generation]}
      /\ terminals' # terminals
      /\ UNCHANGED <<queueVars, gh, deliveries, sourceSeq, issued, background, runs, budget,
                     history>>

ReconcileApply(t) ==
  LET k == t.key
  IN  /\ terminals' = terminals \ {t}
      /\ \/ /\ Reconcile(k, t.run, t.attempt, t.generation, FailureReport)
            /\ Charge(Charged(k, FailureReport), {})
         \/ /\ ~ReconcileMatches(k, t.run, t.attempt, t.generation)
            /\ UNCHANGED queueVars
            /\ Charge({}, {})
      /\ UNCHANGED <<gh, deliveries, sourceSeq, issued, background, runs, budget,
                     accepted, pushed, concluded, reviewed, fenced>>

-----------------------------------------------------------------------------
(* The alarm and the clock.                                                *)

Housekeep(due) ==
  /\ AlarmHousekeep(due) /\ Charge({}, {})
  /\ UNCHANGED <<envVars, accepted, pushed, concluded, reviewed, fenced>>

Admit(admitted, checked) ==
  /\ AlarmAdmit(admitted, checked) /\ Charge({}, {})
  /\ UNCHANGED <<envVars, accepted, pushed, concluded, reviewed, fenced>>

LiveProbe(k) == [state |-> gh[k].state,
                 head |-> IF gh[k].state = "open" THEN gh[k].head ELSE NoHead]

Probe(k) ==
  /\ \/ AlarmProbe(k, LiveProbe(k)) /\ NoFault
     \/ \E state \in {"retryable", "unavailable"} :
          AlarmProbe(k, [state |-> state, head |-> NoHead]) /\ Fault("probe")
  /\ UNCHANGED <<gh, deliveries, sourceSeq, issued, background, runs, terminals, history>>

CommitAlarm(global) ==
  /\ AlarmCommit(global) /\ leaseSeq' <= MaxLeases
  /\ Charge({k \in Keys : /\ StillCandidate(k) /\ ~alarm.parked[k] /\ ~global
                          /\ alarm.probe[k].state = "unavailable"}, {})
  /\ UNCHANGED <<envVars, accepted, pushed, concluded, reviewed, fenced>>

(* A failed call may still have started the run. *)
Dispatch(k) ==
  LET id == alarm.lease[k]
      started == [runs EXCEPT ![id] =
        [pc |-> "queued", key |-> k, revision |-> items[k].lease.revision,
         head |-> items[k].lease.decision.head, attempt |-> 1, generation |-> 0]]
  IN  /\ \/ AlarmDispatch(k, "none") /\ runs' = started /\ NoFault
         \/ \E result \in {"rejected", "global"} :
              AlarmDispatch(k, result) /\ runs' \in {started, runs} /\ Fault("dispatch")
      /\ UNCHANGED <<gh, deliveries, sourceSeq, issued, background, terminals, history>>

MergeDispatch ==
  /\ AlarmMerge /\ Charge({}, {})
  /\ UNCHANGED <<envVars, accepted, pushed, concluded, reviewed, fenced>>

(* The lease of a run that will never settle it runs out for free; the     *)
(* lease of a live run runs out only when that run is too slow.            *)
Timeout(k) ==
  /\ Expire(k)
  /\ IF Healthy(k) THEN Fault("slow") ELSE NoFault
  /\ Charge({}, {})
  /\ UNCHANGED <<gh, deliveries, sourceSeq, issued, background, runs, terminals,
                 accepted, pushed, concluded, reviewed, fenced>>

-----------------------------------------------------------------------------

Init ==
  /\ QueueInit
  /\ gh = [k \in Keys |-> [state |-> "open", head |-> 1, updatedAt |-> 1]]
  /\ deliveries = <<>> /\ sourceSeq = 0 /\ issued = {} /\ background = 0
  /\ runs = [r \in Runs |-> NoRunRow] /\ terminals = {} /\ budget \in Budgets
  /\ accepted = [k \in Keys |-> NoSource] /\ pushed = [k \in Keys |-> NoHead]
  /\ concluded = [k \in Keys |-> FALSE] /\ reviewed = [k \in Keys |-> {}]
  /\ fenced = {} /\ spent = [k \in Keys |-> 0]

GitHubStep == \E k \in Keys :
  \/ \E action \in {"push", "label"}, later \in UpdateSteps : Change(k, action, later)
  \/ \E state \in {"closed", "withdrawn"} : EndTarget(k, state)

IngressStep ==
  \/ \E i \in 1..MaxEvents : Reserve(i) \/ VerifyHead(i) \/ Ingest(i)
  \/ \E k \in Keys : \/ \E m \in Markers : IssueCommand(k, m)
                     \/ \E action \in {"recovery", "scheduled"} : IssueBackground(k, action)

RunStep == \E r \in Runs :
  \/ ClaimBegin(r) \/ ClaimCommit(r)
  \/ \E phase \in Phases : Beat(r, phase)
  \/ \E report \in Report, lost \in BOOLEAN : Finish(r, report, lost)
  \/ FinishRefused(r) \/ Crash(r) \/ Rerun(r) \/ ReconcileRead(r)

AlarmStep ==
  \/ \E due \in SUBSET Keys : Housekeep(due)
  \/ \E admitted, checked \in SUBSET Keys : Admit(admitted, checked)
  \/ \E k \in Keys : Probe(k) \/ Dispatch(k) \/ Timeout(k)
  \/ \E global \in BOOLEAN : CommitAlarm(global)
  \/ MergeDispatch

Next == GitHubStep \/ IngressStep \/ RunStep \/ AlarmStep
          \/ \E t \in terminals : ReconcileApply(t)

Spec == Init /\ [][Next]_vars

(* What the deployment keeps doing: the Worker finishes the deliveries it  *)
(* has taken, workflow runs go on to a successful completion unless a      *)
(* fault stops them, the alarm is rearmed until the queue is empty, the    *)
(* clock reaches every lease's expiry, the backoff of a pending item and   *)
(* the recovery time of a parked one.  The last two are strong fairness:   *)
(* an item is ready or due at some of the alarms and not at others.        *)
Fairness ==
  /\ \A i \in 1..MaxEvents : WF_vars(Reserve(i) \/ VerifyHead(i) \/ Ingest(i))
  /\ \A r \in Runs :
       WF_vars(\/ ClaimBegin(r) \/ ClaimCommit(r)
               \/ Finish(r, SuccessReport, FALSE) \/ FinishRefused(r))
  /\ \A k \in Keys :
       /\ SF_vars(Housekeep({k}))
       /\ SF_vars(Admit({k}, {}))
       /\ WF_vars(Timeout(k) /\ NoFault)
       /\ WF_vars((Probe(k) \/ Dispatch(k)) /\ NoFault)
  /\ WF_vars(CommitAlarm(FALSE))
  /\ WF_vars(MergeDispatch)

FairSpec == Spec /\ Fairness

-----------------------------------------------------------------------------
(* Properties.                                                             *)

PullRequest == [state : {"open", "closed", "withdrawn"}, head : Nat, updatedAt : Nat]

Delivery == [key : Keys, pc : {"sent", "reserved", "verified", "done"}, decision : Decision]

RunRow == [pc : RunPcs, key : Keys, revision : Nat, head : Nat, attempt : Nat,
           generation : Nat]

PartiesTypeOK ==
  /\ gh \in [Keys -> PullRequest] /\ deliveries \in Seq(Delivery) /\ sourceSeq \in Nat
  /\ runs \in [Runs -> RunRow]
  /\ terminals \subseteq [key : Keys, run : Runs, attempt : Nat, generation : Nat]

(* The shape of the queue's state and of the parties' state, and one run   *)
(* at most for every lease the queue ever writes.                          *)
TypeOK == QueueTypeOK /\ PartiesTypeOK /\ leaseSeq <= MaxLeases

(* No accepted webhook source is lost: until its review concludes, or the  *)
(* pull request moves past its head or ends, the item still carries it.    *)
(* The deletions are finishExactReviewQueueItem's, the reclaimer's and the *)
(* alarm's, against every order of enqueue, completion and timeout.        *)
NoLostWork == \A k \in Keys :
  \/ accepted[k] = NoSource
  \/ items[k].state # "absent" /\ items[k].decision.head = accepted[k][1]
  \/ concluded[k]
  \/ gh[k].head # accepted[k][1] \/ gh[k].state # "open"

(* Once a superseding event is accepted no lease reviews an older head,    *)
(* except through a status write that it must not interrupt, or to answer  *)
(* a command on a pull request that has closed.                            *)
LeaseIsCurrent == \A k \in Keys :
  Active(items[k]) /\ items[k].lease.decision.head # NoHead =>
    \/ items[k].lease.decision.head >= pushed[k]
    \/ items[k].lease.phase = "status"
    \/ HasCommandContext(items[k].lease.decision) /\ gh[k].state # "open"

(* A lease is only ever written for the head that this alarm has just seen *)
(* live, although enqueues ran while it was looking.                       *)
DispatchesProbedHead ==
  [][\A k \in Keys :
       items'[k].lease.id \notin {NoLeaseId, items[k].lease.id} =>
         \/ items'[k].lease.decision.head \in {NoHead, alarm.probe[k].head}
         \/ alarm.probe[k].state = "closed" /\ HasCommandContext(items'[k].lease.decision)]_vars

(* A run that is working under its claim loses the lease only to its own   *)
(* completion, to a timeout, or to an audited supersession: never to a     *)
(* late reconcile of an earlier attempt or a late dispatch failure.        *)
HealthyHolderKeepsLease ==
  [][\A k \in Keys :
       LET lease == items[k].lease IN
       Healthy(k) /\ lease.run # NoRun /\ items'[k].lease.id # lease.id =>
         \/ lease.expired
         \/ runs'[lease.run].pc # "reviewing"
         \/ audits' # audits]_vars

(* One input is charged at most RetryLimit failures before it parks, and   *)
(* parking resumes it at most ParkedRecoveryLimit times.                   *)
RetryBudget == \A k \in Keys : spent[k] <= RetryLimit * (ParkedRecoveryLimit + 1)

(* Every pull request that events named is reviewed at its live head in    *)
(* the end, however the events, runs, faults and alarms interleave, unless *)
(* it ended or its retries are exhausted.                                  *)
LiveHeadReviewed == \A k \in Keys :
  <>[](\/ \A i \in DOMAIN deliveries : deliveries[i].key # k
       \/ gh[k].state # "open"
       \/ gh[k].head \in reviewed[k] /\ (accepted[k][1] = gh[k].head => concluded[k])
       \/ items[k].state = "parked" /\ ~Recoverable(items[k]))

(* Would a completion of run r be told lease_superseded? *)
ToldSuperseded(r) ==
  CompletionConflict(runs[r].key, r, runs[r].revision, r, runs[r].attempt,
                     runs[r].generation) = "lease_superseded"

(* Only a claimant that a newer source fenced is told lease_superseded,    *)
(* the one conflict a workflow may take as a finished review.              *)
AcknowledgesOnlyFenced ==
  \A r \in Runs : runs[r].pc = "reviewing" /\ ToldSuperseded(r) => Claimant(r) \in fenced

(* Every claimant that a newer source fenced is told so when it completes. *)
FencedIsAcknowledged ==
  \A r \in Runs : runs[r].pc = "reviewing" /\ Claimant(r) \in fenced => ToldSuperseded(r)

=============================================================================
