---------------------- MODULE ExactReviewSystemProofs ----------------------
(***************************************************************************)
(* The review system implements the open queue: whatever GitHub, ingress,  *)
(* workflow runs and reconciler do, the queue sees calls that QueueSpec    *)
(* lets anybody make.  So all that is proved of the open queue holds here. *)
(***************************************************************************)
EXTENDS ExactReviewSystem, ExactReviewQueueProofs

Simulates == QueueNext \/ UNCHANGED queueVars

LeasesBounded == leaseSeq <= MaxLeases

(* A step that only the parties see. *)
Keeps == PartiesTypeOK' /\ LeasesBounded' /\ Simulates

-----------------------------------------------------------------------------
(* Bounds, rows and calls.                                                 *)

LEMMA RunsAreNumbers == MaxLeases \in Nat /\ Runs \subseteq Nat \ {NoRun}
  BY BoundAssumption DEF Runs, NoRun

(* The row of a run that does nothing. *)
LEMMA IdleRunType == NoRunRow \in RunRow /\ EndedRun \in RunRow
<1>1. (CHOOSE k \in Keys : TRUE) \in Keys
  BY BoundAssumption
<1>. QED
  BY <1>1 DEF NoRunRow, EndedRun, RunRow, RunPcs, NoHead

(* Only the alarm writes leases. *)
LEMMA HandlersWriteNoLease ==
  ASSUME NEW k \in Keys, Handler(k)
  PROVE  UNCHANGED leaseSeq
<1>1. ASSUME NEW d \in Decision, Enqueue(k, d)
      PROVE  UNCHANGED leaseSeq
  BY <1>1 DEF Enqueue, EnqueueNew, EnqueueExisting, EnqueueIgnored, queueVars
<1>2. ASSUME ReclaimOnTouch(k) \/ Expire(k)
      PROVE  UNCHANGED leaseSeq
  BY <1>2 DEF ReclaimOnTouch, Expire
<1>3. ASSUME NEW id \in Nat, NEW revision \in Nat, NEW attempt \in Nat,
             NEW generation \in Nat, NEW run \in Nat \ {NoRun},
             RunCall(k, id, revision, run, attempt, generation)
      PROVE  UNCHANGED leaseSeq
  <2>1. ASSUME \/ ClaimLease(k, id, revision, run, attempt)
               \/ ClaimAgain(k, id, revision, run, attempt)
               \/ ClaimTerminal(k, id, revision, run)
        PROVE  UNCHANGED leaseSeq
    BY <2>1 DEF ClaimLease, ClaimAgain, ClaimTerminal, queueVars
  <2>2. ASSUME NEW head \in Nat, NEW phase \in Phases,
               \/ Heartbeat(k, id, revision, run, attempt, generation, head, phase)
               \/ HeartbeatSuperseded(k, id, revision, run, attempt, generation, head, phase)
        PROVE  UNCHANGED leaseSeq
    BY <2>2 DEF Heartbeat, HeartbeatSuperseded
  <2>3. ASSUME NEW report \in Report,
               \/ Complete(k, id, revision, run, attempt, generation, report)
               \/ Reconcile(k, run, attempt, generation, report)
        PROVE  UNCHANGED leaseSeq
    BY <2>3 DEF Complete, Reconcile
  <2>. QED
    BY <1>3, <2>1, <2>2, <2>3 DEF RunCall
<1>. QED
  BY <1>1, <1>2, <1>3 DEF Handler

(* A call that the open queue may get keeps the bound and is simulated.    *)
LEMMA HandlerSimulates ==
  ASSUME LeasesBounded, NEW k \in Keys, Handler(k) \/ UNCHANGED queueVars
  PROVE  LeasesBounded' /\ Simulates
<1>1. CASE UNCHANGED queueVars
  BY <1>1 DEF queueVars, LeasesBounded, Simulates
<1>2. CASE Handler(k)
  BY <1>2, HandlersWriteNoLease DEF LeasesBounded, Simulates, QueueNext
<1>. QED
  BY <1>1, <1>2

-----------------------------------------------------------------------------
(* GitHub and the ingress.                                                 *)

LEMMA GitHubKeeps ==
  ASSUME PartiesTypeOK, LeasesBounded, GitHubStep
  PROVE  Keeps
<1>1. ASSUME NEW k \in Keys, NEW action \in {"push", "label"}, NEW later \in UpdateSteps,
             Change(k, action, later)
      PROVE  Keeps
  <2> DEFINE head == IF action = "push" THEN gh[k].head + 1 ELSE gh[k].head
             updatedAt == gh[k].updatedAt + later
             decision == [action |-> action, head |-> head, updatedAt |-> updatedAt,
                          seq |-> 0, marker |-> NoMarker]
             delivery == [key |-> k, pc |-> "sent", decision |-> decision]
  <2>1. head \in Nat /\ updatedAt \in Nat
    BY BoundAssumption DEF PartiesTypeOK, PullRequest
  <2>2. delivery \in Delivery
    BY <2>1 DEF Delivery, Decision, Actions
  <2>3. /\ gh' = [gh EXCEPT ![k].head = head, ![k].updatedAt = updatedAt]
        /\ deliveries' = Append(deliveries, delivery)
        /\ UNCHANGED <<queueVars, sourceSeq, runs, terminals>>
    BY <1>1 DEF Change
  <2> HIDE DEF head, updatedAt, delivery
  <2>4. gh' \in [Keys -> PullRequest]
    BY <2>1, <2>3 DEF PartiesTypeOK, PullRequest
  <2>5. deliveries' \in Seq(Delivery)
    BY <2>2, <2>3 DEF PartiesTypeOK
  <2>. QED
    BY <2>3, <2>4, <2>5
       DEF Keeps, PartiesTypeOK, LeasesBounded, Simulates, queueVars, Runs
<1>2. ASSUME NEW k \in Keys, NEW state \in {"closed", "withdrawn"}, EndTarget(k, state)
      PROVE  Keeps
  BY <1>2 DEF EndTarget, PullRequest, Keeps, PartiesTypeOK, LeasesBounded, Simulates,
              queueVars, Runs
<1>. QED
  BY <1>1, <1>2 DEF GitHubStep

LEMMA IngressKeeps ==
  ASSUME PartiesTypeOK, LeasesBounded, IngressStep
  PROVE  Keeps
<1>1. ASSUME NEW i, i \in DOMAIN deliveries
      PROVE  /\ deliveries[i] \in Delivery
             /\ \A d \in Delivery : [deliveries EXCEPT ![i] = d] \in Seq(Delivery)
  BY <1>1 DEF PartiesTypeOK
<1>2. ASSUME NEW i \in 1..MaxEvents, Reserve(i)
      PROVE  Keeps
  <2> DEFINE delivery == [deliveries[i] EXCEPT !.pc = "reserved", !.decision.seq = sourceSeq + 1]
  <2>1. i \in DOMAIN deliveries
    BY <1>2 DEF Reserve
  <2>2. sourceSeq + 1 \in Nat
    BY DEF PartiesTypeOK
  <2>3. delivery \in Delivery
    BY <1>1, <2>1, <2>2 DEF Delivery, Decision
  <2>4. deliveries' = [deliveries EXCEPT ![i] = delivery]
    BY <1>2 DEF Reserve
  <2> HIDE DEF delivery
  <2>5. deliveries' \in Seq(Delivery)
    BY <1>1, <2>1, <2>3, <2>4
  <2>. QED
    BY <1>2, <2>2, <2>5 DEF Reserve, Keeps, PartiesTypeOK, LeasesBounded, Simulates,
                            queueVars, Runs
<1>3. ASSUME NEW i \in 1..MaxEvents, VerifyHead(i)
      PROVE  Keeps
  <2>1. i \in DOMAIN deliveries
    BY <1>3 DEF VerifyHead
  <2>2. /\ [deliveries[i] EXCEPT !.pc = "verified"] \in Delivery
        /\ Handled(deliveries[i].key) \in Delivery
    BY <1>1, <2>1, EmptyRecords DEF Delivery, Handled
  <2>3. deliveries' \in Seq(Delivery)
    BY <1>1, <1>3, <2>1, <2>2 DEF VerifyHead
  <2>. QED
    BY <1>3, <2>3 DEF VerifyHead, Keeps, PartiesTypeOK, LeasesBounded, Simulates,
                      queueVars, Runs
<1>4. ASSUME NEW k \in Keys, NEW d \in Decision, Enqueue(k, d)
      PROVE  LeasesBounded' /\ Simulates
  BY <1>4, HandlerSimulates DEF Handler
<1>5. ASSUME NEW i \in 1..MaxEvents, Ingest(i)
      PROVE  Keeps
  <2>1. i \in DOMAIN deliveries
    BY <1>5 DEF Ingest
  <2>2. /\ deliveries[i].key \in Keys /\ deliveries[i].decision \in Decision
        /\ Handled(deliveries[i].key) \in Delivery
    BY <1>1, <2>1, EmptyRecords DEF Delivery, Handled
  <2>3. deliveries' \in Seq(Delivery)
    BY <1>1, <1>5, <2>1, <2>2 DEF Ingest
  <2>4. LeasesBounded' /\ Simulates
    BY <1>4, <1>5, <2>2 DEF Ingest
  <2>. QED
    BY <1>5, <2>3, <2>4 DEF Ingest, Keeps, PartiesTypeOK
<1>6. ASSUME NEW k \in Keys, NEW m \in Markers, IssueCommand(k, m)
      PROVE  Keeps
  <2>1. [NoDecision EXCEPT !.action = "command", !.marker = m] \in Decision
    BY EmptyRecords DEF Decision, Actions
  <2>. QED
    BY <1>4, <1>6, <2>1 DEF IssueCommand, Keeps, PartiesTypeOK
<1>7. ASSUME NEW k \in Keys, NEW action \in {"recovery", "scheduled"},
             IssueBackground(k, action)
      PROVE  Keeps
  <2>1. [NoDecision EXCEPT !.action = action] \in Decision
    BY EmptyRecords DEF Decision, Actions
  <2>. QED
    BY <1>4, <1>7, <2>1 DEF IssueBackground, Keeps, PartiesTypeOK
<1>. QED
  BY <1>2, <1>3, <1>5, <1>6, <1>7 DEF IngressStep

-----------------------------------------------------------------------------
(* Workflow runs and the reconciler.                                       *)

(* Rows of runs are replaced by rows of runs. *)
LEMMA RowWrites ==
  ASSUME PartiesTypeOK, NEW r \in Runs
  PROVE  /\ runs[r] \in RunRow
         /\ \A row \in RunRow : [runs EXCEPT ![r] = row] \in [Runs -> RunRow]
         /\ [runs EXCEPT ![r] = EndedRun] \in [Runs -> RunRow]
         /\ \A pc \in RunPcs : [runs EXCEPT ![r].pc = pc] \in [Runs -> RunRow]
         /\ \A pc \in RunPcs, n \in Nat :
              [runs EXCEPT ![r].pc = pc, ![r].generation = n] \in [Runs -> RunRow]
BY IdleRunType DEF PartiesTypeOK, RunRow

(* What a run calls the queue with. *)
LEMMA RunCalls ==
  ASSUME PartiesTypeOK, LeasesBounded, NEW r \in Runs
  PROVE  /\ runs[r].key \in Keys
         /\ runs[r].revision \in Nat /\ runs[r].head \in Nat
         /\ runs[r].attempt \in Nat /\ runs[r].generation \in Nat
         /\ RunCall(runs[r].key, r, runs[r].revision, r, runs[r].attempt, runs[r].generation)
              => LeasesBounded' /\ Simulates
<1>1. runs[r] \in RunRow
  BY RowWrites
<1>2. /\ runs[r].key \in Keys
      /\ runs[r].revision \in Nat /\ runs[r].head \in Nat
      /\ runs[r].attempt \in Nat /\ runs[r].generation \in Nat
  BY <1>1 DEF RunRow
<1>3. r \in Nat \ {NoRun}
  BY RunsAreNumbers
<1>4. ASSUME RunCall(runs[r].key, r, runs[r].revision, r, runs[r].attempt,
                     runs[r].generation)
      PROVE  Handler(runs[r].key)
  BY <1>2, <1>3, <1>4 DEF Handler
<1>. QED
  BY <1>2, <1>4, HandlerSimulates

LEMMA ClaimKeeps ==
  ASSUME QueueTypeOK, PartiesTypeOK, LeasesBounded, NEW r \in Runs,
         ClaimBegin(r) \/ ClaimCommit(r)
  PROVE  Keeps
<1> DEFINE k == runs[r].key
<1>1. k \in Keys
  BY RunCalls
<1>2. items[k].lease.generation \in Nat /\ items[k].lease.generation + 1 \in Nat
  BY <1>1 DEF QueueTypeOK, Item, Lease
<1>3. ASSUME ClaimBegin(r)
      PROVE  runs' \in [Runs -> RunRow] /\ LeasesBounded' /\ Simulates
  <2>1. runs' \in [Runs -> RunRow]
    <3>1. /\ [runs[r] EXCEPT !.pc = "admitting"] \in RunRow /\ EndedRun \in RunRow
      BY RowWrites, IdleRunType DEF RunRow, RunPcs
    <3>2. \/ runs' = [runs EXCEPT ![r] = EndedRun]
          \/ runs' = [runs EXCEPT ![r] = [runs[r] EXCEPT !.pc = "admitting"]]
      BY <1>3 DEF ClaimBegin
    <3>. QED
      BY <3>1, <3>2, RowWrites
  <2>2. ReclaimOnTouch(k) \/ UNCHANGED queueVars
    BY <1>3 DEF ClaimBegin
  <2>. QED
    BY <1>1, <2>1, <2>2, HandlerSimulates DEF Handler
<1>4. ASSUME ClaimCommit(r)
      PROVE  runs' \in [Runs -> RunRow] /\ LeasesBounded' /\ Simulates
  <2>1. runs' \in [Runs -> RunRow]
    <3>1. /\ [runs EXCEPT ![r].pc = "queued"] \in [Runs -> RunRow]
          /\ [runs EXCEPT ![r] = EndedRun] \in [Runs -> RunRow]
          /\ \A n \in Nat :
               [runs EXCEPT ![r].pc = "reviewing", ![r].generation = n] \in [Runs -> RunRow]
      BY RowWrites DEF RunPcs
    <3>2. \/ runs' = [runs EXCEPT ![r].pc = "queued"]
          \/ runs' = [runs EXCEPT ![r] = EndedRun]
          \/ \E n \in {items[k].lease.generation, items[k].lease.generation + 1} :
               runs' = [runs EXCEPT ![r].pc = "reviewing", ![r].generation = n]
      BY <1>4 DEF ClaimCommit
    <3>3. ASSUME NEW n \in Nat,
                 runs' = [runs EXCEPT ![r].pc = "reviewing", ![r].generation = n]
          PROVE  runs' \in [Runs -> RunRow]
      BY <3>1, <3>3
    <3>. QED
      BY <1>2, <3>1, <3>2, <3>3
  <2>2. \/ ClaimLease(k, r, runs[r].revision, r, runs[r].attempt)
        \/ ClaimAgain(k, r, runs[r].revision, r, runs[r].attempt)
        \/ ClaimTerminal(k, r, runs[r].revision, r)
        \/ UNCHANGED queueVars
    BY <1>4 DEF ClaimCommit
  <2>. QED
    BY <1>1, <2>1, <2>2, RunCalls, HandlerSimulates DEF RunCall
<1>5. UNCHANGED <<gh, deliveries, sourceSeq, terminals>>
  BY DEF ClaimBegin, ClaimCommit
<1>. QED
  BY <1>3, <1>4, <1>5 DEF Keeps, PartiesTypeOK

LEMMA BeatKeeps ==
  ASSUME PartiesTypeOK, LeasesBounded, NEW r \in Runs, NEW phase \in Phases,
         Beat(r, phase)
  PROVE  Keeps
<1>1. runs' \in [Runs -> RunRow]
  <2>1. runs \in [Runs -> RunRow]
    BY DEF PartiesTypeOK
  <2>. QED
    BY <2>1, RowWrites DEF Beat
<1>2. RunCall(runs[r].key, r, runs[r].revision, r, runs[r].attempt, runs[r].generation)
  BY RunCalls DEF Beat, RunCall
<1>. QED
  BY <1>1, <1>2, RunCalls DEF Beat, Keeps, PartiesTypeOK

LEMMA FinishKeeps ==
  ASSUME PartiesTypeOK, LeasesBounded, NEW r \in Runs, NEW report \in Report,
         NEW lost \in BOOLEAN, Finish(r, report, lost)
  PROVE  Keeps
<1>1. runs' \in [Runs -> RunRow]
  <2>1. /\ [runs[r] EXCEPT !.pc = "resending"] \in RunRow
        /\ EndedRun \in RunRow
    BY RowWrites, IdleRunType DEF RunRow, RunPcs
  <2>. QED
    BY <2>1, RowWrites DEF Finish
<1>2. RunCall(runs[r].key, r, runs[r].revision, r, runs[r].attempt, runs[r].generation)
  BY DEF Finish, RunCall
<1>. QED
  BY <1>1, <1>2, RunCalls DEF Finish, Keeps, PartiesTypeOK

(* Refusals, crashes, re-runs and reads change only the parties. *)
LEMMA PartiesOnlyKeep ==
  ASSUME QueueTypeOK, PartiesTypeOK, LeasesBounded, NEW r \in Runs,
         FinishRefused(r) \/ Crash(r) \/ Rerun(r) \/ ReconcileRead(r)
  PROVE  Keeps
<1>1. UNCHANGED queueVars
  BY DEF FinishRefused, Crash, Rerun, ReconcileRead
<1>2. LeasesBounded' /\ Simulates
  BY <1>1 DEF queueVars, LeasesBounded, Simulates
<1>3. ASSUME FinishRefused(r) \/ Crash(r)
      PROVE  Keeps
  <2>1. runs' \in [Runs -> RunRow]
    <3>1. /\ [runs EXCEPT ![r].pc = "dead"] \in [Runs -> RunRow]
          /\ [runs EXCEPT ![r] = EndedRun] \in [Runs -> RunRow]
      BY RowWrites DEF RunPcs
    <3>2. \/ runs' = [runs EXCEPT ![r].pc = "dead"]
          \/ runs' = [runs EXCEPT ![r] = EndedRun]
      BY <1>3 DEF FinishRefused, Crash
    <3>. QED
      BY <3>1, <3>2
  <2>. QED
    BY <1>2, <1>3, <2>1 DEF FinishRefused, Crash, Keeps, PartiesTypeOK
<1>4. ASSUME Rerun(r)
      PROVE  Keeps
  <2>1. [runs[r] EXCEPT !.pc = "queued", !.attempt = @ + 1, !.generation = 0] \in RunRow
    <3>1. runs[r] \in RunRow
      BY RowWrites
    <3>2. runs[r].attempt + 1 \in Nat
      BY <3>1 DEF RunRow
    <3>. QED
      BY <3>1, <3>2 DEF RunRow, RunPcs
  <2>2. runs' = [runs EXCEPT ![r] = [runs[r] EXCEPT !.pc = "queued", !.attempt = @ + 1,
                                                   !.generation = 0]]
    BY <1>4 DEF Rerun
  <2>3. runs' \in [Runs -> RunRow]
    BY <2>1, <2>2, RowWrites
  <2>. QED
    BY <1>2, <1>4, <2>3 DEF Rerun, Keeps, PartiesTypeOK
<1>5. ASSUME ReconcileRead(r)
      PROVE  Keeps
  <2> DEFINE k == runs[r].key
  <2>1. k \in Keys
    BY RunCalls
  <2>2. items[k].lease.attempt \in Nat /\ items[k].lease.generation \in Nat
    BY <2>1 DEF QueueTypeOK, Item, Lease
  <2>3. terminals' \subseteq [key : Keys, run : Runs, attempt : Nat, generation : Nat]
    BY <1>5, <2>1, <2>2 DEF ReconcileRead, PartiesTypeOK
  <2>. QED
    BY <1>2, <1>5, <2>3 DEF ReconcileRead, Keeps, PartiesTypeOK
<1>. QED
  BY <1>3, <1>4, <1>5

LEMMA ReconcileApplyKeeps ==
  ASSUME PartiesTypeOK, LeasesBounded, NEW t \in terminals, ReconcileApply(t)
  PROVE  Keeps
<1>1. t.key \in Keys /\ t.run \in Runs /\ t.attempt \in Nat /\ t.generation \in Nat
  BY DEF PartiesTypeOK
<1>2. t.run \in Nat \ {NoRun} /\ 0 \in Nat
  BY <1>1, RunsAreNumbers
<1>3. FailureReport \in Report
  BY DEF FailureReport, Report
<1>4. ASSUME Reconcile(t.key, t.run, t.attempt, t.generation, FailureReport)
      PROVE  Handler(t.key)
  <2>1. RunCall(t.key, 0, 0, t.run, t.attempt, t.generation)
    BY <1>3, <1>4 DEF RunCall
  <2>. QED
    BY <1>1, <1>2, <2>1 DEF Handler
<1>5. LeasesBounded' /\ Simulates
  BY <1>1, <1>4, HandlerSimulates DEF ReconcileApply
<1>. QED
  BY <1>5 DEF ReconcileApply, Keeps, PartiesTypeOK

-----------------------------------------------------------------------------
(* The alarm and the clock.                                                *)

(* A part of the alarm that leaves the parties alone. *)
LEMMA AlarmTaskKeeps ==
  ASSUME PartiesTypeOK, AlarmTask, LeasesBounded', UNCHANGED <<gh, deliveries, sourceSeq, runs, terminals>>
  PROVE  Keeps
BY DEF Keeps, PartiesTypeOK, Simulates, QueueNext

LEMMA AlarmKeeps ==
  ASSUME QueueTypeOK, PartiesTypeOK, LeasesBounded, AlarmStep
  PROVE  Keeps
<1>1. ASSUME NEW due \in SUBSET Keys, Housekeep(due)
      PROVE  Keeps
  BY <1>1, AlarmTaskKeeps DEF Housekeep, AlarmHousekeep, AlarmTask, LeasesBounded, envVars
<1>2. ASSUME NEW admitted \in SUBSET Keys, NEW checked \in SUBSET Keys,
             Admit(admitted, checked)
      PROVE  Keeps
  BY <1>2, AlarmTaskKeeps DEF Admit, AlarmAdmit, AlarmTask, LeasesBounded, envVars
<1>3. ASSUME NEW k \in Keys, Probe(k)
      PROVE  Keeps
  <2>1. /\ gh[k].state \in ProbeStates \ {"none"} /\ gh[k].head \in Nat
        /\ NoHead \in Nat
    BY DEF PartiesTypeOK, PullRequest, ProbeStates, NoHead
  <2>2. \E state \in ProbeStates \ {"none"}, head \in Nat :
          AlarmProbe(k, [state |-> state, head |-> head])
    <3>1. CASE AlarmProbe(k, LiveProbe(k))
      BY <2>1, <3>1 DEF LiveProbe
    <3>2. ASSUME NEW state \in {"retryable", "unavailable"},
                 AlarmProbe(k, [state |-> state, head |-> NoHead])
          PROVE  \E s \in ProbeStates \ {"none"}, head \in Nat :
                   AlarmProbe(k, [state |-> s, head |-> head])
      BY <2>1, <3>2 DEF ProbeStates
    <3>. QED
      BY <1>3, <3>1, <3>2 DEF Probe
  <2>3. UNCHANGED leaseSeq
    BY <2>2 DEF AlarmProbe
  <2>4. AlarmTask
    BY <2>2 DEF AlarmTask
  <2>. QED
    BY <1>3, <2>3, <2>4, AlarmTaskKeeps DEF Probe, LeasesBounded
<1>4. ASSUME NEW k \in Keys, Dispatch(k)
      PROVE  Keeps
  <2> DEFINE row == [pc |-> "queued", key |-> k, revision |-> items[k].lease.revision,
                     head |-> items[k].lease.decision.head, attempt |-> 1, generation |-> 0]
             started == [runs EXCEPT ![alarm.lease[k]] = row]
  <2>1. items[k].lease.revision \in Nat /\ items[k].lease.decision.head \in Nat
    BY DEF QueueTypeOK, Item, Lease, Decision
  <2>2. row \in RunRow
    BY <2>1 DEF RunRow, RunPcs
  <2>3. runs' = started \/ runs' = runs
    BY <1>4 DEF Dispatch
  <2>4. runs' \in [Runs -> RunRow]
    <3> HIDE DEF row
    <3>. QED
      BY <2>2, <2>3 DEF PartiesTypeOK
  <2>5. \E result \in {"none", "rejected", "global"} : AlarmDispatch(k, result)
    BY <1>4 DEF Dispatch
  <2>6. UNCHANGED leaseSeq
    BY <2>5 DEF AlarmDispatch
  <2>7. Simulates
    BY <2>5 DEF Simulates, QueueNext, AlarmTask
  <2>. QED
    BY <1>4, <2>4, <2>6, <2>7 DEF Dispatch, Keeps, PartiesTypeOK, LeasesBounded
<1>5. ASSUME NEW k \in Keys, Timeout(k)
      PROVE  Keeps
  <2>1. LeasesBounded' /\ Simulates
    BY <1>5, HandlerSimulates DEF Timeout, Handler
  <2>. QED
    BY <1>5, <2>1 DEF Timeout, Keeps, PartiesTypeOK
<1>6. ASSUME NEW global \in BOOLEAN, CommitAlarm(global)
      PROVE  Keeps
  BY <1>6, AlarmTaskKeeps DEF CommitAlarm, AlarmTask, LeasesBounded, envVars
<1>7. CASE MergeDispatch
  BY <1>7, AlarmTaskKeeps DEF MergeDispatch, AlarmMerge, AlarmTask, LeasesBounded, envVars
<1>. QED
  BY <1>1, <1>2, <1>3, <1>4, <1>5, <1>6, <1>7 DEF AlarmStep

-----------------------------------------------------------------------------
(* The theorems.                                                           *)

SystemInv == IInv /\ PartiesTypeOK /\ LeasesBounded

LEMMA SystemInitially == Init => QueueInit /\ SystemInv
<1> SUFFICES ASSUME Init PROVE QueueInit /\ SystemInv
  OBVIOUS
<1>1. QueueInit /\ IInv
  BY QueueInitially DEF Init
<1>2. PartiesTypeOK
  BY IdleRunType DEF Init, PartiesTypeOK, PullRequest
<1>3. LeasesBounded
  BY RunsAreNumbers DEF Init, QueueInit, LeasesBounded
<1>. QED
  BY <1>1, <1>2, <1>3 DEF SystemInv

LEMMA SystemStep == SystemInv /\ [Next]_vars => SystemInv' /\ [QueueNext]_queueVars
<1> SUFFICES ASSUME SystemInv, [Next]_vars PROVE SystemInv' /\ [QueueNext]_queueVars
  OBVIOUS
<1>1. QueueTypeOK /\ PartiesTypeOK /\ LeasesBounded
  BY DEF SystemInv, IInv
<1>2. Keeps
  <2>1. CASE UNCHANGED vars
    BY <1>1, <2>1 DEF vars, envVars, queueVars, Keeps, PartiesTypeOK, LeasesBounded, Simulates
  <2>2. ASSUME RunStep
        PROVE  Keeps
    BY <1>1, <2>2, ClaimKeeps, BeatKeeps, FinishKeeps, PartiesOnlyKeep DEF RunStep
  <2>. QED
    BY <1>1, <2>1, <2>2, GitHubKeeps, IngressKeeps, AlarmKeeps, ReconcileApplyKeeps DEF Next
<1>3. [QueueNext]_queueVars
  BY <1>2 DEF Keeps, Simulates
<1>. QED
  BY <1>2, <1>3, QueueStep DEF SystemInv, Keeps

(* The composed system implements the open queue. *)
THEOREM RefinesQueue == Spec => QueueSpec
  BY SystemInitially, SystemStep, PTL DEF Spec, QueueSpec

(* The types of the queue and of the parties. *)
THEOREM SystemTypeCorrect == Spec => []TypeOK
<1>1. SystemInv => TypeOK
  BY DEF SystemInv, IInv, TypeOK, LeasesBounded
<1>. QED
  BY <1>1, SystemInitially, SystemStep, PTL DEF Spec

(* In the composed system an item's lease, claim and revisions agree. *)
THEOREM SystemLeasesConsistent == Spec => []LeasesConsistent
  BY RefinesQueue, LeasesStayConsistent, PTL

(* In the composed system the alarm keeps to the capacity. *)
THEOREM SystemFitsCapacity == Spec => []CapacityRespected
  BY RefinesQueue, ReviewsFitCapacity, PTL

(* In the composed system leases do not change hands. *)
THEOREM SystemLeasesKeepHands == Spec => LeaseKeepsHands
  BY RefinesQueue, LeasesKeepHands, PTL

-----------------------------------------------------------------------------
(* A lease is written for the head that its alarm has seen.                *)

(* Every lease is written for a head that the probe of this very alarm saw *)
(* live, or for a command on a target it saw closed.                       *)
THEOREM DispatchesWhatItProbed == Spec => DispatchesProbedHead
<1>1. SystemInv /\ [Next]_vars =>
        [\A k \in Keys :
           items'[k].lease.id \notin {NoLeaseId, items[k].lease.id} =>
             \/ items'[k].lease.decision.head \in {NoHead, alarm.probe[k].head}
             \/ alarm.probe[k].state = "closed" /\ HasCommandContext(items'[k].lease.decision)]_vars
  <2>1. SystemInv => IInv
    BY DEF SystemInv
  <2>. QED
    BY <2>1, SystemStep, QueueStep DEF LeasesMove, WritesProbed
<1>. QED
  BY <1>1, SystemInitially, SystemStep, PTL DEF Spec, DispatchesProbedHead

-----------------------------------------------------------------------------
(* Accepted sources: what an item owes to the newest source that was       *)
(* accepted for it.  p is the head of the newest accepted push, acc the    *)
(* newest accepted source, done whether its review has concluded.          *)

Carries(item, acc) == item.state # "absent" /\ Source(item.decision) = acc

MovedPast(g, acc) == g.head # acc[1] \/ g.state # "open"

(* Accepted work is carried, done, or overtaken. *)
Owes(item, g, acc, done) ==
  acc = NoSource \/ Carries(item, acc) \/ done \/ MovedPast(g, acc)

(* Nothing names a head that GitHub has not had. *)
Behind(item, g, p, acc) ==
  /\ g.head > 0 /\ p <= g.head /\ acc[1] <= g.head /\ item.decision.head <= g.head
  /\ acc # NoSource => acc[1] # NoHead

(* A one-shot repair is for no source that was accepted. *)
OneShotSourceless(item) ==
  isLowPriority(item.decision) =>
    item.decision.head = NoHead /\ item.decision.marker = NoMarker

(* The lease's decision is the item's while their revisions agree. *)
Snapshot(item) ==
  Active(item) /\ item.lease.revision = item.revision => item.lease.decision = item.decision

(* LeaseIsCurrent, where a status write that outlives its source is known  *)
(* to give the lease up when it ends.                                      *)
Current(item, g, p) ==
  Active(item) /\ item.lease.decision.head # NoHead =>
    \/ item.lease.decision.head >= p
    \/ item.lease.phase = "status" /\ item.lease.superseding > item.lease.revision
    \/ HasCommandContext(item.lease.decision) /\ g.state # "open"

SourceSound(item, g, p, acc, done) ==
  /\ Owes(item, g, acc, done) /\ Behind(item, g, p, acc) /\ OneShotSourceless(item)
  /\ Snapshot(item) /\ Current(item, g, p)

(* What the alarm may conclude from its probe of a candidate.              *)
ProbeSound(item, cand, probe, g, p) ==
  cand # 0 =>
    /\ item.state \in {"pending", "parked"} /\ item.revision >= cand
    /\ probe.state = "open" =>
         /\ probe.head <= g.head
         /\ item.revision = cand => item.decision.head <= probe.head /\ p <= probe.head
    /\ probe.state \in {"closed", "withdrawn"} => g.state # "open"

(* A delivery under way names a head that GitHub has had. *)
DeliverySound(delivery, g) ==
  delivery.pc # "done" =>
    /\ delivery.decision.head \in 1..g.head
    /\ delivery.decision.action \in {"push", "label"}
    /\ delivery.decision.updatedAt > 0 /\ delivery.decision.marker = NoMarker

AlarmSound ==
  /\ alarm.pc = "probing" =>
       \A k \in Keys : ProbeSound(items[k], alarm.cand[k], alarm.probe[k], gh[k], pushed[k])
  /\ alarm.pc = "preflight" => \A k \in Keys : alarm.probe[k].state = "none"

HistoryTypeOK ==
  /\ pushed \in [Keys -> Nat] /\ accepted \in [Keys -> Nat \X Nat]
  /\ concluded \in [Keys -> BOOLEAN]

SourcesSound ==
  \A k \in Keys : SourceSound(items[k], gh[k], pushed[k], accepted[k], concluded[k])

DeliveriesSound ==
  /\ \A k \in Keys : gh[k].updatedAt > 0
  /\ \A i \in DOMAIN deliveries : DeliverySound(deliveries[i], gh[deliveries[i].key])

SourceInv == HistoryTypeOK /\ SourcesSound /\ DeliveriesSound /\ AlarmSound

-----------------------------------------------------------------------------
(* Single items.                                                           *)

(* The item keeps its lease, whatever that does to the claim.              *)
Holds(old, new) ==
  /\ Active(old) /\ Active(new)
  /\ new.lease.decision = old.lease.decision /\ new.lease.revision = old.lease.revision
  /\ new.lease.superseding = old.lease.superseding
  /\ \/ new.lease.phase \in {old.lease.phase, "status"}
     \/ ~(old.lease.superseding > old.lease.revision)

LEMMA WorkKept ==
  ASSUME NEW old, NEW new, NEW g, NEW p, NEW acc, NEW done,
         SourceSound(old, g, p, acc, done), SameWork(old, new),
         Unleased(old, new) \/ Holds(old, new)
  PROVE  SourceSound(new, g, p, acc, done)
<1>1. Owes(new, g, acc, done) /\ Behind(new, g, p, acc) /\ OneShotSourceless(new)
  BY DEF SourceSound, SameWork, Unleased, Holds, Active, Owes, Carries, Behind,
         OneShotSourceless
<1>2. CASE Unleased(old, new)
  <2>1. ~Active(new)
    BY <1>2 DEF Unleased, Active
  <2>. QED
    BY <1>1, <2>1 DEF SourceSound, Snapshot, Current
<1>3. CASE Holds(old, new)
  <2>1. Snapshot(new)
    BY <1>3 DEF SourceSound, SameWork, Snapshot, Holds
  <2>2. Current(new, g, p)
    BY <1>3 DEF SourceSound, Current, Holds
  <2>. QED
    BY <1>1, <2>1, <2>2 DEF SourceSound
<1>. QED
  BY <1>2, <1>3

(* An item may go when it does not carry the newest accepted source, or    *)
(* when nothing is owed to that.                                           *)
LEMMA WorkDropped ==
  ASSUME NEW old, NEW g, NEW p, NEW acc, NEW done, NEW now,
         SourceSound(old, g, p, acc, done), done => now,
         Carries(old, acc) /\ acc # NoSource => now \/ MovedPast(g, acc),
         g.head \in Nat
  PROVE  SourceSound(Absent, g, p, acc, now)
<1>1. Absent.state = "absent" /\ Absent.decision = NoDecision
  BY DEF Absent
<1>2. NoDecision.head = 0 /\ NoDecision.action = "scheduled" /\ ~Active(Absent)
  BY <1>1 DEF NoDecision, NoHead, Active
<1>. QED
  BY <1>1, <1>2 DEF SourceSound, Owes, Behind, OneShotSourceless, isLowPriority,
                    Snapshot, Current

(* A review that concludes owes nothing more. *)
LEMMA WorkConcluded ==
  ASSUME NEW item, NEW g, NEW p, NEW acc, NEW done, NEW now,
         SourceSound(item, g, p, acc, done), done => now
  PROVE  SourceSound(item, g, p, acc, now)
BY DEF SourceSound, Owes

(* GitHub moves on. *)
LEMMA WorldMoves ==
  ASSUME NEW item, NEW g \in PullRequest, NEW new \in PullRequest, NEW p \in Nat,
         NEW acc \in Nat \X Nat, NEW done,
         SourceSound(item, g, p, acc, done), item.decision.head \in Nat,
         \/ new.head >= g.head /\ new.state = g.state
         \/ new.head = g.head /\ new.state # "open"
  PROVE  SourceSound(item, new, p, acc, done)
<1>1. /\ g.head \in Nat /\ new.head \in Nat /\ acc[1] \in Nat /\ new.head >= g.head
      /\ g.state # "open" => new.state # "open"
  BY DEF PullRequest
<1>2. Behind(item, new, p, acc)
  BY <1>1 DEF SourceSound, Behind
<1>3. Owes(item, new, acc, done)
  BY <1>1 DEF SourceSound, Owes, MovedPast, Behind
<1>4. Current(item, new, p)
  BY <1>1 DEF SourceSound, Current
<1>. QED
  BY <1>2, <1>3, <1>4 DEF SourceSound

(* The input of a lease that has not changed is the item's.                *)
LEMMA UnchangedInput ==
  ASSUME NEW item \in Item, NEW seq, LeaseConsistent(item, seq), Snapshot(item), Active(item),
         ~(/\ item.revision > item.lease.revision
           /\ InputIdentityChanged(item.lease.decision, item.decision))
  PROVE  /\ item.lease.decision.action = item.decision.action
         /\ Source(item.lease.decision) = Source(item.decision)
<1>1. item.revision \in Nat /\ item.lease.revision \in Nat
  BY DEF Item, Lease
<1>2. CASE item.lease.revision = item.revision
  BY <1>2 DEF Snapshot
<1>3. CASE ~InputIdentityChanged(item.lease.decision, item.decision)
  <2>1. /\ item.lease.decision.action = item.decision.action
        /\ item.lease.decision.head = item.decision.head
        /\ item.lease.decision.updatedAt = item.decision.updatedAt
    BY <1>3 DEF InputIdentityChanged, InputIdentity
  <2>. QED
    BY <2>1 DEF Source
<1>. QED
  BY <1>1, <1>2, <1>3 DEF LeaseConsistent

(* A one-shot repair carries no accepted source. *)
LEMMA OneShotCarriesNothing ==
  ASSUME NEW item, NEW g, NEW p, NEW acc, NEW done, SourceSound(item, g, p, acc, done),
         item.lease.decision.action = item.decision.action, OneShot(item)
  PROVE  ~(Carries(item, acc) /\ acc # NoSource)
BY DEF SourceSound, OneShot, isLowPriority, OneShotSourceless, Carries, Behind, Source

-----------------------------------------------------------------------------
(* Steps that accept nothing.                                              *)

LEMMA SourcesAt ==
  ASSUME SystemInv, SourceInv, NEW k \in Keys
  PROVE  /\ items[k] \in Item /\ LeaseConsistent(items[k], leaseSeq)
         /\ items[k].decision \in Decision /\ items[k].decision.head \in Nat
         /\ gh[k] \in PullRequest /\ gh[k].head \in Nat
         /\ pushed[k] \in Nat /\ accepted[k] \in Nat \X Nat /\ concluded[k] \in BOOLEAN
         /\ SourceSound(items[k], gh[k], pushed[k], accepted[k], concluded[k])
<1>1. items[k] \in Item /\ LeaseConsistent(items[k], leaseSeq)
  BY Lookup DEF SystemInv
<1>2. items[k].decision \in Decision /\ items[k].decision.head \in Nat
  BY <1>1 DEF Item, Decision
<1>3. gh[k] \in PullRequest /\ gh[k].head \in Nat
  BY DEF SystemInv, PartiesTypeOK, PullRequest
<1>. QED
  BY <1>1, <1>2, <1>3 DEF SourceInv, HistoryTypeOK, SourcesSound

(* The queue and the history stand still. *)
LEMMA SourcesStand ==
  ASSUME SourceInv, UNCHANGED <<items, gh, deliveries, pushed, accepted, concluded>>,
         UNCHANGED alarm \/ (UNCHANGED alarm.pc /\ alarm.pc = "dispatching")
  PROVE  SourceInv'
BY DEF SourceInv, HistoryTypeOK, SourcesSound, DeliveriesSound, DeliverySound, AlarmSound

(* A handler of an item that no alarm is looking at. *)
LEMMA ItemSources ==
  ASSUME SystemInv, SourceInv, NEW k \in Keys, NEW STATE new,
         items' = [items EXCEPT ![k] = new], Active(items[k]),
         UNCHANGED <<alarm, gh, deliveries, pushed, accepted>>,
         concluded' \in [Keys -> BOOLEAN], \A j \in Keys : concluded[j] => concluded'[j],
         SourceSound(new, gh[k], pushed[k], accepted[k], concluded'[k])
  PROVE  SourceInv'
<1>1. items \in [Keys -> Item]
  BY DEF SystemInv, IInv, QueueTypeOK
<1>2. items'[k] = new /\ \A j \in Keys \ {k} : items'[j] = items[j]
  BY <1>1
<1>3. ASSUME NEW j \in Keys
      PROVE  SourceSound(items'[j], gh[j], pushed[j], accepted[j], concluded'[j])
  <2>1. CASE j = k
    BY <1>2, <2>1
  <2>2. CASE j # k
    <3>1. SourceSound(items[j], gh[j], pushed[j], accepted[j], concluded[j])
      BY DEF SourceInv, SourcesSound
    <3>. QED
      BY <1>2, <2>2, <3>1, WorkConcluded
  <2>. QED
    BY <2>1, <2>2
<1>4. alarm.pc = "probing" => alarm.cand[k] = 0
  BY DEF SourceInv, AlarmSound, ProbeSound, Active
<1>5. AlarmSound'
  <2>1. SUFFICES ASSUME alarm.pc = "probing", NEW j \in Keys
                 PROVE  ProbeSound(items'[j], alarm.cand[j], alarm.probe[j], gh[j], pushed[j])
    BY DEF SourceInv, AlarmSound
  <2>2. CASE j = k
    BY <1>4, <2>1, <2>2 DEF ProbeSound
  <2>3. CASE j # k
    BY <1>2, <2>1, <2>3 DEF SourceInv, AlarmSound
  <2>. QED
    BY <2>2, <2>3
<1>. QED
  BY <1>3, <1>5 DEF SourceInv, HistoryTypeOK, SourcesSound, DeliveriesSound, DeliverySound

(* A one-shot repair's lease that runs out loses no accepted source.       *)
LEMMA ReclaimSources ==
  ASSUME SystemInv, SourceInv, NEW k \in Keys
  PROVE  SourceSound(Reclaimed(items[k]), gh[k], pushed[k], accepted[k], concluded[k])
<1> DEFINE item == items[k]
           new == Reclaimed(item)
<1>1. /\ item \in Item /\ LeaseConsistent(item, leaseSeq) /\ gh[k].head \in Nat
      /\ SourceSound(item, gh[k], pushed[k], accepted[k], concluded[k])
  BY SourcesAt
<1>2. CASE new = item
  BY <1>1, <1>2
<1>3. CASE Active(item) /\ OneShot(item) /\ new = Absent
           /\ ~InputIdentityChanged(item.lease.decision, item.decision)
  <2>1. item.lease.decision.action = item.decision.action
    BY <1>1, <1>3, UnchangedInput DEF SourceSound
  <2>2. ~(Carries(item, accepted[k]) /\ accepted[k] # NoSource)
    BY <1>1, <1>3, <2>1, OneShotCarriesNothing
  <2>. QED
    BY <1>1, <1>3, <2>2, WorkDropped
<1>4. CASE SameWork(item, new) /\ Unleased(item, new)
  BY <1>1, <1>4, WorkKept
<1>. QED
  BY <1>1, <1>2, <1>3, <1>4, ReclaimedWork

(* Claims, heartbeats and the clock. *)
LEMMA HandlerSources ==
  ASSUME SystemInv, SourceInv, NEW k \in Keys, NEW id \in Nat, NEW revision \in Nat,
         NEW run \in Nat, NEW attempt \in Nat, NEW generation \in Nat,
         NEW head \in Nat, NEW ph \in Phases,
         \/ ReclaimOnTouch(k) \/ Expire(k)
         \/ ClaimLease(k, id, revision, run, attempt)
         \/ ClaimTerminal(k, id, revision, run) /\ gh[k].state = "withdrawn"
         \/ Heartbeat(k, id, revision, run, attempt, generation, head, ph)
         \/ HeartbeatSuperseded(k, id, revision, run, attempt, generation, head, ph),
         UNCHANGED <<gh, deliveries, pushed, accepted, concluded>>
  PROVE  SourceInv'
<1> DEFINE item == items[k]
           Sound(new) == SourceSound(new, gh[k], pushed[k], accepted[k], concluded[k])
<1>1. /\ item \in Item /\ LeaseConsistent(item, leaseSeq) /\ gh[k].head \in Nat
      /\ Sound(item) /\ concluded \in [Keys -> BOOLEAN]
  BY SourcesAt DEF SourceInv, HistoryTypeOK
<1>2. ASSUME NEW STATE new, items' = [items EXCEPT ![k] = new], Active(item), UNCHANGED alarm,
             Sound(new)
      PROVE  SourceInv'
  BY <1>1, <1>2, ItemSources
<1>3. CASE ReclaimOnTouch(k)
  BY <1>2, <1>3, ReclaimSources DEF ReclaimOnTouch
<1>4. CASE Expire(k)
  <2> DEFINE new == [item EXCEPT !.lease.expired = TRUE]
  <2>1. items' = [items EXCEPT ![k] = new] /\ Active(item) /\ UNCHANGED alarm
    BY <1>4 DEF Expire, SystemInv, IInv, QueueTypeOK
  <2>2. /\ new.state = item.state /\ SamePhase(item, new)
        /\ SameWork(item, new) /\ SameLease(item, new)
    BY <1>1, ExpiredWork
  <2> HIDE DEF new
  <2>3. Holds(item, new)
    BY <2>1, <2>2 DEF Holds, SameLease, SamePhase, Active
  <2>. QED
    BY <1>1, <1>2, <2>1, <2>2, <2>3, WorkKept
<1>5. CASE ClaimLease(k, id, revision, run, attempt)
  <2>1. UNCHANGED alarm /\ item.lease.id # NoLeaseId /\ items \in [Keys -> Item]
    BY <1>5 DEF ClaimLease, Claimable, Live, SystemInv, IInv, QueueTypeOK
  <2>2. Active(item)
    BY <1>1, <2>1 DEF LeaseConsistent
  <2>3. /\ items' = [items EXCEPT ![k] = items'[k]] /\ items'[k].state = "leased"
        /\ SameWork(item, items'[k]) /\ SameLease(item, items'[k])
        /\ SamePhase(item, items'[k])
    BY <1>5, <2>1, ClaimLeaseWork
  <2>4. Holds(item, items'[k])
    BY <2>2, <2>3 DEF Holds, SameLease, SamePhase, Active
  <2>. QED
    BY <1>1, <1>2, <2>1, <2>2, <2>3, <2>4, WorkKept
<1>6. CASE ClaimTerminal(k, id, revision, run) /\ gh[k].state = "withdrawn"
  <2>1. /\ items' = [items EXCEPT ![k] = Absent] /\ UNCHANGED alarm
        /\ item.lease.id # NoLeaseId
    BY <1>6 DEF ClaimTerminal, Claimable, Live
  <2>2. Active(item)
    BY <1>1, <2>1 DEF LeaseConsistent
  <2>3. Sound(Absent)
    <3>1. MovedPast(gh[k], accepted[k])
      BY <1>6 DEF MovedPast
    <3>. QED
      BY <1>1, <3>1, WorkDropped
  <2>. QED
    BY <1>2, <2>1, <2>2, <2>3
<1>7. CASE Heartbeat(k, id, revision, run, attempt, generation, head, ph)
  <2> DEFINE new == [item EXCEPT !.lease.phase = ph]
  <2>1. items' = [items EXCEPT ![k] = new] /\ UNCHANGED alarm /\ Active(item)
    BY <1>7 DEF Heartbeat, OwnsHeartbeat, Active, SystemInv, IInv, QueueTypeOK
  <2>2. /\ new.state = item.state /\ new.lease.phase = ph
        /\ SameWork(item, new) /\ SameLease(item, new)
    BY <1>1, BeatenWork
  <2>3. \/ ph \in {item.lease.phase, "status"}
        \/ ~(item.lease.superseding > item.lease.revision)
    <3>1. item.lease.phase \in Phases
      BY <1>1 DEF Item, Lease
    <3>. QED
      BY <1>7, <3>1 DEF Heartbeat, StatusSuccessorSupersedes, Phases
  <2> HIDE DEF new
  <2>4. Holds(item, new)
    BY <2>1, <2>2, <2>3 DEF Holds, SameLease, Active
  <2>. QED
    BY <1>1, <1>2, <2>1, <2>2, <2>4, WorkKept
<1>8. CASE HeartbeatSuperseded(k, id, revision, run, attempt, generation, head, ph)
  <2> DEFINE new == Requeued(item)
  <2>1. /\ items' = [items EXCEPT ![k] = new] /\ UNCHANGED alarm /\ item.state = "leased"
    BY <1>8 DEF HeartbeatSuperseded, OwnsHeartbeat
  <2>2. SameWork(item, new) /\ Unleased(item, new)
    BY <1>1, <2>1, RequeuedWork
  <2> HIDE DEF new
  <2>. QED
    BY <1>1, <1>2, <2>1, <2>2, WorkKept DEF Active
<1>. QED
  BY <1>3, <1>4, <1>5, <1>6, <1>7, <1>8

(* A report ends the lease.  It only drops the item when the review that   *)
(* concluded was of the newest accepted source.                            *)
LEMMA ReportSources ==
  ASSUME SystemInv, SourceInv, NEW k \in Keys, NEW report \in Report, ValidReport(report),
         items' = [items EXCEPT ![k] = Finished(items[k], report)], Active(items[k]),
         UNCHANGED <<alarm, gh, deliveries, pushed, accepted>>,
         concluded' = IF Concludes(report) /\ Source(items[k].lease.decision) = accepted[k]
                      THEN [concluded EXCEPT ![k] = TRUE] ELSE concluded
  PROVE  SourceInv'
<1> DEFINE item == items[k]
           new == Finished(item, report)
<1>1. /\ item \in Item /\ LeaseConsistent(item, leaseSeq) /\ gh[k].head \in Nat
      /\ SourceSound(item, gh[k], pushed[k], accepted[k], concluded[k])
      /\ concluded \in [Keys -> BOOLEAN]
  BY SourcesAt DEF SourceInv, HistoryTypeOK
<1>2. /\ concluded' \in [Keys -> BOOLEAN] /\ \A j \in Keys : concluded[j] => concluded'[j]
      /\ Concludes(report) /\ Source(item.lease.decision) = accepted[k] => concluded'[k]
  BY <1>1
<1>3. item.state # "absent"
  BY DEF Active
<1>4. SourceSound(new, gh[k], pushed[k], accepted[k], concluded'[k])
  <2>1. CASE SameWork(item, new) /\ Unleased(item, new)
    <3>1. SourceSound(new, gh[k], pushed[k], accepted[k], concluded[k])
      BY <1>1, <2>1, WorkKept
    <3>. QED
      BY <1>2, <3>1, WorkConcluded
  <2>2. CASE /\ new = Absent
             /\ ~(/\ item.revision > item.lease.revision
                  /\ InputIdentityChanged(item.lease.decision, item.decision))
             /\ report.success \/ report.terminal \/ OneShot(item)
    <3>1. /\ item.lease.decision.action = item.decision.action
          /\ Source(item.lease.decision) = Source(item.decision)
      BY <1>1, <2>2, UnchangedInput DEF SourceSound
    <3>2. OneShot(item) => ~(Carries(item, accepted[k]) /\ accepted[k] # NoSource)
      BY <1>1, <3>1, OneShotCarriesNothing
    <3>3. Carries(item, accepted[k]) /\ accepted[k] # NoSource => concluded'[k]
      BY <1>2, <2>2, <3>1, <3>2 DEF Carries, Concludes
    <3>. QED
      BY <1>1, <1>2, <2>2, <3>3, WorkDropped
  <2>. QED
    BY <1>1, <1>3, <2>1, <2>2, FinishedWork
<1> HIDE DEF new
<1>. QED
  BY <1>1, <1>2, <1>4, ItemSources DEF new

(* The queue and the history stand still while deliveries are handled. *)
LEMMA OnlyDeliveriesMove ==
  ASSUME SourceInv, UNCHANGED <<items, gh, pushed, accepted, concluded, alarm>>,
         DeliveriesSound'
  PROVE  SourceInv'
BY DEF SourceInv, HistoryTypeOK, SourcesSound, AlarmSound

-----------------------------------------------------------------------------
(* GitHub.                                                                 *)

(* A probe of a pull request that has moved on since still says of it what *)
(* it said.                                                                *)
LEMMA ProbeAges ==
  ASSUME NEW item, NEW cand, NEW probe, NEW g \in PullRequest, NEW new \in PullRequest,
         NEW p, probe.head \in Nat, ProbeSound(item, cand, probe, g, p), new.head >= g.head,
         g.state # "open" => new.state # "open"
  PROVE  ProbeSound(item, cand, probe, new, p)
BY DEF ProbeSound, PullRequest

(* A pull request moves on, or ends. *)
LEMMA GitHubMoves ==
  ASSUME SystemInv, SourceInv, NEW k \in Keys, NEW STATE g, g \in PullRequest,
         gh' = [gh EXCEPT ![k] = g], g.updatedAt >= gh[k].updatedAt,
         \/ g.head >= gh[k].head /\ g.state = gh[k].state
         \/ g.head = gh[k].head /\ g.state # "open",
         UNCHANGED <<items, pushed, accepted, concluded, alarm>>,
         \A i \in DOMAIN deliveries' :
           \/ i \in DOMAIN deliveries /\ deliveries'[i] = deliveries[i]
           \/ DeliverySound(deliveries'[i], gh'[deliveries'[i].key])
  PROVE  SourceInv'
<1>1. gh \in [Keys -> PullRequest]
  BY DEF SystemInv, PartiesTypeOK
<1>2. gh'[k] = g /\ \A j \in Keys \ {k} : gh'[j] = gh[j]
  BY <1>1
<1>3. ASSUME NEW j \in Keys
      PROVE  /\ gh[j] \in PullRequest /\ gh'[j] \in PullRequest
             /\ gh[j].head \in Nat /\ gh'[j].head \in Nat
             /\ gh'[j].head >= gh[j].head /\ gh'[j].updatedAt > 0
             /\ gh[j].state # "open" => gh'[j].state # "open"
             /\ \/ gh'[j].head >= gh[j].head /\ gh'[j].state = gh[j].state
                \/ gh'[j].head = gh[j].head /\ gh'[j].state # "open"
  <2>1. /\ gh[j] \in PullRequest /\ gh[j].updatedAt > 0 /\ gh[j].head \in Nat
        /\ gh[j].updatedAt \in Nat /\ g.updatedAt \in Nat /\ g.head \in Nat
    BY <1>1 DEF SourceInv, DeliveriesSound, PullRequest
  <2>2. CASE j = k
    BY <1>2, <2>1, <2>2
  <2>3. CASE j # k
    BY <1>2, <2>1, <2>3
  <2>. QED
    BY <2>2, <2>3
<1>4. SourcesSound'
  <2>1. SUFFICES ASSUME NEW j \in Keys
                 PROVE  SourceSound(items[j], gh'[j], pushed[j], accepted[j], concluded[j])
    BY DEF SourcesSound
  <2>. QED
    BY <1>3, SourcesAt, WorldMoves
<1>5. AlarmSound'
  <2>1. SUFFICES ASSUME alarm.pc = "probing", NEW j \in Keys
                 PROVE  ProbeSound(items[j], alarm.cand[j], alarm.probe[j], gh'[j], pushed[j])
    BY DEF SourceInv, AlarmSound
  <2>2. /\ alarm.probe[j].head \in Nat
        /\ ProbeSound(items[j], alarm.cand[j], alarm.probe[j], gh[j], pushed[j])
    BY <2>1 DEF SourceInv, AlarmSound, SystemInv, IInv, QueueTypeOK, AlarmState
  <2>. QED
    BY <1>3, <2>2, ProbeAges
<1>6. DeliveriesSound'
  <2>1. SUFFICES ASSUME NEW i \in DOMAIN deliveries'
                 PROVE  DeliverySound(deliveries'[i], gh'[deliveries'[i].key])
    <3>1. \A j \in Keys : gh'[j].updatedAt > 0
      BY <1>3
    <3>. QED
      BY <2>1, <3>1 DEF DeliveriesSound
  <2>2. CASE i \in DOMAIN deliveries /\ deliveries'[i] = deliveries[i]
    <3>1. deliveries[i] \in Delivery
      BY <2>2 DEF SystemInv, PartiesTypeOK
    <3>2. /\ deliveries[i].key \in Keys /\ deliveries[i].decision.head \in Nat
          /\ DeliverySound(deliveries[i], gh[deliveries[i].key])
      BY <2>2, <3>1 DEF Delivery, Decision, SourceInv, DeliveriesSound
    <3>3. /\ gh[deliveries[i].key].head \in Nat /\ gh'[deliveries[i].key].head \in Nat
          /\ gh'[deliveries[i].key].head >= gh[deliveries[i].key].head
      BY <1>3, <3>2
    <3>. QED
      BY <2>2, <3>2, <3>3 DEF DeliverySound
  <2>. QED
    BY <2>2
<1>. QED
  BY <1>4, <1>5, <1>6 DEF SourceInv, HistoryTypeOK

LEMMA GitHubSources ==
  ASSUME SystemInv, SourceInv, GitHubStep
  PROVE  SourceInv'
<1>1. ASSUME NEW k \in Keys, NEW action \in {"push", "label"}, NEW later \in UpdateSteps,
             Change(k, action, later)
      PROVE  SourceInv'
  <2> DEFINE head == IF action = "push" THEN gh[k].head + 1 ELSE gh[k].head
             updatedAt == gh[k].updatedAt + later
             g == [gh[k] EXCEPT !.head = head, !.updatedAt = updatedAt]
             decision == [action |-> action, head |-> head, updatedAt |-> updatedAt,
                          seq |-> 0, marker |-> NoMarker]
             delivery == [key |-> k, pc |-> "sent", decision |-> decision]
  <2>1. /\ gh[k] \in PullRequest /\ gh[k].head \in Nat /\ gh[k].head > 0
        /\ gh[k].updatedAt \in Nat /\ gh[k].updatedAt > 0 /\ later \in Nat
    BY SourcesAt, BoundAssumption
       DEF PullRequest, SourceSound, Behind, SourceInv, DeliveriesSound
  <2>2. /\ head \in Nat /\ head > 0 /\ head >= gh[k].head
        /\ updatedAt \in Nat /\ updatedAt > 0 /\ updatedAt >= gh[k].updatedAt
    BY <2>1
  <2>3. /\ gh' = [gh EXCEPT ![k].head = head, ![k].updatedAt = updatedAt]
        /\ deliveries' = Append(deliveries, delivery)
        /\ UNCHANGED <<items, pushed, accepted, concluded, alarm>>
    BY <1>1 DEF Change, queueVars, history
  <2> HIDE DEF head, updatedAt
  <2>4. /\ g \in PullRequest /\ g.head = head /\ g.updatedAt = updatedAt
        /\ g.state = gh[k].state /\ gh' = [gh EXCEPT ![k] = g]
    BY <2>1, <2>2, <2>3 DEF PullRequest, SystemInv, PartiesTypeOK
  <2>5. gh'[k].head = head
    BY <2>4 DEF SystemInv, PartiesTypeOK
  <2>6. DeliverySound(delivery, gh'[delivery.key])
    BY <2>2, <2>5 DEF DeliverySound
  <2> HIDE DEF g, delivery
  <2>7. ASSUME NEW i \in DOMAIN deliveries'
        PROVE  \/ i \in DOMAIN deliveries /\ deliveries'[i] = deliveries[i]
               \/ deliveries'[i] = delivery
    BY <2>3, <2>7 DEF SystemInv, PartiesTypeOK
  <2>8. ASSUME NEW i \in DOMAIN deliveries'
        PROVE  \/ i \in DOMAIN deliveries /\ deliveries'[i] = deliveries[i]
               \/ DeliverySound(deliveries'[i], gh'[deliveries'[i].key])
    BY <2>6, <2>7, <2>8
  <2>. QED
    BY <2>2, <2>3, <2>4, <2>8, GitHubMoves
<1>2. ASSUME NEW k \in Keys, NEW state \in {"closed", "withdrawn"}, EndTarget(k, state)
      PROVE  SourceInv'
  <2> DEFINE g == [gh[k] EXCEPT !.state = state]
  <2>1. gh[k] \in PullRequest
    BY SourcesAt
  <2>2. /\ g \in PullRequest /\ g.head = gh[k].head /\ g.updatedAt >= gh[k].updatedAt
        /\ g.state # "open"
    BY <2>1 DEF PullRequest
  <2>3. gh' = [gh EXCEPT ![k] = g]
    BY <1>2 DEF EndTarget, SystemInv, PartiesTypeOK
  <2>4. UNCHANGED <<items, pushed, accepted, concluded, alarm, deliveries>>
    BY <1>2 DEF EndTarget, queueVars, history
  <2> HIDE DEF g
  <2>. QED
    BY <2>2, <2>3, <2>4, GitHubMoves
<1>. QED
  BY <1>1, <1>2 DEF GitHubStep

-----------------------------------------------------------------------------
(* Ingress.                                                                *)

(* One delivery changes. *)
LEMMA OneDelivery ==
  ASSUME SystemInv, SourceInv, NEW i \in DOMAIN deliveries, NEW STATE new,
         deliveries' = [deliveries EXCEPT ![i] = new], UNCHANGED gh,
         DeliverySound(new, gh[new.key])
  PROVE  DeliveriesSound'
BY DEF SystemInv, PartiesTypeOK, SourceInv, DeliveriesSound

LEMMA DeliveryAt ==
  ASSUME SystemInv, SourceInv, NEW i \in DOMAIN deliveries
  PROVE  /\ deliveries[i] \in Delivery /\ deliveries[i].key \in Keys
         /\ deliveries[i].decision \in Decision
         /\ DeliverySound(deliveries[i], gh[deliveries[i].key])
         /\ \A k \in Keys : DeliverySound(Handled(k), gh[Handled(k).key])
<1>1. deliveries[i] \in Delivery /\ DeliverySound(deliveries[i], gh[deliveries[i].key])
  BY DEF SystemInv, PartiesTypeOK, SourceInv, DeliveriesSound
<1>. QED
  BY <1>1 DEF Delivery, DeliverySound, Handled

LEMMA VerifySources ==
  ASSUME SystemInv, SourceInv, NEW i \in 1..MaxEvents, Reserve(i) \/ VerifyHead(i)
  PROVE  SourceInv'
<1> DEFINE old == deliveries[i]
<1>1. /\ i \in DOMAIN deliveries
      /\ UNCHANGED <<items, gh, pushed, accepted, concluded, alarm>>
  BY DEF Reserve, VerifyHead, queueVars, history
<1>2. /\ old \in Delivery /\ old.key \in Keys /\ old.decision \in Decision
      /\ DeliverySound(old, gh[old.key])
      /\ DeliverySound(Handled(old.key), gh[Handled(old.key).key])
  BY <1>1, DeliveryAt
<1>3. CASE Reserve(i)
  <2> DEFINE decision == [old.decision EXCEPT !.seq = sourceSeq + 1]
             new == [old EXCEPT !.pc = "reserved", !.decision = decision]
  <2>1. /\ decision.head = old.decision.head /\ decision.action = old.decision.action
        /\ decision.updatedAt = old.decision.updatedAt
        /\ decision.marker = old.decision.marker
    BY <1>2 DEF Decision
  <2>2. old.pc = "sent" /\ deliveries' = [deliveries EXCEPT ![i] = new]
    BY <1>3 DEF Reserve
  <2> HIDE DEF decision
  <2>3. new.key = old.key /\ new.decision = decision
    BY <1>2 DEF Delivery
  <2>4. DeliverySound(new, gh[new.key])
    BY <1>2, <2>1, <2>2, <2>3 DEF DeliverySound
  <2> HIDE DEF new
  <2>. QED
    BY <1>1, <2>2, <2>4, OneDelivery, OnlyDeliveriesMove
<1>4. CASE VerifyHead(i)
  <2> DEFINE seen == [old EXCEPT !.pc = "verified"]
             new == IF gh[old.key].head = old.decision.head THEN seen ELSE Handled(old.key)
  <2>1. old.pc = "reserved" /\ deliveries' = [deliveries EXCEPT ![i] = new]
    BY <1>4 DEF VerifyHead
  <2>2. seen.key = old.key /\ seen.decision = old.decision
    BY <1>2 DEF Delivery
  <2>3. DeliverySound(seen, gh[seen.key])
    BY <1>2, <2>1, <2>2 DEF DeliverySound
  <2>4. DeliverySound(new, gh[new.key])
    BY <1>2, <2>3
  <2> HIDE DEF new
  <2>. QED
    BY <1>1, <2>1, <2>4, OneDelivery, OnlyDeliveriesMove
<1>. QED
  BY <1>3, <1>4

(* A handler that replaces one item, and perhaps accepts a source for it.  *)
LEMMA AcceptedSources ==
  ASSUME SystemInv, SourceInv, NEW k \in Keys, NEW STATE new,
         items' = [items EXCEPT ![k] = new], UNCHANGED <<alarm, gh>>,
         NEW STATE p, NEW STATE acc, NEW STATE done,
         pushed' = [pushed EXCEPT ![k] = p], accepted' = [accepted EXCEPT ![k] = acc],
         concluded' = [concluded EXCEPT ![k] = done],
         p \in Nat, acc \in Nat \X Nat, done \in BOOLEAN, DeliveriesSound',
         SourceSound(new, gh[k], p, acc, done),
         alarm.pc = "probing" => ProbeSound(new, alarm.cand[k], alarm.probe[k], gh[k], p)
  PROVE  SourceInv'
<1>1. /\ items \in [Keys -> Item] /\ pushed \in [Keys -> Nat]
      /\ accepted \in [Keys -> Nat \X Nat] /\ concluded \in [Keys -> BOOLEAN]
  BY DEF SystemInv, IInv, QueueTypeOK, SourceInv, HistoryTypeOK
<1>2. /\ items'[k] = new /\ pushed'[k] = p /\ accepted'[k] = acc /\ concluded'[k] = done
      /\ \A j \in Keys \ {k} : /\ items'[j] = items[j] /\ pushed'[j] = pushed[j]
                               /\ accepted'[j] = accepted[j] /\ concluded'[j] = concluded[j]
  BY <1>1
<1>3. HistoryTypeOK'
  BY <1>1 DEF HistoryTypeOK
<1>4. SourcesSound'
  <2>1. SUFFICES ASSUME NEW j \in Keys
                 PROVE  SourceSound(items'[j], gh[j], pushed'[j], accepted'[j], concluded'[j])
    BY DEF SourcesSound
  <2>2. CASE j = k
    BY <1>2, <2>2
  <2>3. CASE j # k
    BY <1>2, <2>3 DEF SourceInv, SourcesSound
  <2>. QED
    BY <2>2, <2>3
<1>5. AlarmSound'
  <2>1. SUFFICES ASSUME alarm.pc = "probing", NEW j \in Keys
                 PROVE  ProbeSound(items'[j], alarm.cand[j], alarm.probe[j], gh[j], pushed'[j])
    BY DEF SourceInv, AlarmSound
  <2>2. CASE j = k
    BY <1>2, <2>1, <2>2
  <2>3. CASE j # k
    BY <1>2, <2>1, <2>3 DEF SourceInv, AlarmSound
  <2>. QED
    BY <2>2, <2>3
<1>. QED
  BY <1>3, <1>4, <1>5 DEF SourceInv

(* What a webhook's decision makes of the item that accepts it.            *)
LEMMA AcceptedWork ==
  ASSUME NEW item \in Item, NEW d \in Decision, NEW revision \in Nat, NEW seq,
         NEW g, NEW p \in Nat, NEW acc, NEW done, LeaseConsistent(item, seq),
         SourceSound(item, g, p, acc, done), g.head \in Nat, revision > item.revision,
         d.head \in 1..g.head, d.action \in {"push", "label"}, d.marker = NoMarker,
         d.updatedAt > 0, item.state # "absent"
  PROVE  SourceSound(Updated(item, d, revision), g,
                     IF supersedesInProgress(d) THEN d.head ELSE p, Source(d), FALSE)
<1> DEFINE new == Updated(item, d, revision)
           freed == IF SupersedesActive(item, d) THEN Requeued(item) ELSE item
           head == IF supersedesInProgress(d) THEN d.head ELSE p
<1>1. /\ d.head \in Nat /\ d.head > 0 /\ d.head <= g.head /\ d.updatedAt \in Nat
      /\ ~BindsCommand(d) /\ item.decision \in Decision
      /\ item.revision \in Nat /\ item.lease.revision \in Nat
      /\ item.lease.revision <= item.revision
  BY DEF Decision, BindsCommand, HasCommandContext, Item, Lease, LeaseConsistent
<1>2. /\ MergedDecision(item, d).head = d.head /\ MergedDecision(item, d).updatedAt = d.updatedAt
      /\ MergedDecision(item, d).action = d.action
  BY <1>1 DEF MergedDecision, mergePending, NoHead
<1>3. /\ new.decision = MergedDecision(item, d) /\ new.revision = revision
      /\ new.state \in {"pending", freed.state}
      /\ new.lease.revision = freed.lease.revision
      /\ new.lease.decision = freed.lease.decision /\ new.lease.phase = freed.lease.phase
      /\ new.lease.superseding = IF QueuesStatusSupersession(item, d) THEN revision
                                 ELSE freed.lease.superseding
  BY SMTT(30), UpdatedFields
<1> HIDE DEF new
<1>4. ~SupersedesActive(item, d) => freed = item
  OBVIOUS
<1>5. SupersedesActive(item, d) => freed.state = "pending"
  BY RequeuedItem DEF SupersedesActive, Active
<1>6. Behind(new, g, head, Source(d)) /\ OneShotSourceless(new)
  BY <1>1, <1>2, <1>3 DEF SourceSound, Behind, OneShotSourceless, isLowPriority, Source,
                          NoSource, NoHead
<1>7. Owes(new, g, Source(d), FALSE)
  BY <1>2, <1>3, <1>4, <1>5 DEF Owes, Carries, Source
<1>8. Active(new) => Active(item) /\ freed = item /\ ~SupersedesActive(item, d)
  BY <1>3, <1>4, <1>5 DEF Active
<1>9. Snapshot(new)
  BY <1>1, <1>3, <1>8 DEF Snapshot
<1>10. Current(new, g, head)
  <2>1. SUFFICES ASSUME Active(new), new.lease.decision.head # NoHead
                 PROVE  \/ new.lease.decision.head >= head
                        \/ /\ new.lease.phase = "status"
                           /\ new.lease.superseding > new.lease.revision
                        \/ HasCommandContext(new.lease.decision) /\ g.state # "open"
    BY DEF Current
  <2>2. /\ Active(item) /\ ~SupersedesActive(item, d)
        /\ new.lease.revision = item.lease.revision
        /\ new.lease.decision = item.lease.decision /\ new.lease.phase = item.lease.phase
        /\ new.lease.superseding = IF QueuesStatusSupersession(item, d) THEN revision
                                   ELSE item.lease.superseding
    BY <1>3, <1>8, <2>1
  <2>3. CASE ~supersedesInProgress(d)
    BY <2>1, <2>2, <2>3 DEF SourceSound, Current, QueuesStatusSupersession
  <2>4. CASE supersedesInProgress(d)
    <3>1. item.lease.phase = "status"
      BY <1>1, <2>2, <2>4 DEF SupersedesActive
    <3>2. CASE QueuesStatusSupersession(item, d)
      BY <1>1, <2>2, <3>1, <3>2
    <3>3. CASE ~QueuesStatusSupersession(item, d)
      <4>1. item.lease.decision.head = d.head
        BY <1>1, <2>2, <2>4, <3>1, <3>3
           DEF QueuesStatusSupersession, InputIdentityChanged, InputIdentity
      <4>. QED
        BY <1>1, <2>2, <2>4, <4>1
    <3>. QED
      BY <3>2, <3>3
  <2>. QED
    BY <2>3, <2>4
<1>. QED
  BY <1>6, <1>7, <1>9, <1>10 DEF SourceSound, new

(* What a command makes of the item it binds to. *)
LEMMA BoundWork ==
  ASSUME NEW item \in Item, NEW d \in Decision, NEW revision \in Nat, NEW seq,
         NEW g, NEW p, NEW acc, NEW done, LeaseConsistent(item, seq),
         SourceSound(item, g, p, acc, done), revision > item.revision,
         BindsCommand(d), d.updatedAt = 0, d.action = "command"
  PROVE  SourceSound(Updated(item, d, revision), g, p, acc, done)
<1> DEFINE new == Updated(item, d, revision)
<1>1. /\ item.revision \in Nat /\ item.lease.revision \in Nat
      /\ item.lease.revision <= item.revision
      /\ ~SupersedesActive(item, d) /\ ~QueuesStatusSupersession(item, d)
  BY DEF Item, Lease, LeaseConsistent, SupersedesActive, QueuesStatusSupersession
<1>2. /\ MergedDecision(item, d).head = item.decision.head
      /\ MergedDecision(item, d).updatedAt = item.decision.updatedAt
      /\ MergedDecision(item, d).action = d.action
  BY <1>1 DEF MergedDecision, mergePending, BindsCommand
<1>3. /\ new.decision = MergedDecision(item, d) /\ new.revision = revision
      /\ \/ new.state = item.state
         \/ Mergeable(item) /\ new.state = "pending"
      /\ new.lease = item.lease
  <2>1. new.decision = MergedDecision(item, d) /\ new.revision = revision
    BY UpdatedFields
  <2>2. new.lease = item.lease
    BY <1>1, UpdatedFields
  <2>3. new.state = IF Mergeable(item) /\ ~KeepsRetryBudget(item, d) THEN "pending"
                    ELSE item.state
    BY <1>1, UpdatedFields
  <2>. QED
    BY <2>1, <2>2, <2>3
<1> HIDE DEF new
<1>4. Active(new) => Active(item)
  BY <1>3 DEF Active
<1>5. /\ Owes(new, g, acc, done) /\ Behind(new, g, p, acc) /\ OneShotSourceless(new)
  BY <1>2, <1>3 DEF SourceSound, Owes, Carries, Source, Behind, OneShotSourceless,
                    isLowPriority, Mergeable
<1>6. Snapshot(new) /\ Current(new, g, p)
  BY <1>1, <1>3, <1>4 DEF SourceSound, Snapshot, Current
<1>. QED
  BY <1>5, <1>6 DEF SourceSound, new

(* A new item owes what it was enqueued for. *)
LEMMA FreshSound ==
  ASSUME NEW new, NEW d, new.state = "pending", new.decision = d,
         NEW g, NEW p, NEW acc, NEW done,
         g.head > 0, p <= g.head, acc[1] <= g.head, d.head <= g.head,
         acc # NoSource => acc[1] # NoHead,
         \/ acc = NoSource \/ acc = Source(d) \/ done \/ MovedPast(g, acc),
         isLowPriority(d) => d.head = NoHead /\ d.marker = NoMarker
  PROVE  SourceSound(new, g, p, acc, done)
BY DEF SourceSound, Owes, Carries, Behind, OneShotSourceless, Snapshot, Current, Active

(* The two ways an enqueue changes an item. *)
LEMMA EnqueueWrites ==
  ASSUME SystemInv, NEW k \in Keys, NEW d \in Decision
  PROVE  /\ EnqueueNew(k, d) =>
              \E new \in Item : /\ items' = [items EXCEPT ![k] = new] /\ new.state = "pending"
                                /\ new.decision = d /\ new.lease = NoLease
         /\ EnqueueExisting(k, d) =>
              \E revision \in Nat : /\ revision > items[k].revision
                                    /\ items' = [items EXCEPT ![k] =
                                                   Updated(items[k], d, revision)]
<1>1. /\ items[k] \in Item /\ lastRevision \in [Keys -> Nat]
      /\ items[k].revision \in Nat
  BY Lookup DEF SystemInv
<1>2. ASSUME EnqueueNew(k, d)
      PROVE  \E new \in Item : /\ items' = [items EXCEPT ![k] = new] /\ new.state = "pending"
                               /\ new.decision = d /\ new.lease = NoLease
  <2> DEFINE revision == NextRevision(k, 1, HasCommandContext(d))
             new == [Absent EXCEPT !.state = "pending", !.revision = revision, !.decision = d,
                                   !.watermark = AdvanceWatermark(NoWatermark, d)]
  <2>1. revision \in Nat
    BY <1>1 DEF NextRevision
  <2>2. items' = [items EXCEPT ![k] = new]
    BY <1>2 DEF EnqueueNew
  <2> HIDE DEF revision
  <2>3. new \in Item /\ new.state = "pending" /\ new.decision = d /\ new.lease = NoLease
    BY <2>1, FreshWork
  <2> HIDE DEF new
  <2>. QED
    BY <2>2, <2>3
<1>3. ASSUME EnqueueExisting(k, d)
      PROVE  \E revision \in Nat : /\ revision > items[k].revision
                                   /\ items' = [items EXCEPT ![k] =
                                                  Updated(items[k], d, revision)]
  <2> DEFINE command == HasCommandContext(items[k].decision) \/ HasCommandContext(d)
             revision == NextRevision(k, items[k].revision + 1, command)
  <2>1. revision \in Nat /\ revision > items[k].revision
    BY <1>1 DEF NextRevision
  <2>2. items' = [items EXCEPT ![k] = Updated(items[k], d, revision)]
    BY <1>3 DEF EnqueueExisting
  <2> HIDE DEF revision
  <2>. QED
    BY <2>1, <2>2
<1>. QED
  BY <1>2, <1>3

(* An item that an enqueue has touched is not what the alarm admitted.     *)
LEMMA EnqueueProbe ==
  ASSUME NEW item \in Item, NEW d \in Decision, NEW revision \in Nat,
         revision > item.revision, NEW cand \in Nat, NEW probe, NEW g, NEW p, NEW q,
         ProbeSound(item, cand, probe, g, p)
  PROVE  ProbeSound(Updated(item, d, revision), cand, probe, g, q)
<1> DEFINE new == Updated(item, d, revision)
<1>1. SUFFICES ASSUME cand # 0
               PROVE  /\ new.state \in {"pending", "parked"} /\ new.revision > cand
                      /\ probe.state = "open" => probe.head <= g.head
                      /\ probe.state \in {"closed", "withdrawn"} => g.state # "open"
  <2>1. new.revision \in Nat
    BY UpdatedFields
  <2> HIDE DEF new
  <2>2. new.revision > cand => new.revision >= cand /\ new.revision # cand
    BY <2>1
  <2>. QED
    BY <2>2, <1>1 DEF ProbeSound, new
<1>2. /\ item.state \in {"pending", "parked"} /\ item.revision >= cand
      /\ item.revision \in Nat
      /\ probe.state = "open" => probe.head <= g.head
      /\ probe.state \in {"closed", "withdrawn"} => g.state # "open"
  BY <1>1 DEF ProbeSound, Item
<1>3. ~SupersedesActive(item, d)
  BY <1>2 DEF SupersedesActive, Active
<1>4. new.state \in {"pending", item.state} /\ new.revision = revision
  BY <1>3, UpdatedFields
<1>. QED
  BY <1>2, <1>4

(* A webhook's decision is taken by a new item, or by one that admits it.  *)
LEMMA IngestSources ==
  ASSUME SystemInv, SourceInv, NEW i \in 1..MaxEvents, Ingest(i)
  PROVE  SourceInv'
<1> DEFINE k == deliveries[i].key
           d == deliveries[i].decision
           item == items[k]
           taken == item.state = "absent" \/ Admits(item, d)
           p == IF supersedesInProgress(d) THEN d.head ELSE pushed[k]
<1>1. i \in DOMAIN deliveries /\ deliveries[i].pc # "done"
  BY DEF Ingest
<1>2. /\ k \in Keys /\ d \in Decision
      /\ d.head \in 1..gh[k].head /\ d.action \in {"push", "label"}
      /\ d.updatedAt > 0 /\ d.marker = NoMarker
  BY <1>1, DeliveryAt DEF DeliverySound
<1>3. /\ item \in Item /\ LeaseConsistent(item, leaseSeq) /\ gh[k].head \in Nat
      /\ pushed[k] \in Nat /\ accepted[k] \in Nat \X Nat
      /\ SourceSound(item, gh[k], pushed[k], accepted[k], concluded[k])
  BY <1>2, SourcesAt
<1>4. DeliveriesSound'
  <2>1. DeliverySound(Handled(k), gh[Handled(k).key])
    BY <1>1, <1>2, DeliveryAt
  <2>2. deliveries' = [deliveries EXCEPT ![i] = Handled(k)] /\ UNCHANGED gh
    BY DEF Ingest
  <2>. QED
    BY <1>1, <2>1, <2>2, OneDelivery
<1>5. /\ Enqueue(k, d) /\ UNCHANGED gh
      /\ accepted' = IF taken THEN [accepted EXCEPT ![k] = Source(d)] ELSE accepted
      /\ concluded' = IF taken THEN [concluded EXCEPT ![k] = FALSE] ELSE concluded
      /\ pushed' = IF taken /\ supersedesInProgress(d)
                   THEN [pushed EXCEPT ![k] = d.head] ELSE pushed
  BY DEF Ingest
<1>6. /\ ~isLowPriority(d) /\ ~isScheduled(d)
      /\ d.head \in Nat /\ d.head > 0 /\ d.updatedAt \in Nat /\ p \in Nat
      /\ Source(d) \in Nat \X Nat
  BY <1>2, <1>3 DEF isLowPriority, isScheduled, Decision, Source
<1>7. CASE ~taken
  <2>1. UNCHANGED <<items, alarm, pushed, accepted, concluded>>
    BY <1>5, <1>7 DEF Enqueue, EnqueueNew, EnqueueExisting, EnqueueIgnored, queueVars
  <2>. QED
    BY <1>4, <1>5, <2>1, OnlyDeliveriesMove
<1>8. CASE taken
  <2>1. /\ accepted' = [accepted EXCEPT ![k] = Source(d)]
        /\ concluded' = [concluded EXCEPT ![k] = FALSE]
        /\ pushed' = [pushed EXCEPT ![k] = p]
    BY <1>5, <1>8 DEF SourceInv, HistoryTypeOK
  <2>2. EnqueueNew(k, d) \/ EnqueueExisting(k, d)
    BY <1>5, <1>6, <1>8 DEF Enqueue, EnqueueIgnored, Sheds
  <2>3. ASSUME NEW STATE new, items' = [items EXCEPT ![k] = new], UNCHANGED alarm,
               SourceSound(new, gh[k], p, Source(d), FALSE),
               alarm.pc = "probing" =>
                 ProbeSound(new, alarm.cand[k], alarm.probe[k], gh[k], p)
        PROVE  SourceInv'
    BY <1>2, <1>4, <1>5, <1>6, <2>1, <2>3, AcceptedSources
  <2>4. CASE EnqueueNew(k, d)
    <3>1. PICK new \in Item : /\ items' = [items EXCEPT ![k] = new] /\ new.state = "pending"
                              /\ new.decision = d
      BY <1>2, <2>4, EnqueueWrites
    <3>2. UNCHANGED alarm /\ item.state = "absent"
      BY <2>4 DEF EnqueueNew
    <3>3. SourceSound(new, gh[k], p, Source(d), FALSE)
      <4>1. /\ gh[k].head > 0 /\ p <= gh[k].head /\ Source(d)[1] = d.head
            /\ d.head <= gh[k].head /\ d.head # NoHead
        BY <1>2, <1>3, <1>6 DEF SourceSound, Behind, Source, NoHead
      <4>. QED
        BY <1>2, <1>6, <3>1, <4>1, FreshSound
    <3>4. alarm.pc = "probing" => ProbeSound(new, alarm.cand[k], alarm.probe[k], gh[k], p)
      BY <1>2, <3>2 DEF SourceInv, AlarmSound, ProbeSound
    <3>. QED
      BY <2>3, <3>1, <3>2, <3>3, <3>4
  <2>5. CASE EnqueueExisting(k, d)
    <3>1. PICK revision \in Nat : /\ revision > item.revision
                                  /\ items' = [items EXCEPT ![k] = Updated(item, d, revision)]
      BY <1>2, <2>5, EnqueueWrites
    <3>2. UNCHANGED alarm /\ item.state # "absent"
      BY <2>5 DEF EnqueueExisting
    <3>3. SourceSound(Updated(item, d, revision), gh[k], p, Source(d), FALSE)
      BY <1>2, <1>3, <3>1, <3>2, AcceptedWork
    <3>4. alarm.pc = "probing" =>
            ProbeSound(Updated(item, d, revision), alarm.cand[k], alarm.probe[k], gh[k], p)
      <4>1. alarm.cand[k] \in Nat
        BY <1>2 DEF SystemInv, IInv, QueueTypeOK, AlarmState
      <4>2. SUFFICES ASSUME alarm.pc = "probing"
                     PROVE  ProbeSound(Updated(item, d, revision), alarm.cand[k],
                                       alarm.probe[k], gh[k], p)
        OBVIOUS
      <4>3. ProbeSound(item, alarm.cand[k], alarm.probe[k], gh[k], pushed[k])
        BY <1>2, <4>2 DEF SourceInv, AlarmSound
      <4>. QED
        BY <1>2, <1>3, <3>1, <4>1, <4>3, EnqueueProbe
    <3>. QED
      BY <2>3, <3>1, <3>2, <3>3, <3>4
  <2>. QED
    BY <2>2, <2>4, <2>5
<1>. QED
  BY <1>7, <1>8

(* Commands and background work accept no source. *)
LEMMA IssueSources ==
  ASSUME SystemInv, SourceInv, NEW k \in Keys, NEW d \in Decision, Enqueue(k, d),
         d.head = NoHead, d.updatedAt = 0, d.seq = 0,
         \/ d.action = "command" /\ HasCommandContext(d)
         \/ d.action \in {"recovery", "scheduled"} /\ d.marker = NoMarker,
         UNCHANGED <<gh, deliveries, pushed, accepted, concluded>>
  PROVE  SourceInv'
<1> DEFINE item == items[k]
<1>1. /\ item \in Item /\ LeaseConsistent(item, leaseSeq) /\ gh[k].head \in Nat
      /\ pushed[k] \in Nat /\ accepted[k] \in Nat \X Nat /\ concluded[k] \in BOOLEAN
      /\ SourceSound(item, gh[k], pushed[k], accepted[k], concluded[k])
  BY SourcesAt
<1>2. /\ pushed' = [pushed EXCEPT ![k] = pushed[k]]
      /\ accepted' = [accepted EXCEPT ![k] = accepted[k]]
      /\ concluded' = [concluded EXCEPT ![k] = concluded[k]]
  BY DEF SourceInv, HistoryTypeOK
<1>3. DeliveriesSound'
  BY DEF SourceInv, DeliveriesSound
<1>4. ASSUME NEW STATE new, items' = [items EXCEPT ![k] = new], UNCHANGED alarm,
             SourceSound(new, gh[k], pushed[k], accepted[k], concluded[k]),
             alarm.pc = "probing" =>
               ProbeSound(new, alarm.cand[k], alarm.probe[k], gh[k], pushed[k])
      PROVE  SourceInv'
  BY <1>1, <1>2, <1>3, <1>4, AcceptedSources
<1>5. CASE EnqueueIgnored(k, d)
  <2>1. UNCHANGED <<items, alarm>>
    BY <1>5 DEF EnqueueIgnored, queueVars
  <2>. QED
    BY <1>3, <2>1, OnlyDeliveriesMove
<1>6. CASE EnqueueNew(k, d)
  <2>1. PICK new \in Item : /\ items' = [items EXCEPT ![k] = new] /\ new.state = "pending"
                            /\ new.decision = d
    BY <1>6, EnqueueWrites
  <2>2. UNCHANGED alarm /\ item.state = "absent"
    BY <1>6 DEF EnqueueNew
  <2>3. SourceSound(new, gh[k], pushed[k], accepted[k], concluded[k])
    <3>1. /\ gh[k].head > 0 /\ pushed[k] <= gh[k].head /\ accepted[k][1] <= gh[k].head
          /\ accepted[k] # NoSource => accepted[k][1] # NoHead
          /\ d.head <= gh[k].head
      BY <1>1 DEF SourceSound, Behind, NoHead
    <3>2. \/ accepted[k] = NoSource \/ concluded[k] \/ MovedPast(gh[k], accepted[k])
      BY <1>1, <2>2 DEF SourceSound, Owes, Carries
    <3>3. isLowPriority(d) => d.head = NoHead /\ d.marker = NoMarker
      BY DEF isLowPriority
    <3>. QED
      BY <2>1, <3>1, <3>2, <3>3, FreshSound
  <2>4. alarm.pc = "probing" =>
          ProbeSound(new, alarm.cand[k], alarm.probe[k], gh[k], pushed[k])
    BY <2>2 DEF SourceInv, AlarmSound, ProbeSound
  <2>. QED
    BY <1>4, <2>1, <2>2, <2>3, <2>4
<1>7. CASE EnqueueExisting(k, d)
  <2>1. PICK revision \in Nat : /\ revision > item.revision
                                /\ items' = [items EXCEPT ![k] = Updated(item, d, revision)]
    BY <1>7, EnqueueWrites
  <2>2. UNCHANGED alarm /\ Admits(item, d)
    BY <1>7 DEF EnqueueExisting
  <2>3. BindsCommand(d) /\ d.action = "command"
    BY <2>2 DEF Admits, isLowPriority, isScheduled, BindsCommand
  <2>4. SourceSound(Updated(item, d, revision), gh[k], pushed[k], accepted[k], concluded[k])
    BY <1>1, <2>1, <2>3, BoundWork
  <2>5. alarm.pc = "probing" =>
          ProbeSound(Updated(item, d, revision), alarm.cand[k], alarm.probe[k], gh[k], pushed[k])
    <3>1. alarm.cand[k] \in Nat
      BY DEF SystemInv, IInv, QueueTypeOK, AlarmState
    <3>2. SUFFICES ASSUME alarm.pc = "probing"
                   PROVE  ProbeSound(Updated(item, d, revision), alarm.cand[k],
                                     alarm.probe[k], gh[k], pushed[k])
      OBVIOUS
    <3>3. ProbeSound(item, alarm.cand[k], alarm.probe[k], gh[k], pushed[k])
      BY <3>2 DEF SourceInv, AlarmSound
    <3>. QED
      BY <1>1, <2>1, <3>1, <3>3, EnqueueProbe
  <2>. QED
    BY <1>4, <2>1, <2>2, <2>4, <2>5
<1>. QED
  BY <1>5, <1>6, <1>7 DEF Enqueue

LEMMA IngressSources ==
  ASSUME SystemInv, SourceInv, IngressStep
  PROVE  SourceInv'
<1>1. ASSUME NEW k \in Keys, NEW m \in Markers, IssueCommand(k, m)
      PROVE  SourceInv'
  <2> DEFINE d == [NoDecision EXCEPT !.action = "command", !.marker = m]
  <2>1. /\ d \in Decision /\ d.head = NoHead /\ d.updatedAt = 0 /\ d.seq = 0
        /\ d.action = "command" /\ d.marker = m
    BY DEF Decision, NoDecision, Actions, NoHead
  <2>2. m # NoMarker
    BY MarkerAssumption
  <2>3. Enqueue(k, d) /\ UNCHANGED <<gh, deliveries, pushed, accepted, concluded>>
    BY <1>1 DEF IssueCommand
  <2> HIDE DEF d
  <2>. QED
    BY <2>1, <2>2, <2>3, IssueSources DEF HasCommandContext
<1>2. ASSUME NEW k \in Keys, NEW action \in {"recovery", "scheduled"},
             IssueBackground(k, action)
      PROVE  SourceInv'
  <2> DEFINE d == [NoDecision EXCEPT !.action = action]
  <2>1. /\ d \in Decision /\ d.head = NoHead /\ d.updatedAt = 0 /\ d.seq = 0
        /\ d.action = action /\ d.marker = NoMarker
    BY DEF Decision, NoDecision, Actions, NoHead
  <2>2. Enqueue(k, d) /\ UNCHANGED <<gh, deliveries, pushed, accepted, concluded>>
    BY <1>2 DEF IssueBackground
  <2> HIDE DEF d
  <2>. QED
    BY <2>1, <2>2, IssueSources
<1>. QED
  BY <1>1, <1>2, VerifySources, IngestSources DEF IngressStep

-----------------------------------------------------------------------------
(* Workflow runs and the reconciler.                                       *)

LEMMA RunSources ==
  ASSUME SystemInv, SourceInv, NEW r \in Runs
  PROVE  /\ ClaimBegin(r) \/ ClaimCommit(r) => SourceInv'
         /\ \A phase \in Phases : Beat(r, phase) => SourceInv'
         /\ \A report \in Report, lost \in BOOLEAN : Finish(r, report, lost) => SourceInv'
         /\ FinishRefused(r) \/ Crash(r) \/ Rerun(r) \/ ReconcileRead(r) => SourceInv'
<1> DEFINE k == runs[r].key
<1>1. /\ k \in Keys /\ runs[r].revision \in Nat /\ runs[r].head \in Nat
      /\ runs[r].attempt \in Nat /\ runs[r].generation \in Nat /\ r \in Nat
  BY RunCalls, RunsAreNumbers DEF SystemInv
<1>2. ASSUME UNCHANGED <<queueVars, gh, deliveries, pushed, accepted, concluded>>
      PROVE  SourceInv'
  BY <1>2, SourcesStand DEF queueVars
<1>3. ASSUME ClaimBegin(r)
      PROVE  SourceInv'
  <2>1. UNCHANGED <<gh, deliveries, pushed, accepted, concluded>>
    BY <1>3 DEF ClaimBegin
  <2>2. ReclaimOnTouch(k) \/ UNCHANGED queueVars
    BY <1>3 DEF ClaimBegin
  <2>3. ASSUME ReclaimOnTouch(k)
        PROVE  SourceInv'
    BY <1>1, <2>1, <2>3, HandlerSources DEF Phases
  <2>. QED
    BY <1>2, <2>1, <2>2, <2>3
<1>4. ASSUME ClaimCommit(r)
      PROVE  SourceInv'
  <2>1. UNCHANGED <<gh, deliveries, pushed, accepted, concluded>>
    BY <1>4 DEF ClaimCommit
  <2>2. \/ ClaimLease(k, r, runs[r].revision, r, runs[r].attempt)
        \/ ClaimTerminal(k, r, runs[r].revision, r) /\ gh[k].state = "withdrawn"
        \/ UNCHANGED queueVars
    BY <1>4 DEF ClaimCommit, ClaimAgain
  <2>3. ASSUME \/ ClaimLease(k, r, runs[r].revision, r, runs[r].attempt)
               \/ ClaimTerminal(k, r, runs[r].revision, r) /\ gh[k].state = "withdrawn"
        PROVE  SourceInv'
    BY <1>1, <2>1, <2>3, HandlerSources DEF Phases
  <2>. QED
    BY <1>2, <2>1, <2>2, <2>3
<1>5. ASSUME NEW phase \in Phases, Beat(r, phase)
      PROVE  SourceInv'
  <2>1. UNCHANGED <<gh, deliveries, pushed, accepted, concluded>>
    BY <1>5 DEF Beat
  <2>2. \/ Heartbeat(k, r, runs[r].revision, r, runs[r].attempt, runs[r].generation,
                     runs[r].head, phase)
        \/ HeartbeatSuperseded(k, r, runs[r].revision, r, runs[r].attempt,
                               runs[r].generation, runs[r].head, phase)
    BY <1>5 DEF Beat
  <2>. QED
    BY <1>1, <2>1, <2>2, HandlerSources
<1>6. ASSUME NEW report \in Report, NEW lost \in BOOLEAN, Finish(r, report, lost)
      PROVE  SourceInv'
  <2>1. /\ ValidReport(report) /\ items' = [items EXCEPT ![k] = Finished(items[k], report)]
        /\ items[k].lease.id # NoLeaseId
        /\ UNCHANGED <<alarm, gh, deliveries, pushed, accepted>>
        /\ concluded' = IF Concludes(report) /\ Source(items[k].lease.decision) = accepted[k]
                        THEN [concluded EXCEPT ![k] = TRUE] ELSE concluded
    BY <1>6 DEF Finish, Complete, OwnsCompletion
  <2>2. Active(items[k])
    BY <1>1, <2>1, SourcesAt DEF LeaseConsistent
  <2>. QED
    BY <1>1, <2>1, <2>2, ReportSources
<1>7. ASSUME FinishRefused(r) \/ Crash(r) \/ Rerun(r) \/ ReconcileRead(r)
      PROVE  SourceInv'
  BY <1>2, <1>7 DEF FinishRefused, Crash, Rerun, ReconcileRead, history
<1>. QED
  BY <1>3, <1>4, <1>5, <1>6, <1>7

LEMMA ReconcileSources ==
  ASSUME SystemInv, SourceInv, NEW t \in terminals, ReconcileApply(t)
  PROVE  SourceInv'
<1>1. t.key \in Keys
  BY DEF SystemInv, PartiesTypeOK
<1>2. UNCHANGED <<gh, deliveries, pushed, accepted, concluded>>
  BY DEF ReconcileApply
<1>3. CASE UNCHANGED queueVars
  BY <1>2, <1>3, SourcesStand DEF queueVars
<1>4. CASE Reconcile(t.key, t.run, t.attempt, t.generation, FailureReport)
  <2>1. /\ items' = [items EXCEPT ![t.key] = Finished(items[t.key], FailureReport)]
        /\ Active(items[t.key]) /\ UNCHANGED alarm
    BY <1>4 DEF Reconcile, ReconcileMatches, Active
  <2>2. /\ FailureReport \in Report /\ ValidReport(FailureReport)
        /\ ~Concludes(FailureReport)
    BY DEF FailureReport, Report, ValidReport, Concludes
  <2>. QED
    BY <1>1, <1>2, <2>1, <2>2, ReportSources
<1>. QED
  BY <1>3, <1>4 DEF ReconcileApply

-----------------------------------------------------------------------------
(* The alarm and the clock.                                                *)

(* The alarm rewrites items without looking at the world, and stops        *)
(* looking at it.                                                          *)
LEMMA AlarmRewrites ==
  ASSUME SystemInv, SourceInv, UNCHANGED <<gh, deliveries, pushed, accepted, concluded>>,
         \A k \in Keys : SourceSound(items'[k], gh[k], pushed[k], accepted[k], concluded[k]),
         AlarmSound'
  PROVE  SourceInv'
BY DEF SourceInv, HistoryTypeOK, SourcesSound, DeliveriesSound

LEMMA HousekeepSources ==
  ASSUME SystemInv, SourceInv, NEW due \in SUBSET Keys, Housekeep(due)
  PROVE  SourceInv'
<1>1. /\ AlarmHousekeep(due) /\ UNCHANGED <<gh, deliveries, pushed, accepted, concluded>>
  BY DEF Housekeep, envVars
<1>2. ASSUME NEW k \in Keys
      PROVE  SourceSound(items'[k], gh[k], pushed[k], accepted[k], concluded[k])
  <2>1. items'[k] = IF k \in due /\ Recoverable(items[k])
                    THEN Recovered(items[k]) ELSE Reclaimed(items[k])
    BY <1>1 DEF AlarmHousekeep
  <2>2. CASE Recoverable(items[k])
    <3>1. SameWork(items[k], Recovered(items[k])) /\ Unleased(items[k], Recovered(items[k]))
      BY <2>2, SourcesAt, RecoveredWork DEF Recoverable
    <3>2. SourceSound(Recovered(items[k]), gh[k], pushed[k], accepted[k], concluded[k])
      BY <3>1, SourcesAt, WorkKept
    <3>. QED
      BY <2>1, <3>2, ReclaimSources
  <2>3. CASE ~Recoverable(items[k])
    BY <2>1, <2>3, ReclaimSources
  <2>. QED
    BY <2>2, <2>3
<1>3. AlarmSound'
  <2>1. ASSUME NEW pc \in {"idle", "preflight"}
        PROVE  LET new == [IdleAlarm EXCEPT !.pc = pc]
               IN  new.pc = pc /\ \A k \in Keys : new.probe[k].state = "none"
    BY DEF IdleAlarm, NoProbe
  <2>2. \E pc \in {"idle", "preflight"} : alarm' = [IdleAlarm EXCEPT !.pc = pc]
    BY <1>1 DEF AlarmHousekeep
  <2>. QED
    BY <2>1, <2>2 DEF AlarmSound
<1>. QED
  BY <1>1, <1>2, <1>3, AlarmRewrites

LEMMA AdmitSources ==
  ASSUME SystemInv, SourceInv, NEW admitted \in SUBSET Keys, NEW checked \in SUBSET Keys,
         Admit(admitted, checked)
  PROVE  SourceInv'
<1>1. /\ AlarmAdmit(admitted, checked)
      /\ UNCHANGED <<gh, deliveries, pushed, accepted, concluded>>
  BY DEF Admit, envVars
<1>2. \A k \in Keys : items'[k] = Reclaimed(items[k])
  BY <1>1 DEF AlarmAdmit
<1>3. \A k \in Keys : SourceSound(items'[k], gh[k], pushed[k], accepted[k], concluded[k])
  BY <1>2, ReclaimSources
<1>4. AlarmSound'
  <2>1. CASE alarm' = IdleAlarm
    BY <2>1 DEF AlarmSound, IdleAlarm
  <2>2. CASE alarm' # IdleAlarm
    <3> DEFINE rows == [k \in Keys |-> Reclaimed(items[k])]
               cand == [k \in Keys |-> IF k \in admitted \cup checked
                                       THEN rows[k].revision ELSE 0]
               parked == [k \in Keys |-> k \in checked]
    <3>1. /\ alarm' = [alarm EXCEPT !.pc = "probing", !.cand = cand, !.parked = parked]
          /\ alarm.pc = "preflight" /\ items' = rows
          /\ admitted # {} => Admissible(rows, admitted)
          /\ checked \subseteq ParkedTerminalCandidates(rows)
      BY <1>1, <2>2 DEF AlarmAdmit
    <3>2. ASSUME NEW k \in Keys, cand[k] # 0
          PROVE  rows[k].state \in {"pending", "parked"} /\ cand[k] = rows[k].revision
      BY <3>1, <3>2 DEF Admissible, ParkedTerminalCandidates
    <3>3. \A k \in Keys : items'[k].revision \in Nat
      BY SystemStep DEF SystemInv, IInv, QueueTypeOK, Item, Next, AlarmStep
    <3> HIDE DEF rows, cand, parked
    <3>4. /\ alarm'.pc = "probing" /\ alarm'.cand = cand /\ alarm'.probe = alarm.probe
      BY <3>1 DEF SystemInv, IInv, QueueTypeOK, AlarmState
    <3>5. \A k \in Keys : alarm.probe[k].state = "none"
      BY <3>1 DEF SourceInv, AlarmSound
    <3>6. ASSUME NEW k \in Keys
          PROVE  ProbeSound(rows[k], cand[k], alarm.probe[k], gh[k], pushed[k])
      BY <3>1, <3>2, <3>3, <3>5 DEF ProbeSound
    <3>. QED
      BY <1>1, <3>1, <3>4, <3>6 DEF AlarmSound
  <2>. QED
    BY <2>1, <2>2
<1>. QED
  BY <1>1, <1>3, <1>4, AlarmRewrites

(* What the alarm sees of a pull request is how it is now. *)
LEMMA ProbeSources ==
  ASSUME SystemInv, SourceInv, NEW k \in Keys, Probe(k)
  PROVE  SourceInv'
<1>1. UNCHANGED <<items, gh, deliveries, pushed, accepted, concluded>>
  BY DEF Probe, AlarmProbe, history
<1>2. PICK result \in [state : ProbeStates, head : Nat] :
        /\ AlarmProbe(k, result)
        /\ result = LiveProbe(k) \/ result.state \in {"retryable", "unavailable"}
  <2>1. LiveProbe(k) \in [state : ProbeStates, head : Nat]
    <3>1. gh[k] \in PullRequest
      BY SourcesAt
    <3>. QED
      BY <3>1 DEF LiveProbe, ProbeStates, PullRequest, NoHead
  <2>2. ASSUME NEW state \in {"retryable", "unavailable"}
        PROVE  LET result == [state |-> state, head |-> NoHead]
               IN  /\ result \in [state : ProbeStates, head : Nat]
                   /\ result.state \in {"retryable", "unavailable"}
    BY DEF ProbeStates, NoHead
  <2>. QED
    BY <2>1, <2>2 DEF Probe
<1>3. /\ alarm' = [alarm EXCEPT !.probe[k] = result]
      /\ alarm.pc = "probing"
  BY <1>2 DEF AlarmProbe
<1>4. /\ alarm'.pc = "probing" /\ alarm'.cand = alarm.cand
      /\ alarm'.probe[k] = result
      /\ \A j \in Keys \ {k} : alarm'.probe[j] = alarm.probe[j]
  BY <1>3 DEF SystemInv, IInv, QueueTypeOK, AlarmState
<1>5. ProbeSound(items[k], alarm.cand[k], result, gh[k], pushed[k])
  <2>1. /\ ProbeSound(items[k], alarm.cand[k], alarm.probe[k], gh[k], pushed[k])
        /\ SourceSound(items[k], gh[k], pushed[k], accepted[k], concluded[k])
        /\ gh[k].head \in Nat
    BY <1>3, SourcesAt DEF SourceInv, AlarmSound
  <2>2. CASE result.state \in {"retryable", "unavailable"}
    BY <2>1, <2>2 DEF ProbeSound
  <2>3. CASE result = LiveProbe(k)
    <3>1. /\ result.state = gh[k].state
          /\ gh[k].state = "open" => result.head = gh[k].head
      BY <2>3 DEF LiveProbe
    <3>. QED
      BY <2>1, <3>1 DEF ProbeSound, SourceSound, Behind
  <2>. QED
    BY <1>2, <2>2, <2>3
<1>6. AlarmSound'
  <2>1. SUFFICES ASSUME NEW j \in Keys
                 PROVE  ProbeSound(items[j], alarm.cand[j], alarm'.probe[j], gh[j], pushed[j])
    BY <1>1, <1>4 DEF AlarmSound
  <2>. QED
    BY <1>3, <1>4, <1>5 DEF SourceInv, AlarmSound
<1>. QED
  BY <1>1, <1>6 DEF SourceInv, HistoryTypeOK, SourcesSound, DeliveriesSound

(* What the alarm commits rests on what its probes saw. *)
LEMMA CommitSources ==
  ASSUME SystemInv, SourceInv, NEW global \in BOOLEAN, CommitAlarm(global)
  PROVE  SourceInv'
<1>1. /\ AlarmCommit(global) /\ UNCHANGED <<gh, deliveries, pushed, accepted, concluded>>
  BY DEF CommitAlarm, envVars
<1>2. /\ alarm.pc = "probing"
      /\ \A k \in Keys : \/ /\ k \in Dispatchable(global)
                            /\ \E id \in Nat : items'[k] = DispatchLease(items[k], id)
                         \/ items'[k] = Checked(k, global)
  <2> DEFINE chosen == Dispatchable(global)
  <2>1. PICK ids \in [chosen -> (leaseSeq + 1)..(leaseSeq + Cardinality(chosen))] :
          items' = [k \in Keys |-> IF k \in chosen THEN DispatchLease(items[k], ids[k])
                                   ELSE Checked(k, global)]
    BY <1>1 DEF AlarmCommit
  <2>2. \A k \in chosen : ids[k] \in Nat
    <3>1. leaseSeq \in Nat
      BY DEF SystemInv, IInv, QueueTypeOK
    <3>. QED
      BY <2>1, <3>1
  <2>. QED
    BY <1>1, <2>1, <2>2 DEF AlarmCommit
<1>3. ASSUME NEW k \in Keys
      PROVE  SourceSound(items'[k], gh[k], pushed[k], accepted[k], concluded[k])
  <2> DEFINE item == items[k]
             probe == alarm.probe[k]
  <2>1. /\ item \in Item /\ LeaseConsistent(item, leaseSeq) /\ gh[k].head \in Nat
        /\ item.decision.head \in Nat /\ pushed[k] \in Nat /\ probe.head \in Nat
        /\ SourceSound(item, gh[k], pushed[k], accepted[k], concluded[k])
        /\ ProbeSound(item, alarm.cand[k], probe, gh[k], pushed[k])
    BY <1>2, SourcesAt DEF SourceInv, AlarmSound, SystemInv, IInv, QueueTypeOK, AlarmState
  <2>2. StillCandidate(k) => item.state \in {"pending", "parked"}
    BY DEF StillCandidate
  <2>3. StillCandidate(k) /\ probe.state = "open" =>
          /\ probe.head <= gh[k].head /\ item.decision.head <= probe.head
          /\ pushed[k] <= probe.head
    BY <2>1 DEF StillCandidate, ProbeSound
  <2>4. StillCandidate(k) /\ probe.state \in {"closed", "withdrawn"} => gh[k].state # "open"
    BY <2>1 DEF StillCandidate, ProbeSound
  <2>5. StillCandidate(k) /\ StaleLiveHead(item, probe) =>
          item.decision.head < gh[k].head /\ item.decision.head # NoHead
    BY <2>1, <2>3 DEF StaleLiveHead
  <2>6. StillCandidate(k) /\ StaleLiveHead(item, probe) =>
          (Carries(item, accepted[k]) => MovedPast(gh[k], accepted[k]))
    BY <2>1, <2>5 DEF Carries, Source, MovedPast
  <2>7. CASE k \in Dispatchable(global)
             /\ \E id \in Nat : items'[k] = DispatchLease(item, id)
    <3>1. PICK id \in Nat : items'[k] = DispatchLease(item, id)
      BY <2>7
    <3> DEFINE new == DispatchLease(item, id)
    <3>2. /\ new.state = "dispatching" /\ SameWork(item, new)
          /\ new.lease.decision = item.decision /\ new.lease.revision = item.revision
      BY <2>1, DispatchedWork
    <3> HIDE DEF new
    <3>3. /\ StillCandidate(k)
          /\ \/ probe.state = "open" /\ ~StaleLiveHead(item, probe)
             \/ probe.state = "closed" /\ HasCommandContext(item.decision)
      BY <2>7 DEF Dispatchable
    <3>4. Owes(new, gh[k], accepted[k], concluded[k])
      BY <2>1, <3>2 DEF SourceSound, SameWork, Owes, Carries
    <3>5. /\ Behind(new, gh[k], pushed[k], accepted[k]) /\ OneShotSourceless(new)
          /\ Snapshot(new)
      BY <2>1, <3>2 DEF SourceSound, SameWork, Behind, OneShotSourceless, Snapshot
    <3>6. Current(new, gh[k], pushed[k])
      <4>1. CASE probe.state = "open" /\ ~StaleLiveHead(item, probe)
        <5>1. item.decision.head \in {NoHead, probe.head}
          BY <4>1 DEF StaleLiveHead
        <5>2. pushed[k] <= probe.head
          BY <2>3, <3>3, <4>1
        <5>. QED
          BY <2>1, <3>2, <5>1, <5>2 DEF Current
      <4>2. CASE probe.state = "closed" /\ HasCommandContext(item.decision)
        BY <2>4, <3>2, <3>3, <4>2 DEF Current
      <4>. QED
        BY <3>3, <4>1, <4>2
    <3>7. SourceSound(new, gh[k], pushed[k], accepted[k], concluded[k])
      BY <3>4, <3>5, <3>6 DEF SourceSound
    <3>. QED
      BY <3>1, <3>7 DEF new
  <2>8. CASE items'[k] = Checked(k, global)
    <3>1. CASE Checked(k, global) = item
      BY <2>1, <2>8, <3>1
    <3>2. CASE /\ Checked(k, global) = Absent /\ StillCandidate(k)
               /\ \/ probe.state \in {"withdrawn", "closed"}
                  \/ StaleLiveHead(item, probe)
      <4>1. Carries(item, accepted[k]) => MovedPast(gh[k], accepted[k])
        BY <2>4, <2>6, <3>2 DEF MovedPast
      <4>2. SourceSound(Absent, gh[k], pushed[k], accepted[k], concluded[k])
        BY <2>1, <4>1, WorkDropped
      <4>. QED
        BY <2>8, <3>2, <4>2
    <3>3. CASE /\ Checked(k, global) = AdvancedToLiveHead(item, probe.head)
               /\ StillCandidate(k) /\ StaleLiveHead(item, probe)
               /\ HasCommandContext(item.decision)
      <4> DEFINE new == AdvancedToLiveHead(item, probe.head)
      <4>1. /\ new.state = item.state /\ new.decision.head = probe.head
            /\ new.decision.action = item.decision.action
        BY <2>1, AdvancedWork
      <4> HIDE DEF new
      <4>2. ~Active(new)
        BY <2>2, <3>3, <4>1 DEF Active
      <4>3. Owes(new, gh[k], accepted[k], concluded[k])
        BY <2>1, <2>6, <3>3 DEF SourceSound, Owes
      <4>4. OneShotSourceless(new)
        BY <2>1, <3>3, <4>1 DEF SourceSound, OneShotSourceless, isLowPriority,
                                HasCommandContext
      <4>5. probe.head <= gh[k].head
        BY <2>3, <3>3 DEF StaleLiveHead
      <4>6. Behind(new, gh[k], pushed[k], accepted[k])
        BY <2>1, <4>1, <4>5 DEF SourceSound, Behind
      <4>7. SourceSound(new, gh[k], pushed[k], accepted[k], concluded[k])
        BY <4>2, <4>3, <4>4, <4>6 DEF SourceSound, Snapshot, Current
      <4>. QED
        BY <2>8, <3>3, <4>7 DEF new
    <3>4. CASE Checked(k, global) = FailedOnce(item) /\ item.state = "pending"
      <4>1. SameWork(item, FailedOnce(item)) /\ Unleased(item, FailedOnce(item))
        BY <2>1, <3>4, FailedOnceWork
      <4>2. SourceSound(FailedOnce(item), gh[k], pushed[k], accepted[k], concluded[k])
        BY <2>1, <4>1, WorkKept
      <4>. QED
        BY <2>8, <3>4, <4>2
    <3>. QED
      BY <3>1, <3>2, <3>3, <3>4, CheckedWork
  <2>. QED
    BY <1>2, <2>7, <2>8
<1>4. AlarmSound'
  <2>1. alarm'.pc \in {"idle", "dispatching"}
    <3>1. CASE alarm' = IdleAlarm
      BY <3>1 DEF IdleAlarm
    <3>2. ASSUME NEW result, NEW lease,
                 alarm' = [alarm EXCEPT !.pc = "dispatching",
                                        !.result = result, !.lease = lease]
          PROVE  alarm'.pc = "dispatching"
      BY <3>2 DEF SystemInv, IInv, QueueTypeOK, AlarmState
    <3>3. \/ alarm' = IdleAlarm
          \/ \E result, lease : alarm' = [alarm EXCEPT !.pc = "dispatching",
                                                       !.result = result, !.lease = lease]
      BY <1>1 DEF AlarmCommit
    <3>. QED
      BY <3>1, <3>2, <3>3
  <2>. QED
    BY <2>1 DEF AlarmSound
<1>. QED
  BY <1>1, <1>3, <1>4, AlarmRewrites

LEMMA MergeSources ==
  ASSUME SystemInv, SourceInv, MergeDispatch
  PROVE  SourceInv'
<1>1. AlarmMerge /\ UNCHANGED <<gh, deliveries, pushed, accepted, concluded>>
  BY DEF MergeDispatch, envVars
<1>2. ASSUME NEW k \in Keys
      PROVE  SourceSound(items'[k], gh[k], pushed[k], accepted[k], concluded[k])
  <2> DEFINE item == items[k]
  <2>1. /\ item \in Item
        /\ SourceSound(item, gh[k], pushed[k], accepted[k], concluded[k])
    BY SourcesAt
  <2>2. CASE items'[k] = item
    BY <2>1, <2>2
  <2>3. ASSUME NEW state \in {"parked", "pending"}, item.state = "dispatching",
               items'[k] = [Requeued(item) EXCEPT !.state = state]
        PROVE  SourceSound(items'[k], gh[k], pushed[k], accepted[k], concluded[k])
    <3>1. /\ Requeued(item) \in Item /\ SameWork(item, Requeued(item))
          /\ Requeued(item).lease = NoLease
      BY <2>1, RequeuedItem DEF SameWork
    <3>2. SameWork(item, items'[k]) /\ Unleased(item, items'[k])
      BY <2>3, <3>1 DEF SameWork, Unleased, Item
    <3>. QED
      BY <2>1, <3>2, WorkKept
  <2>4. \/ items'[k] = item
        \/ /\ item.state = "dispatching"
           /\ \E state \in {"parked", "pending"} :
                items'[k] = [Requeued(item) EXCEPT !.state = state]
    BY <1>1 DEF AlarmMerge, OwnsDispatchFailure
  <2>. QED
    BY <2>2, <2>3, <2>4
<1>3. AlarmSound'
  BY <1>1 DEF AlarmMerge, AlarmSound, IdleAlarm
<1>. QED
  BY <1>1, <1>2, <1>3, AlarmRewrites

LEMMA AlarmSources ==
  ASSUME SystemInv, SourceInv, AlarmStep
  PROVE  SourceInv'
<1>1. ASSUME NEW k \in Keys, Dispatch(k)
      PROVE  SourceInv'
  <2>1. UNCHANGED <<items, gh, deliveries, pushed, accepted, concluded>>
    BY <1>1 DEF Dispatch, AlarmDispatch, history
  <2>2. UNCHANGED alarm.pc /\ alarm.pc = "dispatching"
    <3>1. \E result : /\ alarm.pc = "dispatching"
                      /\ alarm' = [alarm EXCEPT !.result = result]
      BY <1>1 DEF Dispatch, AlarmDispatch
    <3>. QED
      BY <3>1 DEF SystemInv, IInv, QueueTypeOK, AlarmState
  <2>. QED
    BY <2>1, <2>2, SourcesStand
<1>2. ASSUME NEW k \in Keys, Timeout(k)
      PROVE  SourceInv'
  <2>1. Expire(k) /\ UNCHANGED <<gh, deliveries, pushed, accepted, concluded>>
    BY <1>2 DEF Timeout
  <2>. QED
    BY <2>1, HandlerSources DEF Phases
<1>. QED
  BY <1>1, <1>2, HousekeepSources, AdmitSources, ProbeSources, CommitSources, MergeSources
     DEF AlarmStep

-----------------------------------------------------------------------------
(* The theorems.                                                           *)

LEMMA SourcesInitially == Init => SourceInv
<1> SUFFICES ASSUME Init PROVE SourceInv
  OBVIOUS
<1>1. HistoryTypeOK
  BY DEF Init, HistoryTypeOK, NoSource, NoHead
<1>2. ASSUME NEW k \in Keys
      PROVE  SourceSound(items[k], gh[k], pushed[k], accepted[k], concluded[k])
  <2>1. /\ items[k].state = "absent" /\ items[k].decision.head = 0
        /\ items[k].decision.action = "scheduled" /\ gh[k].head = 1
        /\ pushed[k] = 0 /\ accepted[k] = NoSource /\ NoSource[1] = 0
    BY DEF Init, QueueInit, Absent, NoDecision, NoHead, NoSource
  <2>. QED
    BY <2>1 DEF SourceSound, Owes, Behind, OneShotSourceless, isLowPriority, Snapshot,
                Current, Active
<1>3. DeliveriesSound /\ AlarmSound
  BY DEF Init, QueueInit, DeliveriesSound, AlarmSound, IdleAlarm
<1>. QED
  BY <1>1, <1>2, <1>3 DEF SourceInv, SourcesSound

LEMMA SourcesStep == SystemInv /\ SourceInv /\ [Next]_vars => SourceInv'
<1> SUFFICES ASSUME SystemInv, SourceInv, [Next]_vars PROVE SourceInv'
  OBVIOUS
<1>1. CASE UNCHANGED vars
  BY <1>1, SourcesStand DEF vars, queueVars, envVars, history
<1>2. ASSUME RunStep PROVE SourceInv'
  BY <1>2, RunSources DEF RunStep
<1>. QED
  BY <1>1, <1>2, GitHubSources, IngressSources, AlarmSources, ReconcileSources DEF Next

(* No accepted webhook source is lost: until a review of it has concluded, *)
(* or the pull request has moved past it or ended, its item carries it,    *)
(* however enqueues, completions, timeouts and alarms interleave.          *)
THEOREM WorkIsKept == Spec => []NoLostWork
<1>1. SourceInv => NoLostWork
  BY DEF SourceInv, SourcesSound, SourceSound, Owes, Carries, Source, MovedPast, NoLostWork
<1>. QED
  BY <1>1, SystemInitially, SystemStep, SourcesInitially, SourcesStep, PTL DEF Spec

(* Once a superseding event is accepted no lease reviews an older head,    *)
(* except in a status write or to answer a command on a closed target.     *)
THEOREM LeasesAreCurrent == Spec => []LeaseIsCurrent
<1>1. SourceInv => LeaseIsCurrent
  BY DEF SourceInv, SourcesSound, SourceSound, Current, LeaseIsCurrent
<1>. QED
  BY <1>1, SystemInitially, SystemStep, SourcesInitially, SourcesStep, PTL DEF Spec

-----------------------------------------------------------------------------
(* Claims: who holds a lease, and who is told that it was superseded.      *)

(* A lease is claimed by the run that was dispatched for it. *)
Owners == \A k \in Keys : items[k].lease.run \in {NoRun, items[k].lease.id}

(* An audit row is of a lease that no item holds any more. *)
Closed == \A a \in audits :
  /\ a.run \in {NoRun, a.lease} /\ a.lease # NoLeaseId /\ a.lease <= leaseSeq
  /\ \A k \in Keys : items[k].lease.id # a.lease

(* Does the audit row name this claim? *)
Names(a, r, row) == a.run = r /\ a.attempt = row.attempt /\ a.generation = row.generation

(* Every claim that an audit row names is fenced, while its run works. *)
Told == \A a \in audits, r \in Runs :
  runs[r].pc = "reviewing" /\ Names(a, r, runs[r]) => Claimant(r) \in fenced

ClaimInv == Owners /\ Closed /\ Told

(* What an item's claim may come to in a step that is no claim. *)
SameClaimant(old, new) == new.lease.id = old.lease.id /\ SameClaim(old, new)

Lapsed(old) == old.lease.run = NoRun \/ old.lease.expired

(* The claim stays as it is, or lapses. *)
Lapses(old, new) ==
  SameClaimant(old, new) \/ (new.lease.run = NoRun /\ Lapsed(old))

(* The claim stays as it is, or is given up. *)
GivesUp(old, new) == SameClaimant(old, new) \/ new.lease.run = NoRun

LEMMA SystemMoves ==
  ASSUME SystemInv, [Next]_vars
  PROVE  SystemInv' /\ LeasesMove
<1>1. IInv
  BY DEF SystemInv
<1>. QED
  BY <1>1, SystemStep, QueueStep

(* Items that give a lease up, or never had one. *)
LEMMA UnleasedLapses ==
  ASSUME NEW old, NEW new, NEW seq, LeaseConsistent(old, seq),
         Unleased(old, new) \/ new = Absent
  PROVE  /\ new.lease.run = NoRun \/ SameClaimant(old, new)
         /\ ~Active(old) => Lapses(old, new)
<1>1. NoLease.run = NoRun /\ Absent.lease.run = NoRun
  BY DEF NoLease, Absent
<1>2. ~Active(old) => old.lease.run = NoRun
  BY DEF LeaseConsistent, Active
<1>. QED
  BY <1>1, <1>2 DEF Unleased, Lapses, Lapsed, SameClaimant, SameClaim

LEMMA ReclaimedLapses ==
  ASSUME NEW item \in Item, NEW seq, LeaseConsistent(item, seq)
  PROVE  Lapses(item, Reclaimed(item))
<1>1. Absent.lease.run = NoRun /\ NoLease.run = NoRun
  BY DEF Absent, NoLease
<1>2. Active(item) /\ ~Live(item) => item.lease.expired
  BY DEF LeaseConsistent, Live
<1>3. Active(item) => item.state \notin Inactive
  BY DEF Active, Inactive
<1>. QED
  BY <1>1, <1>2, <1>3, ReclaimedWork
     DEF Lapses, Lapsed, SameClaimant, SameClaim, Unleased

(* The alarm and the clock take no claim that has not lapsed. *)
LEMMA AlarmLapses ==
  ASSUME SystemInv, AlarmStep, NEW k \in Keys
  PROVE  Lapses(items[k], items'[k]) /\ UNCHANGED audits
<1> DEFINE item == items[k]
<1>1. item \in Item /\ LeaseConsistent(item, leaseSeq) /\ items \in [Keys -> Item]
  BY Lookup DEF SystemInv, IInv, QueueTypeOK
<1>2. Lapses(item, item)
  BY DEF Lapses, SameClaimant, SameClaim
<1>3. ASSUME NEW due \in SUBSET Keys, Housekeep(due)
      PROVE  Lapses(item, items'[k]) /\ UNCHANGED audits
  <2>1. AlarmHousekeep(due)
    BY <1>3 DEF Housekeep
  <2>2. /\ UNCHANGED audits
        /\ \/ items'[k] = Recovered(item) /\ Recoverable(item)
           \/ items'[k] = Reclaimed(item)
    BY <2>1 DEF AlarmHousekeep
  <2>3. ASSUME Recoverable(item)
        PROVE  Lapses(item, Recovered(item))
    <3>1. item.state = "parked"
      BY <2>3 DEF Recoverable
    <3>2. Unleased(item, Recovered(item))
      BY <1>1, <3>1, RecoveredWork
    <3>. QED
      BY <1>1, <3>1, <3>2, UnleasedLapses DEF Active
  <2>. QED
    BY <1>1, <2>2, <2>3, ReclaimedLapses
<1>4. ASSUME NEW admitted \in SUBSET Keys, NEW checked \in SUBSET Keys,
             Admit(admitted, checked)
      PROVE  Lapses(item, items'[k]) /\ UNCHANGED audits
  <2>1. UNCHANGED audits /\ items'[k] = Reclaimed(item)
    BY <1>4 DEF Admit, AlarmAdmit
  <2>. QED
    BY <1>1, <2>1, ReclaimedLapses
<1>5. ASSUME NEW j \in Keys, Probe(j) \/ Dispatch(j)
      PROVE  Lapses(item, items'[k]) /\ UNCHANGED audits
  <2>1. UNCHANGED <<items, audits>>
    BY <1>5 DEF Probe, AlarmProbe, Dispatch, AlarmDispatch
  <2>. QED
    BY <1>2, <2>1
<1>6. ASSUME NEW j \in Keys, Timeout(j)
      PROVE  Lapses(item, items'[k]) /\ UNCHANGED audits
  <2>1. UNCHANGED audits /\ items' = [items EXCEPT ![j].lease.expired = TRUE]
    BY <1>6 DEF Timeout, Expire
  <2>2. CASE j # k
    BY <1>1, <1>2, <2>1, <2>2
  <2>3. CASE j = k
    <3> DEFINE new == [item EXCEPT !.lease.expired = TRUE]
    <3>1. items'[k] = new
      BY <1>1, <2>1, <2>3
    <3>2. SameLease(item, new) /\ SameClaim(item, new)
      BY <1>1, ExpiredWork
    <3> HIDE DEF new
    <3>. QED
      BY <2>1, <3>1, <3>2 DEF Lapses, SameClaimant, SameLease
  <2>. QED
    BY <2>2, <2>3
<1>7. ASSUME NEW global \in BOOLEAN, CommitAlarm(global)
      PROVE  Lapses(item, items'[k]) /\ UNCHANGED audits
  <2>1. AlarmCommit(global) /\ leaseSeq \in Nat /\ alarm.probe[k].head \in Nat
    BY <1>7 DEF CommitAlarm, SystemInv, IInv, QueueTypeOK, AlarmState
  <2>2. /\ UNCHANGED audits
        /\ \/ /\ k \in Dispatchable(global)
              /\ \E id \in Nat : items'[k] = DispatchLease(item, id)
           \/ items'[k] = Checked(k, global)
    <3> DEFINE chosen == Dispatchable(global)
    <3>1. PICK ids \in [chosen -> (leaseSeq + 1)..(leaseSeq + Cardinality(chosen))] :
            items' = [j \in Keys |-> IF j \in chosen THEN DispatchLease(items[j], ids[j])
                                     ELSE Checked(j, global)]
      BY <2>1 DEF AlarmCommit
    <3>2. \A j \in chosen : ids[j] \in Nat
      BY <2>1, <3>1
    <3>. QED
      BY <2>1, <3>1, <3>2 DEF AlarmCommit
  <2>3. StillCandidate(k) => item.state \in {"pending", "parked"}
    BY DEF StillCandidate
  <2>4. StillCandidate(k) => ~Active(item) /\ Lapsed(item)
    BY <1>1, <2>3 DEF LeaseConsistent, Active, Lapsed
  <2>5. ASSUME NEW id \in Nat, k \in Dispatchable(global)
        PROVE  Lapses(item, DispatchLease(item, id))
    <3>1. DispatchLease(item, id).lease.run = NoRun
      BY <1>1, DispatchedWork
    <3>. QED
      BY <2>4, <2>5, <3>1 DEF Dispatchable, Lapses
  <2>6. Lapses(item, Checked(k, global))
    <3>1. CASE Checked(k, global) = item
      BY <1>2, <3>1
    <3>2. CASE Checked(k, global) = Absent /\ StillCandidate(k)
      BY <1>1, <2>4, <3>2, UnleasedLapses
    <3>3. CASE Checked(k, global) = AdvancedToLiveHead(item, alarm.probe[k].head)
      <4>1. AdvancedToLiveHead(item, alarm.probe[k].head).lease = item.lease
        BY <1>1, <2>1, AdvancedWork
      <4>. QED
        BY <3>3, <4>1 DEF Lapses, SameClaimant, SameClaim
    <3>4. CASE Checked(k, global) = FailedOnce(item) /\ item.state = "pending"
      <4>1. Unleased(item, FailedOnce(item)) /\ ~Active(item)
        BY <1>1, <3>4, FailedOnceWork DEF Active
      <4>. QED
        BY <1>1, <3>4, <4>1, UnleasedLapses
    <3>. QED
      BY <3>1, <3>2, <3>3, <3>4, CheckedWork
  <2>. QED
    BY <2>2, <2>5, <2>6
<1>8. CASE MergeDispatch
  <2>1. /\ UNCHANGED audits
        /\ \/ items'[k] = item
           \/ /\ item.lease.run = NoRun
              /\ \E state : items'[k] = [Requeued(item) EXCEPT !.state = state]
    BY <1>8 DEF MergeDispatch, AlarmMerge, OwnsDispatchFailure
  <2>2. Requeued(item) \in Item /\ Requeued(item).lease.run = NoRun
    BY <1>1, RequeuedItem DEF NoLease
  <2>3. ASSUME NEW state
        PROVE  [Requeued(item) EXCEPT !.state = state].lease.run = NoRun
    BY <2>2 DEF Item
  <2>. QED
    BY <1>2, <2>1, <2>3 DEF Lapses, Lapsed
<1>. QED
  BY <1>3, <1>4, <1>5, <1>6, <1>7, <1>8 DEF AlarmStep

(* An enqueue takes a claim only from a source that supersedes it, and     *)
(* then it audits that.                                                    *)
LEMMA EnqueueLapses ==
  ASSUME SystemInv, NEW k \in Keys, NEW d \in Decision, Enqueue(k, d), NEW j \in Keys
  PROVE  \/ Lapses(items[j], items'[j]) /\ UNCHANGED audits
         \/ /\ EnqueueExisting(k, d) /\ SupersedesActive(items[k], d)
            /\ items'[k].lease.run = NoRun /\ items'[k].lease.id = NoLeaseId
            /\ j # k => items'[j] = items[j]
<1>1. /\ items[j] \in Item /\ LeaseConsistent(items[j], leaseSeq)
      /\ items[k] \in Item /\ LeaseConsistent(items[k], leaseSeq) /\ items \in [Keys -> Item]
  BY Lookup DEF SystemInv, IInv, QueueTypeOK
<1>2. Lapses(items[j], items[j])
  BY DEF Lapses, SameClaimant, SameClaim
<1>3. CASE EnqueueIgnored(k, d)
  BY <1>2, <1>3 DEF EnqueueIgnored, queueVars
<1>4. CASE EnqueueNew(k, d)
  <2>1. PICK new \in Item : /\ items' = [items EXCEPT ![k] = new] /\ new.state = "pending"
                            /\ new.decision = d /\ new.lease = NoLease
    BY <1>4, EnqueueWrites
  <2>2. UNCHANGED audits /\ items[k].state = "absent"
    BY <1>4 DEF EnqueueNew
  <2>3. items[k].lease.run = NoRun /\ NoLease.run = NoRun
    BY <1>1, <2>2 DEF LeaseConsistent, NoLease
  <2>4. items'[j] = items[j] \/ (j = k /\ items'[j].lease.run = NoRun)
    BY <1>1, <2>1, <2>3
  <2>. QED
    BY <1>2, <2>2, <2>3, <2>4 DEF Lapses, Lapsed
<1>5. CASE EnqueueExisting(k, d)
  <2>1. PICK revision \in Nat : items' = [items EXCEPT ![k] = Updated(items[k], d, revision)]
    BY <1>5, EnqueueWrites
  <2>2. items'[k] = Updated(items[k], d, revision) /\ (j # k => items'[j] = items[j])
    BY <1>1, <2>1
  <2>3. CASE SupersedesActive(items[k], d)
    <3>1. /\ Requeued(items[k]).lease.run = NoRun /\ Requeued(items[k]).lease.id = NoLeaseId
      BY <1>1, RequeuedItem DEF NoLease
    <3>2. items'[k].lease.run = NoRun /\ items'[k].lease.id = NoLeaseId
      BY <1>1, <2>2, <2>3, <3>1, UpdatedFields
    <3>. QED
      BY <1>5, <2>2, <2>3, <3>2
  <2>4. CASE ~SupersedesActive(items[k], d)
    <3>1. UNCHANGED audits
      BY <1>5, <2>4 DEF EnqueueExisting
    <3>2. SameClaimant(items[k], Updated(items[k], d, revision))
      BY <1>1, <2>4, UpdatedFields DEF SameClaimant, SameClaim
    <3>. QED
      BY <1>2, <2>2, <3>1, <3>2 DEF Lapses
  <2>. QED
    BY <2>3, <2>4
<1>. QED
  BY <1>3, <1>4, <1>5 DEF Enqueue

-----------------------------------------------------------------------------
(* The audit proves what it says.                                          *)

LEMMA OwnersStay ==
  ASSUME Owners, \A k \in Keys : GivesUp(items[k], items'[k])
  PROVE  Owners'
BY DEF Owners, GivesUp, SameClaimant, SameClaim

LEMMA ClosedStays ==
  ASSUME SystemInv, SystemInv', LeasesMove, Closed, UNCHANGED audits
  PROVE  Closed'
<1>1. /\ leaseSeq \in Nat /\ leaseSeq' \in Nat /\ leaseSeq' >= leaseSeq
      /\ audits \subseteq Audit
  BY DEF SystemInv, IInv, QueueTypeOK, LeasesMove, WritesUnclaimed
<1>2. ASSUME NEW a \in audits, NEW k \in Keys
      PROVE  items'[k].lease.id # a.lease
  <2>1. /\ a.lease \in Nat /\ a.lease <= leaseSeq /\ a.lease # NoLeaseId
        /\ items[k].lease.id # a.lease
    BY <1>1 DEF Closed, Audit
  <2>2. items'[k].lease.id \in Nat
    BY DEF SystemInv, IInv, QueueTypeOK, Item, Lease
  <2>3. \/ items'[k].lease.id \in {NoLeaseId, items[k].lease.id}
        \/ items'[k].lease.id > leaseSeq
    BY DEF LeasesMove, WritesUnclaimed
  <2>. QED
    BY <1>1, <2>1, <2>2, <2>3
<1>3. ASSUME NEW a \in audits
      PROVE  a.lease <= leaseSeq'
  BY <1>1 DEF Closed, Audit
<1>. QED
  BY <1>2, <1>3 DEF Closed

(* The row of a lease that is given up in this very step. *)
LEMMA ClosedGrows ==
  ASSUME SystemInv, Owners, Closed, NEW k \in Keys, NEW prior, NEW next,
         audits' = audits \cup {SupersessionAudit(k, prior, next)},
         items[k].lease.id # NoLeaseId, items'[k].lease.id = NoLeaseId,
         \A j \in Keys \ {k} : items'[j] = items[j], UNCHANGED leaseSeq
  PROVE  Closed'
<1> DEFINE row == SupersessionAudit(k, prior, next)
<1>1. row.lease = items[k].lease.id /\ row.run = items[k].lease.run
  BY DEF SupersessionAudit
<1> HIDE DEF row
<1>2. \A j \in Keys : items'[j].lease.id # row.lease
  BY <1>1 DEF SystemInv, IInv, LeasesConsistent
<1>3. row.run \in {NoRun, row.lease} /\ row.lease # NoLeaseId /\ row.lease <= leaseSeq
  BY <1>1 DEF Owners, SystemInv, IInv, LeasesConsistent, LeaseConsistent
<1>4. ASSUME NEW a \in audits
      PROVE  \A j \in Keys : items'[j].lease.id # a.lease
  BY DEF Closed
<1>. QED
  BY <1>2, <1>3, <1>4 DEF Closed, row

(* No run begins to work, and none that works is forgotten. *)
QuietRuns == \A r \in Runs : runs'[r].pc = "reviewing" =>
  /\ runs'[r] = runs[r]
  /\ <<r, runs[r].attempt, runs[r].generation>> \in fenced =>
       <<r, runs[r].attempt, runs[r].generation>> \in fenced'

LEMMA ToldStays ==
  ASSUME Told, QuietRuns, UNCHANGED audits
  PROVE  Told'
BY DEF Told, QuietRuns, Claimant

LEMMA QuietClaims ==
  ASSUME SystemInv, SystemInv', LeasesMove, ClaimInv, UNCHANGED audits,
         \A k \in Keys : GivesUp(items[k], items'[k]), QuietRuns
  PROVE  ClaimInv'
BY OwnersStay, ClosedStays, ToldStays DEF ClaimInv

(* One item is touched. *)
LEMMA OneGivesUp ==
  ASSUME SystemInv, NEW k \in Keys, NEW STATE new, items' = [items EXCEPT ![k] = new],
         GivesUp(items[k], new)
  PROVE  \A j \in Keys : GivesUp(items[j], items'[j])
BY DEF SystemInv, IInv, QueueTypeOK, GivesUp, SameClaimant, SameClaim

LEMMA NobodyGivesUp ==
  ASSUME UNCHANGED items
  PROVE  \A j \in Keys : GivesUp(items[j], items'[j])
BY DEF GivesUp, SameClaimant, SameClaim

LEMMA StandingRuns ==
  ASSUME UNCHANGED runs, fenced \subseteq fenced'
  PROVE  QuietRuns
BY DEF QuietRuns

(* One run stops working, or was not. *)
LEMMA OneRunQuiet ==
  ASSUME SystemInv, NEW r \in Runs, NEW STATE row, runs' = [runs EXCEPT ![r] = row],
         row.pc # "reviewing", fenced \ {Claimant(r)} \subseteq fenced'
  PROVE  QuietRuns
<1>1. runs \in [Runs -> RunRow]
  BY DEF SystemInv, PartiesTypeOK
<1>2. ASSUME NEW j \in Runs, runs'[j].pc = "reviewing"
      PROVE  /\ runs'[j] = runs[j]
             /\ <<j, runs[j].attempt, runs[j].generation>> \in fenced =>
                  <<j, runs[j].attempt, runs[j].generation>> \in fenced'
  <2>1. j # r
    BY <1>1, <1>2
  <2>2. <<j, runs[j].attempt, runs[j].generation>> # Claimant(r)
    BY <2>1 DEF Claimant
  <2>. QED
    BY <1>1, <2>1, <2>2
<1>. QED
  BY <1>2 DEF QuietRuns

LEMMA IngestClaims ==
  ASSUME SystemInv, SystemInv', LeasesMove, ClaimInv, NEW i \in 1..MaxEvents, Ingest(i)
  PROVE  ClaimInv'
<1> DEFINE k == deliveries[i].key
           d == deliveries[i].decision
           item == items[k]
<1>1. k \in Keys /\ d \in Decision /\ Enqueue(k, d) /\ UNCHANGED runs
  <2>1. i \in DOMAIN deliveries /\ deliveries \in Seq(Delivery)
    BY DEF Ingest, SystemInv, PartiesTypeOK
  <2>2. deliveries[i] \in Delivery
    BY <2>1
  <2>. QED
    BY <2>2 DEF Ingest, Delivery
<1>2. fenced' = IF item.state # "absent" /\ Admits(item, d) /\ SupersedesActive(item, d)
                   /\ item.lease.run # NoRun
                THEN fenced \cup {<<item.lease.run, item.lease.attempt,
                                    item.lease.generation>>}
                ELSE fenced
  BY DEF Ingest
<1>3. fenced \subseteq fenced'
  BY <1>2
<1>4. QuietRuns
  BY <1>1, <1>3, StandingRuns
<1>5. CASE /\ UNCHANGED audits
           /\ \A j \in Keys : Lapses(items[j], items'[j])
  <2>1. \A j \in Keys : GivesUp(items[j], items'[j])
    BY <1>5 DEF Lapses, GivesUp
  <2>. QED
    BY <1>4, <1>5, <2>1, QuietClaims
<1>6. CASE /\ EnqueueExisting(k, d) /\ SupersedesActive(item, d)
           /\ items'[k].lease.run = NoRun /\ items'[k].lease.id = NoLeaseId
           /\ \A j \in Keys \ {k} : items'[j] = items[j]
  <2>1. PICK next : audits' = audits \cup {SupersessionAudit(k, item.revision, next)}
    BY <1>6 DEF EnqueueExisting
  <2>2. UNCHANGED leaseSeq /\ item.state # "absent" /\ Admits(item, d)
    BY <1>6 DEF EnqueueExisting
  <2>3. item.lease.id # NoLeaseId
    BY <1>1, <1>6 DEF SupersedesActive, SystemInv, IInv, LeasesConsistent, LeaseConsistent
  <2>4. Closed'
    BY <1>1, <1>6, <2>1, <2>2, <2>3, ClosedGrows DEF ClaimInv
  <2>5. Owners'
    <3>1. \A j \in Keys : GivesUp(items[j], items'[j])
      BY <1>6 DEF GivesUp, SameClaimant, SameClaim
    <3>. QED
      BY <3>1, OwnersStay DEF ClaimInv
  <2>6. Told'
    <3>1. SUFFICES ASSUME NEW a \in audits', NEW r \in Runs, runs[r].pc = "reviewing",
                          Names(a, r, runs[r])
                   PROVE  <<r, runs[r].attempt, runs[r].generation>> \in fenced'
      BY <1>1 DEF Told, Claimant
    <3>2. CASE a \in audits
      BY <1>3, <3>1, <3>2 DEF ClaimInv, Told, Claimant
    <3>3. CASE a = SupersessionAudit(k, item.revision, next)
      <4>1. /\ item.lease.run = r /\ item.lease.attempt = runs[r].attempt
            /\ item.lease.generation = runs[r].generation
        BY <3>1, <3>3 DEF SupersessionAudit, Names
      <4>2. r # NoRun
        BY RunsAreNumbers
      <4>. QED
        BY <1>2, <1>6, <2>2, <4>1, <4>2
    <3>. QED
      BY <2>1, <3>2, <3>3
  <2>. QED
    BY <2>4, <2>5, <2>6 DEF ClaimInv
<1>7. \/ /\ UNCHANGED audits
         /\ \A j \in Keys : Lapses(items[j], items'[j])
      \/ /\ EnqueueExisting(k, d) /\ SupersedesActive(item, d)
         /\ items'[k].lease.run = NoRun /\ items'[k].lease.id = NoLeaseId
         /\ \A j \in Keys \ {k} : items'[j] = items[j]
  <2> DEFINE Super == /\ EnqueueExisting(k, d) /\ SupersedesActive(item, d)
                      /\ items'[k].lease.run = NoRun /\ items'[k].lease.id = NoLeaseId
  <2>1. \A j \in Keys : \/ Lapses(items[j], items'[j]) /\ UNCHANGED audits
                        \/ Super /\ (j # k => items'[j] = items[j])
    BY <1>1, EnqueueLapses
  <2> HIDE DEF Super
  <2>2. CASE ~Super
    BY <1>1, <2>1, <2>2
  <2>3. CASE Super
    <3>1. \A j \in Keys \ {k} : items'[j] = items[j]
      <4>1. PICK revision \in Nat : items' = [items EXCEPT ![k] = Updated(item, d, revision)]
        BY <1>1, <2>3, EnqueueWrites DEF Super
      <4>. QED
        BY <4>1 DEF SystemInv, IInv, QueueTypeOK
    <3>. QED
      BY <2>3, <3>1 DEF Super
  <2>. QED
    BY <2>2, <2>3
<1>. QED
  BY <1>5, <1>6, <1>7

LEMMA IngressClaims ==
  ASSUME SystemInv, SystemInv', LeasesMove, ClaimInv, IngressStep
  PROVE  ClaimInv'
<1>1. ASSUME NEW i \in 1..MaxEvents, Reserve(i) \/ VerifyHead(i)
      PROVE  ClaimInv'
  <2>1. UNCHANGED <<items, audits, runs, fenced>>
    BY <1>1 DEF Reserve, VerifyHead, queueVars, history
  <2>. QED
    BY <2>1, NobodyGivesUp, StandingRuns, QuietClaims
<1>2. ASSUME NEW k \in Keys, NEW d \in Decision, Enqueue(k, d), ~supersedesInProgress(d),
             UNCHANGED <<runs, fenced>>
      PROVE  ClaimInv'
  <2>1. ~SupersedesActive(items[k], d)
    BY <1>2 DEF SupersedesActive
  <2>2. UNCHANGED audits /\ \A j \in Keys : Lapses(items[j], items'[j])
    BY <1>2, <2>1, EnqueueLapses
  <2>3. \A j \in Keys : GivesUp(items[j], items'[j])
    BY <2>2 DEF Lapses, GivesUp
  <2>. QED
    BY <1>2, <2>2, <2>3, StandingRuns, QuietClaims
<1>3. ASSUME NEW k \in Keys, NEW m \in Markers, IssueCommand(k, m)
      PROVE  ClaimInv'
  <2> DEFINE d == [NoDecision EXCEPT !.action = "command", !.marker = m]
  <2>1. d \in Decision /\ ~supersedesInProgress(d)
    BY DEF Decision, NoDecision, Actions, NoHead, supersedesInProgress
  <2>2. Enqueue(k, d) /\ UNCHANGED <<runs, fenced>>
    BY <1>3 DEF IssueCommand
  <2>. QED
    BY <1>2, <2>1, <2>2
<1>4. ASSUME NEW k \in Keys, NEW action \in {"recovery", "scheduled"},
             IssueBackground(k, action)
      PROVE  ClaimInv'
  <2> DEFINE d == [NoDecision EXCEPT !.action = action]
  <2>1. d \in Decision /\ ~supersedesInProgress(d)
    BY DEF Decision, NoDecision, Actions, NoHead, supersedesInProgress
  <2>2. Enqueue(k, d) /\ UNCHANGED <<runs, fenced>>
    BY <1>4 DEF IssueBackground
  <2>. QED
    BY <1>2, <2>1, <2>2
<1>. QED
  BY <1>1, <1>3, <1>4, IngestClaims DEF IngressStep

(* The calls of a workflow run: the row that a superseded heartbeat writes *)
(* names a run that ends with it.                                          *)
LEMMA RunClaims ==
  ASSUME SystemInv, SystemInv', LeasesMove, ClaimInv, NEW r \in Runs
  PROVE  /\ ClaimBegin(r) \/ ClaimCommit(r) => ClaimInv'
         /\ \A phase \in Phases : Beat(r, phase) => ClaimInv'
         /\ \A report \in Report, lost \in BOOLEAN : Finish(r, report, lost) => ClaimInv'
         /\ FinishRefused(r) \/ Crash(r) \/ Rerun(r) \/ ReconcileRead(r) => ClaimInv'
<1> DEFINE k == runs[r].key
           item == items[k]
<1>1. /\ k \in Keys /\ runs[r].attempt \in Nat /\ runs[r].revision \in Nat
      /\ runs[r].generation \in Nat /\ r \in Nat \ {NoRun} /\ runs[r] \in RunRow
      /\ runs \in [Runs -> RunRow]
  BY RunCalls, RunsAreNumbers, RowWrites DEF SystemInv, PartiesTypeOK
<1>2. /\ item \in Item /\ LeaseConsistent(item, leaseSeq) /\ items \in [Keys -> Item]
  BY <1>1, Lookup DEF SystemInv, IInv, QueueTypeOK
<1>3. ASSUME NEW pc \in RunPcs \ {"reviewing"}
      PROVE  [runs[r] EXCEPT !.pc = pc].pc # "reviewing"
  BY <1>1 DEF RunRow
<1>4. EndedRun.pc # "reviewing"
  BY DEF EndedRun, NoRunRow
<1>5. ASSUME NEW STATE row, runs' = [runs EXCEPT ![r] = row], row.pc # "reviewing",
             fenced \ {Claimant(r)} \subseteq fenced', UNCHANGED audits,
             \A j \in Keys : GivesUp(items[j], items'[j])
      PROVE  ClaimInv'
  BY <1>5, OneRunQuiet, QuietClaims
<1>6. ASSUME ClaimBegin(r)
      PROVE  ClaimInv'
  <2>1. UNCHANGED <<audits, fenced>>
    BY <1>6 DEF ClaimBegin, ReclaimOnTouch, queueVars
  <2>2. \A j \in Keys : GivesUp(items[j], items'[j])
    <3>1. CASE UNCHANGED items
      BY <3>1, NobodyGivesUp
    <3>2. CASE ReclaimOnTouch(k)
      <4>1. items' = [items EXCEPT ![k] = Reclaimed(item)]
        BY <3>2 DEF ReclaimOnTouch
      <4>2. Lapses(item, Reclaimed(item))
        BY <1>2, ReclaimedLapses
      <4>3. GivesUp(item, Reclaimed(item))
        BY <4>2 DEF Lapses, GivesUp
      <4>. QED
        BY <1>1, <4>1, <4>3, OneGivesUp
    <3>. QED
      BY <1>6, <3>1, <3>2 DEF ClaimBegin, queueVars
  <2>3. \/ runs' = [runs EXCEPT ![r] = EndedRun]
        \/ runs' = [runs EXCEPT ![r] = [runs[r] EXCEPT !.pc = "admitting"]]
    BY <1>6 DEF ClaimBegin
  <2>4. [runs[r] EXCEPT !.pc = "admitting"].pc # "reviewing"
    BY <1>3 DEF RunPcs
  <2>. QED
    BY <1>4, <1>5, <2>1, <2>2, <2>3, <2>4
<1>7. ASSUME ClaimCommit(r)
      PROVE  ClaimInv'
  <2>1. UNCHANGED <<audits, fenced>>
    BY <1>7 DEF ClaimCommit, ClaimLease, ClaimAgain, ClaimTerminal, queueVars
  <2>2. [runs[r] EXCEPT !.pc = "queued"].pc # "reviewing"
    BY <1>3 DEF RunPcs
  <2>3. Closed'
    BY <2>1, ClosedStays DEF ClaimInv
  <2>4. Owners'
    <3>1. CASE UNCHANGED items
      BY <3>1, NobodyGivesUp, OwnersStay DEF ClaimInv
    <3>2. CASE ClaimTerminal(k, r, runs[r].revision, r)
      <4>1. items' = [items EXCEPT ![k] = Absent] /\ Absent.lease.run = NoRun
        BY <3>2 DEF ClaimTerminal, Absent, NoLease
      <4>. QED
        BY <1>1, <4>1, OneGivesUp, OwnersStay DEF ClaimInv, GivesUp
    <3>3. CASE ClaimLease(k, r, runs[r].revision, r, runs[r].attempt)
      <4>1. /\ items' = [items EXCEPT ![k] = items'[k]]
            /\ items'[k].lease.run = r /\ items'[k].lease.id = item.lease.id
        BY <1>1, <1>2, <3>3, ClaimLeaseWork DEF SameLease
      <4>2. item.lease.id = r
        BY <3>3 DEF ClaimLease, Claimable
      <4>3. \A j \in Keys \ {k} : items'[j] = items[j]
        BY <1>2, <4>1
      <4>. QED
        BY <4>1, <4>2, <4>3 DEF ClaimInv, Owners
    <3>. QED
      BY <1>7, <3>1, <3>2, <3>3 DEF ClaimCommit, ClaimAgain, queueVars
  <2>5. Told'
    <3>1. CASE runs' = [runs EXCEPT ![r].pc = "queued"] \/ runs' = [runs EXCEPT ![r] = EndedRun]
      BY <1>4, <2>1, <2>2, <3>1, OneRunQuiet, ToldStays DEF ClaimInv
    <3>2. CASE item.lease.id = r
      <4>1. ASSUME NEW a \in audits
            PROVE  a.run # r
        BY <1>1, <3>2 DEF ClaimInv, Closed
      <4>2. \A j \in Runs \ {r} : runs'[j] = runs[j]
        BY <1>1, <1>7 DEF ClaimCommit
      <4>. QED
        BY <2>1, <4>1, <4>2 DEF ClaimInv, Told, Names, Claimant
    <3>. QED
      BY <1>7, <3>1, <3>2 DEF ClaimCommit, ClaimLease, ClaimAgain, Claimable
  <2>. QED
    BY <2>3, <2>4, <2>5 DEF ClaimInv
<1>8. ASSUME NEW phase \in Phases, Beat(r, phase)
      PROVE  ClaimInv'
  <2>1. UNCHANGED fenced
    BY <1>8 DEF Beat
  <2>2. CASE Heartbeat(k, r, runs[r].revision, r, runs[r].attempt, runs[r].generation,
                       runs[r].head, phase) /\ UNCHANGED runs
    <3> DEFINE new == [item EXCEPT !.lease.phase = phase]
    <3>1. items' = [items EXCEPT ![k] = new] /\ UNCHANGED audits
      BY <1>2, <2>2 DEF Heartbeat
    <3>2. GivesUp(item, new)
      BY <1>2, BeatenWork DEF GivesUp, SameClaimant, SameLease
    <3> HIDE DEF new
    <3>3. \A j \in Keys : GivesUp(items[j], items'[j])
      BY <1>1, <3>1, <3>2, OneGivesUp
    <3>. QED
      BY <2>1, <2>2, <3>1, <3>3, StandingRuns, QuietClaims
  <2>3. CASE /\ HeartbeatSuperseded(k, r, runs[r].revision, r, runs[r].attempt,
                                    runs[r].generation, runs[r].head, phase)
             /\ runs' = [runs EXCEPT ![r] = EndedRun]
    <3> DEFINE prior == item.lease.revision
               next == item.revision
    <3>1. /\ audits' = audits \cup {SupersessionAudit(k, prior, next)}
          /\ items' = [items EXCEPT ![k] = Requeued(item)] /\ UNCHANGED leaseSeq
          /\ item.lease.id = r /\ item.lease.run = r
      BY <2>3 DEF HeartbeatSuperseded, OwnsHeartbeat
    <3>2. /\ items'[k] = Requeued(item) /\ Requeued(item).lease = NoLease
          /\ \A j \in Keys \ {k} : items'[j] = items[j]
      BY <1>1, <1>2, <3>1, RequeuedItem
    <3>3. NoLease.id = NoLeaseId /\ NoLease.run = NoRun /\ r # NoLeaseId
      BY <1>1 DEF NoLease, NoRun, NoLeaseId
    <3> HIDE DEF prior, next
    <3>4. Closed'
      BY <1>1, <3>1, <3>2, <3>3, ClosedGrows DEF ClaimInv
    <3>5. Owners'
      BY <1>1, <3>1, <3>2, <3>3, OneGivesUp, OwnersStay DEF ClaimInv, GivesUp
    <3>6. Told'
      <4>1. ASSUME NEW j \in Runs, runs'[j].pc = "reviewing"
            PROVE  j # r /\ runs'[j] = runs[j]
        BY <1>1, <1>4, <2>3, <4>1
      <4>2. SupersessionAudit(k, prior, next).run = r
        BY <3>1 DEF SupersessionAudit
      <4>. QED
        BY <2>1, <3>1, <4>1, <4>2 DEF ClaimInv, Told, Names, Claimant
    <3>. QED
      BY <3>4, <3>5, <3>6 DEF ClaimInv
  <2>. QED
    BY <1>8, <2>2, <2>3 DEF Beat
<1>9. ASSUME NEW report \in Report, NEW lost \in BOOLEAN, Finish(r, report, lost)
      PROVE  ClaimInv'
  <2>1. /\ items' = [items EXCEPT ![k] = Finished(item, report)] /\ ValidReport(report)
        /\ item.lease.id # NoLeaseId /\ UNCHANGED <<audits, fenced>>
        /\ \/ runs' = [runs EXCEPT ![r] = [runs[r] EXCEPT !.pc = "resending"]]
           \/ runs' = [runs EXCEPT ![r] = EndedRun]
    BY <1>9 DEF Finish, Complete, OwnsCompletion
  <2>2. GivesUp(item, Finished(item, report))
    <3>1. item.state # "absent"
      BY <1>2, <2>1 DEF LeaseConsistent, Active
    <3>2. Unleased(item, Finished(item, report)) \/ Finished(item, report) = Absent
      BY <1>2, <2>1, <3>1, FinishedWork
    <3>. QED
      BY <1>2, <3>2, UnleasedLapses DEF GivesUp
  <2>3. [runs[r] EXCEPT !.pc = "resending"].pc # "reviewing"
    BY <1>3 DEF RunPcs
  <2>4. \A j \in Keys : GivesUp(items[j], items'[j])
    BY <1>1, <2>1, <2>2, OneGivesUp
  <2>. QED
    BY <1>4, <1>5, <2>1, <2>3, <2>4
<1>10. ASSUME FinishRefused(r) \/ Crash(r) \/ Rerun(r) \/ ReconcileRead(r)
       PROVE  ClaimInv'
  <2>1. UNCHANGED <<items, audits>>
    BY <1>10 DEF FinishRefused, Crash, Rerun, ReconcileRead, queueVars
  <2>2. \A j \in Keys : GivesUp(items[j], items'[j])
    BY <2>1, NobodyGivesUp
  <2>3. CASE ReconcileRead(r)
    BY <2>1, <2>2, <2>3, StandingRuns, QuietClaims DEF ReconcileRead, history
  <2>4. CASE FinishRefused(r)
    BY <1>4, <1>5, <2>1, <2>2, <2>4 DEF FinishRefused
  <2>5. CASE Crash(r)
    <3>1. [runs[r] EXCEPT !.pc = "dead"].pc # "reviewing"
      BY <1>3 DEF RunPcs
    <3>. QED
      BY <1>5, <2>1, <2>2, <2>5, <3>1 DEF Crash
  <2>6. CASE Rerun(r)
    <3> DEFINE row == [runs[r] EXCEPT !.pc = "queued", !.attempt = @ + 1, !.generation = 0]
    <3>1. runs' = [runs EXCEPT ![r] = row] /\ UNCHANGED fenced
      BY <2>6 DEF Rerun, history
    <3>2. row.pc # "reviewing"
      BY <1>1 DEF RunRow
    <3> HIDE DEF row
    <3>. QED
      BY <1>5, <2>1, <2>2, <3>1, <3>2
  <2>. QED
    BY <1>10, <2>3, <2>4, <2>5, <2>6
<1>. QED
  BY <1>6, <1>7, <1>8, <1>9, <1>10

LEMMA ClaimsStep == SystemInv /\ ClaimInv /\ [Next]_vars => ClaimInv'
<1> SUFFICES ASSUME SystemInv, ClaimInv, [Next]_vars PROVE ClaimInv'
  OBVIOUS
<1>1. SystemInv' /\ LeasesMove
  BY SystemMoves
<1>2. CASE UNCHANGED vars
  <2>1. UNCHANGED <<items, audits, runs, fenced>>
    BY <1>2 DEF vars, queueVars, envVars, history
  <2>. QED
    BY <1>1, <2>1, NobodyGivesUp, StandingRuns, QuietClaims
<1>3. CASE GitHubStep
  <2>1. UNCHANGED <<items, audits, runs, fenced>>
    BY <1>3 DEF GitHubStep, Change, EndTarget, queueVars, history
  <2>. QED
    BY <1>1, <2>1, NobodyGivesUp, StandingRuns, QuietClaims
<1>4. CASE RunStep
  BY <1>1, <1>4, RunClaims DEF RunStep
<1>5. CASE AlarmStep
  <2>1. \A k \in Keys : Lapses(items[k], items'[k])
    BY <1>5, AlarmLapses
  <2>2. UNCHANGED audits
    BY <1>5, AlarmLapses, BoundAssumption
  <2>3. \A k \in Keys : GivesUp(items[k], items'[k])
    BY <2>1 DEF Lapses, GivesUp
  <2>4. ASSUME NEW k \in Keys, Dispatch(k)
        PROVE  QuietRuns
    <3> DEFINE row == [pc |-> "queued", key |-> k, revision |-> items[k].lease.revision,
                       head |-> items[k].lease.decision.head, attempt |-> 1, generation |-> 0]
    <3>1. /\ runs' = [runs EXCEPT ![alarm.lease[k]] = row] \/ runs' = runs
          /\ UNCHANGED fenced
      BY <2>4 DEF Dispatch, history
    <3>2. row.pc # "reviewing"
      OBVIOUS
    <3> HIDE DEF row
    <3>3. runs \in [Runs -> RunRow]
      BY DEF SystemInv, PartiesTypeOK
    <3>4. ASSUME NEW r \in Runs, runs'[r].pc = "reviewing"
          PROVE  runs'[r] = runs[r]
      BY <3>1, <3>2, <3>3, <3>4
    <3>. QED
      BY <3>1, <3>4 DEF QuietRuns
  <2>5. QuietRuns
    <3>1. CASE UNCHANGED <<runs, fenced>>
      BY <3>1, StandingRuns
    <3>. QED
      BY <1>5, <2>4, <3>1
         DEF AlarmStep, Housekeep, Admit, Probe, Timeout, CommitAlarm, MergeDispatch,
             envVars, history
  <2>. QED
    BY <1>1, <2>2, <2>3, <2>5, QuietClaims
<1>6. ASSUME NEW t \in terminals, ReconcileApply(t)
      PROVE  ClaimInv'
  <2>1. UNCHANGED <<runs, fenced, audits>> /\ t.key \in Keys
    BY <1>6 DEF ReconcileApply, Reconcile, queueVars, SystemInv, PartiesTypeOK
  <2>2. \A j \in Keys : GivesUp(items[j], items'[j])
    <3>1. CASE UNCHANGED queueVars
      BY <3>1, NobodyGivesUp DEF queueVars
    <3>2. CASE Reconcile(t.key, t.run, t.attempt, t.generation, FailureReport)
      <4> DEFINE item == items[t.key]
                 new == Finished(item, FailureReport)
      <4>1. /\ items' = [items EXCEPT ![t.key] = new] /\ item.state = "leased"
        BY <3>2 DEF Reconcile, ReconcileMatches
      <4>2. FailureReport \in Report /\ ValidReport(FailureReport)
        BY DEF FailureReport, Report, ValidReport
      <4>3. item \in Item /\ LeaseConsistent(item, leaseSeq)
        BY <2>1, Lookup DEF SystemInv
      <4>4. Unleased(item, new) \/ new = Absent
        BY <4>1, <4>2, <4>3, FinishedWork
      <4> HIDE DEF new
      <4>5. GivesUp(item, new)
        BY <4>3, <4>4, UnleasedLapses DEF GivesUp
      <4>. QED
        BY <2>1, <4>1, <4>5, OneGivesUp
    <3>. QED
      BY <1>6, <3>1, <3>2 DEF ReconcileApply
  <2>. QED
    BY <1>1, <2>1, <2>2, StandingRuns, QuietClaims
<1>. QED
  BY <1>1, <1>2, <1>3, <1>4, <1>5, <1>6, IngressClaims DEF Next

LEMMA ClaimsInitially == Init => ClaimInv
<1> SUFFICES ASSUME Init PROVE ClaimInv
  OBVIOUS
<1>1. /\ \A k \in Keys : items[k].lease.run = NoRun
      /\ audits = {}
  BY DEF Init, QueueInit, Absent, NoLease
<1>. QED
  BY <1>1 DEF ClaimInv, Owners, Closed, Told

(* Only a claimant that a newer source fenced is told lease_superseded,    *)
(* however runs, reruns, heartbeats and reconciles interleave: the audit   *)
(* never proves anything of a claim it was not written for.                *)
THEOREM OnlyFencedAreAcknowledged == Spec => []AcknowledgesOnlyFenced
<1>1. SystemInv /\ ClaimInv => AcknowledgesOnlyFenced
  BY DEF ClaimInv, Told, Names, AcknowledgesOnlyFenced, ToldSuperseded, CompletionConflict,
         ProvesSuperseded
<1>. QED
  BY <1>1, SystemInitially, SystemStep, ClaimsInitially, ClaimsStep, PTL DEF Spec

-----------------------------------------------------------------------------
(* Runs: what their rows say of the claims, and of what the reconciler has *)
(* read of them.                                                           *)

(* A claimed lease was claimed by an attempt that its run has reached; the *)
(* attempt that works under the lease's generation is the one that has it. *)
AttemptSound(lease, row) ==
  lease.run # NoRun =>
    /\ row.pc # "none"
    /\ row.pc # "ended" => lease.attempt <= row.attempt
    /\ row.pc = "reviewing" /\ row.generation = lease.generation =>
         row.attempt = lease.attempt

(* What the reconciler has read is of an attempt that is over.             *)
StopSound(t, row) ==
  \/ row.pc = "ended"
  \/ row.pc = "dead" /\ t.attempt <= row.attempt
  \/ row.pc # "none" /\ t.attempt < row.attempt

Attempts == \A k \in Keys : AttemptSound(items[k].lease, runs[items[k].lease.id])

Stopped == \A t \in terminals : StopSound(t, runs[t.run])

(* The leases that the alarm has still to dispatch have no run yet. *)
Undispatched(k) == alarm.result[k] = "todo"

Unstarted ==
  /\ \A r \in Runs : r > leaseSeq => runs[r].pc = "none"
  /\ \A k \in Keys : Undispatched(k) =>
       /\ alarm.lease[k] \in Runs /\ alarm.lease[k] <= leaseSeq
       /\ runs[alarm.lease[k]].pc = "none"
       /\ \A j \in Keys : Undispatched(j) /\ alarm.lease[j] = alarm.lease[k] => j = k

RunInv == Attempts /\ Stopped /\ Unstarted

(* How the row of a run moves when it neither starts nor claims. *)
RowMoves(old, new) ==
  \/ new = old
  \/ old.pc # "none" /\ new.pc = "ended"
  \/ /\ old.pc \notin {"none", "ended", "dead"} /\ new.attempt = old.attempt
     /\ new.pc \notin {"none", "ended", "reviewing"}
  \/ old.pc = "dead" /\ new.pc = "queued" /\ new.attempt = old.attempt + 1

LEMMA AttemptMoves ==
  ASSUME NEW lease, lease.attempt \in Nat, NEW old \in RunRow, NEW new,
         AttemptSound(lease, old), RowMoves(old, new)
  PROVE  AttemptSound(lease, new)
BY DEF AttemptSound, RowMoves, RunRow

LEMMA StopMoves ==
  ASSUME NEW t, t.attempt \in Nat, NEW old \in RunRow, NEW new,
         StopSound(t, old), RowMoves(old, new)
  PROVE  StopSound(t, new)
BY DEF StopSound, RowMoves, RunRow

(* A claimed lease has a row. *)
LEMMA ClaimedRow ==
  ASSUME SystemInv, NEW k \in Keys, items[k].lease.run # NoRun
  PROVE  items[k].lease.id \in Runs
<1>1. /\ LeaseConsistent(items[k], leaseSeq) /\ items[k] \in Item /\ leaseSeq \in Nat
      /\ leaseSeq <= MaxLeases /\ MaxLeases \in Nat
  BY Lookup, BoundAssumption DEF SystemInv, LeasesBounded
<1>2. items[k].lease.id # NoLeaseId /\ items[k].lease.id <= leaseSeq
  BY <1>1 DEF LeaseConsistent, Active
<1>. QED
  BY <1>1, <1>2 DEF Runs, Item, Lease, NoLeaseId

LEMMA QuietAttempts ==
  ASSUME SystemInv, SystemInv', Attempts,
         \A k \in Keys : GivesUp(items[k], items'[k]),
         \A r \in Runs : RowMoves(runs[r], runs'[r])
  PROVE  Attempts'
<1>1. SUFFICES ASSUME NEW k \in Keys, items'[k].lease.run # NoRun
               PROVE  AttemptSound(items'[k].lease, runs'[items'[k].lease.id])
  BY DEF Attempts, AttemptSound
<1>2. /\ items'[k].lease.id = items[k].lease.id /\ items'[k].lease.run = items[k].lease.run
      /\ items'[k].lease.attempt = items[k].lease.attempt
      /\ items'[k].lease.generation = items[k].lease.generation
  BY <1>1 DEF GivesUp, SameClaimant, SameClaim
<1>3. items[k].lease.id \in Runs
  BY <1>1, <1>2, ClaimedRow
<1>4. items[k].lease.attempt \in Nat /\ runs[items[k].lease.id] \in RunRow
  BY <1>3 DEF SystemInv, IInv, QueueTypeOK, PartiesTypeOK, Item, Lease
<1>5. AttemptSound(items[k].lease, runs'[items[k].lease.id])
  BY <1>3, <1>4, AttemptMoves DEF Attempts
<1>. QED
  BY <1>2, <1>5 DEF AttemptSound

LEMMA QuietStopped ==
  ASSUME SystemInv, Stopped, terminals' \subseteq terminals,
         \A r \in Runs : RowMoves(runs[r], runs'[r])
  PROVE  Stopped'
<1>1. ASSUME NEW t \in terminals
      PROVE  StopSound(t, runs'[t.run])
  <2>1. t.run \in Runs /\ t.attempt \in Nat /\ runs[t.run] \in RunRow
    BY DEF SystemInv, PartiesTypeOK
  <2>. QED
    BY <2>1, StopMoves DEF Stopped
<1>. QED
  BY <1>1 DEF Stopped

LEMMA QuietUnstarted ==
  ASSUME SystemInv, SystemInv', LeasesMove, Unstarted,
         \A r \in Runs : runs[r].pc = "none" => runs'[r].pc = "none",
         \A k \in Keys : Undispatched(k)' => Undispatched(k) /\ alarm'.lease[k] = alarm.lease[k]
  PROVE  Unstarted'
<1>1. leaseSeq \in Nat /\ leaseSeq' \in Nat /\ leaseSeq' >= leaseSeq /\ Runs \subseteq Nat
  BY RunsAreNumbers DEF SystemInv, IInv, QueueTypeOK, LeasesMove, WritesUnclaimed
<1>2. ASSUME NEW r \in Runs, r > leaseSeq'
      PROVE  runs'[r].pc = "none"
  BY <1>1, <1>2 DEF Unstarted
<1>3. ASSUME NEW k \in Keys, Undispatched(k)'
      PROVE  /\ alarm'.lease[k] \in Runs /\ alarm'.lease[k] <= leaseSeq'
             /\ runs'[alarm'.lease[k]].pc = "none"
             /\ \A j \in Keys : Undispatched(j)' /\ alarm'.lease[j] = alarm'.lease[k] => j = k
  <2>1. /\ alarm'.lease[k] = alarm.lease[k] /\ alarm.lease[k] \in Runs
        /\ alarm.lease[k] <= leaseSeq /\ runs[alarm.lease[k]].pc = "none"
    BY <1>3 DEF Unstarted
  <2>2. \A j \in Keys : Undispatched(j)' /\ alarm'.lease[j] = alarm'.lease[k] => j = k
    BY <1>3 DEF Unstarted
  <2>3. runs'[alarm.lease[k]].pc = "none"
    BY <2>1
  <2>4. alarm.lease[k] \in Nat
    BY <1>1, <2>1
  <2> DEFINE n == alarm.lease[k]
  <2> HIDE DEF n
  <2>5. n \in Nat /\ n <= leaseSeq => n <= leaseSeq'
    BY <1>1
  <2>6. alarm.lease[k] <= leaseSeq'
    BY <2>1, <2>4, <2>5 DEF n
  <2>. QED
    BY <2>1, <2>2, <2>3, <2>6
<1>. QED
  BY <1>2, <1>3 DEF Unstarted, Undispatched

LEMMA RowKeepsNone ==
  ASSUME \A r \in Runs : RowMoves(runs[r], runs'[r])
  PROVE  \A r \in Runs : runs[r].pc = "none" => runs'[r].pc = "none"
BY DEF RowMoves

LEMMA QuietRows ==
  ASSUME SystemInv, SystemInv', LeasesMove, RunInv,
         \A k \in Keys : GivesUp(items[k], items'[k]),
         \A r \in Runs : RowMoves(runs[r], runs'[r]), terminals' \subseteq terminals,
         \A k \in Keys : Undispatched(k)' => Undispatched(k) /\ alarm'.lease[k] = alarm.lease[k]
  PROVE  RunInv'
BY QuietAttempts, QuietStopped, RowKeepsNone, QuietUnstarted DEF RunInv

LEMMA OneRowMoves ==
  ASSUME SystemInv, NEW r \in Runs, NEW STATE row, runs' = [runs EXCEPT ![r] = row],
         RowMoves(runs[r], row)
  PROVE  \A j \in Runs : RowMoves(runs[j], runs'[j])
BY DEF SystemInv, PartiesTypeOK, RowMoves

(* A healthy run keeps its lease. *)
HolderKept ==
  \A k \in Keys :
    LET lease == items[k].lease IN
    Healthy(k) /\ lease.run # NoRun /\ items'[k].lease.id # lease.id =>
      \/ lease.expired
      \/ runs'[lease.run].pc # "reviewing"
      \/ audits' # audits

LEMMA LapsingKeepsHolders ==
  ASSUME \A k \in Keys : Lapses(items[k], items'[k])
  PROVE  HolderKept
BY DEF HolderKept, Lapses, Lapsed, SameClaimant

LEMMA HealthyHolder ==
  ASSUME SystemInv, ClaimInv, NEW k \in Keys, Healthy(k), items[k].lease.run # NoRun
  PROVE  /\ items[k].lease.id \in Runs /\ items[k].lease.run = items[k].lease.id
         /\ runs[items[k].lease.id].pc = "reviewing"
         /\ items[k].lease.generation = runs[items[k].lease.id].generation
BY DEF Healthy, ClaimInv, Owners

LEMMA LapsesGivesUp ==
  ASSUME \A k \in Keys : Lapses(items[k], items'[k])
  PROVE  \A k \in Keys : GivesUp(items[k], items'[k])
BY DEF Lapses, GivesUp

LEMMA NobodyLapses ==
  ASSUME UNCHANGED items
  PROVE  \A k \in Keys : Lapses(items[k], items'[k])
BY DEF Lapses, SameClaimant, SameClaim

LEMMA OneLapses ==
  ASSUME SystemInv, NEW k \in Keys, NEW STATE new, items' = [items EXCEPT ![k] = new],
         Lapses(items[k], new)
  PROVE  \A j \in Keys : Lapses(items[j], items'[j])
BY DEF SystemInv, IInv, QueueTypeOK, Lapses, SameClaimant, SameClaim

-----------------------------------------------------------------------------
(* Steps.                                                                  *)

(* Neither claims nor alarms. *)
LEMMA StandingRows ==
  ASSUME UNCHANGED <<runs, terminals, alarm>>
  PROVE  /\ \A r \in Runs : RowMoves(runs[r], runs'[r])
         /\ terminals' \subseteq terminals
         /\ \A k \in Keys : Undispatched(k)' => /\ Undispatched(k)
                                                /\ alarm'.lease[k] = alarm.lease[k]
BY DEF RowMoves, Undispatched

LEMMA IngressRows ==
  ASSUME SystemInv, SystemInv', LeasesMove, ClaimInv, RunInv, IngressStep
  PROVE  RunInv' /\ HolderKept
<1>1. ASSUME NEW k \in Keys, NEW d \in Decision, Enqueue(k, d), UNCHANGED <<runs, terminals>>
      PROVE  RunInv' /\ HolderKept
  <2>1. UNCHANGED alarm
    BY <1>1 DEF Enqueue, EnqueueNew, EnqueueExisting, EnqueueIgnored, queueVars
  <2> DEFINE Super == /\ EnqueueExisting(k, d) /\ SupersedesActive(items[k], d)
                      /\ items'[k].lease.run = NoRun /\ items'[k].lease.id = NoLeaseId
  <2>2. \A j \in Keys : \/ Lapses(items[j], items'[j]) /\ UNCHANGED audits
                        \/ Super /\ (j # k => items'[j] = items[j])
    BY <1>1, EnqueueLapses
  <2>3. CASE ~Super
    <3> HIDE DEF Super
    <3>1. \A j \in Keys : Lapses(items[j], items'[j])
      BY <2>2, <2>3
    <3>. QED
      BY <1>1, <2>1, <3>1, LapsesGivesUp, LapsingKeepsHolders, StandingRows, QuietRows
  <2>4. CASE Super
    <3>1. \A j \in Keys \ {k} : items'[j] = items[j]
      <4>1. PICK revision \in Nat : items' = [items EXCEPT ![k] =
                                                Updated(items[k], d, revision)]
        BY <1>1, <2>4, EnqueueWrites
      <4>. QED
        BY <4>1 DEF SystemInv, IInv, QueueTypeOK
    <3>2. \A j \in Keys : GivesUp(items[j], items'[j])
      BY <2>4, <3>1 DEF GivesUp, SameClaimant, SameClaim
    <3>3. audits' # audits
      <4>1. PICK next : audits' = audits \cup {SupersessionAudit(k, items[k].revision, next)}
        BY <2>4 DEF EnqueueExisting
      <4>2. SupersessionAudit(k, items[k].revision, next).lease = items[k].lease.id
        BY DEF SupersessionAudit
      <4>. QED
        BY <4>1, <4>2 DEF ClaimInv, Closed
    <3>. QED
      BY <1>1, <2>1, <3>2, <3>3, StandingRows, QuietRows DEF HolderKept
  <2>. QED
    BY <2>3, <2>4
<1>2. ASSUME NEW i \in 1..MaxEvents, Reserve(i) \/ VerifyHead(i)
      PROVE  RunInv' /\ HolderKept
  <2>1. UNCHANGED <<items, runs, terminals, alarm>>
    BY <1>2 DEF Reserve, VerifyHead, queueVars
  <2>. QED
    BY <2>1, NobodyLapses, LapsesGivesUp, LapsingKeepsHolders, StandingRows, QuietRows
<1>3. ASSUME NEW i \in 1..MaxEvents, Ingest(i)
      PROVE  RunInv' /\ HolderKept
  <2>1. i \in DOMAIN deliveries /\ deliveries \in Seq(Delivery)
    BY <1>3 DEF Ingest, SystemInv, PartiesTypeOK
  <2>2. deliveries[i] \in Delivery
    BY <2>1
  <2>3. deliveries[i].key \in Keys /\ deliveries[i].decision \in Decision
    BY <2>2 DEF Delivery
  <2>. QED
    BY <1>1, <1>3, <2>3 DEF Ingest
<1>4. ASSUME NEW k \in Keys, NEW m \in Markers, IssueCommand(k, m)
      PROVE  RunInv' /\ HolderKept
  <2>1. [NoDecision EXCEPT !.action = "command", !.marker = m] \in Decision
    BY EmptyRecords DEF Decision, Actions
  <2>. QED
    BY <1>1, <1>4, <2>1 DEF IssueCommand
<1>5. ASSUME NEW k \in Keys, NEW action \in {"recovery", "scheduled"},
             IssueBackground(k, action)
      PROVE  RunInv' /\ HolderKept
  <2>1. [NoDecision EXCEPT !.action = action] \in Decision
    BY EmptyRecords DEF Decision, Actions
  <2>. QED
    BY <1>1, <1>5, <2>1 DEF IssueBackground
<1>. QED
  BY <1>2, <1>3, <1>4, <1>5 DEF IngressStep

(* The reconciler's report never reaches an attempt that works. *)
LEMMA ReconcileRows ==
  ASSUME SystemInv, SystemInv', LeasesMove, ClaimInv, RunInv, NEW t \in terminals,
         ReconcileApply(t)
  PROVE  RunInv' /\ HolderKept
<1> DEFINE k == t.key
           item == items[k]
           new == Finished(item, FailureReport)
<1>1. /\ k \in Keys /\ t.run \in Runs /\ t.attempt \in Nat
      /\ terminals' \subseteq terminals /\ UNCHANGED <<runs, alarm>>
  BY DEF ReconcileApply, Reconcile, queueVars, SystemInv, PartiesTypeOK
<1>2. /\ \A r \in Runs : RowMoves(runs[r], runs'[r])
      /\ \A j \in Keys : Undispatched(j)' => /\ Undispatched(j)
                                             /\ alarm'.lease[j] = alarm.lease[j]
  BY <1>1 DEF RowMoves, Undispatched
<1>3. CASE UNCHANGED queueVars
  BY <1>1, <1>2, <1>3, NobodyLapses, LapsesGivesUp, LapsingKeepsHolders, QuietRows
     DEF queueVars
<1>4. CASE Reconcile(k, t.run, t.attempt, t.generation, FailureReport)
  <2>1. /\ items' = [items EXCEPT ![k] = new] /\ item.state = "leased"
        /\ item.lease.run = t.run /\ item.lease.attempt = t.attempt
    BY <1>4 DEF Reconcile, ReconcileMatches
  <2>2. FailureReport \in Report /\ ValidReport(FailureReport)
    BY DEF FailureReport, Report, ValidReport
  <2>3. item \in Item /\ LeaseConsistent(item, leaseSeq)
    BY <1>1, Lookup DEF SystemInv
  <2>4. Unleased(item, new) \/ new = Absent
    BY <2>1, <2>2, <2>3, FinishedWork
  <2> HIDE DEF new
  <2>5. GivesUp(item, new)
    BY <2>3, <2>4, UnleasedLapses DEF GivesUp
  <2>6. \A j \in Keys : GivesUp(items[j], items'[j])
    BY <1>1, <2>1, <2>5, OneGivesUp
  <2>7. HolderKept
    <3>1. \A j \in Keys \ {k} : items'[j] = items[j]
      BY <2>1 DEF SystemInv, IInv, QueueTypeOK
    <3>2. ~(Healthy(k) /\ item.lease.run # NoRun)
      <4>1. SUFFICES ASSUME Healthy(k), item.lease.run # NoRun
                     PROVE  FALSE
        OBVIOUS
      <4>2. /\ item.lease.run = item.lease.id /\ runs[t.run].pc = "reviewing"
            /\ item.lease.generation = runs[t.run].generation
        BY <1>1, <2>1, <4>1, HealthyHolder
      <4>3. runs[t.run].attempt = t.attempt
        BY <1>1, <2>1, <4>1, <4>2 DEF RunInv, Attempts, AttemptSound
      <4>4. StopSound(t, runs[t.run])
        BY DEF RunInv, Stopped
      <4>. QED
        BY <1>1, <4>2, <4>3, <4>4 DEF StopSound
    <3>. QED
      BY <3>1, <3>2 DEF HolderKept
  <2>. QED
    BY <1>1, <1>2, <2>6, <2>7, QuietRows
<1>. QED
  BY <1>3, <1>4 DEF ReconcileApply

(* A run starts, ends, reports or dies: its row moves, claims nothing, and *)
(* the alarm's own work stands.                                            *)
LEMMA RunMovesRow ==
  ASSUME SystemInv, SystemInv', LeasesMove, RunInv, NEW r \in Runs, NEW STATE row,
         runs' = [runs EXCEPT ![r] = row], RowMoves(runs[r], row),
         UNCHANGED <<terminals, alarm>>,
         \A k \in Keys : GivesUp(items[k], items'[k])
  PROVE  RunInv'
<1>1. \A j \in Runs : RowMoves(runs[j], runs'[j])
  BY OneRowMoves
<1>2. \A k \in Keys : Undispatched(k)' => /\ Undispatched(k)
                                          /\ alarm'.lease[k] = alarm.lease[k]
  BY DEF Undispatched
<1>. QED
  BY <1>1, <1>2, QuietRows

LEMMA BeginRows ==
  ASSUME SystemInv, SystemInv', LeasesMove, ClaimInv, RunInv, NEW r \in Runs, ClaimBegin(r)
  PROVE  RunInv' /\ HolderKept
<1> DEFINE k == runs[r].key
           item == items[k]
<1>1. /\ k \in Keys /\ runs[r] \in RunRow /\ runs \in [Runs -> RunRow]
      /\ item \in Item /\ LeaseConsistent(item, leaseSeq)
  BY RunCalls, RowWrites, Lookup DEF SystemInv, PartiesTypeOK
<1>2. \A j \in Keys : Lapses(items[j], items'[j])
  <2>1. CASE UNCHANGED items
    BY <2>1, NobodyLapses
  <2>2. CASE ReclaimOnTouch(k)
    <3>1. items' = [items EXCEPT ![k] = Reclaimed(item)]
      BY <2>2 DEF ReclaimOnTouch
    <3>2. Lapses(item, Reclaimed(item))
      BY <1>1, ReclaimedLapses
    <3>. QED
      BY <1>1, <3>1, <3>2, OneLapses
  <2>. QED
    BY <2>1, <2>2 DEF ClaimBegin, queueVars
<1>3. UNCHANGED <<terminals, alarm>> /\ runs[r].pc = "queued"
  BY DEF ClaimBegin, ReclaimOnTouch, queueVars
<1>4. \A j \in Keys : GivesUp(items[j], items'[j])
  BY <1>2, LapsesGivesUp
<1>5. RowMoves(runs[r], EndedRun)
  BY <1>3 DEF RowMoves, EndedRun, NoRunRow
<1>6. RowMoves(runs[r], [runs[r] EXCEPT !.pc = "admitting"])
  BY <1>1, <1>3 DEF RowMoves, RunRow
<1>7. \/ runs' = [runs EXCEPT ![r] = EndedRun]
      \/ runs' = [runs EXCEPT ![r] = [runs[r] EXCEPT !.pc = "admitting"]]
  BY DEF ClaimBegin
<1>. QED
  BY <1>2, <1>3, <1>4, <1>5, <1>6, <1>7, RunMovesRow, LapsingKeepsHolders

(* A claim is granted: the row takes up the lease's new generation, and    *)
(* no other item has this lease.                                           *)
LEMMA GrantedRows ==
  ASSUME SystemInv, SystemInv', LeasesMove, ClaimInv, RunInv, NEW r \in Runs,
         NEW k \in Keys, NEW STATE row, runs' = [runs EXCEPT ![r] = row],
         UNCHANGED <<terminals, alarm>>, runs[r].pc = "admitting",
         row.pc \in {"reviewing", "queued"}, row.attempt = runs[r].attempt,
         \A j \in Keys \ {k} : items'[j] = items[j],
         items[k].lease.id = r, items'[k].lease.id = r,
         items'[k].lease.attempt = runs[r].attempt
  PROVE  RunInv'
<1>1. runs \in [Runs -> RunRow] /\ runs[r].attempt \in Nat
  BY RowWrites DEF SystemInv, PartiesTypeOK, RunRow
<1>2. runs'[r] = row /\ \A j \in Runs \ {r} : runs'[j] = runs[j]
  BY <1>1
<1>3. Attempts'
  <2>1. SUFFICES ASSUME NEW j \in Keys, items'[j].lease.run # NoRun
                 PROVE  AttemptSound(items'[j].lease, runs'[items'[j].lease.id])
    BY DEF Attempts, AttemptSound
  <2>2. CASE j = k
    BY <1>1, <1>2, <2>2 DEF AttemptSound
  <2>3. CASE j # k
    <3>1. items[j].lease.id \in Runs /\ items'[j] = items[j]
      BY <2>1, <2>3, ClaimedRow
    <3>2. items[j].lease.id # r
      <4>1. r # NoLeaseId
        BY RunsAreNumbers DEF NoLeaseId, NoRun
      <4>. QED
        BY <2>3, <4>1 DEF SystemInv, IInv, LeasesConsistent
    <3>. QED
      BY <1>2, <3>1, <3>2 DEF RunInv, Attempts
  <2>. QED
    BY <2>2, <2>3
<1>4. Stopped'
  <2>1. ASSUME NEW t \in terminals
        PROVE  StopSound(t, runs'[t.run])
    <3>1. t.run \in Runs /\ StopSound(t, runs[t.run])
      BY DEF SystemInv, PartiesTypeOK, RunInv, Stopped
    <3>2. CASE t.run = r
      BY <1>2, <3>1, <3>2 DEF StopSound
    <3>3. CASE t.run # r
      BY <1>2, <3>1, <3>3
    <3>. QED
      BY <3>2, <3>3
  <2>. QED
    BY <2>1 DEF Stopped
<1>5. \A j \in Runs : runs[j].pc = "none" => runs'[j].pc = "none"
  BY <1>2
<1>6. \A j \in Keys : Undispatched(j)' => /\ Undispatched(j)
                                          /\ alarm'.lease[j] = alarm.lease[j]
  BY DEF Undispatched
<1>. QED
  BY <1>3, <1>4, <1>5, <1>6, QuietUnstarted DEF RunInv

LEMMA CommitRows ==
  ASSUME SystemInv, SystemInv', LeasesMove, ClaimInv, RunInv, NEW r \in Runs, ClaimCommit(r)
  PROVE  RunInv' /\ HolderKept
<1> DEFINE k == runs[r].key
           item == items[k]
<1>1. /\ k \in Keys /\ runs[r] \in RunRow /\ runs \in [Runs -> RunRow]
      /\ item \in Item /\ LeaseConsistent(item, leaseSeq) /\ items \in [Keys -> Item]
      /\ r \in Nat \ {NoRun} /\ runs[r].attempt \in Nat
  BY RunCalls, RowWrites, Lookup, RunsAreNumbers
     DEF SystemInv, PartiesTypeOK, IInv, QueueTypeOK
<1>2. runs[r].pc = "admitting" /\ UNCHANGED <<terminals, alarm>>
  BY DEF ClaimCommit, ClaimLease, ClaimAgain, ClaimTerminal, queueVars
<1>3. RowMoves(runs[r], EndedRun)
  BY <1>2 DEF RowMoves, EndedRun, NoRunRow
<1>4. RowMoves(runs[r], [runs[r] EXCEPT !.pc = "queued"])
  BY <1>1, <1>2 DEF RowMoves, RunRow
<1>5. CASE /\ UNCHANGED items
           /\ \/ runs' = [runs EXCEPT ![r] = EndedRun]
              \/ runs' = [runs EXCEPT ![r].pc = "queued"]
  <2>0. UNCHANGED items
    BY <1>5
  <2>1. \A j \in Keys : Lapses(items[j], items'[j])
    BY <2>0, NobodyLapses
  <2>2. \A j \in Keys : GivesUp(items[j], items'[j])
    BY <2>1, LapsesGivesUp
  <2>3. \/ runs' = [runs EXCEPT ![r] = EndedRun]
        \/ runs' = [runs EXCEPT ![r] = [runs[r] EXCEPT !.pc = "queued"]]
    BY <1>5
  <2>. QED
    BY <1>2, <1>3, <1>4, <2>1, <2>2, <2>3, RunMovesRow, LapsingKeepsHolders
<1>6. CASE /\ ClaimTerminal(k, r, runs[r].revision, r)
           /\ runs' = [runs EXCEPT ![r] = EndedRun]
  <2>1. items' = [items EXCEPT ![k] = Absent] /\ item.lease.id = r
    BY <1>6 DEF ClaimTerminal, Claimable
  <2>2. GivesUp(item, Absent)
    BY DEF GivesUp, Absent, NoLease
  <2>3. \A j \in Keys : GivesUp(items[j], items'[j])
    BY <1>1, <2>1, <2>2, OneGivesUp
  <2>4. HolderKept
    <3>1. \A j \in Keys \ {k} : items'[j] = items[j]
      BY <1>1, <2>1
    <3>2. ~(Healthy(k) /\ item.lease.run # NoRun)
      BY <1>1, <1>2, <2>1, HealthyHolder
    <3>. QED
      BY <3>1, <3>2 DEF HolderKept
  <2>. QED
    BY <1>2, <1>3, <1>6, <2>3, <2>4, RunMovesRow
<1>7. CASE /\ ClaimLease(k, r, runs[r].revision, r, runs[r].attempt)
           /\ \/ runs' = [runs EXCEPT ![r].pc = "reviewing",
                                      ![r].generation = item.lease.generation + 1]
              \/ runs' = [runs EXCEPT ![r].pc = "queued"]
  <2>0. item.lease.id = r
    BY <1>7 DEF ClaimLease, Claimable
  <2>1. /\ items' = [items EXCEPT ![k] = items'[k]]
        /\ items'[k].lease.id = r /\ items'[k].lease.attempt = runs[r].attempt
    BY <1>1, <1>7, <2>0, ClaimLeaseWork DEF SameLease
  <2>2. \A j \in Keys \ {k} : items'[j] = items[j]
    BY <1>1, <2>1
  <2>3. PICK pc \in {"reviewing", "queued"}, n \in Nat :
          runs' = [runs EXCEPT ![r] = [runs[r] EXCEPT !.pc = pc, !.generation = n]]
    <3>1. item.lease.generation + 1 \in Nat /\ runs[r].generation \in Nat
      BY <1>1 DEF Item, Lease, RunRow
    <3>2. CASE runs' = [runs EXCEPT ![r].pc = "queued"]
      <4>1. [runs[r] EXCEPT !.pc = "queued", !.generation = runs[r].generation]
              = [runs[r] EXCEPT !.pc = "queued"]
        BY <1>1 DEF RunRow
      <4>. QED
        BY <3>1, <3>2, <4>1
    <3>3. CASE runs' = [runs EXCEPT ![r].pc = "reviewing",
                                    ![r].generation = item.lease.generation + 1]
      <4>1. runs' = [runs EXCEPT ![r] = [runs[r] EXCEPT !.pc = "reviewing",
                                           !.generation = item.lease.generation + 1]]
        BY <1>1, <3>3
      <4>. QED
        BY <3>1, <4>1
    <3>. QED
      BY <1>7, <3>2, <3>3
  <2> DEFINE row == [runs[r] EXCEPT !.pc = pc, !.generation = n]
  <2>4. row.pc \in {"reviewing", "queued"} /\ row.attempt = runs[r].attempt
    BY <1>1 DEF RunRow
  <2>5. runs' = [runs EXCEPT ![r] = row]
    BY <2>3
  <2> HIDE DEF row
  <2>6. RunInv'
    BY <1>1, <1>2, <2>0, <2>1, <2>2, <2>4, <2>5, GrantedRows
  <2>7. HolderKept
    BY <2>0, <2>1, <2>2 DEF HolderKept
  <2>. QED
    BY <2>6, <2>7
<1>8. CASE /\ ClaimAgain(k, r, runs[r].revision, r, runs[r].attempt)
           /\ runs' = [runs EXCEPT ![r].pc = "reviewing",
                                   ![r].generation = item.lease.generation]
  <2>1. /\ UNCHANGED items /\ item.lease.id = r
        /\ item.lease.attempt = runs[r].attempt
    BY <1>8 DEF ClaimAgain, Claimable, queueVars
  <2> DEFINE row == [runs[r] EXCEPT !.pc = "reviewing", !.generation = item.lease.generation]
  <2>2. row.pc = "reviewing" /\ row.attempt = runs[r].attempt
    BY <1>1 DEF RunRow
  <2>3. runs' = [runs EXCEPT ![r] = row]
    BY <1>1, <1>8
  <2> HIDE DEF row
  <2>4. RunInv'
    BY <1>1, <1>2, <2>1, <2>2, <2>3, GrantedRows
  <2>5. HolderKept
    BY <2>1 DEF HolderKept
  <2>. QED
    BY <2>4, <2>5
<1>. QED
  BY <1>5, <1>6, <1>7, <1>8 DEF ClaimCommit, queueVars

LEMMA BeatRows ==
  ASSUME SystemInv, SystemInv', LeasesMove, ClaimInv, RunInv, NEW r \in Runs,
         NEW phase \in Phases, Beat(r, phase)
  PROVE  RunInv' /\ HolderKept
<1> DEFINE k == runs[r].key
           item == items[k]
<1>1. /\ k \in Keys /\ runs[r] \in RunRow /\ runs \in [Runs -> RunRow]
      /\ item \in Item /\ items \in [Keys -> Item] /\ runs[r].pc = "reviewing"
  BY RunCalls, RowWrites, Lookup DEF SystemInv, PartiesTypeOK, IInv, QueueTypeOK, Beat
<1>2. UNCHANGED <<terminals, alarm>>
  BY DEF Beat, Heartbeat, HeartbeatSuperseded
<1>3. CASE Heartbeat(k, r, runs[r].revision, r, runs[r].attempt, runs[r].generation,
                     runs[r].head, phase) /\ UNCHANGED runs
  <2> DEFINE new == [item EXCEPT !.lease.phase = phase]
  <2>1. items' = [items EXCEPT ![k] = new]
    BY <1>1, <1>3 DEF Heartbeat
  <2>2. Lapses(item, new)
    BY <1>1, BeatenWork DEF Lapses, SameClaimant, SameLease
  <2> HIDE DEF new
  <2>3. \A j \in Keys : Lapses(items[j], items'[j])
    BY <1>1, <2>1, <2>2, OneLapses
  <2>4. /\ \A j \in Runs : RowMoves(runs[j], runs'[j])
        /\ terminals' \subseteq terminals
        /\ \A j \in Keys : Undispatched(j)' => /\ Undispatched(j)
                                               /\ alarm'.lease[j] = alarm.lease[j]
    BY <1>2, <1>3, StandingRows
  <2>. QED
    BY <2>3, <2>4, LapsesGivesUp, LapsingKeepsHolders, QuietRows
<1>4. CASE /\ HeartbeatSuperseded(k, r, runs[r].revision, r, runs[r].attempt,
                                  runs[r].generation, runs[r].head, phase)
           /\ runs' = [runs EXCEPT ![r] = EndedRun]
  <2>1. items' = [items EXCEPT ![k] = Requeued(item)] /\ item.lease.run = r
    BY <1>4 DEF HeartbeatSuperseded, OwnsHeartbeat
  <2>2. GivesUp(item, Requeued(item))
    BY <1>1, RequeuedItem DEF GivesUp, NoLease
  <2>3. \A j \in Keys : GivesUp(items[j], items'[j])
    BY <1>1, <2>1, <2>2, OneGivesUp
  <2>4. RowMoves(runs[r], EndedRun) /\ EndedRun.pc # "reviewing"
    BY <1>1 DEF RowMoves, EndedRun, NoRunRow
  <2>5. HolderKept
    <3>1. \A j \in Keys \ {k} : items'[j] = items[j]
      BY <1>1, <2>1
    <3>2. runs'[item.lease.run].pc # "reviewing"
      BY <1>1, <1>4, <2>1, <2>4
    <3>. QED
      BY <3>1, <3>2 DEF HolderKept
  <2>. QED
    BY <1>2, <1>4, <2>3, <2>4, <2>5, RunMovesRow
<1>. QED
  BY <1>3, <1>4 DEF Beat

LEMMA FinishRows ==
  ASSUME SystemInv, SystemInv', LeasesMove, ClaimInv, RunInv, NEW r \in Runs,
         NEW report \in Report, NEW lost \in BOOLEAN, Finish(r, report, lost)
  PROVE  RunInv' /\ HolderKept
<1> DEFINE k == runs[r].key
           item == items[k]
           new == Finished(item, report)
<1>1. /\ k \in Keys /\ runs[r] \in RunRow /\ runs \in [Runs -> RunRow]
      /\ item \in Item /\ items \in [Keys -> Item] /\ runs[r].pc = "reviewing"
      /\ LeaseConsistent(item, leaseSeq)
  BY RunCalls, RowWrites, Lookup DEF SystemInv, PartiesTypeOK, IInv, QueueTypeOK, Finish
<1>2. /\ UNCHANGED <<terminals, alarm>> /\ items' = [items EXCEPT ![k] = new]
      /\ ValidReport(report) /\ item.lease.run = r /\ item.lease.id # NoLeaseId
      /\ \/ runs' = [runs EXCEPT ![r] = [runs[r] EXCEPT !.pc = "resending"]]
         \/ runs' = [runs EXCEPT ![r] = EndedRun]
  BY DEF Finish, Complete, OwnsCompletion
<1>3. GivesUp(item, new)
  <2>1. item.state # "absent"
    BY <1>1, <1>2 DEF LeaseConsistent, Active
  <2>2. Unleased(item, new) \/ new = Absent
    BY <1>1, <1>2, <2>1, FinishedWork
  <2>. QED
    BY <1>1, <2>2, UnleasedLapses DEF GivesUp
<1> HIDE DEF new
<1>4. \A j \in Keys : GivesUp(items[j], items'[j])
  BY <1>1, <1>2, <1>3, OneGivesUp
<1>5. /\ RowMoves(runs[r], [runs[r] EXCEPT !.pc = "resending"])
      /\ [runs[r] EXCEPT !.pc = "resending"].pc # "reviewing"
  BY <1>1 DEF RowMoves, RunRow
<1>6. RowMoves(runs[r], EndedRun) /\ EndedRun.pc # "reviewing"
  BY <1>1 DEF RowMoves, EndedRun, NoRunRow
<1>7. HolderKept
  <2>1. \A j \in Keys \ {k} : items'[j] = items[j]
    BY <1>1, <1>2
  <2>2. runs'[item.lease.run].pc # "reviewing"
    BY <1>1, <1>2, <1>5, <1>6
  <2>. QED
    BY <2>1, <2>2 DEF HolderKept
<1>. QED
  BY <1>2, <1>4, <1>5, <1>6, <1>7, RunMovesRow

(* What the reconciler reads of a dead run is of the attempt that died, or *)
(* of an older one.                                                        *)
LEMMA ReadRows ==
  ASSUME SystemInv, SystemInv', LeasesMove, ClaimInv, RunInv, NEW r \in Runs,
         ReconcileRead(r)
  PROVE  RunInv'
<1> DEFINE k == runs[r].key
           lease == items[k].lease
           seen == [key |-> k, run |-> r, attempt |-> lease.attempt,
                    generation |-> lease.generation]
<1>1. /\ runs[r].pc = "dead" /\ lease.run = r /\ terminals' = terminals \cup {seen}
      /\ UNCHANGED <<items, runs, alarm>>
  BY DEF ReconcileRead, queueVars
<1>2. k \in Keys /\ r # NoRun
  BY RunCalls, RunsAreNumbers DEF SystemInv
<1>3. Attempts'
  BY <1>1, NobodyLapses, LapsesGivesUp, QuietAttempts DEF RunInv, RowMoves
<1>4. Stopped'
  <2>1. lease.id = r
    BY <1>1, <1>2 DEF ClaimInv, Owners
  <2>2. lease.attempt <= runs[r].attempt
    BY <1>1, <1>2, <2>1 DEF RunInv, Attempts, AttemptSound
  <2>3. seen.run = r /\ seen.attempt = lease.attempt
    OBVIOUS
  <2> HIDE DEF seen
  <2>4. StopSound(seen, runs[r])
    BY <1>1, <2>2, <2>3 DEF StopSound
  <2>. QED
    BY <1>1, <2>3, <2>4 DEF RunInv, Stopped
<1>5. Unstarted'
  BY <1>1, QuietUnstarted DEF RunInv, Undispatched
<1>. QED
  BY <1>3, <1>4, <1>5 DEF RunInv

LEMMA RunRows ==
  ASSUME SystemInv, SystemInv', LeasesMove, ClaimInv, RunInv, RunStep
  PROVE  RunInv' /\ HolderKept
<1>1. ASSUME NEW r \in Runs, FinishRefused(r) \/ Crash(r) \/ Rerun(r) \/ ReconcileRead(r)
      PROVE  RunInv' /\ HolderKept
  <2>1. UNCHANGED <<items, alarm>> /\ runs[r] \in RunRow
    BY <1>1, RowWrites DEF FinishRefused, Crash, Rerun, ReconcileRead, queueVars, SystemInv
  <2>2. \A j \in Keys : Lapses(items[j], items'[j])
    BY <2>1, NobodyLapses
  <2>3. HolderKept /\ \A j \in Keys : GivesUp(items[j], items'[j])
    BY <2>2, LapsesGivesUp, LapsingKeepsHolders
  <2>4. ASSUME NEW STATE row, runs' = [runs EXCEPT ![r] = row], RowMoves(runs[r], row),
               UNCHANGED terminals
        PROVE  RunInv'
    BY <2>1, <2>3, <2>4, RunMovesRow
  <2>5. CASE FinishRefused(r)
    <3>1. RowMoves(runs[r], EndedRun)
      BY <2>5 DEF FinishRefused, RowMoves, EndedRun, NoRunRow
    <3>. QED
      BY <2>3, <2>4, <2>5, <3>1 DEF FinishRefused
  <2>6. CASE Crash(r)
    <3>1. RowMoves(runs[r], [runs[r] EXCEPT !.pc = "dead"])
      BY <2>1, <2>6 DEF Crash, RowMoves, RunRow
    <3>2. runs' = [runs EXCEPT ![r] = [runs[r] EXCEPT !.pc = "dead"]] /\ UNCHANGED terminals
      BY <2>6 DEF Crash
    <3>. QED
      BY <2>3, <2>4, <3>1, <3>2
  <2>7. CASE Rerun(r)
    <3> DEFINE row == [runs[r] EXCEPT !.pc = "queued", !.attempt = @ + 1, !.generation = 0]
    <3>1. runs' = [runs EXCEPT ![r] = row] /\ UNCHANGED terminals
      BY <2>7 DEF Rerun
    <3>2. RowMoves(runs[r], row)
      BY <2>1, <2>7 DEF Rerun, RowMoves, RunRow
    <3> HIDE DEF row
    <3>. QED
      BY <2>3, <2>4, <3>1, <3>2
  <2>8. CASE ReconcileRead(r)
    BY <2>3, <2>8, ReadRows
  <2>. QED
    BY <1>1, <2>5, <2>6, <2>7, <2>8
<1>. QED
  BY <1>1, BeginRows, CommitRows, BeatRows, FinishRows DEF RunStep

LEMMA IdleAlarmShape ==
  IdleAlarm \in AlarmState /\ \A k \in Keys : IdleAlarm.result[k] = "none"
<1>1. \A k \in Keys : IdleAlarm.result[k] = "none"
  BY DEF IdleAlarm
<1>. QED
  BY <1>1, IdleAlarmType

(* The alarm writes leases that no run has yet. *)
LEMMA CommitStartsNone ==
  ASSUME SystemInv, SystemInv', Unstarted, NEW global \in BOOLEAN, CommitAlarm(global)
  PROVE  Unstarted'
<1> DEFINE chosen == Dispatchable(global)
<1>1. /\ leaseSeq \in Nat /\ leaseSeq' \in Nat /\ leaseSeq' <= MaxLeases /\ MaxLeases \in Nat
      /\ UNCHANGED runs
  BY BoundAssumption DEF SystemInv, IInv, QueueTypeOK, CommitAlarm, envVars
<1>2. leaseSeq' >= leaseSeq
  <2>1. Cardinality(chosen) \in Nat
    BY FS_Subset, FS_CardinalityType, LimitAssumption DEF Dispatchable
  <2>. QED
    BY <1>1, <2>1 DEF CommitAlarm, AlarmCommit
<1>3. ASSUME NEW r \in Runs, r > leaseSeq'
      PROVE  runs'[r].pc = "none"
  BY <1>1, <1>2, <1>3 DEF Unstarted, Runs
<1>4. CASE chosen = {}
  <2>1. \A k \in Keys : ~Undispatched(k)'
    BY <1>4 DEF CommitAlarm, AlarmCommit, Undispatched, IdleAlarm
  <2>. QED
    BY <1>3, <2>1 DEF Unstarted
<1>5. CASE chosen # {}
  <2>1. PICK ids \in [chosen -> (leaseSeq + 1)..leaseSeq'] :
          /\ \A j, k \in chosen : ids[j] = ids[k] => j = k
          /\ alarm' = [alarm EXCEPT !.pc = "dispatching",
                         !.result = [k \in Keys |-> IF k \in chosen THEN "todo" ELSE "none"],
                         !.lease = [k \in Keys |-> IF k \in chosen THEN ids[k]
                                                                  ELSE NoLeaseId]]
    BY <1>5 DEF CommitAlarm, AlarmCommit
  <2>2. /\ alarm'.result = [k \in Keys |-> IF k \in chosen THEN "todo" ELSE "none"]
        /\ alarm'.lease = [k \in Keys |-> IF k \in chosen THEN ids[k] ELSE NoLeaseId]
    BY <2>1 DEF SystemInv, IInv, QueueTypeOK, AlarmState
  <2>3. \A k \in Keys : Undispatched(k)' => k \in chosen /\ alarm'.lease[k] = ids[k]
    BY <2>2 DEF Undispatched
  <2>4. ASSUME NEW k \in chosen
        PROVE  ids[k] \in Runs /\ ids[k] <= leaseSeq' /\ runs'[ids[k]].pc = "none"
    <3>1. ids[k] \in (leaseSeq + 1)..leaseSeq'
      BY <2>1
    <3>. QED
      BY <1>1, <3>1 DEF Unstarted, Runs
  <2>5. ASSUME NEW k \in Keys, Undispatched(k)'
        PROVE  /\ alarm'.lease[k] \in Runs /\ alarm'.lease[k] <= leaseSeq'
               /\ runs'[alarm'.lease[k]].pc = "none"
               /\ \A j \in Keys : Undispatched(j)' /\ alarm'.lease[j] = alarm'.lease[k]
                                    => j = k
    BY <2>1, <2>3, <2>4, <2>5
  <2>. QED
    BY <1>3, <2>5 DEF Unstarted, Undispatched
<1>. QED
  BY <1>4, <1>5

(* A dispatched run is the first of its lease. *)
LEMMA DispatchRows ==
  ASSUME SystemInv, SystemInv', LeasesMove, RunInv, NEW k \in Keys, Dispatch(k)
  PROVE  RunInv'
<1> DEFINE id == alarm.lease[k]
           row == [pc |-> "queued", key |-> k, revision |-> items[k].lease.revision,
                   head |-> items[k].lease.decision.head, attempt |-> 1, generation |-> 0]
<1>1. /\ runs' = [runs EXCEPT ![id] = row] \/ runs' = runs
      /\ UNCHANGED <<items, leaseSeq, terminals>> /\ Undispatched(k)
      /\ runs \in [Runs -> RunRow]
  BY DEF Dispatch, AlarmDispatch, Undispatched, SystemInv, PartiesTypeOK
<1> HIDE DEF row
<1>2. id \in Runs /\ id <= leaseSeq /\ runs[id].pc = "none"
  BY <1>1 DEF RunInv, Unstarted
<1>3. \A r \in Runs \ {id} : runs'[r] = runs[r]
  BY <1>1
<1>4. Attempts'
  <2>1. ASSUME NEW j \in Keys, items[j].lease.run # NoRun
        PROVE  items[j].lease.id \in Runs /\ runs'[items[j].lease.id] = runs[items[j].lease.id]
    <3>1. items[j].lease.id \in Runs /\ runs[items[j].lease.id].pc # "none"
      BY <2>1, ClaimedRow DEF RunInv, Attempts, AttemptSound
    <3>. QED
      BY <1>2, <1>3, <3>1
  <2>. QED
    BY <1>1, <2>1 DEF RunInv, Attempts, AttemptSound
<1>5. Stopped'
  <2>1. ASSUME NEW t \in terminals
        PROVE  runs'[t.run] = runs[t.run]
    <3>1. t.run \in Runs /\ StopSound(t, runs[t.run])
      BY DEF SystemInv, PartiesTypeOK, RunInv, Stopped
    <3>2. t.run # id
      BY <1>2, <3>1 DEF StopSound
    <3>. QED
      BY <1>3, <3>1, <3>2
  <2>. QED
    BY <1>1, <2>1 DEF RunInv, Stopped
<1>6. Unstarted'
  <2>1. ASSUME NEW r \in Runs, r > leaseSeq'
        PROVE  runs'[r].pc = "none"
    <3>1. r # id /\ r > leaseSeq
      BY <1>1, <1>2, <2>1, RunsAreNumbers DEF SystemInv, IInv, QueueTypeOK
    <3>. QED
      BY <1>3, <3>1 DEF RunInv, Unstarted
  <2>2. ASSUME NEW j \in Keys
        PROVE  /\ Undispatched(j)' => Undispatched(j) /\ j # k
               /\ alarm'.lease[j] = alarm.lease[j]
    <3>1. PICK result \in {"none", "rejected", "global"} : AlarmDispatch(k, result)
      BY DEF Dispatch
    <3>2. /\ alarm'.result = [i \in Keys |->
               CASE i = k -> result
                 [] i # k /\ result = "global" /\ alarm.result[i] = "todo" -> "unattempted"
                 [] OTHER -> alarm.result[i]]
          /\ alarm'.lease = alarm.lease
      BY <3>1 DEF AlarmDispatch, SystemInv, IInv, QueueTypeOK, AlarmState
    <3>3. j = k => alarm'.result[j] = result
      BY <3>2
    <3>4. j # k => alarm'.result[j] \in {"unattempted", alarm.result[j]}
      BY <3>2
    <3>. QED
      BY <3>2, <3>3, <3>4 DEF Undispatched
  <2>3. ASSUME NEW j \in Keys, Undispatched(j)'
        PROVE  /\ alarm'.lease[j] \in Runs /\ alarm'.lease[j] <= leaseSeq'
               /\ runs'[alarm'.lease[j]].pc = "none"
    <3>1. /\ Undispatched(j) /\ j # k /\ alarm'.lease[j] = alarm.lease[j]
          /\ alarm.lease[j] \in Runs /\ alarm.lease[j] <= leaseSeq
          /\ runs[alarm.lease[j]].pc = "none"
      BY <2>2, <2>3 DEF RunInv, Unstarted
    <3>2. alarm.lease[j] # id
      BY <1>1, <3>1 DEF RunInv, Unstarted
    <3>. QED
      BY <1>1, <1>3, <3>1, <3>2
  <2>4. ASSUME NEW j \in Keys, NEW i \in Keys, Undispatched(j)', Undispatched(i)',
               alarm'.lease[i] = alarm'.lease[j]
        PROVE  i = j
    BY <2>2, <2>4 DEF RunInv, Unstarted
  <2>. QED
    BY <2>1, <2>3, <2>4 DEF Unstarted, Undispatched
<1>. QED
  BY <1>4, <1>5, <1>6 DEF RunInv

LEMMA AlarmRows ==
  ASSUME SystemInv, SystemInv', LeasesMove, ClaimInv, RunInv, AlarmStep
  PROVE  RunInv' /\ HolderKept
<1>1. \A k \in Keys : Lapses(items[k], items'[k])
  BY AlarmLapses
<1>2. HolderKept /\ \A k \in Keys : GivesUp(items[k], items'[k])
  BY <1>1, LapsesGivesUp, LapsingKeepsHolders
<1>3. ASSUME UNCHANGED <<runs, terminals>>,
             \A k \in Keys : Undispatched(k)' => /\ Undispatched(k)
                                                 /\ alarm'.lease[k] = alarm.lease[k]
      PROVE  RunInv'
  <2>1. /\ \A r \in Runs : RowMoves(runs[r], runs'[r])
        /\ terminals' \subseteq terminals
    BY <1>3 DEF RowMoves
  <2>. QED
    BY <1>2, <1>3, <2>1, QuietRows
<1>4. IdleAlarm \in AlarmState /\ \A k \in Keys : IdleAlarm.result[k] = "none"
  BY IdleAlarmShape
<1>5. ASSUME NEW due \in SUBSET Keys, Housekeep(due)
      PROVE  RunInv'
  <2>1. UNCHANGED <<runs, terminals>> /\ alarm'.result = IdleAlarm.result
    BY <1>4, <1>5 DEF Housekeep, AlarmHousekeep, envVars, AlarmState
  <2>. QED
    BY <1>3, <1>4, <2>1 DEF Undispatched
<1>6. ASSUME NEW admitted \in SUBSET Keys, NEW checked \in SUBSET Keys,
             Admit(admitted, checked)
      PROVE  RunInv'
  <2>1. UNCHANGED <<runs, terminals>>
    BY <1>6 DEF Admit, envVars
  <2>2. \/ alarm' = IdleAlarm
        \/ alarm'.result = alarm.result /\ alarm'.lease = alarm.lease
    BY <1>6 DEF Admit, AlarmAdmit, SystemInv, IInv, QueueTypeOK, AlarmState
  <2>. QED
    BY <1>3, <1>4, <2>1, <2>2 DEF Undispatched
<1>7. ASSUME NEW k \in Keys, Probe(k)
      PROVE  RunInv'
  <2>1. UNCHANGED <<runs, terminals>>
    BY <1>7 DEF Probe
  <2>2. alarm'.result = alarm.result /\ alarm'.lease = alarm.lease
    BY <1>7 DEF Probe, AlarmProbe, SystemInv, IInv, QueueTypeOK, AlarmState
  <2>. QED
    BY <1>3, <2>1, <2>2 DEF Undispatched
<1>8. ASSUME NEW k \in Keys, Timeout(k)
      PROVE  RunInv'
  BY <1>3, <1>8 DEF Timeout, Expire, Undispatched
<1>9. ASSUME NEW global \in BOOLEAN, CommitAlarm(global)
      PROVE  RunInv'
  <2>1. UNCHANGED <<runs, terminals>>
    BY <1>9 DEF CommitAlarm, envVars
  <2>2. \A r \in Runs : RowMoves(runs[r], runs'[r])
    BY <2>1 DEF RowMoves
  <2>3. Unstarted'
    BY <1>9, CommitStartsNone DEF RunInv
  <2>. QED
    BY <1>2, <2>1, <2>2, <2>3, QuietAttempts, QuietStopped DEF RunInv
<1>10. ASSUME MergeDispatch
       PROVE  RunInv'
  BY <1>3, <1>4, <1>10 DEF MergeDispatch, AlarmMerge, envVars, Undispatched
<1>. QED
  BY <1>2, <1>5, <1>6, <1>7, <1>8, <1>9, <1>10, DispatchRows DEF AlarmStep

LEMMA RowsStep ==
  SystemInv /\ ClaimInv /\ RunInv /\ [Next]_vars => RunInv' /\ (HolderKept \/ UNCHANGED vars)
<1> SUFFICES ASSUME SystemInv, ClaimInv, RunInv, [Next]_vars
             PROVE  RunInv' /\ (HolderKept \/ UNCHANGED vars)
  OBVIOUS
<1>1. SystemInv' /\ LeasesMove
  BY SystemMoves
<1>2. CASE UNCHANGED <<items, runs, terminals, alarm>>
  <2>1. \A k \in Keys : Lapses(items[k], items'[k])
    BY <1>2, NobodyLapses
  <2>2. HolderKept /\ \A k \in Keys : GivesUp(items[k], items'[k])
    BY <2>1, LapsesGivesUp, LapsingKeepsHolders
  <2>3. /\ \A r \in Runs : RowMoves(runs[r], runs'[r])
        /\ terminals' \subseteq terminals
        /\ \A k \in Keys : Undispatched(k)' => /\ Undispatched(k)
                                               /\ alarm'.lease[k] = alarm.lease[k]
    BY <1>2, StandingRows
  <2>. QED
    BY <1>1, <2>2, <2>3, QuietRows
<1>3. CASE UNCHANGED vars \/ GitHubStep
  BY ZenonT(60), <1>2, <1>3 DEF vars, queueVars, envVars, GitHubStep, Change, EndTarget
<1>4. CASE \E t \in terminals : ReconcileApply(t)
  BY <1>1, <1>4, ReconcileRows
<1>. QED
  BY <1>1, <1>3, <1>4, IngressRows, RunRows, AlarmRows DEF Next

LEMMA RowsInitially == Init => RunInv
<1> SUFFICES ASSUME Init PROVE RunInv
  OBVIOUS
<1>1. /\ \A k \in Keys : items[k].lease.run = NoRun
      /\ terminals = {} /\ \A r \in Runs : runs[r].pc = "none"
  BY DEF Init, QueueInit, Absent, NoLease, NoRunRow
<1>2. \A k \in Keys : ~Undispatched(k)
  BY IdleAlarmShape DEF Init, QueueInit, Undispatched
<1>. QED
  BY <1>1, <1>2 DEF RunInv, Attempts, AttemptSound, Stopped, Unstarted

(* A run that is working under its claim loses the lease only to its own   *)
(* completion, to a timeout, or to an audited supersession: the late       *)
(* reports of the reconciler and of a failed dispatch never reach it.      *)
THEOREM HealthyHoldersAreKept == Spec => HealthyHolderKeepsLease
<1>1. SystemInv /\ ClaimInv /\ RunInv /\ [Next]_vars =>
        [\A k \in Keys :
           LET lease == items[k].lease IN
           Healthy(k) /\ lease.run # NoRun /\ items'[k].lease.id # lease.id =>
             \/ lease.expired
             \/ runs'[lease.run].pc # "reviewing"
             \/ audits' # audits]_vars
  BY RowsStep DEF HolderKept
<1>. QED
  BY <1>1, SystemInitially, SystemStep, ClaimsInitially, ClaimsStep, RowsInitially, RowsStep,
     PTL DEF Spec, HealthyHolderKeepsLease

-----------------------------------------------------------------------------
(* Fencing.  The audit row of a fenced claim is there; what may be amiss    *)
(* is its prior revision, which is the item's and not the lease's.         *)

Started(row) == row.pc \notin {"none", "ended"}

(* A lease is of the item and the revision that its run was started with.  *)
BoundTo(k, lease) ==
  lease.id \in Runs /\ Started(runs[lease.id]) =>
    runs[lease.id].key = k /\ runs[lease.id].revision = lease.revision

Bound == \A k \in Keys : BoundTo(k, items[k].lease)

(* The leases that the alarm has still to dispatch are held by no other    *)
(* item than the one they were written for.                                *)
Aimed == \A j, k \in Keys : Undispatched(k) /\ items[j].lease.id = alarm.lease[k] => j = k

(* The row is of this claim, and of the item and a revision that its run   *)
(* was started with or a later one.                                        *)
Proves(a, f) ==
  /\ a.lease = f[1] /\ a.run = f[1] /\ a.attempt = f[2] /\ a.generation = f[3]
  /\ a.next > a.prior

Places(a, row) == Started(row) => a.key = row.key /\ a.prior >= row.revision

AuditedClaim(f) ==
  /\ f[1] \in Runs /\ runs[f[1]].pc # "none"
  /\ \E a \in audits : Proves(a, f) /\ Places(a, runs[f[1]])

Audited == \A f \in fenced : AuditedClaim(f)

FenceInv == Bound /\ Aimed /\ Audited

(* The row of a run keeps its item and its revision until the run ends.    *)
KeepsTuple(old, new) ==
  /\ old.pc # "none" => new.pc # "none"
  /\ Started(new) => Started(old) /\ new.key = old.key /\ new.revision = old.revision

LEMMA TupleKept ==
  ASSUME NEW row \in RunRow, NEW new
  PROVE  /\ KeepsTuple(row, row)
         /\ row.pc # "none" => KeepsTuple(row, EndedRun)
         /\ Started(row) /\ new.pc # "none" /\ new.key = row.key /\ new.revision = row.revision
              => KeepsTuple(row, new)
BY DEF KeepsTuple, Started, EndedRun, NoRunRow

LEMMA OneTupleKept ==
  ASSUME SystemInv, NEW r \in Runs, NEW STATE row, runs' = [runs EXCEPT ![r] = row],
         KeepsTuple(runs[r], row)
  PROVE  \A j \in Runs : KeepsTuple(runs[j], runs'[j])
BY DEF SystemInv, PartiesTypeOK, KeepsTuple

LEMMA TuplesStand ==
  ASSUME UNCHANGED runs
  PROVE  \A j \in Runs : KeepsTuple(runs[j], runs'[j])
BY DEF KeepsTuple

(* The calls of a run. *)
LEMMA RunTuples ==
  ASSUME SystemInv, RunStep
  PROVE  \A j \in Runs : KeepsTuple(runs[j], runs'[j])
<1>1. PICK r \in Runs :
        \/ ClaimBegin(r) \/ ClaimCommit(r)
        \/ \E phase \in Phases : Beat(r, phase)
        \/ \E report \in Report, lost \in BOOLEAN : Finish(r, report, lost)
        \/ FinishRefused(r) \/ Crash(r) \/ Rerun(r) \/ ReconcileRead(r)
  BY DEF RunStep
<1>2. runs[r] \in RunRow /\ runs \in [Runs -> RunRow]
  BY RowWrites DEF SystemInv, PartiesTypeOK
<1>3. \/ UNCHANGED runs
      \/ /\ Started(runs[r])
         /\ \/ runs' = [runs EXCEPT ![r] = EndedRun]
            \/ \E pc \in RunPcs \ {"none"} :
                 \/ runs' = [runs EXCEPT ![r].pc = pc]
                 \/ \E n : runs' = [runs EXCEPT ![r].pc = pc, ![r].generation = n]
                 \/ \E n, m : runs' = [runs EXCEPT ![r].pc = pc, ![r].attempt = m,
                                                   ![r].generation = n]
  <2>1. CASE ClaimBegin(r)
    BY <1>2, <2>1 DEF ClaimBegin, Started, RunPcs
  <2>2. CASE ClaimCommit(r)
    BY <1>2, <2>2 DEF ClaimCommit, Started, RunPcs
  <2>3. CASE \E phase \in Phases : Beat(r, phase)
    BY <2>3 DEF Beat, Started
  <2>4. CASE \E report \in Report, lost \in BOOLEAN : Finish(r, report, lost)
    BY <1>2, <2>4 DEF Finish, Started, RunPcs
  <2>5. CASE FinishRefused(r)
    BY <2>5 DEF FinishRefused, Started
  <2>6. CASE Crash(r)
    BY <2>6 DEF Crash, Started, RunPcs
  <2>7. CASE Rerun(r)
    BY <2>7 DEF Rerun, Started, RunPcs
  <2>8. CASE ReconcileRead(r)
    BY <2>8 DEF ReconcileRead
  <2>9. QED
    BY <1>1, <2>1, <2>2, <2>3, <2>4, <2>5, <2>6, <2>7, <2>8
<1>4. CASE UNCHANGED runs
  BY <1>4, TuplesStand
<1>5. CASE Started(runs[r]) /\ runs' = [runs EXCEPT ![r] = EndedRun]
  BY <1>2, <1>5, TupleKept, OneTupleKept DEF Started
<1>6. ASSUME NEW pc \in RunPcs \ {"none"}, Started(runs[r]),
             \/ runs' = [runs EXCEPT ![r].pc = pc]
             \/ \E n : runs' = [runs EXCEPT ![r].pc = pc, ![r].generation = n]
             \/ \E n, m : runs' = [runs EXCEPT ![r].pc = pc, ![r].attempt = m,
                                               ![r].generation = n]
      PROVE  \A j \in Runs : KeepsTuple(runs[j], runs'[j])
  <2>1. /\ runs'[r].pc = pc /\ runs'[r].key = runs[r].key
        /\ runs'[r].revision = runs[r].revision
        /\ \A j \in Runs \ {r} : runs'[j] = runs[j]
    <3>1. CASE runs' = [runs EXCEPT ![r].pc = pc]
      BY <1>2, <3>1 DEF RunRow
    <3>2. ASSUME NEW n, runs' = [runs EXCEPT ![r].pc = pc, ![r].generation = n]
          PROVE  /\ runs'[r].pc = pc /\ runs'[r].key = runs[r].key
                 /\ runs'[r].revision = runs[r].revision
                 /\ \A j \in Runs \ {r} : runs'[j] = runs[j]
      BY <1>2, <3>2 DEF RunRow
    <3>3. ASSUME NEW n, NEW m, runs' = [runs EXCEPT ![r].pc = pc, ![r].attempt = m,
                                                    ![r].generation = n]
          PROVE  /\ runs'[r].pc = pc /\ runs'[r].key = runs[r].key
                 /\ runs'[r].revision = runs[r].revision
                 /\ \A j \in Runs \ {r} : runs'[j] = runs[j]
      BY <1>2, <3>3 DEF RunRow
    <3>4. QED
      BY <1>6, <3>1, <3>2, <3>3
  <2>2. KeepsTuple(runs[r], runs'[r])
    BY <1>6, <2>1 DEF KeepsTuple
  <2>3. QED
    BY <2>1, <2>2 DEF KeepsTuple
<1>7. QED
  BY <1>3, <1>4, <1>5, <1>6

(* A run starts only by the dispatch of its lease. *)
LEMMA TuplesMove ==
  ASSUME SystemInv, [Next]_vars
  PROVE  \/ \A j \in Runs : KeepsTuple(runs[j], runs'[j])
         \/ \E k \in Keys : Dispatch(k)
<1>1. CASE RunStep
  BY <1>1, RunTuples
<1>2. CASE UNCHANGED vars \/ GitHubStep \/ IngressStep \/ \E t \in terminals : ReconcileApply(t)
  <2>1. UNCHANGED runs
    BY <1>2 DEF vars, envVars, GitHubStep, Change, EndTarget, IngressStep, Reserve, VerifyHead,
                Ingest, IssueCommand, IssueBackground, ReconcileApply
  <2>2. QED
    BY <2>1, TuplesStand
<1>3. CASE AlarmStep /\ ~\E k \in Keys : Dispatch(k)
  <2>1. UNCHANGED runs
    BY <1>3 DEF AlarmStep, Housekeep, Admit, Probe, Timeout, CommitAlarm, MergeDispatch, envVars
  <2>2. QED
    BY <2>1, TuplesStand
<1>4. QED
  BY <1>1, <1>2, <1>3 DEF Next

(* Only the alarm writes its state, and no call deletes an audit row.      *)
LEMMA IngressGrows ==
  ASSUME IngressStep
  PROVE  UNCHANGED alarm /\ audits \subseteq audits'
<1>1. ASSUME NEW i \in 1..MaxEvents, Reserve(i) \/ VerifyHead(i) \/ Ingest(i)
      PROVE  UNCHANGED alarm /\ audits \subseteq audits'
  BY <1>1 DEF Reserve, VerifyHead, Ingest, Enqueue, EnqueueNew, EnqueueExisting, EnqueueIgnored,
               queueVars
<1>2. ASSUME NEW k \in Keys, NEW m \in Markers, IssueCommand(k, m)
      PROVE  UNCHANGED alarm /\ audits \subseteq audits'
  BY <1>2 DEF IssueCommand, Enqueue, EnqueueNew, EnqueueExisting, EnqueueIgnored, queueVars
<1>3. ASSUME NEW k \in Keys, NEW action \in {"recovery", "scheduled"},
             IssueBackground(k, action)
      PROVE  UNCHANGED alarm /\ audits \subseteq audits'
  BY <1>3 DEF IssueBackground, Enqueue, EnqueueNew, EnqueueExisting, EnqueueIgnored, queueVars
<1>4. QED
  BY <1>1, <1>2, <1>3 DEF IngressStep

LEMMA RunsGrow ==
  ASSUME RunStep
  PROVE  UNCHANGED alarm /\ audits \subseteq audits'
<1>1. PICK r \in Runs :
        \/ ClaimBegin(r) \/ ClaimCommit(r)
        \/ \E phase \in Phases : Beat(r, phase)
        \/ \E report \in Report, lost \in BOOLEAN : Finish(r, report, lost)
        \/ FinishRefused(r) \/ Crash(r) \/ Rerun(r) \/ ReconcileRead(r)
  BY DEF RunStep
<1>2. ASSUME ClaimBegin(r)
      PROVE  UNCHANGED alarm /\ audits \subseteq audits'
  BY <1>2 DEF ClaimBegin, ReclaimOnTouch, queueVars
<1>3. ASSUME ClaimCommit(r)
      PROVE  UNCHANGED alarm /\ audits \subseteq audits'
  BY <1>3 DEF ClaimCommit, ClaimLease, ClaimAgain, ClaimTerminal, queueVars
<1>4. ASSUME NEW phase \in Phases, Beat(r, phase)
      PROVE  UNCHANGED alarm /\ audits \subseteq audits'
  BY <1>4 DEF Beat, Heartbeat, HeartbeatSuperseded
<1>5. ASSUME NEW report \in Report, NEW lost \in BOOLEAN, Finish(r, report, lost)
      PROVE  UNCHANGED alarm /\ audits \subseteq audits'
  BY <1>5 DEF Finish, Complete
<1>6. ASSUME FinishRefused(r) \/ Crash(r) \/ Rerun(r) \/ ReconcileRead(r)
      PROVE  UNCHANGED alarm /\ audits \subseteq audits'
  BY <1>6 DEF FinishRefused, Crash, Rerun, ReconcileRead, queueVars
<1>7. QED
  BY <1>1, <1>2, <1>3, <1>4, <1>5, <1>6

LEMMA OthersGrow ==
  ASSUME UNCHANGED vars \/ GitHubStep \/ \E t \in terminals : ReconcileApply(t)
  PROVE  UNCHANGED alarm /\ audits \subseteq audits'
<1>1. ASSUME UNCHANGED vars \/ GitHubStep
      PROVE  UNCHANGED alarm /\ audits \subseteq audits'
  BY ZenonT(60), <1>1 DEF vars, queueVars, GitHubStep, Change, EndTarget
<1>2. ASSUME NEW t \in terminals, ReconcileApply(t)
      PROVE  UNCHANGED alarm /\ audits \subseteq audits'
  BY <1>2 DEF ReconcileApply, Reconcile, queueVars
<1>3. QED
  BY <1>1, <1>2

(* What the alarm has still to dispatch it wrote when it committed. *)
LEMMA TasksMove ==
  ASSUME SystemInv, [Next]_vars
  PROVE  \/ \A k \in Keys : Undispatched(k)' => /\ Undispatched(k)
                                                /\ alarm'.lease[k] = alarm.lease[k]
         \/ \E global \in BOOLEAN : CommitAlarm(global)
<1> DEFINE TasksKept == \A k \in Keys : Undispatched(k)' => /\ Undispatched(k)
                                                       /\ alarm'.lease[k] = alarm.lease[k]
<1>1. alarm \in AlarmState /\ IdleAlarm \in AlarmState
      /\ \A k \in Keys : IdleAlarm.result[k] = "none"
  BY IdleAlarmShape DEF SystemInv, IInv, QueueTypeOK
<1>2. ASSUME \/ alarm' = alarm \/ alarm' = IdleAlarm
             \/ alarm'.result = IdleAlarm.result
             \/ alarm'.result = alarm.result /\ alarm'.lease = alarm.lease
      PROVE  TasksKept
  BY <1>1, <1>2 DEF Undispatched
<1>3. CASE UNCHANGED vars \/ GitHubStep \/ IngressStep \/ \E t \in terminals : ReconcileApply(t)
  BY <1>2, <1>3, IngressGrows, OthersGrow
<1>4. CASE RunStep
  BY <1>2, <1>4, RunsGrow
<1>5. CASE AlarmStep
  <2>1. ASSUME NEW due \in SUBSET Keys, Housekeep(due)
        PROVE  TasksKept
    <3>1. alarm'.result = IdleAlarm.result
      BY <1>1, <2>1 DEF Housekeep, AlarmHousekeep, AlarmState
    <3>2. QED
      BY <1>2, <3>1
  <2>2. ASSUME NEW admitted \in SUBSET Keys, NEW checked \in SUBSET Keys, Admit(admitted, checked)
        PROVE  TasksKept
    <3>1. \/ alarm' = IdleAlarm
          \/ alarm'.result = alarm.result /\ alarm'.lease = alarm.lease
      BY <1>1, <2>2 DEF Admit, AlarmAdmit, AlarmState
    <3>2. QED
      BY <1>2, <3>1
  <2>3. ASSUME NEW k \in Keys, Probe(k)
        PROVE  TasksKept
    <3>1. alarm'.result = alarm.result /\ alarm'.lease = alarm.lease
      BY <1>1, <2>3 DEF Probe, AlarmProbe, AlarmState
    <3>2. QED
      BY <1>2, <3>1
  <2>4. ASSUME NEW k \in Keys, Timeout(k)
        PROVE  TasksKept
    BY <1>2, <2>4 DEF Timeout, Expire
  <2>5. CASE MergeDispatch
    BY <1>2, <2>5 DEF MergeDispatch, AlarmMerge
  <2>6. ASSUME NEW k \in Keys, Dispatch(k)
        PROVE  TasksKept
    <3>1. PICK result \in {"none", "rejected", "global"} : AlarmDispatch(k, result)
      BY <2>6 DEF Dispatch
    <3>2. /\ alarm'.result = [i \in Keys |->
               CASE i = k -> result
                 [] i # k /\ result = "global" /\ alarm.result[i] = "todo" -> "unattempted"
                 [] OTHER -> alarm.result[i]]
          /\ alarm'.lease = alarm.lease
      BY <1>1, <3>1 DEF AlarmDispatch, AlarmState
    <3>3. alarm'.result[k] = result
      BY <3>2
    <3>4. \A j \in Keys \ {k} : alarm'.result[j] \in {"unattempted", alarm.result[j]}
      BY <3>2
    <3>5. QED
      BY <3>2, <3>3, <3>4 DEF Undispatched
  <2>7. QED
    BY <1>5, <2>1, <2>2, <2>3, <2>4, <2>5, <2>6 DEF AlarmStep
<1>6. QED
  BY <1>3, <1>4, <1>5 DEF Next

LEMMA AimedStays ==
  ASSUME SystemInv, SystemInv', LeasesMove, RunInv, Aimed, [Next]_vars
  PROVE  Aimed'
<1>1. ASSUME \A k \in Keys : Undispatched(k)' => /\ Undispatched(k)
                                                 /\ alarm'.lease[k] = alarm.lease[k]
      PROVE  Aimed'
  <2>1. SUFFICES ASSUME NEW j \in Keys, NEW k \in Keys, Undispatched(k)',
                        items'[j].lease.id = alarm'.lease[k]
                 PROVE  j = k
    BY DEF Aimed, Undispatched
  <2>2. /\ Undispatched(k) /\ items'[j].lease.id = alarm.lease[k]
        /\ alarm.lease[k] \in Runs /\ alarm.lease[k] <= leaseSeq
    BY <1>1, <2>1 DEF RunInv, Unstarted
  <2>3. alarm.lease[k] \in Nat /\ alarm.lease[k] # NoLeaseId /\ leaseSeq \in Nat
    BY <2>2, RunsAreNumbers DEF NoLeaseId, NoRun, SystemInv, IInv, QueueTypeOK
  <2>4. items[j].lease.id = alarm.lease[k]
    BY <2>2, <2>3 DEF LeasesMove, WritesUnclaimed
  <2>5. QED
    BY <2>2, <2>4 DEF Aimed
<1>2. ASSUME NEW global \in BOOLEAN, CommitAlarm(global)
      PROVE  Aimed'
  <2> DEFINE chosen == Dispatchable(global)
  <2>1. /\ items \in [Keys -> Item] /\ alarm \in AlarmState /\ leaseSeq \in Nat
        /\ chosen \subseteq Keys
    BY DEF SystemInv, IInv, QueueTypeOK, Dispatchable
  <2>2. PICK ids \in [chosen -> (leaseSeq + 1)..(leaseSeq + Cardinality(chosen))] :
          /\ items' = [k \in Keys |-> IF k \in chosen THEN DispatchLease(items[k], ids[k])
                                                     ELSE Checked(k, global)]
          /\ alarm' = IF chosen = {} THEN IdleAlarm
                      ELSE [alarm EXCEPT !.pc = "dispatching",
                              !.result = [k \in Keys |-> IF k \in chosen THEN "todo" ELSE "none"],
                              !.lease = [k \in Keys |-> IF k \in chosen THEN ids[k]
                                                                       ELSE NoLeaseId]]
    BY <1>2 DEF CommitAlarm, AlarmCommit
  <2>3. Cardinality(chosen) \in Nat
    BY <2>1, LimitAssumption, FS_Subset, FS_CardinalityType
  <2>4. ASSUME NEW k \in Keys, Undispatched(k)'
        PROVE  k \in chosen /\ alarm'.lease[k] = ids[k]
    <3>1. CASE chosen = {}
      BY <2>2, <2>4, <3>1, IdleAlarmShape DEF Undispatched
    <3>2. CASE chosen # {}
      <4>1. /\ alarm'.result = [i \in Keys |-> IF i \in chosen THEN "todo" ELSE "none"]
            /\ alarm'.lease = [i \in Keys |-> IF i \in chosen THEN ids[i] ELSE NoLeaseId]
        BY <2>1, <2>2, <3>2 DEF AlarmState
      <4>2. QED
        BY <2>4, <4>1 DEF Undispatched
    <3>3. QED
      BY <3>1, <3>2
  <2>5. ASSUME NEW k \in chosen
        PROVE  items'[k].lease.id = ids[k] /\ ids[k] # NoLeaseId
    <3>1. ids[k] \in Nat /\ ids[k] > leaseSeq
      BY <2>1, <2>2, <2>3
    <3>2. items'[k] = DispatchLease(items[k], ids[k])
      BY <2>1, <2>2
    <3>3. DispatchLease(items[k], ids[k]).lease.id = ids[k]
      BY <2>1, <3>1, DispatchedWork
    <3>4. QED
      BY <2>1, <3>1, <3>2, <3>3 DEF NoLeaseId
  <2>6. SUFFICES ASSUME NEW j \in Keys, NEW k \in Keys, Undispatched(k)',
                        items'[j].lease.id = alarm'.lease[k]
                 PROVE  j = k
    BY DEF Aimed, Undispatched
  <2>7. items'[j].lease.id = items'[k].lease.id /\ items'[k].lease.id # NoLeaseId
    BY <2>4, <2>5, <2>6
  <2>8. QED
    BY <2>7 DEF SystemInv, IInv, LeasesConsistent
<1>3. QED
  BY <1>1, <1>2, TasksMove

(* A lease keeps its revision, and its run what it was started with.        *)
LEMMA BoundStays ==
  ASSUME SystemInv, SystemInv', LeasesMove, RunInv, Aimed, Bound, [Next]_vars
  PROVE  Bound'
<1>1. leaseSeq \in Nat /\ Runs \subseteq Nat \ {NoRun}
  BY RunsAreNumbers DEF SystemInv, IInv, QueueTypeOK
<1>2. ASSUME \A j \in Runs : KeepsTuple(runs[j], runs'[j])
      PROVE  Bound'
  <2>1. SUFFICES ASSUME NEW k \in Keys, items'[k].lease.id \in Runs,
                        Started(runs'[items'[k].lease.id])
                 PROVE  /\ runs'[items'[k].lease.id].key = k
                        /\ runs'[items'[k].lease.id].revision = items'[k].lease.revision
    BY DEF Bound, BoundTo, Started
  <2> DEFINE id == items'[k].lease.id
  <2>2. /\ Started(runs[id]) /\ runs'[id].key = runs[id].key
        /\ runs'[id].revision = runs[id].revision
    BY <1>2, <2>1 DEF KeepsTuple
  <2>3. ~(id > leaseSeq)
    BY <2>1, <2>2 DEF RunInv, Unstarted, Started
  <2>4. id # NoLeaseId
    BY <1>1, <2>1 DEF NoLeaseId, NoRun
  <2>5. id = items[k].lease.id
    BY <2>3, <2>4 DEF LeasesMove, WritesUnclaimed
  <2>6. items'[k].lease.revision = items[k].lease.revision
    BY <2>4, <2>5 DEF LeasesMove, KeepsHands, SameHands
  <2>7. QED
    BY <2>1, <2>2, <2>5, <2>6 DEF Bound, BoundTo
<1>3. ASSUME NEW k \in Keys, Dispatch(k)
      PROVE  Bound'
  <2> DEFINE id == alarm.lease[k]
             row == [pc |-> "queued", key |-> k, revision |-> items[k].lease.revision,
                     head |-> items[k].lease.decision.head, attempt |-> 1, generation |-> 0]
  <2>1. /\ runs' = [runs EXCEPT ![id] = row] \/ runs' = runs
        /\ UNCHANGED items /\ Undispatched(k) /\ runs \in [Runs -> RunRow]
    BY <1>3 DEF Dispatch, AlarmDispatch, Undispatched, SystemInv, PartiesTypeOK
  <2>2. row.key = k /\ row.revision = items[k].lease.revision
    OBVIOUS
  <2> HIDE DEF row
  <2>3. SUFFICES ASSUME NEW j \in Keys, items[j].lease.id \in Runs,
                        Started(runs'[items[j].lease.id])
                 PROVE  /\ runs'[items[j].lease.id].key = j
                        /\ runs'[items[j].lease.id].revision = items[j].lease.revision
    BY <2>1 DEF Bound, BoundTo, Started
  <2>4. CASE runs'[items[j].lease.id] = runs[items[j].lease.id]
    BY <2>3, <2>4 DEF Bound, BoundTo
  <2>5. CASE items[j].lease.id = id /\ runs'[id] = row
    <3>1. j = k
      BY <2>1, <2>5 DEF Aimed
    <3>2. QED
      BY <2>2, <2>5, <3>1
  <2>6. QED
    BY <2>1, <2>3, <2>4, <2>5
<1>4. QED
  BY <1>2, <1>3, TuplesMove

(* The rows of the audit stay. *)
LEMMA AuditsGrow ==
  ASSUME SystemInv, [Next]_vars
  PROVE  audits \subseteq audits'
<1>1. CASE AlarmStep
  BY <1>1 DEF AlarmStep, Housekeep, AlarmHousekeep, Admit, AlarmAdmit, Probe, AlarmProbe, Dispatch,
              AlarmDispatch, Timeout, Expire, CommitAlarm, AlarmCommit, MergeDispatch, AlarmMerge
<1>2. QED
  BY <1>1, IngressGrows, RunsGrow, OthersGrow DEF Next

(* What was fenced stays audited. *)
LEMMA AuditedClaimStays ==
  ASSUME SystemInv, RunInv, [Next]_vars, NEW f, AuditedClaim(f)
  PROVE  AuditedClaim(f)'
<1>1. audits \subseteq audits' /\ f[1] \in Runs /\ runs[f[1]].pc # "none"
  BY AuditsGrow DEF AuditedClaim
<1>2. PICK a \in audits : Proves(a, f) /\ Places(a, runs[f[1]])
  BY DEF AuditedClaim
<1>3. KeepsTuple(runs[f[1]], runs'[f[1]])
  <2>1. CASE \A j \in Runs : KeepsTuple(runs[j], runs'[j])
    BY <1>1, <2>1
  <2>2. ASSUME NEW k \in Keys, Dispatch(k)
        PROVE  runs'[f[1]] = runs[f[1]]
    <3>1. Undispatched(k) /\ runs \in [Runs -> RunRow]
      BY <2>2 DEF Dispatch, AlarmDispatch, Undispatched, SystemInv, PartiesTypeOK
    <3>2. alarm.lease[k] # f[1]
      BY <1>1, <3>1 DEF RunInv, Unstarted
    <3>3. QED
      BY <1>1, <2>2, <3>1, <3>2 DEF Dispatch
  <2>3. QED
    BY <1>1, <2>1, <2>2, TuplesMove DEF KeepsTuple
<1>4. Places(a, runs'[f[1]]) /\ runs'[f[1]].pc # "none"
  BY <1>1, <1>2, <1>3 DEF Places, KeepsTuple
<1>5. QED
  BY <1>1, <1>2, <1>4 DEF AuditedClaim

(* A claim is fenced by the enqueue that writes its audit row. *)
LEMMA IngestAudits ==
  ASSUME SystemInv, ClaimInv, RunInv, Bound, NEW i \in 1..MaxEvents, Ingest(i),
         NEW f \in fenced', f \notin fenced
  PROVE  AuditedClaim(f)'
<1> DEFINE k == deliveries[i].key
           d == deliveries[i].decision
           item == items[k]
<1>1. k \in Keys /\ d \in Decision /\ UNCHANGED runs
  <2>1. i \in DOMAIN deliveries /\ deliveries \in Seq(Delivery)
    BY DEF Ingest, SystemInv, PartiesTypeOK
  <2>2. deliveries[i] \in Delivery
    BY <2>1
  <2>3. QED
    BY <2>2 DEF Ingest, Delivery
<1>2. /\ item.state # "absent" /\ Admits(item, d) /\ SupersedesActive(item, d)
      /\ item.lease.run # NoRun /\ f = <<item.lease.run, item.lease.attempt, item.lease.generation>>
  BY DEF Ingest
<1>3. EnqueueExisting(k, d)
  BY <1>2 DEF Ingest, Enqueue, EnqueueNew, EnqueueIgnored
<1>4. /\ item \in Item /\ item.revision \in Nat /\ lastRevision \in [Keys -> Nat]
      /\ item.lease.revision <= item.revision
  BY <1>1, Lookup DEF SystemInv, IInv, LeasesConsistent, LeaseConsistent, Item
<1>5. PICK next \in Nat : /\ next > item.revision
                          /\ audits' = audits \cup {SupersessionAudit(k, item.revision, next)}
  <2> DEFINE command == HasCommandContext(item.decision) \/ HasCommandContext(d)
             revision == NextRevision(k, item.revision + 1, command)
  <2>1. revision \in Nat /\ revision > item.revision
    BY <1>1, <1>4 DEF NextRevision
  <2>2. audits' = audits \cup {SupersessionAudit(k, item.revision, revision)}
    BY <1>2, <1>3 DEF EnqueueExisting
  <2> HIDE DEF revision
  <2>3. QED
    BY <2>1, <2>2
<1>6. item.lease.run = item.lease.id /\ item.lease.id \in Runs
      /\ runs[item.lease.id].pc # "none"
  BY <1>1, <1>2, ClaimedRow DEF ClaimInv, Owners, RunInv, Attempts, AttemptSound
<1> DEFINE a == SupersessionAudit(k, item.revision, next)
<1>7. Proves(a, f) /\ a.key = k /\ a.prior = item.revision
  BY <1>2, <1>5, <1>6 DEF SupersessionAudit, Proves
<1>8. f[1] = item.lease.id
  BY <1>2, <1>6
<1> HIDE DEF a
<1>9. Places(a, runs'[f[1]])
  BY <1>1, <1>4, <1>6, <1>7, <1>8 DEF Places, Bound, BoundTo
<1>10. QED
  BY <1>1, <1>5, <1>6, <1>7, <1>8, <1>9 DEF AuditedClaim, a

LEMMA AuditedStays ==
  ASSUME SystemInv, ClaimInv, RunInv, Bound, Audited, [Next]_vars
  PROVE  Audited'
<1>1. ASSUME NEW f \in fenced
      PROVE  AuditedClaim(f)'
  BY AuditedClaimStays DEF Audited
<1>2. \/ fenced' \subseteq fenced
      \/ \E i \in 1..MaxEvents : Ingest(i)
  <2>1. CASE AlarmStep
    BY <2>1 DEF AlarmStep, Housekeep, Admit, Probe, Dispatch, Timeout, CommitAlarm, MergeDispatch,
                history
  <2>2. CASE RunStep
    BY <2>2 DEF RunStep, ClaimBegin, ClaimCommit, Beat, Finish, FinishRefused, Crash, Rerun,
                ReconcileRead, history
  <2>3. CASE IngressStep
    BY <2>3 DEF IngressStep, Reserve, VerifyHead, IssueCommand, IssueBackground, history
  <2>4. CASE UNCHANGED vars \/ GitHubStep \/ \E t \in terminals : ReconcileApply(t)
    BY <2>4 DEF vars, history, GitHubStep, Change, EndTarget, ReconcileApply
  <2>5. QED
    BY <2>1, <2>2, <2>3, <2>4 DEF Next
<1>3. ASSUME NEW f \in fenced'
      PROVE  AuditedClaim(f)'
  BY <1>1, <1>2, <1>3, IngestAudits
<1>4. QED
  BY <1>3 DEF Audited, AuditedClaim

LEMMA FencesInitially == Init => FenceInv
<1> SUFFICES ASSUME Init PROVE FenceInv
  OBVIOUS
<1>1. /\ fenced = {} /\ \A r \in Runs : runs[r].pc = "none"
      /\ \A k \in Keys : ~Undispatched(k)
  BY IdleAlarmShape DEF Init, QueueInit, NoRunRow, Undispatched
<1>2. QED
  BY <1>1 DEF FenceInv, Bound, BoundTo, Started, Aimed, Audited

LEMMA FencesStep == SystemInv /\ ClaimInv /\ RunInv /\ FenceInv /\ [Next]_vars => FenceInv'
<1> SUFFICES ASSUME SystemInv, ClaimInv, RunInv, FenceInv, [Next]_vars PROVE FenceInv'
  OBVIOUS
<1>1. SystemInv' /\ LeasesMove
  BY SystemMoves
<1>2. QED
  BY <1>1, AimedStays, BoundStays, AuditedStays DEF FenceInv

(* The audit row of this claim is of a later revision than its lease's.    *)
Drifted(r) ==
  \E a \in audits : /\ a.key = runs[r].key /\ Proves(a, Claimant(r))
                    /\ a.prior > runs[r].revision

FencedIsToldOrDrifted ==
  \A r \in Runs :
    runs[r].pc = "reviewing" /\ Claimant(r) \in fenced => ToldSuperseded(r) \/ Drifted(r)

(* A claimant that a newer source fenced is told so when it completes,     *)
(* unless its item had moved past the lease's revision when it was         *)
(* superseded: then the row is there and is not found.  No other order of  *)
(* events, re-runs, late calls and expiries hides it.                      *)
THEOREM OnlyDriftHidesFencing == Spec => []FencedIsToldOrDrifted
<1>1. ASSUME SystemInv, FenceInv
      PROVE  FencedIsToldOrDrifted
  <2>1. SUFFICES ASSUME NEW r \in Runs, runs[r].pc = "reviewing", Claimant(r) \in fenced,
                        ~Drifted(r)
                 PROVE  ToldSuperseded(r)
    BY DEF FencedIsToldOrDrifted
  <2>2. /\ Claimant(r)[1] = r /\ Claimant(r)[2] = runs[r].attempt
        /\ Claimant(r)[3] = runs[r].generation
    BY DEF Claimant
  <2>3. PICK a \in audits : Proves(a, Claimant(r)) /\ Places(a, runs[r])
    BY <1>1, <2>1, <2>2 DEF FenceInv, Audited, AuditedClaim
  <2>4. a.key = runs[r].key /\ a.prior >= runs[r].revision
    BY <2>1, <2>3 DEF Places, Started
  <2>5. a.prior \in Nat /\ a.next \in Nat /\ runs[r].revision \in Nat
    BY <1>1, <2>3, RowWrites DEF SystemInv, IInv, QueueTypeOK, Audit, PartiesTypeOK, RunRow
  <2>6. a.prior = runs[r].revision
    BY <2>1, <2>3, <2>4, <2>5 DEF Drifted
  <2>7. QED
    BY <2>2, <2>3, <2>4, <2>5, <2>6 DEF Proves, ToldSuperseded, CompletionConflict, ProvesSuperseded
<1>2. QED
  BY <1>1, SystemInitially, SystemStep, ClaimsInitially, ClaimsStep, RowsInitially, RowsStep,
     FencesInitially, FencesStep, PTL DEF Spec

-----------------------------------------------------------------------------
(* The retry budget.  Failures are charged to one input: what an item has  *)
(* spent on it is covered by the failures and the recoveries that the item *)
(* itself counts, and an item whose input has changed under its lease has  *)
(* spent nothing.                                                          *)

Allowance(item) == RetryLimit * item.recoveries + item.failures

(* marks: the markers of the commands issued so far. *)
BudgetSound(item, n, marks) ==
  /\ item.recoveries <= ParkedRecoveryLimit
  /\ item.failures <= RetryLimit
  /\ item.state # "parked" => item.failures < RetryLimit
  /\ item.state = "absent" => n = 0
  /\ n <= Allowance(item)
  /\ Active(item) /\ InputIdentityChanged(item.lease.decision, item.decision) => n = 0
  /\ item.decision.marker \in marks \cup {NoMarker}

BudgetInv ==
  /\ spent \in [Keys -> Nat]
  /\ \A k \in Keys : BudgetSound(items[k], spent[k], issued)

LEMMA Limits == RetryLimit \in Nat \ {0} /\ ParkedRecoveryLimit \in Nat
BY LimitAssumption

LEMMA OneMoreRound ==
  ASSUME NEW a \in Nat, NEW b \in Nat
  PROVE  a * (b + 1) = a * b + a /\ a * b \in Nat /\ a * 0 = 0
OBVIOUS

LEMMA MoreRounds ==
  ASSUME NEW a \in Nat, NEW b \in Nat, NEW c \in Nat, b <= c
  PROVE  a * b <= a * c
<1>1. PICK d \in Nat : c = b + d
  <2>1. c - b \in Nat /\ c = b + (c - b)
    OBVIOUS
  <2>. QED
    BY <2>1
<1>2. a * c = a * b + a * d /\ a * b \in Nat /\ a * d \in Nat
  BY <1>1
<1>. QED
  BY <1>2

LEMMA AllowanceMoves ==
  ASSUME NEW old \in Item, NEW new \in Item
  PROVE  /\ Allowance(old) \in Nat /\ Allowance(new) \in Nat
         /\ SameBudget(old, new) => Allowance(new) = Allowance(old)
         /\ ChargedOnce(old, new) => Allowance(new) = Allowance(old) + 1
         /\ new.recoveries = old.recoveries + 1 /\ new.failures = 0
              /\ old.failures <= RetryLimit => Allowance(new) >= Allowance(old)
<1>1. /\ old.recoveries \in Nat /\ old.failures \in Nat
      /\ new.recoveries \in Nat /\ new.failures \in Nat /\ RetryLimit \in Nat
  BY Limits DEF Item
<1>2. /\ RetryLimit * old.recoveries \in Nat /\ RetryLimit * new.recoveries \in Nat
      /\ RetryLimit * (old.recoveries + 1) = RetryLimit * old.recoveries + RetryLimit
  BY <1>1, OneMoreRound
<1> DEFINE p == RetryLimit * old.recoveries
           q == RetryLimit * new.recoveries
<1>3. /\ new.recoveries = old.recoveries => q = p
      /\ new.recoveries = old.recoveries + 1 => q = p + RetryLimit
  BY <1>2
<1>4. Allowance(old) = p + old.failures /\ Allowance(new) = q + new.failures
  BY DEF Allowance
<1>5. p \in Nat /\ q \in Nat
  BY <1>2
<1> HIDE DEF p, q
<1>. QED
  BY <1>1, <1>3, <1>4, <1>5 DEF SameBudget, ChargedOnce

(* The item keeps what it counts, and has spent no more. *)
LEMMA BudgetStands ==
  ASSUME NEW old \in Item, NEW new \in Item, NEW n \in Nat, NEW m \in Nat, m <= n,
         NEW marks, BudgetSound(old, n, marks),
         SameWork(old, new), SameBudget(old, new),
         new.state = "parked" \/ old.state # "parked",
         new.state = "absent" => old.state = "absent",
         \/ ~Active(new)
         \/ new.lease.decision = new.decision
         \/ Active(old) /\ new.lease.decision = old.lease.decision
  PROVE  BudgetSound(new, m, marks)
<1>1. Allowance(new) = Allowance(old) /\ Allowance(old) \in Nat
  BY AllowanceMoves
<1>2. Active(new) /\ InputIdentityChanged(new.lease.decision, new.decision) => m = 0
  <2>1. InputIdentityChanged(new.lease.decision, new.decision) =>
          new.lease.decision # new.decision
    BY DEF InputIdentityChanged
  <2>. QED
    BY <2>1 DEF BudgetSound, SameWork
<1>. QED
  BY <1>1, <1>2 DEF BudgetSound, SameWork, SameBudget

(* A new input starts afresh. *)
LEMMA BudgetStartsAfresh ==
  ASSUME NEW new \in Item, NEW marks, new.failures = 0, new.recoveries = 0,
         new.decision.marker \in marks \cup {NoMarker}
  PROVE  BudgetSound(new, 0, marks)
<1>1. Allowance(new) \in Nat
  BY AllowanceMoves
<1>. QED
  BY <1>1, Limits DEF BudgetSound

LEMMA NothingSpent ==
  ASSUME NEW marks
  PROVE  BudgetSound(Absent, 0, marks)
BY EmptyRecords, BudgetStartsAfresh DEF Absent, NoDecision

LEMMA BudgetIsCharged ==
  ASSUME NEW old \in Item, NEW new \in Item, NEW n \in Nat, NEW m \in Nat, m <= n + 1,
         NEW marks, BudgetSound(old, n, marks), old.state # "parked",
         SameWork(old, new), ChargedOnce(old, new)
  PROVE  BudgetSound(new, m, marks)
<1>1. Allowance(new) = Allowance(old) + 1 /\ Allowance(old) \in Nat
  BY AllowanceMoves
<1>2. old.failures \in Nat /\ RetryLimit \in Nat
  BY Limits DEF Item
<1>3. ~Active(new)
  BY DEF ChargedOnce, Active
<1>. QED
  BY <1>1, <1>2, <1>3 DEF BudgetSound, SameWork, ChargedOnce

LEMMA BudgetIsReclaimed ==
  ASSUME NEW item \in Item, NEW n \in Nat, NEW m \in Nat, m <= n, NEW marks,
         BudgetSound(item, n, marks), Reclaimed(item).state = "absent" => m = 0
  PROVE  BudgetSound(Reclaimed(item), m, marks)
<1> DEFINE new == Reclaimed(item)
           changed == InputIdentityChanged(item.lease.decision, item.decision)
<1>1. CASE new = item
  BY <1>1, BudgetStands DEF SameWork, SameBudget
<1>2. CASE new = Absent
  BY <1>2, NothingSpent DEF Absent
<1>3. CASE /\ Active(item) /\ new \in Item /\ SameWork(item, new) /\ new.state = "pending"
           /\ new.recoveries = item.recoveries
           /\ new.failures = IF changed THEN 0 ELSE item.failures
  <2>1. ~Active(new) /\ item.state # "parked"
    BY <1>3 DEF Active
  <2>2. CASE changed
    <3>1. m = 0
      BY <1>3, <2>2 DEF BudgetSound
    <3>2. Allowance(new) \in Nat
      BY <1>3, AllowanceMoves
    <3>. QED
      BY <1>3, <2>1, <2>2, <3>1, <3>2, Limits DEF BudgetSound, SameWork
  <2>3. CASE ~changed
    BY <1>3, <2>1, <2>3, BudgetStands DEF SameBudget
  <2>. QED
    BY <2>2, <2>3
<1>. QED
  BY <1>1, <1>2, <1>3, ReclaimedWork

LEMMA BudgetIsRecovered ==
  ASSUME NEW item \in Item, NEW n \in Nat, NEW m \in Nat, m <= n, NEW marks,
         BudgetSound(item, n, marks), Recoverable(item)
  PROVE  BudgetSound(Recovered(item), m, marks)
<1> DEFINE new == Recovered(item)
<1>1. /\ new \in Item /\ SameWork(item, new) /\ new.state = "pending"
      /\ new.failures = 0 /\ new.recoveries = item.recoveries + 1
  BY RecoveredWork DEF Recoverable
<1> HIDE DEF new
<1>2. Allowance(new) >= Allowance(item) /\ Allowance(item) \in Nat /\ Allowance(new) \in Nat
  BY <1>1, AllowanceMoves DEF BudgetSound
<1>3. item.recoveries \in Nat /\ ~Active(new)
  BY <1>1 DEF Item, Active
<1>4. new.recoveries <= ParkedRecoveryLimit
  BY <1>1, <1>3, Limits DEF Recoverable
<1>. QED
  BY <1>1, <1>2, <1>3, <1>4, Limits DEF BudgetSound, SameWork, new

(* What a step charges. *)
LEMMA Charging ==
  ASSUME spent \in [Keys -> Nat], NEW charged, NEW renewed, Charge(charged, renewed)
  PROVE  /\ spent' \in [Keys -> Nat]
         /\ \A k \in Keys :
              /\ spent'[k] <= spent[k] + 1
              /\ k \notin charged => spent'[k] <= spent[k]
              /\ (\/ items'[k].state = "absent" \/ k \in renewed
                  \/ InputIdentityChanged(items[k].decision, items'[k].decision))
                   => spent'[k] = 0
<1> DEFINE over(k) == \/ items'[k].state = "absent" \/ k \in renewed
                      \/ InputIdentityChanged(items[k].decision, items'[k].decision)
           one(k) == IF k \in charged THEN 1 ELSE 0
<1>1. spent' = [k \in Keys |-> IF over(k) THEN 0 ELSE spent[k] + one(k)]
  BY DEF Charge
<1>2. \A k \in Keys : one(k) \in {0, 1} /\ (k \notin charged => one(k) = 0)
  OBVIOUS
<1> HIDE DEF one, over
<1>3. ASSUME NEW k \in Keys
      PROVE  /\ spent'[k] \in Nat /\ spent'[k] <= spent[k] + 1
             /\ k \notin charged => spent'[k] <= spent[k]
             /\ over(k) => spent'[k] = 0
  <2>1. spent'[k] = IF over(k) THEN 0 ELSE spent[k] + one(k)
    BY <1>1
  <2>2. spent[k] \in Nat /\ one(k) \in {0, 1} /\ (k \notin charged => one(k) = 0)
    BY <1>2
  <2>. QED
    BY <2>1, <2>2
<1>4. spent' \in [Keys -> Nat]
  BY <1>1, <1>3
<1>. QED
  BY <1>3, <1>4 DEF over

LEMMA BudgetAt ==
  ASSUME SystemInv, BudgetInv, NEW k \in Keys
  PROVE  /\ items[k] \in Item /\ LeaseConsistent(items[k], leaseSeq) /\ spent[k] \in Nat
         /\ BudgetSound(items[k], spent[k], issued)
         /\ items \in [Keys -> Item] /\ spent \in [Keys -> Nat]
BY Lookup DEF SystemInv, IInv, QueueTypeOK, BudgetInv

LEMMA SameItemBudget ==
  ASSUME SystemInv, BudgetInv, NEW k \in Keys, NEW m \in Nat, m <= spent[k]
  PROVE  BudgetSound(items[k], m, issued)
BY BudgetAt, BudgetStands DEF SameWork, SameBudget

(* Only one item moves. *)
LEMMA ItemBudget ==
  ASSUME SystemInv, BudgetInv, NEW k \in Keys, NEW STATE new,
         items' = [items EXCEPT ![k] = new], NEW charged, NEW renewed,
         charged \subseteq {k}, Charge(charged, renewed), issued \subseteq issued',
         BudgetSound(new, spent'[k], issued')
  PROVE  BudgetInv'
<1>1. /\ spent' \in [Keys -> Nat]
      /\ \A j \in Keys : j \notin charged => spent'[j] <= spent[j]
  BY Charging DEF BudgetInv
<1>2. items'[k] = new /\ \A j \in Keys \ {k} : items'[j] = items[j]
  BY BudgetAt
<1>3. ASSUME NEW j \in Keys
      PROVE  BudgetSound(items'[j], spent'[j], issued')
  <2>1. CASE j = k
    BY <1>2, <2>1
  <2>2. CASE j # k
    <3>1. spent'[j] \in Nat /\ spent'[j] <= spent[j]
      BY <1>1, <2>2
    <3>2. BudgetSound(items[j], spent'[j], issued)
      BY <3>1, SameItemBudget
    <3>3. BudgetSound(items[j], spent'[j], issued')
      BY <3>2 DEF BudgetSound
    <3>. QED
      BY <1>2, <2>2, <3>3
  <2>. QED
    BY <2>1, <2>2
<1>. QED
  BY <1>1, <1>3 DEF BudgetInv

(* No item moves, and nothing is charged. *)
LEMMA NobodyCharged ==
  ASSUME SystemInv, BudgetInv, UNCHANGED <<items, issued>>, Charge({}, {})
  PROVE  BudgetInv'
<1>1. /\ spent' \in [Keys -> Nat] /\ \A j \in Keys : spent'[j] <= spent[j]
  BY Charging DEF BudgetInv
<1>2. ASSUME NEW j \in Keys
      PROVE  BudgetSound(items[j], spent'[j], issued)
  BY <1>1, SameItemBudget
<1>. QED
  BY <1>1, <1>2 DEF BudgetInv

LEMMA BudgetUntouched ==
  ASSUME BudgetInv, UNCHANGED <<items, issued, spent>>
  PROVE  BudgetInv'
BY DEF BudgetInv

(* Claims, heartbeats and the clock charge nothing. *)
LEMMA HandlerBudget ==
  ASSUME SystemInv, BudgetInv, NEW k \in Keys, NEW id \in Nat, NEW revision \in Nat,
         NEW run \in Nat, NEW attempt \in Nat, NEW generation \in Nat,
         NEW head \in Nat, NEW ph \in Phases,
         \/ ReclaimOnTouch(k) \/ Expire(k)
         \/ ClaimLease(k, id, revision, run, attempt)
         \/ ClaimTerminal(k, id, revision, run)
         \/ Heartbeat(k, id, revision, run, attempt, generation, head, ph)
         \/ HeartbeatSuperseded(k, id, revision, run, attempt, generation, head, ph),
         Charge({}, {}), UNCHANGED issued
  PROVE  BudgetInv'
<1> DEFINE item == items[k]
<1>1. /\ item \in Item /\ LeaseConsistent(item, leaseSeq) /\ spent[k] \in Nat
      /\ BudgetSound(item, spent[k], issued) /\ items \in [Keys -> Item]
      /\ spent \in [Keys -> Nat]
  BY BudgetAt
<1>2. /\ spent'[k] \in Nat /\ spent'[k] <= spent[k]
      /\ items'[k].state = "absent" => spent'[k] = 0
  BY <1>1, Charging
<1>3. ASSUME NEW STATE new, items' = [items EXCEPT ![k] = new],
             BudgetSound(new, spent'[k], issued)
      PROVE  BudgetInv'
  BY <1>3, ItemBudget
<1>4. ASSUME NEW new \in Item, SameWork(item, new), SameBudget(item, new),
             new.state # "absent", new.state = "parked" \/ item.state # "parked",
             \/ ~Active(new)
             \/ Active(item) /\ new.lease.decision = item.lease.decision
      PROVE  BudgetSound(new, spent'[k], issued)
  BY <1>1, <1>2, <1>4, BudgetStands
<1>5. CASE ReclaimOnTouch(k)
  <2>1. items' = [items EXCEPT ![k] = Reclaimed(item)]
    BY <1>5 DEF ReclaimOnTouch
  <2>2. items'[k] = Reclaimed(item)
    BY <1>1, <2>1
  <2>3. BudgetSound(Reclaimed(item), spent'[k], issued)
    BY <1>1, <1>2, <2>2, BudgetIsReclaimed
  <2>. QED
    BY <1>3, <2>1, <2>3
<1>6. CASE Expire(k)
  <2> DEFINE new == [item EXCEPT !.lease.expired = TRUE]
  <2>1. items' = [items EXCEPT ![k] = new] /\ Active(item)
    BY <1>6 DEF Expire, SystemInv, IInv, QueueTypeOK
  <2>2. /\ new \in Item /\ new.state = item.state
        /\ SameWork(item, new) /\ SameBudget(item, new) /\ SameLease(item, new)
    BY <1>1, ExpiredWork
  <2> HIDE DEF new
  <2>3. BudgetSound(new, spent'[k], issued)
    BY <1>4, <2>1, <2>2 DEF SameLease, Active
  <2>. QED
    BY <1>3, <2>1, <2>3
<1>7. CASE ClaimLease(k, id, revision, run, attempt)
  <2>1. item.lease.id # NoLeaseId
    BY <1>7 DEF ClaimLease, Claimable, Live
  <2>2. Active(item)
    BY <1>1, <2>1 DEF LeaseConsistent
  <2>3. /\ items' = [items EXCEPT ![k] = items'[k]] /\ items'[k].state = "leased"
        /\ SameWork(item, items'[k]) /\ SameLease(item, items'[k])
        /\ SameBudget(item, items'[k]) /\ items'[k] \in Item
    BY <1>1, <1>7, ClaimLeaseWork
  <2>4. BudgetSound(items'[k], spent'[k], issued)
    BY <1>4, <2>2, <2>3 DEF SameLease, Active
  <2>. QED
    BY <1>3, <2>3, <2>4
<1>8. CASE ClaimTerminal(k, id, revision, run)
  <2>1. items' = [items EXCEPT ![k] = Absent]
    BY <1>8 DEF ClaimTerminal
  <2>2. spent'[k] = 0
    BY <1>1, <1>2, <2>1 DEF Absent
  <2>. QED
    BY <1>3, <2>1, <2>2, NothingSpent
<1>9. CASE Heartbeat(k, id, revision, run, attempt, generation, head, ph)
  <2> DEFINE new == [item EXCEPT !.lease.phase = ph]
  <2>1. items' = [items EXCEPT ![k] = new] /\ Active(item)
    BY <1>9 DEF Heartbeat, OwnsHeartbeat, Active, SystemInv, IInv, QueueTypeOK
  <2>2. /\ new \in Item /\ new.state = item.state
        /\ SameWork(item, new) /\ SameBudget(item, new) /\ SameLease(item, new)
    BY <1>1, BeatenWork
  <2> HIDE DEF new
  <2>3. BudgetSound(new, spent'[k], issued)
    BY <1>4, <2>1, <2>2 DEF SameLease, Active
  <2>. QED
    BY <1>3, <2>1, <2>3
<1>10. CASE HeartbeatSuperseded(k, id, revision, run, attempt, generation, head, ph)
  <2> DEFINE new == Requeued(item)
  <2>1. /\ items' = [items EXCEPT ![k] = new] /\ item.state = "leased"
    BY <1>10 DEF HeartbeatSuperseded, OwnsHeartbeat
  <2>2. /\ new \in Item /\ SameWork(item, new) /\ SameBudget(item, new)
        /\ new.state = "pending"
    BY <1>1, <2>1, RequeuedWork
  <2> HIDE DEF new
  <2>3. BudgetSound(new, spent'[k], issued)
    BY <1>4, <2>1, <2>2 DEF Active
  <2>. QED
    BY <1>3, <2>1, <2>3
<1>. QED
  BY <1>5, <1>6, <1>7, <1>8, <1>9, <1>10

(* A report charges the failure of a review to the input it was for. *)
LEMMA ReportBudget ==
  ASSUME SystemInv, BudgetInv, NEW k \in Keys, NEW report \in Report, ValidReport(report),
         items' = [items EXCEPT ![k] = Finished(items[k], report)], Active(items[k]),
         NEW renewed, report.success => k \in renewed,
         Charge(Charged(k, report), renewed), UNCHANGED issued
  PROVE  BudgetInv'
<1> DEFINE item == items[k]
           new == Finished(item, report)
           other == InputIdentityChanged(item.lease.decision, item.decision)
<1>1. /\ item \in Item /\ LeaseConsistent(item, leaseSeq) /\ spent[k] \in Nat
      /\ BudgetSound(item, spent[k], issued) /\ items \in [Keys -> Item]
      /\ spent \in [Keys -> Nat] /\ items'[k] = new
  BY BudgetAt
<1>2. /\ spent'[k] \in Nat /\ spent'[k] <= spent[k] + 1
      /\ k \notin Charged(k, report) => spent'[k] <= spent[k]
      /\ items'[k].state = "absent" \/ k \in renewed => spent'[k] = 0
  BY <1>1, Charging
<1>3. /\ Charged(k, report) \subseteq {k}
      /\ k \in Charged(k, report) => ~report.success /\ ~report.deferral /\ ~other
  BY DEF Charged
<1>4. other => spent[k] = 0
  BY <1>1 DEF BudgetSound
<1>5. item.state \notin {"absent", "parked"}
  BY DEF Active
<1>6. BudgetSound(new, spent'[k], issued)
  <2>1. CASE new = Absent
    <3>1. spent'[k] = 0
      BY <1>1, <1>2, <2>1 DEF Absent
    <3>. QED
      BY <2>1, <3>1, NothingSpent
  <2>2. CASE /\ new \in Item /\ SameWork(item, new) /\ SameBudget(item, new)
             /\ new.state = "pending" /\ report.deferral
    <3>1. spent'[k] <= spent[k] /\ ~Active(new)
      BY <1>2, <1>3, <2>2 DEF Active
    <3>. QED
      BY <1>1, <1>2, <1>5, <2>2, <3>1, BudgetStands
  <2>3. CASE new \in Item /\ SameWork(item, new) /\ ChargedOnce(item, new)
    BY <1>1, <1>2, <1>5, <2>3, BudgetIsCharged
  <2>4. CASE /\ new \in Item /\ SameWork(item, new) /\ Renewed(new)
             /\ other \/ report.success
    <3>1. spent'[k] = 0
      BY <1>1, <1>2, <1>3, <1>4, <2>4
    <3>. QED
      BY <1>1, <2>4, <3>1, BudgetStartsAfresh DEF Renewed, SameWork, BudgetSound
  <2>. QED
    BY <1>1, <1>5, <2>1, <2>2, <2>3, <2>4, FinishedWork
<1> HIDE DEF new
<1>. QED
  BY <1>3, <1>6, ItemBudget DEF new

(* An enqueue: another input starts afresh, the same input keeps what it   *)
(* has spent, and the marker of a command is never used twice.             *)
LEMMA EnqueueBudget ==
  ASSUME SystemInv, BudgetInv, NEW k \in Keys, NEW d \in Decision, Enqueue(k, d),
         Charge({}, {}), issued \subseteq issued',
         HasCommandContext(d) => d.marker \in issued' \ issued
  PROVE  BudgetInv'
<1> DEFINE item == items[k]
           merged == MergedDecision(item, d)
<1>1. /\ item \in Item /\ spent[k] \in Nat /\ BudgetSound(item, spent[k], issued)
      /\ items \in [Keys -> Item] /\ spent \in [Keys -> Nat]
  BY BudgetAt
<1>2. /\ spent'[k] \in Nat /\ spent'[k] <= spent[k]
      /\ InputIdentityChanged(item.decision, items'[k].decision) => spent'[k] = 0
  BY <1>1, Charging
<1>3. ASSUME NEW STATE new, items' = [items EXCEPT ![k] = new],
             BudgetSound(new, spent'[k], issued')
      PROVE  BudgetInv'
  BY <1>3, ItemBudget
<1>4. CASE EnqueueNew(k, d)
  <2>1. PICK revision \in Nat : items' = [items EXCEPT ![k] =
               [Absent EXCEPT !.state = "pending", !.revision = revision, !.decision = d,
                              !.watermark = AdvanceWatermark(NoWatermark, d)]]
    <3>1. lastRevision[k] \in Nat
      BY DEF SystemInv, IInv, QueueTypeOK
    <3>2. NextRevision(k, 1, HasCommandContext(d)) \in Nat
      BY <3>1 DEF NextRevision
    <3>. QED
      BY <1>4, <3>2 DEF EnqueueNew
  <2> DEFINE new == [Absent EXCEPT !.state = "pending", !.revision = revision, !.decision = d,
                                   !.watermark = AdvanceWatermark(NoWatermark, d)]
  <2>2. /\ new \in Item /\ new.state = "pending" /\ new.decision = d
        /\ new.failures = 0 /\ new.recoveries = 0
    BY FreshWork
  <2>3. items' = [items EXCEPT ![k] = new]
    BY <2>1
  <2> HIDE DEF new
  <2>4. d.marker \in issued' \cup {NoMarker}
    BY DEF HasCommandContext
  <2>5. spent'[k] = 0
    <3>1. spent[k] = 0
      BY <1>1, <1>4 DEF EnqueueNew, BudgetSound
    <3>. QED
      BY <1>1, <1>2, <3>1
  <2>. QED
    BY <1>3, <2>2, <2>3, <2>4, <2>5, BudgetStartsAfresh
<1>5. CASE EnqueueExisting(k, d)
  <2>1. PICK revision \in Nat : items' = [items EXCEPT ![k] = Updated(item, d, revision)]
    BY <1>5, EnqueueWrites
  <2> DEFINE new == Updated(item, d, revision)
             freed == IF SupersedesActive(item, d) THEN Requeued(item) ELSE item
             fresh == Mergeable(freed) /\ ~KeepsRetryBudget(item, d)
  <2>2. /\ new \in Item /\ new.decision = merged
        /\ new.state = IF fresh THEN "pending" ELSE freed.state
        /\ new.failures = IF fresh THEN 0 ELSE item.failures
        /\ new.recoveries = IF fresh THEN 0 ELSE item.recoveries
        /\ new.lease.decision = freed.lease.decision
    BY <1>1, UpdatedFields
  <2>3. items' = [items EXCEPT ![k] = new] /\ items'[k] = new
    BY <1>1, <2>1
  <2>4. /\ merged.marker \in issued' \cup {NoMarker}
        /\ HasCommandContext(d) => InputIdentityChanged(item.decision, merged)
    <3>1. /\ merged.marker \in {d.marker, item.decision.marker}
          /\ HasCommandContext(d) => merged.marker = d.marker
      BY DEF MergedDecision, mergePending, HasCommandContext
    <3>2. item.decision.marker \in issued \cup {NoMarker}
      BY <1>1 DEF BudgetSound
    <3>3. merged.marker # item.decision.marker => InputIdentityChanged(item.decision, merged)
      BY DEF InputIdentityChanged, InputIdentity
    <3> HIDE DEF merged
    <3>. QED
      BY <3>1, <3>2, <3>3 DEF HasCommandContext
  <2>5. fresh => spent'[k] = 0
    <3>1. fresh => Mergeable(item) \/ SupersedesActive(item, d)
      OBVIOUS
    <3>2. fresh => InputIdentityChanged(item.decision, merged)
      BY <2>4, <3>1 DEF KeepsRetryBudget
    <3>. QED
      BY <1>2, <2>2, <2>3, <3>2
  <2>6. ~fresh => BudgetSound(new, spent'[k], issued')
    <3>1. /\ freed.state # "parked" => item.failures < RetryLimit
          /\ freed.state = "absent" => spent[k] = 0
          /\ Active(freed) => /\ Active(item) /\ freed.lease.decision = item.lease.decision
      BY <1>1, RequeuedItem DEF BudgetSound, SupersedesActive, Active
    <3> HIDE DEF new, freed, fresh, merged
    <3>2. ASSUME ~fresh
          PROVE  /\ new.state # "parked" => new.failures < RetryLimit
                 /\ new.state = "absent" => spent'[k] = 0
                 /\ Active(new) /\ InputIdentityChanged(new.lease.decision, new.decision)
                      => spent'[k] = 0
      <4>1. new.state = freed.state /\ new.failures = item.failures
        BY <2>2, <3>2
      <4>2. spent[k] = 0 => spent'[k] = 0
        BY <1>1, <1>2
      <4>3. ASSUME Active(new), InputIdentityChanged(new.lease.decision, new.decision)
            PROVE  spent'[k] = 0
        <5>1. Active(item) /\ new.lease.decision = item.lease.decision
          BY <2>2, <3>1, <4>1, <4>3 DEF Active
        <5>2. \/ InputIdentityChanged(item.lease.decision, item.decision)
              \/ InputIdentityChanged(item.decision, new.decision)
          BY <4>3, <5>1 DEF InputIdentityChanged
        <5>3. InputIdentityChanged(item.lease.decision, item.decision) => spent[k] = 0
          BY <1>1, <5>1 DEF BudgetSound
        <5>. QED
          BY <1>2, <2>3, <4>2, <5>2, <5>3
      <4>. QED
        BY <3>1, <4>1, <4>2, <4>3
    <3>3. ASSUME ~fresh
          PROVE  /\ new.failures = item.failures /\ new.recoveries = item.recoveries
                 /\ Allowance(new) = Allowance(item) /\ Allowance(item) \in Nat
      BY <1>1, <2>2, <3>3, AllowanceMoves DEF SameBudget
    <3>. QED
      BY <1>1, <1>2, <2>2, <2>4, <3>2, <3>3 DEF BudgetSound
  <2>7. fresh => BudgetSound(new, spent'[k], issued')
    BY <2>2, <2>4, <2>5, BudgetStartsAfresh
  <2> HIDE DEF new, fresh
  <2>. QED
    BY <1>3, <2>3, <2>6, <2>7
<1>6. CASE EnqueueIgnored(k, d)
  <2>1. UNCHANGED items
    BY <1>6 DEF EnqueueIgnored, queueVars
  <2>2. items' = [items EXCEPT ![k] = item]
    BY <1>1, <2>1
  <2>3. BudgetSound(item, spent'[k], issued)
    BY <1>2, SameItemBudget
  <2>4. BudgetSound(item, spent'[k], issued')
    BY <2>3 DEF BudgetSound
  <2>. QED
    BY <1>3, <2>2, <2>4
<1>. QED
  BY <1>4, <1>5, <1>6 DEF Enqueue

LEMMA IngressBudget ==
  ASSUME SystemInv, SourceInv, BudgetInv, IngressStep
  PROVE  BudgetInv'
<1>1. ASSUME NEW i \in 1..MaxEvents, Reserve(i) \/ VerifyHead(i)
      PROVE  BudgetInv'
  BY <1>1, BudgetUntouched DEF Reserve, VerifyHead, queueVars, history
<1>2. ASSUME NEW i \in 1..MaxEvents, Ingest(i)
      PROVE  BudgetInv'
  <2>1. i \in DOMAIN deliveries /\ deliveries \in Seq(Delivery) /\ deliveries[i].pc = "verified"
    BY <1>2 DEF Ingest, SystemInv, PartiesTypeOK
  <2>2. deliveries[i] \in Delivery
    BY <2>1
  <2>3. /\ deliveries[i].key \in Keys /\ deliveries[i].decision \in Decision
        /\ ~HasCommandContext(deliveries[i].decision)
    BY <2>1, <2>2 DEF Delivery, SourceInv, DeliveriesSound, DeliverySound, HasCommandContext
  <2>. QED
    BY <1>2, <2>3, EnqueueBudget DEF Ingest
<1>3. ASSUME NEW k \in Keys, NEW m \in Markers, IssueCommand(k, m)
      PROVE  BudgetInv'
  <2> DEFINE d == [NoDecision EXCEPT !.action = "command", !.marker = m]
  <2>1. d \in Decision /\ d.marker = m
    BY EmptyRecords DEF Decision, Actions
  <2>2. Enqueue(k, d) /\ Charge({}, {}) /\ issued' = issued \cup {m} /\ m \notin issued
    BY <1>3 DEF IssueCommand
  <2> HIDE DEF d
  <2>. QED
    BY <2>1, <2>2, EnqueueBudget
<1>4. ASSUME NEW k \in Keys, NEW action \in {"recovery", "scheduled"},
             IssueBackground(k, action)
      PROVE  BudgetInv'
  <2> DEFINE d == [NoDecision EXCEPT !.action = action]
  <2>1. d \in Decision /\ ~HasCommandContext(d)
    BY EmptyRecords DEF Decision, Actions, HasCommandContext, NoDecision
  <2>2. Enqueue(k, d) /\ Charge({}, {}) /\ UNCHANGED issued
    BY <1>4 DEF IssueBackground
  <2> HIDE DEF d
  <2>. QED
    BY <2>1, <2>2, EnqueueBudget
<1>. QED
  BY <1>1, <1>2, <1>3, <1>4 DEF IngressStep

LEMMA RunBudget ==
  ASSUME SystemInv, BudgetInv, NEW r \in Runs
  PROVE  /\ ClaimBegin(r) \/ ClaimCommit(r) => BudgetInv'
         /\ \A phase \in Phases : Beat(r, phase) => BudgetInv'
         /\ \A report \in Report, lost \in BOOLEAN : Finish(r, report, lost) => BudgetInv'
         /\ FinishRefused(r) \/ Crash(r) \/ Rerun(r) \/ ReconcileRead(r) => BudgetInv'
<1> DEFINE k == runs[r].key
<1>1. /\ k \in Keys /\ runs[r].attempt \in Nat /\ runs[r].revision \in Nat
      /\ runs[r].generation \in Nat /\ runs[r].head \in Nat /\ r \in Nat
  BY RunCalls, RunsAreNumbers DEF SystemInv
<1>2. ASSUME ClaimBegin(r)
      PROVE  BudgetInv'
  <2>1. Charge({}, {}) /\ UNCHANGED issued /\ (ReclaimOnTouch(k) \/ UNCHANGED items)
    BY <1>2 DEF ClaimBegin, queueVars
  <2>2. "review" \in Phases
    BY DEF Phases
  <2>. QED
    BY <1>1, <2>1, <2>2, HandlerBudget, NobodyCharged
<1>3. ASSUME ClaimCommit(r)
      PROVE  BudgetInv'
  <2>1. /\ Charge({}, {}) /\ UNCHANGED issued
        /\ \/ ClaimLease(k, r, runs[r].revision, r, runs[r].attempt)
           \/ ClaimTerminal(k, r, runs[r].revision, r)
           \/ UNCHANGED items
    BY <1>3 DEF ClaimCommit, ClaimAgain, queueVars
  <2>2. "review" \in Phases
    BY DEF Phases
  <2>. QED
    BY <1>1, <2>1, <2>2, HandlerBudget, NobodyCharged
<1>4. ASSUME NEW phase \in Phases, Beat(r, phase)
      PROVE  BudgetInv'
  <2>1. /\ Charge({}, {}) /\ UNCHANGED issued
        /\ \/ Heartbeat(k, r, runs[r].revision, r, runs[r].attempt, runs[r].generation,
                        runs[r].head, phase)
           \/ HeartbeatSuperseded(k, r, runs[r].revision, r, runs[r].attempt,
                                  runs[r].generation, runs[r].head, phase)
    BY <1>4 DEF Beat
  <2>. QED
    BY <1>1, <2>1, HandlerBudget
<1>5. ASSUME NEW report \in Report, NEW lost \in BOOLEAN, Finish(r, report, lost)
      PROVE  BudgetInv'
  <2> DEFINE renewed == IF report.success THEN {k} ELSE {}
  <2>1. /\ items' = [items EXCEPT ![k] = Finished(items[k], report)] /\ ValidReport(report)
        /\ items[k].lease.id # NoLeaseId
        /\ Charge(Charged(k, report), renewed) /\ UNCHANGED issued
    BY <1>5 DEF Finish, Complete, OwnsCompletion
  <2>2. Active(items[k])
    BY <1>1, <2>1, BudgetAt DEF LeaseConsistent
  <2>3. report.success => k \in renewed
    OBVIOUS
  <2> HIDE DEF renewed
  <2>. QED
    BY <1>1, <2>1, <2>2, <2>3, ReportBudget
<1>6. ASSUME FinishRefused(r) \/ Crash(r) \/ Rerun(r) \/ ReconcileRead(r)
      PROVE  BudgetInv'
  BY <1>6, BudgetUntouched
     DEF FinishRefused, Crash, Rerun, ReconcileRead, queueVars, history
<1>. QED
  BY <1>2, <1>3, <1>4, <1>5, <1>6

LEMMA ReconcileBudget ==
  ASSUME SystemInv, BudgetInv, NEW t \in terminals, ReconcileApply(t)
  PROVE  BudgetInv'
<1> DEFINE k == t.key
<1>1. k \in Keys /\ UNCHANGED issued
  BY DEF ReconcileApply, SystemInv, PartiesTypeOK
<1>2. CASE UNCHANGED queueVars /\ Charge({}, {})
  BY <1>1, <1>2, NobodyCharged DEF queueVars
<1>3. CASE /\ Reconcile(k, t.run, t.attempt, t.generation, FailureReport)
           /\ Charge(Charged(k, FailureReport), {})
  <2>1. /\ items' = [items EXCEPT ![k] = Finished(items[k], FailureReport)]
        /\ items[k].state = "leased"
    BY <1>3 DEF Reconcile, ReconcileMatches
  <2>2. FailureReport \in Report /\ ValidReport(FailureReport) /\ ~FailureReport.success
    BY DEF FailureReport, Report, ValidReport
  <2>3. Active(items[k])
    BY <2>1 DEF Active
  <2>. QED
    BY <1>1, <1>3, <2>1, <2>2, <2>3, ReportBudget
<1>. QED
  BY <1>2, <1>3 DEF ReconcileApply

(* The alarm's rewrites. *)
LEMMA EveryBudget ==
  ASSUME BudgetInv, spent' \in [Keys -> Nat], UNCHANGED issued,
         \A k \in Keys : BudgetSound(items'[k], spent'[k], issued)
  PROVE  BudgetInv'
BY DEF BudgetInv

LEMMA RewritesBudget ==
  ASSUME SystemInv, BudgetInv, Charge({}, {}), UNCHANGED issued,
         \A k \in Keys : \/ items'[k] = Reclaimed(items[k])
                         \/ Recoverable(items[k]) /\ items'[k] = Recovered(items[k])
  PROVE  BudgetInv'
<1>1. /\ spent' \in [Keys -> Nat]
      /\ \A k \in Keys : /\ spent'[k] <= spent[k]
                         /\ items'[k].state = "absent" => spent'[k] = 0
  BY Charging DEF BudgetInv
<1>2. ASSUME NEW k \in Keys
      PROVE  BudgetSound(items'[k], spent'[k], issued)
  <2>1. spent'[k] \in Nat /\ spent'[k] <= spent[k] /\ items[k] \in Item /\ spent[k] \in Nat
        /\ BudgetSound(items[k], spent[k], issued)
    BY <1>1, BudgetAt
  <2>2. CASE items'[k] = Reclaimed(items[k])
    BY <1>1, <2>1, <2>2, BudgetIsReclaimed
  <2>3. CASE Recoverable(items[k]) /\ items'[k] = Recovered(items[k])
    BY <2>1, <2>3, BudgetIsRecovered
  <2>. QED
    BY <2>2, <2>3
<1>. QED
  BY <1>1, <1>2, EveryBudget

LEMMA MergeBudget ==
  ASSUME SystemInv, BudgetInv, MergeDispatch
  PROVE  BudgetInv'
<1>1. AlarmMerge /\ UNCHANGED issued /\ Charge({}, {})
  BY DEF MergeDispatch, envVars
<1>2. /\ spent' \in [Keys -> Nat] /\ \A k \in Keys : spent'[k] <= spent[k]
  BY <1>1, Charging DEF BudgetInv
<1>3. ASSUME NEW k \in Keys
      PROVE  BudgetSound(items'[k], spent'[k], issued)
  <2> DEFINE item == items[k]
  <2>1. /\ item \in Item /\ BudgetSound(item, spent[k], issued) /\ spent[k] \in Nat
        /\ spent'[k] \in Nat /\ spent'[k] <= spent[k]
    BY <1>2, BudgetAt
  <2>2. CASE items'[k] = item
    BY <2>1, <2>2, SameItemBudget
  <2>3. ASSUME NEW state \in {"parked", "pending"}, item.state = "dispatching",
               items'[k] = [Requeued(item) EXCEPT !.state = state]
        PROVE  BudgetSound(items'[k], spent'[k], issued)
    <3> DEFINE new == [Requeued(item) EXCEPT !.state = state]
    <3>1. /\ Requeued(item) \in Item /\ SameWork(item, Requeued(item))
          /\ SameBudget(item, Requeued(item))
      BY <2>1, <2>3, RequeuedWork
    <3>2. /\ new \in Item /\ SameWork(item, new) /\ SameBudget(item, new)
          /\ new.state = state
      BY <2>3, <3>1 DEF SameWork, SameBudget, Item, ItemStates
    <3> HIDE DEF new
    <3>3. ~Active(new) /\ new.state # "absent"
      BY <2>3, <3>2 DEF Active
    <3>4. BudgetSound(new, spent'[k], issued)
      BY <2>1, <2>3, <3>2, <3>3, BudgetStands
    <3>. QED
      BY <2>3, <3>4 DEF new
  <2>4. \/ items'[k] = item
        \/ /\ item.state = "dispatching"
           /\ \E state \in {"parked", "pending"} :
                items'[k] = [Requeued(item) EXCEPT !.state = state]
    BY <1>1 DEF AlarmMerge, OwnsDispatchFailure
  <2>. QED
    BY <2>2, <2>3, <2>4
<1>. QED
  BY <1>1, <1>2, <1>3, EveryBudget

LEMMA CommitBudget ==
  ASSUME SystemInv, BudgetInv, NEW global \in BOOLEAN, CommitAlarm(global)
  PROVE  BudgetInv'
<1> DEFINE charged == {k \in Keys : /\ StillCandidate(k) /\ ~alarm.parked[k] /\ ~global
                                    /\ alarm.probe[k].state = "unavailable"}
<1>1. UNCHANGED issued /\ Charge(charged, {})
  BY DEF CommitAlarm, envVars
<1>2. \A k \in Keys : \/ /\ k \in Dispatchable(global)
                         /\ \E id \in Nat : items'[k] = DispatchLease(items[k], id)
                      \/ items'[k] = Checked(k, global)
  <2> DEFINE chosen == Dispatchable(global)
  <2>1. PICK ids \in [chosen -> (leaseSeq + 1)..(leaseSeq + Cardinality(chosen))] :
          items' = [k \in Keys |-> IF k \in chosen THEN DispatchLease(items[k], ids[k])
                                   ELSE Checked(k, global)]
    BY DEF CommitAlarm, AlarmCommit
  <2>2. \A k \in chosen : ids[k] \in Nat
    <3>1. leaseSeq \in Nat
      BY DEF SystemInv, IInv, QueueTypeOK
    <3>. QED
      BY <2>1, <3>1
  <2>. QED
    BY <2>1, <2>2
<1>3. \A k \in charged : ~global /\ alarm.probe[k].state = "unavailable"
  OBVIOUS
<1>4. /\ spent' \in [Keys -> Nat]
      /\ \A k \in Keys :
           /\ spent'[k] <= spent[k] + 1
           /\ k \notin charged => spent'[k] <= spent[k]
           /\ items'[k].state = "absent" => spent'[k] = 0
           /\ InputIdentityChanged(items[k].decision, items'[k].decision) => spent'[k] = 0
  <2> HIDE DEF charged
  <2>. QED
    BY <1>1, Charging DEF BudgetInv
<1>5. ASSUME NEW k \in Keys
      PROVE  BudgetSound(items'[k], spent'[k], issued)
  <2> DEFINE item == items[k]
             probe == alarm.probe[k]
  <2>1. /\ item \in Item /\ BudgetSound(item, spent[k], issued) /\ spent[k] \in Nat
        /\ spent'[k] \in Nat /\ spent'[k] <= spent[k] + 1 /\ probe.head \in Nat
    BY <1>4, BudgetAt DEF SystemInv, IInv, QueueTypeOK, AlarmState
  <2>2. ASSUME NEW id \in Nat, k \in Dispatchable(global), items'[k] = DispatchLease(item, id)
        PROVE  BudgetSound(items'[k], spent'[k], issued)
    <3>1. item.state = "pending" /\ k \notin charged
      BY <2>2 DEF Dispatchable, StillCandidate
    <3>2. spent'[k] <= spent[k]
      BY <1>4, <3>1
    <3> DEFINE new == DispatchLease(item, id)
    <3>3. /\ new \in Item /\ new.state = "dispatching" /\ SameWork(item, new)
          /\ SameBudget(item, new) /\ new.lease.decision = item.decision
      BY <2>1, DispatchedWork
    <3> HIDE DEF new
    <3>4. new.lease.decision = new.decision
      BY <3>3 DEF SameWork
    <3>5. BudgetSound(new, spent'[k], issued)
      BY <2>1, <3>1, <3>2, <3>3, <3>4, BudgetStands
    <3>. QED
      BY <2>2, <3>5 DEF new
  <2>3. CASE items'[k] = Checked(k, global)
    <3>1. CASE items'[k] = item /\ k \notin charged
      BY <1>4, <2>1, <3>1, SameItemBudget
    <3>2. CASE items'[k] = Absent
      <4>1. spent'[k] = 0
        BY <1>4, <3>2 DEF Absent
      <4>. QED
        BY <3>2, <4>1, NothingSpent
    <3>3. CASE items'[k] = AdvancedToLiveHead(item, probe.head) /\ StaleLiveHead(item, probe)
      <4>0. LET new == AdvancedToLiveHead(item, probe.head)
            IN  /\ new \in Item /\ new.failures = 0 /\ new.recoveries = 0
                /\ new.decision.head = probe.head
                /\ new.decision.marker = item.decision.marker
        BY <2>1, AdvancedWork
      <4>1. /\ items'[k] \in Item /\ items'[k].failures = 0 /\ items'[k].recoveries = 0
            /\ items'[k].decision.head = probe.head
            /\ items'[k].decision.marker = item.decision.marker
        BY <3>3, <4>0
      <4>2. items'[k].decision.head # item.decision.head
        BY <3>3, <4>1 DEF StaleLiveHead
      <4>3. InputIdentityChanged(item.decision, items'[k].decision)
        BY <4>2 DEF InputIdentityChanged, InputIdentity
      <4>4. spent'[k] = 0 /\ item.decision.marker \in issued \cup {NoMarker}
        BY <1>4, <2>1, <4>3 DEF BudgetSound
      <4>. QED
        BY <4>1, <4>4, BudgetStartsAfresh
    <3>4. CASE items'[k] = FailedOnce(item) /\ item.state = "pending"
      <4>1. items'[k] \in Item /\ SameWork(item, items'[k]) /\ ChargedOnce(item, items'[k])
        BY <2>1, <3>4, FailedOnceWork
      <4>. QED
        BY <2>1, <3>4, <4>1, BudgetIsCharged
    <3>5. \/ items'[k] = item /\ k \notin charged
          \/ items'[k] = Absent
          \/ items'[k] = AdvancedToLiveHead(item, probe.head) /\ StaleLiveHead(item, probe)
          \/ items'[k] = FailedOnce(item) /\ item.state = "pending"
      <4>1. k \in charged => /\ StillCandidate(k) /\ ~alarm.parked[k] /\ ~global
                             /\ probe.state = "unavailable"
        OBVIOUS
      <4> HIDE DEF charged
      <4>. QED
        BY <2>3, <4>1, CheckedWork
    <3>. QED
      BY <3>1, <3>2, <3>3, <3>4, <3>5
  <2>. QED
    BY <1>2, <2>2, <2>3
<1>. QED
  BY <1>1, <1>4, <1>5, EveryBudget

LEMMA AlarmBudget ==
  ASSUME SystemInv, BudgetInv, AlarmStep
  PROVE  BudgetInv'
<1>1. ASSUME NEW due \in SUBSET Keys, Housekeep(due)
      PROVE  BudgetInv'
  <2>1. Charge({}, {}) /\ UNCHANGED issued
    BY <1>1 DEF Housekeep, envVars
  <2>2. \A k \in Keys : items'[k] = IF k \in due /\ Recoverable(items[k])
                                    THEN Recovered(items[k]) ELSE Reclaimed(items[k])
    BY <1>1 DEF Housekeep, AlarmHousekeep
  <2>. QED
    BY <2>1, <2>2, RewritesBudget
<1>2. ASSUME NEW admitted \in SUBSET Keys, NEW checked \in SUBSET Keys,
             Admit(admitted, checked)
      PROVE  BudgetInv'
  <2>1. Charge({}, {}) /\ UNCHANGED issued
    BY <1>2 DEF Admit, envVars
  <2>2. \A k \in Keys : items'[k] = Reclaimed(items[k])
    BY <1>2 DEF Admit, AlarmAdmit
  <2>. QED
    BY <2>1, <2>2, RewritesBudget
<1>3. ASSUME NEW k \in Keys, Probe(k) \/ Dispatch(k)
      PROVE  BudgetInv'
  <2>1. UNCHANGED <<items, issued, spent>>
    BY <1>3 DEF Probe, AlarmProbe, Dispatch, AlarmDispatch, history
  <2>. QED
    BY <2>1, BudgetUntouched
<1>4. ASSUME NEW k \in Keys, Timeout(k)
      PROVE  BudgetInv'
  <2>1. Expire(k) /\ Charge({}, {}) /\ UNCHANGED issued
    BY <1>4 DEF Timeout
  <2>2. "review" \in Phases
    BY DEF Phases
  <2>. QED
    BY <2>1, <2>2, HandlerBudget
<1>. QED
  BY <1>1, <1>2, <1>3, <1>4, CommitBudget, MergeBudget DEF AlarmStep

LEMMA BudgetStep == SystemInv /\ SourceInv /\ BudgetInv /\ [Next]_vars => BudgetInv'
<1> SUFFICES ASSUME SystemInv, SourceInv, BudgetInv, [Next]_vars PROVE BudgetInv'
  OBVIOUS
<1>1. CASE UNCHANGED vars
  BY <1>1, BudgetUntouched DEF vars, queueVars, envVars, history
<1>2. CASE GitHubStep
  BY <1>2, BudgetUntouched DEF GitHubStep, Change, EndTarget, queueVars, history
<1>3. CASE RunStep
  BY <1>3, RunBudget DEF RunStep
<1>. QED
  BY <1>1, <1>2, <1>3, IngressBudget, AlarmBudget, ReconcileBudget DEF Next

LEMMA BudgetInitially == Init => BudgetInv
<1> SUFFICES ASSUME Init PROVE BudgetInv
  OBVIOUS
<1>1. spent = [k \in Keys |-> 0] /\ items = [k \in Keys |-> Absent]
  BY DEF Init, QueueInit
<1>. QED
  BY <1>1, NothingSpent DEF BudgetInv

(* One input is charged at most RetryLimit failures before it parks, and   *)
(* parking resumes it at most ParkedRecoveryLimit times, whichever of the  *)
(* run's report, the reconciler's and the alarm's probe charges it.        *)
THEOREM RetriesAreBounded == Spec => []RetryBudget
<1>1. SystemInv /\ BudgetInv => RetryBudget
  <2> SUFFICES ASSUME SystemInv, BudgetInv, NEW k \in Keys
               PROVE  spent[k] <= RetryLimit * (ParkedRecoveryLimit + 1)
    BY DEF RetryBudget
  <2> DEFINE n == items[k].recoveries
  <2>1. /\ n \in Nat /\ n <= ParkedRecoveryLimit /\ spent[k] \in Nat
        /\ items[k].failures \in Nat /\ items[k].failures <= RetryLimit
        /\ spent[k] <= Allowance(items[k])
    BY BudgetAt DEF BudgetSound, Item
  <2>2. /\ RetryLimit * n <= RetryLimit * ParkedRecoveryLimit
        /\ RetryLimit * n \in Nat /\ RetryLimit * ParkedRecoveryLimit \in Nat
        /\ RetryLimit * (ParkedRecoveryLimit + 1) =
             RetryLimit * ParkedRecoveryLimit + RetryLimit
    BY <2>1, Limits, OneMoreRound, MoreRounds
  <2>3. Allowance(items[k]) = RetryLimit * n + items[k].failures
    BY DEF Allowance
  <2> DEFINE p == RetryLimit * n
             q == RetryLimit * ParkedRecoveryLimit
  <2>4. p \in Nat /\ q \in Nat /\ p <= q /\ RetryLimit \in Nat /\ spent[k] \in Nat
        /\ spent[k] <= p + items[k].failures
        /\ RetryLimit * (ParkedRecoveryLimit + 1) = q + RetryLimit
    BY <2>1, <2>2, <2>3, Limits
  <2> HIDE DEF n, p, q
  <2>. QED
    BY <2>1, <2>4
<1>. QED
  BY <1>1, SystemInitially, SystemStep, SourcesInitially, SourcesStep,
     BudgetInitially, BudgetStep, PTL DEF Spec

=============================================================================
