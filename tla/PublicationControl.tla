-------------------------- MODULE PublicationControl -------------------------
(***************************************************************************)
(* The adaptive capacity of the publication lane                           *)
(* (dashboard/exact-review-queue.ts, ExactReviewPublicationControl): a     *)
(* ceiling that GitHub's pressure lowers and clean publications raise, and *)
(* a demand that follows the backlog with hysteresis.  The document is     *)
(* stored; a deployment may change the limits between two operations.      *)
(*                                                                         *)
(* Time is in units of the sampling interval (5 minutes).  The document's  *)
(* instants are kept as differences to now, capped where the code stops    *)
(* telling them apart: `cooldown` is what is left of cooldownUntil,        *)
(* `sinceSample` and `sinceScale` the age of lastDemandSampleAt and        *)
(* lastScaleAt.                                                            *)
(***************************************************************************)
EXTENDS Integers, FiniteSets

CONSTANTS
  Environments,       \* the deployments: records [min, base, max], as configured
  QueueCapacity,      \* exactReviewQueueCapacity
  Samples,            \* states of the backlog: records [backlog, age, drain]
  Budgets,            \* worker slots reviews and the reserve may leave
  Reports,            \* ids of the telemetry reports of batches
  Step,               \* EXACT_REVIEW_PUBLICATION_CONCURRENT_SCALE_STEP
  RecoverySuccesses,  \* exactReviewPublicationRecoverySuccesses
  ScaleUpTicks,       \* EXACT_REVIEW_PUBLICATION_SCALE_UP_MS
  ScaleDownTicks,     \* EXACT_REVIEW_PUBLICATION_SCALE_DOWN_MS
  RateLimitCooldown,  \* EXACT_REVIEW_PUBLICATION_RATE_LIMIT_COOLDOWN_MS
  TransientCooldown,  \* EXACT_REVIEW_PUBLICATION_TRANSIENT_COOLDOWN_MS
  HalfHour            \* 30 minutes, in units of Samples' ages

ASSUME ControlAssumption ==
  /\ Environments \subseteq [min: Nat, base: Nat, max: Nat]
  /\ Samples \subseteq [backlog: Nat, age: Nat, drain: Int]
  /\ Budgets \subseteq Nat
  /\ {QueueCapacity, Step, RecoverySuccesses, HalfHour} \subseteq Nat \ {0}
  /\ {ScaleUpTicks, ScaleDownTicks, RateLimitCooldown, TransientCooldown} \subseteq Nat \ {0}

VARIABLES
  env,       \* the deployment in force
  sample,    \* the state of the backlog
  control,   \* the stored document
  clean,     \* history: flips with each clean publication
  lowered    \* history: how often each report lowered the ceiling

controlVars == <<env, sample, control, clean, lowered>>

-----------------------------------------------------------------------------

Least(a, b) == IF a < b THEN a ELSE b
Greatest(a, b) == IF a < b THEN b ELSE a
Clamp(low, high, n) == Greatest(low, Least(high, n))

Maximum(e) == Greatest(1, Least(QueueCapacity, e.max))
Minimum(e) == Least(Maximum(e), Greatest(1, e.min))
Base(e) == Clamp(Minimum(e), Maximum(e), e.base)

LongestSpan == Greatest(ScaleUpTicks, ScaleDownTicks)

Control == [ceiling: Nat, demand: Nat,
            cooldown: 0..Greatest(RateLimitCooldown, TransientCooldown),
            successes: 0..RecoverySuccesses - 1,
            samples: 0..6, tier: Nat,
            sinceSample: 0..1, sinceScale: 0..LongestSpan,
            receipts: SUBSET Reports]

\* Nothing stored yet: the sanitised empty document.
NewControl(e) == [ceiling |-> Maximum(e), demand |-> Base(e), cooldown |-> 0, successes |-> 0,
                  samples |-> 0, tier |-> 0, sinceSample |-> 1, sinceScale |-> LongestSpan,
                  receipts |-> {}]

\* The stored document under the limits now in force.  Both values above the
\* maximum are the mark of a fixed policy: its demand is not a measured one.
Sanitised(e, c) ==
  [c EXCEPT !.ceiling = Clamp(Minimum(e), Maximum(e), @),
            !.demand = IF c.ceiling > Maximum(e) /\ @ > Maximum(e) THEN Base(e)
                       ELSE Clamp(Minimum(e), Maximum(e), @)]

ScaleSteps(s) ==
  Cardinality({threshold \in {[backlog |-> 100, age |-> 2 * HalfHour],
                              [backlog |-> 250, age |-> 8 * HalfHour],
                              [backlog |-> 400, age |-> 16 * HalfHour]} :
                 \/ s.backlog >= threshold.backlog
                 \/ s.age >= threshold.age
                 \/ threshold.backlog = 100 /\ s.backlog >= 50 /\ s.drain <= 0})

\* exactReviewPublicationCapacity without a ceiling and without publishers.
Desired(e, s) == Least(Maximum(e), Base(e) + ScaleSteps(s) * Step)

DesiredTier(e, s) == (Desired(e, s) - Base(e) + Step - 1) \div Step

HealthyDrain(s) == s.backlog < 80 /\ s.age < HalfHour /\ s.drain > 0

-----------------------------------------------------------------------------
(* refreshPublicationControlSync: every dispatch, claim, status read and   *)
(* scheduling of the next alarm samples the backlog.                       *)

\* What a due sample does to the counters; a count beyond 6 makes no difference.
Sampled(c, e, s) ==
  LET n == IF c.tier = DesiredTier(e, s) THEN Least(6, c.samples + 1) ELSE 1
  IN [c EXCEPT !.samples = n, !.tier = DesiredTier(e, s), !.sinceSample = 0]

Scaled(c, demand) == [c EXCEPT !.demand = demand, !.samples = 0, !.sinceScale = 0]

\* Mutant: the raise waits for a target that the steps never pass.
MutantRaises(n, c, e, s) ==
  Desired(e, s) >= c.demand + 2 * Step /\ n.samples >= 2 /\ c.sinceScale >= ScaleUpTicks

Raises(n, c, e, s) ==
  Desired(e, s) > c.demand /\ n.samples >= 2 /\ c.sinceScale >= ScaleUpTicks

Lowers(n, c, e, s) ==
  /\ Desired(e, s) < c.demand /\ HealthyDrain(s)
  /\ n.samples >= 6 /\ c.sinceScale >= ScaleDownTicks

AfterDemand(c, e, s) ==
  LET n == Sampled(c, e, s)
  IN CASE c.sinceSample < 1 -> c
       [] c.sinceSample >= 1 /\ Raises(n, c, e, s) ->
            Scaled(n, Least(Desired(e, s), c.demand + Step))
       [] c.sinceSample >= 1 /\ ~Raises(n, c, e, s) /\ Lowers(n, c, e, s) ->
            Scaled(n, Greatest(Base(e), c.demand - Step))
       [] OTHER -> n

Refresh ==
  /\ control' = AfterDemand(Sanitised(env, control), env, sample)
  /\ UNCHANGED <<env, sample, clean, lowered>>

-----------------------------------------------------------------------------
(* applyPublicationFeedbackSync                                            *)

\* `late`: how long ago the failure was observed.
AfterFailure(c, e, kind, capacity, late) ==
  LET current == Greatest(Minimum(e), Least(c.ceiling, capacity))
      span == IF kind = "github_rate_limit" THEN RateLimitCooldown ELSE TransientCooldown
  IN [c EXCEPT !.ceiling = Greatest(Minimum(e), IF kind = "github_rate_limit"
                                                THEN current \div 2 ELSE current - Step),
               !.cooldown = Greatest(@, span - late),
               !.successes = 0]

\* Mutant: the last step to the maximum is not counted for.
MutantCounts(c, e) == c.cooldown = 0 /\ c.ceiling + Step <= Maximum(e)

Counts(c, e) == c.cooldown = 0 /\ c.ceiling < Maximum(e)

AfterSuccess(c, e) ==
  IF ~Counts(c, e) THEN [c EXCEPT !.successes = 0]
  ELSE IF c.successes + 1 < RecoverySuccesses THEN [c EXCEPT !.successes = @ + 1]
  ELSE [c EXCEPT !.ceiling = Least(Maximum(e), @ + Step), !.successes = 0]

\* exactReviewPublicationCapacityForState without the publishers at work.
AdmittedCapacity(c, budget) == Least(Least(c.ceiling, c.demand), budget)

\* The completion of a publication that is not in a batch (complete).
CleanPublication ==
  /\ control' = AfterSuccess(Sanitised(env, control), env)
  /\ clean' = ~clean
  /\ UNCHANGED <<env, sample, lowered>>

FailedPublication(kind, budget) ==
  /\ LET c == Sanitised(env, control)
     IN control' = AfterFailure(c, env, kind, AdmittedCapacity(c, budget), 0)
  /\ UNCHANGED <<env, sample, clean, lowered>>

\* Mutant: a report that is delivered again counts again.
MutantReported(c, r) == FALSE

Reported(c, r) == r \in c.receipts

\* The telemetry of a batch, delivered with its completion, which the publisher
\* retries.  Receipts last a week, longer than any retry.
BatchTelemetry(r, late) ==
  /\ LET c == Sanitised(env, control)
     IN IF Reported(c, r)
        THEN UNCHANGED <<control, lowered>>
        ELSE /\ control' = [AfterFailure(c, env, "github_rate_limit", c.ceiling, late)
                              EXCEPT !.receipts = @ \cup {r}]
             /\ lowered' = [lowered EXCEPT ![r] = Least(2, @ + 1)]
  /\ UNCHANGED <<env, sample, clean>>

-----------------------------------------------------------------------------
(* The surroundings.                                                       *)

Deploy(e) == env' = e /\ UNCHANGED <<sample, control, clean, lowered>>

BacklogChanges(s) == sample' = s /\ UNCHANGED <<env, control, clean, lowered>>

ControlTick ==
  /\ control' = [control EXCEPT !.cooldown = Greatest(0, @ - 1),
                                !.sinceSample = 1,
                                !.sinceScale = Least(LongestSpan, @ + 1)]
  /\ UNCHANGED <<env, sample, clean, lowered>>

Failure ==
  \/ \E kind \in {"github_rate_limit", "github_transient"}, budget \in Budgets :
       FailedPublication(kind, budget)
  \/ \E r \in Reports, late \in 0..RateLimitCooldown : BatchTelemetry(r, late)

ControlInit ==
  /\ env \in Environments /\ sample \in Samples
  /\ control = NewControl(env)
  /\ clean = FALSE
  /\ lowered = [r \in Reports |-> 0]

ControlNext ==
  \/ Refresh
  \/ CleanPublication
  \/ Failure
  \/ \E e \in Environments : Deploy(e)
  \/ \E s \in Samples : BacklogChanges(s)
  \/ ControlTick

\* Time goes on, and the queue's alarm comes round at least once in a while.
ControlFairness == WF_controlVars(ControlTick) /\ WF_controlVars(Refresh)

ControlSpec == ControlInit /\ [][ControlNext]_controlVars /\ ControlFairness

-----------------------------------------------------------------------------
(* Properties.                                                             *)

ControlTypeOK ==
  /\ env \in Environments /\ sample \in Samples
  /\ control \in Control
  /\ clean \in BOOLEAN /\ lowered \in [Reports -> 0..2]

\* A report of GitHub's pressure lowers the ceiling once, however often the
\* publisher delivers it again (githubFeedbackReceipts).
ReportedOnce == \A r \in Reports : lowered[r] <= 1

\* The target follows the backlog whatever happened before: under a backlog that
\* lasts it reaches what the backlog asks for, and when the lane drains in good
\* health it comes back to the base, through every step, count and waiting time.
DemandSettles ==
  <>[][env' = env /\ sample' = sample]_controlVars =>
    <>[](IF HealthyDrain(sample) THEN control.demand = Base(env)
                                 ELSE control.demand >= Desired(env, sample))

\* Once GitHub's pressure is over, clean publications bring the ceiling back to
\* its maximum: no failure, report or deployment leaves the lane throttled.
CleanRunsRecover ==
  /\ []<><<CleanPublication>>_controlVars
  /\ <>[][~Failure /\ env' = env]_controlVars
  => <>[](control.ceiling = Maximum(env))

=============================================================================
