--------------------------- MODULE MCLaneScenarios ---------------------------
(* Instances of the publication lane.  One run covers several scenarios,      *)
(* each rich in one thing and poor in the others; the first state picks one.  *)
EXTENDS PublicationLane, TLC

VARIABLE scenario

Budget(kinds, n) == [kinds |-> kinds, left |-> n]

Plain == [batches |-> 1, size |-> 2, generations |-> 2, deliveries |-> 1, late |-> FALSE,
          direct |-> FALSE, operator |-> FALSE, faults |-> Budget({"retryable"}, 1)]

Scenarios == {
  \* a publication that fails, in every way but for a missing artifact
  [Plain EXCEPT !.faults = Budget({"retryable", "permanent", "unattempted"}, 1)],
  \* two failures: the second dead letter finds no room
  [Plain EXCEPT !.generations = 1,
                !.faults = Budget({"retryable", "permanent", "unattempted"}, 2)],
  \* two batches of one item each
  [Plain EXCEPT !.batches = 2, !.size = 1, !.generations = 1, !.faults = Budget({}, 0)],
  \* results that come late, and come twice
  [Plain EXCEPT !.deliveries = 2, !.late = TRUE, !.size = 1, !.generations = 1,
                !.faults = Budget({"refresh"}, 1)],
  \* an operator at work on the dead letters
  [Plain EXCEPT !.size = 1, !.operator = TRUE, !.faults = Budget({"permanent", "refresh"}, 1)],
  \* runs that publish directly
  [Plain EXCEPT !.direct = TRUE, !.generations = 1]}

ScenarioBudgets == {s.faults : s \in Scenarios}

Used(b) == b \in {g.batch : g \in granted'}

Within ==
  /\ Cardinality({b \in BatchIds : Used(b)}) <= scenario.batches
  /\ \A b \in BatchIds : Cardinality({m \in memberships' : m.batch = b}) <= scenario.size
  /\ \A m \in memberships' : m.generation <= scenario.generations
  /\ \A k \in Keys : sent'[k] > sent[k] =>
       /\ sent[k] > 0 => sent[k] < scenario.deliveries
       /\ sent[k] = 0 /\ ~scenario.late => reviews[results[k].target].run = k
  /\ scenario.direct \/ \A t \in Targets : reviews'[t].state # "finishing"
  /\ scenario.operator \/ \A k \in Keys, r \in Revisions :
                            letters'[k][r].status \in {"none", "open"}

ScenarioInit == LaneInit /\ scenario \in Scenarios /\ faults = scenario.faults
ScenarioNext == LaneNext /\ Within /\ UNCHANGED scenario
ScenarioSpec == ScenarioInit /\ [][ScenarioNext]_<<allVars, scenario>>

MCSymmetry == Permutations(BatchIds) \cup Permutations(Keys)

=============================================================================
