---------------------------- MODULE MCAlarmStories ----------------------------
(* Two parts of the queue that its alarm keeps going, publication control and   *)
(* command intake.  The first state picks one of them and, for the control, a   *)
(* scenario: limits with room, without room above the base, fixed and narrow;   *)
(* backlogs that drain well, that ask for one step and for two, that stand      *)
(* still, and that are old.  The other part rests.                              *)
EXTENDS PublicationControl, CommandIntake

VARIABLES story, scenario

Adaptive == [min |-> 1, base |-> 4, max |-> 8]
Capped == [min |-> 2, base |-> 6, max |-> 6]
Fixed == [min |-> 9, base |-> 9, max |-> 9]
Small == [min |-> 1, base |-> 2, max |-> 4]
Narrow == [min |-> 2, base |-> 3, max |-> 3]
MCEnvironments == {Adaptive, Capped, Fixed, Small, Narrow}

Sample(backlog, age, drain) == [backlog |-> backlog, age |-> age, drain |-> drain]
Drains == Sample(0, 0, 1)
Waits == Sample(90, 1, 1)
Stands == Sample(60, 0, 0)
Grows == Sample(250, 0, 1)
Ages == Sample(10, 16, 1)
MCSamples == {Drains, Waits, Stands, Grows, Ages}

Scenarios == {
  \* failures while the backlog comes and goes
  [envs |-> {Small}, samples |-> {Drains, Grows}, failures |-> TRUE],
  \* deployments and failures
  [envs |-> {Small, Narrow}, samples |-> {Waits}, failures |-> TRUE],
  \* any backlog
  [envs |-> {Adaptive}, samples |-> MCSamples, failures |-> FALSE],
  \* deployments and a backlog that comes and goes
  [envs |-> {Adaptive, Capped, Fixed}, samples |-> {Drains, Grows}, failures |-> FALSE]}

Within ==
  /\ env' \in scenario.envs /\ sample' \in scenario.samples
  /\ scenario.failures \/ (~Failure /\ clean' = clean)

Resting == [envs |-> {Adaptive}, samples |-> {Drains}, failures |-> FALSE]

StoriesInit ==
  /\ ControlInit /\ IntakeInit
  /\ story \in {"control", "intake"}
  /\ scenario \in IF story = "control" THEN Scenarios ELSE {Resting}
  /\ env \in scenario.envs /\ sample \in scenario.samples

StoriesNext ==
  /\ \/ story = "control" /\ ControlNext /\ Within /\ UNCHANGED intakeVars
     \/ story = "intake" /\ IntakeNext /\ UNCHANGED controlVars
  /\ UNCHANGED <<story, scenario>>

StoriesFairness ==
  /\ WF_controlVars(story = "control" /\ ControlTick)
  /\ WF_controlVars(story = "control" /\ Refresh)
  /\ WF_intakeVars(story = "intake" /\ AlarmStep)
  /\ \A v \in Versions : SF_intakeVars(story = "intake" /\ WakesFor(v))

StoriesSpec ==
  StoriesInit /\ [][StoriesNext]_<<controlVars, intakeVars, story, scenario>> /\ StoriesFairness

=============================================================================
