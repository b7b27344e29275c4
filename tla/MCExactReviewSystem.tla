------------------------ MODULE MCExactReviewSystem ------------------------
(* Instances of the review lane: each budget is a scenario rich in one     *)
(* thing and poor in the others.                                           *)
EXTENDS ExactReviewSystem

Plain == [kinds |-> {}, left |-> 0, keys |-> {"a"}, events |-> 1, steps |-> {1},
          markers |-> {}, background |-> 0, ends |-> FALSE]

WithFaults(b, kinds, n) == [b EXCEPT !.kinds = kinds, !.left = n]

AllKinds == {"claim", "report", "answer", "crash", "rerun", "probe", "dispatch", "slow"}

(* Three events, with no fault. *)
ThreeEvents == [Plain EXCEPT !.events = 3]

Faultless == {ThreeEvents}

Scenarios == {
  \* three events, some within one second
  [ThreeEvents EXCEPT !.steps = {0, 1}],
  \* a command and a background enqueue
  [Plain EXCEPT !.events = 2, !.markers = {1}, !.background = 1],
  \* a command, and a pull request that may end
  [Plain EXCEPT !.events = 2, !.markers = {1}, !.ends = TRUE],
  \* all three, and one event
  [Plain EXCEPT !.markers = {1}, !.background = 1, !.ends = TRUE],
  \* crashes and re-runs
  WithFaults(Plain, {"claim", "crash", "rerun", "dispatch", "slow"}, 3),
  \* failing reviews and reads, to the end of the parked ladder
  WithFaults(Plain, {"report", "probe"}, 5),
  \* two pull requests and one slot
  WithFaults([Plain EXCEPT !.keys = {"a", "b"}, !.events = 2], {"slow", "dispatch"}, 1)}

LivenessScenarios == {
  \* two events, some within one second, and a fault of any kind
  WithFaults([Plain EXCEPT !.events = 2, !.steps = {0, 1}], AllKinds, 1),
  \* a background enqueue, a pull request that may end, a crash and a re-run
  WithFaults([Plain EXCEPT !.background = 1, !.ends = TRUE], {"crash", "rerun"}, 2)}

=============================================================================
