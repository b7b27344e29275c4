-------------------------- MODULE MCPublicationLane --------------------------
(* Instances of the publication lane.  Batch ids are interchangeable.         *)
EXTENDS PublicationLane, TLC

Budget(kinds, n) == {[kinds |-> kinds, left |-> n]}

OneFailure    == Budget({"retryable"}, 1)
ThreeFailures == Budget({"retryable"}, 3)
OneRefresh    == Budget({"refresh"}, 1)
TwoFaults     == Budget({"retryable", "unattempted"}, 2)

MCSymmetry == Permutations(BatchIds) \cup Permutations(Keys)

=============================================================================
