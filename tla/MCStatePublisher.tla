--------------------------- MODULE MCStatePublisher --------------------------
(* Model-checking instances of the publishers: two ordinary writers.          *)
EXTENDS StatePublisher

MCClassOf == [t \in Tickets |-> "ordinary"]

=============================================================================
