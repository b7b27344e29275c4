----------------------- MODULE MCStateWriterCoordinator ----------------------
(* Model-checking instances of the coordinator: a writer of each class.       *)
EXTENDS StateWriterCoordinator

CONSTANTS o, b, i

MCClassOf == [t \in Tickets |->
                CASE t = o -> "ordinary"
                  [] t = b -> "publication_batch"
                  [] t = i -> "cluster_intake"]

=============================================================================
