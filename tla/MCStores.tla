------------------------------- MODULE MCStores -------------------------------
(* The two stores whose callers are open: the batch store, with two batch ids, *)
(* two owners and two items, and the read model, with three sorts of stories.  *)
(* The first state picks the store and the story; the other store rests.       *)
EXTENDS PublicationBatches, GithubReadModel, TLC

CONSTANTS c1, c2, r1, r2, p1, p2

VARIABLE story

Batches == [store |-> "batches"]

ReadModel == [store |-> "read model"]

Stories == {
  Batches,
  \* two comments and one comment router
  ReadModel @@ [kinds |-> {"comments"}, comments |-> {c1, c2}, runs |-> {}, polls |-> {p1},
                time |-> 3, events |-> 3],
  \* a run that changes, one dashboard and time for what it serves to grow old
  ReadModel @@ [kinds |-> {"census", "verify"}, comments |-> {}, runs |-> {r1}, polls |-> {p1},
                time |-> 5, events |-> 3],
  \* a run that changes and two dashboards at a time
  ReadModel @@ [kinds |-> {"census"}, comments |-> {}, runs |-> {r1}, polls |-> {p1, p2},
                time |-> 4, events |-> 1]}

Within ==
  /\ now' <= story.time /\ Cardinality(sent') <= story.events
  /\ \A p \in Polls : polls'[p].kind \in {"idle"} \cup (IF p \in story.polls THEN story.kinds ELSE {})
  /\ \A c \in Comments \ story.comments : github'.comments[c].at = 0
  /\ \A r \in Runs \ story.runs : github'.runs[r] = github.runs[r]

StoresInit ==
  /\ BatchInit /\ ReadInit
  /\ story \in Stories
  /\ RunsIn("active") \subseteq (IF story = Batches \/ story.runs = {} THEN {} ELSE {r2})

StoresNext ==
  /\ \/ story.store = "batches" /\ BatchNext /\ UNCHANGED readVars
     \/ story.store = "read model" /\ ReadNext /\ Within /\ UNCHANGED batchVars
  /\ UNCHANGED story

StoresSpec == StoresInit /\ [][StoresNext]_<<batchVars, readVars, story>>

MCSymmetry == Permutations(BatchIds) \cup Permutations(Keys) \cup Permutations(Owners)

=============================================================================
