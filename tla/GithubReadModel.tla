--------------------------- MODULE GithubReadModel ---------------------------
(***************************************************************************)
(* The webhook read model (dashboard/github-webhook-read-model.ts): the    *)
(* queue's copy of GitHub's comments, items and workflow runs, fed by      *)
(* webhook deliveries, which are lost, reordered and repeated, and by      *)
(* repairs with what a poller read from GitHub a while ago.  One item and  *)
(* the runs of one repository; a snapshot is told apart by its updated_at, *)
(* and a run is active as isActiveWorkflowRun says: not one that has been  *)
(* queued for hours.                                                       *)
(*                                                                         *)
(* Instants are natural numbers from 1; 0 is the instant of what is not    *)
(* there.                                                                  *)
(***************************************************************************)
EXTENDS Integers, FiniteSets

CONSTANTS
  Comments,    \* comments of the item
  Runs,        \* workflow runs
  Polls,       \* pollers: comment routers and dashboards
  Ttl,         \* GITHUB_WEBHOOK_READ_MODEL_COMMENT_TTL_MS and _WORKFLOW_TTL_MS
  MaxTime,     \* bound on the clock
  MaxEvents    \* bound on GitHub's events

ASSUME ReadModelAssumption ==
  {Ttl, MaxTime, MaxEvents} \subseteq Nat \ {0} /\ IsFiniteSet(Comments)

VARIABLES
  now,         \* the clock, GitHub's and the queue's
  github,      \* GitHub: records of its comments, its item and its runs
  sent,        \* the deliveries of GitHub so far
  seen,        \* deliveries with a receipt (github_webhook_read_model_deliveries_v1)
  classes,     \* event classes observed
  itemRow, commentRows, runRows,   \* the rows of the item, its comments, the runs
  collection,  \* repaired_at of the item's comments
  census,      \* repaired_at of the run census
  polls,       \* what each poller is at
  covered      \* history: the latest start of a census that was applied

storeVars == <<seen, classes, itemRow, commentRows, runRows, collection, census>>
readVars == <<now, github, sent, storeVars, polls, covered>>

-----------------------------------------------------------------------------

Later(a, b) == IF a < b THEN b ELSE a

NoItem == [at |-> 0, count |-> 0]
NoComment == [at |-> 0, tomb |-> FALSE, received |-> 0]
NoRun == [at |-> 0, state |-> "absent", received |-> 0]

ItemObject(item) == [kind |-> "item", at |-> item.at, count |-> item.count]
CommentObject(c, at, tomb) == [kind |-> "comment", id |-> c, at |-> at, tomb |-> tomb]
RunObject(r, run) == [kind |-> "run", id |-> r, at |-> run.at, state |-> run.state]

\* What is known of comment c, of run r.
About(objects, kind, id) == {o \in objects : o.kind = kind /\ o.id = id}

LiveComments == {c \in Comments : github.comments[c].state = "live"}
Visible == {c \in Comments : commentRows[c].at > 0 /\ ~commentRows[c].tomb}

IsFresh(received) == received > 0 /\ now - received <= Ttl

LatestComment ==
  CHOOSE t \in {commentRows[c].received : c \in Comments} :
    \A c \in Comments : commentRows[c].received <= t

CommentsUsable ==
  /\ "issue_comments" \in classes
  /\ IsFresh(IF LatestComment > 0 THEN LatestComment ELSE collection)
  /\ itemRow.at > 0 => itemRow.count = Cardinality(Visible)

RunsUsable == "workflow_runs" \in classes /\ IsFresh(census)

-----------------------------------------------------------------------------
(* upsertObjectSync                                                        *)

ItemUpserted(row, objects) ==
  LET news == {o \in objects : o.kind = "item" /\ o.at > row.at}
  IN IF news = {} THEN row
     ELSE LET o == CHOOSE o \in news : TRUE IN [at |-> o.at, count |-> o.count]

\* Mutant: of two snapshots of one second the one that comes later wins.
MutantSupersedesComment(o, row) == o.at >= row.at

SupersedesComment(o, row) == o.at > row.at

CommentUpserted(rows, objects, received) ==
  [c \in Comments |->
     LET news == {o \in About(objects, "comment", c) : SupersedesComment(o, rows[c])}
     IN IF news = {} THEN rows[c]
        ELSE LET o == CHOOSE o \in news : TRUE
             IN [at |-> o.at, tomb |-> o.tomb, received |-> received]]

\* Mutant: whatever comes last replaces the row.
MutantSupersedesRun(o, row) == TRUE

SupersedesRun(o, row) == o.at >= row.at

RunUpserted(rows, objects, received) ==
  [r \in Runs |->
     LET news == {o \in About(objects, "run", r) : SupersedesRun(o, rows[r])}
     IN IF news = {} THEN rows[r]
        ELSE LET o == CHOOSE o \in news : TRUE
             IN [at |-> o.at, state |-> o.state, received |-> Later(rows[r].received, received)]]

-----------------------------------------------------------------------------
(* GitHub, which is external.                                              *)

ReadTick == now < MaxTime /\ now' = now + 1 /\ UNCHANGED <<github, sent, storeVars, polls, covered>>

Sends(class, objects) ==
  /\ Cardinality(sent) < MaxEvents
  /\ sent' = sent \cup {[class |-> class, objects |-> objects]}
  /\ UNCHANGED <<now, storeVars, polls, covered>>

\* A comment is written, edited or deleted; the item counts its comments.  The
\* payload of a deletion has the comment as it was, or as of now.
CommentChanges(c, state) ==
  LET before == github.comments[c]
      item == [at |-> now, count |-> github.item.count + (IF before.state = "absent" THEN 1 ELSE 0)
                                       - (IF state = "deleted" THEN 1 ELSE 0)]
  IN /\ before.state = (IF before.at = 0 THEN "absent" ELSE "live")
     /\ before.at = 0 => state = "live"
     /\ github' = [github EXCEPT !.comments[c] = [state |-> state, at |-> now], !.item = item]
     /\ \E at \in IF state = "deleted" THEN {before.at, now} ELSE {now} :
          Sends("issue_comments", {ItemObject(item), CommentObject(c, at, state = "deleted")})

\* Two events of one run are not of one instant.
RunChanges(r, state) ==
  LET before == github.runs[r]
      run == [state |-> state, at |-> now]
  IN /\ now > before.at
     /\ <<before.state, state>> \in
          {<<"absent", "active">>, <<"active", "completed">>, <<"completed", "active">>}
     /\ github' = [github EXCEPT !.runs[r] = run]
     /\ Sends("workflow_runs", {RunObject(r, run)})

RunDeleted(r) ==
  /\ github.runs[r].state = "completed"
  /\ github' = [github EXCEPT !.runs[r] = [state |-> "gone", at |-> now]]
  /\ UNCHANGED <<now, sent, storeVars, polls, covered>>

-----------------------------------------------------------------------------
(* The read model.                                                         *)

\* ingest: a delivery, once or again, in any order.  The front worker took its
\* time of receipt before it called the queue.
Ingest(d, received) ==
  /\ d \in sent
  /\ \A o \in d.objects : o.at <= received
  /\ IF d \in seen THEN UNCHANGED storeVars
     ELSE /\ seen' = seen \cup {d}
          /\ classes' = classes \cup {d.class}
          /\ itemRow' = ItemUpserted(itemRow, d.objects)
          /\ commentRows' = CommentUpserted(commentRows, d.objects, received)
          /\ runRows' = RunUpserted(runRows, d.objects, received)
          /\ UNCHANGED <<collection, census>>
  /\ UNCHANGED <<now, github, sent, polls, covered>>

Poll(kind, runs, start) == [kind |-> kind, runs |-> runs, start |-> start, read |-> FALSE,
                            objects |-> {}, complete |-> FALSE]

IdlePoll == Poll("idle", {}, 0)

\* The poller found no usable snapshot, or runs it cannot believe.
StartsPoll(p, kind, runs) ==
  /\ polls[p].kind = "idle"
  /\ polls' = [polls EXCEPT ![p] = Poll(kind, runs, now)]
  /\ UNCHANGED <<now, github, sent, storeVars, covered>>

PollComments(p) == ~CommentsUsable /\ StartsPoll(p, "comments", {})

PollRuns(p) == ~RunsUsable /\ StartsPoll(p, "census", {})

\* revalidateStaleWorkflowHealthRuns
VerifyRun(p, r) ==
  /\ RunsUsable
  /\ runRows[r].state = "active" /\ ~IsFresh(runRows[r].received)
  /\ StartsPoll(p, "verify", {r})

\* What GitHub answers: all live comments; all active runs and some of the
\* completed ones, or less when a page of the census fails; one run.
Reads(p, kind, objects, complete) ==
  /\ polls[p].kind = kind /\ ~polls[p].read /\ now > polls[p].start
  /\ polls' = [polls EXCEPT ![p].read = TRUE, ![p].objects = objects, ![p].complete = complete]
  /\ UNCHANGED <<now, github, sent, storeVars, covered>>

ListedComments == {CommentObject(c, github.comments[c].at, FALSE) : c \in LiveComments}
RunsIn(state) == {r \in Runs : github.runs[r].state = state}
ListedRuns(rs) == {RunObject(r, github.runs[r]) : r \in rs}

ReadComments(p) == Reads(p, "comments", ListedComments, TRUE)
ReadRuns(p) ==
  \E rs \in SUBSET (RunsIn("active") \cup RunsIn("completed")), complete \in BOOLEAN :
    /\ complete => RunsIn("active") \subseteq rs
    /\ Reads(p, "census", ListedRuns(rs), complete)
ReadRun(p) == Reads(p, "verify", ListedRuns(polls[p].runs \cap RunsIn("active")), TRUE)

Ends(p) == polls' = [polls EXCEPT ![p] = IdlePoll] /\ UNCHANGED <<now, github, sent, seen, classes>>

\* The poller dies, or its repair does not arrive.
PollLost(p) ==
  /\ polls[p].kind # "idle"
  /\ Ends(p)
  /\ UNCHANGED <<itemRow, commentRows, runRows, collection, census, covered>>

\* repair, comments: unlisted comments are tombstoned as of now, and then what
\* was listed is upserted.
RepairComments(p) ==
  /\ polls[p].kind = "comments" /\ polls[p].read
  /\ LET objects == polls[p].objects
         Unlisted(c) == c \in Visible /\ About(objects, "comment", c) = {}
         marked == [c \in Comments |-> IF Unlisted(c)
                                       THEN [at |-> now, tomb |-> TRUE, received |-> now]
                                       ELSE commentRows[c]]
     IN commentRows' = CommentUpserted(marked, objects, now)
  /\ collection' = now
  /\ Ends(p)
  /\ UNCHANGED <<itemRow, runRows, census, covered>>

\* Mutant: a census removes what it did not list, whenever it was received.
MutantPredates(row, start) == TRUE

Predates(row, start) == row.received <= start

\* repair, workflows, with the runs of a census; without objects there is none.
RepairRuns(p) ==
  /\ polls[p].kind = "census" /\ polls[p].read /\ polls[p].objects # {}
  /\ LET objects == polls[p].objects
         Evicted(r) == polls[p].complete /\ About(objects, "run", r) = {}
                       /\ Predates(runRows[r], polls[p].start)
     IN runRows' = RunUpserted([r \in Runs |-> IF Evicted(r) THEN NoRun ELSE runRows[r]],
                               objects, now)
  /\ census' = IF polls[p].complete THEN now ELSE census
  /\ covered' = IF polls[p].complete THEN Later(covered, polls[p].start) ELSE covered
  /\ Ends(p)
  /\ UNCHANGED <<itemRow, commentRows, collection>>

\* repair, workflows, after the re-read of one run.
RepairRun(p) ==
  /\ polls[p].kind = "verify" /\ polls[p].read
  /\ LET Evicted(r) == r \in polls[p].runs /\ Predates(runRows[r], polls[p].start)
     IN runRows' = IF polls[p].objects # {} THEN RunUpserted(runRows, polls[p].objects, now)
                   ELSE [r \in Runs |-> IF Evicted(r) THEN NoRun ELSE runRows[r]]
  /\ Ends(p)
  /\ UNCHANGED <<itemRow, commentRows, collection, census, covered>>

-----------------------------------------------------------------------------

\* Some runs are active before the read model is there.
ReadInit ==
  /\ now = 1
  /\ \E old \in SUBSET Runs :
       github = [comments |-> [c \in Comments |-> [state |-> "absent", at |-> 0]],
                 item |-> NoItem,
                 runs |-> [r \in Runs |-> IF r \in old THEN [state |-> "active", at |-> 1]
                                         ELSE [state |-> "absent", at |-> 0]]]
  /\ sent = {} /\ seen = {} /\ classes = {}
  /\ itemRow = NoItem
  /\ commentRows = [c \in Comments |-> NoComment]
  /\ runRows = [r \in Runs |-> NoRun]
  /\ collection = 0 /\ census = 0 /\ covered = 0
  /\ polls = [p \in Polls |-> IdlePoll]

PollStep(p) ==
  \/ PollComments(p)
  \/ PollRuns(p)
  \/ \E r \in Runs : VerifyRun(p, r)
  \/ ReadComments(p)
  \/ ReadRuns(p)
  \/ ReadRun(p)
  \/ PollLost(p)
  \/ RepairComments(p)
  \/ RepairRuns(p)
  \/ RepairRun(p)

ReadNext ==
  \/ ReadTick
  \/ \E c \in Comments, state \in {"live", "deleted"} : CommentChanges(c, state)
  \/ \E r \in Runs, state \in {"active", "completed"} : RunChanges(r, state)
  \/ \E r \in Runs : RunDeleted(r)
  \/ \E d \in sent, received \in {now - 1, now} : Ingest(d, received)
  \/ \E p \in Polls : PollStep(p)

ReadSpec == ReadInit /\ [][ReadNext]_readVars

-----------------------------------------------------------------------------
(* Properties.                                                             *)

ReadTypeOK ==
  /\ now \in 1..MaxTime /\ {collection, census, covered} \subseteq 0..MaxTime
  /\ seen \subseteq sent /\ classes \subseteq {"issue_comments", "workflow_runs"}
  /\ itemRow \in [at: 0..MaxTime, count: 0..Cardinality(Comments)]
  /\ commentRows \in [Comments -> [at: 0..MaxTime, tomb: BOOLEAN, received: 0..MaxTime]]
  /\ runRows \in [Runs -> [at: 0..MaxTime, state: {"absent", "active", "completed"},
                           received: 0..MaxTime]]

ServedActive(r) == runRows[r].state = "active"

\* What the read model knows about a run that is still so at GitHub is not lost to
\* a late delivery, or to a census or a verification that read GitHub before.
KnownRunsStay ==
  [][\A r \in Runs :
       /\ ServedActive(r) /\ github.runs[r].state = "active"
       /\ runRows[r].at = github.runs[r].at
       => ServedActive(r)']_readVars

\* A snapshot served as usable has every run that has been active since before
\* the start of a census that was applied, whatever was applied after it.
CensusIsComplete ==
  RunsUsable => \A r \in Runs :
    github.runs[r].state = "active" /\ github.runs[r].at <= covered => ServedActive(r)

DeletionSeen(c) == \E d \in seen : \E o \in About(d.objects, "comment", c) : o.tomb

\* A comment whose deletion was delivered and that has its tombstone is never shown
\* again, by a delivery that comes late or by a listing from before.
NoResurrection ==
  [][\A c \in Comments : commentRows[c].tomb /\ DeletionSeen(c) => commentRows'[c].tomb]_readVars

\* A complete repair with what GitHub still says heals the collection of comments.
RepairHeals ==
  [][\A p \in Polls :
       RepairComments(p) /\ polls[p].objects = ListedComments => Visible' = LiveComments]_readVars

=============================================================================
