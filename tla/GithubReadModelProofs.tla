------------------------ MODULE GithubReadModelProofs ------------------------
(* Proofs about the webhook read model, for any sets of comments, runs and      *)
(* pollers and any bounds on the clock and on GitHub's events.                  *)
EXTENDS GithubReadModel, FiniteSetTheorems, TLAPS

-----------------------------------------------------------------------------
(* The invariant.                                                              *)

Moments == 0..MaxTime
Counts == 0..Cardinality(Comments)

ItemObjects == [kind: {"item"}, at: Moments, count: Counts]
CommentObjects == [kind: {"comment"}, id: Comments, at: Moments, tomb: BOOLEAN]
RunObjects == [kind: {"run"}, id: Runs, at: Moments, state: {"active", "completed"}]
Objects == ItemObjects \cup CommentObjects \cup RunObjects

Shaped ==
  /\ ReadTypeOK
  /\ github \in [comments: [Comments -> [state: {"absent", "live", "deleted"}, at: Moments]],
                 item: [at: Moments, count: Counts],
                 runs: [Runs -> [state: {"absent", "active", "completed", "gone"}, at: Moments]]]
  /\ github.item.count = Cardinality(LiveComments)
  /\ sent \subseteq [class: {"issue_comments", "workflow_runs"}, objects: SUBSET Objects]
  /\ polls \in [Polls -> [kind: {"idle", "comments", "census", "verify"}, runs: SUBSET Runs,
                          start: Moments, read: BOOLEAN, objects: SUBSET Objects,
                          complete: BOOLEAN]]

\* What is on its way to the read model: a delivery's objects, a poller's.
Bundles == {d.objects : d \in sent} \cup {polls[p].objects : p \in Polls}
Heard == UNION Bundles

\* Nothing that was heard is newer than what GitHub says now, what is as new says
\* the same of an active run, and a deletion is of a comment that is deleted.
SaysTrue(o) ==
  /\ o.kind = "run" =>
       /\ o.at <= github.runs[o.id].at
       /\ github.runs[o.id].state = "active" /\ o.at = github.runs[o.id].at => o.state = "active"
  /\ o.kind = "comment" =>
       /\ o.at <= now
       /\ ~o.tomb => o.at <= github.comments[o.id].at
       /\ o.tomb => github.comments[o.id].state = "deleted"

\* A comment was live before it was deleted.
LivedBefore(o, q) ==
  o.kind = "comment" /\ q.kind = "comment" /\ o.id = q.id /\ ~o.tomb /\ q.tomb => o.at <= q.at

\* A bundle says one thing of a run or a comment.
SaysOnce(objects) ==
  \A o, q \in objects :
    o.kind \in {"run", "comment"} /\ q.kind = o.kind /\ o.id = q.id => o = q

Truthful ==
  /\ \A o \in Heard : SaysTrue(o)
  /\ \A o, q \in Heard : LivedBefore(o, q)
  /\ \A objects \in Bundles : SaysOnce(objects)

\* GitHub's instants are past.
Dated ==
  /\ \A r \in Runs : /\ github.runs[r].at <= now
                     /\ github.runs[r].state = "active" => github.runs[r].at > 0
  /\ \A c \in Comments : github.comments[c].at <= now
  /\ github.item.at <= now

\* The rows are behind GitHub, and no older than they were received.
Recorded ==
  /\ \A r \in Runs :
       /\ runRows[r].at <= github.runs[r].at /\ runRows[r].at <= runRows[r].received
       /\ github.runs[r].state = "active" /\ runRows[r].at = github.runs[r].at => ServedActive(r)
  /\ \A c \in Comments : commentRows[c].at <= now
  /\ \A d \in seen : \A o \in d.objects : o.kind = "comment" => o.at <= commentRows[o.id].at

\* A poller that has read lists every active run it answers for, unless the run
\* became active after the poller started.
Asked(p) == IF polls[p].kind = "verify" THEN polls[p].runs
            ELSE IF polls[p].kind = "census" /\ polls[p].complete THEN Runs ELSE {}

Listed(p, r) ==
  \E o \in polls[p].objects : o.kind = "run" /\ o.id = r /\ o.at = github.runs[r].at

Polled ==
  \A p \in Polls : polls[p].read =>
    /\ polls[p].start < now
    /\ \A r \in Asked(p) :
         github.runs[r].state = "active" /\ github.runs[r].at <= polls[p].start => Listed(p, r)

\* What a census covered is recorded as GitHub says.
Covers ==
  /\ covered < now
  /\ \A r \in Runs : github.runs[r].state = "active" /\ github.runs[r].at <= covered =>
       runRows[r].at = github.runs[r].at

ReadInv == Shaped /\ Truthful /\ Dated /\ Recorded /\ Polled /\ Covers

-----------------------------------------------------------------------------
(* Types, and what an upsert leaves in a row.                                  *)

CommentRow == [at: Moments, tomb: BOOLEAN, received: Moments]
RunRow == [at: Moments, state: {"absent", "active", "completed"}, received: Moments]
PollRow == [kind: {"idle", "comments", "census", "verify"}, runs: SUBSET Runs,
            start: Moments, read: BOOLEAN, objects: SUBSET Objects, complete: BOOLEAN]

LEMMA ReadTypes ==
  ASSUME Shaped
  PROVE  /\ MaxTime \in Nat \ {0} /\ now \in 1..MaxTime /\ now \in Moments
         /\ commentRows \in [Comments -> CommentRow] /\ runRows \in [Runs -> RunRow]
         /\ polls \in [Polls -> PollRow]
         /\ \A objects \in Bundles : objects \subseteq Objects
         /\ Heard \subseteq Objects
<1>1. MaxTime \in Nat \ {0}
  BY ReadModelAssumption DEF ReadModelAssumption
<1>2. /\ now \in 1..MaxTime /\ commentRows \in [Comments -> CommentRow]
      /\ runRows \in [Runs -> RunRow] /\ polls \in [Polls -> PollRow]
  BY DEF Shaped, ReadTypeOK, CommentRow, RunRow, PollRow, Moments
<1>3. \A objects \in Bundles : objects \subseteq Objects
  BY <1>2 DEF Shaped, Bundles, PollRow
<1>4. QED
  BY <1>1, <1>2, <1>3 DEF Heard, Moments

LEMMA ObjectTypes ==
  ASSUME NEW o \in Objects
  PROVE  /\ o.kind = "item" => o.at \in Moments /\ o.count \in Counts
         /\ o.kind = "comment" => o.id \in Comments /\ o.at \in Moments /\ o.tomb \in BOOLEAN
         /\ o.kind = "run" =>
              o.id \in Runs /\ o.at \in Moments /\ o.state \in {"active", "completed"}
  BY DEF Objects, ItemObjects, CommentObjects, RunObjects

LEMMA ItemUpsert ==
  ASSUME NEW row \in [at: Moments, count: Counts], NEW objects \in SUBSET Objects
  PROVE  ItemUpserted(row, objects) \in [at: Moments, count: Counts]
<1> DEFINE news == {o \in objects : o.kind = "item" /\ o.at > row.at}
           pick == CHOOSE o \in news : TRUE
<1>1. CASE news = {}
  BY <1>1 DEF ItemUpserted
<1>2. CASE news # {}
  <2>1. pick \in news
    BY <1>2
  <2>2. pick.at \in Moments /\ pick.count \in Counts
    BY <2>1, ObjectTypes
  <2>3. ItemUpserted(row, objects) = [at |-> pick.at, count |-> pick.count]
    BY <1>2 DEF ItemUpserted
  <2> HIDE DEF pick
  <2>4. QED
    BY <2>2, <2>3
<1>3. QED
  BY <1>1, <1>2

\* The row of a comment stays, and is as new as what came, or is what came.
LEMMA CommentUpsert ==
  ASSUME NEW rows \in [Comments -> CommentRow], NEW objects \in SUBSET Objects,
         NEW received \in Moments, SaysOnce(objects), MaxTime \in Nat
  PROVE  LET result == CommentUpserted(rows, objects, received) IN
         /\ result \in [Comments -> CommentRow]
         /\ \A c \in Comments :
              \/ result[c] = rows[c]
              \/ \E o \in objects : /\ o.kind = "comment" /\ o.id = c /\ o.at > rows[c].at
                                    /\ result[c].at = o.at /\ result[c].tomb = o.tomb
         /\ \A o \in objects : o.kind = "comment" => o.at <= result[o.id].at
         /\ \A c \in Comments : rows[c].at <= result[c].at
<1> DEFINE News(c) == {o \in About(objects, "comment", c) : SupersedesComment(o, rows[c])}
           Pick(c) == CHOOSE o \in News(c) : TRUE
           Row(c) == IF News(c) = {} THEN rows[c]
                     ELSE [at |-> Pick(c).at, tomb |-> Pick(c).tomb, received |-> received]
           result == CommentUpserted(rows, objects, received)
<1>1. result = [c \in Comments |-> Row(c)]
  BY DEF CommentUpserted
<1>2. ASSUME NEW c \in Comments, News(c) # {}
      PROVE  /\ Pick(c) \in objects /\ Pick(c).kind = "comment" /\ Pick(c).id = c
             /\ Pick(c).at > rows[c].at
             /\ Pick(c).at \in Moments /\ Pick(c).tomb \in BOOLEAN
  <2>1. Pick(c) \in News(c)
    BY <1>2
  <2> HIDE DEF Pick
  <2>2. /\ Pick(c) \in objects /\ Pick(c).kind = "comment" /\ Pick(c).id = c
        /\ Pick(c).at > rows[c].at
    BY <2>1 DEF About, SupersedesComment
  <2>3. QED
    BY <2>2, ObjectTypes
<1> HIDE DEF Pick
<1>3. ASSUME NEW c \in Comments
      PROVE  /\ Row(c) \in CommentRow
             /\ News(c) # {} => Row(c).at = Pick(c).at /\ Row(c).tomb = Pick(c).tomb
             /\ rows[c].at <= Row(c).at
  <2>1. rows[c] \in CommentRow /\ rows[c].at \in Nat
    BY DEF CommentRow, Moments
  <2>2. CASE News(c) = {}
    BY <2>1, <2>2
  <2>3. CASE News(c) # {}
    <3>1. Row(c) = [at |-> Pick(c).at, tomb |-> Pick(c).tomb, received |-> received]
      BY <2>3
    <3>2. [at |-> Pick(c).at, tomb |-> Pick(c).tomb, received |-> received] \in CommentRow
      BY <1>2, <2>3 DEF CommentRow
    <3>3. Pick(c).at > rows[c].at /\ Pick(c).at \in Nat
      BY <1>2, <2>3 DEF Moments
    <3>4. QED
      BY <2>1, <2>3, <3>2, <3>3
  <2>4. QED
    BY <2>2, <2>3
<1>4. \A o \in objects : o.kind = "comment" => o.at <= Row(o.id).at
  <2> SUFFICES ASSUME NEW o \in objects, o.kind = "comment" PROVE o.at <= Row(o.id).at
    OBVIOUS
  <2>1. o.id \in Comments /\ o.at \in Nat
    BY ObjectTypes DEF Moments
  <2>2. CASE o.at > rows[o.id].at
    <3>1. o \in News(o.id)
      BY <2>2 DEF About, SupersedesComment
    <3>2. Pick(o.id) = o
      BY <1>2, <2>1, <3>1 DEF SaysOnce
    <3>3. Row(o.id).at = o.at
      BY <1>3, <2>1, <3>1, <3>2
    <3>4. QED
      BY <2>1, <3>3
  <2>3. CASE ~(o.at > rows[o.id].at)
    <3>1. rows[o.id].at <= Row(o.id).at /\ rows[o.id].at \in Nat /\ Row(o.id).at \in Nat
      BY <1>3, <2>1 DEF CommentRow, Moments
    <3>2. QED
      BY <2>1, <2>3, <3>1
  <2>4. QED
    BY <2>2, <2>3
<1>5. \A c \in Comments :
        \/ Row(c) = rows[c]
        \/ \E o \in objects : /\ o.kind = "comment" /\ o.id = c /\ o.at > rows[c].at
                              /\ Row(c).at = o.at /\ Row(c).tomb = o.tomb
  <2> TAKE c \in Comments
  <2>1. CASE News(c) = {}
    BY <2>1
  <2>2. CASE News(c) # {}
    BY <1>2, <1>3, <2>2
  <2>3. QED
    BY <2>1, <2>2
<1> HIDE DEF Row
<1>6. \A c \in Comments : result[c] = Row(c)
  BY <1>1
<1>7. \A o \in objects : o.kind = "comment" => o.id \in Comments
  BY ObjectTypes
<1>8. result \in [Comments -> CommentRow]
  BY <1>1, <1>3
<1> HIDE DEF result
<1>9. QED
  BY <1>3, <1>4, <1>5, <1>6, <1>7, <1>8 DEF result

\* The row of a run stays, and is newer than what came, or is what came, and was
\* received no earlier than the old one and what came.
LEMMA RunUpsert ==
  ASSUME NEW rows \in [Runs -> RunRow], NEW objects \in SUBSET Objects,
         NEW received \in Moments, SaysOnce(objects), MaxTime \in Nat
  PROVE  LET result == RunUpserted(rows, objects, received) IN
         /\ result \in [Runs -> RunRow]
         /\ \A r \in Runs :
              \/ result[r] = rows[r]
              \/ \E o \in objects : /\ o.kind = "run" /\ o.id = r /\ o.at >= rows[r].at
                                    /\ result[r].at = o.at /\ result[r].state = o.state
                                    /\ result[r].received >= received
         /\ \A o \in objects : o.kind = "run" => o.at <= result[o.id].at
<1> DEFINE News(r) == {o \in About(objects, "run", r) : SupersedesRun(o, rows[r])}
           Pick(r) == CHOOSE o \in News(r) : TRUE
           Row(r) == IF News(r) = {} THEN rows[r]
                     ELSE [at |-> Pick(r).at, state |-> Pick(r).state,
                           received |-> Later(rows[r].received, received)]
           result == RunUpserted(rows, objects, received)
<1>1. result = [r \in Runs |-> Row(r)]
  BY DEF RunUpserted
<1>2. ASSUME NEW r \in Runs, News(r) # {}
      PROVE  /\ Pick(r) \in objects /\ Pick(r).kind = "run" /\ Pick(r).id = r
             /\ Pick(r).at >= rows[r].at
             /\ Pick(r).at \in Moments /\ Pick(r).state \in {"active", "completed"}
  <2>1. Pick(r) \in News(r)
    BY <1>2
  <2> HIDE DEF Pick
  <2>2. /\ Pick(r) \in objects /\ Pick(r).kind = "run" /\ Pick(r).id = r
        /\ Pick(r).at >= rows[r].at
    BY <2>1 DEF About, SupersedesRun
  <2>3. QED
    BY <2>2, ObjectTypes
<1> HIDE DEF Pick
<1>3. ASSUME NEW r \in Runs
      PROVE  /\ Row(r) \in RunRow
             /\ News(r) # {} => /\ Row(r).at = Pick(r).at /\ Row(r).state = Pick(r).state
                                /\ Row(r).received >= received
             /\ rows[r].at <= Row(r).at
  <2>1. rows[r] \in RunRow /\ rows[r].at \in Nat /\ rows[r].received \in Moments
    BY DEF RunRow, Moments
  <2>2. CASE News(r) = {}
    BY <2>1, <2>2
  <2>3. CASE News(r) # {}
    <3> DEFINE later == Later(rows[r].received, received)
    <3>1. later \in Moments /\ later >= received
      BY <2>1 DEF Later, Moments
    <3> HIDE DEF later
    <3>2. Row(r) = [at |-> Pick(r).at, state |-> Pick(r).state, received |-> later]
      BY <2>3 DEF later
    <3>3. [at |-> Pick(r).at, state |-> Pick(r).state, received |-> later] \in RunRow
      BY <1>2, <2>3, <3>1 DEF RunRow
    <3>4. Pick(r).at >= rows[r].at /\ Pick(r).at \in Nat
      BY <1>2, <2>3 DEF Moments
    <3> HIDE DEF Row
    <3>5. Row(r).at = Pick(r).at /\ Row(r).state = Pick(r).state /\ Row(r).received = later
      BY <3>2
    <3>6. Row(r) \in RunRow
      BY <3>2, <3>3
    <3>7. QED
      BY <2>1, <3>1, <3>4, <3>5, <3>6
  <2>4. QED
    BY <2>2, <2>3
<1>4. \A o \in objects : o.kind = "run" => o.at <= Row(o.id).at
  <2> SUFFICES ASSUME NEW o \in objects, o.kind = "run" PROVE o.at <= Row(o.id).at
    OBVIOUS
  <2>1. o.id \in Runs /\ o.at \in Nat
    BY ObjectTypes DEF Moments
  <2>2. CASE o.at >= rows[o.id].at
    <3>1. o \in News(o.id)
      BY <2>2 DEF About, SupersedesRun
    <3>2. Pick(o.id) = o
      BY <1>2, <2>1, <3>1 DEF SaysOnce
    <3>3. Row(o.id).at = o.at
      BY <1>3, <2>1, <3>1, <3>2
    <3>4. QED
      BY <2>1, <3>3
  <2>3. CASE ~(o.at >= rows[o.id].at)
    <3>1. rows[o.id].at <= Row(o.id).at /\ rows[o.id].at \in Nat /\ Row(o.id).at \in Nat
      BY <1>3, <2>1 DEF RunRow, Moments
    <3>2. QED
      BY <2>1, <2>3, <3>1
  <2>4. QED
    BY <2>2, <2>3
<1>5. \A r \in Runs :
        \/ Row(r) = rows[r]
        \/ \E o \in objects : /\ o.kind = "run" /\ o.id = r /\ o.at >= rows[r].at
                              /\ Row(r).at = o.at /\ Row(r).state = o.state
                              /\ Row(r).received >= received
  <2> TAKE r \in Runs
  <2>1. CASE News(r) = {}
    BY <2>1
  <2>2. CASE News(r) # {}
    BY <1>2, <1>3, <2>2
  <2>3. QED
    BY <2>1, <2>2
<1> HIDE DEF Row
<1>6. \A r \in Runs : result[r] = Row(r)
  BY <1>1
<1>7. \A o \in objects : o.kind = "run" => o.id \in Runs
  BY ObjectTypes
<1>8. result \in [Runs -> RunRow]
  BY <1>1, <1>3
<1> HIDE DEF result
<1>9. QED
  BY <1>4, <1>5, <1>6, <1>7, <1>8 DEF result

-----------------------------------------------------------------------------
(* The clock and GitHub.                                                       *)

\* One more true bundle, while GitHub rests.
LEMMA TruthKeeps ==
  ASSUME Shaped, Truthful, UNCHANGED github, now' \in Nat, now <= now', NEW S \in SUBSET Objects,
         Bundles' \subseteq Bundles \cup {S},
         \A o \in S : SaysTrue(o),
         \A o \in S : o.kind = "comment" => ~o.tomb /\ github.comments[o.id].state = "live",
         SaysOnce(S)
  PROVE  Truthful'
<1>1. \A o \in Heard' : o \in Heard \/ o \in S
  BY DEF Heard
<1>2. \A o \in Heard \cup S : SaysTrue(o)
  BY DEF Truthful
<1>3. \A o \in Heard \cup S : SaysTrue(o)'
  <2> SUFFICES ASSUME NEW o \in Heard \cup S PROVE SaysTrue(o)'
    OBVIOUS
  <2>1. SaysTrue(o) /\ o \in Objects
    BY <1>2, ReadTypes
  <2>2. o.kind = "comment" => o.at \in Nat /\ now \in Nat
    BY <2>1, ObjectTypes, ReadTypes DEF Moments
  <2>3. QED
    BY <2>1, <2>2 DEF SaysTrue
<1>4. \A o, q \in Heard \cup S : LivedBefore(o, q)
  <2> SUFFICES ASSUME NEW o \in Heard \cup S, NEW q \in Heard \cup S, ~LivedBefore(o, q) PROVE FALSE
    OBVIOUS
  <2>1. q \in S => ~q.tomb
    BY DEF LivedBefore
  <2>2. q \in Heard
    BY <2>1 DEF LivedBefore
  <2>3. o \notin S
    BY <1>2, <2>2 DEF LivedBefore, SaysTrue
  <2>4. QED
    BY <2>2, <2>3 DEF Truthful
<1>5. \A objects \in Bundles' : SaysOnce(objects)
  BY DEF Truthful
<1>6. QED
  BY <1>1, <1>3, <1>4, <1>5 DEF Truthful, LivedBefore, SaysOnce

LEMMA EmptyBundle ==
  /\ {} \in SUBSET Objects /\ SaysOnce({})
  /\ \A o \in {} : SaysTrue(o) /\ (o.kind = "comment" => ~o.tomb /\ github.comments[o.id].state = "live")
  BY DEF SaysOnce

LEMMA ReadTickKeeps ==
  ASSUME ReadInv, ReadTick
  PROVE  ReadInv'
<1>1. /\ now' = now + 1 /\ now' \in 1..MaxTime
      /\ UNCHANGED <<github, sent, seen, classes, itemRow, commentRows, runRows, collection,
                     census, polls, covered>>
  BY ReadTypes DEF ReadInv, ReadTick, storeVars
<1>2. now \in Nat /\ now' \in Nat /\ now <= now' /\ now < now'
  BY <1>1, ReadTypes DEF ReadInv
<1>3. Shaped'
  BY <1>1 DEF ReadInv, Shaped, ReadTypeOK, LiveComments
<1>4. Bundles' \subseteq Bundles \cup {{}}
  BY <1>1 DEF Bundles
<1>5. Truthful'
  BY <1>1, <1>2, <1>4, EmptyBundle, TruthKeeps DEF ReadInv
<1>6. Dated'
  <2>1. /\ github.item.at \in Nat /\ \A r \in Runs : github.runs[r].at \in Nat
        /\ \A c \in Comments : github.comments[c].at \in Nat
    BY DEF ReadInv, Shaped, Moments
  <2>2. QED
    BY <1>1, <1>2, <2>1 DEF ReadInv, Dated
<1>7. Recorded'
  <2>1. \A c \in Comments : commentRows[c].at \in Nat
    BY ReadTypes DEF ReadInv, CommentRow, Moments
  <2>2. QED
    BY <1>1, <1>2, <2>1 DEF ReadInv, Recorded, ServedActive
<1>8. Polled' /\ Covers'
  <2>1. covered \in Nat /\ \A p \in Polls : polls[p].start \in Nat
    BY ReadTypes DEF ReadInv, Shaped, ReadTypeOK, PollRow, Moments
  <2>2. QED
    BY <1>1, <1>2, <2>1 DEF ReadInv, Polled, Covers, Asked, Listed
<1>9. QED
  BY <1>3, <1>5, <1>6, <1>7, <1>8 DEF ReadInv

\* GitHub counts its comments.
LEMMA CommentsCounted ==
  ASSUME Shaped, NEW c \in Comments, NEW state \in {"live", "deleted"},
         github'.comments = [github.comments EXCEPT ![c] = [state |-> state, at |-> now]],
         github.comments[c].state = "absent" => state = "live",
         github.comments[c].state # "deleted"
  PROVE  LET count == github.item.count
                        + (IF github.comments[c].state = "absent" THEN 1 ELSE 0)
                        - (IF state = "deleted" THEN 1 ELSE 0)
         IN count = Cardinality(LiveComments') /\ count \in Counts
<1>1. /\ github.comments \in [Comments -> [state: {"absent", "live", "deleted"}, at: Moments]]
      /\ github.item.count = Cardinality(LiveComments) /\ now \in Moments
  BY ReadTypes DEF Shaped
<1>2. github'.comments[c].state = state
      /\ \A e \in Comments \ {c} : github'.comments[e] = github.comments[e]
  <2> DEFINE row == [state |-> state, at |-> now]
  <2>1. row.state = state
    OBVIOUS
  <2> HIDE DEF row
  <2>2. github'.comments[c] = row /\ \A e \in Comments \ {c} : github'.comments[e] = github.comments[e]
    BY <1>1 DEF row
  <2>3. QED
    BY <2>1, <2>2
<1>3. /\ IsFiniteSet(Comments) /\ IsFiniteSet(LiveComments) /\ IsFiniteSet(LiveComments')
      /\ LiveComments' \subseteq Comments
      /\ Cardinality(LiveComments) \in Nat
  <2>1. LiveComments \subseteq Comments /\ LiveComments' \subseteq Comments
    BY DEF LiveComments
  <2>2. QED
    BY <2>1, ReadModelAssumption, FS_Subset, FS_CardinalityType DEF ReadModelAssumption
<1>4. Cardinality(LiveComments') \in Counts
  BY <1>3, FS_Subset, FS_CardinalityType DEF Counts
<1>5. CASE github.comments[c].state = "absent"
  <2>1. LiveComments' = LiveComments \cup {c} /\ c \notin LiveComments
    BY <1>2, <1>5 DEF LiveComments
  <2>2. Cardinality(LiveComments') = Cardinality(LiveComments) + 1
    BY <1>3, <2>1, FS_AddElement
  <2>3. QED
    BY <1>1, <1>3, <1>4, <1>5, <2>2
<1>6. CASE github.comments[c].state = "live" /\ state = "live"
  <2>1. LiveComments' = LiveComments
    BY <1>2, <1>6 DEF LiveComments
  <2>2. QED
    BY <1>1, <1>3, <1>4, <1>6, <2>1
<1>7. CASE github.comments[c].state = "live" /\ state = "deleted"
  <2>1. LiveComments' = LiveComments \ {c} /\ c \in LiveComments
    BY <1>2, <1>7 DEF LiveComments
  <2>2. Cardinality(LiveComments') = Cardinality(LiveComments) - 1
    BY <1>3, <2>1, FS_RemoveElement
  <2>3. QED
    BY <1>1, <1>3, <1>4, <1>7, <2>2
<1>8. QED
  BY <1>1, <1>5, <1>6, <1>7

LEMMA CommentChangesKeeps ==
  ASSUME ReadInv, NEW c \in Comments, NEW state \in {"live", "deleted"}, CommentChanges(c, state)
  PROVE  ReadInv'
<1> DEFINE before == github.comments[c]
           row == [state |-> state, at |-> now]
           count == github.item.count + (IF before.state = "absent" THEN 1 ELSE 0)
                                      - (IF state = "deleted" THEN 1 ELSE 0)
           item == [at |-> now, count |-> count]
<1>1. PICK at \in IF state = "deleted" THEN {before.at, now} ELSE {now} :
        Sends("issue_comments", {ItemObject(item), CommentObject(c, at, state = "deleted")})
  BY DEF CommentChanges
<1>2. /\ before.state = IF before.at = 0 THEN "absent" ELSE "live"
      /\ before.at = 0 => state = "live"
      /\ github' = [github EXCEPT !.comments = [github.comments EXCEPT ![c] = row], !.item = item]
      /\ UNCHANGED <<now, seen, classes, itemRow, commentRows, runRows, collection, census,
                     polls, covered>>
  BY <1>1 DEF CommentChanges, Sends, storeVars
<1> DEFINE o1 == ItemObject(item)
           o2 == CommentObject(c, at, state = "deleted")
<1>3. sent' = sent \cup {[class |-> "issue_comments", objects |-> {o1, o2}]}
  BY <1>1 DEF Sends
<1>4. /\ github.comments \in [Comments -> [state: {"absent", "live", "deleted"}, at: Moments]]
      /\ before.at \in Moments /\ before.at <= now /\ now \in Moments /\ at \in Moments /\ at <= now
      /\ before.at <= at
  BY <1>1, ReadTypes DEF ReadInv, Shaped, Dated, Moments
<1>5. /\ github'.comments = [github.comments EXCEPT ![c] = row]
      /\ github'.item = item /\ github'.runs = github.runs
  BY <1>2 DEF ReadInv, Shaped
<1>6. before.state # "deleted" /\ (before.state = "absent" => state = "live")
  BY <1>2
<1>7. count = Cardinality(LiveComments') /\ count \in Counts
  BY <1>5, <1>6, CommentsCounted DEF ReadInv
<1> HIDE DEF count
<1>8. /\ row \in [state: {"absent", "live", "deleted"}, at: Moments]
      /\ row.state = state /\ row.at = now
      /\ item \in [at: Moments, count: Counts] /\ item.at = now /\ item.count = count
  BY <1>4, <1>7
<1>9. /\ o1 \in Objects /\ o1.kind = "item"
      /\ o2 \in Objects /\ o2.kind = "comment" /\ o2.id = c /\ o2.at = at
      /\ o2.tomb = (state = "deleted")
  BY <1>4, <1>7 DEF Objects, ItemObjects, CommentObjects, ItemObject, CommentObject
<1> HIDE DEF row, item, o1, o2
<1>10. Shaped'
  <2>1. ReadTypeOK'
    BY <1>2, <1>3 DEF ReadInv, Shaped, ReadTypeOK
  <2>2. github' \in [comments: [Comments -> [state: {"absent", "live", "deleted"}, at: Moments]],
                     item: [at: Moments, count: Counts],
                     runs: [Runs -> [state: {"absent", "active", "completed", "gone"}, at: Moments]]]
    BY <1>2, <1>4, <1>8 DEF ReadInv, Shaped
  <2>3. github'.item.count = Cardinality(LiveComments')
    BY <1>5, <1>7, <1>8
  <2>4. sent' \subseteq [class: {"issue_comments", "workflow_runs"}, objects: SUBSET Objects]
    BY <1>3, <1>9 DEF ReadInv, Shaped
  <2>5. QED
    BY <1>2, <2>1, <2>2, <2>3, <2>4 DEF ReadInv, Shaped
<1>11. \A e \in Comments :
         /\ e = c => github'.comments[e] = row
         /\ e # c => github'.comments[e] = github.comments[e]
  BY <1>4, <1>5
<1>12. Bundles' = Bundles \cup {{o1, o2}} /\ Heard' = Heard \cup {o1, o2}
  <2>1. {d.objects : d \in sent'} = {d.objects : d \in sent} \cup {{o1, o2}}
    <3> DEFINE d0 == [class |-> "issue_comments", objects |-> {o1, o2}]
    <3>1. d0.objects = {o1, o2} /\ sent' = sent \cup {d0}
      BY <1>3
    <3> HIDE DEF d0
    <3>2. QED
      BY <3>1
  <2>2. QED
    BY ZenonT(60), <1>2, <2>1 DEF Bundles, Heard
<1>13. Truthful'
  <2>1. \A o \in Heard : o.kind = "comment" /\ o.id = c => ~o.tomb /\ o.at <= before.at
    BY <1>6, ReadTypes, ObjectTypes DEF ReadInv, Truthful, SaysTrue
  <2>2. ASSUME NEW o \in Heard PROVE SaysTrue(o)'
    <3>1. SaysTrue(o) /\ o \in Objects
      BY ReadTypes DEF ReadInv, Truthful
    <3>2. o.kind = "run" => SaysTrue(o)'
      BY <1>5, <3>1 DEF SaysTrue
    <3>3. o.kind = "comment" /\ o.id # c => SaysTrue(o)'
      BY <1>2, <1>11, <3>1, ObjectTypes DEF SaysTrue
    <3>4. o.kind = "comment" /\ o.id = c => SaysTrue(o)'
      BY <1>2, <1>4, <1>8, <1>11, <2>1, <3>1, ObjectTypes DEF SaysTrue, Moments
    <3>5. QED
      BY <3>2, <3>3, <3>4 DEF SaysTrue
  <2>3. ASSUME NEW o \in {o1, o2} PROVE SaysTrue(o)'
    <3>1. o.kind = "item" \/ (/\ o.kind = "comment" /\ o.id = c /\ o.at = at
                             /\ o.tomb = (state = "deleted"))
      BY <1>9
    <3>2. github'.comments[c].at = now /\ github'.comments[c].state = state /\ now' = now
      BY <1>2, <1>8, <1>11
    <3>3. QED
      BY <1>4, <3>1, <3>2 DEF SaysTrue
  <2>4. \A o, q \in Heard' : LivedBefore(o, q)'
    <3> SUFFICES ASSUME NEW o \in Heard', NEW q \in Heard', ~LivedBefore(o, q) PROVE FALSE
      BY DEF LivedBefore
    <3>1. CASE o \in Heard /\ q \in Heard
      BY <3>1 DEF ReadInv, Truthful
    <3>2. CASE q = o2 /\ o \in Heard
      <4>1. o.at <= before.at /\ q.at = at /\ o.at \in Nat
        BY <1>9, <2>1, <3>2, ReadTypes, ObjectTypes DEF ReadInv, LivedBefore, Moments
      <4>2. QED
        BY <1>4, <3>2, <4>1 DEF LivedBefore, Moments
    <3>3. CASE o = o2 /\ q \in Heard
      BY <1>9, <2>1, <3>3 DEF LivedBefore
    <3>4. CASE o = o1 \/ q = o1 \/ (o = o2 /\ q = o2)
      BY <1>9, <3>4 DEF LivedBefore
    <3>5. QED
      BY <1>12, <3>1, <3>2, <3>3, <3>4
  <2>5. SaysOnce({o1, o2})
    BY <1>9 DEF SaysOnce
  <2>6. \A o \in Heard' : SaysTrue(o)'
    BY <1>12, <2>2, <2>3
  <2>7. \A objects \in Bundles' : SaysOnce(objects)
    BY <1>12, <2>5 DEF ReadInv, Truthful
  <2>8. QED
    BY <2>4, <2>6, <2>7 DEF Truthful, SaysOnce
<1>14. Dated'
  <2>1. now <= now
    BY <1>4 DEF Moments
  <2>2. QED
    BY <1>2, <1>5, <1>8, <1>11, <2>1 DEF ReadInv, Dated
<1>15. Recorded' /\ Polled' /\ Covers'
  BY <1>2, <1>5 DEF ReadInv, Recorded, Polled, Covers, Asked, Listed, ServedActive
<1>16. QED
  BY <1>10, <1>13, <1>14, <1>15 DEF ReadInv

\* A run that changes is newer than all that was heard, read or recorded of it.
LEMMA RunRenewed ==
  ASSUME ReadInv, NEW r \in Runs, NEW state \in {"active", "completed", "gone"},
         github' = [github EXCEPT !.runs[r] = [state |-> state, at |-> now]],
         state = "active" => now > github.runs[r].at,
         UNCHANGED <<now, seen, classes, itemRow, commentRows, runRows, collection, census,
                     polls, covered>>,
         NEW S \in SUBSET Objects, Bundles' \subseteq Bundles \cup {S}, SaysOnce(S),
         sent' \subseteq [class: {"issue_comments", "workflow_runs"}, objects: SUBSET Objects],
         sent \subseteq sent',
         \A o \in S : o.kind = "run" /\ o.id = r /\ o.at = now /\ o.state = state
  PROVE  ReadInv'
<1> DEFINE row == [state |-> state, at |-> now]
<1>1. row.state = state /\ row.at = now
      /\ row \in [state: {"absent", "active", "completed", "gone"}, at: Moments]
  BY ReadTypes DEF ReadInv
<1> HIDE DEF row
<1>2. /\ github.runs \in [Runs -> [state: {"absent", "active", "completed", "gone"}, at: Moments]]
      /\ now \in Nat \ {0} /\ now \in Moments /\ github.runs[r].at <= now
  BY ReadTypes DEF ReadInv, Shaped, Dated
<1>3. /\ github'.runs = [github.runs EXCEPT ![r] = row]
      /\ github'.comments = github.comments /\ github'.item = github.item
  BY DEF ReadInv, Shaped, row
<1>4. /\ github'.runs[r].state = state /\ github'.runs[r].at = now
      /\ \A q \in Runs : q # r => github'.runs[q] = github.runs[q]
  BY <1>1, <1>2, <1>3
<1>5. Shaped'
  <2>1. github' \in [comments: [Comments -> [state: {"absent", "live", "deleted"}, at: Moments]],
                     item: [at: Moments, count: Counts],
                     runs: [Runs -> [state: {"absent", "active", "completed", "gone"}, at: Moments]]]
    BY <1>1, <1>2, <1>3 DEF ReadInv, Shaped, row
  <2>2. github'.item.count = Cardinality(LiveComments')
    BY <1>3 DEF ReadInv, Shaped, LiveComments
  <2>3. ReadTypeOK'
    BY DEF ReadInv, Shaped, ReadTypeOK
  <2>4. QED
    BY <2>1, <2>2, <2>3 DEF ReadInv, Shaped
<1>6. Truthful'
  <2>1. \A o \in Heard' : o \in Heard \/ o \in S
    BY DEF Heard
  <2>2. ASSUME NEW o \in Heard PROVE SaysTrue(o)'
    <3>1. SaysTrue(o) /\ o \in Objects
      BY ReadTypes DEF ReadInv, Truthful
    <3>2. o.kind = "comment" => SaysTrue(o)'
      BY <1>3, <3>1 DEF SaysTrue
    <3>3. CASE o.kind = "run" /\ o.id # r
      BY <1>4, <3>1, <3>3, ObjectTypes DEF SaysTrue
    <3>4. CASE o.kind = "run" /\ o.id = r
      <4>1. o.at <= github.runs[r].at /\ o.at \in Nat /\ github.runs[r].at \in Nat
        BY <1>2, <3>1, <3>4, ObjectTypes DEF SaysTrue, Moments
      <4>2. QED
        BY <1>2, <1>4, <3>4, <4>1 DEF SaysTrue
    <3>5. QED
      BY <3>2, <3>3, <3>4 DEF SaysTrue
  <2>3. ASSUME NEW o \in S PROVE SaysTrue(o)'
    BY <1>2, <1>4, <2>3 DEF SaysTrue
  <2>4. \A o, q \in Heard' : LivedBefore(o, q)
    BY <2>1 DEF ReadInv, Truthful, LivedBefore
  <2>5. \A objects \in Bundles' : SaysOnce(objects)
    BY DEF ReadInv, Truthful
  <2>6. QED
    BY <2>1, <2>2, <2>3, <2>4, <2>5 DEF Truthful, LivedBefore, SaysOnce
<1>7. Dated'
  BY <1>2, <1>3, <1>4 DEF ReadInv, Dated
<1>8. Recorded'
  <2>1. ASSUME NEW q \in Runs
        PROVE  /\ runRows[q].at <= github'.runs[q].at /\ runRows[q].at <= runRows[q].received
               /\ github'.runs[q].state = "active" /\ runRows[q].at = github'.runs[q].at
                    => ServedActive(q)
    <3>1. /\ runRows[q].at <= github.runs[q].at /\ runRows[q].at <= runRows[q].received
          /\ github.runs[q].state = "active" /\ runRows[q].at = github.runs[q].at => ServedActive(q)
      BY DEF ReadInv, Recorded
    <3>2. runRows[q].at \in Nat /\ github.runs[q].at \in Nat
      BY <1>2, ReadTypes DEF ReadInv, RunRow, Moments
    <3>3. QED
      BY <1>2, <1>4, <3>1, <3>2
  <2>2. QED
    BY <2>1 DEF ReadInv, Recorded, ServedActive
<1>9. Polled'
  <2>1. ASSUME NEW p \in Polls, polls[p].read, NEW q \in Asked(p),
               github'.runs[q].state = "active", github'.runs[q].at <= polls[p].start
        PROVE  q # r /\ q \in Runs
    <3>1. polls[p].start < now /\ polls[p].start \in Nat /\ q \in Runs
      BY <2>1, ReadTypes DEF ReadInv, Polled, Asked, PollRow, Moments
    <3>2. QED
      BY <1>2, <1>4, <2>1, <3>1
  <2>2. QED
    BY <1>4, <2>1 DEF ReadInv, Polled, Asked, Listed
<1>10. Covers'
  <2>1. covered \in Nat
    BY DEF ReadInv, Shaped, ReadTypeOK
  <2>2. QED
    BY <1>2, <1>4, <2>1 DEF ReadInv, Covers
<1>11. QED
  BY <1>5, <1>6, <1>7, <1>8, <1>9, <1>10 DEF ReadInv

LEMMA RunChangesKeeps ==
  ASSUME ReadInv, NEW r \in Runs, NEW state \in {"active", "completed"}, RunChanges(r, state)
  PROVE  ReadInv'
<1> DEFINE run == [state |-> state, at |-> now]
           o1 == RunObject(r, run)
           d1 == [class |-> "workflow_runs", objects |-> {o1}]
<1>1. /\ now > github.runs[r].at
      /\ github' = [github EXCEPT !.runs[r] = run]
      /\ sent' = sent \cup {d1}
      /\ UNCHANGED <<now, seen, classes, itemRow, commentRows, runRows, collection, census,
                     polls, covered>>
  BY DEF RunChanges, Sends, storeVars
<1>2. o1 \in Objects /\ o1.kind = "run" /\ o1.id = r /\ o1.at = now /\ o1.state = state
  BY ReadTypes DEF ReadInv, RunObject, Objects, RunObjects
<1> HIDE DEF o1
<1>3. /\ d1 \in [class: {"issue_comments", "workflow_runs"}, objects: SUBSET Objects]
      /\ d1.objects = {o1}
  BY <1>2
<1> HIDE DEF d1
<1>4. {d.objects : d \in sent'} = {d.objects : d \in sent} \cup {{o1}}
  BY <1>1, <1>3
<1>5. Bundles' \subseteq Bundles \cup {{o1}}
  BY <1>1, <1>4 DEF Bundles
<1>6. sent' \subseteq [class: {"issue_comments", "workflow_runs"}, objects: SUBSET Objects]
  BY <1>1, <1>3 DEF ReadInv, Shaped
<1>7. SaysOnce({o1}) /\ {o1} \in SUBSET Objects
  BY <1>2 DEF SaysOnce
<1>8. QED
  BY <1>1, <1>2, <1>5, <1>6, <1>7, RunRenewed

LEMMA RunDeletedKeeps ==
  ASSUME ReadInv, NEW r \in Runs, RunDeleted(r)
  PROVE  ReadInv'
<1>1. /\ github' = [github EXCEPT !.runs[r] = [state |-> "gone", at |-> now]]
      /\ UNCHANGED <<now, sent, seen, classes, itemRow, commentRows, runRows, collection, census,
                     polls, covered>>
  BY DEF RunDeleted, storeVars
<1>2. Bundles' \subseteq Bundles \cup {{}}
  BY <1>1 DEF Bundles
<1>3. sent' \subseteq [class: {"issue_comments", "workflow_runs"}, objects: SUBSET Objects]
  BY <1>1 DEF ReadInv, Shaped
<1>4. QED
  BY <1>1, <1>2, <1>3, EmptyBundle, RunRenewed

-----------------------------------------------------------------------------
(* The pollers.                                                                *)

\* A poller's row changes; what is new in it is true and complete.
LEMMA PollKeeps ==
  ASSUME ReadInv, NEW p \in Polls, NEW poll \in PollRow,
         polls' = [polls EXCEPT ![p] = poll],
         UNCHANGED <<now, github, sent, seen, classes, itemRow, commentRows, runRows,
                     collection, census, covered>>,
         \A o \in poll.objects : SaysTrue(o),
         \A o \in poll.objects :
           o.kind = "comment" => ~o.tomb /\ github.comments[o.id].state = "live",
         SaysOnce(poll.objects),
         poll.read => poll.start < now,
         \A r \in Runs :
           /\ poll.read /\ github.runs[r].state = "active"
           /\ (poll.kind = "census" /\ poll.complete) \/ (poll.kind = "verify" /\ r \in poll.runs)
           => \E o \in poll.objects : o.kind = "run" /\ o.id = r /\ o.at = github.runs[r].at
  PROVE  ReadInv'
<1>1. polls' \in [Polls -> PollRow] /\ polls'[p] = poll /\ \A q \in Polls \ {p} : polls'[q] = polls[q]
  BY ReadTypes DEF ReadInv
<1>2. Shaped'
  BY <1>1 DEF ReadInv, Shaped, ReadTypeOK, LiveComments, PollRow
<1>3. Bundles' \subseteq Bundles \cup {poll.objects}
  BY <1>1 DEF Bundles
<1>4. now \in Nat /\ now <= now /\ poll.objects \in SUBSET Objects
  BY ReadTypes DEF ReadInv, PollRow
<1>5. Truthful'
  BY <1>3, <1>4, TruthKeeps DEF ReadInv
<1>6. Dated' /\ Recorded' /\ Covers'
  BY DEF ReadInv, Dated, Recorded, Covers, ServedActive
<1>7. Polled'
  <2>1. ASSUME NEW q \in Polls, q # p
        PROVE  /\ polls'[q].read => polls'[q].start < now
               /\ polls'[q].read => \A r \in Asked(q)' :
                    github.runs[r].state = "active" /\ github.runs[r].at <= polls'[q].start
                      => Listed(q, r)'
    BY <1>1, <2>1 DEF ReadInv, Polled, Asked, Listed
  <2>2. /\ polls'[p].read => polls'[p].start < now
        /\ polls'[p].read => \A r \in Asked(p)' :
             github.runs[r].state = "active" /\ github.runs[r].at <= polls'[p].start => Listed(p, r)'
    <3> SUFFICES ASSUME poll.read, NEW r \in Asked(p)', github.runs[r].state = "active"
                 PROVE  Listed(p, r)'
      BY <1>1
    <3>1. /\ (poll.kind = "census" /\ poll.complete) \/ (poll.kind = "verify" /\ r \in poll.runs)
          /\ r \in Runs
      BY <1>1 DEF Asked, PollRow
    <3>2. \E o \in poll.objects : o.kind = "run" /\ o.id = r /\ o.at = github.runs[r].at
      BY <3>1
    <3>3. QED
      BY <1>1, <3>2 DEF Listed
  <2>3. QED
    BY <2>1, <2>2 DEF Polled
<1>8. QED
  BY <1>2, <1>5, <1>6, <1>7 DEF ReadInv

LEMMA NewPoll ==
  ASSUME Shaped, NEW kind \in {"idle", "comments", "census", "verify"}, NEW rs \in SUBSET Runs,
         NEW start \in Moments
  PROVE  LET poll == Poll(kind, rs, start)
         IN /\ poll \in PollRow /\ poll.objects = {} /\ ~poll.read /\ poll.kind = kind
            /\ poll.start = start
<1>1. {} \in SUBSET Objects
  OBVIOUS
<1>2. QED
  BY <1>1 DEF Poll, PollRow

LEMMA StartsPollKeeps ==
  ASSUME ReadInv, NEW p \in Polls, NEW kind \in {"comments", "census", "verify"},
         NEW rs \in SUBSET Runs, StartsPoll(p, kind, rs)
  PROVE  ReadInv'
<1> DEFINE poll == Poll(kind, rs, now)
<1>1. poll \in PollRow /\ poll.objects = {} /\ ~poll.read
  <2>1. now \in Moments /\ {} \in SUBSET Objects
    BY ReadTypes DEF ReadInv
  <2>2. QED
    BY <2>1 DEF Poll, PollRow
<1>2. /\ polls' = [polls EXCEPT ![p] = poll]
      /\ UNCHANGED <<now, github, sent, seen, classes, itemRow, commentRows, runRows,
                     collection, census, covered>>
  BY DEF StartsPoll, storeVars
<1> HIDE DEF poll
<1>3. QED
  BY <1>1, <1>2, EmptyBundle, PollKeeps

LEMMA PollLostKeeps ==
  ASSUME ReadInv, NEW p \in Polls, PollLost(p)
  PROVE  ReadInv'
<1>1. IdlePoll \in PollRow /\ IdlePoll.objects = {} /\ ~IdlePoll.read
  <2>1. 0 \in Moments
    BY ReadTypes DEF ReadInv, Moments
  <2>2. QED
    BY <2>1, NewPoll DEF IdlePoll, ReadInv
<1>2. /\ polls' = [polls EXCEPT ![p] = IdlePoll]
      /\ UNCHANGED <<now, github, sent, seen, classes, itemRow, commentRows, runRows,
                     collection, census, covered>>
  BY DEF PollLost, Ends
<1>3. QED
  BY <1>1, <1>2, EmptyBundle, PollKeeps

\* What GitHub answers is true as of now.
LEMMA ReadsKeeps ==
  ASSUME ReadInv, NEW p \in Polls, NEW kind \in {"comments", "census", "verify"},
         NEW objects \in SUBSET Objects, NEW complete \in BOOLEAN,
         Reads(p, kind, objects, complete),
         \A o \in objects : SaysTrue(o),
         \A o \in objects : o.kind = "comment" => ~o.tomb /\ github.comments[o.id].state = "live",
         SaysOnce(objects),
         \A r \in Runs :
           /\ github.runs[r].state = "active"
           /\ (kind = "census" /\ complete) \/ (kind = "verify" /\ r \in polls[p].runs)
           => \E o \in objects : o.kind = "run" /\ o.id = r /\ o.at = github.runs[r].at
  PROVE  ReadInv'
<1> DEFINE poll == [polls[p] EXCEPT !.read = TRUE, !.objects = objects, !.complete = complete]
<1>1. polls[p] \in PollRow /\ polls[p].kind = kind /\ polls[p].start < now
  BY ReadTypes DEF ReadInv, Reads, PollRow, Moments
<1>2. /\ poll \in PollRow
      /\ poll.objects = objects /\ poll.read /\ poll.kind = kind /\ poll.runs = polls[p].runs
      /\ poll.complete = complete /\ poll.start = polls[p].start
  BY <1>1 DEF PollRow
<1>3. /\ polls' = [polls EXCEPT ![p] = poll]
      /\ UNCHANGED <<now, github, sent, seen, classes, itemRow, commentRows, runRows,
                     collection, census, covered>>
  BY ReadTypes DEF ReadInv, Reads, storeVars
<1> HIDE DEF poll
<1>4. /\ \A o \in poll.objects : SaysTrue(o)
      /\ \A o \in poll.objects :
           o.kind = "comment" => ~o.tomb /\ github.comments[o.id].state = "live"
      /\ SaysOnce(poll.objects)
      /\ poll.read => poll.start < now
  BY <1>1, <1>2
<1>5. \A r \in Runs :
        /\ poll.read /\ github.runs[r].state = "active"
        /\ (poll.kind = "census" /\ poll.complete) \/ (poll.kind = "verify" /\ r \in poll.runs)
        => \E o \in poll.objects : o.kind = "run" /\ o.id = r /\ o.at = github.runs[r].at
  BY <1>2
<1>6. poll \in PollRow
  BY <1>2
<1>7. QED
  BY ZenonT(60), <1>3, <1>4, <1>5, <1>6, PollKeeps

LEMMA ReadCommentsKeeps ==
  ASSUME ReadInv, NEW p \in Polls, ReadComments(p)
  PROVE  ReadInv'
<1>1. ASSUME NEW o \in ListedComments
      PROVE  /\ o \in Objects /\ o.kind = "comment" /\ o.id \in LiveComments /\ ~o.tomb
             /\ o.at = github.comments[o.id].at
             /\ o = CommentObject(o.id, github.comments[o.id].at, FALSE)
  <2>1. PICK c \in LiveComments : o = CommentObject(c, github.comments[c].at, FALSE)
    BY <1>1 DEF ListedComments
  <2>2. c \in Comments /\ github.comments[c].at \in Moments
    BY DEF LiveComments, ReadInv, Shaped
  <2>3. QED
    BY <2>1, <2>2 DEF CommentObject, Objects, CommentObjects
<1>2. \A o \in ListedComments :
        SaysTrue(o) /\ o.kind = "comment" /\ ~o.tomb /\ github.comments[o.id].state = "live"
  <2> TAKE o \in ListedComments
  <2>1. o.id \in Comments /\ github.comments[o.id].state = "live"
    BY <1>1 DEF LiveComments
  <2>2. github.comments[o.id].at \in Nat /\ github.comments[o.id].at <= now
    BY <2>1 DEF ReadInv, Dated, Shaped, Moments
  <2>3. o.at = github.comments[o.id].at /\ o.kind = "comment" /\ ~o.tomb
    BY <1>1
  <2>4. o.at <= now /\ o.at <= github.comments[o.id].at
    BY <2>2, <2>3
  <2>5. QED
    BY <2>1, <2>3, <2>4 DEF SaysTrue
<1>3. SaysOnce(ListedComments)
  BY <1>1 DEF SaysOnce
<1>4. Reads(p, "comments", ListedComments, TRUE)
  BY DEF ReadComments
<1>5. ListedComments \in SUBSET Objects
  BY <1>1
<1>6. QED
  BY <1>2, <1>3, <1>4, <1>5, ReadsKeeps

\* What GitHub lists of its runs is what it says of them.
LEMMA RunsListed ==
  ASSUME ReadInv, NEW rs \in SUBSET (RunsIn("active") \cup RunsIn("completed"))
  PROVE  /\ ListedRuns(rs) \in SUBSET Objects /\ SaysOnce(ListedRuns(rs))
         /\ \A o \in ListedRuns(rs) : SaysTrue(o) /\ o.kind = "run"
         /\ \A r \in rs : \E o \in ListedRuns(rs) :
              o.kind = "run" /\ o.id = r /\ o.at = github.runs[r].at
<1>1. \A r \in rs : /\ r \in Runs /\ github.runs[r].state \in {"active", "completed"}
                    /\ github.runs[r].at \in Moments
  BY DEF RunsIn, ReadInv, Shaped
<1>2. ASSUME NEW r \in rs
      PROVE  LET o == RunObject(r, github.runs[r])
             IN /\ o \in Objects /\ o.kind = "run" /\ o.id = r /\ o.at = github.runs[r].at
                /\ o.state = github.runs[r].state
  BY <1>1 DEF RunObject, Objects, RunObjects
<1>3. ASSUME NEW o \in ListedRuns(rs)
      PROVE  \E r \in rs : o = RunObject(r, github.runs[r])
  BY <1>3 DEF ListedRuns
<1>4. \A r \in rs : RunObject(r, github.runs[r]) \in ListedRuns(rs)
  BY DEF ListedRuns
<1>5. \A o \in ListedRuns(rs) : o \in Objects /\ SaysTrue(o) /\ o.kind = "run"
  <2> TAKE o \in ListedRuns(rs)
  <2>1. PICK r \in rs : o = RunObject(r, github.runs[r])
    BY <1>3
  <2>2. /\ o \in Objects /\ o.kind = "run" /\ o.id = r /\ o.at = github.runs[r].at
        /\ o.state = github.runs[r].state
    BY <1>2, <2>1
  <2>3. github.runs[r].at \in Nat
    BY <1>1 DEF Moments
  <2>4. QED
    BY <2>2, <2>3 DEF SaysTrue
<1>6. SaysOnce(ListedRuns(rs))
  BY <1>2, <1>3 DEF SaysOnce
<1>7. QED
  BY <1>2, <1>4, <1>5, <1>6

LEMMA ReadRunsKeeps ==
  ASSUME ReadInv, NEW p \in Polls, ReadRuns(p)
  PROVE  ReadInv'
<1>1. PICK rs \in SUBSET (RunsIn("active") \cup RunsIn("completed")), complete \in BOOLEAN :
        /\ complete => RunsIn("active") \subseteq rs
        /\ Reads(p, "census", ListedRuns(rs), complete)
  BY DEF ReadRuns
<1> DEFINE objects == ListedRuns(rs)
<1>2. /\ objects \in SUBSET Objects /\ SaysOnce(objects)
      /\ \A o \in objects : SaysTrue(o) /\ o.kind = "run"
      /\ \A r \in rs : \E o \in objects : o.kind = "run" /\ o.id = r /\ o.at = github.runs[r].at
  BY RunsListed
<1>3. complete => \A r \in Runs : github.runs[r].state = "active" =>
        \E o \in objects : o.kind = "run" /\ o.id = r /\ o.at = github.runs[r].at
  BY <1>1, <1>2 DEF RunsIn
<1>4. Reads(p, "census", objects, complete)
  BY <1>1
<1> HIDE DEF objects
<1>5. \A o \in objects : SaysTrue(o)
  BY <1>2
<1>6. \A o \in objects : o.kind = "comment" => ~o.tomb /\ github.comments[o.id].state = "live"
  BY <1>2
<1>7. QED
  BY <1>2, <1>3, <1>4, <1>5, <1>6, ReadsKeeps

LEMMA ReadRunKeeps ==
  ASSUME ReadInv, NEW p \in Polls, ReadRun(p)
  PROVE  ReadInv'
<1> DEFINE rs == polls[p].runs \cap RunsIn("active")
           objects == ListedRuns(rs)
           complete == TRUE
<1>1. rs \in SUBSET (RunsIn("active") \cup RunsIn("completed"))
  OBVIOUS
<1>2. /\ objects \in SUBSET Objects /\ SaysOnce(objects)
      /\ \A o \in objects : SaysTrue(o) /\ o.kind = "run"
      /\ \A r \in rs : \E o \in objects : o.kind = "run" /\ o.id = r /\ o.at = github.runs[r].at
  BY <1>1, RunsListed
<1>3. \A r \in Runs : github.runs[r].state = "active" /\ r \in polls[p].runs =>
        \E o \in objects : o.kind = "run" /\ o.id = r /\ o.at = github.runs[r].at
  BY <1>2 DEF RunsIn
<1>4. Reads(p, "verify", objects, complete) /\ complete \in BOOLEAN
  BY DEF ReadRun
<1> HIDE DEF objects, complete
<1>5. \A o \in objects : SaysTrue(o)
  BY <1>2
<1>6. \A o \in objects : o.kind = "comment" => ~o.tomb /\ github.comments[o.id].state = "live"
  BY <1>2
<1>7. objects \in SUBSET Objects /\ SaysOnce(objects)
  BY <1>2
<1>8. QED
  BY <1>3, <1>4, <1>5, <1>6, <1>7, ReadsKeeps

-----------------------------------------------------------------------------
(* The rows.                                                                   *)

\* Rows of runs that are behind GitHub, and no older than they were received.
Behind(rows) ==
  \A r \in Runs :
    /\ rows[r].at <= github.runs[r].at /\ rows[r].at <= rows[r].received
    /\ github.runs[r].state = "active" /\ rows[r].at = github.runs[r].at => rows[r].state = "active"

\* True objects leave the rows behind GitHub, and a row that is up to date, or has
\* an object that is, is so afterwards.
LEMMA TrueRuns ==
  ASSUME ReadInv, NEW rows \in [Runs -> RunRow], Behind(rows), NEW objects \in SUBSET Objects,
         NEW received \in Moments, SaysOnce(objects),
         \A o \in objects : SaysTrue(o),
         \A o \in objects : o.kind = "run" => o.at <= received
  PROVE  LET result == RunUpserted(rows, objects, received) IN
         /\ result \in [Runs -> RunRow] /\ Behind(result)
         /\ \A r \in Runs :
              \/ rows[r].at = github.runs[r].at
              \/ \E o \in objects : o.kind = "run" /\ o.id = r /\ o.at = github.runs[r].at
              => result[r].at = github.runs[r].at
<1> DEFINE result == RunUpserted(rows, objects, received)
<1>1. MaxTime \in Nat
  BY ReadTypes DEF ReadInv
<1>2. /\ result \in [Runs -> RunRow]
      /\ \A r \in Runs :
           \/ result[r] = rows[r]
           \/ \E o \in objects : /\ o.kind = "run" /\ o.id = r /\ o.at >= rows[r].at
                                 /\ result[r].at = o.at /\ result[r].state = o.state
                                 /\ result[r].received >= received
      /\ \A o \in objects : o.kind = "run" => o.at <= result[o.id].at
  BY <1>1, RunUpsert
<1> HIDE DEF result
<1>3. ASSUME NEW r \in Runs
      PROVE  /\ rows[r].at \in Nat /\ rows[r].received \in Nat
             /\ result[r].at \in Nat /\ result[r].received \in Nat /\ github.runs[r].at \in Nat
             /\ received \in Nat
  BY <1>2 DEF RunRow, Moments, ReadInv, Shaped
<1>4. ASSUME NEW r \in Runs
      PROVE  /\ result[r].at <= github.runs[r].at /\ result[r].at <= result[r].received
             /\ github.runs[r].state = "active" /\ result[r].at = github.runs[r].at
                  => result[r].state = "active"
             /\ rows[r].at <= result[r].at
  <2>1. CASE result[r] = rows[r]
    BY <1>3, <2>1 DEF Behind
  <2>2. ASSUME NEW o \in objects, o.kind = "run", o.id = r, o.at >= rows[r].at,
               result[r].at = o.at, result[r].state = o.state, result[r].received >= received
        PROVE  /\ result[r].at <= github.runs[r].at /\ result[r].at <= result[r].received
               /\ github.runs[r].state = "active" /\ result[r].at = github.runs[r].at
                    => result[r].state = "active"
               /\ rows[r].at <= result[r].at
    <3>1. o.at <= github.runs[r].at /\ o.at <= received
          /\ (github.runs[r].state = "active" /\ o.at = github.runs[r].at => o.state = "active")
      BY <2>2 DEF SaysTrue
    <3>2. o.at \in Nat
      BY <1>3, <2>2
    <3>3. QED
      BY <1>3, <2>2, <3>1, <3>2
  <2>3. QED
    BY <1>2, <2>1, <2>2
<1>5. Behind(result)
  BY <1>4 DEF Behind
<1>6. ASSUME NEW r \in Runs,
             \/ rows[r].at = github.runs[r].at
             \/ \E o \in objects : o.kind = "run" /\ o.id = r /\ o.at = github.runs[r].at
      PROVE  result[r].at = github.runs[r].at
  <2>1. github.runs[r].at <= result[r].at
    BY <1>2, <1>4, <1>6
  <2>2. QED
    BY <1>3, <1>4, <2>1
<1>7. QED
  BY <1>2, <1>5, <1>6 DEF result

\* No row of an active run falls behind GitHub.
RunsKept ==
  \A r \in Runs : github.runs[r].state = "active" /\ runRows[r].at = github.runs[r].at =>
    runRows'[r].at = github.runs[r].at

\* No deleted comment comes back.
DeletionsKept ==
  \A c \in Comments : commentRows[c].tomb /\ DeletionSeen(c) => commentRows'[c].tomb

\* Objects that were heard, on rows that have advanced or been tombstoned.
LEMMA HeardComments ==
  ASSUME ReadInv, NEW rows \in [Comments -> CommentRow], NEW objects \in Bundles,
         NEW received \in Moments,
         \A c \in Comments : commentRows[c].at <= rows[c].at /\ rows[c].at <= now,
         \A c \in Comments : commentRows[c].tomb => rows[c].tomb,
         commentRows' = CommentUpserted(rows, objects, received)
  PROVE  /\ commentRows' \in [Comments -> CommentRow]
         /\ \A c \in Comments : commentRows'[c].at <= now
         /\ \A d \in seen : \A o \in d.objects : o.kind = "comment" => o.at <= commentRows'[o.id].at
         /\ \A o \in objects : o.kind = "comment" => o.at <= commentRows'[o.id].at
         /\ DeletionsKept
<1>1. /\ MaxTime \in Nat /\ now \in Nat /\ objects \in SUBSET Objects
      /\ objects \subseteq Heard /\ commentRows \in [Comments -> CommentRow]
  BY ReadTypes DEF ReadInv, Moments, Heard
<1>2. SaysOnce(objects) /\ \A o \in objects : SaysTrue(o)
  BY <1>1 DEF ReadInv, Truthful
<1>3. /\ commentRows' \in [Comments -> CommentRow]
      /\ \A c \in Comments :
           \/ commentRows'[c] = rows[c]
           \/ \E o \in objects : /\ o.kind = "comment" /\ o.id = c /\ o.at > rows[c].at
                                 /\ commentRows'[c].at = o.at /\ commentRows'[c].tomb = o.tomb
      /\ \A o \in objects : o.kind = "comment" => o.at <= commentRows'[o.id].at
      /\ \A c \in Comments : rows[c].at <= commentRows'[c].at
  <2> DEFINE result == CommentUpserted(rows, objects, received)
  <2>1. /\ result \in [Comments -> CommentRow]
        /\ \A c \in Comments :
             \/ result[c] = rows[c]
             \/ \E o \in objects : /\ o.kind = "comment" /\ o.id = c /\ o.at > rows[c].at
                                   /\ result[c].at = o.at /\ result[c].tomb = o.tomb
        /\ \A o \in objects : o.kind = "comment" => o.at <= result[o.id].at
        /\ \A c \in Comments : rows[c].at <= result[c].at
    BY <1>1, <1>2, CommentUpsert
  <2>2. QED
    BY <2>1
<1>4. \A c \in Comments : commentRows'[c].at <= now
  BY <1>2, <1>3 DEF SaysTrue
<1>5. ASSUME NEW d \in seen, NEW o \in d.objects, o.kind = "comment"
      PROVE  o.id \in Comments /\ o.at \in Nat /\ o \in Heard
             /\ o.at <= commentRows[o.id].at /\ o.at <= commentRows'[o.id].at
  <2>1. d \in sent
    BY DEF ReadInv, Shaped, ReadTypeOK
  <2>2. o \in Heard
    BY <2>1 DEF Heard, Bundles
  <2>3. o.id \in Comments /\ o.at \in Nat
    BY <1>5, <2>2, ReadTypes, ObjectTypes DEF ReadInv, Moments
  <2>4. o.at <= commentRows[o.id].at
    BY <1>5 DEF ReadInv, Recorded
  <2>5. /\ commentRows[o.id].at \in Nat /\ rows[o.id].at \in Nat /\ commentRows'[o.id].at \in Nat
        /\ commentRows[o.id].at <= rows[o.id].at /\ rows[o.id].at <= commentRows'[o.id].at
    BY <1>1, <1>3, <2>3 DEF CommentRow, Moments
  <2>6. QED
    BY <2>2, <2>3, <2>4, <2>5
<1>6. DeletionsKept
  <2> SUFFICES ASSUME NEW c \in Comments, commentRows[c].tomb, DeletionSeen(c),
                      ~commentRows'[c].tomb
               PROVE  FALSE
    BY DEF DeletionsKept
  <2>1. PICK d \in seen : \E q \in d.objects : q.kind = "comment" /\ q.id = c /\ q.tomb
    BY DEF DeletionSeen, About
  <2> PICK q \in d.objects : q.kind = "comment" /\ q.id = c /\ q.tomb
    BY <2>1
  <2>2. q \in Heard /\ q.at \in Nat /\ q.at <= commentRows[c].at
    BY <1>5
  <2>3. rows[c].tomb
    OBVIOUS
  <2>4. PICK o \in objects : /\ o.kind = "comment" /\ o.id = c /\ o.at > rows[c].at
                             /\ commentRows'[c].tomb = o.tomb
    BY <1>3, <2>3
  <2>5. o.at <= q.at
    BY <1>1, <2>1, <2>2, <2>4 DEF ReadInv, Truthful, LivedBefore
  <2>6. commentRows[c].at \in Nat /\ rows[c].at \in Nat /\ o.at \in Nat
    BY <1>1, <2>4, ObjectTypes DEF CommentRow, Moments
  <2>7. QED
    BY <2>2, <2>4, <2>5, <2>6
<1>7. QED
  BY <1>3, <1>4, <1>5, <1>6

\* A step of the store: GitHub and what it said rest, a poller may end.
LEMMA StoreKeeps ==
  ASSUME ReadInv, UNCHANGED <<now, github, sent>>,
         polls' \in [Polls -> PollRow],
         \A p \in Polls : polls'[p] = polls[p] \/ (polls'[p].objects = {} /\ ~polls'[p].read),
         ReadTypeOK', Recorded', Covers'
  PROVE  ReadInv'
<1>1. Shaped'
  BY DEF ReadInv, Shaped, LiveComments, PollRow
<1>2. Bundles' \subseteq Bundles \cup {{}}
  BY DEF Bundles
<1>3. now \in Nat /\ now <= now /\ {} \in SUBSET Objects
  BY ReadTypes DEF ReadInv
<1>4. Truthful'
  BY <1>2, <1>3, EmptyBundle, TruthKeeps DEF ReadInv
<1>5. Dated'
  BY DEF ReadInv, Dated
<1>6. Polled'
  BY DEF ReadInv, Polled, Asked, Listed
<1>7. QED
  BY <1>1, <1>4, <1>5, <1>6 DEF ReadInv

LEMMA IdleEnds ==
  ASSUME ReadInv, NEW p \in Polls, Ends(p)
  PROVE  /\ polls' \in [Polls -> PollRow]
         /\ \A q \in Polls : polls'[q] = polls[q] \/ (polls'[q].objects = {} /\ ~polls'[q].read)
         /\ UNCHANGED <<now, github, sent, seen, classes>>
<1>1. 0 \in Moments /\ {} \in SUBSET Objects
  BY ReadTypes DEF ReadInv, Moments
<1>2. IdlePoll \in PollRow /\ IdlePoll.objects = {} /\ ~IdlePoll.read
  BY <1>1 DEF IdlePoll, Poll, PollRow
<1>3. polls \in [Polls -> PollRow] /\ polls' = [polls EXCEPT ![p] = IdlePoll]
  BY ReadTypes DEF ReadInv, Ends
<1>4. QED
  BY <1>2, <1>3 DEF Ends

LEMMA IngestKeeps ==
  ASSUME ReadInv, NEW d \in sent, NEW received \in {now - 1, now}, Ingest(d, received)
  PROVE  ReadInv' /\ RunsKept /\ DeletionsKept
<1>1. /\ \A o \in d.objects : o.at <= received
      /\ UNCHANGED <<now, github, sent, polls, covered>>
  BY DEF Ingest
<1>2. /\ polls' \in [Polls -> PollRow]
      /\ \A p \in Polls : polls'[p] = polls[p] \/ (polls'[p].objects = {} /\ ~polls'[p].read)
  BY <1>1, ReadTypes DEF ReadInv
<1>3. CASE d \in seen
  <2>1. UNCHANGED <<seen, classes, itemRow, commentRows, runRows, collection, census>>
    BY <1>3 DEF Ingest, storeVars
  <2>2. ReadTypeOK' /\ Recorded' /\ Covers'
    BY <1>1, <2>1 DEF ReadInv, Shaped, ReadTypeOK, Recorded, Covers, ServedActive
  <2>3. RunsKept /\ DeletionsKept
    BY <2>1 DEF RunsKept, DeletionsKept
  <2>4. QED
    BY <1>1, <1>2, <2>2, <2>3, StoreKeeps
<1>4. CASE d \notin seen
  <2>1. /\ seen' = seen \cup {d}
        /\ classes' = classes \cup {d.class}
        /\ itemRow' = ItemUpserted(itemRow, d.objects)
        /\ commentRows' = CommentUpserted(commentRows, d.objects, received)
        /\ runRows' = RunUpserted(runRows, d.objects, received)
        /\ UNCHANGED <<collection, census>>
    BY <1>4 DEF Ingest
  <2>2. /\ d.objects \in Bundles /\ d.objects \subseteq Heard /\ d.objects \in SUBSET Objects
        /\ d.class \in {"issue_comments", "workflow_runs"}
    BY ReadTypes DEF ReadInv, Bundles, Heard, Shaped
  <2>3. SaysOnce(d.objects) /\ \A o \in d.objects : SaysTrue(o)
    BY <2>2 DEF ReadInv, Truthful
  <2>4. received \in Moments /\ MaxTime \in Nat
    BY ReadTypes DEF ReadInv, Moments
  <2>5. runRows \in [Runs -> RunRow] /\ Behind(runRows)
    BY ReadTypes DEF ReadInv, Recorded, Behind, ServedActive
  <2>6. /\ runRows' \in [Runs -> RunRow]
        /\ \A r \in Runs :
             /\ runRows'[r].at <= github.runs[r].at /\ runRows'[r].at <= runRows'[r].received
             /\ github.runs[r].state = "active" /\ runRows'[r].at = github.runs[r].at
                  => runRows'[r].state = "active"
             /\ runRows[r].at = github.runs[r].at => runRows'[r].at = github.runs[r].at
    BY <1>1, <2>1, <2>2, <2>3, <2>4, <2>5, TrueRuns DEF Behind
  <2>7. \A c \in Comments : commentRows[c].at <= commentRows[c].at /\ commentRows[c].at <= now
    BY ReadTypes DEF ReadInv, Recorded, CommentRow, Moments
  <2>8. commentRows \in [Comments -> CommentRow]
    BY ReadTypes DEF ReadInv
  <2>9. /\ commentRows' \in [Comments -> CommentRow]
        /\ \A c \in Comments : commentRows'[c].at <= now
        /\ \A e \in seen : \A o \in e.objects : o.kind = "comment" => o.at <= commentRows'[o.id].at
        /\ \A o \in d.objects : o.kind = "comment" => o.at <= commentRows'[o.id].at
        /\ DeletionsKept
    BY <2>1, <2>2, <2>4, <2>7, <2>8, HeardComments
  <2>10. itemRow \in [at: Moments, count: Counts]
    BY DEF ReadInv, Shaped, ReadTypeOK, Moments, Counts
  <2>11. itemRow' \in [at: Moments, count: Counts]
    BY <2>1, <2>2, <2>10, ItemUpsert
  <2>12. ReadTypeOK'
    <3>1. seen' \subseteq sent /\ classes' \subseteq {"issue_comments", "workflow_runs"}
      BY <2>1, <2>2 DEF ReadInv, Shaped, ReadTypeOK
    <3>2. QED
      BY <1>1, <2>1, <2>6, <2>9, <2>11, <3>1
         DEF ReadInv, Shaped, ReadTypeOK, CommentRow, RunRow, Moments, Counts
  <2>13. Recorded'
    BY <1>1, <2>1, <2>6, <2>9 DEF Recorded, ServedActive
  <2>14. RunsKept /\ Covers'
    BY <1>1, <2>6 DEF RunsKept, ReadInv, Covers
  <2>15. QED
    BY <1>1, <1>2, <2>9, <2>12, <2>13, <2>14, StoreKeeps
<1>5. QED
  BY <1>3, <1>4

LEMMA RepairCommentsKeeps ==
  ASSUME ReadInv, NEW p \in Polls, RepairComments(p)
  PROVE  ReadInv' /\ RunsKept /\ DeletionsKept
<1> DEFINE objects == polls[p].objects
           Unlisted(c) == c \in Visible /\ About(objects, "comment", c) = {}
           tombstone == [at |-> now, tomb |-> TRUE, received |-> now]
           marked == [c \in Comments |-> IF Unlisted(c) THEN tombstone ELSE commentRows[c]]
<1>1. /\ commentRows' = CommentUpserted(marked, objects, now)
      /\ collection' = now
      /\ Ends(p)
      /\ UNCHANGED <<itemRow, runRows, census, covered>>
  BY DEF RepairComments
<1>2. /\ polls' \in [Polls -> PollRow]
      /\ \A q \in Polls : polls'[q] = polls[q] \/ (polls'[q].objects = {} /\ ~polls'[q].read)
      /\ UNCHANGED <<now, github, sent, seen, classes>>
  BY <1>1, IdleEnds
<1>3. now \in Moments /\ now \in Nat /\ commentRows \in [Comments -> CommentRow]
  BY ReadTypes DEF ReadInv, Moments
<1>4. tombstone \in CommentRow /\ tombstone.at = now /\ tombstone.tomb
  BY <1>3 DEF CommentRow
<1> HIDE DEF tombstone
<1>5. \A c \in Comments : commentRows[c].at <= now /\ commentRows[c].at \in Nat
  BY <1>3 DEF ReadInv, Recorded, CommentRow, Moments
<1>6. /\ marked \in [Comments -> CommentRow]
      /\ \A c \in Comments : commentRows[c].at <= marked[c].at /\ marked[c].at <= now
      /\ \A c \in Comments : commentRows[c].tomb => marked[c].tomb
  BY <1>3, <1>4, <1>5
<1>7. objects \in Bundles
  BY DEF Bundles
<1> HIDE DEF marked, objects
<1>8. /\ commentRows' \in [Comments -> CommentRow]
      /\ \A c \in Comments : commentRows'[c].at <= now
      /\ \A d \in seen : \A o \in d.objects : o.kind = "comment" => o.at <= commentRows'[o.id].at
      /\ DeletionsKept
  BY <1>1, <1>3, <1>6, <1>7, HeardComments
<1>9. ReadTypeOK'
  BY <1>1, <1>2, <1>3, <1>8 DEF ReadInv, Shaped, ReadTypeOK, CommentRow, Moments
<1>10. Recorded' /\ Covers' /\ RunsKept
  BY <1>1, <1>2, <1>8 DEF ReadInv, Recorded, Covers, ServedActive, RunsKept
<1>11. QED
  BY <1>2, <1>8, <1>9, <1>10, StoreKeeps

\* The row of an active run that is up to date outlives a census or a verification
\* that started after the run became active and did not see it.
LEMMA Evictions ==
  ASSUME ReadInv, NEW p \in Polls, polls[p].read, NEW r \in Asked(p), r \in Runs,
         ~Listed(p, r), Predates(runRows[r], polls[p].start)
  PROVE  ~(github.runs[r].state = "active" /\ runRows[r].at = github.runs[r].at)
<1>1. /\ runRows[r].at \in Nat /\ runRows[r].received \in Nat /\ polls[p].start \in Nat
      /\ runRows[r].at <= runRows[r].received /\ runRows[r].received <= polls[p].start
  BY ReadTypes DEF ReadInv, Recorded, RunRow, PollRow, Moments, Predates
<1>2. runRows[r].at <= polls[p].start
  BY <1>1
<1>3. QED
  BY <1>2 DEF ReadInv, Polled

\* Rows some of which are evicted.
LEMMA EvictedRows ==
  ASSUME ReadInv, NEW gone \in SUBSET Runs,
         \A r \in gone : ~(github.runs[r].state = "active"
                         /\ runRows[r].at = github.runs[r].at)
  PROVE  LET rows == [r \in Runs |-> IF r \in gone THEN NoRun ELSE runRows[r]]
         IN /\ rows \in [Runs -> RunRow] /\ Behind(rows)
            /\ \A r \in Runs : github.runs[r].state = "active" /\ runRows[r].at = github.runs[r].at
                 => rows[r].at = github.runs[r].at
<1> DEFINE Row(r) == IF r \in gone THEN NoRun ELSE runRows[r]
<1>1. 0 \in Moments /\ runRows \in [Runs -> RunRow]
  BY ReadTypes DEF ReadInv, Moments
<1>2. NoRun \in RunRow /\ NoRun.at = 0 /\ NoRun.received = 0
  BY <1>1 DEF NoRun, RunRow
<1>3. ASSUME NEW r \in Runs
      PROVE  /\ Row(r) \in RunRow
             /\ Row(r).at <= github.runs[r].at /\ Row(r).at <= Row(r).received
             /\ github.runs[r].state = "active" /\ Row(r).at = github.runs[r].at
                  => Row(r).state = "active"
             /\ github.runs[r].state = "active" /\ runRows[r].at = github.runs[r].at
                  => Row(r).at = github.runs[r].at
  <2>1. github.runs[r].at \in Nat /\ (github.runs[r].state = "active" => github.runs[r].at > 0)
    BY DEF ReadInv, Shaped, Dated, Moments
  <2>2. CASE r \in gone
    BY <1>2, <2>1, <2>2
  <2>3. CASE r \notin gone
    BY <1>1, <2>1, <2>3 DEF ReadInv, Recorded, ServedActive
  <2>4. QED
    BY <2>2, <2>3
<1> HIDE DEF Row
<1>4. [r \in Runs |-> Row(r)] \in [Runs -> RunRow] /\ Behind([r \in Runs |-> Row(r)])
      /\ \A r \in Runs : github.runs[r].state = "active" /\ runRows[r].at = github.runs[r].at
           => [q \in Runs |-> Row(q)][r].at = github.runs[r].at
  BY <1>3 DEF Behind
<1>5. QED
  BY <1>4 DEF Row

LEMMA RepairRunsKeeps ==
  ASSUME ReadInv, NEW p \in Polls, RepairRuns(p)
  PROVE  ReadInv' /\ RunsKept /\ DeletionsKept
<1> DEFINE poll == polls[p]
           Evicted(r) == poll.complete /\ About(poll.objects, "run", r) = {}
                         /\ Predates(runRows[r], poll.start)
           gone == {r \in Runs : Evicted(r)}
           rows == [r \in Runs |-> IF r \in gone THEN NoRun ELSE runRows[r]]
<1>1. /\ poll.kind = "census" /\ poll.read
      /\ runRows' = RunUpserted([r \in Runs |-> IF Evicted(r) THEN NoRun ELSE runRows[r]],
                                poll.objects, now)
      /\ census' = IF poll.complete THEN now ELSE census
      /\ covered' = IF poll.complete THEN Later(covered, poll.start) ELSE covered
      /\ Ends(p)
      /\ UNCHANGED <<itemRow, commentRows, collection>>
  BY DEF RepairRuns
<1>2. /\ polls' \in [Polls -> PollRow]
      /\ \A q \in Polls : polls'[q] = polls[q] \/ (polls'[q].objects = {} /\ ~polls'[q].read)
      /\ UNCHANGED <<now, github, sent, seen, classes>>
  BY <1>1, IdleEnds
<1>3. rows = [r \in Runs |-> IF Evicted(r) THEN NoRun ELSE runRows[r]]
  OBVIOUS
<1>4. poll.complete => \A r \in Runs : r \in Asked(p)
  BY <1>1 DEF Asked
<1>5. \A r \in Runs : Listed(p, r) =>
        About(poll.objects, "run", r) # {}
  BY DEF Listed, About
<1>6. \A r \in gone : ~(github.runs[r].state = "active" /\ runRows[r].at = github.runs[r].at)
  BY <1>1, <1>4, <1>5, Evictions
<1>7. gone \in SUBSET Runs
  OBVIOUS
<1>8. runRows' = RunUpserted(rows, poll.objects, now)
  BY <1>1, <1>3
<1> HIDE DEF gone
<1>9. /\ rows \in [Runs -> RunRow] /\ Behind(rows)
      /\ \A r \in Runs : github.runs[r].state = "active" /\ runRows[r].at = github.runs[r].at
           => rows[r].at = github.runs[r].at
  BY <1>6, <1>7, EvictedRows
<1> HIDE DEF rows
<1>10. /\ poll.objects \in Bundles /\ poll.objects \subseteq Heard /\ poll.objects \in SUBSET Objects
       /\ poll.start \in Moments /\ now \in Moments /\ poll.start < now
  BY <1>1, ReadTypes DEF ReadInv, Bundles, Heard, PollRow, Polled
<1>11. SaysOnce(poll.objects) /\ \A o \in poll.objects : SaysTrue(o)
  BY <1>10 DEF ReadInv, Truthful
<1>12. \A o \in poll.objects : o.kind = "run" => o.at <= now
  <2> SUFFICES ASSUME NEW o \in poll.objects, o.kind = "run" PROVE o.at <= now
    OBVIOUS
  <2>1. o.id \in Runs /\ o.at \in Nat /\ o.at <= github.runs[o.id].at
    BY <1>10, <1>11, ObjectTypes DEF SaysTrue, Moments
  <2>2. github.runs[o.id].at \in Nat /\ github.runs[o.id].at <= now /\ now \in Nat
    BY <1>10, <2>1 DEF ReadInv, Dated, Shaped, Moments
  <2>3. QED
    BY <2>1, <2>2
<1>13. /\ runRows' \in [Runs -> RunRow] /\ Behind(runRows')
       /\ \A r \in Runs :
            \/ rows[r].at = github.runs[r].at
            \/ \E o \in poll.objects : o.kind = "run" /\ o.id = r /\ o.at = github.runs[r].at
            => runRows'[r].at = github.runs[r].at
  <2> DEFINE result == RunUpserted(rows, poll.objects, now)
  <2>1. /\ result \in [Runs -> RunRow] /\ Behind(result)
        /\ \A r \in Runs :
             \/ rows[r].at = github.runs[r].at
             \/ \E o \in poll.objects : o.kind = "run" /\ o.id = r /\ o.at = github.runs[r].at
             => result[r].at = github.runs[r].at
    BY <1>9, <1>10, <1>11, <1>12, TrueRuns
  <2>2. QED
    BY <1>8, <2>1
<1>14. RunsKept
  BY <1>9, <1>13 DEF RunsKept
<1>15. Recorded'
  BY <1>1, <1>2, <1>13 DEF ReadInv, Recorded, Behind, ServedActive
<1>16. covered' \in Moments /\ covered' < now
  BY <1>1, <1>10 DEF ReadInv, Covers, Shaped, ReadTypeOK, Later, Moments
<1>17. Covers'
  <2>1. ASSUME NEW r \in Runs, github.runs[r].state = "active", github.runs[r].at <= covered'
        PROVE  runRows'[r].at = github.runs[r].at
    <3>1. CASE github.runs[r].at <= covered
      BY <1>14, <2>1, <3>1 DEF RunsKept, ReadInv, Covers
    <3>2. CASE ~(github.runs[r].at <= covered)
      <4>1. poll.complete /\ github.runs[r].at <= poll.start
        BY <1>1, <2>1, <3>2 DEF Later
      <4>2. Listed(p, r)
        BY <1>1, <1>4, <2>1, <4>1 DEF ReadInv, Polled
      <4>3. QED
        BY <1>13, <4>2 DEF Listed
    <3>3. QED
      BY <3>1, <3>2
  <2>2. QED
    BY <1>2, <1>16, <2>1 DEF Covers
<1>18. ReadTypeOK'
  BY ZenonT(60), <1>1, <1>2, <1>10, <1>13, <1>16 DEF ReadInv, Shaped, ReadTypeOK, RunRow, Moments
<1>19. DeletionsKept
  BY <1>1 DEF DeletionsKept
<1>20. QED
  BY <1>2, <1>14, <1>15, <1>17, <1>18, <1>19, StoreKeeps

LEMMA RepairRunKeeps ==
  ASSUME ReadInv, NEW p \in Polls, RepairRun(p)
  PROVE  ReadInv' /\ RunsKept /\ DeletionsKept
<1> DEFINE poll == polls[p]
           Evicted(r) == r \in poll.runs /\ Predates(runRows[r], poll.start)
           gone == {r \in Runs : Evicted(r)}
           rows == [r \in Runs |-> IF r \in gone THEN NoRun ELSE runRows[r]]
<1>1. /\ poll.kind = "verify" /\ poll.read
      /\ runRows' = IF poll.objects # {} THEN RunUpserted(runRows, poll.objects, now)
                    ELSE [r \in Runs |-> IF Evicted(r) THEN NoRun ELSE runRows[r]]
      /\ Ends(p)
      /\ UNCHANGED <<itemRow, commentRows, collection, census, covered>>
  BY DEF RepairRun
<1>2. /\ polls' \in [Polls -> PollRow]
      /\ \A q \in Polls : polls'[q] = polls[q] \/ (polls'[q].objects = {} /\ ~polls'[q].read)
      /\ UNCHANGED <<now, github, sent, seen, classes>>
  BY <1>1, IdleEnds
<1>3. rows = [r \in Runs |-> IF Evicted(r) THEN NoRun ELSE runRows[r]]
  OBVIOUS
<1>4. gone \in SUBSET Runs
  OBVIOUS
<1>5. \A r \in gone : r \in Asked(p)
  BY <1>1 DEF Asked
<1>6. /\ poll.objects \in Bundles /\ poll.objects \subseteq Heard /\ poll.objects \in SUBSET Objects
      /\ now \in Moments
  BY ReadTypes DEF ReadInv, Bundles, Heard, PollRow
<1>7. SaysOnce(poll.objects) /\ \A o \in poll.objects : SaysTrue(o)
  BY <1>6 DEF ReadInv, Truthful
<1>8. \A o \in poll.objects : o.kind = "run" => o.at <= now
  <2> SUFFICES ASSUME NEW o \in poll.objects, o.kind = "run" PROVE o.at <= now
    OBVIOUS
  <2>1. o.id \in Runs /\ o.at \in Nat /\ o.at <= github.runs[o.id].at
    BY <1>6, <1>7, ObjectTypes DEF SaysTrue, Moments
  <2>2. github.runs[o.id].at \in Nat /\ github.runs[o.id].at <= now /\ now \in Nat
    BY <1>6, <2>1 DEF ReadInv, Dated, Shaped, Moments
  <2>3. QED
    BY <2>1, <2>2
<1>9. runRows' \in [Runs -> RunRow] /\ Behind(runRows') /\ RunsKept
  <2>1. CASE poll.objects # {}
    <3> DEFINE result == RunUpserted(runRows, poll.objects, now)
    <3>1. runRows \in [Runs -> RunRow] /\ Behind(runRows)
      BY ReadTypes DEF ReadInv, Recorded, Behind, ServedActive
    <3>2. /\ result \in [Runs -> RunRow] /\ Behind(result)
          /\ \A r \in Runs :
               \/ runRows[r].at = github.runs[r].at
               \/ \E o \in poll.objects : o.kind = "run" /\ o.id = r /\ o.at = github.runs[r].at
               => result[r].at = github.runs[r].at
      BY <1>6, <1>7, <1>8, <3>1, TrueRuns
    <3>3. runRows' = result
      BY <1>1, <2>1
    <3>4. QED
      BY <3>2, <3>3 DEF RunsKept
  <2>2. CASE poll.objects = {}
    <3>1. runRows' = rows
      BY <1>1, <1>3, <2>2
    <3>2. \A r \in Runs : ~Listed(p, r)
      BY <2>2 DEF Listed
    <3>3. \A r \in gone : ~(github.runs[r].state = "active" /\ runRows[r].at = github.runs[r].at)
      BY <1>1, <1>5, <3>2, Evictions
    <3> HIDE DEF gone
    <3>4. /\ rows \in [Runs -> RunRow] /\ Behind(rows)
          /\ \A r \in Runs : github.runs[r].state = "active" /\ runRows[r].at = github.runs[r].at
               => rows[r].at = github.runs[r].at
      BY <1>4, <3>3, EvictedRows
    <3> HIDE DEF rows
    <3>5. QED
      BY <3>1, <3>4 DEF RunsKept
  <2>3. QED
    BY <2>1, <2>2
<1>10. Recorded' /\ Covers' /\ DeletionsKept
  BY <1>1, <1>2, <1>9
     DEF ReadInv, Recorded, Covers, Behind, ServedActive, RunsKept, DeletionsKept
<1>11. ReadTypeOK'
  BY <1>1, <1>2, <1>9 DEF ReadInv, Shaped, ReadTypeOK, RunRow, Moments
<1>12. QED
  BY <1>2, <1>9, <1>10, <1>11, StoreKeeps

-----------------------------------------------------------------------------
(* The steps together.                                                         *)

LEMMA ReadFirst ==
  ASSUME ReadInit
  PROVE  ReadInv
<1> DEFINE idle == Poll("idle", {}, 0)
<1>1. MaxTime \in Nat \ {0} /\ IsFiniteSet(Comments)
  BY ReadModelAssumption DEF ReadModelAssumption
<1>2. 0 \in Moments /\ 1 \in Moments /\ {} \in SUBSET Objects /\ Cardinality(Comments) \in Nat
  BY <1>1, FS_CardinalityType DEF Moments
<1>3. PICK old \in SUBSET Runs :
        github = [comments |-> [c \in Comments |-> [state |-> "absent", at |-> 0]],
                  item |-> NoItem,
                  runs |-> [r \in Runs |-> IF r \in old THEN [state |-> "active", at |-> 1]
                                           ELSE [state |-> "absent", at |-> 0]]]
  BY DEF ReadInit
<1>4. NoItem \in [at: Moments, count: Counts] /\ NoItem.at = 0 /\ NoItem.count = 0
  BY <1>2 DEF NoItem, Counts
<1>5. /\ github.item = NoItem
      /\ github.comments \in [Comments -> [state: {"absent", "live", "deleted"}, at: Moments]]
      /\ \A c \in Comments : github.comments[c].state = "absent" /\ github.comments[c].at = 0
      /\ github.runs \in [Runs -> [state: {"absent", "active", "completed", "gone"}, at: Moments]]
      /\ \A r \in Runs : /\ github.runs[r].at \in {0, 1}
                         /\ github.runs[r].state = "active" => github.runs[r].at = 1
  BY <1>2, <1>3
<1>6. /\ github \in [comments: [Comments -> [state: {"absent", "live", "deleted"}, at: Moments]],
                     item: [at: Moments, count: Counts],
                     runs: [Runs -> [state: {"absent", "active", "completed", "gone"}, at: Moments]]]
  <2>1. github = [comments |-> github.comments, item |-> github.item, runs |-> github.runs]
    BY <1>3
  <2>2. QED
    BY <1>4, <1>5, <2>1
<1>7. LiveComments = {}
  BY <1>5 DEF LiveComments
<1>8. /\ idle \in PollRow /\ idle.objects = {} /\ ~idle.read
  BY <1>2 DEF Poll, PollRow
<1>9. /\ polls \in [Polls -> PollRow]
      /\ \A p \in Polls : polls[p].objects = {} /\ ~polls[p].read
  BY <1>8 DEF ReadInit, IdlePoll
<1>10. /\ NoComment \in CommentRow /\ NoComment.at = 0
       /\ NoRun \in RunRow /\ NoRun.at = 0 /\ NoRun.received = 0
  BY <1>2 DEF NoComment, NoRun, CommentRow, RunRow
<1>11. ReadTypeOK
  BY <1>1, <1>2, <1>4, <1>10 DEF ReadInit, ReadTypeOK, CommentRow, RunRow, Moments, Counts
<1>12. Shaped
  <2>1. github.item.count = Cardinality(LiveComments)
    BY <1>4, <1>5, <1>7, FS_EmptySet
  <2>2. sent = {}
    BY DEF ReadInit
  <2>3. QED
    BY <1>6, <1>9, <1>11, <2>1, <2>2 DEF Shaped, PollRow
<1>13. Heard = {}
  BY <1>9 DEF ReadInit, Heard, Bundles
<1>14. Truthful
  <2>1. \A objects \in Bundles : objects = {}
    BY <1>13 DEF Heard
  <2>2. QED
    BY <1>13, <2>1 DEF Truthful, SaysOnce
<1>15. Dated
  BY <1>4, <1>5 DEF ReadInit, Dated
<1>16. Recorded
  BY <1>5, <1>10 DEF ReadInit, Recorded
<1>17. Polled /\ Covers
  BY <1>5, <1>9 DEF ReadInit, Polled, Covers
<1>18. QED
  BY <1>12, <1>14, <1>15, <1>16, <1>17 DEF ReadInv

\* Every step keeps the invariant, the rows of active runs that are up to date, and
\* the tombstones of comments whose deletion was delivered.
LEMMA ReadStep ==
  ASSUME ReadInv, [ReadNext]_readVars
  PROVE  /\ ReadInv'
         /\ (UNCHANGED github /\ RunsKept) \/ UNCHANGED runRows
         /\ DeletionsKept
<1>1. CASE UNCHANGED readVars
  <2>1. /\ UNCHANGED <<now, github, sent, seen, classes, itemRow, commentRows, runRows, collection,
                       census, polls, covered>>
    BY <1>1 DEF readVars, storeVars
  <2>2. Shaped'
    BY <2>1 DEF ReadInv, Shaped, ReadTypeOK, LiveComments
  <2>3. Truthful' /\ Dated' /\ Recorded' /\ Polled' /\ Covers'
    BY <2>1 DEF ReadInv, Truthful, Heard, Bundles, SaysTrue, LivedBefore, SaysOnce, Dated, Recorded,
                ServedActive, Polled, Asked, Listed, Covers
  <2>4. QED
    BY <2>1, <2>2, <2>3 DEF ReadInv, DeletionsKept
<1>2. CASE ReadTick
  <2>1. ReadInv'
    BY <1>2, ReadTickKeeps
  <2>2. QED
    BY <1>2, <2>1 DEF ReadTick, storeVars, DeletionsKept
<1>3. ASSUME NEW c \in Comments, NEW state \in {"live", "deleted"}, CommentChanges(c, state)
      PROVE  ReadInv' /\ UNCHANGED <<runRows, commentRows>>
  BY <1>3, CommentChangesKeeps DEF CommentChanges, Sends, storeVars
<1>4. ASSUME NEW r \in Runs, NEW state \in {"active", "completed"}, RunChanges(r, state)
      PROVE  ReadInv' /\ UNCHANGED <<runRows, commentRows>>
  BY <1>4, RunChangesKeeps DEF RunChanges, Sends, storeVars
<1>5. ASSUME NEW r \in Runs, RunDeleted(r)
      PROVE  ReadInv' /\ UNCHANGED <<runRows, commentRows>>
  BY <1>5, RunDeletedKeeps DEF RunDeleted, storeVars
<1>6. ASSUME NEW d \in sent, NEW received \in {now - 1, now}, Ingest(d, received)
      PROVE  ReadInv' /\ UNCHANGED github /\ RunsKept /\ DeletionsKept
  BY <1>6, IngestKeeps DEF Ingest
<1>7. ASSUME NEW p \in Polls, PollStep(p)
      PROVE  /\ ReadInv' /\ DeletionsKept
             /\ (UNCHANGED github /\ RunsKept) \/ UNCHANGED runRows
  <2>1. ASSUME NEW kind \in {"comments", "census", "verify"}, NEW rs \in SUBSET Runs,
               StartsPoll(p, kind, rs)
        PROVE  ReadInv' /\ UNCHANGED <<runRows, commentRows>>
    BY <2>1, StartsPollKeeps DEF StartsPoll, storeVars
  <2>2. CASE PollComments(p)
    <3>1. "comments" \in {"comments", "census", "verify"} /\ {} \in SUBSET Runs
      OBVIOUS
    <3>2. QED
      BY <2>1, <2>2, <3>1 DEF PollComments, DeletionsKept
  <2>3. CASE PollRuns(p)
    <3>1. "census" \in {"comments", "census", "verify"} /\ {} \in SUBSET Runs
      OBVIOUS
    <3>2. QED
      BY <2>1, <2>3, <3>1 DEF PollRuns, DeletionsKept
  <2>4. ASSUME NEW r \in Runs, VerifyRun(p, r)
        PROVE  ReadInv' /\ UNCHANGED <<runRows, commentRows>>
    <3>1. {r} \in SUBSET Runs
      OBVIOUS
    <3>2. StartsPoll(p, "verify", {r})
      BY <2>4 DEF VerifyRun
    <3>3. QED
      BY <2>1, <3>1, <3>2
  <2>5. CASE ReadComments(p)
    BY <2>5, ReadCommentsKeeps DEF ReadComments, Reads, storeVars, DeletionsKept
  <2>6. CASE ReadRuns(p)
    BY <2>6, ReadRunsKeeps DEF ReadRuns, Reads, storeVars, DeletionsKept
  <2>7. CASE ReadRun(p)
    BY <2>7, ReadRunKeeps DEF ReadRun, Reads, storeVars, DeletionsKept
  <2>8. CASE PollLost(p)
    BY <2>8, PollLostKeeps DEF PollLost, DeletionsKept
  <2>9. CASE RepairComments(p)
    BY <2>9, RepairCommentsKeeps DEF RepairComments
  <2>10. CASE RepairRuns(p)
    BY <2>10, RepairRunsKeeps DEF RepairRuns, Ends
  <2>11. CASE RepairRun(p)
    BY <2>11, RepairRunKeeps DEF RepairRun, Ends
  <2>12. QED
    BY <1>7, <2>2, <2>3, <2>4, <2>5, <2>6, <2>7, <2>8, <2>9, <2>10, <2>11
       DEF PollStep, DeletionsKept
<1>8. QED
  BY <1>1, <1>2, <1>3, <1>4, <1>5, <1>6, <1>7 DEF ReadNext, DeletionsKept

LEMMA ReadInvariant == ReadSpec => []ReadInv
<1>1. ReadInit => ReadInv
  BY ReadFirst
<1>2. ReadInv /\ [ReadNext]_readVars => ReadInv'
  BY ReadStep
<1>3. QED
  BY <1>1, <1>2, PTL DEF ReadSpec

-----------------------------------------------------------------------------
(* The theorems.                                                               *)

\* The rows, the receipts and the clocks of the read model have their types.
THEOREM ReadTypeCorrect == ReadSpec => []ReadTypeOK
<1>1. ReadInv => ReadTypeOK
  BY DEF ReadInv, Shaped
<1>2. QED
  BY <1>1, ReadInvariant, PTL

\* A snapshot of the runs that is served as usable has every run that has been
\* active since before the start of a census that was applied, whatever late
\* delivery, other census or verification was applied after it.
THEOREM CensusComplete == ReadSpec => []CensusIsComplete
<1>1. ReadInv => CensusIsComplete
  BY DEF ReadInv, Covers, Recorded, CensusIsComplete
<1>2. QED
  BY <1>1, ReadInvariant, PTL

\* What the read model knows about a run that is still so at GitHub is not lost to a
\* delivery out of order, nor to a repair that read GitHub before it knew.
THEOREM KnownRunsAreKept == ReadSpec => KnownRunsStay
<1> DEFINE Kept == \A r \in Runs :
                     /\ ServedActive(r) /\ github.runs[r].state = "active"
                     /\ runRows[r].at = github.runs[r].at
                     => ServedActive(r)'
<1>1. ReadInv /\ [ReadNext]_readVars => Kept
  <2> SUFFICES ASSUME ReadInv, [ReadNext]_readVars, NEW r \in Runs, ServedActive(r),
                      github.runs[r].state = "active", runRows[r].at = github.runs[r].at
               PROVE  ServedActive(r)'
    OBVIOUS
  <2>1. CASE UNCHANGED runRows
    BY <2>1 DEF ServedActive
  <2>2. CASE UNCHANGED github /\ RunsKept
    <3>1. runRows'[r].at = github'.runs[r].at /\ github'.runs[r].state = "active"
      BY <2>2 DEF RunsKept
    <3>2. Recorded'
      BY ReadStep DEF ReadInv
    <3>3. QED
      BY <3>1, <3>2 DEF Recorded
  <2>3. QED
    BY <2>1, <2>2, ReadStep
<1>2. QED
  BY <1>1, ReadInvariant, PTL DEF ReadSpec, KnownRunsStay

\* A comment whose deletion was delivered and that has its tombstone is never shown
\* again, by a delivery that comes late or by a listing from before.
THEOREM DeletionsStay == ReadSpec => NoResurrection
<1> DEFINE Kept == \A c \in Comments : commentRows[c].tomb /\ DeletionSeen(c) => commentRows'[c].tomb
<1>1. ReadInv /\ [ReadNext]_readVars => Kept
  BY ReadStep DEF DeletionsKept
<1>2. QED
  BY <1>1, ReadInvariant, PTL DEF ReadSpec, NoResurrection

=============================================================================
