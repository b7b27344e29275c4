------------------------ MODULE ExactReviewDecision ------------------------
(***************************************************************************)
(* The review decision a queue item carries, and the rules that compare    *)
(* and combine two of them: dashboard/exact-review-decision.ts and the     *)
(* identity functions at the end of dashboard/exact-review-queue.ts.       *)
(*                                                                         *)
(* A decision about a pull request keeps what the rules tell apart:        *)
(*   action     which ingress produced it (below);                         *)
(*   head       sourceHeadSha, heads being numbered; NoHead when absent;   *)
(*   updatedAt  sourceUpdatedAt, GitHub's one-second clock; 0 when absent; *)
(*   seq        sourceAuthoritySeq, the reservation number; 0 when absent; *)
(*   marker     commandStatusMarker; NoMarker when there is no command.    *)
(***************************************************************************)
EXTENDS Integers

CONSTANT Markers      \* the command status markers commands may carry

NoHead == 0
NoMarker == 0

ASSUME MarkerAssumption == NoMarker \notin Markers

(* "push" stands for the webhook actions that set supersedesInProgress     *)
(* (synchronize, edited, ready_for_review, ...), "label" for the ones that *)
(* do not (opened, reopened, labeled, ...), "command" for an explicit      *)
(* command that repository_dispatch delivers without an authority tuple,   *)
(* "recovery" for the one-shot repair of a failed review shard and         *)
(* "scheduled" for the background lanes.                                   *)
Actions == {"push", "label", "command", "recovery", "scheduled"}

Decision == [action : Actions, head : Nat, updatedAt : Nat, seq : Nat,
             marker : Markers \cup {NoMarker}]

NoDecision == [action |-> "scheduled", head |-> NoHead, updatedAt |-> 0,
               seq |-> 0, marker |-> NoMarker]

supersedesInProgress(d) == d.action = "push"

(* exactReviewDecisionHasCommandContext *)
HasCommandContext(d) == d.marker # NoMarker

(* isLowPriorityExactReviewDecision: sourceAction is the shard recovery's. *)
isLowPriority(d) == d.action = "recovery"

isScheduled(d) == d.action = "scheduled"

(* mergePendingExactReviewDecision: { ...current, ...next }, so a field    *)
(* that the newer decision does not have keeps its older value.            *)
mergePending(current, next) ==
  [action    |-> next.action,
   head      |-> IF next.head = NoHead THEN current.head ELSE next.head,
   updatedAt |-> IF next.updatedAt = 0 THEN current.updatedAt ELSE next.updatedAt,
   seq       |-> IF next.seq = 0 THEN current.seq ELSE next.seq,
   marker    |-> IF next.marker = NoMarker THEN current.marker ELSE next.marker]

(* exactReviewDecisionAtLiveHead: the live read vouches for the head only. *)
AtLiveHead(d, head) == [d EXCEPT !.head = head, !.updatedAt = 0, !.seq = 0]

(* exactReviewInputIdentityChanged: the failure-source fingerprint (action,*)
(* head, update time) and the command identity; not the authority number.  *)
InputIdentity(d) == <<d.action, d.head, d.updatedAt, d.marker>>

InputIdentityChanged(prior, next) == InputIdentity(prior) # InputIdentity(next)

(* The newest authority an item has accepted; sequence 0 when none.        *)
Watermark == [seq : Nat, updatedAt : Nat]

NoWatermark == [seq |-> 0, updatedAt |-> 0]

(* advanceExactReviewSourceAuthorityWatermark *)
AdvanceWatermark(watermark, d) ==
  IF d.seq > 0 THEN [seq |-> d.seq, updatedAt |-> d.updatedAt] ELSE watermark

(* Mutant: events of the same second are not ordered by their number. *)
MutantCanSupersedeReview(active, watermark, incoming) ==
  incoming.head # NoHead /\ incoming.updatedAt > watermark.updatedAt

(* exactReviewDecisionCanSupersedeReview, for webhook decisions: their head*)
(* is present and verified live (bindLivePullRequestHeadAuthority).        *)
CanSupersedeReview(active, watermark, incoming) ==
  LET activeSeq == IF watermark.seq > 0 THEN watermark.seq ELSE active.seq
      activeUpdatedAt == IF watermark.updatedAt > 0 THEN watermark.updatedAt
                                                    ELSE active.updatedAt
  IN  /\ incoming.head # NoHead
      /\ incoming.seq > 0
      /\ \/ active.head = NoHead
         \/ activeSeq = 0
         \/ /\ activeUpdatedAt > 0 /\ incoming.updatedAt > 0
            /\ incoming.updatedAt # activeUpdatedAt
            /\ incoming.updatedAt > activeUpdatedAt
         \/ /\ \/ activeUpdatedAt = 0 \/ incoming.updatedAt = 0
               \/ incoming.updatedAt = activeUpdatedAt
            /\ incoming.seq > activeSeq

=============================================================================
