---------------------------- MODULE CommandIntake ----------------------------
(* The durable intake of review commands written in one comment: the store of   *)
(* receipts, intakes and the watermark, the alarm that verifies a version       *)
(* against GitHub, enqueues and acknowledges it, and the review queue as far as *)
(* it answers.  A version is an edit of the comment; updated_at tells the time  *)
(* to the second, so edits of one second look equally new.                      *)
EXTENDS Naturals, Sequences, FiniteSets

CONSTANTS MaxEdits, MaxRetries

ASSUME IntakeAssumption == MaxEdits \in Nat /\ MaxRetries \in Nat

VARIABLES
  comment,      \* on GitHub: the second of each edit, and whether it was deleted
  receipts,     \* version -> outcome and detail
  intakes,      \* version -> the stage its intake waits in, or "none"
  watermark,    \* the version that stands for the comment, or 0
  deliveries,   \* the versions whose enqueue has a delivery receipt
  held,         \* the version of the item's (leased) decision, or 0
  alarm,        \* the locals of the alarm task: step, due records, the record at hand
  taken,        \* history: the versions the queue accepted
  acknowledged, \* the versions acknowledged on GitHub
  verified,     \* history: the versions that were live when they were read
  retries       \* failures left

storeVars == <<receipts, intakes, watermark>>
queueVars == <<deliveries, held, taken>>
effectVars == <<acknowledged, verified>>
intakeVars == <<comment, storeVars, queueVars, alarm, effectVars, retries>>

Versions == 1 .. MaxEdits
Live == Len(comment.at)
At(v) == comment.at[v]

Stages == {"verify", "enqueue", "effects"}
Outcomes == {"none", "pending", "completed", "rejected", "superseded"}
GivenUpDetails == {"older_comment_version", "newer_comment_version", "verified_sibling_version",
                   "source_comment_changed"}
Details == GivenUpDetails \cup {"", "already_observed", "source_comment_missing", "refused"}

Records == [version: Versions, stage: Stages]

Receipt(outcome, detail) == [outcome |-> outcome, detail |-> detail]
NoReceipt == Receipt("none", "")
Pending == Receipt("pending", "")

NoRecord == [version |-> 0, stage |-> "none"]
Idle == [step |-> "idle", due |-> {}, rec |-> NoRecord]

-----------------------------------------------------------------------------
(* The store. *)

\* Mutant: only the second is compared, not which of its versions was verified.
MutantIsCurrent(rec) == watermark # 0 /\ At(watermark) = At(rec.version)

\* isCurrent: nothing newer was admitted, and past its verification a version
\* must also be the one that was verified last.
IsCurrent(rec) ==
  /\ watermark # 0
  /\ At(watermark) = At(rec.version)
  /\ rec.stage = "verify" \/ watermark = rec.version

\* Mutant: the receipts of the versions that are overtaken stay pending.
MutantSupersededReceipts(vs, detail) == receipts

\* The rows of other versions: pending receipts are superseded, intakes go.
SupersededReceipts(vs, detail) ==
  [v \in Versions |-> IF v \in vs /\ receipts[v].outcome = "pending"
                      THEN Receipt("superseded", detail) ELSE receipts[v]]

IntakesWithout(vs) == [v \in Versions |-> IF v \in vs THEN "none" ELSE intakes[v]]

\* A write updates the row of an intake and never brings one back.
Staged(v, stage) ==
  IF intakes[v] = "none" THEN intakes ELSE [intakes EXCEPT ![v] = stage]

\* Mutant: a version of the same second counts as older.
MutantOlderThanWatermark(v) == watermark # 0 /\ At(watermark) >= At(v)

OlderThanWatermark(v) == watermark # 0 /\ At(watermark) > At(v)

Observed(v) == watermark = v

NewerThanWatermark(v) == watermark = 0 \/ At(watermark) < At(v)

\* A receipt that exists only answers, so the guard asks for none.
Admit(v) ==
  /\ v <= Live /\ receipts[v].outcome = "none"
  /\ IF OlderThanWatermark(v) \/ Observed(v)
     THEN /\ receipts' = [receipts EXCEPT ![v] =
                            Receipt("rejected", IF Observed(v) THEN "already_observed"
                                                ELSE "older_comment_version")]
          /\ UNCHANGED <<intakes, watermark>>
     ELSE LET overtaken == IF NewerThanWatermark(v) THEN Versions ELSE {}
          IN  /\ receipts' = [SupersededReceipts(overtaken, "newer_comment_version")
                                EXCEPT ![v] = Pending]
              /\ intakes' = [IntakesWithout(overtaken) EXCEPT ![v] = "verify"]
              /\ watermark' = IF NewerThanWatermark(v) THEN v ELSE watermark
  /\ UNCHANGED <<comment, queueVars, alarm, effectVars, retries>>

\* finish writes the receipt whatever it says, and drops the intake.
Finish(v, outcome, detail) ==
  /\ receipts' = IF receipts[v] = NoReceipt THEN receipts
                 ELSE [receipts EXCEPT ![v] = Receipt(outcome, detail)]
  /\ intakes' = [intakes EXCEPT ![v] = "none"]
  /\ UNCHANGED watermark

-----------------------------------------------------------------------------
(* The alarm.  It takes a snapshot of the records that are due and awaits       *)
(* GitHub or the queue at every step but "idle" and "loop".                     *)

Rec == alarm.rec
Reaches(step, rec) == alarm' = [alarm EXCEPT !.step = step, !.rec = rec]
Continues == Reaches("loop", NoRecord)
Spend == retries > 0 /\ retries' = retries - 1

\* Which records are due is a matter of their backoff.
Wake(vs) ==
  /\ alarm = Idle
  /\ vs # {} /\ \A v \in vs : intakes[v] # "none"
  /\ alarm' = [step |-> "loop", rec |-> NoRecord,
               due |-> {[version |-> v, stage |-> intakes[v]] : v \in vs}]
  /\ UNCHANGED <<comment, storeVars, queueVars, effectVars, retries>>

FinishOvertaken(rec) ==
  Finish(rec.version, "superseded", "newer_comment_version")

Consider(rec) ==
  /\ alarm.step = "loop" /\ rec \in alarm.due
  /\ alarm' = [alarm EXCEPT !.due = @ \ {rec},
                            !.step = IF IsCurrent(rec) THEN "admission" ELSE "loop",
                            !.rec = IF IsCurrent(rec) THEN rec ELSE NoRecord]
  /\ IF IsCurrent(rec) THEN UNCHANGED storeVars ELSE FinishOvertaken(rec)
  /\ UNCHANGED <<comment, queueVars, effectVars, retries>>

\* The answer about the target's visibility: public, or private, or none that
\* can be used; the last is tried again until its attempts are over.
Admission ==
  /\ alarm.step = "admission"
  /\ \/ IsCurrent(Rec) /\ Rec.stage = "verify" /\ Reaches("comment", Rec)
        /\ UNCHANGED <<storeVars, retries>>
     \/ IsCurrent(Rec) /\ Rec.stage # "verify" /\ Reaches(Rec.stage, Rec)
        /\ UNCHANGED <<storeVars, retries>>
     \/ ~IsCurrent(Rec) /\ Continues /\ FinishOvertaken(Rec) /\ UNCHANGED retries
     \/ IsCurrent(Rec) /\ Continues /\ Finish(Rec.version, "rejected", "refused")
        /\ UNCHANGED retries
     \/ IsCurrent(Rec) /\ Continues /\ Spend /\ UNCHANGED storeVars
  /\ UNCHANGED <<comment, queueVars, effectVars>>

\* GitHub may answer with the comment as it was some seconds ago, but as it was
\* at the end of a second.
Shown == {s \in 1 .. Live : s = Live \/ At(s) < At(s + 1)}

ReadComment ==
  /\ alarm.step = "comment"
  /\ \/ /\ comment.gone
        /\ Continues /\ Finish(Rec.version, "rejected", "source_comment_missing")
        /\ UNCHANGED <<retries, verified>>
     \/ \E s \in Shown :
          \/ /\ s = Rec.version
             /\ Reaches("item", Rec) /\ verified' = verified \cup {s}
             /\ UNCHANGED <<storeVars, retries>>
          \/ /\ s # Rec.version /\ At(s) >= At(Rec.version)
             /\ Continues /\ Finish(Rec.version, "rejected", "source_comment_changed")
             /\ UNCHANGED <<retries, verified>>
     \/ Continues /\ Spend /\ UNCHANGED <<storeVars, verified>>
  /\ UNCHANGED <<comment, queueVars, acknowledged>>

Siblings(v) == Versions \ {v}

\* markVerified and the advance that follows: the verified version stands for
\* its second and every other version of the comment is dropped.
MarkVerified(v) ==
  /\ watermark' = IF At(watermark) = At(v) THEN v ELSE watermark
  /\ receipts' = SupersededReceipts(Siblings(v), "verified_sibling_version")
  /\ intakes' = [IntakesWithout(Siblings(v)) EXCEPT ![v] = Staged(v, "enqueue")[v]]

\* The item may be closed, or its head another than the command asked for.
ReadItem ==
  /\ alarm.step = "item"
  /\ \/ /\ OlderThanWatermark(Rec.version)
        /\ Continues /\ FinishOvertaken(Rec) /\ UNCHANGED retries
     \/ /\ ~OlderThanWatermark(Rec.version)
        /\ MarkVerified(Rec.version)
        /\ Reaches("enqueue", [Rec EXCEPT !.stage = "enqueue"])
        /\ UNCHANGED retries
     \/ Continues /\ Finish(Rec.version, "rejected", "refused") /\ UNCHANGED retries
     \/ Continues /\ Spend /\ UNCHANGED storeVars
  /\ UNCHANGED <<comment, queueVars, effectVars>>

\* exactReviewCommandVersionIsOlder, for decisions whose comment was verified.
CommandVersionIsOlder(v) == held # 0 /\ At(v) < At(held)

\* The queue's transaction: a repeated delivery is deduplicated; a stale one
\* leaves no delivery receipt; an item under a lease keeps its lease's decision.
QueueEnqueues(answer) ==
  LET v == Rec.version
  IN  \/ /\ v \in deliveries /\ answer = "queued"
         /\ UNCHANGED queueVars
      \/ /\ v \notin deliveries /\ answer = "queued" /\ ~CommandVersionIsOlder(v)
         /\ deliveries' = deliveries \cup {v} /\ taken' = taken \cup {v}
         /\ held' \in {v} \cup ({held} \ {0})
      \/ /\ v \notin deliveries /\ answer = "stale" /\ CommandVersionIsOlder(v)
         /\ UNCHANGED queueVars

\* The queue may also see a source authority that is newer than the command's,
\* refuse the command, or fail.
Enqueue ==
  /\ alarm.step = "enqueue"
  /\ \/ \E answer \in {"queued", "stale"} :
          /\ QueueEnqueues(answer)
          /\ Reaches(answer, Rec)
          /\ UNCHANGED <<storeVars, retries>>
     \/ /\ held # 0 /\ Rec.version \notin deliveries
        /\ Spend /\ Reaches("stale", Rec)
        /\ UNCHANGED <<storeVars, queueVars>>
     \/ Continues /\ Finish(Rec.version, "rejected", "refused") /\ UNCHANGED <<queueVars, retries>>
     \/ Continues /\ Spend /\ UNCHANGED <<storeVars, queueVars>>
     \/ Continues /\ Spend /\ QueueEnqueues("queued") /\ UNCHANGED storeVars
  /\ UNCHANGED <<comment, effectVars>>

\* The answer: on to the effects, unless a newer version came meanwhile; or
\* back to the verification.
TakeUp ==
  /\ alarm.step = "queued"
  /\ LET effects == [Rec EXCEPT !.stage = "effects"]
     IN  \/ /\ IsCurrent(effects)
            /\ intakes' = Staged(Rec.version, "effects")
            /\ Reaches("effects", effects)
            /\ UNCHANGED <<receipts, watermark>>
         \/ ~IsCurrent(effects) /\ FinishOvertaken(Rec) /\ Continues
  /\ UNCHANGED <<comment, queueVars, effectVars, retries>>

VerifyAgain ==
  /\ alarm.step = "stale"
  /\ intakes' = Staged(Rec.version, "verify")
  /\ Continues
  /\ UNCHANGED <<comment, receipts, watermark, queueVars, effectVars, retries>>

\* The status comment is converged and the reaction added; an error may follow.
Effects ==
  /\ alarm.step = "effects"
  /\ Continues
  /\ acknowledged' \in {acknowledged, acknowledged \cup {Rec.version}}
  /\ \/ /\ Rec.version \in acknowledged'
        /\ Finish(Rec.version, "completed", "") /\ UNCHANGED retries
     \/ Spend /\ UNCHANGED storeVars
  /\ UNCHANGED <<comment, queueVars, verified>>

\* The end of the alarm prunes what is old: receipts after 30 days, delivery
\* receipts after 7, which no command that is still pending outlives.
Sleep ==
  /\ alarm.step = "loop" /\ alarm.due = {}
  /\ \E old \in SUBSET {v \in Versions : receipts[v].outcome \notin {"none", "pending"}} :
       receipts' = [v \in Versions |-> IF v \in old THEN NoReceipt ELSE receipts[v]]
  /\ \E old \in SUBSET {v \in deliveries : receipts[v].outcome # "pending"} :
       deliveries' = deliveries \ old
  /\ alarm' = Idle
  /\ UNCHANGED <<comment, intakes, watermark, held, taken, effectVars, retries>>

\* The Durable Object restarts; what the alarm awaited is lost.
Restart ==
  /\ alarm # Idle
  /\ alarm' = Idle
  /\ Spend
  /\ UNCHANGED <<comment, storeVars, queueVars, effectVars>>

-----------------------------------------------------------------------------
(* The comment and the item. *)

Edit(at) ==
  /\ Live < MaxEdits /\ ~comment.gone
  /\ comment' = [comment EXCEPT !.at = Append(@, at)]
  /\ UNCHANGED <<storeVars, queueVars, alarm, effectVars, retries>>

DeleteComment ==
  /\ Live > 0 /\ ~comment.gone
  /\ comment' = [comment EXCEPT !.gone = TRUE]
  /\ UNCHANGED <<storeVars, queueVars, alarm, effectVars, retries>>

\* The item's review ends, or goes on with the newest command it took.
ItemMoves ==
  /\ held # 0
  /\ held' \in {0} \cup {v \in taken : \A w \in taken : w <= v}
  /\ held' # held
  /\ UNCHANGED <<comment, storeVars, deliveries, taken, alarm, effectVars, retries>>

-----------------------------------------------------------------------------
(* The specification. *)

IntakeInit ==
  /\ comment = [at |-> <<>>, gone |-> FALSE]
  /\ receipts = [v \in Versions |-> NoReceipt]
  /\ intakes = [v \in Versions |-> "none"]
  /\ watermark = 0 /\ deliveries = {} /\ held = 0
  /\ alarm = Idle
  /\ taken = {} /\ acknowledged = {} /\ verified = {}
  /\ retries = MaxRetries

AlarmStep ==
  \/ \E rec \in alarm.due : Consider(rec)
  \/ Admission \/ ReadComment \/ ReadItem \/ Enqueue \/ TakeUp \/ VerifyAgain \/ Effects \/ Sleep

NextEdits == IF Live = 0 THEN {0} ELSE {At(Live), At(Live) + 1}

IntakeNext ==
  \/ AlarmStep
  \/ \E vs \in SUBSET Versions : Wake(vs)
  \/ \E v \in Versions : Admit(v)
  \/ \E at \in NextEdits : Edit(at)
  \/ DeleteComment \/ ItemMoves \/ Restart

IntakeSpec == IntakeInit /\ [][IntakeNext]_intakeVars

\* An alarm is set whenever an intake waits; its answers come or fail, and a
\* record's backoff of at most a quarter of an hour passes.
WakesFor(v) == \E vs \in SUBSET Versions : v \in vs /\ Wake(vs)

IntakeFairness ==
  /\ WF_intakeVars(AlarmStep)
  /\ \A v \in Versions : SF_intakeVars(WakesFor(v))

FairIntakeSpec == IntakeSpec /\ IntakeFairness

-----------------------------------------------------------------------------
(* Properties. *)

IntakeTypeOK ==
  /\ comment.at \in Seq(Nat) /\ Live <= MaxEdits /\ comment.gone \in BOOLEAN
  /\ receipts \in [Versions -> [outcome: Outcomes, detail: Details]]
  /\ intakes \in [Versions -> Stages \cup {"none"}]
  /\ watermark \in 0 .. Live /\ held \in 0 .. Live
  /\ deliveries \subseteq Versions /\ taken \subseteq Versions
  /\ acknowledged \subseteq Versions /\ verified \subseteq Versions
  /\ alarm.due \subseteq Records /\ alarm.rec \in Records \cup {NoRecord}
  /\ retries \in 0 .. MaxRetries

GivenUp(v) == receipts[v].detail \in GivenUpDetails

\* The version that is live is given up, as older than another or overtaken by
\* it, only for an edit of the same second that GitHub itself showed as live.
LiveCommandIsKept ==
  Live > 0 /\ GivenUp(Live) =>
    \E w \in verified : w # Live /\ At(w) = At(Live)

\* No command is lost: the live version is never given up for another.
LiveCommandNeverLost == Live > 0 => ~GivenUp(Live)

\* Intake keeps the promise of CommandInbox to the queue and to the commenter.
Inbox == INSTANCE CommandInbox
ImplementsInbox == Inbox!InboxSpec

\* Every command that was admitted is decided in the end.
CommandsEnd ==
  \A v \in Versions : receipts[v].outcome = "pending" ~> receipts[v].outcome # "pending"

=============================================================================
