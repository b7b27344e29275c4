--------------------------- MODULE QueueAlarmProofs ---------------------------
(* Proofs about the two parts of the queue that its alarm keeps going: command *)
(* intake, for any number of edits and failures, and publication control, for   *)
(* any deployments, backlogs and reports.                                       *)
EXTENDS CommandIntake, PublicationControl, FiniteSetTheorems, TLAPS

-----------------------------------------------------------------------------
(* Command intake: the invariant.                                              *)

Steps == {"idle", "loop", "admission", "comment", "item", "enqueue", "queued", "stale", "effects"}

Alarms == [step: Steps, due: SUBSET Records, rec: Records \cup {NoRecord}]

\* The step the alarm waits at tells the stage of the record it has in hand.
Shaped ==
  /\ IntakeTypeOK /\ alarm \in Alarms
  /\ alarm.step = "idle" => alarm.due = {}
  /\ alarm.step \in {"idle", "loop"} <=> Rec = NoRecord
  /\ alarm.step \in {"comment", "item"} => Rec.stage = "verify"
  /\ alarm.step \in {"enqueue", "queued", "stale"} => Rec.stage = "enqueue"
  /\ alarm.step = "effects" => Rec.stage = "effects"

\* Edits come in the order of their seconds.
SecondsGrow == \A i, j \in 1 .. Live : i <= j => At(i) <= At(j)

\* A receipt is pending while an intake waits, and the watermark's second is that
\* of the newest edit that was admitted.
Receipted ==
  \A v \in Versions :
    /\ receipts[v].outcome = "pending" <=> intakes[v] # "none"
    /\ receipts[v].outcome \in {"none", "pending"} => ~GivenUp(v)
    /\ receipts[v].outcome # "none" =>
         v <= Live /\ watermark # 0 /\ At(v) <= At(watermark)

\* The records of the store and of the alarm's snapshot of it.
InHand == alarm.due \cup ({Rec} \ {NoRecord})
Standing == InHand \cup {rec \in Records : intakes[rec.version] = rec.stage}

\* What was done with the versions the records stand for.
Handled ==
  /\ \A rec \in InHand : receipts[rec.version].outcome # "none"
  /\ \A rec \in Standing :
       /\ rec.stage # "verify" /\ At(rec.version) = At(watermark) => watermark \in verified
       /\ rec.stage = "effects" => rec.version \in taken
  /\ alarm.step = "item" => Rec.version \in verified
  /\ alarm.step = "queued" => Rec.version \in taken

\* A version that was taken long ago, so that its delivery receipt is gone.
Forgotten == taken \ deliveries
Outlived(v) == \E w \in v + 1 .. Live : At(w) = At(v)

\* Nothing above the watermark was taken, and what the alarm may enqueue next is
\* newer than what was; a version that could be enqueued a second time is hidden
\* from the alarm by a later edit of its second.
Taken ==
  /\ taken \subseteq 1 .. watermark /\ deliveries \subseteq taken /\ verified \subseteq 1 .. Live
  /\ \A rec \in Standing :
       rec.version \in Forgotten => rec.stage = "verify" /\ Outlived(rec.version)
  /\ alarm.step \in {"admission", "comment"} => \A u \in taken : At(u) <= At(Rec.version)
  /\ alarm.step \in {"item", "enqueue"} =>
       Rec.version \notin Forgotten /\ \A u \in taken : u <= Rec.version
  /\ alarm.step = "enqueue" => Rec.version <= watermark

IntakeInv ==
  Shaped /\ SecondsGrow /\ Receipted /\ Handled /\ Taken /\ LiveCommandIsKept

-----------------------------------------------------------------------------
(* Command intake: what single steps do.                                       *)

\* How the seconds of the comment's edits compare.
LEMMA SecondsCompare ==
  ASSUME SecondsGrow, comment.at \in Seq(Nat), NEW i \in 1 .. Live, NEW j \in 1 .. Live
  PROVE  /\ At(i) \in Nat
         /\ i <= j => At(i) <= At(j)
         /\ At(i) < At(j) => i < j
  BY DEF SecondsGrow, Live, At

\* What a receipt says; the records are left unexpanded in what follows.
LEMMA ReceiptFields ==
  /\ \A o, d : Receipt(o, d).outcome = o /\ Receipt(o, d).detail = d
  /\ \A o \in Outcomes, d \in Details : Receipt(o, d) \in [outcome: Outcomes, detail: Details]
  BY DEF Receipt

LEMMA PendingFields ==
  /\ Pending.outcome = "pending" /\ Pending.detail \notin GivenUpDetails
  /\ NoReceipt.outcome = "none" /\ NoReceipt.detail \notin GivenUpDetails
  /\ {Pending, NoReceipt} \subseteq [outcome: Outcomes, detail: Details]
  BY DEF Pending, NoReceipt, Receipt, GivenUpDetails, Outcomes, Details

\* The state's shape, as the steps below use it.
LEMMA IntakeTypes ==
  ASSUME IntakeInv
  PROVE  /\ comment.at \in Seq(Nat) /\ Live \in Nat /\ Live <= MaxEdits
         /\ \A v \in 1 .. Live : At(v) \in Nat /\ v \in Versions
         /\ watermark \in 0 .. Live /\ held \in 0 .. Live
         /\ \A v \in Versions : receipts[v] \in [outcome: Outcomes, detail: Details]
         /\ receipts \in [Versions -> [outcome: Outcomes, detail: Details]]
         /\ intakes \in [Versions -> Stages \cup {"none"}]
<1>1. comment.at \in Seq(Nat) /\ Live <= MaxEdits
  BY DEF IntakeInv, Shaped, IntakeTypeOK
<1>2. Live \in Nat /\ \A v \in 1 .. Live : At(v) \in Nat
  BY <1>1 DEF Live, At
<1>3. MaxEdits \in Nat
  BY IntakeAssumption DEF IntakeAssumption
<1>4. \A v \in 1 .. Live : v \in Versions
  BY <1>1, <1>2, <1>3 DEF Versions
<1>5. QED
  BY <1>1, <1>2, <1>4 DEF IntakeInv, Shaped, IntakeTypeOK

\* The alarm drops the record in hand and ends its intake.
LEMMA FinishKeeps ==
  ASSUME IntakeInv, NEW v \in Versions, NEW outcome \in Outcomes \ {"none", "pending"},
         NEW detail \in Details,
         Finish(v, outcome, detail), receipts[v].outcome # "none",
         detail \in GivenUpDetails /\ v = Live => \E w \in verified : w # v /\ At(w) = At(v),
         alarm' \in Alarms, alarm'.step = "loop", alarm'.rec = NoRecord,
         alarm'.due \subseteq alarm.due,
         UNCHANGED <<comment, queueVars, verified>>,
         retries' \in 0 .. MaxRetries, acknowledged' \subseteq Versions
  PROVE  IntakeInv'
<1> USE DEF Live, At
<1>1. Shaped'
  BY ReceiptFields DEF IntakeInv, Shaped, IntakeTypeOK, Finish, Rec, queueVars, NoRecord, Records
<1>2. SecondsGrow'
  BY DEF IntakeInv, SecondsGrow
<1>3. Receipted'
  BY IntakeTypes, ReceiptFields, PendingFields DEF IntakeInv, Receipted, Finish, GivenUp, Outcomes
<1>4. \A rec \in Standing' : rec \in Standing
  BY DEF IntakeInv, Shaped, IntakeTypeOK, Standing, InHand, Finish, Rec, Records, Stages
<1>5. Handled'
  <2>1. \A rec \in InHand' : rec \in InHand
    BY DEF InHand, Rec
  <2>2. \A rec \in InHand : rec.version \in Versions
    BY DEF IntakeInv, Shaped, IntakeTypeOK, InHand, Rec, Records
  <2>3. \A rec \in InHand' : receipts'[rec.version].outcome # "none"
    BY <2>1, <2>2, IntakeTypes, ReceiptFields, PendingFields DEF IntakeInv, Handled, Finish
  <2>4. QED
    BY <1>4, <2>3 DEF IntakeInv, Handled, Finish, queueVars
<1>6. Taken'
  BY <1>4 DEF IntakeInv, Taken, Finish, queueVars, Forgotten, Outlived
<1>7. LiveCommandIsKept'
  BY IntakeTypes, ReceiptFields DEF IntakeInv, LiveCommandIsKept, GivenUp, Finish
<1>8. QED
  BY <1>1, <1>2, <1>3, <1>5, <1>6, <1>7 DEF IntakeInv

\* The alarm puts down the record in hand, or leaves records of its snapshot out.
LEMMA PutDownKeeps ==
  ASSUME IntakeInv, UNCHANGED <<comment, storeVars, queueVars, verified>>,
         alarm' \in Alarms, alarm'.step \in {"idle", "loop"}, alarm'.rec = NoRecord,
         alarm'.due \subseteq alarm.due, alarm'.step = "idle" => alarm'.due = {},
         retries' \in 0 .. MaxRetries, acknowledged' \subseteq Versions
  PROVE  IntakeInv'
<1> USE DEF Live, At
<1>1. Shaped'
  BY DEF IntakeInv, Shaped, IntakeTypeOK, Rec, storeVars, queueVars, NoRecord, Records
<1>2. SecondsGrow' /\ Receipted'
  BY DEF IntakeInv, SecondsGrow, Receipted, GivenUp, storeVars
<1>3. InHand' \subseteq InHand /\ Standing' \subseteq Standing
  BY DEF Standing, InHand, Rec, storeVars
<1>4. Handled'
  BY <1>3 DEF IntakeInv, Handled, storeVars, queueVars
<1>5. Taken'
  BY <1>3 DEF IntakeInv, Taken, storeVars, queueVars, Forgotten, Outlived
<1>6. LiveCommandIsKept'
  BY DEF IntakeInv, LiveCommandIsKept, GivenUp, storeVars
<1>7. QED
  BY <1>1, <1>2, <1>4, <1>5, <1>6 DEF IntakeInv

\* A record's place in the snapshot, and what is known of the record in hand.
LEMMA RecordInHand ==
  ASSUME IntakeInv
  PROVE  /\ InHand \subseteq Records /\ InHand \subseteq Standing
         /\ alarm.step \notin {"idle", "loop"} => Rec \in InHand
         /\ \A rec \in InHand :
              /\ rec.version \in Versions /\ rec.version \in 1 .. Live
              /\ receipts[rec.version].outcome # "none"
              /\ watermark \in 1 .. Live /\ At(rec.version) <= At(watermark)
<1>1. InHand \subseteq Records /\ InHand \subseteq Standing
  BY DEF IntakeInv, Shaped, IntakeTypeOK, InHand, Standing, Rec
<1>2. alarm.step \notin {"idle", "loop"} => Rec \in InHand
  BY DEF IntakeInv, Shaped, InHand
<1>3. \A rec \in InHand : rec.version \in Versions /\ receipts[rec.version].outcome # "none"
  BY <1>1 DEF IntakeInv, Handled, Records
<1>4. \A rec \in InHand :
        rec.version \in 1 .. Live /\ watermark \in 1 .. Live /\ At(rec.version) <= At(watermark)
  BY <1>3, IntakeTypes DEF IntakeInv, Receipted, Versions
<1>5. QED
  BY <1>1, <1>2, <1>3, <1>4

\* A record that is not current was overtaken: by a later second, or by a version
\* of the same second that was verified in the meantime.
LEMMA OvertakenIsNotLive ==
  ASSUME IntakeInv, NEW rec \in InHand, NEW r \in Records, r.version = rec.version,
         r.stage = rec.stage \/ rec.stage # "verify", ~IsCurrent(r)
  PROVE  rec.version = Live => \E w \in verified : w # Live /\ At(w) = At(Live)
<1>1. /\ rec \in Records /\ rec \in Standing /\ rec.version \in 1 .. Live
      /\ watermark \in 1 .. Live /\ At(rec.version) <= At(watermark)
  BY RecordInHand
<1>2. ASSUME rec.version = Live PROVE At(watermark) = At(rec.version)
  <2>1. SecondsGrow /\ comment.at \in Seq(Nat)
    BY DEF IntakeInv, Shaped, IntakeTypeOK
  <2>2. At(watermark) <= At(rec.version) /\ At(watermark) \in Nat /\ At(rec.version) \in Nat
    BY <1>1, <1>2, <2>1, SecondsCompare
  <2>3. QED
    BY <1>1, <2>2
<1>3. ASSUME rec.version = Live
      PROVE  rec.stage # "verify" /\ watermark # rec.version
  BY <1>1, <1>2, <1>3 DEF IsCurrent
<1>4. QED
  BY <1>1, <1>2, <1>3 DEF IntakeInv, Handled

-----------------------------------------------------------------------------
(* Command intake: every step keeps the invariant.                             *)

LEMMA IntakeStarts == ASSUME IntakeAssumption, IntakeInit PROVE IntakeInv
<1> USE DEF IntakeInit, Live, At
<1>1. Shaped
  <2>1. comment.at \in Seq(Nat) /\ Live = 0 /\ MaxEdits \in Nat /\ MaxRetries \in Nat
    BY DEF IntakeAssumption
  <2>2. alarm \in Alarms /\ Rec = NoRecord /\ alarm.step = "idle" /\ alarm.due = {}
    BY DEF Idle, Alarms, Steps, Rec
  <2>3. receipts \in [Versions -> [outcome: Outcomes, detail: Details]]
    BY PendingFields
  <2>4. QED
    BY <2>1, <2>2, <2>3 DEF Shaped, IntakeTypeOK, Rec
<1>2. SecondsGrow /\ Receipted
  <2>1. Live = 0
    OBVIOUS
  <2>2. \A v \in Versions : receipts[v].outcome = "none" /\ ~GivenUp(v)
    BY PendingFields DEF GivenUp
  <2>3. QED
    BY <2>1, <2>2 DEF SecondsGrow, Receipted
<1>3. Standing = {}
  BY DEF Standing, InHand, Rec, Idle, Records, Stages
<1>4. Handled /\ Taken
  BY <1>3 DEF Handled, Taken, Standing, Forgotten, Idle
<1>5. LiveCommandIsKept
  BY DEF LiveCommandIsKept
<1>6. QED
  BY <1>1, <1>2, <1>4, <1>5 DEF IntakeInv

LEMMA AdmitKeeps ==
  ASSUME IntakeInv, NEW v \in Versions, Admit(v)
  PROVE  IntakeInv'
<1>1. /\ SecondsGrow /\ comment.at \in Seq(Nat) /\ v \in 1 .. Live
      /\ watermark \in 0 .. Live /\ receipts[v].outcome = "none" /\ At(v) \in Nat
      /\ receipts \in [Versions -> [outcome: Outcomes, detail: Details]]
      /\ intakes \in [Versions -> Stages \cup {"none"}]
  BY IntakeTypes DEF IntakeInv, Admit, Versions
<1>2. UNCHANGED <<comment, deliveries, held, taken, alarm, acknowledged, verified, retries>>
  BY DEF Admit, queueVars, effectVars
<1>3. UNCHANGED <<Live, SecondsGrow, Rec, InHand>> /\ \A u : UNCHANGED At(u)
  BY <1>2 DEF Live, At, SecondsGrow, Rec, InHand
<1>4. CASE OlderThanWatermark(v) \/ Observed(v)
  <2>1. /\ UNCHANGED <<intakes, watermark>>
        /\ receipts' = [receipts EXCEPT ![v] =
                          Receipt("rejected", IF Observed(v) THEN "already_observed"
                                              ELSE "older_comment_version")]
    BY <1>4 DEF Admit
  <2>2. At(v) <= At(watermark) /\ watermark # 0
    BY <1>1, <1>4 DEF OlderThanWatermark, Observed, At, Live
  <2>3. Shaped'
    BY <1>1, <1>2, <1>3, <2>1, ReceiptFields DEF IntakeInv, Shaped, IntakeTypeOK, Outcomes, Details,
       GivenUpDetails, Live
  <2>4. Receipted'
    <3>1. receipts'[v].outcome = "rejected" /\ \A u \in Versions \ {v} : receipts'[u] = receipts[u]
      BY <1>1, <2>1, ReceiptFields
    <3>2. intakes[v] = "none"
      BY <1>1 DEF IntakeInv, Receipted
    <3>3. QED
      BY <1>1, <1>3, <2>1, <2>2, <3>1, <3>2 DEF IntakeInv, Receipted, GivenUp
  <2>5. Standing' = Standing
    BY <1>3, <2>1 DEF Standing
  <2>6. Handled'
    BY <1>1, <1>2, <1>3, <2>1, <2>5, RecordInHand, ReceiptFields DEF IntakeInv, Handled
  <2>7. Taken'
    BY <1>2, <1>3, <2>1, <2>5 DEF IntakeInv, Taken, Forgotten, Outlived
  <2>8. LiveCommandIsKept'
    <3>1. v = Live => ~OlderThanWatermark(v)
      BY <1>1, SecondsCompare DEF OlderThanWatermark
    <3>2. QED
      BY <1>1, <1>2, <1>3, <1>4, <2>1, <3>1, ReceiptFields
         DEF IntakeInv, LiveCommandIsKept, GivenUp, GivenUpDetails
  <2>9. QED
    BY <1>3, <2>3, <2>4, <2>6, <2>7, <2>8 DEF IntakeInv
<1>5. CASE ~(OlderThanWatermark(v) \/ Observed(v))
  <2> DEFINE over == IF NewerThanWatermark(v) THEN Versions ELSE {}
  <2>1. /\ receipts' = [SupersededReceipts(over, "newer_comment_version") EXCEPT ![v] = Pending]
        /\ intakes' = [IntakesWithout(over) EXCEPT ![v] = "verify"]
        /\ watermark' = IF NewerThanWatermark(v) THEN v ELSE watermark
    BY <1>5 DEF Admit
  <2>2. \A u \in Versions :
          /\ receipts'[u] = IF u = v THEN Pending
                            ELSE IF NewerThanWatermark(v) /\ receipts[u].outcome = "pending"
                            THEN Receipt("superseded", "newer_comment_version") ELSE receipts[u]
          /\ intakes'[u] = IF u = v THEN "verify"
                           ELSE IF NewerThanWatermark(v) THEN "none" ELSE intakes[u]
    BY <1>1, <2>1 DEF SupersededReceipts, IntakesWithout
  <2>3. /\ receipts' \in [Versions -> [outcome: Outcomes, detail: Details]]
        /\ intakes' \in [Versions -> Stages \cup {"none"}]
    BY <1>1, <2>1, ReceiptFields, PendingFields
       DEF SupersededReceipts, IntakesWithout, Outcomes, Details, GivenUpDetails, Stages
  <2>4. watermark' \in 1 .. Live /\ At(watermark') = At(v) /\ At(watermark') \in Nat
    BY <1>1, <1>5, <2>1 DEF NewerThanWatermark, OlderThanWatermark, At, Live
  <2>5. watermark # 0 =>
          /\ At(watermark) <= At(watermark') /\ watermark <= watermark'
          /\ NewerThanWatermark(v) => At(watermark) < At(watermark')
          /\ At(watermark) \in Nat
    BY <1>1, <2>1, <2>4, SecondsCompare DEF NewerThanWatermark
  <2> HIDE DEF over
  <2>6. Shaped'
    BY <1>1, <1>2, <1>3, <2>3, <2>4 DEF IntakeInv, Shaped, IntakeTypeOK
  <2>7. Receipted'
    <3> SUFFICES ASSUME NEW u \in Versions
                 PROVE  /\ receipts'[u].outcome = "pending" <=> intakes'[u] # "none"
                        /\ receipts'[u].outcome \in {"none", "pending"} => ~GivenUp(u)'
                        /\ receipts'[u].outcome # "none" =>
                             u <= Live /\ watermark' # 0 /\ At(u) <= At(watermark')
      BY <1>3 DEF Receipted
    <3>1. /\ receipts[u].outcome = "pending" <=> intakes[u] # "none"
          /\ receipts[u].outcome \in {"none", "pending"} => ~GivenUp(u)
          /\ receipts[u].outcome # "none" => u <= Live /\ watermark # 0 /\ At(u) <= At(watermark)
          /\ u <= Live => At(u) \in Nat
      <4>1. u <= Live => u \in 1 .. Live
        BY IntakeTypes, IntakeAssumption DEF Versions, IntakeAssumption
      <4>2. u <= Live => At(u) \in Nat
        BY <4>1, IntakeTypes
      <4>3. receipts[u].outcome \in {"none", "pending"} => ~GivenUp(u)
        BY DEF IntakeInv, Receipted
      <4>4. receipts[u].outcome = "pending" <=> intakes[u] # "none"
        BY DEF IntakeInv, Receipted
      <4>5. receipts[u].outcome # "none" => u <= Live /\ watermark # 0 /\ At(u) <= At(watermark)
        BY DEF IntakeInv, Receipted
      <4>6. QED
        BY <4>2, <4>3, <4>4, <4>5
    <3>2. CASE u = v
      BY <1>1, <2>2, <2>4, <3>2, PendingFields DEF GivenUp
    <3>3. CASE u # v
      BY <1>1, <2>2, <2>4, <2>5, <3>1, <3>3, ReceiptFields DEF GivenUp
    <3>4. QED
      BY <3>2, <3>3
  <2>8. \A rec \in Standing' :
          \/ rec \in Standing
          \/ rec.version = v /\ rec.stage = "verify"
    BY <1>1, <1>3, <2>2 DEF Standing, Records, Stages
  <2>9. Handled'
    <3>1. \A rec \in InHand' : receipts'[rec.version].outcome # "none"
      BY <1>3, <2>2, RecordInHand, ReceiptFields, PendingFields DEF IntakeInv, Handled
    <3>2. \A rec \in Standing' : rec \in Standing /\ NewerThanWatermark(v) /\ rec.stage # "verify"
             => At(rec.version) # At(watermark')
      <4> SUFFICES ASSUME NEW rec \in Standing, NewerThanWatermark(v)
                   PROVE  At(rec.version) # At(watermark')
        OBVIOUS
      <4>1. receipts[rec.version].outcome # "none" /\ rec.version \in Versions
        BY RecordInHand DEF Standing, Records, IntakeInv, Receipted, Stages
      <4>2. rec.version <= Live /\ watermark # 0 /\ At(rec.version) <= At(watermark)
        BY <4>1 DEF IntakeInv, Receipted
      <4>3. At(rec.version) \in Nat
        BY SMTT(30), <1>1, <4>1, <4>2 DEF At, Live, Versions
      <4>4. QED
        BY <2>4, <2>5, <4>2, <4>3
    <3>3. QED
      BY <1>2, <1>3, <2>1, <2>8, <3>1, <3>2 DEF IntakeInv, Handled
  <2>10. Taken'
    <3>1. taken \subseteq 1 .. watermark'
      BY <1>1, <2>4, <2>5 DEF IntakeInv, Taken
    <3>2. v \in Forgotten => Outlived(v)
      <4> SUFFICES ASSUME v \in Forgotten PROVE Outlived(v)
        OBVIOUS
      <4>1. v < watermark /\ watermark # 0
        BY <1>1, <1>5 DEF IntakeInv, Taken, Forgotten, Observed
      <4>2. At(v) = At(watermark)
        BY <1>1, <1>5, <4>1, SecondsCompare DEF OlderThanWatermark
      <4>3. QED
        BY <1>1, <4>1, <4>2 DEF Outlived
    <3>3. alarm.step = "enqueue" => Rec.version <= watermark'
      <4>1. alarm.step = "enqueue" => Rec.version <= watermark /\ watermark # 0 /\ Rec.version \in Nat
        BY RecordInHand DEF IntakeInv, Taken, Versions
      <4>2. QED
        BY <1>1, <2>4, <2>5, <4>1
    <3>4. UNCHANGED <<Forgotten>> /\ \A u : UNCHANGED Outlived(u)
      BY <1>2, <1>3 DEF Forgotten, Outlived
    <3>5. QED
      BY <1>2, <1>3, <2>8, <3>1, <3>2, <3>3, <3>4 DEF IntakeInv, Taken
  <2>11. LiveCommandIsKept'
    <3>1. ASSUME v # Live, NewerThanWatermark(v), Live > 0
          PROVE  receipts[Live].outcome # "pending"
      <4> SUFFICES ASSUME receipts[Live].outcome = "pending" PROVE FALSE
        OBVIOUS
      <4>1. Live \in Versions /\ Live \in 1 .. Live
        BY <1>1, <3>1 DEF IntakeInv, Shaped, IntakeTypeOK, Versions, Live
      <4>2. watermark # 0 /\ At(Live) <= At(watermark)
        BY <4>1 DEF IntakeInv, Receipted
      <4>3. At(v) <= At(Live) /\ At(Live) \in Nat /\ At(watermark) \in Nat /\ watermark \in 1 .. Live
        BY <1>1, <4>1, <4>2, SecondsCompare
      <4>4. QED
        BY <1>1, <3>1, <4>2, <4>3 DEF NewerThanWatermark
    <3>2. Live > 0 => Live \in Versions
      BY DEF IntakeInv, Shaped, IntakeTypeOK, Versions, Live
    <3>3. QED
      BY <1>2, <1>3, <2>2, <3>1, <3>2, PendingFields
         DEF IntakeInv, LiveCommandIsKept, GivenUp
  <2>12. QED
    BY <1>3, <2>6, <2>7, <2>9, <2>10, <2>11 DEF IntakeInv
<1>6. QED
  BY <1>4, <1>5

LEMMA WakeKeeps ==
  ASSUME IntakeInv, NEW vs \in SUBSET Versions, Wake(vs)
  PROVE  IntakeInv'
<1> DEFINE found == {[version |-> v, stage |-> intakes[v]] : v \in vs}
<1>1. /\ alarm' = [step |-> "loop", rec |-> NoRecord, due |-> found]
      /\ UNCHANGED <<comment, receipts, intakes, watermark, deliveries, held, taken, acknowledged,
                     verified, retries>>
  BY DEF Wake, storeVars, queueVars, effectVars
<1>2. \A rec \in found : rec \in Records /\ intakes[rec.version] = rec.stage
  BY IntakeTypes DEF Wake, Records
<1> HIDE DEF found
<1>3. alarm'.step = "loop" /\ alarm'.rec = NoRecord /\ alarm'.due = found /\ alarm' \in Alarms
  BY <1>1, <1>2 DEF Alarms, Steps
<1>4. Shaped'
  BY <1>1, <1>2, <1>3 DEF IntakeInv, Shaped, IntakeTypeOK, Live, Rec
<1>5. SecondsGrow' /\ Receipted' /\ LiveCommandIsKept'
  BY <1>1 DEF IntakeInv, SecondsGrow, Receipted, LiveCommandIsKept, GivenUp, Live, At
<1>6. Standing' \subseteq Standing /\ InHand' = found
  BY <1>1, <1>2, <1>3 DEF Standing, InHand, Rec
<1>7. \A rec \in found : receipts[rec.version].outcome # "none"
  <2> TAKE rec \in found
  <2>1. rec.version \in Versions /\ intakes[rec.version] # "none"
    BY <1>2 DEF Records, Stages
  <2>2. QED
    BY <2>1 DEF IntakeInv, Receipted
<1>8. Handled'
  BY <1>1, <1>3, <1>6, <1>7 DEF IntakeInv, Handled, At
<1>9. Taken'
  BY <1>1, <1>3, <1>6 DEF IntakeInv, Taken, Forgotten, Outlived, At, Live
<1>10. QED
  BY <1>4, <1>5, <1>8, <1>9 DEF IntakeInv

\* The alarm goes on with its record, and nothing else changes but what it learned.
LEMMA GoesOnKeeps ==
  ASSUME IntakeInv, NEW step \in Steps \ {"idle", "loop"}, NEW rec \in Standing,
         alarm' = [alarm EXCEPT !.step = step, !.rec = rec],
         receipts[rec.version].outcome # "none",
         UNCHANGED <<comment, storeVars, queueVars, acknowledged, retries>>,
         verified \subseteq verified', verified' \subseteq 1 .. Live,
         step \in {"comment", "item"} => rec.stage = "verify",
         step \in {"enqueue", "queued", "stale"} => rec.stage = "enqueue",
         step = "effects" => rec.stage = "effects",
         step = "item" => rec.version \in verified',
         step = "queued" => rec.version \in taken,
         rec.version \in Forgotten => rec.stage = "verify" /\ Outlived(rec.version),
         step \in {"admission", "comment"} => \A u \in taken : At(u) <= At(rec.version),
         step \in {"item", "enqueue"} =>
           rec.version \notin Forgotten /\ \A u \in taken : u <= rec.version,
         step = "enqueue" => rec.version <= watermark
  PROVE  IntakeInv'
<1>1. UNCHANGED <<receipts, intakes, watermark, deliveries, held, taken>>
  BY DEF storeVars, queueVars
<1>2. rec \in Records
  BY RecordInHand DEF Standing
<1>3. alarm'.step = step /\ alarm'.rec = rec /\ alarm'.due = alarm.due /\ alarm' \in Alarms
  BY <1>2 DEF IntakeInv, Shaped, Alarms
<1>4. UNCHANGED Live /\ \A u : UNCHANGED At(u)
  BY DEF Live, At
<1>5. rec # NoRecord
  BY <1>2 DEF NoRecord, Records, Stages
<1>6. Shaped'
  <2>1. verified' \subseteq Versions
    BY IntakeTypes
  <2>2. IntakeTypeOK'
    BY <1>1, <1>2, <1>3, <1>4, <2>1 DEF IntakeInv, Shaped, IntakeTypeOK
  <2>3. QED
    BY <1>3, <1>5, <2>2 DEF Shaped, Rec
<1>7. SecondsGrow' /\ Receipted' /\ LiveCommandIsKept'
  BY <1>1, <1>4 DEF IntakeInv, SecondsGrow, Receipted, LiveCommandIsKept, GivenUp
<1>8. InHand' \subseteq InHand \cup {rec} /\ Standing' \subseteq Standing
  BY <1>1, <1>3 DEF Standing, InHand, Rec
<1>9. Handled'
  BY <1>1, <1>3, <1>4, <1>8 DEF IntakeInv, Handled, Rec
<1>10. Taken'
  BY <1>1, <1>3, <1>4, <1>8 DEF IntakeInv, Taken, Forgotten, Outlived, Rec
<1>11. QED
  BY <1>6, <1>7, <1>9, <1>10 DEF IntakeInv

LEMMA DropsRecord ==
  ASSUME IntakeInv, Continues
  PROVE  /\ alarm' \in Alarms /\ alarm'.step = "loop" /\ alarm'.rec = NoRecord
         /\ alarm'.due = alarm.due
  BY DEF IntakeInv, Shaped, Alarms, Continues, Reaches, Steps

LEMMA Spending ==
  ASSUME IntakeInv, Spend \/ UNCHANGED retries PROVE retries' \in 0 .. MaxRetries
  BY IntakeAssumption DEF IntakeInv, Shaped, IntakeTypeOK, Spend, IntakeAssumption

LEMMA EffectTypes ==
  ASSUME IntakeInv
  PROVE  retries \in 0 .. MaxRetries /\ acknowledged \subseteq Versions
  BY DEF IntakeInv, Shaped, IntakeTypeOK

LEMMA ConsiderKeeps ==
  ASSUME IntakeInv, NEW rec \in alarm.due, Consider(rec)
  PROVE  IntakeInv'
<1>1. /\ rec \in InHand /\ rec \in Standing /\ rec \in Records
      /\ rec.version \in Versions /\ receipts[rec.version].outcome # "none"
  BY RecordInHand DEF InHand
<1>2. /\ alarm.step = "loop" /\ alarm' \in Alarms /\ alarm'.due = alarm.due \ {rec}
      /\ alarm'.step = IF IsCurrent(rec) THEN "admission" ELSE "loop"
      /\ alarm'.rec = IF IsCurrent(rec) THEN rec ELSE NoRecord
  BY <1>1 DEF Consider, IntakeInv, Shaped, Alarms, Steps
<1>3. UNCHANGED <<comment, queueVars, verified, acknowledged, retries>>
  BY DEF Consider, effectVars
<1>4. CASE ~IsCurrent(rec)
  <2>1. Finish(rec.version, "superseded", "newer_comment_version")
    BY <1>4 DEF Consider, FinishOvertaken
  <2>2. rec.version = Live => \E w \in verified : w # rec.version /\ At(w) = At(rec.version)
    BY <1>1, <1>4, OvertakenIsNotLive
  <2>3. "superseded" \in Outcomes \ {"none", "pending"} /\ "newer_comment_version" \in Details
    BY DEF Outcomes, Details, GivenUpDetails
  <2>4. QED
    BY <1>1, <1>2, <1>3, <1>4, <2>1, <2>2, <2>3, FinishKeeps, EffectTypes
<1>5. CASE IsCurrent(rec)
  <2>1. UNCHANGED <<receipts, intakes, watermark, deliveries, held, taken>>
    BY <1>3, <1>5 DEF Consider, storeVars, queueVars
  <2>2. UNCHANGED Live /\ \A u : UNCHANGED At(u)
    BY <1>3 DEF Live, At
  <2>3. alarm'.step = "admission" /\ alarm'.rec = rec /\ rec # NoRecord
    BY <1>1, <1>2, <1>5 DEF NoRecord, Records, Stages
  <2>4. Shaped'
    BY <1>1, <1>2, <1>3, <2>1, <2>2, <2>3 DEF IntakeInv, Shaped, IntakeTypeOK, Rec
  <2>5. SecondsGrow' /\ Receipted' /\ LiveCommandIsKept'
    BY <1>3, <2>1, <2>2 DEF IntakeInv, SecondsGrow, Receipted, LiveCommandIsKept, GivenUp
  <2>6. InHand' \subseteq InHand /\ Standing' \subseteq Standing
    BY <1>1, <1>2, <2>1, <2>3 DEF Standing, InHand, Rec
  <2>7. Handled'
    BY <1>3, <2>1, <2>2, <2>3, <2>6 DEF IntakeInv, Handled, Rec
  <2>8. \A u \in taken : At(u) <= At(rec.version)
    <3> TAKE u \in taken
    <3>1. u \in 1 .. watermark /\ watermark \in 1 .. Live
      BY <1>1, RecordInHand DEF IntakeInv, Taken
    <3>2. At(u) <= At(watermark)
      BY <3>1, IntakeTypes, SecondsCompare DEF IntakeInv
    <3>3. QED
      BY <1>5, <3>2 DEF IsCurrent
  <2>9. Taken'
    BY <1>3, <2>1, <2>2, <2>3, <2>6, <2>8 DEF IntakeInv, Taken, Forgotten, Outlived, Rec
  <2>10. QED
    BY <2>4, <2>5, <2>7, <2>9 DEF IntakeInv
<1>6. QED
  BY <1>4, <1>5

\* A step that ends with a failure, or with a refusal that is not about versions.
LEMMA FailureKeeps ==
  ASSUME IntakeInv, Continues, Spend, UNCHANGED <<comment, storeVars, queueVars, verified>>,
         acknowledged' \subseteq Versions
  PROVE  IntakeInv'
  BY DropsRecord, Spending, PutDownKeeps

LEMMA RefusalKeeps ==
  ASSUME IntakeInv, alarm.step \notin {"idle", "loop"}, Continues,
         NEW detail \in {"refused", "source_comment_missing"},
         Finish(Rec.version, "rejected", detail),
         UNCHANGED <<comment, queueVars, effectVars, retries>>
  PROVE  IntakeInv'
<1>1. Rec.version \in Versions /\ receipts[Rec.version].outcome # "none"
  BY RecordInHand
<1>2. /\ "rejected" \in Outcomes \ {"none", "pending"}
      /\ detail \in Details /\ detail \notin GivenUpDetails
  BY DEF Outcomes, Details, GivenUpDetails
<1>3. QED
  BY <1>1, <1>2, DropsRecord, EffectTypes, FinishKeeps DEF effectVars

LEMMA OvertakenKeeps ==
  ASSUME IntakeInv, alarm.step \notin {"idle", "loop"}, Continues, FinishOvertaken(Rec),
         Rec.version = Live => \E w \in verified : w # Live /\ At(w) = At(Live),
         UNCHANGED <<comment, queueVars, effectVars, retries>>
  PROVE  IntakeInv'
<1>1. Rec.version \in Versions /\ receipts[Rec.version].outcome # "none"
  BY RecordInHand
<1>2. "superseded" \in Outcomes \ {"none", "pending"} /\ "newer_comment_version" \in Details
  BY DEF Outcomes, Details, GivenUpDetails
<1>3. QED
  BY <1>1, <1>2, DropsRecord, EffectTypes, FinishKeeps DEF effectVars, FinishOvertaken

LEMMA AdmissionKeeps ==
  ASSUME IntakeInv, Admission
  PROVE  IntakeInv'
<1>1. /\ Rec \in InHand /\ Rec \in Standing /\ Rec \in Records
      /\ Rec.version \in Versions /\ receipts[Rec.version].outcome # "none"
      /\ alarm.step = "admission"
  BY RecordInHand DEF Admission
<1>2. UNCHANGED <<comment, queueVars, effectVars, verified, acknowledged>>
  BY DEF Admission, effectVars
<1>3. verified \subseteq 1 .. Live
  BY DEF IntakeInv, Taken
<1>4. Rec.version \in Forgotten => Rec.stage = "verify" /\ Outlived(Rec.version)
  BY <1>1 DEF IntakeInv, Taken
<1>5. CASE Rec.stage = "verify" /\ Reaches("comment", Rec) /\ UNCHANGED <<storeVars, retries>>
  <2>1. \A u \in taken : At(u) <= At(Rec.version)
    BY <1>1 DEF IntakeInv, Taken
  <2>2. "comment" \in Steps \ {"idle", "loop"}
    BY DEF Steps
  <2>3. QED
    BY <1>1, <1>2, <1>3, <1>4, <1>5, <2>1, <2>2, GoesOnKeeps DEF Reaches
<1>6. CASE IsCurrent(Rec) /\ Rec.stage # "verify" /\ Reaches(Rec.stage, Rec)
           /\ UNCHANGED <<storeVars, retries>>
  <2>1. Rec.stage \in {"enqueue", "effects"} /\ Rec.version = watermark
    BY <1>1, <1>6 DEF Records, Stages, IsCurrent
  <2>2. (\A u \in taken : u <= Rec.version) /\ Rec.version <= watermark
    BY <2>1, IntakeTypes DEF IntakeInv, Taken
  <2>3. Rec.stage \in Steps \ {"idle", "loop"}
    BY <2>1 DEF Steps
  <2>4. QED
    BY <1>1, <1>2, <1>3, <1>4, <1>6, <2>1, <2>2, <2>3, GoesOnKeeps DEF Reaches
<1>7. CASE ~IsCurrent(Rec) /\ Continues /\ FinishOvertaken(Rec) /\ UNCHANGED retries
  BY <1>1, <1>2, <1>7, OvertakenIsNotLive, OvertakenKeeps
<1>8. CASE Continues /\ Finish(Rec.version, "rejected", "refused") /\ UNCHANGED retries
  BY <1>1, <1>2, <1>8, RefusalKeeps
<1>9. CASE Continues /\ Spend /\ UNCHANGED storeVars
  BY <1>2, <1>9, FailureKeeps, EffectTypes
<1>10. QED
  BY <1>5, <1>6, <1>7, <1>8, <1>9 DEF Admission

\* What GitHub shows of a version hides every edit of its second before it.
LEMMA ShownIsLast ==
  ASSUME IntakeInv, NEW s \in Shown, NEW u \in 1 .. Live, At(u) = At(s)
  PROVE  u <= s
<1>1. s \in 1 .. Live /\ (s = Live \/ At(s) < At(s + 1))
  BY DEF Shown
<1>2. CASE s = Live
  BY <1>2, IntakeTypes
<1>3. CASE s # Live
  <2>1. s + 1 \in 1 .. Live /\ At(s) < At(s + 1)
    BY <1>1, <1>3, IntakeTypes
  <2>2. SUFFICES ASSUME u > s PROVE FALSE
    BY <1>1, IntakeTypes
  <2>3. At(s + 1) <= At(u) /\ At(s) \in Nat /\ At(s + 1) \in Nat
    BY <1>1, <2>1, <2>2, IntakeTypes, SecondsCompare DEF IntakeInv
  <2>4. QED
    BY <2>1, <2>3
<1>4. QED
  BY <1>2, <1>3

LEMMA ReadCommentKeeps ==
  ASSUME IntakeInv, ReadComment
  PROVE  IntakeInv'
<1>1. /\ Rec \in InHand /\ Rec \in Standing /\ Rec \in Records /\ Rec.stage = "verify"
      /\ Rec.version \in Versions /\ Rec.version \in 1 .. Live
      /\ receipts[Rec.version].outcome # "none" /\ alarm.step = "comment"
  BY RecordInHand DEF ReadComment, IntakeInv, Shaped
<1>2. UNCHANGED <<comment, queueVars, acknowledged>>
  BY DEF ReadComment
<1>3. CASE /\ Continues /\ Finish(Rec.version, "rejected", "source_comment_missing")
           /\ UNCHANGED <<retries, verified>>
  BY <1>1, <1>2, <1>3, RefusalKeeps DEF effectVars
<1>4. ASSUME NEW s \in Shown, s = Rec.version, Reaches("item", Rec),
             verified' = verified \cup {s}, UNCHANGED <<storeVars, retries>>
      PROVE  IntakeInv'
  <2>1. verified \subseteq verified' /\ verified' \subseteq 1 .. Live /\ Rec.version \in verified'
    BY <1>1, <1>4 DEF IntakeInv, Taken
  <2>2. ~Outlived(Rec.version)
    <3> SUFFICES ASSUME NEW w \in Rec.version + 1 .. Live, At(w) = At(s) PROVE FALSE
      BY <1>4 DEF Outlived
    <3>1. w \in 1 .. Live /\ w > s
      BY <1>1, <1>4, IntakeTypes
    <3>2. QED
      BY <1>1, <1>4, <3>1, ShownIsLast, IntakeTypes
  <2>3. Rec.version \notin Forgotten
    BY <1>1, <2>2 DEF IntakeInv, Taken
  <2>4. \A u \in taken : u <= Rec.version
    <3> SUFFICES ASSUME NEW u \in taken, ~(u <= Rec.version) PROVE FALSE
      OBVIOUS
    <3>1. u \in 1 .. Live /\ At(u) <= At(s)
      BY <1>1, <1>4, IntakeTypes DEF IntakeInv, Taken
    <3>2. At(s) <= At(u) /\ At(s) \in Nat /\ At(u) \in Nat
      BY <1>1, <1>4, <3>1, IntakeTypes, SecondsCompare DEF IntakeInv
    <3>3. QED
      BY <1>4, <3>1, <3>2, ShownIsLast
  <2>5. "item" \in Steps \ {"idle", "loop"}
    BY DEF Steps
  <2>6. QED
    BY <1>1, <1>2, <1>4, <2>1, <2>3, <2>4, <2>5, GoesOnKeeps DEF Reaches
<1>5. ASSUME NEW s \in Shown, s # Rec.version, At(s) >= At(Rec.version), Continues,
             Finish(Rec.version, "rejected", "source_comment_changed"),
             UNCHANGED <<retries, verified>>
      PROVE  IntakeInv'
  <2>1. Rec.version # Live
    <3> SUFFICES ASSUME Rec.version = Live PROVE FALSE
      OBVIOUS
    <3>1. s \in 1 .. Live
      BY DEF Shown
    <3>2. At(s) <= At(Live) /\ At(s) \in Nat /\ At(Live) \in Nat
      BY <1>1, <3>1, IntakeTypes, SecondsCompare DEF IntakeInv
    <3>3. At(Live) = At(s)
      BY <1>5, <3>2
    <3>4. QED
      BY <1>1, <1>5, <3>1, <3>3, ShownIsLast, IntakeTypes
  <2>2. "rejected" \in Outcomes \ {"none", "pending"} /\ "source_comment_changed" \in Details
    BY DEF Outcomes, Details, GivenUpDetails
  <2>3. QED
    BY <1>1, <1>2, <1>5, <2>1, <2>2, DropsRecord, EffectTypes, FinishKeeps
<1>6. CASE Continues /\ Spend /\ UNCHANGED <<storeVars, verified>>
  BY <1>2, <1>6, FailureKeeps, EffectTypes
<1>7. QED
  BY <1>3, <1>4, <1>5, <1>6 DEF ReadComment

LEMMA ReadItemKeeps ==
  ASSUME IntakeInv, ReadItem
  PROVE  IntakeInv'
<1> DEFINE v == Rec.version
<1>1. /\ Rec \in InHand /\ Rec \in Standing /\ Rec \in Records /\ Rec.stage = "verify"
      /\ v \in Versions /\ v \in 1 .. Live /\ alarm.step = "item"
      /\ watermark \in 1 .. Live /\ At(v) <= At(watermark)
      /\ At(v) \in Nat /\ At(watermark) \in Nat
      /\ receipts[v].outcome # "none"
  BY RecordInHand, IntakeTypes DEF ReadItem, IntakeInv, Shaped
<1>2. UNCHANGED <<comment, queueVars, effectVars, deliveries, held, taken, verified, acknowledged>>
  BY DEF ReadItem, queueVars, effectVars
<1>3. v \in verified /\ v \notin Forgotten /\ \A u \in taken : u <= v
  BY <1>1 DEF IntakeInv, Handled, Taken
<1>4. CASE OlderThanWatermark(v) /\ Continues /\ FinishOvertaken(Rec) /\ UNCHANGED retries
  <2>1. v # Live
    BY <1>1, <1>4, IntakeTypes, SecondsCompare DEF IntakeInv, OlderThanWatermark
  <2>2. QED
    BY <1>1, <1>2, <1>4, <2>1, OvertakenKeeps
<1>5. CASE /\ ~OlderThanWatermark(v) /\ MarkVerified(v) /\ UNCHANGED retries
           /\ Reaches("enqueue", [Rec EXCEPT !.stage = "enqueue"])
  <2> DEFINE rec == [Rec EXCEPT !.stage = "enqueue"]
  <2>1. rec \in Records /\ rec.version = v /\ rec.stage = "enqueue" /\ rec # NoRecord
    BY <1>1 DEF Records, Stages, NoRecord
  <2>2. /\ alarm' \in Alarms /\ alarm'.step = "enqueue" /\ alarm'.rec = rec
        /\ alarm'.due = alarm.due
    BY <1>5, <2>1 DEF IntakeInv, Shaped, Alarms, Reaches, Steps
  <2> HIDE DEF rec
  <2>3. watermark' = v /\ At(v) = At(watermark)
    BY <1>1, <1>5 DEF MarkVerified, OlderThanWatermark
  <2>4. \A u \in Versions :
          /\ receipts'[u] = IF u # v /\ receipts[u].outcome = "pending"
                            THEN Receipt("superseded", "verified_sibling_version") ELSE receipts[u]
          /\ intakes'[u] = IF u # v THEN "none"
                           ELSE IF intakes[u] = "none" THEN "none" ELSE "enqueue"
    BY <1>1, <1>5, IntakeTypes DEF MarkVerified, SupersededReceipts, IntakesWithout, Staged, Siblings
  <2>5. /\ receipts' \in [Versions -> [outcome: Outcomes, detail: Details]]
        /\ intakes' \in [Versions -> Stages \cup {"none"}]
    <3>1. Receipt("superseded", "verified_sibling_version") \in [outcome: Outcomes, detail: Details]
      BY ReceiptFields DEF Outcomes, Details, GivenUpDetails
    <3>2. receipts' \in [Versions -> [outcome: Outcomes, detail: Details]]
      BY <1>5, <3>1, IntakeTypes DEF MarkVerified, SupersededReceipts
    <3>3. intakes' = [u \in Versions |-> IF u # v THEN "none"
                                         ELSE IF intakes[u] = "none" THEN "none" ELSE "enqueue"]
      BY <1>1, <1>5, IntakeTypes DEF MarkVerified, IntakesWithout, Staged, Siblings
    <3>4. QED
      BY <3>2, <3>3 DEF Stages
  <2>6. UNCHANGED Live /\ \A u : UNCHANGED At(u)
    BY <1>2 DEF Live, At
  <2>7. Shaped'
    BY <1>1, <1>2, <1>5, <2>1, <2>2, <2>3, <2>5, <2>6 DEF IntakeInv, Shaped, IntakeTypeOK, Rec
  <2>8. SecondsGrow'
    BY <2>6 DEF IntakeInv, SecondsGrow
  <2>9. Receipted'
    <3> SUFFICES ASSUME NEW u \in Versions
                 PROVE  /\ receipts'[u].outcome = "pending" <=> intakes'[u] # "none"
                        /\ receipts'[u].outcome \in {"none", "pending"} => ~GivenUp(u)'
                        /\ receipts'[u].outcome # "none" =>
                             u <= Live /\ watermark' # 0 /\ At(u) <= At(watermark)
      BY <2>3, <2>6 DEF Receipted
    <3>1. /\ receipts[u].outcome = "pending" <=> intakes[u] # "none"
          /\ receipts[u].outcome \in {"none", "pending"} => ~GivenUp(u)
          /\ receipts[u].outcome # "none" => u <= Live /\ watermark # 0 /\ At(u) <= At(watermark)
      BY DEF IntakeInv, Receipted
    <3>2. QED
      BY <1>1, <2>3, <2>4, <3>1, ReceiptFields DEF GivenUp
  <2>10. \A r \in Standing' : r \in InHand \/ (r.version = v /\ r.stage = "enqueue")
    BY <1>1, <2>1, <2>2, <2>4 DEF Standing, InHand, Rec, Records, Stages
  <2>11. \A r \in InHand' : r \in InHand \/ (r.version = v /\ r.stage = "enqueue")
    BY <2>1, <2>2 DEF InHand, Rec
  <2>12. Handled'
    <3>1. \A r \in InHand' : receipts'[r.version].outcome # "none"
      BY <1>1, <2>4, <2>11, RecordInHand, ReceiptFields
    <3>2. \A r \in Standing' : r.stage = "effects" => r.version \in taken
      BY <2>10, RecordInHand DEF IntakeInv, Handled
    <3>3. watermark' \in verified
      BY <1>3, <2>3
    <3>4. QED
      BY <1>2, <2>2, <3>1, <3>2, <3>3 DEF Handled
  <2>13. Taken'
    <3>1. taken \subseteq 1 .. watermark'
      BY <1>1, <1>3, <2>3 DEF IntakeInv, Taken
    <3>2. \A r \in Standing' : r.version \in Forgotten => r.stage = "verify" /\ Outlived(r.version)
      BY <1>3, <2>10, RecordInHand DEF IntakeInv, Taken
    <3>3. UNCHANGED <<Forgotten>> /\ \A u : UNCHANGED Outlived(u)
      BY <1>2, <2>6 DEF Forgotten, Outlived
    <3>4. alarm'.rec.version <= watermark'
      BY <1>1, <2>1, <2>2, <2>3
    <3>5. QED
      BY <1>2, <1>3, <2>1, <2>2, <2>6, <3>1, <3>2, <3>3, <3>4 DEF IntakeInv, Taken, Rec
  <2>14. LiveCommandIsKept'
    <3>1. Live \in Versions /\ Live > 0
      BY <1>1, IntakeTypes
    <3>2. receipts[Live].outcome = "pending" => At(Live) = At(v)
      <4> SUFFICES ASSUME receipts[Live].outcome = "pending" PROVE At(Live) = At(v)
        OBVIOUS
      <4>1. At(Live) <= At(watermark)
        BY <3>1 DEF IntakeInv, Receipted
      <4>2. At(v) <= At(Live) /\ At(Live) \in Nat
        BY <1>1, <3>1, IntakeTypes, SecondsCompare DEF IntakeInv
      <4>3. QED
        BY <1>1, <2>3, <4>1, <4>2
    <3>3. CASE v # Live /\ receipts[Live].outcome = "pending"
      BY <1>2, <1>3, <2>6, <3>2, <3>3 DEF LiveCommandIsKept
    <3>4. CASE ~(v # Live /\ receipts[Live].outcome = "pending")
      BY <1>2, <2>4, <2>6, <3>1, <3>4 DEF IntakeInv, LiveCommandIsKept, GivenUp
    <3>5. QED
      BY <3>3, <3>4
  <2>15. QED
    BY <2>7, <2>8, <2>9, <2>12, <2>13, <2>14 DEF IntakeInv
<1>6. CASE Continues /\ Finish(v, "rejected", "refused") /\ UNCHANGED retries
  BY <1>1, <1>2, <1>6, RefusalKeeps
<1>7. CASE Continues /\ Spend /\ UNCHANGED storeVars
  BY <1>2, <1>7, FailureKeeps, EffectTypes
<1>8. QED
  BY <1>4, <1>5, <1>6, <1>7 DEF ReadItem

\* The queue takes a version only when it is newer than all it took.
LEMMA QueueTakes ==
  ASSUME IntakeInv, alarm.step = "enqueue", NEW answer, QueueEnqueues(answer)
  PROVE  /\ \/ UNCHANGED taken
            \/ taken' = taken \cup {Rec.version} /\ \A u \in taken : u < Rec.version
         /\ deliveries' \subseteq taken' /\ taken' \ deliveries' \subseteq Forgotten
         /\ taken' \subseteq 1 .. watermark /\ taken' \subseteq Versions
         /\ held' \in 0 .. Live
         /\ answer = "queued" => Rec.version \in taken'
         /\ answer \in {"queued", "stale"}
<1> DEFINE v == Rec.version
<1>1. /\ v \in Versions /\ v \in 1 .. Live /\ v \in 1 .. watermark
      /\ watermark \in 1 .. Live /\ v \notin Forgotten /\ \A u \in taken : u <= v
  BY RecordInHand DEF IntakeInv, Taken
<1>2. /\ taken \subseteq 1 .. watermark /\ deliveries \subseteq taken /\ taken \subseteq Versions
      /\ held \in 0 .. Live
  BY IntakeTypes DEF IntakeInv, Shaped, IntakeTypeOK, Taken
<1>3. CASE v \in deliveries /\ answer = "queued" /\ UNCHANGED queueVars
  BY <1>2, <1>3 DEF queueVars, Forgotten
<1>4. CASE /\ v \notin deliveries /\ answer = "queued"
           /\ deliveries' = deliveries \cup {v} /\ taken' = taken \cup {v}
           /\ held' \in {v} \cup ({held} \ {0})
  <2>1. v \notin taken
    BY <1>1, <1>4 DEF Forgotten
  <2>2. \A u \in taken : u < v
    BY <1>1, <1>2, <2>1
  <2>3. held' \in 0 .. Live
    BY <1>1, <1>2, <1>4
  <2>4. QED
    BY <1>1, <1>2, <1>4, <2>2, <2>3 DEF Forgotten
<1>5. CASE answer = "stale" /\ UNCHANGED queueVars
  BY <1>2, <1>5 DEF queueVars, Forgotten
<1>6. QED
  BY <1>3, <1>4, <1>5 DEF QueueEnqueues

\* The transaction of the queue and the alarm's next place.
LEMMA AnswerKeeps ==
  ASSUME IntakeInv, alarm.step = "enqueue", NEW answer, QueueEnqueues(answer),
         UNCHANGED <<comment, storeVars, effectVars>>, retries' \in 0 .. MaxRetries,
         Reaches(answer, Rec) \/ Continues
  PROVE  IntakeInv'
<1>1. /\ Rec \in InHand /\ Rec \in Standing /\ Rec \in Records /\ Rec.stage = "enqueue"
      /\ Rec # NoRecord /\ receipts[Rec.version].outcome # "none"
  BY RecordInHand DEF IntakeInv, Shaped, NoRecord, Records, Stages
<1>2. UNCHANGED <<comment, receipts, intakes, watermark, acknowledged, verified>>
  BY DEF storeVars, effectVars
<1>3. UNCHANGED Live /\ \A u : UNCHANGED At(u)
  BY <1>2 DEF Live, At
<1>4. /\ alarm' \in Alarms /\ alarm'.due = alarm.due
      /\ \/ alarm'.rec = Rec /\ alarm'.step \in {"queued", "stale"} /\ alarm'.step = answer
         \/ alarm'.rec = NoRecord /\ alarm'.step = "loop"
  BY <1>1, QueueTakes DEF IntakeInv, Shaped, Alarms, Reaches, Continues, Steps
<1>5. Shaped'
  <2>1. IntakeTypeOK'
    <3>1. deliveries' \subseteq Versions /\ taken' \subseteq Versions /\ held' \in 0 .. Live
      BY QueueTakes
    <3>2. alarm'.due \subseteq Records /\ alarm'.rec \in Records \cup {NoRecord}
      BY <1>4 DEF Alarms
    <3>3. QED
      BY <1>2, <1>3, <3>1, <3>2 DEF IntakeInv, Shaped, IntakeTypeOK
  <2>2. QED
    BY <1>1, <1>4, <2>1 DEF Shaped, Rec
<1>6. SecondsGrow' /\ Receipted' /\ LiveCommandIsKept'
  BY <1>2, <1>3 DEF IntakeInv, SecondsGrow, Receipted, LiveCommandIsKept, GivenUp
<1>7. InHand' \subseteq InHand /\ Standing' \subseteq Standing
  BY <1>1, <1>2, <1>4 DEF Standing, InHand, Rec
<1>8. taken \subseteq taken' /\ (answer = "queued" => Rec.version \in taken')
  BY QueueTakes
<1>9. Handled'
  BY <1>2, <1>3, <1>4, <1>7, <1>8 DEF IntakeInv, Handled, Rec
<1>10. Forgotten' \subseteq Forgotten
  BY QueueTakes DEF Forgotten
<1>11. Taken'
  BY <1>2, <1>3, <1>4, <1>7, <1>10, QueueTakes DEF IntakeInv, Taken, Outlived
<1>12. QED
  BY <1>5, <1>6, <1>9, <1>11 DEF IntakeInv

LEMMA EnqueueKeeps ==
  ASSUME IntakeInv, Enqueue
  PROVE  IntakeInv'
<1>1. /\ alarm.step = "enqueue" /\ Rec \in Standing /\ Rec.stage = "enqueue"
      /\ receipts[Rec.version].outcome # "none"
  BY RecordInHand DEF Enqueue, IntakeInv, Shaped
<1>2. UNCHANGED <<comment, effectVars, verified, acknowledged>>
  BY DEF Enqueue, effectVars
<1>3. ASSUME NEW answer \in {"queued", "stale"}, QueueEnqueues(answer), Reaches(answer, Rec),
             UNCHANGED <<storeVars, retries>>
      PROVE  IntakeInv'
  BY <1>1, <1>2, <1>3, EffectTypes, AnswerKeeps
<1>4. CASE Spend /\ Rec.version \notin deliveries /\ Reaches("stale", Rec)
           /\ UNCHANGED <<storeVars, queueVars>>
  <2>1. UNCHANGED <<receipts, intakes, watermark, deliveries, held, taken>>
    BY <1>4 DEF storeVars, queueVars
  <2>2. UNCHANGED Live /\ \A u : UNCHANGED At(u)
    BY <1>2 DEF Live, At
  <2>3. /\ alarm' \in Alarms /\ alarm'.due = alarm.due /\ alarm'.rec = Rec
        /\ alarm'.step = "stale" /\ Rec # NoRecord
    BY <1>1, <1>4, RecordInHand DEF IntakeInv, Shaped, Alarms, Reaches, Steps, NoRecord, Records, Stages
  <2>4. retries' \in 0 .. MaxRetries
    BY <1>4, Spending
  <2>5. Shaped'
    BY <1>1, <1>2, <2>1, <2>2, <2>3, <2>4 DEF IntakeInv, Shaped, IntakeTypeOK, Rec
  <2>6. SecondsGrow' /\ Receipted' /\ LiveCommandIsKept'
    BY <1>2, <2>1, <2>2 DEF IntakeInv, SecondsGrow, Receipted, LiveCommandIsKept, GivenUp
  <2>7. InHand' \subseteq InHand /\ Standing' \subseteq Standing
    BY <2>1, <2>3 DEF Standing, InHand, Rec
  <2>8. Handled'
    BY <1>2, <2>1, <2>2, <2>3, <2>7 DEF IntakeInv, Handled
  <2>9. Taken'
    BY <1>2, <2>1, <2>2, <2>3, <2>7 DEF IntakeInv, Taken, Outlived, Forgotten
  <2>10. QED
    BY <2>5, <2>6, <2>8, <2>9 DEF IntakeInv
<1>5. CASE /\ Continues /\ Finish(Rec.version, "rejected", "refused")
           /\ UNCHANGED <<queueVars, retries>>
  BY <1>1, <1>2, <1>5, RefusalKeeps
<1>6. CASE Continues /\ Spend /\ UNCHANGED <<storeVars, queueVars>>
  BY <1>2, <1>6, FailureKeeps, EffectTypes
<1>7. CASE Continues /\ Spend /\ QueueEnqueues("queued") /\ UNCHANGED storeVars
  BY <1>1, <1>2, <1>7, Spending, AnswerKeeps
<1>8. QED
  BY <1>3, <1>4, <1>5, <1>6, <1>7 DEF Enqueue

\* The alarm moves the intake of its record to another stage, if it still waits.
LEMMA StagedKeeps ==
  ASSUME IntakeInv, NEW stage \in {"verify", "effects"}, intakes' = Staged(Rec.version, stage),
         alarm.step \in {"queued", "stale"},
         stage = "effects" => IsCurrent([Rec EXCEPT !.stage = "effects"]) /\ Rec.version \in taken,
         UNCHANGED <<comment, receipts, watermark, queueVars, effectVars, retries>>,
         alarm' \in Alarms, alarm'.due = alarm.due,
         \/ alarm'.step = "loop" /\ alarm'.rec = NoRecord
         \/ /\ alarm'.step = "effects" /\ alarm'.rec = [Rec EXCEPT !.stage = "effects"]
            /\ stage = "effects"
  PROVE  IntakeInv'
<1> DEFINE v == Rec.version
<1>1. /\ Rec \in InHand /\ Rec \in Standing /\ Rec \in Records /\ Rec.stage = "enqueue"
      /\ v \in Versions /\ receipts[v].outcome # "none"
  BY RecordInHand DEF IntakeInv, Shaped
<1>2. UNCHANGED <<deliveries, held, taken, acknowledged, verified, Live>> /\ \A u : UNCHANGED At(u)
  BY DEF queueVars, effectVars, Live, At
<1>3. v \notin Forgotten
  BY <1>1 DEF IntakeInv, Taken
<1>4. \/ alarm'.step = "loop" /\ alarm'.rec = NoRecord
      \/ /\ alarm'.step = "effects" /\ alarm'.rec \in Records /\ alarm'.rec # NoRecord
         /\ alarm'.rec.version = v /\ alarm'.rec.stage = "effects" /\ stage = "effects"
  BY <1>1 DEF Records, Stages, NoRecord
<1>5. \A u \in Versions : intakes'[u] = IF u = v /\ intakes[v] # "none" THEN stage ELSE intakes[u]
  BY <1>1, IntakeTypes DEF Staged
<1>6. intakes' \in [Versions -> Stages \cup {"none"}]
  BY <1>1, IntakeTypes DEF Staged, Stages
<1>7. Shaped'
  <2>1. IntakeTypeOK'
    BY <1>2, <1>6 DEF IntakeInv, Shaped, IntakeTypeOK, Alarms
  <2>2. QED
    BY <1>4, <2>1 DEF Shaped, Rec
<1>8. SecondsGrow' /\ LiveCommandIsKept'
  BY <1>2 DEF IntakeInv, SecondsGrow, LiveCommandIsKept, GivenUp
<1>9. Receipted'
  BY <1>1, <1>2, <1>5 DEF IntakeInv, Receipted, GivenUp
<1>10. \A r \in InHand' : r \in InHand \/ (r.version = v /\ r.stage = stage)
  <2>1. \A r \in InHand' : r \in alarm.due \/ (r = alarm'.rec /\ r # NoRecord)
    BY DEF InHand, Rec
  <2>2. QED
    BY <1>4, <2>1 DEF InHand
<1>11. \A r \in Standing' : r \in Standing \/ (r.version = v /\ r.stage = stage)
  BY <1>1, <1>5, <1>10 DEF Standing, Records
<1>12. Handled'
  <2>1. \A r \in InHand' : receipts'[r.version].outcome # "none"
    BY <1>1, <1>10 DEF IntakeInv, Handled
  <2>2. At(v) = At(watermark) => watermark \in verified
    BY <1>1 DEF IntakeInv, Handled
  <2>3. QED
    BY <1>2, <1>11, <2>1, <2>2 DEF IntakeInv, Handled
<1>13. Taken'
  BY <1>2, <1>3, <1>11 DEF IntakeInv, Taken, Forgotten, Outlived
<1>14. QED
  BY <1>7, <1>8, <1>9, <1>12, <1>13 DEF IntakeInv

LEMMA TakeUpKeeps ==
  ASSUME IntakeInv, TakeUp
  PROVE  IntakeInv'
<1> DEFINE effects == [Rec EXCEPT !.stage = "effects"]
<1>1. /\ Rec \in InHand /\ Rec \in Standing /\ Rec \in Records /\ Rec.stage = "enqueue"
      /\ alarm.step = "queued" /\ Rec.version \in taken /\ Rec.version \notin Forgotten
  BY RecordInHand DEF IntakeInv, Shaped, TakeUp, Handled, Taken
<1>2. UNCHANGED <<comment, queueVars, effectVars, retries>>
  BY DEF TakeUp
<1>3. effects \in Records /\ effects.version = Rec.version /\ effects.stage = "effects"
  BY <1>1 DEF Records, Stages
<1>4. CASE /\ IsCurrent(effects) /\ intakes' = Staged(Rec.version, "effects")
           /\ Reaches("effects", effects) /\ UNCHANGED <<receipts, watermark>>
  <2>1. /\ alarm' \in Alarms /\ alarm'.due = alarm.due /\ alarm'.step = "effects"
        /\ alarm'.rec = effects
    BY <1>3, <1>4 DEF IntakeInv, Shaped, Alarms, Reaches, Steps
  <2>2. QED
    BY <1>1, <1>2, <1>4, <2>1, StagedKeeps
<1>5. CASE ~IsCurrent(effects) /\ FinishOvertaken(Rec) /\ Continues
  <2> HIDE DEF effects
  <2>1. Rec.version = Live => \E w \in verified : w # Live /\ At(w) = At(Live)
    BY <1>1, <1>3, <1>5, OvertakenIsNotLive
  <2>2. QED
    BY <1>1, <1>2, <1>5, <2>1, OvertakenKeeps
<1>6. QED
  BY <1>4, <1>5 DEF TakeUp

LEMMA VerifyAgainKeeps ==
  ASSUME IntakeInv, VerifyAgain
  PROVE  IntakeInv'
  BY DropsRecord, StagedKeeps DEF VerifyAgain

LEMMA EffectsKeeps ==
  ASSUME IntakeInv, Effects
  PROVE  IntakeInv'
<1>1. /\ Rec \in InHand /\ Rec.version \in Versions /\ receipts[Rec.version].outcome # "none"
  BY RecordInHand DEF Effects
<1>2. /\ UNCHANGED <<comment, queueVars, verified>> /\ Continues
      /\ acknowledged' \subseteq Versions
  BY <1>1, EffectTypes DEF Effects
<1>3. CASE Finish(Rec.version, "completed", "") /\ UNCHANGED retries
  <2>1. /\ "completed" \in Outcomes \ {"none", "pending"}
        /\ "" \in Details /\ "" \notin GivenUpDetails
    BY DEF Outcomes, Details, GivenUpDetails
  <2>2. QED
    BY <1>1, <1>2, <1>3, <2>1, DropsRecord, EffectTypes, FinishKeeps
<1>4. CASE Spend /\ UNCHANGED storeVars
  BY <1>2, <1>4, FailureKeeps
<1>5. QED
  BY <1>3, <1>4 DEF Effects

LEMMA SleepKeeps ==
  ASSUME IntakeInv, Sleep
  PROVE  IntakeInv'
<1>1. PICK old \in SUBSET {v \in Versions : receipts[v].outcome \notin {"none", "pending"}} :
        receipts' = [v \in Versions |-> IF v \in old THEN NoReceipt ELSE receipts[v]]
  BY DEF Sleep
<1>2. PICK gone \in SUBSET {v \in deliveries : receipts[v].outcome # "pending"} :
        deliveries' = deliveries \ gone
  BY DEF Sleep
<1>3. /\ alarm.step = "loop" /\ alarm.due = {} /\ alarm' = Idle
      /\ UNCHANGED <<comment, intakes, watermark, held, taken, acknowledged, verified, retries>>
  BY DEF Sleep, effectVars
<1>4. /\ alarm' \in Alarms /\ alarm'.step = "idle" /\ alarm'.due = {} /\ alarm'.rec = NoRecord
  BY <1>3 DEF Idle, Alarms, Steps
<1>5. UNCHANGED Live /\ \A u : UNCHANGED At(u)
  BY <1>3 DEF Live, At
<1>6. receipts' \in [Versions -> [outcome: Outcomes, detail: Details]]
  BY <1>1, IntakeTypes, PendingFields
<1>7. Shaped'
  BY <1>2, <1>3, <1>4, <1>5, <1>6 DEF IntakeInv, Shaped, IntakeTypeOK, Rec
<1>8. SecondsGrow'
  BY <1>5 DEF IntakeInv, SecondsGrow
<1>9. \A v \in Versions :
        /\ v \in old => receipts[v].outcome # "pending"
        /\ receipts'[v] = IF v \in old THEN NoReceipt ELSE receipts[v]
  BY <1>1
<1>10. Receipted'
  BY <1>3, <1>5, <1>9, PendingFields DEF IntakeInv, Receipted, GivenUp
<1>11. InHand' = {} /\ Standing' \subseteq Standing
  BY <1>3, <1>4 DEF InHand, Standing, Rec
<1>12. Handled'
  BY <1>3, <1>4, <1>5, <1>11 DEF IntakeInv, Handled
<1>13. \A rec \in Standing' : receipts[rec.version].outcome = "pending"
  BY <1>3, <1>11 DEF IntakeInv, Receipted, Standing, Records, Stages
<1>14. \A v \in Forgotten' : v \in Forgotten \/ receipts[v].outcome # "pending"
  BY <1>2, <1>3 DEF Forgotten
<1>15. Taken'
  BY <1>2, <1>3, <1>4, <1>5, <1>11, <1>13, <1>14 DEF IntakeInv, Taken, Outlived
<1>16. LiveCommandIsKept'
  <2>1. Live > 0 => Live \in Versions
    BY IntakeTypes
  <2>2. QED
    BY <1>3, <1>5, <1>9, <2>1, PendingFields DEF IntakeInv, LiveCommandIsKept, GivenUp
<1>17. QED
  BY <1>7, <1>8, <1>10, <1>12, <1>15, <1>16 DEF IntakeInv

LEMMA RestartKeeps ==
  ASSUME IntakeInv, Restart
  PROVE  IntakeInv'
<1>1. alarm' \in Alarms /\ alarm'.step = "idle" /\ alarm'.due = {} /\ alarm'.rec = NoRecord
  BY DEF Restart, Idle, Alarms, Steps
<1>2. retries' \in 0 .. MaxRetries
  BY Spending DEF Restart
<1>3. QED
  BY <1>1, <1>2, PutDownKeeps, EffectTypes DEF Restart, effectVars

LEMMA EditKeeps ==
  ASSUME IntakeInv, NEW at \in NextEdits, Edit(at)
  PROVE  IntakeInv'
<1>1. /\ comment.at \in Seq(Nat) /\ Live \in Nat /\ Live < MaxEdits /\ MaxEdits \in Nat
      /\ \A u \in 1 .. Live : At(u) \in Nat
  BY IntakeTypes, IntakeAssumption DEF Edit, IntakeAssumption
<1>2. at \in Nat /\ (Live > 0 => At(Live) <= at)
  BY <1>1 DEF NextEdits
<1>3. comment'.at = Append(comment.at, at) /\ comment'.gone = comment.gone
  BY DEF Edit, IntakeInv, Shaped, IntakeTypeOK
<1>4. UNCHANGED <<receipts, intakes, watermark, deliveries, held, taken, alarm, acknowledged,
                  verified, retries>>
  BY DEF Edit, storeVars, queueVars, effectVars
<1>5. /\ comment'.at \in Seq(Nat) /\ Live' = Live + 1
      /\ \A u \in 1 .. Live : At(u)' = At(u)
      /\ comment'.at[Live + 1] = at
  <2> DEFINE s == comment.at
  <2>1. s \in Seq(Nat) /\ at \in Nat
    BY <1>1, <1>2
  <2>2. /\ Append(s, at) \in Seq(Nat) /\ Len(Append(s, at)) = Len(s) + 1
        /\ \A u \in 1 .. Len(s) : Append(s, at)[u] = s[u]
        /\ Append(s, at)[Len(s) + 1] = at
    <3> HIDE DEF s
    <3>1. QED
      BY <2>1
  <2>3. QED
    BY <1>3, <2>2 DEF Live, At
<1>6. IntakeTypeOK'
  <2>1. comment'.gone \in BOOLEAN
    BY <1>3 DEF IntakeInv, Shaped, IntakeTypeOK
  <2>2. watermark \in 0 .. Live' /\ held \in 0 .. Live' /\ Live' <= MaxEdits
    BY <1>1, <1>5, IntakeTypes
  <2>3. QED
    BY <1>4, <1>5, <2>1, <2>2 DEF IntakeInv, Shaped, IntakeTypeOK, Rec
<1>7. Shaped'
  BY <1>4, <1>6 DEF IntakeInv, Shaped, Rec
<1>8. SecondsGrow'
  <2> SUFFICES ASSUME NEW i \in 1 .. Live + 1, NEW j \in 1 .. Live + 1, i <= j
               PROVE  At(i)' <= At(j)'
    BY <1>5 DEF SecondsGrow
  <2>1. CASE j \in 1 .. Live
    <3>1. i \in 1 .. Live
      BY <1>1, <2>1
    <3>2. At(i) <= At(j)
      BY <2>1, <3>1 DEF IntakeInv, SecondsGrow
    <3>3. At(i)' = At(i) /\ At(j)' = At(j)
      BY <1>5, <2>1, <3>1
    <3>4. QED
      BY <3>2, <3>3
  <2>2. CASE j = Live + 1 /\ i \in 1 .. Live
    <3>1. At(i) <= At(Live) /\ At(i) \in Nat /\ At(Live) \in Nat /\ Live > 0
      BY <1>1, <2>2, IntakeTypes, SecondsCompare DEF IntakeInv
    <3>2. At(j)' = at /\ At(i)' = At(i)
      BY <1>5, <2>2 DEF At
    <3>3. QED
      BY <1>2, <3>1, <3>2
  <2>3. CASE j = Live + 1 /\ i = Live + 1
    BY <1>2, <1>5, <2>3 DEF At
  <2>4. QED
    BY <1>1, <2>1, <2>2, <2>3
<1>9. \A u \in Versions : receipts[u].outcome # "none" =>
        /\ u \in 1 .. Live /\ watermark \in 1 .. Live
        /\ At(u)' = At(u) /\ At(watermark)' = At(watermark)
  BY <1>1, <1>4, <1>5, IntakeTypes DEF IntakeInv, Receipted, Versions
<1>10. Receipted'
  BY <1>1, <1>4, <1>5, <1>9 DEF IntakeInv, Receipted, GivenUp
<1>11. InHand' = InHand /\ Standing' = Standing
  BY <1>4 DEF InHand, Standing, Rec
<1>12. \A rec \in Standing :
         rec.version \in Versions /\ receipts[rec.version].outcome # "none"
  BY RecordInHand DEF IntakeInv, Receipted, Standing, Records, Stages
<1>13. Handled'
  BY <1>4, <1>9, <1>11, <1>12 DEF IntakeInv, Handled, Rec
<1>14. Taken'
  <2>1. \A v \in Versions : v <= Live /\ Outlived(v) => Outlived(v)'
    BY <1>1, <1>5 DEF Outlived, Versions
  <2>2. \A rec \in Standing : Outlived(rec.version) => Outlived(rec.version)'
    BY <1>9, <1>12, <2>1
  <2>3. verified \subseteq 1 .. Live'
    BY <1>1, <1>5 DEF IntakeInv, Taken
  <2>4. ASSUME alarm.step \in {"admission", "comment"}, NEW u \in taken
        PROVE  At(u)' <= At(Rec.version)'
    <3>1. At(u) <= At(Rec.version) /\ Rec \in InHand
      BY <2>4, RecordInHand DEF IntakeInv, Taken
    <3>2. Rec.version \in 1 .. Live /\ u \in 1 .. Live
      BY <3>1, RecordInHand, IntakeTypes DEF IntakeInv, Taken
    <3>3. Rec' = Rec /\ At(u)' = At(u) /\ \A w \in 1 .. Live : comment'.at[w] = comment.at[w]
      BY <1>4, <1>5, <3>2 DEF Rec, At
    <3>4. QED
      BY <3>1, <3>2, <3>3 DEF At
  <2>5. QED
    BY <1>4, <1>11, <2>2, <2>3, <2>4 DEF IntakeInv, Taken, Forgotten, Rec
<1>15. LiveCommandIsKept'
  <2>1. Live + 1 \in Versions
    BY <1>1 DEF Versions
  <2>2. receipts[Live + 1].outcome = "none"
    BY <1>1, <1>9, <2>1
  <2>3. ~GivenUp(Live + 1)
    BY <2>1, <2>2 DEF IntakeInv, Receipted
  <2>4. QED
    BY <1>4, <1>5, <2>3 DEF LiveCommandIsKept, GivenUp
<1>16. QED
  BY <1>7, <1>8, <1>10, <1>13, <1>14, <1>15 DEF IntakeInv

LEMMA DeleteCommentKeeps ==
  ASSUME IntakeInv, DeleteComment
  PROVE  IntakeInv'
<1>1. comment'.at = comment.at /\ comment'.gone = TRUE
  BY DEF DeleteComment, IntakeInv, Shaped, IntakeTypeOK
<1>2. UNCHANGED <<receipts, intakes, watermark, deliveries, held, taken, alarm, acknowledged,
                  verified, retries>>
  BY DEF DeleteComment, storeVars, queueVars, effectVars
<1>3. UNCHANGED Live /\ \A u : UNCHANGED At(u)
  BY <1>1 DEF Live, At
<1>4. Shaped' /\ SecondsGrow'
  BY <1>1, <1>2, <1>3 DEF IntakeInv, Shaped, IntakeTypeOK, SecondsGrow, Rec
<1>5. Receipted' /\ LiveCommandIsKept'
  BY <1>2, <1>3 DEF IntakeInv, Receipted, LiveCommandIsKept, GivenUp
<1>6. InHand' = InHand /\ Standing' = Standing
  BY <1>2 DEF InHand, Standing, Rec
<1>7. Handled' /\ Taken'
  BY <1>2, <1>3, <1>6 DEF IntakeInv, Handled, Taken, Forgotten, Outlived, Rec
<1>8. QED
  BY <1>4, <1>5, <1>7 DEF IntakeInv

\* What the item holds matters to nothing but its type.
LEMMA ItemMovesKeeps ==
  ASSUME IntakeInv, ItemMoves
  PROVE  IntakeInv'
<1>1. UNCHANGED <<comment, receipts, intakes, watermark, deliveries, taken, alarm, acknowledged,
                  verified, retries>>
  BY DEF ItemMoves, storeVars, effectVars
<1>2. held' \in 0 .. Live
  BY IntakeTypes DEF ItemMoves, IntakeInv, Taken
<1>3. Shaped'
  BY <1>1, <1>2 DEF IntakeInv, Shaped, IntakeTypeOK, Rec, Live
<1>4. SecondsGrow' /\ Receipted' /\ Handled' /\ Taken' /\ LiveCommandIsKept'
  BY <1>1 DEF IntakeInv, SecondsGrow, Receipted, Handled, Taken, LiveCommandIsKept, GivenUp,
     Live, At, Standing, InHand, Rec, Forgotten, Outlived
<1>5. QED
  BY <1>3, <1>4 DEF IntakeInv

LEMMA IntakeStutters ==
  ASSUME IntakeInv, UNCHANGED intakeVars
  PROVE  IntakeInv'
  BY SMTT(30) DEF IntakeInv, Shaped, IntakeTypeOK, SecondsGrow, Receipted, Handled, Taken,
     LiveCommandIsKept, GivenUp, Live, At, Standing, InHand, Rec, Forgotten, Outlived,
     intakeVars, storeVars, queueVars, effectVars

LEMMA IntakeStep ==
  ASSUME IntakeInv, [IntakeNext]_intakeVars
  PROVE  IntakeInv'
<1>1. ASSUME AlarmStep PROVE IntakeInv'
  BY <1>1, ConsiderKeeps, AdmissionKeeps, ReadCommentKeeps, ReadItemKeeps, EnqueueKeeps,
     TakeUpKeeps, VerifyAgainKeeps, EffectsKeeps, SleepKeeps DEF AlarmStep
<1>2. ASSUME NEW vs \in SUBSET Versions, Wake(vs) PROVE IntakeInv'
  BY <1>2, WakeKeeps
<1>3. ASSUME NEW v \in Versions, Admit(v) PROVE IntakeInv'
  BY <1>3, AdmitKeeps
<1>4. ASSUME NEW at \in NextEdits, Edit(at) PROVE IntakeInv'
  BY <1>4, EditKeeps
<1>5. QED
  BY <1>1, <1>2, <1>3, <1>4, DeleteCommentKeeps, ItemMovesKeeps, RestartKeeps, IntakeStutters
     DEF IntakeNext

LEMMA IntakeInvariant == IntakeSpec => []IntakeInv
<1>1. IntakeInit => IntakeInv
  BY IntakeStarts, IntakeAssumption
<1>2. IntakeInv /\ [IntakeNext]_intakeVars => IntakeInv'
  BY IntakeStep
<1>3. QED
  BY <1>1, <1>2, PTL DEF IntakeSpec

\* Every step takes a version, acknowledges one, or leaves the inbox alone.
LEMMA IntakeServesInbox ==
  ASSUME IntakeInv, [IntakeNext]_intakeVars
  PROVE  [Inbox!InboxNext]_(Inbox!inboxVars)
<1> USE DEF Inbox!inboxVars
<1>1. ASSUME NEW answer, alarm.step = "enqueue", QueueEnqueues(answer), UNCHANGED effectVars
      PROVE  [Inbox!InboxNext]_(Inbox!inboxVars)
  <2>1. Rec.version \in Versions
    BY <1>1, RecordInHand
  <2>2. UNCHANGED taken \/ Inbox!Take(Rec.version)
    BY <1>1, QueueTakes DEF Inbox!Take, effectVars
  <2>3. QED
    BY <1>1, <2>1, <2>2 DEF Inbox!InboxNext, effectVars
<1>2. CASE Enqueue
  BY <1>1, <1>2 DEF Enqueue, queueVars, effectVars
<1>3. CASE Effects
  <2>1. Rec.version \in Versions /\ Rec.version \in taken
    BY <1>3, RecordInHand DEF Effects, IntakeInv, Shaped, Handled
  <2>2. UNCHANGED acknowledged \/ Inbox!Acknowledge(Rec.version)
    BY <1>3, <2>1 DEF Effects, queueVars, Inbox!Acknowledge
  <2>3. QED
    BY <1>3, <2>1, <2>2 DEF Effects, queueVars, Inbox!InboxNext
<1>4. CASE ~Enqueue /\ ~Effects
  <2>1. UNCHANGED <<taken, acknowledged>>
    BY <1>4 DEF IntakeNext, AlarmStep, Wake, Admit, Edit, DeleteComment, ItemMoves, Restart,
       Consider, Admission, ReadComment, ReadItem, TakeUp, VerifyAgain, Sleep,
       queueVars, effectVars, intakeVars
  <2>2. QED
    BY <2>1
<1>5. QED
  BY <1>2, <1>3, <1>4

-----------------------------------------------------------------------------
(* Command intake: theorems.                                                   *)

\* Receipts, intakes, watermark and the alarm's locals keep the shape that the
\* tables of exact-review-command-intake.ts and the alarm's types give them.
THEOREM IntakeTypeCorrect == IntakeSpec => []IntakeTypeOK
<1>1. IntakeInv => IntakeTypeOK
  BY DEF IntakeInv, Shaped
<1>2. QED
  BY <1>1, IntakeInvariant, PTL

\* However edits, redeliveries, prunings and restarts interleave with the alarm's
\* answers, the version of the comment that is live is never given up for another
\* one, but for an edit of the same second that GitHub showed as live itself.
THEOREM LiveCommandKept == IntakeSpec => []LiveCommandIsKept
<1>1. IntakeInv => LiveCommandIsKept
  BY DEF IntakeInv
<1>2. QED
  BY <1>1, IntakeInvariant, PTL

\* Intake implements the inbox: the queue takes each version of a comment at most
\* once and never an older one after a newer, although delivery receipts expire
\* and commands come again, and only what it took is acknowledged on GitHub.
THEOREM IntakeRefinesInbox == IntakeSpec => ImplementsInbox
<1>1. IntakeInit => Inbox!InboxInit
  BY DEF IntakeInit, Inbox!InboxInit
<1>2. IntakeInv /\ [IntakeNext]_intakeVars => [Inbox!InboxNext]_(Inbox!inboxVars)
  BY IntakeServesInbox
<1>3. QED
  BY <1>1, <1>2, IntakeInvariant, PTL DEF IntakeSpec, ImplementsInbox, Inbox!InboxSpec

-----------------------------------------------------------------------------
(* Publication control.                                                        *)

\* A report whose receipt is missing has not lowered the ceiling.
ControlInv ==
  /\ ControlTypeOK /\ ReportedOnce
  /\ \A r \in Reports : r \notin control.receipts => lowered[r] = 0

\* The limits of a deployment lie in their order.
LEMMA LimitsInOrder ==
  ASSUME NEW e \in Environments
  PROVE  /\ Maximum(e) \in Nat /\ Minimum(e) \in Nat /\ Base(e) \in Nat
         /\ 1 <= Minimum(e) /\ Minimum(e) <= Base(e) /\ Base(e) <= Maximum(e)
<1>1. e.min \in Nat /\ e.base \in Nat /\ e.max \in Nat /\ QueueCapacity \in Nat \ {0}
  BY ControlAssumption DEF ControlAssumption
<1>2. QED
  BY <1>1 DEF Maximum, Minimum, Base, Clamp, Least, Greatest

LEMMA ControlNumbers ==
  /\ Step \in Nat \ {0} /\ RecoverySuccesses \in Nat \ {0}
  /\ RateLimitCooldown \in Nat \ {0} /\ TransientCooldown \in Nat \ {0}
  /\ LongestSpan \in Nat \ {0}
  BY ControlAssumption DEF ControlAssumption, LongestSpan, Greatest

\* The demand's tier is a number, whatever the backlog.
LEMMA TierIsNumber ==
  ASSUME NEW e \in Environments, NEW s \in Samples
  PROVE  Desired(e, s) \in Nat /\ DesiredTier(e, s) \in Nat
<1>1. ScaleSteps(s) \in Nat
  <2> DEFINE all == {[backlog |-> 100, age |-> 2 * HalfHour],
                     [backlog |-> 250, age |-> 8 * HalfHour],
                     [backlog |-> 400, age |-> 16 * HalfHour]}
             reached == {threshold \in all :
                           \/ s.backlog >= threshold.backlog
                           \/ s.age >= threshold.age
                           \/ threshold.backlog = 100 /\ s.backlog >= 50 /\ s.drain <= 0}
  <2>1. IsFiniteSet(all)
    <3> DEFINE a == [backlog |-> 100, age |-> 2 * HalfHour]
               b == [backlog |-> 250, age |-> 8 * HalfHour]
               c == [backlog |-> 400, age |-> 16 * HalfHour]
    <3> HIDE DEF a, b, c
    <3>1. IsFiniteSet({} \cup {a}) /\ IsFiniteSet({})
      BY FS_EmptySet, FS_AddElement
    <3>2. IsFiniteSet(({} \cup {a}) \cup {b})
      BY <3>1, FS_AddElement
    <3>3. IsFiniteSet((({} \cup {a}) \cup {b}) \cup {c})
      BY <3>2, FS_AddElement
    <3>4. (({} \cup {a}) \cup {b}) \cup {c} = {a, b, c}
      OBVIOUS
    <3>5. IsFiniteSet({a, b, c})
      BY <3>3, <3>4
    <3>6. QED
      BY <3>5 DEF a, b, c
  <2>2. reached \subseteq all
    OBVIOUS
  <2> HIDE DEF all
  <2>3. Cardinality(reached) \in Nat
    <3> HIDE DEF reached
    <3>1. QED
      BY <2>1, <2>2, FS_Subset, FS_CardinalityType
  <2>4. QED
    BY <2>3 DEF ScaleSteps, all
<1>2. ScaleSteps(s) * Step \in Nat
  BY <1>1, ControlNumbers
<1>3. Desired(e, s) \in Nat /\ Desired(e, s) >= Base(e)
  <2> DEFINE raise == ScaleSteps(s) * Step
  <2>1. Desired(e, s) = Least(Maximum(e), Base(e) + raise) /\ raise \in Nat
    BY <1>2 DEF Desired
  <2> HIDE DEF raise
  <2>2. QED
    BY <2>1, LimitsInOrder DEF Least
<1>4. DesiredTier(e, s) \in Nat
  <2> DEFINE above == Desired(e, s) - Base(e) + Step - 1
  <2>1. above \in Nat /\ Step \in Nat \ {0}
    BY <1>3, ControlNumbers, LimitsInOrder
  <2> HIDE DEF above
  <2>2. above \div Step \in Nat
    BY <2>1
  <2>3. QED
    BY <2>2 DEF DesiredTier, above
<1>5. QED
  BY <1>3, <1>4

\* A stored document stays one when a deployment's limits are applied to it.
LEMMA SanitisedIsControl ==
  ASSUME NEW e \in Environments, NEW c \in Control
  PROVE  /\ Sanitised(e, c) \in Control
         /\ Sanitised(e, c).receipts = c.receipts
         /\ Sanitised(e, c).ceiling >= 1
<1>1. c.ceiling \in Nat /\ c.demand \in Nat
  BY DEF Control
<1>2. /\ Clamp(Minimum(e), Maximum(e), c.ceiling) \in Nat \ {0}
      /\ Clamp(Minimum(e), Maximum(e), c.demand) \in Nat
      /\ Base(e) \in Nat
  BY <1>1, LimitsInOrder DEF Clamp, Greatest, Least
<1> DEFINE ceiling == Clamp(Minimum(e), Maximum(e), c.ceiling)
           demand == IF c.ceiling > Maximum(e) /\ c.demand > Maximum(e) THEN Base(e)
                     ELSE Clamp(Minimum(e), Maximum(e), c.demand)
<1>3. ceiling \in Nat \ {0} /\ demand \in Nat
  BY <1>2
<1>4. Sanitised(e, c) = [c EXCEPT !.ceiling = ceiling, !.demand = demand]
  BY DEF Sanitised
<1> HIDE DEF ceiling, demand
<1> DEFINE d == [c EXCEPT !.ceiling = ceiling, !.demand = demand]
<1>5. d \in Control
  BY <1>3 DEF Control
<1>6. d.receipts = c.receipts /\ d.ceiling = ceiling
  BY DEF Control
<1>7. QED
  BY <1>3, <1>4, <1>5, <1>6

LEMMA DemandIsControl ==
  ASSUME NEW e \in Environments, NEW s \in Samples, NEW c \in Control
  PROVE  AfterDemand(c, e, s) \in Control /\ AfterDemand(c, e, s).receipts = c.receipts
<1> DEFINE n == Sampled(c, e, s)
<1>1. n \in Control /\ n.receipts = c.receipts
  <2>1. DesiredTier(e, s) \in Nat
    BY TierIsNumber
  <2> DEFINE samples == IF c.tier = DesiredTier(e, s) THEN Least(6, c.samples + 1) ELSE 1
  <2>2. samples \in 0..6
    BY DEF Control, Least
  <2> DEFINE fresh == 0
             d == [c EXCEPT !.samples = samples, !.tier = DesiredTier(e, s), !.sinceSample = fresh]
  <2>3. n = d /\ fresh \in 0..1
    BY DEF Sampled
  <2> HIDE DEF samples, n, fresh
  <2>4. d \in Control /\ d.receipts = c.receipts
    BY <2>1, <2>2, <2>3 DEF Control
  <2>5. QED
    BY <2>3, <2>4
<1>2. ASSUME NEW demand \in Nat
      PROVE  Scaled(n, demand) \in Control /\ Scaled(n, demand).receipts = c.receipts
  <2> HIDE DEF n
  <2>1. 0 \in 0..6 /\ 0 \in 0..LongestSpan
    BY ControlNumbers
  <2>2. QED
    BY <1>1, <2>1 DEF Scaled, Control
<1>3. /\ Least(Desired(e, s), c.demand + Step) \in Nat
      /\ Greatest(Base(e), c.demand - Step) \in Nat
  BY TierIsNumber, LimitsInOrder, ControlNumbers DEF Control, Least, Greatest
<1>4. AfterDemand(c, e, s) \in {c, n, Scaled(n, Least(Desired(e, s), c.demand + Step)),
                                Scaled(n, Greatest(Base(e), c.demand - Step))}
  BY DEF AfterDemand
<1> HIDE DEF n
<1>5. QED
  BY <1>1, <1>2, <1>3, <1>4

LEMMA FailureIsControl ==
  ASSUME NEW e \in Environments, NEW c \in Control, NEW capacity \in Nat,
         NEW kind \in {"github_rate_limit", "github_transient"},
         NEW late \in 0..RateLimitCooldown
  PROVE  /\ AfterFailure(c, e, kind, capacity, late) \in Control
         /\ AfterFailure(c, e, kind, capacity, late).receipts = c.receipts
<1> DEFINE current == Greatest(Minimum(e), Least(c.ceiling, capacity))
           reduced == IF kind = "github_rate_limit" THEN current \div 2 ELSE current - Step
           span == IF kind = "github_rate_limit" THEN RateLimitCooldown ELSE TransientCooldown
<1>1. current \in Nat
  BY LimitsInOrder DEF Control, Greatest, Least
<1> HIDE DEF current
<1>2. reduced \in Int
  BY <1>1, ControlNumbers
<1> HIDE DEF reduced
<1>3. Greatest(Minimum(e), reduced) \in Nat
  BY <1>2, LimitsInOrder DEF Greatest
<1>4. Greatest(c.cooldown, span - late) \in 0..Greatest(RateLimitCooldown, TransientCooldown)
  BY ControlNumbers DEF Control, Greatest
<1> HIDE DEF span
<1>5. AfterFailure(c, e, kind, capacity, late) =
        [c EXCEPT !.ceiling = Greatest(Minimum(e), reduced),
                  !.cooldown = Greatest(c.cooldown, span - late), !.successes = 0]
  BY DEF AfterFailure, current, reduced, span
<1>6. 0 \in 0..RecoverySuccesses - 1
  BY ControlNumbers
<1>7. QED
  BY <1>3, <1>4, <1>5, <1>6 DEF Control

LEMMA SuccessIsControl ==
  ASSUME NEW e \in Environments, NEW c \in Control
  PROVE  AfterSuccess(c, e) \in Control /\ AfterSuccess(c, e).receipts = c.receipts
<1>1. Least(Maximum(e), c.ceiling + Step) \in Nat /\ 0 \in 0..RecoverySuccesses - 1
  BY LimitsInOrder, ControlNumbers DEF Control, Least
<1>2. c.successes + 1 < RecoverySuccesses => c.successes + 1 \in 0..RecoverySuccesses - 1
  BY ControlNumbers DEF Control
<1>3. QED
  BY <1>1, <1>2 DEF AfterSuccess, Control

LEMMA ControlStep ==
  ASSUME ControlInv, [ControlNext]_controlVars
  PROVE  ControlInv'
<1> DEFINE c == Sanitised(env, control)
<1>1. /\ env \in Environments /\ sample \in Samples /\ control \in Control /\ clean \in BOOLEAN
      /\ lowered \in [Reports -> 0..2]
      /\ c \in Control /\ c.receipts = control.receipts
  BY SanitisedIsControl DEF ControlInv, ControlTypeOK
<1> HIDE DEF c
<1>2. ASSUME control' \in Control, control'.receipts = control.receipts,
             env' \in Environments, sample' \in Samples, clean' \in BOOLEAN, UNCHANGED lowered
      PROVE  ControlInv'
  BY <1>2 DEF ControlInv, ControlTypeOK, ReportedOnce
<1>3. CASE Refresh
  BY <1>1, <1>2, <1>3, DemandIsControl DEF Refresh, c
<1>4. CASE CleanPublication
  BY <1>1, <1>2, <1>4, SuccessIsControl DEF CleanPublication, c
<1>5. ASSUME NEW kind \in {"github_rate_limit", "github_transient"}, NEW budget \in Budgets,
             FailedPublication(kind, budget)
      PROVE  ControlInv'
  <2>1. AdmittedCapacity(c, budget) \in Nat /\ 0 \in 0..RateLimitCooldown
    BY <1>1, ControlAssumption, ControlNumbers DEF ControlAssumption, AdmittedCapacity, Control, Least
  <2>2. QED
    BY <1>1, <1>2, <1>5, <2>1, FailureIsControl DEF FailedPublication, c
<1>6. ASSUME NEW r \in Reports, NEW late \in 0..RateLimitCooldown, BatchTelemetry(r, late)
      PROVE  ControlInv'
  <2>1. CASE Reported(c, r)
    BY <1>1, <1>2, <1>6, <2>1 DEF BatchTelemetry, c
  <2>2. CASE ~Reported(c, r)
    <3> DEFINE after == AfterFailure(c, env, "github_rate_limit", c.ceiling, late)
    <3>1. c.ceiling \in Nat
      BY <1>1 DEF Control
    <3>2. after \in Control /\ after.receipts = c.receipts
      BY <1>1, <3>1, FailureIsControl
    <3>3. /\ control' = [after EXCEPT !.receipts = after.receipts \cup {r}]
          /\ lowered' = [lowered EXCEPT ![r] = Least(2, lowered[r] + 1)]
          /\ UNCHANGED <<env, sample, clean>>
      BY <1>6, <2>2 DEF BatchTelemetry, c
    <3> HIDE DEF after
    <3>4. control' \in Control /\ control'.receipts = control.receipts \cup {r}
      BY <1>1, <3>2, <3>3 DEF Control
    <3>5. lowered[r] = 0
      BY <1>1, <2>2 DEF Reported, ControlInv
    <3>6. lowered'[r] = 1 /\ \A q \in Reports \ {r} : lowered'[q] = lowered[q]
      BY <1>1, <3>3, <3>5 DEF Least
    <3>7. lowered' \in [Reports -> 0..2]
      BY <1>1, <3>3, <3>5 DEF Least
    <3>8. QED
      BY <1>1, <3>3, <3>4, <3>6, <3>7 DEF ControlInv, ControlTypeOK, ReportedOnce
  <2>3. QED
    BY <2>1, <2>2
<1>7. ASSUME NEW e \in Environments, Deploy(e) PROVE ControlInv'
  BY <1>1, <1>2, <1>7 DEF Deploy
<1>8. ASSUME NEW s \in Samples, BacklogChanges(s) PROVE ControlInv'
  BY <1>1, <1>2, <1>8 DEF BacklogChanges
<1>9. CASE ControlTick
  <2>1. control' \in Control /\ control'.receipts = control.receipts
    <3>1. /\ Greatest(0, control.cooldown - 1) \in 0..Greatest(RateLimitCooldown, TransientCooldown)
          /\ Least(LongestSpan, control.sinceScale + 1) \in 0..LongestSpan
      BY <1>1, ControlNumbers DEF Control, Greatest, Least
    <3> DEFINE old == 1
               d == [control EXCEPT !.cooldown = Greatest(0, control.cooldown - 1),
                                    !.sinceSample = old,
                                    !.sinceScale = Least(LongestSpan, control.sinceScale + 1)]
    <3>2. control' = d /\ old \in 0..1
      BY <1>9 DEF ControlTick
    <3> HIDE DEF old
    <3>3. d \in Control /\ d.receipts = control.receipts
      BY <1>1, <3>1, <3>2 DEF Control
    <3>4. QED
      BY <3>2, <3>3
  <2>2. QED
    BY <1>1, <1>2, <1>9, <2>1 DEF ControlTick
<1>10. CASE UNCHANGED controlVars
  BY <1>1, <1>2, <1>10 DEF controlVars
<1>11. QED
  BY <1>3, <1>4, <1>5, <1>6, <1>7, <1>8, <1>9, <1>10 DEF ControlNext, Failure

LEMMA ControlInvariant == ControlSpec => []ControlInv
<1>1. ControlInit => ControlInv
  <2> SUFFICES ASSUME ControlInit PROVE ControlInv
    OBVIOUS
  <2>1. control \in Control /\ control.receipts = {}
    BY LimitsInOrder, ControlNumbers DEF ControlInit, NewControl, Control, Greatest
  <2>2. lowered \in [Reports -> 0..2] /\ \A r \in Reports : lowered[r] = 0
    BY DEF ControlInit
  <2>3. ControlTypeOK
    BY <2>1, <2>2 DEF ControlInit, ControlTypeOK
  <2>4. QED
    BY <2>2, <2>3 DEF ControlInv, ReportedOnce
<1>2. ControlInv /\ [ControlNext]_controlVars => ControlInv'
  BY ControlStep
<1>3. QED
  BY <1>1, <1>2, PTL DEF ControlSpec

\* Whatever limits a deployment brings, the stored document stays in its ranges,
\* from the ceiling's arithmetic to the counters of sanitizePublicationControl.
THEOREM ControlTypeCorrect == ControlSpec => []ControlTypeOK
<1>1. ControlInv => ControlTypeOK
  BY DEF ControlInv
<1>2. QED
  BY <1>1, ControlInvariant, PTL

\* A batch's telemetry lowers the ceiling once, however often it is delivered.
THEOREM ReportsCountOnce == ControlSpec => []ReportedOnce
<1>1. ControlInv => ReportedOnce
  BY DEF ControlInv
<1>2. QED
  BY <1>1, ControlInvariant, PTL

=============================================================================
