----------------------- MODULE PublicationBatchesProofs -----------------------
(***************************************************************************)
(* Proofs about the batch store, for any sets of batch ids, items and      *)
(* owners, any lease and retention times and any bound on generations.     *)
(*                                                                         *)
(* Every operation first reclaims, so the proofs do the same: what holds   *)
(* of the rows holds of the reclaimed rows, and each operation is then     *)
(* compared with those.                                                    *)
(***************************************************************************)
EXTENDS PublicationBatches, TLAPS

-----------------------------------------------------------------------------
(* The invariant.                                                          *)

\* OneOwner and LeasedWhileUnfinished of any rows.
OneOwnerIn(ms) == \A m, n \in ms : Open(m) /\ Open(n) /\ m.item = n.item => m = n

LeasesMatch(bt, ms) == \A b \in BatchIds : Leased(bt, b) <=> StillOpen(ms, b)

Sound(bt, ms) ==
  /\ bt \in [BatchIds -> Batch]
  /\ ms \subseteq Membership
  /\ OneOwnerIn(ms)
  /\ LeasesMatch(bt, ms)

\* The counter of an item is never behind a fence that was given out.
FencesCounted == \A f \in granted : f.generation <= generations[f.item]

IInv == BatchTypeOK /\ Sound(batches, memberships) /\ FencesCounted /\ FencesAreUnique

-----------------------------------------------------------------------------
(* Reclaiming.                                                             *)

\* A membership with another outcome is the same membership otherwise.
LEMMA OutcomeUpdate ==
  ASSUME NEW m \in Membership, NEW oc \in Outcomes
  PROVE  LET n == [m EXCEPT !.outcome = oc]
         IN n \in Membership /\ ~Open(n) /\ n.batch = m.batch /\ n.item = m.item
  BY DEF Membership, Open, Outcomes, Unfinished

\* What was settled, and what is unfinished in a batch that is not overdue, stays;
\* everything that is open afterwards was open before.
LEMMA ReclaimedMembers ==
  ASSUME BatchTypeOK
  PROVE  /\ ReclaimedMemberships \subseteq Membership
         /\ \A m \in ReclaimedMemberships : Open(m) => m \in memberships /\ ~Overdue(m.batch)
         /\ \A m \in memberships :
              ~Open(m) \/ ~Overdue(m.batch) => m \in ReclaimedMemberships
<1> DEFINE R(m) == IF Open(m) /\ Overdue(m.batch) THEN [m EXCEPT !.outcome = "lease_expired"]
                                                  ELSE m
<1>1. ReclaimedMemberships = {R(m) : m \in memberships}
  BY DEF ReclaimedMemberships
<1>2. \A m \in memberships : R(m) \in Membership /\ (Open(R(m)) => R(m) = m /\ ~Overdue(m.batch))
  <2> TAKE m \in memberships
  <2>1. m \in Membership
    BY DEF BatchTypeOK
  <2>2. "lease_expired" \in Outcomes
    BY DEF Outcomes
  <2>3. QED
    BY <2>1, <2>2, OutcomeUpdate
<1>3. \A m \in memberships : ~Open(m) \/ ~Overdue(m.batch) => R(m) = m
  OBVIOUS
<1> HIDE DEF R
<1>4. QED
  BY <1>1, <1>2, <1>3

\* Only an overdue lease ends; an owner is never changed.
LEMMA ReclaimedRows ==
  ASSUME BatchTypeOK
  PROVE  /\ ReclaimedBatches \in [BatchIds -> Batch]
         /\ \A b \in BatchIds :
              /\ ReclaimedBatches[b].owner = batches[b].owner
              /\ Leased(ReclaimedBatches, b) <=> Leased(batches, b) /\ ~Overdue(b)
              /\ Leased(ReclaimedBatches, b) => ReclaimedBatches[b] = batches[b]
<1> SUFFICES ASSUME NEW b \in BatchIds
             PROVE  /\ ReclaimedBatches[b] \in Batch
                    /\ ReclaimedBatches[b].owner = batches[b].owner
                    /\ Leased(ReclaimedBatches, b) <=> Leased(batches, b) /\ ~Overdue(b)
                    /\ Leased(ReclaimedBatches, b) => ReclaimedBatches[b] = batches[b]
  BY DEF ReclaimedBatches
<1>1. batches[b] \in Batch
  BY DEF BatchTypeOK
<1>2. ReclaimedBatches[b] = IF Overdue(b) THEN [batches[b] EXCEPT !.state = "expired"]
                                          ELSE batches[b]
  BY DEF ReclaimedBatches
<1>3. CASE Overdue(b)
  <2>1. ReclaimedBatches[b] = [batches[b] EXCEPT !.state = "expired"]
    BY <1>2, <1>3
  <2>2. ReclaimedBatches[b].state = "expired" /\ ReclaimedBatches[b] \in Batch
    BY <1>1, <2>1 DEF Batch
  <2>3. ReclaimedBatches[b].owner = batches[b].owner
    BY <1>1, <2>1 DEF Batch
  <2>4. QED
    BY <1>3, <2>2, <2>3 DEF Leased
<1>4. CASE ~Overdue(b)
  BY <1>1, <1>2, <1>4 DEF Leased
<1>5. QED
  BY <1>3, <1>4

LEMMA ReclaimIsSound ==
  ASSUME BatchTypeOK, Sound(batches, memberships)
  PROVE  Sound(ReclaimedBatches, ReclaimedMemberships)
<1>1. ReclaimedBatches \in [BatchIds -> Batch] /\ ReclaimedMemberships \subseteq Membership
  BY ReclaimedRows, ReclaimedMembers
<1>2. OneOwnerIn(ReclaimedMemberships)
  BY ReclaimedMembers DEF Sound, OneOwnerIn
<1>3. ASSUME NEW b \in BatchIds
      PROVE  Leased(ReclaimedBatches, b) <=> StillOpen(ReclaimedMemberships, b)
  <2>1. Leased(batches, b) <=> \E m \in memberships : m.batch = b /\ Open(m)
    BY DEF Sound, LeasesMatch, StillOpen, MembersOf
  <2>2. Leased(ReclaimedBatches, b) <=> Leased(batches, b) /\ ~Overdue(b)
    BY ReclaimedRows
  <2>3. (\E m \in ReclaimedMemberships : m.batch = b /\ Open(m))
          <=> (\E m \in memberships : m.batch = b /\ Open(m)) /\ ~Overdue(b)
    BY ReclaimedMembers
  <2>4. QED
    BY <2>1, <2>2, <2>3 DEF StillOpen, MembersOf
<1>4. QED
  BY <1>1, <1>2, <1>3 DEF Sound, LeasesMatch

-----------------------------------------------------------------------------
(* The operations, from the reclaimed rows.                                *)

\* A candidate that is free has a generation that no fence of its item has.
LEMMA NewMemberType ==
  ASSUME IInv, NEW b \in BatchIds, NEW o \in Owners, NEW candidates \in SUBSET Candidate,
         Claim(b, o, candidates), NEW c \in Free(candidates)
  PROVE  /\ c \in candidates /\ c.item \in Keys
         /\ c.item \notin OwnedItems(ReclaimedMemberships)
         /\ NewMember(b, c) \in Membership
         /\ NewFence(b, o, c) \in Fence
         /\ \A f \in granted : f.item = c.item => f.generation < NextGeneration(c.item)
<1>1. c \in candidates /\ c.item \in Keys /\ c.revision \in Revisions
      /\ c.item \notin OwnedItems(ReclaimedMemberships)
  BY DEF Free, Candidate
<1>2. generations[c.item] \in 0..MaxGeneration /\ generations[c.item] < MaxGeneration
  BY <1>1 DEF IInv, BatchTypeOK, Claim
<1>3. NextGeneration(c.item) \in 1..MaxGeneration
      /\ NextGeneration(c.item) = generations[c.item] + 1
  BY <1>2, BatchAssumption DEF NextGeneration
<1>4. NewMember(b, c) \in Membership /\ NewFence(b, o, c) \in Fence
  BY <1>1, <1>3 DEF NewMember, NewFence, Membership, Fence
<1>5. ASSUME NEW f \in granted, f.item = c.item
      PROVE  f.generation < NextGeneration(c.item)
  <2>1. f.generation \in 1..MaxGeneration /\ f.generation <= generations[c.item]
    BY <1>5 DEF IInv, BatchTypeOK, FencesCounted, Fence
  <2>2. QED
    BY <1>2, <1>3, <2>1
<1>6. QED
  BY <1>1, <1>4, <1>5

LEMMA ClaimIsSound ==
  ASSUME IInv, NEW b \in BatchIds, NEW o \in Owners, NEW candidates \in SUBSET Candidate,
         Claim(b, o, candidates)
  PROVE  Sound(batches, memberships)'
<1> DEFINE new == {NewMember(b, c) : c \in Free(candidates)}
<1>1. Sound(ReclaimedBatches, ReclaimedMemberships)
  BY ReclaimIsSound DEF IInv
<1>2. memberships' = ReclaimedMemberships \cup new
  BY DEF Claim
<1>3. \A m \in new : m \in Membership /\ Open(m) /\ m.batch = b
                     /\ m.item \notin OwnedItems(ReclaimedMemberships)
  BY NewMemberType DEF NewMember, Open
<1>4. \A m, n \in new : m.item = n.item => m = n
  <2>1. \A c, d \in Free(candidates) : c.item = d.item => c = d
    BY DEF Claim, Free
  <2>2. QED
    BY <2>1 DEF NewMember
<1>5. memberships' \subseteq Membership
  BY <1>1, <1>2, <1>3 DEF Sound
<1>6. OneOwnerIn(memberships')
  BY <1>1, <1>2, <1>3, <1>4 DEF Sound, OneOwnerIn, OwnedItems
<1>7. batches' \in [BatchIds -> Batch]
  <2>1. [state |-> "leased", owner |-> o, expiresIn |-> LeaseTicks, terminalFor |-> 0] \in Batch
    BY BatchAssumption DEF Batch
  <2>2. QED
    BY <1>1, <2>1 DEF Sound, Claim
<1>8. ASSUME NEW d \in BatchIds
      PROVE  Leased(batches', d) <=> StillOpen(memberships', d)
  <2>1. Leased(ReclaimedBatches, d) <=> \E m \in ReclaimedMemberships : m.batch = d /\ Open(m)
    BY <1>1 DEF Sound, LeasesMatch, StillOpen, MembersOf
  <2>2. (\E m \in memberships' : m.batch = d /\ Open(m))
          <=> Leased(ReclaimedBatches, d) \/ (d = b /\ new # {})
    BY <1>2, <1>3, <2>1
  <2>3. Leased(batches', d) <=> Leased(ReclaimedBatches, d) \/ (d = b /\ new # {})
    <3>1. new = {} <=> Free(candidates) = {}
      OBVIOUS
    <3>2. CASE Free(candidates) = {}
      BY <3>1, <3>2 DEF Claim
    <3>3. CASE Free(candidates) # {} /\ d # b
      BY <1>1, <3>3 DEF Sound, Leased, Claim
    <3>4. CASE Free(candidates) # {} /\ d = b
      <4>1. batches'[d] = [state |-> "leased", owner |-> o,
                           expiresIn |-> LeaseTicks, terminalFor |-> 0]
        BY <1>1, <3>4 DEF Sound, Claim
      <4>2. QED
        BY <3>1, <3>4, <4>1 DEF Leased
    <3>5. QED
      BY <3>2, <3>3, <3>4
  <2>4. QED
    BY <2>2, <2>3 DEF StillOpen, MembersOf
<1>9. QED
  BY <1>5, <1>6, <1>7, <1>8 DEF Sound, LeasesMatch

\* A completion touches only unfinished memberships of a leased batch of the
\* caller, and leaves the batch leased only if one of them is left.
LEMMA CompleteResult ==
  ASSUME BatchTypeOK, NEW b \in BatchIds, NEW o \in Owners,
         NEW completions, \A f \in completions : f.outcome \in Outcomes,
         Complete(b, o, completions)
  PROVE  /\ memberships' \subseteq Membership
         /\ \A m \in memberships' : Open(m) => m \in ReclaimedMemberships
         /\ \A m \in ReclaimedMemberships :
              \/ m \in memberships'
              \/ /\ Open(m) /\ m.batch = b
                 /\ Leased(ReclaimedBatches, b) /\ batches[b].owner = o
         /\ batches' = IF /\ Leased(ReclaimedBatches, b) /\ batches[b].owner = o
                          /\ ~StillOpen(memberships', b)
                       THEN [ReclaimedBatches EXCEPT ![b].state = "completed",
                                                     ![b].terminalFor = 0]
                       ELSE ReclaimedBatches
<1> DEFINE settled(m) == {f \in completions : m \in Settles(b, o, f)}
           After(m) == IF settled(m) = {} THEN m
                       ELSE [m EXCEPT !.outcome = (CHOOSE f \in settled(m) : TRUE).outcome]
<1>1. memberships' = {After(m) : m \in ReclaimedMemberships}
  BY DEF Complete
<1>2. ASSUME NEW m \in ReclaimedMemberships, settled(m) # {}
      PROVE  /\ After(m) \in Membership /\ ~Open(After(m))
             /\ Open(m) /\ m.batch = b
             /\ Leased(ReclaimedBatches, b) /\ batches[b].owner = o
  <2>1. PICK f \in settled(m) : f = CHOOSE g \in settled(m) : TRUE
    BY <1>2
  <2>2. f.outcome \in Outcomes
    BY <2>1
  <2>3. After(m) = [m EXCEPT !.outcome = f.outcome]
    BY <1>2, <2>1, <2>2
  <2>4. m \in Membership
    BY ReclaimedMembers
  <2>5. After(m) \in Membership /\ ~Open(After(m))
    BY <2>2, <2>3, <2>4, OutcomeUpdate
  <2>6. m \in Settles(b, o, f)
    BY <2>1
  <2>7. QED
    BY <2>5, <2>6 DEF Settles, MembersOf
<1>3. \A m \in ReclaimedMemberships : settled(m) = {} => After(m) = m
  OBVIOUS
<1>4. ReclaimedMemberships \subseteq Membership
  BY ReclaimedMembers
<1>5. batches' = IF /\ Leased(ReclaimedBatches, b) /\ batches[b].owner = o
                    /\ ~StillOpen(memberships', b)
                 THEN [ReclaimedBatches EXCEPT ![b].state = "completed", ![b].terminalFor = 0]
                 ELSE ReclaimedBatches
  BY DEF Complete
<1> HIDE DEF After, settled
<1>6. QED
  BY <1>1, <1>2, <1>3, <1>4, <1>5

LEMMA CompleteIsSound ==
  ASSUME BatchTypeOK, Sound(batches, memberships), NEW b \in BatchIds, NEW o \in Owners,
         NEW completions, \A f \in completions : f.outcome \in Outcomes,
         Complete(b, o, completions)
  PROVE  Sound(batches, memberships)'
<1> DEFINE Ends == /\ Leased(ReclaimedBatches, b) /\ batches[b].owner = o
                   /\ ~StillOpen(memberships', b)
<1>1. Sound(ReclaimedBatches, ReclaimedMemberships)
  BY ReclaimIsSound
<1>2. OneOwnerIn(memberships') /\ memberships' \subseteq Membership
  BY <1>1, CompleteResult DEF Sound, OneOwnerIn
<1>3. /\ batches' = IF Ends THEN [ReclaimedBatches EXCEPT ![b].state = "completed",
                                                         ![b].terminalFor = 0]
                    ELSE ReclaimedBatches
  BY CompleteResult
<1>4. \A d \in BatchIds : StillOpen(memberships', d) => StillOpen(ReclaimedMemberships, d)
  BY CompleteResult DEF StillOpen, MembersOf
<1>5. \A d \in BatchIds :
        StillOpen(ReclaimedMemberships, d) =>
          \/ StillOpen(memberships', d)
          \/ d = b /\ Leased(ReclaimedBatches, b) /\ batches[b].owner = o
  BY CompleteResult DEF StillOpen, MembersOf
<1>6. \A d \in BatchIds : Leased(ReclaimedBatches, d) <=> StillOpen(ReclaimedMemberships, d)
  BY <1>1 DEF Sound, LeasesMatch
<1>7. CASE Ends
  <2>1. ReclaimedBatches[b] \in Batch
    BY <1>1 DEF Sound
  <2>2. [ReclaimedBatches[b] EXCEPT !.state = "completed", !.terminalFor = 0] \in Batch
    <3> DEFINE r1 == [ReclaimedBatches[b] EXCEPT !.state = "completed"]
    <3>1. r1 \in Batch
      BY <2>1 DEF Batch
    <3>2. [r1 EXCEPT !.terminalFor = 0] \in Batch
      <4> HIDE DEF r1
      <4> QED
        BY <3>1, BatchAssumption DEF Batch
    <3>3. QED
      BY <3>2
  <2>3. [ReclaimedBatches[b] EXCEPT !.state = "completed", !.terminalFor = 0].state = "completed"
    BY <2>1 DEF Batch
  <2>4. batches' \in [BatchIds -> Batch]
    BY <1>1, <1>3, <1>7, <2>2 DEF Sound
  <2>5. \A d \in BatchIds : Leased(batches', d) <=> Leased(ReclaimedBatches, d) /\ d # b
    BY <1>1, <1>3, <1>7, <2>3 DEF Sound, Leased
  <2>6. QED
    BY <1>2, <1>4, <1>5, <1>6, <1>7, <2>4, <2>5 DEF Sound, LeasesMatch
<1>8. CASE ~Ends
  BY <1>1, <1>2, <1>3, <1>4, <1>5, <1>6, <1>8 DEF Sound, LeasesMatch
<1>9. QED
  BY <1>7, <1>8

LEMMA HeartbeatIsSound ==
  ASSUME BatchTypeOK, Sound(batches, memberships), NEW b \in BatchIds, NEW o \in Owners,
         NEW fences, NEW ticks \in 1..LeaseTicks, Heartbeat(b, o, fences, ticks)
  PROVE  Sound(batches, memberships)'
<1>1. Sound(ReclaimedBatches, ReclaimedMemberships)
  BY ReclaimIsSound
<1>2. ReclaimedBatches[b] \in Batch /\ ticks \in 0..LeaseTicks
  BY <1>1, BatchAssumption DEF Sound
<1> DEFINE row == [ReclaimedBatches[b] EXCEPT !.expiresIn = IF ticks > @ THEN ticks ELSE @]
<1>3. row \in Batch /\ row.state = ReclaimedBatches[b].state
  BY <1>2 DEF Batch
<1>4. batches' = [ReclaimedBatches EXCEPT ![b] = row] /\ memberships' = ReclaimedMemberships
  BY DEF Heartbeat
<1>5. batches' \in [BatchIds -> Batch]
  BY <1>1, <1>3, <1>4 DEF Sound
<1>6. \A d \in BatchIds : Leased(batches', d) <=> Leased(ReclaimedBatches, d)
  BY <1>1, <1>3, <1>4 DEF Sound, Leased
<1>7. QED
  BY <1>1, <1>4, <1>5, <1>6 DEF Sound, LeasesMatch, OneOwnerIn

LEMMA StatsIsSound ==
  ASSUME BatchTypeOK, Sound(batches, memberships), NEW cleanup \in SUBSET DueForCleanup,
         Stats(cleanup)
  PROVE  Sound(batches, memberships)'
<1>1. Sound(ReclaimedBatches, ReclaimedMemberships)
  BY ReclaimIsSound
<1>2. memberships' = {m \in ReclaimedMemberships : m.batch \notin cleanup}
  BY DEF Stats
<1>3. \A d \in BatchIds :
        batches'[d] = IF d \in cleanup THEN NoBatch ELSE ReclaimedBatches[d]
  BY DEF Stats
<1>4. NoBatch \in Batch /\ NoBatch.state = "absent"
  BY BatchAssumption DEF NoBatch, Batch
<1>5. batches' \in [BatchIds -> Batch]
  BY <1>1, <1>4 DEF Sound, Stats
<1>6. \A d \in BatchIds : Leased(batches', d) <=> Leased(ReclaimedBatches, d) /\ d \notin cleanup
  BY <1>3, <1>4 DEF Leased
<1>7. \A d \in BatchIds :
        StillOpen(memberships', d) <=> StillOpen(ReclaimedMemberships, d) /\ d \notin cleanup
  BY <1>2 DEF StillOpen, MembersOf
<1>8. QED
  BY <1>1, <1>2, <1>5, <1>6, <1>7 DEF Sound, LeasesMatch, OneOwnerIn

LEMMA TickIsSound ==
  ASSUME BatchTypeOK, Sound(batches, memberships), Tick
  PROVE  Sound(batches, memberships)'
<1>1. ASSUME NEW b \in BatchIds
      PROVE  batches'[b] \in Batch /\ batches'[b].state = batches[b].state
  <2>1. batches[b] \in Batch
    BY DEF Sound
  <2>2. CASE Leased(batches, b) /\ batches[b].expiresIn > 0
    <3>1. batches'[b] = [batches[b] EXCEPT !.expiresIn = @ - 1]
      BY <2>2 DEF Tick, Leased, Terminal
    <3>2. QED
      BY <2>1, <2>2, <3>1, BatchAssumption DEF Batch
  <2>3. CASE /\ ~(Leased(batches, b) /\ batches[b].expiresIn > 0)
             /\ Terminal(batches, b) /\ batches[b].terminalFor < RetentionTicks
    <3>1. batches'[b] = [batches[b] EXCEPT !.terminalFor = @ + 1]
      BY <2>3 DEF Tick
    <3>2. QED
      BY <2>1, <2>3, <3>1, BatchAssumption DEF Batch
  <2>4. CASE /\ ~(Leased(batches, b) /\ batches[b].expiresIn > 0)
             /\ ~(Terminal(batches, b) /\ batches[b].terminalFor < RetentionTicks)
    BY <2>1, <2>4 DEF Tick
  <2>5. QED
    BY <2>2, <2>3, <2>4
<1>2. batches' \in [BatchIds -> Batch]
  BY <1>1 DEF Tick
<1>3. QED
  BY <1>1, <1>2 DEF Sound, LeasesMatch, OneOwnerIn, Leased, Tick

LEMMA TouchIsSound ==
  ASSUME BatchTypeOK, Sound(batches, memberships), Touch
  PROVE  Sound(batches, memberships)'
  BY ReclaimIsSound DEF Touch, Sound, LeasesMatch, OneOwnerIn

-----------------------------------------------------------------------------
(* Fences.                                                                 *)

\* A claim gives each of its items a number above all the item ever had.
LEMMA ClaimKeepsFences ==
  ASSUME IInv, NEW b \in BatchIds, NEW o \in Owners, NEW candidates \in SUBSET Candidate,
         Claim(b, o, candidates)
  PROVE  /\ granted' \subseteq Fence
         /\ generations' \in [Keys -> 0..MaxGeneration]
         /\ FencesCounted' /\ FencesAreUnique'
<1> DEFINE new == {NewFence(b, o, c) : c \in Free(candidates)}
<1>1. granted' = granted \cup new
  BY DEF Claim
<1>2. ASSUME NEW f \in new
      PROVE  /\ f \in Fence
             /\ f.generation = NextGeneration(f.item)
             /\ \E c \in candidates : c.item = f.item
             /\ \A g \in granted : g.item = f.item => g.generation < f.generation
  <2>1. PICK c \in Free(candidates) : f = NewFence(b, o, c)
    OBVIOUS
  <2>2. f.item = c.item /\ f.generation = NextGeneration(c.item)
    BY <2>1 DEF NewFence
  <2>3. QED
    BY <2>1, <2>2, NewMemberType
<1>3. \A f, g \in new : f.item = g.item => f = g
  <2>1. \A c, d \in Free(candidates) : c.item = d.item => c = d
    BY DEF Claim, Free
  <2>2. QED
    BY <2>1 DEF NewFence
<1>4. granted \subseteq Fence /\ generations \in [Keys -> 0..MaxGeneration]
  BY DEF IInv, BatchTypeOK
<1>5. \A k \in Keys : generations'[k] = IF \E c \in candidates : c.item = k
                                        THEN NextGeneration(k) ELSE generations[k]
  BY DEF Claim
<1>6. \A k \in Keys : /\ generations'[k] \in 0..MaxGeneration
                      /\ generations[k] <= generations'[k]
  <2> TAKE k \in Keys
  <2>1. generations[k] \in 0..MaxGeneration
    BY <1>4
  <2>2. CASE \E c \in candidates : c.item = k
    <3>1. generations[k] < MaxGeneration
      BY <2>2 DEF Claim
    <3>2. QED
      BY <1>5, <2>1, <2>2, <3>1, BatchAssumption DEF NextGeneration
  <2>3. CASE ~\E c \in candidates : c.item = k
    BY <1>5, <2>1, <2>3, BatchAssumption
  <2>4. QED
    BY <2>2, <2>3
<1>7. generations' \in [Keys -> 0..MaxGeneration]
  BY <1>6 DEF Claim
<1>8. FencesCounted'
  <2> SUFFICES ASSUME NEW f \in granted' PROVE f.generation <= generations'[f.item]
    BY DEF FencesCounted
  <2>1. f.item \in Keys /\ f.generation \in 1..MaxGeneration
    BY <1>1, <1>2, <1>4 DEF Fence
  <2>2. CASE f \in granted
    <3>1. f.generation <= generations[f.item]
      BY <2>2 DEF IInv, FencesCounted
    <3>2. QED
      BY <1>4, <1>6, <2>1, <3>1, BatchAssumption
  <2>3. CASE f \in new
    <3>1. generations'[f.item] = f.generation
      BY <1>2, <1>5, <2>1, <2>3
    <3>2. QED
      BY <2>1, <3>1, BatchAssumption
  <2>4. QED
    BY <1>1, <2>2, <2>3
<1>9. FencesAreUnique'
  <2> SUFFICES ASSUME NEW f \in granted', NEW g \in granted',
                      f.item = g.item, f.generation = g.generation
               PROVE  f = g
    BY DEF FencesAreUnique
  <2>1. f.generation \in Nat
    BY <1>1, <1>2, <1>4, BatchAssumption DEF Fence
  <2>2. CASE f \in granted /\ g \in granted
    BY <2>2 DEF IInv, FencesAreUnique
  <2>3. CASE f \in new /\ g \in new
    BY <1>3, <2>3
  <2>4. CASE f \in granted /\ g \in new
    <3>1. f.generation < g.generation
      BY <1>2, <2>4
    <3>2. QED
      BY <2>1, <3>1
  <2>5. CASE f \in new /\ g \in granted
    <3>1. g.generation < f.generation
      BY <1>2, <2>5
    <3>2. QED
      BY <2>1, <3>1
  <2>6. QED
    BY <1>1, <2>2, <2>3, <2>4, <2>5
<1>10. granted' \subseteq Fence
  BY <1>1, <1>2, <1>4
<1>11. QED
  BY <1>7, <1>8, <1>9, <1>10

-----------------------------------------------------------------------------
(* The theorems.                                                           *)

LEMMA InitIsSound ==
  ASSUME BatchInit
  PROVE  IInv
<1>1. NoBatch \in Batch /\ NoBatch.state = "absent"
  BY BatchAssumption DEF NoBatch, Batch
<1>2. BatchTypeOK
  BY <1>1, BatchAssumption DEF BatchInit, BatchTypeOK
<1>3. Sound(batches, memberships)
  BY <1>1, <1>2 DEF BatchInit, BatchTypeOK, Sound, OneOwnerIn, LeasesMatch, Leased,
                    StillOpen, MembersOf
<1>4. QED
  BY <1>2, <1>3 DEF BatchInit, IInv, FencesCounted, FencesAreUnique

LEMMA StepIsSound ==
  ASSUME IInv, [BatchNext]_batchVars
  PROVE  IInv'
<1> USE DEF IInv
<1>1. ASSUME Sound(batches, memberships)', UNCHANGED <<generations, granted>>
      PROVE  IInv'
  BY <1>1 DEF BatchTypeOK, Sound, FencesCounted, FencesAreUnique
<1>2. ASSUME NEW b \in BatchIds, NEW o \in Owners, NEW candidates \in SUBSET Candidate,
             Claim(b, o, candidates)
      PROVE  IInv'
  BY <1>2, ClaimIsSound, ClaimKeepsFences DEF BatchTypeOK, Sound
<1>3. CASE Touch
  BY <1>1, <1>3, TouchIsSound DEF Touch
<1>4. ASSUME NEW b \in BatchIds, ClaimRefused(b)
      PROVE  IInv'
  BY <1>3, <1>4 DEF ClaimRefused
<1>5. ASSUME NEW b \in BatchIds, NEW o \in Owners, NEW fences, NEW ticks \in 1..LeaseTicks,
             Heartbeat(b, o, fences, ticks)
      PROVE  IInv'
  BY <1>1, <1>5, HeartbeatIsSound DEF Heartbeat
<1>6. ASSUME NEW b \in BatchIds, NEW o \in Owners, NEW fences, NEW outcome \in [fences -> Outcomes],
             Complete(b, o, {WithOutcome(f, outcome[f]) : f \in fences})
      PROVE  IInv'
  <2> DEFINE completions == {WithOutcome(f, outcome[f]) : f \in fences}
  <2>1. \A f \in completions : f.outcome \in Outcomes
    BY DEF WithOutcome
  <2>2. Complete(b, o, completions)
    BY <1>6
  <2> HIDE DEF completions
  <2>3. Sound(batches, memberships)'
    BY <2>1, <2>2, CompleteIsSound
  <2>4. UNCHANGED <<generations, granted>>
    BY <2>2 DEF Complete
  <2>5. QED
    BY <1>1, <2>3, <2>4
<1>7. ASSUME NEW cleanup \in SUBSET DueForCleanup, Stats(cleanup)
      PROVE  IInv'
  BY <1>1, <1>7, StatsIsSound DEF Stats
<1>8. CASE Tick
  BY <1>1, <1>8, TickIsSound DEF Tick
<1>9. CASE UNCHANGED batchVars
  BY <1>1, <1>9 DEF batchVars, Sound, OneOwnerIn, LeasesMatch, Leased, StillOpen, MembersOf
<1>10. QED
  BY <1>2, <1>3, <1>4, <1>5, <1>6, <1>7, <1>8, <1>9 DEF BatchNext

\* Whatever callers present, the rows are well formed, no item has two owners,
\* and a batch is leased exactly as long as it has something to do.
THEOREM BatchesStaySound == BatchSpec => [](BatchTypeOK /\ OneOwner /\ LeasedWhileUnfinished)
<1>1. IInv => BatchTypeOK /\ OneOwner /\ LeasedWhileUnfinished
  BY DEF IInv, Sound, OneOwner, OneOwnerIn, LeasedWhileUnfinished, LeasesMatch
<1>2. QED
  BY <1>1, InitIsSound, StepIsSound, PTL DEF BatchSpec

\* nextClaimGenerationSync never gives a fence twice, whichever receipts are gone.
THEOREM FencesStayUnique == BatchSpec => []FencesAreUnique
<1>1. IInv => FencesAreUnique
  BY DEF IInv
<1>2. QED
  BY <1>1, InitIsSound, StepIsSound, PTL DEF BatchSpec

-----------------------------------------------------------------------------
(* What a settled membership and an owner can meet in one step.            *)

\* What was settled is what it was, or its batch was pruned; and whoever owns an
\* item after a step without a claim owned it before.
LEMMA MembersStep ==
  ASSUME IInv, [BatchNext]_batchVars
  PROVE  /\ \A m \in memberships : \/ Open(m) \/ m \in memberships'
                                   \/ MembersOf(memberships', m.batch) = {}
         /\ \/ /\ \A m \in memberships' : Open(m) => m \in memberships
               /\ generations' = generations
            \/ \E b \in BatchIds, o \in Owners, candidates \in SUBSET Candidate :
                 Claim(b, o, candidates)
<1> DEFINE Kept == \A m \in memberships : \/ Open(m) \/ m \in memberships'
                                          \/ MembersOf(memberships', m.batch) = {}
           Shrinks == /\ \A m \in memberships' : Open(m) => m \in memberships
                      /\ generations' = generations
<1>1. BatchTypeOK
  BY DEF IInv
<1>2. ASSUME NEW b \in BatchIds, NEW o \in Owners, NEW candidates \in SUBSET Candidate,
             Claim(b, o, candidates)
      PROVE  Kept
  BY <1>1, <1>2, ReclaimedMembers DEF Claim
<1>3. ASSUME memberships' = ReclaimedMemberships, generations' = generations
      PROVE  Kept /\ Shrinks
  BY <1>1, <1>3, ReclaimedMembers
<1>4. ASSUME memberships' = memberships, generations' = generations
      PROVE  Kept /\ Shrinks
  BY <1>4
<1>5. ASSUME NEW b \in BatchIds, NEW o \in Owners, NEW fences, NEW outcome \in [fences -> Outcomes],
             Complete(b, o, {WithOutcome(f, outcome[f]) : f \in fences})
      PROVE  Kept /\ Shrinks
  <2> DEFINE completions == {WithOutcome(f, outcome[f]) : f \in fences}
  <2>1. \A f \in completions : f.outcome \in Outcomes
    BY DEF WithOutcome
  <2>2. Complete(b, o, completions)
    BY <1>5
  <2> HIDE DEF completions
  <2>3. /\ \A m \in memberships' : Open(m) => m \in ReclaimedMemberships
        /\ \A m \in ReclaimedMemberships : Open(m) \/ m \in memberships'
    BY <1>1, <2>1, <2>2, CompleteResult
  <2>4. generations' = generations
    BY <2>2 DEF Complete
  <2>5. QED
    BY <1>1, <2>3, <2>4, ReclaimedMembers
<1>6. ASSUME NEW cleanup \in SUBSET DueForCleanup, Stats(cleanup)
      PROVE  Kept /\ Shrinks
  <2>1. memberships' = {m \in ReclaimedMemberships : m.batch \notin cleanup}
        /\ generations' = generations
    BY <1>6 DEF Stats
  <2>2. QED
    BY <1>1, <2>1, ReclaimedMembers DEF MembersOf
<1> HIDE DEF Kept, Shrinks
<1>7. ASSUME NEW b \in BatchIds, ClaimRefused(b)
      PROVE  Kept /\ Shrinks
  BY <1>3, <1>7 DEF ClaimRefused, Touch
<1>8. ASSUME NEW b \in BatchIds, NEW o \in Owners, NEW fences, NEW ticks \in 1..LeaseTicks,
             Heartbeat(b, o, fences, ticks)
      PROVE  Kept /\ Shrinks
  BY <1>3, <1>8 DEF Heartbeat
<1>9. Kept /\ (\/ Shrinks
               \/ \E b \in BatchIds, o \in Owners, candidates \in SUBSET Candidate :
                    Claim(b, o, candidates))
  BY <1>2, <1>3, <1>4, <1>5, <1>6, <1>7, <1>8 DEF BatchNext, Touch, Tick, batchVars
<1>10. QED
  BY <1>9 DEF Kept, Shrinks

\* The numbers that own item k.
Owning(k) == {m.generation : m \in {n \in memberships : Open(n) /\ n.item = k}}

LEMMA ClaimGrants ==
  ASSUME IInv, NEW b \in BatchIds, NEW o \in Owners, NEW candidates \in SUBSET Candidate,
         Claim(b, o, candidates), NEW k \in Keys
  PROVE  \/ /\ generations'[k] = generations[k] + 1
            /\ Owning(k)' = {generations'[k]}
         \/ /\ generations'[k] = generations[k] + 1
            /\ Owning(k)' \subseteq Owning(k)
         \/ /\ generations'[k] = generations[k]
            /\ Owning(k)' \subseteq Owning(k)
<1> DEFINE new == {NewMember(b, c) : c \in Free(candidates)}
<1>1. memberships' = ReclaimedMemberships \cup new
  BY DEF Claim
<1>2. generations'[k] = IF \E c \in candidates : c.item = k
                        THEN generations[k] + 1 ELSE generations[k]
  BY DEF Claim, NextGeneration
<1>3. \A m \in ReclaimedMemberships : Open(m) => m \in memberships
  BY ReclaimedMembers DEF IInv
<1>4. CASE \E c \in Free(candidates) : c.item = k
  <2>1. PICK c \in Free(candidates) : c.item = k
    BY <1>4
  <2>2. c \in candidates /\ k \notin OwnedItems(ReclaimedMemberships)
    BY <2>1 DEF Free
  <2>3. NewMember(b, c) \in new /\ Open(NewMember(b, c)) /\ NewMember(b, c).item = k
        /\ NewMember(b, c).generation = generations[k] + 1
    BY <2>1 DEF NewMember, Open, NextGeneration
  <2>4. \A m \in memberships' : Open(m) /\ m.item = k => m = NewMember(b, c)
    <3>1. \A d \in Free(candidates) : d.item = k => d = c
      BY <2>1 DEF Claim, Free
    <3>2. \A m \in new : m.item = k => m = NewMember(b, c)
      BY <3>1 DEF NewMember
    <3>3. QED
      BY <1>1, <2>2, <3>2 DEF OwnedItems
  <2>5. generations'[k] = generations[k] + 1
    BY <1>2, <2>1, <2>2
  <2>6. Owning(k)' = {generations'[k]}
    BY <1>1, <2>3, <2>4, <2>5 DEF Owning
  <2>7. QED
    BY <2>5, <2>6
<1>5. CASE ~\E c \in Free(candidates) : c.item = k
  <2>1. \A m \in new : m.item # k
    BY <1>5 DEF NewMember
  <2>2. Owning(k)' \subseteq Owning(k)
    BY <1>1, <1>3, <2>1 DEF Owning
  <2>3. QED
    BY <1>2, <2>2
<1>6. QED
  BY <1>4, <1>5

-----------------------------------------------------------------------------

\* A completion, a clean-up or an expiry that comes after the acknowledgement
\* changes nothing about it.
THEOREM SettledForGood == BatchSpec => SettledOnce
<1>1. IInv /\ [BatchNext]_batchVars
        => [\A m \in memberships : Open(m) \/ m \in memberships'
                                   \/ MembersOf(memberships', m.batch) = {}]_batchVars
  BY MembersStep
<1>2. QED
  BY <1>1, InitIsSound, StepIsSound, PTL DEF BatchSpec, SettledOnce

\* For every item the store hands out owners one at a time, under fresh numbers.
THEOREM RefinesOwnership == BatchSpec => ImplementsOwnership
<1> DEFINE own == [k \in Keys |-> {m.generation : m \in {n \in memberships : Open(n) /\ n.item = k}}]
<1>1. BatchInit => Ownership!Init
  BY DEF BatchInit, Ownership!Init
<1>2. ASSUME IInv, [BatchNext]_batchVars
      PROVE  [Ownership!Next]_<<own, generations>>
  <2> SUFFICES ASSUME NEW k \in Keys
               PROVE  Ownership!Grant(k) \/ Ownership!Burn(k) \/ Ownership!End(k)
    BY DEF Ownership!Next
  <2>1. own[k] = Owning(k) /\ own'[k] = Owning(k)'
    BY DEF Owning
  <2>2. CASE /\ \A m \in memberships' : Open(m) => m \in memberships
             /\ generations' = generations
    <3>1. Owning(k)' \subseteq Owning(k)
      BY <2>2 DEF Owning
    <3>2. QED
      BY <2>1, <2>2, <3>1 DEF Ownership!End
  <2>3. ASSUME NEW b \in BatchIds, NEW o \in Owners, NEW candidates \in SUBSET Candidate,
               Claim(b, o, candidates)
        PROVE  Ownership!Grant(k) \/ Ownership!Burn(k) \/ Ownership!End(k)
    BY <1>2, <2>1, <2>3, ClaimGrants DEF Ownership!Grant, Ownership!Burn, Ownership!End
  <2>4. QED
    BY <1>2, <2>2, <2>3, MembersStep
<1>3. QED
  BY <1>1, <1>2, InitIsSound, StepIsSound, PTL
     DEF BatchSpec, ImplementsOwnership, Ownership!Spec

=============================================================================
