-------------------------- MODULE PublicationBatches -------------------------
(***************************************************************************)
(* The durable store of publication batches:                               *)
(* dashboard/exact-review-publication-batches.ts.  A batch leases a set of *)
(* queue items to one workflow; every operation is one SQLite transaction. *)
(*                                                                         *)
(* Callers are unreliable: a completion or a heartbeat may come late, be   *)
(* repeated, or name a batch id that was pruned and leased again.  So a    *)
(* caller presents any fences the store ever gave out.                     *)
(*                                                                         *)
(* As in StateWriterCoordinator, a row keeps differences to the current    *)
(* time and Tick moves them.                                               *)
(***************************************************************************)
EXTENDS Naturals, FiniteSets

CONSTANTS
  BatchIds,              \* ids of batches: the claim id of a workflow run
  Keys,                  \* keys of publication items
  Owners,                \* lease owners
  Revisions,             \* item revisions a claim may find
  LeaseTicks,            \* exactReviewPublicationBatchLeaseMs
  RetentionTicks,        \* DEFAULT_COMPLETED_BATCH_TTL_MS
  BatchSize,             \* maxItems of a claim
  MaxConcurrentBatches,
  MaxGeneration          \* bound: claims of one item

ASSUME BatchAssumption ==
  /\ IsFiniteSet(Keys) /\ IsFiniteSet(BatchIds)
  /\ LeaseTicks \in Nat \ {0} /\ RetentionTicks \in Nat \ {0}
  /\ BatchSize \in Nat \ {0} /\ MaxConcurrentBatches \in Nat \ {0}
  /\ MaxGeneration \in Nat /\ Revisions \subseteq Nat

VARIABLES
  batches,      \* batch id -> row (state "absent": no row)
  memberships,  \* the rows of the item table
  generations,  \* item -> claim generation; outlives the receipts
  granted       \* history: the fences claims were given

batchVars == <<batches, memberships, generations, granted>>

-----------------------------------------------------------------------------

NoOwner == "nobody"
Unfinished == "unfinished"
Outcomes == {"published", "superseded", "lease_expired"}

Batch == [state: {"absent", "leased", "completed", "expired"},
          owner: Owners \cup {NoOwner},
          expiresIn: 0..LeaseTicks,
          terminalFor: 0..RetentionTicks]

Membership == [batch: BatchIds, item: Keys, revision: Revisions,
               generation: 1..MaxGeneration, outcome: Outcomes \cup {Unfinished}]

Fence == [batch: BatchIds, owner: Owners, item: Keys, revision: Revisions,
          generation: 1..MaxGeneration]

NoBatch == [state |-> "absent", owner |-> NoOwner, expiresIn |-> 0, terminalFor |-> 0]

Open(m) == m.outcome = Unfinished
Leased(bt, b) == bt[b].state = "leased"
Terminal(bt, b) == bt[b].state \in {"completed", "expired"}
MembersOf(ms, b) == {m \in ms : m.batch = b}
OwnedItems(ms) == {m.item : m \in {n \in ms : Open(n)}}

BatchInit ==
  /\ batches = [b \in BatchIds |-> NoBatch]
  /\ memberships = {}
  /\ generations = [k \in Keys |-> 0]
  /\ granted = {}

-----------------------------------------------------------------------------
(* reclaimExpiredSync: the first thing every operation does.               *)

Overdue(b) == Leased(batches, b) /\ batches[b].expiresIn = 0

\* Mutant: an expired lease is never ended.
MutantReclaimedBatches == batches

ReclaimedBatches ==
  [b \in BatchIds |-> IF Overdue(b) THEN [batches[b] EXCEPT !.state = "expired"]
                                    ELSE batches[b]]

ReclaimedMemberships ==
  {IF Open(m) /\ Overdue(m.batch) THEN [m EXCEPT !.outcome = "lease_expired"] ELSE m
     : m \in memberships}

\* An operation that finds nothing to do still reclaims.
Touch ==
  /\ batches' = ReclaimedBatches
  /\ memberships' = ReclaimedMemberships
  /\ UNCHANGED <<generations, granted>>

-----------------------------------------------------------------------------
(* claim                                                                   *)

Candidate == [item: Keys, revision: Revisions]

MayInsert(b) ==
  /\ ReclaimedBatches[b].state = "absent"
  /\ Cardinality({c \in BatchIds : Leased(ReclaimedBatches, c)}) < MaxConcurrentBatches

\* Mutant: an item is claimed although another batch owns it.
MutantFree(candidates) == candidates

\* INSERT OR IGNORE: an item with an unfinished membership is passed over.
Free(candidates) == {c \in candidates : c.item \notin OwnedItems(ReclaimedMemberships)}

\* Mutant: the generation is taken from the membership rows that are left.
MutantNextGeneration(k) ==
  1 + Cardinality({m \in memberships : m.item = k})

\* nextClaimGenerationSync
NextGeneration(k) == generations[k] + 1

NewMember(b, c) == [batch |-> b, item |-> c.item, revision |-> c.revision,
                    generation |-> NextGeneration(c.item), outcome |-> Unfinished]

NewFence(b, o, c) == [batch |-> b, owner |-> o, item |-> c.item, revision |-> c.revision,
                      generation |-> NextGeneration(c.item)]

\* The loop ends when the batch is full, so the candidates after that have no
\* effect: `candidates` are the ones looked at.  Each costs a generation.
Claim(b, o, candidates) ==
  /\ MayInsert(b)
  /\ \A c, d \in candidates : c.item = d.item => c = d
  /\ Cardinality(Free(candidates)) <= BatchSize
  /\ \A c \in candidates : generations[c.item] < MaxGeneration
  /\ batches' = IF Free(candidates) = {} THEN ReclaimedBatches
                ELSE [ReclaimedBatches EXCEPT
                        ![b] = [state |-> "leased", owner |-> o,
                                expiresIn |-> LeaseTicks, terminalFor |-> 0]]
  /\ memberships' = ReclaimedMemberships \cup {NewMember(b, c) : c \in Free(candidates)}
  /\ granted' = granted \cup {NewFence(b, o, c) : c \in Free(candidates)}
  /\ generations' = [k \in Keys |-> IF \E c \in candidates : c.item = k
                                    THEN NextGeneration(k) ELSE generations[k]]

ClaimRefused(b) == ~MayInsert(b) /\ Touch

-----------------------------------------------------------------------------
(* heartbeat                                                               *)

SameFence(m, f) ==
  m.item = f.item /\ m.revision = f.revision /\ m.generation = f.generation

HeartbeatAccepted(b, o, fences) ==
  /\ Leased(ReclaimedBatches, b) /\ batches[b].owner = o
  /\ \A f, g \in fences : f.item = g.item => f = g
  /\ \A f \in fences : \E m \in MembersOf(ReclaimedMemberships, b) : SameFence(m, f)
  /\ \A m \in MembersOf(ReclaimedMemberships, b) :
       Open(m) => \E f \in fences : f.item = m.item

\* A renewal never shortens a lease.
Heartbeat(b, o, fences, ticks) ==
  /\ HeartbeatAccepted(b, o, fences)
  /\ batches' = [ReclaimedBatches EXCEPT
                   ![b].expiresIn = IF ticks > @ THEN ticks ELSE @]
  /\ memberships' = ReclaimedMemberships
  /\ UNCHANGED <<generations, granted>>

-----------------------------------------------------------------------------
(* complete                                                                *)

\* Mutant: a settled membership is settled again.
MutantSettlesAgain(b, o, f) ==
  {m \in MembersOf(ReclaimedMemberships, b) : SameFence(m, f)}

\* The unfinished membership a completion names; of another owner, of a batch
\* that is not leased, or with another fence: none, and the call changes nothing.
Settles(b, o, f) ==
  {m \in MembersOf(ReclaimedMemberships, b) :
     /\ Leased(ReclaimedBatches, b) /\ batches[b].owner = o
     /\ Open(m) /\ SameFence(m, f)}

\* onAccepted is called with these, in the same transaction.
Accepted(b, o, completions) == {f \in completions : Settles(b, o, f) # {}}

\* Mutant: a batch completes as soon as one of its items is settled.
MutantStillOpen(ms, b) == FALSE

StillOpen(ms, b) == \E m \in MembersOf(ms, b) : Open(m)

\* completions: fences, each with its outcome, at most one for an item.
Complete(b, o, completions) ==
  LET settled(m) == {f \in completions : m \in Settles(b, o, f)}
      after == {IF settled(m) = {} THEN m
                ELSE [m EXCEPT !.outcome = (CHOOSE f \in settled(m) : TRUE).outcome]
                  : m \in ReclaimedMemberships}
  IN /\ memberships' = after
     /\ batches' = IF Leased(ReclaimedBatches, b) /\ batches[b].owner = o /\ ~StillOpen(after, b)
                   THEN [ReclaimedBatches EXCEPT ![b].state = "completed",
                                                 ![b].terminalFor = 0]
                   ELSE ReclaimedBatches
     /\ UNCHANGED <<generations, granted>>

-----------------------------------------------------------------------------
(* stats: prunes old receipts, as many as its cleanup limit allows.        *)

DueForCleanup == {b \in BatchIds : Terminal(batches, b) /\ batches[b].terminalFor >= RetentionTicks}

Stats(cleanup) ==
  /\ cleanup \subseteq DueForCleanup
  /\ batches' = [b \in BatchIds |-> IF b \in cleanup THEN NoBatch ELSE ReclaimedBatches[b]]
  /\ memberships' = {m \in ReclaimedMemberships : m.batch \notin cleanup}
  /\ UNCHANGED <<generations, granted>>

Tick ==
  /\ batches' = [b \in BatchIds |->
       CASE Leased(batches, b) /\ batches[b].expiresIn > 0 ->
              [batches[b] EXCEPT !.expiresIn = @ - 1]
         [] Terminal(batches, b) /\ batches[b].terminalFor < RetentionTicks ->
              [batches[b] EXCEPT !.terminalFor = @ + 1]
         [] OTHER -> batches[b]]
  /\ batches' # batches
  /\ UNCHANGED <<memberships, generations, granted>>

-----------------------------------------------------------------------------
(* The store with any callers.  A caller presents fences that were given   *)
(* out under the batch id it names, to it or to another owner, now or long *)
(* ago, with any outcome for each.                                         *)

FencesOf(b) == {[item |-> g.item, revision |-> g.revision, generation |-> g.generation]
                  : g \in {h \in granted : h.batch = b}}

WithOutcome(f, oc) ==
  [item |-> f.item, revision |-> f.revision, generation |-> f.generation, outcome |-> oc]

BatchNext ==
  \/ \E b \in BatchIds :
       \/ \E o \in Owners, candidates \in SUBSET Candidate : Claim(b, o, candidates)
       \/ ClaimRefused(b)
       \/ \E o \in Owners, fences \in SUBSET FencesOf(b) :
            \/ \E ticks \in 1..LeaseTicks : Heartbeat(b, o, fences, ticks)
            \/ \E outcome \in [fences -> Outcomes] :
                 Complete(b, o, {WithOutcome(f, outcome[f]) : f \in fences})
  \/ Touch  \* fetch, ownsActiveFence, activeLeaseSnapshot, observability
  \/ \E cleanup \in SUBSET DueForCleanup : Stats(cleanup)
  \/ Tick

BatchSpec == BatchInit /\ [][BatchNext]_batchVars

-----------------------------------------------------------------------------
(* Properties.                                                             *)

BatchTypeOK ==
  /\ batches \in [BatchIds -> Batch]
  /\ memberships \subseteq Membership
  /\ generations \in [Keys -> 0..MaxGeneration]
  /\ granted \subseteq Fence

\* At most one batch owns an item, so two workflows never publish it at once.
OneOwner == \A m, n \in memberships : Open(m) /\ Open(n) /\ m.item = n.item => m = n

\* A batch is leased exactly as long as one of its items is unfinished: no item
\* stays owned by a batch that is over (nobody could claim it again), and no
\* lease blocks the next batch when its work is done.
LeasedWhileUnfinished ==
  \A b \in BatchIds : Leased(batches, b) <=> StillOpen(memberships, b)

\* Two claims never get the same fence for an item, although receipts are
\* pruned and batch ids are used again: a late completion of the one can never
\* settle the membership of the other.
FencesAreUnique ==
  \A f, g \in granted : f.item = g.item /\ f.generation = g.generation => f = g

\* What was settled stays settled the way it was, until the receipt is pruned:
\* an always() clean-up that arrives after the acknowledgement is a no-op.
SettledOnce ==
  [][\A m \in memberships : Open(m) \/ m \in memberships'
                             \/ MembersOf(memberships', m.batch) = {}]_batchVars

\* For each item the store is a FencedOwnership.
Ownership == INSTANCE FencedOwnership WITH
  Items <- Keys,
  owners <- [k \in Keys |-> {m.generation : m \in {n \in memberships : Open(n) /\ n.item = k}}],
  issued <- generations

ImplementsOwnership == Ownership!Spec

=============================================================================
