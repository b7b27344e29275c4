---------------------------- MODULE StatePublisher ---------------------------
(***************************************************************************)
(* The writers of the state branch: src/repair/state-writer-coordinator.ts *)
(* (the client of the ticket queue and its watchdog process),              *)
(* detached-cleanup.ts and publishMainCommit of git-publish.ts, composed   *)
(* with the coordinator they call.  A writer draws one ticket id, so       *)
(* writers and tickets have the same names.                                *)
(*                                                                         *)
(* A call is answered in the step that executes it, or its answer is lost: *)
(* then the request joins `late` and is executed later or never.  One tick *)
(* is the watchdog's interval.  A requirement of timeliness (the watchdog  *)
(* renews, and the client polls, between two ticks) may be broken, as any  *)
(* other fault, MaxFaults times.                                           *)
(***************************************************************************)
EXTENDS StateWriterCoordinator, Sequences

CONSTANT MaxFaults  \* bound: lost answers, crashes, missed renewals and polls
ASSUME FaultAssumption == MaxFaults \in Nat

VARIABLES
  writers,    \* the client in publishMainCommit
  watchdogs,  \* its detached renewal process
  late,       \* requests whose answer was lost and that may still be executed
  branch,     \* the commits pushed: who, and (history) still owning its lease?
  faults

publisherVars == <<tickets, seq, meta, bypass, writers, watchdogs, late, branch, faults>>

COORDINATOR_AMBIGUOUS_REQUEST_LIMIT == 3

Phases == {"idle", "polling", "leased", "staged", "pushing", "releasing", "ended"}
Holding == {"leased", "staged", "pushing", "releasing"}

Writer == [pc: Phases, token: Nat, base: Nat,
           strikes: 0..COORDINATOR_AMBIGUOUS_REQUEST_LIMIT]
Watchdog == [state: {"none", "running", "closing", "gone"},
             missed: 0..LeaseMs]  \* ticks since the lease was renewed; at LeaseMs it is lost
Request == [kind: {"acquire", "heartbeat", "release", "push"},
            writer: Tickets, token: Nat, base: Nat]
Commit == [writer: Tickets, owned: BOOLEAN]

PublisherInit ==
  /\ Init
  /\ writers = [w \in Tickets |-> [pc |-> "idle", token |-> NoToken, base |-> 0, strikes |-> 0]]
  /\ watchdogs = [w \in Tickets |-> [state |-> "none", missed |-> 0]]
  /\ late = {}
  /\ branch = <<>>
  /\ faults = 0

-----------------------------------------------------------------------------

OwnsLease(w) == Owns(tickets, w, writers[w].token)

Goto(w, pc) == writers' = [writers EXCEPT ![w].pc = pc]

\* The answer of a call is lost; the request is executed later, or never.
LoseAnswer(kind, w) ==
  /\ faults < MaxFaults
  /\ faults' = faults + 1
  /\ \/ late' = late \cup {[kind |-> kind, writer |-> w,
                            token |-> writers[w].token, base |-> writers[w].base]}
     \/ late' = late

\* publishMainCommit starts: it draws a ticket id and polls for the lease.
Start(w) ==
  /\ writers[w].pc = "idle"
  /\ Goto(w, "polling")
  /\ UNCHANGED <<vars, watchdogs, late, branch, faults>>

\* One poll: keep polling while queued, start the watchdog when leased, throw
\* when the ticket is terminal.  A lease that a lost poll was granted has
\* already run for a while.
Poll(w) ==
  /\ writers[w].pc = "polling"
  /\ Acquire(w)
  /\ CASE tickets'[w].state = "leased" ->
            /\ writers' = [writers EXCEPT ![w].pc = "leased",
                                          ![w].token = tickets'[w].token,
                                          ![w].strikes = 0]
            /\ watchdogs' = [watchdogs EXCEPT ![w] =
                 [state |-> "running", missed |-> LeaseMs - tickets'[w].expiresIn]]
       [] tickets'[w].state = "queued" ->
            /\ writers' = [writers EXCEPT ![w].strikes = 0]
            /\ UNCHANGED watchdogs
       [] OTHER ->
            /\ Goto(w, "ended")
            /\ UNCHANGED watchdogs
  /\ UNCHANGED <<late, branch, faults>>

\* No usable answer: poll again with the same identity, but not for ever.
PollLost(w) ==
  /\ writers[w].pc = "polling"
  /\ LoseAnswer("acquire", w)
  /\ writers' = [writers EXCEPT
       ![w].strikes = @ + 1,
       ![w].pc = IF writers[w].strikes + 1 < COORDINATOR_AMBIGUOUS_REQUEST_LIMIT
                 THEN @ ELSE "ended"]
  /\ UNCHANGED <<vars, watchdogs, branch>>

\* The acquire deadline.  The release it sends has no lease token and is
\* refused as invalid, so the ticket stays queued until it is stale.
GiveUp(w) ==
  /\ writers[w].pc = "polling"
  /\ Goto(w, "ended")
  /\ UNCHANGED <<vars, watchdogs, late, branch, faults>>

\* fetch, checkout, stage, commit: a commit on top of the tip just fetched.
Fetch(w) ==
  /\ writers[w].pc = "leased"
  /\ writers' = [writers EXCEPT ![w].pc = "staged", ![w].base = Len(branch)]
  /\ UNCHANGED <<vars, watchdogs, late, branch, faults>>

\* Nothing to publish, or a git command failed.
FetchStops(w) ==
  /\ writers[w].pc = "leased"
  /\ Goto(w, "releasing")
  /\ UNCHANGED <<vars, watchdogs, late, branch, faults>>

\* assertActive: push only if a renewal with the same token succeeds.
AssertActive(w) ==
  /\ writers[w].pc = "staged"
  /\ Heartbeat(w, writers[w].token)
  /\ Goto(w, IF Owns(tickets', w, writers[w].token) THEN "pushing" ELSE "releasing")
  /\ UNCHANGED <<watchdogs, late, branch, faults>>

AssertActiveLost(w) ==
  /\ writers[w].pc = "staged"
  /\ LoseAnswer("heartbeat", w)
  /\ Goto(w, "releasing")
  /\ UNCHANGED <<vars, watchdogs, branch>>

\* The remote takes a push only if it is a fast-forward.
Lands(base) == base = Len(branch)

Pushed(w) == Append(branch, [writer |-> w, owned |-> OwnsLease(w)])

Push(w) ==
  /\ writers[w].pc = "pushing"
  /\ branch' = IF Lands(writers[w].base) THEN Pushed(w) ELSE branch
  /\ Goto(w, "releasing")
  /\ UNCHANGED <<vars, watchdogs, late, faults>>

\* git push times out, or fails after the remote received it.
PushLost(w) ==
  /\ writers[w].pc = "pushing"
  /\ LoseAnswer("push", w)
  /\ Goto(w, "releasing")
  /\ UNCHANGED <<vars, watchdogs, branch>>

\* finally: release, then close the watchdog.  It is killed only if the
\* release was acknowledged; otherwise its stdin is closed and it releases.
CloseWatchdog(w, acknowledged) ==
  watchdogs' = [watchdogs EXCEPT ![w] =
    [state |-> IF acknowledged THEN "gone" ELSE "closing", missed |-> 0]]

\* Mutant: a release that was not acknowledged leaves the watchdog running.
MutantReleaseLost(w) ==
  /\ writers[w].pc = "releasing"
  /\ LoseAnswer("release", w)
  /\ Goto(w, "ended")
  /\ UNCHANGED <<vars, watchdogs, branch>>

ReleaseLease(w) ==
  /\ writers[w].pc = "releasing"
  /\ Release(w, writers[w].token)
  /\ CloseWatchdog(w, ReleaseAcknowledged(w, writers[w].token))
  /\ Goto(w, "ended")
  /\ UNCHANGED <<late, branch, faults>>

ReleaseLost(w) ==
  /\ writers[w].pc = "releasing"
  /\ LoseAnswer("release", w)
  /\ CloseWatchdog(w, FALSE)
  /\ Goto(w, "ended")
  /\ UNCHANGED <<vars, branch>>

\* The writer dies: its watchdog sees the end of its stdin, or dies with the
\* machine.  A push under way may still arrive.
Crash(w) ==
  /\ writers[w].pc \in {"polling"} \cup Holding
  /\ faults < MaxFaults
  /\ faults' = faults + 1
  /\ Goto(w, "ended")
  /\ \/ CloseWatchdog(w, TRUE)
     \/ watchdogs[w].state = "running" /\ CloseWatchdog(w, FALSE)
  /\ \/ late' = late
     \/ /\ writers[w].pc = "pushing"
        /\ late' = late \cup {[kind |-> "push", writer |-> w,
                               token |-> writers[w].token, base |-> writers[w].base]}
  /\ UNCHANGED <<vars, branch>>

-----------------------------------------------------------------------------
(* The watchdog, late requests, and time.                                  *)

Renew(w) ==
  /\ watchdogs[w].state = "running"
  /\ watchdogs[w].missed > 0
  /\ Heartbeat(w, writers[w].token)
  /\ watchdogs' = [watchdogs EXCEPT ![w].missed = IF @ < LeaseMs THEN 0 ELSE @]
  /\ UNCHANGED <<writers, late, branch, faults>>

\* The end of stdin: one release, answered or not, then the process exits.
WatchdogReleases(w) ==
  /\ watchdogs[w].state = "closing"
  /\ watchdogs' = [watchdogs EXCEPT ![w].state = "gone"]
  /\ \/ Release(w, writers[w].token) /\ UNCHANGED <<late, faults>>
     \/ LoseAnswer("release", w) /\ UNCHANGED vars
  /\ UNCHANGED <<writers, branch>>

Deliver(m) ==
  /\ late' = late \ {m}
  /\ \/ m.kind = "acquire" /\ Acquire(m.writer) /\ UNCHANGED branch
     \/ m.kind = "heartbeat" /\ Heartbeat(m.writer, m.token) /\ UNCHANGED branch
     \/ m.kind = "release" /\ Release(m.writer, m.token) /\ UNCHANGED branch
     \/ /\ m.kind = "push"
        /\ branch' = IF Lands(m.base) THEN Pushed(m.writer) ELSE branch
        /\ UNCHANGED vars
  /\ UNCHANGED <<writers, watchdogs, faults>>

\* Somebody else's operation, which reclaims on its way.
OthersRead ==
  /\ Stats
  /\ UNCHANGED <<writers, watchdogs, late, branch, faults>>

\* A client that did not poll, or a watchdog that did not renew, since the
\* last tick.
Overdue(w) ==
  \/ watchdogs[w].state = "running" /\ watchdogs[w].missed \in 1..(LeaseMs - 1)
  \/ /\ writers[w].pc = "polling"
     /\ tickets[w].state # "absent"
     /\ ~(tickets[w].state = "queued" /\ tickets[w].unseenFor = 0)

\* Requests to the coordinator are aborted after ten seconds, a third of a tick.
PublisherTick ==
  LET overdue == Cardinality({w \in Tickets : Overdue(w)})
  IN  /\ faults + overdue <= MaxFaults
      /\ faults' = faults + overdue
      /\ Tick
      /\ watchdogs' = [w \in Tickets |->
           IF watchdogs[w].state = "running"
           THEN [watchdogs[w] EXCEPT !.missed = Smaller(@ + 1, LeaseMs)]
           ELSE watchdogs[w]]
      /\ late' = {m \in late : m.kind = "push"}
      /\ UNCHANGED <<writers, branch>>

WriterStep(w) ==
  \/ Start(w)
  \/ Poll(w) \/ PollLost(w) \/ GiveUp(w)
  \/ Fetch(w) \/ FetchStops(w)
  \/ AssertActive(w) \/ AssertActiveLost(w)
  \/ Push(w) \/ PushLost(w)
  \/ ReleaseLease(w) \/ ReleaseLost(w)
  \/ Crash(w)

PublisherNext ==
  \/ \E w \in Tickets : WriterStep(w)
  \/ \E w \in Tickets : Renew(w) \/ WatchdogReleases(w)
  \/ \E m \in late : Deliver(m)
  \/ OthersRead
  \/ PublisherTick

PublisherSpec == PublisherInit /\ [][PublisherNext]_publisherVars

\* Processes that run go on, and time passes.  Nothing is assumed of starts,
\* give-ups, faults and late requests.
PublisherFairness ==
  /\ \A w \in Tickets :
       /\ WF_publisherVars(\/ Poll(w) \/ Fetch(w) \/ FetchStops(w)
                           \/ AssertActive(w) \/ Push(w) \/ ReleaseLease(w))
       /\ WF_publisherVars(Renew(w) \/ WatchdogReleases(w))
  /\ WF_publisherVars(PublisherTick)

FairPublisherSpec == PublisherSpec /\ PublisherFairness

-----------------------------------------------------------------------------
(* What the writers rely on.                                               *)

\* Type invariant: clients, watchdogs, requests and the branch keep their shape.
PublisherTypeOK ==
  /\ TypeOK
  /\ writers \in [Tickets -> Writer]
  /\ watchdogs \in [Tickets -> Watchdog]
  /\ late \subseteq Request
  /\ branch \in Seq(Commit)
  /\ faults \in 0..MaxFaults

\* "Git publication is serialized" (docs/scheduler.md:993): while a writer
\* owns its lease, what it fetched stays the tip of the branch, unless a push
\* that outlived its own lease lands.  A push may: it has five minutes, the
\* lease two, and nothing revokes it once assertActive has passed.
OwnersSeeTheTip ==
  \A w \in Tickets :
    writers[w].pc \in {"staged", "pushing"} /\ OwnsLease(w) =>
      \A i \in (writers[w].base + 1)..Len(branch) : ~branch[i].owned

\* A watchdog that runs keeps its writer's lease, whatever other writers, late
\* requests and reclaims do, until the absolute deadline: only LeaseMs missed
\* renewals in a row lose it.
WatchdogKeepsLease ==
  \A w \in Tickets :
    watchdogs[w].state = "running" /\ watchdogs[w].missed < LeaseMs =>
      OwnsLease(w) \/ tickets[w].deadlineIn = 0

\* A writer that waits is answered: it gets the lease, or its ticket ends.
\* Holders that crash, clients that give up and leave their ticket at the head
\* of the queue, and lost answers delay it, but not for ever.
WaitersAreServed ==
  \A w \in Tickets : writers[w].pc = "polling" ~> writers[w].pc # "polling"

\* No watchdog outlives its writer: every way out of the writer closes it.
WatchdogsEnd ==
  \A w \in Tickets :
    writers[w].pc = "ended" ~> watchdogs[w].state \in {"none", "gone"}

=============================================================================
