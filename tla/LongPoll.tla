------------------------------ MODULE LongPoll ------------------------------
(***************************************************************************)
(* How work reaches a waiting agent: the handler of GET /v1/jobs, which     *)
(* subscribes, claims, and holds the request until it is woken or its hold  *)
(* runs out (internal/server/agentapi.go); the PostgreSQL claim, a           *)
(* transaction that locks the rows it selects and skips the rows another     *)
(* claim has locked; the triggers that notify on INSERT and on approval      *)
(* (internal/store/migrations); and each replica's one LISTEN connection,    *)
(* which fans a notification out to the waiters of a host                    *)
(* (internal/store/postgres.go).                                             *)
(*                                                                           *)
(* JobQueue models who may queue and release what, with the claim as one     *)
(* step.  Here the claim has its beginning and its end, the wake-up is a      *)
(* message, and the question is whether work that a host may take is ever    *)
(* left lying while the host's agent waits for it.                           *)
(***************************************************************************)
EXTENDS Naturals, FiniteSets

CONSTANTS
  Jobs,       \* job rows, numbered in the order of issued_at
  Hosts,
  Replicas,   \* control-plane processes on one database
  Polls,      \* places at which a job request may be being served
  JobHost,    \* the host_id of each row
  PollHost,   \* the host whose requests are served at a place
  ServedBy,   \* the replica that serves it
  Limit,      \* rows one claim may take; 10 in handleJobs
  MaxFaults,  \* bound on failed claims, lost connections and crashes
  Nobody

ASSUME PollAssumption ==
  /\ Jobs \subseteq Nat
  /\ JobHost \in [Jobs -> Hosts]
  /\ PollHost \in [Polls -> Hosts]
  /\ ServedBy \in [Polls -> Replicas]
  /\ Limit \in Nat \ {0}
  /\ MaxFaults \in Nat
  /\ Nobody \notin Polls

Notices == [job : Jobs, of : {"insert", "approval"}]
Stages == {"idle", "subscribed", "claiming", "holding", "woken", "reclaiming", "answering"}

VARIABLES
  created, released, open, claimed,   \* the jobs rows: inserted; needing no approval or
                                      \* approved; not_before reached; claimed_at set
  lock,      \* the claim whose transaction holds the row's lock
  stage,     \* where the handler of the request at a place stands
  batch,     \* rows the handler's current or last claim selected
  waiters,   \* channels registered in Postgres.waiters
  taken,     \* channels wake has taken out of the map and not closed yet
  closed,    \* channels closed
  up,        \* replicas whose listener is LISTENing
  inbox,     \* notifications committed and not yet read by a replica's listener
  agent,     \* the request each host's agent is waiting on
  answers,   \* history: committed claims that took the row
  missed,    \* history: rows whose readiness was never announced to the request
  faults

table == <<created, released, open, claimed>>
handlers == <<stage, batch>>
listener == <<taken, closed, up>>
pollVars == <<created, released, open, claimed, lock, stage, batch, waiters, taken, closed,
              up, inbox, agent, answers, missed, faults>>

-----------------------------------------------------------------------------
(* The rows, and what a claim may select.                                    *)

Claimable == (created \cap released \cap open) \ claimed

Locked == {j \in Jobs : lock[j] # Nobody}

\* The selection without FOR UPDATE SKIP LOCKED: rows of a claim in progress are taken too.
AvailableToAll(h) == {j \in Claimable : JobHost[j] = h}

Available(h) == {j \in Claimable \ Locked : JobHost[j] = h}

\* ORDER BY issued_at LIMIT: the earliest of the rows that are not locked, as many as fit.
Selections(h) ==
  {S \in SUBSET Available(h) :
     /\ Cardinality(S) <= Limit
     /\ Cardinality(S) < Limit => S = Available(h)
     /\ \A j \in S, k \in Available(h) \ S : j < k}

\* The request's first claim has read the table, and it may come to be held on what it saw.
HasRead(p) == stage[p] \in {"claiming", "holding"}

(* pg_notify in a trigger reaches, at commit, the connections that are       *)
(* LISTENing at that moment and no others.                                   *)
Post(n) ==
  /\ inbox' = [r \in Replicas |-> IF r \in up THEN inbox[r] \cup {n} ELSE inbox[r]]
  /\ missed' = [p \in Polls |-> IF HasRead(p) /\ ServedBy[p] \notin up THEN missed[p] \cup {n.job}
                                ELSE missed[p]]

\* The schema of migration 0001 alone: an approval notifies nobody.
AnnounceInsertOnly(n) ==
  IF n.of = "insert" THEN Post(n) ELSE UNCHANGED <<inbox, missed>>

Announce(n) == Post(n)

CreateJob(j, needsApproval, opensLater) ==
  /\ j \notin created
  /\ created' = created \cup {j}
  /\ released' = IF needsApproval THEN released ELSE released \cup {j}
  /\ open' = IF opensLater THEN open ELSE open \cup {j}
  /\ Announce([job |-> j, of |-> "insert"])
  /\ UNCHANGED <<claimed, lock, handlers, waiters, listener, agent, answers, faults>>

ApproveJob(j) ==
  /\ j \in created \ released
  /\ released' = released \cup {j}
  /\ Announce([job |-> j, of |-> "approval"])
  /\ UNCHANGED <<created, open, claimed, lock, handlers, waiters, listener, agent, answers, faults>>

(* not_before passes.  No row changes, so no trigger fires.                  *)
WindowOpens(j) ==
  /\ j \in created \ open
  /\ open' = open \cup {j}
  /\ missed' = [p \in Polls |-> IF HasRead(p) THEN missed[p] \cup {j} ELSE missed[p]]
  /\ UNCHANGED <<created, released, claimed, lock, handlers, waiters, listener, inbox, agent,
                 answers, faults>>

-----------------------------------------------------------------------------
(* The handler.                                                              *)

Goes(p, to) == stage' = [stage EXCEPT ![p] = to]

(* An agent asks only when it is not already waiting for an answer.  A place *)
(* is used again once nothing refers to its last channel.                    *)
Subscribe(p) ==
  /\ stage[p] = "idle" /\ p \notin taken
  /\ agent[PollHost[p]] = Nobody
  /\ agent' = [agent EXCEPT ![PollHost[p]] = p]
  /\ waiters' = waiters \cup {p}
  /\ closed' = closed \ {p}
  /\ Goes(p, "subscribed")
  /\ UNCHANGED <<table, lock, batch, taken, up, inbox, answers, missed, faults>>

(* The claim's statement: the rows selected are locked until its transaction *)
(* ends.  What another claim holds locked is passed over in silence.         *)
Claim(p, S) ==
  /\ stage[p] \in {"subscribed", "woken"}
  /\ S \in Selections(PollHost[p])
  /\ lock' = [j \in Jobs |-> IF j \in S THEN p ELSE lock[j]]
  /\ batch' = [batch EXCEPT ![p] = S]
  /\ missed' = [missed EXCEPT ![p] = IF stage[p] = "woken" THEN {} ELSE Locked \cap Claimable]
  /\ Goes(p, IF stage[p] = "woken" THEN "reclaiming" ELSE "claiming")
  /\ UNCHANGED <<table, waiters, listener, inbox, agent, answers, faults>>

Unlock(p) == lock' = [j \in Jobs |-> IF lock[j] = p THEN Nobody ELSE lock[j]]

(* The commit.  A first claim that took nothing is held, unless the agent    *)
(* asked with wait=0; a second one is answered whatever it took.             *)
CommitClaim(p, hold) ==
  /\ stage[p] \in {"claiming", "reclaiming"}
  /\ hold => stage[p] = "claiming" /\ batch[p] = {}
  /\ claimed' = claimed \cup batch[p]
  /\ answers' = [j \in Jobs |-> IF j \in batch[p] THEN answers[j] + 1 ELSE answers[j]]
  /\ Unlock(p)
  /\ Goes(p, IF hold THEN "holding" ELSE "answering")
  /\ UNCHANGED <<created, released, open, batch, waiters, listener, inbox, agent, missed, faults>>

(* The database refuses, or the request's context is cancelled: the claim    *)
(* is rolled back and the answer is a 500.                                   *)
ClaimFails(p) ==
  /\ stage[p] \in {"claiming", "reclaiming"} /\ faults < MaxFaults
  /\ faults' = faults + 1
  /\ batch' = [batch EXCEPT ![p] = {}]
  /\ Unlock(p)
  /\ Goes(p, "answering")
  /\ UNCHANGED <<table, waiters, listener, inbox, agent, answers, missed>>

Woken(p) ==
  /\ stage[p] = "holding" /\ p \in closed
  /\ Goes(p, "woken")
  /\ UNCHANGED <<table, lock, batch, waiters, listener, inbox, agent, answers, missed, faults>>

\* The select without its second case.
HoldNeverExpires(p) ==
  /\ stage[p] = "holding" /\ p \in closed
  /\ Goes(p, "answering")
  /\ UNCHANGED <<table, lock, batch, waiters, listener, inbox, agent, answers, missed, faults>>

(* The hold runs out, or the request's context ends with its connection.     *)
HoldExpires(p) ==
  /\ stage[p] = "holding"
  /\ Goes(p, "answering")
  /\ UNCHANGED <<table, lock, batch, waiters, listener, inbox, agent, answers, missed, faults>>

\* Nothing drops the waiter of a request that was not woken.
WaitersKept(p) == waiters

removeWaiter(p) == waiters \ {p}

(* The response is written and the deferred unsubscribe runs.  If the agent  *)
(* has given up meanwhile, the response reaches nobody.                      *)
Answer(p) ==
  /\ stage[p] = "answering"
  /\ waiters' = removeWaiter(p)
  /\ agent' = [h \in Hosts |-> IF agent[h] = p THEN Nobody ELSE agent[h]]
  /\ batch' = [batch EXCEPT ![p] = {}]
  /\ closed' = closed \ {p}
  /\ missed' = [missed EXCEPT ![p] = {}]
  /\ Goes(p, "idle")
  /\ UNCHANGED <<table, lock, taken, up, inbox, answers, faults>>

-----------------------------------------------------------------------------
(* The listener of a replica.                                                *)

(* wake takes a host's channels out of the map under the mutex, and closes   *)
(* them after releasing it.                                                  *)
Wake(r, n) ==
  /\ r \in up /\ n \in inbox[r]
  /\ \A p \in taken : ServedBy[p] # r
  /\ LET ws == {p \in waiters : ServedBy[p] = r /\ PollHost[p] = JobHost[n.job]} IN
       /\ waiters' = waiters \ ws
       /\ taken' = taken \cup ws
  /\ inbox' = [inbox EXCEPT ![r] = @ \ {n}]
  /\ UNCHANGED <<table, lock, handlers, closed, up, agent, answers, missed, faults>>

CloseTaken(r) ==
  LET ws == {p \in taken : ServedBy[p] = r} IN
  /\ ws # {}
  /\ taken' = taken \ ws
  /\ closed' = closed \cup ws
  /\ UNCHANGED <<table, lock, handlers, waiters, up, inbox, agent, answers, missed, faults>>

(* The connection drops, and with it every notification not yet read.        *)
ListenerFails(r) ==
  /\ r \in up
  /\ \A p \in taken : ServedBy[p] # r
  /\ up' = up \ {r}
  /\ inbox' = [inbox EXCEPT ![r] = {}]
  /\ missed' = [p \in Polls |-> IF HasRead(p) /\ ServedBy[p] = r
                                THEN missed[p] \cup {n.job : n \in inbox[r]} ELSE missed[p]]
  /\ UNCHANGED <<table, lock, handlers, waiters, taken, closed, agent, answers, faults>>

(* listenOnce LISTENs again, and deliberately wakes nobody.                  *)
ListenerReturns(r) ==
  /\ r \notin up
  /\ up' = up \cup {r}
  /\ UNCHANGED <<table, lock, handlers, waiters, taken, closed, inbox, agent, answers, missed, faults>>

-----------------------------------------------------------------------------
(* The world around them.                                                    *)

(* The agent's own deadline passes or its connection is cut; the handler     *)
(* does not know yet.                                                        *)
ConnectionLost(h) ==
  /\ agent[h] # Nobody /\ faults < MaxFaults
  /\ faults' = faults + 1
  /\ agent' = [agent EXCEPT ![h] = Nobody]
  /\ UNCHANGED <<table, lock, handlers, waiters, listener, inbox, answers, missed>>

(* A replica dies: its requests, its waiters and its open claims with it.    *)
ReplicaCrash(r) ==
  LET here == {p \in Polls : ServedBy[p] = r} IN
  /\ faults < MaxFaults
  /\ faults' = faults + 1
  /\ stage' = [p \in Polls |-> IF p \in here THEN "idle" ELSE stage[p]]
  /\ batch' = [p \in Polls |-> IF p \in here THEN {} ELSE batch[p]]
  /\ lock' = [j \in Jobs |-> IF lock[j] \in here THEN Nobody ELSE lock[j]]
  /\ agent' = [h \in Hosts |-> IF agent[h] \in here THEN Nobody ELSE agent[h]]
  /\ waiters' = waiters \ here
  /\ taken' = taken \ here
  /\ closed' = closed \ here
  /\ up' = up \ {r}
  /\ inbox' = [inbox EXCEPT ![r] = {}]
  /\ missed' = [p \in Polls |-> IF p \in here THEN {} ELSE missed[p]]
  /\ UNCHANGED <<table, answers>>

-----------------------------------------------------------------------------
PollInit ==
  /\ created = {} /\ released = {} /\ open = {} /\ claimed = {}
  /\ lock = [j \in Jobs |-> Nobody]
  /\ stage = [p \in Polls |-> "idle"]
  /\ batch = [p \in Polls |-> {}]
  /\ waiters = {} /\ taken = {} /\ closed = {}
  /\ up = {}
  /\ inbox = [r \in Replicas |-> {}]
  /\ agent = [h \in Hosts |-> Nobody]
  /\ answers = [j \in Jobs |-> 0]
  /\ missed = [p \in Polls |-> {}]
  /\ faults = 0

OperatorStep ==
  \E j \in Jobs : \/ \E a, l \in BOOLEAN : CreateJob(j, a, l)
                  \/ ApproveJob(j)
                  \/ WindowOpens(j)

HandlerStep(p) ==
  \/ \E S \in SUBSET Jobs : Claim(p, S)
  \/ \E hold \in BOOLEAN : CommitClaim(p, hold)
  \/ Woken(p)
  \/ HoldExpires(p)
  \/ Answer(p)

AgentAsks(h) == \E p \in Polls : PollHost[p] = h /\ Subscribe(p)

ListenerStep(r) ==
  \/ \E n \in Notices : Wake(r, n)
  \/ CloseTaken(r)
  \/ ListenerFails(r)
  \/ ListenerReturns(r)

PollNext ==
  \/ OperatorStep
  \/ \E h \in Hosts : AgentAsks(h) \/ ConnectionLost(h)
  \/ \E p \in Polls : HandlerStep(p) \/ ClaimFails(p)
  \/ \E r \in Replicas : ListenerStep(r) \/ ReplicaCrash(r)

PollSpec == PollInit /\ [][PollNext]_pollVars

(* A handler's goroutine runs on, a hold of at most sixty seconds runs out,  *)
(* an agent whose request ended asks again, and wake's loop finishes.         *)
(* Nothing is assumed of the listener's connection, which may stay down, or   *)
(* of any notification.                                                       *)
FairSpec ==
  /\ PollSpec
  /\ \A p \in Polls : WF_pollVars(HandlerStep(p))
  /\ \A h \in Hosts : WF_pollVars(AgentAsks(h))
  /\ \A r \in Replicas : WF_pollVars(CloseTaken(r))

-----------------------------------------------------------------------------
(* The variables have their types.                                           *)
PollTypeOK ==
  /\ created \subseteq Jobs /\ released \subseteq Jobs
  /\ open \subseteq Jobs /\ claimed \subseteq Jobs
  /\ lock \in [Jobs -> Polls \cup {Nobody}]
  /\ stage \in [Polls -> Stages]
  /\ batch \in [Polls -> SUBSET Jobs]
  /\ waiters \subseteq Polls /\ taken \subseteq Polls /\ closed \subseteq Polls
  /\ up \subseteq Replicas
  /\ inbox \in [Replicas -> SUBSET Notices]
  /\ agent \in [Hosts -> Polls \cup {Nobody}]
  /\ answers \in [Jobs -> Nat]
  /\ missed \in [Polls -> SUBSET Jobs]
  /\ faults \in 0 .. MaxFaults

(* Two replicas claiming for one host at once take disjoint rows: no row is  *)
(* taken by two committed claims, so none is put in two responses             *)
(* (ClaimJobs, FOR UPDATE SKIP LOCKED).                                       *)
ClaimedByOne == \A j \in Jobs : answers[j] <= 1

\* The request at p has been woken, is being woken, or has its wake-up under way to it.
Signalled(p) ==
  \/ p \in closed \cup taken
  \/ p \in waiters /\ \E n \in inbox[ServedBy[p]] : JobHost[n.job] = PollHost[p]

(* Subscribing before the claim leaves no gap (handleJobs): a request is not *)
(* held over work its host may take unless its wake-up is on its way, for    *)
(* every row except those the design gives no signal for: one whose window   *)
(* opened by the clock, one that another claim had locked when this one      *)
(* read, and one announced while the replica's listener was down.            *)
NoLostWakeUp ==
  \A p \in Polls : stage[p] = "holding" =>
    \A j \in Claimable : JobHost[j] = PollHost[p] /\ j \notin missed[p] => Signalled(p)

(* Every registered channel belongs to a request still being served: timing  *)
(* out, being woken, failing and crashing all drop it, in whatever order      *)
(* wake and removeWaiter meet, so that the map does not grow with uptime.     *)
NoDeadWaiters == \A p \in waiters : stage[p] # "idle"

(* Work a host may take is claimed in the end, even if every notification is *)
(* lost: the hold runs out and the next request reads the table (the          *)
(* argument listenOnce gives for waking nobody when it reconnects).           *)
ReadyWorkIsClaimed == \A j \in Jobs : (j \in Claimable) ~> (j \in claimed)

-----------------------------------------------------------------------------
(* The parts of the inductive invariant.                                     *)

\* A claim in progress holds the lock of each row it selected, and none of them is claimed yet.
ClaimsHoldLocks ==
  \A p \in Polls : stage[p] \in {"claiming", "reclaiming"} =>
    \A j \in batch[p] : lock[j] = p /\ j \notin claimed

AnswersCount == \A j \in Jobs : answers[j] = IF j \in claimed THEN 1 ELSE 0

\* A request that may be held is registered, or its wake-up has begun.
StillListening ==
  \A p \in Polls : stage[p] \in {"subscribed", "claiming", "holding"} => p \in waiters \cup taken \cup closed

HeldEmptyHanded == \A p \in Polls : stage[p] = "holding" => batch[p] = {}

\* Stronger than NoLostWakeUp by naming the notice: losing the inbox loses nothing else.
Announced(p, j) ==
  \/ p \in closed \cup taken
  \/ p \in waiters /\ \E n \in inbox[ServedBy[p]] : n.job = j

NewWorkIsAnnounced ==
  \A p \in Polls : HasRead(p) /\ batch[p] = {} =>
    \A j \in Claimable : JobHost[j] = PollHost[p] /\ j \notin missed[p] => Announced(p, j)

(* What the handlers of every replica keep: a claim in progress owns the rows *)
(* it selected, a row is answered as often as it is claimed, a held request   *)
(* is registered or being woken, work it could take is announced to it, and   *)
(* the map of waiters holds no request that is over (handleJobs, wake,        *)
(* removeWaiter, ClaimJobs).                                                  *)
PollInv ==
  /\ PollTypeOK
  /\ ClaimsHoldLocks
  /\ AnswersCount
  /\ StillListening
  /\ HeldEmptyHanded
  /\ NewWorkIsAnnounced
  /\ NoDeadWaiters

=============================================================================
