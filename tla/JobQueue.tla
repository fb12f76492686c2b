------------------------------- MODULE JobQueue -------------------------------
(***************************************************************************)
(* The control plane's job queue: one tenant's job table (internal/store), *)
(* the operator handlers that create and release jobs (server/jobsapi.go), *)
(* the agent handlers that claim them and report results                   *)
(* (server/agentapi.go), and the administrative operations that race them. *)
(*                                                                         *)
(* A handler that reads the store, decides, and then writes is several     *)
(* actions here, because other requests run between its two statements; a  *)
(* store function is one action, because it is one transaction in          *)
(* PostgreSQL and one critical section in the memory store.                *)
(***************************************************************************)
EXTENDS Naturals, FiniteSets

CONSTANTS
    Hosts,          \* host ids; random, so a deleted one never comes back
    Operators,      \* principals that may create and approve jobs
    SignerIds,      \* job ids an offline signer may choose
    ServerIds,      \* job ids and nonces minted by NewID, never repeated
    SignerNonces,   \* nonces an offline signer may choose
    OpSlots,        \* operator requests that may be in flight at once
    AgentSlots,     \* agent requests that may be in flight at once
    Statuses,       \* terminal statuses a host may report
    FailureStatuses,\* the ones an operator is notified about
    ClaimLimit,     \* jobs handed out by one response
    MaxClockSkew,   \* protocol.MaxClockSkewSeconds
    MaxTime,        \* bound on the control plane's clock
    NoOne, NoRow, NoResult

ASSUME JobQueueAssumptions ==
    /\ IsFiniteSet(SignerIds) /\ IsFiniteSet(ServerIds)   \* ids have a bounded length
    /\ ServerIds \cap SignerIds = {}
    /\ ServerIds \cap SignerNonces = {}
    /\ NoOne \notin Operators
    /\ NoResult \notin Statuses
    /\ FailureStatuses \subseteq Statuses
    /\ ClaimLimit \in Nat \ {0}
    /\ MaxClockSkew \in Nat
    /\ MaxTime \in Nat

Ids == SignerIds \cup ServerIds
Nonces == SignerNonces \cup ServerIds
Modes == {"none", "self", "second_person"}
Classes == {"read", "routine", "destructive"}
Time == 0 .. MaxTime

\* One row of the jobs table, with its result. A result and completed_at are
\* written by one transaction, so one field stands for both.
Rows == [host : Hosts, class : Classes, nonce : Nonces, notBefore : Time,
         issuedAt : Time, createdBy : Operators,
         approvalRequired : BOOLEAN, distinct : BOOLEAN,
         approvedBy : Operators \cup {NoOne},
         claimed : BOOLEAN, result : Statuses \cup {NoResult}]

\* A missing row is told apart from every row.
ASSUME NoRowAssumption == NoRow \notin Rows

Idle == [kind |-> "idle"]

\* An operator request between its reads and its write.
OpRequests ==
    {Idle}
    \cup [kind : {"create"}, id : Ids, row : Rows]
    \cup [kind : {"approve"}, id : Ids, by : Operators]

\* An agent request past requireAgent and not yet answered.
AgentRequests ==
    {Idle}
    \cup [kind : {"subscribed", "waiting"}, host : Hosts]
    \cup [kind : {"result"}, host : Hosts, id : Ids, status : Statuses]

VARIABLES
    host,       \* the hosts table: live, revoked or deleted
    mode,       \* the tenant's approval mode
    suspended,  \* whether the tenant's agents are answered
    row,        \* the jobs table
    minted,     \* ids NewID has returned
    opReq,      \* operator requests in flight
    agentReq,   \* agent requests in flight
    now,        \* the control plane's clock
    handed,     \* history: how often each (host, nonce) was put in a response
    notified    \* history: failure events emitted for each (host, id)

vars == <<host, mode, suspended, row, minted, opReq, agentReq, now, handed, notified>>
tenant == <<mode, suspended>>
history == <<handed, notified>>

Init ==
    /\ host = [h \in Hosts |-> "live"]
    /\ mode \in Modes
    /\ suspended = FALSE
    /\ row = [j \in Ids |-> NoRow]
    /\ minted = {}
    /\ opReq = [s \in OpSlots |-> Idle]
    /\ agentReq = [a \in AgentSlots |-> Idle]
    /\ now = 0
    /\ handed = [h \in Hosts |-> [n \in Nonces |-> 0]]
    /\ notified = [h \in Hosts |-> [j \in Ids |-> 0]]

-----------------------------------------------------------------------------
(* The rules of the store *)

Present == {j \in Ids : row[j] # NoRow}

RequiresApproval(m) == m \in {"self", "second_person"}

RequiresDistinctOperator(m) == m = "second_person"

AwaitingApproval(r) == r.approvalRequired /\ r.approvedBy = NoOne

Claimable(r) == ~r.claimed /\ r.result = NoResult /\ ~AwaitingApproval(r)

\* The rows ClaimJobs may return to host h: claimable ones whose window has
\* opened on the control plane's clock.
Offered(h) ==
    {j \in Present : row[j].host = h /\ Claimable(row[j]) /\ row[j].notBefore <= now}

\* ClaimJobs returns the oldest rows, at most ClaimLimit of them.
Batch(h, S) ==
    /\ S \subseteq Offered(h)
    /\ Cardinality(S) = IF Cardinality(Offered(h)) < ClaimLimit
                        THEN Cardinality(Offered(h)) ELSE ClaimLimit
    /\ \A j \in S, k \in Offered(h) \ S : row[j].issuedAt <= row[k].issuedAt

\* Mutation: the release is judged by the tenant's mode as it stands now.
MayReleaseByMode(r, who) ==
    AwaitingApproval(r) /\ (RequiresDistinctOperator(mode) => r.createdBy # who)

\* Mutation: an approval may be recorded over an earlier one.
MayReleaseAgain(r, who) ==
    r.approvalRequired /\ (r.distinct => r.createdBy # who)

MayRelease(r, who) == AwaitingApproval(r) /\ (r.distinct => r.createdBy # who)

\* Mutation: the signed-nonce index is missing.
ConflictsOnIdOnly(id, r) == row[id] # NoRow

\* A primary key taken, or a signed nonce already queued for that host.
Conflicts(id, r) ==
    \/ row[id] # NoRow
    \/ /\ r.class # "read"
       /\ \E j \in Present : /\ row[j].host = r.host
                             /\ row[j].nonce = r.nonce
                             /\ row[j].class # "read"

\* Mutation: the host is not looked up again by the insert.
HostKnownEarlier(h) == TRUE

\* The foreign key of jobs on hosts: the host row still exists.
HostExists(h) == host[h] # "deleted"

\* Mutation: requireAgent does not look at revocation.
AdmittedWhateverRevoked(h) == host[h] # "deleted" /\ ~suspended

\* requireAgent: the certificate row exists and is not revoked, the tenant is
\* not suspended, and the host row exists and is not revoked. A revocation
\* changes host and certificates in one transaction.
Admitted(h) == host[h] = "live" /\ ~suspended

MayReport(h, j) == row[j] # NoRow /\ row[j].host = h /\ row[j].claimed

-----------------------------------------------------------------------------
(* Operator requests *)

\* signRoutine backdates notBefore by the tolerated clock skew.
RoutineNotBefore == IF now < MaxClockSkew THEN 0 ELSE now - MaxClockSkew

\* The row a validated request will insert. The approval rule is the mode the
\* handler read, and only destructive jobs are subject to it.
BuildRow(o, h, c, n, nb) ==
    [host |-> h, class |-> c, nonce |-> n, notBefore |-> nb, issuedAt |-> now,
     createdBy |-> o,
     approvalRequired |-> c = "destructive" /\ RequiresApproval(mode),
     distinct |-> c = "destructive" /\ RequiresDistinctOperator(mode),
     approvedBy |-> NoOne, claimed |-> FALSE, result |-> NoResult]

\* handleCreateJob up to the store call, for an offline-signed destructive job:
\* everything the signature covers is the signer's, and the host must be live.
BeginCreateSigned(s, o, h, id, n, nb) ==
    /\ opReq[s] = Idle
    /\ host[h] = "live"
    /\ opReq' = [opReq EXCEPT ![s] =
          [kind |-> "create", id |-> id, row |-> BuildRow(o, h, "destructive", n, nb)]]
    /\ UNCHANGED <<host, tenant, row, minted, agentReq, now, history>>

\* The same for a read or routine job: the control plane chooses id, nonce and
\* window. One fresh value stands for both the id and the nonce it mints.
BeginCreateMinted(s, o, h, c, id) ==
    /\ opReq[s] = Idle
    /\ host[h] = "live"
    /\ id \notin minted
    /\ minted' = minted \cup {id}
    /\ opReq' = [opReq EXCEPT ![s] =
          [kind |-> "create", id |-> id,
           row |-> BuildRow(o, h, c, id, IF c = "routine" THEN RoutineNotBefore ELSE 0)]]
    /\ UNCHANGED <<host, tenant, row, agentReq, now, history>>

\* store.CreateJob: ErrNotFound without the host, ErrConflict on a duplicate,
\* and otherwise the insert.
CreateJob(s) ==
    /\ opReq[s].kind = "create"
    /\ row' = IF HostExists(opReq[s].row.host) /\ ~Conflicts(opReq[s].id, opReq[s].row)
              THEN [row EXCEPT ![opReq[s].id] = opReq[s].row]
              ELSE row
    /\ opReq' = [opReq EXCEPT ![s] = Idle]
    /\ UNCHANGED <<host, tenant, minted, agentReq, now, history>>

\* handleApproveJob up to the store call: the row is read, and a job that
\* could not be released as it stands is refused with a reason.
BeginApprove(s, o, j) ==
    /\ opReq[s] = Idle
    /\ row[j] # NoRow
    /\ MayRelease(row[j], o)
    /\ opReq' = [opReq EXCEPT ![s] = [kind |-> "approve", id |-> j, by |-> o]]
    /\ UNCHANGED <<host, tenant, row, minted, agentReq, now, history>>

\* store.ApproveJob decides again, on the row as it is now.
ApproveJob(s) ==
    /\ opReq[s].kind = "approve"
    /\ LET j == opReq[s].id IN
       row' = IF row[j] # NoRow /\ MayRelease(row[j], opReq[s].by)
              THEN [row EXCEPT ![j].approvedBy = opReq[s].by]
              ELSE row
    /\ opReq' = [opReq EXCEPT ![s] = Idle]
    /\ UNCHANGED <<host, tenant, minted, agentReq, now, history>>

-----------------------------------------------------------------------------
(* Administration *)

\* store.UpdateTenant, the two fields the queue depends on.
UpdateTenant(m, b) ==
    /\ <<m, b>> # <<mode, suspended>>
    /\ mode' = m
    /\ suspended' = b
    /\ UNCHANGED <<host, row, minted, opReq, agentReq, now, history>>

RevokeHost(h) ==
    /\ host[h] = "live"
    /\ host' = [host EXCEPT ![h] = "revoked"]
    /\ UNCHANGED <<tenant, row, minted, opReq, agentReq, now, history>>

\* The jobs and results of a deleted host go with it.
RowsWithout(h) ==
    [j \in Ids |-> IF row[j] # NoRow /\ row[j].host = h THEN NoRow ELSE row[j]]

DeleteHost(h) ==
    /\ host[h] # "deleted"
    /\ host' = [host EXCEPT ![h] = "deleted"]
    /\ row' = RowsWithout(h)
    /\ UNCHANGED <<tenant, minted, opReq, agentReq, now, history>>

-----------------------------------------------------------------------------
(* Agent requests *)

\* handleJobs past requireAgent: it subscribes before it reads the queue.
BeginPoll(a, h) ==
    /\ agentReq[a] = Idle
    /\ Admitted(h)
    /\ agentReq' = [agentReq EXCEPT ![a] = [kind |-> "subscribed", host |-> h]]
    /\ UNCHANGED <<host, tenant, row, minted, opReq, now, history>>

\* UPDATE jobs SET claimed_at
StampClaimed(S) ==
    [j \in Ids |-> IF j \in S THEN [row[j] EXCEPT !.claimed = TRUE] ELSE row[j]]

\* store.ClaimJobs for host h, returning the batch S.
ClaimJobs(h, S) ==
    /\ Batch(h, S)
    /\ row' = StampClaimed(S)
    /\ handed' = [handed EXCEPT ![h] =
           [n \in Nonces |-> @[n] + Cardinality({j \in S : row[j].nonce = n})]]
    /\ UNCHANGED notified

\* The first read of the queue. Jobs, or wait=0, answer the request; otherwise
\* it is held.
ClaimFirst(a) ==
    /\ agentReq[a].kind = "subscribed"
    /\ \E S \in SUBSET Offered(agentReq[a].host) :
          /\ ClaimJobs(agentReq[a].host, S)
          /\ \/ agentReq' = [agentReq EXCEPT ![a] = Idle]
             \/ /\ S = {}
                /\ agentReq' = [agentReq EXCEPT ![a].kind = "waiting"]
    /\ UNCHANGED <<host, tenant, minted, opReq, now>>

\* The one re-read after a wake-up, which may be spurious. requireAgent is not
\* run again, however long the request was held.
ClaimAfterWake(a) ==
    /\ agentReq[a].kind = "waiting"
    /\ \E S \in SUBSET Offered(agentReq[a].host) : ClaimJobs(agentReq[a].host, S)
    /\ agentReq' = [agentReq EXCEPT ![a] = Idle]
    /\ UNCHANGED <<host, tenant, minted, opReq, now>>

\* The hold expires and the request is answered with no jobs.
PollTimeout(a) ==
    /\ agentReq[a].kind = "waiting"
    /\ agentReq' = [agentReq EXCEPT ![a] = Idle]
    /\ UNCHANGED <<host, tenant, row, minted, opReq, now, history>>

\* handleResult past requireAgent and the status check. An enrolled host is
\* authenticated and not trusted: it may name any job and any status.
BeginResult(a, h, j, st) ==
    /\ agentReq[a] = Idle
    /\ Admitted(h)
    /\ agentReq' = [agentReq EXCEPT ![a] =
          [kind |-> "result", host |-> h, id |-> j, status |-> st]]
    /\ UNCHANGED <<host, tenant, row, minted, opReq, now, history>>

\* ON CONFLICT DO NOTHING: only the first result of a job is stored.
IsFirstResult(j) == row[j].result = NoResult

\* store.RecordResult, and the event handleResult emits for a first failure.
RecordResult(a) ==
    /\ agentReq[a].kind = "result"
    /\ LET h == agentReq[a].host
           j == agentReq[a].id
           st == agentReq[a].status
           first == MayReport(h, j) /\ IsFirstResult(j)
       IN /\ row' = IF first THEN [row EXCEPT ![j].result = st] ELSE row
          /\ notified' = IF first /\ st \in FailureStatuses
                         THEN [notified EXCEPT ![h][j] = @ + 1] ELSE notified
    /\ agentReq' = [agentReq EXCEPT ![a] = Idle]
    /\ UNCHANGED <<host, tenant, minted, opReq, now, handed>>

-----------------------------------------------------------------------------
(* The environment *)

Tick ==
    /\ now < MaxTime
    /\ now' = now + 1
    /\ UNCHANGED <<host, tenant, row, minted, opReq, agentReq, history>>

\* The process stops between two statements of its handlers: every request in
\* flight is gone, everything committed stays.
ServerRestart ==
    /\ \/ \E s \in OpSlots : opReq[s] # Idle
       \/ \E a \in AgentSlots : agentReq[a] # Idle
    /\ opReq' = [s \in OpSlots |-> Idle]
    /\ agentReq' = [a \in AgentSlots |-> Idle]
    /\ UNCHANGED <<host, tenant, row, minted, now, history>>

\* The quantifiers are what validateJobRequest lets through: a destructive job
\* brings its own id, nonce and window, the others bring none.
OperatorStep ==
    \E s \in OpSlots :
        \/ \E o \in Operators, h \in Hosts :
              \/ \E id \in SignerIds, n \in SignerNonces, nb \in Time :
                    BeginCreateSigned(s, o, h, id, n, nb)
              \/ \E c \in {"read", "routine"}, id \in ServerIds :
                    BeginCreateMinted(s, o, h, c, id)
        \/ CreateJob(s)
        \/ \E o \in Operators, j \in Ids : BeginApprove(s, o, j)
        \/ ApproveJob(s)

AgentStep ==
    \E a \in AgentSlots :
        \/ \E h \in Hosts : BeginPoll(a, h)
        \/ ClaimFirst(a)
        \/ ClaimAfterWake(a)
        \/ PollTimeout(a)
        \/ \E h \in Hosts, j \in Ids, st \in Statuses : BeginResult(a, h, j, st)
        \/ RecordResult(a)

AdminStep ==
    \/ \E m \in Modes, b \in BOOLEAN : UpdateTenant(m, b)
    \/ \E h \in Hosts : RevokeHost(h) \/ DeleteHost(h)

Next == OperatorStep \/ AgentStep \/ AdminStep \/ Tick \/ ServerRestart

Spec == Init /\ [][Next]_vars

-----------------------------------------------------------------------------
(* What is right about the queue *)

\* Every variable holds a value of its kind; in particular a row the table
\* holds has every column the handlers read.
TypeOK ==
    /\ host \in [Hosts -> {"live", "revoked", "deleted"}]
    /\ mode \in Modes
    /\ suspended \in BOOLEAN
    /\ row \in [Ids -> Rows \cup {NoRow}]
    /\ minted \subseteq ServerIds
    /\ opReq \in [OpSlots -> OpRequests]
    /\ agentReq \in [AgentSlots -> AgentRequests]
    /\ now \in Time
    /\ handed \in [Hosts -> [Nonces -> Nat]]
    /\ notified \in [Hosts -> [Ids -> Nat]]

\* Work a host was given was released under the rule the job was created
\* under: whatever the tenant's mode became since, a job queued under the
\* two-person rule was approved by somebody who did not create it. A result
\* exists only for work that was given out (ApproveJob, ClaimJobs,
\* RecordResult and UpdateTenant interleaved).
OnlyReleasedWorkRuns ==
    \A j \in Present :
        /\ row[j].claimed =>
              (row[j].approvalRequired => row[j].approvedBy \in Operators)
        /\ row[j].claimed /\ row[j].distinct => row[j].approvedBy # row[j].createdBy
        /\ row[j].result # NoResult => row[j].claimed

\* A payload - a host and a nonce - is put in at most one response, ever: not
\* by two polls racing, not by queueing the signed job again, not after its
\* host was deleted and its rows with it (ClaimJobs, CreateJob, DeleteHost).
HandedOutOnce == \A h \in Hosts, n \in Nonces : handed[h][n] <= 1

\* No job outlives its host: deleting a host cancels the work waiting for it,
\* also the work whose create or approve request was already past its reads.
NoJobOfADeletedHost == \A j \in Present : host[row[j].host] # "deleted"

\* An operator is notified at most once about one job's failure, however
\* often the agent repeats its report, and the notification is true: the host
\* it names owns the job, and a failure is the result on record
\* (handleResult, RecordResult).
NotificationsAreTrue ==
    \A h \in Hosts, j \in Ids :
        /\ notified[h][j] <= 1
        /\ notified[h][j] = 1 /\ host[h] # "deleted" =>
              /\ row[j] # NoRow
              /\ row[j].host = h
              /\ row[j].result \in FailureStatuses

\* The word a client shows for a job (jobState), as a rank.
StateRank(r) ==
    CASE r.result # NoResult -> 3
      [] r.result = NoResult /\ r.claimed -> 2
      [] r.result = NoResult /\ ~r.claimed /\ ~AwaitingApproval(r) -> 1
      [] OTHER -> 0

\* A job's state word only advances - awaiting, queued, running, reported -
\* and neither its recorded result, nor who released it, nor the rule it
\* needed is ever rewritten; the only other end is deletion with its host.
JobHistoryIsFinal ==
    [][\A j \in Present :
          \/ row'[j] = NoRow /\ host'[row[j].host] = "deleted"
          \/ /\ row'[j] # NoRow
             /\ StateRank(row[j]) <= StateRank(row'[j])
             /\ row[j].result # NoResult => row'[j].result = row[j].result
             /\ row[j].approvedBy # NoOne => row'[j].approvedBy = row[j].approvedBy
             /\ [row'[j] EXCEPT !.approvedBy = NoOne, !.claimed = FALSE, !.result = NoResult]
                = [row[j] EXCEPT !.approvedBy = NoOne, !.claimed = FALSE, !.result = NoResult]
      ]_vars

InFlight(h) == {a \in AgentSlots : agentReq[a] # Idle /\ agentReq[a].host = h}

\* Revocation works on the host's next request: once a host is revoked or
\* deleted and the requests it already had are answered, no request of it is
\* ever admitted again and none of its jobs is claimed or completed.
RevocationCutsOff ==
    [][\A h \in Hosts :
          host[h] # "live" /\ InFlight(h) = {} =>
             /\ InFlight(h)' = {}
             /\ \A j \in Present : row[j].host = h /\ row'[j] # NoRow =>
                   /\ row'[j].claimed = row[j].claimed
                   /\ row'[j].result = row[j].result
      ]_vars

-----------------------------------------------------------------------------
(* Why: the inductive invariant behind the safety properties *)

\* A minted nonce belongs to one id, and only minted nonces are unsigned.
NonceOwned(j, r) ==
    /\ r.nonce \in ServerIds => r.nonce = j
    /\ r.class = "read" => r.nonce \in ServerIds

\* A row about to be inserted carries no decision yet.
PendingRowsAreFresh ==
    \A s \in OpSlots : opReq[s].kind = "create" =>
        /\ opReq[s].row.approvedBy = NoOne
        /\ ~opReq[s].row.claimed
        /\ opReq[s].row.result = NoResult
        /\ NonceOwned(opReq[s].id, opReq[s].row)

\* A host and a nonce identify one row, signed or not.
PayloadIsAKey ==
    \A j \in Present :
        /\ NonceOwned(j, row[j])
        /\ \A k \in Present :
              row[j].host = row[k].host /\ row[j].nonce = row[k].nonce => j = k

\* A payload that was handed out is still recorded as claimed, as long as its
\* host exists: this is what refuses it the second time.
HandedRowsStay ==
    \A h \in Hosts, n \in Nonces :
        /\ handed[h][n] <= 1
        /\ handed[h][n] = 1 /\ host[h] # "deleted" =>
              \E j \in Present : row[j].host = h /\ row[j].nonce = n /\ row[j].claimed

\* Nobody's own job carries their approval where the row asks for another's,
\* also before it is claimed.
ReleasedByAnother ==
    \A j \in Present : row[j].distinct => row[j].approvedBy # row[j].createdBy

\* What the queue keeps at every moment, with every request still in flight:
\* nothing unreleased is claimed, no job is left without its host, a payload
\* that was handed out is on record as claimed, one row carries one payload,
\* and a notification was sent at most once and is true (CreateJob, ApproveJob,
\* ClaimJobs, RecordResult, DeleteHost).
QueueInv ==
    /\ TypeOK
    /\ PendingRowsAreFresh
    /\ PayloadIsAKey
    /\ ReleasedByAnother
    /\ OnlyReleasedWorkRuns
    /\ NoJobOfADeletedHost
    /\ HandedRowsStay
    /\ NotificationsAreTrue

=============================================================================
