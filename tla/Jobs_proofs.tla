----------------------------- MODULE Jobs_proofs -----------------------------
(***************************************************************************)
(* What becomes of a job.  The queue hands it out: JobQueue, for every set *)
(* of hosts, operators, ids and requests in flight.  The host has the last *)
(* word: its maintenance window (Window), for every day length, zone with  *)
(* a constant offset, specification and instant, and the root helpers that *)
(* enforce its policy (Helpers), for every set of processes, policies and  *)
(* requests.                                                               *)
(***************************************************************************)
EXTENDS JobQueue, Window, Helpers, FiniteSetTheorems, TLAPS

-----------------------------------------------------------------------------
(* Records *)

\* A result request in flight names a host, a job and a status (handleResult).
LEMMA ResultRequestFields ==
    ASSUME NEW q \in AgentRequests, q.kind = "result"
    PROVE  q.host \in Hosts /\ q.id \in Ids /\ q.status \in Statuses
<1>1. q \notin {Idle}
  BY DEF Idle
<1>2. q \notin [kind : {"subscribed", "waiting"}, host : Hosts]
  OBVIOUS
<1> QED BY <1>1, <1>2 DEF AgentRequests

\* Stamping a row as claimed changes that column only (ClaimJobs).
LEMMA ClaimedColumn ==
    ASSUME NEW r \in Rows,
           NEW e, e = [r EXCEPT !.claimed = TRUE]
    PROVE  /\ e \in Rows /\ e.claimed
           /\ e.host = r.host /\ e.nonce = r.nonce /\ e.class = r.class
           /\ e.result = r.result /\ e.approvedBy = r.approvedBy
           /\ e.createdBy = r.createdBy /\ e.distinct = r.distinct
           /\ e.approvalRequired = r.approvalRequired
BY DEF Rows

\* Storing a result changes that column only (RecordResult).
LEMMA ResultColumn ==
    ASSUME NEW r \in Rows, NEW st \in Statuses,
           NEW e, e = [r EXCEPT !.result = st]
    PROVE  /\ e \in Rows /\ e.result = st
           /\ e.host = r.host /\ e.nonce = r.nonce /\ e.class = r.class
           /\ e.claimed = r.claimed /\ e.approvedBy = r.approvedBy
           /\ e.createdBy = r.createdBy /\ e.distinct = r.distinct
           /\ e.approvalRequired = r.approvalRequired
BY DEF Rows

-----------------------------------------------------------------------------
(* Type correctness of the queue *)

\* What BuildRow returns for well-typed arguments is a row of the table: the
\* approval flags of handleCreateJob are booleans whatever mode it read.
LEMMA BuildRowType ==
    ASSUME TypeOK,
           NEW o \in Operators, NEW h \in Hosts, NEW c \in Classes,
           NEW n \in Nonces, NEW nb \in Time
    PROVE  BuildRow(o, h, c, n, nb) \in Rows
BY JobQueueAssumptions DEF BuildRow, Rows, TypeOK, RequiresApproval, RequiresDistinctOperator

\* Every step of an operator's request keeps the types.
LEMMA OperatorStepType == TypeOK /\ OperatorStep => TypeOK'
<1> SUFFICES ASSUME TypeOK, NEW s \in OpSlots,
                    \/ \E o \in Operators, h \in Hosts :
                          \/ \E id \in SignerIds, n \in SignerNonces, nb \in Time :
                                BeginCreateSigned(s, o, h, id, n, nb)
                          \/ \E c \in {"read", "routine"}, id \in ServerIds :
                                BeginCreateMinted(s, o, h, c, id)
                    \/ CreateJob(s)
                    \/ \E o \in Operators, j \in Ids : BeginApprove(s, o, j)
                    \/ ApproveJob(s)
             PROVE  TypeOK'
  BY DEF OperatorStep
<1>1. ASSUME NEW o \in Operators, NEW h \in Hosts, NEW id \in SignerIds,
             NEW n \in SignerNonces, NEW nb \in Time,
             BeginCreateSigned(s, o, h, id, n, nb)
      PROVE  TypeOK'
  <2>1. BuildRow(o, h, "destructive", n, nb) \in Rows
    BY BuildRowType DEF Classes, Nonces
  <2>2. [kind |-> "create", id |-> id, row |-> BuildRow(o, h, "destructive", n, nb)]
           \in OpRequests
    BY <2>1 DEF OpRequests, Ids
  <2> QED BY <1>1, <2>2 DEF TypeOK, BeginCreateSigned, tenant, history
<1>2. ASSUME NEW o \in Operators, NEW h \in Hosts, NEW c \in {"read", "routine"},
             NEW id \in ServerIds, BeginCreateMinted(s, o, h, c, id)
      PROVE  TypeOK'
  <2> DEFINE nb == IF c = "routine" THEN RoutineNotBefore ELSE 0
  <2>0. nb \in Time
    BY JobQueueAssumptions DEF RoutineNotBefore, Time, TypeOK
  <2>1. BuildRow(o, h, c, id, nb) \in Rows
    BY <2>0, BuildRowType DEF Classes, Nonces
  <2>2. [kind |-> "create", id |-> id, row |-> BuildRow(o, h, c, id, nb)] \in OpRequests
    BY <2>1 DEF OpRequests, Ids
  <2> QED BY <1>2, <2>2 DEF TypeOK, BeginCreateMinted, tenant, history
<1>3. CASE CreateJob(s)
  <2>1. opReq[s].id \in Ids /\ opReq[s].row \in Rows
    BY <1>3 DEF TypeOK, CreateJob, OpRequests, Idle
  <2> QED BY <1>3, <2>1 DEF TypeOK, CreateJob, OpRequests, tenant, history
<1>4. ASSUME NEW o \in Operators, NEW j \in Ids, BeginApprove(s, o, j)
      PROVE  TypeOK'
  BY <1>4 DEF TypeOK, BeginApprove, OpRequests, tenant, history
<1>5. CASE ApproveJob(s)
  <2>1. opReq[s].id \in Ids /\ opReq[s].by \in Operators
    BY <1>5 DEF TypeOK, ApproveJob, OpRequests, Idle
  <2>2. row' \in [Ids -> Rows \cup {NoRow}]
    <3>1. CASE row[opReq[s].id] # NoRow /\ MayRelease(row[opReq[s].id], opReq[s].by)
      <4>1. row[opReq[s].id] \in Rows
        BY <3>1, <2>1 DEF TypeOK
      <4>2. [row[opReq[s].id] EXCEPT !.approvedBy = opReq[s].by] \in Rows
        BY <4>1, <2>1 DEF Rows
      <4> QED BY <3>1, <4>2, <1>5, <2>1 DEF TypeOK, ApproveJob
    <3>2. CASE ~(row[opReq[s].id] # NoRow /\ MayRelease(row[opReq[s].id], opReq[s].by))
      BY <3>2, <1>5 DEF TypeOK, ApproveJob
    <3> QED BY <3>1, <3>2
  <2> QED BY <1>5, <2>2 DEF TypeOK, ApproveJob, OpRequests, tenant, history
<1> QED BY <1>1, <1>2, <1>3, <1>4, <1>5

\* A batch that ClaimJobs returns stamps rows and leaves them rows.
LEMMA ClaimJobsType ==
    ASSUME TypeOK, NEW h \in Hosts, NEW S \in SUBSET Offered(h), ClaimJobs(h, S)
    PROVE  /\ row' \in [Ids -> Rows \cup {NoRow}]
           /\ handed' \in [Hosts -> [Nonces -> Nat]]
           /\ notified' = notified
<1>1. \A j \in S : j \in Ids /\ row[j] \in Rows
  BY DEF TypeOK, Offered, Present
<1>2. \A j \in S : [row[j] EXCEPT !.claimed = TRUE] \in Rows
  BY <1>1 DEF Rows
<1>3. row' \in [Ids -> Rows \cup {NoRow}]
  BY <1>2 DEF TypeOK, ClaimJobs, StampClaimed
<1>4. IsFiniteSet(Ids)
  BY JobQueueAssumptions, FS_Union DEF Ids
<1>5. \A n \in Nonces : Cardinality({j \in S : row[j].nonce = n}) \in Nat
  BY <1>1, <1>4, FS_Subset, FS_CardinalityType
<1>6. handed' \in [Hosts -> [Nonces -> Nat]]
  BY <1>5 DEF TypeOK, ClaimJobs
<1> QED BY <1>3, <1>6 DEF ClaimJobs

\* Every step of an agent's request keeps the types.
LEMMA AgentStepType == TypeOK /\ AgentStep => TypeOK'
<1> SUFFICES ASSUME TypeOK, NEW a \in AgentSlots,
                    \/ \E h \in Hosts : BeginPoll(a, h)
                    \/ ClaimFirst(a)
                    \/ ClaimAfterWake(a)
                    \/ PollTimeout(a)
                    \/ \E h \in Hosts, j \in Ids, st \in Statuses : BeginResult(a, h, j, st)
                    \/ RecordResult(a)
             PROVE  TypeOK'
  BY DEF AgentStep
<1>1. ASSUME NEW h \in Hosts, BeginPoll(a, h) PROVE TypeOK'
  BY <1>1 DEF TypeOK, BeginPoll, AgentRequests, tenant, history
<1>2. CASE ClaimFirst(a)
  <2>1. agentReq[a] \in [kind : {"subscribed"}, host : Hosts]
    BY <1>2 DEF TypeOK, ClaimFirst, AgentRequests, Idle
  <2>2. PICK S \in SUBSET Offered(agentReq[a].host) :
           /\ ClaimJobs(agentReq[a].host, S)
           /\ \/ agentReq' = [agentReq EXCEPT ![a] = Idle]
              \/ agentReq' = [agentReq EXCEPT ![a].kind = "waiting"]
    BY <1>2 DEF ClaimFirst
  <2>3. row' \in [Ids -> Rows \cup {NoRow}] /\ handed' \in [Hosts -> [Nonces -> Nat]]
        /\ notified' = notified
    BY <2>1, <2>2, ClaimJobsType
  <2>4. agentReq' \in [AgentSlots -> AgentRequests]
    BY <2>1, <2>2 DEF TypeOK, AgentRequests
  <2> QED BY <1>2, <2>3, <2>4 DEF TypeOK, ClaimFirst, tenant
<1>3. CASE ClaimAfterWake(a)
  <2>1. agentReq[a] \in [kind : {"waiting"}, host : Hosts]
    BY <1>3 DEF TypeOK, ClaimAfterWake, AgentRequests, Idle
  <2>2. row' \in [Ids -> Rows \cup {NoRow}] /\ handed' \in [Hosts -> [Nonces -> Nat]]
        /\ notified' = notified
    BY <1>3, <2>1, ClaimJobsType DEF ClaimAfterWake
  <2> QED BY <1>3, <2>2 DEF TypeOK, ClaimAfterWake, AgentRequests, tenant
<1>4. CASE PollTimeout(a)
  BY <1>4 DEF TypeOK, PollTimeout, AgentRequests, tenant, history
<1>5. ASSUME NEW h \in Hosts, NEW j \in Ids, NEW st \in Statuses, BeginResult(a, h, j, st)
      PROVE  TypeOK'
  BY <1>5 DEF TypeOK, BeginResult, AgentRequests, tenant, history
<1>6. CASE RecordResult(a)
  <2> DEFINE h == agentReq[a].host
             j == agentReq[a].id
             st == agentReq[a].status
             first == MayReport(h, j) /\ IsFirstResult(j)
  <2>1. h \in Hosts /\ j \in Ids /\ st \in Statuses
    BY <1>6, ResultRequestFields DEF TypeOK, RecordResult
  <2>2. row' \in [Ids -> Rows \cup {NoRow}]
    <3>1. CASE first
      <4>1. row[j] \in Rows
        BY <3>1, <2>1 DEF TypeOK, MayReport
      <4>2. [row[j] EXCEPT !.result = st] \in Rows
        BY <4>1, <2>1 DEF Rows
      <4> QED BY <3>1, <4>2, <1>6, <2>1 DEF TypeOK, RecordResult
    <3>2. CASE ~first
      BY <3>2, <1>6 DEF TypeOK, RecordResult
    <3> QED BY <3>1, <3>2
  <2>3. notified' \in [Hosts -> [Ids -> Nat]]
    <3>1. [notified EXCEPT ![h][j] = @ + 1] \in [Hosts -> [Ids -> Nat]]
      <4>1. notified[h] \in [Ids -> Nat] /\ notified[h][j] + 1 \in Nat
        BY <2>1 DEF TypeOK
      <4>2. [notified[h] EXCEPT ![j] = @ + 1] \in [Ids -> Nat]
        BY <4>1
      <4> QED BY <4>2, <2>1 DEF TypeOK
    <3>2. notified' = [notified EXCEPT ![h][j] = @ + 1] \/ notified' = notified
      BY <1>6 DEF RecordResult
    <3> QED BY <3>1, <3>2 DEF TypeOK
  <2> QED BY <1>6, <2>2, <2>3 DEF TypeOK, RecordResult, AgentRequests, tenant
<1> QED BY <1>1, <1>2, <1>3, <1>4, <1>5, <1>6

\* Administration, the clock and a restart keep the types.
LEMMA OtherStepType == TypeOK /\ (AdminStep \/ Tick \/ ServerRestart) => TypeOK'
<1> SUFFICES ASSUME TypeOK, AdminStep \/ Tick \/ ServerRestart PROVE TypeOK'
  OBVIOUS
<1>1. ASSUME NEW m \in Modes, NEW b \in BOOLEAN, UpdateTenant(m, b) PROVE TypeOK'
  BY <1>1 DEF TypeOK, UpdateTenant, history
<1>2. ASSUME NEW h \in Hosts, RevokeHost(h) PROVE TypeOK'
  BY <1>2 DEF TypeOK, RevokeHost, tenant, history
<1>3. ASSUME NEW h \in Hosts, DeleteHost(h) PROVE TypeOK'
  BY <1>3 DEF TypeOK, DeleteHost, RowsWithout, tenant, history
<1>4. CASE Tick
  BY <1>4, JobQueueAssumptions DEF TypeOK, Tick, Time, tenant, history
<1>5. CASE ServerRestart
  BY <1>5 DEF TypeOK, ServerRestart, OpRequests, AgentRequests, tenant, history
<1> QED BY <1>1, <1>2, <1>3, <1>4, <1>5 DEF AdminStep

\* A stuttering step changes nothing the types speak of.
LEMMA StutterType == TypeOK /\ UNCHANGED vars => TypeOK'
BY DEF TypeOK, vars

\* The initial table is empty and nothing is in flight.
LEMMA InitType == Init => TypeOK
<1> SUFFICES ASSUME Init PROVE TypeOK
  OBVIOUS
<1>1. now \in Time
  BY JobQueueAssumptions DEF Init, Time
<1>2. opReq \in [OpSlots -> OpRequests] /\ agentReq \in [AgentSlots -> AgentRequests]
  BY DEF Init, OpRequests, AgentRequests
<1>3. handed \in [Hosts -> [Nonces -> Nat]] /\ notified \in [Hosts -> [Ids -> Nat]]
  BY DEF Init
<1>4. row \in [Ids -> Rows \cup {NoRow}]
  BY DEF Init
<1> QED BY <1>1, <1>2, <1>3, <1>4 DEF Init, TypeOK

\* Every step keeps the types.
LEMMA NextType == TypeOK /\ [Next]_vars => TypeOK'
BY OperatorStepType, AgentStepType, OtherStepType, StutterType DEF Next

\* The job table, the requests in flight and the history are well typed in
\* every reachable state, whatever the sets of hosts, operators and ids.
THEOREM TypeCorrect == Spec => []TypeOK
BY InitType, NextType, PTL DEF Spec

-----------------------------------------------------------------------------
(* The safety invariants *)

\* The parts of the invariant that speak of the table, the hosts and the
\* history, and not of the requests in flight.
TableInv ==
    /\ PayloadIsAKey
    /\ ReleasedByAnother
    /\ OnlyReleasedWorkRuns
    /\ NoJobOfADeletedHost
    /\ HandedRowsStay
    /\ NotificationsAreTrue

\* Steps that write neither the table nor the history, and delete no host,
\* keep the table's invariants: BeginCreate, BeginApprove, BeginPoll,
\* PollTimeout, UpdateTenant, RevokeHost, Tick, a restart.
LEMMA TableUntouched ==
    ASSUME TableInv, UNCHANGED <<row, handed, notified>>,
           \A h \in Hosts : host'[h] = "deleted" <=> host[h] = "deleted",
           TypeOK
    PROVE  TableInv'
<1>0. \A j \in Present : row[j].host \in Hosts
  BY DEF TypeOK, Present, Rows
<1>1. Present' = Present
  BY DEF Present
<1>2. PayloadIsAKey' /\ ReleasedByAnother' /\ OnlyReleasedWorkRuns'
  BY <1>1 DEF TableInv, PayloadIsAKey, ReleasedByAnother, OnlyReleasedWorkRuns, NonceOwned
<1>3. NoJobOfADeletedHost'
  BY <1>0, <1>1 DEF TableInv, NoJobOfADeletedHost
<1>4. HandedRowsStay'
  BY <1>1 DEF TableInv, HandedRowsStay
<1>5. NotificationsAreTrue'
  BY DEF TableInv, NotificationsAreTrue
<1> QED BY <1>2, <1>3, <1>4, <1>5 DEF TableInv

\* CreateJob inserts a row whose payload no other row has: the signed-nonce
\* index sees the signed ones, and a minted nonce is its own id.
LEMMA CreateJobKeepsTable ==
    ASSUME QueueInv, NEW s \in OpSlots, CreateJob(s)
    PROVE  TableInv'
<1> DEFINE i == opReq[s].id
           r == opReq[s].row
<1>1. i \in Ids /\ r \in Rows
  BY DEF QueueInv, TypeOK, CreateJob, OpRequests, Idle
<1>2. CASE ~(HostExists(r.host) /\ ~Conflicts(i, r))
  BY <1>2, TableUntouched DEF CreateJob, QueueInv, TableInv, history
<1>3. CASE HostExists(r.host) /\ ~Conflicts(i, r)
  <2> USE NoRowAssumption
  <2>1. /\ row[i] = NoRow
        /\ row' = [row EXCEPT ![i] = r]
        /\ Present' = Present \cup {i}
        /\ \A j \in Present : j # i /\ j \in Ids /\ row'[j] = row[j]
        /\ row'[i] = r
    BY <1>1, <1>3 DEF CreateJob, Conflicts, Present, QueueInv, TypeOK
  <2>2. /\ r.approvedBy = NoOne /\ ~r.claimed /\ r.result = NoResult
        /\ NonceOwned(i, r)
    BY DEF QueueInv, PendingRowsAreFresh, CreateJob
  <2>3. host' = host /\ handed' = handed /\ notified' = notified
    BY DEF CreateJob, history
  <2>4. ASSUME NEW j \in Present, row[j].host = r.host, row[j].nonce = r.nonce PROVE FALSE
    <3>1. NonceOwned(j, row[j]) /\ j # i
      BY <2>1 DEF QueueInv, PayloadIsAKey
    <3>2. CASE r.class # "read" /\ row[j].class # "read"
      BY <3>2, <1>3, <2>4 DEF Conflicts
    <3>3. CASE r.class = "read" \/ row[j].class = "read"
      BY <3>1, <3>3, <2>2, <2>4 DEF NonceOwned
    <3> QED BY <3>2, <3>3
  <2>5. PayloadIsAKey'
    BY <2>1, <2>2, <2>4 DEF QueueInv, PayloadIsAKey, NonceOwned
  <2>6. OnlyReleasedWorkRuns'
    BY <2>1, <2>2 DEF QueueInv, OnlyReleasedWorkRuns
  <2>10. ReleasedByAnother'
    BY <1>1, <2>1, <2>2, JobQueueAssumptions DEF QueueInv, ReleasedByAnother, Rows
  <2>7. NoJobOfADeletedHost'
    BY <2>1, <2>3, <1>3 DEF QueueInv, NoJobOfADeletedHost, HostExists
  <2>8. HandedRowsStay'
    BY <2>1, <2>3 DEF QueueInv, HandedRowsStay
  <2>9. NotificationsAreTrue'
    BY <2>1, <2>3 DEF QueueInv, NotificationsAreTrue, Present
  <2> QED BY <2>5, <2>6, <2>7, <2>8, <2>9, <2>10 DEF TableInv
<1> QED BY <1>2, <1>3

\* Rows that keep their keys and lose no claim keep the keys unique, belong to
\* existing hosts and still account for what was handed out: ApproveJob,
\* ClaimJobs and RecordResult edit rows this way.
LEMMA EditsKeepKeys ==
    ASSUME QueueInv,
           \A j \in Ids : row[j] = NoRow <=> row'[j] = NoRow,
           \A j \in Present : /\ row'[j].host = row[j].host
                              /\ row'[j].nonce = row[j].nonce
                              /\ row'[j].class = row[j].class
                              /\ row[j].claimed => row'[j].claimed,
           host' = host
    PROVE  /\ Present' = Present
           /\ PayloadIsAKey'
           /\ NoJobOfADeletedHost'
           /\ handed' = handed => HandedRowsStay'
<1>1. Present' = Present
  BY DEF Present
<1>2. PayloadIsAKey'
  BY <1>1 DEF QueueInv, PayloadIsAKey, NonceOwned
<1>3. NoJobOfADeletedHost'
  BY <1>1 DEF QueueInv, NoJobOfADeletedHost
<1>4. handed' = handed => HandedRowsStay'
  BY <1>1 DEF QueueInv, HandedRowsStay
<1> QED BY <1>1, <1>2, <1>3, <1>4

\* ApproveJob writes approvedBy of a job nobody has taken yet, and never the
\* creator's name where the row asks for somebody else's.
LEMMA ApproveJobKeepsTable ==
    ASSUME QueueInv, NEW s \in OpSlots, ApproveJob(s)
    PROVE  TableInv'
<1>1. PICK i \in Ids, o \in Operators : i = opReq[s].id /\ o = opReq[s].by
  BY DEF QueueInv, TypeOK, ApproveJob, OpRequests, Idle
<1>2. CASE ~(row[i] # NoRow /\ MayRelease(row[i], o))
  BY <1>1, <1>2, TableUntouched DEF ApproveJob, QueueInv, TableInv, history
<1>3. CASE row[i] # NoRow /\ MayRelease(row[i], o)
  <2>1. row[i] \in Rows /\ i \in Present
    BY <1>3 DEF QueueInv, TypeOK, Present
  <2>2. /\ row'[i] = [row[i] EXCEPT !.approvedBy = o]
        /\ \A j \in Ids : j # i => row'[j] = row[j]
    BY <1>1, <1>3 DEF ApproveJob, QueueInv, TypeOK
  <2>3. /\ row'[i] \in Rows
        /\ row'[i].approvedBy = o
        /\ row'[i].host = row[i].host /\ row'[i].nonce = row[i].nonce
        /\ row'[i].class = row[i].class /\ row'[i].claimed = row[i].claimed
        /\ row'[i].result = row[i].result /\ row'[i].createdBy = row[i].createdBy
        /\ row'[i].distinct = row[i].distinct
    BY <2>1, <2>2 DEF Rows
  <2>4. host' = host /\ handed' = handed /\ notified' = notified
    BY DEF ApproveJob, history
  <2>5. /\ \A j \in Ids : row[j] = NoRow <=> row'[j] = NoRow
        /\ \A j \in Present : /\ row'[j].host = row[j].host
                              /\ row'[j].nonce = row[j].nonce
                              /\ row'[j].class = row[j].class
                              /\ row[j].claimed => row'[j].claimed
    BY <2>2, <2>3, <1>3, NoRowAssumption DEF Present
  <2>6. Present' = Present /\ PayloadIsAKey' /\ NoJobOfADeletedHost' /\ HandedRowsStay'
    BY <2>4, <2>5, EditsKeepKeys
  <2>7. OnlyReleasedWorkRuns' /\ ReleasedByAnother'
    BY <2>2, <2>3, <2>6, <1>3
    DEF QueueInv, OnlyReleasedWorkRuns, ReleasedByAnother, MayRelease, AwaitingApproval, Present
  <2>8. NotificationsAreTrue'
    <3>1. \A j \in Ids : /\ row'[j] # NoRow <=> row[j] # NoRow
                         /\ row[j] # NoRow => row'[j].host = row[j].host
                                              /\ row'[j].result = row[j].result
      BY <2>2, <2>3, <2>5
    <3> QED BY <3>1, <2>4 DEF QueueInv, NotificationsAreTrue
  <2> QED BY <2>6, <2>7, <2>8 DEF TableInv
<1> QED BY <1>2, <1>3

\* ClaimJobs hands out rows nobody was given before, and each payload of the
\* batch once.
LEMMA ClaimJobsKeepsTable ==
    ASSUME QueueInv, NEW h \in Hosts, NEW S \in SUBSET Offered(h), ClaimJobs(h, S),
           host' = host
    PROVE  TableInv'
<1>1. \A j \in S : /\ j \in Present /\ j \in Ids /\ row[j] \in Rows
                   /\ row[j].host = h /\ ~row[j].claimed
                   /\ row[j].result = NoResult /\ ~AwaitingApproval(row[j])
  BY DEF QueueInv, TypeOK, Offered, Present, Claimable
<1>2. \A j \in Ids : row'[j] = IF j \in S THEN [row[j] EXCEPT !.claimed = TRUE] ELSE row[j]
  BY DEF ClaimJobs, StampClaimed
<1>3. \A j \in S : /\ row'[j] \in Rows /\ row'[j].claimed
                   /\ row'[j].host = row[j].host /\ row'[j].nonce = row[j].nonce
                   /\ row'[j].class = row[j].class /\ row'[j].result = row[j].result
                   /\ row'[j].approvedBy = row[j].approvedBy
                   /\ row'[j].createdBy = row[j].createdBy
                   /\ row'[j].approvalRequired = row[j].approvalRequired
                   /\ row'[j].distinct = row[j].distinct
  <2> SUFFICES ASSUME NEW j \in S
               PROVE  /\ row'[j] \in Rows /\ row'[j].claimed
                      /\ row'[j].host = row[j].host /\ row'[j].nonce = row[j].nonce
                      /\ row'[j].class = row[j].class /\ row'[j].result = row[j].result
                      /\ row'[j].approvedBy = row[j].approvedBy
                      /\ row'[j].createdBy = row[j].createdBy
                      /\ row'[j].approvalRequired = row[j].approvalRequired
                      /\ row'[j].distinct = row[j].distinct
    OBVIOUS
  <2>1. row'[j] = [row[j] EXCEPT !.claimed = TRUE] /\ row[j] \in Rows
    BY <1>1, <1>2
  <2> QED BY ONLY <2>1, ClaimedColumn, Zenon
<1>4. /\ \A j \in Ids : row[j] = NoRow <=> row'[j] = NoRow
      /\ \A j \in Present : /\ row'[j].host = row[j].host
                            /\ row'[j].nonce = row[j].nonce
                            /\ row'[j].class = row[j].class
                            /\ row[j].claimed => row'[j].claimed
  BY <1>1, <1>2, <1>3, NoRowAssumption DEF Present
<1>5. Present' = Present /\ PayloadIsAKey' /\ NoJobOfADeletedHost'
  BY <1>4, EditsKeepKeys
<1>6. OnlyReleasedWorkRuns'
  <2> SUFFICES ASSUME NEW j \in Present
               PROVE  /\ row'[j].claimed =>
                            (row'[j].approvalRequired => row'[j].approvedBy \in Operators)
                      /\ row'[j].claimed /\ row'[j].distinct => row'[j].approvedBy # row'[j].createdBy
                      /\ row'[j].result # NoResult => row'[j].claimed
    BY <1>5 DEF OnlyReleasedWorkRuns
  <2>1. CASE j \notin S
    BY <2>1, <1>2 DEF QueueInv, OnlyReleasedWorkRuns, Present
  <2>2. CASE j \in S
    <3>1. row[j].approvedBy \in Operators \cup {NoOne} /\ row[j].createdBy \in Operators
      BY <2>2, <1>1 DEF Rows
    <3>2. row[j].approvalRequired => row[j].approvedBy \in Operators
      BY <2>2, <1>1, <3>1 DEF AwaitingApproval
    <3>3. row[j].distinct => row[j].approvedBy # row[j].createdBy
      BY <3>1, JobQueueAssumptions DEF QueueInv, ReleasedByAnother
    <3> QED BY <2>2, <1>1, <1>3, <3>2, <3>3
  <2> QED BY <2>1, <2>2
<1>7. ReleasedByAnother'
  BY <1>2, <1>3, <1>5 DEF QueueInv, ReleasedByAnother, Present
<1>8. NotificationsAreTrue'
  <2>1. \A j \in Ids : /\ row'[j] # NoRow <=> row[j] # NoRow
                       /\ row[j] # NoRow => row'[j].host = row[j].host
                                            /\ row'[j].result = row[j].result
    BY <1>2, <1>3, <1>4
  <2>2. notified' = notified
    BY DEF ClaimJobs
  <2> QED BY <2>1, <2>2 DEF QueueInv, NotificationsAreTrue
<1>9. HandedRowsStay'
  <2> SUFFICES ASSUME NEW g \in Hosts, NEW n \in Nonces
               PROVE  /\ handed'[g][n] <= 1
                      /\ handed'[g][n] = 1 /\ host[g] # "deleted" =>
                            \E j \in Present : row'[j].host = g /\ row'[j].nonce = n /\ row'[j].claimed
    BY <1>5 DEF HandedRowsStay
  <2> DEFINE T == {j \in S : row[j].nonce = n}
  <2>1. handed'[g][n] = IF g = h THEN handed[g][n] + Cardinality(T) ELSE handed[g][n]
    BY DEF ClaimJobs, QueueInv, TypeOK
  <2>2. handed[g][n] \in Nat /\ handed[g][n] <= 1
    BY DEF QueueInv, TypeOK, HandedRowsStay
  <2>3. handed[g][n] = 1 /\ host[g] # "deleted" =>
           \E j \in Present : row[j].host = g /\ row[j].nonce = n /\ row[j].claimed
    BY DEF QueueInv, HandedRowsStay
  <2>4. CASE g # h \/ T = {}
    <3>0. T = {} => Cardinality(T) = 0
      BY FS_EmptySet
    <3>1. handed'[g][n] = handed[g][n]
      BY <2>1, <2>2, <2>4, <3>0
    <3> QED BY <3>1, <2>2, <2>3, <1>4
  <2>5. CASE g = h /\ T # {}
    <3>1. PICK j \in T : TRUE
      BY <2>5
    <3>2. j \in S /\ row[j].nonce = n /\ row[j].host = h /\ j \in Present /\ ~row[j].claimed
      BY <3>1, <1>1
    <3>3. T = {j}
      BY <3>1, <3>2, <1>1 DEF QueueInv, PayloadIsAKey
    <3>4. Cardinality(T) = 1
      BY <3>3, FS_Singleton
    <3>5. host[h] # "deleted"
      BY <3>2 DEF QueueInv, NoJobOfADeletedHost
    <3>6. handed[h][n] # 1
      BY <2>3, <2>5, <3>2, <3>5 DEF QueueInv, PayloadIsAKey
    <3>7. handed'[g][n] = 1
      BY <2>1, <2>2, <2>5, <3>4, <3>6
    <3> QED BY <3>7, <3>2, <1>3, <2>5
  <2> QED BY <2>4, <2>5
<1> QED BY <1>5, <1>6, <1>7, <1>8, <1>9 DEF TableInv

\* RecordResult writes the first result of a job its reporter was given.
LEMMA RecordResultKeepsTable ==
    ASSUME QueueInv, NEW a \in AgentSlots, RecordResult(a)
    PROVE  TableInv'
<1>1. PICK h \in Hosts, i \in Ids, st \in Statuses :
         h = agentReq[a].host /\ i = agentReq[a].id /\ st = agentReq[a].status
  BY ResultRequestFields DEF QueueInv, TypeOK, RecordResult
<1>2. host' = host /\ handed' = handed
  BY DEF RecordResult
<1>3. CASE ~(MayReport(h, i) /\ IsFirstResult(i))
  <2>1. row' = row /\ notified' = notified
    BY <1>1, <1>3 DEF RecordResult
  <2> QED BY <1>2, <2>1, TableUntouched DEF QueueInv, TableInv
<1>4. CASE MayReport(h, i) /\ IsFirstResult(i)
  <2>1. /\ row[i] \in Rows /\ i \in Present /\ row[i].host = h /\ row[i].claimed
        /\ row[i].result = NoResult
    BY <1>4 DEF QueueInv, TypeOK, Present, MayReport, IsFirstResult
  <2>2. /\ row'[i] = [row[i] EXCEPT !.result = st]
        /\ \A j \in Ids : j # i => row'[j] = row[j]
    BY <1>1, <1>4 DEF RecordResult, QueueInv, TypeOK
  <2>3. /\ row'[i] \in Rows
        /\ row'[i].result = st
        /\ row'[i].host = row[i].host /\ row'[i].nonce = row[i].nonce
        /\ row'[i].class = row[i].class /\ row'[i].claimed = row[i].claimed
        /\ row'[i].approvedBy = row[i].approvedBy /\ row'[i].createdBy = row[i].createdBy
        /\ row'[i].distinct = row[i].distinct
        /\ row'[i].approvalRequired = row[i].approvalRequired
    <3>1. row'[i] = [row[i] EXCEPT !.result = st] /\ row[i] \in Rows /\ st \in Statuses
      BY <2>1, <2>2
    <3> DEFINE e == row'[i]
    <3>2. e = [row[i] EXCEPT !.result = st]
      BY <3>1
    <3> HIDE DEF e
    <3>3. /\ e \in Rows /\ e.result = st
          /\ e.host = row[i].host /\ e.nonce = row[i].nonce /\ e.class = row[i].class
          /\ e.claimed = row[i].claimed /\ e.approvedBy = row[i].approvedBy
          /\ e.createdBy = row[i].createdBy /\ e.distinct = row[i].distinct
          /\ e.approvalRequired = row[i].approvalRequired
      BY <3>1, <3>2, ResultColumn
    <3> QED BY <3>3 DEF e
  <2>4. /\ \A j \in Ids : row[j] = NoRow <=> row'[j] = NoRow
        /\ \A j \in Present : /\ row'[j].host = row[j].host
                              /\ row'[j].nonce = row[j].nonce
                              /\ row'[j].class = row[j].class
                              /\ row[j].claimed => row'[j].claimed
    BY <2>1, <2>2, <2>3, NoRowAssumption DEF Present
  <2>5. Present' = Present /\ PayloadIsAKey' /\ NoJobOfADeletedHost' /\ HandedRowsStay'
    BY <1>2, <2>4, EditsKeepKeys
  <2>6. OnlyReleasedWorkRuns' /\ ReleasedByAnother'
    <3>1. \A j \in Present : j # i => row'[j] = row[j]
      BY <2>2 DEF Present
    <3>2. OnlyReleasedWorkRuns'
      BY <2>1, <2>3, <2>5, <3>1 DEF QueueInv, OnlyReleasedWorkRuns
    <3>3. ReleasedByAnother'
      BY <2>1, <2>3, <2>5, <3>1 DEF QueueInv, ReleasedByAnother
    <3> QED BY <3>2, <3>3
  <2>7. NotificationsAreTrue'
    <3>1. notified[h][i] \in Nat /\ notified[h][i] <= 1
      BY DEF QueueInv, TypeOK, NotificationsAreTrue
    <3>2. notified[h][i] = 0
      BY <3>1, <2>1, JobQueueAssumptions
      DEF QueueInv, NotificationsAreTrue, NoJobOfADeletedHost
    <3>3. notified' = IF st \in FailureStatuses
                      THEN [notified EXCEPT ![h][i] = notified[h][i] + 1] ELSE notified
      BY <1>1, <1>4 DEF RecordResult
    <3>4. \A g \in Hosts, j \in Ids :
             notified'[g][j] = IF g = h /\ j = i /\ st \in FailureStatuses
                               THEN 1 ELSE notified[g][j]
      BY <3>2, <3>3 DEF QueueInv, TypeOK
    <3> SUFFICES ASSUME NEW g \in Hosts, NEW j \in Ids
                 PROVE  /\ notified'[g][j] <= 1
                        /\ notified'[g][j] = 1 /\ host'[g] # "deleted" =>
                              /\ row'[j] # NoRow
                              /\ row'[j].host = g
                              /\ row'[j].result \in FailureStatuses
      BY DEF NotificationsAreTrue
    <3>5. CASE g = h /\ j = i
      BY <3>5, <3>4, <3>2, <2>1, <2>3, NoRowAssumption
    <3>6. CASE j # i
      BY <3>6, <3>4, <2>2, <1>2 DEF QueueInv, NotificationsAreTrue
    <3>7. CASE g # h /\ j = i
      BY <3>7, <3>4, <2>1, <1>2 DEF QueueInv, NotificationsAreTrue
    <3> QED BY <3>5, <3>6, <3>7
  <2> QED BY <2>5, <2>6, <2>7 DEF TableInv
<1> QED BY <1>3, <1>4

\* DeleteHost removes exactly the rows of a host that no longer exists.
LEMMA DeleteHostKeepsTable ==
    ASSUME QueueInv, NEW h \in Hosts, DeleteHost(h)
    PROVE  TableInv'
<1>1. /\ handed' = handed /\ notified' = notified
      /\ \A g \in Hosts : host'[g] = IF g = h THEN "deleted" ELSE host[g]
      /\ \A j \in Ids : row'[j] = IF row[j] # NoRow /\ row[j].host = h THEN NoRow ELSE row[j]
  BY DEF DeleteHost, RowsWithout, history, QueueInv, TypeOK
<1>2. \A j \in Present' : j \in Present /\ j \in Ids /\ row'[j] = row[j] /\ row[j].host # h
                          /\ row[j].host \in Hosts
  BY <1>1 DEF Present, QueueInv, TypeOK, Rows
<1>3. \A j \in Present : row[j].host # h => j \in Present' /\ row'[j] = row[j]
  BY <1>1 DEF Present
<1>4. PayloadIsAKey' /\ ReleasedByAnother' /\ OnlyReleasedWorkRuns'
  BY <1>2 DEF QueueInv, PayloadIsAKey, ReleasedByAnother, OnlyReleasedWorkRuns, NonceOwned
<1>5. NoJobOfADeletedHost'
  BY <1>1, <1>2 DEF QueueInv, NoJobOfADeletedHost
<1>6. HandedRowsStay'
  BY <1>1, <1>3 DEF QueueInv, HandedRowsStay
<1>7. NotificationsAreTrue'
  BY <1>1 DEF QueueInv, NotificationsAreTrue
<1> QED BY <1>4, <1>5, <1>6, <1>7 DEF TableInv

\* A create request carries a row without decisions from the read of the
\* tenant's mode to the insert.
LEMMA PendingKept == QueueInv /\ [Next]_vars => PendingRowsAreFresh'
<1> SUFFICES ASSUME QueueInv, [Next]_vars, NEW t \in OpSlots, opReq'[t].kind = "create"
             PROVE  /\ opReq'[t].row.approvedBy = NoOne
                    /\ ~opReq'[t].row.claimed
                    /\ opReq'[t].row.result = NoResult
                    /\ NonceOwned(opReq'[t].id, opReq'[t].row)
  BY DEF PendingRowsAreFresh, NonceOwned
<1>1. CASE opReq'[t] = opReq[t]
  BY <1>1 DEF QueueInv, PendingRowsAreFresh
<1>2. ASSUME NEW s \in OpSlots, NEW o \in Operators, NEW h \in Hosts, NEW id \in SignerIds,
             NEW n \in SignerNonces, NEW nb \in Time,
             BeginCreateSigned(s, o, h, id, n, nb), opReq'[t] # opReq[t]
      PROVE  opReq'[t] = [kind |-> "create", id |-> id,
                          row |-> BuildRow(o, h, "destructive", n, nb)]
  BY <1>2 DEF BeginCreateSigned, QueueInv, TypeOK
<1>3. ASSUME NEW s \in OpSlots, NEW o \in Operators, NEW h \in Hosts,
             NEW c \in {"read", "routine"}, NEW id \in ServerIds,
             BeginCreateMinted(s, o, h, c, id), opReq'[t] # opReq[t]
      PROVE  opReq'[t] = [kind |-> "create", id |-> id,
                          row |-> BuildRow(o, h, c, id, IF c = "routine" THEN RoutineNotBefore ELSE 0)]
  BY <1>3 DEF BeginCreateMinted, QueueInv, TypeOK
<1>4. CASE opReq'[t] # opReq[t]
  <2>1. \/ \E s \in OpSlots, o \in Operators, h \in Hosts, id \in SignerIds,
              n \in SignerNonces, nb \in Time : BeginCreateSigned(s, o, h, id, n, nb)
        \/ \E s \in OpSlots, o \in Operators, h \in Hosts, c \in {"read", "routine"},
              id \in ServerIds : BeginCreateMinted(s, o, h, c, id)
    <3>1. CASE OperatorStep
      <4>1. ASSUME NEW s \in OpSlots, CreateJob(s) \/ ApproveJob(s) PROVE FALSE
        BY <1>4, <4>1 DEF CreateJob, ApproveJob, QueueInv, TypeOK, Idle
      <4>2. ASSUME NEW s \in OpSlots, NEW o \in Operators, NEW j \in Ids, BeginApprove(s, o, j)
            PROVE  FALSE
        BY <1>4, <4>2 DEF BeginApprove, QueueInv, TypeOK
      <4> QED BY <3>1, <4>1, <4>2 DEF OperatorStep
    <3>2. CASE AgentStep
      BY <1>4, <3>2 DEF AgentStep, BeginPoll, ClaimFirst, ClaimAfterWake, PollTimeout,
                        BeginResult, RecordResult
    <3>3. CASE AdminStep \/ Tick \/ UNCHANGED vars
      BY <1>4, <3>3 DEF AdminStep, UpdateTenant, RevokeHost, DeleteHost, Tick, vars
    <3>4. CASE ServerRestart
      BY <1>4, <3>4 DEF ServerRestart, Idle
    <3> QED BY <3>1, <3>2, <3>3, <3>4 DEF Next
  <2>2. CASE \E s \in OpSlots, o \in Operators, h \in Hosts, id \in SignerIds,
                n \in SignerNonces, nb \in Time : BeginCreateSigned(s, o, h, id, n, nb)
    <3>1. PICK o \in Operators, h \in Hosts, id \in SignerIds, n \in SignerNonces, nb \in Time :
             opReq'[t] = [kind |-> "create", id |-> id,
                          row |-> BuildRow(o, h, "destructive", n, nb)]
      BY <2>2, <1>2, <1>4
    <3> QED BY <3>1, JobQueueAssumptions DEF BuildRow, NonceOwned
  <2>3. CASE \E s \in OpSlots, o \in Operators, h \in Hosts, c \in {"read", "routine"},
                id \in ServerIds : BeginCreateMinted(s, o, h, c, id)
    <3>1. PICK o \in Operators, h \in Hosts, c \in {"read", "routine"}, id \in ServerIds :
             opReq'[t] = [kind |-> "create", id |-> id,
                          row |-> BuildRow(o, h, c, id,
                                           IF c = "routine" THEN RoutineNotBefore ELSE 0)]
      BY <2>3, <1>3, <1>4
    <3> QED BY <3>1 DEF BuildRow, NonceOwned
  <2> QED BY <2>1, <2>2, <2>3
<1> QED BY <1>1, <1>4

\* Every step keeps the table's invariants.
LEMMA TableKept == QueueInv /\ [Next]_vars => TableInv'
<1> SUFFICES ASSUME QueueInv, [Next]_vars PROVE TableInv'
  OBVIOUS
<1>0. TypeOK /\ TableInv
  BY DEF QueueInv, TableInv
<1>1. CASE OperatorStep
  <2>1. ASSUME NEW s \in OpSlots, CreateJob(s) PROVE TableInv'
    BY <2>1, CreateJobKeepsTable
  <2>2. ASSUME NEW s \in OpSlots, ApproveJob(s) PROVE TableInv'
    BY <2>2, ApproveJobKeepsTable
  <2>3. CASE UNCHANGED <<row, host, handed, notified>>
    BY <2>3, <1>0, TableUntouched
  <2> QED BY <1>1, <2>1, <2>2, <2>3
          DEF OperatorStep, BeginCreateSigned, BeginCreateMinted, BeginApprove, history
<1>2. CASE AgentStep
  <2>1. ASSUME NEW a \in AgentSlots, ClaimFirst(a) \/ ClaimAfterWake(a) PROVE TableInv'
    <3>1. agentReq[a].host \in Hosts
      BY <2>1, <1>0 DEF TypeOK, AgentRequests, Idle, ClaimFirst, ClaimAfterWake
    <3>2. host' = host
      BY <2>1 DEF ClaimFirst, ClaimAfterWake
    <3> QED BY <2>1, <3>1, <3>2, ClaimJobsKeepsTable DEF ClaimFirst, ClaimAfterWake
  <2>2. ASSUME NEW a \in AgentSlots, RecordResult(a) PROVE TableInv'
    BY <2>2, RecordResultKeepsTable
  <2>3. CASE UNCHANGED <<row, host, handed, notified>>
    BY <2>3, <1>0, TableUntouched
  <2> QED BY <1>2, <2>1, <2>2, <2>3 DEF AgentStep, BeginPoll, PollTimeout, BeginResult, history
<1>3. CASE AdminStep
  <2>1. ASSUME NEW h \in Hosts, DeleteHost(h) PROVE TableInv'
    BY <2>1, DeleteHostKeepsTable
  <2>2. ASSUME NEW h \in Hosts, RevokeHost(h) PROVE TableInv'
    <3>1. UNCHANGED <<row, handed, notified>>
      BY <2>2 DEF RevokeHost, history
    <3>2. \A g \in Hosts : host'[g] = "deleted" <=> host[g] = "deleted"
      BY <2>2, <1>0 DEF RevokeHost, TypeOK
    <3> QED BY <3>1, <3>2, <1>0, TableUntouched
  <2>3. ASSUME NEW m \in Modes, NEW b \in BOOLEAN, UpdateTenant(m, b) PROVE TableInv'
    BY <2>3, <1>0, TableUntouched DEF UpdateTenant, history
  <2> QED BY <1>3, <2>1, <2>2, <2>3 DEF AdminStep
<1>4. CASE Tick \/ ServerRestart \/ UNCHANGED vars
  BY <1>4, <1>0, TableUntouched DEF Tick, ServerRestart, vars, history
<1> QED BY <1>1, <1>2, <1>3, <1>4 DEF Next

\* The inductive invariant holds in every reachable state.
THEOREM QueueInvariant == Spec => []QueueInv
<1>1. Init => QueueInv
  <2> SUFFICES ASSUME Init PROVE QueueInv
    OBVIOUS
  <2>1. TypeOK
    BY InitType
  <2>2. Present = {}
    BY DEF Init, Present
  <2>3. PendingRowsAreFresh
    BY DEF Init, PendingRowsAreFresh, Idle
  <2>4. HandedRowsStay /\ NotificationsAreTrue
    BY DEF Init, HandedRowsStay, NotificationsAreTrue
  <2>5. PayloadIsAKey /\ ReleasedByAnother /\ OnlyReleasedWorkRuns /\ NoJobOfADeletedHost
    BY <2>2 DEF PayloadIsAKey, ReleasedByAnother, OnlyReleasedWorkRuns, NoJobOfADeletedHost
  <2> QED BY <2>1, <2>3, <2>4, <2>5 DEF QueueInv
<1>2. QueueInv /\ [Next]_vars => QueueInv'
  <2> SUFFICES ASSUME QueueInv, [Next]_vars PROVE QueueInv'
    OBVIOUS
  <2>1. TypeOK'
    BY NextType DEF QueueInv
  <2> QED BY <2>1, PendingKept, TableKept DEF QueueInv, TableInv
<1> QED BY <1>1, <1>2, PTL DEF Spec

\* Whatever interleaving of operators, approvals, mode changes and claims: work
\* a host was given was released under the rule it was created under.
THEOREM OnlyReleasedWorkRunsHolds == Spec => []OnlyReleasedWorkRuns
BY QueueInvariant, PTL DEF QueueInv

\* No payload is ever put in two responses to agents.
THEOREM HandedOutOnceHolds == Spec => []HandedOutOnce
<1>1. QueueInv => HandedOutOnce
  BY DEF QueueInv, HandedRowsStay, HandedOutOnce
<1> QED BY <1>1, QueueInvariant, PTL

\* Deleting a host cancels its work, also against requests in flight.
THEOREM NoJobOfADeletedHostHolds == Spec => []NoJobOfADeletedHost
BY QueueInvariant, PTL DEF QueueInv

\* Failure notifications are sent once and are true.
THEOREM NotificationsAreTrueHolds == Spec => []NotificationsAreTrue
BY QueueInvariant, PTL DEF QueueInv

-----------------------------------------------------------------------------
(* What a step may do to a row, and to the requests of a host *)

\* The four ways in which a step touches a row that is in the table.
Cancelled(j) == row'[j] = NoRow /\ host'[row[j].host] = "deleted"

Released(j) ==
    /\ AwaitingApproval(row[j])
    /\ \E o \in Operators : row'[j] = [row[j] EXCEPT !.approvedBy = o]

Claimed(j) ==
    /\ Claimable(row[j])
    /\ InFlight(row[j].host) # {}
    /\ row'[j] = [row[j] EXCEPT !.claimed = TRUE]

Reported(j) ==
    /\ row[j].claimed /\ row[j].result = NoResult
    /\ InFlight(row[j].host) # {}
    /\ \E st \in Statuses : row'[j] = [row[j] EXCEPT !.result = st]

RowStep(j) == row'[j] = row[j] \/ Cancelled(j) \/ Released(j) \/ Claimed(j) \/ Reported(j)

\* An operator's request inserts under a key that is free, or records one
\* approval where one is missing (CreateJob, ApproveJob).
LEMMA OperatorRowStep ==
    ASSUME QueueInv, OperatorStep, NEW j \in Present
    PROVE  RowStep(j)
<1>0. TypeOK /\ j \in Ids /\ row[j] # NoRow
  BY DEF QueueInv, Present
<1>1. PICK s \in OpSlots :
        \/ \E o \in Operators, h \in Hosts :
              \/ \E id \in SignerIds, n \in SignerNonces, nb \in Time :
                    BeginCreateSigned(s, o, h, id, n, nb)
              \/ \E c \in {"read", "routine"}, id \in ServerIds :
                    BeginCreateMinted(s, o, h, c, id)
        \/ CreateJob(s)
        \/ \E o \in Operators, i \in Ids : BeginApprove(s, o, i)
        \/ ApproveJob(s)
  BY DEF OperatorStep
<1>2. CASE CreateJob(s)
  <2>1. opReq[s].id \in Ids
    BY <1>0, <1>2 DEF TypeOK, CreateJob, OpRequests, Idle
  <2>2. Conflicts(opReq[s].id, opReq[s].row) \/ opReq[s].id # j
    BY <1>0 DEF Conflicts
  <2>3. row'[j] = row[j]
    BY <1>0, <1>2, <2>1, <2>2 DEF TypeOK, CreateJob
  <2> QED BY <2>3 DEF RowStep
<1>3. CASE ApproveJob(s)
  <2>1. opReq[s].id \in Ids /\ opReq[s].by \in Operators
    BY <1>0, <1>3 DEF TypeOK, ApproveJob, OpRequests, Idle
  <2>2. CASE opReq[s].id = j /\ MayRelease(row[j], opReq[s].by)
    <3>1. row'[j] = [row[j] EXCEPT !.approvedBy = opReq[s].by]
      BY <1>0, <1>3, <2>1, <2>2 DEF TypeOK, ApproveJob
    <3> QED BY <3>1, <2>1, <2>2 DEF RowStep, Released, MayRelease
  <2>3. CASE ~(opReq[s].id = j /\ MayRelease(row[j], opReq[s].by))
    <3>1. row'[j] = row[j]
      BY <1>0, <1>3, <2>1, <2>3 DEF TypeOK, ApproveJob
    <3> QED BY <3>1 DEF RowStep
  <2> QED BY <2>2, <2>3
<1>4. CASE row' = row
  BY <1>4 DEF RowStep
<1> QED BY <1>1, <1>2, <1>3, <1>4 DEF BeginCreateSigned, BeginCreateMinted, BeginApprove

\* A claim stamps rows of the host whose request it answers (ClaimJobs).
LEMMA ClaimRowStep ==
    ASSUME QueueInv, NEW a \in AgentSlots, agentReq[a] # Idle,
           agentReq[a].host \in Hosts,
           NEW S \in SUBSET Offered(agentReq[a].host), ClaimJobs(agentReq[a].host, S),
           NEW j \in Present
    PROVE  RowStep(j)
<1>0. j \in Ids /\ a \in InFlight(agentReq[a].host)
  BY DEF Present, InFlight
<1>1. CASE j \in S
  <2>1. row[j].host = agentReq[a].host /\ Claimable(row[j])
    BY <1>1 DEF Offered
  <2>2. row'[j] = [row[j] EXCEPT !.claimed = TRUE]
    BY <1>0, <1>1 DEF ClaimJobs, StampClaimed
  <2> QED BY <1>0, <2>1, <2>2 DEF RowStep, Claimed
<1>2. CASE j \notin S
  BY <1>0, <1>2 DEF ClaimJobs, StampClaimed, RowStep
<1> QED BY <1>1, <1>2

\* An agent's request claims rows of its host, or completes one with its first
\* result (ClaimJobs, RecordResult).
LEMMA AgentRowStep ==
    ASSUME QueueInv, AgentStep, NEW j \in Present
    PROVE  RowStep(j)
<1>0. TypeOK /\ j \in Ids /\ row[j] # NoRow
  BY DEF QueueInv, Present
<1>1. PICK a \in AgentSlots :
        \/ \E h \in Hosts : BeginPoll(a, h)
        \/ ClaimFirst(a)
        \/ ClaimAfterWake(a)
        \/ PollTimeout(a)
        \/ \E h \in Hosts, i \in Ids, st \in Statuses : BeginResult(a, h, i, st)
        \/ RecordResult(a)
  BY DEF AgentStep
<1>2. CASE ClaimFirst(a) \/ ClaimAfterWake(a)
  <2>1. PICK S \in SUBSET Offered(agentReq[a].host) : ClaimJobs(agentReq[a].host, S)
    BY <1>2 DEF ClaimFirst, ClaimAfterWake
  <2>2. agentReq[a] # Idle /\ agentReq[a].host \in Hosts
    BY <1>0, <1>2 DEF ClaimFirst, ClaimAfterWake, TypeOK, AgentRequests, Idle
  <2> QED BY <2>1, <2>2, ClaimRowStep
<1>3. CASE RecordResult(a)
  <2>1. PICK h \in Hosts, i \in Ids, st \in Statuses :
           h = agentReq[a].host /\ i = agentReq[a].id /\ st = agentReq[a].status
    BY <1>0, <1>3, ResultRequestFields DEF TypeOK, RecordResult
  <2>2. CASE i = j /\ MayReport(h, j) /\ IsFirstResult(j)
    <3>1. row'[j] = [row[j] EXCEPT !.result = st]
      BY <1>0, <1>3, <2>1, <2>2 DEF TypeOK, RecordResult
    <3>2. a \in InFlight(h)
      BY <1>3, <2>1 DEF RecordResult, InFlight, Idle
    <3> QED BY <2>2, <3>1, <3>2 DEF RowStep, Reported, MayReport, IsFirstResult
  <2>3. CASE ~(i = j /\ MayReport(h, j) /\ IsFirstResult(j))
    BY <1>0, <1>3, <2>1, <2>3 DEF TypeOK, RecordResult, RowStep
  <2> QED BY <2>2, <2>3
<1>4. CASE row' = row
  BY <1>4 DEF RowStep
<1> QED BY <1>1, <1>2, <1>3, <1>4 DEF BeginPoll, PollTimeout, BeginResult

\* Whatever happens, a row is left alone, cancelled with its host, released,
\* claimed or completed.
LEMMA EveryRowStep ==
    ASSUME QueueInv, [Next]_vars, NEW j \in Present
    PROVE  RowStep(j)
<1>0. TypeOK /\ j \in Ids /\ row[j] # NoRow
  BY DEF QueueInv, Present
<1>1. ASSUME NEW h \in Hosts, DeleteHost(h) PROVE RowStep(j)
  BY <1>0, <1>1 DEF DeleteHost, RowsWithout, TypeOK, RowStep, Cancelled
<1>2. CASE row' = row
  BY <1>2 DEF RowStep
<1> QED
  BY <1>1, <1>2, OperatorRowStep, AgentRowStep
     DEF Next, AdminStep, UpdateTenant, RevokeHost, Tick, ServerRestart, vars

\* A row whose approval is missing is neither claimed nor completed.
LEMMA AwaitingIsUntouched ==
    ASSUME QueueInv, NEW j \in Present, AwaitingApproval(row[j])
    PROVE  ~row[j].claimed /\ row[j].result = NoResult
BY JobQueueAssumptions DEF QueueInv, OnlyReleasedWorkRuns, AwaitingApproval

\* The three columns in which a row is ever rewritten do not count among those it
\* was created with.
LEMMA FixedColumns ==
    ASSUME NEW r \in Rows, NEW o, NEW st,
           NEW q, \/ q = [r EXCEPT !.approvedBy = o]
                  \/ q = [r EXCEPT !.claimed = TRUE]
                  \/ q = [r EXCEPT !.result = st]
    PROVE  [q EXCEPT !.approvedBy = NoOne, !.claimed = FALSE, !.result = NoResult]
           = [r EXCEPT !.approvedBy = NoOne, !.claimed = FALSE, !.result = NoResult]
<1>1. CASE q = [r EXCEPT !.approvedBy = o]
  BY <1>1 DEF Rows
<1>2. CASE q = [r EXCEPT !.claimed = TRUE]
  BY <1>2 DEF Rows
<1>3. CASE q = [r EXCEPT !.result = st]
  BY <1>3 DEF Rows
<1> QED BY <1>1, <1>2, <1>3

\* A job's state word only advances and what was decided about it is never
\* rewritten, through every interleaving of operators, agents and restarts.
THEOREM JobHistoryIsFinalHolds == Spec => JobHistoryIsFinal
<1>1. ASSUME QueueInv, [Next]_vars, NEW j \in Present
      PROVE  \/ row'[j] = NoRow /\ host'[row[j].host] = "deleted"
             \/ /\ row'[j] # NoRow
                /\ StateRank(row[j]) <= StateRank(row'[j])
                /\ row[j].result # NoResult => row'[j].result = row[j].result
                /\ row[j].approvedBy # NoOne => row'[j].approvedBy = row[j].approvedBy
                /\ [row'[j] EXCEPT !.approvedBy = NoOne, !.claimed = FALSE, !.result = NoResult]
                   = [row[j] EXCEPT !.approvedBy = NoOne, !.claimed = FALSE, !.result = NoResult]
  <2>0. row[j] \in Rows /\ row[j] # NoRow
    BY <1>1 DEF QueueInv, TypeOK, Present
  <2>1. RowStep(j)
    BY <1>1, EveryRowStep
  <2>2. CASE row'[j] = row[j]
    <3>1. StateRank(row[j]) <= StateRank(row[j])
      BY <2>0 DEF StateRank, AwaitingApproval, Rows
    <3> QED BY <2>0, <2>2, <3>1
  <2>3. CASE Released(j)
    <3>1. PICK o \in Operators : row'[j] = [row[j] EXCEPT !.approvedBy = o]
      BY <2>3 DEF Released
    <3>2. ~row[j].claimed /\ row[j].result = NoResult /\ AwaitingApproval(row[j])
      BY <1>1, <2>3, AwaitingIsUntouched DEF Released
    <3>3. row'[j] \in Rows
      BY <2>0, <3>1 DEF Rows
    <3>4. StateRank(row[j]) = 0 /\ StateRank(row'[j]) = 1
      BY <2>0, <3>1, <3>2, JobQueueAssumptions DEF StateRank, AwaitingApproval, Rows
    <3>5. [row'[j] EXCEPT !.approvedBy = NoOne, !.claimed = FALSE, !.result = NoResult]
          = [row[j] EXCEPT !.approvedBy = NoOne, !.claimed = FALSE, !.result = NoResult]
      BY <2>0, <3>1, FixedColumns
    <3> QED BY <2>0, <3>1, <3>2, <3>3, <3>4, <3>5, NoRowAssumption DEF AwaitingApproval
  <2>4. CASE Claimed(j)
    <3>1. row'[j] = [row[j] EXCEPT !.claimed = TRUE] /\ row'[j] \in Rows
      BY <2>0, <2>4, ClaimedColumn DEF Claimed
    <3>2. StateRank(row[j]) = 1 /\ StateRank(row'[j]) = 2
      BY <2>0, <2>4, <3>1 DEF StateRank, Claimed, Claimable, Rows
    <3>3. row'[j].result = row[j].result /\ row'[j].approvedBy = row[j].approvedBy
      BY <2>0, <3>1, ClaimedColumn
    <3>4. [row'[j] EXCEPT !.approvedBy = NoOne, !.claimed = FALSE, !.result = NoResult]
          = [row[j] EXCEPT !.approvedBy = NoOne, !.claimed = FALSE, !.result = NoResult]
      BY <2>0, <3>1, FixedColumns
    <3>5. row'[j] # NoRow
      BY <3>1, NoRowAssumption, Zenon
    <3>6. StateRank(row[j]) <= StateRank(row'[j])
      BY <3>2
    <3> QED BY <2>4, <3>3, <3>4, <3>5, <3>6, Zenon DEF Claimed, Claimable
  <2>5. CASE Reported(j)
    <3>1. PICK st \in Statuses : row'[j] = [row[j] EXCEPT !.result = st]
      BY <2>5 DEF Reported
    <3>2. row'[j] \in Rows
      BY <2>0, <3>1, ResultColumn
    <3>3. StateRank(row[j]) = 2 /\ StateRank(row'[j]) = 3
      BY <2>0, <2>5, <3>1, JobQueueAssumptions DEF StateRank, Reported, Rows
    <3>4. [row'[j] EXCEPT !.approvedBy = NoOne, !.claimed = FALSE, !.result = NoResult]
          = [row[j] EXCEPT !.approvedBy = NoOne, !.claimed = FALSE, !.result = NoResult]
      BY <2>0, <3>1, FixedColumns
    <3>5. row'[j].approvedBy = row[j].approvedBy
      BY <2>0, <3>1, ResultColumn
    <3> QED BY <2>5, <3>2, <3>3, <3>4, <3>5, NoRowAssumption DEF Reported
  <2> QED BY <2>1, <2>2, <2>3, <2>4, <2>5 DEF RowStep, Cancelled
<1>2. QueueInv /\ [Next]_vars =>
        \A j \in Present :
          \/ row'[j] = NoRow /\ host'[row[j].host] = "deleted"
          \/ /\ row'[j] # NoRow
             /\ StateRank(row[j]) <= StateRank(row'[j])
             /\ row[j].result # NoResult => row'[j].result = row[j].result
             /\ row[j].approvedBy # NoOne => row'[j].approvedBy = row[j].approvedBy
             /\ [row'[j] EXCEPT !.approvedBy = NoOne, !.claimed = FALSE, !.result = NoResult]
                = [row[j] EXCEPT !.approvedBy = NoOne, !.claimed = FALSE, !.result = NoResult]
  BY <1>1
<1> QED BY <1>2, QueueInvariant, PTL DEF Spec, JobHistoryIsFinal

\* A request is let in only for a host that requireAgent admits, and no request
\* in flight changes its host.
LEMMA AdmissionIsLive ==
    ASSUME QueueInv, [Next]_vars, NEW h \in Hosts, host[h] # "live", InFlight(h) = {}
    PROVE  InFlight(h)' = {}
<1>0. TypeOK
  BY DEF QueueInv
<1> SUFFICES ASSUME NEW b \in AgentSlots, agentReq'[b] # Idle, agentReq'[b].host = h
             PROVE  agentReq[b] # Idle /\ agentReq[b].host = h
  BY DEF InFlight
<1>1. CASE AgentStep
  <2>1. PICK a \in AgentSlots :
          \/ \E g \in Hosts : BeginPoll(a, g)
          \/ ClaimFirst(a)
          \/ ClaimAfterWake(a)
          \/ PollTimeout(a)
          \/ \E g \in Hosts, i \in Ids, st \in Statuses : BeginResult(a, g, i, st)
          \/ RecordResult(a)
    BY <1>1 DEF AgentStep
  <2>2. CASE \E g \in Hosts : BeginPoll(a, g)
    BY <1>0, <2>2 DEF BeginPoll, Admitted, TypeOK
  <2>3. CASE \E g \in Hosts, i \in Ids, st \in Statuses : BeginResult(a, g, i, st)
    BY <1>0, <2>3 DEF BeginResult, Admitted, TypeOK
  <2>4. CASE ClaimFirst(a)
    <3>1. agentReq[a] # Idle /\ agentReq[a] \in AgentRequests
      BY <1>0, <2>4 DEF ClaimFirst, TypeOK, Idle
    <3>2. [agentReq[a] EXCEPT !.kind = "waiting"].host = agentReq[a].host
      BY <2>4, <3>1 DEF ClaimFirst, AgentRequests, Idle
    <3> QED BY <1>0, <2>4, <3>1, <3>2 DEF ClaimFirst, TypeOK
  <2> QED BY <1>0, <2>1, <2>2, <2>3, <2>4
       DEF ClaimAfterWake, PollTimeout, RecordResult, TypeOK
<1>2. CASE agentReq' = agentReq
  BY <1>2
<1>3. CASE ServerRestart
  BY <1>3 DEF ServerRestart
<1> QED
  BY <1>1, <1>2, <1>3
     DEF Next, AdminStep, UpdateTenant, RevokeHost, DeleteHost, Tick, vars,
         OperatorStep, BeginCreateSigned, BeginCreateMinted, CreateJob, BeginApprove, ApproveJob

\* A revoked or deleted host whose open requests are answered gets and reports
\* nothing any more.
THEOREM RevocationCutsOffHolds == Spec => RevocationCutsOff
<1>1. ASSUME QueueInv, [Next]_vars, NEW h \in Hosts, host[h] # "live", InFlight(h) = {},
             NEW j \in Present, row[j].host = h, row'[j] # NoRow
      PROVE  row'[j].claimed = row[j].claimed /\ row'[j].result = row[j].result
  <2>1. row[j] \in Rows
    BY <1>1 DEF QueueInv, TypeOK, Present
  <2>2. row'[j] = row[j] \/ Released(j)
    BY <1>1, EveryRowStep DEF RowStep, Cancelled, Claimed, Reported
  <2> QED BY <2>1, <2>2 DEF Released, Rows
<1>2. QueueInv /\ [Next]_vars =>
        \A h \in Hosts :
          host[h] # "live" /\ InFlight(h) = {} =>
             /\ InFlight(h)' = {}
             /\ \A j \in Present : row[j].host = h /\ row'[j] # NoRow =>
                   /\ row'[j].claimed = row[j].claimed
                   /\ row'[j].result = row[j].result
  BY <1>1, AdmissionIsLive
<1> QED BY <1>2, QueueInvariant, PTL DEF Spec, RevocationCutsOff

-----------------------------------------------------------------------------
(* The maintenance window *)

\* Division with remainder, the one fact about \div and % used below.
LEMMA DivMod ==
    ASSUME NEW n \in Int, NEW D \in Nat \ {0}
    PROVE  /\ n \div D \in Int
           /\ n % D \in 0 .. D - 1
           /\ n = D * (n \div D) + (n % D)
  BY SMT

\* A wall clock is one day and one time of that day.
LEMMA DayOfSum ==
    ASSUME NEW d \in Int, NEW D \in Nat \ {0}, NEW c \in 0 .. D - 1
    PROVE  /\ (d * D + c) \div D = d
           /\ (d * D + c) % D = c
  <1> DEFINE n == d * D + c
             q == n \div D
             r == n % D
  <1>1. /\ n \in Int /\ q \in Int /\ r \in 0 .. D - 1
        /\ n = D * q + r
    BY DivMod, SMT
  <1> HIDE DEF q, r
  <1>2. D * (q - d) = c - r
    BY <1>1, SMT
  <1>3. /\ c - r < D /\ -D < c - r
    BY <1>1, SMT
  <1>4. q = d
    <2>1. CASE q >= d + 1
      <3>1. D * (q - d) >= D
        BY <1>1, <2>1, SMT
      <3> QED BY <3>1, <1>1, <1>2, <1>3, SMT
    <2>2. CASE q <= d - 1
      <3>1. D * (q - d) <= -D
        BY <1>1, <2>2, SMT
      <3> QED BY <3>1, <1>1, <1>2, <1>3, SMT
    <2> QED BY <1>1, <2>1, <2>2, SMT
  <1>5. r = c
    BY <1>1, <1>2, <1>4, SMT
  <1> QED BY <1>4, <1>5 DEF q, r, n

-----------------------------------------------------------------------------
(* A zone whose offset never changes *)

Fixed(z) == z \in [before : Int, after : Int, at : Int] /\ z.before = z.after

\* There the offset is one number, and a wall clock is one instant.
LEMMA FixedOffset ==
    ASSUME NEW z, Fixed(z), NEW u \in Int
    PROVE  /\ Offset(z, u) = z.before
           /\ z.before \in Int
  BY SMT DEF Fixed, Offset

LEMMA FixedDate ==
    ASSUME NEW z, Fixed(z), NEW d \in Int, NEW c \in Int
    PROVE  DateIn(z, d, c) = (d * DayLen + c) - z.before
  <1> DEFINE wall == d * DayLen + c
  <1>1. wall \in Int
    BY WindowAssumptions, SMT
  <1>2. Offset(z, wall) = z.before /\ z.before \in Int
    BY <1>1, FixedOffset
  <1>3. Offset(z, wall - z.before) = z.before
    BY <1>1, <1>2, FixedOffset, SMT
  <1>4. DateIn(z, d, c) = wall - z.before
    BY <1>2, <1>3, Zenon DEF DateIn
  <1> QED BY <1>4

\* The instant u falls on the day and the time of day its wall clock shows.
LEMMA FixedLocal ==
    ASSUME NEW z, Fixed(z), NEW u \in Int
    PROVE  /\ LocalDay(z, u) \in Int
           /\ TimeOfDay(z, u) \in 0 .. DayLen - 1
           /\ u = (LocalDay(z, u) * DayLen + TimeOfDay(z, u)) - z.before
  <1>1. /\ Local(z, u) = u + z.before /\ z.before \in Int
    BY FixedOffset DEF Local
  <1>2. DayLen \in Nat \ {0}
    BY WindowAssumptions
  <1>3. Local(z, u) \in Int
    BY <1>1, SMT
  <1>4. /\ LocalDay(z, u) \in Int
        /\ TimeOfDay(z, u) \in 0 .. DayLen - 1
        /\ Local(z, u) = DayLen * LocalDay(z, u) + TimeOfDay(z, u)
    BY <1>2, <1>3, DivMod, Zenon DEF LocalDay, TimeOfDay
  <1>5. DayLen * LocalDay(z, u) = LocalDay(z, u) * DayLen
    BY <1>2, <1>4, SMT
  <1>6. LocalDay(z, u) * DayLen \in Int
    BY <1>2, <1>4, SMT
  <1> DEFINE P == LocalDay(z, u) * DayLen
  <1>7. P \in Int /\ u + z.before = P + TimeOfDay(z, u)
    BY <1>1, <1>4, <1>5, <1>6
  <1> HIDE DEF P
  <1>8. u = (P + TimeOfDay(z, u)) - z.before
    BY <1>1, <1>4, <1>7, SMT
  <1> QED BY <1>4, <1>8 DEF P

\* Going k days on from u goes to day LocalDay + k.
LEMMA FixedDayPlus ==
    ASSUME NEW z, Fixed(z), NEW u \in Int, NEW k \in Int
    PROVE  DayPlus(z, u, k) = LocalDay(z, u) + k
  <1> DEFINE d == LocalDay(z, u) + k
             c == TimeOfDay(z, u)
             v == DateIn(z, d, c)
  <1>1. d \in Int /\ c \in 0 .. DayLen - 1 /\ DayLen \in Nat \ {0}
    BY FixedLocal, WindowAssumptions
  <1>2. v = (d * DayLen + c) - z.before /\ z.before \in Int
    BY <1>1, FixedDate, FixedOffset
  <1>3. v \in Int
    BY <1>1, <1>2, SMT
  <1>4. Local(z, v) = d * DayLen + c
    BY <1>1, <1>2, <1>3, FixedOffset, SMT DEF Local
  <1>5. LocalDay(z, v) = d
    BY <1>1, <1>4, DayOfSum DEF LocalDay
  <1> QED BY <1>5 DEF DayPlus

-----------------------------------------------------------------------------
(* Contains against the reading of the specification *)

\* What the length of a written range is.
LEMMA LengthFacts ==
    ASSUME NEW a \in 0 .. DayLen - 1, NEW b \in 0 .. DayLen - 1
    PROVE  /\ Length(a, b) \in Int
           /\ a < b => a + Length(a, b) = b
           /\ a >= b => a + Length(a, b) = b + DayLen
  BY WindowAssumptions, SMT DEF Length

\* The two instances Contains looks at, on the wall clock of u.
LEMMA InstanceOnTheClock ==
    ASSUME NEW z, Fixed(z), NEW u \in Int, NEW w,
           w.start \in 0 .. DayLen - 1, w.length \in Int
    PROVE  /\ InstanceOpen(w, z, LocalDay(z, u), u) <=>
                 /\ LocalDay(z, u) % 7 \in w.days
                 /\ w.start <= TimeOfDay(z, u)
                 /\ TimeOfDay(z, u) < w.start + w.length
           /\ InstanceOpen(w, z, LocalDay(z, u) - 1, u) <=>
                 /\ (LocalDay(z, u) - 1) % 7 \in w.days
                 /\ TimeOfDay(z, u) + DayLen < w.start + w.length
  <1> DEFINE L == LocalDay(z, u)
             c == TimeOfDay(z, u)
             P == L * DayLen
  <1>1. /\ L \in Int /\ c \in 0 .. DayLen - 1 /\ DayLen \in Nat \ {0} /\ z.before \in Int
        /\ u = (P + c) - z.before
    BY FixedLocal, FixedOffset, WindowAssumptions
  <1>2. /\ DateIn(z, L, w.start) = (P + w.start) - z.before
        /\ DateIn(z, L - 1, w.start) = ((L - 1) * DayLen + w.start) - z.before
    BY <1>1, FixedDate
  <1>3. P \in Int /\ (L - 1) * DayLen = P - DayLen
    BY <1>1, SMT
  <1> HIDE DEF L, c, P
  <1>4. /\ DateIn(z, L, w.start) <= u <=> w.start <= c
        /\ u < DateIn(z, L, w.start) + w.length <=> c < w.start + w.length
    BY <1>1, <1>2, <1>3, SMT
  <1>5. /\ DateIn(z, L - 1, w.start) <= u
        /\ u < DateIn(z, L - 1, w.start) + w.length <=> c + DayLen < w.start + w.length
    BY <1>1, <1>2, <1>3, SMT
  <1> QED BY <1>4, <1>5, Zenon DEF InstanceOpen, L, c

\* In a fixed zone Contains decides what the reader of the policy file
\* decides (ParseWindow, Contains).
LEMMA ContainsReadsTheClock ==
    ASSUME NEW z, Fixed(z), NEW u \in Int, NEW s \in Specs
    PROVE  Contains(ParseWindow(s), z, u)
              <=> ReadsOpen(s, LocalDay(z, u), TimeOfDay(z, u))
  <1> DEFINE w == ParseWindow(s)
             L == LocalDay(z, u)
             c == TimeOfDay(z, u)
  <1>1. /\ s.start \in 0 .. DayLen - 1 /\ s.end \in 0 .. DayLen - 1
        /\ L \in Int /\ c \in 0 .. DayLen - 1 /\ DayLen \in Nat \ {0}
    BY FixedLocal, WindowAssumptions
  <1>2. /\ w.always = s.always /\ w.days = DaysOf(s.ranges)
        /\ w.start = s.start /\ w.length = Length(s.start, s.end)
    BY DEF ParseWindow
  <1>3. /\ w.length \in Int
        /\ s.start < s.end => w.start + w.length = s.end
        /\ s.start >= s.end => w.start + w.length = s.end + DayLen
    BY <1>1, <1>2, LengthFacts
  <1>4. DayPlus(z, u, 0) = L /\ DayPlus(z, u, -1) = L - 1
    BY <1>1, FixedDayPlus, SMT
  <1>5. Contains(w, z, u) <=>
            \/ w.always
            \/ InstanceOpen(w, z, L, u)
            \/ InstanceOpen(w, z, L - 1, u)
    BY <1>4 DEF Contains
  <1>6. /\ InstanceOpen(w, z, L, u) <=>
              L % 7 \in w.days /\ w.start <= c /\ c < w.start + w.length
        /\ InstanceOpen(w, z, L - 1, u) <=>
              (L - 1) % 7 \in w.days /\ c + DayLen < w.start + w.length
    BY <1>1, <1>2, <1>3, InstanceOnTheClock
  <1> HIDE DEF w, L, c
  <1>7. CASE s.start < s.end
    <2>1. /\ ~(c + DayLen < w.start + w.length)
          /\ w.start <= c /\ c < w.start + w.length <=> s.start <= c /\ c < s.end
      BY <1>1, <1>2, <1>3, <1>7, SMT
    <2>2. ~(s.start >= s.end)
      BY <1>1, <1>7, SMT
    <2> QED BY <1>2, <1>5, <1>6, <1>7, <2>1, <2>2, Zenon DEF ReadsOpen, w, L, c
  <1>8. CASE s.start >= s.end
    <2>1. /\ c < w.start + w.length
          /\ c + DayLen < w.start + w.length <=> c < s.end
      BY <1>1, <1>2, <1>3, <1>8, SMT
    <2>2. ~(s.start < s.end)
      BY <1>1, <1>8, SMT
    <2> QED BY <1>2, <1>5, <1>6, <1>8, <2>1, <2>2, Zenon DEF ReadsOpen, w, L, c
  <1>9. s.start < s.end \/ s.start >= s.end
    BY <1>1, SMT
  <1> QED BY <1>7, <1>8, <1>9

-----------------------------------------------------------------------------
(* NextOpen against Contains *)

\* A multiple of a day tells its number.
LEMMA WholeDays ==
    ASSUME NEW k \in Int, NEW D \in Nat \ {0}
    PROVE  /\ k * D \in Int
           /\ k * D > -D => k >= 0
           /\ k * D < 2 * D => k <= 1
           /\ k >= 1 => k * D >= D
  <1>1. k * D \in Int
    BY SMT
  <1>2. ASSUME k * D > -D PROVE k >= 0
    <2>1. CASE k <= -1
      <3>1. k * D <= -D
        BY <2>1, SMT
      <3> QED BY <1>1, <1>2, <3>1, SMT
    <2> QED BY <2>1, SMT
  <1>3. ASSUME k * D < 2 * D PROVE k <= 1
    <2>1. CASE k >= 2
      <3>1. k * D >= 2 * D
        BY <2>1, SMT
      <3> QED BY <1>1, <1>3, <3>1, SMT
    <2> QED BY <2>1, SMT
  <1>4. ASSUME k >= 1 PROVE k * D >= D
    BY <1>4, SMT
  <1> QED BY <1>1, <1>2, <1>3, <1>4

\* Among the seven days ahead there is one of every weekday.
LEMMA EveryWeekday ==
    ASSUME NEW day \in Int, NEW t \in 0 .. 6
    PROVE  \E k \in 1 .. 7 : (day + k) % 7 = t
  <1> DEFINE q == day \div 7
             r == day % 7
  <1>1. q \in Int /\ r \in 0 .. 6 /\ day = 7 * q + r
    BY DivMod
  <1> HIDE DEF q, r
  <1>2. CASE r < t
    <2>1. t - r \in 1 .. 7 /\ day + (t - r) = q * 7 + t
      BY <1>1, <1>2, SMT
    <2>2. (q * 7 + t) % 7 = t
      BY <1>1, DayOfSum
    <2> QED BY <2>1, <2>2
  <1>3. CASE r >= t
    <2>1. (t - r) + 7 \in 1 .. 7 /\ day + ((t - r) + 7) = (q + 1) * 7 + t /\ q + 1 \in Int
      BY <1>1, <1>3, SMT
    <2>2. ((q + 1) * 7 + t) % 7 = t
      BY <2>1, DayOfSum
    <2> QED BY <2>1, <2>2
  <1> QED BY <1>1, <1>2, <1>3, SMT

\* Days of the week are numbers from 0 to 6.
LEMMA WeekdaysOf ==
    ASSUME NEW s \in Specs
    PROVE  DaysOf(s.ranges) \subseteq 0 .. 6
  <1> SUFFICES ASSUME NEW r \in s.ranges, NEW t \in DayRange(r[1], r[2])
               PROVE  t \in 0 .. 6
    BY DEF DaysOf
  <1>1. r[1] \in 0 .. 6 /\ r[2] \in 0 .. 6
    BY WindowAssumptions
  <1>2. PICK k \in 0 .. ((r[2] - r[1]) % 7) : t = (r[1] + k) % 7
    BY DEF DayRange
  <1> DEFINE sum == r[1] + k
  <1>3. sum \in Int /\ t = sum % 7
    BY <1>1, <1>2, SMT
  <1> HIDE DEF sum
  <1> QED BY <1>3, SMT

\* A set of the days ahead has a first.
LEMMA FirstOf ==
    ASSUME NEW S \in SUBSET (0 .. 7), S # {}
    PROVE  LET k == CHOOSE k \in S : \A j \in S : k <= j
           IN k \in S /\ \A j \in S : k <= j
  <1>1. \E k \in S : \A j \in S : k <= j
    <2>1. \A i \in S : i \in 0 .. 7
      OBVIOUS
    <2>2. CASE 0 \in S
      BY <2>1, <2>2, SMT
    <2>3. CASE 0 \notin S /\ 1 \in S
      BY <2>1, <2>3, SMT
    <2>4. CASE 0 \notin S /\ 1 \notin S /\ 2 \in S
      BY <2>1, <2>4, SMT
    <2>5. CASE 0 \notin S /\ 1 \notin S /\ 2 \notin S /\ 3 \in S
      BY <2>1, <2>5, SMT
    <2>6. CASE 0 \notin S /\ 1 \notin S /\ 2 \notin S /\ 3 \notin S /\ 4 \in S
      BY <2>1, <2>6, SMT
    <2>7. CASE 0 \notin S /\ 1 \notin S /\ 2 \notin S /\ 3 \notin S /\ 4 \notin S
      <3>1. CASE 5 \in S
        BY <2>1, <2>7, <3>1, SMT
      <3>2. CASE 5 \notin S /\ 6 \in S
        BY <2>1, <2>7, <3>2, SMT
      <3>3. CASE 5 \notin S /\ 6 \notin S
        <4>1. PICK i \in S : TRUE
          OBVIOUS
        <4>2. \A j \in S : j = 7
          BY <2>1, <2>7, <3>3, SMT
        <4> QED BY <4>1, <4>2, SMT
      <3> QED BY <3>1, <3>2, <3>3
    <2> QED BY <2>2, <2>3, <2>4, <2>5, <2>6, <2>7
  <1> QED BY <1>1

\* The window of an accepted specification: it has a day, and runs for at least a unit and at most a day.
Runs(w) ==
    /\ w.always \in BOOLEAN
    /\ ~w.always => w.days \subseteq 0 .. 6 /\ w.days # {}
    /\ w.start \in 0 .. DayLen - 1
    /\ ~w.always => w.length \in 1 .. DayLen

LEMMA AcceptedRuns ==
    ASSUME NEW s \in Specs, Accepted(s)
    PROVE  Runs(ParseWindow(s))
  <1>1. /\ s.always \in BOOLEAN /\ s.start \in 0 .. DayLen - 1 /\ s.end \in 0 .. DayLen - 1
        /\ DayLen \in Nat \ {0}
    BY WindowAssumptions
  <1>2. ~s.always => Length(s.start, s.end) \in 1 .. DayLen
    BY <1>1, SMT DEF Accepted, Length
  <1> QED BY <1>1, <1>2, WeekdaysOf DEF Runs, ParseWindow, Accepted

\* An instance that is open opened on this day or on the one before.
LEMMA OpenedLately ==
    ASSUME NEW z, Fixed(z), NEW u \in Int, NEW w, Runs(w), ~w.always, NEW d \in Int, InstanceOpen(w, z, d, u)
    PROVE  d = LocalDay(z, u) \/ d = LocalDay(z, u) - 1
  <1> DEFINE L == LocalDay(z, u)
             c == TimeOfDay(z, u)
             P == L * DayLen
             Q == d * DayLen
             k == L - d
  <1>1. /\ L \in Int /\ c \in 0 .. DayLen - 1 /\ DayLen \in Nat \ {0} /\ z.before \in Int
        /\ u = (P + c) - z.before
    BY FixedLocal, FixedOffset, WindowAssumptions
  <1>2. w.start \in 0 .. DayLen - 1 /\ w.length \in 1 .. DayLen
    BY DEF Runs
  <1>3. DateIn(z, d, w.start) = (Q + w.start) - z.before
    BY <1>1, <1>2, FixedDate
  <1>4. /\ (Q + w.start) - z.before <= u
        /\ u < ((Q + w.start) - z.before) + w.length
    BY <1>3 DEF InstanceOpen
  <1>5. k \in Int /\ k * DayLen = P - Q /\ P \in Int /\ Q \in Int
    BY <1>1, SMT
  <1> HIDE DEF P, Q, c
  <1>6. P - Q > -DayLen /\ P - Q < 2 * DayLen
    BY <1>1, <1>2, <1>4, <1>5, SMT
  <1>7. k >= 0 /\ k <= 1
    BY <1>1, <1>5, <1>6, WholeDays
  <1> QED BY <1>1, <1>7, SMT

\* So Contains finds whatever instance is open.
LEMMA ContainsWhatIsOpen ==
    ASSUME NEW z, Fixed(z), NEW u \in Int, NEW w, Runs(w)
    PROVE  Contains(w, z, u) <=> w.always \/ \E d \in Int : InstanceOpen(w, z, d, u)
  <1>1. LocalDay(z, u) \in Int
    BY FixedLocal
  <1>2. DayPlus(z, u, 0) = LocalDay(z, u) /\ DayPlus(z, u, -1) = LocalDay(z, u) - 1
    BY <1>1, FixedDayPlus, SMT
  <1>3. Contains(w, z, u) <=>
            \/ w.always
            \/ InstanceOpen(w, z, LocalDay(z, u), u)
            \/ InstanceOpen(w, z, LocalDay(z, u) - 1, u)
    BY <1>2 DEF Contains
  <1>4. LocalDay(z, u) - 1 \in Int
    BY <1>1, SMT
  <1> QED BY <1>1, <1>3, <1>4, OpenedLately

\* What NextOpen answers while the window is closed: an opening to come, and none before it.
LEMMA NextOpenIsNext ==
    ASSUME NEW z, Fixed(z), NEW u \in Int, NEW w, Runs(w), ~Contains(w, z, u)
    PROVE  LET n == NextOpen(w, z, u)
           IN /\ n \in Int /\ n >= u
              /\ Contains(w, z, n)
              /\ \A v \in u .. n - 1 : ~Contains(w, z, v)
  <1> DEFINE L == LocalDay(z, u)
             c == TimeOfDay(z, u)
             At(d) == DateIn(z, d, w.start)
             S == Openings(w, z, u)
             k == CHOOSE j \in S : \A i \in S : j <= i
  <1>1. /\ L \in Int /\ c \in 0 .. DayLen - 1 /\ DayLen \in Nat \ {0} /\ z.before \in Int
        /\ u = (L * DayLen + c) - z.before
    BY FixedLocal, FixedOffset, WindowAssumptions
  <1>2. ~w.always
    BY DEF Contains
  <1>3. w.start \in 0 .. DayLen - 1 /\ w.length \in 1 .. DayLen /\ w.days \subseteq 0 .. 6 /\ w.days # {}
    BY <1>2 DEF Runs
  <1>4. \A d \in Int : d * DayLen \in Int /\ At(d) = (d * DayLen + w.start) - z.before
    BY <1>1, <1>3, FixedDate, WholeDays
  <1>5. ASSUME NEW d \in Int PROVE At(d) \in Int
    <2> DEFINE P == d * DayLen
    <2>1. P \in Int /\ At(d) = (P + w.start) - z.before
      BY <1>4
    <2> HIDE DEF P, At
    <2> QED BY <1>1, <1>3, <2>1, SMT
  <1>6. \A j \in 0 .. 7 : DayPlus(z, u, j) = L + j
    BY <1>1, FixedDayPlus
  <1>7. S = {j \in 0 .. 7 : (L + j) % 7 \in w.days /\ At(L + j) >= u}
    BY <1>6 DEF Openings
  <1> HIDE DEF L, c, S, k
  <1>8. S # {}
    <2>1. PICK t \in w.days : TRUE
      BY <1>3
    <2>2. PICK j \in 1 .. 7 : (L + j) % 7 = t
      BY <1>1, <1>3, EveryWeekday
    <2>3. j * DayLen >= DayLen /\ j * DayLen \in Int /\ L * DayLen \in Int
      BY <1>1, WholeDays
    <2>4. (L + j) * DayLen = L * DayLen + j * DayLen
      BY <1>1, SMT
    <2>5. At(L + j) = ((L * DayLen + j * DayLen) + w.start) - z.before
      BY <1>1, <1>4, <2>4
    <2> DEFINE P == L * DayLen
               J == j * DayLen
    <2> HIDE DEF P, J, At
    <2>6. At(L + j) >= u
      <3>1. P \in Int /\ J \in Int /\ J >= DayLen
        BY <2>3 DEF P, J
      <3>2. At(L + j) = ((P + J) + w.start) - z.before /\ u = (P + c) - z.before
        BY <2>5, <1>1 DEF P, J
      <3> QED BY <1>1, <1>3, <3>1, <3>2, SMT
    <2> QED BY <1>7, <2>1, <2>2, <2>6
  <1>9. S \in SUBSET (0 .. 7)
    BY <1>7
  <1>10. k \in S /\ \A j \in S : k <= j
    BY <1>8, <1>9, FirstOf DEF k
  <1>11. NextOpen(w, z, u) = At(L + k)
    BY <1>6, <1>8, <1>9, <1>10 DEF NextOpen, S, k
  <1>12. /\ k \in 0 .. 7 /\ L + k \in Int
         /\ (L + k) % 7 \in w.days /\ At(L + k) >= u /\ At(L + k) \in Int
    <2>1. k \in 0 .. 7 /\ (L + k) % 7 \in w.days /\ At(L + k) >= u
      BY <1>7, <1>10
    <2>2. L + k \in Int
      BY <1>1, <2>1
    <2>3. At(L + k) \in Int
      BY <1>1, <1>3, <1>5, <2>2
    <2> QED BY <2>1, <2>2, <2>3
  <1>13. Contains(w, z, At(L + k))
    <2>1. InstanceOpen(w, z, L + k, At(L + k))
      BY <1>3, <1>12, SMT DEF InstanceOpen
    <2> QED BY <1>12, <2>1, ContainsWhatIsOpen
  <1>14. ASSUME NEW v \in u .. At(L + k) - 1, Contains(w, z, v)
         PROVE  FALSE
    <2>1. v \in Int /\ u <= v /\ v < At(L + k)
      BY <1>12
    <2>2. PICK d \in Int : InstanceOpen(w, z, d, v)
      BY <1>2, <1>14, <2>1, ContainsWhatIsOpen
    <2>3. d % 7 \in w.days /\ At(d) <= v /\ v < At(d) + w.length /\ At(d) \in Int
      BY <1>5, <2>2 DEF InstanceOpen
    <2>4. CASE At(d) <= u
      <3>1. InstanceOpen(w, z, d, u)
        BY <1>3, <2>1, <2>3, <2>4, SMT DEF InstanceOpen
      <3> QED BY <3>1, ContainsWhatIsOpen
    <2>5. CASE At(d) > u
      <3> DEFINE j == d - L
                 P == L * DayLen
                 Q == d * DayLen
                 R == (L + k) * DayLen
                 i == k - j
      <3>1. /\ P \in Int /\ Q \in Int /\ R \in Int /\ j \in Int /\ i \in Int
            /\ j * DayLen = Q - P /\ i * DayLen = R - Q
        BY <1>1, <1>12, SMT
      <3>2. /\ At(d) = (Q + w.start) - z.before /\ At(L + k) = (R + w.start) - z.before
            /\ u = (P + c) - z.before
        BY <1>1, <1>4, <1>12
      <3> HIDE DEF P, Q, R, At
      <3>3. Q - P > -DayLen
        BY <1>1, <1>3, <2>3, <2>5, <3>1, <3>2, SMT
      <3>4. j >= 0
        BY <1>1, <3>1, <3>3, WholeDays
      <3>5. R - Q > 0
        BY <1>1, <1>3, <2>1, <2>3, <3>1, <3>2, SMT
      <3>6. i > 0
        <4>1. CASE i <= 0
          <5>1. i * DayLen <= 0
            BY <1>1, <3>1, <4>1, SMT
          <5> QED BY <3>1, <3>5, <5>1, SMT
        <4> QED BY <3>1, <4>1, SMT
      <3>7. j \in 0 .. 7 /\ j < k /\ L + j = d
        BY <1>1, <1>12, <3>1, <3>4, <3>6, SMT
      <3>8. j \in S
        BY <1>1, <1>7, <2>3, <2>5, <3>7, SMT
      <3> QED BY <1>10, <1>12, <3>1, <3>7, <3>8, SMT
    <2> QED BY <1>1, <2>3, <2>4, <2>5, SMT
  <1> QED BY <1>11, <1>12, <1>13, <1>14

\* The zone and the specification stay among those the run enumerates, and
\* the clock is an instant.
THEOREM WindowTypeCorrect == WindowSpec => []WindowTypeOK
  <1>1. WindowInit => WindowTypeOK
    BY WindowAssumptions, SMT DEF WindowInit, WindowTypeOK
  <1>2. WindowTypeOK /\ [WindowNext]_windowVars => WindowTypeOK'
    BY WindowAssumptions, SMT DEF WindowTypeOK, WindowNext, WindowTick, windowVars
  <1> QED BY <1>1, <1>2, PTL DEF WindowSpec

\* For every day length, every specification the parser accepts, every zone
\* with a constant offset and every instant: the window is open exactly when
\* the wall clock reads inside what was written (ParseWindow, Contains).
THEOREM ReadsTheClockHolds == WindowSpec => []ReadsTheClock
  <1>1. WindowTypeOK => ReadsTheClock
    <2> SUFFICES ASSUME WindowTypeOK, zone.before = zone.after
                 PROVE  Contains(win, zone, instant)
                           <=> ReadsOpen(spec, LocalDay(zone, instant), TimeOfDay(zone, instant))
      BY DEF ReadsTheClock
    <2>1. /\ instant \in Int /\ spec \in Specs /\ Fixed(zone)
      BY WindowAssumptions, SMT DEF WindowTypeOK, Fixed
    <2> QED BY <2>1, ContainsReadsTheClock DEF win
  <1> QED BY <1>1, WindowTypeCorrect, PTL

\* In a zone whose offset never changes, for every specification and instant: no instance that is open is missed, and
\* what an operator is told about the next opening is right (Contains, NextOpen).
THEOREM OpeningsHoldInFixedZones == WindowSpec => [](zone.before = zone.after => OpeningsHold)
  <1> DEFINE Inv == WindowTypeOK /\ Accepted(spec)
  <1>1. WindowInit => Inv
    BY WindowAssumptions, SMT DEF WindowInit, WindowTypeOK
  <1>2. Inv /\ [WindowNext]_windowVars => Inv'
    <2> SUFFICES ASSUME Inv, [WindowNext]_windowVars PROVE Inv'
      OBVIOUS
    <2>1. spec' = spec /\ WindowTypeOK'
      BY WindowAssumptions, SMT DEF WindowTypeOK, WindowNext, WindowTick, windowVars
    <2> QED BY <2>1 DEF Accepted
  <1>3. Inv => (zone.before = zone.after => OpeningsHold)
    <2> SUFFICES ASSUME Inv, zone.before = zone.after PROVE OpeningsHold
      OBVIOUS
    <2>1. /\ instant \in Int /\ spec \in Specs /\ Fixed(zone)
      BY WindowAssumptions, SMT DEF WindowTypeOK, Fixed
    <2>2. Runs(win)
      BY <2>1, AcceptedRuns DEF win
    <2> DEFINE L == LocalDay(zone, instant)
               n == NextOpen(win, zone, instant)
    <2>3. L \in Int
      BY <2>1, FixedLocal
    <2> HIDE DEF L
    <2>4. \A d \in L - 2 .. L : InstanceOpen(win, zone, d, instant) => Contains(win, zone, instant)
      <3>1. ASSUME NEW d \in L - 2 .. L, InstanceOpen(win, zone, d, instant) PROVE Contains(win, zone, instant)
        <4>1. d \in Int
          BY <2>3, SMT
        <4> QED BY <2>1, <2>2, <3>1, <4>1, ContainsWhatIsOpen
      <3> QED BY <3>1
    <2>5. n >= instant /\ Contains(win, zone, n) /\ \A u \in instant .. n - 1 : ~Contains(win, zone, u)
      <3>1. CASE Contains(win, zone, instant)
        <4>1. n = instant
          BY <3>1 DEF NextOpen
        <4>2. instant >= instant /\ instant .. instant - 1 = {}
          BY <2>1, SMT
        <4> QED BY <3>1, <4>1, <4>2
      <3>2. CASE ~Contains(win, zone, instant)
        BY <2>1, <2>2, <3>2, NextOpenIsNext
      <3> QED BY <3>1, <3>2
    <2> QED BY <2>4, <2>5 DEF OpeningsHold, L
  <1> QED BY <1>1, <1>2, <1>3, PTL DEF WindowSpec

-----------------------------------------------------------------------------
(* The helpers *)

ProcType == [pc : {"idle", "authorised", "updated", "replied"},
             req : Requests \cup {NoReq}, exit : Exits]

\* A process that runs an operation has a request that decoded.
Sound(r) == r.pc \in {"authorised", "updated"} => r.req \in Requests /\ Decodes(r.req)

ProcsSound == proc \in [Procs -> ProcType] /\ \A p \in Procs : Sound(proc[p])

LEMMA QuietTyped == Quiet \in ProcType /\ Sound(Quiet)
  BY SMT DEF Quiet, ProcType, Exits, Sound

\* One process moving on keeps the others as they are.
LEMMA GoesTyped ==
    ASSUME ProcsSound, NEW p \in Procs,
           NEW pc \in {"idle", "authorised", "updated", "replied"},
           NEW req \in Requests \cup {NoReq}, NEW exit \in Exits,
           pc \in {"authorised", "updated"} => req \in Requests /\ Decodes(req),
           Goes(p, pc, req, exit)
    PROVE  ProcsSound'
  <1> DEFINE r == [pc |-> pc, req |-> req, exit |-> exit]
  <1>1. r \in ProcType /\ Sound(r)
    BY SMT DEF ProcType, Sound
  <1> HIDE DEF r
  <1>2. proc' = [proc EXCEPT ![p] = r]
    BY DEF Goes, r
  <1>3. proc' \in [Procs -> ProcType]
    BY <1>1, <1>2 DEF ProcsSound
  <1>4. \A q \in Procs : proc'[q] = IF q = p THEN r ELSE proc[q]
    BY <1>2 DEF ProcsSound
  <1> QED BY <1>1, <1>3, <1>4 DEF ProcsSound

LEMMA ReplyTyped ==
    ASSUME ProcsSound, NEW p \in Procs, NEW exit \in Exits, Reply(p, exit)
    PROVE  ProcsSound'
  <1>1. proc[p].req \in Requests \cup {NoReq}
    BY SMT DEF ProcsSound, ProcType
  <1> QED BY <1>1, GoesTyped DEF Reply

LEMMA AllQuiet ==
    ASSUME proc' = [p \in Procs |-> Quiet]
    PROVE  ProcsSound'
  BY QuietTyped DEF ProcsSound

-----------------------------------------------------------------------------
(* Type correctness of the helpers *)

\* The rest of the type invariant.
HostTyped ==
    /\ file \in Policies \cup {Absent, Unreadable}
    /\ paused \in BOOLEAN /\ needsReboot \in BOOLEAN /\ conclusive \in BOOLEAN
    /\ clock \in Instants
    /\ pending \in Nat \cup {NoTime}

LEMMA TypeSplit == HelpersTypeOK <=> HostTyped /\ ProcsSound
  BY DEF HelpersTypeOK, HostTyped, ProcsSound, ProcType, Sound

LEMMA TypeSplitNext == HelpersTypeOK' <=> HostTyped' /\ ProcsSound'
  BY DEF HelpersTypeOK, HostTyped, ProcsSound, ProcType, Sound

\* Every operation of a helper keeps the state well typed.
LEMMA HelperStepTyped ==
    ASSUME HostTyped, ProcsSound, NEW p \in Procs, HelperStep(p)
    PROVE  HostTyped' /\ ProcsSound'
  <1>1. /\ "ok" \in Exits /\ "failed" \in Exits /\ "usage" \in Exits /\ "refused" \in Exits
    BY DEF Exits
  <1>2. proc[p].req \in Requests \cup {NoReq}
    BY SMT DEF ProcsSound, ProcType
  <1>3. CASE RunUpdate(p)
    <2>1. needsReboot' \in BOOLEAN
      BY <1>3 DEF RunUpdate, HostTyped
    <2>2. HostTyped'
      BY <1>3, <2>1 DEF RunUpdate, HostTyped
    <2>3. CASE Reply(p, "failed") \/ Reply(p, "ok")
      BY <1>1, <2>2, <2>3, ReplyTyped
    <2>4. CASE Goes(p, "updated", proc[p].req, "ok")
      <3>1. proc[p].req \in Requests /\ Decodes(proc[p].req)
        BY <1>3 DEF RunUpdate, ProcsSound, Sound
      <3> QED BY <1>1, <2>2, <2>4, <3>1, GoesTyped
    <2> QED BY <1>3, <2>2, <2>3, <2>4 DEF RunUpdate
  <1>4. CASE FollowUp(p)
    <2>1. pending' \in Nat \cup {NoTime}
      <3>1. clock \in Nat
        BY HelpersAssumptions, SMT DEF HostTyped, Instants
      <3> QED BY <1>4, <3>1 DEF FollowUp, HostTyped
    <2>2. HostTyped'
      BY <1>4, <2>1 DEF FollowUp, HostTyped
    <2>3. Reply(p, "ok") \/ Reply(p, "failed")
      BY <1>4 DEF FollowUp
    <2> QED BY <1>1, <2>2, <2>3, ReplyTyped
  <1>5. CASE ActOnUnit(p)
    <2>1. HostTyped'
      BY <1>5 DEF ActOnUnit, HostTyped
    <2>2. Reply(p, "ok") \/ Reply(p, "failed")
      BY <1>5 DEF ActOnUnit
    <2> QED BY <1>1, <2>1, <2>2, ReplyTyped
  <1>6. CASE ScheduleReboot(p)
    <2>1. clock + ShutdownTime(proc[p].req.delay) \in Nat
      <3>1. proc[p].req \in Requests
        BY <1>6 DEF ScheduleReboot, ProcsSound, Sound
      <3>2. proc[p].req.delay \in Nat
        BY <3>1, HelpersAssumptions, SMT DEF RequestType
      <3>3. ShutdownTime(proc[p].req.delay) \in Nat
        BY <3>2, HelpersAssumptions, SMT DEF ShutdownTime
      <3> QED BY <3>3, HelpersAssumptions, SMT DEF HostTyped, Instants
    <2>2. HostTyped'
      BY <1>6, <2>1 DEF ScheduleReboot, HostTyped
    <2>3. Reply(p, "ok") \/ Reply(p, "failed")
      BY <1>6 DEF ScheduleReboot
    <2> QED BY <1>1, <2>2, <2>3, ReplyTyped
  <1>7. CASE Exit(p)
    <2>1. HostTyped'
      BY <1>7 DEF Exit, HostTyped
    <2>2. proc' = [proc EXCEPT ![p] = Quiet]
      BY <1>7 DEF Exit
    <2>3. proc' \in [Procs -> ProcType] /\ \A q \in Procs : proc'[q] = IF q = p THEN Quiet ELSE proc[q]
      BY <2>2, QuietTyped DEF ProcsSound
    <2>4. ProcsSound'
      BY <2>3, QuietTyped DEF ProcsSound
    <2> QED BY <2>1, <2>4
  <1> QED BY <1>3, <1>4, <1>5, <1>6, <1>7 DEF HelperStep

LEMMA PerformTyped ==
    ASSUME HostTyped, ProcsSound, NEW p \in Procs, NEW s \in Sockets, NEW req \in Requests,
           Perform(p, s, req)
    PROVE  HostTyped' /\ ProcsSound'
  <1>1. /\ "ok" \in Exits /\ "usage" \in Exits /\ "refused" \in Exits
    BY DEF Exits
  <1>2. HostTyped'
    BY DEF Perform, HostTyped
  <1>3. CASE Goes(p, "replied", req, "usage") \/ Goes(p, "replied", req, "refused")
    BY <1>1, <1>2, <1>3, GoesTyped
  <1>4. CASE ~Malformed(s, req) /\ Goes(p, "authorised", req, "ok")
    <2>1. Decodes(req)
      BY <1>4 DEF Malformed
    <2> QED BY <1>1, <1>2, <1>4, <2>1, GoesTyped
  <1> QED BY <1>3, <1>4 DEF Perform

\* The helpers' state is well typed, and a process that runs has a request
\* the catalogue decoded (Perform, apply, rebootIfRequired, reboot).
THEOREM HelpersTypeCorrect == HelpersSpec => []HelpersTypeOK
  <1>1. HelpersInit => HelpersTypeOK
    <2> SUFFICES ASSUME HelpersInit PROVE HostTyped /\ ProcsSound
      BY TypeSplit
    <2>1. HostTyped
      <3>1. 0 \in Instants
        BY HelpersAssumptions, SMT DEF Instants
      <3> QED BY <3>1 DEF HelpersInit, HostTyped
    <2>2. ProcsSound
      BY QuietTyped DEF HelpersInit, ProcsSound
    <2> QED BY <2>1, <2>2
  <1>2. HelpersTypeOK /\ [HelpersNext]_helpersVars => HelpersTypeOK'
    <2> SUFFICES ASSUME HostTyped, ProcsSound, [HelpersNext]_helpersVars PROVE HostTyped' /\ ProcsSound'
      BY TypeSplit, TypeSplitNext
    <2>1. CASE \E p \in Procs : HelperStep(p)
      BY <2>1, HelperStepTyped
    <2>2. CASE \E p \in Procs, s \in Sockets, req \in Requests : Perform(p, s, req)
      BY <2>2, PerformTyped
    <2>3. CASE \E f \in Policies \cup {Absent, Unreadable} : EditPolicy(f)
      BY <2>3 DEF EditPolicy, HostTyped, ProcsSound
    <2>4. CASE Pause
      BY <2>4 DEF Pause, HostTyped, ProcsSound
    <2>5. CASE ClockTick
      <3>1. clock' \in Instants
        BY <2>5, HelpersAssumptions, SMT DEF ClockTick, HostTyped, Instants
      <3> QED BY <2>5, <3>1 DEF ClockTick, HostTyped, ProcsSound
    <2>6. CASE GoDown
      <3>1. HostTyped'
        BY <2>6 DEF GoDown, HostTyped
      <3> QED BY <2>6, <3>1, AllQuiet DEF GoDown
    <2>7. CASE UNCHANGED helpersVars
      BY <2>7 DEF helpersVars, HostTyped, ProcsSound
    <2> QED BY <2>1, <2>2, <2>3, <2>4, <2>5, <2>6, <2>7 DEF HelpersNext
  <1> QED BY <1>1, <1>2, PTL DEF HelpersSpec

-----------------------------------------------------------------------------
(* The follow-up reboot *)

\* Only the follow-up itself answers a request whose update has run.
LEMMA OnlyFollowUpAnswers ==
    ASSUME ProcsSound, [HelpersNext]_helpersVars, NEW p \in Procs,
           proc[p].pc = "updated", proc'[p].pc = "replied"
    PROVE  FollowUp(p)
  <1>1. proc' # proc
    OBVIOUS
  <1>2. ASSUME NEW q \in Procs, q # p, NEW r, proc' = [proc EXCEPT ![q] = r]
        PROVE  FALSE
    BY <1>2 DEF ProcsSound
  <1>3. ASSUME NEW q \in Procs, HelperStep(q)
        PROVE  FollowUp(p)
    <2>1. CASE q = p
      <3>1. ~RunUpdate(p) /\ ~ActOnUnit(p) /\ ~ScheduleReboot(p) /\ ~Exit(p)
        BY DEF RunUpdate, ActOnUnit, ScheduleReboot, Exit
      <3> QED BY <1>3, <2>1, <3>1 DEF HelperStep
    <2>2. CASE q # p
      <3>1. \E r : proc' = [proc EXCEPT ![q] = r]
        BY <1>3, Zenon DEF HelperStep, RunUpdate, FollowUp, ActOnUnit, ScheduleReboot, Exit, Reply, Goes
      <3> QED BY <1>2, <2>2, <3>1
    <2> QED BY <2>1, <2>2
  <1>4. ASSUME NEW q \in Procs, NEW s \in Sockets, NEW req \in Requests, Perform(q, s, req)
        PROVE  FALSE
    <2>1. CASE q = p
      BY <1>4, <2>1 DEF Perform, Quiet
    <2>2. CASE q # p
      <3>1. \E r : proc' = [proc EXCEPT ![q] = r]
        BY <1>4, Zenon DEF Perform, Goes
      <3> QED BY <1>2, <2>2, <3>1
    <2> QED BY <2>1, <2>2
  <1>5. ~GoDown
    BY DEF GoDown, Quiet
  <1>6. ~Pause /\ ~ClockTick /\ ~(\E f \in Policies \cup {Absent, Unreadable} : EditPolicy(f))
    BY <1>1 DEF Pause, ClockTick, EditPolicy
  <1>7. ~(UNCHANGED helpersVars)
    BY <1>1 DEF helpersVars
  <1> QED BY <1>3, <1>4, <1>5, <1>6, <1>7 DEF HelpersNext

\* What a permitted follow-up says of the policy on disk.
LEMMA FollowUpAllowedMeans ==
    ASSUME HostTyped, FollowUpAllowed
    PROVE  ~paused /\ file \in Policies /\ file.reboot = "window" /\ clock \in file.open
  <1>1. Decide(Loaded, RebootRequest, clock, paused) = "allowed" /\ file # Unreadable
    BY DEF FollowUpAllowed, Authorised
  <1>2. /\ RebootRequest.intent = "host.reboot" /\ RebootRequest.issued = NoTime
    BY DEF RebootRequest
  <1>3. "host.reboot" \notin ReadIntents \cup UpdateIntents \cup UnitIntents
    BY DEF ReadIntents, UpdateIntents, UnitIntents
  <1>4. ~Expired(Loaded, RebootRequest, clock)
    BY <1>2 DEF Expired
  <1>5. ~paused
    BY <1>1 DEF Decide
  <1>6. DecideReboot(Loaded, clock) = "allowed"
    BY <1>1, <1>2, <1>3, <1>4, <1>5 DEF Decide
  <1>7. Loaded.reboot = "window" /\ clock \in Loaded.open
    BY <1>6 DEF DecideReboot
  <1>8. file # Absent
    BY <1>7 DEF Loaded, Default
  <1> QED BY <1>1, <1>5, <1>7, <1>8 DEF Loaded, HostTyped

\* Whatever was permitted before the update ran, apply-updates sends the host
\* down only if the policy as it stands has the window open and the host is
\* not paused (rebootIfRequired).
THEOREM FollowUpHonoursPolicyNowHolds == HelpersSpec => FollowUpHonoursPolicyNow
  <1>1. HelpersTypeOK /\ [HelpersNext]_helpersVars =>
           \A p \in Procs :
              proc[p].pc = "updated" /\ proc'[p].pc = "replied" /\ pending' # pending =>
                 /\ ~paused
                 /\ file \in Policies /\ file.reboot = "window" /\ clock \in file.open
    <2> SUFFICES ASSUME HostTyped, ProcsSound, [HelpersNext]_helpersVars, NEW p \in Procs,
                        proc[p].pc = "updated", proc'[p].pc = "replied", pending' # pending
                 PROVE  ~paused /\ file \in Policies /\ file.reboot = "window" /\ clock \in file.open
      BY TypeSplit
    <2>1. FollowUp(p)
      BY OnlyFollowUpAnswers
    <2>2. FollowUpAllowed
      BY <2>1 DEF FollowUp
    <2> QED BY <2>2, FollowUpAllowedMeans
  <1> QED BY <1>1, HelpersTypeCorrect, PTL DEF HelpersSpec, FollowUpHonoursPolicyNow

\* A job that asked for a reboot if one is needed is reported as finished only
\* when none is needed or the host is on its way down (apply,
\* rebootIfRequired).
THEOREM OkMeansDoneHolds == HelpersSpec => OkMeansDone
  <1>1. HelpersTypeOK /\ [HelpersNext]_helpersVars =>
           \A p \in Procs :
              proc[p].pc = "updated" /\ proc'[p].pc = "replied" /\ proc'[p].exit = "ok" =>
                 (needsReboot => pending' # NoTime)
    <2> SUFFICES ASSUME HostTyped, ProcsSound, [HelpersNext]_helpersVars, NEW p \in Procs, needsReboot,
                        proc[p].pc = "updated", proc'[p].pc = "replied", proc'[p].exit = "ok"
                 PROVE  pending' # NoTime
      BY TypeSplit
    <2>1. FollowUp(p)
      BY OnlyFollowUpAnswers
    <2>2. ~Reply(p, "failed")
      <3> SUFFICES ASSUME Reply(p, "failed") PROVE FALSE
        OBVIOUS
      <3>1. proc'[p] = [pc |-> "replied", req |-> proc[p].req, exit |-> "failed"]
        BY DEF Reply, Goes, ProcsSound
      <3> QED BY <3>1
    <2>3. ~NoRebootKnown
      BY DEF NoRebootKnown
    <2>4. pending' = clock
      BY <2>1, <2>2, <2>3 DEF FollowUp
    <2>5. clock \in Int
      BY HelpersAssumptions, SMT DEF HostTyped, Instants
    <2> QED BY <2>4, <2>5, HelpersAssumptions
  <1> QED BY <1>1, HelpersTypeCorrect, PTL DEF HelpersSpec, OkMeansDone

-----------------------------------------------------------------------------
(* Tightening a policy *)

LEMMA TighterUpdate ==
    ASSUME NEW p \in PolicyType, NEW q \in PolicyType, Tighter(p, q), NEW i \in UpdateIntents,
           MinAllow(requestedAllow(i), p.allow) = requestedAllow(i)
    PROVE  MinAllow(requestedAllow(i), q.allow) = requestedAllow(i)
  <1>1. p.allow \in Allows /\ q.allow \in Allows /\ rank(p.allow) <= rank(q.allow)
    BY DEF PolicyType, Tighter
  <1>2. requestedAllow(i) \in Allows
    BY DEF requestedAllow, Allows
  <1>3. /\ rank("none") = 0 /\ rank("security") = 1 /\ rank("all") = 2
    BY DEF rank
  <1>4. \A a \in Allows : rank(a) \in 0 .. 2
    BY <1>3, SMT DEF Allows
  <1>5. \A a, b \in Allows : rank(a) = rank(b) => a = b
    BY <1>3, SMT DEF Allows
  <1>6. ~(rank(p.allow) < rank(requestedAllow(i)))
    BY <1>1, <1>2, <1>4, <1>5, SMT DEF MinAllow
  <1>7. ~(rank(q.allow) < rank(requestedAllow(i)))
    BY <1>1, <1>2, <1>4, <1>6, SMT
  <1> QED BY <1>7 DEF MinAllow

LEMMA TighterReboot ==
    ASSUME NEW p \in PolicyType, NEW q \in PolicyType, Tighter(p, q), NEW t,
           DecideReboot(p, t) = "allowed"
    PROVE  DecideReboot(q, t) = "allowed"
  <1>1. p.reboot = "window" /\ t \in p.open
    BY DEF DecideReboot
  <1>2. q.reboot = "window" /\ t \in q.open
    BY <1>1 DEF Tighter
  <1> QED BY <1>2 DEF DecideReboot

\* A policy that says at least as much everywhere permits at least as much,
\* for every request and instant (Decide, Min, decideUpdate, decideReboot).
LEMMA TighterDecides ==
    ASSUME NEW p \in PolicyType, NEW q \in PolicyType, Tighter(p, q),
           NEW req \in RequestType, NEW t \in Int, NEW b \in BOOLEAN,
           Decide(p, req, t, b) = "allowed"
    PROVE  Decide(q, req, t, b) = "allowed"
  <1>1. ~b
    BY DEF Decide
  <1>2. CASE req.intent \in ReadIntents
    BY <1>1, <1>2 DEF Decide
  <1>3. CASE req.intent \notin ReadIntents
    <2>1. ~Expired(p, req, t)
      BY <1>1, <1>3 DEF Decide
    <2>2. ~Expired(q, req, t)
      <3>1. p.maxAge \in Nat /\ q.maxAge \in Nat /\ p.maxAge <= q.maxAge
        BY DEF PolicyType, Tighter
      <3>2. req.issued = NoTime \/ req.issued \in Int
        BY HelpersAssumptions, SMT DEF RequestType, Instants
      <3> QED BY <2>1, <3>1, <3>2, SMT DEF Expired
    <2>3. CASE req.intent \in UpdateIntents
      <3>1. /\ Decide(p, req, t, b) = DecideUpdate(p, req, t)
            /\ Decide(q, req, t, b) = DecideUpdate(q, req, t)
        BY <1>1, <1>3, <2>1, <2>2, <2>3, Zenon DEF Decide, UpdateIntents, UnitIntents
      <3>2. /\ MinAllow(requestedAllow(req.intent), p.allow) = requestedAllow(req.intent)
            /\ req.rebootIfRequired => DecideReboot(p, t) = "allowed"
        BY <3>1 DEF DecideUpdate
      <3> QED BY <2>3, <3>1, <3>2, TighterUpdate, TighterReboot DEF DecideUpdate
    <2>4. CASE req.intent \in UnitIntents
      <3>1. /\ Decide(p, req, t, b) = DecideUnit(p, req)
            /\ Decide(q, req, t, b) = DecideUnit(q, req)
        BY <1>1, <1>3, <2>1, <2>2, <2>4, Zenon DEF Decide, UpdateIntents, UnitIntents
      <3>2. req.unit \in p.restartable
        BY <3>1 DEF DecideUnit
      <3> QED BY <3>1, <3>2 DEF DecideUnit, Tighter
    <2>5. CASE req.intent = "host.reboot"
      <3>1. /\ Decide(p, req, t, b) = DecideReboot(p, t)
            /\ Decide(q, req, t, b) = DecideReboot(q, t)
        BY <1>1, <1>3, <2>1, <2>2, <2>5, Zenon DEF Decide, UpdateIntents, UnitIntents
      <3> QED BY <3>1, TighterReboot
    <2> QED BY <1>3, <2>3, <2>4, <2>5 DEF RequestType, Intents
  <1> QED BY <1>2, <1>3

\* Editing the policy file to a stricter one never makes a helper do more.
THEOREM TighteningPermitsNoMoreHolds == HelpersSpec => []TighteningPermitsNoMore
  <1>1. HelpersTypeOK => TighteningPermitsNoMore
    <2> SUFFICES ASSUME HostTyped, file \in Policies, NEW p \in Policies, NEW req \in Requests,
                        Tighter(p, file), Decide(p, req, clock, paused) = "allowed"
                 PROVE  Decide(file, req, clock, paused) = "allowed"
      BY TypeSplit DEF TighteningPermitsNoMore
    <2>1. p \in PolicyType /\ file \in PolicyType /\ req \in RequestType
      BY HelpersAssumptions
    <2>2. clock \in Int /\ paused \in BOOLEAN
      BY HelpersAssumptions, SMT DEF HostTyped, Instants
    <2> QED BY <2>1, <2>2, TighterDecides
  <1> QED BY <1>1, HelpersTypeCorrect, PTL

=============================================================================
