--------------------------------- MODULE Agent ---------------------------------
(***************************************************************************)
(* The agent's job path (internal/agent) and the root helpers it asks      *)
(* (internal/helper, internal/privsep), on one host.                       *)
(*                                                                         *)
(* The control plane is inside the threat model: it delivers any job it    *)
(* can put together, in any order and as often as it likes, and answers or *)
(* loses any report. What it cannot do is make an offline signature. The   *)
(* agent process may die between any two of its steps, and so may the      *)
(* host; the helpers are processes of their own and outlive the agent.     *)
(* The administrator edits the policy, the pause file and trusted-signers  *)
(* at any moment.                                                          *)
(*                                                                         *)
(* A batch of jobs is delivered one by one: the control plane picks the    *)
(* next one when the previous one is done, which allows at least what one  *)
(* response would.                                                         *)
(***************************************************************************)
EXTENDS Naturals

CONSTANTS
    Payloads,       \* what a signature covers: [id, class, nonce, notBefore,
                    \*   notAfter, gone]; gone is intent.MayNotReturn
    SignerKeys,     \* offline keys
    OnlineKeys,     \* the control plane's own keys
    Signed,         \* the offline signatures that exist: [key, payload]
    MaxJobAge,      \* limits.max_job_age_seconds
    Policies,       \* the policies the administrator may write: sets of classes
    PauseStates,    \* whether the pause file may be there, may be absent
    Anchors,        \* the sets of keys trusted-signers may hold
    MaxTime,        \* bound on the host's clock
    MaxOps,         \* bound on the number of helpers running at a time
    NoSig, NoJob

\* "unsupported" is an intent this build or this kind of host does not execute.
Classes == {"unsupported", "read", "routine", "destructive"}
Time == 0 .. MaxTime    \* 0 is the zero time.Time: no such edge

ASSUME AgentAssumptions ==
    /\ Payloads \subseteq [id : STRING, class : Classes, nonce : STRING,
                           notBefore : Time, notAfter : Time, gone : BOOLEAN]
    /\ Signed \subseteq [key : SignerKeys, payload : Payloads]
    /\ SignerKeys \cap OnlineKeys = {}
    /\ MaxJobAge \in Nat
    /\ Policies \subseteq SUBSET {"routine", "destructive"}
    /\ PauseStates \subseteq BOOLEAN
    /\ Anchors \subseteq SUBSET SignerKeys
    /\ MaxTime \in Nat \ {0}
    /\ MaxOps \in Nat

Ids == {p.id : p \in Payloads}
Nonces == {p.nonce : p \in Payloads}
Privileged(p) == p.class \in {"routine", "destructive"}

\* Everything the control plane can put on the wire: any payload with no
\* signature, with an offline signature it has seen (over that payload or over
\* another one), or with one of its own.
Wire == [payload : Payloads,
         sig : {NoSig} \cup Signed \cup [key : OnlineKeys, payload : Payloads]]

\* "refused" stands for every refusal before anything is attempted: an
\* unsupported intent, clock skew, expiry, a bad signature, the policy.
Statuses == {"succeeded", "failed", "refused"}

\* A helper process: it was asked, it performs, it has replied.
Free == [phase |-> "free"]
Ops == {Free} \cup [phase : {"asked", "performing"} \cup Statuses, payload : Payloads]
Slots == 1 .. MaxOps

VARIABLES
    pc,         \* where the agent process is; "down" when there is none
    seen,       \* NonceStore.seen: nonce -> when it may be forgotten, 0 if unknown
    snap,       \* what the cycle read at its start
    job,        \* the payload of the job being run
    started,    \* when Run began
    status,     \* its result so far
    op,         \* the helper it waits for, 0 if none
    todo,       \* results DeliverPending has still to send
    nonceFile,  \* disk: the persisted nonces
    spool,      \* disk: pending results
    onlineFile, \* disk: the cached online key
    policy, paused, signers,    \* disk: the administrator's files
    ops,        \* the helper processes
    now,        \* the host's clock
    passed,     \* history: per payload, passes of the replay check before notAfter
    performed,  \* history: payloads a helper performed
    answered,   \* history: per id, the first result that got a final answer
    trusted     \* history: every key that was ever in trusted-signers

memory == <<seen, snap, job, started, status, op, todo>>
disk == <<nonceFile, spool, onlineFile>>
admin == <<policy, paused, signers, trusted>>
helper == <<ops, performed>>
vars == <<pc, memory, disk, admin, helper, now, passed, answered>>

NoSnap == [policy |-> {}, signers |-> {}, online |-> {}, skewed |-> TRUE]
NoNonces == [n \in Nonces |-> 0]

Init ==
    /\ pc = "down"
    /\ seen = NoNonces
    /\ snap = NoSnap
    /\ job = NoJob
    /\ started = 0
    /\ status = "failed"
    /\ op = 0
    /\ todo = {}
    /\ nonceFile = NoNonces
    /\ spool = [i \in Ids |-> "none"]
    /\ onlineFile = {}
    /\ policy \in Policies
    /\ paused \in PauseStates
    /\ signers \in Anchors
    /\ trusted = signers
    /\ ops = [k \in Slots |-> Free]
    /\ now = 1
    /\ passed = [p \in Payloads |-> 0]
    /\ performed = {}
    /\ answered = [i \in Ids |-> "none"]

-----------------------------------------------------------------------------
(* The checks of accept *)

\* Mutation: the two anchors are merged.
VerifiesAgainstEither(w) ==
    /\ w.sig # NoSig
    /\ w.sig.payload = w.payload
    /\ w.sig.key \in snap.signers \cup snap.online

\* verifyOfflineSignature and verifyOnlineSignature: a signature over exactly
\* this payload, by a key of the anchor its class is verified against.
Verifies(w) ==
    /\ w.sig # NoSig
    /\ w.sig.payload = w.payload
    /\ w.sig.key \in IF w.payload.class = "destructive" THEN snap.signers ELSE snap.online

WindowShut(p) ==
    \/ p.notBefore # 0 /\ now < p.notBefore
    \/ p.notAfter # 0 /\ now > p.notAfter

NoWindow(p) == p.notBefore = 0 \/ p.notAfter = 0

\* Steps 1 to 4a of accept; each one that fails refuses the job.
Accepts(w) ==
    LET p == w.payload IN
    /\ p.class # "unsupported"
    /\ Privileged(p) => ~snap.skewed
    /\ ~WindowShut(p)
    /\ Privileged(p) => Verifies(w) /\ ~NoWindow(p)

\* policy.Decide as far as this module tells policies apart: a paused host
\* refuses everything, a privileged job may be no older than MaxJobAge measured
\* from the signed notBefore, and its class must be allowed. The rest of Decide
\* is in Policy.
Decide(pol, p, t) ==
    /\ ~paused
    /\ Privileged(p) => t <= p.notBefore + MaxJobAge /\ p.class \in pol

\* NonceStore forgets what has reached its expiry.
Prune(f) == [n \in Nonces |-> IF f[n] > now THEN f[n] ELSE 0]

-----------------------------------------------------------------------------
(* The agent process *)

Finish(st) ==
    /\ status' = st
    /\ pc' = "write"

\* New and the start of Run: the nonces are loaded, and what an earlier process
\* left in the spool is delivered first.
Boot ==
    /\ pc = "down"
    /\ pc' = "deliver"
    /\ seen' = Prune(nonceFile)
    /\ todo' = {i \in Ids : spool[i] # "none"}
    /\ UNCHANGED <<snap, job, started, status, op, disk, admin, helper, now, passed, answered>>

\* ReportResult and what becomes of the spool file. A 2xx and a permanent
\* refusal remove the file, unless removing it fails; anything else leaves it,
\* whether or not the control plane got the result.
Send(i, st) ==
    \/ /\ answered' = [answered EXCEPT ![i] = IF @ = "none" THEN st ELSE @]
       /\ spool' \in {spool, [spool EXCEPT ![i] = "none"]}
    \/ UNCHANGED <<answered, spool>>

DeliverPending(i) ==
    /\ pc = "deliver"
    /\ i \in todo
    /\ Send(i, spool[i])
    /\ todo' = todo \ {i}
    /\ UNCHANGED <<pc, seen, snap, job, started, status, op, nonceFile, onlineFile,
                   admin, helper, now, passed>>

Delivered ==
    /\ pc = "deliver"
    /\ todo = {}
    /\ pc' = "idle"
    /\ UNCHANGED <<memory, disk, admin, helper, now, passed, answered>>

\* cycle up to the poll: the policy and the trust anchor are read, the
\* heartbeat answers with a server time and perhaps a new online key, which is
\* cached before it is used. A failed heartbeat leaves the agent where it was.
\* A file that cannot be read counts as empty: for the administrator's files
\* that is an edit and its reversal, for the cached key it is "unreadable".
BeginCycle(key, unreadable, skewed) ==
    /\ pc = "idle"
    /\ onlineFile' = IF key = {} THEN onlineFile ELSE key
    /\ snap' = [policy |-> policy, signers |-> signers, skewed |-> skewed,
                online |-> IF unreadable THEN {} ELSE onlineFile']
    /\ pc' = "polled"
    /\ UNCHANGED <<seen, job, started, status, op, todo, nonceFile, spool,
                   admin, helper, now, passed, answered>>

EndCycle ==
    /\ pc = "polled"
    /\ pc' = "idle"
    /\ snap' = NoSnap
    /\ UNCHANGED <<seen, job, started, status, op, todo, disk, admin, helper, now, passed, answered>>

\* A 401 stops the loop for the life of the process.
Unauthorised ==
    /\ pc = "idle"
    /\ pc' = "stopped"
    /\ UNCHANGED <<memory, disk, admin, helper, now, passed, answered>>

\* Run begins: accept up to the replay check.
BeginJob(w) ==
    /\ pc = "polled"
    /\ job' = w.payload
    /\ started' = now
    /\ op' = 0
    /\ IF ~Accepts(w)
       THEN Finish("refused")
       ELSE /\ pc' = IF Privileged(w.payload) THEN "nonce" ELSE "decide"
            /\ UNCHANGED status
    /\ UNCHANGED <<seen, snap, todo, disk, admin, helper, now, passed, answered>>

\* Mutation: the record is only kept in memory.
PersistNothing(f) == nonceFile

\* WriteFileAtomic of the whole store.
Persist(f) == f

\* NonceStore.Check. A write that fails may have reached the disk, but the
\* nonce is taken back in memory and the job fails.
CheckNonce ==
    LET p == job
        f == [Prune(seen) EXCEPT ![p.nonce] = p.notAfter]
    IN  /\ pc = "nonce"
        /\ \/ /\ seen[p.nonce] # 0
              /\ Finish("refused")
              /\ UNCHANGED <<seen, nonceFile, passed>>
           \/ /\ seen[p.nonce] = 0
              /\ seen' = f
              /\ nonceFile' = Persist(f)
              /\ passed' = IF started < p.notAfter /\ passed[p] < 2
                           THEN [passed EXCEPT ![p] = @ + 1] ELSE passed
              /\ pc' = "decide"
              /\ UNCHANGED status
           \/ /\ seen[p.nonce] = 0
              /\ seen' = Prune(seen)
              /\ nonceFile' \in {nonceFile, f}
              /\ Finish("failed")
              /\ UNCHANGED passed
        /\ UNCHANGED <<snap, job, started, op, todo, spool, onlineFile,
                       admin, helper, now, answered>>

\* Mutation: the result of an operation that may not return is not recorded
\* before it starts.
NextStop(p) == IF Privileged(p) THEN "elevate" ELSE "read"

\* Where Run goes once the job is accepted.
Onward(p) == IF p.gone THEN "spool" ELSE NextStop(p)

\* Step 6: the local policy as the cycle read it.
DecideLocally ==
    /\ pc = "decide"
    /\ IF ~Decide(snap.policy, job, started)
       THEN Finish("refused")
       ELSE pc' = Onward(job) /\ UNCHANGED status
    /\ UNCHANGED <<seen, snap, job, started, op, todo, disk, admin, helper, now, passed, answered>>

\* The provisional result is on disk, or the operation is not started.
SpoolProvisional ==
    /\ pc = "spool"
    /\ \/ /\ spool' = [spool EXCEPT ![job.id] = "succeeded"]
          /\ pc' = NextStop(job)
          /\ UNCHANGED status
       \/ /\ spool' \in {spool, [spool EXCEPT ![job.id] = "succeeded"]}
          /\ Finish("failed")
    /\ UNCHANGED <<seen, snap, job, started, op, todo, nonceFile, onlineFile,
                   admin, helper, now, passed, answered>>

\* Execute: a read-only intent runs in this process.
ExecuteRead ==
    /\ pc = "read"
    /\ \E st \in {"succeeded", "failed"} : Finish(st)
    /\ UNCHANGED <<seen, snap, job, started, op, todo, disk, admin, helper, now, passed, answered>>

\* elevate: the request reaches a helper, or the agent cannot reach one.
Elevate ==
    /\ pc = "elevate"
    /\ \/ \E k \in Slots :
             /\ ops[k] = Free
             /\ op' = k
             /\ ops' = [ops EXCEPT ![k] = [phase |-> "asked", payload |-> job]]
             /\ pc' = "await"
             /\ UNCHANGED status
       \/ /\ Finish("failed")
          /\ UNCHANGED <<op, ops>>
    /\ UNCHANGED <<seen, snap, job, started, todo, disk, admin, performed, now, passed, answered>>

Replied(k) == ops[k].phase \in Statuses

\* The helper's reply, mapped by statusForExit; or the timeout of InvokeFor, or
\* a connection that breaks, while the helper goes on.
AwaitReply ==
    /\ pc = "await"
    /\ op' = 0
    /\ \/ /\ Replied(op)
          /\ Finish(ops[op].phase)
          /\ ops' = [ops EXCEPT ![op] = Free]
       \/ /\ ~Replied(op)
          /\ Finish("failed")
          /\ UNCHANGED ops
    /\ UNCHANGED <<seen, snap, job, started, todo, disk, admin, performed, now, passed, answered>>

\* pollAndRun: the result is spooled, replacing a provisional one. A failure to
\* is only logged.
WriteResult ==
    /\ pc = "write"
    /\ \/ spool' = [spool EXCEPT ![job.id] = status]
       \/ UNCHANGED spool
    /\ pc' = "report"
    /\ UNCHANGED <<memory, nonceFile, onlineFile, admin, helper, now, passed, answered>>

\* The result is reported from memory; see Send for the spool file. Then the
\* next job of the batch.
Report ==
    /\ pc = "report"
    /\ Send(job.id, status)
    /\ pc' = "polled"
    /\ job' = NoJob
    /\ started' = 0
    /\ status' = "failed"
    /\ UNCHANGED <<seen, snap, op, todo, nonceFile, onlineFile, admin, helper, now, passed>>

-----------------------------------------------------------------------------
(* The root helpers *)

\* Mutation: the helper relies on the agent having asked.
HelperDecideNothing(p) == TRUE

\* helper.Authorise reads the policy and the pause file itself, on its own clock.
HelperDecide(p) == Decide(policy, p, now)

\* The helper process ends; its reply matters while the agent waits for it.
Conclude(k, st) ==
    ops' = [ops EXCEPT ![k] = IF op = k THEN [@ EXCEPT !.phase = st] ELSE Free]

HelperAuthorise(k) ==
    /\ ops[k].phase = "asked"
    /\ IF HelperDecide(ops[k].payload)
       THEN ops' = [ops EXCEPT ![k].phase = "performing"]
       ELSE Conclude(k, "refused")
    /\ UNCHANGED <<pc, memory, disk, admin, performed, now, passed, answered>>

HelperPerform(k) ==
    /\ ops[k].phase = "performing"
    /\ performed' = performed \cup {ops[k].payload}
    /\ \E st \in {"succeeded", "failed"} : Conclude(k, st)
    /\ UNCHANGED <<pc, memory, disk, admin, now, passed, answered>>

-----------------------------------------------------------------------------
(* Crashes, the administrator and the clock *)

ForgetMemory ==
    /\ pc' = "down"
    /\ seen' = NoNonces
    /\ snap' = NoSnap
    /\ job' = NoJob
    /\ started' = 0
    /\ status' = "failed"
    /\ op' = 0
    /\ todo' = {}

\* The agent process dies; helpers go on.
AgentCrash ==
    /\ pc # "down"
    /\ ForgetMemory
    /\ ops' = [k \in Slots |-> IF Replied(k) THEN Free ELSE ops[k]]
    /\ UNCHANGED <<disk, admin, performed, now, passed, answered>>

\* The host goes down, with whatever helpers were running (with none it is as
\* if the agent died). The operation of a helper may be what takes it down.
HostCrash ==
    /\ \E k \in Slots : ops[k] # Free
    /\ ForgetMemory
    /\ ops' = [k \in Slots |-> Free]
    /\ performed' \in {performed} \cup
          {performed \cup {ops[k].payload} : k \in {x \in Slots : ops[x].phase = "performing"}}
    /\ UNCHANGED <<disk, admin, now, passed, answered>>

EditPolicy(pol, b) ==
    /\ <<pol, b>> # <<policy, paused>>
    /\ policy' = pol
    /\ paused' = b
    /\ UNCHANGED <<pc, memory, disk, signers, trusted, helper, now, passed, answered>>

EditSigners(ks) ==
    /\ ks # signers
    /\ signers' = ks
    /\ trusted' = trusted \cup ks
    /\ UNCHANGED <<pc, memory, disk, policy, paused, helper, now, passed, answered>>

Tick ==
    /\ now < MaxTime
    /\ now' = now + 1
    /\ UNCHANGED <<pc, memory, disk, admin, helper, passed, answered>>

AgentStep ==
    \/ Boot
    \/ \E i \in Ids : DeliverPending(i)
    \/ Delivered
    \/ \E key \in {{}} \cup {{k} : k \in OnlineKeys}, ur, sk \in BOOLEAN : BeginCycle(key, ur, sk)
    \/ EndCycle
    \/ Unauthorised
    \/ \E w \in Wire : BeginJob(w)
    \/ CheckNonce
    \/ DecideLocally
    \/ SpoolProvisional
    \/ ExecuteRead
    \/ Elevate
    \/ AwaitReply
    \/ WriteResult
    \/ Report

HelperStep == \E k \in Slots : HelperAuthorise(k) \/ HelperPerform(k)

Environment ==
    \/ AgentCrash
    \/ HostCrash
    \/ \E pol \in Policies, b \in PauseStates : EditPolicy(pol, b)
    \/ \E ks \in Anchors : EditSigners(ks)
    \/ Tick

Next == AgentStep \/ HelperStep \/ Environment

Spec == Init /\ [][Next]_vars

-----------------------------------------------------------------------------
(* What the host is promised *)

PCs == {"down", "deliver", "idle", "stopped", "polled", "nonce", "decide", "spool",
        "read", "elevate", "await", "write", "report"}

\* Every variable holds a value of its kind; a job is in hand exactly while one
\* is being run.
TypeOK ==
    /\ pc \in PCs
    /\ seen \in [Nonces -> Time]
    /\ snap \in [policy : SUBSET {"routine", "destructive"}, signers : SUBSET SignerKeys,
                 online : SUBSET OnlineKeys, skewed : BOOLEAN]
    /\ job \in Payloads \cup {NoJob}
    /\ pc \in {"nonce", "decide", "spool", "read", "elevate", "await", "write", "report"}
          => job \in Payloads
    /\ started \in Time
    /\ status \in Statuses
    /\ op \in 0 .. MaxOps
    /\ op # 0 <=> pc = "await"
    /\ op # 0 => ops[op] # Free
    /\ todo \subseteq Ids
    /\ nonceFile \in [Nonces -> Time]
    /\ spool \in [Ids -> Statuses \cup {"none"}]
    /\ onlineFile \in SUBSET OnlineKeys
    /\ policy \in Policies
    /\ paused \in BOOLEAN
    /\ signers \in SUBSET SignerKeys
    /\ signers \subseteq trusted
    /\ trusted \in SUBSET SignerKeys
    /\ ops \in [Slots -> Ops]
    /\ now \in Time
    /\ passed \in [Payloads -> 0 .. 2]
    /\ performed \subseteq Payloads
    /\ answered \in [Ids -> Statuses \cup {"none"}]

\* A signed job gets past the replay check at most once before its notAfter:
\* not by redelivery, not by a restart of the agent or the host between any two
\* steps, not by other jobs that make the store prune itself, not by a failed
\* write of the store.
AcceptedOnceInsideWindow == \A p \in Payloads : passed[p] <= 1

\* The offline guarantee: whatever the control plane delivers and whatever keys
\* it holds, a helper is asked to perform, and performs, a destructive operation
\* only if a key that the administrator put in trusted-signers signed exactly
\* that payload.
Authorised(p) ==
    p.class = "destructive" => \E s \in Signed : s.payload = p /\ s.key \in trusted

NothingWithoutTheOfflineKey ==
    /\ \A p \in performed : Privileged(p) /\ Authorised(p)
    /\ \A k \in Slots : ops[k] # Free => Privileged(ops[k].payload) /\ Authorised(ops[k].payload)

\* An operation that may take the host away is never performed without its
\* result being on disk or answered for, wherever the crash comes.
NoVanishedOperation ==
    \A p \in performed : p.gone => answered[p.id] # "none" \/ spool[p.id] # "none"

\* A nonce is spent only by a job that was really authorised, so that nobody
\* without a key can make the host refuse the genuine one.
OnlyGenuineJobsSpendNonces ==
    \A n \in Nonces : nonceFile[n] # 0 =>
        \E p \in Payloads : /\ Privileged(p)
                            /\ p.nonce = n
                            /\ p.notAfter = nonceFile[n]
                            /\ Authorised(p)

Performing == {k \in Slots : ops[k].phase = "performing"}

\* The pause file stops everything: while it is there, nothing is performed
\* apart from what a helper had already begun, whatever the agent had read
\* before (Paused is read by the agent and again by the helper).
PauseStopsTheHost ==
    [][paused /\ paused' /\ Performing = {} => performed' = performed /\ Performing' = {}]_vars

-----------------------------------------------------------------------------
(* The inductive invariant *)

\* Inside its window, a payload that passed is in the store, on disk and in
\* memory; and one that was still inside it when Run began is found there even
\* if the window closes before the store is asked.
ReplayIsRemembered ==
    /\ \A p \in Payloads : passed[p] # 0 /\ now < p.notAfter =>
           /\ nonceFile[p.nonce] = p.notAfter
           /\ pc # "down" => seen[p.nonce] = p.notAfter
    /\ pc = "nonce" /\ passed[job] # 0 /\ started < job.notAfter => seen[job.nonce] # 0

Working == {"nonce", "decide", "spool", "elevate", "await"}

\* What the agent works on was verified against keys it had read.
WorkIsAuthorised ==
    /\ snap.signers \subseteq trusted
    /\ pc \in Working => Authorised(job)
    /\ pc \in {"nonce", "elevate", "await"} => Privileged(job)

Genuine(n, t) ==
    t # 0 => \E p \in Payloads :
                Privileged(p) /\ p.nonce = n /\ p.notAfter = t /\ Authorised(p)

MemoryIsGenuine == \A n \in Nonces : Genuine(n, seen[n])

OnRecord(i) == answered[i] # "none" \/ spool[i] # "none"

\* From the provisional result on, an operation that may not return is on record.
ProvisionalIsOnRecord ==
    /\ pc = "deliver" => \A i \in todo : spool[i] # "none"
    /\ pc \in {"elevate", "await"} /\ job.gone => OnRecord(job.id)
    /\ \A k \in Slots : ops[k] # Free /\ ops[k].payload.gone => OnRecord(ops[k].payload.id)

\* What the agent keeps through every crash, restart and redelivery: a payload
\* that passed the replay check is remembered for as long as it could pass
\* again, what is worked on was verified, a nonce was spent by a genuine job,
\* and what may take the host away is on record first (RunJob, NonceStore,
\* runOnHelper, Spool).
AgentInv ==
    /\ TypeOK
    /\ AcceptedOnceInsideWindow
    /\ ReplayIsRemembered
    /\ WorkIsAuthorised
    /\ NothingWithoutTheOfflineKey
    /\ OnlyGenuineJobsSpendNonces
    /\ MemoryIsGenuine
    /\ ProvisionalIsOnRecord
    /\ NoVanishedOperation

=============================================================================
