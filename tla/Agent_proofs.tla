----------------------------- MODULE Agent_proofs -----------------------------
(***************************************************************************)
(* Proofs about Agent, for every set of payloads, keys and signatures,     *)
(* every number of helpers and every length of time, and about LongPoll,   *)
(* the request in which an agent waits for work, for every set of jobs,    *)
(* hosts, replicas and requests.                                           *)
(***************************************************************************)
EXTENDS Agent, LongPoll, FiniteSetTheorems, TLAPS

\* The fields of a payload are what the job path takes them for.
LEMMA PayloadFacts ==
    ASSUME NEW p \in Payloads
    PROVE  /\ p.id \in Ids
           /\ p.nonce \in Nonces
           /\ p.notBefore \in Nat
           /\ p.notAfter \in Time
           /\ p.notAfter \in Nat
           /\ p.gone \in BOOLEAN
           /\ p.class \in Classes
BY AgentAssumptions DEF Ids, Nonces, Time

\* A helper slot is free, or holds a request in one of the phases.
LEMMA OpFacts ==
    ASSUME NEW o \in Ops
    PROVE  /\ o.phase = "free" => o = Free
           /\ o = Free => o.phase = "free"
           /\ o # Free => o.payload \in Payloads
           /\ o # Free => o.phase \in {"asked", "performing"} \cup Statuses
BY DEF Ops, Free, Statuses

LEMMA FreeIsOp == Free \in Ops
BY DEF Ops

\* Moving a request to another phase keeps its payload.
LEMMA PhaseFacts ==
    ASSUME NEW o \in Ops, o # Free,
           NEW ph \in {"asked", "performing"} \cup Statuses,
           NEW e, e = [o EXCEPT !.phase = ph]
    PROVE  e \in Ops /\ e # Free /\ e.payload = o.payload /\ e.phase = ph
BY DEF Ops, Free, Statuses

\* A new request is one.
LEMMA RequestFacts ==
    ASSUME NEW p \in Payloads, NEW e, e = [phase |-> "asked", payload |-> p]
    PROVE  e \in Ops /\ e # Free /\ e.payload = p /\ e.phase = "asked"
BY DEF Ops, Free, Statuses

\* Pruning yields a store, and keeps what has not reached its expiry.
LEMMA PruneFacts ==
    ASSUME NEW f \in [Nonces -> Time], now \in Time
    PROVE  /\ Prune(f) \in [Nonces -> Time]
           /\ \A n \in Nonces : f[n] > now => Prune(f)[n] = f[n]
           /\ \A n \in Nonces : Prune(f)[n] # 0 => Prune(f)[n] = f[n]
BY AgentAssumptions DEF Prune, Time

\* The initial states are well typed.
LEMMA TypeInit == Init => TypeOK
BY AgentAssumptions
   DEF Init, TypeOK, NoNonces, NoSnap, PCs, Statuses, Time, Ops, Free, Slots

\* Every step keeps the state well typed.
LEMMA TypeStep == TypeOK /\ [Next]_vars => TypeOK'
<1> SUFFICES ASSUME TypeOK, [Next]_vars PROVE TypeOK'
  OBVIOUS
<1> USE DEF PCs, Statuses, memory, disk, admin, helper, Slots, Finish, ForgetMemory
<1>1. CASE Boot
  <2>1. seen' \in [Nonces -> Time]
    BY <1>1, PruneFacts DEF TypeOK, Boot
  <2> QED
    BY <1>1, <2>1 DEF TypeOK, Boot
<1>2. ASSUME NEW i \in Ids, DeliverPending(i) PROVE TypeOK'
  BY <1>2 DEF TypeOK, DeliverPending, Send
<1>3. CASE Delivered
  BY <1>3 DEF TypeOK, Delivered
<1>4. ASSUME NEW key \in {{}} \cup {{k} : k \in OnlineKeys}, NEW ur \in BOOLEAN, NEW sk \in BOOLEAN,
             BeginCycle(key, ur, sk)
      PROVE  TypeOK'
  BY <1>4, AgentAssumptions DEF TypeOK, BeginCycle
<1>5. CASE EndCycle
  BY <1>5 DEF TypeOK, EndCycle, NoSnap
<1>6. CASE Unauthorised
  BY <1>6 DEF TypeOK, Unauthorised
<1>7. ASSUME NEW w \in Wire, BeginJob(w) PROVE TypeOK'
  BY <1>7 DEF TypeOK, BeginJob, Wire
<1>8. CASE CheckNonce
  <2>1. job \in Payloads /\ job.nonce \in Nonces /\ job.notAfter \in Time
    BY <1>8, PayloadFacts DEF TypeOK, CheckNonce
  <2>2. Prune(seen) \in [Nonces -> Time]
    BY PruneFacts DEF TypeOK
  <2>3. seen' \in [Nonces -> Time] /\ nonceFile' \in [Nonces -> Time]
    BY <1>8, <2>1, <2>2 DEF TypeOK, CheckNonce, Persist
  <2>4. passed' \in [Payloads -> 0 .. 2]
    BY <1>8, <2>1 DEF TypeOK, CheckNonce
  <2> QED
    BY <1>8, <2>3, <2>4 DEF TypeOK, CheckNonce
<1>9. CASE DecideLocally
  BY <1>9 DEF TypeOK, DecideLocally, Onward, NextStop
<1>10. CASE SpoolProvisional
  <2>1. job \in Payloads /\ job.id \in Ids
    BY <1>10, PayloadFacts DEF TypeOK, SpoolProvisional
  <2> QED
    BY <1>10, <2>1 DEF TypeOK, SpoolProvisional, NextStop
<1>11. CASE ExecuteRead
  BY <1>11 DEF TypeOK, ExecuteRead
<1>12. CASE Elevate
  <2>1. job \in Payloads
    BY <1>12 DEF TypeOK, Elevate
  <2>2. CASE pc' = "await"
    <3>1. PICK k \in Slots : op' = k /\ ops' = [ops EXCEPT ![k] = [phase |-> "asked", payload |-> job]]
      BY <1>12, <2>2 DEF Elevate
    <3> DEFINE e == [phase |-> "asked", payload |-> job]
    <3>2. e \in Ops /\ e # Free
      BY <2>1, RequestFacts
    <3> HIDE DEF e
    <3>3. ops' \in [Slots -> Ops] /\ ops'[op'] # Free /\ op' \in 1 .. MaxOps
      BY <3>1, <3>2 DEF TypeOK, e
    <3> QED
      BY <1>12, <2>2, <3>3, AgentAssumptions DEF TypeOK, Elevate
  <2>3. CASE pc' # "await"
    BY <1>12, <2>3 DEF TypeOK, Elevate
  <2> QED
    BY <2>2, <2>3
<1>13. CASE AwaitReply
  <2>1. op \in Slots
    BY <1>13, AgentAssumptions DEF TypeOK, AwaitReply
  <2>2. ops' \in [Slots -> Ops]
    BY <1>13, <2>1, FreeIsOp DEF TypeOK, AwaitReply
  <2>3. status' \in Statuses
    BY <1>13 DEF TypeOK, AwaitReply, Replied
  <2> QED
    BY <1>13, <2>2, <2>3, AgentAssumptions DEF TypeOK, AwaitReply
<1>14. CASE WriteResult
  <2>1. job \in Payloads /\ job.id \in Ids
    BY <1>14, PayloadFacts DEF TypeOK, WriteResult
  <2> QED
    BY <1>14, <2>1 DEF TypeOK, WriteResult
<1>15. CASE Report
  <2>1. job \in Payloads /\ job.id \in Ids
    BY <1>15, PayloadFacts DEF TypeOK, Report
  <2>2. answered' \in [Ids -> Statuses \cup {"none"}]
    BY <1>15, <2>1 DEF TypeOK, Report, Send
  <2>3. spool' \in [Ids -> Statuses \cup {"none"}]
    BY <1>15, <2>1 DEF TypeOK, Report, Send
  <2> QED
    BY <1>15, <2>2, <2>3, AgentAssumptions DEF TypeOK, Report, Time
<1>16. ASSUME NEW k \in Slots, HelperAuthorise(k) PROVE TypeOK'
  <2>1. PICK e \in Ops : e # Free /\ ops' \in {[ops EXCEPT ![k] = e], [ops EXCEPT ![k] = Free]}
                         /\ (op = k => ops' = [ops EXCEPT ![k] = e])
    <3> DEFINE perf == [ops[k] EXCEPT !.phase = "performing"]
               ref == [ops[k] EXCEPT !.phase = "refused"]
    <3>1. ops[k] \in Ops /\ ops[k] # Free
      BY <1>16, OpFacts DEF TypeOK, HelperAuthorise, Free
    <3>2. perf \in Ops /\ perf # Free /\ ref \in Ops /\ ref # Free
      BY <3>1, PhaseFacts
    <3>3. ops' = [ops EXCEPT ![k] = perf] \/ ops' = [ops EXCEPT ![k] = IF op = k THEN ref ELSE Free]
      BY <1>16 DEF HelperAuthorise, Conclude
    <3> HIDE DEF perf, ref
    <3> QED
      BY <3>2, <3>3
  <2>2. ops' \in [Slots -> Ops]
    BY <2>1, FreeIsOp DEF TypeOK
  <2>3. op # 0 => ops'[op] # Free
    <3>1. op # 0 => op \in Slots
      BY AgentAssumptions DEF TypeOK
    <3>2. CASE op = k
      BY <2>1, <3>2 DEF TypeOK
    <3>3. CASE op # k
      BY <2>1, <3>1, <3>3 DEF TypeOK
    <3> QED
      BY <3>2, <3>3
  <2> QED
    BY <1>16, <2>2, <2>3 DEF TypeOK, HelperAuthorise
<1>17. ASSUME NEW k \in Slots, HelperPerform(k) PROVE TypeOK'
  <2>1. ops[k] \in Ops /\ ops[k] # Free /\ ops[k].payload \in Payloads
    BY <1>17, OpFacts DEF TypeOK, HelperPerform, Free
  <2>2. PICK st \in {"succeeded", "failed"} : Conclude(k, st)
    BY <1>17 DEF HelperPerform
  <2> DEFINE e == [ops[k] EXCEPT !.phase = st]
  <2>3. e \in Ops /\ e # Free
    BY <2>1, PhaseFacts
  <2>4. ops' = [ops EXCEPT ![k] = IF op = k THEN e ELSE Free]
    BY <2>2 DEF Conclude
  <2> HIDE DEF e
  <2>5. ops' \in [Slots -> Ops] /\ (op # 0 => ops'[op] # Free)
    BY <2>3, <2>4, FreeIsOp DEF TypeOK
  <2> QED
    BY <1>17, <2>1, <2>5 DEF TypeOK, HelperPerform
<1>18. CASE AgentCrash
  BY <1>18, AgentAssumptions DEF TypeOK, AgentCrash, NoNonces, NoSnap, Time, Ops
<1>19. CASE HostCrash
  <2>1. ops' \in [Slots -> Ops]
    BY <1>19 DEF HostCrash, Ops
  <2>2. performed' \subseteq Payloads
    <3>1. \A k \in Slots : ops[k].phase = "performing" => ops[k].payload \in Payloads
      BY OpFacts DEF TypeOK, Free
    <3> QED
      BY <1>19, <3>1 DEF TypeOK, HostCrash
  <2>3. /\ seen' \in [Nonces -> Time]
        /\ snap' \in [policy : SUBSET {"routine", "destructive"}, signers : SUBSET SignerKeys,
                      online : SUBSET OnlineKeys, skewed : BOOLEAN]
        /\ 0 \in Time
    BY <1>19, AgentAssumptions DEF HostCrash, NoNonces, NoSnap, Time
  <2>4. ForgetMemory /\ UNCHANGED <<disk, admin, now, passed, answered>>
    BY <1>19 DEF HostCrash
  <2> QED
    BY <2>1, <2>2, <2>3, <2>4, AgentAssumptions DEF TypeOK
<1>20. ASSUME NEW pol \in Policies, NEW b \in PauseStates, EditPolicy(pol, b) PROVE TypeOK'
  BY <1>20, AgentAssumptions DEF TypeOK, EditPolicy
<1>21. ASSUME NEW ks \in Anchors, EditSigners(ks) PROVE TypeOK'
  BY <1>21, AgentAssumptions DEF TypeOK, EditSigners
<1>22. CASE Tick
  BY <1>22, AgentAssumptions DEF TypeOK, Tick, Time
<1>23. CASE UNCHANGED vars
  BY <1>23 DEF TypeOK, vars
<1> QED
  BY <1>1, <1>2, <1>3, <1>4, <1>5, <1>6, <1>7, <1>8, <1>9, <1>10, <1>11, <1>12, <1>13, <1>14,
     <1>15, <1>16, <1>17, <1>18, <1>19, <1>20, <1>21, <1>22, <1>23
     DEF Next, AgentStep, HelperStep, Environment

-----------------------------------------------------------------------------
(* The replay defence *)

\* Every step keeps what ReplayIsRemembered says, and with it the count of passes.
LEMMA ReplayStep ==
    TypeOK /\ AcceptedOnceInsideWindow /\ ReplayIsRemembered /\ [Next]_vars
        => AcceptedOnceInsideWindow' /\ ReplayIsRemembered'
<1> SUFFICES ASSUME TypeOK, AcceptedOnceInsideWindow, ReplayIsRemembered, [Next]_vars
             PROVE  AcceptedOnceInsideWindow' /\ ReplayIsRemembered'
  OBVIOUS
<1> USE DEF memory, disk, admin, helper, Finish, ForgetMemory
<1> DEFINE Quiet == /\ UNCHANGED <<seen, nonceFile, passed, now>>
                    /\ pc' = "nonce" => pc = "nonce" /\ UNCHANGED <<job, started>>
                    /\ pc' # "down" => pc # "down"
<1>0. Quiet => AcceptedOnceInsideWindow' /\ ReplayIsRemembered'
  BY DEF AcceptedOnceInsideWindow, ReplayIsRemembered
<1> HIDE DEF Quiet
<1>1. CASE Boot
  <2>1. \A p \in Payloads : p.nonce \in Nonces /\ p.notAfter \in Nat
    BY PayloadFacts
  <2>2. \A n \in Nonces : nonceFile[n] > now => seen'[n] = nonceFile[n]
    BY <1>1, PruneFacts DEF TypeOK, Boot
  <2>3. \A p \in Payloads : passed'[p] # 0 /\ now' < p.notAfter =>
            nonceFile'[p.nonce] = p.notAfter /\ seen'[p.nonce] = p.notAfter
    BY <1>1, <2>1, <2>2 DEF TypeOK, Boot, ReplayIsRemembered, Time
  <2> QED
    BY <1>1, <2>3 DEF Boot, AcceptedOnceInsideWindow, ReplayIsRemembered
<1>2. ASSUME NEW i \in Ids, DeliverPending(i) PROVE Quiet
  BY <1>2 DEF DeliverPending, Quiet
<1>3. ASSUME Delivered PROVE Quiet
  BY <1>3 DEF Delivered, Quiet
<1>4. ASSUME NEW key, NEW ur, NEW sk, BeginCycle(key, ur, sk) PROVE Quiet
  BY <1>4 DEF BeginCycle, Quiet
<1>5. ASSUME EndCycle PROVE Quiet
  BY <1>5 DEF EndCycle, Quiet
<1>6. ASSUME Unauthorised PROVE Quiet
  BY <1>6 DEF Unauthorised, Quiet
<1>7. ASSUME NEW w \in Wire, BeginJob(w) PROVE AcceptedOnceInsideWindow' /\ ReplayIsRemembered'
  <2>1. w.payload \in Payloads
    BY DEF Wire
  <2>2. w.payload.notAfter \in Nat /\ now \in Nat
    BY <2>1, PayloadFacts DEF TypeOK, Time
  <2>3. passed[w.payload] # 0 /\ now < w.payload.notAfter => seen[w.payload.nonce] # 0
    BY <1>7, <2>1, <2>2 DEF BeginJob, ReplayIsRemembered
  <2> QED
    BY <1>7, <2>3 DEF BeginJob, AcceptedOnceInsideWindow, ReplayIsRemembered
<1>8. CASE CheckNonce
  <2>1. /\ job \in Payloads /\ job.nonce \in Nonces
        /\ \A p \in Payloads : p.nonce \in Nonces /\ p.notAfter \in Nat
        /\ now \in Nat
    BY <1>8, PayloadFacts DEF TypeOK, CheckNonce, Time
  <2> DEFINE f == [Prune(seen) EXCEPT ![job.nonce] = job.notAfter]
  <2>2. /\ Prune(seen) \in [Nonces -> Time]
        /\ \A n \in Nonces : seen[n] > now => Prune(seen)[n] = seen[n]
    BY PruneFacts DEF TypeOK
  <2>3. /\ f \in [Nonces -> Time] /\ f[job.nonce] = job.notAfter
        /\ \A n \in Nonces : n # job.nonce /\ seen[n] > now => f[n] = seen[n]
    BY <2>1, <2>2, PayloadFacts
  <2>4. \A p \in Payloads : passed[p] # 0 /\ now < p.notAfter =>
            nonceFile[p.nonce] = p.notAfter /\ seen[p.nonce] = p.notAfter
    BY <1>8 DEF CheckNonce, ReplayIsRemembered
  <2> HIDE DEF f
  <2>5. CASE UNCHANGED <<seen, nonceFile, passed>>
    BY <1>8, <2>5 DEF CheckNonce, AcceptedOnceInsideWindow, ReplayIsRemembered
  <2>6. CASE /\ seen[job.nonce] = 0 /\ seen' = f /\ nonceFile' = f /\ pc' = "decide"
             /\ passed' = IF started < job.notAfter /\ passed[job] < 2
                          THEN [passed EXCEPT ![job] = @ + 1] ELSE passed
    <3>1. started < job.notAfter => passed[job] = 0
      BY <1>8, <2>6 DEF CheckNonce, ReplayIsRemembered
    <3>2. \A p \in Payloads : passed'[p] # 0 => p = job \/ passed[p] # 0
      BY <2>1, <2>6 DEF TypeOK
    <3>3. \A p \in Payloads : passed'[p] <= 1
      BY <2>1, <2>6, <3>1 DEF TypeOK, AcceptedOnceInsideWindow
    <3>4. now' = now
      BY <1>8 DEF CheckNonce
    <3>5. ASSUME NEW p \in Payloads, passed'[p] # 0, now' < p.notAfter
          PROVE  f[p.nonce] = p.notAfter
      <4>1. CASE p = job
        BY <2>3, <4>1
      <4>2. CASE passed[p] # 0
        <5>1. seen[p.nonce] = p.notAfter
          BY <2>4, <3>4, <3>5, <4>2
        <5>2. seen[p.nonce] > now
          BY <2>1, <5>1, <3>4, <3>5
        <5>3. p.nonce # job.nonce
          BY <2>1, <2>6, <5>2
        <5> QED
          BY <2>1, <2>3, <5>1, <5>2, <5>3
      <4> QED
        BY <3>2, <3>5, <4>1, <4>2
    <3> QED
      BY <2>6, <3>3, <3>5 DEF AcceptedOnceInsideWindow, ReplayIsRemembered
  <2>7. CASE /\ seen[job.nonce] = 0 /\ seen' = Prune(seen) /\ nonceFile' \in {nonceFile, f}
             /\ pc' = "write" /\ passed' = passed
    <3>1. now' = now
      BY <1>8 DEF CheckNonce
    <3>2. ASSUME NEW p \in Payloads, passed[p] # 0, now < p.notAfter
          PROVE  f[p.nonce] = p.notAfter /\ nonceFile[p.nonce] = p.notAfter
                 /\ Prune(seen)[p.nonce] = p.notAfter
      <4>1. seen[p.nonce] = p.notAfter /\ nonceFile[p.nonce] = p.notAfter
        BY <2>4, <3>2
      <4>2. seen[p.nonce] > now
        BY <2>1, <4>1, <3>2
      <4>3. p.nonce # job.nonce
        BY <2>1, <2>7, <4>2
      <4> QED
        BY <2>1, <2>2, <2>3, <4>1, <4>2, <4>3
    <3> QED
      BY <2>7, <3>1, <3>2 DEF AcceptedOnceInsideWindow, ReplayIsRemembered
  <2> QED
    BY <1>8, <2>5, <2>6, <2>7 DEF CheckNonce, Persist, f
<1>9. ASSUME DecideLocally PROVE Quiet
  BY <1>9 DEF DecideLocally, Onward, NextStop, Quiet
<1>10. ASSUME SpoolProvisional PROVE Quiet
  BY <1>10 DEF SpoolProvisional, NextStop, Quiet
<1>11. ASSUME ExecuteRead PROVE Quiet
  BY <1>11 DEF ExecuteRead, Quiet
<1>12. ASSUME Elevate PROVE Quiet
  BY <1>12 DEF Elevate, Quiet
<1>13. ASSUME AwaitReply PROVE Quiet
  BY <1>13 DEF AwaitReply, Quiet
<1>14. ASSUME WriteResult PROVE Quiet
  BY <1>14 DEF WriteResult, Quiet
<1>15. ASSUME Report PROVE Quiet
  BY <1>15 DEF Report, Quiet
<1>16. ASSUME NEW k \in Slots, HelperAuthorise(k) PROVE Quiet
  BY <1>16 DEF HelperAuthorise, Quiet
<1>17. ASSUME NEW k \in Slots, HelperPerform(k) PROVE Quiet
  BY <1>17 DEF HelperPerform, Quiet
<1>18. CASE AgentCrash
  BY <1>18 DEF AgentCrash, AcceptedOnceInsideWindow, ReplayIsRemembered
<1>19. CASE HostCrash
  BY <1>19 DEF HostCrash, AcceptedOnceInsideWindow, ReplayIsRemembered
<1>20. ASSUME NEW pol, NEW b, EditPolicy(pol, b) PROVE Quiet
  BY <1>20 DEF EditPolicy, Quiet
<1>21. ASSUME NEW ks, EditSigners(ks) PROVE Quiet
  BY <1>21 DEF EditSigners, Quiet
<1>22. CASE Tick
  <2>1. \A p \in Payloads : p.notAfter \in Nat
    BY PayloadFacts
  <2>2. now \in Nat
    BY DEF TypeOK, Time
  <2> QED
    BY <1>22, <2>1, <2>2 DEF Tick, AcceptedOnceInsideWindow, ReplayIsRemembered
<1>23. ASSUME UNCHANGED vars PROVE Quiet
  BY <1>23 DEF vars, Quiet
<1> QED
  BY <1>0, <1>1, <1>2, <1>3, <1>4, <1>5, <1>6, <1>7, <1>8, <1>9, <1>10, <1>11, <1>12, <1>13, <1>14,
     <1>15, <1>16, <1>17, <1>18, <1>19, <1>20, <1>21, <1>22, <1>23
     DEF Next, AgentStep, HelperStep, Environment

-----------------------------------------------------------------------------
(* The offline guarantee *)

\* The history of the trust anchor only grows.
LEMMA TrustGrows == [Next]_vars => trusted \subseteq trusted'
<1> USE DEF memory, disk, admin, helper
<1>1. AgentStep => UNCHANGED trusted
  BY DEF AgentStep, Boot, DeliverPending, Delivered, BeginCycle, EndCycle, Unauthorised, BeginJob,
         CheckNonce, DecideLocally, SpoolProvisional, ExecuteRead, Elevate, AwaitReply,
         WriteResult, Report
<1>2. HelperStep => UNCHANGED trusted
  BY DEF HelperStep, HelperAuthorise, HelperPerform
<1>3. Environment => trusted \subseteq trusted'
  BY DEF Environment, AgentCrash, HostCrash, EditPolicy, EditSigners, Tick
<1> QED
  BY <1>1, <1>2, <1>3 DEF Next, vars

\* What was authorised stays authorised.
LEMMA AuthorityStays ==
    ASSUME NEW p, trusted \subseteq trusted', Authorised(p)
    PROVE  Authorised(p)'
BY DEF Authorised

\* A wire job that verifies is authorised: an offline key cannot be among the
\* control plane's own, so the signature is one that was really made.
LEMMA AcceptedIsAuthorised ==
    ASSUME TypeOK, snap.signers \subseteq trusted, NEW w \in Wire, Accepts(w)
    PROVE  Authorised(w.payload)
<1> SUFFICES ASSUME w.payload.class = "destructive"
             PROVE  \E s \in Signed : s.payload = w.payload /\ s.key \in trusted
  BY DEF Authorised
<1>1. w.sig # NoSig /\ w.sig.payload = w.payload /\ w.sig.key \in snap.signers
  BY DEF Accepts, Verifies, Privileged
<1>2. snap.signers \subseteq SignerKeys
  BY DEF TypeOK
<1>3. w.sig \in {NoSig} \cup Signed \cup [key : OnlineKeys, payload : Payloads]
  BY DEF Wire
<1>4. w.sig \notin [key : OnlineKeys, payload : Payloads]
  BY <1>1, <1>2, AgentAssumptions
<1> QED
  BY <1>1, <1>3, <1>4

\* Every step keeps the agent on authorised work.
LEMMA WorkStep == TypeOK /\ WorkIsAuthorised /\ [Next]_vars => WorkIsAuthorised'
<1> SUFFICES ASSUME TypeOK, WorkIsAuthorised, [Next]_vars PROVE WorkIsAuthorised'
  OBVIOUS
<1> USE DEF memory, disk, admin, helper, Finish, ForgetMemory, Working
<1> DEFINE Quiet == /\ snap'.signers \subseteq trusted'
                    /\ pc' \in Working => pc \in Working /\ job' = job
                    /\ pc' \in {"nonce", "elevate", "await"} =>
                          Privileged(job)
<1>0. Quiet => WorkIsAuthorised'
  <2> SUFFICES ASSUME Quiet PROVE WorkIsAuthorised'
    OBVIOUS
  <2>1. pc' \in Working => Authorised(job)'
    <3> SUFFICES ASSUME pc' \in Working PROVE Authorised(job)'
      OBVIOUS
    <3>1. job' = job /\ Authorised(job)
      BY DEF WorkIsAuthorised
    <3> QED
      BY <3>1, TrustGrows, AuthorityStays DEF Authorised
  <2> QED
    BY <2>1 DEF WorkIsAuthorised, Privileged, Authorised
<1>A. snap.signers \subseteq trusted'
  BY TrustGrows DEF WorkIsAuthorised
<1>B. pc \in {"nonce", "elevate", "await"} => Privileged(job)
  BY DEF WorkIsAuthorised
<1> HIDE DEF Quiet
<1>1. ASSUME Boot PROVE Quiet
  BY <1>1, <1>A DEF Boot, Quiet
<1>2. ASSUME NEW i \in Ids, DeliverPending(i) PROVE Quiet
  BY <1>2, <1>A DEF DeliverPending, Quiet
<1>3. ASSUME Delivered PROVE Quiet
  BY <1>3, <1>A DEF Delivered, Quiet
<1>4. ASSUME NEW key, NEW ur, NEW sk, BeginCycle(key, ur, sk) PROVE Quiet
  BY <1>4 DEF BeginCycle, Quiet, TypeOK
<1>5. ASSUME EndCycle PROVE Quiet
  BY <1>5 DEF EndCycle, NoSnap, Quiet
<1>6. ASSUME Unauthorised PROVE Quiet
  BY <1>6, <1>A DEF Unauthorised, Quiet
<1>7. ASSUME NEW w \in Wire, BeginJob(w) PROVE WorkIsAuthorised'
  <2>1. trusted' = trusted /\ snap' = snap /\ job' = w.payload
    BY <1>7 DEF BeginJob
  <2>2. CASE Accepts(w)
    <3>1. Authorised(w.payload)
      BY <2>2, AcceptedIsAuthorised DEF WorkIsAuthorised
    <3>2. pc' = IF Privileged(w.payload) THEN "nonce" ELSE "decide"
      BY <1>7, <2>2 DEF BeginJob
    <3> QED
      BY <2>1, <3>1, <3>2 DEF WorkIsAuthorised, Authorised, Privileged
  <2>3. CASE ~Accepts(w)
    BY <1>7, <2>1, <2>3 DEF BeginJob, WorkIsAuthorised
  <2> QED
    BY <2>2, <2>3
<1>8. ASSUME CheckNonce PROVE Quiet
  BY <1>8, <1>A DEF CheckNonce, Quiet
<1>9. ASSUME DecideLocally PROVE Quiet
  BY <1>9, <1>A DEF DecideLocally, Onward, NextStop, Quiet
<1>10. ASSUME SpoolProvisional PROVE Quiet
  BY <1>10, <1>A DEF SpoolProvisional, NextStop, Quiet
<1>11. ASSUME ExecuteRead PROVE Quiet
  BY <1>11, <1>A DEF ExecuteRead, Quiet
<1>12. ASSUME Elevate PROVE Quiet
  BY <1>12, <1>A, <1>B DEF Elevate, Quiet
<1>13. ASSUME AwaitReply PROVE Quiet
  BY <1>13, <1>A DEF AwaitReply, Quiet
<1>14. ASSUME WriteResult PROVE Quiet
  BY <1>14, <1>A DEF WriteResult, Quiet
<1>15. ASSUME Report PROVE Quiet
  BY <1>15, <1>A DEF Report, Quiet
<1>16. ASSUME NEW k \in Slots, HelperAuthorise(k) PROVE Quiet
  BY <1>16, <1>A, <1>B DEF HelperAuthorise, Quiet
<1>17. ASSUME NEW k \in Slots, HelperPerform(k) PROVE Quiet
  BY <1>17, <1>A, <1>B DEF HelperPerform, Quiet
<1>18. ASSUME AgentCrash PROVE Quiet
  BY <1>18 DEF AgentCrash, NoSnap, Quiet
<1>19. ASSUME HostCrash PROVE Quiet
  BY <1>19 DEF HostCrash, NoSnap, Quiet
<1>20. ASSUME NEW pol, NEW b, EditPolicy(pol, b) PROVE Quiet
  BY <1>20, <1>A, <1>B DEF EditPolicy, Quiet
<1>21. ASSUME NEW ks, EditSigners(ks) PROVE Quiet
  BY <1>21, <1>A, <1>B DEF EditSigners, Quiet
<1>22. ASSUME Tick PROVE Quiet
  BY <1>22, <1>A, <1>B DEF Tick, Quiet
<1>23. ASSUME UNCHANGED vars PROVE Quiet
  BY <1>23, <1>A, <1>B DEF vars, Quiet
<1> QED
  BY <1>0, <1>1, <1>2, <1>3, <1>4, <1>5, <1>6, <1>7, <1>8, <1>9, <1>10, <1>11, <1>12, <1>13, <1>14,
     <1>15, <1>16, <1>17, <1>18, <1>19, <1>20, <1>21, <1>22, <1>23
     DEF Next, AgentStep, HelperStep, Environment

\* What a helper holds after a step it held before, or the agent just asked for
\* it; what has been performed was performed before, or a helper held it.
LEMMA HelperTraffic ==
    ASSUME TypeOK, [Next]_vars
    PROVE  /\ \A k \in Slots : ops'[k] # Free =>
                  \/ ops[k] # Free /\ ops'[k].payload = ops[k].payload
                  \/ pc = "elevate" /\ ops'[k].payload = job
           /\ \A p \in performed' :
                  p \in performed \/ \E k \in Slots : ops[k] # Free /\ p = ops[k].payload
<1> USE DEF memory, disk, admin, helper
<1> DEFINE Kept == \A k \in Slots : ops'[k] # Free =>
                  \/ ops[k] # Free /\ ops'[k].payload = ops[k].payload
                  \/ pc = "elevate" /\ ops'[k].payload = job
           Done == \A p \in performed' :
                  p \in performed \/ \E k \in Slots : ops[k] # Free /\ p = ops[k].payload
<1>1. ASSUME Elevate PROVE Kept /\ Done
  <2>1. CASE UNCHANGED ops
    BY <1>1, <2>1 DEF Elevate
  <2>2. ASSUME NEW k \in Slots, ops' = [ops EXCEPT ![k] = [phase |-> "asked", payload |-> job]]
        PROVE  Kept
    <3> DEFINE e == [phase |-> "asked", payload |-> job]
    <3>1. e.payload = job
      OBVIOUS
    <3> HIDE DEF e
    <3>2. ops' = [ops EXCEPT ![k] = e]
      BY <2>2 DEF e
    <3> QED
      BY <1>1, <3>1, <3>2 DEF Elevate, TypeOK
  <2> QED
    BY <1>1, <2>1, <2>2 DEF Elevate
<1>2. ASSUME AwaitReply PROVE Kept /\ Done
  <2>1. op \in Slots
    BY <1>2, AgentAssumptions DEF TypeOK, AwaitReply, Slots
  <2> QED
    BY <1>2, <2>1 DEF AwaitReply, TypeOK
<1>3. ASSUME NEW k \in Slots, HelperAuthorise(k) \/ HelperPerform(k) PROVE Kept /\ Done
  <2>1. ops[k] \in Ops /\ ops[k] # Free
    BY <1>3, OpFacts DEF HelperAuthorise, HelperPerform, TypeOK, Free
  <2>2. PICK ph \in {"asked", "performing"} \cup Statuses :
            ops' \in {[ops EXCEPT ![k] = [ops[k] EXCEPT !.phase = ph]], [ops EXCEPT ![k] = Free]}
    BY <1>3 DEF HelperAuthorise, HelperPerform, Conclude, Statuses
  <2> DEFINE e == [ops[k] EXCEPT !.phase = ph]
  <2>3. e.payload = ops[k].payload
    BY <2>1, PhaseFacts
  <2>4. ops' = [ops EXCEPT ![k] = e] \/ ops' = [ops EXCEPT ![k] = Free]
    BY <2>2
  <2> HIDE DEF e
  <2>5. performed' \subseteq performed \cup {ops[k].payload}
    BY <1>3 DEF HelperAuthorise, HelperPerform
  <2> QED
    BY <2>1, <2>3, <2>4, <2>5 DEF TypeOK
<1>4. ASSUME AgentCrash PROVE Kept /\ Done
  BY <1>4 DEF AgentCrash
<1>5. ASSUME HostCrash PROVE Kept /\ Done
  <2>1. Kept
    BY <1>5 DEF HostCrash
  <2>2. \A k \in Slots : ops[k].phase = "performing" => ops[k] # Free
    BY DEF Free
  <2>3. Done
    BY <1>5, <2>2 DEF HostCrash
  <2> QED
    BY <2>1, <2>3
<1>6. ASSUME UNCHANGED <<ops, performed>> PROVE Kept /\ Done
  BY <1>6
<1>7. AgentStep => Elevate \/ AwaitReply \/ UNCHANGED <<ops, performed>>
  BY DEF AgentStep, Boot, DeliverPending, Delivered, BeginCycle, EndCycle, Unauthorised, BeginJob,
         CheckNonce, DecideLocally, SpoolProvisional, ExecuteRead, WriteResult, Report
<1>8. Environment => AgentCrash \/ HostCrash \/ UNCHANGED <<ops, performed>>
  BY DEF Environment, EditPolicy, EditSigners, Tick
<1>9. UNCHANGED vars => UNCHANGED <<ops, performed>>
  BY DEF vars
<1> HIDE DEF Kept, Done
<1>10. Kept /\ Done
  BY <1>1, <1>2, <1>3, <1>4, <1>5, <1>6, <1>7, <1>8, <1>9 DEF Next, HelperStep
<1> QED
  BY <1>10 DEF Kept, Done

\* A helper is only ever asked for, and performs, what the agent works on.
LEMMA HelpersStep ==
    TypeOK /\ WorkIsAuthorised /\ NothingWithoutTheOfflineKey /\ [Next]_vars
        => NothingWithoutTheOfflineKey'
<1> SUFFICES ASSUME TypeOK, WorkIsAuthorised, NothingWithoutTheOfflineKey, [Next]_vars
             PROVE  NothingWithoutTheOfflineKey'
  OBVIOUS
<1> DEFINE Good(p) == Privileged(p) /\ Authorised(p)
<1>1. /\ \A p \in performed : Good(p)
      /\ \A k \in Slots : ops[k] # Free => Good(ops[k].payload)
      /\ pc = "elevate" => Good(job)
  BY DEF NothingWithoutTheOfflineKey, WorkIsAuthorised, Working
<1>2. \A p : Good(p) => Good(p)'
  BY TrustGrows DEF Authorised, Privileged
<1> HIDE DEF Good
<1>3. \A p \in performed' : Good(p)
  BY <1>1, HelperTraffic
<1>4. \A k \in Slots : ops'[k] # Free => Good(ops'[k].payload)
  BY <1>1, HelperTraffic
<1> QED
  BY <1>2, <1>3, <1>4 DEF NothingWithoutTheOfflineKey, Good, Privileged, Authorised

\* The store only ever takes up nonces of jobs that were authorised.
LEMMA GenuineStep ==
    TypeOK /\ WorkIsAuthorised /\ OnlyGenuineJobsSpendNonces /\ MemoryIsGenuine /\ [Next]_vars
        => OnlyGenuineJobsSpendNonces' /\ MemoryIsGenuine'
<1> SUFFICES ASSUME TypeOK, WorkIsAuthorised, OnlyGenuineJobsSpendNonces, MemoryIsGenuine,
                    [Next]_vars
             PROVE  OnlyGenuineJobsSpendNonces' /\ MemoryIsGenuine'
  OBVIOUS
<1> USE DEF memory, disk, admin, helper, ForgetMemory
<1> DEFINE Sound(f) == \A n \in Nonces : Genuine(n, f[n])
<1>0. Sound(nonceFile') /\ Sound(seen') => OnlyGenuineJobsSpendNonces' /\ MemoryIsGenuine'
  <2>1. \A p \in Payloads : Authorised(p) => Authorised(p)'
    BY TrustGrows DEF Authorised
  <2> QED
    BY <2>1 DEF OnlyGenuineJobsSpendNonces, MemoryIsGenuine, Genuine
<1>A. Sound(nonceFile) /\ Sound(seen)
  BY DEF OnlyGenuineJobsSpendNonces, MemoryIsGenuine, Genuine
<1>B. ASSUME NEW f \in [Nonces -> Time], Sound(f) PROVE Sound(Prune(f))
  <2>1. \A n \in Nonces : Prune(f)[n] # 0 => Prune(f)[n] = f[n]
    BY PruneFacts DEF TypeOK
  <2> QED
    BY <1>B, <2>1 DEF Genuine
<1>1. ASSUME Boot PROVE Sound(nonceFile') /\ Sound(seen')
  <2>1. Sound(Prune(nonceFile))
    BY <1>A, <1>B DEF TypeOK
  <2> QED
    BY <1>1, <1>A, <2>1 DEF Boot
<1>2. ASSUME CheckNonce PROVE Sound(nonceFile') /\ Sound(seen')
  <2>1. job \in Payloads /\ job.nonce \in Nonces
    BY <1>2, PayloadFacts DEF TypeOK, CheckNonce
  <2>2. Genuine(job.nonce, job.notAfter)
    BY <1>2, <2>1 DEF CheckNonce, WorkIsAuthorised, Working, Genuine
  <2> DEFINE f == [Prune(seen) EXCEPT ![job.nonce] = job.notAfter]
  <2>3. Prune(seen) \in [Nonces -> Time] /\ Sound(Prune(seen))
    BY <1>A, <1>B, PruneFacts DEF TypeOK
  <2>4. Sound(f)
    BY <2>1, <2>2, <2>3
  <2>5. seen' \in {seen, f, Prune(seen)} /\ nonceFile' \in {nonceFile, f}
    BY <1>2 DEF CheckNonce, Persist
  <2> HIDE DEF f, Sound
  <2> QED
    BY <1>A, <2>3, <2>4, <2>5
<1>3. ASSUME AgentCrash \/ HostCrash PROVE Sound(nonceFile') /\ Sound(seen')
  <2>1. nonceFile' = nonceFile /\ seen' = NoNonces
    BY <1>3 DEF AgentCrash, HostCrash
  <2> QED
    BY <1>A, <2>1 DEF NoNonces, Genuine
<1>4. ASSUME UNCHANGED <<nonceFile, seen>> PROVE Sound(nonceFile') /\ Sound(seen')
  BY <1>4, <1>A
<1>5. AgentStep => Boot \/ CheckNonce \/ UNCHANGED <<nonceFile, seen>>
  BY DEF AgentStep, DeliverPending, Delivered, BeginCycle, EndCycle, Unauthorised, BeginJob,
         DecideLocally, SpoolProvisional, ExecuteRead, Elevate, AwaitReply, WriteResult, Report
<1>6. HelperStep => UNCHANGED <<nonceFile, seen>>
  BY DEF HelperStep, HelperAuthorise, HelperPerform
<1>7. Environment => AgentCrash \/ HostCrash \/ UNCHANGED <<nonceFile, seen>>
  BY DEF Environment, EditPolicy, EditSigners, Tick
<1>8. UNCHANGED vars => UNCHANGED <<nonceFile, seen>>
  BY DEF vars
<1> HIDE DEF Sound
<1> QED
  BY <1>0, <1>1, <1>2, <1>3, <1>4, <1>5, <1>6, <1>7, <1>8 DEF Next

-----------------------------------------------------------------------------
(* Results *)

\* A result on record stays there: a spool file goes only when its report was
\* answered.
LEMMA RecordStays ==
    ASSUME TypeOK, ProvisionalIsOnRecord, [Next]_vars, NEW i \in Ids, OnRecord(i)
    PROVE  OnRecord(i)'
<1> USE DEF memory, disk, admin, helper, Statuses
<1>1. ASSUME NEW j \in Ids, DeliverPending(j) PROVE OnRecord(i)'
  <2>1. spool[j] # "none"
    BY <1>1 DEF DeliverPending, ProvisionalIsOnRecord
  <2> QED
    BY <1>1, <2>1 DEF DeliverPending, Send, OnRecord, TypeOK
<1>2. ASSUME SpoolProvisional \/ WriteResult PROVE OnRecord(i)'
  BY <1>2 DEF SpoolProvisional, WriteResult, OnRecord, TypeOK
<1>3. ASSUME Report PROVE OnRecord(i)'
  BY <1>3 DEF Report, Send, OnRecord, TypeOK
<1>4. ASSUME UNCHANGED <<spool, answered>> PROVE OnRecord(i)'
  BY <1>4 DEF OnRecord
<1>5. AgentStep => \/ \E j \in Ids : DeliverPending(j)
                   \/ SpoolProvisional \/ WriteResult \/ Report
                   \/ UNCHANGED <<spool, answered>>
  BY DEF AgentStep, Boot, Delivered, BeginCycle, EndCycle, Unauthorised, BeginJob,
         CheckNonce, DecideLocally, ExecuteRead, Elevate, AwaitReply
<1>6. HelperStep => UNCHANGED <<spool, answered>>
  BY DEF HelperStep, HelperAuthorise, HelperPerform
<1>7. Environment => UNCHANGED <<spool, answered>>
  BY DEF Environment, AgentCrash, HostCrash, EditPolicy, EditSigners, Tick
<1>8. UNCHANGED vars => UNCHANGED <<spool, answered>>
  BY DEF vars
<1> QED
  BY <1>1, <1>2, <1>3, <1>4, <1>5, <1>6, <1>7, <1>8 DEF Next

\* Nothing that may not return reaches a helper before its result is on record.
LEMMA RecordStep ==
    TypeOK /\ ProvisionalIsOnRecord /\ NoVanishedOperation /\ [Next]_vars
        => ProvisionalIsOnRecord' /\ NoVanishedOperation'
<1> SUFFICES ASSUME TypeOK, ProvisionalIsOnRecord, NoVanishedOperation, [Next]_vars
             PROVE  ProvisionalIsOnRecord' /\ NoVanishedOperation'
  OBVIOUS
<1> USE DEF memory, disk, admin, helper, Finish, ForgetMemory
<1>1. \A p \in Payloads : p.id \in Ids
  BY PayloadFacts
<1>2. \A i \in Ids : OnRecord(i) => OnRecord(i)'
  BY RecordStays
<1>3. pc' = "deliver" => \A i \in todo' : spool'[i] # "none"
  <2> SUFFICES ASSUME pc' = "deliver" PROVE \A i \in todo' : spool'[i] # "none"
    OBVIOUS
  <2>1. CASE Boot
    BY <2>1 DEF Boot
  <2>2. ASSUME NEW i \in Ids, DeliverPending(i) PROVE \A x \in todo' : spool'[x] # "none"
    BY <2>2 DEF DeliverPending, Send, ProvisionalIsOnRecord, TypeOK
  <2>3. CASE pc = "deliver" /\ UNCHANGED <<todo, spool>>
    BY <2>3 DEF ProvisionalIsOnRecord
  <2>4. AgentStep => Boot \/ \E i \in Ids : DeliverPending(i)
    BY DEF AgentStep, Delivered, BeginCycle, EndCycle, Unauthorised, BeginJob, CheckNonce,
           DecideLocally, Onward, NextStop, SpoolProvisional, ExecuteRead, Elevate, AwaitReply,
           WriteResult, Report
  <2>5. HelperStep \/ Environment \/ UNCHANGED vars => pc = "deliver" /\ UNCHANGED <<todo, spool>>
    BY DEF HelperStep, HelperAuthorise, HelperPerform, Environment, AgentCrash, HostCrash,
           EditPolicy, EditSigners, Tick, vars
  <2> QED
    BY <2>1, <2>2, <2>3, <2>4, <2>5 DEF Next
<1>4. pc' \in {"elevate", "await"} /\ job'.gone => OnRecord(job.id)'
  <2> SUFFICES ASSUME pc' \in {"elevate", "await"}, job'.gone PROVE OnRecord(job.id)'
    OBVIOUS
  <2>1. CASE DecideLocally
    BY <2>1 DEF DecideLocally, Onward, NextStop
  <2>2. CASE SpoolProvisional
    <3>1. job \in Payloads /\ job' = job
      BY <2>2 DEF SpoolProvisional, TypeOK
    <3>2. spool' = [spool EXCEPT ![job.id] = "succeeded"]
      BY <2>2 DEF SpoolProvisional
    <3> QED
      BY <1>1, <3>1, <3>2 DEF OnRecord, TypeOK
  <2>3. CASE pc \in {"elevate", "await"} /\ job' = job
    <3>1. job \in Payloads /\ OnRecord(job.id)
      BY <2>3 DEF ProvisionalIsOnRecord, TypeOK
    <3> QED
      BY <1>1, <1>2, <2>3, <3>1 DEF OnRecord
  <2>4. AgentStep => DecideLocally \/ SpoolProvisional \/ (pc \in {"elevate", "await"} /\ job' = job)
    BY DEF AgentStep, Boot, DeliverPending, Delivered, BeginCycle, EndCycle, Unauthorised,
           BeginJob, CheckNonce, ExecuteRead, Elevate, AwaitReply, WriteResult, Report
  <2>5. HelperStep \/ Environment \/ UNCHANGED vars => pc \in {"elevate", "await"} /\ job' = job
    BY DEF HelperStep, HelperAuthorise, HelperPerform, Environment, AgentCrash, HostCrash,
           EditPolicy, EditSigners, Tick, vars
  <2> QED
    BY <2>1, <2>2, <2>3, <2>4, <2>5 DEF Next
<1> DEFINE Safe(p) == p \in Payloads /\ (p.gone => OnRecord(p.id))
<1>5. /\ \A p \in performed : Safe(p)
      /\ \A k \in Slots : ops[k] # Free => Safe(ops[k].payload)
      /\ pc = "elevate" => Safe(job)
  <2>1. /\ performed \subseteq Payloads
        /\ \A k \in Slots : ops[k] # Free => ops[k].payload \in Payloads
        /\ pc = "elevate" => job \in Payloads
    BY OpFacts DEF TypeOK
  <2> QED
    BY <2>1 DEF ProvisionalIsOnRecord, NoVanishedOperation, OnRecord
<1>6. \A p : Safe(p) => (p.gone => OnRecord(p.id)')
  BY <1>1, <1>2
<1> HIDE DEF Safe
<1>7. \A p \in performed' : Safe(p)
  BY <1>5, HelperTraffic
<1>8. \A k \in Slots : ops'[k] # Free => Safe(ops'[k].payload)
  BY <1>5, HelperTraffic
<1>9. \A p \in performed' : p.gone => OnRecord(p.id)'
  BY <1>6, <1>7
<1>10. \A k \in Slots : ops'[k] # Free /\ ops'[k].payload.gone => OnRecord(ops[k].payload.id)'
  BY <1>6, <1>8 DEF OnRecord
<1>11. NoVanishedOperation'
  BY <1>9 DEF NoVanishedOperation, OnRecord
<1>12. ProvisionalIsOnRecord'
  BY <1>3, <1>4, <1>10 DEF ProvisionalIsOnRecord
<1> QED
  BY <1>11, <1>12

-----------------------------------------------------------------------------
(* The theorems *)

\* The initial states satisfy the inductive invariant.
LEMMA AgentInvInit == Init => AgentInv
<1> SUFFICES ASSUME Init PROVE AgentInv
  OBVIOUS
<1>1. TypeOK
  BY TypeInit
<1>2. AcceptedOnceInsideWindow /\ ReplayIsRemembered
  BY DEF Init, AcceptedOnceInsideWindow, ReplayIsRemembered
<1>3. WorkIsAuthorised /\ NothingWithoutTheOfflineKey
  BY DEF Init, WorkIsAuthorised, NothingWithoutTheOfflineKey, NoSnap, Working
<1>4. OnlyGenuineJobsSpendNonces /\ MemoryIsGenuine
  BY DEF Init, OnlyGenuineJobsSpendNonces, MemoryIsGenuine, Genuine, NoNonces
<1>5. ProvisionalIsOnRecord /\ NoVanishedOperation
  BY DEF Init, ProvisionalIsOnRecord, NoVanishedOperation
<1> QED
  BY <1>1, <1>2, <1>3, <1>4, <1>5 DEF AgentInv

\* The inductive invariant of the job path holds in every reachable state,
\* across crashes, replays and edits of the administrator's files.
THEOREM AgentInvariant == Spec => []AgentInv
<1>1. AgentInv /\ [Next]_vars => AgentInv'
  BY TypeStep, ReplayStep, WorkStep, HelpersStep, GenuineStep, RecordStep DEF AgentInv
<1> QED
  BY AgentInvInit, <1>1, PTL DEF Spec

\* Agent's state is well typed.
THEOREM AgentTypeCorrect == Spec => []TypeOK
BY AgentInvariant, PTL DEF AgentInv

\* NonceStore lets a payload through at most once inside its window, across
\* crashes, failed writes and pruning.
THEOREM AcceptedOnceInsideWindowHolds == Spec => []AcceptedOnceInsideWindow
BY AgentInvariant, PTL DEF AgentInv

\* No helper is asked for, or performs, a destructive operation without a
\* signature over exactly that payload by a key of trusted-signers.
THEOREM NothingWithoutTheOfflineKeyHolds == Spec => []NothingWithoutTheOfflineKey
BY AgentInvariant, PTL DEF AgentInv

\* Only a job that was authorised spends a nonce.
THEOREM OnlyGenuineJobsSpendNoncesHolds == Spec => []OnlyGenuineJobsSpendNonces
BY AgentInvariant, PTL DEF AgentInv

\* No operation that may take the host away is performed without its result on
\* disk or answered for.
THEOREM NoVanishedOperationHolds == Spec => []NoVanishedOperation
BY AgentInvariant, PTL DEF AgentInv

\* While the pause file is there no helper begins anything: the check that
\* counts is the helper's own, made after the agent's.
THEOREM PauseStopsTheHostHolds == Spec => PauseStopsTheHost
<1> DEFINE Idle == performed' = performed /\ Performing' = {}
<1>1. ASSUME TypeOK, [Next]_vars, paused, paused', Performing = {} PROVE Idle
  <2> USE DEF memory, disk, admin, helper
  <2>A. \A k \in Slots : ops[k] \in Ops /\ ops[k].phase # "performing"
    BY <1>1 DEF TypeOK, Performing
  <2>B. Idle <=> performed' = performed /\ \A k \in Slots : ops'[k].phase # "performing"
    BY DEF Performing
  <2> HIDE DEF Idle
  <2>1. CASE Elevate
    <3>1. CASE UNCHANGED ops
      BY <2>1, <3>1, <2>A, <2>B DEF Elevate
    <3>2. ASSUME NEW k \in Slots, ops' = [ops EXCEPT ![k] = [phase |-> "asked", payload |-> job]]
          PROVE  Idle
      BY <1>1, <2>1, <3>2, <2>A, <2>B DEF Elevate, TypeOK
    <3> QED
      BY <2>1, <3>1, <3>2 DEF Elevate
  <2>2. CASE AwaitReply
    <3>1. op \in Slots
      BY <1>1, <2>2, AgentAssumptions DEF TypeOK, AwaitReply, Slots
    <3> QED
      BY <1>1, <2>2, <2>A, <2>B, <3>1 DEF AwaitReply, TypeOK, Free
  <2>3. ASSUME NEW k \in Slots, HelperAuthorise(k) PROVE Idle
    <3>1. ops[k] \in Ops /\ ops[k] # Free
      BY <2>3, <2>A, OpFacts DEF HelperAuthorise, Free
    <3>2. Conclude(k, "refused") /\ performed' = performed
      BY <1>1, <2>3 DEF HelperAuthorise, HelperDecide, Decide
    <3> DEFINE e == [ops[k] EXCEPT !.phase = "refused"]
    <3>3. e.phase = "refused"
      BY <3>1, PhaseFacts DEF Statuses
    <3>4. ops' = [ops EXCEPT ![k] = IF op = k THEN e ELSE Free]
      BY <3>2 DEF Conclude
    <3> HIDE DEF e
    <3> QED
      BY <1>1, <2>A, <2>B, <3>2, <3>3, <3>4 DEF TypeOK, Free
  <2>4. ASSUME NEW k \in Slots, HelperPerform(k) PROVE Idle
    BY <2>4, <2>A DEF HelperPerform
  <2>5. CASE AgentCrash
    BY <2>5, <2>A, <2>B DEF AgentCrash, Free
  <2>6. CASE HostCrash
    BY <2>6, <2>A, <2>B DEF HostCrash, Free
  <2>7. CASE UNCHANGED <<ops, performed>>
    BY <2>7, <2>A, <2>B
  <2>8. AgentStep => Elevate \/ AwaitReply \/ UNCHANGED <<ops, performed>>
    BY DEF AgentStep, Boot, DeliverPending, Delivered, BeginCycle, EndCycle, Unauthorised,
           BeginJob, CheckNonce, DecideLocally, SpoolProvisional, ExecuteRead, WriteResult, Report
  <2>9. Environment => AgentCrash \/ HostCrash \/ UNCHANGED <<ops, performed>>
    BY DEF Environment, EditPolicy, EditSigners, Tick
  <2>10. UNCHANGED vars => UNCHANGED <<ops, performed>>
    BY DEF vars
  <2> QED
    BY <1>1, <2>1, <2>2, <2>3, <2>4, <2>5, <2>6, <2>7, <2>8, <2>9, <2>10 DEF Next, HelperStep
<1>2. TypeOK /\ [Next]_vars
        => [paused /\ paused' /\ Performing = {} => performed' = performed /\ Performing' = {}]_vars
  BY <1>1
<1> QED
  BY AgentTypeCorrect, <1>2, PTL DEF Spec, PauseStopsTheHost

-----------------------------------------------------------------------------
(***************************************************************************)
(* LongPoll: PollInv holds initially, every action keeps it, and the       *)
(* safety properties follow from it.                                       *)
(***************************************************************************)

(* The actions, one lemma each, one step for each part of the invariant.    *)

(* A job is inserted and its notice posted: whoever has read an empty table  *)
(* is told, or excused.                                                      *)
LEMMA CreateJobStep ==
  ASSUME PollInv, NEW j \in Jobs, NEW a \in BOOLEAN, NEW l \in BOOLEAN, CreateJob(j, a, l)
  PROVE  PollInv'
<1>1. PollTypeOK'
  BY DEF CreateJob, Announce, Post, handlers, listener, PollInv, PollTypeOK, Notices
<1>2. ClaimsHoldLocks'
  BY DEF CreateJob, handlers, PollInv, ClaimsHoldLocks
<1>3. AnswersCount'
  BY DEF CreateJob, PollInv, AnswersCount
<1>4. StillListening'
  BY DEF CreateJob, handlers, listener, PollInv, StillListening
<1>5. HeldEmptyHanded'
  BY DEF CreateJob, handlers, PollInv, HeldEmptyHanded
<1>6. NewWorkIsAnnounced'
  <2> SUFFICES ASSUME NEW p \in Polls, HasRead(p), batch[p] = {},
                      NEW k \in Claimable', JobHost[k] = PollHost[p], k \notin missed'[p]
               PROVE  Announced(p, k)'
    BY DEF NewWorkIsAnnounced, HasRead, CreateJob, handlers
  <2>. DEFINE n == [job |-> j, of |-> "insert"]
  <2>1. Post(n)
    BY DEF CreateJob, Announce
  <2>2. p \in waiters \cup taken \cup closed
    BY DEF PollInv, StillListening, HasRead
  <2>3. /\ waiters' = waiters /\ taken' = taken /\ closed' = closed
        /\ \A r \in Replicas : inbox[r] \subseteq inbox'[r]
        /\ ServedBy[p] \in Replicas
    BY <2>1, PollAssumption DEF CreateJob, listener, Post
  <2>4. CASE k = j
    <3>1. ServedBy[p] \in up
      BY <2>1, <2>4, n.job = j DEF Post
    <3>2. n \in inbox'[ServedBy[p]] /\ n.job = k
      BY <2>1, <2>3, <2>4, <3>1 DEF Post
    <3>. QED  BY <2>2, <2>3, <3>2 DEF Announced
  <2>5. CASE k # j
    <3>1. k \in Claimable /\ k \notin missed[p]
      BY <2>1, <2>5 DEF Claimable, CreateJob, Post, PollInv, PollTypeOK
    <3>2. Announced(p, k)
      BY <3>1 DEF PollInv, NewWorkIsAnnounced
    <3>. QED  BY <2>3, <3>2 DEF Announced
  <2>. QED  BY <2>4, <2>5
<1>7. NoDeadWaiters'
  BY DEF CreateJob, handlers, PollInv, NoDeadWaiters
<1>. QED  BY <1>1, <1>2, <1>3, <1>4, <1>5, <1>6, <1>7 DEF PollInv

(* An approval makes a row claimable and posts a notice of its own.          *)
LEMMA ApproveJobStep ==
  ASSUME PollInv, NEW j \in Jobs, ApproveJob(j)
  PROVE  PollInv'
<1>1. PollTypeOK'
  BY DEF ApproveJob, Announce, Post, handlers, listener, PollInv, PollTypeOK, Notices
<1>2. ClaimsHoldLocks'
  BY DEF ApproveJob, handlers, PollInv, ClaimsHoldLocks
<1>3. AnswersCount'
  BY DEF ApproveJob, PollInv, AnswersCount
<1>4. StillListening'
  BY DEF ApproveJob, handlers, listener, PollInv, StillListening
<1>5. HeldEmptyHanded'
  BY DEF ApproveJob, handlers, PollInv, HeldEmptyHanded
<1>6. NewWorkIsAnnounced'
  <2> SUFFICES ASSUME NEW p \in Polls, HasRead(p), batch[p] = {},
                      NEW k \in Claimable', JobHost[k] = PollHost[p], k \notin missed'[p]
               PROVE  Announced(p, k)'
    BY DEF NewWorkIsAnnounced, HasRead, ApproveJob, handlers
  <2>. DEFINE n == [job |-> j, of |-> "approval"]
  <2>1. Post(n)
    BY DEF ApproveJob, Announce
  <2>2. p \in waiters \cup taken \cup closed
    BY DEF PollInv, StillListening, HasRead
  <2>3. /\ waiters' = waiters /\ taken' = taken /\ closed' = closed
        /\ \A r \in Replicas : inbox[r] \subseteq inbox'[r]
        /\ ServedBy[p] \in Replicas
    BY <2>1, PollAssumption DEF ApproveJob, listener, Post
  <2>4. CASE k = j
    <3>1. ServedBy[p] \in up
      BY <2>1, <2>4, n.job = j DEF Post
    <3>2. n \in inbox'[ServedBy[p]] /\ n.job = k
      BY <2>1, <2>3, <2>4, <3>1 DEF Post
    <3>. QED  BY <2>2, <2>3, <3>2 DEF Announced
  <2>5. CASE k # j
    <3>1. k \in Claimable /\ k \notin missed[p]
      BY <2>1, <2>5 DEF Claimable, ApproveJob, Post, PollInv, PollTypeOK
    <3>2. Announced(p, k)
      BY <3>1 DEF PollInv, NewWorkIsAnnounced
    <3>. QED  BY <2>3, <3>2 DEF Announced
  <2>. QED  BY <2>4, <2>5
<1>7. NoDeadWaiters'
  BY DEF ApproveJob, handlers, PollInv, NoDeadWaiters
<1>. QED  BY <1>1, <1>2, <1>3, <1>4, <1>5, <1>6, <1>7 DEF PollInv

(* not_before passes without a notice; the row is excused for whoever has    *)
(* read.                                                                     *)
LEMMA WindowOpensStep ==
  ASSUME PollInv, NEW j \in Jobs, WindowOpens(j)
  PROVE  PollInv'
<1>1. PollTypeOK'
  BY DEF WindowOpens, handlers, listener, PollInv, PollTypeOK
<1>2. ClaimsHoldLocks'
  BY DEF WindowOpens, handlers, PollInv, ClaimsHoldLocks
<1>3. AnswersCount'
  BY DEF WindowOpens, PollInv, AnswersCount
<1>4. StillListening'
  BY DEF WindowOpens, handlers, listener, PollInv, StillListening
<1>5. HeldEmptyHanded'
  BY DEF WindowOpens, handlers, PollInv, HeldEmptyHanded
<1>6. NewWorkIsAnnounced'
  BY DEF WindowOpens, HasRead, handlers, listener, PollInv, NewWorkIsAnnounced, Announced, Claimable
<1>7. NoDeadWaiters'
  BY DEF WindowOpens, handlers, PollInv, NoDeadWaiters
<1>. QED  BY <1>1, <1>2, <1>3, <1>4, <1>5, <1>6, <1>7 DEF PollInv

(* The channel is registered before anything is read.                        *)
LEMMA SubscribeStep ==
  ASSUME PollInv, NEW p \in Polls, Subscribe(p)
  PROVE  PollInv'
<1>1. PollTypeOK'
  BY DEF Subscribe, Goes, table, PollInv, PollTypeOK, Stages
<1>2. ClaimsHoldLocks'
  BY DEF Subscribe, Goes, table, PollInv, ClaimsHoldLocks
<1>3. AnswersCount'
  BY DEF Subscribe, table, PollInv, AnswersCount
<1>4. StillListening'
  BY PollAssumption DEF Subscribe, Goes, table, handlers, listener, PollInv, StillListening,
       PollTypeOK, Notices
<1>5. HeldEmptyHanded'
  BY DEF Subscribe, Goes, PollInv, HeldEmptyHanded
<1>6. NewWorkIsAnnounced'
  BY DEF Subscribe, Goes, table, PollInv, NewWorkIsAnnounced, HasRead, Announced, Claimable
<1>7. NoDeadWaiters'
  BY DEF Subscribe, Goes, PollInv, NoDeadWaiters, PollTypeOK
<1>. QED  BY <1>1, <1>2, <1>3, <1>4, <1>5, <1>6, <1>7 DEF PollInv

(* A claim takes only rows nobody has locked, and an empty one proves there  *)
(* was none to take.                                                         *)
LEMMA ClaimStep ==
  ASSUME PollInv, NEW p \in Polls, NEW S \in SUBSET Jobs, Claim(p, S)
  PROVE  PollInv'
<1>1. PollTypeOK'
  BY DEF Claim, Goes, Claimable, table, listener, PollInv, PollTypeOK, Stages
<1>2. ClaimsHoldLocks'
  <2>1. S \subseteq Claimable \ Locked
    BY DEF Claim, Selections, Available
  <2>2. \A j \in S : lock[j] = Nobody /\ j \notin claimed
    BY <2>1 DEF Locked, Claimable
  <2>3. /\ claimed' = claimed
        /\ \A q \in Polls \ {p} : stage'[q] = stage[q] /\ batch'[q] = batch[q]
        /\ batch'[p] = S
        /\ \A j \in Jobs : lock'[j] = IF j \in S THEN p ELSE lock[j]
    BY DEF Claim, Goes, table, PollInv, PollTypeOK
  <2>4. ASSUME NEW q \in Polls, q # p, stage[q] \in {"claiming", "reclaiming"}, NEW j \in batch[q]
        PROVE  lock'[j] = q /\ j \notin claimed
    <3>1. j \in Jobs /\ lock[j] = q /\ j \notin claimed /\ q # Nobody
      BY <2>4, PollAssumption DEF PollInv, ClaimsHoldLocks, PollTypeOK
    <3>. QED  BY <2>2, <2>3, <3>1
  <2>. QED  BY <2>2, <2>3, <2>4 DEF ClaimsHoldLocks
<1>3. AnswersCount'
  BY DEF Claim, table, PollInv, AnswersCount
<1>4. StillListening'
  BY DEF Claim, Goes, listener, PollInv, StillListening
<1>5. HeldEmptyHanded'
  BY DEF Claim, Goes, PollInv, HeldEmptyHanded
<1>6. NewWorkIsAnnounced'
  <2> SUFFICES ASSUME NEW q \in Polls, HasRead(q)', batch'[q] = {},
                      NEW k \in Claimable', JobHost[k] = PollHost[q], k \notin missed'[q]
               PROVE  Announced(q, k)'
    BY DEF NewWorkIsAnnounced
  <2>1. k \in Claimable
    BY DEF Claim, table, Claimable
  <2>2. CASE q = p
    <3>1. stage[p] = "subscribed" /\ batch'[p] = S /\ missed'[p] = Locked \cap Claimable
      BY <2>2 DEF Claim, Goes, HasRead, PollInv, PollTypeOK
    <3>2. S = Available(PollHost[p])
      <4>1. S = {} /\ Cardinality({}) = 0
        BY <2>2, <3>1, FS_EmptySet
      <4>2. 0 < Limit
        BY PollAssumption
      <4>3. Cardinality(S) < Limit => S = Available(PollHost[p])
        BY DEF Claim, Selections
      <4>4. Cardinality(S) < Limit
        BY <4>1, <4>2
      <4>. QED  BY <4>3, <4>4
    <3>3. k \notin Locked
      BY <2>1, <2>2, <3>1
    <3>. QED  BY <2>1, <2>2, <3>1, <3>2, <3>3 DEF Available
  <2>3. CASE q # p
    <3>1. HasRead(q) /\ batch[q] = {} /\ missed'[q] = missed[q]
      BY <2>3 DEF Claim, Goes, HasRead, PollInv, PollTypeOK
    <3>2. Announced(q, k)
      BY <2>1, <3>1 DEF PollInv, NewWorkIsAnnounced
    <3>. QED  BY <3>2 DEF Announced, Claim, listener
  <2>. QED  BY <2>2, <2>3
<1>7. NoDeadWaiters'
  BY DEF Claim, Goes, PollInv, NoDeadWaiters
<1>. QED  BY <1>1, <1>2, <1>3, <1>4, <1>5, <1>6, <1>7 DEF PollInv

(* The rows of a claim become claimed once, because they were locked and not *)
(* claimed.                                                                  *)
LEMMA CommitClaimStep ==
  ASSUME PollInv, NEW p \in Polls, NEW hold \in BOOLEAN, CommitClaim(p, hold)
  PROVE  PollInv'
<1>1. PollTypeOK'
  <2>1. batch[p] \subseteq Jobs
    BY DEF PollInv, PollTypeOK
  <2>2. claimed' \subseteq Jobs
    BY <2>1 DEF CommitClaim, PollInv, PollTypeOK
  <2>3. answers' \in [Jobs -> Nat]
    BY DEF CommitClaim, PollInv, PollTypeOK
  <2>4. stage' \in [Polls -> Stages] /\ lock' \in [Jobs -> Polls \cup {Nobody}]
    BY DEF CommitClaim, Goes, Unlock, PollInv, PollTypeOK, Stages
  <2>. QED  BY <2>2, <2>3, <2>4 DEF CommitClaim, listener, PollInv, PollTypeOK
<1>2. ClaimsHoldLocks'
  BY DEF CommitClaim, Goes, Unlock, PollInv, ClaimsHoldLocks, PollTypeOK
<1>3. AnswersCount'
  BY DEF CommitClaim, PollInv, AnswersCount, ClaimsHoldLocks
<1>4. StillListening'
  BY DEF CommitClaim, Goes, listener, PollInv, StillListening
<1>5. HeldEmptyHanded'
  BY DEF CommitClaim, Goes, PollInv, HeldEmptyHanded
<1>6. NewWorkIsAnnounced'
  BY DEF CommitClaim, Goes, listener, PollInv, NewWorkIsAnnounced, HasRead, Announced, Claimable
<1>7. NoDeadWaiters'
  BY DEF CommitClaim, Goes, PollInv, NoDeadWaiters
<1>. QED  BY <1>1, <1>2, <1>3, <1>4, <1>5, <1>6, <1>7 DEF PollInv

(* A claim that rolls back gives its locks back and is answered at once.     *)
LEMMA ClaimFailsStep ==
  ASSUME PollInv, NEW p \in Polls, ClaimFails(p)
  PROVE  PollInv'
<1>1. PollTypeOK'
  BY PollAssumption DEF ClaimFails, Goes, Unlock, table, listener, PollInv, PollTypeOK, Stages
<1>2. ClaimsHoldLocks'
  BY DEF ClaimFails, Goes, Unlock, table, PollInv, ClaimsHoldLocks, PollTypeOK
<1>3. AnswersCount'
  BY DEF ClaimFails, table, PollInv, AnswersCount
<1>4. StillListening'
  BY DEF ClaimFails, Goes, listener, PollInv, StillListening
<1>5. HeldEmptyHanded'
  BY DEF ClaimFails, Goes, PollInv, HeldEmptyHanded
<1>6. NewWorkIsAnnounced'
  BY DEF ClaimFails, Goes, table, listener, PollInv, NewWorkIsAnnounced, HasRead, Announced,
       Claimable, PollTypeOK
<1>7. NoDeadWaiters'
  BY DEF ClaimFails, Goes, PollInv, NoDeadWaiters
<1>. QED  BY <1>1, <1>2, <1>3, <1>4, <1>5, <1>6, <1>7 DEF PollInv

(* A woken handler goes on to read again.                                    *)
LEMMA WokenStep ==
  ASSUME PollInv, NEW p \in Polls, Woken(p)
  PROVE  PollInv'
<1>1. PollTypeOK'
  BY DEF Woken, Goes, table, listener, PollInv, PollTypeOK, Stages
<1>2. ClaimsHoldLocks'
  BY DEF Woken, Goes, table, PollInv, ClaimsHoldLocks
<1>3. AnswersCount'
  BY DEF Woken, table, PollInv, AnswersCount
<1>4. StillListening'
  BY DEF Woken, Goes, listener, PollInv, StillListening
<1>5. HeldEmptyHanded'
  BY DEF Woken, Goes, PollInv, HeldEmptyHanded
<1>6. NewWorkIsAnnounced'
  BY DEF Woken, Goes, table, listener, PollInv, NewWorkIsAnnounced, HasRead, Announced, Claimable
<1>7. NoDeadWaiters'
  BY DEF Woken, Goes, PollInv, NoDeadWaiters
<1>. QED  BY <1>1, <1>2, <1>3, <1>4, <1>5, <1>6, <1>7 DEF PollInv

(* A hold that runs out is answered.                                         *)
LEMMA HoldExpiresStep ==
  ASSUME PollInv, NEW p \in Polls, HoldExpires(p)
  PROVE  PollInv'
<1>1. PollTypeOK'
  BY DEF HoldExpires, Goes, table, listener, PollInv, PollTypeOK, Stages
<1>2. ClaimsHoldLocks'
  BY DEF HoldExpires, Goes, table, PollInv, ClaimsHoldLocks
<1>3. AnswersCount'
  BY DEF HoldExpires, table, PollInv, AnswersCount
<1>4. StillListening'
  BY DEF HoldExpires, Goes, listener, PollInv, StillListening
<1>5. HeldEmptyHanded'
  BY DEF HoldExpires, Goes, PollInv, HeldEmptyHanded
<1>6. NewWorkIsAnnounced'
  BY DEF HoldExpires, Goes, table, listener, PollInv, NewWorkIsAnnounced, HasRead, Announced,
       Claimable
<1>7. NoDeadWaiters'
  BY DEF HoldExpires, Goes, PollInv, NoDeadWaiters
<1>. QED  BY <1>1, <1>2, <1>3, <1>4, <1>5, <1>6, <1>7 DEF PollInv

(* The deferred unsubscribe takes the channel out of the map.                *)
LEMMA AnswerStep ==
  ASSUME PollInv, NEW p \in Polls, Answer(p)
  PROVE  PollInv'
<1>1. PollTypeOK'
  BY DEF Answer, Goes, removeWaiter, table, PollInv, PollTypeOK, Stages
<1>2. ClaimsHoldLocks'
  BY DEF Answer, Goes, table, PollInv, ClaimsHoldLocks
<1>3. AnswersCount'
  BY DEF Answer, table, PollInv, AnswersCount
<1>4. StillListening'
  BY DEF Answer, Goes, removeWaiter, PollInv, StillListening
<1>5. HeldEmptyHanded'
  BY DEF Answer, Goes, PollInv, HeldEmptyHanded
<1>6. NewWorkIsAnnounced'
  BY DEF Answer, Goes, removeWaiter, table, PollInv, NewWorkIsAnnounced, HasRead, Announced,
       Claimable
<1>7. NoDeadWaiters'
  BY DEF Answer, Goes, removeWaiter, PollInv, NoDeadWaiters
<1>. QED  BY <1>1, <1>2, <1>3, <1>4, <1>5, <1>6, <1>7 DEF PollInv

(* wake takes every waiter of the host, so that using up the notice leaves   *)
(* nobody behind.                                                            *)
LEMMA WakeStep ==
  ASSUME PollInv, NEW r \in Replicas, NEW n \in Notices, Wake(r, n)
  PROVE  PollInv'
<1>1. PollTypeOK'
  BY DEF Wake, table, handlers, PollInv, PollTypeOK
<1>2. ClaimsHoldLocks'
  BY DEF Wake, table, handlers, PollInv, ClaimsHoldLocks
<1>3. AnswersCount'
  BY DEF Wake, table, PollInv, AnswersCount
<1>4. StillListening'
  BY DEF Wake, handlers, PollInv, StillListening
<1>5. HeldEmptyHanded'
  BY DEF Wake, handlers, PollInv, HeldEmptyHanded
<1>6. NewWorkIsAnnounced'
  BY DEF Wake, table, handlers, PollInv, NewWorkIsAnnounced, HasRead, Announced, Claimable
<1>7. NoDeadWaiters'
  BY DEF Wake, handlers, PollInv, NoDeadWaiters
<1>. QED  BY <1>1, <1>2, <1>3, <1>4, <1>5, <1>6, <1>7 DEF PollInv

(* The channels wake took are closed.                                        *)
LEMMA CloseTakenStep ==
  ASSUME PollInv, NEW r \in Replicas, CloseTaken(r)
  PROVE  PollInv'
<1>1. PollTypeOK'
  BY DEF CloseTaken, table, handlers, PollInv, PollTypeOK
<1>2. ClaimsHoldLocks'
  BY DEF CloseTaken, table, handlers, PollInv, ClaimsHoldLocks
<1>3. AnswersCount'
  BY DEF CloseTaken, table, PollInv, AnswersCount
<1>4. StillListening'
  BY DEF CloseTaken, handlers, PollInv, StillListening
<1>5. HeldEmptyHanded'
  BY DEF CloseTaken, handlers, PollInv, HeldEmptyHanded
<1>6. NewWorkIsAnnounced'
  BY DEF CloseTaken, table, handlers, PollInv, NewWorkIsAnnounced, HasRead, Announced, Claimable
<1>7. NoDeadWaiters'
  BY DEF CloseTaken, handlers, PollInv, NoDeadWaiters
<1>. QED  BY <1>1, <1>2, <1>3, <1>4, <1>5, <1>6, <1>7 DEF PollInv

(* The notices lost with the connection are exactly the rows excused by it.  *)
LEMMA ListenerFailsStep ==
  ASSUME PollInv, NEW r \in Replicas, ListenerFails(r)
  PROVE  PollInv'
<1>1. PollTypeOK'
  BY PollAssumption DEF ListenerFails, HasRead, table, handlers, listener, PollInv, PollTypeOK, Stages,
       Notices
<1>2. ClaimsHoldLocks'
  BY DEF ListenerFails, table, handlers, PollInv, ClaimsHoldLocks
<1>3. AnswersCount'
  BY DEF ListenerFails, table, PollInv, AnswersCount
<1>4. StillListening'
  BY DEF ListenerFails, handlers, PollInv, StillListening
<1>5. HeldEmptyHanded'
  BY DEF ListenerFails, handlers, PollInv, HeldEmptyHanded
<1>6. NewWorkIsAnnounced'
  <2> SUFFICES ASSUME NEW p \in Polls, HasRead(p), batch[p] = {},
                      NEW k \in Claimable', JobHost[k] = PollHost[p], k \notin missed'[p]
               PROVE  Announced(p, k)'
    BY DEF NewWorkIsAnnounced, HasRead, ListenerFails, handlers
  <2>1. k \in Claimable /\ k \notin missed[p]
    BY DEF Claimable, ListenerFails, table, PollInv, PollTypeOK
  <2>2. Announced(p, k)
    BY <2>1 DEF PollInv, NewWorkIsAnnounced
  <2>3. waiters' = waiters /\ taken' = taken /\ closed' = closed
    BY DEF ListenerFails
  <2>4. CASE ServedBy[p] = r
    <3>1. \A n \in inbox[r] : n.job # k
      BY <2>4 DEF ListenerFails
    <3>. QED  BY <2>2, <2>3, <2>4, <3>1 DEF Announced
  <2>5. CASE ServedBy[p] # r
    <3>1. inbox'[ServedBy[p]] = inbox[ServedBy[p]]
      BY <2>5, PollAssumption DEF ListenerFails, PollInv, PollTypeOK
    <3>. QED  BY <2>2, <2>3, <3>1 DEF Announced
  <2>. QED  BY <2>4, <2>5
<1>7. NoDeadWaiters'
  BY DEF ListenerFails, handlers, PollInv, NoDeadWaiters
<1>. QED  BY <1>1, <1>2, <1>3, <1>4, <1>5, <1>6, <1>7 DEF PollInv

(* A listener comes back and wakes nobody.                                   *)
LEMMA ListenerReturnsStep ==
  ASSUME PollInv, NEW r \in Replicas, ListenerReturns(r)
  PROVE  PollInv'
<1>1. PollTypeOK'
  BY DEF ListenerReturns, table, handlers, PollInv, PollTypeOK
<1>2. ClaimsHoldLocks'
  BY DEF ListenerReturns, table, handlers, PollInv, ClaimsHoldLocks
<1>3. AnswersCount'
  BY DEF ListenerReturns, table, PollInv, AnswersCount
<1>4. StillListening'
  BY DEF ListenerReturns, handlers, PollInv, StillListening
<1>5. HeldEmptyHanded'
  BY DEF ListenerReturns, handlers, PollInv, HeldEmptyHanded
<1>6. NewWorkIsAnnounced'
  BY DEF ListenerReturns, table, handlers, PollInv, NewWorkIsAnnounced, HasRead, Announced,
       Claimable
<1>7. NoDeadWaiters'
  BY DEF ListenerReturns, handlers, PollInv, NoDeadWaiters
<1>. QED  BY <1>1, <1>2, <1>3, <1>4, <1>5, <1>6, <1>7 DEF PollInv

(* The agent gives up; the server does not know.                             *)
LEMMA ConnectionLostStep ==
  ASSUME PollInv, NEW h \in Hosts, ConnectionLost(h)
  PROVE  PollInv'
<1>1. PollTypeOK'
  BY PollAssumption DEF ConnectionLost, table, handlers, listener, PollInv, PollTypeOK
<1>2. ClaimsHoldLocks'
  BY DEF ConnectionLost, table, handlers, PollInv, ClaimsHoldLocks
<1>3. AnswersCount'
  BY DEF ConnectionLost, table, PollInv, AnswersCount
<1>4. StillListening'
  BY DEF ConnectionLost, handlers, listener, PollInv, StillListening
<1>5. HeldEmptyHanded'
  BY DEF ConnectionLost, handlers, PollInv, HeldEmptyHanded
<1>6. NewWorkIsAnnounced'
  BY DEF ConnectionLost, table, handlers, listener, PollInv, NewWorkIsAnnounced, HasRead,
       Announced, Claimable
<1>7. NoDeadWaiters'
  BY DEF ConnectionLost, handlers, PollInv, NoDeadWaiters
<1>. QED  BY <1>1, <1>2, <1>3, <1>4, <1>5, <1>6, <1>7 DEF PollInv

(* A crash ends the requests, the waiters and the claims of one replica      *)
(* only.                                                                     *)
LEMMA ReplicaCrashStep ==
  ASSUME PollInv, NEW r \in Replicas, ReplicaCrash(r)
  PROVE  PollInv'
<1>1. PollTypeOK'
  BY PollAssumption DEF ReplicaCrash, table, PollInv, PollTypeOK, Stages
<1>2. ClaimsHoldLocks'
  BY DEF ReplicaCrash, table, PollInv, ClaimsHoldLocks, PollTypeOK
<1>3. AnswersCount'
  BY DEF ReplicaCrash, table, PollInv, AnswersCount
<1>4. StillListening'
  BY DEF ReplicaCrash, PollInv, StillListening
<1>5. HeldEmptyHanded'
  BY DEF ReplicaCrash, PollInv, HeldEmptyHanded
<1>6. NewWorkIsAnnounced'
  BY DEF ReplicaCrash, table, PollInv, NewWorkIsAnnounced, HasRead, Announced, Claimable
<1>7. NoDeadWaiters'
  BY DEF ReplicaCrash, PollInv, NoDeadWaiters, PollTypeOK
<1>. QED  BY <1>1, <1>2, <1>3, <1>4, <1>5, <1>6, <1>7 DEF PollInv

(* Where every behaviour starts: nothing queued, nobody waiting, every       *)
(* listener still to connect.                                                *)
LEMMA InitPollInv == PollInit => PollInv
  BY PollAssumption DEF PollInit, PollInv, PollTypeOK, Stages, ClaimsHoldLocks, AnswersCount, StillListening,
     HeldEmptyHanded, NewWorkIsAnnounced, HasRead, NoDeadWaiters, Claimable

(* A step that changes none of the variables changes none of the parts.      *)
LEMMA StutterStep == PollInv /\ UNCHANGED pollVars => PollInv'
  BY DEF pollVars, PollInv, PollTypeOK, ClaimsHoldLocks, AnswersCount, StillListening, HeldEmptyHanded,
     NewWorkIsAnnounced, HasRead, Announced, Claimable, NoDeadWaiters

(* Every step of a handler, a listener, an operator or the environment       *)
(* keeps the invariant.                                                      *)
LEMMA NextPollInv == PollInv /\ PollNext => PollInv'
<1> SUFFICES ASSUME PollInv, PollNext PROVE PollInv'
  OBVIOUS
<1>1. ASSUME OperatorStep PROVE PollInv'
  BY <1>1, CreateJobStep, ApproveJobStep, WindowOpensStep DEF OperatorStep
<1>2. ASSUME NEW h \in Hosts, AgentAsks(h) \/ ConnectionLost(h) PROVE PollInv'
  BY <1>2, SubscribeStep, ConnectionLostStep DEF AgentAsks
<1>3. ASSUME NEW p \in Polls, HandlerStep(p) \/ ClaimFails(p) PROVE PollInv'
  BY <1>3, ClaimStep, CommitClaimStep, WokenStep, HoldExpiresStep, AnswerStep, ClaimFailsStep
     DEF HandlerStep
<1>4. ASSUME NEW r \in Replicas, ListenerStep(r) \/ ReplicaCrash(r) PROVE PollInv'
  BY <1>4, WakeStep, CloseTakenStep, ListenerFailsStep, ListenerReturnsStep, ReplicaCrashStep
     DEF ListenerStep
<1>. QED  BY <1>1, <1>2, <1>3, <1>4 DEF PollNext

(* The invariant holds in every state the handlers, the listeners and the    *)
(* database reach, for any number of hosts, jobs, replicas and requests.     *)
THEOREM PollInvariant == PollSpec => []PollInv
<1>1. PollInv /\ [PollNext]_pollVars => PollInv'
  BY NextPollInv, StutterStep
<1>. QED  BY InitPollInv, <1>1, PTL DEF PollSpec

(* The variables of the long poll stay in their types.                       *)
THEOREM PollTypeCorrect == PollSpec => []PollTypeOK
<1>1. PollInv => PollTypeOK
  BY DEF PollInv
<1>. QED  BY PollInvariant, <1>1, PTL

(* ClaimJobs never gives one row to two claims, however the transactions of  *)
(* any number of replicas overlap, fail or die.                              *)
THEOREM ClaimedByOneHolds == PollSpec => []ClaimedByOne
<1>1. PollInv => ClaimedByOne
  BY DEF PollInv, AnswersCount, ClaimedByOne
<1>. QED  BY PollInvariant, <1>1, PTL

(* handleJobs holds no request over work whose wake-up could be lost: the    *)
(* only rows left to the end of the hold are the ones NoLostWakeUp excepts.  *)
THEOREM NoLostWakeUpHolds == PollSpec => []NoLostWakeUp
<1>1. ASSUME PollInv, NEW p \in Polls, stage[p] = "holding",
             NEW j \in Claimable, JobHost[j] = PollHost[p], j \notin missed[p]
      PROVE  Signalled(p)
  <2>1. Announced(p, j)
    BY <1>1 DEF PollInv, HeldEmptyHanded, NewWorkIsAnnounced, HasRead
  <2>. QED  BY <1>1, <2>1 DEF Announced, Signalled
<1>2. PollInv => NoLostWakeUp
  BY <1>1 DEF NoLostWakeUp
<1>. QED  BY PollInvariant, <1>2, PTL

(* The waiters map of a replica holds only channels of requests it is still  *)
(* serving.                                                                  *)
THEOREM NoDeadWaitersHolds == PollSpec => []NoDeadWaiters
<1>1. PollInv => NoDeadWaiters
  BY DEF PollInv
<1>. QED  BY PollInvariant, <1>1, PTL

=============================================================================
