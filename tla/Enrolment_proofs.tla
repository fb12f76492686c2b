--------------------------- MODULE Enrolment_proofs ---------------------------
(***************************************************************************)
(* Theorems about Enrolment for every set of machines, tokens, templates   *)
(* and runs of `hostseal enroll', and the refinement of Admission.         *)
(***************************************************************************)
EXTENDS Enrolment, FiniteSetTheorems, TLAPS

-----------------------------------------------------------------------------
(* Records *)

\* A request that was sent names a machine, a token and perhaps a template (Enroll).
LEMMA RequestFields ==
    ASSUME TypeOK, HandlerFollowsRun, NEW e \in Enrolments, runs[e].at # "idle" \/ handler[e].at # None
    PROVE  /\ runs[e].at # "idle"
           /\ runs[e].request \in Request
           /\ MachineOf(e) \in Machines
           /\ TokenOf(e) \in Tokens
           /\ runs[e].request.bootstrap \in Names \cup {None}
           /\ runs[e].request.signers \in SUBSET Keys
<1>1. runs[e].at # "idle"
  BY DEF HandlerFollowsRun, At
<1> QED BY <1>1 DEF HandlerFollowsRun, Request, MachineOf, TokenOf

\* A template that a response can carry has a name of its own; the absence of one has none.
LEMMA BootstrapNames ==
    /\ \A b \in Bootstrap : b.name \in Names /\ b.name # None /\ b # NoBootstrap
    /\ NoBootstrap.name = None /\ NoBootstrap.signer = None
<1>1. ASSUME NEW b \in Bootstrap PROVE b.name \in Names /\ b.name # None /\ b # NoBootstrap
  <2>1. b.name \in Names
    BY DEF Bootstrap
  <2>2. b.name # None
    BY <2>1, SituationAssumption
  <2> QED BY <2>1, <2>2 DEF NoBootstrap
<1> QED BY <1>1 DEF NoBootstrap

\* Whoever signed a version is a key; an unsigned one and a missing one name none.
LEMMA VersionSigner ==
    ASSUME NEW v \in Versions
    PROVE  v.signer \in Keys \cup {None}
<1>1. CASE v = NoVersion
  BY <1>1 DEF NoVersion
<1>2. CASE v \in [stored : {TRUE}, signer : Keys \cup {None}, mints : BOOLEAN]
  BY <1>2
<1> QED BY <1>1, <1>2 DEF Versions

\* A write of one column of a token leaves it a token, with the other columns as they were.
LEMMA TokenColumns ==
    ASSUME NEW r \in Token
    PROVE  /\ \A e \in Enrolments : LET w == [r EXCEPT !.consumedBy = e] IN
                 w \in Token /\ w.consumedBy = e /\ w.state = r.state /\ w.bootstrap = r.bootstrap
           /\ \A st \in {"live", "expired"} : LET w == [r EXCEPT !.state = st] IN
                 w \in Token /\ w.consumedBy = r.consumedBy /\ w.state = st /\ w.bootstrap = r.bootstrap
           /\ \A b \in Names \cup {None} : LET w == [r EXCEPT !.bootstrap = b] IN
                 w \in Token /\ w.consumedBy = r.consumedBy /\ w.state = r.state /\ w.bootstrap = b
BY DEF Token

-----------------------------------------------------------------------------
(* Type correctness *)

\* A step of a handler keeps the types.
LEMMA HandleType ==
    ASSUME TypeOK, HandlerFollowsRun, NEW e \in Enrolments, Handle(e)
    PROVE  TypeOK'
<1>0. handler[e] \in [at : HandlerSteps \cup {None}, template : Bootstrap \cup {NoBootstrap}]
  BY DEF TypeOK
<1>1. ASSUME NEW step \in HandlerSteps, GoTo(e, step)
      PROVE  handler' \in [Enrolments -> [at : HandlerSteps \cup {None}, template : Bootstrap \cup {NoBootstrap}]]
  <2>1. [handler[e] EXCEPT !.at = step] \in [at : HandlerSteps \cup {None}, template : Bootstrap \cup {NoBootstrap}]
    BY <1>0, <1>1
  <2> QED BY <1>1, <2>1 DEF TypeOK, GoTo
<1>3. CASE RateLimited(e) \/ ResolveToken(e) \/ CheckMachine(e) \/ CheckTenant(e) \/ CheckArchival(e)
           \/ RefuseRequest(e) \/ BootstrapSurvivedRedemption(e)
  <2>1. \E step \in HandlerSteps : GoTo(e, step)
    BY <1>3 DEF RateLimited, ResolveToken, CheckMachine, CheckTenant, CheckArchival, RefuseRequest,
                BootstrapSurvivedRedemption, Refuse, HandlerSteps
  <2> QED BY <1>3, <1>1, <2>1
       DEF TypeOK, RateLimited, ResolveToken, CheckMachine, CheckTenant, CheckArchival, RefuseRequest,
           BootstrapSurvivedRedemption, rows, history, Elsewhere
<1>4. CASE ResolveBootstrap(e)
  <2>0. At(e, "bootstrap") /\ UNCHANGED <<rows, history, Elsewhere>>
    BY <1>4 DEF ResolveBootstrap
  <2>1. handler' \in [Enrolments -> [at : HandlerSteps \cup {None}, template : Bootstrap \cup {NoBootstrap}]]
    <3> DEFINE n == runs[e].request.bootstrap
               h == [at |-> "archival", template |-> [name |-> n, signer |-> templates[n].version.signer]]
    <3>1. CASE n # None /\ Issuable(templates[n].version) /\ handler' = [handler EXCEPT ![e] = h]
      <4>1. n \in Names
        BY <3>1, <2>0, RequestFields DEF At, None
      <4>2. templates[n].version \in Versions
        BY <4>1 DEF TypeOK, Template
      <4>3. templates[n].version.signer \in Keys \cup {None}
        BY <4>2, VersionSigner
      <4>4. h \in [at : HandlerSteps \cup {None}, template : Bootstrap \cup {NoBootstrap}]
        BY <4>1, <4>3 DEF Bootstrap, HandlerSteps
      <4> QED BY <3>1, <4>4 DEF TypeOK
    <3>2. CASE GoTo(e, "redeem") \/ GoTo(e, "refused")
      BY <3>2, <1>1 DEF HandlerSteps
    <3> HIDE DEF h, n
    <3>3. \/ n # None /\ Issuable(templates[n].version) /\ handler' = [handler EXCEPT ![e] = h]
          \/ GoTo(e, "redeem") \/ GoTo(e, "refused")
      BY <1>4 DEF ResolveBootstrap, Refuse, n, h
    <3> QED BY <3>1, <3>2, <3>3
  <2> QED BY <2>0, <2>1 DEF TypeOK, rows, history, Elsewhere
<1>5. CASE Redeem(e)
  <2>1. TokenOf(e) \in Tokens /\ UNCHANGED Elsewhere
    BY <1>5, RequestFields DEF Redeem, At, None
  <2>2. \E step \in HandlerSteps : GoTo(e, step)
    BY <1>5 DEF Redeem, Refuse, HandlerSteps
  <2>3. [tokens[TokenOf(e)] EXCEPT !.consumedBy = e] \in Token
    BY <2>1, TokenColumns DEF TypeOK
  <2>4. tokens' \in [Tokens -> Token] /\ UNCHANGED <<templates, tenant, hosts>>
    BY <1>5, <2>1, <2>3 DEF TypeOK, Redeem, rows
  <2>5. disturbed' \subseteq Enrolments /\ inUse' \subseteq Enrolments
    BY <1>5 DEF Redeem, Disturb, TypeOK, history
  <2> QED BY <2>1, <2>2, <2>4, <2>5, <1>1 DEF TypeOK, Elsewhere
<1>6. CASE CreateEnrolledHost(e)
  <2>1. \E step \in HandlerSteps : GoTo(e, step)
    BY <1>6 DEF CreateEnrolledHost, Refuse, HandlerSteps
  <2>2. hosts' \in [Enrolments -> {"none", "live", "revoked", "deleted"}] /\ UNCHANGED <<tokens, templates, tenant>>
    BY <1>6 DEF TypeOK, CreateEnrolledHost, rows
  <2>3. disturbed' \subseteq Enrolments /\ inUse' \subseteq Enrolments
    BY <1>6 DEF CreateEnrolledHost, Disturb, TypeOK, history
  <2> QED BY <1>6, <2>1, <2>2, <2>3, <1>1 DEF TypeOK, CreateEnrolledHost, Elsewhere
<1>7. CASE StoreFails(e)
  <2>1. handler' \in [Enrolments -> [at : HandlerSteps \cup {None}, template : Bootstrap \cup {NoBootstrap}]]
    BY <1>7, <1>1 DEF StoreFails, Refuse, HandlerSteps
  <2>2. faults' \in 0 .. MaxFaults
    BY <1>7, EnrolmentAssumption DEF StoreFails, Fail, TypeOK
  <2> QED BY <1>7, <2>1, <2>2 DEF TypeOK, StoreFails, rows
<1> QED BY <1>3, <1>4, <1>5, <1>6, <1>7 DEF Handle

\* A step of an operator keeps the types.
LEMMA OperateType ==
    ASSUME TypeOK, Operate
    PROVE  TypeOK'
<1>0. \A others : Disturb(Enrolments) => disturbed' \subseteq Enrolments
  BY DEF Disturb, TypeOK
<1>1. \A kind : Act(kind) => acts' \in 0 .. MaxActs
  BY EnrolmentAssumption DEF Act, TypeOK
<1>2. ASSUME NEW t \in Tokens, NEW b \in Names \cup {None}, CreateToken(t, b) PROVE TypeOK'
  BY <1>1, <1>2 DEF CreateToken, TypeOK, Pending, rows, history
<1>3. ASSUME NEW t \in Tokens, NEW n \in Names, NEW b \in Names \cup {None}, RenderTemplate(n, t, b) PROVE TypeOK'
  BY <1>1, <1>3 DEF RenderTemplate, TypeOK, Pending, rows, history
<1>4. ASSUME NEW n \in Names, NEW k \in Keys \cup {None}, NEW mints \in BOOLEAN, CreateTemplate(n, Version(k, mints))
      PROVE  TypeOK'
  <2>1. Version(k, mints) \in Versions
    BY DEF Version, Versions
  <2>2. [op |-> "template", name |-> n, version |-> Version(k, mints)] \in Pending
    BY <2>1 DEF Pending
  <2> QED BY <1>1, <1>4, <2>2 DEF CreateTemplate, TypeOK, rows, history
<1>5. CASE Commit
  <2>1. CASE pending.op = "token" /\ UNCHANGED templates
             /\ tokens' = [tokens EXCEPT ![pending.token].state = "live", ![pending.token].bootstrap = pending.bootstrap]
    <3>1. pending \in [op : {"token"}, token : Tokens, bootstrap : Names \cup {None}]
      BY <1>5, <2>1 DEF Commit, TypeOK, Pending
    <3>2. [[tokens[pending.token] EXCEPT !.state = "live"] EXCEPT !.bootstrap = pending.bootstrap] \in Token
      BY <3>1, TokenColumns DEF TypeOK
    <3>3. tokens' \in [Tokens -> Token]
      BY <2>1, <3>1, <3>2 DEF TypeOK
    <3> QED BY <1>0, <1>5, <2>1, <3>3 DEF Commit, TypeOK, Pending
  <2>2. CASE pending.op = "template" /\ UNCHANGED tokens
             /\ templates' = [templates EXCEPT ![pending.name].version = pending.version,
                                               ![pending.name].renders = @ \/ pending.version.mints]
    <3>1. pending \in [op : {"template"}, name : Names, version : Versions]
      BY <1>5, <2>2 DEF Commit, TypeOK, Pending
    <3>2. \A n \in Names : templates'[n] \in Template
      BY <2>2, <3>1 DEF TypeOK, Template
    <3>3. templates' \in [Names -> Template]
      BY <2>2, <3>2 DEF TypeOK
    <3> QED BY <1>0, <1>5, <2>2, <3>3 DEF Commit, TypeOK, Pending
  <2> QED BY <1>5, <2>1, <2>2 DEF Commit
<1>6. ASSUME NEW n \in Names, ArchiveTemplate(n) \/ RestoreTemplate(n) PROVE TypeOK'
  <2>1. \E b \in BOOLEAN : templates' = [templates EXCEPT ![n].archived = b]
    BY <1>6 DEF ArchiveTemplate, RestoreTemplate
  <2>2. templates' \in [Names -> Template]
    BY <2>1 DEF TypeOK, Template
  <2>3. inUse' \subseteq Enrolments
    BY <1>6 DEF ArchiveTemplate, RestoreTemplate, TypeOK
  <2> QED BY <1>0, <1>1, <1>6, <2>2, <2>3 DEF TypeOK, ArchiveTemplate, RestoreTemplate
<1>7. ASSUME NEW e \in Enrolments, NEW how \in {"revoked", "deleted"}, WithdrawHost(e, how) PROVE TypeOK'
  BY <1>0, <1>1, <1>7 DEF TypeOK, WithdrawHost
<1>8. ASSUME NEW limit \in HostLimits \cup {NoLimit}, NEW s \in BOOLEAN,
             UpdateTenant([suspended |-> s, limit |-> limit])
      PROVE  TypeOK'
  BY <1>0, <1>1, <1>8 DEF TypeOK, UpdateTenant
<1>9. ASSUME NEW t \in Tokens, ExpireToken(t) PROVE TypeOK'
  <2>1. tokens' \in [Tokens -> Token]
    BY <1>9, TokenColumns DEF ExpireToken, TypeOK
  <2> QED BY <1>0, <1>1, <1>9, <2>1 DEF TypeOK, ExpireToken
<1> QED BY <1>2, <1>3, <1>4, <1>5, <1>6, <1>7, <1>8, <1>9 DEF Operate

\* A step of a run moves it on and changes nothing else about it.
LEMMA StepType ==
    ASSUME TypeOK, NEW e \in Enrolments, NEW step \in RunSteps, Step(e, step)
    PROVE  /\ runs' \in [Enrolments -> [at : RunSteps, request : Request \cup {NotAsked},
                                        template : Bootstrap \cup {NoBootstrap}, forged : BOOLEAN]]
           /\ \A d \in Enrolments \ {e} : runs'[d] = runs[d]
           /\ runs'[e].at = step /\ runs'[e].request = runs[e].request
           /\ runs'[e].template = runs[e].template /\ runs'[e].forged = runs[e].forged
<1>1. runs[e] \in [at : RunSteps, request : Request \cup {NotAsked},
                   template : Bootstrap \cup {NoBootstrap}, forged : BOOLEAN]
  BY DEF TypeOK
<1>2. [runs[e] EXCEPT !.at = step] \in [at : RunSteps, request : Request \cup {NotAsked},
                                        template : Bootstrap \cup {NoBootstrap}, forged : BOOLEAN]
  BY <1>1
<1> QED BY <1>1, <1>2 DEF Step, TypeOK

\* A write of one file leaves the others as they were.
LEMMA DiskColumns ==
    ASSUME NEW d \in Disk
    PROVE  /\ \A x \in Enrolments \cup {None} :
                 /\ [d EXCEPT !.credential = x] \in Disk
                 /\ [d EXCEPT !.previous = x] \in Disk
                 /\ [d EXCEPT !.state = x] \in Disk
                 /\ [d EXCEPT !.seed = x] \in Disk
           /\ \A x \in Bootstrap \cup {NoBootstrap} : [d EXCEPT !.record = x] \in Disk
           /\ \A x \in SUBSET Keys : [d EXCEPT !.anchor = x] \in Disk
BY DEF Disk

\* The answer a run may be given carries a template by a name, or none.
LEMMA AnswerType ==
    ASSUME TypeOK, NEW e \in Enrolments,
           NEW b \in {handler[e].template} \cup IF "forged" \in situation.faults THEN Fabricated ELSE {}
    PROVE  b \in Bootstrap \cup {NoBootstrap}
<1>1. handler[e].template \in Bootstrap \cup {NoBootstrap}
  BY DEF TypeOK
<1>2. ASSUME b \in Fabricated PROVE b \in Bootstrap
  <2>1. CASE \E n \in Names : b = [name |-> n, signer |-> templates[n].version.signer]
    <3>1. PICK n \in Names : b = [name |-> n, signer |-> templates[n].version.signer]
      BY <2>1
    <3>2. templates[n].version.signer \in Keys \cup {None}
      BY VersionSigner DEF TypeOK, Template
    <3> QED BY <3>1, <3>2 DEF Bootstrap
  <2>2. CASE \E n \in Names : b = [name |-> n, signer |-> None]
    BY <2>2 DEF Bootstrap
  <2> QED BY <1>2, <2>1, <2>2 DEF Fabricated
<1> QED BY <1>1, <1>2

\* A step of `hostseal enroll' keeps the types.
LEMMA EnrolType ==
    ASSUME TypeOK, HandlerFollowsRun, NEW e \in Enrolments, Enrol(e)
    PROVE  TypeOK'
<1>0. \A kind : Fail(kind) => faults' \in 0 .. MaxFaults
  BY EnrolmentAssumption DEF Fail, TypeOK
<1>1. ASSUME NEW m \in situation.machines, NEW t \in situation.tokens, NEW b \in situation.named,
             NEW file \in {{}} \cup {{k} : k \in Keys}, Start(e, m, t, b, file)
      PROVE  TypeOK'
  <2> DEFINE anchor == IF disk[m].anchor = {} THEN file ELSE disk[m].anchor
             run == [at |-> IF b # None /\ (anchor = {} \/ disk[m].record # NoBootstrap) THEN "refused" ELSE "sent",
                     request |-> [machine |-> m, token |-> t, bootstrap |-> b, signers |-> anchor],
                     template |-> NoBootstrap, forged |-> FALSE]
  <2>1. m \in Machines /\ t \in Tokens /\ b \in Names \cup {None}
    BY SituationAssumption DEF TypeOK
  <2>2. anchor \in SUBSET Keys
    BY <2>1 DEF TypeOK, Disk
  <2>3. run \in [at : RunSteps, request : Request \cup {NotAsked}, template : Bootstrap \cup {NoBootstrap}, forged : BOOLEAN]
    BY <2>1, <2>2 DEF RunSteps, Request
  <2>4. disk' = [disk EXCEPT ![m].anchor = anchor] /\ runs' = [runs EXCEPT ![e] = run]
    BY <1>1 DEF Start
  <2> HIDE DEF anchor, run
  <2>5. disk' \in [Machines -> Disk]
    BY <2>1, <2>2, <2>4, DiskColumns DEF TypeOK
  <2>6. runs' \in [Enrolments -> [at : RunSteps, request : Request \cup {NotAsked},
                                  template : Bootstrap \cup {NoBootstrap}, forged : BOOLEAN]]
    BY <2>3, <2>4 DEF TypeOK
  <2>7. \E step \in HandlerSteps \cup {None} : handler' = [handler EXCEPT ![e].at = step]
    BY <1>1 DEF Start, HandlerSteps
  <2>8. handler' \in [Enrolments -> [at : HandlerSteps \cup {None}, template : Bootstrap \cup {NoBootstrap}]]
    BY <2>7 DEF TypeOK
  <2> QED BY <1>1, <2>5, <2>6, <2>8 DEF TypeOK, Start, rows, history
<1>2. CASE Receive(e)
  <2>1. CASE Step(e, "refused")
    <3>1. "refused" \in RunSteps
      BY DEF RunSteps
    <3> QED BY <1>2, <2>1, <3>1, StepType DEF TypeOK, Receive, Server, rows, history
  <2>2. CASE \E b \in {handler[e].template} \cup IF "forged" \in situation.faults THEN Fabricated ELSE {},
                step \in {"verified", "too late"}, f \in BOOLEAN :
                runs' = [runs EXCEPT ![e].at = step, ![e].template = b, ![e].forged = f]
    <3>1. PICK b \in Bootstrap \cup {NoBootstrap}, step \in {"verified", "too late"}, f \in BOOLEAN :
                runs' = [runs EXCEPT ![e].at = step, ![e].template = b, ![e].forged = f]
      BY <2>2, AnswerType
    <3>2. step \in RunSteps
      BY <3>1 DEF RunSteps
    <3>3. runs' \in [Enrolments -> [at : RunSteps, request : Request \cup {NotAsked},
                                    template : Bootstrap \cup {NoBootstrap}, forged : BOOLEAN]]
      <4>1. runs[e] \in [at : RunSteps, request : Request \cup {NotAsked},
                         template : Bootstrap \cup {NoBootstrap}, forged : BOOLEAN]
        BY DEF TypeOK
      <4>2. [runs[e] EXCEPT !.at = step, !.template = b, !.forged = f]
               \in [at : RunSteps, request : Request \cup {NotAsked},
                    template : Bootstrap \cup {NoBootstrap}, forged : BOOLEAN]
        BY <4>1, <3>1, <3>2
      <4> QED BY <3>1, <4>2 DEF TypeOK
    <3> QED BY <1>2, <3>3 DEF TypeOK, Receive, Server, rows, history
  <2>3. ASSUME NEW b \in {handler[e].template} \cup IF "forged" \in situation.faults THEN Fabricated ELSE {},
               runs' = [runs EXCEPT
                    ![e].at = IF runs[e].request.bootstrap = None \/ VerifyBootstrap(e, b) THEN "verified" ELSE "too late",
                    ![e].template = b,
                    ![e].forged = b # handler[e].template]
        PROVE  \E step \in {"verified", "too late"}, f \in BOOLEAN :
                  runs' = [runs EXCEPT ![e].at = step, ![e].template = b, ![e].forged = f]
    <3>1. (b # handler[e].template) \in BOOLEAN
      OBVIOUS
    <3>2. CASE runs[e].request.bootstrap = None \/ VerifyBootstrap(e, b)
      BY <2>3, <3>1, <3>2
    <3>3. CASE ~(runs[e].request.bootstrap = None \/ VerifyBootstrap(e, b))
      BY <2>3, <3>1, <3>3
    <3> QED BY <3>2, <3>3
  <2> QED BY <1>2, <2>1, <2>2, <2>3 DEF Receive
<1>3. CASE KeepPrevious(e) \/ WriteCurrent(e) \/ SaveState(e) \/ RecordBootstrap(e) \/ WriteSeed(e) \/ RunCloudInit(e)
  <2>1. MachineOf(e) \in Machines /\ disk[MachineOf(e)] \in Disk /\ disk[MachineOf(e)].credential \in Enrolments \cup {None}
    BY <1>3, RequestFields
       DEF KeepPrevious, WriteCurrent, SaveState, RecordBootstrap, WriteSeed, RunCloudInit, RunAt, TypeOK, Disk
  <2>2. \E d \in Disk : disk' = [disk EXCEPT ![MachineOf(e)] = d]
    <3> DEFINE d == disk[MachineOf(e)]
    <3>1. CASE KeepPrevious(e)
      <4>1. d.previous \in Enrolments \cup {None}
        BY <2>1 DEF Disk
      <4>2. PICK x \in Enrolments \cup {None} : disk' = [disk EXCEPT ![MachineOf(e)].previous = x]
        BY <3>1, <2>1, <4>1 DEF KeepPrevious, TypeOK
      <4>3. disk' = [disk EXCEPT ![MachineOf(e)] = [d EXCEPT !.previous = x]]
        BY <4>2 DEF TypeOK
      <4> QED BY <2>1, <4>2, <4>3, DiskColumns
    <3>2. CASE WriteCurrent(e) \/ SaveState(e) \/ WriteSeed(e) \/ RunCloudInit(e)
      <4>1. \/ disk' = [disk EXCEPT ![MachineOf(e)] = [d EXCEPT !.credential = e]]
            \/ disk' = [disk EXCEPT ![MachineOf(e)] = [d EXCEPT !.state = e]]
            \/ disk' = [disk EXCEPT ![MachineOf(e)] = [d EXCEPT !.seed = e]]
            \/ disk' = [disk EXCEPT ![MachineOf(e)] = [d EXCEPT !.seed = None]]
        BY <3>2 DEF WriteCurrent, SaveState, WriteSeed, RunCloudInit
      <4> QED BY <2>1, <4>1, DiskColumns
    <3>3. CASE RecordBootstrap(e)
      <4>1. runs[e].template \in Bootstrap \cup {NoBootstrap}
        BY DEF TypeOK
      <4>2. disk' = [disk EXCEPT ![MachineOf(e)] = d] \/ disk' = [disk EXCEPT ![MachineOf(e)] = [d EXCEPT !.record = runs[e].template]]
        BY <3>3 DEF RecordBootstrap, TypeOK
      <4> QED BY <2>1, <4>1, <4>2, DiskColumns
    <3> QED BY <1>3, <3>1, <3>2, <3>3
  <2>3. disk' \in [Machines -> Disk]
    BY <2>1, <2>2 DEF TypeOK
  <2>4. \E step \in RunSteps : Step(e, step)
    <3>1. \A step \in {"kept", "written", "saved", "done", "too late", "recorded", "seeded"} : step \in RunSteps
      BY DEF RunSteps
    <3>2. CASE SaveState(e)
      <4>1. CASE runs[e].request.bootstrap = None
        BY <3>1, <3>2, <4>1 DEF SaveState
      <4>2. CASE runs[e].request.bootstrap # None
        BY <3>1, <3>2, <4>2 DEF SaveState
      <4> QED BY <4>1, <4>2
    <3> QED BY <1>3, <3>1, <3>2 DEF KeepPrevious, WriteCurrent, RecordBootstrap, WriteSeed, RunCloudInit
  <2>5. applied' \in [Machines -> SUBSET Enrolments]
    <3>1. applied' = applied \/ applied' = [applied EXCEPT ![MachineOf(e)] = @ \cup {e}]
      BY <1>3 DEF KeepPrevious, WriteCurrent, SaveState, RecordBootstrap, WriteSeed, RunCloudInit
    <3> QED BY <2>1, <3>1 DEF TypeOK
  <2> QED BY <1>3, <2>3, <2>4, <2>5, StepType
       DEF TypeOK, KeepPrevious, WriteCurrent, SaveState, RecordBootstrap, WriteSeed, RunCloudInit,
           Server, rows, history
<1>4. CASE GiveUp(e) \/ Interrupt(e)
  <2>1. \E step \in RunSteps : Step(e, step)
    BY <1>4 DEF GiveUp, Interrupt, RunSteps
  <2> QED BY <1>0, <1>4, <2>1, StepType DEF TypeOK, GiveUp, Interrupt, Server, rows, history
<1> QED BY <1>1, <1>2, <1>3, <1>4 DEF Enrol

\* A machine that goes down keeps the types.
LEMMA RebootType ==
    ASSUME TypeOK, NEW m \in Machines, Reboot(m)
    PROVE  TypeOK'
<1>1. faults' \in 0 .. MaxFaults
  BY EnrolmentAssumption DEF Reboot, Fail, TypeOK
<1>2. \A e \in Enrolments : [runs[e] EXCEPT !.at = "died"] \in
         [at : RunSteps, request : Request \cup {NotAsked}, template : Bootstrap \cup {NoBootstrap}, forged : BOOLEAN]
  BY DEF TypeOK, RunSteps
<1>3. runs' \in [Enrolments -> [at : RunSteps, request : Request \cup {NotAsked},
                                template : Bootstrap \cup {NoBootstrap}, forged : BOOLEAN]]
  BY <1>2 DEF Reboot, TypeOK
<1>4. disk[m].seed \in Enrolments \cup {None}
  BY DEF TypeOK, Disk
<1>5. applied' \in [Machines -> SUBSET Enrolments]
  BY <1>4 DEF Reboot, TypeOK
<1> QED BY <1>1, <1>3, <1>5 DEF TypeOK, Reboot, Server, rows, history

-----------------------------------------------------------------------------
(* What a step of a handler may do *)

\* A handler moves on, the others stay where they are.
Moved(e, step) ==
    /\ handler'[e].at = step
    /\ handler'[e].template = handler[e].template
    /\ \A d \in Enrolments \ {e} : handler'[d] = handler[d]

AtWork == {e \in Enrolments : handler[e].at \notin {None, "enrolled", "refused"}}
Reads == UNCHANGED <<tokens, templates, tenant, hosts, inUse>>

\* It refuses: before the token is spent, or because what it had read is no longer so, or because it failed.
TurnsDown(e) ==
    /\ e \in AtWork /\ Moved(e, "refused") /\ Reads
    /\ disturbed \subseteq disturbed'
    /\ e \notin disturbed' =>
          /\ At(e, "survive") => handler[e].template # NoBootstrap /\ templates[handler[e].template.name].archived
          /\ At(e, "create") => Full \/ Claimed(MachineOf(e))

\* It reads, and what it has read is so.
GoesOn(e) ==
    /\ Reads /\ UNCHANGED disturbed
    /\ \/ At(e, "token") /\ Moved(e, "machine")
       \/ At(e, "machine") /\ ~Claimed(MachineOf(e)) /\ Moved(e, "tenant")
       \/ At(e, "tenant") /\ ~Full /\ Moved(e, "bootstrap")
       \/ At(e, "bootstrap") /\ Moved(e, "redeem")
       \/ At(e, "archival") /\ ~templates[handler[e].template.name].archived /\ Moved(e, "redeem")
       \/ /\ At(e, "survive") /\ Moved(e, "create")
          /\ handler[e].template # NoBootstrap => ~templates[handler[e].template.name].archived

\* It settles on a template.
Picks(e) ==
    /\ At(e, "bootstrap") /\ Reads /\ UNCHANGED disturbed
    /\ handler'[e].at = "archival" /\ handler'[e].template # NoBootstrap
    /\ \A d \in Enrolments \ {e} : handler'[d] = handler[d]

\* It spends the token.
Spends(e) ==
    /\ At(e, "redeem") /\ Moved(e, "survive")
    /\ Usable(TokenOf(e)) /\ TokenOf(e) \in Tokens
    /\ tokens'[TokenOf(e)].consumedBy = e
    /\ \A t \in Tokens \ {TokenOf(e)} : tokens'[t].consumedBy = tokens[t].consumedBy
    /\ UNCHANGED <<templates, tenant, hosts>>
    /\ AtWork \ {e} \subseteq disturbed' /\ disturbed \subseteq disturbed' /\ (e \in disturbed' => e \in disturbed)
    /\ inUse \subseteq inUse'
    /\ handler[e].template # NoBootstrap /\ ~templates[handler[e].template.name].archived => e \in inUse'

\* It writes the host.
Joins(e) ==
    /\ At(e, "create") /\ Moved(e, "enrolled")
    /\ ~Full /\ ~Claimed(MachineOf(e))
    /\ hosts' = [hosts EXCEPT ![e] = "live"]
    /\ UNCHANGED <<tokens, templates, tenant, inUse>>
    /\ AtWork \ {e} \subseteq disturbed' /\ disturbed \subseteq disturbed'

\* A write of where a handler is leaves the rest of it and the other handlers.
LEMMA GoesTo ==
    ASSUME TypeOK, NEW e \in Enrolments, NEW step, GoTo(e, step)
    PROVE  Moved(e, step)
BY DEF TypeOK, GoTo, Moved

\* The handler's steps are these five.
LEMMA HandleKinds ==
    ASSUME TypeOK, HandlerFollowsRun, NEW e \in Enrolments, Handle(e)
    PROVE  /\ TurnsDown(e) \/ GoesOn(e) \/ Picks(e) \/ Spends(e) \/ Joins(e)
           /\ UNCHANGED <<runs, disk, applied>>
<1>0. UNCHANGED <<runs, disk, applied>>
  BY DEF Handle, RateLimited, ResolveToken, CheckMachine, CheckTenant, ResolveBootstrap, CheckArchival, RefuseRequest,
         Redeem, BootstrapSurvivedRedemption, CreateEnrolledHost, StoreFails, Elsewhere
<1> SUFFICES TurnsDown(e) \/ GoesOn(e) \/ Picks(e) \/ Spends(e) \/ Joins(e)
  BY <1>0
<1>n. \A b \in Bootstrap \cup {NoBootstrap} : b.name = None <=> b = NoBootstrap
  BY BootstrapNames
<1>t. handler[e].template \in Bootstrap \cup {NoBootstrap}
  BY DEF TypeOK
<1>r. UNCHANGED <<rows, history>> => Reads /\ disturbed' = disturbed
  BY DEF rows, history, Reads
<1>w. \A s \in {"token", "machine", "tenant", "bootstrap", "archival", "redeem", "survive", "create"} :
         At(e, s) => e \in AtWork
  BY DEF At, AtWork, None
<1>d. ASSUME NEW s \in {"token", "machine", "tenant", "bootstrap", "archival", "redeem"},
             At(e, s), Moved(e, "refused"), UNCHANGED <<rows, history>>
      PROVE  TurnsDown(e)
  <2>1. ~At(e, "survive") /\ ~At(e, "create") /\ e \in AtWork
    BY <1>d, <1>w DEF At
  <2> QED BY <1>d, <1>r, <2>1 DEF TurnsDown
<1>1. CASE RateLimited(e) \/ RefuseRequest(e)
  BY <1>1, <1>d, GoesTo DEF RateLimited, RefuseRequest, Refuse
<1>2. CASE ResolveToken(e)
  <2>1. At(e, "token") /\ (Moved(e, "machine") \/ Moved(e, "refused"))
    BY <1>2, GoesTo DEF ResolveToken
  <2> QED BY <1>2, <1>d, <1>r, <2>1 DEF ResolveToken, GoesOn
<1>3. CASE CheckMachine(e)
  <2>1. At(e, "machine") /\ ((~Claimed(MachineOf(e)) /\ Moved(e, "tenant")) \/ Moved(e, "refused"))
    BY <1>3, GoesTo DEF CheckMachine
  <2> QED BY <1>3, <1>d, <1>r, <2>1 DEF CheckMachine, GoesOn
<1>4. CASE CheckTenant(e)
  <2>1. At(e, "tenant") /\ ((~Full /\ Moved(e, "bootstrap")) \/ Moved(e, "refused"))
    BY <1>4, GoesTo DEF CheckTenant
  <2> QED BY <1>4, <1>d, <1>r, <2>1 DEF CheckTenant, GoesOn
<1>5. CASE ResolveBootstrap(e)
  <2> DEFINE n == runs[e].request.bootstrap
  <2>1. At(e, "bootstrap") /\ UNCHANGED <<rows, history>>
    BY <1>5 DEF ResolveBootstrap
  <2>2. CASE Moved(e, "redeem") \/ Moved(e, "refused")
    BY <2>1, <2>2, <1>d, <1>r DEF GoesOn
  <2>3. CASE n # None /\ handler' = [handler EXCEPT ![e] = [at |-> "archival",
                                         template |-> [name |-> n, signer |-> templates[n].version.signer]]]
    <3>1. handler'[e].at = "archival" /\ handler'[e].template.name # None
          /\ \A d \in Enrolments \ {e} : handler'[d] = handler[d]
      BY <2>3 DEF TypeOK
    <3>2. handler'[e].template # NoBootstrap
      BY <3>1 DEF NoBootstrap
    <3> QED BY <2>1, <3>1, <3>2, <1>r DEF Picks
  <2> QED BY <1>5, <1>0, <2>2, <2>3, GoesTo DEF ResolveBootstrap, Refuse
<1>6. CASE CheckArchival(e)
  <2>1. At(e, "archival")
        /\ ((~templates[handler[e].template.name].archived /\ Moved(e, "redeem")) \/ Moved(e, "refused"))
    BY <1>6, GoesTo DEF CheckArchival
  <2> QED BY <1>6, <1>d, <1>r, <2>1 DEF CheckArchival, GoesOn
<1>7. CASE Redeem(e)
  <2>1. At(e, "redeem") /\ TokenOf(e) \in Tokens
    BY <1>7, RequestFields DEF Redeem, At, None
  <2>2. CASE Refuse(e) /\ UNCHANGED <<rows, history>>
    BY <2>1, <2>2, <1>d, GoesTo DEF Refuse
  <2>3. CASE /\ Usable(TokenOf(e))
             /\ tokens' = [tokens EXCEPT ![TokenOf(e)].consumedBy = e]
             /\ GoTo(e, "survive")
             /\ Disturb(Enrolments \ {e})
             /\ inUse' = IF handler[e].template # NoBootstrap /\ ~templates[handler[e].template.name].archived
                         THEN inUse \cup {e} ELSE inUse
             /\ UNCHANGED <<templates, tenant, hosts>>
    <3>1. /\ tokens'[TokenOf(e)].consumedBy = e
          /\ \A t \in Tokens \ {TokenOf(e)} : tokens'[t].consumedBy = tokens[t].consumedBy
      <4>1. tokens[TokenOf(e)] \in Token
        BY <2>1 DEF TypeOK
      <4>2. tokens'[TokenOf(e)] = [tokens[TokenOf(e)] EXCEPT !.consumedBy = e]
        BY <2>1, <2>3 DEF TypeOK
      <4> QED BY <2>1, <2>3, <4>1, <4>2, TokenColumns DEF TypeOK
    <3>2. AtWork \ {e} \subseteq disturbed' /\ disturbed \subseteq disturbed' /\ (e \in disturbed' => e \in disturbed)
      BY <2>3 DEF Disturb, AtWork
    <3>3. inUse \subseteq inUse'
          /\ (handler[e].template # NoBootstrap /\ ~templates[handler[e].template.name].archived => e \in inUse')
      BY <2>3
    <3> QED BY <2>1, <2>3, <3>1, <3>2, <3>3, GoesTo DEF Spends
  <2> QED BY <1>7, <1>0, <2>2, <2>3 DEF Redeem
<1>8. CASE BootstrapSurvivedRedemption(e)
  <2>1. /\ At(e, "survive")
        /\ \/ handler[e].template # NoBootstrap /\ templates[handler[e].template.name].archived /\ Moved(e, "refused")
           \/ /\ handler[e].template # NoBootstrap => ~templates[handler[e].template.name].archived
              /\ Moved(e, "create")
    BY <1>8, <1>n, <1>t, GoesTo DEF BootstrapSurvivedRedemption
  <2>2. ~At(e, "create") /\ e \in AtWork
    BY <2>1, <1>w DEF At
  <2> QED BY <1>8, <2>1, <2>2, <1>r DEF BootstrapSurvivedRedemption, TurnsDown, GoesOn
<1>9. CASE CreateEnrolledHost(e)
  <2>1. At(e, "create")
    BY <1>9 DEF CreateEnrolledHost
  <2>2. CASE (Full \/ Claimed(MachineOf(e))) /\ Refuse(e) /\ UNCHANGED <<rows, history>>
    <3>1. ~At(e, "survive") /\ e \in AtWork
      BY <2>1, <1>w DEF At
    <3> QED BY <2>2, <3>1, <1>r, GoesTo DEF TurnsDown, Refuse
  <2>3. CASE /\ ~Full /\ ~Claimed(MachineOf(e))
             /\ hosts' = [hosts EXCEPT ![e] = "live"]
             /\ GoTo(e, "enrolled")
             /\ Disturb(Enrolments \ {e})
             /\ UNCHANGED <<tokens, templates, tenant, inUse>>
    <3>1. AtWork \ {e} \subseteq disturbed' /\ disturbed \subseteq disturbed'
      BY <2>3 DEF Disturb, AtWork
    <3> QED BY <2>1, <2>3, <3>1, GoesTo DEF Joins
  <2> QED BY <1>9, <1>0, <2>2, <2>3 DEF CreateEnrolledHost
<1>10. CASE StoreFails(e)
  <2>1. e \in AtWork
    BY <1>10 DEF StoreFails, AtWork, HandlerSteps, None
  <2>2. Reads /\ disturbed \subseteq disturbed' /\ e \in disturbed'
    BY <1>10 DEF StoreFails, Reads, rows
  <2> QED BY <1>10, <2>1, <2>2, GoesTo DEF StoreFails, TurnsDown, Refuse
<1> QED BY <1>0, <1>1, <1>2, <1>3, <1>4, <1>5, <1>6, <1>7, <1>8, <1>9, <1>10 DEF Handle

-----------------------------------------------------------------------------
(* The control plane's side, kept by its handlers *)

Story ==
    /\ HandlerFollowsRun
    /\ TokenNamesItsSpender
    /\ UndisturbedReadsHold
    /\ SpentOnUse
    /\ RefusalKeepsToken
    /\ OneLiveHostPerMachine

\* What a run asked for stays what it asked for.
LEMMA SameRequests ==
    ASSUME UNCHANGED runs
    PROVE  \A d : MachineOf(d)' = MachineOf(d) /\ TokenOf(d)' = TokenOf(d)
BY DEF MachineOf, TokenOf

\* The fleet is as full as it was, and the machines are claimed that were.
LEMMA SamePlaces ==
    ASSUME UNCHANGED <<runs, hosts, tenant>>
    PROVE  (Full' <=> Full) /\ \A d : Claimed(MachineOf(d))' <=> Claimed(MachineOf(d))
<1>1. UNCHANGED Active
  BY DEF Active
<1> QED BY <1>1, SameRequests DEF Full, Claimed

\* A refusal.
LEMMA TurnsDownKeeps ==
    ASSUME TypeOK, Story, NEW e \in Enrolments, TurnsDown(e), UNCHANGED runs
    PROVE  Story'
<1> USE DEF Story
<1>0. /\ e \in AtWork /\ Moved(e, "refused") /\ Reads /\ disturbed \subseteq disturbed'
      /\ \A d : MachineOf(d)' = MachineOf(d) /\ TokenOf(d)' = TokenOf(d)
      /\ (Full' <=> Full) /\ \A d : Claimed(MachineOf(d))' <=> Claimed(MachineOf(d))
  BY SameRequests, SamePlaces DEF TurnsDown, Reads
<1>1. HandlerFollowsRun'
  BY <1>0, RequestFields DEF HandlerFollowsRun, AtWork, Moved, Reads, At, None
<1>2. TokenNamesItsSpender'
  BY <1>0 DEF TokenNamesItsSpender, AtWork, Moved, Reads
<1>3. UndisturbedReadsHold'
  BY <1>0 DEF UndisturbedReadsHold, Moved, Reads
<1>4. SpentOnUse'
  BY <1>0 DEF SpentOnUse, Moved, Reads, At
<1>5. RefusalKeepsToken'
  <2>1. SUFFICES ASSUME e \notin disturbed', tokens[TokenOf(e)].consumedBy = e PROVE FALSE
    BY <1>0 DEF RefusalKeepsToken, Moved, Reads, At
  <2>2. TokenOf(e) \in Tokens
    BY <1>0, RequestFields DEF AtWork
  <2>3. At(e, "survive") \/ At(e, "create")
    BY <1>0, <2>1, <2>2 DEF TokenNamesItsSpender, AtWork, At
  <2>4. e \notin disturbed
    BY <1>0, <2>1
  <2> QED BY <2>1, <2>3, <2>4 DEF TurnsDown, UndisturbedReadsHold, At
<1>6. OneLiveHostPerMachine'
  BY <1>0 DEF OneLiveHostPerMachine, Active, Reads
<1> QED BY <1>1, <1>2, <1>3, <1>4, <1>5, <1>6

\* A read.
LEMMA GoesOnKeeps ==
    ASSUME TypeOK, Story, NEW e \in Enrolments, GoesOn(e), UNCHANGED runs
    PROVE  Story'
<1> USE DEF Story
<1>0. /\ Reads /\ UNCHANGED disturbed
      /\ \A d : MachineOf(d)' = MachineOf(d) /\ TokenOf(d)' = TokenOf(d)
      /\ (Full' <=> Full) /\ \A d : Claimed(MachineOf(d))' <=> Claimed(MachineOf(d))
  BY SameRequests, SamePlaces DEF GoesOn, Reads
<1>1. HandlerFollowsRun'
  BY <1>0 DEF HandlerFollowsRun, GoesOn, Moved, Reads, At, None
<1>2. TokenNamesItsSpender'
  BY <1>0 DEF TokenNamesItsSpender, GoesOn, Moved, Reads, At
<1>3. UndisturbedReadsHold'
  <2>1. SUFFICES ASSUME NEW d \in Enrolments \ disturbed PROVE UndisturbedReadsHold!(d)'
    BY <1>0 DEF UndisturbedReadsHold
  <2>2. CASE d # e
    BY <1>0, <2>2 DEF UndisturbedReadsHold, GoesOn, Moved, Reads
  <2>3. CASE d = e
    BY <1>0, <2>3 DEF HandlerFollowsRun, UndisturbedReadsHold, GoesOn, Moved, Reads, At
  <2> QED BY <2>2, <2>3
<1>4. SpentOnUse'
  BY <1>0 DEF SpentOnUse, GoesOn, Moved, Reads, At
<1>5. RefusalKeepsToken'
  BY <1>0 DEF RefusalKeepsToken, GoesOn, Moved, Reads, At
<1>6. OneLiveHostPerMachine'
  BY <1>0 DEF OneLiveHostPerMachine, Active, Reads
<1> QED BY <1>1, <1>2, <1>3, <1>4, <1>5, <1>6

\* The choice of a template.
LEMMA PicksKeeps ==
    ASSUME TypeOK, Story, NEW e \in Enrolments, Picks(e), UNCHANGED runs
    PROVE  Story'
<1> USE DEF Story
<1>0. /\ Reads /\ UNCHANGED disturbed
      /\ \A d : MachineOf(d)' = MachineOf(d) /\ TokenOf(d)' = TokenOf(d)
      /\ (Full' <=> Full) /\ \A d : Claimed(MachineOf(d))' <=> Claimed(MachineOf(d))
  BY SameRequests, SamePlaces DEF Picks, Reads
<1>1. HandlerFollowsRun'
  BY <1>0 DEF HandlerFollowsRun, Picks, Reads, At, None
<1>2. TokenNamesItsSpender'
  BY <1>0 DEF TokenNamesItsSpender, Picks, Reads, At
<1>3. UndisturbedReadsHold'
  BY <1>0 DEF UndisturbedReadsHold, Picks, Reads, At
<1>4. SpentOnUse'
  BY <1>0 DEF SpentOnUse, Picks, Reads, At
<1>5. RefusalKeepsToken'
  BY <1>0 DEF RefusalKeepsToken, Picks, Reads, At
<1>6. OneLiveHostPerMachine'
  BY <1>0 DEF OneLiveHostPerMachine, Active, Reads
<1> QED BY <1>1, <1>2, <1>3, <1>4, <1>5, <1>6

\* The redemption: the token was nobody's, and is the enrolment's from here on.
LEMMA SpendsKeeps ==
    ASSUME TypeOK, Story, NEW e \in Enrolments, Spends(e), UNCHANGED runs
    PROVE  Story'
<1> USE DEF Story
<1>0. /\ UNCHANGED <<templates, tenant, hosts>> /\ Moved(e, "survive") /\ At(e, "redeem")
      /\ disturbed \subseteq disturbed' /\ inUse \subseteq inUse'
      /\ \A d : MachineOf(d)' = MachineOf(d) /\ TokenOf(d)' = TokenOf(d)
      /\ (Full' <=> Full) /\ \A d : Claimed(MachineOf(d))' <=> Claimed(MachineOf(d))
  BY SameRequests, SamePlaces DEF Spends
<1>1. HandlerFollowsRun'
  BY <1>0 DEF HandlerFollowsRun, Moved, At, None
<1>2. TokenNamesItsSpender'
  <2>1. \A t \in Tokens, d \in Enrolments :
           tokens'[t].consumedBy = d => TokenOf(d) = t /\ handler'[d].at \in {"survive", "create", "enrolled", "refused"}
    BY <1>0 DEF TokenNamesItsSpender, Spends, Moved
  <2>2. ASSUME NEW d \in Enrolments, handler'[d].at \in {"survive", "create", "enrolled"}
        PROVE  tokens'[TokenOf(d)].consumedBy = d
    <3>1. CASE d = e
      BY <3>1 DEF Spends
    <3>2. CASE d # e
      <4>1. tokens[TokenOf(d)].consumedBy = d /\ handler[d].at # None
        BY <1>0, <2>2, <3>2 DEF Moved, TokenNamesItsSpender, None
      <4>2. TokenOf(d) \in Tokens
        BY <4>1, RequestFields
      <4>3. TokenOf(d) # TokenOf(e)
        BY <4>1, SituationAssumption DEF Spends, Usable
      <4> QED BY <4>1, <4>2, <4>3 DEF Spends
    <3> QED BY <3>1, <3>2
  <2> QED BY <1>0, <2>1, <2>2 DEF TokenNamesItsSpender
<1>3. UndisturbedReadsHold'
  <2>1. SUFFICES ASSUME NEW d \in Enrolments \ disturbed' PROVE UndisturbedReadsHold!(d)'
    BY DEF UndisturbedReadsHold
  <2>2. CASE d # e
    <3>1. handler'[d].at \in {None, "enrolled", "refused"}
      BY <1>0, <2>1, <2>2 DEF Spends, Moved, AtWork
    <3> QED BY <3>1 DEF None
  <2>3. CASE d = e
    BY <1>0, <2>1, <2>3 DEF UndisturbedReadsHold, Spends, Moved, At
  <2> QED BY <2>2, <2>3
<1>4. SpentOnUse'
  BY <1>0 DEF SpentOnUse, Spends, Moved, At
<1>5. RefusalKeepsToken'
  <2>1. SUFFICES ASSUME NEW d \in Enrolments, handler'[d].at = "refused", d \notin disturbed' 
                 PROVE  tokens'[TokenOf(d)].consumedBy # d
    BY <1>0 DEF RefusalKeepsToken, At
  <2>2. d # e /\ handler[d].at = "refused" /\ d \notin disturbed
    BY <1>0, <2>1 DEF Moved
  <2>3. TokenOf(d) \in Tokens /\ tokens[TokenOf(d)].consumedBy # d
    BY <2>2, RequestFields DEF RefusalKeepsToken, At, None
  <2> QED BY <2>2, <2>3 DEF Spends
<1>6. OneLiveHostPerMachine'
  BY <1>0 DEF OneLiveHostPerMachine, Active
<1> QED BY <1>1, <1>2, <1>3, <1>4, <1>5, <1>6

\* The host's row: the machine id was free, and the enrolment has the token it came with.
LEMMA JoinsKeeps ==
    ASSUME TypeOK, Story, NEW e \in Enrolments, Joins(e), UNCHANGED runs
    PROVE  Story'
<1> USE DEF Story
<1>0. /\ UNCHANGED <<tokens, templates, tenant, inUse>> /\ Moved(e, "enrolled") /\ At(e, "create")
      /\ disturbed \subseteq disturbed'
      /\ hosts'[e] = "live" /\ \A d \in Enrolments \ {e} : hosts'[d] = hosts[d]
      /\ \A d : MachineOf(d)' = MachineOf(d) /\ TokenOf(d)' = TokenOf(d)
  BY SameRequests DEF Joins, TypeOK
<1>1. HandlerFollowsRun'
  BY <1>0 DEF HandlerFollowsRun, Moved, At, None
<1>2. TokenNamesItsSpender'
  BY <1>0 DEF TokenNamesItsSpender, Moved, At
<1>3. UndisturbedReadsHold'
  <2>1. SUFFICES ASSUME NEW d \in Enrolments \ disturbed' PROVE UndisturbedReadsHold!(d)'
    BY DEF UndisturbedReadsHold
  <2>2. handler'[d].at \in {None, "enrolled", "refused"}
    BY <1>0, <2>1 DEF Joins, Moved, AtWork
  <2> QED BY <2>2 DEF None
<1>4. SpentOnUse'
  BY <1>0 DEF SpentOnUse, Moved, At
<1>5. RefusalKeepsToken'
  BY <1>0 DEF RefusalKeepsToken, Moved, At
<1>6. OneLiveHostPerMachine'
  <2>1. \A d \in Enrolments : hosts[d] = "live" /\ MachineOf(d) = MachineOf(e) => MachineOf(e) \in Anonymous
    BY DEF Joins, Claimed, Active
  <2> QED BY <1>0, <2>1 DEF OneLiveHostPerMachine, Active
<1> QED BY <1>1, <1>2, <1>3, <1>4, <1>5, <1>6

\* Every step of a handler keeps it.
LEMMA HandleStory ==
    ASSUME TypeOK, Story, NEW e \in Enrolments, Handle(e)
    PROVE  Story'
BY HandleKinds, TurnsDownKeeps, GoesOnKeeps, PicksKeeps, SpendsKeeps, JoinsKeeps DEF Story

-----------------------------------------------------------------------------
(* The control plane's side, kept by the operators *)

\* What an operator's step leaves alone: whoever spent a token, a host that is gone, and a template's claim to have
\* been in use. Whoever reads what it writes is disturbed.
OperatorStep ==
    /\ UNCHANGED <<handler, runs, disk, applied>>
    /\ \A t \in Tokens : tokens'[t].consumedBy = tokens[t].consumedBy
    /\ \A d \in Enrolments : hosts'[d] = hosts[d] \/ (hosts[d] # "none" /\ hosts'[d] \in {"revoked", "deleted"})
    /\ inUse \subseteq inUse'
    /\ \A e \in Enrolments :
          /\ handler[e].template # NoBootstrap /\ tokens[TokenOf(e)].consumedBy = e
          /\ templates[handler[e].template.name].archived
          /\ ~templates'[handler[e].template.name].archived
          => e \in inUse'
    /\ disturbed \subseteq disturbed'
    /\ UNCHANGED <<templates, tenant, hosts>> \/ AtWork \subseteq disturbed'

\* Another actor's write reaches every handler at work.
LEMMA DisturbsAll ==
    ASSUME Disturb(Enrolments)
    PROVE  disturbed \subseteq disturbed' /\ AtWork \subseteq disturbed'
BY DEF Disturb, AtWork

\* The operators' steps are of that kind.
LEMMA OperateKind ==
    ASSUME TypeOK, Operate
    PROVE  OperatorStep
<1>n. \A e \in Enrolments : handler[e].template # NoBootstrap => handler[e].template.name \in Names
  BY BootstrapNames DEF TypeOK
<1>1. CASE \/ \E t \in Tokens, b \in Names \cup {None} : CreateToken(t, b)
           \/ \E t \in Tokens, n \in Names, b \in Names \cup {None} : RenderTemplate(n, t, b)
           \/ \E n \in Names, k \in Keys \cup {None}, mints \in BOOLEAN : CreateTemplate(n, Version(k, mints))
  <2>1. UNCHANGED <<tokens, templates, tenant, hosts, handler, runs, disk, applied, disturbed, inUse>>
    BY <1>1 DEF CreateToken, RenderTemplate, CreateTemplate, rows, history
  <2> QED BY <2>1 DEF OperatorStep
<1>2. CASE Commit
  <2>0. UNCHANGED <<tenant, hosts, handler, runs, disk, applied, inUse>> /\ Disturb(Enrolments)
    BY <1>2 DEF Commit
  <2>1. CASE pending.op = "token" /\ UNCHANGED templates
             /\ tokens' = [tokens EXCEPT ![pending.token].state = "live", ![pending.token].bootstrap = pending.bootstrap]
    <3>1. pending \in [op : {"token"}, token : Tokens, bootstrap : Names \cup {None}]
      BY <1>2, <2>1 DEF Commit, TypeOK, Pending
    <3>2. ASSUME NEW t \in Tokens PROVE tokens'[t].consumedBy = tokens[t].consumedBy
      <4>1. tokens[t] \in Token /\ [tokens[t] EXCEPT !.state = "live"] \in Token
        BY TokenColumns DEF TypeOK
      <4>2. [[tokens[t] EXCEPT !.state = "live"] EXCEPT !.bootstrap = pending.bootstrap].consumedBy = tokens[t].consumedBy
        BY <3>1, <4>1, TokenColumns
      <4>3. CASE t = pending.token
        BY <2>1, <4>2, <4>3 DEF TypeOK
      <4>4. CASE t # pending.token
        BY <2>1, <4>4 DEF TypeOK
      <4> QED BY <4>3, <4>4
    <3> QED BY <2>0, <2>1, <3>2, DisturbsAll DEF OperatorStep
  <2>2. CASE pending.op = "template" /\ UNCHANGED tokens
             /\ templates' = [templates EXCEPT ![pending.name].version = pending.version,
                                               ![pending.name].renders = @ \/ pending.version.mints]
    <3>1. \A n \in Names : templates'[n].archived = templates[n].archived
      BY <2>2 DEF TypeOK, Template
    <3> QED BY <2>0, <2>2, <3>1, <1>n, DisturbsAll DEF OperatorStep
  <2> QED BY <1>2, <2>1, <2>2 DEF Commit
<1>3. ASSUME NEW n \in Names, ArchiveTemplate(n) PROVE OperatorStep
  <2>1. /\ UNCHANGED <<tokens, tenant, hosts, handler, runs, disk, applied, inUse>> /\ Disturb(Enrolments)
        /\ templates' = [templates EXCEPT ![n].archived = TRUE]
    BY <1>3 DEF ArchiveTemplate
  <2>2. \A k \in Names : templates[k].archived => templates'[k].archived
    BY <2>1 DEF TypeOK, Template
  <2> QED BY <2>1, <2>2, <1>n, DisturbsAll DEF OperatorStep
<1>4. ASSUME NEW n \in Names, RestoreTemplate(n) PROVE OperatorStep
  <2>1. /\ UNCHANGED <<tokens, tenant, hosts, handler, runs, disk, applied>> /\ Disturb(Enrolments)
        /\ templates' = [templates EXCEPT ![n].archived = FALSE]
        /\ inUse' = inUse \cup {e \in Enrolments : handler[e].template.name = n /\ tokens[TokenOf(e)].consumedBy = e}
    BY <1>4 DEF RestoreTemplate
  <2>2. \A k \in Names \ {n} : templates'[k].archived = templates[k].archived
    BY <2>1 DEF TypeOK, Template
  <2> QED BY <2>1, <2>2, <1>n, DisturbsAll DEF OperatorStep
<1>5. ASSUME NEW e \in Enrolments, NEW how \in {"revoked", "deleted"}, WithdrawHost(e, how) PROVE OperatorStep
  <2>1. /\ UNCHANGED <<tokens, templates, tenant, handler, runs, disk, applied, inUse>> /\ Disturb(Enrolments)
        /\ hosts[e] \in {"live", "revoked"} /\ hosts' = [hosts EXCEPT ![e] = how]
    BY <1>5 DEF WithdrawHost
  <2>2. \A d \in Enrolments : hosts'[d] = hosts[d] \/ (hosts[d] # "none" /\ hosts'[d] \in {"revoked", "deleted"})
    BY <2>1 DEF TypeOK
  <2> QED BY <2>1, <2>2, DisturbsAll DEF OperatorStep
<1>6. ASSUME NEW patched, UpdateTenant(patched) PROVE OperatorStep
  BY <1>6, DisturbsAll DEF UpdateTenant, OperatorStep
<1>7. ASSUME NEW t \in Tokens, ExpireToken(t) PROVE OperatorStep
  <2>1. /\ UNCHANGED <<templates, tenant, hosts, handler, runs, disk, applied, inUse>> /\ Disturb(Enrolments)
        /\ tokens' = [tokens EXCEPT ![t].state = "expired"]
    BY <1>7 DEF ExpireToken
  <2>2. \A u \in Tokens : tokens'[u].consumedBy = tokens[u].consumedBy
    BY <2>1 DEF TypeOK, Token
  <2> QED BY <2>1, <2>2, DisturbsAll DEF OperatorStep
<1> QED BY <1>1, <1>2, <1>3, <1>4, <1>5, <1>6, <1>7 DEF Operate

\* Every step of an operator keeps it.
LEMMA OperateStory ==
    ASSUME TypeOK, Story, Operate
    PROVE  Story'
<1> USE DEF Story
<1>0. /\ UNCHANGED <<handler, runs>>
      /\ \A t \in Tokens : tokens'[t].consumedBy = tokens[t].consumedBy
      /\ \A d \in Enrolments : hosts'[d] = hosts[d] \/ (hosts[d] # "none" /\ hosts'[d] \in {"revoked", "deleted"})
      /\ disturbed \subseteq disturbed' /\ inUse \subseteq inUse'
      /\ UNCHANGED <<templates, tenant, hosts>> \/ AtWork \subseteq disturbed'
      /\ \A d : MachineOf(d)' = MachineOf(d) /\ TokenOf(d)' = TokenOf(d)
  BY OperateKind, SameRequests DEF OperatorStep
<1>t. \A d \in Enrolments : handler[d].at # None => TokenOf(d) \in Tokens
  BY RequestFields
<1>1. HandlerFollowsRun'
  BY <1>0 DEF HandlerFollowsRun, At
<1>2. TokenNamesItsSpender'
  BY <1>0, <1>t DEF TokenNamesItsSpender, None
<1>3. UndisturbedReadsHold'
  <2>1. CASE AtWork \subseteq disturbed'
    <3>1. \A d \in Enrolments \ disturbed' : handler'[d].at \in {None, "enrolled", "refused"}
      BY <1>0, <2>1 DEF AtWork
    <3> QED BY <3>1 DEF UndisturbedReadsHold, None
  <2>2. CASE UNCHANGED <<templates, tenant, hosts>>
    <3>1. (Full' <=> Full) /\ \A d : Claimed(MachineOf(d))' <=> Claimed(MachineOf(d))
      BY <1>0, <2>2, SamePlaces
    <3> QED BY <1>0, <2>2, <3>1 DEF UndisturbedReadsHold
  <2> QED BY <1>0, <2>1, <2>2
<1>4. SpentOnUse'
  <2>1. ASSUME NEW e \in Enrolments, handler[e].template # NoBootstrap, At(e, "survive"), e \notin inUse'
        PROVE  templates'[handler[e].template.name].archived
    <3>1. tokens[TokenOf(e)].consumedBy = e /\ templates[handler[e].template.name].archived
      BY <1>0, <2>1 DEF TokenNamesItsSpender, SpentOnUse, At
    <3> QED BY <2>1, <3>1, OperateKind DEF OperatorStep
  <2> QED BY <1>0, <2>1 DEF SpentOnUse, At
<1>5. RefusalKeepsToken'
  BY <1>0, <1>t DEF RefusalKeepsToken, At, None
<1>6. OneLiveHostPerMachine'
  BY <1>0 DEF OneLiveHostPerMachine, Active
<1> QED BY <1>1, <1>2, <1>3, <1>4, <1>5, <1>6

-----------------------------------------------------------------------------
(* The control plane's side, kept by the machines *)

\* A step of a run other than its first, as the control plane sees it.
RunGoesOn ==
    /\ UNCHANGED <<tokens, templates, tenant, hosts, handler, disturbed, inUse>>
    /\ \A d \in Enrolments :
          /\ runs'[d].request = runs[d].request
          /\ runs'[d].at = "idle" <=> runs[d].at = "idle"
          /\ runs[d].at = "refused" => runs'[d].at = "refused"
          /\ runs'[d].at = "refused" => runs[d].at = "refused" \/ handler[d].at = "refused"

\* What a run does once its request is sent is nothing to the handlers.
LEMMA RunGoesOnKeeps ==
    ASSUME TypeOK, Story, RunGoesOn
    PROVE  Story'
<1> USE DEF Story
<1>0. /\ UNCHANGED <<tokens, templates, tenant, hosts, handler, disturbed, inUse>>
      /\ \A d \in Enrolments : MachineOf(d)' = MachineOf(d) /\ TokenOf(d)' = TokenOf(d)
  BY DEF RunGoesOn, MachineOf, TokenOf
<1>p. (Full' <=> Full) /\ \A d \in Enrolments : Claimed(MachineOf(d))' <=> Claimed(MachineOf(d))
  <2>1. UNCHANGED Active /\ Active \subseteq Enrolments
    BY <1>0 DEF Active
  <2> QED BY <1>0, <2>1 DEF Full, Claimed
<1>1. HandlerFollowsRun'
  BY <1>0 DEF RunGoesOn, HandlerFollowsRun, At
<1>2. TokenNamesItsSpender'
  BY <1>0 DEF TokenNamesItsSpender
<1>3. UndisturbedReadsHold'
  BY <1>0, <1>p DEF UndisturbedReadsHold
<1>4. SpentOnUse'
  BY <1>0 DEF SpentOnUse, At
<1>5. RefusalKeepsToken'
  BY <1>0 DEF RefusalKeepsToken, At
<1>6. OneLiveHostPerMachine'
  BY <1>0 DEF OneLiveHostPerMachine, Active
<1> QED BY <1>1, <1>2, <1>3, <1>4, <1>5, <1>6

\* What a run's first step does: its request is drawn up and sent, or refused on the spot.
Sets(e, m, t) ==
    /\ runs[e].at = "idle" /\ m \in Machines /\ t \in Tokens
    /\ runs'[e].at \in {"sent", "refused"} /\ runs'[e].request \in Request
    /\ runs'[e].request.machine = m /\ runs'[e].request.signers = disk'[m].anchor
    /\ handler'[e].at = (IF runs'[e].at = "sent" THEN "token" ELSE None)
    /\ handler'[e].template = handler[e].template
    /\ \A d \in Enrolments \ {e} : runs'[d] = runs[d] /\ handler'[d] = handler[d]
    /\ disk[m].anchor \subseteq disk'[m].anchor
    /\ disk'[m].credential = disk[m].credential /\ disk'[m].state = disk[m].state
    /\ disk'[m].record = disk[m].record /\ disk'[m].seed = disk[m].seed
    /\ \A x \in Machines \ {m} : disk'[x] = disk[x]
    /\ UNCHANGED <<tokens, templates, tenant, hosts, disturbed, inUse, applied>>

LEMMA StartKind ==
    ASSUME TypeOK, NEW e \in Enrolments, NEW m \in situation.machines, NEW t \in situation.tokens,
           NEW b \in situation.named, NEW file \in {{}} \cup {{k} : k \in Keys}, Start(e, m, t, b, file)
    PROVE  Sets(e, m, t)
<1> DEFINE anchor == IF disk[m].anchor = {} THEN file ELSE disk[m].anchor
           request == [machine |-> m, token |-> t, bootstrap |-> b, signers |-> anchor]
           at == IF b # None /\ (anchor = {} \/ disk[m].record # NoBootstrap) THEN "refused" ELSE "sent"
           run == [at |-> at, request |-> request, template |-> NoBootstrap, forged |-> FALSE]
<1>1. m \in Machines /\ t \in Tokens /\ b \in Names \cup {None}
  BY SituationAssumption DEF TypeOK
<1>2. disk[m] \in Disk /\ disk[m].anchor \subseteq anchor /\ anchor \in SUBSET Keys
  BY <1>1 DEF TypeOK, Disk
<1>3. request \in Request /\ request.machine = m /\ request.signers = anchor
  BY <1>1, <1>2 DEF Request
<1>4. at \in {"sent", "refused"} /\ run.at = at /\ run.request = request
  OBVIOUS
<1>5. /\ disk' = [disk EXCEPT ![m].anchor = anchor] /\ runs' = [runs EXCEPT ![e] = run]
      /\ handler' = [handler EXCEPT ![e].at = IF runs'[e].at = "sent" THEN "token" ELSE None]
      /\ runs[e].at = "idle"
      /\ UNCHANGED <<tokens, templates, tenant, hosts, disturbed, inUse, applied>>
  BY DEF Start, RunAt, rows, history
<1> HIDE DEF anchor, request, at, run
<1>6. runs'[e] = run /\ \A d \in Enrolments \ {e} : runs'[d] = runs[d]
  BY <1>5 DEF TypeOK
<1>7. /\ handler'[e].at = (IF runs'[e].at = "sent" THEN "token" ELSE None)
      /\ handler'[e].template = handler[e].template
      /\ \A d \in Enrolments \ {e} : handler'[d] = handler[d]
  BY <1>5 DEF TypeOK
<1>8. disk'[m] = [disk[m] EXCEPT !.anchor = anchor] /\ \A x \in Machines \ {m} : disk'[x] = disk[x]
  BY <1>1, <1>5 DEF TypeOK
<1>9. /\ disk'[m].anchor = anchor
      /\ disk'[m].credential = disk[m].credential /\ disk'[m].state = disk[m].state
      /\ disk'[m].record = disk[m].record /\ disk'[m].seed = disk[m].seed
  BY <1>2, <1>8 DEF Disk
<1> QED BY <1>1, <1>2, <1>3, <1>4, <1>5, <1>6, <1>7, <1>8, <1>9 DEF Sets

\* A run that starts is nobody's yet: it holds no token and no host.
LEMMA SetsKeeps ==
    ASSUME TypeOK, Story, NEW e \in Enrolments, NEW m, NEW t, Sets(e, m, t)
    PROVE  Story'
<1> USE DEF Story
<1>0. /\ UNCHANGED <<tokens, templates, tenant, hosts, disturbed, inUse>>
      /\ \A d \in Enrolments \ {e} : runs'[d] = runs[d] /\ handler'[d] = handler[d]
      /\ \A d \in Enrolments \ {e} : MachineOf(d)' = MachineOf(d) /\ TokenOf(d)' = TokenOf(d)
      /\ handler[e].at = None /\ handler'[e].at \in {"token", None} /\ hosts[e] = "none"
      /\ handler'[e].template = handler[e].template /\ handler[e].template = NoBootstrap
      /\ runs'[e].at \in {"sent", "refused"} /\ runs'[e].request \in Request
      /\ handler'[e].at = None => runs'[e].at = "refused"
      /\ runs'[e].at = "refused" => handler'[e].at = None
  <2>1. handler[e].at = None
    BY DEF Sets, HandlerFollowsRun, At
  <2>2. hosts[e] = "none" /\ handler[e].template = NoBootstrap
    BY <2>1 DEF HandlerFollowsRun, At, None
  <2> QED BY <2>1, <2>2 DEF Sets, MachineOf, TokenOf, None
<1>p. (Full' <=> Full) /\ \A d \in Enrolments \ {e} : Claimed(MachineOf(d))' <=> Claimed(MachineOf(d))
  <2>1. UNCHANGED Active /\ Active \subseteq Enrolments \ {e}
    BY <1>0 DEF Active
  <2> QED BY <1>0, <2>1 DEF Full, Claimed
<1>1. HandlerFollowsRun'
  BY <1>0 DEF HandlerFollowsRun, At, None
<1>2. TokenNamesItsSpender'
  BY <1>0 DEF TokenNamesItsSpender, None
<1>3. UndisturbedReadsHold'
  <2>1. SUFFICES ASSUME NEW d \in Enrolments \ disturbed' PROVE UndisturbedReadsHold!(d)'
    BY DEF UndisturbedReadsHold
  <2>2. CASE d # e
    BY <1>0, <1>p, <2>2 DEF UndisturbedReadsHold
  <2>3. CASE d = e
    BY <1>0, <2>3 DEF None
  <2> QED BY <2>2, <2>3
<1>4. SpentOnUse'
  BY <1>0 DEF SpentOnUse, At
<1>5. RefusalKeepsToken'
  BY <1>0 DEF RefusalKeepsToken, At, None
<1>6. OneLiveHostPerMachine'
  BY <1>0 DEF OneLiveHostPerMachine, Active
<1> QED BY <1>1, <1>2, <1>3, <1>4, <1>5, <1>6

\* Every step of a run keeps it.
LEMMA EnrolStory ==
    ASSUME TypeOK, Story, NEW e \in Enrolments, Enrol(e)
    PROVE  Story'
<1>1. ASSUME NEW m \in situation.machines, NEW t \in situation.tokens, NEW b \in situation.named,
             NEW file \in {{}} \cup {{k} : k \in Keys}, Start(e, m, t, b, file)
      PROVE  Story'
  BY <1>1, StartKind, SetsKeeps
<1>2. ASSUME NEW step \in RunSteps \ {"idle"}, Step(e, step), runs[e].at \notin {"idle", "refused"},
             step = "refused" => handler[e].at = "refused",
             UNCHANGED Server
      PROVE  Story'
  <2>1. RunGoesOn
    BY <1>2, StepType DEF RunGoesOn, Server, rows, history
  <2> QED BY <2>1, RunGoesOnKeeps
<1>s. \A step \in {"kept", "written", "saved", "done", "too late", "recorded", "seeded", "died", "refused"} :
         step \in RunSteps \ {"idle"}
  BY DEF RunSteps
<1>3. CASE Receive(e)
  <2>1. CASE At(e, "refused") /\ Step(e, "refused")
    BY <1>2, <1>3, <1>s, <2>1 DEF Receive, RunAt, At
  <2>2. ASSUME NEW b, runs' = [runs EXCEPT
                    ![e].at = IF runs[e].request.bootstrap = None \/ VerifyBootstrap(e, b) THEN "verified" ELSE "too late",
                    ![e].template = b,
                    ![e].forged = b # handler[e].template]
        PROVE  Story'
    <3> DEFINE at == IF runs[e].request.bootstrap = None \/ VerifyBootstrap(e, b) THEN "verified" ELSE "too late"
               forged == b # handler[e].template
    <3>0. at \in {"verified", "too late"}
      OBVIOUS
    <3>1. /\ runs'[e].request = runs[e].request /\ runs'[e].at \in {"verified", "too late"}
          /\ \A d \in Enrolments \ {e} : runs'[d] = runs[d]
      <4> HIDE DEF at, forged
      <4>1. runs' = [runs EXCEPT ![e].at = at, ![e].template = b, ![e].forged = forged]
        BY <2>2 DEF at, forged
      <4> QED BY <3>0, <4>1 DEF TypeOK
    <3>2. runs[e].at = "sent" /\ UNCHANGED <<tokens, templates, tenant, hosts, handler, disturbed, inUse>>
      BY <1>3 DEF Receive, RunAt, Server, rows, history
    <3>3. RunGoesOn
      BY <3>1, <3>2 DEF RunGoesOn
    <3> QED BY <3>3, RunGoesOnKeeps
  <2> QED BY <1>3, <2>1, <2>2 DEF Receive
<1>4. CASE SaveState(e)
  <2>1. CASE runs[e].request.bootstrap = None
    BY <1>2, <1>4, <1>s, <2>1 DEF SaveState, RunAt
  <2>2. CASE runs[e].request.bootstrap # None
    BY <1>2, <1>4, <1>s, <2>2 DEF SaveState, RunAt
  <2> QED BY <2>1, <2>2
<1>5. CASE KeepPrevious(e) \/ WriteCurrent(e) \/ RecordBootstrap(e) \/ WriteSeed(e) \/ RunCloudInit(e) \/ GiveUp(e)
  BY <1>2, <1>5, <1>s DEF KeepPrevious, WriteCurrent, RecordBootstrap, WriteSeed, RunCloudInit, GiveUp, RunAt
<1>6. CASE Interrupt(e)
  BY <1>2, <1>6, <1>s DEF Interrupt, Ended
<1> QED BY <1>1, <1>3, <1>4, <1>5, <1>6 DEF Enrol

\* A machine that goes down keeps it.
LEMMA RebootStory ==
    ASSUME TypeOK, Story, NEW m \in Machines, Reboot(m)
    PROVE  Story'
<1>1. \A e \in Enrolments : [runs[e] EXCEPT !.at = "died"].request = runs[e].request
                              /\ [runs[e] EXCEPT !.at = "died"].at = "died"
  BY DEF TypeOK
<1>2. RunGoesOn
  BY <1>1 DEF Reboot, RunGoesOn, Server, rows, history, Ended
<1> QED BY <1>2, RunGoesOnKeeps

-----------------------------------------------------------------------------
(* The machine's side *)

Boot == RunIsOnDisk /\ OneHolder

\* Nothing that a run relies on is taken off a machine's disk.
DiskGrows ==
    \A m \in Machines :
        /\ disk[m].anchor \subseteq disk'[m].anchor
        /\ disk[m].credential # None => disk'[m].credential # None
        /\ disk[m].state # None => disk'[m].state # None
        /\ disk[m].record # NoBootstrap => disk'[m].record # NoBootstrap

\* A run that does not move finds what it has done where it left it.
LEMMA RestsOnDisk ==
    ASSUME TypeOK, HandlerFollowsRun, RunIsOnDisk, DiskGrows, inUse \subseteq inUse',
           NEW d \in Enrolments, runs'[d] = runs[d]
    PROVE  RunIsOnDisk!(d)'
<1>1. MachineOf(d)' = MachineOf(d) /\ (Applicable(d) => Applicable(d)')
  BY DEF MachineOf, Applicable
<1>2. CASE runs[d].at = "idle"
  BY <1>2
<1>3. CASE runs[d].at # "idle"
  <2>1. MachineOf(d) \in Machines
    BY <1>3, RequestFields
  <2> QED BY <1>1, <2>1 DEF RunIsOnDisk, DiskGrows
<1> QED BY <1>2, <1>3

\* Where nobody new takes a machine's first boot in hand, whoever has it keeps it.
LEMMA HoldersStay ==
    ASSUME OneHolder, DiskGrows, inUse \subseteq inUse', NEW m \in Machines,
           Holders(m)' \subseteq Holders(m),
           \A d \in Holders(m) : /\ runs'[d].request = runs[d].request
                                 /\ runs'[d].template = runs[d].template
                                 /\ runs'[d].forged = runs[d].forged
                                 /\ runs'[d].at \in {"recorded", "seeded", "done", "died"}
    PROVE  OneHolder!(m)'
<1> SUFFICES ASSUME NEW d \in Holders(m)'
             PROVE  /\ Holders(m)' = {d}
                    /\ runs'[d].at \in {"recorded", "seeded", "done", "died"} /\ MachineOf(d)' = m /\ Applicable(d)'
                    /\ disk'[m].record # NoBootstrap /\ disk'[m].credential # None /\ disk'[m].state # None
  OBVIOUS
<1>1. d \in Holders(m)
  OBVIOUS
<1>2. /\ Holders(m) = {d} /\ MachineOf(d) = m /\ Applicable(d)
      /\ disk[m].record # NoBootstrap /\ disk[m].credential # None /\ disk[m].state # None
  BY <1>1 DEF OneHolder
<1>3. Holders(m)' = {d}
  BY <1>2
<1>4. MachineOf(d)' = m /\ Applicable(d)'
  BY <1>1, <1>2 DEF MachineOf, Applicable
<1> QED BY <1>1, <1>2, <1>3, <1>4 DEF DiskGrows

\* What the control plane does is nothing to the machines.
LEMMA ServerBoot ==
    ASSUME Boot, UNCHANGED <<runs, disk, applied>>, inUse \subseteq inUse'
    PROVE  Boot'
<1>1. \A d : MachineOf(d)' = MachineOf(d) /\ (Applicable(d) => Applicable(d)')
  BY DEF MachineOf, Applicable
<1>2. RunIsOnDisk'
  BY <1>1 DEF Boot, RunIsOnDisk
<1>3. \A m : Holders(m)' = Holders(m)
  BY <1>1 DEF Holders
<1>4. OneHolder'
  BY <1>1, <1>3 DEF Boot, OneHolder
<1> QED BY <1>2, <1>4 DEF Boot

\* A run short of its record has no machine's first boot in hand, and does not take it.
LEMMA ShortOfRecord ==
    ASSUME TypeOK, OneHolder, DiskGrows, inUse \subseteq inUse', NEW e \in Enrolments,
           UNCHANGED applied, \A m \in Machines : disk'[m].seed = disk[m].seed,
           \A d \in Enrolments \ {e} : runs'[d] = runs[d],
           runs[e].at \notin {"recorded", "seeded", "done", "died"}, runs'[e].at \notin {"recorded", "seeded"}
    PROVE  OneHolder'
<1> SUFFICES ASSUME NEW m \in Machines PROVE OneHolder!(m)'
  BY DEF OneHolder
<1>1. e \notin Holders(m) /\ Holders(m) \subseteq Enrolments
  <2>1. disk[m].seed \in Enrolments \cup {None} /\ applied[m] \subseteq Enrolments
    BY DEF TypeOK, Disk
  <2> QED BY <2>1 DEF OneHolder, Holders
<1>2. Holders(m)' \subseteq Holders(m)
  BY <1>1 DEF Holders, MachineOf
<1>3. \A d \in Holders(m) : runs'[d] = runs[d] /\ runs[d].at \in {"recorded", "seeded", "done", "died"}
  BY <1>1 DEF OneHolder
<1> QED BY <1>2, <1>3, HoldersStay

\* A run that starts.
LEMMA SetsBoot ==
    ASSUME TypeOK, HandlerFollowsRun, Boot, NEW e \in Enrolments, NEW m, NEW t, Sets(e, m, t)
    PROVE  Boot'
<1> USE DEF Boot
<1>1. DiskGrows
  BY DEF Sets, DiskGrows
<1>2. OneHolder'
  <2>1. \A x \in Machines : disk'[x].seed = disk[x].seed
    BY DEF Sets
  <2> QED BY <1>1, <2>1, ShortOfRecord DEF Sets
<1>3. RunIsOnDisk!(e)'
  BY DEF Sets, MachineOf
<1>4. RunIsOnDisk'
  BY <1>1, <1>3, RestsOnDisk DEF Sets, RunIsOnDisk
<1> QED BY <1>2, <1>4

\* The answer: a template that is verified may be applied, and one from this control plane was in use.
LEMMA ReceiveBoot ==
    ASSUME TypeOK, Story, Boot, NEW e \in Enrolments, Receive(e)
    PROVE  Boot'
<1> USE DEF Boot, Story
<1>0. /\ runs[e].at = "sent" /\ UNCHANGED <<disk, applied, inUse>> /\ DiskGrows
      /\ runs[e].request.signers \subseteq disk[MachineOf(e)].anchor
  BY DEF Receive, RunAt, Server, history, DiskGrows, RunIsOnDisk
<1>1. CASE Step(e, "refused")
  <2>1. /\ runs'[e].at = "refused" /\ runs'[e].request = runs[e].request
        /\ \A d \in Enrolments \ {e} : runs'[d] = runs[d]
    BY <1>1, StepType DEF RunSteps
  <2>2. OneHolder'
    BY <1>0, <2>1, ShortOfRecord
  <2>3. RunIsOnDisk!(e)'
    BY <1>0, <2>1 DEF MachineOf
  <2> QED BY <1>0, <2>1, <2>2, <2>3, RestsOnDisk DEF RunIsOnDisk
<1>2. ASSUME NEW b, At(e, "enrolled") \/ b # handler[e].template,
             runs' = [runs EXCEPT
                 ![e].at = IF runs[e].request.bootstrap = None \/ VerifyBootstrap(e, b) THEN "verified" ELSE "too late",
                 ![e].template = b,
                 ![e].forged = b # handler[e].template]
      PROVE  Boot'
  <2> DEFINE verified == runs[e].request.bootstrap = None \/ VerifyBootstrap(e, b)
             at == IF verified THEN "verified" ELSE "too late"
             forged == b # handler[e].template
  <2>0. at \in {"verified", "too late"} /\ (at = "verified" => verified)
    OBVIOUS
  <2>1. /\ runs'[e].at = at /\ runs'[e].request = runs[e].request
        /\ runs'[e].template = b /\ runs'[e].forged = forged
        /\ \A d \in Enrolments \ {e} : runs'[d] = runs[d]
    <3> HIDE DEF at, forged, verified
    <3>1. runs' = [runs EXCEPT ![e].at = at, ![e].template = b, ![e].forged = forged]
      BY <1>2 DEF at, forged, verified
    <3>2. runs[e] \in [at : RunSteps, request : Request \cup {NotAsked},
                       template : Bootstrap \cup {NoBootstrap}, forged : BOOLEAN]
      BY DEF TypeOK
    <3>3. runs'[e] = [runs[e] EXCEPT !.at = at, !.template = b, !.forged = forged]
      BY <3>1 DEF TypeOK
    <3> QED BY <3>1, <3>2, <3>3 DEF TypeOK
  <2>2. OneHolder'
    BY <1>0, <2>0, <2>1, ShortOfRecord
  <2>3. ASSUME at = "verified" PROVE runs[e].request.bootstrap = None \/ Applicable(e)'
    <3>1. SUFFICES ASSUME VerifyBootstrap(e, b), runs[e].request.bootstrap # None PROVE Applicable(e)'
      BY <2>0, <2>3
    <3>2. ASSUME ~forged PROVE e \in inUse'
      <4>1. b = handler[e].template /\ At(e, "enrolled")
        BY <1>2, <3>2
      <4>2. handler[e].template # NoBootstrap
        BY <3>1, <4>1, BootstrapNames DEF VerifyBootstrap
      <4> QED BY <1>0, <4>1, <4>2 DEF SpentOnUse, At
    <3> QED BY <2>1, <3>1, <3>2 DEF Applicable, VerifyBootstrap
  <2>4. RunIsOnDisk!(e)'
    <3> HIDE DEF at
    <3> QED BY <1>0, <2>0, <2>1, <2>3 DEF MachineOf
  <2> QED BY <1>0, <2>1, <2>2, <2>4, RestsOnDisk DEF RunIsOnDisk
<1> QED BY <1>1, <1>2 DEF Receive

\* A run moves on, the others stay where they are.
Advances(e, step) ==
    /\ runs'[e].at = step
    /\ runs'[e].request = runs[e].request /\ runs'[e].template = runs[e].template /\ runs'[e].forged = runs[e].forged
    /\ \A d \in Enrolments \ {e} : runs'[d] = runs[d]

\* A file is written whole.
Writes(m, d) == disk'[m] = d /\ \A x \in Machines \ {m} : disk'[x] = disk[x]

LEMMA AdvancesTo ==
    ASSUME TypeOK, NEW e \in Enrolments, NEW step \in RunSteps, Step(e, step)
    PROVE  Advances(e, step)
BY StepType DEF Advances

LEMMA WritesFile ==
    ASSUME TypeOK, NEW m \in Machines, NEW d, disk' = [disk EXCEPT ![m] = d]
    PROVE  Writes(m, d)
BY DEF TypeOK, Writes

\* The credential and the state, in the order in which they are written.
LEMMA SavesBoot ==
    ASSUME TypeOK, HandlerFollowsRun, Boot, NEW e \in Enrolments, KeepPrevious(e) \/ WriteCurrent(e) \/ SaveState(e)
    PROVE  Boot'
<1> USE DEF Boot
<1> DEFINE m == MachineOf(e)
           d == disk[MachineOf(e)]
<1>0. /\ m \in Machines /\ d \in Disk /\ UNCHANGED <<applied, inUse>>
      /\ runs[e].at \in {"verified", "kept", "written"}
      /\ runs[e].request.signers \subseteq d.anchor
      /\ runs[e].request.bootstrap = None \/ Applicable(e)
      /\ e # None
  <2>1. runs[e].at \in {"verified", "kept", "written"} /\ UNCHANGED <<applied, inUse>>
    BY DEF KeepPrevious, WriteCurrent, SaveState, RunAt, Server, history
  <2>2. m \in Machines
    BY <2>1, RequestFields
  <2> QED BY <2>1, <2>2, SituationAssumption DEF RunIsOnDisk, TypeOK
<1>s. \A step \in {"kept", "written", "done", "saved"} : step \in RunSteps
  BY DEF RunSteps
<1>1. CASE KeepPrevious(e)
  <2> DEFINE p == IF d.credential = None THEN d.previous ELSE d.credential
             w == [d EXCEPT !.previous = p]
  <2>1. /\ w.anchor = d.anchor /\ w.credential = d.credential /\ w.state = d.state
        /\ w.record = d.record /\ w.seed = d.seed
    BY <1>0 DEF Disk
  <2>2. runs[e].at = "verified" /\ Advances(e, "kept")
    BY <1>1, <1>s, AdvancesTo DEF KeepPrevious, RunAt
  <2>3. Writes(m, w)
    BY <1>0, <1>1, WritesFile DEF KeepPrevious
  <2> HIDE DEF w
  <2>4. DiskGrows /\ \A x \in Machines : disk'[x].seed = disk[x].seed
    BY <2>1, <2>3 DEF Writes, DiskGrows
  <2>5. OneHolder'
    BY <1>0, <2>2, <2>4, ShortOfRecord DEF Advances
  <2>6. RunIsOnDisk!(e)'
    BY <1>0, <2>1, <2>2, <2>3 DEF Advances, Writes, MachineOf, Applicable
  <2> QED BY <1>0, <2>2, <2>4, <2>5, <2>6, RestsOnDisk DEF RunIsOnDisk, Advances
<1>2. CASE WriteCurrent(e)
  <2> DEFINE w == [d EXCEPT !.credential = e]
  <2>1. /\ w.anchor = d.anchor /\ w.credential = e /\ w.state = d.state
        /\ w.record = d.record /\ w.seed = d.seed
    BY <1>0 DEF Disk
  <2>2. runs[e].at = "kept" /\ Advances(e, "written")
    BY <1>2, <1>s, AdvancesTo DEF WriteCurrent, RunAt
  <2>3. Writes(m, w)
    BY <1>0, <1>2, WritesFile DEF WriteCurrent
  <2> HIDE DEF w
  <2>4. DiskGrows /\ \A x \in Machines : disk'[x].seed = disk[x].seed
    BY <1>0, <2>1, <2>3 DEF Writes, DiskGrows
  <2>5. OneHolder'
    BY <1>0, <2>2, <2>4, ShortOfRecord DEF Advances
  <2>6. RunIsOnDisk!(e)'
    BY <1>0, <2>1, <2>2, <2>3 DEF Advances, Writes, MachineOf, Applicable
  <2> QED BY <1>0, <2>2, <2>4, <2>5, <2>6, RestsOnDisk DEF RunIsOnDisk, Advances
<1>3. CASE SaveState(e)
  <2> DEFINE w == [d EXCEPT !.state = e]
             step == IF runs[e].request.bootstrap = None THEN "done" ELSE "saved"
  <2>1. /\ w.anchor = d.anchor /\ w.credential = d.credential /\ w.state = e
        /\ w.record = d.record /\ w.seed = d.seed
    BY <1>0 DEF Disk
  <2>2. /\ runs[e].at = "written" /\ Advances(e, step) /\ step \in {"done", "saved"}
        /\ step = "saved" => runs[e].request.bootstrap # None
        /\ d.credential # None
    <3>1. step \in RunSteps
      BY <1>s
    <3> QED BY <1>3, <3>1, AdvancesTo DEF SaveState, RunAt, RunIsOnDisk
  <2>3. Writes(m, w)
    BY <1>0, <1>3, WritesFile DEF SaveState
  <2> HIDE DEF w, step
  <2>4. DiskGrows /\ \A x \in Machines : disk'[x].seed = disk[x].seed
    BY <1>0, <2>1, <2>3 DEF Writes, DiskGrows
  <2>5. OneHolder'
    BY <1>0, <2>2, <2>4, ShortOfRecord DEF Advances
  <2>6. RunIsOnDisk!(e)'
    BY <1>0, <2>1, <2>2, <2>3 DEF Advances, Writes, MachineOf, Applicable
  <2> QED BY <1>0, <2>2, <2>4, <2>5, <2>6, RestsOnDisk DEF RunIsOnDisk, Advances
<1> QED BY <1>1, <1>2, <1>3

\* The record: it is written where there was none, so that nobody has the machine's first boot in hand yet.
LEMMA RecordBoot ==
    ASSUME TypeOK, HandlerFollowsRun, Boot, NEW e \in Enrolments, RecordBootstrap(e)
    PROVE  Boot'
<1> USE DEF Boot
<1> DEFINE m == MachineOf(e)
           d == disk[MachineOf(e)]
<1>0. /\ m \in Machines /\ d \in Disk /\ UNCHANGED <<applied, inUse>>
      /\ runs[e].at = "saved" /\ runs[e].request.signers \subseteq d.anchor
      /\ Applicable(e) /\ d.state # None /\ d.credential # None
  <2>1. runs[e].at = "saved" /\ UNCHANGED <<applied, inUse>>
    BY DEF RecordBootstrap, RunAt, Server, history
  <2>2. m \in Machines
    BY <2>1, RequestFields
  <2> QED BY <2>1, <2>2 DEF RunIsOnDisk, TypeOK
<1>1. CASE Step(e, "too late") /\ UNCHANGED disk
  <2>1. Advances(e, "too late")
    BY <1>1, AdvancesTo DEF RunSteps
  <2>2. DiskGrows
    BY <1>1 DEF DiskGrows
  <2>3. OneHolder'
    BY <1>0, <1>1, <2>1, <2>2, ShortOfRecord DEF Advances
  <2>4. RunIsOnDisk!(e)'
    BY <1>0, <1>1, <2>1 DEF Advances, MachineOf
  <2> QED BY <1>0, <2>1, <2>2, <2>3, <2>4, RestsOnDisk DEF RunIsOnDisk, Advances
<1>2. CASE /\ d.record = NoBootstrap /\ Step(e, "recorded")
           /\ disk' = [disk EXCEPT ![m].record = runs[e].template]
  <2> DEFINE w == [d EXCEPT !.record = runs[e].template]
  <2>1. /\ w.anchor = d.anchor /\ w.credential = d.credential /\ w.state = d.state
        /\ w.record = runs[e].template /\ w.seed = d.seed
    BY <1>0 DEF Disk
  <2>2. Advances(e, "recorded")
    BY <1>2, AdvancesTo DEF RunSteps
  <2>3. Writes(m, w)
    BY <1>0, <1>2, WritesFile
  <2> HIDE DEF w
  <2>n. runs[e].template # NoBootstrap
    BY <1>0, BootstrapNames DEF Applicable
  <2>4. DiskGrows /\ \A x \in Machines : disk'[x].seed = disk[x].seed
    BY <2>n, <2>1, <2>3 DEF Writes, DiskGrows
  <2>a. \A c \in Enrolments : MachineOf(c)' = MachineOf(c)
    BY <2>2 DEF Advances, MachineOf
  <2>5. Applicable(e)' /\ RunIsOnDisk!(e)'
    BY <1>0, <2>a, <2>1, <2>2, <2>3 DEF Advances, Writes, Applicable
  <2>6. OneHolder'
    <3>1. ASSUME NEW x \in Machines \ {m} PROVE OneHolder!(x)'
      <4>1. Holders(x)' = Holders(x) /\ e \notin Holders(x)
        BY <1>0, <2>a, <2>2, <2>4 DEF Advances, Holders, OneHolder
      <4>2. Holders(x) \subseteq Enrolments
        BY DEF Holders, TypeOK, Disk
      <4>3. \A c \in Holders(x) : runs'[c] = runs[c] /\ runs[c].at \in {"recorded", "seeded", "done", "died"}
        BY <2>2, <4>1, <4>2 DEF Advances, OneHolder
      <4> QED BY <1>0, <2>4, <4>1, <4>3, HoldersStay
    <3>2. ASSUME NEW x \in Machines, x = m PROVE OneHolder!(x)'
      <4>1. Holders(x) = {}
        BY <1>0, <1>2, <3>2 DEF OneHolder
      <4>2. Holders(x)' = Holders(x) \cup {e}
        BY <1>0, <2>a, <2>2, <2>4, <3>2 DEF Advances, Holders
      <4>3. Holders(x)' = {e} /\ runs'[e].at = "recorded" /\ MachineOf(e)' = x
        BY <4>1, <4>2, <2>2, <2>a, <3>2 DEF Advances
      <4>4. disk'[x].record # NoBootstrap /\ disk'[x].credential # None /\ disk'[x].state # None
        BY <1>0, <2>n, <2>1, <2>3, <3>2 DEF Writes
      <4> QED BY <2>5, <4>3, <4>4
    <3> QED BY <3>1, <3>2 DEF OneHolder
  <2> QED BY <1>0, <2>2, <2>4, <2>5, <2>6, RestsOnDisk DEF RunIsOnDisk, Advances
<1> QED BY <1>1, <1>2 DEF RecordBootstrap

\* The seed, and the template itself: by the one run that has the first boot in hand.
LEMMA AppliesBoot ==
    ASSUME TypeOK, HandlerFollowsRun, Boot, NEW e \in Enrolments, WriteSeed(e) \/ RunCloudInit(e)
    PROVE  Boot'
<1> USE DEF Boot
<1> DEFINE m == MachineOf(e)
           d == disk[MachineOf(e)]
           seed == IF runs[e].at = "recorded" THEN e ELSE None
           step == IF runs[e].at = "recorded" THEN "seeded" ELSE "done"
           w == [d EXCEPT !.seed = seed]
<1>0. /\ m \in Machines /\ d \in Disk /\ UNCHANGED inUse
      /\ runs[e].at \in {"recorded", "seeded"} /\ runs[e].request.signers \subseteq d.anchor
      /\ Applicable(e) /\ d.state # None /\ d.credential # None
      /\ applied' = applied \/ applied' = [applied EXCEPT ![m] = @ \cup {e}]
  <2>1. runs[e].at \in {"recorded", "seeded"} /\ UNCHANGED inUse
        /\ (applied' = applied \/ applied' = [applied EXCEPT ![m] = @ \cup {e}])
    BY DEF WriteSeed, RunCloudInit, RunAt, Server, history
  <2>2. m \in Machines
    BY <2>1, RequestFields
  <2> QED BY <2>1, <2>2 DEF RunIsOnDisk, TypeOK
<1>1. Holders(m) = {e}
  <2>1. e \in Holders(m)
    BY <1>0 DEF Holders
  <2> QED BY <1>0, <2>1 DEF OneHolder
<1>2. Advances(e, step) /\ step \in {"seeded", "done"} /\ disk' = [disk EXCEPT ![m] = w]
  <2>1. "seeded" \in RunSteps /\ "done" \in RunSteps
    BY DEF RunSteps
  <2>2. CASE WriteSeed(e)
    BY <2>1, <2>2, AdvancesTo DEF WriteSeed, RunAt
  <2>3. CASE RunCloudInit(e)
    BY <2>1, <2>3, AdvancesTo DEF RunCloudInit, RunAt
  <2> QED BY <2>2, <2>3
<1>3. seed \in {e, None}
  OBVIOUS
<1>4. /\ w.anchor = d.anchor /\ w.credential = d.credential /\ w.state = d.state
      /\ w.record = d.record /\ w.seed = seed
  BY <1>0 DEF Disk
<1> HIDE DEF w, seed, step
<1>5. Writes(m, w)
  BY <1>0, <1>2, WritesFile
<1>6. DiskGrows
  BY <1>4, <1>5 DEF Writes, DiskGrows
<1>7. \A c \in Enrolments : MachineOf(c)' = MachineOf(c)
  BY <1>2 DEF Advances, MachineOf
<1>8. RunIsOnDisk!(e)'
  BY <1>0, <1>2, <1>4, <1>5, <1>7 DEF Advances, Writes, Applicable
<1>9. ASSUME NEW x \in Machines PROVE OneHolder!(x)'
  <2>1. Holders(x)' \subseteq Holders(x)
    <3>1. CASE x = m
      <4>1. disk'[x].seed \in {e, None}
        BY <3>1, <1>3, <1>4, <1>5 DEF Writes
      <4>2. applied'[x] \subseteq applied[x] \cup {e}
        BY <3>1, <1>0 DEF TypeOK
      <4>3. \A c \in Enrolments \ {e} : runs'[c].at = runs[c].at
        BY <1>2 DEF Advances
      <4>4. Holders(x)' \subseteq Holders(x) \cup {e}
        BY <1>7, <4>1, <4>2, <4>3 DEF Holders
      <4> QED BY <3>1, <4>4, <1>1
    <3>2. CASE x # m
      BY <1>0, <1>2, <1>5, <1>7, <3>2 DEF Advances, Writes, Holders, TypeOK
    <3> QED BY <3>1, <3>2
  <2>2. Holders(x) \subseteq Enrolments
    BY DEF Holders, TypeOK, Disk
  <2>3. \A c \in Holders(x) : /\ runs'[c].request = runs[c].request
                              /\ runs'[c].template = runs[c].template
                              /\ runs'[c].forged = runs[c].forged
                              /\ runs'[c].at \in {"recorded", "seeded", "done", "died"}
    BY <1>2, <2>2 DEF Advances, OneHolder
  <2> QED BY <1>0, <1>6, <2>1, <2>3, HoldersStay
<1> QED BY <1>0, <1>2, <1>6, <1>8, <1>9, RestsOnDisk DEF RunIsOnDisk, OneHolder, Advances

\* A run that gives up or is cut off, and a machine that goes down.
LEMMA StopsBoot ==
    ASSUME TypeOK, HandlerFollowsRun, Boot,
           \/ \E e \in Enrolments : GiveUp(e) \/ Interrupt(e)
           \/ \E m \in Machines : Reboot(m)
    PROVE  Boot'
<1> USE DEF Boot
<1>1. \A c \in Enrolments :
         /\ runs'[c].request = runs[c].request /\ runs'[c].template = runs[c].template
         /\ runs'[c].forged = runs[c].forged
         /\ \/ runs'[c].at = runs[c].at
            \/ runs'[c].at = "died" /\ runs[c].at # "idle"
            \/ runs'[c].at = "too late" /\ runs[c].at = "sent"
  <2>1. CASE \E e \in Enrolments : GiveUp(e) \/ Interrupt(e)
    <3>1. PICK e \in Enrolments : GiveUp(e) \/ Interrupt(e)
      BY <2>1
    <3>2. CASE GiveUp(e)
      <4>1. Advances(e, "too late") /\ runs[e].at = "sent"
        BY <3>2, AdvancesTo DEF GiveUp, RunAt, RunSteps
      <4> QED BY <4>1 DEF Advances
    <3>3. CASE Interrupt(e)
      <4>1. Advances(e, "died") /\ runs[e].at # "idle"
        BY <3>3, AdvancesTo DEF Interrupt, Ended, RunSteps
      <4> QED BY <4>1 DEF Advances
    <3> QED BY <3>1, <3>2, <3>3
  <2>2. CASE \E m \in Machines : Reboot(m)
    <3>1. ASSUME NEW c \in Enrolments
          PROVE  /\ [runs[c] EXCEPT !.at = "died"].at = "died"
                 /\ [runs[c] EXCEPT !.at = "died"].request = runs[c].request
                 /\ [runs[c] EXCEPT !.at = "died"].template = runs[c].template
                 /\ [runs[c] EXCEPT !.at = "died"].forged = runs[c].forged
      BY DEF TypeOK
    <3> QED BY <2>2, <3>1 DEF Reboot, Ended
  <2> QED BY <2>1, <2>2
<1>2. UNCHANGED <<disk, inUse>> /\ DiskGrows
  BY DEF GiveUp, Interrupt, Reboot, Server, history, DiskGrows
<1>3. \A c \in Enrolments : MachineOf(c)' = MachineOf(c) /\ (Applicable(c) => Applicable(c)')
  BY <1>1, <1>2 DEF MachineOf, Applicable
<1>4. RunIsOnDisk'
  BY <1>1, <1>2, <1>3 DEF RunIsOnDisk
<1>5. ASSUME NEW m \in Machines PROVE OneHolder!(m)'
  <2>1. \/ applied'[m] = applied[m]
        \/ applied'[m] = applied[m] \cup ({disk[m].seed} \ {None})
    BY DEF GiveUp, Interrupt, Reboot, TypeOK
  <2>2. Holders(m)' \subseteq Holders(m) /\ Holders(m) \subseteq Enrolments
    <3>1. Holders(m) \subseteq Enrolments
      BY DEF Holders, TypeOK, Disk
    <3>2. Holders(m)' \subseteq Holders(m)
      BY <1>1, <1>2, <1>3, <2>1 DEF Holders
    <3> QED BY <3>1, <3>2
  <2>3. \A c \in Holders(m) : /\ runs'[c].request = runs[c].request
                              /\ runs'[c].template = runs[c].template
                              /\ runs'[c].forged = runs[c].forged
                              /\ runs'[c].at \in {"recorded", "seeded", "done", "died"}
    BY <1>1, <2>2 DEF OneHolder
  <2> QED BY <1>2, <2>2, <2>3, HoldersStay
<1> QED BY <1>4, <1>5 DEF OneHolder

-----------------------------------------------------------------------------
(* What every state keeps *)

\* The part that is inductive as it stands.
Core == TypeOK /\ Story /\ Boot

\* A fleet nobody has enrolled in yet.
LEMMA InitCore == Init => Core
<1> SUFFICES ASSUME Init PROVE Core
  OBVIOUS
<1>1. /\ situation \in Situations
      /\ situation.named \subseteq Names \cup {None} /\ situation.limits \subseteq HostLimits \cup {NoLimit}
  BY SituationAssumption DEF Init
<1>2. TypeOK
  <2>1. \A k \in Keys : Version(k, FALSE) \in Versions
    BY DEF Version, Versions
  <2>2. NoVersion \in Versions
    BY DEF Versions
  <2>3. templates \in [Names -> Template]
    <3>1. PICK k \in Keys :
             templates \in [Names -> IF situation.named = {None}
                                    THEN {[version |-> NoVersion, archived |-> FALSE, renders |-> FALSE]}
                                    ELSE {[version |-> Version(k, FALSE), archived |-> FALSE, renders |-> FALSE]}]
      BY DEF Init
    <3>2. /\ [version |-> NoVersion, archived |-> FALSE, renders |-> FALSE] \in Template
          /\ [version |-> Version(k, FALSE), archived |-> FALSE, renders |-> FALSE] \in Template
      BY <2>1, <2>2 DEF Template
    <3> QED BY <3>1, <3>2
  <2>4. tokens \in [Tokens -> Token]
    <3>1. [state : {"live"}, bootstrap : situation.named, consumedBy : {None}] \subseteq Token
      BY <1>1 DEF Token
    <3>2. [state |-> "none", bootstrap |-> None, consumedBy |-> None] \in Token
      BY DEF Token
    <3> QED BY <3>1, <3>2 DEF Init
  <2>5. tenant \in [suspended : BOOLEAN, limit : HostLimits \cup {NoLimit}]
    BY <1>1 DEF Init
  <2>6. disk \in [Machines -> Disk]
    BY DEF Init, Disk
  <2>7. runs \in [Enrolments -> [at : RunSteps, request : Request \cup {NotAsked},
                                template : Bootstrap \cup {NoBootstrap}, forged : BOOLEAN]]
    BY DEF Init, RunSteps
  <2>8. acts \in 0 .. MaxActs /\ faults \in 0 .. MaxFaults
    BY EnrolmentAssumption DEF Init
  <2> QED BY <1>1, <2>3, <2>4, <2>5, <2>6, <2>7, <2>8 DEF TypeOK, Init, Pending
<1>3. \A e \in Enrolments : /\ handler[e].at = None /\ handler[e].template = NoBootstrap
                            /\ runs[e].at = "idle" /\ hosts[e] = "none"
  BY DEF Init
<1>4. Story
  <2>1. \A t \in Tokens : tokens[t].consumedBy = None
    BY DEF Init
  <2>2. None \notin Enrolments
    BY SituationAssumption
  <2>3. HandlerFollowsRun
    BY <1>3 DEF HandlerFollowsRun, At, None
  <2>4. TokenNamesItsSpender
    BY <1>3, <2>1, <2>2 DEF TokenNamesItsSpender, None
  <2>5. UndisturbedReadsHold
    BY <1>3 DEF UndisturbedReadsHold, None
  <2> QED BY <1>3, <2>3, <2>4, <2>5 DEF Story, SpentOnUse, RefusalKeepsToken, OneLiveHostPerMachine, Active, At, None
<1>5. Boot
  <2>1. \A m \in Machines : Holders(m) = {}
    BY <1>3 DEF Init, Holders
  <2> QED BY <1>3, <2>1 DEF Boot, RunIsOnDisk, OneHolder
<1> QED BY <1>2, <1>4, <1>5 DEF Core

\* A step that changes nothing.
LEMMA StutterCore ==
    ASSUME Core, UNCHANGED vars
    PROVE  Core'
<1> USE DEF Core, vars, rows, history
<1>1. TypeOK'
  BY DEF TypeOK
<1>2. RunGoesOn
  BY DEF RunGoesOn
<1> QED BY <1>1, <1>2, RunGoesOnKeeps, ServerBoot

LEMMA NextCore ==
    ASSUME Core, [Next]_vars
    PROVE  Core'
<1> USE DEF Core
<1>h. HandlerFollowsRun
  BY DEF Story
<1>1. ASSUME NEW e \in Enrolments, Handle(e) PROVE Core'
  <2>1. inUse \subseteq inUse' /\ UNCHANGED <<runs, disk, applied>>
    BY <1>1, <1>h, HandleKinds DEF TurnsDown, GoesOn, Picks, Spends, Joins, Reads
  <2> QED BY <1>1, <1>h, <2>1, HandleType, HandleStory, ServerBoot
<1>2. ASSUME NEW e \in Enrolments, Enrol(e) PROVE Core'
  <2>1. Boot'
    <3>1. ASSUME NEW m \in situation.machines, NEW t \in situation.tokens, NEW b \in situation.named,
                 NEW file \in {{}} \cup {{k} : k \in Keys}, Start(e, m, t, b, file)
          PROVE  Boot'
      BY <1>h, <3>1, StartKind, SetsBoot
    <3> QED BY <1>2, <1>h, <3>1, ReceiveBoot, SavesBoot, RecordBoot, AppliesBoot, StopsBoot DEF Enrol
  <2> QED BY <1>2, <1>h, <2>1, EnrolType, EnrolStory
<1>3. CASE Operate
  <2>1. inUse \subseteq inUse' /\ UNCHANGED <<runs, disk, applied>>
    BY <1>3, OperateKind DEF OperatorStep
  <2> QED BY <1>3, <2>1, OperateType, OperateStory, ServerBoot
<1>4. ASSUME NEW m \in Machines, Reboot(m) PROVE Core'
  BY <1>4, <1>h, RebootType, RebootStory, StopsBoot
<1>5. CASE UNCHANGED vars
  BY <1>5, StutterCore
<1> QED BY <1>1, <1>2, <1>3, <1>4, <1>5 DEF Next

\* Whoever has applied a template has the machine's first boot in hand.
LEMMA AppliersHold ==
    ASSUME Core, NEW m \in Machines, NEW e \in applied[m]
    PROVE  /\ e \in Enrolments /\ applied[m] = {e}
           /\ runs[e].at # "idle" /\ MachineOf(e) = m /\ Applicable(e)
           /\ disk[m].record # NoBootstrap /\ disk[m].credential # None /\ disk[m].state # None
<1>1. applied[m] \subseteq Holders(m) /\ e \in Enrolments
  BY DEF Holders, Core, TypeOK
<1> QED BY <1>1 DEF Core, Boot, OneHolder

LEMMA CoreGives ==
    ASSUME Core
    PROVE  EnrolmentInv /\ AppliedOnce /\ AppliedWasInUse
<1>1. TokenRedeemedOnce
  <2>1. SUFFICES ASSUME NEW d \in Enrolments, NEW e \in Enrolments, hosts[d] # "none", hosts[e] # "none",
                        TokenOf(d) = TokenOf(e)
                 PROVE  d = e
    BY DEF TokenRedeemedOnce
  <2>2. At(d, "enrolled") /\ At(e, "enrolled")
    BY <2>1 DEF Core, Story, HandlerFollowsRun
  <2> QED BY <2>1, <2>2 DEF Core, Story, TokenNamesItsSpender, At
<1>2. RefusedLeavesNoHost
  BY DEF RefusedLeavesNoHost, Core, Story, HandlerFollowsRun, At, None
<1>3. AppliedIsTrusted
  <2>1. SUFFICES ASSUME NEW m \in Machines, NEW e \in applied[m]
                 PROVE  /\ runs[e].template.name = runs[e].request.bootstrap
                        /\ runs[e].template.signer \in disk[m].anchor
    BY DEF AppliedIsTrusted
  <2>2. e \in Enrolments /\ runs[e].at # "idle" /\ MachineOf(e) = m /\ Applicable(e)
    BY AppliersHold
  <2>3. runs[e].request.signers \subseteq disk[m].anchor
    BY <2>2 DEF Core, Boot, RunIsOnDisk
  <2> QED BY <2>2, <2>3 DEF Applicable
<1>4. ComesBackEnrolled
  BY AppliersHold DEF ComesBackEnrolled
<1>5. AppliedOnce
  <2>1. SUFFICES ASSUME NEW m \in Machines
                 PROVE  Cardinality(applied[m]) <= 1 /\ (applied[m] # {} => disk[m].record # NoBootstrap)
    BY DEF AppliedOnce
  <2>2. CASE applied[m] = {}
    BY <2>2, FS_EmptySet
  <2>3. CASE applied[m] # {}
    <3>1. PICK e \in applied[m] : TRUE
      BY <2>3
    <3>2. applied[m] = {e} /\ disk[m].record # NoBootstrap
      BY <3>1, AppliersHold
    <3> QED BY <3>2, FS_Singleton
  <2> QED BY <2>2, <2>3
<1>6. AppliedWasInUse
  BY AppliersHold DEF AppliedWasInUse, Applicable
<1> QED BY <1>1, <1>2, <1>3, <1>4, <1>5, <1>6 DEF EnrolmentInv, Core, Story, Boot

LEMMA CoreAlways == Spec => []Core
BY InitCore, NextCore, PTL DEF Spec

\* However the handlers' reads and writes fall among the operators', through failures of the store, crashes and
\* reboots, and whatever answers a machine is given: one host a token and one live host a machine, a refusal that
\* leaves nothing behind, and a template that is applied only by a machine that trusts its signer and is enrolled
\* by then (handleEnroll, Enroll).
THEOREM EnrolmentInvHolds == Spec => []EnrolmentInv
<1>1. Core => EnrolmentInv
  BY CoreGives
<1> QED BY <1>1, CoreAlways, PTL

\* A machine applies a template at most once in its life, and not without a record of it (applyBootstrap).
THEOREM AppliedOnceHolds == Spec => []AppliedOnce
<1>1. Core => AppliedOnce
  BY CoreGives
<1> QED BY <1>1, CoreAlways, PTL

\* A template that a machine applies, had from this control plane, was in use at some moment since the machine's
\* token was spent on it (bootstrapSurvivedRedemption).
THEOREM AppliedWasInUseHolds == Spec => []AppliedWasInUse
<1>1. Core => AppliedWasInUse
  BY CoreGives
<1> QED BY <1>1, CoreAlways, PTL

-----------------------------------------------------------------------------
(* Enrolment implements Admission *)

\* A host, as Admission names it.
Member(e) == [name |-> e, machine |-> MachineOf(e), token |-> TokenOf(e)]
Members == {Member(e) : e \in Active}
Spent == {TokenOf(e) : e \in {h \in Enrolments : hosts[h] # "none"}}

\* There are as many members as there are live hosts.
LEMMA MembersCounted == IsFiniteSet(Active) /\ Cardinality(Members) = Cardinality(Active)
<1>1. IsFiniteSet(Active)
  BY EnrolmentAssumption, FS_Subset DEF Active
<1> DEFINE f == [e \in Active |-> Member(e)]
<1>2. f \in Surjection(Active, Members)
  BY DEF Surjection, Members
<1>3. f \in Injection(Active, Members)
  BY DEF Injection, IsInjective, Members, Member
<1> HIDE DEF f
<1> QED BY <1>1, <1>2, <1>3, FS_Surjection

\* The hosts' requests, and with them the members, are what they were.
LEMMA SameMembers ==
    ASSUME UNCHANGED hosts, \A e \in Enrolments : hosts[e] # "none" => runs'[e].request = runs[e].request
    PROVE  UNCHANGED <<Members, Spent>>
<1>1. \A e \in Enrolments : hosts[e] # "none" => MachineOf(e)' = MachineOf(e) /\ TokenOf(e)' = TokenOf(e)
  BY DEF MachineOf, TokenOf
<1>2. UNCHANGED Active /\ \A e \in Active : Member(e)' = Member(e)
  BY <1>1 DEF Active, Member
<1>3. UNCHANGED Members
  BY <1>2 DEF Members
<1>4. UNCHANGED Spent
  BY <1>1 DEF Spent
<1> QED BY <1>3, <1>4

\* The one step at which a handler admits finds the token unspent, the machine unclaimed and a place free.
LEMMA JoinAdmits ==
    ASSUME Core, NEW e \in Enrolments, Joins(e), UNCHANGED runs
    PROVE  /\ MachineOf(e) \in Machines /\ TokenOf(e) \in Tokens
           /\ TokenOf(e) \notin Spent
           /\ MachineOf(e) \notin Anonymous => \A x \in Members : x.machine # MachineOf(e)
           /\ tenant.limit = -1 \/ Cardinality(Members) + 1 <= tenant.limit
           /\ Members' = Members \cup {Member(e)}
           /\ Spent' = Spent \cup {TokenOf(e)}
           /\ UNCHANGED tenant
<1> USE DEF Core, Story
<1>0. /\ At(e, "create") /\ hosts[e] = "none" /\ hosts' = [hosts EXCEPT ![e] = "live"] /\ UNCHANGED tenant
      /\ hosts'[e] = "live" /\ \A d \in Enrolments \ {e} : hosts'[d] = hosts[d]
      /\ \A d \in Enrolments : MachineOf(d)' = MachineOf(d) /\ TokenOf(d)' = TokenOf(d) /\ Member(d)' = Member(d)
  BY DEF Joins, HandlerFollowsRun, At, TypeOK, MachineOf, TokenOf, Member
<1>1. MachineOf(e) \in Machines /\ TokenOf(e) \in Tokens
  BY <1>0, RequestFields DEF At, None
<1>2. TokenOf(e) \notin Spent
  <2>1. SUFFICES ASSUME NEW h \in Enrolments, hosts[h] # "none", TokenOf(h) = TokenOf(e) PROVE FALSE
    BY DEF Spent
  <2>2. At(h, "enrolled") /\ h # e
    BY <1>0, <2>1 DEF HandlerFollowsRun
  <2> QED BY <1>0, <2>1, <2>2 DEF TokenNamesItsSpender, At
<1>3. MachineOf(e) \notin Anonymous => \A x \in Members : x.machine # MachineOf(e)
  BY DEF Joins, Claimed, Members, Member
<1>4. tenant.limit = -1 \/ Cardinality(Members) + 1 <= tenant.limit
  <2>1. Cardinality(Active) \in Nat
    BY MembersCounted, FS_CardinalityType
  <2>2. tenant.limit = -1 \/ tenant.limit \in Nat
    BY EnrolmentAssumption DEF TypeOK, NoLimit
  <2>3. tenant.limit = -1 \/ ~(Cardinality(Active) >= tenant.limit)
    BY DEF Joins, Full, NoLimit
  <2> QED BY <2>1, <2>2, <2>3, MembersCounted
<1>5. Active' = Active \cup {e}
  BY <1>0 DEF Active
<1>6. Members' = Members \cup {Member(e)}
  BY <1>0, <1>5 DEF Members, Active
<1>7. Spent' = Spent \cup {TokenOf(e)}
  BY <1>0 DEF Spent
<1> QED BY <1>0, <1>1, <1>2, <1>3, <1>4, <1>6, <1>7

\* A host that is withdrawn makes room, and its token stays spent.
LEMMA WithdrawalDismisses ==
    ASSUME Core, NEW e \in Enrolments, NEW how \in {"revoked", "deleted"}, WithdrawHost(e, how)
    PROVE  /\ UNCHANGED <<Spent, tenant>>
           /\ UNCHANGED Members \/ (Member(e) \in Members /\ Members' = Members \ {Member(e)})
<1>0. /\ hosts[e] \in {"live", "revoked"} /\ hosts'[e] = how /\ UNCHANGED tenant
      /\ \A d \in Enrolments \ {e} : hosts'[d] = hosts[d]
      /\ \A d \in Enrolments : MachineOf(d)' = MachineOf(d) /\ TokenOf(d)' = TokenOf(d) /\ Member(d)' = Member(d)
  BY DEF WithdrawHost, Core, TypeOK, MachineOf, TokenOf, Member
<1>1. UNCHANGED Spent
  <2>1. UNCHANGED {h \in Enrolments : hosts[h] # "none"}
    BY <1>0
  <2> QED BY <1>0, <2>1 DEF Spent
<1>2. Active' = Active \ {e}
  BY <1>0 DEF Active
<1>3. Members' = {Member(d) : d \in Active \ {e}}
  BY <1>0, <1>2 DEF Members, Active
<1>4. CASE e \in Active
  <2>1. \A d \in Active : Member(d) = Member(e) => d = e
    BY DEF Member
  <2> QED BY <1>0, <1>1, <1>3, <1>4, <2>1 DEF Members
<1>5. CASE e \notin Active
  BY <1>0, <1>1, <1>3, <1>5 DEF Members
<1> QED BY <1>4, <1>5

\* Admission counts as Enrolment does.
LEMMA SameCount == \A S : Admitted!Cardinality(S) = Cardinality(S)
BY DEF Admitted!Cardinality, Cardinality

\* What a step of Enrolment is to Admission.
AdmissionStep ==
    \/ \E e \in Enrolments :
          /\ MachineOf(e) \in Machines /\ TokenOf(e) \in Tokens
          /\ TokenOf(e) \notin Spent
          /\ MachineOf(e) \notin Anonymous => \A x \in Members : x.machine # MachineOf(e)
          /\ tenant.limit = -1 \/ Cardinality(Members) + 1 <= tenant.limit
          /\ Members' = Members \cup {Member(e)}
          /\ Spent' = Spent \cup {TokenOf(e)}
          /\ UNCHANGED tenant
    \/ \E x \in Members : Members' = Members \ {x} /\ UNCHANGED <<Spent, tenant>>
    \/ tenant'.limit \in Nat \cup {-1} /\ UNCHANGED <<Members, Spent>>

LEMMA StepsAdmit ==
    ASSUME Core, [Next]_vars
    PROVE  AdmissionStep
<1> USE DEF Core
<1>l. tenant.limit \in Nat \cup {-1}
  BY EnrolmentAssumption DEF TypeOK, NoLimit
<1>s. ASSUME UNCHANGED <<hosts, tenant>>,
             \A e \in Enrolments : hosts[e] # "none" => runs'[e].request = runs[e].request
      PROVE  AdmissionStep
  BY <1>s, <1>l, SameMembers DEF AdmissionStep
<1>1. ASSUME NEW e \in Enrolments, Handle(e) PROVE AdmissionStep
  <2>1. UNCHANGED runs /\ (TurnsDown(e) \/ GoesOn(e) \/ Picks(e) \/ Spends(e) \/ Joins(e))
    BY <1>1, HandleKinds DEF Story
  <2>2. CASE Joins(e)
    BY <2>1, <2>2, JoinAdmits DEF AdmissionStep
  <2>3. CASE TurnsDown(e) \/ GoesOn(e) \/ Picks(e) \/ Spends(e)
    <3>1. UNCHANGED <<hosts, tenant>>
      BY <2>3 DEF TurnsDown, GoesOn, Picks, Spends, Reads
    <3> QED BY <1>s, <2>1, <3>1
  <2> QED BY <2>1, <2>2, <2>3
<1>2. ASSUME NEW e \in Enrolments, Enrol(e) PROVE AdmissionStep
  <2>0. UNCHANGED <<hosts, tenant>>
    BY <1>2 DEF Enrol, Start, Receive, KeepPrevious, WriteCurrent, SaveState, RecordBootstrap, WriteSeed,
                RunCloudInit, GiveUp, Interrupt, Server, rows
  <2>1. ASSUME NEW m \in situation.machines, NEW t \in situation.tokens, NEW b \in situation.named,
               NEW file \in {{}} \cup {{k} : k \in Keys}, Start(e, m, t, b, file)
        PROVE  AdmissionStep
    <3>1. Sets(e, m, t)
      BY <2>1, StartKind
    <3>2. hosts[e] = "none"
      BY <3>1 DEF Sets, Story, HandlerFollowsRun, At, None
    <3> QED BY <1>s, <2>0, <3>1, <3>2 DEF Sets
  <2>2. ASSUME NEW step \in RunSteps, Step(e, step) PROVE AdmissionStep
    <3>1. \A d \in Enrolments : runs'[d].request = runs[d].request
      BY <2>2, StepType
    <3> QED BY <1>s, <2>0, <3>1
  <2>3. CASE Receive(e)
    <3>1. CASE Step(e, "refused")
      BY <2>2, <3>1 DEF RunSteps
    <3>2. ASSUME NEW b,
                 runs' = [runs EXCEPT
                     ![e].at = IF runs[e].request.bootstrap = None \/ VerifyBootstrap(e, b) THEN "verified"
                               ELSE "too late",
                     ![e].template = b,
                     ![e].forged = b # handler[e].template]
          PROVE  AdmissionStep
      <4>1. ASSUME NEW at, NEW forged, runs' = [runs EXCEPT ![e].at = at, ![e].template = b, ![e].forged = forged]
            PROVE  AdmissionStep
        <5>1. \A d \in Enrolments : runs'[d].request = runs[d].request
          BY <4>1 DEF TypeOK
        <5> QED BY <1>s, <2>0, <5>1
      <4> DEFINE at == IF runs[e].request.bootstrap = None \/ VerifyBootstrap(e, b) THEN "verified" ELSE "too late"
                 forged == b # handler[e].template
      <4>2. runs' = [runs EXCEPT ![e].at = at, ![e].template = b, ![e].forged = forged]
        BY <3>2
      <4> HIDE DEF at, forged
      <4> QED BY <4>1, <4>2
    <3> QED BY <2>3, <3>1, <3>2 DEF Receive
  <2>4. CASE KeepPrevious(e) \/ WriteCurrent(e) \/ SaveState(e) \/ RecordBootstrap(e) \/ WriteSeed(e)
             \/ RunCloudInit(e) \/ GiveUp(e) \/ Interrupt(e)
    <3>1. \A step \in {"kept", "written", "saved", "done", "too late", "recorded", "seeded", "died"} : step \in RunSteps
      BY DEF RunSteps
    <3>2. CASE SaveState(e)
      <4>1. CASE runs[e].request.bootstrap = None
        BY <2>2, <3>1, <3>2, <4>1 DEF SaveState
      <4>2. CASE runs[e].request.bootstrap # None
        BY <2>2, <3>1, <3>2, <4>2 DEF SaveState
      <4> QED BY <4>1, <4>2
    <3> QED BY <2>2, <2>4, <3>1, <3>2
         DEF KeepPrevious, WriteCurrent, RecordBootstrap, WriteSeed, RunCloudInit, GiveUp, Interrupt
  <2> QED BY <1>2, <2>1, <2>3, <2>4 DEF Enrol
<1>3. CASE Operate
  <2>1. UNCHANGED runs
    BY <1>3, OperateKind DEF OperatorStep
  <2>2. ASSUME NEW e \in Enrolments, NEW how \in {"revoked", "deleted"}, WithdrawHost(e, how) PROVE AdmissionStep
    BY <2>2, WithdrawalDismisses, <1>l DEF AdmissionStep
  <2>3. ASSUME NEW limit \in HostLimits \cup {NoLimit}, NEW s \in BOOLEAN,
               UpdateTenant([suspended |-> s, limit |-> limit])
        PROVE  AdmissionStep
    <3>1. UNCHANGED hosts /\ tenant'.limit = limit
      BY <2>3 DEF UpdateTenant
    <3>2. limit \in Nat \cup {-1}
      BY EnrolmentAssumption DEF NoLimit
    <3> QED BY <2>1, <3>1, <3>2, SameMembers DEF AdmissionStep
  <2>4. CASE UNCHANGED <<hosts, tenant>>
    BY <1>s, <2>1, <2>4
  <2>5. \/ UNCHANGED <<hosts, tenant>>
        \/ \E e \in Enrolments, how \in {"revoked", "deleted"} : WithdrawHost(e, how)
        \/ \E limit \in HostLimits \cup {NoLimit}, s \in BOOLEAN : UpdateTenant([suspended |-> s, limit |-> limit])
    BY <1>3 DEF Operate, CreateToken, RenderTemplate, CreateTemplate, Commit, ArchiveTemplate, RestoreTemplate,
                ExpireToken, rows
  <2> QED BY <2>2, <2>3, <2>4, <2>5
<1>4. ASSUME NEW m \in Machines, Reboot(m) PROVE AdmissionStep
  <2>1. UNCHANGED <<hosts, tenant>>
    BY <1>4 DEF Reboot, Server, rows
  <2>2. \A e \in Enrolments : [runs[e] EXCEPT !.at = "died"].request = runs[e].request
    BY DEF TypeOK
  <2> QED BY <1>4, <1>s, <2>1, <2>2 DEF Reboot
<1>5. CASE UNCHANGED vars
  BY <1>5, <1>s DEF vars
<1> QED BY <1>1, <1>2, <1>3, <1>4, <1>5 DEF Next

\* Enrolment implements Admission: whatever order the handlers' reads and writes fall in, a machine is admitted as
\* though its token, its machine id and the host limit were looked at in the step that admits it (handleEnroll,
\* ConsumeEnrollmentToken, CreateEnrolledHost).
THEOREM AdmitsInOneStepHolds == Spec => AdmitsInOneStep
<1>1. Init => Admitted!Init
  <2>1. Init => Members = {} /\ Spent = {}
    BY DEF Init, Members, Spent, Active
  <2>2. Init => tenant.limit \in Nat \cup {-1}
    BY InitCore, EnrolmentAssumption DEF Core, TypeOK, NoLimit
  <2> QED BY <2>1, <2>2 DEF Admitted!Init, Members, Member, Spent
<1>2. Core /\ [Next]_vars => [Admitted!Next]_<<Members, Spent, tenant.limit>>
  <2> SUFFICES ASSUME Core, [Next]_vars PROVE [Admitted!Next]_<<Members, Spent, tenant.limit>>
    OBVIOUS
  <2>1. CASE \E e \in Enrolments :
               /\ MachineOf(e) \in Machines /\ TokenOf(e) \in Tokens
               /\ TokenOf(e) \notin Spent
               /\ MachineOf(e) \notin Anonymous => \A x \in Members : x.machine # MachineOf(e)
               /\ tenant.limit = -1 \/ Cardinality(Members) + 1 <= tenant.limit
               /\ Members' = Members \cup {Member(e)}
               /\ Spent' = Spent \cup {TokenOf(e)}
               /\ UNCHANGED tenant
    <3>1. \E c \in Enrolments, m \in Machines, t \in Tokens : Admitted!Admit(c, m, t)
      BY <2>1, SameCount DEF Admitted!Admit, Admitted!Fits, Members, Member, Spent
    <3> QED BY <3>1 DEF Admitted!Next
  <2>2. CASE \E x \in Members : Members' = Members \ {x} /\ UNCHANGED <<Spent, tenant>>
    BY <2>2 DEF Admitted!Next, Admitted!Dismiss, Members, Member, Spent
  <2>3. CASE tenant'.limit \in Nat \cup {-1} /\ UNCHANGED <<Members, Spent>>
    BY <2>3 DEF Admitted!Next, Admitted!SetLimit, Members, Member, Spent
  <2> QED BY <2>1, <2>2, <2>3, StepsAdmit DEF AdmissionStep
<1> QED BY <1>1, <1>2, CoreAlways, PTL DEF Spec, AdmitsInOneStep, Admitted!Spec, Members, Member, Spent

=============================================================================
