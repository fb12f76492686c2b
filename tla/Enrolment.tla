------------------------------ MODULE Enrolment ------------------------------
(***************************************************************************)
(* How a machine joins a fleet: the handler of POST /agent/v1/enroll       *)
(* (handleEnroll, internal/server/agentapi.go), the operators' requests    *)
(* that change what it reads (adminapi.go, templatesapi.go, tenantapi.go), *)
(* and `hostseal enroll' on the machine (internal/agent/enroll.go,         *)
(* credential.go, bootstrap.go).                                           *)
(*                                                                         *)
(* An element of Enrolments is one run of `hostseal enroll', the request   *)
(* it sends, and the host id and certificate the control plane gives it:   *)
(* each run sends at most one request, so the four need one name.  A step  *)
(* of the handler is one read or write of the store.  A template is what   *)
(* the provers of its signature see: the key that signed it.               *)
(*                                                                         *)
(* `disturbed' and `inUse' are history: whether another actor touched what *)
(* a handler reads while it ran, and whether a template was in use at some *)
(* moment since the token was spent on it.                                 *)
(***************************************************************************)
EXTENDS Integers, FiniteSets

CONSTANTS
    Enrolments, Machines, Tokens, Names,
    Anonymous,          \* machines with no machine id to hash
    Keys,               \* keys that sign templates
    HostLimits,         \* the host limits a fleet may be given
    Situations,         \* the [runs, machines, tokens, named, limits, acts, faults] explored: named is what a run
                        \* may ask for, acts and faults what else may happen
    MaxActs, MaxFaults  \* bounds on the operators' requests and on failures

ASSUME EnrolmentAssumption ==
    /\ Anonymous \subseteq Machines
    /\ HostLimits \subseteq Nat
    /\ MaxActs \in Nat
    /\ MaxFaults \in Nat
    /\ IsFiniteSet(Enrolments)

VARIABLES
    situation,                          \* the one explored
    tokens, templates, tenant, hosts,   \* the control plane's rows
    handler,                            \* each enrolment's handler, with what it has read
    pending,                            \* an operator's request between its checks and its write
    runs,                               \* each run of `hostseal enroll'
    disk,                               \* each machine's state directory, trust anchor and seed
    applied,                            \* the runs whose template each machine applied
    acts, faults, disturbed, inUse

rows == <<tokens, templates, tenant, hosts>>
history == <<disturbed, inUse>>
vars == <<situation, tokens, templates, tenant, hosts, handler, pending, runs, disk, applied, acts, faults, disturbed, inUse>>

None == "none"
NoLimit == -1

\* No name of anything is the word for its absence, and a situation is made of what there is.
ASSUME SituationAssumption ==
    /\ None \notin Enrolments \cup Names \cup Keys
    /\ \A s \in Situations :
          /\ s.runs \subseteq Enrolments
          /\ s.machines \subseteq Machines
          /\ s.tokens \subseteq Tokens
          /\ s.named \subseteq Names \cup {None}
          /\ s.limits \subseteq HostLimits \cup {NoLimit}

\* The latest version of a template: who signed it, and whether its body substitutes {{enrollmentToken}}.
NoVersion == [stored |-> FALSE, signer |-> None, mints |-> FALSE]
Version(signer, mints) == [stored |-> TRUE, signer |-> signer, mints |-> mints]
Versions == {NoVersion} \cup [stored : {TRUE}, signer : Keys \cup {None}, mints : BOOLEAN]
Template == [version : Versions,
             archived : BOOLEAN,
             renders : BOOLEAN]     \* some version, latest or not, substitutes {{enrollmentToken}}

Token == [state : {"none", "live", "expired"}, bootstrap : Names \cup {None}, consumedBy : Enrolments \cup {None}]
Usable(t) == tokens[t].state = "live" /\ tokens[t].consumedBy = None

\* What the response carries of a template: its name, and the key its signature verifies with.
Bootstrap == [name : Names, signer : Keys \cup {None}]
NoBootstrap == [name |-> None, signer |-> None]

Request == [machine : Machines, token : Tokens, bootstrap : Names \cup {None}, signers : SUBSET Keys]
NotAsked == [machine |-> None, token |-> None, bootstrap |-> None, signers |-> {}]

HandlerSteps == {"token", "machine", "tenant", "bootstrap", "archival", "redeem", "survive", "create", "enrolled", "refused"}
RunSteps == {"idle", "sent", "verified", "kept", "written", "saved", "recorded", "seeded",
             "done", "refused", "too late", "died"}

MachineOf(e) == runs[e].request.machine
TokenOf(e) == runs[e].request.token

Active == {e \in Enrolments : hosts[e] = "live"}

NoRequest == [op |-> None]
Pending == {NoRequest} \cup [op : {"token"}, token : Tokens, bootstrap : Names \cup {None}]
           \cup [op : {"template"}, name : Names, version : Versions]

Disk == [credential : Enrolments \cup {None}, previous : Enrolments \cup {None}, state : Enrolments \cup {None},
         anchor : SUBSET Keys, record : Bootstrap \cup {NoBootstrap}, seed : Enrolments \cup {None}]

TypeOK ==
    /\ situation \in Situations
    /\ tokens \in [Tokens -> Token]
    /\ templates \in [Names -> Template]
    /\ tenant \in [suspended : BOOLEAN, limit : HostLimits \cup {NoLimit}]
    /\ hosts \in [Enrolments -> {"none", "live", "revoked", "deleted"}]
    /\ handler \in [Enrolments -> [at : HandlerSteps \cup {None}, template : Bootstrap \cup {NoBootstrap}]]
    /\ pending \in Pending
    /\ runs \in [Enrolments -> [at : RunSteps, request : Request \cup {NotAsked},
                                template : Bootstrap \cup {NoBootstrap}, forged : BOOLEAN]]
    /\ disk \in [Machines -> Disk]
    /\ applied \in [Machines -> SUBSET Enrolments]
    /\ acts \in 0 .. MaxActs /\ faults \in 0 .. MaxFaults
    /\ disturbed \subseteq Enrolments /\ inUse \subseteq Enrolments

-----------------------------------------------------------------------------
(* The handler.  At "enrolled" or "refused" its answer is on the way. *)

At(e, step) == handler[e].at = step
GoTo(e, step) == handler' = [handler EXCEPT ![e].at = step]
Refuse(e) == GoTo(e, "refused")
Elsewhere == <<situation, pending, runs, disk, applied, acts, faults>>

\* Another actor's write, in the eyes of every handler at work.
Disturb(others) == disturbed' = disturbed \cup {e \in others : handler[e].at \notin {None, "enrolled", "refused"}}

\* enrolLimiter: a bucket per source, shared by whatever else that source sends.
RateLimited(e) ==
    /\ At(e, "token")
    /\ Refuse(e)
    /\ UNCHANGED <<rows, history, Elsewhere>>

\* TenantForEnrollmentToken reads and does not spend.
ResolveToken(e) ==
    /\ At(e, "token")
    /\ GoTo(e, IF Usable(TokenOf(e)) THEN "machine" ELSE "refused")
    /\ UNCHANGED <<rows, history, Elsewhere>>

\* GetHostByMachineID: revoked hosts are not matched, and an anonymous machine claims nothing.
Claimed(m) == m \notin Anonymous /\ \E h \in Active : MachineOf(h) = m

CheckMachine(e) ==
    /\ At(e, "machine")
    /\ GoTo(e, IF Claimed(MachineOf(e)) THEN "refused" ELSE "tenant")
    /\ UNCHANGED <<rows, history, Elsewhere>>

Full == tenant.limit # NoLimit /\ Cardinality(Active) >= tenant.limit

CheckTenant(e) ==
    /\ At(e, "tenant")
    /\ GoTo(e, IF tenant.suspended \/ Full THEN "refused" ELSE "bootstrap")
    /\ UNCHANGED <<rows, history, Elsewhere>>

\* A version that may be issued at enrolment, as far as the control plane can tell.
Issuable(v) == v.stored /\ v.signer # None /\ ~v.mints

\* resolveBootstrap reads the token, then the latest version, then whether the name is archived.
ResolveBootstrap(e) ==
    LET n == runs[e].request.bootstrap
        authorised == Usable(TokenOf(e)) /\ tokens[TokenOf(e)].bootstrap = n /\ Issuable(templates[n].version)
    IN /\ At(e, "bootstrap")
       /\ \/ n = None /\ GoTo(e, "redeem")
          \/ n # None /\ ~authorised /\ Refuse(e)
          \/ /\ n # None /\ authorised
             /\ handler' = [handler EXCEPT ![e] = [at |-> "archival",
                               template |-> [name |-> n, signer |-> templates[n].version.signer]]]
       /\ UNCHANGED <<rows, history, Elsewhere>>

CheckArchival(e) ==
    /\ At(e, "archival")
    /\ GoTo(e, IF templates[handler[e].template.name].archived THEN "refused" ELSE "redeem")
    /\ UNCHANGED <<rows, history, Elsewhere>>

\* The certificate request does not parse: Issue refuses it, before the token is spent.
RefuseRequest(e) ==
    /\ At(e, "redeem")
    /\ Refuse(e)
    /\ UNCHANGED <<rows, history, Elsewhere>>

\* Mutation: the token is spent by whoever resolved it, without looking again.
RedeemWhatResolved(e) ==
    /\ At(e, "redeem")
    /\ tokens' = [tokens EXCEPT ![TokenOf(e)].consumedBy = e]
    /\ GoTo(e, "survive")
    /\ Disturb(Enrolments \ {e})
    /\ inUse' = IF handler[e].template # NoBootstrap /\ ~templates[handler[e].template.name].archived
                THEN inUse \cup {e} ELSE inUse
    /\ UNCHANGED <<templates, tenant, hosts, Elsewhere>>

\* ConsumeEnrollmentToken, one statement: exactly one of two presenters gets past it.
Redeem(e) ==
    /\ At(e, "redeem")
    /\ \/ /\ ~Usable(TokenOf(e))
          /\ Refuse(e)
          /\ UNCHANGED <<rows, history>>
       \/ /\ Usable(TokenOf(e))
          /\ tokens' = [tokens EXCEPT ![TokenOf(e)].consumedBy = e]
          /\ GoTo(e, "survive")
          /\ Disturb(Enrolments \ {e})
          /\ inUse' = IF handler[e].template # NoBootstrap /\ ~templates[handler[e].template.name].archived
                      THEN inUse \cup {e} ELSE inUse
          /\ UNCHANGED <<templates, tenant, hosts>>
    /\ UNCHANGED Elsewhere

\* Mutation: the template is not looked at again once the token is spent.
SurvivedUnread(e) ==
    /\ At(e, "survive")
    /\ GoTo(e, "create")
    /\ UNCHANGED <<rows, history, Elsewhere>>

\* bootstrapSurvivedRedemption: withdrawn in between, the template is not handed out.
BootstrapSurvivedRedemption(e) ==
    LET n == handler[e].template.name
    IN /\ At(e, "survive")
       /\ GoTo(e, IF n # None /\ templates[n].archived THEN "refused" ELSE "create")
       /\ UNCHANGED <<rows, history, Elsewhere>>

\* Mutation: the limit was checked when the enrolment arrived.
CreateWithinReadLimit(e) ==
    /\ At(e, "create")
    /\ \/ Claimed(MachineOf(e)) /\ Refuse(e) /\ UNCHANGED <<rows, history>>
       \/ /\ ~Claimed(MachineOf(e))
          /\ hosts' = [hosts EXCEPT ![e] = "live"]
          /\ GoTo(e, "enrolled")
          /\ Disturb(Enrolments \ {e})
          /\ UNCHANGED <<tokens, templates, tenant, inUse>>
    /\ UNCHANGED Elsewhere

\* CreateEnrolledHost counts and writes the host and its certificate in one transaction.
CreateEnrolledHost(e) ==
    /\ At(e, "create")
    /\ \/ /\ Full \/ Claimed(MachineOf(e))
          /\ Refuse(e)
          /\ UNCHANGED <<rows, history>>
       \/ /\ ~Full /\ ~Claimed(MachineOf(e))
          /\ hosts' = [hosts EXCEPT ![e] = "live"]
          /\ GoTo(e, "enrolled")
          /\ Disturb(Enrolments \ {e})
          /\ UNCHANGED <<tokens, templates, tenant, inUse>>
    /\ UNCHANGED Elsewhere

Fail(kind) == kind \in situation.faults /\ faults < MaxFaults /\ faults' = faults + 1

\* A store call fails, at any of the steps: the answer is a 500.
StoreFails(e) ==
    /\ handler[e].at \in HandlerSteps \ {"enrolled", "refused"}
    /\ Fail("store")
    /\ Refuse(e)
    /\ disturbed' = disturbed \cup {e}
    /\ UNCHANGED <<situation, rows, pending, runs, disk, applied, acts, inUse>>

Handle(e) ==
    \/ RateLimited(e) \/ ResolveToken(e) \/ CheckMachine(e) \/ CheckTenant(e) \/ ResolveBootstrap(e) \/ CheckArchival(e)
    \/ RefuseRequest(e) \/ Redeem(e) \/ BootstrapSurvivedRedemption(e) \/ CreateEnrolledHost(e) \/ StoreFails(e)

-----------------------------------------------------------------------------
(* The operators and the platform administrator. *)

Act(kind) == kind \in situation.acts /\ acts < MaxActs /\ acts' = acts + 1

\* checkBootstrapIsIssuable, at the minting of a token.
MayName(b) == b # None => Issuable(templates[b].version) /\ ~templates[b].archived

\* handleCreateToken up to its write.
CreateToken(t, b) ==
    /\ Act("token") /\ pending = NoRequest
    /\ tokens[t].state = "none"
    /\ MayName(b)
    /\ pending' = [op |-> "token", token |-> t, bootstrap |-> b]
    /\ UNCHANGED <<situation, rows, handler, runs, disk, applied, faults, history>>

\* handleRenderTemplate: rendering a version that substitutes {{enrollmentToken}} mints one.
RenderTemplate(n, t, b) ==
    /\ Act("token") /\ pending = NoRequest
    /\ tokens[t].state = "none"
    /\ templates[n].renders /\ ~templates[n].archived
    /\ MayName(b)
    /\ pending' = [op |-> "token", token |-> t, bootstrap |-> b]
    /\ UNCHANGED <<situation, rows, handler, runs, disk, applied, faults, history>>

\* handleCreateTemplate up to its write; a version may be stored under a name archived in between.
CreateTemplate(n, v) ==
    /\ Act("version") /\ pending = NoRequest
    /\ v.stored /\ ~templates[n].archived
    /\ pending' = [op |-> "template", name |-> n, version |-> v]
    /\ UNCHANGED <<situation, rows, handler, runs, disk, applied, faults, history>>

Commit ==
    /\ pending # NoRequest
    /\ pending' = NoRequest
    /\ \/ /\ pending.op = "token"
          /\ tokens' = [tokens EXCEPT ![pending.token].state = "live", ![pending.token].bootstrap = pending.bootstrap]
          /\ UNCHANGED templates
       \/ /\ pending.op = "template"
          /\ templates' = [templates EXCEPT ![pending.name].version = pending.version,
                                                ![pending.name].renders = @ \/ pending.version.mints]
          /\ UNCHANGED tokens
    /\ Disturb(Enrolments)
    /\ UNCHANGED <<situation, tenant, hosts, handler, runs, disk, applied, acts, faults, inUse>>

ArchiveTemplate(n) ==
    /\ Act("archive")
    /\ templates[n].version.stored /\ ~templates[n].archived
    /\ templates' = [templates EXCEPT ![n].archived = TRUE]
    /\ Disturb(Enrolments)
    /\ UNCHANGED <<situation, tokens, tenant, hosts, handler, pending, runs, disk, applied, faults, inUse>>

RestoreTemplate(n) ==
    /\ Act("archive")
    /\ templates[n].archived
    /\ templates' = [templates EXCEPT ![n].archived = FALSE]
    /\ inUse' = inUse \cup {e \in Enrolments : handler[e].template.name = n /\ tokens[TokenOf(e)].consumedBy = e}
    /\ Disturb(Enrolments)
    /\ UNCHANGED <<situation, tokens, tenant, hosts, handler, pending, runs, disk, applied, faults>>

\* handleRevokeHost and handleDeleteHost both release the machine id and the place in the fleet.
WithdrawHost(e, how) ==
    /\ Act("withdraw")
    /\ hosts[e] \in {"live", "revoked"} /\ hosts[e] # how
    /\ hosts' = [hosts EXCEPT ![e] = how]
    /\ Disturb(Enrolments)
    /\ UNCHANGED <<situation, tokens, templates, tenant, handler, pending, runs, disk, applied, faults, inUse>>

\* handleUpdateTenant, of the settings an enrolment reads.
UpdateTenant(patched) ==
    /\ Act("tenant")
    /\ tenant # patched
    /\ tenant' = patched
    /\ Disturb(Enrolments)
    /\ UNCHANGED <<situation, tokens, templates, hosts, handler, pending, runs, disk, applied, faults, inUse>>

\* The token's ExpiresAt passes.
ExpireToken(t) ==
    /\ Act("expire")
    /\ tokens[t].state = "live"
    /\ tokens' = [tokens EXCEPT ![t].state = "expired"]
    /\ Disturb(Enrolments)
    /\ UNCHANGED <<situation, templates, tenant, hosts, handler, pending, runs, disk, applied, faults, inUse>>

Operate ==
    \/ \E t \in Tokens, b \in Names \cup {None} : CreateToken(t, b)
    \/ \E t \in Tokens, n \in Names, b \in Names \cup {None} : RenderTemplate(n, t, b)
    \/ \E n \in Names, k \in Keys \cup {None}, mints \in BOOLEAN : CreateTemplate(n, Version(k, mints))
    \/ Commit
    \/ \E n \in Names : ArchiveTemplate(n) \/ RestoreTemplate(n)
    \/ \E e \in Enrolments, how \in {"revoked", "deleted"} : WithdrawHost(e, how)
    \/ \E limit \in HostLimits \cup {NoLimit}, s \in BOOLEAN : UpdateTenant([suspended |-> s, limit |-> limit])
    \/ \E t \in Tokens : ExpireToken(t)

-----------------------------------------------------------------------------
(* `hostseal enroll' on the machine.  A step is one durable write, or the exchange with the control plane. *)

RunAt(e, step) == runs[e].at = step
Server == <<situation, rows, handler, pending, acts, history>>
Step(e, step) == runs' = [runs EXCEPT ![e].at = step]

\* Enroll up to its request: the local files first, then the questions that need no network.
Start(e, m, t, b, file) ==
    LET anchor == IF disk[m].anchor = {} THEN file ELSE disk[m].anchor
    IN /\ RunAt(e, "idle") /\ e \in situation.runs
       /\ file \in {{}, anchor}                        \* installLocalFile replaces nothing
       /\ disk' = [disk EXCEPT ![m].anchor = anchor]
       /\ runs' = [runs EXCEPT ![e] = [at |-> IF b # None /\ (anchor = {} \/ disk[m].record # NoBootstrap)
                                              THEN "refused" ELSE "sent",
                                       request |-> [machine |-> m, token |-> t, bootstrap |-> b, signers |-> anchor],
                                       template |-> NoBootstrap, forged |-> FALSE]]
       /\ handler' = [handler EXCEPT ![e].at = IF runs'[e].at = "sent" THEN "token" ELSE None]
       /\ UNCHANGED <<situation, rows, pending, applied, acts, faults, history>>

\* The name the operator typed, the interlock, and a signature by a key the machine already trusted.
VerifyBootstrap(e, template) ==
    /\ template.name = runs[e].request.bootstrap
    /\ disk[MachineOf(e)].record = NoBootstrap
    /\ template.signer \in runs[e].request.signers

\* What a control plane other than this one could answer with: any template it stores, or one it made up.
Fabricated == {[name |-> n, signer |-> templates[n].version.signer] : n \in Names}
              \cup {[name |-> n, signer |-> None] : n \in Names}

Receive(e) ==
    /\ RunAt(e, "sent") /\ handler[e].at \in {"enrolled", "refused"}
    /\ \/ /\ At(e, "refused")
          /\ Step(e, "refused")
       \/ \E template \in {handler[e].template} \cup IF "forged" \in situation.faults THEN Fabricated ELSE {} :
             /\ At(e, "enrolled") \/ template # handler[e].template
             /\ runs' = [runs EXCEPT
                    ![e].at = IF runs[e].request.bootstrap = None \/ VerifyBootstrap(e, template)
                              THEN "verified" ELSE "too late",
                    ![e].template = template,
                    ![e].forged = template # handler[e].template]
    /\ UNCHANGED <<Server, disk, applied, faults>>

\* WriteCredential: the outgoing pair is copied aside, then the new one is renamed into place.
KeepPrevious(e) ==
    /\ RunAt(e, "verified")
    /\ disk' = [disk EXCEPT ![MachineOf(e)].previous = IF disk[MachineOf(e)].credential = None THEN @
                                                       ELSE disk[MachineOf(e)].credential]
    /\ Step(e, "kept")
    /\ UNCHANGED <<Server, applied, faults>>

WriteCurrent(e) ==
    /\ RunAt(e, "kept")
    /\ disk' = [disk EXCEPT ![MachineOf(e)].credential = e]
    /\ Step(e, "written")
    /\ UNCHANGED <<Server, applied, faults>>

\* State.Save, and AdoptStateDir hands the directory to the service account.
SaveState(e) ==
    /\ RunAt(e, "written")
    /\ disk' = [disk EXCEPT ![MachineOf(e)].state = e]
    /\ Step(e, IF runs[e].request.bootstrap = None THEN "done" ELSE "saved")
    /\ UNCHANGED <<Server, applied, faults>>

\* Mutation: the record is renamed into place over whatever is there.
RecordOver(e) ==
    /\ RunAt(e, "saved")
    /\ disk' = [disk EXCEPT ![MachineOf(e)].record = runs[e].template]
    /\ Step(e, "recorded")
    /\ UNCHANGED <<Server, applied, faults>>

\* applyBootstrap, step 1: link(2) fails where another run has recorded a template.
RecordBootstrap(e) ==
    /\ RunAt(e, "saved")
    /\ \/ /\ disk[MachineOf(e)].record # NoBootstrap
          /\ Step(e, "too late")
          /\ UNCHANGED disk
       \/ /\ disk[MachineOf(e)].record = NoBootstrap
          /\ disk' = [disk EXCEPT ![MachineOf(e)].record = runs[e].template]
          /\ Step(e, "recorded")
    /\ UNCHANGED <<Server, applied, faults>>

WriteSeed(e) ==
    /\ RunAt(e, "recorded")
    /\ disk' = [disk EXCEPT ![MachineOf(e)].seed = e]
    /\ Step(e, "seeded")
    /\ UNCHANGED <<Server, applied, faults>>

\* runCloudInit, and removeSeed whether the stages completed or not.
RunCloudInit(e) ==
    /\ RunAt(e, "seeded")
    /\ applied' = [applied EXCEPT ![MachineOf(e)] = @ \cup {e}]
    /\ disk' = [disk EXCEPT ![MachineOf(e)].seed = None]
    /\ Step(e, "done")
    /\ UNCHANGED <<Server, faults>>

Ended == {"idle", "done", "refused", "too late", "died"}

\* No answer within the client's timeout, or one that is lost; the handler goes on.
GiveUp(e) ==
    /\ RunAt(e, "sent") /\ Fail("lost")
    /\ Step(e, "too late")
    /\ UNCHANGED <<Server, disk, applied>>

Interrupt(e) ==
    /\ runs[e].at \notin Ended /\ Fail("killed")
    /\ Step(e, "died")
    /\ UNCHANGED <<Server, disk, applied>>

\* The machine goes down, perhaps because the template says so; cloud-init reads a seed that is there at boot,
\* once for its instance id.
Reboot(m) ==
    /\ Fail("reboot")
    /\ runs' = [e \in Enrolments |-> IF runs[e].at \notin Ended /\ MachineOf(e) = m
                                     THEN [runs[e] EXCEPT !.at = "died"] ELSE runs[e]]
    /\ applied' = [applied EXCEPT ![m] = @ \cup ({disk[m].seed} \ {None})]
    /\ UNCHANGED <<Server, disk>>

Enrol(e) ==
    \/ \E m \in situation.machines, t \in situation.tokens, b \in situation.named, file \in {{}} \cup {{k} : k \in Keys} :
          Start(e, m, t, b, file)
    \/ Receive(e) \/ KeepPrevious(e) \/ WriteCurrent(e) \/ SaveState(e)
    \/ RecordBootstrap(e) \/ WriteSeed(e) \/ RunCloudInit(e)
    \/ GiveUp(e) \/ Interrupt(e)

-----------------------------------------------------------------------------
(* A fleet with tokens minted and, perhaps, a signed template, before anybody has enrolled. *)

Init ==
    /\ situation \in Situations
    /\ \E k \in Keys : templates \in [Names -> IF situation.named = {None}
                                               THEN {[version |-> NoVersion, archived |-> FALSE, renders |-> FALSE]}
                                               ELSE {[version |-> Version(k, FALSE), archived |-> FALSE, renders |-> FALSE]}]
    /\ tokens \in [Tokens -> [state : {"live"}, bootstrap : situation.named, consumedBy : {None}]
                             \cup IF "token" \in situation.acts
                                  THEN {[state |-> "none", bootstrap |-> None, consumedBy |-> None]} ELSE {}]
    /\ tenant \in [suspended : {FALSE}, limit : situation.limits]
    /\ hosts = [e \in Enrolments |-> "none"]
    /\ handler = [e \in Enrolments |-> [at |-> None, template |-> NoBootstrap]]
    /\ pending = NoRequest
    /\ runs = [e \in Enrolments |-> [at |-> "idle", request |-> NotAsked, template |-> NoBootstrap, forged |-> FALSE]]
    /\ disk = [m \in Machines |-> [credential |-> None, previous |-> None, state |-> None, anchor |-> {},
                                   record |-> NoBootstrap, seed |-> None]]
    /\ applied = [m \in Machines |-> {}]
    /\ acts = 0 /\ faults = 0 /\ disturbed = {} /\ inUse = {}

Next ==
    \/ \E e \in Enrolments : Handle(e) \/ Enrol(e)
    \/ Operate
    \/ \E m \in Machines : Reboot(m)

Spec == Init /\ [][Next]_vars

-----------------------------------------------------------------------------
(* Properties. *)

\* A token admits at most one host, however many machines present it at once (ConsumeEnrollmentToken).
TokenRedeemedOnce ==
    \A d, e \in Enrolments : hosts[d] # "none" /\ hosts[e] # "none" /\ TokenOf(d) = TokenOf(e) => d = e

\* No machine id is held by two hosts that are not revoked (handleEnroll and the index behind it).
OneLiveHostPerMachine ==
    \A d, e \in Active : MachineOf(d) = MachineOf(e) /\ MachineOf(e) \notin Anonymous => d = e

\* A refusal that nobody raced leaves the token to be used again: every check that can refuse by itself comes
\* before the redemption (handleEnroll).
RefusalKeepsToken ==
    \A e \in Enrolments : At(e, "refused") /\ e \notin disturbed => tokens[TokenOf(e)].consumedBy # e

\* An enrolment that was refused has left no host behind to hold the machine id (handleEnroll).
RefusedLeavesNoHost ==
    \A e \in Enrolments : runs[e].at = "refused" => hosts[e] = "none"

\* A machine applies a template at most once in its life, through concurrent runs, crashes and reboots, and not
\* without a record of it (applyBootstrap, checkBootstrapInterlock).
AppliedOnce ==
    \A m \in Machines : Cardinality(applied[m]) <= 1 /\ (applied[m] # {} => disk[m].record # NoBootstrap)

\* What is applied is what the operator at the machine named, signed by a key that machine trusted before it
\* asked, whatever the control plane answered (verifyBootstrap).
AppliedIsTrusted ==
    \A m \in Machines : \A e \in applied[m] :
        /\ runs[e].template.name = runs[e].request.bootstrap
        /\ runs[e].template.signer \in disk[m].anchor

\* A template applied was in use at some moment since its token was spent: archiving it before that is enough
\* (bootstrapSurvivedRedemption).
AppliedWasInUse ==
    \A m \in Machines : \A e \in applied[m] : ~runs[e].forged => e \in inUse

\* A machine that a template restarts comes back enrolled: its credential and its state are on disk before the
\* template can act (Enroll).
ComesBackEnrolled ==
    \A m \in Machines : applied[m] # {} => disk[m].credential # None /\ disk[m].state # None

-----------------------------------------------------------------------------
(* Why: what handlers, operators and machines keep between them. *)

\* A request and its handler are one story: a handler runs for a request that was sent, a refusal is the
\* handler's or the machine's own, and a host is what a handler that got to its end has written.
HandlerFollowsRun ==
    \A e \in Enrolments :
        /\ runs[e].at = "idle" => At(e, None)
        /\ runs[e].at # "idle" => runs[e].request \in Request
        /\ runs[e].at = "refused" => handler[e].at \in {None, "refused"}
        /\ At(e, None) => runs[e].at \in {"idle", "refused"}
        /\ hosts[e] # "none" <=> At(e, "enrolled")
        /\ handler[e].at \in {None, "token", "machine", "tenant", "bootstrap"} => handler[e].template = NoBootstrap
        /\ At(e, "archival") => handler[e].template # NoBootstrap

\* A token and the request that spent it name each other from the redemption on: whoever is past it holds the
\* token, and nobody else ever will.
TokenNamesItsSpender ==
    /\ \A t \in Tokens, e \in Enrolments :
          tokens[t].consumedBy = e => TokenOf(e) = t /\ handler[e].at \in {"survive", "create", "enrolled", "refused"}
    /\ \A e \in Enrolments :
          handler[e].at \in {"survive", "create", "enrolled"} => tokens[TokenOf(e)].consumedBy = e

\* What a handler has read is still true as long as nobody disturbed it.
UndisturbedReadsHold ==
    \A e \in Enrolments \ disturbed :
        /\ handler[e].at \in {"tenant", "bootstrap", "archival", "redeem", "survive", "create"}
              => ~Claimed(MachineOf(e))
        /\ handler[e].at \in {"bootstrap", "archival", "redeem", "survive", "create"} => ~Full
        /\ handler[e].at \in {"redeem", "survive"} /\ handler[e].template # NoBootstrap
              => ~templates[handler[e].template.name].archived

\* A template that is not known to have been in use since its token was spent is archived, so that the second look
\* finds it so.
SpentOnUse ==
    \A e \in Enrolments : handler[e].template # NoBootstrap =>
        /\ At(e, "survive") /\ e \notin inUse => templates[handler[e].template.name].archived
        /\ handler[e].at \in {"create", "enrolled"} => e \in inUse

\* The template a run holds is one it may apply, and one that came from this control plane was in use.
Applicable(e) ==
    /\ runs[e].request.bootstrap # None
    /\ runs[e].template.name = runs[e].request.bootstrap
    /\ runs[e].template.signer \in runs[e].request.signers
    /\ ~runs[e].forged => e \in inUse

\* What a run has done so far is on its machine's disk.
RunIsOnDisk ==
    \A e \in Enrolments : LET d == disk[MachineOf(e)] IN
        /\ runs[e].at # "idle" => runs[e].request.signers \subseteq d.anchor
        /\ runs[e].at \in {"verified", "kept", "written"} => runs[e].request.bootstrap = None \/ Applicable(e)
        /\ runs[e].at \in {"saved", "recorded", "seeded"} => Applicable(e) /\ d.state # None
        /\ runs[e].at \in {"written", "saved", "recorded", "seeded"} => d.credential # None

\* The runs that have the machine's first boot in hand: about to write its seed, with the seed on disk, or done.
Holders(m) ==
    applied[m] \cup ({disk[m].seed} \ {None})
    \cup {e \in Enrolments : runs[e].at \in {"recorded", "seeded"} /\ MachineOf(e) = m}

\* The record admits one run to a machine's first boot, and stands from then on.
OneHolder ==
    \A m \in Machines : \A e \in Holders(m) :
        /\ Holders(m) = {e}
        /\ runs[e].at \in {"recorded", "seeded", "done", "died"} /\ MachineOf(e) = m /\ Applicable(e)
        /\ disk[m].record # NoBootstrap /\ disk[m].credential # None /\ disk[m].state # None

\* What handlers, operators and machines keep between them, wherever a handler fails or a machine is cut off:
\* one host a token, one host a machine, a refusal that leaves nothing behind and spends nothing by itself, and
\* a template that is applied only by a machine that trusts it and that will come back enrolled; with what they
\* rest on, so that every step keeps it.
EnrolmentInv ==
    /\ TypeOK
    /\ HandlerFollowsRun
    /\ TokenNamesItsSpender
    /\ UndisturbedReadsHold
    /\ SpentOnUse
    /\ RunIsOnDisk
    /\ OneHolder
    /\ TokenRedeemedOnce
    /\ OneLiveHostPerMachine
    /\ RefusalKeepsToken
    /\ RefusedLeavesNoHost
    /\ AppliedIsTrusted
    /\ ComesBackEnrolled

-----------------------------------------------------------------------------
(* Enrolment implements Admission. *)

\* The handlers' reads and writes, in whatever order they fall, admit machines as though the token, the machine id
\* and the host limit were looked at in one step; a host's place is given back when it is withdrawn, and its token
\* never is (handleEnroll, CreateEnrolledHost, ConsumeEnrollmentToken).
Admitted == INSTANCE Admission WITH
    Candidates <- Enrolments,
    members <- {[name |-> e, machine |-> MachineOf(e), token |-> TokenOf(e)] : e \in Active},
    spent <- {TokenOf(e) : e \in {h \in Enrolments : hosts[h] # "none"}},
    limit <- tenant.limit
AdmitsInOneStep == Admitted!Spec
=============================================================================
