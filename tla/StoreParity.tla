------------------------------ MODULE StoreParity ------------------------------
(***************************************************************************)
(* Every call of the Store interface, made of both implementations in      *)
(* lock-step.  The server is tested against the in-memory store and run    *)
(* against PostgreSQL, so a difference a caller can notice is a test that  *)
(* passes and a server that fails.  The two are driven with the same       *)
(* arguments from the same clock; the invariants compare every answer and  *)
(* every read, and say what both must keep.                                *)
(*                                                                         *)
(* `area' is the part of the interface a behaviour exercises beside the    *)
(* tenants themselves.  The parts share no rows but tenants and hosts, so  *)
(* exploring them one at a time leaves out no interaction of theirs.       *)
(***************************************************************************)
EXTENDS StoreTypes

CONSTANTS Areas,        \* the parts of the interface explored
          MaxBatch      \* changed units in one report

ASSUME BatchAssumption == MaxBatch \in Nat

VARIABLES area,
          mem, pg,      \* the two stores
          answer,       \* what the last call returned, from each, and whose handle it went through
          now,          \* the clock both read
          drawn         \* event ids drawn: they sort in the order they are made

vars == <<area, mem, pg, answer, now, drawn>>

M == INSTANCE MemoryStore
P == INSTANCE PostgresStore

Sides == Tenants \cup {Platform}

\* How far the clock runs: to the end where two deadlines or several instants matter, else one tick.
Horizon == IF area \in {"certificates", "enrollment_tokens", "events", "history", "shares"} THEN MaxTime ELSE 2
Later == {x \in Time : x > now /\ x <= Horizon}

Call(side, a, b) ==
    /\ mem' = a.st /\ pg' = b.st
    /\ answer' = [side |-> side, mem |-> a.ans, pg |-> b.ans]
    /\ UNCHANGED <<area, now, drawn>>

Init ==
    /\ area \in Areas
    /\ mem = M!NewMemory /\ pg = P!Migrate
    /\ answer = [side |-> Platform, mem |-> Found(TRUE), pg |-> Found(TRUE)]
    /\ now = 1 /\ drawn = 0

Tick ==
    /\ now < Horizon
    /\ now' = now + 1
    /\ answer' = [side |-> Platform, mem |-> Found(TRUE), pg |-> Found(TRUE)]
    /\ UNCHANGED <<area, mem, pg, drawn>>

-----------------------------------------------------------------------------
(* Tenants, in every area. *)

CreateTenant ==
    \E id \in Sides \ {DefaultTenant}, slug \in {"default", "other"} :
        Call(id, M!CreateTenant(mem, id, FreshTenant(slug)), P!CreateTenant(pg, id, FreshTenant(slug)))

UpdateTenant ==
    /\ area = "enrolment"
    /\ \E id \in Tenants, patch \in [hostLimit : {1, NoLimit}] \cup [suspended : {TRUE}] :
        Call(id, M!UpdateTenant(mem, id, patch), P!UpdateTenant(pg, id, patch))

DeleteTenant ==
    \E id \in Tenants : Call(id, M!DeleteTenant(mem, id), P!DeleteTenant(pg, id))

-----------------------------------------------------------------------------
(* Enrolment, hosts and certificates.  A host id, a token and a certificate are drawn at random, so no *)
(* caller names one that another tenant holds; a certificate is its host's for good.                   *)

Enrolling == area \in {"enrolment", "certificates", "jobs", "documents", "history"}

CreateEnrollmentToken ==
    /\ area = "enrollment_tokens"
    /\ \E t \in Tenants, k \in Keys, e \in Later :
        /\ k \in DOMAIN mem.tokens => t \in DOMAIN mem.tenants
        /\ Call(t, M!CreateEnrollmentToken(mem, t, k, e), P!CreateEnrollmentToken(pg, t, k, e))

ConsumeEnrollmentToken ==
    /\ area = "enrollment_tokens"
    /\ \E t \in Tenants, k \in Keys, h \in HostIDs :
        Call(t, M!ConsumeEnrollmentToken(mem, t, k, h, now), P!ConsumeEnrollmentToken(pg, t, k, h, now))

\* Where it does not matter which.
AnyOf(S) == CHOOSE x \in S : TRUE

\* A certificate that is on record, or one that is not: the unrecorded ones are all alike.
Recorded(fp) == fp \in DOMAIN mem.certs
Presentable(fp) == ~Recorded(fp) => fp = AnyOf({f \in Fingerprints : ~Recorded(f)})

CreateEnrolledHost ==
    /\ Enrolling
    /\ \E t \in Tenants, h \in HostIDs, fp \in Fingerprints, machine \in Machines \cup {None} :
        LET host == NewHost(machine)
            cert == NewCertificate(h, MaxTime)
        IN /\ area # "enrolment" => machine = None
           /\ Presentable(fp) /\ (area # "enrolment" => ~Recorded(fp))
           /\ area \in {"certificates", "jobs"} => M!ListHosts(mem, t) = {}
           /\ \A i \in DOMAIN mem.transitions : mem.transitions[i].host # h
           /\ Call(t, M!CreateEnrolledHost(mem, t, h, host, fp, cert),
                      P!CreateEnrolledHost(pg, t, h, host, fp, cert))

DeleteHost ==
    /\ Enrolling
    /\ \E t \in Tenants, h \in HostIDs : Call(t, M!DeleteHost(mem, t, h), P!DeleteHost(pg, t, h))

RevokeHost ==
    /\ area \in {"enrolment", "certificates"}
    /\ \E t \in Tenants, h \in HostIDs : Call(t, M!RevokeHost(mem, t, h), P!RevokeHost(pg, t, h))

Report ==
    /\ area = "documents"
    /\ \E t \in Tenants, h \in HostIDs :
        \/ Call(t, M!RecordHeartbeat(mem, t, h, now), P!RecordHeartbeat(pg, t, h, now))
        \/ Call(t, M!StoreFacts(mem, t, h), P!StoreFacts(pg, t, h))
        \/ Call(t, M!StorePolicy(mem, t, h), P!StorePolicy(pg, t, h))
        \/ Call(t, M!StoreSigners(mem, t, h), P!StoreSigners(pg, t, h))

AddCertificate ==
    /\ area = "certificates"
    /\ \E t \in Tenants, h \in HostIDs, fp \in Fingerprints :
        /\ Presentable(fp)
        /\ Recorded(fp) => mem.certs[fp].tenant = t /\ mem.certs[fp].row.host = h
        /\ LET cert == NewCertificate(h, MaxTime)
           IN Call(t, M!AddCertificate(mem, t, fp, cert), P!AddCertificate(pg, t, fp, cert))

SupersedeCertificate ==
    /\ area = "certificates"
    /\ \E t \in Tenants, fp \in {f \in Fingerprints : Presentable(f)}, at \in Later :
        Call(t, M!SupersedeCertificate(mem, t, fp, at), P!SupersedeCertificate(pg, t, fp, at))

RenewCertificate ==
    /\ area = "certificates"
    /\ \E t \in Tenants, h \in HostIDs, fp, presented \in {f \in Fingerprints : Presentable(f)}, at \in Later :
        LET cert == NewCertificate(h, MaxTime)
        IN Call(t, M!RenewCertificate(mem, t, fp, cert, presented, at, now),
                   P!RenewCertificate(pg, t, fp, cert, presented, at, now))

-----------------------------------------------------------------------------
(* Jobs.  handleCreateJob looks the host up before it gives a job to it. *)

CreateJob ==
    /\ area = "jobs"
    /\ \E t \in Tenants, id \in JobIDs, h \in HostIDs, nonce \in Nonces :
        \E job \in {NewJob(h, nonce, TRUE, 1, AnyOf(Operators), "second_person"),
                   NewJob(h, nonce, FALSE, Horizon, AnyOf(Operators), "none")} :
            /\ M!HasHost(mem, t, h) \/ <<t, id>> \notin DOMAIN mem.records
            /\ Call(t, M!CreateJob(mem, t, id, job), P!CreateJob(pg, t, id, job))

ApproveJob ==
    /\ area = "jobs"
    /\ \E t \in Tenants, id \in JobIDs, by \in Operators :
        Call(t, M!ApproveJob(mem, t, id, by), P!ApproveJob(pg, t, id, by))

ClaimJobs ==
    /\ area = "jobs"
    /\ \E t \in Tenants, h \in HostIDs : Call(t, M!ClaimJobs(mem, t, h, now), P!ClaimJobs(pg, t, h, now))

RecordResult ==
    /\ area = "jobs"
    /\ \E t \in Tenants, h \in HostIDs, id \in JobIDs, status \in {"completed", "failed"} :
        Call(t, M!RecordResult(mem, t, h, id, status), P!RecordResult(pg, t, h, id, status))

-----------------------------------------------------------------------------
(* Accounts and what they sign in with.  A session token is drawn at random and never drawn twice. *)

AccountCall ==
    /\ area = "accounts"
    /\ \E t \in Sides, a \in AccountIDs :
        \/ \E email \in Emails :
            LET account == [email |-> email, password |-> "p1", signedInAt |-> 0]
            IN Call(t, M!CreateAccount(mem, t, a, account), P!CreateAccount(pg, t, a, account))
        \/ Call(t, M!UpdateAccountPassword(mem, t, a, "p2"), P!UpdateAccountPassword(pg, t, a, "p2"))
        \/ Call(t, M!RecordAccountSignIn(mem, t, a, Horizon), P!RecordAccountSignIn(pg, t, a, Horizon))
        \/ Call(t, M!DeleteAccount(mem, t, a), P!DeleteAccount(pg, t, a))

SessionCall ==
    /\ area = "sessions"
    /\ \E t \in Sides, a \in AccountIDs :
        \/ \E e \in {x \in Time : x > now} :
            /\ ~(Keys \subseteq DOMAIN mem.sessions)
            /\ LET k == AnyOf(Keys \ DOMAIN mem.sessions)
                   session == [account |-> a, expiresAt |-> e]
               IN Call(t, M!CreateSession(mem, t, k, session, now), P!CreateSession(pg, t, k, session, now))
        \/ \E k \in Keys : Call(t, M!TouchSession(mem, t, a, k, MaxTime), P!TouchSession(pg, t, a, k, MaxTime))
        \/ \E k \in Keys : Call(t, M!DeleteSession(mem, t, a, k), P!DeleteSession(pg, t, a, k))
        \/ Call(t, M!DeleteSessionsFor(mem, t, a), P!DeleteSessionsFor(pg, t, a))

APITokenCall ==
    /\ area = "api_tokens"
    /\ \E t \in Sides, a \in AccountIDs, k \in Keys :
        \/ LET token == [account |-> a, expiresAt |-> 0, lastUsedAt |-> 0]
           IN Call(t, M!CreateAPIToken(mem, t, k, token), P!CreateAPIToken(pg, t, k, token))
        \/ Call(t, M!TouchAPIToken(mem, t, a, k, now), P!TouchAPIToken(pg, t, a, k, now))
        \/ Call(t, M!DeleteAPIToken(mem, t, a, k), P!DeleteAPIToken(pg, t, a, k))

\* The accounts that sessions and API tokens hang from, without what the accounts' area varies.
CredentialHolder ==
    /\ area \in {"sessions", "api_tokens"}
    /\ \E t \in Sides, a \in AccountIDs, email \in Emails :
        LET account == [email |-> email, password |-> "p1", signedInAt |-> 0]
        IN \/ Call(t, M!CreateAccount(mem, t, a, account), P!CreateAccount(pg, t, a, account))
           \/ Call(t, M!DeleteAccount(mem, t, a), P!DeleteAccount(pg, t, a))

-----------------------------------------------------------------------------
(* The inbox, unit history and alert rules. *)

RecordEvent ==
    /\ area = "events" /\ drawn < MaxEvents
    /\ \E t \in Tenants :
        LET a == M!RecordEvent(mem, t, drawn, now)
            b == P!RecordEvent(pg, t, drawn, now)
        IN /\ mem' = a.st /\ pg' = b.st
           /\ answer' = [side |-> t, mem |-> a.ans, pg |-> b.ans]
    /\ drawn' = drawn + 1
    /\ UNCHANGED <<area, now>>

\* One host's reports carry different instants; the units one report found changed share its instant.
RecordUnitTransitions ==
    /\ area = "history"
    /\ \E t \in Tenants, h \in HostIDs, batch \in {<<>>, <<"nginx">>, <<"nginx", "cron">>} :
        /\ Len(batch) <= MaxBatch
        /\ \A r \in pg.unit_transitions : r.row.host = h => r.row.at # now
        /\ Call(t, M!RecordUnitTransitions(mem, t, h, batch, now), P!RecordUnitTransitions(pg, t, h, batch, now))

AlertRuleCall ==
    /\ area = "alerts"
    /\ \E t \in Tenants, r \in RuleIDs :
        \/ LET rule == [condition |-> "host_silent", threshold |-> 1, deliveredAt |-> 0]
           IN Call(t, M!CreateAlertRule(mem, t, r, rule), P!CreateAlertRule(pg, t, r, rule))
        \/ Call(t, M!UpdateAlertRule(mem, t, r, 2), P!UpdateAlertRule(pg, t, r, 2))
        \/ Call(t, M!RecordAlertDelivery(mem, t, r, Horizon), P!RecordAlertDelivery(pg, t, r, Horizon))
        \/ Call(t, M!DeleteAlertRule(mem, t, r), P!DeleteAlertRule(pg, t, r))

AlertStateCall ==
    /\ area = "alerts"
    /\ \E t \in Tenants, r \in RuleIDs, h \in HostIDs :
        LET key == AlertKey(r, h)
        IN \/ Call(t, M!UpsertAlertState(mem, t, key, QuietState), P!UpsertAlertState(pg, t, key, QuietState))
           \/ Call(t, M!ClaimAlertNotification(mem, t, key, now, 1), P!ClaimAlertNotification(pg, t, key, now, 1))
           \/ Call(t, M!ReleaseAlertFiring(mem, t, key), P!ReleaseAlertFiring(pg, t, key))

-----------------------------------------------------------------------------
(* Templates and wallboard shares.  A share's id is drawn at random. *)

TemplateCall ==
    /\ area = "templates"
    /\ \E t \in Tenants, name \in Names :
        \/ \E body \in {"b1", "b2"} :
            /\ Cardinality(P!Versions(pg, t, name)) < MaxVersions
            /\ Call(t, M!CreateTemplateVersion(mem, t, name, [body |-> body]),
                       P!CreateTemplateVersion(pg, t, name, [body |-> body]))
        \/ \E by \in Operators : Call(t, M!ArchiveTemplate(mem, t, name, by), P!ArchiveTemplate(pg, t, name, by))
        \/ Call(t, M!RestoreTemplate(mem, t, name), P!RestoreTemplate(pg, t, name))

WallboardCall ==
    /\ area = "shares"
    /\ \E t \in Tenants, id \in Names :
        \/ \E secret \in Keys, e \in Later :
            /\ id \in DOMAIN mem.shares => mem.shares[id].tenant = t
            /\ LET share == [secret |-> secret, expiresAt |-> e, lastSeenAt |-> 0]
               IN Call(t, M!CreateWallboardShare(mem, t, id, share, now),
                          P!CreateWallboardShare(pg, t, id, share, now))
        \/ Call(t, M!DeleteWallboardShare(mem, t, id), P!DeleteWallboardShare(pg, t, id))
        \/ Call(t, M!TouchWallboardShare(mem, t, id, now), P!TouchWallboardShare(pg, t, id, now))

Next ==
    \/ Tick \/ CreateTenant \/ UpdateTenant \/ DeleteTenant
    \/ CreateEnrollmentToken \/ ConsumeEnrollmentToken \/ CreateEnrolledHost \/ DeleteHost \/ RevokeHost
    \/ Report \/ AddCertificate \/ SupersedeCertificate \/ RenewCertificate
    \/ CreateJob \/ ApproveJob \/ ClaimJobs \/ RecordResult
    \/ AccountCall \/ SessionCall \/ APITokenCall \/ CredentialHolder
    \/ RecordEvent \/ RecordUnitTransitions \/ AlertRuleCall \/ AlertStateCall
    \/ TemplateCall \/ WallboardCall

Spec == Init /\ [][Next]_vars

-----------------------------------------------------------------------------
(* Properties. *)

MapsTo(f, keys, values) == DOMAIN f \subseteq keys /\ \A k \in DOMAIN f : f[k] \in values
Belonging(sides, rows) == [tenant : sides, row : rows]
Ours(rows) == Belonging(Tenants, rows)

\* Every row is one the schema could hold; versions count from one, zero being a caller's word for the latest.
TypeOK ==
    /\ area \in Areas /\ now \in 1 .. MaxTime /\ drawn \in 0 .. MaxEvents
    /\ DOMAIN mem = M!Memory /\ DOMAIN pg = P!Postgres
    /\ answer.side \in Sides /\ answer.mem.err \in Answers /\ answer.pg.err \in Answers
    /\ MapsTo(mem.tenants, Tenants, Tenant)
    /\ MapsTo(mem.tokens, Keys, Ours(EnrollmentToken))
    /\ MapsTo(mem.hosts, HostIDs, Ours(Host))
    /\ MapsTo(mem.certs, Fingerprints, Ours(Certificate))
    /\ MapsTo(mem.jobs, Tenants \X HostIDs, SUBSET JobIDs)
    /\ MapsTo(mem.records, Tenants \X JobIDs, JobRecord)
    /\ MapsTo(mem.results, Tenants \X JobIDs, {"completed", "failed"})
    /\ MapsTo(mem.templates, Tenants \X Names \X (1 .. MaxVersions), TemplateVersion)
    /\ MapsTo(mem.archivedTemplates, Tenants \X Names, Operators)
    /\ MapsTo(mem.events, Nat \ {0}, [tenant : Tenants, id : Nat, at : Time])
    /\ MapsTo(mem.transitions, Nat \ {0}, [tenant : Tenants, host : HostIDs, unit : {"nginx", "cron"}, at : Time])
    /\ MapsTo(mem.rules, Tenants \X RuleIDs, AlertRule)
    /\ MapsTo(mem.states, Tenants \X RuleIDs \X HostIDs, AlertState)
    /\ MapsTo(mem.accounts, AccountIDs, Belonging(Sides, Account))
    /\ MapsTo(mem.sessions, Keys, Session)
    /\ MapsTo(mem.apiTokens, Keys, APIToken)
    /\ MapsTo(mem.shares, Names, Ours(WallboardShare))

Refused(ans) == ans.err # "nil"

\* Both stores answer a call alike: what one accepts the other accepts, with the same value (memory.go's
\* promise that a test against Memory says something about the shipped store), and a refusal of a call made
\* for a fleet that exists is the same sentinel, so that a handler maps it to the same status ("Sentinel
\* errors every implementation returns for the same conditions").
StoresAgree ==
    [][/\ Refused(answer'.mem) <=> Refused(answer'.pg)
       /\ answer'.mem.val = answer'.pg.val
       /\ \/ answer'.mem.err = answer'.pg.err
          \/ answer'.side \in Tenants \ DOMAIN mem.tenants]_vars

\* Every read gives the same rows from both stores, to every side, with every argument.
ReadsAgree ==
    /\ M!ListTenants(mem) = P!ListTenants(pg)
    /\ \A t \in Tenants :
        /\ M!GetTenant(mem, t) = P!GetTenant(pg, t)
        /\ M!ListEnrollmentTokens(mem, t) = P!ListEnrollmentTokens(pg, t)
        /\ M!ListHosts(mem, t) = P!ListHosts(pg, t)
        /\ M!CountHosts(mem, t) = P!CountHosts(pg, t)
        /\ M!ListEvents(mem, t) = P!ListEvents(pg, t)
        /\ M!ListAlertRules(mem, t) = P!ListAlertRules(pg, t)
        /\ M!ListAlertStates(mem, t) = P!ListAlertStates(pg, t)
        /\ M!ListWallboardShares(mem, t) = P!ListWallboardShares(pg, t)
        /\ \A k \in Keys :
            /\ M!GetEnrollmentToken(mem, t, k, now) = P!GetEnrollmentToken(pg, t, k, now)
            /\ M!WallboardShareBySecret(mem, t, k, now) = P!WallboardShareBySecret(pg, t, k, now)
        /\ \A h \in HostIDs :
            /\ M!GetHost(mem, t, h) = P!GetHost(pg, t, h)
            /\ M!CountLiveCertificates(mem, t, h, now) = P!CountLiveCertificates(pg, t, h, now)
            /\ \A awaiting \in BOOLEAN : M!ListJobs(mem, t, h, awaiting) = P!ListJobs(pg, t, h, awaiting)
            /\ M!HasHost(mem, t, h) => M!ListUnitTransitions(mem, t, h) = P!ListUnitTransitions(pg, t, h)
        /\ \A machine \in Machines \cup {None} :
            M!GetHostByMachineID(mem, t, machine) = P!GetHostByMachineID(pg, t, machine)
        /\ \A id \in JobIDs : M!GetJob(mem, t, id) = P!GetJob(pg, t, id)
        /\ \A name \in Names :
            /\ M!ListTemplateVersions(mem, t, name) = P!ListTemplateVersions(pg, t, name)
            /\ M!GetTemplateArchival(mem, t, name) = P!GetTemplateArchival(pg, t, name)
            /\ \A v \in 0 .. MaxVersions :
                M!GetTemplateVersion(mem, t, name, v) = P!GetTemplateVersion(pg, t, name, v)
        /\ \A all \in BOOLEAN : M!ListTemplates(mem, t, all) = P!ListTemplates(pg, t, all)
    /\ \A t \in Sides :
        /\ M!ListAccounts(mem, t) = P!ListAccounts(pg, t)
        /\ \A a \in AccountIDs :
            /\ M!GetAccount(mem, t, a) = P!GetAccount(pg, t, a)
            /\ M!ListSessions(mem, t, a) = P!ListSessions(pg, t, a)
            /\ M!ListAPITokens(mem, t, a) = P!ListAPITokens(pg, t, a)
    /\ \A k \in Keys :
        /\ M!TenantForEnrollmentToken(mem, k, now) = P!TenantForEnrollmentToken(pg, k, now)
        /\ M!SessionByToken(mem, k) = P!SessionByToken(pg, k)
        /\ M!APITokenByHash(mem, k) = P!APITokenByHash(pg, k)
    /\ \A fp \in Fingerprints : M!LookupCertificate(mem, fp) = P!LookupCertificate(pg, fp)
    /\ \A email \in Emails : M!AccountByEmail(mem, email) = P!AccountByEmail(pg, email)

\* Nothing a tenant, a host, an account or a rule owned is left when the owner is gone, so nobody who is
\* given the identifier next can reach it (Memory.DeleteTenant, DeleteHost, DeleteAccount, DeleteAlertRule).
NothingOutlivesItsOwner ==
    /\ \A h \in DOMAIN mem.hosts : mem.hosts[h].tenant \in DOMAIN mem.tenants
    /\ \A k \in DOMAIN mem.tokens : mem.tokens[k].tenant \in DOMAIN mem.tenants
    /\ \A s \in DOMAIN mem.shares : mem.shares[s].tenant \in DOMAIN mem.tenants
    /\ \A a \in DOMAIN mem.accounts : mem.accounts[a].tenant \in DOMAIN mem.tenants \cup {Platform}
    /\ \A fp \in DOMAIN mem.certs : M!HasHost(mem, mem.certs[fp].tenant, mem.certs[fp].row.host)
    /\ \A k \in DOMAIN mem.records : M!HasHost(mem, k[1], mem.records[k].host)
    /\ \A k \in DOMAIN mem.jobs : M!HasHost(mem, k[1], k[2])
    /\ \A k \in DOMAIN mem.results : k \in DOMAIN mem.records
    /\ \A k \in DOMAIN mem.states : <<k[1], k[2]>> \in DOMAIN mem.rules
    /\ \A k \in DOMAIN mem.rules \cup DOMAIN mem.templates : k[1] \in DOMAIN mem.tenants
    /\ \A k \in DOMAIN mem.archivedTemplates : M!Versions(mem, k[1], k[2]) # {}
    /\ \A k \in DOMAIN mem.sessions : mem.sessions[k].account \in DOMAIN mem.accounts
    /\ \A k \in DOMAIN mem.apiTokens : mem.apiTokens[k].account \in DOMAIN mem.accounts
    /\ \A i \in DOMAIN mem.events : mem.events[i].tenant \in DOMAIN mem.tenants
    /\ \A i \in DOMAIN mem.transitions : mem.transitions[i].tenant \in DOMAIN mem.tenants

\* The memory store's queue and its history, two maps the code keeps apart, tell the same story: queued is
\* exactly what has been released and not yet claimed (Memory.jobs and Memory.records).
QueueMatchesHistory ==
    \A k \in DOMAIN mem.records :
        LET r == mem.records[k]
        IN k[2] \in M!QueueOf(mem, k[1], r.host) <=> ~AwaitingApproval(r) /\ ~r.claimed

\* What one fleet's history holds is bounded, and what is evicted is the oldest
\* ("MaxEventsPerTenant bounds the inbox, oldest evicted first", and the same of unit transitions).
HistoryIsBounded ==
    /\ \A t \in Tenants : Cardinality(P!InTenant(pg.events, t)) <= MaxEventsPerTenant
    /\ \A t \in Tenants, h \in HostIDs :
        Cardinality({r \in P!InTenant(pg.unit_transitions, t) : r.row.host = h}) <= MaxUnitTransitionsPerHost

\* One machine has at most one host in service per fleet (the index hosts_live_machine_id).
OneLiveHostPerMachine ==
    \A t \in Tenants : \A g, h \in P!ActiveHosts(pg, t) :
        g.row.machineID = h.row.machineID /\ g.row.machineID # None => g = h

-----------------------------------------------------------------------------
(* Why they hold: what every call keeps. *)

\* The rows of the table that a map of the memory store stands for: keyed by an id that is nobody's, by one with
\* the fleet beside it, by fleet and id, and by fleet and an id of two parts.
Keyed(f) == {[id |-> k, row |-> f[k]] : k \in DOMAIN f}
Owned(f) == {[id |-> k, tenant |-> f[k].tenant, row |-> f[k].row] : k \in DOMAIN f}
Inside(f) == {[id |-> k[2], tenant |-> k[1], row |-> f[k]] : k \in DOMAIN f}
InsideTwice(f) == {[id |-> <<k[2], k[3]>>, tenant |-> k[1], row |-> f[k]] : k \in DOMAIN f}
EventRow(e) == [id |-> e.id, tenant |-> e.tenant, row |-> [at |-> e.at]]
TransitionRow(x) == [tenant |-> x.tenant, row |-> [host |-> x.host, unit |-> x.unit, at |-> x.at]]

\* The memory store keeps the unit history of a host that was deleted; nobody is shown it.
Shown == {i \in DOMAIN mem.transitions : M!HasHost(mem, mem.transitions[i].tenant, mem.transitions[i].host)}

\* The database is what the memory store holds, table by table.
TablesMirrorMaps ==
    /\ pg.tenants = Keyed(mem.tenants) /\ pg.enrollment_tokens = Owned(mem.tokens)
    /\ pg.hosts = Owned(mem.hosts) /\ pg.certificates = Owned(mem.certs)
    /\ pg.jobs = Inside(mem.records) /\ pg.job_results = Inside(mem.results)
    /\ pg.templates = InsideTwice(mem.templates) /\ pg.template_archivals = Inside(mem.archivedTemplates)
    /\ pg.events = {EventRow(mem.events[i]) : i \in DOMAIN mem.events}
    /\ pg.unit_transitions = {TransitionRow(mem.transitions[i]) : i \in Shown}
    /\ pg.alert_rules = Inside(mem.rules) /\ pg.alert_states = InsideTwice(mem.states)
    /\ pg.accounts = Owned(mem.accounts) /\ pg.sessions = Keyed(mem.sessions)
    /\ pg.api_tokens = Keyed(mem.apiTokens) /\ pg.wallboard_shares = Owned(mem.shares)

\* What the unique indexes of the database keep, the memory store keeps by looking.
IndexesHold ==
    /\ \A g, h \in DOMAIN mem.hosts :
        /\ mem.hosts[g].tenant = mem.hosts[h].tenant /\ ~mem.hosts[g].row.revoked /\ ~mem.hosts[h].row.revoked
        /\ mem.hosts[g].row.machineID = mem.hosts[h].row.machineID /\ mem.hosts[g].row.machineID # None
        => g = h
    /\ \A a, b \in DOMAIN mem.accounts : mem.accounts[a].row.email = mem.accounts[b].row.email => a = b
    /\ \A x, y \in DOMAIN mem.shares :
        mem.shares[x].tenant = mem.shares[y].tenant /\ mem.shares[x].row.secret = mem.shares[y].row.secret => x = y

\* A queue holds jobs of its own host and fleet.
QueuesHoldTheirOwn ==
    \A k \in DOMAIN mem.jobs : \A id \in mem.jobs[k] :
        <<k[1], id>> \in DOMAIN mem.records /\ mem.records[<<k[1], id>>].host = k[2]

\* Only a released job is claimed, only a claimed one is completed, and one with a result is.
OutcomesFollowClaims ==
    /\ \A k \in DOMAIN mem.records : mem.records[k].claimed => ~AwaitingApproval(mem.records[k])
    /\ \A k \in DOMAIN mem.records : mem.records[k].completed => mem.records[k].claimed
    /\ \A k \in DOMAIN mem.results : mem.records[k].completed

\* Histories were appended to in the order of their instants, and of their ids where they have any.
HistoryInOrder ==
    /\ \A i \in DOMAIN mem.events : mem.events[i].at <= now /\ mem.events[i].id < drawn
    /\ \A i, j \in DOMAIN mem.events :
        i < j => mem.events[i].id < mem.events[j].id /\ mem.events[i].at <= mem.events[j].at
    /\ \A i \in DOMAIN mem.transitions : mem.transitions[i].at <= now
    /\ \A i, j \in DOMAIN mem.transitions :
        i < j /\ mem.transitions[i].tenant = mem.transitions[j].tenant
              /\ mem.transitions[i].host = mem.transitions[j].host
            => mem.transitions[i].at < mem.transitions[j].at

\* The versions of a name count up from one.
VersionsCountUp ==
    \A k \in DOMAIN mem.templates : \A v \in 1 .. k[3] : <<k[1], k[2], v>> \in DOMAIN mem.templates

\* Nobody has called infinitely often.
FinitelyMany ==
    \A f \in {"hosts", "certs", "sessions", "shares", "events", "transitions"} : IsFiniteSet(DOMAIN mem[f])

\* Of a report with several changes the two stores keep a different part where it reaches the cap, and the memory
\* store's ties have no order (README, section 5).
OneUnitPerReport == MaxBatch <= 1

\* What both stores keep through every sequence of calls: nothing outlives its owner, the memory store's two
\* maps tell one story, histories stay bounded, and a machine has one host in service; with the relation of the
\* two that this rests on.
StoreInv ==
    /\ TypeOK
    /\ NothingOutlivesItsOwner
    /\ QueueMatchesHistory
    /\ HistoryIsBounded
    /\ OneLiveHostPerMachine
    /\ TablesMirrorMaps /\ IndexesHold /\ QueuesHoldTheirOwn /\ OutcomesFollowClaims
    /\ HistoryInOrder /\ VersionsCountUp /\ FinitelyMany

\* Everything in the database that belongs to one side.
RowsOf(db, t) ==
    [hosts |-> P!InTenant(db.hosts, t), certificates |-> P!InTenant(db.certificates, t),
     tokens |-> P!InTenant(db.enrollment_tokens, t), jobs |-> P!InTenant(db.jobs, t),
     results |-> P!InTenant(db.job_results, t), templates |-> P!InTenant(db.templates, t),
     archivals |-> P!InTenant(db.template_archivals, t), events |-> P!InTenant(db.events, t),
     transitions |-> P!InTenant(db.unit_transitions, t), rules |-> P!InTenant(db.alert_rules, t),
     states |-> P!InTenant(db.alert_states, t), shares |-> P!InTenant(db.wallboard_shares, t),
     accounts |-> P!InTenant(db.accounts, t), sessions |-> P!Credentials(db, t, db.sessions),
     apiTokens |-> P!Credentials(db, t, db.api_tokens)]

\* A call through one side's handle changes no row of another side, in either direction between fleets and
\* the platform: the account statements name no tenant, so row-level security is all that keeps this.
SidesAreIsolated ==
    [][\A t \in Sides : t # answer'.side => RowsOf(pg', t) = RowsOf(pg, t)]_pg
=============================================================================
