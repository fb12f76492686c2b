----------------------------- MODULE PostgresStore -----------------------------
(***************************************************************************)
(* The PostgreSQL Store (internal/store/postgres*.go and the migrations).  *)
(* Its state is the database: one set of rows per table.  What the code    *)
(* leaves to the database is modelled as the database does it: primary     *)
(* keys and unique indexes refuse a row (SQLSTATE 23505, ErrConflict),     *)
(* foreign keys refuse one that references nothing and cascade a deletion, *)
(* and row-level security hides the rows of another side from a            *)
(* transaction, whatever its WHERE clause says.  A method is one           *)
(* transaction, hence one step.                                            *)
(*                                                                         *)
(* Of two constraints broken at once a unique index is reported first: it  *)
(* is checked as the row goes in, a foreign key when the statement ends.   *)
(***************************************************************************)
EXTENDS StoreTypes

Postgres == {"tenants", "enrollment_tokens", "hosts", "certificates", "jobs", "job_results", "templates",
             "template_archivals", "events", "unit_transitions", "alert_rules", "alert_states",
             "accounts", "sessions", "api_tokens", "wallboard_shares"}

\* Migrate leaves every table empty but for the tenant that migration 0004 inserts.
Migrate == [f \in Postgres |-> IF f = "tenants" THEN {[id |-> DefaultTenant, row |-> FreshTenant("default")]}
                               ELSE {}]

-----------------------------------------------------------------------------
(* What the schema does. *)

\* withTenant: the policies of the tables that have a tenant column.
InTenant(table, t) == {r \in table : r.tenant = t}

Has(table, id) == \E r \in table : r.id = id
HasIn(table, t, id) == \E r \in table : r.tenant = t /\ r.id = id

\* The row of a table with this key; a statement reads it only where there is one.
At(table, id) == CHOOSE r \in table : r.id = id
AtIn(table, t, id) == CHOOSE r \in table : r.tenant = t /\ r.id = id

Update(table, P(_), F(_)) == {IF P(r) THEN [r EXCEPT !.row = F(r.row)] ELSE r : r \in table}

\* ON DELETE CASCADE: of every referencing table, the rows whose referenced row is still there.
Cascade(db) ==
    LET tenanted(table) == {r \in table : Has(db.tenants, r.tenant)}
        hosts == tenanted(db.hosts)
        hosted(table) == {r \in table : HasIn(hosts, r.tenant, r.row.host)}
        jobs == hosted(db.jobs)
        rules == tenanted(db.alert_rules)
        accounts == {r \in db.accounts : r.tenant = Platform \/ Has(db.tenants, r.tenant)}
        held(table) == {r \in table : Has(accounts, r.row.account)}
    IN [db EXCEPT
            !.enrollment_tokens = tenanted(@), !.templates = tenanted(@), !.template_archivals = tenanted(@),
            !.events = tenanted(@), !.wallboard_shares = tenanted(@), !.alert_rules = rules,
            !.alert_states = {r \in @ : HasIn(rules, r.tenant, r.id[1])},
            !.hosts = hosts, !.certificates = hosted(@), !.unit_transitions = hosted(@),
            !.jobs = jobs, !.job_results = {r \in @ : HasIn(jobs, r.tenant, r.id)},
            !.accounts = accounts, !.sessions = held(@), !.api_tokens = held(@)]

\* wrap and affectOne: an UPDATE or DELETE that touched no row is ErrNotFound.
AffectOne(db, touched, after) == IF touched THEN Done(after) ELSE Fail(db, "ErrNotFound")

-----------------------------------------------------------------------------
(* Tenants. *)

CreateTenant(db, id, t) ==
    IF id = Platform THEN Fail(db, "error")
    ELSE IF \E r \in db.tenants : r.id = id \/ r.row.slug = t.slug THEN Fail(db, "ErrConflict")
    ELSE Done([db EXCEPT !.tenants = @ \cup {[id |-> id, row |-> t]}])

GetTenant(db, id) == IF Has(db.tenants, id) THEN Found(At(db.tenants, id).row) ELSE Missing("ErrNotFound")

ListTenants(db) == {<<r.id, r.row>> : r \in db.tenants}

\* COALESCE($n, column): a column the patch leaves nil keeps its value.
UpdateTenant(db, id, patch) ==
    LET patched(row) == [f \in DOMAIN row |-> IF f \in DOMAIN patch THEN patch[f] ELSE row[f]]
    IN IF ~Has(db.tenants, id) THEN Fail(db, "ErrNotFound")
       ELSE Ok([db EXCEPT !.tenants = Update(@, LAMBDA r : r.id = id, patched)],
               patched(At(db.tenants, id).row))

DeleteTenant(db, id) ==
    AffectOne(db, Has(db.tenants, id), Cascade([db EXCEPT !.tenants = {r \in @ : r.id # id}]))

-----------------------------------------------------------------------------
(* Enrolment tokens, hosts and certificates. *)

\* withResolveKey: a transaction that knows no tenant is shown the one row whose key it names.
Resolving(table, key) == {r \in table : r.id = key}

LookupCertificate(db, fp) ==
    IF Resolving(db.certificates, fp) = {} THEN Missing("ErrNotFound")
    ELSE LET r == At(Resolving(db.certificates, fp), fp) IN Found([tenant |-> r.tenant, row |-> r.row])

TenantForEnrollmentToken(db, k, now) ==
    LET usable == {r \in Resolving(db.enrollment_tokens, k) : Usable(r.row, now)}
    IN IF usable = {} THEN Missing("ErrTokenUnusable") ELSE Found(At(usable, k).tenant)

UsableTokens(db, t, k, now) == {r \in InTenant(db.enrollment_tokens, t) : r.id = k /\ Usable(r.row, now)}

GetEnrollmentToken(db, t, k, now) ==
    LET usable == UsableTokens(db, t, k, now)
    IN IF usable = {} THEN Missing("ErrTokenUnusable") ELSE Found(At(usable, k).row)

CreateEnrollmentToken(db, t, k, expiresAt) ==
    IF Has(db.enrollment_tokens, k) THEN Fail(db, "ErrConflict")
    ELSE IF ~Has(db.tenants, t) THEN Fail(db, "error")
    ELSE Done([db EXCEPT !.enrollment_tokens = @ \cup {[id |-> k, tenant |-> t,
                    row |-> [expiresAt |-> expiresAt, consumedByHost |-> None]]}])

ConsumeEnrollmentToken(db, t, k, h, now) ==
    IF UsableTokens(db, t, k, now) = {} THEN Fail(db, "ErrTokenUnusable")
    ELSE Done([db EXCEPT !.enrollment_tokens = Update(@, LAMBDA r : r.id = k /\ r.tenant = t,
                                                      LAMBDA row : [row EXCEPT !.consumedByHost = h])])

ListEnrollmentTokens(db, t) == {<<r.id, r.row>> : r \in InTenant(db.enrollment_tokens, t)}

ActiveHosts(db, t) == {r \in InTenant(db.hosts, t) : ~r.row.revoked}

\* The partial unique index hosts_live_machine_id, and the primary keys the two inserts meet.
EnrolmentBreaksIndex(db, t, h, host, fp) ==
    \/ Has(db.hosts, h)
    \/ Has(db.certificates, fp)
    \/ host.machineID # None /\ \E r \in ActiveHosts(db, t) : r.row.machineID = host.machineID

CreateEnrolledHost(db, t, h, host, fp, cert) ==
    IF ~Has(db.tenants, t) THEN Fail(db, "ErrNotFound")
    ELSE IF /\ At(db.tenants, t).row.hostLimit # NoLimit
            /\ Cardinality(ActiveHosts(db, t)) >= At(db.tenants, t).row.hostLimit
         THEN Fail(db, "ErrHostLimitReached")
    ELSE IF EnrolmentBreaksIndex(db, t, h, host, fp) THEN Fail(db, "ErrConflict")
    ELSE IF cert.host # h THEN Fail(db, "error")
    ELSE Done([db EXCEPT !.hosts = @ \cup {[id |-> h, tenant |-> t, row |-> host]},
                         !.certificates = @ \cup {[id |-> fp, tenant |-> t, row |-> cert]}])

DeleteHost(db, t, h) ==
    AffectOne(db, HasIn(db.hosts, t, h),
              Cascade([db EXCEPT !.hosts = {r \in @ : ~(r.tenant = t /\ r.id = h)}]))

GetHost(db, t, h) == IF HasIn(db.hosts, t, h) THEN Found(AtIn(db.hosts, t, h).row) ELSE Missing("ErrNotFound")

GetHostByMachineID(db, t, machine) ==
    LET his == {r \in ActiveHosts(db, t) : r.row.machineID = machine}
    IN IF machine = None \/ his = {} THEN Missing("ErrNotFound") ELSE Found((CHOOSE r \in his : TRUE).row)

CountHosts(db, t) == HostCounts(Cardinality(InTenant(db.hosts, t)), Cardinality(ActiveHosts(db, t)))

ListHosts(db, t) == {<<r.id, r.row>> : r \in InTenant(db.hosts, t)}

\* UPDATE hosts SET column = value WHERE id = h AND tenant_id = t.
SetHost(db, t, h, column, value) ==
    AffectOne(db, HasIn(db.hosts, t, h),
              [db EXCEPT !.hosts = Update(@, LAMBDA r : r.tenant = t /\ r.id = h,
                                          LAMBDA row : [row EXCEPT ![column] = value])])

RecordHeartbeat(db, t, h, now) == SetHost(db, t, h, "lastSeen", now)
StoreFacts(db, t, h) == SetHost(db, t, h, "facts", "doc")
StorePolicy(db, t, h) == SetHost(db, t, h, "policy", "doc")
StoreSigners(db, t, h) == SetHost(db, t, h, "signers", "doc")

\* INSERT ... ON CONFLICT (fingerprint) DO NOTHING.
Recorded(certificates, t, fp, cert) ==
    IF Has(certificates, fp) THEN certificates
    ELSE certificates \cup {[id |-> fp, tenant |-> t, row |-> cert]}

AddCertificate(db, t, fp, cert) ==
    IF ~Has(db.certificates, fp) /\ ~HasIn(db.hosts, t, cert.host) THEN Fail(db, "error")
    ELSE Done([db EXCEPT !.certificates = Recorded(@, t, fp, cert)])

\* superseded_at = LEAST(COALESCE(superseded_at, at), at).
Retired(certificates, t, fp, at) ==
    Update(certificates, LAMBDA r : r.tenant = t /\ r.id = fp, LAMBDA row : Superseded(row, at))

SupersedeCertificate(db, t, fp, at) == Done([db EXCEPT !.certificates = Retired(@, t, fp, at)])

CountLiveCertificates(db, t, h, now) ==
    Cardinality({r \in InTenant(db.certificates, t) : r.row.host = h /\ LiveCertificate(r.row, now)})

RenewCertificate(db, t, fp, cert, presented, supersedeAt, now) ==
    IF ~HasIn(db.hosts, t, cert.host) THEN Fail(db, "ErrNotFound")
    ELSE IF CountLiveCertificates(db, t, cert.host, now) >= MaxLive THEN Fail(db, "ErrTooManyCertificates")
    ELSE Done([db EXCEPT !.certificates = Retired(Recorded(@, t, fp, cert), t, presented, supersedeAt)])

RevokeHost(db, t, h) ==
    AffectOne(db, HasIn(db.hosts, t, h),
        [db EXCEPT
            !.hosts = Update(@, LAMBDA r : r.tenant = t /\ r.id = h, LAMBDA row : [row EXCEPT !.revoked = TRUE]),
            !.certificates = Update(@, LAMBDA r : r.tenant = t /\ r.row.host = h,
                                    LAMBDA row : [row EXCEPT !.revoked = TRUE])])

-----------------------------------------------------------------------------
(* Jobs. *)

\* The primary key and the unique index on a signed payload's nonce.
JobBreaksIndex(db, t, id, job) ==
    \/ HasIn(db.jobs, t, id)
    \/ job.signed /\ \E r \in InTenant(db.jobs, t) : /\ r.row.host = job.host
                                                     /\ r.row.nonce = job.nonce
                                                     /\ r.row.signed

CreateJob(db, t, id, job) ==
    IF JobBreaksIndex(db, t, id, job) THEN Fail(db, "ErrConflict")
    ELSE IF ~HasIn(db.hosts, t, job.host) THEN Fail(db, "ErrNotFound")
    ELSE Done([db EXCEPT !.jobs = @ \cup {[id |-> id, tenant |-> t, row |-> job]}])

ApproveJob(db, t, id, approver) ==
    LET approvable == {r \in InTenant(db.jobs, t) : /\ r.id = id /\ r.row.approvalRequired
                                                    /\ r.row.approvedBy = None
                                                    /\ ~r.row.distinctOperator \/ r.row.createdBy # approver}
    IN IF approvable # {}
       THEN Done([db EXCEPT !.jobs = Update(@, LAMBDA r : r \in approvable,
                                            LAMBDA row : [row EXCEPT !.approvedBy = approver])])
       ELSE Fail(db, IF HasIn(db.jobs, t, id) THEN "ErrConflict" ELSE "ErrNotFound")

ClaimJobs(db, t, h, now) ==
    LET due == {r \in InTenant(db.jobs, t) : /\ r.row.host = h /\ ~r.row.claimed /\ ~r.row.completed
                                             /\ ~r.row.approvalRequired \/ r.row.approvedBy # None
                                             /\ r.row.notBefore <= now}
    IN Ok([db EXCEPT !.jobs = Update(@, LAMBDA r : r \in due, LAMBDA row : [row EXCEPT !.claimed = TRUE])],
          {r.id : r \in due})

RecordResult(db, t, h, id, status) ==
    LET owned == {r \in InTenant(db.jobs, t) : r.id = id /\ r.row.host = h /\ r.row.claimed}
        first == ~HasIn(db.job_results, t, id)
    IN IF owned = {} THEN Fail(db, "ErrNotFound")
       ELSE Ok([db EXCEPT
                !.job_results = IF first THEN @ \cup {[id |-> id, tenant |-> t, row |-> status]} ELSE @,
                !.jobs = Update(@, LAMBDA r : r \in owned, LAMBDA row : [row EXCEPT !.completed = TRUE])],
               first)

\* LEFT JOIN job_results.
Joined(db, r) == IF HasIn(db.job_results, r.tenant, r.id)
                 THEN <<AtIn(db.job_results, r.tenant, r.id).row>> ELSE <<>>

GetJob(db, t, id) ==
    IF HasIn(db.jobs, t, id)
    THEN LET r == AtIn(db.jobs, t, id) IN Found(<<r.row, Joined(db, r)>>)
    ELSE Missing("ErrNotFound")

ListJobs(db, t, h, awaiting) ==
    {<<r.id, r.row, Joined(db, r)>> : r \in {x \in InTenant(db.jobs, t) :
        /\ h = None \/ x.row.host = h
        /\ awaiting => (x.row.approvalRequired /\ x.row.approvedBy = None)}}

-----------------------------------------------------------------------------
(* Accounts, sessions and API tokens.  Their statements name no tenant: row-level security decides alone. *)

\* Mutation: accounts without a policy.
EveryAccount(db, t) == db.accounts

\* withScope and the policy accounts_tenant_isolation.
AccountsOf(db, t) == {r \in db.accounts : r.tenant = t}

\* The policies of sessions and api_tokens: a credential is seen when its account is.
Credentials(db, t, table) == {r \in table : Has(AccountsOf(db, t), r.row.account)}

\* withAccount: first of all, whether this side sees the account.
WithAccount(db, t, a, result) == IF Has(AccountsOf(db, t), a) THEN result ELSE Fail(db, "ErrNotFound")

AccountByEmail(db, email) ==
    LET his == {r \in db.accounts : r.row.email = email}
    IN IF his = {} THEN Missing("ErrNotFound")
       ELSE LET r == CHOOSE x \in his : TRUE IN Found(<<r.id, [tenant |-> r.tenant, row |-> r.row]>>)

\* resolveAccount: the account behind a credential, by the id the credential carries.
ResolveAccount(db, table, k) ==
    IF Resolving(table, k) = {} THEN Missing("ErrNotFound")
    ELSE LET held == At(Resolving(table, k), k).row
         IN IF Resolving(db.accounts, held.account) = {} THEN Missing("ErrNotFound")
            ELSE LET r == At(db.accounts, held.account) IN Found(<<held, [tenant |-> r.tenant, row |-> r.row]>>)

SessionByToken(db, k) == ResolveAccount(db, db.sessions, k)
APITokenByHash(db, k) == ResolveAccount(db, db.api_tokens, k)

CreateAccount(db, t, a, account) ==
    IF \E r \in db.accounts : r.id = a \/ r.row.email = account.email THEN Fail(db, "ErrConflict")
    ELSE IF t # Platform /\ ~Has(db.tenants, t) THEN Fail(db, "error")
    ELSE Done([db EXCEPT !.accounts = @ \cup {[id |-> a, tenant |-> t, row |-> account]}])

GetAccount(db, t, a) ==
    IF Has(AccountsOf(db, t), a) THEN Found(At(AccountsOf(db, t), a).row) ELSE Missing("ErrNotFound")

ListAccounts(db, t) == {<<r.id, r.row>> : r \in AccountsOf(db, t)}

SetAccount(db, t, a, column, value) ==
    AffectOne(db, Has(AccountsOf(db, t), a),
              [db EXCEPT !.accounts = Update(@, LAMBDA r : r \in AccountsOf(db, t) /\ r.id = a,
                                             LAMBDA row : [row EXCEPT ![column] = value])])

UpdateAccountPassword(db, t, a, password) == SetAccount(db, t, a, "password", password)

RecordAccountSignIn(db, t, a, now) == SetAccount(db, t, a, "signedInAt", now)

DeleteAccount(db, t, a) ==
    AffectOne(db, Has(AccountsOf(db, t), a),
              Cascade([db EXCEPT !.accounts = {r \in @ : ~(r \in AccountsOf(db, t) /\ r.id = a)}]))

CreateSession(db, t, k, session, now) ==
    LET swept == {r \in db.sessions : ~(/\ r \in Credentials(db, t, db.sessions)
                                        /\ r.row.account = session.account
                                        /\ r.row.expiresAt <= now)}
    IN WithAccount(db, t, session.account,
           IF Has(swept, k) THEN Fail(db, "ErrConflict")
           ELSE Done([db EXCEPT !.sessions = swept \cup {[id |-> k, row |-> session]}]))

ListSessions(db, t, a) ==
    IF ~Has(AccountsOf(db, t), a) THEN Missing("ErrNotFound")
    ELSE Found({<<r.id, r.row>> : r \in {x \in Credentials(db, t, db.sessions) : x.row.account = a}})

\* The rows a statement naming a credential and its account touches.
Named(db, t, table, a, k) == {r \in Credentials(db, t, table) : r.id = k /\ r.row.account = a}

TouchSession(db, t, a, k, expiresAt) ==
    LET his == Named(db, t, db.sessions, a, k)
    IN WithAccount(db, t, a, AffectOne(db, his # {},
           [db EXCEPT !.sessions = Update(@, LAMBDA r : r \in his, LAMBDA row : [row EXCEPT !.expiresAt = expiresAt])]))

DeleteSession(db, t, a, k) ==
    WithAccount(db, t, a, Done([db EXCEPT !.sessions = @ \ Named(db, t, @, a, k)]))

DeleteSessionsFor(db, t, a) ==
    LET his == {r \in Credentials(db, t, db.sessions) : r.row.account = a}
    IN WithAccount(db, t, a, Ok([db EXCEPT !.sessions = @ \ his], Cardinality(his)))

CreateAPIToken(db, t, k, token) ==
    WithAccount(db, t, token.account,
        IF Has(db.api_tokens, k) THEN Fail(db, "ErrConflict")
        ELSE Done([db EXCEPT !.api_tokens = @ \cup {[id |-> k, row |-> token]}]))

ListAPITokens(db, t, a) ==
    IF ~Has(AccountsOf(db, t), a) THEN Missing("ErrNotFound")
    ELSE Found({<<r.id, r.row>> : r \in {x \in Credentials(db, t, db.api_tokens) : x.row.account = a}})

TouchAPIToken(db, t, a, k, now) ==
    LET his == Named(db, t, db.api_tokens, a, k)
    IN WithAccount(db, t, a, AffectOne(db, his # {},
           [db EXCEPT !.api_tokens = Update(@, LAMBDA r : r \in his, LAMBDA row : [row EXCEPT !.lastUsedAt = now])]))

DeleteAPIToken(db, t, a, k) ==
    LET his == Named(db, t, db.api_tokens, a, k)
    IN WithAccount(db, t, a, AffectOne(db, his # {}, [db EXCEPT !.api_tokens = @ \ his]))

-----------------------------------------------------------------------------
(* Events, unit history, alert rules and the evaluator's memory. *)

\* (at, id) < (at, id), the order events are listed and evicted in.
Before(e, f) == e.row.at < f.row.at \/ (e.row.at = f.row.at /\ e.id < f.id)

RecordEvent(db, t, id, at) ==
    LET all == db.events \cup {[id |-> id, tenant |-> t, row |-> [at |-> at]]}
        newer(e) == {f \in InTenant(all, t) : Before(e, f)}
    IN IF HasIn(db.events, t, id) THEN Fail(db, "ErrConflict")
       ELSE IF ~Has(db.tenants, t) THEN Fail(db, "error")
       ELSE Done([db EXCEPT !.events =
                {e \in all : e.tenant = t => Cardinality(newer(e)) < MaxEventsPerTenant}])

ListEvents(db, t) == {[id |-> e.id, at |-> e.row.at] : e \in InTenant(db.events, t)}

\* DELETE ... WHERE at < (SELECT at ... ORDER BY at DESC OFFSET max - 1 LIMIT 1): a row that ties with the
\* last one inside the bound is kept.
EvictTransitions(table, t, h) ==
    LET his == {r \in table : r.tenant = t /\ r.row.host = h}
        newer(r) == {x \in his : x.row.at > r.row.at}
    IN {r \in table : r \in his => Cardinality(newer(r)) < MaxUnitTransitionsPerHost}

RecordUnitTransitions(db, t, h, batch, at) ==
    LET rows == {[tenant |-> t, row |-> [host |-> h, unit |-> batch[i], at |-> at]] : i \in DOMAIN batch}
    IN IF batch = <<>> THEN Done(db)
       ELSE IF ~HasIn(db.hosts, t, h) THEN Fail(db, "error")
       ELSE Done([db EXCEPT !.unit_transitions = EvictTransitions(@ \cup rows, t, h)])

ListUnitTransitions(db, t, h) ==
    {[unit |-> r.row.unit, at |-> r.row.at] : r \in {x \in InTenant(db.unit_transitions, t) : x.row.host = h}}

CreateAlertRule(db, t, r, rule) ==
    IF HasIn(db.alert_rules, t, r) THEN Fail(db, "ErrConflict")
    ELSE IF ~Has(db.tenants, t) THEN Fail(db, "error")
    ELSE Done([db EXCEPT !.alert_rules = @ \cup {[id |-> r, tenant |-> t, row |-> rule]}])

ListAlertRules(db, t) == {<<x.id, x.row>> : x \in InTenant(db.alert_rules, t)}

SetRule(db, t, r, column, value) ==
    [db EXCEPT !.alert_rules = Update(@, LAMBDA x : x.tenant = t /\ x.id = r,
                                      LAMBDA row : [row EXCEPT ![column] = value])]

UpdateAlertRule(db, t, r, threshold) ==
    AffectOne(db, HasIn(db.alert_rules, t, r),
              SetRule(db, t, r, "threshold", threshold))

RecordAlertDelivery(db, t, r, at) == Done(SetRule(db, t, r, "deliveredAt", at))

DeleteAlertRule(db, t, r) ==
    AffectOne(db, HasIn(db.alert_rules, t, r),
              Cascade([db EXCEPT !.alert_rules = {x \in @ : ~(x.tenant = t /\ x.id = r)}]))

ListAlertStates(db, t) == {<<x.id, x.row>> : x \in InTenant(db.alert_states, t)}

\* INSERT ... ON CONFLICT (tenant_id, rule_id, host_id, subject) DO UPDATE.
PutState(db, t, key, state) ==
    [db EXCEPT !.alert_states = {x \in @ : ~(x.tenant = t /\ x.id = key)}
                                \cup {[id |-> key, tenant |-> t, row |-> state]}]

UpsertAlertState(db, t, key, state) ==
    IF ~HasIn(db.alert_rules, t, key[1]) THEN Fail(db, "error") ELSE Done(PutState(db, t, key, state))

ClaimAlertNotification(db, t, key, at, cooldown) ==
    LET held == IF HasIn(db.alert_states, t, key) THEN AtIn(db.alert_states, t, key).row ELSE QuietState
    IN IF ~HasIn(db.alert_rules, t, key[1]) THEN Fail(db, "error")
       ELSE IF held.lastNotified = 0 \/ held.lastNotified <= at - cooldown
            THEN Ok(PutState(db, t, key, Notified(held, at)), TRUE)
       ELSE Ok(db, FALSE)

ReleaseAlertFiring(db, t, key) ==
    LET firing == {x \in InTenant(db.alert_states, t) : x.id = key /\ x.row.firing}
    IN Ok([db EXCEPT !.alert_states = Update(@, LAMBDA x : x \in firing, Quieted)], firing # {})

-----------------------------------------------------------------------------
(* Templates and wallboard shares. *)

Versions(db, t, name) == {r.id[2] : r \in {x \in InTenant(db.templates, t) : x.id[1] = name}}

Latest(versions) == CHOOSE v \in versions : \A w \in versions : w <= v

CreateTemplateVersion(db, t, name, template) ==
    LET next == IF Versions(db, t, name) = {} THEN 1 ELSE Latest(Versions(db, t, name)) + 1
    IN IF ~Has(db.tenants, t) THEN Fail(db, "error")
       ELSE Ok([db EXCEPT !.templates = @ \cup {[id |-> <<name, next>>, tenant |-> t, row |-> template]}], next)

Archived(db, t, name) == HasIn(db.template_archivals, t, name)

ListTemplates(db, t, includeArchived) ==
    {TemplateSummary(name, Latest(Versions(db, t, name)), Archived(db, t, name)) : name \in
        {n \in Names : Versions(db, t, n) # {} /\ (includeArchived \/ ~Archived(db, t, n))}}

ListTemplateVersions(db, t, name) ==
    IF Versions(db, t, name) = {} THEN Missing("ErrNotFound") ELSE Found(Versions(db, t, name))

GetTemplateVersion(db, t, name, version) ==
    LET v == IF version > 0 \/ Versions(db, t, name) = {} THEN version ELSE Latest(Versions(db, t, name))
    IN IF v \in Versions(db, t, name) THEN Found(AtIn(db.templates, t, <<name, v>>).row)
       ELSE Missing("ErrNotFound")

ArchiveTemplate(db, t, name, by) ==
    IF Versions(db, t, name) = {} THEN Fail(db, "ErrNotFound")
    ELSE IF Archived(db, t, name) THEN Fail(db, "ErrConflict")
    ELSE Done([db EXCEPT !.template_archivals = @ \cup {[id |-> name, tenant |-> t, row |-> by]}])

RestoreTemplate(db, t, name) ==
    IF Versions(db, t, name) = {} THEN Fail(db, "ErrNotFound")
    ELSE IF ~Archived(db, t, name) THEN Fail(db, "ErrConflict")
    ELSE Done([db EXCEPT !.template_archivals = {r \in @ : ~(r.tenant = t /\ r.id = name)}])

GetTemplateArchival(db, t, name) ==
    IF Archived(db, t, name) THEN AtIn(db.template_archivals, t, name).row ELSE None

CreateWallboardShare(db, t, id, share, now) ==
    LET mine == InTenant(db.wallboard_shares, t)
        live == {r \in mine : r.row.expiresAt > now}
    IN IF Cardinality(live) >= MaxWallboardSharesPerTenant THEN Fail(db, "ErrConflict")
       ELSE IF \E r \in mine : r.id = id \/ r.row.secret = share.secret THEN Fail(db, "ErrConflict")
       ELSE IF ~Has(db.tenants, t) THEN Fail(db, "error")
       ELSE Done([db EXCEPT !.wallboard_shares = @ \cup {[id |-> id, tenant |-> t, row |-> share]}])

ListWallboardShares(db, t) == {<<r.id, r.row>> : r \in InTenant(db.wallboard_shares, t)}

WallboardShareBySecret(db, t, secret, now) ==
    LET his == {r \in InTenant(db.wallboard_shares, t) : r.row.secret = secret /\ r.row.expiresAt > now}
    IN IF his = {} THEN Missing("ErrNotFound") ELSE Found((CHOOSE r \in his : TRUE).row)

DeleteWallboardShare(db, t, id) ==
    AffectOne(db, HasIn(db.wallboard_shares, t, id),
              [db EXCEPT !.wallboard_shares = {r \in @ : ~(r.tenant = t /\ r.id = id)}])

TouchWallboardShare(db, t, id, at) ==
    Done([db EXCEPT !.wallboard_shares = Update(@, LAMBDA r : r.tenant = t /\ r.id = id,
                                                LAMBDA row : [row EXCEPT !.lastSeenAt = at])])
=============================================================================
