------------------------------ MODULE MemoryStore ------------------------------
(***************************************************************************)
(* The in-memory Store (internal/store/memory*.go).  Its state is the      *)
(* struct Memory: one Go map per field, keyed the way the code keys it,    *)
(* and swept by hand where the database would cascade.  One mutex guards   *)
(* every method, so a method is one step from a store to a store; each     *)
(* operator below takes the store m and returns the store and the answer.  *)
(*                                                                         *)
(* A slice that is only appended to and evicted from is a map as well,     *)
(* from the place a row was appended at.                                   *)
(*                                                                         *)
(* A host's queue is the set of the jobs in it.  The batch a claim takes   *)
(* is bounded by ten, and no instance queues that many for one host; which *)
(* jobs go first when it does is the subject of the module JobQueue.       *)
(***************************************************************************)
EXTENDS StoreTypes

Memory == {"tenants", "tokens", "hosts", "certs", "jobs", "records", "results", "templates",
           "archivedTemplates", "events", "transitions", "rules", "states", "accounts", "sessions",
           "apiTokens", "shares"}

NewMemory == [f \in Memory |-> CASE f = "tenants" -> Put(Empty, DefaultTenant, FreshTenant("default"))
                                 [] OTHER -> Empty]

\* The keys of one tenant's rows, in the maps that carry the tenant beside the record ...
Beside(f, t) == {k \in DOMAIN f : f[k].tenant = t}

\* ... and in the maps that carry it in the key.
InKey(f, t) == {k \in DOMAIN f : k[1] = t}

Latest(numbers) == CHOOSE v \in numbers : \A w \in numbers : w <= v

\* append.
Place(s) == IF DOMAIN s = {} THEN 1 ELSE Latest(DOMAIN s) + 1
Appended(s, rows) ==
    [i \in DOMAIN s \cup {Place(s) + n - 1 : n \in DOMAIN rows} |->
        IF i \in DOMAIN s THEN s[i] ELSE rows[i - Place(s) + 1]]

\* The oldest of the rows at the places mine go once there are more than max of them.
Evict(s, mine, max) == Without(s, {i \in mine : Cardinality({j \in mine : j >= i}) > max})

-----------------------------------------------------------------------------
(* Tenants. *)

CreateTenant(m, id, t) ==
    IF id = Platform THEN Fail(m, "error")
    ELSE IF id \in DOMAIN m.tenants \/ \E x \in DOMAIN m.tenants : m.tenants[x].slug = t.slug
         THEN Fail(m, "ErrConflict")
    ELSE Done([m EXCEPT !.tenants = Put(@, id, t)])

GetTenant(m, id) == IF id \in DOMAIN m.tenants THEN Found(m.tenants[id]) ELSE Missing("ErrNotFound")

ListTenants(m) == {<<id, m.tenants[id]>> : id \in DOMAIN m.tenants}

UpdateTenant(m, id, patch) ==
    IF id \notin DOMAIN m.tenants THEN Fail(m, "ErrNotFound")
    ELSE LET t == [f \in DOMAIN m.tenants[id] |-> IF f \in DOMAIN patch THEN patch[f] ELSE m.tenants[id][f]]
         IN Ok([m EXCEPT !.tenants[id] = t], t)

DeleteTenant(m, id) ==
    IF id \notin DOMAIN m.tenants THEN Fail(m, "ErrNotFound")
    ELSE LET gone == Beside(m.accounts, id)
             orphaned(f) == {k \in DOMAIN f : f[k].account \in gone}
         IN Done([m EXCEPT
                !.tenants = Without(@, {id}),
                !.tokens = Without(@, Beside(@, id)),
                !.hosts = Without(@, Beside(@, id)),
                !.certs = Without(@, Beside(@, id)),
                !.jobs = Without(@, InKey(@, id)),
                !.records = Without(@, InKey(@, id)),
                !.results = Without(@, InKey(@, id)),
                !.templates = Without(@, InKey(@, id)),
                !.archivedTemplates = Without(@, InKey(@, id)),
                !.events = Without(@, Beside(@, id)),
                !.transitions = Without(@, Beside(@, id)),
                !.rules = Without(@, InKey(@, id)),
                !.states = Without(@, InKey(@, id)),
                !.shares = Without(@, Beside(@, id)),
                !.accounts = Without(@, gone),
                !.sessions = Without(@, orphaned(@)),
                !.apiTokens = Without(@, orphaned(@))])

-----------------------------------------------------------------------------
(* Enrolment tokens, hosts and certificates. *)

\* scopedMemory.host: a host is seen through its own tenant's handle only.
HasHost(m, t, h) == h \in DOMAIN m.hosts /\ m.hosts[h].tenant = t

HasToken(m, t, k, now) == k \in DOMAIN m.tokens /\ m.tokens[k].tenant = t /\ Usable(m.tokens[k].row, now)

LookupCertificate(m, fp) ==
    IF fp \in DOMAIN m.certs THEN Found(m.certs[fp]) ELSE Missing("ErrNotFound")

TenantForEnrollmentToken(m, k, now) ==
    IF k \in DOMAIN m.tokens /\ Usable(m.tokens[k].row, now) THEN Found(m.tokens[k].tenant)
    ELSE Missing("ErrTokenUnusable")

GetEnrollmentToken(m, t, k, now) ==
    IF HasToken(m, t, k, now) THEN Found(m.tokens[k].row) ELSE Missing("ErrTokenUnusable")

CreateEnrollmentToken(m, t, k, expiresAt) ==
    IF t \notin DOMAIN m.tenants THEN Fail(m, "error")
    ELSE IF k \in DOMAIN m.tokens THEN Fail(m, "ErrConflict")
    ELSE Done([m EXCEPT !.tokens = Put(@, k, [tenant |-> t,
                            row |-> [expiresAt |-> expiresAt, consumedByHost |-> None]])])

ConsumeEnrollmentToken(m, t, k, h, now) ==
    IF ~HasToken(m, t, k, now) THEN Fail(m, "ErrTokenUnusable")
    ELSE Done([m EXCEPT !.tokens[k].row.consumedByHost = h])

ListEnrollmentTokens(m, t) == {<<k, m.tokens[k].row>> : k \in Beside(m.tokens, t)}

\* Mutation: a revoked host counts as one in service.
EveryHost(m, t) == Beside(m.hosts, t)

ActiveHosts(m, t) == {h \in Beside(m.hosts, t) : ~m.hosts[h].row.revoked}

CreateEnrolledHost(m, t, h, host, fp, cert) ==
    IF t \notin DOMAIN m.tenants THEN Fail(m, "error")
    ELSE IF /\ m.tenants[t].hostLimit # NoLimit
            /\ Cardinality(ActiveHosts(m, t)) >= m.tenants[t].hostLimit
         THEN Fail(m, "ErrHostLimitReached")
    ELSE IF cert.host # h THEN Fail(m, "error")
    ELSE IF \/ h \in DOMAIN m.hosts
            \/ fp \in DOMAIN m.certs
            \/ /\ host.machineID # None
               /\ \E x \in ActiveHosts(m, t) : m.hosts[x].row.machineID = host.machineID
         THEN Fail(m, "ErrConflict")
    ELSE Done([m EXCEPT !.hosts = Put(@, h, [tenant |-> t, row |-> host]),
                        !.certs = Put(@, fp, [tenant |-> t, row |-> cert])])

DeleteHost(m, t, h) ==
    IF ~HasHost(m, t, h) THEN Fail(m, "ErrNotFound")
    ELSE LET his == {k \in InKey(m.records, t) : m.records[k].host = h}
         IN Done([m EXCEPT
                !.hosts = Without(@, {h}),
                !.certs = Without(@, {fp \in Beside(@, t) : @[fp].row.host = h}),
                !.jobs = Without(@, {<<t, h>>}),
                !.records = Without(@, his),
                !.results = Without(@, his)])

GetHost(m, t, h) == IF HasHost(m, t, h) THEN Found(m.hosts[h].row) ELSE Missing("ErrNotFound")

GetHostByMachineID(m, t, machine) ==
    LET his == {h \in ActiveHosts(m, t) : m.hosts[h].row.machineID = machine}
    IN IF machine = None \/ his = {} THEN Missing("ErrNotFound")
       ELSE Found(m.hosts[CHOOSE h \in his : TRUE].row)

CountHosts(m, t) == HostCounts(Cardinality(Beside(m.hosts, t)), Cardinality(ActiveHosts(m, t)))

ListHosts(m, t) == {<<h, m.hosts[h].row>> : h \in Beside(m.hosts, t)}

\* scopedMemory.update, which the four reports of an agent go through.
UpdateHost(m, t, h, host) ==
    IF ~HasHost(m, t, h) THEN Fail(m, "ErrNotFound")
    ELSE Done([m EXCEPT !.hosts[h].row = host])

RowOf(m, h) == IF h \in DOMAIN m.hosts THEN m.hosts[h].row ELSE NewHost(None)

RecordHeartbeat(m, t, h, now) == UpdateHost(m, t, h, [RowOf(m, h) EXCEPT !.lastSeen = now])
StoreFacts(m, t, h) == UpdateHost(m, t, h, [RowOf(m, h) EXCEPT !.facts = "doc"])
StorePolicy(m, t, h) == UpdateHost(m, t, h, [RowOf(m, h) EXCEPT !.policy = "doc"])
StoreSigners(m, t, h) == UpdateHost(m, t, h, [RowOf(m, h) EXCEPT !.signers = "doc"])

AddCertificate(m, t, fp, cert) ==
    IF ~HasHost(m, t, cert.host) THEN Fail(m, "error")
    ELSE IF fp \in DOMAIN m.certs THEN Done(m)
    ELSE Done([m EXCEPT !.certs = Put(@, fp, [tenant |-> t, row |-> cert])])

Retire(certs, t, fp, at) ==
    IF fp \in DOMAIN certs /\ certs[fp].tenant = t
    THEN [certs EXCEPT ![fp].row = Superseded(@, at)] ELSE certs

SupersedeCertificate(m, t, fp, at) == Done([m EXCEPT !.certs = Retire(@, t, fp, at)])

CountLiveCertificates(m, t, h, now) ==
    Cardinality({fp \in Beside(m.certs, t) : m.certs[fp].row.host = h /\ LiveCertificate(m.certs[fp].row, now)})

RenewCertificate(m, t, fp, cert, presented, supersedeAt, now) ==
    IF ~HasHost(m, t, cert.host) THEN Fail(m, "ErrNotFound")
    ELSE IF CountLiveCertificates(m, t, cert.host, now) >= MaxLive THEN Fail(m, "ErrTooManyCertificates")
    ELSE LET added == IF fp \in DOMAIN m.certs THEN m.certs
                      ELSE Put(m.certs, fp, [tenant |-> t, row |-> cert])
         IN Done([m EXCEPT !.certs = Retire(added, t, presented, supersedeAt)])

RevokeHost(m, t, h) ==
    IF ~HasHost(m, t, h) THEN Fail(m, "ErrNotFound")
    ELSE Done([m EXCEPT
            !.hosts[h].row.revoked = TRUE,
            !.certs = [fp \in DOMAIN @ |-> IF @[fp].tenant = t /\ @[fp].row.host = h
                                          THEN [@[fp] EXCEPT !.row.revoked = TRUE] ELSE @[fp]]])

-----------------------------------------------------------------------------
(* Jobs. *)

QueueOf(m, t, h) == IF <<t, h>> \in DOMAIN m.jobs THEN m.jobs[<<t, h>>] ELSE {}

CreateJob(m, t, id, job) ==
    IF ~HasHost(m, t, job.host) THEN Fail(m, "ErrNotFound")
    ELSE IF \/ <<t, id>> \in DOMAIN m.records
            \/ /\ job.signed
               /\ \E k \in InKey(m.records, t) : /\ m.records[k].host = job.host
                                                 /\ m.records[k].nonce = job.nonce
                                                 /\ m.records[k].signed
         THEN Fail(m, "ErrConflict")
    ELSE Done([m EXCEPT
            !.records = Put(@, <<t, id>>, job),
            !.jobs = IF job.approvalRequired THEN @
                     ELSE Put(@, <<t, job.host>>, QueueOf(m, t, job.host) \cup {id})])

ApproveJob(m, t, id, approver) ==
    IF <<t, id>> \notin DOMAIN m.records THEN Fail(m, "ErrNotFound")
    ELSE LET r == m.records[<<t, id>>]
         IN IF ~r.approvalRequired \/ r.approvedBy # None \/ (r.distinctOperator /\ r.createdBy = approver)
            THEN Fail(m, "ErrConflict")
            ELSE Done([m EXCEPT
                    !.records[<<t, id>>].approvedBy = approver,
                    !.jobs = Put(@, <<t, r.host>>, QueueOf(m, t, r.host) \cup {id})])

ClaimJobs(m, t, h, now) ==
    LET due == {id \in QueueOf(m, t, h) : m.records[<<t, id>>].notBefore <= now}
        left == QueueOf(m, t, h) \ due
    IN IF due = {} THEN Ok(m, {})
       ELSE Ok([m EXCEPT
                !.jobs = IF left = {} THEN Without(@, {<<t, h>>}) ELSE Put(@, <<t, h>>, left),
                !.records = [k \in DOMAIN @ |-> IF k[1] = t /\ k[2] \in due
                                                THEN [@[k] EXCEPT !.claimed = TRUE] ELSE @[k]]], due)

RecordResult(m, t, h, id, status) ==
    LET k == <<t, id>>
    IN IF k \notin DOMAIN m.records THEN Fail(m, "ErrNotFound")
       ELSE IF m.records[k].host # h \/ ~m.records[k].claimed THEN Fail(m, "ErrNotFound")
       ELSE IF k \in DOMAIN m.results THEN Ok(m, FALSE)
       ELSE Ok([m EXCEPT !.results = Put(@, k, status), !.records[k].completed = TRUE], TRUE)

\* withResult: a record and the result it was answered with.
ResultOf(m, k) == IF k \in DOMAIN m.results THEN <<m.results[k]>> ELSE <<>>

GetJob(m, t, id) ==
    IF <<t, id>> \in DOMAIN m.records THEN Found(<<m.records[<<t, id>>], ResultOf(m, <<t, id>>)>>)
    ELSE Missing("ErrNotFound")

ListJobs(m, t, h, awaiting) ==
    {<<k[2], m.records[k], ResultOf(m, k)>> : k \in
        {x \in InKey(m.records, t) : /\ h = None \/ m.records[x].host = h
                                     /\ awaiting => AwaitingApproval(m.records[x])}}

-----------------------------------------------------------------------------
(* Accounts, sessions and API tokens; t is Platform for the platform's own side. *)

HasAccount(m, t, a) == a \in DOMAIN m.accounts /\ m.accounts[a].tenant = t

AccountByEmail(m, email) ==
    LET his == {a \in DOMAIN m.accounts : m.accounts[a].row.email = email}
    IN IF his = {} THEN Missing("ErrNotFound")
       ELSE LET a == CHOOSE x \in his : TRUE IN Found(<<a, m.accounts[a]>>)

Resolve(m, f, k) ==
    IF k \notin DOMAIN f THEN Missing("ErrNotFound")
    ELSE IF f[k].account \notin DOMAIN m.accounts THEN Missing("ErrNotFound")
    ELSE Found(<<f[k], m.accounts[f[k].account]>>)

SessionByToken(m, k) == Resolve(m, m.sessions, k)
APITokenByHash(m, k) == Resolve(m, m.apiTokens, k)

CreateAccount(m, t, a, account) ==
    IF t # Platform /\ t \notin DOMAIN m.tenants THEN Fail(m, "error")
    ELSE IF a \in DOMAIN m.accounts \/ \E x \in DOMAIN m.accounts : m.accounts[x].row.email = account.email
         THEN Fail(m, "ErrConflict")
    ELSE Done([m EXCEPT !.accounts = Put(@, a, [tenant |-> t, row |-> account])])

GetAccount(m, t, a) == IF HasAccount(m, t, a) THEN Found(m.accounts[a].row) ELSE Missing("ErrNotFound")

ListAccounts(m, t) == {<<a, m.accounts[a].row>> : a \in Beside(m.accounts, t)}

UpdateAccountPassword(m, t, a, password) ==
    IF ~HasAccount(m, t, a) THEN Fail(m, "ErrNotFound")
    ELSE Done([m EXCEPT !.accounts[a].row.password = password])

RecordAccountSignIn(m, t, a, now) ==
    IF ~HasAccount(m, t, a) THEN Fail(m, "ErrNotFound")
    ELSE Done([m EXCEPT !.accounts[a].row.signedInAt = now])

\* Mutation: the API tokens are forgotten.
DeleteAccountNotTokens(m, t, a) ==
    LET his(f) == {k \in DOMAIN f : f[k].account = a}
    IN IF ~HasAccount(m, t, a) THEN Fail(m, "ErrNotFound")
       ELSE Done([m EXCEPT !.accounts = Without(@, {a}), !.sessions = Without(@, his(@))])

DeleteAccount(m, t, a) ==
    LET his(f) == {k \in DOMAIN f : f[k].account = a}
    IN IF ~HasAccount(m, t, a) THEN Fail(m, "ErrNotFound")
       ELSE Done([m EXCEPT !.accounts = Without(@, {a}),
                           !.sessions = Without(@, his(@)), !.apiTokens = Without(@, his(@))])

\* Mutation: expired sessions are left where they are.
CreateSessionUnswept(m, t, k, session, now) ==
    IF ~HasAccount(m, t, session.account) THEN Fail(m, "ErrNotFound")
    ELSE Done([m EXCEPT !.sessions = Put(@, k, session)])

CreateSession(m, t, k, session, now) ==
    IF ~HasAccount(m, t, session.account) THEN Fail(m, "ErrNotFound")
    ELSE LET expired == {x \in DOMAIN m.sessions : /\ m.sessions[x].account = session.account
                                                   /\ ~SessionValid(m.sessions[x], now)}
         IN Done([m EXCEPT !.sessions = Put(Without(@, expired), k, session)])

ListSessions(m, t, a) ==
    IF ~HasAccount(m, t, a) THEN Missing("ErrNotFound")
    ELSE Found({<<k, m.sessions[k]>> : k \in {x \in DOMAIN m.sessions : m.sessions[x].account = a}})

Owns(f, k, a) == k \in DOMAIN f /\ f[k].account = a

TouchSession(m, t, a, k, expiresAt) ==
    IF ~HasAccount(m, t, a) \/ ~Owns(m.sessions, k, a) THEN Fail(m, "ErrNotFound")
    ELSE Done([m EXCEPT !.sessions[k].expiresAt = expiresAt])

DeleteSession(m, t, a, k) ==
    IF ~HasAccount(m, t, a) THEN Fail(m, "ErrNotFound")
    ELSE Done(IF Owns(m.sessions, k, a) THEN [m EXCEPT !.sessions = Without(@, {k})] ELSE m)

DeleteSessionsFor(m, t, a) ==
    LET his == {k \in DOMAIN m.sessions : m.sessions[k].account = a}
    IN IF ~HasAccount(m, t, a) THEN Fail(m, "ErrNotFound")
       ELSE Ok([m EXCEPT !.sessions = Without(@, his)], Cardinality(his))

CreateAPIToken(m, t, k, token) ==
    IF ~HasAccount(m, t, token.account) THEN Fail(m, "ErrNotFound")
    ELSE IF k \in DOMAIN m.apiTokens THEN Fail(m, "ErrConflict")
    ELSE Done([m EXCEPT !.apiTokens = Put(@, k, token)])

ListAPITokens(m, t, a) ==
    IF ~HasAccount(m, t, a) THEN Missing("ErrNotFound")
    ELSE Found({<<k, m.apiTokens[k]>> : k \in {x \in DOMAIN m.apiTokens : m.apiTokens[x].account = a}})

TouchAPIToken(m, t, a, k, now) ==
    IF ~HasAccount(m, t, a) \/ ~Owns(m.apiTokens, k, a) THEN Fail(m, "ErrNotFound")
    ELSE Done([m EXCEPT !.apiTokens[k].lastUsedAt = now])

DeleteAPIToken(m, t, a, k) ==
    IF ~HasAccount(m, t, a) \/ ~Owns(m.apiTokens, k, a) THEN Fail(m, "ErrNotFound")
    ELSE Done([m EXCEPT !.apiTokens = Without(@, {k})])

-----------------------------------------------------------------------------
(* Events, unit history, alert rules and the evaluator's memory. *)

RecordEvent(m, t, id, at) ==
    IF t \notin DOMAIN m.tenants THEN Fail(m, "error")
    ELSE LET all == Appended(m.events, <<[tenant |-> t, id |-> id, at |-> at]>>)
         IN Done([m EXCEPT !.events = Evict(all, Beside(all, t), MaxEventsPerTenant)])

ListEvents(m, t) ==
    {[id |-> m.events[i].id, at |-> m.events[i].at] : i \in Beside(m.events, t)}

\* The batch is the units one report found changed, all stamped with its instant.
RecordUnitTransitions(m, t, h, batch, at) ==
    IF batch = <<>> THEN Done(m)
    ELSE IF ~HasHost(m, t, h) THEN Fail(m, "error")
    ELSE LET rows == [i \in DOMAIN batch |-> [tenant |-> t, host |-> h, unit |-> batch[i], at |-> at]]
             all == Appended(m.transitions, rows)
             his == {i \in Beside(all, t) : all[i].host = h}
         IN Done([m EXCEPT !.transitions = Evict(all, his, MaxUnitTransitionsPerHost)])

ListUnitTransitions(m, t, h) ==
    {[unit |-> m.transitions[i].unit, at |-> m.transitions[i].at] :
        i \in {j \in Beside(m.transitions, t) : m.transitions[j].host = h}}

CreateAlertRule(m, t, r, rule) ==
    IF t \notin DOMAIN m.tenants THEN Fail(m, "error")
    ELSE IF <<t, r>> \in DOMAIN m.rules THEN Fail(m, "ErrConflict")
    ELSE Done([m EXCEPT !.rules = Put(@, <<t, r>>, rule)])

ListAlertRules(m, t) == {<<k[2], m.rules[k]>> : k \in InKey(m.rules, t)}

\* The condition is not editable.
UpdateAlertRule(m, t, r, threshold) ==
    IF <<t, r>> \notin DOMAIN m.rules THEN Fail(m, "ErrNotFound")
    ELSE Done([m EXCEPT !.rules[<<t, r>>].threshold = threshold])

RecordAlertDelivery(m, t, r, at) ==
    Done(IF <<t, r>> \in DOMAIN m.rules THEN [m EXCEPT !.rules[<<t, r>>].deliveredAt = at] ELSE m)

DeleteAlertRule(m, t, r) ==
    IF <<t, r>> \notin DOMAIN m.rules THEN Fail(m, "ErrNotFound")
    ELSE Done([m EXCEPT !.rules = Without(@, {<<t, r>>}),
                        !.states = Without(@, {k \in InKey(@, t) : k[2] = r})])

ListAlertStates(m, t) == {<<AlertKey(k[2], k[3]), m.states[k]>> : k \in InKey(m.states, t)}

StateKey(t, key) == <<t, key[1], key[2]>>
StateOf(m, k) == IF k \in DOMAIN m.states THEN m.states[k] ELSE QuietState

UpsertAlertState(m, t, key, state) ==
    IF <<t, key[1]>> \notin DOMAIN m.rules THEN Fail(m, "error")
    ELSE Done([m EXCEPT !.states = Put(@, StateKey(t, key), state)])

ClaimAlertNotification(m, t, key, at, cooldown) ==
    LET k == StateKey(t, key)
        held == StateOf(m, k)
    IN IF <<t, key[1]>> \notin DOMAIN m.rules THEN Fail(m, "error")
       ELSE IF held.lastNotified # 0 /\ held.lastNotified > at - cooldown THEN Ok(m, FALSE)
       ELSE Ok([m EXCEPT !.states = Put(@, k, Notified(held, at))], TRUE)

ReleaseAlertFiring(m, t, key) ==
    LET k == StateKey(t, key)
    IN IF ~StateOf(m, k).firing THEN Ok(m, FALSE)
       ELSE Ok([m EXCEPT !.states[k] = Quieted(@)], TRUE)

-----------------------------------------------------------------------------
(* Templates and wallboard shares. *)

Versions(m, t, name) == {k[3] : k \in {x \in InKey(m.templates, t) : x[2] = name}}

CreateTemplateVersion(m, t, name, template) ==
    LET next == IF Versions(m, t, name) = {} THEN 1 ELSE Latest(Versions(m, t, name)) + 1
    IN IF t \notin DOMAIN m.tenants THEN Fail(m, "error")
       ELSE Ok([m EXCEPT !.templates = Put(@, <<t, name, next>>, template)], next)

Archived(m, t, name) == <<t, name>> \in DOMAIN m.archivedTemplates

ListTemplates(m, t, includeArchived) ==
    {TemplateSummary(name, Latest(Versions(m, t, name)), Archived(m, t, name)) : name \in
        {n \in Names : Versions(m, t, n) # {} /\ (includeArchived \/ ~Archived(m, t, n))}}

ListTemplateVersions(m, t, name) ==
    IF Versions(m, t, name) = {} THEN Missing("ErrNotFound") ELSE Found(Versions(m, t, name))

GetTemplateVersion(m, t, name, version) ==
    LET v == IF version > 0 \/ Versions(m, t, name) = {} THEN version ELSE Latest(Versions(m, t, name))
    IN IF v \in Versions(m, t, name) THEN Found(m.templates[<<t, name, v>>]) ELSE Missing("ErrNotFound")

ArchiveTemplate(m, t, name, by) ==
    IF Versions(m, t, name) = {} THEN Fail(m, "ErrNotFound")
    ELSE IF Archived(m, t, name) THEN Fail(m, "ErrConflict")
    ELSE Done([m EXCEPT !.archivedTemplates = Put(@, <<t, name>>, by)])

RestoreTemplate(m, t, name) ==
    IF Versions(m, t, name) = {} THEN Fail(m, "ErrNotFound")
    ELSE IF ~Archived(m, t, name) THEN Fail(m, "ErrConflict")
    ELSE Done([m EXCEPT !.archivedTemplates = Without(@, {<<t, name>>})])

GetTemplateArchival(m, t, name) == IF Archived(m, t, name) THEN m.archivedTemplates[<<t, name>>] ELSE None

CreateWallboardShare(m, t, id, share, now) ==
    LET live == {x \in Beside(m.shares, t) : ShareLive(m.shares[x].row, now)}
    IN IF t \notin DOMAIN m.tenants THEN Fail(m, "error")
       ELSE IF \/ Cardinality(live) >= MaxWallboardSharesPerTenant
               \/ id \in DOMAIN m.shares
               \/ \E x \in Beside(m.shares, t) : m.shares[x].row.secret = share.secret
            THEN Fail(m, "ErrConflict")
       ELSE Done([m EXCEPT !.shares = Put(@, id, [tenant |-> t, row |-> share])])

ListWallboardShares(m, t) == {<<id, m.shares[id].row>> : id \in Beside(m.shares, t)}

WallboardShareBySecret(m, t, secret, now) ==
    LET his == {x \in Beside(m.shares, t) : m.shares[x].row.secret = secret /\ ShareLive(m.shares[x].row, now)}
    IN IF his = {} THEN Missing("ErrNotFound") ELSE Found(m.shares[CHOOSE x \in his : TRUE].row)

DeleteWallboardShare(m, t, id) ==
    IF id \notin Beside(m.shares, t) THEN Fail(m, "ErrNotFound")
    ELSE Done([m EXCEPT !.shares = Without(@, {id})])

TouchWallboardShare(m, t, id, at) ==
    Done(IF id \in Beside(m.shares, t) THEN [m EXCEPT !.shares[id].row.lastSeenAt = at] ELSE m)
=============================================================================
