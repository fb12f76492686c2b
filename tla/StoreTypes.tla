------------------------------ MODULE StoreTypes ------------------------------
(***************************************************************************)
(* The rows of the Store interface (internal/store/store.go), as both of   *)
(* its implementations hold them: MemoryStore and PostgresStore.  A field  *)
(* is kept when a condition of either implementation reads it, or when it  *)
(* is what a caller gets back; labels, names and contents are left out.    *)
(*                                                                         *)
(* The zero value of an identifier is None, of a time is 0; the clock      *)
(* starts at 1.  Platform is the empty tenant id, the side of the accounts *)
(* that belong to nobody's fleet.                                          *)
(***************************************************************************)
EXTENDS Integers, FiniteSets, Sequences

CONSTANTS
    Tenants, DefaultTenant,             \* fleets; the one a fresh store holds
    HostIDs, Machines, Fingerprints,    \* hosts, machine-id hashes, certificates
    Keys,                               \* hashes of secrets: tokens, sessions, shares
    JobIDs, Nonces, Operators,          \* jobs and who creates or approves them
    AccountIDs, Emails, RuleIDs, Names, \* accounts, alert rules, template names
    MaxTime,                            \* bound on the clock
    MaxVersions,                        \* bound on template versions per name
    MaxEvents,                          \* bound on events ever recorded
    MaxLive,                            \* live certificates per host
    MaxEventsPerTenant, MaxUnitTransitionsPerHost, MaxWallboardSharesPerTenant

None == "none"
Platform == ""

ASSUME DefaultTenantAssumption == DefaultTenant \in Tenants /\ Platform \notin Tenants

ASSUME BoundsAssumption ==
    /\ \A c \in {MaxVersions, MaxEvents, MaxLive, MaxEventsPerTenant, MaxUnitTransitionsPerHost,
                 MaxWallboardSharesPerTenant} : c \in Nat
    /\ MaxTime \in Nat /\ MaxTime >= 2
    /\ Operators # {} /\ None \notin Operators

NoLimit == 99
Time == 0 .. MaxTime

-----------------------------------------------------------------------------
(* Rows. *)

Modes == {"none", "self", "second_person"}

Tenant == [slug : {"default", "other"}, approvalMode : Modes,
           hostLimit : {0, 1, NoLimit}, suspended : BOOLEAN]

\* A patch names the one setting it carries; the others are nil.
TenantPatch == [approvalMode : Modes] \cup [hostLimit : {0, 1, NoLimit}] \cup [suspended : BOOLEAN]

FreshTenant(slug) == [slug |-> slug, approvalMode |-> "none", hostLimit |-> NoLimit, suspended |-> FALSE]

EnrollmentToken == [expiresAt : Time, consumedByHost : HostIDs \cup {None}]

Usable(token, now) == token.consumedByHost = None /\ now < token.expiresAt

Host == [machineID : Machines \cup {None}, revoked : BOOLEAN, lastSeen : Time,
         facts : {None, "doc"}, policy : {None, "doc"}, signers : {None, "doc"}]

NewHost(machine) == [machineID |-> machine, revoked |-> FALSE, lastSeen |-> 0,
                     facts |-> None, policy |-> None, signers |-> None]

HostCounts(total, active) == [total |-> total, active |-> active]

Certificate == [host : HostIDs, notAfter : Time, revoked : BOOLEAN, supersededAt : Time]

NewCertificate(h, notAfter) == [host |-> h, notAfter |-> notAfter, revoked |-> FALSE, supersededAt |-> 0]

\* A certificate counts against the limit while an agent could still use it.
LiveCertificate(c, now) == ~c.revoked /\ c.notAfter > now
                           /\ (c.supersededAt = 0 \/ c.supersededAt > now)

\* A replacement never puts a retirement off: the earlier of the two stands.
Superseded(c, at) == [c EXCEPT !.supersededAt = IF @ = 0 \/ at < @ THEN at ELSE @]

JobRecord == [host : HostIDs, nonce : Nonces, signed : BOOLEAN, notBefore : Time, createdBy : Operators,
              approvalRequired : BOOLEAN, distinctOperator : BOOLEAN,
              approvedBy : Operators \cup {None}, claimed : BOOLEAN, completed : BOOLEAN]

NewJob(h, nonce, signed, notBefore, by, mode) ==
    [host |-> h, nonce |-> nonce, signed |-> signed, notBefore |-> notBefore, createdBy |-> by,
     approvalRequired |-> mode # "none", distinctOperator |-> mode = "second_person",
     approvedBy |-> None, claimed |-> FALSE, completed |-> FALSE]

AwaitingApproval(r) == r.approvalRequired /\ r.approvedBy = None

Account == [email : Emails, password : {"p1", "p2"}, signedInAt : Time]

Session == [account : AccountIDs, expiresAt : Time]

SessionValid(s, now) == now < s.expiresAt

\* An expiry of zero is a token that does not expire.
APIToken == [account : AccountIDs, expiresAt : Time, lastUsedAt : Time]

AlertRule == [condition : {"host_silent", "unit_failed"}, threshold : {1, 2}, deliveredAt : Time]

AlertKey(rule, host) == <<rule, host>>

AlertState == [firing : BOOLEAN, since : Time, lastNotified : Time]

QuietState == [firing |-> FALSE, since |-> 0, lastNotified |-> 0]

\* What claiming a notification leaves behind.
Notified(s, at) == [firing |-> TRUE, since |-> IF s.since = 0 THEN at ELSE s.since, lastNotified |-> at]

\* What ending a firing leaves behind: the reminder clock is kept.
Quieted(s) == [s EXCEPT !.firing = FALSE, !.since = 0]

TemplateVersion == [body : {"b1", "b2"}]

\* One line of a listing: the latest version, and whether the name was withdrawn.
TemplateSummary(name, version, archived) == [name |-> name, latest |-> version, archived |-> archived]

WallboardShare == [secret : Keys, expiresAt : Time, lastSeenAt : Time]

ShareLive(s, now) == now < s.expiresAt

-----------------------------------------------------------------------------
(* What a call returns: the store afterwards, and the answer. *)

Answers == {"nil", "ErrNotFound", "ErrConflict", "ErrTooManyCertificates", "ErrTokenUnusable",
            "ErrHostLimitReached", "error"}

Ok(store, value) == [st |-> store, ans |-> [err |-> "nil", val |-> <<value>>]]
Done(store) == [st |-> store, ans |-> [err |-> "nil", val |-> <<>>]]
Fail(store, err) == [st |-> store, ans |-> [err |-> err, val |-> <<>>]]

Found(value) == [err |-> "nil", val |-> <<value>>]
Missing(err) == [err |-> err, val |-> <<>>]

-----------------------------------------------------------------------------
(* Partial functions, which is what a Go map is. *)

Put(f, k, v) == [x \in DOMAIN f \cup {k} |-> IF x = k THEN v ELSE f[x]]
Without(f, S) == [x \in DOMAIN f \ S |-> f[x]]
Empty == [x \in {} |-> x]
=============================================================================
