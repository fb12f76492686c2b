-------------------------------- MODULE Alerts --------------------------------
(***************************************************************************)
(* One tenant's alert rules on a control plane of several replicas         *)
(* (internal/server/alerts.go, alertsapi.go, servicesapi.go), and the way  *)
(* an event leaves a replica (eventsapi.go, drainOutbound in server.go).   *)
(*                                                                         *)
(* Two things notify.  Every replica's evaluator reads the rules, then the *)
(* hosts, then the alert states, and then moves each host's state on, one  *)
(* store call at a time.  And a heartbeat that finds a unit changed emits  *)
(* an event, which a detached delivery routes to the rules that watch      *)
(* units.  Both decide with one compare-and-set on the state row of the    *)
(* (rule, host, subject) key; what was read before it may be stale.        *)
(*                                                                         *)
(* The writes that only report (an event's row in the inbox, how a mail    *)
(* went) may fail: the code logs that, and goes on.                        *)
(*                                                                         *)
(* The last seven variables are history, which no step reads: what was     *)
(* announced without a row, the notifications somebody won the right to    *)
(* send and that are not settled, those whose failure could not be         *)
(* written down, what each key's recipients were last told and when, the   *)
(* keys whose row a stale write has since undone, and the replicas whose   *)
(* shutdown did not wait for the end of a pass.                            *)
(***************************************************************************)
EXTENDS Integers, FiniteSets, Sequences, FiniteSetsExt

CONSTANTS
    Replicas, Hosts, Units, RuleIDs,
    Deployments,            \* the [replicas, hosts, condition, acts, until] explored: acts is what else may
                            \* happen, until is how far the clock runs
    FactsDocs,              \* the [backlog, reboot] a report may carry
    Watched,                \* the units the host's policy watches
    Thresholds,             \* what a rule may be asked for: ticks, counts or days
    Cooldown,               \* ticks between two notifications of one key
    AlertDigestThreshold, MaxOutboundInFlight, MaxUnitEventsPerBeat,
    DeliveryAttempts, StreamBuffer,
    MaxTime                 \* bound on the clock

None == "none"
Evaluated == {"host_silent", "security_updates", "security_updates_age", "reboot_required"}
MeasuredInDays == {"security_updates_age", "reboot_required"}
Conditions == Evaluated \cup {"unit_failed"}

ASSUME BoundsAssumption ==
    /\ \A c \in {Cooldown, AlertDigestThreshold, MaxOutboundInFlight, MaxUnitEventsPerBeat,
                 DeliveryAttempts, StreamBuffer, MaxTime} : c \in Nat \ {0}
    /\ Thresholds \subseteq Nat /\ Thresholds # {}

ASSUME FleetAssumption ==
    /\ IsFiniteSet(Hosts) /\ IsFiniteSet(Units) /\ None \notin Hosts
    /\ FactsDocs \subseteq [backlog : Nat, reboot : BOOLEAN]
    /\ \A d \in Deployments : /\ d.replicas \subseteq Replicas /\ d.hosts \subseteq Hosts
                             /\ d.condition \in Conditions /\ d.until \in 1 .. MaxTime

VARIABLES
    deployment,     \* the one explored
    now,
    hosts,          \* what each host last reported
    rules, states,  \* the rows the replicas share
    pass,           \* each evaluator's pass, with what it has read
    deliveries,     \* each replica's detached deliveries
    up,             \* how far each replica's shutdown is
    inbox,          \* the events recorded
    tab,            \* one browser tab on the event stream of one replica
    unrecorded,     \* the events announced whose row could not be written
    owed, unstamped,
    heard, toldAt, undone, outlived

shared == <<hosts, rules, states>>
told == <<owed, unstamped, heard, toldAt, undone, outlived>>
vars == <<deployment, now, hosts, rules, states, pass, deliveries, up, inbox, unrecorded, tab,
          owed, unstamped, heard, toldAt, undone, outlived>>

AnyOf(S) == CHOOSE x \in S : TRUE
Least(a, b) == IF a <= b THEN a ELSE b
Live == deployment.replicas

UnitStates == {"active", "activating", "failed", "absent"}
NoFacts == [backlog |-> 0, reboot |-> FALSE, known |-> FALSE]
HostDoc == [lastSeen : 0 .. MaxTime, revoked : BOOLEAN, units : [Units -> UnitStates], listed : SUBSET Units,
            facts : [backlog : Nat, reboot : BOOLEAN, known : BOOLEAN]]

Rule == [row : {"none", "live", "deleted"}, condition : Conditions, threshold : Thresholds, enabled : BOOLEAN,
         mail : BOOLEAN, failed : BOOLEAN]
NoRule == [row |-> "none", condition |-> deployment.condition, threshold |-> AnyOf(Thresholds), enabled |-> TRUE,
           mail |-> FALSE, failed |-> FALSE]
IsRule(x) == x.row = "live"
RuleRows == {id \in RuleIDs : IsRule(rules[id])}

\* A rule, a host and, for a unit, its name; the subject is empty when the machine as a whole is meant.
Keys == RuleIDs \X Hosts \X (Units \cup {""})
State == [firing : BOOLEAN, since : 0 .. MaxTime, lastNotified : 0 .. MaxTime]
QuietState == [firing |-> FALSE, since |-> 0, lastNotified |-> 0]

Kinds == {"firing", "recovery"}
Events == [kind : Kinds \cup {"delivery.failed"}, host : Hosts \cup {None}, unit : Units \cup {""}, at : 1 .. MaxTime]
Event(kind, h, unit, at) == [kind |-> kind, host |-> h, unit |-> unit, at |-> at]

\* A notification: of which key, of what, and as of when.
Notifications == Keys \X Kinds \X (1 .. MaxTime)

-----------------------------------------------------------------------------
(* The store's three writes to a state row; each is one statement. *)

\* Mutation: clearing the flag clears the cooldown with it.
ReleaseForgettingCooldown(s, key) == [s EXCEPT ![key] = QuietState]

ReleaseAlertFiring(s, key) == [s EXCEPT ![key] = [firing |-> FALSE, since |-> 0, lastNotified |-> @.lastNotified]]

\* Mutation: the flag is cleared, and the recovery sent, whatever the row says by now.
ReleasableAlways(s, key) == TRUE

Releasable(s, key) == s[key].firing

Claimable(s, key, at) == s[key].lastNotified = 0 \/ s[key].lastNotified <= at - Cooldown

ClaimAlertNotification(s, key, at) ==
    [s EXCEPT ![key] = [firing |-> TRUE, since |-> IF @.since = 0 THEN at ELSE @.since, lastNotified |-> at]]

UpsertAlertState(s, key, row) == [s EXCEPT ![key] = row]

-----------------------------------------------------------------------------
(* Detached deliveries: record, broadcast, detach. *)

InFlight(r) == Cardinality(deliveries[r])

Open == {"running", "stopping"}

\* Work that may be started on replica r: nothing once the drain has begun, nothing past the limit.
Room(r) == IF up[r] \in Open THEN MaxOutboundInFlight - InFlight(r) ELSE 0

\* One pass of deliverOutside for an event, and one mail of a rule that covers some owed notifications.
HasWebhook == "webhook" \in deployment.acts
Deliveries == [ev : Events, at : 0 .. MaxTime, tries : Nat, due : SUBSET RuleIDs,
               pc : {"webhook", "route", "rules", "mail"}, rule : RuleIDs \cup {None}, covers : SUBSET Notifications]
EventDelivery(ev) == [ev |-> ev, at |-> 0, tries |-> 0, due |-> {},
                      pc |-> IF HasWebhook THEN "webhook" ELSE "route", rule |-> None, covers |-> {}]
MailDelivery(id, ev, covers) == [ev |-> ev, at |-> 0, tries |-> 0, due |-> {},
                                 pc |-> "mail", rule |-> id, covers |-> covers]

\* The tab gets an event when its buffer has room; the ones that find it full are dropped for that tab.
Broadcast(r, evs) ==
    IF ~tab.registered \/ tab.at # r THEN UNCHANGED tab
    ELSE \E kept \in SUBSET evs :
            /\ Cardinality(kept) = Least(Cardinality(evs), StreamBuffer - Cardinality(tab.queue))
            /\ tab' = [tab EXCEPT !.queue = @ \cup kept, !.dropped = @ \cup (evs \ kept)]

\* The store may refuse the writes whose failure is only logged.
WritesFail == "writesfail" \in deployment.acts
Written == IF WritesFail THEN BOOLEAN ELSE {TRUE}
WrittenOf(S) == IF WritesFail THEN SUBSET S ELSE {S}

\* Every event goes to the tabs, and on to be delivered, whether or not its row could be written.
Record(r, evs) ==
    /\ \E kept \in WrittenOf(evs) :
          /\ inbox' = inbox \cup ({r} \X kept)
          /\ unrecorded' = unrecorded \cup ({r} \X (evs \ kept))
    /\ Broadcast(r, evs)

\* recordDelivery: how a rule's last mail went, when that could be written; a rule deleted in the meantime is
\* not an error.
RecordDelivery(rs, id, failed, written) ==
    IF written /\ IsRule(rs[id]) THEN [rs EXCEPT ![id].failed = failed] ELSE rs

\* Mail that went out, or a failure an operator reading the rule can see, settles what is owed; a failure that
\* could not be written down is nobody's to see.
ShowsFailure(rs, id, written) == ~IsRule(rs[id]) \/ (written /\ rs[id].failed)
Settle(covers) == owed' = owed \ covers
LeaveUnstamped(covers, written) == unstamped' = IF written THEN unstamped ELSE unstamped \cup covers

-----------------------------------------------------------------------------
(* The evaluator. *)

\* A pass, by how much it has read.
Resting == [pc |-> "idle"]
HostsPass == [pc : {"hosts"}, at : 1 .. MaxTime, left : SUBSET RuleIDs, rules : [RuleIDs -> Rule]]
StatesPass == [pc : {"states"}, at : 1 .. MaxTime, left : SUBSET RuleIDs, rules : [RuleIDs -> Rule],
               active : SUBSET Hosts, raw : SUBSET (RuleIDs \X Hosts)]
RulePass == [pc : {"rule"}, at : 1 .. MaxTime, left : SUBSET RuleIDs, rules : [RuleIDs -> Rule],
             active : SUBSET Hosts, raw : SUBSET (RuleIDs \X Hosts), held : [Keys -> State], rule : RuleIDs,
             todo : SUBSET Hosts, firing : SUBSET Hosts, recovered : SUBSET Hosts]
Passes == {Resting} \cup HostsPass \cup StatesPass \cup RulePass

\* ctx is cancelled by the shutdown signal: a store call of the pass may then fail.
Cancelled(r) == up[r] # "running"
Stopped(r) == up[r] = "stopped"

\* evaluateTenantAlerts' first read: the enabled rules that are evaluated at all.
StartPass(r) ==
    /\ r \in Live /\ up[r] = "running" /\ pass[r].pc = "idle"
    /\ LET evaluated == {id \in RuleRows : rules[id].enabled /\ rules[id].condition \in Evaluated}
       IN /\ evaluated # {}
          /\ pass' = [pass EXCEPT ![r] = [pc |-> "hosts", at |-> now, left |-> evaluated, rules |-> rules]]
    /\ UNCHANGED <<deployment, now, shared, deliveries, up, inbox, unrecorded, tab, told>>

\* Whether the raw condition is true of a host, as the pass read it.
ConditionHolds(rule, host, at) ==
    CASE rule.condition = "host_silent" -> host.lastSeen # 0 /\ at - host.lastSeen > rule.threshold
      [] rule.condition = "security_updates" -> host.facts.known /\ host.facts.backlog >= rule.threshold
      [] rule.condition = "security_updates_age" -> host.facts.known /\ host.facts.backlog > 0
      [] rule.condition = "reboot_required" -> host.facts.known /\ host.facts.reboot

\* All that a host's row is read for: is it revoked, and of which rules is the raw condition true.
ReadHosts(r) ==
    /\ pass[r].pc = "hosts" /\ ~Stopped(r)
    /\ pass' = [pass EXCEPT ![r] = [pc |-> "states", at |-> @.at, left |-> @.left, rules |-> @.rules,
            active |-> {h \in deployment.hosts : ~hosts[h].revoked},
            raw |-> {x \in @.left \X Hosts : ConditionHolds(@.rules[x[1]], hosts[x[2]], @.at)}]]
    /\ UNCHANGED <<deployment, now, shared, deliveries, up, inbox, unrecorded, tab, told>>

\* The rules are then gone through one by one, and each rule's hosts in turn.
AtRule(p, held, left) ==
    IF left = {} THEN Resting
    ELSE LET id == CHOOSE x \in left : TRUE
         IN [pc |-> "rule", at |-> p.at, left |-> left \ {id}, rules |-> p.rules, active |-> p.active, raw |-> p.raw,
             held |-> held, rule |-> id, todo |-> p.active, firing |-> {}, recovered |-> {}]

\* Mutation: the pass goes on with no memory, as if the states could not be read.
HeldNothing == [key \in Keys |-> QuietState]

HeldStates == states

ReadStates(r) ==
    /\ pass[r].pc = "states" /\ ~Stopped(r)
    /\ pass' = [pass EXCEPT ![r] = AtRule(@, HeldStates, @.left)]
    /\ UNCHANGED <<deployment, now, shared, deliveries, up, inbox, unrecorded, tab, told>>

\* A read the store did not answer ends the pass.
PassFails(r) ==
    /\ pass[r].pc \in {"hosts", "states"} /\ Cancelled(r) /\ ~Stopped(r)
    /\ pass' = [pass EXCEPT ![r] = Resting]
    /\ UNCHANGED <<deployment, now, shared, deliveries, up, inbox, unrecorded, tab, told>>

\* A condition measured in days counts as firing once it has held that long.
ConditionRipe(rule, since, at) ==
    rule.condition \in MeasuredInDays => since # 0 /\ at - since >= rule.threshold

\* Somebody won the right to notify, or to say that it is over.
WonFiring(key, at) ==
    /\ owed' = owed \cup {<<key, "firing", at>>}
    /\ heard' = [heard EXCEPT ![key] = "firing"]
    /\ toldAt' = [toldAt EXCEPT ![key] = at]
    /\ undone' = undone \ {key}
    /\ UNCHANGED <<unstamped, outlived>>

WonRecovery(key, at) ==
    /\ owed' = owed \cup {<<key, "recovery", at>>}
    /\ heard' = [heard EXCEPT ![key] = "recovery"]
    /\ UNCHANGED <<unstamped, toldAt, undone, outlived>>

\* Writing a row as it was read undoes what somebody else has done to it since; the instant the condition began
\* to hold is all that this write is meant for.
Undoes(held, row) == held.firing # row.firing \/ held.lastNotified # row.lastNotified

\* One host of one rule: claim, release or bookkeeping, by what the pass has read.
Judge(r, h) ==
    LET p == pass[r]
        key == <<p.rule, h, "">>
        rule == p.rules[p.rule]
        raw == <<p.rule, h>> \in p.raw
        held == p.held[key]
        since == IF ~raw THEN 0 ELSE IF held.since = 0 THEN p.at ELSE held.since
        fire == raw /\ ConditionRipe(rule, since, p.at)
        next(firing, recovered) ==
            [p EXCEPT !.todo = @ \ {h}, !.firing = @ \cup firing, !.recovered = @ \cup recovered]
    IN \/ /\ fire /\ IsRule(rules[p.rule]) /\ Claimable(states, key, p.at)
          /\ states' = ClaimAlertNotification(states, key, p.at)
          /\ pass' = [pass EXCEPT ![r] = next({h}, {})]
          /\ WonFiring(key, p.at)
       \/ /\ ~fire /\ held.firing /\ Releasable(states, key)
          /\ states' = ReleaseAlertFiring(states, key)
          /\ pass' = [pass EXCEPT ![r] = next({}, {h})]
          /\ WonRecovery(key, p.at)
       \/ /\ ~fire /\ ~held.firing /\ held.since # since /\ IsRule(rules[p.rule])
          /\ states' = UpsertAlertState(states, key, [held EXCEPT !.since = since])
          /\ pass' = [pass EXCEPT ![r] = next({}, {})]
          /\ undone' = IF Undoes(held, states[key]) THEN undone \cup {key} ELSE undone
          /\ UNCHANGED <<owed, unstamped, heard, toldAt, outlived>>
       \/ \* nothing to do, somebody else has it, the rule is gone, or the store did not answer
          /\ \/ Cancelled(r)
             \/ ~IsRule(rules[p.rule])
             \/ fire /\ ~Claimable(states, key, p.at)
             \/ ~fire /\ held.firing /\ ~Releasable(states, key)
             \/ ~fire /\ ~held.firing /\ held.since = since
          /\ pass' = [pass EXCEPT ![r] = next({}, {})]
          /\ UNCHANGED <<states, told>>

EvaluateHost(r) ==
    /\ pass[r].pc = "rule" /\ ~Stopped(r)
    /\ \E h \in pass[r].todo : Judge(r, h)
    /\ UNCHANGED <<deployment, now, hosts, rules, deliveries, up, inbox, unrecorded, tab>>

\* What a batch puts in the inbox: every host, and the digest itself when there is one.
InboxRows(kind, batch, at) ==
    {Event(kind, h, "", at) : h \in batch}
        \cup IF Cardinality(batch) > AlertDigestThreshold THEN {Event(kind, None, "", at)} ELSE {}

\* What a batch sends: one event for each host, or the digest alone.
Notified(kind, batch, at) ==
    IF Cardinality(batch) > AlertDigestThreshold THEN {Event(kind, None, "", at)}
    ELSE {Event(kind, h, "", at) : h \in batch}

\* The notifications one sent event answers for.
Covered(id, ev, batch) ==
    {<<<<id, h, "">>, ev.kind, ev.at>> : h \in IF ev.host = None THEN batch ELSE {ev.host}}

\* Mutation: a refused mail is left to the log.
RefusedInSilence(rs, id, refused, written) == rs

\* A refusal is recorded once for the rule.
RecordRefusal(rs, id, refused, written) == IF refused THEN RecordDelivery(rs, id, TRUE, written) ELSE rs

(* notifyBatch for the firings and then for the recoveries of a rule.  Each event is recorded and its  *)
(* delivery and its mail are detached while there is room: the delivery to the webhook first.          *)
NotifyBatch(r) ==
    LET p == pass[r]
        rule == p.rules[p.rule]
        batches == {<<"firing", p.firing>>, <<"recovery", p.recovered>>}
        rows == UNION {InboxRows(b[1], b[2], p.at) : b \in {b \in batches : b[2] # {}}}
        sent == UNION {Notified(b[1], b[2], p.at) : b \in {b \in batches : b[2] # {}}}
        BatchOf(ev) == IF ev.kind = "firing" THEN p.firing ELSE p.recovered
        Mail(ev) == MailDelivery(p.rule, ev, Covered(p.rule, ev, BatchOf(ev)))
        posts == {EventDelivery(ev) : ev \in sent}
        mails == IF rule.mail THEN {Mail(ev) : ev \in sent} ELSE {}
        owing == UNION {Covered(p.rule, ev, BatchOf(ev)) : ev \in sent}
    IN /\ p.pc = "rule" /\ p.todo = {} /\ ~Stopped(r)
       /\ Record(r, rows)
       /\ \E started \in SUBSET (posts \cup mails), written \in Written :
            LET refused == mails \ started
                unsent == UNION {d.covers : d \in refused}
            IN /\ Cardinality(started) <= Room(r)
               /\ started # posts \cup mails => Cardinality(started) = Room(r)
               /\ deliveries' = [deliveries EXCEPT ![r] = @ \cup started]
               /\ rules' = RecordRefusal(rules, p.rule, refused # {}, written)
               /\ Settle(IF ~rule.mail THEN owing ELSE IF ShowsFailure(rules', p.rule, written) THEN unsent ELSE {})
               /\ LeaveUnstamped(unsent, written)
       /\ pass' = [pass EXCEPT ![r] = AtRule(p, p.held, p.left)]
       /\ UNCHANGED <<deployment, now, hosts, states, up, heard, toldAt, undone, outlived>>

-----------------------------------------------------------------------------
(* A detached delivery. *)

Elsewhere == <<deployment, now, hosts, up, pass>>
Replace(r, d, new) == deliveries' = [deliveries EXCEPT ![r] = (@ \ {d}) \cup new]

\* The group's context is cancelled when the deliveries outlast the drain's grace.
OutboundStopped(r) == up[r] = "cancelled"

\* DeliverWithRetry: another attempt is made, unless this was the last or the context is cancelled.
Retried(r, d) == d.tries + 1 < DeliveryAttempts /\ ~OutboundStopped(r)

\* deliverOutside: the webhook, when the tenant names one; its failure is recorded and delivered nowhere.
PostWebhook(r) ==
    \E d \in deliveries[r] :
        /\ d.pc = "webhook"
        /\ \/ \* accepted, or the tenant could not be read
              /\ Replace(r, d, {[d EXCEPT !.pc = "route", !.tries = 0]})
              /\ UNCHANGED <<inbox, unrecorded, tab>>
           \/ /\ Retried(r, d)
              /\ Replace(r, d, {[d EXCEPT !.tries = @ + 1]})
              /\ UNCHANGED <<inbox, unrecorded, tab>>
           \/ /\ ~Retried(r, d)
              /\ Record(r, {Event("delivery.failed", d.ev.host, d.ev.unit, now)})
              /\ Replace(r, d, {[d EXCEPT !.pc = "route", !.tries = 0]})
        /\ UNCHANGED <<Elsewhere, rules, states, told>>

\* Only a unit's events are routed; what an evaluator emits has reached its rule already.
RoutedCondition(ev) == ev.unit # ""

KeyOf(id, ev) == <<id, ev.host, ev.unit>>

\* The rules that route a unit's event and name recipients.
Routing(ev) == {id \in RuleRows : rules[id].enabled /\ rules[id].condition = "unit_failed" /\ rules[id].mail}

\* Past their cooldown as far as the states read just now say; the claim decides.
DueRules(ev) == {id \in Routing(ev) : Claimable(states, KeyOf(id, ev), now)}

\* With the rules left to mail, or gone when there are none; and with one of them claimed.
Onward(d, at, due) ==
    IF due = {} THEN {}
    ELSE {[ev |-> d.ev, at |-> at, tries |-> 0, due |-> due, pc |-> "rules", rule |-> None, covers |-> {}]}
Mailing(d, id) ==
    [ev |-> d.ev, at |-> d.at, tries |-> 0, due |-> d.due \ {id}, pc |-> "mail", rule |-> id,
     covers |-> {<<KeyOf(id, d.ev), d.ev.kind, d.at>>}]

\* routeEventMail: a failed read routes nothing.
RouteEventMail(r) ==
    \E d \in deliveries[r] :
        /\ d.pc = "route"
        /\ \/ Replace(r, d, IF ~RoutedCondition(d.ev) THEN {}
                            ELSE Onward(d, now, IF d.ev.kind = "firing" THEN DueRules(d.ev) ELSE Routing(d.ev)))
           \/ OutboundStopped(r) /\ Replace(r, d, {})
        /\ UNCHANGED <<Elsewhere, rules, states, inbox, unrecorded, tab, told>>

\* recordSkipped: each of the rules is told so, as far as that can be written.
Skip(d, ids) ==
    \E written \in WrittenOf(ids) :
        rules' = [id \in RuleIDs |-> RecordDelivery(rules, id, TRUE, id \in written)[id]]

\* The claim's own predicate; a rule deleted meanwhile has no row to claim.
WinsClaim(d, id) == IsRule(rules[id]) /\ Claimable(states, KeyOf(id, d.ev), d.at)

\* Nothing more is started once the group's context is cancelled.
GivesUp(r) == OutboundStopped(r)

\* routeToRules: one rule that is due, claimed before it is mailed.
RouteToRules(r) ==
    \E d \in deliveries[r] :
        /\ d.pc = "rules" /\ d.ev.kind = "firing"
        /\ \/ \E id \in d.due : LET key == KeyOf(id, d.ev) IN
              /\ ~OutboundStopped(r) /\ WinsClaim(d, id)
              /\ states' = ClaimAlertNotification(states, key, d.at)
              /\ Replace(r, d, {Mailing(d, id)})
              /\ WonFiring(key, d.at) /\ UNCHANGED rules
           \/ \E id \in d.due :
              /\ ~OutboundStopped(r) /\ ~WinsClaim(d, id)
              /\ Replace(r, d, Onward(d, d.at, d.due \ {id}))
              /\ UNCHANGED <<states, rules, told>>
           \/ \* out of time, or stopped: every rule not attempted is told so
              /\ GivesUp(r)
              /\ Skip(d, d.due) /\ Replace(r, d, {})
              /\ UNCHANGED <<states, told>>
        /\ UNCHANGED <<Elsewhere, inbox, unrecorded, tab>>

\* routeRecoveryToRules: only a key that was firing has a recovery to send.
RouteRecoveryToRules(r) ==
    \E d \in deliveries[r] :
        /\ d.pc = "rules" /\ d.ev.kind = "recovery"
        /\ \/ \E id \in d.due : LET key == KeyOf(id, d.ev) IN
              /\ ~OutboundStopped(r) /\ Releasable(states, key)
              /\ states' = ReleaseAlertFiring(states, key)
              /\ Replace(r, d, {Mailing(d, id)})
              /\ WonRecovery(key, d.at)
           \/ \E id \in d.due :
              /\ ~OutboundStopped(r) /\ ~Releasable(states, KeyOf(id, d.ev))
              /\ Replace(r, d, Onward(d, d.at, d.due \ {id}))
              /\ UNCHANGED <<states, told>>
           \/ GivesUp(r) /\ Replace(r, d, {}) /\ UNCHANGED <<states, told>>
        /\ UNCHANGED <<Elsewhere, rules, inbox, unrecorded, tab>>

\* mailRule: sent, tried again, or given up on; the outcome is stamped on the rule either way.  A relay that
\* is not configured is one that never accepts.
MailRule(r) ==
    \E d \in deliveries[r] :
        /\ d.pc = "mail"
        /\ \/ /\ Retried(r, d)
              /\ Replace(r, d, {[d EXCEPT !.tries = @ + 1]})
              /\ UNCHANGED <<rules, owed, unstamped>>
           \/ \E failed \in {FALSE} \cup (IF Retried(r, d) THEN {} ELSE {TRUE}), written \in Written :
              /\ rules' = RecordDelivery(rules, d.rule, failed, written)
              /\ Settle(IF failed => ShowsFailure(rules', d.rule, written) THEN d.covers ELSE {})
              /\ LeaveUnstamped(IF failed THEN d.covers ELSE {}, written)
              /\ Replace(r, d, Onward(d, d.at, d.due))
        /\ UNCHANGED <<Elsewhere, states, inbox, unrecorded, tab, heard, toldAt, undone, outlived>>

-----------------------------------------------------------------------------
(* What hosts report. *)

\* A unit as a report shows it: one that is not on the machine, or not on the list, is absent.
Shown(doc, u) == IF u \in doc.listed THEN doc.units[u] ELSE "absent"
Present(units) == {u \in Units : units[u] # "absent"}

\* The list was cut at the protocol's cap.
ServicesTruncated(doc) == doc.listed # Present(doc.units)

\* The host's own policy says which units' changes are worth an event.
Matches(u) == u \in Watched

\* The units whose change is an event: failed now, or no longer failing.
Failing(before, after) ==
    {u \in Units : Matches(u) /\ Shown(before, u) \notin {"absent", "failed"} /\ Shown(after, u) = "failed"}

Recovering(before, after) ==
    {u \in Units : /\ Matches(u) /\ Shown(before, u) = "failed"
                   /\ \/ Shown(after, u) = "active"
                      \/ /\ Shown(after, u) = "absent"
                         /\ ~ServicesTruncated(before) /\ ~ServicesTruncated(after)}

\* Nothing is under way.
Quiet == \A r \in Replicas : pass[r].pc = "idle" /\ deliveries[r] = {}

\* The events of a report; the first report of all has nothing to compare with.
UnitEvents(h, before, after, at) ==
    IF ~before.facts.known THEN {}
    ELSE {Event("firing", h, u, at) : u \in Failing(before, after)}
         \cup {Event("recovery", h, u, at) : u \in Recovering(before, after)}

\* What is kept of a report; its instant is kept where a rule reads it.
Reported(facts, units, listed) ==
    [lastSeen |-> IF deployment.condition = "host_silent" THEN now + 1 ELSE 1, revoked |-> FALSE,
     units |-> units, listed |-> listed,
     facts |-> [backlog |-> facts.backlog, reboot |-> facts.reboot, known |-> TRUE]]

(* detectUnitTransitions, on a heartbeat with a full report at replica r.  Reports happen at instants  *)
(* of their own; the events past the cap are not emitted.                                              *)
Emit(r, events) ==
    \E emitted \in SUBSET events :
        /\ Cardinality(emitted) = Least(Cardinality(events), MaxUnitEventsPerBeat)
        /\ Record(r, emitted)
        /\ \E started \in SUBSET emitted :
            /\ Cardinality(started) = Least(Cardinality(emitted), Room(r))
            /\ deliveries' = [deliveries EXCEPT ![r] = @ \cup {EventDelivery(ev) : ev \in started}]

Report(r, h) ==
    \E facts \in FactsDocs, units \in [Units -> UnitStates] : \E listed \in SUBSET Present(units) :
        /\ r \in Live /\ ~Stopped(r) /\ h \in deployment.hosts /\ ~hosts[h].revoked
        /\ now < deployment.until /\ ("calm" \in deployment.acts => Quiet)
        /\ IF deployment.condition = "unit_failed" THEN facts = AnyOf(FactsDocs)
           ELSE units = hosts[h].units /\ listed = hosts[h].listed
        /\ now' = now + 1
        /\ hosts' = [hosts EXCEPT ![h] = Reported(facts, units, listed)]
        /\ Emit(r, UnitEvents(h, hosts[h], Reported(facts, units, listed), now + 1))
        /\ UNCHANGED <<deployment, rules, states, pass, up, told>>

RevokeHost(h) ==
    /\ "revoke" \in deployment.acts /\ h \in deployment.hosts /\ ~hosts[h].revoked
    /\ hosts' = [hosts EXCEPT ![h].revoked = TRUE]
    /\ UNCHANGED <<deployment, now, rules, states, pass, deliveries, up, inbox, unrecorded, tab, told>>

Tick ==
    /\ now < deployment.until /\ now' = now + 1
    /\ UNCHANGED <<deployment, shared, pass, deliveries, up, inbox, unrecorded, tab, told>>

-----------------------------------------------------------------------------
(* The rules' API. *)

\* validateAlertRule: an evaluated condition needs a positive threshold.
ValidateAlertRule(rule) == rule.condition \in Evaluated => rule.threshold >= 1

HandleCreateAlertRule(id) ==
    \E threshold \in Thresholds, mail \in BOOLEAN :
        LET rule == [NoRule EXCEPT !.row = "live", !.threshold = threshold, !.mail = mail]
        IN /\ (IF mail THEN "mail" ELSE "mailless") \in deployment.acts
           /\ rules[id].row = "none" /\ ValidateAlertRule(rule)
           /\ rules' = [rules EXCEPT ![id] = rule]
           /\ UNCHANGED <<deployment, now, hosts, states, pass, deliveries, up, inbox, unrecorded, tab, told>>

\* What a patch makes of a rule: the field it names changes, the others stay.
Resolve(base) ==
    {[base EXCEPT !.enabled = ~@], [base EXCEPT !.mail = ~@]}
        \cup {[base EXCEPT !.threshold = t] : t \in Thresholds}

\* The condition and the last delivery are never patched.
HandleUpdateAlertRule(id) ==
    /\ "patch" \in deployment.acts /\ IsRule(rules[id])
    /\ \E patched \in Resolve(rules[id]) :
        /\ ValidateAlertRule(patched) /\ patched # rules[id]
        /\ rules' = [rules EXCEPT ![id] = patched]
    /\ UNCHANGED <<deployment, now, hosts, states, pass, deliveries, up, inbox, unrecorded, tab, told>>

\* The states follow by cascade, and with them the story they told.
HandleDeleteAlertRule(id) ==
    LET gone == {key \in Keys : key[1] = id}
    IN /\ "delete" \in deployment.acts /\ IsRule(rules[id])
       /\ rules' = [rules EXCEPT ![id].row = "deleted"]
       /\ states' = [key \in Keys |-> IF key \in gone THEN QuietState ELSE states[key]]
       /\ heard' = [key \in Keys |-> IF key \in gone THEN None ELSE heard[key]]
       /\ toldAt' = [key \in Keys |-> IF key \in gone THEN 0 ELSE toldAt[key]]
       /\ owed' = {o \in owed : o[1] \notin gone}
       /\ unstamped' = {o \in unstamped : o[1] \notin gone}
       /\ undone' = undone \ gone
       /\ UNCHANGED <<deployment, now, hosts, pass, deliveries, up, inbox, unrecorded, tab, outlived>>

-----------------------------------------------------------------------------
(* The event stream: subscribed, then greeted, then reconciled against the inbox by the client. *)

Tabs == [phase : {"closed", "greeted", "live"}, registered : BOOLEAN, at : Replicas \cup {None},
         queue : SUBSET Events, seen : SUBSET Events, dropped : SUBSET Events]
Closed == [phase |-> "closed", registered |-> FALSE, at |-> None, queue |-> {}, seen |-> {}, dropped |-> {}]

\* Mutation: the greeting goes out before the tab is registered.
GreetFirst(r) ==
    /\ "tab" \in deployment.acts /\ r \in Live /\ up[r] = "running"
    /\ \/ tab.phase = "closed" /\ tab' = [Closed EXCEPT !.phase = "greeted", !.at = r]
       \/ tab.phase # "closed" /\ ~tab.registered /\ tab' = [tab EXCEPT !.registered = TRUE]
    /\ UNCHANGED <<deployment, now, shared, pass, deliveries, up, inbox, unrecorded, told>>

\* Registered, and then greeted.
Subscribe(r) ==
    /\ "tab" \in deployment.acts /\ tab.phase = "closed" /\ r \in Live /\ up[r] = "running"
    /\ tab' = [Closed EXCEPT !.phase = "greeted", !.registered = TRUE, !.at = r]
    /\ UNCHANGED <<deployment, now, shared, pass, deliveries, up, inbox, unrecorded, told>>

ReadInbox ==
    /\ tab.phase = "greeted"
    /\ tab' = [tab EXCEPT !.phase = "live", !.seen = @ \cup {row[2] : row \in inbox}]
    /\ UNCHANGED <<deployment, now, shared, pass, deliveries, up, inbox, unrecorded, told>>

ReadStream ==
    /\ tab.phase # "closed"
    /\ \E ev \in tab.queue : tab' = [tab EXCEPT !.queue = @ \ {ev}, !.seen = @ \cup {ev}]
    /\ UNCHANGED <<deployment, now, shared, pass, deliveries, up, inbox, unrecorded, told>>

\* The reader went away, or the server stopped.
CloseStream ==
    /\ tab.phase # "closed"
    /\ tab' = Closed
    /\ UNCHANGED <<deployment, now, shared, pass, deliveries, up, inbox, unrecorded, told>>

-----------------------------------------------------------------------------
(* Shutdown: drainOutbound. *)

Stop(r) ==
    /\ "stop" \in deployment.acts /\ r \in Live /\ up[r] = "running"
    /\ up' = [up EXCEPT ![r] = "stopping"]
    /\ UNCHANGED <<deployment, now, shared, pass, deliveries, inbox, unrecorded, tab, told>>

\* The evaluator has finished, or has outlived its grace: the set of deliveries is closed.
CloseOutbound(r) ==
    /\ up[r] = "stopping"
    /\ up' = [up EXCEPT ![r] = "draining"]
    /\ outlived' = IF pass[r].pc = "idle" THEN outlived ELSE outlived \cup {r}
    /\ UNCHANGED <<deployment, now, shared, pass, deliveries, inbox, unrecorded, tab,
                   owed, unstamped, heard, toldAt, undone>>

\* The deliveries are waited for, cancelled when they outlast the grace, and waited for again.
Drain(r) ==
    /\ \/ up[r] = "draining" /\ deliveries[r] # {} /\ up' = [up EXCEPT ![r] = "cancelled"]
       \/ up[r] \in {"draining", "cancelled"} /\ deliveries[r] = {} /\ up' = [up EXCEPT ![r] = "stopped"]
    /\ UNCHANGED <<deployment, now, shared, pass, deliveries, inbox, unrecorded, tab, told>>

-----------------------------------------------------------------------------
Init ==
    /\ deployment \in Deployments
    /\ now = 1
    /\ hosts = [h \in Hosts |-> IF "seen" \in deployment.acts
            THEN [lastSeen |-> 1, revoked |-> FALSE, facts |-> [NoFacts EXCEPT !.known = TRUE],
                  units |-> [u \in Units |-> "active"], listed |-> Units]
            ELSE [lastSeen |-> 0, revoked |-> FALSE, facts |-> NoFacts,
                  units |-> [u \in Units |-> "absent"], listed |-> {}]]
    /\ rules = [id \in RuleIDs |-> NoRule]
    /\ states = [key \in Keys |-> QuietState]
    /\ pass = [r \in Replicas |-> Resting]
    /\ deliveries = [r \in Replicas |-> {}]
    /\ up = [r \in Replicas |-> IF r \in Live THEN "running" ELSE "stopped"]
    /\ inbox = {} /\ unrecorded = {} /\ tab = Closed
    /\ owed = {} /\ unstamped = {}
    /\ heard = [key \in Keys |-> None] /\ toldAt = [key \in Keys |-> 0] /\ undone = {} /\ outlived = {}

Evaluator(r) == StartPass(r) \/ ReadHosts(r) \/ ReadStates(r) \/ PassFails(r) \/ EvaluateHost(r) \/ NotifyBatch(r)
Delivery(r) == PostWebhook(r) \/ RouteEventMail(r) \/ RouteToRules(r) \/ RouteRecoveryToRules(r) \/ MailRule(r)

Next ==
    \/ \E r \in Replicas : Evaluator(r) \/ Delivery(r)
    \/ \E r \in Replicas : Subscribe(r) \/ Stop(r) \/ CloseOutbound(r) \/ Drain(r)
    \/ \E r \in Replicas, h \in Hosts : Report(r, h)
    \/ \E h \in Hosts : RevokeHost(h)
    \/ \E id \in RuleIDs : HandleCreateAlertRule(id) \/ HandleUpdateAlertRule(id) \/ HandleDeleteAlertRule(id)
    \/ ReadInbox \/ ReadStream \/ CloseStream \/ Tick

(* Every evaluator ticks and every delivery step carries a deadline of its own; nothing makes a host   *)
(* report, an operator act, a process stop or the clock move.                                          *)
Fairness == \A r \in Replicas : WF_vars(Evaluator(r)) /\ WF_vars(Delivery(r))

Spec == Init /\ [][Next]_vars /\ Fairness

-----------------------------------------------------------------------------
(* Properties. *)

\* Every row, pass and delivery has the shape the code gives it; the deliveries of a replica never exceed
\* maxOutboundInFlight.
TypeOK ==
    /\ deployment \in Deployments /\ now \in 1 .. MaxTime
    /\ hosts \in [Hosts -> HostDoc]
    /\ rules \in [RuleIDs -> Rule] /\ states \in [Keys -> State]
    /\ pass \in [Replicas -> Passes]
    /\ deliveries \in [Replicas -> SUBSET Deliveries]
    /\ \A r \in Replicas : IsFiniteSet(deliveries[r]) /\ InFlight(r) <= MaxOutboundInFlight
    /\ up \in [Replicas -> {"running", "stopping", "draining", "cancelled", "stopped"}]
    /\ inbox \subseteq Replicas \X Events /\ unrecorded \subseteq Replicas \X Events /\ tab \in Tabs
    /\ owed \subseteq Notifications /\ unstamped \subseteq Notifications
    /\ undone \subseteq Keys /\ outlived \subseteq Replicas
    /\ heard \in [Keys -> Kinds \cup {None}] /\ toldAt \in [Keys -> 0 .. MaxTime]

\* A firing somebody was told about is one the store still knows as firing, so that its end will be told
\* too (evaluateRule: "The state row is where they agree"), unless a stale write has undone the row.
StoryHasAnEnd == \A key \in Keys : heard[key] = "firing" => states[key].firing \/ key \in undone

\* The owed notifications that a delivery still has in hand, or a pass.
Carried(r) == UNION {d.covers : d \in deliveries[r]}
Claimed(r) ==
    IF pass[r].pc # "rule" THEN {}
    ELSE {<<<<pass[r].rule, h, "">>, "firing", pass[r].at>> : h \in pass[r].firing}
         \cup {<<<<pass[r].rule, h, "">>, "recovery", pass[r].at>> : h \in pass[r].recovered}

\* What an evaluator that outlived its grace had claimed, and not yet sent, when its process exited.
LostAtExit == UNION {Claimed(r) : r \in {r \in outlived : Stopped(r)}}

\* The right to notify is taken and dropped in two ways only.  Else the mail went out, or a process that is
\* still there is at it, or the rule says that its last delivery failed (notifyAlert, mailRule, recordDelivery).
\* The two: the write that was to say so failed as well, or the process exited in the middle of a pass that had
\* outlived its grace (drainOutbound).
NoSilentLoss ==
    \A o \in owed : \/ \E r \in Replicas : ~Stopped(r) /\ o \in Carried(r) \cup Claimed(r)
                    \/ o \in unstamped
                    \/ o \in LostAtExit

\* Whatever a digest collapses, every host that a rule notified about has a row of its own in the inbox, unless
\* the store refused that row (notifyBatch: "Every host still lands in the inbox").
Announced == inbox \cup unrecorded
InboxIsComplete ==
    \A r \in Replicas : \A d \in deliveries[r] : \A o \in d.covers :
        \E row \in Announced : row[2].kind = o[2] /\ row[2].host = o[1][2] /\ row[2].unit = o[1][3]

\* Nothing is in flight in a process that has exited, and nothing owed is in a delivery's hands there
\* (drainOutbound waits for the set it has closed).
DrainedBeforeExit == \A r \in Replicas : Stopped(r) => deliveries[r] = {}

\* A tab that read the inbox after it was greeted has, or is about to get, everything its replica has
\* recorded since, except what was dropped when its buffer was full (handleEventStream's handshake).
TabMissesNothing ==
    tab.phase = "live" =>
        \A row \in inbox : row[1] = tab.at => row[2] \in tab.seen \cup tab.queue \cup tab.dropped

-----------------------------------------------------------------------------
(* Why they hold: what every step keeps. *)

\* The bookkeeping of a condition measured in days writes back what its pass has read, whatever became of the row
\* meanwhile.  With a single evaluator nothing has become of it.
OneBookkeeper == deployment.condition \in MeasuredInDays => \A r, s \in Live : r = s

\* The rules a pass has still to go through were there when it began; deleted meanwhile perhaps, but never new.
\* Once the deliveries are closed, only a pass that outlived its grace is still going.
Ahead(p) == p.left \cup IF p.pc = "rule" THEN {p.rule} ELSE {}
PassFollowsRules ==
    /\ \A id \in RuleIDs : rules[id].condition = deployment.condition
    /\ \A r \in Replicas : pass[r].pc # "idle" =>
          /\ r \in Live
          /\ up[r] \in Open \/ r \in outlived
          /\ \A id \in RuleIDs : pass[r].rules[id].condition = deployment.condition
          /\ \A id \in Ahead(pass[r]) : rules[id].row # "none"
          /\ pass[r].pc = "rule" => pass[r].rule \notin pass[r].left

\* A delivery names the rule it mails, covers something only while it does, and has rules ahead of it only for a unit,
\* which is on a host; its event is on record, or its row was refused.
DeliveriesMean ==
    \A r \in Replicas : \A d \in deliveries[r] :
        /\ d.ev.kind \in Kinds /\ \E row \in Announced : row[2] = d.ev
        /\ d.pc = "mail" => d.rule \in RuleIDs
        /\ d.pc # "mail" => d.covers = {}
        /\ d.ev.unit # "" => d.ev.host # None
        /\ d.due # {} => d.ev.unit # "" /\ d.at # 0

\* What the store knows as firing somebody was told about.
FiringWasTold == \A key \in Keys : states[key].firing => heard[key] = "firing"

\* A condition not measured in days is timed from its firing on, in the store and in what a pass has read of it.
TimedWhileFiring ==
    deployment.condition \notin MeasuredInDays =>
        /\ \A key \in Keys : states[key].firing \/ states[key].since = 0
        /\ \A r \in Replicas : pass[r].pc = "rule" =>
              \A key \in Keys : pass[r].held[key].firing \/ pass[r].held[key].since = 0

\* What the only evaluator has read, and not yet come to, is still so, unless the rule is gone.
HeldIsCurrent ==
    deployment.condition \in MeasuredInDays /\ OneBookkeeper =>
        \A r \in Replicas : pass[r].pc = "rule" =>
            \A id \in Ahead(pass[r]), h \in Hosts :
                IsRule(rules[id]) /\ (id = pass[r].rule => h \in pass[r].todo)
                    => pass[r].held[<<id, h, "">>] = states[<<id, h, "">>]

\* Only with several evaluators, and on a condition measured in days, does bookkeeping undo anything.
UndoneBySeveral == OneBookkeeper => undone = {}

\* The stamp on a row is when its recipients were last told.
StampIsKept == \A key \in Keys : states[key].lastNotified = toldAt[key] \/ key \in undone

\* A tab that is open is registered; its replica sends it what it records.
TabIsRegistered == tab.phase # "closed" => tab.registered

\* What the replicas, the store and an open tab keep between them at every moment: a firing somebody was told
\* about is still on record, unless another evaluator's bookkeeping undid it; everything mailed is in the inbox,
\* unless the store refused the row; nothing is in flight in a process that has exited, and a tab that was greeted
\* is missing nothing but what its full buffer dropped; with what this rests on.
AlertsInv ==
    /\ TypeOK
    /\ StoryHasAnEnd
    /\ InboxIsComplete
    /\ DrainedBeforeExit
    /\ TabMissesNothing
    /\ PassFollowsRules /\ DeliveriesMean /\ FiringWasTold /\ TimedWhileFiring /\ TabIsRegistered
    /\ HeldIsCurrent /\ StampIsKept /\ UndoneBySeveral

\* Two notifications of one key are a cooldown apart, whichever replicas and deliveries raced for them
\* and however often the condition came and went in between (ReleaseAlertFiring keeps the stamp); only
\* the bookkeeping of another evaluator, on a condition measured in days, puts a cooldown out of force.
OnePerCooldown ==
    [][\A key \in Keys : toldAt'[key] # toldAt[key] /\ toldAt'[key] # 0 /\ toldAt[key] # 0 /\ key \notin undone
            => toldAt'[key] - toldAt[key] >= Cooldown]_vars

\* A recovery ends a firing that was told, and is told once (routeRecoveryToRules: "a recovery for something
\* nobody was told about sends nothing"); none is announced for a unit that is still failing, whatever a
\* report that was cut short leaves out (detectUnitTransitions: "Only when the list is whole").
RecoveriesAreTrue ==
    [][/\ \A o \in owed' \ owed : o[2] = "recovery" => heard[o[1]] = "firing"
       /\ \A row \in Announced' \ Announced :
             row[2].kind = "recovery" /\ row[2].unit # "" => hosts'[row[2].host].units[row[2].unit] # "failed"]_vars

\* A key whose condition no longer holds, on a host that is still watched by a replica that is running.
Over(key) ==
    /\ IsRule(rules[key[1]]) /\ rules[key[1]].enabled /\ key[3] = "" /\ ~hosts[key[2]].revoked
    /\ rules[key[1]].condition \in Evaluated /\ ~ConditionHolds(rules[key[1]], hosts[key[2]], now)
    /\ \E r \in Replicas : up[r] = "running"

\* What recipients were told is broken does not stay so in their books once it is over: the next pass
\* says so (evaluateRule's release), unless the firing is no longer on record.
EndIsTold == \A key \in Keys : ~<>[](Over(key) /\ heard[key] = "firing" /\ key \notin undone)

\* A unit rule that is firing once everything has been routed is about a unit that is not running
\* (routedCondition: "A rule that fires must also un-fire").
FiringUnitIsNotRunning ==
    Quiet => \A key \in Keys : key[3] # "" /\ states[key].firing => Shown(hosts[key[2]], key[3]) # "active"
=============================================================================
