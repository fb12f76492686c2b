# HostSeal: specifications, model checking and proofs

HostSeal manages fleets of Debian and Ubuntu servers without a remote shell. A control plane queues
typed jobs; an agent on each host polls for them, checks them against keys and a policy the control
plane cannot change, and asks small root helpers to do the work; destructive jobs carry a signature
made offline. This directory models the control plane, its two stores, the agent and the helpers in
TLA+, checks them with TLC and proves with TLAPS the main properties of the job path, of the stores, of
enrolment, of credentials, of access and of alerts. Paths below are relative to the repository.

1. [The system](#1-the-system)
2. [Modules and the code they model](#2-modules-and-the-code-they-model)
3. [Runs](#3-runs)
4. [Proofs](#4-proofs)
5. [Where code and text disagree](#5-where-code-and-text-disagree)
6. [What is not modelled](#6-what-is-not-modelled)
7. [Plan](#7-plan)

## 1. The system

| Component | State it keeps | Operations | Talks to |
|---|---|---|---|
| Job queue (`internal/store`, `server/jobsapi.go`, `server/agentapi.go`) | job rows with approval rule, claim, result; hosts; tenant mode | create, approve, claim, record a result, revoke and delete a host, change the mode | operators and agents over HTTP, many requests at once, several replicas on one database |
| Store (`internal/store`) | tenants, hosts, certificates, tokens, jobs, accounts, rules, events, templates, shares | the methods of `Store` and `Scoped`, twice: in memory and in PostgreSQL | every handler |
| Long poll (`handleJobs`, `Subscribe`, `listen`, triggers) | waiters per host and replica, row locks, one LISTEN connection per replica | subscribe, claim, hold, wake, time out, reconnect | the queue's transactions; PostgreSQL notifications |
| Agent (`internal/agent`) | nonce store, spool of results, online key, credential, all on disk; the snapshot of one cycle | heartbeat and poll, accept, elevate, spool, report, renew | the control plane; helpers over unix sockets |
| Local policy and window (`internal/policy`) | `policy.toml`, the pause file | `Decide`, `Contains`, `NextOpen` | read by agent and helpers at different times |
| Helpers (`helpers/`, `internal/helper`, `internal/privsep`) | one process per connection; the host itself | authorise again as root, update, act on a unit, reboot | systemd, package manager, shutdown |
| Signing (`internal/signing`, `signjob`, `localsign`, `onlinekey`) | offline keys, online key, `trusted-signers` | sign, verify | operator's machine; agent |
| Enrolment and templates (`handleEnroll`, `templatesapi.go`, `agent/enroll.go`, `bootstrap.go`) | single-use tokens, host limit, template versions; the host's state directory | mint, redeem, create a host, archive, apply once | a new machine; operators |
| Certificates and heartbeat (`handleRenew`, `handleHeartbeat`, `agent/credential.go`) | live certificates; stored documents with digests; the pair on disk | renew, supersede, record, ask for what is missing, park | agent; store |
| Alerts (`server/alerts.go`, `servicesapi.go`) | one row per rule, host and subject | evaluate, claim a notification, release, route an event | two evaluators on one table; outbound |
| Events and outbound (`server/eventsapi.go`, `internal/notify`) | inbox, live subscribers, deliveries in flight | record, broadcast, detach, drain | browsers; webhooks; mail |
| Accounts, tokens, wallboard, limiter (`internal/auth`, `accountapi.go`, `wallboardapi.go`, `ratelimit.go`) | sessions, tokens, published links, buckets | sign in, authenticate, renew, end, mint, publish, withdraw | browsers, scripts, screens; `hostseal-server accounts` |
| Fact collection, command line, most of the web interface, packaging | none of interest | reading the system, presentation | |

What is hard in it:

* **Concurrency.** Handlers read, decide and write in separate statements while others write; two
  replicas claim for one host or evaluate one rule; wake-ups travel through a connection that may be
  down; an account is removed while a request that was let in goes on.
* **Crashes.** Agent and host stop between any two writes: the replay store, the provisional result,
  the files of a credential and the record of a first boot each have their own moment.
* **Staleness.** Policy, pause and keys are read once per cycle, before a poll of 25 seconds; an
  update runs for up to 40 minutes before its follow-up reboot is judged; an evaluator moves alert
  states on from rows it read at the start of its pass; a connection keeps the certificate it was
  opened with.
* **Boundaries.** Windows over midnight and over a change of clocks, the instant a nonce expires, a
  batch, a cap or a bucket at its limit.
* **Loss.** Responses, notifications, reports and results are lost, late or sent again.
* **Two implementations.** Tests run on the in-memory store, the server on PostgreSQL.

What makes each part correct: the queue hands out only released work, once, and its history never
runs backwards; no agent sleeps over work it may take unless its wake-up is on the way; the agent lets
a signed payload through once and nothing destructive without the offline key; a helper obeys the
policy as it stands when it acts; a token admits one host and a limit holds; a host keeps a credential
it can use and loses it when it is withdrawn; a firing that was told is ended once, and no notification
that was claimed is lost in silence; what was ended, revoked or removed stays so; and the two stores
cannot be told apart. `PROJECT.json` lists the hazards line by line.

## 2. Modules and the code they model

| Module | Models | Composition |
|---|---|---|
| `JobQueue` | one tenant's job table, operator and agent handlers, revocation, deletion, restart | |
| `LongPoll` | `handleJobs`, `ClaimJobs` as a transaction, `Subscribe`/`wake`/`removeWaiter`, the listener, the triggers | looks closer at the delivery half of `JobQueue`: a claim has a beginning and an end |
| `Agent` | one agent, its disk, and the helpers as a detached second actor, against a control plane that may deliver anything | uses `Decide` in outline |
| `Window` | `internal/policy/window.go` as operators, examined by a clock that walks through two weeks | |
| `Helpers` | `policy.Decide` in full and the three root helpers, against an agent that may send anything | takes the window as the set of instants at which it is open; `Window` says which set that is |
| `StoreTypes`, `MemoryStore`, `PostgresStore` | records and errors of `store.go`; each implementation as operators from tables and call to tables and answer | |
| `StoreParity` | every call made of both stores in lock-step | `INSTANCE MemoryStore`, `INSTANCE PostgresStore` |
| `Enrolment` | `handleEnroll` statement by statement, templates and tokens under operators' hands, `hostseal enroll` on the host to the first boot | implements `Admission` |
| `Admission` | what enrolment promises: a machine is admitted in one step that looks at token, machine id and host limit together | |
| `Contact` | heartbeat, renewal, withdrawal and suspension, the credential on disk, the agent's connection | |
| `Alerts` | evaluators, routed unit events, rules, deliveries, inbox and stream, shutdown | |
| `Limiter` | a token bucket and the map of buckets | extended by `Access` |
| `Access` | sessions, passwords, API tokens, the wallboard link and the screen that shows it | |

Each `MC*` module only gives constants their values and says which situations are explored; `*_proofs`
modules hold the theorems: `Jobs_proofs` those of `JobQueue`, `Window` and `Helpers`, `Agent_proofs` those of
`Agent` and `LongPoll`, `StoreCalls_proofs` and `StoreParity_proofs` those of `StoreParity`. Modules that
share a proof module have names of their own: `WindowSpec` and `instant`, `HelpersSpec` and `clock`,
`PollSpec` and `stage`. An operator commented "Mutation" is a plausible mistake in the definition
that follows it: replacing the one by the other makes the property fail that `PROJECT.json` names, which
shows that the property depends on that code.

**JobQueue.** `row` is the table, `host` and `mode` the settings, `opReq` and `agentReq` the handlers
in flight. A handler that reads and then writes is two actions (`BeginCreateSigned`/`CreateJob`,
`BeginApprove`/`ApproveJob`, `BeginPoll`/`ClaimFirst`/`ClaimAfterWake`, `BeginResult`/`RecordResult`);
a store function is one, being one transaction in PostgreSQL and one critical section in the memory
store. `handed` and the notifications are history. `Conflicts` is the primary key together with the
partial unique index on signed nonces.

**LongPoll.** `created`, `released`, `open`, `claimed` are the columns a claim looks at; `lock` the row
locks of a claim in progress. `stage` is the place of a handler in `handleJobs`; `waiters`, `taken` and
`closed` follow a channel from the map, through the gap between `wake`'s unlock and its `close`, to
the closed channel. `inbox[r]` holds notifications committed and not yet read by replica `r`;
notifications are a set, since a woken handler re-reads the table whatever woke it. `missed` is
history: the rows a request was never told about because its listener was down, a window opened by
the clock, or another claim held the lock when it read. A replica's crash takes its requests, waiters
and locks with it.

**Agent.** `pc` walks through `cycle`, `pollAndRun` and `Runner.Run`: `BeginCycle` takes the snapshot,
`BeginJob` is `accept` up to the nonce, `CheckNonce` the replay store with its write (which may fail),
then `DecideLocally`, `SpoolProvisional`, `Elevate`, `AwaitReply`, `WriteResult`, `Report`.
`nonceFile`, `spool` and `onlineFile` survive `AgentCrash` and `HostCrash`; `ops` are helper processes,
which survive a crash of the agent. A signature is a key and a payload; the canonical encoding is taken
to be injective. The control plane is not trusted: any element of `Wire` may arrive in any cycle.

**Window.** A day has `DayLen` units and a zone one change of offset. `DateIn` is the algorithm of Go's
`time.Date`, external to the repository, which decides what a non-existent or ambiguous wall clock
means. `ReadsOpen`, used only in properties, is what the written window says to somebody looking at
a clock.

**Helpers.** `Decide` has the rules in the order of `decide.go`, so that the first refusal is the
code's. `Perform` loads file, pause switch and clock when the request arrives; `FollowUp` loads them
again after the update. `pending` is the instant `shutdown(8)` was given.

**MemoryStore, PostgresStore, StoreParity.** The memory store is maps under the code's names; PostgreSQL
is sets of rows with their keys, partial unique indexes, foreign keys and cascades. A slice that is appended
to and evicted from is a map too, from the place of a row. A method is an
operator that returns the tables and the answer, so that a transaction is one step and an error rolls
back by returning the tables it was given. The two are called with the same arguments from the same
clock; `ReadsAgree` compares every read after every step, `StoresAgree` the answers and the errors
callers test for. `area` is the part of the interface a behaviour uses, besides tenants and
hosts: parts share no other rows.

**Enrolment.** `handler[e]` is the place of a request in `handleEnroll`: rate limit, token, machine id,
tenant, template, redemption, second look at the template, creation; each is one store call, and
anything may happen between two. `runs[e]` is a run of `hostseal enroll`: interlock, request,
verification, credential, state, record of the first boot, seed, cloud-init. `pending` is an
administrator's request that reads and later writes. `disturbed` remembers the handlers during which
another actor touched what they read, `inUse` the requests whose template was in use at some moment
since their token was spent, `applied` what each machine ever applied.

**Contact.** `calls` holds the request the agent waits for and one it gave up on, which goes on in its
handler: that is how a renewal is late or repeated. A certificate is a number with its expiry and its
retirement. `agent.conn` is the certificate the open connection was made with. `disk` is the current
pair and the previous one; a crash may leave a current file that does not parse.

**Alerts.** `pass[r]` is an evaluator's pass with the rules, hosts and states it read; `Judge` is one
host's turn in it, with the compare-and-set of the store as one step. `deliveries[r]` is a set of
detached goroutines with the events, rules and attempts they have left. The writes that only report may fail
where a deployment says `writesfail`: `RecordEvent` in `Record`, upon which the code goes on to broadcast, deliver
and mail, and `RecordAlertDelivery` in `RecordDelivery` and `Skip`. History, read by no step: `owed`, the
notifications somebody won the right to send and that are not settled; `heard` and `toldAt`, what recipients were last
told of a key and when; `unrecorded`, the events announced without a row; `unstamped`, the notifications whose
failure could not be written down; `undone`, the keys whose row another evaluator's bookkeeping has put back since
they were told; `outlived`, the replicas whose shutdown closed the deliveries with a pass still going.

**Limiter, Access.** A bucket counts the cost of an attempt in units of time, so the code's fractions are
natural numbers. A request of `Access` walks from store call to store call: the credential is looked up
(`Authenticate`), renewed by a separate write (`TouchSession`), the account is read, and then the handler
writes. `gone` are the rows that were ended, `cut` marks a request sent after its credential was.

## 3. Runs

With two workers a run takes at most about two and a half minutes. Each component has one invariant
(`QueueInv`, `PollInv`, `AgentInv`, `StoreInv`, `EnrolmentInv`, `ContactInv`, `AlertsInv`, `AccessInv`)
that joins its types with the smaller properties that hold at every moment, each a definition of its own
with its meaning. It is, or contains, the inductive invariant of section 4, which TLC thereby tests on
reachable states (`StoreInv` has the parts of its own under the model's names). What a run shows beyond it has a name in the last column.

| Run | Instance | Shows |
|---|---|---|
| `jobqueue` | one signed job of two hosts between two operators with a request each in flight; and several jobs of one host, one payload under two ids, over time; revocation, deletion, restart | `QueueInv` (with `NoJobOfADeletedHost`, `NotificationsAreTrue`), `OnlyReleasedWorkRuns`, `HandedOutOnce`, `JobHistoryIsFinal`, `RevocationCutsOff` |
| `longpoll_replicas` | one host served by two replicas, one job, two faults, with fairness | `PollInv` (with `NoDeadWaiters`), `NoLostWakeUp`, `ClaimedByOne`, `ReadyWorkIsClaimed` |
| `agent` | five payloads of every class, four under one id, with and without an end; policy, pause and anchor edited at every moment; time up to and past the windows | `AgentInv` (with `OnlyGenuineJobsSpendNonces`, `NoVanishedOperation`), `AcceptedOnceInsideWindow`, `NothingWithoutTheOfflineKey`, `PauseStopsTheHost` |
| `window_weeks` | 19 zones (three without a change, sixteen around one), every start and end of five day lists, eight days | `ReadsTheClock`, `OpeningsHold` |
| `helpers_policy` | two helpers, four policies, an absent and an unreadable file, nine requests | `TighteningPermitsNoMore`, `FollowUpHonoursPolicyNow`, `OkMeansDone` |
| `store_parity` | two fleets and the platform, one or two of everything that hangs from them, thirteen areas of the interface | `StoreInv` (`TablesMirrorMaps`, `NothingOutlivesItsOwner`, `QueueMatchesHistory`, `HistoryIsBounded`, `OneLiveHostPerMachine`), `ReadsAgree`, `StoresAgree`, `SidesAreIsolated` |
| `enrolment_races` | two runs of `enroll` on one machine or two with two tokens, in a fleet with one place or no limit, under operators' hands; a template changed, archived and forged; crashes and reboots | `EnrolmentInv` (`TokenRedeemedOnce`, `OneLiveHostPerMachine`, `RefusalKeepsToken`, `RefusedLeavesNoHost`, `AppliedIsTrusted`, `ComesBackEnrolled`), `AppliedOnce`, `AppliedWasInUse`, and the refinement `AdmitsInOneStep`, by which the host limit holds |
| `contact_beats` | one host over two renewals with lost and late answers, crashes and a torn file; withdrawn or suspended around a renewal; documents that change while reports are lost | `ContactInv` (`SomethingToPresent`, `CapHolds`, `ParksOnRejection`), `WorkingCredential`, `WithdrawnIsRefused`, `DocumentsArrive` |
| `alerts_delivery` | two evaluators on one rule; a rule under its operators' hands; a condition in days with one evaluator and with two; two hosts and a digest through a shutdown; unit events with a webhook and a tab; firings and unit events through a shutdown while writes are refused | `AlertsInv` (`StoryHasAnEnd`, `InboxIsComplete`, `DrainedBeforeExit`, `TabMissesNothing`), `NoSilentLoss`, `OnePerCooldown`, `RecoveriesAreTrue`, `EndIsTold` |
| `access_credentials` | one account, two browsers, a script and a screen; sign-in, renewal, sign-out here and everywhere, tokens, a link, an account removed half-way, store failures, bursts | `AccessInv` (`RevokedTokenLeavesNothing`, `RefusedForAReason`, `SessionsEndOnTime`, `UsedSessionsLast`), `EndedStaysEnded`, `RemovalLeavesNothing`, `WithinBudget`, `WithdrawnGoesDark` |
| `alerts_units`, `contact_connection` | the smallest instance that shows it | expected violations, section 5 |

**Bounds.** `Situations`, `Deployments` and `Areas` name what a behaviour exercises: a behaviour picks one
at the start, and its clock, requests, acts and failures are bounded there. This keeps apart what shares
no state, or meets only through it. `Scope` in `MCJobQueue` and `MCAgent` is a constraint to the same end
on the reachable states.

* *Queue.* Every race is between two operators, an operator and an agent, or either and an
  administrator; two operator slots and one agent slot give each of these pairs (two requests of one
  agent that overlap are left to the proofs). One nonce under two ids is the least that could be handed
  out twice.
* *Long poll.* A lost wake-up takes one job, one waiter and one listener; two replicas add the claim
  that hides a row and then rolls back. Several jobs per claim, and a batch cut off at the limit, rest
  on the proofs.
* *Agent.* The clock reaches past the end of a window, and two payloads with an end let one prune the
  other's entry. The control plane's own job is run alone, under files that are left as they are; the
  pause file comes and goes until a first result was delivered, and a job that needs no signature is run,
  on a host whose files permit any job.
* *Window.* A day of eight units has room for windows inside a day, over midnight and of a whole day;
  day 10 is the night of the change.
* *Stores.* Two of each thing are needed for isolation, uniqueness and order; caps are 1 to 2, so that
  they are reached. Hosts, certificates and accounts are interchangeable, their names being compared and
  nothing else. One changed unit per report: ties within a report are in section 5.
* *Enrolment.* Two requests race for one token, one machine id or one place; a third adds no new pair.
* *Contact.* Lifetime 7, renewal at 4 and overlap 2 ticks stand for 90 and 60 days and 48 hours, with a
  jitter of one tick; five certificates exceed the cap of three.
* *Alerts.* Two replicas, two hosts (the least that makes a digest), one unit, one rule; cooldown 2, two
  deliveries in flight, one event per beat, a stream buffer of one, so that each limit is reached.
  For two evaluators on a condition measured in days to undo each other's rows, one host and a rule without
  recipients are enough. They are explored twice: over three ticks with reports at any moment, and over four with
  reports only when nothing is under way, so that a second notification within a cooldown is within reach.
* *Access.* Windows of 3 and 5 ticks with a renewal every 2; a burst of 2 that takes 4 ticks to refill;
  the sweep at 2 buckets, which idle for 4. For every limiter of the server the burst's refill is within
  the idle limit, as `LimiterAssumption` demands.

**What is assumed of time.** In `Contact` a tick passes only when a host that can be served has completed
a cycle in it, and in `Access` only when no request is in flight: a tick is much longer than a request.
`WorkingCredential` is about hosts with at most one renewal interrupted (section 5 has the other case).

**Where a run may stop.** Runs end when what they bound is used up: ids, acts, faults, the clock; a host
that has gone down; a replica that has shut down. These have `CHECK_DEADLOCK FALSE`. Agent and LongPoll
run on for ever and are checked for deadlock.

**Fairness.** `LongPoll!FairSpec`: a handler's goroutine takes its next step, which includes that a hold
of at most 60 seconds runs out; an agent whose request ended asks again; `wake` closes what it took.
Nothing is assumed of the listener or of any notification, and that is the point of the run: with every
wake-up lost the hold alone suffices. `Contact`: the agent's loop runs on, its service is started again after a crash
(the unit file's `Restart`), a handler that has a request answers. `Alerts`: every replica's evaluator
ticks, every step of a delivery has a deadline of its own; nothing makes a host report, an operator act,
a process stop or the clock move. `Access`: a screen goes on polling and is
answered. `Enrolment`, `JobQueue`, `Agent`, `Helpers` and the stores need none, having no liveness property. Faults
are bounded everywhere, which stands for their stopping eventually.

## 4. Proofs

All for arbitrary constants under the assumptions named in the modules.

**Jobs_proofs.** *The queue.* `QueueInv` is inductive. The properties alone are not: that a payload is handed out
once needs `PayloadIsAKey` (host and nonce identify a row; a minted nonce is its row's id) and
`HandedRowsStay` (what was handed out is still there as claimed while its host exists), and these need
`PendingRowsAreFresh` for rows on their way into the table. `ReleasedByAnother` carries the
second-person rule from the approval to the claim, past any change of mode. From `QueueInv` follow
`TypeOK`, `OnlyReleasedWorkRuns`, `HandedOutOnce`, `NoJobOfADeletedHost`, `NotificationsAreTrue`, and with the
step itself `JobHistoryIsFinal` and `RevocationCutsOff`.
Assumed: minted ids are fresh and disjoint from those signers choose; ids are finite in number.

*The window.* For a zone with a constant offset, every day length, window and instant, `Contains`
is `ReadsOpen`: the two days it looks at are enough because no window is longer than a day. In such a zone
`OpeningsHold` follows: an instance that is open opened on one of these two days, so `NextOpen` has only
openings to come to choose from, and the first one within seven days exists because the eighth day
looked at has today's weekday.

*The helpers.* `TighteningPermitsNoMore` is a fact about `Decide` for all pairs of policies;
`FollowUpHonoursPolicyNow` and `OkMeansDone` follow from the typing of what runs and from only a
follow-up answering for an update with a reboot.

**Agent_proofs.** *The agent.* `AgentInv` is inductive. Its core is `ReplayIsRemembered`: before `notAfter`, a payload
that passed is in the file, and in memory unless the process is down; and if it was inside its window
when `Run` began, it is found even if the window closes before the store is asked. `WorkIsAuthorised`
carries the verified signature from `accept` to the helper; `ProvisionalIsOnRecord` the spool file from
the provisional write to the operation. From it follow the four safety properties and, with the step
itself, `PauseStopsTheHost`.

*The long poll.* `PollInv` is inductive. `ClaimsHoldLocks` (a claim in progress holds the lock of
each row it selected, none of them claimed) with `AnswersCount` gives `ClaimedByOne`. For
`NoLostWakeUp`, `StillListening` says that a request which may come to be held is registered or being
woken, and `NewWorkIsAnnounced` is stronger than the property in naming the notice: the row's own, not
just one for the same host, since a dropped connection loses several notices at once. The claim's
limit enters in one place: an empty selection means that nothing was available, because the limit is
not zero.

**StoreCalls_proofs, StoreParity_proofs.** The inductive invariant is `LockInv`. `Mirrors` makes each table of the
database a function of the maps of the memory store; `Good` is what the maps keep among themselves, map by
map, and stands in for the keys, indexes and cascades of the database: what PostgreSQL refuses because an
index would break, the memory store refuses because it looked. For every call there is a lemma of its own
(`CreateJobAlike`, `RenewCertificateAlike`, ...): given `LockInv`, the new tables mirror the new maps, the maps are
still good, the answers agree, and no side but the caller's has a row changed (`Apart`). Three of them are
long. `SweptAlike` removes fleets, hosts, rules or accounts with everything that names them, and shows that
the maps the memory store sweeps one by one are what the database's cascades leave. `ClaimJobsAlike` rests on the queue
being the records that wait (`QueuedPut`, `WaitingSet`), not a second truth. `RecordEventAlike` and
`RecordUnitTransitionsAlike` show that dropping the oldest places and deleting all but the newest instants
are one eviction, for which the histories must be in order (`HistoryInOrder`); the fact about finite sets they rest on,
that what stays is no more than the bound, is `EvictionBound`. From `LockInv` follow `StoreInv`, and `ReadsAgree`,
read by read: a listing is the same pairs, and a search by secret, address or machine finds at most one row, by
`IndexesHold`. From its step follow `StoresAgree` and `SidesAreIsolated`.
All four are of `Spec /\ OneUnitPerReport`: a report carries at most one changed unit. This is no convenience of
the proof: with two changes of one instant at the cap the two stores really keep different rows (section 5).
`CreateWallboardShare` and `CreateTemplateVersion` are transactions that run alone, as everywhere in the module.
Assumed: the platform is no fleet, bounds are naturals, `None` is no operator.

**Enrolment_proofs.** `EnrolmentInv` is inductive, for any number of machines, tokens, templates and runs.
`TokenNamesItsSpender` is its core: a request past redemption is the one that its token names as its consumer, which
gives one host per token; `SpentOnUse` says that its template was in use since.
`UndisturbedReadsHold` carries what a request read across the gap to its write, unless somebody else wrote in
between; the write of `CreateEnrolledHost` looks again at what must hold of one moment, the machine id and the
limit. `RunIsOnDisk` ties each step of `hostseal enroll` to the files it left, which gives
`ComesBackEnrolled`, and with `OneHolder` (one run at most has a machine's first boot in hand) `AppliedOnce`.
`AdmitsInOneStep` is proved step by step: `CreateHost` is the admission, a revocation or deletion the
withdrawal, a change of the limit itself; everything else is a stutter, the count of members being
the count of active hosts.

**Contact_proofs.** `ContactInv` is inductive. `CapHolds` is a count of live certificates that only a renewal
under the host's row lock raises; `IssuedInTurn` says which certificates can be live. A certificate that
is refused stays refused, so `AnswersMean` keeps an answer of 401 true until the agent hears it, and
`ParksOnRejection` follows. `FilesSurvive` is what `SomethingToPresent` needs: one torn write leaves one
of the two pairs. `CutForGood` (a request sent after the withdrawal finds the row withdrawn) gives
`WithdrawnIsRefused`.

**Access_proofs.** `AccessInv` is inductive. `GoneForGood` (what was ended is a row that is gone, and no
write brings a row back) gives `EndedStaysEnded`; `CutIsRefused` and `HeldWasIssued` carry it through requests in
flight. `TouchIsTimely` bounds what the renewal, a separate write, can do with a row read before; with
`UseIsRecorded` it gives both ends of a session's life. `RemovalLeavesNothing` rests on every insert looking for
the account in its own statement. `WithinBudget` is bookkeeping: `Balance` says that a bucket holds no more
than the budget has left of any stretch of time that reaches up to now, and `LimiterAssumption` that a bucket idle
long enough to be swept was full.

**Alerts_proofs.** The inductive invariant is `Core`: the types, every delivery of every replica sound
(`DeliveriesMean` and `InboxIsComplete` of one delivery), `DrainedBeforeExit`, `TabMissesNothing`, `Story`, which ties
the state rows to what was told, and `NotDropped`, the form in which `NoSilentLoss` is inductive: what is owed
is in some hand, whether or not its process is there, or its failure could not be written down. There is one lemma per
step; each shows that `Core` is kept and, as `Kept`, what no step may do: tell of an end that was not told to have
begun, announce a recovery that is not true, notify of a key again too soon.
`NotDropped` follows what is owed from hand to hand: from the pass that won it, by way of `CoveredIs` and
`BatchIs` (a batch's events and digest cover exactly its hosts), to the deliveries started, and from one form of
a delivery to the next (`DeliveryMoves`). `NoSilentLoss` follows from it: a process that has exited has no deliveries
(`DrainedBeforeExit`), and a pass it still held had outlived its grace (`PassFollowsRules`).
All four theorems hold with any number of evaluators on any condition. What the rows say of the story, `StoryHasAnEnd`
and `StampIsKept`, is kept by every step except the bookkeeping of a condition measured in days; that one adds
the key to `undone`, and the claim that next tells it takes it out. For one evaluator `HeldIsCurrent` (what a
pass has read of a row it has yet to judge is still so) shows that this never happens: `UndoneBySeveral`, part of
`AlertsInv`, says that it takes two.

**Only model-checked.** Liveness (`ReadyWorkIsClaimed`, `DocumentsArrive`, `EndIsTold`,
`WithdrawnGoesDark`), which needs fairness and ENABLED, out of the provers' reach. `WorkingCredential`, which
speaks of the hosts whose interruptions the situations keep shorter than an overlap; no bound in the code does.
`FiringUnitIsNotRunning` and `ParkedForAReason`, which the code violates. Of the stores' unit histories
after reports of several changed units nothing is claimed: there they differ (section 5).
`ReadsTheClock` and `OpeningsHold` on days on which the offset changes.

## 5. Where code and text disagree

Two runs are expected to find a violation; `PROJECT.json` quotes the lines.

* `contact_connection`: the client presents the certificate its open connection was made with. A beat a
  minute keeps that connection open past a renewal, and when the overlap ends the agent is told 401 and
  parks for good, with the renewed pair unused on disk.
* `alerts_units`: a unit that a report shows as activating or inactive between failed and active gives no
  recovery, and its rule stays firing although the unit runs.

The models show more, for which no run is kept.

*Agent and helpers.* A result whose report failed is sent again only after a restart (`DeliverPending` runs
before the first cycle; `docs/PROTOCOL.md` promises retries). A provisional "succeeded" can be delivered
for an operation that never ran, when the host stops between the spool and the helper. At the instant
`notAfter` the nonce is forgotten and the job still valid. West of Greenwich, a window whose start falls
into the missing hour opens an hour early, where the comment in `window.go` says an hour late. A delayed
reboot is judged when asked for and may happen after the window closed.

*Renewal.* Two renewals whose answers are lost leave three live certificates, so that renewals get 429
until the held one is superseded, and then the host cannot authenticate again; the comment at
`agentapi.go:768` expects a certificate to come back on. One lost answer does the same to an agent
that is stopped, suspended or unreachable for longer than the overlap. `WriteCredential` copies a corrupt
current file over a good previous one, so between its two writes no usable pair exists.
An agent that stops between `writeSeed` and `removeSeed` leaves the seed behind.

*Heartbeat.* The digest of the signers document is claimed over the lines of the trust anchor and stored
over the list that is reported. They agree only for an empty anchor, so a full report is asked for on
every second beat, where `docs/PROTOCOL.md` says full reports are rare.

*Alerts and events.* The bookkeeping `UpsertAlertState` of `evaluateRule` writes the whole row as the pass has
read it, with a new `Since`. Two evaluators on `reboot_required`, a host that reports between their reads: the one
claims and notifies, and the other puts the row back, firing flag and stamp. The end of what was told is then never
told, and a cooldown longer than the threshold is forgotten; the comment at `alerts.go:267-270` expects no more than
"a firing a minute early". `undone` names those keys; without it `StoryHasAnEnd` and `OnePerCooldown` are violated in
the deployment with two evaluators and a condition in days. A rule is fired afresh when a threshold in days is raised, and a recovery is sent. Concurrent
changes of one rule lose one. Events are routed by goroutines of their own, so a recovery may be routed
before its failure. Recoveries past the events allowed per beat are not emitted later. A refused
`RecordEvent` is only logged, so what is announced and mailed may be in no inbox (`unrecorded`), and a refused
`RecordAlertDelivery` hides a failed mail (`unstamped`). An evaluator that outlives the shutdown's grace may
exit with a claim won and nothing sent (`LostAtExit`). `InboxIsComplete` and `NoSilentLoss` name these and hold of
everything else. `eventsapi.go:60` says that a full buffer loses the oldest event; `broadcast` drops the
newest.

*Stores.* For an unknown tenant the memory store answers as its `errUnknownTenant` says and PostgreSQL's
`CreateEnrolledHost` with "not found". With a job id taken and its host missing, one answers "not
found", the other "conflict". More transitions of one instant than fit are kept by PostgreSQL and cut by
the memory store, which keeps those of a deleted host. Which jobs a limited claim takes first may
differ. Two links published at once may exceed the cap (documented at `CreateWallboardShare`), and two
template versions stored at once conflict.

*Accounts.* A sign-in that rehashes the old password may write after a change of password that was
acknowledged, and restore the old one; it takes parameters raised since the old hash was made. The
documentation of `wallboard.go` speaks of changing a link's passphrase, for which there is no route.

## 6. What is not modelled

* The text of things: JSON, TOML, canonical encoding, messages, logs, what a board or a list shows.
  Encodings are taken to be injective and parsers to accept what the types say.
* Cryptography: a signature exists if its key signed that payload; a token or a session is never guessed.
* PostgreSQL: a transaction of the store is one step, except the claim in `LongPoll`. Row-level security is
  the tenant column its policies compare. A commit whose outcome the caller does not learn is not modelled.
* Clocks only advance.
* In `Window`, a zone changes by one unit at wall clock 2 or 3. For a zone that changes at midnight
  west of Greenwich, adding a day with `AddDate` and `time.Date` can land on the day before; TLC then
  finds `OpeningsHold` violated. No such zone is among the instances.
* A response lost after its claim leaves a job claimed for ever: there is no lease, by design. The
  step is in `LongPoll`; there is no promise to check.
* In `Access`: creating accounts, the CSRF header, cookie attributes, listings, last-seen stamps of tokens
  and links, the limit on concurrent derivations. Limiters other than those of sign-in and of password
  changes refuse or not, within a bound.
* In `Agent`: backoff times. In `Alerts`: a second rule or unit on one host; an operator's change of a rule is
  one step, though the handler reads the rule and then writes it (section 5).
* `RevocationCutsOff` begins when the requests that a revoked host had in flight are answered; one of
  them, a held poll, may still hand out a job.
* In `Access`: a browser has one request in flight, so two renewals of one session do not overlap; a browser that
  signs out forgets its cookie, so `EndedStaysEnded` is about what others end.
* Signing backends (foreign libraries), the local signing service (one operator's machine), fact
  collection (formats and system calls), the command line, all of the web interface but the wallboard
  page, packaging: see `PROJECT.json` for each.

## 7. Plan

Done: the modules of section 2, their runs, and the proofs of section 4.

To prove next: `ReadsTheClock` across a change of offset, for which `DateIn` has to be reasoned about; what of the
two stores' unit histories still agrees when reports carry several changes.

To model next: the local signing service (one signing at a time against the idle timer); `JobQueue`, a
lossy delivery and `Agent` composed, for the statement that a payload is performed at most once and that
an operator reads what happened; two rules on one host in `Alerts`; two requests of one
browser at once in `Access`.
