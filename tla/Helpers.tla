------------------------------- MODULE Helpers -------------------------------
(***************************************************************************)
(* The three root helpers of a host (helpers/*, internal/helper) and the   *)
(* local policy they enforce (internal/policy/decide.go, policy.go).       *)
(*                                                                         *)
(* A helper process is started for each connection and lives for one       *)
(* request. The agent that connects is not trusted: it may send any        *)
(* request to any socket. The policy file, the pause switch and the clock  *)
(* change while helpers run, and several may run at once.                  *)
(***************************************************************************)
EXTENDS Integers

CONSTANTS
    Procs,          \* helper processes that may run at once
    Units,          \* systemd unit names
    Policies,       \* the policy files an administrator may write, parsed
    Requests,       \* what may be sent to a helper
    MaxDelay,       \* longest reboot delay the catalogue accepts, in seconds
    Minute,         \* seconds in a unit of the clock
    DefaultMaxAge,  \* limits.max_job_age_seconds when no file says otherwise
    LastTick,       \* bound on the clock
    NoTime, NoReq, Absent, Unreadable

Instants == 0 .. LastTick
Allows == {"none", "security", "all"}
UpdateIntents == {"packages.applySecurity", "packages.applyAll"}
UnitIntents == {"service.start", "service.stop", "service.restart"}
ReadIntents == {"facts.collect", "packages.listUpgradable", "services.list",
                "reboot.checkRequired"}
Intents == UpdateIntents \cup UnitIntents \cup {"host.reboot"} \cup ReadIntents
Sockets == {"apply-updates", "restart-unit", "reboot-host"}

\* A policy file that validates; open is when its maintenance window is.
PolicyType == [allow : Allows, reboot : {"never", "window"}, restartable : SUBSET Units,
               open : SUBSET Nat, maxAge : Nat]

RequestType == [intent : Intents, rebootIfRequired : BOOLEAN, unit : Units,
                delay : Nat, issued : Instants \cup {NoTime}]

ASSUME HelpersAssumptions ==
    /\ Policies \subseteq PolicyType
    /\ Requests \subseteq RequestType
    /\ {Absent, Unreadable} \cap PolicyType = {}
    /\ Absent # Unreadable
    /\ NoTime \notin Int
    /\ NoReq \notin RequestType
    /\ MaxDelay \in Nat /\ Minute \in Nat \ {0}
    /\ DefaultMaxAge \in Nat /\ LastTick \in Nat

VARIABLES
    file,       \* /etc/hostseal/policy.toml
    paused,     \* whether the pause switch exists
    clock,
    proc,       \* the helper processes
    pending,    \* the shutdown systemd has scheduled: its time, or NoTime
    needsReboot,\* whether the updates applied so far need a reboot
    conclusive  \* whether anything on this host can tell

helpersVars == <<file, paused, clock, proc, pending, needsReboot, conclusive>>

Exits == {"ok", "usage", "refused", "failed"}
Quiet == [pc |-> "idle", req |-> NoReq, exit |-> "ok"]

-----------------------------------------------------------------------------
(* Local policy *)

Default == [allow |-> "security", reboot |-> "never", restartable |-> {},
            open |-> Nat, maxAge |-> DefaultMaxAge]

\* LoadFrom: a missing file is the built-in default.
Loaded == IF file = Absent THEN Default ELSE file

rank(a) == CASE a = "none" -> 0 [] a = "security" -> 1 [] a = "all" -> 2

\* Mutation: the higher of the two levels.
MaxAllow(a, b) == IF rank(b) > rank(a) THEN b ELSE a

\* policy.Min: the lower of the two levels.
MinAllow(a, b) == IF rank(b) < rank(a) THEN b ELSE a

requestedAllow(i) == IF i = "packages.applyAll" THEN "all" ELSE "security"

DecideReboot(p, t) ==
    CASE p.reboot # "window" -> "reboot_not_allowed"
      [] p.reboot = "window" /\ t \notin p.open -> "outside_window"
      [] OTHER -> "allowed"

\* An update that asks for a follow-up reboot is also judged as a reboot.
DecideUpdate(p, req, t) ==
    IF MinAllow(requestedAllow(req.intent), p.allow) # requestedAllow(req.intent)
    THEN "updates_not_allowed"
    ELSE IF req.rebootIfRequired THEN DecideReboot(p, t) ELSE "allowed"

DecideUnit(p, req) == IF req.unit \in p.restartable THEN "allowed" ELSE "unit_not_restartable"

Expired(p, req, t) == req.issued # NoTime /\ t - req.issued > p.maxAge

Decide(p, req, t, isPaused) ==
    CASE isPaused -> "paused"
      [] ~isPaused /\ req.intent \in ReadIntents -> "allowed"
      [] ~isPaused /\ req.intent \notin ReadIntents /\ Expired(p, req, t) -> "expired"
      [] OTHER ->
           CASE req.intent \in UpdateIntents -> DecideUpdate(p, req, t)
             [] req.intent \in UnitIntents -> DecideUnit(p, req)
             [] req.intent = "host.reboot" -> DecideReboot(p, t)

-----------------------------------------------------------------------------
(* One request *)

\* The privsep routing table; a read-only intent has no helper.
Endpoint(i) ==
    CASE i \in UpdateIntents -> "apply-updates"
      [] i \in UnitIntents -> "restart-unit"
      [] i = "host.reboot" -> "reboot-host"
      [] OTHER -> "none"

\* intent.Decode: packages.applySecurity has no rebootIfRequired parameter.
Decodes(req) ==
    /\ req.rebootIfRequired => req.intent = "packages.applyAll"
    /\ req.intent = "host.reboot" => req.delay <= MaxDelay

\* Not this helper's work, or parameters the catalogue does not accept.
Malformed(socket, req) == Endpoint(req.intent) # socket \/ ~Decodes(req)

\* Process p, whose request is req, goes on to pc.
Goes(p, pc, req, exit) == proc' = [proc EXCEPT ![p] = [pc |-> pc, req |-> req, exit |-> exit]]

Reply(p, exit) == Goes(p, "replied", proc[p].req, exit)

\* Authorise: the policy is read, and decides.
Authorised(req) == file # Unreadable /\ Decide(Loaded, req, clock, paused) = "allowed"

\* Perform up to the operation: route, decode, read the policy, decide.
Perform(p, socket, req) ==
    /\ proc[p] = Quiet
    /\ \/ Malformed(socket, req) /\ Goes(p, "replied", req, "usage")
       \/ ~Malformed(socket, req) /\ ~Authorised(req) /\ Goes(p, "replied", req, "refused")
       \/ ~Malformed(socket, req) /\ Authorised(req) /\ Goes(p, "authorised", req, "ok")
    /\ UNCHANGED <<file, paused, clock, pending, needsReboot, conclusive>>

\* apply: the update fails or is interrupted, or succeeds and is the whole
\* job, or succeeds and the follow-up reboot is considered next. Any run may
\* have replaced something that needs a reboot.
RunUpdate(p) ==
    /\ proc[p].pc = "authorised" /\ proc[p].req.intent \in UpdateIntents
    /\ \E again \in BOOLEAN : needsReboot' = (needsReboot \/ again)
    /\ \/ Reply(p, "failed")
       \/ ~proc[p].req.rebootIfRequired /\ Reply(p, "ok")
       \/ /\ proc[p].req.rebootIfRequired
          /\ IF proc[p].req.intent = "packages.applySecurity" THEN Reply(p, "failed")
             ELSE Goes(p, "updated", proc[p].req, "ok")
    /\ UNCHANGED <<file, paused, clock, pending, conclusive>>

RebootRequest == [intent |-> "host.reboot", rebootIfRequired |-> FALSE,
                  unit |-> CHOOSE u \in Units : TRUE, delay |-> 0, issued |-> NoTime]

\* Mutation: the decision at the top of the job is reused.
FollowUpAllowedAsBefore == TRUE

\* The policy is read again, and asked about a reboot now.
FollowUpAllowed == Authorised(RebootRequest)

\* Mutation: a host that cannot tell is taken for one that needs no reboot.
NoRebootKnownOrUnknown == ~needsReboot \/ ~conclusive

\* RebootRequired reports that no reboot is needed, and can know.
NoRebootKnown == conclusive /\ ~needsReboot

\* The follow-up fails when nothing can tell, when policy refuses, and when
\* shutdown(8) does.
FollowUpFails == ~NoRebootKnown

\* rebootIfRequired, after the update.
FollowUp(p) ==
    /\ proc[p].pc = "updated"
    /\ \/ NoRebootKnown /\ Reply(p, "ok") /\ UNCHANGED pending
       \/ FollowUpFails /\ Reply(p, "failed") /\ UNCHANGED pending
       \/ /\ ~NoRebootKnown /\ conclusive
          /\ FollowUpAllowed
          /\ pending' = clock
          /\ Reply(p, "ok")
    /\ UNCHANGED <<file, paused, clock, needsReboot, conclusive>>

\* restart-unit: systemd reports "done", or anything else.
ActOnUnit(p) ==
    /\ proc[p].pc = "authorised" /\ proc[p].req.intent \in UnitIntents
    /\ \E code \in {"ok", "failed"} : Reply(p, code)
    /\ UNCHANGED <<file, paused, clock, pending, needsReboot, conclusive>>

\* shutdownTime: whole minutes, rounded up.
ShutdownTime(delay) == (delay + Minute - 1) \div Minute

\* reboot-host: a later shutdown replaces the one scheduled before.
ScheduleReboot(p) ==
    /\ proc[p].pc = "authorised" /\ proc[p].req.intent = "host.reboot"
    /\ \/ /\ pending' = clock + ShutdownTime(proc[p].req.delay)
          /\ Reply(p, "ok")
       \/ UNCHANGED pending /\ Reply(p, "failed")
    /\ UNCHANGED <<file, paused, clock, needsReboot, conclusive>>

\* The reply is written, or nobody is there to read it; the process ends.
Exit(p) ==
    /\ proc[p].pc = "replied"
    /\ proc' = [proc EXCEPT ![p] = Quiet]
    /\ UNCHANGED <<file, paused, clock, pending, needsReboot, conclusive>>

-----------------------------------------------------------------------------
(* The host *)

EditPolicy(f) ==
    /\ f # file
    /\ file' = f
    /\ UNCHANGED <<paused, clock, proc, pending, needsReboot, conclusive>>

Pause ==
    /\ paused' = ~paused
    /\ UNCHANGED <<file, clock, proc, pending, needsReboot, conclusive>>

\* A shutdown that is due is not put off.
ClockTick ==
    /\ clock < LastTick /\ pending # clock
    /\ clock' = clock + 1
    /\ UNCHANGED <<file, paused, proc, pending, needsReboot, conclusive>>

\* systemd takes the host down, and it comes back.
GoDown ==
    /\ pending = clock
    /\ pending' = NoTime
    /\ proc' = [p \in Procs |-> Quiet]
    /\ needsReboot' = FALSE
    /\ UNCHANGED <<file, paused, clock, conclusive>>

HelperStep(p) == RunUpdate(p) \/ FollowUp(p) \/ ActOnUnit(p) \/ ScheduleReboot(p) \/ Exit(p)

HelpersNext ==
    \/ \E p \in Procs :
          \/ \E s \in Sockets, req \in Requests : Perform(p, s, req)
          \/ HelperStep(p)
    \/ \E f \in Policies \cup {Absent, Unreadable} : EditPolicy(f)
    \/ Pause \/ ClockTick \/ GoDown

HelpersInit ==
    /\ file \in Policies \cup {Absent}
    /\ paused = FALSE
    /\ clock = 0
    /\ proc = [p \in Procs |-> Quiet]
    /\ pending = NoTime
    /\ needsReboot = FALSE
    /\ conclusive \in BOOLEAN

HelpersSpec == HelpersInit /\ [][HelpersNext]_helpersVars

-----------------------------------------------------------------------------
(* What is right about the helpers *)

\* Every variable holds a value of its kind; a process that runs has a
\* request that decoded.
HelpersTypeOK ==
    /\ file \in Policies \cup {Absent, Unreadable}
    /\ paused \in BOOLEAN /\ needsReboot \in BOOLEAN /\ conclusive \in BOOLEAN
    /\ clock \in Instants
    /\ proc \in [Procs -> [pc : {"idle", "authorised", "updated", "replied"},
                           req : Requests \cup {NoReq}, exit : Exits]]
    /\ pending \in Nat \cup {NoTime}
    /\ \A p \in Procs : proc[p].pc \in {"authorised", "updated"} =>
          proc[p].req \in Requests /\ Decodes(proc[p].req)

\* p asks for no more than q.
Tighter(p, q) ==
    /\ rank(p.allow) <= rank(q.allow)
    /\ p.reboot = "window" => q.reboot = "window"
    /\ p.restartable \subseteq q.restartable
    /\ p.open \subseteq q.open
    /\ p.maxAge <= q.maxAge

\* Tightening a policy never permits anything more: what a file permits, every
\* file that says at least as much everywhere permits too (Decide, Min,
\* decideUpdate, decideReboot, at every instant and for every request).
TighteningPermitsNoMore ==
    file \in Policies => \A p \in Policies, req \in Requests :
        Tighter(p, file) /\ Decide(p, req, clock, paused) = "allowed" =>
            Decide(file, req, clock, paused) = "allowed"

\* A follow-up reboot is judged when it is about to happen: whatever was
\* permitted before the update ran, the host is sent down by apply-updates
\* only if it is not paused and the file as it stands has the window open
\* (rebootIfRequired, EditPolicy, Pause and Tick interleaved).
FollowUpHonoursPolicyNow ==
    [][\A p \in Procs :
          proc[p].pc = "updated" /\ proc'[p].pc = "replied" /\ pending' # pending =>
          /\ ~paused
          /\ file \in Policies /\ file.reboot = "window" /\ clock \in file.open]_helpersVars

\* A job that asked for a reboot if one is needed is reported as finished only
\* when none is needed, or the host is on its way down: never for a host that
\* runs the replaced libraries (apply, rebootIfRequired).
OkMeansDone ==
    [][\A p \in Procs :
          proc[p].pc = "updated" /\ proc'[p].pc = "replied" /\ proc'[p].exit = "ok" =>
             (needsReboot => pending' # NoTime)]_helpersVars

=============================================================================
