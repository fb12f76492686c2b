----------------------------- MODULE MCEnrolment -----------------------------
(* Two runs of `hostseal enroll', on one machine or two, with two tokens and one template. *)
EXTENDS Enrolment, TLC

Race(where, limits, may, fail) ==
    [runs |-> Enrolments, machines |-> where, tokens |-> Tokens, named |-> {None}, limits |-> limits,
     acts |-> may, faults |-> fail]
Provision(who, where, given, may, fail) ==
    [runs |-> who, machines |-> {where}, tokens |-> given, named |-> Names, limits |-> {NoLimit},
     acts |-> may, faults |-> fail]

\* Two runs that race: on one machine; on two, in a fleet with one place left, one of them without a machine id;
\* under the hands of operators.  And a template: with everything operators do to it, applied by two runs at once
\* through crashes and reboots, and from a control plane that answers what it likes.
AllSituations ==
    {Race({"m1"}, {NoLimit}, {}, {"store", "lost", "killed"}),
     Race({"m1", "m2"}, {1}, {"tenant"}, {"lost"}),
     Race({"m2"}, {NoLimit}, {"withdraw", "expire"}, {}),
     Race({"m1"}, {1}, {"withdraw"}, {}),
     Provision({"e1"}, "m1", {"t1"}, {"token", "version", "archive", "expire"}, {"store"}),
     Provision(Enrolments, "m2", Tokens, {}, {"killed", "reboot"}),
     Provision({"e1"}, "m1", {"t1"}, {"version"}, {"forged", "reboot"})}
=============================================================================
