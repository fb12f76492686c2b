------------------------------ MODULE MCHelpers ------------------------------
(* Helpers on small sets of policies and requests. *)
EXTENDS Helpers, TLC

Pol(a, r, us, o) == [allow |-> a, reboot |-> r, restartable |-> us, open |-> o, maxAge |-> 1]
MCPolicies == {Pol("none", "never", {}, {}), Pol("security", "window", Units, {1}),
               Pol("all", "window", {}, {0, 1}), Pol("all", "never", Units, {0})}

Req(i, f, d, t) == [intent |-> i, rebootIfRequired |-> f, unit |-> CHOOSE u \in Units : TRUE,
                    delay |-> d, issued |-> t]
MCRequests == {Req("packages.applySecurity", FALSE, 0, 0),
               Req("packages.applySecurity", TRUE, 0, 0),
               Req("packages.applyAll", FALSE, 0, 0),
               Req("packages.applyAll", TRUE, 0, 0),
               Req("service.restart", FALSE, 0, NoTime),
               Req("facts.collect", FALSE, 0, 0),
               Req("host.reboot", FALSE, 0, 0),
               Req("host.reboot", FALSE, 1, 0),
               Req("host.reboot", FALSE, 3, NoTime)}

Symmetry == Permutations(Procs)
=============================================================================
