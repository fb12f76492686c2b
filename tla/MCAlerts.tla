------------------------------- MODULE MCAlerts -------------------------------
(* A control plane of one or two replicas, one tenant and one rule. *)
EXTENDS Alerts, TLC

One(condition, hostset, acts, until) ==
    [replicas |-> {"ra"}, hosts |-> hostset, condition |-> condition, acts |-> acts, until |-> until]
Two(condition, hostset, acts, until) == [One(condition, hostset, acts, until) EXCEPT !.replicas = {"ra", "rb"}]

\* Two evaluators on one rule, one under its operators' hands, one and two on a condition measured in days, one with
\* two hosts and a digest through a shutdown; and unit events with a webhook and a tab, and through a shutdown.
\* Where the writes fail, so may every write that only reports.
SafeDeployments ==
    {Two("security_updates", {"h1"}, {"seen", "mailless"}, 3),
     One("host_silent", {"h1"}, {"seen", "mailless", "patch", "delete", "revoke"}, 4),
     One("reboot_required", {"h1"}, {"mail"}, 5),
     Two("reboot_required", {"h1"}, {"seen", "mailless", "calm"}, 4),
     Two("reboot_required", {"h1"}, {"seen", "mailless"}, 3),
     One("security_updates", {"h1", "h2"}, {"seen", "mail", "mailless", "stop"}, 3),
     One("security_updates", {"h1"}, {"seen", "mail", "stop", "writesfail"}, 3),
     One("unit_failed", {"h1"}, {"mail", "tab", "webhook"}, 4),
     One("unit_failed", {"h1"}, {"seen", "mail", "stop", "writesfail"}, 4)}

CalmOnUnits == {One("unit_failed", {"h1"}, {"seen", "mail", "calm"}, 4)}

Docs == {[backlog |-> 0, reboot |-> FALSE], [backlog |-> 2, reboot |-> TRUE]}
=============================================================================
