------------------------------ MODULE MCJobQueue ------------------------------
(* JobQueue on a small instance, in two regions of its state space. *)
EXTENDS JobQueue, TLC

Symmetry == Permutations(Hosts) \cup Permutations(Operators) \cup Permutations(OpSlots)

OpsInFlight == {s \in OpSlots : opReq[s] # Idle}
AgentInFlight == {a \in AgentSlots : agentReq[a] # Idle}

TheJob == CHOOSE j \in SignerIds : TRUE

\* One offline-signed job, which two operators with two requests in flight race
\* for, and on which either of two hosts may report.
OneJob ==
    /\ now = 0
    /\ minted = {}
    /\ \A j \in Ids \ {TheJob} : row[j] = NoRow
    /\ row[TheJob] # NoRow => row[TheJob].notBefore = 0
    /\ \A s \in OpSlots : opReq[s].kind = "create" =>
          opReq[s].id = TheJob /\ opReq[s].row.notBefore = 0
    /\ \A a \in AgentSlots : agentReq[a].kind = "result" => agentReq[a].id = TheJob
    /\ suspended => OpsInFlight = {}

\* Several jobs of one host and one operator, one payload under two ids among
\* them, over time and without approval.
OneHost ==
    /\ mode = "none"
    /\ ~suspended
    /\ Cardinality(OpsInFlight) <= 1
    /\ \A s \in OpsInFlight : opReq[s].kind = "create"
    /\ LET rows == {row[j] : j \in Present} \cup {opReq[s].row : s \in OpsInFlight}
       IN /\ Cardinality({h \in Hosts : host[h] # "live"} \cup {r.host : r \in rows}
                         \cup {agentReq[a].host : a \in AgentInFlight}) <= 1
          /\ Cardinality({r.createdBy : r \in rows}) <= 1

Scope == OneJob \/ OneHost
=============================================================================
