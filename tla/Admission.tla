------------------------------ MODULE Admission ------------------------------
(***************************************************************************)
(* What enrolment promises, however many handlers serve it: a machine is   *)
(* admitted in one step that looks at the token, the machine id and the    *)
(* host limit together.  Enrolment implements this.                        *)
(***************************************************************************)
EXTENDS Integers, FiniteSets

CONSTANTS Candidates, Machines, Anonymous, Tokens

VARIABLES
    members,    \* the candidates that are hosts, each with the machine and the token it came with
    spent,      \* the tokens that have admitted somebody
    limit       \* a number of hosts, or -1 for as many as come

Fits(n) == limit = -1 \/ n <= limit

Init == members = {} /\ spent = {} /\ limit \in Nat \cup {-1}

Admit(c, m, t) ==
    /\ t \notin spent
    /\ m \notin Anonymous => \A x \in members : x.machine # m
    /\ Fits(Cardinality(members) + 1)
    /\ members' = members \cup {[name |-> c, machine |-> m, token |-> t]}
    /\ spent' = spent \cup {t}
    /\ UNCHANGED limit

\* A member that is revoked or deleted makes room; its token stays spent.
Dismiss(x) ==
    /\ members' = members \ {x}
    /\ UNCHANGED <<spent, limit>>

\* A limit lowered under the count removes nobody.
SetLimit ==
    /\ limit' \in Nat \cup {-1}
    /\ UNCHANGED <<members, spent>>

Next ==
    \/ \E c \in Candidates, m \in Machines, t \in Tokens : Admit(c, m, t)
    \/ \E x \in members : Dismiss(x)
    \/ SetLimit

Spec == Init /\ [][Next]_<<members, spent, limit>>
=============================================================================
