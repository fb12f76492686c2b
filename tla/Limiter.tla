------------------------------- MODULE Limiter -------------------------------
(***************************************************************************)
(* The token buckets of the control plane (internal/server/ratelimit.go):  *)
(* one limiter is a map from a source, an account or a share to its        *)
(* bucket.  An attempt costs Refill units and one unit comes back with     *)
(* every unit of time, so that what the code keeps as a fraction of an     *)
(* attempt is a natural number here.                                       *)
(***************************************************************************)
EXTENDS Integers, FiniteSets

CONSTANTS
    Burst,      \* attempts a bucket holds
    Refill,     \* how long one takes to come back
    IdleTTL,    \* enrollIdleTTL, the same for every limiter
    SweepAt     \* buckets from which on a new one sweeps (1024)

ASSUME LimiterAssumption ==
    /\ Burst \in Nat \ {0} /\ Refill \in Nat \ {0} /\ SweepAt \in Nat
    /\ IdleTTL \in Nat /\ Burst * Refill <= IdleTTL

Full == Burst * Refill
NoBucket == [left |-> -1, last |-> 0]       \* no entry in the map
Bucket == [left : 0 .. Full, last : Nat]

Least(a, b) == IF a <= b THEN a ELSE b

\* The bucket of a known source as of t.
Refilled(b, t) == [left |-> Least(b.left + (t - b.last), Full), last |-> t]

MayTry(b, t) == b = NoBucket \/ Refilled(b, t).left >= Refill

\* An attempt at t, let through or not.
Charged(b, t) ==
    IF b = NoBucket THEN [left |-> Full - Refill, last |-> t]
    ELSE IF MayTry(b, t) THEN [Refilled(b, t) EXCEPT !.left = @ - Refill] ELSE Refilled(b, t)

Known(buckets) == {k \in DOMAIN buckets : buckets[k] # NoBucket}

\* Mutation: the sweep drops every other source.
SweepOthers(buckets, t) == [k \in DOMAIN buckets |-> IF t > buckets[k].last THEN NoBucket ELSE buckets[k]]

\* sweep: sources not seen for IdleTTL are forgotten, once there are many.
Sweep(buckets, t) ==
    IF Cardinality(Known(buckets)) < SweepAt THEN buckets
    ELSE [k \in DOMAIN buckets |-> IF t - buckets[k].last > IdleTTL THEN NoBucket ELSE buckets[k]]

\* allow: the map afterwards. Only an unknown source sweeps.
Allow(buckets, key, t) ==
    LET charged == [buckets EXCEPT ![key] = Charged(@, t)]
    IN IF buckets[key] = NoBucket THEN Sweep(charged, t) ELSE charged
=============================================================================
