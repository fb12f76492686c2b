---------------------------- MODULE Alerts_proofs ----------------------------
(***************************************************************************)
(* Theorems about Alerts for every number of replicas, hosts, units and    *)
(* rules.                                                                  *)
(***************************************************************************)
EXTENDS Alerts, FiniteSetTheorems, TLAPS

-----------------------------------------------------------------------------
(* Records *)

LEMMA Bounds ==
    /\ Cooldown \in Nat \ {0} /\ AlertDigestThreshold \in Nat \ {0} /\ MaxOutboundInFlight \in Nat \ {0}
    /\ DeliveryAttempts \in Nat \ {0} /\ StreamBuffer \in Nat \ {0} /\ MaxTime \in Nat \ {0}
  BY BoundsAssumption

\* How far a pass has come says what it carries.
LEMMA PassIs ==
    ASSUME NEW p \in Passes
    PROVE  /\ p.pc \in {"idle", "hosts", "states", "rule"}
           /\ p.pc = "idle" => p = Resting
           /\ p.pc = "hosts" => p \in HostsPass
           /\ p.pc = "states" => p \in StatesPass
           /\ p.pc = "rule" => p \in RulePass
  <1>1. CASE p = Resting
    BY <1>1 DEF Resting
  <1>2. CASE p \in HostsPass
    BY <1>2 DEF HostsPass
  <1>3. CASE p \in StatesPass
    BY <1>3 DEF StatesPass
  <1>4. CASE p \in RulePass
    BY <1>4 DEF RulePass
  <1> QED BY <1>1, <1>2, <1>3, <1>4 DEF Passes

\* What is left of a pass when its rule is done.
LEMMA NextRule ==
    ASSUME NEW p, NEW held \in [Keys -> State], NEW left \in SUBSET RuleIDs,
           p \in StatesPass \/ p \in RulePass, NEW w, w = AtRule(p, held, left)
    PROVE  /\ w \in Passes
           /\ w.pc \in {"idle", "rule"}
           /\ w.pc = "rule" => /\ w.at = p.at /\ w.rules = p.rules /\ w.held = held
                              /\ w.firing = {} /\ w.recovered = {} /\ w.todo = w.active
                              /\ w.rule \in left /\ w.left = left \ {w.rule}
  <1>1. CASE left = {}
    BY <1>1 DEF AtRule, Passes, Resting
  <1>2. CASE left # {}
    <2> DEFINE id == CHOOSE x \in left : TRUE
    <2>1. id \in left
      BY <1>2
    <2> HIDE DEF id
    <2>2. w = [pc |-> "rule", at |-> p.at, left |-> left \ {id}, rules |-> p.rules, active |-> p.active, raw |-> p.raw,
               held |-> held, rule |-> id, todo |-> p.active, firing |-> {}, recovered |-> {}]
      BY <1>2 DEF AtRule, id
    <2>3. /\ p.at \in 1 .. MaxTime /\ p.rules \in [RuleIDs -> Rule] /\ p.active \in SUBSET Hosts
          /\ p.raw \in SUBSET (RuleIDs \X Hosts)
      BY DEF StatesPass, RulePass
    <2>4. w \in RulePass
      BY <2>1, <2>2, <2>3 DEF RulePass
    <2> QED BY <2>1, <2>2, <2>4 DEF Passes
  <1> QED BY <1>1, <1>2

\* A delivery as it sets out: nothing is claimed for it, and no rule is ahead of it.
LEMMA EventDeliveryIs ==
    ASSUME NEW ev \in Events, NEW x, x = EventDelivery(ev)
    PROVE  x \in Deliveries /\ x.ev = ev /\ x.pc # "mail" /\ x.covers = {} /\ x.due = {}
  BY BoundsAssumption DEF EventDelivery, Deliveries

\* A rule's mail names the rule and what it covers.
LEMMA MailDeliveryIs ==
    ASSUME NEW id \in RuleIDs, NEW ev \in Events, NEW C \in SUBSET Notifications, NEW x, x = MailDelivery(id, ev, C)
    PROVE  /\ x \in Deliveries /\ x.ev = ev /\ x.pc = "mail" /\ x.covers = C /\ x.due = {} /\ x.rule = id
  BY BoundsAssumption DEF MailDelivery, Deliveries

\* A delivery with rules left to mail carries its event on, and covers nothing.
LEMMA OnwardIs ==
    ASSUME NEW d \in Deliveries, NEW at \in 0 .. MaxTime, NEW due \in SUBSET RuleIDs, NEW x \in Onward(d, at, due)
    PROVE  /\ x \in Deliveries /\ x.ev = d.ev /\ x.pc = "rules" /\ x.covers = {} /\ x.due = due /\ x.at = at
           /\ due # {}
  BY DEF Onward, Deliveries

\* A delivery that won a claim covers what it claimed.
LEMMA MailingIs ==
    ASSUME NEW d \in Deliveries, NEW id \in RuleIDs, KeyOf(id, d.ev) \in Keys, d.at # 0, d.ev.kind \in Kinds,
           NEW x, x = Mailing(d, id)
    PROVE  /\ x \in Deliveries /\ x.ev = d.ev /\ x.pc = "mail" /\ x.due = d.due \ {id} /\ x.at = d.at /\ x.rule = id
           /\ x.covers = {<<KeyOf(id, d.ev), d.ev.kind, d.at>>}
  <1>1. <<KeyOf(id, d.ev), d.ev.kind, d.at>> \in Notifications
    BY DEF Deliveries, Notifications
  <1> QED BY <1>1 DEF Mailing, Deliveries

\* Another attempt, or the next station: the same delivery.
LEMMA RetryIs ==
    ASSUME NEW d \in Deliveries, NEW x, x = [d EXCEPT !.tries = @ + 1]
    PROVE  /\ x \in Deliveries /\ x.ev = d.ev /\ x.pc = d.pc /\ x.covers = d.covers /\ x.due = d.due /\ x.at = d.at
           /\ x.rule = d.rule
  BY DEF Deliveries

LEMMA ToRouteIs ==
    ASSUME NEW d \in Deliveries, NEW x, x = [d EXCEPT !.pc = "route", !.tries = 0]
    PROVE  /\ x \in Deliveries /\ x.ev = d.ev /\ x.pc = "route" /\ x.covers = d.covers /\ x.due = d.due /\ x.at = d.at
           /\ x.rule = d.rule
  BY DEF Deliveries

\* A row of the rules keeps what it is asked for, whatever is recorded of its mail.
LEMMA RecordedRules ==
    ASSUME NEW rs \in [RuleIDs -> Rule], NEW id \in RuleIDs, NEW failed \in BOOLEAN,
           NEW written \in BOOLEAN, NEW ws, ws = RecordDelivery(rs, id, failed, written)
    PROVE  /\ ws \in [RuleIDs -> Rule]
           /\ \A x \in RuleIDs : ws[x].row = rs[x].row /\ ws[x].condition = rs[x].condition
           /\ IsRule(ws[id]) /\ written => ws[id].failed = failed
  BY DEF RecordDelivery, Rule, IsRule

\* The three writes to a state row: the flag is cleared and the stamp kept, both are set, or the row is replaced.
LEMMA ReleasedRow ==
    ASSUME NEW s \in [Keys -> State], NEW key \in Keys, NEW w, w = ReleaseAlertFiring(s, key)
    PROVE  /\ w \in [Keys -> State]
           /\ ~w[key].firing /\ w[key].since = 0 /\ w[key].lastNotified = s[key].lastNotified
           /\ \A x \in Keys \ {key} : w[x] = s[x]
  BY Bounds DEF ReleaseAlertFiring, State

LEMMA ClaimedRow ==
    ASSUME NEW s \in [Keys -> State], NEW key \in Keys, NEW at \in 1 .. MaxTime,
           NEW w, w = ClaimAlertNotification(s, key, at)
    PROVE  /\ w \in [Keys -> State]
           /\ w[key].firing /\ w[key].lastNotified = at
           /\ \A x \in Keys \ {key} : w[x] = s[x]
  BY BoundsAssumption DEF ClaimAlertNotification, State

LEMMA ReplacedRow ==
    ASSUME NEW s \in [Keys -> State], NEW key \in Keys, NEW row \in State, NEW w, w = UpsertAlertState(s, key, row)
    PROVE  w \in [Keys -> State] /\ w[key] = row /\ \A x \in Keys \ {key} : w[x] = s[x]
  BY DEF UpsertAlertState

-----------------------------------------------------------------------------
(* The inbox and an open tab *)

\* What is recorded stays, and a tab misses nothing of it (Record, Broadcast).
LEMMA RecordKeeps ==
    ASSUME TypeOK, TabMissesNothing, TabIsRegistered, NEW r \in Replicas, NEW evs \in SUBSET Events, Record(r, evs)
    PROVE  /\ inbox' \subseteq Replicas \X Events /\ unrecorded' \subseteq Replicas \X Events /\ tab' \in Tabs
           /\ Announced \subseteq Announced'
           /\ \A ev \in evs : <<r, ev>> \in Announced'
           /\ \A row \in Announced' \ Announced : row[2] \in evs
           /\ TabMissesNothing' /\ TabIsRegistered'
  <1>1. PICK stored \in SUBSET evs : /\ inbox' = inbox \cup ({r} \X stored)
                                  /\ unrecorded' = unrecorded \cup ({r} \X (evs \ stored))
    BY DEF Record, WrittenOf
  <1>2. /\ Broadcast(r, evs) /\ tab \in Tabs
        /\ inbox \subseteq Replicas \X Events /\ unrecorded \subseteq Replicas \X Events
    BY DEF Record, TypeOK
  <1>3. /\ inbox' \subseteq Replicas \X Events /\ unrecorded' \subseteq Replicas \X Events
        /\ \A row \in inbox' \ inbox : row[1] = r /\ row[2] \in evs
    BY <1>1, <1>2
  <1>4. /\ Announced' = Announced \cup ({r} \X evs)
        /\ \A ev \in evs : <<r, ev>> \in Announced'
        /\ \A row \in Announced' \ Announced : row[2] \in evs
    BY <1>1 DEF Announced
  <1>5. CASE ~tab.registered \/ tab.at # r
    <2>1. tab' = tab
      BY <1>2, <1>5 DEF Broadcast
    <2>2. TabIsRegistered'
      BY <2>1 DEF TabIsRegistered
    <2>3. TabMissesNothing'
      <3> SUFFICES ASSUME tab.phase = "live", NEW row \in inbox', row[1] = tab.at
                   PROVE  row[2] \in tab.seen \cup tab.queue \cup tab.dropped
        BY <2>1 DEF TabMissesNothing
      <3>1. tab.at # r
        BY <1>5 DEF TabIsRegistered
      <3> QED BY <2>1, <3>1, <1>3 DEF TabMissesNothing
    <2> QED BY <1>2, <1>3, <1>4, <2>1, <2>2, <2>3
  <1>6. CASE ~(~tab.registered \/ tab.at # r)
    <2>1. PICK kept \in SUBSET evs : tab' = [tab EXCEPT !.queue = @ \cup kept, !.dropped = @ \cup (evs \ kept)]
      BY <1>2, <1>6 DEF Broadcast
    <2>2. /\ tab' \in Tabs /\ tab'.phase = tab.phase /\ tab'.registered = tab.registered /\ tab'.at = tab.at
          /\ tab'.seen = tab.seen /\ tab'.queue = tab.queue \cup kept /\ tab'.dropped = tab.dropped \cup (evs \ kept)
      BY <1>2, <2>1 DEF Tabs
    <2>3. TabIsRegistered'
      BY <2>2 DEF TabIsRegistered
    <2>4. TabMissesNothing'
      <3> SUFFICES ASSUME tab.phase = "live", NEW row \in inbox', row[1] = tab.at
                   PROVE  row[2] \in tab'.seen \cup tab'.queue \cup tab'.dropped
        BY <2>2 DEF TabMissesNothing
      <3> QED BY <1>3, <2>2 DEF TabMissesNothing
    <2> QED BY <1>2, <1>3, <1>4, <2>2, <2>3, <2>4
  <1> QED BY <1>5, <1>6

\* The tab's own steps: registered before it is greeted, and greeted before it reads the inbox (handleEventStream).
LEMMA TabActs ==
    ASSUME TypeOK, TabMissesNothing, TabIsRegistered,
           (\E r \in Replicas : Subscribe(r)) \/ ReadInbox \/ ReadStream \/ CloseStream
    PROVE  /\ TypeOK' /\ TabMissesNothing' /\ TabIsRegistered'
           /\ UNCHANGED <<deployment, now, shared, pass, deliveries, up, inbox, unrecorded, told>>
  <1>1. UNCHANGED <<deployment, now, shared, pass, deliveries, up, inbox, unrecorded, told>>
    BY DEF Subscribe, ReadInbox, ReadStream, CloseStream
  <1>2. tab \in Tabs /\ inbox \subseteq Replicas \X Events
    BY DEF TypeOK
  <1>3. Closed \in Tabs /\ Closed.phase = "closed"
    BY DEF Closed, Tabs
  <1>4. ASSUME tab' \in Tabs PROVE TypeOK'
    BY <1>1, <1>4 DEF TypeOK, shared, told, InFlight
  <1>5. CASE \E r \in Replicas : Subscribe(r)
    <2>1. PICK r \in Replicas : tab' = [Closed EXCEPT !.phase = "greeted", !.registered = TRUE, !.at = r]
      BY <1>5 DEF Subscribe
    <2>2. tab' \in Tabs /\ tab'.phase = "greeted" /\ tab'.registered
      BY <2>1 DEF Closed, Tabs
    <2> QED BY <1>1, <1>4, <2>2 DEF TabMissesNothing, TabIsRegistered
  <1>6. CASE ReadInbox
    <2>1. /\ tab.phase = "greeted"
          /\ tab' = [tab EXCEPT !.phase = "live", !.seen = @ \cup {row[2] : row \in inbox}]
      BY <1>6 DEF ReadInbox
    <2>2. {row[2] : row \in inbox} \subseteq Events
      BY <1>2
    <2> DEFINE S == {row[2] : row \in inbox}
    <2>3. \A row \in inbox : row[2] \in S
      OBVIOUS
    <2> HIDE DEF S
    <2>4. /\ tab' \in Tabs /\ tab'.registered = tab.registered /\ tab'.seen = tab.seen \cup S
      BY <1>2, <2>1, <2>2 DEF Tabs, S
    <2>5. TabIsRegistered'
      BY <2>1, <2>4 DEF TabIsRegistered
    <2>6. TabMissesNothing'
      BY <1>1, <2>4, <2>3 DEF TabMissesNothing
    <2> QED BY <1>1, <1>4, <2>4, <2>5, <2>6
  <1>7. CASE ReadStream
    <2>1. PICK ev \in tab.queue : tab' = [tab EXCEPT !.queue = @ \ {ev}, !.seen = @ \cup {ev}]
      BY <1>7 DEF ReadStream
    <2>2. /\ tab' \in Tabs /\ tab'.phase = tab.phase /\ tab'.registered = tab.registered /\ tab'.at = tab.at
          /\ tab'.seen = tab.seen \cup {ev} /\ tab'.queue = tab.queue \ {ev} /\ tab'.dropped = tab.dropped
      BY <1>2, <2>1 DEF Tabs
    <2>3. TabIsRegistered'
      BY <2>2 DEF TabIsRegistered
    <2>4. TabMissesNothing'
      BY <1>1, <2>2 DEF TabMissesNothing
    <2> QED BY <1>1, <1>4, <2>2, <2>3, <2>4
  <1>8. CASE CloseStream
    <2>1. tab' = Closed
      BY <1>8 DEF CloseStream
    <2> QED BY <1>1, <1>3, <1>4, <2>1 DEF TabMissesNothing, TabIsRegistered
  <1> QED BY <1>5, <1>6, <1>7, <1>8

-----------------------------------------------------------------------------
(* Deliveries *)

\* An image of a finite set has no more members.
LEMMA ImageIsFinite ==
    ASSUME NEW S, IsFiniteSet(S), NEW f, DOMAIN f = S, f = [x \in S |-> f[x]]
    PROVE  IsFiniteSet({f[x] : x \in S}) /\ Cardinality({f[x] : x \in S}) <= Cardinality(S)
  <1> DEFINE T == {f[x] : x \in S}
  <1>1. f \in [S -> T] /\ \A t \in T : \E x \in S : f[x] = t
    OBVIOUS
  <1>2. f \in Surjection(S, T)
    BY <1>1 DEF Surjection
  <1> QED BY <1>2, FS_Surjection

\* What DeliveriesMean and InboxIsComplete say of one delivery.
Sound(d) ==
    /\ d.ev.kind \in Kinds /\ \E row \in Announced : row[2] = d.ev
    /\ d.pc = "mail" => d.rule \in RuleIDs
    /\ d.pc # "mail" => d.covers = {}
    /\ d.ev.unit # "" => d.ev.host # None
    /\ d.due # {} => d.ev.unit # "" /\ d.at # 0
    /\ \A o \in d.covers : \E row \in Announced : row[2].kind = o[2] /\ row[2].host = o[1][2] /\ row[2].unit = o[1][3]

AllSound == \A r \in Replicas : \A d \in deliveries[r] : Sound(d)

LEMMA SoundIs == AllSound <=> DeliveriesMean /\ InboxIsComplete
  BY DEF AllSound, Sound, DeliveriesMean, InboxIsComplete

\* What is on record stays on record.
LEMMA SoundStays ==
    ASSUME NEW d, Sound(d), Announced \subseteq Announced'
    PROVE  Sound(d)'
  BY DEF Sound

\* How many deliveries a replica has in flight; none at all once it has exited.
Bounded ==
    /\ deliveries \in [Replicas -> SUBSET Deliveries]
    /\ \A r \in Replicas : IsFiniteSet(deliveries[r]) /\ InFlight(r) <= MaxOutboundInFlight

\* A delivery that goes on takes no more room (Replace).
LEMMA ReplaceKeeps ==
    ASSUME Bounded, NEW r \in Replicas, NEW d \in deliveries[r], NEW N \in SUBSET Deliveries,
           N = {} \/ (\E x : N = {x}), Replace(r, d, N)
    PROVE  /\ Bounded'
           /\ deliveries'[r] = (deliveries[r] \ {d}) \cup N
           /\ \A q \in Replicas \ {r} : deliveries'[q] = deliveries[q]
  <1> DEFINE D == deliveries[r]
             E == (D \ {d}) \cup N
  <1>1. /\ D \in SUBSET Deliveries /\ IsFiniteSet(D) /\ Cardinality(D) <= MaxOutboundInFlight
        /\ deliveries' = [deliveries EXCEPT ![r] = E]
    BY DEF Bounded, InFlight, Replace
  <1>2. IsFiniteSet(E) /\ Cardinality(E) <= MaxOutboundInFlight
    <2>1. /\ IsFiniteSet(D \ {d}) /\ Cardinality(D) \in Nat
          /\ Cardinality(D \ {d}) = Cardinality(D) - 1
      BY <1>1, FS_RemoveElement, FS_CardinalityType
    <2>2. CASE N = {}
      <3>1. E = D \ {d}
        BY <2>2
      <3> QED BY <1>1, <2>1, <3>1, Bounds
    <2>3. CASE \E x : N = {x}
      <3>1. PICK x : N = {x}
        BY <2>3
      <3>2. E = (D \ {d}) \cup {x}
        BY <3>1
      <3>3. /\ IsFiniteSet(E)
            /\ Cardinality(E) = Cardinality(D \ {d}) \/ Cardinality(E) = Cardinality(D \ {d}) + 1
        BY <2>1, <3>2, FS_AddElement
      <3> QED BY <1>1, <2>1, <3>3, Bounds
    <2> QED BY <2>2, <2>3
  <1>3. deliveries'[r] = E /\ \A q \in Replicas \ {r} : deliveries'[q] = deliveries[q]
    BY <1>1 DEF Bounded
  <1>4. Bounded'
    <2>1. deliveries' \in [Replicas -> SUBSET Deliveries]
      BY <1>1 DEF Bounded
    <2> HIDE DEF E
    <2> QED BY <1>2, <1>3, <2>1 DEF Bounded, InFlight
  <1> QED BY <1>3, <1>4

\* Deliveries are started where there is room for them (detach).
LEMMA StartKeeps ==
    ASSUME Bounded, up \in [Replicas -> {"running", "stopping", "draining", "cancelled", "stopped"}],
           NEW r \in Replicas, NEW S \in SUBSET Deliveries, IsFiniteSet(S), Cardinality(S) <= Room(r),
           deliveries' = [deliveries EXCEPT ![r] = @ \cup S]
    PROVE  /\ Bounded'
           /\ deliveries'[r] = deliveries[r] \cup S
           /\ \A q \in Replicas \ {r} : deliveries'[q] = deliveries[q]
           /\ Stopped(r) => S = {}
  <1> DEFINE D == deliveries[r]
             E == D \cup S
  <1>1. D \in SUBSET Deliveries /\ IsFiniteSet(D) /\ Cardinality(D) <= MaxOutboundInFlight /\ Cardinality(D) \in Nat
        /\ Cardinality(S) \in Nat
    BY FS_CardinalityType DEF Bounded, InFlight
  <1>2. CASE up[r] \notin Open
    <2>1. S = {}
      BY <1>1, <1>2, FS_EmptySet DEF Room
    <2>2. deliveries' = deliveries
      BY <2>1 DEF Bounded
    <2> QED BY <2>1, <2>2 DEF Bounded, InFlight
  <1>3. CASE up[r] \in Open
    <2>1. Cardinality(S) <= MaxOutboundInFlight - Cardinality(D)
      BY <1>3 DEF Room, InFlight
    <2>2. /\ IsFiniteSet(E) /\ Cardinality(E) = Cardinality(D) + Cardinality(S) - Cardinality(D \cap S)
          /\ Cardinality(D \cap S) \in Nat
      BY <1>1, FS_Union, FS_Intersection, FS_CardinalityType
    <2>3. Cardinality(E) <= MaxOutboundInFlight
      BY <1>1, <2>1, <2>2, Bounds
    <2>4. deliveries'[r] = E /\ \A q \in Replicas \ {r} : deliveries'[q] = deliveries[q]
      BY DEF Bounded
    <2>5. deliveries' \in [Replicas -> SUBSET Deliveries]
      BY <1>1 DEF Bounded
    <2>6. ~Stopped(r)
      BY <1>3 DEF Open, Stopped
    <2> HIDE DEF E
    <2>7. Bounded'
      BY <2>2, <2>3, <2>4, <2>5 DEF Bounded, InFlight
    <2> QED BY <2>4, <2>6, <2>7 DEF E
  <1> QED BY <1>2, <1>3

\* What a replica has in hand, be it there or not: what its deliveries cover, and what its pass has won and not sent.
InHand(r) == Carried(r) \cup Claimed(r)
InPass(p, o) ==
    /\ p.pc = "rule"
    /\ \/ \E h \in p.firing : o = <<<<p.rule, h, "">>, "firing", p.at>>
       \/ \E h \in p.recovered : o = <<<<p.rule, h, "">>, "recovery", p.at>>

LEMMA HandIs ==
    ASSUME NEW D, NEW p, NEW o
    PROVE  o \in (UNION {d.covers : d \in D})
                 \cup (IF p.pc # "rule" THEN {}
                      ELSE {<<<<p.rule, h, "">>, "firing", p.at>> : h \in p.firing}
                           \cup {<<<<p.rule, h, "">>, "recovery", p.at>> : h \in p.recovered})
           <=> (\E d \in D : o \in d.covers) \/ InPass(p, o)
  <1> DEFINE U == UNION {d.covers : d \in D}
             A == {<<<<p.rule, h, "">>, "firing", p.at>> : h \in p.firing}
             B == {<<<<p.rule, h, "">>, "recovery", p.at>> : h \in p.recovered}
  <1>1. o \in U <=> \E d \in D : o \in d.covers
    OBVIOUS
  <1>2. o \in A <=> \E h \in p.firing : o = <<<<p.rule, h, "">>, "firing", p.at>>
    OBVIOUS
  <1>3. o \in B <=> \E h \in p.recovered : o = <<<<p.rule, h, "">>, "recovery", p.at>>
    OBVIOUS
  <1>4. p.pc = "rule" /\ (o \in A \/ o \in B) <=> InPass(p, o)
    BY <1>2, <1>3, Zenon DEF InPass
  <1> HIDE DEF U, A, B
  <1>5. o \in U \cup (IF p.pc # "rule" THEN {} ELSE A \cup B) <=> (\E d \in D : o \in d.covers) \/ InPass(p, o)
    BY <1>1, <1>4
  <1> QED BY <1>5 DEF U, A, B

LEMMA InHandIs ==
    ASSUME NEW r, NEW o
    PROVE  /\ o \in InHand(r) <=> (\E d \in deliveries[r] : o \in d.covers) \/ InPass(pass[r], o)
           /\ o \in InHand(r)' <=> (\E d \in deliveries'[r] : o \in d.covers) \/ InPass(pass'[r], o)
  <1>1. o \in InHand(r) <=> (\E d \in deliveries[r] : o \in d.covers) \/ InPass(pass[r], o)
    BY HandIs, Zenon DEF InHand, Carried, Claimed
  <1>2. o \in InHand(r)' <=> (\E d \in deliveries'[r] : o \in d.covers) \/ InPass(pass'[r], o)
    BY HandIs, Zenon DEF InHand, Carried, Claimed
  <1> QED BY <1>1, <1>2

\* Nothing is owed that nobody has in hand, unless its failure could not be written down.
NotDropped == \A o \in owed : (\E r \in Replicas : o \in InHand(r)) \/ o \in unstamped

\* A step of a delivery loses nothing that is owed: what the delivery covered is settled, or goes on with it.
LEMMA DeliveryMoves ==
    ASSUME TypeOK, AllSound, DrainedBeforeExit, NotDropped,
           NEW r \in Replicas, NEW d \in deliveries[r], NEW N \in SUBSET Deliveries,
           N = {} \/ (\E x : N = {x}), Replace(r, d, N),
           Announced \subseteq Announced', UNCHANGED <<up, pass>>,
           \A x \in N : Sound(x)',
           unstamped \subseteq unstamped',
           \A o \in owed' : (o \in owed /\ o \notin d.covers) \/ (\E x \in N : o \in x.covers) \/ o \in unstamped'
    PROVE  Bounded' /\ AllSound' /\ DrainedBeforeExit' /\ NotDropped'
  <1>1. Bounded
    BY DEF TypeOK, Bounded
  <1>2. /\ Bounded'
        /\ deliveries'[r] = (deliveries[r] \ {d}) \cup N
        /\ \A q \in Replicas \ {r} : deliveries'[q] = deliveries[q]
    BY <1>1, ReplaceKeeps
  <1>3. AllSound'
    <2> SUFFICES ASSUME NEW q \in Replicas, NEW e \in deliveries'[q] PROVE Sound(e)'
      BY DEF AllSound
    <2>1. e \in N \/ e \in deliveries[q]
      BY <1>2
    <2>2. CASE e \in N
      BY <2>2
    <2>3. CASE e \in deliveries[q]
      <3>1. Sound(e)
        BY <2>3 DEF AllSound
      <3> QED BY <3>1, SoundStays
    <2> QED BY <2>1, <2>2, <2>3
  <1>4. DrainedBeforeExit'
    BY <1>2 DEF DrainedBeforeExit, Stopped
  <1>5. NotDropped'
    <2> SUFFICES ASSUME NEW o \in owed' PROVE (\E q \in Replicas : o \in InHand(q)') \/ o \in unstamped'
      BY DEF NotDropped
    <2>1. CASE \E x \in N : o \in x.covers
      <3>1. o \in InHand(r)'
        BY <1>2, <2>1, InHandIs
      <3> QED BY <3>1
    <2>2. CASE o \in owed /\ o \notin d.covers
      <3> SUFFICES ASSUME o \notin unstamped PROVE \E q \in Replicas : o \in InHand(q)'
        OBVIOUS
      <3>1. PICK q \in Replicas : o \in InHand(q)
        BY <2>2 DEF NotDropped
      <3>2. CASE \E e \in deliveries[q] : o \in e.covers
        <4>1. PICK e \in deliveries[q] : o \in e.covers
          BY <3>2
        <4>2. e # d
          BY <2>2, <4>1
        <4>3. e \in deliveries'[q]
          BY <1>2, <4>1, <4>2
        <4>4. o \in InHand(q)'
          BY <4>1, <4>3, InHandIs
        <4> QED BY <4>4
      <3>3. CASE InPass(pass[q], o)
        <4>1. o \in InHand(q)'
          BY <3>3, InHandIs
        <4> QED BY <4>1
      <3> QED BY <3>1, <3>2, <3>3, InHandIs
    <2> QED BY <2>1, <2>2
  <1> QED BY <1>2, <1>3, <1>4, <1>5

-----------------------------------------------------------------------------
(* The story of each key *)

Books == StoryHasAnEnd /\ StampIsKept /\ HeldIsCurrent /\ UndoneBySeveral
Story == PassFollowsRules /\ FiringWasTold /\ TimedWhileFiring /\ Books

\* Rules keep their condition, and one that was there is there or deleted for good.
RulesStand ==
    /\ rules' \in [RuleIDs -> Rule]
    /\ \A id \in RuleIDs :
          /\ rules'[id].condition = rules[id].condition
          /\ rules[id].row # "none" => rules'[id].row # "none" /\ (IsRule(rules'[id]) => IsRule(rules[id]))

\* A pass that was going when the deliveries were closed had outlived its grace.
PassesMayGoOn ==
    \A r \in Replicas : pass[r].pc # "idle" /\ (up[r] \in Open \/ r \in outlived) => up'[r] \in Open \/ r \in outlived'

\* What a step does to one key: nothing, a claim or a release, of which recipients are told in the same step; or
\* the row goes with its rule, or only its clock is set, or it is written back as it was read.
SameKey(key) ==
    /\ states'[key] = states[key] /\ heard'[key] = heard[key] /\ toldAt'[key] = toldAt[key]
    /\ key \in undone' <=> key \in undone
ClaimedKey(key) ==
    /\ states'[key].firing /\ heard'[key] = "firing" /\ states'[key].lastNotified = toldAt'[key]
    /\ key \notin undone'
    /\ toldAt'[key] = states[key].lastNotified
       \/ states[key].lastNotified = 0 \/ states[key].lastNotified <= toldAt'[key] - Cooldown
ForgottenKey(key) == states'[key] = QuietState /\ heard'[key] = None /\ toldAt'[key] = 0 /\ key \notin undone'
ReleasedKey(key) ==
    /\ states[key].firing /\ ~states'[key].firing /\ states'[key].since = 0 /\ heard'[key] = "recovery"
    /\ states'[key].lastNotified = states[key].lastNotified /\ toldAt'[key] = toldAt[key]
    /\ key \in undone' <=> key \in undone

BookedKey(key) ==
    /\ deployment.condition \in MeasuredInDays /\ ~states'[key].firing
    /\ heard'[key] = heard[key] /\ toldAt'[key] = toldAt[key]
    /\ key \in undone => key \in undone'
    /\ key \notin undone' => ~states[key].firing /\ states'[key].lastNotified = states[key].lastNotified
    /\ OneBookkeeper => key \notin undone'
KeyMoves(key) == SameKey(key) \/ ClaimedKey(key) \/ ReleasedKey(key) \/ ForgottenKey(key) \/ BookedKey(key)

\* What recipients hear: no recovery of what they were not told is broken, and two firings a cooldown apart.
Spaced ==
    \A key \in Keys : toldAt'[key] # toldAt[key] /\ toldAt'[key] # 0 /\ toldAt[key] # 0 /\ key \notin undone
        => toldAt'[key] - toldAt[key] >= Cooldown
EndsWhatWasTold == \A o \in owed' \ owed : o[2] = "recovery" => heard[o[1]] = "firing"

\* Claims and releases keep the flag, the clock and the stamp with the story.
LEMMA KeysKeep ==
    ASSUME TypeOK, FiringWasTold, TimedWhileFiring, StoryHasAnEnd, StampIsKept, UndoneBySeveral,
           UNCHANGED deployment, toldAt' \in [Keys -> 0 .. MaxTime], undone' \in SUBSET Keys,
           \A key \in Keys : KeyMoves(key)
    PROVE  /\ FiringWasTold' /\ StoryHasAnEnd' /\ StampIsKept' /\ UndoneBySeveral' /\ Spaced
           /\ deployment.condition \notin MeasuredInDays =>
                 \A key \in Keys : states'[key].firing \/ states'[key].since = 0
           /\ OneBookkeeper' = OneBookkeeper
  <1>1. OneBookkeeper' = OneBookkeeper
    BY DEF OneBookkeeper, Live
  <1>2. FiringWasTold'
    BY DEF FiringWasTold, KeyMoves, BookedKey, SameKey, ClaimedKey, ReleasedKey, ForgottenKey, QuietState, None
  <1>3. ASSUME deployment.condition \notin MeasuredInDays
        PROVE  \A key \in Keys : states'[key].firing \/ states'[key].since = 0
    BY <1>3 DEF TimedWhileFiring, KeyMoves, BookedKey, SameKey, ClaimedKey, ReleasedKey, ForgottenKey, QuietState, None
  <1>4. StoryHasAnEnd'
    BY DEF StoryHasAnEnd, KeyMoves, BookedKey, SameKey, ClaimedKey, ReleasedKey, ForgottenKey, QuietState, None
  <1>5. StampIsKept'
    BY DEF StampIsKept, KeyMoves, BookedKey, SameKey, ClaimedKey, ReleasedKey, ForgottenKey, QuietState, None
  <1>6. UndoneBySeveral'
    <2>1. ASSUME OneBookkeeper, NEW key \in Keys PROVE key \notin undone'
      BY <2>1 DEF UndoneBySeveral, KeyMoves, BookedKey, SameKey, ClaimedKey, ReleasedKey, ForgottenKey
    <2> QED BY <1>1, <2>1 DEF UndoneBySeveral
  <1>7. Spaced
    <2> SUFFICES ASSUME NEW key \in Keys, key \notin undone,
                        toldAt'[key] # toldAt[key], toldAt'[key] # 0, toldAt[key] # 0
                 PROVE  toldAt'[key] - toldAt[key] >= Cooldown
      BY DEF Spaced
    <2>1. /\ states[key].lastNotified = toldAt[key]
          /\ toldAt[key] \in 0 .. MaxTime /\ toldAt'[key] \in 0 .. MaxTime
      BY DEF StampIsKept, TypeOK
    <2>2. ClaimedKey(key)
      BY DEF KeyMoves, BookedKey, SameKey, ReleasedKey, ForgottenKey
    <2> QED BY <2>1, <2>2, Bounds DEF ClaimedKey
  <1> QED BY <1>1, <1>2, <1>3, <1>4, <1>5, <1>6, <1>7

\* What PassFollowsRules, TimedWhileFiring and HeldIsCurrent say of one replica's pass.
FollowsRules(r) ==
    pass[r].pc # "idle" =>
        /\ r \in Live
        /\ up[r] \in Open \/ r \in outlived
        /\ \A id \in RuleIDs : pass[r].rules[id].condition = deployment.condition
        /\ \A id \in Ahead(pass[r]) : rules[id].row # "none"
        /\ pass[r].pc = "rule" => pass[r].rule \notin pass[r].left
TimedHeld(r) ==
    deployment.condition \notin MeasuredInDays /\ pass[r].pc = "rule" =>
        \A key \in Keys : pass[r].held[key].firing \/ pass[r].held[key].since = 0
CurrentHeld(r) ==
    deployment.condition \in MeasuredInDays /\ pass[r].pc = "rule" =>
        \A id \in Ahead(pass[r]), h \in Hosts :
            IsRule(rules[id]) /\ (id = pass[r].rule => h \in pass[r].todo)
                => pass[r].held[<<id, h, "">>] = states[<<id, h, "">>]

\* The rows of the rules' own keys, where no unit is named, stay as they are while the rule stands.
HostRowsStay ==
    \A id \in RuleIDs, h \in Hosts : IsRule(rules'[id]) => states'[<<id, h, "">>] = states[<<id, h, "">>]

\* A pass that stands still follows the rules as they move.
LEMMA OtherPass ==
    ASSUME TypeOK, Story, UNCHANGED deployment, RulesStand, PassesMayGoOn, NEW r \in Replicas, pass'[r] = pass[r]
    PROVE  /\ FollowsRules(r)' /\ TimedHeld(r)'
           /\ OneBookkeeper /\ HostRowsStay => CurrentHeld(r)'
  <1>1. pass[r] \in Passes
    BY DEF TypeOK
  <1>2. pass[r].pc # "idle" => \A id \in Ahead(pass[r]) : id \in RuleIDs
    <2>1. pass[r].pc # "idle" => pass[r].left \subseteq RuleIDs /\ (pass[r].pc = "rule" => pass[r].rule \in RuleIDs)
      BY <1>1, PassIs DEF HostsPass, StatesPass, RulePass
    <2> QED BY <2>1 DEF Ahead
  <1>3. FollowsRules(r)'
    <2>1. pass[r].pc # "idle" =>
              /\ r \in Live
              /\ up[r] \in Open \/ r \in outlived
              /\ \A id \in RuleIDs : pass[r].rules[id].condition = deployment.condition
              /\ \A id \in Ahead(pass[r]) : rules[id].row # "none"
              /\ pass[r].pc = "rule" => pass[r].rule \notin pass[r].left
      BY DEF Story, PassFollowsRules
    <2>2. Ahead(pass[r])' = Ahead(pass[r])
      BY DEF Ahead
    <2> QED BY <1>1, <1>2, <2>1, <2>2 DEF FollowsRules, Live, RulesStand, PassesMayGoOn, Open
  <1>4. TimedHeld(r)'
    <2>1. TimedHeld(r)
      BY DEF Story, TimedWhileFiring, TimedHeld
    <2> QED BY <2>1 DEF TimedHeld
  <1>5. ASSUME OneBookkeeper, HostRowsStay, deployment.condition \in MeasuredInDays, pass[r].pc = "rule",
               NEW id \in Ahead(pass[r]), NEW h \in Hosts, IsRule(rules'[id]), id = pass[r].rule => h \in pass[r].todo
        PROVE  pass[r].held[<<id, h, "">>] = states'[<<id, h, "">>]
    <2>1. id \in RuleIDs /\ rules[id].row # "none"
      BY <1>2, <1>5 DEF Story, PassFollowsRules
    <2>2. IsRule(rules[id])
      BY <1>5, <2>1 DEF RulesStand
    <2>3. pass[r].held[<<id, h, "">>] = states[<<id, h, "">>]
      BY <1>5, <2>2 DEF Story, Books, HeldIsCurrent
    <2> QED BY <1>5, <2>1, <2>3 DEF HostRowsStay
  <1>6. OneBookkeeper /\ HostRowsStay => CurrentHeld(r)'
    <2>1. Ahead(pass[r])' = Ahead(pass[r])
      BY DEF Ahead
    <2> QED BY <1>5, <2>1 DEF CurrentHeld
  <1> QED BY <1>3, <1>4, <1>6

\* The story as a whole goes on when every key's and every pass's does.
LEMMA StoryMoves ==
    ASSUME TypeOK, Story, UNCHANGED deployment, RulesStand, toldAt' \in [Keys -> 0 .. MaxTime],
           undone' \in SUBSET Keys, \A key \in Keys : KeyMoves(key),
           \A r \in Replicas : FollowsRules(r)' /\ TimedHeld(r)' /\ (OneBookkeeper => CurrentHeld(r)')
    PROVE  Story' /\ Spaced
  <1>1. /\ FiringWasTold' /\ StoryHasAnEnd' /\ StampIsKept' /\ UndoneBySeveral' /\ Spaced
        /\ deployment.condition \notin MeasuredInDays =>
              \A key \in Keys : states'[key].firing \/ states'[key].since = 0
        /\ OneBookkeeper' = OneBookkeeper
    BY KeysKeep DEF Story, Books
  <1>2. PassFollowsRules'
    <2>1. \A id \in RuleIDs : rules'[id].condition = deployment'.condition
      BY DEF Story, PassFollowsRules, RulesStand
    <2> QED BY <2>1 DEF PassFollowsRules, FollowsRules
  <1>3. TimedWhileFiring'
    BY <1>1 DEF TimedWhileFiring, TimedHeld
  <1>4. HeldIsCurrent'
    BY <1>1 DEF HeldIsCurrent, CurrentHeld
  <1> QED BY <1>1, <1>2, <1>3, <1>4 DEF Story, Books

\* Steps that leave the passes and the rules' own rows alone.
LEMMA StoryStays ==
    ASSUME TypeOK, Story, UNCHANGED <<deployment, pass>>, RulesStand, PassesMayGoOn,
           toldAt' \in [Keys -> 0 .. MaxTime], undone' \in SUBSET Keys, \A key \in Keys : KeyMoves(key), HostRowsStay
    PROVE  Story' /\ Spaced
  BY OtherPass, StoryMoves

-----------------------------------------------------------------------------
(* Steps *)

\* What every step keeps, and what it does not do.
Core ==
    /\ TypeOK /\ AllSound /\ DrainedBeforeExit /\ NotDropped /\ Story
    /\ TabMissesNothing /\ TabIsRegistered
RowsAreTrue ==
    \A row \in Announced' \ Announced :
        row[2].kind = "recovery" /\ row[2].unit # "" => hosts'[row[2].host].units[row[2].unit] # "failed"
Kept == Core' /\ EndsWhatWasTold /\ RowsAreTrue /\ Spaced

\* Nothing leaves anybody's hands while the deliveries stay as they are and the passes let go of nothing.
LEMMA HandsStay ==
    ASSUME AllSound, DrainedBeforeExit, NotDropped, UNCHANGED deliveries, Announced \subseteq Announced',
           \A o \in owed' : o \in unstamped => o \in unstamped',
           \A o \in owed' : o \in owed \/ \E r \in Replicas : InPass(pass'[r], o),
           \A r \in Replicas, o \in owed' : InPass(pass[r], o) => InPass(pass'[r], o)
    PROVE  AllSound' /\ NotDropped' /\ (UNCHANGED up => DrainedBeforeExit')
  <1>1. AllSound'
    BY SoundStays DEF AllSound
  <1>2. NotDropped'
    <2> SUFFICES ASSUME NEW o \in owed' PROVE (\E r \in Replicas : o \in InHand(r)') \/ o \in unstamped'
      BY DEF NotDropped
    <2>1. CASE o \in owed
      <3>1. CASE o \in unstamped
        BY <3>1
      <3>2. CASE o \notin unstamped
        <4>1. PICK r \in Replicas : o \in InHand(r)
          BY <2>1, <3>2 DEF NotDropped
        <4> QED BY <4>1, InHandIs
      <3> QED BY <3>1, <3>2
    <2>2. CASE \E r \in Replicas : InPass(pass'[r], o)
      BY <2>2, InHandIs
    <2> QED BY <2>1, <2>2
  <1>3. UNCHANGED up => DrainedBeforeExit'
    BY DEF DrainedBeforeExit, Stopped
  <1> QED BY <1>1, <1>2, <1>3

\* A step that sends nothing and tells nobody anything new.
LEMMA NothingToldKeeps ==
    ASSUME Core, UNCHANGED <<deployment, pass, deliveries, inbox, unrecorded>>, PassesMayGoOn,
           owed' \subseteq owed, \A o \in owed' : o \in unstamped => o \in unstamped',
           TypeOK', TabMissesNothing', TabIsRegistered', RulesStand, HostRowsStay,
           UNCHANGED up \/ DrainedBeforeExit',
           \A key \in Keys : SameKey(key) \/ ForgottenKey(key)
    PROVE  Kept
  <1>1. AllSound' /\ NotDropped' /\ DrainedBeforeExit'
    BY HandsStay DEF Core, Announced
  <1>2. toldAt' \in [Keys -> 0 .. MaxTime] /\ undone' \in SUBSET Keys
    BY DEF TypeOK
  <1>3. Story' /\ Spaced
    <2>1. \A key \in Keys : KeyMoves(key)
      BY DEF KeyMoves
    <2> QED BY <1>2, <2>1, StoryStays DEF Core
  <1>4. EndsWhatWasTold /\ RowsAreTrue
    BY DEF EndsWhatWasTold, RowsAreTrue, Announced
  <1> QED BY <1>1, <1>3, <1>4 DEF Kept, Core

\* A revocation, the clock, and a replica's way down.
LEMMA OutsideActs ==
    ASSUME Core, (\E h \in Hosts : RevokeHost(h)) \/ Tick \/ \E r \in Replicas : Stop(r) \/ CloseOutbound(r) \/ Drain(r)
    PROVE  Kept
  <1>1. UNCHANGED <<deployment, rules, states, pass, deliveries, inbox, unrecorded, tab, owed, unstamped,
                    heard, toldAt, undone>>
    BY DEF RevokeHost, Tick, Stop, CloseOutbound, Drain, shared, told
  <1>2. TypeOK
    BY DEF Core
  <1>3. /\ hosts' \in [Hosts -> HostDoc] /\ now' \in 1 .. MaxTime
        /\ up' \in [Replicas -> {"running", "stopping", "draining", "cancelled", "stopped"}]
        /\ outlived' \subseteq Replicas /\ PassesMayGoOn
        /\ UNCHANGED up \/ DrainedBeforeExit'
    <2>1. CASE \E h \in Hosts : RevokeHost(h)
      <3>1. PICK h \in Hosts : hosts' = [hosts EXCEPT ![h].revoked = TRUE] /\ UNCHANGED <<now, up, outlived>>
        BY <2>1 DEF RevokeHost, told
      <3>2. [hosts[h] EXCEPT !.revoked = TRUE] \in HostDoc
        BY <1>2 DEF TypeOK, HostDoc
      <3> QED BY <1>2, <3>1, <3>2 DEF TypeOK, PassesMayGoOn
    <2>2. CASE Tick
      <3>1. deployment.until \in 1 .. MaxTime
        BY <1>2, FleetAssumption DEF TypeOK
      <3> QED BY <1>2, <2>2, <3>1, Bounds DEF TypeOK, Tick, shared, told, PassesMayGoOn
    <2>3. CASE \E r \in Replicas : Stop(r) \/ CloseOutbound(r) \/ Drain(r)
      <3>1. PICK r \in Replicas : Stop(r) \/ CloseOutbound(r) \/ Drain(r)
        BY <2>3
      <3>2. /\ UNCHANGED <<hosts, now>>
            /\ \/ \E s \in {"stopping", "draining", "cancelled"} : up' = [up EXCEPT ![r] = s]
               \/ deliveries[r] = {} /\ up' = [up EXCEPT ![r] = "stopped"]
        BY <3>1 DEF Stop, CloseOutbound, Drain, shared
      <3>3. up' \in [Replicas -> {"running", "stopping", "draining", "cancelled", "stopped"}]
        BY <1>2, <3>2 DEF TypeOK
      <3>4. DrainedBeforeExit'
        BY <1>1, <1>2, <3>2 DEF Core, DrainedBeforeExit, Stopped, TypeOK
      <3>5. outlived' \subseteq Replicas /\ PassesMayGoOn
        <4>1. CASE Stop(r)
          <5>1. up[r] = "running" /\ up' = [up EXCEPT ![r] = "stopping"] /\ outlived' = outlived
            BY <4>1 DEF Stop, told
          <5> QED BY <1>2, <5>1 DEF TypeOK, PassesMayGoOn, Open
        <4>2. CASE CloseOutbound(r)
          <5>1. /\ up' = [up EXCEPT ![r] = "draining"]
                /\ outlived' = IF pass[r].pc = "idle" THEN outlived ELSE outlived \cup {r}
            BY <4>2 DEF CloseOutbound
          <5> QED BY <1>2, <5>1 DEF TypeOK, PassesMayGoOn
        <4>3. CASE Drain(r)
          <5>1. /\ up[r] \notin Open /\ outlived' = outlived
                /\ \E s \in {"cancelled", "stopped"} : up' = [up EXCEPT ![r] = s]
            BY <4>3 DEF Drain, told, Open
          <5> QED BY <1>2, <5>1 DEF TypeOK, PassesMayGoOn
        <4> QED BY <3>1, <4>1, <4>2, <4>3
      <3> QED BY <1>2, <3>2, <3>3, <3>4, <3>5 DEF TypeOK
    <2> QED BY <2>1, <2>2, <2>3
  <1>4. TypeOK'
    BY <1>1, <1>2, <1>3 DEF TypeOK, InFlight
  <1>5. TabMissesNothing' /\ TabIsRegistered'
    BY <1>1 DEF Core, TabMissesNothing, TabIsRegistered
  <1>6. RulesStand /\ HostRowsStay /\ \A key \in Keys : SameKey(key)
    BY <1>1, <1>2 DEF RulesStand, HostRowsStay, SameKey, TypeOK
  <1> QED BY <1>1, <1>3, <1>4, <1>5, <1>6, NothingToldKeeps

LEMMA TabKeeps ==
    ASSUME Core, (\E r \in Replicas : Subscribe(r)) \/ ReadInbox \/ ReadStream \/ CloseStream
    PROVE  Kept
  <1>1. /\ TypeOK' /\ TabMissesNothing' /\ TabIsRegistered'
        /\ UNCHANGED <<deployment, now, shared, pass, deliveries, up, inbox, unrecorded, told>>
    BY TabActs DEF Core
  <1>2. RulesStand /\ HostRowsStay /\ PassesMayGoOn /\ \A key \in Keys : SameKey(key)
    BY <1>1 DEF RulesStand, HostRowsStay, PassesMayGoOn, SameKey, TypeOK, shared, told
  <1> QED BY <1>1, <1>2, NothingToldKeeps DEF told

\* The rules' API.
LEMMA AnyThreshold == AnyOf(Thresholds) \in Thresholds
  BY BoundsAssumption DEF AnyOf

LEMMA CreateKeeps ==
    ASSUME Core, NEW id \in RuleIDs, HandleCreateAlertRule(id)
    PROVE  Kept
  <1>1. PICK threshold \in Thresholds, mail \in BOOLEAN :
            /\ rules[id].row = "none"
            /\ rules' = [rules EXCEPT ![id] = [NoRule EXCEPT !.row = "live", !.threshold = threshold, !.mail = mail]]
            /\ UNCHANGED <<deployment, now, hosts, states, pass, deliveries, up, inbox, unrecorded, tab, told>>
    BY DEF HandleCreateAlertRule
  <1> DEFINE rule == [NoRule EXCEPT !.row = "live", !.threshold = threshold, !.mail = mail]
  <1>2. /\ TypeOK /\ rules \in [RuleIDs -> Rule] /\ deployment.condition \in Conditions
        /\ rules[id].condition = deployment.condition
    BY FleetAssumption DEF Core, TypeOK, Story, PassFollowsRules
  <1>3. rule \in Rule /\ rule.condition = deployment.condition
    BY <1>2 DEF NoRule, Rule
  <1>4. RulesStand
    <2> HIDE DEF rule
    <2> QED BY <1>1, <1>2, <1>3 DEF RulesStand, rule
  <1>5. TypeOK'
    BY <1>1, <1>2, <1>4 DEF TypeOK, InFlight, told, RulesStand
  <1>6. TabMissesNothing' /\ TabIsRegistered'
    BY <1>1 DEF Core, TabMissesNothing, TabIsRegistered
  <1>7. HostRowsStay /\ PassesMayGoOn /\ \A key \in Keys : SameKey(key)
    BY <1>1 DEF HostRowsStay, PassesMayGoOn, SameKey, told
  <1> QED BY <1>1, <1>4, <1>5, <1>6, <1>7, NothingToldKeeps DEF told

LEMMA UpdateKeeps ==
    ASSUME Core, NEW id \in RuleIDs, HandleUpdateAlertRule(id)
    PROVE  Kept
  <1>1. PICK patched \in Resolve(rules[id]) :
            /\ rules' = [rules EXCEPT ![id] = patched]
            /\ UNCHANGED <<deployment, now, hosts, states, pass, deliveries, up, inbox, unrecorded, tab, told>>
    BY DEF HandleUpdateAlertRule
  <1>2. TypeOK /\ rules \in [RuleIDs -> Rule]
    BY DEF Core, TypeOK
  <1>3. patched \in Rule /\ patched.condition = rules[id].condition /\ patched.row = rules[id].row
    BY <1>2 DEF Resolve, Rule
  <1>4. RulesStand
    BY <1>1, <1>2, <1>3 DEF RulesStand, IsRule
  <1>5. TypeOK'
    BY <1>1, <1>2, <1>4 DEF TypeOK, InFlight, told, RulesStand
  <1>6. TabMissesNothing' /\ TabIsRegistered'
    BY <1>1 DEF Core, TabMissesNothing, TabIsRegistered
  <1>7. HostRowsStay /\ PassesMayGoOn /\ \A key \in Keys : SameKey(key)
    BY <1>1 DEF HostRowsStay, PassesMayGoOn, SameKey, told
  <1> QED BY <1>1, <1>4, <1>5, <1>6, <1>7, NothingToldKeeps DEF told

\* The rows of a rule that is deleted go with it, and what is still owed for it.
LEMMA DeleteKeeps ==
    ASSUME Core, NEW id \in RuleIDs, HandleDeleteAlertRule(id)
    PROVE  Kept
  <1> DEFINE gone == {key \in Keys : key[1] = id}
  <1>1. /\ rules' = [rules EXCEPT ![id].row = "deleted"]
        /\ states' = [key \in Keys |-> IF key \in gone THEN QuietState ELSE states[key]]
        /\ heard' = [key \in Keys |-> IF key \in gone THEN None ELSE heard[key]]
        /\ toldAt' = [key \in Keys |-> IF key \in gone THEN 0 ELSE toldAt[key]]
        /\ owed' = {o \in owed : o[1] \notin gone} /\ unstamped' = {o \in unstamped : o[1] \notin gone}
        /\ undone' = undone \ gone
        /\ UNCHANGED <<deployment, now, hosts, pass, deliveries, up, inbox, unrecorded, tab, outlived>>
    BY DEF HandleDeleteAlertRule
  <1>2. /\ TypeOK /\ rules \in [RuleIDs -> Rule] /\ states \in [Keys -> State]
        /\ heard \in [Keys -> Kinds \cup {None}] /\ toldAt \in [Keys -> 0 .. MaxTime]
    BY DEF Core, TypeOK
  <1>3. [rules[id] EXCEPT !.row = "deleted"] \in Rule
    BY <1>2 DEF Rule
  <1>4. RulesStand
    BY <1>1, <1>2, <1>3 DEF RulesStand, IsRule
  <1>5. QuietState \in State /\ 0 \in 0 .. MaxTime
    BY Bounds DEF QuietState, State
  <1>6. states' \in [Keys -> State] /\ heard' \in [Keys -> Kinds \cup {None}] /\ toldAt' \in [Keys -> 0 .. MaxTime]
    BY <1>1, <1>2, <1>5
  <1>7. \A key \in Keys : SameKey(key) \/ ForgottenKey(key)
    BY <1>1 DEF SameKey, ForgottenKey
  <1>8. HostRowsStay
    <2> SUFFICES ASSUME NEW x \in RuleIDs, NEW h \in Hosts, IsRule(rules'[x])
                 PROVE  states'[<<x, h, "">>] = states[<<x, h, "">>]
      BY DEF HostRowsStay
    <2>1. x # id
      BY <1>1, <1>2 DEF IsRule
    <2>2. <<x, h, "">> \in Keys /\ <<x, h, "">> \notin gone
      BY <2>1 DEF Keys
    <2> HIDE DEF gone
    <2> QED BY <1>1, <2>2
  <1>9. /\ owed' \subseteq owed /\ unstamped' \subseteq unstamped /\ undone' \subseteq undone
        /\ \A o \in owed' : o \in unstamped => o \in unstamped'
    BY <1>1
  <1>10. TypeOK'
    BY <1>1, <1>2, <1>4, <1>6, <1>9 DEF TypeOK, InFlight, RulesStand
  <1>11. TabMissesNothing' /\ TabIsRegistered'
    BY <1>1 DEF Core, TabMissesNothing, TabIsRegistered
  <1>12. PassesMayGoOn
    BY <1>1 DEF PassesMayGoOn
  <1> QED BY <1>1, <1>4, <1>7, <1>8, <1>9, <1>10, <1>11, <1>12, NothingToldKeeps

-----------------------------------------------------------------------------
(* A pass as it reads *)

LEMMA PassMoves ==
    ASSUME Core, NEW r \in Replicas, NEW w \in Passes, pass' = [pass EXCEPT ![r] = w],
           UNCHANGED <<deployment, now, shared, deliveries, up, inbox, unrecorded, tab, told>>,
           \A o : InPass(pass[r], o) => InPass(w, o),
           FollowsRules(r)' /\ TimedHeld(r)' /\ (OneBookkeeper => CurrentHeld(r)')
    PROVE  Kept
  <1>1. TypeOK /\ pass \in [Replicas -> Passes] /\ Story
    BY DEF Core, TypeOK
  <1>2. pass'[r] = w /\ \A q \in Replicas \ {r} : pass'[q] = pass[q]
    BY <1>1
  <1>3. TypeOK'
    BY <1>1 DEF TypeOK, InFlight, shared, told
  <1>4. AllSound' /\ NotDropped' /\ DrainedBeforeExit'
    <2>1. \A q \in Replicas, o \in owed' : InPass(pass[q], o) => InPass(pass'[q], o)
      BY <1>2
    <2> QED BY <2>1, HandsStay DEF Core, Announced, told
  <1>5. RulesStand /\ HostRowsStay /\ PassesMayGoOn /\ \A key \in Keys : SameKey(key)
    BY <1>1 DEF RulesStand, HostRowsStay, PassesMayGoOn, SameKey, TypeOK, shared, told
  <1>6. \A q \in Replicas : FollowsRules(q)' /\ TimedHeld(q)' /\ (OneBookkeeper => CurrentHeld(q)')
    <2> SUFFICES ASSUME NEW q \in Replicas, q # r
                 PROVE  FollowsRules(q)' /\ TimedHeld(q)' /\ (OneBookkeeper => CurrentHeld(q)')
      OBVIOUS
    <2> QED BY <1>1, <1>2, <1>5, OtherPass
  <1>7. Story' /\ Spaced
    <2>1. toldAt' \in [Keys -> 0 .. MaxTime] /\ undone' \in SUBSET Keys
      BY <1>3 DEF TypeOK
    <2>2. \A key \in Keys : KeyMoves(key)
      BY <1>5 DEF KeyMoves
    <2> QED BY <1>1, <1>5, <1>6, <2>1, <2>2, StoryMoves
  <1>8. TabMissesNothing' /\ TabIsRegistered'
    BY DEF Core, TabMissesNothing, TabIsRegistered
  <1>9. EndsWhatWasTold /\ RowsAreTrue
    BY DEF EndsWhatWasTold, RowsAreTrue, Announced, told
  <1> QED BY <1>3, <1>4, <1>7, <1>8, <1>9 DEF Kept, Core

LEMMA StartPassKeeps ==
    ASSUME Core, NEW r \in Replicas, StartPass(r)
    PROVE  Kept
  <1> DEFINE evaluated == {id \in RuleRows : rules[id].enabled /\ rules[id].condition \in Evaluated}
             w == [pc |-> "hosts", at |-> now, left |-> evaluated, rules |-> rules]
  <1>1. /\ r \in Live /\ up[r] \in Open /\ pass[r].pc = "idle" /\ pass' = [pass EXCEPT ![r] = w]
        /\ UNCHANGED <<deployment, now, shared, deliveries, up, inbox, unrecorded, tab, told>>
    BY DEF StartPass, Open
  <1>2. TypeOK /\ rules \in [RuleIDs -> Rule] /\ now \in 1 .. MaxTime /\ pass \in [Replicas -> Passes]
    BY DEF Core, TypeOK
  <1>3. evaluated \in SUBSET RuleIDs /\ \A id \in evaluated : rules[id].row # "none"
    BY DEF RuleRows, IsRule
  <1> HIDE DEF evaluated
  <1>4. w \in Passes /\ w.pc = "hosts" /\ w.left = evaluated /\ w.rules = rules
    BY <1>2, <1>3 DEF Passes, HostsPass
  <1>5. pass'[r] = w
    BY <1>1, <1>2
  <1> HIDE DEF w
  <1>6. FollowsRules(r)'
    <2>1. \A id \in RuleIDs : rules[id].condition = deployment.condition
      BY DEF Core, Story, PassFollowsRules
    <2>2. Ahead(w) = evaluated
      BY <1>4 DEF Ahead
    <2> QED BY <1>1, <1>3, <1>4, <1>5, <2>1, <2>2 DEF FollowsRules, Live, Open, Ahead, shared
  <1>7. TimedHeld(r)' /\ CurrentHeld(r)'
    BY <1>4, <1>5 DEF TimedHeld, CurrentHeld
  <1>8. \A o : InPass(pass[r], o) => InPass(w, o)
    BY <1>1 DEF InPass
  <1> QED BY <1>1, <1>4, <1>6, <1>7, <1>8, PassMoves

LEMMA ReadHostsKeeps ==
    ASSUME Core, NEW r \in Replicas, ReadHosts(r)
    PROVE  Kept
  <1> DEFINE p == pass[r]
             active == {h \in deployment.hosts : ~hosts[h].revoked}
             raw == {x \in p.left \X Hosts : ConditionHolds(p.rules[x[1]], hosts[x[2]], p.at)}
             w == [pc |-> "states", at |-> p.at, left |-> p.left, rules |-> p.rules, active |-> active, raw |-> raw]
  <1>1. /\ p.pc = "hosts" /\ pass' = [pass EXCEPT ![r] = w]
        /\ UNCHANGED <<deployment, now, shared, deliveries, up, inbox, unrecorded, tab, told>>
    BY DEF ReadHosts
  <1>2. TypeOK /\ pass \in [Replicas -> Passes] /\ p \in HostsPass /\ deployment.hosts \subseteq Hosts
    BY <1>1, PassIs, FleetAssumption DEF Core, TypeOK
  <1>3. active \in SUBSET Hosts /\ raw \in SUBSET (RuleIDs \X Hosts)
    BY <1>2 DEF HostsPass
  <1> HIDE DEF active, raw
  <1>4. w \in Passes /\ w.pc = "states" /\ w.left = p.left /\ w.rules = p.rules
    BY <1>2, <1>3 DEF Passes, HostsPass, StatesPass
  <1>5. pass'[r] = w
    BY <1>1, <1>2
  <1> HIDE DEF w
  <1>6. FollowsRules(r)'
    <2>1. FollowsRules(r)
      BY DEF Core, Story, PassFollowsRules, FollowsRules
    <2>2. Ahead(w) = Ahead(p)
      BY <1>1, <1>4 DEF Ahead
    <2>3. Ahead(pass[r])' = Ahead(w)
      BY <1>5 DEF Ahead
    <2> QED BY <1>1, <1>4, <1>5, <2>1, <2>2, <2>3 DEF FollowsRules, Live, Open, shared, told
  <1>7. TimedHeld(r)' /\ CurrentHeld(r)'
    BY <1>4, <1>5 DEF TimedHeld, CurrentHeld
  <1>8. \A o : InPass(pass[r], o) => InPass(w, o)
    BY <1>1 DEF InPass
  <1> QED BY <1>1, <1>4, <1>6, <1>7, <1>8, PassMoves

LEMMA ReadStatesKeeps ==
    ASSUME Core, NEW r \in Replicas, ReadStates(r)
    PROVE  Kept
  <1> DEFINE p == pass[r]
             w == AtRule(p, states, p.left)
  <1>1. /\ p.pc = "states" /\ pass' = [pass EXCEPT ![r] = w]
        /\ UNCHANGED <<deployment, now, shared, deliveries, up, inbox, unrecorded, tab, told>>
    BY DEF ReadStates, HeldStates
  <1>2. TypeOK /\ pass \in [Replicas -> Passes] /\ p \in StatesPass /\ states \in [Keys -> State]
    BY <1>1, PassIs DEF Core, TypeOK
  <1>3. p.left \in SUBSET RuleIDs
    BY <1>2 DEF StatesPass
  <1>4. /\ w \in Passes
        /\ w.pc \in {"idle", "rule"}
        /\ w.pc = "rule" => /\ w.rules = p.rules /\ w.held = states
                            /\ w.rule \in p.left /\ w.left = p.left \ {w.rule}
    BY <1>2, <1>3, NextRule
  <1>5. pass'[r] = w
    BY <1>1, <1>2
  <1> HIDE DEF w
  <1>6. FollowsRules(r)'
    <2>1. FollowsRules(r)
      BY DEF Core, Story, PassFollowsRules, FollowsRules
    <2>2. w.pc = "rule" => Ahead(w) = Ahead(p)
      BY <1>1, <1>4 DEF Ahead
    <2>3. Ahead(pass[r])' = Ahead(w)
      BY <1>5 DEF Ahead
    <2> QED BY <1>1, <1>4, <1>5, <2>1, <2>2, <2>3 DEF FollowsRules, Live, Open, shared, told
  <1>7. TimedHeld(r)'
    BY <1>1, <1>4, <1>5 DEF TimedHeld, Core, Story, TimedWhileFiring
  <1>8. CurrentHeld(r)'
    BY <1>1, <1>4, <1>5 DEF CurrentHeld, shared
  <1>9. \A o : InPass(pass[r], o) => InPass(w, o)
    BY <1>1 DEF InPass
  <1> QED BY <1>1, <1>4, <1>6, <1>7, <1>8, <1>9, PassMoves

LEMMA PassFailsKeeps ==
    ASSUME Core, NEW r \in Replicas, PassFails(r)
    PROVE  Kept
  <1>1. /\ pass[r].pc # "rule" /\ pass' = [pass EXCEPT ![r] = Resting]
        /\ UNCHANGED <<deployment, now, shared, deliveries, up, inbox, unrecorded, tab, told>>
    BY DEF PassFails
  <1>2. pass'[r] = Resting /\ Resting \in Passes
    BY <1>1 DEF Core, TypeOK, Passes
  <1>3. FollowsRules(r)' /\ TimedHeld(r)' /\ CurrentHeld(r)'
    BY <1>2 DEF FollowsRules, TimedHeld, CurrentHeld, Resting
  <1>4. \A o : InPass(pass[r], o) => InPass(Resting, o)
    BY <1>1 DEF InPass
  <1> QED BY <1>1, <1>2, <1>3, <1>4, PassMoves

-----------------------------------------------------------------------------
(* A pass as it judges and notifies *)

\* One host less to judge, and perhaps one more to notify about: its key moves, and what is owed for it is in the pass's
\* hands.
JudgeOf(p, h, F, R) == [p EXCEPT !.todo = @ \ {h}, !.firing = @ \cup F, !.recovered = @ \cup R]
JudgedTo(r, h, F, R, key) ==
    /\ pass' = [pass EXCEPT ![r] = JudgeOf(pass[r], h, F, R)] /\ UNCHANGED <<unstamped, outlived>>
    /\ states' \in [Keys -> State] /\ heard' \in [Keys -> Kinds \cup {None}] /\ toldAt' \in [Keys -> 0 .. MaxTime]
    /\ undone' \in SUBSET Keys
    /\ \A x \in Keys \ {key} : SameKey(x)
    /\ KeyMoves(key)
    /\ \A o \in owed' : \/ o \in owed
                        \/ F = {h} /\ o = <<key, "firing", pass[r].at>>
                        \/ R = {h} /\ o = <<key, "recovery", pass[r].at>> /\ states[key].firing

LEMMA JudgeMoves ==
    ASSUME Core, NEW r \in Replicas, pass[r].pc = "rule", NEW h \in pass[r].todo,
           NEW F \in SUBSET {h}, NEW R \in SUBSET {h}, NEW key, key = <<pass[r].rule, h, "">>,
           UNCHANGED <<deployment, now, hosts, rules, deliveries, up, inbox, unrecorded, tab>>,
           JudgedTo(r, h, F, R, key)
    PROVE  Kept
  <1> DEFINE p == pass[r]
             w == JudgeOf(p, h, F, R)
  <1>1. /\ pass' = [pass EXCEPT ![r] = w] /\ UNCHANGED <<unstamped, outlived>>
        /\ states' \in [Keys -> State] /\ heard' \in [Keys -> Kinds \cup {None}] /\ toldAt' \in [Keys -> 0 .. MaxTime]
        /\ undone' \in SUBSET Keys
        /\ \A x \in Keys \ {key} : SameKey(x)
        /\ KeyMoves(key)
        /\ \A o \in owed' : \/ o \in owed
                            \/ F = {h} /\ o = <<key, "firing", p.at>>
                            \/ R = {h} /\ o = <<key, "recovery", p.at>> /\ states[key].firing
    BY DEF JudgedTo
  <1>2. TypeOK /\ pass \in [Replicas -> Passes] /\ p \in RulePass /\ owed \subseteq Notifications
    BY PassIs DEF Core, TypeOK
  <1>3. /\ p.todo \subseteq Hosts /\ p.firing \subseteq Hosts /\ p.recovered \subseteq Hosts
        /\ p.rule \in RuleIDs /\ h \in Hosts /\ p.at \in 1 .. MaxTime
    BY <1>2 DEF RulePass
  <1>4. key \in Keys
    BY <1>3 DEF Keys
  <1>5. /\ w \in RulePass
        /\ w.pc = "rule" /\ w.at = p.at /\ w.left = p.left /\ w.rules = p.rules /\ w.held = p.held /\ w.rule = p.rule
        /\ w.todo = p.todo \ {h} /\ w.firing = p.firing \cup F /\ w.recovered = p.recovered \cup R
    <2>1. p.todo \ {h} \in SUBSET Hosts /\ p.firing \cup F \in SUBSET Hosts /\ p.recovered \cup R \in SUBSET Hosts
      BY <1>3
    <2> HIDE DEF p
    <2> QED BY <1>2, <2>1 DEF RulePass, JudgeOf
  <1>6. pass'[r] = w /\ \A q \in Replicas \ {r} : pass'[q] = pass[q]
    BY <1>1, <1>2
  <1> HIDE DEF w
  <1>7. TypeOK'
    <2>1. pass' \in [Replicas -> Passes]
      <3>1. w \in Passes /\ pass' = [pass EXCEPT ![r] = w]
        BY <1>1, <1>5 DEF Passes, w
      <3> QED BY <1>2, <3>1
    <2>2. <<key, "firing", p.at>> \in Notifications /\ <<key, "recovery", p.at>> \in Notifications
      BY <1>3, <1>4 DEF Notifications, Kinds
    <2>3. owed' \subseteq Notifications
      BY <1>1, <1>2, <2>2
    <2> QED BY <1>1, <1>2, <2>1, <2>3 DEF TypeOK, InFlight
  <1>8. AllSound' /\ NotDropped' /\ DrainedBeforeExit'
    <2>1. \A q \in Replicas, o \in owed' : InPass(pass[q], o) => InPass(pass'[q], o)
      BY <1>5, <1>6 DEF InPass
    <2>2. InPass(w, <<key, "firing", p.at>>) \/ F # {h}
      BY <1>5 DEF InPass
    <2>3. InPass(w, <<key, "recovery", p.at>>) \/ R # {h}
      BY <1>5 DEF InPass
    <2>4. \A o \in owed' : o \in owed \/ InPass(pass'[r], o)
      BY <1>1, <1>5, <1>6, <2>2, <2>3
    <2> QED BY <1>1, <2>1, <2>4, HandsStay DEF Core, Announced
  <1>9. RulesStand /\ PassesMayGoOn
    BY <1>1, <1>2 DEF RulesStand, PassesMayGoOn, TypeOK
  <1>10. Ahead(w) = Ahead(p)
    BY <1>5 DEF Ahead
  <1>11. FollowsRules(r)'
    <2>1. FollowsRules(r)
      BY DEF Core, Story, PassFollowsRules, FollowsRules
    <2>2. Ahead(pass[r])' = Ahead(w)
      BY <1>5, <1>6 DEF Ahead
    <2>3. /\ r \in Live /\ w.rule \notin w.left /\ (up[r] \in Open \/ r \in outlived)
          /\ \A id \in RuleIDs : w.rules[id].condition = deployment.condition
          /\ \A id \in Ahead(w) : rules[id].row # "none"
      BY <1>5, <1>10, <2>1 DEF FollowsRules
    <2>4. deployment' = deployment /\ rules' = rules /\ Live' = Live /\ up' = up /\ outlived' = outlived
      BY <1>1 DEF Live
    <2> QED BY ONLY <1>5, <1>6, <2>2, <2>3, <2>4 DEF FollowsRules, Open
  <1>12. TimedHeld(r)'
    <2>1. TimedHeld(r)
      BY DEF TimedHeld, Core, Story, TimedWhileFiring
    <2> QED BY <1>5, <1>6, <2>1 DEF TimedHeld
  <1>13. OneBookkeeper => CurrentHeld(r)'
    <2>1. ASSUME OneBookkeeper, deployment.condition \in MeasuredInDays, NEW id \in Ahead(w), NEW x \in Hosts,
                 IsRule(rules[id]), id = w.rule => x \in w.todo
          PROVE  w.held[<<id, x, "">>] = states'[<<id, x, "">>]
      <3>1. id \in Ahead(p) /\ (id = p.rule => x \in p.todo)
        BY <1>5, <1>10, <2>1
      <3>2. HeldIsCurrent
        BY DEF Core, Story, Books
      <3>3. p.held[<<id, x, "">>] = states[<<id, x, "">>]
        BY <2>1, <3>1, <3>2 DEF HeldIsCurrent
      <3>4. id \in RuleIDs /\ <<id, x, "">> \in Keys /\ <<id, x, "">> # key
        BY <1>2, <1>5, <1>10, <2>1 DEF RulePass, Ahead, Keys
      <3> QED BY <1>1, <1>5, <3>3, <3>4 DEF SameKey
    <2>2. Ahead(pass[r])' = Ahead(w)
      BY <1>5, <1>6 DEF Ahead
    <2>3. deployment' = deployment /\ rules' = rules
      OBVIOUS
    <2> QED BY ONLY <1>5, <1>6, <2>1, <2>2, <2>3 DEF CurrentHeld
  <1>14. \A q \in Replicas : FollowsRules(q)' /\ TimedHeld(q)' /\ (OneBookkeeper => CurrentHeld(q)')
    <2> SUFFICES ASSUME NEW q \in Replicas, q # r
                 PROVE  FollowsRules(q)' /\ TimedHeld(q)' /\ (OneBookkeeper => CurrentHeld(q)')
      BY <1>11, <1>12, <1>13
    <2>1. FollowsRules(q)' /\ TimedHeld(q)'
      BY <1>2, <1>6, <1>9, OtherPass DEF Core
    <2>2. ASSUME OneBookkeeper, deployment.condition \in MeasuredInDays PROVE pass'[q].pc = "idle"
      BY <1>5, <1>6, <2>2 DEF Core, Story, PassFollowsRules, OneBookkeeper
    <2> QED BY <2>1, <2>2 DEF CurrentHeld
  <1>15. Story' /\ Spaced
    <2>1. \A x \in Keys : KeyMoves(x)
      BY <1>1 DEF KeyMoves
    <2> QED BY <1>1, <1>2, <1>9, <1>14, <2>1, StoryMoves DEF Core
  <1>16. TabMissesNothing' /\ TabIsRegistered'
    BY DEF Core, TabMissesNothing, TabIsRegistered
  <1>17. EndsWhatWasTold /\ RowsAreTrue
    <2>1. states[key].firing => heard[key] = "firing"
      BY <1>4 DEF Core, Story, FiringWasTold
    <2>2. ASSUME NEW o \in owed', o \notin owed, o[2] = "recovery" PROVE o[1] = key /\ states[key].firing
      <3>1. CASE o = <<key, "firing", p.at>>
        BY <1>1, <2>2, <3>1
      <3>2. CASE o = <<key, "recovery", p.at>> /\ states[key].firing
        BY <3>2
      <3> QED BY <1>1, <2>2, <3>1, <3>2
    <2> QED BY <2>1, <2>2 DEF EndsWhatWasTold, RowsAreTrue, Announced
  <1> QED BY <1>7, <1>8, <1>15, <1>16, <1>17 DEF Kept, Core

LEMMA EvaluateKeeps ==
    ASSUME Core, NEW r \in Replicas, EvaluateHost(r)
    PROVE  Kept
  <1> DEFINE p == pass[r]
  <1>1. PICK h \in p.todo : Judge(r, h)
    BY DEF EvaluateHost
  <1>2. p.pc = "rule" /\ UNCHANGED <<deployment, now, hosts, rules, deliveries, up, inbox, unrecorded, tab>>
    BY DEF EvaluateHost
  <1>3. /\ TypeOK /\ pass \in [Replicas -> Passes] /\ p \in RulePass
        /\ states \in [Keys -> State] /\ heard \in [Keys -> Kinds \cup {None}] /\ toldAt \in [Keys -> 0 .. MaxTime]
        /\ undone \in SUBSET Keys
    BY <1>2, PassIs DEF Core, TypeOK
  <1> DEFINE key == <<p.rule, h, "">>
             rule == p.rules[p.rule]
             raw == <<p.rule, h>> \in p.raw
             held == p.held[key]
             since == IF ~raw THEN 0 ELSE IF held.since = 0 THEN p.at ELSE held.since
             fire == raw /\ ConditionRipe(rule, since, p.at)
  <1>4. /\ h \in Hosts /\ key \in Keys /\ p.rule \in RuleIDs /\ p.at \in 1 .. MaxTime /\ held \in State
        /\ p.firing \subseteq Hosts /\ p.recovered \subseteq Hosts /\ p.todo \subseteq Hosts
    BY <1>3 DEF RulePass, Keys
  <1>5. CASE /\ fire /\ Claimable(states, key, p.at)
             /\ states' = ClaimAlertNotification(states, key, p.at)
             /\ pass' = [pass EXCEPT ![r] = JudgeOf(p, h, {h}, {})]
             /\ WonFiring(key, p.at)
    <2> HIDE DEF key
    <2>1. /\ states' \in [Keys -> State]
          /\ states'[key].firing /\ states'[key].lastNotified = p.at
          /\ \A x \in Keys \ {key} : states'[x] = states[x]
      BY <1>3, <1>4, <1>5, ClaimedRow
    <2>2. /\ heard' \in [Keys -> Kinds \cup {None}] /\ toldAt' \in [Keys -> 0 .. MaxTime]
          /\ heard'[key] = "firing" /\ toldAt'[key] = p.at
          /\ \A x \in Keys \ {key} : heard'[x] = heard[x] /\ toldAt'[x] = toldAt[x]
          /\ owed' = owed \cup {<<key, "firing", p.at>>} /\ undone' = undone \ {key}
          /\ UNCHANGED <<unstamped, outlived>>
      BY <1>3, <1>4, <1>5, Bounds DEF WonFiring, Kinds
    <2>3. KeyMoves(key)
      BY <1>5, <2>1, <2>2 DEF KeyMoves, ClaimedKey, Claimable
    <2>4. \A x \in Keys \ {key} : SameKey(x)
      BY <2>1, <2>2 DEF SameKey
    <2>5. JudgedTo(r, h, {h}, {}, key)
      BY <1>3, <1>5, <2>1, <2>2, <2>3, <2>4 DEF JudgedTo
    <2> QED BY <1>2, <2>5, JudgeMoves DEF key
  <1>6. CASE /\ Releasable(states, key)
             /\ states' = ReleaseAlertFiring(states, key)
             /\ pass' = [pass EXCEPT ![r] = JudgeOf(p, h, {}, {h})]
             /\ WonRecovery(key, p.at)
    <2> HIDE DEF key
    <2>1. /\ states' \in [Keys -> State]
          /\ ~states'[key].firing /\ states'[key].since = 0 /\ states'[key].lastNotified = states[key].lastNotified
          /\ \A x \in Keys \ {key} : states'[x] = states[x]
      BY <1>3, <1>4, <1>6, ReleasedRow
    <2>2. /\ heard' \in [Keys -> Kinds \cup {None}] /\ UNCHANGED <<unstamped, toldAt, undone, outlived>>
          /\ heard'[key] = "recovery"
          /\ \A x \in Keys \ {key} : heard'[x] = heard[x]
          /\ owed' = owed \cup {<<key, "recovery", p.at>>}
      BY <1>3, <1>4, <1>6 DEF WonRecovery, Kinds
    <2>3. KeyMoves(key)
      BY <1>6, <2>1, <2>2 DEF KeyMoves, ReleasedKey, Releasable
    <2>4. \A x \in Keys \ {key} : SameKey(x)
      BY <2>1, <2>2 DEF SameKey
    <2>5. states[key].firing
      BY <1>6 DEF Releasable
    <2>6. JudgedTo(r, h, {}, {h}, key)
      BY <1>3, <1>6, <2>1, <2>2, <2>3, <2>4, <2>5 DEF JudgedTo
    <2> QED BY <1>2, <2>6, JudgeMoves DEF key
  <1>7. CASE /\ ~fire /\ ~held.firing /\ held.since # since /\ IsRule(rules[p.rule])
             /\ states' = UpsertAlertState(states, key, [held EXCEPT !.since = since])
             /\ pass' = [pass EXCEPT ![r] = JudgeOf(p, h, {}, {})]
             /\ undone' = IF Undoes(held, states[key]) THEN undone \cup {key} ELSE undone
             /\ UNCHANGED <<owed, unstamped, heard, toldAt, outlived>>
    <2> DEFINE row == [held EXCEPT !.since = since]
    <2>1. since \in 0 .. MaxTime
      <3> HIDE DEF held, raw, p
      <3>1. p.at \in 1 .. MaxTime /\ held \in State
        BY <1>4
      <3>2. 0 \in 0 .. MaxTime /\ p.at \in 0 .. MaxTime
        BY ONLY <3>1, Bounds
      <3>3. held.since \in 0 .. MaxTime
        BY <3>1 DEF State
      <3> QED BY <3>2, <3>3
    <2>2. row \in State /\ row.firing = held.firing /\ row.lastNotified = held.lastNotified
      <3> HIDE DEF since, held
      <3> QED BY <1>4, <2>1 DEF State
    <2>3. deployment.condition \in MeasuredInDays
      <3>1. rule.condition = deployment.condition
        BY <1>2, <1>4 DEF Core, Story, PassFollowsRules
      <3>2. held.firing \/ held.since = 0 \/ deployment.condition \in MeasuredInDays
        BY <1>2, <1>4 DEF Core, Story, TimedWhileFiring
      <3>3. deployment.condition \notin MeasuredInDays => (fire <=> raw)
        BY <3>1 DEF ConditionRipe
      <3> QED BY <1>7, <3>2, <3>3
    <2>4. OneBookkeeper => held = states[key]
      BY <1>2, <1>4, <1>7, <2>3 DEF Core, Story, Books, HeldIsCurrent, Ahead
    <2>5. states' = UpsertAlertState(states, key, row)
      BY <1>7
    <2> HIDE DEF key, row, held, since, fire
    <2>6. /\ states' \in [Keys -> State] /\ states'[key] = row /\ \A x \in Keys \ {key} : states'[x] = states[x]
      BY <1>3, <1>4, <2>2, <2>5, ReplacedRow
    <2>7. /\ key \in undone => key \in undone'
          /\ key \notin undone' => held.firing = states[key].firing /\ held.lastNotified = states[key].lastNotified
          /\ OneBookkeeper => key \notin undone
      BY <1>4, <1>7 DEF Undoes, Core, Story, Books, UndoneBySeveral
    <2>8. OneBookkeeper => key \notin undone'
      BY <1>7, <2>4, <2>7 DEF Undoes
    <2>9. KeyMoves(key)
      BY <1>7, <2>2, <2>3, <2>6, <2>7, <2>8 DEF KeyMoves, BookedKey
    <2>10. \A x \in Keys \ {key} : SameKey(x)
      BY <1>7, <2>6 DEF SameKey
    <2>11. undone' \in SUBSET Keys
      BY <1>3, <1>4, <1>7
    <2>12. JudgedTo(r, h, {}, {}, key)
      BY <1>3, <1>7, <2>6, <2>9, <2>10, <2>11 DEF JudgedTo
    <2> QED BY <1>2, <2>12, JudgeMoves DEF key
  <1>8. CASE pass' = [pass EXCEPT ![r] = JudgeOf(p, h, {}, {})] /\ UNCHANGED <<states, told>>
    <2> HIDE DEF key
    <2>1. \A x \in Keys : SameKey(x)
      BY <1>8 DEF SameKey, told
    <2>2. KeyMoves(key)
      BY <1>4, <2>1 DEF KeyMoves
    <2>3. JudgedTo(r, h, {}, {}, key)
      BY <1>3, <1>8, <2>1, <2>2 DEF JudgedTo, told
    <2> QED BY <1>2, <2>3, JudgeMoves DEF key
  <1> QED BY <1>1, <1>5, <1>6, <1>7, <1>8 DEF Judge, JudgeOf

\* What a batch sends is on record, is about its hosts, and answers for every one of them (notifyBatch).
BatchSound(kind, batch, at, rows, sent) ==
    /\ rows \subseteq Events /\ sent \subseteq rows /\ IsFiniteSet(sent)
    /\ \A ev \in sent : ev.kind = kind /\ ev.at = at /\ ev.unit = "" /\ (ev.host = None \/ ev.host \in batch)
    /\ \A h \in batch : \E ev \in sent : ev.host = None \/ ev.host = h
    /\ \A h \in batch : Event(kind, h, "", at) \in rows
    /\ \A row \in rows : row.unit = ""

LEMMA BatchIs ==
    ASSUME NEW kind \in Kinds, NEW batch \in SUBSET Hosts, NEW at \in 1 .. MaxTime
    PROVE  BatchSound(kind, batch, at, InboxRows(kind, batch, at), Notified(kind, batch, at))
  <1> DEFINE of == [h \in batch |-> Event(kind, h, "", at)]
             each == {of[h] : h \in batch}
             digest == Event(kind, None, "", at)
             rows == InboxRows(kind, batch, at)
             sent == Notified(kind, batch, at)
  <1>1. /\ digest \in Events /\ digest.kind = kind /\ digest.host = None /\ digest.unit = "" /\ digest.at = at
        /\ \A h \in batch :
              of[h] \in Events /\ of[h].kind = kind /\ of[h].host = h /\ of[h].unit = "" /\ of[h].at = at
    BY DEF Event, Events
  <1>2. IsFiniteSet(each)
    <2>1. IsFiniteSet(batch)
      BY FleetAssumption, FS_Subset
    <2>2. DOMAIN of = batch /\ of = [h \in batch |-> of[h]]
      OBVIOUS
    <2> HIDE DEF of
    <2> QED BY <2>1, <2>2, ImageIsFinite
  <1>3. IsFiniteSet({digest})
    BY FS_Singleton
  <1>4. \A h \in batch : of[h] \in each
    OBVIOUS
  <1>5. ASSUME NEW ev \in each
        PROVE  ev \in Events /\ ev.kind = kind /\ ev.at = at /\ ev.unit = "" /\ ev.host \in batch
    <2>1. PICK h \in batch : ev = of[h]
      BY <1>5
    <2> HIDE DEF of
    <2> QED BY <1>1, <2>1
  <1>6. \/ rows = each \cup {digest} /\ sent = {digest}
        \/ rows = each /\ sent = each
    BY Zenon DEF InboxRows, Notified
  <1> HIDE DEF each, digest, rows, sent, of
  <1>7. /\ rows \subseteq Events /\ sent \subseteq rows /\ IsFiniteSet(sent)
        /\ \A ev \in sent : ev.kind = kind /\ ev.at = at /\ ev.unit = "" /\ (ev.host = None \/ ev.host \in batch)
        /\ \A h \in batch : \E ev \in sent : ev.host = None \/ ev.host = h
        /\ \A h \in batch : of[h] \in rows
        /\ \A row \in rows : row.unit = ""
    <2>1. CASE rows = each \cup {digest} /\ sent = {digest}
      <3>1. rows \subseteq Events /\ sent \subseteq rows /\ IsFiniteSet(sent)
        BY <1>1, <1>3, <1>4, <1>5, <2>1
      <3>2. \A ev \in sent : ev.kind = kind /\ ev.at = at /\ ev.unit = "" /\ (ev.host = None \/ ev.host \in batch)
        BY <1>1, <1>4, <1>5, <2>1
      <3>3. \A h \in batch : \E ev \in sent : ev.host = None \/ ev.host = h
        BY <1>1, <1>4, <1>5, <2>1
      <3>4. (\A h \in batch : of[h] \in rows) /\ (\A row \in rows : row.unit = "")
        BY <1>1, <1>4, <1>5, <2>1
      <3> QED BY <3>1, <3>2, <3>3, <3>4
    <2>2. CASE rows = each /\ sent = each
      <3>1. rows \subseteq Events /\ sent \subseteq rows /\ IsFiniteSet(sent)
        BY <1>1, <1>2, <1>4, <1>5, <2>2
      <3>2. \A ev \in sent : ev.kind = kind /\ ev.at = at /\ ev.unit = "" /\ (ev.host = None \/ ev.host \in batch)
        BY <1>1, <1>4, <1>5, <2>2
      <3>3. \A h \in batch : \E ev \in sent : ev.host = None \/ ev.host = h
        BY <1>1, <1>4, <1>5, <2>2
      <3>4. (\A h \in batch : of[h] \in rows) /\ (\A row \in rows : row.unit = "")
        BY <1>1, <1>4, <1>5, <2>2
      <3> QED BY <3>1, <3>2, <3>3, <3>4
    <2> QED BY <1>6, <2>1, <2>2
  <1> QED BY <1>7, Zenon DEF rows, sent, of, BatchSound

\* What has just been recorded may be delivered, and what a rule has won may be mailed.
LEMMA PostIsSound ==
    ASSUME NEW ev \in Events, ev.kind \in Kinds, ev.unit # "" => ev.host # None, \E row \in Announced' : row[2] = ev,
           NEW x, x = EventDelivery(ev)
    PROVE  x \in Deliveries /\ Sound(x)'
  <1>1. x \in Deliveries /\ x.ev = ev /\ x.pc # "mail" /\ x.covers = {} /\ x.due = {}
    BY EventDeliveryIs
  <1>2. x.due # {} => x.ev.unit # "" /\ x.at # 0
    BY <1>1
  <1>3. \A o \in x.covers : \E row \in Announced' : row[2].kind = o[2] /\ row[2].host = o[1][2] /\ row[2].unit = o[1][3]
    BY ONLY <1>1
  <1>4. /\ x.ev.kind \in Kinds /\ (x.ev.unit # "" => x.ev.host # None)
        /\ \E row \in Announced' : row[2] = x.ev
    BY <1>1, Zenon
  <1> QED BY <1>1, <1>2, <1>3, <1>4, Zenon DEF Sound

LEMMA MailIsSound ==
    ASSUME NEW ev \in Events, ev.kind \in Kinds, ev.unit # "" => ev.host # None, \E row \in Announced' : row[2] = ev,
           NEW id \in RuleIDs, NEW C \in SUBSET Notifications, NEW x, x = MailDelivery(id, ev, C),
           \A o \in C : \E row \in Announced' : row[2].kind = o[2] /\ row[2].host = o[1][2] /\ row[2].unit = o[1][3]
    PROVE  x \in Deliveries /\ Sound(x)' /\ x.covers = C
  <1>1. x \in Deliveries /\ x.ev = ev /\ x.pc = "mail" /\ x.covers = C /\ x.due = {} /\ x.rule = id
    BY ONLY id \in RuleIDs, ev \in Events, C \in SUBSET Notifications, x = MailDelivery(id, ev, C), MailDeliveryIs
  <1>2. \A o \in x.covers : \E row \in Announced' : row[2].kind = o[2] /\ row[2].host = o[1][2] /\ row[2].unit = o[1][3]
    BY <1>1
  <1>3. /\ x.ev.kind \in Kinds /\ (x.ev.unit # "" => x.ev.host # None)
        /\ \E row \in Announced' : row[2] = x.ev
    BY <1>1, Zenon
  <1>4. /\ x.pc = "mail" => x.rule \in RuleIDs
        /\ x.pc # "mail" => x.covers = {}
        /\ x.due # {} => x.ev.unit # "" /\ x.at # 0
    BY <1>1, Zenon
  <1>5. Sound(x)'
    BY <1>2, <1>3, <1>4, Zenon DEF Sound
  <1> QED BY <1>1, <1>5

\* What is sent for a rule answers for what it has won.
LEMMA CoveredIs ==
    ASSUME NEW id, NEW ev, NEW batch, NEW o
    PROVE  o \in Covered(id, ev, batch) <=>
               \E h \in (IF ev.host = None THEN batch ELSE {ev.host}) : o = <<<<id, h, "">>, ev.kind, ev.at>>
  BY DEF Covered

\* A rule is done with: what it won is recorded, and mailed or settled.
LEMMA NotifyKeeps ==
    ASSUME Core, NEW r \in Replicas, NotifyBatch(r)
    PROVE  Kept
  <1> DEFINE p == pass[r]
             rule == p.rules[p.rule]
             F == p.firing
             R == p.recovered
             batches == {<<"firing", F>>, <<"recovery", R>>}
             rows == UNION {InboxRows(b[1], b[2], p.at) : b \in {b \in batches : b[2] # {}}}
             sent == UNION {Notified(b[1], b[2], p.at) : b \in {b \in batches : b[2] # {}}}
             BatchOf(ev) == IF ev.kind = "firing" THEN F ELSE R
             covered(ev) == Covered(p.rule, ev, BatchOf(ev))
             Mail(ev) == MailDelivery(p.rule, ev, covered(ev))
             posts == {EventDelivery(ev) : ev \in sent}
             mails == IF rule.mail THEN {Mail(ev) : ev \in sent} ELSE {}
             owing == UNION {covered(ev) : ev \in sent}
             w == AtRule(p, p.held, p.left)
  <1>1. /\ p.pc = "rule" /\ ~Stopped(r) /\ Record(r, rows)
        /\ pass' = [pass EXCEPT ![r] = w]
        /\ UNCHANGED <<deployment, now, hosts, states, up, heard, toldAt, undone, outlived>>
    BY DEF NotifyBatch
  <1>2. PICK started \in SUBSET (posts \cup mails), written \in Written :
            /\ Cardinality(started) <= Room(r)
            /\ deliveries' = [deliveries EXCEPT ![r] = @ \cup started]
            /\ rules' = RecordRefusal(rules, p.rule, mails \ started # {}, written)
            /\ owed' = owed \ (IF ~rule.mail THEN owing
                               ELSE IF ShowsFailure(rules', p.rule, written)
                               THEN UNION {d.covers : d \in mails \ started} ELSE {})
            /\ unstamped' = IF written THEN unstamped ELSE unstamped \cup UNION {d.covers : d \in mails \ started}
    BY DEF NotifyBatch, Settle, LeaveUnstamped
  <1>3. /\ TypeOK /\ Story /\ Bounded /\ pass \in [Replicas -> Passes] /\ p \in RulePass
        /\ rules \in [RuleIDs -> Rule] /\ owed \subseteq Notifications /\ unstamped \subseteq Notifications
        /\ toldAt \in [Keys -> 0 .. MaxTime] /\ undone \in SUBSET Keys
        /\ up \in [Replicas -> {"running", "stopping", "draining", "cancelled", "stopped"}]
    BY <1>1, PassIs DEF Core, TypeOK, Bounded
  <1>4. /\ F \in SUBSET Hosts /\ R \in SUBSET Hosts /\ p.rule \in RuleIDs /\ p.at \in 1 .. MaxTime
        /\ p.left \in SUBSET RuleIDs /\ p.held \in [Keys -> State]
    BY <1>3 DEF RulePass
  <1>5. "firing" \in Kinds /\ "recovery" \in Kinds
    BY DEF Kinds
  <1> DEFINE rowsF == InboxRows("firing", F, p.at)
             rowsR == InboxRows("recovery", R, p.at)
             sentF == Notified("firing", F, p.at)
             sentR == Notified("recovery", R, p.at)
  <1>6. /\ \A row : row \in rows <=> (F # {} /\ row \in rowsF) \/ (R # {} /\ row \in rowsR)
        /\ \A ev : ev \in sent <=> (F # {} /\ ev \in sentF) \/ (R # {} /\ ev \in sentR)
    <2>1. /\ \A row : row \in rows <=> \E b \in batches : b[2] # {} /\ row \in InboxRows(b[1], b[2], p.at)
          /\ \A ev : ev \in sent <=> \E b \in batches : b[2] # {} /\ ev \in Notified(b[1], b[2], p.at)
      OBVIOUS
    <2> HIDE DEF rows, sent, F, R
    <2> QED BY <2>1
  <1>7. BatchSound("firing", F, p.at, rowsF, sentF) /\ BatchSound("recovery", R, p.at, rowsR, sentR)
    BY <1>4, <1>5, BatchIs
  <1> HIDE DEF rowsF, rowsR, sentF, sentR, rows, sent
  <1>8. rows \in SUBSET Events /\ sent \subseteq rows /\ IsFiniteSet(sent)
    <2>1. IsFiniteSet(sentF \cup sentR)
      BY <1>7, FS_Union DEF BatchSound
    <2>2. sent \subseteq sentF \cup sentR
      BY <1>6
    <2>3. IsFiniteSet(sent)
      BY <2>1, <2>2, FS_Subset
    <2> QED BY <1>6, <1>7, <2>3 DEF BatchSound
  <1>9. ASSUME NEW ev \in sent
         PROVE  /\ ev \in Events /\ ev.kind \in Kinds /\ ev.at = p.at /\ ev.unit = ""
                /\ ev.host = None \/ ev.host \in BatchOf(ev)
                /\ \A h \in BatchOf(ev) : Event(ev.kind, h, "", p.at) \in rows
    <2>1. CASE F # {} /\ ev \in sentF
      BY <1>5, <1>6, <1>7, <2>1 DEF BatchSound
    <2>2. CASE R # {} /\ ev \in sentR
      BY <1>5, <1>6, <1>7, <2>2 DEF BatchSound
    <2> QED BY <1>6, <1>9, <2>1, <2>2
  <1>10. /\ inbox' \subseteq Replicas \X Events /\ unrecorded' \subseteq Replicas \X Events /\ tab' \in Tabs
         /\ Announced \subseteq Announced'
         /\ \A ev \in rows : <<r, ev>> \in Announced'
         /\ \A row \in Announced' \ Announced : row[2] \in rows
         /\ TabMissesNothing' /\ TabIsRegistered'
    BY <1>1, <1>8, RecordKeeps DEF Core
  <1> HIDE DEF p, F, R
  <1>11. ASSUME NEW ev \in sent, NEW o \in covered(ev)
         PROVE  /\ o \in Notifications
                /\ \E row \in Announced' : row[2].kind = o[2] /\ row[2].host = o[1][2] /\ row[2].unit = o[1][3]
    <2>1. PICK h \in (IF ev.host = None THEN BatchOf(ev) ELSE {ev.host}) : o = <<<<p.rule, h, "">>, ev.kind, ev.at>>
      <3>1. o \in Covered(p.rule, ev, BatchOf(ev))
        BY <1>11
      <3> HIDE DEF BatchOf
      <3> QED BY <3>1 DEF Covered
    <2>2. h \in BatchOf(ev) /\ h \in Hosts
      BY <1>4, <1>9, <2>1
    <2> DEFINE row == <<r, Event(ev.kind, h, "", p.at)>>
    <2>3. row \in Announced'
      BY <1>9, <1>10, <2>2
    <2>4. row[2].kind = ev.kind /\ row[2].host = h /\ row[2].unit = ""
      BY DEF Event
    <2>5. o \in Notifications
      BY <1>4, <1>9, <2>1, <2>2 DEF Notifications, Keys
    <2>6. o[2] = ev.kind /\ o[1][2] = h /\ o[1][3] = ""
      BY <2>1
    <2> HIDE DEF row
    <2> QED BY <2>3, <2>4, <2>5, <2>6
  <1>12. ASSUME NEW x \in posts \cup mails PROVE x \in Deliveries /\ Sound(x)'
    <2>1. PICK ev \in sent : x = EventDelivery(ev) \/ x = Mail(ev)
      BY <1>12
    <2>2. /\ ev \in Events /\ ev.kind \in Kinds /\ (ev.unit # "" => ev.host # None)
          /\ (\E row \in Announced' : row[2] = ev)
      <3>1. <<r, ev>> \in Announced' /\ <<r, ev>>[2] = ev
        BY <1>8, <1>10
      <3> QED BY <1>9, <3>1
    <2>3. CASE x = EventDelivery(ev)
      BY <2>2, <2>3, PostIsSound
    <2>4. CASE x = Mail(ev)
      <3>1. PICK C : C = covered(ev)
        OBVIOUS
      <3>2. PICK id : id = p.rule
        OBVIOUS
      <3>3. /\ C \in SUBSET Notifications
            /\ \A o \in C : \E row \in Announced' : row[2].kind = o[2] /\ row[2].host = o[1][2] /\ row[2].unit = o[1][3]
        BY <1>11, <3>1
      <3>4. x = MailDelivery(id, ev, C)
        BY <2>4, <3>1, <3>2
      <3>5. id \in RuleIDs
        BY <1>4, <3>2
      <3> QED BY ONLY <2>2, <3>3, <3>4, <3>5, MailIsSound
    <2> QED BY <2>1, <2>3, <2>4
  <1>13. IsFiniteSet(started)
    <2> DEFINE f == [ev \in sent |-> EventDelivery(ev)]
               g == [ev \in sent |-> Mail(ev)]
    <2>1. /\ DOMAIN f = sent /\ f = [ev \in sent |-> f[ev]] /\ {f[ev] : ev \in sent} = posts
          /\ DOMAIN g = sent /\ g = [ev \in sent |-> g[ev]] /\ {g[ev] : ev \in sent} = {Mail(ev) : ev \in sent}
      OBVIOUS
    <2> HIDE DEF f, g
    <2>2. IsFiniteSet({f[ev] : ev \in sent}) /\ IsFiniteSet({g[ev] : ev \in sent})
      BY <1>8, <2>1, ImageIsFinite
    <2>3. IsFiniteSet(posts \cup {Mail(ev) : ev \in sent})
      BY <2>1, <2>2, FS_Union
    <2>4. started \subseteq posts \cup {Mail(ev) : ev \in sent}
      BY <1>2
    <2> QED BY <2>3, <2>4, FS_Subset
  <1>14. /\ Bounded'
         /\ deliveries'[r] = deliveries[r] \cup started
         /\ \A q \in Replicas \ {r} : deliveries'[q] = deliveries[q]
    <2>1. started \in SUBSET Deliveries
      BY <1>2, <1>12
    <2> HIDE DEF posts, mails
    <2> QED BY <1>2, <1>3, <1>13, <2>1, StartKeeps
  <1>15. AllSound' /\ DrainedBeforeExit'
    <2>1. ASSUME NEW q \in Replicas, NEW e \in deliveries'[q] PROVE Sound(e)'
      <3>1. CASE e \in deliveries[q]
        <4>1. Sound(e)
          BY <3>1 DEF Core, AllSound
        <4> QED BY <1>10, <4>1, SoundStays
      <3>2. CASE e \notin deliveries[q]
        <4>1. e \in posts \cup mails
          BY <1>2, <1>14, <2>1, <3>2
        <4> QED BY <1>12, <4>1
      <3> QED BY <3>1, <3>2
    <2>2. DrainedBeforeExit'
      BY <1>1, <1>14 DEF Core, DrainedBeforeExit, Stopped
    <2> QED BY <2>1, <2>2 DEF AllSound
  <1>16. RulesStand /\ (mails \ started # {} /\ written => ShowsFailure(rules', p.rule, written))
    <2>1. CASE mails \ started = {}
      <3>1. rules' = rules
        BY <1>2, <2>1 DEF RecordRefusal
      <3> QED BY <1>3, <2>1, <3>1 DEF RulesStand
    <2>2. CASE mails \ started # {}
      <3>1. rules' = RecordDelivery(rules, p.rule, TRUE, written) /\ written \in BOOLEAN
        BY <1>2, <2>2 DEF RecordRefusal, Written
      <3>2. /\ rules' \in [RuleIDs -> Rule]
            /\ \A x \in RuleIDs : rules'[x].row = rules[x].row /\ rules'[x].condition = rules[x].condition
            /\ IsRule(rules'[p.rule]) /\ written => rules'[p.rule].failed = TRUE
        <4>1. PICK yes \in BOOLEAN : yes = TRUE
          OBVIOUS
        <4>2. PICK id, ws : id = p.rule /\ ws = rules'
          OBVIOUS
        <4>3. id \in RuleIDs /\ ws = RecordDelivery(rules, id, yes, written)
          BY <1>4, <3>1, <4>1, <4>2, Zenon
        <4>4. /\ ws \in [RuleIDs -> Rule]
              /\ \A x \in RuleIDs : ws[x].row = rules[x].row /\ ws[x].condition = rules[x].condition
              /\ IsRule(ws[id]) /\ written => ws[id].failed = yes
          <5>1. rules \in [RuleIDs -> Rule] /\ written \in BOOLEAN
            BY <1>3, <3>1
          <5> QED BY ONLY <4>3, <5>1, yes \in BOOLEAN, RecordedRules
        <4> QED BY <4>1, <4>2, <4>4, Zenon
      <3> QED BY <1>4, <3>2 DEF RulesStand, IsRule, ShowsFailure
    <2> QED BY <2>1, <2>2
  <1>17. /\ w \in Passes /\ w.pc \in {"idle", "rule"}
         /\ w.pc = "rule" => /\ w.rules = p.rules /\ w.held = p.held
                             /\ w.rule \in p.left /\ w.left = p.left \ {w.rule}
    BY <1>3, <1>4, NextRule
  <1>18. pass'[r] = w /\ \A q \in Replicas \ {r} : pass'[q] = pass[q]
    BY <1>1, <1>3
  <1>19. NotDropped'
    <2> SUFFICES ASSUME NEW o \in owed', o \notin unstamped' PROVE \E q \in Replicas : o \in InHand(q)'
      BY DEF NotDropped
    <2>1. PICK q \in Replicas : o \in InHand(q)
      <3>1. o \in owed /\ o \notin unstamped
        BY <1>2
      <3> QED BY <3>1 DEF Core, NotDropped
    <2>2. CASE \E d \in deliveries[q] : o \in d.covers
      <3>1. \E d \in deliveries'[q] : o \in d.covers
        BY <1>14, <2>2
      <3> QED BY <3>1, InHandIs
    <2>3. CASE InPass(pass[q], o) /\ q # r
      BY <1>18, <2>3, InHandIs
    <2>4. CASE InPass(p, o)
      <3>1. PICK ev \in sent : o \in covered(ev)
        <4>1. CASE \E h \in F : o = <<<<p.rule, h, "">>, "firing", p.at>>
          <5>1. PICK h \in F : o = <<<<p.rule, h, "">>, "firing", p.at>>
            BY <4>1
          <5>2. PICK ev \in sentF : ev.host = None \/ ev.host = h
            BY <1>7 DEF BatchSound
          <5>3. /\ ev \in sent /\ ev.kind = "firing" /\ ev.at = p.at
                /\ h \in (IF ev.host = None THEN BatchOf(ev) ELSE {ev.host})
            BY <1>6, <1>7, <5>2 DEF BatchSound
          <5>4. o \in covered(ev)
            BY <5>1, <5>3, CoveredIs, Zenon
          <5> QED BY <5>3, <5>4
        <4>2. CASE \E h \in R : o = <<<<p.rule, h, "">>, "recovery", p.at>>
          <5>1. PICK h \in R : o = <<<<p.rule, h, "">>, "recovery", p.at>>
            BY <4>2
          <5>2. PICK ev \in sentR : ev.host = None \/ ev.host = h
            BY <1>7 DEF BatchSound
          <5>3. /\ ev \in sent /\ ev.kind = "recovery" /\ ev.at = p.at
                /\ h \in (IF ev.host = None THEN BatchOf(ev) ELSE {ev.host})
            BY <1>6, <1>7, <5>2 DEF BatchSound
          <5>4. o \in covered(ev)
            BY <5>1, <5>3, CoveredIs, Zenon
          <5> QED BY <5>3, <5>4
        <4> QED BY <2>4, <4>1, <4>2 DEF InPass, F, R
      <3> HIDE DEF covered
      <3>2. rule.mail
        BY <1>2, <3>1
      <3>3. Mail(ev) \in mails
        BY <3>1, <3>2
      <3> PICK x : x = Mail(ev)
        OBVIOUS
      <3>4. x.covers = covered(ev)
        <4>1. covered(ev) \in SUBSET Notifications
          BY <1>11, <3>1
        <4>2. ev \in Events
          BY <1>9
        <4> QED BY <1>4, <4>1, <4>2, MailDeliveryIs
      <3> HIDE DEF mails
      <3>5. x \in started
        <4> SUFFICES ASSUME x \notin started PROVE FALSE
          OBVIOUS
        <4> DEFINE refused == mails \ started
                   unsent == UNION {d.covers : d \in refused}
        <4>1. x \in refused
          BY <3>3
        <4>2. o \in unsent
          BY <3>1, <3>4, <4>1
        <4>3. /\ unstamped' = IF written THEN unstamped ELSE unstamped \cup unsent
              /\ owed' = owed \ (IF ShowsFailure(rules', p.rule, written) THEN unsent ELSE {})
          BY <1>2, <3>2
        <4>4. refused # {} /\ written => ShowsFailure(rules', p.rule, written)
          BY <1>16
        <4> HIDE DEF refused, unsent
        <4> QED BY <4>1, <4>2, <4>3, <4>4
      <3>6. \E d \in deliveries'[r] : o \in d.covers
        BY <1>14, <3>1, <3>4, <3>5
      <3> QED BY <3>6, InHandIs
    <2> QED BY <2>1, <2>2, <2>3, <2>4, InHandIs DEF p
  <1>20. Story' /\ Spaced
    <2>1. FollowsRules(r)'
      <3>1. FollowsRules(r)
        BY <1>3 DEF Story, PassFollowsRules, FollowsRules
      <3>2. w.pc = "rule" => Ahead(w) = p.left
        BY <1>17 DEF Ahead
      <3>3. \A id \in p.left : rules[id].row # "none" /\ rules'[id].row # "none"
        BY <1>1, <1>4, <1>16, <3>1 DEF FollowsRules, Ahead, RulesStand, p
      <3>4. /\ r \in Live /\ Live' = Live /\ (up'[r] \in Open \/ r \in outlived')
            /\ \A id \in RuleIDs : p.rules[id].condition = deployment'.condition
        BY <1>1, <3>1 DEF FollowsRules, Live, p
      <3>5. Ahead(pass[r])' = Ahead(w)
        BY <1>18 DEF Ahead
      <3> HIDE DEF w
      <3> QED BY <1>17, <1>18, <3>2, <3>3, <3>4, <3>5 DEF FollowsRules, Open
    <2>2. TimedHeld(r)'
      <3>1. TimedHeld(r)
        BY <1>3 DEF Story, TimedWhileFiring, TimedHeld
      <3> HIDE DEF w
      <3> QED BY <1>1, <1>17, <1>18, <3>1 DEF TimedHeld, p
    <2>3. OneBookkeeper => CurrentHeld(r)'
      <3>1. ASSUME OneBookkeeper, deployment.condition \in MeasuredInDays, NEW id \in p.left, NEW h \in Hosts,
                   IsRule(rules'[id])
            PROVE  p.held[<<id, h, "">>] = states[<<id, h, "">>]
        <4>1. HeldIsCurrent /\ PassFollowsRules
          BY <1>3 DEF Story, Books
        <4>2. id \in Ahead(p) /\ id # p.rule /\ IsRule(rules[id])
          <5>1. p.rule \notin p.left /\ id \in Ahead(p) /\ rules[id].row # "none"
            BY <1>1, <3>1, <4>1 DEF PassFollowsRules, Ahead, p
          <5> QED BY <1>4, <1>16, <3>1, <5>1 DEF RulesStand
        <4> QED BY <1>1, <3>1, <4>1, <4>2 DEF HeldIsCurrent, p
      <3>2. w.pc = "rule" => Ahead(w) = p.left
        BY <1>17 DEF Ahead
      <3>3. Ahead(pass[r])' = Ahead(w)
        BY <1>18 DEF Ahead
      <3>4. deployment' = deployment /\ states' = states
        BY <1>1
      <3> HIDE DEF w
      <3> QED BY ONLY <1>17, <1>18, <3>1, <3>2, <3>3, <3>4 DEF CurrentHeld
    <2>4. \A q \in Replicas : FollowsRules(q)' /\ TimedHeld(q)' /\ (OneBookkeeper => CurrentHeld(q)')
      <3> SUFFICES ASSUME NEW q \in Replicas, q # r
                   PROVE  FollowsRules(q)' /\ TimedHeld(q)' /\ (OneBookkeeper => CurrentHeld(q)')
        BY <2>1, <2>2, <2>3
      <3>1. HostRowsStay /\ PassesMayGoOn
        BY <1>1 DEF HostRowsStay, PassesMayGoOn
      <3> QED BY <1>1, <1>3, <1>16, <1>18, <3>1, OtherPass
    <2>5. toldAt' \in [Keys -> 0 .. MaxTime] /\ undone' \in SUBSET Keys /\ \A key \in Keys : KeyMoves(key)
      BY <1>1, <1>3 DEF KeyMoves, SameKey
    <2> QED BY <1>1, <1>3, <1>16, <2>4, <2>5, StoryMoves
  <1>21. TypeOK'
    <2>1. pass' \in [Replicas -> Passes]
      BY <1>1, <1>3, <1>17
    <2>2. owed' \subseteq Notifications /\ unstamped' \subseteq Notifications
      <3>1. ASSUME NEW d \in mails PROVE d.covers \subseteq Notifications
        BY <1>12, <3>1 DEF Deliveries
      <3> HIDE DEF mails
      <3>2. UNION {d.covers : d \in mails \ started} \subseteq Notifications
        BY <3>1
      <3> QED BY <1>2, <1>3, <3>2
    <2> QED BY <1>1, <1>3, <1>10, <1>14, <1>16, <2>1, <2>2 DEF TypeOK, Bounded, RulesStand
  <1>22. EndsWhatWasTold /\ RowsAreTrue
    <2>1. owed' \subseteq owed
      BY <1>2
    <2>2. \A row \in rows : row.unit = ""
      BY <1>6, <1>7 DEF BatchSound
    <2> QED BY <1>10, <2>1, <2>2 DEF EndsWhatWasTold, RowsAreTrue
  <1> QED BY <1>10, <1>15, <1>19, <1>20, <1>21, <1>22 DEF Kept, Core

-----------------------------------------------------------------------------
(* A delivery at each of its stations *)

\* What a delivery may do to the books and to the inbox, and what it may leave to the next station.
BooksMove ==
    /\ RulesStand /\ HostRowsStay /\ EndsWhatWasTold
    /\ states' \in [Keys -> State] /\ heard' \in [Keys -> Kinds \cup {None}] /\ toldAt' \in [Keys -> 0 .. MaxTime]
    /\ unstamped' \subseteq Notifications /\ undone' \in SUBSET Keys /\ UNCHANGED outlived
    /\ \A key \in Keys : KeyMoves(key)
InboxMoves ==
    /\ inbox' \subseteq Replicas \X Events /\ unrecorded' \subseteq Replicas \X Events /\ tab' \in Tabs
    /\ Announced \subseteq Announced'
    /\ TabMissesNothing' /\ TabIsRegistered' /\ RowsAreTrue
HandsOver(d, N) ==
    /\ N \in SUBSET Deliveries /\ (N = {} \/ (\E x : N = {x})) /\ \A x \in N : Sound(x)'
    /\ unstamped \subseteq unstamped'
    /\ \A o \in owed' : (o \in owed /\ o \notin d.covers) \/ (\E x \in N : o \in x.covers) \/ o \in unstamped'

LEMMA DeliveryKeeps ==
    ASSUME Core, NEW r \in Replicas, NEW d \in deliveries[r], NEW N, Replace(r, d, N), UNCHANGED Elsewhere,
           BooksMove, InboxMoves, HandsOver(d, N)
    PROVE  Kept
  <1>1. TypeOK /\ Story /\ AllSound /\ DrainedBeforeExit /\ NotDropped
    BY DEF Core
  <1>2. UNCHANGED <<deployment, now, hosts, up, pass>>
    BY DEF Elsewhere
  <1>3. /\ N \in SUBSET Deliveries /\ (N = {} \/ (\E x : N = {x})) /\ \A x \in N : Sound(x)'
        /\ unstamped \subseteq unstamped'
        /\ \A o \in owed' : (o \in owed /\ o \notin d.covers) \/ (\E x \in N : o \in x.covers) \/ o \in unstamped'
    BY DEF HandsOver
  <1>4. Bounded' /\ AllSound' /\ DrainedBeforeExit' /\ NotDropped'
    <2>1. Announced \subseteq Announced'
      BY DEF InboxMoves
    <2>2. UNCHANGED <<up, pass>>
      BY <1>2
    <2>3. N \in SUBSET Deliveries
      BY <1>3
    <2>4. N = {} \/ (\E x : N = {x})
      BY <1>3
    <2>5. \A x \in N : Sound(x)'
      BY <1>3
    <2>6. \A o \in owed' : (o \in owed /\ o \notin d.covers) \/ (\E x \in N : o \in x.covers) \/ o \in unstamped'
      BY <1>3
    <2>7. unstamped \subseteq unstamped'
      BY <1>3
    <2> QED BY ONLY r \in Replicas, d \in deliveries[r], Replace(r, d, N),
                    <1>1, <2>1, <2>2, <2>3, <2>4, <2>5, <2>6, <2>7, DeliveryMoves, Zenon
  <1>5. Story' /\ Spaced
    <2>1. /\ RulesStand /\ HostRowsStay /\ toldAt' \in [Keys -> 0 .. MaxTime] /\ undone' \in SUBSET Keys
          /\ \A key \in Keys : KeyMoves(key)
      BY DEF BooksMove
    <2>2. UNCHANGED <<deployment, pass>>
      BY <1>2
    <2>3. PassesMayGoOn
      BY <1>2 DEF BooksMove, PassesMayGoOn
    <2> QED BY <1>1, <2>1, <2>2, <2>3, StoryStays
  <1>6. owed' \subseteq Notifications
    <2>1. /\ owed \subseteq Notifications /\ \A x \in N : x.covers \subseteq Notifications
          /\ unstamped' \subseteq Notifications
      BY <1>1, <1>3 DEF TypeOK, Deliveries, BooksMove
    <2> QED BY <1>3, <2>1
  <1>7. TypeOK'
    <2>1. rules' \in [RuleIDs -> Rule]
      BY DEF BooksMove, RulesStand
    <2>2. deliveries' \in [Replicas -> SUBSET Deliveries]
          /\ \A q \in Replicas : IsFiniteSet(deliveries'[q]) /\ InFlight(q)' <= MaxOutboundInFlight
      BY <1>4 DEF Bounded
    <2>3. /\ deployment \in Deployments /\ now \in 1 .. MaxTime /\ hosts \in [Hosts -> HostDoc]
          /\ pass \in [Replicas -> Passes]
          /\ up \in [Replicas -> {"running", "stopping", "draining", "cancelled", "stopped"}]
      BY <1>1 DEF TypeOK
    <2>4. /\ states' \in [Keys -> State] /\ heard' \in [Keys -> Kinds \cup {None}] /\ toldAt' \in [Keys -> 0 .. MaxTime]
          /\ inbox' \subseteq Replicas \X Events /\ unrecorded' \subseteq Replicas \X Events /\ tab' \in Tabs
          /\ unstamped' \subseteq Notifications /\ undone' \subseteq Keys /\ outlived' \subseteq Replicas
      BY <1>1 DEF BooksMove, InboxMoves, TypeOK
    <2> QED BY ONLY <1>2, <1>6, <2>1, <2>2, <2>3, <2>4, Zenon DEF TypeOK
  <1> QED BY <1>4, <1>5, <1>7 DEF Kept, Core, BooksMove, InboxMoves

\* Most steps of a delivery record nothing, and most touch no books.
LEMMA NothingRecorded ==
    ASSUME Core, UNCHANGED <<inbox, unrecorded, tab>>
    PROVE  InboxMoves
  BY DEF Core, TypeOK, InboxMoves, Announced, TabMissesNothing, TabIsRegistered, RowsAreTrue

LEMMA NothingTold ==
    ASSUME Core, UNCHANGED <<states, heard, toldAt, undone, outlived>>, owed' \subseteq owed,
           unstamped' \subseteq Notifications, RulesStand
    PROVE  BooksMove
  <1>1. /\ states \in [Keys -> State] /\ heard \in [Keys -> Kinds \cup {None}] /\ toldAt \in [Keys -> 0 .. MaxTime]
        /\ undone \in SUBSET Keys
    BY DEF Core, TypeOK
  <1>2. HostRowsStay /\ EndsWhatWasTold
    BY DEF HostRowsStay, EndsWhatWasTold
  <1>3. \A key \in Keys : KeyMoves(key)
    BY DEF KeyMoves, SameKey
  <1> QED BY <1>1, <1>2, <1>3 DEF BooksMove

LEMMA RulesStandStill ==
    ASSUME Core, UNCHANGED rules
    PROVE  RulesStand
  BY DEF Core, TypeOK, RulesStand

LEMMA BooksStay ==
    ASSUME Core, UNCHANGED <<rules, states, told>>
    PROVE  BooksMove
  <1>1. /\ UNCHANGED <<states, heard, toldAt, undone, outlived>>
        /\ owed' \subseteq owed /\ unstamped' \subseteq Notifications
    BY DEF told, Core, TypeOK
  <1> QED BY <1>1, RulesStandStill, NothingTold

LEMMA DeliveryIs ==
    ASSUME Core, NEW r \in Replicas, NEW d \in deliveries[r]
    PROVE  /\ d \in Deliveries /\ Sound(d) /\ d.due \in SUBSET RuleIDs /\ d.at \in 0 .. MaxTime
           /\ d.covers \in SUBSET Notifications
  <1>1. d \in Deliveries /\ Sound(d)
    BY DEF Core, TypeOK, AllSound
  <1> QED BY <1>1 DEF Deliveries

\* The same delivery, at the next attempt or station.
LEMMA GoesOn ==
    ASSUME NEW d, Sound(d), NEW x \in Deliveries, x.ev = d.ev, x.covers = d.covers, x.due = d.due, x.at = d.at,
           x.rule = d.rule, x.pc # "mail" => d.pc # "mail", x.pc = "mail" => d.pc = "mail",
           Announced \subseteq Announced', owed' \subseteq owed, unstamped \subseteq unstamped'
    PROVE  HandsOver(d, {x})
  <1>1. Sound(d)'
    BY SoundStays
  <1>2. Sound(x)'
    BY <1>1 DEF Sound
  <1>3. \A o \in owed' : (o \in owed /\ o \notin d.covers) \/ o \in x.covers
    OBVIOUS
  <1> QED BY <1>2, <1>3 DEF HandsOver

\* A delivery ends, or goes on to the rules ahead of it, when what it covered is settled.
LEMMA Ends ==
    ASSUME NEW d, unstamped \subseteq unstamped', \A o \in owed' : (o \in owed /\ o \notin d.covers) \/ o \in unstamped'
    PROVE  HandsOver(d, {})
  BY DEF HandsOver

LEMMA GoesToRules ==
    ASSUME NEW d \in Deliveries, Sound(d), NEW at \in 0 .. MaxTime, NEW due \in SUBSET RuleIDs,
           due # {} => d.ev.unit # "" /\ at # 0,
           Announced \subseteq Announced', unstamped \subseteq unstamped',
           \A o \in owed' : (o \in owed /\ o \notin d.covers) \/ o \in unstamped'
    PROVE  HandsOver(d, Onward(d, at, due))
  <1>1. Sound(d)'
    BY SoundStays
  <1>2. ASSUME NEW x \in Onward(d, at, due) PROVE x \in Deliveries /\ Sound(x)'
    <2>1. /\ x \in Deliveries /\ x.ev = d.ev /\ x.pc = "rules" /\ x.covers = {} /\ x.due = due /\ x.at = at
          /\ due # {}
      BY <1>2, OnwardIs
    <2>2. x.pc # "mail"
      BY <2>1
    <2> QED BY <1>1, <2>1, <2>2 DEF Sound
  <1>3. Onward(d, at, due) = {} \/ \E x : Onward(d, at, due) = {x}
    BY Zenon DEF Onward
  <1>4. Onward(d, at, due) \in SUBSET Deliveries
    BY <1>2
  <1> QED BY <1>2, <1>3, <1>4 DEF HandsOver

\* The webhook: tried, or done with; its failure is recorded (deliverOutside).
LEMMA PostKeeps ==
    ASSUME Core, NEW r \in Replicas, PostWebhook(r)
    PROVE  Kept
  <1>1. PICK d \in deliveries[r] :
            /\ d.pc = "webhook"
            /\ \/ Replace(r, d, {[d EXCEPT !.pc = "route", !.tries = 0]}) /\ UNCHANGED <<inbox, unrecorded, tab>>
               \/ Replace(r, d, {[d EXCEPT !.tries = @ + 1]}) /\ UNCHANGED <<inbox, unrecorded, tab>>
               \/ /\ Record(r, {Event("delivery.failed", d.ev.host, d.ev.unit, now)})
                  /\ Replace(r, d, {[d EXCEPT !.pc = "route", !.tries = 0]})
            /\ UNCHANGED <<Elsewhere, rules, states, told>>
    BY DEF PostWebhook
  <1>2. d \in Deliveries /\ Sound(d) /\ d.covers = {}
    <2>1. d \in Deliveries /\ Sound(d)
      BY DeliveryIs
    <2> QED BY <1>1, <2>1 DEF Sound
  <1>3. PICK x : /\ x = [d EXCEPT !.pc = "route", !.tries = 0] \/ x = [d EXCEPT !.tries = @ + 1]
                 /\ Replace(r, d, {x})
    BY <1>1
  <1>4. /\ x \in Deliveries /\ x.ev = d.ev /\ x.covers = d.covers /\ x.due = d.due /\ x.at = d.at
        /\ x.rule = d.rule /\ x.pc # "mail"
    BY <1>1, <1>2, <1>3, RetryIs, ToRouteIs
  <1>5. InboxMoves
    <2>1. CASE UNCHANGED <<inbox, unrecorded, tab>>
      BY <2>1, NothingRecorded
    <2>2. CASE Record(r, {Event("delivery.failed", d.ev.host, d.ev.unit, now)})
      <3> DEFINE failed == Event("delivery.failed", d.ev.host, d.ev.unit, now)
      <3>1. failed \in Events /\ failed.kind = "delivery.failed"
        BY <1>2 DEF Event, Events, Deliveries, Core, TypeOK
      <3> HIDE DEF failed
      <3>2. /\ inbox' \subseteq Replicas \X Events /\ unrecorded' \subseteq Replicas \X Events /\ tab' \in Tabs
            /\ Announced \subseteq Announced'
            /\ \A row \in Announced' \ Announced : row[2] \in {failed}
            /\ TabMissesNothing' /\ TabIsRegistered'
        <4>1. Record(r, {failed})
          BY <2>2 DEF failed
        <4>2. {failed} \in SUBSET Events
          BY <3>1
        <4> QED BY <4>1, <4>2, RecordKeeps DEF Core
      <3>3. RowsAreTrue
        BY <3>1, <3>2 DEF RowsAreTrue
      <3> QED BY <3>2, <3>3 DEF InboxMoves
    <2> QED BY <1>1, <2>1, <2>2
  <1>6. BooksMove
    <2>1. UNCHANGED <<rules, states, told>>
      BY <1>1
    <2> QED BY <2>1, BooksStay
  <1>7. HandsOver(d, {x})
    <2>1. Announced \subseteq Announced' /\ owed' \subseteq owed /\ unstamped \subseteq unstamped'
      BY <1>1, <1>5 DEF InboxMoves, told
    <2>2. (x.pc # "mail" => d.pc # "mail") /\ (x.pc = "mail" => d.pc = "mail")
      BY <1>1, <1>4
    <2> QED BY <1>2, <1>4, <2>1, <2>2, GoesOn
  <1>8. UNCHANGED Elsewhere
    BY <1>1
  <1> QED BY <1>3, <1>5, <1>6, <1>7, <1>8, DeliveryKeeps

\* Which rules are due is read before any of them is claimed (routeEventMail).
LEMMA RouteKeeps ==
    ASSUME Core, NEW r \in Replicas, RouteEventMail(r)
    PROVE  Kept
  <1>1. PICK d \in deliveries[r] :
            /\ d.pc = "route"
            /\ \/ Replace(r, d, IF ~RoutedCondition(d.ev) THEN {}
                                ELSE Onward(d, now, IF d.ev.kind = "firing" THEN DueRules(d.ev) ELSE Routing(d.ev)))
               \/ Replace(r, d, {})
            /\ UNCHANGED <<Elsewhere, rules, states, inbox, unrecorded, tab, told>>
    BY DEF RouteEventMail
  <1>2. d \in Deliveries /\ Sound(d) /\ d.covers = {}
    <2>1. d \in Deliveries /\ Sound(d)
      BY DeliveryIs
    <2> QED BY <1>1, <2>1 DEF Sound
  <1>3. unstamped \subseteq unstamped' /\ \A o \in owed' : o \in owed /\ o \notin d.covers
    BY <1>1, <1>2 DEF told
  <1>4. InboxMoves /\ BooksMove
    <2>1. UNCHANGED <<inbox, unrecorded, tab>>
      BY <1>1
    <2>2. UNCHANGED <<rules, states, told>>
      BY <1>1
    <2> QED BY <2>1, <2>2, BooksStay, NothingRecorded
  <1>5. UNCHANGED Elsewhere
    BY <1>1
  <1>6. CASE Replace(r, d, {})
    BY <1>3, <1>4, <1>5, <1>6, Ends, DeliveryKeeps
  <1>7. CASE d.ev.unit # "" /\ \E due \in SUBSET RuleIDs : Replace(r, d, Onward(d, now, due))
    <2>1. PICK due \in SUBSET RuleIDs : Replace(r, d, Onward(d, now, due))
      BY <1>7
    <2>2. now \in 0 .. MaxTime /\ now # 0 /\ d.ev.unit # ""
      <3>1. now \in 1 .. MaxTime
        BY DEF Core, TypeOK
      <3>2. now \in 0 .. MaxTime /\ now # 0
        BY ONLY <3>1, Bounds
      <3> QED BY <1>7, <3>2
    <2>3. Announced \subseteq Announced'
      BY <1>4 DEF InboxMoves
    <2>4. HandsOver(d, Onward(d, now, due))
      BY <1>2, <1>3, <2>2, <2>3, GoesToRules
    <2> QED BY <1>4, <1>5, <2>1, <2>4, DeliveryKeeps
  <1> QED
    <2>1. DueRules(d.ev) \in SUBSET RuleIDs /\ Routing(d.ev) \in SUBSET RuleIDs
      BY DEF DueRules, Routing, RuleRows
    <2>2. CASE ~RoutedCondition(d.ev)
      BY <1>1, <1>6, <2>2
    <2>3. CASE RoutedCondition(d.ev)
      <3>1. d.ev.unit # ""
        BY <2>3 DEF RoutedCondition
      <3>2. \/ Replace(r, d, {})
            \/ Replace(r, d, Onward(d, now, DueRules(d.ev)))
            \/ Replace(r, d, Onward(d, now, Routing(d.ev)))
        BY <1>1, <2>3, Zenon
      <3> QED BY <1>6, <1>7, <2>1, <3>1, <3>2
    <2> QED BY <2>2, <2>3

\* One of the rules that are due is won, with what it says to its recipients.
WonKey(key, kind, at) ==
    /\ states' \in [Keys -> State] /\ heard' \in [Keys -> Kinds \cup {None}] /\ toldAt' \in [Keys -> 0 .. MaxTime]
    /\ undone' \in SUBSET Keys /\ UNCHANGED <<unstamped, outlived>>
    /\ \A x \in Keys \ {key} : SameKey(x)
    /\ KeyMoves(key)
    /\ owed' = owed \cup {<<key, kind, at>>}
    /\ kind = "recovery" => heard[key] = "firing"

LEMMA WonKeeps ==
    ASSUME Core, NEW r \in Replicas, NEW d \in deliveries[r], d.pc = "rules", NEW id \in d.due,
           NEW key, key = KeyOf(id, d.ev), Replace(r, d, {Mailing(d, id)}),
           UNCHANGED <<Elsewhere, rules, inbox, unrecorded, tab>>, WonKey(key, d.ev.kind, d.at)
    PROVE  Kept
  <1>1. /\ d \in Deliveries /\ Sound(d) /\ d.due \in SUBSET RuleIDs /\ d.at \in 0 .. MaxTime /\ d.covers = {}
        /\ id \in RuleIDs
    <2>1. d \in Deliveries /\ Sound(d) /\ d.due \in SUBSET RuleIDs /\ d.at \in 0 .. MaxTime
      BY DeliveryIs
    <2> QED BY <2>1 DEF Sound
  <1>2. /\ d.ev.unit # "" /\ d.at # 0 /\ d.ev.host # None /\ d.ev.kind \in Kinds
        /\ \E row \in Announced : row[2] = d.ev
    <2>1. d.due # {}
      OBVIOUS
    <2> QED BY <1>1, <2>1 DEF Sound
  <1>3. key \in Keys /\ key[1] = id /\ key[2] = d.ev.host /\ key[3] = d.ev.unit /\ key = <<id, d.ev.host, d.ev.unit>>
    <2>1. d.ev \in Events
      BY <1>1 DEF Deliveries
    <2>2. d.ev.host \in Hosts /\ d.ev.unit \in Units \cup {""}
      BY <1>2, <2>1 DEF Events
    <2> QED BY <1>1, <2>2 DEF KeyOf, Keys
  <1>4. PICK x : x = Mailing(d, id)
    OBVIOUS
  <1>5. /\ x \in Deliveries /\ x.ev = d.ev /\ x.pc = "mail" /\ x.due = d.due \ {id} /\ x.at = d.at /\ x.rule = id
        /\ x.covers = {<<key, d.ev.kind, d.at>>}
    <2>1. KeyOf(id, d.ev) \in Keys
      BY <1>3
    <2>2. /\ x \in Deliveries /\ x.ev = d.ev /\ x.pc = "mail" /\ x.due = d.due \ {id} /\ x.at = d.at /\ x.rule = id
          /\ x.covers = {<<KeyOf(id, d.ev), d.ev.kind, d.at>>}
      <3>1. d \in Deliveries /\ id \in RuleIDs /\ d.at # 0 /\ d.ev.kind \in Kinds
        BY <1>1, <1>2
      <3> QED BY ONLY <1>4, <2>1, <3>1, MailingIs
    <2> QED BY <2>2, Zenon
  <1>6. InboxMoves
    BY NothingRecorded
  <1>7. /\ states' \in [Keys -> State] /\ heard' \in [Keys -> Kinds \cup {None}] /\ toldAt' \in [Keys -> 0 .. MaxTime]
        /\ undone' \in SUBSET Keys /\ UNCHANGED <<unstamped, outlived>>
        /\ \A y \in Keys \ {key} : SameKey(y)
        /\ KeyMoves(key)
        /\ owed' = owed \cup {<<key, d.ev.kind, d.at>>}
        /\ d.ev.kind = "recovery" => heard[key] = "firing"
    BY DEF WonKey
  <1>8. BooksMove
    <2>1. \A y \in Keys : KeyMoves(y)
      BY <1>7 DEF KeyMoves
    <2>2. HostRowsStay
      <3> SUFFICES ASSUME NEW i \in RuleIDs, NEW h \in Hosts
                   PROVE  states'[<<i, h, "">>] = states[<<i, h, "">>]
        BY DEF HostRowsStay
      <3>1. <<i, h, "">> \in Keys
        BY DEF Keys
      <3>2. <<i, h, "">> # key
        <4>1. key[3] # ""
          BY ONLY <1>2, <1>3
        <4>2. <<i, h, "">>[3] = ""
          BY ONLY TRUE
        <4> QED BY ONLY <4>1, <4>2, Zenon
      <3> QED BY <1>7, <3>1, <3>2 DEF SameKey
    <2>3. EndsWhatWasTold
      BY <1>7 DEF EndsWhatWasTold
    <2>4. RulesStand
      BY RulesStandStill
    <2>5. unstamped' \subseteq Notifications
      BY <1>7 DEF Core, TypeOK
    <2> QED BY <1>7, <2>1, <2>2, <2>3, <2>4, <2>5 DEF BooksMove
  <1>9. HandsOver(d, {x})
    <2>1. Sound(x)'
      <3>1. \A o \in x.covers : \E row \in Announced' :
                row[2].kind = o[2] /\ row[2].host = o[1][2] /\ row[2].unit = o[1][3]
        <4>1. PICK row \in Announced : row[2] = d.ev
          BY <1>2
        <4>2. row \in Announced'
          BY <1>6 DEF InboxMoves
        <4>3. \A o \in x.covers : o[2] = d.ev.kind /\ o[1] = key
          BY <1>5
        <4> QED BY <1>3, <4>1, <4>2, <4>3
      <3>2. x.ev.kind \in Kinds /\ (\E row \in Announced' : row[2] = x.ev) /\ (x.ev.unit # "" => x.ev.host # None)
        BY <1>2, <1>5, <1>6 DEF InboxMoves
      <3>3. (x.pc = "mail" => x.rule \in RuleIDs) /\ (x.pc # "mail" => x.covers = {})
        BY <1>1, <1>5
      <3>4. x.due # {} => x.ev.unit # "" /\ x.at # 0
        BY <1>2, <1>5
      <3> QED BY <3>1, <3>2, <3>3, <3>4, Zenon DEF Sound
    <2>2. \A o \in owed' : (o \in owed /\ o \notin d.covers) \/ o \in x.covers
      BY <1>1, <1>5, <1>7
    <2> QED BY <1>5, <1>7, <2>1, <2>2 DEF HandsOver
  <1>10. Replace(r, d, {x}) /\ UNCHANGED Elsewhere
    BY <1>4
  <1> QED BY <1>6, <1>8, <1>9, <1>10, DeliveryKeeps

\* A rule that was not won is passed over.
LEMMA PassedOver ==
    ASSUME Core, NEW r \in Replicas, NEW d \in deliveries[r], d.pc = "rules", NEW id \in d.due,
           Replace(r, d, Onward(d, d.at, d.due \ {id})),
           UNCHANGED <<Elsewhere, rules, states, inbox, unrecorded, tab, told>>
    PROVE  Kept
  <1>1. /\ d \in Deliveries /\ Sound(d) /\ d.due \in SUBSET RuleIDs /\ d.at \in 0 .. MaxTime /\ d.covers = {}
    <2>1. d \in Deliveries /\ Sound(d) /\ d.due \in SUBSET RuleIDs /\ d.at \in 0 .. MaxTime
      BY DeliveryIs
    <2> QED BY <2>1 DEF Sound
  <1>2. d.ev.unit # "" /\ d.at # 0
    <2>1. d.due # {}
      OBVIOUS
    <2> QED BY <1>1, <2>1 DEF Sound
  <1>3. InboxMoves /\ BooksMove
    <2>1. UNCHANGED <<rules, states, told>>
      OBVIOUS
    <2> QED BY <2>1, BooksStay, NothingRecorded
  <1>4. PICK due : due = d.due \ {id}
    OBVIOUS
  <1>5. HandsOver(d, Onward(d, d.at, due))
    <2>1. due \in SUBSET RuleIDs /\ (due # {} => d.ev.unit # "" /\ d.at # 0) /\ Announced \subseteq Announced'
      BY <1>1, <1>2, <1>3, <1>4 DEF InboxMoves
    <2>2. unstamped \subseteq unstamped' /\ \A o \in owed' : o \in owed /\ o \notin d.covers
      BY <1>1 DEF told
    <2> QED BY <1>1, <2>1, <2>2, GoesToRules
  <1>6. Replace(r, d, Onward(d, d.at, due)) /\ UNCHANGED Elsewhere
    BY <1>4
  <1> QED BY <1>3, <1>5, <1>6, DeliveryKeeps

\* The rules that are due, one by one: claimed before they are mailed, or told that they were skipped (routeToRules).
LEMMA RulesKeep ==
    ASSUME Core, NEW r \in Replicas, RouteToRules(r)
    PROVE  Kept
  <1>1. PICK d \in deliveries[r] :
            /\ d.pc = "rules" /\ d.ev.kind = "firing"
            /\ \/ \E id \in d.due :
                    /\ WinsClaim(d, id)
                    /\ states' = ClaimAlertNotification(states, KeyOf(id, d.ev), d.at)
                    /\ Replace(r, d, {Mailing(d, id)})
                    /\ WonFiring(KeyOf(id, d.ev), d.at) /\ UNCHANGED rules
               \/ \E id \in d.due : Replace(r, d, Onward(d, d.at, d.due \ {id})) /\ UNCHANGED <<states, rules, told>>
               \/ Skip(d, d.due) /\ Replace(r, d, {}) /\ UNCHANGED <<states, told>>
            /\ UNCHANGED <<Elsewhere, inbox, unrecorded, tab>>
    BY DEF RouteToRules
  <1>2. d \in Deliveries /\ Sound(d) /\ d.due \in SUBSET RuleIDs /\ d.at \in 0 .. MaxTime /\ d.covers = {}
    <2>1. d \in Deliveries /\ Sound(d) /\ d.due \in SUBSET RuleIDs /\ d.at \in 0 .. MaxTime
      BY DeliveryIs
    <2> QED BY <1>1, <2>1 DEF Sound
  <1>3. /\ states \in [Keys -> State] /\ heard \in [Keys -> Kinds \cup {None}] /\ toldAt \in [Keys -> 0 .. MaxTime]
        /\ rules \in [RuleIDs -> Rule] /\ undone \in SUBSET Keys
    BY DEF Core, TypeOK
  <1>4. ASSUME NEW id \in d.due, WinsClaim(d, id),
               states' = ClaimAlertNotification(states, KeyOf(id, d.ev), d.at),
               Replace(r, d, {Mailing(d, id)}), WonFiring(KeyOf(id, d.ev), d.at), UNCHANGED rules
        PROVE  Kept
    <2>1. PICK key : key = KeyOf(id, d.ev)
      OBVIOUS
    <2>2. PICK at : at = d.at
      OBVIOUS
    <2>3. key \in Keys /\ at \in 1 .. MaxTime
      <3>1. d.due # {} /\ id \in RuleIDs
        BY <1>2, <1>4
      <3>2. d.at # 0 /\ d.ev.unit # "" /\ d.ev.host # None /\ d.ev \in Events
        BY <1>2, <3>1 DEF Sound, Deliveries
      <3>3. d.ev.host \in Hosts /\ d.ev.unit \in Units \cup {""}
        BY <3>2 DEF Events
      <3>4. at \in 1 .. MaxTime
        <4>1. at \in 0 .. MaxTime /\ at # 0
          BY <1>2, <2>2, <3>2
        <4> QED BY ONLY <4>1, Bounds
      <3> QED BY <2>1, <3>1, <3>3, <3>4 DEF KeyOf, Keys
    <2>4. /\ states' \in [Keys -> State] /\ states'[key].firing /\ states'[key].lastNotified = at
          /\ \A y \in Keys \ {key} : states'[y] = states[y]
      <3>1. states' = ClaimAlertNotification(states, key, at)
        BY <1>4, <2>1, <2>2
      <3> QED BY ONLY <1>3, <2>3, <3>1, ClaimedRow
    <2>5. /\ owed' = owed \cup {<<key, "firing", at>>}
          /\ heard' = [heard EXCEPT ![key] = "firing"] /\ toldAt' = [toldAt EXCEPT ![key] = at]
          /\ undone' = undone \ {key} /\ UNCHANGED <<unstamped, outlived>>
      BY <1>4, <2>1, <2>2 DEF WonFiring
    <2>6. /\ heard' \in [Keys -> Kinds \cup {None}] /\ toldAt' \in [Keys -> 0 .. MaxTime]
          /\ heard'[key] = "firing" /\ toldAt'[key] = at
          /\ undone' \in SUBSET Keys /\ key \notin undone'
          /\ \A y \in Keys \ {key} :
                heard'[y] = heard[y] /\ toldAt'[y] = toldAt[y] /\ (y \in undone' <=> y \in undone)
      <3>1. "firing" \in Kinds \cup {None} /\ at \in 0 .. MaxTime
        BY <1>2, <2>2 DEF Kinds
      <3> QED BY ONLY <1>3, <2>3, <2>5, <3>1
    <2>7. KeyMoves(key)
      <3>1. states[key].lastNotified = 0 \/ states[key].lastNotified <= at - Cooldown
        BY <1>4, <2>1, <2>2 DEF WinsClaim, Claimable
      <3> QED BY ONLY <2>4, <2>6, <3>1 DEF KeyMoves, ClaimedKey
    <2>8. \A y \in Keys \ {key} : SameKey(y)
      BY <2>4, <2>6 DEF SameKey
    <2>9. WonKey(key, d.ev.kind, d.at)
      BY <1>1, <2>2, <2>4, <2>5, <2>6, <2>7, <2>8 DEF WonKey
    <2>10. UNCHANGED <<Elsewhere, rules, inbox, unrecorded, tab>>
      BY <1>1, <1>4
    <2> QED BY ONLY Core, r \in Replicas, d \in deliveries[r], id \in d.due, <1>1, <1>4, <2>1, <2>9, <2>10, WonKeeps
  <1>5. ASSUME NEW id \in d.due, Replace(r, d, Onward(d, d.at, d.due \ {id})), UNCHANGED <<states, rules, told>>
        PROVE  Kept
    <2>1. UNCHANGED <<Elsewhere, rules, states, inbox, unrecorded, tab, told>>
      BY <1>1, <1>5
    <2> QED BY ONLY Core, r \in Replicas, d \in deliveries[r], id \in d.due, <1>1, <1>5, <2>1, PassedOver
  <1>6. ASSUME Skip(d, d.due), Replace(r, d, {}), UNCHANGED <<states, told>>
        PROVE  Kept
    <2>1. RulesStand
      <3>1. PICK yes \in BOOLEAN : yes = TRUE
        OBVIOUS
      <3>2. PICK stored : rules' = [id \in RuleIDs |-> RecordDelivery(rules, id, yes, id \in stored)[id]]
        BY <1>6, <3>1, Zenon DEF Skip
      <3>3. ASSUME NEW id \in RuleIDs
            PROVE  rules'[id] \in Rule /\ rules'[id].condition = rules[id].condition /\ rules'[id].row = rules[id].row
        <4>1. PICK written : written = (id \in stored)
          OBVIOUS
        <4>2. PICK ws : ws = RecordDelivery(rules, id, yes, written)
          OBVIOUS
        <4>3. rules'[id] = ws[id] /\ written \in BOOLEAN
          BY <3>2, <4>1, <4>2
        <4>4. ws \in [RuleIDs -> Rule] /\ ws[id].row = rules[id].row /\ ws[id].condition = rules[id].condition
          BY ONLY <1>3, id \in RuleIDs, yes \in BOOLEAN, <4>2, <4>3, RecordedRules
        <4> QED BY <4>3, <4>4
      <3>4. rules' \in [RuleIDs -> Rule]
        BY <3>2, <3>3
      <3> QED BY <3>3, <3>4 DEF RulesStand, IsRule
    <2>2. BooksMove /\ InboxMoves
      <3>1. /\ UNCHANGED <<states, heard, toldAt, undone, outlived>> /\ UNCHANGED <<inbox, unrecorded, tab>>
            /\ owed' \subseteq owed /\ unstamped' \subseteq Notifications
        BY <1>1, <1>6 DEF told, Core, TypeOK
      <3> QED BY <2>1, <3>1, NothingTold, NothingRecorded
    <2>3. HandsOver(d, {})
      <3>1. unstamped \subseteq unstamped' /\ \A o \in owed' : o \in owed /\ o \notin d.covers
        BY <1>2, <1>6 DEF told
      <3> QED BY <3>1, Ends
    <2>4. UNCHANGED Elsewhere
      BY <1>1
    <2> QED BY <1>6, <2>2, <2>3, <2>4, DeliveryKeeps
  <1> QED BY <1>1, <1>4, <1>5, <1>6

\* A recovery is sent where the flag was still set, and clears it (routeRecoveryToRules).
LEMMA RecoveriesKeep ==
    ASSUME Core, NEW r \in Replicas, RouteRecoveryToRules(r)
    PROVE  Kept
  <1>1. PICK d \in deliveries[r] :
            /\ d.pc = "rules" /\ d.ev.kind = "recovery"
            /\ \/ \E id \in d.due :
                    /\ Releasable(states, KeyOf(id, d.ev))
                    /\ states' = ReleaseAlertFiring(states, KeyOf(id, d.ev))
                    /\ Replace(r, d, {Mailing(d, id)})
                    /\ WonRecovery(KeyOf(id, d.ev), d.at)
               \/ \E id \in d.due : Replace(r, d, Onward(d, d.at, d.due \ {id})) /\ UNCHANGED <<states, told>>
               \/ Replace(r, d, {}) /\ UNCHANGED <<states, told>>
            /\ UNCHANGED <<Elsewhere, rules, inbox, unrecorded, tab>>
    BY DEF RouteRecoveryToRules
  <1>2. d \in Deliveries /\ Sound(d) /\ d.due \in SUBSET RuleIDs /\ d.at \in 0 .. MaxTime /\ d.covers = {}
    <2>1. d \in Deliveries /\ Sound(d) /\ d.due \in SUBSET RuleIDs /\ d.at \in 0 .. MaxTime
      BY DeliveryIs
    <2> QED BY <1>1, <2>1 DEF Sound
  <1>3. /\ states \in [Keys -> State] /\ heard \in [Keys -> Kinds \cup {None}] /\ toldAt \in [Keys -> 0 .. MaxTime]
        /\ undone \in SUBSET Keys
        /\ \A key \in Keys : states[key].firing => heard[key] = "firing"
    BY DEF Core, TypeOK, Story, FiringWasTold
  <1>4. ASSUME NEW id \in d.due, Releasable(states, KeyOf(id, d.ev)),
               states' = ReleaseAlertFiring(states, KeyOf(id, d.ev)),
               Replace(r, d, {Mailing(d, id)}), WonRecovery(KeyOf(id, d.ev), d.at)
        PROVE  Kept
    <2>1. PICK key : key = KeyOf(id, d.ev)
      OBVIOUS
    <2>2. key \in Keys
      <3>1. d.due # {} /\ id \in RuleIDs
        BY <1>2, <1>4
      <3>2. d.ev.unit # "" /\ d.ev.host # None /\ d.ev \in Events
        BY <1>2, <3>1 DEF Sound, Deliveries
      <3>3. d.ev.host \in Hosts /\ d.ev.unit \in Units \cup {""}
        BY <3>2 DEF Events
      <3> QED BY <2>1, <3>1, <3>3 DEF KeyOf, Keys
    <2>3. /\ states' \in [Keys -> State] /\ ~states'[key].firing /\ states'[key].since = 0
          /\ states'[key].lastNotified = states[key].lastNotified
          /\ \A y \in Keys \ {key} : states'[y] = states[y]
      <3>1. states' = ReleaseAlertFiring(states, key)
        BY <1>4, <2>1
      <3> QED BY ONLY <1>3, <2>2, <3>1, ReleasedRow
    <2>4. /\ owed' = owed \cup {<<key, "recovery", d.at>>}
          /\ heard' = [heard EXCEPT ![key] = "recovery"] /\ UNCHANGED <<unstamped, toldAt, undone, outlived>>
      BY <1>4, <2>1 DEF WonRecovery
    <2>5. /\ heard' \in [Keys -> Kinds \cup {None}] /\ heard'[key] = "recovery"
          /\ \A y \in Keys \ {key} : heard'[y] = heard[y] /\ toldAt'[y] = toldAt[y] /\ undone' = undone
      <3>1. "recovery" \in Kinds \cup {None}
        BY DEF Kinds
      <3> QED BY ONLY <1>3, <2>2, <2>4, <3>1
    <2>6. states[key].firing
      BY <1>4, <2>1 DEF Releasable
    <2>7. KeyMoves(key) /\ heard[key] = "firing"
      BY ONLY <1>3, <2>2, <2>3, <2>4, <2>5, <2>6 DEF KeyMoves, ReleasedKey
    <2>8. \A y \in Keys \ {key} : SameKey(y)
      BY <2>3, <2>5 DEF SameKey
    <2>9. WonKey(key, d.ev.kind, d.at)
      BY <1>1, <1>3, <2>3, <2>4, <2>5, <2>7, <2>8 DEF WonKey
    <2>10. UNCHANGED <<Elsewhere, rules, inbox, unrecorded, tab>>
      BY <1>1
    <2> QED BY ONLY Core, r \in Replicas, d \in deliveries[r], id \in d.due, <1>1, <1>4, <2>1, <2>9, <2>10, WonKeeps
  <1>5. ASSUME NEW id \in d.due, Replace(r, d, Onward(d, d.at, d.due \ {id})), UNCHANGED <<states, told>>
        PROVE  Kept
    <2>1. UNCHANGED <<Elsewhere, rules, states, inbox, unrecorded, tab, told>>
      BY <1>1, <1>5
    <2> QED BY ONLY Core, r \in Replicas, d \in deliveries[r], id \in d.due, <1>1, <1>5, <2>1, PassedOver
  <1>6. ASSUME Replace(r, d, {}), UNCHANGED <<states, told>>
        PROVE  Kept
    <2>1. BooksMove /\ InboxMoves
      <3>1. UNCHANGED <<rules, states, told>> /\ UNCHANGED <<inbox, unrecorded, tab>>
        BY <1>1, <1>6
      <3> QED BY <3>1, BooksStay, NothingRecorded
    <2>2. HandsOver(d, {})
      <3>1. unstamped \subseteq unstamped' /\ \A o \in owed' : o \in owed /\ o \notin d.covers
        BY <1>2, <1>6 DEF told
      <3> QED BY <3>1, Ends
    <2>3. UNCHANGED Elsewhere
      BY <1>1
    <2> QED BY <1>6, <2>1, <2>2, <2>3, DeliveryKeeps
  <1> QED BY <1>1, <1>4, <1>5, <1>6

\* What a mail covers stays with it until it went out, or the rule shows that it did not (mailRule).
LEMMA MailKeeps ==
    ASSUME Core, NEW r \in Replicas, MailRule(r)
    PROVE  Kept
  <1>1. PICK d \in deliveries[r] :
            /\ d.pc = "mail"
            /\ \/ Replace(r, d, {[d EXCEPT !.tries = @ + 1]}) /\ UNCHANGED <<rules, owed, unstamped>>
               \/ \E failed \in BOOLEAN, written \in BOOLEAN :
                    /\ rules' = RecordDelivery(rules, d.rule, failed, written)
                    /\ owed' = owed \ (IF failed => ShowsFailure(rules', d.rule, written) THEN d.covers ELSE {})
                    /\ unstamped' = IF written THEN unstamped
                                    ELSE unstamped \cup IF failed THEN d.covers ELSE {}
                    /\ Replace(r, d, Onward(d, d.at, d.due))
            /\ UNCHANGED <<Elsewhere, states, inbox, unrecorded, tab, heard, toldAt, undone, outlived>>
    BY DEF MailRule, Settle, LeaveUnstamped, Written
  <1>2. /\ d \in Deliveries /\ Sound(d) /\ d.due \in SUBSET RuleIDs /\ d.at \in 0 .. MaxTime
        /\ d.covers \in SUBSET Notifications
    BY DeliveryIs
  <1>3. d.rule \in RuleIDs /\ (d.due # {} => d.ev.unit # "" /\ d.at # 0)
    BY <1>1, <1>2 DEF Sound
  <1>4. InboxMoves /\ Announced \subseteq Announced' /\ UNCHANGED Elsewhere
    BY <1>1, NothingRecorded DEF InboxMoves
  <1>5. ASSUME Replace(r, d, {[d EXCEPT !.tries = @ + 1]}), UNCHANGED <<rules, owed, unstamped>>
        PROVE  Kept
    <2>1. PICK x : x = [d EXCEPT !.tries = @ + 1]
      OBVIOUS
    <2>2. /\ x \in Deliveries /\ x.ev = d.ev /\ x.pc = d.pc /\ x.covers = d.covers /\ x.due = d.due /\ x.at = d.at
          /\ x.rule = d.rule
      BY <1>2, <2>1, RetryIs
    <2>3. BooksMove
      <3>1. UNCHANGED <<rules, states, told>>
        BY <1>1, <1>5 DEF told
      <3> QED BY <3>1, BooksStay
    <2>4. HandsOver(d, {x})
      <3>1. /\ owed' \subseteq owed /\ unstamped \subseteq unstamped'
            /\ (x.pc # "mail" => d.pc # "mail") /\ (x.pc = "mail" => d.pc = "mail")
        BY <1>5, <2>2
      <3> QED BY <1>2, <1>4, <2>2, <3>1, GoesOn
    <2>5. Replace(r, d, {x})
      BY <1>5, <2>1
    <2> QED BY <1>4, <2>3, <2>4, <2>5, DeliveryKeeps
  <1>6. ASSUME NEW failed \in BOOLEAN, NEW written \in BOOLEAN,
               rules' = RecordDelivery(rules, d.rule, failed, written),
               owed' = owed \ (IF failed => ShowsFailure(rules', d.rule, written) THEN d.covers ELSE {}),
               unstamped' = IF written THEN unstamped ELSE unstamped \cup IF failed THEN d.covers ELSE {},
               Replace(r, d, Onward(d, d.at, d.due))
        PROVE  Kept
    <2>1. rules \in [RuleIDs -> Rule]
      BY DEF Core, TypeOK
    <2>2. /\ rules' \in [RuleIDs -> Rule]
          /\ \A x \in RuleIDs : rules'[x].row = rules[x].row /\ rules'[x].condition = rules[x].condition
          /\ IsRule(rules'[d.rule]) /\ written => rules'[d.rule].failed = failed
      <3>1. PICK id : id = d.rule
        OBVIOUS
      <3>2. id \in RuleIDs /\ rules' = RecordDelivery(rules, id, failed, written)
        BY <1>3, <1>6, <3>1
      <3>3. PICK ws : ws = rules'
        OBVIOUS
      <3>4. /\ ws \in [RuleIDs -> Rule]
            /\ \A x \in RuleIDs : ws[x].row = rules[x].row /\ ws[x].condition = rules[x].condition
            /\ IsRule(ws[id]) /\ written => ws[id].failed = failed
        BY ONLY <2>1, <3>2, <3>3, failed \in BOOLEAN, written \in BOOLEAN, RecordedRules
      <3> QED BY ONLY <3>1, <3>3, <3>4
    <2>3. RulesStand
      BY <2>2 DEF RulesStand, IsRule
    <2>4. failed /\ written => ShowsFailure(rules', d.rule, written)
      BY <2>2 DEF ShowsFailure
    <2>5. /\ owed' \subseteq owed /\ unstamped \subseteq unstamped' /\ unstamped' \subseteq unstamped \cup d.covers
          /\ \A o \in owed' : (o \in owed /\ o \notin d.covers) \/ o \in unstamped'
      BY <1>6, <2>4
    <2>6. BooksMove
      <3>1. /\ UNCHANGED <<states, heard, toldAt, undone, outlived>>
            /\ owed' \subseteq owed /\ unstamped' \subseteq Notifications
        BY <1>1, <1>2, <2>5 DEF Core, TypeOK
      <3> QED BY <2>3, <3>1, NothingTold
    <2>7. HandsOver(d, Onward(d, d.at, d.due))
      <3> QED BY <1>2, <1>3, <1>4, <2>5, GoesToRules
    <2> QED BY <1>4, <1>6, <2>6, <2>7, DeliveryKeeps
  <1> QED BY <1>1, <1>5, <1>6

-----------------------------------------------------------------------------
(* A host reports *)

\* No recovery is found for a unit that the report's own host knows as failed (detectUnitTransitions).
LEMMA RecoveringIs ==
    ASSUME NEW before, NEW doc, doc.listed \subseteq Present(doc.units), NEW u \in Recovering(before, doc)
    PROVE  u \in Units /\ doc.units[u] # "failed"
  <1>1. /\ u \in Units
        /\ Shown(doc, u) = "active" \/ (Shown(doc, u) = "absent" /\ ~ServicesTruncated(doc))
    BY DEF Recovering
  <1>2. CASE Shown(doc, u) = "active"
    <2>1. doc.units[u] = "active"
      BY <1>2, Zenon DEF Shown
    <2> QED BY <1>1, <2>1
  <1>3. CASE Shown(doc, u) = "absent" /\ ~ServicesTruncated(doc)
    <2>1. doc.listed = Present(doc.units)
      BY <1>3, Zenon DEF ServicesTruncated
    <2>2. doc.units[u] = "absent"
      <3>1. CASE u \in doc.listed
        BY <1>3, <3>1, Zenon DEF Shown
      <3>2. CASE u \notin doc.listed
        BY <1>1, <2>1, <3>2 DEF Present
      <3> QED BY <3>1, <3>2
    <2> QED BY <1>1, <2>2
  <1> QED BY <1>1, <1>2, <1>3

\* The events of a report: finitely many, each about a unit of the host, and true of it.
LEMMA UnitEventsAre ==
    ASSUME NEW before, NEW doc, doc.listed \subseteq Present(doc.units), NEW h \in Hosts, NEW at \in 1 .. MaxTime,
           NEW E \in SUBSET UnitEvents(h, before, doc, at)
    PROVE  /\ E \subseteq Events /\ IsFiniteSet(E)
           /\ \A ev \in E : /\ ev.kind \in Kinds /\ ev.host = h /\ ev.host # None
                            /\ ev.kind = "recovery" => doc.units[ev.unit] # "failed"
  <1> DEFINE A == Failing(before, doc)
             B == Recovering(before, doc)
             f == [u \in A |-> Event("firing", h, u, at)]
             g == [u \in B |-> Event("recovery", h, u, at)]
  <1>1. A \subseteq Units /\ B \subseteq Units /\ \A u \in B : doc.units[u] # "failed"
    BY RecoveringIs DEF Failing
  <1>2. IsFiniteSet(A) /\ IsFiniteSet(B)
    BY <1>1, FleetAssumption, FS_Subset
  <1>3. E \subseteq {f[u] : u \in A} \cup {g[u] : u \in B}
    BY DEF UnitEvents
  <1>4. /\ \A u \in A : f[u] = [kind |-> "firing", host |-> h, unit |-> u, at |-> at]
        /\ \A u \in B : g[u] = [kind |-> "recovery", host |-> h, unit |-> u, at |-> at]
    BY DEF Event
  <1>5. DOMAIN f = A /\ f = [u \in A |-> f[u]] /\ DOMAIN g = B /\ g = [u \in B |-> g[u]]
    OBVIOUS
  <1> HIDE DEF A, B, f, g
  <1>6. IsFiniteSet({f[u] : u \in A}) /\ IsFiniteSet({g[u] : u \in B})
    BY <1>2, <1>5, ImageIsFinite
  <1>7. IsFiniteSet(E)
    <2>1. IsFiniteSet({f[u] : u \in A} \cup {g[u] : u \in B})
      BY <1>6, FS_Union
    <2> QED BY <1>3, <2>1, FS_Subset
  <1>8. ASSUME NEW ev \in E
        PROVE  /\ ev \in Events /\ ev.kind \in Kinds /\ ev.host = h /\ ev.host # None
               /\ ev.kind = "recovery" => doc.units[ev.unit] # "failed"
    <2>1. h # None
      BY FleetAssumption
    <2>2. CASE \E u \in A : ev = f[u]
      <3>1. PICK u \in A : ev = f[u]
        BY <2>2
      <3>2. ev = [kind |-> "firing", host |-> h, unit |-> u, at |-> at] /\ u \in Units
        BY <1>1, <1>4, <3>1
      <3> QED BY ONLY <2>1, <3>2, h \in Hosts, at \in 1 .. MaxTime DEF Events, Kinds
    <2>3. CASE \E u \in B : ev = g[u]
      <3>1. PICK u \in B : ev = g[u]
        BY <2>3
      <3>2. ev = [kind |-> "recovery", host |-> h, unit |-> u, at |-> at] /\ u \in Units
        BY <1>1, <1>4, <3>1
      <3>3. ev \in Events /\ ev.kind \in Kinds /\ ev.host = h /\ ev.unit = u
        BY ONLY <3>2, h \in Hosts, at \in 1 .. MaxTime DEF Events, Kinds
      <3>4. doc.units[u] # "failed"
        BY <1>1
      <3> QED BY <2>1, <3>3, <3>4, Zenon
    <2> QED BY <1>3, <2>2, <2>3
  <1> QED BY <1>7, <1>8

\* What a report emits is recorded before it is delivered, and delivered where there is room (emit, detach).
LEMMA ReportKeeps ==
    ASSUME Core, NEW r \in Replicas, NEW h \in Hosts, Report(r, h)
    PROVE  Kept
  <1> PICK facts \in FactsDocs, units \in [Units -> UnitStates] : \E listed \in SUBSET Present(units) :
            /\ h \in deployment.hosts /\ now < deployment.until /\ now' = now + 1
            /\ hosts' = [hosts EXCEPT ![h] = Reported(facts, units, listed)]
            /\ Emit(r, UnitEvents(h, hosts[h], Reported(facts, units, listed), now + 1))
            /\ UNCHANGED <<deployment, rules, states, pass, up, told>>
    BY DEF Report
  <1>1. PICK listed \in SUBSET Present(units) :
            /\ now < deployment.until /\ now' = now + 1
            /\ hosts' = [hosts EXCEPT ![h] = Reported(facts, units, listed)]
            /\ Emit(r, UnitEvents(h, hosts[h], Reported(facts, units, listed), now + 1))
            /\ UNCHANGED <<deployment, rules, states, pass, up, told>>
    OBVIOUS
  <1>2. PICK doc : doc = Reported(facts, units, listed)
    OBVIOUS
  <1>3. PICK before, at : before = hosts[h] /\ at = now + 1
    OBVIOUS
  <1>4. PICK emitted \in SUBSET UnitEvents(h, before, doc, at) :
            /\ Record(r, emitted)
            /\ \E started \in SUBSET emitted :
                /\ Cardinality(started) = Least(Cardinality(emitted), Room(r))
                /\ deliveries' = [deliveries EXCEPT ![r] = @ \cup {EventDelivery(ev) : ev \in started}]
    BY <1>1, <1>2, <1>3, Zenon DEF Emit
  <1>5. PICK started \in SUBSET emitted :
            /\ Cardinality(started) = Least(Cardinality(emitted), Room(r))
            /\ deliveries' = [deliveries EXCEPT ![r] = @ \cup {EventDelivery(ev) : ev \in started}]
    BY <1>4
  <1>6. TypeOK /\ Story /\ Bounded /\ AllSound /\ hosts \in [Hosts -> HostDoc] /\ now \in 1 .. MaxTime
    BY DEF Core, TypeOK, Bounded
  <1>7. at \in 1 .. MaxTime /\ now' = at /\ UNCHANGED <<deployment, rules, states, pass, up, told>>
    <2>1. deployment.until \in 1 .. MaxTime
      BY <1>6, FleetAssumption DEF TypeOK
    <2> QED BY ONLY <1>1, <1>3, <1>6, <2>1, Bounds
  <1>8. doc \in HostDoc /\ doc.units = units /\ doc.listed = listed /\ listed \subseteq Present(doc.units)
    <2>1. facts.backlog \in Nat /\ facts.reboot \in BOOLEAN
      BY FleetAssumption
    <2>2. listed \subseteq Units
      BY DEF Present
    <2>3. now + 1 \in 0 .. MaxTime /\ 1 \in 0 .. MaxTime
      BY <1>3, <1>7, Bounds
    <2> QED BY <1>2, <1>3, <2>1, <2>2, <2>3 DEF HostDoc, Reported
  <1>9. hosts' \in [Hosts -> HostDoc] /\ hosts'[h] = doc
    BY <1>1, <1>2, <1>6, <1>8
  <1>10. /\ emitted \subseteq Events /\ IsFiniteSet(emitted)
         /\ \A ev \in emitted : /\ ev.kind \in Kinds /\ ev.host = h /\ ev.host # None
                                /\ ev.kind = "recovery" => doc.units[ev.unit] # "failed"
    BY ONLY <1>4, <1>7, <1>8, h \in Hosts, UnitEventsAre
  <1>11. /\ inbox' \subseteq Replicas \X Events /\ unrecorded' \subseteq Replicas \X Events /\ tab' \in Tabs
         /\ Announced \subseteq Announced'
         /\ \A ev \in emitted : <<r, ev>> \in Announced'
         /\ \A row \in Announced' \ Announced : row[2] \in emitted
         /\ TabMissesNothing' /\ TabIsRegistered'
    <2>1. emitted \in SUBSET Events /\ Record(r, emitted)
      BY <1>4, <1>10
    <2> QED BY <2>1, RecordKeeps DEF Core
  <1>12. RowsAreTrue
    <2> SUFFICES ASSUME NEW row \in Announced' \ Announced, row[2].kind = "recovery"
                 PROVE  hosts'[row[2].host].units[row[2].unit] # "failed"
      BY DEF RowsAreTrue
    <2>1. PICK ev \in emitted : row[2] = ev
      BY <1>11
    <2>2. ev.host = h /\ doc.units[ev.unit] # "failed"
      BY <1>10, <2>1
    <2> QED BY <1>9, <2>1, <2>2, Zenon
  <1> DEFINE f == [ev \in started |-> EventDelivery(ev)]
             S == {f[ev] : ev \in started}
  <1>13. DOMAIN f = started /\ f = [ev \in started |-> f[ev]] /\ \A ev \in started : f[ev] = EventDelivery(ev)
    OBVIOUS
  <1>14. deliveries' = [deliveries EXCEPT ![r] = @ \cup S]
    BY <1>5
  <1> HIDE DEF f
  <1>15. IsFiniteSet(S) /\ Cardinality(S) <= Room(r)
    <2>1. IsFiniteSet(started) /\ Cardinality(started) \in Nat /\ Cardinality(emitted) \in Nat
      BY <1>10, FS_Subset, FS_CardinalityType
    <2>2. IsFiniteSet(S) /\ Cardinality(S) <= Cardinality(started) /\ Cardinality(S) \in Nat
      BY <1>13, <2>1, ImageIsFinite, FS_CardinalityType
    <2>3. Room(r) \in Int
      <3>1. IsFiniteSet(deliveries[r]) /\ Cardinality(deliveries[r]) \in Nat
        BY <1>6, FS_CardinalityType DEF Bounded
      <3> QED BY <3>1, Bounds DEF Room, InFlight
    <2>4. Cardinality(started) <= Room(r)
      BY ONLY <1>5, <2>1, <2>3 DEF Least
    <2> QED BY ONLY <2>1, <2>2, <2>3, <2>4
  <1> HIDE DEF S
  <1>16. ASSUME NEW x \in S PROVE x \in Deliveries /\ Sound(x)'
    <2>1. PICK ev \in started : x = EventDelivery(ev)
      BY <1>13, <1>16 DEF S
    <2>2. <<r, ev>> \in Announced' /\ ev \in Events /\ ev.kind \in Kinds /\ ev.host # None
      BY <1>10, <1>11
    <2>3. \E row \in Announced' : row[2] = ev
      <3>1. <<r, ev>>[2] = ev
        OBVIOUS
      <3> QED BY <2>2, <3>1
    <2>4. ev.unit # "" => ev.host # None
      BY <2>2
    <2> QED BY ONLY <2>1, <2>2, <2>3, <2>4, PostIsSound
  <1>17. /\ Bounded'
         /\ deliveries'[r] = deliveries[r] \cup S
         /\ \A q \in Replicas \ {r} : deliveries'[q] = deliveries[q]
         /\ Stopped(r) => S = {}
    <2>1. up \in [Replicas -> {"running", "stopping", "draining", "cancelled", "stopped"}]
      BY <1>6 DEF TypeOK
    <2>2. S \in SUBSET Deliveries
      BY <1>16
    <2> QED BY <1>6, <1>14, <1>15, <2>1, <2>2, StartKeeps
  <1>18. AllSound' /\ DrainedBeforeExit'
    <2>1. ASSUME NEW q \in Replicas, NEW e \in deliveries'[q] PROVE Sound(e)'
      <3>1. CASE e \in deliveries[q]
        <4>1. Sound(e)
          BY <1>6, <3>1 DEF AllSound
        <4> QED BY <1>11, <4>1, SoundStays
      <3>2. CASE e \notin deliveries[q]
        <4>1. e \in S
          BY <1>17, <2>1, <3>2
        <4> QED BY <1>16, <4>1
      <3> QED BY <3>1, <3>2
    <2>2. DrainedBeforeExit'
      BY <1>7, <1>17 DEF Core, DrainedBeforeExit, Stopped
    <2> QED BY <2>1, <2>2 DEF AllSound
  <1>19. NotDropped'
    <2> SUFFICES ASSUME NEW o \in owed', o \notin unstamped' PROVE \E q \in Replicas : o \in InHand(q)'
      BY DEF NotDropped
    <2>1. PICK q \in Replicas : o \in InHand(q)
      BY <1>7 DEF Core, NotDropped, told
    <2>2. (\E d \in deliveries'[q] : o \in d.covers) \/ InPass(pass'[q], o)
      <3>1. CASE \E d \in deliveries[q] : o \in d.covers
        BY <1>17, <3>1
      <3>2. CASE InPass(pass[q], o)
        BY <1>7, <3>2
      <3> QED BY <2>1, <3>1, <3>2, InHandIs
    <2> QED BY <2>2, InHandIs
  <1>20. Story' /\ Spaced
    <2>1. BooksMove
      <3>1. UNCHANGED <<rules, states, told>>
        BY <1>7
      <3> QED BY <3>1, BooksStay
    <2>2. UNCHANGED <<deployment, pass>> /\ PassesMayGoOn
      BY <1>7 DEF PassesMayGoOn, told
    <2> QED BY <1>6, <2>1, <2>2, StoryStays DEF BooksMove
  <1>21. TypeOK'
    <2>1. /\ UNCHANGED <<deployment, rules, states, pass, up, owed, unstamped, heard, toldAt, undone, outlived>>
          /\ now' \in 1 .. MaxTime
      BY <1>7 DEF told
    <2>2. deliveries' \in [Replicas -> SUBSET Deliveries]
          /\ \A q \in Replicas : IsFiniteSet(deliveries'[q]) /\ InFlight(q)' <= MaxOutboundInFlight
      BY <1>17 DEF Bounded
    <2> QED BY ONLY <1>6, <1>9, <1>11, <2>1, <2>2, Zenon DEF TypeOK
  <1>22. EndsWhatWasTold
    BY <1>7 DEF EndsWhatWasTold, told
  <1> QED BY <1>11, <1>12, <1>18, <1>19, <1>20, <1>21, <1>22 DEF Kept, Core

-----------------------------------------------------------------------------
(* The specification *)

LEMMA InitKeeps ==
    ASSUME Init
    PROVE  Core
  <1>1. /\ deployment \in Deployments /\ now = 1 /\ Live \subseteq Replicas /\ deployment.condition \in Conditions
    BY FleetAssumption DEF Init, Live
  <1>2. hosts \in [Hosts -> HostDoc]
    <2>1. 0 \in 0 .. MaxTime /\ 1 \in 0 .. MaxTime
      BY ONLY Bounds
    <2>2. PICK seen, unseen :
             /\ seen = [lastSeen |-> 1, revoked |-> FALSE, facts |-> [NoFacts EXCEPT !.known = TRUE],
                        units |-> [u \in Units |-> "active"], listed |-> Units]
             /\ unseen = [lastSeen |-> 0, revoked |-> FALSE, facts |-> NoFacts,
                          units |-> [u \in Units |-> "absent"], listed |-> {}]
      OBVIOUS
    <2>3. seen \in HostDoc /\ unseen \in HostDoc
      BY ONLY <2>1, <2>2 DEF HostDoc, NoFacts, UnitStates
    <2>4. \/ hosts = [h \in Hosts |-> seen]
          \/ hosts = [h \in Hosts |-> unseen]
      BY <2>2, Zenon DEF Init
    <2> QED BY ONLY <2>3, <2>4
  <1>3. rules \in [RuleIDs -> Rule] /\ \A id \in RuleIDs : rules[id].condition = deployment.condition
    <2>1. PICK rule : rule = NoRule
      OBVIOUS
    <2>2. rule \in Rule /\ rule.condition = deployment.condition
      BY <1>1, <2>1, AnyThreshold DEF NoRule, Rule
    <2>3. rules = [id \in RuleIDs |-> rule]
      BY <2>1 DEF Init
    <2> QED BY ONLY <2>2, <2>3
  <1>4. /\ states = [key \in Keys |-> QuietState] /\ heard = [key \in Keys |-> None] /\ toldAt = [key \in Keys |-> 0]
        /\ QuietState \in State /\ 0 \in 0 .. MaxTime
    BY Bounds DEF Init, QuietState, State
  <1>5. pass = [r \in Replicas |-> Resting] /\ Resting \in Passes /\ Resting.pc = "idle"
    BY DEF Init, Passes, Resting
  <1>6. deliveries = [r \in Replicas |-> {}] /\ IsFiniteSet({}) /\ Cardinality({}) = 0
    BY FS_EmptySet DEF Init
  <1>7. up \in [Replicas -> {"running", "stopping", "draining", "cancelled", "stopped"}]
    BY DEF Init
  <1>8. /\ inbox = {} /\ unrecorded = {} /\ tab = Closed
        /\ owed = {} /\ unstamped = {} /\ undone = {} /\ outlived = {}
        /\ Closed \in Tabs /\ Closed.phase = "closed"
    BY DEF Init, Closed, Tabs
  <1>9. TypeOK
    <2>1. 0 <= MaxOutboundInFlight /\ 1 \in 1 .. MaxTime
      BY Bounds
    <2>2. \A r \in Replicas : IsFiniteSet(deliveries[r]) /\ InFlight(r) <= MaxOutboundInFlight
      BY <1>6, <2>1 DEF InFlight
    <2>3. states \in [Keys -> State] /\ heard \in [Keys -> Kinds \cup {None}] /\ toldAt \in [Keys -> 0 .. MaxTime]
      BY <1>4
    <2>4. pass \in [Replicas -> Passes] /\ deliveries \in [Replicas -> SUBSET Deliveries]
      BY <1>5, <1>6
    <2> QED BY <1>1, <1>2, <1>3, <1>7, <1>8, <2>1, <2>2, <2>3, <2>4 DEF TypeOK
  <1>10. AllSound /\ DrainedBeforeExit
    BY <1>6 DEF AllSound, DrainedBeforeExit
  <1>11. NotDropped /\ TabMissesNothing /\ TabIsRegistered
    BY <1>8 DEF NotDropped, TabMissesNothing, TabIsRegistered
  <1>12. Story
    <2>1. PassFollowsRules
      BY <1>3, <1>5 DEF PassFollowsRules
    <2>2. /\ \A key \in Keys : /\ ~states[key].firing /\ states[key].since = 0 /\ states[key].lastNotified = 0
                               /\ heard[key] = None /\ toldAt[key] = 0
          /\ \A r \in Replicas : pass[r].pc = "idle"
      BY <1>4, <1>5 DEF QuietState
    <2>3. FiringWasTold /\ TimedWhileFiring /\ StampIsKept /\ HeldIsCurrent /\ UndoneBySeveral
      BY ONLY <1>8, <2>2 DEF FiringWasTold, TimedWhileFiring, StampIsKept, HeldIsCurrent, UndoneBySeveral
    <2>4. StoryHasAnEnd
      BY ONLY <2>2 DEF StoryHasAnEnd, None
    <2> QED BY <2>1, <2>3, <2>4 DEF Story, Books
  <1> QED BY <1>9, <1>10, <1>11, <1>12 DEF Core

LEMMA StutterKeeps ==
    ASSUME Core, UNCHANGED vars
    PROVE  Kept
  <1>1. /\ UNCHANGED <<deployment, now, hosts, rules, states, pass, deliveries, up, inbox, unrecorded, tab>>
        /\ UNCHANGED <<owed, unstamped, heard, toldAt, undone, outlived>> /\ TypeOK
    BY DEF vars, Core
  <1>2. TypeOK' /\ TabMissesNothing' /\ TabIsRegistered' /\ DrainedBeforeExit'
    BY <1>1 DEF Core, TypeOK, InFlight, TabMissesNothing, TabIsRegistered, DrainedBeforeExit, Stopped
  <1>3. RulesStand /\ HostRowsStay /\ PassesMayGoOn /\ \A key \in Keys : SameKey(key)
    BY <1>1 DEF RulesStand, HostRowsStay, PassesMayGoOn, SameKey, TypeOK
  <1> QED BY <1>1, <1>2, <1>3, NothingToldKeeps

LEMMA NextKeeps ==
    ASSUME Core, [Next]_vars
    PROVE  Kept
  <1>1. ASSUME NEW r \in Replicas, Evaluator(r) PROVE Kept
    BY <1>1, StartPassKeeps, ReadHostsKeeps, ReadStatesKeeps, PassFailsKeeps, EvaluateKeeps, NotifyKeeps, Zenon
    DEF Evaluator
  <1>2. ASSUME NEW r \in Replicas, Delivery(r) PROVE Kept
    BY <1>2, PostKeeps, RouteKeeps, RulesKeep, RecoveriesKeep, MailKeeps, Zenon DEF Delivery
  <1>3. ASSUME NEW r \in Replicas, Subscribe(r) \/ Stop(r) \/ CloseOutbound(r) \/ Drain(r) PROVE Kept
    BY <1>3, TabKeeps, OutsideActs, Zenon
  <1>4. ASSUME NEW r \in Replicas, NEW h \in Hosts, Report(r, h) PROVE Kept
    BY <1>4, ReportKeeps, Zenon
  <1>5. ASSUME NEW h \in Hosts, RevokeHost(h) PROVE Kept
    BY <1>5, OutsideActs, Zenon
  <1>6. ASSUME NEW id \in RuleIDs, HandleCreateAlertRule(id) \/ HandleUpdateAlertRule(id) \/ HandleDeleteAlertRule(id)
        PROVE  Kept
    BY <1>6, CreateKeeps, UpdateKeeps, DeleteKeeps, Zenon
  <1>7. CASE ReadInbox \/ ReadStream \/ CloseStream
    BY <1>7, TabKeeps, Zenon
  <1>8. CASE Tick
    BY <1>8, OutsideActs, Zenon
  <1>9. CASE UNCHANGED vars
    BY <1>9, StutterKeeps
  <1> QED BY <1>1, <1>2, <1>3, <1>4, <1>5, <1>6, <1>7, <1>8, <1>9, Zenon DEF Next

\* Everything a step keeps is kept throughout, and every step keeps it.
LEMMA CoreHolds == Spec => []Core /\ [][Kept]_vars
  <1>1. Init => Core
    BY InitKeeps
  <1>2. Core /\ [Next]_vars => Core'
    <2>1. Kept => Core'
      BY DEF Kept
    <2> QED BY <2>1, NextKeeps
  <1>3. Core /\ [Next]_vars => [Kept]_vars
    BY NextKeeps
  <1> QED BY <1>1, <1>2, <1>3, PTL DEF Spec

-----------------------------------------------------------------------------
(* Theorems *)

\* Whoever wins the right to notify keeps it in hand, through the pass, the delivery and its retries, until the mail
\* went out or the rule shows that it did not, for any number of replicas that race for it and whatever the operator
\* does meanwhile (notifyAlert, mailRule, recordDelivery).  It is dropped only where the store refused the write that
\* was to show the failure, and by a process that exited in the middle of a pass that had outlived its grace: the
\* deliveries of a process that has exited are none, and a pass it still held was going when they were closed.
THEOREM NoSilentLossHolds == Spec => []NoSilentLoss
  <1>1. Core => NoSilentLoss
    <2> SUFFICES ASSUME Core, NEW o \in owed, o \notin unstamped
                 PROVE  \/ \E r \in Replicas : ~Stopped(r) /\ o \in Carried(r) \cup Claimed(r)
                        \/ o \in LostAtExit
      BY DEF NoSilentLoss
    <2>1. PICK r \in Replicas : o \in Carried(r) \cup Claimed(r)
      BY DEF Core, NotDropped, InHand
    <2>2. CASE ~Stopped(r)
      BY <2>1, <2>2
    <2>3. CASE Stopped(r)
      <3>1. Carried(r) = {}
        BY <2>3 DEF Core, DrainedBeforeExit, Carried
      <3>2. o \in Claimed(r)
        BY <2>1, <3>1
      <3>3. pass[r].pc # "idle"
        BY <3>2 DEF Claimed
      <3>4. r \in outlived
        BY <2>3, <3>3 DEF Core, Story, PassFollowsRules, Stopped, Open
      <3> HIDE DEF Claimed
      <3> QED BY <2>3, <3>2, <3>4 DEF LostAtExit
    <2> QED BY <2>2, <2>3
  <1> QED BY <1>1, CoreHolds, PTL

\* A recovery ends a firing that somebody was told about, and none is announced for a unit that is still failing
\* (evaluateRule's release, routeRecoveryToRules, detectUnitTransitions).
THEOREM RecoveriesAreTrueHolds == Spec => RecoveriesAreTrue
  <1>1. Kept => /\ \A o \in owed' \ owed : o[2] = "recovery" => heard[o[1]] = "firing"
                /\ \A row \in Announced' \ Announced :
                     row[2].kind = "recovery" /\ row[2].unit # "" => hosts'[row[2].host].units[row[2].unit] # "failed"
    BY DEF Kept, EndsWhatWasTold, RowsAreTrue
  <1> QED BY <1>1, CoreHolds, PTL DEF RecoveriesAreTrue

\* The store, the passes, the deliveries, the inbox and an open tab stay of one mind, for any number of replicas on any
\* condition: what AlertsInv says, part by part, with the keys that a stale write undid and the rows that the store
\* refused named where they make a difference; and no key is undone where one evaluator keeps the books.
THEOREM AlertsInvHolds == Spec => []AlertsInv
  <1>1. Core => AlertsInv
    BY SoundIs DEF Core, Story, Books, AlertsInv
  <1> QED BY <1>1, CoreHolds, PTL

\* Two notifications of one key are a cooldown apart, however many replicas raced for them and however often the
\* condition came and went (ClaimAlertNotification's own predicate, and the stamp that ReleaseAlertFiring keeps), as
\* long as no other evaluator's bookkeeping undid the stamp; by AlertsInvHolds' UndoneBySeveral that takes two of them
\* and a condition measured in days.
THEOREM OnePerCooldownHolds == Spec => OnePerCooldown
  <1>1. Kept =>
            \A key \in Keys : toldAt'[key] # toldAt[key] /\ toldAt'[key] # 0 /\ toldAt[key] # 0 /\ key \notin undone
                => toldAt'[key] - toldAt[key] >= Cooldown
    BY DEF Kept, Spaced
  <1> QED BY <1>1, CoreHolds, PTL DEF OnePerCooldown

=============================================================================
