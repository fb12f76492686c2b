-------------------------- MODULE StoreParity_proofs --------------------------
(***************************************************************************)
(* The two stores agree, for every fleet, host, credential and bound: the  *)
(* last of the calls (histories, deletions), the step, and the theorems.   *)
(* They are of reports that carry one changed unit at most                 *)
(* (OneUnitPerReport): with more, the unit history the two stores keep     *)
(* really differs.                                                         *)
(***************************************************************************)
EXTENDS StoreCalls_proofs

-----------------------------------------------------------------------------
(* Histories. *)

\* A row appended goes to a place after all the others.
LEMMA AppendOne ==
    ASSUME NEW f, DOMAIN f \subseteq Nat \ {0}, IsFiniteSet(DOMAIN f), NEW rows, DOMAIN rows = {1}
    PROVE  /\ M!Appended(f, rows) = Put(f, M!Place(f), rows[1])
           /\ M!Place(f) \in Nat \ {0} /\ \A i \in DOMAIN f : i < M!Place(f)
  <1> DEFINE p == M!Place(f)
  <1>1. p \in Nat \ {0} /\ \A i \in DOMAIN f : i < p
    <2>1. CASE DOMAIN f = {}
      BY <2>1 DEF M!Place
    <2>2. CASE DOMAIN f # {}
      <3>1. DOMAIN f \subseteq Nat
        OBVIOUS
      <3>2. M!Latest(DOMAIN f) \in DOMAIN f /\ \A i \in DOMAIN f : i <= M!Latest(DOMAIN f)
        BY <2>2, <3>1, LatestIs
      <3> QED BY <2>2, <3>2 DEF M!Place
    <2> QED BY <2>1, <2>2
  <1> HIDE DEF p
  <1>2. M!Appended(f, rows) = [i \in DOMAIN f \cup {p + n - 1 : n \in DOMAIN rows} |->
                                  IF i \in DOMAIN f THEN f[i] ELSE rows[i - p + 1]]
    BY DEF M!Appended, p
  <1>3. {p + n - 1 : n \in DOMAIN rows} = {p}
    BY <1>1
  <1>4. M!Appended(f, rows) = [i \in DOMAIN f \cup {p} |-> IF i = p THEN rows[1] ELSE f[i]]
    BY <1>1, <1>2, <1>3
  <1> QED BY <1>1, <1>4 DEF Put, p

\* The places a bound evicts.
Evicted(mine, max) == {i \in mine : Cardinality({j \in mine : j >= i}) > max}

\* The places after one.
After(mine, i) == {j \in mine : j > i}

\* Evict drops the places the bound evicts.
LEMMA EvictIs ==
    ASSUME NEW f, NEW mine, NEW max
    PROVE  M!Evict(f, mine, max) = Without(f, Evicted(mine, max))
  <1>1. {i \in mine : M!Cardinality({j \in mine : j >= i}) > max} = Evicted(mine, max)
    BY Counting DEF Evicted
  <1> QED BY <1>1, Shared DEF M!Evict

\* A place stays while fewer than the bound come after it, and no more than the bound stay.
LEMMA EvictionBound ==
    ASSUME NEW mine, mine \subseteq Nat, IsFiniteSet(mine), NEW max \in Nat
    PROVE  /\ \A i \in mine : i \notin Evicted(mine, max) <=> Cardinality(After(mine, i)) < max
           /\ IsFiniteSet(mine \ Evicted(mine, max))
           /\ Cardinality(mine \ Evicted(mine, max)) <= max
  <1> DEFINE Since(i) == {j \in mine : j >= i}
             left == mine \ Evicted(mine, max)
  <1>1. \A i \in mine : i \in Evicted(mine, max) <=> Cardinality(Since(i)) > max
    BY DEF Evicted
  <1>2. ASSUME NEW i \in mine
        PROVE  /\ IsFiniteSet(Since(i)) /\ Cardinality(Since(i)) \in Nat
               /\ Cardinality(After(mine, i)) \in Nat /\ Cardinality(Since(i)) = Cardinality(After(mine, i)) + 1
    <2>1. After(mine, i) \in SUBSET mine /\ i \notin After(mine, i)
      BY DEF After
    <2>2. ASSUME NEW j PROVE j \in Since(i) <=> j \in After(mine, i) \cup {i}
      <3>1. i \in Nat /\ i \in mine /\ (j \in mine => j \in Nat)
        OBVIOUS
      <3>2. j \in Since(i) <=> j \in mine /\ j >= i
        OBVIOUS
      <3>3. j \in After(mine, i) <=> j \in mine /\ j > i
        BY DEF After
      <3> HIDE DEF Since
      <3> QED BY ONLY <3>1, <3>2, <3>3
    <2> HIDE DEF Since
    <2>3. Since(i) = After(mine, i) \cup {i}
      BY <2>2
    <2>4. IsFiniteSet(After(mine, i))
      BY <2>1, FS_Subset
    <2>5. IsFiniteSet(After(mine, i) \cup {i}) /\ Cardinality(After(mine, i) \cup {i}) = Cardinality(After(mine, i)) + 1
      BY <2>1, <2>4, FS_AddElement
    <2>6. Cardinality(After(mine, i)) \in Nat /\ Cardinality(After(mine, i) \cup {i}) \in Nat
      BY <2>4, <2>5, FS_CardinalityType
    <2> QED BY <2>3, <2>5, <2>6
  <1> HIDE DEF Since
  <1>3. \A i \in mine : i \notin Evicted(mine, max) <=> Cardinality(After(mine, i)) < max
    BY <1>1, <1>2
  <1>4. \A i \in left : Cardinality(Since(i)) <= max
    BY <1>1, <1>2
  <1>5. IsFiniteSet(left) /\ left \subseteq Nat
    <2>1. left \in SUBSET mine
      OBVIOUS
    <2> QED BY <2>1, FS_Subset
  <1>6. Cardinality(left) <= max
    <2>1. CASE left = {}
      BY <2>1, FS_EmptySet
    <2>2. CASE left # {}
      <3>1. PICK first \in left : \A i \in left : first <= i
        BY <1>5, <2>2, FirstOf
      <3>2. first \in mine
        OBVIOUS
      <3>3. left \in SUBSET Since(first)
        BY <3>1, <1>5 DEF Since
      <3>4. IsFiniteSet(Since(first)) /\ Cardinality(Since(first)) \in Nat
        BY <3>2, <1>2
      <3>5. Cardinality(left) <= Cardinality(Since(first))
        BY <3>3, <3>4, FS_Subset
      <3>6. Cardinality(left) \in Nat
        BY <1>5, FS_CardinalityType
      <3> QED BY <3>1, <3>4, <3>5, <3>6, <1>4
    <2> QED BY <2>1, <2>2
  <1> QED BY <1>3, <1>5, <1>6

\* What is good stays so as the clock runs and event ids are drawn.
LEMMA GoodLater ==
    ASSUME NEW m, NEW c \in Nat, NEW d \in Nat, NEW later \in Nat, NEW more \in Nat,
           Good(m, c, d), c <= later, d <= more
    PROVE  Good(m, later, more)
  <1>1. EventsGood(m.events, DOMAIN m.tenants, later, more)
    <2>1. EventsGood(m.events, DOMAIN m.tenants, c, d)
      BY DEF Good
    <2>2. ASSUME NEW i \in DOMAIN m.events PROVE m.events[i].at <= later /\ m.events[i].id < more
      <3>1. m.events[i] \in [tenant : Tenants, id : Nat, at : Time]
        BY <2>1 DEF EventsGood, MapsTo
      <3>2. m.events[i].at <= c /\ m.events[i].id < d
        BY <2>1 DEF EventsGood
      <3> QED BY <3>1, <3>2, BoundsAssumption DEF Time
    <2> QED BY <2>1, <2>2 DEF EventsGood
  <1>2. TransitionsGood(m.transitions, DOMAIN m.tenants, later)
    <2>1. TransitionsGood(m.transitions, DOMAIN m.tenants, c)
      BY DEF Good
    <2>2. ASSUME NEW i \in DOMAIN m.transitions PROVE m.transitions[i].at <= later
      <3>1. m.transitions[i] \in [tenant : Tenants, host : HostIDs, unit : {"nginx", "cron"}, at : Time]
        BY <2>1 DEF TransitionsGood, MapsTo
      <3>2. m.transitions[i].at <= c
        BY <2>1 DEF TransitionsGood
      <3> QED BY <3>1, <3>2, BoundsAssumption DEF Time
    <2> QED BY <2>1, <2>2 DEF TransitionsGood
  <1> QED BY <1>1, <1>2 DEF Good

\* The rows of a table that a bound on the rows of a side leaves, in an order the places follow: those the places
\* it evicts do not hold.  The rows are counted by their places, which u maps to them.
Images(u, S) == {u[x] : x \in S}

\* Counted by rows or by places, the bound evicts the same.
LEMMA Trimmed ==
    ASSUME NEW u, NEW mine, mine \subseteq Nat, IsFiniteSet(mine), NEW max \in Nat,
           \A i, j \in mine : u[i] = u[j] => i = j,
           NEW newer, \A i \in mine : newer[i] = Images(u, After(mine, i))
    PROVE  \A i \in mine : Cardinality(newer[i]) < max <=> i \notin Evicted(mine, max)
  <1> SUFFICES ASSUME NEW i \in mine
               PROVE  Cardinality(newer[i]) < max <=> i \notin Evicted(mine, max)
    OBVIOUS
  <1> DEFINE S == After(mine, i)
  <1>1. S \in SUBSET mine
    BY DEF After
  <1> HIDE DEF S
  <1>2. IsFiniteSet(S)
    BY <1>1, FS_Subset
  <1>3. Cardinality(Images(u, S)) = Cardinality(S)
    <2>1. \A x, y \in S : u[x] = u[y] => x = y
      BY <1>1
    <2> QED BY <1>2, <2>1, ImageSize DEF Images
  <1>4. newer[i] = Images(u, S)
    BY DEF S
  <1>5. i \notin Evicted(mine, max) <=> Cardinality(S) < max
    BY EvictionBound DEF S
  <1> QED BY <1>3, <1>4, <1>5

\* The table of events.
EventRows(f) == {EventRow(f[i]) : i \in DOMAIN f}

\* The order of (at, id) is the order of the places.
LEMMA InOrder ==
    ASSUME NEW f, NEW fleets, NEW c, NEW d, NEW i \in DOMAIN f, NEW j \in DOMAIN f,
           MapsTo(f, Nat \ {0}, [tenant : Tenants, id : Nat, at : Time]),
           \A x, y \in DOMAIN f : x < y => f[x].id < f[y].id /\ f[x].at <= f[y].at
    PROVE  (P!Before(EventRow(f[i]), EventRow(f[j])) <=> j > i) /\ (EventRow(f[i]) = EventRow(f[j]) => i = j)
  <1>1. i \in Nat /\ j \in Nat /\ f[i] \in [tenant : Tenants, id : Nat, at : Time] /\ f[j] \in [tenant : Tenants, id : Nat, at : Time]
    BY DEF MapsTo
  <1>2. f[i].id \in Nat /\ f[j].id \in Nat /\ f[i].at \in Nat /\ f[j].at \in Nat
    BY <1>1, BoundsAssumption DEF Time
  <1>3. (i < j => f[i].id < f[j].id /\ f[i].at <= f[j].at) /\ (j < i => f[j].id < f[i].id /\ f[j].at <= f[i].at)
    OBVIOUS
  <1>4. /\ EventRow(f[i]).id = f[i].id /\ EventRow(f[i]).row.at = f[i].at
        /\ EventRow(f[j]).id = f[j].id /\ EventRow(f[j]).row.at = f[j].at
    BY DEF EventRow
  <1>5. i = j => f[i].id = f[j].id /\ f[i].at = f[j].at
    OBVIOUS
  <1>6. P!Before(EventRow(f[i]), EventRow(f[j]))
        <=> f[i].at < f[j].at \/ (f[i].at = f[j].at /\ f[i].id < f[j].id)
    BY <1>4 DEF P!Before
  <1>7. f[i].at < f[j].at \/ (f[i].at = f[j].at /\ f[i].id < f[j].id) <=> j > i
    BY ONLY <1>1, <1>2, <1>3, <1>5
  <1>8. f[i].id = f[j].id => i = j
    BY ONLY <1>1, <1>2, <1>3
  <1> QED BY <1>4, <1>6, <1>7, <1>8

\* What RecordEvent's DELETE spares.
KeptRows(table, t, max) ==
    {e \in table : e.tenant = t => P!Cardinality({x \in P!InTenant(table, t) : P!Before(e, x)}) < max}

\* RecordEvent's DELETE leaves the events that Evict leaves.
LEMMA EventsKept ==
    ASSUME NEW f, NEW t, NEW max \in Nat, IsFiniteSet(DOMAIN f),
           MapsTo(f, Nat \ {0}, [tenant : Tenants, id : Nat, at : Time]),
           \A x, y \in DOMAIN f : x < y => f[x].id < f[y].id /\ f[x].at <= f[y].at,
           NEW table, table = EventRows(f)
    PROVE  KeptRows(table, t, max) = EventRows(Without(f, Evicted(M!Beside(f, t), max)))
  <1> DEFINE mine == M!Beside(f, t)
             u == [i \in DOMAIN f |-> EventRow(f[i])]
             newer == [i \in mine |-> {x \in P!InTenant(table, t) : P!Before(EventRow(f[i]), x)}]
             left == {e \in table : e.tenant = t => P!Cardinality({x \in P!InTenant(table, t) : P!Before(e, x)}) < max}
             g == Without(f, Evicted(mine, max))
  <1>1. mine \subseteq DOMAIN f /\ DOMAIN f \subseteq Nat /\ IsFiniteSet(mine)
    <2>1. mine \in SUBSET DOMAIN f
      BY DEF M!Beside
    <2> QED BY <2>1, FS_Subset DEF MapsTo
  <1>2. \A i \in DOMAIN f : u[i] = EventRow(f[i]) /\ EventRow(f[i]).tenant = f[i].tenant
    BY DEF EventRow
  <1>3. \A i, j \in mine : u[i] = u[j] => i = j
    BY <1>1, <1>2, InOrder
  <1>4. ASSUME NEW i \in mine PROVE newer[i] = Images(u, After(mine, i))
    <2>1. newer[i] = {x \in P!InTenant(table, t) : P!Before(EventRow(f[i]), x)}
      OBVIOUS
    <2> HIDE DEF newer
    <2>2. ASSUME NEW r PROVE r \in newer[i] <=> r \in Images(u, After(mine, i))
      <3>1. r \in newer[i] <=> r \in table /\ r.tenant = t /\ P!Before(EventRow(f[i]), r)
        BY <2>1 DEF P!InTenant
      <3>2. r \in table <=> \E j \in DOMAIN f : r = EventRow(f[j])
        BY DEF EventRows
      <3>3. \A j : j \in mine <=> j \in DOMAIN f /\ f[j].tenant = t
        BY DEF M!Beside
      <3>4. \A j \in DOMAIN f : P!Before(EventRow(f[i]), EventRow(f[j])) <=> j > i
        BY <1>1, InOrder
      <3> HIDE DEF u, mine
      <3>5. r \in newer[i] <=> \E j \in mine : j > i /\ r = u[j]
        BY <3>1, <3>2, <3>3, <3>4, <1>2
      <3> QED BY <3>5 DEF Images, After
    <2> QED BY <2>2
  <1> HIDE DEF u, newer, mine
  <1>5. \A i \in mine : Cardinality(newer[i]) < max <=> i \notin Evicted(mine, max)
    BY <1>1, <1>3, <1>4, Trimmed
  <1>6. ASSUME NEW r PROVE r \in left <=> r \in EventRows(g)
    <2>1. r \in table <=> \E i \in DOMAIN f : r = EventRow(f[i])
      BY DEF EventRows
    <2>2. r \in EventRows(g) <=> \E i \in DOMAIN f : i \notin Evicted(mine, max) /\ r = EventRow(f[i])
      <3>1. DOMAIN g = DOMAIN f \ Evicted(mine, max) /\ \A i \in DOMAIN g : g[i] = f[i]
        BY DEF Without
      <3> HIDE DEF g
      <3>2. r \in EventRows(g) <=> \E i \in DOMAIN g : r = EventRow(g[i])
        BY DEF EventRows
      <3> QED BY <3>1, <3>2
    <2>3. ASSUME NEW i \in DOMAIN f, r = EventRow(f[i]) PROVE r \in left <=> i \notin Evicted(mine, max)
      <3>1. CASE i \in mine
        <4>1. newer[i] = {x \in P!InTenant(table, t) : P!Before(r, x)} /\ r.tenant = t
          BY <1>2, <2>3, <3>1 DEF newer, mine, M!Beside
        <4>2. P!Cardinality({x \in P!InTenant(table, t) : P!Before(r, x)}) < max <=> i \notin Evicted(mine, max)
          BY <4>1, <3>1, <1>5, Counting
        <4> QED BY <2>1, <2>3, <4>1, <4>2
      <3>2. CASE i \notin mine
        <4>1. r.tenant # t
          BY <1>2, <2>3, <3>2 DEF mine, M!Beside
        <4>2. i \notin Evicted(mine, max)
          BY <3>2 DEF Evicted
        <4> QED BY <2>1, <2>3, <4>1, <4>2
      <3> QED BY <3>1, <3>2
    <2>4. r \in left => r \in table
      OBVIOUS
    <2> HIDE DEF left
    <2>5. r \in EventRows(g) => r \in left
      BY <2>2, <2>3
    <2>6. r \in left => r \in EventRows(g)
      BY <2>1, <2>2, <2>3, <2>4
    <2> QED BY <2>5, <2>6
  <1> HIDE DEF left, g
  <1>7. left = EventRows(g)
    BY <1>6
  <1> QED BY <1>7 DEF left, g, mine, KeptRows

\* The event goes in with the id drawn for it, and the next id is another.
LEMMA RecordEventAlike ==
    ASSUME Paired, now \in Time, drawn \in Nat, NEW t \in Tenants,
           NEW a, NEW b, a = M!RecordEvent(mem, t, drawn, now), b = P!RecordEvent(pg, t, drawn, now)
    PROVE  /\ Good(a.st, now, drawn + 1) /\ Mirrors(a.st, b.st) /\ Apart(t, a.st)
           /\ AnswersAlike(t, a.ans, b.ans)
  <1> DEFINE f == mem.events
             x == [tenant |-> t, id |-> drawn, at |-> now]
             all == M!Appended(f, <<x>>)
             p == M!Place(f)
  <1>1. /\ pg.events = EventRows(f) /\ EventsGood(f, DOMAIN mem.tenants, now, drawn)
        /\ DOMAIN mem = M!Memory /\ DOMAIN pg = P!Postgres
        /\ P!Has(pg.tenants, t) <=> t \in DOMAIN mem.tenants
    <2>1. pg.tenants = Keyed(mem.tenants)
      BY DEF Paired, Lockstep, Mirrors
    <2> QED BY <2>1, KeyedHas DEF Paired, Lockstep, Mirrors, Good, EventRows
  <1>2. ~P!HasIn(pg.events, t, drawn)
    <2>1. \A i \in DOMAIN f : EventRow(f[i]).id = f[i].id /\ f[i].id # drawn
      <3>1. \A i \in DOMAIN f : f[i].id \in Nat /\ f[i].id < drawn
        BY <1>1 DEF EventsGood, MapsTo
      <3> QED BY <3>1 DEF EventRow
    <2> QED BY <1>1, <2>1 DEF P!HasIn, EventRows
  <1>3. CASE t \notin DOMAIN mem.tenants
    <2>1. a = Fail(mem, "error")
      BY <1>3, Shared DEF M!RecordEvent
    <2>2. b = Fail(pg, "error")
      BY <1>1, <1>2, <1>3, Shared DEF P!RecordEvent
    <2>3. Alike(t, a, b)
      BY <2>1, <2>2, RefusedAlike DEF Answers
    <2>4. now \in Nat /\ drawn + 1 \in Nat /\ drawn <= drawn + 1 /\ now <= now
      BY BoundsAssumption DEF Time
    <2>5. a.st = mem
      BY <2>1 DEF Fail
    <2>6. Good(mem, now, drawn + 1)
      BY <2>4, GoodLater DEF Paired, Lockstep
    <2> QED BY <2>3, <2>5, <2>6 DEF Alike, Lockstep
  <1>4. CASE t \in DOMAIN mem.tenants
    <2> DEFINE mine == M!Beside(all, t)
               g == Without(all, Evicted(mine, MaxEventsPerTenant))
               table == EventRows(all)
               kept == {e \in table : e.tenant = t =>
                            P!Cardinality({r \in P!InTenant(table, t) : P!Before(e, r)}) < MaxEventsPerTenant}
               n == [mem EXCEPT !.events = g]
               db == [pg EXCEPT !.events = kept]
    <2>1. x \in [tenant : Tenants, id : Nat, at : Time] /\ x.tenant = t /\ x.id = drawn /\ x.at = now
      OBVIOUS
    <2>2. DOMAIN f \subseteq Nat \ {0} /\ IsFiniteSet(DOMAIN f)
          /\ MapsTo(f, Nat \ {0}, [tenant : Tenants, id : Nat, at : Time])
      BY <1>1 DEF EventsGood, MapsTo
    <2> HIDE DEF x
    <2>3. all = Put(f, p, x) /\ p \in Nat \ {0} /\ \A i \in DOMAIN f : i < p
      <3>1. ASSUME NEW rows, rows = <<x>> PROVE DOMAIN rows = {1} /\ rows[1] = x
        BY <3>1
      <3>2. ASSUME NEW rows, rows = <<x>>
            PROVE  M!Appended(f, rows) = Put(f, M!Place(f), x) /\ M!Place(f) \in Nat \ {0} /\ \A i \in DOMAIN f : i < M!Place(f)
        BY <2>2, <3>1, <3>2, AppendOne
      <3> QED BY <3>2
    <2> HIDE DEF all, p
    <2>4. /\ DOMAIN all = DOMAIN f \cup {p} /\ all[p] = x /\ p \notin DOMAIN f
          /\ \A i \in DOMAIN f : i # p /\ all[i] = f[i]
      <3>1. p \notin DOMAIN f
        BY <2>2, <2>3
      <3> QED BY <2>3, <3>1 DEF Put
    <2>5. MapsTo(all, Nat \ {0}, [tenant : Tenants, id : Nat, at : Time]) /\ IsFiniteSet(DOMAIN all)
      BY <2>1, <2>2, <2>3, PutKeeps, PutFinite
    <2>6. ASSUME NEW i \in DOMAIN all
          PROVE  all[i].tenant \in DOMAIN mem.tenants /\ all[i].at <= now /\ all[i].id < drawn + 1
      <3>1. CASE i = p
        BY <3>1, <2>1, <2>4, <1>4, BoundsAssumption DEF Time
      <3>2. CASE i \in DOMAIN f
        <4>1. f[i].tenant \in DOMAIN mem.tenants /\ f[i].at <= now /\ f[i].id < drawn /\ f[i].id \in Nat
          BY <3>2, <1>1 DEF EventsGood, MapsTo
        <4> QED BY <4>1, <3>2, <2>4
      <3> QED BY <3>1, <3>2, <2>4
    <2>7. ASSUME NEW i \in DOMAIN all, NEW j \in DOMAIN all, i < j
          PROVE  all[i].id < all[j].id /\ all[i].at <= all[j].at
      <3>1. CASE j = p
        <4>1. i \in DOMAIN f
          BY <2>2, <2>3, <2>4, <2>7, <3>1
        <4>2. f[i].at <= now /\ f[i].id < drawn
          BY <4>1, <1>1 DEF EventsGood
        <4> QED BY <4>1, <4>2, <3>1, <2>1, <2>4
      <3>2. CASE j \in DOMAIN f
        <4>1. i \in DOMAIN f
          BY <2>2, <2>3, <2>4, <2>7, <3>2
        <4>2. f[i].id < f[j].id /\ f[i].at <= f[j].at
          BY <4>1, <3>2, <2>7, <1>1 DEF EventsGood
        <4> QED BY <4>1, <4>2, <3>2, <2>4
      <3> QED BY <3>1, <3>2, <2>4
    <2>8. DOMAIN g \subseteq DOMAIN all /\ (\A i \in DOMAIN g : g[i] = all[i])
          /\ M!Beside(g, t) \subseteq mine \ Evicted(mine, MaxEventsPerTenant)
      <3>1. DOMAIN g = DOMAIN all \ Evicted(mine, MaxEventsPerTenant) /\ \A i \in DOMAIN g : g[i] = all[i]
        BY DEF Without
      <3> HIDE DEF g
      <3> QED BY <3>1 DEF M!Beside
    <2>9. \A s \in Tenants : s # t => SameBeside(f, g, s)
      <3>1. ASSUME NEW s \in Tenants, s # t PROVE SameBeside(f, g, s)
        <4>1. \A i \in Evicted(mine, MaxEventsPerTenant) : all[i].tenant = t
          BY DEF Evicted, M!Beside
        <4>2. ASSUME NEW i PROVE i \in DOMAIN g <=> i \in DOMAIN all /\ i \notin Evicted(mine, MaxEventsPerTenant)
          BY DEF Without
        <4> HIDE DEF g
        <4>3. \A i \in DOMAIN f : f[i].tenant = s => i \in DOMAIN g /\ g[i] = f[i]
          BY <3>1, <4>1, <4>2, <2>4, <2>8
        <4>4. \A i \in DOMAIN g : g[i].tenant = s => i \in DOMAIN f /\ g[i] = f[i]
          BY <3>1, <4>2, <2>1, <2>4, <2>8
        <4> QED BY <4>3, <4>4, BesideSame
      <3> QED BY <3>1
    <2>10. \A s \in Tenants : Cardinality(M!Beside(g, s)) <= MaxEventsPerTenant
      <3>1. ASSUME NEW s \in Tenants, s # t PROVE Cardinality(M!Beside(g, s)) <= MaxEventsPerTenant
        <4>1. M!Beside(g, s) = M!Beside(f, s)
          BY <2>9, <3>1 DEF SameBeside
        <4> QED BY <4>1, <1>1 DEF EventsGood
      <3>2. Cardinality(M!Beside(g, t)) <= MaxEventsPerTenant
        <4> DEFINE left == mine \ Evicted(mine, MaxEventsPerTenant)
        <4>1. mine \in SUBSET DOMAIN all /\ mine \subseteq Nat
          BY <2>5 DEF M!Beside, MapsTo
        <4>2. IsFiniteSet(mine) /\ MaxEventsPerTenant \in Nat
          BY <4>1, <2>5, FS_Subset, BoundsAssumption
        <4> HIDE DEF mine
        <4>3. IsFiniteSet(left) /\ Cardinality(left) <= MaxEventsPerTenant
          BY <4>1, <4>2, EvictionBound
        <4>4. M!Beside(g, t) \in SUBSET left
          BY <2>8
        <4> HIDE DEF left, g
        <4>5. IsFiniteSet(M!Beside(g, t)) /\ Cardinality(M!Beside(g, t)) <= Cardinality(left)
          BY <4>3, <4>4, FS_Subset
        <4>6. Cardinality(M!Beside(g, t)) \in Nat /\ Cardinality(left) \in Nat
          BY <4>3, <4>5, FS_CardinalityType
        <4> QED BY <4>2, <4>3, <4>5, <4>6
      <3> QED BY <3>1, <3>2
    <2>11. EventsGood(g, DOMAIN mem.tenants, now, drawn + 1)
      <3>1. MapsTo(g, Nat \ {0}, [tenant : Tenants, id : Nat, at : Time]) /\ IsFiniteSet(DOMAIN g)
        BY <2>5, WithoutKeeps, WithoutFinite
      <3> HIDE DEF g
      <3> QED BY <3>1, <2>6, <2>7, <2>8, <2>10 DEF EventsGood
    <2>12. kept = EventRows(g)
      <3>1. MaxEventsPerTenant \in Nat
        BY BoundsAssumption
      <3>2. kept = KeptRows(table, t, MaxEventsPerTenant)
        BY DEF KeptRows
      <3> HIDE DEF kept
      <3>3. \A i, j \in DOMAIN all : i < j => all[i].id < all[j].id /\ all[i].at <= all[j].at
        BY <2>7
      <3> HIDE DEF mine
      <3>4. KeptRows(table, t, MaxEventsPerTenant) = EventRows(Without(all, Evicted(M!Beside(all, t), MaxEventsPerTenant)))
        BY <3>1, <2>5, <3>3, EventsKept
      <3> QED BY <3>2, <3>4 DEF mine
    <2>13. table = pg.events \cup {[id |-> drawn, tenant |-> t, row |-> [at |-> now]]}
      <3>1. EventRow(x) = [id |-> drawn, tenant |-> t, row |-> [at |-> now]]
        BY <2>1 DEF EventRow
      <3>2. ASSUME NEW r PROVE r \in table <=> r \in EventRows(f) \/ r = EventRow(x)
        <4>1. r \in table <=> \E i \in DOMAIN all : r = EventRow(all[i])
          BY DEF EventRows
        <4>2. r \in EventRows(f) <=> \E i \in DOMAIN f : r = EventRow(f[i])
          BY DEF EventRows
        <4> HIDE DEF table
        <4> QED BY <4>1, <4>2, <2>4
      <3> QED BY <1>1, <3>1, <3>2
    <2>14. a = Done(n)
      BY <1>4, Shared, EvictIs DEF M!RecordEvent, all, x
    <2>15. b = Done(db)
      BY <1>1, <1>2, <1>4, <2>13, Shared DEF P!RecordEvent
    <2> HIDE DEF g, kept, table
    <2>16. MemOnly(n, {"events"}) /\ n.events = g
      BY <1>1 DEF MemOnly, M!Memory
    <2>17. PgOnly(db, {"events"}) /\ db.events = EventRows(g)
      BY <1>1, <2>12 DEF PgOnly, P!Postgres
    <2> HIDE DEF n, db
    <2>18. SameBeside(f, g, Platform)
      <3>1. Platform \notin Tenants
        BY DefaultTenantAssumption
      <3>2. \A i \in DOMAIN f : f[i].tenant \in Tenants
        BY <2>2 DEF MapsTo
      <3>3. \A i \in DOMAIN g : g[i].tenant \in Tenants
        BY <2>5, <2>8 DEF MapsTo
      <3> QED BY <3>1, <3>2, <3>3, BesideSame
    <2>19. \A s \in Sides : s # t => SameBeside(f, n.events, s)
      BY <2>9, <2>16, <2>18 DEF Sides
    <2>20. db.events = {EventRow(n.events[i]) : i \in DOMAIN n.events}
      BY <2>16, <2>17 DEF EventRows
    <2>21. Good(n, now, drawn + 1) /\ Mirrors(n, db) /\ Apart(t, n)
      BY <2>11, <2>16, <2>17, <2>19, <2>20, EventsOnly
    <2>22. a.st = n /\ b.st = db /\ AnswersAlike(t, a.ans, b.ans)
      BY <2>14, <2>15 DEF Done, AnswersAlike, Answers, Refused
    <2> QED BY <2>21, <2>22
  <1> QED BY <1>3, <1>4

\* A row of the unit history.
History == [tenant : Tenants, host : HostIDs, unit : {"nginx", "cron"}, at : Time]

\* A host's history is in the order of the places it was appended at.
LEMMA HisOrder ==
    ASSUME NEW f, NEW t, NEW h, NEW i \in Of(f, t, h), NEW j \in Of(f, t, h), MapsTo(f, Nat \ {0}, History),
           \A x, y \in Of(f, t, h) : x < y => f[x].at < f[y].at
    PROVE  (TransitionRow(f[j]).row.at > TransitionRow(f[i]).row.at <=> j > i)
           /\ (TransitionRow(f[i]) = TransitionRow(f[j]) => i = j)
  <1>1. i \in Nat /\ j \in Nat /\ f[i] \in History /\ f[j] \in History
    BY DEF MapsTo, Of, M!Beside
  <1>2. f[i].at \in Nat /\ f[j].at \in Nat
    BY <1>1, BoundsAssumption DEF Time, History
  <1>3. (i < j => f[i].at < f[j].at) /\ (j < i => f[j].at < f[i].at) /\ (i = j => f[i].at = f[j].at)
    OBVIOUS
  <1>4. TransitionRow(f[i]).row.at = f[i].at /\ TransitionRow(f[j]).row.at = f[j].at
    BY DEF TransitionRow
  <1>5. (f[j].at > f[i].at <=> j > i) /\ (f[i].at = f[j].at => i = j)
    BY ONLY <1>1, <1>2, <1>3
  <1> QED BY <1>4, <1>5

\* RecordUnitTransitions' DELETE, which spares ties, leaves what Evict leaves: a host's instants are distinct.
LEMMA TransitionsKept ==
    ASSUME NEW f, NEW t, NEW h, NEW homes, <<t, h>> \in homes, IsFiniteSet(DOMAIN f), MapsTo(f, Nat \ {0}, History),
           \A x, y \in Of(f, t, h) : x < y => f[x].at < f[y].at,
           NEW table, table = HistoryTable(f, homes), NEW g,
           g = Without(f, Evicted(Of(f, t, h), MaxUnitTransitionsPerHost))
    PROVE  P!EvictTransitions(table, t, h) = HistoryTable(g, homes)
  <1> DEFINE mine == Of(f, t, h)
             max == MaxUnitTransitionsPerHost
             his == {r \in table : r.tenant = t /\ r.row.host = h}
             u == [i \in DOMAIN f |-> TransitionRow(f[i])]
             newer == [i \in mine |-> {x \in his : x.row.at > TransitionRow(f[i]).row.at}]
             left == P!EvictTransitions(table, t, h)
  <1>1. mine \subseteq DOMAIN f /\ DOMAIN f \subseteq Nat /\ IsFiniteSet(mine) /\ max \in Nat
    <2>1. mine \in SUBSET DOMAIN f
      BY DEF Of, M!Beside
    <2> QED BY <2>1, FS_Subset, BoundsAssumption DEF MapsTo
  <1>2. \A i \in DOMAIN f : /\ u[i] = TransitionRow(f[i]) /\ TransitionRow(f[i]).tenant = f[i].tenant
                            /\ TransitionRow(f[i]).row.host = f[i].host
    BY DEF TransitionRow
  <1>3. \A i, j \in mine : u[i] = u[j] => i = j
    BY <1>1, <1>2, HisOrder
  <1>4. \A j : j \in mine <=> j \in DOMAIN f /\ f[j].tenant = t /\ f[j].host = h
    BY DEF Of, M!Beside
  <1>5. ASSUME NEW r PROVE r \in his <=> \E j \in mine : r = TransitionRow(f[j])
    <2>1. r \in table <=> \E j \in DOMAIN f : <<f[j].tenant, f[j].host>> \in homes /\ r = TransitionRow(f[j])
      BY DEF HistoryTable, Visible
    <2>2. r \in his <=> r \in table /\ r.tenant = t /\ r.row.host = h
      OBVIOUS
    <2> HIDE DEF his, mine, u
    <2> QED BY <2>1, <2>2, <1>2, <1>4
  <1>6. ASSUME NEW i \in mine PROVE newer[i] = Images(u, After(mine, i))
    <2>1. newer[i] = {x \in his : x.row.at > TransitionRow(f[i]).row.at}
      OBVIOUS
    <2> HIDE DEF newer
    <2>2. ASSUME NEW r PROVE r \in newer[i] <=> r \in Images(u, After(mine, i))
      <3>1. r \in newer[i] <=> r \in his /\ r.row.at > TransitionRow(f[i]).row.at
        BY <2>1
      <3>2. \A j \in mine : TransitionRow(f[j]).row.at > TransitionRow(f[i]).row.at <=> j > i
        BY <1>1, HisOrder
      <3> HIDE DEF u, mine, his
      <3>3. r \in newer[i] <=> \E j \in mine : j > i /\ r = u[j]
        BY <3>1, <3>2, <1>5, <1>1, <1>2
      <3> QED BY <3>3 DEF Images, After
    <2> QED BY <2>2
  <1>7. ASSUME NEW r PROVE r \in left <=> r \in table /\ (r \in his => Cardinality({x \in his : x.row.at > r.row.at}) < max)
    BY Counting DEF P!EvictTransitions
  <1>8. ASSUME NEW i \in mine PROVE newer[i] = {x \in his : x.row.at > TransitionRow(f[i]).row.at}
    OBVIOUS
  <1> HIDE DEF u, newer, mine, his, left, max
  <1>9. \A i \in mine : Cardinality(newer[i]) < max <=> i \notin Evicted(mine, max)
    <2>1. mine \subseteq Nat
      BY <1>1
    <2> QED BY <2>1, <1>1, <1>3, <1>6, Trimmed
  <1>10. ASSUME NEW r PROVE r \in left <=> r \in HistoryTable(g, homes)
    <2>1. r \in table <=> \E i \in DOMAIN f : <<f[i].tenant, f[i].host>> \in homes /\ r = TransitionRow(f[i])
      BY DEF HistoryTable, Visible
    <2>2. r \in HistoryTable(g, homes)
          <=> \E i \in DOMAIN f : i \notin Evicted(mine, max) /\ <<f[i].tenant, f[i].host>> \in homes /\ r = TransitionRow(f[i])
      <3>1. DOMAIN g = DOMAIN f \ Evicted(mine, max) /\ \A i \in DOMAIN g : g[i] = f[i]
        BY DEF Without, mine, max
      <3>2. r \in HistoryTable(g, homes) <=> \E i \in DOMAIN g : <<g[i].tenant, g[i].host>> \in homes /\ r = TransitionRow(g[i])
        BY DEF HistoryTable, Visible
      <3> QED BY <3>1, <3>2
    <2>3. ASSUME NEW i \in DOMAIN f, <<f[i].tenant, f[i].host>> \in homes, r = TransitionRow(f[i])
          PROVE  r \in left <=> i \notin Evicted(mine, max)
      <3>1. r \in table
        BY <2>1, <2>3
      <3>2. CASE i \in mine
        <4>1. newer[i] = {x \in his : x.row.at > r.row.at}
          BY <1>8, <2>3, <3>2
        <4>2. r \in his
          BY <1>5, <2>3, <3>2
        <4> QED BY <3>1, <3>2, <4>1, <4>2, <1>7, <1>9
      <3>3. CASE i \notin mine
        <4>1. r \notin his
          <5>1. \A j \in mine : TransitionRow(f[j]) # TransitionRow(f[i])
            BY <1>1, <1>2, <1>4, <3>3
          <5> QED BY <5>1, <1>5, <2>3
        <4>2. i \notin Evicted(mine, max)
          BY <3>3 DEF Evicted
        <4> QED BY <3>1, <4>1, <4>2, <1>7
      <3> QED BY <3>2, <3>3
    <2>4. r \in left => r \in table
      BY <1>7
    <2> QED BY <2>1, <2>2, <2>3, <2>4
  <1>11. left = HistoryTable(g, homes)
    BY <1>10
  <1> QED BY <1>11 DEF left

\* RecordUnitTransitions is answered alike.
LEMMA RecordUnitTransitionsAlike ==
    ASSUME Paired, now \in Time, NEW t \in Tenants, NEW h \in HostIDs, NEW unit \in {"nginx", "cron"}, NEW batch,
           batch = <<>> \/ batch = <<unit>>,
           \A r \in pg.unit_transitions : r.row.host = h => r.row.at # now
    PROVE  Alike(t, M!RecordUnitTransitions(mem, t, h, batch, now), P!RecordUnitTransitions(pg, t, h, batch, now))
  <1> DEFINE f == mem.transitions
             homes == Homes(mem.hosts)
             x == [tenant |-> t, host |-> h, unit |-> unit, at |-> now]
             rows == [i \in DOMAIN batch |-> [tenant |-> t, host |-> h, unit |-> batch[i], at |-> now]]
             all == M!Appended(f, rows)
             p == M!Place(f)
  <1>1. /\ pg.unit_transitions = HistoryTable(f, homes) /\ TransitionsGood(f, DOMAIN mem.tenants, now)
        /\ DOMAIN mem = M!Memory /\ DOMAIN pg = P!Postgres
        /\ P!HasIn(pg.hosts, t, h) <=> M!HasHost(mem, t, h)
        /\ M!HasHost(mem, t, h) <=> <<t, h>> \in homes
    <2>1. pg.hosts = Owned(mem.hosts)
      BY DEF Paired, Lockstep, Mirrors
    <2>2. M!HasHost(mem, t, h) <=> <<t, h>> \in homes
      BY DEF M!HasHost, Homes
    <2>3. P!HasIn(pg.hosts, t, h) <=> M!HasHost(mem, t, h)
      BY <2>1, OwnedHas DEF M!HasHost
    <2> QED BY <2>2, <2>3 DEF Paired, Lockstep, Mirrors, Good
  <1>2. CASE batch = <<>>
    BY <1>2, NothingDone, Shared DEF M!RecordUnitTransitions, P!RecordUnitTransitions
  <1>3. CASE batch # <<>> /\ ~M!HasHost(mem, t, h)
    <2>1. M!RecordUnitTransitions(mem, t, h, batch, now) = Fail(mem, "error")
      BY <1>3, Shared DEF M!RecordUnitTransitions
    <2>2. P!RecordUnitTransitions(pg, t, h, batch, now) = Fail(pg, "error")
      BY <1>1, <1>3, Shared DEF P!RecordUnitTransitions
    <2> QED BY <2>1, <2>2, RefusedAlike DEF Answers
  <1>4. CASE batch # <<>> /\ M!HasHost(mem, t, h)
    <2> DEFINE mine == Of(all, t, h)
               g == Without(all, Evicted(mine, MaxUnitTransitionsPerHost))
               table == HistoryTable(all, homes)
               kept == P!EvictTransitions(table, t, h)
               n == [mem EXCEPT !.transitions = g]
               db == [pg EXCEPT !.unit_transitions = kept]
    <2>1. x \in History /\ x.tenant = t /\ x.host = h /\ x.at = now
      BY DEF History
    <2>2. DOMAIN f \subseteq Nat \ {0} /\ IsFiniteSet(DOMAIN f) /\ MapsTo(f, Nat \ {0}, History)
      BY <1>1 DEF TransitionsGood, MapsTo, History
    <2>3. DOMAIN rows = {1} /\ rows[1] = x /\ DOMAIN batch = {1} /\ batch[1] = unit
      BY <1>4
    <2>4. t \in DOMAIN mem.tenants
      <3>1. HostsGood(mem.hosts, DOMAIN mem.tenants)
        BY DEF Paired, Lockstep, Good
      <3> QED BY <1>4, <3>1 DEF HostsGood, M!HasHost
    <2>5. M!RecordUnitTransitions(mem, t, h, batch, now) = Done(n)
      BY <1>4, Shared, EvictIs DEF M!RecordUnitTransitions, Of
    <2>6. {[tenant |-> t, row |-> [host |-> h, unit |-> batch[i], at |-> now]] : i \in DOMAIN batch} = {TransitionRow(x)}
      <3>1. TransitionRow(x) = [tenant |-> t, row |-> [host |-> h, unit |-> unit, at |-> now]]
        BY DEF TransitionRow
      <3> QED BY <3>1, <2>3
    <2>7. P!RecordUnitTransitions(pg, t, h, batch, now)
          = Done([pg EXCEPT !.unit_transitions = P!EvictTransitions(pg.unit_transitions \cup {TransitionRow(x)}, t, h)])
      BY <1>1, <1>4, <2>6, Shared DEF P!RecordUnitTransitions
    <2> HIDE DEF x, rows
    <2>8. all = Put(f, p, x) /\ p \in Nat \ {0} /\ \A i \in DOMAIN f : i < p
      <3>1. DOMAIN rows = {1} /\ rows[1] = x
        BY <2>3 DEF rows, x
      <3> QED BY <2>2, <3>1, AppendOne
    <2> HIDE DEF all, p
    <2>9. /\ DOMAIN all = DOMAIN f \cup {p} /\ all[p] = x /\ p \notin DOMAIN f
          /\ \A i \in DOMAIN f : i # p /\ all[i] = f[i]
      <3>1. p \notin DOMAIN f
        BY <2>2, <2>8
      <3> QED BY <2>8, <3>1 DEF Put
    <2>10. MapsTo(all, Nat \ {0}, History) /\ IsFiniteSet(DOMAIN all)
      BY <2>1, <2>2, <2>8, PutKeeps, PutFinite
    <2>11. ASSUME NEW i \in DOMAIN all PROVE all[i].tenant \in DOMAIN mem.tenants /\ all[i].at <= now
      <3>1. CASE i = p
        BY <3>1, <2>1, <2>4, <2>9, BoundsAssumption DEF Time
      <3>2. CASE i \in DOMAIN f
        <4>1. f[i].tenant \in DOMAIN mem.tenants /\ f[i].at <= now
          BY <3>2, <1>1 DEF TransitionsGood
        <4> QED BY <4>1, <3>2, <2>9
      <3> QED BY <3>1, <3>2, <2>9
    <2>12. ASSUME NEW i \in DOMAIN f, f[i].tenant = t, f[i].host = h PROVE f[i].at < now
      <3>1. TransitionRow(f[i]) \in pg.unit_transitions
        BY <1>1, <1>4, <2>12 DEF HistoryTable, Visible
      <3>2. TransitionRow(f[i]).row.host = h /\ TransitionRow(f[i]).row.at = f[i].at
        BY <2>12 DEF TransitionRow
      <3>3. f[i].at # now
        BY <3>1, <3>2
      <3>4. f[i].at <= now /\ f[i].at \in Time
        BY <1>1, <2>2 DEF TransitionsGood, MapsTo, History
      <3> QED BY <3>3, <3>4, BoundsAssumption DEF Time
    <2>13. ASSUME NEW i \in DOMAIN all, NEW j \in DOMAIN all, i < j, all[i].tenant = all[j].tenant, all[i].host = all[j].host
           PROVE  all[i].at < all[j].at
      <3>1. CASE j = p
        <4>1. i \in DOMAIN f
          BY <2>2, <2>8, <2>9, <2>13, <3>1
        <4>2. f[i].at < now
          BY <4>1, <3>1, <2>1, <2>9, <2>12, <2>13
        <4> QED BY <4>1, <4>2, <3>1, <2>1, <2>9
      <3>2. CASE j \in DOMAIN f
        <4>1. i \in DOMAIN f
          BY <2>2, <2>8, <2>9, <2>13, <3>2
        <4>2. f[i].at < f[j].at
          BY <4>1, <3>2, <2>9, <2>13, <1>1 DEF TransitionsGood
        <4> QED BY <4>1, <4>2, <3>2, <2>9
      <3> QED BY <3>1, <3>2, <2>9
    <2>14. ASSUME NEW i PROVE i \in DOMAIN g <=> i \in DOMAIN all /\ i \notin Evicted(mine, MaxUnitTransitionsPerHost)
      BY DEF Without
    <2>15. \A i \in DOMAIN g : g[i] = all[i]
      BY DEF Without
    <2>16. kept = HistoryTable(g, homes)
      <3>1. \A i, j \in mine : i < j => all[i].at < all[j].at
        BY <2>13 DEF Of, M!Beside
      <3>2. <<t, h>> \in homes
        BY <1>1, <1>4
      <3> HIDE DEF kept, g, table, homes
      <3>3. table = HistoryTable(all, homes)
        BY DEF table
      <3>4. g = Without(all, Evicted(Of(all, t, h), MaxUnitTransitionsPerHost))
        BY DEF g
      <3>5. P!EvictTransitions(table, t, h) = HistoryTable(g, homes)
        BY <3>1, <3>2, <3>3, <3>4, <2>10, TransitionsKept
      <3> QED BY <3>5 DEF kept
    <2>17. table = pg.unit_transitions \cup {TransitionRow(x)}
      <3>1. ASSUME NEW r PROVE r \in table <=> r \in HistoryTable(f, homes) \/ r = TransitionRow(x)
        <4>1. r \in table <=> \E i \in DOMAIN all : <<all[i].tenant, all[i].host>> \in homes /\ r = TransitionRow(all[i])
          BY DEF HistoryTable, Visible
        <4>2. r \in HistoryTable(f, homes) <=> \E i \in DOMAIN f : <<f[i].tenant, f[i].host>> \in homes /\ r = TransitionRow(f[i])
          BY DEF HistoryTable, Visible
        <4>3. <<x.tenant, x.host>> \in homes
          BY <1>1, <1>4, <2>1
        <4> HIDE DEF table, homes
        <4> QED BY <4>1, <4>2, <4>3, <2>9
      <3> QED BY <1>1, <3>1
    <2>18. P!RecordUnitTransitions(pg, t, h, batch, now) = Done(db)
      BY <2>7, <2>17
    <2>19. \A s \in Tenants : s # t => SameBeside(f, g, s)
      <3>1. ASSUME NEW s \in Tenants, s # t PROVE SameBeside(f, g, s)
        <4>1. \A i \in Evicted(mine, MaxUnitTransitionsPerHost) : all[i].tenant = t
          BY DEF Evicted, Of, M!Beside
        <4> HIDE DEF g
        <4>2. \A i \in DOMAIN f : f[i].tenant = s => i \in DOMAIN g /\ g[i] = f[i]
          BY <3>1, <4>1, <2>14, <2>15, <2>9
        <4>3. \A i \in DOMAIN g : g[i].tenant = s => i \in DOMAIN f /\ g[i] = f[i]
          BY <3>1, <2>1, <2>9, <2>14, <2>15
        <4> QED BY <4>2, <4>3, BesideSame
      <3> QED BY <3>1
    <2>20. ASSUME NEW s \in Tenants, NEW k \in HostIDs PROVE Cardinality(Of(g, s, k)) <= MaxUnitTransitionsPerHost
      <3>1. CASE s # t \/ k # h
        <4>1. \A i \in Evicted(mine, MaxUnitTransitionsPerHost) : all[i].tenant = t /\ all[i].host = h
          BY DEF Evicted, Of, M!Beside
        <4>2. ASSUME NEW i PROVE i \in Of(g, s, k) <=> i \in DOMAIN g /\ g[i].tenant = s /\ g[i].host = k
          BY DEF Of, M!Beside
        <4>3. ASSUME NEW i PROVE i \in Of(f, s, k) <=> i \in DOMAIN f /\ f[i].tenant = s /\ f[i].host = k
          BY DEF Of, M!Beside
        <4> HIDE DEF g, mine
        <4>4. ASSUME NEW i PROVE i \in Of(g, s, k) <=> i \in Of(f, s, k)
          BY <3>1, <4>1, <4>2, <4>3, <2>1, <2>9, <2>14, <2>15
        <4>5. Of(g, s, k) = Of(f, s, k)
          BY <4>4
        <4> QED BY <4>5, <1>1 DEF TransitionsGood
      <3>2. CASE s = t /\ k = h
        <4> DEFINE max == MaxUnitTransitionsPerHost
                   left == mine \ Evicted(mine, max)
        <4>1. mine \in SUBSET DOMAIN all /\ mine \subseteq Nat
          BY <2>10 DEF Of, M!Beside, MapsTo
        <4>2. IsFiniteSet(mine) /\ max \in Nat
          BY <4>1, <2>10, FS_Subset, BoundsAssumption
        <4>3. Of(g, s, k) \in SUBSET left
          <5>1. \A i \in Of(g, s, k) : i \in DOMAIN g /\ g[i].tenant = t /\ g[i].host = h
            BY <3>2 DEF Of, M!Beside
          <5>2. \A i : i \in mine <=> i \in DOMAIN all /\ all[i].tenant = t /\ all[i].host = h
            BY DEF Of, M!Beside
          <5> HIDE DEF g, mine
          <5> QED BY <5>1, <5>2, <2>14, <2>15
        <4> HIDE DEF mine, max
        <4>4. IsFiniteSet(left) /\ Cardinality(left) <= max
          BY <4>1, <4>2, EvictionBound
        <4> HIDE DEF left, g
        <4>5. IsFiniteSet(Of(g, s, k)) /\ Cardinality(Of(g, s, k)) <= Cardinality(left)
          BY <4>3, <4>4, FS_Subset
        <4>6. Cardinality(Of(g, s, k)) \in Nat /\ Cardinality(left) \in Nat
          BY <4>4, <4>5, FS_CardinalityType
        <4>7. Cardinality(Of(g, s, k)) <= max
          BY <4>2, <4>4, <4>5, <4>6
        <4> QED BY <4>7 DEF max
      <3> QED BY <3>1, <3>2
    <2>21. TransitionsGood(g, DOMAIN mem.tenants, now)
      <3>1. MapsTo(g, Nat \ {0}, [tenant : Tenants, host : HostIDs, unit : {"nginx", "cron"}, at : Time]) /\ IsFiniteSet(DOMAIN g)
        BY <2>10, WithoutKeeps, WithoutFinite DEF History
      <3> HIDE DEF g
      <3>2. \A i \in DOMAIN g : i \in DOMAIN all
        BY <2>14
      <3> QED BY <3>1, <3>2, <2>11, <2>13, <2>15, <2>20 DEF TransitionsGood
    <2> HIDE DEF g, kept, table
    <2>22. MemOnly(n, {"transitions"}) /\ n.transitions = g
      BY <1>1 DEF MemOnly, M!Memory
    <2>23. PgOnly(db, {"unit_transitions"}) /\ db.unit_transitions = HistoryTable(g, homes)
      BY <1>1, <2>16 DEF PgOnly, P!Postgres
    <2> HIDE DEF n, db
    <2>24. SameBeside(f, g, Platform)
      <3>1. Platform \notin Tenants
        BY DefaultTenantAssumption
      <3>2. \A i \in DOMAIN f : f[i].tenant \in Tenants
        BY <2>2 DEF MapsTo, History
      <3>3. \A i \in DOMAIN g : g[i].tenant \in Tenants
        BY <2>10, <2>14, <2>15 DEF MapsTo, History
      <3> QED BY <3>1, <3>2, <3>3, BesideSame
    <2>25. \A s \in Sides : s # t => SameBeside(f, n.transitions, s)
      BY <2>19, <2>22, <2>24 DEF Sides
    <2>26. Lockstep(n, db) /\ Apart(t, n)
      BY <2>21, <2>22, <2>23, <2>25, TransitionsOnly
    <2> QED BY <2>5, <2>18, <2>26, DoneAlike
  <1> QED BY <1>2, <1>3, <1>4

-----------------------------------------------------------------------------
(* Deletions: what was owned goes with its owner. *)

\* One map is a part of another.
Part(f, g) == DOMAIN g \subseteq DOMAIN f /\ \A k \in DOMAIN g : g[k] = f[k]

\* Who may go: owners of one side, with every owner that was theirs.
OwnersGone(n, side) ==
    /\ \A t \in DOMAIN mem.tenants : t \notin DOMAIN n.tenants => t = side
    /\ \A h \in DOMAIN mem.hosts : h \notin DOMAIN n.hosts => mem.hosts[h].tenant = side
    /\ \A k \in DOMAIN mem.rules : k \notin DOMAIN n.rules => k[1] = side
    /\ \A a \in DOMAIN mem.accounts : a \notin DOMAIN n.accounts => mem.accounts[a].tenant = side
    /\ \A h \in DOMAIN n.hosts : n.hosts[h].tenant \in DOMAIN n.tenants
    /\ \A k \in DOMAIN n.rules : k[1] \in DOMAIN n.tenants
    /\ \A a \in DOMAIN n.accounts : n.accounts[a].tenant \in DOMAIN n.tenants \cup {Platform}

\* What stays is what still has its owner.
FleetsRows(n) ==
    /\ \A k \in DOMAIN mem.tokens : k \in DOMAIN n.tokens <=> mem.tokens[k].tenant \in DOMAIN n.tenants
    /\ \A k \in DOMAIN mem.shares : k \in DOMAIN n.shares <=> mem.shares[k].tenant \in DOMAIN n.tenants
    /\ \A k \in DOMAIN mem.events : k \in DOMAIN n.events <=> mem.events[k].tenant \in DOMAIN n.tenants
    /\ \A k \in DOMAIN mem.templates : k \in DOMAIN n.templates <=> k[1] \in DOMAIN n.tenants
    /\ \A k \in DOMAIN mem.archivedTemplates : k \in DOMAIN n.archivedTemplates <=> k[1] \in DOMAIN n.tenants
    /\ \A k \in DOMAIN mem.transitions : k \in DOMAIN n.transitions <=> mem.transitions[k].tenant \in DOMAIN n.tenants

\* What hangs from hosts ...
HostsRows(n) ==
    /\ \A k \in DOMAIN mem.certs : k \in DOMAIN n.certs <=> <<mem.certs[k].tenant, mem.certs[k].row.host>> \in Homes(n.hosts)
    /\ \A k \in DOMAIN mem.jobs : k \in DOMAIN n.jobs <=> k \in Homes(n.hosts)
    /\ \A k \in DOMAIN mem.records : k \in DOMAIN n.records <=> <<k[1], mem.records[k].host>> \in Homes(n.hosts)
    /\ \A k \in DOMAIN mem.results : k \in DOMAIN n.results <=> k \in DOMAIN n.records

\* ... from rules and from accounts.
OthersRows(n) ==
    /\ \A k \in DOMAIN mem.states : k \in DOMAIN n.states <=> <<k[1], k[2]>> \in DOMAIN n.rules
    /\ \A k \in DOMAIN mem.sessions : k \in DOMAIN n.sessions <=> mem.sessions[k].account \in DOMAIN n.accounts
    /\ \A k \in DOMAIN mem.apiTokens : k \in DOMAIN n.apiTokens <=> mem.apiTokens[k].account \in DOMAIN n.accounts

\* Map by map, what is left is a part.
Parts(n) ==
    /\ DOMAIN n = M!Memory
    /\ Part(mem.tenants, n.tenants) /\ Part(mem.tokens, n.tokens) /\ Part(mem.hosts, n.hosts) /\ Part(mem.certs, n.certs)
    /\ Part(mem.jobs, n.jobs) /\ Part(mem.records, n.records) /\ Part(mem.results, n.results)
    /\ Part(mem.templates, n.templates) /\ Part(mem.archivedTemplates, n.archivedTemplates)
    /\ Part(mem.events, n.events) /\ Part(mem.transitions, n.transitions)
    /\ Part(mem.rules, n.rules) /\ Part(mem.states, n.states) /\ Part(mem.accounts, n.accounts)
    /\ Part(mem.sessions, n.sessions) /\ Part(mem.apiTokens, n.apiTokens) /\ Part(mem.shares, n.shares)

\* What a deletion leaves of the memory store.
Swept(n, side) == Parts(n) /\ OwnersGone(n, side) /\ FleetsRows(n) /\ HostsRows(n) /\ OthersRows(n)

\* A part of a map is of its kind, and finite if it is.
LEMMA PartFacts ==
    ASSUME NEW f, NEW g, Part(f, g)
    PROVE  /\ \A K, V : MapsTo(f, K, V) => MapsTo(g, K, V)
           /\ IsFiniteSet(DOMAIN f) => IsFiniteSet(DOMAIN g)
  <1>1. ASSUME NEW K, NEW V, MapsTo(f, K, V) PROVE MapsTo(g, K, V)
    BY <1>1 DEF Part, MapsTo
  <1>2. ASSUME IsFiniteSet(DOMAIN f) PROVE IsFiniteSet(DOMAIN g)
    <2>1. DOMAIN g \in SUBSET DOMAIN f
      BY DEF Part
    <2> QED BY <1>2, <2>1, FS_Subset
  <1> QED BY <1>1, <1>2

\* A map and a part of it, from one row down.
LEMMA PartHomes ==
    ASSUME NEW f, NEW g, Part(f, g)
    PROVE  Homes(g) \subseteq Homes(f)
  BY DEF Part, Homes

\* What a deletion leaves is as the invariant wants it: hosts, certificates and tokens ...
LEMMA SweptHosts ==
    ASSUME Paired, NEW n, NEW side, Swept(n, side)
    PROVE  HostsGood(n.hosts, DOMAIN n.tenants) /\ CertsGood(n.certs, Homes(n.hosts)) /\ TokensGood(n.tokens, DOMAIN n.tenants)
  <1>1. HostsGood(mem.hosts, DOMAIN mem.tenants) /\ CertsGood(mem.certs, Homes(mem.hosts)) /\ TokensGood(mem.tokens, DOMAIN mem.tenants)
    BY DEF Paired, Lockstep, Good
  <1>2. Part(mem.hosts, n.hosts) /\ Part(mem.certs, n.certs) /\ Part(mem.tokens, n.tokens)
    BY DEF Swept, Parts
  <1>3. HostsGood(n.hosts, DOMAIN n.tenants)
    <2>1. MapsTo(n.hosts, HostIDs, Ours(Host)) /\ IsFiniteSet(DOMAIN n.hosts)
      BY <1>1, <1>2, PartFacts DEF HostsGood
    <2>2. \A h \in DOMAIN n.hosts : n.hosts[h].tenant \in DOMAIN n.tenants
      BY DEF Swept, OwnersGone
    <2>3. \A h \in DOMAIN n.hosts : h \in DOMAIN mem.hosts /\ n.hosts[h] = mem.hosts[h]
      BY <1>2 DEF Part
    <2> QED BY <1>1, <2>1, <2>2, <2>3 DEF HostsGood
  <1>4. CertsGood(n.certs, Homes(n.hosts))
    <2>1. MapsTo(n.certs, Fingerprints, Ours(Certificate)) /\ IsFiniteSet(DOMAIN n.certs)
      BY <1>1, <1>2, PartFacts DEF CertsGood
    <2>2. \A h \in DOMAIN n.certs : h \in DOMAIN mem.certs /\ n.certs[h] = mem.certs[h]
      BY <1>2 DEF Part
    <2> QED BY <2>1, <2>2 DEF CertsGood, Swept, HostsRows
  <1>5. TokensGood(n.tokens, DOMAIN n.tenants)
    <2>1. MapsTo(n.tokens, Keys, Ours(EnrollmentToken))
      BY <1>1, <1>2, PartFacts DEF TokensGood
    <2>2. \A h \in DOMAIN n.tokens : h \in DOMAIN mem.tokens /\ n.tokens[h] = mem.tokens[h]
      BY <1>2 DEF Part
    <2> QED BY <2>1, <2>2 DEF TokensGood, Swept, FleetsRows
  <1> QED BY <1>3, <1>4, <1>5

\* ... jobs, their queues and results ...
LEMMA SweptJobs ==
    ASSUME Paired, NEW n, NEW side, Swept(n, side)
    PROVE  JobsGood(n.jobs, n.records, n.results, Homes(n.hosts))
  <1> DEFINE q == mem.jobs
             r == mem.records
             x == n.jobs
             y == n.records
             z == n.results
             homes == Homes(n.hosts)
  <1>1. JobsGood(q, r, mem.results, Homes(mem.hosts))
    BY DEF Paired, Lockstep, Good
  <1>2. Part(q, x) /\ Part(r, y) /\ Part(mem.results, z)
    BY DEF Swept, Parts
  <1>3. /\ MapsTo(x, Tenants \X HostIDs, SUBSET JobIDs)
        /\ MapsTo(y, Tenants \X JobIDs, JobRecord)
        /\ MapsTo(z, Tenants \X JobIDs, {"completed", "failed"})
    BY <1>1, <1>2, PartFacts DEF JobsGood
  <1>4. /\ \A k \in DOMAIN q : k \in DOMAIN x <=> k \in homes
        /\ \A k \in DOMAIN r : k \in DOMAIN y <=> <<k[1], r[k].host>> \in homes
        /\ \A k \in DOMAIN mem.results : k \in DOMAIN z <=> k \in DOMAIN y
    BY DEF Swept, HostsRows
  <1>5. /\ \A k \in DOMAIN x : k \in DOMAIN q /\ x[k] = q[k]
        /\ \A k \in DOMAIN y : k \in DOMAIN r /\ y[k] = r[k]
        /\ \A k \in DOMAIN z : k \in DOMAIN mem.results
    BY <1>2 DEF Part
  <1>6. DOMAIN x \subseteq homes /\ \A k \in DOMAIN y : <<k[1], y[k].host>> \in homes
    BY <1>4, <1>5
  <1>7. ASSUME NEW t \in Tenants, NEW h \in HostIDs PROVE Queued(x, t, h) = Waiting(y, t, h)
    <2>1. Queued(q, t, h) = Waiting(r, t, h)
      BY <1>1 DEF JobsGood
    <2>2. CASE <<t, h>> \in homes
      <3>1. Queued(x, t, h) = Queued(q, t, h)
        BY <2>2, <1>4, <1>5 DEF Queued
      <3>2. ASSUME NEW id \in JobIDs PROVE id \in Waiting(y, t, h) <=> id \in Waiting(r, t, h)
        <4> SUFFICES ASSUME NEW k, k = <<t, id>> PROVE id \in Waiting(y, t, h) <=> id \in Waiting(r, t, h)
          OBVIOUS
        <4>1. id \in Waiting(y, t, h) <=> k \in DOMAIN y /\ y[k].host = h /\ ~AwaitingApproval(y[k]) /\ ~y[k].claimed
          BY DEF Waiting
        <4>2. id \in Waiting(r, t, h) <=> k \in DOMAIN r /\ r[k].host = h /\ ~AwaitingApproval(r[k]) /\ ~r[k].claimed
          BY DEF Waiting
        <4>3. k \in DOMAIN r /\ r[k].host = h => k \in DOMAIN y
          BY <2>2, <1>4
        <4> QED BY <4>1, <4>2, <4>3, <1>5
      <3>3. Waiting(y, t, h) = Waiting(r, t, h)
        BY <3>2 DEF Waiting
      <3> QED BY <2>1, <3>1, <3>3
    <2>3. CASE <<t, h>> \notin homes
      <3>1. Queued(x, t, h) = {}
        BY <2>3, <1>6 DEF Queued
      <3>2. ASSUME NEW id \in JobIDs PROVE id \notin Waiting(y, t, h)
        <4> SUFFICES ASSUME NEW k, k = <<t, id>> PROVE id \notin Waiting(y, t, h)
          OBVIOUS
        <4>1. id \in Waiting(y, t, h) => k \in DOMAIN y /\ y[k].host = h
          BY DEF Waiting
        <4>2. k \in DOMAIN y => <<t, y[k].host>> \in homes
          BY <1>6
        <4> QED BY <4>1, <4>2, <2>3
      <3>3. Waiting(y, t, h) = {}
        BY <3>2 DEF Waiting
      <3> QED BY <3>1, <3>3
    <2> QED BY <2>2, <2>3
  <1>8. DOMAIN z \subseteq DOMAIN y
    BY <1>4, <1>5
  <1>9. \A k \in DOMAIN y : (y[k].claimed => ~AwaitingApproval(y[k])) /\ (y[k].completed => y[k].claimed)
    BY <1>1, <1>5 DEF JobsGood
  <1>10. \A k \in DOMAIN z : y[k].completed
    BY <1>1, <1>5, <1>8 DEF JobsGood
  <1> HIDE DEF x, y, z, homes
  <1>11. JobsGood(x, y, z, homes)
    BY <1>3, <1>6, <1>7, <1>8, <1>9, <1>10 DEF JobsGood
  <1> QED BY <1>11 DEF x, y, z, homes

\* ... templates, rules and shares ...
LEMMA SweptFleets ==
    ASSUME Paired, NEW n, NEW side, Swept(n, side)
    PROVE  /\ TemplatesGood(n.templates, n.archivedTemplates, DOMAIN n.tenants)
           /\ RulesGood(n.rules, n.states, DOMAIN n.tenants)
           /\ SharesGood(n.shares, DOMAIN n.tenants)
           /\ MapsTo(n.tenants, Tenants, Tenant)
  <1>1. /\ TemplatesGood(mem.templates, mem.archivedTemplates, DOMAIN mem.tenants)
        /\ RulesGood(mem.rules, mem.states, DOMAIN mem.tenants)
        /\ SharesGood(mem.shares, DOMAIN mem.tenants)
        /\ MapsTo(mem.tenants, Tenants, Tenant)
    BY DEF Paired, Lockstep, Good
  <1>2. /\ Part(mem.templates, n.templates) /\ Part(mem.archivedTemplates, n.archivedTemplates)
        /\ Part(mem.rules, n.rules) /\ Part(mem.states, n.states) /\ Part(mem.shares, n.shares)
        /\ Part(mem.tenants, n.tenants)
    BY DEF Swept, Parts
  <1>3. TemplatesGood(n.templates, n.archivedTemplates, DOMAIN n.tenants)
    <2> DEFINE f == mem.templates
               g == n.templates
               o == mem.archivedTemplates
               a == n.archivedTemplates
    <2>1. MapsTo(g, Tenants \X Names \X (1 .. MaxVersions), TemplateVersion) /\ MapsTo(a, Tenants \X Names, Operators)
      BY <1>1, <1>2, PartFacts DEF TemplatesGood
    <2>2. /\ \A k \in DOMAIN f : k \in DOMAIN g <=> k[1] \in DOMAIN n.tenants
          /\ \A k \in DOMAIN o : k \in DOMAIN a <=> k[1] \in DOMAIN n.tenants
      BY DEF Swept, FleetsRows
    <2>3. (\A k \in DOMAIN g : k \in DOMAIN f) /\ (\A k \in DOMAIN a : k \in DOMAIN o)
      BY <1>2 DEF Part
    <2>4. ASSUME NEW k \in DOMAIN g, NEW v \in 1 .. k[3] PROVE <<k[1], k[2], v>> \in DOMAIN g
      <3> SUFFICES ASSUME NEW x, x = <<k[1], k[2], v>> PROVE x \in DOMAIN g
        OBVIOUS
      <3>1. x \in DOMAIN f
        BY <2>3, <1>1 DEF TemplatesGood
      <3>2. x[1] = k[1]
        OBVIOUS
      <3> QED BY <3>1, <3>2, <2>2, <2>3
    <2>5. ASSUME NEW k \in DOMAIN a PROVE \E x \in DOMAIN g : x[1] = k[1] /\ x[2] = k[2]
      <3>1. PICK x \in DOMAIN f : x[1] = k[1] /\ x[2] = k[2]
        BY <2>3, <1>1 DEF TemplatesGood
      <3> QED BY <3>1, <2>2, <2>3
    <2>6. \A k \in DOMAIN g : k[1] \in DOMAIN n.tenants
      BY <2>2, <2>3
    <2> HIDE DEF g, a
    <2>7. TemplatesGood(g, a, DOMAIN n.tenants)
      BY <2>1, <2>4, <2>5, <2>6 DEF TemplatesGood
    <2> QED BY <2>7 DEF g, a
  <1>4. RulesGood(n.rules, n.states, DOMAIN n.tenants)
    <2>1. MapsTo(n.rules, Tenants \X RuleIDs, AlertRule) /\ MapsTo(n.states, Tenants \X RuleIDs \X HostIDs, AlertState)
      BY <1>1, <1>2, PartFacts DEF RulesGood
    <2>2. \A k \in DOMAIN n.rules : k[1] \in DOMAIN n.tenants
      BY DEF Swept, OwnersGone
    <2>3. \A k \in DOMAIN n.states : <<k[1], k[2]>> \in DOMAIN n.rules
      BY <1>2 DEF Swept, OthersRows, Part
    <2> QED BY <2>1, <2>2, <2>3 DEF RulesGood
  <1>5. SharesGood(n.shares, DOMAIN n.tenants)
    <2>1. MapsTo(n.shares, Names, Ours(WallboardShare)) /\ IsFiniteSet(DOMAIN n.shares)
      BY <1>1, <1>2, PartFacts DEF SharesGood
    <2>2. \A x \in DOMAIN n.shares : x \in DOMAIN mem.shares /\ n.shares[x] = mem.shares[x]
      BY <1>2 DEF Part
    <2>3. \A x \in DOMAIN n.shares : n.shares[x].tenant \in DOMAIN n.tenants
      BY <2>2 DEF Swept, FleetsRows
    <2> QED BY <1>1, <2>1, <2>2, <2>3 DEF SharesGood
  <1>6. MapsTo(n.tenants, Tenants, Tenant)
    BY <1>1, <1>2, PartFacts
  <1> QED BY <1>3, <1>4, <1>5, <1>6

\* ... accounts and what they hold ...
LEMMA SweptAccounts ==
    ASSUME Paired, NEW n, NEW side, Swept(n, side)
    PROVE  AccountsGood(n.accounts, DOMAIN n.tenants) /\ CredentialsGood(n.sessions, n.apiTokens, DOMAIN n.accounts)
  <1>1. AccountsGood(mem.accounts, DOMAIN mem.tenants) /\ CredentialsGood(mem.sessions, mem.apiTokens, DOMAIN mem.accounts)
    BY DEF Paired, Lockstep, Good
  <1>2. Part(mem.accounts, n.accounts) /\ Part(mem.sessions, n.sessions) /\ Part(mem.apiTokens, n.apiTokens)
    BY DEF Swept, Parts
  <1>3. AccountsGood(n.accounts, DOMAIN n.tenants)
    <2>1. MapsTo(n.accounts, AccountIDs, Belonging(Sides, Account))
      BY <1>1, <1>2, PartFacts DEF AccountsGood
    <2>2. \A x \in DOMAIN n.accounts : x \in DOMAIN mem.accounts /\ n.accounts[x] = mem.accounts[x]
      BY <1>2 DEF Part
    <2>3. \A a \in DOMAIN n.accounts : n.accounts[a].tenant \in DOMAIN n.tenants \cup {Platform}
      BY DEF Swept, OwnersGone
    <2> QED BY <1>1, <2>1, <2>2, <2>3 DEF AccountsGood
  <1>4. CredentialsGood(n.sessions, n.apiTokens, DOMAIN n.accounts)
    <2>1. MapsTo(n.sessions, Keys, Session) /\ IsFiniteSet(DOMAIN n.sessions) /\ MapsTo(n.apiTokens, Keys, APIToken)
      BY <1>1, <1>2, PartFacts DEF CredentialsGood
    <2>2. /\ \A x \in DOMAIN n.sessions : x \in DOMAIN mem.sessions /\ n.sessions[x] = mem.sessions[x]
          /\ \A x \in DOMAIN n.apiTokens : x \in DOMAIN mem.apiTokens /\ n.apiTokens[x] = mem.apiTokens[x]
      BY <1>2 DEF Part
    <2> QED BY <2>1, <2>2 DEF CredentialsGood, Swept, OthersRows
  <1> QED BY <1>3, <1>4

\* ... events and unit histories ...
LEMMA SweptHistories ==
    ASSUME Paired, NEW n, NEW side, Swept(n, side)
    PROVE  EventsGood(n.events, DOMAIN n.tenants, now, drawn) /\ TransitionsGood(n.transitions, DOMAIN n.tenants, now)
  <1>1. EventsGood(mem.events, DOMAIN mem.tenants, now, drawn) /\ TransitionsGood(mem.transitions, DOMAIN mem.tenants, now)
    BY DEF Paired, Lockstep, Good
  <1>2. Part(mem.events, n.events) /\ Part(mem.transitions, n.transitions)
    BY DEF Swept, Parts
  <1>3. ASSUME NEW S, NEW T, IsFiniteSet(T), S \subseteq T, NEW max \in Nat, Cardinality(T) <= max
        PROVE  Cardinality(S) <= max
    <2>1. S \in SUBSET T
      BY <1>3
    <2>2. IsFiniteSet(S) /\ Cardinality(S) <= Cardinality(T)
      BY <1>3, <2>1, FS_Subset
    <2>3. Cardinality(S) \in Nat /\ Cardinality(T) \in Nat
      BY <1>3, <2>2, FS_CardinalityType
    <2> QED BY <1>3, <2>2, <2>3
  <1>4. EventsGood(n.events, DOMAIN n.tenants, now, drawn)
    <2> DEFINE f == mem.events
               g == n.events
    <2>1. MapsTo(g, Nat \ {0}, [tenant : Tenants, id : Nat, at : Time]) /\ IsFiniteSet(DOMAIN g)
      BY <1>1, <1>2, PartFacts DEF EventsGood
    <2>2. \A x \in DOMAIN g : x \in DOMAIN f /\ g[x] = f[x]
      BY <1>2 DEF Part
    <2>3. \A x \in DOMAIN g : g[x].tenant \in DOMAIN n.tenants
      BY <2>2 DEF Swept, FleetsRows
    <2>4. ASSUME NEW t \in Tenants PROVE Cardinality(M!Beside(g, t)) <= MaxEventsPerTenant
      <3>1. M!Beside(g, t) \subseteq M!Beside(f, t)
        BY <2>2 DEF M!Beside
      <3>2. IsFiniteSet(M!Beside(f, t))
        <4>1. M!Beside(f, t) \in SUBSET DOMAIN f
          BY DEF M!Beside
        <4> QED BY <4>1, <1>1, FS_Subset DEF EventsGood
      <3>3. Cardinality(M!Beside(f, t)) <= MaxEventsPerTenant /\ MaxEventsPerTenant \in Nat
        BY <1>1, BoundsAssumption DEF EventsGood
      <3> QED BY <3>1, <3>2, <3>3, <1>3
    <2>5. \A i \in DOMAIN f : f[i].at <= now /\ f[i].id < drawn
      BY <1>1 DEF EventsGood
    <2>6. \A i, j \in DOMAIN f : i < j => f[i].id < f[j].id /\ f[i].at <= f[j].at
      BY <1>1 DEF EventsGood
    <2> HIDE DEF f, g
    <2>7. EventsGood(g, DOMAIN n.tenants, now, drawn)
      BY <2>1, <2>2, <2>3, <2>4, <2>5, <2>6 DEF EventsGood
    <2> QED BY <2>7 DEF g
  <1>5. TransitionsGood(n.transitions, DOMAIN n.tenants, now)
    <2> DEFINE f == mem.transitions
               g == n.transitions
    <2>1. MapsTo(g, Nat \ {0}, [tenant : Tenants, host : HostIDs, unit : {"nginx", "cron"}, at : Time]) /\ IsFiniteSet(DOMAIN g)
      BY <1>1, <1>2, PartFacts DEF TransitionsGood
    <2>2. \A x \in DOMAIN g : x \in DOMAIN f /\ g[x] = f[x]
      BY <1>2 DEF Part
    <2>3. \A x \in DOMAIN g : g[x].tenant \in DOMAIN n.tenants
      BY <2>2 DEF Swept, FleetsRows
    <2>4. ASSUME NEW t \in Tenants, NEW h \in HostIDs PROVE Cardinality(Of(g, t, h)) <= MaxUnitTransitionsPerHost
      <3>1. Of(g, t, h) \subseteq Of(f, t, h)
        BY <2>2 DEF Of, M!Beside
      <3>2. IsFiniteSet(Of(f, t, h))
        <4>1. Of(f, t, h) \in SUBSET DOMAIN f
          BY DEF Of, M!Beside
        <4> QED BY <4>1, <1>1, FS_Subset DEF TransitionsGood
      <3>3. Cardinality(Of(f, t, h)) <= MaxUnitTransitionsPerHost /\ MaxUnitTransitionsPerHost \in Nat
        BY <1>1, BoundsAssumption DEF TransitionsGood
      <3> QED BY <3>1, <3>2, <3>3, <1>3
    <2>5. \A i \in DOMAIN f : f[i].at <= now
      BY <1>1 DEF TransitionsGood
    <2>6. \A i, j \in DOMAIN f : i < j /\ f[i].tenant = f[j].tenant /\ f[i].host = f[j].host => f[i].at < f[j].at
      BY <1>1 DEF TransitionsGood
    <2> HIDE DEF f, g
    <2>7. TransitionsGood(g, DOMAIN n.tenants, now)
      BY <2>1, <2>2, <2>3, <2>4, <2>5, <2>6 DEF TransitionsGood
    <2> QED BY <2>7 DEF g
  <1> QED BY <1>4, <1>5

\* ... which is all of it.
LEMMA SweptGood ==
    ASSUME Paired, NEW n, NEW side, Swept(n, side)
    PROVE  Good(n, now, drawn)
  BY SweptHosts, SweptJobs, SweptFleets, SweptAccounts, SweptHistories DEF Good, Swept, Parts

\* Only what was of the side goes.
LEMMA SweptApart ==
    ASSUME Paired, NEW n, NEW side, Swept(n, side)
    PROVE  Apart(side, n)
  <1> SUFFICES ASSUME NEW s \in Sides, s # side PROVE SameFor(mem, n, s)
    BY DEF Apart
  <1>1. Good(mem, now, drawn)
    BY DEF Paired, Lockstep
  <1>2. ASSUME NEW f, NEW g, Part(f, g), \A k \in DOMAIN f : k \notin DOMAIN g => f[k].tenant = side
        PROVE  SameBeside(f, g, s)
    BY <1>2, BesideSame DEF Part
  <1>3. ASSUME NEW f, NEW g, Part(f, g), \A k \in DOMAIN f : k \notin DOMAIN g => k[1] = side
        PROVE  SameInKey(f, g, s)
    BY <1>3, InKeySame DEF Part
  <1>4. \A t \in DOMAIN mem.tenants : t \notin DOMAIN n.tenants => t = side
    BY DEF Swept, OwnersGone
  <1>5. SameBeside(mem.tokens, n.tokens, s) /\ SameBeside(mem.shares, n.shares, s)
        /\ SameBeside(mem.events, n.events, s) /\ SameBeside(mem.transitions, n.transitions, s)
    <2>1. \A k \in DOMAIN mem.tokens : k \notin DOMAIN n.tokens => mem.tokens[k].tenant = side
      BY <1>1, <1>4 DEF Good, TokensGood, Swept, FleetsRows
    <2>2. \A k \in DOMAIN mem.shares : k \notin DOMAIN n.shares => mem.shares[k].tenant = side
      BY <1>1, <1>4 DEF Good, SharesGood, Swept, FleetsRows
    <2>3. \A k \in DOMAIN mem.events : k \notin DOMAIN n.events => mem.events[k].tenant = side
      BY <1>1, <1>4 DEF Good, EventsGood, Swept, FleetsRows
    <2>4. \A k \in DOMAIN mem.transitions : k \notin DOMAIN n.transitions => mem.transitions[k].tenant = side
      BY <1>1, <1>4 DEF Good, TransitionsGood, Swept, FleetsRows
    <2> QED BY <2>1, <2>2, <2>3, <2>4, <1>2 DEF Swept, Parts
  <1>6. SameInKey(mem.templates, n.templates, s) /\ SameInKey(mem.archivedTemplates, n.archivedTemplates, s)
    <2>1. \A k \in DOMAIN mem.templates : k \notin DOMAIN n.templates => k[1] = side
      BY <1>1, <1>4 DEF Good, TemplatesGood, Swept, FleetsRows
    <2>2. \A k \in DOMAIN mem.archivedTemplates : k \notin DOMAIN n.archivedTemplates => k[1] = side
      BY <1>1, <1>4 DEF Good, TemplatesGood, Swept, FleetsRows
    <2> QED BY <2>1, <2>2, <1>3 DEF Swept, Parts
  <1>7. SameInKey(mem.rules, n.rules, s) /\ SameInKey(mem.states, n.states, s)
    <2>1. \A k \in DOMAIN mem.rules : k \notin DOMAIN n.rules => k[1] = side
      BY DEF Swept, OwnersGone
    <2>2. ASSUME NEW k \in DOMAIN mem.states, k \notin DOMAIN n.states PROVE k[1] = side
      <3> SUFFICES ASSUME NEW r, r = <<k[1], k[2]>> PROVE k[1] = side
        OBVIOUS
      <3>1. r \in DOMAIN mem.rules /\ r \notin DOMAIN n.rules
        BY <2>2, <1>1 DEF Good, RulesGood, Swept, OthersRows
      <3>2. r[1] = k[1]
        OBVIOUS
      <3> QED BY <2>1, <3>1, <3>2
    <2> QED BY <2>1, <2>2, <1>3 DEF Swept, Parts
  <1>8. ASSUME NEW t, NEW h, <<t, h>> \in Homes(mem.hosts), <<t, h>> \notin Homes(n.hosts) PROVE t = side
    <2>1. h \in DOMAIN mem.hosts /\ mem.hosts[h].tenant = t
      BY <1>8 DEF Homes
    <2>2. h \notin DOMAIN n.hosts
      BY <1>8, <2>1 DEF Homes, Swept, Parts, Part
    <2> QED BY <2>1, <2>2 DEF Swept, OwnersGone
  <1>9. SameBeside(mem.hosts, n.hosts, s) /\ SameBeside(mem.certs, n.certs, s)
    <2>1. \A h \in DOMAIN mem.hosts : h \notin DOMAIN n.hosts => mem.hosts[h].tenant = side
      BY DEF Swept, OwnersGone
    <2>2. \A k \in DOMAIN mem.certs : k \notin DOMAIN n.certs => mem.certs[k].tenant = side
      BY <1>1, <1>8 DEF Good, CertsGood, Swept, HostsRows
    <2> QED BY <2>1, <2>2, <1>2 DEF Swept, Parts
  <1>10. SameInKey(mem.records, n.records, s) /\ SameInKey(mem.results, n.results, s)
    <2>1. \A k \in DOMAIN mem.records : k \notin DOMAIN n.records => k[1] = side
      BY <1>1, <1>8 DEF Good, JobsGood, Swept, HostsRows
    <2>2. \A k \in DOMAIN mem.results : k \notin DOMAIN n.results => k[1] = side
      BY <1>1, <2>1 DEF Good, JobsGood, Swept, HostsRows
    <2> QED BY <2>1, <2>2, <1>3 DEF Swept, Parts
  <1>11. /\ SameBeside(mem.accounts, n.accounts, s)
         /\ SameHeld(mem.sessions, n.sessions, mem.accounts, n.accounts, s)
         /\ SameHeld(mem.apiTokens, n.apiTokens, mem.accounts, n.accounts, s)
    <2>1. SameBeside(mem.accounts, n.accounts, s)
      BY <1>2 DEF Swept, OwnersGone, Parts
    <2>2. ASSUME NEW f, NEW g, Part(f, g), \A k \in DOMAIN f : k \in DOMAIN g <=> f[k].account \in DOMAIN n.accounts
          PROVE  SameHeld(f, g, mem.accounts, n.accounts, s)
      <3>1. M!Beside(mem.accounts, s) = M!Beside(n.accounts, s)
        BY <2>1 DEF SameBeside
      <3>2. M!Beside(n.accounts, s) \subseteq DOMAIN n.accounts
        BY DEF M!Beside
      <3> QED BY <3>1, <3>2, <2>2 DEF SameHeld, HeldBy, Part
    <2>3. SameHeld(mem.sessions, n.sessions, mem.accounts, n.accounts, s)
      BY <2>2 DEF Swept, OthersRows, Parts
    <2>4. SameHeld(mem.apiTokens, n.apiTokens, mem.accounts, n.accounts, s)
      BY <2>2 DEF Swept, OthersRows, Parts
    <2> QED BY <2>1, <2>3, <2>4
  <1> QED BY <1>5, <1>6, <1>7, <1>9, <1>10, <1>11 DEF SameFor

\* The rows whose owner is there.
Tenanted(tenants, table) == {r \in table : P!Has(tenants, r.tenant)}
Hosted(hosts, table) == {r \in table : P!HasIn(hosts, r.tenant, r.row.host)}
Held(accounts, table) == {r \in table : P!Has(accounts, r.row.account)}
Ruled(rules, table) == {r \in table : P!HasIn(rules, r.tenant, r.id[1])}
Given(jobs, table) == {r \in table : P!HasIn(jobs, r.tenant, r.id)}
Signed(tenants, table) == {r \in table : r.tenant = Platform \/ P!Has(tenants, r.tenant)}

\* ON DELETE CASCADE, table by table.
LEMMA CascadeIs ==
    ASSUME NEW base, DOMAIN base = P!Postgres, NEW c, c = P!Cascade(base), NEW hosts, NEW jobs, NEW rules, NEW accounts,
           hosts = Tenanted(base.tenants, base.hosts), jobs = Hosted(hosts, base.jobs),
           rules = Tenanted(base.tenants, base.alert_rules), accounts = Signed(base.tenants, base.accounts)
    PROVE  /\ DOMAIN c = P!Postgres
           /\ c.tenants = base.tenants /\ c.hosts = hosts /\ c.jobs = jobs /\ c.alert_rules = rules /\ c.accounts = accounts
           /\ c.enrollment_tokens = Tenanted(base.tenants, base.enrollment_tokens)
           /\ c.templates = Tenanted(base.tenants, base.templates)
           /\ c.template_archivals = Tenanted(base.tenants, base.template_archivals)
           /\ c.events = Tenanted(base.tenants, base.events)
           /\ c.wallboard_shares = Tenanted(base.tenants, base.wallboard_shares)
           /\ c.alert_states = Ruled(rules, base.alert_states)
           /\ c.certificates = Hosted(hosts, base.certificates)
           /\ c.unit_transitions = Hosted(hosts, base.unit_transitions)
           /\ c.job_results = Given(jobs, base.job_results)
           /\ c.sessions = Held(accounts, base.sessions) /\ c.api_tokens = Held(accounts, base.api_tokens)
  <1>1. c = [base EXCEPT
            !.enrollment_tokens = Tenanted(base.tenants, base.enrollment_tokens),
            !.templates = Tenanted(base.tenants, base.templates),
            !.template_archivals = Tenanted(base.tenants, base.template_archivals),
            !.events = Tenanted(base.tenants, base.events),
            !.wallboard_shares = Tenanted(base.tenants, base.wallboard_shares), !.alert_rules = rules,
            !.alert_states = Ruled(rules, base.alert_states),
            !.hosts = hosts, !.certificates = Hosted(hosts, base.certificates),
            !.unit_transitions = Hosted(hosts, base.unit_transitions),
            !.jobs = jobs, !.job_results = Given(jobs, base.job_results),
            !.accounts = accounts, !.sessions = Held(accounts, base.sessions), !.api_tokens = Held(accounts, base.api_tokens)]
    BY Shared DEF P!Cascade, Tenanted, Hosted, Held, Ruled, Given, Signed
  <1>2. DOMAIN c = P!Postgres
    BY <1>1
  <1>3. c.tenants = base.tenants /\ c.hosts = hosts
        /\ c.jobs = jobs /\ c.alert_rules = rules
    BY <1>1 DEF P!Postgres
  <1>4. c.accounts = accounts /\ c.enrollment_tokens = Tenanted(base.tenants, base.enrollment_tokens)
        /\ c.templates = Tenanted(base.tenants, base.templates) /\ c.template_archivals = Tenanted(base.tenants, base.template_archivals)
    BY <1>1 DEF P!Postgres
  <1>5. c.events = Tenanted(base.tenants, base.events) /\ c.wallboard_shares = Tenanted(base.tenants, base.wallboard_shares)
        /\ c.alert_states = Ruled(rules, base.alert_states) /\ c.certificates = Hosted(hosts, base.certificates)
    BY <1>1 DEF P!Postgres
  <1>6. c.unit_transitions = Hosted(hosts, base.unit_transitions) /\ c.job_results = Given(jobs, base.job_results)
        /\ c.sessions = Held(accounts, base.sessions) /\ c.api_tokens = Held(accounts, base.api_tokens)
    BY <1>1 DEF P!Postgres
  <1> QED BY <1>2, <1>3, <1>4, <1>5, <1>6

\* The row of a key is in the table.
LEMMA Members ==
    ASSUME NEW f, NEW k \in DOMAIN f
    PROVE  KeyedRow(f, k) \in Keyed(f) /\ OwnedRow(f, k) \in Owned(f)
           /\ InsideRow(f, k) \in Inside(f) /\ TwiceRow(f, k) \in InsideTwice(f)
  BY DEF Keyed, Owned, Inside, InsideTwice, KeyedRow, OwnedRow, InsideRow, TwiceRow

\* The table of a part of a map is a part of its table.
LEMMA PartRows ==
    ASSUME NEW f, NEW g, Part(f, g), NEW T
    PROVE  /\ T \subseteq Keyed(f) /\ (\A k \in DOMAIN f : KeyedRow(f, k) \in T <=> k \in DOMAIN g) => T = Keyed(g)
           /\ T \subseteq Owned(f) /\ (\A k \in DOMAIN f : OwnedRow(f, k) \in T <=> k \in DOMAIN g) => T = Owned(g)
           /\ T \subseteq Inside(f) /\ (\A k \in DOMAIN f : InsideRow(f, k) \in T <=> k \in DOMAIN g) => T = Inside(g)
           /\ T \subseteq InsideTwice(f) /\ (\A k \in DOMAIN f : TwiceRow(f, k) \in T <=> k \in DOMAIN g)
              => T = InsideTwice(g)
  <1>1. DOMAIN g \subseteq DOMAIN f /\ \A k \in DOMAIN g : f[k] = g[k]
    BY DEF Part
  <1>2. \A k \in DOMAIN g : /\ KeyedRow(f, k) = KeyedRow(g, k) /\ OwnedRow(f, k) = OwnedRow(g, k)
                            /\ InsideRow(f, k) = InsideRow(g, k) /\ TwiceRow(f, k) = TwiceRow(g, k)
    BY <1>1, SameRow
  <1>3. ASSUME T \subseteq Keyed(f), \A k \in DOMAIN f : KeyedRow(f, k) \in T <=> k \in DOMAIN g, NEW r
        PROVE  r \in T <=> r \in Keyed(g)
    BY <1>1, <1>2, <1>3, Tables
  <1>4. ASSUME T \subseteq Owned(f), \A k \in DOMAIN f : OwnedRow(f, k) \in T <=> k \in DOMAIN g, NEW r
        PROVE  r \in T <=> r \in Owned(g)
    BY <1>1, <1>2, <1>4, Tables
  <1>5. ASSUME T \subseteq Inside(f), \A k \in DOMAIN f : InsideRow(f, k) \in T <=> k \in DOMAIN g, NEW r
        PROVE  r \in T <=> r \in Inside(g)
    BY <1>1, <1>2, <1>5, Tables
  <1>6. ASSUME T \subseteq InsideTwice(f), \A k \in DOMAIN f : TwiceRow(f, k) \in T <=> k \in DOMAIN g, NEW r
        PROVE  r \in T <=> r \in InsideTwice(g)
    BY <1>1, <1>2, <1>6, Tables
  <1> QED BY <1>3, <1>4, <1>5, <1>6

\* Of the rows whose fleet is there ...
LEMMA TenantedRows ==
    ASSUME NEW fleets, NEW f, NEW g, Part(f, g)
    PROVE  /\ (\A k \in DOMAIN f : k \in DOMAIN g <=> f[k].tenant \in DOMAIN fleets)
              => Tenanted(Keyed(fleets), Owned(f)) = Owned(g)
           /\ (\A k \in DOMAIN f : k \in DOMAIN g <=> k[1] \in DOMAIN fleets)
              => Tenanted(Keyed(fleets), Inside(f)) = Inside(g)
           /\ (\A k \in DOMAIN f : k \in DOMAIN g <=> k[1] \in DOMAIN fleets)
              => Tenanted(Keyed(fleets), InsideTwice(f)) = InsideTwice(g)
  <1>1. \A r, table : r \in Tenanted(Keyed(fleets), table) <=> r \in table /\ r.tenant \in DOMAIN fleets
    BY KeyedHas DEF Tenanted
  <1>2. ASSUME \A k \in DOMAIN f : k \in DOMAIN g <=> f[k].tenant \in DOMAIN fleets
        PROVE  Tenanted(Keyed(fleets), Owned(f)) = Owned(g)
    <2> DEFINE T == Tenanted(Keyed(fleets), Owned(f))
    <2>1. T \subseteq Owned(f)
      BY <1>1
    <2>2. ASSUME NEW k \in DOMAIN f PROVE OwnedRow(f, k) \in T <=> k \in DOMAIN g
      <3>1. OwnedRow(f, k).tenant = f[k].tenant
        BY DEF OwnedRow
      <3> QED BY <1>1, <1>2, <3>1, Members
    <2> HIDE DEF T
    <2>3. T = Owned(g)
      BY <2>1, <2>2, PartRows
    <2> QED BY <2>3 DEF T
  <1>3. ASSUME \A k \in DOMAIN f : k \in DOMAIN g <=> k[1] \in DOMAIN fleets
        PROVE  Tenanted(Keyed(fleets), Inside(f)) = Inside(g)
    <2> DEFINE T == Tenanted(Keyed(fleets), Inside(f))
    <2>1. T \subseteq Inside(f)
      BY <1>1
    <2>2. ASSUME NEW k \in DOMAIN f PROVE InsideRow(f, k) \in T <=> k \in DOMAIN g
      <3>1. InsideRow(f, k).tenant = k[1]
        BY DEF InsideRow
      <3> QED BY <1>1, <1>3, <3>1, Members
    <2> HIDE DEF T
    <2>3. T = Inside(g)
      BY <2>1, <2>2, PartRows
    <2> QED BY <2>3 DEF T
  <1>4. ASSUME \A k \in DOMAIN f : k \in DOMAIN g <=> k[1] \in DOMAIN fleets
        PROVE  Tenanted(Keyed(fleets), InsideTwice(f)) = InsideTwice(g)
    <2> DEFINE T == Tenanted(Keyed(fleets), InsideTwice(f))
    <2>1. T \subseteq InsideTwice(f)
      BY <1>1
    <2>2. ASSUME NEW k \in DOMAIN f PROVE TwiceRow(f, k) \in T <=> k \in DOMAIN g
      <3>1. TwiceRow(f, k).tenant = k[1]
        BY DEF TwiceRow
      <3> QED BY <1>1, <1>4, <3>1, Members
    <2> HIDE DEF T
    <2>3. T = InsideTwice(g)
      BY <2>1, <2>2, PartRows
    <2> QED BY <2>3 DEF T
  <1> QED BY <1>2, <1>3, <1>4

\* ... whose host is ...
LEMMA HostedRows ==
    ASSUME NEW hosts, NEW f, NEW g, Part(f, g)
    PROVE  /\ (\A k \in DOMAIN f : k \in DOMAIN g <=> <<f[k].tenant, f[k].row.host>> \in Homes(hosts))
              => Hosted(Owned(hosts), Owned(f)) = Owned(g)
           /\ (\A k \in DOMAIN f : k \in DOMAIN g <=> <<k[1], f[k].host>> \in Homes(hosts))
              => Hosted(Owned(hosts), Inside(f)) = Inside(g)
  <1>1. \A t, h : P!HasIn(Owned(hosts), t, h) <=> <<t, h>> \in Homes(hosts)
    <2>1. \A t, h : P!HasIn(Owned(hosts), t, h) <=> h \in DOMAIN hosts /\ hosts[h].tenant = t
      BY OwnedHas
    <2> QED BY <2>1 DEF Homes
  <1>2. \A r, table : r \in Hosted(Owned(hosts), table) <=> r \in table /\ <<r.tenant, r.row.host>> \in Homes(hosts)
    BY <1>1 DEF Hosted
  <1>3. ASSUME \A k \in DOMAIN f : k \in DOMAIN g <=> <<f[k].tenant, f[k].row.host>> \in Homes(hosts)
        PROVE  Hosted(Owned(hosts), Owned(f)) = Owned(g)
    <2> DEFINE T == Hosted(Owned(hosts), Owned(f))
    <2>1. T \subseteq Owned(f)
      BY <1>2
    <2>2. ASSUME NEW k \in DOMAIN f PROVE OwnedRow(f, k) \in T <=> k \in DOMAIN g
      <3>1. OwnedRow(f, k) \in Owned(f) /\ OwnedRow(f, k).tenant = f[k].tenant /\ OwnedRow(f, k).row = f[k].row
        BY Members DEF OwnedRow
      <3> QED BY <1>2, <1>3, <3>1
    <2> HIDE DEF T
    <2>3. T = Owned(g)
      BY <2>1, <2>2, PartRows
    <2> QED BY <2>3 DEF T
  <1>4. ASSUME \A k \in DOMAIN f : k \in DOMAIN g <=> <<k[1], f[k].host>> \in Homes(hosts)
        PROVE  Hosted(Owned(hosts), Inside(f)) = Inside(g)
    <2> DEFINE T == Hosted(Owned(hosts), Inside(f))
    <2>1. T \subseteq Inside(f)
      BY <1>2
    <2>2. ASSUME NEW k \in DOMAIN f PROVE InsideRow(f, k) \in T <=> k \in DOMAIN g
      <3>1. InsideRow(f, k) \in Inside(f) /\ InsideRow(f, k).tenant = k[1] /\ InsideRow(f, k).row = f[k]
        BY Members DEF InsideRow
      <3> QED BY <1>2, <1>4, <3>1
    <2> HIDE DEF T
    <2>3. T = Inside(g)
      BY <2>1, <2>2, PartRows
    <2> QED BY <2>3 DEF T
  <1> QED BY <1>3, <1>4

\* ... whose account is, whose rule is, whose job is.
LEMMA OtherRows ==
    ASSUME NEW owners, NEW f, NEW g, Part(f, g), NEW A, NEW B, NEW C
    PROVE  /\ (\A k \in DOMAIN f : k \in DOMAIN g <=> f[k].account \in DOMAIN owners)
              => Held(Owned(owners), Keyed(f)) = Keyed(g)
           /\ DOMAIN owners \subseteq A \X B /\ (\A k \in DOMAIN f : k \in DOMAIN g <=> <<k[1], k[2]>> \in DOMAIN owners)
              => Ruled(Inside(owners), InsideTwice(f)) = InsideTwice(g)
           /\ DOMAIN owners \subseteq A \X B /\ DOMAIN f \subseteq A \X C /\ (\A k \in DOMAIN f : k \in DOMAIN g <=> k \in DOMAIN owners)
              => Given(Inside(owners), Inside(f)) = Inside(g)
  <1>1. ASSUME \A k \in DOMAIN f : k \in DOMAIN g <=> f[k].account \in DOMAIN owners
        PROVE  Held(Owned(owners), Keyed(f)) = Keyed(g)
    <2> DEFINE T == Held(Owned(owners), Keyed(f))
    <2>1. \A r : r \in T <=> r \in Keyed(f) /\ r.row.account \in DOMAIN owners
      BY OwnedHas DEF Held
    <2>2. T \subseteq Keyed(f)
      BY <2>1
    <2>3. ASSUME NEW k \in DOMAIN f PROVE KeyedRow(f, k) \in T <=> k \in DOMAIN g
      <3>1. KeyedRow(f, k).row = f[k]
        BY DEF KeyedRow
      <3> QED BY <1>1, <2>1, <3>1, Members
    <2> HIDE DEF T
    <2>4. T = Keyed(g)
      BY <2>2, <2>3, PartRows
    <2> QED BY <2>4 DEF T
  <1>2. ASSUME DOMAIN owners \subseteq A \X B, \A k \in DOMAIN f : k \in DOMAIN g <=> <<k[1], k[2]>> \in DOMAIN owners
        PROVE  Ruled(Inside(owners), InsideTwice(f)) = InsideTwice(g)
    <2> DEFINE T == Ruled(Inside(owners), InsideTwice(f))
    <2>1. \A t, x : P!HasIn(Inside(owners), t, x) <=> <<t, x>> \in DOMAIN owners
      BY <1>2, InsideHas
    <2>2. \A r : r \in T <=> r \in InsideTwice(f) /\ <<r.tenant, r.id[1]>> \in DOMAIN owners
      BY <2>1 DEF Ruled
    <2>3. T \subseteq InsideTwice(f)
      BY <2>2
    <2>4. ASSUME NEW k \in DOMAIN f PROVE TwiceRow(f, k) \in T <=> k \in DOMAIN g
      <3>1. TwiceRow(f, k) \in InsideTwice(f) /\ TwiceRow(f, k).tenant = k[1] /\ TwiceRow(f, k).id[1] = k[2]
        BY Members DEF TwiceRow
      <3> QED BY <1>2, <2>2, <3>1
    <2> HIDE DEF T
    <2>5. T = InsideTwice(g)
      BY <2>3, <2>4, PartRows
    <2> QED BY <2>5 DEF T
  <1>3. ASSUME DOMAIN owners \subseteq A \X B, DOMAIN f \subseteq A \X C, \A k \in DOMAIN f : k \in DOMAIN g <=> k \in DOMAIN owners
        PROVE  Given(Inside(owners), Inside(f)) = Inside(g)
    <2> DEFINE T == Given(Inside(owners), Inside(f))
    <2>1. \A t, x : P!HasIn(Inside(owners), t, x) <=> <<t, x>> \in DOMAIN owners
      BY <1>3, InsideHas
    <2>2. \A r : r \in T <=> r \in Inside(f) /\ <<r.tenant, r.id>> \in DOMAIN owners
      BY <2>1 DEF Given
    <2>3. T \subseteq Inside(f)
      BY <2>2
    <2>4. ASSUME NEW k \in DOMAIN f PROVE InsideRow(f, k) \in T <=> k \in DOMAIN g
      <3>1. InsideRow(f, k) \in Inside(f) /\ InsideRow(f, k).tenant = k[1] /\ InsideRow(f, k).id = k[2]
        BY Members DEF InsideRow
      <3>2. k = <<k[1], k[2]>>
        BY <1>3
      <3> QED BY <1>3, <2>2, <3>1, <3>2
    <2> HIDE DEF T
    <2>5. T = Inside(g)
      BY <2>3, <2>4, PartRows
    <2> QED BY <2>5 DEF T
  <1> QED BY <1>1, <1>2, <1>3

\* What the database cascades to is what the memory store sweeps by hand.
LEMMA SweptMirrors ==
    ASSUME Paired, NEW n, NEW side, Swept(n, side),
           NEW base, PgOnly(base, {"tenants", "hosts", "alert_rules", "accounts"}), base.tenants = Keyed(n.tenants),
           Tenanted(base.tenants, base.hosts) = Owned(n.hosts),
           Tenanted(base.tenants, base.alert_rules) = Inside(n.rules),
           Signed(base.tenants, base.accounts) = Owned(n.accounts), NEW c, c = P!Cascade(base)
    PROVE  Mirrors(n, c)
  <1> DEFINE fleets == n.tenants
             jobs == Hosted(Owned(n.hosts), base.jobs)
  <1>1. /\ DOMAIN base = P!Postgres /\ base.enrollment_tokens = Owned(mem.tokens) /\ base.certificates = Owned(mem.certs)
        /\ base.jobs = Inside(mem.records) /\ base.job_results = Inside(mem.results)
        /\ base.templates = InsideTwice(mem.templates) /\ base.template_archivals = Inside(mem.archivedTemplates)
        /\ base.events = EventRows(mem.events)
        /\ base.unit_transitions = HistoryTable(mem.transitions, Homes(mem.hosts))
        /\ base.alert_states = InsideTwice(mem.states) /\ base.sessions = Keyed(mem.sessions)
        /\ base.api_tokens = Keyed(mem.apiTokens) /\ base.wallboard_shares = Owned(mem.shares)
    <2>1. /\ DOMAIN base = P!Postgres
          /\ base.enrollment_tokens = pg.enrollment_tokens /\ base.certificates = pg.certificates
          /\ base.jobs = pg.jobs /\ base.job_results = pg.job_results
          /\ base.templates = pg.templates /\ base.template_archivals = pg.template_archivals
          /\ base.events = pg.events /\ base.unit_transitions = pg.unit_transitions
          /\ base.alert_states = pg.alert_states /\ base.sessions = pg.sessions
          /\ base.api_tokens = pg.api_tokens /\ base.wallboard_shares = pg.wallboard_shares
      BY DEF PgOnly, P!Postgres
    <2> QED BY <2>1 DEF Paired, Lockstep, Mirrors, EventRows
  <1>2. /\ DOMAIN c = P!Postgres
        /\ c.tenants = Keyed(fleets) /\ c.hosts = Owned(n.hosts) /\ c.jobs = jobs /\ c.alert_rules = Inside(n.rules)
        /\ c.accounts = Owned(n.accounts)
        /\ c.enrollment_tokens = Tenanted(Keyed(fleets), base.enrollment_tokens)
        /\ c.templates = Tenanted(Keyed(fleets), base.templates)
        /\ c.template_archivals = Tenanted(Keyed(fleets), base.template_archivals)
        /\ c.events = Tenanted(Keyed(fleets), base.events)
        /\ c.wallboard_shares = Tenanted(Keyed(fleets), base.wallboard_shares)
        /\ c.alert_states = Ruled(Inside(n.rules), base.alert_states)
        /\ c.certificates = Hosted(Owned(n.hosts), base.certificates)
        /\ c.unit_transitions = Hosted(Owned(n.hosts), base.unit_transitions)
        /\ c.job_results = Given(jobs, base.job_results)
        /\ c.sessions = Held(Owned(n.accounts), base.sessions) /\ c.api_tokens = Held(Owned(n.accounts), base.api_tokens)
    BY <1>1, CascadeIs
  <1> HIDE DEF jobs
  <1>3. Parts(n) /\ FleetsRows(n) /\ HostsRows(n) /\ OthersRows(n)
    BY DEF Swept
  <1>4. c.enrollment_tokens = Owned(n.tokens)
    <2>1. \A k \in DOMAIN mem.tokens : k \in DOMAIN n.tokens <=> mem.tokens[k].tenant \in DOMAIN fleets
      BY <1>3 DEF FleetsRows
    <2>2. Part(mem.tokens, n.tokens)
      BY <1>3 DEF Parts
    <2>3. Tenanted(Keyed(fleets), Owned(mem.tokens)) = Owned(n.tokens)
      <3> HIDE DEF fleets
      <3> QED BY <2>1, <2>2, TenantedRows
    <2> QED BY <2>3, <1>1, <1>2
  <1>5. c.wallboard_shares = Owned(n.shares)
    <2>1. \A k \in DOMAIN mem.shares : k \in DOMAIN n.shares <=> mem.shares[k].tenant \in DOMAIN fleets
      BY <1>3 DEF FleetsRows
    <2>2. Part(mem.shares, n.shares)
      BY <1>3 DEF Parts
    <2>3. Tenanted(Keyed(fleets), Owned(mem.shares)) = Owned(n.shares)
      <3> HIDE DEF fleets
      <3> QED BY <2>1, <2>2, TenantedRows
    <2> QED BY <2>3, <1>1, <1>2
  <1>6. c.templates = InsideTwice(n.templates)
    <2>1. \A k \in DOMAIN mem.templates : k \in DOMAIN n.templates <=> k[1] \in DOMAIN fleets
      BY <1>3 DEF FleetsRows
    <2>2. Part(mem.templates, n.templates)
      BY <1>3 DEF Parts
    <2>3. Tenanted(Keyed(fleets), InsideTwice(mem.templates)) = InsideTwice(n.templates)
      <3> HIDE DEF fleets
      <3> QED BY <2>1, <2>2, TenantedRows
    <2> QED BY <2>3, <1>1, <1>2
  <1>7. c.template_archivals = Inside(n.archivedTemplates)
    <2>1. \A k \in DOMAIN mem.archivedTemplates : k \in DOMAIN n.archivedTemplates <=> k[1] \in DOMAIN fleets
      BY <1>3 DEF FleetsRows
    <2>2. Part(mem.archivedTemplates, n.archivedTemplates)
      BY <1>3 DEF Parts
    <2>3. Tenanted(Keyed(fleets), Inside(mem.archivedTemplates)) = Inside(n.archivedTemplates)
      BY <2>1, <2>2, TenantedRows, ZenonT(30)
    <2> QED BY <2>3, <1>1, <1>2
  <1>8. c.certificates = Owned(n.certs)
    BY <1>1, <1>2, <1>3, HostedRows DEF Parts, HostsRows
  <1>9. c.jobs = Inside(n.records)
    <2>1. \A k \in DOMAIN mem.records : k \in DOMAIN n.records <=> <<k[1], mem.records[k].host>> \in Homes(n.hosts)
      BY <1>3 DEF HostsRows
    <2>2. Part(mem.records, n.records)
      BY <1>3 DEF Parts
    <2>3. Hosted(Owned(n.hosts), Inside(mem.records)) = Inside(n.records)
      BY <2>1, <2>2, HostedRows
    <2> QED BY <2>3, <1>1, <1>2 DEF jobs
  <1>10. c.job_results = Inside(n.results)
    <2>1. DOMAIN mem.records \subseteq Tenants \X JobIDs /\ DOMAIN mem.results \subseteq Tenants \X JobIDs
      BY DEF Paired, Lockstep, Good, JobsGood, MapsTo
    <2>2. DOMAIN n.records \subseteq Tenants \X JobIDs
      BY <2>1, <1>3 DEF Parts, Part
    <2>3. \A k \in DOMAIN mem.results : k \in DOMAIN n.results <=> k \in DOMAIN n.records
      BY <1>3 DEF HostsRows
    <2>4. Part(mem.results, n.results)
      BY <1>3 DEF Parts
    <2>5. Given(Inside(n.records), Inside(mem.results)) = Inside(n.results)
      BY <2>1, <2>2, <2>3, <2>4, OtherRows, SMTT(30)
    <2> QED BY <2>5, <1>1, <1>2, <1>9
  <1>11. c.alert_states = InsideTwice(n.states)
    <2>1. DOMAIN mem.rules \subseteq Tenants \X RuleIDs
      BY DEF Paired, Lockstep, Good, RulesGood, MapsTo
    <2>2. DOMAIN n.rules \subseteq Tenants \X RuleIDs
      BY <2>1, <1>3 DEF Parts, Part
    <2>3. \A k \in DOMAIN mem.states : k \in DOMAIN n.states <=> <<k[1], k[2]>> \in DOMAIN n.rules
      BY <1>3 DEF OthersRows
    <2>4. Part(mem.states, n.states)
      BY <1>3 DEF Parts
    <2>5. Ruled(Inside(n.rules), InsideTwice(mem.states)) = InsideTwice(n.states)
      BY <2>2, <2>3, <2>4, OtherRows, ZenonT(30)
    <2> QED BY <2>5, <1>1, <1>2
  <1>12. c.sessions = Keyed(n.sessions)
    <2>1. \A k \in DOMAIN mem.sessions : k \in DOMAIN n.sessions <=> mem.sessions[k].account \in DOMAIN n.accounts
      BY <1>3 DEF OthersRows
    <2>2. Part(mem.sessions, n.sessions)
      BY <1>3 DEF Parts
    <2>3. Held(Owned(n.accounts), Keyed(mem.sessions)) = Keyed(n.sessions)
      BY <2>1, <2>2, OtherRows
    <2> QED BY <2>3, <1>1, <1>2
  <1>13. c.api_tokens = Keyed(n.apiTokens)
    <2>1. \A k \in DOMAIN mem.apiTokens : k \in DOMAIN n.apiTokens <=> mem.apiTokens[k].account \in DOMAIN n.accounts
      BY <1>3 DEF OthersRows
    <2>2. Part(mem.apiTokens, n.apiTokens)
      BY <1>3 DEF Parts
    <2>3. Held(Owned(n.accounts), Keyed(mem.apiTokens)) = Keyed(n.apiTokens)
      BY <2>1, <2>2, OtherRows
    <2> QED BY <2>3, <1>1, <1>2
  <1>14. c.events = {EventRow(n.events[i]) : i \in DOMAIN n.events}
    <2> DEFINE f == mem.events
               g == n.events
    <2>1. DOMAIN g \subseteq DOMAIN f /\ \A i \in DOMAIN g : g[i] = f[i]
      BY <1>3 DEF Parts, Part
    <2>2. \A i \in DOMAIN f : i \in DOMAIN g <=> f[i].tenant \in DOMAIN fleets
      BY <1>3 DEF FleetsRows
    <2>3. \A i \in DOMAIN f : EventRow(f[i]).tenant = f[i].tenant
      BY DEF EventRow
    <2>4. \A r : r \in EventRows(f) <=> \E i \in DOMAIN f : r = EventRow(f[i])
      BY DEF EventRows
    <2>5. \A r : r \in EventRows(g) <=> \E i \in DOMAIN g : r = EventRow(g[i])
      BY DEF EventRows
    <2>6. \A r : r \in Tenanted(Keyed(fleets), EventRows(f)) <=> r \in EventRows(f) /\ r.tenant \in DOMAIN fleets
      BY KeyedHas DEF Tenanted
    <2> HIDE DEF f, g, fleets
    <2>7. ASSUME NEW r PROVE r \in Tenanted(Keyed(fleets), EventRows(f)) <=> r \in EventRows(g)
      BY <2>1, <2>2, <2>3, <2>4, <2>5, <2>6
    <2>8. Tenanted(Keyed(fleets), EventRows(f)) = EventRows(g)
      BY <2>7
    <2> QED BY <2>8, <1>1, <1>2 DEF f, g, EventRows
  <1>15. c.unit_transitions = HistoryTable(n.transitions, Homes(n.hosts))
    <2> DEFINE f == mem.transitions
               g == n.transitions
               old == HistoryTable(f, Homes(mem.hosts))
               new == HistoryTable(g, Homes(n.hosts))
    <2>1. DOMAIN g \subseteq DOMAIN f /\ \A i \in DOMAIN g : g[i] = f[i]
      BY <1>3 DEF Parts, Part
    <2>2. \A i \in DOMAIN f : i \in DOMAIN g <=> f[i].tenant \in DOMAIN fleets
      BY <1>3 DEF FleetsRows
    <2>3. \A i \in DOMAIN f : TransitionRow(f[i]).tenant = f[i].tenant /\ TransitionRow(f[i]).row.host = f[i].host
      BY DEF TransitionRow
    <2>4. \A r : r \in old <=> \E i \in DOMAIN f : <<f[i].tenant, f[i].host>> \in Homes(mem.hosts) /\ r = TransitionRow(f[i])
      BY DEF HistoryTable, Visible
    <2>5. \A r : r \in new <=> \E i \in DOMAIN g : <<g[i].tenant, g[i].host>> \in Homes(n.hosts) /\ r = TransitionRow(g[i])
      BY DEF HistoryTable, Visible
    <2>6. \A t, h : P!HasIn(Owned(n.hosts), t, h) <=> <<t, h>> \in Homes(n.hosts)
      <3>1. \A t, h : P!HasIn(Owned(n.hosts), t, h) <=> h \in DOMAIN n.hosts /\ n.hosts[h].tenant = t
        BY OwnedHas
      <3> QED BY <3>1 DEF Homes
    <2>7. \A r : r \in Hosted(Owned(n.hosts), old) <=> r \in old /\ <<r.tenant, r.row.host>> \in Homes(n.hosts)
      BY <2>6 DEF Hosted
    <2>8. Homes(n.hosts) \subseteq Homes(mem.hosts)
      BY <1>3, PartHomes DEF Parts
    <2>9. ASSUME NEW i \in DOMAIN f, <<f[i].tenant, f[i].host>> \in Homes(n.hosts) PROVE i \in DOMAIN g
      <3>1. f[i].tenant \in DOMAIN fleets
        BY <2>9 DEF Swept, OwnersGone, Homes
      <3> QED BY <3>1, <2>2
    <2> HIDE DEF f, g, fleets, old, new
    <2>10. ASSUME NEW r PROVE r \in Hosted(Owned(n.hosts), old) <=> r \in new
      <3>1. ASSUME r \in new PROVE r \in Hosted(Owned(n.hosts), old)
        <4>1. PICK i \in DOMAIN g : <<g[i].tenant, g[i].host>> \in Homes(n.hosts) /\ r = TransitionRow(g[i])
          BY <3>1, <2>5
        <4>2. i \in DOMAIN f /\ g[i] = f[i] /\ <<f[i].tenant, f[i].host>> \in Homes(mem.hosts)
          BY <4>1, <2>1, <2>8
        <4>3. r \in old
          BY <4>1, <4>2, <2>4
        <4>4. r.tenant = g[i].tenant /\ r.row.host = g[i].host
          BY <4>1, <4>2, <2>3
        <4> QED BY <4>1, <4>3, <4>4, <2>7
      <3>2. ASSUME r \in Hosted(Owned(n.hosts), old) PROVE r \in new
        <4>1. r \in old /\ <<r.tenant, r.row.host>> \in Homes(n.hosts)
          BY <3>2, <2>7
        <4>2. PICK i \in DOMAIN f : r = TransitionRow(f[i])
          BY <4>1, <2>4
        <4>3. <<f[i].tenant, f[i].host>> \in Homes(n.hosts)
          BY <4>1, <4>2, <2>3
        <4>4. i \in DOMAIN g /\ g[i] = f[i]
          BY <4>3, <2>1, <2>9
        <4> QED BY <4>2, <4>3, <4>4, <2>5
      <3> QED BY <3>1, <3>2
    <2>11. Hosted(Owned(n.hosts), old) = new
      BY <2>10
    <2> QED BY <2>11, <1>1, <1>2 DEF old, new, f, g
  <1> QED BY <1>2, <1>4, <1>5, <1>6, <1>7, <1>8, <1>9, <1>10, <1>11, <1>12, <1>13, <1>14, <1>15 DEF Mirrors

\* A deletion done.
LEMMA SweptAlike ==
    ASSUME Paired, NEW n, NEW side, Swept(n, side),
           NEW base, PgOnly(base, {"tenants", "hosts", "alert_rules", "accounts"}), base.tenants = Keyed(n.tenants),
           Tenanted(base.tenants, base.hosts) = Owned(n.hosts),
           Tenanted(base.tenants, base.alert_rules) = Inside(n.rules),
           Signed(base.tenants, base.accounts) = Owned(n.accounts)
    PROVE  Alike(side, Done(n), Done(P!Cascade(base)))
  <1>1. Mirrors(n, P!Cascade(base))
    BY SweptMirrors
  <1>2. Lockstep(n, P!Cascade(base)) /\ Apart(side, n)
    BY <1>1, SweptGood, SweptApart DEF Lockstep
  <1> QED BY <1>2, DoneAlike

\* A map without some keys is a part of it.
LEMMA PartWithout ==
    ASSUME NEW f, NEW S
    PROVE  /\ Part(f, f) /\ Part(f, Without(f, S))
           /\ \A k \in DOMAIN f : k \in DOMAIN Without(f, S) <=> k \notin S
  BY DEF Part, Without

\* Of the accounts, the platform's own stay whatever fleet goes.
LEMMA SignedRows ==
    ASSUME NEW fleets, NEW f, NEW g, Part(f, g),
           \A k \in DOMAIN f : k \in DOMAIN g <=> f[k].tenant \in DOMAIN fleets \cup {Platform}
    PROVE  Signed(Keyed(fleets), Owned(f)) = Owned(g)
  <1> DEFINE T == Signed(Keyed(fleets), Owned(f))
  <1>1. \A r : r \in T <=> r \in Owned(f) /\ r.tenant \in DOMAIN fleets \cup {Platform}
    BY KeyedHas DEF Signed
  <1>2. ASSUME NEW k \in DOMAIN f PROVE OwnedRow(f, k) \in T <=> k \in DOMAIN g
    <2>1. OwnedRow(f, k).tenant = f[k].tenant
      BY DEF OwnedRow
    <2> QED BY <1>1, <2>1, Members
  <1>3. T \subseteq Owned(f)
    BY <1>1
  <1> HIDE DEF T
  <1>4. T = Owned(g)
    BY <1>2, <1>3, PartRows
  <1> QED BY <1>4 DEF T

\* Where no fleet goes, nobody goes with it.
LEMMA NoneGone ==
    ASSUME NEW fleets, NEW f
    PROVE  /\ (\A k \in DOMAIN f : f[k].tenant \in DOMAIN fleets) => Tenanted(Keyed(fleets), Owned(f)) = Owned(f)
           /\ (\A k \in DOMAIN f : k[1] \in DOMAIN fleets) => Tenanted(Keyed(fleets), Inside(f)) = Inside(f)
           /\ (\A k \in DOMAIN f : f[k].tenant \in DOMAIN fleets \cup {Platform}) => Signed(Keyed(fleets), Owned(f)) = Owned(f)
  <1>1. Part(f, f)
    BY PartWithout
  <1>2. ASSUME \A k \in DOMAIN f : f[k].tenant \in DOMAIN fleets PROVE Tenanted(Keyed(fleets), Owned(f)) = Owned(f)
    <2>1. \A k \in DOMAIN f : k \in DOMAIN f <=> f[k].tenant \in DOMAIN fleets
      BY <1>2
    <2> QED BY <1>1, <2>1, TenantedRows
  <1>3. ASSUME \A k \in DOMAIN f : k[1] \in DOMAIN fleets PROVE Tenanted(Keyed(fleets), Inside(f)) = Inside(f)
    <2>1. \A k \in DOMAIN f : k \in DOMAIN f <=> k[1] \in DOMAIN fleets
      BY <1>3
    <2> QED BY <1>1, <2>1, TenantedRows
  <1>4. ASSUME \A k \in DOMAIN f : f[k].tenant \in DOMAIN fleets \cup {Platform}
        PROVE  Signed(Keyed(fleets), Owned(f)) = Owned(f)
    <2>1. \A k \in DOMAIN f : k \in DOMAIN f <=> f[k].tenant \in DOMAIN fleets \cup {Platform}
      BY <1>4
    <2> QED BY <1>1, <2>1, SignedRows
  <1> QED BY <1>2, <1>3, <1>4

\* The keys under which a tenant's credentials are kept.
HeldThere(f, t) == {k \in DOMAIN f : f[k].account \in M!Beside(mem.accounts, t)}

\* The memory store without one tenant.
Bereft(t) ==
    [mem EXCEPT
        !.tenants = Without(mem.tenants, {t}), !.tokens = Without(mem.tokens, M!Beside(mem.tokens, t)),
        !.hosts = Without(mem.hosts, M!Beside(mem.hosts, t)), !.certs = Without(mem.certs, M!Beside(mem.certs, t)),
        !.jobs = Without(mem.jobs, M!InKey(mem.jobs, t)), !.records = Without(mem.records, M!InKey(mem.records, t)),
        !.results = Without(mem.results, M!InKey(mem.results, t)),
        !.templates = Without(mem.templates, M!InKey(mem.templates, t)),
        !.archivedTemplates = Without(mem.archivedTemplates, M!InKey(mem.archivedTemplates, t)),
        !.events = Without(mem.events, M!Beside(mem.events, t)),
        !.transitions = Without(mem.transitions, M!Beside(mem.transitions, t)),
        !.rules = Without(mem.rules, M!InKey(mem.rules, t)), !.states = Without(mem.states, M!InKey(mem.states, t)),
        !.shares = Without(mem.shares, M!Beside(mem.shares, t)),
        !.accounts = Without(mem.accounts, M!Beside(mem.accounts, t)),
        !.sessions = Without(mem.sessions, HeldThere(mem.sessions, t)),
        !.apiTokens = Without(mem.apiTokens, HeldThere(mem.apiTokens, t))]

\* What it is, map by map.
IsBereft(n, t) ==
    /\ DOMAIN n = M!Memory
    /\ n.tenants = Without(mem.tenants, {t}) /\ n.tokens = Without(mem.tokens, M!Beside(mem.tokens, t))
    /\ n.hosts = Without(mem.hosts, M!Beside(mem.hosts, t)) /\ n.certs = Without(mem.certs, M!Beside(mem.certs, t))
    /\ n.jobs = Without(mem.jobs, M!InKey(mem.jobs, t)) /\ n.records = Without(mem.records, M!InKey(mem.records, t))
    /\ n.results = Without(mem.results, M!InKey(mem.results, t))
    /\ n.templates = Without(mem.templates, M!InKey(mem.templates, t))
    /\ n.archivedTemplates = Without(mem.archivedTemplates, M!InKey(mem.archivedTemplates, t))
    /\ n.events = Without(mem.events, M!Beside(mem.events, t))
    /\ n.transitions = Without(mem.transitions, M!Beside(mem.transitions, t))
    /\ n.rules = Without(mem.rules, M!InKey(mem.rules, t)) /\ n.states = Without(mem.states, M!InKey(mem.states, t))
    /\ n.shares = Without(mem.shares, M!Beside(mem.shares, t))
    /\ n.accounts = Without(mem.accounts, M!Beside(mem.accounts, t))
    /\ n.sessions = Without(mem.sessions, HeldThere(mem.sessions, t))
    /\ n.apiTokens = Without(mem.apiTokens, HeldThere(mem.apiTokens, t))

\* The definition, map by map.
LEMMA BereftIs ==
    ASSUME NEW t, DOMAIN mem = M!Memory, NEW n, n = Bereft(t)
    PROVE  IsBereft(n, t)
  <1>1. DOMAIN n = M!Memory
    BY DEF Bereft
  <1>2. /\ n.tenants = Without(mem.tenants, {t}) /\ n.tokens = Without(mem.tokens, M!Beside(mem.tokens, t))
        /\ n.hosts = Without(mem.hosts, M!Beside(mem.hosts, t)) /\ n.certs = Without(mem.certs, M!Beside(mem.certs, t))
    BY DEF Bereft, M!Memory
  <1>3. /\ n.jobs = Without(mem.jobs, M!InKey(mem.jobs, t)) /\ n.records = Without(mem.records, M!InKey(mem.records, t))
        /\ n.results = Without(mem.results, M!InKey(mem.results, t))
        /\ n.templates = Without(mem.templates, M!InKey(mem.templates, t))
    BY DEF Bereft, M!Memory
  <1>4. /\ n.archivedTemplates = Without(mem.archivedTemplates, M!InKey(mem.archivedTemplates, t))
        /\ n.events = Without(mem.events, M!Beside(mem.events, t))
        /\ n.transitions = Without(mem.transitions, M!Beside(mem.transitions, t))
        /\ n.rules = Without(mem.rules, M!InKey(mem.rules, t))
    BY DEF Bereft, M!Memory
  <1>5. /\ n.states = Without(mem.states, M!InKey(mem.states, t))
        /\ n.shares = Without(mem.shares, M!Beside(mem.shares, t))
        /\ n.accounts = Without(mem.accounts, M!Beside(mem.accounts, t))
    BY DEF Bereft, M!Memory
  <1>6. /\ n.sessions = Without(mem.sessions, HeldThere(mem.sessions, t))
        /\ n.apiTokens = Without(mem.apiTokens, HeldThere(mem.apiTokens, t))
    BY DEF Bereft, M!Memory
  <1> QED BY <1>1, <1>2, <1>3, <1>4, <1>5, <1>6 DEF IsBereft

\* DeleteTenant sweeps whatever the tenant owned, and nothing else.
LEMMA BereftSwept ==
    ASSUME Paired, NEW t \in Tenants, NEW n, IsBereft(n, t)
    PROVE  Swept(n, t)
  <1>1. Good(mem, now, drawn) /\ Platform # t
    BY DefaultTenantAssumption DEF Paired, Lockstep
  <1>2. DOMAIN mem = M!Memory
    BY <1>1 DEF Good
  <1>3. Parts(n)
    BY PartWithout DEF IsBereft, Parts
  <1>4. \A x : x \in DOMAIN n.tenants <=> x \in DOMAIN mem.tenants /\ x # t
    BY DEF IsBereft, Without
  <1>5. /\ \A k \in DOMAIN mem.tokens : k \in DOMAIN n.tokens <=> mem.tokens[k].tenant # t
        /\ \A k \in DOMAIN mem.shares : k \in DOMAIN n.shares <=> mem.shares[k].tenant # t
        /\ \A k \in DOMAIN mem.events : k \in DOMAIN n.events <=> mem.events[k].tenant # t
        /\ \A k \in DOMAIN mem.transitions : k \in DOMAIN n.transitions <=> mem.transitions[k].tenant # t
    BY DEF IsBereft, Without, M!Beside
  <1>6. /\ \A k \in DOMAIN mem.hosts : k \in DOMAIN n.hosts <=> mem.hosts[k].tenant # t
        /\ \A k \in DOMAIN mem.certs : k \in DOMAIN n.certs <=> mem.certs[k].tenant # t
        /\ \A k \in DOMAIN mem.accounts : k \in DOMAIN n.accounts <=> mem.accounts[k].tenant # t
    BY DEF IsBereft, Without, M!Beside
  <1>7. /\ \A k \in DOMAIN mem.templates : k \in DOMAIN n.templates <=> k[1] # t
        /\ \A k \in DOMAIN mem.archivedTemplates : k \in DOMAIN n.archivedTemplates <=> k[1] # t
        /\ \A k \in DOMAIN mem.rules : k \in DOMAIN n.rules <=> k[1] # t
        /\ \A k \in DOMAIN mem.states : k \in DOMAIN n.states <=> k[1] # t
    BY DEF IsBereft, Without, M!InKey
  <1>8. /\ \A k \in DOMAIN mem.jobs : k \in DOMAIN n.jobs <=> k[1] # t
        /\ \A k \in DOMAIN mem.records : k \in DOMAIN n.records <=> k[1] # t
        /\ \A k \in DOMAIN mem.results : k \in DOMAIN n.results <=> k[1] # t
    BY DEF IsBereft, Without, M!InKey
  <1>9. /\ \A k \in DOMAIN mem.sessions : k \in DOMAIN n.sessions <=> mem.sessions[k].account \notin M!Beside(mem.accounts, t)
        /\ \A k \in DOMAIN mem.apiTokens : k \in DOMAIN n.apiTokens <=> mem.apiTokens[k].account \notin M!Beside(mem.accounts, t)
    BY DEF IsBereft, Without, HeldThere
  <1>10. OwnersGone(n, t)
    <2>1. \A h \in DOMAIN n.hosts : h \in DOMAIN mem.hosts /\ n.hosts[h] = mem.hosts[h]
      BY <1>3 DEF Parts, Part
    <2>2. \A h \in DOMAIN n.accounts : h \in DOMAIN mem.accounts /\ n.accounts[h] = mem.accounts[h]
      BY <1>3 DEF Parts, Part
    <2>3. \A h \in DOMAIN n.rules : h \in DOMAIN mem.rules
      BY <1>3 DEF Parts, Part
    <2>4. /\ \A h \in DOMAIN mem.hosts : mem.hosts[h].tenant \in DOMAIN mem.tenants
          /\ \A k \in DOMAIN mem.rules : k[1] \in DOMAIN mem.tenants
          /\ \A a \in DOMAIN mem.accounts : mem.accounts[a].tenant \in DOMAIN mem.tenants \cup {Platform}
      BY <1>1 DEF Good, HostsGood, RulesGood, AccountsGood
    <2> QED BY <2>1, <2>2, <2>3, <2>4, <1>4, <1>6, <1>7 DEF OwnersGone
  <1>11. FleetsRows(n)
    <2>1. /\ \A k \in DOMAIN mem.tokens : mem.tokens[k].tenant \in DOMAIN mem.tenants
          /\ \A k \in DOMAIN mem.shares : mem.shares[k].tenant \in DOMAIN mem.tenants
          /\ \A k \in DOMAIN mem.events : mem.events[k].tenant \in DOMAIN mem.tenants
          /\ \A k \in DOMAIN mem.transitions : mem.transitions[k].tenant \in DOMAIN mem.tenants
          /\ \A k \in DOMAIN mem.templates : k[1] \in DOMAIN mem.tenants
      BY <1>1 DEF Good, TokensGood, SharesGood, EventsGood, TransitionsGood, TemplatesGood
    <2>2. \A k \in DOMAIN mem.archivedTemplates : k[1] \in DOMAIN mem.tenants
      <3>1. \A k \in DOMAIN mem.archivedTemplates : \E x \in DOMAIN mem.templates : x[1] = k[1]
        BY <1>1 DEF Good, TemplatesGood
      <3> QED BY <2>1, <3>1
    <2> QED BY <1>4, <1>5, <1>7, <2>1, <2>2 DEF FleetsRows
  <1>12. HostsRows(n)
    <2>1. ASSUME NEW s, NEW h, <<s, h>> \in Homes(mem.hosts) PROVE <<s, h>> \in Homes(n.hosts) <=> s # t
      <3>1. h \in DOMAIN mem.hosts /\ mem.hosts[h].tenant = s
        BY <2>1 DEF Homes
      <3>2. h \in DOMAIN n.hosts => n.hosts[h] = mem.hosts[h]
        BY <1>3 DEF Parts, Part
      <3>3. <<s, h>> \in Homes(n.hosts) <=> h \in DOMAIN n.hosts /\ n.hosts[h].tenant = s
        BY DEF Homes
      <3> QED BY <3>1, <3>2, <3>3, <1>6
    <2>2. /\ \A k \in DOMAIN mem.certs : <<mem.certs[k].tenant, mem.certs[k].row.host>> \in Homes(mem.hosts)
          /\ \A k \in DOMAIN mem.records : <<k[1], mem.records[k].host>> \in Homes(mem.hosts)
          /\ DOMAIN mem.results \subseteq DOMAIN mem.records
      BY <1>1 DEF Good, CertsGood, JobsGood
    <2>3. ASSUME NEW k \in DOMAIN mem.jobs PROVE k \in DOMAIN n.jobs <=> k \in Homes(n.hosts)
      <3>1. k \in Homes(mem.hosts) /\ k \in Tenants \X HostIDs
        BY <1>1 DEF Good, JobsGood, MapsTo
      <3>2. k = <<k[1], k[2]>>
        BY <3>1
      <3> QED BY <3>1, <3>2, <2>1, <1>8
    <2> QED BY <2>1, <2>2, <2>3, <1>6, <1>8 DEF HostsRows
  <1>13. OthersRows(n)
    <2>1. ASSUME NEW k \in DOMAIN mem.states PROVE k \in DOMAIN n.states <=> <<k[1], k[2]>> \in DOMAIN n.rules
      <3> SUFFICES ASSUME NEW r, r = <<k[1], k[2]>> PROVE k \in DOMAIN n.states <=> r \in DOMAIN n.rules
        OBVIOUS
      <3>1. r \in DOMAIN mem.rules /\ r[1] = k[1]
        BY <1>1 DEF Good, RulesGood
      <3> QED BY <3>1, <1>7
    <2>2. /\ \A k \in DOMAIN mem.sessions : mem.sessions[k].account \in DOMAIN mem.accounts
          /\ \A k \in DOMAIN mem.apiTokens : mem.apiTokens[k].account \in DOMAIN mem.accounts
      BY <1>1 DEF Good, CredentialsGood
    <2>3. \A a : a \in M!Beside(mem.accounts, t) <=> a \in DOMAIN mem.accounts /\ mem.accounts[a].tenant = t
      BY DEF M!Beside
    <2>4. \A a : a \in DOMAIN n.accounts => a \in DOMAIN mem.accounts
      BY <1>3 DEF Parts, Part
    <2> QED BY <2>1, <2>2, <2>3, <2>4, <1>6, <1>9 DEF OthersRows
  <1> QED BY <1>3, <1>10, <1>11, <1>12, <1>13 DEF Swept

\* DeleteTenant, which sweeps by hand what the database cascades, is answered alike.
LEMMA DeleteTenantAlike ==
    ASSUME Paired, NEW t \in Tenants
    PROVE  Alike(t, M!DeleteTenant(mem, t), P!DeleteTenant(pg, t))
  <1>1. /\ DOMAIN mem = M!Memory /\ DOMAIN pg = P!Postgres
        /\ pg.tenants = Keyed(mem.tenants) /\ pg.hosts = Owned(mem.hosts)
        /\ pg.alert_rules = Inside(mem.rules) /\ pg.accounts = Owned(mem.accounts)
    BY DEF Paired, Lockstep, Good, Mirrors
  <1>2. P!Has(pg.tenants, t) <=> t \in DOMAIN mem.tenants
    BY <1>1, KeyedHas
  <1>3. CASE t \notin DOMAIN mem.tenants
    <2>1. M!DeleteTenant(mem, t) = Fail(mem, "ErrNotFound") /\ P!DeleteTenant(pg, t) = Fail(pg, "ErrNotFound")
      BY <1>2, <1>3, Shared DEF M!DeleteTenant, P!DeleteTenant, P!AffectOne
    <2> QED BY <2>1, RefusedAlike DEF Answers
  <1>4. CASE t \in DOMAIN mem.tenants
    <2> DEFINE n == Bereft(t)
               base == [pg EXCEPT !.tenants = {r \in pg.tenants : r.id # t}]
    <2>1. M!DeleteTenant(mem, t) = Done(n)
      BY <1>4, Shared DEF M!DeleteTenant, Bereft, HeldThere
    <2>2. P!DeleteTenant(pg, t) = Done(P!Cascade(base))
      BY <1>2, <1>4, Shared DEF P!DeleteTenant, P!AffectOne
    <2>3. IsBereft(n, t)
      BY <1>1, BereftIs
    <2>4. DOMAIN base = P!Postgres /\ base.tenants = {r \in pg.tenants : r.id # t}
          /\ base.hosts = pg.hosts /\ base.alert_rules = pg.alert_rules /\ base.accounts = pg.accounts
      BY <1>1 DEF P!Postgres
    <2>5. PgOnly(base, {"tenants", "hosts", "alert_rules", "accounts"})
      BY <1>1 DEF PgOnly, P!Postgres
    <2> HIDE DEF n, base
    <2>6. Swept(n, t)
      BY <2>3, BereftSwept
    <2>7. base.tenants = Keyed(n.tenants)
      <3>1. \A k \in DOMAIN mem.tenants : KeyedRow(mem.tenants, k) \in base.tenants <=> k \notin {t}
        BY <1>1, <2>4, Members DEF KeyedRow
      <3>2. base.tenants = Keyed(Without(mem.tenants, {t}))
        <4>1. base.tenants \subseteq Keyed(mem.tenants)
          BY <1>1, <2>4
        <4> QED BY <3>1, <4>1, Cut
      <3> QED BY <3>2, <2>3 DEF IsBereft
    <2>8. Part(mem.hosts, n.hosts) /\ Part(mem.rules, n.rules) /\ Part(mem.accounts, n.accounts)
      BY <2>6 DEF Swept, Parts
    <2>9. \A x : x \in DOMAIN n.tenants <=> x \in DOMAIN mem.tenants /\ x # t
      BY <2>3 DEF IsBereft, Without
    <2>10. Good(mem, now, drawn) /\ Platform # t
      BY DefaultTenantAssumption DEF Paired, Lockstep
    <2>11. Tenanted(base.tenants, base.hosts) = Owned(n.hosts)
      <3>1. \A k \in DOMAIN mem.hosts : k \in DOMAIN n.hosts <=> mem.hosts[k].tenant # t
        BY <2>3 DEF IsBereft, Without, M!Beside
      <3>2. \A k \in DOMAIN mem.hosts : mem.hosts[k].tenant \in DOMAIN mem.tenants
        BY <2>10 DEF Good, HostsGood
      <3>3. \A k \in DOMAIN mem.hosts : k \in DOMAIN n.hosts <=> mem.hosts[k].tenant \in DOMAIN n.tenants
        BY <3>1, <3>2, <2>9
      <3>4. Tenanted(Keyed(n.tenants), Owned(mem.hosts)) = Owned(n.hosts)
        BY <2>8, <3>3, TenantedRows
      <3> QED BY <1>1, <2>4, <2>7, <3>4
    <2>12. Tenanted(base.tenants, base.alert_rules) = Inside(n.rules)
      <3>1. \A k \in DOMAIN mem.rules : k \in DOMAIN n.rules <=> k[1] # t
        BY <2>3 DEF IsBereft, Without, M!InKey
      <3>2. \A k \in DOMAIN mem.rules : k[1] \in DOMAIN mem.tenants
        BY <2>10 DEF Good, RulesGood
      <3>3. \A k \in DOMAIN mem.rules : k \in DOMAIN n.rules <=> k[1] \in DOMAIN n.tenants
        BY <3>1, <3>2, <2>9
      <3>4. Tenanted(Keyed(n.tenants), Inside(mem.rules)) = Inside(n.rules)
        BY <2>8, <3>3, TenantedRows
      <3> QED BY <1>1, <2>4, <2>7, <3>4
    <2>13. Signed(base.tenants, base.accounts) = Owned(n.accounts)
      <3>1. \A k \in DOMAIN mem.accounts : k \in DOMAIN n.accounts <=> mem.accounts[k].tenant # t
        BY <2>3 DEF IsBereft, Without, M!Beside
      <3>2. \A k \in DOMAIN mem.accounts : mem.accounts[k].tenant \in DOMAIN mem.tenants \cup {Platform}
        BY <2>10 DEF Good, AccountsGood
      <3>3. \A k \in DOMAIN mem.accounts : k \in DOMAIN n.accounts <=> mem.accounts[k].tenant \in DOMAIN n.tenants \cup {Platform}
        BY <3>1, <3>2, <2>9, <2>10
      <3>4. Signed(Keyed(n.tenants), Owned(mem.accounts)) = Owned(n.accounts)
        BY <2>8, <3>3, SignedRows
      <3> QED BY <1>1, <2>4, <2>7, <3>4
    <2>14. Alike(t, Done(n), Done(P!Cascade(base)))
      BY <2>5, <2>6, <2>7, <2>11, <2>12, <2>13, SweptAlike
    <2> QED BY <2>1, <2>2, <2>14
  <1> QED BY <1>3, <1>4

\* Where no fleet goes, nor a host, what hangs from them stays.
LEMMA FleetsStay ==
    ASSUME Paired, NEW n, n.tenants = mem.tenants, n.tokens = mem.tokens, n.shares = mem.shares, n.events = mem.events,
           n.templates = mem.templates, n.archivedTemplates = mem.archivedTemplates, n.transitions = mem.transitions
    PROVE  FleetsRows(n)
  <1>1. Good(mem, now, drawn)
    BY DEF Paired, Lockstep
  <1>2. /\ \A k \in DOMAIN mem.tokens : mem.tokens[k].tenant \in DOMAIN mem.tenants
        /\ \A k \in DOMAIN mem.shares : mem.shares[k].tenant \in DOMAIN mem.tenants
        /\ \A k \in DOMAIN mem.events : mem.events[k].tenant \in DOMAIN mem.tenants
        /\ \A k \in DOMAIN mem.transitions : mem.transitions[k].tenant \in DOMAIN mem.tenants
        /\ \A k \in DOMAIN mem.templates : k[1] \in DOMAIN mem.tenants
    BY <1>1 DEF Good, TokensGood, SharesGood, EventsGood, TransitionsGood, TemplatesGood
  <1>3. \A k \in DOMAIN mem.archivedTemplates : k[1] \in DOMAIN mem.tenants
    <2>1. \A k \in DOMAIN mem.archivedTemplates : \E x \in DOMAIN mem.templates : x[1] = k[1]
      BY <1>1 DEF Good, TemplatesGood
    <2> QED BY <1>2, <2>1
  <1> QED BY <1>2, <1>3 DEF FleetsRows

\* Where no host goes, nor do its certificates and jobs.
LEMMA HostsStay ==
    ASSUME Paired, NEW n, n.hosts = mem.hosts, n.certs = mem.certs, n.jobs = mem.jobs, n.records = mem.records,
           n.results = mem.results
    PROVE  HostsRows(n)
  <1>1. CertsGood(mem.certs, Homes(mem.hosts)) /\ JobsGood(mem.jobs, mem.records, mem.results, Homes(mem.hosts))
    BY DEF Paired, Lockstep, Good
  <1> QED BY <1>1 DEF HostsRows, CertsGood, JobsGood

\* Where no rule goes, nor does the evaluator's memory of it.
LEMMA RulesStay ==
    ASSUME Paired, NEW n, n.rules = mem.rules, n.states = mem.states
    PROVE  \A k \in DOMAIN mem.states : k \in DOMAIN n.states <=> <<k[1], k[2]>> \in DOMAIN n.rules
  <1>1. RulesGood(mem.rules, mem.states, DOMAIN mem.tenants)
    BY DEF Paired, Lockstep, Good
  <1> QED BY <1>1 DEF RulesGood

\* Where no account goes, nor do its credentials.
LEMMA HoldersStay ==
    ASSUME Paired, NEW n, n.accounts = mem.accounts, n.sessions = mem.sessions, n.apiTokens = mem.apiTokens
    PROVE  /\ \A k \in DOMAIN mem.sessions : k \in DOMAIN n.sessions <=> mem.sessions[k].account \in DOMAIN n.accounts
           /\ \A k \in DOMAIN mem.apiTokens : k \in DOMAIN n.apiTokens <=> mem.apiTokens[k].account \in DOMAIN n.accounts
  <1>1. CredentialsGood(mem.sessions, mem.apiTokens, DOMAIN mem.accounts)
    BY DEF Paired, Lockstep, Good
  <1> QED BY <1>1 DEF CredentialsGood

\* DeleteAccount is answered alike.
LEMMA DeleteAccountAlike ==
    ASSUME Paired, NEW t \in Sides, NEW a
    PROVE  Alike(t, M!DeleteAccount(mem, t, a), P!DeleteAccount(pg, t, a))
  <1>1. /\ DOMAIN mem = M!Memory /\ DOMAIN pg = P!Postgres
        /\ pg.tenants = Keyed(mem.tenants) /\ pg.hosts = Owned(mem.hosts)
        /\ pg.alert_rules = Inside(mem.rules) /\ pg.accounts = Owned(mem.accounts)
    BY DEF Paired, Lockstep, Good, Mirrors
  <1>2. P!Has(P!AccountsOf(pg, t), a) <=> M!HasAccount(mem, t, a)
    <2>1. P!HasIn(pg.accounts, t, a) <=> M!HasAccount(mem, t, a)
      BY <1>1, OwnedHas DEF M!HasAccount
    <2> QED BY <2>1 DEF P!Has, P!HasIn, P!AccountsOf
  <1>3. CASE ~M!HasAccount(mem, t, a)
    <2>1. M!DeleteAccount(mem, t, a) = Fail(mem, "ErrNotFound") /\ P!DeleteAccount(pg, t, a) = Fail(pg, "ErrNotFound")
      BY <1>2, <1>3, Shared DEF M!DeleteAccount, P!DeleteAccount, P!AffectOne
    <2> QED BY <2>1, RefusedAlike DEF Answers
  <1>4. CASE M!HasAccount(mem, t, a)
    <2> DEFINE his(f) == {k \in DOMAIN f : f[k].account = a}
               n == [mem EXCEPT !.accounts = Without(mem.accounts, {a}), !.sessions = Without(mem.sessions, his(mem.sessions)),
                                !.apiTokens = Without(mem.apiTokens, his(mem.apiTokens))]
               base == [pg EXCEPT !.accounts = {r \in pg.accounts : ~(r \in P!AccountsOf(pg, t) /\ r.id = a)}]
    <2>1. a \in DOMAIN mem.accounts /\ mem.accounts[a].tenant = t
      BY <1>4 DEF M!HasAccount
    <2>2. M!DeleteAccount(mem, t, a) = Done(n)
      BY <1>4, Shared DEF M!DeleteAccount
    <2>3. P!DeleteAccount(pg, t, a) = Done(P!Cascade(base))
      BY <1>2, <1>4, Shared DEF P!DeleteAccount, P!AffectOne
    <2>4. /\ n.accounts = Without(mem.accounts, {a}) /\ n.sessions = Without(mem.sessions, his(mem.sessions))
          /\ n.apiTokens = Without(mem.apiTokens, his(mem.apiTokens))
          /\ MemOnly(n, {"accounts", "sessions", "apiTokens"})
      BY <1>1 DEF MemOnly, M!Memory
    <2>5. DOMAIN base = P!Postgres /\ base.tenants = pg.tenants
          /\ base.hosts = pg.hosts /\ base.alert_rules = pg.alert_rules
          /\ base.accounts = {r \in pg.accounts : ~(r \in P!AccountsOf(pg, t) /\ r.id = a)}
      BY <1>1 DEF P!Postgres
    <2>6. PgOnly(base, {"tenants", "hosts", "alert_rules", "accounts"})
      BY <1>1 DEF PgOnly, P!Postgres
    <2> HIDE DEF n, base
    <2>7. Good(mem, now, drawn)
      BY DEF Paired, Lockstep
    <2>8. /\ n.tenants = mem.tenants /\ n.tokens = mem.tokens /\ n.hosts = mem.hosts /\ n.certs = mem.certs
          /\ n.jobs = mem.jobs /\ n.records = mem.records /\ n.results = mem.results /\ n.templates = mem.templates
          /\ n.archivedTemplates = mem.archivedTemplates /\ n.events = mem.events /\ n.transitions = mem.transitions
          /\ n.rules = mem.rules /\ n.states = mem.states /\ n.shares = mem.shares /\ DOMAIN n = M!Memory
      BY <2>4 DEF MemOnly, M!Memory
    <2>9. Parts(n)
      <3>1. /\ Part(mem.accounts, n.accounts) /\ Part(mem.sessions, n.sessions) /\ Part(mem.apiTokens, n.apiTokens)
        BY <2>4 DEF Part, Without
      <3>2. \A f : Part(f, f)
        BY DEF Part
      <3> QED BY <2>8, <3>1, <3>2 DEF Parts
    <2>10. \A x : x \in DOMAIN n.accounts <=> x \in DOMAIN mem.accounts /\ x # a
      BY <2>4 DEF Without
    <2>11. /\ \A h \in DOMAIN mem.hosts : mem.hosts[h].tenant \in DOMAIN mem.tenants
           /\ \A k \in DOMAIN mem.rules : k[1] \in DOMAIN mem.tenants
           /\ \A k \in DOMAIN mem.accounts : mem.accounts[k].tenant \in DOMAIN mem.tenants \cup {Platform}
           /\ \A k \in DOMAIN mem.sessions : mem.sessions[k].account \in DOMAIN mem.accounts
           /\ \A k \in DOMAIN mem.apiTokens : mem.apiTokens[k].account \in DOMAIN mem.accounts
      BY <2>7 DEF Good, HostsGood, RulesGood, AccountsGood, CredentialsGood
    <2>12. OwnersGone(n, t)
      <3>1. \A k \in DOMAIN n.accounts : n.accounts[k] = mem.accounts[k]
        BY <2>9 DEF Parts, Part
      <3> QED BY <2>1, <2>8, <2>10, <2>11, <3>1 DEF OwnersGone
    <2>13. OthersRows(n)
      <3>1. \A k \in DOMAIN mem.sessions : k \in DOMAIN n.sessions <=> mem.sessions[k].account \in DOMAIN n.accounts
        BY <2>4, <2>10, <2>11 DEF Without
      <3>2. \A k \in DOMAIN mem.apiTokens : k \in DOMAIN n.apiTokens <=> mem.apiTokens[k].account \in DOMAIN n.accounts
        BY <2>4, <2>10, <2>11 DEF Without
      <3> QED BY <2>8, <3>1, <3>2, RulesStay DEF OthersRows
    <2>14. FleetsRows(n) /\ HostsRows(n)
      BY <2>8, FleetsStay, HostsStay
    <2>15. Swept(n, t)
      BY <2>9, <2>12, <2>13, <2>14 DEF Swept
    <2>16. Tenanted(base.tenants, base.hosts) = Owned(n.hosts) /\ Tenanted(base.tenants, base.alert_rules) = Inside(n.rules)
      <3>1. /\ Tenanted(Keyed(mem.tenants), Owned(mem.hosts)) = Owned(mem.hosts)
            /\ Tenanted(Keyed(mem.tenants), Inside(mem.rules)) = Inside(mem.rules)
        BY <2>11, NoneGone
      <3> QED BY <1>1, <2>5, <2>8, <3>1
    <2>17. base.accounts = Owned(n.accounts)
      <3>1. base.accounts \subseteq Owned(mem.accounts)
        BY <1>1, <2>5
      <3>2. ASSUME NEW k \in DOMAIN mem.accounts PROVE OwnedRow(mem.accounts, k) \in base.accounts <=> k \notin {a}
        BY <1>1, <2>1, <2>5, Members DEF OwnedRow, P!AccountsOf
      <3>3. base.accounts = Owned(Without(mem.accounts, {a}))
        BY <3>1, <3>2, Cut
      <3> QED BY <2>4, <3>3
    <2>18. Signed(base.tenants, base.accounts) = Owned(n.accounts)
      <3>1. \A k \in DOMAIN n.accounts : n.accounts[k].tenant \in DOMAIN n.tenants \cup {Platform}
        BY <2>12 DEF OwnersGone
      <3>2. Signed(Keyed(n.tenants), Owned(n.accounts)) = Owned(n.accounts)
        BY <3>1, NoneGone
      <3> QED BY <1>1, <2>5, <2>8, <2>17, <3>2
    <2>19. Alike(t, Done(n), Done(P!Cascade(base)))
      BY <1>1, <2>5, <2>6, <2>8, <2>15, <2>16, <2>18, SweptAlike
    <2> QED BY <2>2, <2>3, <2>19
  <1> QED BY <1>3, <1>4

\* DeleteAlertRule is answered alike.
LEMMA DeleteAlertRuleAlike ==
    ASSUME Paired, NEW t \in Tenants, NEW r
    PROVE  Alike(t, M!DeleteAlertRule(mem, t, r), P!DeleteAlertRule(pg, t, r))
  <1> SUFFICES ASSUME NEW key, key = <<t, r>>
               PROVE  Alike(t, M!DeleteAlertRule(mem, t, r), P!DeleteAlertRule(pg, t, r))
    OBVIOUS
  <1>1. key[1] = t /\ key[2] = r
    OBVIOUS
  <1>2. /\ DOMAIN mem = M!Memory /\ DOMAIN pg = P!Postgres
        /\ pg.tenants = Keyed(mem.tenants) /\ pg.hosts = Owned(mem.hosts)
        /\ pg.alert_rules = Inside(mem.rules) /\ pg.accounts = Owned(mem.accounts)
    BY DEF Paired, Lockstep, Good, Mirrors
  <1>3. Good(mem, now, drawn) /\ DOMAIN mem.rules \subseteq Tenants \X RuleIDs
    BY DEF Paired, Lockstep, Good, RulesGood, MapsTo
  <1>4. P!HasIn(pg.alert_rules, t, r) <=> key \in DOMAIN mem.rules
    BY <1>2, <1>3, InsideHas
  <1>5. CASE key \notin DOMAIN mem.rules
    <2>1. M!DeleteAlertRule(mem, t, r) = Fail(mem, "ErrNotFound") /\ P!DeleteAlertRule(pg, t, r) = Fail(pg, "ErrNotFound")
      BY <1>4, <1>5, Shared DEF M!DeleteAlertRule, P!DeleteAlertRule, P!AffectOne
    <2> QED BY <2>1, RefusedAlike DEF Answers
  <1>6. CASE key \in DOMAIN mem.rules
    <2> DEFINE his == {k \in M!InKey(mem.states, t) : k[2] = r}
               n == [mem EXCEPT !.rules = Without(mem.rules, {key}), !.states = Without(mem.states, his)]
               base == [pg EXCEPT !.alert_rules = {x \in pg.alert_rules : ~(x.tenant = t /\ x.id = r)}]
    <2>1. M!DeleteAlertRule(mem, t, r) = Done(n)
      BY <1>6, Shared DEF M!DeleteAlertRule
    <2>2. P!DeleteAlertRule(pg, t, r) = Done(P!Cascade(base))
      BY <1>4, <1>6, Shared DEF P!DeleteAlertRule, P!AffectOne
    <2>3. /\ n.rules = Without(mem.rules, {key}) /\ n.states = Without(mem.states, his)
          /\ MemOnly(n, {"rules", "states"})
      BY <1>2 DEF MemOnly, M!Memory
    <2>4. DOMAIN base = P!Postgres /\ base.tenants = pg.tenants
          /\ base.hosts = pg.hosts /\ base.accounts = pg.accounts
          /\ base.alert_rules = {x \in pg.alert_rules : ~(x.tenant = t /\ x.id = r)}
      BY <1>2 DEF P!Postgres
    <2>5. PgOnly(base, {"tenants", "hosts", "alert_rules", "accounts"})
      BY <1>2 DEF PgOnly, P!Postgres
    <2> HIDE DEF n, base
    <2>6. /\ n.tenants = mem.tenants /\ n.tokens = mem.tokens /\ n.hosts = mem.hosts /\ n.certs = mem.certs
          /\ n.jobs = mem.jobs /\ n.records = mem.records /\ n.results = mem.results /\ n.templates = mem.templates
          /\ n.archivedTemplates = mem.archivedTemplates /\ n.events = mem.events /\ n.transitions = mem.transitions
          /\ n.accounts = mem.accounts /\ n.sessions = mem.sessions /\ n.apiTokens = mem.apiTokens
          /\ n.shares = mem.shares /\ DOMAIN n = M!Memory
      BY <2>3 DEF MemOnly, M!Memory
    <2>7. Parts(n)
      <3>1. Part(mem.rules, n.rules) /\ Part(mem.states, n.states)
        BY <2>3 DEF Part, Without
      <3>2. \A f : Part(f, f)
        BY DEF Part
      <3> QED BY <2>6, <3>1, <3>2 DEF Parts
    <2>8. \A x : x \in DOMAIN n.rules <=> x \in DOMAIN mem.rules /\ x # key
      BY <2>3 DEF Without
    <2>9. /\ \A h \in DOMAIN mem.hosts : mem.hosts[h].tenant \in DOMAIN mem.tenants
          /\ \A k \in DOMAIN mem.rules : k[1] \in DOMAIN mem.tenants
          /\ \A k \in DOMAIN mem.accounts : mem.accounts[k].tenant \in DOMAIN mem.tenants \cup {Platform}
          /\ \A k \in DOMAIN mem.states : <<k[1], k[2]>> \in DOMAIN mem.rules
      BY <1>3 DEF Good, HostsGood, RulesGood, AccountsGood
    <2>10. OwnersGone(n, t)
      BY <1>1, <2>6, <2>8, <2>9 DEF OwnersGone
    <2>11. OthersRows(n)
      <3>1. ASSUME NEW k \in DOMAIN mem.states PROVE k \in DOMAIN n.states <=> <<k[1], k[2]>> \in DOMAIN n.rules
        <4>1. k \in DOMAIN n.states <=> ~(k[1] = t /\ k[2] = r)
          BY <2>3 DEF Without, M!InKey
        <4>2. <<k[1], k[2]>> \in DOMAIN n.rules <=> <<k[1], k[2]>> # key
          BY <2>8, <2>9
        <4> QED BY <4>1, <4>2
      <3> QED BY <2>6, <3>1, HoldersStay DEF OthersRows
    <2>12. FleetsRows(n) /\ HostsRows(n)
      BY <2>6, FleetsStay, HostsStay
    <2>13. Swept(n, t)
      BY <2>7, <2>10, <2>11, <2>12 DEF Swept
    <2>14. Tenanted(base.tenants, base.hosts) = Owned(n.hosts) /\ Signed(base.tenants, base.accounts) = Owned(n.accounts)
      <3>1. /\ Tenanted(Keyed(mem.tenants), Owned(mem.hosts)) = Owned(mem.hosts)
            /\ Signed(Keyed(mem.tenants), Owned(mem.accounts)) = Owned(mem.accounts)
        BY <2>9, NoneGone
      <3> QED BY <1>2, <2>4, <2>6, <3>1
    <2>15. base.alert_rules = Inside(n.rules)
      <3>1. base.alert_rules \subseteq Inside(mem.rules)
        BY <1>2, <2>4
      <3>2. ASSUME NEW k \in DOMAIN mem.rules PROVE InsideRow(mem.rules, k) \in base.alert_rules <=> k \notin {key}
        <4>1. k = <<k[1], k[2]>>
          BY <1>3
        <4>2. InsideRow(mem.rules, k).tenant = k[1] /\ InsideRow(mem.rules, k).id = k[2]
          BY DEF InsideRow
        <4>3. InsideRow(mem.rules, k) \in pg.alert_rules
          BY <1>2, Members
        <4>4. InsideRow(mem.rules, k) \in base.alert_rules <=> ~(k[1] = t /\ k[2] = r)
          BY <2>4, <4>2, <4>3
        <4> QED BY <4>1, <4>4, <1>1
      <3>3. base.alert_rules = Inside(Without(mem.rules, {key}))
        BY <3>1, <3>2, Cut
      <3> QED BY <2>3, <3>3
    <2>16. Tenanted(base.tenants, base.alert_rules) = Inside(n.rules)
      <3>1. \A k \in DOMAIN n.rules : k[1] \in DOMAIN n.tenants
        BY <2>10 DEF OwnersGone
      <3>2. Tenanted(Keyed(n.tenants), Inside(n.rules)) = Inside(n.rules)
        BY <3>1, NoneGone
      <3> QED BY <1>2, <2>4, <2>6, <2>15, <3>2
    <2>17. Alike(t, Done(n), Done(P!Cascade(base)))
      BY <1>2, <2>4, <2>5, <2>6, <2>13, <2>14, <2>16, SweptAlike
    <2> QED BY <2>1, <2>2, <2>17
  <1> QED BY <1>5, <1>6

\* DeleteHost, which leaves the unit history where nobody is shown it, is answered alike.
LEMMA DeleteHostAlike ==
    ASSUME Paired, NEW t \in Tenants, NEW h
    PROVE  Alike(t, M!DeleteHost(mem, t, h), P!DeleteHost(pg, t, h))
  <1> SUFFICES ASSUME NEW key, key = <<t, h>>
               PROVE  Alike(t, M!DeleteHost(mem, t, h), P!DeleteHost(pg, t, h))
    OBVIOUS
  <1>1. /\ DOMAIN mem = M!Memory /\ DOMAIN pg = P!Postgres
        /\ pg.tenants = Keyed(mem.tenants) /\ pg.hosts = Owned(mem.hosts)
        /\ pg.alert_rules = Inside(mem.rules) /\ pg.accounts = Owned(mem.accounts)
    BY DEF Paired, Lockstep, Good, Mirrors
  <1>2. P!HasIn(pg.hosts, t, h) <=> M!HasHost(mem, t, h)
    <2>1. P!HasIn(Owned(mem.hosts), t, h) <=> h \in DOMAIN mem.hosts /\ mem.hosts[h].tenant = t
      BY OwnedHas
    <2> QED BY <1>1, <2>1 DEF M!HasHost
  <1>3. CASE ~M!HasHost(mem, t, h)
    <2>1. M!DeleteHost(mem, t, h) = Fail(mem, "ErrNotFound") /\ P!DeleteHost(pg, t, h) = Fail(pg, "ErrNotFound")
      BY <1>2, <1>3, Shared DEF M!DeleteHost, P!DeleteHost, P!AffectOne
    <2> QED BY <2>1, RefusedAlike DEF Answers
  <1>4. CASE M!HasHost(mem, t, h)
    <2> DEFINE his == {k \in M!InKey(mem.records, t) : mem.records[k].host = h}
               signed == {fp \in M!Beside(mem.certs, t) : mem.certs[fp].row.host = h}
               n == [mem EXCEPT !.hosts = Without(mem.hosts, {h}), !.certs = Without(mem.certs, signed),
                                !.jobs = Without(mem.jobs, {key}), !.records = Without(mem.records, his),
                                !.results = Without(mem.results, his)]
               base == [pg EXCEPT !.hosts = {r \in pg.hosts : ~(r.tenant = t /\ r.id = h)}]
    <2>1. h \in DOMAIN mem.hosts /\ mem.hosts[h].tenant = t
      BY <1>4 DEF M!HasHost
    <2>2. M!DeleteHost(mem, t, h) = Done(n)
      BY <1>4, Shared DEF M!DeleteHost
    <2>3. P!DeleteHost(pg, t, h) = Done(P!Cascade(base))
      BY <1>2, <1>4, Shared DEF P!DeleteHost, P!AffectOne
    <2>4. /\ n.hosts = Without(mem.hosts, {h}) /\ n.certs = Without(mem.certs, signed)
          /\ n.jobs = Without(mem.jobs, {key}) /\ n.records = Without(mem.records, his)
          /\ n.results = Without(mem.results, his)
          /\ MemOnly(n, {"hosts", "certs", "jobs", "records", "results"})
      BY <1>1 DEF MemOnly, M!Memory
    <2>5. DOMAIN base = P!Postgres /\ base.tenants = pg.tenants
          /\ base.alert_rules = pg.alert_rules /\ base.accounts = pg.accounts
          /\ base.hosts = {r \in pg.hosts : ~(r.tenant = t /\ r.id = h)}
      BY <1>1 DEF P!Postgres
    <2>6. PgOnly(base, {"tenants", "hosts", "alert_rules", "accounts"})
      BY <1>1 DEF PgOnly, P!Postgres
    <2> HIDE DEF n, base
    <2>7. Good(mem, now, drawn)
      BY DEF Paired, Lockstep
    <2>8. /\ n.tenants = mem.tenants /\ n.tokens = mem.tokens /\ n.rules = mem.rules /\ n.states = mem.states
          /\ n.templates = mem.templates
          /\ n.archivedTemplates = mem.archivedTemplates /\ n.events = mem.events /\ n.transitions = mem.transitions
          /\ n.accounts = mem.accounts /\ n.sessions = mem.sessions /\ n.apiTokens = mem.apiTokens
          /\ n.shares = mem.shares /\ DOMAIN n = M!Memory
      BY <2>4 DEF MemOnly, M!Memory
    <2>9. Parts(n)
      <3>1. Part(mem.hosts, n.hosts) /\ Part(mem.certs, n.certs) /\ Part(mem.jobs, n.jobs)
            /\ Part(mem.records, n.records) /\ Part(mem.results, n.results)
        BY <2>4 DEF Part, Without
      <3>2. \A f : Part(f, f)
        BY DEF Part
      <3> QED BY <2>8, <3>1, <3>2 DEF Parts
    <2>10. \A x : x \in DOMAIN n.hosts <=> x \in DOMAIN mem.hosts /\ x # h
      BY <2>4 DEF Without
    <2>11. /\ \A x \in DOMAIN mem.hosts : mem.hosts[x].tenant \in DOMAIN mem.tenants
           /\ \A k \in DOMAIN mem.rules : k[1] \in DOMAIN mem.tenants
           /\ \A k \in DOMAIN mem.accounts : mem.accounts[k].tenant \in DOMAIN mem.tenants \cup {Platform}
      BY <2>7 DEF Good, HostsGood, RulesGood, AccountsGood
    <2>12. OwnersGone(n, t)
      <3>1. \A k \in DOMAIN n.hosts : n.hosts[k] = mem.hosts[k]
        BY <2>9 DEF Parts, Part
      <3> QED BY <2>1, <2>8, <2>10, <2>11, <3>1 DEF OwnersGone
    <2>13. HostsRows(n)
      <3>1. ASSUME NEW s, NEW x, <<s, x>> \in Homes(mem.hosts)
            PROVE  <<s, x>> \in Homes(n.hosts) <=> ~(s = t /\ x = h)
        <4>1. x \in DOMAIN mem.hosts /\ mem.hosts[x].tenant = s
          BY <3>1 DEF Homes
        <4>2. x \in DOMAIN n.hosts => n.hosts[x] = mem.hosts[x]
          BY <2>9 DEF Parts, Part
        <4>3. <<s, x>> \in Homes(n.hosts) <=> x \in DOMAIN n.hosts /\ n.hosts[x].tenant = s
          BY DEF Homes
        <4> QED BY <4>1, <4>2, <4>3, <2>1, <2>10
      <3>2. /\ \A k \in DOMAIN mem.certs : <<mem.certs[k].tenant, mem.certs[k].row.host>> \in Homes(mem.hosts)
            /\ \A k \in DOMAIN mem.records : <<k[1], mem.records[k].host>> \in Homes(mem.hosts)
            /\ DOMAIN mem.results \subseteq DOMAIN mem.records
        BY <2>7 DEF Good, CertsGood, JobsGood
      <3>3. ASSUME NEW k \in DOMAIN mem.jobs PROVE k \in DOMAIN n.jobs <=> k \in Homes(n.hosts)
        <4>1. k \in Homes(mem.hosts) /\ k \in Tenants \X HostIDs
          BY <2>7 DEF Good, JobsGood, MapsTo
        <4>2. k = <<k[1], k[2]>>
          BY <4>1
        <4>3. k \in DOMAIN n.jobs <=> k # key
          BY <2>4 DEF Without
        <4>4. k # key <=> ~(k[1] = t /\ k[2] = h)
          BY <4>2
        <4> QED BY <3>1, <4>1, <4>2, <4>3, <4>4
      <3>4. \A k \in DOMAIN mem.certs : k \in DOMAIN n.certs <=> ~(mem.certs[k].tenant = t /\ mem.certs[k].row.host = h)
        BY <2>4 DEF Without, M!Beside
      <3>5. \A k \in DOMAIN mem.records : k \in DOMAIN n.records <=> ~(k[1] = t /\ mem.records[k].host = h)
        BY <2>4 DEF Without, M!InKey
      <3>6. \A k \in DOMAIN mem.results : k \in DOMAIN n.results <=> k \in DOMAIN n.records
        BY <2>4, <3>2 DEF Without
      <3> QED BY <3>1, <3>2, <3>3, <3>4, <3>5, <3>6 DEF HostsRows
    <2>14. FleetsRows(n) /\ OthersRows(n)
      BY <2>8, FleetsStay, RulesStay, HoldersStay DEF OthersRows
    <2>15. Swept(n, t)
      BY <2>9, <2>12, <2>13, <2>14 DEF Swept
    <2>16. Tenanted(base.tenants, base.alert_rules) = Inside(n.rules) /\ Signed(base.tenants, base.accounts) = Owned(n.accounts)
      <3>1. /\ Tenanted(Keyed(mem.tenants), Inside(mem.rules)) = Inside(mem.rules)
            /\ Signed(Keyed(mem.tenants), Owned(mem.accounts)) = Owned(mem.accounts)
        BY <2>11, NoneGone
      <3> QED BY <1>1, <2>5, <2>8, <3>1
    <2>17. base.hosts = Owned(n.hosts)
      <3>1. base.hosts \subseteq Owned(mem.hosts)
        BY <1>1, <2>5
      <3>2. ASSUME NEW k \in DOMAIN mem.hosts PROVE OwnedRow(mem.hosts, k) \in base.hosts <=> k \notin {h}
        BY <1>1, <2>1, <2>5, Members DEF OwnedRow
      <3>3. base.hosts = Owned(Without(mem.hosts, {h}))
        BY <3>1, <3>2, Cut
      <3> QED BY <2>4, <3>3
    <2>18. Tenanted(base.tenants, base.hosts) = Owned(n.hosts)
      <3>1. \A k \in DOMAIN n.hosts : n.hosts[k].tenant \in DOMAIN n.tenants
        BY <2>12 DEF OwnersGone
      <3>2. Tenanted(Keyed(n.tenants), Owned(n.hosts)) = Owned(n.hosts)
        BY <3>1, NoneGone
      <3> QED BY <1>1, <2>5, <2>8, <2>17, <3>2
    <2>19. Alike(t, Done(n), Done(P!Cascade(base)))
      BY <1>1, <2>5, <2>6, <2>8, <2>15, <2>16, <2>18, SweptAlike
    <2> QED BY <2>2, <2>3, <2>19
  <1> QED BY <1>3, <1>4

-----------------------------------------------------------------------------
(* Every step. *)

\* The strengthening: the two stores in lock-step, and the range of the rest.
LockInv ==
    /\ Paired
    /\ area \in Areas /\ now \in 1 .. MaxTime /\ drawn \in 0 .. MaxEvents
    /\ answer.side \in Sides /\ answer.mem.err \in Answers /\ answer.pg.err \in Answers

\* What a step shows: the answers agree ...
Agreed ==
    /\ Refused(answer'.mem) <=> Refused(answer'.pg)
    /\ answer'.mem.val = answer'.pg.val
    /\ \/ answer'.mem.err = answer'.pg.err
       \/ answer'.side \in Tenants \ DOMAIN mem.tenants

\* ... and nobody else's rows differ.
Isolated == \A t \in Sides : t # answer'.side => SameFor(mem, mem', t)

\* Both, and the strengthening after it.
Kept == LockInv' /\ Agreed /\ Isolated

\* A call the two stores answer alike keeps the invariant.
LEMMA CallKeeps ==
    ASSUME LockInv, NEW side \in Sides, NEW a, NEW b, Alike(side, a, b), Call(side, a, b)
    PROVE  Kept
  <1>1. /\ mem' = a.st /\ pg' = b.st /\ UNCHANGED <<area, now, drawn>>
        /\ answer' = [side |-> side, mem |-> a.ans, pg |-> b.ans]
    BY DEF Call
  <1>2. answer'.side = side /\ answer'.mem = a.ans /\ answer'.pg = b.ans
    BY <1>1
  <1>3. Paired'
    BY <1>1 DEF Alike, Lockstep, Paired
  <1>4. Agreed /\ answer'.mem.err \in Answers /\ answer'.pg.err \in Answers
    BY <1>2 DEF Alike, AnswersAlike, Agreed
  <1>5. Isolated
    BY <1>1, <1>2 DEF Alike, Apart, Isolated
  <1> QED BY <1>1, <1>2, <1>3, <1>4, <1>5 DEF LockInv, Kept

\* What the constants and the clock range over.
LEMMA Bounds ==
    ASSUME LockInv
    PROVE  /\ Paired /\ now \in Time /\ now \in Nat /\ now # 0 /\ drawn \in Nat
           /\ Horizon \in Time /\ MaxTime \in Time /\ 0 \in Time /\ 1 \in Time
           /\ Later \subseteq Time /\ Tenants \subseteq Sides /\ Platform \in Sides
  BY BoundsAssumption DEF LockInv, Time, Horizon, Later, Sides

\* The calls on tenants.
LEMMA TenantsStep ==
    ASSUME LockInv, CreateTenant \/ UpdateTenant \/ DeleteTenant
    PROVE  Kept
  <1>1. Paired /\ Tenants \subseteq Sides
    BY Bounds
  <1>2. CASE CreateTenant
    <2>1. PICK id \in Sides \ {DefaultTenant}, slug \in {"default", "other"} :
            Call(id, M!CreateTenant(mem, id, FreshTenant(slug)), P!CreateTenant(pg, id, FreshTenant(slug)))
      BY <1>2 DEF CreateTenant
    <2>2. FreshTenant(slug) \in Tenant
      BY DEF FreshTenant, Tenant, Modes
    <2>3. Alike(id, M!CreateTenant(mem, id, FreshTenant(slug)), P!CreateTenant(pg, id, FreshTenant(slug)))
      BY <1>1, <2>2, CreateTenantAlike
    <2> QED BY <2>1, <2>3, CallKeeps
  <1>3. CASE UpdateTenant
    <2>1. PICK id \in Tenants, patch \in [hostLimit : {1, NoLimit}] \cup [suspended : {TRUE}] :
            Call(id, M!UpdateTenant(mem, id, patch), P!UpdateTenant(pg, id, patch))
      BY <1>3 DEF UpdateTenant
    <2>2. patch \in TenantPatch
      BY DEF TenantPatch
    <2>3. Alike(id, M!UpdateTenant(mem, id, patch), P!UpdateTenant(pg, id, patch))
      BY <1>1, <2>2, UpdateTenantAlike
    <2> QED BY <1>1, <2>1, <2>3, CallKeeps
  <1>4. CASE DeleteTenant
    <2>1. PICK id \in Tenants : Call(id, M!DeleteTenant(mem, id), P!DeleteTenant(pg, id))
      BY <1>4 DEF DeleteTenant
    <2>2. Alike(id, M!DeleteTenant(mem, id), P!DeleteTenant(pg, id))
      BY <1>1, DeleteTenantAlike
    <2> QED BY <1>1, <2>1, <2>2, CallKeeps
  <1> QED BY <1>2, <1>3, <1>4

\* The calls on enrolment tokens.
LEMMA TokensStep ==
    ASSUME LockInv, CreateEnrollmentToken \/ ConsumeEnrollmentToken
    PROVE  Kept
  <1>1. Paired /\ Tenants \subseteq Sides /\ Later \subseteq Time
    BY Bounds
  <1>2. CASE CreateEnrollmentToken
    <2>1. PICK t \in Tenants, k \in Keys, e \in Later :
            /\ k \in DOMAIN mem.tokens => t \in DOMAIN mem.tenants
            /\ Call(t, M!CreateEnrollmentToken(mem, t, k, e), P!CreateEnrollmentToken(pg, t, k, e))
      BY <1>2 DEF CreateEnrollmentToken
    <2>2. Alike(t, M!CreateEnrollmentToken(mem, t, k, e), P!CreateEnrollmentToken(pg, t, k, e))
      BY <1>1, <2>1, CreateEnrollmentTokenAlike
    <2> QED BY <1>1, <2>1, <2>2, CallKeeps
  <1>3. CASE ConsumeEnrollmentToken
    <2>1. PICK t \in Tenants, k \in Keys, h \in HostIDs :
            Call(t, M!ConsumeEnrollmentToken(mem, t, k, h, now), P!ConsumeEnrollmentToken(pg, t, k, h, now))
      BY <1>3 DEF ConsumeEnrollmentToken
    <2>2. Alike(t, M!ConsumeEnrollmentToken(mem, t, k, h, now), P!ConsumeEnrollmentToken(pg, t, k, h, now))
      BY <1>1, ConsumeEnrollmentTokenAlike
    <2> QED BY <1>1, <2>1, <2>2, CallKeeps
  <1> QED BY <1>2, <1>3

\* The calls on hosts.
LEMMA HostsStep ==
    ASSUME LockInv, CreateEnrolledHost \/ DeleteHost \/ RevokeHost \/ Report
    PROVE  Kept
  <1>1. Paired /\ Tenants \subseteq Sides /\ now \in Time /\ MaxTime \in Time /\ 0 \in Time
    BY Bounds
  <1>2. CASE CreateEnrolledHost
    <2>1. PICK t \in Tenants, h \in HostIDs, fp \in Fingerprints, machine \in Machines \cup {None} :
            /\ \A i \in DOMAIN mem.transitions : mem.transitions[i].host # h
            /\ Call(t, M!CreateEnrolledHost(mem, t, h, NewHost(machine), fp, NewCertificate(h, MaxTime)),
                       P!CreateEnrolledHost(pg, t, h, NewHost(machine), fp, NewCertificate(h, MaxTime)))
      BY <1>2 DEF CreateEnrolledHost
    <2>2. /\ NewHost(machine) \in Host /\ ~NewHost(machine).revoked
          /\ NewCertificate(h, MaxTime) \in Certificate /\ NewCertificate(h, MaxTime).host = h
      BY <1>1 DEF NewHost, Host, NewCertificate, Certificate
    <2>3. Alike(t, M!CreateEnrolledHost(mem, t, h, NewHost(machine), fp, NewCertificate(h, MaxTime)),
                   P!CreateEnrolledHost(pg, t, h, NewHost(machine), fp, NewCertificate(h, MaxTime)))
      BY <1>1, <2>1, <2>2, CreateEnrolledHostAlike
    <2> QED BY <1>1, <2>1, <2>3, CallKeeps
  <1>3. CASE DeleteHost
    <2>1. PICK t \in Tenants, h \in HostIDs : Call(t, M!DeleteHost(mem, t, h), P!DeleteHost(pg, t, h))
      BY <1>3 DEF DeleteHost
    <2>2. Alike(t, M!DeleteHost(mem, t, h), P!DeleteHost(pg, t, h))
      BY <1>1, DeleteHostAlike
    <2> QED BY <1>1, <2>1, <2>2, CallKeeps
  <1>4. CASE RevokeHost
    <2>1. PICK t \in Tenants, h \in HostIDs : Call(t, M!RevokeHost(mem, t, h), P!RevokeHost(pg, t, h))
      BY <1>4 DEF RevokeHost
    <2>2. Alike(t, M!RevokeHost(mem, t, h), P!RevokeHost(pg, t, h))
      BY <1>1, RevokeHostAlike
    <2> QED BY <1>1, <2>1, <2>2, CallKeeps
  <1>5. CASE Report
    <2>1. PICK t \in Tenants, h \in HostIDs :
            \/ Call(t, M!RecordHeartbeat(mem, t, h, now), P!RecordHeartbeat(pg, t, h, now))
            \/ Call(t, M!StoreFacts(mem, t, h), P!StoreFacts(pg, t, h))
            \/ Call(t, M!StorePolicy(mem, t, h), P!StorePolicy(pg, t, h))
            \/ Call(t, M!StoreSigners(mem, t, h), P!StoreSigners(pg, t, h))
      BY <1>5 DEF Report
    <2>2. /\ Alike(t, M!RecordHeartbeat(mem, t, h, now), P!RecordHeartbeat(pg, t, h, now))
          /\ Alike(t, M!StoreFacts(mem, t, h), P!StoreFacts(pg, t, h))
          /\ Alike(t, M!StorePolicy(mem, t, h), P!StorePolicy(pg, t, h))
          /\ Alike(t, M!StoreSigners(mem, t, h), P!StoreSigners(pg, t, h))
      BY <1>1, ReportsAlike
    <2> QED BY <1>1, <2>1, <2>2, CallKeeps
  <1> QED BY <1>2, <1>3, <1>4, <1>5

\* The calls on certificates.
LEMMA CertificatesStep ==
    ASSUME LockInv, AddCertificate \/ SupersedeCertificate \/ RenewCertificate
    PROVE  Kept
  <1>1. Paired /\ Tenants \subseteq Sides /\ MaxTime \in Time /\ 0 \in Time /\ Later \subseteq Time
    BY Bounds
  <1>2. \A h \in HostIDs : NewCertificate(h, MaxTime) \in Certificate /\ NewCertificate(h, MaxTime).host = h
    BY <1>1 DEF NewCertificate, Certificate
  <1>3. CASE AddCertificate
    <2>1. PICK t \in Tenants, h \in HostIDs, fp \in Fingerprints :
            /\ fp \in DOMAIN mem.certs => mem.certs[fp].tenant = t /\ mem.certs[fp].row.host = h
            /\ Call(t, M!AddCertificate(mem, t, fp, NewCertificate(h, MaxTime)),
                       P!AddCertificate(pg, t, fp, NewCertificate(h, MaxTime)))
      BY <1>3 DEF AddCertificate, Recorded
    <2>2. Alike(t, M!AddCertificate(mem, t, fp, NewCertificate(h, MaxTime)),
                   P!AddCertificate(pg, t, fp, NewCertificate(h, MaxTime)))
      BY <1>1, <1>2, <2>1, AddCertificateAlike
    <2> QED BY <1>1, <2>1, <2>2, CallKeeps
  <1>4. CASE SupersedeCertificate
    <2>1. PICK t \in Tenants, fp \in Fingerprints, at \in Later :
            Call(t, M!SupersedeCertificate(mem, t, fp, at), P!SupersedeCertificate(pg, t, fp, at))
      BY <1>4 DEF SupersedeCertificate
    <2>2. Alike(t, M!SupersedeCertificate(mem, t, fp, at), P!SupersedeCertificate(pg, t, fp, at))
      BY <1>1, SupersedeCertificateAlike
    <2> QED BY <1>1, <2>1, <2>2, CallKeeps
  <1>5. CASE RenewCertificate
    <2>1. PICK t \in Tenants, h \in HostIDs, fp \in Fingerprints, presented \in Fingerprints, at \in Later :
            Call(t, M!RenewCertificate(mem, t, fp, NewCertificate(h, MaxTime), presented, at, now),
                    P!RenewCertificate(pg, t, fp, NewCertificate(h, MaxTime), presented, at, now))
      BY <1>5 DEF RenewCertificate
    <2>2. Alike(t, M!RenewCertificate(mem, t, fp, NewCertificate(h, MaxTime), presented, at, now),
                   P!RenewCertificate(pg, t, fp, NewCertificate(h, MaxTime), presented, at, now))
      BY <1>1, <1>2, RenewCertificateAlike
    <2> QED BY <1>1, <2>1, <2>2, CallKeeps
  <1> QED BY <1>3, <1>4, <1>5

\* The calls on jobs.
LEMMA JobsStep ==
    ASSUME LockInv, CreateJob \/ ApproveJob \/ ClaimJobs \/ RecordResult
    PROVE  Kept
  <1>1. Paired /\ Tenants \subseteq Sides /\ 1 \in Time /\ Horizon \in Time
    BY Bounds
  <1>2. CASE CreateJob
    <2>1. PICK t \in Tenants, id \in JobIDs, h \in HostIDs, nonce \in Nonces :
            \E job \in {NewJob(h, nonce, TRUE, 1, AnyOf(Operators), "second_person"),
                        NewJob(h, nonce, FALSE, Horizon, AnyOf(Operators), "none")} :
                /\ M!HasHost(mem, t, h) \/ <<t, id>> \notin DOMAIN mem.records
                /\ Call(t, M!CreateJob(mem, t, id, job), P!CreateJob(pg, t, id, job))
      BY <1>2 DEF CreateJob
    <2>2. PICK job \in {NewJob(h, nonce, TRUE, 1, AnyOf(Operators), "second_person"),
                        NewJob(h, nonce, FALSE, Horizon, AnyOf(Operators), "none")} :
                /\ M!HasHost(mem, t, h) \/ <<t, id>> \notin DOMAIN mem.records
                /\ Call(t, M!CreateJob(mem, t, id, job), P!CreateJob(pg, t, id, job))
      BY <2>1
    <2>3. AnyOf(Operators) \in Operators
      BY BoundsAssumption DEF AnyOf
    <2>4. ASSUME NEW by \in Operators, NEW at \in Time, NEW signed \in BOOLEAN, NEW mode, NEW r,
                 r = NewJob(h, nonce, signed, at, by, mode)
          PROVE  r \in JobRecord /\ r.host = h /\ r.approvedBy = None /\ ~r.claimed /\ ~r.completed
      BY <2>4 DEF NewJob, JobRecord
    <2>5. job \in JobRecord /\ job.host = h /\ job.approvedBy = None /\ ~job.claimed /\ ~job.completed
      <3>1. CASE job = NewJob(h, nonce, TRUE, 1, AnyOf(Operators), "second_person")
        BY <1>1, <2>3, <2>4, <3>1
      <3>2. CASE job = NewJob(h, nonce, FALSE, Horizon, AnyOf(Operators), "none")
        BY <1>1, <2>3, <2>4, <3>2
      <3> QED BY <2>2, <3>1, <3>2
    <2>6. Alike(t, M!CreateJob(mem, t, id, job), P!CreateJob(pg, t, id, job))
      BY <1>1, <2>2, <2>5, CreateJobAlike
    <2> QED BY <1>1, <2>2, <2>6, CallKeeps
  <1>3. CASE ApproveJob
    <2>1. PICK t \in Tenants, id \in JobIDs, by \in Operators :
            Call(t, M!ApproveJob(mem, t, id, by), P!ApproveJob(pg, t, id, by))
      BY <1>3 DEF ApproveJob
    <2>2. Alike(t, M!ApproveJob(mem, t, id, by), P!ApproveJob(pg, t, id, by))
      BY <1>1, ApproveJobAlike
    <2> QED BY <1>1, <2>1, <2>2, CallKeeps
  <1>4. CASE ClaimJobs
    <2>1. PICK t \in Tenants, h \in HostIDs : Call(t, M!ClaimJobs(mem, t, h, now), P!ClaimJobs(pg, t, h, now))
      BY <1>4 DEF ClaimJobs
    <2>2. Alike(t, M!ClaimJobs(mem, t, h, now), P!ClaimJobs(pg, t, h, now))
      BY <1>1, ClaimJobsAlike
    <2> QED BY <1>1, <2>1, <2>2, CallKeeps
  <1>5. CASE RecordResult
    <2>1. PICK t \in Tenants, h \in HostIDs, id \in JobIDs, status \in {"completed", "failed"} :
            Call(t, M!RecordResult(mem, t, h, id, status), P!RecordResult(pg, t, h, id, status))
      BY <1>5 DEF RecordResult
    <2>2. Alike(t, M!RecordResult(mem, t, h, id, status), P!RecordResult(pg, t, h, id, status))
      BY <1>1, RecordResultAlike
    <2> QED BY <1>1, <2>1, <2>2, CallKeeps
  <1> QED BY <1>2, <1>3, <1>4, <1>5

\* The calls on accounts.
LEMMA AccountsStep ==
    ASSUME LockInv, AccountCall \/ CredentialHolder
    PROVE  Kept
  <1>1. Paired /\ 0 \in Time /\ Horizon \in Time
    BY Bounds
  <1>2. ASSUME NEW t \in Sides, NEW a \in AccountIDs, NEW email \in Emails, NEW account,
               account = [email |-> email, password |-> "p1", signedInAt |-> 0],
               Call(t, M!CreateAccount(mem, t, a, account), P!CreateAccount(pg, t, a, account))
        PROVE  Kept
    <2>1. account \in Account
      BY <1>1, <1>2 DEF Account
    <2>2. Alike(t, M!CreateAccount(mem, t, a, account), P!CreateAccount(pg, t, a, account))
      BY <1>1, <2>1, CreateAccountAlike
    <2> QED BY <1>2, <2>2, CallKeeps
  <1>3. ASSUME NEW t \in Sides, NEW a \in AccountIDs, Call(t, M!DeleteAccount(mem, t, a), P!DeleteAccount(pg, t, a))
        PROVE  Kept
    <2>1. Alike(t, M!DeleteAccount(mem, t, a), P!DeleteAccount(pg, t, a))
      BY <1>1, DeleteAccountAlike
    <2> QED BY <1>3, <2>1, CallKeeps
  <1>4. CASE AccountCall
    <2>1. PICK t \in Sides, a \in AccountIDs :
            \/ \E email \in Emails :
                LET account == [email |-> email, password |-> "p1", signedInAt |-> 0]
                IN Call(t, M!CreateAccount(mem, t, a, account), P!CreateAccount(pg, t, a, account))
            \/ Call(t, M!UpdateAccountPassword(mem, t, a, "p2"), P!UpdateAccountPassword(pg, t, a, "p2"))
            \/ Call(t, M!RecordAccountSignIn(mem, t, a, Horizon), P!RecordAccountSignIn(pg, t, a, Horizon))
            \/ Call(t, M!DeleteAccount(mem, t, a), P!DeleteAccount(pg, t, a))
      BY <1>4 DEF AccountCall
    <2>2. Alike(t, M!UpdateAccountPassword(mem, t, a, "p2"), P!UpdateAccountPassword(pg, t, a, "p2"))
      BY <1>1, AccountWritesAlike
    <2>3. Alike(t, M!RecordAccountSignIn(mem, t, a, Horizon), P!RecordAccountSignIn(pg, t, a, Horizon))
      BY <1>1, AccountWritesAlike
    <2>4. CASE \E email \in Emails :
                LET account == [email |-> email, password |-> "p1", signedInAt |-> 0]
                IN Call(t, M!CreateAccount(mem, t, a, account), P!CreateAccount(pg, t, a, account))
      BY <1>2, <2>4
    <2> QED BY <1>3, <2>1, <2>2, <2>3, <2>4, CallKeeps
  <1>5. CASE CredentialHolder
    <2>1. PICK t \in Sides, a \in AccountIDs, email \in Emails :
            LET account == [email |-> email, password |-> "p1", signedInAt |-> 0]
            IN \/ Call(t, M!CreateAccount(mem, t, a, account), P!CreateAccount(pg, t, a, account))
               \/ Call(t, M!DeleteAccount(mem, t, a), P!DeleteAccount(pg, t, a))
      BY <1>5 DEF CredentialHolder
    <2> QED BY <1>2, <1>3, <2>1
  <1> QED BY <1>4, <1>5

\* The calls on sessions and API tokens.
LEMMA CredentialsStep ==
    ASSUME LockInv, SessionCall \/ APITokenCall
    PROVE  Kept
  <1>1. Paired /\ 0 \in Time /\ now \in Time /\ MaxTime \in Time
    BY Bounds
  <1>2. CASE SessionCall
    <2>1. PICK t \in Sides, a \in AccountIDs :
            \/ \E e \in {x \in Time : x > now} :
                /\ ~(Keys \subseteq DOMAIN mem.sessions)
                /\ LET k == AnyOf(Keys \ DOMAIN mem.sessions)
                       session == [account |-> a, expiresAt |-> e]
                   IN Call(t, M!CreateSession(mem, t, k, session, now), P!CreateSession(pg, t, k, session, now))
            \/ \E k \in Keys : Call(t, M!TouchSession(mem, t, a, k, MaxTime), P!TouchSession(pg, t, a, k, MaxTime))
            \/ \E k \in Keys : Call(t, M!DeleteSession(mem, t, a, k), P!DeleteSession(pg, t, a, k))
            \/ Call(t, M!DeleteSessionsFor(mem, t, a), P!DeleteSessionsFor(pg, t, a))
      BY <1>2 DEF SessionCall
    <2>2. CASE \E e \in {x \in Time : x > now} :
                /\ ~(Keys \subseteq DOMAIN mem.sessions)
                /\ LET k == AnyOf(Keys \ DOMAIN mem.sessions)
                       session == [account |-> a, expiresAt |-> e]
                   IN Call(t, M!CreateSession(mem, t, k, session, now), P!CreateSession(pg, t, k, session, now))
      <3>1. PICK e \in {x \in Time : x > now} :
                /\ ~(Keys \subseteq DOMAIN mem.sessions)
                /\ LET k == AnyOf(Keys \ DOMAIN mem.sessions)
                       session == [account |-> a, expiresAt |-> e]
                   IN Call(t, M!CreateSession(mem, t, k, session, now), P!CreateSession(pg, t, k, session, now))
        BY <2>2
      <3> DEFINE k == AnyOf(Keys \ DOMAIN mem.sessions)
                 session == [account |-> a, expiresAt |-> e]
      <3>2. k \in Keys /\ k \notin DOMAIN mem.sessions
        <4>1. \E x : x \in Keys \ DOMAIN mem.sessions
          BY <3>1
        <4>2. k \in Keys \ DOMAIN mem.sessions
          BY <4>1 DEF AnyOf
        <4> QED BY <4>2
      <3>3. session \in Session
        BY DEF Session
      <3>4. Call(t, M!CreateSession(mem, t, k, session, now), P!CreateSession(pg, t, k, session, now))
        BY <3>1
      <3> HIDE DEF k, session
      <3>5. Alike(t, M!CreateSession(mem, t, k, session, now), P!CreateSession(pg, t, k, session, now))
        BY <1>1, <3>2, <3>3, CreateSessionAlike
      <3> QED BY <3>4, <3>5, CallKeeps
    <2>3. CASE \E k \in Keys : Call(t, M!TouchSession(mem, t, a, k, MaxTime), P!TouchSession(pg, t, a, k, MaxTime))
      <3>1. PICK k \in Keys : Call(t, M!TouchSession(mem, t, a, k, MaxTime), P!TouchSession(pg, t, a, k, MaxTime))
        BY <2>3
      <3>2. Alike(t, M!TouchSession(mem, t, a, k, MaxTime), P!TouchSession(pg, t, a, k, MaxTime))
        BY <1>1, TouchSessionAlike
      <3> QED BY <3>1, <3>2, CallKeeps
    <2>4. CASE \E k \in Keys : Call(t, M!DeleteSession(mem, t, a, k), P!DeleteSession(pg, t, a, k))
      <3>1. PICK k \in Keys : Call(t, M!DeleteSession(mem, t, a, k), P!DeleteSession(pg, t, a, k))
        BY <2>4
      <3>2. Alike(t, M!DeleteSession(mem, t, a, k), P!DeleteSession(pg, t, a, k))
        BY <1>1, DeleteSessionAlike
      <3> QED BY <3>1, <3>2, CallKeeps
    <2>5. CASE Call(t, M!DeleteSessionsFor(mem, t, a), P!DeleteSessionsFor(pg, t, a))
      <3>1. Alike(t, M!DeleteSessionsFor(mem, t, a), P!DeleteSessionsFor(pg, t, a))
        BY <1>1, DeleteSessionsForAlike
      <3> QED BY <2>5, <3>1, CallKeeps
    <2> QED BY <2>1, <2>2, <2>3, <2>4, <2>5
  <1>3. CASE APITokenCall
    <2>1. PICK t \in Sides, a \in AccountIDs, k \in Keys :
            \/ LET token == [account |-> a, expiresAt |-> 0, lastUsedAt |-> 0]
               IN Call(t, M!CreateAPIToken(mem, t, k, token), P!CreateAPIToken(pg, t, k, token))
            \/ Call(t, M!TouchAPIToken(mem, t, a, k, now), P!TouchAPIToken(pg, t, a, k, now))
            \/ Call(t, M!DeleteAPIToken(mem, t, a, k), P!DeleteAPIToken(pg, t, a, k))
      BY <1>3 DEF APITokenCall
    <2> DEFINE token == [account |-> a, expiresAt |-> 0, lastUsedAt |-> 0]
    <2>2. token \in APIToken
      BY <1>1 DEF APIToken
    <2>3. \/ Call(t, M!CreateAPIToken(mem, t, k, token), P!CreateAPIToken(pg, t, k, token))
          \/ Call(t, M!TouchAPIToken(mem, t, a, k, now), P!TouchAPIToken(pg, t, a, k, now))
          \/ Call(t, M!DeleteAPIToken(mem, t, a, k), P!DeleteAPIToken(pg, t, a, k))
      BY <2>1
    <2> HIDE DEF token
    <2>4. Alike(t, M!CreateAPIToken(mem, t, k, token), P!CreateAPIToken(pg, t, k, token))
      BY <1>1, <2>2, CreateAPITokenAlike
    <2>5. Alike(t, M!TouchAPIToken(mem, t, a, k, now), P!TouchAPIToken(pg, t, a, k, now))
      BY <1>1, TouchAPITokenAlike
    <2>6. Alike(t, M!DeleteAPIToken(mem, t, a, k), P!DeleteAPIToken(pg, t, a, k))
      BY <1>1, DeleteAPITokenAlike
    <2> QED BY <2>3, <2>4, <2>5, <2>6, CallKeeps
  <1> QED BY <1>2, <1>3

\* The calls on the unit history.
LEMMA HistoryStep ==
    ASSUME LockInv, OneUnitPerReport, RecordUnitTransitions
    PROVE  Kept
  <1>1. Paired /\ Tenants \subseteq Sides /\ now \in Time
    BY Bounds
  <1>2. PICK t \in Tenants, h \in HostIDs, batch \in {<<>>, <<"nginx">>, <<"nginx", "cron">>} :
            /\ Len(batch) <= MaxBatch
            /\ \A r \in pg.unit_transitions : r.row.host = h => r.row.at # now
            /\ Call(t, M!RecordUnitTransitions(mem, t, h, batch, now), P!RecordUnitTransitions(pg, t, h, batch, now))
    BY DEF RecordUnitTransitions
  <1>3. batch = <<>> \/ batch = <<"nginx">>
    <2>1. ASSUME NEW x, NEW y PROVE Len(<<x, y>>) = 2
      OBVIOUS
    <2>2. Len(<<"nginx", "cron">>) = 2
      BY <2>1
    <2>3. batch # <<"nginx", "cron">>
      BY <1>2, <2>2, BatchAssumption DEF OneUnitPerReport
    <2> QED BY <1>2, <2>3
  <1>4. PICK unit \in {"nginx", "cron"} : batch = <<>> \/ batch = <<unit>>
    BY <1>3
  <1>5. Alike(t, M!RecordUnitTransitions(mem, t, h, batch, now), P!RecordUnitTransitions(pg, t, h, batch, now))
    <2>1. \A r \in pg.unit_transitions : r.row.host = h => r.row.at # now
      BY <1>2
    <2> QED BY <1>1, <1>4, <2>1, RecordUnitTransitionsAlike
  <1> QED BY <1>1, <1>2, <1>5, CallKeeps

\* The calls on events.
LEMMA EventsStep ==
    ASSUME LockInv, RecordEvent
    PROVE  Kept
  <1>1. Paired /\ Tenants \subseteq Sides /\ now \in Time /\ drawn \in Nat
    BY Bounds
  <1>2. PICK t \in Tenants :
            LET a == M!RecordEvent(mem, t, drawn, now)
                b == P!RecordEvent(pg, t, drawn, now)
            IN /\ mem' = a.st /\ pg' = b.st
               /\ answer' = [side |-> t, mem |-> a.ans, pg |-> b.ans]
    BY DEF RecordEvent
  <1>3. drawn < MaxEvents /\ drawn' = drawn + 1 /\ UNCHANGED <<area, now>>
    BY DEF RecordEvent
  <1>4. PICK a, b : a = M!RecordEvent(mem, t, drawn, now) /\ b = P!RecordEvent(pg, t, drawn, now)
    OBVIOUS
  <1>5. /\ Good(a.st, now, drawn + 1) /\ Mirrors(a.st, b.st) /\ Apart(t, a.st)
        /\ AnswersAlike(t, a.ans, b.ans)
    BY <1>1, <1>4, RecordEventAlike
  <1>6. /\ mem' = a.st /\ pg' = b.st /\ answer' = [side |-> t, mem |-> a.ans, pg |-> b.ans]
    BY <1>2, <1>4
  <1>7. answer'.side = t /\ answer'.mem = a.ans /\ answer'.pg = b.ans
    BY <1>6
  <1>8. Paired'
    BY <1>3, <1>5, <1>6 DEF Paired, Lockstep
  <1>9. Agreed /\ answer'.mem.err \in Answers /\ answer'.pg.err \in Answers
    BY <1>5, <1>7 DEF AnswersAlike, Agreed
  <1>10. Isolated
    BY <1>5, <1>6, <1>7 DEF Apart, Isolated
  <1>11. drawn' \in 0 .. MaxEvents
    BY <1>1, <1>3, BoundsAssumption
  <1> QED BY <1>1, <1>3, <1>7, <1>8, <1>9, <1>10, <1>11 DEF LockInv, Kept

\* Time passes.
LEMMA TickStep ==
    ASSUME LockInv, Tick
    PROVE  Kept
  <1>1. Paired /\ now \in Nat /\ drawn \in Nat /\ Horizon \in Time /\ Platform \in Sides
    BY Bounds
  <1>2. /\ now < Horizon /\ now' = now + 1 /\ UNCHANGED <<area, mem, pg, drawn>>
        /\ answer' = [side |-> Platform, mem |-> Found(TRUE), pg |-> Found(TRUE)]
    BY DEF Tick
  <1>3. answer'.side = Platform /\ answer'.mem = Found(TRUE) /\ answer'.pg = Found(TRUE)
    BY <1>2
  <1>4. Good(mem, now, drawn) /\ Mirrors(mem, pg)
    BY <1>1 DEF Paired, Lockstep
  <1>5. Good(mem, now + 1, drawn)
    <2>1. now + 1 \in Nat /\ now <= now + 1 /\ drawn <= drawn
      BY <1>1
    <2> QED BY <1>1, <1>4, <2>1, GoodLater
  <1>6. Paired'
    BY <1>2, <1>4, <1>5 DEF Paired, Lockstep
  <1>7. Agreed /\ answer'.mem.err \in Answers /\ answer'.pg.err \in Answers
    BY <1>3 DEF Found, Refused, Answers, Agreed
  <1>8. Isolated
    BY <1>2, SameItself DEF Isolated
  <1>9. now' \in 1 .. MaxTime
    BY <1>1, <1>2, BoundsAssumption DEF Time
  <1> QED BY <1>1, <1>2, <1>3, <1>6, <1>7, <1>8, <1>9 DEF LockInv, Kept

\* The calls on alert rules and the evaluator.
LEMMA RulesStep ==
    ASSUME LockInv, AlertRuleCall \/ AlertStateCall
    PROVE  Kept
  <1>1. Paired /\ Tenants \subseteq Sides /\ now \in Time /\ now # 0 /\ 0 \in Time /\ Horizon \in Time
    BY Bounds
  <1>2. CASE AlertRuleCall
    <2>1. PICK t \in Tenants, r \in RuleIDs :
            \/ LET rule == [condition |-> "host_silent", threshold |-> 1, deliveredAt |-> 0]
               IN Call(t, M!CreateAlertRule(mem, t, r, rule), P!CreateAlertRule(pg, t, r, rule))
            \/ Call(t, M!UpdateAlertRule(mem, t, r, 2), P!UpdateAlertRule(pg, t, r, 2))
            \/ Call(t, M!RecordAlertDelivery(mem, t, r, Horizon), P!RecordAlertDelivery(pg, t, r, Horizon))
            \/ Call(t, M!DeleteAlertRule(mem, t, r), P!DeleteAlertRule(pg, t, r))
      BY <1>2 DEF AlertRuleCall
    <2> DEFINE rule == [condition |-> "host_silent", threshold |-> 1, deliveredAt |-> 0]
    <2>2. rule \in AlertRule
      BY <1>1 DEF AlertRule
    <2>3. \/ Call(t, M!CreateAlertRule(mem, t, r, rule), P!CreateAlertRule(pg, t, r, rule))
          \/ Call(t, M!UpdateAlertRule(mem, t, r, 2), P!UpdateAlertRule(pg, t, r, 2))
          \/ Call(t, M!RecordAlertDelivery(mem, t, r, Horizon), P!RecordAlertDelivery(pg, t, r, Horizon))
          \/ Call(t, M!DeleteAlertRule(mem, t, r), P!DeleteAlertRule(pg, t, r))
      BY <2>1
    <2> HIDE DEF rule
    <2>4. Alike(t, M!CreateAlertRule(mem, t, r, rule), P!CreateAlertRule(pg, t, r, rule))
      BY <1>1, <2>2, CreateAlertRuleAlike
    <2>5. Alike(t, M!UpdateAlertRule(mem, t, r, 2), P!UpdateAlertRule(pg, t, r, 2))
      BY <1>1, UpdateAlertRuleAlike
    <2>6. Alike(t, M!RecordAlertDelivery(mem, t, r, Horizon), P!RecordAlertDelivery(pg, t, r, Horizon))
      BY <1>1, RecordAlertDeliveryAlike
    <2>7. Alike(t, M!DeleteAlertRule(mem, t, r), P!DeleteAlertRule(pg, t, r))
      BY <1>1, DeleteAlertRuleAlike
    <2> QED BY <1>1, <2>3, <2>4, <2>5, <2>6, <2>7, CallKeeps
  <1>3. CASE AlertStateCall
    <2>1. PICK t \in Tenants, r \in RuleIDs, h \in HostIDs :
            LET key == AlertKey(r, h)
            IN \/ Call(t, M!UpsertAlertState(mem, t, key, QuietState), P!UpsertAlertState(pg, t, key, QuietState))
               \/ Call(t, M!ClaimAlertNotification(mem, t, key, now, 1), P!ClaimAlertNotification(pg, t, key, now, 1))
               \/ Call(t, M!ReleaseAlertFiring(mem, t, key), P!ReleaseAlertFiring(pg, t, key))
      BY <1>3 DEF AlertStateCall
    <2>2. \/ Call(t, M!UpsertAlertState(mem, t, <<r, h>>, QuietState), P!UpsertAlertState(pg, t, <<r, h>>, QuietState))
          \/ Call(t, M!ClaimAlertNotification(mem, t, <<r, h>>, now, 1), P!ClaimAlertNotification(pg, t, <<r, h>>, now, 1))
          \/ Call(t, M!ReleaseAlertFiring(mem, t, <<r, h>>), P!ReleaseAlertFiring(pg, t, <<r, h>>))
      BY <2>1 DEF AlertKey
    <2>3. QuietState \in AlertState
      BY <1>1 DEF QuietState, AlertState
    <2>4. Alike(t, M!UpsertAlertState(mem, t, <<r, h>>, QuietState), P!UpsertAlertState(pg, t, <<r, h>>, QuietState))
      BY <1>1, <2>3, UpsertAlertStateAlike
    <2>5. Alike(t, M!ClaimAlertNotification(mem, t, <<r, h>>, now, 1), P!ClaimAlertNotification(pg, t, <<r, h>>, now, 1))
      BY <1>1, ClaimAlertNotificationAlike
    <2>6. Alike(t, M!ReleaseAlertFiring(mem, t, <<r, h>>), P!ReleaseAlertFiring(pg, t, <<r, h>>))
      BY <1>1, ReleaseAlertFiringAlike
    <2> QED BY <1>1, <2>2, <2>4, <2>5, <2>6, CallKeeps
  <1> QED BY <1>2, <1>3

\* The calls on templates.
LEMMA TemplatesStep ==
    ASSUME LockInv, TemplateCall
    PROVE  Kept
  <1>1. Paired /\ Tenants \subseteq Sides
    BY Bounds
  <1>2. PICK t \in Tenants, name \in Names :
            \/ \E body \in {"b1", "b2"} :
                /\ Cardinality(P!Versions(pg, t, name)) < MaxVersions
                /\ Call(t, M!CreateTemplateVersion(mem, t, name, [body |-> body]),
                           P!CreateTemplateVersion(pg, t, name, [body |-> body]))
            \/ \E by \in Operators : Call(t, M!ArchiveTemplate(mem, t, name, by), P!ArchiveTemplate(pg, t, name, by))
            \/ Call(t, M!RestoreTemplate(mem, t, name), P!RestoreTemplate(pg, t, name))
    BY DEF TemplateCall
  <1>3. CASE \E body \in {"b1", "b2"} :
                /\ Cardinality(P!Versions(pg, t, name)) < MaxVersions
                /\ Call(t, M!CreateTemplateVersion(mem, t, name, [body |-> body]),
                           P!CreateTemplateVersion(pg, t, name, [body |-> body]))
    <2>1. PICK body \in {"b1", "b2"} :
                /\ Cardinality(P!Versions(pg, t, name)) < MaxVersions
                /\ Call(t, M!CreateTemplateVersion(mem, t, name, [body |-> body]),
                           P!CreateTemplateVersion(pg, t, name, [body |-> body]))
      BY <1>3
    <2>2. PICK x : x = [body |-> body]
      OBVIOUS
    <2>3. x \in TemplateVersion
      BY <2>2 DEF TemplateVersion
    <2>4. Call(t, M!CreateTemplateVersion(mem, t, name, x), P!CreateTemplateVersion(pg, t, name, x))
      BY <2>1, <2>2
    <2>5. Alike(t, M!CreateTemplateVersion(mem, t, name, x), P!CreateTemplateVersion(pg, t, name, x))
      BY <1>1, <2>1, <2>3, CreateTemplateVersionAlike
    <2> QED BY <1>1, <2>4, <2>5, CallKeeps
  <1>4. CASE \E by \in Operators : Call(t, M!ArchiveTemplate(mem, t, name, by), P!ArchiveTemplate(pg, t, name, by))
    <2>1. PICK by \in Operators : Call(t, M!ArchiveTemplate(mem, t, name, by), P!ArchiveTemplate(pg, t, name, by))
      BY <1>4
    <2>2. Alike(t, M!ArchiveTemplate(mem, t, name, by), P!ArchiveTemplate(pg, t, name, by))
      BY <1>1, ArchiveTemplateAlike
    <2> QED BY <1>1, <2>1, <2>2, CallKeeps
  <1>5. CASE Call(t, M!RestoreTemplate(mem, t, name), P!RestoreTemplate(pg, t, name))
    <2>1. Alike(t, M!RestoreTemplate(mem, t, name), P!RestoreTemplate(pg, t, name))
      BY <1>1, RestoreTemplateAlike
    <2> QED BY <1>1, <1>5, <2>1, CallKeeps
  <1> QED BY <1>2, <1>3, <1>4, <1>5

\* The calls on wallboard shares.
LEMMA SharesStep ==
    ASSUME LockInv, WallboardCall
    PROVE  Kept
  <1>1. Paired /\ Tenants \subseteq Sides /\ now \in Time /\ 0 \in Time /\ Later \subseteq Time
    BY Bounds
  <1>2. PICK t \in Tenants, id \in Names :
            \/ \E secret \in Keys, e \in Later :
                /\ id \in DOMAIN mem.shares => mem.shares[id].tenant = t
                /\ LET share == [secret |-> secret, expiresAt |-> e, lastSeenAt |-> 0]
                   IN Call(t, M!CreateWallboardShare(mem, t, id, share, now),
                              P!CreateWallboardShare(pg, t, id, share, now))
            \/ Call(t, M!DeleteWallboardShare(mem, t, id), P!DeleteWallboardShare(pg, t, id))
            \/ Call(t, M!TouchWallboardShare(mem, t, id, now), P!TouchWallboardShare(pg, t, id, now))
    BY DEF WallboardCall
  <1>3. CASE \E secret \in Keys, e \in Later :
                /\ id \in DOMAIN mem.shares => mem.shares[id].tenant = t
                /\ LET share == [secret |-> secret, expiresAt |-> e, lastSeenAt |-> 0]
                   IN Call(t, M!CreateWallboardShare(mem, t, id, share, now),
                              P!CreateWallboardShare(pg, t, id, share, now))
    <2>1. PICK secret \in Keys, e \in Later :
                /\ id \in DOMAIN mem.shares => mem.shares[id].tenant = t
                /\ LET share == [secret |-> secret, expiresAt |-> e, lastSeenAt |-> 0]
                   IN Call(t, M!CreateWallboardShare(mem, t, id, share, now),
                              P!CreateWallboardShare(pg, t, id, share, now))
      BY <1>3
    <2> DEFINE share == [secret |-> secret, expiresAt |-> e, lastSeenAt |-> 0]
    <2>2. share \in WallboardShare
      BY <1>1 DEF WallboardShare
    <2>3. Call(t, M!CreateWallboardShare(mem, t, id, share, now), P!CreateWallboardShare(pg, t, id, share, now))
      BY <2>1
    <2> HIDE DEF share
    <2>4. Alike(t, M!CreateWallboardShare(mem, t, id, share, now), P!CreateWallboardShare(pg, t, id, share, now))
      BY <1>1, <2>1, <2>2, CreateWallboardShareAlike
    <2> QED BY <1>1, <2>3, <2>4, CallKeeps
  <1>4. /\ Alike(t, M!DeleteWallboardShare(mem, t, id), P!DeleteWallboardShare(pg, t, id))
        /\ Alike(t, M!TouchWallboardShare(mem, t, id, now), P!TouchWallboardShare(pg, t, id, now))
    BY <1>1, DeleteWallboardShareAlike, TouchWallboardShareAlike
  <1> QED BY <1>1, <1>2, <1>3, <1>4, CallKeeps

\* Every step is one of these.
LEMMA NextKeeps ==
    ASSUME LockInv, OneUnitPerReport, Next
    PROVE  Kept
  BY TickStep, TenantsStep, TokensStep, HostsStep, CertificatesStep, JobsStep, AccountsStep, CredentialsStep, EventsStep,
     HistoryStep, RulesStep, TemplatesStep, SharesStep DEF Next

\* A fresh memory store holds what Migrate leaves in the database.
LEMMA InitHolds == Init => LockInv
  <1> SUFFICES ASSUME Init PROVE LockInv
    OBVIOUS
  <1>1. mem = M!NewMemory /\ pg = P!Migrate /\ area \in Areas /\ now = 1 /\ drawn = 0
        /\ answer = [side |-> Platform, mem |-> Found(TRUE), pg |-> Found(TRUE)]
    BY DEF Init
  <1>2. DOMAIN mem = M!Memory /\ mem.tenants = Put(Empty, DefaultTenant, FreshTenant("default"))
        /\ \A f \in M!Memory \ {"tenants"} : mem[f] = Empty
    BY <1>1 DEF M!NewMemory, M!Memory, M!Put, Put, M!Empty, Empty, M!FreshTenant, FreshTenant, M!NoLimit, NoLimit
  <1>3. DOMAIN pg = P!Postgres /\ pg.tenants = {[id |-> DefaultTenant, row |-> FreshTenant("default")]}
        /\ \A f \in P!Postgres \ {"tenants"} : pg[f] = {}
    BY <1>1 DEF P!Migrate, P!Postgres, P!FreshTenant, FreshTenant, P!NoLimit, NoLimit
  <1>4. DOMAIN Empty = {}
    BY DEF Empty
  <1>5. /\ mem.tokens = Empty /\ mem.hosts = Empty /\ mem.certs = Empty /\ mem.jobs = Empty /\ mem.records = Empty
        /\ mem.results = Empty /\ mem.templates = Empty /\ mem.archivedTemplates = Empty /\ mem.events = Empty
        /\ mem.transitions = Empty /\ mem.rules = Empty /\ mem.states = Empty /\ mem.accounts = Empty
        /\ mem.sessions = Empty /\ mem.apiTokens = Empty /\ mem.shares = Empty
    BY <1>2 DEF M!Memory
  <1>6. /\ pg.enrollment_tokens = {} /\ pg.hosts = {} /\ pg.certificates = {} /\ pg.jobs = {} /\ pg.job_results = {}
        /\ pg.templates = {} /\ pg.template_archivals = {} /\ pg.events = {} /\ pg.unit_transitions = {}
        /\ pg.alert_rules = {} /\ pg.alert_states = {} /\ pg.accounts = {} /\ pg.sessions = {} /\ pg.api_tokens = {}
        /\ pg.wallboard_shares = {}
    BY <1>3 DEF P!Postgres
  <1>7. \A K, V : MapsTo(Empty, K, V)
    BY <1>4 DEF MapsTo
  <1>8. IsFiniteSet(DOMAIN Empty)
    BY <1>4, FS_EmptySet
  <1>9. Keyed(Empty) = {} /\ Owned(Empty) = {} /\ Inside(Empty) = {} /\ InsideTwice(Empty) = {}
    BY <1>4 DEF Keyed, Owned, Inside, InsideTwice
  <1>10. \A t : M!Beside(Empty, t) = {} /\ \A h : Of(Empty, t, h) = {}
    BY <1>4 DEF M!Beside, Of
  <1>11. Cardinality({}) = 0
    BY FS_EmptySet
  <1>12. MapsTo(mem.tenants, Tenants, Tenant)
    <2>1. FreshTenant("default") \in Tenant
      BY DEF FreshTenant, Tenant, Modes
    <2> QED BY <1>2, <1>4, <2>1, DefaultTenantAssumption DEF MapsTo, Put
  <1>13. \A fleets, homes, c, d :
            /\ TokensGood(Empty, fleets) /\ HostsGood(Empty, fleets) /\ CertsGood(Empty, homes)
            /\ TemplatesGood(Empty, Empty, fleets)
            /\ RulesGood(Empty, Empty, fleets) /\ AccountsGood(Empty, fleets)
            /\ CredentialsGood(Empty, Empty, homes) /\ SharesGood(Empty, fleets)
    BY <1>4, <1>7, <1>8 DEF TokensGood, HostsGood, CertsGood, TemplatesGood, RulesGood, AccountsGood, CredentialsGood, SharesGood
  <1>14. \A fleets, c, d : EventsGood(Empty, fleets, c, d) /\ TransitionsGood(Empty, fleets, c)
    <2>1. MaxEventsPerTenant \in Nat /\ MaxUnitTransitionsPerHost \in Nat
      BY BoundsAssumption
    <2>2. \A t : Cardinality(M!Beside(Empty, t)) <= MaxEventsPerTenant
      BY <1>10, <1>11, <2>1
    <2>3. \A t, h : Cardinality(Of(Empty, t, h)) <= MaxUnitTransitionsPerHost
      BY <1>10, <1>11, <2>1
    <2> QED BY <1>4, <1>7, <1>8, <2>2, <2>3 DEF EventsGood, TransitionsGood
  <1>15. \A homes : JobsGood(Empty, Empty, Empty, homes)
    BY <1>4, <1>7 DEF JobsGood, Queued, Waiting
  <1>16. Good(mem, now, drawn)
    BY <1>2, <1>5, <1>12, <1>13, <1>14, <1>15 DEF Good
  <1>17. pg.tenants = Keyed(mem.tenants)
    BY <1>2, <1>3, <1>4 DEF Keyed, Put
  <1>18. {EventRow(mem.events[i]) : i \in DOMAIN mem.events} = {} /\ HistoryTable(mem.transitions, Homes(mem.hosts)) = {}
    BY <1>4, <1>5 DEF HistoryTable, Visible
  <1>19. Mirrors(mem, pg)
    BY <1>3, <1>5, <1>6, <1>9, <1>17, <1>18 DEF Mirrors
  <1>20. answer.side \in Sides /\ answer.mem.err \in Answers /\ answer.pg.err \in Answers
    BY <1>1 DEF Sides, Found, Answers
  <1>21. now \in 1 .. MaxTime /\ drawn \in 0 .. MaxEvents
    <2>1. MaxTime \in Nat /\ MaxTime >= 2 /\ MaxEvents \in Nat
      BY BoundsAssumption
    <2> QED BY <1>1, <2>1
  <1> QED BY <1>1, <1>16, <1>19, <1>20, <1>21 DEF LockInv, Paired, Lockstep

-----------------------------------------------------------------------------
(* What follows for one state: the invariant. *)

\* What is named by the members of a finite set is no more than they are.
LEMMA Covered ==
    ASSUME NEW S, IsFiniteSet(S), NEW u, NEW T, \A r \in T : \E x \in S : r = u[x]
    PROVE  IsFiniteSet(T) /\ Cardinality(T) <= Cardinality(S)
  <1> DEFINE w == [r \in T |-> CHOOSE x \in S : r = u[x]]
  <1>1. \A r \in T : w[r] \in S /\ r = u[w[r]]
    OBVIOUS
  <1>2. w \in [T -> S]
    BY <1>1
  <1>3. \A r, s \in T : w[r] = w[s] => r = s
    BY <1>1
  <1> HIDE DEF w
  <1>4. w \in Injection(T, S)
    BY <1>2, <1>3 DEF Injection, IsInjective
  <1> QED BY <1>4, FS_Injection

\* Neither history outgrows its bound, in the database either.
LEMMA HistoriesBounded == LockInv => HistoryIsBounded
  <1> SUFFICES ASSUME LockInv PROVE HistoryIsBounded
    OBVIOUS
  <1> DEFINE f == mem.events
             x == mem.transitions
  <1>1. Good(mem, now, drawn) /\ Mirrors(mem, pg)
    BY DEF LockInv, Paired, Lockstep
  <1>2. /\ IsFiniteSet(DOMAIN f) /\ IsFiniteSet(DOMAIN x)
        /\ \A t \in Tenants : Cardinality(M!Beside(f, t)) <= MaxEventsPerTenant
        /\ \A t \in Tenants, h \in HostIDs : Cardinality(Of(x, t, h)) <= MaxUnitTransitionsPerHost
    BY <1>1 DEF Good, EventsGood, TransitionsGood
  <1>3. MaxEventsPerTenant \in Nat /\ MaxUnitTransitionsPerHost \in Nat
    BY BoundsAssumption
  <1>4. ASSUME NEW t \in Tenants PROVE Cardinality(P!InTenant(pg.events, t)) <= MaxEventsPerTenant
    <2> DEFINE S == M!Beside(f, t)
               T == P!InTenant(pg.events, t)
               u == [i \in DOMAIN f |-> EventRow(f[i])]
    <2>1. S \in SUBSET DOMAIN f
      BY DEF M!Beside
    <2>2. IsFiniteSet(S)
      BY <1>2, <2>1, FS_Subset
    <2>3. \A r \in T : \E i \in S : r = u[i]
      <3> SUFFICES ASSUME NEW r \in T PROVE \E i \in S : r = u[i]
        OBVIOUS
      <3>1. r \in pg.events /\ r.tenant = t
        BY DEF P!InTenant
      <3>2. PICK i \in DOMAIN f : r = EventRow(f[i])
        BY <1>1, <3>1 DEF Mirrors
      <3>3. f[i].tenant = t
        BY <3>1, <3>2 DEF EventRow
      <3> QED BY <3>2, <3>3 DEF M!Beside
    <2> HIDE DEF S, T, u
    <2>4. IsFiniteSet(T) /\ Cardinality(T) <= Cardinality(S)
      BY <2>2, <2>3, Covered
    <2>5. Cardinality(T) \in Nat /\ Cardinality(S) \in Nat
      BY <2>2, <2>4, FS_CardinalityType
    <2>6. Cardinality(S) <= MaxEventsPerTenant
      BY <1>2 DEF S
    <2>7. Cardinality(T) <= MaxEventsPerTenant
      BY <1>3, <2>4, <2>5, <2>6
    <2> QED BY <2>7 DEF T
  <1>5. ASSUME NEW t \in Tenants, NEW h \in HostIDs
        PROVE  Cardinality({r \in P!InTenant(pg.unit_transitions, t) : r.row.host = h}) <= MaxUnitTransitionsPerHost
    <2> DEFINE S == Of(x, t, h)
               T == {r \in P!InTenant(pg.unit_transitions, t) : r.row.host = h}
               u == [i \in DOMAIN x |-> TransitionRow(x[i])]
    <2>1. S \in SUBSET DOMAIN x
      BY DEF Of, M!Beside
    <2>2. IsFiniteSet(S)
      BY <1>2, <2>1, FS_Subset
    <2>3. \A r \in T : \E i \in S : r = u[i]
      <3> SUFFICES ASSUME NEW r \in T PROVE \E i \in S : r = u[i]
        OBVIOUS
      <3>1. r \in pg.unit_transitions /\ r.tenant = t /\ r.row.host = h
        BY DEF P!InTenant
      <3>2. PICK i \in DOMAIN x : r = TransitionRow(x[i])
        BY <1>1, <3>1 DEF Mirrors, HistoryTable, Visible
      <3>3. x[i].tenant = t /\ x[i].host = h
        BY <3>1, <3>2 DEF TransitionRow
      <3> QED BY <3>2, <3>3 DEF Of, M!Beside
    <2> HIDE DEF S, T, u
    <2>4. IsFiniteSet(T) /\ Cardinality(T) <= Cardinality(S)
      BY <2>2, <2>3, Covered
    <2>5. Cardinality(T) \in Nat /\ Cardinality(S) \in Nat
      BY <2>2, <2>4, FS_CardinalityType
    <2>6. Cardinality(S) <= MaxUnitTransitionsPerHost
      BY <1>2 DEF S
    <2>7. Cardinality(T) <= MaxUnitTransitionsPerHost
      BY <1>3, <2>4, <2>5, <2>6
    <2> QED BY <2>7 DEF T
  <1> QED BY <1>4, <1>5 DEF HistoryIsBounded

\* The index hosts_live_machine_id.
LEMMA MachinesOnce == LockInv => OneLiveHostPerMachine
  <1> SUFFICES ASSUME LockInv, NEW t \in Tenants, NEW g \in P!ActiveHosts(pg, t), NEW h \in P!ActiveHosts(pg, t),
                      g.row.machineID = h.row.machineID, g.row.machineID # None
               PROVE  g = h
    BY DEF OneLiveHostPerMachine
  <1>1. Paired /\ HostsGood(mem.hosts, DOMAIN mem.tenants)
    BY DEF LockInv, Paired, Lockstep, Good
  <1>2. \A r : r \in P!ActiveHosts(pg, t) <=> \E k \in M!ActiveHosts(mem, t) : r = OwnedRow(mem.hosts, k)
    BY <1>1, ActiveAlike
  <1>3. PICK x \in M!ActiveHosts(mem, t) : g = OwnedRow(mem.hosts, x)
    BY <1>2
  <1>4. PICK y \in M!ActiveHosts(mem, t) : h = OwnedRow(mem.hosts, y)
    BY <1>2
  <1>5. g.row = mem.hosts[x].row /\ h.row = mem.hosts[y].row
    BY <1>3, <1>4 DEF OwnedRow
  <1>6. /\ x \in DOMAIN mem.hosts /\ mem.hosts[x].tenant = t /\ ~mem.hosts[x].row.revoked
        /\ y \in DOMAIN mem.hosts /\ mem.hosts[y].tenant = t /\ ~mem.hosts[y].row.revoked
    BY DEF M!ActiveHosts, M!Beside
  <1>7. x = y
    BY <1>1, <1>5, <1>6 DEF HostsGood
  <1> QED BY <1>3, <1>4, <1>7

\* Nothing outlives its owner.
LEMMA OwnersThere == LockInv => NothingOutlivesItsOwner
  <1> SUFFICES ASSUME LockInv PROVE NothingOutlivesItsOwner
    OBVIOUS
  <1>1. Good(mem, now, drawn)
    BY DEF LockInv, Paired, Lockstep
  <1>2. ASSUME NEW t, NEW h, <<t, h>> \in Homes(mem.hosts) PROVE M!HasHost(mem, t, h)
    BY <1>2 DEF Homes, M!HasHost
  <1>3. /\ \A h \in DOMAIN mem.hosts : mem.hosts[h].tenant \in DOMAIN mem.tenants
        /\ \A k \in DOMAIN mem.tokens : mem.tokens[k].tenant \in DOMAIN mem.tenants
        /\ \A s \in DOMAIN mem.shares : mem.shares[s].tenant \in DOMAIN mem.tenants
        /\ \A a \in DOMAIN mem.accounts : mem.accounts[a].tenant \in DOMAIN mem.tenants \cup {Platform}
    BY <1>1 DEF Good, HostsGood, TokensGood, SharesGood, AccountsGood
  <1>4. \A fp \in DOMAIN mem.certs : M!HasHost(mem, mem.certs[fp].tenant, mem.certs[fp].row.host)
    BY <1>1, <1>2 DEF Good, CertsGood
  <1>5. JobsGood(mem.jobs, mem.records, mem.results, Homes(mem.hosts))
    BY <1>1 DEF Good
  <1>6. \A k \in DOMAIN mem.records : M!HasHost(mem, k[1], mem.records[k].host)
    BY <1>2, <1>5 DEF JobsGood
  <1>7. ASSUME NEW k \in DOMAIN mem.jobs PROVE M!HasHost(mem, k[1], k[2])
    <2>1. k \in Homes(mem.hosts) /\ k \in Tenants \X HostIDs
      BY <1>5 DEF JobsGood, MapsTo
    <2>2. k = <<k[1], k[2]>>
      BY <2>1
    <2> QED BY <1>2, <2>1, <2>2
  <1>8. \A k \in DOMAIN mem.results : k \in DOMAIN mem.records
    BY <1>5 DEF JobsGood
  <1>9. /\ \A k \in DOMAIN mem.states : <<k[1], k[2]>> \in DOMAIN mem.rules
        /\ \A k \in DOMAIN mem.rules : k[1] \in DOMAIN mem.tenants
    BY <1>1 DEF Good, RulesGood
  <1>10. /\ \A k \in DOMAIN mem.templates : k[1] \in DOMAIN mem.tenants
         /\ \A k \in DOMAIN mem.archivedTemplates : \E x \in DOMAIN mem.templates : x[1] = k[1] /\ x[2] = k[2]
    BY <1>1 DEF Good, TemplatesGood
  <1>11. \A k \in DOMAIN mem.archivedTemplates : M!Versions(mem, k[1], k[2]) # {}
    BY <1>10, HasVersions
  <1>12. /\ \A k \in DOMAIN mem.sessions : mem.sessions[k].account \in DOMAIN mem.accounts
         /\ \A k \in DOMAIN mem.apiTokens : mem.apiTokens[k].account \in DOMAIN mem.accounts
    BY <1>1 DEF Good, CredentialsGood
  <1>13. /\ \A i \in DOMAIN mem.events : mem.events[i].tenant \in DOMAIN mem.tenants
         /\ \A i \in DOMAIN mem.transitions : mem.transitions[i].tenant \in DOMAIN mem.tenants
    BY <1>1 DEF Good, EventsGood, TransitionsGood
  <1> QED BY <1>3, <1>4, <1>6, <1>7, <1>8, <1>9, <1>10, <1>11, <1>12, <1>13 DEF NothingOutlivesItsOwner

\* Every map holds what the code puts into it.
LEMMA MapsTyped == LockInv => TypeOK
  <1> SUFFICES ASSUME LockInv PROVE TypeOK
    OBVIOUS
  <1>1. Good(mem, now, drawn) /\ DOMAIN mem = M!Memory /\ DOMAIN pg = P!Postgres
    BY DEF LockInv, Paired, Lockstep, Good, Mirrors
  <1>2. /\ MapsTo(mem.tenants, Tenants, Tenant)
        /\ MapsTo(mem.tokens, Keys, Ours(EnrollmentToken))
        /\ MapsTo(mem.hosts, HostIDs, Ours(Host))
        /\ MapsTo(mem.certs, Fingerprints, Ours(Certificate))
    BY <1>1 DEF Good, TokensGood, HostsGood, CertsGood
  <1>3. /\ MapsTo(mem.jobs, Tenants \X HostIDs, SUBSET JobIDs)
        /\ MapsTo(mem.records, Tenants \X JobIDs, JobRecord)
        /\ MapsTo(mem.results, Tenants \X JobIDs, {"completed", "failed"})
    BY <1>1 DEF Good, JobsGood
  <1>4. /\ MapsTo(mem.templates, Tenants \X Names \X (1 .. MaxVersions), TemplateVersion)
        /\ MapsTo(mem.archivedTemplates, Tenants \X Names, Operators)
    BY <1>1 DEF Good, TemplatesGood
  <1>5. /\ MapsTo(mem.events, Nat \ {0}, [tenant : Tenants, id : Nat, at : Time])
        /\ MapsTo(mem.transitions, Nat \ {0}, [tenant : Tenants, host : HostIDs, unit : {"nginx", "cron"}, at : Time])
    BY <1>1 DEF Good, EventsGood, TransitionsGood
  <1>6. /\ MapsTo(mem.rules, Tenants \X RuleIDs, AlertRule)
        /\ MapsTo(mem.states, Tenants \X RuleIDs \X HostIDs, AlertState)
    BY <1>1 DEF Good, RulesGood
  <1>7. /\ MapsTo(mem.accounts, AccountIDs, Belonging(Sides, Account))
        /\ MapsTo(mem.sessions, Keys, Session)
        /\ MapsTo(mem.apiTokens, Keys, APIToken)
        /\ MapsTo(mem.shares, Names, Ours(WallboardShare))
    BY <1>1 DEF Good, AccountsGood, CredentialsGood, SharesGood
  <1>8. /\ area \in Areas /\ now \in 1 .. MaxTime /\ drawn \in 0 .. MaxEvents
        /\ answer.side \in Sides /\ answer.mem.err \in Answers /\ answer.pg.err \in Answers
    BY DEF LockInv
  <1> QED BY <1>1, <1>2, <1>3, <1>4, <1>5, <1>6, <1>7, <1>8 DEF TypeOK

\* The queue is what is released and not claimed.
LEMMA QueuesTell == LockInv => QueueMatchesHistory /\ QueuesHoldTheirOwn /\ OutcomesFollowClaims
  <1> SUFFICES ASSUME LockInv PROVE QueueMatchesHistory /\ QueuesHoldTheirOwn /\ OutcomesFollowClaims
    OBVIOUS
  <1> DEFINE q == mem.jobs
             r == mem.records
  <1>1. JobsGood(q, r, mem.results, Homes(mem.hosts))
    BY DEF LockInv, Paired, Lockstep, Good
  <1>2. \A t \in Tenants, h \in HostIDs : Queued(q, t, h) = Waiting(r, t, h)
    BY <1>1 DEF JobsGood
  <1>3. MapsTo(q, Tenants \X HostIDs, SUBSET JobIDs) /\ MapsTo(r, Tenants \X JobIDs, JobRecord)
    BY <1>1 DEF JobsGood
  <1>4. QueueMatchesHistory
    <2> SUFFICES ASSUME NEW k \in DOMAIN r
                 PROVE  k[2] \in M!QueueOf(mem, k[1], r[k].host) <=> ~AwaitingApproval(r[k]) /\ ~r[k].claimed
      BY DEF QueueMatchesHistory
    <2>1. k \in Tenants \X JobIDs /\ r[k] \in JobRecord
      BY <1>3 DEF MapsTo
    <2>2. k = <<k[1], k[2]>> /\ k[1] \in Tenants /\ k[2] \in JobIDs
      BY <2>1
    <2>3. r[k].host \in HostIDs
      BY <2>1 DEF JobRecord
    <2>4. M!QueueOf(mem, k[1], r[k].host) = Queued(q, k[1], r[k].host)
      BY DEF M!QueueOf, Queued
    <2>5. k[2] \in Waiting(r, k[1], r[k].host) <=> ~AwaitingApproval(r[k]) /\ ~r[k].claimed
      BY <2>2 DEF Waiting
    <2> QED BY <1>2, <2>2, <2>3, <2>4, <2>5
  <1>5. QueuesHoldTheirOwn
    <2> SUFFICES ASSUME NEW k \in DOMAIN q, NEW id \in q[k]
                 PROVE  <<k[1], id>> \in DOMAIN r /\ r[<<k[1], id>>].host = k[2]
      BY DEF QueuesHoldTheirOwn
    <2>1. k \in Tenants \X HostIDs
      BY <1>3 DEF MapsTo
    <2>2. k = <<k[1], k[2]>> /\ k[1] \in Tenants /\ k[2] \in HostIDs
      BY <2>1
    <2>3. id \in Queued(q, k[1], k[2])
      BY <2>2 DEF Queued
    <2>4. id \in Waiting(r, k[1], k[2])
      BY <1>2, <2>2, <2>3
    <2> QED BY <2>4 DEF Waiting
  <1>6. OutcomesFollowClaims
    BY <1>1 DEF JobsGood, OutcomesFollowClaims
  <1> QED BY <1>4, <1>5, <1>6

\* The mirror, as the parity states it.
LEMMA TablesMirror == LockInv => TablesMirrorMaps
  <1> SUFFICES ASSUME LockInv PROVE TablesMirrorMaps
    OBVIOUS
  <1>1. Mirrors(mem, pg)
    BY DEF LockInv, Paired, Lockstep
  <1>2. ASSUME NEW i \in DOMAIN mem.transitions PROVE i \in Shown <=> i \in Visible(mem.transitions, Homes(mem.hosts))
    <2>1. ASSUME NEW t, NEW h PROVE <<t, h>> \in Homes(mem.hosts) <=> M!HasHost(mem, t, h)
      BY DEF Homes, M!HasHost
    <2> QED BY <2>1 DEF Shown, Visible
  <1>3. Shown = Visible(mem.transitions, Homes(mem.hosts))
    BY <1>2 DEF Shown, Visible
  <1> QED BY <1>1, <1>3 DEF Mirrors, HistoryTable, TablesMirrorMaps

\* So the invariant holds wherever the strengthening does.
LEMMA Invariant == LockInv => StoreInv
  <1> SUFFICES ASSUME LockInv PROVE StoreInv
    OBVIOUS
  <1>1. Good(mem, now, drawn)
    BY DEF LockInv, Paired, Lockstep
  <1>2. IndexesHold
    BY <1>1 DEF Good, HostsGood, AccountsGood, SharesGood, IndexesHold
  <1>3. HistoryInOrder
    BY <1>1 DEF Good, EventsGood, TransitionsGood, HistoryInOrder
  <1>4. VersionsCountUp
    BY <1>1 DEF Good, TemplatesGood, VersionsCountUp
  <1>5. FinitelyMany
    <2>1. /\ IsFiniteSet(DOMAIN mem.hosts) /\ IsFiniteSet(DOMAIN mem.certs) /\ IsFiniteSet(DOMAIN mem.sessions)
          /\ IsFiniteSet(DOMAIN mem.shares) /\ IsFiniteSet(DOMAIN mem.events) /\ IsFiniteSet(DOMAIN mem.transitions)
      BY <1>1 DEF Good, HostsGood, CertsGood, CredentialsGood, SharesGood, EventsGood, TransitionsGood
    <2> QED BY <2>1 DEF FinitelyMany
  <1> QED BY <1>2, <1>3, <1>4, <1>5, MapsTyped, OwnersThere, QueuesTell, HistoriesBounded, MachinesOnce, TablesMirror DEF StoreInv

-----------------------------------------------------------------------------
(* What follows for a step: nobody else's rows are touched. *)

\* Where a side's events are the same, so are their rows ...
LEMMA HistoriesSame ==
    ASSUME NEW f, NEW g, NEW t, SameBeside(f, g, t), NEW S, NEW T,
           S = {EventRow(f[i]) : i \in DOMAIN f}, T = {EventRow(g[i]) : i \in DOMAIN g}
    PROVE  P!InTenant(S, t) = P!InTenant(T, t)
  <1>1. \A x : EventRow(x).tenant = x.tenant
    BY DEF EventRow
  <1>2. \A i : i \in DOMAIN f /\ f[i].tenant = t <=> i \in DOMAIN g /\ g[i].tenant = t
    BY DEF SameBeside, M!Beside
  <1>3. \A i \in DOMAIN f : f[i].tenant = t => f[i] = g[i]
    BY DEF SameBeside, M!Beside
  <1>4. ASSUME NEW r PROVE r \in P!InTenant(S, t) <=> r \in P!InTenant(T, t)
    <2>1. r \in P!InTenant(S, t) <=> \E i \in DOMAIN f : r = EventRow(f[i]) /\ f[i].tenant = t
      BY <1>1 DEF P!InTenant
    <2>2. r \in P!InTenant(T, t) <=> \E i \in DOMAIN g : r = EventRow(g[i]) /\ g[i].tenant = t
      BY <1>1 DEF P!InTenant
    <2> QED BY <1>2, <1>3, <2>1, <2>2
  <1> QED BY <1>4 DEF P!InTenant

\* ... and its unit history, if its hosts are ...
LEMMA TransitionsSame ==
    ASSUME NEW f, NEW g, NEW t, SameBeside(f, g, t), NEW hosts, NEW others, SameBeside(hosts, others, t)
    PROVE  P!InTenant(HistoryTable(f, Homes(hosts)), t) = P!InTenant(HistoryTable(g, Homes(others)), t)
  <1>1. \A x : TransitionRow(x).tenant = x.tenant
    BY DEF TransitionRow
  <1>2. \A i : i \in DOMAIN f /\ f[i].tenant = t <=> i \in DOMAIN g /\ g[i].tenant = t
    BY DEF SameBeside, M!Beside
  <1>3. \A i \in DOMAIN f : f[i].tenant = t => f[i] = g[i]
    BY DEF SameBeside, M!Beside
  <1>4. ASSUME NEW h PROVE <<t, h>> \in Homes(hosts) <=> <<t, h>> \in Homes(others)
    <2>1. <<t, h>> \in Homes(hosts) <=> h \in DOMAIN hosts /\ hosts[h].tenant = t
      BY DEF Homes
    <2>2. <<t, h>> \in Homes(others) <=> h \in DOMAIN others /\ others[h].tenant = t
      BY DEF Homes
    <2> QED BY <2>1, <2>2 DEF SameBeside, M!Beside
  <1> DEFINE A == Homes(hosts)
             B == Homes(others)
  <1>5. \A h : <<t, h>> \in A <=> <<t, h>> \in B
    BY <1>4
  <1> HIDE DEF A, B
  <1>6. ASSUME NEW r PROVE r \in P!InTenant(HistoryTable(f, A), t) <=> r \in P!InTenant(HistoryTable(g, B), t)
    <2>1. r \in P!InTenant(HistoryTable(f, A), t)
          <=> \E i \in DOMAIN f : r = TransitionRow(f[i]) /\ f[i].tenant = t /\ <<t, f[i].host>> \in A
      BY <1>1 DEF P!InTenant, HistoryTable, Visible
    <2>2. r \in P!InTenant(HistoryTable(g, B), t)
          <=> \E i \in DOMAIN g : r = TransitionRow(g[i]) /\ g[i].tenant = t /\ <<t, g[i].host>> \in B
      BY <1>1 DEF P!InTenant, HistoryTable, Visible
    <2> QED BY <1>2, <1>3, <1>5, <2>1, <2>2
  <1>7. P!InTenant(HistoryTable(f, A), t) = P!InTenant(HistoryTable(g, B), t)
    BY <1>6 DEF P!InTenant
  <1> QED BY <1>7 DEF A, B

\* ... and its credentials: which they are ...
LEMMA CredentialRows ==
    ASSUME NEW db, NEW accounts, db.accounts = Owned(accounts), NEW f, NEW t, NEW table, table = Keyed(f), NEW r
    PROVE  r \in P!Credentials(db, t, table) <=> \E k \in DOMAIN f : r = KeyedRow(f, k) /\ k \in HeldBy(f, accounts, t)
  <1>1. ASSUME NEW a PROVE P!Has(P!AccountsOf(db, t), a) <=> a \in M!Beside(accounts, t)
    <2>1. P!HasIn(Owned(accounts), t, a) <=> a \in DOMAIN accounts /\ accounts[a].tenant = t
      BY OwnedHas
    <2> QED BY <2>1 DEF P!Has, P!HasIn, P!AccountsOf, M!Beside
  <1>2. r \in Keyed(f) <=> \E k \in DOMAIN f : r = KeyedRow(f, k)
    BY Tables
  <1>3. \A k : KeyedRow(f, k).row = f[k]
    BY DEF KeyedRow
  <1> QED BY <1>1, <1>2, <1>3 DEF P!Credentials, HeldBy

\* ... and that they are the same.
LEMMA CredentialsSame ==
    ASSUME NEW db, NEW eb, NEW accounts, NEW others, db.accounts = Owned(accounts), eb.accounts = Owned(others),
           NEW f, NEW g, NEW t, SameHeld(f, g, accounts, others, t)
    PROVE  P!Credentials(db, t, Keyed(f)) = P!Credentials(eb, t, Keyed(g))
  <1> DEFINE S == P!Credentials(db, t, Keyed(f))
             T == P!Credentials(eb, t, Keyed(g))
  <1>1. \A r : r \in S <=> \E k \in DOMAIN f : r = KeyedRow(f, k) /\ k \in HeldBy(f, accounts, t)
    BY CredentialRows
  <1>2. \A r : r \in T <=> \E k \in DOMAIN g : r = KeyedRow(g, k) /\ k \in HeldBy(g, others, t)
    BY CredentialRows
  <1>3. HeldBy(f, accounts, t) = HeldBy(g, others, t) /\ \A k \in HeldBy(f, accounts, t) : f[k] = g[k]
    BY DEF SameHeld
  <1>4. \A k \in HeldBy(f, accounts, t) : KeyedRow(f, k) = KeyedRow(g, k)
    BY <1>3 DEF KeyedRow
  <1>5. \A k : (k \in HeldBy(f, accounts, t) => k \in DOMAIN f) /\ (k \in HeldBy(g, others, t) => k \in DOMAIN g)
    BY DEF HeldBy
  <1>6. \A r : r \in S <=> r \in T
    BY <1>1, <1>2, <1>3, <1>4, <1>5
  <1> QED BY <1>6 DEF P!Credentials

\* Where nothing of a side's differs in the memory store, nothing does in the database.
LEMMA RowsSame ==
    ASSUME NEW m, NEW n, NEW db, NEW eb, NEW t, Mirrors(m, db), Mirrors(n, eb), SameFor(m, n, t)
    PROVE  RowsOf(db, t) = RowsOf(eb, t)
  <1>1. /\ P!InTenant(db.hosts, t) = P!InTenant(eb.hosts, t)
        /\ P!InTenant(db.certificates, t) = P!InTenant(eb.certificates, t)
        /\ P!InTenant(db.enrollment_tokens, t) = P!InTenant(eb.enrollment_tokens, t)
        /\ P!InTenant(db.wallboard_shares, t) = P!InTenant(eb.wallboard_shares, t)
        /\ P!InTenant(db.accounts, t) = P!InTenant(eb.accounts, t)
    BY SameSide DEF SameFor, Mirrors
  <1>2. /\ P!InTenant(db.jobs, t) = P!InTenant(eb.jobs, t)
        /\ P!InTenant(db.job_results, t) = P!InTenant(eb.job_results, t)
        /\ P!InTenant(db.template_archivals, t) = P!InTenant(eb.template_archivals, t)
        /\ P!InTenant(db.alert_rules, t) = P!InTenant(eb.alert_rules, t)
    BY SameSide DEF SameFor, Mirrors
  <1>3. /\ P!InTenant(db.templates, t) = P!InTenant(eb.templates, t)
        /\ P!InTenant(db.alert_states, t) = P!InTenant(eb.alert_states, t)
    BY SameSide DEF SameFor, Mirrors
  <1>4. P!InTenant(db.events, t) = P!InTenant(eb.events, t)
    <2>1. SameBeside(m.events, n.events, t)
      BY DEF SameFor
    <2>2. db.events = {EventRow(m.events[i]) : i \in DOMAIN m.events} /\ eb.events = {EventRow(n.events[i]) : i \in DOMAIN n.events}
      BY DEF Mirrors
    <2> QED BY <2>1, <2>2, HistoriesSame
  <1>5. P!InTenant(db.unit_transitions, t) = P!InTenant(eb.unit_transitions, t)
    BY TransitionsSame DEF SameFor, Mirrors
  <1>6. /\ P!Credentials(db, t, db.sessions) = P!Credentials(eb, t, eb.sessions)
        /\ P!Credentials(db, t, db.api_tokens) = P!Credentials(eb, t, eb.api_tokens)
    BY CredentialsSame DEF SameFor, Mirrors
  <1> QED BY <1>1, <1>2, <1>3, <1>4, <1>5, <1>6 DEF RowsOf

-----------------------------------------------------------------------------
(* Theorems. *)

\* What a step keeps and shows.
LEMMA StepKeeps ==
    ASSUME LockInv, OneUnitPerReport, [Next]_vars
    PROVE  /\ LockInv'
           /\ [Agreed]_vars
           /\ [\A t \in Sides : t # answer'.side => RowsOf(pg', t) = RowsOf(pg, t)]_pg
  <1>1. CASE Next
    <2>1. LockInv' /\ Agreed /\ Isolated
      BY <1>1, NextKeeps DEF Kept
    <2>2. Mirrors(mem, pg) /\ Mirrors(mem', pg')
      BY <2>1 DEF LockInv, Paired, Lockstep
    <2>3. \A t \in Sides : t # answer'.side => RowsOf(pg', t) = RowsOf(pg, t)
      <3> SUFFICES ASSUME NEW t \in Sides, t # answer'.side PROVE RowsOf(pg', t) = RowsOf(pg, t)
        OBVIOUS
      <3>1. SameFor(mem, mem', t)
        BY <2>1 DEF Isolated
      <3> QED BY <2>2, <3>1, RowsSame
    <2> QED BY <2>1, <2>3
  <1>2. CASE UNCHANGED vars
    BY <1>2 DEF vars, LockInv, Paired, Lockstep
  <1> QED BY <1>1, <1>2

\* The strengthening is an invariant.
LEMMA LockInvHolds == Spec /\ OneUnitPerReport => []LockInv
  <1>1. CASE OneUnitPerReport
    <2>1. LockInv /\ [Next]_vars => LockInv'
      BY <1>1, StepKeeps
    <2> QED BY <1>1, <2>1, InitHolds, PTL DEF Spec
  <1>2. CASE ~OneUnitPerReport
    BY <1>2
  <1> QED BY <1>1, <1>2

\* Through every sequence of calls nothing outlives its owner, the two maps of the queue tell one story, histories
\* stay bounded, a machine has one host in service, and the database holds what the memory store holds.
THEOREM StoreInvHolds == Spec /\ OneUnitPerReport => []StoreInv
  BY LockInvHolds, Invariant, PTL

\* Every call is accepted by both stores or by neither, with the same value and, for a fleet that exists, the same
\* sentinel error: what a test against Memory shows, it shows of PostgreSQL.
THEOREM StoresAlwaysAgree == Spec /\ OneUnitPerReport => StoresAgree
  <1>1. CASE OneUnitPerReport
    <2>1. LockInv /\ [Next]_vars => [Agreed]_vars
      BY <1>1, StepKeeps
    <2>2. Spec /\ []LockInv => [][Agreed]_vars
      BY <2>1, PTL DEF Spec
    <2>3. [Agreed]_vars <=> [/\ Refused(answer'.mem) <=> Refused(answer'.pg)
                             /\ answer'.mem.val = answer'.pg.val
                             /\ \/ answer'.mem.err = answer'.pg.err
                                \/ answer'.side \in Tenants \ DOMAIN mem.tenants]_vars
      BY DEF Agreed
    <2> QED BY <1>1, <2>2, <2>3, LockInvHolds, PTL DEF StoresAgree
  <1>2. CASE ~OneUnitPerReport
    BY <1>2
  <1> QED BY <1>1, <1>2

\* No call through one side's handle changes a row of another side.
THEOREM SidesStayIsolated == Spec /\ OneUnitPerReport => SidesAreIsolated
  <1>1. CASE OneUnitPerReport
    <2>1. LockInv /\ [Next]_vars => [\A t \in Sides : t # answer'.side => RowsOf(pg', t) = RowsOf(pg, t)]_pg
      BY <1>1, StepKeeps
    <2> QED BY <1>1, <2>1, LockInvHolds, PTL DEF SidesAreIsolated, Spec
  <1>2. CASE ~OneUnitPerReport
    BY <1>2
  <1> QED BY <1>1, <1>2

-----------------------------------------------------------------------------
(* What follows for the reads: lists. *)

\* A listing is of the same pairs, made from the rows of a side or from the map: with the owner beside the row ...
LEMMA OwnedListed ==
    ASSUME NEW f, NEW t
    PROVE  {<<r.id, r.row>> : r \in P!InTenant(Owned(f), t)} = {<<k, f[k].row>> : k \in M!Beside(f, t)}
  <1>1. \A k : OwnedRow(f, k).id = k /\ OwnedRow(f, k).row = f[k].row
    BY DEF OwnedRow
  <1>2. \A r : r \in P!InTenant(Owned(f), t) <=> \E k \in M!Beside(f, t) : r = OwnedRow(f, k)
    BY OwnedIn
  <1>3. ASSUME NEW w PROVE (\E r \in P!InTenant(Owned(f), t) : w = <<r.id, r.row>>) <=> \E k \in M!Beside(f, t) : w = <<k, f[k].row>>
    BY <1>1, <1>2
  <1> QED BY <1>3

\* ... with an id that is nobody's ...
LEMMA KeyedListed ==
    ASSUME NEW f, NEW S, NEW T, \A r : r \in T <=> \E k \in S : r = KeyedRow(f, k)
    PROVE  {<<r.id, r.row>> : r \in T} = {<<k, f[k]>> : k \in S}
  <1>1. \A k : KeyedRow(f, k).id = k /\ KeyedRow(f, k).row = f[k]
    BY DEF KeyedRow
  <1>2. ASSUME NEW w PROVE (\E r \in T : w = <<r.id, r.row>>) <=> \E k \in S : w = <<k, f[k]>>
    BY <1>1
  <1> QED BY <1>2

\* ... with the owner in the key ...
LEMMA InsideListed ==
    ASSUME NEW f, NEW t
    PROVE  {<<r.id, r.row>> : r \in P!InTenant(Inside(f), t)} = {<<k[2], f[k]>> : k \in M!InKey(f, t)}
  <1>1. \A k : InsideRow(f, k).id = k[2] /\ InsideRow(f, k).row = f[k]
    BY DEF InsideRow
  <1>2. \A r : r \in P!InTenant(Inside(f), t) <=> \E k \in M!InKey(f, t) : r = InsideRow(f, k)
    BY InsideIn
  <1>3. ASSUME NEW w PROVE (\E r \in P!InTenant(Inside(f), t) : w = <<r.id, r.row>>) <=> \E k \in M!InKey(f, t) : w = <<k[2], f[k]>>
    BY <1>1, <1>2
  <1> QED BY <1>3

\* ... and an id of two parts.
LEMMA TwiceListed ==
    ASSUME NEW f, NEW t
    PROVE  {<<r.id, r.row>> : r \in P!InTenant(InsideTwice(f), t)} = {<<<<k[2], k[3]>>, f[k]>> : k \in M!InKey(f, t)}
  <1> DEFINE pair(k) == <<k[2], k[3]>>
             rows == P!InTenant(InsideTwice(f), t)
             keys == M!InKey(f, t)
  <1>1. \A k : TwiceRow(f, k).id = pair(k) /\ TwiceRow(f, k).row = f[k]
    BY DEF TwiceRow
  <1>2. \A r : r \in rows <=> \E k \in keys : r = TwiceRow(f, k)
    BY TwiceIn
  <1> HIDE DEF pair, rows, keys
  <1>3. ASSUME NEW w PROVE (\E r \in rows : w = <<r.id, r.row>>) <=> \E k \in keys : w = <<pair(k), f[k]>>
    BY <1>1, <1>2
  <1>4. {<<r.id, r.row>> : r \in rows} = {<<pair(k), f[k]>> : k \in keys}
    BY <1>3
  <1> QED BY <1>4 DEF pair, rows, keys

\* The six plain lists of one side.
LEMMA ListsRead ==
    ASSUME Paired, NEW t
    PROVE  /\ M!ListEnrollmentTokens(mem, t) = P!ListEnrollmentTokens(pg, t)
           /\ M!ListHosts(mem, t) = P!ListHosts(pg, t)
           /\ M!ListWallboardShares(mem, t) = P!ListWallboardShares(pg, t)
           /\ M!ListAccounts(mem, t) = P!ListAccounts(pg, t)
           /\ M!ListAlertRules(mem, t) = P!ListAlertRules(pg, t)
           /\ M!ListAlertStates(mem, t) = P!ListAlertStates(pg, t)
  <1>1. Mirrors(mem, pg)
    BY DEF Paired, Lockstep
  <1>2. /\ pg.enrollment_tokens = Owned(mem.tokens) /\ pg.hosts = Owned(mem.hosts)
        /\ pg.wallboard_shares = Owned(mem.shares) /\ pg.accounts = Owned(mem.accounts)
        /\ pg.alert_rules = Inside(mem.rules) /\ pg.alert_states = InsideTwice(mem.states)
    BY <1>1 DEF Mirrors
  <1>3. M!ListEnrollmentTokens(mem, t) = P!ListEnrollmentTokens(pg, t)
    BY <1>2, OwnedListed DEF M!ListEnrollmentTokens, P!ListEnrollmentTokens
  <1>4. M!ListHosts(mem, t) = P!ListHosts(pg, t)
    BY <1>2, OwnedListed DEF M!ListHosts, P!ListHosts
  <1>5. M!ListWallboardShares(mem, t) = P!ListWallboardShares(pg, t)
    BY <1>2, OwnedListed DEF M!ListWallboardShares, P!ListWallboardShares
  <1>6. M!ListAccounts(mem, t) = P!ListAccounts(pg, t)
    BY <1>2, OwnedListed DEF M!ListAccounts, P!ListAccounts, P!AccountsOf, P!InTenant
  <1>7. M!ListAlertRules(mem, t) = P!ListAlertRules(pg, t)
    BY <1>2, InsideListed DEF M!ListAlertRules, P!ListAlertRules
  <1>8. M!ListAlertStates(mem, t) = P!ListAlertStates(pg, t)
    <2>1. M!ListAlertStates(mem, t) = {<<<<k[2], k[3]>>, mem.states[k]>> : k \in M!InKey(mem.states, t)}
      BY DEF M!ListAlertStates, M!AlertKey
    <2> QED BY <1>2, <2>1, TwiceListed DEF P!ListAlertStates
  <1> QED BY <1>3, <1>4, <1>5, <1>6, <1>7, <1>8

\* Tenants.
LEMMA TenantsRead ==
    ASSUME Paired
    PROVE  M!ListTenants(mem) = P!ListTenants(pg) /\ \A t : M!GetTenant(mem, t) = P!GetTenant(pg, t)
  <1>1. pg.tenants = Keyed(mem.tenants)
    BY DEF Paired, Lockstep, Mirrors
  <1>2. \A r : r \in pg.tenants <=> \E k \in DOMAIN mem.tenants : r = KeyedRow(mem.tenants, k)
    BY <1>1, Tables
  <1>3. {<<r.id, r.row>> : r \in pg.tenants} = {<<k, mem.tenants[k]>> : k \in DOMAIN mem.tenants}
    BY <1>2, KeyedListed
  <1>4. ASSUME NEW t PROVE M!GetTenant(mem, t) = P!GetTenant(pg, t)
    BY TenantFacts, Shared DEF M!GetTenant, P!GetTenant
  <1> QED BY <1>3, <1>4 DEF M!ListTenants, P!ListTenants

-----------------------------------------------------------------------------
(* Rows looked up by their keys. *)

\* A usable enrolment token, asked for by its tenant or by the key alone (withResolveKey).
LEMMA TokensRead ==
    ASSUME Paired, NEW t, NEW k
    PROVE  /\ M!GetEnrollmentToken(mem, t, k, now) = P!GetEnrollmentToken(pg, t, k, now)
           /\ M!TenantForEnrollmentToken(mem, k, now) = P!TenantForEnrollmentToken(pg, k, now)
  <1> DEFINE f == mem.tokens
             usable == {r \in {r \in Owned(f) : r.id = k} : Usable(r.row, now)}
             mine == {r \in {r \in Owned(f) : r.tenant = t} : r.id = k /\ Usable(r.row, now)}
  <1>1. pg.enrollment_tokens = Owned(f)
    BY DEF Paired, Lockstep, Mirrors
  <1>2. \A r : r \in Owned(f) <=> \E x \in DOMAIN f : r = OwnedRow(f, x)
    BY Tables
  <1>3. \A x : OwnedRow(f, x).id = x /\ OwnedRow(f, x).tenant = f[x].tenant /\ OwnedRow(f, x).row = f[x].row
    BY DEF OwnedRow
  <1>4. \A r : r \in usable <=> k \in DOMAIN f /\ Usable(f[k].row, now) /\ r = OwnedRow(f, k)
    BY <1>2, <1>3
  <1>5. \A r : r \in mine <=> k \in DOMAIN f /\ f[k].tenant = t /\ Usable(f[k].row, now) /\ r = OwnedRow(f, k)
    BY <1>2, <1>3
  <1>6. M!GetEnrollmentToken(mem, t, k, now)
        = IF k \in DOMAIN f /\ f[k].tenant = t /\ Usable(f[k].row, now) THEN Found(f[k].row) ELSE Missing("ErrTokenUnusable")
    BY Shared, SharedRows DEF M!GetEnrollmentToken, M!HasToken
  <1>7. P!GetEnrollmentToken(pg, t, k, now)
        = IF mine = {} THEN Missing("ErrTokenUnusable") ELSE Found((CHOOSE r \in mine : r.id = k).row)
    <2>1. \A x : P!Usable(x, now) <=> Usable(x, now)
      BY SharedRows
    <2>2. P!UsableTokens(pg, t, k, now) = mine
      BY <1>1, <2>1 DEF P!UsableTokens, P!InTenant
    <2> HIDE DEF mine
    <2> QED BY <2>2, Shared DEF P!GetEnrollmentToken, P!At
  <1>8. M!TenantForEnrollmentToken(mem, k, now)
        = IF k \in DOMAIN f /\ Usable(f[k].row, now) THEN Found(f[k].tenant) ELSE Missing("ErrTokenUnusable")
    BY Shared, SharedRows DEF M!TenantForEnrollmentToken
  <1>9. P!TenantForEnrollmentToken(pg, k, now)
        = IF usable = {} THEN Missing("ErrTokenUnusable") ELSE Found((CHOOSE r \in usable : r.id = k).tenant)
    <2>1. \A x : P!Usable(x, now) <=> Usable(x, now)
      BY SharedRows
    <2>2. {r \in P!Resolving(pg.enrollment_tokens, k) : P!Usable(r.row, now)} = usable
      BY <1>1, <2>1 DEF P!Resolving
    <2>3. P!TenantForEnrollmentToken(pg, k, now)
          = IF {r \in P!Resolving(pg.enrollment_tokens, k) : P!Usable(r.row, now)} = {} THEN P!Missing("ErrTokenUnusable")
            ELSE P!Found((CHOOSE x \in {r \in P!Resolving(pg.enrollment_tokens, k) : P!Usable(r.row, now)} : x.id = k).tenant)
      BY DEF P!TenantForEnrollmentToken, P!At
    <2> HIDE DEF usable
    <2> QED BY <2>2, <2>3, Shared
  <1> HIDE DEF usable, mine, f
  <1>10. M!GetEnrollmentToken(mem, t, k, now) = P!GetEnrollmentToken(pg, t, k, now)
    <2>1. CASE mine = {}
      BY <1>5, <1>6, <1>7, <2>1
    <2>2. CASE mine # {}
      <3>1. (CHOOSE r \in mine : r.id = k) = OwnedRow(f, k)
        BY <1>3, <1>5, <2>2
      <3> QED BY <1>3, <1>5, <1>6, <1>7, <2>2, <3>1
    <2> QED BY <2>1, <2>2
  <1>11. M!TenantForEnrollmentToken(mem, k, now) = P!TenantForEnrollmentToken(pg, k, now)
    <2>1. CASE usable = {}
      BY <1>4, <1>8, <1>9, <2>1
    <2>2. CASE usable # {}
      <3>1. (CHOOSE r \in usable : r.id = k) = OwnedRow(f, k)
        BY <1>3, <1>4, <2>2
      <3> QED BY <1>3, <1>4, <1>8, <1>9, <2>2, <3>1
    <2> QED BY <2>1, <2>2
  <1> QED BY <1>10, <1>11

\* A certificate, which is looked up before its tenant is known.
LEMMA CertificatesRead ==
    ASSUME Paired, NEW fp
    PROVE  M!LookupCertificate(mem, fp) = P!LookupCertificate(pg, fp)
  <1> DEFINE f == mem.certs
             rows == {r \in Owned(f) : r.id = fp}
  <1>1. pg.certificates = Owned(f) /\ MapsTo(f, Fingerprints, Ours(Certificate))
    BY DEF Paired, Lockstep, Mirrors, Good, CertsGood
  <1>2. \A r : r \in Owned(f) <=> \E x \in DOMAIN f : r = OwnedRow(f, x)
    BY Tables
  <1>3. \A x : OwnedRow(f, x).id = x /\ OwnedRow(f, x).tenant = f[x].tenant /\ OwnedRow(f, x).row = f[x].row
    BY DEF OwnedRow
  <1>4. \A r : r \in rows <=> fp \in DOMAIN f /\ r = OwnedRow(f, fp)
    BY <1>2, <1>3
  <1>5. P!LookupCertificate(pg, fp)
        = IF rows = {} THEN Missing("ErrNotFound")
          ELSE Found([tenant |-> (CHOOSE r \in rows : r.id = fp).tenant, row |-> (CHOOSE r \in rows : r.id = fp).row])
    BY <1>1, Shared DEF P!LookupCertificate, P!Resolving, P!At
  <1>6. M!LookupCertificate(mem, fp) = IF fp \in DOMAIN f THEN Found(f[fp]) ELSE Missing("ErrNotFound")
    BY Shared DEF M!LookupCertificate
  <1>7. fp \in DOMAIN f => f[fp] = [tenant |-> f[fp].tenant, row |-> f[fp].row]
    BY <1>1 DEF MapsTo, Ours, Belonging
  <1> HIDE DEF rows, f
  <1>8. CASE rows = {}
    BY <1>4, <1>5, <1>6, <1>8
  <1>9. CASE rows # {}
    <2>1. (CHOOSE r \in rows : r.id = fp) = OwnedRow(f, fp)
      BY <1>3, <1>4, <1>9
    <2> QED BY <1>3, <1>4, <1>5, <1>6, <1>7, <1>9, <2>1
  <1> QED BY <1>8, <1>9

\* A host, through its own tenant's handle.
LEMMA HostRead ==
    ASSUME Paired, NEW t, NEW h
    PROVE  M!GetHost(mem, t, h) = P!GetHost(pg, t, h)
  <1>1. pg.hosts = Owned(mem.hosts)
    BY DEF Paired, Lockstep, Mirrors
  <1>2. P!HasIn(pg.hosts, t, h) <=> M!HasHost(mem, t, h)
    BY HostFacts
  <1>3. M!HasHost(mem, t, h) => P!AtIn(pg.hosts, t, h) = OwnedRow(mem.hosts, h)
    BY <1>1, OwnedHas DEF M!HasHost
  <1>4. OwnedRow(mem.hosts, h).row = mem.hosts[h].row
    BY DEF OwnedRow
  <1> QED BY <1>2, <1>3, <1>4, Shared DEF M!GetHost, P!GetHost

\* An account, through its own side's handle.
LEMMA AccountRead ==
    ASSUME Paired, NEW t, NEW a
    PROVE  M!GetAccount(mem, t, a) = P!GetAccount(pg, t, a)
  <1>1. \A x : OwnedRow(mem.accounts, x).id = x /\ OwnedRow(mem.accounts, x).row = mem.accounts[x].row
    BY DEF OwnedRow
  <1>2. P!Has(P!AccountsOf(pg, t), a) <=> M!HasAccount(mem, t, a)
    BY AccountFacts
  <1>3. \A r : r \in P!AccountsOf(pg, t) <=> \E x \in M!Beside(mem.accounts, t) : r = OwnedRow(mem.accounts, x)
    BY AccountFacts
  <1>4. M!HasAccount(mem, t, a) => P!At(P!AccountsOf(pg, t), a) = OwnedRow(mem.accounts, a)
    BY <1>1, <1>3 DEF P!At, M!HasAccount, M!Beside
  <1> QED BY <1>1, <1>2, <1>4, Shared DEF M!GetAccount, P!GetAccount

-----------------------------------------------------------------------------
(* Rows looked up by what an index keeps unique, and rows counted. *)

\* What is chosen where there is but one.
LEMMA OnlyOne ==
    ASSUME NEW f, NEW S, \A x, y \in S : x = y, NEW T, \A r : r \in T <=> \E k \in S : r = OwnedRow(f, k)
    PROVE  /\ T = {} <=> S = {}
           /\ S # {} => (CHOOSE r \in T : TRUE) = OwnedRow(f, CHOOSE x \in S : TRUE)
  <1>1. CASE S = {}
    BY <1>1
  <1>2. CASE S # {}
    <2>1. PICK k \in S : k = CHOOSE x \in S : TRUE
      BY <1>2
    <2>2. \A x \in S : x = k
      BY <2>1
    <2>3. \A r : r \in T <=> r = OwnedRow(f, k)
      BY <2>1, <2>2
    <2>4. (CHOOSE r \in T : TRUE) = OwnedRow(f, k)
      BY <2>3
    <2> QED BY <1>2, <2>1, <2>3, <2>4
  <1> QED BY <1>1, <1>2

\* The host in service of a machine: hosts_live_machine_id makes it one.
LEMMA MachineRead ==
    ASSUME Paired, NEW t, NEW machine
    PROVE  M!GetHostByMachineID(mem, t, machine) = P!GetHostByMachineID(pg, t, machine)
  <1> DEFINE f == mem.hosts
             S == {h \in M!ActiveHosts(mem, t) : f[h].row.machineID = machine}
             T == {r \in P!ActiveHosts(pg, t) : r.row.machineID = machine}
  <1>1. pg.hosts = Owned(f) /\ HostsGood(f, DOMAIN mem.tenants)
    BY HostFacts
  <1>2. \A x : OwnedRow(f, x).id = x /\ OwnedRow(f, x).tenant = f[x].tenant /\ OwnedRow(f, x).row = f[x].row
    BY DEF OwnedRow
  <1>3. \A r : r \in P!InTenant(pg.hosts, t) <=> \E k \in M!Beside(f, t) : r = OwnedRow(f, k)
    BY <1>1, OwnedIn
  <1>4. \A r : r \in T <=> \E k \in S : r = OwnedRow(f, k)
    BY <1>2, <1>3 DEF P!ActiveHosts, M!ActiveHosts
  <1>5. \A h \in S : h \in DOMAIN f /\ f[h].tenant = t /\ ~f[h].row.revoked /\ f[h].row.machineID = machine
    BY DEF M!ActiveHosts, M!Beside
  <1>6. M!GetHostByMachineID(mem, t, machine)
        = IF machine = None \/ S = {} THEN Missing("ErrNotFound") ELSE Found(f[CHOOSE h \in S : TRUE].row)
    BY Shared DEF M!GetHostByMachineID
  <1>7. P!GetHostByMachineID(pg, t, machine)
        = IF machine = None \/ T = {} THEN Missing("ErrNotFound") ELSE Found((CHOOSE r \in T : TRUE).row)
    BY Shared DEF P!GetHostByMachineID
  <1> HIDE DEF S, T
  <1>8. CASE machine = None
    BY <1>6, <1>7, <1>8
  <1>9. CASE machine # None
    <2>1. \A x, y \in S : x = y
      BY <1>1, <1>5, <1>9 DEF HostsGood
    <2>2. T = {} <=> S = {}
      BY <1>4, <2>1, OnlyOne
    <2>3. S # {} => (CHOOSE r \in T : TRUE) = OwnedRow(f, CHOOSE x \in S : TRUE)
      BY <1>4, <2>1, OnlyOne
    <2>4. S # {} => (CHOOSE r \in T : TRUE).row = f[CHOOSE x \in S : TRUE].row
      BY <1>2, <2>3
    <2> QED BY <1>6, <1>7, <2>2, <2>4
  <1> QED BY <1>8, <1>9

\* The share of a secret, while it lives.
LEMMA SecretRead ==
    ASSUME Paired, now \in Time, NEW t, NEW k
    PROVE  M!WallboardShareBySecret(mem, t, k, now) = P!WallboardShareBySecret(pg, t, k, now)
  <1> DEFINE f == mem.shares
             S == {x \in M!Beside(f, t) : f[x].row.secret = k /\ ShareLive(f[x].row, now)}
             T == {r \in P!InTenant(pg.wallboard_shares, t) : r.row.secret = k /\ r.row.expiresAt > now}
  <1>1. SharesGood(f, DOMAIN mem.tenants)
    BY ShareFacts
  <1>2. \A x : OwnedRow(f, x).row = f[x].row
    BY DEF OwnedRow
  <1>3. \A r : r \in P!InTenant(pg.wallboard_shares, t) <=> \E x \in M!Beside(f, t) : r = OwnedRow(f, x)
    BY ShareFacts
  <1>4. \A x \in M!Beside(f, t) : f[x].row.expiresAt > now <=> ShareLive(f[x].row, now)
    <2> SUFFICES ASSUME NEW x \in M!Beside(f, t) PROVE f[x].row.expiresAt > now <=> ShareLive(f[x].row, now)
      OBVIOUS
    <2>1. f[x].row \in WallboardShare
      BY <1>1 DEF SharesGood, MapsTo, M!Beside, Ours, Belonging
    <2>2. f[x].row.expiresAt \in Int /\ now \in Int
      BY <2>1, BoundsAssumption DEF WallboardShare, Time
    <2> QED BY <2>2 DEF ShareLive
  <1>5. \A r : r \in T <=> \E x \in S : r = OwnedRow(f, x)
    BY <1>2, <1>3, <1>4
  <1>6. \A x, y \in S : x = y
    BY <1>1 DEF SharesGood, M!Beside
  <1>7. M!WallboardShareBySecret(mem, t, k, now)
        = IF S = {} THEN Missing("ErrNotFound") ELSE Found(f[CHOOSE x \in S : TRUE].row)
    <2> DEFINE R == {x \in M!Beside(f, t) : f[x].row.secret = k /\ M!ShareLive(f[x].row, now)}
    <2>1. R = S
      BY SharedRows
    <2>2. M!WallboardShareBySecret(mem, t, k, now)
          = IF R = {} THEN M!Missing("ErrNotFound") ELSE M!Found(f[CHOOSE x \in R : TRUE].row)
      BY DEF M!WallboardShareBySecret
    <2> HIDE DEF R, S
    <2> QED BY <2>1, <2>2, Shared
  <1>8. P!WallboardShareBySecret(pg, t, k, now)
        = IF T = {} THEN Missing("ErrNotFound") ELSE Found((CHOOSE r \in T : TRUE).row)
    BY Shared DEF P!WallboardShareBySecret
  <1> HIDE DEF S, T
  <1>9. T = {} <=> S = {}
    BY <1>5, <1>6, OnlyOne
  <1>10. S # {} => (CHOOSE r \in T : TRUE) = OwnedRow(f, CHOOSE x \in S : TRUE)
    BY <1>5, <1>6, OnlyOne
  <1>11. CASE S = {}
    BY <1>7, <1>8, <1>9, <1>11
  <1>12. CASE S # {}
    <2>1. (CHOOSE r \in T : TRUE).row = f[CHOOSE x \in S : TRUE].row
      BY <1>2, <1>10, <1>12
    <2> QED BY <1>7, <1>8, <1>9, <1>12, <2>1
  <1> QED BY <1>11, <1>12

\* The account of an address, whosesoever side it is on.
LEMMA EmailRead ==
    ASSUME Paired, NEW email
    PROVE  M!AccountByEmail(mem, email) = P!AccountByEmail(pg, email)
  <1> DEFINE f == mem.accounts
             S == {a \in DOMAIN f : f[a].row.email = email}
             T == {r \in pg.accounts : r.row.email = email}
  <1>1. pg.accounts = Owned(f) /\ AccountsGood(f, DOMAIN mem.tenants)
    BY AccountFacts
  <1>2. \A x : OwnedRow(f, x).id = x /\ OwnedRow(f, x).tenant = f[x].tenant /\ OwnedRow(f, x).row = f[x].row
    BY DEF OwnedRow
  <1>3. \A r : r \in pg.accounts <=> \E x \in DOMAIN f : r = OwnedRow(f, x)
    BY <1>1, Tables
  <1>4. \A r : r \in T <=> \E x \in S : r = OwnedRow(f, x)
    BY <1>2, <1>3
  <1>5. \A x, y \in S : x = y
    BY <1>1 DEF AccountsGood
  <1>6. \A x \in S : f[x] = [tenant |-> f[x].tenant, row |-> f[x].row]
    BY <1>1 DEF AccountsGood, MapsTo, Belonging
  <1>7. M!AccountByEmail(mem, email)
        = IF S = {} THEN Missing("ErrNotFound") ELSE Found(<<CHOOSE x \in S : TRUE, f[CHOOSE x \in S : TRUE]>>)
    BY Shared DEF M!AccountByEmail
  <1>8. P!AccountByEmail(pg, email)
        = IF T = {} THEN Missing("ErrNotFound")
          ELSE Found(<<(CHOOSE r \in T : TRUE).id, [tenant |-> (CHOOSE r \in T : TRUE).tenant, row |-> (CHOOSE r \in T : TRUE).row]>>)
    BY Shared DEF P!AccountByEmail
  <1> HIDE DEF S, T
  <1>9. T = {} <=> S = {}
    BY <1>4, <1>5, OnlyOne
  <1>10. S # {} => (CHOOSE r \in T : TRUE) = OwnedRow(f, CHOOSE x \in S : TRUE)
    BY <1>4, <1>5, OnlyOne
  <1>11. CASE S = {}
    BY <1>7, <1>8, <1>9, <1>11
  <1>12. CASE S # {}
    <2>1. PICK a \in S : a = CHOOSE x \in S : TRUE
      BY <1>12
    <2>2. (CHOOSE r \in T : TRUE).id = a /\ (CHOOSE r \in T : TRUE).tenant = f[a].tenant /\ (CHOOSE r \in T : TRUE).row = f[a].row
      BY <1>2, <1>10, <1>12, <2>1
    <2>3. [tenant |-> (CHOOSE r \in T : TRUE).tenant, row |-> (CHOOSE r \in T : TRUE).row] = f[a]
      BY <1>6, <2>2
    <2>4. P!AccountByEmail(pg, email) = Found(<<a, f[a]>>)
      BY <1>8, <1>9, <1>12, <2>2, <2>3
    <2>5. M!AccountByEmail(mem, email) = Found(<<a, f[a]>>)
      BY <1>7, <1>12, <2>1
    <2> QED BY <2>4, <2>5
  <1> QED BY <1>11, <1>12

\* How many hosts, and how many of them in service.
LEMMA HostsCounted ==
    ASSUME Paired, NEW t
    PROVE  M!CountHosts(mem, t) = P!CountHosts(pg, t)
  <1> DEFINE f == mem.hosts
             S == M!Beside(f, t)
             T == P!InTenant(pg.hosts, t)
             A == M!ActiveHosts(mem, t)
             B == P!ActiveHosts(pg, t)
  <1>1. pg.hosts = Owned(f) /\ IsFiniteSet(DOMAIN f)
    BY HostFacts DEF HostsGood
  <1>2. \A x : OwnedRow(f, x).row = f[x].row
    BY DEF OwnedRow
  <1>3. \A r : r \in T <=> \E k \in S : r = OwnedRow(f, k)
    BY <1>1, OwnedIn
  <1>4. \A r : r \in B <=> \E k \in A : r = OwnedRow(f, k)
    BY <1>2, <1>3 DEF P!ActiveHosts, M!ActiveHosts
  <1>5. S \in SUBSET DOMAIN f /\ A \in SUBSET DOMAIN f
    BY DEF M!Beside, M!ActiveHosts
  <1>6. M!CountHosts(mem, t) = HostCounts(Cardinality(S), Cardinality(A))
    BY Counting, SharedRows DEF M!CountHosts
  <1>7. P!CountHosts(pg, t) = HostCounts(Cardinality(T), Cardinality(B))
    BY Counting, SharedRows DEF P!CountHosts
  <1> HIDE DEF S, T, A, B
  <1>8. IsFiniteSet(S) /\ IsFiniteSet(A)
    BY <1>1, <1>5, FS_Subset
  <1>9. Cardinality(T) = Cardinality(S)
    BY <1>3, <1>5, <1>8, OwnedSize
  <1>10. Cardinality(B) = Cardinality(A)
    BY <1>4, <1>5, <1>8, OwnedSize
  <1> QED BY <1>6, <1>7, <1>9, <1>10

-----------------------------------------------------------------------------
(* Histories, jobs, templates and credentials. *)

\* The inbox.
LEMMA EventsRead ==
    ASSUME Paired, NEW t
    PROVE  M!ListEvents(mem, t) = P!ListEvents(pg, t)
  <1> DEFINE f == mem.events
  <1>1. pg.events = {EventRow(f[i]) : i \in DOMAIN f}
    BY DEF Paired, Lockstep, Mirrors
  <1>2. \A e : EventRow(e).id = e.id /\ EventRow(e).tenant = e.tenant /\ EventRow(e).row.at = e.at
    BY DEF EventRow
  <1>3. \A r : r \in P!InTenant(pg.events, t) <=> \E i \in M!Beside(f, t) : r = EventRow(f[i])
    BY <1>1, <1>2 DEF P!InTenant, M!Beside
  <1>4. ASSUME NEW w
        PROVE (\E r \in P!InTenant(pg.events, t) : w = [id |-> r.id, at |-> r.row.at])
              <=> \E i \in M!Beside(f, t) : w = [id |-> f[i].id, at |-> f[i].at]
    BY <1>2, <1>3
  <1> QED BY <1>4 DEF M!ListEvents, P!ListEvents

\* The unit history of a host that is there.
LEMMA TransitionsRead ==
    ASSUME Paired, NEW t, NEW h, M!HasHost(mem, t, h)
    PROVE  M!ListUnitTransitions(mem, t, h) = P!ListUnitTransitions(pg, t, h)
  <1> DEFINE f == mem.transitions
             S == {j \in M!Beside(f, t) : f[j].host = h}
             T == {x \in P!InTenant(pg.unit_transitions, t) : x.row.host = h}
  <1>1. pg.unit_transitions = HistoryTable(f, Homes(mem.hosts))
    BY DEF Paired, Lockstep, Mirrors
  <1>2. <<t, h>> \in Homes(mem.hosts)
    BY HostFacts
  <1>3. \A x : /\ TransitionRow(x).tenant = x.tenant /\ TransitionRow(x).row.host = x.host
               /\ TransitionRow(x).row.unit = x.unit /\ TransitionRow(x).row.at = x.at
    BY DEF TransitionRow
  <1>4. ASSUME NEW r PROVE r \in T <=> \E i \in S : r = TransitionRow(f[i])
    <2> DEFINE shown == Visible(f, Homes(mem.hosts))
    <2>1. r \in T <=> (\E i \in shown : r = TransitionRow(f[i])) /\ r.tenant = t /\ r.row.host = h
      BY <1>1 DEF P!InTenant, HistoryTable
    <2>2. \A i : i \in S <=> i \in DOMAIN f /\ f[i].tenant = t /\ f[i].host = h
      BY DEF M!Beside
    <2>3. \A i : i \in S => i \in shown
      <3> SUFFICES ASSUME NEW i \in S PROVE i \in shown
        OBVIOUS
      <3>1. i \in DOMAIN f /\ <<f[i].tenant, f[i].host>> = <<t, h>>
        BY <2>2
      <3> QED BY <1>2, <3>1 DEF Visible
    <2>4. \A i \in shown : i \in DOMAIN f
      BY DEF Visible
    <2> HIDE DEF shown, S, T
    <2>5. (\E i \in shown : r = TransitionRow(f[i])) /\ r.tenant = t /\ r.row.host = h
          <=> \E i \in S : r = TransitionRow(f[i])
      BY <1>3, <2>2, <2>3, <2>4
    <2> QED BY <2>1, <2>5
  <1> HIDE DEF S, T
  <1>5. ASSUME NEW w
        PROVE (\E r \in T : w = [unit |-> r.row.unit, at |-> r.row.at])
              <=> \E i \in S : w = [unit |-> f[i].unit, at |-> f[i].at]
    BY <1>3, <1>4
  <1>6. {[unit |-> r.row.unit, at |-> r.row.at] : r \in T} = {[unit |-> f[i].unit, at |-> f[i].at] : i \in S}
    BY <1>5
  <1> QED BY <1>6 DEF M!ListUnitTransitions, P!ListUnitTransitions, S, T

\* A job and the result it was answered with.
LEMMA ResultRead ==
    ASSUME Paired, NEW t, NEW id, <<t, id>> \in DOMAIN mem.records, NEW r, r = InsideRow(mem.records, <<t, id>>)
    PROVE  P!Joined(pg, r) = M!ResultOf(mem, <<t, id>>)
  <1>1. r.tenant = t /\ r.id = id
    BY DEF InsideRow
  <1>2. P!HasIn(pg.job_results, t, id) <=> <<t, id>> \in DOMAIN mem.results
    BY JobFacts
  <1>3. pg.job_results = Inside(mem.results)
    BY JobFacts
  <1>4. DOMAIN mem.results \subseteq Tenants \X JobIDs
    BY DEF Paired, Lockstep, Good, JobsGood, MapsTo
  <1>5. <<t, id>> \in DOMAIN mem.results => P!AtIn(Inside(mem.results), t, id) = InsideRow(mem.results, <<t, id>>)
    BY <1>4, InsideHas
  <1>6. InsideRow(mem.results, <<t, id>>).row = mem.results[<<t, id>>]
    BY DEF InsideRow
  <1> QED BY <1>1, <1>2, <1>3, <1>5, <1>6 DEF P!Joined, M!ResultOf

\* One job, with the result it was answered with.
LEMMA JobRead ==
    ASSUME Paired, NEW t, NEW id
    PROVE  M!GetJob(mem, t, id) = P!GetJob(pg, t, id)
  <1> DEFINE f == mem.records
             k == <<t, id>>
  <1>1. pg.jobs = Inside(f)
    BY JobFacts
  <1>2. P!HasIn(pg.jobs, t, id) <=> k \in DOMAIN f
    BY JobFacts
  <1>3. DOMAIN f \subseteq Tenants \X JobIDs
    BY DEF Paired, Lockstep, Good, JobsGood, MapsTo
  <1>4. CASE k \in DOMAIN f
    <2> DEFINE r == InsideRow(f, k)
    <2>1. P!AtIn(Inside(f), t, id) = r
      BY <1>3, <1>4, InsideHas
    <2>2. P!AtIn(pg.jobs, t, id) = r
      BY <1>1, <2>1
    <2>3. P!Joined(pg, r) = M!ResultOf(mem, k)
      BY <1>4, ResultRead
    <2>4. r.row = f[k]
      BY DEF InsideRow
    <2> HIDE DEF r
    <2>5. P!GetJob(pg, t, id) = Found(<<f[k], M!ResultOf(mem, k)>>)
      BY <1>2, <1>4, <2>2, <2>3, <2>4, Shared DEF P!GetJob
    <2> QED BY <1>4, <2>5, Shared DEF M!GetJob
  <1>5. CASE k \notin DOMAIN f
    BY <1>2, <1>5, Shared DEF M!GetJob, P!GetJob
  <1> QED BY <1>4, <1>5

\* The jobs of a fleet, of a host, or those awaiting approval.
LEMMA JobsRead ==
    ASSUME Paired, NEW t, NEW h, NEW awaiting \in BOOLEAN
    PROVE  M!ListJobs(mem, t, h, awaiting) = P!ListJobs(pg, t, h, awaiting)
  <1> DEFINE f == mem.records
             S == {x \in M!InKey(f, t) : /\ h = None \/ f[x].host = h
                                         /\ awaiting => AwaitingApproval(f[x])}
             T == {x \in P!InTenant(pg.jobs, t) : /\ h = None \/ x.row.host = h
                                                  /\ awaiting => AwaitingApproval(x.row)}
  <1>1. \A r : r \in P!InTenant(pg.jobs, t) <=> \E k \in M!InKey(f, t) : r = InsideRow(f, k)
    BY JobRows
  <1>2. \A k : InsideRow(f, k).id = k[2] /\ InsideRow(f, k).row = f[k]
    BY DEF InsideRow
  <1>3. \A r : r \in T <=> \E k \in S : r = InsideRow(f, k)
    BY <1>1, <1>2
  <1>4. ASSUME NEW k \in S PROVE P!Joined(pg, InsideRow(f, k)) = M!ResultOf(mem, k)
    <2>1. k \in M!InKey(f, t)
      OBVIOUS
    <2>2. k = <<t, k[2]>> /\ k \in DOMAIN f
      BY <2>1, JobRows
    <2>3. PICK id : id = k[2]
      OBVIOUS
    <2>4. <<t, id>> \in DOMAIN f /\ InsideRow(f, k) = InsideRow(f, <<t, id>>)
      BY <2>2, <2>3
    <2>5. P!Joined(pg, InsideRow(f, k)) = M!ResultOf(mem, <<t, id>>)
      BY <2>4, ResultRead
    <2> QED BY <2>2, <2>3, <2>5
  <1>5. M!ListJobs(mem, t, h, awaiting) = {<<k[2], f[k], M!ResultOf(mem, k)>> : k \in S}
    <2>1. {x \in M!InKey(f, t) : (h = M!None \/ f[x].host = h) /\ (awaiting => M!AwaitingApproval(f[x]))} = S
      BY Shared, SharedRows
    <2> HIDE DEF S
    <2> QED BY <2>1 DEF M!ListJobs
  <1>6. P!ListJobs(pg, t, h, awaiting) = {<<r.id, r.row, P!Joined(pg, r)>> : r \in T}
    <2>1. {x \in P!InTenant(pg.jobs, t) : (h = P!None \/ x.row.host = h)
                 /\ (awaiting => (x.row.approvalRequired /\ x.row.approvedBy = P!None))} = T
      BY Shared DEF AwaitingApproval
    <2> HIDE DEF T
    <2> QED BY <2>1 DEF P!ListJobs
  <1> HIDE DEF S, T
  <1>7. ASSUME NEW w
        PROVE (\E r \in T : w = <<r.id, r.row, P!Joined(pg, r)>>)
              <=> \E k \in S : w = <<k[2], f[k], M!ResultOf(mem, k)>>
    BY <1>2, <1>3, <1>4
  <1>8. {<<r.id, r.row, P!Joined(pg, r)>> : r \in T} = {<<k[2], f[k], M!ResultOf(mem, k)>> : k \in S}
    BY <1>7
  <1> QED BY <1>5, <1>6, <1>8

\* Who withdrew a template.
LEMMA ArchivalRead ==
    ASSUME Paired, NEW t, NEW name
    PROVE  M!GetTemplateArchival(mem, t, name) = P!GetTemplateArchival(pg, t, name)
  <1> DEFINE f == mem.archivedTemplates
             k == <<t, name>>
  <1>1. pg.template_archivals = Inside(f)
    BY TemplateFacts
  <1>2. P!Archived(pg, t, name) <=> k \in DOMAIN f
    BY TemplateFacts DEF M!Archived
  <1>3. DOMAIN f \subseteq Tenants \X Names
    BY DEF Paired, Lockstep, Good, TemplatesGood, MapsTo
  <1>4. CASE k \in DOMAIN f
    <2>1. P!AtIn(Inside(f), t, name) = InsideRow(f, k)
      BY <1>3, <1>4, InsideHas
    <2>2. P!AtIn(pg.template_archivals, t, name).row = f[k]
      BY <1>1, <2>1 DEF InsideRow
    <2> QED BY <1>2, <1>4, <2>2, Shared DEF M!GetTemplateArchival, P!GetTemplateArchival, M!Archived
  <1>5. CASE k \notin DOMAIN f
    BY <1>2, <1>5, Shared DEF M!GetTemplateArchival, P!GetTemplateArchival, M!Archived
  <1> QED BY <1>4, <1>5

\* The versions of a name, one of them, and the latest.
LEMMA VersionRead ==
    ASSUME Paired, NEW t \in Tenants, NEW name \in Names, NEW version
    PROVE  /\ M!ListTemplateVersions(mem, t, name) = P!ListTemplateVersions(pg, t, name)
           /\ M!GetTemplateVersion(mem, t, name, version) = P!GetTemplateVersion(pg, t, name, version)
  <1> DEFINE f == mem.templates
             V == M!Versions(mem, t, name)
             v == IF version > 0 \/ V = {} THEN version ELSE M!Latest(V)
  <1>1. P!Versions(pg, t, name) = V
    BY VersionsAgree
  <1>2. \A x : x \in V <=> <<t, name, x>> \in DOMAIN f
    BY VersionsAgree
  <1>3. V # {} => P!Latest(V) = M!Latest(V)
    BY VersionsAreCounted
  <1>4. pg.templates = InsideTwice(f)
    BY TemplateFacts
  <1>5. DOMAIN f \subseteq Tenants \X Names \X (1 .. MaxVersions)
    BY DEF Paired, Lockstep, Good, TemplatesGood, MapsTo
  <1>6. ASSUME NEW x \in V PROVE P!AtIn(pg.templates, t, <<name, x>>).row = f[<<t, name, x>>]
    <2>1. <<t, name, x>> \in DOMAIN f
      BY <1>2
    <2>2. P!AtIn(InsideTwice(f), t, <<name, x>>) = TwiceRow(f, <<t, name, x>>)
      BY <1>5, <2>1, TwiceHas
    <2>3. TwiceRow(f, <<t, name, x>>).row = f[<<t, name, x>>]
      BY DEF TwiceRow
    <2> QED BY <1>4, <2>2, <2>3
  <1>7. M!ListTemplateVersions(mem, t, name) = P!ListTemplateVersions(pg, t, name)
    BY <1>1, Shared DEF M!ListTemplateVersions, P!ListTemplateVersions
  <1>8. M!GetTemplateVersion(mem, t, name, version)
        = IF v \in V THEN Found(f[<<t, name, v>>]) ELSE Missing("ErrNotFound")
    BY Shared DEF M!GetTemplateVersion
  <1>9. P!GetTemplateVersion(pg, t, name, version)
        = IF v \in V THEN Found(P!AtIn(pg.templates, t, <<name, v>>).row) ELSE Missing("ErrNotFound")
    <2>1. (IF version > 0 \/ V = {} THEN version ELSE P!Latest(V)) = v
      BY <1>3
    <2>2. P!GetTemplateVersion(pg, t, name, version)
          = IF (IF version > 0 \/ V = {} THEN version ELSE P!Latest(V)) \in V
            THEN P!Found(P!AtIn(pg.templates, t, <<name, IF version > 0 \/ V = {} THEN version ELSE P!Latest(V)>>).row)
            ELSE P!Missing("ErrNotFound")
      BY <1>1 DEF P!GetTemplateVersion
    <2> HIDE DEF v, V
    <2> QED BY <2>1, <2>2, Shared
  <1> HIDE DEF v, V
  <1>10. M!GetTemplateVersion(mem, t, name, version) = P!GetTemplateVersion(pg, t, name, version)
    BY <1>6, <1>8, <1>9
  <1> QED BY <1>7, <1>10

\* The templates, withdrawn ones with them or not.
LEMMA TemplatesRead ==
    ASSUME Paired, NEW t \in Tenants, NEW all \in BOOLEAN
    PROVE  M!ListTemplates(mem, t, all) = P!ListTemplates(pg, t, all)
  <1>1. ASSUME NEW name \in Names, M!Versions(mem, t, name) # {}
        PROVE  M!TemplateSummary(name, M!Latest(M!Versions(mem, t, name)), M!Archived(mem, t, name))
               = P!TemplateSummary(name, P!Latest(P!Versions(pg, t, name)), P!Archived(pg, t, name))
    <2>1. P!Versions(pg, t, name) = M!Versions(mem, t, name)
      BY VersionsAgree
    <2>2. P!Latest(M!Versions(mem, t, name)) = M!Latest(M!Versions(mem, t, name))
      BY <1>1, VersionsAreCounted
    <2>3. P!Archived(pg, t, name) = M!Archived(mem, t, name)
      <3>1. P!Archived(pg, t, name) <=> M!Archived(mem, t, name)
        BY TemplateFacts
      <3>2. P!Archived(pg, t, name) \in BOOLEAN
        BY DEF P!Archived, P!HasIn
      <3>3. M!Archived(mem, t, name) \in BOOLEAN
        BY DEF M!Archived
      <3> QED BY <3>1, <3>2, <3>3
    <2> QED BY <2>1, <2>2, <2>3, SharedRows
  <1>2. \A name \in Names : /\ M!Versions(mem, t, name) # {} <=> P!Versions(pg, t, name) # {}
                            /\ M!Archived(mem, t, name) <=> P!Archived(pg, t, name)
    BY VersionsAgree, TemplateFacts
  <1> DEFINE S == {n \in Names : M!Versions(mem, t, n) # {} /\ (all \/ ~M!Archived(mem, t, n))}
             T == {n \in Names : P!Versions(pg, t, n) # {} /\ (all \/ ~P!Archived(pg, t, n))}
  <1>3. S = T
    BY <1>2
  <1>4. \A n \in S : n \in Names /\ M!Versions(mem, t, n) # {}
    OBVIOUS
  <1>5. M!ListTemplates(mem, t, all)
        = {M!TemplateSummary(n, M!Latest(M!Versions(mem, t, n)), M!Archived(mem, t, n)) : n \in S}
    BY DEF M!ListTemplates
  <1>6. P!ListTemplates(pg, t, all)
        = {P!TemplateSummary(n, P!Latest(P!Versions(pg, t, n)), P!Archived(pg, t, n)) : n \in T}
    BY DEF P!ListTemplates
  <1> HIDE DEF S, T
  <1> QED BY <1>1, <1>3, <1>4, <1>5, <1>6

\* The credentials of one account.
LEMMA CredentialsListed ==
    ASSUME Paired, NEW t, NEW a, M!HasAccount(mem, t, a), NEW f
    PROVE  {<<r.id, r.row>> : r \in {x \in P!Credentials(pg, t, Keyed(f)) : x.row.account = a}}
           = {<<k, f[k]>> : k \in {x \in DOMAIN f : f[x].account = a}}
  <1> DEFINE S == {x \in DOMAIN f : f[x].account = a}
             T == {x \in P!Credentials(pg, t, Keyed(f)) : x.row.account = a}
  <1>1. \A k : KeyedRow(f, k).row = f[k]
    BY DEF KeyedRow
  <1>2. \A r : r \in P!Credentials(pg, t, Keyed(f)) <=> \E k \in HeldBy(f, mem.accounts, t) : r = KeyedRow(f, k)
    BY CredentialsShown
  <1>3. a \in M!Beside(mem.accounts, t)
    BY DEF M!HasAccount, M!Beside
  <1>4. \A r : r \in T <=> \E k \in S : r = KeyedRow(f, k)
    BY <1>1, <1>2, <1>3 DEF HeldBy
  <1> HIDE DEF S, T
  <1>5. {<<r.id, r.row>> : r \in T} = {<<k, f[k]>> : k \in S}
    BY <1>4, KeyedListed
  <1> QED BY <1>5 DEF S, T

\* What an account holds, as its owner is shown it.
LEMMA CredentialsRead ==
    ASSUME Paired, NEW t, NEW a
    PROVE  /\ M!ListSessions(mem, t, a) = P!ListSessions(pg, t, a)
           /\ M!ListAPITokens(mem, t, a) = P!ListAPITokens(pg, t, a)
  <1>1. pg.sessions = Keyed(mem.sessions) /\ pg.api_tokens = Keyed(mem.apiTokens)
    BY CredentialFacts
  <1>2. P!Has(P!AccountsOf(pg, t), a) <=> M!HasAccount(mem, t, a)
    BY CredentialFacts
  <1>3. CASE M!HasAccount(mem, t, a)
    <2> DEFINE listed(f) == {<<r.id, r.row>> : r \in {x \in P!Credentials(pg, t, Keyed(f)) : x.row.account = a}}
               kept(f) == {<<k, f[k]>> : k \in {x \in DOMAIN f : f[x].account = a}}
    <2>1. \A f : listed(f) = kept(f)
      BY <1>3, CredentialsListed
    <2>2. M!ListSessions(mem, t, a) = M!Found(kept(mem.sessions)) /\ M!ListAPITokens(mem, t, a) = M!Found(kept(mem.apiTokens))
      BY <1>3 DEF M!ListSessions, M!ListAPITokens
    <2>3. P!ListSessions(pg, t, a) = P!Found(listed(mem.sessions)) /\ P!ListAPITokens(pg, t, a) = P!Found(listed(mem.apiTokens))
      BY <1>1, <1>2, <1>3 DEF P!ListSessions, P!ListAPITokens
    <2> HIDE DEF listed, kept
    <2>4. P!Found(listed(mem.sessions)) = M!Found(kept(mem.sessions)) /\ P!Found(listed(mem.apiTokens)) = M!Found(kept(mem.apiTokens))
      BY <2>1, Shared
    <2>5. M!ListSessions(mem, t, a) = P!ListSessions(pg, t, a) /\ M!ListAPITokens(mem, t, a) = P!ListAPITokens(pg, t, a)
      BY <2>2, <2>3, <2>4
    <2> QED BY <2>5
  <1>4. CASE ~M!HasAccount(mem, t, a)
    BY <1>2, <1>4, Shared DEF M!ListSessions, P!ListSessions, M!ListAPITokens, P!ListAPITokens
  <1> QED BY <1>3, <1>4

\* The account behind a session or an API token (resolveAccount), which is looked up before its side is known.
LEMMA Resolved ==
    ASSUME Paired, NEW f, NEW k
    PROVE  M!Resolve(mem, f, k) = P!ResolveAccount(pg, Keyed(f), k)
  <1> DEFINE A == mem.accounts
             rows == P!Resolving(Keyed(f), k)
  <1>1. pg.accounts = Owned(A) /\ AccountsGood(A, DOMAIN mem.tenants)
    BY AccountFacts
  <1>2. \A x : KeyedRow(f, x).id = x /\ KeyedRow(f, x).row = f[x]
    BY DEF KeyedRow
  <1>3. \A r : r \in Keyed(f) <=> \E x \in DOMAIN f : r = KeyedRow(f, x)
    BY Tables
  <1>4. \A r : r \in rows <=> k \in DOMAIN f /\ r = KeyedRow(f, k)
    BY <1>2, <1>3 DEF P!Resolving
  <1>5. CASE k \notin DOMAIN f
    <2>1. rows = {}
      BY <1>4, <1>5
    <2> QED BY <1>5, <2>1, Shared DEF M!Resolve, P!ResolveAccount
  <1>6. CASE k \in DOMAIN f
    <2> DEFINE a == f[k].account
    <2>1. rows # {} /\ P!At(rows, k) = KeyedRow(f, k)
      BY <1>2, <1>4, <1>6 DEF P!At
    <2>2. P!At(rows, k).row = f[k]
      BY <1>2, <2>1
    <2>3. P!Resolving(pg.accounts, a) # {} <=> a \in DOMAIN A
      <3>1. \A x : OwnedRow(A, x).id = x
        BY DEF OwnedRow
      <3>2. \A r : r \in pg.accounts <=> \E x \in DOMAIN A : r = OwnedRow(A, x)
        BY <1>1, Tables
      <3> QED BY <3>1, <3>2 DEF P!Resolving
    <2>4. P!ResolveAccount(pg, Keyed(f), k)
          = IF a \notin DOMAIN A THEN Missing("ErrNotFound")
            ELSE Found(<<f[k], [tenant |-> P!At(pg.accounts, a).tenant, row |-> P!At(pg.accounts, a).row]>>)
      <3>1. P!ResolveAccount(pg, Keyed(f), k)
            = IF P!Resolving(pg.accounts, P!At(rows, k).row.account) = {} THEN P!Missing("ErrNotFound")
              ELSE P!Found(<<P!At(rows, k).row, [tenant |-> P!At(pg.accounts, P!At(rows, k).row.account).tenant,
                                                 row |-> P!At(pg.accounts, P!At(rows, k).row.account).row]>>)
        BY <2>1 DEF P!ResolveAccount
      <3> HIDE DEF rows
      <3> QED BY <2>2, <2>3, <3>1, Shared
    <2>5. M!Resolve(mem, f, k) = IF a \notin DOMAIN A THEN Missing("ErrNotFound") ELSE Found(<<f[k], A[a]>>)
      BY <1>6, Shared DEF M!Resolve
    <2>6. ASSUME a \in DOMAIN A PROVE [tenant |-> P!At(pg.accounts, a).tenant, row |-> P!At(pg.accounts, a).row] = A[a]
      <3>1. P!At(Owned(A), a) = OwnedRow(A, a)
        BY <2>6, OwnedHas
      <3>2. P!At(pg.accounts, a).tenant = A[a].tenant /\ P!At(pg.accounts, a).row = A[a].row
        BY <1>1, <3>1 DEF OwnedRow
      <3>3. A[a] = [tenant |-> A[a].tenant, row |-> A[a].row]
        BY <1>1, <2>6 DEF AccountsGood, MapsTo, Belonging
      <3> QED BY <3>2, <3>3
    <2> QED BY <2>4, <2>5, <2>6
  <1> QED BY <1>5, <1>6

\* Every read.
LEMMA AllRead == LockInv => ReadsAgree
  <1> SUFFICES ASSUME LockInv PROVE ReadsAgree
    OBVIOUS
  <1>1. Paired /\ now \in Time
    BY DEF LockInv, Time
  <1>2. M!ListTenants(mem) = P!ListTenants(pg)
    BY <1>1, TenantsRead
  <1>3. ASSUME NEW t \in Tenants
        PROVE  /\ M!GetTenant(mem, t) = P!GetTenant(pg, t)
               /\ M!ListEnrollmentTokens(mem, t) = P!ListEnrollmentTokens(pg, t)
               /\ M!ListHosts(mem, t) = P!ListHosts(pg, t)
               /\ M!CountHosts(mem, t) = P!CountHosts(pg, t)
               /\ M!ListEvents(mem, t) = P!ListEvents(pg, t)
               /\ M!ListAlertRules(mem, t) = P!ListAlertRules(pg, t)
               /\ M!ListAlertStates(mem, t) = P!ListAlertStates(pg, t)
               /\ M!ListWallboardShares(mem, t) = P!ListWallboardShares(pg, t)
    BY <1>1, TenantsRead, ListsRead, HostsCounted, EventsRead
  <1>4. ASSUME NEW t \in Tenants, NEW k \in Keys
        PROVE  /\ M!GetEnrollmentToken(mem, t, k, now) = P!GetEnrollmentToken(pg, t, k, now)
               /\ M!WallboardShareBySecret(mem, t, k, now) = P!WallboardShareBySecret(pg, t, k, now)
    BY <1>1, TokensRead, SecretRead
  <1>5. ASSUME NEW t \in Tenants, NEW h \in HostIDs
        PROVE  /\ M!GetHost(mem, t, h) = P!GetHost(pg, t, h)
               /\ M!CountLiveCertificates(mem, t, h, now) = P!CountLiveCertificates(pg, t, h, now)
               /\ \A awaiting \in BOOLEAN : M!ListJobs(mem, t, h, awaiting) = P!ListJobs(pg, t, h, awaiting)
               /\ M!HasHost(mem, t, h) => M!ListUnitTransitions(mem, t, h) = P!ListUnitTransitions(pg, t, h)
    BY <1>1, HostRead, CountsAlike, JobsRead, TransitionsRead
  <1>6. ASSUME NEW t \in Tenants, NEW machine \in Machines \cup {None}
        PROVE  M!GetHostByMachineID(mem, t, machine) = P!GetHostByMachineID(pg, t, machine)
    BY <1>1, MachineRead
  <1>7. ASSUME NEW t \in Tenants, NEW id \in JobIDs PROVE M!GetJob(mem, t, id) = P!GetJob(pg, t, id)
    BY <1>1, JobRead
  <1>8. ASSUME NEW t \in Tenants, NEW name \in Names
        PROVE  /\ M!ListTemplateVersions(mem, t, name) = P!ListTemplateVersions(pg, t, name)
               /\ M!GetTemplateArchival(mem, t, name) = P!GetTemplateArchival(pg, t, name)
               /\ \A v \in 0 .. MaxVersions : M!GetTemplateVersion(mem, t, name, v) = P!GetTemplateVersion(pg, t, name, v)
    BY <1>1, VersionRead, ArchivalRead
  <1>9. ASSUME NEW t \in Tenants, NEW all \in BOOLEAN PROVE M!ListTemplates(mem, t, all) = P!ListTemplates(pg, t, all)
    BY <1>1, TemplatesRead
  <1>10. ASSUME NEW t \in Sides PROVE M!ListAccounts(mem, t) = P!ListAccounts(pg, t)
    BY <1>1, ListsRead
  <1>11. ASSUME NEW t \in Sides, NEW a \in AccountIDs
         PROVE  /\ M!GetAccount(mem, t, a) = P!GetAccount(pg, t, a)
                /\ M!ListSessions(mem, t, a) = P!ListSessions(pg, t, a)
                /\ M!ListAPITokens(mem, t, a) = P!ListAPITokens(pg, t, a)
    BY <1>1, AccountRead, CredentialsRead
  <1>12. ASSUME NEW k \in Keys
         PROVE  /\ M!TenantForEnrollmentToken(mem, k, now) = P!TenantForEnrollmentToken(pg, k, now)
                /\ M!SessionByToken(mem, k) = P!SessionByToken(pg, k)
                /\ M!APITokenByHash(mem, k) = P!APITokenByHash(pg, k)
    <2>1. pg.sessions = Keyed(mem.sessions) /\ pg.api_tokens = Keyed(mem.apiTokens)
      BY <1>1, CredentialFacts
    <2>2. /\ M!Resolve(mem, mem.sessions, k) = P!ResolveAccount(pg, pg.sessions, k)
          /\ M!Resolve(mem, mem.apiTokens, k) = P!ResolveAccount(pg, pg.api_tokens, k)
      BY <1>1, <2>1, Resolved
    <2>3. M!TenantForEnrollmentToken(mem, k, now) = P!TenantForEnrollmentToken(pg, k, now)
      BY <1>1, TokensRead
    <2> QED BY <2>2, <2>3 DEF M!SessionByToken, P!SessionByToken, M!APITokenByHash, P!APITokenByHash
  <1>13. ASSUME NEW fp \in Fingerprints PROVE M!LookupCertificate(mem, fp) = P!LookupCertificate(pg, fp)
    BY <1>1, CertificatesRead
  <1>14. ASSUME NEW email \in Emails PROVE M!AccountByEmail(mem, email) = P!AccountByEmail(pg, email)
    BY <1>1, EmailRead
  <1> QED BY ONLY <1>2, <1>3, <1>4, <1>5, <1>6, <1>7, <1>8, <1>9, <1>10, <1>11, <1>12, <1>13, <1>14 DEF ReadsAgree

\* Every read of either store gives what the same read of the other does.
THEOREM ReadsAlwaysAgree == Spec /\ OneUnitPerReport => []ReadsAgree
  BY LockInvHolds, AllRead, PTL
=============================================================================
