-------------------------- MODULE StoreCalls_proofs --------------------------
(***************************************************************************)
(* The calls of the Store interface, made of the memory store and of the   *)
(* database in lock-step.  Each keeps the relation of the two (Mirrors:    *)
(* the database is the tables of the maps; Good: what the maps keep among  *)
(* themselves), is answered alike by both, and leaves alone the rows of    *)
(* every side but the caller's: XAlike says so of the call X.  Here the    *)
(* calls that write rows; the histories, whose rows a bound evicts, and    *)
(* the deletions, which take with them what was owned, come next, in       *)
(* StoreParity_proofs.                                                     *)
(***************************************************************************)
EXTENDS StoreParity, FiniteSetTheorems, WellFoundedInduction, TLAPS

-----------------------------------------------------------------------------
(* Tables that stand for maps. *)

\* The row of one key, in each kind of table.
KeyedRow(f, k) == [id |-> k, row |-> f[k]]
OwnedRow(f, k) == [id |-> k, tenant |-> f[k].tenant, row |-> f[k].row]
InsideRow(f, k) == [id |-> k[2], tenant |-> k[1], row |-> f[k]]
TwiceRow(f, k) == [id |-> <<k[2], k[3]>>, tenant |-> k[1], row |-> f[k]]

\* What the rows of a table say of the map, field by field.
LEMMA Rows ==
    ASSUME NEW f, NEW k
    PROVE  /\ KeyedRow(f, k).id = k /\ KeyedRow(f, k).row = f[k]
           /\ OwnedRow(f, k).id = k /\ OwnedRow(f, k).tenant = f[k].tenant /\ OwnedRow(f, k).row = f[k].row
           /\ InsideRow(f, k).id = k[2] /\ InsideRow(f, k).tenant = k[1] /\ InsideRow(f, k).row = f[k]
           /\ TwiceRow(f, k).id = <<k[2], k[3]>> /\ TwiceRow(f, k).tenant = k[1] /\ TwiceRow(f, k).row = f[k]
  BY DEF KeyedRow, OwnedRow, InsideRow, TwiceRow

\* What is in a table.
LEMMA Tables ==
    ASSUME NEW f
    PROVE  /\ \A r : r \in Keyed(f) <=> \E k \in DOMAIN f : r = KeyedRow(f, k)
           /\ \A r : r \in Owned(f) <=> \E k \in DOMAIN f : r = OwnedRow(f, k)
           /\ \A r : r \in Inside(f) <=> \E k \in DOMAIN f : r = InsideRow(f, k)
           /\ \A r : r \in InsideTwice(f) <=> \E k \in DOMAIN f : r = TwiceRow(f, k)
  BY DEF Keyed, Owned, Inside, InsideTwice, KeyedRow, OwnedRow, InsideRow, TwiceRow

\* A row written differently.
NewRow(r, v) == [r EXCEPT !.row = v]

\* A row written anew is the row of the map written anew.
LEMMA Rewritten ==
    ASSUME NEW f, NEW g, NEW k, NEW v
    PROVE  /\ g[k] = v => NewRow(KeyedRow(f, k), v) = KeyedRow(g, k)
           /\ g[k] = v => NewRow(InsideRow(f, k), v) = InsideRow(g, k)
           /\ g[k] = v => NewRow(TwiceRow(f, k), v) = TwiceRow(g, k)
           /\ g[k].tenant = f[k].tenant /\ g[k].row = v => NewRow(OwnedRow(f, k), v) = OwnedRow(g, k)
  BY DEF KeyedRow, OwnedRow, InsideRow, TwiceRow, NewRow

\* Maps with the same value at a key have the same row there.
LEMMA SameRow ==
    ASSUME NEW f, NEW g, NEW k, f[k] = g[k]
    PROVE  /\ KeyedRow(f, k) = KeyedRow(g, k) /\ OwnedRow(f, k) = OwnedRow(g, k)
           /\ InsideRow(f, k) = InsideRow(g, k) /\ TwiceRow(f, k) = TwiceRow(g, k)
  BY DEF KeyedRow, OwnedRow, InsideRow, TwiceRow

-----------------------------------------------------------------------------
(* Looking a row up by its key. *)

\* A primary key finds the row of that key: of a map keyed by an id that is nobody's ...
LEMMA KeyedHas ==
    ASSUME NEW f, NEW k
    PROVE  /\ P!Has(Keyed(f), k) <=> k \in DOMAIN f
           /\ k \in DOMAIN f => P!At(Keyed(f), k) = KeyedRow(f, k)
  <1>1. ASSUME NEW r \in Keyed(f), r.id = k PROVE k \in DOMAIN f /\ r = KeyedRow(f, k)
    <2>1. PICK x \in DOMAIN f : r = KeyedRow(f, x)
      BY Tables
    <2> QED BY <2>1, <1>1 DEF KeyedRow
  <1>2. k \in DOMAIN f => KeyedRow(f, k) \in Keyed(f) /\ KeyedRow(f, k).id = k
    BY Tables, Rows
  <1> QED BY <1>1, <1>2 DEF P!Has, P!At

\* ... of one with the fleet beside the row, asked with the fleet or without ...
LEMMA OwnedHas ==
    ASSUME NEW f, NEW k
    PROVE  /\ P!Has(Owned(f), k) <=> k \in DOMAIN f
           /\ k \in DOMAIN f => P!At(Owned(f), k) = OwnedRow(f, k)
           /\ \A t : P!HasIn(Owned(f), t, k) <=> k \in DOMAIN f /\ f[k].tenant = t
           /\ \A t : k \in DOMAIN f /\ f[k].tenant = t => P!AtIn(Owned(f), t, k) = OwnedRow(f, k)
  <1>1. ASSUME NEW r \in Owned(f), r.id = k PROVE k \in DOMAIN f /\ r = OwnedRow(f, k) /\ r.tenant = f[k].tenant
    <2>1. PICK x \in DOMAIN f : r = OwnedRow(f, x)
      BY Tables
    <2> QED BY <2>1, <1>1 DEF OwnedRow
  <1>2. k \in DOMAIN f => OwnedRow(f, k) \in Owned(f) /\ OwnedRow(f, k).id = k /\ OwnedRow(f, k).tenant = f[k].tenant
    BY Tables, Rows
  <1>3. P!Has(Owned(f), k) <=> k \in DOMAIN f
    BY <1>1, <1>2 DEF P!Has
  <1>4. k \in DOMAIN f => P!At(Owned(f), k) = OwnedRow(f, k)
    BY <1>1, <1>2 DEF P!At
  <1>5. ASSUME NEW t PROVE P!HasIn(Owned(f), t, k) <=> k \in DOMAIN f /\ f[k].tenant = t
    BY <1>1, <1>2 DEF P!HasIn
  <1>6. ASSUME NEW t, k \in DOMAIN f, f[k].tenant = t PROVE P!AtIn(Owned(f), t, k) = OwnedRow(f, k)
    BY <1>1, <1>2, <1>6 DEF P!AtIn
  <1> QED BY <1>3, <1>4, <1>5, <1>6

\* ... of one keyed by fleet and id ...
LEMMA InsideHas ==
    ASSUME NEW f, NEW A, NEW B, DOMAIN f \subseteq A \X B, NEW t, NEW id
    PROVE  /\ P!HasIn(Inside(f), t, id) <=> <<t, id>> \in DOMAIN f
           /\ <<t, id>> \in DOMAIN f => P!AtIn(Inside(f), t, id) = InsideRow(f, <<t, id>>)
  <1>1. ASSUME NEW r \in Inside(f), r.tenant = t, r.id = id
        PROVE  <<t, id>> \in DOMAIN f /\ r = InsideRow(f, <<t, id>>)
    <2>1. PICK x \in DOMAIN f : r = InsideRow(f, x)
      BY Tables
    <2>2. x = <<x[1], x[2]>>
      OBVIOUS
    <2>3. x[1] = t /\ x[2] = id
      BY <2>1, <1>1 DEF InsideRow
    <2> QED BY <2>1, <2>2, <2>3
  <1>2. <<t, id>> \in DOMAIN f =>
            /\ InsideRow(f, <<t, id>>) \in Inside(f)
            /\ InsideRow(f, <<t, id>>).id = id /\ InsideRow(f, <<t, id>>).tenant = t
    <2>1. InsideRow(f, <<t, id>>).id = <<t, id>>[2] /\ InsideRow(f, <<t, id>>).tenant = <<t, id>>[1]
      BY DEF InsideRow
    <2> QED BY <2>1, Tables
  <1> QED BY <1>1, <1>2 DEF P!HasIn, P!AtIn

\* ... and of one keyed by fleet and an id of two parts.
LEMMA TwiceHas ==
    ASSUME NEW f, NEW A, NEW B, NEW C, DOMAIN f \subseteq A \X B \X C, NEW t, NEW x, NEW y
    PROVE  /\ P!HasIn(InsideTwice(f), t, <<x, y>>) <=> <<t, x, y>> \in DOMAIN f
           /\ <<t, x, y>> \in DOMAIN f => P!AtIn(InsideTwice(f), t, <<x, y>>) = TwiceRow(f, <<t, x, y>>)
  <1>1. ASSUME NEW r \in InsideTwice(f), r.tenant = t, r.id = <<x, y>>
        PROVE  <<t, x, y>> \in DOMAIN f /\ r = TwiceRow(f, <<t, x, y>>)
    <2>1. PICK k \in DOMAIN f : r = TwiceRow(f, k)
      BY Tables
    <2>2. k = <<k[1], k[2], k[3]>>
      OBVIOUS
    <2>3. k[1] = t /\ <<k[2], k[3]>> = <<x, y>>
      BY <2>1, <1>1 DEF TwiceRow
    <2>4. k[2] = x /\ k[3] = y
      BY <2>3
    <2> QED BY <2>1, <2>2, <2>3, <2>4
  <1>2. <<t, x, y>> \in DOMAIN f =>
            /\ TwiceRow(f, <<t, x, y>>) \in InsideTwice(f)
            /\ TwiceRow(f, <<t, x, y>>).id = <<x, y>> /\ TwiceRow(f, <<t, x, y>>).tenant = t
    <2>1. /\ TwiceRow(f, <<t, x, y>>).id = <<<<t, x, y>>[2], <<t, x, y>>[3]>>
          /\ TwiceRow(f, <<t, x, y>>).tenant = <<t, x, y>>[1]
      BY DEF TwiceRow
    <2> QED BY <2>1, Tables
  <1> QED BY <1>1, <1>2 DEF P!HasIn, P!AtIn

-----------------------------------------------------------------------------
(* A row more, some rows fewer, and rows rewritten. *)

\* What Put does to a map.
LEMMA PutFacts ==
    ASSUME NEW f, NEW k, NEW v
    PROVE  /\ DOMAIN Put(f, k, v) = DOMAIN f \cup {k}
           /\ Put(f, k, v)[k] = v
           /\ \A x \in DOMAIN f : x # k => Put(f, k, v)[x] = f[x]
  BY DEF Put

\* What Without does to a map.
LEMMA WithoutFacts ==
    ASSUME NEW f, NEW S
    PROVE  /\ DOMAIN Without(f, S) = DOMAIN f \ S
           /\ \A x \in DOMAIN f \ S : Without(f, S)[x] = f[x]
  BY DEF Without

\* An INSERT of a new key adds the row that the map gains: of each kind of table.
LEMMA KeyedAdd ==
    ASSUME NEW f, NEW k, NEW v, k \notin DOMAIN f
    PROVE  Keyed(Put(f, k, v)) = Keyed(f) \cup {[id |-> k, row |-> v]}
  <1> DEFINE g == Put(f, k, v)
  <1>1. /\ DOMAIN g = DOMAIN f \cup {k} /\ KeyedRow(g, k) = [id |-> k, row |-> v]
        /\ \A x \in DOMAIN f : KeyedRow(g, x) = KeyedRow(f, x)
    BY DEF KeyedRow, Put
  <1> HIDE DEF g
  <1>2. ASSUME NEW r PROVE r \in Keyed(g) <=> r \in Keyed(f) \cup {[id |-> k, row |-> v]}
    BY <1>1, Tables
  <1> QED BY <1>2 DEF g

\* The same with the fleet beside the row.
LEMMA OwnedAdd ==
    ASSUME NEW f, NEW k, NEW t, NEW v, k \notin DOMAIN f
    PROVE  Owned(Put(f, k, [tenant |-> t, row |-> v])) = Owned(f) \cup {[id |-> k, tenant |-> t, row |-> v]}
  <1> DEFINE g == Put(f, k, [tenant |-> t, row |-> v])
             new == [id |-> k, tenant |-> t, row |-> v]
  <1>1. DOMAIN g = DOMAIN f \cup {k} /\ g[k] = [tenant |-> t, row |-> v]
    BY DEF Put
  <1>2. \A x \in DOMAIN f : g[x] = f[x]
    BY DEF Put
  <1>3. OwnedRow(g, k) = new
    BY <1>1 DEF OwnedRow
  <1>4. \A x \in DOMAIN f : OwnedRow(g, x) = OwnedRow(f, x)
    BY <1>2 DEF OwnedRow
  <1> HIDE DEF g, new
  <1>5. ASSUME NEW r PROVE r \in Owned(g) <=> r \in Owned(f) \cup {new}
    BY <1>1, <1>3, <1>4, Tables
  <1> QED BY <1>5 DEF g, new

\* The same with the fleet in the key.
LEMMA InsideAdd ==
    ASSUME NEW f, NEW t, NEW id, NEW v, <<t, id>> \notin DOMAIN f
    PROVE  Inside(Put(f, <<t, id>>, v)) = Inside(f) \cup {[id |-> id, tenant |-> t, row |-> v]}
  <1> DEFINE k == <<t, id>>
             g == Put(f, k, v)
             new == [id |-> id, tenant |-> t, row |-> v]
  <1>1. DOMAIN g = DOMAIN f \cup {k} /\ g[k] = v
    BY DEF Put
  <1>2. \A x \in DOMAIN f : g[x] = f[x]
    BY DEF Put
  <1>3. InsideRow(g, k) = new
    BY <1>1 DEF InsideRow
  <1>4. \A x \in DOMAIN f : InsideRow(g, x) = InsideRow(f, x)
    BY <1>2 DEF InsideRow
  <1> HIDE DEF g, new, k
  <1>5. ASSUME NEW r PROVE r \in Inside(g) <=> r \in Inside(f) \cup {new}
    BY <1>1, <1>3, <1>4, Tables
  <1> QED BY <1>5 DEF g, new, k

\* The same with an id of two parts.
LEMMA TwiceAdd ==
    ASSUME NEW f, NEW t, NEW x, NEW y, NEW v, <<t, x, y>> \notin DOMAIN f
    PROVE  InsideTwice(Put(f, <<t, x, y>>, v)) = InsideTwice(f) \cup {[id |-> <<x, y>>, tenant |-> t, row |-> v]}
  <1> DEFINE k == <<t, x, y>>
             g == Put(f, k, v)
             new == [id |-> <<x, y>>, tenant |-> t, row |-> v]
  <1>1. DOMAIN g = DOMAIN f \cup {k} /\ g[k] = v
    BY DEF Put
  <1>2. \A z \in DOMAIN f : g[z] = f[z]
    BY DEF Put
  <1>3. TwiceRow(g, k) = new
    BY <1>1 DEF TwiceRow
  <1>4. \A z \in DOMAIN f : TwiceRow(g, z) = TwiceRow(f, z)
    BY <1>2 DEF TwiceRow
  <1> HIDE DEF g, new, k
  <1>5. ASSUME NEW r PROVE r \in InsideTwice(g) <=> r \in InsideTwice(f) \cup {new}
    BY <1>1, <1>3, <1>4, Tables
  <1> QED BY <1>5 DEF g, new, k

\* What is left when some keys are dropped.
LEMMA Cut ==
    ASSUME NEW f, NEW S, NEW T
    PROVE  /\ T \subseteq Keyed(f) /\ (\A k \in DOMAIN f : KeyedRow(f, k) \in T <=> k \notin S)
              => T = Keyed(Without(f, S))
           /\ T \subseteq Owned(f) /\ (\A k \in DOMAIN f : OwnedRow(f, k) \in T <=> k \notin S)
              => T = Owned(Without(f, S))
           /\ T \subseteq Inside(f) /\ (\A k \in DOMAIN f : InsideRow(f, k) \in T <=> k \notin S)
              => T = Inside(Without(f, S))
           /\ T \subseteq InsideTwice(f) /\ (\A k \in DOMAIN f : TwiceRow(f, k) \in T <=> k \notin S)
              => T = InsideTwice(Without(f, S))
  <1> DEFINE g == Without(f, S)
  <1>1. DOMAIN g = DOMAIN f \ S /\ \A k \in DOMAIN g : f[k] = g[k]
    BY DEF Without
  <1> HIDE DEF g
  <1>2. \A k \in DOMAIN g : /\ KeyedRow(f, k) = KeyedRow(g, k) /\ OwnedRow(f, k) = OwnedRow(g, k)
                            /\ InsideRow(f, k) = InsideRow(g, k) /\ TwiceRow(f, k) = TwiceRow(g, k)
    BY <1>1, SameRow
  <1>3. ASSUME T \subseteq Keyed(f), \A k \in DOMAIN f : KeyedRow(f, k) \in T <=> k \notin S, NEW r
        PROVE  r \in T <=> r \in Keyed(g)
    BY <1>1, <1>2, <1>3, Tables
  <1>4. ASSUME T \subseteq Owned(f), \A k \in DOMAIN f : OwnedRow(f, k) \in T <=> k \notin S, NEW r
        PROVE  r \in T <=> r \in Owned(g)
    BY <1>1, <1>2, <1>4, Tables
  <1>5. ASSUME T \subseteq Inside(f), \A k \in DOMAIN f : InsideRow(f, k) \in T <=> k \notin S, NEW r
        PROVE  r \in T <=> r \in Inside(g)
    BY <1>1, <1>2, <1>5, Tables
  <1>6. ASSUME T \subseteq InsideTwice(f), \A k \in DOMAIN f : TwiceRow(f, k) \in T <=> k \notin S, NEW r
        PROVE  r \in T <=> r \in InsideTwice(g)
    BY <1>1, <1>2, <1>6, Tables
  <1> QED BY <1>3, <1>4, <1>5, <1>6 DEF g

\* Rows rewritten one by one, u saying what becomes of each.
Rewrites(u, table) == {u[r] : r \in table}

\* An UPDATE of row after row is the table of the map so written.
LEMMA Mapped ==
    ASSUME NEW f, NEW g, NEW u, DOMAIN g = DOMAIN f
    PROVE  /\ (\A k \in DOMAIN f : u[KeyedRow(f, k)] = KeyedRow(g, k)) => Rewrites(u, Keyed(f)) = Keyed(g)
           /\ (\A k \in DOMAIN f : u[OwnedRow(f, k)] = OwnedRow(g, k)) => Rewrites(u, Owned(f)) = Owned(g)
           /\ (\A k \in DOMAIN f : u[InsideRow(f, k)] = InsideRow(g, k)) => Rewrites(u, Inside(f)) = Inside(g)
           /\ (\A k \in DOMAIN f : u[TwiceRow(f, k)] = TwiceRow(g, k)) => Rewrites(u, InsideTwice(f)) = InsideTwice(g)
  <1>1. ASSUME \A k \in DOMAIN f : u[KeyedRow(f, k)] = KeyedRow(g, k), NEW x
        PROVE  x \in Rewrites(u, Keyed(f)) <=> x \in Keyed(g)
    BY <1>1, Tables DEF Rewrites
  <1>2. ASSUME \A k \in DOMAIN f : u[OwnedRow(f, k)] = OwnedRow(g, k), NEW x
        PROVE  x \in Rewrites(u, Owned(f)) <=> x \in Owned(g)
    BY <1>2, Tables DEF Rewrites
  <1>3. ASSUME \A k \in DOMAIN f : u[InsideRow(f, k)] = InsideRow(g, k), NEW x
        PROVE  x \in Rewrites(u, Inside(f)) <=> x \in Inside(g)
    BY <1>3, Tables DEF Rewrites
  <1>4. ASSUME \A k \in DOMAIN f : u[TwiceRow(f, k)] = TwiceRow(g, k), NEW x
        PROVE  x \in Rewrites(u, InsideTwice(f)) <=> x \in InsideTwice(g)
    BY <1>4, Tables DEF Rewrites
  <1> QED BY <1>1, <1>2, <1>3, <1>4
-----------------------------------------------------------------------------
(* The rows of one side. *)

\* What row-level security shows of a table is what the map holds beside the tenant ...
LEMMA OwnedIn ==
    ASSUME NEW f, NEW t, NEW r
    PROVE  r \in P!InTenant(Owned(f), t) <=> \E k \in M!Beside(f, t) : r = OwnedRow(f, k)
  <1>1. ASSUME NEW k \in DOMAIN f PROVE OwnedRow(f, k).tenant = f[k].tenant
    BY DEF OwnedRow
  <1> QED BY <1>1, Tables DEF P!InTenant, M!Beside

\* ... or under its key ...
LEMMA InsideIn ==
    ASSUME NEW f, NEW t, NEW r
    PROVE  r \in P!InTenant(Inside(f), t) <=> \E k \in M!InKey(f, t) : r = InsideRow(f, k)
  <1>1. ASSUME NEW k \in DOMAIN f PROVE InsideRow(f, k).tenant = k[1]
    BY DEF InsideRow
  <1> QED BY <1>1, Tables DEF P!InTenant, M!InKey

\* ... with an id of one part or two.
LEMMA TwiceIn ==
    ASSUME NEW f, NEW t, NEW r
    PROVE  r \in P!InTenant(InsideTwice(f), t) <=> \E k \in M!InKey(f, t) : r = TwiceRow(f, k)
  <1>1. ASSUME NEW k \in DOMAIN f PROVE TwiceRow(f, k).tenant = k[1]
    BY DEF TwiceRow
  <1> QED BY <1>1, Tables DEF P!InTenant, M!InKey

\* One side's rows of a map are those of another.
SameBeside(f, g, t) == M!Beside(f, t) = M!Beside(g, t) /\ \A k \in M!Beside(f, t) : f[k] = g[k]
SameInKey(f, g, t) == M!InKey(f, t) = M!InKey(g, t) /\ \A k \in M!InKey(f, t) : f[k] = g[k]

\* Where one side's part of two maps is the same, so is what the policy shows of their tables.
LEMMA SameSide ==
    ASSUME NEW f, NEW g, NEW t
    PROVE  /\ SameBeside(f, g, t) => P!InTenant(Owned(f), t) = P!InTenant(Owned(g), t)
           /\ SameInKey(f, g, t) => P!InTenant(Inside(f), t) = P!InTenant(Inside(g), t)
           /\ SameInKey(f, g, t) => P!InTenant(InsideTwice(f), t) = P!InTenant(InsideTwice(g), t)
  <1>1. ASSUME SameBeside(f, g, t), NEW r
        PROVE  r \in P!InTenant(Owned(f), t) <=> r \in P!InTenant(Owned(g), t)
    <2>1. \A k \in M!Beside(f, t) : OwnedRow(f, k) = OwnedRow(g, k)
      BY <1>1, SameRow DEF SameBeside
    <2> QED BY <1>1, <2>1, OwnedIn DEF SameBeside
  <1>2. ASSUME SameInKey(f, g, t), NEW r
        PROVE  /\ r \in P!InTenant(Inside(f), t) <=> r \in P!InTenant(Inside(g), t)
               /\ r \in P!InTenant(InsideTwice(f), t) <=> r \in P!InTenant(InsideTwice(g), t)
    <2>1. \A k \in M!InKey(f, t) : InsideRow(f, k) = InsideRow(g, k) /\ TwiceRow(f, k) = TwiceRow(g, k)
      BY <1>2, SameRow DEF SameInKey
    <2> QED BY <1>2, <2>1, InsideIn, TwiceIn DEF SameInKey
  <1>3. ASSUME SameBeside(f, g, t) PROVE P!InTenant(Owned(f), t) = P!InTenant(Owned(g), t)
    <2>1. \A r : r \in P!InTenant(Owned(f), t) <=> r \in P!InTenant(Owned(g), t)
      BY <1>1, <1>3
    <2> QED BY ONLY <2>1
  <1>4. ASSUME SameInKey(f, g, t)
        PROVE  /\ P!InTenant(Inside(f), t) = P!InTenant(Inside(g), t)
               /\ P!InTenant(InsideTwice(f), t) = P!InTenant(InsideTwice(g), t)
    <2>1. \A r : r \in P!InTenant(Inside(f), t) <=> r \in P!InTenant(Inside(g), t)
      BY <1>2, <1>4
    <2>2. \A r : r \in P!InTenant(InsideTwice(f), t) <=> r \in P!InTenant(InsideTwice(g), t)
      BY <1>2, <1>4
    <2> QED BY ONLY <2>1, <2>2
  <1> QED BY <1>3, <1>4

-----------------------------------------------------------------------------
(* Counting. *)

\* A one-to-one image of a finite set is as large.
LEMMA ImageSize ==
    ASSUME NEW S, IsFiniteSet(S), NEW u, \A x, y \in S : u[x] = u[y] => x = y
    PROVE  IsFiniteSet({u[x] : x \in S}) /\ Cardinality({u[x] : x \in S}) = Cardinality(S)
  <1> DEFINE T == {u[x] : x \in S}
             w == [x \in S |-> u[x]]
  <1>1. w \in [S -> T] /\ \A x \in S : w[x] = u[x]
    OBVIOUS
  <1>2. \A y \in T : \E x \in S : w[x] = y
    BY <1>1
  <1> HIDE DEF T, w
  <1>3. w \in Injection(S, T)
    BY <1>1 DEF Injection, IsInjective
  <1>4. w \in Bijection(S, T)
    BY <1>1, <1>2, <1>3 DEF Bijection, Surjection
  <1>5. IsFiniteSet(T) /\ Cardinality(T) = Cardinality(S)
    BY <1>4, FS_Bijection DEF ExistsBijection
  <1> QED BY <1>5 DEF T

\* As many rows of a table as keys they are of.
LEMMA OwnedSize ==
    ASSUME NEW f, NEW S, S \subseteq DOMAIN f, IsFiniteSet(S),
           NEW T, \A r : r \in T <=> \E k \in S : r = OwnedRow(f, k)
    PROVE  IsFiniteSet(T) /\ Cardinality(T) = Cardinality(S)
  <1> DEFINE u == [k \in S |-> OwnedRow(f, k)]
  <1>1. \A k \in S : OwnedRow(f, k).id = k
    BY DEF OwnedRow
  <1>2. \A x, y \in S : u[x] = u[y] => x = y
    BY <1>1
  <1>3. T = {u[k] : k \in S}
    OBVIOUS
  <1> HIDE DEF u
  <1> QED BY <1>2, <1>3, ImageSize

\* The same of a table whose keys are nobody's.
LEMMA KeyedSize ==
    ASSUME NEW f, NEW S, S \subseteq DOMAIN f, IsFiniteSet(S),
           NEW T, \A r : r \in T <=> \E k \in S : r = KeyedRow(f, k)
    PROVE  IsFiniteSet(T) /\ Cardinality(T) = Cardinality(S)
  <1> DEFINE u == [k \in S |-> KeyedRow(f, k)]
  <1>1. \A k \in S : KeyedRow(f, k).id = k
    BY DEF KeyedRow
  <1>2. \A x, y \in S : u[x] = u[y] => x = y
    BY <1>1
  <1>3. T = {u[k] : k \in S}
    OBVIOUS
  <1> HIDE DEF u
  <1> QED BY <1>2, <1>3, ImageSize

\* Finitely many places have a last one, and a first.
LEMMA LastOf ==
    ASSUME NEW S, S \subseteq Nat, S # {}, IsFiniteSet(S)
    PROVE  \E last \in S : \A i \in S : i <= last
  <1> DEFINE Above(i) == {j \in S : j > i}
             T == {Above(i) : i \in S}
  <1>1. ASSUME NEW i \in S PROVE Above(i) \in FiniteSubsetsOf(S)
    <2>1. Above(i) \in SUBSET S
      OBVIOUS
    <2>2. IsFiniteSet(Above(i))
      BY <2>1, FS_Subset
    <2> QED BY <2>1, <2>2 DEF FiniteSubsetsOf
  <1>2. T \subseteq FiniteSubsetsOf(S) /\ T # {}
    BY <1>1
  <1>3. PICK x \in T : \A y \in T : ~(<<y, x>> \in StrictSubsetOrdering(S))
    BY <1>2, WFMin, FS_StrictSubsetOrderingWellFounded
  <1>4. PICK i \in S : x = Above(i)
    OBVIOUS
  <1>5. ASSUME NEW j \in S, j > i PROVE FALSE
    <2>1. i \in Nat /\ j \in Nat /\ ~(j > j) /\ \A k \in S : k \in Nat /\ (k > j => k > i)
      BY <1>5
    <2>2. Above(j) \subseteq Above(i) /\ j \in Above(i) /\ j \notin Above(j)
      BY <2>1, <1>5, Zenon
    <2>3. Above(j) \in SUBSET S /\ Above(i) \in SUBSET S /\ Above(j) # Above(i) /\ Above(j) \in T
      BY <2>2
    <2> HIDE DEF Above, T
    <2>4. ASSUME NEW a \in SUBSET S, NEW b \in SUBSET S, a \subseteq b, a # b
          PROVE  <<a, b>> \in StrictSubsetOrdering(S)
      <3> DEFINE p == <<a, b>>
      <3>1. p \in (SUBSET S) \X (SUBSET S) /\ p[1] = a /\ p[2] = b
        OBVIOUS
      <3> HIDE DEF p
      <3>2. p \in StrictSubsetOrdering(S)
        BY <3>1, <2>4 DEF StrictSubsetOrdering
      <3> QED BY <3>2 DEF p
    <2>5. <<Above(j), Above(i)>> \in StrictSubsetOrdering(S)
      BY <2>2, <2>3, <2>4
    <2> QED BY <2>3, <2>5, <1>3, <1>4
  <1> QED BY <1>5

\* The same of the first.
LEMMA FirstOf ==
    ASSUME NEW S, S \subseteq Nat, S # {}, IsFiniteSet(S)
    PROVE  \E first \in S : \A i \in S : first <= i
  <1> DEFINE Below(i) == {j \in S : j < i}
             T == {Below(i) : i \in S}
  <1>1. ASSUME NEW i \in S PROVE Below(i) \in FiniteSubsetsOf(S)
    <2>1. Below(i) \in SUBSET S
      OBVIOUS
    <2>2. IsFiniteSet(Below(i))
      BY <2>1, FS_Subset
    <2> QED BY <2>1, <2>2 DEF FiniteSubsetsOf
  <1>2. T \subseteq FiniteSubsetsOf(S) /\ T # {}
    BY <1>1
  <1>3. PICK x \in T : \A y \in T : ~(<<y, x>> \in StrictSubsetOrdering(S))
    BY <1>2, WFMin, FS_StrictSubsetOrderingWellFounded
  <1>4. PICK i \in S : x = Below(i)
    OBVIOUS
  <1>5. ASSUME NEW j \in S, j < i PROVE FALSE
    <2>1. i \in Nat /\ j \in Nat /\ ~(j < j) /\ \A k \in S : k \in Nat /\ (k < j => k < i)
      BY <1>5
    <2>2. Below(j) \subseteq Below(i) /\ j \in Below(i) /\ j \notin Below(j)
      BY <2>1, <1>5, Zenon
    <2>3. Below(j) \in SUBSET S /\ Below(i) \in SUBSET S /\ Below(j) # Below(i) /\ Below(j) \in T
      BY <2>2
    <2> HIDE DEF Below, T
    <2>4. ASSUME NEW a \in SUBSET S, NEW b \in SUBSET S, a \subseteq b, a # b
          PROVE  <<a, b>> \in StrictSubsetOrdering(S)
      <3> DEFINE p == <<a, b>>
      <3>1. p \in (SUBSET S) \X (SUBSET S) /\ p[1] = a /\ p[2] = b
        OBVIOUS
      <3> HIDE DEF p
      <3>2. p \in StrictSubsetOrdering(S)
        BY <3>1, <2>4 DEF StrictSubsetOrdering
      <3> QED BY <3>2 DEF p
    <2>5. <<Below(j), Below(i)>> \in StrictSubsetOrdering(S)
      BY <2>2, <2>3, <2>4
    <2> QED BY <2>3, <2>5, <1>3, <1>4
  <1> QED BY <1>5

\* The most recent of a finite history.
LEMMA LatestIs ==
    ASSUME NEW S, S \subseteq Nat, S # {}, IsFiniteSet(S)
    PROVE  /\ M!Latest(S) \in S /\ \A i \in S : i <= M!Latest(S)
           /\ P!Latest(S) = M!Latest(S)
  <1>1. \E last \in S : \A i \in S : i <= last
    BY LastOf
  <1> QED BY <1>1 DEF M!Latest, P!Latest

-----------------------------------------------------------------------------
(* The invariant, part by part: every part names the maps it is about, so that a call which leaves them alone keeps it. *)

\* Where each host lives.
Homes(hosts) == {<<hosts[h].tenant, h>> : h \in DOMAIN hosts}

\* The parts.
TokensGood(f, fleets) ==
    MapsTo(f, Keys, Ours(EnrollmentToken)) /\ \A k \in DOMAIN f : f[k].tenant \in fleets

\* One machine has one live host in a fleet.
HostsGood(f, fleets) ==
    /\ MapsTo(f, HostIDs, Ours(Host)) /\ IsFiniteSet(DOMAIN f)
    /\ \A h \in DOMAIN f : f[h].tenant \in fleets
    /\ \A g, h \in DOMAIN f :
        /\ f[g].tenant = f[h].tenant /\ ~f[g].row.revoked /\ ~f[h].row.revoked
        /\ f[g].row.machineID = f[h].row.machineID /\ f[g].row.machineID # None
        => g = h

\* Every certificate is a host's that is there.
CertsGood(f, homes) ==
    /\ MapsTo(f, Fingerprints, Ours(Certificate)) /\ IsFiniteSet(DOMAIN f)
    /\ \A fp \in DOMAIN f : <<f[fp].tenant, f[fp].row.host>> \in homes

\* A host's queue.
Queued(q, t, h) == IF <<t, h>> \in DOMAIN q THEN q[<<t, h>>] ELSE {}

\* Released to a host and not claimed yet.
Waiting(r, t, h) == {id \in JobIDs : /\ <<t, id>> \in DOMAIN r /\ r[<<t, id>>].host = h
                                     /\ ~AwaitingApproval(r[<<t, id>>]) /\ ~r[<<t, id>>].claimed}

\* A queue is the ids of the records waiting; a result follows a claim, and that a release.
JobsGood(q, r, s, homes) ==
    /\ MapsTo(q, Tenants \X HostIDs, SUBSET JobIDs)
    /\ MapsTo(r, Tenants \X JobIDs, JobRecord)
    /\ MapsTo(s, Tenants \X JobIDs, {"completed", "failed"})
    /\ DOMAIN q \subseteq homes
    /\ \A k \in DOMAIN r : <<k[1], r[k].host>> \in homes
    /\ DOMAIN s \subseteq DOMAIN r
    /\ \A t \in Tenants, h \in HostIDs : Queued(q, t, h) = Waiting(r, t, h)
    /\ \A k \in DOMAIN r : r[k].claimed => ~AwaitingApproval(r[k])
    /\ \A k \in DOMAIN r : r[k].completed => r[k].claimed
    /\ \A k \in DOMAIN s : r[k].completed

\* The versions of a template have no gap, and what is archived exists.
TemplatesGood(f, archived, fleets) ==
    /\ MapsTo(f, Tenants \X Names \X (1 .. MaxVersions), TemplateVersion)
    /\ MapsTo(archived, Tenants \X Names, Operators)
    /\ \A k \in DOMAIN f : k[1] \in fleets
    /\ \A k \in DOMAIN f : \A v \in 1 .. k[3] : <<k[1], k[2], v>> \in DOMAIN f
    /\ \A k \in DOMAIN archived : \E x \in DOMAIN f : x[1] = k[1] /\ x[2] = k[2]

\* Ids and instants grow with the place, and no fleet has more than its bound.
EventsGood(f, fleets, c, d) ==
    /\ MapsTo(f, Nat \ {0}, [tenant : Tenants, id : Nat, at : Time]) /\ IsFiniteSet(DOMAIN f)
    /\ \A i \in DOMAIN f : f[i].tenant \in fleets /\ f[i].at <= c /\ f[i].id < d
    /\ \A i, j \in DOMAIN f : i < j => f[i].id < f[j].id /\ f[i].at <= f[j].at
    /\ \A t \in Tenants : Cardinality(M!Beside(f, t)) <= MaxEventsPerTenant

\* The places of one host's unit history.
Of(f, t, h) == {i \in M!Beside(f, t) : f[i].host = h}

\* No two transitions of a host are of one instant, and none has more than its bound.
TransitionsGood(f, fleets, c) ==
    /\ MapsTo(f, Nat \ {0}, [tenant : Tenants, host : HostIDs, unit : {"nginx", "cron"}, at : Time]) /\ IsFiniteSet(DOMAIN f)
    /\ \A i \in DOMAIN f : f[i].tenant \in fleets /\ f[i].at <= c
    /\ \A i, j \in DOMAIN f : i < j /\ f[i].tenant = f[j].tenant /\ f[i].host = f[j].host => f[i].at < f[j].at
    /\ \A t \in Tenants, h \in HostIDs : Cardinality(Of(f, t, h)) <= MaxUnitTransitionsPerHost

\* Every alert state is of a rule that is there.
RulesGood(f, states, fleets) ==
    /\ MapsTo(f, Tenants \X RuleIDs, AlertRule)
    /\ MapsTo(states, Tenants \X RuleIDs \X HostIDs, AlertState)
    /\ \A k \in DOMAIN f : k[1] \in fleets
    /\ \A k \in DOMAIN states : <<k[1], k[2]>> \in DOMAIN f

\* An email address is one account's.
AccountsGood(f, fleets) ==
    /\ MapsTo(f, AccountIDs, Belonging(Sides, Account))
    /\ \A a \in DOMAIN f : f[a].tenant \in fleets \cup {Platform}
    /\ \A a, b \in DOMAIN f : f[a].row.email = f[b].row.email => a = b

\* Every session and every token is an account's that is there.
CredentialsGood(sessions, tokens, holders) ==
    /\ MapsTo(sessions, Keys, Session) /\ IsFiniteSet(DOMAIN sessions)
    /\ MapsTo(tokens, Keys, APIToken)
    /\ \A k \in DOMAIN sessions : sessions[k].account \in holders
    /\ \A k \in DOMAIN tokens : tokens[k].account \in holders

\* A secret is one share's in a fleet.
SharesGood(f, fleets) ==
    /\ MapsTo(f, Names, Ours(WallboardShare)) /\ IsFiniteSet(DOMAIN f)
    /\ \A x \in DOMAIN f : f[x].tenant \in fleets
    /\ \A x, y \in DOMAIN f : f[x].tenant = f[y].tenant /\ f[x].row.secret = f[y].row.secret => x = y

\* All of them: of a memory store, at an instant and with event ids drawn so far.
Good(m, c, d) ==
    /\ DOMAIN m = M!Memory
    /\ MapsTo(m.tenants, Tenants, Tenant)
    /\ TokensGood(m.tokens, DOMAIN m.tenants)
    /\ HostsGood(m.hosts, DOMAIN m.tenants)
    /\ CertsGood(m.certs, Homes(m.hosts))
    /\ JobsGood(m.jobs, m.records, m.results, Homes(m.hosts))
    /\ TemplatesGood(m.templates, m.archivedTemplates, DOMAIN m.tenants)
    /\ EventsGood(m.events, DOMAIN m.tenants, c, d)
    /\ TransitionsGood(m.transitions, DOMAIN m.tenants, c)
    /\ RulesGood(m.rules, m.states, DOMAIN m.tenants)
    /\ AccountsGood(m.accounts, DOMAIN m.tenants)
    /\ CredentialsGood(m.sessions, m.apiTokens, DOMAIN m.accounts)
    /\ SharesGood(m.shares, DOMAIN m.tenants)

\* The table of a unit history: what is left of a deleted host's is shown to nobody.
Visible(f, homes) == {i \in DOMAIN f : <<f[i].tenant, f[i].host>> \in homes}
HistoryTable(f, homes) == {TransitionRow(f[i]) : i \in Visible(f, homes)}

\* The database of a memory store.
Mirrors(m, db) ==
    /\ DOMAIN db = P!Postgres
    /\ db.tenants = Keyed(m.tenants) /\ db.enrollment_tokens = Owned(m.tokens)
    /\ db.hosts = Owned(m.hosts) /\ db.certificates = Owned(m.certs)
    /\ db.jobs = Inside(m.records) /\ db.job_results = Inside(m.results)
    /\ db.templates = InsideTwice(m.templates) /\ db.template_archivals = Inside(m.archivedTemplates)
    /\ db.events = {EventRow(m.events[i]) : i \in DOMAIN m.events}
    /\ db.unit_transitions = HistoryTable(m.transitions, Homes(m.hosts))
    /\ db.alert_rules = Inside(m.rules) /\ db.alert_states = InsideTwice(m.states)
    /\ db.accounts = Owned(m.accounts) /\ db.sessions = Keyed(m.sessions)
    /\ db.api_tokens = Keyed(m.apiTokens) /\ db.wallboard_shares = Owned(m.shares)

\* What two calls in lock-step keep.
Lockstep(m, db) == Good(m, now, drawn) /\ Mirrors(m, db)

\* The two stores as they stand.
Paired == Lockstep(mem, pg)

\* The credentials of one side's accounts.
HeldBy(f, accounts, t) == {k \in DOMAIN f : f[k].account \in M!Beside(accounts, t)}
SameHeld(f, g, accounts, others, t) ==
    HeldBy(f, accounts, t) = HeldBy(g, others, t) /\ \A k \in HeldBy(f, accounts, t) : f[k] = g[k]

\* Nothing of a side's differs.
SameFor(m, n, t) ==
    /\ SameBeside(m.tokens, n.tokens, t) /\ SameBeside(m.hosts, n.hosts, t) /\ SameBeside(m.certs, n.certs, t)
    /\ SameInKey(m.records, n.records, t) /\ SameInKey(m.results, n.results, t)
    /\ SameInKey(m.templates, n.templates, t) /\ SameInKey(m.archivedTemplates, n.archivedTemplates, t)
    /\ SameBeside(m.events, n.events, t) /\ SameBeside(m.transitions, n.transitions, t)
    /\ SameInKey(m.rules, n.rules, t) /\ SameInKey(m.states, n.states, t)
    /\ SameBeside(m.shares, n.shares, t) /\ SameBeside(m.accounts, n.accounts, t)
    /\ SameHeld(m.sessions, n.sessions, m.accounts, n.accounts, t)
    /\ SameHeld(m.apiTokens, n.apiTokens, m.accounts, n.accounts, t)

\* A call leaves alone every side but its own.
Apart(side, n) == \A t \in Sides : t # side => SameFor(mem, n, t)

\* The answers are the same; a refusal may say why differently to a fleet that is not there.
AnswersAlike(side, x, y) ==
    /\ x.err \in Answers /\ y.err \in Answers
    /\ Refused(x) <=> Refused(y)
    /\ x.val = y.val
    /\ x.err = y.err \/ side \in Tenants \ DOMAIN mem.tenants

\* A call made of both stores went well.
Alike(side, a, b) == Lockstep(a.st, b.st) /\ AnswersAlike(side, a.ans, b.ans) /\ Apart(side, a.st)

\* Nothing changed but what these names say.
MemOnly(n, S) == DOMAIN n = M!Memory /\ \A x \in M!Memory \ S : n[x] = mem[x]
PgOnly(n, S) == DOMAIN n = P!Postgres /\ \A x \in P!Postgres \ S : n[x] = pg[x]

\* Both stores hold rows of the same kinds, and say what came of a call in the same words.
LEMMA Shared ==
    /\ \A x, e : M!Fail(x, e) = Fail(x, e) /\ P!Fail(x, e) = Fail(x, e)
    /\ \A x : M!Done(x) = Done(x) /\ P!Done(x) = Done(x)
    /\ \A x, v : M!Ok(x, v) = Ok(x, v) /\ P!Ok(x, v) = Ok(x, v)
    /\ \A v : M!Found(v) = Found(v) /\ P!Found(v) = Found(v)
    /\ \A e : M!Missing(e) = Missing(e) /\ P!Missing(e) = Missing(e)
    /\ \A f, k, v : M!Put(f, k, v) = Put(f, k, v)
    /\ \A f, S : M!Without(f, S) = Without(f, S)
    /\ M!None = None /\ P!None = None /\ M!Platform = Platform /\ P!Platform = Platform
    /\ M!NoLimit = NoLimit /\ P!NoLimit = NoLimit
  BY DEF M!Fail, P!Fail, Fail, M!Done, P!Done, Done, M!Ok, P!Ok, Ok, M!Found, P!Found, Found, M!Missing, P!Missing,
         Missing, M!Put, Put, M!Without, Without, M!None, P!None, None, M!Platform, P!Platform, Platform,
         M!NoLimit, P!NoLimit, NoLimit

\* What both stores compute on a row, they compute alike.
LEMMA SharedRows ==
    /\ \A x, c : M!Usable(x, c) = Usable(x, c) /\ P!Usable(x, c) = Usable(x, c)
    /\ \A x, c : M!LiveCertificate(x, c) = LiveCertificate(x, c) /\ P!LiveCertificate(x, c) = LiveCertificate(x, c)
    /\ \A x, c : M!Superseded(x, c) = Superseded(x, c) /\ P!Superseded(x, c) = Superseded(x, c)
    /\ \A x : M!AwaitingApproval(x) = AwaitingApproval(x)
    /\ \A x, c : M!SessionValid(x, c) = SessionValid(x, c)
    /\ \A x, c : M!Notified(x, c) = Notified(x, c) /\ P!Notified(x, c) = Notified(x, c)
    /\ \A x : M!Quieted(x) = Quieted(x) /\ P!Quieted(x) = Quieted(x)
    /\ \A x, c : M!ShareLive(x, c) = ShareLive(x, c)
    /\ \A x : M!NewHost(x) = NewHost(x)
    /\ \A x, c : M!HostCounts(x, c) = HostCounts(x, c) /\ P!HostCounts(x, c) = HostCounts(x, c)
    /\ \A x, c, d : M!TemplateSummary(x, c, d) = TemplateSummary(x, c, d)
                     /\ P!TemplateSummary(x, c, d) = TemplateSummary(x, c, d)
    /\ M!QuietState = QuietState /\ P!QuietState = QuietState
  BY DEF M!Usable, P!Usable, Usable, M!LiveCertificate, P!LiveCertificate, LiveCertificate, M!Superseded, P!Superseded,
         Superseded, M!AwaitingApproval, AwaitingApproval, M!SessionValid, SessionValid, M!Notified, P!Notified, Notified,
         M!Quieted, P!Quieted, Quieted, M!ShareLive, ShareLive, M!NewHost, NewHost, M!HostCounts, P!HostCounts, HostCounts,
         M!TemplateSummary, P!TemplateSummary, TemplateSummary, M!QuietState, P!QuietState, QuietState, M!None, P!None, None

\* A map left alone is the same for every side.
LEMMA SameSelf ==
    ASSUME NEW f, NEW g, NEW t, f = g
    PROVE  SameBeside(f, g, t) /\ SameInKey(f, g, t) /\ \A accounts : SameHeld(f, g, accounts, accounts, t)
  BY DEF SameBeside, SameInKey, SameHeld

\* So is a store left alone.
LEMMA SameItself == ASSUME NEW m, NEW t PROVE SameFor(m, m, t)
  BY SameSelf DEF SameFor

\* A call both stores refuse alike leaves them as they are.
LEMMA RefusedAlike ==
    ASSUME Paired, NEW side, NEW e \in Answers \ {"nil"}, NEW f \in Answers \ {"nil"},
           e = f \/ side \in Tenants \ DOMAIN mem.tenants
    PROVE  Alike(side, Fail(mem, e), Fail(pg, f))
  <1> SUFFICES ASSUME NEW a, NEW b, a = Fail(mem, e), b = Fail(pg, f)
               PROVE  Alike(side, a, b)
    OBVIOUS
  <1>1. a.st = mem /\ b.st = pg /\ a.ans = [err |-> e, val |-> <<>>] /\ b.ans = [err |-> f, val |-> <<>>]
    BY DEF Fail
  <1>2. AnswersAlike(side, a.ans, b.ans)
    BY <1>1 DEF AnswersAlike, Refused
  <1>3. Apart(side, a.st)
    BY <1>1, SameItself DEF Apart
  <1> QED BY <1>1, <1>2, <1>3 DEF Alike, Paired

\* A call both stores accept, with the same value, ends where they end.
LEMMA DoneAlike ==
    ASSUME NEW side, NEW m, NEW db, Lockstep(m, db), Apart(side, m)
    PROVE  /\ Alike(side, Done(m), Done(db))
           /\ \A v : Alike(side, Ok(m, v), Ok(db, v))
  <1>1. ASSUME NEW a, NEW b, a = Done(m), b = Done(db) PROVE Alike(side, a, b)
    <2>1. a.st = m /\ b.st = db /\ a.ans = [err |-> "nil", val |-> <<>>] /\ b.ans = a.ans
      BY <1>1 DEF Done
    <2>2. AnswersAlike(side, a.ans, b.ans)
      BY <2>1 DEF AnswersAlike, Refused, Answers
    <2> QED BY <2>1, <2>2 DEF Alike
  <1>2. ASSUME NEW v, NEW a, NEW b, a = Ok(m, v), b = Ok(db, v) PROVE Alike(side, a, b)
    <2>1. a.st = m /\ b.st = db /\ a.ans = [err |-> "nil", val |-> <<v>>] /\ b.ans = a.ans
      BY <1>2 DEF Ok
    <2>2. AnswersAlike(side, a.ans, b.ans)
      BY <2>1 DEF AnswersAlike, Refused, Answers
    <2> QED BY <2>1, <2>2 DEF Alike
  <1> QED BY <1>1, <1>2

\* A call that is accepted and changes nothing.
LEMMA NothingDone ==
    ASSUME Paired, NEW side
    PROVE  Alike(side, Done(mem), Done(pg)) /\ \A v : Alike(side, Ok(mem, v), Ok(pg, v))
  <1>1. Apart(side, mem)
    BY SameItself DEF Apart
  <1> QED BY <1>1, DoneAlike DEF Paired
-----------------------------------------------------------------------------
(* Maps. *)

\* A map stays of its kind as one value goes in, or some go out.
LEMMA PutKeeps ==
    ASSUME NEW f, NEW K, NEW V, MapsTo(f, K, V), NEW k \in K, NEW v \in V
    PROVE  MapsTo(Put(f, k, v), K, V)
  BY DEF MapsTo, Put

\* The same as keys go out.
LEMMA WithoutKeeps ==
    ASSUME NEW f, NEW K, NEW V, MapsTo(f, K, V), NEW S
    PROVE  MapsTo(Without(f, S), K, V)
  BY DEF MapsTo, Without

\* It stays finite as one goes in ...
LEMMA PutFinite ==
    ASSUME NEW f, NEW k, NEW v, IsFiniteSet(DOMAIN f)
    PROVE  IsFiniteSet(DOMAIN Put(f, k, v))
  BY FS_AddElement DEF Put

\* ... or some go out.
LEMMA WithoutFinite ==
    ASSUME NEW f, NEW S, IsFiniteSet(DOMAIN f)
    PROVE  IsFiniteSet(DOMAIN Without(f, S))
  <1>1. DOMAIN Without(f, S) \in SUBSET DOMAIN f
    BY DEF Without
  <1> QED BY <1>1, FS_Subset

\* One map leaves the rows of a side as another had them.
LEMMA BesideSame ==
    ASSUME NEW f, NEW g, NEW t,
           \A k \in DOMAIN f : f[k].tenant = t => k \in DOMAIN g /\ g[k] = f[k],
           \A k \in DOMAIN g : g[k].tenant = t => k \in DOMAIN f /\ g[k] = f[k]
    PROVE  SameBeside(f, g, t)
  BY DEF SameBeside, M!Beside

\* The same of maps with the side in the key.
LEMMA InKeySame ==
    ASSUME NEW f, NEW g, NEW t,
           \A k \in DOMAIN f : k[1] = t => k \in DOMAIN g /\ g[k] = f[k],
           \A k \in DOMAIN g : k[1] = t => k \in DOMAIN f /\ g[k] = f[k]
    PROVE  SameInKey(f, g, t)
  BY DEF SameInKey, M!InKey

\* A value put under a key of one side's is nothing to another.
LEMMA PutApart ==
    ASSUME NEW f, NEW k, NEW v, NEW t
    PROVE  /\ k \notin DOMAIN f /\ v.tenant # t => SameBeside(f, Put(f, k, v), t)
           /\ k[1] # t => SameInKey(f, Put(f, k, v), t)
  <1>1. ASSUME k \notin DOMAIN f, v.tenant # t PROVE SameBeside(f, Put(f, k, v), t)
    BY <1>1, BesideSame DEF Put
  <1>2. ASSUME k[1] # t PROVE SameInKey(f, Put(f, k, v), t)
    BY <1>2, InKeySame DEF Put
  <1> QED BY <1>1, <1>2

\* Nor is one taken away.
LEMMA WithoutApart ==
    ASSUME NEW f, NEW S, NEW t
    PROVE  /\ (\A k \in DOMAIN f \cap S : f[k].tenant # t) => SameBeside(f, Without(f, S), t)
           /\ (\A k \in DOMAIN f \cap S : k[1] # t) => SameInKey(f, Without(f, S), t)
  <1>1. ASSUME \A k \in DOMAIN f \cap S : f[k].tenant # t PROVE SameBeside(f, Without(f, S), t)
    BY <1>1, BesideSame DEF Without
  <1>2. ASSUME \A k \in DOMAIN f \cap S : k[1] # t PROVE SameInKey(f, Without(f, S), t)
    BY <1>2, InKeySame DEF Without
  <1> QED BY <1>1, <1>2

-----------------------------------------------------------------------------
(* What remains to be shown of a call that changes one part. *)

\* What holds of some fleets' rows holds when there are more fleets.
LEMMA FleetsGrow ==
    ASSUME NEW fleets, NEW more, fleets \subseteq more
    PROVE  /\ \A f : TokensGood(f, fleets) => TokensGood(f, more)
           /\ \A f : HostsGood(f, fleets) => HostsGood(f, more)
           /\ \A f, archived : TemplatesGood(f, archived, fleets) => TemplatesGood(f, archived, more)
           /\ \A f, c, d : EventsGood(f, fleets, c, d) => EventsGood(f, more, c, d)
           /\ \A f, c : TransitionsGood(f, fleets, c) => TransitionsGood(f, more, c)
           /\ \A f, states : RulesGood(f, states, fleets) => RulesGood(f, states, more)
           /\ \A f : AccountsGood(f, fleets) => AccountsGood(f, more)
           /\ \A f : SharesGood(f, fleets) => SharesGood(f, more)
  <1>1. \A f : TokensGood(f, fleets) => TokensGood(f, more)
    BY DEF TokensGood
  <1>2. \A f : HostsGood(f, fleets) => HostsGood(f, more)
    BY DEF HostsGood
  <1>3. \A f, archived : TemplatesGood(f, archived, fleets) => TemplatesGood(f, archived, more)
    BY DEF TemplatesGood
  <1>4. \A f, c, d : EventsGood(f, fleets, c, d) => EventsGood(f, more, c, d)
    BY DEF EventsGood
  <1>5. \A f, c : TransitionsGood(f, fleets, c) => TransitionsGood(f, more, c)
    BY DEF TransitionsGood
  <1>6. \A f, states : RulesGood(f, states, fleets) => RulesGood(f, states, more)
    BY DEF RulesGood
  <1>7. \A f : AccountsGood(f, fleets) => AccountsGood(f, more)
    BY DEF AccountsGood
  <1>8. \A f : SharesGood(f, fleets) => SharesGood(f, more)
    BY DEF SharesGood
  <1> QED BY <1>1, <1>2, <1>3, <1>4, <1>5, <1>6, <1>7, <1>8

\* What hangs from some hosts hangs from more of them.
LEMMA HomesGrow ==
    ASSUME NEW homes, NEW more, homes \subseteq more
    PROVE  /\ \A f : CertsGood(f, homes) => CertsGood(f, more)
           /\ \A q, r, s : JobsGood(q, r, s, homes) => JobsGood(q, r, s, more)
  <1>1. \A f : CertsGood(f, homes) => CertsGood(f, more)
    BY DEF CertsGood
  <1>2. \A q, r, s : JobsGood(q, r, s, homes) => JobsGood(q, r, s, more)
    BY DEF JobsGood
  <1> QED BY <1>1, <1>2

\* More fleets, or other settings of theirs.
LEMMA TenantsOnly ==
    ASSUME Paired, NEW side, NEW n, NEW db, MemOnly(n, {"tenants"}), PgOnly(db, {"tenants"}),
           DOMAIN mem.tenants \subseteq DOMAIN n.tenants,
           MapsTo(n.tenants, Tenants, Tenant), db.tenants = Keyed(n.tenants)
    PROVE  Lockstep(n, db) /\ Apart(side, n)
  <1>1. /\ n.tokens = mem.tokens /\ n.hosts = mem.hosts /\ n.certs = mem.certs /\ n.jobs = mem.jobs
           /\ n.records = mem.records /\ n.results = mem.results /\ n.templates = mem.templates
           /\ n.archivedTemplates = mem.archivedTemplates /\ n.events = mem.events
           /\ n.transitions = mem.transitions /\ n.rules = mem.rules /\ n.states = mem.states
           /\ n.accounts = mem.accounts /\ n.sessions = mem.sessions /\ n.apiTokens = mem.apiTokens
           /\ n.shares = mem.shares
        /\ DOMAIN n = M!Memory
    BY DEF MemOnly, M!Memory
  <1>2. /\ db.enrollment_tokens = pg.enrollment_tokens /\ db.hosts = pg.hosts
           /\ db.certificates = pg.certificates /\ db.jobs = pg.jobs /\ db.job_results = pg.job_results
           /\ db.templates = pg.templates /\ db.template_archivals = pg.template_archivals
           /\ db.events = pg.events /\ db.unit_transitions = pg.unit_transitions
           /\ db.alert_rules = pg.alert_rules /\ db.alert_states = pg.alert_states
           /\ db.accounts = pg.accounts /\ db.sessions = pg.sessions /\ db.api_tokens = pg.api_tokens
           /\ db.wallboard_shares = pg.wallboard_shares
        /\ DOMAIN db = P!Postgres
    BY DEF PgOnly, P!Postgres
  <1>3. /\ TokensGood(mem.tokens, DOMAIN n.tenants) /\ HostsGood(mem.hosts, DOMAIN n.tenants)
        /\ TemplatesGood(mem.templates, mem.archivedTemplates, DOMAIN n.tenants)
        /\ EventsGood(mem.events, DOMAIN n.tenants, now, drawn)
        /\ TransitionsGood(mem.transitions, DOMAIN n.tenants, now)
        /\ RulesGood(mem.rules, mem.states, DOMAIN n.tenants)
        /\ AccountsGood(mem.accounts, DOMAIN n.tenants) /\ SharesGood(mem.shares, DOMAIN n.tenants)
    BY FleetsGrow DEF Paired, Lockstep, Good
  <1>4. Good(n, now, drawn)
    BY <1>1, <1>3 DEF Paired, Lockstep, Good
  <1>5. Mirrors(n, db)
    BY <1>1, <1>2 DEF Paired, Lockstep, Mirrors
  <1>6. Apart(side, n)
    BY <1>1, SameSelf DEF Apart, SameFor
  <1> QED BY <1>4, <1>5, <1>6 DEF Lockstep

\* Enrolment tokens.
LEMMA TokensOnly ==
    ASSUME Paired, NEW side, NEW n, NEW db, MemOnly(n, {"tokens"}), PgOnly(db, {"enrollment_tokens"}),
           TokensGood(n.tokens, DOMAIN mem.tenants), db.enrollment_tokens = Owned(n.tokens),
           \A t \in Sides : t # side => SameBeside(mem.tokens, n.tokens, t)
    PROVE  Lockstep(n, db) /\ Apart(side, n)
  <1>1. /\ n.tenants = mem.tenants /\ n.hosts = mem.hosts /\ n.certs = mem.certs /\ n.jobs = mem.jobs
           /\ n.records = mem.records /\ n.results = mem.results /\ n.templates = mem.templates
           /\ n.archivedTemplates = mem.archivedTemplates /\ n.events = mem.events
           /\ n.transitions = mem.transitions /\ n.rules = mem.rules /\ n.states = mem.states
           /\ n.accounts = mem.accounts /\ n.sessions = mem.sessions /\ n.apiTokens = mem.apiTokens
           /\ n.shares = mem.shares
        /\ DOMAIN n = M!Memory
    BY DEF MemOnly, M!Memory
  <1>2. /\ db.tenants = pg.tenants /\ db.hosts = pg.hosts /\ db.certificates = pg.certificates
           /\ db.jobs = pg.jobs /\ db.job_results = pg.job_results /\ db.templates = pg.templates
           /\ db.template_archivals = pg.template_archivals /\ db.events = pg.events
           /\ db.unit_transitions = pg.unit_transitions /\ db.alert_rules = pg.alert_rules
           /\ db.alert_states = pg.alert_states /\ db.accounts = pg.accounts /\ db.sessions = pg.sessions
           /\ db.api_tokens = pg.api_tokens /\ db.wallboard_shares = pg.wallboard_shares
        /\ DOMAIN db = P!Postgres
    BY DEF PgOnly, P!Postgres
  <1>3. Good(n, now, drawn)
    BY <1>1 DEF Paired, Lockstep, Good
  <1>4. Mirrors(n, db)
    BY <1>1, <1>2 DEF Paired, Lockstep, Mirrors
  <1>5. Apart(side, n)
    BY <1>1, SameSelf DEF Apart, SameFor
  <1> QED BY <1>3, <1>4, <1>5 DEF Lockstep

\* Hosts and their certificates, no host going.
LEMMA HostsOnly ==
    ASSUME Paired, NEW side, NEW n, NEW db, MemOnly(n, {"hosts", "certs"}), PgOnly(db, {"hosts", "certificates"}),
           HostsGood(n.hosts, DOMAIN mem.tenants), CertsGood(n.certs, Homes(n.hosts)),
           Homes(mem.hosts) \subseteq Homes(n.hosts),
           Visible(mem.transitions, Homes(n.hosts)) = Visible(mem.transitions, Homes(mem.hosts)),
           db.hosts = Owned(n.hosts), db.certificates = Owned(n.certs),
           \A t \in Sides : t # side => SameBeside(mem.hosts, n.hosts, t) /\ SameBeside(mem.certs, n.certs, t)
    PROVE  Lockstep(n, db) /\ Apart(side, n)
  <1>1. /\ n.tenants = mem.tenants /\ n.tokens = mem.tokens /\ n.jobs = mem.jobs /\ n.records = mem.records
           /\ n.results = mem.results /\ n.templates = mem.templates
           /\ n.archivedTemplates = mem.archivedTemplates /\ n.events = mem.events
           /\ n.transitions = mem.transitions /\ n.rules = mem.rules /\ n.states = mem.states
           /\ n.accounts = mem.accounts /\ n.sessions = mem.sessions /\ n.apiTokens = mem.apiTokens
           /\ n.shares = mem.shares
        /\ DOMAIN n = M!Memory
    BY DEF MemOnly, M!Memory
  <1>2. /\ db.tenants = pg.tenants /\ db.enrollment_tokens = pg.enrollment_tokens /\ db.jobs = pg.jobs
           /\ db.job_results = pg.job_results /\ db.templates = pg.templates
           /\ db.template_archivals = pg.template_archivals /\ db.events = pg.events
           /\ db.unit_transitions = pg.unit_transitions /\ db.alert_rules = pg.alert_rules
           /\ db.alert_states = pg.alert_states /\ db.accounts = pg.accounts /\ db.sessions = pg.sessions
           /\ db.api_tokens = pg.api_tokens /\ db.wallboard_shares = pg.wallboard_shares
        /\ DOMAIN db = P!Postgres
    BY DEF PgOnly, P!Postgres
  <1>3. JobsGood(mem.jobs, mem.records, mem.results, Homes(n.hosts))
    BY HomesGrow DEF Paired, Lockstep, Good
  <1>4. HistoryTable(mem.transitions, Homes(n.hosts)) = HistoryTable(mem.transitions, Homes(mem.hosts))
    BY DEF HistoryTable
  <1>5. Good(n, now, drawn)
    BY <1>1, <1>3 DEF Paired, Lockstep, Good
  <1>6. Mirrors(n, db)
    BY <1>1, <1>2, <1>4 DEF Paired, Lockstep, Mirrors
  <1>7. Apart(side, n)
    BY <1>1, SameSelf DEF Apart, SameFor
  <1> QED BY <1>5, <1>6, <1>7 DEF Lockstep

\* Jobs, their queues and their results.
LEMMA JobsOnly ==
    ASSUME Paired, NEW side, NEW n, NEW db, MemOnly(n, {"jobs", "records", "results"}), PgOnly(db, {"jobs", "job_results"}),
           JobsGood(n.jobs, n.records, n.results, Homes(mem.hosts)),
           db.jobs = Inside(n.records), db.job_results = Inside(n.results),
           \A t \in Sides : t # side => SameInKey(mem.records, n.records, t) /\ SameInKey(mem.results, n.results, t)
    PROVE  Lockstep(n, db) /\ Apart(side, n)
  <1>1. /\ n.tenants = mem.tenants /\ n.tokens = mem.tokens /\ n.hosts = mem.hosts /\ n.certs = mem.certs
           /\ n.templates = mem.templates /\ n.archivedTemplates = mem.archivedTemplates
           /\ n.events = mem.events /\ n.transitions = mem.transitions /\ n.rules = mem.rules
           /\ n.states = mem.states /\ n.accounts = mem.accounts /\ n.sessions = mem.sessions
           /\ n.apiTokens = mem.apiTokens /\ n.shares = mem.shares
        /\ DOMAIN n = M!Memory
    BY DEF MemOnly, M!Memory
  <1>2. /\ db.tenants = pg.tenants /\ db.enrollment_tokens = pg.enrollment_tokens /\ db.hosts = pg.hosts
           /\ db.certificates = pg.certificates /\ db.templates = pg.templates
           /\ db.template_archivals = pg.template_archivals /\ db.events = pg.events
           /\ db.unit_transitions = pg.unit_transitions /\ db.alert_rules = pg.alert_rules
           /\ db.alert_states = pg.alert_states /\ db.accounts = pg.accounts /\ db.sessions = pg.sessions
           /\ db.api_tokens = pg.api_tokens /\ db.wallboard_shares = pg.wallboard_shares
        /\ DOMAIN db = P!Postgres
    BY DEF PgOnly, P!Postgres
  <1>3. Good(n, now, drawn)
    BY <1>1 DEF Paired, Lockstep, Good
  <1>4. Mirrors(n, db)
    BY <1>1, <1>2 DEF Paired, Lockstep, Mirrors
  <1>5. Apart(side, n)
    BY <1>1, SameSelf DEF Apart, SameFor
  <1> QED BY <1>3, <1>4, <1>5 DEF Lockstep

\* Templates.
LEMMA TemplatesOnly ==
    ASSUME Paired, NEW side, NEW n, NEW db, MemOnly(n, {"templates", "archivedTemplates"}), PgOnly(db, {"templates", "template_archivals"}),
           TemplatesGood(n.templates, n.archivedTemplates, DOMAIN mem.tenants),
           db.templates = InsideTwice(n.templates), db.template_archivals = Inside(n.archivedTemplates),
           \A t \in Sides : t # side => /\ SameInKey(mem.templates, n.templates, t)
                                       /\ SameInKey(mem.archivedTemplates, n.archivedTemplates, t)
    PROVE  Lockstep(n, db) /\ Apart(side, n)
  <1>1. /\ n.tenants = mem.tenants /\ n.tokens = mem.tokens /\ n.hosts = mem.hosts /\ n.certs = mem.certs
           /\ n.jobs = mem.jobs /\ n.records = mem.records /\ n.results = mem.results /\ n.events = mem.events
           /\ n.transitions = mem.transitions /\ n.rules = mem.rules /\ n.states = mem.states
           /\ n.accounts = mem.accounts /\ n.sessions = mem.sessions /\ n.apiTokens = mem.apiTokens
           /\ n.shares = mem.shares
        /\ DOMAIN n = M!Memory
    BY DEF MemOnly, M!Memory
  <1>2. /\ db.tenants = pg.tenants /\ db.enrollment_tokens = pg.enrollment_tokens /\ db.hosts = pg.hosts
           /\ db.certificates = pg.certificates /\ db.jobs = pg.jobs /\ db.job_results = pg.job_results
           /\ db.events = pg.events /\ db.unit_transitions = pg.unit_transitions
           /\ db.alert_rules = pg.alert_rules /\ db.alert_states = pg.alert_states
           /\ db.accounts = pg.accounts /\ db.sessions = pg.sessions /\ db.api_tokens = pg.api_tokens
           /\ db.wallboard_shares = pg.wallboard_shares
        /\ DOMAIN db = P!Postgres
    BY DEF PgOnly, P!Postgres
  <1>3. Good(n, now, drawn)
    BY <1>1 DEF Paired, Lockstep, Good
  <1>4. Mirrors(n, db)
    BY <1>1, <1>2 DEF Paired, Lockstep, Mirrors
  <1>5. Apart(side, n)
    BY <1>1, SameSelf DEF Apart, SameFor
  <1> QED BY <1>3, <1>4, <1>5 DEF Lockstep

\* Events, of which one more was drawn.
LEMMA EventsOnly ==
    ASSUME Paired, NEW side, NEW n, NEW db, MemOnly(n, {"events"}), PgOnly(db, {"events"}),
           EventsGood(n.events, DOMAIN mem.tenants, now, drawn + 1),
           db.events = {EventRow(n.events[i]) : i \in DOMAIN n.events},
           \A t \in Sides : t # side => SameBeside(mem.events, n.events, t)
    PROVE  Good(n, now, drawn + 1) /\ Mirrors(n, db) /\ Apart(side, n)
  <1>1. /\ n.tenants = mem.tenants /\ n.tokens = mem.tokens /\ n.hosts = mem.hosts /\ n.certs = mem.certs
           /\ n.jobs = mem.jobs /\ n.records = mem.records /\ n.results = mem.results
           /\ n.templates = mem.templates /\ n.archivedTemplates = mem.archivedTemplates
           /\ n.transitions = mem.transitions /\ n.rules = mem.rules /\ n.states = mem.states
           /\ n.accounts = mem.accounts /\ n.sessions = mem.sessions /\ n.apiTokens = mem.apiTokens
           /\ n.shares = mem.shares
        /\ DOMAIN n = M!Memory
    BY DEF MemOnly, M!Memory
  <1>2. /\ db.tenants = pg.tenants /\ db.enrollment_tokens = pg.enrollment_tokens /\ db.hosts = pg.hosts
           /\ db.certificates = pg.certificates /\ db.jobs = pg.jobs /\ db.job_results = pg.job_results
           /\ db.templates = pg.templates /\ db.template_archivals = pg.template_archivals
           /\ db.unit_transitions = pg.unit_transitions /\ db.alert_rules = pg.alert_rules
           /\ db.alert_states = pg.alert_states /\ db.accounts = pg.accounts /\ db.sessions = pg.sessions
           /\ db.api_tokens = pg.api_tokens /\ db.wallboard_shares = pg.wallboard_shares
        /\ DOMAIN db = P!Postgres
    BY DEF PgOnly, P!Postgres
  <1>3. Good(n, now, drawn + 1)
    BY <1>1 DEF Paired, Lockstep, Good
  <1>4. Mirrors(n, db)
    BY <1>1, <1>2 DEF Paired, Lockstep, Mirrors
  <1>5. Apart(side, n)
    BY <1>1, SameSelf DEF Apart, SameFor
  <1> QED BY <1>3, <1>4, <1>5 DEF Lockstep

\* Unit histories.
LEMMA TransitionsOnly ==
    ASSUME Paired, NEW side, NEW n, NEW db, MemOnly(n, {"transitions"}), PgOnly(db, {"unit_transitions"}),
           TransitionsGood(n.transitions, DOMAIN mem.tenants, now),
           db.unit_transitions = HistoryTable(n.transitions, Homes(mem.hosts)),
           \A t \in Sides : t # side => SameBeside(mem.transitions, n.transitions, t)
    PROVE  Lockstep(n, db) /\ Apart(side, n)
  <1>1. /\ n.tenants = mem.tenants /\ n.tokens = mem.tokens /\ n.hosts = mem.hosts /\ n.certs = mem.certs
           /\ n.jobs = mem.jobs /\ n.records = mem.records /\ n.results = mem.results
           /\ n.templates = mem.templates /\ n.archivedTemplates = mem.archivedTemplates
           /\ n.events = mem.events /\ n.rules = mem.rules /\ n.states = mem.states
           /\ n.accounts = mem.accounts /\ n.sessions = mem.sessions /\ n.apiTokens = mem.apiTokens
           /\ n.shares = mem.shares
        /\ DOMAIN n = M!Memory
    BY DEF MemOnly, M!Memory
  <1>2. /\ db.tenants = pg.tenants /\ db.enrollment_tokens = pg.enrollment_tokens /\ db.hosts = pg.hosts
           /\ db.certificates = pg.certificates /\ db.jobs = pg.jobs /\ db.job_results = pg.job_results
           /\ db.templates = pg.templates /\ db.template_archivals = pg.template_archivals
           /\ db.events = pg.events /\ db.alert_rules = pg.alert_rules /\ db.alert_states = pg.alert_states
           /\ db.accounts = pg.accounts /\ db.sessions = pg.sessions /\ db.api_tokens = pg.api_tokens
           /\ db.wallboard_shares = pg.wallboard_shares
        /\ DOMAIN db = P!Postgres
    BY DEF PgOnly, P!Postgres
  <1>3. Good(n, now, drawn)
    BY <1>1 DEF Paired, Lockstep, Good
  <1>4. Mirrors(n, db)
    BY <1>1, <1>2 DEF Paired, Lockstep, Mirrors
  <1>5. Apart(side, n)
    BY <1>1, SameSelf DEF Apart, SameFor
  <1> QED BY <1>3, <1>4, <1>5 DEF Lockstep

\* Alert rules and what the evaluator remembers.
LEMMA RulesOnly ==
    ASSUME Paired, NEW side, NEW n, NEW db, MemOnly(n, {"rules", "states"}), PgOnly(db, {"alert_rules", "alert_states"}),
           RulesGood(n.rules, n.states, DOMAIN mem.tenants),
           db.alert_rules = Inside(n.rules), db.alert_states = InsideTwice(n.states),
           \A t \in Sides : t # side => SameInKey(mem.rules, n.rules, t) /\ SameInKey(mem.states, n.states, t)
    PROVE  Lockstep(n, db) /\ Apart(side, n)
  <1>1. /\ n.tenants = mem.tenants /\ n.tokens = mem.tokens /\ n.hosts = mem.hosts /\ n.certs = mem.certs
           /\ n.jobs = mem.jobs /\ n.records = mem.records /\ n.results = mem.results
           /\ n.templates = mem.templates /\ n.archivedTemplates = mem.archivedTemplates
           /\ n.events = mem.events /\ n.transitions = mem.transitions /\ n.accounts = mem.accounts
           /\ n.sessions = mem.sessions /\ n.apiTokens = mem.apiTokens /\ n.shares = mem.shares
        /\ DOMAIN n = M!Memory
    BY DEF MemOnly, M!Memory
  <1>2. /\ db.tenants = pg.tenants /\ db.enrollment_tokens = pg.enrollment_tokens /\ db.hosts = pg.hosts
           /\ db.certificates = pg.certificates /\ db.jobs = pg.jobs /\ db.job_results = pg.job_results
           /\ db.templates = pg.templates /\ db.template_archivals = pg.template_archivals
           /\ db.events = pg.events /\ db.unit_transitions = pg.unit_transitions /\ db.accounts = pg.accounts
           /\ db.sessions = pg.sessions /\ db.api_tokens = pg.api_tokens
           /\ db.wallboard_shares = pg.wallboard_shares
        /\ DOMAIN db = P!Postgres
    BY DEF PgOnly, P!Postgres
  <1>3. Good(n, now, drawn)
    BY <1>1 DEF Paired, Lockstep, Good
  <1>4. Mirrors(n, db)
    BY <1>1, <1>2 DEF Paired, Lockstep, Mirrors
  <1>5. Apart(side, n)
    BY <1>1, SameSelf DEF Apart, SameFor
  <1> QED BY <1>3, <1>4, <1>5 DEF Lockstep

\* Accounts, none of them going.
LEMMA AccountsOnly ==
    ASSUME Paired, NEW side, NEW n, NEW db, MemOnly(n, {"accounts"}), PgOnly(db, {"accounts"}),
           AccountsGood(n.accounts, DOMAIN mem.tenants), DOMAIN mem.accounts \subseteq DOMAIN n.accounts,
           db.accounts = Owned(n.accounts),
           \A t \in Sides : t # side => SameBeside(mem.accounts, n.accounts, t)
    PROVE  Lockstep(n, db) /\ Apart(side, n)
  <1>1. /\ n.tenants = mem.tenants /\ n.tokens = mem.tokens /\ n.hosts = mem.hosts /\ n.certs = mem.certs
           /\ n.jobs = mem.jobs /\ n.records = mem.records /\ n.results = mem.results
           /\ n.templates = mem.templates /\ n.archivedTemplates = mem.archivedTemplates
           /\ n.events = mem.events /\ n.transitions = mem.transitions /\ n.rules = mem.rules
           /\ n.states = mem.states /\ n.sessions = mem.sessions /\ n.apiTokens = mem.apiTokens
           /\ n.shares = mem.shares
        /\ DOMAIN n = M!Memory
    BY DEF MemOnly, M!Memory
  <1>2. /\ db.tenants = pg.tenants /\ db.enrollment_tokens = pg.enrollment_tokens /\ db.hosts = pg.hosts
           /\ db.certificates = pg.certificates /\ db.jobs = pg.jobs /\ db.job_results = pg.job_results
           /\ db.templates = pg.templates /\ db.template_archivals = pg.template_archivals
           /\ db.events = pg.events /\ db.unit_transitions = pg.unit_transitions
           /\ db.alert_rules = pg.alert_rules /\ db.alert_states = pg.alert_states
           /\ db.sessions = pg.sessions /\ db.api_tokens = pg.api_tokens
           /\ db.wallboard_shares = pg.wallboard_shares
        /\ DOMAIN db = P!Postgres
    BY DEF PgOnly, P!Postgres
  <1>3. CredentialsGood(mem.sessions, mem.apiTokens, DOMAIN n.accounts)
    BY DEF Paired, Lockstep, Good, CredentialsGood
  <1>4. Good(n, now, drawn)
    BY <1>1, <1>3 DEF Paired, Lockstep, Good
  <1>5. Mirrors(n, db)
    BY <1>1, <1>2 DEF Paired, Lockstep, Mirrors
  <1>6. Apart(side, n)
    <2> SUFFICES ASSUME NEW t \in Sides, t # side PROVE SameFor(mem, n, t)
      BY DEF Apart
    <2>1. \A f : SameHeld(f, f, mem.accounts, n.accounts, t)
      BY DEF SameHeld, HeldBy, SameBeside
    <2> QED BY <1>1, <2>1, SameSelf DEF SameFor
  <1> QED BY <1>4, <1>5, <1>6 DEF Lockstep

\* Sessions and API tokens.
LEMMA CredentialsOnly ==
    ASSUME Paired, NEW side, NEW n, NEW db, MemOnly(n, {"sessions", "apiTokens"}), PgOnly(db, {"sessions", "api_tokens"}),
           CredentialsGood(n.sessions, n.apiTokens, DOMAIN mem.accounts),
           db.sessions = Keyed(n.sessions), db.api_tokens = Keyed(n.apiTokens),
           \A t \in Sides : t # side => /\ SameHeld(mem.sessions, n.sessions, mem.accounts, mem.accounts, t)
                                       /\ SameHeld(mem.apiTokens, n.apiTokens, mem.accounts, mem.accounts, t)
    PROVE  Lockstep(n, db) /\ Apart(side, n)
  <1>1. /\ n.tenants = mem.tenants /\ n.tokens = mem.tokens /\ n.hosts = mem.hosts /\ n.certs = mem.certs
           /\ n.jobs = mem.jobs /\ n.records = mem.records /\ n.results = mem.results
           /\ n.templates = mem.templates /\ n.archivedTemplates = mem.archivedTemplates
           /\ n.events = mem.events /\ n.transitions = mem.transitions /\ n.rules = mem.rules
           /\ n.states = mem.states /\ n.accounts = mem.accounts /\ n.shares = mem.shares
        /\ DOMAIN n = M!Memory
    BY DEF MemOnly, M!Memory
  <1>2. /\ db.tenants = pg.tenants /\ db.enrollment_tokens = pg.enrollment_tokens /\ db.hosts = pg.hosts
           /\ db.certificates = pg.certificates /\ db.jobs = pg.jobs /\ db.job_results = pg.job_results
           /\ db.templates = pg.templates /\ db.template_archivals = pg.template_archivals
           /\ db.events = pg.events /\ db.unit_transitions = pg.unit_transitions
           /\ db.alert_rules = pg.alert_rules /\ db.alert_states = pg.alert_states
           /\ db.accounts = pg.accounts /\ db.wallboard_shares = pg.wallboard_shares
        /\ DOMAIN db = P!Postgres
    BY DEF PgOnly, P!Postgres
  <1>3. Good(n, now, drawn)
    BY <1>1 DEF Paired, Lockstep, Good
  <1>4. Mirrors(n, db)
    BY <1>1, <1>2 DEF Paired, Lockstep, Mirrors
  <1>5. Apart(side, n)
    BY <1>1, SameSelf DEF Apart, SameFor
  <1> QED BY <1>3, <1>4, <1>5 DEF Lockstep

\* Wallboard shares.
LEMMA SharesOnly ==
    ASSUME Paired, NEW side, NEW n, NEW db, MemOnly(n, {"shares"}), PgOnly(db, {"wallboard_shares"}),
           SharesGood(n.shares, DOMAIN mem.tenants), db.wallboard_shares = Owned(n.shares),
           \A t \in Sides : t # side => SameBeside(mem.shares, n.shares, t)
    PROVE  Lockstep(n, db) /\ Apart(side, n)
  <1>1. /\ n.tenants = mem.tenants /\ n.tokens = mem.tokens /\ n.hosts = mem.hosts /\ n.certs = mem.certs
           /\ n.jobs = mem.jobs /\ n.records = mem.records /\ n.results = mem.results
           /\ n.templates = mem.templates /\ n.archivedTemplates = mem.archivedTemplates
           /\ n.events = mem.events /\ n.transitions = mem.transitions /\ n.rules = mem.rules
           /\ n.states = mem.states /\ n.accounts = mem.accounts /\ n.sessions = mem.sessions
           /\ n.apiTokens = mem.apiTokens
        /\ DOMAIN n = M!Memory
    BY DEF MemOnly, M!Memory
  <1>2. /\ db.tenants = pg.tenants /\ db.enrollment_tokens = pg.enrollment_tokens /\ db.hosts = pg.hosts
           /\ db.certificates = pg.certificates /\ db.jobs = pg.jobs /\ db.job_results = pg.job_results
           /\ db.templates = pg.templates /\ db.template_archivals = pg.template_archivals
           /\ db.events = pg.events /\ db.unit_transitions = pg.unit_transitions
           /\ db.alert_rules = pg.alert_rules /\ db.alert_states = pg.alert_states
           /\ db.accounts = pg.accounts /\ db.sessions = pg.sessions /\ db.api_tokens = pg.api_tokens
        /\ DOMAIN db = P!Postgres
    BY DEF PgOnly, P!Postgres
  <1>3. Good(n, now, drawn)
    BY <1>1 DEF Paired, Lockstep, Good
  <1>4. Mirrors(n, db)
    BY <1>1, <1>2 DEF Paired, Lockstep, Mirrors
  <1>5. Apart(side, n)
    BY <1>1, SameSelf DEF Apart, SameFor
  <1> QED BY <1>3, <1>4, <1>5 DEF Lockstep

\* A row of an owned map rewritten: its owner stays, and so do the others.
SetRow(f, k, v) == [f EXCEPT ![k].row = v]

\* What rewriting a row of an owned map does.
LEMMA OwnedSet ==
    ASSUME NEW f, NEW K, NEW A, NEW R, MapsTo(f, K, Belonging(A, R)), NEW k \in DOMAIN f, NEW v \in R
    PROVE  /\ DOMAIN SetRow(f, k, v) = DOMAIN f
           /\ SetRow(f, k, v)[k].tenant = f[k].tenant /\ SetRow(f, k, v)[k].row = v
           /\ \A x \in DOMAIN f : x # k => SetRow(f, k, v)[x] = f[x]
           /\ \A x \in DOMAIN f : SetRow(f, k, v)[x].tenant = f[x].tenant
           /\ MapsTo(SetRow(f, k, v), K, Belonging(A, R))
           /\ \A t : t # f[k].tenant => SameBeside(f, SetRow(f, k, v), t)
  <1> DEFINE g == SetRow(f, k, v)
  <1>1. f[k] \in Belonging(A, R)
    BY DEF MapsTo
  <1>2. DOMAIN g = DOMAIN f /\ g[k].tenant = f[k].tenant /\ g[k].row = v /\ g[k] \in Belonging(A, R)
    BY <1>1 DEF SetRow, Belonging
  <1>3. \A x \in DOMAIN f : x # k => g[x] = f[x]
    BY DEF SetRow
  <1> HIDE DEF g
  <1>4. MapsTo(g, K, Belonging(A, R))
    BY <1>2, <1>3 DEF MapsTo
  <1>5. ASSUME NEW t, t # f[k].tenant PROVE SameBeside(f, g, t)
    BY <1>2, <1>3, <1>5, BesideSame
  <1> QED BY <1>2, <1>3, <1>4, <1>5 DEF g

\* The UPDATE of that one row of its table.
LEMMA OwnedUpdated ==
    ASSUME NEW f, NEW K, NEW A, NEW R, MapsTo(f, K, Belonging(A, R)), NEW k \in DOMAIN f, NEW v \in R, NEW u,
           \A r \in Owned(f) : r.id = k /\ r.tenant = f[k].tenant /\ r.row = f[k].row => u[r] = NewRow(r, v),
           \A r \in Owned(f) : r.id # k => u[r] = r
    PROVE  Rewrites(u, Owned(f)) = Owned(SetRow(f, k, v))
  <1> DEFINE g == SetRow(f, k, v)
  <1>1. /\ DOMAIN g = DOMAIN f /\ g[k].tenant = f[k].tenant /\ g[k].row = v
        /\ \A x \in DOMAIN f : x # k => g[x] = f[x]
    BY OwnedSet
  <1> HIDE DEF g
  <1>2. \A x \in DOMAIN f : OwnedRow(f, x) \in Owned(f)
    BY Tables
  <1>3. \A x \in DOMAIN f : OwnedRow(f, x).id = x /\ OwnedRow(f, x).tenant = f[x].tenant /\ OwnedRow(f, x).row = f[x].row
    BY DEF OwnedRow
  <1>4. u[OwnedRow(f, k)] = OwnedRow(g, k)
    BY <1>1, <1>2, <1>3, Rewritten
  <1>5. \A x \in DOMAIN f : x # k => u[OwnedRow(f, x)] = OwnedRow(g, x)
    BY <1>1, <1>2, <1>3, SameRow
  <1>6. \A x \in DOMAIN f : u[OwnedRow(f, x)] = OwnedRow(g, x)
    BY <1>4, <1>5
  <1>7. DOMAIN g = DOMAIN f
    BY <1>1
  <1>8. Rewrites(u, Owned(f)) = Owned(g)
    BY ONLY <1>6, <1>7, Mapped
  <1> QED BY <1>8 DEF g

\* The same of a map that carries the owner in the key.
SetAt(f, k, v) == [f EXCEPT ![k] = v]

\* What rewriting a value does.
LEMMA AtSet ==
    ASSUME NEW f, NEW K, NEW R, MapsTo(f, K, R), NEW k \in DOMAIN f, NEW v \in R
    PROVE  /\ DOMAIN SetAt(f, k, v) = DOMAIN f /\ SetAt(f, k, v)[k] = v
           /\ \A x \in DOMAIN f : x # k => SetAt(f, k, v)[x] = f[x]
           /\ MapsTo(SetAt(f, k, v), K, R)
           /\ \A t : t # k[1] => SameInKey(f, SetAt(f, k, v), t)
  <1> DEFINE g == SetAt(f, k, v)
  <1>1. DOMAIN g = DOMAIN f /\ g[k] = v /\ \A x \in DOMAIN f : x # k => g[x] = f[x]
    BY DEF SetAt
  <1> HIDE DEF g
  <1>2. MapsTo(g, K, R)
    BY <1>1 DEF MapsTo
  <1>3. ASSUME NEW t, t # k[1] PROVE SameInKey(f, g, t)
    BY <1>1, <1>3, InKeySame
  <1> QED BY <1>1, <1>2, <1>3 DEF g

\* The UPDATE of that one row of its table.
LEMMA InsideUpdated ==
    ASSUME NEW f, NEW k \in DOMAIN f, NEW v, NEW u, \A x \in DOMAIN f : x[1] = k[1] /\ x[2] = k[2] => x = k,
           \A r \in Inside(f) : r.id = k[2] /\ r.tenant = k[1] /\ r.row = f[k] => u[r] = NewRow(r, v),
           \A r \in Inside(f) : r.id # k[2] \/ r.tenant # k[1] => u[r] = r
    PROVE  Rewrites(u, Inside(f)) = Inside(SetAt(f, k, v))
  <1> DEFINE t == k[1]
             id == k[2]
             g == SetAt(f, k, v)
  <1>1. \A x \in DOMAIN f : x[1] = t /\ x[2] = id => x = k
    OBVIOUS
  <1>2. /\ DOMAIN g = DOMAIN f /\ g[k] = v
        /\ \A x \in DOMAIN f : x # k => g[x] = f[x]
    BY DEF SetAt
  <1> HIDE DEF g
  <1>3. \A x \in DOMAIN f : InsideRow(f, x) \in Inside(f)
    BY Tables
  <1>4. \A x \in DOMAIN f : InsideRow(f, x).id = x[2] /\ InsideRow(f, x).tenant = x[1] /\ InsideRow(f, x).row = f[x]
    BY DEF InsideRow
  <1>5. u[InsideRow(f, k)] = InsideRow(g, k)
    <2>1. NewRow(InsideRow(f, k), v) = InsideRow(g, k)
      BY <1>2 DEF InsideRow, NewRow
    <2>2. PICK r \in Inside(f) : r = InsideRow(f, k) /\ r.id = id /\ r.tenant = t /\ r.row = f[k]
      BY <1>1, <1>3, <1>4
    <2>3. u[r] = NewRow(r, v)
      BY <2>2
    <2> QED BY <2>1, <2>2, <2>3
  <1>6. \A x \in DOMAIN f : x # k => u[InsideRow(f, x)] = InsideRow(g, x)
    BY <1>1, <1>2, <1>3, <1>4, SameRow
  <1>7. \A x \in DOMAIN f : u[InsideRow(f, x)] = InsideRow(g, x)
    BY <1>5, <1>6
  <1>8. DOMAIN g = DOMAIN f
    BY <1>2
  <1>9. Rewrites(u, Inside(f)) = Inside(g)
    BY ONLY <1>7, <1>8, Mapped
  <1> QED BY <1>9 DEF g

-----------------------------------------------------------------------------
(* Enrolment tokens. *)

\* What the two stores know of enrolment tokens.
LEMMA TokenFacts ==
    ASSUME Paired, NEW t, NEW k
    PROVE  /\ P!Has(pg.tenants, t) <=> t \in DOMAIN mem.tenants
           /\ P!Has(pg.enrollment_tokens, k) <=> k \in DOMAIN mem.tokens
           /\ pg.enrollment_tokens = Owned(mem.tokens)
           /\ TokensGood(mem.tokens, DOMAIN mem.tenants)
           /\ DOMAIN mem = M!Memory /\ DOMAIN pg = P!Postgres
  <1>1. pg.tenants = Keyed(mem.tenants) /\ pg.enrollment_tokens = Owned(mem.tokens)
    BY DEF Paired, Lockstep, Mirrors
  <1> QED BY <1>1, KeyedHas, OwnedHas DEF Paired, Lockstep, Mirrors, Good

\* CreateEnrollmentToken is answered alike.
LEMMA CreateEnrollmentTokenAlike ==
    ASSUME Paired, NEW t \in Tenants, NEW k \in Keys, NEW e \in Time,
           k \in DOMAIN mem.tokens => t \in DOMAIN mem.tenants
    PROVE  Alike(t, M!CreateEnrollmentToken(mem, t, k, e), P!CreateEnrollmentToken(pg, t, k, e))
  <1>1. /\ P!Has(pg.tenants, t) <=> t \in DOMAIN mem.tenants
        /\ P!Has(pg.enrollment_tokens, k) <=> k \in DOMAIN mem.tokens
        /\ pg.enrollment_tokens = Owned(mem.tokens) /\ TokensGood(mem.tokens, DOMAIN mem.tenants)
        /\ DOMAIN mem = M!Memory /\ DOMAIN pg = P!Postgres
    BY TokenFacts
  <1>2. CASE t \notin DOMAIN mem.tenants
    <2>1. M!CreateEnrollmentToken(mem, t, k, e) = Fail(mem, "error")
      BY <1>1, <1>2, Shared DEF M!CreateEnrollmentToken
    <2>2. P!CreateEnrollmentToken(pg, t, k, e) = Fail(pg, "error")
      BY <1>1, <1>2, Shared DEF P!CreateEnrollmentToken
    <2> QED BY <2>1, <2>2, RefusedAlike DEF Answers
  <1>3. CASE t \in DOMAIN mem.tenants /\ k \in DOMAIN mem.tokens
    <2>1. M!CreateEnrollmentToken(mem, t, k, e) = Fail(mem, "ErrConflict")
      BY <1>1, <1>3, Shared DEF M!CreateEnrollmentToken
    <2>2. P!CreateEnrollmentToken(pg, t, k, e) = Fail(pg, "ErrConflict")
      BY <1>1, <1>3, Shared DEF P!CreateEnrollmentToken
    <2> QED BY <2>1, <2>2, RefusedAlike DEF Answers
  <1>4. CASE t \in DOMAIN mem.tenants /\ k \notin DOMAIN mem.tokens
    <2> DEFINE token == [expiresAt |-> e, consumedByHost |-> None]
               own == [tenant |-> t, row |-> token]
               n == [mem EXCEPT !.tokens = Put(@, k, own)]
               db == [pg EXCEPT !.enrollment_tokens = @ \cup {[id |-> k, tenant |-> t, row |-> token]}]
    <2>1. M!CreateEnrollmentToken(mem, t, k, e) = Done(n) /\ P!CreateEnrollmentToken(pg, t, k, e) = Done(db)
      BY <1>1, <1>4, Shared DEF M!CreateEnrollmentToken, P!CreateEnrollmentToken
    <2>2. MemOnly(n, {"tokens"}) /\ n.tokens = Put(mem.tokens, k, own)
      BY <1>1 DEF MemOnly, M!Memory
    <2>3. PgOnly(db, {"enrollment_tokens"}) /\ db.enrollment_tokens = Owned(n.tokens)
      BY <1>1, <1>4, <2>2, OwnedAdd DEF PgOnly, P!Postgres
    <2>4. own \in Ours(EnrollmentToken) /\ own.tenant = t
      BY DEF Ours, Belonging, EnrollmentToken
    <2> HIDE DEF n, db, own
    <2>5. TokensGood(n.tokens, DOMAIN mem.tenants)
      <3>1. MapsTo(n.tokens, Keys, Ours(EnrollmentToken))
        BY <1>1, <2>2, <2>4, PutKeeps DEF TokensGood
      <3>2. ASSUME NEW x \in DOMAIN n.tokens PROVE n.tokens[x].tenant \in DOMAIN mem.tenants
        <4>1. x # k => x \in DOMAIN mem.tokens /\ n.tokens[x] = mem.tokens[x]
          BY <2>2 DEF Put
        <4>2. n.tokens[k] = own
          BY <2>2 DEF Put
        <4> QED BY <4>1, <4>2, <1>1, <1>4, <2>4 DEF TokensGood
      <3> QED BY <3>1, <3>2 DEF TokensGood
    <2>6. \A s \in Sides : s # t => SameBeside(mem.tokens, n.tokens, s)
      BY <1>4, <2>2, <2>4, PutApart
    <2> QED BY <2>1, <2>2, <2>3, <2>5, <2>6, TokensOnly, DoneAlike
  <1> QED BY <1>2, <1>3, <1>4

\* ConsumeEnrollmentToken is answered alike.
LEMMA ConsumeEnrollmentTokenAlike ==
    ASSUME Paired, NEW t \in Tenants, NEW k \in Keys, NEW h \in HostIDs
    PROVE  Alike(t, M!ConsumeEnrollmentToken(mem, t, k, h, now), P!ConsumeEnrollmentToken(pg, t, k, h, now))
  <1>1. /\ pg.enrollment_tokens = Owned(mem.tokens) /\ TokensGood(mem.tokens, DOMAIN mem.tenants)
        /\ DOMAIN mem = M!Memory /\ DOMAIN pg = P!Postgres
    BY TokenFacts
  <1>2. P!UsableTokens(pg, t, k, now) = {} <=> ~M!HasToken(mem, t, k, now)
    <2>1. ASSUME NEW x \in DOMAIN mem.tokens
          PROVE  LET r == OwnedRow(mem.tokens, x)
                 IN r.id = x /\ r.tenant = mem.tokens[x].tenant /\ r.row = mem.tokens[x].row
      BY DEF OwnedRow
    <2>2. \A r : r \in P!UsableTokens(pg, t, k, now) <=>
                \E x \in DOMAIN mem.tokens : /\ r = OwnedRow(mem.tokens, x) /\ mem.tokens[x].tenant = t
                                             /\ x = k /\ Usable(mem.tokens[x].row, now)
      BY <1>1, <2>1, Tables, SharedRows DEF P!UsableTokens, P!InTenant
    <2> QED BY <2>2, SharedRows DEF M!HasToken
  <1>3. CASE ~M!HasToken(mem, t, k, now)
    <2>1. M!ConsumeEnrollmentToken(mem, t, k, h, now) = Fail(mem, "ErrTokenUnusable")
      BY <1>3, Shared DEF M!ConsumeEnrollmentToken
    <2>2. P!ConsumeEnrollmentToken(pg, t, k, h, now) = Fail(pg, "ErrTokenUnusable")
      BY <1>3, <1>2, Shared DEF P!ConsumeEnrollmentToken
    <2> QED BY <2>1, <2>2, RefusedAlike DEF Answers
  <1>4. CASE M!HasToken(mem, t, k, now)
    <2> DEFINE f == mem.tokens
               v == [f[k].row EXCEPT !.consumedByHost = h]
               u == [r \in pg.enrollment_tokens |-> IF r.id = k /\ r.tenant = t
                                                    THEN [r EXCEPT !.row = [r.row EXCEPT !.consumedByHost = h]] ELSE r]
               n == [mem EXCEPT !.tokens = SetRow(@, k, v)]
               db == [pg EXCEPT !.enrollment_tokens = Rewrites(u, @)]
    <2>1. k \in DOMAIN f /\ f[k].tenant = t
      BY <1>4 DEF M!HasToken
    <2>2. f[k].row \in EnrollmentToken /\ MapsTo(f, Keys, Ours(EnrollmentToken))
      BY <1>1, <2>1 DEF TokensGood, MapsTo, Ours, Belonging
    <2>3. v \in EnrollmentToken
      BY <2>2 DEF EnrollmentToken
    <2>4. M!ConsumeEnrollmentToken(mem, t, k, h, now) = Done(n)
      BY <1>1, <1>4, <2>1, <2>2, Shared DEF M!ConsumeEnrollmentToken, M!Memory, SetRow
    <2>5. P!ConsumeEnrollmentToken(pg, t, k, h, now) = Done(db)
      BY <1>1, <1>4, <1>2, Shared DEF P!ConsumeEnrollmentToken, P!Update, P!Postgres, Rewrites
    <2>6. MemOnly(n, {"tokens"}) /\ n.tokens = SetRow(f, k, v)
      BY <1>1 DEF MemOnly, M!Memory
    <2>7. PgOnly(db, {"enrollment_tokens"}) /\ db.enrollment_tokens = Rewrites(u, Owned(f))
      BY <1>1 DEF PgOnly, P!Postgres
    <2>8. /\ \A r \in Owned(f) : r.id = k /\ r.tenant = f[k].tenant /\ r.row = f[k].row => u[r] = NewRow(r, v)
          /\ \A r \in Owned(f) : r.id # k => u[r] = r
      BY <1>1, <2>1 DEF NewRow
    <2> HIDE DEF n, db, u, v
    <2>9. /\ DOMAIN n.tokens = DOMAIN f /\ MapsTo(n.tokens, Keys, Ours(EnrollmentToken))
          /\ \A x \in DOMAIN f : n.tokens[x].tenant = f[x].tenant
          /\ \A s : s # t => SameBeside(f, n.tokens, s)
      BY <2>1, <2>2, <2>3, <2>6, OwnedSet, SMTT(30) DEF Ours
    <2>10. db.enrollment_tokens = Owned(n.tokens)
      BY <2>1, <2>2, <2>3, <2>6, <2>7, <2>8, OwnedUpdated DEF Ours
    <2>11. TokensGood(n.tokens, DOMAIN mem.tenants)
      BY <1>1, <2>9 DEF TokensGood
    <2> QED BY <2>4, <2>5, <2>6, <2>7, <2>9, <2>10, <2>11, TokensOnly, DoneAlike
  <1> QED BY <1>3, <1>4

-----------------------------------------------------------------------------
(* Hosts and certificates. *)

\* A host is at home in its own fleet alone.
LEMMA HomesHave ==
    ASSUME NEW f, NEW t, NEW h
    PROVE  <<t, h>> \in Homes(f) <=> h \in DOMAIN f /\ f[h].tenant = t
  BY DEF Homes

\* Where hosts are rewritten in place, homes stay.
LEMMA HomesSame ==
    ASSUME NEW f, NEW g, DOMAIN g = DOMAIN f, \A h \in DOMAIN f : g[h].tenant = f[h].tenant
    PROVE  Homes(g) = Homes(f)
  BY DEF Homes

\* What the two stores know of hosts and certificates.
LEMMA HostFacts ==
    ASSUME Paired, NEW t, NEW h, NEW fp
    PROVE  /\ pg.hosts = Owned(mem.hosts) /\ pg.certificates = Owned(mem.certs)
           /\ HostsGood(mem.hosts, DOMAIN mem.tenants) /\ CertsGood(mem.certs, Homes(mem.hosts))
           /\ DOMAIN mem = M!Memory /\ DOMAIN pg = P!Postgres
           /\ P!Has(pg.tenants, t) <=> t \in DOMAIN mem.tenants
           /\ P!Has(pg.hosts, h) <=> h \in DOMAIN mem.hosts
           /\ P!HasIn(pg.hosts, t, h) <=> M!HasHost(mem, t, h)
           /\ P!Has(pg.certificates, fp) <=> fp \in DOMAIN mem.certs
           /\ M!HasHost(mem, t, h) <=> <<t, h>> \in Homes(mem.hosts)
  <1>1. pg.tenants = Keyed(mem.tenants) /\ pg.hosts = Owned(mem.hosts) /\ pg.certificates = Owned(mem.certs)
    BY DEF Paired, Lockstep, Mirrors
  <1>2. P!HasIn(pg.hosts, t, h) <=> M!HasHost(mem, t, h)
    BY <1>1, OwnedHas DEF M!HasHost
  <1>3. M!HasHost(mem, t, h) <=> <<t, h>> \in Homes(mem.hosts)
    BY HomesHave DEF M!HasHost
  <1> QED BY <1>1, <1>2, <1>3, KeyedHas, OwnedHas DEF Paired, Lockstep, Mirrors, Good

\* A host's row written anew: the machine and whether it is in service stay.
LEMMA ReportAlike ==
    ASSUME Paired, NEW t \in Tenants, NEW h \in HostIDs, NEW column \in {"lastSeen", "facts", "policy", "signers"}, NEW value,
           \A row \in Host : [row EXCEPT ![column] = value] \in Host
    PROVE  Alike(t, M!UpdateHost(mem, t, h, [M!RowOf(mem, h) EXCEPT ![column] = value]),
                    P!SetHost(pg, t, h, column, value))
  <1>1. /\ pg.hosts = Owned(mem.hosts) /\ HostsGood(mem.hosts, DOMAIN mem.tenants)
        /\ CertsGood(mem.certs, Homes(mem.hosts)) /\ pg.certificates = Owned(mem.certs)
        /\ DOMAIN mem = M!Memory /\ DOMAIN pg = P!Postgres
        /\ P!HasIn(pg.hosts, t, h) <=> M!HasHost(mem, t, h)
    BY HostFacts
  <1> DEFINE host == [M!RowOf(mem, h) EXCEPT ![column] = value]
  <1>2. CASE ~M!HasHost(mem, t, h)
    <2>1. M!UpdateHost(mem, t, h, host) = Fail(mem, "ErrNotFound")
      BY <1>2, Shared DEF M!UpdateHost
    <2>2. P!SetHost(pg, t, h, column, value) = Fail(pg, "ErrNotFound")
      BY <1>1, <1>2, Shared DEF P!SetHost, P!AffectOne
    <2> QED BY <2>1, <2>2, RefusedAlike DEF Answers
  <1>3. CASE M!HasHost(mem, t, h)
    <2> DEFINE f == mem.hosts
               v == [f[h].row EXCEPT ![column] = value]
               u == [r \in pg.hosts |-> IF r.tenant = t /\ r.id = h
                                        THEN [r EXCEPT !.row = [r.row EXCEPT ![column] = value]] ELSE r]
               n == [mem EXCEPT !.hosts = SetRow(@, h, v)]
               db == [pg EXCEPT !.hosts = Rewrites(u, @)]
    <2>1. h \in DOMAIN f /\ f[h].tenant = t
      BY <1>3 DEF M!HasHost
    <2>2. f[h].row \in Host /\ MapsTo(f, HostIDs, Ours(Host))
      BY <1>1, <2>1 DEF HostsGood, MapsTo, Ours, Belonging
    <2>3. v \in Host
      BY <2>2
    <2>4. v.machineID = f[h].row.machineID /\ v.revoked = f[h].row.revoked
      BY <2>2 DEF Host
    <2>5. M!UpdateHost(mem, t, h, host) = Done(n)
      BY <1>1, <1>3, <2>1, <2>2, Shared DEF M!UpdateHost, M!RowOf, M!Memory, SetRow
    <2>6. P!SetHost(pg, t, h, column, value) = Done(db)
      BY <1>1, <1>3, Shared DEF P!SetHost, P!AffectOne, P!Update, P!Postgres, Rewrites
    <2>7. MemOnly(n, {"hosts", "certs"}) /\ n.hosts = SetRow(f, h, v) /\ n.certs = mem.certs
      BY <1>1 DEF MemOnly, M!Memory
    <2>8. PgOnly(db, {"hosts", "certificates"}) /\ db.hosts = Rewrites(u, Owned(f)) /\ db.certificates = pg.certificates
      BY <1>1 DEF PgOnly, P!Postgres
    <2>9. /\ \A r \in Owned(f) : r.id = h /\ r.tenant = f[h].tenant /\ r.row = f[h].row => u[r] = NewRow(r, v)
          /\ \A r \in Owned(f) : r.id # h => u[r] = r
      BY <1>1, <2>1 DEF NewRow
    <2> HIDE DEF n, db, u, v, host
    <2>10. /\ DOMAIN n.hosts = DOMAIN f /\ MapsTo(n.hosts, HostIDs, Ours(Host)) /\ n.hosts[h].row = v
           /\ \A x \in DOMAIN f : n.hosts[x].tenant = f[x].tenant
           /\ \A x \in DOMAIN f : x # h => n.hosts[x] = f[x]
           /\ \A s : s # t => SameBeside(f, n.hosts, s)
      BY <2>1, <2>2, <2>3, <2>7, OwnedSet, SMTT(30) DEF Ours
    <2>11. db.hosts = Owned(n.hosts)
      BY <2>1, <2>2, <2>3, <2>7, <2>8, <2>9, OwnedUpdated DEF Ours
    <2>12. HostsGood(n.hosts, DOMAIN mem.tenants)
      <3>1. \A x \in DOMAIN f : n.hosts[x].row.machineID = f[x].row.machineID /\ n.hosts[x].row.revoked = f[x].row.revoked
        BY <2>10, <2>4
      <3> QED BY <1>1, <2>10, <3>1 DEF HostsGood
    <2>13. Homes(n.hosts) = Homes(f)
      BY <2>10, HomesSame
    <2>14. \A s \in Sides : s # t => SameBeside(f, n.hosts, s) /\ SameBeside(mem.certs, n.certs, s)
      BY <2>7, <2>10, SameSelf
    <2>15. CertsGood(n.certs, Homes(n.hosts)) /\ db.certificates = Owned(n.certs)
      BY <1>1, <2>7, <2>8, <2>13
    <2>16. Homes(f) \subseteq Homes(n.hosts) /\ Visible(mem.transitions, Homes(n.hosts)) = Visible(mem.transitions, Homes(f))
      BY <2>13
    <2>17. Lockstep(n, db) /\ Apart(t, n)
      BY <2>7, <2>8, <2>11, <2>12, <2>14, <2>15, <2>16, HostsOnly
    <2> QED BY <2>5, <2>6, <2>17, DoneAlike DEF host
  <1> QED BY <1>2, <1>3

\* The four reports of an agent, each a column of its host, are answered alike.
LEMMA ReportsAlike ==
    ASSUME Paired, NEW t \in Tenants, NEW h \in HostIDs, now \in Time
    PROVE  /\ Alike(t, M!RecordHeartbeat(mem, t, h, now), P!RecordHeartbeat(pg, t, h, now))
           /\ Alike(t, M!StoreFacts(mem, t, h), P!StoreFacts(pg, t, h))
           /\ Alike(t, M!StorePolicy(mem, t, h), P!StorePolicy(pg, t, h))
           /\ Alike(t, M!StoreSigners(mem, t, h), P!StoreSigners(pg, t, h))
  <1>1. Alike(t, M!RecordHeartbeat(mem, t, h, now), P!RecordHeartbeat(pg, t, h, now))
    <2>1. \A row \in Host : [row EXCEPT !["lastSeen"] = now] \in Host
      BY DEF Host
    <2>2. Alike(t, M!UpdateHost(mem, t, h, [M!RowOf(mem, h) EXCEPT !["lastSeen"] = now]), P!SetHost(pg, t, h, "lastSeen", now))
      BY <2>1, ReportAlike
    <2> QED BY <2>2 DEF M!RecordHeartbeat, P!RecordHeartbeat
  <1>2. \A row \in Host : /\ [row EXCEPT !["facts"] = "doc"] \in Host
                          /\ [row EXCEPT !["policy"] = "doc"] \in Host
                          /\ [row EXCEPT !["signers"] = "doc"] \in Host
    BY DEF Host
  <1>3. Alike(t, M!StoreFacts(mem, t, h), P!StoreFacts(pg, t, h))
    <2>1. Alike(t, M!UpdateHost(mem, t, h, [M!RowOf(mem, h) EXCEPT !["facts"] = "doc"]), P!SetHost(pg, t, h, "facts", "doc"))
      BY <1>2, ReportAlike
    <2> QED BY <2>1 DEF M!StoreFacts, P!StoreFacts
  <1>4. Alike(t, M!StorePolicy(mem, t, h), P!StorePolicy(pg, t, h))
    <2>1. Alike(t, M!UpdateHost(mem, t, h, [M!RowOf(mem, h) EXCEPT !["policy"] = "doc"]), P!SetHost(pg, t, h, "policy", "doc"))
      BY <1>2, ReportAlike
    <2> QED BY <2>1 DEF M!StorePolicy, P!StorePolicy
  <1>5. Alike(t, M!StoreSigners(mem, t, h), P!StoreSigners(pg, t, h))
    <2>1. Alike(t, M!UpdateHost(mem, t, h, [M!RowOf(mem, h) EXCEPT !["signers"] = "doc"]), P!SetHost(pg, t, h, "signers", "doc"))
      BY <1>2, ReportAlike
    <2> QED BY <2>1 DEF M!StoreSigners, P!StoreSigners
  <1> QED BY <1>1, <1>3, <1>4, <1>5

\* Certificates rewritten in place keep their host and their fleet.
LEMMA CertsRewritten ==
    ASSUME NEW f, NEW g, NEW homes, CertsGood(f, homes), DOMAIN g = DOMAIN f,
           MapsTo(g, Fingerprints, Ours(Certificate)),
           \A x \in DOMAIN f : g[x].tenant = f[x].tenant /\ g[x].row.host = f[x].row.host
    PROVE  CertsGood(g, homes)
  BY DEF CertsGood

\* Retiring a certificate rewrites one row, in its own fleet.
LEMMA RetireFacts ==
    ASSUME NEW f, MapsTo(f, Fingerprints, Ours(Certificate)), NEW t, NEW fp, NEW at \in Time
    PROVE  /\ DOMAIN M!Retire(f, t, fp, at) = DOMAIN f
           /\ MapsTo(M!Retire(f, t, fp, at), Fingerprints, Ours(Certificate))
           /\ \A x \in DOMAIN f : /\ M!Retire(f, t, fp, at)[x].tenant = f[x].tenant
                                  /\ M!Retire(f, t, fp, at)[x].row.host = f[x].row.host
           /\ \A s : s # t => SameBeside(f, M!Retire(f, t, fp, at), s)
           /\ P!Retired(Owned(f), t, fp, at) = Owned(M!Retire(f, t, fp, at))
  <1> DEFINE g == M!Retire(f, t, fp, at)
             u == [r \in Owned(f) |-> IF r.tenant = t /\ r.id = fp THEN [r EXCEPT !.row = Superseded(r.row, at)] ELSE r]
  <1>1. \A x \in DOMAIN f : OwnedRow(f, x).id = x /\ OwnedRow(f, x).tenant = f[x].tenant /\ OwnedRow(f, x) \in Owned(f)
    BY Tables DEF OwnedRow
  <1>2. P!Retired(Owned(f), t, fp, at) = Rewrites(u, Owned(f))
    BY SharedRows DEF P!Retired, P!Update, Rewrites
  <1>3. CASE fp \in DOMAIN f /\ f[fp].tenant = t
    <2> DEFINE v == Superseded(f[fp].row, at)
    <2>1. f[fp] \in Ours(Certificate)
      BY <1>3 DEF MapsTo
    <2>2. f[fp].row \in Certificate
      BY <2>1 DEF Ours, Belonging
    <2>3. v \in Certificate /\ v.host = f[fp].row.host
      BY <2>2 DEF Superseded, Certificate
    <2>4. g = SetRow(f, fp, v)
      BY <1>3, SharedRows DEF M!Retire, SetRow
    <2>5. /\ \A r \in Owned(f) : r.id = fp /\ r.tenant = f[fp].tenant /\ r.row = f[fp].row => u[r] = NewRow(r, v)
          /\ \A r \in Owned(f) : r.id # fp => u[r] = r
      BY <1>3 DEF NewRow
    <2> HIDE DEF g, u, v
    <2>6. /\ DOMAIN g = DOMAIN f /\ MapsTo(g, Fingerprints, Ours(Certificate)) /\ g[fp].row = v
          /\ \A x \in DOMAIN f : g[x].tenant = f[x].tenant
          /\ \A x \in DOMAIN f : x # fp => g[x] = f[x]
          /\ \A s : s # t => SameBeside(f, g, s)
      BY <1>3, <2>3, <2>4, OwnedSet DEF Ours
    <2>7. Rewrites(u, Owned(f)) = Owned(g)
      BY <1>3, <2>3, <2>4, <2>5, OwnedUpdated DEF Ours
    <2>8. \A x \in DOMAIN f : g[x].row.host = f[x].row.host
      BY <2>3, <2>6
    <2> QED BY <1>2, <2>6, <2>7, <2>8 DEF g
  <1>4. CASE ~(fp \in DOMAIN f /\ f[fp].tenant = t)
    <2>1. g = f
      BY <1>4 DEF M!Retire
    <2>2. \A r \in Owned(f) : u[r] = r
      BY <1>1, <1>4, Tables
    <2> HIDE DEF g, u
    <2>3. Rewrites(u, Owned(f)) = Owned(f)
      BY <2>2 DEF Rewrites
    <2>4. \A s : SameBeside(f, g, s)
      BY <2>1, SameSelf
    <2> QED BY <1>2, <2>1, <2>3, <2>4 DEF g
  <1> QED BY <1>3, <1>4

\* A call that leaves the hosts alone and ends with these certificates.
LEMMA CertsOnly ==
    ASSUME Paired, NEW side, NEW n, NEW db, MemOnly(n, {"certs"}), PgOnly(db, {"certificates"}),
           db.certificates = Owned(n.certs), CertsGood(n.certs, Homes(mem.hosts)),
           \A t \in Sides : t # side => SameBeside(mem.certs, n.certs, t)
    PROVE  Lockstep(n, db) /\ Apart(side, n)
  <1>1. pg.hosts = Owned(mem.hosts) /\ HostsGood(mem.hosts, DOMAIN mem.tenants)
    BY HostFacts
  <1>2. MemOnly(n, {"hosts", "certs"}) /\ n.hosts = mem.hosts
    BY DEF MemOnly, M!Memory
  <1>3. PgOnly(db, {"hosts", "certificates"}) /\ db.hosts = pg.hosts
    BY DEF PgOnly, P!Postgres
  <1>4. \A t \in Sides : t # side => SameBeside(mem.hosts, n.hosts, t) /\ SameBeside(mem.certs, n.certs, t)
    BY <1>2, SameSelf
  <1>5. HostsGood(n.hosts, DOMAIN mem.tenants) /\ CertsGood(n.certs, Homes(n.hosts)) /\ db.hosts = Owned(n.hosts)
    BY <1>1, <1>2, <1>3
  <1>6. /\ Homes(mem.hosts) \subseteq Homes(n.hosts)
        /\ Visible(mem.transitions, Homes(n.hosts)) = Visible(mem.transitions, Homes(mem.hosts))
    BY <1>2
  <1> QED BY <1>2, <1>3, <1>4, <1>5, <1>6, HostsOnly

\* SupersedeCertificate is answered alike.
LEMMA SupersedeCertificateAlike ==
    ASSUME Paired, NEW t \in Tenants, NEW fp \in Fingerprints, NEW at \in Time
    PROVE  Alike(t, M!SupersedeCertificate(mem, t, fp, at), P!SupersedeCertificate(pg, t, fp, at))
  <1>1. /\ pg.certificates = Owned(mem.certs) /\ CertsGood(mem.certs, Homes(mem.hosts))
        /\ DOMAIN mem = M!Memory /\ DOMAIN pg = P!Postgres
    BY HostFacts
  <1> DEFINE g == M!Retire(mem.certs, t, fp, at)
             n == [mem EXCEPT !.certs = g]
             db == [pg EXCEPT !.certificates = Owned(g)]
  <1>2. /\ DOMAIN g = DOMAIN mem.certs /\ MapsTo(g, Fingerprints, Ours(Certificate))
        /\ \A x \in DOMAIN mem.certs : g[x].tenant = mem.certs[x].tenant /\ g[x].row.host = mem.certs[x].row.host
        /\ \A s : s # t => SameBeside(mem.certs, g, s)
        /\ P!Retired(Owned(mem.certs), t, fp, at) = Owned(g)
    BY <1>1, RetireFacts DEF CertsGood
  <1>3. M!SupersedeCertificate(mem, t, fp, at) = Done(n)
    BY Shared DEF M!SupersedeCertificate
  <1>4. P!SupersedeCertificate(pg, t, fp, at) = Done(db)
    BY <1>1, <1>2, Shared DEF P!SupersedeCertificate
  <1> HIDE DEF g
  <1>5. CertsGood(g, Homes(mem.hosts))
    BY <1>1, <1>2, CertsRewritten
  <1>6. MemOnly(n, {"certs"}) /\ n.certs = g
    BY <1>1 DEF MemOnly, M!Memory
  <1>7. PgOnly(db, {"certificates"}) /\ db.certificates = Owned(g)
    BY <1>1 DEF PgOnly, P!Postgres
  <1> HIDE DEF n, db
  <1>8. Lockstep(n, db) /\ Apart(t, n)
    BY <1>2, <1>5, <1>6, <1>7, CertsOnly
  <1> QED BY <1>3, <1>4, <1>8, DoneAlike

\* The instances count as we do.
LEMMA Counting == \A S : M!Cardinality(S) = Cardinality(S) /\ P!Cardinality(S) = Cardinality(S)
  BY DEF M!Cardinality, P!Cardinality, Cardinality

\* A certificate recorded, for a host of the fleet, unless it is already.
Adding(f, t, fp, cert) == IF fp \in DOMAIN f THEN f ELSE Put(f, fp, [tenant |-> t, row |-> cert])

\* The certificate goes in where ON CONFLICT DO NOTHING lets it.
LEMMA AddingFacts ==
    ASSUME NEW f, NEW homes, CertsGood(f, homes), NEW t \in Tenants, NEW fp \in Fingerprints, NEW cert \in Certificate,
           <<t, cert.host>> \in homes
    PROVE  /\ CertsGood(Adding(f, t, fp, cert), homes)
           /\ \A s : s # t => SameBeside(f, Adding(f, t, fp, cert), s)
           /\ P!Recorded(Owned(f), t, fp, cert) = Owned(Adding(f, t, fp, cert))
  <1> DEFINE own == [tenant |-> t, row |-> cert]
             g == Adding(f, t, fp, cert)
  <1>1. own \in Ours(Certificate) /\ own.tenant = t /\ own.row = cert
    BY DEF Ours, Belonging
  <1>2. CASE fp \in DOMAIN f
    <2>1. g = f /\ P!Recorded(Owned(f), t, fp, cert) = Owned(f)
      BY <1>2, OwnedHas DEF Adding, P!Recorded
    <2> QED BY <2>1, SameSelf
  <1>3. CASE fp \notin DOMAIN f
    <2>1. g = Put(f, fp, own)
      BY <1>3 DEF Adding
    <2>2. P!Recorded(Owned(f), t, fp, cert) = Owned(g)
      <3>1. ~P!Has(Owned(f), fp)
        BY <1>3, OwnedHas
      <3> QED BY <1>3, <2>1, <3>1, OwnedAdd DEF P!Recorded
    <2> HIDE DEF own, g
    <2>3. MapsTo(g, Fingerprints, Ours(Certificate)) /\ IsFiniteSet(DOMAIN g)
      BY <1>1, <2>1, PutKeeps, PutFinite DEF CertsGood
    <2>4. DOMAIN g = DOMAIN f \cup {fp} /\ g[fp] = own /\ \A x \in DOMAIN f : g[x] = f[x]
      BY <1>3, <2>1 DEF Put
    <2>5. \A x \in DOMAIN g : <<g[x].tenant, g[x].row.host>> \in homes
      BY <1>1, <2>4 DEF CertsGood
    <2>6. \A s : s # t => SameBeside(f, g, s)
      BY <1>1, <1>3, <2>1, PutApart
    <2> QED BY <2>2, <2>3, <2>5, <2>6 DEF CertsGood, g
  <1> QED BY <1>2, <1>3

\* AddCertificate is answered alike.
LEMMA AddCertificateAlike ==
    ASSUME Paired, NEW t \in Tenants, NEW fp \in Fingerprints, NEW cert \in Certificate,
           fp \in DOMAIN mem.certs => mem.certs[fp].tenant = t /\ mem.certs[fp].row.host = cert.host
    PROVE  Alike(t, M!AddCertificate(mem, t, fp, cert), P!AddCertificate(pg, t, fp, cert))
  <1> DEFINE h == cert.host
  <1>1. /\ pg.certificates = Owned(mem.certs) /\ CertsGood(mem.certs, Homes(mem.hosts))
        /\ DOMAIN mem = M!Memory /\ DOMAIN pg = P!Postgres
        /\ P!HasIn(pg.hosts, t, h) <=> M!HasHost(mem, t, h)
        /\ M!HasHost(mem, t, h) <=> <<t, h>> \in Homes(mem.hosts)
        /\ P!Has(pg.certificates, fp) <=> fp \in DOMAIN mem.certs
    BY HostFacts
  <1>2. CASE ~M!HasHost(mem, t, h)
    <2>1. fp \notin DOMAIN mem.certs
      BY <1>1, <1>2 DEF CertsGood
    <2>2. M!AddCertificate(mem, t, fp, cert) = Fail(mem, "error")
      BY <1>2, Shared DEF M!AddCertificate
    <2>3. P!AddCertificate(pg, t, fp, cert) = Fail(pg, "error")
      BY <1>1, <1>2, <2>1, Shared DEF P!AddCertificate
    <2> QED BY <2>2, <2>3, RefusedAlike DEF Answers
  <1>3. CASE M!HasHost(mem, t, h)
    <2> DEFINE g == Adding(mem.certs, t, fp, cert)
               n == IF fp \in DOMAIN mem.certs THEN mem ELSE [mem EXCEPT !.certs = g]
               db == [pg EXCEPT !.certificates = Owned(g)]
    <2>1. /\ CertsGood(g, Homes(mem.hosts)) /\ \A s : s # t => SameBeside(mem.certs, g, s)
          /\ P!Recorded(Owned(mem.certs), t, fp, cert) = Owned(g)
      BY <1>1, <1>3, AddingFacts
    <2>2. M!AddCertificate(mem, t, fp, cert) = Done(n)
      BY <1>3, Shared DEF M!AddCertificate, Adding
    <2>3. P!AddCertificate(pg, t, fp, cert) = Done(db)
      BY <1>1, <1>3, <2>1, Shared DEF P!AddCertificate
    <2>4. MemOnly(n, {"certs"}) /\ n.certs = g
      BY <1>1 DEF MemOnly, M!Memory, Adding
    <2> HIDE DEF g
    <2>5. PgOnly(db, {"certificates"}) /\ db.certificates = Owned(g)
      BY <1>1 DEF PgOnly, P!Postgres
    <2> HIDE DEF n, db
    <2>6. Lockstep(n, db) /\ Apart(t, n)
      BY <2>1, <2>4, <2>5, CertsOnly
    <2> QED BY <2>2, <2>3, <2>6, DoneAlike
  <1> QED BY <1>2, <1>3

\* Both count the certificates an agent could still use alike.
LEMMA CountsAlike ==
    ASSUME Paired, NEW t, NEW h
    PROVE  M!CountLiveCertificates(mem, t, h, now) = P!CountLiveCertificates(pg, t, h, now)
  <1> DEFINE f == mem.certs
             S == {fp \in M!Beside(f, t) : f[fp].row.host = h /\ LiveCertificate(f[fp].row, now)}
             T == {r \in P!InTenant(Owned(f), t) : r.row.host = h /\ LiveCertificate(r.row, now)}
  <1>1. pg.certificates = Owned(f) /\ IsFiniteSet(DOMAIN f)
    BY HostFacts DEF CertsGood
  <1>2. M!CountLiveCertificates(mem, t, h, now) = Cardinality(S)
    BY SharedRows, Counting DEF M!CountLiveCertificates
  <1>3. P!CountLiveCertificates(pg, t, h, now) = Cardinality(T)
    BY <1>1, SharedRows, Counting DEF P!CountLiveCertificates
  <1>4. S \subseteq DOMAIN f /\ IsFiniteSet(S)
    <2>1. S \in SUBSET DOMAIN f
      BY DEF M!Beside
    <2> QED BY <1>1, <2>1, FS_Subset
  <1>5. \A k \in DOMAIN f : OwnedRow(f, k).row = f[k].row
    BY DEF OwnedRow
  <1>6. \A r : r \in T <=> \E k \in S : r = OwnedRow(f, k)
    BY <1>5, OwnedIn DEF M!Beside
  <1> HIDE DEF S, T
  <1>7. Cardinality(T) = Cardinality(S)
    BY <1>4, <1>6, OwnedSize
  <1> QED BY <1>2, <1>3, <1>7

\* RenewCertificate is answered alike.
LEMMA RenewCertificateAlike ==
    ASSUME Paired, NEW t \in Tenants, NEW fp \in Fingerprints, NEW cert \in Certificate,
           NEW presented \in Fingerprints, NEW at \in Time
    PROVE  Alike(t, M!RenewCertificate(mem, t, fp, cert, presented, at, now),
                    P!RenewCertificate(pg, t, fp, cert, presented, at, now))
  <1> DEFINE h == cert.host
  <1>1. /\ pg.certificates = Owned(mem.certs) /\ CertsGood(mem.certs, Homes(mem.hosts))
        /\ DOMAIN mem = M!Memory /\ DOMAIN pg = P!Postgres
        /\ P!HasIn(pg.hosts, t, h) <=> M!HasHost(mem, t, h)
        /\ M!HasHost(mem, t, h) <=> <<t, h>> \in Homes(mem.hosts)
    BY HostFacts
  <1>2. M!CountLiveCertificates(mem, t, h, now) = P!CountLiveCertificates(pg, t, h, now)
    BY CountsAlike
  <1>3. CASE ~M!HasHost(mem, t, h)
    <2>1. M!RenewCertificate(mem, t, fp, cert, presented, at, now) = Fail(mem, "ErrNotFound")
      BY <1>3, Shared DEF M!RenewCertificate
    <2>2. P!RenewCertificate(pg, t, fp, cert, presented, at, now) = Fail(pg, "ErrNotFound")
      BY <1>1, <1>3, Shared DEF P!RenewCertificate
    <2> QED BY <2>1, <2>2, RefusedAlike DEF Answers
  <1>4. CASE M!HasHost(mem, t, h) /\ M!CountLiveCertificates(mem, t, h, now) >= MaxLive
    <2>1. M!RenewCertificate(mem, t, fp, cert, presented, at, now) = Fail(mem, "ErrTooManyCertificates")
      BY <1>4, Shared DEF M!RenewCertificate
    <2>2. P!RenewCertificate(pg, t, fp, cert, presented, at, now) = Fail(pg, "ErrTooManyCertificates")
      BY <1>1, <1>2, <1>4, Shared DEF P!RenewCertificate
    <2> QED BY <2>1, <2>2, RefusedAlike DEF Answers
  <1>5. CASE M!HasHost(mem, t, h) /\ ~(M!CountLiveCertificates(mem, t, h, now) >= MaxLive)
    <2> DEFINE added == Adding(mem.certs, t, fp, cert)
               g == M!Retire(added, t, presented, at)
               n == [mem EXCEPT !.certs = g]
               db == [pg EXCEPT !.certificates = Owned(g)]
    <2>1. /\ CertsGood(added, Homes(mem.hosts)) /\ \A s : s # t => SameBeside(mem.certs, added, s)
          /\ P!Recorded(Owned(mem.certs), t, fp, cert) = Owned(added)
      BY <1>1, <1>5, AddingFacts
    <2>2. /\ DOMAIN g = DOMAIN added /\ MapsTo(g, Fingerprints, Ours(Certificate))
          /\ \A x \in DOMAIN added : g[x].tenant = added[x].tenant /\ g[x].row.host = added[x].row.host
          /\ \A s : s # t => SameBeside(added, g, s)
          /\ P!Retired(Owned(added), t, presented, at) = Owned(g)
      <3> HIDE DEF added
      <3> QED BY <2>1, RetireFacts DEF CertsGood
    <2>3. M!RenewCertificate(mem, t, fp, cert, presented, at, now) = Done(n)
      BY <1>5, Shared DEF M!RenewCertificate, Adding
    <2>4. P!RenewCertificate(pg, t, fp, cert, presented, at, now) = Done(db)
      <3> HIDE DEF g, added
      <3> QED BY <1>1, <1>2, <1>5, <2>1, <2>2, Shared DEF P!RenewCertificate
    <2> HIDE DEF g, added
    <2>5. CertsGood(g, Homes(mem.hosts)) /\ \A s : s # t => SameBeside(mem.certs, g, s)
      BY <2>1, <2>2, CertsRewritten DEF SameBeside
    <2>6. MemOnly(n, {"certs"}) /\ n.certs = g
      BY <1>1 DEF MemOnly, M!Memory
    <2>7. PgOnly(db, {"certificates"}) /\ db.certificates = Owned(g)
      BY <1>1 DEF PgOnly, P!Postgres
    <2> HIDE DEF n, db
    <2>8. Lockstep(n, db) /\ Apart(t, n)
      BY <2>5, <2>6, <2>7, CertsOnly
    <2> QED BY <2>3, <2>4, <2>8, DoneAlike
  <1> QED BY <1>3, <1>4, <1>5

\* Both stores see and count the same hosts in service.
LEMMA ActiveAlike ==
    ASSUME Paired, NEW t
    PROVE  /\ \A r : r \in P!ActiveHosts(pg, t) <=> \E h \in M!ActiveHosts(mem, t) : r = OwnedRow(mem.hosts, h)
           /\ Cardinality(P!ActiveHosts(pg, t)) = Cardinality(M!ActiveHosts(mem, t))
           /\ Cardinality(P!InTenant(pg.hosts, t)) = Cardinality(M!Beside(mem.hosts, t))
  <1> DEFINE f == mem.hosts
  <1>1. pg.hosts = Owned(f) /\ IsFiniteSet(DOMAIN f)
    BY HostFacts DEF HostsGood
  <1>2. \A k \in DOMAIN f : OwnedRow(f, k).row = f[k].row
    BY DEF OwnedRow
  <1>3. \A r : r \in P!ActiveHosts(pg, t) <=> \E h \in M!ActiveHosts(mem, t) : r = OwnedRow(f, h)
    BY <1>1, <1>2, OwnedIn DEF P!ActiveHosts, M!ActiveHosts, M!Beside
  <1>4. M!ActiveHosts(mem, t) \in SUBSET DOMAIN f /\ M!Beside(f, t) \in SUBSET DOMAIN f
    BY DEF M!ActiveHosts, M!Beside
  <1>5. IsFiniteSet(M!ActiveHosts(mem, t)) /\ IsFiniteSet(M!Beside(f, t))
    BY <1>1, <1>4, FS_Subset
  <1>6. Cardinality(P!ActiveHosts(pg, t)) = Cardinality(M!ActiveHosts(mem, t))
    BY <1>3, <1>4, <1>5, OwnedSize
  <1>7. \A r : r \in P!InTenant(pg.hosts, t) <=> \E k \in M!Beside(f, t) : r = OwnedRow(f, k)
    BY <1>1, OwnedIn
  <1>8. Cardinality(P!InTenant(pg.hosts, t)) = Cardinality(M!Beside(f, t))
    BY <1>4, <1>5, <1>7, OwnedSize
  <1> QED BY <1>3, <1>6, <1>8

\* RevokeHost is answered alike.
LEMMA RevokeHostAlike ==
    ASSUME Paired, NEW t \in Tenants, NEW h \in HostIDs
    PROVE  Alike(t, M!RevokeHost(mem, t, h), P!RevokeHost(pg, t, h))
  <1>1. /\ pg.hosts = Owned(mem.hosts) /\ HostsGood(mem.hosts, DOMAIN mem.tenants)
        /\ pg.certificates = Owned(mem.certs) /\ CertsGood(mem.certs, Homes(mem.hosts))
        /\ DOMAIN mem = M!Memory /\ DOMAIN pg = P!Postgres
        /\ P!HasIn(pg.hosts, t, h) <=> M!HasHost(mem, t, h)
    BY HostFacts
  <1>2. CASE ~M!HasHost(mem, t, h)
    <2>1. M!RevokeHost(mem, t, h) = Fail(mem, "ErrNotFound")
      BY <1>2, Shared DEF M!RevokeHost
    <2>2. P!RevokeHost(pg, t, h) = Fail(pg, "ErrNotFound")
      BY <1>1, <1>2, Shared DEF P!RevokeHost, P!AffectOne
    <2> QED BY <2>1, <2>2, RefusedAlike DEF Answers
  <1>3. CASE M!HasHost(mem, t, h)
    <2> DEFINE f == mem.hosts
               c == mem.certs
               v == [f[h].row EXCEPT !.revoked = TRUE]
               u == [r \in pg.hosts |-> IF r.tenant = t /\ r.id = h
                                        THEN [r EXCEPT !.row = [r.row EXCEPT !.revoked = TRUE]] ELSE r]
               w == [r \in pg.certificates |-> IF r.tenant = t /\ r.row.host = h
                                               THEN [r EXCEPT !.row = [r.row EXCEPT !.revoked = TRUE]] ELSE r]
               d == [fp \in DOMAIN c |-> IF c[fp].tenant = t /\ c[fp].row.host = h
                                         THEN [c[fp] EXCEPT !.row = [c[fp].row EXCEPT !.revoked = TRUE]] ELSE c[fp]]
               n == [mem EXCEPT !.hosts = SetRow(f, h, v), !.certs = d]
               db == [pg EXCEPT !.hosts = Rewrites(u, @), !.certificates = Rewrites(w, @)]
    <2>1. h \in DOMAIN f /\ f[h].tenant = t
      BY <1>3 DEF M!HasHost
    <2>2. f[h].row \in Host /\ MapsTo(f, HostIDs, Ours(Host))
      BY <1>1, <2>1 DEF HostsGood, MapsTo, Ours, Belonging
    <2>3. v \in Host /\ v.machineID = f[h].row.machineID /\ v.revoked
      BY <2>2 DEF Host
    <2>4. M!RevokeHost(mem, t, h) = Done(n)
      BY <1>1, <1>3, <2>1, <2>2, Shared DEF M!RevokeHost, M!Memory, SetRow
    <2>5. P!RevokeHost(pg, t, h) = Done(db)
      BY <1>1, <1>3, Shared DEF P!RevokeHost, P!AffectOne, P!Update, P!Postgres, Rewrites
    <2>6. /\ \A r \in Owned(f) : r.id = h /\ r.tenant = f[h].tenant /\ r.row = f[h].row => u[r] = NewRow(r, v)
          /\ \A r \in Owned(f) : r.id # h => u[r] = r
      BY <1>1, <2>1 DEF NewRow
    <2>7. DOMAIN d = DOMAIN c
      OBVIOUS
    <2>8. ASSUME NEW x \in DOMAIN c
          PROVE  /\ d[x] \in Ours(Certificate) /\ d[x].tenant = c[x].tenant /\ d[x].row.host = c[x].row.host
                 /\ w[OwnedRow(c, x)] = OwnedRow(d, x)
                 /\ c[x].tenant # t => d[x] = c[x]
      <3>1. c[x] \in [tenant : Tenants, row : Certificate]
        BY <1>1 DEF CertsGood, MapsTo, Ours, Belonging
      <3>2. OwnedRow(c, x) \in pg.certificates /\ OwnedRow(c, x).tenant = c[x].tenant /\ OwnedRow(c, x).row = c[x].row
        BY <1>1, Tables DEF OwnedRow
      <3>3. CASE c[x].tenant = t /\ c[x].row.host = h
        <4> DEFINE row == [c[x].row EXCEPT !.revoked = TRUE]
        <4>1. row \in Certificate /\ row.host = c[x].row.host
          BY <3>1 DEF Certificate
        <4>2. d[x] = [c[x] EXCEPT !.row = row]
          BY <3>3
        <4>3. w[OwnedRow(c, x)] = NewRow(OwnedRow(c, x), row)
          BY <3>2, <3>3 DEF NewRow
        <4> HIDE DEF d, w, row
        <4>4. d[x].tenant = c[x].tenant /\ d[x].row = row /\ d[x] \in [tenant : Tenants, row : Certificate]
          BY <3>1, <4>1, <4>2
        <4>5. NewRow(OwnedRow(c, x), row) = OwnedRow(d, x)
          BY <4>4 DEF NewRow, OwnedRow
        <4> QED BY <3>3, <4>1, <4>3, <4>4, <4>5 DEF Ours, Belonging
      <3>4. CASE ~(c[x].tenant = t /\ c[x].row.host = h)
        <4>1. d[x] = c[x] /\ w[OwnedRow(c, x)] = OwnedRow(c, x)
          BY <3>2, <3>4
        <4> HIDE DEF d, w
        <4>2. OwnedRow(d, x) = OwnedRow(c, x)
          BY <4>1 DEF OwnedRow
        <4> QED BY <3>1, <4>1, <4>2 DEF Ours, Belonging
      <3> QED BY <3>3, <3>4
    <2> HIDE DEF u, v, w, d
    <2>9. MemOnly(n, {"hosts", "certs"}) /\ n.hosts = SetRow(f, h, v) /\ n.certs = d
      BY <1>1 DEF MemOnly, M!Memory
    <2>10. /\ PgOnly(db, {"hosts", "certificates"}) /\ db.hosts = Rewrites(u, Owned(f))
           /\ db.certificates = Rewrites(w, Owned(c))
      BY <1>1 DEF PgOnly, P!Postgres
    <2> HIDE DEF n, db
    <2>11. /\ DOMAIN n.hosts = DOMAIN f /\ MapsTo(n.hosts, HostIDs, Ours(Host)) /\ n.hosts[h].row = v
           /\ \A x \in DOMAIN f : n.hosts[x].tenant = f[x].tenant
           /\ \A x \in DOMAIN f : x # h => n.hosts[x] = f[x]
           /\ \A s : s # t => SameBeside(f, n.hosts, s)
      BY <2>1, <2>2, <2>3, <2>9, OwnedSet DEF Ours
    <2>12. db.hosts = Owned(n.hosts)
      BY <2>1, <2>2, <2>3, <2>9, <2>10, <2>6, OwnedUpdated DEF Ours
    <2>13. HostsGood(n.hosts, DOMAIN mem.tenants)
      <3>1. \A x \in DOMAIN f : n.hosts[x].row.machineID = f[x].row.machineID /\ (f[x].row.revoked => n.hosts[x].row.revoked)
        BY <2>11, <2>3
      <3> QED BY <1>1, <2>11, <3>1 DEF HostsGood
    <2>14. Homes(n.hosts) = Homes(f)
      BY <2>11, HomesSame
    <2>15. CertsGood(d, Homes(f))
      <3>1. MapsTo(d, Fingerprints, Ours(Certificate))
        BY <1>1, <2>7, <2>8 DEF CertsGood, MapsTo
      <3> QED BY <1>1, <2>7, <2>8, <3>1, CertsRewritten
    <2>16. Rewrites(w, Owned(c)) = Owned(d)
      <3>1. \A x \in DOMAIN c : w[OwnedRow(c, x)] = OwnedRow(d, x)
        BY <2>8
      <3> QED BY ONLY <2>7, <3>1, Mapped
    <2>17. \A s \in Sides : s # t => SameBeside(f, n.hosts, s) /\ SameBeside(c, d, s)
      <3>1. \A s : s # t => SameBeside(c, d, s)
        BY <2>7, <2>8, BesideSame
      <3> QED BY <2>11, <3>1
    <2>18. Homes(f) \subseteq Homes(n.hosts) /\ Visible(mem.transitions, Homes(n.hosts)) = Visible(mem.transitions, Homes(f))
      BY <2>14
    <2>19. CertsGood(n.certs, Homes(n.hosts)) /\ db.certificates = Owned(n.certs)
      BY <2>9, <2>10, <2>14, <2>15, <2>16
    <2>20. Lockstep(n, db) /\ Apart(t, n)
      BY <2>9, <2>10, <2>12, <2>13, <2>17, <2>18, <2>19, HostsOnly
    <2> QED BY <2>4, <2>5, <2>20, DoneAlike
  <1> QED BY <1>2, <1>3

\* CreateEnrolledHost, whose host limit and index the memory store checks by looking, is answered alike.
LEMMA CreateEnrolledHostAlike ==
    ASSUME Paired, NEW t \in Tenants, NEW h \in HostIDs, NEW fp \in Fingerprints, NEW host \in Host, NEW cert \in Certificate,
           cert.host = h, ~host.revoked, \A i \in DOMAIN mem.transitions : mem.transitions[i].host # h
    PROVE  Alike(t, M!CreateEnrolledHost(mem, t, h, host, fp, cert), P!CreateEnrolledHost(pg, t, h, host, fp, cert))
  <1> DEFINE f == mem.hosts
             limit == mem.tenants[t].hostLimit
             full == limit # NoLimit /\ Cardinality(M!ActiveHosts(mem, t)) >= limit
             clash == \/ h \in DOMAIN f
                      \/ fp \in DOMAIN mem.certs
                      \/ host.machineID # None /\ \E x \in M!ActiveHosts(mem, t) : f[x].row.machineID = host.machineID
  <1>1. /\ pg.hosts = Owned(f) /\ HostsGood(f, DOMAIN mem.tenants)
        /\ pg.certificates = Owned(mem.certs) /\ CertsGood(mem.certs, Homes(f))
        /\ DOMAIN mem = M!Memory /\ DOMAIN pg = P!Postgres
        /\ P!Has(pg.tenants, t) <=> t \in DOMAIN mem.tenants
        /\ P!Has(pg.hosts, h) <=> h \in DOMAIN f
        /\ P!Has(pg.certificates, fp) <=> fp \in DOMAIN mem.certs
    BY HostFacts
  <1>2. t \in DOMAIN mem.tenants => P!At(pg.tenants, t).row.hostLimit = limit
    <2>1. pg.tenants = Keyed(mem.tenants)
      BY DEF Paired, Lockstep, Mirrors
    <2>2. t \in DOMAIN mem.tenants => P!At(pg.tenants, t) = KeyedRow(mem.tenants, t)
      BY <2>1, KeyedHas
    <2> QED BY <2>2 DEF KeyedRow
  <1>3. P!EnrolmentBreaksIndex(pg, t, h, host, fp) <=> clash
    <2>1. \A x \in M!ActiveHosts(mem, t) : OwnedRow(f, x).row.machineID = f[x].row.machineID
      BY DEF OwnedRow
    <2>2. (\E r \in P!ActiveHosts(pg, t) : r.row.machineID = host.machineID)
          <=> \E x \in M!ActiveHosts(mem, t) : f[x].row.machineID = host.machineID
      BY <2>1, ActiveAlike
    <2> QED BY <1>1, <2>2, Shared DEF P!EnrolmentBreaksIndex
  <1>4. Cardinality(P!ActiveHosts(pg, t)) = Cardinality(M!ActiveHosts(mem, t))
    BY ActiveAlike
  <1>5. CASE t \notin DOMAIN mem.tenants
    <2>1. M!CreateEnrolledHost(mem, t, h, host, fp, cert) = Fail(mem, "error")
      BY <1>5, Shared DEF M!CreateEnrolledHost
    <2>2. P!CreateEnrolledHost(pg, t, h, host, fp, cert) = Fail(pg, "ErrNotFound")
      BY <1>1, <1>5, Shared DEF P!CreateEnrolledHost
    <2> QED BY <1>5, <2>1, <2>2, RefusedAlike DEF Answers
  <1>6. CASE t \in DOMAIN mem.tenants /\ full
    <2>1. M!CreateEnrolledHost(mem, t, h, host, fp, cert) = Fail(mem, "ErrHostLimitReached")
      BY <1>6, Shared, Counting DEF M!CreateEnrolledHost
    <2>2. P!CreateEnrolledHost(pg, t, h, host, fp, cert) = Fail(pg, "ErrHostLimitReached")
      BY <1>1, <1>2, <1>4, <1>6, Shared, Counting DEF P!CreateEnrolledHost
    <2> QED BY <2>1, <2>2, RefusedAlike DEF Answers
  <1>7. CASE t \in DOMAIN mem.tenants /\ ~full /\ clash
    <2>1. M!CreateEnrolledHost(mem, t, h, host, fp, cert) = Fail(mem, "ErrConflict")
      BY <1>7, Shared, Counting DEF M!CreateEnrolledHost
    <2>2. P!CreateEnrolledHost(pg, t, h, host, fp, cert) = Fail(pg, "ErrConflict")
      BY <1>1, <1>2, <1>3, <1>4, <1>7, Shared, Counting DEF P!CreateEnrolledHost
    <2> QED BY <2>1, <2>2, RefusedAlike DEF Answers
  <1>8. CASE t \in DOMAIN mem.tenants /\ ~full /\ ~clash
    <2> DEFINE ownHost == [tenant |-> t, row |-> host]
               ownCert == [tenant |-> t, row |-> cert]
               g == Put(f, h, ownHost)
               c == Put(mem.certs, fp, ownCert)
               n == [mem EXCEPT !.hosts = g, !.certs = c]
               db == [pg EXCEPT !.hosts = @ \cup {[id |-> h, tenant |-> t, row |-> host]},
                                !.certificates = @ \cup {[id |-> fp, tenant |-> t, row |-> cert]}]
    <2>1. M!CreateEnrolledHost(mem, t, h, host, fp, cert) = Done(n)
      BY <1>8, Shared, Counting DEF M!CreateEnrolledHost
    <2>2. P!CreateEnrolledHost(pg, t, h, host, fp, cert) = Done(db)
      BY <1>1, <1>2, <1>3, <1>4, <1>8, Shared, Counting DEF P!CreateEnrolledHost
    <2>3. MemOnly(n, {"hosts", "certs"}) /\ n.hosts = g /\ n.certs = c
      BY <1>1 DEF MemOnly, M!Memory
    <2>4. /\ PgOnly(db, {"hosts", "certificates"})
          /\ db.hosts = Owned(f) \cup {[id |-> h, tenant |-> t, row |-> host]}
          /\ db.certificates = Owned(mem.certs) \cup {[id |-> fp, tenant |-> t, row |-> cert]}
      BY <1>1 DEF PgOnly, P!Postgres
    <2>5. db.hosts = Owned(g) /\ db.certificates = Owned(c)
      BY <1>8, <2>4, OwnedAdd
    <2>6. /\ ownHost \in Ours(Host) /\ ownHost.tenant = t /\ ownHost.row = host
          /\ ownCert \in Ours(Certificate) /\ ownCert.tenant = t /\ ownCert.row = cert
      BY DEF Ours, Belonging
    <2> HIDE DEF n, db, ownHost, ownCert
    <2>7. DOMAIN g = DOMAIN f \cup {h} /\ g[h] = ownHost /\ \A x \in DOMAIN f : g[x] = f[x]
      BY <1>8 DEF Put
    <2>8. DOMAIN c = DOMAIN mem.certs \cup {fp} /\ c[fp] = ownCert /\ \A x \in DOMAIN mem.certs : c[x] = mem.certs[x]
      BY <1>8 DEF Put
    <2>9. /\ MapsTo(g, HostIDs, Ours(Host)) /\ IsFiniteSet(DOMAIN g)
          /\ MapsTo(c, Fingerprints, Ours(Certificate)) /\ IsFiniteSet(DOMAIN c)
      BY <1>1, <2>6, PutKeeps, PutFinite DEF HostsGood, CertsGood
    <2>10. \A s \in Sides : s # t => SameBeside(f, g, s) /\ SameBeside(mem.certs, c, s)
      BY <1>8, <2>6, PutApart
    <2> HIDE DEF g, c
    <2>11. HostsGood(g, DOMAIN mem.tenants)
      <3>1. \A x \in DOMAIN g : g[x].tenant \in DOMAIN mem.tenants
        BY <1>1, <1>8, <2>6, <2>7 DEF HostsGood
      <3>2. ASSUME NEW x \in DOMAIN f, f[x].tenant = t, ~f[x].row.revoked, f[x].row.machineID = host.machineID,
                   host.machineID # None
            PROVE  FALSE
        <4>1. x \in M!ActiveHosts(mem, t)
          BY <3>2 DEF M!ActiveHosts, M!Beside
        <4> QED BY <1>8, <3>2, <4>1
      <3>3. ASSUME NEW x \in DOMAIN g, NEW y \in DOMAIN g, g[x].tenant = g[y].tenant, ~g[x].row.revoked, ~g[y].row.revoked,
                   g[x].row.machineID = g[y].row.machineID, g[x].row.machineID # None
            PROVE  x = y
        <4>1. CASE x = h /\ y = h
          BY <4>1
        <4>2. CASE x = h /\ y # h
          BY <2>6, <2>7, <3>2, <3>3, <4>2
        <4>3. CASE x # h /\ y = h
          BY <2>6, <2>7, <3>2, <3>3, <4>3
        <4>4. CASE x # h /\ y # h
          BY <1>1, <2>7, <3>3, <4>4 DEF HostsGood
        <4> QED BY <4>1, <4>2, <4>3, <4>4
      <3> QED BY <2>9, <3>1, <3>3 DEF HostsGood
    <2>12. ASSUME NEW s, NEW x
           PROVE  <<s, x>> \in Homes(g) <=> <<s, x>> \in Homes(f) \/ (s = t /\ x = h)
      <3>1. <<s, x>> \in Homes(g) <=> x \in DOMAIN g /\ g[x].tenant = s
        BY HomesHave
      <3>2. <<s, x>> \in Homes(f) <=> x \in DOMAIN f /\ f[x].tenant = s
        BY HomesHave
      <3> QED BY <1>8, <2>6, <2>7, <3>1, <3>2
    <2>13. Homes(f) \subseteq Homes(g)
      BY <2>12 DEF Homes
    <2>14. CertsGood(c, Homes(g))
      <3>1. \A x \in DOMAIN c : <<c[x].tenant, c[x].row.host>> \in Homes(g)
        BY <1>1, <2>6, <2>8, <2>12 DEF CertsGood
      <3> QED BY <2>9, <3>1 DEF CertsGood
    <2>15. Visible(mem.transitions, Homes(g)) = Visible(mem.transitions, Homes(f))
      BY <2>12 DEF Visible
    <2>16. Lockstep(n, db) /\ Apart(t, n)
      BY <2>3, <2>4, <2>5, <2>10, <2>11, <2>13, <2>14, <2>15, HostsOnly
    <2> QED BY <2>1, <2>2, <2>16, DoneAlike
  <1> QED BY <1>5, <1>6, <1>7, <1>8

-----------------------------------------------------------------------------
(* Jobs. *)

\* What the two stores know of jobs and results.
LEMMA JobFacts ==
    ASSUME Paired, NEW t, NEW id, NEW h
    PROVE  /\ pg.jobs = Inside(mem.records) /\ pg.job_results = Inside(mem.results)
           /\ JobsGood(mem.jobs, mem.records, mem.results, Homes(mem.hosts))
           /\ DOMAIN mem = M!Memory /\ DOMAIN pg = P!Postgres
           /\ P!HasIn(pg.jobs, t, id) <=> <<t, id>> \in DOMAIN mem.records
           /\ P!HasIn(pg.job_results, t, id) <=> <<t, id>> \in DOMAIN mem.results
           /\ P!HasIn(pg.hosts, t, h) <=> M!HasHost(mem, t, h)
           /\ M!HasHost(mem, t, h) <=> <<t, h>> \in Homes(mem.hosts)
  <1>1. pg.jobs = Inside(mem.records) /\ pg.job_results = Inside(mem.results)
    BY DEF Paired, Lockstep, Mirrors
  <1>2. JobsGood(mem.jobs, mem.records, mem.results, Homes(mem.hosts))
    BY DEF Paired, Lockstep, Good
  <1>3. DOMAIN mem.records \subseteq Tenants \X JobIDs /\ DOMAIN mem.results \subseteq Tenants \X JobIDs
    BY <1>2 DEF JobsGood, MapsTo
  <1>4. P!HasIn(pg.jobs, t, id) <=> <<t, id>> \in DOMAIN mem.records
    BY <1>1, <1>3, InsideHas
  <1>5. P!HasIn(pg.job_results, t, id) <=> <<t, id>> \in DOMAIN mem.results
    BY <1>1, <1>3, InsideHas
  <1> QED BY <1>1, <1>2, <1>4, <1>5, HostFacts

\* The jobs of one fleet, in either store.
LEMMA JobRows ==
    ASSUME Paired, NEW t
    PROVE  /\ \A r : r \in P!InTenant(pg.jobs, t) <=> \E k \in M!InKey(mem.records, t) : r = InsideRow(mem.records, k)
           /\ \A k \in M!InKey(mem.records, t) :
                /\ InsideRow(mem.records, k).id = k[2] /\ InsideRow(mem.records, k).tenant = t
                /\ InsideRow(mem.records, k).row = mem.records[k]
                /\ k = <<t, k[2]>> /\ k[2] \in JobIDs /\ k \in DOMAIN mem.records
  <1>1. pg.jobs = Inside(mem.records) /\ DOMAIN mem.records \subseteq Tenants \X JobIDs
    BY DEF Paired, Lockstep, Mirrors, Good, JobsGood, MapsTo
  <1>2. ASSUME NEW k \in M!InKey(mem.records, t)
        PROVE  k = <<t, k[2]>> /\ k[2] \in JobIDs /\ k \in DOMAIN mem.records /\ k[1] = t
    BY <1>1 DEF M!InKey
  <1> QED BY <1>1, <1>2, InsideIn DEF InsideRow

\* The queue of one host rewritten.
LEMMA QueuedPut ==
    ASSUME NEW q, NEW t, NEW h, NEW S, NEW s, NEW x
    PROVE  Queued(Put(q, <<t, h>>, S), s, x) = IF s = t /\ x = h THEN S ELSE Queued(q, s, x)
  <1>1. <<s, x>> = <<t, h>> <=> s = t /\ x = h
    OBVIOUS
  <1> QED BY <1>1 DEF Queued, Put

\* CreateJob is answered alike.
LEMMA CreateJobAlike ==
    ASSUME Paired, NEW t \in Tenants, NEW id \in JobIDs, NEW job \in JobRecord,
           job.approvedBy = None, ~job.claimed, ~job.completed,
           M!HasHost(mem, t, job.host) \/ <<t, id>> \notin DOMAIN mem.records
    PROVE  Alike(t, M!CreateJob(mem, t, id, job), P!CreateJob(pg, t, id, job))
  <1> DEFINE h == job.host
             k == <<t, id>>
             r == mem.records
             q == mem.jobs
             clash == \/ k \in DOMAIN r
                      \/ job.signed /\ \E x \in M!InKey(r, t) : r[x].host = h /\ r[x].nonce = job.nonce /\ r[x].signed
  <1>1. /\ pg.jobs = Inside(r) /\ pg.job_results = Inside(mem.results)
        /\ JobsGood(q, r, mem.results, Homes(mem.hosts))
        /\ DOMAIN mem = M!Memory /\ DOMAIN pg = P!Postgres
        /\ P!HasIn(pg.jobs, t, id) <=> k \in DOMAIN r
        /\ P!HasIn(pg.hosts, t, h) <=> M!HasHost(mem, t, h)
        /\ M!HasHost(mem, t, h) <=> <<t, h>> \in Homes(mem.hosts)
    BY JobFacts
  <1>2. P!JobBreaksIndex(pg, t, id, job) <=> clash
    <2>1. (\E x \in P!InTenant(pg.jobs, t) : x.row.host = h /\ x.row.nonce = job.nonce /\ x.row.signed)
          <=> \E x \in M!InKey(r, t) : r[x].host = h /\ r[x].nonce = job.nonce /\ r[x].signed
      BY JobRows
    <2> QED BY <1>1, <2>1 DEF P!JobBreaksIndex
  <1>3. CASE ~M!HasHost(mem, t, h)
    <2>1. ~clash
      <3>1. ASSUME NEW x \in M!InKey(r, t), r[x].host = h PROVE FALSE
        BY <1>1, <1>3, <3>1 DEF JobsGood, M!InKey
      <3> QED BY <1>3, <3>1
    <2>2. M!CreateJob(mem, t, id, job) = Fail(mem, "ErrNotFound")
      BY <1>3, Shared DEF M!CreateJob
    <2>3. P!CreateJob(pg, t, id, job) = Fail(pg, "ErrNotFound")
      BY <1>1, <1>2, <1>3, <2>1, Shared DEF P!CreateJob
    <2> QED BY <2>2, <2>3, RefusedAlike DEF Answers
  <1>4. CASE M!HasHost(mem, t, h) /\ clash
    <2>1. M!CreateJob(mem, t, id, job) = Fail(mem, "ErrConflict")
      BY <1>4, Shared DEF M!CreateJob
    <2>2. P!CreateJob(pg, t, id, job) = Fail(pg, "ErrConflict")
      BY <1>2, <1>4, Shared DEF P!CreateJob
    <2> QED BY <2>1, <2>2, RefusedAlike DEF Answers
  <1>5. CASE M!HasHost(mem, t, h) /\ ~clash
    <2> DEFINE g == Put(r, k, job)
               p == IF job.approvalRequired THEN q ELSE Put(q, <<t, h>>, Queued(q, t, h) \cup {id})
               n == [mem EXCEPT !.records = g, !.jobs = p]
               db == [pg EXCEPT !.jobs = @ \cup {[id |-> id, tenant |-> t, row |-> job]}]
    <2>1. M!CreateJob(mem, t, id, job) = Done(n)
      BY <1>5, Shared DEF M!CreateJob, M!QueueOf, Queued
    <2>2. P!CreateJob(pg, t, id, job) = Done(db)
      BY <1>1, <1>2, <1>5, Shared DEF P!CreateJob
    <2> HIDE DEF p
    <2>3. MemOnly(n, {"jobs", "records", "results"}) /\ n.records = g /\ n.jobs = p /\ n.results = mem.results
      BY <1>1 DEF MemOnly, M!Memory
    <2>4. /\ PgOnly(db, {"jobs", "job_results"}) /\ db.jobs = Inside(r) \cup {[id |-> id, tenant |-> t, row |-> job]}
          /\ db.job_results = pg.job_results
      BY <1>1 DEF PgOnly, P!Postgres
    <2>5. db.jobs = Inside(g)
      BY <1>5, <2>4, InsideAdd
    <2> HIDE DEF n, db
    <2>6. DOMAIN g = DOMAIN r \cup {k} /\ g[k] = job /\ \A x \in DOMAIN r : g[x] = r[x]
      BY <1>5 DEF Put
    <2>7. MapsTo(g, Tenants \X JobIDs, JobRecord)
      <3>1. k \in Tenants \X JobIDs
        OBVIOUS
      <3> QED BY <1>1, <3>1, PutKeeps DEF JobsGood
    <2>8. \A s \in Sides : s # t => SameInKey(r, g, s) /\ SameInKey(mem.results, mem.results, s)
      <3>1. k[1] = t
        OBVIOUS
      <3> QED BY <3>1, PutApart, SameSelf
    <2> HIDE DEF g
    <2>9. ASSUME NEW s \in Tenants, NEW x \in HostIDs PROVE Queued(p, s, x) = Waiting(g, s, x)
      <3>1. Queued(p, s, x) = IF ~job.approvalRequired /\ s = t /\ x = h THEN Queued(q, t, h) \cup {id} ELSE Queued(q, s, x)
        <4>1. CASE job.approvalRequired
          BY <4>1 DEF p
        <4>2. CASE ~job.approvalRequired
          <5>1. PICK S : S = Queued(q, t, h) \cup {id}
            OBVIOUS
          <5>2. p = Put(q, <<t, h>>, S)
            BY <4>2, <5>1 DEF p
          <5>3. Queued(p, s, x) = IF s = t /\ x = h THEN S ELSE Queued(q, s, x)
            BY <5>2, QueuedPut
          <5> QED BY <4>2, <5>1, <5>3
        <4> QED BY <4>1, <4>2
      <3>2. Queued(q, s, x) = Waiting(r, s, x)
        BY <1>1 DEF JobsGood
      <3>3. ASSUME NEW j \in JobIDs, s # t \/ j # id PROVE j \in Waiting(g, s, x) <=> j \in Waiting(r, s, x)
        <4>1. <<s, j>> # k
          BY <3>3
        <4>2. <<s, j>> \in DOMAIN g <=> <<s, j>> \in DOMAIN r
          BY <2>6, <4>1
        <4>3. <<s, j>> \in DOMAIN r => g[<<s, j>>] = r[<<s, j>>]
          BY <2>6
        <4> QED BY <4>2, <4>3 DEF Waiting
      <3>4. s = t => id \notin Waiting(r, s, x)
        BY <1>5 DEF Waiting
      <3>5. s = t => (id \in Waiting(g, s, x) <=> x = h /\ ~job.approvalRequired)
        BY <2>6 DEF Waiting, AwaitingApproval
      <3>6. Waiting(g, s, x) \subseteq JobIDs /\ Waiting(r, s, x) \subseteq JobIDs
        BY DEF Waiting
      <3> QED BY <3>1, <3>2, <3>3, <3>4, <3>5, <3>6
    <2>10. MapsTo(p, Tenants \X HostIDs, SUBSET JobIDs) /\ DOMAIN p \subseteq Homes(mem.hosts)
      <3>1. <<t, h>> \in Tenants \X HostIDs /\ <<t, h>> \in Homes(mem.hosts)
        BY <1>1, <1>5 DEF JobRecord
      <3>2. Queued(q, t, h) \cup {id} \in SUBSET JobIDs
        BY <1>1 DEF Queued, JobsGood, MapsTo
      <3>3. MapsTo(q, Tenants \X HostIDs, SUBSET JobIDs) /\ DOMAIN q \subseteq Homes(mem.hosts)
        BY <1>1 DEF JobsGood
      <3>4. DOMAIN Put(q, <<t, h>>, Queued(q, t, h) \cup {id}) = DOMAIN q \cup {<<t, h>>}
        BY DEF Put
      <3> QED BY <3>1, <3>2, <3>3, <3>4, PutKeeps DEF p
    <2>11. \A x \in DOMAIN g : <<x[1], g[x].host>> \in Homes(mem.hosts)
      <3>1. k[1] = t
        OBVIOUS
      <3> QED BY <1>1, <1>5, <2>6, <3>1 DEF JobsGood
    <2>12. /\ \A x \in DOMAIN g : g[x].claimed => ~AwaitingApproval(g[x])
           /\ \A x \in DOMAIN g : g[x].completed => g[x].claimed
           /\ DOMAIN mem.results \subseteq DOMAIN g /\ \A x \in DOMAIN mem.results : g[x].completed
      BY <1>1, <2>6 DEF JobsGood
    <2>13. MapsTo(mem.results, Tenants \X JobIDs, {"completed", "failed"})
      BY <1>1 DEF JobsGood
    <2>14. JobsGood(p, g, mem.results, Homes(mem.hosts))
      BY <2>7, <2>9, <2>10, <2>11, <2>12, <2>13 DEF JobsGood
    <2>15. Lockstep(n, db) /\ Apart(t, n)
      BY <1>1, <2>3, <2>4, <2>5, <2>8, <2>14, JobsOnly
    <2> QED BY <2>1, <2>2, <2>15, DoneAlike
  <1> QED BY <1>3, <1>4, <1>5

\* Who waits when one job is written anew.
LEMMA WaitingSet ==
    ASSUME NEW r, NEW k \in DOMAIN r, NEW t, NEW id \in JobIDs, k = <<t, id>>, NEW v, NEW s, NEW x
    PROVE  /\ s # t => Waiting(SetAt(r, k, v), s, x) = Waiting(r, s, x)
           /\ s = t /\ v.host = x /\ ~AwaitingApproval(v) /\ ~v.claimed
              => Waiting(SetAt(r, k, v), s, x) = Waiting(r, s, x) \cup {id}
           /\ s = t /\ ~(v.host = x /\ ~AwaitingApproval(v) /\ ~v.claimed)
              => Waiting(SetAt(r, k, v), s, x) = Waiting(r, s, x) \ {id}
  <1> DEFINE g == SetAt(r, k, v)
  <1>1. DOMAIN g = DOMAIN r /\ g[k] = v /\ \A y \in DOMAIN r : y # k => g[y] = r[y]
    BY DEF SetAt
  <1>2. ASSUME NEW j PROVE <<s, j>> = k <=> s = t /\ j = id
    OBVIOUS
  <1> HIDE DEF g
  <1>3. ASSUME NEW j \in JobIDs, s # t \/ j # id PROVE j \in Waiting(g, s, x) <=> j \in Waiting(r, s, x)
    <2>1. <<s, j>> # k
      BY <1>2, <1>3
    <2>2. <<s, j>> \in DOMAIN r => g[<<s, j>>] = r[<<s, j>>]
      BY <1>1, <2>1
    <2> QED BY <1>1, <2>2 DEF Waiting
  <1>4. s = t => (id \in Waiting(g, s, x) <=> v.host = x /\ ~AwaitingApproval(v) /\ ~v.claimed)
    BY <1>1 DEF Waiting
  <1>5. Waiting(g, s, x) \subseteq JobIDs /\ Waiting(r, s, x) \subseteq JobIDs
    BY DEF Waiting
  <1>6. CASE s = t
    BY <1>3, <1>4, <1>5, <1>6 DEF g
  <1>7. CASE s # t
    BY <1>3, <1>5, <1>7 DEF g
  <1> QED BY <1>6, <1>7

\* One job written anew: what else has to be shown.
LEMMA JobSet ==
    ASSUME NEW q, NEW r, NEW s, NEW homes, JobsGood(q, r, s, homes), NEW k \in DOMAIN r, NEW v \in JobRecord,
           v.host = r[k].host, v.claimed => ~AwaitingApproval(v), v.completed => v.claimed, r[k].completed => v.completed,
           NEW p, MapsTo(p, Tenants \X HostIDs, SUBSET JobIDs), DOMAIN p \subseteq homes,
           \A t \in Tenants, h \in HostIDs : Queued(p, t, h) = Waiting(SetAt(r, k, v), t, h)
    PROVE  JobsGood(p, SetAt(r, k, v), s, homes)
  <1> DEFINE g == SetAt(r, k, v)
  <1>1. MapsTo(r, Tenants \X JobIDs, JobRecord)
    BY DEF JobsGood
  <1>2. /\ DOMAIN g = DOMAIN r /\ g[k] = v /\ \A x \in DOMAIN r : x # k => g[x] = r[x]
        /\ MapsTo(g, Tenants \X JobIDs, JobRecord)
    BY <1>1, AtSet
  <1>3. \A t \in Tenants, h \in HostIDs : Queued(p, t, h) = Waiting(g, t, h)
    OBVIOUS
  <1> HIDE DEF g
  <1>4. \A x \in DOMAIN g : <<x[1], g[x].host>> \in homes
    BY <1>2 DEF JobsGood
  <1>5. \A x \in DOMAIN g : (g[x].claimed => ~AwaitingApproval(g[x])) /\ (g[x].completed => g[x].claimed)
    BY <1>2 DEF JobsGood
  <1>6. DOMAIN s \subseteq DOMAIN g /\ \A x \in DOMAIN s : g[x].completed
    BY <1>2 DEF JobsGood
  <1>7. MapsTo(s, Tenants \X JobIDs, {"completed", "failed"})
    BY DEF JobsGood
  <1> QED BY <1>2, <1>3, <1>4, <1>5, <1>6, <1>7 DEF JobsGood, g

\* The table of one job written anew.
LEMMA JobWritten ==
    ASSUME Paired, NEW k \in DOMAIN mem.records, NEW v \in JobRecord, NEW u,
           NEW touched, \A x \in pg.jobs : x \in touched => x.tenant = k[1] /\ x.id = k[2],
           \A x \in pg.jobs : x.tenant = k[1] /\ x.id = k[2] /\ x.row = mem.records[k] => x \in touched,
           \A x \in pg.jobs : x \in touched /\ x.row = mem.records[k] => u[x] = NewRow(x, v),
           \A x \in pg.jobs : x \notin touched => u[x] = x
    PROVE  /\ Rewrites(u, pg.jobs) = Inside(SetAt(mem.records, k, v))
           /\ \A s : s # k[1] => SameInKey(mem.records, SetAt(mem.records, k, v), s)
  <1> DEFINE r == mem.records
  <1>1. pg.jobs = Inside(r) /\ MapsTo(r, Tenants \X JobIDs, JobRecord)
    BY DEF Paired, Lockstep, Mirrors, Good, JobsGood
  <1>2. /\ \A x \in Inside(r) : x.id = k[2] /\ x.tenant = k[1] /\ x.row = r[k] => u[x] = NewRow(x, v)
        /\ \A x \in Inside(r) : x.id # k[2] \/ x.tenant # k[1] => u[x] = x
    BY <1>1
  <1>3. \A x \in DOMAIN r : x[1] = k[1] /\ x[2] = k[2] => x = k
    BY <1>1 DEF MapsTo
  <1>4. Rewrites(u, pg.jobs) = Inside(SetAt(r, k, v))
    <2>1. Rewrites(u, Inside(r)) = Inside(SetAt(r, k, v))
      BY <1>2, <1>3, InsideUpdated
    <2> QED BY <1>1, <2>1
  <1>5. \A s : s # k[1] => SameInKey(r, SetAt(r, k, v), s)
    BY <1>1, AtSet
  <1> QED BY <1>4, <1>5

\* ApproveJob is answered alike.
LEMMA ApproveJobAlike ==
    ASSUME Paired, NEW t \in Tenants, NEW id \in JobIDs, NEW approver \in Operators
    PROVE  Alike(t, M!ApproveJob(mem, t, id, approver), P!ApproveJob(pg, t, id, approver))
  <1> DEFINE r == mem.records
             q == mem.jobs
             k == <<t, id>>
             h == r[k].host
             can(y) == y.approvalRequired /\ y.approvedBy = None /\ (~y.distinctOperator \/ y.createdBy # approver)
             approvable == {x \in P!InTenant(pg.jobs, t) : /\ x.id = id /\ x.row.approvalRequired
                                                           /\ x.row.approvedBy = None
                                                           /\ ~x.row.distinctOperator \/ x.row.createdBy # approver}
  <1>1. /\ pg.jobs = Inside(r) /\ pg.job_results = Inside(mem.results)
        /\ JobsGood(q, r, mem.results, Homes(mem.hosts))
        /\ DOMAIN mem = M!Memory /\ DOMAIN pg = P!Postgres
        /\ P!HasIn(pg.jobs, t, id) <=> k \in DOMAIN r
    BY JobFacts
  <1>2. \A x \in approvable : x \in pg.jobs /\ x.tenant = t /\ x.id = id
    BY DEF P!InTenant
  <1>3. ASSUME k \in DOMAIN r
        PROVE  /\ InsideRow(r, k) \in P!InTenant(pg.jobs, t) /\ InsideRow(r, k).id = id /\ InsideRow(r, k).row = r[k]
               /\ \A x \in P!InTenant(pg.jobs, t) : x.id = id => x = InsideRow(r, k)
    <2>1. k[1] = t /\ k[2] = id /\ k \in M!InKey(r, t)
      BY <1>3 DEF M!InKey
    <2> HIDE DEF k
    <2>2. InsideRow(r, k) \in P!InTenant(pg.jobs, t) /\ InsideRow(r, k).id = id /\ InsideRow(r, k).row = r[k]
      BY <2>1, JobRows
    <2>3. ASSUME NEW x \in P!InTenant(pg.jobs, t), x.id = id PROVE x = InsideRow(r, k)
      <3>1. PICK y \in M!InKey(r, t) : x = InsideRow(r, y)
        BY JobRows
      <3>2. y = <<t, y[2]>> /\ y[2] = id
        BY <2>3, <3>1, JobRows
      <3> QED BY <3>1, <3>2 DEF k
    <2> QED BY <2>2, <2>3
  <1>4. k \notin DOMAIN r => approvable = {}
    BY <1>1, <1>2 DEF P!HasIn
  <1>5. k \in DOMAIN r => (approvable # {} <=> can(r[k]))
    <2>1. ASSUME k \in DOMAIN r, can(r[k]) PROVE InsideRow(r, k) \in approvable
      BY <1>3, <2>1
    <2>2. ASSUME k \in DOMAIN r, NEW x \in approvable PROVE can(r[k])
      BY <1>3, <2>2
    <2> QED BY <2>1, <2>2
  <1>6. CASE k \notin DOMAIN r
    <2>1. M!ApproveJob(mem, t, id, approver) = Fail(mem, "ErrNotFound")
      BY <1>6, Shared DEF M!ApproveJob
    <2>2. P!ApproveJob(pg, t, id, approver) = Fail(pg, "ErrNotFound")
      BY <1>1, <1>4, <1>6, Shared DEF P!ApproveJob
    <2> QED BY <2>1, <2>2, RefusedAlike DEF Answers
  <1>7. CASE k \in DOMAIN r /\ ~can(r[k])
    <2>1. M!ApproveJob(mem, t, id, approver) = Fail(mem, "ErrConflict")
      BY <1>7, Shared DEF M!ApproveJob
    <2>2. P!ApproveJob(pg, t, id, approver) = Fail(pg, "ErrConflict")
      BY <1>1, <1>5, <1>7, Shared DEF P!ApproveJob
    <2> QED BY <2>1, <2>2, RefusedAlike DEF Answers
  <1>8. CASE k \in DOMAIN r /\ can(r[k])
    <2> DEFINE v == [r[k] EXCEPT !.approvedBy = approver]
               g == SetAt(r, k, v)
               S == Queued(q, t, h) \cup {id}
               p == Put(q, <<t, h>>, S)
               u == [x \in pg.jobs |-> IF x \in approvable THEN [x EXCEPT !.row = [x.row EXCEPT !.approvedBy = approver]] ELSE x]
               n == [mem EXCEPT !.records = g, !.jobs = p]
               db == [pg EXCEPT !.jobs = Rewrites(u, @)]
    <2>1. M!ApproveJob(mem, t, id, approver) = Done(n)
      BY <1>1, <1>8, Shared DEF M!ApproveJob, M!QueueOf, Queued, SetAt, M!Memory
    <2>2. P!ApproveJob(pg, t, id, approver) = Done(db)
      BY <1>1, <1>5, <1>8, Shared, ZenonT(30) DEF P!ApproveJob, P!Update, P!Postgres, Rewrites
    <2>3. r[k] \in JobRecord /\ k \in Tenants \X JobIDs
      BY <1>1, <1>8 DEF JobsGood, MapsTo
    <2>4. v \in JobRecord
      BY <2>3 DEF JobRecord
    <2>5. v.host = h /\ ~AwaitingApproval(v) /\ v.claimed = r[k].claimed /\ v.completed = r[k].completed
      BY <2>3, BoundsAssumption DEF JobRecord, AwaitingApproval
    <2>6. ~v.claimed
      BY <1>1, <1>8, <2>5 DEF JobsGood, AwaitingApproval
    <2>7. Rewrites(u, pg.jobs) = Inside(g) /\ \A s : s # t => SameInKey(r, g, s)
      <3>1. \A x \in pg.jobs : x \in approvable => x.tenant = t /\ x.id = id
        BY <1>2
      <3>2. \A x \in pg.jobs : x.tenant = t /\ x.id = id /\ x.row = r[k] => x \in approvable
        BY <1>8 DEF P!InTenant
      <3>3. \A x \in pg.jobs : x \in approvable /\ x.row = r[k] => u[x] = NewRow(x, v)
        BY DEF NewRow
      <3>4. \A x \in pg.jobs : x \notin approvable => u[x] = x
        OBVIOUS
      <3>5. k[1] = t /\ k[2] = id
        OBVIOUS
      <3> HIDE DEF approvable, u, v, k
      <3> QED BY <1>8, <2>4, <3>1, <3>2, <3>3, <3>4, <3>5, JobWritten
    <2> HIDE DEF u, v, p
    <2>8. MemOnly(n, {"jobs", "records", "results"}) /\ n.records = g /\ n.jobs = p /\ n.results = mem.results
      BY <1>1 DEF MemOnly, M!Memory
    <2>9. PgOnly(db, {"jobs", "job_results"}) /\ db.jobs = Inside(g) /\ db.job_results = Inside(mem.results)
      BY <1>1, <2>7 DEF PgOnly, P!Postgres
    <2> HIDE DEF n, db
    <2>10. MapsTo(p, Tenants \X HostIDs, SUBSET JobIDs) /\ DOMAIN p \subseteq Homes(mem.hosts)
      <3>1. <<t, h>> \in Tenants \X HostIDs
        BY <2>3 DEF JobRecord
      <3>2. <<t, h>> \in Homes(mem.hosts)
        <4>1. k[1] = t
          OBVIOUS
        <4> QED BY <1>1, <1>8, <4>1 DEF JobsGood
      <3>3. S \in SUBSET JobIDs
        BY <1>1 DEF Queued, JobsGood, MapsTo
      <3>4. MapsTo(q, Tenants \X HostIDs, SUBSET JobIDs) /\ DOMAIN q \subseteq Homes(mem.hosts)
        BY <1>1 DEF JobsGood
      <3>5. DOMAIN p = DOMAIN q \cup {<<t, h>>}
        BY DEF Put, p
      <3> HIDE DEF S
      <3> QED BY <3>1, <3>2, <3>3, <3>4, <3>5, PutKeeps DEF p
    <2>11. ASSUME NEW s \in Tenants, NEW x \in HostIDs PROVE Queued(p, s, x) = Waiting(g, s, x)
      <3>1. Queued(p, s, x) = IF s = t /\ x = h THEN S ELSE Queued(q, s, x)
        <4> HIDE DEF S
        <4> QED BY QueuedPut DEF p
      <3>2. Queued(q, s, x) = Waiting(r, s, x)
        BY <1>1 DEF JobsGood
      <3>3. s = t => id \notin Waiting(r, s, x)
        BY <1>8 DEF Waiting, AwaitingApproval
      <3>4. /\ s # t => Waiting(g, s, x) = Waiting(r, s, x)
            /\ s = t /\ v.host = x => Waiting(g, s, x) = Waiting(r, s, x) \cup {id}
            /\ s = t /\ v.host # x => Waiting(g, s, x) = Waiting(r, s, x) \ {id}
        <4>1. k = <<t, id>>
          OBVIOUS
        <4> HIDE DEF k
        <4> QED BY <1>8, <2>5, <2>6, <4>1, WaitingSet
      <3>5. CASE s = t /\ x = h
        BY <2>5, <2>6, <3>1, <3>2, <3>3, <3>4, <3>5
      <3>6. CASE s = t /\ x # h
        BY <2>5, <2>6, <3>1, <3>2, <3>3, <3>4, <3>6
      <3>7. CASE s # t
        BY <3>1, <3>2, <3>4, <3>7
      <3> QED BY <3>5, <3>6, <3>7
    <2>12. v.completed => v.claimed
      BY <1>1, <1>8, <2>5 DEF JobsGood
    <2>13. JobsGood(p, g, mem.results, Homes(mem.hosts))
      BY <1>1, <1>8, <2>4, <2>5, <2>6, <2>10, <2>11, <2>12, JobSet
    <2>14. \A s \in Sides : s # t => SameInKey(r, g, s) /\ SameInKey(mem.results, n.results, s)
      BY <2>7, <2>8, SameSelf
    <2>15. Lockstep(n, db) /\ Apart(t, n)
      BY <2>8, <2>9, <2>13, <2>14, JobsOnly
    <2> QED BY <2>1, <2>2, <2>15, DoneAlike
  <1> QED BY <1>6, <1>7, <1>8

\* ClaimJobs takes the same jobs from the queue as from the history.
LEMMA ClaimJobsAlike ==
    ASSUME Paired, NEW t \in Tenants, NEW h \in HostIDs
    PROVE  Alike(t, M!ClaimJobs(mem, t, h, now), P!ClaimJobs(pg, t, h, now))
  <1> DEFINE r == mem.records
             q == mem.jobs
             due == {id \in Queued(q, t, h) : r[<<t, id>>].notBefore <= now}
             left == Queued(q, t, h) \ due
             rows == {x \in P!InTenant(pg.jobs, t) : /\ x.row.host = h /\ ~x.row.claimed /\ ~x.row.completed
                                                     /\ ~x.row.approvalRequired \/ x.row.approvedBy # None
                                                     /\ x.row.notBefore <= now}
             u == [x \in pg.jobs |-> IF x \in rows THEN [x EXCEPT !.row = [x.row EXCEPT !.claimed = TRUE]] ELSE x]
             db == [pg EXCEPT !.jobs = Rewrites(u, @)]
  <1>1. /\ pg.jobs = Inside(r) /\ pg.job_results = Inside(mem.results)
        /\ JobsGood(q, r, mem.results, Homes(mem.hosts))
        /\ DOMAIN mem = M!Memory /\ DOMAIN pg = P!Postgres
    BY JobFacts
  <1>2. Queued(q, t, h) = Waiting(r, t, h)
    BY <1>1 DEF JobsGood
  <1>3. ASSUME NEW k \in DOMAIN r
        PROVE  /\ InsideRow(r, k) \in pg.jobs /\ InsideRow(r, k).id = k[2] /\ InsideRow(r, k).row = r[k]
               /\ InsideRow(r, k) \in rows <=> k[1] = t /\ k[2] \in due
    <2>1. /\ InsideRow(r, k) \in pg.jobs /\ InsideRow(r, k).id = k[2] /\ InsideRow(r, k).tenant = k[1]
          /\ InsideRow(r, k).row = r[k]
      BY <1>1, Tables DEF InsideRow
    <2>2. k = <<k[1], k[2]>> /\ k[2] \in JobIDs
      BY <1>1 DEF JobsGood, MapsTo
    <2>3. r[k].completed => r[k].claimed
      BY <1>1 DEF JobsGood
    <2>4. k[1] = t => (k[2] \in Waiting(r, t, h) <=> r[k].host = h /\ ~AwaitingApproval(r[k]) /\ ~r[k].claimed)
      BY <2>2 DEF Waiting
    <2>5. k[1] = t => (k[2] \in due <=> k[2] \in Waiting(r, t, h) /\ r[k].notBefore <= now)
      BY <1>2, <2>2
    <2> HIDE DEF due
    <2>6. InsideRow(r, k) \in rows <=> /\ k[1] = t /\ r[k].host = h /\ ~r[k].claimed /\ ~r[k].completed
                                       /\ ~AwaitingApproval(r[k]) /\ r[k].notBefore <= now
      BY <2>1 DEF P!InTenant, AwaitingApproval
    <2> QED BY <2>1, <2>3, <2>4, <2>5, <2>6
  <1>4. {x.id : x \in rows} = due
    <2>1. ASSUME NEW x \in rows PROVE x.id \in due
      <3>1. x \in P!InTenant(pg.jobs, t)
        OBVIOUS
      <3>2. PICK k \in M!InKey(r, t) : x = InsideRow(r, k)
        BY <3>1, JobRows
      <3>3. k \in DOMAIN r
        BY DEF M!InKey
      <3> HIDE DEF rows, due
      <3> QED BY <1>3, <3>2, <3>3
    <2>2. ASSUME NEW id \in due PROVE \E x \in rows : x.id = id
      <3>1. <<t, id>> \in DOMAIN r
        BY <1>2 DEF Waiting
      <3>2. PICK k \in DOMAIN r : k = <<t, id>>
        BY <3>1
      <3>3. k[1] = t /\ k[2] = id
        BY <3>2
      <3> HIDE DEF rows, due
      <3> QED BY <1>3, <3>3
    <2> HIDE DEF rows, due
    <2> QED BY <2>1, <2>2
  <1>5. P!ClaimJobs(pg, t, h, now) = Ok(db, due)
    <2>1. P!ClaimJobs(pg, t, h, now) = Ok(db, {x.id : x \in rows})
      BY <1>1, Shared DEF P!ClaimJobs, P!Update, P!Postgres, Rewrites
    <2> QED BY <1>4, <2>1
  <1>6. PgOnly(db, {"jobs", "job_results"}) /\ db.jobs = Rewrites(u, Inside(r)) /\ db.job_results = Inside(mem.results)
    BY <1>1 DEF PgOnly, P!Postgres
  <1> HIDE DEF rows, db
  <1>7. CASE due = {}
    <2>1. M!ClaimJobs(mem, t, h, now) = Ok(mem, due)
      BY <1>7, Shared DEF M!ClaimJobs, M!QueueOf, Queued
    <2>2. \A k \in DOMAIN r : u[InsideRow(r, k)] = InsideRow(r, k)
      BY <1>3, <1>7
    <2> HIDE DEF u
    <2>3. db.jobs = Inside(r)
      BY <1>6, <2>2, Mapped
    <2>4. MemOnly(mem, {"jobs", "records", "results"})
      BY <1>1 DEF MemOnly
    <2>5. \A s \in Sides : s # t => SameInKey(mem.records, mem.records, s) /\ SameInKey(mem.results, mem.results, s)
      BY SameSelf
    <2>6. Lockstep(mem, db) /\ Apart(t, mem)
      BY <1>1, <1>6, <2>3, <2>4, <2>5, JobsOnly
    <2> QED BY <1>5, <2>1, <2>6, DoneAlike
  <1>8. CASE due # {}
    <2> DEFINE g == [k \in DOMAIN r |-> IF k[1] = t /\ k[2] \in due THEN [r[k] EXCEPT !.claimed = TRUE] ELSE r[k]]
               p == IF left = {} THEN Without(q, {<<t, h>>}) ELSE Put(q, <<t, h>>, left)
               n == [mem EXCEPT !.jobs = p, !.records = g]
    <2>1. M!ClaimJobs(mem, t, h, now) = Ok(n, due)
      BY <1>8, <1>1, Shared DEF M!ClaimJobs, M!QueueOf, Queued, M!Memory
    <2>2. DOMAIN g = DOMAIN r
      OBVIOUS
    <2>3. \A k \in DOMAIN r : ~(k[1] = t /\ k[2] \in due) => g[k] = r[k]
      OBVIOUS
    <2>4. \A k \in DOMAIN r : k[1] = t /\ k[2] \in due => g[k] = [r[k] EXCEPT !.claimed = TRUE]
      OBVIOUS
    <2>5. \A k \in DOMAIN r : r[k] \in JobRecord
      BY <1>1 DEF JobsGood, MapsTo
    <2>6. \A k \in DOMAIN r : /\ g[k] \in JobRecord /\ g[k].host = r[k].host /\ g[k].completed = r[k].completed
                              /\ AwaitingApproval(g[k]) <=> AwaitingApproval(r[k])
                              /\ g[k].claimed <=> (r[k].claimed \/ (k[1] = t /\ k[2] \in due))
      <3>1. ASSUME NEW y \in JobRecord
            PROVE  LET z == [y EXCEPT !.claimed = TRUE]
                   IN /\ z \in JobRecord /\ z.host = y.host /\ z.completed = y.completed /\ z.claimed
                      /\ AwaitingApproval(z) <=> AwaitingApproval(y)
        BY DEF JobRecord, AwaitingApproval
      <3> HIDE DEF g, due
      <3>2. ASSUME NEW k \in DOMAIN r, ~(k[1] = t /\ k[2] \in due)
            PROVE  g[k] \in JobRecord /\ g[k] = r[k]
        BY <2>3, <2>5, <3>2
      <3>3. ASSUME NEW k \in DOMAIN r, k[1] = t /\ k[2] \in due
            PROVE  /\ g[k] \in JobRecord /\ g[k].host = r[k].host /\ g[k].completed = r[k].completed
                   /\ AwaitingApproval(g[k]) <=> AwaitingApproval(r[k])
                   /\ g[k].claimed
        <4>1. r[k] \in JobRecord
          BY <2>5, <3>3
        <4>2. PICK y \in JobRecord : y = r[k]
          BY <4>1
        <4>3. g[k] = [y EXCEPT !.claimed = TRUE]
          BY <2>4, <3>3, <4>2
        <4> QED BY <3>1, <4>2, <4>3
      <3> QED BY <3>2, <3>3
    <2>7. ASSUME NEW k \in DOMAIN r PROVE u[InsideRow(r, k)] = InsideRow(g, k)
      <3>1. CASE k[1] = t /\ k[2] \in due
        <4>1. u[InsideRow(r, k)] = NewRow(InsideRow(r, k), [r[k] EXCEPT !.claimed = TRUE])
          BY <1>3, <3>1 DEF NewRow
        <4> HIDE DEF g, u, due
        <4> QED BY <2>4, <3>1, <4>1 DEF InsideRow, NewRow
      <3>2. CASE ~(k[1] = t /\ k[2] \in due)
        <4>1. u[InsideRow(r, k)] = InsideRow(r, k)
          BY <1>3, <3>2
        <4> HIDE DEF g, u, due
        <4> QED BY <2>3, <3>2, <4>1 DEF InsideRow
      <3> QED BY <3>1, <3>2
    <2>8. MemOnly(n, {"jobs", "records", "results"}) /\ n.records = g /\ n.jobs = p /\ n.results = mem.results
      <3> HIDE DEF g, p
      <3> QED BY <1>1 DEF MemOnly, M!Memory
    <2> HIDE DEF n, u, g
    <2>9. db.jobs = Inside(g)
      <3>1. \A k \in DOMAIN r : u[InsideRow(r, k)] = InsideRow(g, k)
        BY <2>7
      <3>2. Rewrites(u, Inside(r)) = Inside(g)
        BY ONLY <2>2, <3>1, Mapped
      <3> QED BY <1>6, <3>2
    <2>10. \A s \in Sides : s # t => SameInKey(r, g, s) /\ SameInKey(mem.results, mem.results, s)
      <3>1. ASSUME NEW s, s # t PROVE SameInKey(r, g, s)
        <4>1. \A k \in DOMAIN r : k[1] = s => g[k] = r[k]
          BY <2>3, <3>1
        <4> QED BY ONLY <2>2, <4>1, InKeySame
      <3> QED BY <3>1, SameSelf
    <2>11. due \subseteq Waiting(r, t, h)
      BY <1>2
    <2>12. ASSUME NEW s \in Tenants, NEW x \in HostIDs PROVE Queued(p, s, x) = Waiting(g, s, x)
      <3>1. Queued(p, s, x) = IF s = t /\ x = h THEN left ELSE Queued(q, s, x)
        <4> HIDE DEF left, due
        <4>1. CASE left = {}
          <5>1. p = Without(q, {<<t, h>>})
            BY <4>1
          <5>2. <<s, x>> = <<t, h>> <=> s = t /\ x = h
            OBVIOUS
          <5> HIDE DEF p
          <5> QED BY <4>1, <5>1, <5>2 DEF Queued, Without
        <4>2. CASE left # {}
          <5>1. p = Put(q, <<t, h>>, left)
            BY <4>2
          <5> HIDE DEF p
          <5> QED BY <4>2, <5>1, QueuedPut
        <4> QED BY <4>1, <4>2
      <3>2. Queued(q, s, x) = Waiting(r, s, x)
        BY <1>1 DEF JobsGood
      <3>3. ASSUME NEW j \in JobIDs
            PROVE  j \in Waiting(g, s, x) <=> j \in Waiting(r, s, x) /\ ~(s = t /\ j \in due)
        <4> DEFINE k == <<s, j>>
        <4>1. k[1] = s /\ k[2] = j
          OBVIOUS
        <4> HIDE DEF k
        <4>2. /\ j \in Waiting(g, s, x) <=> /\ k \in DOMAIN g /\ g[k].host = x
                                            /\ ~AwaitingApproval(g[k]) /\ ~g[k].claimed
              /\ j \in Waiting(r, s, x) <=> /\ k \in DOMAIN r /\ r[k].host = x
                                            /\ ~AwaitingApproval(r[k]) /\ ~r[k].claimed
          BY DEF Waiting, k
        <4> HIDE DEF due
        <4> QED BY <2>2, <2>6, <4>1, <4>2
      <3>4. Waiting(g, s, x) \subseteq JobIDs /\ Waiting(r, s, x) \subseteq JobIDs
        BY DEF Waiting
      <3>5. s = t /\ x # h => \A j \in due : j \notin Waiting(r, s, x)
        BY <2>11 DEF Waiting
      <3> HIDE DEF due
      <3>6. CASE s = t /\ x = h
        BY <1>2, <3>1, <3>3, <3>4, <3>6
      <3>7. CASE ~(s = t /\ x = h)
        BY <3>1, <3>2, <3>3, <3>4, <3>5, <3>7
      <3> QED BY <3>6, <3>7
    <2>13. MapsTo(p, Tenants \X HostIDs, SUBSET JobIDs) /\ DOMAIN p \subseteq Homes(mem.hosts)
      <3>1. MapsTo(q, Tenants \X HostIDs, SUBSET JobIDs) /\ DOMAIN q \subseteq Homes(mem.hosts)
        BY <1>1 DEF JobsGood
      <3>2. <<t, h>> \in DOMAIN q
        BY <1>8 DEF Queued
      <3>3. left \in SUBSET JobIDs
        BY <1>2 DEF Waiting
      <3> HIDE DEF left, due
      <3>4. CASE left = {}
        <4>1. p = Without(q, {<<t, h>>})
          BY <3>4
        <4>2. DOMAIN Without(q, {<<t, h>>}) \subseteq DOMAIN q
          BY DEF Without
        <4> HIDE DEF p
        <4> QED BY <3>1, <4>1, <4>2, WithoutKeeps
      <3>5. CASE left # {}
        <4>1. p = Put(q, <<t, h>>, left)
          BY <3>5
        <4>2. DOMAIN Put(q, <<t, h>>, left) = DOMAIN q
          BY <3>2 DEF Put
        <4>3. <<t, h>> \in Tenants \X HostIDs
          OBVIOUS
        <4> HIDE DEF p
        <4> QED BY <3>1, <3>3, <4>1, <4>2, <4>3, PutKeeps
      <3> QED BY <3>4, <3>5
    <2>14. JobsGood(p, g, mem.results, Homes(mem.hosts))
      <3>1. MapsTo(g, Tenants \X JobIDs, JobRecord)
        BY <1>1, <2>2, <2>6 DEF JobsGood, MapsTo
      <3>2. \A k \in DOMAIN g : <<k[1], g[k].host>> \in Homes(mem.hosts)
        BY <1>1, <2>2, <2>6 DEF JobsGood
      <3>3. \A k \in DOMAIN g : g[k].claimed => ~AwaitingApproval(g[k])
        <4>1. ASSUME NEW k \in DOMAIN r, k[1] = t, k[2] \in due PROVE ~AwaitingApproval(r[k])
          <5>1. k = <<k[1], k[2]>>
            BY <1>1 DEF JobsGood, MapsTo
          <5>2. k[2] \in Waiting(r, t, h)
            BY <2>11, <4>1
          <5> QED BY <4>1, <5>1, <5>2 DEF Waiting
        <4> HIDE DEF due
        <4> QED BY <1>1, <2>2, <2>6, <4>1 DEF JobsGood
      <3>4. \A k \in DOMAIN g : g[k].completed => g[k].claimed
        BY <1>1, <2>2, <2>6 DEF JobsGood
      <3>5. DOMAIN mem.results \subseteq DOMAIN g /\ \A k \in DOMAIN mem.results : g[k].completed
        BY <1>1, <2>2, <2>6 DEF JobsGood
      <3>6. MapsTo(mem.results, Tenants \X JobIDs, {"completed", "failed"})
        BY <1>1 DEF JobsGood
      <3> HIDE DEF p
      <3> QED BY <2>12, <2>13, <3>1, <3>2, <3>3, <3>4, <3>5, <3>6 DEF JobsGood
    <2> HIDE DEF p, due
    <2>15. Lockstep(n, db) /\ Apart(t, n)
      BY <1>6, <2>8, <2>9, <2>10, <2>14, JobsOnly
    <2> QED BY <1>5, <2>1, <2>15, DoneAlike
  <1> QED BY <1>7, <1>8

\* RecordResult is answered alike.
LEMMA RecordResultAlike ==
    ASSUME Paired, NEW t \in Tenants, NEW h \in HostIDs, NEW id \in JobIDs, NEW status \in {"completed", "failed"}
    PROVE  Alike(t, M!RecordResult(mem, t, h, id, status), P!RecordResult(pg, t, h, id, status))
  <1> DEFINE r == mem.records
             s == mem.results
             k == <<t, id>>
             his == k \in DOMAIN r /\ r[k].host = h /\ r[k].claimed
             owned == {x \in P!InTenant(pg.jobs, t) : x.id = id /\ x.row.host = h /\ x.row.claimed}
             u == [x \in pg.jobs |-> IF x \in owned THEN [x EXCEPT !.row = [x.row EXCEPT !.completed = TRUE]] ELSE x]
             v == [r[k] EXCEPT !.completed = TRUE]
             g == SetAt(r, k, v)
  <1>1. /\ pg.jobs = Inside(r) /\ pg.job_results = Inside(s)
        /\ JobsGood(mem.jobs, r, s, Homes(mem.hosts))
        /\ DOMAIN mem = M!Memory /\ DOMAIN pg = P!Postgres
        /\ P!HasIn(pg.job_results, t, id) <=> k \in DOMAIN s
    BY JobFacts
  <1>2. \A x \in owned : x \in pg.jobs /\ x.tenant = t /\ x.id = id
    BY DEF P!InTenant
  <1>3. ASSUME NEW x \in P!InTenant(pg.jobs, t), x.id = id PROVE k \in DOMAIN r /\ x.row = r[k]
    <2>1. PICK y \in M!InKey(r, t) : x = InsideRow(r, y)
      BY JobRows
    <2>2. y = <<t, y[2]>> /\ y[2] = id /\ y \in DOMAIN r /\ x.row = r[y]
      BY <1>3, <2>1, JobRows
    <2> QED BY <2>2
  <1>4. owned # {} <=> his
    <2>1. ASSUME his PROVE InsideRow(r, k) \in owned
      <3>1. k[1] = t /\ k[2] = id /\ k \in M!InKey(r, t)
        BY <2>1 DEF M!InKey
      <3> HIDE DEF k
      <3>2. InsideRow(r, k) \in P!InTenant(pg.jobs, t) /\ InsideRow(r, k).id = id /\ InsideRow(r, k).row = r[k]
        BY <3>1, JobRows
      <3> QED BY <2>1, <3>2
    <2>2. ASSUME NEW x \in owned PROVE his
      BY <1>3, <2>2
    <2> QED BY <2>1, <2>2
  <1>5. CASE ~his
    <2>1. M!RecordResult(mem, t, h, id, status) = Fail(mem, "ErrNotFound")
      BY <1>5, Shared DEF M!RecordResult
    <2>2. P!RecordResult(pg, t, h, id, status) = Fail(pg, "ErrNotFound")
      BY <1>4, <1>5, Shared DEF P!RecordResult
    <2> QED BY <2>1, <2>2, RefusedAlike DEF Answers
  <1>6. ASSUME his
        PROVE  /\ r[k] \in JobRecord /\ v \in JobRecord /\ v.host = r[k].host /\ v.claimed = r[k].claimed /\ v.completed
               /\ AwaitingApproval(v) <=> AwaitingApproval(r[k])
               /\ r[k].completed => v = r[k]
               /\ Rewrites(u, pg.jobs) = Inside(g) /\ \A x : x # t => SameInKey(r, g, x)
    <2>1. r[k] \in JobRecord
      BY <1>1, <1>6 DEF JobsGood, MapsTo
    <2>2. /\ v \in JobRecord /\ v.host = r[k].host /\ v.claimed = r[k].claimed /\ v.completed
          /\ AwaitingApproval(v) <=> AwaitingApproval(r[k])
          /\ r[k].completed => v = r[k]
      BY <2>1 DEF JobRecord, AwaitingApproval
    <2>3. Rewrites(u, pg.jobs) = Inside(g) /\ \A x : x # t => SameInKey(r, g, x)
      <3>1. \A x \in pg.jobs : x \in owned => x.tenant = t /\ x.id = id
        BY <1>2
      <3>2. \A x \in pg.jobs : x.tenant = t /\ x.id = id /\ x.row = r[k] => x \in owned
        BY <1>6 DEF P!InTenant
      <3>3. \A x \in pg.jobs : x \in owned /\ x.row = r[k] => u[x] = NewRow(x, v)
        BY DEF NewRow
      <3>4. \A x \in pg.jobs : x \notin owned => u[x] = x
        OBVIOUS
      <3>5. k[1] = t /\ k[2] = id
        OBVIOUS
      <3> HIDE DEF owned, u, v, k
      <3> QED BY <1>6, <2>2, <3>1, <3>2, <3>3, <3>4, <3>5, JobWritten, SMTT(30)
    <2> QED BY <2>1, <2>2, <2>3
  <1>7. CASE his /\ k \in DOMAIN s
    <2> DEFINE db == [pg EXCEPT !.job_results = @, !.jobs = Rewrites(u, @)]
    <2>1. M!RecordResult(mem, t, h, id, status) = Ok(mem, FALSE)
      BY <1>7, Shared DEF M!RecordResult
    <2>2. P!RecordResult(pg, t, h, id, status) = Ok(db, FALSE)
      BY <1>1, <1>4, <1>7, Shared DEF P!RecordResult, P!Update, P!Postgres, Rewrites
    <2> HIDE DEF u
    <2>3. PgOnly(db, {"jobs", "job_results"}) /\ db.jobs = Rewrites(u, pg.jobs) /\ db.job_results = Inside(s)
      BY <1>1 DEF PgOnly, P!Postgres
    <2>4. v = r[k]
      BY <1>1, <1>6, <1>7 DEF JobsGood
    <2> HIDE DEF v, db
    <2>5. Inside(g) = Inside(r)
      <3>1. DOMAIN g = DOMAIN r /\ \A x \in DOMAIN r : g[x] = r[x]
        BY <2>4 DEF SetAt
      <3> HIDE DEF g
      <3> QED BY <3>1 DEF Inside
    <2>6. MemOnly(mem, {"jobs", "records", "results"}) /\ db.jobs = Inside(r)
      BY <1>1, <1>6, <1>7, <2>3, <2>5 DEF MemOnly
    <2>7. \A x \in Sides : x # t => SameInKey(r, r, x) /\ SameInKey(s, s, x)
      BY SameSelf
    <2>8. Lockstep(mem, db) /\ Apart(t, mem)
      BY <1>1, <2>3, <2>6, <2>7, JobsOnly
    <2> QED BY <2>1, <2>2, <2>8, DoneAlike
  <1>8. CASE his /\ k \notin DOMAIN s
    <2> DEFINE w == Put(s, k, status)
               n == [mem EXCEPT !.results = w, !.records = g]
               db == [pg EXCEPT !.job_results = @ \cup {[id |-> id, tenant |-> t, row |-> status]}, !.jobs = Rewrites(u, @)]
    <2>1. M!RecordResult(mem, t, h, id, status) = Ok(n, TRUE)
      BY <1>8, <1>1, Shared DEF M!RecordResult, SetAt, M!Memory
    <2>2. P!RecordResult(pg, t, h, id, status) = Ok(db, TRUE)
      BY <1>1, <1>4, <1>8, Shared DEF P!RecordResult, P!Update, P!Postgres, Rewrites
    <2> HIDE DEF u, g, w
    <2>3. MemOnly(n, {"jobs", "records", "results"}) /\ n.records = g /\ n.jobs = mem.jobs /\ n.results = w
      BY <1>1 DEF MemOnly, M!Memory
    <2>4. /\ PgOnly(db, {"jobs", "job_results"}) /\ db.jobs = Rewrites(u, pg.jobs)
          /\ db.job_results = Inside(s) \cup {[id |-> id, tenant |-> t, row |-> status]}
      BY <1>1 DEF PgOnly, P!Postgres
    <2> HIDE DEF n, db
    <2>5. db.jobs = Inside(g)
      BY <1>6, <1>8, <2>4 DEF g
    <2>6. db.job_results = Inside(w)
      BY <1>8, <2>4, InsideAdd DEF w
    <2>7. \A x \in Sides : x # t => SameInKey(r, g, x) /\ SameInKey(s, w, x)
      <3>1. k[1] = t
        OBVIOUS
      <3>2. \A x \in Sides : x # t => SameInKey(r, g, x)
        BY <1>6, <1>8 DEF g
      <3>3. \A x \in Sides : x # t => SameInKey(s, w, x)
        BY <3>1, PutApart DEF w
      <3> QED BY <3>2, <3>3
    <2>8. JobsGood(mem.jobs, g, s, Homes(mem.hosts))
      <3>1. MapsTo(mem.jobs, Tenants \X HostIDs, SUBSET JobIDs) /\ DOMAIN mem.jobs \subseteq Homes(mem.hosts)
        BY <1>1 DEF JobsGood
      <3>2. ASSUME NEW y \in Tenants, NEW x \in HostIDs PROVE Queued(mem.jobs, y, x) = Waiting(g, y, x)
        <4>1. Queued(mem.jobs, y, x) = Waiting(r, y, x)
          BY <1>1 DEF JobsGood
        <4>2. id \notin Waiting(r, t, x)
          BY <1>8 DEF Waiting
        <4>3. k = <<t, id>>
          OBVIOUS
        <4>4. v.claimed
          BY <1>6, <1>8
        <4> HIDE DEF k, v
        <4>5. /\ y # t => Waiting(g, y, x) = Waiting(r, y, x)
              /\ y = t => Waiting(g, y, x) = Waiting(r, y, x) \ {id}
          BY <1>8, <4>3, <4>4, WaitingSet DEF g
        <4> QED BY <4>1, <4>2, <4>5
      <3>3. v.claimed => ~AwaitingApproval(v)
        BY <1>1, <1>6, <1>8 DEF JobsGood
      <3>4. v \in JobRecord /\ v.host = r[k].host /\ v.claimed /\ v.completed
        BY <1>6, <1>8
      <3> HIDE DEF v
      <3> QED BY <1>1, <1>8, <3>1, <3>2, <3>3, <3>4, JobSet DEF g
    <2>9. JobsGood(mem.jobs, g, w, Homes(mem.hosts))
      <3>1. k \in Tenants \X JobIDs
        OBVIOUS
      <3>2. MapsTo(w, Tenants \X JobIDs, {"completed", "failed"})
        BY <1>1, <3>1, PutKeeps DEF JobsGood, w
      <3>3. DOMAIN w = DOMAIN s \cup {k}
        BY DEF w, Put
      <3>4. k \in DOMAIN g /\ g[k].completed
        BY <1>6, <1>8 DEF g, SetAt
      <3> QED BY <2>8, <3>2, <3>3, <3>4 DEF JobsGood
    <2>10. Lockstep(n, db) /\ Apart(t, n)
      BY <2>3, <2>4, <2>5, <2>6, <2>7, <2>9, JobsOnly
    <2> QED BY <2>1, <2>2, <2>10, DoneAlike
  <1> QED BY <1>5, <1>7, <1>8

\* A row of a map whose keys are nobody's, written anew.
LEMMA KeyedUpdated ==
    ASSUME NEW f, NEW k \in DOMAIN f, NEW v, NEW u,
           \A r \in Keyed(f) : r.id = k /\ r.row = f[k] => u[r] = NewRow(r, v),
           \A r \in Keyed(f) : r.id # k => u[r] = r
    PROVE  Rewrites(u, Keyed(f)) = Keyed(SetAt(f, k, v))
  <1> DEFINE g == SetAt(f, k, v)
  <1>1. DOMAIN g = DOMAIN f /\ g[k] = v /\ \A x \in DOMAIN f : x # k => g[x] = f[x]
    BY DEF SetAt
  <1> HIDE DEF g
  <1>2. \A x \in DOMAIN f : KeyedRow(f, x) \in Keyed(f) /\ KeyedRow(f, x).id = x /\ KeyedRow(f, x).row = f[x]
    BY Tables DEF KeyedRow
  <1>3. u[KeyedRow(f, k)] = KeyedRow(g, k)
    <2>1. NewRow(KeyedRow(f, k), v) = KeyedRow(g, k)
      BY <1>1 DEF KeyedRow, NewRow
    <2> QED BY <1>2, <2>1
  <1>4. \A x \in DOMAIN f : x # k => u[KeyedRow(f, x)] = KeyedRow(g, x)
    BY <1>1, <1>2, SameRow
  <1>5. \A x \in DOMAIN f : u[KeyedRow(f, x)] = KeyedRow(g, x)
    BY <1>3, <1>4
  <1>6. DOMAIN g = DOMAIN f
    BY <1>1
  <1>7. Rewrites(u, Keyed(f)) = Keyed(g)
    BY ONLY <1>5, <1>6, Mapped
  <1> QED BY <1>7 DEF g

-----------------------------------------------------------------------------
(* Tenants. *)

\* What the two stores know of tenants.
LEMMA TenantFacts ==
    ASSUME Paired, NEW t
    PROVE  /\ pg.tenants = Keyed(mem.tenants) /\ MapsTo(mem.tenants, Tenants, Tenant)
           /\ DOMAIN mem = M!Memory /\ DOMAIN pg = P!Postgres
           /\ P!Has(pg.tenants, t) <=> t \in DOMAIN mem.tenants
           /\ t \in DOMAIN mem.tenants => P!At(pg.tenants, t).row = mem.tenants[t]
  <1>1. pg.tenants = Keyed(mem.tenants)
    BY DEF Paired, Lockstep, Mirrors
  <1>2. t \in DOMAIN mem.tenants => P!At(pg.tenants, t).row = mem.tenants[t]
    BY <1>1, KeyedHas DEF KeyedRow
  <1> QED BY <1>1, <1>2, KeyedHas DEF Paired, Lockstep, Mirrors, Good

\* CreateTenant is answered alike.
LEMMA CreateTenantAlike ==
    ASSUME Paired, NEW id \in Sides, NEW v \in Tenant
    PROVE  Alike(id, M!CreateTenant(mem, id, v), P!CreateTenant(pg, id, v))
  <1> DEFINE f == mem.tenants
             clash == id \in DOMAIN f \/ \E x \in DOMAIN f : f[x].slug = v.slug
  <1>1. /\ pg.tenants = Keyed(f) /\ MapsTo(f, Tenants, Tenant) /\ DOMAIN mem = M!Memory /\ DOMAIN pg = P!Postgres
    BY TenantFacts
  <1>2. (\E r \in pg.tenants : r.id = id \/ r.row.slug = v.slug) <=> clash
    <2>1. \A x \in DOMAIN f : KeyedRow(f, x).id = x /\ KeyedRow(f, x).row = f[x]
      BY DEF KeyedRow
    <2> QED BY <1>1, <2>1, Tables
  <1>3. CASE id = Platform
    <2>1. M!CreateTenant(mem, id, v) = Fail(mem, "error") /\ P!CreateTenant(pg, id, v) = Fail(pg, "error")
      BY <1>3, Shared DEF M!CreateTenant, P!CreateTenant
    <2> QED BY <2>1, RefusedAlike DEF Answers
  <1>4. CASE id # Platform /\ clash
    <2>1. M!CreateTenant(mem, id, v) = Fail(mem, "ErrConflict") /\ P!CreateTenant(pg, id, v) = Fail(pg, "ErrConflict")
      BY <1>2, <1>4, Shared DEF M!CreateTenant, P!CreateTenant
    <2> QED BY <2>1, RefusedAlike DEF Answers
  <1>5. CASE id # Platform /\ ~clash
    <2> DEFINE g == Put(f, id, v)
               n == [mem EXCEPT !.tenants = g]
               db == [pg EXCEPT !.tenants = @ \cup {[id |-> id, row |-> v]}]
    <2>1. M!CreateTenant(mem, id, v) = Done(n) /\ P!CreateTenant(pg, id, v) = Done(db)
      BY <1>2, <1>5, Shared DEF M!CreateTenant, P!CreateTenant
    <2>2. DOMAIN f \subseteq DOMAIN g
      BY DEF Put
    <2> HIDE DEF g
    <2>3. MemOnly(n, {"tenants"}) /\ n.tenants = g
      BY <1>1 DEF MemOnly, M!Memory
    <2>4. PgOnly(db, {"tenants"}) /\ db.tenants = Keyed(f) \cup {[id |-> id, row |-> v]}
      BY <1>1 DEF PgOnly, P!Postgres
    <2> HIDE DEF n, db
    <2>5. db.tenants = Keyed(g)
      BY <1>5, <2>4, KeyedAdd DEF g
    <2>6. MapsTo(g, Tenants, Tenant)
      BY <1>1, <1>5, PutKeeps DEF g, Sides
    <2>7. Lockstep(n, db) /\ Apart(id, n)
      BY <2>2, <2>3, <2>4, <2>5, <2>6, TenantsOnly
    <2> QED BY <2>1, <2>7, DoneAlike
  <1> QED BY <1>3, <1>4, <1>5

\* UpdateTenant is answered alike.
LEMMA UpdateTenantAlike ==
    ASSUME Paired, NEW id \in Tenants, NEW patch \in TenantPatch
    PROVE  Alike(id, M!UpdateTenant(mem, id, patch), P!UpdateTenant(pg, id, patch))
  <1> DEFINE f == mem.tenants
             patched(row) == [x \in DOMAIN row |-> IF x \in DOMAIN patch THEN patch[x] ELSE row[x]]
             v == patched(f[id])
  <1>1. /\ pg.tenants = Keyed(f) /\ MapsTo(f, Tenants, Tenant) /\ DOMAIN mem = M!Memory /\ DOMAIN pg = P!Postgres
        /\ P!Has(pg.tenants, id) <=> id \in DOMAIN f
        /\ id \in DOMAIN f => P!At(pg.tenants, id).row = f[id]
    BY TenantFacts
  <1>2. CASE id \notin DOMAIN f
    <2>1. M!UpdateTenant(mem, id, patch) = Fail(mem, "ErrNotFound") /\ P!UpdateTenant(pg, id, patch) = Fail(pg, "ErrNotFound")
      BY <1>1, <1>2, Shared DEF M!UpdateTenant, P!UpdateTenant
    <2> QED BY <2>1, RefusedAlike DEF Answers
  <1>3. CASE id \in DOMAIN f
    <2> DEFINE u == [r \in pg.tenants |-> IF r.id = id THEN [r EXCEPT !.row = patched(r.row)] ELSE r]
               g == SetAt(f, id, v)
               n == [mem EXCEPT !.tenants = g]
               db == [pg EXCEPT !.tenants = Rewrites(u, @)]
    <2>1. M!UpdateTenant(mem, id, patch) = Ok(n, v)
      BY <1>1, <1>3, Shared DEF M!UpdateTenant, SetAt, M!Memory
    <2>2. P!UpdateTenant(pg, id, patch) = Ok(db, v)
      BY <1>1, <1>3, Shared DEF P!UpdateTenant, P!Update, P!Postgres, Rewrites
    <2>3. v \in Tenant
      <3>1. f[id] \in Tenant
        BY <1>1, <1>3 DEF MapsTo
      <3> QED BY <3>1 DEF Tenant, TenantPatch
    <2>4. /\ \A r \in Keyed(f) : r.id = id /\ r.row = f[id] => u[r] = NewRow(r, v)
          /\ \A r \in Keyed(f) : r.id # id => u[r] = r
      BY <1>1 DEF NewRow
    <2> HIDE DEF u, v
    <2>5. MemOnly(n, {"tenants"}) /\ n.tenants = g
      BY <1>1 DEF MemOnly, M!Memory
    <2>6. PgOnly(db, {"tenants"}) /\ db.tenants = Rewrites(u, Keyed(f))
      BY <1>1 DEF PgOnly, P!Postgres
    <2> HIDE DEF n, db
    <2>7. db.tenants = Keyed(g)
      BY <1>3, <2>4, <2>6, KeyedUpdated
    <2>8. DOMAIN f \subseteq DOMAIN g /\ MapsTo(g, Tenants, Tenant)
      BY <1>1, <1>3, <2>3, AtSet
    <2> HIDE DEF g
    <2>9. Lockstep(n, db) /\ Apart(id, n)
      BY <2>5, <2>6, <2>7, <2>8, TenantsOnly
    <2> QED BY <2>1, <2>2, <2>9, DoneAlike
  <1> QED BY <1>2, <1>3

-----------------------------------------------------------------------------
(* Accounts. *)

\* What the two stores know of accounts.
LEMMA AccountFacts ==
    ASSUME Paired, NEW t, NEW a
    PROVE  /\ pg.accounts = Owned(mem.accounts) /\ AccountsGood(mem.accounts, DOMAIN mem.tenants)
           /\ DOMAIN mem = M!Memory /\ DOMAIN pg = P!Postgres
           /\ P!Has(pg.tenants, t) <=> t \in DOMAIN mem.tenants
           /\ P!Has(P!AccountsOf(pg, t), a) <=> M!HasAccount(mem, t, a)
           /\ \A r : r \in P!AccountsOf(pg, t) <=> \E x \in M!Beside(mem.accounts, t) : r = OwnedRow(mem.accounts, x)
           /\ \A r \in P!AccountsOf(pg, t) : r \in pg.accounts /\ r.tenant = t
           /\ \A r \in pg.accounts : r.tenant = t => r \in P!AccountsOf(pg, t)
  <1>1. pg.accounts = Owned(mem.accounts) /\ pg.tenants = Keyed(mem.tenants)
    BY DEF Paired, Lockstep, Mirrors
  <1>2. P!AccountsOf(pg, t) = P!InTenant(pg.accounts, t)
    BY DEF P!AccountsOf, P!InTenant
  <1>3. \A r : r \in P!AccountsOf(pg, t) <=> \E x \in M!Beside(mem.accounts, t) : r = OwnedRow(mem.accounts, x)
    BY <1>1, <1>2, OwnedIn
  <1>4. P!Has(P!AccountsOf(pg, t), a) <=> M!HasAccount(mem, t, a)
    <2>1. \A x \in DOMAIN mem.accounts : OwnedRow(mem.accounts, x).id = x
      BY DEF OwnedRow
    <2> QED BY <1>3, <2>1 DEF P!Has, M!HasAccount, M!Beside
  <1>5. /\ \A r \in P!AccountsOf(pg, t) : r \in pg.accounts /\ r.tenant = t
        /\ \A r \in pg.accounts : r.tenant = t => r \in P!AccountsOf(pg, t)
    BY DEF P!AccountsOf
  <1> QED BY <1>1, <1>3, <1>4, <1>5, KeyedHas DEF Paired, Lockstep, Mirrors, Good

\* CreateAccount is answered alike.
LEMMA CreateAccountAlike ==
    ASSUME Paired, NEW t \in Sides, NEW a \in AccountIDs, NEW account \in Account
    PROVE  Alike(t, M!CreateAccount(mem, t, a, account), P!CreateAccount(pg, t, a, account))
  <1> DEFINE f == mem.accounts
             clash == a \in DOMAIN f \/ \E x \in DOMAIN f : f[x].row.email = account.email
             lost == t # Platform /\ t \notin DOMAIN mem.tenants
  <1>1. /\ pg.accounts = Owned(f) /\ AccountsGood(f, DOMAIN mem.tenants) /\ DOMAIN mem = M!Memory /\ DOMAIN pg = P!Postgres
        /\ P!Has(pg.tenants, t) <=> t \in DOMAIN mem.tenants
    BY AccountFacts
  <1>2. (\E r \in pg.accounts : r.id = a \/ r.row.email = account.email) <=> clash
    <2>1. \A x \in DOMAIN f : OwnedRow(f, x).id = x /\ OwnedRow(f, x).row = f[x].row
      BY DEF OwnedRow
    <2> QED BY <1>1, <2>1, Tables
  <1>3. CASE lost
    <2>1. M!CreateAccount(mem, t, a, account) = Fail(mem, "error")
      BY <1>3, Shared DEF M!CreateAccount
    <2>2. P!CreateAccount(pg, t, a, account) = Fail(pg, IF clash THEN "ErrConflict" ELSE "error")
      BY <1>1, <1>2, <1>3, Shared DEF P!CreateAccount
    <2>3. t \in Tenants \ DOMAIN mem.tenants
      BY <1>3 DEF Sides
    <2>4. CASE clash
      BY <2>1, <2>2, <2>3, <2>4, RefusedAlike DEF Answers
    <2>5. CASE ~clash
      BY <2>1, <2>2, <2>3, <2>5, RefusedAlike DEF Answers
    <2> QED BY <2>4, <2>5
  <1>4. CASE ~lost /\ clash
    <2>1. M!CreateAccount(mem, t, a, account) = Fail(mem, "ErrConflict")
      BY <1>4, Shared DEF M!CreateAccount
    <2>2. P!CreateAccount(pg, t, a, account) = Fail(pg, "ErrConflict")
      BY <1>2, <1>4, Shared DEF P!CreateAccount
    <2> QED BY <2>1, <2>2, RefusedAlike DEF Answers
  <1>5. CASE ~lost /\ ~clash
    <2> DEFINE own == [tenant |-> t, row |-> account]
               g == Put(f, a, own)
               n == [mem EXCEPT !.accounts = g]
               db == [pg EXCEPT !.accounts = @ \cup {[id |-> a, tenant |-> t, row |-> account]}]
    <2>1. M!CreateAccount(mem, t, a, account) = Done(n)
      BY <1>5, Shared DEF M!CreateAccount
    <2>2. P!CreateAccount(pg, t, a, account) = Done(db)
      BY <1>1, <1>2, <1>5, Shared DEF P!CreateAccount
    <2>3. own \in Belonging(Sides, Account) /\ own.tenant = t /\ own.row = account
      BY DEF Belonging
    <2>4. DOMAIN g = DOMAIN f \cup {a} /\ g[a] = own /\ \A x \in DOMAIN f : g[x] = f[x]
      BY <1>5 DEF Put
    <2>5. Owned(g) = Owned(f) \cup {[id |-> a, tenant |-> t, row |-> account]}
      BY <1>5, OwnedAdd
    <2> HIDE DEF own
    <2>6. MapsTo(g, AccountIDs, Belonging(Sides, Account)) /\ \A s \in Sides : s # t => SameBeside(f, g, s)
      BY <1>1, <1>5, <2>3, PutKeeps, PutApart DEF AccountsGood
    <2> HIDE DEF g
    <2>7. MemOnly(n, {"accounts"}) /\ n.accounts = g
      BY <1>1 DEF MemOnly, M!Memory
    <2>8. PgOnly(db, {"accounts"}) /\ db.accounts = Owned(g)
      BY <1>1, <2>5 DEF PgOnly, P!Postgres
    <2> HIDE DEF n, db
    <2>9. AccountsGood(g, DOMAIN mem.tenants)
      <3>1. \A x \in DOMAIN g : g[x].tenant \in DOMAIN mem.tenants \cup {Platform}
        BY <1>1, <1>5, <2>3, <2>4 DEF AccountsGood
      <3>2. ASSUME NEW x \in DOMAIN g, NEW y \in DOMAIN g, g[x].row.email = g[y].row.email PROVE x = y
        BY <1>1, <1>5, <2>3, <2>4, <3>2 DEF AccountsGood
      <3> QED BY <2>6, <3>1, <3>2 DEF AccountsGood
    <2>10. DOMAIN f \subseteq DOMAIN g
      BY <2>4
    <2>11. Lockstep(n, db) /\ Apart(t, n)
      BY <2>6, <2>7, <2>8, <2>9, <2>10, AccountsOnly
    <2> QED BY <2>1, <2>2, <2>11, DoneAlike
  <1> QED BY <1>3, <1>4, <1>5

\* An account's row written anew, its address left alone.
LEMMA SetAccountAlike ==
    ASSUME Paired, NEW t \in Sides, NEW a \in AccountIDs, NEW column \in {"password", "signedInAt"}, NEW value,
           \A row \in Account : [row EXCEPT ![column] = value] \in Account,
           NEW ans, ans = IF ~M!HasAccount(mem, t, a) THEN Fail(mem, "ErrNotFound")
                          ELSE Done([mem EXCEPT !.accounts = SetRow(@, a, [@[a].row EXCEPT ![column] = value])])
    PROVE  Alike(t, ans, P!SetAccount(pg, t, a, column, value))
  <1> DEFINE f == mem.accounts
  <1>1. /\ pg.accounts = Owned(f) /\ AccountsGood(f, DOMAIN mem.tenants) /\ DOMAIN mem = M!Memory /\ DOMAIN pg = P!Postgres
        /\ P!Has(P!AccountsOf(pg, t), a) <=> M!HasAccount(mem, t, a)
        /\ \A r \in P!AccountsOf(pg, t) : r \in pg.accounts /\ r.tenant = t
        /\ \A r \in pg.accounts : r.tenant = t => r \in P!AccountsOf(pg, t)
    BY AccountFacts
  <1>2. CASE ~M!HasAccount(mem, t, a)
    <2>1. P!SetAccount(pg, t, a, column, value) = Fail(pg, "ErrNotFound")
      BY <1>1, <1>2, Shared DEF P!SetAccount, P!AffectOne
    <2> QED BY <1>2, <2>1, RefusedAlike DEF Answers
  <1>3. CASE M!HasAccount(mem, t, a)
    <2> DEFINE v == [f[a].row EXCEPT ![column] = value]
               u == [r \in pg.accounts |-> IF r \in P!AccountsOf(pg, t) /\ r.id = a
                                           THEN [r EXCEPT !.row = [r.row EXCEPT ![column] = value]] ELSE r]
               g == SetRow(f, a, v)
               n == [mem EXCEPT !.accounts = g]
               db == [pg EXCEPT !.accounts = Rewrites(u, @)]
    <2>1. a \in DOMAIN f /\ f[a].tenant = t
      BY <1>3 DEF M!HasAccount
    <2>2. f[a].row \in Account /\ MapsTo(f, AccountIDs, Belonging(Sides, Account))
      BY <1>1, <2>1 DEF AccountsGood, MapsTo, Belonging
    <2>3. v \in Account /\ v.email = f[a].row.email
      BY <2>2 DEF Account
    <2>4. ans = Done(n)
      BY <1>1, <1>3 DEF M!Memory
    <2>5. P!SetAccount(pg, t, a, column, value) = Done(db)
      BY <1>1, <1>3, Shared DEF P!SetAccount, P!AffectOne, P!Update, P!Postgres, Rewrites
    <2>6. /\ \A r \in Owned(f) : r.id = a /\ r.tenant = f[a].tenant /\ r.row = f[a].row => u[r] = NewRow(r, v)
          /\ \A r \in Owned(f) : r.id # a => u[r] = r
      BY <1>1, <2>1 DEF NewRow
    <2> HIDE DEF u, v
    <2>7. MemOnly(n, {"accounts"}) /\ n.accounts = g
      BY <1>1 DEF MemOnly, M!Memory
    <2>8. PgOnly(db, {"accounts"}) /\ db.accounts = Rewrites(u, Owned(f))
      BY <1>1 DEF PgOnly, P!Postgres
    <2> HIDE DEF n, db
    <2>9. /\ DOMAIN g = DOMAIN f /\ MapsTo(g, AccountIDs, Belonging(Sides, Account)) /\ g[a].row = v
          /\ \A x \in DOMAIN f : g[x].tenant = f[x].tenant
          /\ \A x \in DOMAIN f : x # a => g[x] = f[x]
          /\ \A s : s # t => SameBeside(f, g, s)
      <3>1. f[a].tenant = t /\ a \in DOMAIN f /\ v \in Account /\ MapsTo(f, AccountIDs, Belonging(Sides, Account))
        BY <2>1, <2>2, <2>3
      <3> HIDE DEF f, v
      <3> QED BY <3>1, OwnedSet
    <2>10. db.accounts = Owned(g)
      BY <2>1, <2>2, <2>3, <2>6, <2>8, OwnedUpdated
    <2> HIDE DEF g
    <2>11. AccountsGood(g, DOMAIN mem.tenants)
      <3>1. \A x \in DOMAIN f : g[x].row.email = f[x].row.email
        BY <2>3, <2>9
      <3> QED BY <1>1, <2>9, <3>1 DEF AccountsGood
    <2>12. Lockstep(n, db) /\ Apart(t, n)
      BY <2>7, <2>8, <2>9, <2>10, <2>11, AccountsOnly
    <2> QED BY <2>4, <2>5, <2>12, DoneAlike
  <1> QED BY <1>2, <1>3

\* A new password and a sign-in, each a column of the account, are answered alike.
LEMMA AccountWritesAlike ==
    ASSUME Paired, NEW t \in Sides, NEW a \in AccountIDs
    PROVE  /\ \A password \in {"p1", "p2"} :
                Alike(t, M!UpdateAccountPassword(mem, t, a, password), P!UpdateAccountPassword(pg, t, a, password))
           /\ \A at \in Time : Alike(t, M!RecordAccountSignIn(mem, t, a, at), P!RecordAccountSignIn(pg, t, a, at))
  <1>1. DOMAIN mem = M!Memory
    BY AccountFacts
  <1>2. ASSUME NEW password \in {"p1", "p2"}
        PROVE  Alike(t, M!UpdateAccountPassword(mem, t, a, password), P!UpdateAccountPassword(pg, t, a, password))
    <2>1. \A row \in Account : [row EXCEPT !["password"] = password] \in Account
      BY DEF Account
    <2>2. M!UpdateAccountPassword(mem, t, a, password)
          = IF ~M!HasAccount(mem, t, a) THEN Fail(mem, "ErrNotFound")
            ELSE Done([mem EXCEPT !.accounts = SetRow(@, a, [@[a].row EXCEPT !["password"] = password])])
      BY <1>1, Shared DEF M!UpdateAccountPassword, SetRow, M!HasAccount, M!Memory
    <2>3. P!UpdateAccountPassword(pg, t, a, password) = P!SetAccount(pg, t, a, "password", password)
      BY DEF P!UpdateAccountPassword
    <2> QED BY <2>1, <2>2, <2>3, SetAccountAlike
  <1>3. ASSUME NEW at \in Time
        PROVE  Alike(t, M!RecordAccountSignIn(mem, t, a, at), P!RecordAccountSignIn(pg, t, a, at))
    <2>1. \A row \in Account : [row EXCEPT !["signedInAt"] = at] \in Account
      BY DEF Account
    <2>2. M!RecordAccountSignIn(mem, t, a, at)
          = IF ~M!HasAccount(mem, t, a) THEN Fail(mem, "ErrNotFound")
            ELSE Done([mem EXCEPT !.accounts = SetRow(@, a, [@[a].row EXCEPT !["signedInAt"] = at])])
      BY <1>1, Shared DEF M!RecordAccountSignIn, SetRow, M!HasAccount, M!Memory
    <2>3. P!RecordAccountSignIn(pg, t, a, at) = P!SetAccount(pg, t, a, "signedInAt", at)
      BY DEF P!RecordAccountSignIn
    <2> QED BY <2>1, <2>2, <2>3, SetAccountAlike
  <1> QED BY <1>2, <1>3

-----------------------------------------------------------------------------
(* Sessions and API tokens. *)

\* Of two maps of credentials, whatever is another account's is the same in both.
OnlyHis(f, g, a) ==
    /\ \A k \in DOMAIN f : f[k].account # a => k \in DOMAIN g /\ g[k] = f[k]
    /\ \A k \in DOMAIN g : g[k].account # a => k \in DOMAIN f /\ g[k] = f[k]

\* What one account's credentials become is nothing to another side.
LEMMA OthersHeld ==
    ASSUME NEW t, NEW a, M!HasAccount(mem, t, a), NEW f, NEW g, OnlyHis(f, g, a), NEW s, s # t
    PROVE  SameHeld(f, g, mem.accounts, mem.accounts, s)
  <1>1. a \notin M!Beside(mem.accounts, s)
    BY DEF M!HasAccount, M!Beside
  <1> DEFINE B == M!Beside(mem.accounts, s)
  <1> HIDE DEF B
  <1>2. \A k \in DOMAIN f : f[k].account \in B => k \in DOMAIN g /\ g[k] = f[k]
    BY <1>1 DEF OnlyHis, B
  <1>3. \A k \in DOMAIN g : g[k].account \in B => k \in DOMAIN f /\ g[k] = f[k]
    BY <1>1 DEF OnlyHis, B
  <1> QED BY <1>2, <1>3 DEF SameHeld, HeldBy, B

\* The credentials a transaction of one side is shown.
LEMMA CredentialsShown ==
    ASSUME Paired, NEW t, NEW f, NEW r
    PROVE  r \in P!Credentials(pg, t, Keyed(f)) <=> \E k \in HeldBy(f, mem.accounts, t) : r = KeyedRow(f, k)
  <1>1. \A a : P!Has(P!AccountsOf(pg, t), a) <=> a \in M!Beside(mem.accounts, t)
    BY AccountFacts DEF M!HasAccount, M!Beside
  <1>2. \A k \in DOMAIN f : KeyedRow(f, k).row = f[k]
    BY DEF KeyedRow
  <1> QED BY <1>1, <1>2, Tables DEF P!Credentials, HeldBy

\* What the two stores know of credentials.
LEMMA CredentialFacts ==
    ASSUME Paired, NEW t, NEW a
    PROVE  /\ pg.sessions = Keyed(mem.sessions) /\ pg.api_tokens = Keyed(mem.apiTokens)
           /\ CredentialsGood(mem.sessions, mem.apiTokens, DOMAIN mem.accounts)
           /\ DOMAIN mem = M!Memory /\ DOMAIN pg = P!Postgres
           /\ P!Has(P!AccountsOf(pg, t), a) <=> M!HasAccount(mem, t, a)
  BY AccountFacts DEF Paired, Lockstep, Mirrors, Good

\* A statement that names a credential and its account touches that credential alone.
LEMMA NamedRow ==
    ASSUME Paired, NEW t, NEW a, M!HasAccount(mem, t, a), NEW f, NEW k, NEW r
    PROVE  r \in P!Named(pg, t, Keyed(f), a, k) <=> M!Owns(f, k, a) /\ r = KeyedRow(f, k)
  <1>1. \A x \in DOMAIN f : KeyedRow(f, x).row = f[x] /\ KeyedRow(f, x).id = x
    BY DEF KeyedRow
  <1>2. a \in M!Beside(mem.accounts, t)
    BY DEF M!HasAccount, M!Beside
  <1>3. r \in P!Credentials(pg, t, Keyed(f)) <=> \E x \in HeldBy(f, mem.accounts, t) : r = KeyedRow(f, x)
    BY CredentialsShown
  <1> QED BY <1>1, <1>2, <1>3 DEF P!Named, M!Owns, HeldBy

\* What one account's sessions become concerns nobody else.
LEMMA SessionsOnly ==
    ASSUME Paired, NEW t, NEW a, M!HasAccount(mem, t, a), NEW g, MapsTo(g, Keys, Session), IsFiniteSet(DOMAIN g),
           OnlyHis(mem.sessions, g, a), NEW n, NEW db, MemOnly(n, {"sessions"}), n.sessions = g,
           PgOnly(db, {"sessions"}), db.sessions = Keyed(g)
    PROVE  Lockstep(n, db) /\ Apart(t, n)
  <1>1. n.apiTokens = mem.apiTokens /\ MemOnly(n, {"sessions", "apiTokens"})
    BY DEF MemOnly, M!Memory
  <1>2. db.api_tokens = pg.api_tokens /\ PgOnly(db, {"sessions", "api_tokens"})
    BY DEF PgOnly, P!Postgres
  <1>3. db.api_tokens = Keyed(n.apiTokens) /\ CredentialsGood(mem.sessions, mem.apiTokens, DOMAIN mem.accounts)
    BY <1>1, <1>2, CredentialFacts
  <1>4. \A k \in DOMAIN g : g[k].account \in DOMAIN mem.accounts
    BY <1>3 DEF CredentialsGood, OnlyHis, M!HasAccount
  <1>5. CredentialsGood(n.sessions, n.apiTokens, DOMAIN mem.accounts)
    BY <1>1, <1>3, <1>4 DEF CredentialsGood
  <1>6. ASSUME NEW s \in Sides, s # t
        PROVE  /\ SameHeld(mem.sessions, n.sessions, mem.accounts, mem.accounts, s)
               /\ SameHeld(mem.apiTokens, n.apiTokens, mem.accounts, mem.accounts, s)
    BY <1>1, <1>6, OthersHeld, SameSelf
  <1> QED BY <1>1, <1>2, <1>3, <1>5, <1>6, CredentialsOnly

\* What one account's API tokens become concerns nobody else.
LEMMA APITokensOnly ==
    ASSUME Paired, NEW t, NEW a, M!HasAccount(mem, t, a), NEW g, MapsTo(g, Keys, APIToken),
           OnlyHis(mem.apiTokens, g, a), NEW n, NEW db, MemOnly(n, {"apiTokens"}), n.apiTokens = g,
           PgOnly(db, {"api_tokens"}), db.api_tokens = Keyed(g)
    PROVE  Lockstep(n, db) /\ Apart(t, n)
  <1>1. n.sessions = mem.sessions /\ MemOnly(n, {"sessions", "apiTokens"})
    BY DEF MemOnly, M!Memory
  <1>2. db.sessions = pg.sessions /\ PgOnly(db, {"sessions", "api_tokens"})
    BY DEF PgOnly, P!Postgres
  <1>3. db.sessions = Keyed(n.sessions) /\ CredentialsGood(mem.sessions, mem.apiTokens, DOMAIN mem.accounts)
    BY <1>1, <1>2, CredentialFacts
  <1>4. \A k \in DOMAIN g : g[k].account \in DOMAIN mem.accounts
    BY <1>3 DEF CredentialsGood, OnlyHis, M!HasAccount
  <1>5. CredentialsGood(n.sessions, n.apiTokens, DOMAIN mem.accounts)
    BY <1>1, <1>3, <1>4 DEF CredentialsGood
  <1>6. ASSUME NEW s \in Sides, s # t
        PROVE  /\ SameHeld(mem.sessions, n.sessions, mem.accounts, mem.accounts, s)
               /\ SameHeld(mem.apiTokens, n.apiTokens, mem.accounts, mem.accounts, s)
    BY <1>1, <1>6, OthersHeld, SameSelf
  <1> QED BY <1>1, <1>2, <1>3, <1>5, <1>6, CredentialsOnly

\* CreateSession, which sweeps the account's expired sessions first, is answered alike.
LEMMA CreateSessionAlike ==
    ASSUME Paired, now \in Time, NEW t \in Sides, NEW k \in Keys, k \notin DOMAIN mem.sessions, NEW session \in Session
    PROVE  Alike(t, M!CreateSession(mem, t, k, session, now), P!CreateSession(pg, t, k, session, now))
  <1> DEFINE f == mem.sessions
             a == session.account
             expired == {x \in DOMAIN f : f[x].account = a /\ ~SessionValid(f[x], now)}
             swept == {r \in pg.sessions : ~(/\ r \in P!Credentials(pg, t, pg.sessions)
                                            /\ r.row.account = a /\ r.row.expiresAt <= now)}
  <1>1. /\ pg.sessions = Keyed(f) /\ CredentialsGood(f, mem.apiTokens, DOMAIN mem.accounts)
        /\ DOMAIN mem = M!Memory /\ DOMAIN pg = P!Postgres
        /\ P!Has(P!AccountsOf(pg, t), a) <=> M!HasAccount(mem, t, a)
    BY CredentialFacts
  <1>2. CASE ~M!HasAccount(mem, t, a)
    <2>1. M!CreateSession(mem, t, k, session, now) = Fail(mem, "ErrNotFound")
      BY <1>2, Shared DEF M!CreateSession
    <2>2. P!CreateSession(pg, t, k, session, now) = Fail(pg, "ErrNotFound")
      BY <1>1, <1>2, Shared DEF P!CreateSession, P!WithAccount
    <2> QED BY <2>1, <2>2, RefusedAlike DEF Answers
  <1>3. CASE M!HasAccount(mem, t, a)
    <2> DEFINE kept == Without(f, expired)
               g == Put(kept, k, session)
               n == [mem EXCEPT !.sessions = g]
               db == [pg EXCEPT !.sessions = swept \cup {[id |-> k, row |-> session]}]
    <2>1. swept = Keyed(kept)
      <3>1. swept \subseteq Keyed(f)
        BY <1>1
      <3>2. ASSUME NEW x \in DOMAIN f PROVE KeyedRow(f, x) \in swept <=> x \notin expired
        <4>1. KeyedRow(f, x) \in pg.sessions /\ KeyedRow(f, x).row = f[x]
          BY <1>1, Tables DEF KeyedRow
        <4>2. f[x].account = a => KeyedRow(f, x) \in P!Credentials(pg, t, pg.sessions)
          <5>1. f[x].account = a => x \in HeldBy(f, mem.accounts, t)
            BY <1>3 DEF M!HasAccount, M!Beside, HeldBy
          <5> QED BY <5>1, <1>1, CredentialsShown
        <4>3. f[x].expiresAt <= now <=> ~SessionValid(f[x], now)
          <5>1. f[x].expiresAt \in Time
            BY <1>1 DEF CredentialsGood, MapsTo, Session
          <5> QED BY <5>1, BoundsAssumption DEF SessionValid, Time
        <4> QED BY <4>1, <4>2, <4>3
      <3> HIDE DEF swept, expired
      <3> QED BY <3>1, <3>2, Cut
    <2>2. k \notin DOMAIN kept
      BY DEF Without
    <2>3. M!CreateSession(mem, t, k, session, now) = Done(n)
      BY <1>3, Shared, SharedRows DEF M!CreateSession
    <2>4. P!CreateSession(pg, t, k, session, now) = Done(db)
      <3>1. ~P!Has(swept, k)
        BY <2>1, <2>2, KeyedHas
      <3> QED BY <1>1, <1>3, <3>1, Shared DEF P!CreateSession, P!WithAccount
    <2>5. swept \cup {[id |-> k, row |-> session]} = Keyed(g)
      <3> HIDE DEF swept, kept
      <3> QED BY <2>1, <2>2, KeyedAdd
    <2>6. MapsTo(g, Keys, Session) /\ IsFiniteSet(DOMAIN g)
      <3> HIDE DEF expired
      <3>1. MapsTo(kept, Keys, Session) /\ IsFiniteSet(DOMAIN kept)
        BY <1>1, WithoutKeeps, WithoutFinite DEF CredentialsGood
      <3> HIDE DEF kept
      <3> QED BY <3>1, PutKeeps, PutFinite
    <2>7. OnlyHis(f, g, a)
      BY DEF OnlyHis, Put, Without
    <2> HIDE DEF g, swept
    <2>8. MemOnly(n, {"sessions"}) /\ n.sessions = g
      BY <1>1 DEF MemOnly, M!Memory
    <2>9. PgOnly(db, {"sessions"}) /\ db.sessions = Keyed(g)
      BY <1>1, <2>5 DEF PgOnly, P!Postgres
    <2> HIDE DEF n, db
    <2>10. Lockstep(n, db) /\ Apart(t, n)
      BY <1>3, <2>6, <2>7, <2>8, <2>9, SessionsOnly
    <2> QED BY <2>3, <2>4, <2>10, DoneAlike
  <1> QED BY <1>2, <1>3

\* TouchSession is answered alike.
LEMMA TouchSessionAlike ==
    ASSUME Paired, NEW t \in Sides, NEW a, NEW k, NEW e \in Time
    PROVE  Alike(t, M!TouchSession(mem, t, a, k, e), P!TouchSession(pg, t, a, k, e))
  <1> DEFINE f == mem.sessions
             his == P!Named(pg, t, pg.sessions, a, k)
  <1>1. /\ pg.sessions = Keyed(f) /\ CredentialsGood(f, mem.apiTokens, DOMAIN mem.accounts)
        /\ DOMAIN mem = M!Memory /\ DOMAIN pg = P!Postgres
        /\ P!Has(P!AccountsOf(pg, t), a) <=> M!HasAccount(mem, t, a)
    BY CredentialFacts
  <1>2. M!HasAccount(mem, t, a) => \A r : r \in his <=> M!Owns(f, k, a) /\ r = KeyedRow(f, k)
    BY <1>1, NamedRow
  <1>3. CASE ~M!HasAccount(mem, t, a) \/ ~M!Owns(f, k, a)
    <2>1. M!TouchSession(mem, t, a, k, e) = Fail(mem, "ErrNotFound")
      BY <1>3, Shared DEF M!TouchSession
    <2>2. P!TouchSession(pg, t, a, k, e) = Fail(pg, "ErrNotFound")
      <3>1. CASE ~M!HasAccount(mem, t, a)
        BY <1>1, <3>1, Shared DEF P!TouchSession, P!WithAccount
      <3>2. CASE M!HasAccount(mem, t, a)
        <4>1. his = {}
          BY <1>2, <1>3, <3>2
        <4> HIDE DEF his
        <4> QED BY <1>1, <3>2, <4>1, Shared DEF P!TouchSession, P!WithAccount, P!AffectOne, his
      <3> QED BY <3>1, <3>2
    <2> QED BY <2>1, <2>2, RefusedAlike DEF Answers
  <1>4. CASE M!HasAccount(mem, t, a) /\ M!Owns(f, k, a)
    <2> DEFINE v == [f[k] EXCEPT !.expiresAt = e]
               u == [r \in pg.sessions |-> IF r \in his THEN [r EXCEPT !.row = [r.row EXCEPT !.expiresAt = e]] ELSE r]
               g == SetAt(f, k, v)
               n == [mem EXCEPT !.sessions = g]
               db == [pg EXCEPT !.sessions = Rewrites(u, @)]
    <2>1. k \in DOMAIN f /\ f[k].account = a /\ MapsTo(f, Keys, Session) /\ IsFiniteSet(DOMAIN f)
      BY <1>1, <1>4 DEF M!Owns, CredentialsGood
    <2>2. v \in Session /\ v.account = a
      <3>1. f[k] \in Session
        BY <2>1 DEF MapsTo
      <3> QED BY <2>1, <3>1 DEF Session
    <2>3. M!TouchSession(mem, t, a, k, e) = Done(n)
      BY <1>1, <1>4, Shared DEF M!TouchSession, SetAt, M!Memory
    <2>4. P!TouchSession(pg, t, a, k, e) = Done(db)
      <3>1. his # {}
        BY <1>2, <1>4
      <3> QED BY <1>1, <1>4, <3>1, Shared DEF P!TouchSession, P!WithAccount, P!AffectOne, P!Update, P!Postgres, Rewrites
    <2>5. /\ \A r \in Keyed(f) : r.id = k /\ r.row = f[k] => u[r] = NewRow(r, v)
          /\ \A r \in Keyed(f) : r.id # k => u[r] = r
      <3>1. ASSUME NEW r \in Keyed(f) PROVE r \in his <=> r.id = k
        <4>1. PICK x \in DOMAIN f : r = KeyedRow(f, x)
          BY Tables
        <4>2. r.id = x /\ KeyedRow(f, k).id = k
          BY <4>1 DEF KeyedRow
        <4>3. r \in his <=> r = KeyedRow(f, k)
          BY <1>2, <1>4
        <4> QED BY <4>1, <4>2, <4>3
      <3> HIDE DEF his
      <3> QED BY <1>1, <3>1 DEF NewRow
    <2> HIDE DEF u, v
    <2>6. MemOnly(n, {"sessions"}) /\ n.sessions = g
      BY <1>1 DEF MemOnly, M!Memory
    <2>7. PgOnly(db, {"sessions"}) /\ db.sessions = Rewrites(u, Keyed(f))
      BY <1>1 DEF PgOnly, P!Postgres
    <2> HIDE DEF n, db
    <2>8. db.sessions = Keyed(g)
      BY <2>1, <2>5, <2>7, KeyedUpdated
    <2>9. /\ DOMAIN g = DOMAIN f /\ g[k] = v /\ \A x \in DOMAIN f : x # k => g[x] = f[x]
          /\ MapsTo(g, Keys, Session)
      BY <2>1, <2>2, AtSet
    <2> HIDE DEF g
    <2>10. OnlyHis(f, g, a)
      BY <2>1, <2>2, <2>9 DEF OnlyHis
    <2>11. Lockstep(n, db) /\ Apart(t, n)
      BY <1>4, <2>1, <2>6, <2>7, <2>8, <2>9, <2>10, SessionsOnly
    <2> QED BY <2>3, <2>4, <2>11, DoneAlike
  <1> QED BY <1>3, <1>4

\* Some of one account's sessions ended.
LEMMA SessionsEnd ==
    ASSUME Paired, NEW t, NEW a, M!HasAccount(mem, t, a), NEW S, \A k \in S : mem.sessions[k].account = a,
           NEW T, T \subseteq Keyed(mem.sessions), \A k \in DOMAIN mem.sessions : KeyedRow(mem.sessions, k) \in T <=> k \notin S
    PROVE  /\ Lockstep([mem EXCEPT !.sessions = Without(@, S)], [pg EXCEPT !.sessions = T])
           /\ Apart(t, [mem EXCEPT !.sessions = Without(@, S)])
  <1> DEFINE f == mem.sessions
             g == Without(f, S)
             n == [mem EXCEPT !.sessions = Without(@, S)]
             db == [pg EXCEPT !.sessions = T]
  <1>1. CredentialsGood(f, mem.apiTokens, DOMAIN mem.accounts) /\ DOMAIN mem = M!Memory /\ DOMAIN pg = P!Postgres
    BY CredentialFacts
  <1>2. T = Keyed(g)
    BY Cut
  <1>3. MapsTo(g, Keys, Session) /\ IsFiniteSet(DOMAIN g)
    BY <1>1, WithoutKeeps, WithoutFinite DEF CredentialsGood
  <1>4. OnlyHis(f, g, a)
    BY DEF OnlyHis, Without
  <1> HIDE DEF g
  <1>5. MemOnly(n, {"sessions"}) /\ n.sessions = g
    BY <1>1 DEF MemOnly, M!Memory, g
  <1>6. PgOnly(db, {"sessions"}) /\ db.sessions = Keyed(g)
    BY <1>1, <1>2 DEF PgOnly, P!Postgres
  <1> HIDE DEF n, db
  <1>7. Lockstep(n, db) /\ Apart(t, n)
    BY <1>3, <1>4, <1>5, <1>6, SessionsOnly
  <1> QED BY <1>7 DEF n, db

\* DeleteSession is answered alike.
LEMMA DeleteSessionAlike ==
    ASSUME Paired, NEW t \in Sides, NEW a, NEW k
    PROVE  Alike(t, M!DeleteSession(mem, t, a, k), P!DeleteSession(pg, t, a, k))
  <1> DEFINE f == mem.sessions
             his == P!Named(pg, t, pg.sessions, a, k)
             left == pg.sessions \ his
  <1>1. pg.sessions = Keyed(f) /\ DOMAIN pg = P!Postgres /\ (P!Has(P!AccountsOf(pg, t), a) <=> M!HasAccount(mem, t, a))
    BY CredentialFacts
  <1>2. CASE ~M!HasAccount(mem, t, a)
    <2>1. M!DeleteSession(mem, t, a, k) = Fail(mem, "ErrNotFound")
      BY <1>2, Shared DEF M!DeleteSession
    <2>2. P!DeleteSession(pg, t, a, k) = Fail(pg, "ErrNotFound")
      BY <1>1, <1>2, Shared DEF P!DeleteSession, P!WithAccount
    <2> QED BY <2>1, <2>2, RefusedAlike DEF Answers
  <1>3. CASE M!HasAccount(mem, t, a)
    <2> DEFINE db == [pg EXCEPT !.sessions = left]
    <2>1. P!DeleteSession(pg, t, a, k) = Done(db)
      BY <1>1, <1>3, Shared DEF P!DeleteSession, P!WithAccount, P!Postgres
    <2>2. \A r : r \in his <=> M!Owns(f, k, a) /\ r = KeyedRow(f, k)
      BY <1>1, <1>3, NamedRow
    <2>3. left \subseteq Keyed(f) /\ \A x \in DOMAIN f : KeyedRow(f, x) \in left <=> ~(M!Owns(f, k, a) /\ x = k)
      <3>1. \A x \in DOMAIN f : KeyedRow(f, x) \in pg.sessions /\ KeyedRow(f, x).id = x
        BY <1>1, Tables DEF KeyedRow
      <3>2. M!Owns(f, k, a) => k \in DOMAIN f
        BY DEF M!Owns
      <3> HIDE DEF his
      <3> QED BY <1>1, <2>2, <3>1, <3>2
    <2> HIDE DEF left, his
    <2>4. CASE M!Owns(f, k, a)
      <3>1. M!DeleteSession(mem, t, a, k) = Done([mem EXCEPT !.sessions = Without(@, {k})])
        BY <1>3, <2>4, Shared DEF M!DeleteSession
      <3>2. \A x \in {k} : f[x].account = a
        BY <2>4 DEF M!Owns
      <3>3. \A x \in DOMAIN f : KeyedRow(f, x) \in left <=> x \notin {k}
        BY <2>3, <2>4
      <3>4. Lockstep([mem EXCEPT !.sessions = Without(@, {k})], db) /\ Apart(t, [mem EXCEPT !.sessions = Without(@, {k})])
        BY <1>3, <2>3, <3>2, <3>3, SessionsEnd
      <3> QED BY <2>1, <3>1, <3>4, DoneAlike
    <2>5. CASE ~M!Owns(f, k, a)
      <3>1. M!DeleteSession(mem, t, a, k) = Done(mem)
        BY <1>3, <2>5, Shared DEF M!DeleteSession
      <3>2. left = Keyed(f)
        BY <2>3, <2>5, Tables
      <3>3. db.sessions = pg.sessions /\ PgOnly(db, {"sessions"}) /\ MemOnly(mem, {"sessions"})
        BY <1>1, <3>2, CredentialFacts DEF PgOnly, P!Postgres, MemOnly
      <3> HIDE DEF db
      <3>4. OnlyHis(f, f, a) /\ MapsTo(f, Keys, Session) /\ IsFiniteSet(DOMAIN f)
        BY CredentialFacts DEF OnlyHis, CredentialsGood
      <3>5. Lockstep(mem, db) /\ Apart(t, mem)
        BY <1>1, <1>3, <3>3, <3>4, SessionsOnly
      <3> QED BY <2>1, <3>1, <3>5, DoneAlike
    <2> QED BY <2>4, <2>5
  <1> QED BY <1>2, <1>3

\* DeleteSessionsFor is answered alike.
LEMMA DeleteSessionsForAlike ==
    ASSUME Paired, NEW t \in Sides, NEW a
    PROVE  Alike(t, M!DeleteSessionsFor(mem, t, a), P!DeleteSessionsFor(pg, t, a))
  <1> DEFINE f == mem.sessions
             S == {k \in DOMAIN f : f[k].account = a}
             his == {r \in P!Credentials(pg, t, pg.sessions) : r.row.account = a}
             left == pg.sessions \ his
  <1>1. /\ pg.sessions = Keyed(f) /\ DOMAIN pg = P!Postgres /\ (P!Has(P!AccountsOf(pg, t), a) <=> M!HasAccount(mem, t, a))
        /\ CredentialsGood(f, mem.apiTokens, DOMAIN mem.accounts)
    BY CredentialFacts
  <1>2. CASE ~M!HasAccount(mem, t, a)
    <2>1. M!DeleteSessionsFor(mem, t, a) = Fail(mem, "ErrNotFound")
      BY <1>2, Shared DEF M!DeleteSessionsFor
    <2>2. P!DeleteSessionsFor(pg, t, a) = Fail(pg, "ErrNotFound")
      BY <1>1, <1>2, Shared DEF P!DeleteSessionsFor, P!WithAccount
    <2> QED BY <2>1, <2>2, RefusedAlike DEF Answers
  <1>3. CASE M!HasAccount(mem, t, a)
    <2> DEFINE n == [mem EXCEPT !.sessions = Without(@, S)]
               db == [pg EXCEPT !.sessions = left]
    <2>1. M!DeleteSessionsFor(mem, t, a) = Ok(n, Cardinality(S))
      BY <1>3, Shared, Counting DEF M!DeleteSessionsFor
    <2>2. P!DeleteSessionsFor(pg, t, a) = Ok(db, Cardinality(his))
      BY <1>1, <1>3, Shared, Counting DEF P!DeleteSessionsFor, P!WithAccount, P!Postgres
    <2>3. \A r : r \in his <=> \E k \in S : r = KeyedRow(f, k)
      <3>1. \A k \in DOMAIN f : KeyedRow(f, k).row = f[k]
        BY DEF KeyedRow
      <3>2. a \in M!Beside(mem.accounts, t)
        BY <1>3 DEF M!HasAccount, M!Beside
      <3>3. \A r : r \in P!Credentials(pg, t, pg.sessions) <=> \E k \in HeldBy(f, mem.accounts, t) : r = KeyedRow(f, k)
        BY <1>1, CredentialsShown
      <3> QED BY <3>1, <3>2, <3>3 DEF HeldBy
    <2>4. S \subseteq DOMAIN f /\ IsFiniteSet(S) /\ \A k \in S : f[k].account = a
      <3>1. S \in SUBSET DOMAIN f /\ IsFiniteSet(DOMAIN f)
        BY <1>1 DEF CredentialsGood
      <3>2. IsFiniteSet(S)
        BY <3>1, FS_Subset
      <3> QED BY <3>2
    <2>5. left \subseteq Keyed(f) /\ \A x \in DOMAIN f : KeyedRow(f, x) \in left <=> x \notin S
      <3>1. \A x \in DOMAIN f : KeyedRow(f, x) \in pg.sessions /\ KeyedRow(f, x).id = x
        BY <1>1, Tables DEF KeyedRow
      <3> HIDE DEF his, S
      <3> QED BY <1>1, <2>3, <2>4, <3>1
    <2> HIDE DEF left, his, S
    <2>6. Cardinality(his) = Cardinality(S)
      BY <2>3, <2>4, KeyedSize
    <2>7. Lockstep(n, db) /\ Apart(t, n)
      BY <1>3, <2>4, <2>5, SessionsEnd
    <2> HIDE DEF n, db
    <2> QED BY <2>1, <2>2, <2>6, <2>7, DoneAlike
  <1> QED BY <1>2, <1>3

\* CreateAPIToken is answered alike.
LEMMA CreateAPITokenAlike ==
    ASSUME Paired, NEW t \in Sides, NEW k \in Keys, NEW token \in APIToken
    PROVE  Alike(t, M!CreateAPIToken(mem, t, k, token), P!CreateAPIToken(pg, t, k, token))
  <1> DEFINE f == mem.apiTokens
             a == token.account
  <1>1. /\ pg.api_tokens = Keyed(f) /\ CredentialsGood(mem.sessions, f, DOMAIN mem.accounts)
        /\ DOMAIN mem = M!Memory /\ DOMAIN pg = P!Postgres
        /\ P!Has(P!AccountsOf(pg, t), a) <=> M!HasAccount(mem, t, a)
        /\ P!Has(pg.api_tokens, k) <=> k \in DOMAIN f
    BY CredentialFacts, KeyedHas
  <1>2. CASE ~M!HasAccount(mem, t, a)
    <2>1. M!CreateAPIToken(mem, t, k, token) = Fail(mem, "ErrNotFound")
      BY <1>2, Shared DEF M!CreateAPIToken
    <2>2. P!CreateAPIToken(pg, t, k, token) = Fail(pg, "ErrNotFound")
      BY <1>1, <1>2, Shared DEF P!CreateAPIToken, P!WithAccount
    <2> QED BY <2>1, <2>2, RefusedAlike DEF Answers
  <1>3. CASE M!HasAccount(mem, t, a) /\ k \in DOMAIN f
    <2>1. M!CreateAPIToken(mem, t, k, token) = Fail(mem, "ErrConflict")
      BY <1>3, Shared DEF M!CreateAPIToken
    <2>2. P!CreateAPIToken(pg, t, k, token) = Fail(pg, "ErrConflict")
      BY <1>1, <1>3, Shared DEF P!CreateAPIToken, P!WithAccount
    <2> QED BY <2>1, <2>2, RefusedAlike DEF Answers
  <1>4. CASE M!HasAccount(mem, t, a) /\ k \notin DOMAIN f
    <2> DEFINE g == Put(f, k, token)
               n == [mem EXCEPT !.apiTokens = g]
               db == [pg EXCEPT !.api_tokens = @ \cup {[id |-> k, row |-> token]}]
    <2>1. M!CreateAPIToken(mem, t, k, token) = Done(n)
      BY <1>4, Shared DEF M!CreateAPIToken
    <2>2. P!CreateAPIToken(pg, t, k, token) = Done(db)
      BY <1>1, <1>4, Shared DEF P!CreateAPIToken, P!WithAccount
    <2>3. MapsTo(g, Keys, APIToken) /\ Keyed(g) = Keyed(f) \cup {[id |-> k, row |-> token]}
      BY <1>1, <1>4, PutKeeps, KeyedAdd DEF CredentialsGood
    <2>4. OnlyHis(f, g, a)
      BY <1>4 DEF OnlyHis, Put
    <2> HIDE DEF g
    <2>5. MemOnly(n, {"apiTokens"}) /\ n.apiTokens = g
      BY <1>1 DEF MemOnly, M!Memory
    <2>6. PgOnly(db, {"api_tokens"}) /\ db.api_tokens = Keyed(g)
      BY <1>1, <2>3 DEF PgOnly, P!Postgres
    <2> HIDE DEF n, db
    <2>7. Lockstep(n, db) /\ Apart(t, n)
      BY <1>4, <2>3, <2>4, <2>5, <2>6, APITokensOnly
    <2> QED BY <2>1, <2>2, <2>7, DoneAlike
  <1> QED BY <1>2, <1>3, <1>4

\* TouchAPIToken is answered alike.
LEMMA TouchAPITokenAlike ==
    ASSUME Paired, NEW t \in Sides, NEW a, NEW k, NEW at \in Time
    PROVE  Alike(t, M!TouchAPIToken(mem, t, a, k, at), P!TouchAPIToken(pg, t, a, k, at))
  <1> DEFINE f == mem.apiTokens
             his == P!Named(pg, t, pg.api_tokens, a, k)
  <1>1. /\ pg.api_tokens = Keyed(f) /\ CredentialsGood(mem.sessions, f, DOMAIN mem.accounts)
        /\ DOMAIN mem = M!Memory /\ DOMAIN pg = P!Postgres
        /\ P!Has(P!AccountsOf(pg, t), a) <=> M!HasAccount(mem, t, a)
    BY CredentialFacts
  <1>2. M!HasAccount(mem, t, a) => \A r : r \in his <=> M!Owns(f, k, a) /\ r = KeyedRow(f, k)
    BY <1>1, NamedRow
  <1>3. CASE ~M!HasAccount(mem, t, a) \/ ~M!Owns(f, k, a)
    <2>1. M!TouchAPIToken(mem, t, a, k, at) = Fail(mem, "ErrNotFound")
      BY <1>3, Shared DEF M!TouchAPIToken
    <2>2. P!TouchAPIToken(pg, t, a, k, at) = Fail(pg, "ErrNotFound")
      <3>1. CASE ~M!HasAccount(mem, t, a)
        BY <1>1, <3>1, Shared DEF P!TouchAPIToken, P!WithAccount
      <3>2. CASE M!HasAccount(mem, t, a)
        <4>1. his = {}
          BY <1>2, <1>3, <3>2
        <4> HIDE DEF his
        <4> QED BY <1>1, <3>2, <4>1, Shared DEF P!TouchAPIToken, P!WithAccount, P!AffectOne, his
      <3> QED BY <3>1, <3>2
    <2> QED BY <2>1, <2>2, RefusedAlike DEF Answers
  <1>4. CASE M!HasAccount(mem, t, a) /\ M!Owns(f, k, a)
    <2> DEFINE v == [f[k] EXCEPT !.lastUsedAt = at]
               u == [r \in pg.api_tokens |-> IF r \in his THEN [r EXCEPT !.row = [r.row EXCEPT !.lastUsedAt = at]] ELSE r]
               g == SetAt(f, k, v)
               n == [mem EXCEPT !.apiTokens = g]
               db == [pg EXCEPT !.api_tokens = Rewrites(u, @)]
    <2>1. k \in DOMAIN f /\ f[k].account = a /\ MapsTo(f, Keys, APIToken)
      BY <1>1, <1>4 DEF M!Owns, CredentialsGood
    <2>2. v \in APIToken /\ v.account = a
      <3>1. f[k] \in APIToken
        BY <2>1 DEF MapsTo
      <3> QED BY <2>1, <3>1 DEF APIToken
    <2>3. M!TouchAPIToken(mem, t, a, k, at) = Done(n)
      BY <1>1, <1>4, Shared DEF M!TouchAPIToken, SetAt, M!Memory
    <2>4. P!TouchAPIToken(pg, t, a, k, at) = Done(db)
      <3>1. his # {}
        BY <1>2, <1>4
      <3> QED BY <1>1, <1>4, <3>1, Shared DEF P!TouchAPIToken, P!WithAccount, P!AffectOne, P!Update, P!Postgres, Rewrites
    <2>5. /\ \A r \in Keyed(f) : r.id = k /\ r.row = f[k] => u[r] = NewRow(r, v)
          /\ \A r \in Keyed(f) : r.id # k => u[r] = r
      <3>1. ASSUME NEW r \in Keyed(f) PROVE r \in his <=> r.id = k
        <4>1. PICK x \in DOMAIN f : r = KeyedRow(f, x)
          BY Tables
        <4>2. r.id = x /\ KeyedRow(f, k).id = k
          BY <4>1 DEF KeyedRow
        <4>3. r \in his <=> r = KeyedRow(f, k)
          BY <1>2, <1>4
        <4> QED BY <4>1, <4>2, <4>3
      <3> HIDE DEF his
      <3> QED BY <1>1, <3>1 DEF NewRow
    <2> HIDE DEF u, v
    <2>6. MemOnly(n, {"apiTokens"}) /\ n.apiTokens = g
      BY <1>1 DEF MemOnly, M!Memory
    <2>7. PgOnly(db, {"api_tokens"}) /\ db.api_tokens = Rewrites(u, Keyed(f))
      BY <1>1 DEF PgOnly, P!Postgres
    <2> HIDE DEF n, db
    <2>8. db.api_tokens = Keyed(g)
      BY <2>1, <2>5, <2>7, KeyedUpdated
    <2>9. /\ DOMAIN g = DOMAIN f /\ g[k] = v /\ \A x \in DOMAIN f : x # k => g[x] = f[x]
          /\ MapsTo(g, Keys, APIToken)
      BY <2>1, <2>2, AtSet
    <2> HIDE DEF g
    <2>10. OnlyHis(f, g, a)
      BY <2>1, <2>2, <2>9 DEF OnlyHis
    <2>11. Lockstep(n, db) /\ Apart(t, n)
      BY <1>4, <2>6, <2>7, <2>8, <2>9, <2>10, APITokensOnly
    <2> QED BY <2>3, <2>4, <2>11, DoneAlike
  <1> QED BY <1>3, <1>4

\* DeleteAPIToken is answered alike.
LEMMA DeleteAPITokenAlike ==
    ASSUME Paired, NEW t \in Sides, NEW a, NEW k
    PROVE  Alike(t, M!DeleteAPIToken(mem, t, a, k), P!DeleteAPIToken(pg, t, a, k))
  <1> DEFINE f == mem.apiTokens
             his == P!Named(pg, t, pg.api_tokens, a, k)
             left == pg.api_tokens \ his
  <1>1. /\ pg.api_tokens = Keyed(f) /\ CredentialsGood(mem.sessions, f, DOMAIN mem.accounts)
        /\ DOMAIN mem = M!Memory /\ DOMAIN pg = P!Postgres
        /\ P!Has(P!AccountsOf(pg, t), a) <=> M!HasAccount(mem, t, a)
    BY CredentialFacts
  <1>2. M!HasAccount(mem, t, a) => \A r : r \in his <=> M!Owns(f, k, a) /\ r = KeyedRow(f, k)
    BY <1>1, NamedRow
  <1>3. CASE ~M!HasAccount(mem, t, a) \/ ~M!Owns(f, k, a)
    <2>1. M!DeleteAPIToken(mem, t, a, k) = Fail(mem, "ErrNotFound")
      BY <1>3, Shared DEF M!DeleteAPIToken
    <2>2. P!DeleteAPIToken(pg, t, a, k) = Fail(pg, "ErrNotFound")
      <3>1. CASE ~M!HasAccount(mem, t, a)
        BY <1>1, <3>1, Shared DEF P!DeleteAPIToken, P!WithAccount
      <3>2. CASE M!HasAccount(mem, t, a)
        <4>1. his = {}
          BY <1>2, <1>3, <3>2
        <4> HIDE DEF his
        <4> QED BY <1>1, <3>2, <4>1, Shared DEF P!DeleteAPIToken, P!WithAccount, P!AffectOne, his
      <3> QED BY <3>1, <3>2
    <2> QED BY <2>1, <2>2, RefusedAlike DEF Answers
  <1>4. CASE M!HasAccount(mem, t, a) /\ M!Owns(f, k, a)
    <2> DEFINE g == Without(f, {k})
               n == [mem EXCEPT !.apiTokens = g]
               db == [pg EXCEPT !.api_tokens = left]
    <2>1. M!DeleteAPIToken(mem, t, a, k) = Done(n)
      BY <1>4, Shared DEF M!DeleteAPIToken
    <2>2. P!DeleteAPIToken(pg, t, a, k) = Done(db)
      <3>1. his # {}
        BY <1>2, <1>4
      <3> QED BY <1>1, <1>4, <3>1, Shared DEF P!DeleteAPIToken, P!WithAccount, P!AffectOne, P!Postgres
    <2>3. left = Keyed(g)
      <3>1. \A x \in DOMAIN f : KeyedRow(f, x) \in pg.api_tokens /\ KeyedRow(f, x).id = x
        BY <1>1, Tables DEF KeyedRow
      <3>2. left \subseteq Keyed(f) /\ \A x \in DOMAIN f : KeyedRow(f, x) \in left <=> x \notin {k}
        <4>1. k \in DOMAIN f
          BY <1>4 DEF M!Owns
        <4> HIDE DEF his
        <4> QED BY <1>1, <1>2, <1>4, <3>1, <4>1
      <3> HIDE DEF left
      <3> QED BY <3>2, Cut
    <2>4. MapsTo(g, Keys, APIToken) /\ OnlyHis(f, g, a)
      <3>1. OnlyHis(f, g, a)
        BY <1>4 DEF OnlyHis, Without, M!Owns
      <3> QED BY <1>1, <3>1, WithoutKeeps DEF CredentialsGood
    <2> HIDE DEF g, left
    <2>5. MemOnly(n, {"apiTokens"}) /\ n.apiTokens = g
      BY <1>1 DEF MemOnly, M!Memory
    <2>6. PgOnly(db, {"api_tokens"}) /\ db.api_tokens = Keyed(g)
      BY <1>1, <2>3 DEF PgOnly, P!Postgres
    <2> HIDE DEF n, db
    <2>7. Lockstep(n, db) /\ Apart(t, n)
      BY <1>4, <2>4, <2>5, <2>6, APITokensOnly
    <2> QED BY <2>1, <2>2, <2>7, DoneAlike
  <1> QED BY <1>3, <1>4

-----------------------------------------------------------------------------
(* Alert rules. *)

\* What the two stores know of alert rules.
LEMMA RuleFacts ==
    ASSUME Paired, NEW t, NEW r
    PROVE  /\ pg.alert_rules = Inside(mem.rules) /\ pg.alert_states = InsideTwice(mem.states)
           /\ RulesGood(mem.rules, mem.states, DOMAIN mem.tenants)
           /\ DOMAIN mem = M!Memory /\ DOMAIN pg = P!Postgres
           /\ P!Has(pg.tenants, t) <=> t \in DOMAIN mem.tenants
           /\ P!HasIn(pg.alert_rules, t, r) <=> <<t, r>> \in DOMAIN mem.rules
  <1>1. pg.alert_rules = Inside(mem.rules) /\ pg.tenants = Keyed(mem.tenants)
    BY DEF Paired, Lockstep, Mirrors
  <1>2. DOMAIN mem.rules \subseteq Tenants \X RuleIDs
    BY DEF Paired, Lockstep, Good, RulesGood, MapsTo
  <1>3. P!HasIn(pg.alert_rules, t, r) <=> <<t, r>> \in DOMAIN mem.rules
    BY <1>1, <1>2, InsideHas
  <1> QED BY <1>1, <1>3, KeyedHas DEF Paired, Lockstep, Mirrors, Good

\* Rules, none of them going.
LEMMA AlertRulesOnly ==
    ASSUME Paired, NEW t, NEW g, MapsTo(g, Tenants \X RuleIDs, AlertRule), DOMAIN mem.rules \subseteq DOMAIN g,
           \A k \in DOMAIN g : k[1] \in DOMAIN mem.tenants, \A s : s # t => SameInKey(mem.rules, g, s),
           NEW n, NEW db, MemOnly(n, {"rules"}), n.rules = g, PgOnly(db, {"alert_rules"}), db.alert_rules = Inside(g)
    PROVE  Lockstep(n, db) /\ Apart(t, n)
  <1>1. n.states = mem.states /\ MemOnly(n, {"rules", "states"})
    BY DEF MemOnly, M!Memory
  <1>2. db.alert_states = pg.alert_states /\ PgOnly(db, {"alert_rules", "alert_states"})
    BY DEF PgOnly, P!Postgres
  <1>3. db.alert_states = InsideTwice(n.states) /\ RulesGood(n.rules, n.states, DOMAIN mem.tenants)
    BY <1>1, <1>2, RuleFacts DEF RulesGood
  <1> QED BY <1>1, <1>2, <1>3, SameSelf, RulesOnly

\* CreateAlertRule is answered alike.
LEMMA CreateAlertRuleAlike ==
    ASSUME Paired, NEW t \in Tenants, NEW r \in RuleIDs, NEW rule \in AlertRule
    PROVE  Alike(t, M!CreateAlertRule(mem, t, r, rule), P!CreateAlertRule(pg, t, r, rule))
  <1> DEFINE f == mem.rules
             k == <<t, r>>
  <1>1. /\ pg.alert_rules = Inside(f) /\ RulesGood(f, mem.states, DOMAIN mem.tenants)
        /\ DOMAIN mem = M!Memory /\ DOMAIN pg = P!Postgres
        /\ P!Has(pg.tenants, t) <=> t \in DOMAIN mem.tenants
        /\ P!HasIn(pg.alert_rules, t, r) <=> k \in DOMAIN f
    BY RuleFacts
  <1>2. k[1] = t /\ k \in Tenants \X RuleIDs
    OBVIOUS
  <1>3. k \in DOMAIN f => t \in DOMAIN mem.tenants
    BY <1>1, <1>2 DEF RulesGood
  <1>4. CASE t \notin DOMAIN mem.tenants
    <2>1. M!CreateAlertRule(mem, t, r, rule) = Fail(mem, "error")
      BY <1>4, Shared DEF M!CreateAlertRule
    <2>2. P!CreateAlertRule(pg, t, r, rule) = Fail(pg, "error")
      BY <1>1, <1>3, <1>4, Shared DEF P!CreateAlertRule
    <2> QED BY <2>1, <2>2, RefusedAlike DEF Answers
  <1>5. CASE k \in DOMAIN f
    <2>1. M!CreateAlertRule(mem, t, r, rule) = Fail(mem, "ErrConflict")
      BY <1>3, <1>5, Shared DEF M!CreateAlertRule
    <2>2. P!CreateAlertRule(pg, t, r, rule) = Fail(pg, "ErrConflict")
      BY <1>1, <1>5, Shared DEF P!CreateAlertRule
    <2> QED BY <2>1, <2>2, RefusedAlike DEF Answers
  <1>6. CASE t \in DOMAIN mem.tenants /\ k \notin DOMAIN f
    <2> DEFINE g == Put(f, k, rule)
               n == [mem EXCEPT !.rules = g]
               db == [pg EXCEPT !.alert_rules = @ \cup {[id |-> r, tenant |-> t, row |-> rule]}]
    <2>1. M!CreateAlertRule(mem, t, r, rule) = Done(n)
      BY <1>6, Shared DEF M!CreateAlertRule
    <2>2. P!CreateAlertRule(pg, t, r, rule) = Done(db)
      BY <1>1, <1>6, Shared DEF P!CreateAlertRule
    <2>3. Inside(g) = Inside(f) \cup {[id |-> r, tenant |-> t, row |-> rule]}
      BY <1>6, InsideAdd
    <2> HIDE DEF k
    <2>4. MapsTo(g, Tenants \X RuleIDs, AlertRule)
      <3>1. MapsTo(f, Tenants \X RuleIDs, AlertRule)
        BY <1>1 DEF RulesGood
      <3> QED BY <3>1, <1>2, PutKeeps
    <2>5. DOMAIN f \subseteq DOMAIN g /\ \A x \in DOMAIN g : x[1] \in DOMAIN mem.tenants
      <3>1. DOMAIN g = DOMAIN f \cup {k}
        BY DEF Put
      <3> HIDE DEF g
      <3> QED BY <1>1, <1>6, <1>2, <3>1 DEF RulesGood
    <2>6. \A s : s # t => SameInKey(f, g, s)
      BY <1>2, PutApart
    <2> HIDE DEF g
    <2>7. MemOnly(n, {"rules"}) /\ n.rules = g
      BY <1>1 DEF MemOnly, M!Memory
    <2>8. PgOnly(db, {"alert_rules"}) /\ db.alert_rules = Inside(g)
      BY <1>1, <2>3 DEF PgOnly, P!Postgres
    <2> HIDE DEF n, db
    <2>9. Lockstep(n, db) /\ Apart(t, n)
      BY <2>5, <2>6, <2>7, <2>8, <2>4, AlertRulesOnly
    <2> QED BY <2>1, <2>2, <2>9, DoneAlike
  <1> QED BY <1>4, <1>5, <1>6

\* A rule's row written anew, where there is one.
LEMMA SetRuleAlike ==
    ASSUME Paired, NEW t \in Tenants, NEW r \in RuleIDs, NEW column, NEW value,
           \A row \in AlertRule : [row EXCEPT ![column] = value] \in AlertRule,
           NEW k, k = <<t, r>>, NEW n,
           n = IF k \in DOMAIN mem.rules
               THEN [mem EXCEPT !.rules = SetAt(@, k, [@[k] EXCEPT ![column] = value])] ELSE mem
    PROVE  Lockstep(n, P!SetRule(pg, t, r, column, value)) /\ Apart(t, n)
  <1> DEFINE f == mem.rules
             u == [x \in pg.alert_rules |-> IF x.tenant = t /\ x.id = r
                                            THEN [x EXCEPT !.row = [x.row EXCEPT ![column] = value]] ELSE x]
             db == [pg EXCEPT !.alert_rules = Rewrites(u, @)]
  <1>1. /\ pg.alert_rules = Inside(f) /\ RulesGood(f, mem.states, DOMAIN mem.tenants)
        /\ DOMAIN mem = M!Memory /\ DOMAIN pg = P!Postgres
    BY RuleFacts
  <1>2. k[1] = t /\ k[2] = r /\ k \in Tenants \X RuleIDs
    OBVIOUS
  <1>3. MapsTo(f, Tenants \X RuleIDs, AlertRule) /\ \A x \in DOMAIN f : x[1] \in DOMAIN mem.tenants
    BY <1>1 DEF RulesGood
  <1>4. P!SetRule(pg, t, r, column, value) = db
    BY <1>1 DEF P!SetRule, P!Update, P!Postgres, Rewrites
  <1>5. \A x \in DOMAIN f : x[1] = t /\ x[2] = r => x = k
    BY <1>3 DEF MapsTo
  <1>6. CASE k \in DOMAIN f
    <2> DEFINE v == [f[k] EXCEPT ![column] = value]
               g == SetAt(f, k, v)
    <2>1. v \in AlertRule
      BY <1>3, <1>6 DEF MapsTo
    <2>2. /\ \A x \in Inside(f) : x.id = k[2] /\ x.tenant = k[1] /\ x.row = f[k] => u[x] = NewRow(x, v)
          /\ \A x \in Inside(f) : x.id # k[2] \/ x.tenant # k[1] => u[x] = x
      BY <1>1, <1>2 DEF NewRow
    <2>3. n = [mem EXCEPT !.rules = g]
      BY <1>6, <1>1 DEF M!Memory
    <2> HIDE DEF u, v
    <2>4. Rewrites(u, Inside(f)) = Inside(g)
      BY <1>2, <1>5, <1>6, <2>2, InsideUpdated
    <2>5. /\ DOMAIN g = DOMAIN f /\ MapsTo(g, Tenants \X RuleIDs, AlertRule)
          /\ \A s : s # t => SameInKey(f, g, s)
      BY <1>2, <1>3, <1>6, <2>1, AtSet
    <2> HIDE DEF g
    <2>6. MemOnly(n, {"rules"}) /\ n.rules = g
      BY <1>1, <2>3 DEF MemOnly, M!Memory
    <2>7. PgOnly(db, {"alert_rules"}) /\ db.alert_rules = Inside(g)
      BY <1>1, <2>4 DEF PgOnly, P!Postgres
    <2> HIDE DEF db
    <2> QED BY <1>3, <1>4, <2>5, <2>6, <2>7, AlertRulesOnly
  <1>7. CASE k \notin DOMAIN f
    <2>1. n = mem
      BY <1>7
    <2>2. \A x \in DOMAIN f : u[InsideRow(f, x)] = InsideRow(f, x)
      <3> SUFFICES ASSUME NEW x \in DOMAIN f PROVE u[InsideRow(f, x)] = InsideRow(f, x)
        OBVIOUS
      <3>1. x[1] # t \/ x[2] # r
        BY <1>5, <1>7
      <3>2. InsideRow(f, x) \in pg.alert_rules /\ InsideRow(f, x).id = x[2] /\ InsideRow(f, x).tenant = x[1]
        BY <1>1, Tables DEF InsideRow
      <3> QED BY <3>1, <3>2
    <2> HIDE DEF u
    <2>3. Rewrites(u, Inside(f)) = Inside(f)
      BY ONLY <2>2, Mapped
    <2>4. MemOnly(mem, {"rules"}) /\ PgOnly(db, {"alert_rules"}) /\ db.alert_rules = Inside(f)
      BY <1>1, <2>3 DEF MemOnly, PgOnly, P!Postgres
    <2> HIDE DEF db
    <2>5. \A s : SameInKey(f, f, s)
      BY SameSelf
    <2> QED BY <1>3, <1>4, <2>1, <2>4, <2>5, AlertRulesOnly
  <1> QED BY <1>6, <1>7

\* UpdateAlertRule is answered alike.
LEMMA UpdateAlertRuleAlike ==
    ASSUME Paired, NEW t \in Tenants, NEW r \in RuleIDs, NEW threshold \in {1, 2}
    PROVE  Alike(t, M!UpdateAlertRule(mem, t, r, threshold), P!UpdateAlertRule(pg, t, r, threshold))
  <1> DEFINE k == <<t, r>>
             n == [mem EXCEPT !.rules = SetAt(@, k, [@[k] EXCEPT !["threshold"] = threshold])]
             db == P!SetRule(pg, t, r, "threshold", threshold)
  <1>1. DOMAIN mem = M!Memory /\ (P!HasIn(pg.alert_rules, t, r) <=> k \in DOMAIN mem.rules)
    BY RuleFacts
  <1>2. CASE k \notin DOMAIN mem.rules
    <2>1. M!UpdateAlertRule(mem, t, r, threshold) = Fail(mem, "ErrNotFound")
      BY <1>2, Shared DEF M!UpdateAlertRule
    <2>2. P!UpdateAlertRule(pg, t, r, threshold) = Fail(pg, "ErrNotFound")
      BY <1>1, <1>2, Shared DEF P!UpdateAlertRule, P!AffectOne
    <2> QED BY <2>1, <2>2, RefusedAlike DEF Answers
  <1>3. CASE k \in DOMAIN mem.rules
    <2>1. M!UpdateAlertRule(mem, t, r, threshold) = Done(n)
      BY <1>1, <1>3, Shared DEF M!UpdateAlertRule, SetAt, M!Memory
    <2>2. P!UpdateAlertRule(pg, t, r, threshold) = Done(db)
      BY <1>1, <1>3, Shared DEF P!UpdateAlertRule, P!AffectOne
    <2>3. \A row \in AlertRule : [row EXCEPT !["threshold"] = threshold] \in AlertRule
      BY DEF AlertRule
    <2>4. k = <<t, r>>
      OBVIOUS
    <2> HIDE DEF k
    <2>5. n = IF k \in DOMAIN mem.rules
              THEN [mem EXCEPT !.rules = SetAt(@, k, [@[k] EXCEPT !["threshold"] = threshold])] ELSE mem
      BY <1>3
    <2> HIDE DEF n
    <2>6. Lockstep(n, db) /\ Apart(t, n)
      BY <2>3, <2>4, <2>5, SetRuleAlike
    <2> HIDE DEF db
    <2> QED BY <2>1, <2>2, <2>6, DoneAlike
  <1> QED BY <1>2, <1>3

\* RecordAlertDelivery is answered alike.
LEMMA RecordAlertDeliveryAlike ==
    ASSUME Paired, NEW t \in Tenants, NEW r \in RuleIDs, NEW at \in Time
    PROVE  Alike(t, M!RecordAlertDelivery(mem, t, r, at), P!RecordAlertDelivery(pg, t, r, at))
  <1> DEFINE k == <<t, r>>
             n == IF k \in DOMAIN mem.rules
                  THEN [mem EXCEPT !.rules = SetAt(@, k, [@[k] EXCEPT !["deliveredAt"] = at])] ELSE mem
             db == P!SetRule(pg, t, r, "deliveredAt", at)
  <1>1. DOMAIN mem = M!Memory
    BY RuleFacts
  <1>2. M!RecordAlertDelivery(mem, t, r, at) = Done(n)
    BY <1>1, Shared DEF M!RecordAlertDelivery, SetAt, M!Memory
  <1>3. P!RecordAlertDelivery(pg, t, r, at) = Done(db)
    BY Shared DEF P!RecordAlertDelivery
  <1>4. \A row \in AlertRule : [row EXCEPT !["deliveredAt"] = at] \in AlertRule
    BY DEF AlertRule
  <1>5. k = <<t, r>>
    OBVIOUS
  <1> HIDE DEF k
  <1>6. n = IF k \in DOMAIN mem.rules
            THEN [mem EXCEPT !.rules = SetAt(@, k, [@[k] EXCEPT !["deliveredAt"] = at])] ELSE mem
    OBVIOUS
  <1> HIDE DEF n
  <1>7. Lockstep(n, db) /\ Apart(t, n)
    BY <1>4, <1>5, <1>6, SetRuleAlike
  <1> HIDE DEF db
  <1> QED BY <1>2, <1>3, <1>7, DoneAlike

\* A row put in a table whose ids have two parts, whether or not there was one.
LEMMA TwicePut ==
    ASSUME NEW f, NEW A, NEW B, NEW C, DOMAIN f \subseteq A \X B \X C, NEW t, NEW x, NEW y, NEW v
    PROVE  InsideTwice(Put(f, <<t, x, y>>, v)) =
               {r \in InsideTwice(f) : ~(r.tenant = t /\ r.id = <<x, y>>)}
               \cup {[id |-> <<x, y>>, tenant |-> t, row |-> v]}
  <1> DEFINE k == <<t, x, y>>
             g == Put(f, k, v)
             new == [id |-> <<x, y>>, tenant |-> t, row |-> v]
             others == {r \in InsideTwice(f) : ~(r.tenant = t /\ r.id = <<x, y>>)}
  <1>1. DOMAIN g = DOMAIN f \cup {k} /\ g[k] = v /\ \A z \in DOMAIN f : z # k => g[z] = f[z]
    BY DEF Put
  <1>2. TwiceRow(g, k) = new
    BY <1>1 DEF TwiceRow
  <1>3. \A z \in DOMAIN f : z # k => TwiceRow(g, z) = TwiceRow(f, z)
    BY <1>1 DEF TwiceRow
  <1>4. ASSUME NEW z \in DOMAIN f PROVE TwiceRow(f, z) \in others <=> z # k
    <2>1. TwiceRow(f, z) \in InsideTwice(f) /\ TwiceRow(f, z).tenant = z[1] /\ TwiceRow(f, z).id = <<z[2], z[3]>>
      BY Tables DEF TwiceRow
    <2>2. z = <<z[1], z[2], z[3]>>
      OBVIOUS
    <2>3. <<z[2], z[3]>> = <<x, y>> <=> z[2] = x /\ z[3] = y
      OBVIOUS
    <2>4. z = k <=> z[1] = t /\ z[2] = x /\ z[3] = y
      BY <2>2
    <2> QED BY <2>1, <2>3, <2>4
  <1>5. others \subseteq InsideTwice(f)
    OBVIOUS
  <1> HIDE DEF g, new, k, others
  <1>6. ASSUME NEW r PROVE r \in InsideTwice(g) <=> r \in others \cup {new}
    BY <1>1, <1>2, <1>3, <1>4, <1>5, Tables
  <1> QED BY <1>6 DEF g, new, k, others

\* One row of a table with an id of two parts, written anew.
LEMMA TwiceUpdated ==
    ASSUME NEW f, NEW k \in DOMAIN f, NEW v, NEW u,
           \A x \in DOMAIN f : x[1] = k[1] /\ x[2] = k[2] /\ x[3] = k[3] => x = k,
           \A r \in InsideTwice(f) : r.id = <<k[2], k[3]>> /\ r.tenant = k[1] /\ r.row = f[k] => u[r] = NewRow(r, v),
           \A r \in InsideTwice(f) : r.id # <<k[2], k[3]>> \/ r.tenant # k[1] => u[r] = r
    PROVE  Rewrites(u, InsideTwice(f)) = InsideTwice(SetAt(f, k, v))
  <1> DEFINE g == SetAt(f, k, v)
  <1>1. DOMAIN g = DOMAIN f /\ g[k] = v /\ \A x \in DOMAIN f : x # k => g[x] = f[x]
    BY DEF SetAt
  <1> HIDE DEF g
  <1>2. \A x \in DOMAIN f : TwiceRow(f, x) \in InsideTwice(f)
    BY Tables
  <1>3. \A x \in DOMAIN f : TwiceRow(f, x).id = <<x[2], x[3]>> /\ TwiceRow(f, x).tenant = x[1] /\ TwiceRow(f, x).row = f[x]
    BY DEF TwiceRow
  <1>4. u[TwiceRow(f, k)] = TwiceRow(g, k)
    <2>1. NewRow(TwiceRow(f, k), v) = TwiceRow(g, k)
      BY <1>1 DEF TwiceRow, NewRow
    <2>2. PICK r \in InsideTwice(f) : r = TwiceRow(f, k) /\ r.id = <<k[2], k[3]>> /\ r.tenant = k[1] /\ r.row = f[k]
      BY <1>2, <1>3
    <2>3. u[r] = NewRow(r, v)
      BY <2>2
    <2> QED BY <2>1, <2>2, <2>3
  <1>5. ASSUME NEW x \in DOMAIN f, x # k PROVE u[TwiceRow(f, x)] = TwiceRow(g, x)
    <2>1. x[1] # k[1] \/ x[2] # k[2] \/ x[3] # k[3]
      BY <1>5
    <2>2. <<x[2], x[3]>> = <<k[2], k[3]>> => x[2] = k[2] /\ x[3] = k[3]
      OBVIOUS
    <2>3. u[TwiceRow(f, x)] = TwiceRow(f, x)
      BY <1>2, <1>3, <2>1, <2>2
    <2> QED BY <1>1, <1>5, <2>3, SameRow
  <1>6. \A x \in DOMAIN f : u[TwiceRow(f, x)] = TwiceRow(g, x)
    BY <1>4, <1>5
  <1>7. DOMAIN g = DOMAIN f
    BY <1>1
  <1>8. Rewrites(u, InsideTwice(f)) = InsideTwice(g)
    BY ONLY <1>6, <1>7, Mapped
  <1> QED BY <1>8 DEF g

-----------------------------------------------------------------------------
(* The evaluator's memory. *)

\* What the two stores know of the evaluator's memory.
LEMMA StateFacts ==
    ASSUME Paired, NEW t \in Tenants, NEW r \in RuleIDs, NEW h \in HostIDs, NEW k, k = <<t, r, h>>
    PROVE  /\ MapsTo(mem.states, Tenants \X RuleIDs \X HostIDs, AlertState)
           /\ k[1] = t /\ k[2] = r /\ k[3] = h /\ k \in Tenants \X RuleIDs \X HostIDs
           /\ M!StateKey(t, <<r, h>>) = k
           /\ P!HasIn(pg.alert_states, t, <<r, h>>) <=> k \in DOMAIN mem.states
           /\ k \in DOMAIN mem.states => P!AtIn(pg.alert_states, t, <<r, h>>).row = mem.states[k]
           /\ M!StateOf(mem, k) \in AlertState
           /\ M!StateOf(mem, k) = IF k \in DOMAIN mem.states THEN mem.states[k] ELSE QuietState
           /\ \A x \in DOMAIN mem.states : x[1] = t /\ x[2] = r /\ x[3] = h => x = k
  <1>1. pg.alert_states = InsideTwice(mem.states) /\ MapsTo(mem.states, Tenants \X RuleIDs \X HostIDs, AlertState)
    BY RuleFacts DEF RulesGood
  <1>2. DOMAIN mem.states \subseteq Tenants \X RuleIDs \X HostIDs
    BY <1>1 DEF MapsTo
  <1>3. k[1] = t /\ k[2] = r /\ k[3] = h /\ k \in Tenants \X RuleIDs \X HostIDs
    OBVIOUS
  <1>4. M!StateKey(t, <<r, h>>) = k
    BY DEF M!StateKey
  <1>5. P!HasIn(pg.alert_states, t, <<r, h>>) <=> k \in DOMAIN mem.states
    BY <1>1, <1>2, TwiceHas
  <1>6. k \in DOMAIN mem.states => P!AtIn(pg.alert_states, t, <<r, h>>).row = mem.states[k]
    <2>1. k \in DOMAIN mem.states => P!AtIn(pg.alert_states, t, <<r, h>>) = TwiceRow(mem.states, k)
      BY <1>1, <1>2, TwiceHas
    <2> QED BY <2>1 DEF TwiceRow
  <1>7. M!StateOf(mem, k) = IF k \in DOMAIN mem.states THEN mem.states[k] ELSE QuietState
    BY SharedRows DEF M!StateOf
  <1>8. M!StateOf(mem, k) \in AlertState
    <2>1. QuietState \in AlertState
      BY BoundsAssumption DEF QuietState, AlertState, Time
    <2> QED BY <1>1, <1>7, <2>1 DEF MapsTo
  <1>9. ASSUME NEW x \in DOMAIN mem.states, x[1] = t, x[2] = r, x[3] = h PROVE x = k
    BY <1>2, <1>9
  <1> QED BY <1>1, <1>3, <1>4, <1>5, <1>6, <1>7, <1>8, <1>9

\* A call that changes the evaluator's memory alone.
LEMMA AlertStatesOnly ==
    ASSUME Paired, NEW t, NEW g, MapsTo(g, Tenants \X RuleIDs \X HostIDs, AlertState),
           \A k \in DOMAIN g : <<k[1], k[2]>> \in DOMAIN mem.rules, \A s : s # t => SameInKey(mem.states, g, s),
           NEW n, NEW db, MemOnly(n, {"states"}), n.states = g, PgOnly(db, {"alert_states"}), db.alert_states = InsideTwice(g)
    PROVE  Lockstep(n, db) /\ Apart(t, n)
  <1>1. n.rules = mem.rules /\ MemOnly(n, {"rules", "states"})
    BY DEF MemOnly, M!Memory
  <1>2. db.alert_rules = pg.alert_rules /\ PgOnly(db, {"alert_rules", "alert_states"})
    BY DEF PgOnly, P!Postgres
  <1>3. db.alert_rules = Inside(n.rules) /\ RulesGood(n.rules, n.states, DOMAIN mem.tenants)
    BY <1>1, <1>2, RuleFacts DEF RulesGood
  <1> QED BY <1>1, <1>2, <1>3, SameSelf, RulesOnly

\* Writing a state down whole.
LEMMA PutStateAlike ==
    ASSUME Paired, NEW t \in Tenants, NEW r \in RuleIDs, NEW h \in HostIDs, NEW k, k = <<t, r, h>>, NEW state \in AlertState,
           <<t, r>> \in DOMAIN mem.rules, NEW n, n = [mem EXCEPT !.states = Put(@, k, state)]
    PROVE  Lockstep(n, P!PutState(pg, t, <<r, h>>, state)) /\ Apart(t, n)
  <1> DEFINE f == mem.states
             g == Put(f, k, state)
             table == {x \in pg.alert_states : ~(x.tenant = t /\ x.id = <<r, h>>)}
                      \cup {[id |-> <<r, h>>, tenant |-> t, row |-> state]}
             db == [pg EXCEPT !.alert_states = table]
  <1>1. /\ pg.alert_states = InsideTwice(f) /\ RulesGood(mem.rules, f, DOMAIN mem.tenants)
        /\ DOMAIN mem = M!Memory /\ DOMAIN pg = P!Postgres
    BY RuleFacts
  <1>2. MapsTo(f, Tenants \X RuleIDs \X HostIDs, AlertState) /\ k[1] = t /\ k[2] = r /\ k \in Tenants \X RuleIDs \X HostIDs
    BY StateFacts
  <1>3. P!PutState(pg, t, <<r, h>>, state) = db
    BY <1>1 DEF P!PutState, P!Postgres
  <1>4. table = InsideTwice(g)
    <2>1. DOMAIN f \subseteq Tenants \X RuleIDs \X HostIDs
      BY <1>2 DEF MapsTo
    <2> QED BY <1>1, <2>1, TwicePut
  <1>5. MapsTo(g, Tenants \X RuleIDs \X HostIDs, AlertState)
    BY <1>2, PutKeeps
  <1>6. \A x \in DOMAIN g : <<x[1], x[2]>> \in DOMAIN mem.rules
    <2>1. DOMAIN g = DOMAIN f \cup {k} /\ <<k[1], k[2]>> = <<t, r>>
      BY <1>2 DEF Put
    <2> HIDE DEF g
    <2> QED BY <1>1, <2>1 DEF RulesGood
  <1>7. \A s : s # t => SameInKey(f, g, s)
    BY <1>2, PutApart
  <1> HIDE DEF g, table
  <1>8. MemOnly(n, {"states"}) /\ n.states = g
    BY <1>1 DEF MemOnly, M!Memory, g
  <1>9. PgOnly(db, {"alert_states"}) /\ db.alert_states = InsideTwice(g)
    BY <1>1, <1>4 DEF PgOnly, P!Postgres
  <1> HIDE DEF db
  <1> QED BY <1>3, <1>5, <1>6, <1>7, <1>8, <1>9, AlertStatesOnly

\* UpsertAlertState is answered alike.
LEMMA UpsertAlertStateAlike ==
    ASSUME Paired, NEW t \in Tenants, NEW r \in RuleIDs, NEW h \in HostIDs, NEW state \in AlertState
    PROVE  Alike(t, M!UpsertAlertState(mem, t, <<r, h>>, state), P!UpsertAlertState(pg, t, <<r, h>>, state))
  <1> DEFINE k == <<t, r, h>>
             key == <<r, h>>
             n == [mem EXCEPT !.states = Put(@, k, state)]
             db == P!PutState(pg, t, key, state)
  <1>1. P!HasIn(pg.alert_rules, t, r) <=> <<t, r>> \in DOMAIN mem.rules
    BY RuleFacts
  <1>2. M!StateKey(t, key) = k /\ key[1] = r
    BY DEF M!StateKey
  <1> HIDE DEF key
  <1>3. CASE <<t, r>> \notin DOMAIN mem.rules
    <2>1. M!UpsertAlertState(mem, t, key, state) = Fail(mem, "error") /\ P!UpsertAlertState(pg, t, key, state) = Fail(pg, "error")
      BY <1>1, <1>2, <1>3, Shared DEF M!UpsertAlertState, P!UpsertAlertState
    <2> QED BY <2>1, RefusedAlike DEF Answers, key
  <1>4. CASE <<t, r>> \in DOMAIN mem.rules
    <2>1. M!UpsertAlertState(mem, t, key, state) = Done(n) /\ P!UpsertAlertState(pg, t, key, state) = Done(db)
      BY <1>1, <1>2, <1>4, Shared DEF M!UpsertAlertState, P!UpsertAlertState
    <2> HIDE DEF n
    <2>2. Lockstep(n, db) /\ Apart(t, n)
      BY <1>4, PutStateAlike DEF n, key
    <2> HIDE DEF db
    <2> QED BY <2>1, <2>2, DoneAlike DEF key
  <1> QED BY <1>3, <1>4

\* ClaimAlertNotification is answered alike.
LEMMA ClaimAlertNotificationAlike ==
    ASSUME Paired, NEW t \in Tenants, NEW r \in RuleIDs, NEW h \in HostIDs, NEW at \in Time \ {0}, NEW cooldown \in Nat
    PROVE  Alike(t, M!ClaimAlertNotification(mem, t, <<r, h>>, at, cooldown),
                    P!ClaimAlertNotification(pg, t, <<r, h>>, at, cooldown))
  <1> DEFINE k == <<t, r, h>>
             key == <<r, h>>
             held == M!StateOf(mem, k)
             n == [mem EXCEPT !.states = Put(@, k, Notified(held, at))]
             db == P!PutState(pg, t, key, Notified(held, at))
  <1>1. P!HasIn(pg.alert_rules, t, r) <=> <<t, r>> \in DOMAIN mem.rules
    BY RuleFacts
  <1>2. /\ M!StateKey(t, key) = k /\ held \in AlertState
        /\ held = IF P!HasIn(pg.alert_states, t, key) THEN P!AtIn(pg.alert_states, t, key).row ELSE QuietState
    BY StateFacts
  <1>3. key[1] = r
    OBVIOUS
  <1>4. Notified(held, at) \in AlertState
    BY <1>2 DEF Notified, AlertState
  <1>5. held.lastNotified \in Int /\ at \in Int
    BY <1>2, BoundsAssumption DEF AlertState, Time
  <1> HIDE DEF held, key
  <1>6. CASE <<t, r>> \notin DOMAIN mem.rules
    <2>1. /\ M!ClaimAlertNotification(mem, t, key, at, cooldown) = Fail(mem, "error")
          /\ P!ClaimAlertNotification(pg, t, key, at, cooldown) = Fail(pg, "error")
      BY <1>1, <1>3, <1>6, Shared DEF M!ClaimAlertNotification, P!ClaimAlertNotification
    <2> QED BY <2>1, RefusedAlike DEF Answers, key
  <1>7. CASE <<t, r>> \in DOMAIN mem.rules /\ held.lastNotified # 0 /\ held.lastNotified > at - cooldown
    <2>1. M!ClaimAlertNotification(mem, t, key, at, cooldown) = Ok(mem, FALSE)
      BY <1>2, <1>3, <1>7, Shared DEF M!ClaimAlertNotification, held
    <2>2. ~(held.lastNotified = 0 \/ held.lastNotified <= at - cooldown)
      BY <1>5, <1>7
    <2>3. P!ClaimAlertNotification(pg, t, key, at, cooldown) = Ok(pg, FALSE)
      BY <1>1, <1>2, <1>3, <1>7, <2>2, Shared, SharedRows DEF P!ClaimAlertNotification
    <2> QED BY <2>1, <2>3, NothingDone DEF key
  <1>8. CASE <<t, r>> \in DOMAIN mem.rules /\ ~(held.lastNotified # 0 /\ held.lastNotified > at - cooldown)
    <2>1. M!ClaimAlertNotification(mem, t, key, at, cooldown) = Ok(n, TRUE)
      BY <1>2, <1>3, <1>8, Shared, SharedRows DEF M!ClaimAlertNotification, held
    <2>2. held.lastNotified = 0 \/ held.lastNotified <= at - cooldown
      BY <1>5, <1>8
    <2>3. P!ClaimAlertNotification(pg, t, key, at, cooldown) = Ok(db, TRUE)
      BY <1>1, <1>2, <1>3, <1>8, <2>2, Shared, SharedRows DEF P!ClaimAlertNotification
    <2> HIDE DEF n
    <2>4. Lockstep(n, db) /\ Apart(t, n)
      BY <1>4, <1>8, PutStateAlike DEF n, key
    <2> HIDE DEF db
    <2> QED BY <2>1, <2>3, <2>4, DoneAlike DEF key
  <1> QED BY <1>6, <1>7, <1>8

\* ReleaseAlertFiring is answered alike.
LEMMA ReleaseAlertFiringAlike ==
    ASSUME Paired, NEW t \in Tenants, NEW r \in RuleIDs, NEW h \in HostIDs
    PROVE  Alike(t, M!ReleaseAlertFiring(mem, t, <<r, h>>), P!ReleaseAlertFiring(pg, t, <<r, h>>))
  <1> SUFFICES ASSUME NEW k, k = <<t, r, h>>, NEW key, key = <<r, h>>
               PROVE  Alike(t, M!ReleaseAlertFiring(mem, t, key), P!ReleaseAlertFiring(pg, t, key))
    OBVIOUS
  <1> DEFINE f == mem.states
             firing == {x \in P!InTenant(pg.alert_states, t) : x.id = key /\ x.row.firing}
             u == [x \in pg.alert_states |-> IF x \in firing THEN [x EXCEPT !.row = Quieted(x.row)] ELSE x]
             db == [pg EXCEPT !.alert_states = Rewrites(u, @)]
  <1>1. /\ pg.alert_states = InsideTwice(f) /\ RulesGood(mem.rules, f, DOMAIN mem.tenants)
        /\ DOMAIN mem = M!Memory /\ DOMAIN pg = P!Postgres
    BY RuleFacts
  <1>2. /\ MapsTo(f, Tenants \X RuleIDs \X HostIDs, AlertState)
        /\ k[1] = t /\ k[2] = r /\ k[3] = h
        /\ M!StateKey(t, key) = k
        /\ M!StateOf(mem, k) = IF k \in DOMAIN f THEN f[k] ELSE QuietState
        /\ \A x \in DOMAIN f : x[1] = t /\ x[2] = r /\ x[3] = h => x = k
    BY StateFacts
  <1>3. \A x \in DOMAIN f : /\ TwiceRow(f, x) \in pg.alert_states /\ TwiceRow(f, x).id = <<x[2], x[3]>>
                            /\ TwiceRow(f, x).tenant = x[1] /\ TwiceRow(f, x).row = f[x]
    BY <1>1, Tables DEF TwiceRow
  <1>4. ASSUME NEW x PROVE x \in firing <=> k \in DOMAIN f /\ f[k].firing /\ x = TwiceRow(f, k)
    <2>1. ASSUME x \in firing PROVE k \in DOMAIN f /\ f[k].firing /\ x = TwiceRow(f, k)
      <3>1. PICK z \in DOMAIN f : x = TwiceRow(f, z)
        BY <1>1, <2>1, Tables DEF P!InTenant
      <3>2. z[1] = t /\ <<z[2], z[3]>> = key /\ f[z].firing
        BY <1>3, <2>1, <3>1 DEF P!InTenant
      <3>3. z[2] = r /\ z[3] = h
        BY <3>2
      <3>4. z = k
        BY <1>2, <3>1, <3>2, <3>3
      <3> QED BY <3>1, <3>2, <3>4
    <2>2. ASSUME k \in DOMAIN f, f[k].firing, x = TwiceRow(f, k) PROVE x \in firing
      <3>1. <<k[2], k[3]>> = key
        OBVIOUS
      <3> QED BY <1>2, <1>3, <2>2, <3>1 DEF P!InTenant
    <2> QED BY <2>1, <2>2
  <1>5. P!ReleaseAlertFiring(pg, t, key) = Ok(db, firing # {})
    BY <1>1, Shared, SharedRows DEF P!ReleaseAlertFiring, P!Update, P!Postgres, Rewrites
  <1>6. CASE k \in DOMAIN f /\ f[k].firing
    <2> DEFINE v == Quieted(f[k])
               g == SetAt(f, k, v)
               n == [mem EXCEPT !.states = g]
    <2>1. M!ReleaseAlertFiring(mem, t, key) = Ok(n, TRUE)
      BY <1>1, <1>2, <1>6, Shared, SharedRows DEF M!ReleaseAlertFiring, SetAt, M!Memory
    <2>2. firing # {}
      BY <1>4, <1>6
    <2>3. v \in AlertState
      <3>1. f[k] \in AlertState
        BY <1>2, <1>6 DEF MapsTo
      <3>2. ASSUME NEW y \in AlertState PROVE Quieted(y) \in AlertState
        <4>1. 0 \in Time
          BY BoundsAssumption DEF Time
        <4> QED BY <4>1 DEF Quieted, AlertState
      <3> QED BY <3>1, <3>2
    <2>4. ASSUME NEW x \in InsideTwice(f)
          PROVE  /\ x.id = <<k[2], k[3]>> /\ x.tenant = k[1] /\ x.row = f[k] => u[x] = NewRow(x, v)
                 /\ x.id # <<k[2], k[3]>> \/ x.tenant # k[1] => u[x] = x
      <3>1. PICK z \in DOMAIN f : x = TwiceRow(f, z)
        BY Tables
      <3>2. x.id = <<z[2], z[3]>> /\ x.tenant = z[1]
        BY <1>3, <3>1
      <3>3. <<k[2], k[3]>> = key /\ TwiceRow(f, k).id = key /\ TwiceRow(f, k).tenant = t
        BY <1>2, <1>3, <1>6
      <3>4. x \in firing <=> x = TwiceRow(f, k)
        BY <1>4, <1>6
      <3>5. ASSUME x.id = key, x.tenant = t PROVE x = TwiceRow(f, k)
        <4>1. z[2] = r /\ z[3] = h /\ z[1] = t
          BY <3>2, <3>5
        <4>2. z = k
          BY <1>2, <4>1
        <4> QED BY <3>1, <4>2
      <3>6. u[x] = IF x \in firing THEN [x EXCEPT !.row = Quieted(x.row)] ELSE x
        BY <1>1
      <3> HIDE DEF firing, u
      <3> QED BY <1>2, <3>3, <3>4, <3>5, <3>6 DEF NewRow
    <2> HIDE DEF u, v, firing
    <2>5. Rewrites(u, InsideTwice(f)) = InsideTwice(g)
      <3>1. k \in DOMAIN f /\ \A x \in DOMAIN f : x[1] = k[1] /\ x[2] = k[2] /\ x[3] = k[3] => x = k
        BY <1>2, <1>6
      <3>2. \A x \in InsideTwice(f) : x.id = <<k[2], k[3]>> /\ x.tenant = k[1] /\ x.row = f[k] => u[x] = NewRow(x, v)
        BY <2>4
      <3>3. \A x \in InsideTwice(f) : x.id # <<k[2], k[3]>> \/ x.tenant # k[1] => u[x] = x
        BY <2>4
      <3> QED BY <3>1, <3>2, <3>3, TwiceUpdated
    <2>6. /\ DOMAIN g = DOMAIN f /\ MapsTo(g, Tenants \X RuleIDs \X HostIDs, AlertState)
          /\ \A s : s # t => SameInKey(f, g, s)
      BY <1>2, <1>6, <2>3, AtSet, SMTT(30)
    <2> HIDE DEF g
    <2>7. MemOnly(n, {"states"}) /\ n.states = g
      BY <1>1 DEF MemOnly, M!Memory
    <2>8. PgOnly(db, {"alert_states"}) /\ db.alert_states = InsideTwice(g)
      BY <1>1, <2>5 DEF PgOnly, P!Postgres
    <2> HIDE DEF n, db
    <2>9. \A x \in DOMAIN g : <<x[1], x[2]>> \in DOMAIN mem.rules
      BY <1>1, <2>6 DEF RulesGood
    <2>10. Lockstep(n, db) /\ Apart(t, n)
      BY <2>6, <2>7, <2>8, <2>9, AlertStatesOnly
    <2>11. (firing # {}) = TRUE
      BY <2>2
    <2> QED BY <1>5, <2>1, <2>11, <2>10, DoneAlike
  <1>7. CASE ~(k \in DOMAIN f /\ f[k].firing)
    <2>1. M!ReleaseAlertFiring(mem, t, key) = Ok(mem, FALSE)
      <3>1. ~M!StateOf(mem, k).firing
        BY <1>2, <1>7 DEF QuietState
      <3> QED BY <1>2, <3>1, Shared DEF M!ReleaseAlertFiring
    <2>2. firing = {}
      BY <1>4, <1>7
    <2>3. Rewrites(u, InsideTwice(f)) = InsideTwice(f)
      BY <1>1, <2>2 DEF Rewrites
    <2> HIDE DEF u, firing
    <2>4. MemOnly(mem, {"states"}) /\ PgOnly(db, {"alert_states"}) /\ db.alert_states = InsideTwice(f)
      BY <1>1, <2>3 DEF MemOnly, PgOnly, P!Postgres
    <2> HIDE DEF db
    <2>5. Lockstep(mem, db) /\ Apart(t, mem)
      BY <1>1, <2>4, SameSelf, AlertStatesOnly DEF RulesGood
    <2>6. (firing # {}) = FALSE
      BY <2>2
    <2> QED BY <1>5, <2>1, <2>6, <2>5, DoneAlike
  <1> QED BY <1>6, <1>7

-----------------------------------------------------------------------------
(* Wallboard shares. *)

\* What the two stores know of wallboard shares.
LEMMA ShareFacts ==
    ASSUME Paired, NEW t, NEW id
    PROVE  /\ pg.wallboard_shares = Owned(mem.shares) /\ SharesGood(mem.shares, DOMAIN mem.tenants)
           /\ DOMAIN mem = M!Memory /\ DOMAIN pg = P!Postgres
           /\ P!Has(pg.tenants, t) <=> t \in DOMAIN mem.tenants
           /\ P!HasIn(pg.wallboard_shares, t, id) <=> id \in M!Beside(mem.shares, t)
           /\ \A r : r \in P!InTenant(pg.wallboard_shares, t) <=> \E x \in M!Beside(mem.shares, t) : r = OwnedRow(mem.shares, x)
  <1>1. pg.wallboard_shares = Owned(mem.shares) /\ pg.tenants = Keyed(mem.tenants)
    BY DEF Paired, Lockstep, Mirrors
  <1>2. P!HasIn(pg.wallboard_shares, t, id) <=> id \in M!Beside(mem.shares, t)
    BY <1>1, OwnedHas DEF M!Beside
  <1>3. \A r : r \in P!InTenant(pg.wallboard_shares, t) <=> \E x \in M!Beside(mem.shares, t) : r = OwnedRow(mem.shares, x)
    BY <1>1, OwnedIn
  <1> QED BY <1>1, <1>2, <1>3, KeyedHas DEF Paired, Lockstep, Mirrors, Good

\* How many of a fleet's shares are live, both stores agree.
LEMMA LiveShares ==
    ASSUME Paired, now \in Time, NEW t
    PROVE  P!Cardinality({r \in P!InTenant(pg.wallboard_shares, t) : r.row.expiresAt > now})
           = M!Cardinality({x \in M!Beside(mem.shares, t) : M!ShareLive(mem.shares[x].row, now)})
  <1> DEFINE f == mem.shares
             S == {x \in M!Beside(f, t) : M!ShareLive(f[x].row, now)}
             T == {r \in P!InTenant(pg.wallboard_shares, t) : r.row.expiresAt > now}
  <1>1. SharesGood(f, DOMAIN mem.tenants)
    BY ShareFacts
  <1>2. S \subseteq DOMAIN f /\ IsFiniteSet(S)
    <2>1. S \in SUBSET DOMAIN f /\ IsFiniteSet(DOMAIN f)
      BY <1>1 DEF SharesGood, M!Beside
    <2> QED BY <2>1, FS_Subset
  <1>3. ASSUME NEW r PROVE r \in T <=> \E x \in S : r = OwnedRow(f, x)
    <2>1. ASSUME NEW x \in M!Beside(f, t)
          PROVE  OwnedRow(f, x).row.expiresAt > now <=> M!ShareLive(f[x].row, now)
      <3>1. OwnedRow(f, x).row = f[x].row
        BY DEF OwnedRow
      <3>2. f[x].row \in WallboardShare
        BY <1>1 DEF SharesGood, MapsTo, M!Beside, Ours, Belonging
      <3> QED BY <3>1, <3>2, BoundsAssumption DEF WallboardShare, M!ShareLive, Time
    <2>2. r \in P!InTenant(pg.wallboard_shares, t) <=> \E x \in M!Beside(f, t) : r = OwnedRow(f, x)
      BY ShareFacts
    <2> QED BY <2>1, <2>2
  <1> HIDE DEF S, T
  <1>4. Cardinality(T) = Cardinality(S)
    BY <1>2, <1>3, OwnedSize
  <1> QED BY <1>4, Counting DEF S, T

\* CreateWallboardShare is answered alike.
LEMMA CreateWallboardShareAlike ==
    ASSUME Paired, now \in Time, NEW t \in Tenants, NEW id \in Names, NEW share \in WallboardShare,
           id \in DOMAIN mem.shares => mem.shares[id].tenant = t
    PROVE  Alike(t, M!CreateWallboardShare(mem, t, id, share, now), P!CreateWallboardShare(pg, t, id, share, now))
  <1> DEFINE f == mem.shares
             liveHere == {x \in M!Beside(f, t) : M!ShareLive(f[x].row, now)}
             liveThere == {r \in P!InTenant(pg.wallboard_shares, t) : r.row.expiresAt > now}
             full == M!Cardinality(liveHere) >= MaxWallboardSharesPerTenant
             clash == id \in DOMAIN f \/ \E x \in M!Beside(f, t) : f[x].row.secret = share.secret
  <1>1. /\ pg.wallboard_shares = Owned(f) /\ SharesGood(f, DOMAIN mem.tenants)
        /\ DOMAIN mem = M!Memory /\ DOMAIN pg = P!Postgres
        /\ P!Has(pg.tenants, t) <=> t \in DOMAIN mem.tenants
        /\ \A r : r \in P!InTenant(pg.wallboard_shares, t) <=> \E x \in M!Beside(f, t) : r = OwnedRow(f, x)
    BY ShareFacts
  <1>2. P!Cardinality(liveThere) = M!Cardinality(liveHere)
    BY LiveShares
  <1>3. (\E r \in P!InTenant(pg.wallboard_shares, t) : r.id = id \/ r.row.secret = share.secret) <=> clash
    <2>1. \A x : OwnedRow(f, x).id = x /\ OwnedRow(f, x).row = f[x].row
      BY DEF OwnedRow
    <2>2. id \in DOMAIN f <=> id \in M!Beside(f, t)
      BY DEF M!Beside
    <2> QED BY <1>1, <2>1, <2>2
  <1>4. P!CreateWallboardShare(pg, t, id, share, now)
        = IF full \/ clash THEN Fail(pg, "ErrConflict")
          ELSE IF t \notin DOMAIN mem.tenants THEN Fail(pg, "error")
          ELSE Done([pg EXCEPT !.wallboard_shares = @ \cup {[id |-> id, tenant |-> t, row |-> share]}])
    <2> HIDE DEF liveHere, clash
    <2>1. P!CreateWallboardShare(pg, t, id, share, now)
          = IF P!Cardinality(liveThere) >= MaxWallboardSharesPerTenant THEN Fail(pg, "ErrConflict")
            ELSE IF \E r \in P!InTenant(pg.wallboard_shares, t) : r.id = id \/ r.row.secret = share.secret
                 THEN Fail(pg, "ErrConflict")
            ELSE IF t \notin DOMAIN mem.tenants THEN Fail(pg, "error")
            ELSE Done([pg EXCEPT !.wallboard_shares = @ \cup {[id |-> id, tenant |-> t, row |-> share]}])
      BY <1>1, Shared DEF P!CreateWallboardShare
    <2> QED BY <2>1, <1>2, <1>3
  <1>5. M!CreateWallboardShare(mem, t, id, share, now)
        = IF t \notin DOMAIN mem.tenants THEN Fail(mem, "error")
          ELSE IF full \/ clash THEN Fail(mem, "ErrConflict")
          ELSE Done([mem EXCEPT !.shares = Put(@, id, [tenant |-> t, row |-> share])])
    BY Shared DEF M!CreateWallboardShare
  <1> HIDE DEF full, liveHere, liveThere
  <1>6. CASE t \notin DOMAIN mem.tenants
    <2>1. t \in Tenants \ DOMAIN mem.tenants
      BY <1>6
    <2>2. CASE full \/ clash
      BY <1>4, <1>5, <1>6, <2>1, <2>2, RefusedAlike DEF Answers
    <2>3. CASE ~(full \/ clash)
      BY <1>4, <1>5, <1>6, <2>1, <2>3, RefusedAlike DEF Answers
    <2> QED BY <2>2, <2>3
  <1>7. CASE t \in DOMAIN mem.tenants /\ (full \/ clash)
    BY <1>4, <1>5, <1>7, RefusedAlike DEF Answers
  <1>8. CASE t \in DOMAIN mem.tenants /\ ~full /\ ~clash
    <2> DEFINE own == [tenant |-> t, row |-> share]
               g == Put(f, id, own)
               n == [mem EXCEPT !.shares = g]
               db == [pg EXCEPT !.wallboard_shares = @ \cup {[id |-> id, tenant |-> t, row |-> share]}]
    <2>1. M!CreateWallboardShare(mem, t, id, share, now) = Done(n) /\ P!CreateWallboardShare(pg, t, id, share, now) = Done(db)
      BY <1>4, <1>5, <1>8
    <2>2. own \in Ours(WallboardShare) /\ own.tenant = t /\ own.row = share
      BY DEF Ours, Belonging
    <2>3. DOMAIN g = DOMAIN f \cup {id} /\ g[id] = own /\ \A x \in DOMAIN f : g[x] = f[x]
      BY <1>8 DEF Put
    <2>4. Owned(g) = Owned(f) \cup {[id |-> id, tenant |-> t, row |-> share]}
      BY <1>8, OwnedAdd
    <2> HIDE DEF own
    <2>5. /\ MapsTo(g, Names, Ours(WallboardShare)) /\ IsFiniteSet(DOMAIN g)
          /\ \A s \in Sides : s # t => SameBeside(f, g, s)
      BY <1>1, <1>8, <2>2, PutKeeps, PutFinite, PutApart DEF SharesGood
    <2> HIDE DEF g
    <2>6. MemOnly(n, {"shares"}) /\ n.shares = g
      BY <1>1 DEF MemOnly, M!Memory
    <2>7. PgOnly(db, {"wallboard_shares"}) /\ db.wallboard_shares = Owned(g)
      BY <1>1, <2>4 DEF PgOnly, P!Postgres
    <2> HIDE DEF n, db
    <2>8. SharesGood(g, DOMAIN mem.tenants)
      <3>1. \A x \in DOMAIN g : g[x].tenant \in DOMAIN mem.tenants
        BY <1>1, <1>8, <2>2, <2>3 DEF SharesGood
      <3>2. ASSUME NEW x \in DOMAIN g, NEW y \in DOMAIN g, g[x].tenant = g[y].tenant, g[x].row.secret = g[y].row.secret
            PROVE  x = y
        BY <1>1, <1>8, <2>2, <2>3, <3>2 DEF SharesGood, M!Beside
      <3> QED BY <2>5, <3>1, <3>2 DEF SharesGood
    <2>9. Lockstep(n, db) /\ Apart(t, n)
      BY <2>5, <2>6, <2>7, <2>8, SharesOnly
    <2> QED BY <2>1, <2>9, DoneAlike
  <1> QED BY <1>6, <1>7, <1>8

\* DeleteWallboardShare is answered alike.
LEMMA DeleteWallboardShareAlike ==
    ASSUME Paired, NEW t \in Tenants, NEW id
    PROVE  Alike(t, M!DeleteWallboardShare(mem, t, id), P!DeleteWallboardShare(pg, t, id))
  <1> DEFINE f == mem.shares
             left == {r \in pg.wallboard_shares : ~(r.tenant = t /\ r.id = id)}
  <1>1. /\ pg.wallboard_shares = Owned(f) /\ SharesGood(f, DOMAIN mem.tenants)
        /\ DOMAIN mem = M!Memory /\ DOMAIN pg = P!Postgres
        /\ P!HasIn(pg.wallboard_shares, t, id) <=> id \in M!Beside(f, t)
    BY ShareFacts
  <1>2. CASE id \notin M!Beside(f, t)
    <2>1. M!DeleteWallboardShare(mem, t, id) = Fail(mem, "ErrNotFound")
      BY <1>2, Shared DEF M!DeleteWallboardShare
    <2>2. P!DeleteWallboardShare(pg, t, id) = Fail(pg, "ErrNotFound")
      BY <1>1, <1>2, Shared DEF P!DeleteWallboardShare, P!AffectOne
    <2> QED BY <2>1, <2>2, RefusedAlike DEF Answers
  <1>3. CASE id \in M!Beside(f, t)
    <2> DEFINE g == Without(f, {id})
               n == [mem EXCEPT !.shares = g]
               db == [pg EXCEPT !.wallboard_shares = left]
    <2>1. M!DeleteWallboardShare(mem, t, id) = Done(n)
      BY <1>3, Shared DEF M!DeleteWallboardShare
    <2>2. P!DeleteWallboardShare(pg, t, id) = Done(db)
      BY <1>1, <1>3, Shared DEF P!DeleteWallboardShare, P!AffectOne
    <2>3. left = Owned(g)
      <3>1. \A x \in DOMAIN f : OwnedRow(f, x) \in pg.wallboard_shares /\ OwnedRow(f, x).id = x /\ OwnedRow(f, x).tenant = f[x].tenant
        BY <1>1, Tables DEF OwnedRow
      <3>2. left \subseteq Owned(f) /\ \A x \in DOMAIN f : OwnedRow(f, x) \in left <=> x \notin {id}
        BY <1>1, <1>3, <3>1 DEF M!Beside
      <3> HIDE DEF left
      <3> QED BY <3>2, Cut
    <2>4. /\ MapsTo(g, Names, Ours(WallboardShare)) /\ IsFiniteSet(DOMAIN g)
          /\ \A s \in Sides : s # t => SameBeside(f, g, s)
      <3>1. \A k \in DOMAIN f \cap {id} : f[k].tenant = t
        BY <1>3 DEF M!Beside
      <3> QED BY <1>1, <3>1, WithoutKeeps, WithoutFinite, WithoutApart DEF SharesGood
    <2>5. SharesGood(g, DOMAIN mem.tenants)
      <3>1. DOMAIN g \subseteq DOMAIN f /\ \A x \in DOMAIN g : g[x] = f[x]
        BY DEF Without
      <3> HIDE DEF g
      <3> QED BY <1>1, <2>4, <3>1 DEF SharesGood
    <2> HIDE DEF g, left
    <2>6. MemOnly(n, {"shares"}) /\ n.shares = g
      BY <1>1 DEF MemOnly, M!Memory
    <2>7. PgOnly(db, {"wallboard_shares"}) /\ db.wallboard_shares = Owned(g)
      BY <1>1, <2>3 DEF PgOnly, P!Postgres
    <2> HIDE DEF n, db
    <2>8. Lockstep(n, db) /\ Apart(t, n)
      BY <2>4, <2>5, <2>6, <2>7, SharesOnly
    <2> QED BY <2>1, <2>2, <2>8, DoneAlike
  <1> QED BY <1>2, <1>3

\* TouchWallboardShare is answered alike.
LEMMA TouchWallboardShareAlike ==
    ASSUME Paired, NEW t \in Tenants, NEW id, NEW at \in Time
    PROVE  Alike(t, M!TouchWallboardShare(mem, t, id, at), P!TouchWallboardShare(pg, t, id, at))
  <1> DEFINE f == mem.shares
             u == [r \in pg.wallboard_shares |-> IF r.tenant = t /\ r.id = id
                                                 THEN [r EXCEPT !.row = [r.row EXCEPT !.lastSeenAt = at]] ELSE r]
             db == [pg EXCEPT !.wallboard_shares = Rewrites(u, @)]
  <1>1. /\ pg.wallboard_shares = Owned(f) /\ SharesGood(f, DOMAIN mem.tenants)
        /\ DOMAIN mem = M!Memory /\ DOMAIN pg = P!Postgres
    BY ShareFacts
  <1>2. P!TouchWallboardShare(pg, t, id, at) = Done(db)
    BY <1>1, Shared DEF P!TouchWallboardShare, P!Update, P!Postgres, Rewrites
  <1>3. CASE id \in M!Beside(f, t)
    <2> DEFINE v == [f[id].row EXCEPT !.lastSeenAt = at]
               g == SetRow(f, id, v)
               n == [mem EXCEPT !.shares = g]
    <2>1. M!TouchWallboardShare(mem, t, id, at) = Done(n)
      BY <1>1, <1>3, Shared DEF M!TouchWallboardShare, SetRow, M!Memory, M!Beside
    <2>2. id \in DOMAIN f /\ f[id].tenant = t /\ f[id].row \in WallboardShare /\ MapsTo(f, Names, Ours(WallboardShare))
      BY <1>1, <1>3 DEF M!Beside, SharesGood, MapsTo, Ours, Belonging
    <2>3. v \in WallboardShare /\ v.secret = f[id].row.secret
      BY <2>2 DEF WallboardShare
    <2>4. /\ \A r \in Owned(f) : r.id = id /\ r.tenant = f[id].tenant /\ r.row = f[id].row => u[r] = NewRow(r, v)
          /\ \A r \in Owned(f) : r.id # id => u[r] = r
      BY <1>1, <2>2 DEF NewRow
    <2> HIDE DEF u, v
    <2>5. MemOnly(n, {"shares"}) /\ n.shares = g
      BY <1>1 DEF MemOnly, M!Memory
    <2>6. PgOnly(db, {"wallboard_shares"}) /\ db.wallboard_shares = Rewrites(u, Owned(f))
      BY <1>1 DEF PgOnly, P!Postgres
    <2> HIDE DEF n, db
    <2>7. /\ DOMAIN g = DOMAIN f /\ MapsTo(g, Names, Ours(WallboardShare)) /\ g[id].row = v
          /\ \A x \in DOMAIN f : g[x].tenant = f[x].tenant
          /\ \A x \in DOMAIN f : x # id => g[x] = f[x]
          /\ \A s : s # t => SameBeside(f, g, s)
      BY <2>2, <2>3, OwnedSet, SMTT(30) DEF Ours
    <2>8. db.wallboard_shares = Owned(g)
      BY <2>2, <2>3, <2>4, <2>6, OwnedUpdated DEF Ours
    <2> HIDE DEF g
    <2>9. SharesGood(g, DOMAIN mem.tenants)
      <3>1. \A x \in DOMAIN f : g[x].row.secret = f[x].row.secret
        BY <2>3, <2>7
      <3> QED BY <1>1, <2>7, <3>1 DEF SharesGood
    <2>10. Lockstep(n, db) /\ Apart(t, n)
      BY <2>5, <2>6, <2>7, <2>8, <2>9, SharesOnly
    <2> QED BY <1>2, <2>1, <2>10, DoneAlike
  <1>4. CASE id \notin M!Beside(f, t)
    <2>1. M!TouchWallboardShare(mem, t, id, at) = Done(mem)
      BY <1>4, Shared DEF M!TouchWallboardShare
    <2>2. \A r \in Owned(f) : u[r] = r
      <3> SUFFICES ASSUME NEW r \in Owned(f) PROVE u[r] = r
        OBVIOUS
      <3>1. PICK x \in DOMAIN f : r = OwnedRow(f, x)
        BY Tables
      <3>2. r.id = x /\ r.tenant = f[x].tenant
        BY <3>1 DEF OwnedRow
      <3> QED BY <1>1, <1>4, <3>2 DEF M!Beside
    <2> HIDE DEF u
    <2>3. Rewrites(u, Owned(f)) = Owned(f)
      BY <2>2 DEF Rewrites
    <2>4. MemOnly(mem, {"shares"}) /\ PgOnly(db, {"wallboard_shares"}) /\ db.wallboard_shares = Owned(f)
      BY <1>1, <2>3 DEF MemOnly, PgOnly, P!Postgres
    <2> HIDE DEF db
    <2>5. Lockstep(mem, db) /\ Apart(t, mem)
      BY <1>1, <2>4, SameSelf, SharesOnly
    <2> QED BY <1>2, <2>1, <2>5, DoneAlike
  <1> QED BY <1>3, <1>4

-----------------------------------------------------------------------------
(* Templates. *)

\* What the two stores know of templates.
LEMMA TemplateFacts ==
    ASSUME Paired, NEW t, NEW name
    PROVE  /\ pg.templates = InsideTwice(mem.templates) /\ pg.template_archivals = Inside(mem.archivedTemplates)
           /\ TemplatesGood(mem.templates, mem.archivedTemplates, DOMAIN mem.tenants)
           /\ DOMAIN mem = M!Memory /\ DOMAIN pg = P!Postgres
           /\ P!Has(pg.tenants, t) <=> t \in DOMAIN mem.tenants
           /\ P!Archived(pg, t, name) <=> M!Archived(mem, t, name)
  <1>1. pg.template_archivals = Inside(mem.archivedTemplates) /\ pg.tenants = Keyed(mem.tenants)
    BY DEF Paired, Lockstep, Mirrors
  <1>2. DOMAIN mem.archivedTemplates \subseteq Tenants \X Names
    BY DEF Paired, Lockstep, Good, TemplatesGood, MapsTo
  <1>3. P!HasIn(pg.template_archivals, t, name) <=> <<t, name>> \in DOMAIN mem.archivedTemplates
    BY <1>1, <1>2, InsideHas
  <1>4. P!Archived(pg, t, name) <=> M!Archived(mem, t, name)
    BY <1>3 DEF P!Archived, M!Archived
  <1> QED BY <1>1, <1>4, KeyedHas DEF Paired, Lockstep, Mirrors, Good

\* Both stores know the same versions of a name.
LEMMA VersionsAgree ==
    ASSUME Paired, NEW t, NEW name
    PROVE  /\ P!Versions(pg, t, name) = M!Versions(mem, t, name)
           /\ \A v : v \in M!Versions(mem, t, name) <=> <<t, name, v>> \in DOMAIN mem.templates
  <1> DEFINE f == mem.templates
  <1>1. pg.templates = InsideTwice(f) /\ DOMAIN f \subseteq Tenants \X Names \X (1 .. MaxVersions)
    BY TemplateFacts DEF TemplatesGood, MapsTo
  <1>2. ASSUME NEW v PROVE v \in M!Versions(mem, t, name) <=> <<t, name, v>> \in DOMAIN f
    <2>1. ASSUME v \in M!Versions(mem, t, name) PROVE <<t, name, v>> \in DOMAIN f
      <3>1. PICK k \in DOMAIN f : k[1] = t /\ k[2] = name /\ k[3] = v
        BY <2>1 DEF M!Versions, M!InKey
      <3>2. k = <<k[1], k[2], k[3]>>
        BY <1>1
      <3> QED BY <3>1, <3>2
    <2>2. ASSUME <<t, name, v>> \in DOMAIN f PROVE v \in M!Versions(mem, t, name)
      <3>1. PICK k \in DOMAIN f : k = <<t, name, v>>
        BY <2>2
      <3>2. k[1] = t /\ k[2] = name /\ k[3] = v
        BY <3>1
      <3> QED BY <3>2 DEF M!Versions, M!InKey
    <2> QED BY <2>1, <2>2
  <1>3. ASSUME NEW v PROVE v \in P!Versions(pg, t, name) <=> v \in M!Versions(mem, t, name)
    <2>1. ASSUME NEW k \in DOMAIN f PROVE TwiceRow(f, k).id[1] = k[2] /\ TwiceRow(f, k).id[2] = k[3]
      BY DEF TwiceRow
    <2>2. \A r : r \in P!InTenant(pg.templates, t) <=> \E k \in M!InKey(f, t) : r = TwiceRow(f, k)
      BY <1>1, TwiceIn
    <2>3. M!InKey(f, t) \subseteq DOMAIN f
      BY DEF M!InKey
    <2> HIDE DEF f
    <2>4. v \in P!Versions(pg, t, name) <=> \E r \in P!InTenant(pg.templates, t) : r.id[1] = name /\ v = r.id[2]
      BY DEF P!Versions
    <2>5. v \in M!Versions(mem, t, name) <=> \E k \in M!InKey(f, t) : k[2] = name /\ v = k[3]
      BY DEF M!Versions, f
    <2> QED BY <2>1, <2>2, <2>3, <2>4, <2>5
  <1> QED BY <1>2, <1>3

\* They count up from one, so that how many there are is which is the latest.
LEMMA VersionsAreCounted ==
    ASSUME Paired, NEW t \in Tenants, NEW name \in Names, NEW V, V = M!Versions(mem, t, name), V # {}
    PROVE  /\ IsFiniteSet(V) /\ M!Latest(V) \in V /\ M!Latest(V) \in 1 .. MaxVersions
           /\ P!Latest(V) = M!Latest(V)
           /\ V = 1 .. M!Latest(V) /\ Cardinality(V) = M!Latest(V)
  <1> DEFINE f == mem.templates
  <1>1. TemplatesGood(f, mem.archivedTemplates, DOMAIN mem.tenants)
    BY TemplateFacts
  <1>2. \A v : v \in V <=> <<t, name, v>> \in DOMAIN f
    BY VersionsAgree
  <1>3. ASSUME NEW v \in V PROVE v \in 1 .. MaxVersions /\ \A w \in 1 .. v : w \in V
    <2>1. PICK k \in DOMAIN f : k = <<t, name, v>>
      BY <1>2
    <2>2. k[1] = t /\ k[2] = name /\ k[3] = v
      BY <2>1
    <2>3. k[3] \in 1 .. MaxVersions
      BY <1>1, <2>1 DEF TemplatesGood, MapsTo
    <2>4. \A w \in 1 .. k[3] : <<k[1], k[2], w>> \in DOMAIN f
      BY <1>1 DEF TemplatesGood
    <2>5. \A w \in 1 .. v : <<t, name, w>> \in DOMAIN f
      BY <2>2, <2>4
    <2> QED BY <1>2, <2>2, <2>3, <2>5
  <1>4. V \subseteq Nat /\ IsFiniteSet(V)
    <2>1. MaxVersions \in Nat
      BY BoundsAssumption
    <2>2. IsFiniteSet(1 .. MaxVersions) /\ V \in SUBSET (1 .. MaxVersions)
      BY <1>3, <2>1, FS_Interval
    <2>3. IsFiniteSet(V)
      BY <2>2, FS_Subset
    <2> QED BY <2>1, <2>2, <2>3
  <1>5. M!Latest(V) \in V /\ (\A w \in V : w <= M!Latest(V)) /\ P!Latest(V) = M!Latest(V)
    BY <1>4, LatestIs
  <1> DEFINE last == M!Latest(V)
  <1> HIDE DEF last
  <1>6. V = 1 .. last /\ last \in 1 .. MaxVersions
    <2>1. last \in 1 .. MaxVersions /\ (\A w \in 1 .. last : w \in V) /\ \A w \in V : w <= last /\ w \in 1 .. MaxVersions
      BY <1>3, <1>5 DEF last
    <2>2. ASSUME NEW w PROVE w \in V <=> w \in 1 .. last
      BY <2>1, BoundsAssumption
    <2> QED BY <2>1, <2>2
  <1>7. Cardinality(V) = last
    <2>1. Cardinality(1 .. last) = last
      BY <1>6, FS_Interval
    <2> QED BY <1>6, <2>1
  <1> QED BY <1>4, <1>5, <1>6, <1>7 DEF last

\* CreateTemplateVersion is answered alike.
LEMMA CreateTemplateVersionAlike ==
    ASSUME Paired, NEW t \in Tenants, NEW name \in Names, NEW template \in TemplateVersion,
           Cardinality(P!Versions(pg, t, name)) < MaxVersions
    PROVE  Alike(t, M!CreateTemplateVersion(mem, t, name, template), P!CreateTemplateVersion(pg, t, name, template))
  <1> DEFINE f == mem.templates
             V == M!Versions(mem, t, name)
             next == IF V = {} THEN 1 ELSE M!Latest(V) + 1
  <1>1. /\ pg.templates = InsideTwice(f) /\ pg.template_archivals = Inside(mem.archivedTemplates)
        /\ TemplatesGood(f, mem.archivedTemplates, DOMAIN mem.tenants)
        /\ DOMAIN mem = M!Memory /\ DOMAIN pg = P!Postgres
        /\ P!Has(pg.tenants, t) <=> t \in DOMAIN mem.tenants
    BY TemplateFacts
  <1>2. P!Versions(pg, t, name) = V /\ \A v : v \in V <=> <<t, name, v>> \in DOMAIN f
    BY VersionsAgree
  <1>3. V # {} => V = 1 .. M!Latest(V) /\ Cardinality(V) = M!Latest(V) /\ P!Latest(V) = M!Latest(V) /\ M!Latest(V) \in Nat
    BY VersionsAreCounted, BoundsAssumption
  <1>4. next \in 1 .. MaxVersions /\ next \notin V /\ \A w \in 1 .. next : w \in V \/ w = next
    <2>1. MaxVersions \in Nat
      BY BoundsAssumption
    <2>2. CASE V = {}
      <3>1. next = 1 /\ Cardinality(V) = 0
        BY <2>2, FS_EmptySet
      <3>2. MaxVersions >= 1
        BY <1>2, <2>1, <3>1
      <3> QED BY <2>1, <2>2, <3>1, <3>2
    <2>3. CASE V # {}
      <3> DEFINE last == M!Latest(V)
      <3>1. next = last + 1 /\ V = 1 .. last /\ last \in Nat /\ last < MaxVersions
        BY <1>2, <1>3, <2>3
      <3> HIDE DEF last, next, V
      <3> QED BY <2>1, <3>1
    <2> QED BY <2>2, <2>3
  <1>5. next = IF V = {} THEN 1 ELSE P!Latest(V) + 1
    BY <1>3
  <1>6. CASE t \notin DOMAIN mem.tenants
    <2>1. M!CreateTemplateVersion(mem, t, name, template) = Fail(mem, "error")
      BY <1>6, Shared DEF M!CreateTemplateVersion
    <2>2. P!CreateTemplateVersion(pg, t, name, template) = Fail(pg, "error")
      BY <1>1, <1>6, Shared DEF P!CreateTemplateVersion
    <2> QED BY <2>1, <2>2, RefusedAlike DEF Answers
  <1>7. CASE t \in DOMAIN mem.tenants
    <2> DEFINE k == <<t, name, next>>
               g == Put(f, k, template)
               n == [mem EXCEPT !.templates = g]
               db == [pg EXCEPT !.templates = @ \cup {[id |-> <<name, next>>, tenant |-> t, row |-> template]}]
    <2>1. M!CreateTemplateVersion(mem, t, name, template) = Ok(n, next)
      BY <1>7, Shared DEF M!CreateTemplateVersion
    <2>2. P!CreateTemplateVersion(pg, t, name, template) = Ok(db, next)
      BY <1>1, <1>2, <1>5, <1>7, Shared DEF P!CreateTemplateVersion
    <2> HIDE DEF next
    <2>3. k \notin DOMAIN f /\ k[1] = t /\ k[2] = name /\ k[3] = next /\ k \in Tenants \X Names \X (1 .. MaxVersions)
      BY <1>2, <1>4
    <2>4. InsideTwice(g) = InsideTwice(f) \cup {[id |-> <<name, next>>, tenant |-> t, row |-> template]}
      BY <2>3, TwiceAdd
    <2>5. \A v : v \in V => <<t, name, v>> \in DOMAIN f
      BY <1>2
    <2>6. k = <<t, name, next>>
      OBVIOUS
    <2> HIDE DEF k, V
    <2>7. MapsTo(g, Tenants \X Names \X (1 .. MaxVersions), TemplateVersion)
      <3>1. MapsTo(f, Tenants \X Names \X (1 .. MaxVersions), TemplateVersion)
        BY <1>1 DEF TemplatesGood
      <3> QED BY <2>3, <3>1, PutKeeps
    <2>8. \A s : s # t => SameInKey(f, g, s)
      BY <2>3, PutApart
    <2>9. DOMAIN g = DOMAIN f \cup {k}
      BY DEF Put
    <2> HIDE DEF g
    <2>10. \A x \in DOMAIN g : x[1] \in DOMAIN mem.tenants
      BY <1>1, <1>7, <2>3, <2>9 DEF TemplatesGood
    <2>11. ASSUME NEW x \in DOMAIN g, NEW v \in 1 .. x[3] PROVE <<x[1], x[2], v>> \in DOMAIN g
      <3>1. CASE x \in DOMAIN f
        BY <1>1, <2>9, <3>1 DEF TemplatesGood
      <3>2. CASE x = k
        <4>1. v \in V \/ v = next
          BY <1>4, <2>3, <3>2
        <4>2. <<t, name, v>> \in DOMAIN g
          BY <2>5, <2>6, <2>9, <4>1
        <4> QED BY <2>3, <3>2, <4>2
      <3> QED BY <2>9, <3>1, <3>2
    <2>12. \A x \in DOMAIN mem.archivedTemplates : \E y \in DOMAIN g : y[1] = x[1] /\ y[2] = x[2]
      BY <1>1, <2>9 DEF TemplatesGood
    <2>13. TemplatesGood(g, mem.archivedTemplates, DOMAIN mem.tenants)
      BY <1>1, <2>7, <2>10, <2>11, <2>12 DEF TemplatesGood
    <2>14. MemOnly(n, {"templates", "archivedTemplates"}) /\ n.templates = g /\ n.archivedTemplates = mem.archivedTemplates
      BY <1>1 DEF MemOnly, M!Memory
    <2>15. /\ PgOnly(db, {"templates", "template_archivals"}) /\ db.templates = InsideTwice(g)
           /\ db.template_archivals = Inside(mem.archivedTemplates)
      BY <1>1, <2>4 DEF PgOnly, P!Postgres
    <2> HIDE DEF n, db
    <2>16. Lockstep(n, db) /\ Apart(t, n)
      BY <2>8, <2>13, <2>14, <2>15, SameSelf, TemplatesOnly
    <2> QED BY <2>1, <2>2, <2>16, DoneAlike
  <1> QED BY <1>6, <1>7

\* A name has versions in both stores or in neither.
LEMMA HasVersions ==
    ASSUME NEW t, NEW name
    PROVE  M!Versions(mem, t, name) # {} <=> \E x \in DOMAIN mem.templates : x[1] = t /\ x[2] = name
  BY DEF M!Versions, M!InKey

\* What becomes of the archivals, while the versions stay.
LEMMA ArchivalsOnly ==
    ASSUME Paired, NEW t, NEW g, MapsTo(g, Tenants \X Names, Operators),
           \A k \in DOMAIN g : \E x \in DOMAIN mem.templates : x[1] = k[1] /\ x[2] = k[2],
           \A s : s # t => SameInKey(mem.archivedTemplates, g, s),
           NEW n, NEW db, MemOnly(n, {"archivedTemplates"}), n.archivedTemplates = g,
           PgOnly(db, {"template_archivals"}), db.template_archivals = Inside(g)
    PROVE  Lockstep(n, db) /\ Apart(t, n)
  <1>1. n.templates = mem.templates /\ MemOnly(n, {"templates", "archivedTemplates"})
    BY DEF MemOnly, M!Memory
  <1>2. db.templates = pg.templates /\ PgOnly(db, {"templates", "template_archivals"})
    BY DEF PgOnly, P!Postgres
  <1>3. db.templates = InsideTwice(n.templates) /\ TemplatesGood(n.templates, mem.archivedTemplates, DOMAIN mem.tenants)
    BY <1>1, <1>2, TemplateFacts
  <1>4. TemplatesGood(n.templates, n.archivedTemplates, DOMAIN mem.tenants)
    BY <1>1, <1>3 DEF TemplatesGood
  <1> QED BY <1>1, <1>2, <1>3, <1>4, SameSelf, TemplatesOnly

\* ArchiveTemplate is answered alike.
LEMMA ArchiveTemplateAlike ==
    ASSUME Paired, NEW t \in Tenants, NEW name \in Names, NEW by \in Operators
    PROVE  Alike(t, M!ArchiveTemplate(mem, t, name, by), P!ArchiveTemplate(pg, t, name, by))
  <1> SUFFICES ASSUME NEW k, k = <<t, name>>
               PROVE  Alike(t, M!ArchiveTemplate(mem, t, name, by), P!ArchiveTemplate(pg, t, name, by))
    OBVIOUS
  <1> DEFINE f == mem.archivedTemplates
  <1>1. /\ pg.template_archivals = Inside(f) /\ TemplatesGood(mem.templates, f, DOMAIN mem.tenants)
        /\ DOMAIN mem = M!Memory /\ DOMAIN pg = P!Postgres
        /\ P!Archived(pg, t, name) <=> M!Archived(mem, t, name)
        /\ P!Versions(pg, t, name) = M!Versions(mem, t, name)
    BY TemplateFacts, VersionsAgree
  <1>2. (M!Archived(mem, t, name) <=> k \in DOMAIN f) /\ k[1] = t /\ k[2] = name /\ k \in Tenants \X Names
    BY DEF M!Archived
  <1>3. CASE M!Versions(mem, t, name) = {}
    <2>1. M!ArchiveTemplate(mem, t, name, by) = Fail(mem, "ErrNotFound")
      BY <1>3, Shared DEF M!ArchiveTemplate
    <2>2. P!ArchiveTemplate(pg, t, name, by) = Fail(pg, "ErrNotFound")
      BY <1>1, <1>3, Shared DEF P!ArchiveTemplate
    <2> QED BY <2>1, <2>2, RefusedAlike DEF Answers
  <1>4. CASE M!Versions(mem, t, name) # {} /\ M!Archived(mem, t, name)
    <2>1. M!ArchiveTemplate(mem, t, name, by) = Fail(mem, "ErrConflict")
      BY <1>4, Shared DEF M!ArchiveTemplate
    <2>2. P!ArchiveTemplate(pg, t, name, by) = Fail(pg, "ErrConflict")
      BY <1>1, <1>4, Shared DEF P!ArchiveTemplate
    <2> QED BY <2>1, <2>2, RefusedAlike DEF Answers
  <1>5. CASE M!Versions(mem, t, name) # {} /\ ~M!Archived(mem, t, name)
    <2> DEFINE g == Put(f, k, by)
               n == [mem EXCEPT !.archivedTemplates = g]
               db == [pg EXCEPT !.template_archivals = @ \cup {[id |-> name, tenant |-> t, row |-> by]}]
    <2>1. M!ArchiveTemplate(mem, t, name, by) = Done(n)
      BY <1>5, Shared DEF M!ArchiveTemplate
    <2>2. P!ArchiveTemplate(pg, t, name, by) = Done(db)
      BY <1>1, <1>5, Shared DEF P!ArchiveTemplate
    <2>3. Inside(g) = Inside(f) \cup {[id |-> name, tenant |-> t, row |-> by]}
      BY <1>2, <1>5, InsideAdd
    <2>4. MapsTo(g, Tenants \X Names, Operators)
      <3>1. MapsTo(f, Tenants \X Names, Operators)
        BY <1>1 DEF TemplatesGood
      <3> QED BY <1>2, <3>1, PutKeeps
    <2>5. \A s : s # t => SameInKey(f, g, s)
      BY <1>2, PutApart
    <2>6. DOMAIN g = DOMAIN f \cup {k}
      BY DEF Put
    <2> HIDE DEF g
    <2>7. \A z \in DOMAIN g : \E x \in DOMAIN mem.templates : x[1] = z[1] /\ x[2] = z[2]
      <3>1. \E x \in DOMAIN mem.templates : x[1] = k[1] /\ x[2] = k[2]
        BY <1>2, <1>5, HasVersions
      <3> QED BY <1>1, <2>6, <3>1 DEF TemplatesGood
    <2>8. MemOnly(n, {"archivedTemplates"}) /\ n.archivedTemplates = g
      BY <1>1 DEF MemOnly, M!Memory
    <2>9. PgOnly(db, {"template_archivals"}) /\ db.template_archivals = Inside(g)
      BY <1>1, <2>3 DEF PgOnly, P!Postgres
    <2> HIDE DEF n, db
    <2>10. Lockstep(n, db) /\ Apart(t, n)
      BY <2>4, <2>5, <2>7, <2>8, <2>9, ArchivalsOnly
    <2> QED BY <2>1, <2>2, <2>10, DoneAlike
  <1> QED BY <1>3, <1>4, <1>5

\* RestoreTemplate is answered alike.
LEMMA RestoreTemplateAlike ==
    ASSUME Paired, NEW t \in Tenants, NEW name \in Names
    PROVE  Alike(t, M!RestoreTemplate(mem, t, name), P!RestoreTemplate(pg, t, name))
  <1> SUFFICES ASSUME NEW k, k = <<t, name>>
               PROVE  Alike(t, M!RestoreTemplate(mem, t, name), P!RestoreTemplate(pg, t, name))
    OBVIOUS
  <1> DEFINE f == mem.archivedTemplates
             left == {r \in pg.template_archivals : ~(r.tenant = t /\ r.id = name)}
  <1>1. /\ pg.template_archivals = Inside(f) /\ TemplatesGood(mem.templates, f, DOMAIN mem.tenants)
        /\ DOMAIN mem = M!Memory /\ DOMAIN pg = P!Postgres
        /\ P!Archived(pg, t, name) <=> M!Archived(mem, t, name)
        /\ P!Versions(pg, t, name) = M!Versions(mem, t, name)
    BY TemplateFacts, VersionsAgree
  <1>2. (M!Archived(mem, t, name) <=> k \in DOMAIN f) /\ k[1] = t /\ k[2] = name
    BY DEF M!Archived
  <1>3. CASE M!Versions(mem, t, name) = {}
    <2>1. M!RestoreTemplate(mem, t, name) = Fail(mem, "ErrNotFound")
      BY <1>3, Shared DEF M!RestoreTemplate
    <2>2. P!RestoreTemplate(pg, t, name) = Fail(pg, "ErrNotFound")
      BY <1>1, <1>3, Shared DEF P!RestoreTemplate
    <2> QED BY <2>1, <2>2, RefusedAlike DEF Answers
  <1>4. CASE M!Versions(mem, t, name) # {} /\ ~M!Archived(mem, t, name)
    <2>1. M!RestoreTemplate(mem, t, name) = Fail(mem, "ErrConflict")
      BY <1>4, Shared DEF M!RestoreTemplate
    <2>2. P!RestoreTemplate(pg, t, name) = Fail(pg, "ErrConflict")
      BY <1>1, <1>4, Shared DEF P!RestoreTemplate
    <2> QED BY <2>1, <2>2, RefusedAlike DEF Answers
  <1>5. CASE M!Versions(mem, t, name) # {} /\ M!Archived(mem, t, name)
    <2> DEFINE g == Without(f, {k})
               n == [mem EXCEPT !.archivedTemplates = g]
               db == [pg EXCEPT !.template_archivals = left]
    <2>1. M!RestoreTemplate(mem, t, name) = Done(n)
      BY <1>5, Shared DEF M!RestoreTemplate
    <2>2. P!RestoreTemplate(pg, t, name) = Done(db)
      BY <1>1, <1>5, Shared DEF P!RestoreTemplate
    <2>3. MapsTo(f, Tenants \X Names, Operators)
      BY <1>1 DEF TemplatesGood
    <2>4. left = Inside(g)
      <3>1. \A x \in DOMAIN f : InsideRow(f, x) \in pg.template_archivals /\ InsideRow(f, x).id = x[2] /\ InsideRow(f, x).tenant = x[1]
        BY <1>1, Tables DEF InsideRow
      <3>2. \A x \in DOMAIN f : x[1] = t /\ x[2] = name <=> x = k
        BY <1>2, <2>3 DEF MapsTo
      <3>3. left \subseteq Inside(f) /\ \A x \in DOMAIN f : InsideRow(f, x) \in left <=> x \notin {k}
        BY <1>1, <3>1, <3>2
      <3> HIDE DEF left
      <3> QED BY <3>3, Cut
    <2>5. MapsTo(g, Tenants \X Names, Operators)
      BY <2>3, WithoutKeeps
    <2>6. \A s : s # t => SameInKey(f, g, s)
      <3>1. \A x \in DOMAIN f \cap {k} : x[1] = t
        BY <1>2
      <3> QED BY <3>1, WithoutApart
    <2>7. DOMAIN g \subseteq DOMAIN f
      BY DEF Without
    <2> HIDE DEF g, left
    <2>8. \A z \in DOMAIN g : \E x \in DOMAIN mem.templates : x[1] = z[1] /\ x[2] = z[2]
      BY <1>1, <2>7 DEF TemplatesGood
    <2>9. MemOnly(n, {"archivedTemplates"}) /\ n.archivedTemplates = g
      BY <1>1 DEF MemOnly, M!Memory
    <2>10. PgOnly(db, {"template_archivals"}) /\ db.template_archivals = Inside(g)
      BY <1>1, <2>4 DEF PgOnly, P!Postgres
    <2> HIDE DEF n, db
    <2>11. Lockstep(n, db) /\ Apart(t, n)
      BY <2>5, <2>6, <2>8, <2>9, <2>10, ArchivalsOnly
    <2> QED BY <2>1, <2>2, <2>11, DoneAlike
  <1> QED BY <1>3, <1>4, <1>5
=============================================================================
