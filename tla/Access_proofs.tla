---------------------------- MODULE Access_proofs ----------------------------
(***************************************************************************)
(* Theorems about Access for every number of browsers, every lifetime of a *)
(* session and every budget of a limiter.                                  *)
(***************************************************************************)
EXTENDS Access, TLAPS

-----------------------------------------------------------------------------
(* Budgets *)

\* The budget's constants, and how they multiply: a bucket holds at least one attempt.
LEMMA BudgetConstants ==
    /\ Burst \in Nat \ {0} /\ Refill \in Nat \ {0} /\ IdleTTL \in Nat
    /\ Full \in Nat /\ Refill <= Full /\ Full <= IdleTTL
<1>1. Burst \in Nat \ {0} /\ Refill \in Nat \ {0} /\ IdleTTL \in Nat /\ Full <= IdleTTL
  BY LimiterAssumption DEF Full
<1>2. ASSUME NEW b \in Nat \ {0}, NEW r \in Nat \ {0} PROVE b * r \in Nat /\ r <= b * r
  <2>1. b - 1 \in Nat /\ b = (b - 1) + 1
    OBVIOUS
  <2>2. ASSUME NEW m \in Nat PROVE (m + 1) * r = m * r + r /\ m * r \in Nat
    OBVIOUS
  <2> QED BY <2>1, <2>2
<1> QED BY <1>1, <1>2 DEF Full

\* One attempt more costs one attempt's refill more.
LEMMA OneMore ==
    ASSUME NEW n \in Int
    PROVE  /\ Cost(n + 1) = Cost(n) + Refill
           /\ Cost(n - Burst) = Cost(n) - Full
           /\ Cost(n) \in Int
<1>1. ASSUME NEW r \in Nat, NEW b \in Nat PROVE (n + 1) * r = n * r + r /\ (n - b) * r = n * r - b * r /\ n * r \in Int
  OBVIOUS
<1> QED BY <1>1, BudgetConstants DEF Full, Cost

\* What a bucket lets through at t is between nothing and the burst.
LEMMA RefilledBounds ==
    ASSUME NEW b \in Bucket, NEW t \in Nat, b.last <= t
    PROVE  /\ Refilled(b, t) \in Bucket /\ Refilled(b, t).last = t
           /\ Refilled(b, t).left = (IF b.left + (t - b.last) <= Full THEN b.left + (t - b.last) ELSE Full)
           /\ b # NoBucket
BY BudgetConstants DEF Bucket, Refilled, Least, NoBucket

Sheet == now \in Nat /\ buckets \in [Sources -> Bucket \cup {NoBucket}] /\ spent \in [Sources -> Seq(Nat)]

\* What a bucket would let through is a number of units, the burst at most.
LEMMA LeftBounds ==
    ASSUME Sheet, Balance, NEW k \in Sources
    PROVE  Left(k) \in 0 .. Full
<1>1. CASE buckets[k] = NoBucket
  BY <1>1, BudgetConstants DEF Left
<1>2. CASE buckets[k] # NoBucket
  <2>1. buckets[k] \in Bucket /\ buckets[k].last <= now
    BY <1>2 DEF Sheet, Balance
  <2> QED BY <1>2, <2>1, RefilledBounds, BudgetConstants DEF Left, Bucket, Sheet
<1> QED BY <1>1, <1>2

\* An attempt costs a bucket what it holds for one, if it holds that much.
LEMMA ChargedBucket ==
    ASSUME Sheet, Balance, NEW k \in Sources
    PROVE  LET b == Charged(buckets[k], now) IN
           /\ b \in Bucket /\ b # NoBucket /\ b.last = now
           /\ Refilled(b, now).left = Left(k) - (IF MayTry(buckets[k], now) THEN Refill ELSE 0)
           /\ MayTry(buckets[k], now) <=> Left(k) >= Refill
<1> DEFINE b == Charged(buckets[k], now)
<1>1. CASE buckets[k] = NoBucket
  <2>1. b = [left |-> Full - Refill, last |-> now]
    BY <1>1 DEF Charged
  <2>2. b \in Bucket
    BY <2>1, BudgetConstants DEF Bucket, Sheet
  <2>3. b.last = now /\ b.left = Full - Refill
    BY <2>1
  <2> HIDE DEF b
  <2>4. Refilled(b, now).left = Full - Refill /\ b # NoBucket
    <3>1. now \in Nat /\ b.last <= now /\ b.left + (now - b.last) = Full - Refill /\ Full - Refill <= Full
      BY <2>3, BudgetConstants DEF Sheet
    <3>2. /\ Refilled(b, now).left = IF b.left + (now - b.last) <= Full THEN b.left + (now - b.last) ELSE Full
          /\ b # NoBucket
      BY <2>2, <3>1, RefilledBounds
    <3> QED BY <3>1, <3>2
  <2> QED BY <1>1, <2>2, <2>3, <2>4, BudgetConstants DEF Left, MayTry, b
<1>2. CASE buckets[k] # NoBucket
  <2> DEFINE r == Refilled(buckets[k], now)
  <2>1. buckets[k] \in Bucket /\ buckets[k].last <= now
    BY <1>2 DEF Sheet, Balance
  <2>2. r \in Bucket /\ r.last = now
    BY <2>1, RefilledBounds DEF Sheet
  <2>3. Left(k) = r.left /\ (MayTry(buckets[k], now) <=> r.left >= Refill)
    BY <1>2 DEF Left, MayTry
  <2>4. b = IF MayTry(buckets[k], now) THEN [r EXCEPT !.left = @ - Refill] ELSE r
    BY <1>2 DEF Charged
  <2> HIDE DEF r, b
  <2>5. b \in Bucket /\ b.last = now /\ b.left = r.left - (IF MayTry(buckets[k], now) THEN Refill ELSE 0)
    BY <2>2, <2>3, <2>4, BudgetConstants DEF Bucket
  <2>6. Refilled(b, now).left = b.left /\ b # NoBucket
    BY <2>5, RefilledBounds, BudgetConstants DEF Sheet, Bucket
  <2> QED BY <2>3, <2>5, <2>6 DEF b
<1> QED BY <1>1, <1>2

\* The buckets after an attempt: the one that is charged holds one attempt less, and whatever the sweep forgets was
\* full again.
LEMMA ChargeBuckets ==
    ASSUME Sheet, Balance, NEW key \in Sources, Charge(key), now' = now
    PROVE  /\ buckets' \in [Sources -> Bucket \cup {NoBucket}]
           /\ \A k \in Sources :
                 /\ buckets'[k] # NoBucket => buckets'[k].last <= now
                 /\ Left(k)' = Left(k) - (IF k = key /\ MayTry(buckets[key], now) THEN Refill ELSE 0)
<1> DEFINE charged == [buckets EXCEPT ![key] = Charged(@, now)]
<1>1. charged \in [Sources -> Bucket \cup {NoBucket}]
  BY ChargedBucket DEF Sheet
<1>2. ASSUME NEW k \in Sources
      PROVE  /\ charged[k] # NoBucket => charged[k].last <= now
             /\ (IF charged[k] = NoBucket THEN Full ELSE Refilled(charged[k], now).left)
                   = Left(k) - (IF k = key /\ MayTry(buckets[key], now) THEN Refill ELSE 0)
  <2>1. CASE k = key
    BY <2>1, ChargedBucket, BudgetConstants DEF Sheet
  <2>2. CASE k # key
    <3>1. charged[k] = buckets[k]
      BY <2>2 DEF Sheet
    <3>2. Left(k) \in 0 .. Full
      BY LeftBounds
    <3> QED BY <2>2, <3>1, <3>2, BudgetConstants DEF Left, Balance
  <2> QED BY <2>1, <2>2
<1>3. /\ \A k \in Sources : \/ buckets'[k] = charged[k]
                            \/ buckets'[k] = NoBucket /\ now - charged[k].last > IdleTTL
      /\ DOMAIN buckets' = Sources /\ buckets' = [k \in Sources |-> buckets'[k]]
  <2>1. buckets' = charged \/ buckets' = Sweep(charged, now)
    BY DEF Charge, Allow
  <2>2. DOMAIN charged = Sources
    BY <1>1
  <2> QED BY <1>1, <2>1, <2>2 DEF Sweep
<1> HIDE DEF charged
<1>4. buckets' \in [Sources -> Bucket \cup {NoBucket}]
  BY <1>1, <1>3
<1>5. ASSUME NEW k \in Sources
      PROVE  /\ buckets'[k] # NoBucket => buckets'[k].last <= now
             /\ Left(k)' = (IF charged[k] = NoBucket THEN Full ELSE Refilled(charged[k], now).left)
  <2>1. CASE buckets'[k] = charged[k]
    BY <1>2, <2>1 DEF Left
  <2>2. CASE buckets'[k] = NoBucket /\ now - charged[k].last > IdleTTL
    <3>1. CASE charged[k] = NoBucket
      BY <2>2, <3>1 DEF Left
    <3>2. CASE charged[k] # NoBucket
      <4>1. charged[k] \in Bucket /\ charged[k].last <= now
        BY <1>1, <1>2, <3>2
      <4>2. Refilled(charged[k], now).left = Full
        BY <4>1, <2>2, RefilledBounds, BudgetConstants DEF Sheet, Bucket
      <4> QED BY <2>2, <3>2, <4>2 DEF Left
    <3> QED BY <3>1, <3>2
  <2> QED BY <1>3, <2>1, <2>2
<1> QED BY <1>2, <1>4, <1>5

BudgetInv == Sheet /\ Balance /\ WithinBudget

\* What is left of the budget of every stretch that ends now, before and after an attempt at t.
LEMMA AttemptWithinBudget ==
    ASSUME BudgetInv, NEW key \in Sources, Charge(key), now' = now
    PROVE  BudgetInv'
<1>1. /\ buckets' \in [Sources -> Bucket \cup {NoBucket}]
      /\ \A k \in Sources :
            /\ buckets'[k] # NoBucket => buckets'[k].last <= now
            /\ Left(k)' = Left(k) - (IF k = key /\ MayTry(buckets[key], now) THEN Refill ELSE 0)
  BY ChargeBuckets DEF BudgetInv
<1>2. \A k \in Sources : spent[k] \in Seq(Nat) /\ Left(k) \in 0 .. Full
  BY LeftBounds DEF BudgetInv, Sheet
<1>3. spent' = IF MayTry(buckets[key], now) THEN [spent EXCEPT ![key] = Append(@, now)] ELSE spent
  BY DEF Charge
<1>4. ASSUME NEW k \in Sources
      PROVE  /\ spent'[k] \in Seq(Nat)
             /\ \A i \in DOMAIN spent'[k] :
                   /\ spent'[k][i] <= now
                   /\ Cost(Len(spent'[k]) - i + 1) + Left(k)' <= Full + (now - spent'[k][i])
             /\ \A i, j \in DOMAIN spent'[k] :
                   i <= j => Cost(j - i + 1 - Burst) <= spent'[k][j] - spent'[k][i]
  <2> DEFINE n == Len(spent[k])
  <2>0. /\ n \in Nat /\ now \in Nat /\ DOMAIN spent[k] = 1 .. n
        /\ \A i \in 1 .. n : spent[k][i] \in Nat
    BY <1>2 DEF BudgetInv, Sheet
  <2>1. \A i \in 1 .. n : /\ spent[k][i] <= now
                          /\ Cost(n - i + 1) + Left(k) <= Full + (now - spent[k][i])
    BY <2>0 DEF BudgetInv, Balance
  <2>2. \A i, j \in 1 .. n : i <= j => Cost(j - i + 1 - Burst) <= spent[k][j] - spent[k][i]
    BY <2>0 DEF BudgetInv, WithinBudget
  <2>3. CASE ~(k = key /\ MayTry(buckets[key], now))
    <3>1. spent'[k] = spent[k] /\ Left(k)' = Left(k)
      BY <1>1, <1>2, <1>3, <2>3 DEF BudgetInv, Sheet
    <3> QED BY <1>2, <2>0, <2>1, <2>2, <3>1
  <2>4. CASE k = key /\ MayTry(buckets[key], now)
    <3>1. spent'[k] = Append(spent[k], now) /\ Left(k)' = Left(k) - Refill /\ Left(k) >= Refill
      BY <1>1, <1>3, <2>4, ChargedBucket DEF BudgetInv, Sheet
    <3>2. /\ spent'[k] \in Seq(Nat) /\ Len(spent'[k]) = n + 1 /\ DOMAIN spent'[k] = 1 .. n + 1
          /\ spent'[k][n + 1] = now /\ \A i \in 1 .. n : spent'[k][i] = spent[k][i]
      BY <1>2, <2>0, <3>1
    <3> HIDE DEF n
    <3>3. Left(k) \in 0 .. Full /\ Full \in Nat /\ Refill \in Nat
      BY <1>2, BudgetConstants
    <3>4. ASSUME NEW i \in 1 .. n + 1
          PROVE  /\ spent'[k][i] <= now
                 /\ Cost(n + 1 - i + 1) + Left(k)' <= Full + (now - spent'[k][i])
                 /\ Cost(n + 1 - i + 1 - Burst) <= now - spent'[k][i]
      <4>1. CASE i \in 1 .. n
        <5>1. n - i + 1 \in Int /\ n + 1 - i + 1 = (n - i + 1) + 1 /\ n + 1 - i + 1 \in Int
          BY <2>0, <4>1
        <5>2. /\ Cost(n + 1 - i + 1) = Cost(n - i + 1) + Refill
              /\ Cost(n + 1 - i + 1 - Burst) = Cost(n + 1 - i + 1) - Full
              /\ Cost(n - i + 1) \in Int
          <6> DEFINE m == n - i + 1
                     q == n + 1 - i + 1
          <6>1. m \in Int /\ q \in Int /\ q = m + 1
            BY <5>1
          <6> HIDE DEF m, q
          <6>2. Cost(m + 1) = Cost(m) + Refill /\ Cost(m) \in Int /\ Cost(q - Burst) = Cost(q) - Full
            BY <6>1, OneMore
          <6>3. Cost(q) = Cost(m) + Refill
            BY <6>1, <6>2
          <6> QED BY <2>0, <6>2, <6>3, BudgetConstants DEF m, q
        <5>3. /\ spent[k][i] <= now /\ spent[k][i] \in Nat
              /\ Cost(n - i + 1) + Left(k) <= Full + (now - spent[k][i])
          BY <2>0, <2>1, <4>1
        <5>4. spent'[k][i] = spent[k][i]
          BY <3>2, <4>1
        <5>5. now - spent[k][i] \in Int /\ now \in Nat
          BY <2>0, <5>3
        <5> DEFINE more == Cost(n + 1 - i + 1)
                   less == Cost(n - i + 1)
                   past == Cost(n + 1 - i + 1 - Burst)
                   since == now - spent[k][i]
        <5>6. /\ more = less + Refill /\ past = more - Full /\ less \in Int /\ since \in Int
              /\ less + Left(k) <= Full + since
          BY <5>2, <5>3, <5>5
        <5> HIDE DEF more, less, past, since
        <5>7. more + (Left(k) - Refill) <= Full + since /\ past <= since
          BY <3>1, <3>3, <5>6
        <5> QED BY <3>1, <5>3, <5>4, <5>7 DEF more, past, since
      <4>2. CASE i = n + 1
        <5>1. n + 1 - i + 1 = 0 + 1
          BY <2>0, <4>2
        <5>2. /\ Cost(0 + 1) = Cost(0) + Refill /\ Cost(0) = 0
              /\ Cost(0 + 1 - Burst) = Cost(0 + 1) - Full
          BY OneMore, BudgetConstants DEF Cost
        <5>3. Refill <= Full
          BY BudgetConstants
        <5> QED BY <2>0, <3>1, <3>2, <3>3, <4>2, <5>1, <5>2, <5>3
      <4> QED BY <2>0, <4>1, <4>2
    <3>5. ASSUME NEW i \in 1 .. n + 1, NEW j \in 1 .. n + 1, i <= j
          PROVE  Cost(j - i + 1 - Burst) <= spent'[k][j] - spent'[k][i]
      <4>1. CASE j = n + 1
        <5>1. Cost(n + 1 - i + 1 - Burst) <= now - spent'[k][i]
          BY <3>4
        <5> QED BY <2>0, <3>2, <4>1, <5>1
      <4>2. CASE j # n + 1
        <5>1. i \in 1 .. n /\ j \in 1 .. n
          BY <2>0, <3>5, <4>2
        <5> QED BY <2>2, <3>2, <3>5, <5>1
      <4> QED BY <4>1, <4>2
    <3>6. \A i \in 1 .. n + 1 :
             /\ spent'[k][i] <= now
             /\ Cost(n + 1 - i + 1) + Left(k)' <= Full + (now - spent'[k][i])
      BY <3>4
    <3>7. \A i, j \in 1 .. n + 1 : i <= j => Cost(j - i + 1 - Burst) <= spent'[k][j] - spent'[k][i]
      BY <3>5
    <3> DEFINE last == Len(spent'[k])
    <3>8. last = n + 1 /\ DOMAIN spent'[k] = 1 .. n + 1
      BY <3>2
    <3> HIDE DEF last
    <3>9. \A i \in DOMAIN spent'[k] :
             /\ spent'[k][i] <= now
             /\ Cost(last - i + 1) + Left(k)' <= Full + (now - spent'[k][i])
      BY <2>0, <3>6, <3>8
    <3> QED BY <3>2, <3>7, <3>9 DEF last
  <2> QED BY <2>3, <2>4
<1>5. spent' \in [Sources -> Seq(Nat)]
  BY <1>2, <1>3, <1>4 DEF BudgetInv, Sheet
<1> QED BY <1>1, <1>4, <1>5 DEF BudgetInv, Sheet, Balance, WithinBudget

\* A tick gives a bucket a unit at most.
LEMMA TickWithinBudget ==
    ASSUME BudgetInv, now' = now + 1, UNCHANGED <<buckets, spent>>
    PROVE  BudgetInv'
<1>1. Sheet' /\ now \in Nat /\ now' = now + 1
  BY DEF BudgetInv, Sheet
<1>2. ASSUME NEW k \in Sources
      PROVE  Left(k) \in Nat /\ Left(k)' \in Nat /\ Left(k)' <= Left(k) + 1
  <2>1. CASE buckets[k] = NoBucket
    BY <2>1, BudgetConstants DEF Left
  <2>2. CASE buckets[k] # NoBucket
    <3>1. buckets[k] \in Bucket /\ buckets[k].last <= now
      BY <2>2 DEF BudgetInv, Sheet, Balance
    <3>2. Left(k) = Refilled(buckets[k], now).left /\ Left(k)' = Refilled(buckets[k], now + 1).left
      BY <2>2 DEF Left
    <3>3. buckets[k].left \in 0 .. Full /\ buckets[k].last \in Nat /\ buckets[k].last <= now + 1 /\ now + 1 \in Nat
      BY <1>1, <3>1 DEF Bucket
    <3>4. /\ Left(k) = IF buckets[k].left + (now - buckets[k].last) <= Full
                       THEN buckets[k].left + (now - buckets[k].last) ELSE Full
          /\ Left(k)' = IF buckets[k].left + (now + 1 - buckets[k].last) <= Full
                        THEN buckets[k].left + (now + 1 - buckets[k].last) ELSE Full
      BY <1>1, <3>1, <3>2, <3>3, RefilledBounds
    <3> QED BY <1>1, <3>1, <3>3, <3>4, BudgetConstants
  <2> QED BY <2>1, <2>2
<1>3. WithinBudget'
  BY DEF BudgetInv, WithinBudget
<1>4. ASSUME NEW k \in Sources, NEW i \in DOMAIN spent[k]
      PROVE  /\ spent[k][i] <= now'
             /\ Cost(Len(spent[k]) - i + 1) + Left(k)' <= Full + (now' - spent[k][i])
  <2>1. /\ spent[k][i] <= now /\ spent[k][i] \in Nat
        /\ Cost(Len(spent[k]) - i + 1) + Left(k) <= Full + (now - spent[k][i])
        /\ i \in Int /\ Len(spent[k]) \in Nat
    BY DEF BudgetInv, Sheet, Balance
  <2>2. Cost(Len(spent[k]) - i + 1) \in Int
    <3> DEFINE m == Len(spent[k]) - i + 1
    <3>1. m \in Int
      BY <2>1
    <3> HIDE DEF m
    <3>2. Cost(m) \in Int
      BY <3>1, OneMore
    <3> QED BY <3>2 DEF m
  <2>3. Left(k) \in Nat /\ Left(k)' \in Nat /\ Left(k)' <= Left(k) + 1
    BY <1>2
  <2> DEFINE less == Cost(Len(spent[k]) - i + 1)
             then == spent[k][i]
  <2>4. less \in Int /\ then \in Nat /\ then <= now /\ less + Left(k) <= Full + (now - then)
    BY <2>1, <2>2
  <2> HIDE DEF less, then
  <2>5. then <= now' /\ less + Left(k)' <= Full + (now' - then)
    BY <1>1, <2>3, <2>4, BudgetConstants
  <2> QED BY <2>5 DEF less, then
<1>5. ASSUME NEW k \in Sources, buckets[k] # NoBucket PROVE buckets[k].last <= now'
  <2>1. buckets[k] \in Bucket /\ buckets[k].last <= now
    BY <1>5 DEF BudgetInv, Sheet, Balance
  <2> QED BY <1>1, <2>1 DEF Bucket
<1>6. Balance'
  BY <1>4, <1>5 DEF Balance
<1> QED BY <1>1, <1>3, <1>6 DEF BudgetInv

\* Whatever has nothing to do with the limiters leaves the budgets as they are.
LEMMA BudgetStutters ==
    ASSUME BudgetInv, UNCHANGED <<now, buckets, spent>>
    PROVE  BudgetInv'
BY DEF BudgetInv, Sheet, Balance, WithinBudget, Left

-----------------------------------------------------------------------------
(* Rows *)

\* The parameters of the model: clients are told apart, windows are numbers.
LEMMA Parameters ==
    /\ Ttl \in Nat \ {0} /\ MaxAge \in Nat \ {0} /\ RenewAfter \in Nat \ {0} /\ ShareLife \in Nat \ {0}
    /\ RenewAfter <= Ttl /\ Ttl <= MaxAge
    /\ Script \notin Browsers /\ Screen \notin Browsers /\ Script # Screen
    /\ Clients = Browsers \cup {Script, Screen}
    /\ Sessions \subseteq Nat /\ Tokens \subseteq Nat
<1>1. Script # Screen /\ Clients = Browsers \cup {Script, Screen}
  BY DEF Script, Screen, Clients
<1>2. Sessions \subseteq Nat /\ Tokens \subseteq Nat
  BY AccessAssumption DEF Sessions, Tokens
<1> QED BY <1>1, <1>2, AccessAssumption

RowTypes ==
    /\ now \in Nat
    /\ account \in [row : {"live", "gone"}, word : Words, cost : {"past", "present"}]
    /\ sessions \in [Sessions -> Session] /\ tokens \in [Tokens -> Token]
    /\ share \in [row : Rows, locked : BOOLEAN, expiresAt : Nat]
    /\ gone \subseteq {"session", "token", "share"} \X (Sessions \cup Tokens)

\* What is true of the rows alone, whoever has a request in flight.
RowsInv ==
    /\ RowTypes
    /\ GoneForGood /\ UseIsRecorded /\ RemovalLeavesNothing
    /\ \A t \in Tokens : tokens[t].row = "none" \/ tokens[t].by \in Browsers

\* What a request in flight may count on in a step between two ticks: no row it names disappears, none that has gone
\* comes back, and whether a session has lapsed does not change.
RowsMove ==
    /\ now' = now
    /\ gone \subseteq gone'
    /\ \A s \in Sessions : sessions[s].row # "none" =>
          /\ sessions'[s].row # "none" /\ sessions'[s].createdAt = sessions[s].createdAt
          /\ Lapsed(sessions'[s]) <=> Lapsed(sessions[s])
    /\ \A t \in Tokens : tokens[t].row # "none" => tokens'[t].row # "none"
    /\ share.row # "none" => share'.row # "none" /\ (ShareLive' => ShareLive)

\* A write of one column of a session leaves it a session, with the other columns as they were.
LEMMA SessionColumns ==
    ASSUME NEW r \in Session
    PROVE  r.createdAt \in Nat /\ r.expiresAt \in Nat /\ r.used \in Nat /\ Recorded(r) \in Nat
BY DEF Session, Recorded, None

LEMMA SessionEnds ==
    ASSUME NEW r \in Session, NEW w, w = [r EXCEPT !.row = "gone"]
    PROVE  /\ w \in Session /\ w.row = "gone"
           /\ w.createdAt = r.createdAt /\ w.expiresAt = r.expiresAt
BY DEF Session, Rows

LEMMA SessionUsed ==
    ASSUME NEW r \in Session, NEW n \in Nat, NEW w, w = [r EXCEPT !.used = n]
    PROVE  /\ w \in Session /\ w.row = r.row /\ w.used = n
           /\ w.createdAt = r.createdAt /\ w.expiresAt = r.expiresAt /\ w.lastUsed = r.lastUsed
BY DEF Session

\* One session's share of the invariants about its use and of what a step may do to it.
UseRecorded(row) ==
    row.row = "live" =>
        /\ row.expiresAt = Least(Recorded(row) + Ttl, row.createdAt + MaxAge)
        /\ Recorded(row) <= row.used /\ row.used <= now /\ row.used - Recorded(row) < RenewAfter

\* Steps that leave the rows alone.
LEMMA RowsStay ==
    ASSUME RowsInv, UNCHANGED <<now, sessions, tokens, share, gone>>, account'.row = account.row,
           account' \in [row : {"live", "gone"}, word : Words, cost : {"past", "present"}]
    PROVE  RowsInv' /\ RowsMove
<1>1. RowTypes' /\ GoneForGood' /\ UseIsRecorded' /\ RemovalLeavesNothing'
      /\ \A t \in Tokens : tokens'[t].row = "none" \/ tokens'[t].by \in Browsers
  BY DEF RowsInv, RowTypes, GoneForGood, UseIsRecorded, RemovalLeavesNothing
<1>2. RowsMove
  BY DEF RowsMove, ShareLive
<1> QED BY <1>1, <1>2 DEF RowsInv

\* Steps that write sessions, one row at a time.
LEMMA SessionsMove ==
    ASSUME RowsInv, UNCHANGED <<now, account, tokens, share>>,
           sessions' \in [Sessions -> Session],
           NEW ended \in SUBSET Sessions, gone' = gone \cup {<<"session", s>> : s \in ended},
           \A s \in Sessions :
              /\ sessions'[s].row = "gone" <=> s \in ended \/ sessions[s].row = "gone"
              /\ sessions'[s].row = "live" => sessions[s].row = "live" \/ account.row = "live"
              /\ sessions[s].row # "none" =>
                    /\ sessions'[s].row # "none" /\ sessions'[s].createdAt = sessions[s].createdAt
                    /\ Lapsed(sessions'[s]) <=> Lapsed(sessions[s])
              /\ UseRecorded(sessions'[s])
    PROVE  RowsInv' /\ RowsMove
<1>1. RowTypes'
  <2>1. gone' \subseteq {"session", "token", "share"} \X (Sessions \cup Tokens)
    BY DEF RowsInv, RowTypes
  <2> QED BY <2>1 DEF RowsInv, RowTypes
<1>2. GoneForGood'
  <2>1. \A s \in Sessions : <<"session", s>> \in gone' <=> s \in ended \/ <<"session", s>> \in gone
    OBVIOUS
  <2>2. \A t : <<"token", t>> \in gone' <=> <<"token", t>> \in gone
    OBVIOUS
  <2>3. <<"share", 0>> \in gone' <=> <<"share", 0>> \in gone
    OBVIOUS
  <2> QED BY <2>1, <2>2, <2>3 DEF RowsInv, GoneForGood
<1>3. UseIsRecorded'
  BY DEF UseIsRecorded, UseRecorded, Live, Recorded
<1>4. RemovalLeavesNothing'
  <2> SUFFICES ASSUME account.row = "gone" PROVE Live(sessions') = {} /\ Live(tokens) = {}
    BY DEF RemovalLeavesNothing, Live
  <2>1. Live(sessions) = {} /\ Live(tokens) = {}
    BY DEF RowsInv, RemovalLeavesNothing
  <2>2. \A s \in Sessions : sessions[s].row # "live"
    BY <2>1 DEF Live, RowsInv, RowTypes
  <2>3. \A s \in Sessions : sessions'[s].row # "live"
    BY <2>2
  <2> QED BY <2>1, <2>3 DEF Live
<1>5. RowsMove
  BY DEF RowsMove, ShareLive
<1> QED BY <1>1, <1>2, <1>3, <1>4, <1>5 DEF RowsInv

\* Steps that write tokens.
LEMMA TokensMove ==
    ASSUME RowsInv, UNCHANGED <<now, account, sessions, share>>,
           tokens' \in [Tokens -> Token],
           NEW ended \in SUBSET Tokens, gone' = gone \cup {<<"token", t>> : t \in ended},
           \A t \in Tokens :
              /\ tokens'[t].row = "gone" <=> t \in ended \/ tokens[t].row = "gone"
              /\ tokens'[t].row = "live" => tokens[t].row = "live" \/ account.row = "live"
              /\ tokens[t].row # "none" => tokens'[t].row # "none"
              /\ tokens'[t].row = "none" \/ tokens'[t].by \in Browsers
    PROVE  RowsInv' /\ RowsMove
<1>1. RowTypes'
  <2>1. gone' \subseteq {"session", "token", "share"} \X (Sessions \cup Tokens)
    BY DEF RowsInv, RowTypes
  <2> QED BY <2>1 DEF RowsInv, RowTypes
<1>2. GoneForGood'
  <2>1. \A t \in Tokens : <<"token", t>> \in gone' <=> t \in ended \/ <<"token", t>> \in gone
    OBVIOUS
  <2>2. \A s : <<"session", s>> \in gone' <=> <<"session", s>> \in gone
    OBVIOUS
  <2>3. <<"share", 0>> \in gone' <=> <<"share", 0>> \in gone
    OBVIOUS
  <2> QED BY <2>1, <2>2, <2>3 DEF RowsInv, GoneForGood
<1>3. UseIsRecorded'
  BY DEF RowsInv, UseIsRecorded
<1>4. RemovalLeavesNothing'
  <2> SUFFICES ASSUME account.row = "gone" PROVE Live(sessions) = {} /\ Live(tokens') = {}
    BY DEF RemovalLeavesNothing, Live
  <2>1. Live(sessions) = {} /\ Live(tokens) = {}
    BY DEF RowsInv, RemovalLeavesNothing
  <2>2. \A t \in Tokens : tokens[t].row # "live"
    BY <2>1 DEF Live, RowsInv, RowTypes
  <2>3. \A t \in Tokens : tokens'[t].row # "live"
    BY <2>2
  <2> QED BY <2>1, <2>3 DEF Live
<1>5. RowsMove
  BY DEF RowsMove, ShareLive
<1> QED BY <1>1, <1>2, <1>3, <1>4, <1>5 DEF RowsInv

\* Every session that is live ends, and only those.
LEMMA EndedSessions ==
    ASSUME RowsInv
    PROVE  /\ Ended(sessions) \in [Sessions -> Session] /\ Live(sessions) \in SUBSET Sessions
           /\ \A s \in Sessions :
                 /\ Ended(sessions)[s].row = "gone" <=> s \in Live(sessions) \/ sessions[s].row = "gone"
                 /\ Ended(sessions)[s].row # "live"
                 /\ sessions[s].row # "none" => Ended(sessions)[s].row # "none"
                 /\ Ended(sessions)[s].createdAt = sessions[s].createdAt
                 /\ Ended(sessions)[s].expiresAt = sessions[s].expiresAt
<1>1. sessions \in [Sessions -> Session]
  BY DEF RowsInv, RowTypes
<1>2. ASSUME NEW s \in Sessions
      PROVE  /\ Ended(sessions)[s] = IF sessions[s].row = "live" THEN [sessions[s] EXCEPT !.row = "gone"] ELSE sessions[s]
             /\ sessions[s] \in Session
  BY <1>1 DEF Ended
<1>3. DOMAIN Ended(sessions) = Sessions /\ Ended(sessions) = [s \in Sessions |-> Ended(sessions)[s]]
  BY <1>1 DEF Ended
<1>4. ASSUME NEW s \in Sessions PROVE Ended(sessions)[s] \in Session
  BY <1>2, SessionEnds
<1>5. Live(sessions) \in SUBSET Sessions /\ \A s \in Sessions : s \in Live(sessions) <=> sessions[s].row = "live"
  BY <1>1 DEF Live
<1>6. ASSUME NEW s \in Sessions
      PROVE  /\ Ended(sessions)[s].row = "gone" <=> s \in Live(sessions) \/ sessions[s].row = "gone"
             /\ Ended(sessions)[s].row # "live"
             /\ sessions[s].row # "none" => Ended(sessions)[s].row # "none"
             /\ Ended(sessions)[s].createdAt = sessions[s].createdAt
             /\ Ended(sessions)[s].expiresAt = sessions[s].expiresAt
  <2>1. CASE sessions[s].row = "live"
    <3>1. Ended(sessions)[s] = [sessions[s] EXCEPT !.row = "gone"] /\ sessions[s] \in Session
      BY <1>2, <2>1
    <3>2. /\ Ended(sessions)[s].row = "gone"
          /\ Ended(sessions)[s].createdAt = sessions[s].createdAt
          /\ Ended(sessions)[s].expiresAt = sessions[s].expiresAt
      BY <3>1, SessionEnds
    <3> QED BY <1>5, <2>1, <3>2
  <2>2. CASE sessions[s].row # "live"
    BY <1>2, <1>5, <2>2
  <2> QED BY <2>1, <2>2
<1> QED BY <1>3, <1>4, <1>5, <1>6

\* CreateSession adds a row that was not there and clears the expired ones.
LEMMA CreateSessionRows ==
    ASSUME RowsInv, NEW c \in Clients, CreateSession(c)
    PROVE  RowsInv' /\ RowsMove
<1>1. CASE ~AccountThere
  <2>1. UNCHANGED <<now, account, sessions, tokens, share, gone>>
    BY <1>1 DEF CreateSession, Outside
  <2>2. account' \in [row : {"live", "gone"}, word : Words, cost : {"past", "present"}] /\ account'.row = account.row
    BY <2>1 DEF RowsInv, RowTypes
  <2> QED BY <2>1, <2>2, RowsStay
<1>2. CASE AccountThere
  <2> DEFINE new == [row |-> "live", createdAt |-> now, lastUsed |-> None, expiresAt |-> now + Ttl, used |-> now]
             fresh == Fresh(sessions)
  <2>1. /\ Some(sessions)
        /\ sessions' = [s \in Sessions |-> IF s = fresh THEN new
                                           ELSE IF s \in Swept THEN [sessions[s] EXCEPT !.row = "gone"]
                                           ELSE sessions[s]]
        /\ gone' = gone \cup {<<"session", s>> : s \in Swept}
        /\ UNCHANGED <<now, account, tokens, share>>
    BY <1>2 DEF CreateSession, Outside
  <2>2. sessions \in [Sessions -> Session] /\ now \in Nat
    BY DEF RowsInv, RowTypes
  <2>3. fresh \in Sessions /\ sessions[fresh].row = "none"
    BY <2>1, <2>2 DEF Some, Fresh
  <2>4. Swept \in SUBSET Sessions /\ \A s \in Swept : sessions[s].row = "live"
    BY <2>2 DEF Swept, Live
  <2>5. /\ new \in Session /\ new.row = "live" /\ UseRecorded(new)
    <3>2. new.row = "live" /\ new.createdAt = now /\ new.lastUsed = None /\ new.expiresAt = now + Ttl /\ new.used = now
      OBVIOUS
    <3>3. new \in Session
      BY <2>2, Parameters DEF Session, Rows
    <3> HIDE DEF new
    <3>4. Least(now + Ttl, now + MaxAge) = now + Ttl /\ now - now < RenewAfter
      BY <2>2, Parameters DEF Least
    <3> QED BY <2>2, <3>2, <3>3, <3>4 DEF UseRecorded, Recorded
  <2> HIDE DEF new, fresh
  <2>6. ASSUME NEW s \in Sessions
        PROVE  /\ sessions'[s] \in Session
               /\ sessions'[s].row = "gone" <=> s \in Swept \/ sessions[s].row = "gone"
               /\ sessions'[s].row = "live" => sessions[s].row = "live" \/ account.row = "live"
               /\ sessions[s].row # "none" =>
                     /\ sessions'[s].row # "none" /\ sessions'[s].createdAt = sessions[s].createdAt
                     /\ Lapsed(sessions'[s]) <=> Lapsed(sessions[s])
               /\ UseRecorded(sessions'[s])
    <3>0. sessions[s] \in Session
      BY <2>2
    <3>1. CASE s = fresh
      <4>1. sessions'[s] = new
        BY <2>1, <3>1
      <4> QED BY <1>2, <2>3, <2>4, <2>5, <3>1, <4>1 DEF AccountThere
    <3>2. CASE s # fresh /\ s \in Swept
      <4>1. sessions'[s] = [sessions[s] EXCEPT !.row = "gone"]
        BY <2>1, <3>2
      <4>2. /\ sessions'[s] \in Session /\ sessions'[s].row = "gone"
            /\ sessions'[s].createdAt = sessions[s].createdAt /\ sessions'[s].expiresAt = sessions[s].expiresAt
        BY <3>0, <4>1, SessionEnds
      <4> QED BY <3>2, <4>2 DEF UseRecorded, Lapsed
    <3>3. CASE s # fresh /\ s \notin Swept
      <4>1. sessions'[s] = sessions[s]
        BY <2>1, <3>3
      <4>2. UseRecorded(sessions[s])
        BY <2>2 DEF RowsInv, UseIsRecorded, UseRecorded, Live
      <4> QED BY <3>0, <3>3, <4>1, <4>2
    <3> QED BY <3>1, <3>2, <3>3
  <2>7. sessions' \in [Sessions -> Session]
    BY <2>1, <2>6
  <2> QED BY <2>1, <2>4, <2>6, <2>7, SessionsMove
<1> QED BY <1>1, <1>2

\* The sessions that are live have their use recorded; so have the others, there being nothing to record.
LEMMA EachUseRecorded ==
    ASSUME RowsInv, NEW s \in Sessions
    PROVE  UseRecorded(sessions[s]) /\ sessions[s] \in Session
BY DEF RowsInv, RowTypes, UseIsRecorded, UseRecorded, Live, Recorded

\* Steps that write one session and end none.
LEMMA OneSessionMoves ==
    ASSUME RowsInv, UNCHANGED <<now, account, tokens, share, gone>>,
           NEW i \in Sessions, NEW w, sessions' = [sessions EXCEPT ![i] = w],
           /\ w \in Session /\ w.row = sessions[i].row /\ w.createdAt = sessions[i].createdAt
           /\ Lapsed(w) <=> Lapsed(sessions[i])
           /\ UseRecorded(w)
    PROVE  RowsInv' /\ RowsMove
<1>1. sessions \in [Sessions -> Session]
  BY DEF RowsInv, RowTypes
<1>2. sessions' \in [Sessions -> Session] /\ \A s \in Sessions : sessions'[s] = IF s = i THEN w ELSE sessions[s]
  BY <1>1
<1>3. {} \in SUBSET Sessions /\ gone' = gone \cup {<<"session", s>> : s \in {}}
  OBVIOUS
<1>4. ASSUME NEW s \in Sessions
      PROVE  /\ sessions'[s].row = "gone" <=> s \in {} \/ sessions[s].row = "gone"
             /\ sessions'[s].row = "live" => sessions[s].row = "live" \/ account.row = "live"
             /\ sessions[s].row # "none" =>
                   /\ sessions'[s].row # "none" /\ sessions'[s].createdAt = sessions[s].createdAt
                   /\ Lapsed(sessions'[s]) <=> Lapsed(sessions[s])
             /\ UseRecorded(sessions'[s])
  <2>1. CASE s = i
    BY <1>2, <2>1
  <2>2. CASE s # i
    BY <1>2, <2>2, EachUseRecorded
  <2> QED BY <2>1, <2>2
<1> QED BY <1>2, <1>3, <1>4, SessionsMove

\* Authenticate records a use of a session it lets in, where the row needs no extending.
LEMMA AuthenticateRows ==
    ASSUME RowsInv, NEW c \in Clients, Authenticate(c), c \in Browsers => NamesSession(calls[c].cred), c # Screen
    PROVE  RowsInv' /\ RowsMove
<1> DEFINE i == calls[c].cred
           w == [sessions[i] EXCEPT !.used = now]
<1>0. UNCHANGED <<now, account, tokens, share, gone>>
  BY DEF Authenticate, Outside
<1>1. CASE sessions' = sessions
  <2>1. account' \in [row : {"live", "gone"}, word : Words, cost : {"past", "present"}] /\ account'.row = account.row
    BY <1>0 DEF RowsInv, RowTypes
  <2> QED BY <1>0, <1>1, <2>1, RowsStay
<1>2. CASE sessions' # sessions
  <2>1. /\ c \in Browsers /\ sessions' = [sessions EXCEPT ![i].used = now]
        /\ sessions[i].row = "live" /\ ~Due(sessions[i])
    BY <1>2, Parameters DEF Authenticate
  <2>2. i \in Sessions /\ sessions[i] \in Session /\ now \in Nat /\ UseRecorded(sessions[i])
    BY <2>1, EachUseRecorded DEF NamesSession, RowsInv, RowTypes
  <2>3. sessions' = [sessions EXCEPT ![i] = w]
    BY <2>1
  <2>4. /\ w \in Session /\ w.row = sessions[i].row /\ w.used = now
        /\ w.createdAt = sessions[i].createdAt /\ w.expiresAt = sessions[i].expiresAt
        /\ w.lastUsed = sessions[i].lastUsed
    BY <2>2, SessionUsed
  <2> HIDE DEF w
  <2>5. Recorded(w) = Recorded(sessions[i]) /\ Recorded(w) \in Nat
    BY <2>2, <2>4, SessionColumns DEF Recorded
  <2>6. now - Recorded(w) < RenewAfter
    BY <2>1, <2>2, <2>5, Parameters DEF Due, Recorded
  <2>7. Recorded(w) <= now
    BY <2>1, <2>2, <2>5, SessionColumns DEF UseRecorded
  <2>8. UseRecorded(w) /\ (Lapsed(w) <=> Lapsed(sessions[i]))
    BY <2>1, <2>2, <2>4, <2>5, <2>6, <2>7 DEF UseRecorded, Lapsed
  <2> QED BY <1>0, <2>2, <2>3, <2>4, <2>8, OneSessionMoves
<1> QED BY <1>1, <1>2

\* TouchSession extends a session that is still there and has not lapsed.
LEMMA TouchRows ==
    ASSUME RowsInv, NEW c \in Clients, Touch(c), calls[c] \in Call, NamesSession(calls[c].cred),
           ~Lapsed(sessions[calls[c].cred]), calls[c].seen.createdAt = sessions[calls[c].cred].createdAt
    PROVE  RowsInv' /\ RowsMove
<1> DEFINE i == calls[c].cred
           seen == calls[c].seen
           w == TouchSession(sessions[i], seen)
<1>0. UNCHANGED <<now, account, tokens, share, gone>>
  BY DEF Touch, Outside
<1>1. CASE sessions' = sessions
  <2>1. account' \in [row : {"live", "gone"}, word : Words, cost : {"past", "present"}] /\ account'.row = account.row
    BY <1>0 DEF RowsInv, RowTypes
  <2> QED BY <1>0, <1>1, <2>1, RowsStay
<1>2. CASE sessions' # sessions
  <2>1. sessions' = [sessions EXCEPT ![i] = w]
    BY <1>2 DEF Touch
  <2>2. i \in Sessions /\ sessions[i] \in Session /\ now \in Nat /\ seen \in Session /\ UseRecorded(sessions[i])
    BY EachUseRecorded DEF NamesSession, RowsInv, RowTypes, Call
  <2>3. CASE sessions[i].row # "live"
    <3>1. w = sessions[i]
      BY <2>3 DEF TouchSession
    <3>2. sessions' = sessions
      BY <2>1, <2>2, <3>1 DEF RowsInv, RowTypes
    <3> QED BY <1>2, <3>2
  <2>4. CASE sessions[i].row = "live"
    <3>1. w = [sessions[i] EXCEPT !.expiresAt = Extended(seen), !.lastUsed = now, !.used = now]
      BY <2>4 DEF TouchSession
    <3>2. /\ sessions[i].createdAt \in Nat /\ seen.createdAt = sessions[i].createdAt
          /\ now < sessions[i].createdAt + MaxAge
      BY <2>2, SessionColumns, Parameters DEF Lapsed
    <3>3. /\ Extended(seen) = Least(now + Ttl, sessions[i].createdAt + MaxAge)
          /\ Extended(seen) \in Nat /\ now < Extended(seen)
      BY <2>2, <3>2, Parameters DEF Extended, Least
    <3> HIDE DEF w, seen
    <3>4. /\ w \in Session /\ w.row = sessions[i].row /\ w.used = now
          /\ w.createdAt = sessions[i].createdAt /\ w.expiresAt = Extended(seen) /\ w.lastUsed = now
      BY <2>2, <3>1, <3>3 DEF Session
    <3>5. Recorded(w) = now
      BY <2>2, <3>4 DEF Recorded, None
    <3>6. UseRecorded(w)
      BY <2>2, <3>3, <3>4, <3>5, Parameters DEF UseRecorded
    <3>7. ~Lapsed(w)
      BY <2>2, <3>2, <3>3, <3>4, Parameters DEF Lapsed
    <3> QED BY <1>0, <2>1, <2>2, <3>4, <3>6, <3>7, OneSessionMoves
  <2> QED BY <2>3, <2>4
<1> QED BY <1>1, <1>2

\* RevokeSessions ends every session; SignOut ends the one the cookie names.
LEMMA RevokeSessionsRows ==
    ASSUME RowsInv, NEW c \in Clients, RevokeSessions(c)
    PROVE  RowsInv' /\ RowsMove
<1>1. /\ UNCHANGED <<now, account, tokens, share>> /\ sessions' = Ended(sessions)
      /\ gone' = gone \cup {<<"session", s>> : s \in Live(sessions)}
  BY DEF RevokeSessions, Outside
<1>2. ASSUME NEW s \in Sessions
      PROVE  /\ sessions'[s].row = "live" => sessions[s].row = "live" \/ account.row = "live"
             /\ sessions[s].row # "none" =>
                   /\ sessions'[s].row # "none" /\ sessions'[s].createdAt = sessions[s].createdAt
                   /\ Lapsed(sessions'[s]) <=> Lapsed(sessions[s])
             /\ UseRecorded(sessions'[s])
  BY <1>1, EndedSessions DEF Lapsed, UseRecorded
<1> QED BY <1>1, <1>2, EndedSessions, SessionsMove

LEMMA SignOutRows ==
    ASSUME RowsInv, NEW c \in Clients, SignOut(c), NamesSession(calls[c].cred)
    PROVE  RowsInv' /\ RowsMove
<1> DEFINE i == calls[c].cred
           w == [sessions[i] EXCEPT !.row = "gone"]
<1>1. /\ UNCHANGED <<now, account, tokens, share>> /\ sessions' = [sessions EXCEPT ![i] = w]
      /\ gone' = gone \cup {<<"session", i>>}
  BY DEF SignOut, Outside
<1>2. i \in Sessions /\ sessions \in [Sessions -> Session] /\ sessions[i] \in Session
  BY DEF NamesSession, RowsInv, RowTypes
<1>3. w \in Session /\ w.row = "gone" /\ w.createdAt = sessions[i].createdAt /\ w.expiresAt = sessions[i].expiresAt
  BY <1>2, SessionEnds
<1> HIDE DEF w
<1>4. sessions' \in [Sessions -> Session] /\ \A s \in Sessions : sessions'[s] = IF s = i THEN w ELSE sessions[s]
  BY <1>1, <1>2, <1>3
<1>5. {i} \in SUBSET Sessions /\ gone' = gone \cup {<<"session", s>> : s \in {i}}
  BY <1>1, <1>2
<1>6. ASSUME NEW s \in Sessions
      PROVE  /\ sessions'[s].row = "gone" <=> s \in {i} \/ sessions[s].row = "gone"
             /\ sessions'[s].row = "live" => sessions[s].row = "live" \/ account.row = "live"
             /\ sessions[s].row # "none" =>
                   /\ sessions'[s].row # "none" /\ sessions'[s].createdAt = sessions[s].createdAt
                   /\ Lapsed(sessions'[s]) <=> Lapsed(sessions[s])
             /\ UseRecorded(sessions'[s])
  <2>1. CASE s = i
    BY <1>3, <1>4, <2>1 DEF Lapsed, UseRecorded
  <2>2. CASE s # i
    BY <1>4, <2>2, EachUseRecorded
  <2> QED BY <2>1, <2>2
<1> QED BY <1>1, <1>4, <1>5, <1>6, SessionsMove

\* A token that is made is its owner's; one that is deleted is gone.
LEMMA CreateAPITokenRows ==
    ASSUME RowsInv, NEW c \in Browsers, CreateAPIToken(c)
    PROVE  RowsInv' /\ RowsMove
<1>0. UNCHANGED <<now, account, sessions, share, gone>>
  BY DEF CreateAPIToken, Outside
<1>1. CASE ~AccountThere
  <2>1. account' \in [row : {"live", "gone"}, word : Words, cost : {"past", "present"}] /\ account'.row = account.row
    BY <1>0 DEF RowsInv, RowTypes
  <2> QED BY <1>0, <1>1, <2>1, RowsStay DEF CreateAPIToken
<1>2. CASE AccountThere
  <2> DEFINE fresh == Fresh(tokens)
             new == [row |-> "live", by |-> c]
  <2>1. Some(tokens) /\ tokens' = [tokens EXCEPT ![fresh] = new]
    BY <1>2 DEF CreateAPIToken
  <2>2. tokens \in [Tokens -> Token]
    BY DEF RowsInv, RowTypes
  <2>3. fresh \in Tokens /\ tokens[fresh].row = "none"
    BY <2>1, <2>2 DEF Some, Fresh
  <2>4. new \in Token /\ new.row = "live" /\ new.by = c
    BY Parameters DEF Token, Rows
  <2> HIDE DEF new, fresh
  <2>5. tokens' \in [Tokens -> Token] /\ \A t \in Tokens : tokens'[t] = IF t = fresh THEN new ELSE tokens[t]
    BY <2>1, <2>2, <2>3, <2>4
  <2>6. {} \in SUBSET Tokens /\ gone' = gone \cup {<<"token", t>> : t \in {}}
    BY <1>0
  <2>7. ASSUME NEW t \in Tokens
        PROVE  /\ tokens'[t].row = "gone" <=> t \in {} \/ tokens[t].row = "gone"
               /\ tokens'[t].row = "live" => tokens[t].row = "live" \/ account.row = "live"
               /\ tokens[t].row # "none" => tokens'[t].row # "none"
               /\ tokens'[t].row = "none" \/ tokens'[t].by \in Browsers
    <3>1. CASE t = fresh
      BY <1>2, <2>3, <2>4, <2>5, <3>1 DEF AccountThere
    <3>2. CASE t # fresh
      BY <2>5, <3>2 DEF RowsInv
    <3> QED BY <3>1, <3>2
  <2> QED BY <1>0, <2>5, <2>6, <2>7, TokensMove
<1> QED BY <1>1, <1>2

LEMMA DeleteAPITokenRows ==
    ASSUME RowsInv, NEW c \in Clients, DeleteAPIToken(c)
    PROVE  RowsInv' /\ RowsMove
<1>1. PICK i \in Tokens : /\ tokens[i].row # "none"
                          /\ tokens' = [tokens EXCEPT ![i].row = "gone"]
                          /\ gone' = gone \cup {<<"token", i>>}
  BY DEF DeleteAPIToken
<1>2. UNCHANGED <<now, account, sessions, share>>
  BY DEF DeleteAPIToken, Outside
<1> DEFINE w == [tokens[i] EXCEPT !.row = "gone"]
<1>3. tokens \in [Tokens -> Token] /\ tokens[i] \in Token /\ tokens[i].by \in Browsers
  BY <1>1 DEF RowsInv, RowTypes
<1>4. w \in Token /\ w.row = "gone" /\ w.by = tokens[i].by
  BY <1>3 DEF Token, Rows
<1>5. tokens' = [tokens EXCEPT ![i] = w]
  BY <1>1
<1> HIDE DEF w
<1>6. tokens' \in [Tokens -> Token] /\ \A t \in Tokens : tokens'[t] = IF t = i THEN w ELSE tokens[t]
  BY <1>3, <1>4, <1>5
<1>7. {i} \in SUBSET Tokens /\ gone' = gone \cup {<<"token", t>> : t \in {i}}
  BY <1>1
<1>8. ASSUME NEW t \in Tokens
      PROVE  /\ tokens'[t].row = "gone" <=> t \in {i} \/ tokens[t].row = "gone"
             /\ tokens'[t].row = "live" => tokens[t].row = "live" \/ account.row = "live"
             /\ tokens[t].row # "none" => tokens'[t].row # "none"
             /\ tokens'[t].row = "none" \/ tokens'[t].by \in Browsers
  <2>1. CASE t = i
    BY <1>3, <1>4, <1>6, <2>1
  <2>2. CASE t # i
    BY <1>6, <2>2 DEF RowsInv
  <2> QED BY <2>1, <2>2
<1> QED BY <1>2, <1>6, <1>7, <1>8, TokensMove

\* A link is published once and withdrawn once.
LEMMA ShareRows ==
    ASSUME RowsInv, NEW c \in Clients, CreateShare(c) \/ RevokeShare(c)
    PROVE  RowsInv' /\ RowsMove
<1>0. UNCHANGED <<now, account, sessions, tokens>> /\ now \in Nat
  BY DEF CreateShare, RevokeShare, Outside, RowsInv, RowTypes
<1>1. CASE CreateShare(c)
  <2>1. share.row = "none" /\ UNCHANGED gone
    BY <1>1 DEF CreateShare
  <2>2. PICK locked \in BOOLEAN : share' = [row |-> "live", locked |-> locked, expiresAt |-> now + ShareLife]
    BY <1>1 DEF CreateShare
  <2>3. share' \in [row : Rows, locked : BOOLEAN, expiresAt : Nat] /\ share'.row = "live"
    BY <1>0, <2>2, Parameters DEF Rows
  <2>4. RowTypes' /\ GoneForGood'
    BY <1>0, <2>1, <2>3 DEF RowsInv, RowTypes, GoneForGood
  <2> QED BY <1>0, <2>1, <2>4 DEF RowsInv, UseIsRecorded, RemovalLeavesNothing, RowsMove
<1>2. CASE RevokeShare(c)
  <2>1. CASE share.row # "live"
    <3>1. account' \in [row : {"live", "gone"}, word : Words, cost : {"past", "present"}] /\ account'.row = account.row
      BY <1>0 DEF RowsInv, RowTypes
    <3> QED BY <1>0, <1>2, <2>1, <3>1, RowsStay DEF RevokeShare
  <2>2. CASE share.row = "live"
    <3>1. share' = [share EXCEPT !.row = "gone"] /\ gone' = gone \cup {<<"share", 0>>}
      BY <1>2, <2>2 DEF RevokeShare
    <3>2. share' \in [row : Rows, locked : BOOLEAN, expiresAt : Nat] /\ share'.row = "gone"
      BY <3>1 DEF RowsInv, RowTypes, Rows
    <3>3. <<"share", 0>> \in {"session", "token", "share"} \X (Sessions \cup Tokens)
      <4>1. 0 \in Sessions
        BY AccessAssumption DEF Sessions
      <4> QED BY <4>1
    <3>4. RowTypes'
      BY <1>0, <3>1, <3>2, <3>3 DEF RowsInv, RowTypes
    <3>5. GoneForGood'
      <4>1. \A s : <<"session", s>> \in gone' <=> <<"session", s>> \in gone
        BY <3>1
      <4>2. \A t : <<"token", t>> \in gone' <=> <<"token", t>> \in gone
        BY <3>1
      <4> QED BY <1>0, <3>1, <3>2, <4>1, <4>2 DEF RowsInv, GoneForGood
    <3>6. RowsMove
      BY <1>0, <2>2, <3>1, <3>2 DEF RowsMove, ShareLive
    <3> QED BY <1>0, <3>4, <3>5, <3>6 DEF RowsInv, UseIsRecorded, RemovalLeavesNothing
  <2> QED BY <2>1, <2>2
<1> QED BY <1>1, <1>2

\* An account goes with its sessions and its tokens.
LEMMA RemoveAccountRows ==
    ASSUME RowsInv, RemoveAccount
    PROVE  RowsInv' /\ RowsMove
<1>1. /\ UNCHANGED <<now, share>> /\ sessions' = Ended(sessions) /\ tokens' = Ended(tokens)
      /\ account' = [account EXCEPT !.row = "gone"]
      /\ gone' = gone \cup {<<"session", s>> : s \in Live(sessions)} \cup {<<"token", t>> : t \in Live(tokens)}
  BY DEF RemoveAccount
<1>2. /\ tokens' \in [Tokens -> Token] /\ Live(tokens) \in SUBSET Tokens
      /\ \A t \in Tokens : /\ tokens'[t].row = "gone" <=> t \in Live(tokens) \/ tokens[t].row = "gone"
                           /\ tokens'[t].row # "live" /\ tokens'[t].by = tokens[t].by
                           /\ tokens[t].row # "none" <=> tokens'[t].row # "none"
  <2>1. tokens \in [Tokens -> Token]
    BY DEF RowsInv, RowTypes
  <2>2. Live(tokens) \in SUBSET Tokens /\ \A t \in Tokens : t \in Live(tokens) <=> tokens[t].row = "live"
    BY <2>1 DEF Live
  <2>3. tokens' = [t \in Tokens |-> IF tokens[t].row = "live" THEN [tokens[t] EXCEPT !.row = "gone"] ELSE tokens[t]]
    BY <1>1, <2>1 DEF Ended
  <2>4. ASSUME NEW t \in Tokens
        PROVE  /\ tokens'[t] \in Token
               /\ tokens'[t].row = (IF tokens[t].row = "live" THEN "gone" ELSE tokens[t].row)
               /\ tokens'[t].by = tokens[t].by
    <3>1. tokens[t] \in Token
      BY <2>1
    <3>2. CASE tokens[t].row = "live"
      <4>1. tokens'[t] = [tokens[t] EXCEPT !.row = "gone"]
        BY <2>3, <3>2
      <4> QED BY <3>1, <3>2, <4>1 DEF Token, Rows
    <3>3. CASE tokens[t].row # "live"
      BY <2>3, <3>1, <3>3
    <3> QED BY <3>2, <3>3
  <2>5. tokens' \in [Tokens -> Token]
    BY <2>3, <2>4
  <2> QED BY <2>2, <2>4, <2>5
<1>3. /\ sessions' \in [Sessions -> Session] /\ Live(sessions) \in SUBSET Sessions
      /\ \A s \in Sessions : sessions'[s].row # "live"
  BY <1>1, EndedSessions
<1>4. account' \in [row : {"live", "gone"}, word : Words, cost : {"past", "present"}]
  BY <1>1 DEF RowsInv, RowTypes
<1>5. /\ \A s \in Sessions : <<"session", s>> \in gone' <=> s \in Live(sessions) \/ <<"session", s>> \in gone
      /\ \A t \in Tokens : <<"token", t>> \in gone' <=> t \in Live(tokens) \/ <<"token", t>> \in gone
      /\ <<"share", 0>> \in gone' <=> <<"share", 0>> \in gone
  BY <1>1
<1>6. RowTypes'
  <2>1. gone' \subseteq {"session", "token", "share"} \X (Sessions \cup Tokens)
    BY <1>1, <1>2, <1>3 DEF RowsInv, RowTypes
  <2> QED BY <1>1, <1>2, <1>3, <1>4, <2>1 DEF RowsInv, RowTypes
<1>7. GoneForGood'
  <2>1. ASSUME NEW s \in Sessions PROVE sessions'[s].row = "gone" <=> <<"session", s>> \in gone'
    BY <1>1, <1>5, EndedSessions DEF RowsInv, GoneForGood
  <2>2. ASSUME NEW t \in Tokens PROVE tokens'[t].row = "gone" <=> <<"token", t>> \in gone'
    BY <1>2, <1>5 DEF RowsInv, GoneForGood
  <2>3. share'.row = "gone" <=> <<"share", 0>> \in gone'
    BY <1>1, <1>5 DEF RowsInv, GoneForGood
  <2> QED BY <2>1, <2>2, <2>3 DEF GoneForGood
<1>8. Live(sessions') = {} /\ Live(tokens') = {}
  <2>1. DOMAIN sessions' = Sessions /\ DOMAIN tokens' = Tokens
    BY <1>2, <1>3
  <2> QED BY <1>2, <1>3, <2>1 DEF Live
<1>9. RowsMove
  BY <1>1, <1>2, EndedSessions DEF RowsMove, Lapsed, ShareLive
<1>10. \A t \in Tokens : tokens'[t].row = "none" \/ tokens'[t].by \in Browsers
  BY <1>2 DEF RowsInv
<1>11. UseIsRecorded' /\ RemovalLeavesNothing'
  BY <1>8 DEF UseIsRecorded, RemovalLeavesNothing, Live
<1> QED BY <1>6, <1>7, <1>9, <1>10, <1>11 DEF RowsInv

\* Time passing leaves every row as it is and every recorded use in the past.
LEMMA TickRows ==
    ASSUME RowsInv, Tick
    PROVE  RowsInv'
<1>1. now \in Nat /\ now' = now + 1 /\ UNCHANGED <<account, sessions, tokens, share, gone>>
  BY DEF Tick, store, books, RowsInv, RowTypes
<1>2. RowTypes' /\ GoneForGood' /\ RemovalLeavesNothing'
      /\ \A t \in Tokens : tokens'[t].row = "none" \/ tokens'[t].by \in Browsers
  BY <1>1 DEF RowsInv, RowTypes, GoneForGood, RemovalLeavesNothing
<1>3. ASSUME NEW s \in Live(sessions)
      PROVE  sessions[s].used \in Nat /\ sessions[s].used <= now
  <2>1. s \in Sessions /\ sessions[s] \in Session
    BY DEF Live, RowsInv, RowTypes
  <2> QED BY <2>1, SessionColumns DEF RowsInv, UseIsRecorded
<1>4. UseIsRecorded'
  BY <1>1, <1>3 DEF RowsInv, UseIsRecorded, Live, Recorded
<1> QED BY <1>2, <1>4 DEF RowsInv

-----------------------------------------------------------------------------
(* Requests in flight *)

\* What a request that was cut off before it was sent presents.
Presents(c) ==
    CASE c \in Browsers -> <<"session", calls[c].cred>> [] c = Script -> <<"token", calls[c].cred>>
      [] c = Screen -> <<"share", 0>>

\* One client's share of the invariants.
InOrder(c) ==
    /\ IF calls[c].at = "none" THEN calls[c] = NoCall ELSE
          /\ c = Screen <=> calls[c].kind \in {"poll", "unlock"}
          /\ c = Script => calls[c].kind \in NeedAuth /\ NamesToken(calls[c].cred)
          /\ c \in Browsers /\ calls[c].kind \in NeedAuth \cup {"signout"} => NamesSession(calls[c].cred)
          /\ calls[c].answer # "none" <=> calls[c].at = "answered"
          /\ calls[c].kind = "signin" /\ calls[c].answer = "ok" => NamesSession(calls[c].result)
          /\ calls[c].kind = "mint" /\ calls[c].answer = "ok" => NamesToken(calls[c].result)
          /\ calls[c].at = "account" \/ (calls[c].kind \in AccountKinds /\ calls[c].at = "verified") => c \in Browsers
    /\ calls[c].cut /\ calls[c].kind \in NeedAuth \cup {"poll", "unlock"} =>
          calls[c].at \in {"sent", "answered"} /\ calls[c].answer # "ok" /\ Presents(c) \in gone
    /\ calls[c].at = "read" /\ calls[c].kind \in NeedAuth =>
          /\ c \in Browsers
          /\ ~Lapsed(sessions[calls[c].cred])
          /\ calls[c].seen.createdAt = sessions[calls[c].cred].createdAt
    /\ c # Screen /\ calls[c].answer = "unauthenticated" /\ calls[c].kind \in NeedAuth =>
          IF c = Script THEN <<"token", calls[c].cred>> \in gone
          ELSE <<"session", calls[c].cred>> \in gone \/ Lapsed(sessions[calls[c].cred])
    /\ calls[c].kind = "publish" /\ calls[c].answer = "ok" => share.row # "none"
    /\ c = Screen /\ calls[c].at # "none" => screen.at # "off"
    /\ c = Screen /\ calls[c].kind = "poll" /\ calls[c].answer = "not_found" => ~ShareLive

ScreenInOrder == (screen.at # "off" => share.row # "none") /\ (screen.at = "dark" => ~ShareLive)

HeldInOrder ==
    /\ \A c \in Browsers : held[c] = None \/ NamesSession(held[c])
    /\ held[Script] = None \/ NamesToken(held[Script])

Flight ==
    /\ situation \in Situations /\ asked \in Nat /\ faults \in Nat
    /\ calls \in [Clients -> Call] /\ held \in [Clients -> Credential]
    /\ screen \in [at : {"off", "showing", "stale", "locked", "dark"}, proof : BOOLEAN]

FlightInv == Flight /\ HeldInOrder /\ ScreenInOrder /\ \A c \in Clients : InOrder(c)

\* Everybody's request but the acting client's is as it was, and what it rests on too.
LEMMA StaysInOrder ==
    ASSUME RowsMove, ScreenInOrder, NEW c \in Clients, InOrder(c), calls'[c] = calls[c],
           screen.at # "off" => screen'.at # "off" \/ c # Screen
    PROVE  InOrder(c)'
<1> DEFINE n == calls[c]
<1>0. now' = now /\ (c \in Browsers \/ c = Script \/ c = Screen)
  BY Parameters DEF RowsMove
<1>1. CASE calls[c].at = "none"
  <2>1. calls[c] = NoCall
    BY <1>1 DEF InOrder
  <2>2. n.at = "none" /\ n.cut = FALSE /\ n.answer = "none"
    BY <2>1 DEF NoCall
  <2> QED BY <1>1, <2>1, <2>2 DEF InOrder
<1>2. CASE calls[c].at # "none"
  <2>1. \A s : NamesSession(s) => NamesSession(s)'
    BY DEF RowsMove, NamesSession
  <2>2. \A t : NamesToken(t) => NamesToken(t)'
    BY DEF RowsMove, NamesToken
  <2>3. c \in Browsers /\ calls[c].kind \in NeedAuth =>
           /\ Lapsed(sessions[calls[c].cred])' <=> Lapsed(sessions[calls[c].cred])
           /\ sessions'[calls[c].cred].createdAt = sessions[calls[c].cred].createdAt
    <3>1. c \in Browsers /\ calls[c].kind \in NeedAuth => NamesSession(calls[c].cred)
      BY <1>2 DEF InOrder
    <3> QED BY <1>0, <3>1 DEF RowsMove, NamesSession, Lapsed
  <2>4. Presents(c)' = Presents(c)
    BY DEF Presents
  <2>5. /\ gone \subseteq gone' /\ (share.row # "none" => share'.row # "none")
        /\ share.row # "none" /\ ~ShareLive => ~ShareLive'
    BY DEF RowsMove
  <2>6. c = Screen => screen.at # "off" /\ screen'.at # "off"
    BY <1>2 DEF InOrder
  <2>a. (IF calls[c].at = "none" THEN calls[c] = NoCall ELSE
          /\ c = Screen <=> calls[c].kind \in {"poll", "unlock"}
          /\ c = Script => calls[c].kind \in NeedAuth /\ NamesToken(calls[c].cred)
          /\ c \in Browsers /\ calls[c].kind \in NeedAuth \cup {"signout"} => NamesSession(calls[c].cred)
          /\ calls[c].answer # "none" <=> calls[c].at = "answered"
          /\ calls[c].kind = "signin" /\ calls[c].answer = "ok" => NamesSession(calls[c].result)
          /\ calls[c].kind = "mint" /\ calls[c].answer = "ok" => NamesToken(calls[c].result)
          /\ calls[c].at = "account" \/ (calls[c].kind \in AccountKinds /\ calls[c].at = "verified") => c \in Browsers)'
    BY <1>2, <2>1, <2>2 DEF InOrder
  <2>b. (calls[c].cut /\ calls[c].kind \in NeedAuth \cup {"poll", "unlock"} =>
          calls[c].at \in {"sent", "answered"} /\ calls[c].answer # "ok" /\ Presents(c) \in gone)'
    BY <2>4, <2>5 DEF InOrder
  <2>c. (calls[c].at = "read" /\ calls[c].kind \in NeedAuth =>
          /\ c \in Browsers
          /\ ~Lapsed(sessions[calls[c].cred])
          /\ calls[c].seen.createdAt = sessions[calls[c].cred].createdAt)'
    BY <2>3 DEF InOrder
  <2>d. (c # Screen /\ calls[c].answer = "unauthenticated" /\ calls[c].kind \in NeedAuth =>
          IF c = Script THEN <<"token", calls[c].cred>> \in gone
          ELSE <<"session", calls[c].cred>> \in gone \/ Lapsed(sessions[calls[c].cred]))'
    BY <1>0, <2>3, <2>5 DEF InOrder
  <2>e. (c = Screen /\ calls[c].kind = "poll" /\ calls[c].answer = "not_found" => ~ShareLive)'
    BY <2>5, <2>6 DEF InOrder, ScreenInOrder
  <2> QED BY <2>5, <2>6, <2>a, <2>b, <2>c, <2>d, <2>e DEF InOrder
<1> QED BY <1>1, <1>2

\* What a write of a request's record leaves as it was.
LEMMA CallColumns ==
    ASSUME NEW r \in Call
    PROVE  /\ r.at \in Stages /\ r.kind \in Kinds /\ r.cred \in Credential /\ r.cut \in BOOLEAN
           /\ r.seen \in Session /\ r.answer \in Answers /\ r.result \in Credential /\ r.word \in Words
BY DEF Call

LEMMA CallMoves ==
    ASSUME NEW r \in Call, NEW at \in Stages, NEW w, w = [r EXCEPT !.at = at]
    PROVE  /\ w \in Call /\ w.at = at
           /\ w.kind = r.kind /\ w.cred = r.cred /\ w.cut = r.cut /\ w.answer = r.answer /\ w.result = r.result
           /\ w.seen = r.seen
BY DEF Call

\* A request that is cut off is still to be looked at, or has been answered.
LEMMA PastTheLook ==
    ASSUME NEW c \in Clients, InOrder(c), calls[c].at \notin {"none", "sent", "answered"},
           calls[c].kind \in NeedAuth \cup {"poll", "unlock"}, calls[c].cut \in BOOLEAN
    PROVE  ~calls[c].cut
BY DEF InOrder

\* The acting client's request goes on to its next step.
LEMMA GoesOn ==
    ASSUME RowsMove, NEW c \in Clients, InOrder(c), calls[c] \in Call,
           calls[c].at \notin {"none", "answered"},
           LET n == calls'[c] IN
              /\ n.at \in {"read", "in", "account", "verified"}
              /\ n.kind = calls[c].kind /\ n.cred = calls[c].cred /\ n.cut = calls[c].cut
              /\ n.answer = calls[c].answer
              /\ n.at = "account" \/ (n.kind \in AccountKinds /\ n.at = "verified") => c \in Browsers
              /\ n.cut => n.kind \notin NeedAuth \cup {"poll", "unlock"}
              /\ n.at = "read" /\ n.kind \in NeedAuth =>
                    /\ c \in Browsers
                    /\ ~Lapsed(sessions'[n.cred])
                    /\ n.seen.createdAt = sessions'[n.cred].createdAt,
           c = Screen => screen' = screen
    PROVE  InOrder(c)'
<1>1. \A s : NamesSession(s) => NamesSession(s)'
  BY DEF RowsMove, NamesSession
<1>2. \A t : NamesToken(t) => NamesToken(t)'
  BY DEF RowsMove, NamesToken
<1>3. now' = now /\ calls'[c].answer = "none" /\ calls'[c].at \notin {"none", "answered"}
  BY DEF RowsMove, InOrder
<1>4. \A s : Lapsed(sessions[s])' <=> Lapsed(sessions'[s])
  BY <1>3 DEF Lapsed
<1>5. (IF calls[c].at = "none" THEN calls[c] = NoCall ELSE
          /\ c = Screen <=> calls[c].kind \in {"poll", "unlock"}
          /\ c = Script => calls[c].kind \in NeedAuth /\ NamesToken(calls[c].cred)
          /\ c \in Browsers /\ calls[c].kind \in NeedAuth \cup {"signout"} => NamesSession(calls[c].cred)
          /\ calls[c].answer # "none" <=> calls[c].at = "answered"
          /\ calls[c].kind = "signin" /\ calls[c].answer = "ok" => NamesSession(calls[c].result)
          /\ calls[c].kind = "mint" /\ calls[c].answer = "ok" => NamesToken(calls[c].result)
          /\ calls[c].at = "account" \/ (calls[c].kind \in AccountKinds /\ calls[c].at = "verified") => c \in Browsers)'
  BY <1>1, <1>2, <1>3 DEF InOrder
<1>6. (c = Screen /\ calls[c].at # "none" => screen.at # "off")'
  BY DEF InOrder
<1> QED BY <1>3, <1>4, <1>5, <1>6 DEF InOrder

\* The acting client's request is answered.
LEMMA IsAnswered ==
    ASSUME RowsMove, NEW c \in Clients, InOrder(c), calls[c] \in Call,
           calls[c].at \notin {"none", "answered"},
           LET n == calls'[c]
               kind == calls[c].kind IN
              /\ n.at = "answered" /\ n.answer # "none"
              /\ n.kind = kind /\ n.cred = calls[c].cred /\ n.cut = calls[c].cut
              /\ n.cut /\ kind \in NeedAuth \cup {"poll", "unlock"} => n.answer # "ok"
              /\ kind = "signin" /\ n.answer = "ok" => NamesSession(calls[c].result)'
              /\ kind = "mint" /\ n.answer = "ok" => NamesToken(calls[c].result)'
              /\ c # Screen /\ n.answer = "unauthenticated" /\ kind \in NeedAuth =>
                    IF c = Script THEN <<"token", n.cred>> \in gone'
                    ELSE <<"session", n.cred>> \in gone' \/ Lapsed(sessions'[n.cred])
              /\ kind = "publish" /\ n.answer = "ok" => share'.row # "none"
              /\ c = Screen /\ kind = "poll" /\ n.answer = "not_found" => ~ShareLive',
           c = Screen => screen' = screen
    PROVE  InOrder(c)'
<1>1. \A s : NamesSession(s) => NamesSession(s)'
  BY DEF RowsMove, NamesSession
<1>2. \A t : NamesToken(t) => NamesToken(t)'
  BY DEF RowsMove, NamesToken
<1>3. now' = now /\ gone \subseteq gone'
  BY DEF RowsMove
<1>4. \A s : Lapsed(sessions[s])' <=> Lapsed(sessions'[s])
  BY <1>3 DEF Lapsed
<1>5. (IF calls[c].at = "none" THEN calls[c] = NoCall ELSE
          /\ c = Screen <=> calls[c].kind \in {"poll", "unlock"}
          /\ c = Script => calls[c].kind \in NeedAuth /\ NamesToken(calls[c].cred)
          /\ c \in Browsers /\ calls[c].kind \in NeedAuth \cup {"signout"} => NamesSession(calls[c].cred)
          /\ calls[c].answer # "none" <=> calls[c].at = "answered"
          /\ calls[c].kind = "signin" /\ calls[c].answer = "ok" => NamesSession(calls[c].result)
          /\ calls[c].kind = "mint" /\ calls[c].answer = "ok" => NamesToken(calls[c].result)
          /\ calls[c].at = "account" \/ (calls[c].kind \in AccountKinds /\ calls[c].at = "verified") => c \in Browsers)'
  BY <1>1, <1>2 DEF InOrder
<1>6. (c = Screen /\ calls[c].at # "none" => screen.at # "off")'
  BY DEF InOrder
<1>7. (calls[c].cut /\ calls[c].kind \in NeedAuth \cup {"poll", "unlock"} =>
          calls[c].at \in {"sent", "answered"} /\ calls[c].answer # "ok" /\ Presents(c) \in gone)'
  <2>1. Presents(c)' = Presents(c)
    BY DEF Presents
  <2> QED BY <1>3, <2>1 DEF InOrder
<1> QED BY <1>4, <1>5, <1>6, <1>7 DEF InOrder

\* A step of one client's request leaves the others'.
OnlyCall(c) == calls' \in [Clients -> Call] /\ \A d \in Clients \ {c} : calls'[d] = calls[d]

LEMMA AnswerSets ==
    ASSUME Flight, NEW c \in Clients, NEW a \in Answers, NEW x \in Credential, Answer(c, a, x)
    PROVE  LET n == calls'[c] IN
           /\ OnlyCall(c)
           /\ n.at = "answered" /\ n.kind = calls[c].kind /\ n.cred = calls[c].cred /\ n.cut = calls[c].cut
           /\ n.answer = a /\ n.result = x
<1> DEFINE w == [calls[c] EXCEPT !.at = "answered", !.answer = a, !.result = x]
<1>1. calls \in [Clients -> Call] /\ calls' = [calls EXCEPT ![c] = w]
  BY DEF Flight, Answer, Set
<1>2. /\ w \in Call /\ w.at = "answered"
      /\ w.kind = calls[c].kind /\ w.cred = calls[c].cred /\ w.cut = calls[c].cut /\ w.answer = a /\ w.result = x
  BY <1>1 DEF Call, Stages
<1> HIDE DEF w
<1> QED BY <1>1, <1>2 DEF OnlyCall

LEMMA ReplySets ==
    ASSUME Flight, NEW c \in Clients, NEW a \in Answers, Reply(c, a)
    PROVE  LET n == calls'[c] IN
           /\ OnlyCall(c)
           /\ n.at = "answered" /\ n.kind = calls[c].kind /\ n.cred = calls[c].cred /\ n.cut = calls[c].cut
           /\ n.answer = a
BY AnswerSets DEF Reply, Credential

LEMMA MoveSets ==
    ASSUME Flight, NEW c \in Clients, NEW at \in Stages, Moves(c, at)
    PROVE  LET n == calls'[c] IN
           /\ OnlyCall(c)
           /\ n.at = at /\ n.kind = calls[c].kind /\ n.cred = calls[c].cred /\ n.cut = calls[c].cut
           /\ n.answer = calls[c].answer
<1> DEFINE w == [calls[c] EXCEPT !.at = at]
<1>1. calls \in [Clients -> Call] /\ calls' = [calls EXCEPT ![c] = w]
  BY DEF Flight, Moves, Set
<1>2. /\ w \in Call /\ w.at = at
      /\ w.kind = calls[c].kind /\ w.cred = calls[c].cred /\ w.cut = calls[c].cut /\ w.answer = calls[c].answer
  BY <1>1, CallMoves
<1> HIDE DEF w
<1> QED BY <1>1, <1>2 DEF OnlyCall

\* What a step of a handler keeps.
Served(c) == RowsInv' /\ RowsMove /\ OnlyCall(c) /\ InOrder(c)' /\ faults' \in Nat

\* An injected failure is counted.
LEMMA FaultsCounted ==
    ASSUME Flight, NEW kind, Fail(kind) \/ UNCHANGED faults
    PROVE  faults' \in Nat
BY DEF Flight, Fail

\* Handlers that write nothing but the account.
LEMMA RowsUntouched ==
    ASSUME RowsInv, UNCHANGED <<now, store, gone>>
    PROVE  RowsInv' /\ RowsMove
<1>1. account' \in [row : {"live", "gone"}, word : Words, cost : {"past", "present"}] /\ account'.row = account.row
  BY DEF RowsInv, RowTypes, store
<1> QED BY <1>1, RowsStay DEF store

\* A handler refuses for a reason that is not the credential's own.
LEMMA RefusalServed ==
    ASSUME FlightInv, RowsInv', RowsMove, faults' \in Nat, screen' = screen,
           NEW c \in Clients, calls[c].at \notin {"none", "answered"},
           NEW a \in {"internal", "rate_limited", "wrong_password", "session_required", "passphrase_required", "not_found"},
           Reply(c, a), c = Screen /\ a = "not_found" => ~ShareLive'
    PROVE  Served(c)
<1>1. InOrder(c) /\ calls[c] \in Call /\ Flight
  BY DEF FlightInv, Flight
<1>2. /\ OnlyCall(c) /\ calls'[c].at = "answered" /\ calls'[c].answer = a
      /\ calls'[c].kind = calls[c].kind /\ calls'[c].cred = calls[c].cred /\ calls'[c].cut = calls[c].cut
  BY <1>1, ReplySets DEF Answers
<1>3. InOrder(c)'
  BY <1>1, <1>2, IsAnswered
<1> QED BY <1>2, <1>3 DEF Served

\* A handler has done what was asked.
LEMMA OkServed ==
    ASSUME FlightInv, RowsInv', RowsMove, faults' \in Nat, screen' = screen,
           NEW c \in Clients, calls[c].at \notin {"none", "answered"}, Reply(c, "ok"),
           calls[c].kind \notin {"signin", "mint"},
           calls[c].kind \in NeedAuth \cup {"poll", "unlock"} => ~calls[c].cut,
           calls[c].kind = "publish" => share'.row # "none"
    PROVE  Served(c)
<1>1. InOrder(c) /\ calls[c] \in Call /\ Flight
  BY DEF FlightInv, Flight
<1>2. /\ OnlyCall(c) /\ calls'[c].at = "answered" /\ calls'[c].answer = "ok"
      /\ calls'[c].kind = calls[c].kind /\ calls'[c].cred = calls[c].cred /\ calls'[c].cut = calls[c].cut
  BY <1>1, ReplySets DEF Answers
<1>3. InOrder(c)'
  BY <1>1, <1>2, IsAnswered
<1> QED BY <1>2, <1>3 DEF Served

\* A handler goes on to its next store call.
LEMMA MoveServed ==
    ASSUME FlightInv, RowsInv', RowsMove, faults' \in Nat, screen' = screen,
           NEW c \in Clients, calls[c].at \notin {"none", "answered"},
           NEW at \in {"read", "in", "verified"}, Moves(c, at),
           at = "read" => calls[c].kind \notin NeedAuth,
           at = "verified" /\ calls[c].kind \in AccountKinds => c \in Browsers,
           calls[c].kind \in NeedAuth \cup {"poll", "unlock"} => ~calls[c].cut
    PROVE  Served(c)
<1>1. InOrder(c) /\ calls[c] \in Call /\ Flight
  BY DEF FlightInv, Flight
<1>2. /\ OnlyCall(c) /\ calls'[c].at = at /\ calls'[c].answer = calls[c].answer
      /\ calls'[c].kind = calls[c].kind /\ calls'[c].cred = calls[c].cred /\ calls'[c].cut = calls[c].cut
  BY <1>1, MoveSets DEF Stages
<1>3. InOrder(c)'
  BY <1>1, <1>2, GoesOn
<1> QED BY <1>2, <1>3 DEF Served

\* A handler that is past its look at the credential serves a request that was not cut off.
LEMMA NotCut ==
    ASSUME FlightInv, NEW c \in Clients, calls[c].at \notin {"none", "sent", "answered"}
    PROVE  calls[c].kind \in NeedAuth \cup {"poll", "unlock"} => ~calls[c].cut
BY PastTheLook DEF FlightInv, Flight, Call

\* Steps whose rows nobody needs to look at.
LEMMA QuietServed ==
    ASSUME RowsInv, FlightInv, NEW c \in Clients,
           \/ StoreFails(c) \/ ReadAccount(c) \/ VerifyCurrent(c) \/ Page(c)
           \/ c = Screen /\ (ShareLimited \/ RequireShare \/ PublicWallboard \/ UnlockShare)
    PROVE  Served(c)
<1>1. RowsInv' /\ RowsMove
  <2>1. UNCHANGED <<now, store, gone>>
    BY DEF StoreFails, ReadAccount, VerifyCurrent, Page, ShareLimited, RequireShare, PublicWallboard, UnlockShare,
           Outside
  <2> QED BY <2>1, RowsUntouched
<1>2. faults' \in Nat /\ screen' = screen
  <2>1. screen' = screen /\ ((\E kind : Fail(kind)) \/ UNCHANGED faults)
    BY DEF StoreFails, ReadAccount, VerifyCurrent, Page, ShareLimited, RequireShare, PublicWallboard, UnlockShare,
           Outside
  <2> QED BY <2>1, FaultsCounted DEF FlightInv
<1>3. CASE StoreFails(c)
  <2>1. calls[c].at \notin {"none", "answered"} /\ Reply(c, "internal")
    BY <1>3 DEF StoreFails, CallsStore, Unavailable
  <2> QED BY <1>1, <1>2, <2>1, RefusalServed
<1>4. CASE ReadAccount(c)
  <2>0. calls[c].at = "sent" /\ calls[c].kind = "signin" /\ InOrder(c) /\ calls[c] \in Call /\ Flight
    BY <1>4 DEF ReadAccount, Only, FlightInv, Flight
  <2>1. CASE Reply(c, "unauthenticated")
    <3>1. /\ OnlyCall(c) /\ calls'[c].at = "answered" /\ calls'[c].answer = "unauthenticated"
          /\ calls'[c].kind = calls[c].kind /\ calls'[c].cred = calls[c].cred /\ calls'[c].cut = calls[c].cut
      BY <2>0, <2>1, ReplySets DEF Answers
    <3>2. InOrder(c)'
      BY <1>1, <1>2, <2>0, <3>1, IsAnswered DEF NeedAuth
    <3> QED BY <1>1, <1>2, <3>1, <3>2 DEF Served
  <2>2. CASE \E at \in {"read", "verified"} : Moves(c, at)
    BY <1>1, <1>2, <2>0, <2>2, MoveServed DEF NeedAuth, AccountKinds
  <2> QED BY <1>4, <2>1, <2>2 DEF ReadAccount, Moves
<1>5. CASE VerifyCurrent(c)
  <2>1. calls[c].at = "account" /\ c \in Browsers /\ InOrder(c)
    BY <1>5 DEF VerifyCurrent, Only, FlightInv, InOrder
  <2>2. (\E a \in {"rate_limited", "wrong_password"} : Reply(c, a)) \/ Moves(c, "verified")
    BY <1>5 DEF VerifyCurrent
  <2> QED BY <1>1, <1>2, <2>1, <2>2, NotCut, RefusalServed, MoveServed, Parameters
<1>6. CASE Page(c)
  <2>1. calls[c].at = "in" /\ calls[c].kind = "page" /\ Reply(c, "ok")
    BY <1>6 DEF Page, Only
  <2> QED BY <1>1, <1>2, <2>1, NotCut, OkServed
<1>7. CASE c = Screen /\ ShareLimited
  <2>1. calls[c].at = "sent" /\ Reply(c, "rate_limited")
    BY <1>7 DEF ShareLimited, Only
  <2> QED BY <1>1, <1>2, <2>1, RefusalServed
<1>8. CASE c = Screen /\ RequireShare
  <2>1. calls[c].at = "sent" /\ calls[c].kind = "poll" /\ InOrder(c)
    BY <1>8 DEF RequireShare, Only, FlightInv
  <2>2. ShareLive' <=> ShareLive
    BY <1>8 DEF RequireShare, Outside, store, ShareLive
  <2>3. CASE ~ShareLive
    BY <1>1, <1>2, <1>8, <2>1, <2>2, <2>3, RefusalServed DEF RequireShare, ShareFound
  <2>4. CASE ShareLive
    <3>1. ~calls[c].cut
      <4>1. <<"share", 0>> \notin gone
        BY <2>4 DEF RowsInv, GoneForGood, ShareLive
      <4>2. Presents(c) = <<"share", 0>>
        BY <1>8, Parameters DEF Presents
      <4> QED BY <2>1, <4>1, <4>2 DEF InOrder
    <3>2. Reply(c, "passphrase_required") \/ Moves(c, "in")
      BY <1>8, <2>4 DEF RequireShare, ShareFound
    <3> QED BY <1>1, <1>2, <2>1, <3>1, <3>2, RefusalServed, MoveServed
  <2> QED BY <2>3, <2>4
<1>9. CASE c = Screen /\ PublicWallboard
  <2>1. calls[c].at = "in" /\ calls[c].kind = "poll" /\ Reply(c, "ok")
    BY <1>9 DEF PublicWallboard, Only
  <2> QED BY <1>1, <1>2, <2>1, NotCut, OkServed
<1>10. CASE c = Screen /\ UnlockShare
  <2>1. calls[c].at = "sent" /\ calls[c].kind = "unlock" /\ InOrder(c) /\ calls[c] \in Call /\ Flight
    BY <1>10 DEF UnlockShare, Only, FlightInv, Flight
  <2>2. CASE ShareLive /\ Reply(c, "ok")
    <3>1. <<"share", 0>> \notin gone
      BY <2>2 DEF RowsInv, GoneForGood, ShareLive
    <3>2. Presents(c) = <<"share", 0>>
      BY <1>10, Parameters DEF Presents
    <3>3. ~calls[c].cut
      BY <2>1, <3>1, <3>2 DEF InOrder
    <3> QED BY <1>1, <1>2, <2>1, <2>2, <3>3, OkServed
  <2>3. CASE Reply(c, "not_found")
    <3>1. /\ OnlyCall(c) /\ calls'[c].at = "answered" /\ calls'[c].answer = "not_found"
          /\ calls'[c].kind = calls[c].kind /\ calls'[c].cred = calls[c].cred /\ calls'[c].cut = calls[c].cut
      BY <2>1, <2>3, ReplySets DEF Answers
    <3>2. InOrder(c)'
      BY <1>1, <1>2, <2>1, <3>1, IsAnswered
    <3> QED BY <1>1, <1>2, <3>1, <3>2 DEF Served
  <2> QED BY <1>10, <2>2, <2>3 DEF UnlockShare
<1> QED BY <1>3, <1>4, <1>5, <1>6, <1>7, <1>8, <1>9, <1>10

\* Steps that write the account, whether or not it is still there.
LEMMA AccountServed ==
    ASSUME RowsInv, FlightInv, NEW c \in Clients \ {Screen}, Rehash(c) \/ ChangePassword(c)
    PROVE  Served(c)
<1>1. account \in [row : {"live", "gone"}, word : Words, cost : {"past", "present"}]
  BY DEF RowsInv, RowTypes
<1>2. /\ UNCHANGED <<now, sessions, tokens, share, gone>> /\ screen' = screen
      /\ (\E kind : Fail(kind)) \/ UNCHANGED faults
  BY DEF Rehash, ChangePassword, Outside
<1>3. faults' \in Nat
  BY <1>2, FaultsCounted DEF FlightInv
<1>4. calls[c].word \in Words /\ Other(calls[c].word) \in Words
  <2>1. calls[c].word \in Words
    BY CallColumns DEF FlightInv, Flight
  <2>2. \E w \in Words : w # calls[c].word
    BY DEF Words
  <2> QED BY <2>1, <2>2 DEF Other
<1>5. /\ account' \in [row : {"live", "gone"}, word : Words, cost : {"past", "present"}]
      /\ account'.row = account.row
  <2>1. \/ account' = account
        \/ \E w \in Words : account' = [account EXCEPT !.word = w, !.cost = "present"]
    BY <1>4 DEF Rehash, ChangePassword, Chosen
  <2> QED BY <1>1, <2>1
<1>6. RowsInv' /\ RowsMove
  BY <1>2, <1>5, RowsStay
<1>7. CASE Rehash(c)
  <2>1. calls[c].at = "read" /\ calls[c].kind = "signin" /\ Moves(c, "verified")
    BY <1>7 DEF Rehash, Only
  <2> QED BY <1>2, <1>3, <1>6, <2>1, MoveServed DEF NeedAuth, AccountKinds
<1>8. CASE ChangePassword(c)
  <2>1. calls[c].at = "verified" /\ calls[c].kind = "change" /\ (Reply(c, "ok") \/ Reply(c, "internal"))
    BY <1>8 DEF ChangePassword, Only
  <2> QED BY <1>2, <1>3, <1>6, <2>1, NotCut, OkServed, RefusalServed
<1> QED BY <1>7, <1>8

LEMMA CreateSessionServed ==
    ASSUME RowsInv, FlightInv, NEW c \in Clients \ {Screen}, CreateSession(c)
    PROVE  Served(c)
<1>1. RowsInv' /\ RowsMove /\ screen' = screen /\ faults' \in Nat
  BY CreateSessionRows DEF CreateSession, Outside, FlightInv, Flight
<1>2. calls[c].at = "verified" /\ calls[c].kind = "signin" /\ InOrder(c) /\ calls[c] \in Call /\ Flight
  BY DEF CreateSession, Only, FlightInv, Flight
<1>3. CASE ~AccountThere
  BY <1>1, <1>2, <1>3, RefusalServed DEF CreateSession
<1>4. CASE AccountThere
  <2> DEFINE fresh == Fresh(sessions)
  <2>1. Some(sessions) /\ Answer(c, "ok", fresh) /\ DOMAIN sessions = Sessions
    BY <1>4 DEF CreateSession, RowsInv, RowTypes
  <2>2. fresh \in Sessions
    BY <2>1 DEF Some, Fresh
  <2>3. sessions'[fresh].row = "live"
    BY <1>4, <2>1, <2>2 DEF CreateSession
  <2> HIDE DEF fresh
  <2>4. /\ OnlyCall(c) /\ calls'[c].at = "answered" /\ calls'[c].answer = "ok" /\ calls'[c].result = fresh
        /\ calls'[c].kind = calls[c].kind /\ calls'[c].cred = calls[c].cred /\ calls'[c].cut = calls[c].cut
    BY <1>2, <2>1, <2>2, AnswerSets DEF Answers, Credential
  <2>5. NamesSession(calls[c].result)'
    BY <2>2, <2>3, <2>4 DEF NamesSession
  <2>6. InOrder(c)'
    BY <1>1, <1>2, <2>4, <2>5, IsAnswered DEF NeedAuth
  <2> QED BY <1>1, <2>4, <2>6 DEF Served
<1> QED BY <1>3, <1>4

\* What Authenticate knows of the credential it looks up.
LEMMA Looked ==
    ASSUME RowsInv, FlightInv, NEW c \in Clients \ {Screen}, calls[c].at # "none", calls[c].kind \in NeedAuth
    PROVE  /\ c \in Browsers \/ c = Script
           /\ c \in Browsers => NamesSession(calls[c].cred)
           /\ c = Script => NamesToken(calls[c].cred)
           /\ c \in Browsers /\ sessions[calls[c].cred].row # "live" => <<"session", calls[c].cred>> \in gone
           /\ c = Script /\ tokens[calls[c].cred].row # "live" => <<"token", calls[c].cred>> \in gone
           /\ c \in Browsers /\ sessions[calls[c].cred].row = "live" => ~calls[c].cut
           /\ c = Script /\ tokens[calls[c].cred].row = "live" => ~calls[c].cut
<1>1. InOrder(c) /\ calls[c].cut \in BOOLEAN
  BY DEF FlightInv, Flight, Call
<1>2. /\ c \in Browsers \/ c = Script
      /\ c \in Browsers => NamesSession(calls[c].cred) /\ Presents(c) = <<"session", calls[c].cred>>
      /\ c = Script => NamesToken(calls[c].cred) /\ Presents(c) = <<"token", calls[c].cred>>
  BY <1>1, Parameters DEF InOrder, Presents
<1>3. calls[c].cut => Presents(c) \in gone
  BY <1>1 DEF InOrder
<1>4. c \in Browsers => /\ sessions[calls[c].cred].row \in {"live", "gone"}
                        /\ sessions[calls[c].cred].row = "gone" <=> <<"session", calls[c].cred>> \in gone
  BY <1>2 DEF NamesSession, RowsInv, RowTypes, GoneForGood, Session, Rows
<1>5. c = Script => /\ tokens[calls[c].cred].row \in {"live", "gone"}
                    /\ tokens[calls[c].cred].row = "gone" <=> <<"token", calls[c].cred>> \in gone
  BY <1>2 DEF NamesToken, RowsInv, RowTypes, GoneForGood, Token, Rows
<1> QED BY <1>1, <1>2, <1>3, <1>4, <1>5, Parameters

LEMMA AuthenticateServed ==
    ASSUME RowsInv, FlightInv, NEW c \in Clients \ {Screen}, Authenticate(c)
    PROVE  Served(c)
<1>1. calls[c].at = "sent" /\ calls[c].kind \in NeedAuth /\ InOrder(c) /\ calls[c] \in Call /\ Flight
  BY DEF Authenticate, Only, FlightInv, Flight
<1>2. /\ c \in Browsers \/ c = Script
      /\ c \in Browsers => NamesSession(calls[c].cred)
      /\ c \in Browsers /\ sessions[calls[c].cred].row # "live" => <<"session", calls[c].cred>> \in gone
      /\ c = Script /\ tokens[calls[c].cred].row # "live" => <<"token", calls[c].cred>> \in gone
      /\ c \in Browsers /\ sessions[calls[c].cred].row = "live" => ~calls[c].cut
      /\ c = Script /\ tokens[calls[c].cred].row = "live" => ~calls[c].cut
  BY <1>1, Looked
<1>3. RowsInv' /\ RowsMove /\ screen' = screen /\ faults' \in Nat /\ gone' = gone
  BY <1>1, <1>2, AuthenticateRows DEF Authenticate, Outside, FlightInv, Flight
<1> DEFINE s == sessions[calls[c].cred]
           admitted == IF c = Script THEN tokens[calls[c].cred].row = "live" ELSE s.row = "live" /\ ~Lapsed(s)
<1>4. CASE ~admitted
  <2>1. Reply(c, "unauthenticated") /\ sessions' = sessions
    BY <1>4 DEF Authenticate
  <2>2. /\ OnlyCall(c) /\ calls'[c].at = "answered" /\ calls'[c].answer = "unauthenticated"
        /\ calls'[c].kind = calls[c].kind /\ calls'[c].cred = calls[c].cred /\ calls'[c].cut = calls[c].cut
    BY <1>1, <2>1, ReplySets DEF Answers
  <2>3. IF c = Script THEN <<"token", calls'[c].cred>> \in gone'
        ELSE <<"session", calls'[c].cred>> \in gone' \/ Lapsed(sessions'[calls'[c].cred])
    BY <1>2, <1>3, <1>4, <2>1, <2>2, Parameters
  <2>4. InOrder(c)'
    BY <1>1, <1>3, <2>2, <2>3, IsAnswered DEF NeedAuth
  <2> QED BY <1>3, <2>2, <2>4 DEF Served
<1>5. CASE admitted /\ c \in Browsers /\ Due(s)
  <2> DEFINE w == [calls[c] EXCEPT !.at = "read", !.seen = s]
  <2>1. calls' = [calls EXCEPT ![c] = w] /\ sessions' = sessions
    BY <1>5 DEF Authenticate, Set
  <2>2. s \in Session
    BY <1>2, <1>5 DEF NamesSession, RowsInv, RowTypes
  <2>3. /\ w \in Call /\ w.at = "read" /\ w.seen = s
        /\ w.kind = calls[c].kind /\ w.cred = calls[c].cred /\ w.cut = calls[c].cut /\ w.answer = calls[c].answer
    BY <1>1, <2>2 DEF Call, Stages
  <2> HIDE DEF w
  <2>4. OnlyCall(c) /\ calls'[c] = w
    BY <1>1, <2>1, <2>3 DEF OnlyCall, Flight
  <2>5. ~Lapsed(sessions'[w.cred]) /\ w.seen.createdAt = sessions'[w.cred].createdAt /\ ~w.cut
    BY <1>2, <1>5, <2>1, <2>3, Parameters
  <2>6. InOrder(c)'
    BY <1>1, <1>3, <1>5, <2>3, <2>4, <2>5, GoesOn
  <2> QED BY <1>3, <2>4, <2>6 DEF Served
<1>6. CASE admitted /\ ~(c \in Browsers /\ Due(s))
  <2>1. Moves(c, "in")
    BY <1>6 DEF Authenticate
  <2>2. ~calls[c].cut
    BY <1>2, <1>6, Parameters
  <2> QED BY <1>1, <1>3, <2>1, <2>2, MoveServed
<1> QED BY <1>4, <1>5, <1>6

LEMMA TouchServed ==
    ASSUME RowsInv, FlightInv, NEW c \in Clients \ {Screen}, Touch(c)
    PROVE  Served(c)
<1>1. /\ calls[c].at = "read" /\ calls[c].kind \in NeedAuth /\ InOrder(c) /\ calls[c] \in Call /\ Flight
      /\ Moves(c, "in") /\ screen' = screen /\ ((\E kind : Fail(kind)) \/ UNCHANGED faults)
  BY DEF Touch, Only, FlightInv, Flight, Outside
<1>2. c \in Browsers /\ NamesSession(calls[c].cred) /\ ~Lapsed(sessions[calls[c].cred])
      /\ calls[c].seen.createdAt = sessions[calls[c].cred].createdAt
  BY <1>1 DEF InOrder
<1>3. RowsInv' /\ RowsMove /\ faults' \in Nat
  BY <1>1, <1>2, TouchRows, FaultsCounted
<1> QED BY <1>1, <1>3, NotCut, MoveServed

\* requireAccount turns away a token, and a session whose account has gone: that session went with it.
LEMMA RequireAccountServed ==
    ASSUME RowsInv, FlightInv, NEW c \in Clients \ {Screen}, RequireAccount(c)
    PROVE  Served(c)
<1>1. /\ calls[c].at = "in" /\ calls[c].kind \in AccountKinds /\ InOrder(c) /\ calls[c] \in Call /\ Flight
      /\ screen' = screen /\ faults' = faults /\ UNCHANGED <<now, store, gone>> /\ calls[c].kind \in NeedAuth
  BY DEF RequireAccount, Only, FlightInv, Flight, Outside, AccountKinds, NeedAuth, Kinds
<1>2. RowsInv' /\ RowsMove /\ faults' \in Nat
  BY <1>1, RowsUntouched DEF Flight
<1>3. CASE Reply(c, "session_required")
  BY <1>1, <1>2, <1>3, RefusalServed
<1>4. CASE HoldsSession(c) /\ account.row # "live" /\ Reply(c, "unauthenticated")
  <2>1. /\ OnlyCall(c) /\ calls'[c].at = "answered" /\ calls'[c].answer = "unauthenticated"
        /\ calls'[c].kind = calls[c].kind /\ calls'[c].cred = calls[c].cred /\ calls'[c].cut = calls[c].cut
    BY <1>1, <1>4, ReplySets DEF Answers
  <2>2. c \in Browsers /\ c # Script /\ NamesSession(calls[c].cred)
    BY <1>1, <1>4, Looked, Parameters DEF HoldsSession
  <2>3. sessions[calls[c].cred].row # "live"
    <3>1. Live(sessions) = {} /\ DOMAIN sessions = Sessions
      BY <1>4 DEF RowsInv, RowTypes, RemovalLeavesNothing
    <3> QED BY <2>2, <3>1 DEF Live, NamesSession
  <2>4. <<"session", calls[c].cred>> \in gone'
    BY <1>1, <2>2, <2>3, Looked
  <2>5. InOrder(c)'
    BY <1>1, <1>2, <2>1, <2>2, <2>4, IsAnswered DEF AccountKinds
  <2> QED BY <1>2, <2>1, <2>5 DEF Served
<1>5. CASE HoldsSession(c) /\ Set(c, [calls[c] EXCEPT !.at = "account", !.read = account.word])
  <2> DEFINE w == [calls[c] EXCEPT !.at = "account", !.read = account.word]
  <2>1. calls' = [calls EXCEPT ![c] = w]
    BY <1>5 DEF Set
  <2>2. account.word \in Words
    BY DEF RowsInv, RowTypes
  <2>3. /\ w \in Call /\ w.at = "account"
        /\ w.kind = calls[c].kind /\ w.cred = calls[c].cred /\ w.cut = calls[c].cut /\ w.answer = calls[c].answer
    BY <1>1, <2>2 DEF Call, Stages
  <2> HIDE DEF w
  <2>4. OnlyCall(c) /\ calls'[c] = w
    BY <1>1, <2>1, <2>3 DEF OnlyCall, Flight
  <2>5. ~calls[c].cut /\ c \in Browsers
    BY <1>1, <1>5, NotCut DEF HoldsSession
  <2>6. InOrder(c)'
    BY <1>1, <1>2, <2>3, <2>4, <2>5, GoesOn
  <2> QED BY <1>2, <2>4, <2>6 DEF Served
<1> QED BY <1>3, <1>4, <1>5 DEF RequireAccount

\* Steps that end sessions, or make and delete a token.
LEMMA CredentialsServed ==
    ASSUME RowsInv, FlightInv, NEW c \in Clients \ {Screen},
           RevokeSessions(c) \/ DeleteAPIToken(c) \/ SignOut(c)
    PROVE  Served(c)
<1>1. calls[c].at \notin {"none", "answered"} /\ screen' = screen /\ faults' \in Nat
  BY DEF RevokeSessions, DeleteAPIToken, SignOut, Only, Outside, FlightInv, Flight
<1>2. CASE RevokeSessions(c)
  <2>1. RowsInv' /\ RowsMove /\ calls[c].kind = "everywhere" /\ calls[c].at = "account"
        /\ (Reply(c, "ok") \/ Reply(c, "internal"))
    BY <1>2, RevokeSessionsRows DEF RevokeSessions, Only
  <2> QED BY <1>1, <2>1, NotCut, OkServed, RefusalServed
<1>3. CASE DeleteAPIToken(c)
  <2>1. RowsInv' /\ RowsMove /\ calls[c].kind = "revoke" /\ calls[c].at = "account"
        /\ (Reply(c, "ok") \/ Reply(c, "not_found"))
    BY <1>3, DeleteAPITokenRows DEF DeleteAPIToken, Only
  <2> QED BY <1>1, <2>1, NotCut, OkServed, RefusalServed
<1>4. CASE SignOut(c)
  <2>1. calls[c].kind = "signout" /\ calls[c].at = "sent" /\ Reply(c, "ok") /\ InOrder(c)
    BY <1>4 DEF SignOut, Only, FlightInv
  <2>2. NamesSession(calls[c].cred)
    BY <2>1, Parameters DEF InOrder, NeedAuth
  <2>3. RowsInv' /\ RowsMove
    BY <1>4, <2>2, SignOutRows
  <2> QED BY <1>1, <2>1, <2>3, OkServed DEF NeedAuth
<1> QED BY <1>2, <1>3, <1>4

LEMMA CreateAPITokenServed ==
    ASSUME RowsInv, FlightInv, NEW c \in Clients \ {Screen}, CreateAPIToken(c)
    PROVE  Served(c)
<1>1. /\ calls[c].at = "account" /\ calls[c].kind = "mint" /\ InOrder(c) /\ calls[c] \in Call /\ Flight
      /\ screen' = screen /\ faults' \in Nat
  BY DEF CreateAPIToken, Only, FlightInv, Flight, Outside
<1>2. c \in Browsers
  BY <1>1 DEF InOrder
<1>3. RowsInv' /\ RowsMove
  BY <1>2, CreateAPITokenRows
<1>4. CASE ~AccountThere
  BY <1>1, <1>3, <1>4, RefusalServed DEF CreateAPIToken
<1>5. CASE AccountThere
  <2> DEFINE fresh == Fresh(tokens)
  <2>1. /\ Some(tokens) /\ Answer(c, "ok", fresh) /\ tokens \in [Tokens -> Token]
        /\ tokens' = [tokens EXCEPT ![fresh] = [row |-> "live", by |-> c]]
    BY <1>5 DEF CreateAPIToken, RowsInv, RowTypes
  <2>2. fresh \in Tokens
    BY <2>1 DEF Some, Fresh
  <2> HIDE DEF fresh
  <2>3. tokens'[fresh].row = "live"
    BY <2>1, <2>2
  <2>4. /\ OnlyCall(c) /\ calls'[c].at = "answered" /\ calls'[c].answer = "ok" /\ calls'[c].result = fresh
        /\ calls'[c].kind = calls[c].kind /\ calls'[c].cred = calls[c].cred /\ calls'[c].cut = calls[c].cut
    BY <1>1, <2>1, <2>2, AnswerSets DEF Answers, Credential
  <2>5. NamesToken(calls[c].result)' /\ ~calls[c].cut
    BY <1>1, <2>2, <2>3, <2>4, NotCut DEF NamesToken, NeedAuth, Kinds
  <2>6. InOrder(c)'
    BY <1>1, <1>3, <2>4, <2>5, IsAnswered DEF NeedAuth
  <2> QED BY <1>1, <1>3, <2>4, <2>6 DEF Served
<1> QED BY <1>4, <1>5

LEMMA ShareServed ==
    ASSUME RowsInv, FlightInv, NEW c \in Clients \ {Screen}, CreateShare(c) \/ RevokeShare(c)
    PROVE  Served(c)
<1>1. calls[c].at = "in" /\ screen' = screen /\ faults' \in Nat /\ RowsInv' /\ RowsMove
  BY ShareRows DEF CreateShare, RevokeShare, Only, Outside, FlightInv, Flight
<1>2. CASE CreateShare(c)
  <2>1. Reply(c, "ok") /\ calls[c].kind = "publish" /\ share'.row = "live"
    BY <1>2 DEF CreateShare, Only
  <2> QED BY <1>1, <2>1, NotCut, OkServed
<1>3. CASE RevokeShare(c)
  <2>1. calls[c].kind = "withdraw" /\ (Reply(c, "ok") \/ Reply(c, "not_found"))
    BY <1>3 DEF RevokeShare, Only
  <2> QED BY <1>1, <2>1, NotCut, OkServed, RefusalServed
<1> QED BY <1>2, <1>3

\* What is held, and what the screen shows, rests on rows that stay.
LEMMA HeldStays ==
    ASSUME FlightInv, RowsMove, held' = held, screen' = screen
    PROVE  HeldInOrder' /\ ScreenInOrder'
<1>1. \A s : NamesSession(s) => NamesSession(s)'
  BY DEF RowsMove, NamesSession
<1>2. \A t : NamesToken(t) => NamesToken(t)'
  BY DEF RowsMove, NamesToken
<1>3. HeldInOrder'
  BY <1>1, <1>2 DEF FlightInv, HeldInOrder
<1>4. ScreenInOrder'
  BY DEF FlightInv, ScreenInOrder, RowsMove
<1> QED BY <1>3, <1>4

\* A step of one handler.
LEMMA ServedFlight ==
    ASSUME RowsInv, FlightInv, NEW c \in Clients, Served(c), UNCHANGED <<situation, held, screen, asked>>
    PROVE  RowsInv' /\ FlightInv'
<1>1. RowsInv' /\ RowsMove /\ OnlyCall(c) /\ InOrder(c)' /\ faults' \in Nat
  BY DEF Served
<1>2. Flight'
  BY <1>1 DEF FlightInv, Flight, OnlyCall
<1>3. ASSUME NEW d \in Clients PROVE InOrder(d)'
  <2>1. CASE d = c
    BY <1>1, <2>1
  <2>2. CASE d # c
    <3>1. InOrder(d) /\ ScreenInOrder /\ calls'[d] = calls[d]
      BY <1>1, <2>2 DEF FlightInv, OnlyCall
    <3> QED BY <1>1, <3>1, StaysInOrder
  <2> QED BY <2>1, <2>2
<1> QED BY <1>1, <1>2, <1>3, HeldStays DEF FlightInv

\* A step that leaves every request alone.
LEMMA FlightStays ==
    ASSUME RowsInv, FlightInv, RowsInv', RowsMove, UNCHANGED <<situation, calls, held, screen>>,
           asked' \in Nat, faults' \in Nat
    PROVE  FlightInv'
<1>1. Flight'
  BY DEF FlightInv, Flight
<1>2. ASSUME NEW d \in Clients PROVE InOrder(d)'
  <2>1. InOrder(d) /\ ScreenInOrder /\ calls'[d] = calls[d]
    BY DEF FlightInv
  <2> QED BY <2>1, StaysInOrder
<1> QED BY <1>1, <1>2, HeldStays DEF FlightInv

\* A request as it is sent.
LEMMA RequestFields ==
    ASSUME Flight, NEW c \in Clients, NEW kind \in Kinds, NEW word \in Words
    PROVE  LET r == Request(c, kind, word) IN
           /\ r \in Call /\ r.at = "sent" /\ r.kind = kind /\ r.cred = held[c] /\ r.cut = CutOff(c)
           /\ r.answer = "none"
<1>1. held[c] \in Credential
  BY DEF Flight
<1>2. CutOff(c) \in BOOLEAN
  <2>1. CASE c \in Browsers
    BY <2>1, Parameters, Zenon DEF CutOff
  <2>2. CASE c = Script
    BY <2>2, Parameters, Zenon DEF CutOff
  <2>3. CASE c = Screen
    <3>1. c \notin Browsers /\ ~(c = Script)
      BY <2>3, Parameters
    <3>2. CutOff(c) = (<<"share", 0>> \in gone)
      BY <2>3, <3>1, Zenon DEF CutOff
    <3> QED BY <3>2
  <2> QED BY <2>1, <2>2, <2>3, Parameters
<1>3. NoCall \in Call
  BY AccessAssumption DEF NoCall, Call, NoSession, Session, Rows, Stages, Kinds, Credential, Words, Answers, None
<1>4. NoCall.answer = "none"
  BY DEF NoCall
<1> HIDE DEF NoCall
<1> QED BY <1>1, <1>2, <1>3, <1>4 DEF Request, Call, Stages

\* What is presented is what the client holds; where that was ended, it is gone.
LEMMA RequestPresents ==
    ASSUME RowsInv, FlightInv, NEW c \in Clients,
           c # Screen => held[c] # None, c = Screen => screen.at # "off"
    PROVE  /\ c \in Browsers => NamesSession(held[c])
           /\ c = Script => NamesToken(held[c])
           /\ CutOff(c) => (CASE c \in Browsers -> <<"session", held[c]>> [] c = Script -> <<"token", held[c]>>
                              [] c = Screen -> <<"share", 0>>) \in gone
<1>1. CASE c \in Browsers
  BY <1>1, Parameters DEF FlightInv, HeldInOrder, CutOff
<1>2. CASE c = Script
  <2>1. NamesToken(held[c])
    BY <1>2, Parameters DEF FlightInv, HeldInOrder
  <2>2. held[c] \in Issued
    BY <2>1 DEF NamesToken, Issued, RowsInv
  <2> QED BY <1>2, <2>1, <2>2, Parameters DEF CutOff
<1>3. CASE c = Screen
  BY <1>3, Parameters DEF CutOff
<1> QED BY <1>1, <1>2, <1>3, Parameters

\* A request sets out in order.
LEMMA SentInOrder ==
    ASSUME RowsInv, FlightInv, NEW c \in Clients, NEW kind \in Kinds, NEW word \in Words,
           c = Screen <=> kind \in {"poll", "unlock"}, c = Script => kind \in NeedAuth,
           c = Screen => screen.at # "off", c # Screen /\ kind # "signin" => held[c] # None,
           Set(c, Request(c, kind, word)), UNCHANGED <<situation, now, store, gone, held, screen>>,
           asked' \in Nat, faults' \in Nat
    PROVE  RowsInv' /\ FlightInv'
<1> DEFINE r == Request(c, kind, word)
<1>1. RowsInv' /\ RowsMove
  BY RowsUntouched
<1>2. /\ r \in Call /\ r.at = "sent" /\ r.kind = kind /\ r.cred = held[c] /\ r.cut = CutOff(c) /\ r.answer = "none"
      /\ calls' = [calls EXCEPT ![c] = r] /\ calls \in [Clients -> Call]
  BY RequestFields DEF FlightInv, Flight, Set
<1> HIDE DEF r
<1>3. OnlyCall(c) /\ calls'[c] = r
  BY <1>2 DEF OnlyCall
<1> DEFINE p == CASE c \in Browsers -> <<"session", held[c]>> [] c = Script -> <<"token", held[c]>>
                  [] c = Screen -> <<"share", 0>>
<1>4. kind # "signin" => /\ c \in Browsers => NamesSession(held[c])
                         /\ c = Script => NamesToken(held[c])
                         /\ CutOff(c) => p \in gone
  BY RequestPresents
<1>5. Presents(c)' = p
  BY <1>2, <1>3 DEF Presents
<1> HIDE DEF p
<1>6. InOrder(c)'
  <2>1. kind # "signin" =>
           /\ c \in Browsers => NamesSession(calls[c].cred)'
           /\ c = Script => NamesToken(calls[c].cred)'
           /\ calls'[c].cut => Presents(c)' \in gone'
    BY <1>2, <1>3, <1>4, <1>5 DEF NamesSession, NamesToken, store
  <2>2. /\ calls'[c].at = "sent" /\ calls'[c].kind = kind /\ calls'[c].answer = "none"
        /\ screen' = screen /\ "signin" \notin NeedAuth \cup {"signout", "poll", "unlock"}
    BY <1>2, <1>3 DEF NeedAuth
  <2> QED BY <2>1, <2>2 DEF InOrder
<1>7. ASSUME NEW d \in Clients PROVE InOrder(d)'
  <2>1. CASE d = c
    BY <1>6, <2>1
  <2>2. CASE d # c
    <3>1. InOrder(d) /\ ScreenInOrder /\ calls'[d] = calls[d]
      BY <1>3, <2>2 DEF FlightInv, OnlyCall
    <3> QED BY <1>1, <3>1, StaysInOrder
  <2> QED BY <2>1, <2>2
<1>8. Flight'
  BY <1>3 DEF FlightInv, Flight, OnlyCall
<1> QED BY <1>1, <1>7, <1>8, HeldStays DEF FlightInv

\* A sign-in is sent, or turned away by the limiter before anything is looked up.
LEMMA AskSignInFlight ==
    ASSUME RowsInv, FlightInv, NEW c \in Clients \ {Screen}, AskSignIn(c)
    PROVE  RowsInv' /\ FlightInv'
<1>1. /\ c \in Browsers /\ asked' \in Nat /\ faults' \in Nat /\ UNCHANGED <<situation, now, store, gone, held, screen>>
      /\ c \in Clients /\ c # Screen /\ c # Script
  BY Parameters DEF AskSignIn, Asks, FlightInv, Flight
<1>2. \A w \in situation.words : w \in Words
  BY AccessAssumption DEF FlightInv, Flight, Words
<1>3. PICK w \in Words :
         Set(c, IF MayTry(buckets[c], now) THEN Request(c, "signin", w)
                ELSE [Request(c, "signin", w) EXCEPT !.at = "answered", !.answer = "rate_limited"])
  BY <1>2 DEF AskSignIn
<1>4. "signin" \in Kinds /\ "signin" \notin NeedAuth \cup {"signout", "poll", "unlock"}
  BY DEF Kinds, NeedAuth
<1>5. CASE MayTry(buckets[c], now)
  BY <1>1, <1>3, <1>4, <1>5, SentInOrder
<1>6. CASE ~MayTry(buckets[c], now)
  <2> DEFINE r == Request(c, "signin", w)
             n == [r EXCEPT !.at = "answered", !.answer = "rate_limited"]
  <2>1. calls' = [calls EXCEPT ![c] = n] /\ Flight
    BY <1>3, <1>6 DEF Set, FlightInv
  <2>2. r \in Call /\ r.kind = "signin"
    BY <1>1, <1>4, <2>1, RequestFields
  <2> HIDE DEF r
  <2>3. n \in Call /\ n.at = "answered" /\ n.answer = "rate_limited" /\ n.kind = "signin"
    BY <2>2 DEF Call, Stages, Answers
  <2> HIDE DEF n
  <2>4. OnlyCall(c) /\ calls'[c] = n
    BY <1>1, <2>1, <2>3 DEF OnlyCall, Flight
  <2>5. RowsInv' /\ RowsMove
    BY <1>1, RowsUntouched
  <2>6. InOrder(c)'
    <3>1. calls'[c].at = "answered" /\ calls'[c].answer = "rate_limited" /\ calls'[c].kind = "signin"
      BY <2>3, <2>4
    <3> QED BY <1>1, <1>4, <3>1 DEF InOrder, AccountKinds
  <2>7. ASSUME NEW d \in Clients PROVE InOrder(d)'
    <3>1. CASE d = c
      BY <2>6, <3>1
    <3>2. CASE d # c
      <4>1. InOrder(d) /\ ScreenInOrder /\ calls'[d] = calls[d]
        BY <2>4, <3>2 DEF FlightInv, OnlyCall
      <4> QED BY <1>1, <2>5, <4>1, StaysInOrder
    <3> QED BY <3>1, <3>2
  <2>8. Flight'
    BY <1>1, <2>1, <2>4 DEF Flight, OnlyCall
  <2> QED BY <1>1, <2>5, <2>7, <2>8, HeldStays DEF FlightInv
<1> QED BY <1>5, <1>6

\* Any other request is sent.
LEMMA AskFlight ==
    ASSUME RowsInv, FlightInv
    PROVE  /\ \A c \in Clients \ {Screen} : \A k \in NeedAuth \cup {"signout"} : Ask(c, k) => RowsInv' /\ FlightInv'
           /\ Poll \/ Unlock => RowsInv' /\ FlightInv'
<1>1. \A w \in situation.words : w \in Words
  BY AccessAssumption DEF FlightInv, Flight, Words
<1>2. NeedAuth \cup {"signout", "poll", "unlock"} \subseteq Kinds /\ "old" \in Words
      /\ "signin" \notin NeedAuth \cup {"signout", "poll", "unlock"} /\ {"poll", "unlock"} \cap NeedAuth = {}
  BY DEF NeedAuth, Kinds, Words
<1>3. ASSUME NEW c \in Clients \ {Screen}, NEW k \in NeedAuth \cup {"signout"}, Ask(c, k) PROVE RowsInv' /\ FlightInv'
  <2>1. /\ asked' \in Nat /\ faults' \in Nat /\ UNCHANGED <<situation, now, store, gone, held, screen>>
        /\ held[c] # None /\ (k = "signout" => c \in Browsers)
    BY <1>3 DEF Ask, Asks, FlightInv, Flight
  <2>2. PICK w \in Words : Set(c, Request(c, k, w))
    BY <1>1, <1>2, <1>3 DEF Ask
  <2>3. c \in Clients /\ k \in Kinds /\ (c = Script => k \in NeedAuth) /\ (c = Screen <=> k \in {"poll", "unlock"})
    BY <1>2, <2>1, Parameters
  <2> QED BY <2>1, <2>2, <2>3, SentInOrder
<1>4. ASSUME Poll \/ Unlock PROVE RowsInv' /\ FlightInv'
  <2>1. /\ asked' \in Nat /\ faults' \in Nat /\ UNCHANGED <<situation, now, store, gone, held, screen>>
        /\ screen.at # "off" /\ Screen \in Clients /\ Screen # Script
    BY <1>4, Parameters DEF Poll, Unlock, books, FlightInv, Flight
  <2>2. PICK k \in {"poll", "unlock"}, w \in Words : Set(Screen, Request(Screen, k, w))
    BY <1>1, <1>2, <1>4 DEF Poll, Unlock
  <2> QED BY <1>2, <2>1, <2>2, SentInOrder
<1> QED BY <1>3, <1>4

\* An answer is heard: what it hands out has a row, and the screen it puts a link on shows one that was published.
LEMMA HeardFlight ==
    ASSUME RowsInv, FlightInv, NEW c \in Clients, calls' = [calls EXCEPT ![c] = NoCall],
           UNCHANGED <<situation, now, store, gone, asked, faults>>,
           held' \in [Clients -> Credential], HeldInOrder',
           screen' \in [at : {"off", "showing", "stale", "locked", "dark"}, proof : BOOLEAN],
           screen.at # "off" => screen'.at # "off", ScreenInOrder'
    PROVE  RowsInv' /\ FlightInv'
<1>1. RowsInv' /\ RowsMove
  BY RowsUntouched
<1>2. NoCall \in Call
  BY AccessAssumption DEF NoCall, Call, NoSession, Session, Rows, Stages, Kinds, Credential, Words, Answers, None
<1>3. OnlyCall(c) /\ calls'[c] = NoCall
  BY <1>2 DEF OnlyCall, FlightInv, Flight
<1>4. NoCall.at = "none" /\ NoCall.cut = FALSE /\ NoCall.answer = "none"
  BY DEF NoCall
<1>5. InOrder(c)'
  BY <1>3, <1>4 DEF InOrder
<1>6. ASSUME NEW d \in Clients PROVE InOrder(d)'
  <2>1. CASE d = c
    BY <1>5, <2>1
  <2>2. CASE d # c
    <3>1. InOrder(d) /\ ScreenInOrder /\ calls'[d] = calls[d]
      BY <1>3, <2>2 DEF FlightInv, OnlyCall
    <3> QED BY <1>1, <3>1, StaysInOrder
  <2> QED BY <2>1, <2>2
<1>7. Flight'
  BY <1>3 DEF FlightInv, Flight, OnlyCall
<1> QED BY <1>1, <1>6, <1>7 DEF FlightInv

LEMMA HearFlight ==
    ASSUME RowsInv, FlightInv, NEW c \in Clients \ {Screen}, Hear(c)
    PROVE  RowsInv' /\ FlightInv'
<1> DEFINE a == calls[c].answer
           k == calls[c].kind
<1>1. /\ calls[c].at = "answered" /\ calls' = [calls EXCEPT ![c] = NoCall]
      /\ UNCHANGED <<situation, now, store, gone, asked, faults>>
      /\ held' = CASE k = "signin" /\ a = "ok" -> [held EXCEPT ![c] = calls[c].result]
                   [] k = "mint" /\ a = "ok" -> [held EXCEPT ![Script] = calls[c].result]
                   [] k = "signout" \/ (k = "everywhere" /\ a = "ok") -> [held EXCEPT ![c] = None]
                   [] OTHER -> held
      /\ screen' = IF k = "publish" /\ a = "ok" THEN [at |-> "stale", proof |-> FALSE] ELSE screen
  BY DEF Hear, books
<1>2. /\ InOrder(c) /\ calls[c].result \in Credential /\ held \in [Clients -> Credential] /\ None \in Credential
      /\ HeldInOrder /\ ScreenInOrder
      /\ screen \in [at : {"off", "showing", "stale", "locked", "dark"}, proof : BOOLEAN]
  BY DEF FlightInv, Flight, Call, Credential
<1> HIDE DEF a, k
<1>3. /\ k = "signin" /\ a = "ok" => NamesSession(calls[c].result) /\ c \in Browsers
      /\ k = "mint" /\ a = "ok" => NamesToken(calls[c].result)
      /\ k = "publish" /\ a = "ok" => share.row # "none"
  BY <1>1, <1>2, Parameters DEF InOrder, NeedAuth, a, k
<1>4. /\ \A s : NamesSession(s)' <=> NamesSession(s)
      /\ \A t : NamesToken(t)' <=> NamesToken(t)
      /\ ShareLive' <=> ShareLive
  BY <1>1 DEF NamesSession, NamesToken, ShareLive, store
<1>5. held' \in [Clients -> Credential] /\ HeldInOrder'
  <2>1. CASE k = "signin" /\ a = "ok"
    <3>1. held' = [held EXCEPT ![c] = calls[c].result]
      BY <1>1, <2>1
    <3> QED BY <1>2, <1>3, <1>4, <2>1, <3>1, Parameters DEF HeldInOrder
  <2>2. CASE k = "mint" /\ a = "ok"
    <3>1. held' = [held EXCEPT ![Script] = calls[c].result]
      BY <1>1, <2>2
    <3> QED BY <1>2, <1>3, <1>4, <2>2, <3>1, Parameters DEF HeldInOrder
  <2>3. CASE (k = "signout" \/ (k = "everywhere" /\ a = "ok")) /\ held' = [held EXCEPT ![c] = None]
    BY <1>2, <1>4, <2>3, Parameters DEF HeldInOrder
  <2>4. CASE held' = held
    BY <1>2, <1>4, <2>4 DEF HeldInOrder
  <2> QED BY <1>1, <2>1, <2>2, <2>3, <2>4
<1>6. /\ screen' \in [at : {"off", "showing", "stale", "locked", "dark"}, proof : BOOLEAN]
      /\ screen.at # "off" => screen'.at # "off"
      /\ ScreenInOrder'
  <2>1. CASE k = "publish" /\ a = "ok"
    <3>1. screen' = [at |-> "stale", proof |-> FALSE] /\ share'.row # "none"
      BY <1>1, <1>3, <2>1 DEF store
    <3> QED BY <3>1 DEF ScreenInOrder
  <2>2. CASE ~(k = "publish" /\ a = "ok")
    BY <1>1, <1>2, <1>4, <2>2 DEF ScreenInOrder, store
  <2> QED BY <2>1, <2>2
<1> QED BY <1>1, <1>5, <1>6, HeardFlight

\* The screen goes dark only where it was told that its link is gone.
LEMMA ScreenHearsFlight ==
    ASSUME RowsInv, FlightInv, Absorb \/ HearUnlock
    PROVE  RowsInv' /\ FlightInv'
<1>1. /\ Screen \in Clients /\ calls' = [calls EXCEPT ![Screen] = NoCall] /\ held' = held
      /\ UNCHANGED <<situation, now, store, gone, asked, faults>> /\ calls[Screen].at = "answered"
  BY Parameters DEF Absorb, HearUnlock, books, Only
<1>2. InOrder(Screen) /\ HeldInOrder /\ ScreenInOrder /\ held \in [Clients -> Credential]
      /\ screen \in [at : {"off", "showing", "stale", "locked", "dark"}, proof : BOOLEAN]
  BY <1>1 DEF FlightInv, Flight
<1>3. /\ \A s : NamesSession(s)' <=> NamesSession(s)
      /\ \A t : NamesToken(t)' <=> NamesToken(t)
      /\ ShareLive' <=> ShareLive
  BY <1>1 DEF NamesSession, NamesToken, ShareLive, store
<1>4. HeldInOrder'
  BY <1>1, <1>2, <1>3 DEF HeldInOrder
<1>5. screen.at # "off" /\ share'.row # "none"
  BY <1>1, <1>2 DEF InOrder, ScreenInOrder, store
<1>6. /\ screen' \in [at : {"off", "showing", "stale", "locked", "dark"}, proof : BOOLEAN] /\ screen'.at # "off"
      /\ screen'.at = "dark" => ~ShareLive
  <2>1. CASE Absorb
    <3> DEFINE a == calls[Screen].answer
               next == CASE a = "ok" -> "showing" [] a = "passphrase_required" -> "locked"
                         [] a = "not_found" -> "dark" [] OTHER -> "stale"
    <3>1. screen' = [screen EXCEPT !.at = next] /\ calls[Screen].kind = "poll"
      BY <2>1 DEF Absorb, Only
    <3>2. next \in {"showing", "stale", "locked", "dark"} /\ (next = "dark" => a = "not_found")
      OBVIOUS
    <3> HIDE DEF next
    <3>3. screen' \in [at : {"off", "showing", "stale", "locked", "dark"}, proof : BOOLEAN] /\ screen'.at = next
      BY <1>2, <3>1, <3>2
    <3> QED BY <1>2, <3>1, <3>2, <3>3 DEF InOrder
  <2>2. CASE HearUnlock
    <3>1. screen' = screen \/ screen' = [at |-> "stale", proof |-> TRUE]
      BY <2>2 DEF HearUnlock
    <3>2. CASE screen' = screen
      BY <1>2, <1>5, <3>2 DEF ScreenInOrder
    <3>3. CASE screen' = [at |-> "stale", proof |-> TRUE]
      BY <3>3
    <3> QED BY <3>1, <3>2, <3>3
  <2> QED BY <2>1, <2>2
<1>7. ScreenInOrder'
  BY <1>3, <1>5, <1>6 DEF ScreenInOrder
<1> QED BY <1>1, <1>2, <1>4, <1>6, <1>7, HeardFlight

\* An administrator's steps, and a tick, which waits until nobody has a request in flight.
LEMMA AdministratorFlight ==
    ASSUME RowsInv, FlightInv, SetPassword \/ RemoveAccount \/ Tick
    PROVE  RowsInv' /\ FlightInv'
<1>1. CASE SetPassword
  <2>1. /\ UNCHANGED <<situation, now, sessions, tokens, share, calls, held, screen, gone, faults>>
        /\ account' = [account EXCEPT !.word = "new", !.cost = "present"] /\ asked' = asked + 1
    BY <1>1 DEF SetPassword, Chosen, Administers
  <2>2. /\ account' \in [row : {"live", "gone"}, word : Words, cost : {"past", "present"}]
        /\ account'.row = account.row
    BY <2>1 DEF RowsInv, RowTypes, Words
  <2>3. RowsInv' /\ RowsMove
    BY <2>1, <2>2, RowsStay
  <2>4. asked' \in Nat /\ faults' \in Nat
    BY <2>1 DEF FlightInv, Flight
  <2> QED BY <2>1, <2>3, <2>4, FlightStays
<1>2. CASE RemoveAccount
  <2>1. UNCHANGED <<situation, calls, held, screen, faults>> /\ asked' = asked + 1
    BY <1>2 DEF RemoveAccount, Administers
  <2>2. RowsInv' /\ RowsMove
    BY <1>2, RemoveAccountRows
  <2>3. asked' \in Nat /\ faults' \in Nat
    BY <2>1 DEF FlightInv, Flight
  <2> QED BY <2>1, <2>2, <2>3, FlightStays
<1>3. CASE Tick
  <2>1. /\ now \in Nat /\ now' = now + 1 /\ UNCHANGED <<situation, calls, held, screen, asked, faults, store, gone>>
        /\ \A c \in Clients : calls[c].at = "none"
    BY <1>3 DEF Tick, books, RowsInv, RowTypes
  <2>2. RowsInv'
    BY <1>3, TickRows
  <2>3. Flight' /\ HeldInOrder'
    BY <2>1 DEF FlightInv, Flight, HeldInOrder, NamesSession, NamesToken, store
  <2>4. ScreenInOrder'
    <3>1. share.expiresAt \in Nat /\ share' = share
      BY <2>1 DEF RowsInv, RowTypes, store
    <3> QED BY <2>1, <3>1 DEF FlightInv, ScreenInOrder, ShareLive
  <2>5. ASSUME NEW c \in Clients PROVE InOrder(c)'
    <3>1. calls[c] = NoCall /\ calls'[c] = NoCall
      BY <2>1 DEF FlightInv, InOrder
    <3>2. NoCall.at = "none" /\ NoCall.cut = FALSE /\ NoCall.answer = "none"
      BY DEF NoCall
    <3> QED BY <3>1, <3>2 DEF InOrder
  <2> QED BY <2>2, <2>3, <2>4, <2>5 DEF FlightInv
<1> QED BY <1>1, <1>2, <1>3

\* Every step keeps the rows and the requests in order.
LEMMA NextFlight ==
    ASSUME RowsInv, FlightInv, Next
    PROVE  RowsInv' /\ FlightInv'
<1>1. ASSUME NEW c \in Clients \ {Screen}, Serve(c) PROVE RowsInv' /\ FlightInv'
  <2>1. Served(c)
    BY <1>1, QuietServed, AccountServed, CreateSessionServed, AuthenticateServed, TouchServed, RequireAccountServed,
       CredentialsServed, CreateAPITokenServed, ShareServed DEF Serve
  <2>2. UNCHANGED <<situation, held, screen, asked>>
    BY <1>1 DEF Serve, StoreFails, ReadAccount, Rehash, CreateSession, Authenticate, Touch, RequireAccount,
                VerifyCurrent, ChangePassword, RevokeSessions, CreateAPIToken, DeleteAPIToken, SignOut, Page,
                CreateShare, RevokeShare, Outside
  <2> QED BY <2>1, <2>2, ServedFlight
<1>2. CASE ServeScreen
  <2>1. Screen \in Clients
    BY Parameters
  <2>2. Served(Screen) /\ UNCHANGED <<situation, held, screen, asked>>
    BY <1>2, <2>1, QuietServed
       DEF ServeScreen, ShareLimited, RequireShare, PublicWallboard, UnlockShare, StoreFails, Outside
  <2> QED BY <2>1, <2>2, ServedFlight
<1>3. ASSUME NEW c \in Clients \ {Screen},
             AskSignIn(c) \/ Serve(c) \/ Hear(c) \/ \E k \in NeedAuth \cup {"signout"} : Ask(c, k)
      PROVE  RowsInv' /\ FlightInv'
  BY <1>1, <1>3, AskSignInFlight, HearFlight, AskFlight
<1>4. CASE Watch \/ Unlock \/ HearUnlock
  BY <1>2, <1>4, AskFlight, ScreenHearsFlight DEF Watch
<1>5. CASE SetPassword \/ RemoveAccount \/ Tick
  BY <1>5, AdministratorFlight
<1> QED BY <1>3, <1>4, <1>5 DEF Next

\* Every step keeps the budgets.
LEMMA NextBudget ==
    ASSUME BudgetInv, RowsInv, FlightInv, Next
    PROVE  BudgetInv'
<1>1. CASE \E key \in Sources : Charge(key) /\ now' = now
  BY <1>1, AttemptWithinBudget
<1>2. CASE UNCHANGED <<now, buckets, spent>>
  BY <1>2, BudgetStutters
<1>3. CASE Tick
  <2>1. now' = now + 1 /\ UNCHANGED <<buckets, spent>>
    BY <1>3 DEF Tick, books
  <2> QED BY <2>1, TickWithinBudget
<1>4. ASSUME NEW c \in Clients \ {Screen}, AskSignIn(c) PROVE \E key \in Sources : Charge(key) /\ now' = now
  BY <1>4 DEF AskSignIn, Sources
<1>5. ASSUME NEW c \in Clients, VerifyCurrent(c) PROVE \E key \in Sources : Charge(key) /\ now' = now
  BY <1>5 DEF VerifyCurrent, Sources, Outside
<1>6. ASSUME NEW c \in Clients \ {Screen}, Serve(c) \/ Hear(c) \/ \E k \in NeedAuth \cup {"signout"} : Ask(c, k)
      PROVE  (\E key \in Sources : Charge(key) /\ now' = now) \/ UNCHANGED <<now, buckets, spent>>
  <2>1. CASE VerifyCurrent(c)
    BY <1>5, <2>1
  <2>2. CASE Hear(c) \/ \E k \in NeedAuth \cup {"signout"} : Ask(c, k)
    BY <2>2 DEF Hear, Ask, books
  <2>3. CASE Serve(c) /\ ~VerifyCurrent(c)
    BY <2>3 DEF Serve, StoreFails, ReadAccount, Rehash, CreateSession, Authenticate, Touch, RequireAccount,
                ChangePassword, RevokeSessions, CreateAPIToken, DeleteAPIToken, SignOut, Page, CreateShare,
                RevokeShare, Outside
  <2> QED BY <1>6, <2>1, <2>2, <2>3
<1>7. CASE Watch \/ Unlock \/ HearUnlock \/ SetPassword \/ RemoveAccount
  <2>1. UNCHANGED <<now, buckets, spent>>
    BY <1>7 DEF Watch, Unlock, HearUnlock, SetPassword, RemoveAccount, Poll, ServeScreen, Absorb, ShareLimited,
                RequireShare, PublicWallboard, UnlockShare, StoreFails, Outside, books
  <2> QED BY <2>1, <1>2
<1> QED BY <1>1, <1>2, <1>3, <1>4, <1>6, <1>7 DEF Next

Inv == RowsInv /\ FlightInv /\ BudgetInv

\* Where every behaviour starts: an account, and nothing issued.
LEMMA InitInv == Init => Inv
<1> SUFFICES ASSUME Init PROVE Inv
  OBVIOUS
<1>1. NoSession \in Session /\ NoSession.row = "none" /\ NoToken \in Token /\ NoToken.row = "none"
  BY Parameters DEF NoSession, Session, Rows, NoToken, Token, None
<1>2. NoCall \in Call /\ NoCall.at = "none" /\ NoCall.cut = FALSE /\ NoCall.answer = "none"
  BY AccessAssumption DEF NoCall, Call, NoSession, Session, Rows, Stages, Kinds, Credential, Words, Answers, None
<1>3. RowTypes
  <2>1. account \in [row : {"live", "gone"}, word : Words, cost : {"past", "present"}]
    BY AccessAssumption DEF Init, Words
  <2>2. share \in [row : Rows, locked : BOOLEAN, expiresAt : Nat]
    BY DEF Init, Rows
  <2> QED BY <1>1, <2>1, <2>2 DEF Init, RowTypes
<1>4. (\A s \in Sessions : sessions[s].row = "none") /\ (\A t \in Tokens : tokens[t].row = "none") /\ share.row = "none"
      /\ DOMAIN sessions = Sessions /\ DOMAIN tokens = Tokens
  BY <1>1 DEF Init
<1>5. RowsInv
  <2>1. Live(sessions) = {} /\ gone = {} /\ account.row = "live"
    BY <1>4 DEF Live, Init
  <2> QED BY <1>3, <1>4, <2>1 DEF RowsInv, GoneForGood, UseIsRecorded, RemovalLeavesNothing
<1>6. FlightInv
  <2>1. ASSUME NEW c \in Clients PROVE InOrder(c)
    <3>1. calls[c] = NoCall
      BY DEF Init
    <3> QED BY <1>2, <3>1 DEF InOrder
  <2>2. Flight /\ HeldInOrder
    BY <1>2, Parameters DEF Init, Flight, HeldInOrder, Credential
  <2> QED BY <2>1, <2>2 DEF FlightInv, ScreenInOrder, Init
<1>7. BudgetInv
  BY DEF Init, BudgetInv, Sheet, Balance, WithinBudget
<1> QED BY <1>5, <1>6, <1>7 DEF Inv

\* The invariant holds whatever the two browsers, the script, the screen and the administrator do.
LEMMA InvHolds == Spec => []Inv
<1>1. Inv /\ [Next]_vars => Inv'
  <2>1. CASE Next
    BY <2>1, NextFlight, NextBudget DEF Inv
  <2>2. ASSUME Inv, UNCHANGED vars PROVE Inv'
    <3>1. /\ UNCHANGED <<situation, now, sessions, tokens, share, calls, held, screen, gone, asked, faults>>
          /\ account' = account /\ UNCHANGED <<buckets, spent>>
      BY <2>2 DEF vars, store
    <3>2. account' \in [row : {"live", "gone"}, word : Words, cost : {"past", "present"}] /\ account'.row = account.row
      BY <2>2, <3>1 DEF Inv, RowsInv, RowTypes
    <3>3. RowsInv' /\ RowsMove
      BY <2>2, <3>1, <3>2, RowsStay DEF Inv
    <3>4. FlightInv'
      BY <2>2, <3>1, <3>3, FlightStays DEF Inv, FlightInv, Flight
    <3> QED BY <2>2, <3>1, <3>3, <3>4, BudgetStutters DEF Inv
  <2> QED BY <2>1, <2>2
<1> QED BY <1>1, InitInv, PTL DEF Spec

-----------------------------------------------------------------------------
(* What follows *)

\* A session's row says when it ends: no later than its windows allow, no earlier than its use is worth.
LEMMA RecordedUseBounds ==
    ASSUME RowsInv
    PROVE  SessionsEndOnTime /\ UsedSessionsLast
<1>1. ASSUME NEW s \in Live(sessions)
      PROVE  /\ sessions[s].expiresAt <= Least(sessions[s].used + Ttl, sessions[s].createdAt + MaxAge)
             /\ sessions[s].expiresAt >= Least(sessions[s].used + Ttl - (RenewAfter - 1), sessions[s].createdAt + MaxAge)
  <2> DEFINE row == sessions[s]
  <2>1. row \in Session
    BY DEF Live, RowsInv, RowTypes
  <2>2. /\ row.expiresAt = Least(Recorded(row) + Ttl, row.createdAt + MaxAge)
        /\ Recorded(row) <= row.used /\ row.used - Recorded(row) < RenewAfter
    BY DEF RowsInv, UseIsRecorded
  <2> HIDE DEF row
  <2>3. row.createdAt \in Nat /\ row.used \in Nat /\ Recorded(row) \in Nat
    BY <2>1, SessionColumns
  <2>4. /\ row.expiresAt <= Least(row.used + Ttl, row.createdAt + MaxAge)
        /\ row.expiresAt >= Least(row.used + Ttl - (RenewAfter - 1), row.createdAt + MaxAge)
    BY <2>2, <2>3, Parameters DEF Least
  <2> QED BY <2>4 DEF row
<1> QED BY <1>1 DEF SessionsEndOnTime, UsedSessionsLast

\* Whoever was cut off is let in by nothing.
LEMMA CutIsNotServed ==
    ASSUME FlightInv, NEW c \in Clients, calls[c].cut
    PROVE  /\ calls[c].kind \in NeedAuth \cup {"poll", "unlock"} => calls[c].answer # "ok"
           /\ c = Script => calls[c].answer # "ok"
<1>1. InOrder(c)
  BY DEF FlightInv
<1>2. calls[c].at # "none"
  BY <1>1 DEF InOrder, NoCall
<1> QED BY <1>1, <1>2 DEF InOrder

LEMMA InvGives == Inv => AccessInv /\ EndedStaysEnded
<1> SUFFICES ASSUME Inv PROVE AccessInv /\ EndedStaysEnded
  OBVIOUS
<1>1. RowsInv /\ FlightInv /\ BudgetInv /\ \A c \in Clients : InOrder(c)
  BY DEF Inv, FlightInv
<1>2. TypeOK
  BY <1>1 DEF TypeOK, RowsInv, RowTypes, FlightInv, Flight, BudgetInv, Sheet
<1>3. EndedStaysEnded
  BY <1>1, CutIsNotServed DEF EndedStaysEnded
<1>4. RevokedTokenLeavesNothing
  BY <1>1, CutIsNotServed, Parameters DEF RevokedTokenLeavesNothing
<1>5. RefusedForAReason
  <2>1. ASSUME NEW c \in Clients \ {Screen}, calls[c].answer = "unauthenticated", calls[c].kind \in NeedAuth
        PROVE  IF c = Script THEN <<"token", calls[c].cred>> \in gone
               ELSE <<"session", calls[c].cred>> \in gone \/ Lapsed(sessions[calls[c].cred])
    BY <1>1, <2>1 DEF InOrder
  <2> QED BY <1>1, <2>1 DEF RefusedForAReason, FlightInv, ScreenInOrder
<1>6. HeldWasIssued
  <2>1. ASSUME NEW c \in Clients
        PROVE  IF calls[c].at = "none" THEN calls[c] = NoCall ELSE
               /\ c = Screen <=> calls[c].kind \in {"poll", "unlock"}
               /\ c = Script => calls[c].kind \in NeedAuth /\ NamesToken(calls[c].cred)
               /\ c \in Browsers /\ calls[c].kind \in NeedAuth \cup {"signout"} => NamesSession(calls[c].cred)
               /\ calls[c].answer # "none" <=> calls[c].at = "answered"
               /\ calls[c].kind = "signin" /\ calls[c].answer = "ok" => NamesSession(calls[c].result)
               /\ calls[c].kind = "mint" /\ calls[c].answer = "ok" => NamesToken(calls[c].result)
               /\ calls[c].at = "account" \/ (calls[c].kind \in AccountKinds /\ calls[c].at = "verified") =>
                     c \in Browsers
    BY <1>1 DEF InOrder
  <2> QED BY <1>1, <2>1 DEF HeldWasIssued, FlightInv, HeldInOrder, RowsInv
<1>7. CutIsRefused
  <2>1. ASSUME NEW c \in Clients, calls[c].cut, calls[c].kind \in NeedAuth \cup {"poll", "unlock"}
        PROVE  calls[c].at \in {"sent", "answered"} /\ calls[c].answer # "ok" /\ Presents(c) \in gone
    BY <1>1, <2>1 DEF InOrder
  <2> QED BY <2>1 DEF CutIsRefused, Presents
<1>8. TouchIsTimely
  BY <1>1 DEF TouchIsTimely, InOrder
<1>9. ScreenFollowsShare
  <2>1. Screen \in Clients /\ InOrder(Screen)
    BY <1>1, Parameters
  <2>2. ASSUME NEW c \in Clients, calls[c].kind = "publish", calls[c].answer = "ok" PROVE share.row # "none"
    BY <1>1, <2>2 DEF InOrder
  <2> QED BY <1>1, <2>1, <2>2 DEF ScreenFollowsShare, FlightInv, ScreenInOrder, InOrder
<1> QED BY <1>1, <1>2, <1>3, <1>4, <1>5, <1>6, <1>7, <1>8, <1>9, RecordedUseBounds
       DEF AccessInv, RowsInv, BudgetInv

(* What the requests in flight leave of the credentials, for any number of   *)
(* browsers: a revoked token lets nothing in, no session outlives its        *)
(* windows or falls short of what its use is worth, and nobody is refused    *)
(* but for the credential's own sake.                                        *)
THEOREM AccessInvHolds == Spec => []AccessInv
<1>1. Inv => AccessInv
  BY InvGives
<1> QED BY <1>1, InvHolds, PTL

(* A session that was signed out, swept or removed, and a link that was      *)
(* withdrawn, lets nobody in again, whatever was being done with its row.    *)
THEOREM EndedStaysEndedHolds == Spec => []EndedStaysEnded
<1>1. Inv => EndedStaysEnded
  BY InvGives
<1> QED BY <1>1, InvHolds, PTL

(* DeleteAccount leaves no session and no token, withAccount makes none for  *)
(* an account that has gone.                                                 *)
THEOREM RemovalLeavesNothingHolds == Spec => []RemovalLeavesNothing
<1>1. Inv => RemovalLeavesNothing
  BY DEF Inv, RowsInv
<1> QED BY <1>1, InvHolds, PTL

(* No stretch of time sees more attempts through a bucket than the burst and *)
(* what came back meanwhile, for every burst, refill and idle time, and      *)
(* wherever the sweep falls.                                                 *)
THEOREM WithinBudgetHolds == Spec => []WithinBudget
<1>1. Inv => WithinBudget
  BY DEF Inv, BudgetInv
<1> QED BY <1>1, InvHolds, PTL

=============================================================================
