------------------------------ MODULE LineProofs ------------------------------
(***************************************************************************)
(* Theorems about the domain logic on orders of any length.  The logic     *)
(* folds over the lines of an order, and a fold is what its step makes of  *)
(* it line by line: the first part proves that by induction on the number  *)
(* of lines, as the absence of a least counterexample.                     *)
(***************************************************************************)
EXTENDS DoorPolicies, WellFoundedInduction, TLAPS

-----------------------------------------------------------------------------
(* Least numbers and induction.                                            *)

LEMMA LeastIn ==
  ASSUME NEW R, \A x, y \in Nat : x < y => <<x, y>> \in R, IsWellFoundedOn(R, Nat),
         NEW T, T \subseteq Nat, T # {}
  PROVE  \E m \in T : \A k \in T : m <= k
<1>1. \E x \in T : \A y \in T : ~ (<<y, x>> \in R)
  BY WFMin
<1>2. PICK x \in T : \A y \in T : ~ (<<y, x>> \in R)
  BY <1>1
<1>3. ASSUME NEW k \in T PROVE x <= k
  <2>1. x \in Nat /\ k \in Nat
    OBVIOUS
  <2>2. ~ (k < x)
    BY <2>1, <1>2
  <2> QED BY <2>1, <2>2
<1> QED BY <1>3

\* A set of numbers that is not empty has a least one.
LEMMA LeastNat ==
  ASSUME NEW T, T \subseteq Nat, T # {}
  PROVE  \E m \in T : \A k \in T : m <= k
<1>1. IsWellFoundedOn(OpToRel(<, Nat), Nat)
  BY NatLessThanWellFounded
<1>2. \A x, y \in Nat : x < y => <<x, y>> \in OpToRel(<, Nat)
  BY Zenon DEF OpToRel
<1> QED BY <1>1, <1>2, LeastIn

\* Induction up to n, with what is to be shown as a set of numbers.
LEMMA UpTo ==
  ASSUME NEW n \in Nat, NEW S, 0 \in S, \A k \in 0..n : k # n /\ k \in S => k + 1 \in S
  PROVE  \A k \in 0..n : k \in S
<1> DEFINE T == {k \in 0..n : k \notin S}
<1>1. SUFFICES ASSUME T # {} PROVE FALSE
  OBVIOUS
<1>2. T \subseteq Nat
  OBVIOUS
<1>3. PICK m \in T : \A k \in T : m <= k
  BY <1>1, <1>2, LeastNat
<1>4. m # 0 /\ m \in 0..n
  OBVIOUS
<1>5. m - 1 \in 0..n /\ m - 1 # n /\ ~ (m <= m - 1)
  BY <1>4
<1>6. m - 1 \in S
  BY <1>3, <1>5
<1>7. (m - 1) + 1 = m
  BY <1>4
<1> QED BY <1>5, <1>6, <1>7

\* A set of numbers below a bound that is not empty has a greatest one.
LEMMA GreatestNat ==
  ASSUME NEW n \in Nat, NEW T, T \subseteq 0..n, T # {}
  PROVE  \E m \in T : \A k \in T : k <= m
<1> DEFINE U == {k \in Nat : \A t \in T : t <= k}
<1>1. n \in U /\ U \subseteq Nat
  OBVIOUS
<1>2. PICK u \in U : \A k \in U : u <= k
  BY <1>1, LeastNat
<1>3. SUFFICES ASSUME u \notin T PROVE FALSE
  OBVIOUS
<1>4. \A t \in T : t <= u - 1
  <2> TAKE t \in T
  <2>1. t <= u /\ t # u /\ t \in Nat /\ u \in Nat
    BY <1>3
  <2> QED BY <2>1
<1>5. u - 1 \in Nat
  <2>1. PICK t \in T : TRUE
    OBVIOUS
  <2>2. t \in Nat /\ t <= u - 1 /\ u \in Nat
    BY <1>4
  <2> QED BY <2>2
<1>6. u - 1 \in U
  BY <1>4, <1>5
<1> QED BY <1>2, <1>6

LEMMA MaxOf ==
  ASSUME NEW n \in Nat, NEW T \in SUBSET (1..n), T # {}
  PROVE  Max(T) \in T /\ \A k \in T : k <= Max(T)
<1>1. T \subseteq 0..n
  OBVIOUS
<1>2. \E m \in T : \A k \in T : k <= m
  BY <1>1, GreatestNat
<1>3. \E m \in T : \A k \in T : m >= k
  <2>1. PICK m \in T : \A k \in T : k <= m
    BY <1>2
  <2>2. \A k \in T : m >= k
    <3> TAKE k \in T
    <3>1. k <= m /\ k \in Nat /\ m \in Nat
      BY <2>1
    <3> QED BY <3>1
  <2> QED BY <2>2
<1>4. Max(T) \in T /\ \A k \in T : Max(T) >= k
  BY <1>3 DEF Max
<1>5. ASSUME NEW k \in T PROVE k <= Max(T)
  <2>1. Max(T) \in 1..n /\ k \in 1..n
    BY <1>4
  <2>2. Max(T) >= k
    BY <1>4
  <2> QED BY <2>1, <2>2
<1> QED BY <1>4, <1>5

LEMMA MaxOfInterval ==
  ASSUME NEW k \in Nat, k # 0
  PROVE  Max(1..k) = k /\ (1..k) \ {k} = 1..(k - 1)
<1>1. k \in 1..k /\ 1..k \in SUBSET (1..k)
  OBVIOUS
<1>2. Max(1..k) \in 1..k /\ k <= Max(1..k)
  BY <1>1, MaxOf
<1>3. Max(1..k) = k
  BY <1>2
<1> QED BY <1>3

-----------------------------------------------------------------------------
(* Folds.  FoldLeft takes the places of a sequence off one by one, the     *)
(* last first, by a function on the sets of places that are left.          *)

Folding(k, base, step, it) ==
  /\ it[{}] = base
  /\ \A t \in SUBSET (1..k) : t # {} => it[t] = step[Max(t)][it[t \ {Max(t)}]]

LEMMA FoldExists ==
  ASSUME NEW n \in Nat, NEW V, NEW base \in V, NEW step \in [1..n -> [V -> V]]
  PROVE  \E it \in [SUBSET (1..n) -> V] : Folding(n, base, step, it)
<1> DEFINE S == {k \in 0..n : \E it \in [SUBSET (1..k) -> V] : Folding(k, base, step, it)}
<1>1. 0 \in S
  <2> DEFINE it == [t \in SUBSET (1..0) |-> base]
  <2>1. it \in [SUBSET (1..0) -> V]
    OBVIOUS
  <2>2. 1..0 = {}
    OBVIOUS
  <2>3. \A t \in SUBSET (1..0) : t = {}
    BY <2>2
  <2>4. Folding(0, base, step, it)
    BY <2>3 DEF Folding
  <2>5. 0 \in 0..n
    OBVIOUS
  <2> HIDE DEF it
  <2> QED BY <2>1, <2>4, <2>5
<1>2. ASSUME NEW k \in 0..n, k # n, k \in S PROVE k + 1 \in S
  <2>1. PICK it \in [SUBSET (1..k) -> V] : Folding(k, base, step, it)
    BY <1>2
  <2> DEFINE m == k + 1
             next == [t \in SUBSET (1..m) |->
                        IF m \in t THEN step[m][it[t \ {m}]] ELSE it[t]]
  <2>2. k \in Nat /\ m \in 1..n /\ m \in Nat /\ m # 0
    BY <1>2
  <2>3. \A t \in SUBSET (1..m) : m \notin t => t \in SUBSET (1..k)
    BY <2>2
  <2>4. \A t \in SUBSET (1..m) : t \ {m} \in SUBSET (1..k)
    BY <2>2
  <2>5. step[m] \in [V -> V]
    BY <2>2
  <2> HIDE DEF m
  <2>6. ASSUME NEW t \in SUBSET (1..m) PROVE next[t] \in V
    <3>1. CASE m \in t
      BY <3>1, <2>4, <2>5
    <3>2. CASE m \notin t
      BY <3>2, <2>3
    <3> QED BY <3>1, <3>2
  <2>7. next \in [SUBSET (1..m) -> V]
    BY <2>6
  <2>8. next[{}] = base
    BY <2>1 DEF Folding
  <2>9. ASSUME NEW t \in SUBSET (1..m), t # {}
        PROVE  next[t] = step[Max(t)][next[t \ {Max(t)}]]
    <3>1. Max(t) \in t /\ \A j \in t : j <= Max(t)
      BY <2>2, <2>9, MaxOf
    <3>2. t \ {Max(t)} \in SUBSET (1..m)
      OBVIOUS
    <3>3. CASE m \in t
      <4>1. Max(t) \in 1..m /\ m <= Max(t)
        BY <3>1, <3>3
      <4>2. Max(t) = m
        BY <2>2, <4>1
      <4>3. next[t \ {m}] = it[t \ {m}]
        BY <3>2, <4>2
      <4> QED BY <3>3, <4>2, <4>3
    <3>4. CASE m \notin t
      <4>1. t \in SUBSET (1..k)
        BY <2>3, <3>4
      <4>2. it[t] = step[Max(t)][it[t \ {Max(t)}]]
        BY <2>1, <2>9, <4>1 DEF Folding
      <4>3. next[t] = it[t] /\ next[t \ {Max(t)}] = it[t \ {Max(t)}]
        BY <3>2, <3>4
      <4> QED BY <4>2, <4>3
    <3> QED BY <3>3, <3>4
  <2>10. Folding(m, base, step, next)
    BY <2>8, <2>9 DEF Folding
  <2>11. m \in 0..n
    BY <2>2
  <2>12. m \in S
    BY <2>7, <2>10, <2>11
  <2> QED BY <2>12 DEF m
<1> HIDE DEF S
<1>3. \A k \in 0..n : k \in S
  BY <1>1, <1>2, UpTo
<1>4. n \in S
  BY <1>3
<1> QED BY <1>4 DEF S

-----------------------------------------------------------------------------
(* The stock snapshot.                                                     *)

EntryOf(line) == [sku |-> SkuOf(line), qty_needed |-> NumberOr(RequestedQty(line), 1),
                  channel_stock |-> ChannelBaseStock]

Entries == {EntryOf(line) : line \in Lines}

LEMMA TakeLineTyped ==
  ASSUME NEW snapshot \in Seq(Entries), NEW line \in Lines
  PROVE  TakeLine(snapshot, line) \in Seq(Entries)
<1>1. EntryOf(line) \in Entries
  BY DEF Entries
<1>2. PutLine(snapshot, line) =
        IF \E i \in DOMAIN snapshot : snapshot[i].sku = EntryOf(line).sku
          THEN [i \in DOMAIN snapshot |->
                  IF snapshot[i].sku = EntryOf(line).sku THEN EntryOf(line) ELSE snapshot[i]]
          ELSE Append(snapshot, EntryOf(line))
  BY DEF PutLine, EntryOf
<1> HIDE DEF EntryOf
<1>3. PutLine(snapshot, line) \in Seq(Entries)
  BY <1>1, <1>2
<1> QED BY <1>3 DEF TakeLine

\* The fold, line by line.
LEMMA SnapshotPath ==
  ASSUME NEW s \in Seq(Lines)
  PROVE  \E p : /\ p[0] = <<>>
                /\ \A k \in 1..Len(s) : p[k] = TakeLine(p[k - 1], s[k])
                /\ AggregateInventory(s) = p[Len(s)]
<1> DEFINE n == Len(s)
           it == CHOOSE iter : iter =
                   [t \in SUBSET (DOMAIN s) |->
                      IF t = {} THEN <<>> ELSE TakeLine(iter[t \ {Max(t)}], s[Max(t)])]
<1>1. AggregateInventory(s) = it[DOMAIN s]
  BY DEF AggregateInventory, FoldLeft, MapThenFoldSet
<1>2. n \in Nat /\ DOMAIN s = 1..n
  OBVIOUS
<1>3. \E iter : iter = [t \in SUBSET (DOMAIN s) |->
                          IF t = {} THEN <<>> ELSE TakeLine(iter[t \ {Max(t)}], s[Max(t)])]
  <2> DEFINE V    == Seq(Entries)
             step == [k \in 1..n |-> [v \in V |-> TakeLine(v, s[k])]]
  <2>1. <<>> \in V
    OBVIOUS
  <2>2. \A k \in 1..n, v \in V : TakeLine(v, s[k]) \in V
    BY <1>2, TakeLineTyped
  <2>3. \A k \in 1..n, v \in V : step[k][v] = TakeLine(v, s[k])
    OBVIOUS
  <2>4. step \in [1..n -> [V -> V]]
    BY <2>2
  <2> HIDE DEF V, step, n, it
  <2>5. PICK iter \in [SUBSET (1..n) -> V] : Folding(n, <<>>, step, iter)
    BY <1>2, <2>1, <2>4, FoldExists
  <2>6. ASSUME NEW t \in SUBSET (1..n)
        PROVE  iter[t] = IF t = {} THEN <<>> ELSE TakeLine(iter[t \ {Max(t)}], s[Max(t)])
    <3>1. CASE t = {}
      BY <2>5, <3>1 DEF Folding
    <3>2. CASE t # {}
      <4>1. Max(t) \in 1..n
        BY <1>2, <3>2, MaxOf
      <4>2. iter[t \ {Max(t)}] \in V
        OBVIOUS
      <4> QED BY <2>3, <2>5, <3>2, <4>1, <4>2 DEF Folding
    <3> QED BY <3>1, <3>2
  <2>7. iter = [t \in SUBSET (1..n) |->
                  IF t = {} THEN <<>> ELSE TakeLine(iter[t \ {Max(t)}], s[Max(t)])]
    BY <2>6
  <2> QED BY <1>2, <2>7
<1>4. it = [t \in SUBSET (DOMAIN s) |->
              IF t = {} THEN <<>> ELSE TakeLine(it[t \ {Max(t)}], s[Max(t)])]
  BY <1>3
<1> HIDE DEF it, n
<1> DEFINE p == [k \in 0..n |-> it[1..k]]
<1>5. it[{}] = <<>>
  BY <1>4
<1>6. p[0] = <<>>
  BY <1>2, <1>5
<1>7. ASSUME NEW k \in 1..n PROVE p[k] = TakeLine(p[k - 1], s[k])
  <2>1. 1..k \in SUBSET (DOMAIN s) /\ 1..k # {} /\ k \in Nat /\ k # 0
    BY <1>2
  <2>2. Max(1..k) = k /\ (1..k) \ {k} = 1..(k - 1)
    BY <2>1, MaxOfInterval
  <2>3. it[1..k] = TakeLine(it[(1..k) \ {Max(1..k)}], s[Max(1..k)])
    BY <1>4, <2>1
  <2>4. k \in 0..n /\ k - 1 \in 0..n
    BY <1>2
  <2> QED BY <2>2, <2>3, <2>4
<1>8. AggregateInventory(s) = p[n]
  BY <1>1, <1>2
<1> HIDE DEF p
<1> QED BY <1>6, <1>7, <1>8 DEF n

LEMMA SnapshotGrows ==
  /\ AggregateInventory(<<>>) = <<>>
  /\ \A s \in Seq(Lines), line \in Lines :
       AggregateInventory(Append(s, line)) = TakeLine(AggregateInventory(s), line)
<1>1. AggregateInventory(<<>>) = <<>>
  <2>1. <<>> \in Seq(Lines) /\ Len(<<>>) = 0
    OBVIOUS
  <2> QED BY <2>1, SnapshotPath
<1>2. ASSUME NEW s \in Seq(Lines), NEW line \in Lines
      PROVE  AggregateInventory(Append(s, line)) = TakeLine(AggregateInventory(s), line)
  <2> DEFINE n == Len(s)
             longer == Append(s, line)
  <2>1. n \in Nat /\ longer \in Seq(Lines) /\ Len(longer) = n + 1 /\ longer[n + 1] = line
    OBVIOUS
  <2>2. \A k \in 1..n : longer[k] = s[k]
    OBVIOUS
  <2>3. PICK p : /\ p[0] = <<>>
                 /\ \A k \in 1..n : p[k] = TakeLine(p[k - 1], s[k])
                 /\ AggregateInventory(s) = p[n]
    BY SnapshotPath
  <2>4. PICK q : /\ q[0] = <<>>
                 /\ \A k \in 1..(n + 1) : q[k] = TakeLine(q[k - 1], longer[k])
                 /\ AggregateInventory(longer) = q[n + 1]
    BY <2>1, SnapshotPath
  <2> HIDE DEF n, longer
  <2> DEFINE S == {k \in 0..n : p[k] = q[k]}
  <2>5. 0 \in S
    BY <2>1, <2>3, <2>4
  <2>6. ASSUME NEW k \in 0..n, k # n, k \in S PROVE k + 1 \in S
    <3>1. k + 1 \in 1..n /\ k + 1 \in 1..(n + 1) /\ k + 1 \in 0..n /\ (k + 1) - 1 = k
      BY <2>1, <2>6
    <3>2. p[k + 1] = TakeLine(p[k], s[k + 1]) /\ q[k + 1] = TakeLine(q[k], longer[k + 1])
      BY <2>3, <2>4, <3>1
    <3>3. p[k + 1] = q[k + 1]
      BY <2>2, <2>6, <3>1, <3>2
    <3> QED BY <3>1, <3>3
  <2> HIDE DEF S
  <2>7. \A k \in 0..n : k \in S
    BY <2>1, <2>5, <2>6, UpTo
  <2>8. p[n] = q[n]
    BY <2>1, <2>7 DEF S
  <2>9. n + 1 \in 1..(n + 1) /\ (n + 1) - 1 = n
    BY <2>1
  <2>10. q[n + 1] = TakeLine(q[n], line)
    BY <2>1, <2>4, <2>9
  <2> QED BY <2>3, <2>4, <2>8, <2>10 DEF longer
<1> QED BY <1>1, <1>2

LEMMA Extremes ==
  ASSUME NEW n \in Nat, NEW K, K \subseteq 1..n, K # {}
  PROVE  /\ Earliest(K) \in K /\ \A m \in K : Earliest(K) <= m
         /\ Latest(K) \in K /\ \A m \in K : m <= Latest(K)
<1>1. K \subseteq Nat /\ K \subseteq 0..n
  OBVIOUS
<1>2. \E k \in K : \A m \in K : k <= m
  BY <1>1, LeastNat
<1>3. \E k \in K : \A m \in K : m <= k
  BY <1>1, GreatestNat
<1> QED BY <1>2, <1>3 DEF Earliest, Latest

LEMMA OneMore ==
  ASSUME NEW n \in Nat, NEW K, K \subseteq 1..n
  PROVE  /\ Latest(K \cup {n + 1}) = n + 1
         /\ Earliest(K \cup {n + 1}) = IF K = {} THEN n + 1 ELSE Earliest(K)
<1> DEFINE M == K \cup {n + 1}
<1>1. M \subseteq 1..(n + 1) /\ M # {} /\ n + 1 \in Nat
  OBVIOUS
<1>2. /\ Earliest(M) \in M /\ \A m \in M : Earliest(M) <= m
      /\ Latest(M) \in M /\ \A m \in M : m <= Latest(M)
  BY <1>1, Extremes
<1>3. Latest(M) = n + 1
  <2>1. Latest(M) \in 1..(n + 1) /\ n + 1 <= Latest(M)
    BY <1>1, <1>2
  <2> QED BY <2>1
<1>4. CASE K = {}
  BY <1>2, <1>3, <1>4
<1>5. CASE K # {}
  <2>1. Earliest(K) \in K /\ \A m \in K : Earliest(K) <= m
    BY <1>5, Extremes
  <2>2. Earliest(K) \in 1..n /\ Earliest(M) \in 1..(n + 1) /\ Earliest(M) <= Earliest(K)
    BY <1>1, <1>2, <2>1
  <2>3. Earliest(M) \in K
    BY <1>2, <2>2
  <2>4. Earliest(K) <= Earliest(M)
    BY <2>1, <2>3
  <2>5. Earliest(M) = Earliest(K)
    BY <2>2, <2>4
  <2> QED BY <1>3, <1>5, <2>5
<1> QED BY <1>4, <1>5

\* The inductive invariant: what SnapshotKeepsTheLastNeed says, of every order.
LastNeedInv ==
  /\ items \in Seq(Lines)
  /\ Snapshot \in Seq(Entries)
  /\ \A k \in ReadableAt : \E i \in DOMAIN Snapshot : Snapshot[i].sku = SkuOf(items[k])
  /\ \A i \in DOMAIN Snapshot : Naming(items, Snapshot[i].sku) # {}
  /\ \A i, j \in DOMAIN Snapshot :
       i < j => Earliest(Naming(items, Snapshot[i].sku))
                  < Earliest(Naming(items, Snapshot[j].sku))
  /\ \A i \in DOMAIN Snapshot :
       Snapshot[i].qty_needed =
         NumberOr(RequestedQty(items[Latest(Naming(items, Snapshot[i].sku))]), 1)

LEMMA LastNeedInit == LinesInit => LastNeedInv
<1> SUFFICES ASSUME LinesInit PROVE LastNeedInv
  OBVIOUS
<1>1. items = <<>> /\ Snapshot = <<>>
  BY SnapshotGrows DEF LinesInit, Snapshot
<1>2. ReadableAt = {}
  BY <1>1 DEF ReadableAt
<1> QED BY <1>1, <1>2 DEF LastNeedInv

\* What one more line changes.
LEMMA LineAdded ==
  ASSUME LastNeedInv, NEW line \in Lines, items' = Append(items, line)
  PROVE  LET n == Len(items)
         IN  /\ n \in Nat /\ ReadableAt \subseteq 1..n
             /\ items' \in Seq(Lines)
             /\ Snapshot' = TakeLine(Snapshot, line) /\ Snapshot' \in Seq(Entries)
             /\ items'[n + 1] = line
             /\ \A k \in 1..n : items'[k] = items[k]
             /\ ReadableAt' = IF ReadableLine(line) THEN ReadableAt \cup {n + 1} ELSE ReadableAt
             /\ \A sku : Naming(items, sku) \subseteq 1..n
             /\ \A sku : Naming(items', sku) = IF ReadableLine(line) /\ SkuOf(line) = sku
                                            THEN Naming(items, sku) \cup {n + 1}
                                            ELSE Naming(items, sku)
<1> DEFINE n == Len(items)
<1>1. items \in Seq(Lines) /\ Snapshot \in Seq(Entries)
  BY DEF LastNeedInv
<1>2. /\ n \in Nat /\ DOMAIN items = 1..n /\ items' \in Seq(Lines)
      /\ DOMAIN items' = 1..(n + 1) /\ items'[n + 1] = line
      /\ \A k \in 1..n : items'[k] = items[k]
  BY <1>1
<1>3. Snapshot' = TakeLine(Snapshot, line) /\ Snapshot' \in Seq(Entries)
  BY <1>1, SnapshotGrows, TakeLineTyped DEF Snapshot
<1> HIDE DEF n
<1>4. 1..(n + 1) = (1..n) \cup {n + 1} /\ n + 1 \notin 1..n
  BY <1>2
<1>5. ReadableAt \subseteq 1..n /\ \A sku : Naming(items, sku) \subseteq 1..n
  BY <1>2 DEF ReadableAt, Naming
<1>6. ReadableAt' = IF ReadableLine(line) THEN ReadableAt \cup {n + 1} ELSE ReadableAt
  BY <1>2, <1>4 DEF ReadableAt
<1>7. ASSUME NEW sku
      PROVE  Naming(items', sku) = IF ReadableLine(line) /\ SkuOf(line) = sku
                              THEN Naming(items, sku) \cup {n + 1} ELSE Naming(items, sku)
  BY <1>2, <1>4 DEF Naming
<1> QED BY <1>2, <1>3, <1>5, <1>6, <1>7 DEF n

LEMMA LastNeedStep == LastNeedInv /\ [AddLine]_lineVars => LastNeedInv'
<1> SUFFICES ASSUME LastNeedInv, [AddLine]_lineVars PROVE LastNeedInv'
  OBVIOUS
<1>1. CASE UNCHANGED lineVars
  <2>1. items' = items
    BY <1>1 DEF lineVars
  <2>2. Snapshot' = Snapshot /\ ReadableAt' = ReadableAt
    BY <2>1 DEF Snapshot, ReadableAt
  <2>3. \A x : Naming(items', x) = Naming(items, x)
    BY <2>1 DEF Naming
  <2> QED BY <2>1, <2>2, <2>3 DEF LastNeedInv
<1>2. CASE AddLine
  <2>1. PICK line \in Lines : items' = Append(items, line)
    BY <1>2 DEF AddLine
  <2> DEFINE n == Len(items)
             sku == SkuOf(line)
             entry == EntryOf(line)
  <2>2. /\ n \in Nat /\ ReadableAt \subseteq 1..n
        /\ items' \in Seq(Lines)
        /\ Snapshot' = TakeLine(Snapshot, line) /\ Snapshot' \in Seq(Entries)
        /\ items'[n + 1] = line
        /\ \A k \in 1..n : items'[k] = items[k]
        /\ ReadableAt' = IF ReadableLine(line) THEN ReadableAt \cup {n + 1} ELSE ReadableAt
        /\ \A x : Naming(items, x) \subseteq 1..n
    BY <2>1, LineAdded
  <2>3. \A x : Naming(items', x) = IF ReadableLine(line) /\ sku = x
                               THEN Naming(items, x) \cup {n + 1} ELSE Naming(items, x)
    BY <2>1, LineAdded
  <2>4. /\ Snapshot \in Seq(Entries)
        /\ \A k \in ReadableAt : \E i \in DOMAIN Snapshot : Snapshot[i].sku = SkuOf(items[k])
        /\ \A i \in DOMAIN Snapshot : Naming(items, Snapshot[i].sku) # {}
        /\ \A i, j \in DOMAIN Snapshot :
             i < j => Earliest(Naming(items, Snapshot[i].sku))
                        < Earliest(Naming(items, Snapshot[j].sku))
        /\ \A i \in DOMAIN Snapshot :
             Snapshot[i].qty_needed =
               NumberOr(RequestedQty(items[Latest(Naming(items, Snapshot[i].sku))]), 1)
    BY DEF LastNeedInv
  <2>5. \A i \in DOMAIN Snapshot : /\ Earliest(Naming(items, Snapshot[i].sku)) \in 1..n
                                    /\ Latest(Naming(items, Snapshot[i].sku)) \in 1..n
    BY <2>2, <2>4, Extremes
  <2>6. entry.sku = sku /\ entry.qty_needed = NumberOr(RequestedQty(line), 1)
    BY DEF EntryOf
  <2>7. PutLine(Snapshot, line) =
          IF \E i \in DOMAIN Snapshot : Snapshot[i].sku = sku
            THEN [i \in DOMAIN Snapshot |-> IF Snapshot[i].sku = sku THEN entry ELSE Snapshot[i]]
            ELSE Append(Snapshot, entry)
    BY DEF PutLine, EntryOf
  <2> HIDE DEF n, sku, entry
  <2>8. CASE ~ ReadableLine(line)
    <3>1. /\ Snapshot' = Snapshot /\ ReadableAt' = ReadableAt
          /\ \A x : Naming(items', x) = Naming(items, x)
      BY <2>2, <2>3, <2>8 DEF TakeLine
    <3> QED BY <2>2, <2>4, <2>5, <3>1 DEF LastNeedInv
  <2>9. CASE ReadableLine(line) /\ \E i \in DOMAIN Snapshot : Snapshot[i].sku = sku
    <3>1. Snapshot' = [i \in DOMAIN Snapshot |->
                         IF Snapshot[i].sku = sku THEN entry ELSE Snapshot[i]]
      BY <2>2, <2>7, <2>9 DEF TakeLine
    <3>2. DOMAIN Snapshot' = DOMAIN Snapshot
      BY <3>1
    <3>3. \A i \in DOMAIN Snapshot : Snapshot'[i].sku = Snapshot[i].sku
      BY <2>6, <3>1
    <3>4. \A i \in DOMAIN Snapshot :
            Earliest(Naming(items', Snapshot[i].sku)) = Earliest(Naming(items, Snapshot[i].sku))
      <4> TAKE i \in DOMAIN Snapshot
      <4> QED BY <2>2, <2>3, <2>4, <2>9, OneMore
    <3>5. ReadableAt' = ReadableAt \cup {n + 1}
      BY <2>2, <2>9
    <3>6. \A k \in ReadableAt' : \E i \in DOMAIN Snapshot : Snapshot'[i].sku = SkuOf(items'[k])
      <4> TAKE k \in ReadableAt'
      <4>1. CASE k = n + 1
        BY <2>2, <2>9, <3>3, <4>1 DEF sku
      <4>2. CASE k # n + 1
        BY <2>2, <2>4, <3>3, <3>5, <4>2
      <4> QED BY <4>1, <4>2
    <3>7. ASSUME NEW i \in DOMAIN Snapshot
          PROVE  Snapshot'[i].qty_needed =
                   NumberOr(RequestedQty(items'[Latest(Naming(items', Snapshot[i].sku))]), 1)
      <4>1. CASE Snapshot[i].sku = sku
        <5>1. Latest(Naming(items', Snapshot[i].sku)) = n + 1
          BY <2>2, <2>3, <2>9, <4>1, OneMore
        <5> QED BY <2>2, <2>6, <3>1, <4>1, <5>1
      <4>2. CASE Snapshot[i].sku # sku
        <5>1. /\ Naming(items', Snapshot[i].sku) = Naming(items, Snapshot[i].sku)
              /\ Snapshot'[i] = Snapshot[i]
          BY <2>3, <3>1, <4>2
        <5> QED BY <2>2, <2>4, <2>5, <5>1
      <4> QED BY <4>1, <4>2
    <3>8. \A i \in DOMAIN Snapshot : Naming(items', Snapshot[i].sku) # {}
      BY <2>3, <2>4
    <3> QED BY <2>2, <2>4, <3>2, <3>3, <3>4, <3>6, <3>7, <3>8 DEF LastNeedInv
  <2>10. CASE ReadableLine(line) /\ ~ \E i \in DOMAIN Snapshot : Snapshot[i].sku = sku
    <3> DEFINE m == Len(Snapshot)
    <3>1. Snapshot' = Append(Snapshot, entry)
      BY <2>2, <2>7, <2>10 DEF TakeLine
    <3>2. /\ m \in Nat /\ DOMAIN Snapshot = 1..m /\ DOMAIN Snapshot' = (1..m) \cup {m + 1}
          /\ Snapshot'[m + 1] = entry /\ m + 1 \notin 1..m
          /\ \A i \in 1..m : Snapshot'[i] = Snapshot[i] /\ i < m + 1
      <4>1. Snapshot \in Seq(Entries)
        BY <2>4
      <4>2. m \in Nat /\ DOMAIN Snapshot = 1..m
        BY <4>1
      <4>3. DOMAIN Snapshot' = 1..(m + 1)
        BY <3>1, <4>1
      <4>4. 1..(m + 1) = (1..m) \cup {m + 1} /\ m + 1 \notin 1..m
        BY <4>2
      <4>5. Snapshot'[m + 1] = entry /\ \A i \in 1..m : Snapshot'[i] = Snapshot[i]
        BY <3>1, <4>1
      <4> HIDE DEF m
      <4> QED BY <4>2, <4>3, <4>4, <4>5
    <3> HIDE DEF m
    <3>3. Naming(items, sku) = {}
      BY <2>4, <2>10 DEF Naming, ReadableAt
    <3>4. Naming(items', sku) = {n + 1}
      BY <2>3, <2>10, <3>3
    <3>5. Earliest(Naming(items', sku)) = n + 1 /\ Latest(Naming(items', sku)) = n + 1
      BY <2>2, <2>3, <2>10, <3>3, OneMore
    <3>6. \A i \in 1..m : /\ Snapshot'[i] = Snapshot[i]
                           /\ Naming(items', Snapshot[i].sku) = Naming(items, Snapshot[i].sku)
      BY <2>3, <2>10, <3>2
    <3>7. ReadableAt' = ReadableAt \cup {n + 1}
      BY <2>2, <2>10
    <3>8. \A k \in ReadableAt' : \E i \in DOMAIN Snapshot' : Snapshot'[i].sku = SkuOf(items'[k])
      <4> TAKE k \in ReadableAt'
      <4>1. CASE k = n + 1
        BY <2>2, <2>6, <3>2, <4>1 DEF sku
      <4>2. CASE k # n + 1
        BY <2>2, <2>4, <3>2, <3>7, <4>2
      <4> QED BY <4>1, <4>2
    <3>9. \A i \in DOMAIN Snapshot' : Naming(items', Snapshot'[i].sku) # {}
      BY <2>4, <2>6, <3>2, <3>4, <3>6
    <3>10. ASSUME NEW i \in DOMAIN Snapshot', NEW j \in DOMAIN Snapshot', i < j
           PROVE  Earliest(Naming(items', Snapshot'[i].sku))
                    < Earliest(Naming(items', Snapshot'[j].sku))
      <4>1. i \in 1..m
        BY <3>2, <3>10
      <4>2. CASE j \in 1..m
        BY <2>4, <3>2, <3>6, <3>10, <4>1, <4>2
      <4>3. CASE j = m + 1
        <5>1. Earliest(Naming(items', Snapshot'[i].sku)) \in 1..n
          BY <2>5, <3>2, <3>6, <4>1
        <5>2. Earliest(Naming(items', Snapshot'[j].sku)) = n + 1
          BY <2>6, <3>2, <3>5, <4>3
        <5> QED BY <2>2, <5>1, <5>2
      <4> QED BY <3>2, <4>2, <4>3
    <3>11. ASSUME NEW i \in DOMAIN Snapshot'
           PROVE  Snapshot'[i].qty_needed =
                    NumberOr(RequestedQty(items'[Latest(Naming(items', Snapshot'[i].sku))]), 1)
      <4>1. CASE i \in 1..m
        <5>1. Snapshot'[i] = Snapshot[i] /\ i \in DOMAIN Snapshot
          BY <3>2, <4>1
        <5>2. Naming(items', Snapshot'[i].sku) = Naming(items, Snapshot[i].sku)
          BY <3>6, <4>1, <5>1
        <5> QED BY <2>2, <2>4, <2>5, <5>1, <5>2
      <4>2. CASE i = m + 1
        BY <2>2, <2>6, <3>2, <3>5, <4>2
      <4> QED BY <3>2, <4>1, <4>2
    <3> QED BY <2>2, <3>8, <3>9, <3>10, <3>11 DEF LastNeedInv
  <2> QED BY <2>8, <2>9, <2>10
<1> QED BY <1>1, <1>2

LEMMA LastNeed == LinesSpec => []LastNeedInv
  BY LastNeedInit, LastNeedStep, PTL DEF LinesSpec

(* However long the order, its snapshot has one entry for each SKU that a  *)
(* readable line names, in the order they are first named, and a SKU that  *)
(* is named again needs what its last line needs                           *)
(* (fulfillment_service.py:58-71).                                         *)
THEOREM SnapshotSafe == LinesSpec => []SnapshotKeepsTheLastNeed
<1>1. LastNeedInv => SnapshotKeepsTheLastNeed
  <2> SUFFICES ASSUME LastNeedInv PROVE SnapshotKeepsTheLastNeed
    OBVIOUS
  <2>1. ToSet(Snapshot) = {Snapshot[i] : i \in DOMAIN Snapshot}
    BY DEF ToSet
  <2>2. {SkuOf(items[k]) : k \in ReadableAt} \subseteq {e.sku : e \in ToSet(Snapshot)}
    BY <2>1 DEF LastNeedInv
  <2>3. \A i \in DOMAIN Snapshot : \E k \in ReadableAt : Snapshot[i].sku = SkuOf(items[k])
    BY DEF LastNeedInv, Naming, ReadableAt
  <2>4. {e.sku : e \in ToSet(Snapshot)} \subseteq {SkuOf(items[k]) : k \in ReadableAt}
    BY <2>1, <2>3
  <2>5. {SkuOf(items[k]) : k \in ReadableAt} = {e.sku : e \in ToSet(Snapshot)}
    BY <2>2, <2>4
  <2> QED BY <2>5 DEF LastNeedInv, SnapshotKeepsTheLastNeed
<1> QED BY <1>1, LastNeed, PTL

-----------------------------------------------------------------------------
(* The route.                                                              *)

Servable(s, d)    == {i \in DOMAIN s : \E c \in ToSet(d.channel_priority) : CanServe(c, s[i])}
Serving(entry, d) == {j \in DOMAIN d.channel_priority : CanServe(d.channel_priority[j], entry)}

LEMMA RouteUnfolded ==
  ASSUME NEW s, NEW d
  PROVE  LET chosen == s[Earliest(Servable(s, d))]
         IN  SelectRoute(s, d) =
               IF \E entry \in ToSet(s) : \E c \in ToSet(d.channel_priority) : CanServe(c, entry)
                 THEN [source_channel |-> d.channel_priority[Earliest(Serving(chosen, d))],
                       sku |-> chosen.sku, fulfillable |-> TRUE]
                 ELSE [source_channel |-> Null, sku |-> Null, fulfillable |-> FALSE]
  BY DEF SelectRoute, FirstMatch, Matches, Earliest, Servable, Serving

LEMMA PriorityPlaces ==
  Len(ChannelPriority) \in Nat /\ DOMAIN ChannelPriority = 1..Len(ChannelPriority)
<1>1. CASE FalsyList(ConfiguredPriority)
  <2>1. ChannelPriority = <<"WMS", "POS", "EC">>
    BY <1>1 DEF ChannelPriority
  <2> QED BY <2>1
<1>2. CASE ~ FalsyList(ConfiguredPriority)
  <2>1. ChannelPriority \in Seq(STRING)
    BY <1>2, PolicyAssumption DEF ChannelPriority, FalsyList, Falsy
  <2> QED BY <2>1
<1> QED BY <1>1, <1>2

(* The route is the first pair, SKUs as they were sent and channels by     *)
(* priority, that covers the need, and there is none only when no pair     *)
(* does, whatever the order, the stock and the priority are                *)
(* (fulfillment_service.py:101-116).                                       *)
THEOREM RouteSafe == LinesSpec => []RouteIsFirstThatServes
<1>1. LastNeedInv => RouteIsFirstThatServes
  <2> DEFINE d == Decision
             K == Servable(Snapshot, d)
             first == Earliest(K)
             C == Serving(Snapshot[first], d)
             best == Earliest(C)
             route == SelectRoute(Snapshot, Decision)
             Serves(i, j) == CanServe(ChannelPriority[j], Snapshot[i])
  <2> SUFFICES ASSUME LastNeedInv
      PROVE  IF route.fulfillable
               THEN \E i \in DOMAIN Snapshot, j \in DOMAIN ChannelPriority :
                      /\ route.sku = Snapshot[i].sku
                      /\ route.source_channel = ChannelPriority[j]
                      /\ Serves(i, j)
                      /\ \A k \in DOMAIN Snapshot, m \in DOMAIN ChannelPriority :
                           k < i \/ (k = i /\ m < j) => ~ Serves(k, m)
               ELSE \A i \in DOMAIN Snapshot, j \in DOMAIN ChannelPriority : ~ Serves(i, j)
    BY DEF RouteIsFirstThatServes
  <2>1. d.channel_priority = ChannelPriority
    BY DEF Decision, ApplyFulfillmentPolicy
  <2>2. /\ DOMAIN Snapshot = 1..Len(Snapshot) /\ Len(Snapshot) \in Nat
        /\ DOMAIN ChannelPriority = 1..Len(ChannelPriority) /\ Len(ChannelPriority) \in Nat
    BY PriorityPlaces DEF LastNeedInv
  <2>3. ToSet(ChannelPriority) = {ChannelPriority[j] : j \in DOMAIN ChannelPriority}
    BY DEF ToSet
  <2>4. K = {i \in DOMAIN Snapshot : \E j \in DOMAIN ChannelPriority : Serves(i, j)}
    BY <2>1, <2>3 DEF Servable
  <2>5. C = {j \in DOMAIN ChannelPriority : Serves(first, j)}
    BY <2>1 DEF Serving
  <2>6. (\E entry \in ToSet(Snapshot) : \E c \in ToSet(d.channel_priority) : CanServe(c, entry))
          <=> K # {}
    BY DEF ToSet, Servable
  <2>7. route = IF K # {}
                  THEN [source_channel |-> d.channel_priority[best],
                        sku |-> Snapshot[first].sku, fulfillable |-> TRUE]
                  ELSE [source_channel |-> Null, sku |-> Null, fulfillable |-> FALSE]
    BY <2>6, RouteUnfolded
  <2> HIDE DEF d, K, first, C, best, route
  <2>8. CASE K = {}
    BY <2>4, <2>7, <2>8
  <2>9. CASE K # {}
    <3>1. first \in K /\ \A k \in K : first <= k
      BY <2>2, <2>4, <2>9, Extremes DEF first
    <3>2. C # {} /\ C \subseteq 1..Len(ChannelPriority)
      BY <2>2, <2>4, <2>5, <3>1
    <3>3. best \in C /\ \A j \in C : best <= j
      BY <2>2, <3>2, Extremes DEF best
    <3>4. /\ route.fulfillable /\ route.sku = Snapshot[first].sku
          /\ route.source_channel = ChannelPriority[best]
      BY <2>1, <2>7, <2>9
    <3>5. first \in DOMAIN Snapshot /\ best \in DOMAIN ChannelPriority /\ Serves(first, best)
      BY <2>4, <2>5, <3>1, <3>3
    <3>6. ASSUME NEW k \in DOMAIN Snapshot, NEW m \in DOMAIN ChannelPriority,
                 k < first \/ (k = first /\ m < best)
          PROVE  ~ Serves(k, m)
      <4> SUFFICES ASSUME Serves(k, m) PROVE FALSE
        OBVIOUS
      <4>1. k \in K /\ first <= k
        BY <2>4, <3>1
      <4>2. k = first
        BY <2>2, <3>5, <3>6, <4>1
      <4>3. m \in C /\ best <= m
        BY <2>5, <3>3, <4>2
      <4> QED BY <2>2, <3>5, <3>6, <4>2, <4>3
    <3> QED BY <3>4, <3>5, <3>6
  <2> QED BY <2>8, <2>9
<1> QED BY <1>1, LastNeed, PTL

-----------------------------------------------------------------------------
(* The totals the policy compares with its thresholds.                     *)

\* The lines apply_fulfillment_policy can read: numbers in objects.
Measured == {line \in Lines : ~ LineRaises(line)}

LEMMA MeasuredLine ==
  ASSUME NEW line \in Measured
  PROVE  UnitPrice(line) \in Int /\ PolicyQty(line) \in Int /\ Amount(line) \in Int
<1>1. /\ line.qty \in Int \cup {Absent, Null, Junk}
      /\ line.unit_price \in Int \cup {Absent, Null, Junk}
  BY OrderLinesAssumption DEF Measured
<1>2. ~ NotANumber(UnitPrice(line)) /\ ~ NotANumber(PolicyQty(line))
  BY DEF Measured, LineRaises
<1>3. UnitPrice(line) \in Int /\ PolicyQty(line) \in Int
  BY <1>1, <1>2 DEF NotANumber, UnitPrice, PolicyQty, Get
<1> QED BY <1>3 DEF Amount

Summing(n, w, it) ==
  \A t \in SUBSET (1..n) : it[t] = IF t = {} THEN 0 ELSE it[t \ {Max(t)}] + w[Max(t)]

\* Partial sums, term by term.
SumTo(n, w, p) == p[0] = 0 /\ \A k \in 1..n : p[k] = p[k - 1] + w[k]

LEMMA SumExists ==
  ASSUME NEW n \in Nat, NEW w \in [1..n -> Int]
  PROVE  \E it \in [SUBSET (1..n) -> Int] : Summing(n, w, it)
<1> DEFINE step == [k \in 1..n |-> [v \in Int |-> v + w[k]]]
<1>1. step \in [1..n -> [Int -> Int]] /\ 0 \in Int
  OBVIOUS
<1>2. \A k \in 1..n, v \in Int : step[k][v] = v + w[k]
  OBVIOUS
<1> HIDE DEF step
<1>3. PICK it \in [SUBSET (1..n) -> Int] : Folding(n, 0, step, it)
  BY <1>1, FoldExists
<1>4. ASSUME NEW t \in SUBSET (1..n), t # {}
      PROVE  it[t] = it[t \ {Max(t)}] + w[Max(t)]
  <2>1. Max(t) \in 1..n /\ it[t \ {Max(t)}] \in Int
    BY <1>4, MaxOf
  <2>2. it[t] = step[Max(t)][it[t \ {Max(t)}]]
    BY <1>3, <1>4 DEF Folding
  <2> QED BY <1>2, <2>1, <2>2
<1>5. Summing(n, w, it)
  BY <1>3, <1>4 DEF Summing, Folding
<1> QED BY <1>5

LEMMA SumPath ==
  ASSUME NEW n \in Nat, NEW w, NEW it, Summing(n, w, it)
  PROVE  SumTo(n, w, [k \in 0..n |-> it[1..k]])
<1> DEFINE p == [k \in 0..n |-> it[1..k]]
<1>1. p[0] = 0
  BY DEF Summing
<1>2. ASSUME NEW k \in 1..n PROVE p[k] = p[k - 1] + w[k]
  <2>1. 1..k \in SUBSET (1..n) /\ 1..k # {} /\ k \in Nat /\ k # 0
    OBVIOUS
  <2>2. Max(1..k) = k /\ (1..k) \ {k} = 1..(k - 1)
    BY <2>1, MaxOfInterval
  <2>3. it[1..k] = it[1..(k - 1)] + w[k]
    BY <2>1, <2>2 DEF Summing
  <2>4. k \in 0..n /\ k - 1 \in 0..n
    OBVIOUS
  <2> QED BY <2>3, <2>4
<1> QED BY <1>1, <1>2 DEF SumTo

LEMMA SumsAgree ==
  ASSUME NEW n \in Nat, NEW v \in [1..n -> Int], NEW w \in [1..(n + 1) -> Int],
         \A k \in 1..n : w[k] = v[k],
         NEW p, SumTo(n, v, p), NEW q, SumTo(n + 1, w, q)
  PROVE  p[n] \in Int /\ q[n + 1] = p[n] + w[n + 1]
<1> DEFINE S == {k \in 0..n : p[k] \in Int /\ p[k] = q[k]}
<1>1. 0 \in S
  BY DEF SumTo
<1>2. ASSUME NEW k \in 0..n, k # n, k \in S PROVE k + 1 \in S
  <2>1. k + 1 \in 1..n /\ k + 1 \in 1..(n + 1) /\ k + 1 \in 0..n /\ (k + 1) - 1 = k
    BY <1>2
  <2>2. p[k + 1] = p[k] + v[k + 1] /\ q[k + 1] = q[k] + w[k + 1]
    BY <2>1 DEF SumTo
  <2>3. v[k + 1] \in Int /\ w[k + 1] = v[k + 1]
    BY <2>1
  <2> QED BY <1>2, <2>1, <2>2, <2>3
<1> HIDE DEF S
<1>3. \A k \in 0..n : k \in S
  BY <1>1, <1>2, UpTo
<1>4. p[n] \in Int /\ p[n] = q[n]
  BY <1>3 DEF S
<1>5. n + 1 \in 1..(n + 1) /\ (n + 1) - 1 = n
  OBVIOUS
<1>6. q[n + 1] = q[n] + w[n + 1]
  BY <1>5 DEF SumTo
<1> QED BY <1>4, <1>6

LEMMA VolumePath ==
  ASSUME NEW s \in Seq(Measured)
  PROVE  \E p : /\ SumTo(Len(s), [k \in 1..Len(s) |-> PolicyQty(s[k])], p)
                /\ TotalOf(PolicyQty, s) = p[Len(s)]
<1> DEFINE n == Len(s)
           w == [k \in 1..n |-> PolicyQty(s[k])]
           it == CHOOSE iter : iter =
                   [t \in SUBSET (DOMAIN s) |->
                      IF t = {} THEN 0 ELSE iter[t \ {Max(t)}] + PolicyQty(s[Max(t)])]
<1>1. TotalOf(PolicyQty, s) = it[DOMAIN s]
  BY DEF TotalOf, FoldLeft, MapThenFoldSet
<1>2. n \in Nat /\ DOMAIN s = 1..n /\ \A k \in 1..n : s[k] \in Measured
  OBVIOUS
<1>3. w \in [1..n -> Int]
  BY <1>2, MeasuredLine
<1>4. \A k \in 1..n : w[k] = PolicyQty(s[k])
  OBVIOUS
<1> HIDE DEF n, w, it
<1>5. PICK iter \in [SUBSET (1..n) -> Int] : Summing(n, w, iter)
  BY <1>2, <1>3, SumExists
<1>6. ASSUME NEW t \in SUBSET (1..n)
      PROVE  iter[t] = IF t = {} THEN 0 ELSE iter[t \ {Max(t)}] + PolicyQty(s[Max(t)])
  BY <1>2, <1>4, <1>5, MaxOf DEF Summing
<1>7. iter = [t \in SUBSET (DOMAIN s) |->
                IF t = {} THEN 0 ELSE iter[t \ {Max(t)}] + PolicyQty(s[Max(t)])]
  BY <1>2, <1>6
<1>8. it = [t \in SUBSET (DOMAIN s) |->
              IF t = {} THEN 0 ELSE it[t \ {Max(t)}] + PolicyQty(s[Max(t)])]
  BY <1>7 DEF it
<1>9. Summing(n, w, it)
  BY <1>2, <1>4, <1>8, MaxOf DEF Summing
<1>10. SumTo(n, w, [k \in 0..n |-> it[1..k]])
  BY <1>2, <1>9, SumPath
<1>11. TotalOf(PolicyQty, s) = [k \in 0..n |-> it[1..k]][n]
  BY <1>1, <1>2
<1>12. \E p : SumTo(n, w, p) /\ TotalOf(PolicyQty, s) = p[n]
  BY <1>10, <1>11
<1> QED BY <1>12 DEF n, w

LEMMA VolumeGrows ==
  ASSUME NEW s \in Seq(Measured), NEW line \in Measured
  PROVE  /\ TotalOf(PolicyQty, s) \in Int
         /\ TotalOf(PolicyQty, Append(s, line)) = TotalOf(PolicyQty, s) + PolicyQty(line)
<1> DEFINE n == Len(s)
           longer == Append(s, line)
           v == [k \in 1..n |-> PolicyQty(s[k])]
           w == [k \in 1..(n + 1) |-> PolicyQty(longer[k])]
<1>1. /\ n \in Nat /\ longer \in Seq(Measured) /\ Len(longer) = n + 1
      /\ longer[n + 1] = line /\ n + 1 \in 1..(n + 1)
      /\ \A k \in 1..n : longer[k] = s[k] /\ k \in 1..(n + 1)
  OBVIOUS
<1>2. /\ \A k \in 1..n : s[k] \in Measured
      /\ \A k \in 1..(n + 1) : longer[k] \in Measured
  BY <1>1
<1>3. v \in [1..n -> Int]
  BY <1>2, MeasuredLine
<1>4. w \in [1..(n + 1) -> Int]
  BY <1>2, MeasuredLine
<1>5. \A k \in 1..n : w[k] = v[k]
  BY <1>1
<1>6. w[n + 1] = PolicyQty(line)
  BY <1>1
<1>7. PICK p : SumTo(n, v, p) /\ TotalOf(PolicyQty, s) = p[n]
  BY VolumePath
<1>8. PICK q : SumTo(n + 1, w, q) /\ TotalOf(PolicyQty, longer) = q[n + 1]
  BY <1>1, VolumePath
<1> HIDE DEF n, v, w, longer
<1>9. p[n] \in Int /\ q[n + 1] = p[n] + w[n + 1]
  BY <1>1, <1>3, <1>4, <1>5, <1>7, <1>8, SumsAgree
<1> QED BY <1>6, <1>7, <1>8, <1>9 DEF longer

LEMMA AmountPath ==
  ASSUME NEW s \in Seq(Measured)
  PROVE  \E p : /\ SumTo(Len(s), [k \in 1..Len(s) |-> Amount(s[k])], p)
                /\ TotalOf(Amount, s) = p[Len(s)]
<1> DEFINE n == Len(s)
           w == [k \in 1..n |-> Amount(s[k])]
           it == CHOOSE iter : iter =
                   [t \in SUBSET (DOMAIN s) |->
                      IF t = {} THEN 0 ELSE iter[t \ {Max(t)}] + Amount(s[Max(t)])]
<1>1. TotalOf(Amount, s) = it[DOMAIN s]
  BY DEF TotalOf, FoldLeft, MapThenFoldSet
<1>2. n \in Nat /\ DOMAIN s = 1..n /\ \A k \in 1..n : s[k] \in Measured
  OBVIOUS
<1>3. w \in [1..n -> Int]
  BY <1>2, MeasuredLine
<1>4. \A k \in 1..n : w[k] = Amount(s[k])
  OBVIOUS
<1> HIDE DEF n, w, it
<1>5. PICK iter \in [SUBSET (1..n) -> Int] : Summing(n, w, iter)
  BY <1>2, <1>3, SumExists
<1>6. ASSUME NEW t \in SUBSET (1..n)
      PROVE  iter[t] = IF t = {} THEN 0 ELSE iter[t \ {Max(t)}] + Amount(s[Max(t)])
  BY <1>2, <1>4, <1>5, MaxOf DEF Summing
<1>7. iter = [t \in SUBSET (DOMAIN s) |->
                IF t = {} THEN 0 ELSE iter[t \ {Max(t)}] + Amount(s[Max(t)])]
  BY <1>2, <1>6
<1>8. it = [t \in SUBSET (DOMAIN s) |->
              IF t = {} THEN 0 ELSE it[t \ {Max(t)}] + Amount(s[Max(t)])]
  BY <1>7 DEF it
<1>9. Summing(n, w, it)
  BY <1>2, <1>4, <1>8, MaxOf DEF Summing
<1>10. SumTo(n, w, [k \in 0..n |-> it[1..k]])
  BY <1>2, <1>9, SumPath
<1>11. TotalOf(Amount, s) = [k \in 0..n |-> it[1..k]][n]
  BY <1>1, <1>2
<1>12. \E p : SumTo(n, w, p) /\ TotalOf(Amount, s) = p[n]
  BY <1>10, <1>11
<1> QED BY <1>12 DEF n, w

LEMMA AmountGrows ==
  ASSUME NEW s \in Seq(Measured), NEW line \in Measured
  PROVE  /\ TotalOf(Amount, s) \in Int
         /\ TotalOf(Amount, Append(s, line)) = TotalOf(Amount, s) + Amount(line)
<1> DEFINE n == Len(s)
           longer == Append(s, line)
           v == [k \in 1..n |-> Amount(s[k])]
           w == [k \in 1..(n + 1) |-> Amount(longer[k])]
<1>1. /\ n \in Nat /\ longer \in Seq(Measured) /\ Len(longer) = n + 1
      /\ longer[n + 1] = line /\ n + 1 \in 1..(n + 1)
      /\ \A k \in 1..n : longer[k] = s[k] /\ k \in 1..(n + 1)
  OBVIOUS
<1>2. /\ \A k \in 1..n : s[k] \in Measured
      /\ \A k \in 1..(n + 1) : longer[k] \in Measured
  BY <1>1
<1>3. v \in [1..n -> Int]
  BY <1>2, MeasuredLine
<1>4. w \in [1..(n + 1) -> Int]
  BY <1>2, MeasuredLine
<1>5. \A k \in 1..n : w[k] = v[k]
  BY <1>1
<1>6. w[n + 1] = Amount(line)
  BY <1>1
<1>7. PICK p : SumTo(n, v, p) /\ TotalOf(Amount, s) = p[n]
  BY AmountPath
<1>8. PICK q : SumTo(n + 1, w, q) /\ TotalOf(Amount, longer) = q[n + 1]
  BY <1>1, AmountPath
<1> HIDE DEF n, v, w, longer
<1>9. p[n] \in Int /\ q[n + 1] = p[n] + w[n + 1]
  BY <1>1, <1>3, <1>4, <1>5, <1>7, <1>8, SumsAgree
<1> QED BY <1>6, <1>7, <1>8, <1>9 DEF longer

(* Whatever the length of an order, a line with no negative number takes   *)
(* it out of review in one case only: its amount was below the threshold,  *)
(* its lines had no units so far, so that its own `quantity` had asked,    *)
(* and this line has some.  A negative threshold on the units would be     *)
(* another case: lines that come to a negative sum above it and then to    *)
(* nothing leave the decision to that `quantity`                           *)
(* (fulfillment_service.py:82-98).                                         *)
THEOREM MoreLinesReviewed ==
  ASSUME VolumeThreshold >= 0
  PROVE  LinesSpec => MoreLinesNoLessReview
<1>1. ASSUME LastNeedInv, AddLine,
             Evaluable, Evaluable', NoNegative(Last(items')),
             Decision.requires_hitl
      PROVE  Decision'.requires_hitl \/ QuantityGivesWay
  <2>1. PICK line \in Lines : items' = Append(items, line)
    BY <1>1 DEF AddLine
  <2> DEFINE n == Len(items)
             volume == TotalOf(PolicyQty, items)
             amount == TotalOf(Amount, items)
             volumes == TotalOf(PolicyQty, items')
             amounts == TotalOf(Amount, items')
  <2>2. /\ n \in Nat /\ items \in Seq(Lines) /\ DOMAIN items = 1..n
        /\ DOMAIN items' = 1..(n + 1) /\ Len(items') = n + 1 /\ items'[n + 1] = line
        /\ \A k \in 1..n : items'[k] = items[k]
    BY <1>1, <2>1 DEF LastNeedInv
  <2>3. \A k \in 1..(n + 1) : ~ LineRaises(items'[k])
    BY <1>1, <2>2 DEF Evaluable, PolicyRaises, TheOrder, ToSet
  <2>4. line \in Measured
    BY <2>2, <2>3 DEF Measured
  <2>5. \A k \in 1..n : items[k] \in Measured
    BY <2>2, <2>3 DEF Measured
  <2>6. items \in Seq(Measured)
    BY <2>2, <2>5
  <2>7. /\ volume \in Int /\ volumes = volume + PolicyQty(line)
        /\ amount \in Int /\ amounts = amount + Amount(line)
    BY <2>1, <2>4, <2>6, VolumeGrows, AmountGrows
  <2>8. UnitPrice(line) \in Nat /\ PolicyQty(line) \in Nat
    <3>1. UnitPrice(line) >= 0 /\ PolicyQty(line) >= 0
      BY <1>1, <2>2 DEF NoNegative, Last
    <3> QED BY <2>4, <3>1, MeasuredLine
  <2>9. Amount(line) \in Nat
    BY <2>8 DEF Amount
  <2>10. AmountThreshold \in Int /\ VolumeThreshold \in Int
    BY PolicyAssumption DEF AmountThreshold, VolumeThreshold
  <2>11. /\ amount >= AmountThreshold \/ TotalVolume(TheOrder) >= VolumeThreshold
         /\ Decision.total_amount = amount
    BY <1>1 DEF Decision, ApplyFulfillmentPolicy, TheOrder
  <2>12. Decision'.requires_hitl = (amounts >= AmountThreshold
                                     \/ TotalVolume(TheOrder)' >= VolumeThreshold)
    BY DEF Decision, ApplyFulfillmentPolicy, TheOrder
  <2>13. /\ TotalVolume(TheOrder) = IF volume = 0 THEN NumberOr(quantity, 0) ELSE volume
         /\ TotalVolume(TheOrder)' = IF volumes = 0 THEN NumberOr(quantity, 0) ELSE volumes
    BY <1>1 DEF TotalVolume, TheOrder, AddLine
  <2>14. PolicyQty(Last(items')) = PolicyQty(line)
    BY <2>2 DEF Last
  <2> HIDE DEF volume, amount, volumes, amounts
  <2>15. CASE amount >= AmountThreshold
    <3>1. amounts >= AmountThreshold
      BY <2>7, <2>9, <2>10, <2>15
    <3> QED BY <2>12, <3>1
  <2>16. CASE ~ (amount >= AmountThreshold) /\ volume # 0
    <3>1. volume >= VolumeThreshold
      BY <2>11, <2>13, <2>16
    <3>2. volumes # 0 /\ volumes >= VolumeThreshold
      BY <2>7, <2>8, <2>10, <2>16, <3>1
    <3> QED BY <2>12, <2>13, <3>2
  <2>17. CASE ~ (amount >= AmountThreshold) /\ volume = 0 /\ PolicyQty(line) = 0
    <3>1. volumes = 0
      BY <2>7, <2>17
    <3>2. TotalVolume(TheOrder)' = TotalVolume(TheOrder)
      BY <2>13, <2>17, <3>1
    <3> QED BY <2>11, <2>12, <2>17, <3>2
  <2>18. CASE ~ (amount >= AmountThreshold) /\ volume = 0 /\ PolicyQty(line) # 0
    <3>1. PolicyQty(line) > 0 /\ volumes = PolicyQty(line)
      BY <2>7, <2>8, <2>18
    <3>2. NumberOr(quantity, 0) >= VolumeThreshold
      BY <2>11, <2>13, <2>18
    <3>3. CASE FalsyNumber(quantity)
      <4>1. volumes # 0 /\ volumes >= VolumeThreshold
        BY <2>8, <2>10, <3>1, <3>2, <3>3 DEF NumberOr
      <4> QED BY <2>12, <2>13, <4>1
    <3>4. CASE ~ FalsyNumber(quantity)
      <4>1. quantity >= VolumeThreshold
        BY <3>2, <3>4 DEF NumberOr
      <4>2. Decision.total_amount < AmountThreshold
        BY <2>7, <2>10, <2>11, <2>18
      <4> QED BY <2>14, <2>18, <3>1, <3>4, <4>1, <4>2 DEF QuantityGivesWay, volume
    <3> QED BY <3>3, <3>4
  <2> QED BY <2>15, <2>16, <2>17, <2>18
<1>2. LastNeedInv /\ [AddLine]_lineVars =>
        [/\ Evaluable /\ Evaluable'
         /\ NoNegative(Last(items'))
         /\ Decision.requires_hitl
         => Decision'.requires_hitl \/ QuantityGivesWay]_lineVars
  BY <1>1
<1> QED BY <1>2, LastNeed, PTL DEF LinesSpec, MoreLinesNoLessReview

-----------------------------------------------------------------------------
(* The two doors compute the same, apart from the policy's three values.   *)

LEMMA ServerComputes ==
  ASSUME NEW s, NEW order, NEW decision
  PROVE  /\ Server!TotalOf(Server!Amount, s) = TotalOf(Amount, s)
         /\ Server!TotalVolume(order) = TotalVolume(order)
         /\ Server!SelectRoute(s, decision) = SelectRoute(s, decision)
<1>1. Server!TotalOf(Server!Amount, s) = TotalOf(Amount, s)
  BY DEF Server!TotalOf, Server!Amount, Server!UnitPrice, Server!PolicyQty, Server!Get,
         Server!FoldLeft, Server!MapThenFoldSet, Server!Max,
         TotalOf, Amount, UnitPrice, PolicyQty, Get, FoldLeft, MapThenFoldSet, Max
<1>2. Server!TotalOf(Server!PolicyQty, order.items) = TotalOf(PolicyQty, order.items)
  BY DEF Server!TotalOf, Server!PolicyQty, Server!Get, Server!FoldLeft,
         Server!MapThenFoldSet, Server!Max,
         TotalOf, PolicyQty, Get, FoldLeft, MapThenFoldSet, Max
<1>3. Server!TotalVolume(order) = TotalVolume(order)
  BY <1>2 DEF Server!TotalVolume, Server!NumberOr, Server!FalsyNumber, Server!Falsy,
              TotalVolume, NumberOr, FalsyNumber, Falsy
<1>4. Server!SelectRoute(s, decision) = SelectRoute(s, decision)
  BY DEF Server!SelectRoute, Server!FirstMatch, Server!Matches, Server!CanServe,
         Server!StockAt, Server!ToSet,
         SelectRoute, FirstMatch, Matches, CanServe, StockAt, ToSet
<1> QED BY <1>1, <1>3, <1>4

LEMMA MarketplaceComputes ==
  ASSUME NEW s, NEW order, NEW decision
  PROVE  /\ Marketplace!TotalOf(Marketplace!Amount, s) = TotalOf(Amount, s)
         /\ Marketplace!TotalVolume(order) = TotalVolume(order)
         /\ Marketplace!SelectRoute(s, decision) = SelectRoute(s, decision)
<1>1. Marketplace!TotalOf(Marketplace!Amount, s) = TotalOf(Amount, s)
  BY DEF Marketplace!TotalOf, Marketplace!Amount, Marketplace!UnitPrice,
         Marketplace!PolicyQty, Marketplace!Get,
         Marketplace!FoldLeft, Marketplace!MapThenFoldSet, Marketplace!Max,
         TotalOf, Amount, UnitPrice, PolicyQty, Get, FoldLeft, MapThenFoldSet, Max
<1>2. Marketplace!TotalOf(Marketplace!PolicyQty, order.items) = TotalOf(PolicyQty, order.items)
  BY DEF Marketplace!TotalOf, Marketplace!PolicyQty, Marketplace!Get,
         Marketplace!FoldLeft, Marketplace!MapThenFoldSet, Marketplace!Max,
         TotalOf, PolicyQty, Get, FoldLeft, MapThenFoldSet, Max
<1>3. Marketplace!TotalVolume(order) = TotalVolume(order)
  BY <1>2 DEF Marketplace!TotalVolume, Marketplace!NumberOr, Marketplace!FalsyNumber,
         Marketplace!Falsy,
              TotalVolume, NumberOr, FalsyNumber, Falsy
<1>4. Marketplace!SelectRoute(s, decision) = SelectRoute(s, decision)
  BY DEF Marketplace!SelectRoute, Marketplace!FirstMatch, Marketplace!Matches,
         Marketplace!CanServe, Marketplace!StockAt, Marketplace!ToSet,
         SelectRoute, FirstMatch, Matches, CanServe, StockAt, ToSet
<1> QED BY <1>1, <1>3, <1>4

(* Every order, of any length, is decided and routed the same at both      *)
(* doors as long as each thing the policy file says is what it says as it  *)
(* is shipped: the defaults in the code repeat it                          *)
(* (fulfillment_service.py:73-98, server.py:28-43, graph.py:171-175,       *)
(* cli.py:18-25).                                                          *)
THEOREM DoorsAlike ==
  ASSUME PolicyFile.priority \in {Absent, ShippedPolicy.priority},
         PolicyFile.amount \in {Absent, ShippedPolicy.amount},
         PolicyFile.volume \in {Absent, ShippedPolicy.volume}
  PROVE  LinesSpec => []BothDoorsDecideAlike
<1>1. PolicyOf(MarketplaceConfig) = NoPolicy
  BY DEF PolicyOf, MarketplaceConfig, Get
<1>2. PolicyOf(ServerConfig) \in {PolicyFile, NoPolicy}
  BY DEF PolicyOf, ServerConfig, Get
<1>3. /\ Marketplace!ChannelPriority = <<"WMS", "POS", "EC">>
      /\ Marketplace!AmountThreshold = 500000 /\ Marketplace!VolumeThreshold = 100
  BY <1>1 DEF Marketplace!ChannelPriority, Marketplace!AmountThreshold,
              Marketplace!VolumeThreshold, Marketplace!FalsyList, Marketplace!Falsy, NoPolicy
<1>4. /\ Server!ChannelPriority = <<"WMS", "POS", "EC">>
      /\ Server!AmountThreshold = 500000 /\ Server!VolumeThreshold = 100
  BY <1>2 DEF Server!ChannelPriority, Server!AmountThreshold, Server!VolumeThreshold,
              Server!FalsyList, Server!Falsy, NoPolicy, ShippedPolicy
<1>5. Server!ApplyFulfillmentPolicy(TheOrder) = Marketplace!ApplyFulfillmentPolicy(TheOrder)
  BY <1>3, <1>4, ServerComputes, MarketplaceComputes
     DEF Server!ApplyFulfillmentPolicy, Marketplace!ApplyFulfillmentPolicy
<1>6. BothDoorsDecideAlike
  BY <1>5, ServerComputes, MarketplaceComputes DEF BothDoorsDecideAlike
<1> QED BY <1>6, PTL
=============================================================================
