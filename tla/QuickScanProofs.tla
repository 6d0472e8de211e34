--------------------------- MODULE QuickScanProofs ---------------------------
(***************************************************************************)
(* Theorems about the metadata scan: the cache of the table, the depth of  *)
(* the walk, the extents and the names of the files it reports, and that   *)
(* every file that can be got at is reported, and none of them twice.      *)
(***************************************************************************)
EXTENDS QuickScan, TLAPS, SequenceTheorems, FiniteSetTheorems,
        WellFoundedInduction

----------------------------------------------------------------------------
(* The inductive invariant.                                                *)

Names   == {e.name : e \in Entries}
Extents == [start : Nat, count : Nat \ {0}]
Frames  == [depth : 0..MaxDepth, next : Nat \ {0}, entries : Seq(Entries),
            long : Seq(Names), valid : BOOLEAN]
Told    == [name : Seq(Names), damaged : {e.gone : e \in Entries},
            entry : Entries]
Walks   == [cluster : Nat, first : Nat, run : Nat, extents : Seq(Extents),
            depth : 0..MaxDepth, file : Seq(Told)]

\* What either parser may report.
FatFiles ==
  {f \in [name : Seq(Names), damaged : {e.gone : e \in Entries},
          entry : Entries, extents : Seq(Extents)] :
     IsConfined(f.entry.cluster) => IsChain(f.entry.cluster, f.extents)}
MftFiles == {Mft!FileOf(i) : i \in 0..(Len(vol.records) - 1)}

OnFat == {"fat", "root", "chain", "entry"}
OnMft == {"ntfs", "batch", "records", "singles"}

TypesOK ==
  /\ vol \in Volumes /\ stop \in BOOLEAN
  /\ pc \in {"detect", "fat", "root", "chain", "entry", "ntfs", "batch",
             "records", "singles", "done", "raw", "terminated"}
  /\ pc \in OnFat => IsFat
  /\ pc \in OnMft => ~IsFat
  /\ files \in Seq(IF IsFat THEN FatFiles ELSE MftFiles)
  /\ stack \in Seq(Frames) /\ walk \in Walks
  /\ start \in Nat /\ index \in Nat

\* The sequence names every element of the set once.
IsOrder(q, S) ==
  /\ q \in Seq(S) /\ ToSet(q) = S
  /\ \A i, j \in DOMAIN q : q[i] = q[j] => i = j

CacheOK == IsOrder(order, cached) /\ Len(order) <= CacheSize

\* A directory is as deep as the stack below it.
DepthOK ==
  /\ Len(stack) <= MaxDepth + 1
  /\ \A d \in DOMAIN stack : stack[d].depth = d - 1
  /\ pc \in {"detect", "fat", "root"} => stack = <<>>
  /\ pc = "entry" => stack # <<>>
  /\ (pc = "chain" /\ walk.file = <<>>) => walk.depth = Len(stack)

\* The table led from cluster a to c, or could not be read at a.
Came(a, c) == c \in TableSays(a) \/ (c = 0 /\ Fat!TableSector(a) \in Unsound)

\* The clusters read up to c are those of the chain that begins with b.
IsPath(b, extents, c) ==
  /\ extents # <<>> /\ IsLink(b) /\ FirstCluster(extents[1]) = b
  /\ \A k \in DOMAIN extents : IsRun(extents[k])
  /\ \A k \in 1..(Len(extents) - 1) :
       Leads(LastCluster(extents[k]), FirstCluster(extents[k + 1]))
  /\ Came(LastCluster(Last(extents)), c)

\* The cluster that comes next is one to which the table leads from b.
Stays(b, c) == IsLink(c) => c \in AllReached(b)

WalkOK ==
  pc = "chain" =>
    /\ walk.run = 0 => walk.extents = <<>> /\ walk.first = 0
    /\ walk.run # 0 => walk.run % ClusterSectors = 0
    /\ walk.file # <<>> =>
         LET b == walk.file[1].entry.cluster
         IN IF walk.run = 0 THEN walk.cluster = b
            ELSE IsLink(b) /\ (IsConfined(b) => Stays(b, walk.cluster)
                                  /\ IsPath(b, Fat!Closed(walk), walk.cluster))

IInv == TypesOK /\ CacheOK /\ DepthOK /\ WalkOK

----------------------------------------------------------------------------
(* The operators the parsers are built from.                               *)

LEMMA Params ==
  /\ ClusterSectors \in Nat \ {0} /\ CacheSize \in Nat \ {0} /\ Word \in Nat \ {0}
  /\ BatchRecords \in Nat \ {0} /\ MaxDepth \in Nat
  /\ BadMark \in Nat /\ Eoc \in Nat /\ Junk \subseteq Nat
BY SizesAssumption

LEMMA Instances ==
  /\ \A s : Fat!Last(s) = Last(s) /\ Fat!Front(s) = Front(s)
  /\ \A S : Fat!Cardinality(S) = Cardinality(S)
  /\ \A s : Fat!FlattenSeq(s) = FlattenSeq(s)
  /\ \A s, i : Fat!RemoveAt(s, i) = RemoveAt(s, i)
<1>1. \A s : Fat!Last(s) = Last(s) /\ Fat!Front(s) = Front(s)
  BY DEF Fat!Last, Last, Fat!Front, Front
<1>2. \A S : Fat!Cardinality(S) = Cardinality(S)
  BY DEF Fat!Cardinality, Cardinality
<1>3. \A s : Fat!FlattenSeq(s) = FlattenSeq(s)
  BY DEF Fat!FlattenSeq, FlattenSeq
<1>4. \A s, i : Fat!RemoveAt(s, i) = RemoveAt(s, i)
  BY DEF Fat!RemoveAt, RemoveAt
<1>5. QED BY <1>1, <1>2, <1>3, <1>4

LEMMA DivExact ==
  ASSUME NEW k \in Nat, NEW m \in Nat \ {0}
  PROVE  (k * m) \div m = k /\ (k * m) % m = 0 /\ k * m \in Nat
OBVIOUS

LEMMA DivTimes ==
  ASSUME NEW x \in Nat, NEW m \in Nat \ {0}, x % m = 0
  PROVE  x \div m \in Nat /\ x = (x \div m) * m
OBVIOUS

LEMMA LeastNat ==
  ASSUME NEW T \in SUBSET Nat, T # {}
  PROVE  \E n \in T : \A m \in T : n <= m
<1>1. PICK n \in T : \A m \in T : ~(<<m, n>> \in OpToRel(<, Nat))
  BY NatLessThanWellFounded, WFMin
<1>2. \A m \in T : ~(m < n)
  BY <1>1 DEF OpToRel
<1>3. QED BY <1>2

\* The recursive function that FlattenSeq chooses exists.
LEMMA FlattenExists ==
  ASSUME NEW s, NEW n \in Nat
  PROVE  \E f : f = [i \in 1..n |-> IF i = 1 THEN s[i] ELSE f[i - 1] \o s[i]]
<1> DEFINE Flat(m, f) == f = [i \in 1..m |-> IF i = 1 THEN s[i] ELSE f[i - 1] \o s[i]]
           T == {m \in Nat : ~\E f : Flat(m, f)}
<1>1. SUFFICES ASSUME n \in T PROVE FALSE
  OBVIOUS
<1>2. PICK m \in T : \A k \in T : m <= k
  BY <1>1, LeastNat
<1>3. CASE m = 0
  <2>1. Flat(0, [i \in 1..0 |-> 0])
    OBVIOUS
  <2>2. QED BY <1>2, <1>3, <2>1
<1>4. CASE m # 0
  <2>1. m \in Nat /\ m - 1 \in Nat /\ ~(m <= m - 1)
    BY <1>2, <1>4
  <2>2. PICK f : Flat(m - 1, f)
    BY <1>2, <2>1
  <2> DEFINE g == [i \in 1..m |-> IF i = 1 THEN s[i] ELSE f[i - 1] \o s[i]]
  <2>3. \A i \in 1..(m - 1) : g[i] = f[i]
    <3>1. TAKE i \in 1..(m - 1)
    <3>2. i \in 1..m
      BY <2>1
    <3>3. f[i] = IF i = 1 THEN s[i] ELSE f[i - 1] \o s[i]
      BY <2>2, <3>1
    <3>4. QED BY <3>2, <3>3
  <2>4. \A i \in 1..m : i # 1 => i - 1 \in 1..(m - 1)
    BY <2>1
  <2>5. g = [i \in 1..m |-> IF i = 1 THEN s[i] ELSE g[i - 1] \o s[i]]
    BY <2>3, <2>4
  <2> HIDE DEF g
  <2>6. QED BY <1>2, <2>5
<1>5. QED BY <1>3, <1>4

LEMMA FlattenType ==
  ASSUME NEW S, NEW s \in Seq(Seq(S))
  PROVE  FlattenSeq(s) \in Seq(S)
<1>1. CASE Len(s) = 0
  <2>1. s = <<>>
    BY <1>1, EmptySeq
  <2>2. QED BY <1>1, <2>1 DEF FlattenSeq
<1>2. CASE Len(s) # 0
  <2> DEFINE n == Len(s)
             f == CHOOSE f : f = [i \in 1..n |-> IF i = 1 THEN s[i] ELSE f[i - 1] \o s[i]]
             T == {i \in 1..n : f[i] \notin Seq(S)}
  <2>1. n \in Nat \ {0} /\ \A i \in 1..n : s[i] \in Seq(S)
    BY <1>2, LenProperties
  <2>2. f = [i \in 1..n |-> IF i = 1 THEN s[i] ELSE f[i - 1] \o s[i]]
    BY <2>1, FlattenExists
  <2>3. FlattenSeq(s) = f[n]
    BY <1>2 DEF FlattenSeq
  <2> HIDE DEF f
  <2> HIDE DEF n
  <2>4. SUFFICES T = {}
    BY <2>1, <2>3
  <2>5. SUFFICES ASSUME T # {} PROVE FALSE
    OBVIOUS
  <2>6. PICK i \in T : \A k \in T : i <= k
    <3>1. T \in SUBSET Nat
      BY <2>1
    <3> HIDE DEF T
    <3>2. QED BY <2>5, <3>1, LeastNat
  <2>7. i \in 1..n /\ f[i] \notin Seq(S)
    BY <2>6
  <2>8. f[i] = IF i = 1 THEN s[i] ELSE f[i - 1] \o s[i]
    BY <2>2, <2>7
  <2>9. i # 1
    BY <2>1, <2>7, <2>8
  <2>10. i - 1 \in 1..n /\ ~(i <= i - 1)
    BY <2>1, <2>7, <2>9
  <2>11. f[i - 1] \in Seq(S)
    BY <2>6, <2>10
  <2>12. f[i - 1] \o s[i] \in Seq(S)
    BY <2>1, <2>7, <2>11, ConcatProperties
  <2>13. QED BY <2>7, <2>8, <2>9, <2>12
<1>3. QED BY <1>1, <1>2

\* One sequence is what it was.
LEMMA FlattenOne ==
  ASSUME NEW t
  PROVE  FlattenSeq(<<t>>) = t
<1> DEFINE s == <<t>>
           f == CHOOSE f : f = [i \in 1..1 |-> IF i = 1 THEN s[i] ELSE f[i - 1] \o s[i]]
<1>1. f = [i \in 1..1 |-> IF i = 1 THEN s[i] ELSE f[i - 1] \o s[i]]
  BY FlattenExists
<1>2. FlattenSeq(s) = f[1]
  BY DEF FlattenSeq
<1> HIDE DEF f
<1>3. f[1] = s[1]
  BY <1>1
<1>4. QED BY <1>2, <1>3

----------------------------------------------------------------------------
(* The cache of the table.                                                 *)

LEMMA OrderCounts ==
  ASSUME NEW S, NEW q, IsOrder(q, S)
  PROVE  Cardinality(S) = Len(q)
<1>1. /\ Len(q) \in Nat /\ q \in [1..Len(q) -> S] /\ ToSet(q) = S
      /\ \A i, j \in 1..Len(q) : q[i] = q[j] => i = j
  BY LenProperties DEF IsOrder
<1>2. q \in Bijection(1..Len(q), S)
  BY <1>1 DEF Bijection, Injection, Surjection, IsInjective, ToSet
<1>3. ExistsBijection(1..Len(q), S)
  BY <1>2 DEF ExistsBijection
<1>4. QED BY <1>1, <1>3, FS_CountingElements

LEMMA OrderAdd ==
  ASSUME NEW S, NEW q, NEW s, IsOrder(q, S), s \notin S
  PROVE  IsOrder(<<s>> \o q, S \cup {s}) /\ Len(<<s>> \o q) = Len(q) + 1
<1> DEFINE T == S \cup {s}
           r == <<s>> \o q
<1>1. q \in Seq(S) /\ Len(q) \in Nat /\ DOMAIN q = 1..Len(q) /\ \A i \in 1..Len(q) : q[i] \in S
  BY LenProperties, ElementOfSeq DEF IsOrder
<1>2. q \in Seq(T) /\ <<s>> \in Seq(T) /\ Len(<<s>>) = 1 /\ <<s>>[1] = s
  BY <1>1
<1>3. /\ r \in Seq(T) /\ Len(r) = Len(q) + 1
      /\ \A i \in 1..1 + Len(q) : r[i] = IF i <= 1 THEN <<s>>[i] ELSE q[i - 1]
  BY <1>1, <1>2, ConcatProperties
<1> HIDE DEF r
<1>4. DOMAIN r = 1..Len(q) + 1 /\ r[1] = s /\ \A i \in 2..Len(q) + 1 : r[i] = q[i - 1] /\ i - 1 \in 1..Len(q)
  BY <1>1, <1>2, <1>3
<1>5. ToSet(r) = T
  <2>1. \A x \in T : \E i \in DOMAIN r : r[i] = x
    <3>1. TAKE x \in T
    <3>2. CASE x = s
      BY <1>1, <1>4, <3>2
    <3>3. CASE x \in S
      <4>1. PICK i \in 1..Len(q) : q[i] = x
        BY <1>1, <3>3 DEF IsOrder, ToSet
      <4>2. i + 1 \in 2..Len(q) + 1 /\ i + 1 \in DOMAIN r /\ (i + 1) - 1 = i
        BY <1>1, <1>4
      <4>3. QED BY <1>4, <4>1, <4>2
    <3>4. QED BY <3>2, <3>3
  <2>2. \A i \in DOMAIN r : r[i] \in T
    BY <1>1, <1>3, <1>4
  <2>3. QED BY <2>1, <2>2 DEF ToSet
<1>6. \A i, j \in DOMAIN r : r[i] = r[j] => i = j
  <2>1. TAKE i, j \in DOMAIN r
  <2>2. \A k \in 2..Len(q) + 1 : r[k] # s
    BY <1>1, <1>4
  <2>3. CASE i = 1 \/ j = 1
    BY <1>1, <1>4, <2>2, <2>3
  <2>4. CASE i # 1 /\ j # 1
    <3>1. /\ r[i] = q[i - 1] /\ i - 1 \in 1..Len(q) /\ i \in Int
          /\ r[j] = q[j - 1] /\ j - 1 \in 1..Len(q) /\ j \in Int
      BY <1>1, <1>4, <2>4
    <3>2. r[i] = r[j] => i - 1 = j - 1
      BY <1>1, <3>1 DEF IsOrder
    <3>3. QED BY <3>1, <3>2
  <2>5. QED BY <2>3, <2>4
<1>7. QED BY <1>3, <1>5, <1>6 DEF IsOrder, r

LEMMA OrderRemove ==
  ASSUME NEW S, NEW q, NEW i, IsOrder(q, S), i \in 1..Len(q)
  PROVE  /\ IsOrder(RemoveAt(q, i), S \ {q[i]})
         /\ Len(RemoveAt(q, i)) = Len(q) - 1
<1> DEFINE T == S \ {q[i]}
           n == Len(q)
           r == RemoveAt(q, i)
<1>1. /\ q \in Seq(S) /\ n \in Nat /\ DOMAIN q = 1..n /\ \A k \in 1..n : q[k] \in S
      /\ \A k, l \in 1..n : q[k] = q[l] => k = l
  BY LenProperties, ElementOfSeq DEF IsOrder
<1>2. \A k \in 1..n : k # i => q[k] \in T
  BY <1>1
<1> DEFINE a == SubSeq(q, 1, i - 1)
           b == SubSeq(q, i + 1, n)
<1>3. a \in Seq(T) /\ Len(a) = i - 1 /\ \A k \in 1..(i - 1) : a[k] = q[k]
  <2>1. i - 1 \in Int /\ \A k \in 1..(i - 1) : q[k] \in T
    BY <1>1, <1>2
  <2>2. a \in Seq(T) /\ Len(a) = (IF 1 <= i - 1 THEN (i - 1) - 1 + 1 ELSE 0)
        /\ \A k \in 1..((i - 1) - 1 + 1) : a[k] = q[1 + k - 1]
    BY <2>1, SubSeqProperties
  <2> HIDE DEF a
  <2>3. QED BY <1>1, <2>2
<1>4. b \in Seq(T) /\ Len(b) = n - i /\ \A k \in 1..(n - i) : b[k] = q[i + k]
  <2>1. i + 1 \in Int /\ n \in Int /\ \A k \in (i + 1)..n : q[k] \in T
    BY <1>1, <1>2
  <2>2. b \in Seq(T) /\ Len(b) = (IF i + 1 <= n THEN n - (i + 1) + 1 ELSE 0)
        /\ \A k \in 1..(n - (i + 1) + 1) : b[k] = q[(i + 1) + k - 1]
    BY <2>1, SubSeqProperties
  <2> HIDE DEF b, T, n
  <2>3. /\ i \in 1..n /\ n \in Nat /\ n - (i + 1) + 1 = n - i
        /\ ~(i + 1 <= n) => n - i = 0
    <3>1. n \in Nat /\ i \in 1..n
      BY <1>1 DEF n
    <3>2. QED BY <3>1
  <2>4. \A k \in 1..(n - i) : (i + 1) + k - 1 = i + k
    BY <2>3
  <2>5. QED BY <2>2, <2>3, <2>4
<1>5. /\ r \in Seq(T) /\ Len(r) = n - 1
      /\ \A k \in 1..(n - 1) : r[k] = IF k < i THEN q[k] ELSE q[k + 1]
  <2>1. r = a \o b
    BY DEF RemoveAt
  <2> HIDE DEF a, b, r, n, T
  <2>2. /\ r \in Seq(T) /\ Len(r) = Len(a) + Len(b)
        /\ \A k \in 1..Len(a) + Len(b) : r[k] = IF k <= Len(a) THEN a[k] ELSE b[k - Len(a)]
    BY <1>3, <1>4, <2>1, ConcatProperties
  <2>3. i \in 1..n /\ n \in Nat
    BY <1>1 DEF n
  <2>4. \A k \in 1..(n - 1) : r[k] = IF k < i THEN q[k] ELSE q[k + 1]
    <3>1. TAKE k \in 1..(n - 1)
    <3>2. k < i => k \in 1..(i - 1) /\ k <= Len(a)
      BY <1>3, <2>3
    <3>3. ~(k < i) => k - (i - 1) \in 1..(n - i) /\ ~(k <= Len(a)) /\ i + (k - (i - 1)) = k + 1
      BY <1>3, <2>3
    <3>4. QED BY <1>3, <1>4, <2>2, <2>3, <3>2, <3>3
  <2>5. QED BY <1>3, <1>4, <2>2, <2>3, <2>4
<1> HIDE DEF r, a, b
<1>6. DOMAIN r = 1..(n - 1)
  BY <1>1, <1>5, LenProperties
<1>7. ToSet(r) = T
  <2>1. \A x \in T : \E k \in DOMAIN r : r[k] = x
    <3>1. TAKE x \in T
    <3>2. PICK k \in 1..n : q[k] = x
      BY <1>1 DEF IsOrder, ToSet
    <3>3. k # i
      BY <3>2
    <3>4. CASE k < i
      <4>1. k \in 1..(n - 1)
        BY <1>1, <3>4
      <4>2. QED BY <1>5, <1>6, <3>2, <3>4, <4>1
    <3>5. CASE i < k
      <4>1. k - 1 \in 1..(n - 1) /\ ~(k - 1 < i) /\ (k - 1) + 1 = k
        BY <1>1, <3>5
      <4>2. QED BY <1>5, <1>6, <3>2, <4>1
    <3>6. QED BY <1>1, <3>3, <3>4, <3>5
  <2>2. \A k \in DOMAIN r : r[k] \in T
    BY <1>5, <1>6, ElementOfSeq
  <2> HIDE DEF T
  <2>3. QED BY <2>1, <2>2 DEF ToSet
<1>8. \A k, l \in DOMAIN r : r[k] = r[l] => k = l
  <2>1. TAKE k, l \in DOMAIN r
  <2> DEFINE up(x) == IF x < i THEN x ELSE x + 1
  <2>2. up(k) \in 1..n /\ up(l) \in 1..n /\ r[k] = q[up(k)] /\ r[l] = q[up(l)]
    BY <1>1, <1>5, <1>6
  <2>3. r[k] = r[l] => up(k) = up(l)
    <3> HIDE DEF up
    <3>1. QED BY <1>1, <2>2
  <2>4. up(k) = up(l) => k = l
    BY <1>1, <1>6
  <2>5. QED BY <2>3, <2>4
<1> HIDE DEF T
<1>9. QED BY <1>5, <1>7, <1>8 DEF IsOrder, T, r

\* Whatever is asked for, in the cache or not, readable or not.
LEMMA CacheStep ==
  ASSUME CacheOK, NEW s, NEW ok, Fat!CacheFatSector(s, ok)
  PROVE  CacheOK'
<1>1. /\ IsOrder(order, cached) /\ Len(order) \in Nat /\ Len(order) <= CacheSize
      /\ DOMAIN order = 1..Len(order) /\ CacheSize \in Nat \ {0}
  BY Params, LenProperties DEF CacheOK, IsOrder
<1>2. CASE s \in cached
  <2> DEFINE i == CHOOSE i \in DOMAIN order : order[i] = s
  <2>1. \E j \in DOMAIN order : order[j] = s
    BY <1>1, <1>2 DEF IsOrder, ToSet
  <2>2. i \in 1..Len(order) /\ order[i] = s
    BY <1>1, <2>1
  <2>3. order' = <<s>> \o RemoveAt(order, i) /\ cached' = cached
    BY <1>2, Instances DEF Fat!CacheFatSector, Fat!Touched
  <2> HIDE DEF i
  <2>4. IsOrder(RemoveAt(order, i), cached \ {s}) /\ Len(RemoveAt(order, i)) = Len(order) - 1
    BY <1>1, <2>2, OrderRemove
  <2>5. IsOrder(order', (cached \ {s}) \cup {s}) /\ Len(order') = (Len(order) - 1) + 1
    BY <2>3, <2>4, OrderAdd
  <2>6. (cached \ {s}) \cup {s} = cached'
    BY <1>2, <2>3
  <2>7. QED BY <1>1, <2>5, <2>6 DEF CacheOK
<1>3. CASE s \notin cached
  <2> DEFINE kept == IF Fat!Evicts THEN Front(order) ELSE order
             left == IF Fat!Evicts THEN cached \ {Last(order)} ELSE cached
  <2>1. /\ order' = IF ok THEN <<s>> \o kept ELSE kept
        /\ cached' = IF ok THEN left \cup {s} ELSE left
    BY <1>3, Instances DEF Fat!CacheFatSector
  <2>2. Fat!Evicts <=> Len(order) >= CacheSize
    BY <1>1, OrderCounts, Instances DEF Fat!Evicts
  <2>3. IsOrder(kept, left) /\ Len(kept) < CacheSize /\ Len(kept) \in Nat
    <3>1. CASE Fat!Evicts
      <4>1. Len(order) \in 1..Len(order)
        BY <1>1, <2>2, <3>1
      <4>2. /\ IsOrder(RemoveAt(order, Len(order)), cached \ {order[Len(order)]})
            /\ Len(RemoveAt(order, Len(order))) = Len(order) - 1
        BY <1>1, <4>1, OrderRemove
      <4>3. RemoveAt(order, Len(order)) = Front(order)
        <5>1. order \in Seq(cached)
          BY <1>1 DEF IsOrder
        <5>2. /\ SubSeq(order, Len(order) + 1, Len(order)) = <<>>
              /\ SubSeq(order, 1, Len(order) - 1) \in Seq(cached)
          BY <1>1, <5>1, SubSeqEmpty, SubSeqProperties, ElementOfSeq
        <5>3. SubSeq(order, 1, Len(order) - 1) \o <<>> = SubSeq(order, 1, Len(order) - 1)
          BY <5>2, ConcatEmptySeq
        <5>4. QED BY <5>2, <5>3 DEF RemoveAt, Front
      <4>4. kept = Front(order) /\ left = cached \ {order[Len(order)]}
        BY <3>1 DEF Last
      <4> HIDE DEF kept, left
      <4>5. QED BY <1>1, <4>1, <4>2, <4>3, <4>4
    <3>2. CASE ~Fat!Evicts
      BY <1>1, <2>2, <3>2
    <3>3. QED BY <3>1, <3>2
  <2>4. s \notin left
    BY <1>3
  <2> HIDE DEF kept, left
  <2>5. CASE ok
    <3>1. IsOrder(<<s>> \o kept, left \cup {s}) /\ Len(<<s>> \o kept) = Len(kept) + 1
      BY <2>3, <2>4, OrderAdd
    <3>2. QED BY <1>1, <2>1, <2>3, <2>5, <3>1 DEF CacheOK
  <2>6. CASE ~ok
    BY <1>1, <2>1, <2>3, <2>6 DEF CacheOK
  <2>7. QED BY <2>5, <2>6
<1>4. QED BY <1>2, <1>3

----------------------------------------------------------------------------
(* The chain of a file.                                                    *)

LEMMA VolumeTypes ==
  ASSUME TypesOK
  PROVE  /\ vol.data \in Nat /\ vol.table \in Nat /\ vol.root \in Nat
         /\ vol.rootEntries \in Seq(Entries)
         /\ \A c \in DOMAIN vol.dir : vol.dir[c] \in Seq(Entries)
         /\ \A c : TrueNext(c) \in Nat
BY VolumesAssumption DEF TypesOK, TrueNext

LEMMA ClusterOfSector ==
  ASSUME TypesOK, NEW c \in Nat, c >= 2, NEW x, x.start = SectorOf(c)
  PROVE  FirstCluster(x) = c /\ SectorOf(c) \in Nat
<1>1. /\ c - 2 \in Nat /\ ClusterSectors \in Nat \ {0} /\ vol.data \in Nat
      /\ ((c - 2) * ClusterSectors) \div ClusterSectors = c - 2
      /\ (c - 2) * ClusterSectors \in Nat
  BY Params, VolumeTypes, DivExact
<1>2. SectorOf(c) = vol.data + (c - 2) * ClusterSectors
  BY DEF SectorOf
<1>3. x.start - vol.data = (c - 2) * ClusterSectors
  BY <1>1, <1>2
<1>4. FirstCluster(x) = 2 + (c - 2)
  BY <1>1, <1>3 DEF FirstCluster
<1>5. QED BY <1>1, <1>2, <1>4

\* 32 bits are enough for the sector of a cluster, or they make another of it.
LEMMA SectorFits ==
  ASSUME TypesOK, NEW c \in Nat, c >= 2
  PROVE  /\ Fat!ClusterSector(c) \in Nat
         /\ Fits(c) => Fat!ClusterSector(c) = SectorOf(c)
<1>1. /\ ClusterSectors \in Nat \ {0} /\ Word \in Nat \ {0} /\ SectorOf(c) \in Nat
  <2>1. [start |-> SectorOf(c)].start = SectorOf(c)
    OBVIOUS
  <2>2. QED BY <2>1, ClusterOfSector, Params
<1>2. Fat!ClusterSector(c) = SectorOf(c) % Word
  BY DEF Fat!ClusterSector, SectorOf
<1>3. \A x \in Nat : x % Word \in Nat /\ (x < Word => x % Word = x)
  BY <1>1
<1>4. Fits(c) => SectorOf(c) < Word
  BY <1>1 DEF Fits
<1>5. QED BY <1>1, <1>2, <1>3, <1>4

\* One cluster is a run.
LEMMA ClusterIsRun ==
  ASSUME TypesOK, NEW c \in Nat, IsLink(c), NEW x,
         x = [start |-> SectorOf(c), count |-> ClusterSectors]
  PROVE  /\ x \in Extents /\ IsRun(x) /\ FirstCluster(x) = c /\ LastCluster(x) = c
<1>1. FirstCluster(x) = c /\ SectorOf(c) \in Nat /\ ClusterSectors \in Nat \ {0}
  BY ClusterOfSector, Params DEF IsLink
<1>2. ClusterSectors \div ClusterSectors = 1 /\ ClusterSectors % ClusterSectors = 0
  BY <1>1
<1>3. LastCluster(x) = c
  BY <1>1, <1>2 DEF LastCluster
<1>4. IsRun(x)
  BY <1>1, <1>2, <1>3 DEF IsRun
<1>5. QED BY <1>1, <1>3, <1>4 DEF Extents

\* A run becomes longer by the cluster it leads to.
LEMMA RunGrows ==
  ASSUME TypesOK, NEW x \in Extents, IsRun(x), NEW c \in Nat, IsLink(c),
         SectorOf(c) = x.start + x.count, Came(LastCluster(x), c),
         NEW y, y = [start |-> x.start, count |-> x.count + ClusterSectors]
  PROVE  /\ y \in Extents /\ IsRun(y) /\ FirstCluster(y) = FirstCluster(x)
         /\ LastCluster(y) = c
<1> DEFINE m == ClusterSectors
           f == FirstCluster(x)
           q == x.count \div m
<1>1. /\ m \in Nat \ {0} /\ vol.data \in Nat /\ x.start \in Nat /\ x.count \in Nat \ {0}
      /\ x.count % m = 0 /\ x.start = vol.data + (f - 2) * m
  BY Params, VolumeTypes DEF Extents, IsRun, SectorOf
<1>2. f \in Int
  BY <1>1 DEF FirstCluster
<1>3. q \in Nat /\ x.count = q * m
  BY <1>1, DivTimes
<1>4. vol.data + (c - 2) * m = x.start + x.count
  BY DEF SectorOf
<1> HIDE DEF f, q, m
<1>5. (c - 2) * m = (f - 2 + q) * m
  <2>1. (f - 2 + q) * m = (f - 2) * m + q * m
    BY <1>1, <1>2, <1>3
  <2>2. \A P, Q, R \in Int : (vol.data + P = x.start + R /\ x.start = vol.data + Q) => P = Q + R
    BY <1>1
  <2>3. (c - 2) * m \in Int /\ (f - 2) * m \in Int /\ q * m \in Int
    BY <1>1, <1>2, <1>3
  <2>4. vol.data + (c - 2) * m = x.start + q * m /\ x.start = vol.data + (f - 2) * m
    BY <1>1, <1>3, <1>4
  <2>5. QED BY <2>1, <2>2, <2>3, <2>4
<1>6. c = f + q
  BY <1>1, <1>2, <1>3, <1>5
<1>7. FirstCluster(y) = f /\ y.start = x.start /\ y.count = x.count + m
  BY DEF FirstCluster, f, m
<1>8. y.count = (q + 1) * m /\ y.count \div m = q + 1 /\ y.count % m = 0
  <2>1. y.count = (q + 1) * m
    BY <1>1, <1>3, <1>7
  <2>2. q + 1 \in Nat
    BY <1>3
  <2>3. ((q + 1) * m) \div m = q + 1
    BY <1>1, <2>2, DivExact
  <2>4. ((q + 1) * m) % m = 0
    BY <1>1, <2>2, DivExact
  <2>5. QED BY <2>1, <2>3, <2>4
<1>9. LastCluster(x) = f + q - 1 /\ LastCluster(y) = f + (q + 1) - 1
  BY <1>2, <1>3, <1>7, <1>8 DEF LastCluster, q, f, m
<1>10. Leads(LastCluster(x), c)
  BY DEF Came, IsLink, Leads, Nexts
<1>11. \A d \in f..(LastCluster(y) - 1) : Leads(d, d + 1)
  <2>1. TAKE d \in f..(LastCluster(y) - 1)
  <2>2. CASE d \in f..(LastCluster(x) - 1)
    BY <2>2 DEF IsRun, f
  <2>3. CASE d \notin f..(LastCluster(x) - 1)
    <3>1. d = LastCluster(x) /\ d + 1 = c
      BY <1>2, <1>3, <1>6, <1>9, <2>3
    <3>2. QED BY <1>10, <3>1
  <2>4. QED BY <2>2, <2>3
<1>12. IsRun(y)
  <2>1. y.count > 0
    BY <1>1, <1>7
  <2>2. y.count % ClusterSectors = 0
    BY <1>8 DEF m
  <2>3. y.start = SectorOf(FirstCluster(y))
    BY <1>7 DEF IsRun, f
  <2>4. \A d \in FirstCluster(y)..(LastCluster(y) - 1) : Leads(d, d + 1)
    BY <1>7, <1>11
  <2>5. \A d \in FirstCluster(y)..LastCluster(y) : IsLink(d)
    <3>1. TAKE d \in FirstCluster(y)..LastCluster(y)
    <3>2. d \in f..LastCluster(x) \/ d = c
      BY <1>2, <1>3, <1>6, <1>7, <1>9
    <3>3. QED BY <3>2 DEF IsRun, f
  <2>6. QED BY <2>1, <2>2, <2>3, <2>4, <2>5 DEF IsRun
<1>13. QED BY <1>1, <1>2, <1>3, <1>6, <1>7, <1>9, <1>12 DEF Extents, f, m

LEMMA LinkFollows ==
  ASSUME NEW c \in Nat
  PROVE  Fat!Follows(c) <=> IsLink(c)
BY Params DEF Fat!Follows, Fat!IsEndOfChain, Fat!IsBadCluster, IsLink

LEMMA AppendLast ==
  ASSUME NEW S, NEW t \in Seq(S), NEW x \in S
  PROVE  /\ Append(t, x) \in Seq(S) /\ Append(t, x) # <<>> /\ Last(Append(t, x)) = x
         /\ Len(Append(t, x)) = Len(t) + 1 /\ DOMAIN Append(t, x) = 1..(Len(t) + 1)
         /\ \A k \in 1..Len(t) : Append(t, x)[k] = t[k]
         /\ Append(t, x)[Len(t) + 1] = x
<1>1. Len(t) \in Nat
  BY LenProperties
<1>2. QED BY <1>1, AppendProperties, LenProperties DEF Last

\* The first cluster of a chain.
LEMMA PathStarts ==
  ASSUME TypesOK, NEW b \in Nat, IsLink(b), NEW d \in Nat, Came(b, d), NEW x,
         x = [start |-> SectorOf(b), count |-> ClusterSectors]
  PROVE  IsPath(b, <<x>>, d)
<1>1. x \in Extents /\ IsRun(x) /\ FirstCluster(x) = b /\ LastCluster(x) = b
  BY ClusterIsRun
<1>2. Len(<<x>>) = 1 /\ <<x>>[1] = x /\ <<x>> # <<>> /\ Last(<<x>>) = x /\ DOMAIN <<x>> = 1..1
  BY DEF Last
<1>3. QED BY <1>1, <1>2 DEF IsPath

\* The next cluster lies behind the last extent.
LEMMA PathGrows ==
  ASSUME TypesOK, NEW t \in Seq(Extents), NEW x \in Extents, NEW b, NEW c \in Nat,
         IsPath(b, Append(t, x), c), IsLink(c), NEW d \in Nat, Came(c, d),
         SectorOf(c) = x.start + x.count, NEW y,
         y = [start |-> x.start, count |-> x.count + ClusterSectors]
  PROVE  IsPath(b, Append(t, y), d)
<1> DEFINE u == Append(t, x)
           v == Append(t, y)
           n == Len(t)
<1>1. /\ u # <<>> /\ Last(u) = x /\ DOMAIN u = 1..(n + 1) /\ n \in Nat
      /\ \A k \in 1..n : u[k] = t[k]
      /\ u[n + 1] = x /\ Len(u) = n + 1
  BY AppendLast, LenProperties
<1>2. /\ IsLink(b) /\ FirstCluster(u[1]) = b /\ \A k \in 1..(n + 1) : IsRun(u[k])
      /\ \A k \in 1..n : Leads(LastCluster(u[k]), FirstCluster(u[k + 1]))
      /\ Came(LastCluster(x), c)
  <2>1. IsPath(b, u, c) /\ (n + 1) - 1 = n
    BY <1>1
  <2> HIDE DEF u, n
  <2>2. QED BY <1>1, <2>1 DEF IsPath
<1>3. IsRun(x)
  BY <1>1, <1>2
<1>4. /\ y \in Extents /\ IsRun(y) /\ FirstCluster(y) = FirstCluster(x)
      /\ LastCluster(y) = c
  BY <1>2, <1>3, RunGrows
<1>5. /\ v # <<>> /\ Last(v) = y /\ DOMAIN v = 1..(n + 1)
      /\ \A k \in 1..n : v[k] = t[k]
      /\ v[n + 1] = y /\ Len(v) = n + 1
  BY <1>4, AppendLast
<1> HIDE DEF u, v, n
<1>6. \A k \in 1..(n + 1) : IsRun(v[k]) /\ FirstCluster(v[k]) = FirstCluster(u[k])
  <2>1. TAKE k \in 1..(n + 1)
  <2>2. k \in 1..n \/ k = n + 1
    BY <1>1
  <2>3. QED BY <1>1, <1>2, <1>4, <1>5, <2>2
<1>7. \A k \in 1..n : v[k] = u[k] /\ k \in 1..(n + 1) /\ k + 1 \in 1..(n + 1)
  BY <1>1, <1>5
<1>8. \A k \in 1..n : Leads(LastCluster(v[k]), FirstCluster(v[k + 1]))
  BY <1>2, <1>6, <1>7
<1>9. FirstCluster(v[1]) = b
  <2>1. 1 \in 1..(n + 1)
    BY <1>1
  <2>2. QED BY <1>2, <1>6, <2>1
<1>10. (n + 1) - 1 = n
  BY <1>1
<1>11. IsPath(b, v, d)
  BY <1>2, <1>4, <1>5, <1>6, <1>8, <1>9, <1>10 DEF IsPath
<1>12. QED BY <1>11 DEF v

\* The next cluster lies elsewhere.
LEMMA PathAdds ==
  ASSUME TypesOK, NEW t \in Seq(Extents), NEW b, NEW c \in Nat,
         IsPath(b, t, c), IsLink(c), NEW d \in Nat, Came(c, d), NEW y,
         y = [start |-> SectorOf(c), count |-> ClusterSectors]
  PROVE  IsPath(b, Append(t, y), d)
<1> DEFINE v == Append(t, y)
           n == Len(t)
<1>1. y \in Extents /\ IsRun(y) /\ FirstCluster(y) = c /\ LastCluster(y) = c
  BY ClusterIsRun
<1>2. /\ v # <<>> /\ Last(v) = y /\ DOMAIN v = 1..(n + 1)
      /\ \A k \in 1..n : v[k] = t[k]
      /\ v[n + 1] = y /\ Len(v) = n + 1
  BY <1>1, AppendLast
<1>3. n \in Nat \ {0} /\ DOMAIN t = 1..n /\ Last(t) = t[n]
  BY LenProperties, EmptySeq DEF IsPath, Last
<1>4. /\ IsLink(b) /\ FirstCluster(t[1]) = b /\ \A k \in 1..n : IsRun(t[k])
      /\ \A k \in 1..(n - 1) : Leads(LastCluster(t[k]), FirstCluster(t[k + 1]))
      /\ Came(LastCluster(t[n]), c)
  BY <1>3 DEF IsPath
<1>5. Leads(LastCluster(t[n]), c)
  BY <1>4 DEF Came, IsLink, Leads, Nexts
<1> HIDE DEF v, n
<1>6. \A k \in 1..(n + 1) : IsRun(v[k])
  <2>1. TAKE k \in 1..(n + 1)
  <2>2. k \in 1..n \/ k = n + 1
    BY <1>3
  <2>3. QED BY <1>1, <1>2, <1>4, <2>2
<1>7. \A k \in 1..n : Leads(LastCluster(v[k]), FirstCluster(v[k + 1]))
  <2>1. TAKE k \in 1..n
  <2>2. CASE k = n
    BY <1>1, <1>2, <1>3, <1>5, <2>2
  <2>3. CASE k # n
    <3>1. k \in 1..(n - 1) /\ k + 1 \in 1..n
      BY <1>3, <2>3
    <3>2. QED BY <1>2, <1>4, <3>1
  <2>4. QED BY <2>2, <2>3
<1>8. FirstCluster(v[1]) = b
  <2>1. 1 \in 1..n
    BY <1>3
  <2>2. QED BY <1>2, <1>4, <2>1
<1>9. (n + 1) - 1 = n
  BY <1>3
<1>10. IsPath(b, v, d)
  BY <1>1, <1>2, <1>4, <1>6, <1>7, <1>8, <1>9 DEF IsPath
<1>11. QED BY <1>10 DEF v

\* The chain is over.
LEMMA PathEnds ==
  ASSUME NEW b, NEW t, NEW c, IsPath(b, t, c), ~IsLink(c)
  PROVE  IsChain(b, t)
<1>1. Ends(LastCluster(Last(t)))
  BY DEF IsPath, Came, TableSays, Ends
<1>2. QED BY <1>1 DEF IsPath, IsChain

----------------------------------------------------------------------------
(* read_cluster_chain.                                                     *)

LEMMA ClosedType ==
  ASSUME NEW w \in Walks
  PROVE  Fat!Closed(w) \in Seq(Extents)
<1>1. w.extents \in Seq(Extents) /\ w.run \in Nat /\ w.first \in Nat
  BY DEF Walks
<1>2. CASE w.run > 0
  <2>1. [start |-> w.first, count |-> w.run] \in Extents
    BY <1>1, <1>2 DEF Extents
  <2>2. QED BY <1>1, <1>2, <2>1, AppendProperties DEF Fat!Closed
<1>3. CASE ~(w.run > 0)
  BY <1>1, <1>3 DEF Fat!Closed
<1>4. QED BY <1>2, <1>3

\* The walk after one more cluster.
LEMMA ExtendedWalk ==
  ASSUME TypesOK, IsLink(walk.cluster), NEW c \in Nat,
         walk.run = 0 => walk.extents = <<>> /\ walk.first = 0,
         NEW v, v = [Fat!Extended(walk) EXCEPT !.cluster = c],
         NEW s, s = Fat!ClusterSector(walk.cluster)
  PROVE  /\ v \in Walks /\ v.run # 0 /\ v.cluster = c
         /\ v.file = walk.file /\ v.depth = walk.depth
         /\ v.run \in {ClusterSectors, walk.run + ClusterSectors}
         /\ LET x == [start |-> s, count |-> ClusterSectors]
                y == [start |-> walk.first, count |-> walk.run + ClusterSectors]
            IN Fat!Closed(v) = IF walk.run = 0 THEN <<x>>
                               ELSE IF s = walk.first + walk.run
                               THEN Append(walk.extents, y)
                               ELSE Append(Fat!Closed(walk), x)
<1>1. /\ walk \in Walks /\ walk.run \in Nat /\ walk.first \in Nat
      /\ walk.extents \in Seq(Extents) /\ walk.cluster \in Nat
      /\ ClusterSectors \in Nat \ {0} /\ Fat!Closed(walk) \in Seq(Extents)
  BY Params, ClosedType DEF TypesOK, Walks
<1>2. s \in Nat
  <2>1. walk.cluster >= 2
    BY DEF IsLink
  <2>2. QED BY <1>1, <2>1, SectorFits
<1>3. CASE s = walk.first + walk.run
  <2>1. v = [walk EXCEPT !.run = walk.run + ClusterSectors, !.cluster = c]
    BY <1>1, <1>3 DEF Fat!Extended, Walks
  <2>2. /\ v \in Walks /\ v.run = walk.run + ClusterSectors /\ v.first = walk.first
        /\ v.extents = walk.extents /\ v.cluster = c /\ v.file = walk.file
        /\ v.depth = walk.depth
    <3>1. walk.run + ClusterSectors \in Nat
      BY <1>1
    <3>2. QED BY <1>1, <2>1, <3>1 DEF Walks
  <2>3. v.run > 0 /\ v.run # 0
    BY <1>1, <2>2
  <2>4. Fat!Closed(v) = Append(walk.extents, [start |-> walk.first, count |-> walk.run + ClusterSectors])
    BY <2>2, <2>3 DEF Fat!Closed
  <2>5. walk.run = 0 => Fat!Closed(v) = <<[start |-> s, count |-> ClusterSectors]>>
    <3>1. SUFFICES ASSUME walk.run = 0
                   PROVE  Fat!Closed(v) = <<[start |-> s, count |-> ClusterSectors]>>
      OBVIOUS
    <3>2. walk.extents = <<>> /\ walk.first = s /\ walk.run + ClusterSectors = ClusterSectors
      BY <1>1, <1>3, <3>1
    <3>3. QED BY <2>4, <3>2
  <2>6. QED BY <1>3, <2>2, <2>3, <2>4, <2>5
<1>4. CASE s # walk.first + walk.run
  <2>1. v = [walk EXCEPT !.extents = Fat!Closed(walk), !.first = s,
                         !.run = ClusterSectors, !.cluster = c]
    BY <1>1, <1>4 DEF Fat!Extended, Walks
  <2>2. /\ v \in Walks /\ v.run = ClusterSectors /\ v.first = s
        /\ v.extents = Fat!Closed(walk) /\ v.cluster = c /\ v.file = walk.file
        /\ v.depth = walk.depth
    BY <1>1, <1>2, <2>1 DEF Walks
  <2>3. v.run > 0 /\ v.run # 0
    BY <1>1, <2>2
  <2>4. Fat!Closed(v) = Append(Fat!Closed(walk), [start |-> s, count |-> ClusterSectors])
    BY <2>2, <2>3 DEF Fat!Closed
  <2>5. walk.run = 0 => Fat!Closed(walk) = <<>>
    BY <1>1 DEF Fat!Closed
  <2>6. walk.run = 0 => Fat!Closed(v) = <<[start |-> s, count |-> ClusterSectors]>>
    BY <2>4, <2>5
  <2>7. QED BY <1>4, <2>2, <2>3, <2>4, <2>6
<1>5. QED BY <1>3, <1>4

\* What get_fat_entry returns comes from the table, or is 0.
LEMMA EntryCame ==
  ASSUME TypesOK, NEW a, NEW ok \in Fat!TableReads(Fat!TableSector(a)),
         NEW c \in Fat!FatEntry(a, ok)
  PROVE  c \in Nat /\ Came(a, c)
<1>1. CASE ok
  <2>1. c \in Fat!TableValues(a)
    BY <1>1 DEF Fat!FatEntry
  <2>2. CASE Fat!Straddles(a)
    BY <2>1, <2>2, Params DEF Fat!TableValues, Came, TableSays
  <2>3. CASE ~Fat!Straddles(a)
    <3>1. c = TrueNext(a)
      BY <2>1, <2>3 DEF Fat!TableValues, TrueNext
    <3>2. QED BY <2>3, <3>1, VolumeTypes DEF Came, TableSays
  <2>4. QED BY <2>2, <2>3
<1>2. CASE ~ok
  <2>1. c = 0
    BY <1>2 DEF Fat!FatEntry
  <2>2. Fat!TableSector(a) \in Unsound
    BY <1>2 DEF Fat!TableReads, Fat!ReadResults, Unsound
  <2>3. QED BY <2>1, <2>2 DEF Came
<1>3. QED BY <1>1, <1>2

\* One more cluster of the chain that began with any cluster.
LEMMA PathStep ==
  ASSUME IInv, Fat!FollowChain
  PROVE  /\ walk' \in Walks /\ walk'.run # 0 /\ IsLink(walk.cluster)
         /\ walk'.file = walk.file /\ walk'.depth = walk.depth
         /\ walk'.cluster \in Nat /\ Came(walk.cluster, walk'.cluster)
         /\ walk'.run % ClusterSectors = 0
         /\ Fits(walk.cluster) =>
              \A b : (IF walk.run = 0 THEN walk.cluster = b
                     ELSE IsPath(b, Fat!Closed(walk), walk.cluster))
                => IsPath(b, Fat!Closed(walk'), walk'.cluster)
<1>1. /\ pc = "chain" /\ Fat!Follows(walk.cluster)
      /\ UNCHANGED <<vol, pc, stop, files, stack>>
      /\ \E ok \in Fat!TableReads(Fat!TableSector(walk.cluster)) :
           \E c \in Fat!FatEntry(walk.cluster, ok) :
             walk' = [Fat!Extended(walk) EXCEPT !.cluster = c]
  BY DEF Fat!FollowChain
<1>2. PICK ok \in Fat!TableReads(Fat!TableSector(walk.cluster)) :
        \E c \in Fat!FatEntry(walk.cluster, ok) :
          walk' = [Fat!Extended(walk) EXCEPT !.cluster = c]
  BY <1>1
<1>3. PICK c \in Fat!FatEntry(walk.cluster, ok) :
        walk' = [Fat!Extended(walk) EXCEPT !.cluster = c]
  BY <1>2
<1>4. /\ TypesOK /\ walk \in Walks /\ walk.cluster \in Nat /\ walk.run \in Nat
      /\ walk.first \in Nat /\ walk.extents \in Seq(Extents)
      /\ Fat!Closed(walk) \in Seq(Extents)
      /\ walk.run = 0 => walk.extents = <<>> /\ walk.first = 0
  BY <1>1, ClosedType DEF IInv, TypesOK, WalkOK, Walks
<1>5. IsLink(walk.cluster) /\ c \in Nat /\ Came(walk.cluster, c)
  BY <1>1, <1>3, <1>4, LinkFollows, EntryCame
<1> DEFINE s == Fat!ClusterSector(walk.cluster)
           x == [start |-> s, count |-> ClusterSectors]
           y == [start |-> walk.first, count |-> walk.run + ClusterSectors]
<1>6. /\ walk' \in Walks /\ walk'.run # 0 /\ walk'.cluster = c
      /\ walk'.file = walk.file /\ walk'.depth = walk.depth
      /\ walk'.run \in {ClusterSectors, walk.run + ClusterSectors}
      /\ Fat!Closed(walk') = IF walk.run = 0 THEN <<x>>
                             ELSE IF s = walk.first + walk.run
                             THEN Append(walk.extents, y)
                             ELSE Append(Fat!Closed(walk), x)
  BY <1>3, <1>4, <1>5, ExtendedWalk
<1> HIDE DEF s, x, y
<1>7. ASSUME Fits(walk.cluster),
             NEW b, IF walk.run = 0 THEN walk.cluster = b
                    ELSE IsPath(b, Fat!Closed(walk), walk.cluster)
      PROVE  IsPath(b, Fat!Closed(walk'), c)
  <2>1. s = SectorOf(walk.cluster)
    BY <1>4, <1>5, <1>7, SectorFits, Params DEF s, IsLink
  <2>2. CASE walk.run = 0
    BY <1>4, <1>5, <1>6, <1>7, <2>1, <2>2, PathStarts DEF x
  <2>3. CASE walk.run # 0 /\ s = walk.first + walk.run
    <3> DEFINE z == [start |-> walk.first, count |-> walk.run]
    <3>1. Fat!Closed(walk) = Append(walk.extents, z)
      BY <1>4, <2>3 DEF Fat!Closed
    <3>2. z \in Extents /\ z.start = walk.first /\ z.count = walk.run
      BY <1>4, <2>3 DEF Extents
    <3>3. y = [start |-> z.start, count |-> z.count + ClusterSectors]
      BY DEF y
    <3> HIDE DEF z
    <3>4. IsPath(b, Append(walk.extents, y), c)
      BY <1>4, <1>5, <1>7, <2>1, <2>3, <3>1, <3>2, <3>3, PathGrows
    <3>5. QED BY <1>6, <2>3, <3>4
  <2>4. CASE walk.run # 0 /\ s # walk.first + walk.run
    <3>1. IsPath(b, Append(Fat!Closed(walk), x), c)
      BY <1>4, <1>5, <1>7, <2>1, <2>4, PathAdds DEF x
    <3>2. QED BY <1>6, <2>4, <3>1
  <2>5. QED BY <2>2, <2>3, <2>4
<1>8. walk'.run % ClusterSectors = 0
  <2>1. ClusterSectors \in Nat \ {0} /\ (walk.run # 0 => walk.run % ClusterSectors = 0)
    BY <1>1, Params DEF IInv, WalkOK
  <2>2. walk.run % ClusterSectors = 0
    BY <2>1
  <2>3. PICK q \in Nat : walk.run = q * ClusterSectors
    BY <1>4, <2>1, <2>2, DivTimes
  <2>4. walk.run + ClusterSectors = (q + 1) * ClusterSectors /\ q + 1 \in Nat
        /\ ClusterSectors = 1 * ClusterSectors
    BY <2>1, <2>3
  <2>5. (walk.run + ClusterSectors) % ClusterSectors = 0 /\ ClusterSectors % ClusterSectors = 0
    BY <2>1, <2>4, DivExact
  <2>6. QED BY <1>6, <2>5
<1>9. QED BY <1>5, <1>6, <1>7, <1>8

----------------------------------------------------------------------------
(* The volume stays, and so does what is said of it.                       *)

LEMMA LinksFixed ==
  ASSUME UNCHANGED vol
  PROVE  /\ \A c : /\ TableSays(c)' = TableSays(c) /\ Nexts(c)' = Nexts(c)
                   /\ SectorOf(c)' = SectorOf(c) /\ (Fits(c)' <=> Fits(c))
         /\ \A a, b : Leads(a, b)' <=> Leads(a, b)
         /\ \A a, c : Came(a, c)' <=> Came(a, c)
         /\ \A D : Confined(D)' <=> Confined(D)
         /\ \A c : AllReached(c)' = AllReached(c) /\ (IsConfined(c)' <=> IsConfined(c))
<1>1. \A c : TableSays(c)' = TableSays(c)
  BY DEF TableSays, TrueNext, Fat!Straddles, Fat!TableOffset
<1>2. \A c : Nexts(c)' = Nexts(c)
  BY <1>1 DEF Nexts, IsLink
<1>3. \A c : SectorOf(c)' = SectorOf(c) /\ (Fits(c)' <=> Fits(c))
  BY DEF SectorOf, Fits
<1>4. \A a, b : Leads(a, b)' <=> Leads(a, b)
  BY <1>2 DEF Leads
<1>5. \A a, c : Came(a, c)' <=> Came(a, c)
  BY <1>1 DEF Came, Unsound, Fat!TableSector, Fat!TableOffset
<1>6. \A D : Confined(D)' <=> Confined(D)
  BY <1>2, <1>3 DEF Confined, IsLink
<1>7. Reached' = Reached
  BY DEF Reached, Nexts, TableSays, TrueNext, IsLink, Fat!Straddles, Fat!TableOffset
<1>8. \A c : AllReached(c)' = AllReached(c)
  BY <1>7 DEF AllReached
<1>9. \A c : IsConfined(c)' <=> IsConfined(c)
  BY <1>6, <1>8 DEF IsConfined, IsLink
<1>10. QED BY <1>1, <1>2, <1>3, <1>4, <1>5, <1>6, <1>8, <1>9

LEMMA VolumeFixed ==
  ASSUME UNCHANGED vol
  PROVE  /\ IsFat' = IsFat /\ FatFiles' = FatFiles /\ MftFiles' = MftFiles
         /\ \A b, t, d : IsPath(b, t, d)' <=> IsPath(b, t, d)
         /\ \A b, c : Stays(b, c)' <=> Stays(b, c)
<1>1. \A x : IsRun(x)' <=> IsRun(x)
  BY LinksFixed DEF IsRun, IsLink, FirstCluster, LastCluster
<1>2. /\ \A x, y : Leads(x, y)' <=> Leads(x, y)
      /\ \A x, c : Came(x, c)' <=> Came(x, c)
      /\ \A c : IsConfined(c)' <=> IsConfined(c)
  BY LinksFixed
<1>3. \A c : Ends(c)' <=> Ends(c)
  BY DEF Ends, TrueNext, Unsound, IsLink, Fat!Straddles, Fat!TableSector, Fat!TableOffset
<1>4. \A b, t, d : IsPath(b, t, d)' <=> IsPath(b, t, d)
  BY <1>1, <1>2 DEF IsPath, FirstCluster, LastCluster, Last, IsLink
<1>5. \A b, t : IsChain(b, t)' <=> IsChain(b, t)
  BY <1>1, <1>2, <1>3 DEF IsChain, FirstCluster, LastCluster, Last, IsLink
<1>6. FatFiles' = FatFiles
  BY <1>2, <1>5 DEF FatFiles
<1>7. MftFiles' = MftFiles
  BY DEF MftFiles, Mft!FileOf, Mft!RecordAt
<1>8. \A b, c : Stays(b, c)' <=> Stays(b, c)
  BY LinksFixed DEF Stays, IsLink
<1>9. QED BY <1>4, <1>6, <1>7, <1>8 DEF IsFat

LEMMA FollowChainWalk ==
  ASSUME IInv, Fat!FollowChain
  PROVE  walk' \in Walks /\ WalkOK' /\ walk'.file = walk.file /\ walk'.depth = walk.depth
<1>1. /\ walk' \in Walks /\ walk'.run # 0 /\ IsLink(walk.cluster)
      /\ walk'.file = walk.file /\ walk'.depth = walk.depth
      /\ Came(walk.cluster, walk'.cluster) /\ walk'.run % ClusterSectors = 0
  BY PathStep
<1>2. pc = "chain" /\ UNCHANGED vol
  BY DEF Fat!FollowChain
<1>3. ASSUME walk.file # <<>>, NEW b, b = walk.file[1].entry.cluster
      PROVE  IsLink(b) /\ (IsConfined(b) => Stays(b, walk'.cluster)
                              /\ IsPath(b, Fat!Closed(walk'), walk'.cluster))
  <2>1. IF walk.run = 0 THEN walk.cluster = b
        ELSE IsLink(b) /\ (IsConfined(b) => Stays(b, walk.cluster)
                              /\ IsPath(b, Fat!Closed(walk), walk.cluster))
    BY <1>2, <1>3 DEF IInv, WalkOK
  <2>2. IsLink(b)
    BY <1>1, <2>1
  <2>3. SUFFICES ASSUME IsConfined(b)
                 PROVE  Stays(b, walk'.cluster) /\ IsPath(b, Fat!Closed(walk'), walk'.cluster)
    BY <2>2
  <2>4. b \in AllReached(b) /\ Confined(AllReached(b))
    BY <2>2, <2>3 DEF IsConfined
  <2>5. walk.cluster \in AllReached(b)
    BY <1>1, <2>1, <2>3, <2>4 DEF Stays
  <2>6. Fits(walk.cluster) /\ Nexts(walk.cluster) \subseteq AllReached(b)
    BY <1>1, <2>4, <2>5 DEF Confined
  <2>7. IsPath(b, Fat!Closed(walk'), walk'.cluster)
    BY <2>1, <2>3, <2>6, PathStep
  <2>8. IsLink(walk'.cluster) => walk'.cluster \in Nexts(walk.cluster)
    BY <1>1 DEF Came, Nexts, IsLink
  <2>9. QED BY <2>6, <2>7, <2>8 DEF Stays
<1>4. WalkOK'
  BY <1>1, <1>2, <1>3, VolumeFixed, LinksFixed DEF WalkOK, IsLink
<1>5. QED BY <1>1, <1>4

LEMMA WalkKept ==
  ASSUME WalkOK, UNCHANGED <<vol, walk>>, pc' = "chain" => pc = "chain"
  PROVE  WalkOK'
<1>1. /\ \A b, t, d : IsPath(b, t, d)' <=> IsPath(b, t, d)
      /\ \A b, c : Stays(b, c)' <=> Stays(b, c)
      /\ \A c : IsConfined(c)' <=> IsConfined(c)
  BY VolumeFixed, LinksFixed
<1>2. QED BY <1>1 DEF WalkOK, IsLink, Fat!Closed

LEMMA FilesKept ==
  ASSUME TypesOK, UNCHANGED <<vol, files>>
  PROVE  /\ vol' \in Volumes
         /\ files' \in Seq(IF IsFat' THEN FatFiles' ELSE MftFiles')
BY VolumeFixed DEF TypesOK

\* What the open directory is, and where its entries lead.
LEMMA TopOfStack ==
  ASSUME TypesOK, DepthOK, stack # <<>>
  PROVE  /\ Fat!Top \in Frames /\ Fat!Top.depth = Len(stack) - 1
         /\ Fat!Below \in Seq(Frames) /\ Len(Fat!Below) = Len(stack) - 1
         /\ \A d \in DOMAIN Fat!Below : Fat!Below[d].depth = d - 1
         /\ \A f \in Frames : f.depth = Fat!Top.depth =>
              LET s == Append(Fat!Below, f)
              IN /\ s \in Seq(Frames) /\ Len(s) = Len(stack) /\ s # <<>>
                 /\ \A d \in DOMAIN s : s[d].depth = d - 1
<1> DEFINE n == Len(stack)
           t == Fat!Below
<1>1. stack \in Seq(Frames) /\ n \in Nat \ {0} /\ DOMAIN stack = 1..n
      /\ \A d \in 1..n : stack[d] \in Frames /\ stack[d].depth = d - 1
  BY EmptySeq, LenProperties, ElementOfSeq DEF TypesOK, DepthOK
<1>2. Fat!Top = stack[n] /\ t = SubSeq(stack, 1, n - 1)
  BY DEF Fat!Top, Fat!Below, Fat!Last, Fat!Front
<1>3. t \in Seq(Frames) /\ Len(t) = n - 1 /\ \A d \in 1..(n - 1) : t[d] = stack[d]
  <2>1. n - 1 \in Int /\ \A d \in 1..(n - 1) : stack[d] \in Frames
    BY <1>1
  <2>2. /\ SubSeq(stack, 1, n - 1) \in Seq(Frames)
        /\ Len(SubSeq(stack, 1, n - 1)) = IF 1 <= n - 1 THEN (n - 1) - 1 + 1 ELSE 0
        /\ \A d \in 1..((n - 1) - 1 + 1) : SubSeq(stack, 1, n - 1)[d] = stack[1 + d - 1]
    BY <2>1, SubSeqProperties
  <2> HIDE DEF n, t
  <2>3. QED BY <1>1, <1>2, <2>2
<1> HIDE DEF n, t
<1>4. DOMAIN t = 1..(n - 1) /\ \A d \in 1..(n - 1) : t[d].depth = d - 1
  BY <1>1, <1>3, LenProperties
<1>5. Fat!Top \in Frames /\ Fat!Top.depth = n - 1
  BY <1>1, <1>2
<1>6. ASSUME NEW f \in Frames, f.depth = Fat!Top.depth, NEW s, s = Append(t, f)
      PROVE  /\ s \in Seq(Frames) /\ Len(s) = n /\ s # <<>>
             /\ \A d \in DOMAIN s : s[d].depth = d - 1
  <2>1. /\ s \in Seq(Frames) /\ s # <<>> /\ Len(s) = (n - 1) + 1
        /\ DOMAIN s = 1..((n - 1) + 1) /\ s[(n - 1) + 1] = f
        /\ \A d \in 1..(n - 1) : s[d] = t[d]
    BY <1>3, <1>6, AppendLast
  <2>2. (n - 1) + 1 = n
    BY <1>1
  <2>3. \A d \in 1..n : s[d].depth = d - 1
    <3>1. TAKE d \in 1..n
    <3>2. d \in 1..(n - 1) \/ d = n
      BY <1>1
    <3>3. QED BY <1>4, <1>5, <1>6, <2>1, <2>2, <3>2
  <2>4. QED BY <2>1, <2>2, <2>3
<1>7. QED BY <1>3, <1>4, <1>5, <1>6 DEF n, t

LEMMA EntryType ==
  ASSUME TypesOK, DepthOK, Fat!AtEntry
  PROVE  /\ stack # <<>> /\ Fat!Entry \in Entries /\ Fat!Entry.cluster \in Nat
         /\ Fat!Entry.name \in Names
<1>1. stack # <<>>
  BY DEF Fat!AtEntry, DepthOK
<1>2. Fat!Top \in Frames
  BY <1>1, TopOfStack
<1>3. Fat!Top.entries \in Seq(Entries) /\ Fat!Top.next \in DOMAIN Fat!Top.entries
  BY <1>2 DEF Fat!AtEntry, Fat!AtEnd, Frames
<1>4. Fat!Entry \in Entries
  BY <1>3, ElementOfSeq, LenProperties DEF Fat!Entry
<1>5. QED BY <1>1, <1>4, EntriesAssumption DEF Names

\* The directory moves on to its next entry.
LEMMA SteppedStack ==
  ASSUME TypesOK, DepthOK, stack # <<>>
  PROVE  /\ Fat!Stepped \in Seq(Frames) /\ Len(Fat!Stepped) = Len(stack)
         /\ Fat!Stepped # <<>>
         /\ \A d \in DOMAIN Fat!Stepped : Fat!Stepped[d].depth = d - 1
<1> DEFINE f == [Fat!Top EXCEPT !.next = @ + 1, !.long = <<>>, !.valid = FALSE]
<1>1. Fat!Top \in Frames
  BY TopOfStack
<1>2. f \in Frames /\ f.depth = Fat!Top.depth
  <2>1. Fat!Top.next + 1 \in Nat \ {0} /\ <<>> \in Seq(Names)
    BY <1>1 DEF Frames
  <2>2. QED BY <1>1, <2>1 DEF Frames
<1>3. Fat!Stepped = Append(Fat!Below, f)
  BY DEF Fat!Stepped
<1> HIDE DEF f
<1>4. QED BY <1>2, <1>3, TopOfStack

----------------------------------------------------------------------------
(* The actions of the FAT parser.                                          *)

LEMMA NoWalkType ==
  /\ Fat!NoWalk \in Walks /\ Fat!NoWalk.run = 0 /\ Fat!NoWalk.file = <<>>
  /\ \A c \in Nat, d \in 0..MaxDepth :
       LET w == Fat!ChainOfDirectory(c, d)
       IN /\ w \in Walks /\ w.run = 0 /\ w.extents = <<>> /\ w.first = 0
          /\ w.file = <<>> /\ w.depth = d
  /\ \A c \in Nat, f \in Told :
       LET w == Fat!ChainOfFile(c, f)
       IN /\ w \in Walks /\ w.run = 0 /\ w.extents = <<>> /\ w.first = 0
          /\ w.file = <<f>> /\ w.cluster = c
<1>1. 0 \in 0..MaxDepth /\ <<>> \in Seq(Extents) /\ <<>> \in Seq(Told)
      /\ \A f \in Told : <<f>> \in Seq(Told)
  BY Params
<1>2. QED BY <1>1 DEF Fat!NoWalk, Fat!ChainOfDirectory, Fat!ChainOfFile, Walks

LEMMA ParseBootSectorInv ==
  ASSUME IInv, Fat!ParseBootSector, UNCHANGED mftVars
  PROVE  IInv'
<1>1. /\ pc = "fat" /\ UNCHANGED <<vol, stop, files, stack, cached, order>>
      /\ \/ pc' \in {"done", "root"} /\ UNCHANGED walk
         \/ pc' = "chain" /\ walk' = Fat!ChainOfDirectory(vol.root, 0)
  BY DEF Fat!ParseBootSector
<1>2. TypesOK /\ DepthOK /\ stack = <<>> /\ vol.root \in Nat /\ IsFat /\ 0 \in 0..MaxDepth
  BY <1>1, VolumeTypes, Params DEF IInv, DepthOK, TypesOK, OnFat, OnMft
<1> DEFINE w == Fat!ChainOfDirectory(vol.root, 0)
<1>3. /\ w \in Walks /\ w.run = 0 /\ w.extents = <<>> /\ w.first = 0
      /\ w.file = <<>> /\ w.depth = 0
  BY <1>2, NoWalkType
<1> HIDE DEF w
<1>4. walk' \in Walks
  BY <1>1, <1>2, <1>3 DEF TypesOK, w
<1>5. CacheOK'
  BY <1>1 DEF IInv, CacheOK
<1>6. DepthOK'
  BY <1>1, <1>2, <1>3 DEF DepthOK, w
<1>7. WalkOK'
  BY <1>1, <1>3 DEF WalkOK, w
<1>8. TypesOK'
  BY <1>1, <1>2, <1>4, FilesKept, VolumeFixed DEF TypesOK, OnFat, OnMft, mftVars
<1>9. QED BY <1>5, <1>6, <1>7, <1>8 DEF IInv

LEMMA ReadRootDirectoryInv ==
  ASSUME IInv, Fat!ReadRootDirectory, UNCHANGED mftVars
  PROVE  IInv'
<1> DEFINE f == [depth |-> 0, next |-> 1, entries |-> vol.rootEntries,
                 long |-> <<>>, valid |-> FALSE]
<1>1. /\ pc = "root" /\ UNCHANGED <<vol, stop, files, walk, cached, order>>
      /\ \/ pc' = "entry" /\ stack' = <<f>>
         \/ pc' = "done" /\ UNCHANGED stack
  BY DEF Fat!ReadRootDirectory
<1>2. TypesOK /\ DepthOK /\ stack = <<>> /\ IsFat /\ 0 \in 0..MaxDepth /\ MaxDepth \in Nat
  BY <1>1, Params DEF IInv, DepthOK, TypesOK, OnFat, OnMft
<1>3. f \in Frames /\ f.depth = 0
  <2>1. vol.rootEntries \in Seq(Entries) /\ <<>> \in Seq(Names)
    BY <1>2, VolumeTypes
  <2>2. QED BY <1>2, <2>1 DEF Frames
<1> HIDE DEF f
<1>4. /\ <<f>> \in Seq(Frames) /\ Len(<<f>>) = 1 /\ <<f>> # <<>>
      /\ \A d \in DOMAIN <<f>> : <<f>>[d].depth = d - 1
  BY <1>3
<1>5. CacheOK'
  BY <1>1 DEF IInv, CacheOK
<1>6. DepthOK'
  <2>1. CASE UNCHANGED stack
    BY <1>1, <1>2, <1>4, <2>1 DEF DepthOK
  <2>2. CASE pc' = "entry" /\ stack' = <<f>>
    BY <1>2, <1>4, <2>2 DEF DepthOK
  <2>3. QED BY <1>1, <2>1, <2>2
<1>7. WalkOK'
  BY <1>1 DEF WalkOK
<1>8. stack' \in Seq(Frames)
  BY <1>1, <1>2, <1>4 DEF TypesOK
<1>9. TypesOK'
  BY <1>1, <1>2, <1>8, FilesKept, VolumeFixed DEF TypesOK, OnFat, OnMft, mftVars
<1>10. QED BY <1>5, <1>6, <1>7, <1>9 DEF IInv

LEMMA FollowChainInv ==
  ASSUME IInv, Fat!FollowChain, UNCHANGED mftVars
  PROVE  IInv'
<1>1. /\ UNCHANGED <<vol, pc, stop, files, stack>>
      /\ \E ok \in Fat!TableReads(Fat!TableSector(walk.cluster)) :
           Fat!CacheFatSector(Fat!TableSector(walk.cluster), ok)
  BY DEF Fat!FollowChain
<1>2. CacheOK'
  BY <1>1, CacheStep DEF IInv
<1>3. walk' \in Walks /\ WalkOK' /\ walk'.file = walk.file /\ walk'.depth = walk.depth
  BY FollowChainWalk
<1>4. DepthOK'
  BY <1>1, <1>3 DEF IInv, DepthOK
<1>5. TypesOK'
  BY <1>1, <1>3, FilesKept, VolumeFixed DEF IInv, TypesOK, mftVars
<1>6. QED BY <1>2, <1>3, <1>4, <1>5 DEF IInv

LEMMA OutOfMemoryInv ==
  ASSUME IInv, Fat!OutOfMemory, UNCHANGED mftVars
  PROVE  IInv'
<1>1. /\ pc = "chain" /\ pc' = "terminated"
      /\ UNCHANGED <<vol, stop, files, stack, walk, cached, order>>
  BY DEF Fat!OutOfMemory
<1>2. CacheOK' /\ DepthOK' /\ WalkOK'
  BY <1>1 DEF IInv, CacheOK, DepthOK, WalkOK
<1>3. TypesOK'
  BY <1>1, FilesKept, VolumeFixed DEF IInv, TypesOK, OnFat, OnMft, mftVars
<1>4. QED BY <1>2, <1>3 DEF IInv

LEMMA ChainOfFileEndsInv ==
  ASSUME IInv, Fat!ChainOfFileEnds, UNCHANGED mftVars
  PROVE  IInv'
<1> DEFINE t == walk.file[1]
           f == [name |-> t.name, damaged |-> t.damaged, entry |-> t.entry,
                 extents |-> Fat!Closed(walk)]
<1>1. /\ pc = "chain" /\ ~Fat!Follows(walk.cluster) /\ walk.file # <<>>
      /\ files' = IF stop THEN files ELSE Append(files, f)
      /\ walk' = Fat!NoWalk /\ pc' = IF stack = <<>> THEN "done" ELSE "entry"
      /\ UNCHANGED <<vol, stop, stack, cached, order>>
  BY DEF Fat!ChainOfFileEnds, Fat!Continue
<1>2. /\ TypesOK /\ DepthOK /\ IsFat /\ walk \in Walks /\ walk.cluster \in Nat
      /\ walk.file \in Seq(Told) /\ walk.run \in Nat
  BY <1>1 DEF IInv, TypesOK, OnFat, OnMft, Walks
<1>3. t \in Told /\ Fat!Closed(walk) \in Seq(Extents)
  <2>1. 1 \in 1..Len(walk.file)
    BY <1>1, <1>2, EmptySeq, LenProperties
  <2>2. QED BY <1>2, <2>1, ElementOfSeq, ClosedType
<1>4. IsConfined(t.entry.cluster) => IsChain(t.entry.cluster, Fat!Closed(walk))
  <2>0. SUFFICES ASSUME IsConfined(t.entry.cluster)
                 PROVE  IsChain(t.entry.cluster, Fat!Closed(walk))
    OBVIOUS
  <2>1. ~IsLink(walk.cluster)
    BY <1>1, <1>2, LinkFollows
  <2>2. CASE walk.run = 0
    <3>1. Fat!Closed(walk) = <<>> /\ walk.cluster = t.entry.cluster
      BY <1>1, <2>2 DEF IInv, WalkOK, Fat!Closed
    <3>2. QED BY <2>1, <3>1 DEF IsChain
  <2>3. CASE walk.run # 0
    <3>1. IsPath(t.entry.cluster, Fat!Closed(walk), walk.cluster)
      BY <1>1, <2>0, <2>3 DEF IInv, WalkOK
    <3>2. QED BY <2>1, <3>1, PathEnds
  <2>4. QED BY <2>2, <2>3
<1>5. f \in FatFiles
  <2>1. f.entry = t.entry /\ f.extents = Fat!Closed(walk)
    OBVIOUS
  <2> HIDE DEF t
  <2>2. f \in [name : Seq(Names), damaged : {e.gone : e \in Entries},
               entry : Entries, extents : Seq(Extents)]
    BY <1>3 DEF Told
  <2> HIDE DEF f
  <2>3. QED BY <1>4, <2>1, <2>2 DEF FatFiles
<1> HIDE DEF f
<1>6. files' \in Seq(FatFiles)
  BY <1>1, <1>2, <1>5, AppendProperties DEF TypesOK
<1>7. walk' \in Walks /\ pc' \in {"done", "entry"} /\ (pc' = "entry" => stack # <<>>)
  BY <1>1, NoWalkType
<1>8. TypesOK'
  BY <1>1, <1>2, <1>6, <1>7, VolumeFixed DEF TypesOK, OnFat, OnMft, mftVars
<1>9. DepthOK'
  BY <1>1, <1>2, <1>7 DEF DepthOK
<1>10. CacheOK' /\ WalkOK'
  BY <1>1, <1>7 DEF IInv, CacheOK, WalkOK
<1>11. QED BY <1>8, <1>9, <1>10 DEF IInv

LEMMA ExtentEntriesType ==
  ASSUME TypesOK, NEW x \in Extents
  PROVE  Fat!ExtentEntries(x) \in Seq(Entries)
<1> DEFINE n == x.count \div ClusterSectors
           at(k) == Fat!EntriesAt(x.start + (k - 1) * ClusterSectors)
<1>1. n \in Nat
  BY Params DEF Extents
<1>2. \A c : Fat!EntriesAt(c) \in Seq(Entries)
  BY VolumeTypes DEF Fat!EntriesAt
<1>3. [k \in 1..n |-> at(k)] \in Seq(Seq(Entries))
  <2> HIDE DEF n
  <2>1. \A k \in 1..n : at(k) \in Seq(Entries)
    BY <1>2
  <2> HIDE DEF at
  <2>2. QED BY <1>1, <2>1
<1>4. FlattenSeq([k \in 1..n |-> at(k)]) \in Seq(Entries)
  BY <1>3, FlattenType
<1>5. Fat!ExtentEntries(x) = FlattenSeq([k \in 1..n |-> at(k)])
  BY Instances DEF Fat!ExtentEntries
<1>6. QED BY <1>4, <1>5

LEMMA DirectoryChainEndsInv ==
  ASSUME IInv, Fat!DirectoryChainEnds, UNCHANGED mftVars
  PROVE  IInv'
<1> DEFINE exts == Fat!Closed(walk)
           read(n) == Fat!FlattenSeq([k \in 1..n |-> Fat!ExtentEntries(exts[k])])
           frame(n) == [depth |-> walk.depth, next |-> 1, entries |-> read(n),
                        long |-> <<>>, valid |-> FALSE]
<1>1. /\ pc = "chain" /\ walk.file = <<>>
      /\ \E n \in 0..Len(exts) :
           stack' = IF exts = <<>> THEN stack ELSE Append(stack, frame(n))
      /\ walk' = Fat!NoWalk /\ pc' = IF stack' = <<>> THEN "done" ELSE "entry"
      /\ UNCHANGED <<vol, stop, files, cached, order>>
  BY DEF Fat!DirectoryChainEnds, Fat!Continue
<1>2. /\ TypesOK /\ DepthOK /\ IsFat /\ walk \in Walks /\ stack \in Seq(Frames)
      /\ walk.depth \in 0..MaxDepth /\ exts \in Seq(Extents) /\ Len(exts) \in Nat
      /\ walk.depth = Len(stack) /\ MaxDepth \in Nat
  BY <1>1, ClosedType, LenProperties, Params DEF IInv, TypesOK, DepthOK, OnFat, Walks
<1> HIDE DEF exts
<1>3. \A n \in 0..Len(exts) : frame(n) \in Frames /\ frame(n).depth = Len(stack)
  <2>1. TAKE n \in 0..Len(exts)
  <2>2. \A k \in 1..n : exts[k] \in Extents
    BY <1>2, ElementOfSeq
  <2>3. \A k \in 1..n : Fat!ExtentEntries(exts[k]) \in Seq(Entries)
    BY <1>2, <2>2, ExtentEntriesType
  <2>4. [k \in 1..n |-> Fat!ExtentEntries(exts[k])] \in Seq(Seq(Entries))
    BY <1>2, <2>3
  <2>5. read(n) \in Seq(Entries)
    BY <2>4, FlattenType, Instances
  <2>6. <<>> \in Seq(Names)
    OBVIOUS
  <2> HIDE DEF read
  <2>7. QED BY <1>2, <2>5, <2>6 DEF Frames
<1> HIDE DEF frame
<1>4. PICK n \in 0..Len(exts) :
        stack' = IF exts = <<>> THEN stack ELSE Append(stack, frame(n))
  BY <1>1
<1>5. /\ stack' \in Seq(Frames) /\ Len(stack') <= MaxDepth + 1
      /\ \A d \in DOMAIN stack' : stack'[d].depth = d - 1
  <2>1. CASE exts = <<>>
    BY <1>2, <1>4, <2>1 DEF DepthOK
  <2>2. CASE exts # <<>>
    <3>1. /\ stack' \in Seq(Frames) /\ Len(stack') = Len(stack) + 1
          /\ DOMAIN stack' = 1..(Len(stack) + 1)
          /\ \A k \in 1..Len(stack) : stack'[k] = stack[k]
          /\ stack'[Len(stack) + 1] = frame(n)
      BY <1>2, <1>3, <1>4, <2>2, AppendLast
    <3>2. Len(stack) \in Nat /\ \A d \in 1..Len(stack) : stack[d].depth = d - 1
      BY <1>2, LenProperties DEF DepthOK
    <3>3. \A d \in DOMAIN stack' : stack'[d].depth = d - 1
      <4>1. TAKE d \in DOMAIN stack'
      <4>2. d \in 1..Len(stack) \/ d = Len(stack) + 1
        BY <3>1, <3>2
      <4>3. QED BY <1>3, <3>1, <3>2, <4>2
    <3>4. QED BY <1>2, <3>1, <3>2, <3>3
  <2>3. QED BY <2>1, <2>2
<1>6. walk' \in Walks /\ pc' \in {"done", "entry"} /\ (pc' = "entry" => stack' # <<>>)
  BY <1>1, NoWalkType
<1>7. TypesOK'
  BY <1>1, <1>2, <1>5, <1>6, FilesKept, VolumeFixed DEF TypesOK, OnFat, OnMft, mftVars
<1>8. DepthOK'
  BY <1>1, <1>5, <1>6 DEF DepthOK
<1>9. CacheOK' /\ WalkOK'
  BY <1>1, <1>6 DEF IInv, CacheOK, WalkOK
<1>10. QED BY <1>7, <1>8, <1>9 DEF IInv

\* The entries that only move the directory on, whatever becomes of the name.
LEMMA StackMoves ==
  ASSUME IInv, UNCHANGED <<vol, stop, files, cached, order, mftVars>>,
         pc = "entry", stack' \in Seq(Frames), Len(stack') = Len(stack),
         stack' # <<>>, \A d \in DOMAIN stack' : stack'[d].depth = d - 1,
         \/ pc' = "entry" /\ UNCHANGED walk
         \/ /\ pc' = "chain" /\ walk' \in Walks /\ walk'.run = 0
            /\ walk'.extents = <<>> /\ walk'.first = 0
            /\ walk'.file = <<>> => walk'.depth = Len(stack)
            /\ walk'.file # <<>> => walk'.cluster = walk'.file[1].entry.cluster
  PROVE  IInv'
<1>1. TypesOK /\ DepthOK /\ IsFat
  BY DEF IInv, TypesOK, OnFat, OnMft
<1>2. walk' \in Walks /\ pc' \in {"entry", "chain"}
  BY <1>1 DEF TypesOK
<1>3. TypesOK'
  BY <1>1, <1>2, FilesKept, VolumeFixed DEF TypesOK, OnFat, OnMft, mftVars
<1>4. DepthOK'
  BY <1>1 DEF DepthOK
<1>5. CacheOK' /\ WalkOK'
  BY DEF IInv, CacheOK, WalkOK
<1>6. QED BY <1>3, <1>4, <1>5 DEF IInv

LEMMA LongNameEntryInv ==
  ASSUME IInv, Fat!LongNameEntry, UNCHANGED mftVars
  PROVE  IInv'
<1> DEFINE e == Fat!Entry
           t == Fat!Top
           seq == IF e.gone THEN 37 ELSE e.seq
           long == IF seq = 1 THEN <<e.name>>
                   ELSE IF seq # 0 /\ t.valid THEN <<e.name>> \o t.long
                   ELSE t.long
           f == [t EXCEPT !.next = @ + 1, !.long = long,
                          !.valid = seq # 0 /\ (seq = 1 \/ @)]
<1>1. /\ Fat!AtEntry /\ stack' = Append(Fat!Below, f)
      /\ UNCHANGED <<vol, pc, stop, files, walk, cached, order>>
  BY DEF Fat!LongNameEntry
<1>2. /\ TypesOK /\ DepthOK /\ stack # <<>> /\ t \in Frames /\ e.name \in Names
      /\ pc = "entry"
  BY <1>1, EntryType, TopOfStack DEF IInv, Fat!AtEntry
<1> HIDE DEF t, e
<1>3. <<e.name>> \in Seq(Names) /\ t.long \in Seq(Names) /\ t.next + 1 \in Nat \ {0}
      /\ t.valid \in BOOLEAN
  BY <1>2 DEF Frames
<1>4. long \in Seq(Names)
  BY <1>3, ConcatProperties
<1> HIDE DEF long
<1>5. (seq # 0 /\ (seq = 1 \/ t.valid)) \in BOOLEAN
  OBVIOUS
<1>6. f \in Frames /\ f.depth = t.depth
  BY <1>2, <1>3, <1>4, <1>5 DEF Frames
<1> HIDE DEF f
<1>7. /\ stack' \in Seq(Frames) /\ Len(stack') = Len(stack) /\ stack' # <<>>
      /\ \A d \in DOMAIN stack' : stack'[d].depth = d - 1
  BY <1>1, <1>2, <1>6, TopOfStack DEF t
<1>8. QED BY <1>1, <1>2, <1>7, StackMoves

LEMMA DirectoryEntryInv ==
  ASSUME IInv, Fat!DirectoryEntry, UNCHANGED mftVars
  PROVE  IInv'
<1> DEFINE c == Fat!Entry.cluster
           d == Fat!Top.depth + 1
<1>1. /\ Fat!AtEntry /\ stack' = Fat!Stepped
      /\ UNCHANGED <<vol, stop, files, cached, order>>
      /\ \/ d <= MaxDepth /\ pc' = "chain" /\ walk' = Fat!ChainOfDirectory(c, d)
         \/ UNCHANGED <<pc, walk>>
  BY DEF Fat!DirectoryEntry, Fat!Opens
<1>2. /\ TypesOK /\ DepthOK /\ stack # <<>> /\ c \in Nat /\ pc = "entry"
      /\ Fat!Top \in Frames /\ Fat!Top.depth = Len(stack) - 1
  BY <1>1, EntryType, TopOfStack DEF IInv, Fat!AtEntry
<1>3. d = Len(stack) /\ d \in Nat /\ MaxDepth \in Nat
  BY <1>2, LenProperties, Params DEF Frames, TypesOK
<1>4. /\ stack' \in Seq(Frames) /\ Len(stack') = Len(stack) /\ stack' # <<>>
      /\ \A k \in DOMAIN stack' : stack'[k].depth = k - 1
  BY <1>1, <1>2, SteppedStack
<1> HIDE DEF c, d
<1>5. CASE d <= MaxDepth /\ pc' = "chain" /\ walk' = Fat!ChainOfDirectory(c, d)
  <2>1. d \in 0..MaxDepth
    BY <1>3, <1>5
  <2>2. /\ walk' \in Walks /\ walk'.run = 0 /\ walk'.extents = <<>>
        /\ walk'.first = 0 /\ walk'.file = <<>> /\ walk'.depth = d
    BY <1>2, <1>5, <2>1, NoWalkType
  <2>3. QED BY <1>1, <1>2, <1>3, <1>4, <1>5, <2>2, StackMoves
<1>6. CASE UNCHANGED <<pc, walk>>
  BY <1>1, <1>2, <1>4, <1>6, StackMoves
<1>7. QED BY <1>1, <1>5, <1>6

LEMMA FileEntryInv ==
  ASSUME IInv, Fat!FileEntry, UNCHANGED mftVars
  PROVE  IInv'
<1> DEFINE e == Fat!Entry
           f == [name |-> Fat!NameOfEntry, damaged |-> e.gone, entry |-> e]
<1>1. /\ Fat!AtEntry /\ stack' = Fat!Stepped /\ pc' = "chain"
      /\ walk' = Fat!ChainOfFile(e.cluster, f)
      /\ UNCHANGED <<vol, stop, files, cached, order>>
  BY DEF Fat!FileEntry
<1>2. /\ TypesOK /\ DepthOK /\ stack # <<>> /\ e \in Entries /\ e.cluster \in Nat
      /\ e.name \in Names /\ pc = "entry" /\ Fat!Top \in Frames
  BY <1>1, EntryType, TopOfStack DEF IInv, Fat!AtEntry
<1>3. Fat!NameOfEntry \in Seq(Names)
  BY <1>2 DEF Fat!NameOfEntry, Frames
<1>4. /\ stack' \in Seq(Frames) /\ Len(stack') = Len(stack) /\ stack' # <<>>
      /\ \A k \in DOMAIN stack' : stack'[k].depth = k - 1
  BY <1>1, <1>2, SteppedStack
<1>5. f \in Told /\ f.entry = e
  BY <1>2, <1>3 DEF Told
<1> HIDE DEF e, f
<1>6. /\ walk' \in Walks /\ walk'.run = 0 /\ walk'.extents = <<>>
      /\ walk'.first = 0 /\ walk'.file = <<f>> /\ walk'.cluster = e.cluster
  BY <1>1, <1>2, <1>5, NoWalkType
<1>7. walk'.file # <<>> /\ walk'.file[1].entry.cluster = walk'.cluster
  BY <1>5, <1>6
<1>8. QED BY <1>1, <1>2, <1>4, <1>6, <1>7, StackMoves

LEMMA OtherEntryInv ==
  ASSUME IInv, Fat!OtherEntry, UNCHANGED mftVars
  PROVE  IInv'
<1>1. /\ Fat!AtEntry /\ stack' = Fat!Stepped
      /\ UNCHANGED <<vol, pc, stop, files, walk, cached, order>>
  BY DEF Fat!OtherEntry
<1>2. TypesOK /\ DepthOK /\ stack # <<>> /\ pc = "entry"
  BY <1>1, EntryType DEF IInv, Fat!AtEntry
<1>3. /\ stack' \in Seq(Frames) /\ Len(stack') = Len(stack) /\ stack' # <<>>
      /\ \A k \in DOMAIN stack' : stack'[k].depth = k - 1
  BY <1>1, <1>2, SteppedStack
<1>4. QED BY <1>1, <1>2, <1>3, StackMoves

LEMMA DirectoryDoneInv ==
  ASSUME IInv, Fat!DirectoryDone, UNCHANGED mftVars
  PROVE  IInv'
<1>1. /\ pc = "entry" /\ stack' = Fat!Below
      /\ pc' = IF stack' = <<>> THEN "done" ELSE "entry"
      /\ UNCHANGED <<vol, stop, files, walk, cached, order>>
  BY DEF Fat!DirectoryDone, Fat!Continue
<1>2. /\ TypesOK /\ DepthOK /\ stack # <<>> /\ IsFat /\ MaxDepth \in Nat
      /\ Len(stack) \in Nat
  BY <1>1, Params, LenProperties DEF IInv, DepthOK, TypesOK, OnFat, OnMft
<1>3. /\ stack' \in Seq(Frames) /\ Len(stack') = Len(stack) - 1
      /\ \A d \in DOMAIN stack' : stack'[d].depth = d - 1
  BY <1>1, <1>2, TopOfStack
<1>4. pc' \in {"done", "entry"} /\ (pc' = "entry" => stack' # <<>>)
  BY <1>1
<1>5. TypesOK'
  BY <1>1, <1>2, <1>3, <1>4, FilesKept, VolumeFixed DEF TypesOK, OnFat, OnMft, mftVars
<1>6. DepthOK'
  BY <1>1, <1>2, <1>3, <1>4 DEF DepthOK
<1>7. CacheOK' /\ WalkOK'
  BY <1>1, <1>4 DEF IInv, CacheOK, WalkOK
<1>8. QED BY <1>5, <1>6, <1>7 DEF IInv

----------------------------------------------------------------------------
(* The NTFS parser, and the theorems.                                      *)

\* Only records of the volume are reported.
LEMMA ReportedType ==
  ASSUME TypesOK, ~IsFat, NEW i \in Nat
  PROVE  Mft!Reported(i) \in Seq(MftFiles)
<1>1. files \in Seq(MftFiles) /\ vol.records \in Seq(ToSet(vol.records))
  BY VolumesAssumption DEF TypesOK
<1>2. CASE Mft!IsRecoverable(Mft!RecordAt(i)) /\ ~stop
  <2>1. i < Len(vol.records)
    <3>1. Mft!RecordAt(i).file
      BY <1>2 DEF Mft!IsRecoverable
    <3>2. ~Mft!NoRecord.file
      BY DEF Mft!NoRecord
    <3>3. QED BY <3>1, <3>2 DEF Mft!RecordAt
  <2>2. i \in 0..(Len(vol.records) - 1)
    BY <1>1, <2>1, LenProperties
  <2>3. Mft!FileOf(i) \in MftFiles
    BY <2>2 DEF MftFiles
  <2>4. QED BY <1>1, <1>2, <2>3, AppendProperties DEF Mft!Reported
<1>3. CASE ~(Mft!IsRecoverable(Mft!RecordAt(i)) /\ ~stop)
  BY <1>1, <1>3 DEF Mft!Reported
<1>4. QED BY <1>2, <1>3

LEMMA MftInv ==
  ASSUME IInv, Mft!MftNext, UNCHANGED fatVars
  PROVE  IInv'
<1>1. /\ pc \in OnMft /\ pc' \in OnMft \cup {"done"} /\ UNCHANGED <<vol, stop>>
      /\ files' = files \/ files' = Mft!Reported(index)
      /\ start' = start \/ start' = start + BatchRecords
      /\ index' = index \/ index' = index + 1 \/ index' = start
  BY DEF OnMft, Mft!MftNext, Mft!ParseMftBootSector, Mft!ReadBatch, Mft!EnumerationStops,
     Mft!ProcessRecord, Mft!ProcessSingleRecord, Mft!BatchDone
<1>2. TypesOK /\ ~IsFat /\ UNCHANGED <<stack, walk, cached, order>>
  BY <1>1 DEF IInv, TypesOK, fatVars
<1>3. start' \in Nat /\ index' \in Nat
  BY <1>1, <1>2, Params DEF TypesOK
<1>4. files' \in Seq(IF IsFat' THEN FatFiles' ELSE MftFiles')
  BY <1>1, <1>2, VolumeFixed, ReportedType DEF TypesOK
<1>5. TypesOK'
  <2>1. vol' \in Volumes /\ stop' \in BOOLEAN
    BY <1>1, <1>2 DEF TypesOK
  <2>2. stack' \in Seq(Frames) /\ walk' \in Walks
    <3>1. Frames' = Frames /\ Walks' = Walks
      BY <1>1 DEF Frames, Walks
    <3>2. QED BY <1>2, <3>1 DEF TypesOK
  <2>3. ~IsFat' /\ pc' \notin OnFat
    BY <1>1, <1>2 DEF IsFat, OnFat, OnMft
  <2>4. pc' \in {"detect", "fat", "root", "chain", "entry",
                "ntfs", "batch", "records", "singles", "done", "raw", "terminated"}
    BY <1>1 DEF OnMft
  <2>5. QED BY <1>3, <1>4, <2>1, <2>2, <2>3, <2>4 DEF TypesOK
<1>6. DepthOK' /\ CacheOK' /\ WalkOK'
  BY <1>1, <1>2 DEF IInv, DepthOK, CacheOK, WalkOK, OnMft
<1>7. QED BY <1>5, <1>6 DEF IInv

LEMMA DetectInv ==
  ASSUME IInv, DetectFilesystem
  PROVE  IInv'
<1>1. /\ pc = "detect" /\ pc' \in {"ntfs", "fat", "raw"}
      /\ pc' = "fat" => IsFat
      /\ pc' = "ntfs" => ~IsFat
      /\ UNCHANGED <<vol, stop, files, stack, walk, cached, order, start, index>>
  BY DEF DetectFilesystem, Detected, IsFat, FatKinds, fatVars, mftVars
<1>2. TypesOK'
  BY <1>1, FilesKept, VolumeFixed DEF IInv, TypesOK, OnFat, OnMft
<1>3. DepthOK' /\ CacheOK' /\ WalkOK'
  BY <1>1 DEF IInv, DepthOK, CacheOK, WalkOK
<1>4. QED BY <1>2, <1>3 DEF IInv

LEMMA StopInv ==
  ASSUME IInv, RequestStop \/ UNCHANGED vars
  PROVE  IInv'
<1>1. /\ stop' \in BOOLEAN
      /\ UNCHANGED <<vol, pc, files, stack, walk, cached, order, start, index>>
  BY DEF RequestStop, vars, fatVars, mftVars, IInv, TypesOK
<1>2. TypesOK'
  BY <1>1, FilesKept, VolumeFixed DEF IInv, TypesOK
<1>3. WalkOK'
  BY <1>1, WalkKept DEF IInv
<1>4. DepthOK' /\ CacheOK'
  BY <1>1 DEF IInv, DepthOK, CacheOK
<1>5. QED BY <1>2, <1>3, <1>4 DEF IInv

LEMMA InitInv == Init => IInv
<1> SUFFICES ASSUME Init PROVE IInv
  OBVIOUS
<1>1. /\ vol \in Volumes /\ pc = "detect" /\ stop = FALSE /\ files = <<>>
      /\ stack = <<>> /\ walk = Fat!NoWalk /\ cached = {} /\ order = <<>>
      /\ start = 0 /\ index = 0
  BY DEF Init, Fat!FatInit, Mft!MftInit
<1>2. TypesOK
  <2>1. files \in Seq(IF IsFat THEN FatFiles ELSE MftFiles) /\ stack \in Seq(Frames)
    BY <1>1, EmptySeq
  <2>2. walk \in Walks
    BY <1>1, NoWalkType
  <2>3. pc \notin OnFat /\ pc \notin OnMft
    BY <1>1 DEF OnFat, OnMft
  <2>4. QED BY <1>1, <2>1, <2>2, <2>3 DEF TypesOK
<1>3. CacheOK
  BY <1>1, Params DEF CacheOK, IsOrder, ToSet
<1>4. DepthOK /\ WalkOK
  BY <1>1, Params DEF DepthOK, WalkOK
<1>5. QED BY <1>2, <1>3, <1>4 DEF IInv

THEOREM Inductive == Spec => []IInv
<1>1. Init => IInv
  BY InitInv
<1>2. IInv /\ [Next]_vars => IInv'
  <2> SUFFICES ASSUME IInv, [Next]_vars PROVE IInv'
    OBVIOUS
  <2>1. CASE DetectFilesystem
    BY <2>1, DetectInv
  <2>2. CASE Fat!FatNext /\ UNCHANGED mftVars
    BY <2>2, ParseBootSectorInv, ReadRootDirectoryInv, FollowChainInv,
       OutOfMemoryInv, ChainOfFileEndsInv, DirectoryChainEndsInv, LongNameEntryInv,
       DirectoryEntryInv, FileEntryInv, OtherEntryInv, DirectoryDoneInv
       DEF Fat!FatNext
  <2>3. CASE Mft!MftNext /\ UNCHANGED fatVars
    BY <2>3, MftInv
  <2>4. CASE RequestStop \/ UNCHANGED vars
    BY <2>4, StopInv
  <2>5. QED BY <2>1, <2>2, <2>3, <2>4 DEF Next, Parse
<1>3. QED BY <1>1, <1>2, PTL DEF Spec

\* The cache of the table never holds more sectors than fit, its order names
\* each of them once, and the walk goes no deeper than the limit, each open
\* directory at the depth of its place on the stack (fat_parser.cpp:99, :332).
THEOREM TypeCorrect == Spec => []TypeOK
<1>1. IInv => TypeOK
  <2> SUFFICES ASSUME IInv PROVE TypeOK
    OBVIOUS
  <2>1. Cardinality(cached) = Len(order)
    BY OrderCounts DEF IInv, CacheOK
  <2>2. QED BY <2>1 DEF IInv, TypesOK, CacheOK, DepthOK, IsOrder, TypeOK
<1>2. QED BY <1>1, Inductive, PTL

----------------------------------------------------------------------------
(* What decode_data_runs reads.                                            *)

\* The bytes are the number d as a disk holds it: its digits, lowest first, as
\* many as there are bytes, and its sign in the highest bit.
Writes(bytes, d) ==
  /\ bytes \in Seq(0..(Digit - 1)) /\ Len(bytes) \in 1..WordBytes
  /\ \E q \in [0..Len(bytes) -> Int] :
       /\ q[0] = d
       /\ \A k \in 1..Len(bytes) : q[k - 1] = Digit * q[k] + bytes[k]
       /\ q[Len(bytes)] = IF 2 * Last(bytes) >= Digit THEN -1 ELSE 0

\* A negative number that takes all the bytes there can be.
IsWide(bytes) ==
  bytes # <<>> /\ Len(bytes) = WordBytes /\ Mft!IsNegative(bytes)

\* The runs go from each of these clusters to the next, and then end or leave
\* a hole.
Encodes(runs, at) ==
  /\ at \in Seq(Nat \ {0}) /\ Len(at) <= Len(runs)
  /\ \A k \in 1..Len(at) :
       Writes(runs[k].bytes, at[k] - IF k = 1 THEN 0 ELSE at[k - 1])
  /\ Len(at) < Len(runs) => runs[Len(at) + 1].bytes = <<>>

\* The first n extents of such runs.
RunExtents(runs, at, n) ==
  [k \in 1..n |-> [start |-> at[k] * ClusterSectors,
                   count |-> runs[k].length * ClusterSectors]]

\* A file has its data in at most one attribute, the runs of which are those
\* of its extents.
RunsEncode ==
  \A v \in Volumes : \A i \in DOMAIN v.records :
    LET r  == v.records[i]
        at == [k \in 1..Len(r.extents) |-> r.extents[k].start \div ClusterSectors]
    IN \/ Mft!DataIn(r) = <<>> /\ r.extents = <<>>
       \/ \E a \in ToSet(r.attrs) :
            /\ Mft!DataIn(r) = <<a>> /\ a.runs \in Seq(ToSet(a.runs))
            /\ Encodes(a.runs, at)
            /\ r.extents = RunExtents(a.runs, at, Len(at))

\* What each byte counts for.
LEMMA Weights ==
  /\ Mft!Weight[0] = 1
  /\ \A k \in 1..WordBytes : Mft!Weight[k] = Digit * Mft!Weight[k - 1]
<1> DEFINE Weighs(m, f) == f = [k \in 0..m |-> IF k = 0 THEN 1 ELSE Digit * f[k - 1]]
           T == {m \in Nat : ~\E f : Weighs(m, f)}
<1>1. WordBytes \in Nat
  BY SizesAssumption
<1>2. T = {}
  <2>1. SUFFICES ASSUME T # {} PROVE FALSE
    OBVIOUS
  <2>2. PICK m \in T : \A k \in T : m <= k
    <3>1. T \in SUBSET Nat
      OBVIOUS
    <3> HIDE DEF T
    <3>2. QED BY <2>1, <3>1, LeastNat
  <2>3. CASE m = 0
    <3>1. Weighs(0, [k \in 0..0 |-> 1])
      OBVIOUS
    <3>2. QED BY <2>2, <2>3, <3>1
  <2>4. CASE m # 0
    <3>1. m \in Nat /\ m - 1 \in Nat /\ ~(m <= m - 1)
      BY <2>2, <2>4
    <3>2. PICK f : Weighs(m - 1, f)
      BY <2>2, <3>1
    <3> DEFINE g == [k \in 0..m |-> IF k = 0 THEN 1 ELSE Digit * f[k - 1]]
    <3>3. \A k \in 0..(m - 1) : g[k] = f[k]
      <4>1. TAKE k \in 0..(m - 1)
      <4>2. k \in 0..m
        BY <3>1
      <4>3. f[k] = IF k = 0 THEN 1 ELSE Digit * f[k - 1]
        BY <3>2, <4>1
      <4>4. QED BY <4>2, <4>3
    <3>4. \A k \in 0..m : k # 0 => k - 1 \in 0..(m - 1)
      BY <3>1
    <3>5. g = [k \in 0..m |-> IF k = 0 THEN 1 ELSE Digit * g[k - 1]]
      BY <3>3, <3>4
    <3> HIDE DEF g
    <3>6. QED BY <2>2, <3>5
  <2>5. QED BY <2>3, <2>4
<1>3. Weighs(WordBytes, Mft!Weight)
  BY <1>1, <1>2 DEF Mft!Weight
<1>4. \A k \in 1..WordBytes : k \in 0..WordBytes /\ k # 0
  BY <1>1
<1>5. 0 \in 0..WordBytes
  BY <1>1
<1> HIDE DEF T
<1>6. QED BY <1>3, <1>4, <1>5

\* The recursive function that Unsigned chooses exists.
LEMMA UnsignedExists ==
  ASSUME NEW s, NEW n \in Nat
  PROVE  \E f : f = [k \in 0..n |-> IF k = 0 THEN 0
                                    ELSE f[k - 1] + s[k] * Mft!Weight[k - 1]]
<1> DEFINE Adds(m, f) == f = [k \in 0..m |-> IF k = 0 THEN 0
                                             ELSE f[k - 1] + s[k] * Mft!Weight[k - 1]]
           T == {m \in Nat : ~\E f : Adds(m, f)}
<1>1. SUFFICES ASSUME n \in T PROVE FALSE
  OBVIOUS
<1>2. PICK m \in T : \A k \in T : m <= k
  BY <1>1, LeastNat
<1>3. CASE m = 0
  <2>1. Adds(0, [k \in 0..0 |-> 0])
    OBVIOUS
  <2>2. QED BY <1>2, <1>3, <2>1
<1>4. CASE m # 0
  <2>1. m \in Nat /\ m - 1 \in Nat /\ ~(m <= m - 1)
    BY <1>2, <1>4
  <2>2. PICK f : Adds(m - 1, f)
    BY <1>2, <2>1
  <2> DEFINE g == [k \in 0..m |-> IF k = 0 THEN 0
                                  ELSE f[k - 1] + s[k] * Mft!Weight[k - 1]]
  <2>3. \A k \in 0..(m - 1) : g[k] = f[k]
    <3>1. TAKE k \in 0..(m - 1)
    <3>2. k \in 0..m
      BY <2>1
    <3>3. f[k] = IF k = 0 THEN 0 ELSE f[k - 1] + s[k] * Mft!Weight[k - 1]
      BY <2>2, <3>1
    <3>4. QED BY <3>2, <3>3
  <2>4. \A k \in 0..m : k # 0 => k - 1 \in 0..(m - 1)
    BY <2>1
  <2>5. g = [k \in 0..m |-> IF k = 0 THEN 0 ELSE g[k - 1] + s[k] * Mft!Weight[k - 1]]
    BY <2>3, <2>4
  <2> HIDE DEF g
  <2>6. QED BY <1>2, <2>5
<1>5. QED BY <1>3, <1>4

\* The code reads the number that was written, but for one.
LEMMA DeltaReads ==
  ASSUME NEW bytes, NEW d, Writes(bytes, d), ~IsWide(bytes)
  PROVE  Mft!Delta(bytes) = d
<1> DEFINE n == Len(bytes)
           w(k) == Mft!Weight[k]
           f == CHOOSE f : f = [k \in 0..n |-> IF k = 0 THEN 0
                                               ELSE f[k - 1] + bytes[k] * Mft!Weight[k - 1]]
<1>1. /\ n \in 1..WordBytes /\ n \in Nat /\ Digit \in Nat /\ WordBytes \in Nat
      /\ bytes # <<>> /\ \A k \in 1..n : bytes[k] \in Nat
  <2>1. bytes \in Seq(0..(Digit - 1)) /\ n \in 1..WordBytes
    BY DEF Writes
  <2>2. Digit \in Nat /\ WordBytes \in Nat
    BY SizesAssumption
  <2> HIDE DEF n
  <2>3. n \in Nat /\ n # 0
    BY <2>1, <2>2
  <2>4. \A k \in 1..n : bytes[k] \in 0..(Digit - 1)
    BY <2>1, ElementOfSeq DEF n
  <2>5. \A k \in 1..n : bytes[k] \in Nat
    BY <2>2, <2>4
  <2>6. bytes # <<>>
    BY <2>3, EmptySeq DEF n
  <2>7. QED BY <2>1, <2>2, <2>3, <2>5, <2>6
<1>2. PICK q \in [0..n -> Int] :
        /\ q[0] = d /\ \A k \in 1..n : q[k - 1] = Digit * q[k] + bytes[k]
        /\ q[n] = IF 2 * Last(bytes) >= Digit THEN -1 ELSE 0
  BY DEF Writes
<1>3. f = [k \in 0..n |-> IF k = 0 THEN 0 ELSE f[k - 1] + bytes[k] * Mft!Weight[k - 1]]
  BY <1>1, UnsignedExists
<1>4. Mft!Unsigned(bytes) = f[n]
  BY DEF Mft!Unsigned
<1> HIDE DEF f, n
<1> DEFINE Holds(k) == f[k] \in Int /\ w(k) \in Int /\ f[k] + w(k) * q[k] = d
           T == {k \in 0..n : ~Holds(k)}
<1>5. T = {}
  <2>1. SUFFICES ASSUME T # {} PROVE FALSE
    OBVIOUS
  <2>2. PICK k \in T : \A l \in T : k <= l
    <3>1. T \in SUBSET Nat
      BY <1>1
    <3> HIDE DEF T
    <3>2. QED BY <2>1, <3>1, LeastNat
  <2>3. k \in 0..n /\ ~Holds(k)
    BY <2>2
  <2>4. f[k] = IF k = 0 THEN 0 ELSE f[k - 1] + bytes[k] * w(k - 1)
    BY <1>3, <2>3
  <2>5. CASE k = 0
    <3>1. f[0] = 0 /\ w(0) = 1 /\ q[0] = d /\ q[0] \in Int
      BY <1>1, <1>2, <2>4, <2>5, Weights
    <3>2. QED BY <2>3, <2>5, <3>1
  <2>6. CASE k # 0
    <3>1. k \in 1..n /\ k \in 1..WordBytes /\ k - 1 \in 0..n /\ ~(k <= k - 1)
      BY <1>1, <2>3, <2>6
    <3>2. Holds(k - 1)
      BY <2>2, <3>1
    <3>3. /\ w(k) = Digit * w(k - 1) /\ q[k - 1] = Digit * q[k] + bytes[k]
          /\ f[k] = f[k - 1] + bytes[k] * w(k - 1) /\ q[k] \in Int /\ bytes[k] \in Int
      BY <1>1, <1>2, <2>3, <2>4, <2>6, <3>1, Weights
    <3> HIDE DEF w
    <3>4. f[k] + w(k) * q[k] = f[k - 1] + w(k - 1) * q[k - 1] /\ f[k] \in Int /\ w(k) \in Int
      <4>1. f[k - 1] \in Int /\ w(k - 1) \in Int /\ bytes[k] \in Int /\ q[k] \in Int
        BY <3>2, <3>3
      <4> DEFINE r == f[k - 1]
                 v == w(k - 1)
                 b == bytes[k]
                 z == q[k]
      <4>2. r \in Int /\ v \in Int /\ b \in Int /\ z \in Int
        BY <4>1
      <4>3. /\ f[k] = r + b * v /\ w(k) = Digit * v /\ q[k - 1] = Digit * z + b
        BY <3>3
      <4> HIDE DEF r, v, b, z
      <4>4. /\ r + b * v + (Digit * v) * z = r + v * (Digit * z + b)
            /\ r + b * v \in Int /\ Digit * v \in Int
        BY <1>1, <4>2
      <4>5. QED BY <4>3, <4>4 DEF r, v, z
    <3>5. QED BY <2>3, <3>2, <3>4
  <2>7. QED BY <2>5, <2>6
<1>6. Holds(n)
  BY <1>1, <1>5
<1>7. f[n] \in Int /\ w(n) \in Int /\ f[n] + w(n) * q[n] = d
  BY <1>6
<1>8. Mft!IsNegative(bytes) <=> 2 * Last(bytes) >= Digit
  BY DEF Mft!IsNegative, Mft!Last, Last
<1>9. Mft!Delta(bytes) = f[n] - IF ~Mft!IsNegative(bytes) THEN 0
                                ELSE w(n) + IF Len(bytes) = WordBytes THEN 1 ELSE 0
  BY <1>4 DEF Mft!Delta, n
<1> HIDE DEF w
<1>10. CASE Mft!IsNegative(bytes)
  <2>1. q[n] = -1 /\ Len(bytes) # WordBytes
    BY <1>1, <1>2, <1>8, <1>10 DEF IsWide
  <2>2. w(n) * (-1) = 0 - w(n)
    BY <1>7
  <2>3. f[n] - w(n) = d
    BY <1>7, <2>1, <2>2
  <2>4. Mft!Delta(bytes) = f[n] - (w(n) + 0)
    BY <1>9, <1>10, <2>1
  <2>5. QED BY <1>7, <2>3, <2>4
<1>11. CASE ~Mft!IsNegative(bytes)
  <2>1. q[n] = 0
    BY <1>2, <1>8, <1>11
  <2>2. f[n] = d
    BY <1>7, <2>1
  <2>3. QED BY <1>7, <1>9, <1>11, <2>2
<1>12. QED BY <1>10, <1>11

Begun == [cluster |-> 0, over |-> FALSE, extents |-> <<>>]

\* The recursive function that Decoded chooses exists.
LEMMA DecodeExists ==
  ASSUME NEW s, NEW n \in Nat
  PROVE  \E f : f = [k \in 0..n |-> IF k = 0 THEN Begun
                                    ELSE Mft!ReadRun(f[k - 1], s[k])]
<1> DEFINE Reads(m, f) == f = [k \in 0..m |-> IF k = 0 THEN Begun
                                              ELSE Mft!ReadRun(f[k - 1], s[k])]
           T == {m \in Nat : ~\E f : Reads(m, f)}
<1>1. SUFFICES ASSUME n \in T PROVE FALSE
  OBVIOUS
<1>2. PICK m \in T : \A k \in T : m <= k
  BY <1>1, LeastNat
<1>3. CASE m = 0
  <2>1. Reads(0, [k \in 0..0 |-> Begun])
    OBVIOUS
  <2>2. QED BY <1>2, <1>3, <2>1
<1>4. CASE m # 0
  <2>1. m \in Nat /\ m - 1 \in Nat /\ ~(m <= m - 1)
    BY <1>2, <1>4
  <2>2. PICK f : Reads(m - 1, f)
    BY <1>2, <2>1
  <2> DEFINE g == [k \in 0..m |-> IF k = 0 THEN Begun
                                  ELSE Mft!ReadRun(f[k - 1], s[k])]
  <2>3. \A k \in 0..(m - 1) : g[k] = f[k]
    <3>1. TAKE k \in 0..(m - 1)
    <3>2. k \in 0..m
      BY <2>1
    <3>3. f[k] = IF k = 0 THEN Begun ELSE Mft!ReadRun(f[k - 1], s[k])
      BY <2>2, <3>1
    <3>4. QED BY <3>2, <3>3
  <2>4. \A k \in 0..m : k # 0 => k - 1 \in 0..(m - 1)
    BY <2>1
  <2>5. g = [k \in 0..m |-> IF k = 0 THEN Begun ELSE Mft!ReadRun(g[k - 1], s[k])]
    BY <2>3, <2>4
  <2> HIDE DEF g
  <2>6. QED BY <1>2, <2>5
<1>5. QED BY <1>3, <1>4

\* One more run is read.
LEMMA OneMoreRun ==
  ASSUME NEW runs, NEW at, Encodes(runs, at), NEW k \in 1..Len(at),
         ~IsWide(runs[k].bytes)
  PROVE  Mft!ReadRun([cluster |-> IF k = 1 THEN 0 ELSE at[k - 1], over |-> FALSE,
                      extents |-> RunExtents(runs, at, k - 1)], runs[k]) =
           [cluster |-> at[k], over |-> FALSE,
            extents |-> RunExtents(runs, at, k)]
<1> DEFINE from == IF k = 1 THEN 0 ELSE at[k - 1]
           e(j) == [start |-> at[j] * ClusterSectors,
                    count |-> runs[j].length * ClusterSectors]
           E == RunExtents(runs, at, k - 1)
<1>1. /\ Len(at) \in Nat /\ at[k] \in Nat \ {0} /\ from \in Nat
      /\ runs[k].bytes # <<>> /\ Mft!Delta(runs[k].bytes) = at[k] - from
  <2>1. Len(at) \in Nat /\ at[k] \in Nat \ {0} /\ from \in Nat
    BY LenProperties, ElementOfSeq DEF Encodes
  <2>2. Writes(runs[k].bytes, at[k] - from)
    BY DEF Encodes
  <2>3. runs[k].bytes # <<>>
    BY <2>2, EmptySeq DEF Writes
  <2>4. QED BY <2>1, <2>2, <2>3, DeltaReads
<1>2. from + Mft!Delta(runs[k].bytes) = at[k] /\ at[k] > 0
  BY <1>1
<1>3. Append(E, e(k)) = RunExtents(runs, at, k)
  <2>1. k - 1 \in Nat /\ Len(E) = k - 1
    BY <1>1 DEF RunExtents
  <2>2. QED BY <1>1, <2>1 DEF RunExtents
<1> HIDE DEF from, E
<1>4. Mft!ReadRun([cluster |-> from, over |-> FALSE, extents |-> E], runs[k]) =
        [cluster |-> at[k], over |-> FALSE, extents |-> Append(E, e(k))]
  BY <1>1, <1>2 DEF Mft!ReadRun
<1>5. QED BY <1>3, <1>4 DEF from, E

\* The runs of an attribute lead to the clusters they were made for.
LEMMA DecodeRuns ==
  ASSUME NEW S, NEW runs \in Seq(S), NEW at, Encodes(runs, at),
         \A k \in DOMAIN runs : ~IsWide(runs[k].bytes)
  PROVE  Mft!Decoded(runs) = RunExtents(runs, at, Len(at))
<1> DEFINE n == Len(runs)
           m == Len(at)
           f == CHOOSE f : f = [k \in 0..n |-> IF k = 0 THEN Begun
                                               ELSE Mft!ReadRun(f[k - 1], runs[k])]
           Read(k) ==
             /\ k <= m => f[k] = [cluster |-> IF k = 0 THEN 0 ELSE at[k],
                                  over |-> FALSE,
                                  extents |-> RunExtents(runs, at, k)]
             /\ k > m => /\ DOMAIN f[k] = {"cluster", "over", "extents"}
                         /\ f[k].over
                         /\ f[k].extents = RunExtents(runs, at, m)
           T == {k \in 0..n : ~Read(k)}
<1>1. n \in Nat /\ m \in Nat /\ m <= n
  BY LenProperties DEF Encodes
<1>2. f = [k \in 0..n |-> IF k = 0 THEN Begun ELSE Mft!ReadRun(f[k - 1], runs[k])]
  BY <1>1, DecodeExists
<1>3. Mft!Decoded(runs) = f[n].extents
  BY DEF Mft!Decoded, Begun
<1>4. \A k \in 0..n : Read(k)
  <2> HIDE DEF f, n, m
  <2>1. SUFFICES ASSUME T # {} PROVE FALSE
    OBVIOUS
  <2>2. PICK i \in T : \A k \in T : i <= k
    <3>1. T \in SUBSET Nat
      BY <1>1
    <3> HIDE DEF T
    <3>2. QED BY <2>1, <3>1, LeastNat
  <2>3. i \in 0..n /\ ~Read(i)
    BY <2>2
  <2>4. f[i] = IF i = 0 THEN Begun ELSE Mft!ReadRun(f[i - 1], runs[i])
    BY <1>2, <2>3
  <2>5. i # 0
    <3>1. RunExtents(runs, at, 0) = <<>>
      BY DEF RunExtents
    <3>2. ASSUME i = 0 PROVE FALSE
      <4>1. i <= m /\ ~(i > m) /\ f[i] = [cluster |-> 0, over |-> FALSE,
                                          extents |-> RunExtents(runs, at, i)]
        <5>1. f[i] = Begun
          BY <2>4, <3>2
        <5>2. 0 <= m /\ ~(0 > m)
          BY <1>1
        <5>3. QED BY <3>1, <3>2, <5>1, <5>2 DEF Begun
      <4>2. QED BY <2>3, <3>2, <4>1
    <3>3. QED BY <3>2
  <2>6. i - 1 \in 0..n /\ ~(i <= i - 1)
    BY <1>1, <2>3, <2>5
  <2>7. Read(i - 1)
    BY <2>2, <2>6
  <2>8. CASE i <= m
    <3>1. i \in 1..m /\ i - 1 <= m /\ ~(i - 1 > m) /\ ~(i > m) /\ (i - 1 = 0 <=> i = 1)
      BY <1>1, <2>3, <2>5, <2>8
    <3>2. f[i - 1] = [cluster |-> IF i = 1 THEN 0 ELSE at[i - 1], over |-> FALSE,
                      extents |-> RunExtents(runs, at, i - 1)]
      BY <2>7, <3>1
    <3>3. f[i] = [cluster |-> at[i], over |-> FALSE,
                  extents |-> RunExtents(runs, at, i)]
      <4>1. ~IsWide(runs[i].bytes)
        BY <1>1, <2>3, <3>1, LenProperties DEF n
      <4>2. QED BY <2>4, <2>5, <3>1, <3>2, <4>1, OneMoreRun DEF m
    <3>4. QED BY <2>3, <2>5, <3>1, <3>3
  <2>9. CASE ~(i <= m)
    <3>1. f[i - 1].over \/ runs[i].bytes = <<>>
      <4>1. CASE i = m + 1
        BY <1>1, <2>3, <4>1 DEF Encodes, m, n
      <4>2. CASE i # m + 1
        <5>1. i - 1 > m
          BY <1>1, <2>3, <2>9, <4>2
        <5>2. QED BY <2>7, <5>1
      <4>3. QED BY <4>1, <4>2
    <3>2. f[i] = [f[i - 1] EXCEPT !.over = TRUE]
      BY <2>4, <2>5, <3>1 DEF Mft!ReadRun
    <3>3. /\ DOMAIN f[i - 1] = {"cluster", "over", "extents"}
          /\ f[i - 1].extents = RunExtents(runs, at, m)
      <4>1. CASE i - 1 = m
        <5>1. i - 1 <= m
          BY <1>1, <4>1
        <5>2. f[i - 1] = [cluster |-> IF i - 1 = 0 THEN 0 ELSE at[i - 1],
                          over |-> FALSE,
                          extents |-> RunExtents(runs, at, i - 1)]
          BY <2>7, <5>1
        <5>3. QED BY <4>1, <5>2
      <4>2. CASE i - 1 # m
        <5>1. i - 1 > m
          BY <1>1, <2>3, <2>9, <4>2
        <5>2. QED BY <2>7, <5>1
      <4>3. QED BY <4>1, <4>2
    <3>4. /\ DOMAIN f[i] = {"cluster", "over", "extents"}
          /\ f[i].over /\ f[i].extents = RunExtents(runs, at, m)
      BY <3>2, <3>3
    <3>5. QED BY <2>3, <2>9, <3>4
  <2>10. QED BY <2>8, <2>9
<1>5. f[n].extents = RunExtents(runs, at, m)
  <2>1. n \in 0..n
    BY <1>1
  <2> HIDE DEF f, n, m
  <2>2. /\ n <= m => f[n] = [cluster |-> IF n = 0 THEN 0 ELSE at[n],
                             over |-> FALSE, extents |-> RunExtents(runs, at, n)]
        /\ n > m => f[n].extents = RunExtents(runs, at, m)
    BY <1>4, <2>1
  <2>3. n = m \/ n > m
    BY <1>1
  <2>4. CASE n = m /\ n <= m
    BY <2>2, <2>4
  <2>5. CASE n > m
    BY <2>2, <2>5
  <2>6. QED BY <1>1, <2>3, <2>4, <2>5
<1>6. QED BY <1>3, <1>5

\* The fragments of a record are its extents.
LEMMA RecordDecodes ==
  ASSUME RunsEncode, NEW v \in Volumes, NEW i \in DOMAIN v.records,
         ~HasWideOffset(v.records[i])
  PROVE  Mft!FragmentsOf(v.records[i]) = v.records[i].extents
<1> DEFINE r == v.records[i]
           at == [k \in 1..Len(r.extents) |-> r.extents[k].start \div ClusterSectors]
           decoded == [k \in DOMAIN Mft!DataIn(r) |-> Mft!Decoded(Mft!DataIn(r)[k].runs)]
<1>1. Mft!FragmentsOf(r) = FlattenSeq(decoded)
  BY DEF Mft!FragmentsOf, Mft!FlattenSeq, FlattenSeq
<1>2. CASE Mft!DataIn(r) = <<>> /\ r.extents = <<>>
  <2>1. decoded = <<>>
    BY <1>2
  <2>2. FlattenSeq(<<>>) = <<>>
    BY DEF FlattenSeq
  <2>3. QED BY <1>1, <1>2, <2>1, <2>2
<1>3. CASE \E a \in ToSet(r.attrs) :
             /\ Mft!DataIn(r) = <<a>> /\ a.runs \in Seq(ToSet(a.runs))
             /\ Encodes(a.runs, at)
             /\ r.extents = RunExtents(a.runs, at, Len(at))
  <2>1. PICK a : /\ Mft!DataIn(r) = <<a>> /\ a.runs \in Seq(ToSet(a.runs))
                 /\ Encodes(a.runs, at)
                 /\ r.extents = RunExtents(a.runs, at, Len(at))
    BY <1>3
  <2> HIDE DEF r, at
  <2>2. decoded = <<Mft!Decoded(a.runs)>>
    BY <2>1
  <2>3. \A k \in DOMAIN a.runs : ~IsWide(a.runs[k].bytes)
    <3>1. 1 \in DOMAIN Mft!DataIn(r) /\ Mft!DataIn(r)[1] = a
      BY <2>1
    <3>2. \A k \in DOMAIN a.runs : a.runs[k] \in ToSet(a.runs)
      BY DEF ToSet
    <3>3. QED BY <3>1, <3>2 DEF HasWideOffset, IsWide, r
  <2>4. Mft!Decoded(a.runs) = r.extents
    BY <2>1, <2>3, DecodeRuns
  <2>5. QED BY <1>1, <2>2, <2>4, FlattenOne DEF r
<1>4. QED BY <1>2, <1>3 DEF RunsEncode

\* A reported file is read from the clusters of its own chain, in order, up to
\* the end of the chain or a sector of the table that may not have been read,
\* also where the table is damaged (fat_parser.cpp:189), unless it leads from the
\* file to a cluster that 32 bits cannot number the sectors of (:94-97); on NTFS
\* from the extents that the runs of the record it is named for lead to
\* (mft_parser.cpp:261), whichever way, unless one of them is a negative offset of
\* 64 bits (:284-286).
THEOREM OwnExtents ==
  ASSUME RunsEncode
  PROVE  Spec => []ExtentsAreTheFile
<1>1. IInv => ExtentsAreTheFile
  <2> SUFFICES ASSUME IInv, NEW k \in DOMAIN files
               PROVE  /\ IsFat /\ IsConfined(files[k].entry.cluster) =>
                           IsChain(files[k].entry.cluster, files[k].extents)
                      /\ IsNtfs => LET r == vol.records[files[k].mft_id + 1]
                                   IN ~HasWideOffset(r) => files[k].extents = r.extents
    BY DEF ExtentsAreTheFile
  <2>1. /\ vol \in Volumes /\ vol.records \in Seq(ToSet(vol.records))
        /\ files \in Seq(IF IsFat THEN FatFiles ELSE MftFiles)
    BY VolumesAssumption DEF IInv, TypesOK
  <2>2. files[k] \in IF IsFat THEN FatFiles ELSE MftFiles
    BY <2>1, ElementOfSeq, LenProperties
  <2>3. CASE IsFat
    <3>1. ~IsNtfs
      BY <2>3 DEF IsFat, IsNtfs, FatKinds
    <3>2. QED BY <2>2, <2>3, <3>1 DEF FatFiles
  <2>4. CASE ~IsFat
    <3>1. PICK i \in 0..(Len(vol.records) - 1) : files[k] = Mft!FileOf(i)
      BY <2>2, <2>4 DEF MftFiles
    <3>2. i < Len(vol.records) /\ i + 1 \in DOMAIN vol.records
      BY <2>1, <3>1, LenProperties
    <3>3. files[k].mft_id = i /\ files[k].extents = Mft!FragmentsOf(vol.records[i + 1])
      BY <3>1, <3>2 DEF Mft!FileOf, Mft!RecordAt
    <3>4. QED BY <2>1, <2>4, <3>2, <3>3, RecordDecodes
  <2>5. QED BY <2>3, <2>4
<1>2. QED BY <1>1, Inductive, PTL

----------------------------------------------------------------------------
(* Names.                                                                  *)

\* What a directory's cluster holds, and any other that 32 bits can number.
Dir(c) == vol.dir[SectorOf(c)]
At(c) == Fat!EntriesAt(SectorOf(c))

\* The first part of a long name, not deleted.
IsPart(e) == e.attr = "lfn" /\ ~e.gone /\ e.seq = 1

\* A file that is not deleted and has a long name.
HasLong(e) == e.attr = "file" /\ ~e.gone /\ e.long # <<>>

\* The first part of a long name stands directly before its file, and nowhere
\* else.
Joins(p, e) ==
  /\ IsPart(p) => /\ e.attr # "lfn"
                  /\ e.gone \/ (e.long # <<>> /\ e.long[1] = p.name)
  /\ HasLong(e) => IsPart(p)

Joined(l) == \A k \in 1..(Len(l) - 1) : Joins(l[k], l[k + 1])
WellNamed(l) == l # <<>> => ~HasLong(l[1]) /\ Joined(l)

\* Of the clusters D, one with which a directory begins, and entries that lead
\* to such.
Begins(D, c) == IsLink(c) => c \in D /\ ~HasLong(Dir(c)[1])
LeadOn(D) == {e \in Entries : e.attr = "dir" /\ e.cluster >= 2 => Begins(D, e.cluster)}

\* The clusters D are those of directories, in which names are whole: within a
\* cluster and from each to the one that may be read after it.
NamesTogether(D) ==
  /\ D \subseteq Nat /\ \A c \in D : SectorOf(c) \in DOMAIN vol.dir /\ Fits(c)
  /\ vol.fs = "fat32" => Begins(D, vol.root)
  /\ WellNamed(vol.rootEntries) /\ vol.rootEntries \in Seq(LeadOn(D))
  /\ \A c \in D : /\ Dir(c) # <<>> /\ Joined(Dir(c))
                  /\ Dir(c) \in Seq(LeadOn(D))
  /\ \A a \in D, b \in Nat : Leads(a, b) /\ IsLink(b) =>
       b \in D /\ Joins(Last(Dir(a)), Dir(b)[1])

NamesAreWhole == IsFat => \E D \in SUBSET Nat : NamesTogether(D)

\* Where the directory stands tells whether it has a name in hand.
FrameOK(D, f) ==
  /\ WellNamed(f.entries) /\ f.entries \in Seq(LeadOn(D))
  /\ IF f.next - 1 \in DOMAIN f.entries /\ IsPart(f.entries[f.next - 1])
       THEN f.valid /\ f.long = <<f.entries[f.next - 1].name>>
       ELSE ~f.valid

\* The directory that is being read began where one begins.
DirectoryWalkOK(D) ==
  pc = "chain" /\ walk.file = <<>> =>
    IF walk.run = 0 THEN Begins(D, walk.cluster)
    ELSE /\ IsLink(walk.cluster) => walk.cluster \in D
         /\ \E b \in D : Begins(D, b) /\ IsPath(b, Fat!Closed(walk), walk.cluster)

FileWalkOK ==
  pc = "chain" /\ walk.file # <<>> =>
    IsOwnName(walk.file[1].entry, walk.file[1].name)

FramesOK(D) == \A d \in DOMAIN stack : FrameOK(D, stack[d])
FilesOwn == \A k \in DOMAIN files : IsOwnName(files[k].entry, files[k].name)

NamesInv(D) ==
  /\ NamesTogether(D) /\ FramesOK(D)
  /\ DirectoryWalkOK(D) /\ FileWalkOK /\ FilesOwn

NamesOK == IsFat => \E D \in SUBSET Nat : NamesInv(D)

LEMMA ConcatJoined ==
  ASSUME NEW S, NEW a \in Seq(S), NEW b \in Seq(S), a # <<>>, b # <<>>,
         Joined(a), Joined(b), Joins(Last(a), b[1])
  PROVE  /\ a \o b \in Seq(S) /\ a \o b # <<>> /\ Joined(a \o b)
         /\ (a \o b)[1] = a[1] /\ Last(a \o b) = Last(b)
<1> DEFINE l == a \o b
           m == Len(a)
           n == Len(b)
<1>1. m \in Nat \ {0} /\ n \in Nat \ {0}
  BY EmptySeq, LenProperties
<1>2. /\ l \in Seq(S) /\ Len(l) = m + n
      /\ \A k \in 1..(m + n) : l[k] = IF k <= m THEN a[k] ELSE b[k - m]
  BY ConcatProperties
<1>3. /\ \A k \in 1..(m - 1) : Joins(a[k], a[k + 1])
      /\ \A k \in 1..(n - 1) : Joins(b[k], b[k + 1])
      /\ Last(a) = a[m] /\ Last(b) = b[n] /\ Last(l) = l[m + n]
  BY <1>2 DEF Joined, Last
<1> HIDE DEF l, m, n
<1>4. ASSUME NEW k \in 1..(m + n - 1) PROVE Joins(l[k], l[k + 1])
  <2>1. CASE k < m
    <3>1. k \in 1..(m - 1) /\ k <= m /\ k + 1 <= m /\ k \in 1..(m + n) /\ k + 1 \in 1..(m + n)
      BY <1>1, <2>1
    <3>2. l[k] = a[k] /\ l[k + 1] = a[k + 1]
      BY <1>2, <3>1
    <3>3. QED BY <1>3, <3>1, <3>2
  <2>2. CASE k = m
    <3>1. l[k] = a[m] /\ l[k + 1] = b[1]
      BY <1>1, <1>2, <2>2
    <3>2. QED BY <1>3, <3>1
  <2>3. CASE k > m
    <3>1. k - m \in 1..(n - 1) /\ (k + 1) - m = (k - m) + 1 /\ ~(k <= m) /\ ~(k + 1 <= m)
          /\ k \in 1..(m + n) /\ k + 1 \in 1..(m + n)
      BY <1>1, <2>3
    <3>2. l[k] = b[k - m] /\ l[k + 1] = b[(k - m) + 1]
      BY <1>2, <3>1
    <3>3. QED BY <1>3, <3>1, <3>2
  <2>4. QED BY <1>1, <2>1, <2>2, <2>3
<1>5. l # <<>> /\ l[1] = a[1] /\ l[m + n] = b[n]
  <2>1. Len(l) # 0 /\ 1 \in 1..(m + n) /\ 1 <= m
    BY <1>1, <1>2
  <2>2. m + n \in 1..(m + n) /\ ~(m + n <= m) /\ (m + n) - m = n
    BY <1>1
  <2>3. QED BY <1>2, <2>1, <2>2
<1>6. Joined(l)
  BY <1>1, <1>2, <1>4 DEF Joined
<1>7. QED BY <1>2, <1>3, <1>5, <1>6 DEF l

\* What FlattenSeq chooses, step by step.
LEMMA FlattenSteps ==
  ASSUME NEW s, NEW n \in Nat \ {0}, Len(s) = n
  PROVE  \E f : /\ f[1] = s[1] /\ FlattenSeq(s) = f[n]
                /\ \A i \in 2..n : f[i] = f[i - 1] \o s[i]
<1> DEFINE f == CHOOSE f : f = [i \in 1..n |-> IF i = 1 THEN s[i] ELSE f[i - 1] \o s[i]]
<1>1. f = [i \in 1..n |-> IF i = 1 THEN s[i] ELSE f[i - 1] \o s[i]]
  BY FlattenExists
<1>2. FlattenSeq(s) = f[n]
  BY DEF FlattenSeq
<1> HIDE DEF f
<1>3. \A i \in 1..n : f[i] = IF i = 1 THEN s[i] ELSE f[i - 1] \o s[i]
  BY <1>1
<1>4. 1 \in 1..n /\ \A i \in 2..n : i \in 1..n /\ i # 1
  OBVIOUS
<1>5. f[1] = s[1] /\ \A i \in 2..n : f[i] = f[i - 1] \o s[i]
  BY <1>3, <1>4
<1>6. QED BY <1>2, <1>5

\* Lists that fit one behind the other make one that fits.
LEMMA FlattenJoined ==
  ASSUME NEW S, NEW s \in Seq(Seq(S)), s # <<>>,
         \A i \in 1..Len(s) : s[i] # <<>> /\ Joined(s[i]),
         \A i \in 1..(Len(s) - 1) : Joins(Last(s[i]), s[i + 1][1])
  PROVE  LET l == FlattenSeq(s)
         IN /\ l \in Seq(S) /\ l # <<>> /\ Joined(l)
            /\ l[1] = s[1][1] /\ Last(l) = Last(s[Len(s)])
<1> DEFINE n == Len(s)
<1>1. n \in Nat \ {0} /\ \A i \in 1..n : s[i] \in Seq(S)
  BY EmptySeq, LenProperties, ElementOfSeq
<1>2. PICK f : /\ f[1] = s[1] /\ FlattenSeq(s) = f[n]
               /\ \A i \in 2..n : f[i] = f[i - 1] \o s[i]
  BY <1>1, FlattenSteps
<1> DEFINE Good(i) == /\ f[i] \in Seq(S) /\ f[i] # <<>> /\ Joined(f[i])
                      /\ f[i][1] = s[1][1] /\ Last(f[i]) = Last(s[i])
           T == {i \in 1..n : ~Good(i)}
<1>3. n \in 1..n
  BY <1>1
<1>10. SUFFICES Good(n)
  BY <1>2
<1>11. SUFFICES T = {}
  BY <1>3
<1> HIDE DEF n
<1>4. SUFFICES ASSUME T # {} PROVE FALSE
  OBVIOUS
<1>5. PICK i \in T : \A k \in T : i <= k
  <2>1. T \in SUBSET Nat
    BY <1>1
  <2> HIDE DEF T
  <2>2. QED BY <1>4, <2>1, LeastNat
<1>6. i \in 1..n /\ ~Good(i)
  BY <1>5
<1>7. CASE i = 1
  <2>1. s[1] # <<>> /\ Joined(s[1]) /\ s[1] \in Seq(S) /\ f[1] = s[1]
    BY <1>1, <1>2 DEF n
  <2>2. QED BY <1>6, <1>7, <2>1
<1>8. CASE i # 1
  <2>1. i \in 2..n /\ i - 1 \in 1..n /\ ~(i <= i - 1) /\ i - 1 \in 1..(n - 1)
        /\ (i - 1) + 1 = i
    BY <1>1, <1>6, <1>8
  <2>2. Good(i - 1)
    BY <1>5, <2>1
  <2>3. /\ f[i] = f[i - 1] \o s[i] /\ s[i] \in Seq(S) /\ s[i] # <<>> /\ Joined(s[i])
        /\ Joins(Last(s[i - 1]), s[i][1])
    BY <1>1, <1>2, <2>1 DEF n
  <2>4. /\ f[i] \in Seq(S) /\ f[i] # <<>> /\ Joined(f[i])
        /\ f[i][1] = f[i - 1][1] /\ Last(f[i]) = Last(s[i])
    <3>1. /\ f[i - 1] \in Seq(S) /\ f[i - 1] # <<>> /\ Joined(f[i - 1])
          /\ Joins(Last(f[i - 1]), s[i][1])
      BY <2>2, <2>3
    <3> DEFINE a == f[i - 1]
               b == s[i]
    <3>2. /\ a \in Seq(S) /\ b \in Seq(S) /\ a # <<>> /\ b # <<>>
          /\ Joined(a) /\ Joined(b) /\ Joins(Last(a), b[1]) /\ f[i] = a \o b
      BY <2>3, <3>1
    <3> HIDE DEF a, b
    <3>3. /\ f[i] \in Seq(S) /\ f[i] # <<>> /\ Joined(f[i])
          /\ f[i][1] = a[1] /\ Last(f[i]) = Last(b)
      BY <3>2, ConcatJoined
    <3>4. QED BY <3>3 DEF a, b
  <2>5. QED BY <1>6, <2>2, <2>4
<1>9. QED BY <1>7, <1>8

\* What a run of whole clusters holds.
LEMMA RunEntries ==
  ASSUME TypesOK, NEW x \in Extents, IsRun(x), NEW q,
         q = x.count \div ClusterSectors
  PROVE  Fat!ExtentEntries(x) = FlattenSeq([k \in 1..q |-> At(FirstCluster(x) - 1 + k)])
<1> DEFINE f == FirstCluster(x)
<1>1. x.start \in Nat /\ vol.data \in Nat /\ ClusterSectors \in Nat \ {0}
  BY VolumeTypes, Params DEF Extents
<1>2. f \in Int
  BY <1>1 DEF FirstCluster
<1>3. x.start = vol.data + (f - 2) * ClusterSectors
  BY DEF IsRun, SectorOf
<1> HIDE DEF f
<1>4. \A k \in Int : SectorOf(f - 1 + k) = x.start + (k - 1) * ClusterSectors
  <2>1. TAKE k \in Int
  <2>2. ((f - 1 + k) - 2) * ClusterSectors = (f - 2) * ClusterSectors + (k - 1) * ClusterSectors
    BY <1>1, <1>2
  <2>3. (f - 2) * ClusterSectors \in Int /\ (k - 1) * ClusterSectors \in Int
    BY <1>1, <1>2
  <2>4. SectorOf(f - 1 + k) = vol.data + ((f - 1 + k) - 2) * ClusterSectors
    BY DEF SectorOf
  <2> DEFINE u == ((f - 1 + k) - 2) * ClusterSectors
             v == (f - 2) * ClusterSectors
             w == (k - 1) * ClusterSectors
  <2>5. u = v + w /\ v \in Int /\ w \in Int /\ SectorOf(f - 1 + k) = vol.data + u
        /\ x.start = vol.data + v
    BY <1>3, <2>2, <2>3, <2>4
  <2> HIDE DEF u, v, w
  <2>6. SectorOf(f - 1 + k) = x.start + w
    BY <1>1, <2>5
  <2>7. QED BY <2>6 DEF w
<1>5. [k \in 1..q |-> At(f - 1 + k)] =
        [k \in 1..q |-> Fat!EntriesAt(x.start + (k - 1) * ClusterSectors)]
  <2>1. \A k \in 1..q : k \in Int
    OBVIOUS
  <2>2. QED BY <1>4, <2>1 DEF At
<1>6. Fat!ExtentEntries(x) =
        FlattenSeq([k \in 1..q |-> Fat!EntriesAt(x.start + (k - 1) * ClusterSectors)])
  BY Instances DEF Fat!ExtentEntries
<1>7. QED BY <1>5, <1>6 DEF f

\* A run of the clusters of directories, and what is read from it.
LEMMA RunJoined ==
  ASSUME TypesOK, NEW D, NamesTogether(D), NEW x \in Extents, IsRun(x),
         FirstCluster(x) \in D
  PROVE  /\ LastCluster(x) \in D /\ IsLink(FirstCluster(x))
         /\ LET l == Fat!ExtentEntries(x)
            IN /\ l \in Seq(LeadOn(D)) /\ l # <<>> /\ Joined(l)
               /\ l[1] = Dir(FirstCluster(x))[1]
               /\ Last(l) = Last(Dir(LastCluster(x)))
<1> DEFINE f == FirstCluster(x)
           q == x.count \div ClusterSectors
<1>1. /\ f \in Nat /\ q \in Nat /\ LastCluster(x) = f + q - 1 /\ q # 0
  <2>1. x.count \in Nat \ {0} /\ x.count % ClusterSectors = 0 /\ ClusterSectors \in Nat \ {0}
    BY Params DEF Extents, IsRun
  <2>2. q \in Nat /\ x.count = q * ClusterSectors
    BY <2>1, DivTimes
  <2>3. f \in Nat
    BY DEF NamesTogether
  <2>4. LastCluster(x) = f + q - 1
    BY DEF LastCluster
  <2> HIDE DEF q
  <2>5. QED BY <2>1, <2>2, <2>3, <2>4
<1>2. /\ \A c \in f..(f + q - 1) : IsLink(c)
      /\ \A c \in f..(f + q - 2) : Leads(c, c + 1)
  <2>1. f + q - 1 - 1 = f + q - 2
    BY <1>1
  <2> HIDE DEF f, q
  <2>2. QED BY <1>1, <2>1 DEF IsRun, f
<1>3. Fat!ExtentEntries(x) = FlattenSeq([k \in 1..q |-> At(f - 1 + k)])
  BY <1>1, RunEntries
<1> DEFINE T == {c \in f..(f + q - 1) : c \notin D}
<1> HIDE DEF f, q
<1>4. \A c \in f..(f + q - 1) : c \in D
  <2>1. SUFFICES ASSUME T # {} PROVE FALSE
    OBVIOUS
  <2>2. PICK c \in T : \A k \in T : c <= k
    <3>1. T \in SUBSET Nat
      BY <1>1
    <3> HIDE DEF T
    <3>2. QED BY <2>1, <3>1, LeastNat
  <2>3. c # f
    BY <2>2 DEF f
  <2>4. /\ c - 1 \in f..(f + q - 2) /\ c - 1 \in f..(f + q - 1) /\ ~(c <= c - 1)
        /\ (c - 1) + 1 = c /\ c \in Nat
    BY <1>1, <2>2, <2>3
  <2>5. c - 1 \in D
    BY <2>2, <2>4
  <2>6. Leads(c - 1, c) /\ IsLink(c)
    BY <1>2, <2>2, <2>4
  <2>7. QED BY <2>2, <2>4, <2>5, <2>6 DEF NamesTogether
<1> HIDE DEF T
<1> DEFINE s == [k \in 1..q |-> At(f - 1 + k)]
<1>5. Len(s) = q /\ s # <<>>
  BY <1>1
<1>6. \A k \in 1..q : s[k] = Dir(f - 1 + k) /\ f - 1 + k \in D
  <2>1. TAKE k \in 1..q
  <2>2. f - 1 + k \in f..(f + q - 1)
    BY <1>1
  <2>3. f - 1 + k \in D /\ SectorOf(f - 1 + k) \in DOMAIN vol.dir
    BY <1>4, <2>2 DEF NamesTogether
  <2>4. QED BY <2>3 DEF Fat!EntriesAt, At, Dir
<1>7. \A k \in 1..q : s[k] \in Seq(LeadOn(D)) /\ s[k] # <<>> /\ Joined(s[k])
  <2> HIDE DEF s
  <2>1. QED BY <1>6 DEF NamesTogether
<1>8. s \in Seq(Seq(LeadOn(D)))
  <2>1. \A k \in 1..q : At(f - 1 + k) \in Seq(LeadOn(D))
    BY <1>7
  <2> HIDE DEF s
  <2>2. QED BY <1>1, <2>1 DEF s
<1>9. \A k \in 1..(q - 1) : Joins(Last(s[k]), s[k + 1][1])
  <2>1. TAKE k \in 1..(q - 1)
  <2>2. /\ k \in 1..q /\ k + 1 \in 1..q /\ f - 1 + k \in f..(f + q - 2)
        /\ f - 1 + (k + 1) = (f - 1 + k) + 1 /\ (f - 1 + k) + 1 \in Nat
        /\ (f - 1 + k) + 1 \in f..(f + q - 1)
    BY <1>1
  <2>3. Leads(f - 1 + k, (f - 1 + k) + 1) /\ IsLink((f - 1 + k) + 1)
    BY <1>2, <2>2
  <2> HIDE DEF s
  <2>4. f - 1 + k \in D /\ s[k] = Dir(f - 1 + k) /\ s[k + 1] = Dir((f - 1 + k) + 1)
    BY <1>6, <2>2
  <2>5. QED BY <2>2, <2>3, <2>4 DEF NamesTogether
<1>10. s[1] = Dir(f) /\ s[q] = Dir(LastCluster(x)) /\ LastCluster(x) \in D
       /\ IsLink(f)
  <2>1. 1 \in 1..q /\ q \in 1..q /\ f - 1 + 1 = f /\ f - 1 + q = f + q - 1
        /\ f \in f..(f + q - 1)
    BY <1>1
  <2> HIDE DEF s
  <2>2. QED BY <1>1, <1>2, <1>6, <2>1
<1> HIDE DEF s
<1>11. LET l == FlattenSeq(s)
       IN /\ l \in Seq(LeadOn(D)) /\ l # <<>> /\ Joined(l)
          /\ l[1] = s[1][1] /\ Last(l) = Last(s[q])
  BY <1>5, <1>7, <1>8, <1>9, FlattenJoined
<1>12. Fat!ExtentEntries(x) = FlattenSeq(s)
  BY <1>3 DEF s
<1>13. QED BY <1>10, <1>11, <1>12 DEF f

\* A directory is read from the extents on the path of its clusters, up to the
\* first that cannot be read.
LEMMA PathJoined ==
  ASSUME TypesOK, NEW D, NamesTogether(D), NEW b \in D, Begins(D, b),
         NEW t \in Seq(Extents), NEW c, IsPath(b, t, c), NEW n \in 0..Len(t)
  PROVE  LET l == FlattenSeq([k \in 1..n |-> Fat!ExtentEntries(t[k])])
         IN WellNamed(l) /\ l \in Seq(LeadOn(D))
<1> DEFINE s == [k \in 1..n |-> Fat!ExtentEntries(t[k])]
           T == {k \in 1..Len(t) : FirstCluster(t[k]) \notin D}
<1>1. /\ Len(t) \in Nat /\ n \in Nat /\ n <= Len(t) /\ DOMAIN t = 1..Len(t)
      /\ \A k \in 1..Len(t) : t[k] \in Extents
  BY LenProperties, ElementOfSeq
<1>2. /\ IsLink(b) /\ FirstCluster(t[1]) = b
      /\ \A k \in 1..Len(t) : IsRun(t[k])
      /\ \A k \in 1..(Len(t) - 1) : Leads(LastCluster(t[k]), FirstCluster(t[k + 1]))
  BY <1>1 DEF IsPath
<1>3. ASSUME NEW k \in 1..Len(t), FirstCluster(t[k]) \in Nat
      PROVE  IsLink(FirstCluster(t[k]))
  <2>1. t[k] \in Extents /\ IsRun(t[k]) /\ ClusterSectors \in Nat \ {0}
    BY <1>1, <1>2, Params
  <2> DEFINE f == FirstCluster(t[k])
             q == t[k].count \div ClusterSectors
  <2>2. t[k].count \in Nat \ {0} /\ t[k].count % ClusterSectors = 0
    BY <2>1 DEF Extents, IsRun
  <2>3. q \in Nat /\ t[k].count = q * ClusterSectors
    BY <2>1, <2>2, DivTimes
  <2>4. LastCluster(t[k]) = f + q - 1 /\ f \in Nat
    BY <1>3 DEF LastCluster
  <2> HIDE DEF q, f
  <2>5. q # 0
    BY <2>1, <2>2, <2>3
  <2>6. f \in f..LastCluster(t[k])
    BY <2>3, <2>4, <2>5
  <2>7. QED BY <2>1, <2>6 DEF IsRun, f
<1>4. \A k \in 1..Len(t) : FirstCluster(t[k]) \in Int
  <2>1. TAKE k \in 1..Len(t)
  <2>2. t[k].start \in Nat /\ vol.data \in Nat /\ ClusterSectors \in Nat \ {0}
    BY <1>1, VolumeTypes, Params DEF Extents
  <2>3. QED BY <2>2 DEF FirstCluster
<1>5. \A k \in 1..Len(t) : FirstCluster(t[k]) \in D
  <2>1. SUFFICES ASSUME T # {} PROVE FALSE
    OBVIOUS
  <2>2. PICK k \in T : \A m \in T : k <= m
    <3>1. T \in SUBSET Nat
      OBVIOUS
    <3> HIDE DEF T
    <3>2. QED BY <2>1, <3>1, LeastNat
  <2>3. k # 1
    BY <1>2, <2>2
  <2>4. k - 1 \in 1..Len(t) /\ k - 1 \in 1..(Len(t) - 1) /\ ~(k <= k - 1) /\ (k - 1) + 1 = k
        /\ k \in 1..Len(t)
    BY <1>1, <2>2, <2>3
  <2>5. FirstCluster(t[k - 1]) \in D
    BY <2>2, <2>4
  <2>6. LastCluster(t[k - 1]) \in D
    BY <1>1, <1>2, <2>4, <2>5, RunJoined
  <2>7. Leads(LastCluster(t[k - 1]), FirstCluster(t[k]))
    BY <1>2, <2>4
  <2>8. FirstCluster(t[k]) \in Nat /\ IsLink(FirstCluster(t[k]))
    <3>1. IsLink(FirstCluster(t[k]))
      BY <2>7 DEF Leads, Nexts
    <3>2. QED BY <1>4, <2>4, <3>1 DEF IsLink
  <2>9. QED BY <2>2, <2>6, <2>7, <2>8 DEF NamesTogether
<1>6. \A k \in 1..n : k \in 1..Len(t) /\ s[k] = Fat!ExtentEntries(t[k])
  BY <1>1
<1> HIDE DEF s, T
<1>7. \A k \in 1..n :
        /\ LastCluster(t[k]) \in D /\ s[k] \in Seq(LeadOn(D)) /\ s[k] # <<>> /\ Joined(s[k])
        /\ s[k][1] = Dir(FirstCluster(t[k]))[1]
        /\ Last(s[k]) = Last(Dir(LastCluster(t[k])))
  <2>1. TAKE k \in 1..n
  <2>2. t[k] \in Extents /\ IsRun(t[k]) /\ FirstCluster(t[k]) \in D
    BY <1>1, <1>2, <1>5, <1>6
  <2>3. QED BY <1>6, <2>2, RunJoined
<1>8. s \in Seq(Seq(LeadOn(D))) /\ Len(s) = n
  <2>1. \A k \in 1..n : Fat!ExtentEntries(t[k]) \in Seq(LeadOn(D))
    BY <1>6, <1>7
  <2>2. QED BY <1>1, <2>1 DEF s
<1>9. CASE n = 0
  <2>1. s = <<>>
    BY <1>8, <1>9, EmptySeq
  <2>2. FlattenSeq(s) = <<>>
    BY <2>1 DEF FlattenSeq
  <2>3. QED BY <2>2 DEF WellNamed, s
<1>10. CASE n # 0
  <2>1. s # <<>> /\ 1 \in 1..n
    BY <1>1, <1>8, <1>10
  <2>2. \A k \in 1..(n - 1) : Joins(Last(s[k]), s[k + 1][1])
    <3>1. TAKE k \in 1..(n - 1)
    <3>2. k \in 1..n /\ k + 1 \in 1..n /\ k \in 1..(Len(t) - 1)
          /\ k + 1 \in 1..Len(t)
      BY <1>1
    <3>3. /\ LastCluster(t[k]) \in D /\ Last(s[k]) = Last(Dir(LastCluster(t[k])))
          /\ s[k + 1][1] = Dir(FirstCluster(t[k + 1]))[1]
          /\ Leads(LastCluster(t[k]), FirstCluster(t[k + 1]))
          /\ FirstCluster(t[k + 1]) \in D
      BY <1>2, <1>5, <1>7, <3>2
    <3>4. FirstCluster(t[k + 1]) \in Nat
      BY <3>3 DEF NamesTogether
    <3>5. IsLink(FirstCluster(t[k + 1]))
      BY <1>3, <3>2, <3>4
    <3>6. QED BY <3>3, <3>4, <3>5 DEF NamesTogether
  <2> DEFINE l == FlattenSeq(s)
  <2>3. l \in Seq(LeadOn(D)) /\ l # <<>> /\ Joined(l) /\ l[1] = s[1][1]
    BY <1>7, <1>8, <2>1, <2>2, FlattenJoined
  <2>4. l[1] = Dir(b)[1] /\ ~HasLong(Dir(b)[1])
    BY <1>2, <1>7, <2>1, <2>3 DEF Begins
  <2> HIDE DEF l
  <2>5. WellNamed(l)
    BY <2>3, <2>4 DEF WellNamed
  <2>6. QED BY <2>3, <2>5 DEF l, s
<1>11. QED BY <1>9, <1>10

----------------------------------------------------------------------------
(* The names through each action.                                          *)

LEMMA NamesFixed ==
  ASSUME UNCHANGED vol, NEW D
  PROVE  /\ NamesTogether(D)' <=> NamesTogether(D)
         /\ \A c : Begins(D, c)' <=> Begins(D, c)
         /\ \A f : FrameOK(D, f)' <=> FrameOK(D, f)
<1>1. /\ \A a, b : Leads(a, b)' <=> Leads(a, b)
      /\ \A c : /\ SectorOf(c)' = SectorOf(c) /\ (Fits(c)' <=> Fits(c))
              /\ Dir(c)' = Dir(c)
  BY LinksFixed DEF Dir
<1>2. \A c : Begins(D, c)' <=> Begins(D, c)
  BY <1>1 DEF Begins, IsLink, HasLong
<1>3. LeadOn(D)' = LeadOn(D)
  BY <1>2 DEF LeadOn
<1>4. \A f : FrameOK(D, f)' <=> FrameOK(D, f)
  BY <1>3 DEF FrameOK, WellNamed, HasLong, Joined, Joins, IsPart
<1>5. NamesTogether(D)' <=> NamesTogether(D)
  BY <1>1, <1>2, <1>3 DEF NamesTogether, WellNamed, HasLong, Joined, Joins, IsPart,
     IsLink, Last
<1>6. QED BY <1>2, <1>4, <1>5

\* The directory on the top of the stack takes another's place, or one more is
\* opened.
LEMMA TopReplaced ==
  ASSUME TypesOK, DepthOK, stack # <<>>, NEW D,
         \A d \in DOMAIN stack : FrameOK(D, stack[d]),
         NEW f \in Frames, FrameOK(D, f)
  PROVE  /\ \A d \in DOMAIN Fat!Below : FrameOK(D, Fat!Below[d])
         /\ \A d \in DOMAIN Append(Fat!Below, f) : FrameOK(D, Append(Fat!Below, f)[d])
<1> DEFINE n == Len(stack)
           t == Fat!Below
<1>1. stack \in Seq(Frames) /\ n \in Nat \ {0} /\ DOMAIN stack = 1..n
      /\ \A d \in 1..n : stack[d] \in Frames
  BY EmptySeq, LenProperties, ElementOfSeq DEF TypesOK
<1>2. t \in Seq(Frames) /\ Len(t) = n - 1 /\ DOMAIN t = 1..(n - 1)
  BY TopOfStack, LenProperties
<1>3. \A d \in 1..(n - 1) : t[d] = stack[d]
  <2>1. t = SubSeq(stack, 1, n - 1)
    BY DEF Fat!Below, Fat!Front
  <2>2. n - 1 \in Int /\ \A d \in 1..(n - 1) : stack[d] \in Frames
    BY <1>1
  <2>3. \A d \in 1..((n - 1) - 1 + 1) : SubSeq(stack, 1, n - 1)[d] = stack[1 + d - 1]
    BY <1>1, <2>2, SubSeqProperties
  <2> HIDE DEF n, t
  <2>4. QED BY <1>1, <2>1, <2>3
<1> HIDE DEF n, t
<1>4. \A d \in 1..(n - 1) : FrameOK(D, t[d])
  <2>1. TAKE d \in 1..(n - 1)
  <2>2. d \in DOMAIN stack
    BY <1>1
  <2>3. QED BY <1>3, <2>2
<1>5. /\ DOMAIN Append(t, f) = 1..((n - 1) + 1) /\ Append(t, f)[(n - 1) + 1] = f
      /\ \A d \in 1..(n - 1) : Append(t, f)[d] = t[d]
  BY <1>2, AppendLast
<1>6. \A d \in 1..((n - 1) + 1) : FrameOK(D, Append(t, f)[d])
  <2>1. TAKE d \in 1..((n - 1) + 1)
  <2>2. d \in 1..(n - 1) \/ d = (n - 1) + 1
    BY <1>1
  <2>3. QED BY <1>4, <1>5, <2>2
<1>7. QED BY <1>2, <1>4, <1>5, <1>6 DEF t

\* The entry that comes next, and the name that stands before it.
LEMMA NextEntry ==
  ASSUME TypesOK, DepthOK, Fat!AtEntry, NEW D,
         \A d \in DOMAIN stack : FrameOK(D, stack[d])
  PROVE  LET t == Fat!Top
             e == Fat!Entry
         IN /\ stack # <<>> /\ t \in Frames /\ FrameOK(D, t)
            /\ t.next \in DOMAIN t.entries /\ t.next \in Nat \ {0}
            /\ t.entries[t.next] = e /\ e \in LeadOn(D)
            /\ \/ ~t.valid /\ ~HasLong(e)
               \/ \E p : /\ t.valid /\ t.long = <<p.name>>
                         /\ IsPart(p) /\ Joins(p, e)
<1> DEFINE t == Fat!Top
           e == Fat!Entry
           n == t.next
<1>1. stack # <<>> /\ t \in Frames
  BY EntryType, TopOfStack
<1>2. FrameOK(D, t)
  <2>1. stack \in Seq(Frames) /\ Len(stack) \in 1..Len(stack) /\ DOMAIN stack = 1..Len(stack)
    BY <1>1, EmptySeq, LenProperties DEF TypesOK
  <2>2. t = stack[Len(stack)]
    BY DEF Fat!Top, Fat!Last
  <2>3. QED BY <2>1, <2>2
<1>3. n \in DOMAIN t.entries /\ n \in Nat \ {0} /\ t.entries[n] = e
  BY <1>1 DEF Fat!AtEntry, Fat!AtEnd, Fat!Entry, Frames
<1> HIDE DEF t, e, n
<1>4. /\ t.entries \in Seq(LeadOn(D)) /\ WellNamed(t.entries)
      /\ DOMAIN t.entries = 1..Len(t.entries) /\ Len(t.entries) \in Nat
      /\ t.entries # <<>>
  BY <1>2, <1>3, LenProperties, EmptySeq DEF FrameOK
<1>5. e \in LeadOn(D)
  BY <1>3, <1>4, ElementOfSeq
<1>6. CASE n = 1
  <2>1. n - 1 \notin DOMAIN t.entries
    BY <1>4, <1>6
  <2>2. ~t.valid
    BY <1>2, <2>1 DEF FrameOK, n
  <2>3. ~HasLong(e)
    BY <1>3, <1>4, <1>6 DEF WellNamed
  <2>4. QED BY <1>1, <1>2, <1>3, <1>5, <2>2, <2>3 DEF t, e, n
<1>7. CASE n # 1
  <2> DEFINE p == t.entries[n - 1]
  <2>1. n - 1 \in 1..(Len(t.entries) - 1) /\ (n - 1) + 1 = n /\ n - 1 \in DOMAIN t.entries
    BY <1>3, <1>4, <1>7
  <2>2. Joins(p, e)
    BY <1>3, <1>4, <2>1 DEF WellNamed, Joined
  <2>3. IF IsPart(p) THEN t.valid /\ t.long = <<p.name>> ELSE ~t.valid
    BY <1>2, <2>1 DEF FrameOK, n
  <2> HIDE DEF p
  <2>4. CASE IsPart(p)
    <3>1. t.valid /\ t.long = <<p.name>>
      BY <2>3, <2>4
    <3>2. \E q : t.valid /\ t.long = <<q.name>> /\ IsPart(q) /\ Joins(q, e)
      BY <2>2, <2>4, <3>1
    <3>3. QED BY <1>1, <1>2, <1>3, <1>5, <3>2 DEF t, e, n
  <2>5. CASE ~IsPart(p)
    <3>1. ~t.valid
      BY <2>3, <2>5
    <3>2. ~HasLong(e)
      BY <2>2, <2>5 DEF Joins
    <3>3. QED BY <1>1, <1>2, <1>3, <1>5, <3>1, <3>2 DEF t, e, n
  <2>6. QED BY <2>4, <2>5
<1>8. QED BY <1>6, <1>7

\* Behind an entry that is not part of a long name there is none in hand.
LEMMA SteppedOK ==
  ASSUME TypesOK, DepthOK, Fat!AtEntry, NEW D,
         \A d \in DOMAIN stack : FrameOK(D, stack[d]),
         Fat!Entry.attr # "lfn"
  PROVE  \A d \in DOMAIN Fat!Stepped : FrameOK(D, Fat!Stepped[d])
<1> DEFINE t == Fat!Top
           f == [t EXCEPT !.next = @ + 1, !.long = <<>>, !.valid = FALSE]
<1>1. /\ stack # <<>> /\ t \in Frames /\ FrameOK(D, t)
      /\ t.next \in Nat \ {0} /\ t.entries[t.next] = Fat!Entry
  BY NextEntry
<1>2. Fat!Stepped = Append(Fat!Below, f)
  BY DEF Fat!Stepped
<1> HIDE DEF t
<1>3. /\ f \in Frames /\ f.entries = t.entries /\ f.next - 1 = t.next /\ f.valid = FALSE
  <2>1. t.next + 1 \in Nat \ {0} /\ (t.next + 1) - 1 = t.next /\ <<>> \in Seq(Names)
    BY <1>1
  <2>2. QED BY <1>1, <2>1 DEF Frames
<1> HIDE DEF f
<1>4. ~IsPart(f.entries[f.next - 1])
  BY <1>1, <1>3 DEF IsPart
<1>5. FrameOK(D, f)
  BY <1>1, <1>3, <1>4 DEF FrameOK
<1>6. QED BY <1>1, <1>2, <1>3, <1>5, TopReplaced

\* A part of a long name is in hand after its entry if it is the first.
LEMMA LongNameOK ==
  ASSUME TypesOK, DepthOK, Fat!LongNameEntry, NEW D,
         \A d \in DOMAIN stack : FrameOK(D, stack[d])
  PROVE  \A d \in DOMAIN stack' : FrameOK(D, stack'[d])
<1> DEFINE t == Fat!Top
           e == Fat!Entry
           seq == IF e.gone THEN 37 ELSE e.seq
           long == IF seq = 1 THEN <<e.name>>
                   ELSE IF seq # 0 /\ t.valid THEN <<e.name>> \o t.long
                   ELSE t.long
           f == [t EXCEPT !.next = @ + 1, !.long = long,
                          !.valid = seq # 0 /\ (seq = 1 \/ @)]
<1>1. /\ Fat!AtEntry /\ e.attr = "lfn" /\ stack' = Append(Fat!Below, f)
  BY DEF Fat!LongNameEntry
<1>2. /\ stack # <<>> /\ t \in Frames /\ FrameOK(D, t)
      /\ t.next \in DOMAIN t.entries /\ t.next \in Nat \ {0} /\ t.entries[t.next] = e
      /\ ~t.valid
  <2>1. \A p : IsPart(p) => ~Joins(p, e)
    BY <1>1 DEF Joins
  <2>2. QED BY <1>1, <2>1, NextEntry
<1>3. t.long \in Seq(Names) /\ e.name \in Names /\ t.valid = FALSE
  BY <1>1, <1>2, EntryType DEF Frames
<1>4. long \in Seq(Names) /\ (seq = 1 => long = <<e.name>>)
  <2>1. <<e.name>> \in Seq(Names)
    BY <1>3
  <2>2. QED BY <1>3, <2>1
<1>5. (seq # 0 /\ (seq = 1 \/ t.valid)) = (seq = 1)
  BY <1>3
<1> HIDE DEF t, e, seq, long
<1>6. f = [t EXCEPT !.next = @ + 1, !.long = long, !.valid = (seq = 1)]
  BY <1>5
<1> HIDE DEF f
<1>7. /\ f \in Frames /\ f.entries = t.entries /\ f.next - 1 = t.next
      /\ f.long = long /\ f.valid = (seq = 1)
  <2>1. t.next + 1 \in Nat \ {0} /\ (t.next + 1) - 1 = t.next /\ (seq = 1) \in BOOLEAN
    BY <1>2
  <2>2. QED BY <1>2, <1>4, <1>6, <2>1 DEF Frames
<1>8. IsPart(e) <=> seq = 1
  BY <1>1 DEF IsPart, seq, e
<1>9. f.entries[f.next - 1] = e /\ f.next - 1 \in DOMAIN f.entries
  BY <1>2, <1>7
<1>10. IF IsPart(e) THEN f.valid /\ f.long = <<e.name>> ELSE ~f.valid
  BY <1>4, <1>7, <1>8
<1>11. WellNamed(f.entries) /\ f.entries \in Seq(LeadOn(D))
  BY <1>2, <1>7 DEF FrameOK
<1>12. FrameOK(D, f)
  BY <1>9, <1>10, <1>11 DEF FrameOK
<1>13. QED BY <1>1, <1>2, <1>7, <1>12, TopReplaced

\* The name that process_dir_entry gives to a file is its own.
LEMMA NameIsOwn ==
  ASSUME TypesOK, DepthOK, Fat!AtEntry, Fat!Entry.attr = "file", NEW D,
         \A d \in DOMAIN stack : FrameOK(D, stack[d])
  PROVE  IsOwnName(Fat!Entry, Fat!NameOfEntry)
<1> DEFINE t == Fat!Top
           e == Fat!Entry
<1>1. Fat!NameOfEntry = IF t.valid /\ ~e.gone /\ t.long # <<>> THEN t.long ELSE <<e.name>>
  BY DEF Fat!NameOfEntry
<1>2. e \in Entries /\ e.long \in Seq(ToSet(e.long))
  BY EntryType, EntriesAssumption
<1>3. \/ ~t.valid /\ ~HasLong(e)
      \/ \E p : t.valid /\ t.long = <<p.name>> /\ IsPart(p) /\ Joins(p, e)
  BY NextEntry
<1>4. e.attr = "file"
  OBVIOUS
<1> HIDE DEF t, e
<1>5. CASE ~t.valid /\ ~HasLong(e)
  <2>1. Fat!NameOfEntry = <<e.name>> /\ (e.gone \/ e.long = <<>>)
    BY <1>1, <1>4, <1>5 DEF HasLong
  <2>2. e.long = <<>> => Len(e.long) # 1
    BY EmptySeq
  <2>3. QED BY <2>1, <2>2 DEF IsOwnName, e
<1>6. CASE \E p : t.valid /\ t.long = <<p.name>> /\ IsPart(p) /\ Joins(p, e)
  <2>1. PICK p : t.valid /\ t.long = <<p.name>> /\ IsPart(p) /\ Joins(p, e)
    BY <1>6
  <2>2. CASE e.gone
    <3>1. Fat!NameOfEntry = <<e.name>>
      BY <1>1, <2>2
    <3>2. QED BY <2>2, <3>1 DEF IsOwnName, e
  <2>3. CASE ~e.gone
    <3>1. e.long # <<>> /\ e.long[1] = p.name
      BY <2>1, <2>3 DEF Joins
    <3>2. Fat!NameOfEntry = <<e.long[1]>>
      BY <1>1, <2>1, <2>3, <3>1
    <3>3. Len(e.long) = 1 => <<e.long[1]>> = e.long
      BY <1>2
    <3>4. e.long[1] \in ToSet(e.long)
      <4>1. 1 \in DOMAIN e.long
        BY <1>2, <3>1, EmptySeq, LenProperties
      <4>2. QED BY <4>1 DEF ToSet
    <3>5. ToSet(<<e.long[1]>>) \subseteq ToSet(e.long)
      BY <3>4 DEF ToSet
    <3>6. QED BY <2>3, <3>1, <3>2, <3>3, <3>5 DEF IsOwnName, e
  <2>4. QED BY <2>2, <2>3
<1>7. QED BY <1>3, <1>5, <1>6

LEMMA FollowChainNames ==
  ASSUME IInv, NEW D, NamesInv(D), Fat!FollowChain
  PROVE  NamesInv(D)'
<1>1. pc = "chain" /\ UNCHANGED <<vol, pc, stop, files, stack>>
  BY DEF Fat!FollowChain
<1>2. /\ walk'.run # 0 /\ IsLink(walk.cluster) /\ walk'.file = walk.file
      /\ walk'.cluster \in Nat /\ Came(walk.cluster, walk'.cluster)
      /\ Fits(walk.cluster) =>
           \A b : (IF walk.run = 0 THEN walk.cluster = b
                  ELSE IsPath(b, Fat!Closed(walk), walk.cluster))
             => IsPath(b, Fat!Closed(walk'), walk'.cluster)
  BY PathStep
<1>3. NamesTogether(D)' /\ FramesOK(D)'
  BY <1>1, NamesFixed DEF NamesInv, FramesOK
<1>4. DirectoryWalkOK(D)'
  <2>1. SUFFICES ASSUME walk.file = <<>>
                 PROVE  /\ IsLink(walk'.cluster) => walk'.cluster \in D
                        /\ \E b \in D : Begins(D, b)
                             /\ IsPath(b, Fat!Closed(walk'), walk'.cluster)
    BY <1>1, <1>2, NamesFixed, VolumeFixed DEF DirectoryWalkOK, IsLink
  <2>2. walk.cluster \in D
    BY <1>1, <1>2, <2>1 DEF NamesInv, DirectoryWalkOK, Begins
  <2>3. Fits(walk.cluster)
    BY <2>2 DEF NamesInv, NamesTogether
  <2>4. ASSUME IsLink(walk'.cluster) PROVE walk'.cluster \in D
    <3>1. Leads(walk.cluster, walk'.cluster)
      BY <1>2, <2>4 DEF Came, Leads, Nexts, IsLink
    <3>2. QED BY <1>2, <2>2, <2>4, <3>1 DEF NamesInv, NamesTogether
  <2>5. CASE walk.run = 0
    <3>1. Begins(D, walk.cluster)
      BY <1>1, <2>1, <2>5 DEF NamesInv, DirectoryWalkOK
    <3>2. IsPath(walk.cluster, Fat!Closed(walk'), walk'.cluster)
      BY <1>2, <2>3, <2>5
    <3>3. QED BY <2>2, <2>4, <3>1, <3>2
  <2>6. CASE walk.run # 0
    <3>1. PICK b \in D : Begins(D, b) /\ IsPath(b, Fat!Closed(walk), walk.cluster)
      BY <1>1, <2>1, <2>6 DEF NamesInv, DirectoryWalkOK
    <3>2. QED BY <1>2, <2>3, <2>4, <2>6, <3>1
  <2>7. QED BY <2>5, <2>6
<1>5. FileWalkOK'
  BY <1>1, <1>2 DEF NamesInv, FileWalkOK, IsOwnName
<1>6. FilesOwn'
  BY <1>1 DEF NamesInv, FilesOwn, IsOwnName
<1>7. QED BY <1>3, <1>4, <1>5, <1>6 DEF NamesInv

LEMMA ChainOfFileEndsNames ==
  ASSUME IInv, NEW D, NamesInv(D), Fat!ChainOfFileEnds
  PROVE  NamesInv(D)'
<1> DEFINE t == walk.file[1]
           f == [name |-> t.name, damaged |-> t.damaged, entry |-> t.entry,
                 extents |-> Fat!Closed(walk)]
<1>1. /\ pc = "chain" /\ walk.file # <<>>
      /\ files' = IF stop THEN files ELSE Append(files, f)
      /\ pc' \in {"done", "entry"} /\ UNCHANGED <<vol, stack>>
  BY DEF Fat!ChainOfFileEnds, Fat!Continue
<1>2. NamesTogether(D)' /\ FramesOK(D)'
  BY <1>1, NamesFixed DEF NamesInv, FramesOK
<1>3. DirectoryWalkOK(D)' /\ FileWalkOK'
  BY <1>1 DEF DirectoryWalkOK, FileWalkOK
<1>4. f.entry = t.entry /\ f.name = t.name /\ IsOwnName(t.entry, t.name)
  BY <1>1 DEF NamesInv, FileWalkOK
<1> HIDE DEF f
<1>5. \A k \in DOMAIN files' : IsOwnName(files'[k].entry, files'[k].name)
  <2>1. CASE files' = files
    BY <2>1 DEF NamesInv, FilesOwn
  <2>2. CASE files' = Append(files, f)
    <3>1. PICK S : files \in Seq(S)
      BY DEF IInv, TypesOK
    <3>2. Len(files) \in Nat /\ DOMAIN files = 1..Len(files) /\ files \in Seq(S \cup {f})
          /\ f \in S \cup {f}
      BY <3>1, LenProperties
    <3>3. /\ DOMAIN files' = 1..(Len(files) + 1) /\ files'[Len(files) + 1] = f
          /\ \A k \in 1..Len(files) : files'[k] = files[k]
      BY <2>2, <3>2, AppendLast
    <3>4. TAKE k \in DOMAIN files'
    <3>5. k \in 1..Len(files) \/ k = Len(files) + 1
      BY <3>2, <3>3
    <3>6. CASE k \in 1..Len(files)
      BY <3>2, <3>3, <3>6 DEF NamesInv, FilesOwn
    <3>7. CASE k = Len(files) + 1
      BY <1>4, <3>3, <3>7
    <3>8. QED BY <3>5, <3>6, <3>7
  <2>3. QED BY <1>1, <2>1, <2>2
<1>6. QED BY <1>2, <1>3, <1>5 DEF NamesInv, FilesOwn, IsOwnName

LEMMA DirectoryChainEndsNames ==
  ASSUME IInv, NEW D, NamesInv(D), Fat!DirectoryChainEnds
  PROVE  NamesInv(D)'
<1> DEFINE exts == Fat!Closed(walk)
           read(n) == FlattenSeq([k \in 1..n |-> Fat!ExtentEntries(exts[k])])
           frame(n) == [depth |-> walk.depth, next |-> 1, entries |-> read(n),
                        long |-> <<>>, valid |-> FALSE]
<1>1. /\ pc = "chain" /\ walk.file = <<>>
      /\ \E n \in 0..Len(exts) :
           stack' = IF exts = <<>> THEN stack ELSE Append(stack, frame(n))
      /\ pc' \in {"done", "entry"} /\ UNCHANGED <<vol, files>>
  BY Instances DEF Fat!DirectoryChainEnds, Fat!Continue
<1>2. /\ TypesOK /\ DepthOK /\ walk \in Walks /\ exts \in Seq(Extents)
      /\ stack \in Seq(Frames)
  BY ClosedType DEF IInv, TypesOK
<1>3. DirectoryWalkOK(D)' /\ FileWalkOK'
  BY <1>1 DEF DirectoryWalkOK, FileWalkOK
<1>4. NamesTogether(D)' /\ \A f : FrameOK(D, f)' <=> FrameOK(D, f)
  BY <1>1, NamesFixed DEF NamesInv, FramesOK
<1>5. PICK n \in 0..Len(exts) :
        stack' = IF exts = <<>> THEN stack ELSE Append(stack, frame(n))
  BY <1>1
<1>6. ASSUME exts # <<>>
      PROVE  WellNamed(read(n)) /\ read(n) \in Seq(LeadOn(D))
  <2>1. walk.run # 0
    BY <1>1, <1>2, <1>6 DEF IInv, WalkOK, Walks, Fat!Closed
  <2>2. PICK b \in D : Begins(D, b) /\ IsPath(b, exts, walk.cluster)
    BY <1>1, <2>1 DEF NamesInv, DirectoryWalkOK
  <2> HIDE DEF exts
  <2>3. QED BY <1>2, <2>2, PathJoined DEF NamesInv
<1> HIDE DEF exts, read
<1>7. exts # <<>> => FrameOK(D, frame(n))
  <2>1. 1 - 1 \notin DOMAIN read(n) \/ exts = <<>>
    BY <1>6, LenProperties
  <2>2. QED BY <1>6, <2>1 DEF FrameOK
<1> HIDE DEF frame
<1>8. \A d \in DOMAIN stack' : FrameOK(D, stack'[d])
  <2>1. CASE exts = <<>>
    BY <1>5, <2>1 DEF NamesInv, FramesOK
  <2>2. CASE exts # <<>>
    <3>1. /\ Len(stack) \in Nat /\ DOMAIN stack = 1..Len(stack)
          /\ stack \in Seq(Frames \cup {frame(n)}) /\ frame(n) \in Frames \cup {frame(n)}
      BY <1>2, LenProperties
    <3>2. stack' = Append(stack, frame(n))
      BY <1>5, <2>2
    <3>3. /\ DOMAIN stack' = 1..(Len(stack) + 1) /\ stack'[Len(stack) + 1] = frame(n)
          /\ \A k \in 1..Len(stack) : stack'[k] = stack[k]
      BY <3>1, <3>2, AppendLast
    <3>4. TAKE d \in DOMAIN stack'
    <3>5. d \in 1..Len(stack) \/ d = Len(stack) + 1
      BY <3>1, <3>3
    <3>6. CASE d \in 1..Len(stack)
      BY <3>1, <3>3, <3>6 DEF NamesInv, FramesOK
    <3>7. CASE d = Len(stack) + 1
      BY <1>7, <2>2, <3>3, <3>7
    <3>8. QED BY <3>5, <3>6, <3>7
  <2>3. QED BY <2>1, <2>2
<1>9. FilesOwn'
  BY <1>1 DEF NamesInv, FilesOwn, IsOwnName
<1>10. QED BY <1>3, <1>4, <1>8, <1>9 DEF NamesInv, FramesOK

\* The entries of a directory.
LEMMA EntryNames ==
  ASSUME IInv, NEW D, NamesInv(D),
         \/ Fat!LongNameEntry \/ Fat!DirectoryEntry \/ Fat!FileEntry
         \/ Fat!OtherEntry \/ Fat!DirectoryDone
  PROVE  NamesInv(D)'
<1>1. /\ TypesOK /\ DepthOK /\ NamesTogether(D)
      /\ \A d \in DOMAIN stack : FrameOK(D, stack[d])
  BY DEF IInv, NamesInv, FramesOK
<1>2. UNCHANGED <<vol, files>> /\ pc = "entry"
  BY DEF Fat!LongNameEntry, Fat!DirectoryEntry, Fat!FileEntry, Fat!OtherEntry,
     Fat!DirectoryDone, Fat!AtEntry
<1>3. \A d \in DOMAIN stack' : FrameOK(D, stack'[d])
  <2>1. CASE Fat!LongNameEntry
    BY <1>1, <2>1, LongNameOK
  <2>2. CASE Fat!DirectoryEntry \/ Fat!FileEntry \/ Fat!OtherEntry
    <3>1. /\ stack' = Fat!Stepped /\ Fat!AtEntry /\ Fat!Entry.attr # "lfn"
      BY <2>2 DEF Fat!DirectoryEntry, Fat!FileEntry, Fat!OtherEntry
    <3>2. QED BY <1>1, <3>1, SteppedOK
  <2>3. CASE Fat!DirectoryDone
    <3>1. stack' = Fat!Below /\ stack # <<>>
      BY <1>1, <1>2, <2>3 DEF Fat!DirectoryDone, DepthOK
    <3>2. Fat!Top \in Frames /\ FrameOK(D, Fat!Top)
      <4>1. stack \in Seq(Frames) /\ Len(stack) \in DOMAIN stack
        BY <1>1, <3>1, EmptySeq, LenProperties DEF TypesOK
      <4>2. Fat!Top = stack[Len(stack)]
        BY DEF Fat!Top, Fat!Last
      <4>3. QED BY <1>1, <3>1, <4>1, <4>2, TopOfStack
    <3>3. QED BY <1>1, <3>1, <3>2, TopReplaced
  <2>4. QED BY <2>1, <2>2, <2>3
<1>4. DirectoryWalkOK(D)' /\ FileWalkOK'
  <2>1. CASE Fat!DirectoryEntry /\ pc' = "chain"
    <3>1. /\ Fat!AtEntry /\ Fat!Entry.attr = "dir" /\ Fat!Entry.cluster >= 2
          /\ walk' = Fat!ChainOfDirectory(Fat!Entry.cluster, Fat!Top.depth + 1)
      BY <1>2, <2>1 DEF Fat!DirectoryEntry
    <3>2. Fat!Entry \in LeadOn(D)
      BY <1>1, <3>1, NextEntry
    <3>3. Begins(D, Fat!Entry.cluster)
      BY <3>1, <3>2 DEF LeadOn
    <3>4. walk'.file = <<>> /\ walk'.run = 0 /\ walk'.cluster = Fat!Entry.cluster
      BY <3>1 DEF Fat!ChainOfDirectory, Fat!NoWalk
    <3>5. \A c : Begins(D, c)' <=> Begins(D, c)
      BY <1>2, NamesFixed
    <3>6. QED BY <3>3, <3>4, <3>5 DEF DirectoryWalkOK, FileWalkOK
  <2>2. CASE Fat!FileEntry
    <3>1. /\ Fat!AtEntry /\ Fat!Entry.attr = "file"
          /\ walk' = Fat!ChainOfFile(Fat!Entry.cluster,
                       [name |-> Fat!NameOfEntry, damaged |-> Fat!Entry.gone,
                        entry |-> Fat!Entry])
      BY <2>2 DEF Fat!FileEntry
    <3>2. IsOwnName(Fat!Entry, Fat!NameOfEntry)
      BY <1>1, <3>1, NameIsOwn
    <3>3. walk'.file = <<[name |-> Fat!NameOfEntry, damaged |-> Fat!Entry.gone,
                          entry |-> Fat!Entry]>>
      BY <3>1 DEF Fat!ChainOfFile, Fat!NoWalk
    <3>4. /\ walk'.file # <<>> /\ walk'.file[1].entry = Fat!Entry
          /\ walk'.file[1].name = Fat!NameOfEntry
      BY <3>3
    <3>5. IsOwnName(walk'.file[1].entry, walk'.file[1].name)
      BY <3>2, <3>4
    <3>6. QED BY <3>4, <3>5 DEF DirectoryWalkOK, FileWalkOK, IsOwnName
  <2>3. CASE pc' # "chain"
    BY <2>3 DEF DirectoryWalkOK, FileWalkOK
  <2>4. Fat!FileEntry \/ (Fat!DirectoryEntry /\ pc' = "chain") \/ pc' # "chain"
    BY <1>2 DEF Fat!LongNameEntry, Fat!DirectoryEntry, Fat!OtherEntry,
       Fat!DirectoryDone, Fat!Continue
  <2>5. QED BY <2>1, <2>2, <2>3, <2>4
<1>5. FilesOwn'
  BY <1>2 DEF NamesInv, FilesOwn, IsOwnName
<1>6. NamesTogether(D)' /\ FramesOK(D)'
  BY <1>1, <1>2, <1>3, NamesFixed DEF FramesOK
<1>7. QED BY <1>4, <1>5, <1>6 DEF NamesInv

LEMMA RootNames ==
  ASSUME IInv, IsFat, NEW D, NamesInv(D), Fat!ParseBootSector \/ Fat!ReadRootDirectory
  PROVE  NamesInv(D)'
<1>1. UNCHANGED <<vol, files>>
  BY DEF Fat!ParseBootSector, Fat!ReadRootDirectory
<1>2. NamesTogether(D) /\ \A d \in DOMAIN stack : FrameOK(D, stack[d])
  BY DEF NamesInv, FramesOK
<1>3. \A d \in DOMAIN stack' : FrameOK(D, stack'[d])
  <2>1. CASE UNCHANGED stack
    BY <1>2, <2>1
  <2>2. CASE stack' # stack
    <3> DEFINE f == [depth |-> 0, next |-> 1, entries |-> vol.rootEntries,
                     long |-> <<>>, valid |-> FALSE]
    <3>1. stack' = <<f>>
      BY <2>2 DEF Fat!ParseBootSector, Fat!ReadRootDirectory
    <3>2. 1 - 1 \notin DOMAIN vol.rootEntries
      BY <1>2, LenProperties DEF NamesTogether
    <3>3. FrameOK(D, f)
      BY <1>2, <3>2 DEF FrameOK, NamesTogether
    <3> HIDE DEF f
    <3>4. QED BY <3>1, <3>3
  <2>3. QED BY <2>1, <2>2
<1>4. DirectoryWalkOK(D)' /\ FileWalkOK'
  <2>1. CASE pc' # "chain"
    BY <2>1 DEF DirectoryWalkOK, FileWalkOK
  <2>2. CASE pc' = "chain"
    <3>1. vol.fs = "fat32" /\ walk' = Fat!ChainOfDirectory(vol.root, 0)
      BY <2>2 DEF Fat!ParseBootSector, Fat!ReadRootDirectory
    <3>2. walk'.file = <<>> /\ walk'.run = 0 /\ walk'.cluster = vol.root
      BY <3>1 DEF Fat!ChainOfDirectory, Fat!NoWalk
    <3>3. Begins(D, vol.root) /\ \A c : Begins(D, c)' <=> Begins(D, c)
      BY <1>1, <1>2, <3>1, NamesFixed DEF NamesTogether
    <3>4. QED BY <3>2, <3>3 DEF DirectoryWalkOK, FileWalkOK
  <2>3. QED BY <2>1, <2>2
<1>5. FilesOwn'
  BY <1>1 DEF NamesInv, FilesOwn, IsOwnName
<1>6. NamesTogether(D)' /\ FramesOK(D)'
  BY <1>1, <1>2, <1>3, NamesFixed DEF FramesOK
<1>7. QED BY <1>4, <1>5, <1>6 DEF NamesInv

LEMMA StepNames ==
  ASSUME IInv, NamesOK, [Next]_vars
  PROVE  NamesOK'
<1>1. vol' = vol
  BY DEF Next, Parse, vars, DetectFilesystem, RequestStop, Fat!FatNext, Mft!MftNext,
     Fat!ParseBootSector, Fat!ReadRootDirectory, Fat!FollowChain, Fat!OutOfMemory,
     Fat!ChainOfFileEnds, Fat!DirectoryChainEnds, Fat!LongNameEntry, Fat!DirectoryEntry, Fat!FileEntry,
     Fat!OtherEntry, Fat!DirectoryDone, Mft!ParseMftBootSector, Mft!ReadBatch,
     Mft!EnumerationStops, Mft!ProcessRecord, Mft!ProcessSingleRecord, Mft!BatchDone
<1>2. SUFFICES ASSUME IsFat, NEW D \in SUBSET Nat, NamesInv(D)
               PROVE  NamesInv(D)'
  BY <1>1, VolumeFixed DEF NamesOK
<1>3. CASE Fat!FatNext /\ ~Fat!OutOfMemory
  <2>1. CASE Fat!ParseBootSector \/ Fat!ReadRootDirectory
    BY <1>2, <2>1, RootNames
  <2>2. CASE Fat!FollowChain
    BY <1>2, <2>2, FollowChainNames
  <2>3. CASE Fat!ChainOfFileEnds
    BY <1>2, <2>3, ChainOfFileEndsNames
  <2>4. CASE Fat!DirectoryChainEnds
    BY <1>2, <2>4, DirectoryChainEndsNames
  <2>5. CASE \/ Fat!LongNameEntry \/ Fat!DirectoryEntry \/ Fat!FileEntry
             \/ Fat!OtherEntry \/ Fat!DirectoryDone
    BY <1>2, <2>5, EntryNames
  <2>6. QED BY <1>3, <2>1, <2>2, <2>3, <2>4, <2>5 DEF Fat!FatNext
<1>4. CASE DetectFilesystem \/ RequestStop \/ Fat!OutOfMemory \/ UNCHANGED vars
  <2>1. /\ UNCHANGED <<vol, files, stack, walk>>
        /\ pc' = pc \/ pc' # "chain"
    BY <1>4 DEF DetectFilesystem, Detected, RequestStop, Fat!OutOfMemory, vars, fatVars
  <2>2. NamesTogether(D)' /\ FramesOK(D)'
    BY <1>2, <2>1, NamesFixed DEF NamesInv, FramesOK
  <2>3. DirectoryWalkOK(D)' /\ FileWalkOK'
    <3>1. \A c : Begins(D, c)' <=> Begins(D, c)
      BY <2>1, NamesFixed
    <3>2. \A b, t, d : IsPath(b, t, d)' <=> IsPath(b, t, d)
      BY <2>1, VolumeFixed
    <3>3. Fat!Closed(walk)' = Fat!Closed(walk)
      BY <2>1 DEF Fat!Closed
    <3>4. QED BY <1>2, <2>1, <3>1, <3>2, <3>3 DEF NamesInv, DirectoryWalkOK,
             FileWalkOK, IsOwnName
  <2>4. FilesOwn'
    BY <1>2, <2>1 DEF NamesInv, FilesOwn, IsOwnName
  <2>5. QED BY <2>2, <2>3, <2>4 DEF NamesInv
<1>5. CASE Mft!MftNext
  <2>1. pc \in OnMft
    BY <1>5 DEF Mft!MftNext, Mft!ParseMftBootSector, Mft!ReadBatch, Mft!EnumerationStops,
       Mft!ProcessRecord, Mft!ProcessSingleRecord, Mft!BatchDone, OnMft
  <2>2. QED BY <1>2, <2>1 DEF IInv, TypesOK
<1>6. QED BY <1>3, <1>4, <1>5 DEF Next, Parse

LEMMA InitNames ==
  ASSUME Init, NamesAreWhole
  PROVE  NamesOK
<1>1. stack = <<>> /\ files = <<>> /\ pc = "detect"
  BY DEF Init, Fat!FatInit
<1>2. QED BY <1>1 DEF NamesOK, NamesAreWhole, NamesInv, FramesOK, FilesOwn, DirectoryWalkOK, FileWalkOK

\* On a volume whose long names are whole, where the directories are and where
\* the table may lead from them, no file carries the name of another, whatever
\* cannot be read (fat_parser.cpp:369-397).
THEOREM OwnNames == Spec /\ NamesAreWhole => []NamesAreOwn
<1>1. Init /\ NamesAreWhole => NamesOK
  BY InitNames
<1>2. IInv /\ NamesOK /\ [Next]_vars => NamesOK'
  BY StepNames
<1>3. NamesOK => NamesAreOwn
  BY DEF NamesOK, NamesInv, FilesOwn, NamesAreOwn
<1>4. QED BY <1>1, <1>2, <1>3, Inductive, PTL DEF Spec

----------------------------------------------------------------------------
(* The records of the MFT.                                                 *)

\* The size of the MFT is known, or within what the code falls back on.
MftFits ==
  IsNtfs =>
    \/ Len(vol.records) <= FallbackCount
    \/ Mft!RecordsAt(0, 1) \cap Unsound = {} /\ Mft!RecordAt(0).file

\* The record that comes next.
Position == IF pc = "batch" THEN start ELSE index

AllReported(n) ==
  \A i \in 0..(Len(vol.records) - 1) :
    i < n /\ IsSoundRecord(i) => \E k \in DOMAIN files : files[k].mft_id = i

\* No record is reported again, and none that lies ahead.
Ascending ==
  /\ \A k \in DOMAIN files : files[k].mft_id < Position
  /\ \A j, k \in DOMAIN files : files[j].mft_id = files[k].mft_id => j = k

RecordsInv ==
  /\ count \in Nat
  /\ pc \in {"detect", "ntfs"} => files = <<>> /\ start = 0
  /\ pc \in {"batch", "records", "singles"} =>
       /\ Len(vol.records) <= count /\ Ascending
       /\ ~stop => AllReported(Position)
  /\ pc \in {"records", "singles"} =>
       start < count /\ start <= index /\ index <= Mft!BatchEnd
  /\ Undisturbed =>
       /\ AllReported(Len(vol.records))
       /\ \A j, k \in DOMAIN files : files[j].mft_id = files[k].mft_id => j = k

RecordsOK == IsNtfs => MftFits /\ RecordsInv

LEMMA RecordTypes ==
  ASSUME TypesOK, IsNtfs
  PROVE  /\ ~IsFat /\ Len(vol.records) \in Nat /\ files \in Seq(MftFiles)
         /\ Len(files) \in Nat /\ DOMAIN files = 1..Len(files)
         /\ start \in Nat /\ index \in Nat
         /\ BatchRecords \in Nat \ {0} /\ FallbackCount \in Nat
<1>1. ~IsFat
  BY DEF IsNtfs, IsFat, FatKinds
<1>2. vol.records \in Seq(ToSet(vol.records)) /\ FallbackCount \in Nat
  BY VolumesAssumption, SizesAssumption DEF TypesOK
<1>3. QED BY <1>1, <1>2, LenProperties, Params DEF TypesOK

\* A sector that is sound is read.
LEMMA SoundReads ==
  ASSUME NEW S, S \cap Unsound = {}, NEW ok \in Mft!ReadResults(S)
  PROVE  ok
BY DEF Unsound, Mft!ReadResults

LEMMA RecordsFixed ==
  ASSUME UNCHANGED vol
  PROVE  /\ IsNtfs' = IsNtfs /\ MftFits' = MftFits /\ Unsound' = Unsound
         /\ \A i : IsSoundRecord(i)' <=> IsSoundRecord(i)
         /\ \A i : Mft!RecordsAt(i, 1)' = Mft!RecordsAt(i, 1)
<1>1. Unsound' = Unsound /\ IsNtfs' = IsNtfs
  BY DEF Unsound, IsNtfs
<1>2. \A i : Mft!RecordsAt(i, 1)' = Mft!RecordsAt(i, 1)
  BY DEF Mft!RecordsAt
<1>3. \A i : Mft!RecordAt(i)' = Mft!RecordAt(i)
  BY DEF Mft!RecordAt
<1>4. \A i : IsSoundRecord(i)' <=> IsSoundRecord(i)
  BY <1>1, <1>2, <1>3 DEF IsSoundRecord
<1>5. Mft!RecordsAt(0, 1)' = Mft!RecordsAt(0, 1) /\ Mft!RecordAt(0)' = Mft!RecordAt(0)
  BY <1>2, <1>3
<1>6. MftFits' = MftFits
  BY <1>1, <1>5 DEF MftFits
<1>7. QED BY <1>1, <1>2, <1>4, <1>6

\* One record is told of, or passed over because it cannot be.
LEMMA RecordTold ==
  ASSUME TypesOK, IsNtfs, UNCHANGED <<vol, stop>>, ~stop,
         AllReported(index), NEW n, n = index + 1,
         \A k \in DOMAIN files : files[k].mft_id < index,
         \A j, k \in DOMAIN files : files[j].mft_id = files[k].mft_id => j = k,
         \/ files' = Mft!Reported(index)
         \/ files' = files /\ ~(Mft!RecordsAt(index, 1) \cap Unsound = {})
  PROVE  /\ AllReported(n)'
         /\ \A k \in DOMAIN files' : files'[k].mft_id < n
         /\ \A j, k \in DOMAIN files' : files'[j].mft_id = files'[k].mft_id => j = k
<1>1. /\ index \in Nat /\ Len(files) \in Nat /\ DOMAIN files = 1..Len(files)
      /\ files \in Seq(MftFiles) /\ Len(vol.records) \in Nat
  BY RecordTypes
<1>2. \A k \in DOMAIN files : files[k].mft_id \in Nat
  <2>1. TAKE k \in DOMAIN files
  <2>2. files[k] \in MftFiles
    BY <1>1, ElementOfSeq
  <2>3. QED BY <1>1, <2>2 DEF MftFiles, Mft!FileOf
<1>3. \A i \in Nat : i < n <=> i < index \/ i = index
  BY <1>1
<1>4. CASE files' = files /\ ~IsSoundRecord(index)
  <2>1. AllReported(n)'
    BY <1>3, <1>4, RecordsFixed DEF AllReported
  <2>2. QED BY <1>1, <1>2, <1>3, <1>4, <2>1
<1>5. CASE files' = Append(files, Mft!FileOf(index))
  <2> DEFINE f == Mft!FileOf(index)
  <2>1. f.mft_id = index
    BY DEF Mft!FileOf
  <2> HIDE DEF f
  <2>2. files \in Seq(MftFiles \cup {f}) /\ f \in MftFiles \cup {f}
    BY <1>1
  <2>3. /\ DOMAIN files' = 1..(Len(files) + 1) /\ files'[Len(files) + 1] = f
        /\ \A k \in 1..Len(files) : files'[k] = files[k]
    BY <1>5, <2>2, AppendLast DEF f
  <2>4. \A k \in DOMAIN files' : k \in 1..Len(files) \/ k = Len(files) + 1
    BY <1>1, <2>3
  <2>5. \A k \in DOMAIN files' : files'[k].mft_id < n
    BY <1>1, <1>2, <1>3, <2>1, <2>3, <2>4
  <2>6. \A j, k \in DOMAIN files' : files'[j].mft_id = files'[k].mft_id => j = k
    BY <1>1, <1>2, <2>1, <2>3, <2>4
  <2>7. ASSUME NEW i \in 0..(Len(vol.records) - 1), i < n, IsSoundRecord(i)
        PROVE  \E k \in DOMAIN files' : files'[k].mft_id = i
    <3>1. CASE i = index
      <4>1. Len(files) + 1 \in DOMAIN files'
        BY <1>1, <2>3
      <4>2. QED BY <2>1, <2>3, <3>1, <4>1
    <3>2. CASE i # index
      <4>1. i < index
        BY <1>3, <2>7, <3>2
      <4>2. PICK k \in DOMAIN files : files[k].mft_id = i
        BY <2>7, <4>1 DEF AllReported
      <4>3. k \in DOMAIN files' /\ files'[k] = files[k]
        BY <1>1, <2>3
      <4>4. QED BY <4>2, <4>3
    <3>3. QED BY <3>1, <3>2
  <2>8. AllReported(n)'
    BY <2>7, RecordsFixed DEF AllReported
  <2>9. QED BY <2>5, <2>6, <2>8
<1>6. QED BY <1>4, <1>5 DEF Mft!Reported, IsSoundRecord

LEMMA ParseMftBootSectorRecords ==
  ASSUME IInv, IsNtfs, MftFits, RecordsInv, Mft!ParseMftBootSector
  PROVE  RecordsInv'
<1>1. /\ pc = "ntfs" /\ files = <<>> /\ start = 0
      /\ UNCHANGED <<vol, stop, files, start, index>>
  BY DEF Mft!ParseMftBootSector, RecordsInv
<1>2. TypesOK /\ Len(vol.records) \in Nat /\ FallbackCount \in Nat
  BY RecordTypes DEF IInv
<1>3. PICK ok \in Mft!ReadResults({0}) :
        IF ok /\ vol.boot
          THEN /\ pc' = "batch"
               /\ \E first \in Mft!ReadResults(Mft!RecordsAt(0, 1)) :
                    count' = IF first /\ Mft!RecordAt(0).file THEN Len(vol.records)
                             ELSE FallbackCount
          ELSE pc' = "done" /\ UNCHANGED count
  BY DEF Mft!ParseMftBootSector
<1>4. CASE ok /\ vol.boot
  <2>1. pc' = "batch"
    BY <1>3, <1>4
  <2>2. PICK first \in Mft!ReadResults(Mft!RecordsAt(0, 1)) :
          count' = IF first /\ Mft!RecordAt(0).file THEN Len(vol.records)
                   ELSE FallbackCount
    BY <1>3, <1>4
  <2>3. count' \in Nat /\ Len(vol.records) <= count'
    <3>1. CASE first /\ Mft!RecordAt(0).file
      BY <1>2, <2>2, <3>1
    <3>2. CASE ~(first /\ Mft!RecordAt(0).file)
      <4>1. Len(vol.records) <= FallbackCount
        BY <3>2, SoundReads DEF MftFits
      <4>2. QED BY <1>2, <2>2, <3>2, <4>1
    <3>3. QED BY <3>1, <3>2
  <2>4. Ascending'
    BY <1>1 DEF Ascending
  <2>5. AllReported(0)'
    BY <1>1, <1>2 DEF AllReported
  <2>6. Position' = 0
    BY <1>1, <2>1 DEF Position
  <2>7. AllReported(Position)'
    BY <2>5, <2>6 DEF AllReported
  <2>8. QED BY <1>1, <2>1, <2>3, <2>4, <2>7 DEF RecordsInv, Undisturbed
<1>5. CASE ~(ok /\ vol.boot)
  <2>1. pc' = "done" /\ UNCHANGED count
    BY <1>3, <1>5
  <2>2. ~Undisturbed'
    <3>1. 0 \in Unsound \/ ~vol.boot
      BY <1>5 DEF Mft!ReadResults, Unsound
    <3>2. QED BY <1>1, <3>1 DEF Undisturbed, Unsound
  <2>3. QED BY <2>1, <2>2 DEF RecordsInv
<1>6. QED BY <1>4, <1>5

LEMMA ReadBatchRecords ==
  ASSUME IInv, IsNtfs, RecordsInv, Mft!ReadBatch
  PROVE  RecordsInv'
<1>1. /\ pc = "batch" /\ start < count /\ ~stop /\ pc' \in {"records", "singles"}
      /\ index' = start /\ UNCHANGED <<vol, stop, files, count, start>>
  BY DEF Mft!ReadBatch
<1>2. start \in Nat /\ count \in Nat /\ BatchRecords \in Nat \ {0}
  BY RecordTypes DEF IInv, RecordsInv
<1>3. Position' = Position
  BY <1>1 DEF Position
<1>4. Ascending'
  BY <1>1, <1>3 DEF RecordsInv, Ascending
<1>5. AllReported(Position)'
  BY <1>1, <1>3, RecordsFixed DEF RecordsInv, AllReported
<1>6. start' < count' /\ start' <= index' /\ index' <= Mft!BatchEnd'
  BY <1>1, <1>2 DEF Mft!BatchEnd
<1>7. QED BY <1>1, <1>4, <1>5, <1>6 DEF RecordsInv, Undisturbed

LEMMA EnumerationStopsRecords ==
  ASSUME IInv, IsNtfs, RecordsInv, Mft!EnumerationStops
  PROVE  RecordsInv'
<1>1. /\ pc = "batch" /\ (start >= count \/ stop) /\ pc' = "done"
      /\ UNCHANGED <<vol, stop, files, count, start, index>>
  BY DEF Mft!EnumerationStops
<1>2. start \in Nat /\ count \in Nat /\ Len(vol.records) \in Nat
  BY RecordTypes DEF IInv, RecordsInv
<1>3. ~stop => AllReported(Len(vol.records))
  <2>1. SUFFICES ASSUME ~stop PROVE AllReported(Len(vol.records))
    OBVIOUS
  <2>2. Len(vol.records) <= start /\ AllReported(start)
    BY <1>1, <1>2, <2>1 DEF RecordsInv, Position
  <2>3. \A i \in 0..(Len(vol.records) - 1) : i < start
    BY <1>2, <2>2
  <2>4. QED BY <2>2, <2>3 DEF AllReported
<1>4. \A j, k \in DOMAIN files : files[j].mft_id = files[k].mft_id => j = k
  BY <1>1 DEF RecordsInv, Ascending
<1>5. Undisturbed' => AllReported(Len(vol.records))'
  BY <1>1, <1>3, RecordsFixed DEF AllReported, Undisturbed
<1>6. QED BY <1>1, <1>4, <1>5 DEF RecordsInv

LEMMA ProcessRecordRecords ==
  ASSUME IInv, IsNtfs, RecordsInv, Mft!ProcessRecord \/ Mft!ProcessSingleRecord
  PROVE  RecordsInv'
<1>1. /\ pc \in {"records", "singles"} /\ index < Mft!BatchEnd /\ ~stop
      /\ index' = index + 1 /\ UNCHANGED <<vol, pc, stop, count, start>>
  BY DEF Mft!ProcessRecord, Mft!ProcessSingleRecord
<1>2. \/ files' = Mft!Reported(index)
      \/ files' = files /\ ~(Mft!RecordsAt(index, 1) \cap Unsound = {})
  BY SoundReads DEF Mft!ProcessRecord, Mft!ProcessSingleRecord
<1>3. /\ TypesOK /\ start \in Nat /\ index \in Nat /\ count \in Nat
      /\ BatchRecords \in Nat \ {0}
  BY RecordTypes DEF IInv, RecordsInv
<1>4. Position = index /\ Position' = index + 1
  BY <1>1 DEF Position
<1>5. /\ AllReported(index)
      /\ \A k \in DOMAIN files : files[k].mft_id < index
      /\ \A j, k \in DOMAIN files : files[j].mft_id = files[k].mft_id => j = k
  BY <1>1, <1>4 DEF RecordsInv, Ascending
<1>6. PICK n : n = index + 1
  OBVIOUS
<1>7. /\ AllReported(n)'
      /\ \A k \in DOMAIN files' : files'[k].mft_id < n
      /\ \A j, k \in DOMAIN files' : files'[j].mft_id = files'[k].mft_id => j = k
  BY <1>1, <1>2, <1>3, <1>5, <1>6, RecordTold
<1>8. Ascending'
  BY <1>4, <1>6, <1>7 DEF Ascending
<1>9. AllReported(Position)'
  BY <1>4, <1>6, <1>7 DEF AllReported
<1>10. start' < count' /\ start' <= index' /\ index' <= Mft!BatchEnd'
  BY <1>1, <1>3 DEF Mft!BatchEnd, RecordsInv
<1>11. QED BY <1>1, <1>3, <1>8, <1>9, <1>10 DEF RecordsInv, Undisturbed

LEMMA BatchDoneRecords ==
  ASSUME IInv, IsNtfs, RecordsInv, Mft!BatchDone
  PROVE  RecordsInv'
<1>1. /\ pc \in {"records", "singles"} /\ (index >= Mft!BatchEnd \/ stop)
      /\ start' = start + BatchRecords /\ pc' = "batch"
      /\ UNCHANGED <<vol, stop, files, count, index>>
  BY DEF Mft!BatchDone
<1>2. /\ start \in Nat /\ index \in Nat /\ count \in Nat /\ BatchRecords \in Nat \ {0}
      /\ Len(vol.records) \in Nat /\ Len(vol.records) <= count
      /\ index <= Mft!BatchEnd
  BY <1>1, RecordTypes DEF IInv, RecordsInv
<1>3. Position = index /\ Position' = start + BatchRecords
  BY <1>1 DEF Position
<1>4. index <= start + BatchRecords
  BY <1>2 DEF Mft!BatchEnd
<1>5. Ascending'
  <2>1. \A k \in DOMAIN files : files[k].mft_id \in Nat
    <3>1. TAKE k \in DOMAIN files
    <3>2. files[k] \in MftFiles
      BY RecordTypes, ElementOfSeq DEF IInv
    <3>3. QED BY <1>2, <3>2 DEF MftFiles, Mft!FileOf
  <2>2. \A k \in DOMAIN files : files[k].mft_id < index
    BY <1>1, <1>3 DEF RecordsInv, Ascending
  <2>3. \A k \in DOMAIN files : files[k].mft_id < start + BatchRecords
    BY <1>2, <1>4, <2>1, <2>2
  <2>4. QED BY <1>1, <1>3, <2>3 DEF RecordsInv, Ascending
<1>6. ~stop => AllReported(start + BatchRecords)
  <2>1. SUFFICES ASSUME ~stop PROVE AllReported(start + BatchRecords)
    OBVIOUS
  <2>2. AllReported(index) /\ index >= Mft!BatchEnd
    BY <1>1, <1>3, <2>1 DEF RecordsInv
  <2>3. \A i \in 0..(Len(vol.records) - 1) : i < start + BatchRecords => i < index
    BY <1>2, <2>2 DEF Mft!BatchEnd
  <2>4. QED BY <2>2, <2>3 DEF AllReported
<1>7. ~stop => AllReported(Position)'
  BY <1>1, <1>3, <1>6, RecordsFixed DEF AllReported
<1>8. QED BY <1>1, <1>2, <1>5, <1>7 DEF RecordsInv, Undisturbed

LEMMA StepRecords ==
  ASSUME IInv, RecordsOK, [Next]_vars
  PROVE  RecordsOK'
<1>1. vol' = vol
  BY DEF Next, Parse, vars, DetectFilesystem, RequestStop, Fat!FatNext, Mft!MftNext,
     Fat!ParseBootSector, Fat!ReadRootDirectory, Fat!FollowChain, Fat!OutOfMemory,
     Fat!ChainOfFileEnds, Fat!DirectoryChainEnds, Fat!LongNameEntry, Fat!DirectoryEntry, Fat!FileEntry,
     Fat!OtherEntry, Fat!DirectoryDone, Mft!ParseMftBootSector, Mft!ReadBatch,
     Mft!EnumerationStops, Mft!ProcessRecord, Mft!ProcessSingleRecord, Mft!BatchDone
<1>2. SUFFICES ASSUME IsNtfs, MftFits, RecordsInv
               PROVE  RecordsInv'
  BY <1>1, RecordsFixed DEF RecordsOK
<1>3. CASE Mft!MftNext
  BY <1>2, <1>3, ParseMftBootSectorRecords, ReadBatchRecords, EnumerationStopsRecords,
     ProcessRecordRecords, BatchDoneRecords DEF Mft!MftNext
<1>4. CASE DetectFilesystem
  <2>1. /\ pc = "detect" /\ pc' \in {"ntfs", "raw"}
        /\ UNCHANGED <<files, start, count>>
    BY <1>2, <1>4 DEF DetectFilesystem, Detected, IsNtfs, FatKinds, mftVars
  <2>2. QED BY <1>2, <2>1 DEF RecordsInv, Undisturbed
<1>5. CASE RequestStop
  <2>1. /\ stop' = TRUE /\ UNCHANGED <<vol, pc, files, count, start, index>>
    BY <1>5 DEF RequestStop, mftVars
  <2>2. Ascending' = Ascending /\ Mft!BatchEnd' = Mft!BatchEnd
    BY <2>1 DEF Ascending, Position, Mft!BatchEnd
  <2>3. QED BY <1>2, <2>1, <2>2 DEF RecordsInv, Undisturbed
<1>6. CASE UNCHANGED vars
  <2>1. UNCHANGED <<vol, pc, stop, files, count, start, index>>
    BY <1>6 DEF vars
  <2>2. /\ Ascending' = Ascending /\ Mft!BatchEnd' = Mft!BatchEnd
        /\ Position' = Position /\ Undisturbed' = Undisturbed
    BY <2>1 DEF Ascending, Position, Mft!BatchEnd, Undisturbed, Unsound
  <2>3. \A n : AllReported(n)' <=> AllReported(n)
    BY <2>1, RecordsFixed DEF AllReported
  <2>4. QED BY <1>2, <2>1, <2>2, <2>3 DEF RecordsInv
<1>7. CASE Fat!FatNext
  <2>1. pc \in OnFat
    BY <1>7 DEF Fat!FatNext, Fat!ParseBootSector, Fat!ReadRootDirectory, Fat!FollowChain,
       Fat!OutOfMemory, Fat!ChainOfFileEnds, Fat!DirectoryChainEnds, Fat!LongNameEntry, Fat!DirectoryEntry,
       Fat!FileEntry, Fat!OtherEntry, Fat!DirectoryDone, Fat!AtEntry, OnFat
  <2>2. QED BY <1>2, <2>1, RecordTypes DEF IInv, TypesOK
<1>8. QED BY <1>3, <1>4, <1>5, <1>6, <1>7 DEF Next, Parse

LEMMA InitRecords ==
  ASSUME Init, MftFits
  PROVE  RecordsOK
<1>1. pc = "detect" /\ files = <<>> /\ start = 0 /\ count = 0
  BY DEF Init, Mft!MftInit
<1>2. QED BY <1>1 DEF RecordsOK, RecordsInv, Undisturbed

\* At the end of an enumeration that nobody stopped, every record of an NTFS
\* volume that can be read and holds a file with data was reported, exactly
\* once, also when the batch around it could not be read (mft_parser.cpp:158).
THEOREM RecordsReported ==
  Spec /\ MftFits => [](Undisturbed => SoundRecordsAreReported)
<1>1. Init /\ MftFits => RecordsOK
  BY InitRecords
<1>2. IInv /\ RecordsOK /\ [Next]_vars => RecordsOK'
  BY StepRecords
<1>3. IInv /\ RecordsOK => (Undisturbed => SoundRecordsAreReported)
  <2>1. SUFFICES ASSUME IInv, RecordsOK, Undisturbed, IsNtfs,
                        NEW i \in 0..(Len(vol.records) - 1), IsSoundRecord(i)
                 PROVE  TimesReportedRecord(i) = 1
    BY DEF SoundRecordsAreReported
  <2>2. /\ AllReported(Len(vol.records)) /\ Len(vol.records) \in Nat
        /\ \A j, k \in DOMAIN files : files[j].mft_id = files[k].mft_id => j = k
    BY <2>1, RecordTypes DEF IInv, RecordsOK, RecordsInv
  <2>3. i < Len(vol.records)
    BY <2>2
  <2>4. PICK k \in DOMAIN files : files[k].mft_id = i
    BY <2>1, <2>2, <2>3 DEF AllReported
  <2>5. {j \in DOMAIN files : files[j].mft_id = i} = {k}
    BY <2>2, <2>4
  <2>6. QED BY <2>5, FS_Singleton DEF TimesReportedRecord
<1>4. QED BY <1>1, <1>2, <1>3, Inductive, PTL DEF Spec

----------------------------------------------------------------------------
(* The open directories, and the entry of each that is being followed.     *)

\* The walk begins with the cluster b, or began with one that was followed.
IsWalkFrom(b) == IF walk.run = 0 THEN walk.cluster = b ELSE IsLink(b)

IsPending(i) == stack[i].next - 1 \in DOMAIN stack[i].entries
Pending(i) == stack[i].entries[stack[i].next - 1]

\* Below the top of the stack every directory waits for the one that its last
\* entry opened; while a chain is read so does the one on the top.
NestOK ==
  /\ \A i \in DOMAIN stack : i < Len(stack) => IsPending(i) /\ IsDirEntry(Pending(i))
  /\ pc = "chain" /\ walk.file # <<>> =>
       /\ stack # <<>> /\ IsPending(Len(stack)) /\ IsFileEntry(Pending(Len(stack)))
       /\ walk.file[1].entry = Pending(Len(stack))
  /\ pc = "chain" /\ walk.file = <<>> =>
       IF stack = <<>> THEN vol.fs = "fat32" /\ IsWalkFrom(vol.root)
       ELSE /\ IsPending(Len(stack)) /\ IsDirEntry(Pending(Len(stack)))
            /\ IsWalkFrom(Pending(Len(stack)).cluster)

LEMMA StackType ==
  ASSUME IInv
  PROVE  /\ stack \in Seq(Frames) /\ Len(stack) \in Nat /\ DOMAIN stack = 1..Len(stack)
         /\ \A i \in 1..Len(stack) :
              /\ stack[i] \in Frames /\ stack[i].entries \in Seq(Entries)
              /\ stack[i].next \in Nat \ {0}
              /\ DOMAIN stack[i].entries = 1..Len(stack[i].entries)
              /\ Len(stack[i].entries) \in Nat
         /\ stack = <<>> <=> Len(stack) = 0
<1>1. stack \in Seq(Frames)
  BY DEF IInv, TypesOK
<1>2. \A i \in 1..Len(stack) : stack[i] \in Frames
  BY <1>1, ElementOfSeq
<1>3. \A f \in Frames : /\ f.entries \in Seq(Entries) /\ f.next \in Nat \ {0}
                        /\ DOMAIN f.entries = 1..Len(f.entries) /\ Len(f.entries) \in Nat
  BY LenProperties DEF Frames
<1>4. QED BY <1>1, <1>2, <1>3, LenProperties, EmptySeq

LEMMA BelowTop ==
  ASSUME IInv, stack # <<>>
  PROVE  LET n == Len(stack)
         IN /\ Fat!Top = stack[n] /\ n \in Nat \ {0}
            /\ Fat!Below \in Seq(Frames) /\ Len(Fat!Below) = n - 1
            /\ DOMAIN Fat!Below = 1..(n - 1)
            /\ \A i \in 1..(n - 1) : Fat!Below[i] = stack[i]
            /\ \A f \in Frames :
                 /\ Len(Append(Fat!Below, f)) = n /\ DOMAIN Append(Fat!Below, f) = 1..n
                 /\ Append(Fat!Below, f)[n] = f
                 /\ \A i \in 1..(n - 1) : Append(Fat!Below, f)[i] = stack[i]
<1> DEFINE n == Len(stack)
           t == Fat!Below
<1>1. TypesOK /\ DepthOK /\ n \in Nat \ {0} /\ \A i \in 1..n : stack[i] \in Frames
  BY StackType, EmptySeq DEF IInv
<1>2. t \in Seq(Frames) /\ Len(t) = n - 1 /\ DOMAIN t = 1..(n - 1)
  BY <1>1, TopOfStack, LenProperties
<1>3. Fat!Top = stack[n] /\ t = SubSeq(stack, 1, n - 1)
  BY DEF Fat!Top, Fat!Below, Fat!Last, Fat!Front
<1>4. \A i \in 1..(n - 1) : t[i] = stack[i]
  <2>1. n - 1 \in Int /\ \A i \in 1..(n - 1) : stack[i] \in Frames
    BY <1>1
  <2>2. \A i \in 1..((n - 1) - 1 + 1) : SubSeq(stack, 1, n - 1)[i] = stack[1 + i - 1]
    BY <1>1, <2>1, SubSeqProperties, StackType
  <2> HIDE DEF n, t
  <2>3. QED BY <1>1, <1>3, <2>2
<1> HIDE DEF n, t
<1>5. ASSUME NEW f \in Frames
      PROVE  /\ Len(Append(t, f)) = n /\ DOMAIN Append(t, f) = 1..n
             /\ Append(t, f)[n] = f
             /\ \A i \in 1..(n - 1) : Append(t, f)[i] = stack[i]
  <2>1. /\ Len(Append(t, f)) = (n - 1) + 1 /\ DOMAIN Append(t, f) = 1..((n - 1) + 1)
        /\ Append(t, f)[(n - 1) + 1] = f
        /\ \A i \in 1..(n - 1) : Append(t, f)[i] = t[i]
    BY <1>2, <1>5, AppendLast
  <2>2. (n - 1) + 1 = n
    BY <1>1
  <2>3. QED BY <1>4, <2>1, <2>2
<1>6. QED BY <1>1, <1>2, <1>3, <1>4, <1>5 DEF n, t

\* An entry is passed: the directory on the top moves on.
LEMMA TopMoves ==
  ASSUME IInv,
         Fat!LongNameEntry \/ Fat!DirectoryEntry \/ Fat!FileEntry \/ Fat!OtherEntry
  PROVE  LET n == Len(stack)
         IN /\ n \in Nat \ {0} /\ DOMAIN stack = 1..n
            /\ Len(stack') = n /\ DOMAIN stack' = 1..n
            /\ \A i \in 1..(n - 1) : stack'[i] = stack[i]
            /\ stack'[n].entries = stack[n].entries
            /\ stack'[n].next = stack[n].next + 1
            /\ stack[n].next \in DOMAIN stack[n].entries /\ stack[n].next \in Nat \ {0}
            /\ Fat!Entry = stack[n].entries[stack[n].next] /\ Fat!Entry \in Entries
            /\ pc = "entry" /\ UNCHANGED <<vol, stop, files>>
<1> DEFINE n == Len(stack)
<1>1. Fat!AtEntry /\ UNCHANGED <<vol, stop, files>> /\ pc = "entry"
  BY DEF Fat!LongNameEntry, Fat!DirectoryEntry, Fat!FileEntry, Fat!OtherEntry, Fat!AtEntry
<1>2. stack # <<>> /\ Fat!Entry \in Entries /\ Fat!Top = stack[n] /\ n \in Nat \ {0}
  BY <1>1, EntryType, BelowTop DEF IInv
<1>3. stack[n] \in Frames /\ DOMAIN stack = 1..n /\ n \in 1..n /\ stack[n].next \in Nat \ {0}
  BY <1>2, StackType
<1>4. stack[n].next \in DOMAIN stack[n].entries
  BY <1>1, <1>2 DEF Fat!AtEntry, Fat!AtEnd
<1>5. \E f \in Frames : /\ f.entries = stack[n].entries /\ f.next = stack[n].next + 1
                        /\ stack' = Append(Fat!Below, f)
  <2>1. CASE stack' = Fat!Stepped
    <3> DEFINE f == [Fat!Top EXCEPT !.next = @ + 1, !.long = <<>>, !.valid = FALSE]
    <3>1. stack' = Append(Fat!Below, f)
      BY <2>1 DEF Fat!Stepped
    <3> DEFINE t == Fat!Top
    <3>2. t \in Frames /\ t = stack[n] /\ t.next + 1 \in Nat \ {0}
      BY <1>2, <1>3
    <3>3. <<>> \in Seq(Names) /\ FALSE \in BOOLEAN
      OBVIOUS
    <3> HIDE DEF t, n
    <3>4. f \in Frames /\ f.entries = t.entries /\ f.next = t.next + 1
      BY <3>2, <3>3 DEF Frames, t
    <3> HIDE DEF f
    <3>5. QED BY <3>1, <3>2, <3>4
  <2>2. CASE Fat!LongNameEntry
    <3> DEFINE e == Fat!Entry
               t == Fat!Top
               seq == IF e.gone THEN 37 ELSE e.seq
               long == IF seq = 1 THEN <<e.name>>
                       ELSE IF seq # 0 /\ t.valid THEN <<e.name>> \o t.long
                       ELSE t.long
               f == [t EXCEPT !.next = @ + 1, !.long = long,
                              !.valid = seq # 0 /\ (seq = 1 \/ @)]
    <3>1. stack' = Append(Fat!Below, f)
      BY <2>2 DEF Fat!LongNameEntry
    <3>2. t = stack[n] /\ t \in Frames /\ e.name \in Names
      BY <1>1, <1>2, <1>3, EntryType DEF IInv
    <3> HIDE DEF t, e, n
    <3>3. <<e.name>> \in Seq(Names) /\ t.long \in Seq(Names) /\ t.next + 1 \in Nat \ {0}
          /\ t.valid \in BOOLEAN
      BY <3>2 DEF Frames
    <3>4. long \in Seq(Names)
      BY <3>3, ConcatProperties
    <3> HIDE DEF long
    <3>5. (seq # 0 /\ (seq = 1 \/ t.valid)) \in BOOLEAN
      OBVIOUS
    <3>6. f \in Frames /\ f.entries = t.entries /\ f.next = t.next + 1
      BY <3>2, <3>3, <3>4, <3>5 DEF Frames
    <3> HIDE DEF f
    <3>7. QED BY <3>1, <3>2, <3>6
  <2>3. QED BY <2>1, <2>2 DEF Fat!DirectoryEntry, Fat!FileEntry, Fat!OtherEntry
<1>6. PICK f \in Frames : /\ f.entries = stack[n].entries /\ f.next = stack[n].next + 1
                          /\ stack' = Append(Fat!Below, f)
  BY <1>5
<1>7. /\ Len(stack') = n /\ DOMAIN stack' = 1..n /\ stack'[n] = f
      /\ \A i \in 1..(n - 1) : stack'[i] = stack[i]
  BY <1>2, <1>6, BelowTop
<1>8. Fat!Entry = stack[n].entries[stack[n].next]
  BY <1>2 DEF Fat!Entry
<1> HIDE DEF n
<1>9. QED BY <1>1, <1>2, <1>3, <1>4, <1>6, <1>7, <1>8 DEF n

\* The end of a directory.
LEMMA TopCloses ==
  ASSUME IInv, Fat!DirectoryDone
  PROVE  LET n == Len(stack)
         IN /\ n \in Nat \ {0} /\ DOMAIN stack = 1..n
            /\ Len(stack') = n - 1 /\ DOMAIN stack' = 1..(n - 1)
            /\ \A i \in 1..(n - 1) : stack'[i] = stack[i]
            /\ \/ stack[n].next \notin DOMAIN stack[n].entries
               \/ stack[n].entries[stack[n].next].attr = "end"
            /\ pc = "entry" /\ pc' = (IF n = 1 THEN "done" ELSE "entry")
            /\ UNCHANGED <<vol, stop, files, walk>>
<1>1. /\ pc = "entry" /\ Fat!AtEnd(Fat!Top) /\ stack' = Fat!Below
      /\ pc' = (IF Fat!Below = <<>> THEN "done" ELSE "entry")
      /\ UNCHANGED <<vol, stop, files, walk>>
  BY DEF Fat!DirectoryDone, Fat!Continue
<1>2. stack # <<>>
  BY <1>1 DEF IInv, DepthOK
<1>3. DOMAIN stack = 1..Len(stack)
  BY StackType
<1>4. Fat!Below = <<>> <=> Len(stack) = 1
  BY <1>2, BelowTop, EmptySeq
<1>5. QED BY <1>1, <1>2, <1>3, <1>4, BelowTop DEF Fat!AtEnd

\* The chain of a directory is over, and it is read as far as it can be.
LEMMA TopOpens ==
  ASSUME IInv, Fat!DirectoryChainEnds
  PROVE  LET n == Len(stack)
             exts == Fat!Closed(walk)
         IN /\ n \in Nat /\ DOMAIN stack = 1..n /\ exts \in Seq(Extents)
            /\ pc = "chain" /\ walk.file = <<>> /\ ~IsLink(walk.cluster)
            /\ UNCHANGED <<vol, stop, files>>
            /\ \/ /\ walk.run = 0 /\ stack' = stack
                  /\ pc' = (IF stack = <<>> THEN "done" ELSE "entry")
               \/ /\ walk.run # 0 /\ pc' = "entry"
                  /\ Len(stack') = n + 1 /\ DOMAIN stack' = 1..(n + 1)
                  /\ \A i \in 1..n : stack'[i] = stack[i]
                  /\ stack'[n + 1].next = 1
                  /\ \E k \in 0..Len(exts) :
                       /\ stack'[n + 1].entries =
                            FlattenSeq([j \in 1..k |-> Fat!ExtentEntries(exts[j])])
                       /\ k < Len(exts) =>
                            Fat!ExtentSectors(exts[k + 1]) \cap Unsound # {}
<1> DEFINE n == Len(stack)
           exts == Fat!Closed(walk)
           read(k) == FlattenSeq([j \in 1..k |-> Fat!ExtentEntries(exts[j])])
           frame(k) == [depth |-> walk.depth, next |-> 1, entries |-> read(k),
                        long |-> <<>>, valid |-> FALSE]
<1>1. /\ pc = "chain" /\ walk.file = <<>> /\ ~Fat!Follows(walk.cluster)
      /\ \E k \in 0..Len(exts) :
           /\ k < Len(exts) => FALSE \in Fat!ReadResults(Fat!ExtentSectors(exts[k + 1]))
           /\ stack' = IF exts = <<>> THEN stack ELSE Append(stack, frame(k))
      /\ pc' = (IF stack' = <<>> THEN "done" ELSE "entry")
      /\ UNCHANGED <<vol, stop, files>>
  BY Instances DEF Fat!DirectoryChainEnds, Fat!Continue
<1>2. /\ walk \in Walks /\ exts \in Seq(Extents) /\ walk.cluster \in Nat
      /\ walk.run \in Nat /\ walk.extents \in Seq(Extents)
      /\ walk.run = 0 => walk.extents = <<>>
  BY <1>1, ClosedType DEF IInv, TypesOK, Walks, WalkOK
<1>3. ~IsLink(walk.cluster)
  BY <1>1, <1>2, LinkFollows
<1>4. exts = <<>> <=> walk.run = 0
  <2>1. CASE walk.run = 0
    BY <1>2, <2>1 DEF Fat!Closed
  <2>2. CASE walk.run # 0
    <3>1. walk.run > 0 /\ [start |-> walk.first, count |-> walk.run] \in Extents
      BY <1>2, <2>2 DEF Walks, Extents
    <3>2. exts # <<>>
      BY <1>2, <3>1, AppendLast DEF Fat!Closed
    <3>3. QED BY <2>2, <3>2
  <2>3. QED BY <2>1, <2>2
<1> HIDE DEF exts
<1>5. PICK k \in 0..Len(exts) :
        /\ k < Len(exts) => FALSE \in Fat!ReadResults(Fat!ExtentSectors(exts[k + 1]))
        /\ stack' = IF exts = <<>> THEN stack ELSE Append(stack, frame(k))
  BY <1>1
<1>6. k < Len(exts) => Fat!ExtentSectors(exts[k + 1]) \cap Unsound # {}
  BY <1>5 DEF Fat!ReadResults, Unsound
<1>7. frame(k).next = 1 /\ frame(k).entries = read(k)
  OBVIOUS
<1> HIDE DEF frame
<1>8. n \in Nat /\ DOMAIN stack = 1..n /\ stack \in Seq(Frames)
  BY StackType
<1>9. CASE walk.run = 0
  BY <1>1, <1>2, <1>3, <1>4, <1>5, <1>8, <1>9 DEF exts
<1>10. CASE walk.run # 0
  <2> DEFINE S == Frames \cup {frame(k)}
  <2>0. Frames \subseteq S /\ frame(k) \in S
    OBVIOUS
  <2>1. stack' = Append(stack, frame(k)) /\ stack \in Seq(S) /\ frame(k) \in S
    <3> HIDE DEF S
    <3>1. QED BY <1>4, <1>5, <1>8, <1>10, <2>0, SeqMonotonic
  <2> HIDE DEF S
  <2>2. /\ Len(stack') = n + 1 /\ DOMAIN stack' = 1..(n + 1) /\ stack' # <<>>
        /\ \A i \in 1..n : stack'[i] = stack[i]
        /\ stack'[n + 1] = frame(k)
    BY <2>1, AppendLast
  <2>3. stack'[n + 1].next = 1 /\ stack'[n + 1].entries = read(k)
    BY <1>7, <2>2
  <2>4. pc' = "entry"
    BY <1>1, <2>2
  <2> HIDE DEF read
  <2>5. \E j \in 0..Len(exts) :
          /\ stack'[n + 1].entries = read(j)
          /\ j < Len(exts) => Fat!ExtentSectors(exts[j + 1]) \cap Unsound # {}
    BY <1>6, <2>3
  <2>6. QED BY <1>1, <1>2, <1>3, <1>8, <1>10, <2>2, <2>3, <2>4, <2>5 DEF exts, read
<1>11. QED BY <1>9, <1>10

LEMMA EntryNest ==
  ASSUME IInv, NestOK,
         Fat!LongNameEntry \/ Fat!DirectoryEntry \/ Fat!FileEntry \/ Fat!OtherEntry
  PROVE  NestOK'
<1> DEFINE n == Len(stack)
           e == Fat!Entry
<1>1. /\ n \in Nat \ {0} /\ DOMAIN stack = 1..n /\ Len(stack') = n /\ DOMAIN stack' = 1..n
      /\ \A i \in 1..(n - 1) : stack'[i] = stack[i]
      /\ stack'[n].entries = stack[n].entries /\ stack'[n].next = stack[n].next + 1
      /\ stack[n].next \in DOMAIN stack[n].entries /\ stack[n].next \in Nat \ {0}
      /\ e = stack[n].entries[stack[n].next] /\ pc = "entry"
  BY TopMoves
<1> HIDE DEF n
<1>2. \A i \in 1..n : i < n => IsPending(i)' /\ IsDirEntry(Pending(i))'
  <2>1. TAKE i \in 1..n
  <2>2. HAVE i < n
  <2>3. i \in 1..(n - 1)
    BY <1>1, <2>2
  <2>4. IsPending(i) /\ IsDirEntry(Pending(i))
    BY <1>1, <2>2 DEF NestOK, n
  <2>5. QED BY <1>1, <2>3, <2>4 DEF IsPending, Pending, IsDirEntry
<1>3. IsPending(n)' /\ Pending(n)' = e
  <2>1. (stack[n].next + 1) - 1 = stack[n].next
    BY <1>1
  <2>2. n' = n
    BY <1>1 DEF n
  <2>3. QED BY <1>1, <2>1, <2>2 DEF IsPending, Pending
<1>4. stack' # <<>>
  BY <1>1
<1>5. CASE Fat!DirectoryEntry /\ pc' = "chain"
  <2>1. IsDirEntry(e) /\ walk' = Fat!ChainOfDirectory(e.cluster, Fat!Top.depth + 1)
    BY <1>1, <1>5 DEF Fat!DirectoryEntry, IsDirEntry
  <2>2. walk'.file = <<>> /\ walk'.run = 0 /\ walk'.cluster = e.cluster
    BY <2>1 DEF Fat!ChainOfDirectory, Fat!NoWalk
  <2>3. QED BY <1>1, <1>2, <1>3, <1>4, <2>1, <2>2 DEF NestOK, IsWalkFrom, n
<1>6. CASE Fat!FileEntry
  <2>1. /\ IsFileEntry(e) /\ pc' = "chain"
        /\ walk' = Fat!ChainOfFile(e.cluster, [name |-> Fat!NameOfEntry,
                     damaged |-> e.gone, entry |-> e])
    BY <1>6 DEF Fat!FileEntry, IsFileEntry
  <2>2. walk'.file # <<>> /\ walk'.file[1].entry = e
    BY <2>1 DEF Fat!ChainOfFile, Fat!NoWalk
  <2>3. QED BY <1>1, <1>2, <1>3, <1>4, <2>1, <2>2 DEF NestOK, n
<1>7. CASE pc' # "chain"
  BY <1>1, <1>2, <1>7 DEF NestOK, n
<1>8. Fat!FileEntry \/ (Fat!DirectoryEntry /\ pc' = "chain") \/ pc' # "chain"
  BY <1>1 DEF Fat!LongNameEntry, Fat!DirectoryEntry, Fat!OtherEntry
<1>9. QED BY <1>5, <1>6, <1>7, <1>8

LEMMA DirectoryDoneNest ==
  ASSUME IInv, NestOK, Fat!DirectoryDone
  PROVE  NestOK'
<1> DEFINE n == Len(stack)
<1>1. /\ n \in Nat \ {0} /\ DOMAIN stack = 1..n
      /\ Len(stack') = n - 1 /\ DOMAIN stack' = 1..(n - 1)
      /\ \A i \in 1..(n - 1) : stack'[i] = stack[i]
      /\ pc' # "chain"
  BY TopCloses
<1>2. \A i \in 1..(n - 1) : i < n => IsPending(i)' /\ IsDirEntry(Pending(i))'
  <2>1. TAKE i \in 1..(n - 1)
  <2>2. HAVE i < n
  <2>3. IsPending(i) /\ IsDirEntry(Pending(i))
    BY <1>1, <2>2 DEF NestOK
  <2> HIDE DEF n
  <2>4. QED BY <1>1, <2>3 DEF IsPending, Pending, IsDirEntry
<1>3. \A i \in 1..(n - 1) : i < n - 1 => i < n
  BY <1>1
<1> HIDE DEF n
<1>4. QED BY <1>1, <1>2, <1>3 DEF NestOK

LEMMA DirectoryChainEndsNest ==
  ASSUME IInv, NestOK, Fat!DirectoryChainEnds
  PROVE  NestOK'
<1> DEFINE n == Len(stack)
<1>1. /\ n \in Nat /\ DOMAIN stack = 1..n /\ pc = "chain" /\ walk.file = <<>>
      /\ \/ stack' = stack /\ pc' # "chain"
         \/ /\ pc' # "chain" /\ Len(stack') = n + 1 /\ DOMAIN stack' = 1..(n + 1)
            /\ \A i \in 1..n : stack'[i] = stack[i]
  BY TopOpens
<1>2. \A i \in 1..n : IsPending(i) /\ IsDirEntry(Pending(i))
  <2>1. TAKE i \in 1..n
  <2>2. i < n \/ i = n
    <3> HIDE DEF n
    <3>1. QED BY <1>1
  <2>3. stack # <<>>
    BY <1>1
  <2>4. QED BY <1>1, <2>2, <2>3 DEF NestOK
<1> HIDE DEF n
<1>3. CASE stack' = stack /\ pc' # "chain"
  <2>1. DOMAIN stack' = 1..n
    BY <1>1, <1>3
  <2>2. \A i \in 1..n : IsPending(i)' /\ IsDirEntry(Pending(i))'
    BY <1>2, <1>3 DEF IsPending, Pending, IsDirEntry
  <2>3. QED BY <1>3, <2>1, <2>2 DEF NestOK
<1>4. CASE /\ pc' # "chain" /\ Len(stack') = n + 1 /\ DOMAIN stack' = 1..(n + 1)
           /\ \A i \in 1..n : stack'[i] = stack[i]
  <2>1. \A i \in 1..n : IsPending(i)' /\ IsDirEntry(Pending(i))'
    BY <1>2, <1>4 DEF IsPending, Pending, IsDirEntry
  <2>2. \A i \in DOMAIN stack' : i < Len(stack') => i \in 1..n
    BY <1>1, <1>4
  <2>3. QED BY <1>4, <2>1, <2>2 DEF NestOK
<1>5. QED BY <1>1, <1>3, <1>4

LEMMA StepNest ==
  ASSUME IInv, NestOK, [Next]_vars
  PROVE  NestOK'
<1>1. CASE Fat!FollowChain
  <2>1. /\ pc = "chain" /\ UNCHANGED <<vol, pc, stack>> /\ walk'.file = walk.file
        /\ walk'.run # 0 /\ IsLink(walk.cluster)
    BY <1>1, PathStep DEF Fat!FollowChain
  <2>2. \A b : IsWalkFrom(b) => IsWalkFrom(b)'
    BY <2>1 DEF IsWalkFrom, IsLink
  <2>3. QED BY <2>1, <2>2 DEF NestOK, IsPending, Pending, IsDirEntry, IsFileEntry
<1>2. CASE Fat!LongNameEntry \/ Fat!DirectoryEntry \/ Fat!FileEntry \/ Fat!OtherEntry
  BY <1>2, EntryNest
<1>3. CASE Fat!DirectoryDone
  BY <1>3, DirectoryDoneNest
<1>4. CASE Fat!DirectoryChainEnds
  BY <1>4, DirectoryChainEndsNest
<1>5. CASE Fat!ParseBootSector
  <2>1. stack = <<>> /\ stack' = stack
    BY <1>5 DEF Fat!ParseBootSector, IInv, DepthOK
  <2>2. CASE pc' # "chain"
    BY <2>1, <2>2 DEF NestOK
  <2>3. CASE pc' = "chain"
    <3>1. vol.fs = "fat32" /\ walk' = Fat!ChainOfDirectory(vol.root, 0) /\ vol' = vol
      BY <1>5, <2>3 DEF Fat!ParseBootSector
    <3>2. walk'.file = <<>> /\ walk'.run = 0 /\ walk'.cluster = vol.root
      BY <3>1 DEF Fat!ChainOfDirectory, Fat!NoWalk
    <3>3. QED BY <2>1, <3>1, <3>2 DEF NestOK, IsWalkFrom
  <2>4. QED BY <2>2, <2>3
<1>6. CASE Fat!ReadRootDirectory
  <2>1. stack = <<>> /\ pc' # "chain" /\ (stack' = stack \/ (Len(stack') = 1 /\ DOMAIN stack' = 1..1))
    BY <1>6 DEF Fat!ReadRootDirectory, IInv, DepthOK
  <2>2. \A i \in DOMAIN stack' : ~(i < Len(stack'))
    <3>1. CASE stack' = stack
      BY <2>1, <3>1
    <3>2. CASE Len(stack') = 1 /\ DOMAIN stack' = 1..1
      BY <3>2
    <3>3. QED BY <2>1, <3>1, <3>2
  <2>3. QED BY <2>1, <2>2 DEF NestOK
<1>7. CASE \/ DetectFilesystem \/ RequestStop \/ UNCHANGED vars
           \/ (Mft!MftNext /\ UNCHANGED fatVars) \/ Fat!ChainOfFileEnds \/ Fat!OutOfMemory
  <2>1. /\ stack' = stack
        /\ pc' # "chain" \/ UNCHANGED <<vol, pc, walk>>
    <3>1. CASE DetectFilesystem
      <4>1. Detected \in {"ntfs", "fat", "raw"}
        BY DEF Detected
      <4>2. QED BY <3>1, <4>1 DEF DetectFilesystem, fatVars
    <3>2. CASE RequestStop \/ UNCHANGED vars
      BY <3>2 DEF RequestStop, vars, fatVars
    <3>3. CASE Mft!MftNext /\ UNCHANGED fatVars
      BY <3>3 DEF fatVars, Mft!MftNext, Mft!ParseMftBootSector, Mft!ReadBatch,
         Mft!EnumerationStops, Mft!ProcessRecord, Mft!ProcessSingleRecord, Mft!BatchDone
    <3>4. CASE Fat!ChainOfFileEnds \/ Fat!OutOfMemory
      BY <3>4 DEF Fat!ChainOfFileEnds, Fat!Continue, Fat!OutOfMemory
    <3>5. QED BY <1>7, <3>1, <3>2, <3>3, <3>4
  <2>2. \A i : IsPending(i)' = IsPending(i) /\ Pending(i)' = Pending(i)
    BY <2>1 DEF IsPending, Pending
  <2>3. CASE pc' # "chain"
    BY <2>1, <2>2, <2>3 DEF NestOK
  <2>4. CASE UNCHANGED <<vol, pc, walk>>
    <3>1. \A b : IsWalkFrom(b)' <=> IsWalkFrom(b)
      BY <2>4 DEF IsWalkFrom, IsLink
    <3>2. QED BY <2>1, <2>2, <2>4, <3>1 DEF NestOK
  <2>5. QED BY <2>1, <2>3, <2>4
<1>8. QED BY <1>1, <1>2, <1>3, <1>4, <1>5, <1>6, <1>7 DEF Next, Parse, Fat!FatNext

----------------------------------------------------------------------------
(* What is read of a directory, and what lies ahead on its chain.          *)

\* The entries in these extents, and in the clusters of this chain.
Reads(t) == FlattenSeq([j \in 1..Len(t) |-> Fat!ExtentEntries(t[j])])
Along(ch) == FlattenSeq([k \in DOMAIN ch |-> Dir(ch[k])])

\* Every cluster of the table is one of the volume, of which 32 bits can number
\* the sectors, and so is the one to which it leads.
TableIsWhole ==
  IsFat =>
    /\ IsFiniteSet(DOMAIN vol.next)
    /\ \A c \in DOMAIN vol.next :
         /\ c \in Nat /\ IsLink(c) /\ Fits(c) /\ SectorOf(c) \in DOMAIN vol.dir
         /\ IsLink(vol.next[c]) => vol.next[c] \in DOMAIN vol.next

LEMMA FlattenAppend ==
  ASSUME NEW S, NEW s \in Seq(Seq(S)), NEW t \in Seq(S)
  PROVE  FlattenSeq(Append(s, t)) = FlattenSeq(s) \o t
<1> DEFINE n == Len(s)
           u == Append(s, t)
<1>1. n \in Nat /\ \A i \in 1..n : s[i] \in Seq(S)
  BY LenProperties, ElementOfSeq
<1>2. /\ u \in Seq(Seq(S)) /\ Len(u) = n + 1 /\ u[n + 1] = t
      /\ \A i \in 1..n : u[i] = s[i]
  BY AppendProperties
<1>3. CASE n = 0
  <2>1. s = <<>> /\ u = <<t>>
    BY <1>3, EmptySeq
  <2>2. FlattenSeq(s) = <<>>
    BY <2>1 DEF FlattenSeq
  <2>3. FlattenSeq(u) = t
    BY <2>1, FlattenOne
  <2> HIDE DEF u
  <2>4. QED BY <2>2, <2>3, ConcatEmptySeq DEF u
<1>4. CASE n # 0
  <2> HIDE DEF n, u
  <2>1. n \in Nat \ {0} /\ n + 1 \in Nat \ {0} /\ Len(s) = n
    BY <1>1, <1>4 DEF n
  <2>2. PICK f : /\ f[1] = s[1] /\ FlattenSeq(s) = f[n]
                 /\ \A i \in 2..n : f[i] = f[i - 1] \o s[i]
    BY <2>1, FlattenSteps
  <2>3. PICK g : /\ g[1] = u[1] /\ FlattenSeq(u) = g[n + 1]
                 /\ \A i \in 2..(n + 1) : g[i] = g[i - 1] \o u[i]
    BY <1>2, <2>1, FlattenSteps
  <2> DEFINE T == {i \in 1..n : g[i] # f[i]}
  <2>4. T = {}
    <3>1. SUFFICES ASSUME T # {} PROVE FALSE
      OBVIOUS
    <3>2. PICK i \in T : \A k \in T : i <= k
      <4>1. T \in SUBSET Nat
        BY <2>1
      <4> HIDE DEF T
      <4>2. QED BY <3>1, <4>1, LeastNat
    <3>3. i \in 1..n /\ g[i] # f[i]
      BY <3>2
    <3>4. i # 1
      BY <1>2, <2>1, <2>2, <2>3, <3>3
    <3>5. i \in 2..n /\ i \in 2..(n + 1) /\ i - 1 \in 1..n /\ ~(i <= i - 1)
      BY <2>1, <3>3, <3>4
    <3>6. g[i - 1] = f[i - 1]
      BY <3>2, <3>5
    <3>7. QED BY <1>2, <2>2, <2>3, <3>3, <3>5, <3>6
  <2>5. n \in 1..n /\ n + 1 \in 2..(n + 1) /\ (n + 1) - 1 = n
    BY <2>1
  <2>6. g[n] = f[n]
    BY <2>4, <2>5
  <2> HIDE DEF T
  <2>7. g[n + 1] = g[n] \o t
    BY <1>2, <2>3, <2>5
  <2>8. QED BY <2>2, <2>3, <2>6, <2>7 DEF u
<1>5. QED BY <1>3, <1>4

LEMMA FlattenCons ==
  ASSUME NEW S, NEW a \in Seq(S), NEW t \in Seq(Seq(S))
  PROVE  FlattenSeq(<<a>> \o t) = a \o FlattenSeq(t)
<1> DEFINE n == Len(t)
           u == <<a>> \o t
<1>0. \A p, r \in Seq(S) : (a \o p) \o r = a \o (p \o r)
  BY ConcatAssociative
<1>1. n \in Nat /\ \A i \in 1..n : t[i] \in Seq(S)
  BY LenProperties, ElementOfSeq
<1>2. /\ u \in Seq(Seq(S)) /\ Len(u) = n + 1 /\ u[1] = a
      /\ \A i \in 1..n : u[i + 1] = t[i]
  <2>1. <<a>> \in Seq(Seq(S)) /\ Len(<<a>>) = 1 /\ <<a>>[1] = a
    OBVIOUS
  <2>2. /\ u \in Seq(Seq(S)) /\ Len(u) = 1 + n
        /\ \A i \in 1..(1 + n) : u[i] = IF i <= 1 THEN <<a>>[i] ELSE t[i - 1]
    BY <2>1, ConcatProperties
  <2> HIDE DEF u, n
  <2>3. \A i \in 1..n : u[i + 1] = t[i]
    <3>1. TAKE i \in 1..n
    <3>2. i + 1 \in 1..(1 + n) /\ ~(i + 1 <= 1) /\ (i + 1) - 1 = i
      BY <1>1
    <3>3. QED BY <2>2, <3>2
  <2>4. u[1] = a /\ 1 + n = n + 1
    BY <1>1, <2>1, <2>2
  <2>5. QED BY <2>2, <2>3, <2>4
<1>3. CASE n = 0
  <2>1. t = <<>>
    BY <1>3, EmptySeq
  <2>2. FlattenSeq(t) = <<>>
    BY <2>1 DEF FlattenSeq
  <2>3. u = <<a>>
    BY <2>1
  <2>4. FlattenSeq(u) = a
    BY <2>3, FlattenOne
  <2> HIDE DEF u
  <2>5. QED BY <2>2, <2>4, ConcatEmptySeq DEF u
<1>4. CASE n # 0
  <2> HIDE DEF n, u
  <2>1. n \in Nat \ {0} /\ n + 1 \in Nat \ {0} /\ Len(t) = n
    BY <1>1, <1>4 DEF n
  <2>2. PICK f : /\ f[1] = t[1] /\ FlattenSeq(t) = f[n]
                 /\ \A i \in 2..n : f[i] = f[i - 1] \o t[i]
    BY <2>1, FlattenSteps
  <2>3. PICK g : /\ g[1] = u[1] /\ FlattenSeq(u) = g[n + 1]
                 /\ \A i \in 2..(n + 1) : g[i] = g[i - 1] \o u[i]
    BY <1>2, <2>1, FlattenSteps
  <2> DEFINE Good(i) == f[i] \in Seq(S) /\ g[i + 1] = a \o f[i]
             T == {i \in 1..n : ~Good(i)}
  <2>4. T = {}
    <3>1. SUFFICES ASSUME T # {} PROVE FALSE
      OBVIOUS
    <3>2. PICK i \in T : \A k \in T : i <= k
      <4>1. T \in SUBSET Nat
        BY <2>1
      <4> HIDE DEF T
      <4>2. QED BY <3>1, <4>1, LeastNat
    <3>3. i \in 1..n /\ ~Good(i)
      BY <3>2
    <3>4. i + 1 \in 2..(n + 1) /\ (i + 1) - 1 = i /\ t[i] \in Seq(S)
      BY <1>1, <2>1, <3>3
    <3>5. g[i + 1] = g[i] \o t[i]
      BY <1>2, <2>3, <3>3, <3>4
    <3>6. i # 1
      BY <1>2, <2>2, <2>3, <3>3, <3>4, <3>5
    <3>7. i \in 2..n /\ i - 1 \in 1..n /\ ~(i <= i - 1) /\ (i - 1) + 1 = i
      BY <2>1, <3>3, <3>6
    <3>8. f[i - 1] \in Seq(S) /\ g[i] = a \o f[i - 1]
      BY <3>2, <3>7
    <3>9. f[i] = f[i - 1] \o t[i]
      BY <2>2, <3>7
    <3>10. f[i] \in Seq(S)
      BY <3>4, <3>8, <3>9, ConcatProperties
    <3>11. (a \o f[i - 1]) \o t[i] = a \o (f[i - 1] \o t[i])
      BY <1>0, <3>4, <3>8
    <3>12. QED BY <3>3, <3>5, <3>8, <3>9, <3>10, <3>11
  <2>5. n \in 1..n
    BY <2>1
  <2>6. g[n + 1] = a \o f[n]
    BY <2>4, <2>5
  <2> HIDE DEF T, Good
  <2>7. QED BY <2>2, <2>3, <2>6 DEF u
<1>5. QED BY <1>3, <1>4

\* One more extent is read.
LEMMA ReadsAppend ==
  ASSUME TypesOK, NEW t \in Seq(Extents), NEW x \in Extents
  PROVE  /\ Reads(t) \in Seq(Entries)
         /\ Reads(Append(t, x)) = Reads(t) \o Fat!ExtentEntries(x)
<1> DEFINE n == Len(t)
           e(y) == Fat!ExtentEntries(y)
           u == Append(t, x)
           s == [j \in 1..n |-> e(t[j])]
           v == [j \in 1..Len(u) |-> e(u[j])]
<1>1. n \in Nat /\ \A j \in 1..n : t[j] \in Extents
  BY LenProperties, ElementOfSeq
<1>2. Len(u) = n + 1 /\ u[n + 1] = x /\ \A j \in 1..n : u[j] = t[j]
  BY AppendProperties
<1>3. \A y \in Extents : e(y) \in Seq(Entries)
  BY ExtentEntriesType
<1> HIDE DEF n, e, u
<1>4. s \in Seq(Seq(Entries)) /\ Len(s) = n
  <2>1. \A j \in 1..n : e(t[j]) \in Seq(Entries)
    BY <1>1, <1>3
  <2>2. QED BY <1>1, <2>1
<1>5. v = Append(s, e(x))
  <2>1. /\ Append(s, e(x)) \in Seq(Seq(Entries)) /\ Len(Append(s, e(x))) = n + 1
        /\ Append(s, e(x))[n + 1] = e(x)
        /\ \A j \in 1..n : Append(s, e(x))[j] = s[j]
    <3> HIDE DEF s
    <3>1. QED BY <1>3, <1>4, AppendProperties
  <2>2. \A j \in 1..(n + 1) : e(u[j]) \in Seq(Entries)
    <3>1. TAKE j \in 1..(n + 1)
    <3>2. j \in 1..n \/ j = n + 1
      BY <1>1
    <3>3. QED BY <1>1, <1>2, <1>3, <3>2
  <2>3. v \in Seq(Seq(Entries)) /\ Len(v) = n + 1
    BY <1>1, <1>2, <2>2
  <2>4. \A j \in 1..(n + 1) : v[j] = Append(s, e(x))[j]
    <3>1. TAKE j \in 1..(n + 1)
    <3>2. v[j] = e(u[j])
      BY <1>2
    <3>3. CASE j \in 1..n
      <4>1. s[j] = e(t[j])
        BY <3>3
      <4> HIDE DEF s, v
      <4>2. QED BY <1>2, <2>1, <3>2, <3>3, <4>1
    <3>4. CASE j = n + 1
      <4> HIDE DEF s, v
      <4>1. QED BY <1>2, <2>1, <3>2, <3>4
    <3>5. QED BY <1>1, <3>3, <3>4
  <2> HIDE DEF s, v
  <2>5. QED BY <2>1, <2>3, <2>4, SeqEqual
<1>6. FlattenSeq(s) \in Seq(Entries)
  <2> HIDE DEF s
  <2>1. QED BY <1>4, FlattenType
<1>7. FlattenSeq(v) = FlattenSeq(s) \o e(x)
  <2> HIDE DEF s, v
  <2>1. QED BY <1>3, <1>4, <1>5, FlattenAppend
<1>8. Reads(t) = FlattenSeq(s) /\ Reads(u) = FlattenSeq(v)
  BY DEF Reads, n, e
<1>9. QED BY <1>6, <1>7, <1>8 DEF e, u

LEMMA OneCluster ==
  ASSUME NEW z \in Nat, NEW x, x = [start |-> z, count |-> ClusterSectors]
  PROVE  Fat!ExtentEntries(x) = Fat!EntriesAt(z)
<1>1. ClusterSectors \in Nat \ {0} /\ ClusterSectors \div ClusterSectors = 1
      /\ z + (1 - 1) * ClusterSectors = z
  BY Params
<1>2. Fat!ExtentEntries(x) =
        FlattenSeq([k \in 1..1 |-> Fat!EntriesAt(z + (k - 1) * ClusterSectors)])
  BY <1>1, Instances DEF Fat!ExtentEntries
<1>3. [k \in 1..1 |-> Fat!EntriesAt(z + (k - 1) * ClusterSectors)] = <<Fat!EntriesAt(z)>>
  <2> DEFINE g == [k \in 1..1 |-> Fat!EntriesAt(z + (k - 1) * ClusterSectors)]
  <2>1. g[1] = Fat!EntriesAt(z)
    BY <1>1
  <2>2. \A k \in 1..1 : k = 1
    OBVIOUS
  <2>3. QED BY <2>1, <2>2
<1>4. QED BY <1>2, <1>3, FlattenOne

LEMMA OneMoreCluster ==
  ASSUME TypesOK, NEW x \in Extents, x.count % ClusterSectors = 0, NEW y,
         y = [start |-> x.start, count |-> x.count + ClusterSectors]
  PROVE  Fat!ExtentEntries(y) = Fat!ExtentEntries(x) \o Fat!EntriesAt(x.start + x.count)
<1> DEFINE q == x.count \div ClusterSectors
           at(k) == Fat!EntriesAt(x.start + (k - 1) * ClusterSectors)
           s == [k \in 1..q |-> at(k)]
           v == [k \in 1..(q + 1) |-> at(k)]
<1>1. x.start \in Nat /\ x.count \in Nat \ {0} /\ ClusterSectors \in Nat \ {0}
  BY Params DEF Extents
<1>2. q \in Nat /\ x.count = q * ClusterSectors
  BY <1>1, DivTimes
<1>3. Fat!ExtentEntries(x) = FlattenSeq(s)
  BY Instances DEF Fat!ExtentEntries
<1>4. y.start = x.start /\ y.count \div ClusterSectors = q + 1
  <2> HIDE DEF q
  <2>1. y.count = (q + 1) * ClusterSectors /\ q + 1 \in Nat
    BY <1>1, <1>2
  <2>2. QED BY <1>1, <2>1, DivExact
<1> HIDE DEF q
<1>5. Fat!ExtentEntries(y) = FlattenSeq(v)
  BY <1>4, Instances DEF Fat!ExtentEntries
<1>6. \A k : at(k) \in Seq(Entries)
  BY VolumeTypes DEF Fat!EntriesAt
<1>7. at(q + 1) = Fat!EntriesAt(x.start + x.count)
  <2>1. x.start + ((q + 1) - 1) * ClusterSectors = x.start + x.count
    BY <1>1, <1>2
  <2>2. QED BY <2>1
<1> HIDE DEF at
<1>8. s \in Seq(Seq(Entries)) /\ Len(s) = q /\ v \in Seq(Seq(Entries)) /\ Len(v) = q + 1
  BY <1>2, <1>6
<1>9. v = Append(s, at(q + 1))
  <2>1. \A k \in 1..q : s[k] = at(k)
    OBVIOUS
  <2>2. \A k \in 1..(q + 1) : v[k] = at(k)
    OBVIOUS
  <2> HIDE DEF s, v
  <2>3. /\ Append(s, at(q + 1)) \in Seq(Seq(Entries)) /\ Len(Append(s, at(q + 1))) = q + 1
        /\ Append(s, at(q + 1))[q + 1] = at(q + 1)
        /\ \A j \in 1..q : Append(s, at(q + 1))[j] = s[j]
    BY <1>6, <1>8, AppendProperties
  <2>4. \A k \in 1..(q + 1) : v[k] = Append(s, at(q + 1))[k]
    <3>1. TAKE k \in 1..(q + 1)
    <3>2. k \in 1..q \/ k = q + 1
      BY <1>2
    <3>3. QED BY <2>1, <2>2, <2>3, <3>2
  <2>5. QED BY <1>8, <2>3, <2>4, SeqEqual
<1>10. FlattenSeq(v) = FlattenSeq(s) \o at(q + 1)
  <2> HIDE DEF s, v
  <2>1. QED BY <1>6, <1>8, <1>9, FlattenAppend
<1> HIDE DEF s, v
<1>11. QED BY <1>3, <1>5, <1>7, <1>10

----------------------------------------------------------------------------
(* The chain that lies ahead.                                              *)

TableSize == Cardinality(DOMAIN vol.next)
Onward(k, c, f) ==
  IF k = 0 \/ c \notin DOMAIN vol.next THEN <<>> ELSE <<c>> \o f[k - 1][vol.next[c]]
AreChains(n, f) == f = [k \in 0..n |-> [c \in Nat |-> Onward(k, c, f)]]

\* The recursive function Chains exists.
LEMMA ChainsExist ==
  ASSUME NEW n \in Nat
  PROVE  \E f : AreChains(n, f)
<1> DEFINE Is(m, f) == f = [k \in 0..m |-> [c \in Nat |-> Onward(k, c, f)]]
           T == {m \in Nat : ~\E f : Is(m, f)}
<1>1. SUFFICES ASSUME n \in T PROVE FALSE
  BY DEF AreChains
<1>2. PICK m \in T : \A k \in T : m <= k
  <2>1. T \in SUBSET Nat /\ T # {}
    BY <1>1
  <2> HIDE DEF T
  <2>2. QED BY <2>1, LeastNat
<1>3. m \in Nat /\ ~\E f : Is(m, f)
  BY <1>2
<1>4. CASE m = 0
  <2> DEFINE g == [k \in 0..0 |-> [c \in Nat |-> <<>>]]
  <2>1. \A k \in 0..0 : k = 0
    OBVIOUS
  <2>2. \A c : Onward(0, c, g) = <<>>
    BY DEF Onward
  <2>3. g = [k \in 0..0 |-> [c \in Nat |-> Onward(k, c, g)]]
    BY <2>1, <2>2
  <2> HIDE DEF g
  <2>4. QED BY <1>3, <1>4, <2>3
<1>5. CASE m # 0
  <2>1. m - 1 \in Nat /\ ~(m <= m - 1)
    BY <1>3, <1>5
  <2>2. PICK f : Is(m - 1, f)
    <3>1. m - 1 \notin T
      BY <1>2, <2>1
    <3>2. QED BY <2>1, <3>1
  <2> DEFINE g == [k \in 0..m |-> [c \in Nat |-> Onward(k, c, f)]]
  <2>3. \A k \in 0..(m - 1) : g[k] = f[k]
    <3>1. TAKE k \in 0..(m - 1)
    <3>2. k \in 0..m
      BY <2>1
    <3>3. f[k] = [c \in Nat |-> Onward(k, c, f)]
      BY <2>2, <3>1
    <3>4. QED BY <3>2, <3>3
  <2>4. \A k \in 0..m : k # 0 => k - 1 \in 0..(m - 1)
    BY <2>1
  <2>5. \A k \in 0..m : \A c : Onward(k, c, g) = Onward(k, c, f)
    <3> HIDE DEF g
    <3>1. QED BY <2>3, <2>4 DEF Onward
  <2>6. g = [k \in 0..m |-> [c \in Nat |-> Onward(k, c, g)]]
    BY <2>5
  <2> HIDE DEF g
  <2>7. QED BY <1>3, <2>6
<1>6. QED BY <1>4, <1>5

LEMMA Single ==
  ASSUME NEW S, NEW x \in S
  PROVE  <<x>> \in Seq(S) /\ Len(<<x>>) = 1 /\ <<x>>[1] = x
OBVIOUS

LEMMA ChainsUnfold ==
  ASSUME IsFiniteSet(DOMAIN vol.next)
  PROVE  /\ TableSize \in Nat
         /\ \A k \in 0..(TableSize + 1) : \A c \in Nat :
              Chains[k][c] = IF k = 0 \/ c \notin DOMAIN vol.next THEN <<>>
                             ELSE <<c>> \o Chains[k - 1][vol.next[c]]
         /\ \A c : TrueChain(c) = Chains[TableSize + 1][c]
<1>1. TableSize \in Nat
  BY FS_CardinalityType DEF TableSize
<1> DEFINE Is(f) == f = [k \in 0..(TableSize + 1) |-> [c \in Nat |->
                          IF k = 0 \/ c \notin DOMAIN vol.next THEN <<>>
                          ELSE <<c>> \o f[k - 1][vol.next[c]]]]
           f == CHOOSE f : Is(f)
<1>2. Is(f)
  <2>1. PICK g : AreChains(TableSize + 1, g)
    <3>1. TableSize + 1 \in Nat
      BY <1>1
    <3>2. QED BY <3>1, ChainsExist
  <2>2. Is(g)
    BY <2>1 DEF AreChains, Onward
  <2> HIDE DEF Is
  <2>3. QED BY <2>2
<1>3. Chains = f
  BY DEF Chains, TableSize
<1> HIDE DEF f
<1>4. ASSUME NEW k \in 0..(TableSize + 1), NEW c \in Nat
      PROVE  f[k][c] = Onward(k, c, f)
  <2>1. f[k] = [d \in Nat |-> IF k = 0 \/ d \notin DOMAIN vol.next THEN <<>>
                              ELSE <<d>> \o f[k - 1][vol.next[d]]]
    BY <1>2
  <2>2. QED BY <2>1 DEF Onward
<1>5. \A c : TrueChain(c) = Chains[TableSize + 1][c]
  BY DEF TrueChain, TableSize
<1>6. QED BY <1>1, <1>3, <1>4, <1>5 DEF Onward

\* A chain is made of clusters of the table.
LEMMA ChainsType ==
  ASSUME TypesOK, IsFat, TableIsWhole
  PROVE  \A k \in 0..(TableSize + 1) : \A c \in Nat : Chains[k][c] \in Seq(DOMAIN vol.next)
<1> DEFINE Good(k) == \A c \in Nat : Chains[k][c] \in Seq(DOMAIN vol.next)
           T == {k \in 0..(TableSize + 1) : ~Good(k)}
<1>1. /\ TableSize \in Nat
      /\ \A k \in 0..(TableSize + 1) : \A c \in Nat :
           Chains[k][c] = IF k = 0 \/ c \notin DOMAIN vol.next THEN <<>>
                          ELSE <<c>> \o Chains[k - 1][vol.next[c]]
  BY ChainsUnfold DEF TableIsWhole
<1>2. \A c \in DOMAIN vol.next : vol.next[c] \in Nat
  BY VolumesAssumption DEF TypesOK
<1>3. SUFFICES ASSUME T # {} PROVE FALSE
  OBVIOUS
<1>4. PICK k \in T : \A m \in T : k <= m
  <2>1. T \in SUBSET Nat
    BY <1>1
  <2> HIDE DEF T
  <2>2. QED BY <1>3, <2>1, LeastNat
<1>5. k \in 0..(TableSize + 1) /\ ~Good(k)
  BY <1>4
<1>6. k # 0
  <2>1. SUFFICES ASSUME k = 0, NEW c \in Nat
                 PROVE  Chains[k][c] \in Seq(DOMAIN vol.next)
    BY <1>5
  <2> HIDE DEF T
  <2>2. Chains[k][c] = <<>>
    BY <1>1, <1>5, <2>1
  <2>3. QED BY <2>2
<1>7. k - 1 \in 0..(TableSize + 1) /\ ~(k <= k - 1)
  BY <1>1, <1>5, <1>6
<1>8. Good(k - 1)
  BY <1>4, <1>7
<1>9. ASSUME NEW c \in Nat
      PROVE  Chains[k][c] \in Seq(DOMAIN vol.next)
  <2>1. CASE c \notin DOMAIN vol.next
    <3>1. Chains[k][c] = <<>>
      BY <1>1, <1>5, <2>1
    <3>2. QED BY <3>1
  <2>2. CASE c \in DOMAIN vol.next
    <3>1. Chains[k][c] = <<c>> \o Chains[k - 1][vol.next[c]]
      BY <1>1, <1>5, <1>6, <2>2
    <3>2. vol.next[c] \in Nat /\ <<c>> \in Seq(DOMAIN vol.next)
      BY <1>2, <2>2, Single
    <3>3. Chains[k - 1][vol.next[c]] \in Seq(DOMAIN vol.next)
      BY <1>8, <3>2
    <3>4. QED BY <3>1, <3>2, <3>3, ConcatProperties
  <2>3. QED BY <2>1, <2>2
<1>10. QED BY <1>5, <1>9

\* The entries along a chain: those of its first cluster, and the others.
LEMMA AlongChain ==
  ASSUME TypesOK, IsFat, TableIsWhole, NEW c \in DOMAIN vol.next,
         NEW ch \in Seq(DOMAIN vol.next)
  PROVE  /\ Along(ch) \in Seq(Entries) /\ At(c) \in Seq(Entries)
         /\ Along(<<c>> \o ch) = At(c) \o Along(ch)
<1> DEFINE n == Len(ch)
           u == <<c>> \o ch
           s == [k \in DOMAIN ch |-> Dir(ch[k])]
           v == [k \in DOMAIN u |-> Dir(u[k])]
           w == <<Dir(c)>> \o s
<1>1. n \in Nat /\ DOMAIN ch = 1..n /\ \A k \in 1..n : ch[k] \in DOMAIN vol.next
  BY LenProperties, ElementOfSeq
<1>2. \A d \in DOMAIN vol.next : Dir(d) \in Seq(Entries) /\ At(d) = Dir(d)
  BY VolumeTypes DEF TableIsWhole, Dir, At, Fat!EntriesAt
<1>3. /\ u \in Seq(DOMAIN vol.next) /\ Len(u) = 1 + n /\ DOMAIN u = 1..(1 + n)
      /\ \A k \in 1..(1 + n) : u[k] = IF k <= 1 THEN c ELSE ch[k - 1]
  <2>1. <<c>> \in Seq(DOMAIN vol.next) /\ Len(<<c>>) = 1 /\ <<c>>[1] = c
    BY Single
  <2>2. /\ u \in Seq(DOMAIN vol.next) /\ Len(u) = 1 + n
        /\ \A k \in 1..(1 + n) : u[k] = IF k <= 1 THEN <<c>>[k] ELSE ch[k - 1]
    BY <2>1, ConcatProperties
  <2>3. \A k \in 1..(1 + n) : k <= 1 => k = 1
    OBVIOUS
  <2> HIDE DEF u, n
  <2>4. DOMAIN u = 1..(1 + n)
    BY <2>2, LenProperties
  <2>5. QED BY <2>1, <2>2, <2>3, <2>4
<1> HIDE DEF n, u
<1>4. s \in Seq(Seq(Entries)) /\ Len(s) = n
  <2>1. s = [k \in 1..n |-> Dir(ch[k])]
    BY <1>1
  <2>2. \A k \in 1..n : Dir(ch[k]) \in Seq(Entries)
    BY <1>1, <1>2
  <2> HIDE DEF s
  <2>3. QED BY <1>1, <2>1, <2>2
<1>5. \A k \in 1..(1 + n) : u[k] \in DOMAIN vol.next
  <2>1. TAKE k \in 1..(1 + n)
  <2>2. k <= 1 \/ k - 1 \in 1..n
    BY <1>1
  <2>3. QED BY <1>1, <1>3, <2>2
<1>6. v \in Seq(Seq(Entries)) /\ Len(v) = 1 + n
  <2>1. v = [k \in 1..(1 + n) |-> Dir(u[k])]
    BY <1>3
  <2>2. \A k \in 1..(1 + n) : Dir(u[k]) \in Seq(Entries)
    BY <1>2, <1>5
  <2> HIDE DEF v
  <2>3. QED BY <1>1, <2>1, <2>2
<1>7. \A k \in 1..n : s[k] = Dir(ch[k])
  BY <1>1
<1>8. \A k \in 1..(1 + n) : v[k] = Dir(u[k])
  BY <1>3
<1> HIDE DEF s, v
<1>9. /\ w \in Seq(Seq(Entries)) /\ Len(w) = 1 + n
      /\ \A k \in 1..(1 + n) : w[k] = IF k <= 1 THEN Dir(c) ELSE s[k - 1]
  <2>1. /\ <<Dir(c)>> \in Seq(Seq(Entries)) /\ Len(<<Dir(c)>>) = 1
        /\ <<Dir(c)>>[1] = Dir(c)
    BY <1>2
  <2>2. /\ w \in Seq(Seq(Entries)) /\ Len(w) = 1 + n
        /\ \A k \in 1..(1 + n) : w[k] = IF k <= 1 THEN <<Dir(c)>>[k] ELSE s[k - 1]
    BY <1>4, <2>1, ConcatProperties
  <2>3. \A k \in 1..(1 + n) : k <= 1 => k = 1
    OBVIOUS
  <2> HIDE DEF w
  <2>4. QED BY <2>1, <2>2, <2>3
<1> HIDE DEF w
<1>10. \A k \in 1..(1 + n) : v[k] = w[k]
  <2>1. TAKE k \in 1..(1 + n)
  <2>2. k <= 1 \/ k - 1 \in 1..n
    BY <1>1
  <2>3. QED BY <1>3, <1>7, <1>8, <1>9, <2>2
<1>11. v = w
  BY <1>6, <1>9, <1>10, SeqEqual
<1>12. FlattenSeq(w) = Dir(c) \o FlattenSeq(s)
  BY <1>2, <1>4, FlattenCons DEF w
<1>13. FlattenSeq(s) \in Seq(Entries)
  BY <1>4, FlattenType
<1>14. Along(ch) = FlattenSeq(s) /\ Along(u) = FlattenSeq(v)
  BY DEF Along, s, v
<1>15. QED BY <1>2, <1>11, <1>12, <1>13, <1>14 DEF u

----------------------------------------------------------------------------
(* A directory that can be read is read as it is.                          *)

BeginsSound(c) == c \in DOMAIN vol.next /\ DirectoryIsSound(c)
SoundExtents(t) == \A j \in DOMAIN t : Fat!ExtentSectors(t[j]) \cap Unsound = {}

\* With m clusters to come from c: what these extents hold, and what lies
\* ahead, make up the directory that begins with b.
SoundAhead(b, m, c, t) ==
  /\ Len(Chains[m][c]) < m /\ \A x \in ToSet(Chains[m][c]) : ClusterIsSound(x)
  /\ Reads(t) \o Along(Chains[m][c]) = EntriesOf(b)
  /\ SoundExtents(t)
  /\ IsLink(c) => c \in DOMAIN vol.next
SoundWalk(b) ==
  \E m \in 0..(TableSize + 1) : \E c, t :
    c = walk.cluster /\ t = Fat!Closed(walk) /\ SoundAhead(b, m, c, t)

LEMMA ReadsNone ==
  Reads(<<>>) = <<>> /\ Along(<<>>) = <<>>
<1>1. FlattenSeq(<<>>) = <<>>
  BY DEF FlattenSeq
<1>2. [j \in 1..Len(<<>>) |-> Fat!ExtentEntries(<<>>[j])] = <<>>
  OBVIOUS
<1>3. [k \in DOMAIN <<>> |-> Dir(<<>>[k])] = <<>>
  OBVIOUS
<1>4. QED BY <1>1, <1>2, <1>3 DEF Reads, Along

\* One more cluster is read.
LEMMA ReadsGrow ==
  ASSUME IInv, Fat!FollowChain, Fits(walk.cluster)
  PROVE  /\ Reads(Fat!Closed(walk)) \in Seq(Entries)
         /\ Reads(Fat!Closed(walk')) = Reads(Fat!Closed(walk)) \o At(walk.cluster)
         /\ SoundExtents(Fat!Closed(walk)) /\ ClusterSectorsOf(walk.cluster) \cap Unsound = {}
              => SoundExtents(Fat!Closed(walk'))
<1>1. /\ pc = "chain" /\ Fat!Follows(walk.cluster)
      /\ \E ok \in Fat!TableReads(Fat!TableSector(walk.cluster)) :
           \E c \in Fat!FatEntry(walk.cluster, ok) :
             walk' = [Fat!Extended(walk) EXCEPT !.cluster = c]
  BY DEF Fat!FollowChain
<1>2. PICK ok \in Fat!TableReads(Fat!TableSector(walk.cluster)) :
        \E c \in Fat!FatEntry(walk.cluster, ok) :
          walk' = [Fat!Extended(walk) EXCEPT !.cluster = c]
  BY <1>1
<1>3. PICK d \in Fat!FatEntry(walk.cluster, ok) :
        walk' = [Fat!Extended(walk) EXCEPT !.cluster = d]
  BY <1>2
<1> DEFINE c == walk.cluster
           t == Fat!Closed(walk)
           u == Fat!Closed(walk')
           s == Fat!ClusterSector(c)
           x == [start |-> s, count |-> ClusterSectors]
           y == [start |-> walk.first, count |-> walk.run + ClusterSectors]
           z == [start |-> walk.first, count |-> walk.run]
<1>4. /\ TypesOK /\ walk \in Walks /\ c \in Nat /\ walk.run \in Nat
      /\ walk.first \in Nat /\ walk.extents \in Seq(Extents) /\ t \in Seq(Extents)
      /\ walk.run = 0 => walk.extents = <<>> /\ walk.first = 0
      /\ walk.run # 0 => walk.run % ClusterSectors = 0
  BY <1>1, ClosedType DEF IInv, TypesOK, WalkOK, Walks
<1>5. IsLink(c) /\ d \in Nat /\ s = SectorOf(c)
  <2>1. IsLink(c) /\ d \in Nat
    BY <1>1, <1>3, <1>4, LinkFollows, EntryCame
  <2>2. QED BY <1>4, <2>1, SectorFits DEF IsLink
<1>6. u = IF walk.run = 0 THEN <<x>>
          ELSE IF s = walk.first + walk.run THEN Append(walk.extents, y)
          ELSE Append(t, x)
  BY <1>3, <1>4, <1>5, ExtendedWalk
<1>7. x \in Extents /\ Fat!ExtentEntries(x) = At(c)
  <2>1. x = [start |-> SectorOf(c), count |-> ClusterSectors]
    BY <1>5
  <2>2. x \in Extents
    BY <1>4, <1>5, <2>1, ClusterIsRun
  <2>3. SectorOf(c) \in Nat
    BY <2>1, <2>2 DEF Extents
  <2>4. QED BY <2>1, <2>2, <2>3, OneCluster DEF At
<1>8. /\ s \in Nat /\ ClusterSectors \in Nat \ {0}
      /\ At(c) \in Seq(Entries)
  BY <1>4, <1>7, Params, VolumeTypes DEF Extents, At, Fat!EntriesAt
<1>9. Reads(t) \in Seq(Entries)
  BY <1>4, <1>7, ReadsAppend
<1>10. Fat!ExtentSectors(x) = ClusterSectorsOf(c)
  BY <1>5 DEF Fat!ExtentSectors, ClusterSectorsOf
<1> DEFINE Sound == SoundExtents(t) /\ ClusterSectorsOf(c) \cap Unsound = {}
<1>11. CASE walk.run = 0 \/ s # walk.first + walk.run
  <2>1. u = Append(t, x)
    <3>1. CASE walk.run = 0
      <4>1. t = <<>>
        BY <1>4, <3>1 DEF Fat!Closed
      <4>2. u = <<x>>
        BY <1>6, <3>1
      <4> HIDE DEF t, u, x
      <4>3. QED BY <4>1, <4>2
    <3>2. CASE walk.run # 0
      BY <1>6, <1>11, <3>2
    <3>3. QED BY <3>1, <3>2
  <2> HIDE DEF t, u, x, s, c, y, z
  <2>2. Reads(u) = Reads(t) \o At(c)
    BY <1>4, <1>7, <2>1, ReadsAppend
  <2>3. Sound => SoundExtents(u)
    <3>1. SUFFICES ASSUME Sound, NEW j \in DOMAIN u
                   PROVE  Fat!ExtentSectors(u[j]) \cap Unsound = {}
      BY DEF SoundExtents
    <3>2. /\ DOMAIN u = 1..(Len(t) + 1) /\ u[Len(t) + 1] = x /\ Len(t) \in Nat
          /\ DOMAIN t = 1..Len(t) /\ \A k \in 1..Len(t) : u[k] = t[k]
      BY <1>4, <1>7, <2>1, AppendLast, LenProperties
    <3>3. j \in DOMAIN t \/ j = Len(t) + 1
      BY <3>2
    <3>4. QED BY <1>10, <3>1, <3>2, <3>3 DEF SoundExtents
  <2>4. QED BY <1>9, <2>2, <2>3 DEF t, u, c
<1>12. CASE walk.run # 0 /\ s = walk.first + walk.run
  <2>1. t = Append(walk.extents, z) /\ z \in Extents /\ u = Append(walk.extents, y)
    BY <1>4, <1>6, <1>12 DEF Fat!Closed, Extents
  <2>2. z.count % ClusterSectors = 0
    BY <1>4, <1>12
  <2>3. y \in Extents /\ y = [start |-> z.start, count |-> z.count + ClusterSectors]
        /\ z.start = walk.first /\ z.count = walk.run /\ s = z.start + z.count
    BY <1>4, <1>8, <1>12 DEF Extents
  <2> HIDE DEF t, u, x, y, z
  <2>4. Fat!ExtentEntries(y) = Fat!ExtentEntries(z) \o At(c)
    BY <1>4, <1>5, <2>1, <2>2, <2>3, OneMoreCluster DEF At
  <2>5. /\ Reads(t) = Reads(walk.extents) \o Fat!ExtentEntries(z)
        /\ Reads(u) = Reads(walk.extents) \o Fat!ExtentEntries(y)
        /\ Reads(walk.extents) \in Seq(Entries) /\ Fat!ExtentEntries(z) \in Seq(Entries)
    BY <1>4, <2>1, <2>3, ReadsAppend, ExtentEntriesType
  <2>6. Reads(u) = Reads(t) \o At(c)
    BY <1>8, <2>4, <2>5, ConcatAssociative
  <2>7. Sound => SoundExtents(u)
    <3>1. SUFFICES ASSUME Sound, NEW j \in DOMAIN u
                   PROVE  Fat!ExtentSectors(u[j]) \cap Unsound = {}
      BY DEF SoundExtents
    <3> DEFINE n == Len(walk.extents)
    <3>2. /\ n \in Nat /\ DOMAIN u = 1..(n + 1) /\ DOMAIN t = 1..(n + 1)
          /\ u[n + 1] = y /\ t[n + 1] = z
          /\ \A k \in 1..n : u[k] = t[k]
      BY <1>4, <2>1, <2>3, AppendLast, LenProperties
    <3> HIDE DEF n
    <3>3. j \in 1..n \/ j = n + 1
      BY <3>2
    <3>4. CASE j \in 1..n
      BY <3>1, <3>2, <3>4 DEF SoundExtents
    <3>5. CASE j = n + 1
      <4>1. Fat!ExtentSectors(z) \cap Unsound = {}
        <5>1. n + 1 \in DOMAIN t
          BY <3>2
        <5>2. QED BY <3>1, <3>2, <5>1 DEF SoundExtents
      <4>2. Fat!ExtentSectors(y) \subseteq Fat!ExtentSectors(z) \cup ClusterSectorsOf(c)
        BY <1>4, <1>5, <1>8, <2>3 DEF Fat!ExtentSectors, ClusterSectorsOf
      <4>3. QED BY <3>1, <3>2, <3>5, <4>1, <4>2
    <3>6. QED BY <3>3, <3>4, <3>5
  <2>8. QED BY <1>9, <2>6, <2>7 DEF t, u
<1>13. QED BY <1>11, <1>12

LEMMA AheadStarts ==
  ASSUME TypesOK, IsFat, TableIsWhole, NEW b, BeginsSound(b)
  PROVE  SoundAhead(b, TableSize + 1, b, <<>>)
<1> DEFINE ch == TrueChain(b)
<1>1. b \in DOMAIN vol.next /\ b \in Nat
  BY DEF BeginsSound, TableIsWhole
<1>2. /\ TableSize \in Nat /\ TableSize + 1 \in 0..(TableSize + 1)
      /\ ch = Chains[TableSize + 1][b]
  BY ChainsUnfold DEF TableIsWhole
<1>3. ch \in Seq(DOMAIN vol.next)
  BY <1>1, <1>2, ChainsType
<1>4. Len(ch) <= TableSize /\ \A x \in ToSet(ch) : ClusterIsSound(x)
  BY DEF BeginsSound, DirectoryIsSound, TableSize
<1>5. EntriesOf(b) = Along(ch)
  BY DEF EntriesOf, Along, Dir
<1> HIDE DEF ch
<1>6. Along(ch) \in Seq(Entries)
  BY <1>1, <1>3, AlongChain
<1>7. Reads(<<>>) \o Along(ch) = Along(ch)
  BY <1>6, ReadsNone, ConcatEmptySeq
<1>8. SoundExtents(<<>>)
  BY DEF SoundExtents
<1>9. Len(ch) < TableSize + 1
  BY <1>2, <1>3, <1>4, LenProperties
<1>10. QED BY <1>1, <1>2, <1>4, <1>5, <1>7, <1>8, <1>9 DEF SoundAhead

LEMMA AheadGoesOn ==
  ASSUME IInv, IsFat, TableIsWhole, Fat!FollowChain, NEW b,
         NEW m \in 0..(TableSize + 1), SoundAhead(b, m, walk.cluster, Fat!Closed(walk))
  PROVE  /\ m - 1 \in 0..(TableSize + 1)
         /\ SoundAhead(b, m - 1, walk'.cluster, Fat!Closed(walk'))
<1> DEFINE c == walk.cluster
           t == Fat!Closed(walk)
           u == Fat!Closed(walk')
           ch == Chains[m][c]
           d == vol.next[c]
           rest == Chains[m - 1][d]
<1>1. TypesOK /\ c \in Nat /\ IsLink(c) /\ c \in DOMAIN vol.next /\ d \in Nat
  <2>1. TypesOK /\ c \in Nat
    BY DEF IInv, TypesOK, Walks
  <2>2. IsLink(c)
    BY PathStep
  <2>3. c \in DOMAIN vol.next
    BY <2>2 DEF SoundAhead
  <2>4. d \in Nat
    BY <2>1, <2>3, VolumesAssumption DEF TypesOK
  <2>5. QED BY <2>1, <2>2, <2>3, <2>4
<1>2. /\ TableSize \in Nat
      /\ \A k \in 0..(TableSize + 1) : \A x \in Nat :
           Chains[k][x] = IF k = 0 \/ x \notin DOMAIN vol.next THEN <<>>
                          ELSE <<x>> \o Chains[k - 1][vol.next[x]]
  BY ChainsUnfold DEF TableIsWhole
<1>3. ch \in Seq(DOMAIN vol.next) /\ Len(ch) \in Nat
  BY <1>1, ChainsType, LenProperties
<1>4. Len(ch) < m /\ \A x \in ToSet(ch) : ClusterIsSound(x)
  BY DEF SoundAhead
<1>5. m # 0 /\ m - 1 \in 0..(TableSize + 1)
  BY <1>2, <1>3, <1>4
<1>6. ch = <<c>> \o rest
  BY <1>1, <1>2, <1>5
<1>7. rest \in Seq(DOMAIN vol.next)
  BY <1>1, <1>5, ChainsType
<1>8. Reads(t) \o Along(ch) = EntriesOf(b) /\ SoundExtents(t)
  BY DEF SoundAhead
<1>9. /\ Reads(t) \in Seq(Entries) /\ Reads(u) = Reads(t) \o At(c)
      /\ SoundExtents(t) /\ ClusterSectorsOf(c) \cap Unsound = {} => SoundExtents(u)
  BY <1>1, ReadsGrow DEF TableIsWhole
<1>10. ASSUME walk'.cluster = d
       PROVE  SoundAhead(b, m - 1, walk'.cluster, u)
  <2> HIDE DEF ch, rest, t, u, c, d
  <2>1. /\ <<c>> \in Seq(DOMAIN vol.next) /\ Len(<<c>>) = 1 /\ <<c>>[1] = c
    BY <1>1, Single
  <2>2. /\ Len(ch) = 1 + Len(rest) /\ Len(rest) \in Nat
        /\ \A i \in 1..(1 + Len(rest)) : ch[i] = IF i <= 1 THEN <<c>>[i] ELSE rest[i - 1]
    BY <1>6, <1>7, <2>1, ConcatProperties, LenProperties
  <2>3. DOMAIN ch = 1..Len(ch) /\ DOMAIN rest = 1..Len(rest)
    BY <1>3, <1>7, LenProperties
  <2>4. c \in ToSet(ch)
    <3>1. 1 \in DOMAIN ch /\ ch[1] = c
      BY <2>1, <2>2, <2>3
    <3>2. QED BY <3>1 DEF ToSet
  <2>5. \A x \in ToSet(rest) : x \in ToSet(ch)
    <3>1. SUFFICES ASSUME NEW i \in DOMAIN rest PROVE rest[i] \in ToSet(ch)
      BY DEF ToSet
    <3>2. i + 1 \in 1..(1 + Len(rest)) /\ ~(i + 1 <= 1) /\ (i + 1) - 1 = i
      BY <2>2, <2>3
    <3>3. ch[i + 1] = rest[i] /\ i + 1 \in DOMAIN ch
      BY <2>2, <2>3, <3>2
    <3>4. QED BY <3>3 DEF ToSet
  <2>6. ClusterSectorsOf(c) \cap Unsound = {}
    BY <1>4, <2>4 DEF ClusterIsSound
  <2>7. /\ Along(rest) \in Seq(Entries) /\ At(c) \in Seq(Entries)
        /\ Along(ch) = At(c) \o Along(rest)
    BY <1>1, <1>6, <1>7, AlongChain
  <2>8. Reads(u) \o Along(rest) = EntriesOf(b)
    <3> DEFINE r == Reads(t)
               e == At(c)
               a == Along(rest)
    <3>1. r \in Seq(Entries) /\ e \in Seq(Entries) /\ a \in Seq(Entries)
      BY <1>9, <2>7
    <3>2. Reads(u) = r \o e /\ r \o (e \o a) = EntriesOf(b)
      BY <1>8, <1>9, <2>7
    <3> HIDE DEF r, e, a
    <3>3. (r \o e) \o a = r \o (e \o a)
      BY <3>1, ConcatAssociative
    <3>4. QED BY <3>2, <3>3 DEF a
  <2>9. Len(rest) < m - 1
    BY <1>4, <2>2
  <2>10. IsLink(d) => d \in DOMAIN vol.next
    BY <1>1 DEF TableIsWhole, d
  <2>11. rest = Chains[m - 1][d]
    BY DEF rest, d
  <2>12. QED BY <1>4, <1>8, <1>9, <1>10, <2>5, <2>6, <2>8, <2>9, <2>10, <2>11 DEF SoundAhead
<1>11. walk'.cluster = d
  <2>1. c \in ToSet(ch)
    <3> HIDE DEF ch, rest, c, d
    <3>1. <<c>> \in Seq(DOMAIN vol.next) /\ Len(<<c>>) = 1 /\ <<c>>[1] = c
      BY <1>1, Single
    <3>2. Len(ch) = 1 + Len(rest) /\ Len(rest) \in Nat
          /\ \A i \in 1..(1 + Len(rest)) : ch[i] = IF i <= 1 THEN <<c>>[i] ELSE rest[i - 1]
      BY <1>6, <1>7, <3>1, ConcatProperties, LenProperties
    <3>3. 1 \in DOMAIN ch /\ ch[1] = c
      BY <1>3, <3>1, <3>2, LenProperties
    <3>4. QED BY <3>3 DEF ToSet
  <2>2. Fat!TableSector(c) \notin Unsound /\ ~Fat!Straddles(c)
    BY <1>4, <2>1 DEF ClusterIsSound
  <2>3. \A ok \in Fat!TableReads(Fat!TableSector(c)) : \A x \in Fat!FatEntry(c, ok) : x = d
    BY <1>1, <2>2 DEF Fat!TableReads, Fat!ReadResults, Unsound, Fat!FatEntry, Fat!TableValues
  <2>4. \E ok \in Fat!TableReads(Fat!TableSector(c)) : \E x \in Fat!FatEntry(c, ok) :
          walk' = [Fat!Extended(walk) EXCEPT !.cluster = x]
    BY DEF Fat!FollowChain
  <2>5. PICK ok \in Fat!TableReads(Fat!TableSector(c)) : \E x \in Fat!FatEntry(c, ok) :
          walk' = [Fat!Extended(walk) EXCEPT !.cluster = x]
    BY <2>4
  <2>6. PICK x \in Fat!FatEntry(c, ok) : walk' = [Fat!Extended(walk) EXCEPT !.cluster = x]
    BY <2>5
  <2>7. x = d
    BY <2>3
  <2>8. walk'.cluster = x
    <3>1. /\ walk \in Walks
          /\ pc = "chain" => (walk.run = 0 => walk.extents = <<>> /\ walk.first = 0)
          /\ pc = "chain"
      BY DEF IInv, TypesOK, WalkOK, Fat!FollowChain
    <3>2. x \in Nat
      BY <1>1, <2>7
    <3>3. QED BY <1>1, <2>6, <3>1, <3>2, ExtendedWalk
  <2>9. QED BY <2>7, <2>8
<1>12. QED BY <1>5, <1>10, <1>11

LEMMA AheadEnds ==
  ASSUME TypesOK, IsFat, TableIsWhole, NEW b, NEW m \in 0..(TableSize + 1),
         NEW c \in Nat, ~IsLink(c), NEW t \in Seq(Extents), SoundAhead(b, m, c, t)
  PROVE  Reads(t) = EntriesOf(b) /\ SoundExtents(t)
<1>1. c \notin DOMAIN vol.next
  BY DEF TableIsWhole
<1>2. Chains[m][c] = <<>>
  BY <1>1, ChainsUnfold DEF TableIsWhole
<1>3. Reads(t) \in Seq(Entries)
  <2>1. [start |-> 0, count |-> 1] \in Extents
    BY DEF Extents
  <2>2. QED BY <2>1, ReadsAppend
<1>4. Reads(t) \o Along(<<>>) = EntriesOf(b)
  BY <1>2 DEF SoundAhead
<1>5. QED BY <1>3, <1>4, ReadsNone, ConcatEmptySeq DEF SoundAhead

----------------------------------------------------------------------------
(* What is done with the entries.                                          *)

IsReported(e) == \E k \in DOMAIN files : files[k].entry = e

\* A file was reported; of a directory that can be read and may be opened Z
\* says that all of it was gone through.
Finished(Z, d, e) ==
  /\ IsFileEntry(e) => IsReported(e)
  /\ IsDirEntry(e) /\ d < MaxDepth /\ BeginsSound(e.cluster) => <<d + 1, e.cluster>> \in Z

Covered(Z) ==
  \A d, c : <<d, c>> \in Z => \A e \in Listed(EntriesOf(c)) : Finished(Z, d, e)

RootBeginsSound ==
  IF vol.fs = "fat32" THEN BeginsSound(vol.root)
  ELSE vol.rootSectors \cap Unsound = {}

\* The first entry of an open directory that is not finished with.
UpTo(i) == IF i < Len(stack) \/ pc = "chain" THEN stack[i].next - 1 ELSE stack[i].next

Behind(i) ==
  {stack[i].entries[k] : k \in {j \in DOMAIN stack[i].entries : j < UpTo(i)}}

\* An open directory that can be read is as it is on the disk.
FrameSound(i) ==
  IF i = 1 THEN RootBeginsSound => stack[1].entries = RootEntries
  ELSE \A c : c = Pending(i - 1).cluster /\ BeginsSound(c) => stack[i].entries = EntriesOf(c)

\* The directory of which the chain is read.
WalkBegan == IF stack = <<>> THEN vol.root ELSE Pending(Len(stack)).cluster

ReachInv(Z) ==
  /\ Covered(Z)
  /\ \A i \in DOMAIN stack : FrameSound(i) /\ \A e \in Behind(i) : Finished(Z, i - 1, e)
  /\ pc = "chain" /\ walk.file = <<>> =>
       \A b : b = WalkBegan /\ BeginsSound(b) => SoundWalk(b)
  /\ pc = "root" => vol.fs # "fat32"
  /\ pc = "done" /\ RootBeginsSound => \A e \in Listed(RootEntries) : Finished(Z, 0, e)

ReachOK ==
  IsFat /\ vol.boot /\ 0 \notin Unsound /\ ~stop /\ pc # "terminated" => \E Z : ReachInv(Z)

LEMMA SoundsFixed ==
  ASSUME UNCHANGED vol
  PROVE  \A c : ClusterIsSound(c)' = ClusterIsSound(c)
<1>1. TAKE c
<1>2. /\ Fat!TableSector(c)' = Fat!TableSector(c) /\ Unsound' = Unsound
      /\ Fat!Straddles(c)' = Fat!Straddles(c)
  BY DEF Fat!TableSector, Fat!TableOffset, Fat!Straddles, Unsound
<1>3. SectorOf(c)' = SectorOf(c) /\ Fits(c)' = Fits(c)
  BY DEF SectorOf, Fits
<1>4. ClusterSectorsOf(c)' = ClusterSectorsOf(c)
  BY <1>3 DEF ClusterSectorsOf
<1>5. QED BY <1>2, <1>3, <1>4 DEF ClusterIsSound

LEMMA SoundFixed ==
  ASSUME UNCHANGED vol
  PROVE  /\ IsFat' = IsFat /\ (TableIsWhole' <=> TableIsWhole) /\ TableSize' = TableSize
         /\ Unsound' = Unsound /\ RootEntries' = RootEntries
         /\ RootBeginsSound' <=> RootBeginsSound
         /\ \A c : /\ BeginsSound(c)' <=> BeginsSound(c)
                   /\ EntriesOf(c)' = EntriesOf(c) /\ Listed(c)' = Listed(c)
         /\ \A b, m, c, t : SoundAhead(b, m, c, t)' <=> SoundAhead(b, m, c, t)
<1>1. Chains' = Chains
  BY DEF Chains
<1>2. TableSize' = TableSize /\ Unsound' = Unsound /\ IsFat' = IsFat
  BY DEF TableSize, Unsound, IsFat
<1>3. \A c : TrueChain(c)' = TrueChain(c)
  BY <1>1 DEF TrueChain
<1>4. \A c : ClusterIsSound(c)' <=> ClusterIsSound(c)
  BY SoundsFixed
<1>5. \A c : BeginsSound(c)' <=> BeginsSound(c)
  BY <1>3, <1>4 DEF BeginsSound, DirectoryIsSound
<1>6. \A c : EntriesOf(c)' = EntriesOf(c)
  BY <1>3, LinksFixed DEF EntriesOf
<1>7. RootEntries' = RootEntries
  BY <1>6 DEF RootEntries
<1>8. RootBeginsSound' <=> RootBeginsSound
  BY <1>2, <1>5 DEF RootBeginsSound
<1>9. TableIsWhole' <=> TableIsWhole
  BY <1>2, LinksFixed DEF TableIsWhole, IsLink
<1>10. \A t : Reads(t)' = Reads(t) /\ Along(t)' = Along(t)
  BY LinksFixed DEF Reads, Along, Dir, Fat!ExtentEntries, Fat!EntriesAt
<1>11. \A t : SoundExtents(t)' <=> SoundExtents(t)
  BY <1>2 DEF SoundExtents, Fat!ExtentSectors
<1>12. \A b, m, c, t : SoundAhead(b, m, c, t)' <=> SoundAhead(b, m, c, t)
  BY <1>1, <1>4, <1>6, <1>10, <1>11 DEF SoundAhead, IsLink
<1>13. \A c : Listed(c)' = Listed(c)
  BY DEF Listed
<1>14. QED BY <1>2, <1>5, <1>6, <1>7, <1>8, <1>9, <1>12, <1>13

\* What is finished stays so.
LEMMA FinishedKept ==
  ASSUME UNCHANGED vol, \A e : IsReported(e) => IsReported(e)', NEW Z, NEW Y, Z \subseteq Y
  PROVE  \A d, e : Finished(Z, d, e) => Finished(Y, d, e)'
BY SoundFixed DEF Finished, IsFileEntry, IsDirEntry

LEMMA CoveredKept ==
  ASSUME UNCHANGED vol, \A e : IsReported(e) => IsReported(e)', NEW Z, Covered(Z)
  PROVE  Covered(Z)'
BY SoundFixed, FinishedKept DEF Covered

\* What is known of a directory that stays as it is.
LEMMA FrameSoundKept ==
  ASSUME UNCHANGED vol, NEW i \in Nat \ {0}, stack'[i].entries = stack[i].entries,
         i > 1 => stack'[i - 1] = stack[i - 1], FrameSound(i)
  PROVE  FrameSound(i)'
<1>1. CASE i = 1
  BY <1>1, SoundFixed DEF FrameSound
<1>2. CASE i # 1
  <2>1. Pending(i - 1)' = Pending(i - 1)
    BY <1>2 DEF Pending
  <2>2. QED BY <1>2, <2>1, SoundFixed DEF FrameSound
<1>3. QED BY <1>1, <1>2

LEMMA BehindKept ==
  ASSUME UNCHANGED vol, \A e : IsReported(e) => IsReported(e)', NEW Z, NEW Y, Z \subseteq Y,
         NEW i, stack'[i].entries = stack[i].entries, UpTo(i)' = UpTo(i),
         \A e \in Behind(i) : Finished(Z, i - 1, e)
  PROVE  \A e \in Behind(i)' : Finished(Y, i - 1, e)'
<1>1. Behind(i)' = Behind(i)
  BY DEF Behind
<1>2. QED BY <1>1, FinishedKept

----------------------------------------------------------------------------
(* The steps of the walk, and what they are done with.                     *)

LEMMA EntryReach ==
  ASSUME IInv, NestOK, IsFat, TableIsWhole, NEW Z, ReachInv(Z),
         Fat!LongNameEntry \/ Fat!DirectoryEntry \/ Fat!FileEntry \/ Fat!OtherEntry
  PROVE  ReachInv(Z)'
<1> DEFINE n == Len(stack)
           s == stack[n].next
           e == Fat!Entry
<1>1. /\ n \in Nat \ {0} /\ DOMAIN stack = 1..n /\ Len(stack') = n /\ DOMAIN stack' = 1..n
      /\ \A i \in 1..(n - 1) : stack'[i] = stack[i]
      /\ stack'[n].entries = stack[n].entries /\ stack'[n].next = s + 1
      /\ s \in DOMAIN stack[n].entries /\ s \in Nat \ {0}
      /\ e = stack[n].entries[s] /\ e \in Entries /\ pc = "entry"
      /\ UNCHANGED <<vol, stop, files>>
  BY TopMoves
<1>2. \A x : IsReported(x) => IsReported(x)'
  BY <1>1 DEF IsReported
<1>3. Covered(Z) /\ Covered(Z)'
  BY <1>1, <1>2, CoveredKept DEF ReachInv
<1>4. \A i \in 1..n : /\ i \in Nat \ {0} /\ stack'[i].entries = stack[i].entries
                      /\ i > 1 => stack'[i - 1] = stack[i - 1]
                      /\ FrameSound(i) /\ \A x \in Behind(i) : Finished(Z, i - 1, x)
  <2>1. \A i \in 1..n : FrameSound(i) /\ \A x \in Behind(i) : Finished(Z, i - 1, x)
    BY <1>1 DEF ReachInv
  <2> HIDE DEF n, s, e
  <2>2. \A i \in 1..n : i \in 1..(n - 1) \/ i = n
    BY <1>1
  <2>3. \A i \in 1..n : i \in Nat \ {0} /\ (i > 1 => i - 1 \in 1..(n - 1))
    BY <1>1
  <2>4. QED BY <1>1, <2>1, <2>2, <2>3
<1>5. \A i \in 1..n : FrameSound(i)'
  BY <1>1, <1>4, FrameSoundKept
<1>6. \A i \in 1..(n - 1) : \A x \in Behind(i)' : Finished(Z, i - 1, x)'
  <2>1. TAKE i \in 1..(n - 1)
  <2>2. i \in 1..n /\ i < n
    <3> HIDE DEF n
    <3>1. QED BY <1>1
  <2>3. UpTo(i)' = UpTo(i)
    BY <1>1, <2>2 DEF UpTo
  <2>4. QED BY <1>1, <1>2, <1>4, <2>2, <2>3, BehindKept
<1>7. \A x \in Behind(n)' : Finished(Z, n - 1, x)'
  <2>1. UpTo(n) = s /\ UpTo(n)' = (IF pc' = "chain" THEN (s + 1) - 1 ELSE s + 1)
    <3>1. UpTo(n) = s
      BY <1>1 DEF UpTo
    <3>2. ASSUME NEW i, i = n PROVE UpTo(i)' = (IF pc' = "chain" THEN (s + 1) - 1 ELSE s + 1)
      BY <1>1, <3>2 DEF UpTo
    <3>3. n' = n
      BY <1>1
    <3>4. QED BY <3>1, <3>2, <3>3
  <2>2. \A x \in Behind(n)' : x \in Behind(n) \/ (x = e /\ pc' # "chain")
    <3>1. n' = n /\ DOMAIN stack[n].entries = 1..Len(stack[n].entries)
      BY <1>1, StackType
    <3>2. Behind(n)' = {stack[n].entries[k] : k \in {j \in DOMAIN stack[n].entries : j < UpTo(n)'}}
      BY <1>1, <3>1 DEF Behind
    <3>3. Behind(n) = {stack[n].entries[k] : k \in {j \in DOMAIN stack[n].entries : j < s}}
      BY <2>1 DEF Behind
    <3>4. n \in 1..n /\ Len(stack[n].entries) \in Nat
      BY <1>1, StackType
    <3> HIDE DEF n, s, e
    <3>5. \A k \in DOMAIN stack[n].entries : k < UpTo(n)' => k < s \/ (k = s /\ pc' # "chain")
      BY <1>1, <2>1, <3>1, <3>4
    <3>6. QED BY <1>1, <3>2, <3>3, <3>5
  <2>3. pc' # "chain" => Finished(Z, n - 1, e)
    <3>1. SUFFICES ASSUME pc' # "chain"
                   PROVE  ~IsFileEntry(e) /\ ~(IsDirEntry(e) /\ n - 1 < MaxDepth)
      BY DEF Finished
    <3>2. CASE Fat!LongNameEntry
      BY <3>2 DEF Fat!LongNameEntry, IsFileEntry, IsDirEntry
    <3>3. CASE Fat!OtherEntry
      <4>1. e.cluster \in Nat
        BY <1>1, EntriesAssumption
      <4>2. e.attr = "dots" \/ (e.attr = "dir" /\ e.cluster < 2)
            \/ (e.attr = "file" /\ (e.cluster < 2 \/ e.size = 0))
        BY <3>3 DEF Fat!OtherEntry
      <4> HIDE DEF e, n
      <4>3. QED BY <4>1, <4>2 DEF IsFileEntry, IsDirEntry
    <3>4. CASE Fat!DirectoryEntry
      <4>1. ~Fat!Opens(Fat!Top.depth + 1) /\ e.attr = "dir"
        BY <3>1, <3>4 DEF Fat!DirectoryEntry
      <4>2. stack # <<>>
        BY <1>1
      <4>3. Fat!Top.depth = n - 1
        BY <4>2, TopOfStack DEF IInv
      <4>4. MaxDepth \in Nat
        BY Params
      <4> HIDE DEF n
      <4>5. QED BY <1>1, <4>1, <4>3, <4>4 DEF Fat!Opens, IsFileEntry
    <3>5. CASE Fat!FileEntry
      BY <3>1, <3>5 DEF Fat!FileEntry
    <3>6. QED BY <3>2, <3>3, <3>4, <3>5
  <2>4. \A x \in Behind(n)' : Finished(Z, n - 1, x)
    <3>1. n \in 1..n
      BY <1>1
    <3> HIDE DEF n, e
    <3>2. QED BY <1>4, <2>2, <2>3, <3>1
  <2>5. \A d : d = n - 1 => \A x \in Behind(n)' : Finished(Z, d, x)'
    BY <1>1, <1>2, <2>4, FinishedKept
  <2>6. (n - 1)' = n - 1 /\ n' = n
    BY <1>1
  <2>7. QED BY <2>5, <2>6
<1>8. \A i \in DOMAIN stack' : FrameSound(i)' /\ \A x \in Behind(i)' : Finished(Z, i - 1, x)'
  <2>1. n' = n
    BY <1>1
  <2>2. \A i \in 1..n : i \in 1..(n - 1) \/ i = n
    <3> HIDE DEF n
    <3>1. QED BY <1>1
  <2>3. ASSUME NEW i, i = n PROVE \A x \in Behind(i)' : Finished(Z, i - 1, x)'
    BY <1>7, <2>1, <2>3
  <2>4. QED BY <1>1, <1>5, <1>6, <2>2, <2>3
<1>9. ASSUME pc' = "chain", walk'.file = <<>>, NEW b, b = WalkBegan', BeginsSound(b)'
      PROVE  SoundWalk(b)'
  <2>1. CASE Fat!DirectoryEntry
    <3>1. walk' = Fat!ChainOfDirectory(e.cluster, Fat!Top.depth + 1)
      BY <1>1, <1>9, <2>1 DEF Fat!DirectoryEntry
    <3>2. walk'.run = 0 /\ walk'.cluster = e.cluster /\ walk'.extents = <<>>
      BY <3>1 DEF Fat!ChainOfDirectory, Fat!NoWalk
    <3>3. Fat!Closed(walk)' = <<>>
      BY <3>2 DEF Fat!Closed
    <3>4. b = e.cluster
      <4>1. stack' # <<>>
        BY <1>1
      <4>2. (s + 1) - 1 = s
        BY <1>1
      <4>3. ASSUME NEW i, i = n PROVE Pending(i)' = e
        BY <1>1, <4>2, <4>3 DEF Pending
      <4>4. Pending(Len(stack))' = e
        BY <1>1, <4>3
      <4>5. QED BY <1>9, <4>1, <4>4 DEF WalkBegan
    <3>5. BeginsSound(b) /\ TypesOK
      BY <1>1, <1>9, SoundFixed DEF IInv
    <3>6. SoundAhead(b, TableSize + 1, b, <<>>) /\ TableSize \in Nat
      BY <3>5, AheadStarts, ChainsUnfold DEF TableIsWhole
    <3>7. /\ TableSize' = TableSize
          /\ \A m, c, t : SoundAhead(b, m, c, t)' <=> SoundAhead(b, m, c, t)
      BY <1>1, SoundFixed
    <3>8. \E m \in 0..(TableSize' + 1) : \E c, t :
            c = walk'.cluster /\ t = Fat!Closed(walk)' /\ SoundAhead(b, m, c, t)'
      <4>1. TableSize + 1 \in 0..(TableSize + 1)
        BY <3>6
      <4>2. SoundAhead(b, TableSize + 1, b, <<>>) /\ b = walk'.cluster
        BY <3>2, <3>4, <3>6
      <4>3. PICK m \in 0..(TableSize + 1) : SoundAhead(b, m, b, <<>>)
        BY <4>1, <4>2
      <4>4. SoundAhead(b, m, b, <<>>)'
        BY <3>7, <4>3
      <4>5. QED BY <3>3, <3>7, <4>2, <4>4
    <3>9. QED BY <3>8 DEF SoundWalk
  <2>2. CASE Fat!FileEntry
    BY <1>9, <2>2 DEF Fat!FileEntry, Fat!ChainOfFile, Fat!NoWalk
  <2>3. QED BY <1>1, <1>9, <2>1, <2>2 DEF Fat!LongNameEntry, Fat!OtherEntry
<1>10. pc' \in {"chain", "entry"}
  BY <1>1 DEF Fat!LongNameEntry, Fat!DirectoryEntry, Fat!FileEntry, Fat!OtherEntry
<1>11. QED
  <2> HIDE DEF n, s, e
  <2>1. QED BY <1>3, <1>8, <1>9, <1>10 DEF ReachInv

\* The directory has done with the entry that it waited for.
LEMMA PendingPassed ==
  ASSUME IInv, NEW i \in DOMAIN stack, UpTo(i) = stack[i].next - 1,
         stack'[i] = stack[i], UpTo(i)' = stack[i].next
  PROVE  \A x \in Behind(i)' : x \in Behind(i) \/ x = Pending(i)
<1> DEFINE s == stack[i].next
           q == stack[i].entries
<1>1. s \in Nat /\ DOMAIN q = 1..Len(q) /\ Len(q) \in Nat
  BY StackType
<1>2. Behind(i) = {q[k] : k \in {j \in DOMAIN q : j < s - 1}}
  BY DEF Behind
<1>3. Behind(i)' = {q[k] : k \in {j \in DOMAIN q : j < s}}
  BY DEF Behind
<1>4. Pending(i) = q[s - 1]
  BY DEF Pending
<1> HIDE DEF s, q
<1>5. \A k \in DOMAIN q : k < s => k < s - 1 \/ k = s - 1
  BY <1>1
<1>6. QED BY <1>2, <1>3, <1>4, <1>5

\* What is behind in the directories that stay open as they are.
LEMMA FramesKept ==
  ASSUME IInv, UNCHANGED vol, \A e : IsReported(e) => IsReported(e)', NEW Z, NEW Y,
         Z \subseteq Y, ReachInv(Z), NEW m \in Nat, m <= Len(stack),
         \A i \in 1..m : stack'[i] = stack[i]
  PROVE  \A i \in 1..m :
           /\ FrameSound(i)'
           /\ UpTo(i)' = UpTo(i) => \A x \in Behind(i)' : Finished(Y, i - 1, x)'
<1>1. DOMAIN stack = 1..Len(stack) /\ Len(stack) \in Nat
  BY StackType
<1>2. TAKE i \in 1..m
<1>3. i \in DOMAIN stack /\ i \in Nat \ {0} /\ (i > 1 => i - 1 \in 1..m)
  BY <1>1
<1>4. FrameSound(i) /\ \A x \in Behind(i) : Finished(Z, i - 1, x)
  BY <1>3 DEF ReachInv
<1>5. stack'[i] = stack[i] /\ (i > 1 => stack'[i - 1] = stack[i - 1])
  BY <1>3
<1>6. FrameSound(i)'
  BY <1>3, <1>4, <1>5, FrameSoundKept
<1>7. ASSUME UpTo(i)' = UpTo(i) PROVE \A x \in Behind(i)' : Finished(Y, i - 1, x)'
  BY <1>4, <1>5, <1>7, BehindKept
<1>8. QED BY <1>6, <1>7

LEMMA ChainOfFileEndsReach ==
  ASSUME IInv, NestOK, IsFat, TableIsWhole, ~stop, NEW Z, ReachInv(Z), Fat!ChainOfFileEnds
  PROVE  ReachInv(Z)'
<1> DEFINE n == Len(stack)
           t == walk.file[1]
           f == [name |-> t.name, damaged |-> t.damaged, entry |-> t.entry,
                 extents |-> Fat!Closed(walk)]
           S == FatFiles \cup {f}
<1>1. /\ pc = "chain" /\ walk.file # <<>> /\ files' = Append(files, f)
      /\ pc' = (IF stack = <<>> THEN "done" ELSE "entry") /\ stack' = stack /\ vol' = vol
  BY DEF Fat!ChainOfFileEnds, Fat!Continue
<1>2. /\ stack # <<>> /\ IsPending(n) /\ IsFileEntry(Pending(n)) /\ f.entry = Pending(n)
  BY <1>1 DEF NestOK
<1>3. n \in Nat \ {0} /\ DOMAIN stack = 1..n /\ n \in DOMAIN stack
  BY <1>2, StackType, EmptySeq
<1>4. /\ Len(files') = Len(files) + 1 /\ DOMAIN files' = 1..(Len(files) + 1)
      /\ \A k \in 1..Len(files) : files'[k] = files[k]
      /\ files'[Len(files) + 1] = f /\ DOMAIN files = 1..Len(files) /\ Len(files) \in Nat
  <2>1. files \in Seq(FatFiles) /\ f \in S /\ FatFiles \subseteq S
    BY DEF IInv, TypesOK
  <2> HIDE DEF f, S
  <2>2. files \in Seq(S)
    BY <2>1, SeqMonotonic
  <2>3. QED BY <1>1, <2>1, <2>2, AppendLast, LenProperties
<1> HIDE DEF f
<1>5. \A x : IsReported(x) => IsReported(x)'
  <2>1. \A k \in 1..Len(files) : k \in 1..(Len(files) + 1)
    BY <1>4
  <2>2. QED BY <1>4, <2>1 DEF IsReported
<1>6. ASSUME NEW x, x = Pending(n) PROVE IsReported(x)'
  <2>1. Len(files) + 1 \in DOMAIN files'
    BY <1>4
  <2>2. files'[Len(files) + 1].entry = x
    BY <1>2, <1>4, <1>6
  <2>3. QED BY <2>1, <2>2 DEF IsReported
<1>7. Covered(Z)'
  BY <1>1, <1>5, CoveredKept DEF ReachInv
<1>8. pc' = "entry"
  BY <1>1, <1>2
<1> HIDE DEF n
<1>9. ASSUME NEW i \in 1..n
      PROVE  FrameSound(i)' /\ \A x \in Behind(i)' : Finished(Z, i - 1, x)'
  <2>1. /\ FrameSound(i)'
        /\ UpTo(i)' = UpTo(i) => \A x \in Behind(i)' : Finished(Z, i - 1, x)'
    BY <1>1, <1>3, <1>5, <1>9, FramesKept DEF n
  <2>2. CASE i < n
    <3>1. UpTo(i)' = UpTo(i)
      BY <1>1, <2>2 DEF UpTo, n
    <3>2. QED BY <2>1, <3>1
  <2>3. CASE i = n
    <3>1. UpTo(i) = stack[i].next - 1
      BY <1>1 DEF UpTo
    <3>2. UpTo(i)' = stack[i].next
      <4>1. ~(i < Len(stack'))
        BY <1>1, <1>3, <2>3 DEF n
      <4>2. QED BY <1>1, <1>8, <4>1 DEF UpTo
    <3>3. \A x \in Behind(i)' : x \in Behind(i) \/ x = Pending(i)
      BY <1>1, <1>3, <2>3, <3>1, <3>2, PendingPassed
    <3>4. \A x \in Behind(i) : Finished(Z, i - 1, x)'
      BY <1>1, <1>3, <1>5, <2>3, FinishedKept DEF ReachInv
    <3>5. ASSUME NEW x, x = Pending(i) PROVE Finished(Z, i - 1, x)'
      <4>1. IsReported(x)'
        BY <1>6, <2>3, <3>5
      <4>2. ~IsDirEntry(x)
        BY <1>2, <2>3, <3>5 DEF IsFileEntry, IsDirEntry
      <4>3. QED BY <4>1, <4>2 DEF Finished, IsDirEntry, IsFileEntry
    <3>6. QED BY <2>1, <3>3, <3>4, <3>5
  <2>4. i < n \/ i = n
    BY <1>3
  <2>5. QED BY <2>2, <2>3, <2>4
<1>10. QED BY <1>1, <1>3, <1>7, <1>8, <1>9 DEF ReachInv

LEMMA FollowChainReach ==
  ASSUME IInv, NestOK, IsFat, TableIsWhole, NEW Z, ReachInv(Z), Fat!FollowChain
  PROVE  ReachInv(Z)'
<1>1. pc = "chain" /\ UNCHANGED <<vol, pc, files, stack>> /\ walk'.file = walk.file
  BY PathStep DEF Fat!FollowChain
<1>2. \A x : IsReported(x) => IsReported(x)'
  BY <1>1 DEF IsReported
<1>3. Covered(Z)'
  BY <1>1, <1>2, CoveredKept DEF ReachInv
<1>4. DOMAIN stack = 1..Len(stack) /\ Len(stack) \in Nat
  BY StackType
<1>5. \A i \in DOMAIN stack : FrameSound(i)' /\ \A x \in Behind(i)' : Finished(Z, i - 1, x)'
  <2>1. \A i : UpTo(i)' = UpTo(i)
    BY <1>1 DEF UpTo
  <2>2. Len(stack) <= Len(stack)
    BY <1>4
  <2>3. QED BY <1>1, <1>2, <1>4, <2>1, <2>2, FramesKept
<1>6. ASSUME walk.file = <<>>, NEW b, b = WalkBegan', BeginsSound(b)'
      PROVE  SoundWalk(b)'
  <2>1. b = WalkBegan
    BY <1>1, <1>6 DEF WalkBegan, Pending
  <2>2. BeginsSound(b)
    BY <1>1, <1>6, <2>1, SoundFixed
  <2>3. PICK m \in 0..(TableSize + 1) : SoundAhead(b, m, walk.cluster, Fat!Closed(walk))
    BY <1>1, <1>6, <2>1, <2>2 DEF ReachInv, SoundWalk
  <2>4. m - 1 \in 0..(TableSize + 1) /\ SoundAhead(b, m - 1, walk'.cluster, Fat!Closed(walk'))
    BY <2>2, <2>3, AheadGoesOn
  <2>5. PICK k \in 0..(TableSize + 1) : \E c, t :
          c = walk'.cluster /\ t = Fat!Closed(walk') /\ SoundAhead(b, k, c, t)
    BY <2>4
  <2>6. \E c, t : c = walk'.cluster /\ t = Fat!Closed(walk') /\ SoundAhead(b, k, c, t)'
    BY <1>1, <2>5, SoundFixed
  <2>7. TableSize' = TableSize
    BY <1>1, SoundFixed
  <2>8. Fat!Closed(walk)' = Fat!Closed(walk')
    BY DEF Fat!Closed
  <2>9. QED BY <2>6, <2>7, <2>8 DEF SoundWalk
<1>7. QED BY <1>1, <1>3, <1>5, <1>6 DEF ReachInv

LEMMA RootReach ==
  ASSUME IInv, IsFat, vol.boot, 0 \notin Unsound, TableIsWhole, NEW Z, ReachInv(Z),
         Fat!ParseBootSector \/ Fat!ReadRootDirectory
  PROVE  ReachInv(Z)'
<1>1. stack = <<>> /\ UNCHANGED <<vol, files>>
  BY DEF Fat!ParseBootSector, Fat!ReadRootDirectory, IInv, DepthOK
<1>2. \A x : IsReported(x) => IsReported(x)'
  BY <1>1 DEF IsReported
<1>3. Covered(Z)'
  BY <1>1, <1>2, CoveredKept DEF ReachInv
<1>4. CASE Fat!ParseBootSector
  <2>1. stack' = <<>>
    BY <1>1, <1>4 DEF Fat!ParseBootSector
  <2>2. {0} \cap vol.dead = {} /\ {0} \cap (vol.dead \cup vol.flaky) = {}
    BY DEF Unsound
  <2>3. \A ok \in Fat!ReadResults({0}) : ok
    BY <2>2 DEF Fat!ReadResults
  <2>4. IF vol.fs = "fat32" THEN pc' = "chain" /\ walk' = Fat!ChainOfDirectory(vol.root, 0)
        ELSE pc' = "root"
    BY <1>4, <2>3 DEF Fat!ParseBootSector
  <2>5. ASSUME vol.fs = "fat32", NEW b, b = WalkBegan', BeginsSound(b)'
        PROVE  SoundWalk(b)'
    <3>1. b = vol.root /\ BeginsSound(b)
      BY <1>1, <2>1, <2>5, SoundFixed DEF WalkBegan
    <3>2. walk'.run = 0 /\ walk'.cluster = b /\ walk'.extents = <<>>
      BY <2>4, <2>5, <3>1 DEF Fat!ChainOfDirectory, Fat!NoWalk
    <3>3. Fat!Closed(walk)' = <<>>
      BY <3>2 DEF Fat!Closed
    <3>4. SoundAhead(b, TableSize + 1, b, <<>>) /\ TableSize + 1 \in 0..(TableSize + 1)
      BY <3>1, AheadStarts, ChainsUnfold DEF TableIsWhole, IInv
    <3>5. PICK m \in 0..(TableSize + 1) : SoundAhead(b, m, b, <<>>)
      BY <3>4
    <3>6. SoundAhead(b, m, b, <<>>)' /\ TableSize' = TableSize
      BY <1>1, <3>5, SoundFixed
    <3>7. QED BY <3>2, <3>3, <3>6 DEF SoundWalk
  <2>6. DOMAIN stack' = {}
    BY <2>1
  <2>7. pc' \in {"chain", "root"} /\ (pc' = "root" => vol'.fs # "fat32")
    BY <1>1, <2>4
  <2>8. QED BY <1>3, <2>4, <2>5, <2>6, <2>7 DEF ReachInv
<1>5. CASE Fat!ReadRootDirectory
  <2>1. vol.fs # "fat32"
    BY <1>5 DEF ReachInv, Fat!ReadRootDirectory
  <2>2. CASE pc' = "done" /\ stack' = stack
    <3>1. ~RootBeginsSound
      BY <1>5, <2>1, <2>2 DEF Fat!ReadRootDirectory, Fat!ReadResults, RootBeginsSound, Unsound
    <3>2. DOMAIN stack' = {} /\ ~RootBeginsSound'
      BY <1>1, <2>2, <3>1, SoundFixed
    <3>3. QED BY <1>3, <2>2, <3>2 DEF ReachInv
  <2>3. CASE pc' = "entry" /\ stack' = <<[depth |-> 0, next |-> 1, entries |-> vol.rootEntries,
                                          long |-> <<>>, valid |-> FALSE]>>
    <3>1. /\ Len(stack') = 1 /\ DOMAIN stack' = {1} /\ stack'[1].next = 1
          /\ stack'[1].entries = RootEntries
      BY <2>1, <2>3 DEF RootEntries
    <3>2. FrameSound(1)'
      BY <1>1, <3>1, SoundFixed DEF FrameSound
    <3>3. Behind(1)' = {}
      <4>1. UpTo(1)' = 1
        BY <2>3, <3>1 DEF UpTo
      <4>2. vol.rootEntries \in Seq(Entries)
        BY VolumesAssumption DEF IInv, TypesOK
      <4>3. \A j \in DOMAIN vol.rootEntries : ~(j < 1)
        BY <4>2, LenProperties
      <4>4. stack'[1].entries = vol.rootEntries
        BY <2>3
      <4>5. QED BY <4>1, <4>3, <4>4 DEF Behind
    <3>4. QED BY <1>3, <2>3, <3>1, <3>2, <3>3 DEF ReachInv
  <2>4. QED BY <1>1, <1>5, <2>2, <2>3 DEF Fat!ReadRootDirectory
<1>6. QED BY <1>4, <1>5

LEMMA DirectoryChainEndsReach ==
  ASSUME IInv, NestOK, IsFat, TableIsWhole, NEW Z, ReachInv(Z), Fat!DirectoryChainEnds, IInv'
  PROVE  ReachInv(Z)'
<1> DEFINE n == Len(stack)
           exts == Fat!Closed(walk)
<1>1. /\ n \in Nat /\ DOMAIN stack = 1..n /\ exts \in Seq(Extents)
      /\ pc = "chain" /\ walk.file = <<>> /\ ~IsLink(walk.cluster)
      /\ UNCHANGED <<vol, stop, files>>
      /\ \/ /\ walk.run = 0 /\ stack' = stack
            /\ pc' = (IF stack = <<>> THEN "done" ELSE "entry")
         \/ /\ walk.run # 0 /\ pc' = "entry"
            /\ Len(stack') = n + 1 /\ DOMAIN stack' = 1..(n + 1)
            /\ \A i \in 1..n : stack'[i] = stack[i]
            /\ stack'[n + 1].next = 1
            /\ \E k \in 0..Len(exts) :
                 /\ stack'[n + 1].entries =
                      FlattenSeq([j \in 1..k |-> Fat!ExtentEntries(exts[j])])
                 /\ k < Len(exts) => Fat!ExtentSectors(exts[k + 1]) \cap Unsound # {}
  BY TopOpens
<1>2. \A x : IsReported(x) => IsReported(x)'
  BY <1>1 DEF IsReported
<1>3. Covered(Z)'
  BY <1>1, <1>2, CoveredKept DEF ReachInv
<1>4. TypesOK /\ walk.cluster \in Nat /\ n <= n /\ (stack = <<>> <=> n = 0)
  BY <1>1, StackType DEF IInv, TypesOK, Walks
<1>5. \A i \in 1..n :
        /\ i \in Nat \ {0} /\ UpTo(i) = stack[i].next - 1 /\ IsPending(i)
        /\ FrameSound(i) /\ \A x \in Behind(i) : Finished(Z, i - 1, x)
  BY <1>1 DEF UpTo, NestOK, ReachInv
<1>6. ASSUME NEW i \in 1..n, \A j \in 1..n : stack'[j] = stack[j]
      PROVE  /\ FrameSound(i)'
             /\ UpTo(i)' = UpTo(i) => \A x \in Behind(i)' : Finished(Z, i - 1, x)'
  BY <1>1, <1>2, <1>4, <1>6, FramesKept
<1>7. CASE walk.run = 0
  <2>1. walk.cluster \notin DOMAIN vol.next /\ stack' = stack
        /\ pc' = (IF stack = <<>> THEN "done" ELSE "entry")
    BY <1>1, <1>7 DEF TableIsWhole
  <2>2. CASE stack = <<>>
    <3>1. vol.fs = "fat32" /\ walk.cluster = vol.root
      BY <1>1, <1>7, <2>2 DEF NestOK, IsWalkFrom
    <3>2. ~RootBeginsSound /\ ~RootBeginsSound'
      BY <1>1, <2>1, <3>1, SoundFixed DEF RootBeginsSound, BeginsSound
    <3>3. QED BY <1>3, <2>1, <2>2, <3>2 DEF ReachInv
  <2>3. CASE stack # <<>>
    <3>0. n \in Nat /\ n # 0 /\ pc' = "entry"
      BY <1>4, <1>1, <2>1, <2>3
    <3>2. IsDirEntry(Pending(n)) /\ Pending(n).cluster = walk.cluster
      BY <1>1, <1>7, <2>3 DEF NestOK, IsWalkFrom
    <3> HIDE DEF n
    <3>1. n \in 1..n /\ pc' = "entry"
      BY <3>0
    <3>3. ASSUME NEW i \in 1..n
          PROVE  FrameSound(i)' /\ \A x \in Behind(i)' : Finished(Z, i - 1, x)'
      <4>1. /\ FrameSound(i)'
            /\ UpTo(i)' = UpTo(i) => \A x \in Behind(i)' : Finished(Z, i - 1, x)'
        BY <1>6, <2>1, <3>3
      <4>2. CASE i < n
        <5>1. UpTo(i)' = UpTo(i)
          BY <2>1, <4>2 DEF UpTo, n
        <5>2. QED BY <4>1, <5>1
      <4>3. CASE i = n
        <5>1. UpTo(i)' = stack[i].next
          <6>1. Len(stack') = n
            BY <2>1 DEF n
          <6>2. ~(i < Len(stack'))
            BY <1>1, <4>3, <6>1
          <6>3. QED BY <2>1, <3>1, <6>2 DEF UpTo
        <5>2. \A x \in Behind(i)' : x \in Behind(i) \/ x = Pending(i)
          BY <1>1, <1>5, <2>1, <5>1, PendingPassed
        <5>3. \A x \in Behind(i) : Finished(Z, i - 1, x)'
          BY <1>1, <1>2, <1>5, FinishedKept
        <5>4. ASSUME NEW x, x = Pending(i) PROVE Finished(Z, i - 1, x)'
          <6>1. ~IsFileEntry(x) /\ ~BeginsSound(x.cluster)
            BY <2>1, <3>2, <4>3, <5>4 DEF IsFileEntry, IsDirEntry, BeginsSound
          <6>2. Finished(Z, i - 1, x)
            BY <6>1 DEF Finished
          <6>3. QED BY <1>1, <1>2, <6>2, FinishedKept
        <5>5. QED BY <4>1, <5>2, <5>3, <5>4
      <4>4. i < n \/ i = n
        BY <1>1
      <4>5. QED BY <4>2, <4>3, <4>4
    <3>4. DOMAIN stack' = 1..n
      BY <1>1, <2>1
    <3>5. QED BY <1>3, <3>1, <3>3, <3>4 DEF ReachInv
  <2>4. QED BY <2>2, <2>3
<1>8. CASE walk.run # 0
  <2>1. /\ pc' = "entry" /\ Len(stack') = n + 1 /\ DOMAIN stack' = 1..(n + 1)
        /\ \A i \in 1..n : stack'[i] = stack[i]
        /\ stack'[n + 1].next = 1
    BY <1>1, <1>8
  <2>2. PICK k \in 0..Len(exts) :
          /\ stack'[n + 1].entries = FlattenSeq([j \in 1..k |-> Fat!ExtentEntries(exts[j])])
          /\ k < Len(exts) => Fat!ExtentSectors(exts[k + 1]) \cap Unsound # {}
    BY <1>1, <1>8
  <2> HIDE DEF n
  <2>3. ASSUME NEW i \in 1..n
        PROVE  FrameSound(i)' /\ \A x \in Behind(i)' : Finished(Z, i - 1, x)'
    <3>1. i < Len(stack')
      BY <1>1, <2>1
    <3>2. UpTo(i)' = UpTo(i)
      BY <1>5, <2>1, <3>1 DEF UpTo
    <3>3. QED BY <1>6, <2>1, <3>2
  <2>4. ASSUME NEW b, b = WalkBegan, BeginsSound(b) PROVE stack'[n + 1].entries = EntriesOf(b)
    <3>1. PICK m \in 0..(TableSize + 1) : SoundAhead(b, m, walk.cluster, exts)
      BY <1>1, <2>4 DEF ReachInv, SoundWalk
    <3> HIDE DEF exts
    <3>2. Reads(exts) = EntriesOf(b) /\ SoundExtents(exts)
      BY <1>1, <1>4, <3>1, AheadEnds
    <3>3. Len(exts) \in Nat /\ DOMAIN exts = 1..Len(exts)
      BY <1>1, LenProperties
    <3>4. k = Len(exts)
      <4>1. k \in Nat /\ k <= Len(exts)
        BY <2>2, <3>3
      <4>2. ASSUME k < Len(exts) PROVE FALSE
        <5>1. k + 1 \in DOMAIN exts
          BY <3>3, <4>1, <4>2
        <5>2. QED BY <2>2, <3>2, <4>2, <5>1 DEF SoundExtents
      <4>3. \A a, z \in Nat : a <= z => a < z \/ a = z
        OBVIOUS
      <4>4. QED BY <3>3, <4>1, <4>2, <4>3
    <3>5. QED BY <2>2, <3>2, <3>4 DEF Reads
  <2>5. ASSUME NEW i, i = n + 1
        PROVE  FrameSound(i)' /\ \A x \in Behind(i)' : Finished(Z, i - 1, x)'
    <3>1. FrameSound(i)'
      <4>1. CASE n = 0
        <5>1. vol.fs = "fat32" /\ WalkBegan = vol.root
          BY <1>1, <1>4, <4>1 DEF NestOK, WalkBegan, n
        <5>2. RootBeginsSound => stack'[1].entries = RootEntries
          BY <2>4, <4>1, <5>1 DEF RootBeginsSound, RootEntries
        <5>3. i = 1
          BY <2>5, <4>1
        <5>4. QED BY <1>1, <5>2, <5>3, SoundFixed DEF FrameSound
      <4>2. CASE n # 0
        <5>1. WalkBegan = Pending(n).cluster /\ i # 1 /\ i - 1 = n /\ n \in 1..n
          BY <1>1, <1>4, <2>5, <4>2 DEF WalkBegan, n
        <5>2. Pending(i - 1)' = Pending(n)
          BY <2>1, <5>1 DEF Pending
        <5>3. \A c : c = Pending(n).cluster /\ BeginsSound(c) => stack'[i].entries = EntriesOf(c)
          BY <2>4, <2>5, <5>1
        <5>4. QED BY <1>1, <5>1, <5>2, <5>3, SoundFixed DEF FrameSound
      <4>3. QED BY <4>1, <4>2
    <3>3. Behind(i)' = {}
      <4>1. ~(i < Len(stack')) /\ stack'[i].next = 1
        BY <1>1, <2>1, <2>5
      <4>2. UpTo(i)' = 1
        BY <2>1, <4>1 DEF UpTo
      <4>3. \A j \in DOMAIN stack'[i].entries : ~(j < 1)
        <5>1. stack' \in Seq(Frames) /\ Len(stack') \in Nat
          BY <1>1, <2>1 DEF IInv, TypesOK, Frames
        <5>2. stack'[i] \in Frames
          BY <1>1, <2>1, <2>5, <5>1, ElementOfSeq
        <5>3. stack'[i].entries \in Seq(Entries)
          BY <5>2 DEF Frames
        <5>4. QED BY <5>3, LenProperties
      <4>4. QED BY <4>2, <4>3 DEF Behind
    <3>4. QED BY <3>1, <3>3
  <2>6. \A i \in 1..(n + 1) : i \in 1..n \/ i = n + 1
    BY <1>1
  <2>7. \A i \in DOMAIN stack' : FrameSound(i)' /\ \A x \in Behind(i)' : Finished(Z, i - 1, x)'
    BY <2>1, <2>3, <2>5, <2>6
  <2>8. QED BY <1>3, <2>1, <2>7 DEF ReachInv
<1>9. QED BY <1>7, <1>8

LEMMA DirectoryDoneReach ==
  ASSUME IInv, NestOK, IsFat, TableIsWhole, NEW Z, ReachInv(Z), Fat!DirectoryDone
  PROVE  \E Y : ReachInv(Y)'
<1> DEFINE n == Len(stack)
           s == stack[n].next
           q == stack[n].entries
<1>1. /\ n \in Nat \ {0} /\ DOMAIN stack = 1..n
      /\ Len(stack') = n - 1 /\ DOMAIN stack' = 1..(n - 1)
      /\ \A i \in 1..(n - 1) : stack'[i] = stack[i]
      /\ s \notin DOMAIN q \/ q[s].attr = "end"
      /\ pc = "entry" /\ pc' = (IF n = 1 THEN "done" ELSE "entry")
      /\ UNCHANGED <<vol, stop, files, walk>>
  BY TopCloses
<1>2. \A x : IsReported(x) => IsReported(x)'
  BY <1>1 DEF IsReported
<1>3. Covered(Z) /\ Covered(Z)'
  BY <1>1, <1>2, CoveredKept DEF ReachInv
<1>4. n \in 1..n /\ s \in Nat \ {0} /\ DOMAIN q = 1..Len(q) /\ Len(q) \in Nat
  <2>1. n \in DOMAIN stack
    <3> HIDE DEF n
    <3>1. QED BY <1>1
  <2>2. QED BY <1>1, <2>1, StackType
<1>5. FrameSound(n) /\ \A x \in Behind(n) : Finished(Z, n - 1, x)
  BY <1>1, <1>4 DEF ReachInv
\* All that the directory lists is done with.
<1>6. \A x \in Listed(q) : Finished(Z, n - 1, x)
  <2>1. UpTo(n) = s
    BY <1>1 DEF UpTo
  <2>2. Behind(n) = {q[k] : k \in {j \in DOMAIN q : j < s}}
    BY <2>1 DEF Behind
  <2> HIDE DEF n, s, q
  <2>3. \A k \in DOMAIN q : (\A j \in 1..k : q[j].attr # "end") => k < s
    <3>1. TAKE k \in DOMAIN q
    <3>2. HAVE \A j \in 1..k : q[j].attr # "end"
    <3>3. ASSUME ~(k < s) PROVE FALSE
      <4>1. s \in 1..k /\ s \in DOMAIN q
        BY <1>4, <3>1, <3>3
      <4>2. QED BY <1>1, <3>2, <4>1
    <3>4. QED BY <3>3
  <2>4. \A x \in Listed(q) : x \in Behind(n)
    BY <2>2, <2>3 DEF Listed
  <2>5. QED BY <1>5, <2>4
<1>7. CASE n = 1
  <2>1. DOMAIN stack' = {} /\ pc' = "done"
    BY <1>1, <1>7
  <2>2. ASSUME RootBeginsSound', NEW e \in Listed(RootEntries)' PROVE Finished(Z, 0, e)'
    <3>1. RootBeginsSound /\ e \in Listed(RootEntries)
      BY <1>1, <2>2, SoundFixed
    <3>2. q = RootEntries
      BY <1>5, <1>7, <3>1 DEF FrameSound
    <3>3. Finished(Z, 0, e)
      BY <1>6, <1>7, <3>1, <3>2
    <3>4. QED BY <1>1, <1>2, <3>3, FinishedKept
  <2>3. ReachInv(Z)'
    BY <1>3, <2>1, <2>2 DEF ReachInv
  <2>4. QED BY <2>3
<1>8. CASE n # 1
  <2> DEFINE m == n - 1
             b == Pending(m).cluster
  <2>1. /\ m \in Nat /\ m \in 1..m /\ m \in 1..n /\ m <= n /\ m < n /\ (m - 1) + 1 = m
        /\ \A i \in 1..m : i < m \/ i = m
    <3>1. n \in Nat /\ n > 1
      BY <1>1, <1>8
    <3> HIDE DEF n
    <3>2. QED BY <3>1
  <2>2. PICK Y :
          /\ Z \subseteq Y /\ (BeginsSound(b) => <<m, b>> \in Y)
          /\ \A d, c : <<d, c>> \in Y => <<d, c>> \in Z \/ (d = m /\ c = b /\ BeginsSound(b))
    <3> DEFINE W == Z \cup {x \in {<<m, b>>} : BeginsSound(b)}
    <3>1. Z \subseteq W /\ (BeginsSound(b) => <<m, b>> \in W)
      OBVIOUS
    <3>2. \A d, c : <<d, c>> \in W => <<d, c>> \in Z \/ (d = m /\ c = b /\ BeginsSound(b))
      OBVIOUS
    <3> HIDE DEF W
    <3>3. QED BY <3>1, <3>2
  <2>3. BeginsSound(b) => q = EntriesOf(b)
    BY <1>5, <1>8 DEF FrameSound
  <2>5. IsDirEntry(Pending(m)) /\ UpTo(m) = stack[m].next - 1
    BY <1>1, <2>1 DEF NestOK, UpTo
  <2>6. Covered(Y)'
    <3>1. SUFFICES ASSUME NEW d, NEW c, <<d, c>> \in Y
                   PROVE  \A e \in Listed(EntriesOf(c)) : Finished(Z, d, e)
      BY <1>1, <1>2, <2>2, SoundFixed, FinishedKept DEF Covered
    <3>2. CASE <<d, c>> \in Z
      BY <1>3, <3>2 DEF Covered
    <3>3. CASE d = m /\ c = b /\ BeginsSound(b)
      <4>1. EntriesOf(c) = q
        BY <2>3, <3>3
      <4>2. QED BY <1>6, <3>3, <4>1
    <3>4. QED BY <2>2, <3>1, <3>2, <3>3
  <2>7. ASSUME NEW i \in 1..m
        PROVE  FrameSound(i)' /\ \A x \in Behind(i)' : Finished(Y, i - 1, x)'
    <3>1. /\ FrameSound(i)'
          /\ UpTo(i)' = UpTo(i) => \A x \in Behind(i)' : Finished(Y, i - 1, x)'
      <4> HIDE DEF m
      <4>1. m <= Len(stack) /\ \A j \in 1..m : stack'[j] = stack[j]
        BY <1>1, <2>1 DEF m
      <4>2. QED BY <1>1, <1>2, <2>1, <2>2, <2>7, <4>1, FramesKept
    <3>2. CASE i < m
      <4>1. UpTo(i)' = UpTo(i)
        <5>0. i < n /\ Len(stack') = m /\ stack'[i] = stack[i]
          <6>1. Len(stack') = m /\ stack'[i] = stack[i]
            BY <1>1, <2>7
          <6>2. n \in Nat
            BY <1>1
          <6> HIDE DEF n
          <6>3. i < n
            BY <2>7, <6>2
          <6>4. QED BY <6>1, <6>3
        <5>1. i < Len(stack) /\ i < Len(stack') /\ stack'[i] = stack[i]
          BY <3>2, <5>0
        <5>2. QED BY <5>1 DEF UpTo
      <4>2. QED BY <3>1, <4>1
    <3>3. CASE i = m
      <4>1. UpTo(i) = stack[i].next - 1 /\ stack'[i] = stack[i] /\ i \in DOMAIN stack
        BY <1>1, <2>1, <2>5, <3>3
      <4>2. UpTo(i)' = stack[i].next
        <5>0. i \in Nat /\ Len(stack') = i /\ pc' = "entry"
          BY <1>1, <1>8, <2>1, <3>3
        <5>1. ~(i < Len(stack')) /\ pc' = "entry"
          BY <5>0
        <5>2. QED BY <4>1, <5>1 DEF UpTo
      <4>3. \A x \in Behind(i)' : x \in Behind(i) \/ x = Pending(i)
        BY <4>1, <4>2, PendingPassed
      <4>4. \A x \in Behind(i) : Finished(Z, i - 1, x)
        BY <1>1, <4>1 DEF ReachInv
      <4>5. \A x \in Behind(i) : Finished(Y, i - 1, x)'
        BY <1>1, <1>2, <2>2, <4>4, FinishedKept
      <4>6. ASSUME NEW x, x = Pending(i) PROVE Finished(Y, i - 1, x)'
        <5>1. ~IsFileEntry(x) /\ (i - 1) + 1 = m /\ x.cluster = b
          BY <2>1, <2>5, <3>3, <4>6 DEF IsFileEntry, IsDirEntry
        <5>2. Finished(Y, i - 1, x)
          BY <2>2, <5>1 DEF Finished
        <5>3. QED BY <1>1, <1>2, <5>2, FinishedKept
      <4>7. QED BY <3>1, <4>3, <4>5, <4>6
    <3>4. QED BY <2>1, <2>7, <3>2, <3>3
  <2>8. pc' = "entry"
    BY <1>1, <1>8
  <2>9. ReachInv(Y)'
    <3>1. DOMAIN stack' = 1..m
      BY <1>1
    <3> HIDE DEF m
    <3>2. QED BY <2>6, <2>7, <2>8, <3>1 DEF ReachInv
  <2>10. QED BY <2>9
<1>9. QED BY <1>7, <1>8

LEMMA StepVolume ==
  ASSUME [Next]_vars
  PROVE  vol' = vol /\ (~stop' => ~stop)
<1>1. CASE Fat!FatNext
  <2>1. vol' = vol /\ stop' = stop
    <3>1. CASE \/ Fat!ParseBootSector \/ Fat!ReadRootDirectory \/ Fat!FollowChain
               \/ Fat!OutOfMemory \/ Fat!ChainOfFileEnds \/ Fat!DirectoryChainEnds
      BY <3>1 DEF Fat!ParseBootSector, Fat!ReadRootDirectory, Fat!FollowChain,
         Fat!OutOfMemory, Fat!ChainOfFileEnds, Fat!DirectoryChainEnds
    <3>2. CASE \/ Fat!LongNameEntry \/ Fat!DirectoryEntry \/ Fat!FileEntry
               \/ Fat!OtherEntry \/ Fat!DirectoryDone
      BY <3>2 DEF Fat!LongNameEntry, Fat!DirectoryEntry, Fat!FileEntry,
         Fat!OtherEntry, Fat!DirectoryDone
    <3>3. QED BY <1>1, <3>1, <3>2 DEF Fat!FatNext
  <2>2. QED BY <2>1
<1>2. CASE Mft!MftNext
  BY <1>2 DEF Mft!MftNext, Mft!ParseMftBootSector, Mft!ReadBatch,
     Mft!EnumerationStops, Mft!ProcessRecord, Mft!ProcessSingleRecord, Mft!BatchDone
<1>3. CASE DetectFilesystem \/ RequestStop \/ UNCHANGED vars
  BY <1>3 DEF DetectFilesystem, RequestStop, vars
<1>4. QED BY <1>1, <1>2, <1>3 DEF Next, Parse

LEMMA StepTerminates ==
  ASSUME [Next]_vars, pc' # "terminated"
  PROVE  pc # "terminated" /\ ~Fat!OutOfMemory
<1>1. CASE Fat!FatNext
  BY <1>1 DEF Fat!FatNext, Fat!ParseBootSector, Fat!ReadRootDirectory, Fat!FollowChain,
     Fat!OutOfMemory, Fat!ChainOfFileEnds, Fat!DirectoryChainEnds, Fat!LongNameEntry,
     Fat!DirectoryEntry, Fat!FileEntry, Fat!OtherEntry, Fat!DirectoryDone, Fat!AtEntry
<1>2. CASE Mft!MftNext
  BY <1>2 DEF Mft!MftNext, Mft!ParseMftBootSector, Mft!ReadBatch, Mft!EnumerationStops,
     Mft!ProcessRecord, Mft!ProcessSingleRecord, Mft!BatchDone, Fat!OutOfMemory
<1>3. CASE DetectFilesystem \/ RequestStop \/ UNCHANGED vars
  BY <1>3 DEF DetectFilesystem, RequestStop, vars, Fat!OutOfMemory
<1>4. QED BY <1>1, <1>2, <1>3 DEF Next, Parse

LEMMA StepReach ==
  ASSUME IInv, IInv', NestOK, ReachOK, TableIsWhole, [Next]_vars
  PROVE  ReachOK'
<1>1. vol' = vol /\ (~stop' => ~stop)
  BY StepVolume
<1>0. pc' # "terminated" => pc # "terminated" /\ ~Fat!OutOfMemory
  BY StepTerminates
<1>2. SUFFICES ASSUME IsFat, vol.boot, 0 \notin Unsound, ~stop', ~stop, NEW Z, ReachInv(Z),
                      ~Fat!OutOfMemory
               PROVE  \E Y : ReachInv(Y)'
  <2>1. IsFat' = IsFat /\ Unsound' = Unsound
    BY <1>1, SoundFixed
  <2>2. QED BY <1>0, <1>1, <2>1 DEF ReachOK
<1>3. CASE Fat!LongNameEntry \/ Fat!DirectoryEntry \/ Fat!FileEntry \/ Fat!OtherEntry
  <2>1. ReachInv(Z)'
    BY <1>2, <1>3, EntryReach
  <2>2. QED BY <2>1
<1>4. CASE Fat!DirectoryDone
  BY <1>2, <1>4, DirectoryDoneReach
<1>5. CASE Fat!DirectoryChainEnds
  <2>1. ReachInv(Z)'
    BY <1>2, <1>5, DirectoryChainEndsReach
  <2>2. QED BY <2>1
<1>6. CASE Fat!ChainOfFileEnds
  <2>1. ReachInv(Z)'
    BY <1>2, <1>6, ChainOfFileEndsReach
  <2>2. QED BY <2>1
<1>7. CASE Fat!FollowChain
  <2>1. ReachInv(Z)'
    BY <1>2, <1>7, FollowChainReach
  <2>2. QED BY <2>1
<1>8. CASE Fat!ParseBootSector \/ Fat!ReadRootDirectory
  <2>1. ReachInv(Z)'
    BY <1>2, <1>8, RootReach
  <2>2. QED BY <2>1
<1>9. CASE Mft!MftNext
  <2>1. pc \in OnMft
    BY <1>9 DEF Mft!MftNext, Mft!ParseMftBootSector, Mft!ReadBatch, Mft!EnumerationStops,
       Mft!ProcessRecord, Mft!ProcessSingleRecord, Mft!BatchDone, OnMft
  <2>2. QED BY <1>2, <2>1 DEF IInv, TypesOK
<1>10. CASE DetectFilesystem
  <2>1. stack = <<>> /\ stack' = <<>> /\ UNCHANGED files
    BY <1>10 DEF DetectFilesystem, IInv, DepthOK, fatVars
  <2>2. Detected \in {"ntfs", "fat", "raw"}
    BY DEF Detected
  <2>3. pc' \in {"ntfs", "fat", "raw"}
    BY <1>10, <2>2 DEF DetectFilesystem
  <2>4. \A x : IsReported(x) => IsReported(x)'
    BY <2>1 DEF IsReported
  <2>5. Covered(Z)'
    BY <1>1, <1>2, <2>4, CoveredKept DEF ReachInv
  <2>6. DOMAIN stack' = {}
    BY <2>1
  <2>7. ReachInv(Z)'
    BY <2>3, <2>5, <2>6 DEF ReachInv
  <2>8. QED BY <2>7
<1>11. CASE RequestStop
  BY <1>2, <1>11 DEF RequestStop
<1>12. CASE UNCHANGED vars
  <2>1. UNCHANGED <<vol, pc, files, stack, walk>>
    BY <1>12 DEF vars
  <2>2. \A x : IsReported(x) => IsReported(x)'
    BY <2>1 DEF IsReported
  <2>3. \A d, e : Finished(Z, d, e) => Finished(Z, d, e)'
    BY <2>1, <2>2, FinishedKept
  <2>4. Covered(Z)'
    BY <1>2, <2>1, <2>2, CoveredKept DEF ReachInv
  <2>5. \A i \in DOMAIN stack' : FrameSound(i)' /\ \A x \in Behind(i)' : Finished(Z, i - 1, x)'
    <3>1. \A i : UpTo(i)' = UpTo(i)
      BY <2>1 DEF UpTo
    <3>2. Len(stack) <= Len(stack) /\ DOMAIN stack = 1..Len(stack) /\ Len(stack) \in Nat
      BY StackType
    <3>3. QED BY <1>2, <2>1, <2>2, <3>1, <3>2, FramesKept
  <2>6. ASSUME NEW b, SoundWalk(b) PROVE SoundWalk(b)'
    <3>1. PICK m \in 0..(TableSize + 1) : SoundAhead(b, m, walk.cluster, Fat!Closed(walk))
      BY <2>6 DEF SoundWalk
    <3>2. \E c, t : c = walk.cluster /\ t = Fat!Closed(walk) /\ SoundAhead(b, m, c, t)'
      BY <2>1, <3>1, SoundFixed
    <3>3. TableSize' = TableSize
      BY <2>1, SoundFixed
    <3>4. Fat!Closed(walk)' = Fat!Closed(walk)
      BY <2>1 DEF Fat!Closed
    <3>5. QED BY <2>1, <3>2, <3>3, <3>4 DEF SoundWalk
  <2>7. WalkBegan' = WalkBegan /\ \A b : BeginsSound(b)' <=> BeginsSound(b)
    BY <2>1, SoundFixed DEF WalkBegan, Pending
  <2>8. RootBeginsSound' <=> RootBeginsSound
    BY <2>1, SoundFixed
  <2>9. ASSUME NEW e \in Listed(RootEntries)' PROVE e \in Listed(RootEntries)
    BY <2>1, <2>9, SoundFixed
  <2>10. ReachInv(Z)'
    BY <1>2, <2>1, <2>3, <2>4, <2>5, <2>6, <2>7, <2>8, <2>9 DEF ReachInv
  <2>11. QED BY <2>10
<1>13. QED BY <1>2, <1>3, <1>4, <1>5, <1>6, <1>7, <1>8, <1>9, <1>10, <1>11, <1>12
          DEF Next, Parse, Fat!FatNext

LEMMA InitReach ==
  ASSUME Init
  PROVE  NestOK /\ ReachOK
<1>1. stack = <<>> /\ pc = "detect"
  BY DEF Init, Fat!FatInit
<1>2. DOMAIN stack = {}
  BY <1>1
<1>3. NestOK
  BY <1>1, <1>2 DEF NestOK
<1>4. ReachInv({})
  BY <1>1, <1>2 DEF ReachInv, Covered
<1>5. QED BY <1>3, <1>4 DEF ReachOK

----------------------------------------------------------------------------
(* The files that can be got at, and the end of the enumeration.           *)

RootListing == IF RootIsSound THEN {Listed(RootEntries)} ELSE {}
ListingsBelow(L) ==
  {Listed(EntriesOf(c)) :
     c \in {e.cluster : e \in {f \in UNION L : IsDirEntry(f) /\ DirectoryIsSound(f.cluster)}}}
AreListings(n, g) ==
  g = [d \in 0..n |-> IF d = 0 THEN RootListing ELSE ListingsBelow(g[d - 1])]

\* The recursive function SoundListings exists.
LEMMA ListingsExist ==
  ASSUME NEW n \in Nat
  PROVE  \E g : AreListings(n, g)
<1> DEFINE Is(m, f) == f = [d \in 0..m |-> IF d = 0 THEN RootListing ELSE ListingsBelow(f[d - 1])]
           T == {m \in Nat : ~\E f : Is(m, f)}
<1>1. SUFFICES ASSUME n \in T PROVE FALSE
  BY DEF AreListings
<1>2. PICK m \in T : \A k \in T : m <= k
  <2>1. T \in SUBSET Nat /\ T # {}
    BY <1>1
  <2> HIDE DEF T
  <2>2. QED BY <2>1, LeastNat
<1>3. m \in Nat /\ ~\E f : Is(m, f)
  BY <1>2
<1>4. CASE m = 0
  <2> DEFINE g == [d \in 0..0 |-> RootListing]
  <2>1. \A d \in 0..0 : d = 0
    OBVIOUS
  <2>2. g = [d \in 0..0 |-> IF d = 0 THEN RootListing ELSE ListingsBelow(g[d - 1])]
    BY <2>1
  <2> HIDE DEF g
  <2>3. QED BY <1>3, <1>4, <2>2
<1>5. CASE m # 0
  <2>1. m - 1 \in Nat /\ ~(m <= m - 1)
    BY <1>3, <1>5
  <2>2. PICK f : Is(m - 1, f)
    <3>1. m - 1 \notin T
      BY <1>2, <2>1
    <3>2. QED BY <2>1, <3>1
  <2> DEFINE g == [d \in 0..m |-> IF d = 0 THEN RootListing ELSE ListingsBelow(f[d - 1])]
  <2>3. \A d \in 0..(m - 1) : g[d] = f[d]
    <3>1. TAKE d \in 0..(m - 1)
    <3>2. d \in 0..m
      BY <2>1
    <3>3. f[d] = IF d = 0 THEN RootListing ELSE ListingsBelow(f[d - 1])
      BY <2>2, <3>1
    <3>4. QED BY <3>2, <3>3
  <2>4. \A d \in 0..m : d # 0 => d - 1 \in 0..(m - 1)
    BY <2>1
  <2>5. g = [d \in 0..m |-> IF d = 0 THEN RootListing ELSE ListingsBelow(g[d - 1])]
    <3>1. \A d \in 0..m : d # 0 => g[d - 1] = f[d - 1]
      <4> HIDE DEF g
      <4>1. QED BY <2>3, <2>4
    <3>2. QED BY <3>1
  <2> HIDE DEF g
  <2>6. QED BY <1>3, <2>5
<1>6. QED BY <1>4, <1>5

LEMMA ListingsUnfold ==
  \A d \in 0..MaxDepth :
    SoundListings[d] = IF d = 0 THEN RootListing ELSE ListingsBelow(SoundListings[d - 1])
<1> DEFINE Is(f) == f = [d \in 0..MaxDepth |->
                           IF d = 0 THEN IF RootIsSound THEN {Listed(RootEntries)} ELSE {}
                           ELSE {Listed(EntriesOf(c)) :
                                   c \in {e.cluster : e \in {x \in UNION f[d - 1] :
                                            IsDirEntry(x) /\ DirectoryIsSound(x.cluster)}}}]
           f == CHOOSE f : Is(f)
<1>1. SoundListings = f
  BY DEF SoundListings
<1>2. PICK g : AreListings(MaxDepth, g)
  BY ListingsExist, Params
<1>3. Is(g)
  BY <1>2 DEF AreListings, RootListing, ListingsBelow
<1>4. Is(f)
  BY <1>3
<1> HIDE DEF f
<1>5. \A d \in 0..MaxDepth : f[d] = IF d = 0 THEN RootListing ELSE ListingsBelow(f[d - 1])
  BY <1>4 DEF RootListing, ListingsBelow
<1>6. QED BY <1>1, <1>5

LEMMA EntriesOfType ==
  ASSUME TypesOK, IsFat, TableIsWhole, NEW c \in Nat
  PROVE  /\ EntriesOf(c) \in Seq(Entries)
         /\ c \notin DOMAIN vol.next => EntriesOf(c) = <<>>
<1>1. /\ TableSize \in Nat /\ TableSize + 1 \in 0..(TableSize + 1)
      /\ TrueChain(c) = Chains[TableSize + 1][c]
  BY ChainsUnfold DEF TableIsWhole
<1>2. TrueChain(c) \in Seq(DOMAIN vol.next) /\ EntriesOf(c) = Along(TrueChain(c))
  BY <1>1, ChainsType DEF EntriesOf, Along, Dir
<1>3. CASE c \in DOMAIN vol.next
  BY <1>2, <1>3, AlongChain
<1>4. CASE c \notin DOMAIN vol.next
  <2>1. TrueChain(c) = <<>>
    BY <1>1, <1>4, ChainsUnfold DEF TableIsWhole
  <2>2. EntriesOf(c) = <<>>
    BY <1>2, <2>1, ReadsNone
  <2>3. QED BY <2>2
<1>5. QED BY <1>3, <1>4

LEMMA ListedType ==
  ASSUME NEW S, NEW s \in Seq(S)
  PROVE  Listed(s) \subseteq S /\ Listed(<<>>) = {}
<1>1. \A k \in DOMAIN s : s[k] \in S
  BY ElementOfSeq, LenProperties
<1>2. QED BY <1>1 DEF Listed

\* At the end every file that can be got at was reported, and every directory
\* that can be got at gone through.
LEMMA AllFinished ==
  ASSUME TypesOK, IsFat, TableIsWhole, NEW Z, ReachInv(Z), pc = "done"
  PROVE  \A d \in 0..MaxDepth : \A e \in UNION SoundListings[d] : Finished(Z, d, e)
<1> DEFINE Good(d) == \A e \in UNION SoundListings[d] : e \in Entries /\ Finished(Z, d, e)
           T == {d \in 0..MaxDepth : ~Good(d)}
<1>1. SUFFICES ASSUME T # {} PROVE FALSE
  OBVIOUS
<1>2. PICK m \in T : \A k \in T : m <= k
  <2>1. T \in SUBSET Nat
    OBVIOUS
  <2> HIDE DEF T
  <2>2. QED BY <1>1, <2>1, LeastNat
<1>3. m \in 0..MaxDepth /\ ~Good(m) /\ MaxDepth \in Nat
  BY <1>2, Params
<1>4. PICK e \in UNION SoundListings[m] : ~(e \in Entries /\ Finished(Z, m, e))
  BY <1>3
<1>5. vol.rootEntries \in Seq(Entries) /\ vol.root \in Nat
  BY VolumesAssumption DEF TypesOK
<1>6. CASE m = 0
  <2>1. RootIsSound /\ e \in Listed(RootEntries)
    BY <1>3, <1>4, <1>6, ListingsUnfold DEF RootListing
  <2>2. RootEntries \in Seq(Entries)
    BY <1>5, EntriesOfType DEF RootEntries
  <2>3. e \in Entries
    BY <2>1, <2>2, ListedType
  <2>4. RootBeginsSound
    <3>1. CASE vol.fs = "fat32"
      <4>1. vol.root \in DOMAIN vol.next
        BY <1>5, <2>1, <2>2, <3>1, EntriesOfType, ListedType DEF RootEntries
      <4>2. QED BY <2>1, <3>1, <4>1 DEF RootIsSound, RootBeginsSound, BeginsSound
    <3>2. CASE vol.fs # "fat32"
      BY <2>1, <3>2 DEF RootIsSound, RootBeginsSound
    <3>3. QED BY <3>1, <3>2
  <2>5. QED BY <1>4, <1>6, <2>1, <2>3, <2>4 DEF ReachInv
<1>7. CASE m # 0
  <2>1. m - 1 \in 0..MaxDepth /\ ~(m <= m - 1) /\ m - 1 < MaxDepth /\ (m - 1) + 1 = m
    BY <1>3, <1>7
  <2>2. Good(m - 1)
    <3>1. m - 1 \notin T
      BY <1>2, <2>1
    <3>2. QED BY <2>1, <3>1
  <2>3. PICK f \in UNION SoundListings[m - 1] :
          IsDirEntry(f) /\ DirectoryIsSound(f.cluster) /\ e \in Listed(EntriesOf(f.cluster))
    <3>1. SoundListings[m] = ListingsBelow(SoundListings[m - 1])
      BY <1>3, <1>7, ListingsUnfold
    <3>2. \A L : \A x \in UNION ListingsBelow(L) : \E f \in UNION L :
            IsDirEntry(f) /\ DirectoryIsSound(f.cluster) /\ x \in Listed(EntriesOf(f.cluster))
      BY DEF ListingsBelow
    <3>3. QED BY <1>4, <3>1, <3>2
  <2>4. f \in Entries /\ Finished(Z, m - 1, f) /\ f.cluster \in Nat
    BY <2>2, EntriesAssumption
  <2>5. EntriesOf(f.cluster) \in Seq(Entries) /\ f.cluster \in DOMAIN vol.next
    BY <2>3, <2>4, EntriesOfType, ListedType
  <2>6. e \in Entries
    BY <2>3, <2>5, ListedType
  <2>7. <<(m - 1) + 1, f.cluster>> \in Z
    BY <2>1, <2>3, <2>4, <2>5 DEF Finished, BeginsSound
  <2>8. Finished(Z, m, e)
    BY <2>1, <2>3, <2>7 DEF ReachInv, Covered
  <2>9. QED BY <1>4, <2>6, <2>8
<1>8. QED BY <1>6, <1>7

LEMMA ReportedCounts ==
  ASSUME TypesOK, NEW e, IsReported(e)
  PROVE  TimesReported(e) >= 1
<1> DEFINE K == {k \in DOMAIN files : files[k].entry = e}
<1>1. DOMAIN files = 1..Len(files) /\ Len(files) \in Nat
  BY LenProperties DEF TypesOK
<1>2. IsFiniteSet(DOMAIN files) /\ K \subseteq DOMAIN files
  BY <1>1, FS_Interval
<1>3. IsFiniteSet(K)
  BY <1>2, FS_Subset
<1>4. K # {}
  BY DEF IsReported
<1> HIDE DEF K
<1>5. Cardinality(K) \in Nat /\ Cardinality(K) # 0
  BY <1>3, <1>4, FS_CardinalityType, FS_EmptySet
<1>6. Cardinality(K) >= 1
  BY <1>5
<1>7. QED BY <1>6 DEF TimesReported, K

\* Damage stays where it is: on a volume whose table leads from cluster to
\* cluster, every file below directories that can be read was reported at the
\* end of an enumeration that nobody stopped, whatever else on the volume
\* cannot be read (fat_parser.cpp:217 and :328).
THEOREM SoundEntriesReported ==
  Spec /\ TableIsWhole => [](Undisturbed => SoundEntriesAreReported)
<1> DEFINE J == NestOK /\ ReachOK /\ TableIsWhole
<1>1. Init /\ TableIsWhole => J
  BY InitReach
<1>2. IInv /\ IInv' /\ J /\ [Next]_vars => J'
  <2> SUFFICES ASSUME IInv, IInv', J, [Next]_vars PROVE J'
    OBVIOUS
  <2>1. NestOK' /\ ReachOK'
    BY StepNest, StepReach
  <2>2. vol' = vol
    BY StepVolume
  <2>3. TableIsWhole'
    BY <2>2, SoundFixed
  <2>4. QED BY <2>1, <2>3
<1>3. IInv /\ J => (Undisturbed => SoundEntriesAreReported)
  <2> SUFFICES ASSUME IInv, J, Undisturbed, IsFat, NEW e \in SoundFiles
               PROVE  TimesReported(e) >= 1
    BY DEF SoundEntriesAreReported
  <2>1. PICK Z : ReachInv(Z)
    BY DEF ReachOK, Undisturbed
  <2>2. PICK d \in 0..MaxDepth : e \in UNION SoundListings[d]
    BY DEF SoundFiles
  <2>3. IsFileEntry(e) /\ Finished(Z, d, e)
    BY <2>1, <2>2, AllFinished DEF SoundFiles, Undisturbed, IInv
  <2>4. IsReported(e)
    BY <2>3 DEF Finished
  <2>5. QED BY <2>4, ReportedCounts DEF IInv
<1> HIDE DEF J
<1>4. QED BY <1>1, <1>2, <1>3, Inductive, PTL DEF Spec

----------------------------------------------------------------------------
(* A numbering of the files and directories of a volume in the order of a  *)
(* walk through the tree they form.                                        *)

Counts(e) == IsFileEntry(e) \/ IsDirEntry(e)

\* What is in the directory comes after it, and before what follows it.
Encloses(N, e) ==
  IsDirEntry(e) /\ IsLink(e.cluster) =>
    /\ e.cluster \in N.clusters
    /\ N.at[e] < N.from[e.cluster] /\ N.end[e.cluster] <= N.upto[e]

\* The entries follow one another between these two numbers.
InOrder(N, q, a, z) ==
  /\ \A k \in DOMAIN q : Counts(q[k]) =>
       /\ a <= N.at[q[k]] /\ N.at[q[k]] <= N.upto[q[k]] /\ N.upto[q[k]] < z
       /\ Encloses(N, q[k])
  /\ \A j, k \in DOMAIN q :
       j < k /\ Counts(q[j]) /\ Counts(q[k]) => N.upto[q[j]] < N.at[q[k]]

Numberings ==
  [at : [Entries -> Nat], upto : [Entries -> Nat], clusters : SUBSET Nat,
   from : [Nat -> Nat], to : [Nat -> Nat], end : [Nat -> Nat]]

\* Of every entry the first and the last number that lie in it, and of every
\* cluster of a directory those of its entries and the end of the directory.
IsNumbering(N) ==
  /\ N \in Numberings
  /\ \A c \in N.clusters :
       /\ Fits(c) /\ N.from[c] <= N.to[c] /\ N.to[c] <= N.end[c]
       /\ InOrder(N, At(c), N.from[c], N.to[c])
       /\ \A b \in Nat : Leads(c, b) /\ IsLink(b) =>
            b \in N.clusters /\ N.to[c] <= N.from[b] /\ N.end[b] <= N.end[c]
  /\ IF vol.fs = "fat32" THEN IsLink(vol.root) => vol.root \in N.clusters
     ELSE \E z \in Nat : InOrder(N, vol.rootEntries, 0, z)

\* The directories form a tree, with whatever the table and the entries lead to.
IsTree == IsFat /\ ~HasLoop /\ ~LeadsAstray => \E N : IsNumbering(N)

LEMMA NumberTypes ==
  ASSUME NEW N \in Numberings
  PROVE  /\ \A e \in Entries : N.at[e] \in Nat /\ N.upto[e] \in Nat
         /\ \A c \in Nat : N.from[c] \in Nat /\ N.to[c] \in Nat /\ N.end[c] \in Nat
         /\ N.clusters \subseteq Nat
BY DEF Numberings

LEMMA OrderNone ==
  \A N, a, z : InOrder(N, <<>>, a, z)
BY DEF InOrder

LEMMA OrderWiden ==
  ASSUME NEW N \in Numberings, NEW q \in Seq(Entries), NEW a \in Nat, NEW z \in Nat,
         NEW b \in Nat, NEW y \in Nat, b <= a, z <= y, InOrder(N, q, a, z)
  PROVE  InOrder(N, q, b, y)
<1>1. \A k \in DOMAIN q : N.at[q[k]] \in Nat /\ N.upto[q[k]] \in Nat
  BY NumberTypes, ElementOfSeq, LenProperties
<1>2. ASSUME NEW k \in DOMAIN q, Counts(q[k])
      PROVE  /\ b <= N.at[q[k]] /\ N.at[q[k]] <= N.upto[q[k]] /\ N.upto[q[k]] < y
             /\ Encloses(N, q[k])
  <2>1. /\ a <= N.at[q[k]] /\ N.at[q[k]] <= N.upto[q[k]] /\ N.upto[q[k]] < z
        /\ Encloses(N, q[k])
    BY <1>2 DEF InOrder
  <2>2. \A m, n \in Nat : a <= m /\ n < z => b <= m /\ n < y
    OBVIOUS
  <2>3. QED BY <1>1, <2>1, <2>2
<1>3. QED BY <1>2 DEF InOrder

LEMMA OrderJoins ==
  ASSUME NEW N \in Numberings, NEW q \in Seq(Entries), NEW r \in Seq(Entries),
         NEW a \in Nat, NEW m \in Nat, NEW w \in Nat, NEW z \in Nat,
         a <= w, m <= w, m <= z, InOrder(N, q, a, m), InOrder(N, r, w, z)
  PROVE  InOrder(N, q \o r, a, z)
<1> DEFINE l == q \o r
           n == Len(q)
<1>1. /\ n \in Nat /\ DOMAIN q = 1..n /\ DOMAIN r = 1..Len(r) /\ Len(r) \in Nat
      /\ l \in Seq(Entries) /\ DOMAIN l = 1..(n + Len(r))
      /\ \A k \in 1..(n + Len(r)) : l[k] = IF k <= n THEN q[k] ELSE r[k - n]
  BY ConcatProperties, LenProperties
<1> HIDE DEF l, n
<1>2. \A k \in DOMAIN l : \/ k \in DOMAIN q /\ l[k] = q[k] /\ k <= n
                          \/ k - n \in DOMAIN r /\ l[k] = r[k - n] /\ ~(k <= n)
  BY <1>1
<1>3. /\ \A k \in DOMAIN q : N.at[q[k]] \in Nat /\ N.upto[q[k]] \in Nat
      /\ \A k \in DOMAIN r : N.at[r[k]] \in Nat /\ N.upto[r[k]] \in Nat
  BY NumberTypes, ElementOfSeq, LenProperties
<1>4. \A k \in DOMAIN q : Counts(q[k]) =>
        /\ a <= N.at[q[k]] /\ N.at[q[k]] <= N.upto[q[k]] /\ N.upto[q[k]] < m
        /\ Encloses(N, q[k])
  BY DEF InOrder
<1>5. \A k \in DOMAIN r : Counts(r[k]) =>
        /\ w <= N.at[r[k]] /\ N.at[r[k]] <= N.upto[r[k]] /\ N.upto[r[k]] < z
        /\ Encloses(N, r[k])
  BY DEF InOrder
<1>6. ASSUME NEW k \in DOMAIN l, Counts(l[k])
      PROVE  /\ a <= N.at[l[k]] /\ N.at[l[k]] <= N.upto[l[k]] /\ N.upto[l[k]] < z
             /\ Encloses(N, l[k])
  <2>1. \A x, y \in Nat : (y < m => y < z) /\ (w <= x => a <= x)
    OBVIOUS
  <2>2. CASE k \in DOMAIN q /\ l[k] = q[k]
    <3>1. /\ a <= N.at[q[k]] /\ N.at[q[k]] <= N.upto[q[k]] /\ N.upto[q[k]] < m
          /\ Encloses(N, q[k])
      BY <1>4, <1>6, <2>2
    <3>2. QED BY <1>3, <2>1, <2>2, <3>1
  <2>3. CASE k - n \in DOMAIN r /\ l[k] = r[k - n]
    <3> DEFINE i == k - n
    <3>1. i \in DOMAIN r /\ l[k] = r[i]
      BY <2>3
    <3> HIDE DEF i
    <3>2. /\ w <= N.at[r[i]] /\ N.at[r[i]] <= N.upto[r[i]] /\ N.upto[r[i]] < z
          /\ Encloses(N, r[i])
      BY <1>5, <1>6, <3>1
    <3>3. QED BY <1>3, <2>1, <3>1, <3>2
  <2>4. QED BY <1>2, <2>2, <2>3
<1>7. ASSUME NEW j \in DOMAIN l, NEW k \in DOMAIN l, j < k, Counts(l[j]), Counts(l[k])
      PROVE  N.upto[l[j]] < N.at[l[k]]
  <2>1. j \in Nat /\ k \in Nat
    BY <1>1
  <2>2. CASE k <= n
    <3>1. j \in DOMAIN q /\ k \in DOMAIN q /\ l[j] = q[j] /\ l[k] = q[k]
      <4>1. j <= n
        BY <1>1, <1>7, <2>1, <2>2
      <4>2. QED BY <1>2, <2>2, <4>1
    <3>2. QED BY <1>7, <3>1 DEF InOrder
  <2>3. CASE j <= n /\ ~(k <= n)
    <3>1. j \in DOMAIN q /\ l[j] = q[j] /\ k - n \in DOMAIN r /\ l[k] = r[k - n]
      BY <1>2, <2>3
    <3> DEFINE i == k - n
    <3>2. i \in DOMAIN r /\ l[k] = r[i]
      BY <3>1
    <3> HIDE DEF i
    <3>3. N.upto[q[j]] < m /\ w <= N.at[r[i]]
      BY <1>4, <1>5, <1>7, <3>1, <3>2
    <3>4. \A x, y \in Nat : x < m /\ w <= y => x < y
      OBVIOUS
    <3>5. QED BY <1>3, <3>1, <3>2, <3>3, <3>4
  <2>4. CASE ~(j <= n) /\ ~(k <= n)
    <3>1. j - n \in DOMAIN r /\ l[j] = r[j - n] /\ k - n \in DOMAIN r /\ l[k] = r[k - n]
      BY <1>2, <2>4
    <3>2. j - n < k - n
      BY <1>1, <1>7, <2>1
    <3>3. QED BY <1>7, <3>1, <3>2 DEF InOrder
  <2>5. j <= n \/ ~(j <= n)
    OBVIOUS
  <2>6. QED BY <2>2, <2>3, <2>4
<1>8. InOrder(N, l, a, z)
  BY <1>6, <1>7 DEF InOrder
<1>9. QED BY <1>8 DEF l

LEMMA OrderStarts ==
  ASSUME NEW N, NEW q \in Seq(Entries), NEW r \in Seq(Entries), NEW a, NEW z,
         InOrder(N, q \o r, a, z)
  PROVE  InOrder(N, q, a, z)
<1> DEFINE l == q \o r
           n == Len(q)
<1>1. /\ n \in Nat /\ DOMAIN q = 1..n /\ DOMAIN r = 1..Len(r) /\ Len(r) \in Nat
      /\ l \in Seq(Entries) /\ DOMAIN l = 1..(n + Len(r))
      /\ \A k \in 1..(n + Len(r)) : l[k] = IF k <= n THEN q[k] ELSE r[k - n]
  BY ConcatProperties, LenProperties
<1>2. InOrder(N, l, a, z)
  OBVIOUS
<1> HIDE DEF l, n
<1>3. \A k \in DOMAIN q : k \in DOMAIN l /\ l[k] = q[k]
  BY <1>1
<1>4. QED BY <1>2, <1>3 DEF InOrder

\* What is read of some extents is the beginning of what they hold.
LEMMA ReadsPrefix ==
  ASSUME TypesOK, NEW t \in Seq(Extents), NEW k \in 0..Len(t), NEW p,
         p = FlattenSeq([j \in 1..k |-> Fat!ExtentEntries(t[j])])
  PROVE  p \in Seq(Entries) /\ \E r \in Seq(Entries) : Reads(t) = p \o r
<1> DEFINE n == Len(t)
           P(m) == FlattenSeq([j \in 1..m |-> Fat!ExtentEntries(t[j])])
           Good(m) == \E r \in Seq(Entries) : P(m) = p \o r
           T == {m \in k..n : ~Good(m)}
<1>1. n \in Nat /\ k \in Nat /\ k <= n /\ \A j \in 1..n : t[j] \in Extents
  BY LenProperties, ElementOfSeq
<1>2. ASSUME NEW m \in 0..n
      PROVE  /\ P(m) \in Seq(Entries)
             /\ m < n => P(m + 1) = P(m) \o Fat!ExtentEntries(t[m + 1])
  <2> DEFINE u == SubSeq(t, 1, m)
  <2>1. u \in Seq(Extents) /\ Len(u) = m /\ \A j \in 1..m : u[j] = t[j]
    <3>1. \A j \in 1..m : t[j] \in Extents
      BY <1>1
    <3>2. m \in Int
      OBVIOUS
    <3>3. /\ u \in Seq(Extents) /\ Len(u) = IF 1 <= m THEN m - 1 + 1 ELSE 0
          /\ \A j \in 1..(m - 1 + 1) : u[j] = t[1 + j - 1]
      BY <3>1, <3>2, SubSeqProperties
    <3> HIDE DEF n, u
    <3>4. m - 1 + 1 = m /\ \A j \in 1..m : 1 + j - 1 = j
      BY <1>1
    <3>5. Len(u) = m
      BY <1>1, <3>3
    <3>6. QED BY <3>3, <3>4, <3>5
  <2> HIDE DEF u
  <2>2. Reads(u) = P(m)
    <3>1. [j \in 1..Len(u) |-> Fat!ExtentEntries(u[j])] = [j \in 1..m |-> Fat!ExtentEntries(t[j])]
      BY <2>1
    <3>2. QED BY <3>1 DEF Reads
  <2>3. P(m) \in Seq(Entries)
    <3>1. [start |-> 0, count |-> 1] \in Extents
      BY DEF Extents
    <3> HIDE DEF P
    <3>2. QED BY <2>1, <2>2, <3>1, ReadsAppend
  <2>4. ASSUME m < n PROVE P(m + 1) = P(m) \o Fat!ExtentEntries(t[m + 1])
    <3> DEFINE x == t[m + 1]
               v == Append(u, x)
    <3>1. x \in Extents
      BY <1>1, <2>4
    <3> HIDE DEF x
    <3>2. /\ Len(v) = m + 1 /\ v[m + 1] = x /\ \A j \in 1..m : v[j] = t[j]
      BY <2>1, <3>1, AppendLast
    <3>3. Reads(v) = P(m) \o Fat!ExtentEntries(x)
      <4> HIDE DEF P, v
      <4>1. QED BY <2>1, <2>2, <3>1, ReadsAppend DEF v
    <3> HIDE DEF v
    <3>4. \A j \in 1..(m + 1) : v[j] = t[j]
      BY <1>1, <3>2 DEF x
    <3>5. Reads(v) = P(m + 1)
      <4>1. [j \in 1..Len(v) |-> Fat!ExtentEntries(v[j])]
              = [j \in 1..(m + 1) |-> Fat!ExtentEntries(t[j])]
        BY <3>2, <3>4
      <4>2. QED BY <4>1 DEF Reads
    <3>6. QED BY <3>3, <3>5 DEF x
  <2>5. QED BY <2>3, <2>4
<1>3. p \in Seq(Entries) /\ P(k) = p
  BY <1>1, <1>2
<1>4. P(n) = Reads(t)
  BY DEF Reads
<1> HIDE DEF P, n
<1>5. T = {}
  <2>1. SUFFICES ASSUME T # {} PROVE FALSE
    OBVIOUS
  <2>2. PICK m \in T : \A i \in T : m <= i
    <3>1. T \in SUBSET Nat
      BY <1>1
    <3> HIDE DEF T
    <3>2. QED BY <2>1, <3>1, LeastNat
  <2>3. m \in k..n /\ ~Good(m)
    BY <2>2
  <2>4. CASE m = k
    <3>1. <<>> \in Seq(Entries) /\ P(m) = p \o <<>>
      BY <1>3, <2>4, ConcatEmptySeq
    <3>2. QED BY <2>3, <3>1
  <2>5. CASE m # k
    <3>1. /\ m - 1 \in k..n /\ m - 1 \in 0..n /\ m - 1 < n /\ ~(m <= m - 1)
          /\ (m - 1) + 1 = m /\ m \in 1..n
      BY <1>1, <2>3, <2>5
    <3>2. PICK r \in Seq(Entries) : P(m - 1) = p \o r
      <4>1. m - 1 \notin T
        BY <2>2, <3>1
      <4>2. QED BY <3>1, <4>1
    <3> DEFINE e == Fat!ExtentEntries(t[m])
    <3>3. P(m) = P(m - 1) \o e
      BY <1>2, <3>1
    <3>4. e \in Seq(Entries)
      BY <1>1, <3>1, ExtentEntriesType
    <3> HIDE DEF e
    <3>5. (p \o r) \o e = p \o (r \o e)
      BY <1>3, <3>2, <3>4, ConcatAssociative
    <3>6. r \o e \in Seq(Entries)
      BY <3>2, <3>4, ConcatProperties
    <3>7. P(m) = p \o (r \o e)
      BY <3>2, <3>3, <3>5
    <3>8. QED BY <2>3, <3>6, <3>7
  <2>6. QED BY <2>4, <2>5
<1>6. Good(n)
  <2>1. n \in k..n
    BY <1>1
  <2> HIDE DEF Good
  <2>2. QED BY <1>5, <2>1
<1>7. QED BY <1>3, <1>4, <1>6

----------------------------------------------------------------------------
(* What was reported comes before what is to come.                         *)

\* The entries of an open directory that are still to come, with the one whose
\* chain is being followed.
NextUp(i) ==
  IF i = Len(stack) /\ pc = "chain" THEN stack[i].next - 1 ELSE stack[i].next
Ahead(i) ==
  {stack[i].entries[k] : k \in {j \in DOMAIN stack[i].entries : NextUp(i) <= j}}

FramesInOrder(N) ==
  \A i \in DOMAIN stack : \E z \in Nat : InOrder(N, stack[i].entries, 0, z)
FramesNested(N) ==
  \A i, j \in DOMAIN stack : i < j =>
    InOrder(N, stack[j].entries, N.at[Pending(i)] + 1, N.upto[Pending(i)])

FilesAscend(N) ==
  \A k, l \in DOMAIN files : k < l => N.at[files[k].entry] < N.at[files[l].entry]
FilesBefore(N) ==
  \A k \in DOMAIN files : \A i \in DOMAIN stack : \A x \in Ahead(i) :
    Counts(x) => N.at[files[k].entry] < N.at[x]

\* What is read of the directory that begins with b, up to cluster c.
WalkInOrder(N, b, c, t) ==
  /\ b \in N.clusters /\ InOrder(N, Reads(t), N.from[b], N.end[b])
  /\ IsLink(c) =>
       /\ c \in N.clusters /\ N.end[c] <= N.end[b] /\ N.from[b] <= N.from[c]
       /\ InOrder(N, Reads(t), N.from[b], N.from[c])
WalkOrdered(N) ==
  pc = "chain" /\ walk.file = <<>> =>
    \A b, c, t : b = WalkBegan /\ IsLink(b) /\ c = walk.cluster /\ t = Fat!Closed(walk)
      => WalkInOrder(N, b, c, t)

OrderInv(N) ==
  /\ FramesInOrder(N) /\ FramesNested(N) /\ FilesAscend(N) /\ FilesBefore(N)
  /\ WalkOrdered(N)
  /\ (stack = <<>> /\ pc # "done" => files = <<>>)
  /\ (pc = "root" => vol.fs # "fat32")

LEMMA OrderFixed ==
  ASSUME UNCHANGED vol
  PROVE  /\ \A N : IsNumbering(N)' <=> IsNumbering(N)
         /\ \A t : Reads(t)' = Reads(t)
         /\ \A N, b, c, t : WalkInOrder(N, b, c, t)' <=> WalkInOrder(N, b, c, t)
<1>1. \A c : At(c)' = At(c) /\ (Fits(c)' <=> Fits(c))
  BY LinksFixed DEF At, Fat!EntriesAt
<1>2. \A a, b : Leads(a, b)' <=> Leads(a, b)
  BY LinksFixed
<1>3. \A N, q, a, z : InOrder(N, q, a, z)' <=> InOrder(N, q, a, z)
  BY DEF InOrder
<1>4. \A t : Reads(t)' = Reads(t)
  BY DEF Reads, Fat!ExtentEntries, Fat!EntriesAt
<1>5. \A N : IsNumbering(N)' <=> IsNumbering(N)
  BY <1>1, <1>2, <1>3 DEF IsNumbering
<1>6. \A N, b, c, t : WalkInOrder(N, b, c, t)' <=> WalkInOrder(N, b, c, t)
  BY <1>3, <1>4 DEF WalkInOrder
<1>7. QED BY <1>4, <1>5, <1>6

LEMMA FileTypes ==
  ASSUME TypesOK, IsFat
  PROVE  /\ files \in Seq(FatFiles) /\ DOMAIN files = 1..Len(files) /\ Len(files) \in Nat
         /\ \A k \in DOMAIN files : files[k].entry \in Entries
<1>1. files \in Seq(FatFiles)
  BY DEF TypesOK
<1>2. DOMAIN files = 1..Len(files) /\ Len(files) \in Nat
  BY <1>1, LenProperties
<1>3. \A k \in DOMAIN files : files[k] \in FatFiles
  BY <1>1, <1>2, ElementOfSeq
<1>4. \A f \in FatFiles : f.entry \in Entries
  BY DEF FatFiles
<1>5. QED BY <1>1, <1>2, <1>3, <1>4

\* The directories that stay open.
LEMMA FramesOrdered ==
  ASSUME IInv, NEW N, FramesInOrder(N), FramesNested(N), NEW m \in Nat, m <= Len(stack),
         \A i \in 1..m : stack'[i].entries = stack[i].entries,
         \A i \in 1..m : i < m => stack'[i].next = stack[i].next
  PROVE  /\ \A i \in 1..m : \E z \in Nat : InOrder(N, stack'[i].entries, 0, z)
         /\ \A i, j \in 1..m : i < j =>
              InOrder(N, stack'[j].entries, N.at[Pending(i)'] + 1, N.upto[Pending(i)'])
<1>1. DOMAIN stack = 1..Len(stack) /\ Len(stack) \in Nat
  BY StackType
<1>2. \A i \in 1..m : i \in DOMAIN stack
  BY <1>1
<1>3. \A i \in 1..m : i < m => Pending(i)' = Pending(i)
  BY DEF Pending
<1>4. \A i, j \in 1..m : i < j => i < m
  OBVIOUS
<1>5. \A i \in 1..m : \E z \in Nat : InOrder(N, stack'[i].entries, 0, z)
  BY <1>2 DEF FramesInOrder
<1>6. \A i, j \in 1..m : i < j =>
        InOrder(N, stack'[j].entries, N.at[Pending(i)'] + 1, N.upto[Pending(i)'])
  BY <1>2, <1>3, <1>4 DEF FramesNested
<1>7. QED BY <1>5, <1>6

LEMMA AheadShrinks ==
  ASSUME IInv, NEW i \in DOMAIN stack, stack'[i].entries = stack[i].entries,
         NextUp(i) = NextUp(i)' \/ NextUp(i)' = NextUp(i) + 1
  PROVE  Ahead(i)' \subseteq Ahead(i)
<1> DEFINE u == NextUp(i)
           v == NextUp(i)'
           q == stack[i].entries
<1>1. DOMAIN q = 1..Len(q) /\ stack[i].next \in Nat
  BY StackType
<1>2. u \in Int
  BY <1>1 DEF NextUp
<1>3. Ahead(i) = {q[k] : k \in {j \in DOMAIN q : u <= j}}
  BY DEF Ahead
<1>4. Ahead(i)' = {q[k] : k \in {j \in DOMAIN q : v <= j}}
  BY DEF Ahead
<1>5. u = v \/ v = u + 1
  OBVIOUS
<1> HIDE DEF u, v, q
<1>6. \A j \in DOMAIN q : v <= j => u <= j
  BY <1>1, <1>2, <1>5
<1>7. QED BY <1>3, <1>4, <1>6

LEMMA EntryOrder ==
  ASSUME IInv, NestOK, NEW N, IsNumbering(N), OrderInv(N),
         Fat!LongNameEntry \/ Fat!DirectoryEntry \/ Fat!FileEntry \/ Fat!OtherEntry
  PROVE  OrderInv(N)'
<1> DEFINE n == Len(stack)
           s == stack[n].next
           e == Fat!Entry
<1>1. /\ n \in Nat \ {0} /\ DOMAIN stack = 1..n /\ Len(stack') = n /\ DOMAIN stack' = 1..n
      /\ \A i \in 1..(n - 1) : stack'[i] = stack[i]
      /\ stack'[n].entries = stack[n].entries /\ stack'[n].next = s + 1
      /\ s \in DOMAIN stack[n].entries /\ s \in Nat \ {0}
      /\ e = stack[n].entries[s] /\ e \in Entries /\ pc = "entry"
      /\ UNCHANGED <<vol, stop, files>>
  BY TopMoves
<1>2. pc' \in {"chain", "entry"}
  BY <1>1 DEF Fat!LongNameEntry, Fat!DirectoryEntry, Fat!FileEntry, Fat!OtherEntry
<1>3. \A i \in 1..n : /\ stack'[i].entries = stack[i].entries
                      /\ i < n => stack'[i].next = stack[i].next
  <2> HIDE DEF n, s, e
  <2>1. \A i \in 1..n : i \in 1..(n - 1) \/ (i = n /\ ~(i < n))
    BY <1>1
  <2>2. QED BY <1>1, <2>1
<1>4. FramesInOrder(N)' /\ FramesNested(N)'
  <2>1. n <= Len(stack)
    BY <1>1
  <2>2. /\ \A i \in 1..n : \E z \in Nat : InOrder(N, stack'[i].entries, 0, z)
        /\ \A i, j \in 1..n : i < j =>
             InOrder(N, stack'[j].entries, N.at[Pending(i)'] + 1, N.upto[Pending(i)'])
    <3> HIDE DEF n
    <3>1. QED BY <1>1, <1>3, <2>1, FramesOrdered DEF OrderInv
  <2> HIDE DEF n
  <2>3. QED BY <1>1, <2>2 DEF FramesInOrder, FramesNested
<1>5. FilesAscend(N)'
  BY <1>1 DEF OrderInv, FilesAscend
<1>6. \A i \in 1..n : NextUp(i)' = NextUp(i) \/ NextUp(i)' = NextUp(i) + 1
  <2>1. TAKE i \in 1..n
  <2>2. CASE i = n
    <3>1. NextUp(i) = s
      BY <1>1, <2>2 DEF NextUp
    <3>2. NextUp(i)' = (IF pc' = "chain" THEN (s + 1) - 1 ELSE s + 1)
      BY <1>1, <2>2 DEF NextUp
    <3>3. (s + 1) - 1 = s
      BY <1>1
    <3>4. QED BY <3>1, <3>2, <3>3
  <2>3. CASE i # n
    <3>1. i < n
      <4> HIDE DEF n
      <4>1. QED BY <1>1, <2>3
    <3>2. NextUp(i)' = NextUp(i)
      BY <1>1, <1>3, <2>3, <3>1 DEF NextUp
    <3>3. QED BY <3>2
  <2>4. QED BY <2>2, <2>3
<1>7. FilesBefore(N)'
  <2>1. \A i \in 1..n : Ahead(i)' \subseteq Ahead(i)
    BY <1>1, <1>3, <1>6, AheadShrinks
  <2> HIDE DEF n
  <2>2. QED BY <1>1, <2>1 DEF OrderInv, FilesBefore
<1>8. WalkOrdered(N)'
  <2>1. SUFFICES ASSUME pc' = "chain", walk'.file = <<>>, NEW b, NEW c, NEW t,
                        b = WalkBegan', IsLink(b), c = walk'.cluster, t = Fat!Closed(walk)'
                 PROVE  WalkInOrder(N, b, c, t)
    BY <1>1, OrderFixed DEF WalkOrdered, IsLink
  <2>2. Fat!DirectoryEntry
    <3>1. ~Fat!FileEntry
      <4>1. SUFFICES ASSUME Fat!FileEntry PROVE FALSE
        OBVIOUS
      <4>2. PICK x, y : walk' = Fat!ChainOfFile(x, y)
        BY <1>1, <2>1, <4>1 DEF Fat!FileEntry
      <4>3. walk'.file = <<y>>
        BY <4>2 DEF Fat!ChainOfFile, Fat!NoWalk
      <4>4. QED BY <2>1, <4>3
    <3>2. QED BY <1>1, <2>1, <3>1 DEF Fat!LongNameEntry, Fat!OtherEntry
  <2>3. walk' = Fat!ChainOfDirectory(e.cluster, Fat!Top.depth + 1) /\ IsDirEntry(e)
    BY <1>1, <2>1, <2>2 DEF Fat!DirectoryEntry, IsDirEntry
  <2>4. walk'.run = 0 /\ walk'.cluster = e.cluster /\ walk'.extents = <<>>
    BY <2>3 DEF Fat!ChainOfDirectory, Fat!NoWalk
  <2>5. t = <<>>
    BY <2>1, <2>4 DEF Fat!Closed
  <2>6. b = e.cluster /\ c = b
    <3>1. stack' # <<>> /\ (s + 1) - 1 = s
      BY <1>1
    <3>2. ASSUME NEW i, i = n PROVE Pending(i)' = e
      BY <1>1, <3>1, <3>2 DEF Pending
    <3>3. Pending(Len(stack))' = e
      BY <1>1, <3>2
    <3>4. QED BY <2>1, <2>4, <3>1, <3>3 DEF WalkBegan
  <2>7. Encloses(N, e)
    <3>1. PICK z : InOrder(N, stack[n].entries, 0, z)
      <4>1. n \in DOMAIN stack
        <5> HIDE DEF n
        <5>1. QED BY <1>1
      <4>2. QED BY <4>1 DEF OrderInv, FramesInOrder
    <3>2. QED BY <1>1, <2>3, <3>1 DEF InOrder, Counts
  <2>8. b \in N.clusters /\ N.from[b] <= N.from[b] /\ N.end[b] <= N.end[b]
    <3>1. b \in N.clusters
      BY <2>1, <2>3, <2>6, <2>7 DEF Encloses
    <3>2. N.from[b] \in Nat /\ N.end[b] \in Nat
      BY <3>1, NumberTypes DEF IsNumbering
    <3>3. QED BY <3>1, <3>2
  <2>9. QED BY <2>5, <2>6, <2>8, ReadsNone, OrderNone DEF WalkInOrder
<1>9. stack' # <<>>
  BY <1>1
<1>10. QED BY <1>2, <1>4, <1>5, <1>7, <1>8, <1>9 DEF OrderInv

\* What follows the entry that a directory waits for comes after it.
LEMMA AfterPending ==
  ASSUME IInv, NEW N \in Numberings, NEW i \in DOMAIN stack, IsPending(i),
         Counts(Pending(i)), NEW z, InOrder(N, stack[i].entries, 0, z),
         NEW j \in DOMAIN stack[i].entries, stack[i].next <= j,
         Counts(stack[i].entries[j])
  PROVE  N.upto[Pending(i)] < N.at[stack[i].entries[j]]
<1> DEFINE q == stack[i].entries
           s == stack[i].next
<1>1. DOMAIN q = 1..Len(q) /\ s \in Nat /\ s - 1 \in DOMAIN q /\ Pending(i) = q[s - 1]
      /\ j \in DOMAIN q
  BY StackType DEF IsPending, Pending
<1>2. InOrder(N, q, 0, z) /\ Counts(q[j]) /\ s <= j
  OBVIOUS
<1> HIDE DEF q, s
<1>3. s - 1 < j
  BY <1>1, <1>2
<1>4. N.upto[q[s - 1]] < N.at[q[j]]
  BY <1>1, <1>2, <1>3 DEF InOrder
<1>5. QED BY <1>1, <1>4 DEF q

LEMMA PendingIn ==
  ASSUME IInv, NEW N \in Numberings, NEW i \in DOMAIN stack, IsPending(i),
         Counts(Pending(i)), NEW a, NEW z, InOrder(N, stack[i].entries, a, z)
  PROVE  /\ a <= N.at[Pending(i)] /\ N.at[Pending(i)] <= N.upto[Pending(i)]
         /\ N.upto[Pending(i)] < z /\ Encloses(N, Pending(i))
         /\ Pending(i) \in Entries
         /\ N.at[Pending(i)] \in Nat /\ N.upto[Pending(i)] \in Nat
<1> DEFINE q == stack[i].entries
           k == stack[i].next - 1
<1>1. k \in DOMAIN q /\ Pending(i) = q[k] /\ q \in Seq(Entries)
  BY StackType DEF IsPending, Pending
<1>2. InOrder(N, q, a, z) /\ Counts(q[k])
  BY <1>1
<1> HIDE DEF q, k
<1>3. q[k] \in Entries
  BY <1>1, ElementOfSeq, LenProperties
<1>4. N.at[q[k]] \in Nat /\ N.upto[q[k]] \in Nat
  BY <1>3, NumberTypes
<1>5. /\ a <= N.at[q[k]] /\ N.at[q[k]] <= N.upto[q[k]] /\ N.upto[q[k]] < z
      /\ Encloses(N, q[k])
  BY <1>1, <1>2 DEF InOrder
<1>6. QED BY <1>1, <1>3, <1>4, <1>5

LEMMA DirectoryDoneOrder ==
  ASSUME IInv, NestOK, NEW N, IsNumbering(N), OrderInv(N), Fat!DirectoryDone
  PROVE  OrderInv(N)'
<1> DEFINE n == Len(stack)
           m == n - 1
<1>1. /\ n \in Nat \ {0} /\ DOMAIN stack = 1..n
      /\ Len(stack') = m /\ DOMAIN stack' = 1..m
      /\ \A i \in 1..m : stack'[i] = stack[i]
      /\ pc = "entry" /\ pc' = (IF n = 1 THEN "done" ELSE "entry")
      /\ UNCHANGED <<vol, stop, files, walk>>
  BY TopCloses
<1>2. m \in Nat /\ m <= Len(stack) /\ \A i \in 1..m : i \in 1..n
  <2>1. n = Len(stack)
    OBVIOUS
  <2> HIDE DEF n
  <2>2. QED BY <1>1, <2>1
<1>3. pc' # "chain" /\ pc' # "root"
  BY <1>1
<1>4. FramesInOrder(N)' /\ FramesNested(N)'
  <2> HIDE DEF m
  <2>1. /\ \A i \in 1..m : \E z \in Nat : InOrder(N, stack'[i].entries, 0, z)
        /\ \A i, j \in 1..m : i < j =>
             InOrder(N, stack'[j].entries, N.at[Pending(i)'] + 1, N.upto[Pending(i)'])
    BY <1>1, <1>2, FramesOrdered DEF OrderInv
  <2>2. QED BY <1>1, <2>1 DEF FramesInOrder, FramesNested
<1>5. FilesAscend(N)'
  BY <1>1 DEF OrderInv, FilesAscend
<1>6. FilesBefore(N)'
  <2>1. \A i \in 1..m : NextUp(i)' = NextUp(i)
    BY <1>1, <1>3 DEF NextUp
  <2> HIDE DEF m
  <2>2. \A i \in 1..m : i \in DOMAIN stack /\ Ahead(i)' \subseteq Ahead(i)
    BY <1>1, <1>2, <2>1, AheadShrinks
  <2>3. QED BY <1>1, <2>2 DEF OrderInv, FilesBefore
<1>7. stack' = <<>> => pc' = "done"
  <2>1. ASSUME stack' = <<>> PROVE n = 1
    <3>1. Len(stack') = 0
      BY <2>1
    <3> HIDE DEF n
    <3>2. QED BY <1>1, <3>1
  <2>2. QED BY <1>1, <2>1
<1>8. QED BY <1>3, <1>4, <1>5, <1>6, <1>7 DEF OrderInv, WalkOrdered

LEMMA FollowChainOrder ==
  ASSUME IInv, NestOK, NEW N, IsNumbering(N), OrderInv(N), Fat!FollowChain
  PROVE  OrderInv(N)'
<1>1. pc = "chain" /\ UNCHANGED <<vol, pc, files, stack>> /\ walk'.file = walk.file
  BY PathStep DEF Fat!FollowChain
<1>2. FramesInOrder(N)' /\ FramesNested(N)'
  <2>1. \A i : Pending(i)' = Pending(i)
    BY <1>1 DEF Pending
  <2>2. QED BY <1>1, <2>1 DEF OrderInv, FramesInOrder, FramesNested
<1>3. FilesAscend(N)'
  BY <1>1 DEF OrderInv, FilesAscend
<1>4. FilesBefore(N)'
  <2>1. \A i : Ahead(i)' = Ahead(i)
    BY <1>1 DEF Ahead, NextUp
  <2>2. QED BY <1>1, <2>1 DEF OrderInv, FilesBefore
<1>5. WalkOrdered(N)'
  <2>1. SUFFICES ASSUME walk.file = <<>>, NEW b, NEW d, NEW u,
                        b = WalkBegan, IsLink(b), d = walk'.cluster, u = Fat!Closed(walk')
                 PROVE  WalkInOrder(N, b, d, u)
    <3>1. WalkBegan' = WalkBegan
      BY <1>1 DEF WalkBegan, Pending
    <3>2. Fat!Closed(walk)' = Fat!Closed(walk')
      BY DEF Fat!Closed
    <3>3. \A b : IsLink(b)' <=> IsLink(b)
      BY DEF IsLink
    <3>4. QED BY <1>1, <3>1, <3>2, <3>3, OrderFixed DEF WalkOrdered
  <2> DEFINE c == walk.cluster
             t == Fat!Closed(walk)
             q == Reads(t)
             r == At(c)
  <2>2. IsLink(c) /\ Fits(c)
    <3>1. IsLink(c)
      BY PathStep
    <3>2. WalkInOrder(N, b, c, t)
      BY <1>1, <2>1 DEF OrderInv, WalkOrdered
    <3>3. QED BY <3>1, <3>2 DEF WalkInOrder, IsNumbering
  <2>3. q \in Seq(Entries) /\ Reads(u) = q \o r
    BY <2>1, <2>2, ReadsGrow
  <2>4. r \in Seq(Entries)
    <3>1. <<>> \in Seq(Entries)
      OBVIOUS
    <3>2. \A x \in DOMAIN vol.dir : vol.dir[x] \in Seq(Entries)
      BY VolumesAssumption DEF IInv, TypesOK
    <3>3. QED BY <3>1, <3>2 DEF At, Fat!EntriesAt
  <2>5. d \in Nat /\ Came(c, d)
    <3>1. PICK ok \in Fat!TableReads(Fat!TableSector(c)) :
            \E x \in Fat!FatEntry(c, ok) : walk' = [Fat!Extended(walk) EXCEPT !.cluster = x]
      BY DEF Fat!FollowChain
    <3>2. PICK x \in Fat!FatEntry(c, ok) : walk' = [Fat!Extended(walk) EXCEPT !.cluster = x]
      BY <3>1
    <3>3. x \in Nat /\ Came(c, x)
      BY EntryCame DEF IInv
    <3>4. walk \in Walks
      BY <1>1 DEF IInv, TypesOK
    <3>5. d = x
      BY <2>1, <3>2, <3>4 DEF Walks, Fat!Extended
    <3>6. QED BY <3>3, <3>5
  <2>6. WalkInOrder(N, b, c, t)
    BY <1>1, <2>1 DEF OrderInv, WalkOrdered
  <2> HIDE DEF c, t, q, r
  <2>7. /\ b \in N.clusters /\ c \in N.clusters
        /\ N.end[c] <= N.end[b] /\ N.from[b] <= N.from[c]
        /\ InOrder(N, q, N.from[b], N.from[c])
    BY <2>2, <2>6 DEF WalkInOrder, q
  <2>8. /\ N \in Numberings /\ N.from[c] <= N.to[c] /\ N.to[c] <= N.end[c]
        /\ InOrder(N, r, N.from[c], N.to[c])
        /\ \A x \in Nat : Leads(c, x) /\ IsLink(x) =>
             x \in N.clusters /\ N.to[c] <= N.from[x] /\ N.end[x] <= N.end[c]
    BY <2>7 DEF IsNumbering, r
  <2>9. /\ b \in Nat /\ c \in Nat /\ N.from[b] \in Nat /\ N.end[b] \in Nat
        /\ N.from[c] \in Nat /\ N.to[c] \in Nat /\ N.end[c] \in Nat
    BY <2>7, <2>8, NumberTypes
  <2>10. N.from[c] <= N.from[c] /\ N.from[b] <= N.from[b] /\ N.to[c] <= N.end[b]
    BY <2>7, <2>8, <2>9
  <2>11. InOrder(N, Reads(u), N.from[b], N.to[c])
    BY <2>3, <2>4, <2>7, <2>8, <2>9, <2>10, OrderJoins
  <2>12. Reads(u) \in Seq(Entries)
    BY <2>3, <2>4, ConcatProperties
  <2>13. InOrder(N, Reads(u), N.from[b], N.end[b])
    BY <2>8, <2>9, <2>10, <2>11, <2>12, OrderWiden
  <2>14. ASSUME IsLink(d)
         PROVE  /\ d \in N.clusters /\ N.end[d] <= N.end[b] /\ N.from[b] <= N.from[d]
                /\ InOrder(N, Reads(u), N.from[b], N.from[d])
    <3>1. Leads(c, d)
      BY <2>5, <2>14 DEF Came, IsLink, Leads, Nexts
    <3>2. d \in N.clusters /\ N.to[c] <= N.from[d] /\ N.end[d] <= N.end[c]
      BY <2>5, <2>8, <2>14, <3>1
    <3>3. N.from[d] \in Nat /\ N.end[d] \in Nat
      BY <2>5, <2>8, NumberTypes
    <3>4. N.end[d] <= N.end[b] /\ N.from[b] <= N.from[d]
      BY <2>7, <2>8, <2>9, <3>2, <3>3
    <3>5. InOrder(N, Reads(u), N.from[b], N.from[d])
      BY <2>8, <2>9, <2>10, <2>11, <2>12, <3>2, <3>3, OrderWiden
    <3>6. QED BY <3>2, <3>4, <3>5
  <2>15. QED BY <2>7, <2>13, <2>14 DEF WalkInOrder
<1>6. QED BY <1>1, <1>2, <1>3, <1>4, <1>5 DEF OrderInv

\* The entry whose chain is being followed counts as ahead.
LEMMA PendingAhead ==
  ASSUME IInv, pc = "chain", stack # <<>>, NEW i, i = Len(stack), IsPending(i)
  PROVE  Pending(i) \in Ahead(i)
<1>1. NextUp(i) = stack[i].next - 1
  BY DEF NextUp
<1>2. stack[i].next - 1 \in DOMAIN stack[i].entries
  BY DEF IsPending
<1>3. i \in DOMAIN stack
  BY StackType
<1>4. NextUp(i) \in DOMAIN stack[i].entries /\ NextUp(i) \in Nat
  BY <1>1, <1>2, <1>3, StackType
<1>5. NextUp(i) <= NextUp(i)
  BY <1>4
<1>6. QED BY <1>1, <1>4, <1>5 DEF Ahead, Pending

LEMMA ChainOfFileEndsOrder ==
  ASSUME IInv, NestOK, IsFat, NEW N, IsNumbering(N), OrderInv(N), Fat!ChainOfFileEnds
  PROVE  OrderInv(N)'
<1> DEFINE n == Len(stack)
           x == Pending(n)
           t == walk.file[1]
           f == [name |-> t.name, damaged |-> t.damaged, entry |-> t.entry,
                 extents |-> Fat!Closed(walk)]
           S == FatFiles \cup {f}
           L == Len(files)
<1>1. /\ pc = "chain" /\ walk.file # <<>>
      /\ files' = (IF stop THEN files ELSE Append(files, f))
      /\ pc' = (IF stack = <<>> THEN "done" ELSE "entry") /\ stack' = stack /\ vol' = vol
  BY DEF Fat!ChainOfFileEnds, Fat!Continue
<1>2. /\ stack # <<>> /\ IsPending(n) /\ IsFileEntry(x) /\ f.entry = x
      /\ \A i \in DOMAIN stack : i < n => IsPending(i) /\ IsDirEntry(Pending(i))
  BY <1>1 DEF NestOK
<1>3. n \in Nat \ {0} /\ DOMAIN stack = 1..n /\ n \in DOMAIN stack
  BY <1>2, StackType, EmptySeq
<1>4. pc' = "entry"
  BY <1>1, <1>2
<1>5. DOMAIN files = 1..L /\ L \in Nat /\ N \in Numberings
  BY FileTypes DEF IInv, IsNumbering
<1>6. FramesInOrder(N)' /\ FramesNested(N)'
  <2>1. \A i : Pending(i)' = Pending(i)
    BY <1>1 DEF Pending
  <2>2. QED BY <1>1, <2>1 DEF OrderInv, FramesInOrder, FramesNested
\* Where the files stand, and the one that may have been added.
<1>7. /\ \A k \in DOMAIN files' : (k \in DOMAIN files /\ files'[k] = files[k])
                                  \/ (k = L + 1 /\ files'[k].entry = x)
      /\ DOMAIN files' = 1..L \/ DOMAIN files' = 1..(L + 1)
  <2>1. CASE stop
    BY <1>1, <1>5, <2>1
  <2>2. CASE ~stop
    <3>1. files \in Seq(FatFiles) /\ f \in S /\ FatFiles \subseteq S
      BY DEF IInv, TypesOK
    <3> HIDE DEF f, S
    <3>2. files \in Seq(S)
      BY <3>1, SeqMonotonic
    <3>3. /\ DOMAIN files' = 1..(L + 1) /\ \A k \in 1..L : files'[k] = files[k]
          /\ files'[L + 1] = f
      BY <1>1, <2>2, <3>1, <3>2, AppendLast
    <3> HIDE DEF L
    <3>4. \A k \in 1..(L + 1) : k \in 1..L \/ k = L + 1
      BY <1>5
    <3>5. QED BY <1>2, <1>5, <3>3, <3>4
  <2>3. QED BY <2>1, <2>2
<1> HIDE DEF f, S, L
<1>8. Counts(x) /\ x \in Ahead(n)
  BY <1>1, <1>2, PendingAhead DEF Counts
<1>9. \A k \in DOMAIN files : N.at[files[k].entry] < N.at[x]
  BY <1>3, <1>8 DEF OrderInv, FilesBefore
<1>10. FilesAscend(N)'
  <2>1. SUFFICES ASSUME NEW k \in DOMAIN files', NEW l \in DOMAIN files', k < l
                 PROVE  N.at[files'[k].entry] < N.at[files'[l].entry]
    BY DEF FilesAscend
  <2>2. CASE l \in DOMAIN files /\ files'[l] = files[l]
    <3>1. k # L + 1
      BY <1>5, <2>1, <2>2
    <3>2. k \in DOMAIN files /\ files'[k] = files[k]
      BY <1>7, <2>1, <3>1
    <3>3. QED BY <2>1, <2>2, <3>2 DEF OrderInv, FilesAscend
  <2>3. CASE l = L + 1 /\ files'[l].entry = x
    <3>1. k # L + 1
      BY <1>5, <1>7, <2>1, <2>3
    <3>2. k \in DOMAIN files /\ files'[k] = files[k]
      BY <1>7, <2>1, <3>1
    <3>3. QED BY <1>9, <2>3, <3>2
  <2>4. QED BY <1>7, <2>1, <2>2, <2>3
<1> HIDE DEF n
<1>11. \A i \in 1..n : Ahead(i)' \subseteq Ahead(i)
  <2>1. TAKE i \in 1..n
  <2>2. stack[i].next \in Nat /\ i \in Nat
    BY <1>3, <2>1, StackType
  <2>3. NextUp(i) = NextUp(i)' \/ NextUp(i)' = NextUp(i) + 1
    <3>1. NextUp(i)' = stack[i].next
      BY <1>1, <1>4 DEF NextUp
    <3>2. NextUp(i) = stack[i].next \/ NextUp(i) = stack[i].next - 1
      BY DEF NextUp
    <3>3. (stack[i].next - 1) + 1 = stack[i].next
      BY <2>2
    <3>4. QED BY <3>1, <3>2, <3>3
  <2>4. QED BY <1>1, <1>3, <2>1, <2>3, AheadShrinks
\* What is to come comes after the file.
<1>12. ASSUME NEW i \in 1..n, NEW y \in Ahead(i)', Counts(y) PROVE N.at[x] < N.at[y]
  <2>1. i \in DOMAIN stack /\ n \in DOMAIN stack /\ n = Len(stack)
    BY <1>3, <1>12 DEF n
  <2>2. PICK j \in DOMAIN stack[i].entries : stack[i].next <= j /\ y = stack[i].entries[j]
    <3>1. NextUp(i)' = stack[i].next
      BY <1>1, <1>4 DEF NextUp
    <3>2. QED BY <1>1, <1>12, <3>1 DEF Ahead
  <2>3. PICK z \in Nat : InOrder(N, stack[i].entries, 0, z)
    BY <2>1 DEF OrderInv, FramesInOrder
  <2>4. PICK zn \in Nat : InOrder(N, stack[n].entries, 0, zn)
    BY <2>1 DEF OrderInv, FramesInOrder
  <2>5. N.at[x] \in Nat /\ N.upto[x] \in Nat /\ N.at[x] <= N.upto[x]
    BY <1>2, <1>5, <1>8, <2>1, <2>4, PendingIn
  <2>6. N.at[y] \in Nat
    <3>1. y \in Entries
      <4>1. stack[i].entries \in Seq(Entries)
        BY <2>1, StackType
      <4>2. QED BY <2>2, <4>1, ElementOfSeq, LenProperties
    <3>2. QED BY <1>5, <3>1, NumberTypes
  <2>7. CASE i = n
    <3>1. N.upto[x] < N.at[y]
      BY <1>2, <1>5, <1>8, <1>12, <2>1, <2>2, <2>3, <2>7, AfterPending
    <3>2. QED BY <2>5, <2>6, <3>1
  <2>8. CASE i # n
    <3>1. i < n
      BY <1>3, <1>12, <2>8
    <3>2. IsPending(i) /\ Counts(Pending(i))
      BY <1>2, <2>1, <3>1 DEF Counts
    <3>3. N.upto[Pending(i)] < N.at[y]
      BY <1>5, <1>12, <2>1, <2>2, <2>3, <3>2, AfterPending
    <3>4. InOrder(N, stack[n].entries, N.at[Pending(i)] + 1, N.upto[Pending(i)])
      BY <2>1, <3>1 DEF OrderInv, FramesNested
    <3>5. N.upto[x] < N.upto[Pending(i)]
      BY <1>2, <1>5, <1>8, <2>1, <3>4, PendingIn
    <3>6. N.upto[Pending(i)] \in Nat
      BY <1>5, <2>1, <2>3, <3>2, PendingIn
    <3>7. QED BY <2>5, <2>6, <3>3, <3>5, <3>6
  <2>9. QED BY <2>7, <2>8
<1>13. FilesBefore(N)'
  <2>1. SUFFICES ASSUME NEW k \in DOMAIN files', NEW i \in 1..n, NEW y \in Ahead(i)', Counts(y)
                 PROVE  N.at[files'[k].entry] < N.at[y]
    BY <1>1, <1>3 DEF FilesBefore
  <2>2. CASE k \in DOMAIN files /\ files'[k] = files[k]
    <3>1. y \in Ahead(i) /\ i \in DOMAIN stack
      BY <1>3, <1>11, <2>1
    <3>2. QED BY <2>1, <2>2, <3>1 DEF OrderInv, FilesBefore
  <2>3. CASE files'[k].entry = x
    BY <1>12, <2>1, <2>3
  <2>4. QED BY <1>7, <2>2, <2>3
<1>14. QED BY <1>1, <1>2, <1>4, <1>6, <1>10, <1>13 DEF OrderInv, WalkOrdered

LEMMA DirectoryChainEndsOrder ==
  ASSUME IInv, NestOK, IsFat, NEW N, IsNumbering(N), OrderInv(N),
         Fat!DirectoryChainEnds
  PROVE  OrderInv(N)'
<1> DEFINE n == Len(stack)
           exts == Fat!Closed(walk)
           b == WalkBegan
<1>1. /\ n \in Nat /\ DOMAIN stack = 1..n /\ exts \in Seq(Extents)
      /\ pc = "chain" /\ walk.file = <<>> /\ ~IsLink(walk.cluster)
      /\ UNCHANGED <<vol, stop, files>>
      /\ \/ /\ walk.run = 0 /\ stack' = stack
            /\ pc' = (IF stack = <<>> THEN "done" ELSE "entry")
         \/ /\ walk.run # 0 /\ pc' = "entry"
            /\ Len(stack') = n + 1 /\ DOMAIN stack' = 1..(n + 1)
            /\ \A i \in 1..n : stack'[i] = stack[i]
            /\ stack'[n + 1].next = 1
            /\ \E k \in 0..Len(exts) :
                 /\ stack'[n + 1].entries =
                      FlattenSeq([j \in 1..k |-> Fat!ExtentEntries(exts[j])])
                 /\ k < Len(exts) => Fat!ExtentSectors(exts[k + 1]) \cap Unsound # {}
  BY TopOpens
<1>2. pc' \in {"entry", "done"} /\ (stack = <<>> <=> n = 0) /\ N \in Numberings
  BY <1>1, StackType DEF IsNumbering
<1>3. FilesAscend(N)'
  BY <1>1 DEF OrderInv, FilesAscend
<1>4. WalkOrdered(N)' /\ pc' # "root"
  BY <1>2 DEF WalkOrdered
<1>5. ASSUME NEW i \in 1..n, \A j \in 1..n : stack'[j] = stack[j]
      PROVE  Ahead(i)' \subseteq Ahead(i)
  <2>1. stack[i].next \in Nat /\ i \in DOMAIN stack /\ stack'[i] = stack[i]
    BY <1>1, <1>5, StackType
  <2>2. NextUp(i)' = stack[i].next
    BY <1>2, <2>1 DEF NextUp
  <2>3. NextUp(i) = stack[i].next \/ NextUp(i) = stack[i].next - 1
    BY DEF NextUp
  <2>4. (stack[i].next - 1) + 1 = stack[i].next
    BY <2>1
  <2>5. QED BY <2>1, <2>2, <2>3, <2>4, AheadShrinks
<1>6. CASE walk.run = 0
  <2>1. stack' = stack /\ pc' = (IF stack = <<>> THEN "done" ELSE "entry")
    BY <1>1, <1>6
  <2>2. \A i : Pending(i)' = Pending(i)
    BY <2>1 DEF Pending
  <2>3. FramesInOrder(N)' /\ FramesNested(N)'
    BY <1>1, <2>1, <2>2 DEF OrderInv, FramesInOrder, FramesNested
  <2>4. FilesBefore(N)'
    BY <1>1, <1>5, <2>1 DEF OrderInv, FilesBefore
  <2>5. QED BY <1>1, <1>3, <1>4, <2>1, <2>3, <2>4 DEF OrderInv
<1>7. CASE walk.run # 0
  <2> DEFINE p == stack'[n + 1].entries
  <2>1. /\ pc' = "entry" /\ Len(stack') = n + 1 /\ DOMAIN stack' = 1..(n + 1)
        /\ \A i \in 1..n : stack'[i] = stack[i]
        /\ stack'[n + 1].next = 1
    BY <1>1, <1>7
  <2>2. PICK k \in 0..Len(exts) : p = FlattenSeq([j \in 1..k |-> Fat!ExtentEntries(exts[j])])
    BY <1>1, <1>7
\* What was read of the directory lies between the numbers of its first cluster.
  <2>3. IsLink(b)
    BY <1>1, <1>7 DEF NestOK, WalkBegan, IsWalkFrom
  <2>4. WalkInOrder(N, b, walk.cluster, exts)
    BY <1>1, <2>3 DEF OrderInv, WalkOrdered
  <2>5. b \in N.clusters /\ InOrder(N, Reads(exts), N.from[b], N.end[b])
    BY <2>4 DEF WalkInOrder
  <2> HIDE DEF b, exts
  <2>6. p \in Seq(Entries) /\ InOrder(N, p, N.from[b], N.end[b])
    <3>1. p \in Seq(Entries) /\ \E r \in Seq(Entries) : Reads(exts) = p \o r
      <4> HIDE DEF p
      <4>1. QED BY <1>1, <2>2, ReadsPrefix DEF IInv
    <3> HIDE DEF p
    <3>2. QED BY <2>5, <3>1, OrderStarts
  <2>7. N.from[b] \in Nat /\ N.end[b] \in Nat
    BY <1>2, <2>5, NumberTypes
  <2> HIDE DEF p
  <2>8. \A a, z \in Nat : a <= N.from[b] /\ N.end[b] <= z => InOrder(N, p, a, z)
    BY <1>2, <2>6, <2>7, OrderWiden
\* The directory that opened it.
  <2>9. ASSUME n # 0
        PROVE  /\ IsPending(n) /\ Counts(Pending(n)) /\ n \in 1..n /\ n \in DOMAIN stack
               /\ N.at[Pending(n)] \in Nat /\ N.upto[Pending(n)] \in Nat
               /\ N.at[Pending(n)] < N.from[b] /\ N.end[b] <= N.upto[Pending(n)]
    <3>1. IsPending(n) /\ IsDirEntry(Pending(n)) /\ b = Pending(n).cluster
      BY <1>1, <1>2, <2>9 DEF NestOK, WalkBegan, b
    <3>2. n \in DOMAIN stack /\ n \in 1..n
      <4> HIDE DEF n
      <4>1. QED BY <1>1, <2>9
    <3>3. Counts(Pending(n))
      BY <3>1 DEF Counts
    <3>4. PICK z \in Nat : InOrder(N, stack[n].entries, 0, z)
      BY <3>2 DEF OrderInv, FramesInOrder
    <3> HIDE DEF n
    <3>5. /\ Encloses(N, Pending(n))
          /\ N.at[Pending(n)] \in Nat /\ N.upto[Pending(n)] \in Nat
      BY <1>2, <3>1, <3>2, <3>3, <3>4, PendingIn
    <3>6. QED BY <2>3, <3>1, <3>2, <3>3, <3>5 DEF Encloses
  <2>10. \A i \in 1..(n + 1) : i \in 1..n \/ i = n + 1
    <3> HIDE DEF n
    <3>1. QED BY <1>1
  <2>11. /\ \A i \in 1..n : \E z \in Nat : InOrder(N, stack'[i].entries, 0, z)
         /\ \A i, j \in 1..n : i < j =>
              InOrder(N, stack'[j].entries, N.at[Pending(i)'] + 1, N.upto[Pending(i)'])
    <3>1. n <= Len(stack)
      BY <1>1
    <3> HIDE DEF n
    <3>2. QED BY <1>1, <2>1, <3>1, FramesOrdered DEF OrderInv
  <2>12. FramesInOrder(N)'
    <3>1. \E z \in Nat : InOrder(N, stack'[n + 1].entries, 0, z)
      <4>1. 0 <= N.from[b] /\ N.end[b] <= N.end[b]
        BY <2>7
      <4>2. QED BY <2>7, <2>8, <4>1 DEF p
    <3> HIDE DEF n
    <3>2. \A i \in 1..(n + 1) : \E z \in Nat : InOrder(N, stack'[i].entries, 0, z)
      BY <2>10, <2>11, <3>1
    <3>3. QED BY <1>1, <2>1, <3>2 DEF FramesInOrder
  <2>13. ASSUME NEW i \in 1..n
         PROVE  InOrder(N, p, N.at[Pending(i)] + 1, N.upto[Pending(i)])
    <3>1. n # 0 /\ i \in Nat /\ i \in DOMAIN stack
      <4> HIDE DEF n
      <4>1. QED BY <1>1, <2>13
    <3>2. /\ IsPending(n) /\ Counts(Pending(n)) /\ n \in 1..n /\ n \in DOMAIN stack
          /\ N.at[Pending(n)] \in Nat /\ N.upto[Pending(n)] \in Nat
          /\ N.at[Pending(n)] < N.from[b] /\ N.end[b] <= N.upto[Pending(n)]
      BY <2>9, <3>1
    <3>3. CASE i = n
      <4>1. N.at[Pending(n)] + 1 <= N.from[b] /\ N.at[Pending(n)] + 1 \in Nat
        BY <2>7, <3>2
      <4>2. InOrder(N, p, N.at[Pending(n)] + 1, N.upto[Pending(n)])
        <5> HIDE DEF n
        <5>1. QED BY <2>8, <3>2, <4>1
      <4>3. QED BY <3>3, <4>2
    <3>4. CASE i # n
      <4>1. i < n
        <5> HIDE DEF n
        <5>1. QED BY <1>1, <2>13, <3>4
      <4>2. InOrder(N, stack[n].entries, N.at[Pending(i)] + 1, N.upto[Pending(i)])
        BY <3>1, <3>2, <4>1 DEF OrderInv, FramesNested
      <4>3. /\ N.at[Pending(i)] + 1 <= N.at[Pending(n)] /\ N.upto[Pending(n)] < N.upto[Pending(i)]
        <5> HIDE DEF n
        <5>1. QED BY <1>2, <3>2, <4>2, PendingIn
      <4>4. N.at[Pending(i)] \in Nat /\ N.upto[Pending(i)] \in Nat
        <5>1. IsPending(i) /\ Counts(Pending(i))
          BY <3>1, <4>1 DEF NestOK, Counts
        <5>2. PICK z \in Nat : InOrder(N, stack[i].entries, 0, z)
          BY <3>1 DEF OrderInv, FramesInOrder
        <5>3. QED BY <1>2, <3>1, <5>1, <5>2, PendingIn
      <4>5. /\ N.at[Pending(i)] + 1 <= N.from[b] /\ N.end[b] <= N.upto[Pending(i)]
            /\ N.at[Pending(i)] + 1 \in Nat
        <5>1. \A a, u, v, w, x, y \in Nat :
                a + 1 <= u /\ v < w /\ u < x /\ y <= v => a + 1 <= x /\ y <= w /\ a + 1 \in Nat
          OBVIOUS
        <5> HIDE DEF n
        <5>2. QED BY <2>7, <3>2, <4>3, <4>4, <5>1
      <4>6. QED BY <2>8, <4>4, <4>5
    <3>5. QED BY <3>3, <3>4
  <2>14. FramesNested(N)'
    <3>1. SUFFICES ASSUME NEW i \in 1..(n + 1), NEW j \in 1..(n + 1), i < j
                   PROVE  InOrder(N, stack'[j].entries, N.at[Pending(i)'] + 1,
                                  N.upto[Pending(i)'])
      BY <1>1, <2>1 DEF FramesNested
    <3> HIDE DEF n
    <3>2. i \in 1..n
      BY <1>1, <3>1
    <3>3. CASE j \in 1..n
      BY <2>11, <3>1, <3>2, <3>3
    <3>4. CASE j = n + 1
      <4>1. Pending(i)' = Pending(i)
        BY <2>1, <3>2 DEF Pending
      <4>2. QED BY <2>13, <3>2, <3>4, <4>1 DEF p
    <3>5. QED BY <2>10, <3>3, <3>4
  <2>15. FilesBefore(N)'
    <3>1. SUFFICES ASSUME NEW l \in DOMAIN files, NEW i \in 1..(n + 1), NEW y \in Ahead(i)',
                          Counts(y)
                   PROVE  N.at[files[l].entry] < N.at[y]
      BY <1>1, <2>1 DEF FilesBefore
    <3>2. CASE i \in 1..n
      <4>1. y \in Ahead(i) /\ i \in DOMAIN stack
        BY <1>1, <1>5, <2>1, <3>1, <3>2
      <4>2. QED BY <3>1, <4>1 DEF OrderInv, FilesBefore
    <3>3. CASE i = n + 1
      <4>1. n # 0
        <5>1. stack # <<>>
          BY <1>1, <3>1 DEF OrderInv
        <5>2. QED BY <1>2, <5>1
      <4>2. PICK j \in DOMAIN p : y = p[j]
        BY <3>1, <3>3 DEF Ahead, p
      <4>3. N.from[b] <= N.at[y]
        BY <2>6, <3>1, <4>2 DEF InOrder
      <4>4. N.at[y] \in Nat
        <5>1. y \in Entries
          BY <2>6, <4>2, ElementOfSeq, LenProperties
        <5>2. QED BY <1>2, <5>1, NumberTypes
      <4>5. /\ IsPending(n) /\ Counts(Pending(n)) /\ n \in DOMAIN stack
            /\ N.at[Pending(n)] \in Nat /\ N.at[Pending(n)] < N.from[b]
        BY <2>9, <4>1
      <4>6. Pending(n) \in Ahead(n)
        BY <1>1, <1>2, <4>1, <4>5, PendingAhead
      <4>7. N.at[files[l].entry] < N.at[Pending(n)]
        BY <3>1, <4>5, <4>6 DEF OrderInv, FilesBefore
      <4>8. N.at[files[l].entry] \in Nat
        BY <1>2, <3>1, NumberTypes, FileTypes DEF IInv
      <4>9. QED BY <2>7, <4>3, <4>4, <4>5, <4>7, <4>8
    <3>4. QED BY <2>10, <3>1, <3>2, <3>3
  <2>16. stack' # <<>>
    <3>1. ASSUME stack' = <<>> PROVE FALSE
      <4>1. Len(stack') = 0
        BY <3>1
      <4> HIDE DEF n
      <4>2. QED BY <1>1, <2>1, <4>1
    <3>2. QED BY <3>1
  <2>17. QED BY <1>3, <1>4, <2>12, <2>14, <2>15, <2>16 DEF OrderInv
<1>8. QED BY <1>6, <1>7

LEMMA RootOrder ==
  ASSUME IInv, IsFat, NEW N, IsNumbering(N), OrderInv(N),
         Fat!ParseBootSector \/ Fat!ReadRootDirectory
  PROVE  OrderInv(N)'
<1>1. /\ stack = <<>> /\ UNCHANGED <<vol, files>> /\ pc \in {"fat", "root"}
  BY DEF Fat!ParseBootSector, Fat!ReadRootDirectory, IInv, DepthOK
<1>2. files = <<>> /\ files' = <<>>
  BY <1>1 DEF OrderInv
<1>3. FilesAscend(N)' /\ FilesBefore(N)'
  <2>1. DOMAIN files' = {}
    BY <1>2
  <2>2. QED BY <2>1 DEF FilesAscend, FilesBefore
<1>4. CASE stack' = <<>>
  <2>1. DOMAIN stack' = {}
    BY <1>4
  <2>2. FramesInOrder(N)' /\ FramesNested(N)'
    BY <2>1 DEF FramesInOrder, FramesNested
  <2>3. pc' = "root" => vol.fs # "fat32"
    BY <1>4 DEF Fat!ParseBootSector, Fat!ReadRootDirectory
  <2>4. WalkOrdered(N)'
    <3>1. SUFFICES ASSUME pc' = "chain", NEW b, NEW c, NEW t,
                          b = WalkBegan', IsLink(b), c = walk'.cluster, t = Fat!Closed(walk)'
                   PROVE  WalkInOrder(N, b, c, t)
      BY <1>1, OrderFixed DEF WalkOrdered, IsLink
    <3>2. vol.fs = "fat32" /\ walk' = Fat!ChainOfDirectory(vol.root, 0)
      BY <3>1 DEF Fat!ParseBootSector, Fat!ReadRootDirectory
    <3>3. walk'.run = 0 /\ walk'.cluster = vol.root /\ walk'.extents = <<>>
      BY <3>2 DEF Fat!ChainOfDirectory, Fat!NoWalk
    <3>4. t = <<>> /\ b = vol.root /\ c = b
      BY <1>1, <1>4, <3>1, <3>3 DEF Fat!Closed, WalkBegan
    <3>5. b \in N.clusters /\ N \in Numberings
      BY <3>1, <3>2, <3>4 DEF IsNumbering
    <3>6. N.from[b] \in Nat /\ N.end[b] \in Nat
      BY <3>5, NumberTypes
    <3>7. N.from[b] <= N.from[b] /\ N.end[b] <= N.end[b]
      BY <3>6
    <3>8. QED BY <3>4, <3>5, <3>7, ReadsNone, OrderNone DEF WalkInOrder
  <2>5. QED BY <1>1, <1>2, <1>3, <2>2, <2>3, <2>4 DEF OrderInv
<1>5. CASE stack' # <<>>
  <2>1. /\ pc = "root" /\ pc' = "entry"
        /\ stack' = <<[depth |-> 0, next |-> 1, entries |-> vol.rootEntries,
                       long |-> <<>>, valid |-> FALSE]>>
    BY <1>1, <1>5 DEF Fat!ParseBootSector, Fat!ReadRootDirectory
  <2>2. PICK z \in Nat : InOrder(N, vol.rootEntries, 0, z)
    BY <2>1 DEF OrderInv, IsNumbering
  <2>3. DOMAIN stack' = {1} /\ stack'[1].entries = vol.rootEntries
    BY <2>1
  <2>4. FramesInOrder(N)'
    BY <1>1, <2>2, <2>3 DEF FramesInOrder
  <2>5. FramesNested(N)'
    BY <2>3 DEF FramesNested
  <2>6. QED BY <1>2, <1>3, <2>1, <2>4, <2>5 DEF OrderInv, WalkOrdered
<1>6. QED BY <1>4, <1>5

LEMMA LoopFixed ==
  ASSUME UNCHANGED vol
  PROVE  HasLoop' <=> HasLoop
<1>0. vol' = vol
  OBVIOUS
<1>1. Chains' = Chains
  BY <1>0 DEF Chains
<1>2. \A c : TrueChain(c)' = TrueChain(c)
  BY <1>0, <1>1 DEF TrueChain
<1>3. \A c : EntriesOf(c)' = EntriesOf(c)
  BY SoundFixed
<1>4. \A c : DirectoryIsSound(c)' = DirectoryIsSound(c)
  <2>1. \A c : ClusterIsSound(c)' = ClusterIsSound(c)
    BY SoundsFixed
  <2>2. QED BY <1>0, <1>2, <2>1 DEF DirectoryIsSound
<1>5. RootIsSound' = RootIsSound
  BY <1>0, <1>4 DEF RootIsSound, Unsound
<1>6. RootEntries' = RootEntries
  BY <1>0, <1>3 DEF RootEntries
<1>7. SoundListings' = SoundListings
  <2>1. \A f : AreListings(MaxDepth, f)' <=> AreListings(MaxDepth, f)
    BY <1>3, <1>4, <1>5, <1>6 DEF AreListings, RootListing, ListingsBelow
  <2>2. SoundListings = CHOOSE f : AreListings(MaxDepth, f)
    BY DEF SoundListings, AreListings, RootListing, ListingsBelow
  <2>3. (SoundListings = CHOOSE f : AreListings(MaxDepth, f))'
    BY DEF SoundListings, AreListings, RootListing, ListingsBelow
  <2>4. QED BY <2>1, <2>2, <2>3
<1>8. QED BY <1>7 DEF HasLoop

LEMMA AstrayFixed ==
  ASSUME UNCHANGED vol
  PROVE  LeadsAstray' <=> LeadsAstray
BY LinksFixed DEF LeadsAstray, IsDirEntry

OrderOK == IsFat /\ ~HasLoop /\ ~LeadsAstray => \E N : IsNumbering(N) /\ OrderInv(N)

LEMMA OutOfMemoryOrder ==
  ASSUME IInv, NestOK, NEW N, OrderInv(N), Fat!OutOfMemory
  PROVE  OrderInv(N)'
<1>1. pc = "chain" /\ pc' = "terminated" /\ UNCHANGED <<vol, files, stack>>
  BY DEF Fat!OutOfMemory
<1>2. \A i : Pending(i)' = Pending(i)
  BY <1>1 DEF Pending
<1>3. FramesInOrder(N)' /\ FramesNested(N)' /\ FilesAscend(N)'
  BY <1>1, <1>2 DEF OrderInv, FramesInOrder, FramesNested, FilesAscend
<1>4. \A i \in DOMAIN stack : Ahead(i)' \subseteq Ahead(i)
  <2>1. TAKE i \in DOMAIN stack
  <2>2. stack[i].next \in Nat
    BY StackType
  <2>3. NextUp(i)' = stack[i].next
    BY <1>1 DEF NextUp
  <2>4. NextUp(i) = stack[i].next \/ NextUp(i) = stack[i].next - 1
    BY DEF NextUp
  <2>5. (stack[i].next - 1) + 1 = stack[i].next /\ stack'[i] = stack[i]
    BY <1>1, <2>2
  <2>6. QED BY <2>2, <2>3, <2>4, <2>5, AheadShrinks
<1>5. FilesBefore(N)'
  BY <1>1, <1>4 DEF OrderInv, FilesBefore
<1>6. QED BY <1>1, <1>3, <1>5 DEF OrderInv, WalkOrdered

LEMMA StepOrder ==
  ASSUME IInv, NestOK, OrderOK, [Next]_vars
  PROVE  OrderOK'
<1>1. vol' = vol
  BY StepVolume
<1>2. SUFFICES ASSUME IsFat, ~HasLoop, ~LeadsAstray, NEW N, IsNumbering(N), OrderInv(N)
               PROVE  OrderInv(N)'
  <2>1. IsFat' = IsFat /\ (HasLoop' <=> HasLoop) /\ (LeadsAstray' <=> LeadsAstray)
    BY <1>1, SoundFixed, LoopFixed, AstrayFixed
  <2>2. \A N : IsNumbering(N)' <=> IsNumbering(N)
    BY <1>1, OrderFixed
  <2>3. QED BY <2>1, <2>2 DEF OrderOK
<1>3. CASE Fat!LongNameEntry \/ Fat!DirectoryEntry \/ Fat!FileEntry \/ Fat!OtherEntry
  BY <1>2, <1>3, EntryOrder
<1>4. CASE Fat!DirectoryDone
  BY <1>2, <1>4, DirectoryDoneOrder
<1>5. CASE Fat!DirectoryChainEnds
  BY <1>2, <1>5, DirectoryChainEndsOrder
<1>6. CASE Fat!ChainOfFileEnds
  BY <1>2, <1>6, ChainOfFileEndsOrder
<1>7. CASE Fat!FollowChain
  BY <1>2, <1>7, FollowChainOrder
<1>8. CASE Fat!ParseBootSector \/ Fat!ReadRootDirectory
  BY <1>2, <1>8, RootOrder
<1>9. CASE Mft!MftNext
  <2>1. pc \in OnMft
    BY <1>9 DEF Mft!MftNext, Mft!ParseMftBootSector, Mft!ReadBatch, Mft!EnumerationStops,
       Mft!ProcessRecord, Mft!ProcessSingleRecord, Mft!BatchDone, OnMft
  <2>2. QED BY <1>2, <2>1 DEF IInv, TypesOK
<1>10. CASE DetectFilesystem
  <2>1. stack = <<>> /\ stack' = <<>> /\ files' = files /\ pc = "detect"
    BY <1>10 DEF DetectFilesystem, IInv, DepthOK, fatVars
  <2>2. Detected \in {"ntfs", "fat", "raw"}
    BY DEF Detected
  <2>3. pc' \in {"ntfs", "fat", "raw"}
    BY <1>10, <2>2 DEF DetectFilesystem
  <2>4. files' = <<>> /\ DOMAIN stack' = {} /\ DOMAIN files' = {}
    BY <1>2, <2>1 DEF OrderInv
  <2>5. QED BY <2>3, <2>4 DEF OrderInv, FramesInOrder, FramesNested, FilesAscend,
               FilesBefore, WalkOrdered
<1>11. CASE RequestStop \/ UNCHANGED vars
  <2>1. UNCHANGED <<vol, pc, files, stack, walk>>
    BY <1>11 DEF RequestStop, vars, fatVars
  <2>2. \A i : Pending(i)' = Pending(i) /\ Ahead(i)' = Ahead(i)
    BY <2>1 DEF Pending, Ahead, NextUp
  <2>3. FramesInOrder(N)' /\ FramesNested(N)' /\ FilesAscend(N)' /\ FilesBefore(N)'
    BY <1>2, <2>1, <2>2 DEF OrderInv, FramesInOrder, FramesNested, FilesAscend, FilesBefore
  <2>4. WalkOrdered(N)'
    <3>1. WalkBegan' = WalkBegan /\ Fat!Closed(walk)' = Fat!Closed(walk)
      BY <2>1, <2>2 DEF WalkBegan, Fat!Closed
    <3>2. \A b : IsLink(b)' <=> IsLink(b)
      BY DEF IsLink
    <3>3. WalkOrdered(N)
      BY <1>2 DEF OrderInv
    <3>4. QED BY <2>1, <3>1, <3>2, <3>3, OrderFixed DEF WalkOrdered
  <2>5. QED BY <1>2, <2>1, <2>3, <2>4 DEF OrderInv
<1>12. CASE Fat!OutOfMemory
  BY <1>2, <1>12, OutOfMemoryOrder
<1>13. QED BY <1>12, <1>3, <1>4, <1>5, <1>6, <1>7, <1>8, <1>9, <1>10, <1>11
          DEF Next, Parse, Fat!FatNext

LEMMA InitOrder ==
  ASSUME Init, IsTree
  PROVE  OrderOK
<1>1. stack = <<>> /\ pc = "detect" /\ files = <<>>
  BY DEF Init, Fat!FatInit
<1>2. DOMAIN stack = {} /\ DOMAIN files = {}
  BY <1>1
<1>3. \A N : OrderInv(N)
  BY <1>1, <1>2 DEF OrderInv, FramesInOrder, FramesNested, FilesAscend, FilesBefore, WalkOrdered
<1>4. QED BY <1>3 DEF OrderOK, IsTree

LEMMA AscendingOnce ==
  ASSUME IInv, IsFat, NEW N \in Numberings, FilesAscend(N), NEW e
  PROVE  TimesReported(e) <= 1
<1> DEFINE K == {k \in DOMAIN files : files[k].entry = e}
<1>1. DOMAIN files = 1..Len(files) /\ \A k \in DOMAIN files : files[k].entry \in Entries
  BY FileTypes DEF IInv
<1>2. \A j, k \in K : ~(j < k)
  <2>1. SUFFICES ASSUME NEW j \in K, NEW k \in K, j < k PROVE FALSE
    OBVIOUS
  <2>2. N.at[files[j].entry] < N.at[files[k].entry]
    BY <2>1 DEF FilesAscend
  <2>3. files[j].entry = e /\ files[k].entry = e /\ N.at[e] \in Nat
    BY <1>1, <2>1, NumberTypes
  <2>4. QED BY <2>2, <2>3
<1>3. K \subseteq Nat
  BY <1>1
<1> HIDE DEF K
<1>4. \A j, k \in K : j = k
  <2>1. \A j, k \in Nat : j = k \/ j < k \/ k < j
    OBVIOUS
  <2>2. QED BY <1>2, <1>3, <2>1
<1>5. Cardinality(K) <= 1
  <2>1. CASE K = {}
    <3>1. Cardinality(K) = 0
      BY <2>1, FS_EmptySet
    <3>2. QED BY <3>1
  <2>2. CASE K # {}
    <3>0. PICK k : k \in K
      BY <2>2
    <3>1. K = {k}
      BY <1>4, <3>0
    <3>2. Cardinality(K) = 1
      BY <3>1, FS_Singleton
    <3>3. QED BY <3>2
  <2>3. QED BY <2>1, <2>2
<1>6. QED BY <1>5 DEF TimesReported, K

\* No file is reported twice: not at the end, and not on the way to it, on a
\* volume whose directories form a tree of clusters that 32 bits can number,
\* whatever on it cannot be read and whether or not somebody stops the scan
\* (fat_parser.cpp:94-97 and :328).
THEOREM ReportedOnce == Spec /\ IsTree => []NoneTwice
<1> DEFINE J == NestOK /\ OrderOK
<1>1. Init /\ IsTree => J
  BY InitReach, InitOrder
<1>2. IInv /\ IInv' /\ J /\ [Next]_vars => J'
  BY StepNest, StepOrder
<1>3. IInv /\ J => NoneTwice
  <2> SUFFICES ASSUME IInv, J, IsFat, ~HasLoop, ~LeadsAstray, NEW e
               PROVE  TimesReported(e) <= 1
    BY DEF NoneTwice
  <2>1. PICK N : IsNumbering(N) /\ OrderInv(N)
    BY DEF OrderOK
  <2>2. QED BY <2>1, AscendingOnce DEF IsNumbering, OrderInv
<1> HIDE DEF J
<1>4. QED BY <1>1, <1>2, <1>3, Inductive, PTL DEF Spec

\* Damage stays where it is: on a volume whose table leads from cluster to
\* cluster and whose directories form a tree, every file below directories that
\* can be read was reported, once, at the end of an enumeration nobody stopped,
\* and on NTFS every record that can be read, whatever else of the volume cannot
\* be (fat_parser.cpp:217 and :328, mft_parser.cpp:158).
THEOREM SoundFilesReported ==
  Spec /\ TableIsWhole /\ IsTree /\ MftFits => []SoundFilesAreReported
<1>1. (Undisturbed => SoundEntriesAreReported) /\ NoneTwice
      /\ (Undisturbed => SoundRecordsAreReported) => SoundFilesAreReported
  BY DEF SoundFilesAreReported
<1>2. QED BY <1>1, SoundEntriesReported, ReportedOnce, RecordsReported, PTL
=============================================================================
