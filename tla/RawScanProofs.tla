---------------------------- MODULE RawScanProofs ----------------------------
(***************************************************************************)
(* Theorems about RawScan, for any disk, damage, reader and sizes: its     *)
(* types; no file is accepted that does not begin with a header on the     *)
(* disk, nor as undamaged that cannot be read; a reader that isolates bad  *)
(* sectors misses no header; the progress and the count of bad sectors are *)
(* exact; and what is found is reported once.                              *)
(***************************************************************************)
EXTENDS RawScan, SequenceTheorems, FiniteSetTheorems, WellFoundedInduction, TLAPS

----------------------------------------------------------------------------
(* Numbers.                                                                *)

LEMMA LeastNat ==
  ASSUME NEW T \in SUBSET Nat, T # {}
  PROVE  \E n \in T : \A m \in T : n <= m
<1>1. PICK n \in T : \A m \in T : ~(<<m, n>> \in OpToRel(<, Nat))
  BY NatLessThanWellFounded, WFMin
<1>2. \A m \in T : ~(m < n)
  BY <1>1 DEF OpToRel
<1>3. QED BY <1>2

LEMMA MinNat ==
  ASSUME NEW T \in SUBSET Nat, T # {}
  PROVE  Min(T) \in T /\ \A m \in T : Min(T) <= m
<1>1. \E n \in T : \A m \in T : n <= m
  BY LeastNat
<1>2. QED BY <1>1 DEF Min

LEMMA MaxNat ==
  ASSUME NEW b \in Nat, NEW T \in SUBSET (0..b), T # {}
  PROVE  Max(T) \in T /\ \A m \in T : m <= Max(T)
<1> DEFINE U == {b - m : m \in T}
<1>1. U \in SUBSET Nat /\ U # {}
  <2>1. \A m \in T : m \in 0..b
    OBVIOUS
  <2>2. \A m \in T : b - m \in Nat
    BY <2>1
  <2>3. QED BY <2>2
<1>2. PICK u \in U : \A v \in U : u <= v
  BY <1>1, LeastNat
<1>3. PICK n \in T : u = b - n
  BY <1>2
<1>4. \A m \in T : m <= n
  <2>1. TAKE m \in T
  <2>2. b - n <= b - m
    BY <1>2, <1>3
  <2>3. n \in Nat /\ m \in Nat
    OBVIOUS
  <2>4. QED BY <2>2, <2>3
<1>5. QED BY <1>4 DEF Max

\* The constants are numbers, and the tokens of the disk are tokens.
LEMMA Params ==
  /\ Batch \in Nat \ {0} /\ BadLimit \in Nat \ {0} /\ SkipLen \in Nat \ {0}
  /\ HeaderLen \in Nat \ {0} /\ FooterChunk \in Nat \ {0}
  /\ ImageCap \in Nat \ {0} /\ Probe \in Nat \ {0}
  /\ DefaultImage \in Nat \ {0} /\ DefaultVideo \in Nat \ {0}
  /\ BlockChunks \in Nat \ {0} /\ Word \in Nat \ {0}
  /\ Overlap \in Nat /\ VideoReach \in Nat /\ Gap \in Nat
BY SizeAssumption

LEMMA MaxOfNat ==
  \A a, b \in Nat :
    /\ MaxOf(a, b) \in Nat /\ b <= MaxOf(a, b)
    /\ \A x \in Nat : x <= a => x <= MaxOf(a, b)
BY DEF MaxOf

LEMMA SpanNat == \A s, n \in Nat : Span(s, n) \subseteq Nat
BY DEF Span

LEMMA AtToken == \A x : At(x) \in Tokens
BY DiskAssumption DEF At, Tokens

LEMMA BatchCountType ==
  ASSUME sector \in Nat, end \in Nat, sector < end
  PROVE  BatchCount \in 0..Batch
<1>1. Batch \in Nat \ {0} /\ Word \in Nat \ {0}
  BY Params
<1>2. end - sector \in Nat
  OBVIOUS
<1>3. (end - sector) % Word \in Nat
  BY <1>1, <1>2
<1>4. QED BY <1>1, <1>3 DEF BatchCount, MinOf

----------------------------------------------------------------------------
(* The ranges still to read tile the rest of the batch.                    *)

Tiles(t, s, n) ==
  \A k \in 1..Len(t) :
    /\ t[k][1] >= s /\ t[k][2] >= 1 /\ t[k][1] + t[k][2] <= s + n
    /\ t[k][1] + t[k][2] = IF k = Len(t) THEN s + n ELSE t[k + 1][1]

LEMMA RangeType == 
  ASSUME NEW t \in Seq(Ranges), NEW k \in 1..Len(t)
  PROVE  t[k] \in Ranges /\ t[k][1] \in Nat /\ t[k][2] \in Nat
<1>1. t[k] \in Ranges
  BY ElementOfSeq
<1>2. QED BY <1>1 DEF Ranges

LEMMA TailTiles ==
  ASSUME NEW t \in Seq(Ranges), t # <<>>, NEW s \in Nat, NEW n \in Nat,
         Tiles(t, s, n)
  PROVE  /\ Tail(t) \in Seq(Ranges) /\ Tiles(Tail(t), s, n)
         /\ Tail(t) = <<>> => t[1][1] + t[1][2] = s + n
         /\ Tail(t) # <<>> => Tail(t)[1][1] = t[1][1] + t[1][2]
<1> DEFINE u == Tail(t)
<1>1. /\ u \in Seq(Ranges) /\ Len(u) = Len(t) - 1
      /\ \A i \in 1..Len(u) : u[i] = t[i + 1]
  BY HeadTailProperties
<1>2. Len(t) \in Nat \ {0} /\ Len(u) \in Nat
  BY <1>1, EmptySeq, LenProperties
<1> HIDE DEF u
<1>3. Tiles(u, s, n)
  <2>1. SUFFICES ASSUME NEW k \in 1..Len(u)
                 PROVE  /\ u[k][1] >= s /\ u[k][2] >= 1
                        /\ u[k][1] + u[k][2] <= s + n
                        /\ u[k][1] + u[k][2] =
                             IF k = Len(u) THEN s + n ELSE u[k + 1][1]
    BY DEF Tiles
  <2>2. k + 1 \in 1..Len(t) /\ (k = Len(u) <=> k + 1 = Len(t))
    BY <1>1, <1>2
  <2>3. k # Len(u) => k + 1 \in 1..Len(u)
    BY <1>2
  <2>4. u[k] = t[k + 1] /\ (k # Len(u) => u[k + 1] = t[(k + 1) + 1])
    BY <1>1, <2>3
  <2>5. QED BY <2>2, <2>4 DEF Tiles
<1>4. 1 \in 1..Len(t)
  BY <1>2
<1>5. u = <<>> => Len(t) = 1
  BY <1>1, <1>2, EmptySeq
<1>6. u # <<>> => Len(t) # 1 /\ u[1] = t[2]
  <2>1. u # <<>> => Len(u) # 0
    BY <1>1, EmptySeq
  <2>2. QED BY <2>1, <1>1, <1>2
<1>7. u = <<>> => t[1][1] + t[1][2] = s + n
  BY <1>4, <1>5 DEF Tiles
<1>8. u # <<>> => u[1][1] = t[1][1] + t[1][2]
  <2>1. SUFFICES ASSUME u # <<>> PROVE u[1][1] = t[1][1] + t[1][2]
    OBVIOUS
  <2>2. t[1][1] + t[1][2] = t[1 + 1][1]
    BY <2>1, <1>4, <1>6 DEF Tiles
  <2>3. QED BY <2>1, <2>2, <1>6
<1>9. QED BY <1>1, <1>3, <1>7, <1>8 DEF u

LEMMA SplitTiles ==
  ASSUME NEW t \in Seq(Ranges), t # <<>>, NEW s \in Nat, NEW n \in Nat,
         Tiles(t, s, n), NEW h \in Nat, h >= 1, h < t[1][2]
  PROVE  LET u == <<<<t[1][1], h>>, <<t[1][1] + h, t[1][2] - h>>>> \o Tail(t)
         IN /\ u \in Seq(Ranges) /\ u # <<>> /\ Tiles(u, s, n)
            /\ u[1][1] = t[1][1]
<1> DEFINE f == t[1][1]
           m == t[1][2]
           p == <<<<f, h>>, <<f + h, m - h>>>>
           v == Tail(t)
           u == p \o v
<1>1. /\ v \in Seq(Ranges) /\ Tiles(v, s, n)
      /\ v = <<>> => f + m = s + n
      /\ v # <<>> => v[1][1] = f + m
  BY TailTiles
<1>2. Len(t) \in Nat \ {0}
  BY EmptySeq
<1>3. /\ f \in Nat /\ m \in Nat /\ f >= s /\ f + m <= s + n
  <2>1. 1 \in 1..Len(t)
    BY <1>2
  <2>2. QED BY <2>1, RangeType DEF Tiles
<1>4. p \in Seq(Ranges) /\ Len(p) = 2
  <2>1. <<f, h>> \in Ranges /\ <<f + h, m - h>> \in Ranges
    BY <1>3 DEF Ranges
  <2> HIDE DEF f, m
  <2>2. QED BY <2>1
<1>5. /\ u \in Seq(Ranges) /\ Len(u) = 2 + Len(v)
      /\ \A i \in 1..(2 + Len(v)) : u[i] = IF i <= 2 THEN p[i] ELSE v[i - 2]
  BY <1>1, <1>4, ConcatProperties, Zenon
<1>6. Len(v) \in Nat /\ (v = <<>> <=> Len(v) = 0)
  BY <1>1, EmptySeq, LenProperties
<1>7. u[1] = <<f, h>> /\ u[2] = <<f + h, m - h>>
  BY <1>5, <1>6
<1>8. \A i \in 1..Len(v) : u[i + 2] = v[i]
  BY <1>5, <1>6
<1>9. h < m
  OBVIOUS
<1> HIDE DEF u, v, p, f, m
<1>10. f + h >= s /\ m - h >= 1 /\ (f + h) + (m - h) = f + m
  BY <1>3, <1>9
<1>11. /\ u[1][1] = f /\ u[1][2] = h
       /\ u[2][1] = f + h /\ u[2][2] = m - h
  BY <1>7
<1>12. ASSUME NEW k \in 1..Len(u)
      PROVE  /\ u[k][1] >= s /\ u[k][2] >= 1 /\ u[k][1] + u[k][2] <= s + n
             /\ u[k][1] + u[k][2] = IF k = Len(u) THEN s + n ELSE u[k + 1][1]
  <2>1. CASE k = 1
    BY <1>3, <1>5, <1>6, <1>9, <1>11, <2>1
  <2>2. CASE k = 2 /\ v = <<>>
    <3>1. k = Len(u) /\ u[k][1] = f + h /\ u[k][2] = m - h
      BY <1>5, <1>6, <1>11, <2>2
    <3>2. QED BY <1>1, <1>3, <1>10, <2>2, <3>1
  <2>3. CASE k = 2 /\ v # <<>>
    <3>1. u[3] = v[1]
      BY <1>6, <1>8, <2>3
    <3>2. k # Len(u) /\ u[k][1] = f + h /\ u[k][2] = m - h
      BY <1>5, <1>6, <1>11, <2>3
    <3>3. u[k + 1][1] = f + m
      BY <1>1, <2>3, <3>1
    <3>4. QED BY <1>3, <1>10, <3>2, <3>3
  <2>4. CASE k > 2
    <3>1. /\ k - 2 \in 1..Len(v) /\ u[k] = v[k - 2]
          /\ k # Len(u) => k - 1 \in 1..Len(v) /\ u[k + 1] = v[(k - 2) + 1]
          /\ k = Len(u) <=> k - 2 = Len(v)
      BY <1>5, <1>6, <1>8, <2>4
    <3>2. QED BY <1>1, <3>1 DEF Tiles
  <2>5. QED BY <2>1, <2>2, <2>3, <2>4
<1>13. Tiles(u, s, n)
  BY <1>12 DEF Tiles
<1>14. u # <<>>
  BY <1>5, <1>6, EmptySeq
<1>15. u[1][1] = f
  BY <1>7
<1>16. QED BY <1>5, <1>13, <1>14, <1>15 DEF u, p, v, f, m

----------------------------------------------------------------------------
(* Files.                                                                  *)

LEMMA FileFields ==
  ASSUME NEW f \in File
  PROVE  /\ f.ext \in Headers /\ f.frags \in Seq(Ranges) /\ f.frags # <<>>
         /\ f.level \in 0..3 /\ f.conf \in 0..100 /\ f.starts \in SUBSET Nat
BY DEF File

\* The ends of the ranges of a file have a bound, because there are only
\* finitely many: the shortest prefix without one would have one.
LEMMA EndsBounded ==
  ASSUME NEW t \in Seq(Ranges)
  PROVE  \E b \in Nat : \A k \in 1..Len(t) : t[k][1] + t[k][2] <= b
<1> DEFINE Bound(n, b) == \A k \in 1..n : t[k][1] + t[k][2] <= b
           T == {n \in 0..Len(t) : ~\E b \in Nat : Bound(n, b)}
<1>1. Len(t) \in Nat
  BY LenProperties
<1>2. \A k \in 1..Len(t) : t[k][1] + t[k][2] \in Nat
  BY RangeType
<1>3. SUFFICES ASSUME T # {} PROVE FALSE
  <2>1. Len(t) \notin T
    BY <1>3
  <2>2. QED BY <1>1, <2>1
<1>4. PICK n \in T : \A m \in T : n <= m
  <2>1. T \in SUBSET Nat
    BY <1>1
  <2>2. QED BY <1>3, <2>1, LeastNat
<1>5. n # 0
  <2>1. Bound(0, 0)
    OBVIOUS
  <2>2. QED BY <1>4, <2>1
<1>6. n \in 1..Len(t) /\ n - 1 \in 0..Len(t)
  BY <1>1, <1>4, <1>5
<1>7. n - 1 \notin T
  <2>1. n \in Int /\ ~(n <= n - 1)
    BY <1>1, <1>6
  <2> HIDE DEF T
  <2>2. QED BY <1>4, <2>1
<1>8. PICK b \in Nat : Bound(n - 1, b)
  BY <1>6, <1>7
<1> DEFINE e == t[n][1] + t[n][2]
<1>9. e \in Nat
  BY <1>2, <1>6
<1>10. Bound(n, MaxOf(b, e))
  <2>1. TAKE k \in 1..n
  <2>2. CASE k = n
    BY <1>9, <2>2, MaxOfNat
  <2>3. CASE k # n
    <3>1. k \in 1..(n - 1) /\ k \in 1..Len(t)
      BY <1>1, <1>6, <2>3
    <3>2. t[k][1] + t[k][2] <= b /\ t[k][1] + t[k][2] \in Nat
      BY <1>2, <1>8, <3>1
    <3> HIDE DEF e
    <3>3. \A x \in Nat : x <= b => x <= MaxOf(b, e)
      BY <1>9, MaxOfNat
    <3>4. QED BY <3>2, <3>3
  <2>4. QED BY <2>2, <2>3
<1>11. MaxOf(b, e) \in Nat
  BY <1>9, MaxOfNat
<1>12. n \notin T
  <2> HIDE DEF Bound, e
  <2>1. QED BY <1>10, <1>11
<1>13. QED BY <1>4, <1>12

LEMMA LastSectorType ==
  ASSUME NEW f \in File
  PROVE  LastSector(f) \in Nat
<1> DEFINE t == f.frags
           E == {g[1] + g[2] : g \in {t[k] : k \in DOMAIN t}}
<1>1. t \in Seq(Ranges) /\ t # <<>>
  BY FileFields
<1>2. DOMAIN t = 1..Len(t) /\ Len(t) \in Nat \ {0}
  BY <1>1, LenProperties, EmptySeq
<1>3. PICK b \in Nat : \A k \in 1..Len(t) : t[k][1] + t[k][2] <= b
  BY <1>1, EndsBounded
<1>4. \A k \in 1..Len(t) : t[k][1] + t[k][2] \in 0..b
  BY <1>1, <1>3, RangeType
<1> HIDE DEF t
<1>5. E \in SUBSET (0..b)
  BY <1>2, <1>4
<1>6. t[1][1] + t[1][2] \in E
  BY <1>2
<1> HIDE DEF E
<1>7. Max(E) \in E
  BY <1>5, <1>6, MaxNat
<1>8. Max(E) \in Nat
  <2>1. Max(E) \in 0..b
    BY <1>5, <1>7
  <2>2. QED BY <1>3, <2>1
<1>9. QED BY <1>8 DEF LastSector, E, t

LEMMA SearchType ==
  ASSUME NEW c \in Headers
  PROVE  Estimate(c) \in Nat /\ SearchLen(c) \in Nat
<1>1. Heuristic[c] \in Nat
  BY DiskAssumption
<1>2. Estimate(c) \in Nat
  BY <1>1, Params DEF Estimate
<1>3. QED BY <1>2, Params DEF SearchLen, MinOf

LEMMA EndingType ==
  ASSUME NEW s \in Nat, NEW c \in Headers, NEW up
  PROVE  Ending(s, c, up) \in Nat
<1> DEFINE marks == {x \in Searched(s, c, up) : IF x = s THEN c \in Ended
                                               ELSE At(x) = Footer(c)}
<1>1. /\ marks \in SUBSET (s..(s + SearchLen(c))) /\ s + SearchLen(c) \in Nat
      /\ marks \in SUBSET (0..(s + SearchLen(c)))
  BY SearchType DEF Searched, Span
<1>2. \A x \in marks : x - s + 1 \in Nat
  <2> HIDE DEF marks
  <2>1. QED BY <1>1
<1> HIDE DEF marks
<1>3. marks # {} => Max(marks) \in marks /\ Min(marks) \in marks
  <2>1. marks \in SUBSET Nat
    BY <1>1
  <2>2. QED BY <1>1, <2>1, MaxNat, MinNat
<1>4. marks # {} => Max(marks) - s + 1 \in Nat /\ Min(marks) - s + 1 \in Nat
  BY <1>2, <1>3
<1>5. QED BY <1>4 DEF Ending, marks

LEMMA BarriersType ==
  ASSUME NEW s \in Nat, NEW up
  PROVE  /\ Barriers(s, up) \in SUBSET Nat
         /\ \A x \in Barriers(s, up) : s <= x
<1>1. \A p \in Probes(s) : p \in Nat /\ s <= p
  BY Params DEF Probes
<1>2. \A p \in Probes(s) : \A x \in Span(p, Probe) : x \in Nat /\ s <= x
  BY <1>1, Params DEF Span
<1>3. \A x \in Barriers(s, up) : x \in Nat /\ s <= x
  BY <1>1, <1>2 DEF Barriers
<1>4. QED BY <1>3

LEMMA LevelType ==
  \A ok, ended \in BOOLEAN, conf \in 0..100 : Level(ok, ended, conf) \in 0..3
BY DEF Level

LEMMA FileAtType ==
  ASSUME NEW s \in Nat, NEW c \in Headers, NEW up
  PROVE  /\ FileAt(s, c, up) \in File /\ FileAt(s, c, up).starts = {s}
         /\ LastSector(FileAt(s, c, up)) \in Nat
<1>1. ImageLen(s, c, up) \in Nat
  BY EndingType, SearchType, Params DEF ImageLen, MinOf
<1>2. VideoLen(s, c, up) \in Nat
  <2>1. CASE Barriers(s, up) # {}
    <3>1. Min(Barriers(s, up)) \in Barriers(s, up)
      BY <2>1, BarriersType, MinNat
    <3>2. Min(Barriers(s, up)) \in Nat /\ s <= Min(Barriers(s, up))
      BY <3>1, BarriersType
    <3>3. QED BY <2>1, <3>2 DEF VideoLen
  <2>2. CASE Barriers(s, up) = {}
    BY <2>2, DiskAssumption, Params DEF VideoLen
  <2>3. QED BY <2>1, <2>2
<1> DEFINE n == IF c \in Images THEN ImageLen(s, c, up) ELSE VideoLen(s, c, up)
           ended == HasFooter(s, c, up)
           l == Level(HeaderOk(s, up), ended, Confidence[c])
<1>3. <<<<s, n>>>> \in Seq(Ranges) \ {<<>>}
  <2>1. <<s, n>> \in Ranges
    BY <1>1, <1>2 DEF Ranges
  <2> HIDE DEF n
  <2>2. QED BY <2>1
<1>4. Confidence[c] \in 0..100
  BY DiskAssumption
<1>5. l \in 0..3
  <2>1. HeaderOk(s, up) \in BOOLEAN
    BY DEF HeaderOk, CheckedOk
  <2>2. ended \in BOOLEAN
    BY DEF HasFooter
  <2> HIDE DEF ended
  <2>3. QED BY <1>4, <2>1, <2>2, LevelType
<1>6. FileAt(s, c, up) = [ext |-> c, frags |-> <<<<s, n>>>>, level |-> l,
                          conf |-> Confidence[c], starts |-> {s}]
  BY DEF FileAt
<1> HIDE DEF n, l, ended
<1>7. FileAt(s, c, up) \in File /\ FileAt(s, c, up).starts = {s}
  BY <1>3, <1>4, <1>5, <1>6 DEF File
<1>8. QED BY <1>7, LastSectorType

LEMMA NotedType ==
  ASSUME NEW s \in Nat, NEW c \in Headers, NEW up
  PROVE  Noted(s, c, up) \subseteq Nat
<1>1. Span(s, HeaderLen) \subseteq Nat
  BY Params, SpanNat
<1>2. \A p \in FailedChunks(s, c, up) : Span(p, ChunkAt(s, c, p)) \subseteq Nat
  <2>1. \A p \in FailedChunks(s, c, up) : p \in Nat
    BY Params, SearchType DEF FailedChunks, ChunkStarts
  <2>2. QED BY <2>1 DEF Span
<1>3. Span(Min(Barriers(s, up) \cup {s}), Probe) \subseteq Nat
  <2>1. Barriers(s, up) \cup {s} \in SUBSET Nat
    BY BarriersType
  <2>2. Min(Barriers(s, up) \cup {s}) \in Nat
    BY <2>1, MinNat
  <2>3. QED BY <2>2, Params, SpanNat
<1>4. QED BY <1>1, <1>2, <1>3 DEF Noted

LEMMA JoinedType ==
  ASSUME NEW f \in File, NEW g \in File
  PROVE  /\ Joined(f, g) \in File
         /\ Joined(f, g).starts = f.starts \cup g.starts
<1>1. /\ f.frags \in Seq(Ranges) /\ f.frags # <<>>
      /\ g.frags \in Seq(Ranges) /\ g.frags # <<>>
  BY FileFields
<1>2. Between(f, g) \in Nat
  <2>1. g.frags[1][1] \in Nat
    <3>1. 1 \in 1..Len(g.frags)
      BY <1>1, EmptySeq
    <3>2. QED BY <1>1, <3>1, RangeType
  <2>2. QED BY <2>1, LastSectorType DEF Between, MaxOf
<1> DEFINE h == IF Between(f, g) > 0
                THEN Append(f.frags, <<LastSector(f), Between(f, g)>>)
                ELSE f.frags
           seam == IF f.conf >= 50 /\ g.conf >= 50
                        /\ Between(f, g) <= Gap \div 4 THEN 1
                   ELSE IF Between(f, g) <= Gap \div 2 THEN 2 ELSE 3
           l == MaxOf(f.level, seam)
<1>3. h \in Seq(Ranges)
  <2>1. <<LastSector(f), Between(f, g)>> \in Ranges
    BY <1>2, LastSectorType DEF Ranges
  <2>2. QED BY <1>1, <2>1, AppendProperties
<1>4. h \o g.frags \in Seq(Ranges) \ {<<>>}
  <2> HIDE DEF h
  <2>1. h \o g.frags \in Seq(Ranges)
    BY <1>1, <1>3, ConcatProperties, Zenon
  <2>2. h \o g.frags # <<>>
    <3>1. Len(h \o g.frags) = Len(h) + Len(g.frags)
      BY <1>1, <1>3, ConcatProperties, Zenon
    <3>2. Len(h) \in Nat /\ Len(g.frags) \in Nat \ {0}
      BY <1>1, <1>3, LenProperties, EmptySeq
    <3>3. Len(h \o g.frags) # 0
      BY <3>1, <3>2
    <3>4. QED BY <3>3, EmptySeq
  <2>3. QED BY <2>1, <2>2
<1>5. l \in 0..3
  <2>1. seam \in 0..3
    OBVIOUS
  <2> HIDE DEF seam
  <2>2. QED BY <2>1, FileFields DEF MaxOf
<1>6. (f.conf + g.conf) \div 2 \in 0..100
  <2>1. f.conf \in 0..100 /\ g.conf \in 0..100
    BY FileFields
  <2>2. QED BY <2>1
<1>7. Joined(f, g) = [ext |-> f.ext, frags |-> h \o g.frags, level |-> l,
                      conf |-> (f.conf + g.conf) \div 2,
                      starts |-> f.starts \cup g.starts]
  BY DEF Joined
<1> HIDE DEF h, l
<1>8. QED BY <1>4, <1>5, <1>6, <1>7, FileFields DEF File

----------------------------------------------------------------------------
(* The invariant.                                                          *)

\* A position of the batch that has been filled since the last stop, if any,
\* holds what the disk has there, or nothing.
Settled ==
  \A j \in 0..(count - 1) :
    (todo = <<>> \/ sector + j < todo[1][1])
      => buf[j] \in {"blank", At(sector + j)}

BatchOK ==
  /\ pc \in {"read", "match", "skip"} => sector < end
  /\ pc # "read" => todo = <<>>
  /\ Tiles(todo, sector, count)
  /\ bads <= IF todo = <<>> THEN count ELSE todo[1][1] - sector
  /\ pc \in {"read", "match"} /\ ~stop => Settled

\* Files that begin where the disk has a header.
Real == {f \in File : \A x \in f.starts : At(x) \in Headers}

RealOK ==
  /\ taken \in Seq(Real)
  /\ ~stop => videos \in Seq(Real) /\ merged \in Seq(Real)

CallOK == end \in Nat /\ resume \in Nat

IInv == TypeOK /\ CallOK /\ BatchOK /\ RealOK

USE DEF callVars, readVars, progVars, fileVars, readFrame

LEMMA InitInv == Init => IInv
<1>1. SUFFICES ASSUME Init PROVE IInv
  OBVIOUS
<1>2. end \in Nat /\ resume \in Nat /\ ScanStart \in Nat
  BY <1>1, DiskAssumption, Params DEF Init, ScanStart
<1>3. buf \in [0..(Batch - 1) -> Tokens]
  BY <1>1 DEF Init, Tokens
<1>4. block \in [from : Nat, valid : BOOLEAN, good : Nat]
  BY <1>1 DEF Init
<1>5. TypeOK
  BY <1>1, <1>2, <1>3, <1>4, Params, EmptySeq DEF Init, TypeOK, Steps
<1>6. BatchOK
  BY <1>1, EmptySeq DEF Init, BatchOK, Tiles
<1>7. RealOK
  BY <1>1, EmptySeq DEF Init, RealOK
<1>8. QED BY <1>2, <1>5, <1>6, <1>7 DEF IInv, CallOK

LEMMA StopInv == IInv /\ RequestStop => IInv'
<1>1. SUFFICES ASSUME IInv, RequestStop PROVE IInv'
  OBVIOUS
<1>2. /\ stop' = TRUE
      /\ UNCHANGED <<callVars, pc, sector, count, readVars, next, claimed,
                     badRun, progVars, fileVars>>
  BY <1>1 DEF RequestStop
<1>3. TypeOK' /\ CallOK'
  BY <1>1, <1>2 DEF IInv, TypeOK, CallOK
<1>4. BatchOK'
  BY <1>1, <1>2 DEF IInv, BatchOK, Tiles
<1>5. RealOK'
  BY <1>1, <1>2 DEF IInv, RealOK
<1>6. QED BY <1>3, <1>4, <1>5 DEF IInv

LEMMA StutterInv == IInv /\ UNCHANGED vars => IInv'
<1>1. SUFFICES ASSUME IInv, UNCHANGED vars PROVE IInv'
  OBVIOUS
<1>2. TypeOK' /\ CallOK'
  BY <1>1 DEF vars, IInv, TypeOK, CallOK
<1>3. BatchOK'
  BY <1>1 DEF vars, IInv, BatchOK, Tiles, Settled, At
<1>4. RealOK'
  BY <1>1 DEF vars, IInv, RealOK, Real, At
<1>5. QED BY <1>2, <1>3, <1>4 DEF IInv

----------------------------------------------------------------------------
(* Reading a batch.                                                        *)

LEMMA NextBatchInv == IInv /\ NextBatch => IInv'
<1>1. SUFFICES ASSUME IInv, NextBatch PROVE IInv'
  OBVIOUS
<1> DEFINE n == BatchCount
<1>2. /\ pc = "loop" /\ sector < end /\ ~stop /\ count' = n /\ bads' = 0
      /\ next' = 0 /\ pc' = "read"
      /\ UNCHANGED <<callVars, stop, sector, known, block, claimed, badRun,
                     progVars, fileVars>>
  BY <1>1 DEF NextBatch
<1>3. /\ sector \in Nat /\ end \in Nat /\ Batch \in Nat
      /\ buf \in [0..(Batch - 1) -> Tokens]
  BY <1>1, Params DEF IInv, TypeOK, CallOK
<1>4. n \in 0..Batch
  BY <1>2, <1>3, BatchCountType
<1>5. RealOK' /\ CallOK'
  BY <1>1, <1>2 DEF IInv, RealOK, CallOK, Real, At
<1>6. ASSUME todo' \in Seq(Ranges), buf' \in [0..(Batch - 1) -> Tokens]
      PROVE  TypeOK'
  BY <1>1, <1>2, <1>4, <1>6, Params DEF IInv, TypeOK, Steps
<1>7. CASE /\ Cached(n) /\ todo' = <<>>
           /\ buf' = [j \in DOMAIN buf |->
                        IF j < n THEN InBlock(sector + j) ELSE buf[j]]
  <2>1. \A x : InBlock(x) \in {"blank", At(x)} /\ InBlock(x) \in Tokens
    BY AtToken DEF InBlock, Tokens
  <2>2. buf' \in [0..(Batch - 1) -> Tokens]
    BY <1>3, <1>7, <2>1
  <2>3. \A j \in 0..(n - 1) : buf'[j] \in {"blank", At(sector + j)}
    <3>1. TAKE j \in 0..(n - 1)
    <3>2. j \in DOMAIN buf /\ j < n
      BY <1>3, <1>4
    <3>3. QED BY <1>7, <2>1, <3>2
  <2>4. BatchOK'
    <3>1. Settled'
      BY <1>2, <2>3 DEF Settled, At
    <3>2. Tiles(<<>>, sector, n)
      BY EmptySeq DEF Tiles
    <3> HIDE DEF n
    <3>3. QED BY <1>2, <1>4, <1>7, <3>1, <3>2 DEF BatchOK
  <2>5. TypeOK'
    BY <1>6, <1>7, <2>2, EmptySeq
  <2>6. QED BY <1>5, <2>4, <2>5 DEF IInv
<1>8. CASE ~Cached(n) /\ n = 0 /\ todo' = <<>> /\ UNCHANGED buf
  <2>1. TypeOK'
    BY <1>3, <1>6, <1>8, EmptySeq
  <2>2. BatchOK'
    <3>1. Tiles(<<>>, sector, n)
      BY EmptySeq DEF Tiles
    <3> HIDE DEF n
    <3>2. QED BY <1>2, <1>8, <3>1 DEF BatchOK, Settled
  <2>3. QED BY <1>5, <2>1, <2>2 DEF IInv
<1>9. CASE ~Cached(n) /\ n # 0 /\ todo' = <<<<sector, n>>>> /\ UNCHANGED buf
  <2> HIDE DEF n
  <2>1. <<sector, n>> \in Ranges
    BY <1>3, <1>4 DEF Ranges
  <2>2. /\ todo' \in Seq(Ranges) /\ Len(todo') = 1 /\ todo' # <<>>
        /\ todo'[1][1] = sector /\ todo'[1][2] = n
    BY <1>9, <2>1
  <2>3. TypeOK'
    BY <1>3, <1>6, <1>9, <2>2
  <2>4. Tiles(todo', sector, n)
    BY <1>3, <1>4, <1>9, <2>2 DEF Tiles
  <2>5. Settled'
    BY <1>2, <1>3, <2>2 DEF Settled
  <2>6. BatchOK'
    BY <1>2, <1>3, <2>2, <2>4, <2>5 DEF BatchOK
  <2>7. QED BY <1>5, <2>3, <2>6 DEF IInv
<1>10. QED BY <1>1, <1>7, <1>8, <1>9 DEF NextBatch

\* What every step of the splitting leaves alone.
LEMMA ReadFrame ==
  ASSUME IInv, Reading, UNCHANGED readFrame,
         todo' \in Seq(Ranges), bads' \in 0..Batch, known' \subseteq Nat,
         buf' \in [0..(Batch - 1) -> Tokens]
  PROVE  TypeOK' /\ CallOK' /\ RealOK'
<1>1. TypeOK'
  BY DEF IInv, TypeOK
<1>2. QED BY <1>1 DEF IInv, CallOK, RealOK, Real, At

\* A range is dealt with: it leaves the list, and its part of the buffer is
\* copied, zeroed or, after a stop, left as it was.
LEMMA TakeRange ==
  ASSUME IInv, Reading, UNCHANGED readFrame,
         todo' = Tail(todo), bads' = bads \/ bads' = bads + Size,
         known' \subseteq Nat,
         buf' = Copied \/ buf' = Zeroed \/ (stop /\ buf' = buf)
  PROVE  IInv'
<1>1. /\ todo \in Seq(Ranges) /\ todo # <<>> /\ pc = "read"
      /\ sector \in Nat /\ count \in 0..Batch /\ Batch \in Nat
      /\ bads \in 0..Batch /\ buf \in [0..(Batch - 1) -> Tokens]
      /\ Tiles(todo, sector, count) /\ bads <= First - sector
  BY Params DEF IInv, TypeOK, BatchOK, Reading, First
<1>2. 1 \in 1..Len(todo) /\ First \in Nat /\ Size \in Nat
  BY <1>1, EmptySeq, RangeType DEF First, Size
<1>3. First >= sector /\ Size >= 1 /\ First + Size <= sector + count
  BY <1>1, <1>2 DEF Tiles, First, Size
<1>4. /\ todo' \in Seq(Ranges) /\ Tiles(todo', sector, count)
      /\ todo' = <<>> => First + Size = sector + count
      /\ todo' # <<>> => todo'[1][1] = First + Size
  <2>1. count \in Nat
    BY <1>1
  <2>2. QED BY <1>1, <2>1, TailTiles DEF First, Size
<1>5. /\ bads' \in 0..Batch
      /\ bads' <= IF todo' = <<>> THEN count ELSE todo'[1][1] - sector
  BY <1>1, <1>2, <1>3, <1>4
<1>6. buf' \in [0..(Batch - 1) -> Tokens]
  BY <1>1, AtToken DEF Copied, Zeroed, Tokens
<1>7. TypeOK' /\ CallOK' /\ RealOK'
  BY <1>4, <1>5, <1>6, ReadFrame
<1>8. ASSUME ~stop PROVE Settled'
  <2>1. Settled
    BY <1>1, <1>8 DEF IInv, BatchOK
  <2>2. SUFFICES ASSUME NEW j \in 0..(count - 1),
                        todo' = <<>> \/ sector + j < todo'[1][1]
                 PROVE  buf'[j] \in {"blank", At(sector + j)}
    BY DEF Settled, At
  <2>3. j \in DOMAIN buf /\ j \in Nat
    BY <1>1
  <2>4. CASE sector + j \in Span(First, Size)
    BY <1>8, <2>3, <2>4 DEF Copied, Zeroed
  <2>5. CASE sector + j \notin Span(First, Size)
    <3>1. buf'[j] = buf[j]
      BY <2>3, <2>5 DEF Copied, Zeroed
    <3>2. sector + j < First + Size
      BY <1>1, <1>2, <1>4, <2>2, <2>3
    <3>3. sector + j < First
      BY <1>1, <1>2, <2>3, <2>5, <3>2 DEF Span
    <3>4. QED BY <2>1, <3>1, <3>3 DEF Settled, First
  <2>6. QED BY <2>4, <2>5
<1>9. BatchOK'
  <2>1. sector < end
    BY <1>1 DEF IInv, BatchOK
  <2>2. QED BY <1>1, <1>4, <1>5, <1>8, <2>1 DEF BatchOK
<1>10. QED BY <1>7, <1>9 DEF IInv

LEMMA StopSplitInv == IInv /\ StopSplit => IInv'
<1>1. SUFFICES ASSUME IInv, StopSplit PROVE IInv'
  OBVIOUS
<1>2. known \subseteq Nat
  BY <1>1 DEF IInv, TypeOK
<1>3. QED BY <1>1, <1>2, TakeRange DEF StopSplit

LEMMA SkipKnownInv == IInv /\ SkipKnown => IInv'
<1>1. SUFFICES ASSUME IInv, SkipKnown PROVE IInv'
  OBVIOUS
<1>2. known \subseteq Nat
  BY <1>1 DEF IInv, TypeOK
<1>3. QED BY <1>1, <1>2, TakeRange DEF SkipKnown

LEMMA FirstType ==
  ASSUME IInv, Reading
  PROVE  First \in Nat /\ Size \in Nat /\ known \subseteq Nat
<1>1. todo \in Seq(Ranges) /\ todo # <<>> /\ known \subseteq Nat
  BY DEF IInv, TypeOK, Reading
<1>2. 1 \in 1..Len(todo)
  BY <1>1, EmptySeq
<1>3. QED BY <1>1, <1>2, RangeType DEF First, Size

LEMMA ReadRangeInv == \A up : IInv /\ ReadRange(up) => IInv'
<1>1. SUFFICES ASSUME NEW up, IInv, ReadRange(up) PROVE IInv'
  OBVIOUS
<1>2. /\ Reading /\ buf' = Copied /\ todo' = Tail(todo) /\ bads' = bads
      /\ UNCHANGED readFrame
      /\ known' \in {known, Record(Span(First, Size))}
  BY <1>1 DEF ReadRange
<1>3. known' \subseteq Nat
  BY <1>1, <1>2, FirstType, SpanNat DEF Record
<1>4. QED BY <1>1, <1>2, <1>3, TakeRange

LEMMA FailSectorInv == \A up : IInv /\ FailSector(up) => IInv'
<1>1. SUFFICES ASSUME NEW up, IInv, FailSector(up) PROVE IInv'
  OBVIOUS
<1>2. /\ Reading /\ buf' = Zeroed /\ todo' = Tail(todo) /\ Size = 1
      /\ bads' = bads + 1 /\ UNCHANGED readFrame
      /\ known' = Record({First})
  BY <1>1 DEF FailSector
<1>3. known' \subseteq Nat
  BY <1>1, <1>2, FirstType DEF Record
<1>4. QED BY <1>1, <1>2, <1>3, TakeRange

LEMMA SplitRangeInv == \A up : IInv /\ SplitRange(up) => IInv'
<1>1. SUFFICES ASSUME NEW up, IInv, SplitRange(up) PROVE IInv'
  OBVIOUS
<1> DEFINE h == Size \div 2
<1>2. /\ Reading /\ Size > 1 /\ UNCHANGED <<bads, buf, readFrame>>
      /\ known' = Record(Span(First, Size))
      /\ todo' = <<<<First, h>>, <<First + h, Size - h>>>> \o Tail(todo)
  BY <1>1 DEF SplitRange
<1>3. First \in Nat /\ Size \in Nat /\ known' \subseteq Nat
  BY <1>1, <1>2, FirstType, SpanNat DEF Record
<1>4. h \in Nat /\ h >= 1 /\ h < Size
  BY <1>2, <1>3
<1>5. /\ todo \in Seq(Ranges) /\ todo # <<>> /\ sector \in Nat
      /\ count \in Nat /\ Tiles(todo, sector, count)
      /\ bads \in 0..Batch /\ buf \in [0..(Batch - 1) -> Tokens]
      /\ pc = "read" /\ sector < end
  BY <1>1, <1>2, Params DEF IInv, TypeOK, BatchOK, Reading
<1> HIDE DEF h
<1>6. /\ todo' \in Seq(Ranges) /\ todo' # <<>>
      /\ Tiles(todo', sector, count) /\ todo'[1][1] = First
  BY <1>2, <1>4, <1>5, SplitTiles DEF First, Size
<1>7. TypeOK' /\ CallOK' /\ RealOK'
  BY <1>1, <1>2, <1>3, <1>5, <1>6, ReadFrame
<1>8. ASSUME ~stop PROVE Settled'
  BY <1>1, <1>2, <1>5, <1>6, <1>8 DEF IInv, BatchOK, Settled, First, At
<1>9. BatchOK'
  BY <1>1, <1>2, <1>5, <1>6, <1>8 DEF IInv, BatchOK, First
<1>10. QED BY <1>7, <1>9 DEF IInv

LEMMA PrefetchType ==
  ASSUME NEW up, sector \in Nat
  PROVE  Prefetch(up) \in [from : Nat, valid : BOOLEAN, good : Nat]
<1> DEFINE failed == {k \in 0..(BlockChunks - 1) :
                        ~Readable(sector + k * Batch, Batch, up)}
           chunks == IF failed = {} THEN BlockChunks ELSE Min(failed)
<1>1. chunks \in Nat
  <2>1. failed \in SUBSET Nat
    BY Params
  <2> HIDE DEF failed
  <2>2. failed # {} => Min(failed) \in Nat
    BY <2>1, MinNat
  <2>3. QED BY <2>2, Params
<1>2. Prefetch(up) = [from |-> sector, valid |-> chunks > 0,
                      good |-> chunks * Batch]
  BY DEF Prefetch
<1> HIDE DEF chunks
<1>3. chunks * Batch \in Nat
  BY <1>1, Params
<1>4. (chunks > 0) \in BOOLEAN
  OBVIOUS
<1>5. QED BY <1>2, <1>3, <1>4

LEMMA BatchReadInv == \A up : IInv /\ BatchRead(up) => IInv'
<1>1. SUFFICES ASSUME NEW up, IInv, BatchRead(up) PROVE IInv'
  OBVIOUS
<1>2. /\ pc = "read" /\ todo = <<>>
      /\ UNCHANGED <<callVars, stop, sector, count, todo, bads, buf, known,
                     next, claimed, progVars, fileVars>>
  BY <1>1 DEF BatchRead
<1>3. block' \in [from : Nat, valid : BOOLEAN, good : Nat]
  BY <1>1, PrefetchType DEF BatchRead, IInv, TypeOK
<1>4. pc' \in {"skip", "match"} /\ badRun' \in 0..(BadLimit - 1)
  <2>1. badRun \in 0..(BadLimit - 1) /\ BadLimit \in Nat \ {0}
    BY <1>1, Params DEF IInv, TypeOK
  <2>2. CASE bads = count /\ TooManyBad
    BY <1>1, <2>1, <2>2 DEF BatchRead
  <2>3. CASE ~(bads = count /\ TooManyBad)
    <3>1. /\ badRun' = IF bads = count THEN badRun + 1 ELSE 0
          /\ pc' = "match"
      BY <1>1, <2>3 DEF BatchRead
    <3>2. bads = count => ~(badRun + 1 >= BadLimit)
      BY <2>3 DEF TooManyBad
    <3>3. QED BY <2>1, <3>1, <3>2
  <2>4. QED BY <2>2, <2>3
<1>5. TypeOK' /\ CallOK'
  BY <1>1, <1>2, <1>3, <1>4 DEF IInv, TypeOK, CallOK, Steps
<1>6. BatchOK'
  BY <1>1, <1>2, <1>4 DEF IInv, BatchOK, Settled, Tiles, At
<1>7. RealOK'
  BY <1>1, <1>2 DEF IInv, RealOK, Real, At
<1>8. QED BY <1>5, <1>6, <1>7 DEF IInv

\* Between two batches nothing is claimed of the buffer.
LEMMA LeaveBatch ==
  ASSUME IInv, todo = <<>>, pc' \in Steps \ {"read", "match", "skip"},
         UNCHANGED <<callVars, stop, count, readVars, next, claimed, fileVars>>,
         sector' \in Nat, badRun' \in 0..(BadLimit - 1),
         scanned' \in Nat, badHit' \in Nat
  PROVE  IInv'
<1>1. TypeOK' /\ CallOK'
  BY DEF IInv, TypeOK, CallOK
<1>2. Tiles(todo', sector', count')
  BY EmptySeq DEF Tiles
<1>3. BatchOK'
  BY <1>2 DEF IInv, BatchOK
<1>4. RealOK'
  BY DEF IInv, RealOK, Real, At
<1>5. QED BY <1>1, <1>3, <1>4 DEF IInv

LEMMA AdaptiveSkipInv == IInv /\ AdaptiveSkip => IInv'
<1>1. SUFFICES ASSUME IInv, AdaptiveSkip PROVE IInv'
  OBVIOUS
<1>2. /\ pc = "skip" /\ todo = <<>> /\ sector < end
      /\ sector \in Nat /\ end \in Nat /\ scanned \in Nat /\ badHit \in Nat
  BY <1>1 DEF AdaptiveSkip, IInv, TypeOK, CallOK, BatchOK
<1>3. Skipped \in Nat
  BY <1>2, Params DEF Skipped, MinOf
<1>4. /\ sector' \in Nat /\ scanned' \in Nat /\ badHit' \in Nat
      /\ badRun' \in 0..(BadLimit - 1) /\ pc' = "loop"
  BY <1>1, <1>2, <1>3, Params DEF AdaptiveSkip, SkipTarget
<1>5. UNCHANGED <<callVars, stop, count, readVars, next, claimed, fileVars>>
  BY <1>1 DEF AdaptiveSkip
<1>6. QED BY <1>1, <1>2, <1>4, <1>5, LeaveBatch DEF Steps

LEMMA BatchEndsInv == IInv /\ BatchEnds => IInv'
<1>1. SUFFICES ASSUME IInv, BatchEnds PROVE IInv'
  OBVIOUS
<1>2. /\ todo = <<>> /\ sector \in Nat /\ scanned \in Nat /\ badHit \in Nat
      /\ count \in 0..Batch /\ bads \in 0..Batch
      /\ badRun \in 0..(BadLimit - 1)
  BY <1>1 DEF BatchEnds, IInv, TypeOK, BatchOK
<1>3. /\ sector' \in Nat /\ scanned' \in Nat /\ badHit' \in Nat
      /\ badRun' \in 0..(BadLimit - 1) /\ pc' = "loop"
  BY <1>1, <1>2, Params DEF BatchEnds
<1>4. UNCHANGED <<callVars, stop, count, readVars, next, claimed, fileVars>>
  BY <1>1 DEF BatchEnds
<1>5. QED BY <1>1, <1>2, <1>3, <1>4, LeaveBatch DEF Steps

LEMMA PhaseEndsInv == IInv /\ (LoopEnds \/ MergeEnds \/ ScanEnds) => IInv'
<1>1. SUFFICES ASSUME IInv, LoopEnds \/ MergeEnds \/ ScanEnds PROVE IInv'
  OBVIOUS
<1>2. /\ pc \in {"loop", "merge", "report"}
      /\ pc' \in {"merge", "report", "done"}
      /\ UNCHANGED <<callVars, stop, sector, count, readVars, next, claimed,
                     badRun, progVars, fileVars>>
  BY <1>1 DEF LoopEnds, MergeEnds, ScanEnds
<1>3. /\ todo = <<>> /\ sector' \in Nat /\ badRun' \in 0..(BadLimit - 1)
      /\ scanned' \in Nat /\ badHit' \in Nat
  BY <1>1, <1>2 DEF IInv, TypeOK, BatchOK
<1>4. QED BY <1>1, <1>2, <1>3, LeaveBatch DEF Steps

----------------------------------------------------------------------------
(* Matching, merging and reporting.                                        *)

\* A match after a complete read is a header of the disk; one over the
\* remains of a batch that a stop cut short is only some header.
LEMMA MatchType ==
  ASSUME IInv, pc = "match", NEW j \in Matches
  PROVE  /\ j \in 0..(count - 1) /\ buf[j] \in Headers
         /\ ~stop => At(sector + j) \in Headers
<1>1. /\ next \in Nat /\ count \in 0..Batch /\ Batch \in Nat
      /\ j \in next..(count - 1) /\ buf[j] \in Wanted /\ todo = <<>>
  BY Params DEF Matches, IInv, TypeOK, BatchOK
<1>2. j \in 0..(count - 1) /\ buf[j] \in Headers
  BY <1>1, DiskAssumption
<1>3. ~stop => buf[j] \in {"blank", At(sector + j)}
  BY <1>1, <1>2 DEF IInv, BatchOK, Settled
<1>4. "blank" \notin Headers
  BY DEF Headers, Images, Videos
<1>5. QED BY <1>2, <1>3, <1>4

LEMMA OnFileType ==
  ASSUME NEW f \in File, ~stop => f \in Real, OnFile(f), taken \in Seq(File),
         taken \in Seq(Real)
  PROVE  taken' \in Seq(File) /\ taken' \in Seq(Real)
<1>1. CASE Accepts(f)
  <2>1. f \in Real
    BY <1>1 DEF Accepts
  <2>2. taken' = Append(taken, f)
    BY <1>1 DEF OnFile
  <2>3. QED BY <2>1, <2>2, AppendProperties
<1>2. CASE ~Accepts(f)
  BY <1>2 DEF OnFile
<1>3. QED BY <1>1, <1>2

LEMMA TakeFileInv == \A up : IInv /\ TakeFile(up) => IInv'
<1>1. SUFFICES ASSUME NEW up, IInv, TakeFile(up) PROVE IInv'
  OBVIOUS
<1> DEFINE j == Min(Matches)
           c == buf[j]
           f == FileAt(sector + j, c, up)
<1>2. /\ pc = "match" /\ Matches # {} /\ next' = j + 1
      /\ claimed' = LastSector(f)
      /\ known' = Record(known \cup Noted(sector + j, c, up))
      /\ \/ videos' = Append(videos, f) /\ UNCHANGED taken
         \/ OnFile(f) /\ UNCHANGED videos
      /\ UNCHANGED <<callVars, stop, pc, sector, count, todo, bads, buf, block,
                     badRun, progVars, merged>>
  BY <1>1 DEF TakeFile
<1>3. /\ sector \in Nat /\ count \in 0..Batch /\ Batch \in Nat
      /\ known \subseteq Nat /\ next \in Nat
      /\ videos \in Seq(File) /\ taken \in Seq(File) /\ taken \in Seq(Real)
      /\ ~stop => videos \in Seq(Real)
  BY <1>1, Params DEF IInv, TypeOK, RealOK
<1>4. j \in Matches
  <2>1. Matches \in SUBSET Nat
    BY <1>3 DEF Matches
  <2>2. QED BY <1>2, <2>1, MinNat
<1> HIDE DEF j
<1>5. /\ j \in 0..(count - 1) /\ c \in Headers
      /\ ~stop => At(sector + j) \in Headers
  BY <1>1, <1>2, <1>4, MatchType
<1>6. sector + j \in Nat /\ next' \in 0..Batch
  BY <1>2, <1>3, <1>5
<1> HIDE DEF c
<1>7. /\ f \in File /\ f.starts = {sector + j} /\ LastSector(f) \in Nat
      /\ Noted(sector + j, c, up) \subseteq Nat
  BY <1>5, <1>6, FileAtType, NotedType
<1>8. ~stop => f \in Real
  BY <1>5, <1>7 DEF Real
<1> HIDE DEF f
<1>9. known' \subseteq Nat /\ claimed' \in Nat
  BY <1>2, <1>3, <1>7 DEF Record
<1>10. /\ videos' \in Seq(File) /\ taken' \in Seq(File) /\ taken' \in Seq(Real)
       /\ ~stop => videos' \in Seq(Real)
  <2>1. CASE videos' = Append(videos, f) /\ UNCHANGED taken
    BY <1>3, <1>7, <1>8, <2>1, AppendProperties
  <2>2. CASE OnFile(f) /\ UNCHANGED videos
    BY <1>3, <1>7, <1>8, <2>2, OnFileType
  <2>3. QED BY <1>2, <2>1, <2>2
<1>11. TypeOK' /\ CallOK'
  BY <1>1, <1>2, <1>6, <1>9, <1>10 DEF IInv, TypeOK, CallOK
<1>12. BatchOK'
  BY <1>1, <1>2 DEF IInv, BatchOK, Settled, Tiles, At
<1>13. RealOK'
  BY <1>1, <1>2, <1>10 DEF IInv, RealOK, Real, At
<1>14. QED BY <1>11, <1>12, <1>13 DEF IInv

\* What merging and reporting leave alone.
LEMMA MergeFrame ==
  ASSUME IInv, pc \in {"merge", "report"},
         UNCHANGED <<callVars, stop, pc, sector, count, readVars, next,
                     claimed, badRun, progVars>>,
         videos' \in Seq(File), merged' \in Seq(File), taken' \in Seq(File),
         taken' \in Seq(Real),
         ~stop => videos' \in Seq(Real) /\ merged' \in Seq(Real)
  PROVE  IInv'
<1>1. TypeOK' /\ CallOK'
  BY DEF IInv, TypeOK, CallOK
<1>2. BatchOK'
  BY DEF IInv, BatchOK, Tiles
<1>3. RealOK'
  BY DEF IInv, RealOK, Real, At
<1>4. QED BY <1>1, <1>2, <1>3 DEF IInv

\* Merging keeps any set of files that joining keeps.
LEMMA MergedStays ==
  ASSUME NEW S, S \subseteq File, videos \in Seq(S), merged \in Seq(S),
         \A f, g \in S : Joined(f, g) \in S, MergeNext
  PROVE  videos' \in Seq(S) /\ merged' \in Seq(S)
<1> DEFINE g == Head(videos)
<1>1. /\ videos # <<>> /\ videos' = Tail(videos)
      /\ merged' = IF merged # <<>> /\ Joins(Last, g)
                   THEN [merged EXCEPT ![Len(merged)] = Joined(Last, g)]
                   ELSE Append(merged, g)
  BY DEF MergeNext
<1>2. g \in S /\ videos' \in Seq(S)
  BY <1>1, HeadTailProperties
<1> HIDE DEF g
<1>3. CASE merged # <<>> /\ Joins(Last, g)
  <2>1. Len(merged) \in 1..Len(merged)
    BY <1>3, EmptySeq
  <2>2. Last \in S
    BY <2>1, ElementOfSeq DEF Last
  <2>3. Joined(Last, g) \in S
    BY <1>2, <2>2
  <2>4. merged' = [merged EXCEPT ![Len(merged)] = Joined(Last, g)]
    BY <1>1, <1>3
  <2>5. QED BY <1>2, <2>1, <2>3, <2>4, ExceptSeq
<1>4. CASE ~(merged # <<>> /\ Joins(Last, g))
  BY <1>1, <1>2, <1>4, AppendProperties
<1>5. QED BY <1>3, <1>4

LEMMA MergeNextInv == IInv /\ MergeNext => IInv'
<1>1. SUFFICES ASSUME IInv, MergeNext PROVE IInv'
  OBVIOUS
<1>2. /\ pc = "merge"
      /\ UNCHANGED <<callVars, stop, pc, sector, count, readVars, next,
                     claimed, badRun, progVars, taken>>
  BY <1>1 DEF MergeNext
<1>3. videos' \in Seq(File) /\ merged' \in Seq(File)
  <2>1. videos \in Seq(File) /\ merged \in Seq(File)
    BY <1>1 DEF IInv, TypeOK
  <2>2. QED BY <1>1, <2>1, JoinedType, MergedStays
<1>4. ~stop => videos' \in Seq(Real) /\ merged' \in Seq(Real)
  <2>1. Real \subseteq File
    BY DEF Real
  <2>2. \A f, g \in Real : Joined(f, g) \in Real
    BY JoinedType DEF Real
  <2>3. ~stop => videos \in Seq(Real) /\ merged \in Seq(Real)
    BY <1>1 DEF IInv, RealOK
  <2>4. QED BY <1>1, <2>1, <2>2, <2>3, MergedStays
<1>5. taken' \in Seq(File) /\ taken' \in Seq(Real)
  BY <1>1, <1>2 DEF IInv, TypeOK, RealOK
<1>6. QED BY <1>1, <1>2, <1>3, <1>4, <1>5, MergeFrame

LEMMA ReportInv == IInv /\ ReportMerged => IInv'
<1>1. SUFFICES ASSUME IInv, ReportMerged PROVE IInv'
  OBVIOUS
<1>2. /\ pc = "report" /\ merged # <<>> /\ OnFile(Head(merged))
      /\ merged' = Tail(merged)
      /\ UNCHANGED <<callVars, stop, pc, sector, count, readVars, next,
                     claimed, badRun, progVars, videos>>
  BY <1>1 DEF ReportMerged
<1>3. /\ merged \in Seq(File) /\ videos \in Seq(File)
      /\ taken \in Seq(File) /\ taken \in Seq(Real)
      /\ ~stop => videos \in Seq(Real) /\ merged \in Seq(Real)
  BY <1>1 DEF IInv, TypeOK, RealOK
<1>4. /\ Head(merged) \in File /\ merged' \in Seq(File)
      /\ ~stop => Head(merged) \in Real /\ merged' \in Seq(Real)
  BY <1>2, <1>3, HeadTailProperties
<1>5. taken' \in Seq(File) /\ taken' \in Seq(Real)
  BY <1>2, <1>3, <1>4, OnFileType
<1>6. QED BY <1>1, <1>2, <1>3, <1>4, <1>5, MergeFrame

----------------------------------------------------------------------------
(* Theorems.                                                               *)

LEMMA InductiveStep == IInv /\ [Next]_vars => IInv'
<1>1. IInv /\ Scan => IInv'
  BY NextBatchInv, PhaseEndsInv, StopSplitInv, SkipKnownInv, AdaptiveSkipInv,
     BatchEndsInv, MergeNextInv, ReportInv, ReadRangeInv, FailSectorInv,
     SplitRangeInv, BatchReadInv, TakeFileInv DEF Scan
<1>2. QED BY <1>1, StopInv, StutterInv DEF Next

\* The batch, the list of ranges still to read, the buffer and the files keep
\* to each other through every step of the scan and every stop.
THEOREM Inductive == Spec => []IInv
BY InitInv, InductiveStep, PTL DEF Spec

\* Among others, the sectors of a batch that are counted as bad never exceed
\* the batch, and the adaptive skip resets badRun before it passes its limit.
THEOREM TypeCorrect == Spec => []TypeOK
BY Inductive, PTL DEF IInv

\* A stop that cuts a split short leaves old data in batch_buf, which is still
\* matched; on_file turns away whatever comes of it.
THEOREM AcceptedAreReal == Spec => []AcceptedIsReal
<1>1. IInv => AcceptedIsReal
  <2>1. SUFFICES ASSUME IInv, NEW k \in DOMAIN taken
                 PROVE  \A x \in taken[k].starts : At(x) \in Headers
    BY DEF AcceptedIsReal
  <2>2. taken[k] \in Real
    BY <2>1, LenProperties, ElementOfSeq DEF IInv, RealOK
  <2>3. QED BY <2>2 DEF Real
<1>2. QED BY Inductive, <1>1, PTL

----------------------------------------------------------------------------
(* A file taken for undamaged is readable from its header to its end.      *)

LEMMA Division ==
  ASSUME NEW d \in Nat, NEW m \in Nat \ {0}
  PROVE  /\ d \div m \in Nat /\ d % m \in 0..(m - 1)
         /\ d = (d \div m) * m + (d % m)
OBVIOUS

LEMMA DivisionGrows ==
  ASSUME NEW a \in Nat, NEW b \in Nat, a <= b, NEW m \in Nat \ {0}
  PROVE  a \div m <= b \div m
<1>1. /\ a \div m \in Nat /\ b \div m \in Nat /\ a % m \in Nat
      /\ a = (a \div m) * m + (a % m)
      /\ b = (b \div m) * m + (b % m) /\ b % m < m
  BY Division
<1>2. SUFFICES ASSUME (b \div m) + 1 <= a \div m PROVE FALSE
  BY <1>1
<1>3. ((b \div m) + 1) * m <= (a \div m) * m
  BY <1>1, <1>2
<1>4. ((b \div m) + 1) * m = (b \div m) * m + m
  BY <1>1
<1>5. QED BY <1>1, <1>3, <1>4

\* Up to the ending that was found, the search has read every chunk.
LEMMA EndingReadable ==
  ASSUME NEW s \in Nat, NEW c \in Headers, NEW up, Ending(s, c, up) > 0
  PROVE  Span(s, Ending(s, c, up)) \cap dead = {}
<1> DEFINE marks == {x \in Searched(s, c, up) : IF x = s THEN c \in Ended
                                               ELSE At(x) = Footer(c)}
<1>1. SearchLen(c) \in Nat /\ FooterChunk \in Nat \ {0}
  BY SearchType, Params
<1>2. marks \in SUBSET (0..(s + SearchLen(c))) /\ s + SearchLen(c) \in Nat
  BY <1>1 DEF Searched, Span
<1>3. PICK e \in marks : Ending(s, c, up) = e - s + 1
  <2>1. marks # {}
    BY DEF Ending
  <2>2. marks \in SUBSET Nat
    BY <1>2
  <2> HIDE DEF marks
  <2>3. Max(marks) \in marks /\ Min(marks) \in marks
    BY <1>2, <2>1, <2>2, MaxNat, MinNat
  <2>4. Ending(s, c, up) \in {Max(marks) - s + 1, Min(marks) - s + 1}
    BY DEF Ending, marks
  <2>5. QED BY <2>3, <2>4
<1>4. /\ e \in Nat /\ s <= e /\ e < s + SearchLen(c)
      /\ \A p \in FailedChunks(s, c, up) : e < p
  BY <1>1, <1>2, <1>3 DEF Searched, Span
<1>5. SUFFICES ASSUME NEW x \in s..e PROVE x \notin dead
  BY <1>3, <1>4 DEF Span
<1> DEFINE k == (x - s) \div FooterChunk
           p == s + k * FooterChunk
<1>6. /\ k \in Nat /\ (x - s) % FooterChunk \in 0..(FooterChunk - 1)
      /\ x - s = k * FooterChunk + ((x - s) % FooterChunk)
  <2>1. x - s \in Nat
    BY <1>4
  <2>2. QED BY <1>1, <2>1, Division
<1>7. k <= (SearchLen(c) - 1) \div FooterChunk
  <2>1. x - s \in Nat /\ SearchLen(c) - 1 \in Nat /\ x - s <= SearchLen(c) - 1
    BY <1>1, <1>4
  <2>2. QED BY <1>1, <2>1, DivisionGrows
<1>8. p \in ChunkStarts(s, c)
  <2>1. (SearchLen(c) - 1) \div FooterChunk \in Int
    <3>1. SearchLen(c) - 1 \in Nat
      BY <1>1, <1>4
    <3>2. QED BY <1>1, <3>1, Division
  <2> HIDE DEF k
  <2>2. k \in 0..((SearchLen(c) - 1) \div FooterChunk)
    BY <1>6, <1>7, <2>1
  <2>3. QED BY <2>2 DEF ChunkStarts
<1>9. k * FooterChunk \in Nat
  <2> HIDE DEF k
  <2>1. QED BY <1>1, <1>6
<1> HIDE DEF k
<1>10. p \in Nat /\ p <= x /\ x < p + FooterChunk
  BY <1>1, <1>6, <1>9
<1> HIDE DEF p
<1>11. CheckedOk(p, ChunkAt(s, c, p), up)
  <2>1. ~(e < p)
    BY <1>4, <1>10
  <2>2. QED BY <1>4, <1>8, <2>1 DEF FailedChunks
<1>12. x \in Span(p, ChunkAt(s, c, p))
  BY <1>1, <1>4, <1>10 DEF Span, ChunkAt, MinOf
<1>13. QED BY <1>11, <1>12 DEF CheckedOk, Readable

\* A file of level None, the first of CorruptionLevel, can be read where its
\* header is, and everywhere unless its validator saw an end.
Sound ==
  {f \in File : f.level = 0 =>
     \A n \in DOMAIN f.frags :
       /\ Span(f.frags[n][1], HeaderLen) \cap dead = {}
       /\ f.ext \notin Ended => Span(f.frags[n][1], f.frags[n][2]) \cap dead = {}}

LEMMA FileAtSound ==
  ASSUME NEW s \in Nat, NEW c \in Headers, NEW up
  PROVE  FileAt(s, c, up) \in Sound
<1> DEFINE f == FileAt(s, c, up)
           n == IF c \in Images THEN ImageLen(s, c, up) ELSE VideoLen(s, c, up)
<1>1. f \in File
  BY FileAtType
<1>2. /\ f.frags = <<<<s, n>>>> /\ f.ext = c
      /\ f.level = Level(HeaderOk(s, up), HasFooter(s, c, up), Confidence[c])
  BY DEF FileAt
<1>3. SUFFICES ASSUME f.level = 0
               PROVE  /\ Span(s, HeaderLen) \cap dead = {}
                      /\ c \notin Ended => Span(s, n) \cap dead = {}
  <2> HIDE DEF n
  <2>1. DOMAIN f.frags = {1} /\ f.frags[1] = <<s, n>> /\ f.ext = c
    BY <1>2
  <2> HIDE DEF f
  <2>2. QED BY <1>1, <2>1, <1>3 DEF Sound, f
<1>4. HeaderOk(s, up) /\ HasFooter(s, c, up)
  BY <1>2, <1>3 DEF Level
<1>h. Span(s, HeaderLen) \cap dead = {}
  BY <1>4 DEF HeaderOk, CheckedOk, Readable
<1>w. SUFFICES ASSUME c \in Images, Ending(s, c, up) > 0
               PROVE  Span(s, n) \cap dead = {}
  BY <1>4, <1>h DEF HasFooter
<1>5. n \in Nat /\ n <= Ending(s, c, up) /\ Ending(s, c, up) \in Nat
  BY <1>w, EndingType, Params DEF ImageLen, MinOf
<1> HIDE DEF n
<1>6. Span(s, n) \subseteq Span(s, Ending(s, c, up))
  BY <1>5 DEF Span
<1>7. QED BY <1>w, <1>6, EndingReadable

\* Merging never makes a file sound.
LEMMA JoinedSound == \A f, g \in File : Joined(f, g) \in Sound
<1>1. SUFFICES ASSUME NEW f \in File, NEW g \in File PROVE Joined(f, g).level # 0
  BY JoinedType DEF Sound
<1> DEFINE seam == IF f.conf >= 50 /\ g.conf >= 50
                      /\ Between(f, g) <= Gap \div 4 THEN 1
                   ELSE IF Between(f, g) <= Gap \div 2 THEN 2 ELSE 3
<1>2. seam \in 1..3
  OBVIOUS
<1>3. Joined(f, g).level = MaxOf(f.level, seam)
  BY DEF Joined
<1> HIDE DEF seam
<1>4. QED BY <1>2, <1>3, FileFields DEF MaxOf

LEMMA AppendAccepted ==
  ASSUME NEW S, NEW f \in S, taken \in Seq(S), OnFile(f)
  PROVE  taken' \in Seq(S)
BY AppendProperties DEF OnFile

SoundInv == IInv /\ videos \in Seq(Sound) /\ merged \in Seq(Sound) /\ taken \in Seq(Sound)

LEMMA CallFixed == [Next]_vars => UNCHANGED callVars
<1>1. SUFFICES ASSUME [Next]_vars PROVE UNCHANGED callVars
  OBVIOUS
<1>2. ASSUME NEW up, \/ ReadRange(up) \/ FailSector(up) \/ SplitRange(up)
                     \/ BatchRead(up) \/ TakeFile(up)
      PROVE  UNCHANGED callVars
  BY <1>2 DEF ReadRange, FailSector, SplitRange, BatchRead, TakeFile
<1>3. CASE NextBatch \/ LoopEnds \/ StopSplit \/ SkipKnown \/ AdaptiveSkip
  BY <1>3 DEF NextBatch, LoopEnds, StopSplit, SkipKnown, AdaptiveSkip
<1>4. CASE BatchEnds \/ MergeNext \/ MergeEnds \/ ReportMerged \/ ScanEnds
  BY <1>4 DEF BatchEnds, MergeNext, MergeEnds, ReportMerged, ScanEnds
<1>5. CASE RequestStop \/ UNCHANGED vars
  BY <1>5 DEF RequestStop, vars
<1>6. QED BY <1>1, <1>2, <1>3, <1>4, <1>5 DEF Next, Scan

\* The steps that neither find, merge nor report a file.
LEMMA FilesStay ==
  ASSUME [Next]_vars, \A up : ~TakeFile(up), ~MergeNext, ~ReportMerged
  PROVE  UNCHANGED fileVars
<1>1. ASSUME NEW up, ReadRange(up) \/ FailSector(up) \/ SplitRange(up) \/ BatchRead(up)
      PROVE  UNCHANGED fileVars
  BY <1>1 DEF ReadRange, FailSector, SplitRange, BatchRead
<1>2. CASE NextBatch \/ LoopEnds \/ StopSplit \/ SkipKnown \/ AdaptiveSkip
  BY <1>2 DEF NextBatch, LoopEnds, StopSplit, SkipKnown, AdaptiveSkip
<1>3. CASE BatchEnds \/ MergeEnds \/ ScanEnds \/ RequestStop \/ UNCHANGED vars
  BY <1>3 DEF BatchEnds, MergeEnds, ScanEnds, RequestStop, vars
<1>4. QED BY <1>1, <1>2, <1>3 DEF Next, Scan

\* The file that is taken, and where.
LEMMA TakenFile ==
  ASSUME NEW up, IInv, TakeFile(up)
  PROVE  \E j \in Matches, f \in File :
           /\ \A i \in Matches : j <= i
           /\ j \in 0..(count - 1) /\ buf[j] \in Headers /\ sector + j \in Nat
           /\ f = FileAt(sector + j, buf[j], up)
           /\ next' = j + 1 /\ pc = "match" /\ claimed' = LastSector(f)
           /\ found' = found \cup {[from |-> sector + j, upto |-> LastSector(f),
                                    level |-> f.level]}
           /\ \/ buf[j] \in Videos /\ videos' = Append(videos, f) /\ UNCHANGED taken
              \/ buf[j] \in Images /\ OnFile(f) /\ UNCHANGED videos
           /\ UNCHANGED <<callVars, stop, pc, sector, count, todo, bads, buf, block,
                          badRun, progVars, merged>>
<1> DEFINE j == Min(Matches)
           f == FileAt(sector + j, buf[j], up)
<1>1. pc = "match" /\ Matches # {} /\ Matches \in SUBSET Nat /\ sector \in Nat
  BY Params DEF TakeFile, Matches, IInv, TypeOK
<1>2. j \in Matches /\ \A i \in Matches : j <= i
  BY <1>1, MinNat
<1>3. /\ next' = j + 1 /\ claimed' = LastSector(f)
      /\ found' = found \cup {[from |-> sector + j, upto |-> LastSector(f),
                               level |-> f.level]}
      /\ \/ buf[j] \in Videos /\ videos' = Append(videos, f) /\ UNCHANGED taken
         \/ buf[j] \in Images /\ OnFile(f) /\ UNCHANGED videos
      /\ UNCHANGED <<callVars, stop, pc, sector, count, todo, bads, buf, block,
                     badRun, progVars, merged>>
  BY DEF TakeFile
<1> HIDE DEF j
<1>4. j \in 0..(count - 1) /\ buf[j] \in Headers
  BY <1>1, <1>2, MatchType
<1>5. sector + j \in Nat
  BY <1>1, <1>2
<1> HIDE DEF f
<1>6. f = FileAt(sector + j, buf[j], up)
  BY DEF f
<1>7. f \in File
  BY <1>4, <1>5, <1>6, FileAtType
<1>8. QED BY <1>1, <1>2, <1>3, <1>4, <1>5, <1>6, <1>7

LEMMA SoundStep ==
  ASSUME SoundInv, [Next]_vars
  PROVE  SoundInv'
<1>1. IInv'
  BY InductiveStep DEF SoundInv
<1>2. Sound' = Sound
  BY CallFixed DEF Sound
<1>3. /\ IInv /\ Sound \subseteq File
      /\ videos \in Seq(Sound) /\ merged \in Seq(Sound) /\ taken \in Seq(Sound)
  BY DEF SoundInv, Sound
<1>4. SUFFICES /\ videos' \in Seq(Sound) /\ merged' \in Seq(Sound)
               /\ taken' \in Seq(Sound)
  BY <1>1, <1>2 DEF SoundInv
<1>5. CASE UNCHANGED fileVars
  BY <1>3, <1>5
<1>6. ASSUME NEW up, TakeFile(up)
      PROVE  videos' \in Seq(Sound) /\ merged' \in Seq(Sound) /\ taken' \in Seq(Sound)
  <2>1. PICK f \in Sound :
          /\ \/ videos' = Append(videos, f) /\ UNCHANGED taken
             \/ OnFile(f) /\ UNCHANGED videos
          /\ UNCHANGED merged
    BY <1>3, <1>6, TakenFile, FileAtSound
  <2>2. CASE videos' = Append(videos, f) /\ UNCHANGED taken
    BY <1>3, <2>1, <2>2, AppendProperties
  <2>3. CASE OnFile(f) /\ UNCHANGED videos
    BY <1>3, <2>1, <2>3, AppendAccepted
  <2>4. QED BY <2>1, <2>2, <2>3
<1>7. CASE MergeNext
  <2>1. videos' \in Seq(Sound) /\ merged' \in Seq(Sound)
    BY <1>3, <1>7, JoinedSound, MergedStays
  <2>2. QED BY <1>3, <1>7, <2>1 DEF MergeNext
<1>8. CASE ReportMerged
  <2>1. /\ merged # <<>> /\ merged' = Tail(merged) /\ UNCHANGED videos
        /\ OnFile(Head(merged))
    BY <1>8 DEF ReportMerged
  <2>2. Head(merged) \in Sound /\ Tail(merged) \in Seq(Sound)
    BY <1>3, <2>1, HeadTailProperties
  <2>3. QED BY <1>3, <2>1, <2>2, AppendAccepted
<1>9. QED BY <1>5, <1>6, <1>7, <1>8, FilesStay

\* What is accepted as undamaged can be read where its header is, and, unless
\* its validator saw an end in the sector of the header, from its first to its
\* last sector: the search for its end gave up at the first chunk that failed.
THEOREM IntactReadable == Spec => []IntactIsReadable
<1>1. Init => SoundInv
  BY InitInv, EmptySeq DEF Init, SoundInv
<1>2. SoundInv => IntactIsReadable
  <2>1. SUFFICES ASSUME SoundInv, NEW k \in DOMAIN taken, taken[k].level = 0
                 PROVE  \A n \in DOMAIN taken[k].frags :
                          LET s == taken[k].frags[n][1]
                          IN /\ Span(s, HeaderLen) \cap dead = {}
                             /\ taken[k].ext \notin Ended =>
                                  Span(s, taken[k].frags[n][2]) \cap dead = {}
    BY DEF IntactIsReadable
  <2>2. taken[k] \in Sound
    BY <2>1, LenProperties, ElementOfSeq DEF SoundInv
  <2>3. QED BY <2>1, <2>2 DEF Sound
<1>3. SoundInv /\ [Next]_vars => SoundInv'
  BY SoundStep
<1>4. QED BY <1>1, <1>2, <1>3, PTL DEF Spec

----------------------------------------------------------------------------
(* Reading a batch by splitting loses only what cannot be read.            *)

LEMMA BatchLimits ==
  ASSUME IInv, sector < end
  PROVE  /\ sector \in Nat /\ end \in Nat /\ BatchCount \in 0..Batch
         /\ BatchCount <= end - sector
<1>1. /\ sector \in Nat /\ end \in Nat /\ Batch \in Nat \ {0} /\ Word \in Nat \ {0}
  BY Params DEF IInv, TypeOK, CallOK
<1>2. (end - sector) % Word \in Nat /\ (end - sector) % Word <= end - sector
  <2>1. end - sector \in Nat
    BY <1>1
  <2>2. /\ (end - sector) \div Word \in Nat /\ (end - sector) % Word \in Nat
        /\ end - sector = ((end - sector) \div Word) * Word + ((end - sector) % Word)
    BY <1>1, <2>1, Division
  <2>3. ((end - sector) \div Word) * Word \in Nat
    BY <1>1, <2>2
  <2>4. QED BY <2>1, <2>2, <2>3
<1>3. QED BY <1>1, <1>2 DEF BatchCount, MinOf

\* What a batch leaves out up to the next one is close to a multiple of the
\* width of the cast away from the end.
LEMMA LeftOutIsCut ==
  ASSUME IInv, sector < end, NEW x \in Nat, sector + BatchCount <= x,
         x < sector + Batch, x < end
  PROVE  Cut(x)
<1> DEFINE D == end - sector
           r == D % Word
           q == D \div Word
           d == x - sector
           e == end - x
           m == e % Word
           k == e \div Word
<1>1. /\ sector \in Nat /\ end \in Nat /\ Batch \in Nat \ {0} /\ Word \in Nat \ {0}
      /\ D \in Nat /\ e \in Nat \ {0} /\ e = D - d
  BY Params DEF IInv, TypeOK, CallOK
<1>2. /\ q \in Nat /\ r \in Nat /\ D = q * Word + r
      /\ k \in Nat /\ m \in Nat /\ m < Word /\ e = k * Word + m
  <2> HIDE DEF D, e
  <2>1. /\ q \in Nat /\ r \in Nat /\ D = q * Word + r
    <3>1. D \in Nat /\ Word \in Nat \ {0}
      BY <1>1
    <3>2. D \div Word \in Nat /\ D % Word \in 0..(Word - 1) /\ Word \in Nat
          /\ D = (D \div Word) * Word + (D % Word)
      BY <3>1, Division
    <3>3. QED BY <3>2
  <2>2. /\ k \in Nat /\ m \in 0..(Word - 1) /\ e = k * Word + m
    BY <1>1, Division
  <2>3. QED BY <1>1, <2>1, <2>2
<1>3. d \in Nat /\ r <= d /\ d < Batch
  <2>1. BatchCount = MinOf(Batch, r)
    BY DEF BatchCount
  <2> HIDE DEF r
  <2>2. QED BY <1>1, <1>2, <2>1 DEF MinOf
<1> HIDE DEF D, r, q, d, e, m, k
<1>4. q >= 1
  <2>1. SUFFICES ASSUME q = 0 PROVE FALSE
    BY <1>2
  <2>2. QED BY <1>1, <1>2, <1>3, <2>1
<1>5. q * Word >= Word
  BY <1>1, <1>2, <1>4
<1>6. e > Word - Batch
  BY <1>1, <1>2, <1>3, <1>5
<1>7. m = 0 \/ m > Word - Batch
  <2>1. SUFFICES ASSUME m # 0, m <= Word - Batch PROVE FALSE
    BY <1>1, <1>2
  <2>2. (q - k) * Word = q * Word - k * Word
    BY <1>1, <1>2
  <2>3. 0 < (q - k) * Word /\ (q - k) * Word < Word
    <3>1. q * Word \in Nat /\ k * Word \in Nat
      BY <1>1, <1>2
    <3>2. QED BY <1>1, <1>2, <1>3, <2>1, <2>2, <3>1
  <2>4. CASE q - k <= 0
    BY <1>1, <1>2, <2>3, <2>4
  <2>5. CASE q - k >= 1
    BY <1>1, <1>2, <2>3, <2>5
  <2>6. QED BY <1>2, <2>4, <2>5
<1>8. QED BY <1>6, <1>7 DEF Cut, e, m

LEMMA FileAtLength ==
  ASSUME NEW s \in Nat, NEW c \in Headers, NEW up
  PROVE  \E n \in Nat \ {0} : /\ FileAt(s, c, up).frags = <<<<s, n>>>>
                              /\ LastSector(FileAt(s, c, up)) = s + n
<1> DEFINE f == FileAt(s, c, up)
           n == IF c \in Images THEN ImageLen(s, c, up) ELSE VideoLen(s, c, up)
<1>1. ImageLen(s, c, up) \in Nat \ {0}
  <2>1. Estimate(c) \in Nat \ {0}
    BY DiskAssumption, Params DEF Estimate
  <2>2. QED BY <2>1, EndingType, Params DEF ImageLen, MinOf
<1>2. VideoLen(s, c, up) \in Nat \ {0}
  <2>1. CASE Barriers(s, up) # {}
    <3>1. Min(Barriers(s, up)) \in Barriers(s, up)
      BY <2>1, BarriersType, MinNat
    <3>2. \A p \in Probes(s) : p \in Nat /\ s < p
      BY Params DEF Probes
    <3>3. \A x \in Barriers(s, up) : x \in Nat /\ s < x
      BY <3>2, Params DEF Barriers, Span
    <3>4. QED BY <2>1, <3>1, <3>3 DEF VideoLen
  <2>2. CASE Barriers(s, up) = {}
    BY <2>2, DiskAssumption, Params DEF VideoLen
  <2>3. QED BY <2>1, <2>2
<1>3. f.frags = <<<<s, n>>>>
  BY DEF FileAt
<1>4. n \in Nat \ {0}
  BY <1>1, <1>2
<1> HIDE DEF n
<1>5. DOMAIN f.frags = {1} /\ f.frags[1] = <<s, n>>
  BY <1>3
<1> HIDE DEF f
<1>6. {g[1] + g[2] : g \in {f.frags[k] : k \in DOMAIN f.frags}} = {s + n}
  BY <1>5
<1>7. Max({s + n}) = s + n
  <2>1. {s + n} \in SUBSET (0..(s + n)) /\ s + n \in Nat
    BY <1>4
  <2>2. QED BY <2>1, MaxNat
<1>8. LastSector(f) = s + n
  BY <1>6, <1>7 DEF LastSector
<1>9. QED BY <1>3, <1>4, <1>8 DEF f

\* How far the batch has been read.
Upto == IF todo = <<>> THEN sector + count ELSE First

LEMMA RangeTaken ==
  ASSUME IInv, Reading, todo' = Tail(todo), UNCHANGED <<sector, count>>
  PROVE  /\ Upto = First /\ Upto' = First + Size /\ First \in Nat /\ Size \in Nat
         /\ sector <= First /\ 1 <= Size /\ First + Size <= sector + count
         /\ bads <= First - sector /\ bads \in Nat
<1>1. /\ todo \in Seq(Ranges) /\ todo # <<>> /\ sector \in Nat /\ count \in Nat
      /\ Tiles(todo, sector, count) /\ bads \in Nat /\ bads <= First - sector
  BY Params DEF IInv, TypeOK, BatchOK, Reading, First
<1>2. 1 \in 1..Len(todo) /\ First \in Nat /\ Size \in Nat
  BY <1>1, EmptySeq, RangeType DEF First, Size
<1>3. First >= sector /\ Size >= 1 /\ First + Size <= sector + count
  BY <1>1, <1>2 DEF Tiles, First, Size
<1>4. Upto' = First + Size
  BY <1>1, TailTiles DEF Upto, First, Size
<1>5. QED BY <1>1, <1>2, <1>3, <1>4 DEF Upto

\* A reader that isolates bad sectors.
Isolates == reader.app = "scan" /\ ~Skips

\* Only such a scan promises the sector x.
Wants(x) == At(x) \in Wanted /\ x \notin dead \cup Flaky /\ ~Cut(x)

\* The sector is inside a file that was found.
Inside(F, x) == \E f \in F : x \in f.from..(f.upto - 1)

\* Up to n nothing was missed.
Reached(F, n) == \A x \in ScanStart..(end - 1) : (x < n /\ Wants(x)) => Inside(F, x)

\* What is claimed belongs to a file that began before the place x.
Claims(F, c, x) == c = 0 \/ \E f \in F : f.upto = c /\ f.from < x

Place == IF pc = "match" THEN sector + next ELSE sector

\* What has been read of the batch is what the disk holds, and if all of it
\* was bad then all of it cannot be relied on.
Exact ==
  \A j \in 0..(count - 1) :
    (sector + j < Upto /\ sector + j \notin dead \cup Flaky) => buf[j] = At(sector + j)
AllBad ==
  (bads = Upto - sector) => \A x \in sector..(Upto - 1) : x \in dead \cup Flaky

InBatch == {"read", "match", "skip"}

MissOK ==
  /\ pc \in InBatch => count = BatchCount
  /\ pc = "read" => next = 0
  /\ pc = "skip" => bads = count
  /\ (Isolates /\ ~stop) =>
       /\ Reached(found, IF pc \in InBatch \cup {"loop"} THEN Place ELSE end)
       /\ Claims(found, claimed, Place)
       /\ pc \in {"read", "match"} => Exact
       /\ pc \in {"read", "skip"} => AllBad

Found == [from : Nat, upto : Nat, level : 0..3]
MissInv == IInv /\ found \subseteq Found /\ MissOK

\* Whatever the sector holds, it is not missed if it is inside what is claimed.
LEMMA ClaimedIsFound ==
  ASSUME MissInv, Isolates, ~stop, NEW x \in Nat, Place <= x, x < claimed
  PROVE  Inside(found, x)
<1>1. PICK f \in found : f.upto = claimed /\ f.from < Place
  BY DEF MissInv, MissOK, Claims
<1>2. f.from \in Nat /\ claimed \in Nat /\ Place \in Nat
  <2>1. claimed \in Nat /\ sector \in Nat /\ next \in Nat
    BY Params DEF MissInv, IInv, TypeOK
  <2>2. QED BY <2>1 DEF MissInv, Found, Place
<1>3. QED BY <1>1, <1>2 DEF Inside

\* The matching comes to a sector where it is wanted.
LEMMA MatchFound ==
  ASSUME MissInv, Isolates, ~stop, pc = "match", NEW i \in next..(count - 1),
         Wants(sector + i), i \notin Matches
  PROVE  Inside(found, sector + i)
<1>1. /\ sector \in Nat /\ next \in Nat /\ count \in Nat /\ i \in Nat /\ todo = <<>>
      /\ claimed \in Nat
  BY Params DEF MissInv, IInv, TypeOK, BatchOK
<1>2. buf[i] = At(sector + i)
  BY <1>1 DEF MissInv, MissOK, Exact, Upto, Wants
<1>3. sector + i < claimed
  BY <1>1, <1>2 DEF Matches, Wants
<1>4. QED BY <1>1, <1>3, ClaimedIsFound DEF Place

LEMMA MissFrom ==
  ASSUME UNCHANGED callVars,
         pc' \in InBatch => count' = BatchCount',
         pc' = "read" => next' = 0,
         pc' = "skip" => bads' = count',
         (Isolates /\ ~stop') =>
           /\ Reached(found', IF pc' \in InBatch \cup {"loop"} THEN Place' ELSE end)
           /\ Claims(found', claimed', Place')
           /\ pc' \in {"read", "match"} => Exact'
           /\ pc' \in {"read", "skip"} => AllBad'
  PROVE  MissOK'
<1>1. /\ Isolates' = Isolates
      /\ \A F, n : Reached(F, n)' = Reached(F, n)
  BY DEF Isolates, Skips, Reached, Wants, Cut, ScanStart, At, Inside
<1>2. QED BY <1>1 DEF MissOK

\* What the invariant says while a reader that isolates goes on undisturbed.
LEMMA MissHolds ==
  ASSUME MissInv, Isolates, ~stop
  PROVE  /\ Reached(found, IF pc \in InBatch \cup {"loop"} THEN Place ELSE end)
         /\ Claims(found, claimed, Place)
         /\ pc \in {"read", "match"} => Exact
         /\ pc \in {"read", "skip"} => AllBad
BY DEF MissInv, MissOK

LEMMA MissReads ==
  ASSUME MissInv, Reading, UNCHANGED readFrame, (Isolates /\ ~stop) => Exact' /\ AllBad'
  PROVE  MissOK'
<1>1. /\ pc = "read" /\ pc' = "read" /\ next = 0 /\ count = BatchCount
      /\ UNCHANGED <<callVars, stop, sector, count, next, claimed, found>>
  BY DEF Reading, MissInv, MissOK, InBatch
<1>2. BatchCount' = BatchCount /\ Place' = Place
  BY <1>1 DEF BatchCount, Place
<1>3. QED BY <1>1, <1>2, MissHolds, MissFrom DEF InBatch

LEMMA FailedSector ==
  ASSUME MissInv, NEW up, FailSector(up)
  PROVE  First \in dead \cup Flaky
<1>1. /\ Reading /\ Size = 1 /\ ~Readable(First, Size, up) /\ todo' = Tail(todo)
      /\ UNCHANGED <<sector, count>> /\ IInv /\ pc = "read"
  BY DEF FailSector, Reading, MissInv
<1>2. First \in Nat /\ First + 1 <= sector + count
  BY <1>1, RangeTaken
<1>3. sector < end
  BY <1>1 DEF IInv, BatchOK
<1>4. count = BatchCount
  BY <1>1 DEF MissInv, MissOK, InBatch
<1>5. /\ count \in 0..Batch /\ Batch \in Nat /\ count <= end - sector /\ end \in Nat
      /\ sector \in Nat
  BY <1>1, <1>3, <1>4, BatchLimits, Params
<1>6. First < end
  BY <1>2, <1>5
<1>7. Span(First, Size) = {First}
  BY <1>1, <1>2 DEF Span
<1>8. QED BY <1>1, <1>6, <1>7 DEF Readable

LEMMA MissRange ==
  ASSUME MissInv, NEW up, ReadRange(up) \/ FailSector(up)
  PROVE  MissOK'
<1>1. /\ Reading /\ UNCHANGED readFrame /\ todo' = Tail(todo) /\ pc = "read" /\ ~stop
      /\ UNCHANGED <<sector, count, dead, end>> /\ IInv
  BY DEF ReadRange, FailSector, Reading, MissInv
<1>2. /\ Upto = First /\ Upto' = First + Size /\ First \in Nat /\ Size \in Nat
      /\ sector <= First /\ 1 <= Size /\ First + Size <= sector + count
      /\ bads <= First - sector /\ bads \in Nat
  BY <1>1, RangeTaken
<1>3. /\ sector \in Nat /\ count \in 0..Batch /\ Batch \in Nat
      /\ buf \in [0..(Batch - 1) -> Tokens]
  BY <1>1, Params DEF IInv, TypeOK
<1>4. ASSUME Isolates PROVE Exact /\ AllBad
  BY <1>1, <1>4, MissHolds
<1>5. CASE ReadRange(up)
  <2>1. buf' = Copied /\ bads' = bads
    BY <1>5 DEF ReadRange
  <2>2. ASSUME Isolates PROVE Exact'
    <3>1. SUFFICES ASSUME NEW j \in 0..(count - 1), sector + j < First + Size,
                          sector + j \notin dead \cup Flaky
                   PROVE  buf'[j] = At(sector + j)
      BY <1>1, <1>2 DEF Exact, At
    <3>2. j \in DOMAIN buf /\ j \in Nat
      BY <1>3
    <3>3. CASE sector + j \in Span(First, Size)
      BY <2>1, <3>2, <3>3 DEF Copied
    <3>4. CASE sector + j \notin Span(First, Size)
      <4>1. sector + j < First
        BY <1>2, <1>3, <3>1, <3>2, <3>4 DEF Span
      <4>2. QED BY <1>2, <1>4, <2>1, <2>2, <3>1, <3>2, <3>4, <4>1 DEF Copied, Exact
    <3>5. QED BY <3>3, <3>4
  <2>3. AllBad'
    <3>1. bads' # Upto' - sector'
      BY <1>1, <1>2, <1>3, <2>1
    <3>2. QED BY <3>1 DEF AllBad
  <2>4. QED BY <1>1, <2>2, <2>3, MissReads
<1>6. CASE FailSector(up)
  <2>1. buf' = Zeroed /\ bads' = bads + 1 /\ Size = 1 /\ ~Readable(First, Size, up)
    BY <1>6 DEF FailSector
  <2>2. First \in dead \cup Flaky
    BY <1>6, FailedSector
  <2>3. ASSUME Isolates PROVE Exact'
    <3>1. SUFFICES ASSUME NEW j \in 0..(count - 1), sector + j < First + Size,
                          sector + j \notin dead \cup Flaky
                   PROVE  buf'[j] = At(sector + j)
      BY <1>1, <1>2 DEF Exact, At
    <3>2. j \in DOMAIN buf /\ j \in Nat
      BY <1>3
    <3>3. sector + j # First /\ sector + j < First
      BY <1>2, <1>3, <2>1, <2>2, <3>1, <3>2
    <3>4. sector + j \notin Span(First, Size)
      BY <1>2, <1>3, <3>2, <3>3 DEF Span
    <3>5. QED BY <1>2, <1>4, <2>1, <2>3, <3>1, <3>2, <3>3, <3>4 DEF Zeroed, Exact
  <2>4. ASSUME Isolates PROVE AllBad'
    <3>1. SUFFICES ASSUME bads' = Upto' - sector', NEW x \in sector'..(Upto' - 1)
                   PROVE  x \in dead' \cup Flaky
      BY DEF AllBad
    <3>2. bads = First - sector /\ (x = First \/ x \in sector..(First - 1))
      BY <1>1, <1>2, <1>3, <2>1, <3>1
    <3>3. QED BY <1>1, <1>2, <1>4, <2>2, <2>4, <3>2 DEF AllBad
  <2>5. QED BY <1>1, <2>3, <2>4, MissReads
<1>7. QED BY <1>5, <1>6

LEMMA SplitUpto ==
  ASSUME MissInv, NEW up, SplitRange(up)
  PROVE  Upto' = Upto
<1>1. /\ Reading /\ todo \in Seq(Ranges) /\ todo # <<>> /\ sector \in Nat
      /\ count \in Nat /\ Tiles(todo, sector, count) /\ IInv
  BY Params DEF SplitRange, MissInv, IInv, TypeOK, BatchOK, Reading
<1>2. First \in Nat /\ Size \in Nat
  BY <1>1, FirstType
<1>3. Size \div 2 \in Nat /\ Size \div 2 >= 1 /\ Size \div 2 < Size
  BY <1>2 DEF SplitRange
<1>4. todo' # <<>> /\ todo'[1][1] = First
  BY <1>1, <1>3, SplitTiles DEF SplitRange, First, Size
<1>5. QED BY <1>1, <1>4 DEF Upto, First

LEMMA MissSplit ==
  ASSUME MissInv, NEW up, SplitRange(up)
  PROVE  MissOK'
<1>1. /\ Reading /\ UNCHANGED readFrame /\ ~stop /\ IInv /\ IInv' /\ pc = "read"
      /\ UNCHANGED <<sector, count, dead, bads, buf>>
  BY SplitRangeInv DEF SplitRange, MissInv, Reading
<1>3. Upto' = Upto
  BY SplitUpto
<1>4. (Isolates /\ ~stop) => Exact /\ AllBad
  BY <1>1, MissHolds
<1>5. (Isolates /\ ~stop) => Exact' /\ AllBad'
  BY <1>1, <1>3, <1>4 DEF Exact, AllBad, At
<1>6. QED BY <1>1, <1>5, MissReads

LEMMA MissSkipped ==
  ASSUME MissInv, StopSplit \/ SkipKnown
  PROVE  MissOK'
<1>1. Reading /\ UNCHANGED readFrame /\ ~(Isolates /\ ~stop)
  BY DEF StopSplit, SkipKnown, KnownBad, Isolates
<1>2. QED BY <1>1, MissReads

LEMMA NextUpto ==
  ASSUME MissInv, NextBatch, Isolates
  PROVE  Upto' = sector
<1>1. /\ sector \in Nat /\ count' = BatchCount /\ sector' = sector
      /\ todo' = IF BatchCount = 0 THEN <<>> ELSE <<<<sector, BatchCount>>>>
  BY DEF NextBatch, Cached, Isolates, MissInv, IInv, TypeOK
<1>2. CASE BatchCount = 0
  BY <1>1, <1>2 DEF Upto
<1>3. CASE BatchCount # 0
  <2>1. todo' # <<>> /\ todo'[1][1] = sector
    BY <1>1, <1>3
  <2>2. QED BY <2>1 DEF Upto, First
<1>4. QED BY <1>2, <1>3

\* The next batch: nothing of it has been read, or it is empty.
LEMMA MissNextBatch ==
  ASSUME MissInv, NextBatch
  PROVE  MissOK'
<1>1. /\ pc = "loop" /\ pc' = "read" /\ ~stop /\ sector < end /\ count' = BatchCount
      /\ bads' = 0 /\ next' = 0 /\ IInv
      /\ UNCHANGED <<callVars, stop, sector, claimed, found>>
  BY DEF NextBatch, MissInv
<1>2. BatchCount' = BatchCount /\ Place' = sector /\ Place = sector
  BY <1>1 DEF BatchCount, Place
<1>3. BatchCount \in Nat /\ sector \in Nat
  BY <1>1, BatchLimits
<1>4. ASSUME Isolates PROVE Upto' = sector
  BY <1>4, NextUpto
<1>5. ASSUME Isolates PROVE Exact' /\ AllBad'
  <2>1. Exact'
    BY <1>1, <1>3, <1>4, <1>5 DEF Exact
  <2>2. AllBad'
    BY <1>1, <1>3, <1>4, <1>5 DEF AllBad
  <2>3. QED BY <2>1, <2>2
<1>6. ASSUME Isolates PROVE Reached(found, sector) /\ Claims(found, claimed, sector)
  BY <1>1, <1>2, <1>6, MissHolds DEF InBatch
<1>7. QED BY <1>1, <1>2, <1>5, <1>6, MissFrom DEF InBatch

LEMMA MissBatchRead ==
  ASSUME MissInv, NEW up, BatchRead(up)
  PROVE  MissOK'
<1>1. /\ pc = "read" /\ todo = <<>> /\ next = 0 /\ count = BatchCount
      /\ UNCHANGED <<callVars, stop, sector, count, todo, bads, buf, next, claimed, found>>
      /\ pc' \in {"match", "skip"} /\ (pc' = "skip" => bads = count)
      /\ sector \in Nat
  BY DEF BatchRead, MissInv, MissOK, InBatch, IInv, TypeOK
<1>2. BatchCount' = BatchCount /\ Place' = Place /\ Upto' = Upto
  BY <1>1 DEF BatchCount, Place, Upto
<1>3. ASSUME Isolates, ~stop
      PROVE  /\ Reached(found, Place) /\ Claims(found, claimed, Place)
             /\ Exact' /\ AllBad'
  BY <1>1, <1>2, <1>3, MissHolds DEF InBatch, Exact, AllBad, At
<1>4. QED BY <1>1, <1>2, <1>3, MissFrom DEF InBatch

\* From where a batch was matched or skipped to where the next one begins,
\* there is nothing the scan promises.
LEMMA MissAdvance ==
  ASSUME MissInv, sector < end, pc' = "loop", sector' \in Nat, Place <= sector',
         sector' <= sector + Batch, UNCHANGED <<callVars, stop, claimed, found>>,
         pc \in InBatch,
         (Isolates /\ ~stop) =>
            \A x \in Nat : (Place <= x /\ x < sector + count /\ Wants(x)) => Inside(found, x)
  PROVE  MissOK'
<1>1. Place' = sector' /\ count = BatchCount /\ IInv
  BY DEF Place, MissInv, MissOK
<1>2. /\ sector \in Nat /\ end \in Nat /\ count \in Nat /\ Place \in Nat
      /\ Batch \in Nat /\ ScanStart \in Nat
  BY <1>1, Params DEF IInv, TypeOK, CallOK, Place, ScanStart
<1>3. ASSUME Isolates, ~stop PROVE Reached(found, sector')
  <2>1. SUFFICES ASSUME NEW x \in ScanStart..(end - 1), x < sector', Wants(x)
                 PROVE  Inside(found, x)
    BY DEF Reached
  <2>2. x \in Nat /\ x < end
    BY <1>2
  <2>3. CASE x < Place
    BY <1>3, <2>1, <2>3, MissHolds DEF Reached
  <2>4. CASE Place <= x /\ x < sector + count
    BY <1>3, <2>1, <2>2, <2>4
  <2>5. CASE sector + count <= x
    <3>1. Cut(x)
      BY <1>1, <1>2, <2>1, <2>2, <2>5, LeftOutIsCut
    <3>2. QED BY <2>1, <3>1 DEF Wants
  <2>6. QED BY <1>2, <2>2, <2>3, <2>4, <2>5
<1>4. ASSUME Isolates, ~stop PROVE Claims(found, claimed, sector')
  <2>1. Claims(found, claimed, Place) /\ \A f \in found : f.from \in Nat
    BY <1>4, MissHolds DEF MissInv, Found
  <2>2. QED BY <1>2, <2>1 DEF Claims
<1>5. QED BY <1>1, <1>3, <1>4, MissFrom DEF InBatch

LEMMA MissSkip ==
  ASSUME MissInv, AdaptiveSkip
  PROVE  MissOK'
<1>1. /\ pc = "skip" /\ pc' = "loop" /\ sector' = sector + Skipped /\ bads = count
      /\ sector < end /\ todo = <<>> /\ UNCHANGED <<callVars, stop, claimed, found>>
      /\ IInv
  BY DEF AdaptiveSkip, SkipTarget, MissInv, MissOK, IInv, BatchOK
<1>2. /\ sector \in Nat /\ end \in Nat /\ count \in Nat
      /\ SkipLen \in Nat /\ Batch \in Nat /\ SkipLen <= Batch
  BY <1>1, Params, SizeAssumption DEF IInv, TypeOK, CallOK
<1>3. Skipped \in Nat /\ Skipped <= Batch
  BY <1>1, <1>2 DEF Skipped, MinOf
<1>4. Place = sector
  BY <1>1 DEF Place
<1>5. ASSUME Isolates, ~stop, NEW x \in Nat, Place <= x, x < sector + count, Wants(x)
      PROVE  FALSE
  <2>1. AllBad
    BY <1>1, <1>5, MissHolds
  <2>2. x \in dead \cup Flaky
    BY <1>1, <1>2, <1>4, <1>5, <2>1 DEF AllBad, Upto
  <2>3. QED BY <1>5, <2>2 DEF Wants
<1>6. /\ sector' \in Nat /\ Place <= sector' /\ sector' <= sector + Batch
      /\ pc \in InBatch
  BY <1>1, <1>2, <1>3, <1>4 DEF InBatch
<1>7. QED BY <1>1, <1>5, <1>6, MissAdvance

LEMMA MissBatchEnds ==
  ASSUME MissInv, BatchEnds
  PROVE  MissOK'
<1>1. /\ pc = "match" /\ pc' = "loop" /\ sector' = sector + Batch /\ Matches = {}
      /\ UNCHANGED <<callVars, stop, claimed, found>> /\ IInv /\ sector < end
  BY DEF BatchEnds, MissInv, IInv, BatchOK
<1>2. /\ sector \in Nat /\ end \in Nat /\ count \in Nat /\ next \in 0..Batch /\ Batch \in Nat
  BY <1>1, Params DEF IInv, TypeOK, CallOK
<1>3. Place = sector + next
  BY <1>1 DEF Place
<1>4. ASSUME Isolates, ~stop, NEW x \in Nat, Place <= x, x < sector + count, Wants(x)
      PROVE  Inside(found, x)
  <2>1. x - sector \in next..(count - 1) /\ sector + (x - sector) = x
    BY <1>2, <1>3, <1>4
  <2>2. QED BY <1>1, <1>4, <2>1, MatchFound
<1>5. /\ sector' \in Nat /\ Place <= sector' /\ sector' <= sector + Batch
      /\ pc \in InBatch
  BY <1>1, <1>2, <1>3 DEF InBatch
<1>6. QED BY <1>1, <1>4, <1>5, MissAdvance

LEMMA MissTake ==
  ASSUME MissInv, NEW up, TakeFile(up)
  PROVE  MissOK' /\ found' \subseteq Found
<1>0. IInv /\ todo = <<>> /\ sector < end
  BY DEF MissInv, IInv, BatchOK, TakeFile
<1>1. PICK j \in Matches, f \in File :
        /\ \A i \in Matches : j <= i
        /\ j \in 0..(count - 1) /\ buf[j] \in Headers /\ sector + j \in Nat
        /\ f = FileAt(sector + j, buf[j], up)
        /\ next' = j + 1 /\ pc = "match" /\ claimed' = LastSector(f)
        /\ found' = found \cup {[from |-> sector + j, upto |-> LastSector(f),
                                 level |-> f.level]}
        /\ \/ buf[j] \in Videos /\ videos' = Append(videos, f) /\ UNCHANGED taken
           \/ buf[j] \in Images /\ OnFile(f) /\ UNCHANGED videos
        /\ UNCHANGED <<callVars, stop, pc, sector, count, todo, bads, buf, block,
                       badRun, progVars, merged>>
  BY <1>0, TakenFile
<1>2. /\ sector \in Nat /\ next \in Nat /\ count \in Nat /\ j \in next..(count - 1)
  BY <1>0, <1>1, Params DEF IInv, TypeOK, Matches
<1> DEFINE g == [from |-> sector + j, upto |-> LastSector(f), level |-> f.level]
<1>3. /\ g.from = sector + j /\ g.upto \in Nat /\ sector + j < g.upto /\ f \in File
      /\ g.upto = claimed'
  BY <1>1, FileAtLength, FileAtType
<1>4. g \in Found
  BY <1>1, <1>3, FileFields DEF Found
<1>5. found' = found \cup {g} /\ found' \subseteq Found
  BY <1>1, <1>4 DEF MissInv
<1> HIDE DEF g
<1>6. Place = sector + next /\ Place' = sector + j + 1 /\ BatchCount' = BatchCount
  BY <1>1, <1>2 DEF Place, BatchCount
<1>7. Claims(found', claimed', sector + j + 1)
  <2>1. g \in found' /\ g.upto = claimed' /\ g.from < sector + j + 1
    BY <1>2, <1>3, <1>5
  <2>2. QED BY <2>1 DEF Claims
<1>8. ASSUME Isolates, ~stop PROVE Reached(found', sector + j + 1)
  <2>1. SUFFICES ASSUME NEW x \in ScanStart..(end - 1), x < sector + j + 1, Wants(x)
                 PROVE  Inside(found', x)
    BY DEF Reached
  <2>2. x \in Nat /\ (Inside(found, x) => Inside(found', x))
    BY <1>0, <1>5, Params DEF Inside, IInv, CallOK, ScanStart
  <2>3. CASE x < Place
    <3>1. Reached(found, Place)
      BY <1>1, <1>8, MissHolds DEF InBatch
    <3>2. QED BY <2>1, <2>2, <2>3, <3>1 DEF Reached
  <2>4. CASE Place <= x /\ x < sector + j
    <3>1. x - sector \in next..(count - 1) /\ x - sector < j /\ sector + (x - sector) = x
      BY <1>2, <1>6, <2>2, <2>4
    <3>2. x - sector \notin Matches
      BY <1>1, <1>2, <3>1
    <3>3. QED BY <1>1, <1>8, <2>1, <2>2, <3>1, <3>2, MatchFound
  <2>5. CASE x = sector + j
    BY <1>2, <1>3, <1>5, <2>5 DEF Inside
  <2>6. QED BY <1>2, <1>6, <2>1, <2>2, <2>3, <2>4, <2>5
<1>9. ASSUME Isolates, ~stop PROVE Exact'
  BY <1>1, <1>9, MissHolds DEF Exact, Upto, First, At
<1>10. count = BatchCount
  BY <1>1 DEF MissInv, MissOK, InBatch
<1>11. MissOK'
  BY <1>1, <1>6, <1>7, <1>8, <1>9, <1>10, MissFrom DEF InBatch
<1>12. QED BY <1>5, <1>11

LEMMA MissRest ==
  ASSUME MissInv,
         \/ LoopEnds \/ MergeNext \/ MergeEnds \/ ReportMerged \/ ScanEnds
         \/ RequestStop \/ UNCHANGED vars
  PROVE  MissOK'
<1>1. CASE LoopEnds
  <2>1. /\ pc = "loop" /\ pc' = "merge" /\ (sector >= end \/ stop)
        /\ UNCHANGED <<callVars, stop, sector, claimed, found>>
    BY <1>1 DEF LoopEnds
  <2>2. sector \in Nat /\ end \in Nat /\ ScanStart \in Nat
    BY Params DEF MissInv, IInv, TypeOK, CallOK, ScanStart
  <2>3. ASSUME Isolates, ~stop PROVE Reached(found, end) /\ Claims(found, claimed, sector)
    <3>1. Reached(found, sector) /\ Claims(found, claimed, sector)
      BY <2>1, <2>3, MissHolds DEF Place
    <3>2. QED BY <2>1, <2>2, <2>3, <3>1 DEF Reached
  <2>4. QED BY <2>1, <2>3, MissFrom DEF Place, InBatch
<1>2. CASE MergeNext \/ MergeEnds \/ ReportMerged \/ ScanEnds
  <2>1. /\ pc \in {"merge", "report"} /\ pc' \in {"merge", "report", "done"}
        /\ UNCHANGED <<callVars, stop, sector, claimed, found>>
    BY <1>2 DEF MergeNext, MergeEnds, ReportMerged, ScanEnds
  <2>2. ASSUME Isolates, ~stop PROVE Reached(found, end) /\ Claims(found, claimed, sector)
    BY <2>1, <2>2, MissHolds DEF InBatch, Place
  <2>3. QED BY <2>1, <2>2, MissFrom DEF Place, InBatch
<1>3. CASE RequestStop \/ UNCHANGED vars
  <2>1. /\ UNCHANGED <<callVars, pc, sector, count, todo, bads, buf, next, claimed, found>>
        /\ ~stop' => ~stop
    BY <1>3 DEF RequestStop, vars
  <2>2. BatchCount' = BatchCount /\ Place' = Place /\ Upto' = Upto
    BY <2>1 DEF BatchCount, Place, Upto, First
  <2>3. /\ pc \in InBatch => count = BatchCount
        /\ pc = "read" => next = 0
        /\ pc = "skip" => bads = count
    BY DEF MissInv, MissOK
  <2>4. (Exact => Exact') /\ (AllBad => AllBad')
    BY <2>1, <2>2 DEF Exact, AllBad, At
  <2>5. QED BY <2>1, <2>2, <2>3, <2>4, MissHolds, MissFrom
<1>4. QED BY <1>1, <1>2, <1>3

LEMMA FoundStays ==
  ASSUME [Next]_vars, \A up : ~TakeFile(up)
  PROVE  UNCHANGED found
<1>1. CASE MergeNext \/ ReportMerged
  BY <1>1 DEF MergeNext, ReportMerged
<1>2. CASE ~MergeNext /\ ~ReportMerged
  BY <1>2, FilesStay
<1>3. QED BY <1>1, <1>2

LEMMA MissStep == MissInv /\ [Next]_vars => MissInv'
<1>1. SUFFICES ASSUME MissInv, [Next]_vars PROVE MissOK' /\ found' \subseteq Found
  BY InductiveStep DEF MissInv
<1>2. CASE \E up : TakeFile(up)
  BY <1>1, <1>2, MissTake
<1>3. CASE \A up : ~TakeFile(up)
  <2>1. found' \subseteq Found
    BY <1>1, <1>3, FoundStays DEF MissInv
  <2>2. MissOK'
    BY <1>1, <1>3, MissRange, MissSplit, MissSkipped, MissNextBatch, MissBatchRead,
       MissSkip, MissBatchEnds, MissRest DEF Next, Scan
  <2>3. QED BY <2>1, <2>2
<1>4. QED BY <1>2, <1>3

LEMMA MissInit == Init => MissInv
<1>1. SUFFICES ASSUME Init PROVE MissInv
  OBVIOUS
<1>2. pc = "loop" /\ sector = ScanStart /\ claimed = 0 /\ found = {} /\ ScanStart \in Nat
  BY <1>1, InitInv DEF Init, IInv, TypeOK
<1>3. Reached(found, sector)
  BY <1>2 DEF Reached
<1>4. QED BY <1>1, <1>2, <1>3, InitInv DEF MissInv, MissOK, InBatch, Claims, Place

\* A reader that is told to read over bad sectors and has no prefetch buffer
\* loses no header that can be read: not by splitting the batches that fail,
\* not by the adaptive skip and not by the sectors that files found before
\* claim; only the cast to 32 bits takes sectors from it.
THEOREM NothingMissed == Spec => []SplitMissesNothing
<1>1. MissInv => SplitMissesNothing
  <2>1. SUFFICES ASSUME MissInv, pc = "done", Isolates, ~stop PROVE Missed = {}
    BY DEF SplitMissesNothing, Isolates
  <2>2. Reached(found, end) /\ end \in Nat /\ ScanStart \in Nat
    BY <2>1, MissHolds, Params DEF InBatch, MissInv, IInv, CallOK, ScanStart
  <2>3. QED BY <2>2 DEF Reached, Wants, Inside, Missed
<1>2. QED BY <1>1, MissInit, MissStep, PTL DEF Spec

----------------------------------------------------------------------------
(* Counting sectors.                                                       *)

\* The sectors of T from a up to but not b.
Within(T, a, b) == {x \in a..(b - 1) : x \in T}
Number(T, a, b) == Cardinality(Within(T, a, b))

LEMMA NumberType ==
  ASSUME NEW T, NEW a \in Nat, NEW b \in Nat
  PROVE  IsFiniteSet(Within(T, a, b)) /\ Number(T, a, b) \in Nat
<1>1. IsFiniteSet(a..(b - 1))
  BY FS_Interval
<1>2. Within(T, a, b) \in SUBSET (a..(b - 1))
  BY DEF Within
<1>3. QED BY <1>1, <1>2, FS_Subset, FS_CardinalityType DEF Number

LEMMA NumberMore ==
  ASSUME NEW T, NEW U, NEW a \in Nat, NEW b \in Nat,
         \A x \in a..(b - 1) : x \in T => x \in U
  PROVE  Number(T, a, b) <= Number(U, a, b)
<1>1. Within(T, a, b) \in SUBSET Within(U, a, b)
  BY DEF Within
<1>2. QED BY <1>1, NumberType, FS_Subset DEF Number

LEMMA NumberAll ==
  ASSUME NEW T, NEW a \in Nat, NEW b \in Nat, a <= b
  PROVE  /\ Number(T, a, b) <= b - a
         /\ (\A x \in a..(b - 1) : x \in T) => Number(T, a, b) = b - a
         /\ (\A x \in a..(b - 1) : x \notin T) => Number(T, a, b) = 0
<1>1. IsFiniteSet(a..(b - 1)) /\ Cardinality(a..(b - 1)) = b - a
  <2>1. a \in Int /\ b - 1 \in Int
    OBVIOUS
  <2>2. /\ IsFiniteSet(a..(b - 1))
        /\ Cardinality(a..(b - 1)) = IF a > b - 1 THEN 0 ELSE (b - 1) - a + 1
    BY <2>1, FS_Interval
  <2>3. QED BY <2>2
<1>2. Within(T, a, b) \in SUBSET (a..(b - 1))
  BY DEF Within
<1>3. Number(T, a, b) <= b - a
  BY <1>1, <1>2, FS_Subset DEF Number
<1>4. (\A x \in a..(b - 1) : x \in T) => Within(T, a, b) = a..(b - 1)
  BY DEF Within
<1>5. (\A x \in a..(b - 1) : x \notin T) => Within(T, a, b) = {}
  BY DEF Within
<1>6. QED BY <1>1, <1>3, <1>4, <1>5, FS_EmptySet DEF Number

LEMMA NumberAdds ==
  ASSUME NEW T, NEW a \in Nat, NEW b \in Nat, NEW c \in Nat, a <= b, b <= c
  PROVE  Number(T, a, c) = Number(T, a, b) + Number(T, b, c)
<1> DEFINE A == Within(T, a, b)
           B == Within(T, b, c)
<1>1. A \cup B = Within(T, a, c) /\ A \cap B = {}
  BY DEF Within
<1>2. IsFiniteSet(A) /\ IsFiniteSet(B) /\ Cardinality(A) \in Nat /\ Cardinality(B) \in Nat
  BY NumberType DEF Number
<1> HIDE DEF A, B
<1>3. Cardinality(A \cup B) = Cardinality(A) + Cardinality(B) - Cardinality(A \cap B)
  BY <1>2, FS_Union
<1>4. QED BY <1>1, <1>2, <1>3, FS_EmptySet DEF Number, A, B

----------------------------------------------------------------------------
(* The reported position and the count of bad sectors.                     *)

\* The sectors a cut batch may leave out, those that may be counted as bad
\* and those that must be.
CutOff == {x \in Nat : Cut(x)}
MayBeBad == {x \in Nat : x \in dead \cup Flaky \/ Cut(x)}
MustBeBad == {x \in Nat : x \in dead /\ ~Cut(x)}

Looping == InBatch \cup {"loop"}

CountOK ==
  /\ ScanStart <= sector
  /\ pc \in Looping =>
       /\ scanned <= MinOf(sector, MaxOf(end, ScanStart))
       /\ MinOf(sector, end) - scanned <= Number(CutOff, ScanStart, MinOf(sector, end))
  /\ (pc \in Looping /\ Isolates /\ ~stop) =>
       /\ badHit <= Number(MayBeBad, ScanStart, MinOf(sector, end))
       /\ Number(MustBeBad, ScanStart, MinOf(sector, end)) <= badHit
  /\ (pc \in InBatch /\ Isolates /\ ~stop) =>
       /\ bads <= Number(dead \cup Flaky, sector, Upto)
       /\ Number(dead, sector, Upto) <= bads

CountInv == MissInv /\ CountOK

LEMMA CountNat ==
  ASSUME IInv
  PROVE  /\ sector \in Nat /\ count \in Nat /\ bads \in Nat /\ end \in Nat
         /\ scanned \in Nat /\ badHit \in Nat /\ ScanStart \in Nat
         /\ Batch \in Nat \ {0} /\ SkipLen \in Nat /\ SkipLen <= Batch
BY Params, SizeAssumption DEF IInv, TypeOK, CallOK, ScanStart

LEMMA CountFrom ==
  ASSUME UNCHANGED callVars, ScanStart <= sector',
         pc' \in Looping =>
           /\ scanned' <= MinOf(sector', MaxOf(end, ScanStart))
           /\ MinOf(sector', end) - scanned' <= Number(CutOff, ScanStart, MinOf(sector', end)),
         (pc' \in Looping /\ Isolates /\ ~stop') =>
           /\ badHit' <= Number(MayBeBad, ScanStart, MinOf(sector', end))
           /\ Number(MustBeBad, ScanStart, MinOf(sector', end)) <= badHit',
         (pc' \in InBatch /\ Isolates /\ ~stop') =>
           /\ bads' <= Number(dead \cup Flaky, sector', Upto')
           /\ Number(dead, sector', Upto') <= bads'
  PROVE  CountOK'
<1>1. /\ Isolates' = Isolates /\ ScanStart' = ScanStart
      /\ CutOff' = CutOff /\ MayBeBad' = MayBeBad /\ MustBeBad' = MustBeBad
  BY DEF Isolates, Skips, ScanStart, CutOff, MayBeBad, MustBeBad, Cut
<1>2. QED BY <1>1 DEF CountOK

\* A step that does not move the progress.
LEMMA CountStays ==
  ASSUME CountInv, UNCHANGED <<callVars, sector, progVars>>,
         pc' \in Looping => pc \in Looping, ~stop' => ~stop,
         (pc' \in InBatch /\ Isolates /\ ~stop') =>
           /\ bads' <= Number(dead \cup Flaky, sector, Upto')
           /\ Number(dead, sector, Upto') <= bads'
  PROVE  CountOK'
BY CountFrom DEF CountInv, CountOK

LEMMA CountRange ==
  ASSUME CountInv, NEW up, ReadRange(up) \/ FailSector(up)
  PROVE  CountOK'
<1>1. /\ Reading /\ UNCHANGED readFrame /\ todo' = Tail(todo) /\ pc = "read" /\ ~stop
      /\ UNCHANGED <<callVars, sector, count, progVars, pc, stop>> /\ IInv /\ MissInv
  BY DEF ReadRange, FailSector, Reading, CountInv, MissInv
<1>2. /\ Upto = First /\ Upto' = First + Size /\ First \in Nat /\ Size \in Nat
      /\ sector <= First /\ 1 <= Size /\ First + Size <= sector + count
      /\ sector \in Nat /\ bads \in Nat
  BY <1>1, RangeTaken, CountNat
<1>3. ASSUME NEW T PROVE
        /\ Number(T, sector, First + Size)
             = Number(T, sector, First) + Number(T, First, First + Size)
        /\ Number(T, sector, First) \in Nat /\ Number(T, First, First + Size) \in Nat
        /\ Number(T, First, First + Size) <= Size
        /\ (\A x \in First..(First + Size - 1) : x \in T)
              => Number(T, First, First + Size) = Size
        /\ (\A x \in First..(First + Size - 1) : x \notin T)
              => Number(T, First, First + Size) = 0
  <2>1. First + Size \in Nat /\ First <= First + Size /\ (First + Size) - First = Size
    BY <1>2
  <2>2. QED BY <1>2, <2>1, NumberAdds, NumberType, NumberAll
<1>4. SUFFICES ASSUME Isolates
               PROVE  /\ bads' <= Number(dead \cup Flaky, sector, First + Size)
                      /\ Number(dead, sector, First + Size) <= bads'
  BY <1>1, <1>2, CountStays
<1>5. /\ bads <= Number(dead \cup Flaky, sector, First)
      /\ Number(dead, sector, First) <= bads
  BY <1>1, <1>2, <1>4 DEF CountInv, CountOK, InBatch
<1>6. CASE ReadRange(up)
  <2>1. bads' = bads /\ Readable(First, Size, up)
    BY <1>6 DEF ReadRange
  <2>2. \A x \in First..(First + Size - 1) : x \notin dead
    BY <2>1 DEF Readable, Span
  <2>3. QED BY <1>2, <1>3, <1>5, <2>1, <2>2
<1>7. CASE FailSector(up)
  <2>1. bads' = bads + 1 /\ Size = 1
    BY <1>7 DEF FailSector
  <2>2. First \in dead \cup Flaky
    BY <1>1, <1>7, FailedSector
  <2>3. \A x \in First..(First + Size - 1) : x \in dead \cup Flaky
    BY <1>2, <2>1, <2>2
  <2>4. Number(dead \cup Flaky, First, First + Size) = 1 /\ Number(dead, First, First + Size) <= 1
    BY <1>3, <2>1, <2>3
  <2>5. QED BY <1>2, <1>3, <1>5, <2>1, <2>4
<1>8. QED BY <1>6, <1>7

LEMMA CountSplit ==
  ASSUME CountInv, NEW up, SplitRange(up)
  PROVE  CountOK'
<1>1. /\ UNCHANGED readFrame /\ pc = "read" /\ bads' = bads /\ MissInv
  BY DEF SplitRange, Reading, CountInv
<1>2. Upto' = Upto
  BY <1>1, SplitUpto
<1>3. QED BY <1>1, <1>2, CountStays DEF CountInv, CountOK

LEMMA CountSkipped ==
  ASSUME CountInv, StopSplit \/ SkipKnown
  PROVE  CountOK'
<1>1. UNCHANGED readFrame /\ ~(Isolates /\ ~stop)
  BY DEF StopSplit, SkipKnown, KnownBad, Isolates
<1>2. QED BY <1>1, CountStays

LEMMA CountNextBatch ==
  ASSUME CountInv, NextBatch
  PROVE  CountOK'
<1>1. /\ pc = "loop" /\ pc' = "read" /\ bads' = 0 /\ MissInv
      /\ UNCHANGED <<callVars, stop, sector, progVars>>
  BY DEF NextBatch, CountInv
<1>2. sector \in Nat
  BY <1>1, CountNat DEF MissInv
<1>3. \A T : Number(T, sector, sector) = 0
  BY <1>2, NumberAll, NumberType
<1>4. Isolates => Upto' = sector
  BY <1>1, NextUpto
<1>5. QED BY <1>1, <1>3, <1>4, CountStays DEF Looping

LEMMA CountRest ==
  ASSUME CountInv,
         \/ LoopEnds \/ MergeNext \/ MergeEnds \/ ReportMerged \/ ScanEnds
         \/ RequestStop \/ UNCHANGED vars \/ \E up : BatchRead(up) \/ TakeFile(up)
  PROVE  CountOK'
<1>1. CASE \/ LoopEnds \/ MergeNext \/ MergeEnds \/ ReportMerged \/ ScanEnds
  <2>1. UNCHANGED <<callVars, sector, progVars, stop>> /\ pc' \notin Looping
    BY <1>1 DEF LoopEnds, MergeNext, MergeEnds, ReportMerged, ScanEnds, Looping, InBatch
  <2>2. QED BY <2>1, CountStays DEF Looping
<1>2. CASE RequestStop \/ UNCHANGED vars \/ \E up : BatchRead(up) \/ TakeFile(up)
  <2>1. /\ UNCHANGED <<callVars, sector, progVars, count, todo, bads>>
        /\ pc' \in InBatch => pc \in InBatch
        /\ pc' \in Looping => pc \in Looping
        /\ ~stop' => ~stop
    <3>1. CASE RequestStop \/ UNCHANGED vars
      BY <3>1 DEF RequestStop, vars
    <3>2. ASSUME NEW up, BatchRead(up) PROVE <2>1!:
      BY <3>2 DEF BatchRead, Looping, InBatch
    <3>3. ASSUME NEW up, TakeFile(up) PROVE <2>1!:
      BY <3>3 DEF TakeFile
    <3>4. QED BY <1>2, <3>1, <3>2, <3>3
  <2>2. Upto' = Upto
    BY <2>1 DEF Upto, First
  <2>3. QED BY <2>1, <2>2, CountStays DEF CountInv, CountOK
<1>3. QED BY <1>1, <1>2

\* The three parts of what lies behind the next batch: what lay behind this
\* one, this one up to b, and the rest.
LEMMA NumberParts ==
  ASSUME NEW T, NEW s \in Nat, NEW a \in Nat, NEW b \in Nat, NEW c \in Nat,
         s <= a, a <= b, b <= c
  PROVE  /\ Number(T, s, c) = Number(T, s, a) + Number(T, a, b) + Number(T, b, c)
         /\ Number(T, s, a) \in Nat /\ Number(T, a, b) \in Nat /\ Number(T, b, c) \in Nat
<1>1. Number(T, s, c) = Number(T, s, b) + Number(T, b, c)
  BY NumberAdds
<1>2. Number(T, s, b) = Number(T, s, a) + Number(T, a, b)
  BY NumberAdds
<1>3. QED BY <1>1, <1>2, NumberType

LEMMA CountBatchEnds ==
  ASSUME CountInv, BatchEnds
  PROVE  CountOK'
<1> DEFINE b == sector + count
           c == MinOf(sector + Batch, end)
<1>1. /\ pc = "match" /\ pc' = "loop" /\ todo = <<>> /\ sector < end /\ IInv
      /\ scanned' = scanned + count /\ badHit' = badHit + bads
      /\ sector' = sector + Batch /\ UNCHANGED <<callVars, stop>>
      /\ count = BatchCount
  BY DEF BatchEnds, CountInv, MissInv, MissOK, InBatch, IInv, BatchOK
<1>2. /\ sector \in Nat /\ count \in Nat /\ bads \in Nat /\ end \in Nat
      /\ scanned \in Nat /\ badHit \in Nat /\ ScanStart \in Nat
      /\ Batch \in Nat \ {0} /\ ScanStart <= sector
  BY <1>1, CountNat DEF CountInv, CountOK
<1>3. count <= Batch /\ count <= end - sector
  BY <1>1, <1>2, BatchLimits
<1>4. b \in Nat /\ c \in Nat /\ sector <= b /\ b <= c /\ c <= end /\ c <= sector + Batch
  BY <1>1, <1>2, <1>3 DEF MinOf
<1>5. \A x \in b..(c - 1) : x \in Nat /\ Cut(x)
  <2>1. SUFFICES ASSUME NEW x \in b..(c - 1) PROVE x \in Nat /\ Cut(x)
    OBVIOUS
  <2>2. x \in Nat /\ sector + BatchCount <= x /\ x < sector + Batch /\ x < end
    BY <1>1, <1>2, <1>4
  <2>3. QED BY <1>1, <2>2, LeftOutIsCut
<1>6. /\ scanned <= sector
      /\ sector - scanned <= Number(CutOff, ScanStart, sector)
      /\ (Isolates /\ ~stop) =>
           /\ badHit <= Number(MayBeBad, ScanStart, sector)
           /\ Number(MustBeBad, ScanStart, sector) <= badHit
           /\ bads <= Number(dead \cup Flaky, sector, b)
           /\ Number(dead, sector, b) <= bads
  <2>1. MinOf(sector, end) = sector /\ Upto = b
    BY <1>1, <1>2 DEF MinOf, Upto
  <2>2. \A m \in Nat : MinOf(sector, m) <= sector
    BY <1>2 DEF MinOf
  <2>3. scanned <= sector
    <3>1. MaxOf(end, ScanStart) \in Nat
      BY <1>2 DEF MaxOf
    <3>2. scanned <= MinOf(sector, MaxOf(end, ScanStart))
      BY <1>1 DEF CountInv, CountOK, Looping, InBatch
    <3>3. QED BY <1>2, <3>1, <3>2 DEF MinOf
  <2>4. QED BY <1>1, <2>1, <2>3 DEF CountInv, CountOK, Looping, InBatch
<1> HIDE DEF b, c
<1>7. ASSUME NEW T
      PROVE  /\ Number(T, ScanStart, c)
                  = Number(T, ScanStart, sector) + Number(T, sector, b) + Number(T, b, c)
             /\ Number(T, ScanStart, sector) \in Nat /\ Number(T, sector, b) \in Nat
             /\ Number(T, b, c) \in Nat
             /\ (\A x \in b..(c - 1) : x \in T) => Number(T, b, c) = c - b
             /\ (\A x \in b..(c - 1) : x \notin T) => Number(T, b, c) = 0
  <2>1. /\ Number(T, ScanStart, c)
             = Number(T, ScanStart, sector) + Number(T, sector, b) + Number(T, b, c)
        /\ Number(T, ScanStart, sector) \in Nat /\ Number(T, sector, b) \in Nat
        /\ Number(T, b, c) \in Nat
    BY <1>2, <1>4, NumberParts
  <2>2. /\ (\A x \in b..(c - 1) : x \in T) => Number(T, b, c) = c - b
        /\ (\A x \in b..(c - 1) : x \notin T) => Number(T, b, c) = 0
    BY <1>4, NumberAll
  <2>3. QED BY <2>1, <2>2
<1>8. /\ Number(CutOff, b, c) = c - b /\ Number(MustBeBad, b, c) = 0
  <2>1. \A x \in b..(c - 1) : x \in CutOff /\ x \notin MustBeBad
    BY <1>5 DEF CutOff, MustBeBad
  <2>2. QED BY <1>7, <2>1
<1>9. /\ Number(dead \cup Flaky, sector, b) <= Number(MayBeBad, sector, b)
      /\ Number(MustBeBad, sector, b) <= Number(dead, sector, b)
      /\ Number(dead \cup Flaky, sector, b) \in Nat /\ Number(dead, sector, b) \in Nat
  <2>1. \A x \in sector..(b - 1) : x \in Nat
    BY <1>2, <1>4
  <2>2. QED BY <1>2, <1>4, <2>1, NumberMore, NumberType DEF MayBeBad, MustBeBad
<1>10. MinOf(sector', end) = c /\ sector' >= ScanStart
  BY <1>1, <1>2 DEF c
<1>11. scanned' <= MinOf(sector', MaxOf(end, ScanStart))
  <2>1. scanned' <= sector + count /\ sector + count <= end /\ sector + count <= sector'
    BY <1>1, <1>2, <1>3, <1>6
  <2>2. sector' \in Nat /\ scanned' \in Nat
    BY <1>1, <1>2
  <2>3. QED BY <1>2, <2>1, <2>2 DEF MinOf, MaxOf
<1>12. c - scanned' <= Number(CutOff, ScanStart, c)
  <2>1. c - scanned' = (sector - scanned) + (c - b)
    BY <1>1, <1>2, <1>4 DEF b
  <2>2. QED BY <1>2, <1>4, <1>6, <1>7, <1>8, <2>1
<1>13. ASSUME Isolates, ~stop
       PROVE  badHit' <= Number(MayBeBad, ScanStart, c)
  <2>1. /\ Number(MayBeBad, ScanStart, c)
             = Number(MayBeBad, ScanStart, sector) + Number(MayBeBad, sector, b)
               + Number(MayBeBad, b, c)
        /\ Number(MayBeBad, ScanStart, sector) \in Nat
        /\ Number(MayBeBad, sector, b) \in Nat /\ Number(MayBeBad, b, c) \in Nat
    BY <1>7
  <2>2. /\ badHit <= Number(MayBeBad, ScanStart, sector)
        /\ bads <= Number(MayBeBad, sector, b)
    BY <1>2, <1>6, <1>9, <1>13, <2>1
  <2>3. QED BY <1>1, <1>2, <2>1, <2>2
<1>14. ASSUME Isolates, ~stop
       PROVE  Number(MustBeBad, ScanStart, c) <= badHit'
  <2>1. /\ Number(MustBeBad, ScanStart, c)
             = Number(MustBeBad, ScanStart, sector) + Number(MustBeBad, sector, b)
        /\ Number(MustBeBad, ScanStart, sector) \in Nat
        /\ Number(MustBeBad, sector, b) \in Nat
    BY <1>7, <1>8
  <2>2. /\ Number(MustBeBad, ScanStart, sector) <= badHit
        /\ Number(MustBeBad, sector, b) <= bads
    BY <1>2, <1>6, <1>9, <1>14, <2>1
  <2>3. QED BY <1>1, <1>2, <2>1, <2>2
<1>15. QED BY <1>1, <1>10, <1>11, <1>12, <1>13, <1>14, CountFrom DEF InBatch

LEMMA CountSkip ==
  ASSUME CountInv, AdaptiveSkip
  PROVE  CountOK'
<1> DEFINE c == sector + Skipped
<1>1. /\ pc = "skip" /\ pc' = "loop" /\ todo = <<>> /\ sector < end /\ IInv
      /\ scanned' = scanned + Skipped /\ badHit' = badHit + Skipped
      /\ sector' = c /\ UNCHANGED <<callVars, stop>>
      /\ count = BatchCount /\ bads = count /\ MissInv
  BY DEF AdaptiveSkip, SkipTarget, CountInv, MissInv, MissOK, InBatch, IInv, BatchOK
<1>2. /\ sector \in Nat /\ count \in Nat /\ end \in Nat
      /\ scanned \in Nat /\ badHit \in Nat /\ ScanStart \in Nat
      /\ Batch \in Nat \ {0} /\ ScanStart <= sector
      /\ SkipLen \in Nat /\ SkipLen <= Batch
  BY <1>1, CountNat DEF CountInv, CountOK
<1>3. Skipped \in Nat /\ Skipped <= Batch /\ Skipped <= end - sector
  BY <1>1, <1>2 DEF Skipped, MinOf
<1>4. c \in Nat /\ sector <= c /\ c <= end /\ c <= sector + Batch /\ c - sector = Skipped
  BY <1>1, <1>2, <1>3
<1>5. ASSUME Isolates, ~stop PROVE \A x \in sector..(c - 1) : x \in MayBeBad
  <2>1. SUFFICES ASSUME NEW x \in sector..(c - 1) PROVE x \in MayBeBad
    OBVIOUS
  <2>2. x \in Nat /\ sector <= x /\ x < sector + Batch /\ x < end
    BY <1>2, <1>4
  <2>3. CASE x < sector + count
    <3>1. AllBad
      BY <1>1, <1>5, MissHolds
    <3>2. x \in dead \cup Flaky
      BY <1>1, <1>2, <2>2, <2>3, <3>1 DEF AllBad, Upto
    <3>3. QED BY <2>2, <3>2 DEF MayBeBad
  <2>4. CASE sector + count <= x
    BY <1>1, <2>2, <2>4, LeftOutIsCut DEF MayBeBad
  <2>5. QED BY <1>2, <2>2, <2>3, <2>4
<1>6. /\ scanned <= sector
      /\ sector - scanned <= Number(CutOff, ScanStart, sector)
      /\ (Isolates /\ ~stop) =>
           /\ badHit <= Number(MayBeBad, ScanStart, sector)
           /\ Number(MustBeBad, ScanStart, sector) <= badHit
  <2>1. MinOf(sector, end) = sector
    BY <1>1, <1>2 DEF MinOf
  <2>2. scanned <= sector
    <3>1. MaxOf(end, ScanStart) \in Nat
      BY <1>2 DEF MaxOf
    <3>2. scanned <= MinOf(sector, MaxOf(end, ScanStart))
      BY <1>1 DEF CountInv, CountOK, Looping, InBatch
    <3>3. QED BY <1>2, <3>1, <3>2 DEF MinOf
  <2>3. QED BY <1>1, <2>1, <2>2 DEF CountInv, CountOK, Looping, InBatch
<1> HIDE DEF c
<1>7. ASSUME NEW T
      PROVE  /\ Number(T, ScanStart, c) = Number(T, ScanStart, sector) + Number(T, sector, c)
             /\ Number(T, ScanStart, sector) \in Nat /\ Number(T, sector, c) \in Nat
             /\ Number(T, sector, c) <= Skipped
             /\ (\A x \in sector..(c - 1) : x \in T) => Number(T, sector, c) = Skipped
  BY <1>2, <1>4, NumberAdds, NumberType, NumberAll
<1>8. MinOf(sector', end) = c /\ sector' >= ScanStart
  BY <1>1, <1>2, <1>4 DEF MinOf
<1>9. scanned' <= MinOf(sector', MaxOf(end, ScanStart))
  <2>1. scanned' <= c
    BY <1>1, <1>2, <1>3, <1>4, <1>6
  <2>2. QED BY <1>1, <1>2, <1>4, <2>1 DEF MinOf, MaxOf
<1>10. c - scanned' <= Number(CutOff, ScanStart, c)
  BY <1>1, <1>2, <1>3, <1>4, <1>6, <1>7
<1>11. ASSUME Isolates, ~stop
       PROVE  badHit' <= Number(MayBeBad, ScanStart, c)
  <2>1. Number(MayBeBad, sector, c) = Skipped
    BY <1>5, <1>7, <1>11
  <2>2. QED BY <1>1, <1>2, <1>3, <1>6, <1>7, <1>11, <2>1
<1>12. ASSUME Isolates, ~stop
       PROVE  Number(MustBeBad, ScanStart, c) <= badHit'
  BY <1>1, <1>2, <1>3, <1>6, <1>7, <1>12
<1>13. QED BY <1>1, <1>8, <1>9, <1>10, <1>11, <1>12, CountFrom DEF InBatch

LEMMA CountStep == CountInv /\ [Next]_vars => CountInv'
<1>1. SUFFICES ASSUME CountInv, [Next]_vars PROVE CountOK'
  BY MissStep DEF CountInv
<1>2. ASSUME Scan PROVE CountOK'
  BY <1>1, <1>2, CountRange, CountSplit, CountSkipped, CountNextBatch,
     CountBatchEnds, CountSkip, CountRest DEF Scan
<1>3. QED BY <1>1, <1>2, CountRest DEF Next

\* The position a resume starts from is never ahead of what was read and
\* behind it only by what the cast to 32 bits took from a batch, and the count
\* of bad sectors is neither lost nor doubled where an adaptive skip goes back
\* into the batch it follows.
THEOREM ProgressExact == Spec => []ProgressIsExact
<1>1. Init => CountInv
  <2>1. SUFFICES ASSUME Init PROVE CountInv
    OBVIOUS
  <2>2. /\ sector = ScanStart /\ scanned = ScanStart /\ badHit = 0 /\ pc = "loop"
        /\ ScanStart \in Nat /\ end \in Nat
    BY <2>1, InitInv DEF Init, IInv, TypeOK, CallOK
  <2>3. MissInv
    BY <2>1, MissInit
  <2>4. MinOf(ScanStart, end) \in Nat /\ MinOf(ScanStart, end) <= ScanStart
        /\ ScanStart <= MinOf(ScanStart, MaxOf(end, ScanStart))
    BY <2>2 DEF MinOf, MaxOf
  <2>5. ASSUME NEW T PROVE Number(T, ScanStart, MinOf(ScanStart, end)) = 0
    <3>1. Within(T, ScanStart, MinOf(ScanStart, end)) = {}
      BY <2>2, <2>4 DEF Within
    <3>2. QED BY <3>1, FS_EmptySet DEF Number
  <2>6. CountOK
    BY <2>2, <2>4, <2>5 DEF CountOK, InBatch
  <2>7. QED BY <2>3, <2>6 DEF CountInv
<1>2. CountInv => ProgressIsExact
  <2>1. SUFFICES ASSUME CountInv, pc = "loop", ~stop PROVE ProgressIsExact
    BY DEF ProgressIsExact
  <2>2. \A x \in Behind : x \in Nat
    <3>1. ScanStart \in Nat /\ sector \in Nat /\ end \in Nat
      BY <2>1, CountNat DEF CountInv, MissInv
    <3>2. QED BY <3>1 DEF Behind, MinOf
  <2>3. /\ {x \in Behind : Cut(x)} = Within(CutOff, ScanStart, MinOf(sector, end))
        /\ {x \in Behind : x \in dead \cup Flaky \/ Cut(x)}
             = Within(MayBeBad, ScanStart, MinOf(sector, end))
        /\ {x \in Behind \cap dead : ~Cut(x)}
             = Within(MustBeBad, ScanStart, MinOf(sector, end))
    BY <2>2 DEF Within, Behind, CutOff, MayBeBad, MustBeBad
  <2>4. CountOK
    BY <2>1 DEF CountInv
  <2>5. QED BY <2>1, <2>3, <2>4 DEF ProgressIsExact, CountOK, Looping, Isolates, Number
<1>3. QED BY <1>1, <1>2, CountStep, PTL DEF Spec

----------------------------------------------------------------------------
(* Every file that is found is reported once.                              *)

\* A file that is one range, however many fragments it was merged from, and
\* that holds the headers it was found by.
Whole(f) ==
  LET t == f.frags
  IN /\ \A n \in 2..Len(t) : t[n][1] = t[n - 1][1] + t[n - 1][2]
     /\ \A n \in 1..Len(t) : t[n][1] + t[n][2] <= LastSector(f)
     /\ LastSector(f) = t[Len(t)][1] + t[Len(t)][2]
     /\ \A x \in f.starts : t[1][1] <= x /\ x < LastSector(f)

Begin(f) == f.frags[1][1]

\* The headers of the files of a sequence, no two of which share one.
Starts(s) == UNION {s[k].starts : k \in DOMAIN s}
Distinct(s) == \A k, l \in DOMAIN s : k # l => s[k].starts \cap s[l].starts = {}

\* One after the other on the disk.
InOrder(s) == \A k \in 1..(Len(s) - 1) : LastSector(s[k]) <= Begin(s[k + 1])

\* The file has all of what was found, or a file of the sequence has.
Holds(f, r) == r.from \in f.starts /\ r.from >= Begin(f) /\ r.upto <= LastSector(f)
Has(s, r) == \E k \in DOMAIN s : Holds(s[k], r)

\* The scan-and-recover manager does not take this.
Failed(r) == reader.app = "recover" /\ r.level # 0

OnceOK ==
  /\ pc \in {"report", "done"} => videos = <<>>
  /\ pc = "done" => merged = <<>>
  /\ Distinct(taken) /\ Distinct(merged) /\ Distinct(videos)
  /\ Starts(taken) \cap Starts(merged) = {} /\ Starts(taken) \cap Starts(videos) = {}
  /\ Starts(merged) \cap Starts(videos) = {}
  /\ InOrder(videos)
  /\ (merged # <<>> /\ videos # <<>>) => LastSector(Last) <= Begin(videos[1])
  /\ ~stop =>
       \A r \in found :
         \/ Failed(r)
         \/ Has(taken, r)
         \/ reader.app # "recover" /\ (Has(merged, r) \/ Has(videos, r))

\* The whole files that end before what is claimed.
Before(c) == {f \in File : Whole(f) /\ LastSector(f) <= c}

OnceInv ==
  /\ MissInv /\ OnceOK
  /\ videos \in Seq(Before(claimed)) /\ merged \in Seq(Before(claimed))
  /\ taken \in Seq(Before(claimed))
  /\ \A r \in found : r.upto <= claimed

LEMMA FileAtWhole ==
  ASSUME NEW s \in Nat, NEW c \in Headers, NEW up
  PROVE  /\ Whole(FileAt(s, c, up)) /\ Begin(FileAt(s, c, up)) = s
         /\ s < LastSector(FileAt(s, c, up))
         /\ c \in Videos => FileAt(s, c, up).level # 0
<1> DEFINE f == FileAt(s, c, up)
<1>1. PICK n \in Nat \ {0} : f.frags = <<<<s, n>>>> /\ LastSector(f) = s + n
  BY FileAtLength
<1>2. f.starts = {s}
  BY FileAtType
<1>3. c \in Videos => f.level # 0
  <2>1. SUFFICES ASSUME c \in Videos PROVE f.level # 0
    OBVIOUS
  <2>2. c \notin Images /\ c \notin Ended
    BY <2>1, DiskAssumption DEF Videos, Images
  <2>3. f.level = Level(HeaderOk(s, up), FALSE, Confidence[c])
    BY <2>2 DEF FileAt, HasFooter
  <2> HIDE DEF f
  <2>4. QED BY <2>3 DEF Level
<1> HIDE DEF f
<1>4. Len(f.frags) = 1 /\ f.frags[1] = <<s, n>> /\ f.frags[1][1] = s /\ f.frags[1][2] = n
  BY <1>1
<1>5. Whole(f) /\ Begin(f) = s
  BY <1>1, <1>2, <1>4 DEF Whole, Begin
<1>6. QED BY <1>1, <1>3, <1>5 DEF f

LEMMA LastSectorIs ==
  ASSUME NEW f \in File, NEW d \in Nat,
         \A k \in 1..Len(f.frags) : f.frags[k][1] + f.frags[k][2] <= d,
         f.frags[Len(f.frags)][1] + f.frags[Len(f.frags)][2] = d
  PROVE  LastSector(f) = d
<1> DEFINE t == f.frags
           E == {g[1] + g[2] : g \in {t[k] : k \in DOMAIN t}}
<1>1. t \in Seq(Ranges) /\ t # <<>>
  BY FileFields
<1>2. DOMAIN t = 1..Len(t) /\ Len(t) \in Nat \ {0}
  BY <1>1, LenProperties, EmptySeq
<1>3. \A k \in 1..Len(t) : t[k][1] + t[k][2] \in 0..d
  BY <1>1, RangeType
<1>4. t[Len(t)][1] + t[Len(t)][2] = d
  OBVIOUS
<1> HIDE DEF t
<1>5. E \in SUBSET (0..d) /\ d \in E
  BY <1>2, <1>3, <1>4
<1> HIDE DEF E
<1>6. Max(E) \in 0..d /\ d <= Max(E)
  BY <1>5, MaxNat
<1>7. Max(E) = d
  BY <1>6
<1>8. QED BY <1>7 DEF LastSector, E, t

LEMMA BeginType ==
  ASSUME NEW f \in File, Whole(f)
  PROVE  /\ Begin(f) \in Nat /\ LastSector(f) \in Nat /\ Begin(f) <= LastSector(f)
         /\ f.frags \in Seq(Ranges) /\ Len(f.frags) \in Nat \ {0}
         /\ \A x \in f.starts : x \in Nat
<1>1. f.frags \in Seq(Ranges) /\ f.frags # <<>> /\ f.starts \in SUBSET Nat
  BY FileFields
<1>2. Len(f.frags) \in Nat \ {0}
  BY <1>1, LenProperties, EmptySeq
<1>3. 1 \in 1..Len(f.frags)
  BY <1>2
<1>4. f.frags[1][1] \in Nat /\ f.frags[1][2] \in Nat
  BY <1>1, <1>3, RangeType
<1>5. f.frags[1][1] + f.frags[1][2] <= LastSector(f) /\ LastSector(f) \in Nat
  BY <1>3, LastSectorType DEF Whole
<1>6. QED BY <1>1, <1>2, <1>4, <1>5 DEF Begin

\* Where a video follows another, the two and the gap between them are whole.
LEMMA JoinedWhole ==
  ASSUME NEW f \in File, NEW g \in File, Whole(f), Whole(g), LastSector(f) <= Begin(g)
  PROVE  LET h == Joined(f, g)
         IN  /\ h \in File /\ Whole(h) /\ Begin(h) = Begin(f)
             /\ LastSector(h) = LastSector(g) /\ h.starts = f.starts \cup g.starts
<1> DEFINE s == f.frags
           t == g.frags
           e == LastSector(f)
           d == LastSector(g)
           b == Begin(g)
           gap == Between(f, g)
           h == IF gap > 0 THEN Append(s, <<e, gap>>) ELSE s
           u == h \o t
           J == Joined(f, g)
<1>1. /\ s \in Seq(Ranges) /\ t \in Seq(Ranges)
      /\ Len(s) \in Nat \ {0} /\ Len(t) \in Nat \ {0}
      /\ e \in Nat /\ d \in Nat /\ b \in Nat /\ b <= d /\ e <= b
      /\ Begin(f) \in Nat /\ Begin(f) <= e
      /\ (\A x \in f.starts : x \in Nat) /\ (\A x \in g.starts : x \in Nat)
  BY BeginType
<1>2. gap = b - e /\ gap \in Nat
  BY <1>1 DEF Between, Begin, MaxOf
<1>3. /\ \A n \in 2..Len(s) : s[n][1] = s[n - 1][1] + s[n - 1][2]
      /\ \A n \in 1..Len(s) : s[n][1] + s[n][2] <= e
      /\ e = s[Len(s)][1] + s[Len(s)][2]
      /\ \A x \in f.starts : s[1][1] <= x /\ x < e
  BY DEF Whole
<1>4. /\ \A n \in 2..Len(t) : t[n][1] = t[n - 1][1] + t[n - 1][2]
      /\ \A n \in 1..Len(t) : t[n][1] + t[n][2] <= d
      /\ d = t[Len(t)][1] + t[Len(t)][2]
      /\ \A x \in g.starts : t[1][1] <= x /\ x < d
      /\ t[1][1] = b /\ s[1][1] = Begin(f)
  BY DEF Whole, Begin
<1>5. J \in File /\ J.starts = f.starts \cup g.starts /\ J.frags = u
  BY JoinedType DEF Joined
<1> HIDE DEF s, t, e, d, b, gap, J
<1> DEFINE p == Len(h)
<1>6. /\ h \in Seq(Ranges) /\ p \in Nat \ {0} /\ h[1] = s[1]
      /\ \A n \in 2..p : h[n][1] = h[n - 1][1] + h[n - 1][2]
      /\ \A n \in 1..p : h[n][1] + h[n][2] <= b
      /\ h[p][1] + h[p][2] = b
  <2>1. CASE gap > 0
    <3> DEFINE a == <<e, gap>>
    <3>1. a \in Ranges /\ a[1] = e /\ a[2] = gap
      BY <1>1, <1>2 DEF Ranges
    <3>2. /\ h \in Seq(Ranges) /\ p = Len(s) + 1 /\ h[Len(s) + 1] = a
          /\ \A i \in 1..Len(s) : h[i] = s[i]
      BY <1>1, <2>1, <3>1, AppendProperties
    <3> HIDE DEF h, a
    <3>3. h[1] = s[1]
      BY <1>1, <3>2
    <3>4. ASSUME NEW n \in 2..p PROVE h[n][1] = h[n - 1][1] + h[n - 1][2]
      <4>1. CASE n = p
        <5>1. h[n] = a /\ h[n - 1] = s[Len(s)]
          BY <1>1, <3>2, <4>1
        <5>2. QED BY <1>3, <3>1, <5>1
      <4>2. CASE n # p
        <5>1. n \in 2..Len(s) /\ h[n] = s[n] /\ h[n - 1] = s[n - 1]
          BY <1>1, <3>2, <4>2
        <5>2. QED BY <1>3, <5>1
      <4>3. QED BY <4>1, <4>2
    <3>5. h[p][1] + h[p][2] = b
      BY <1>1, <1>2, <3>1, <3>2
    <3>6. ASSUME NEW n \in 1..p PROVE h[n][1] + h[n][2] <= b
      <4>1. CASE n = p
        BY <1>1, <3>5, <4>1
      <4>2. CASE n # p
        <5>1. n \in 1..Len(s) /\ h[n] = s[n]
          BY <1>1, <3>2, <4>2
        <5>2. s[n][1] \in Nat /\ s[n][2] \in Nat
          BY <1>1, <5>1, RangeType
        <5>3. QED BY <1>1, <1>3, <5>1, <5>2
      <4>3. QED BY <4>1, <4>2
    <3>7. QED BY <1>1, <3>2, <3>3, <3>4, <3>5, <3>6
  <2>2. CASE gap = 0
    <3>1. h = s /\ e = b
      BY <1>1, <1>2, <2>2
    <3>2. QED BY <1>1, <1>3, <3>1
  <2>3. QED BY <1>2, <2>1, <2>2
<1> HIDE DEF h
<1>7. /\ u \in Seq(Ranges) /\ Len(u) = p + Len(t)
      /\ \A i \in 1..(p + Len(t)) : u[i] = IF i <= p THEN h[i] ELSE t[i - p]
  BY <1>1, <1>6, ConcatProperties, Zenon
<1> HIDE DEF u, p
<1>8. /\ \A i \in 1..p : u[i] = h[i]
      /\ \A i \in 1..Len(t) : u[p + i] = t[i]
  BY <1>1, <1>6, <1>7
<1>9. ASSUME NEW n \in 2..Len(u) PROVE u[n][1] = u[n - 1][1] + u[n - 1][2]
  <2>1. CASE n <= p
    <3>1. n \in 2..p /\ u[n] = h[n] /\ u[n - 1] = h[n - 1]
      BY <1>1, <1>6, <1>8, <2>1
    <3>2. QED BY <1>6, <3>1
  <2>2. CASE n = p + 1
    <3>1. u[n] = t[1] /\ u[n - 1] = h[p]
      <4>1. p \in 1..p /\ 1 \in 1..Len(t) /\ n - 1 = p
        BY <1>1, <1>6, <2>2
      <4>2. u[p] = h[p] /\ u[p + 1] = t[1]
        BY <1>8, <4>1
      <4>3. QED BY <2>2, <4>1, <4>2
    <3>2. QED BY <1>4, <1>6, <3>1
  <2>3. CASE n > p + 1
    <3>0. n \in Nat /\ p \in Nat /\ Len(t) \in Nat /\ n <= p + Len(t)
      BY <1>1, <1>6, <1>7
    <3>1. n - p \in 2..Len(t) /\ (n - p) - 1 \in 1..Len(t)
          /\ p + (n - p) = n /\ p + ((n - p) - 1) = n - 1
      BY <2>3, <3>0
    <3>2. u[n] = t[n - p] /\ u[n - 1] = t[(n - p) - 1]
      BY <1>1, <1>8, <3>1
    <3>3. QED BY <1>4, <3>1, <3>2
  <2>4. QED BY <1>6, <2>1, <2>2, <2>3
<1>10. ASSUME NEW n \in 1..Len(u) PROVE u[n][1] + u[n][2] <= d
  <2>1. u[n][1] \in Nat /\ u[n][2] \in Nat
    BY <1>7, RangeType
  <2>2. CASE n <= p
    <3>1. n \in 1..p /\ u[n] = h[n]
      BY <1>1, <1>6, <1>8, <2>2
    <3>2. QED BY <1>1, <1>6, <2>1, <3>1
  <2>3. CASE n > p
    <3>1. n - p \in 1..Len(t) /\ p + (n - p) = n
      BY <1>1, <1>6, <1>7, <2>3
    <3>2. QED BY <1>4, <1>8, <3>1
  <2>4. QED BY <1>6, <2>2, <2>3
<1>11. u[Len(u)] = t[Len(t)] /\ u[1] = s[1]
  <2>1. Len(t) \in 1..Len(t) /\ 1 \in 1..p
    BY <1>1, <1>6
  <2>2. QED BY <1>6, <1>7, <1>8, <2>1
<1>12. LastSector(J) = d
  BY <1>1, <1>4, <1>5, <1>10, <1>11, LastSectorIs
<1>13. \A x \in J.starts : u[1][1] <= x /\ x < d
  BY <1>1, <1>3, <1>4, <1>5, <1>11
<1>14. Whole(J)
  BY <1>4, <1>5, <1>9, <1>10, <1>11, <1>12, <1>13 DEF Whole
<1>15. Begin(J) = Begin(f)
  BY <1>4, <1>5, <1>11 DEF Begin
<1>16. QED BY <1>5, <1>12, <1>14, <1>15 DEF J, d

LEMMA AppendStarts ==
  ASSUME NEW s \in Seq(File), NEW f \in File
  PROVE  /\ Starts(Append(s, f)) = Starts(s) \cup f.starts
         /\ (Distinct(s) /\ f.starts \cap Starts(s) = {}) => Distinct(Append(s, f))
         /\ \A r : Has(s, r) \/ Holds(f, r) => Has(Append(s, f), r)
<1> DEFINE t == Append(s, f)
<1>1. /\ t \in Seq(File) /\ Len(t) = Len(s) + 1 /\ Len(s) \in Nat
      /\ \A i \in 1..Len(s) : t[i] = s[i]
      /\ t[Len(s) + 1] = f
  BY AppendProperties, LenProperties
<1> HIDE DEF t
<1>2. DOMAIN s = 1..Len(s) /\ DOMAIN t = 1..(Len(s) + 1)
  BY <1>1, LenProperties
<1>3. \A k \in DOMAIN t : (k \in DOMAIN s /\ t[k] = s[k]) \/ (k = Len(s) + 1 /\ t[k] = f)
  BY <1>1, <1>2
<1>4. \A k \in DOMAIN s : k \in DOMAIN t /\ t[k] = s[k]
  BY <1>1, <1>2
<1>5. Len(s) + 1 \in DOMAIN t
  BY <1>1, <1>2
<1>6. Starts(t) = Starts(s) \cup f.starts
  BY <1>1, <1>3, <1>4, <1>5 DEF Starts
<1>7. (Distinct(s) /\ f.starts \cap Starts(s) = {}) => Distinct(t)
  <2>1. SUFFICES ASSUME Distinct(s), f.starts \cap Starts(s) = {},
                        NEW k \in DOMAIN t, NEW l \in DOMAIN t, k # l
                 PROVE  t[k].starts \cap t[l].starts = {}
    BY DEF Distinct
  <2>2. \A i \in DOMAIN s : s[i].starts \cap f.starts = {}
    BY <2>1 DEF Starts
  <2>3. QED BY <1>3, <2>1, <2>2 DEF Distinct
<1>8. \A r : Has(s, r) \/ Holds(f, r) => Has(t, r)
  BY <1>1, <1>4, <1>5 DEF Has
<1>9. QED BY <1>6, <1>7, <1>8 DEF t

LEMMA TailStarts ==
  ASSUME NEW s \in Seq(File), s # <<>>
  PROVE  /\ Starts(s) = Head(s).starts \cup Starts(Tail(s))
         /\ Distinct(s) => Distinct(Tail(s)) /\ Head(s).starts \cap Starts(Tail(s)) = {}
         /\ \A r : Has(s, r) => Holds(Head(s), r) \/ Has(Tail(s), r)
<1> DEFINE t == Tail(s)
<1>1. /\ t \in Seq(File) /\ Len(t) = Len(s) - 1 /\ Len(s) \in Nat \ {0}
      /\ \A i \in 1..Len(t) : t[i] = s[i + 1]
      /\ Head(s) = s[1]
  BY HeadTailProperties, EmptySeq
<1> HIDE DEF t
<1>2. DOMAIN s = 1..Len(s) /\ DOMAIN t = 1..(Len(s) - 1)
  BY <1>1, LenProperties
<1>3. \A k \in DOMAIN t : k + 1 \in DOMAIN s /\ k + 1 # 1 /\ t[k] = s[k + 1]
  BY <1>1, <1>2
<1>4. \A k \in DOMAIN s : k = 1 \/ (k - 1 \in DOMAIN t /\ t[k - 1] = s[k])
  <2>1. SUFFICES ASSUME NEW k \in DOMAIN s, k # 1
                 PROVE  k - 1 \in DOMAIN t /\ t[k - 1] = s[k]
    OBVIOUS
  <2>2. k - 1 \in 1..Len(t) /\ (k - 1) + 1 = k
    BY <1>1, <1>2, <2>1
  <2>3. QED BY <1>1, <1>2, <2>2
<1>5. 1 \in DOMAIN s
  BY <1>1, <1>2
<1>6. Starts(s) = s[1].starts \cup Starts(t)
  BY <1>3, <1>4, <1>5 DEF Starts
<1>7. ASSUME Distinct(s) PROVE Distinct(t) /\ s[1].starts \cap Starts(t) = {}
  <2>1. \A k, l \in DOMAIN t : k # l => k + 1 # l + 1
    BY <1>2
  <2>2. Distinct(t)
    BY <1>3, <1>7, <2>1 DEF Distinct
  <2>3. \A k \in DOMAIN t : s[1].starts \cap t[k].starts = {}
    BY <1>3, <1>5, <1>7 DEF Distinct
  <2>4. QED BY <2>2, <2>3 DEF Starts
<1>8. \A r : Has(s, r) => Holds(s[1], r) \/ Has(t, r)
  BY <1>4 DEF Has
<1>9. QED BY <1>1, <1>6, <1>7, <1>8 DEF t

LEMMA LastStarts ==
  ASSUME NEW s \in Seq(File), s # <<>>, NEW h \in File, NEW T,
         h.starts = s[Len(s)].starts \cup T, T \cap Starts(s) = {}
  PROVE  LET t == [s EXCEPT ![Len(s)] = h]
         IN  /\ Starts(t) = Starts(s) \cup T
             /\ Distinct(s) => Distinct(t)
             /\ \A r : (Holds(s[Len(s)], r) => Holds(h, r)) /\ Has(s, r) => Has(t, r)
             /\ \A r : Holds(h, r) => Has(t, r)
             /\ t # <<>> /\ t[Len(t)] = h
<1> DEFINE t == [s EXCEPT ![Len(s)] = h]
           n == Len(s)
<1>1. n \in Nat \ {0} /\ n \in 1..n /\ DOMAIN s = 1..n
  BY EmptySeq, LenProperties
<1>2. /\ t \in Seq(File) /\ Len(t) = n /\ t[n] = h
      /\ \A k \in 1..n : t[k] = IF k = n THEN h ELSE s[k]
  BY <1>1, ExceptSeq
<1> HIDE DEF t, n
<1>3. DOMAIN t = DOMAIN s /\ n \in DOMAIN s /\ t # <<>>
  BY <1>1, <1>2, LenProperties, EmptySeq
<1>4. \A k \in DOMAIN s : (k = n /\ t[k] = h) \/ (k # n /\ t[k] = s[k])
  BY <1>1, <1>2
<1>5. h.starts = s[n].starts \cup T
  BY DEF n
<1>6. Starts(t) = Starts(s) \cup T
  <2>1. ASSUME NEW x \in Starts(t) PROVE x \in Starts(s) \cup T
    BY <1>3, <1>4, <1>5, <2>1 DEF Starts
  <2>2. ASSUME NEW x \in T PROVE x \in Starts(t)
    BY <1>2, <1>3, <1>5, <2>2 DEF Starts
  <2>3. ASSUME NEW x \in Starts(s) PROVE x \in Starts(t)
    <3>1. PICK k \in DOMAIN s : x \in s[k].starts
      BY <2>3 DEF Starts
    <3>2. x \in t[k].starts
      BY <1>4, <1>5, <3>1
    <3>3. QED BY <1>3, <3>2 DEF Starts
  <2>4. QED BY <2>1, <2>2, <2>3
<1>7. ASSUME Distinct(s), NEW k \in DOMAIN t, NEW l \in DOMAIN t, k # l
      PROVE  t[k].starts \cap t[l].starts = {}
  <2>1. \A i \in DOMAIN s : i # n => s[i].starts \cap h.starts = {}
    <3>1. \A i \in DOMAIN s : s[i].starts \cap T = {}
      BY DEF Starts
    <3>2. \A i \in DOMAIN s : i # n => s[i].starts \cap s[n].starts = {}
      BY <1>3, <1>7 DEF Distinct
    <3>3. QED BY <1>5, <3>1, <3>2
  <2>2. QED BY <1>3, <1>4, <1>7, <2>1 DEF Distinct
<1>8. ASSUME NEW r, Holds(s[n], r) => Holds(h, r), Has(s, r)
      PROVE  Has(t, r)
  BY <1>3, <1>4, <1>8 DEF Has
<1>9. \A r : Holds(h, r) => Has(t, r)
  BY <1>2, <1>3 DEF Has
<1>10. Distinct(s) => Distinct(t)
  BY <1>7 DEF Distinct
<1>11. t[Len(t)] = h
  BY <1>2
<1>12. QED BY <1>3, <1>6, <1>8, <1>9, <1>10, <1>11 DEF t, n

LEMMA BeforeFile ==
  ASSUME NEW c \in Nat, NEW f \in Before(c)
  PROVE  /\ f \in File /\ Whole(f) /\ Begin(f) \in Nat /\ LastSector(f) \in Nat
         /\ Begin(f) <= LastSector(f) /\ LastSector(f) <= c
         /\ \A x \in f.starts : x \in Nat /\ Begin(f) <= x /\ x < LastSector(f)
<1>1. f \in File /\ Whole(f) /\ LastSector(f) <= c
  BY DEF Before
<1>2. QED BY <1>1, BeginType DEF Whole, Begin

LEMMA SeqMore ==
  ASSUME NEW S, NEW T, S \subseteq T, NEW s \in Seq(S)
  PROVE  s \in Seq(T)
OBVIOUS

LEMMA BeforeSeq ==
  ASSUME NEW c \in Nat, NEW s \in Seq(Before(c))
  PROVE  s \in Seq(File) /\ \A x \in Starts(s) : x \in Nat /\ x < c
<1>1. s \in Seq(File)
  BY SeqMore DEF Before
<1>2. \A k \in DOMAIN s : s[k] \in Before(c)
  BY LenProperties, ElementOfSeq
<1>3. ASSUME NEW x \in Starts(s) PROVE x \in Nat /\ x < c
  <2>1. PICK k \in DOMAIN s : x \in s[k].starts
    BY DEF Starts
  <2>2. x \in Nat /\ x < LastSector(s[k]) /\ LastSector(s[k]) <= c /\ LastSector(s[k]) \in Nat
    BY <1>2, <2>1, BeforeFile
  <2>3. QED BY <2>2
<1>4. QED BY <1>1, <1>3

LEMMA AppendInOrder ==
  ASSUME NEW c \in Nat, NEW s \in Seq(Before(c)), NEW f \in File, InOrder(s), c <= Begin(f),
         Begin(f) \in Nat
  PROVE  InOrder(Append(s, f)) /\ (s # <<>> => Append(s, f)[1] = s[1])
<1> DEFINE t == Append(s, f)
<1>1. s \in Seq(File)
  BY BeforeSeq
<1>2. /\ Len(t) = Len(s) + 1 /\ Len(s) \in Nat
      /\ \A i \in 1..Len(s) : t[i] = s[i]
      /\ t[Len(s) + 1] = f
  BY <1>1, AppendProperties, LenProperties
<1> HIDE DEF t
<1>3. ASSUME NEW k \in 1..(Len(t) - 1) PROVE LastSector(t[k]) <= Begin(t[k + 1])
  <2>1. k \in 1..Len(s) /\ t[k] = s[k]
    BY <1>2
  <2>2. CASE k = Len(s)
    <3>1. s[k] \in Before(c)
      BY <2>1, ElementOfSeq
    <3>2. LastSector(s[k]) \in Nat /\ LastSector(s[k]) <= c
      BY <3>1, BeforeFile
    <3>3. t[k + 1] = f
      BY <1>2, <2>2
    <3>4. QED BY <2>1, <3>2, <3>3
  <2>3. CASE k # Len(s)
    <3>1. k \in 1..(Len(s) - 1) /\ k + 1 \in 1..Len(s)
      BY <1>2, <2>1, <2>3
    <3>2. t[k + 1] = s[k + 1]
      BY <1>2, <3>1
    <3>3. QED BY <2>1, <3>1, <3>2 DEF InOrder
  <2>4. QED BY <2>2, <2>3
<1>4. s # <<>> => t[1] = s[1]
  BY <1>1, <1>2, EmptySeq
<1>5. QED BY <1>3, <1>4 DEF InOrder, t

LEMMA TailInOrder ==
  ASSUME NEW s \in Seq(File), s # <<>>, InOrder(s)
  PROVE  InOrder(Tail(s)) /\ (Tail(s) # <<>> => LastSector(Head(s)) <= Begin(Tail(s)[1]))
<1> DEFINE t == Tail(s)
<1>1. /\ t \in Seq(File) /\ Len(t) = Len(s) - 1 /\ Len(s) \in Nat \ {0}
      /\ \A i \in 1..Len(t) : t[i] = s[i + 1]
      /\ Head(s) = s[1]
  BY HeadTailProperties, EmptySeq
<1> HIDE DEF t
<1>2. ASSUME NEW k \in 1..(Len(t) - 1) PROVE LastSector(t[k]) <= Begin(t[k + 1])
  <2>1. /\ k \in 1..Len(t) /\ k + 1 \in 1..Len(t) /\ k + 1 \in 1..(Len(s) - 1)
    BY <1>1
  <2>2. t[k] = s[k + 1] /\ t[k + 1] = s[(k + 1) + 1]
    BY <1>1, <2>1
  <2>3. QED BY <2>1, <2>2 DEF InOrder
<1>3. ASSUME t # <<>> PROVE LastSector(s[1]) <= Begin(t[1])
  <2>1. Len(t) \in Nat \ {0}
    BY <1>1, <1>3, EmptySeq
  <2>2. 1 \in 1..Len(t) /\ 1 \in 1..(Len(s) - 1)
    BY <1>1, <2>1
  <2>3. t[1] = s[1 + 1]
    BY <1>1, <2>2
  <2>4. QED BY <2>2, <2>3 DEF InOrder
<1>4. QED BY <1>1, <1>2, <1>3 DEF InOrder, t

LEMMA OnceTypes ==
  ASSUME OnceInv
  PROVE  /\ claimed \in Nat /\ found \subseteq Found
         /\ videos \in Seq(Before(claimed)) /\ videos \in Seq(File)
         /\ merged \in Seq(Before(claimed)) /\ merged \in Seq(File)
         /\ taken \in Seq(Before(claimed)) /\ taken \in Seq(File)
         /\ IInv /\ OnceOK
<1>1. claimed \in Nat
  BY DEF OnceInv, MissInv, IInv, TypeOK
<1>2. QED BY <1>1, BeforeSeq DEF OnceInv, MissInv

\* A file goes to where the accepted ones are, or nothing changes.
LEMMA AcceptedOnce ==
  ASSUME NEW c \in Nat, NEW f \in Before(c), taken \in Seq(Before(c)), OnFile(f),
         Distinct(taken), f.starts \cap Starts(taken) = {}
  PROVE  /\ taken' \in Seq(Before(c)) /\ Distinct(taken')
         /\ Starts(taken') \subseteq Starts(taken) \cup f.starts
         /\ \A r : Has(taken, r) => Has(taken', r)
         /\ Accepts(f) => \A r : Holds(f, r) => Has(taken', r)
<1>1. taken \in Seq(File) /\ f \in File
  BY BeforeSeq, BeforeFile
<1>2. CASE Accepts(f)
  <2>1. taken' = Append(taken, f)
    BY <1>2 DEF OnFile
  <2>2. Append(taken, f) \in Seq(Before(c))
    BY AppendProperties
  <2>3. QED BY <1>1, <2>1, <2>2, AppendStarts
<1>3. CASE ~Accepts(f)
  BY <1>3 DEF OnFile
<1>4. QED BY <1>2, <1>3

LEMMA EmptyStarts == Starts(<<>>) = {}
BY EmptySeq DEF Starts

\* Nothing is left to merge when the report begins, nor to report at its end.
LEMMA PhasesEnd ==
  ASSUME OnceOK, [Next]_vars, \A up : ~TakeFile(up), ~MergeNext, ~ReportMerged
  PROVE  /\ UNCHANGED claimed /\ (~stop' => ~stop)
         /\ pc' \in {"report", "done"} => videos = <<>>
         /\ pc' = "done" => merged = <<>>
<1>1. ASSUME NEW up, ReadRange(up) \/ FailSector(up) \/ SplitRange(up) \/ BatchRead(up)
      PROVE  UNCHANGED <<claimed, stop>> /\ pc' \notin {"report", "done"}
  BY <1>1 DEF ReadRange, FailSector, SplitRange, BatchRead, Reading
<1>2. CASE NextBatch \/ LoopEnds \/ StopSplit \/ SkipKnown \/ AdaptiveSkip \/ BatchEnds
  BY <1>2 DEF NextBatch, LoopEnds, StopSplit, SkipKnown, AdaptiveSkip, BatchEnds, Reading
<1>3. CASE MergeEnds \/ ScanEnds
  BY <1>3 DEF MergeEnds, ScanEnds, OnceOK
<1>4. CASE RequestStop \/ UNCHANGED vars
  BY <1>4 DEF RequestStop, vars, OnceOK
<1>5. QED BY <1>1, <1>2, <1>3, <1>4 DEF Next, Scan

LEMMA OnceStays ==
  ASSUME OnceInv, MissInv', UNCHANGED <<callVars, claimed, fileVars>>, ~stop' => ~stop,
         pc' \in {"report", "done"} => videos = <<>>, pc' = "done" => merged = <<>>
  PROVE  OnceInv'
<1>1. OnceOK'
  BY DEF OnceInv, OnceOK, Last, Failed
<1>2. QED BY <1>1 DEF OnceInv

LEMMA OnceTake ==
  ASSUME OnceInv, MissInv', NEW up, TakeFile(up)
  PROVE  OnceInv'
<1>1. /\ claimed \in Nat /\ found \subseteq Found /\ IInv /\ OnceOK
      /\ videos \in Seq(Before(claimed)) /\ videos \in Seq(File)
      /\ merged \in Seq(Before(claimed)) /\ merged \in Seq(File)
      /\ taken \in Seq(Before(claimed)) /\ taken \in Seq(File)
  BY OnceTypes
<1>2. PICK j \in Matches, f \in File :
        /\ \A i \in Matches : j <= i
        /\ j \in 0..(count - 1) /\ buf[j] \in Headers /\ sector + j \in Nat
        /\ f = FileAt(sector + j, buf[j], up)
        /\ next' = j + 1 /\ pc = "match" /\ claimed' = LastSector(f)
        /\ found' = found \cup {[from |-> sector + j, upto |-> LastSector(f),
                                 level |-> f.level]}
        /\ \/ buf[j] \in Videos /\ videos' = Append(videos, f) /\ UNCHANGED taken
           \/ buf[j] \in Images /\ OnFile(f) /\ UNCHANGED videos
        /\ UNCHANGED <<callVars, stop, pc, sector, count, todo, bads, buf, block,
                       badRun, progVars, merged>>
  BY <1>1, TakenFile
<1> DEFINE s == sector + j
           r == [from |-> s, upto |-> LastSector(f), level |-> f.level]
<1>3. claimed <= s /\ s \in Nat
  BY <1>2 DEF Matches
<1>4. /\ f \in File /\ f.starts = {s} /\ Whole(f) /\ Begin(f) = s
      /\ LastSector(f) \in Nat /\ s < LastSector(f)
      /\ buf[j] \in Videos => f.level # 0
  BY <1>2, FileAtType, FileAtWhole
<1>5. Holds(f, r) /\ r.upto = LastSector(f) /\ r.level = f.level
  BY <1>3, <1>4 DEF Holds
<1>6. found' = found \cup {r}
  BY <1>2
<1> HIDE DEF r, s
<1>7. claimed' \in Nat /\ claimed <= claimed' /\ claimed' = LastSector(f)
  BY <1>1, <1>2, <1>3, <1>4
<1>8. Before(claimed) \subseteq Before(claimed') /\ f \in Before(claimed')
  <2>1. \A g \in File : LastSector(g) \in Nat
    BY LastSectorType
  <2>2. QED BY <1>1, <1>4, <1>7, <2>1 DEF Before
<1>9. /\ videos \in Seq(Before(claimed')) /\ merged \in Seq(Before(claimed'))
      /\ taken \in Seq(Before(claimed'))
  BY <1>1, <1>8, SeqMore
<1>10. /\ f.starts \cap Starts(videos) = {} /\ f.starts \cap Starts(merged) = {}
       /\ f.starts \cap Starts(taken) = {}
  BY <1>1, <1>3, <1>4, BeforeSeq
<1>11. \A q \in found' : q.upto <= claimed'
  <2>1. \A q \in found : q.upto \in Nat /\ q.upto <= claimed
    BY <1>1 DEF Found, OnceInv
  <2>2. QED BY <1>1, <1>4, <1>5, <1>6, <1>7, <2>1
<1>12. \A q : Failed(q)' = Failed(q)
  BY <1>2 DEF Failed
<1>13. /\ Distinct(taken) /\ Distinct(merged) /\ Distinct(videos)
       /\ Starts(taken) \cap Starts(merged) = {} /\ Starts(taken) \cap Starts(videos) = {}
       /\ Starts(merged) \cap Starts(videos) = {} /\ InOrder(videos)
       /\ (merged # <<>> /\ videos # <<>>) => LastSector(Last) <= Begin(videos[1])
       /\ pc' = "match" /\ merged' = merged /\ Last' = Last /\ stop' = stop /\ reader' = reader
  BY <1>1, <1>2 DEF OnceOK, Last
<1>14. ~stop => \A q \in found : \/ Failed(q) \/ Has(taken, q)
                                 \/ reader.app # "recover" /\ (Has(merged, q) \/ Has(videos, q))
  BY <1>1 DEF OnceOK
<1>15. CASE buf[j] \in Videos /\ videos' = Append(videos, f) /\ UNCHANGED taken
  <2>1. /\ Starts(videos') = Starts(videos) \cup f.starts /\ Distinct(videos')
        /\ \A q : Has(videos, q) \/ Holds(f, q) => Has(videos', q)
    BY <1>1, <1>4, <1>10, <1>13, <1>15, AppendStarts
  <2>2. InOrder(videos') /\ (videos # <<>> => videos'[1] = videos[1])
    BY <1>1, <1>3, <1>4, <1>13, <1>15, AppendInOrder
  <2>3. (merged' # <<>> /\ videos' # <<>>) => LastSector(Last') <= Begin(videos'[1])
    <3>1. SUFFICES ASSUME merged # <<>>, videos = <<>> PROVE LastSector(Last) <= Begin(videos'[1])
      BY <1>13, <2>2
    <3>2. Len(merged) \in 1..Len(merged)
      BY <1>1, <3>1, EmptySeq
    <3>3. Last \in Before(claimed)
      BY <1>1, <3>2, ElementOfSeq DEF Last
    <3>4. LastSector(Last) \in Nat /\ LastSector(Last) <= claimed
      BY <1>1, <3>3, BeforeFile
    <3>5. videos' = <<f>>
      BY <1>15, <3>1
    <3>6. videos'[1] = f
      BY <3>5
    <3>7. QED BY <1>1, <1>3, <1>4, <3>4, <3>6
  <2>4. videos' \in Seq(Before(claimed'))
    BY <1>8, <1>9, <1>15, AppendProperties
  <2>5. Failed(r) \/ (reader.app # "recover" /\ Has(videos', r))
    BY <1>4, <1>5, <1>15, <2>1 DEF Failed
  <2>6. ~stop' => \A q \in found' : \/ Failed(q)' \/ Has(taken', q)
                                    \/ reader'.app # "recover" /\ (Has(merged', q) \/ Has(videos', q))
    BY <1>6, <1>12, <1>13, <1>14, <1>15, <2>1, <2>5
  <2>7. OnceOK'
    BY <1>13, <1>10, <1>15, <2>1, <2>2, <2>3, <2>6 DEF OnceOK
  <2>8. QED BY <1>9, <1>11, <1>13, <1>15, <2>4, <2>7 DEF OnceInv
<1>16. CASE buf[j] \in Images /\ OnFile(f) /\ UNCHANGED videos
  <2>1. /\ taken' \in Seq(Before(claimed')) /\ Distinct(taken')
        /\ Starts(taken') \subseteq Starts(taken) \cup f.starts
        /\ \A q : Has(taken, q) => Has(taken', q)
        /\ Accepts(f) => \A q : Holds(f, q) => Has(taken', q)
    BY <1>7, <1>8, <1>9, <1>10, <1>13, <1>16, AcceptedOnce
  <2>2. ~stop => Failed(r) \/ Has(taken', r)
    BY <1>5, <2>1 DEF Accepts, Failed
  <2>3. ~stop' => \A q \in found' : \/ Failed(q)' \/ Has(taken', q)
                                    \/ reader'.app # "recover" /\ (Has(merged', q) \/ Has(videos', q))
    BY <1>6, <1>12, <1>13, <1>14, <1>16, <2>1, <2>2
  <2>4. OnceOK'
    BY <1>13, <1>10, <1>16, <2>1, <2>3 DEF OnceOK
  <2>5. QED BY <1>9, <1>11, <1>13, <1>16, <2>1, <2>4 DEF OnceInv
<1>17. QED BY <1>2, <1>15, <1>16

\* What the file a video is joined to has, and the video has, the two have.
LEMMA JoinedHolds ==
  ASSUME NEW c \in Nat, NEW f \in Before(c), NEW g \in Before(c),
         LastSector(f) <= Begin(g), NEW r \in Found, Holds(f, r) \/ Holds(g, r)
  PROVE  Holds(Joined(f, g), r)
<1>1. /\ Begin(f) \in Nat /\ LastSector(f) \in Nat /\ Begin(f) <= LastSector(f)
      /\ Begin(g) \in Nat /\ LastSector(g) \in Nat /\ Begin(g) <= LastSector(g)
      /\ f \in File /\ g \in File /\ Whole(f) /\ Whole(g)
  BY BeforeFile
<1>2. r.from \in Nat /\ r.upto \in Nat
  BY DEF Found
<1>3. /\ Begin(Joined(f, g)) = Begin(f) /\ LastSector(Joined(f, g)) = LastSector(g)
      /\ Joined(f, g).starts = f.starts \cup g.starts
  BY <1>1, JoinedWhole
<1>4. CASE Holds(f, r)
  BY <1>1, <1>2, <1>3, <1>4 DEF Holds
<1>5. CASE Holds(g, r)
  BY <1>1, <1>2, <1>3, <1>5 DEF Holds
<1>6. QED BY <1>4, <1>5

LEMMA OnceMerge ==
  ASSUME OnceInv, MissInv', MergeNext
  PROVE  OnceInv'
<1> DEFINE g == Head(videos)
<1>1. /\ claimed \in Nat /\ found \subseteq Found /\ IInv /\ OnceOK
      /\ videos \in Seq(Before(claimed)) /\ videos \in Seq(File)
      /\ merged \in Seq(Before(claimed)) /\ merged \in Seq(File)
      /\ taken \in Seq(Before(claimed)) /\ taken \in Seq(File)
  BY OnceTypes
<1>2. /\ pc = "merge" /\ pc' = "merge" /\ videos # <<>> /\ videos' = Tail(videos)
      /\ merged' = IF merged # <<>> /\ Joins(Last, g)
                   THEN [merged EXCEPT ![Len(merged)] = Joined(Last, g)]
                   ELSE Append(merged, g)
      /\ UNCHANGED <<callVars, stop, claimed, taken, found>>
  BY DEF MergeNext
<1>3. /\ Distinct(taken) /\ Distinct(merged) /\ Distinct(videos)
      /\ Starts(taken) \cap Starts(merged) = {} /\ Starts(taken) \cap Starts(videos) = {}
      /\ Starts(merged) \cap Starts(videos) = {} /\ InOrder(videos)
      /\ merged # <<>> => LastSector(Last) <= Begin(videos[1])
  BY <1>1, <1>2 DEF OnceOK
<1>4. ~stop => \A q \in found : \/ Failed(q) \/ Has(taken, q)
                                \/ reader.app # "recover" /\ (Has(merged, q) \/ Has(videos, q))
  BY <1>1 DEF OnceOK
<1>5. /\ Starts(videos) = g.starts \cup Starts(videos') /\ Distinct(videos')
      /\ g.starts \cap Starts(videos') = {}
      /\ \A r : Has(videos, r) => Holds(g, r) \/ Has(videos', r)
  BY <1>1, <1>2, <1>3, TailStarts
<1>6. /\ g \in Before(claimed) /\ videos' \in Seq(Before(claimed)) /\ g = videos[1]
  BY <1>1, <1>2, HeadTailProperties
<1>7. InOrder(videos') /\ (videos' # <<>> => LastSector(g) <= Begin(videos'[1]))
  BY <1>1, <1>2, <1>3, TailInOrder
<1> HIDE DEF g
<1>8. /\ g \in File /\ Whole(g) /\ Begin(g) \in Nat
      /\ LastSector(g) \in Nat /\ LastSector(g) <= claimed
  BY <1>1, <1>6, BeforeFile
<1>9. SUFFICES /\ merged' \in Seq(Before(claimed)) /\ Distinct(merged')
               /\ Starts(merged') = Starts(merged) \cup g.starts
               /\ LastSector(Last') = LastSector(g)
               /\ \A r \in Found : Has(merged, r) \/ Holds(g, r) => Has(merged', r)
  <2>1. \A q : Failed(q)' = Failed(q)
    BY <1>2 DEF Failed
  <2>2. ~stop' => \A q \in found' : \/ Failed(q)' \/ Has(taken', q)
                                    \/ reader'.app # "recover" /\ (Has(merged', q) \/ Has(videos', q))
    BY <1>1, <1>2, <1>4, <1>5, <1>9, <2>1
  <2>3. /\ Starts(taken') \cap Starts(merged') = {} /\ Starts(taken') \cap Starts(videos') = {}
        /\ Starts(merged') \cap Starts(videos') = {}
    BY <1>2, <1>3, <1>5, <1>9
  <2>4. OnceOK'
    BY <1>2, <1>3, <1>5, <1>7, <1>9, <2>2, <2>3 DEF OnceOK
  <2>5. QED BY <1>1, <1>2, <1>6, <1>9, <2>4 DEF OnceInv
<1>10. CASE merged # <<>> /\ Joins(Last, g)
  <2> DEFINE h == Joined(Last, g)
  <2>1. Len(merged) \in 1..Len(merged)
    BY <1>1, <1>10, EmptySeq
  <2>2. Last \in Before(claimed) /\ LastSector(Last) <= Begin(g)
    BY <1>1, <1>3, <1>6, <1>10, <2>1, ElementOfSeq DEF Last
  <2>3. Last \in File /\ Whole(Last)
    BY <1>1, <2>2, BeforeFile
  <2>4. /\ h \in File /\ Whole(h) /\ LastSector(h) = LastSector(g)
        /\ h.starts = Last.starts \cup g.starts
    BY <1>8, <2>2, <2>3, JoinedWhole
  <2>5. \A r \in Found : Holds(Last, r) \/ Holds(g, r) => Holds(h, r)
    BY <1>1, <1>6, <2>2, JoinedHolds
  <2>6. merged' = [merged EXCEPT ![Len(merged)] = h]
    BY <1>2, <1>10
  <2> HIDE DEF h
  <2>7. h \in Before(claimed)
    BY <1>8, <2>4 DEF Before
  <2>8. merged' \in Seq(Before(claimed))
    BY <1>1, <2>1, <2>6, <2>7, ExceptSeq
  <2>9. /\ Starts(merged') = Starts(merged) \cup g.starts /\ Distinct(merged')
        /\ \A r : (Holds(Last, r) => Holds(h, r)) /\ Has(merged, r) => Has(merged', r)
        /\ \A r : Holds(h, r) => Has(merged', r)
        /\ merged'[Len(merged')] = h
    <3>1. g.starts \cap Starts(merged) = {} /\ h.starts = merged[Len(merged)].starts \cup g.starts
      BY <1>3, <1>5, <2>4 DEF Last
    <3>2. QED BY <1>1, <1>3, <1>10, <2>4, <2>6, <3>1, LastStarts DEF Last
  <2>10. LastSector(Last') = LastSector(g)
    BY <2>4, <2>9 DEF Last
  <2>11. QED BY <2>5, <2>8, <2>9, <2>10
<1>11. CASE ~(merged # <<>> /\ Joins(Last, g))
  <2>1. merged' = Append(merged, g)
    BY <1>2, <1>11
  <2>2. /\ merged' \in Seq(Before(claimed)) /\ merged'[Len(merged')] = g
    BY <1>1, <1>6, <2>1, AppendProperties
  <2>3. /\ Starts(merged') = Starts(merged) \cup g.starts /\ Distinct(merged')
        /\ \A r : Has(merged, r) \/ Holds(g, r) => Has(merged', r)
    BY <1>1, <1>3, <1>5, <1>8, <2>1, AppendStarts
  <2>4. LastSector(Last') = LastSector(g)
    BY <2>2 DEF Last
  <2>5. QED BY <2>2, <2>3, <2>4
<1>12. QED BY <1>10, <1>11

LEMMA OnceReport ==
  ASSUME OnceInv, MissInv', ReportMerged
  PROVE  OnceInv'
<1> DEFINE f == Head(merged)
<1>1. /\ claimed \in Nat /\ IInv /\ OnceOK
      /\ videos \in Seq(Before(claimed))
      /\ merged \in Seq(Before(claimed)) /\ merged \in Seq(File)
      /\ taken \in Seq(Before(claimed))
  BY OnceTypes
<1>2. /\ pc = "report" /\ pc' = "report" /\ merged # <<>> /\ merged' = Tail(merged)
      /\ OnFile(f) /\ UNCHANGED <<callVars, stop, claimed, videos, found>>
  BY DEF ReportMerged
<1>3. /\ Distinct(taken) /\ Distinct(merged) /\ Distinct(videos) /\ videos = <<>>
      /\ Starts(taken) \cap Starts(merged) = {} /\ Starts(taken) \cap Starts(videos) = {}
      /\ Starts(merged) \cap Starts(videos) = {} /\ InOrder(videos)
  BY <1>1, <1>2 DEF OnceOK
<1>4. ~stop => \A q \in found : \/ Failed(q) \/ Has(taken, q)
                                \/ reader.app # "recover" /\ (Has(merged, q) \/ Has(videos, q))
  BY <1>1 DEF OnceOK
<1>5. /\ Starts(merged) = f.starts \cup Starts(merged') /\ Distinct(merged')
      /\ f.starts \cap Starts(merged') = {}
      /\ \A r : Has(merged, r) => Holds(f, r) \/ Has(merged', r)
  BY <1>1, <1>2, <1>3, TailStarts
<1>6. f \in Before(claimed) /\ merged' \in Seq(Before(claimed))
  BY <1>1, <1>2, HeadTailProperties
<1> HIDE DEF f
<1>7. /\ taken' \in Seq(Before(claimed)) /\ Distinct(taken')
      /\ Starts(taken') \subseteq Starts(taken) \cup f.starts
      /\ \A r : Has(taken, r) => Has(taken', r)
      /\ Accepts(f) => \A r : Holds(f, r) => Has(taken', r)
  <2>1. f.starts \cap Starts(taken) = {}
    BY <1>3, <1>5
  <2>2. QED BY <1>1, <1>2, <1>3, <1>6, <2>1, AcceptedOnce
<1>8. \A q : Failed(q)' = Failed(q)
  BY <1>2 DEF Failed
<1>9. (~stop /\ reader.app # "recover") => Accepts(f)
  BY DEF Accepts
<1>10. ~stop' => \A q \in found' : \/ Failed(q)' \/ Has(taken', q)
                                   \/ reader'.app # "recover" /\ (Has(merged', q) \/ Has(videos', q))
  BY <1>2, <1>4, <1>5, <1>7, <1>8, <1>9
<1>11. /\ Starts(taken') \cap Starts(merged') = {} /\ Starts(taken') \cap Starts(videos') = {}
       /\ Starts(merged') \cap Starts(videos') = {}
  BY <1>2, <1>3, <1>5, <1>7, EmptyStarts
<1>12. OnceOK'
  BY <1>2, <1>3, <1>5, <1>7, <1>10, <1>11 DEF OnceOK
<1>13. QED BY <1>1, <1>2, <1>6, <1>7, <1>12 DEF OnceInv

LEMMA OnceStep == OnceInv /\ [Next]_vars => OnceInv'
<1>1. SUFFICES ASSUME OnceInv, [Next]_vars PROVE OnceInv'
  OBVIOUS
<1>2. MissInv'
  BY <1>1, MissStep DEF OnceInv
<1>3. CASE \E up : TakeFile(up)
  BY <1>1, <1>2, <1>3, OnceTake
<1>4. CASE MergeNext \/ ReportMerged
  BY <1>1, <1>2, <1>4, OnceMerge, OnceReport
<1>5. CASE (\A up : ~TakeFile(up)) /\ ~MergeNext /\ ~ReportMerged
  <2>1. UNCHANGED fileVars
    BY <1>1, <1>5, FilesStay
  <2>2. UNCHANGED callVars
    BY <1>1, CallFixed
  <2>3. /\ UNCHANGED claimed /\ (~stop' => ~stop)
        /\ pc' \in {"report", "done"} => videos = <<>>
        /\ pc' = "done" => merged = <<>>
    BY <1>1, <1>5, PhasesEnd DEF OnceInv
  <2>4. QED BY <1>1, <1>2, <2>1, <2>2, <2>3, OnceStays
<1>6. QED BY <1>3, <1>4, <1>5

\* What the scan found is in exactly one of the files it reports, however the
\* videos are merged: those that are joined follow one another on the disk,
\* and every file begins past what was claimed before it.
THEOREM ReportedOnce == Spec => []FoundIsReportedOnce
<1>1. Init => OnceInv
  <2>1. SUFFICES ASSUME Init PROVE OnceInv
    OBVIOUS
  <2>2. /\ pc = "loop" /\ videos = <<>> /\ merged = <<>> /\ taken = <<>> /\ found = {}
        /\ MissInv
    BY <2>1, MissInit DEF Init
  <2>3. /\ DOMAIN <<>> = {} /\ Len(<<>>) = 0
    BY EmptySeq
  <2>4. Distinct(<<>>) /\ InOrder(<<>>)
    BY <2>3 DEF Distinct, InOrder
  <2>5. OnceOK
    BY <2>2, <2>4, EmptyStarts DEF OnceOK
  <2>6. QED BY <2>2, <2>5, EmptySeq DEF OnceInv
<1>2. OnceInv => FoundIsReportedOnce
  <2>1. SUFFICES ASSUME OnceInv, pc = "done", ~stop PROVE FoundIsReportedOnce
    BY DEF FoundIsReportedOnce
  <2>2. /\ taken \in Seq(Before(claimed)) /\ videos = <<>> /\ merged = <<>> /\ Distinct(taken)
        /\ \A r \in found : Failed(r) \/ Has(taken, r)
    <3>1. OnceOK /\ taken \in Seq(Before(claimed))
      BY <2>1, OnceTypes
    <3>2. \A r : ~Has(<<>>, r)
      BY EmptySeq DEF Has
    <3>3. QED BY <2>1, <3>1, <3>2 DEF OnceOK
  <2>3. ASSUME NEW r \in found, reader.app = "recover" => r.level = 0
        PROVE  Cardinality({k \in DOMAIN taken :
                  /\ r.from \in taken[k].starts
                  /\ r.from >= taken[k].frags[1][1]
                  /\ r.upto <= LastSector(taken[k])}) = 1
    <3> DEFINE K == {k \in DOMAIN taken :
                  /\ r.from \in taken[k].starts
                  /\ r.from >= taken[k].frags[1][1]
                  /\ r.upto <= LastSector(taken[k])}
    <3>1. ~Failed(r)
      BY <2>3 DEF Failed
    <3>2. PICK k \in DOMAIN taken : Holds(taken[k], r)
      BY <2>2, <3>1 DEF Has
    <3>3. k \in K
      BY <3>2 DEF Holds, Begin
    <3>4. \A l \in K : l = k
      BY <2>2, <3>3 DEF Distinct
    <3>5. K = {k}
      BY <3>3, <3>4
    <3> HIDE DEF K
    <3>6. Cardinality(K) = 1
      BY <3>5, FS_Singleton
    <3>7. QED BY <3>6 DEF K
  <2>4. ASSUME NEW k \in DOMAIN taken
        PROVE  \A n \in 2..Len(taken[k].frags) :
                 taken[k].frags[n][1] = taken[k].frags[n - 1][1] + taken[k].frags[n - 1][2]
    <3>1. taken[k] \in Before(claimed)
      BY <2>2, <2>4, LenProperties, ElementOfSeq
    <3>2. QED BY <3>1 DEF Before, Whole
  <2>5. QED BY <2>3, <2>4 DEF FoundIsReportedOnce
<1>3. QED BY <1>1, <1>2, OnceStep, PTL DEF Spec
=============================================================================
