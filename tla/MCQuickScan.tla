----------------------------- MODULE MCQuickScan -----------------------------
(* Small volumes for QuickScan: sector 0 boots, the table starts at 1, the *)
(* root directory or the MFT at 10, the data at 20.                         *)
EXTENDS QuickScan

File(short, c) ==
  [attr |-> "file", name |-> short, cluster |-> c, size |-> 1, gone |-> FALSE,
   long |-> <<>>, seq |-> 0]
Gone(e) == [e EXCEPT !.gone = TRUE]
Empty(short) == [File(short, 0) EXCEPT !.size = 0]
Dir(short, c) == [File(short, c) EXCEPT !.attr = "dir", !.size = 0]
Dots(c) == [Dir("..", c) EXCEPT !.attr = "dots"]
End == [Empty("") EXCEPT !.attr = "end"]
LongPart(n, part) == [Empty(part) EXCEPT !.attr = "lfn", !.seq = n]

\* The entries of a long name come before its file, the last part first.
Long(parts, e) ==
  Reverse([k \in DOMAIN parts |->
             [LongPart(k, parts[k]) EXCEPT !.gone = e.gone]])
    \o <<[e EXCEPT !.long = parts]>>

Volume == [fs |-> "none", boot |-> TRUE, dead |-> {}, flaky |-> {},
           table |-> 1, data |-> 20, mft |-> 10, root |-> 2,
           rootSectors |-> {10, 11}, rootEntries |-> <<>>,
           next |-> <<>>, dir |-> <<>>, records |-> <<>>]

E == 30
Clusters == 2..11
Table == (2 :> E) @@ (3 :> 4) @@ (4 :> 7) @@ (5 :> E) @@ (6 :> 1) @@ (7 :> 8)
         @@ (8 :> E) @@ (9 :> 29) @@ (10 :> 11) @@ (11 :> E)
Dirs ==
  (2 :> Long(<<"longa">>, File("a", 3)) \o <<File("b", 5), Dir("sub", 10)>>)
  @@ (10 :> <<Dots(10), Dots(2), Gone(File("d", 9)), File("c", 6)>>)
  @@ (11 :> Long(<<"longe">>, Gone(File("e", 3))) \o <<Empty("z"), File("y", 29), Dir("deep", 5), Dir("none", 0)>>)
  @@ (5 :> <<Dots(5), File("f", 8), End, File("g", 3)>>)

At(c) == Volume.data + (c - 2) * ClusterSectors
Content ==
  [s \in {At(c) : c \in Clusters} |->
     LET c == CHOOSE d \in Clusters : At(d) = s
     IN IF c \in DOMAIN Dirs THEN Dirs[c] ELSE <<End>>]
Looped == [Content EXCEPT ![At(11)] = <<Dir("back", 10)>>]
TwoParts == [Content EXCEPT ![At(10)] =
               Long(<<"first", "second">>, File("h", 3)) \o <<File("c", 6)>>]

\* Cluster 24 is too far away: its sector wraps round to that of cluster 2, the
\* one of cluster 27 to that of cluster 5.
Far == [Content EXCEPT ![At(10)] = @ \o <<Dir("far", 24)>>]
FarNext == [Table EXCEPT ![4] = 27]
\* The file "a" has a cycle, and so has "sub".
Cycle == [Table EXCEPT ![7] = 3]
DirCycle == [Table EXCEPT ![11] = 10]

Fat32(dead, flaky) ==
  [Volume EXCEPT !.fs = "fat32", !.next = Table, !.dir = Content,
                 !.dead = dead, !.flaky = flaky]
\* FAT12 and FAT16 keep their root directory outside of the clusters.
FixedRoot(fs, dead, flaky) ==
  [Fat32(dead, flaky) EXCEPT !.fs = fs, !.rootEntries = Content[At(2)]]

\* The bytes of a run offset: so many, or as few as hold it with its sign.
BytesOf(d, n) ==
  [k \in 1..n |-> ((d % (Digit ^ n)) \div (Digit ^ (k - 1))) % Digit]
Bytes(d) ==
  LET fits == {n \in 1..(WordBytes - 1) : -(Digit ^ n) <= 2 * d /\ 2 * d < Digit ^ n}
  IN BytesOf(d, CHOOSE m \in fits : \A k \in fits : m <= k)

Run(len, d) == [length |-> len, bytes |-> Bytes(d)]
Hole(len) == [length |-> len, bytes |-> <<>>]
\* The data attribute of extents that start at these clusters.
Data(at) ==
  [type |-> "data", resident |-> FALSE,
   runs |-> [k \in DOMAIN at |-> Run(k, at[k] - IF k = 1 THEN 0 ELSE at[k - 1])]]
\* The same with all the bytes there are.
WideData(at) ==
  [Data(at) EXCEPT !.runs = [k \in DOMAIN at |->
     [@[k] EXCEPT !.bytes = BytesOf(at[k] - IF k = 1 THEN 0 ELSE at[k - 1], WordBytes)]]]
Named(n) == [type |-> "name", name |-> n]
ExtentsAt(at) ==
  [k \in DOMAIN at |-> [start |-> at[k] * ClusterSectors,
                        count |-> k * ClusterSectors]]
Record(attrs, extents) ==
  [file |-> TRUE, dir |-> FALSE, inUse |-> TRUE, attrs |-> attrs,
   extents |-> extents]
Stored(n, at) == Record(<<Named(n), Data(at)>>, ExtentsAt(at))

Records ==
  << Stored("$MFT", <<10>>),
     Stored("a", <<100, 40, 7, 90>>),
     [Stored("dir", <<5>>) EXCEPT !.dir = TRUE],
     [Stored("b", <<33, 32>>) EXCEPT !.inUse = FALSE],
     Record(<<Named("c"), [type |-> "data", resident |-> TRUE]>>, <<>>),
     Record(<<Named("D~1"), Named("d"), [Data(<<60, 3>>) EXCEPT
                !.runs = @ \o <<Hole(4), Run(1, 20)>>]>>, ExtentsAt(<<60, 3>>)),
     [Stored("e", <<8>>) EXCEPT !.file = FALSE],
     Record(<<Named("f"), WideData(<<7, 90>>)>>, ExtentsAt(<<7, 90>>)),
     Record(<<Named("g"), WideData(<<90, 7>>)>>, ExtentsAt(<<90, 7>>)) >>

Ntfs(dead, flaky) ==
  [Volume EXCEPT !.fs = "ntfs", !.records = Records, !.dead = dead,
                 !.flaky = flaky]

MCVolumes ==
  {Volume, [Volume EXCEPT !.fs = "exfat"],
   [Fat32({}, {}) EXCEPT !.boot = FALSE], [Ntfs({}, {}) EXCEPT !.boot = FALSE],
   [Fat32({}, {}) EXCEPT !.dir = TwoParts],
   [Fat32({}, {26}) EXCEPT !.dir = Far], [Fat32({}, {1}) EXCEPT !.next = FarNext],
   [Fat32({}, {1}) EXCEPT !.next = Cycle], [Fat32({}, {}) EXCEPT !.next = DirCycle],
   [Fat32({}, {}) EXCEPT !.dir = Looped], [Fat32({}, {3}) EXCEPT !.dir = Looped]}
  \cup {Fat32(d, f) : d \in {{}, {1}, {3}, {4}, {20}, {36}, {38}},
                      f \in {{}, {0, 2}, {3, 6}, {26}}}
  \cup {FixedRoot(fs, d, f) : fs \in {"fat12", "fat16"},
          d \in {{}, {1}, {11}, {38}}, f \in {{}, {2}, {10}}}
  \cup {Ntfs(d, f) : d \in {{}, {10}, {12}, {15, 16}, {23}}, f \in {{}, {0}, {11, 19}}}

MCJunk == {0, 8}
=============================================================================
