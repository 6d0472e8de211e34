------------------------------ MODULE QuickScan ------------------------------
(***************************************************************************)
(* The metadata scan of scan_manager.cpp and scan_recover_manager.cpp:     *)
(* detect_filesystem chooses the parser, the parser gives its files to     *)
(* on_file, and the user may ask for a stop at any moment.  The disk has   *)
(* sectors that never answer and sectors that sometimes do.                *)
(***************************************************************************)
EXTENDS Integers, Sequences, FiniteSets, SequencesExt

CONSTANTS
  Volumes,                                    \* what the disk may hold
  SectorBytes, ClusterSectors, Word, Eoc, BadMark, CacheSize, MaxDepth,
  MaxExtents, Junk, BatchRecords, RecordSectors, FallbackCount, Digit, WordBytes

ASSUME SizesAssumption ==
  /\ {SectorBytes, ClusterSectors, Word, CacheSize, MaxExtents, BatchRecords,
      RecordSectors, FallbackCount, WordBytes} \subseteq Nat \ {0}
  /\ MaxDepth \in Nat /\ Digit \in Nat \ {0, 1}
  /\ BadMark \in Nat /\ Eoc \in Nat /\ 2 < BadMark /\ BadMark < Eoc
  /\ Junk \subseteq Nat

\* The directory entries of all the volumes.
Entries ==
  UNION {ToSet(v.rootEntries) \cup UNION {ToSet(v.dir[s]) : s \in DOMAIN v.dir} :
           v \in Volumes}

\* Of every volume: its filesystem, whether its boot sector makes sense, the
\* sectors that never answer or answer now and then, where its parts begin,
\* its table, the entries of its directories, by the sector where they begin,
\* and its records.
ASSUME VolumesAssumption ==
  \A v \in Volumes :
    /\ v.fs \in {"fat12", "fat16", "fat32", "ntfs", "exfat", "none"}
    /\ v.boot \in BOOLEAN /\ v.dead \subseteq Nat /\ v.flaky \subseteq Nat
    /\ {v.table, v.data, v.root, v.mft} \subseteq Nat
    /\ \A c \in DOMAIN v.next : v.next[c] \in Nat
    /\ v.rootEntries \in Seq(Entries)
    /\ \A s \in DOMAIN v.dir : v.dir[s] \in Seq(Entries)
    /\ v.records \in Seq(ToSet(v.records))

ASSUME EntriesAssumption ==
  \A e \in Entries : e.cluster \in Nat /\ e.long \in Seq(ToSet(e.long))

VARIABLES vol, pc, stop, files, stack, walk, cached, order,
          count, start, index

Fat == INSTANCE FatParser
Mft == INSTANCE MftParser

fatVars == <<stack, walk, cached, order>>
mftVars == <<count, start, index>>
vars == <<vol, pc, stop, files, stack, walk, cached, order, count, start,
          index>>

FatKinds == {"fat12", "fat16", "fat32"}

Init ==
  /\ vol \in Volumes
  /\ pc = "detect" /\ stop = FALSE /\ files = <<>>
  /\ Fat!FatInit /\ Mft!MftInit

\* detect_filesystem, the same in both managers: the parser that gets the
\* volume.  exFAT and what is not recognised go to the RAW scan.
Detected ==
  CASE vol.fs = "ntfs" -> "ntfs"
    [] vol.fs \in FatKinds /\ vol.boot -> "fat"
    [] OTHER -> "raw"

DetectFilesystem ==
  /\ pc = "detect"
  /\ \E ok \in Fat!ReadResults({0}) : pc' = IF ok THEN Detected ELSE "raw"
  /\ UNCHANGED <<vol, stop, files, fatVars, mftVars>>

RequestStop ==
  /\ ~stop /\ pc \notin {"done", "raw", "terminated"}
  /\ stop' = TRUE
  /\ UNCHANGED <<vol, pc, files, fatVars, mftVars>>

Parse ==
  \/ DetectFilesystem
  \/ Fat!FatNext /\ UNCHANGED mftVars
  \/ Mft!MftNext /\ UNCHANGED fatVars

Next == Parse \/ RequestStop

Spec == Init /\ [][Next]_vars

\* The scan thread runs on as long as it can; nobody has to press Stop.
FairSpec == Spec /\ WF_vars(Parse)

----------------------------------------------------------------------------
(* What the disk really says: the reference of the properties.             *)

\* The clusters that follow from each, in so many steps, and all of a chain
\* that ends: no more than the table has.
Chains[k \in 0..(Cardinality(DOMAIN vol.next) + 1)] ==
  [c \in Nat |-> IF k = 0 \/ c \notin DOMAIN vol.next THEN <<>>
                 ELSE <<c>> \o Chains[k - 1][vol.next[c]]]
TrueChain(c) == Chains[Cardinality(DOMAIN vol.next) + 1][c]

\* Where a cluster lies, and whether 32 bits can number all of its sectors.
SectorOf(c) == vol.data + (c - 2) * ClusterSectors
Fits(c) == SectorOf(c) + ClusterSectors <= Word

ClusterSectorsOf(c) == SectorOf(c) .. (SectorOf(c) + ClusterSectors - 1)

Unsound == vol.dead \cup vol.flaky

\* A cluster of the volume, and not one of the marks in the table.
IsLink(c) == 2 <= c /\ c < Eoc /\ c # BadMark

\* What the table says of a cluster, and the clusters that may come after it: an
\* entry that lies in two sectors may say anything that the byte behind makes
\* of it.
TrueNext(c) == IF c \in DOMAIN vol.next THEN vol.next[c] ELSE 0
TableSays(c) == IF Fat!Straddles(c) THEN Junk ELSE {TrueNext(c)}
Nexts(c) == {b \in TableSays(c) : IsLink(b)}
Leads(a, b) == b \in Nexts(a)

\* The clusters to which the table leads in at most so many steps.
Reached[n \in Nat] ==
  [c \in Nat |->
     IF n = 0 THEN {c}
     ELSE LET before == Reached[n - 1][c]
          IN before \cup UNION {Nexts(a) : a \in before}]
AllReached(c) == Reached[Cardinality(DOMAIN vol.next)][c]

\* The table leads from these clusters to no others, and 32 bits are enough
\* to number their sectors.
Confined(D) ==
  \A a \in D : /\ IsLink(a) => Fits(a)
               /\ Nexts(a) \subseteq D
IsConfined(c) == IsLink(c) => c \in AllReached(c) /\ Confined(AllReached(c))

\* The table leads from a cluster back to it.
HasCycle ==
  \E a \in DOMAIN vol.next : \E b \in Nexts(a) : IsLink(a) /\ a \in AllReached(b)

\* The chain goes no further, or the table cannot be relied on to say so.
Ends(c) ==
  \/ Fat!Straddles(c) \/ Fat!TableSector(c) \in Unsound
  \/ ~IsLink(TrueNext(c))

FirstCluster(x) == 2 + (x.start - vol.data) \div ClusterSectors
LastCluster(x) == FirstCluster(x) + x.count \div ClusterSectors - 1

\* The extent is made of whole clusters, each of which leads to the next, and
\* none of them is a mark.
IsRun(x) ==
  /\ x.count > 0 /\ x.count % ClusterSectors = 0
  /\ x.start = SectorOf(FirstCluster(x))
  /\ \A c \in FirstCluster(x)..LastCluster(x) : IsLink(c)
  /\ \A c \in FirstCluster(x)..(LastCluster(x) - 1) : Leads(c, c + 1)

\* The extents are those of the chain that begins with this cluster.
IsChain(c, extents) ==
  IF ~IsLink(c) THEN extents = <<>>
  ELSE /\ extents # <<>> /\ FirstCluster(extents[1]) = c
       /\ \A k \in DOMAIN extents : IsRun(extents[k])
       /\ \A k \in 1..(Len(extents) - 1) :
            Leads(LastCluster(extents[k]), FirstCluster(extents[k + 1]))
       /\ Ends(LastCluster(Last(extents)))

\* A cluster that can be read, and followed.
ClusterIsSound(c) ==
  /\ Fits(c) /\ Fat!TableSector(c) \notin Unsound /\ ~Fat!Straddles(c)
  /\ ClusterSectorsOf(c) \cap Unsound = {}

\* The directory has an end, and all of it can be read.
DirectoryIsSound(c) ==
  /\ Len(TrueChain(c)) <= Cardinality(DOMAIN vol.next)
  /\ \A x \in ToSet(TrueChain(c)) : ClusterIsSound(x)

EntriesOf(c) ==
  FlattenSeq([k \in DOMAIN TrueChain(c) |-> vol.dir[SectorOf(TrueChain(c)[k])]])

\* The entries before the end mark.
Listed(s) ==
  {s[k] : k \in {i \in DOMAIN s : \A j \in 1..i : s[j].attr # "end"}}

RootIsSound == IF vol.fs = "fat32" THEN DirectoryIsSound(vol.root)
               ELSE vol.rootSectors \cap Unsound = {}
RootEntries == IF vol.fs = "fat32" THEN EntriesOf(vol.root)
               ELSE vol.rootEntries

\* What is reported of a directory, and what is opened.
IsFileEntry(e) == e.attr = "file" /\ e.cluster >= 2 /\ e.size > 0
IsDirEntry(e) == e.attr = "dir" /\ e.cluster >= 2

\* The listings, depth by depth, to which a path of sound directories leads.
SoundListings[d \in 0..MaxDepth] ==
  IF d = 0 THEN IF RootIsSound THEN {Listed(RootEntries)} ELSE {}
  ELSE {Listed(EntriesOf(c)) :
          c \in {e.cluster : e \in {f \in UNION SoundListings[d - 1] :
                                     IsDirEntry(f) /\ DirectoryIsSound(f.cluster)}}}

\* The files in them.
SoundFiles ==
  {e \in UNION {UNION SoundListings[d] : d \in 0..MaxDepth} : IsFileEntry(e)}

\* A directory leads back to one above it.
HasLoop ==
  \E d1, d2 \in 0..MaxDepth :
    d1 # d2 /\ SoundListings[d1] \cap SoundListings[d2] # {}

\* The entry of a directory leads to where the sectors of others are.
LeadsAstray ==
  \E e \in ToSet(vol.rootEntries) \cup UNION {ToSet(vol.dir[s]) : s \in DOMAIN vol.dir} :
    IsDirEntry(e) /\ ~IsConfined(e.cluster)

\* A run of the record takes all 64 bits for an offset that is negative.
HasWideOffset(r) ==
  \E k \in DOMAIN Mft!DataIn(r) : \E x \in ToSet(Mft!DataIn(r)[k].runs) :
    x.bytes # <<>> /\ Len(x.bytes) = WordBytes /\ Mft!IsNegative(x.bytes)

TimesReported(e) ==
  Cardinality({k \in DOMAIN files : files[k].entry = e})
TimesReportedRecord(i) ==
  Cardinality({k \in DOMAIN files : files[k].mft_id = i})

----------------------------------------------------------------------------
IsFat == vol.fs \in FatKinds
IsNtfs == vol.fs = "ntfs"

\* The state is well formed: the cache and its order hold the same sectors,
\* never more than fit, and only as many directories are open as may be
\* nested (fat_parser.cpp:99 and :332).
TypeOK ==
  /\ vol \in Volumes /\ stop \in BOOLEAN
  /\ pc \in {"detect", "fat", "root", "chain", "entry", "ntfs", "batch",
             "records", "singles", "done", "raw", "terminated"}
  /\ ToSet(order) = cached /\ Len(order) = Cardinality(cached)
  /\ Cardinality(cached) <= CacheSize
  /\ Len(stack) <= MaxDepth + 1
  /\ \A d \in DOMAIN stack : stack[d].depth = d - 1

\* What a reported file is read from is its own: on FAT the clusters that the
\* table leads to from its first one, in order, up to the end of the chain or a
\* sector of the table that may not have been read; on NTFS its runs up to the
\* first hole.  Recovery copies these sectors and nothing else.  It is so unless
\* the table leads from the file to a cluster whose sector 32 bits cannot number,
\* which damaged tables of FAT32 do (fat_parser.cpp:94-97 and :189), or the runs
\* hold a negative offset of 64 bits (mft_parser.cpp:261 and :284-286).
ExtentsAreTheFile ==
  \A k \in DOMAIN files :
    /\ IsFat /\ IsConfined(files[k].entry.cluster) =>
         IsChain(files[k].entry.cluster, files[k].extents)
    /\ IsNtfs => LET r == vol.records[files[k].mft_id + 1]
                 IN ~HasWideOffset(r) => files[k].extents = r.extents

\* The end of an enumeration that nobody stopped, of a volume that boots.
Undisturbed == pc = "done" /\ ~stop /\ vol.boot /\ 0 \notin Unsound

\* Every file that can be got at, at least once, and none of them twice.
SoundEntriesAreReported ==
  IsFat => \A e \in SoundFiles : TimesReported(e) >= 1
NoneTwice ==
  IsFat /\ ~HasLoop /\ ~LeadsAstray =>
    \A e \in SoundFiles : TimesReported(e) <= 1

IsSoundRecord(i) ==
  Mft!RecordsAt(i, 1) \cap Unsound = {} /\ Mft!IsRecoverable(Mft!RecordAt(i))
SoundRecordsAreReported ==
  IsNtfs => \A i \in 0..(Len(vol.records) - 1) :
              IsSoundRecord(i) => TimesReportedRecord(i) = 1

\* Damage stays where it is: at the end of an enumeration nobody stopped,
\* every file in a directory that can be read, below directories that can be
\* read, was reported, whatever else on the volume cannot be; on NTFS every
\* record that can be read, though its batch could not.  Each was reported
\* once, unless the directories form a loop or one leads to clusters too far
\* away for 32 bits (fat_parser.cpp:94-97, :217 and :328, mft_parser.cpp:158).
SoundFilesAreReported ==
  Undisturbed => SoundEntriesAreReported /\ NoneTwice /\ SoundRecordsAreReported

IsOwnName(e, name) ==
  /\ e.gone \/ e.long = <<>> => name = <<e.name>>
  /\ ~e.gone /\ Len(e.long) = 1 => name = e.long
  /\ ~e.gone /\ e.long # <<>> => ToSet(name) \subseteq ToSet(e.long)

\* No file carries the name of another: a name in one long-name entry is
\* reported as it is, a file without one by its short name, and a longer one
\* by parts that are its own (fat_parser.cpp:369-397).
NamesAreOwn ==
  IsFat => \A k \in DOMAIN files : IsOwnName(files[k].entry, files[k].name)

\* Unless the table has a cycle, which read_cluster_chain follows until it has
\* no more memory (fat_parser.cpp:195), the metadata scan comes to its end whatever cannot be
\* read and however the directories are nested, also when they form a loop
\* (fat_parser.cpp:332).
EnumerationEnds == ~HasCycle => <>(pc \in {"done", "raw"})
=============================================================================
