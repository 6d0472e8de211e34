------------------------------ MODULE FatParser ------------------------------
(***************************************************************************)
(* FatParser: walking the directories of a FAT12/16/32 volume through the  *)
(* table, one action per table entry followed and per directory entry.     *)
(* The recursion of enumerate_directory is the stack of open directories.  *)
(* QuickScan composes it with the detection of the filesystem.             *)
(***************************************************************************)
EXTENDS Integers, Sequences, FiniteSets, SequencesExt

CONSTANTS
  SectorBytes,     \* bytes_per_sector_
  Word,            \* sectors that 32 bits can number (2^32)
  ClusterSectors,  \* sectors_per_cluster_
  Eoc, BadMark,    \* FATxx_EOC and FATxx_BAD
  CacheSize,       \* FAT_CACHE_SIZE (64)
  MaxDepth,        \* deepest directory that is opened (10)
  MaxExtents,      \* extents for which there is memory
  Junk             \* what the byte past the sector makes of a FAT12 entry

VARIABLES
  vol,    \* what is on the disk: never changes
  pc,     \* where the scan is
  stop,   \* stop_requested_
  files,  \* the files handed to on_file, up to a stop
  stack,  \* the open directories: depth, entries, next one, long name
  walk,   \* read_cluster_chain: cluster, run and extents, and whose chain
  cached, \* fat_cache_
  order   \* fat_cache_order_

\* read_sectors of a set of sectors: a dead one never answers, a flaky one
\* may.
ReadResults(S) ==
  {ok \in BOOLEAN : /\ ok => S \cap vol.dead = {}
                    /\ ~ok => S \cap (vol.dead \cup vol.flaky) # {}}

\* cluster_to_sector returns 32 bits: a cluster far behind the volume, to which
\* a damaged table may lead, lands on other sectors.
ClusterSector(c) == (vol.data + (c - 2) * ClusterSectors) % Word

\* The byte of the table where the entry of a cluster starts: no more than four
\* times 2^28, which 32 bits hold.
TableOffset(c) ==
  CASE vol.fs = "fat12" -> c + c \div 2
    [] vol.fs = "fat16" -> 2 * c
    [] vol.fs = "fat32" -> 4 * c

TableSector(c) == vol.table + TableOffset(c) \div SectorBytes

\* A FAT12 entry of which the second byte is in the next sector: the code
\* reads past the end of the cached one.
Straddles(c) ==
  vol.fs = "fat12" /\ TableOffset(c) % SectorBytes = SectorBytes - 1

IsEndOfChain(c) == c >= Eoc
IsBadCluster(c) == c = BadMark

NoWalk == [cluster |-> 0, first |-> 0, run |-> 0, extents |-> <<>>,
           depth |-> 0, file |-> <<>>]

\* read_cluster_chain(c): of a directory at this depth, or of a file.
ChainOfDirectory(c, d) == [NoWalk EXCEPT !.cluster = c, !.depth = d]
ChainOfFile(c, f) == [NoWalk EXCEPT !.cluster = c, !.file = <<f>>]

FatInit ==
  stack = <<>> /\ walk = NoWalk /\ cached = {} /\ order = <<>>

Continue(q) == IF q = <<>> THEN "done" ELSE "entry"

----------------------------------------------------------------------------
(* The table and its cache.                                                *)

Touched(q, s) ==
  <<s>> \o RemoveAt(q, CHOOSE i \in DOMAIN q : q[i] = s)

EvictsLate == Cardinality(cached) > CacheSize
Evicts == Cardinality(cached) >= CacheSize

\* cache_fat_sector: the oldest sector goes before the new one is read.
CacheFatSector(s, ok) ==
  IF s \in cached
    THEN order' = Touched(order, s) /\ UNCHANGED cached
    ELSE LET kept == IF Evicts THEN Front(order) ELSE order
             left == IF Evicts THEN cached \ {Last(order)} ELSE cached
         IN /\ order' = IF ok THEN <<s>> \o kept ELSE kept
            /\ cached' = IF ok THEN left \cup {s} ELSE left

TableReads(s) == IF s \in cached THEN {TRUE} ELSE ReadResults({s})

TableValues(c) ==
  IF Straddles(c) THEN Junk
  ELSE {IF c \in DOMAIN vol.next THEN vol.next[c] ELSE 0}

FatEntryKept(c, ok) == IF ok THEN TableValues(c) ELSE {c}
\* get_fat_entry: a sector that cannot be read gives 0.
FatEntry(c, ok) == IF ok THEN TableValues(c) ELSE {0}

----------------------------------------------------------------------------
(* read_cluster_chain.                                                     *)

Follows(c) == ~IsEndOfChain(c) /\ c >= 2 /\ ~IsBadCluster(c)

\* The extents with the run that is open.
Closed(w) ==
  IF w.run > 0 THEN Append(w.extents, [start |-> w.first, count |-> w.run])
  ELSE w.extents

Extended(w) ==
  LET s == ClusterSector(w.cluster)
  IN IF s = w.first + w.run
       THEN [w EXCEPT !.run = @ + ClusterSectors]
       ELSE [w EXCEPT !.extents = Closed(w), !.first = s,
                      !.run = ClusterSectors]

FollowChain ==
  /\ pc = "chain" /\ Follows(walk.cluster) /\ Len(walk.extents) < MaxExtents
  /\ \E ok \in TableReads(TableSector(walk.cluster)) :
       /\ CacheFatSector(TableSector(walk.cluster), ok)
       /\ \E c \in FatEntry(walk.cluster, ok) :
            walk' = [Extended(walk) EXCEPT !.cluster = c]
  /\ UNCHANGED <<vol, pc, stop, files, stack>>

\* Nothing but the memory for the extents bounds a chain, not even a stop, and
\* nobody catches what is thrown when it is used up.
OutOfMemory ==
  /\ pc = "chain" /\ Follows(walk.cluster) /\ Len(walk.extents) >= MaxExtents
  /\ pc' = "terminated"
  /\ UNCHANGED <<vol, stop, files, stack, walk, cached, order>>

\* on_file takes nothing once a stop was asked for.
ChainOfFileEnds ==
  /\ pc = "chain" /\ ~Follows(walk.cluster) /\ walk.file # <<>>
  /\ LET f == walk.file[1]
     IN files' = IF stop THEN files
                 ELSE Append(files, [name |-> f.name, damaged |-> f.damaged,
                                     entry |-> f.entry,
                                     extents |-> Closed(walk)])
  /\ walk' = NoWalk /\ pc' = Continue(stack)
  /\ UNCHANGED <<vol, stop, stack, cached, order>>

ExtentSectors(e) == e.start .. (e.start + e.count - 1)
\* What the cluster of sectors that begins with s holds, read as a directory.
EntriesAt(s) == IF s \in DOMAIN vol.dir THEN vol.dir[s] ELSE <<>>
ExtentEntries(e) ==
  FlattenSeq([k \in 1..(e.count \div ClusterSectors) |->
    EntriesAt(e.start + (k - 1) * ClusterSectors)])

\* The extents of a directory are read up to the first that cannot be; the
\* rest of the buffer holds zeros, which end the directory.
DirectoryChainEnds ==
  /\ pc = "chain" /\ ~Follows(walk.cluster) /\ walk.file = <<>>
  /\ LET exts == Closed(walk)
     IN \E n \in 0..Len(exts) :
          /\ \A k \in 1..n : TRUE \in ReadResults(ExtentSectors(exts[k]))
          /\ n < Len(exts) => FALSE \in ReadResults(ExtentSectors(exts[n + 1]))
          /\ stack' = IF exts = <<>> THEN stack
                      ELSE Append(stack,
                             [depth |-> walk.depth, next |-> 1,
                              entries |-> FlattenSeq([k \in 1..n |->
                                            ExtentEntries(exts[k])]),
                              long |-> <<>>, valid |-> FALSE])
  /\ walk' = NoWalk /\ pc' = Continue(stack')
  /\ UNCHANGED <<vol, stop, files, cached, order>>

----------------------------------------------------------------------------
(* Directory entries.                                                      *)

ParseBootSector ==
  /\ pc = "fat"
  /\ \E ok \in ReadResults({0}) :
       IF ~ok \/ ~vol.boot
         THEN pc' = "done" /\ UNCHANGED walk
         ELSE IF vol.fs = "fat32"
           THEN pc' = "chain" /\ walk' = ChainOfDirectory(vol.root, 0)
           ELSE pc' = "root" /\ UNCHANGED walk
  /\ UNCHANGED <<vol, stop, files, stack, cached, order>>

\* The root directory of FAT12 and FAT16 has sectors of its own.
ReadRootDirectory ==
  /\ pc = "root"
  /\ \E ok \in ReadResults(vol.rootSectors) :
       IF ok
         THEN /\ stack' = <<[depth |-> 0, next |-> 1,
                             entries |-> vol.rootEntries,
                             long |-> <<>>, valid |-> FALSE]>>
              /\ pc' = "entry"
         ELSE pc' = "done" /\ UNCHANGED stack
  /\ UNCHANGED <<vol, stop, files, walk, cached, order>>

Top == Last(stack)
AtEnd(d) == d.next \notin {k \in DOMAIN d.entries : d.entries[k].attr # "end"}
Entry == Top.entries[Top.next]
AtEntry == pc = "entry" /\ ~AtEnd(Top)

Below == Front(stack)
SteppedKeepingName == Append(Below, [Top EXCEPT !.next = @ + 1])
\* The directory after an entry that is not part of a long name.
Stepped == Append(Below, [Top EXCEPT !.next = @ + 1, !.long = <<>>,
                                     !.valid = FALSE])

\* The order byte of a deleted entry is 0xE5, of which the low bits are 37.
LongNameEntry ==
  /\ AtEntry /\ Entry.attr = "lfn"
  /\ LET seq == IF Entry.gone THEN 37 ELSE Entry.seq
         long == IF seq = 1 THEN <<Entry.name>>
                 ELSE IF seq # 0 /\ Top.valid THEN <<Entry.name>> \o Top.long
                 ELSE Top.long
     IN stack' = Append(Below, [Top EXCEPT !.next = @ + 1, !.long = long,
                                !.valid = seq # 0 /\ (seq = 1 \/ @)])
  /\ UNCHANGED <<vol, pc, stop, files, walk, cached, order>>

\* A deleted entry never has a long name.
NameOfEntry ==
  IF Top.valid /\ ~Entry.gone /\ Top.long # <<>> THEN Top.long
  ELSE <<Entry.name>>

Opens(d) == d <= MaxDepth

DirectoryEntry ==
  /\ AtEntry /\ Entry.attr = "dir" /\ Entry.cluster >= 2
  /\ stack' = Stepped
  /\ IF Opens(Top.depth + 1)
       THEN pc' = "chain" /\ walk' = ChainOfDirectory(Entry.cluster, Top.depth + 1)
       ELSE UNCHANGED <<pc, walk>>
  /\ UNCHANGED <<vol, stop, files, cached, order>>

\* The history field entry says which directory entry a file comes from.
FileEntry ==
  /\ AtEntry /\ Entry.attr = "file" /\ Entry.cluster >= 2 /\ Entry.size > 0
  /\ stack' = Stepped /\ pc' = "chain"
  /\ walk' = ChainOfFile(Entry.cluster,
               [name |-> NameOfEntry, damaged |-> Entry.gone, entry |-> Entry])
  /\ UNCHANGED <<vol, stop, files, cached, order>>

\* "." and "..", volume labels, files without a cluster or of no bytes.
OtherEntry ==
  /\ AtEntry
  /\ \/ Entry.attr = "dots"
     \/ Entry.attr = "dir" /\ Entry.cluster < 2
     \/ Entry.attr = "file" /\ (Entry.cluster < 2 \/ Entry.size = 0)
  /\ stack' = Stepped
  /\ UNCHANGED <<vol, pc, stop, files, walk, cached, order>>

DirectoryDone ==
  /\ pc = "entry" /\ AtEnd(Top)
  /\ stack' = Below /\ pc' = Continue(Below)
  /\ UNCHANGED <<vol, stop, files, walk, cached, order>>

FatNext ==
  \/ ParseBootSector \/ ReadRootDirectory
  \/ FollowChain \/ OutOfMemory \/ ChainOfFileEnds \/ DirectoryChainEnds
  \/ LongNameEntry \/ DirectoryEntry \/ FileEntry \/ OtherEntry
  \/ DirectoryDone
=============================================================================
