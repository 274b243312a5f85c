---------------------------- MODULE FileSystemInv ---------------------------
(* The inductive invariant of FileSystem.                                  *)
EXTENDS FileSystem

-----------------------------------------------------------------------------
Extent == [block : Sector, length : Nat \ {0}]
InodeType == {NoInode} \cup [dir : {TRUE}, exts : Seq(Extent) \ {<< >>}]
OneSector == {NoInode} \cup {[dir |-> TRUE, exts |-> <<[block |-> s, length |-> 1]>>] : s \in Sector}
Entry == [name : Name \cup {"", ".", ".."}, inode : Inode]

(* Inodes are taken in order and never given back.                         *)
Segment(S) == S \subseteq Inode /\ Root \in S /\ \A n \in S : 0 .. n \subseteq S

(* The directories that can be entered.  After a power failure there may   *)
(* be others, which are not marked and not linked, and hold no entries.    *)
Known == {n \in inodebm : inode_table[n].dir}

Typed ==
    /\ disk \in [data : [Sector -> Block], inodes : [Inode -> OneSector],
                 sbm : SUBSET Sector, ibm : SUBSET Inode]
    /\ b \subseteq Sector
    /\ \A S \in {disk.ibm, fifth, inodebm} : Segment(S)
    /\ inode_table \in [Inode -> InodeType]
    /\ {Root, cwd} \subseteq Known
    /\ entries \in [0 .. MAX_DIR_ENTRIES - 1 -> Entry]
    /\ goal \in Path \cup {<< >>}
    /\ {failures, errors} \subseteq Nat /\ failures + errors <= MaxFaults /\ outgrown \in BOOLEAN
    /\ behind \subseteq {"sbm", "ibm", "inodes", "data"} \X Nat

(* What a directory with several sectors has behind it: all inodes in the  *)
(* sector of its own are in use, so that its own is never written again.   *)
Neighbours(n) == {m \in Inode : SectorOf(m) = SectorOf(n)}
Outgrown ==
    /\ \A n \in Inode : inode_table[n] \notin OneSector => Neighbours(n) \subseteq inodebm
    /\ ~outgrown => \A n \in Inode : inode_table[n] \in OneSector

-----------------------------------------------------------------------------
(* The writes that are left: the last ones of flush_dentry, or of the      *)
(* creation of the newest inode.                                           *)
LastOf(s, m) == [k \in 1 .. m |-> s[Len(s) - m + k]]
First(inode) == inode.exts[1].block
NewBlock(n) == Directory(n, dirent("..", entries[0].inode))
InodesNear(n) == WriteInodes(SectorOf(n), [m \in Neighbours(n) |-> inode_table[m]])
Made(n) ==
    IF inode_table[n].dir
      THEN << WriteData(First(inode_table[n]), NewBlock(n)), Write("sbm", b), Write("ibm", fifth),
              Write("ibm", inodebm), InodesNear(n) >>
      ELSE << Write("ibm", inodebm), InodesNear(n) >>
Rest(writes) == \E m \in 0 .. Len(writes) : pending = LastOf(writes, m)

Newest(n) == n \in inodebm \ {Root, cwd} /\ n + 1 \notin inodebm
Creating(n) == goal = << >> /\ pending # << >> /\ Newest(n)
Writing ==
    /\ goal # << >> => Rest(flush_dentry)
    /\ goal = << >> /\ pending # << >> => \E n \in Inode : Newest(n)
    /\ \A n \in Inode : Creating(n) =>
        /\ Rest(Made(n))
        /\ \A m \in Neighbours(n) : inode_table[m] \in OneSector

-----------------------------------------------------------------------------
(* The entries lead to inodes that are marked; those in the first sector   *)
(* of a directory, without gaps, to inodes behind its own.                 *)
Marked(block) == \A k \in DOMAIN block : block[k].name # "" => block[k].inode \in inodebm
Heads(n, block) ==
    /\ {block[0].inode, block[1].inode} \subseteq Known \cap 0 .. n
    /\ \A k \in 2 .. SLOTS - 1 : block[k].name # "" =>
          block[k].inode >= n + k - 1 /\ (k > 2 => block[k - 1].name # "")
Unnamed(block) == \A k \in 2 .. SLOTS - 1 : block[k].name = ""

(* What the disk has of a sector of directory n is what the directory has. *)
Coming(place) == \E k \in DOMAIN pending : Place(pending[k]) = place
Settled(n, s) == failures = 0 \/ ((n = cwd => goal # << >>) /\ ~Coming(<<"data", s>>))
Shows(n, j, s) == Settled(n, s) => Marked(disk.data[s]) /\ (j = 1 => Heads(n, disk.data[s]))
Orphan(n) == n \in Inode \ inodebm /\ inode_table[n].dir
Unused == failures = 0 => \A s \in Sector \ b : disk.data[s] = [k \in 0 .. SLOTS - 1 |-> EMPTY]
Readable ==
    /\ Heads(cwd, entries) /\ Marked(entries)
    /\ \A n \in Known : \A j \in DOMAIN inode_table[n].exts :
          Shows(n, j, inode_table[n].exts[j].block)
    /\ Unused
    /\ \A n \in Inode : Orphan(n) =>
          failures = 1 /\ inode_table[n] \in OneSector /\ Unnamed(disk.data[First(inode_table[n])])

-----------------------------------------------------------------------------
(* While no write is refused, the inodes on the disk are those in memory,  *)
(* except for the lengths, and the newest.                                 *)
Same(n) == /\ disk.inodes[n].dir = inode_table[n].dir
           /\ disk.inodes[n].dir => First(disk.inodes[n]) = First(inode_table[n])
Fresh(n) == failures = 0 => disk.inodes[n] = NoInode
Prepared(n) ==
    inode_table[n].dir =>
       /\ Len(pending) <= 4 => disk.data[First(inode_table[n])] = NewBlock(n)
       /\ Len(pending) <= 3 => disk.sbm = b
Followed ==
    errors = 0 =>
    /\ \A n \in Inode : IF Creating(n) THEN Fresh(n) ELSE Same(n)
    /\ disk.sbm \subseteq b
    /\ \A n \in Inode : Creating(n) => Prepared(n)

(* A sector that the memory is ahead of is behind, or a write of it is to  *)
(* come.                                                                   *)
Lags(place) == place \in behind \/ Coming(place)
InodesCurrent == \A n \in Inode : Lags(<<"inodes", SectorOf(n)>>) \/ disk.inodes[n] = inode_table[n]
MapsCurrent ==
    /\ Lags(<<"sbm", 0>>) \/ disk.sbm = b
    /\ Lags(<<"ibm", 0>>) \/ disk.ibm = inodebm
DirectoryCurrent ==
    LET s == First(inode_table[cwd])
    IN  outgrown \/ Lags(<<"data", s>>) \/ disk.data[s] = Chunk(0)
Current == InodesCurrent /\ MapsCurrent /\ DirectoryCurrent

-----------------------------------------------------------------------------
(* While no write is refused, "." and ".." are right: those of a directory *)
(* that still has to be written will be.                                   *)
Unwritten(m) == Creating(m) /\ Len(pending) = 5
Dots(block, m, n) == block[0] = dirent(".", m) /\ block[1] = dirent("..", n)
Child(m, n) ==
    IF Unwritten(m) THEN n = cwd ELSE Dots(disk.data[First(inode_table[m])], m, n)
Subdirectory(e) == e.name # "" /\ inode_table[e.inode].dir
Leads(n, block, start) ==
    \A k \in start .. SLOTS - 1 : Subdirectory(block[k]) => Child(block[k].inode, n)
Start(j) == IF j = 1 THEN 2 ELSE 0

Dotted ==
    \A n \in Known : ~Unwritten(n) => disk.data[First(inode_table[n])][0] = dirent(".", n)
Cached == \A k \in {0, 1} : entries[k] = disk.data[First(inode_table[cwd])][k]
EntriesLead ==
    \A k \in 2 .. MAX_DIR_ENTRIES - 1 : Subdirectory(entries[k]) => Child(entries[k].inode, cwd)
SectorsLead ==
    \A n \in Known : \A j \in DOMAIN inode_table[n].exts :
        LET s == inode_table[n].exts[j].block
        IN  Settled(n, s) => Leads(n, disk.data[s], Start(j))
Linked == errors = 0 => Dotted /\ Cached /\ EntriesLead /\ SectorsLead

-----------------------------------------------------------------------------
(* While no write is refused and no directory has outgrown its sector: the *)
(* directory one is in has been saved, and so have those with entries; the *)
(* disk has no entry that memory has not, and all of them when the entries *)
(* have been written; nothing that is saved leads to the newest inode, and *)
(* nothing is in the sectors it has, or had before, or that are free.      *)
SavedDirectory(n) == n = Root \/ \E e \in saved : e.dir /\ e.is = n
SavedAbove == SavedDirectory(cwd) /\ \A e \in tree : SavedDirectory(e.in)
FreeUnnamed == \A s \in Sector \ disk.sbm : Unnamed(disk.data[s])
OneShown == \A k \in SLOTS .. MAX_DIR_ENTRIES - 1 : entries[k].name = ""
OnDisk(k) == disk.data[First(inode_table[cwd])][k]
Ahead == \A k \in 2 .. SLOTS - 1 : OnDisk(k).name = "" \/ entries[k] = OnDisk(k)
Saving == goal # << >> /\ pending = << >> => \A k \in 2 .. SLOTS - 1 : entries[k] = OnDisk(k)
NewestApart ==
    \A n \in Inode : Creating(n) =>
       /\ \A e \in saved : e.is # n
       /\ \A inodes \in {disk.inodes, inode_table} :
             inodes[n].dir => Unnamed(disk.data[First(inodes[n])])
Kept ==
    errors = 0 /\ ~outgrown =>
    SavedAbove /\ FreeUnnamed /\ OneShown /\ Ahead /\ Saving /\ NewestApart

-----------------------------------------------------------------------------
Stored == Typed /\ Outgrown /\ SectorsSafe /\ Writing /\ Readable /\ Followed
FileSystemInvariant == Stored /\ Current /\ Linked /\ Kept
=============================================================================
