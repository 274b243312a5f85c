----------------------------- MODULE FileSystem -----------------------------
(***************************************************************************)
(* The file system of fs.c on the slave disk: bitmaps, inodes and the      *)
(* current directory are cached in memory, and written to the disk sector  *)
(* by sector.  An operation of the shell updates the memory and then       *)
(* writes; power may fail between any two writes, and init_fs reads again  *)
(* what the disk holds.  One shell runs at a time.                         *)
(*                                                                         *)
(* Sectors are those from data_sea on.  The bitmaps are sets.  The last of *)
(* the five sectors of the sector bitmap is also the sector of the inode   *)
(* bitmap: fifth is what the array b holds of it.                          *)
(***************************************************************************)
EXTENDS Integers, Sequences, FiniteSets, Functions

CONSTANTS
    Name,               \* names of entries
    Sector,             \* 0 .. : the sectors from data_sea on
    INODES,
    INODES_PER_SECTOR,
    SLOTS,              \* DIRENTS_PER_EXT_BLOCK
    MAX_DIR_ENTRIES,
    MaxFaults           \* bound on the power failures and refused writes together

Inode == 0 .. INODES - 1
Root == 0
ASSUME SizesAssumption ==
    /\ {INODES, INODES_PER_SECTOR} \subseteq Nat \ {0}
    /\ SLOTS \in Nat /\ SLOTS > 2 /\ MAX_DIR_ENTRIES \in Nat /\ MAX_DIR_ENTRIES % SLOTS = 0
    /\ MAX_DIR_ENTRIES >= SLOTS
    /\ Sector \subseteq Nat /\ 0 \in Sector
    /\ Name \cap {"", ".", ".."} = {}
    /\ MaxFaults \in Nat
(* Before a directory outgrows its first sector, the inodes of the sector  *)
(* that its own is in are all in use.                                      *)
ASSUME SectorAssumption == INODES_PER_SECTOR <= SLOTS - 2

VARIABLES
    disk,           \* [data, inodes, sbm, ibm]
    b, fifth,       \* the sector bitmap in memory
    inodebm,
    inode_table,    \* [dir, exts]: attributes and the active extents
    cwd, entries,   \* current_dir_cache; its active_extents are those of the inode
    pending,        \* the disk writes the current operation still makes
    goal,           \* the path of a cd that has not changed directory yet
    failures, errors,
    outgrown,       \* history: a directory has got a second sector
    behind          \* history: the sectors that the memory is ahead of

memory == <<b, fifth, inodebm, inode_table, cwd, entries>>
faults == <<failures, errors>>
vars == <<disk, memory, pending, goal, faults, outgrown, behind>>

EMPTY == [name |-> "", inode |-> 0]
dirent(name, n) == [name |-> name, inode |-> n]

(* Mutant: the ".." of a new directory is the directory itself.            *)
OwnParent(n, parent) ==
    [k \in 0 .. SLOTS - 1 |-> IF k = 0 THEN dirent(".", n)
                              ELSE IF k = 1 THEN dirent(parent.name, n) ELSE EMPTY]

(* The first sector of a new directory.                                    *)
Directory(n, parent) ==
    [k \in 0 .. SLOTS - 1 |-> IF k = 0 THEN dirent(".", n) ELSE IF k = 1 THEN parent ELSE EMPTY]
NOWHERE == -1

-----------------------------------------------------------------------------
(* The disk.  A write replaces one sector: data, four inodes or a bitmap.  *)
WriteData(sector, block) == [to |-> "data", at |-> sector, what |-> block]
WriteInodes(k, inodes) == [to |-> "inodes", at |-> k, what |-> inodes]
Write(to, what) == [to |-> to, at |-> 0, what |-> what]

Written(w) ==
    CASE w.to = "data" -> [disk EXCEPT !.data[w.at] = w.what]
      [] w.to = "sbm" -> [disk EXCEPT !.sbm = w.what]
      [] w.to = "ibm" -> [disk EXCEPT !.ibm = w.what]
      [] w.to = "inodes" -> [disk EXCEPT !.inodes = [n \in Inode |->
             IF n \in DOMAIN w.what THEN w.what[n] ELSE @[n]]]

SectorOf(n) == n \div INODES_PER_SECTOR
Place(w) == <<w.to, w.at>>

(* The disk takes the sector, or reports an error that nobody looks at.    *)
dskws2 ==
    /\ pending # << >>
    /\ pending' = Tail(pending)
    /\ \/ /\ disk' = Written(Head(pending))
          /\ behind' = behind \ {Place(Head(pending))}
          /\ UNCHANGED errors
       \/ /\ failures + errors < MaxFaults /\ errors' = errors + 1
          /\ behind' = behind \cup {Place(Head(pending))}
          /\ UNCHANGED disk
    /\ UNCHANGED <<memory, goal, failures, outgrown>>

Idle == pending = << >> /\ goal = << >>

-----------------------------------------------------------------------------
(* cache_dir reads the first sector of each extent.                        *)
cache_dir(dir) ==
    [k \in 0 .. MAX_DIR_ENTRIES - 1 |->
        LET ext == k \div SLOTS + 1
        IN  IF ext <= Len(dir.exts) THEN disk.data[dir.exts[ext].block][k % SLOTS] ELSE EMPTY]

(* The image that tools/fs.c makes: a root directory without a parent.     *)
NoInode == [dir |-> FALSE, exts |-> << >>]
RootInode == [dir |-> TRUE, exts |-> <<[block |-> 0, length |-> 1]>>]
Image == [data |-> [s \in Sector |-> IF s = 0 THEN Directory(Root, EMPTY)
                                               ELSE [k \in 0 .. SLOTS - 1 |-> EMPTY]],
          inodes |-> [n \in Inode |-> IF n = Root THEN RootInode ELSE NoInode],
          sbm |-> {0}, ibm |-> {Root}]

Init ==
    /\ disk = Image
    /\ b = {0} /\ fifth = {Root} /\ inodebm = {Root}
    /\ inode_table = Image.inodes
    /\ cwd = Root /\ entries = cache_dir(RootInode)
    /\ pending = << >> /\ goal = << >> /\ failures = 0 /\ errors = 0 /\ outgrown = FALSE
    /\ behind = {}

(* Power fails and the machine starts again.                               *)
init_fs ==
    /\ failures + errors < MaxFaults
    /\ failures' = failures + 1
    /\ b' = disk.sbm /\ fifth' = disk.ibm /\ inodebm' = disk.ibm
    /\ inode_table' = disk.inodes
    /\ cwd' = Root /\ entries' = cache_dir(disk.inodes[Root])
    /\ pending' = << >> /\ goal' = << >>
    /\ behind' = {}
    /\ UNCHANGED <<disk, errors, outgrown>>

-----------------------------------------------------------------------------
Lowest(S) == CHOOSE n \in S : \A m \in S : n <= m
fds(used) == Lowest(Sector \ used)

(* Mutant: the search for an inode does not notice that there is none.     *)
PastTheLast(used) == IF Inode \ used = {} THEN INODES ELSE Lowest(Inode \ used)

fdi(used) == IF Inode \ used = {} THEN NOWHERE ELSE Lowest(Inode \ used)

find_free_dir_slot ==
    LET free == {k \in 2 .. MAX_DIR_ENTRIES - 1 : entries[k].name = ""}
    IN  IF free = {} THEN NOWHERE ELSE Lowest(free)

(* The sector next to the last extent makes it longer.                     *)
add_exts(inode, sector) ==
    LET last == Len(inode.exts)
    IN  IF sector = inode.exts[last].block + inode.exts[last].length
          THEN [inode EXCEPT !.exts[last].length = @ + 1]
          ELSE [inode EXCEPT !.exts = Append(@, [block |-> sector, length |-> 1])]

Sectors(inode) ==   \* the sectors of an inode in the order of its extents
    LET sectors[k \in 0 .. Len(inode.exts)] ==
          IF k = 0 THEN << >>
          ELSE sectors[k - 1] \o [j \in 1 .. inode.exts[k].length |-> inode.exts[k].block + j - 1]
    IN  sectors[Len(inode.exts)]

(* Once the slot is past the extents, counted as a sector each, the        *)
(* directory gets a sector more, whatever then becomes of the entry.       *)
Grows == find_free_dir_slot >= Len(inode_table[cwd].exts) * SLOTS
used == IF Grows THEN b \cup {fds(b)} ELSE b
grown == IF Grows THEN [inode_table EXCEPT ![cwd] = add_exts(@, fds(b))] ELSE inode_table

(* Mutant: the sectors of the bitmap proper are not written.               *)
OnlyFifth(map) == << Write("ibm", fifth) >>

flush_sbm(map) == << Write("sbm", map), Write("ibm", fifth) >>
flush_ibm(map) == << Write("ibm", map) >>

(* Mutant: the inodes of the sector before or behind are written.          *)
InodesBeside(table, n) ==
    << WriteInodes(SectorOf(n), [i \in {m \in Inode : SectorOf(m) # SectorOf(n)} |-> table[i]]) >>

flush_inode(table, n) ==
    << WriteInodes(SectorOf(n), [i \in {m \in Inode : SectorOf(m) = SectorOf(n)} |-> table[i]]) >>

(* There is always a free sector: each entry takes two at most.            *)
CanCreate == Idle /\ find_free_dir_slot # NOWHERE /\ Sector \ b # {}

CreateFile(name) ==
    LET n == fdi(inodebm)
        table == [grown EXCEPT ![n] = NoInode]
    IN  /\ CanCreate /\ n # NOWHERE
        /\ b' = used /\ inodebm' = inodebm \cup {n}
        /\ inode_table' = table
        /\ entries' = [entries EXCEPT ![find_free_dir_slot] = dirent(name, n)]
        /\ pending' = flush_ibm(inodebm \cup {n}) \o flush_inode(table, n)
        /\ UNCHANGED <<disk, fifth, cwd, goal, faults>>

(* init_directory writes the new directory and the sector bitmap first.    *)
CreateDirectory(name) ==
    LET n == fdi(inodebm)
        sector == fds(used)
        table == [grown EXCEPT ![n] = [dir |-> TRUE, exts |-> <<[block |-> sector, length |-> 1]>>]]
    IN  /\ CanCreate /\ n # NOWHERE /\ Sector \ used # {}
        /\ b' = used \cup {sector} /\ inodebm' = inodebm \cup {n}
        /\ inode_table' = table
        /\ entries' = [entries EXCEPT ![find_free_dir_slot] = dirent(name, n)]
        /\ pending' = << WriteData(sector, Directory(n, dirent("..", entries[0].inode))) >>
                        \o flush_sbm(used \cup {sector})
                        \o flush_ibm(inodebm \cup {n}) \o flush_inode(table, n)
        /\ UNCHANGED <<disk, fifth, cwd, goal, faults>>

(* FS_FULL is noticed after the directory has grown.                       *)
CreateNothing ==
    /\ CanCreate /\ fdi(inodebm) = NOWHERE
    /\ b' = used /\ inode_table' = grown
    /\ UNCHANGED <<disk, fifth, inodebm, cwd, entries, pending, goal, faults>>

(* What an entry leaves for later: the sectors of its directory, which cd  *)
(* writes, and, when that has grown, its inode and the sector bitmap,      *)
(* which another entry may write.                                          *)
create_entry ==
    /\ \/ \E name \in Name : CreateFile(name) \/ CreateDirectory(name)
       \/ CreateNothing
    /\ outgrown' = (outgrown \/ Grows)
    /\ behind' = behind \cup {<<"data", s>> : s \in Range(Sectors(grown[cwd]))}
                       \cup (IF Grows THEN {<<"inodes", SectorOf(cwd)>>, <<"sbm", 0>>} ELSE {})

-----------------------------------------------------------------------------
(* cd writes the current directory first, extent after extent, each with   *)
(* the entries that follow; behind the last one memory holds anything.     *)
Chunk(k) == [s \in 0 .. SLOTS - 1 |->
                IF k * SLOTS + s < MAX_DIR_ENTRIES THEN entries[k * SLOTS + s] ELSE EMPTY]

(* Mutant: the last sector is not written.                                 *)
LastNotFlushed ==
    LET sectors == Sectors(inode_table[cwd])
    IN  [k \in 1 .. Len(sectors) - 1 |-> WriteData(sectors[k], Chunk(k - 1))]

flush_dentry ==
    LET sectors == Sectors(inode_table[cwd])
    IN  [k \in DOMAIN sectors |-> WriteData(sectors[k], Chunk(k - 1))]

cd(path) ==
    /\ Idle
    /\ pending' = flush_dentry
    /\ goal' = path
    /\ UNCHANGED <<disk, memory, faults, outgrown, behind>>

(* What ls shows in directory n; what it shows in any directory after a    *)
(* restart, and now.                                                       *)
Shown(n, cache, inodes) ==
    {[in |-> n, name |-> cache[k].name, is |-> cache[k].inode, dir |-> inodes[cache[k].inode].dir] :
        k \in {j \in DOMAIN cache : j >= 2 /\ cache[j].name # ""}}
ShownAfterCd(inodes, D) == UNION {Shown(n, cache_dir(inodes[n]), inodes) : n \in D}

DirectoriesOf(inodes) == {n \in Inode : inodes[n].dir}
saved == ShownAfterCd(disk.inodes, DirectoriesOf(disk.inodes))
tree == Shown(cwd, entries, inode_table)
        \cup ShownAfterCd(inode_table, DirectoriesOf(inode_table) \ {cwd})
LinkedDirectories == {Root} \cup {e.is : e \in {f \in tree : f.dir}}

(* What fd_dir may find for the tokens of a path.  The tokens are in a     *)
(* dead stack frame that grab_dir overwrites: a name looked up after that  *)
(* may be any, and match any entry of the directories in the buffer; so    *)
(* one token stands for all that may come then.                            *)
Path == {<<".">>, <<"..">>, <<"..", "..">>} \cup {<<".", name>> : name \in Name \cup {".."}}
        \cup {<<".", name, "..">> : name \in Name}

Hits(name) == {k \in DOMAIN entries : entries[k].name = name /\ inode_table[entries[k].inode].dir}

fd_dir(path) ==
    IF path[1] = ".." /\ cwd = Root THEN {NOWHERE}
    ELSE IF path = <<"..">> THEN {entries[1].inode}
    ELSE IF path = <<".">> THEN {cwd}
    ELSE IF path[1] = "." /\ Hits(path[2]) = {} THEN {NOWHERE}
    ELSE IF path[1] = "." /\ Len(path) = 2 THEN {entries[Lowest(Hits(path[2]))].inode}
    ELSE LinkedDirectories \cup {NOWHERE}

(* The directory found is read into the cache.                             *)
CdDone ==
    /\ pending = << >> /\ goal # << >>
    /\ \E n \in fd_dir(goal) :
         IF n = NOWHERE
           THEN UNCHANGED <<cwd, entries>>
           ELSE cwd' = n /\ entries' = cache_dir(inode_table[n])
    /\ goal' = << >>
    /\ UNCHANGED <<disk, b, fifth, inodebm, inode_table, pending, faults, outgrown, behind>>

Operation == create_entry \/ (\E path \in Path : cd(path)) \/ CdDone
Next == dskws2 \/ init_fs \/ Operation
Spec == Init /\ [][Next]_vars

(* Power does not fail while the inode bitmap on the disk is the one that  *)
(* flush_sbm has put there, without the inodes of saved entries; and faults *)
(* are of one kind: power fails once, or the disk refuses writes.          *)
InodesMarked == {e.is : e \in saved} \subseteq disk.ibm
MarkedNext ==
    \/ dskws2 /\ (failures = 0 \/ errors' = errors)
    \/ InodesMarked /\ failures = 0 /\ errors = 0 /\ init_fs
    \/ Operation
MarkedSpec == Init /\ [][MarkedNext]_vars

-----------------------------------------------------------------------------
Block == [0 .. SLOTS - 1 -> [name : Name \cup {"", ".", ".."}, inode : Inode]]
TypeOK ==
    /\ DOMAIN disk = {"data", "inodes", "sbm", "ibm"}
    /\ disk.data \in [Sector -> Block]
    /\ \A inodes \in {disk.inodes, inode_table} :
         /\ DOMAIN inodes = Inode
         /\ \A n \in Inode : \A k \in DOMAIN inodes[n].exts :
              /\ inodes[n].dir
              /\ inodes[n].exts[k].block \in Sector /\ inodes[n].exts[k].length \in Nat \ {0}
    /\ disk.sbm \subseteq Sector /\ b \subseteq Sector
    /\ disk.ibm \subseteq Inode /\ fifth \subseteq Inode /\ inodebm \subseteq Inode
    /\ cwd \in Inode /\ inode_table[cwd].dir
    /\ DOMAIN entries = 0 .. MAX_DIR_ENTRIES - 1
    /\ goal \in Path \cup {<< >>}
    /\ {failures, errors} \subseteq Nat /\ failures + errors <= MaxFaults /\ outgrown \in BOOLEAN
    /\ behind \subseteq {"sbm", "ibm", "inodes", "data"} \X Nat

(* Until a directory gets its second sector or the disk refuses a write,   *)
(* every step of shell and disk keeps the promise of DirTree.              *)
Tree == INSTANCE DirTree
TreeSpec == Tree!Init /\ [][outgrown' \/ errors' > 0 \/ Tree!Next]_(Tree!vars)

(* Each sector of a directory is in the map and in no other directory.     *)
OwnSectors(inodes, map) ==
    \A m \in DirectoriesOf(inodes) :
        LET sectors == Sectors(inodes[m])
        IN  \A i \in DOMAIN sectors :
              /\ sectors[i] \in map
              /\ \A n \in DirectoriesOf(inodes) :
                   LET others == Sectors(inodes[n])
                   IN  \A j \in DOMAIN others : sectors[i] = others[j] => m = n /\ i = j

(* Whenever power fails, the disk has each sector of a directory marked as *)
(* used and in no other directory, unless it refused a write; the same     *)
(* holds in memory, whatever it refused.                                   *)
SectorsSafe == OwnSectors(inode_table, b) /\ (errors = 0 => OwnSectors(disk.inodes, disk.sbm))

(* cd .. leads back: the "." of every directory that is linked is itself,  *)
(* and its ".." the directory that has the entry.                          *)
Here(n) == IF n = cwd THEN entries ELSE disk.data[inode_table[n].exts[1].block]
ParentLinked ==
    pending = << >> /\ errors = 0 =>
      \A e \in {f \in tree : f.dir} :
          Here(e.is)[0] = dirent(".", e.is) /\ Here(e.is)[1] = dirent("..", e.in)

(* Between two commands of the shell the disk is behind the memory where a *)
(* write was refused, or is still to be made, and nowhere else: what was   *)
(* refused is made up for by the next write of that sector.                *)
DiskCurrent ==
    pending = << >> =>
      /\ \A n \in Inode : <<"inodes", SectorOf(n)>> \notin behind => disk.inodes[n] = inode_table[n]
      /\ <<"sbm", 0>> \notin behind => disk.sbm = b
      /\ <<"ibm", 0>> \notin behind => disk.ibm = inodebm
      /\ ~outgrown => \A k \in DOMAIN flush_dentry :
           Place(flush_dentry[k]) \notin behind => Written(flush_dentry[k]) = disk

(* No two entries lead to the same inode.                                  *)
OwnInode == \A e, f \in tree : e.is = f.is => e = f

(* A directory holds up to MAX_DIR_ENTRIES entries, and cd keeps them.     *)
EntriesKept == [][failures' = failures => tree \subseteq tree']_vars
=============================================================================
