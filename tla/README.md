# A TLA+ model of scrapos

scrapos is a 32-bit x86 kernel: a boot loader brings it into protected mode, and
then four tasks share one CPU, preempted by the timer 100 times a second. A
launcher starts a shell, the shell an editor, each in a window of its own; there
is a heap, a keyboard driver, a clock, and a small file system on the slave disk.

These modules model the kernel from its C code. TLC checks them on small
instances, TLAPS proves some of what they say for every instance. The code is
compiled with `-O0` (Makefile), so that every statement loads and stores the
globals it names; where tasks or interrupts can come in between, the modules take
the statements apart into loads and stores.

## 1. Inventory

Paths are below `src/src/kernel/`.

| Component | State | Operations | Interacts with | What is hard | What makes it correct |
|---|---|---|---|---|---|
| Task manager: `task_mgr.c`, `isr32` in `idt.asm` | a ring of TCBs, `head_task`, `tail_task`, `current_task`, `next_pid`; state, pid, parent and children of each | `SpawnTask`, `Schedule`, `set_task_state`, `awake_parent`, `KillTask`, `reaper` | called by all programs; the timer calls `Schedule`; TCBs and stacks come from the heap | preemption between any two statements; a ring that is linked and unlinked without a lock | one ring of live tasks, only READY tasks get the CPU, unique pids, the dead are reaped, parents are woken |
| Programs: `launcher.c`, `shell.c`, `ted.c` | a line buffer each | start a program and block; exit | keyboard, tasks, windows, file system | the caller blocks after the child may already have exited | no parent sleeps for ever |
| Keyboard: `keyboard.c` | a ring of 64 keys with two indices; shift, caps lock, extended | `HandleKeyboardInterrupt`, `read_key` | the interrupt writes, tasks read; arrow keys move the cursor | an interrupt inside `read_key`; two tasks that read | a queue: no key lost, doubled or out of order |
| Heap: `mem_mgr.c` | a circular list of block headers, `heap_tail`, `heap_pointer`, `heap_current` | `my_malloc`, `my_free`, `sbrk` | tasks, windows; the reaper frees at any time | `prev` and `heap_tail` that splits and merges leave behind; growth; preemption inside a call | blocks tile the heap, no two allocations overlap, the heap does not creep |
| Frames and page tables: `mmap.c` | a stack of free frames, the page directory, page tables | `pmm_alloc_page`, `vmm_map_page` | `sbrk` | frames run out; a table is installed before it is cleared; two tasks in `sbrk` | each frame used once, each page of the heap mapped, no other |
| File system: `fs.c`, image from `tools/fs.c` | on disk: inodes, two bitmaps, data; in memory: a copy of all, and the current directory | `init_fs`, `create_entry`, `cd`, `ls` | the shell; the disk driver; the clock for time stamps | power fails between two sector writes; memory and disk differ; directories that grow | saved entries survive, one entry per inode, one directory per sector |
| Clock and timer: `rtc.c`, `pit.c`, time stamps in `fs.c` | `systime`, `clock_timer`, `pit_ticks`; the digits on the screen | `read_rtc`, `update_clock`, `PITInterruptHandler`, `format_time`, `populate_inode_metadata` | `isr32`; the file system takes stamps | registers and fields read one by one while the clock runs; digits drawn piece by piece | a time that was shown; each carry once; digits and stamps that agree with the time |
| Cursor: `screen.c` | position, visibility, `cursor_busy`, bounds; inverted pixels | `draw_char`, `move_cursor`, `set_cursor`, `cursor_blink`, storing, resetting and restoring position and bounds | the timer blinks it and arrow keys move it while tasks draw; windows cover it | the toggle is not idempotent | one inverted cell or none; text inside the window; a closed window leaves the cursor where it was |
| Windows: `ui.c` | a ring of windows with both ends, a snapshot of the screen under each | `create_window`, `open_window`, `close_window` | heap, cursor | dangling ends after the last window is closed | the ring holds the open windows; a closed window leaves nothing |
| Disk driver: `disk_mgr.c` | none but the controller's | `dskrs2`, `dskws2` (and the unused `dskrs1`, `dskws1`) | file system | busy waits; errors returned that nobody looks at | a sector is written, or made up for later |
| Interrupt table and faults: `idt.c`, `idt.asm` | the IDT | set up once; fault handlers halt | everything | - | - |
| Boot loader, `kernel_main.c`, `string.c`, `file_io.c` | - | run once, or pure | - | `kstrtok` returns pointers into its own stack frame | - |

## 2. Modules

| Module | What it is |
|---|---|
| `TaskMgr` | task manager and the programs' spawning and exiting |
| `TaskMgrInv` | its inductive invariants; `TaskMgrProofs` holds the proofs, `MCTaskMgr` the instances |
| `KeyQueue` | what the keyboard promises: a bounded queue |
| `Keyboard` | the ring, the handler, `read_key`; `KeyboardProofs`, `MCKeyboard` |
| `HeapBlocks` | the list of block headers: splitting, merging, what it means to tile the heap |
| `Windows` | the ring of windows and the snapshots under them |
| `Heap` | both composed: whole calls of the allocator and of the windows that lie in it, in the orders the programs make them; `HeapInv` has its three inductive invariants, `HeapProofs` the proofs, `MCHeap` the instance |
| `HeapCalls` | `HeapBlocks` with the calls of several tasks taken apart and preempted; `HeapCallsInv` is its inductive invariant, `HeapCallsProofs` the proofs, `MCHeapCalls` the instance |
| `DirTree` | what the file system promises: a tree that survives power failures |
| `FileSystem` | `fs.c` over a disk of sectors; `FileSystemInv` is its inductive invariant, `FileSystemProofs` the proofs, `MCFileSystem` the instance |
| `Paging` | `sbrk`, frames and page tables; `PagingProofs`, `MCPaging` |
| `Clock` | `read_rtc`, the ticks, the digits, the time stamps; `ClockProofs`, `MCClock` |
| `Cursor` | drawing, moving and blinking, in windows that open and close; `CursorProofs`, `MCCursor` |

A definition carries the name of the function or global it stands for where there
is one. Definitions that are called a mutant (or stand under "plausible mistakes"
in `TaskMgr`) are broken variants of the definition that follows; nothing uses
them, and each of them makes one of the properties fail when it takes the place of
the real one (section 4).

### TaskMgr

Every access of `SpawnTask`, `set_task_state`, `KillTask` and `reaper` to memory that
others can see is a step of the task in `current_task`; `pc` holds the next one of
each task, as its stack does. The counter of children is read in one step and stored
in the next (`SpawnReadCount`, `SpawnCount`; `KillReadCount`, `KillUncount`), and the
slot follows in a step of its own (`SpawnSlot`, `KillSlot`). Two things are merged,
and no other task can tell: stores into a TCB that nobody else can reach yet go with
the next store that can be seen; and the search for a slot goes with the store into it, since
only a task itself fills its slots and only a child clears its own. `Tick` is the timer
interrupt and may come before any step. `awake_parent`, the unlink in `reaper`
and `Schedule` run with interrupts off and are one step. What a SpawnTask with a
full children list frees (`SpawnRefuse`) is part of the action.

- `my_malloc` is any free TCB address; the heap itself is module `Heap`. A free
  address may be one that was used before: all its fields are still there, as in
  freed memory.
- `Walk` is the set of TCBs a walk over `next` reads. After a race a walk can go
  round for ever; such a walk is taken as one that does not find its task. All
  properties are conditional on that race not having happened.
- `raced` records which races have happened: `pid` and `count` (two
  read-modify-writes of one counter), `link` (two tasks linking), `reap` (the
  reaper unlinks what a spawner is linking to), `walk` (the reaper frees what
  another task's walk has come to), `revive` (a ZOMBIE is made READY). The
  properties say that nothing else can break what they promise, which is as much
  as this code can promise. The races are listed as hazards.
- `my_malloc` returns NULL only when it fails to grow, which it never does (see
  `Paging`), so the NULL branches are left out. So is what no caller uses:
  `KillTask` of another task, `block_parent`, `get_task_tcb`.

### Keyboard

The handler is one step, with up to two `write_key`. `read_key` is taken apart into its six
loads and stores. Scancodes are kinds of keys: those `HandleKeyboardInterrupt`
switches on, a letter, a symbol, and the keys whose table entry is 0, which put a
0 into the ring that `read_key` delivers like any other.

### HeapBlocks, Windows, Heap

Sizes and addresses are in units of 16 bytes, the size of a header; everything
the kernel allocates is a multiple of it. `Chain` follows `next` as the code does,
so that the stale links are there to be followed. A window is the address that the
heap gave it, and the addresses that were windows keep their links, so that
`create_window` finds what `close_window` left behind.

The clients are the calls of `kernel_main`, `SpawnTask`, `open_window`,
`close_window` and `reaper`, in the orders the programs can make them (`todo`);
`reaper` comes between any two calls. Three things may go wrong and are recorded
in `broken`: the heap grows behind a stale `heap_tail` (`tail`), `my_free` merges
through a stale `prev` (`prev`), a link of a window is written into memory that has
another use by now (`link`). After the last two, live memory is overwritten and the
model stops. The programs are never refused a child (they cannot be: who starts a
program is blocked until it exits). The screen is two points: one that all windows
cover, and one where MEM_INSP draws again and again, under the editor's window.

### HeapCalls

`my_malloc` and `my_free` run with interrupts on. Here each store of theirs that another
call can see is a step, down to the four of a merge and the seven of a split, and so is each load
that decides what a call does: `is_free` and `size` in the search, the comparison with
`heap_pointer`, the count of pages. Three kinds of accesses go with the step that needs them: the loads
of a header that the call is at work on (`AtWork`: another call there is a race), the stores that
make the header of the rest before anything leads to it (`StoreRest`), and all that makes
the first block, which is there before the tasks start. `sbrk` is one step here
and in `Paging` many: two tasks in it are two that grow `heap_tail`.

Three scripts of calls run side by side: the task that starts a program, a program with its
window, and `reaper`, which frees what an earlier program left, with interrupts off.
`raced` names the overlaps after which the list may be anything: two calls at work on
one block (`window`), a search that stands on a block that is merged away, or a
`heap_pointer` that is left at one (`absorbed`), a block that is given out between the two loads
that find it free and large enough, and still is large enough (`taken`), growth by a number of pages that is
wrong (`pages`), and the two of `Heap` that need no overlap (`prev`, `tail`). So two growers that both
read `heap_tail->size`, or one that grows the block another is splitting, are a `window`.
`reaper` counts as `prev` whenever the `prev` of what it frees is stale, whether or not
it merges through it. Run `calls` reaches all of them but `prev`, for which its scripts are too short; run
`heap` reaches that one (`broken = "prev"`). The properties say that every other overlap
is harmless, which is as much as this code can promise. `ScriptAssumption` says which
scripts make sense: a task frees what it has allocated and has not freed since, and never has two
things of one role; `former`, the task that has exited, leaves a stack and a TCB for
`reaper`, and has made the first allocation, which is never freed (the boot task's, as
in `Heap`).

### FileSystem

The disk has the data sectors, the inode sectors and the two bitmaps. An operation
changes the memory in one step, since one shell runs at a time and nobody else touches
it, and queues the sector writes the code makes in `pending`, in the order in which
it makes them; `dskws2` carries out one, `init_fs` is a power failure and a
restart. `entries` is the cached current directory. The write of the fifth sector
of the sector bitmap hits the inode bitmap, with what `init_fs` read there.

- Names are model values; a path is `.` or `..`, then a name or `..`, and perhaps one more.
  `kstrtok` leaves its tokens in a dead stack frame, which `grab_dir` overwrites:
  names looked up after it may match anything, so `fd_dir` finds any linked
  directory or none, and one token stands for all that may come then.
- A file has no contents: no program writes any.
- There is always a free sector: an entry takes two at most, and the disk has
  20480 sectors for 512 inodes.
- The disk may refuse a sector write; `dskws2` returns an error code, and nobody
  looks at it. `behind` has the sectors that the memory is ahead of. Reads succeed.
- The prompt and `fd_file` are left out; the time stamps are in `Clock`.
- `CACHE_ERR` is left out: `fd_dir` finds directories only.

### Paging, Clock, Cursor

`Paging` numbers pages from HEAP_START and frames from 1; `Garbage` is what a frame
holds before its first use. Every access of `sbrk`, `pmm_alloc_page` and `vmm_map_page` to what
tasks share is a step: `sbrk` reads `heap_current` twice, `pmm_alloc_page` tests
`stack_pointer`, loads it, stores it one less and reads it again to index the array
(`TestStack`, `LoadPointer`, `StorePointer`, `ReadPage`). Only the clearing of a page table is one
step. Two tasks that overlap there (`overlapped`) may take one frame twice, or take the pointer below
the array; the word below it is `BEYOND`. Nothing returns frames.

`Clock` reads the registers one by one, while the clock chip (external) moves on by
whole seconds when its update flag is set; a month has 31 days, and month and year
are left out, since no tick ever reaches them. `face` is the pairs of digits that
`update_clock` draws one by one. `populate_inode_metadata` takes a stamp field by
field, with the timer in between.

`Cursor` counts in pixels, since the bounds of the windows are no multiples of a
cell; what is on the screen is the set of inverted cells. `draw_char`, `move_cursor`,
opening and closing are taken apart into their loads and stores; `cursor_blink`
and the arrow keys run in interrupts and are one step. Four things spoil what is
on the screen and are recorded in `spoiled`: a character drawn at the right edge
(`wrapped`), an arrow key while the task draws or moves (`arrow`), a window over a
visible cursor (`covered`), and a place that restoring does not bring the cursor back
to (`astray`). One task draws: a task that has started a program and set itself
BLOCKED runs on until the next tick, and its prompt may be drawn while the program
opens its window; that overlap is left out.

## 3. Runs

| Run | Configuration | Question | Bounds |
|---|---|---|---|
| shell | `TaskMgr_shell` | `IInv`, `FamilyInv`, `RingIntact`, `FamilyAgrees`, `PidUnique`, `RunsOnlyReady`, `WakerKept` | two TCBs beside the boot tasks; a child each; two pids; one kind of race |
| reaped | `TaskMgr_reaped` | `ExitReaped` under fairness | one TCB beside the boot tasks |
| heap | `Heap_programs` | `HeapTiled`, `TailUsable`, `NeverBroken`, `HeapBounded`, `WindowsListed`, `NothingLeft`, `BlocksInvariant`, `WindowsInvariant` | sizes of the code; unlimited starts while each comes after the last was reaped, and two once the reaper has been late, `test` and `test1` for the last |
| calls | `HeapCalls` | `CallsTiled`, `CallsInvariant`, `CallsEnd` | three scripts of up to seven calls; blocks of 1 to 3 units, pages of 16 |
| keys | `Keyboard_keys` | `TypeOK`, `InOrder`, `QueueSpec`, `KeyDelivered` | three slots, two readers, three key presses of up to two keys; until a read finishes inside another |
| fs_saved | `FileSystem_saved` | `TypeOK`, `ParentLinked`, `SectorsSafe`, `DiskCurrent`, `FileSystemInvariant`, `TreeSpec` | two names, four inodes, a power failure or a refused write, directories of up to two sectors of four entries |
| paging | `Paging_grow` | `TypeOK`, `FramesKept`, `NoStrayPage` | two tasks; 13 frames, tables of three entries, eleven pages |
| clock | `Clock` | `ReadRight`, `TimeKept`, `FaceRight`, `StampNotBehind`, `ClockRead` | three ticks a second, three seconds during the reading, twelve ticks after it, six times of day |
| cursor | `Cursor` | `NoTrace`, `InWindow`, `CursorRestored` | a screen of six by five cells, two windows over one another |

Why the bounds are enough: in `TaskMgr` two spawned tasks suffice for a spawner, a
child that exits, the reaper at work and a new TCB at a freed address at once; what
is true of more is proved. `Heap` uses the real sizes, and while the reaper is in
time its state space is finite of itself: that the heap does not creep is shown for
any number of programs. Three slots let the ring of keys be empty, full, and wrap
around. Four entries in a sector leave two beside `.` and `..`, so
that two entries fill a directory. Thirteen frames serve four page tables, with
the last frame going to a page while none is left. The clock starts before the end
of a minute, an hour and a day, here and three hours ahead. The windows of `Cursor`
lie over one another with bounds beside the grid of the screen, as in the code. In
`HeapCalls` a page is small enough for the heap to grow during the scripts; that nothing
overlaps is proved for any number of tasks and any scripts.

Constraints on the instances, named in the MC modules: `Few` (`TaskMgr`),
`FewLate` (`Heap`), `Ordered` (`Keyboard`),
`Followed` (`Paging`: two tasks that have overlapped in `sbrk` are followed for three pages, later until
one of them leaves it), `StillGood` (`Cursor`: nothing is followed after an arrow key
has come in between or the cursor went astray). `MarkedSpec` of `FileSystem` lets power fail
only when the inode bitmap on the disk marks the saved inodes (`InodesMarked`); without that the
fault that run `fs_inodes` shows would break everything else. Its faults are of one kind: power
fails once, or the disk refuses writes, since a restart from a disk that refused a write may
find what no operation has left there. In run fs_saved there is one of either; the theorems have any
number of refused writes. `MaxPid`,
`MaxOffered`, `MaxDepth`, `MaxFaults`, `MaxPages`, `MaxSeconds`, `MaxTicks`,
`MaxLate` and `Right` bound what would grow for ever. Deadlock is checked except
where a bound ends the run: `Heap` (a call that `MaxDepth` cuts off, a broken heap),
`HeapCalls` (the scripts end, or a race), `Paging` (all pages mapped) and `Clock`
(the last tick).

Fairness. `TaskMgr`: the timer ticks (weak fairness of `Tick`), and a task that
gets the CPU again and again makes a step again and again (strong fairness), since a time slice of 10 ms is
long enough for a statement; the user is not fair. `Keyboard`: a program calls
`read_key` in a loop and is scheduled. `HeapCalls`: the scheduler goes round, so that every task goes on with
its call, and makes its next one. `Clock`: the loop of `read_rtc` runs, and an
update ends; the seconds during the reading are bounded, as the loop is far faster
than a second.

### What disagrees with what the code says of itself

Each of these runs ends with a counterexample.

| Run | Property | What the code does |
|---|---|---|
| heap_expand | `ExpansionFits` | `heap_tail` is stale after a merge, growth goes to a dead header; from then on that header is large enough, so no page is missing, and `my_malloc` calls itself for ever without mapping one |
| fs_inodes | `OwnInode` | `flush_sbm` overwrites the inode bitmap with its state at boot; after a power failure two entries share an inode |
| fs_grown | `EntriesKept` | `cache_dir` reads one sector of each extent: entries beyond it are lost by `cd` |

Further on in the same direction, and behind the conditions of the properties: a
task that has set itself BLOCKED runs on until the next tick and may read a key; a
reaper that unlinks the tail while a spawner links behind it leaves a ring that
leads into freed memory (race `reap`); a late reaper lets `my_free` merge through a
stale `prev` over a live allocation (`broken = "prev"`), and lets the next
`create_window` write a link into memory that has another use (`broken = "link"`);
the hour on the screen stays that of the boot, and its first minute is shown as 60;
a stamp taken while a minute ends may be a minute, an hour or a day ahead; when the frames run out,
physical page 0 becomes heap memory (`starved`); a directory that has outgrown its
sector is on the disk with its old length until an inode of the same sector is
written, so that a power failure loses its new entries (`outgrown`).

## 4. Properties and mutants

Each property of a passing run is violated when one definition is replaced by the
mutant beside it.

| Property | It fails when | Mutant |
|---|---|---|
| `IInv` | `SpawnTask` does not advance `tail_task` | `TailNotAdvanced` |
| `FamilyInv` | the walk for the parent begins at the task itself | `WalkFromSelf` |
| `RingIntact` | the reaper does not move `tail_task` back | `TailNotMoved` |
| `FamilyAgrees` | an exiting task stays in `children` | `SlotNotCleared` |
| `RunsOnlyReady` | `Schedule` skips ZOMBIE tasks only | `BlockedIsRunnable` |
| `WakerKept` | `KillTask` does not wake the parent | `ParentNotWoken` |
| `PidUnique` | `next_pid` is not stored | `PidNotAdvanced` |
| `ExitReaped` | the reaper looks at one task only | `ScanStuck` |
| `HeapTiled` | a merge forgets the size of the header | `HeaderLost` |
| `NeverBroken`, `TailUsable` | a split forgets `heap_tail` | `TailForgotten` |
| `HeapBounded` | nothing is merged | `NothingMerged` |
| `BlocksInvariant` | the header of the rest is not counted when a block is split | `FitsExactly` |
| `WindowsListed`; `NothingLeft`, `WindowsInvariant` | closing leaves `top_window`; the snapshot is taken of the new window | `StillTop`, `SnapshotTooLate` |
| `CallsTiled`, `CallsInvariant`, `CallsEnd` | a block is given out and stays free; a split forgets `heap_tail`; the search ends at `heap_tail` | `NotOccupied`, `TailForgotten`, `EndsAtTail` |
| `TypeOK`, `QueueSpec`, `InOrder`, `KeyDelivered` | the index does not wrap; full too early; full not noticed; the last key is kept | `IndexNotWrapped`, `FullTooEarly`, `FullNotNoticed`, `LastKeyKept` |
| `TypeOK`, `ParentLinked`, `TreeSpec`, `SectorsSafe` | an inode past the last; `..` is the directory itself; the last sector is not flushed; the bitmap is not flushed | `PastTheLast`, `OwnParent`, `LastNotFlushed`, `OnlyFifth` |
| `DiskCurrent`, `FileSystemInvariant` | the inodes of other sectors are written | `InodesBeside` |
| `TypeOK`, `FramesKept`, `NoStrayPage` | an empty stack is popped; a frame stays on it; a table is not cleared | `EmptyNotNoticed`, `NotTaken`, `TableNotCleared` |
| `ReadRight`, `ClockRead` | minutes are not compared; the last reading is not kept | `SameButMinutes`, `NotKept` |
| `TimeKept`, `FaceRight`, `StampNotBehind` | the hour does not go back to 0; the minute is drawn as it was; a stamp begins with the day | `HourGoesOn`, `MinuteBefore`, `LastFirst` |
| `NoTrace`, `InWindow`, `CursorRestored` | `cursor_busy` is not set; the edge is noticed too late; the cursor is moved back in the bounds of the window that closes | `NotBusy`, `EdgeTooLate`, `BoundsKept` |

## 5. Proofs

Assumptions are those of the modules: the boot TCBs are different, programs are
among the four, a ring of keys has two slots at least, sizes are at least 1, the slots
of the programs are not `boot`, the scripts of `HeapCalls` make sense (section 2; its theorems
borrow the lemmas about lists of blocks from `HeapProofs`), and an inode sector has two inodes less than a sector
of a directory has entries (4 and 16 in `fs.h`).

**Ring of tasks** (`TaskMgrProofs`). `TypeCorrect` is
inductive once it is known that a task between its allocation and its last link has
a new TCB (`NewOK`). `RingIntact` is not inductive: whether a link keeps the ring
depends on who owns the TCB being linked (`Owners`), on only one task linking
(`OneLinker`), on where `tail_task` points at each of the four stores (`TailOK`),
and whether an unlink keeps it on what the reaper holds (`Dead`). `IInv` of
`TaskMgrInv` adds these. The hard cases are `SpawnLinkNext`, which makes the
new TCB reachable while `head_task->prev` is behind, and `ReapFree`, where every set
that is closed under the new links is shown to be closed, after adding the TCB
that was unlinked where needed, under the old ones, so that it contains the head.
`Schedule` is a walk in a set closed under `next` (`WalkClosed`); since the
ring is one and the boot context is READY when it does not run (`HeadReady`), it
always finds a READY task, which is `SchedulerRunsReady`. `Invariance`
is `Spec => []IInv`; TLC checks the same `IInv` in run `shell`. On top of it
`PidsStayUnique` shows that `next_pid` is above every pid that was given out, and
what the one task in `next_pid++` has loaded is `next_pid` still (`Pids`): so pids
stay unique while the ring is safe, which is needed to know that
no task is freed in the middle of a SpawnTask. TLC checks `PidUnique` without that
condition.

**Families** (`TaskMgrProofs`). A task finds its parent by pid, in a walk over
the ring that others change meanwhile; the counter of children and the slot are changed one after
the other, so that between the two the counter stands for the slots but those just being filled or cleared (`Claimed`).
`FamilyInv` adds to `Pids` that a parent is in the ring and older than its children (`Elders`), what a
spawner has written of its new task (`Born`), that a task keeps its slot in `children` until its KillTask gives
it up (`Slots`, `Holding`), what was loaded of a counter (`Counting`), and that a walk of KillTask
has not passed the parent it seeks (`Seeking`): going back from the parent over `next`, but not past the walker
itself, one comes by the task where the walk is, whatever is linked or unlinked meanwhile.
So a walk that finds no parent is one whose
parent is dead (`FamilyInvariance`, which TLC checks too). `ChildrenAgree` and `NobodyStranded` follow:
the step that ends the last waker of a BLOCKED parent is the `awake_parent` that wakes it.

**Ring of keys** (`KeyboardProofs`). The modulus is replaced by a case
distinction (`NextSlot`), and the invariant says which slot holds which accepted
key and what each reader has loaded (`RingHolds`, `ReaderHolds`), as long as no
read finished inside another. `KeysInOrder` follows. `KeyboardImplementsQueue` maps
every step to a step of `KeyQueue` or a stutter: a key press of one or two
`write_key` to `Offer`, `ReadStore` to `Deliver`, until two reads have
overlapped; with one reader nothing does (`OneReader`), and the promise holds without
a reservation (`OneReaderQueue`).

**Pages and frames** (`PagingProofs`). `PagingTyped` holds whatever overlaps, but for the part that
says that the pointer and the frames stay within the array: that needs that
no two tasks were in `sbrk` at once, so that what a task has loaded is what it stores back. It also needs
that a directory entry, once written, is never absent again (`Located`). For
the other two the uses of a frame are split by kind (a page, a table, taken for
either), and `Accounted` says that exactly one is a singleton for each frame
off the stack, also while the pointer is stored and the frame not yet read; `Growing` says how far the one task in `sbrk` has got, in particular
that no page of the heap is under the table that is still to be cleared; that
tables are in different frames (`TablesApart`) follows, and so does that clearing
one and writing its entry leave all other pages as they are. Division is used
through one lemma, `Place`.

**Clock** (`ClockProofs`). Seconds since the boot are counted by `Quotients`, a tick at a
time. `FaceKept` adds to `FaceRight` that the drawn hour is the one of the boot;
`StampHolds` says of a stamp that is still being taken what it would be were the
rest taken now, so that a tick between two fields is compared with no tick. `RightRead`
is about the reading at boot: the two passes that agree in all registers have read them
between two ticks at most, since within less than a minute the seconds differ after every tick
(`Passes`, `ShownOnce`). Its hypothesis is that all the reading takes less
than a minute; for longer the code promises nothing, since the minute may end between
equal seconds.

**Cursor** (`CursorProofs`). `NoTraceLeft` rests on `Traceless`: at each step of the task,
whether the cell is restored or shown, given what `saw` holds, that `cursor_busy`
keeps the timer out in between, and that no vault holds an inverted cell.
`CursorIsRestored` rests on `Placed`: all places are whole cells apart, so that the
division in `set_cursor` loses nothing, and `Returning`: how far the move back has got.
Both hold for any sizes and any number of windows over one another.
`TextStaysInWindow` says that no character is drawn wholly outside the bounds, but on the last line: less than a
cell of it may lie left of or above them, and less than a cell right of or below them, as in the window of the launcher, whose bounds end at
620 while a glyph may take 616 to 624. It needs room (`RoomAssumption` of `Cursor`): all bounds are
at least a cell wide and high, and text starts in them, a cell from the edges of the screen;
the windows of `launcher.c`, `shell.c` and `ted.c` all do. It rests on `TidyInv`: where the position is
at each step of `draw_char` and `move_cursor`, with what rounding in `set_cursor` adds.

**Heap** (`HeapProofs`). `HeapStaysTiled` holds for any sizes, any programs and any order of
their calls: while no link was used that is stale, the blocks tile the heap. The list
is given by a recursion over `next`; what is proved by induction over it is
stated about sets of naturals (`Least`, `Induct`), and `Unroll` shows that the
recursive function exists. In a tiling the k-th block has k blocks below it, so that
the walk reaches them all and comes round (`TilingReached`), and conversely a set of headers that is
a tiling is the set of blocks (`BlocksAreTiling`): for a split, a merge in
either direction and growth it is enough to give the new set (`Splitting`, `Merging`,
`Growing`). `Sound` says nothing of `heap_tail` and `prev`, which may be stale. That
growth with a stale `heap_tail` is noticed (`broken`), and that a merge with
a block that is not the one before is, is in the model; that what is freed was given out, and
once, is `Protocol`: a call of `my_free` to come has its allocation, a dead task has its stack
and TCB until `reaper` comes, a running program has or will have all four. `Founded` says that
the first block belongs to a boot task for ever: so merging never wraps round to `heap_start`.
`HeapInvariance` is `Spec => []HeapInvariant`.

`TailStaysUsable` says that the stale `heap_tail` does no worse than that. Splits and merges keep the
end of every block but the last below `heap_tail` (`TailInLast`): the end of a merged block is that of the
block it took in (`Ends`), a split behind which nothing follows moves `heap_tail`, and every other ends
where the block did. So `heap_tail` is in the last block, which is free, and nobody's data is
there (`TailFree`). If it is that block's header, growth makes the block longer; if it is a header
that a merge has taken in, growth changes neither the blocks nor what fits (`GrownAside`), and `my_malloc` calls
itself again for the same (`Stuck`). From there, and from the two other faults, no other
operation follows (`NoWayOut`); this is why `TailUsable` holds without a
reservation. `TailInvariance` is `Spec => []TailInvariant`; TLC
checks both as `BlocksInvariant`.

`NothingIsLeft` holds for any points of the screen, any windows over one another and any sizes.
Each vault has what the windows below its own showed when that one was opened (`Kept`). That is still right when
the window closes because windows close in the opposite order (`Nested`: the window of the i-th program
is the i-th, and who started a program is blocked until it exits), and because the memory of a
window is nobody else's until it is closed (`OneWindow`, with `GivenOut` of
`HeapInvariant`), so that no other vault is kept under its address. MEM_INSP draws over whatever
is there, and a vault may have what it drew; `Shows` allows for that. `WindowsInvariance` is
`Spec => []WindowsInvariant`. TLC checks it too.

**Heap calls** (`HeapCallsProofs`). `CallsStayTiled` holds for any tasks, scripts and sizes, whatever
preempts what, until a race is recorded in `raced`. In the middle of calls the headers are no
tiling: a split makes the block lead to the rest before it is made shorter, a merge
makes it longer before it leads on, and growth has a page before `heap_tail` has.
So `CallsInvariant` speaks of the headers as a walk along `next` has them (`View`): a block whose
`size` and `next` have not both been stored (`Torn`) goes as far as its `next`, one that is given
out (`GivesOut`) is occupied, and a page that `heap_tail->size` has not
grown by is not mapped (`Mapped`). These tile the heap at every store (`Laid`), and what is
occupied is what was given out.

Five steps of the calls change the view: the first block, `Link`, `Mark`, `Widen`, and the
store to `next` of a merge; for these there are `FirstLaid`, `TakeLaid`, `MarkLaid`, `GrowLaid` and
`MergeLaid`, which take any headers. No other step does (`Quiet`, `Still`, `Viewed`). `Knows` has what a call
in progress relies on, by what it is doing: `Splits`, `Absorbs`, `Backs`, or that `heap_tail` is
the last block. A step of another call keeps that (`OthersStay`, `OthersKnow`), because no two are
at work on one block (`Apart`), and a step writes only where its call is at work
(`Writes`). This is why `AtWork` must count both neighbours of a block that is freed, and
why a task that grows the last block while another splits it is a race (`window`): the page that is
added to the block before it is made shorter may end up in no block.
`reaper` frees two blocks at once: `FreedLaid` is about headers that agree with those of the view near
what is freed (`Alike`, `Overlay`), and the calls it preempts keep theirs (`Preempted`, `ReapedView`).

Under all this lies that a call of `my_free` finds what it frees: what a task owns is what its
calls say (`Owned`), and the first block is for ever that of the first call (`Rooted`), so that no
merge wraps round to `heap_start`. `Knows` has nothing of the `prev` of a block before my_free has
found it not stale: a merge through one that is stale is the race `prev`. `CallsInvariance` is
`CallsSpec => []CallsInvariant`; TLC checks it too. At rest no block is torn or given
out, so that the headers themselves tile the heap; and at any time what was given out is occupied in
the view, so that it never overlaps.

**File system** (`FileSystemProofs`). The theorems are about `MarkedSpec`, with one power
failure or any number of refused writes, for any numbers of inodes, sectors, entries and names. `Stored`
of `FileSystemInv` is inductive. `Writing` says what is in `pending`: the last
writes of `flush_dentry`, or of the creation of the newest inode. `SectorsSafe` needs to know of the
inodes on the disk that they are those in memory but for the lengths and the newest (`Followed`), so
that the sector bitmap on the disk, which is written before them, marks what they use (`Prepared`).
A directory that has grown would break this when its inode is written, before the
bitmap: but it grows when its first sector is full, its entries
lead to inodes behind its own without a gap (`Heads`), and inodes are taken in order
(`Segment`), so that all inodes of its sector are in use, and the sector is never written
again (`Outgrown`); this is what `SectorAssumption` is for. The entries themselves must
lead to marked inodes wherever `cd` may lead (`Readable`): in the sectors of all
directories, but for one that is still to be written or, after a power failure, may be
older than its inode (`Settled`), and directories that a power failure has left without a mark (`Orphan`)
hold no entries. `DiskStaysCurrent` adds `Current`, which says of each sector that the disk has it as in
memory, unless it is in `behind` or a write of it is in `pending` (`Lags`): every write, refused or not, every entry
and every restart keeps this, sector by sector. `ParentsStayLinked` adds `Linked`: every entry that is a
directory, in memory or in a settled sector of a directory, leads to a sector whose "." and ".."
are right (`Child`), unless that directory is the one whose first write is still to come (`Unwritten`):
then it belongs to the current directory, whose "." in memory is the one on the disk (`Cached`), so the write that
comes is right too.

`PromiseKept` is the refinement, `MarkedSpec => TreeSpec`. That `cd` leaves a directory only when the disk has
its entries, and for one that the disk leads to, is `Saving` and `SavedAbove`; that power takes
nothing but what the current directory had since it was last written, `Ahead`. A write that puts
the inodes or a bitmap on the disk shows nothing, since nothing saved leads to the newest inode, and
the sectors it has, or had before a power failure, hold no entries (`NewestApart`, `FreeUnnamed`): these
are `Kept`, the last part of `FileSystemInvariant`, which TLC checks too. Each step then maps
to one of `DirTree` or to none (`Promised`): `create_entry` to `Create`, or to none when no
inode is left; the write of `cd` to `Save` and its end to `ChangeDir`; `init_fs` to `PowerFailure`; and the writes of
a new inode (`Gentle`) and `cd` before it writes to none.

**Only model-checked.** Liveness (`ExitReaped`, `KeyDelivered`, `CallsEnd`, `ClockRead`):
TLAPS has no rules for fairness here. Of `Heap`: `NeverBroken`, `HeapBounded` and
`WindowsListed` are about the addresses that the search finds, and so depend on the sizes of the code, which
the run uses: with others they may fail.

## 6. Not modelled

- The boot loader, the interrupt table and the fault handlers run once or halt.
- What is drawn is left out except for the cursor, the clock, and which window is on top.
- `string.c` is pure; its influence on control, the dangling tokens of `kstrtok`,
  is in `FileSystem`, and `itoa` in `Clock`.
- `file_io.c` has no caller.
- The line buffers of `shell.c` and `launcher.c` and the parsing of commands: which
  command a line is, is a choice of the user in all modules.
- Reads that the disk refuses, and the handshake of `disk_mgr.c` with the controller.
- A second task at the cursor at the same time (see `Cursor`), and windows whose ring is half linked:
  opening and closing are one step in `Heap`.

## 7. Plan

In this order; done so far: 1 to 10.

1. `TaskMgr` with its proofs: everything runs on it, and it is where interleaving bites.
2. `KeyQueue`, `Keyboard` with the refinement, checked and proved.
3. `Heap`: the stale links under the kernel's own sequences of calls.
4. `DirTree`, `FileSystem`: power failures. 5. `Paging`. 6. `Clock`. 7. `Cursor`.
8. `Windows`: the ring of `ui.c` with its dangling ends, in `Heap`; the cursor it
   stores and restores, in `Cursor`.
9. `HeapCalls`: `my_malloc` and `my_free` preempted.
10. Proofs for `Clock`, `Cursor` and `Paging`, and `PidUnique` of `TaskMgr`; refused writes
    in `FileSystem`.
11. Line buffers and the command parser of `shell.c` and `launcher.c`, `kstrtok` against a
    reference definition.
12. The handshake of `disk_mgr.c` and reads that fail, under `FileSystem`.
13. Proofs: `WakerKept` and `FamilyAgrees` of `TaskMgr`, `ReadRight`, `InWindow`,
    `HeapTiled`, `TypeOK`, `SectorsSafe`, `DiskCurrent`, `ParentLinked` and `TreeSpec` of `FileSystem`,
    `CallsTiled` of `HeapCalls`, `TailUsable` and `NothingLeft` of `Heap` (done); then several power failures in `FileSystem`.
