---------------------------- MODULE PagingProofs ----------------------------
(***************************************************************************)
(* For any number of frames, tasks and pages: sbrk keeps every frame in    *)
(* one use, and maps the pages of the heap and no other, until two tasks   *)
(* are in it or memory runs out.                                           *)
(***************************************************************************)
EXTENDS Paging, FiniteSetTheorems, TLAPS

USE SizesAssumption

(* The page a task is about to map is below its new break, and the table   *)
(* of the page is there when the task writes to it.                        *)
Located ==
    \A t \in Task :
      /\ pc[t] \notin {"out", "again", "move"} => old[t] < new[t]
      /\ pc[t] \in {"clear", "entry"} => page_directory[pd_index(old[t])] # ABSENT
      /\ top[t] <= Frames

(* A task alone in sbrk: nobody moves the pointer between its test, the    *)
(* load and the store.                                                     *)
Alone ==
    \A t \in Task :
      /\ pc[t] # "out" => \A u \in Task : pc[u] # "out" => u = t
      /\ pc[t] = "load" => stack_pointer >= 1
      /\ pc[t] = "store" => stack_pointer >= 1 /\ top[t] = stack_pointer
      /\ pc[t] = "read" => stack_pointer >= 0 /\ top[t] = stack_pointer + 1
Typed == TypeOK /\ Located /\ (~overlapped => Alone)

-----------------------------------------------------------------------------
(* The place of a page in the directory and in its table.                  *)
LEMMA Place ==
    ASSUME NEW p \in Nat
    PROVE  /\ pd_index(p) \in Nat /\ pt_index(p) \in Entry
           /\ p = pd_index(p) * NO_OF_ENTRIES + pt_index(p)
<1>1. p = NO_OF_ENTRIES * (p \div NO_OF_ENTRIES) + (p % NO_OF_ENTRIES)
      /\ p % NO_OF_ENTRIES \in 0 .. NO_OF_ENTRIES - 1 /\ p \div NO_OF_ENTRIES \in Nat
  OBVIOUS
<1> QED BY <1>1 DEF pd_index, pt_index, Entry

LEMMA InDirectory == \A p \in 0 .. MaxPages : pd_index(p) \in Directory
<1> SUFFICES ASSUME NEW p \in 0 .. MaxPages, pd_index(p) > pd_index(MaxPages) PROVE FALSE
  BY Place DEF Directory, pd_index
<1>1. /\ p = pd_index(p) * NO_OF_ENTRIES + pt_index(p) /\ pt_index(p) \in Nat
      /\ MaxPages = pd_index(MaxPages) * NO_OF_ENTRIES + pt_index(MaxPages)
      /\ pt_index(MaxPages) < NO_OF_ENTRIES
      /\ pd_index(p) \in Nat /\ pd_index(MaxPages) \in Nat
  BY Place DEF Entry
<1>2. \A a, b \in Nat : a > b => a * NO_OF_ENTRIES >= b * NO_OF_ENTRIES + NO_OF_ENTRIES
  <2> TAKE a, b \in Nat
  <2> HAVE a > b
  <2> PICK c \in Nat : a = b + 1 + c
    BY a - b - 1 \in Nat
  <2>1. a * NO_OF_ENTRIES = b * NO_OF_ENTRIES + NO_OF_ENTRIES + c * NO_OF_ENTRIES
    OBVIOUS
  <2>2. c * NO_OF_ENTRIES >= 0 /\ c * NO_OF_ENTRIES \in Int /\ b * NO_OF_ENTRIES \in Int
    OBVIOUS
  <2> QED BY <2>1, <2>2
<1>3. pd_index(p) * NO_OF_ENTRIES >= pd_index(MaxPages) * NO_OF_ENTRIES + NO_OF_ENTRIES
  BY <1>1, <1>2
<1>4. pd_index(p) * NO_OF_ENTRIES \in Nat /\ pd_index(MaxPages) * NO_OF_ENTRIES \in Nat
  BY <1>1
<1> DEFINE above == pd_index(p) * NO_OF_ENTRIES
           below == pd_index(MaxPages) * NO_OF_ENTRIES
<1>5. /\ above \in Nat /\ below \in Nat /\ above >= below + NO_OF_ENTRIES
      /\ p = above + pt_index(p) /\ pt_index(p) \in Nat
      /\ MaxPages = below + pt_index(MaxPages)
      /\ pt_index(MaxPages) \in Nat /\ pt_index(MaxPages) < NO_OF_ENTRIES
  BY <1>1, <1>3, <1>4, Place DEF Entry
<1> HIDE DEF above, below
<1> QED BY <1>5

LEMMA OneMore ==
    ASSUME NEW n \in Nat
    PROVE  0 .. (n + 1) - 1 = (0 .. n - 1) \cup {n} /\ n \notin 0 .. n - 1
OBVIOUS

LEMMA SamePlace ==
    ASSUME NEW p \in Nat, NEW q \in Nat, pd_index(p) = pd_index(q), pt_index(p) = pt_index(q)
    PROVE  p = q
BY Place

-----------------------------------------------------------------------------
(* Types of the page tables and of what the tasks in sbrk hold, however    *)
(* many of them there are.                                                 *)
LEMMA TypedInit == Init => Typed
<1> SUFFICES ASSUME Init PROVE Typed
  OBVIOUS
<1>1. tables \in [Physical -> [Entry -> Physical \cup {ABSENT}]]
  BY DEF Init, Physical
<1>2. Located /\ Alone
  BY DEF Init, Located, Alone
<1>3. /\ stack_pointer \in Int /\ stack_pointer <= Frames /\ stack_pointer >= 0
      /\ heap_current \in 0 .. MaxPages
  BY DEF Init
<1>4. NOTHING \in Physical /\ NOTHING # BEYOND /\ ABSENT # BEYOND
  BY DEF Physical, NOTHING, ABSENT, BEYOND
<1>5. /\ page_directory \in [Directory -> Physical \cup {ABSENT}]
      /\ \A d \in Directory : page_directory[d] # BEYOND
  BY <1>4 DEF Init
<1>6. \A t \in Task : phys[t] # BEYOND /\ pt[t] # BEYOND
  BY <1>4 DEF Init
<1>7. /\ phys \in [Task -> Physical] /\ pt \in [Task -> Physical]
      /\ wants \in [Task -> {"frame", "table"}] /\ top \in [Task -> Int]
      /\ old \in [Task -> 0 .. MaxPages] /\ new \in [Task -> 0 .. MaxPages]
  BY <1>4 DEF Init
<1> QED BY <1>1, <1>2, <1>3, <1>5, <1>6, <1>7 DEF Init, Typed, TypeOK

(* What pmm_alloc_page returns.                                            *)
LEMMA ReturnTyped ==
    ASSUME Typed, NEW t \in Task, NEW frame \in Physical, Return(t, frame)
    PROVE  /\ pc' = [pc EXCEPT ![t] = IF wants[t] = "frame" THEN "lookup" ELSE "install"]
           /\ phys' \in [Task -> Physical] /\ pt' \in [Task -> Physical]
           /\ frame # BEYOND =>
                \A u \in Task : (phys[u] # BEYOND => phys'[u] # BEYOND) /\ (pt[u] # BEYOND => pt'[u] # BEYOND)
           /\ wants[t] \in {"frame", "table"}
BY DEF Return, Typed, TypeOK

LEMMA TypedStep == Typed /\ [Next]_vars => Typed'
<1> SUFFICES ASSUME Typed, [Next]_vars PROVE Typed'
  OBVIOUS
<1> USE DEF Typed, TypeOK, Located, Goto, memory, history
<1>0. CASE UNCHANGED vars
  BY <1>0 DEF vars, Alone
<1>1. ASSUME NEW t \in Task, sbrk(t) PROVE Typed'
  <2>1. ~overlapped' => Alone'
    <3>1. ~overlapped' => \A u \in Task : pc[u] = "out"
      BY <1>1 DEF sbrk
    <3>2. pc' = [pc EXCEPT ![t] = "again"]
      BY <1>1 DEF sbrk
    <3> QED BY <3>1, <3>2 DEF Alone
  <2> QED BY <1>1, <2>1 DEF sbrk
<1>2. ASSUME NEW t \in Task, ReadAgain(t) PROVE Typed'
  <2>1. ~overlapped' => Alone'
    BY <1>2 DEF ReadAgain, Alone
  <2> QED BY <1>2, <2>1 DEF ReadAgain
<1>3. ASSUME NEW t \in Task, TestStack(t) PROVE Typed'
  <2>1. ~overlapped' => Alone'
    <3>1. CASE stack_pointer = 0
      BY <1>3, <3>1, ReturnTyped DEF TestStack, Alone, Physical
    <3>2. CASE stack_pointer # 0
      BY <1>3, <3>2 DEF TestStack, Alone
    <3> QED BY <3>1, <3>2
  <2>2. CASE stack_pointer = 0
    <3>1. Return(t, NOTHING) /\ NOTHING \in Physical /\ NOTHING # BEYOND
      BY <1>3, <2>2 DEF TestStack, Physical, NOTHING, BEYOND
    <3> QED BY <1>3, <2>1, <2>2, <3>1, ReturnTyped DEF TestStack
  <2>3. CASE stack_pointer # 0
    BY <1>3, <2>1, <2>3 DEF TestStack
  <2> QED BY <2>2, <2>3
<1>4. ASSUME NEW t \in Task, LoadPointer(t) PROVE Typed'
  <2>1. ~overlapped' => Alone'
    BY <1>4 DEF LoadPointer, Alone
  <2> QED BY <1>4, <2>1 DEF LoadPointer
<1>5. ASSUME NEW t \in Task, StorePointer(t) PROVE Typed'
  <2>1. top[t] \in Int /\ top[t] <= Frames
    OBVIOUS
  <2>2. ~overlapped' => Alone' /\ stack_pointer' >= 0
    BY <1>5, <2>1 DEF StorePointer, Alone
  <2> QED BY <1>5, <2>1, <2>2 DEF StorePointer
<1>6. ASSUME NEW t \in Task, ReadPage(t) PROVE Typed'
  <2> DEFINE frame == page_addresses(stack_pointer)
  <2>1. frame \in Physical
    BY DEF page_addresses, Physical, Frame
  <2>2. ~overlapped => frame # BEYOND
    <3>1. ~overlapped => stack_pointer >= 0 /\ top[t] = stack_pointer + 1 /\ top[t] <= Frames
      BY <1>6 DEF ReadPage, Alone
    <3> QED BY <3>1 DEF page_addresses, BEYOND
  <2>3. Return(t, frame)
    BY <1>6 DEF ReadPage
  <2> HIDE DEF frame
  <2>4. ~overlapped' => Alone'
    <3>1. pc' = [pc EXCEPT ![t] = IF wants[t] = "frame" THEN "lookup" ELSE "install"]
      BY <2>1, <2>3, ReturnTyped
    <3>2. pc[t] = "read" /\ UNCHANGED <<stack_pointer, top, overlapped>>
      BY <1>6 DEF ReadPage
    <3> QED BY <3>1, <3>2 DEF Alone
  <2> QED BY <1>6, <2>1, <2>2, <2>3, <2>4, ReturnTyped DEF ReadPage
<1>7. ASSUME NEW t \in Task, Lookup(t) PROVE Typed'
  <2>1. ~overlapped' => Alone'
    BY <1>7 DEF Lookup, Alone
  <2> QED BY <1>7, <2>1 DEF Lookup
<1>8. ASSUME NEW t \in Task, InstallTable(t) PROVE Typed'
  <2>1. pd_index(old[t]) \in Directory
    BY InDirectory
  <2>2. ~overlapped' => Alone'
    BY <1>8 DEF InstallTable, Alone
  <2>3. pt[t] \in Physical /\ pt[t] # ABSENT
    BY DEF Physical, Frame, NOTHING, ABSENT, BEYOND
  <2>4. Located'
    BY <1>8, <2>1, <2>3 DEF InstallTable
  <2>5. ~overlapped' => \A d \in Directory : page_directory'[d] # BEYOND
    BY <1>8, <2>1 DEF InstallTable
  <2>6. page_directory' \in [Directory -> Physical \cup {ABSENT}]
    BY <1>8, <2>1, <2>3 DEF InstallTable
  <2> QED BY <1>8, <2>2, <2>4, <2>5, <2>6 DEF InstallTable
<1>9. ASSUME NEW t \in Task, ClearTable(t) PROVE Typed'
  <2>1. pd_index(old[t]) \in Directory
    BY InDirectory
  <2>2. ~overlapped' => Alone'
    BY <1>9 DEF ClearTable, Alone
  <2> QED BY <1>9, <2>1, <2>2 DEF ClearTable
<1>10. ASSUME NEW t \in Task, WriteEntry(t) PROVE Typed'
  <2>1. pd_index(old[t]) \in Directory /\ pt_index(old[t]) \in Entry
    BY InDirectory, Place
  <2>2. ~overlapped' => Alone'
    BY <1>10 DEF WriteEntry, Alone
  <2>3. old[t] < new[t]
    BY <1>10 DEF WriteEntry
  <2>4. old' \in [Task -> 0 .. MaxPages]
    BY <1>10, <2>3 DEF WriteEntry
  <2>5. Located'
    BY <1>10, <2>3 DEF WriteEntry
  <2>6. tables' \in [Physical -> [Entry -> Physical \cup {ABSENT}]]
    BY <1>10, <2>1 DEF WriteEntry
  <2> QED BY <1>10, <2>2, <2>4, <2>5, <2>6 DEF WriteEntry
<1>11. ASSUME NEW t \in Task, MoveBreak(t) PROVE Typed'
  <2>1. ~overlapped' => Alone'
    BY <1>11 DEF MoveBreak, Alone
  <2> QED BY <1>11, <2>1 DEF MoveBreak
<1> QED BY <1>0, <1>1, <1>2, <1>3, <1>4, <1>5, <1>6, <1>7, <1>8, <1>9, <1>10, <1>11 DEF Next

LEMMA AllTyped == Spec => []Typed
BY TypedInit, TypedStep, PTL DEF Spec

(* However tasks preempt each other in sbrk, and also when frames run out, *)
(* page tables hold frames, or what lies below the array of the stack, the *)
(* heap stays below MaxPages, and no task writes through a page table that *)
(* is not there.  As long as no two tasks are in sbrk at once the pointer  *)
(* of the stack does not fall below the array.                             *)
THEOREM PagingTyped == Spec => []TypeOK
BY AllTyped, PTL DEF Typed

-----------------------------------------------------------------------------
(* What a frame is used for, kind by kind.                                 *)
Mapped(f) == {p \in Pages : frame_of(p) = f}
TableAt(f) == {d \in Installed : page_directory[d] = f}
PoppedBy(f) == {t \in Task : pc[t] = "read" /\ top[t] = f}
TakenBy(f) == {t \in Task : Taken(t) /\ phys[t] = f}
TableTakenBy(f) == {t \in Task : pc[t] = "install" /\ pt[t] = f}

Unused(f) ==
    /\ Mapped(f) = {} /\ TableAt(f) = {}
    /\ PoppedBy(f) = {} /\ TakenBy(f) = {} /\ TableTakenBy(f) = {}
UsedOnce(f) ==
    \/ /\ (\E p : Mapped(f) = {p}) /\ TableAt(f) = {}
       /\ PoppedBy(f) = {} /\ TakenBy(f) = {} /\ TableTakenBy(f) = {}
    \/ /\ Mapped(f) = {} /\ (\E d : TableAt(f) = {d})
       /\ PoppedBy(f) = {} /\ TakenBy(f) = {} /\ TableTakenBy(f) = {}
    \/ /\ Mapped(f) = {} /\ TableAt(f) = {}
       /\ (\E t : PoppedBy(f) = {t}) /\ TakenBy(f) = {} /\ TableTakenBy(f) = {}
    \/ /\ Mapped(f) = {} /\ TableAt(f) = {}
       /\ PoppedBy(f) = {} /\ (\E t : TakenBy(f) = {t}) /\ TableTakenBy(f) = {}
    \/ /\ Mapped(f) = {} /\ TableAt(f) = {}
       /\ PoppedBy(f) = {} /\ TakenBy(f) = {} /\ (\E t : TableTakenBy(f) = {t})

Accounted == \A f \in Frame : IF f <= stack_pointer THEN Unused(f) ELSE UsedOnce(f)
InFrames ==
    /\ \A d \in Installed : page_directory[d] \in Frame
    /\ \A p \in Pages : pd_index(p) \in Installed /\ frame_of(p) \in Frame

(* The one task in sbrk: how far it has got with the page behind the heap. *)
Grows(t) ==
    /\ \A u \in Task : pc[u] # "out" => u = t
    /\ pc[t] # "move" => old[t] = heap_current
    /\ pc[t] # "again" => new[t] = heap_current + 1
    /\ Taken(t) => phys[t] \in Frame
    /\ Allocating(t) /\ wants[t] = "table" => page_directory[pd_index(heap_current)] = ABSENT
    /\ pc[t] = "install" => /\ page_directory[pd_index(heap_current)] = ABSENT
                            /\ pt[t] \in Frame
    /\ pc[t] = "clear" => \A p \in Pages : pd_index(p) # pd_index(heap_current)
    /\ pc[t] = "move" => /\ page_directory[pd_index(heap_current)] # ABSENT
                         /\ frame_of(heap_current) = phys[t]
Growing == \A t \in Task : pc[t] # "out" => Grows(t)

NoStray ==
    \A d \in Installed, e \in Entry :
      tables[page_directory[d]][e] # ABSENT =>
        \/ d * NO_OF_ENTRIES + e < heap_current
        \/ \E t \in Task : pc[t] = "clear" /\ pd_index(old[t]) = d
        \/ \E t \in Task : pc[t] = "move" /\ d * NO_OF_ENTRIES + e < new[t]

Sound == Accounted /\ InFrames /\ Growing /\ NoStray
Inv == Typed /\ (~Lost => Sound)

(* No two page tables are in one frame, ...                                *)
LEMMA TablesApart ==
    ASSUME Typed, Sound, NEW d \in Installed, NEW e \in Installed,
           page_directory[d] = page_directory[e]
    PROVE  d = e
<1>1. page_directory[d] \in Frame /\ {d, e} \subseteq TableAt(page_directory[d])
  BY DEF Sound, InFrames, TableAt
<1> QED BY <1>1 DEF Sound, Accounted, Unused, UsedOnce

(* ... and to use the frame on top of the stack leaves the others as they  *)
(* are.                                                                    *)
LEMMA TopIsUnused ==
    ASSUME Typed, Sound, stack_pointer >= 1
    PROVE  stack_pointer \in Frame /\ Unused(stack_pointer)
BY DEF Typed, TypeOK, Sound, Accounted, Frame

LEMMA SoundInit == Init => Sound
<1> SUFFICES ASSUME Init PROVE Sound
  OBVIOUS
<1>1. Pages = {} /\ Installed = {} /\ \A t \in Task : pc[t] = "out"
  BY DEF Init, Pages, Installed
<1>2. \A f \in Frame : f <= stack_pointer
  BY DEF Init, Frame
<1>3. \A f : Unused(f)
  BY <1>1 DEF Unused, Mapped, TableAt, PoppedBy, TakenBy, TableTakenBy, Taken, Allocating
<1> QED BY <1>1, <1>2, <1>3 DEF Sound, Accounted, InFrames, Growing, NoStray

-----------------------------------------------------------------------------
(* The steps.  Those that change no use of a frame: ...                    *)
LEMMA UsesKept ==
    ASSUME stack_pointer' = stack_pointer,
           \A f \in Frame : /\ Mapped(f)' = Mapped(f) /\ TableAt(f)' = TableAt(f)
                            /\ PoppedBy(f)' = PoppedBy(f) /\ TakenBy(f)' = TakenBy(f)
                            /\ TableTakenBy(f)' = TableTakenBy(f),
           Accounted
    PROVE  Accounted'
BY DEF Accounted, Unused, UsedOnce

LEMMA QuietSound ==
    ASSUME Typed, Sound, UNCHANGED memory, Growing',
           \A f \in Frame : /\ PoppedBy(f)' = PoppedBy(f) /\ TakenBy(f)' = TakenBy(f)
                            /\ TableTakenBy(f)' = TableTakenBy(f),
           \A u \in Task : pc[u] \in {"clear", "move"} =>
                             pc'[u] = pc[u] /\ old'[u] = old[u] /\ new'[u] = new[u]
    PROVE  Sound'
<1>1. Pages' = Pages /\ Installed' = Installed /\ \A p \in Pages : frame_of(p)' = frame_of(p)
  BY DEF memory, Pages, Installed, frame_of
<1>2. Accounted'
  BY <1>1, UsesKept DEF memory, Sound, Mapped, TableAt
<1>3. InFrames'
  BY <1>1 DEF memory, Sound, InFrames
<1>4. NoStray'
  BY <1>1 DEF memory, Sound, NoStray
<1> QED BY <1>2, <1>3, <1>4 DEF Sound

LEMMA EnterSound ==
    ASSUME Typed, Sound, NEW t \in Task, sbrk(t), ~Lost' PROVE Sound'
<1> USE DEF Typed, TypeOK, Goto, memory, sbrk
<1>1. \A u \in Task : pc[u] = "out"
  BY DEF Lost
<1>2. Growing'
  BY <1>1 DEF Growing, Grows, Taken, Allocating
<1>3. \A f \in Frame : /\ PoppedBy(f)' = PoppedBy(f) /\ TakenBy(f)' = TakenBy(f)
                       /\ TableTakenBy(f)' = TableTakenBy(f)
  BY <1>1 DEF PoppedBy, TakenBy, TableTakenBy, Taken, Allocating
<1> QED BY <1>1, <1>2, <1>3, QuietSound

LEMMA AgainSound ==
    ASSUME Typed, Sound, NEW t \in Task, ReadAgain(t) PROVE Sound'
<1> USE DEF Typed, TypeOK, Goto, memory, ReadAgain
<1>1. Grows(t) /\ \A u \in Task \ {t} : pc[u] = "out"
  BY DEF Sound, Growing, Grows
<1>2. /\ pc' = [pc EXCEPT ![t] = "test"] /\ new'[t] = heap_current + 1
      /\ wants'[t] = "frame" /\ pc[t] = "again"
  <2>1. old[t] = heap_current /\ heap_current < heap_current + 1
    BY <1>1 DEF Grows
  <2> QED BY <2>1
<1>3. Growing'
  BY <1>1, <1>2 DEF Growing, Grows, Taken, Allocating
<1>4. \A f \in Frame : /\ PoppedBy(f)' = PoppedBy(f) /\ TakenBy(f)' = TakenBy(f)
                       /\ TableTakenBy(f)' = TableTakenBy(f)
  BY <1>1, <1>2 DEF PoppedBy, TakenBy, TableTakenBy, Taken, Allocating
<1> QED BY <1>1, <1>2, <1>3, <1>4, QuietSound

LEMMA TestSound ==
    ASSUME Typed, Sound, NEW t \in Task, TestStack(t), ~Lost' PROVE Sound'
<1> USE DEF Typed, TypeOK, Goto, memory, TestStack
<1>1. /\ Grows(t) /\ \A u \in Task \ {t} : pc[u] = "out"
      /\ stack_pointer # 0 /\ pc[t] = "test" /\ pc' = [pc EXCEPT ![t] = "load"]
      /\ UNCHANGED <<memory, old, new, wants, top, phys, pt>>
  BY DEF Sound, Growing, Grows, Lost
<1>2. Growing'
  BY <1>1 DEF Growing, Grows, Taken, Allocating, Pages
<1>3. \A f \in Frame : /\ PoppedBy(f)' = PoppedBy(f) /\ TakenBy(f)' = TakenBy(f)
                       /\ TableTakenBy(f)' = TableTakenBy(f)
  BY <1>1 DEF PoppedBy, TakenBy, TableTakenBy, Taken, Allocating
<1> QED BY <1>1, <1>2, <1>3, QuietSound

LEMMA LoadSound ==
    ASSUME Typed, Sound, NEW t \in Task, LoadPointer(t) PROVE Sound'
<1> USE DEF Typed, TypeOK, Goto, memory, LoadPointer
<1>1. Grows(t) /\ \A u \in Task \ {t} : pc[u] = "out"
  BY DEF Sound, Growing, Grows
<1>2. Growing'
  BY <1>1 DEF Growing, Grows, Taken, Allocating, Pages
<1>3. \A f \in Frame : /\ PoppedBy(f)' = PoppedBy(f) /\ TakenBy(f)' = TakenBy(f)
                       /\ TableTakenBy(f)' = TableTakenBy(f)
  BY <1>1 DEF PoppedBy, TakenBy, TableTakenBy, Taken, Allocating
<1> QED BY <1>1, <1>2, <1>3, QuietSound

LEMMA LookupSound ==
    ASSUME Typed, Sound, NEW t \in Task, Lookup(t) PROVE Sound'
<1> USE DEF Typed, TypeOK, Goto, memory, Lookup
<1>1. Grows(t) /\ \A u \in Task \ {t} : pc[u] = "out"
  BY DEF Sound, Growing, Grows
<1>2. /\ pc[t] = "lookup" /\ Taken(t) /\ phys[t] \in Frame
      /\ \/ /\ pc'[t] = "test" /\ wants'[t] = "table"
            /\ page_directory[pd_index(heap_current)] = ABSENT
         \/ pc'[t] = "entry"
  BY <1>1 DEF Grows, Taken
<1>3. Growing'
  BY <1>1, <1>2 DEF Growing, Grows, Taken, Allocating, Pages
<1>4. \A f \in Frame : /\ PoppedBy(f)' = PoppedBy(f) /\ TakenBy(f)' = TakenBy(f)
                       /\ TableTakenBy(f)' = TableTakenBy(f)
  BY <1>1, <1>2 DEF PoppedBy, TakenBy, TableTakenBy, Taken, Allocating
<1> QED BY <1>1, <1>2, <1>3, <1>4, QuietSound

(* ... those by which a frame leaves the stack and comes to the task;      *)
LEMMA StoreSound ==
    ASSUME Typed, Sound, NEW t \in Task, StorePointer(t), ~Lost' PROVE Sound'
<1> USE DEF Typed, TypeOK, Sound, Goto, history, StorePointer
<1>1. /\ Grows(t) /\ \A u \in Task \ {t} : pc[u] = "out"
      /\ stack_pointer >= 1 /\ top[t] = stack_pointer
      /\ stack_pointer' = stack_pointer - 1
  BY DEF Growing, Grows, Lost, Alone
<1>2. Pages' = Pages /\ Installed' = Installed /\ \A p \in Pages : frame_of(p)' = frame_of(p)
  BY DEF Pages, Installed, frame_of
<1>3. stack_pointer \in Frame /\ \A f \in Frame : f = stack_pointer => Unused(f)
  BY <1>1, TopIsUnused
<1>4. \A f \in Frame : /\ Mapped(f)' = Mapped(f) /\ TableAt(f)' = TableAt(f)
                       /\ TakenBy(f)' = TakenBy(f) /\ TableTakenBy(f)' = TableTakenBy(f)
                       /\ PoppedBy(f)' = IF f = stack_pointer THEN {t} ELSE PoppedBy(f)
  <2> TAKE f \in Frame
  <2>1. Mapped(f)' = Mapped(f) /\ TableAt(f)' = TableAt(f)
    BY <1>2 DEF Mapped, TableAt
  <2>2. TakenBy(f)' = TakenBy(f) /\ TableTakenBy(f)' = TableTakenBy(f)
    BY <1>1 DEF TakenBy, TableTakenBy, Taken, Allocating
  <2>3. PoppedBy(f)' = IF f = stack_pointer THEN {t} ELSE PoppedBy(f)
    BY <1>1, <1>3 DEF PoppedBy, Unused
  <2> QED BY <2>1, <2>2, <2>3
<1>5. Accounted'
  <2> SUFFICES ASSUME NEW f \in Frame
               PROVE  IF f <= stack_pointer - 1 THEN Unused(f)' ELSE UsedOnce(f)'
    BY <1>1 DEF Accounted
  <2>1. CASE f = stack_pointer
    <3>1. Unused(f) /\ ~(f <= stack_pointer - 1)
      BY <1>3, <2>1
    <3> QED BY <1>4, <2>1, <3>1 DEF Unused, UsedOnce
  <2>2. CASE f # stack_pointer
    <3>1. f <= stack_pointer - 1 <=> f <= stack_pointer
      BY <1>3, <2>2 DEF Frame
    <3>2. IF f <= stack_pointer THEN Unused(f) ELSE UsedOnce(f)
      BY DEF Accounted
    <3>3. /\ Mapped(f)' = Mapped(f) /\ TableAt(f)' = TableAt(f) /\ PoppedBy(f)' = PoppedBy(f)
          /\ TakenBy(f)' = TakenBy(f) /\ TableTakenBy(f)' = TableTakenBy(f)
      BY <1>4, <2>2
    <3> QED BY <3>1, <3>2, <3>3 DEF Unused, UsedOnce
  <2> QED BY <2>1, <2>2
<1>6. InFrames'
  BY <1>2 DEF InFrames
<1>7. Growing'
  BY <1>1, <1>2 DEF Growing, Grows, Taken, Allocating, Pages
<1>8. NoStray'
  BY <1>1, <1>2 DEF NoStray
<1> QED BY <1>5, <1>6, <1>7, <1>8

LEMMA ReadSound ==
    ASSUME Typed, Sound, NEW t \in Task, ReadPage(t), ~Lost' PROVE Sound'
<1> DEFINE frame == top[t]
<1> USE DEF Typed, TypeOK, memory, history
<1>1. /\ Grows(t) /\ \A u \in Task \ {t} : pc[u] = "out"
      /\ pc[t] = "read" /\ frame = stack_pointer + 1 /\ frame \in Frame
  BY DEF ReadPage, Sound, Growing, Grows, Lost, Alone, Located, Frame
<1>2. /\ page_addresses(stack_pointer) = frame
      /\ UNCHANGED <<stack_pointer, page_directory, tables, heap_current, old, new, wants, top>>
  <2>1. stack_pointer \in 0 .. Frames - 1
    BY <1>1 DEF Frame
  <2> QED BY <1>1, <2>1 DEF ReadPage, page_addresses
<1>3. \/ /\ wants[t] = "frame" /\ pc' = [pc EXCEPT ![t] = "lookup"]
         /\ phys' = [phys EXCEPT ![t] = frame] /\ pt' = pt
      \/ /\ wants[t] = "table" /\ pc' = [pc EXCEPT ![t] = "install"]
         /\ pt' = [pt EXCEPT ![t] = frame] /\ phys' = phys
  <2>1. Return(t, frame)
    BY <1>2 DEF ReadPage
  <2>2. CASE wants[t] = "frame"
    <3>1. /\ pc' = [pc EXCEPT ![t] = "lookup"] /\ phys' = [phys EXCEPT ![t] = frame]
          /\ pt' = [pt EXCEPT ![t] = pt[t]]
      BY <2>1, <2>2 DEF Return
    <3> QED BY <2>2, <3>1
  <2>3. CASE wants[t] = "table"
    <3>1. /\ pc' = [pc EXCEPT ![t] = "install"] /\ pt' = [pt EXCEPT ![t] = frame]
          /\ phys' = [phys EXCEPT ![t] = phys[t]]
      BY <2>1, <2>3 DEF Return
    <3> QED BY <2>3, <3>1
  <2> QED BY <2>2, <2>3
<1> HIDE DEF frame
<1>4. \A f \in Frame : f = frame => /\ Mapped(f) = {} /\ TableAt(f) = {} /\ f > stack_pointer
                                    /\ TakenBy(f) = {} /\ TableTakenBy(f) = {}
  <2> SUFFICES ASSUME NEW f \in Frame, f = frame
               PROVE  /\ Mapped(f) = {} /\ TableAt(f) = {} /\ f > stack_pointer
                      /\ TakenBy(f) = {} /\ TableTakenBy(f) = {}
    OBVIOUS
  <2>1. t \in PoppedBy(f)
    BY <1>1 DEF PoppedBy, frame
  <2>2. ~Unused(f)
    BY <2>1 DEF Unused
  <2>3. ~(f <= stack_pointer) /\ UsedOnce(f)
    BY <2>2 DEF Sound, Accounted
  <2>4. f > stack_pointer
    BY <2>3 DEF Frame
  <2> QED BY <2>1, <2>3, <2>4 DEF UsedOnce
<1>5. Pages' = Pages /\ Installed' = Installed /\ \A p \in Pages : frame_of(p)' = frame_of(p)
  BY <1>2 DEF Pages, Installed, frame_of
<1>6. \A f \in Frame : /\ Mapped(f)' = Mapped(f) /\ TableAt(f)' = TableAt(f)
                       /\ PoppedBy(f)' = {} /\ (f # frame => PoppedBy(f) = {})
  <2> TAKE f \in Frame
  <2>1. Mapped(f)' = Mapped(f) /\ TableAt(f)' = TableAt(f)
    BY <1>2, <1>5 DEF Mapped, TableAt
  <2>2. PoppedBy(f)' = {}
    BY <1>1, <1>3 DEF PoppedBy
  <2>3. f # frame => PoppedBy(f) = {}
    BY <1>1 DEF PoppedBy, frame
  <2> QED BY <2>1, <2>2, <2>3
<1>7. Accounted'
  <2> SUFFICES ASSUME NEW f \in Frame
               PROVE  IF f <= stack_pointer THEN Unused(f)' ELSE UsedOnce(f)'
    BY <1>2 DEF Accounted
  <2>1. ASSUME wants[t] = "frame"
        PROVE  /\ TableTakenBy(f)' = TableTakenBy(f)
               /\ TakenBy(f)' = IF f = frame THEN {t} ELSE TakenBy(f)
    <3>1. TableTakenBy(f)' = TableTakenBy(f)
      BY <1>1, <1>3, <2>1 DEF TableTakenBy
    <3>2. TakenBy(f)' = IF f = frame THEN {t} ELSE TakenBy(f)
      BY <1>1, <1>2, <1>3, <1>4, <2>1 DEF TakenBy, Taken, Allocating
    <3> QED BY <3>1, <3>2
  <2>2. ASSUME wants[t] = "table"
        PROVE  /\ TakenBy(f)' = TakenBy(f)
               /\ TableTakenBy(f)' = IF f = frame THEN {t} ELSE TableTakenBy(f)
    <3>1. TakenBy(f)' = TakenBy(f)
      BY <1>1, <1>2, <1>3, <2>2 DEF TakenBy, Taken, Allocating
    <3>2. TableTakenBy(f)' = IF f = frame THEN {t} ELSE TableTakenBy(f)
      <4>1. pc' = [pc EXCEPT ![t] = "install"] /\ pt' = [pt EXCEPT ![t] = frame]
        BY <1>3, <2>2
      <4>2. TableTakenBy(f) = {}
        BY <1>1 DEF TableTakenBy
      <4>3. \A u \in Task : pc'[u] = "install" /\ pt'[u] = f <=> u = t /\ f = frame
        BY <1>1, <4>1
      <4> QED BY <4>2, <4>3 DEF TableTakenBy
    <3> QED BY <3>1, <3>2
  <2>3. CASE f = frame
    <3>1. ~(f <= stack_pointer)
      BY <1>4, <2>3 DEF Frame
    <3> QED BY <1>3, <1>4, <1>6, <2>1, <2>2, <2>3, <3>1 DEF UsedOnce
  <2>4. CASE f # frame
    BY <1>3, <1>6, <2>1, <2>2, <2>4 DEF Sound, Accounted, Unused, UsedOnce
  <2> QED BY <2>3, <2>4
<1>8. InFrames'
  BY <1>2, <1>5 DEF Sound, InFrames
<1>9. Growing'
  <2>1. CASE wants[t] = "frame"
    BY <1>1, <1>2, <1>3, <2>1 DEF Growing, Grows, Taken, Allocating
  <2>2. CASE wants[t] = "table"
    BY <1>1, <1>2, <1>3, <2>2 DEF Growing, Grows, Taken, Allocating
  <2> QED BY <2>1, <2>2
<1>10. NoStray'
  BY <1>1, <1>2, <1>3, <1>5 DEF Sound, NoStray
<1> QED BY <1>7, <1>8, <1>9, <1>10 DEF Sound

(* ... the clearing of a table and the new entry, which touch one table,   *)
(* and no page of the heap in it;                                          *)
LEMMA ClearSound ==
    ASSUME Typed, Sound, NEW t \in Task, ClearTable(t) PROVE Sound'
<1> DEFINE dir == pd_index(old[t])
<1> USE DEF Typed, TypeOK, Sound, Goto, history, ClearTable
<1>1. /\ Grows(t) /\ \A u \in Task \ {t} : pc[u] = "out"
      /\ dir \in Installed /\ \A p \in Pages : pd_index(p) # dir
  BY InDirectory DEF Growing, Grows, Located, Installed
<1>2. Pages' = Pages /\ Installed' = Installed
  BY DEF Pages, Installed
<1>3. \A d \in Installed : d # dir => tables'[page_directory[d]] = tables[page_directory[d]]
  <2> SUFFICES ASSUME NEW d \in Installed, d # dir
               PROVE  tables'[page_directory[d]] = tables[page_directory[d]]
    OBVIOUS
  <2>1. page_directory[d] # page_directory[dir]
    BY <1>1, TablesApart
  <2> QED BY <2>1
<1>4. \A p \in Pages : frame_of(p)' = frame_of(p)
  BY <1>1, <1>3 DEF frame_of, InFrames
<1>5. Accounted'
  BY <1>1, <1>2, <1>4, UsesKept DEF Mapped, TableAt, PoppedBy, TakenBy, TableTakenBy,
                                    Taken, Allocating
<1>6. InFrames'
  BY <1>2, <1>4 DEF InFrames
<1>7. Growing'
  BY <1>1 DEF Growing, Grows, Taken, Allocating
<1>8. NoStray'
  <2> SUFFICES ASSUME NEW d \in Installed, NEW e \in Entry, tables'[page_directory[d]][e] # ABSENT
               PROVE  d * NO_OF_ENTRIES + e < heap_current
    BY <1>2 DEF NoStray
  <2>1. tables'[page_directory[dir]] = [x \in Entry |-> ABSENT]
    BY <1>1 DEF InFrames, Physical
  <2>2. d # dir /\ tables[page_directory[d]][e] # ABSENT
    BY <1>3, <2>1
  <2> QED BY <1>1, <2>2 DEF NoStray
<1> QED BY <1>5, <1>6, <1>7, <1>8

LEMMA WriteSound ==
    ASSUME Typed, Sound, NEW t \in Task, WriteEntry(t) PROVE Sound'
<1> DEFINE dir == pd_index(heap_current)
           ent == pt_index(heap_current)
<1> USE DEF Typed, TypeOK, Sound, Goto, history, WriteEntry
<1>1. /\ Grows(t) /\ \A u \in Task \ {t} : pc[u] = "out"
      /\ dir \in Installed /\ ent \in Entry /\ old[t] = heap_current
  BY InDirectory, Place DEF Growing, Grows, Located, Installed
<1>2. /\ Pages' = Pages /\ Installed' = Installed
      /\ pc' = [pc EXCEPT ![t] = "move"] /\ pc[t] = "entry" /\ new[t] = heap_current + 1
  <2>1. Pages' = Pages /\ Installed' = Installed
    BY DEF Pages, Installed
  <2>2. new[t] = heap_current + 1 /\ ~(heap_current + 1 < new[t])
    BY <1>1 DEF Grows
  <2> QED BY <1>1, <2>1, <2>2
<1>3. \A d \in Installed, e \in Entry :
        tables'[page_directory[d]][e] = IF d = dir /\ e = ent THEN phys[t]
                                        ELSE tables[page_directory[d]][e]
  <2> SUFFICES ASSUME NEW d \in Installed, NEW e \in Entry
               PROVE  tables'[page_directory[d]][e] = IF d = dir /\ e = ent THEN phys[t]
                                                      ELSE tables[page_directory[d]][e]
    OBVIOUS
  <2>1. page_directory[d] = page_directory[dir] => d = dir
    BY <1>1, TablesApart
  <2>2. page_directory[d] \in Frame /\ page_directory[d] \in Physical
    BY DEF InFrames, Physical
  <2>3. tables' = [tables EXCEPT ![page_directory[dir]][ent] = phys[t]]
    BY <1>1
  <2> QED BY <2>1, <2>2, <2>3
<1>4. \A p \in Pages : frame_of(p)' = frame_of(p)
  <2> SUFFICES ASSUME NEW p \in Pages PROVE frame_of(p)' = frame_of(p)
    OBVIOUS
  <2>1. p \in Nat /\ p # heap_current /\ heap_current \in Nat /\ pd_index(p) \in Installed
    BY DEF Pages, InFrames
  <2>2. pt_index(p) \in Entry /\ ~(pd_index(p) = dir /\ pt_index(p) = ent)
    BY <2>1, Place, SamePlace
  <2> QED BY <1>3, <2>1, <2>2 DEF frame_of
<1>5. Accounted'
  BY <1>1, <1>2, <1>4, UsesKept DEF Mapped, TableAt, PoppedBy, TakenBy, TableTakenBy,
                                    Taken, Allocating
<1>6. InFrames'
  BY <1>2, <1>4 DEF InFrames
<1>7. Growing'
  <2>1. frame_of(heap_current)' = phys[t]
    BY <1>1, <1>3 DEF frame_of
  <2> QED BY <1>1, <1>2, <2>1 DEF Growing, Grows, Taken, Allocating, Installed
<1>8. NoStray'
  <2> SUFFICES ASSUME NEW d \in Installed, NEW e \in Entry,
                      tables'[page_directory[d]][e] # ABSENT
               PROVE  d * NO_OF_ENTRIES + e < heap_current + 1
    BY <1>2 DEF NoStray
  <2>1. CASE d = dir /\ e = ent
    BY <2>1, Place
  <2>2. CASE ~(d = dir /\ e = ent)
    <3>1. d * NO_OF_ENTRIES + e < heap_current
      <4>1. tables[page_directory[d]][e] # ABSENT
        BY <1>3, <2>2
      <4>2. \A u \in Task : pc[u] \notin {"clear", "move"}
        BY <1>1, <1>2
      <4> QED BY <4>1, <4>2 DEF NoStray
    <3>2. d * NO_OF_ENTRIES + e \in Int
      BY DEF Installed, Directory, Entry
    <3> QED BY <3>1, <3>2
  <2> QED BY <2>1, <2>2
<1> QED BY <1>5, <1>6, <1>7, <1>8

(* ... and those by which the frame that was taken becomes a page table,   *)
(* or a page of the heap.                                                  *)
LEMMA InstallSound ==
    ASSUME Typed, Sound, NEW t \in Task, InstallTable(t) PROVE Sound'
<1> DEFINE dir == pd_index(heap_current)
<1> USE DEF Typed, TypeOK, Sound, Goto, history, InstallTable
<1>1. /\ Grows(t) /\ \A u \in Task \ {t} : pc[u] = "out"
      /\ dir \in Directory /\ dir \notin Installed /\ pt[t] \in Frame
      /\ old[t] = heap_current
  BY InDirectory DEF Growing, Grows, Installed
<1>2. /\ Pages' = Pages /\ Installed' = Installed \cup {dir}
      /\ page_directory'[dir] = pt[t]
      /\ \A d \in Installed : page_directory'[d] = page_directory[d]
  BY <1>1 DEF Pages, Installed, Frame, ABSENT
<1>3. \A p \in Pages : pd_index(p) # dir /\ frame_of(p)' = frame_of(p)
  BY <1>1, <1>2 DEF InFrames, frame_of
<1>4. \A f \in Frame : f = pt[t] => /\ Mapped(f) = {} /\ TableAt(f) = {} /\ PoppedBy(f) = {}
                                    /\ TakenBy(f) = {} /\ f > stack_pointer
  <2> SUFFICES ASSUME NEW f \in Frame, f = pt[t]
               PROVE  /\ Mapped(f) = {} /\ TableAt(f) = {} /\ PoppedBy(f) = {}
                      /\ TakenBy(f) = {} /\ f > stack_pointer
    OBVIOUS
  <2>1. t \in TableTakenBy(f)
    BY DEF TableTakenBy
  <2> QED BY <2>1 DEF Accounted, Unused, UsedOnce, Frame
<1>5. \A f \in Frame : /\ Mapped(f)' = Mapped(f) /\ TakenBy(f)' = TakenBy(f)
                       /\ PoppedBy(f)' = PoppedBy(f)
                       /\ TableAt(f)' = IF f = pt[t] THEN {dir} ELSE TableAt(f)
                       /\ TableTakenBy(f)' = {}
                       /\ f # pt[t] => TableTakenBy(f) = {}
  <2> SUFFICES ASSUME NEW f \in Frame
               PROVE  /\ Mapped(f)' = Mapped(f) /\ TakenBy(f)' = TakenBy(f)
                      /\ PoppedBy(f)' = PoppedBy(f)
                      /\ TableAt(f)' = IF f = pt[t] THEN {dir} ELSE TableAt(f)
                      /\ TableTakenBy(f)' = {}
                      /\ f # pt[t] => TableTakenBy(f) = {}
    OBVIOUS
  <2>1. Mapped(f)' = Mapped(f) /\ PoppedBy(f)' = PoppedBy(f) /\ TakenBy(f)' = TakenBy(f)
    BY <1>1, <1>2, <1>3 DEF Mapped, PoppedBy, TakenBy, Taken, Allocating
  <2>2. TableAt(f)' = IF f = pt[t] THEN {dir} ELSE TableAt(f)
    BY <1>1, <1>2, <1>4 DEF TableAt
  <2>3. TableTakenBy(f)' = {} /\ (f # pt[t] => TableTakenBy(f) = {})
    BY <1>1 DEF TableTakenBy
  <2> QED BY <2>1, <2>2, <2>3
<1>6. Accounted'
  <2> SUFFICES ASSUME NEW f \in Frame
               PROVE  IF f <= stack_pointer THEN Unused(f)' ELSE UsedOnce(f)'
    BY DEF Accounted
  <2>1. CASE f = pt[t]
    <3>1. /\ Mapped(f) = {} /\ PoppedBy(f) = {} /\ TakenBy(f) = {} /\ ~(f <= stack_pointer)
      BY <1>4, <2>1 DEF Frame
    <3> QED BY <1>5, <2>1, <3>1 DEF Unused, UsedOnce
  <2>2. CASE f # pt[t]
    <3>1. IF f <= stack_pointer THEN Unused(f) ELSE UsedOnce(f)
      BY DEF Accounted
    <3>2. /\ Mapped(f)' = Mapped(f) /\ TableAt(f)' = TableAt(f) /\ PoppedBy(f)' = PoppedBy(f)
          /\ TakenBy(f)' = TakenBy(f) /\ TableTakenBy(f)' = TableTakenBy(f)
      BY <1>5, <2>2
    <3> QED BY <3>1, <3>2 DEF Unused, UsedOnce
  <2> QED BY <2>1, <2>2
<1>7. InFrames'
  BY <1>1, <1>2, <1>3 DEF InFrames
<1>8. Growing'
  BY <1>1, <1>3, <1>2 DEF Growing, Grows, Taken, Allocating
<1>9. NoStray'
  <2> SUFFICES ASSUME NEW d \in Installed \cup {dir}, NEW e \in Entry,
                      tables[page_directory'[d]][e] # ABSENT, d # dir
               PROVE  d * NO_OF_ENTRIES + e < heap_current
    BY <1>1, <1>2 DEF NoStray
  <2> QED BY <1>1, <1>2 DEF NoStray
<1> QED BY <1>6, <1>7, <1>8, <1>9

LEMMA MoveSound ==
    ASSUME Typed, Sound, NEW t \in Task, MoveBreak(t) PROVE Sound'
<1> DEFINE page == heap_current
<1> USE DEF Typed, TypeOK, Sound, Goto, history, MoveBreak
<1>1. /\ Grows(t) /\ \A u \in Task \ {t} : pc[u] = "out"
      /\ page \in Nat /\ phys[t] \in Frame /\ new[t] = page + 1 /\ Taken(t)
      /\ frame_of(page) = phys[t] /\ pd_index(page) \in Installed
  BY InDirectory DEF Growing, Grows, Installed, Taken
<1>2. /\ Pages' = Pages \cup {page} /\ page \notin Pages /\ Installed' = Installed
      /\ \A p \in Pages' : frame_of(p)' = frame_of(p)
  <2>1. heap_current' = page + 1 /\ Pages' = Pages \cup {page} /\ page \notin Pages
    <3>1. heap_current' = page + 1
      BY <1>1
    <3>2. page \in Nat
      BY <1>1
    <3> QED BY <3>1, <3>2, OneMore DEF Pages
  <2>2. Installed' = Installed /\ \A p \in Pages' : frame_of(p)' = frame_of(p)
    BY DEF Installed, frame_of
  <2> QED BY <2>1, <2>2
<1>3. \A f \in Frame : f = phys[t] => /\ Mapped(f) = {} /\ TableAt(f) = {} /\ PoppedBy(f) = {}
                                      /\ TableTakenBy(f) = {} /\ f > stack_pointer
  <2> SUFFICES ASSUME NEW f \in Frame, f = phys[t]
               PROVE  /\ Mapped(f) = {} /\ TableAt(f) = {} /\ PoppedBy(f) = {}
                      /\ TableTakenBy(f) = {} /\ f > stack_pointer
    OBVIOUS
  <2>1. t \in TakenBy(f)
    BY <1>1 DEF TakenBy
  <2> QED BY <2>1 DEF Accounted, Unused, UsedOnce, Frame
<1>4. \A f \in Frame : /\ TableAt(f)' = TableAt(f) /\ TableTakenBy(f)' = TableTakenBy(f)
                       /\ PoppedBy(f)' = PoppedBy(f)
                       /\ Mapped(f)' = IF f = phys[t] THEN {page} ELSE Mapped(f)
                       /\ TakenBy(f)' = {}
                       /\ f # phys[t] => TakenBy(f) = {}
  <2> SUFFICES ASSUME NEW f \in Frame
               PROVE  /\ TableAt(f)' = TableAt(f) /\ TableTakenBy(f)' = TableTakenBy(f)
                      /\ PoppedBy(f)' = PoppedBy(f)
                      /\ Mapped(f)' = IF f = phys[t] THEN {page} ELSE Mapped(f)
                      /\ TakenBy(f)' = {}
                      /\ f # phys[t] => TakenBy(f) = {}
    OBVIOUS
  <2>1. /\ TableAt(f)' = TableAt(f) /\ TableTakenBy(f)' = TableTakenBy(f)
        /\ PoppedBy(f)' = PoppedBy(f)
    BY <1>1, <1>2 DEF TableAt, TableTakenBy, PoppedBy
  <2>2. Mapped(f)' = IF f = phys[t] THEN {page} ELSE Mapped(f)
    BY <1>1, <1>2, <1>3 DEF Mapped
  <2>3. TakenBy(f)' = {} /\ (f # phys[t] => TakenBy(f) = {})
    BY <1>1 DEF TakenBy, Taken, Allocating
  <2> QED BY <2>1, <2>2, <2>3
<1>5. Accounted'
  <2> SUFFICES ASSUME NEW f \in Frame
               PROVE  IF f <= stack_pointer THEN Unused(f)' ELSE UsedOnce(f)'
    BY DEF Accounted
  <2>1. CASE f = phys[t]
    <3>1. /\ TableAt(f) = {} /\ PoppedBy(f) = {} /\ TableTakenBy(f) = {} /\ ~(f <= stack_pointer)
      BY <1>3, <2>1 DEF Frame
    <3> QED BY <1>4, <2>1, <3>1 DEF Unused, UsedOnce
  <2>2. CASE f # phys[t]
    <3>1. IF f <= stack_pointer THEN Unused(f) ELSE UsedOnce(f)
      BY DEF Accounted
    <3>2. /\ Mapped(f)' = Mapped(f) /\ TableAt(f)' = TableAt(f) /\ PoppedBy(f)' = PoppedBy(f)
          /\ TakenBy(f)' = TakenBy(f) /\ TableTakenBy(f)' = TableTakenBy(f)
      BY <1>4, <2>2
    <3> QED BY <3>1, <3>2 DEF Unused, UsedOnce
  <2> QED BY <2>1, <2>2
<1>6. InFrames'
  BY <1>1, <1>2 DEF InFrames
<1>7. Growing'
  BY <1>1 DEF Growing, Grows
<1>8. NoStray'
  <2> SUFFICES ASSUME NEW d \in Installed, NEW e \in Entry, tables[page_directory[d]][e] # ABSENT
               PROVE  d * NO_OF_ENTRIES + e < page + 1
    BY <1>1, <1>2 DEF NoStray
  <2>1. \/ d * NO_OF_ENTRIES + e < page
        \/ d * NO_OF_ENTRIES + e < page + 1
    <3>1. \A u \in Task : pc[u] # "clear" /\ (pc[u] = "move" => new[u] = page + 1)
      BY <1>1
    <3> QED BY <3>1 DEF NoStray
  <2>2. d * NO_OF_ENTRIES + e \in Int
    BY DEF Installed, Directory, Entry
  <2> QED BY <1>1, <2>1, <2>2
<1> QED BY <1>5, <1>6, <1>7, <1>8

-----------------------------------------------------------------------------
LEMMA InvStep == Inv /\ [Next]_vars => Inv'
<1> SUFFICES ASSUME Inv, [Next]_vars PROVE Inv'
  OBVIOUS
<1>1. Typed /\ Typed'
  BY TypedStep DEF Inv
<1> SUFFICES ASSUME ~Lost' PROVE Sound'
  BY <1>1 DEF Inv
<1>2. ~Lost /\ Sound
  <2>1. Next => ~Lost
    BY <1>1 DEF Next, sbrk, ReadAgain, MoveBreak, TestStack, LoadPointer, StorePointer, ReadPage,
                Lookup, InstallTable, ClearTable, WriteEntry, history, Lost, Typed, TypeOK
  <2>2. UNCHANGED vars => ~Lost
    BY DEF vars, Lost
  <2> QED BY <2>1, <2>2 DEF Inv
<1>3. CASE UNCHANGED vars
  <2>1. Growing'
    BY <1>2, <1>3 DEF vars, Sound, Growing, Grows, Taken, Allocating, Pages, frame_of
  <2>2. /\ UNCHANGED memory
        /\ \A f \in Frame : /\ PoppedBy(f)' = PoppedBy(f) /\ TakenBy(f)' = TakenBy(f)
                            /\ TableTakenBy(f)' = TableTakenBy(f)
        /\ \A u \in Task : pc'[u] = pc[u] /\ old'[u] = old[u] /\ new'[u] = new[u]
    BY <1>3 DEF vars, memory, PoppedBy, TakenBy, TableTakenBy, Taken, Allocating
  <2> QED BY <1>1, <1>2, <2>1, <2>2, QuietSound
<1>4. CASE Next
  BY <1>1, <1>2, <1>4, EnterSound, AgainSound, MoveSound, TestSound, LoadSound, StoreSound,
     ReadSound, LookupSound, InstallSound, ClearSound, WriteSound DEF Next
<1> QED BY <1>3, <1>4

LEMMA Invariance == Spec => []Inv
<1>1. Init => Inv
  BY TypedInit, SoundInit DEF Inv
<1> QED BY <1>1, InvStep, PTL DEF Spec

(* Every page of the heap has a frame, and every frame is on the stack or  *)
(* in one use, at each store of sbrk, pmm_alloc_page and vmm_map_page:     *)
(* until two tasks are in sbrk or pmm_alloc_page finds the stack empty.    *)
THEOREM FramesAreKept == Spec => []FramesKept
<1>1. Inv => FramesKept
  <2> SUFFICES ASSUME Typed, Sound, NEW f \in Frame
               PROVE  Cardinality(Uses(f)) = IF f <= stack_pointer THEN 0 ELSE 1
    BY DEF Inv, FramesKept, Sound, InFrames, Installed, Typed, TypeOK
  <2>1. Uses(f) = {<<"page", p>> : p \in Mapped(f)} \cup {<<"table", d>> : d \in TableAt(f)}
                  \cup {<<"popped", t>> : t \in PoppedBy(f)}
                  \cup {<<"taken", t>> : t \in TakenBy(f)}
                  \cup {<<"table taken", t>> : t \in TableTakenBy(f)}
    BY DEF Uses, Mapped, TableAt, PoppedBy, TakenBy, TableTakenBy
  <2>2. Unused(f) => Uses(f) = {}
    BY <2>1 DEF Unused
  <2>3. UsedOnce(f) => \E use : Uses(f) = {use}
    <3> HAVE UsedOnce(f)
    <3>1. CASE \E p : Mapped(f) = {p}
      <4> PICK p : Mapped(f) = {p}
        BY <3>1
      <4>1. Uses(f) = {<<"page", p>>}
        BY <2>1 DEF UsedOnce
      <4> QED BY <4>1
    <3>2. CASE \E d : TableAt(f) = {d}
      <4> PICK d : TableAt(f) = {d}
        BY <3>2
      <4>1. Uses(f) = {<<"table", d>>}
        BY <2>1 DEF UsedOnce
      <4> QED BY <4>1
    <3>3. CASE \E t : TakenBy(f) = {t}
      <4> PICK t : TakenBy(f) = {t}
        BY <3>3
      <4>1. Uses(f) = {<<"taken", t>>}
        BY <2>1 DEF UsedOnce
      <4> QED BY <4>1
    <3>4. CASE \E t : TableTakenBy(f) = {t}
      <4> PICK t : TableTakenBy(f) = {t}
        BY <3>4
      <4>1. Uses(f) = {<<"table taken", t>>}
        BY <2>1 DEF UsedOnce
      <4> QED BY <4>1
    <3>5. CASE \E t : PoppedBy(f) = {t}
      <4> PICK t : PoppedBy(f) = {t}
        BY <3>5
      <4>1. Uses(f) = {<<"popped", t>>}
        BY <2>1 DEF UsedOnce
      <4> QED BY <4>1
    <3> QED BY <3>1, <3>2, <3>3, <3>4, <3>5 DEF UsedOnce
  <2> QED BY <2>2, <2>3, FS_EmptySet, FS_Singleton DEF Sound, Accounted
<1> QED BY <1>1, Invariance, PTL

(* Nothing beyond the heap is mapped, although a page table is installed   *)
(* before it is cleared: no entry of a table that was left by the frame's  *)
(* past survives.                                                          *)
THEOREM NoStrayPages == Spec => []NoStrayPage
<1>1. Inv => NoStrayPage
  BY DEF Inv, Sound, NoStray, NoStrayPage
<1> QED BY <1>1, Invariance, PTL
=============================================================================
