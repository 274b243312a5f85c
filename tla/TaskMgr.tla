------------------------------ MODULE TaskMgr ------------------------------
(***************************************************************************)
(* The preemptive round-robin task manager of the kernel: task_mgr.c, the  *)
(* timer interrupt isr32 that calls Schedule, and the programs that spawn, *)
(* block and kill tasks (launcher.c, shell.c, ted.c).                      *)
(*                                                                         *)
(* There is one CPU.  Only the task in current_task executes, one step of  *)
(* its code at a time, and the timer may preempt it between any two steps, *)
(* since only awake_parent, the unlink of reaper and the interrupt handler *)
(* run with interrupts off.  The kernel is compiled without optimisation,  *)
(* so  x++  is a load and a store, and every statement reads the globals   *)
(* again.  Stores into a TCB that nobody else can reach yet go with the    *)
(* next store that others can see.                                         *)
(***************************************************************************)
EXTENDS Integers, FiniteSets

CONSTANTS
    Tcb,            \* addresses my_malloc may return for a task control block
    NULL,
    Kernel, Reaper, MemInsp, Launcher,  \* the four tasks of kernel_main
    Programs,       \* the programs the user may start
    ChildLimit,     \* children a task may have (4 in the code)
    MaxPid          \* bound: SpawnTask is not called once next_pid exceeds it

Boot == {Kernel, Reaper, MemInsp, Launcher}

ASSUME TcbAssumption ==
    /\ Boot \subseteq Tcb
    /\ NULL \notin Tcb
    /\ Kernel \notin {Reaper, MemInsp, Launcher}
    /\ Reaper \notin {MemInsp, Launcher}
    /\ MemInsp # Launcher
ASSUME ProgramAssumption == Programs \subseteq {"shell", "test", "ted", "test1"}
ASSUME LimitAssumption == ChildLimit \in Nat \ {0} /\ MaxPid \in Nat

VARIABLES
    next, prev,     \* the links of each TCB
    pid, state, parent_pid, child_count,
    children,       \* the pids in the slots of children[16]
    tail_task, current_task, next_pid,
    live,           \* the TCBs that are allocated and not yet freed
    prog,           \* the program a task runs
    pc,             \* the next step of a task, kept on its stack
    reg,            \* the TCB pointer a task holds while it walks or links
    val,            \* the integer a task has loaded and not yet stored
    new,            \* new_task of SpawnTask
    raced           \* history: the kinds of race that have happened

links == <<next, prev, tail_task>>
ids == <<pid, parent_pid, next_pid>>
family == <<child_count, children>>
locals == <<reg, val, new>>
vars == <<next, prev, pid, state, parent_pid, child_count, children, tail_task,
          current_task, next_pid, live, prog, pc, reg, val, new, raced>>

State == {"READY", "RUNNING", "BLOCKED", "ZOMBIE"}

(* head_task is assigned once, by init_multitasking.                       *)
head_task == Kernel

(***************************************************************************)
(* The pc of a task names the statement it executes next:                  *)
(*   idle    while(1) of the boot context, display_heap_data               *)
(*   loop    waiting for a key in read_key                                 *)
(*   SpawnTask     pidr pidw check ccr ccw slot prev tread tnext hprev     *)
(*                 tailw                                                   *)
(*   set_task_state(-1, TASK_BLOCKED)      block                           *)
(*   KillTask(NULL)      kill kwalk kccr kccw kslot zombie int             *)
(*   reaper        rscan rcli                                              *)
(***************************************************************************)
Unlinked == {"pidr", "pidw", "check", "ccr", "ccw", "slot", "prev", "tread", "tnext"}
Linking == {"tread", "tnext", "hprev", "tailw"}
Walking == {"block", "kwalk", "kccr", "kccw", "kslot"}
Label == {"idle", "loop", "prev", "block", "kill", "zombie", "int",
          "rscan", "rcli"} \cup Unlinked \cup Linking \cup Walking

(* The programs each program starts, and the keys on which it does:        *)
(* launcher.c, shell.c.                                                    *)
Starts(p) ==
    Programs \cap ( CASE p = "launcher" -> {"shell", "test"}
                      [] p = "shell"    -> {"ted"}
                      [] p = "test"     -> {"test1"}
                      [] OTHER          -> {} )

(* Only the launcher's "shell" command looks at what SpawnTask returned.   *)
ChecksResult(p, c) == p = "launcher" /\ c = "shell"

Exits(p) == p \in {"shell", "test", "ted", "test1"}

(* What a walk over next from s reads when it stops at the TCBs of Stop:   *)
(* the least set that holds s and the successor of each TCB it passes.     *)
Walk(s, Stop) ==
    LET closed == {S \in SUBSET Tcb : s \in S /\ \A y \in S \ Stop : next[y] \in S}
    IN  {x \in Tcb : \A S \in closed : x \in S}

(* The TCB a walk from s finds first among those with property F, if it    *)
(* finds one before it comes to end.                                       *)
Found(s, F, end) == Walk(s, F \cup {y \in Tcb : next[y] = end}) \cap F

-----------------------------------------------------------------------------
Init ==
    /\ next = [x \in Tcb |-> IF x = Kernel THEN Reaper
                             ELSE IF x = Reaper THEN MemInsp
                             ELSE IF x = MemInsp THEN Launcher ELSE Kernel]
    /\ prev = [x \in Tcb |-> IF x = Kernel THEN Launcher
                             ELSE IF x = Launcher THEN MemInsp
                             ELSE IF x = MemInsp THEN Reaper ELSE Kernel]
    /\ pid = [x \in Tcb |-> IF x = Launcher THEN 3
                            ELSE IF x = MemInsp THEN 2
                            ELSE IF x = Reaper THEN 1 ELSE 0]
    /\ state = [x \in Tcb |-> "READY"]
    /\ parent_pid = [x \in Tcb |-> 0]
    /\ child_count = [x \in Tcb |-> IF x = Kernel THEN 3 ELSE 0]
    /\ children = [x \in Tcb |-> IF x = Kernel THEN 1 .. 3 ELSE {}]
    /\ tail_task = Launcher
    /\ current_task = Kernel
    /\ next_pid = 4
    /\ live = Boot
    /\ prog = [x \in Tcb |-> IF x = Kernel THEN "kernel"
                             ELSE IF x = Reaper THEN "reaper"
                             ELSE IF x = MemInsp THEN "meminsp"
                             ELSE IF x = Launcher THEN "launcher" ELSE "none"]
    /\ pc = [x \in Tcb |-> IF x = Reaper THEN "rscan"
                           ELSE IF x = Launcher THEN "loop" ELSE "idle"]
    /\ reg = [x \in Tcb |-> Kernel]
    /\ val = [x \in Tcb |-> 0]
    /\ new = [x \in Tcb |-> NULL]
    /\ raced = {}

-----------------------------------------------------------------------------
(* The executing task, and a move of its pc from one label to another.     *)
self == current_task
Goto(from, to) == pc[self] = from /\ pc' = [pc EXCEPT ![self] = to]
Race(kind, cond) == raced' = IF cond THEN raced \cup {kind} ELSE raced
Others == live \ {self}

-----------------------------------------------------------------------------
(* Plausible mistakes in the operations below, named for what goes wrong;  *)
(* the README says which property notices which.                           *)
BlockedIsRunnable ==    \* Schedule skips only ZOMBIE tasks
    LET stopped == IF state[self] = "RUNNING"
                     THEN [state EXCEPT ![self] = "READY"] ELSE state
        found == Found(next[self], {x \in Tcb : stopped[x] # "ZOMBIE"}, self)
        task == IF found = {} THEN self ELSE CHOOSE x \in found : TRUE
    IN  /\ state' = [stopped EXCEPT ![task] = "RUNNING"]
        /\ current_task' = task

PidNotAdvanced ==       \* SpawnFill without the store of next_pid++
    /\ Goto("pidw", "check")
    /\ next_pid' = next_pid
    /\ pid' = [pid EXCEPT ![new[self]] = val[self]]
    /\ state' = [state EXCEPT ![new[self]] = "READY"]
    /\ parent_pid' = [parent_pid EXCEPT ![new[self]] = pid[self]]
    /\ child_count' = [child_count EXCEPT ![new[self]] = 0]
    /\ children' = [children EXCEPT ![new[self]] = {}]
    /\ val' = [val EXCEPT ![self] = 0]
    /\ UNCHANGED <<links, current_task, live, prog, reg, new, raced>>

TailNotAdvanced ==      \* SpawnLinkTail without tail_task = new_task
    /\ Goto("tailw", "block")
    /\ new' = [new EXCEPT ![self] = NULL]
    /\ UNCHANGED <<links, ids, family, state, current_task, live, prog, reg, val, raced>>

WalkFromSelf ==         \* KillStart does not step over the exiting task
    /\ Goto("kill", "kwalk")
    /\ reg' = [reg EXCEPT ![self] = self]
    /\ UNCHANGED <<links, ids, family, state, current_task, live, prog, val, new, raced>>

ParentNotWoken ==       \* KillAwake without the store of READY
    /\ reg[self] # self
    /\ pid[reg[self]] = parent_pid[self]
    /\ Goto("kwalk", "kccr")
    /\ UNCHANGED <<links, ids, family, state, current_task, live, prog, locals, raced>>

SlotNotCleared ==       \* KillSlot leaves the pid in children
    /\ Goto("kslot", "zombie")
    /\ UNCHANGED <<links, ids, family, state, current_task, live, prog, locals, raced>>

ScanStuck ==            \* ReapScan does not move on
    /\ \/ state[reg[self]] = "ZOMBIE" /\ Goto("rscan", "rcli")
       \/ state[reg[self]] # "ZOMBIE" /\ Goto("rscan", "rscan")
    /\ UNCHANGED <<links, ids, family, state, current_task, live, prog, locals, raced>>

TailNotMoved ==         \* ReapFree without the test for tail_task
    LET task == reg[self]
        linked == [prev EXCEPT ![next[task]] = prev[task]]
    IN  /\ Goto("rcli", "rscan")
        /\ prev' = linked
        /\ next' = [next EXCEPT ![linked[task]] = next[task]]
        /\ live' = live \ {task}
        /\ reg' = [reg EXCEPT ![self] = head_task]
        /\ UNCHANGED <<tail_task, ids, family, state, current_task, prog, val, new, raced>>

(***************************************************************************)
(* Schedule, entered with interrupts off from the timer or from int $0x20. *)
(* The walk starts behind the current task and stops at the first READY    *)
(* one; back at the current task, it keeps that one.                       *)
(***************************************************************************)
Schedule ==
    LET stopped == IF state[self] = "RUNNING"
                     THEN [state EXCEPT ![self] = "READY"] ELSE state
        ready == {x \in Tcb : stopped[x] = "READY"}
        found == Found(next[self], ready, self)
        task == IF found = {} THEN self ELSE CHOOSE x \in found : TRUE
    IN  /\ state' = [stopped EXCEPT ![task] = "RUNNING"]
        /\ current_task' = task

(* The timer interrupt, and the int $0x20 of yield in display_heap_data.   *)
Tick == Schedule /\ UNCHANGED <<links, ids, family, live, prog, pc, locals, raced>>

-----------------------------------------------------------------------------
(* SpawnTask.  The stack of the new task returns into its entry point.     *)
SpawnAlloc(p, a) ==
    /\ p \in Starts(prog[self])
    /\ next_pid <= MaxPid
    /\ a \in Tcb \ live
    /\ pc[self] = "loop"
    /\ pc' = [pc EXCEPT ![self] = "pidr", ![a] = "loop"]
    /\ live' = live \cup {a}
    /\ prog' = [prog EXCEPT ![a] = p]
    /\ new' = [new EXCEPT ![self] = a, ![a] = NULL]
    /\ reg' = [reg EXCEPT ![a] = head_task]
    /\ val' = [val EXCEPT ![a] = 0]
    /\ UNCHANGED <<links, ids, family, state, current_task, raced>>

SpawnReadPid ==
    /\ Goto("pidr", "pidw")
    /\ val' = [val EXCEPT ![self] = next_pid]
    /\ Race("pid", \E o \in Others : pc[o] = "pidw")
    /\ UNCHANGED <<links, ids, family, state, current_task, live, prog, reg, new>>

SpawnFill ==
    /\ Goto("pidw", "check")
    /\ next_pid' = val[self] + 1
    /\ pid' = [pid EXCEPT ![new[self]] = val[self]]
    /\ state' = [state EXCEPT ![new[self]] = "READY"]
    /\ parent_pid' = [parent_pid EXCEPT ![new[self]] = pid[self]]
    /\ child_count' = [child_count EXCEPT ![new[self]] = 0]
    /\ children' = [children EXCEPT ![new[self]] = {}]
    /\ val' = [val EXCEPT ![self] = 0]
    /\ UNCHANGED <<links, current_task, live, prog, reg, new, raced>>

SpawnAdmit ==
    /\ child_count[self] < ChildLimit
    /\ Goto("check", "ccr")
    /\ UNCHANGED <<links, ids, family, state, current_task, live, prog, locals, raced>>

(* TASK_CREAT_FAILED: every caller but one blocks all the same.            *)
SpawnRefuse ==
    /\ child_count[self] >= ChildLimit
    /\ Goto("check", IF ChecksResult(prog[self], prog[new[self]]) THEN "loop" ELSE "block")
    /\ live' = live \ {new[self]}
    /\ new' = [new EXCEPT ![self] = NULL]
    /\ reg' = [reg EXCEPT ![self] = head_task]
    /\ UNCHANGED <<links, ids, family, state, current_task, prog, val, raced>>

SpawnReadCount ==
    /\ Goto("ccr", "ccw")
    /\ val' = [val EXCEPT ![self] = child_count[self]]
    /\ Race("count", \E o \in Others : pc[o] = "kccw" /\ reg[o] = self)
    /\ UNCHANGED <<links, ids, family, state, current_task, live, prog, reg, new>>

SpawnCount ==
    /\ Goto("ccw", "slot")
    /\ child_count' = [child_count EXCEPT ![self] = val[self] + 1]
    /\ val' = [val EXCEPT ![self] = 0]
    /\ UNCHANGED <<links, ids, children, state, current_task, live, prog, reg, new, raced>>

(* The search for a free slot and the store into it: only the task itself  *)
(* fills its slots, so the one it has found stays free.                    *)
SpawnSlot ==
    /\ Goto("slot", "prev")
    /\ children' = [children EXCEPT ![self] = @ \cup {pid[new[self]]}]
    /\ UNCHANGED <<links, ids, child_count, state, current_task, live, prog, locals, raced>>

(* The four writes that link the new TCB, none of them protected.          *)
SpawnAim ==
    /\ Goto("prev", "tread")
    /\ next' = [next EXCEPT ![new[self]] = head_task]
    /\ prev' = [prev EXCEPT ![new[self]] = tail_task]
    /\ Race("link", \E o \in Others : pc[o] \in Linking)
    /\ UNCHANGED <<tail_task, ids, family, state, current_task, live, prog, locals>>

SpawnReadTail ==
    /\ Goto("tread", "tnext")
    /\ reg' = [reg EXCEPT ![self] = tail_task]
    /\ UNCHANGED <<links, ids, family, state, current_task, live, prog, val, new, raced>>

SpawnLinkNext ==
    /\ Goto("tnext", "hprev")
    /\ next' = [next EXCEPT ![reg[self]] = new[self]]
    /\ reg' = [reg EXCEPT ![self] = head_task]
    /\ UNCHANGED <<prev, tail_task, ids, family, state, current_task, live, prog, val, new, raced>>

SpawnLinkPrev ==
    /\ Goto("hprev", "tailw")
    /\ prev' = [prev EXCEPT ![head_task] = new[self]]
    /\ UNCHANGED <<next, tail_task, ids, family, state, current_task, live, prog, locals, raced>>

SpawnLinkTail ==
    /\ Goto("tailw", "block")
    /\ tail_task' = new[self]
    /\ new' = [new EXCEPT ![self] = NULL]
    /\ UNCHANGED <<next, prev, ids, family, state, current_task, live, prog, reg, val, raced>>

(* set_task_state(-1, TASK_BLOCKED), which every caller of SpawnTask runs  *)
(* next, with interrupts on: a walk from head_task to the caller's pid.    *)
BlockWalk ==
    /\ pid[reg[self]] # pid[self]
    /\ Goto("block", IF next[reg[self]] = head_task THEN "loop" ELSE "block")
    /\ reg' = [reg EXCEPT ![self] = next[reg[self]]]
    /\ UNCHANGED <<links, ids, family, state, current_task, live, prog, val, new, raced>>

BlockSet ==
    /\ pid[reg[self]] = pid[self]
    /\ Goto("block", "loop")
    /\ state' = [state EXCEPT ![reg[self]] = "BLOCKED"]
    /\ reg' = [reg EXCEPT ![self] = head_task]
    /\ Race("revive", state[reg[self]] = "ZOMBIE")
    /\ UNCHANGED <<links, ids, family, current_task, live, prog, val, new>>

Spawn == \/ \E p \in Programs, a \in Tcb : SpawnAlloc(p, a)
         \/ SpawnReadPid \/ SpawnFill \/ SpawnAdmit \/ SpawnRefuse
         \/ SpawnReadCount \/ SpawnCount \/ SpawnSlot
         \/ SpawnAim \/ SpawnReadTail
         \/ SpawnLinkNext \/ SpawnLinkPrev \/ SpawnLinkTail
         \/ BlockWalk \/ BlockSet

-----------------------------------------------------------------------------
(* awake_parent(NULL), on the key that closes the program: the walk of     *)
(* set_task_state runs with interrupts off.                                *)
AwakeParent ==
    LET parent == Found(head_task, {x \in Tcb : pid[x] = parent_pid[self]}, head_task)
    IN  /\ Exits(prog[self])
        /\ Goto("loop", "kill")
        /\ state' = [x \in Tcb |-> IF x \in parent THEN "READY" ELSE state[x]]
        /\ Race("revive", \E x \in parent : state[x] = "ZOMBIE")
        /\ UNCHANGED <<links, ids, family, current_task, live, prog, locals>>

(* KillTask(NULL): the walk for the parent, with interrupts on.            *)
KillStart ==
    /\ Goto("kill", "kwalk")
    /\ reg' = [reg EXCEPT ![self] = next[self]]
    /\ UNCHANGED <<links, ids, family, state, current_task, live, prog, val, new, raced>>

KillWalk ==
    /\ reg[self] # self
    /\ pid[reg[self]] # parent_pid[self]
    /\ Goto("kwalk", "kwalk")
    /\ reg' = [reg EXCEPT ![self] = next[reg[self]]]
    /\ UNCHANGED <<links, ids, family, state, current_task, live, prog, val, new, raced>>

KillNoParent ==
    /\ reg[self] = self
    /\ Goto("kwalk", "zombie")
    /\ UNCHANGED <<links, ids, family, state, current_task, live, prog, locals, raced>>

KillAwake ==
    /\ reg[self] # self
    /\ pid[reg[self]] = parent_pid[self]
    /\ Goto("kwalk", "kccr")
    /\ state' = [state EXCEPT ![reg[self]] = "READY"]
    /\ Race("revive", state[reg[self]] = "ZOMBIE")
    /\ UNCHANGED <<links, ids, family, current_task, live, prog, locals>>

KillReadCount ==
    /\ Goto("kccr", "kccw")
    /\ val' = [val EXCEPT ![self] = child_count[reg[self]]]
    /\ Race("count", \E o \in Others : \/ pc[o] = "ccw" /\ o = reg[self]
                                       \/ pc[o] = "kccw" /\ reg[o] = reg[self])
    /\ UNCHANGED <<links, ids, family, state, current_task, live, prog, reg, new>>

KillUncount ==
    /\ Goto("kccw", "kslot")
    /\ child_count' = [child_count EXCEPT ![reg[self]] = val[self] - 1]
    /\ val' = [val EXCEPT ![self] = 0]
    /\ UNCHANGED <<links, ids, children, state, current_task, live, prog, reg, new, raced>>

(* The search for the slot and its clearing: only the task itself clears   *)
(* the slot that holds its pid.                                            *)
KillSlot ==
    /\ Goto("kslot", "zombie")
    /\ children' = [children EXCEPT ![reg[self]] = @ \ {pid[self]}]
    /\ UNCHANGED <<links, ids, child_count, state, current_task, live, prog, locals, raced>>

KillZombie ==
    /\ Goto("zombie", "int")
    /\ state' = [state EXCEPT ![self] = "ZOMBIE"]
    /\ reg' = [reg EXCEPT ![self] = head_task]
    /\ UNCHANGED <<links, ids, family, current_task, live, prog, val, new, raced>>

(* int $0x20; a task made READY again after it returns into its main loop. *)
KillYield ==
    /\ Goto("int", "loop")
    /\ Schedule
    /\ UNCHANGED <<links, ids, family, live, prog, locals, raced>>

Kill == \/ AwakeParent \/ KillStart \/ KillWalk \/ KillNoParent \/ KillAwake
        \/ KillReadCount \/ KillUncount \/ KillSlot \/ KillZombie \/ KillYield

-----------------------------------------------------------------------------
(* The reaper looks at a state with interrupts on, ...                     *)
ReapScan ==
    /\ \/ state[reg[self]] = "ZOMBIE" /\ Goto("rscan", "rcli") /\ UNCHANGED reg
       \/ /\ state[reg[self]] # "ZOMBIE"
          /\ Goto("rscan", "rscan")
          /\ reg' = [reg EXCEPT ![self] = next[reg[self]]]
    /\ UNCHANGED <<links, ids, family, state, current_task, live, prog, val, new, raced>>

(* ... then turns them off, unlinks the TCB and frees it.                  *)
ReapFree ==
    LET task == reg[self]
        linked == [prev EXCEPT ![next[task]] = prev[task]]
    IN  /\ Goto("rcli", "rscan")
        /\ prev' = linked
        /\ next' = [next EXCEPT ![linked[task]] = next[task]]
        /\ tail_task' = IF task = tail_task THEN linked[task] ELSE tail_task
        /\ live' = live \ {task}
        /\ reg' = [reg EXCEPT ![self] = head_task]
        /\ raced' = raced
             \cup {k \in {"reap"} : \E o \in live :
                      \/ pc[o] \in {"tread", "tnext"} /\ prev[new[o]] = task
                      \/ pc[o] \in {"hprev", "tailw"} /\ new[o] = task}
             \cup {k \in {"walk"} : \E o \in Others :
                      pc[o] \in Walking /\ reg[o] = task}
        /\ UNCHANGED <<ids, family, state, current_task, prog, val, new>>

Reap == ReapScan \/ ReapFree

Step == Spawn \/ Kill \/ Reap
Next == Tick \/ Step
Spec == Init /\ [][Next]_vars

-----------------------------------------------------------------------------
(***************************************************************************)
(* Fairness: the timer keeps ticking, and a time slice (10 ms) is long     *)
(* enough for the task that gets it to execute a statement.  Nothing makes *)
(* the user type, so starting and closing programs is not fair.            *)
(***************************************************************************)
UserStep == AwakeParent \/ \E p \in Programs, a \in Tcb : SpawnAlloc(p, a)
StepOf(t) == current_task = t /\ Step /\ ~UserStep
Fairness == WF_vars(Tick) /\ \A t \in Tcb : SF_vars(StepOf(t))
FairSpec == Spec /\ Fairness
-----------------------------------------------------------------------------
TypeOK ==
    /\ next \in [Tcb -> Tcb] /\ prev \in [Tcb -> Tcb]
    /\ pid \in [Tcb -> Int] /\ parent_pid \in [Tcb -> Int]
    /\ state \in [Tcb -> State]
    /\ child_count \in [Tcb -> Int]
    /\ children \in [Tcb -> SUBSET Int]
    /\ tail_task \in Tcb /\ current_task \in Tcb
    /\ next_pid \in Int
    /\ live \in SUBSET Tcb
    /\ prog \in [Tcb -> {"none", "kernel", "reaper", "meminsp", "launcher"} \cup Programs]
    /\ pc \in [Tcb -> Label]
    /\ reg \in [Tcb -> Tcb]
    /\ val \in [Tcb -> Int]
    /\ new \in [Tcb -> Tcb \cup {NULL}]
    /\ raced \in SUBSET {"pid", "count", "link", "reap", "walk", "revive"}

(* The TCBs that a write has made part of the ring.                        *)
Linked == {x \in live : \A o \in live : ~(pc[o] \in Unlinked /\ new[o] = x)}

(* Between SpawnLinkNext and SpawnLinkPrev head_task->prev is out of date. *)
HeadBehind == \E o \in live : pc[o] = "hprev"

(* The races that can tear the ring: two tasks link at a time, the reaper  *)
(* unlinks a TCB somebody is linking to, or a dead task runs again.        *)
RingRaces == {"link", "reap", "revive"}
RingSafe == raced \cap RingRaces = {}

(* The ring is well linked: the neighbours of a task are tasks, never      *)
(* freed memory, and prev undoes next.                                     *)
WellLinked ==
    \A x \in Linked :
        /\ next[x] \in Linked
        /\ ~(HeadBehind /\ x = head_task) => prev[x] \in Linked /\ next[prev[x]] = x
        /\ ~(HeadBehind /\ next[x] = head_task) => prev[next[x]] = x

(* ... and there is one ring: a walk from any task comes by head_task.     *)
OneRing ==
    \A S \in SUBSET Linked :
        S # {} /\ (\A x \in S : next[x] \in S) => head_task \in S

(* The unprotected list code of SpawnTask and reaper keeps one well linked *)
(* ring of the live tasks, unless one of exactly these races happens.      *)
RingIntact == RingSafe => WellLinked /\ OneRing

(* The walk of Schedule that finds nobody gives the CPU back to the        *)
(* current task even if it is BLOCKED or a ZOMBIE; that never happens:     *)
(* a task begins to run only from READY.                                   *)
RunsOnlyReady ==
    [][RingSafe => \A t \in Tcb :
         state[t] # "RUNNING" /\ state'[t] = "RUNNING" => state[t] = "READY"]_vars

(* The TCBs whose pid has been written.                                    *)
Numbered == {x \in live : \A o \in live : ~(pc[o] \in {"pidr", "pidw"} /\ new[o] = x)}

(* No two tasks share a pid, by which tasks find their parent, unless two  *)
(* tasks were in next_pid++ at once.                                       *)
PidUnique ==
    "pid" \notin raced => \A x, y \in Numbered : pid[x] = pid[y] => x = y

(* The slots of t that child_count[t] stands for: SpawnTask counts a child *)
(* before it gives it a slot, and KillTask before it clears the slot, so   *)
(* the slot t is about to fill counts already and those that exiting       *)
(* children are about to clear count no more.                              *)
Filling(t) == IF pc[t] = "slot" THEN {pid[new[t]]} ELSE {}
Clearing(t) == {pid[o] : o \in {x \in live : pc[x] = "kslot" /\ reg[x] = t}}
Claimed(t) == (children[t] \cup Filling(t)) \ Clearing(t)

(* child_count is the number of slots of children in use, but for the      *)
(* tasks that are just between their store into the one and into the       *)
(* other, and every slot holds a child that is still alive, whatever       *)
(* spawns and exits overlap.                                               *)
FamilyAgrees ==
    raced = {} => \A t \in Linked :
        /\ child_count[t] = Cardinality(Claimed(t))
        /\ \A c \in children[t] : \E x \in live :
             pid[x] = c /\ parent_pid[x] = pid[t] /\ state[x] # "ZOMBIE"

(* The children of t that have not yet woken it for the last time.         *)
Wakers(t) == {c \in Linked \ {t} : /\ parent_pid[c] = pid[t]
                                   /\ state[c] # "ZOMBIE"
                                   /\ pc[c] \notin {"kccr", "kccw", "kslot", "zombie", "int"}}

(* A child that exits never strands its parent: a BLOCKED task that still  *)
(* has a child to wake it does not lose the last one without being woken.  *)
(* (A parent that blocks after its child has exited strands itself.)       *)
WakerKept ==
    [][raced' = {} => \A t \in Linked :
         state[t] = "BLOCKED" /\ Wakers(t) # {} =>
            t \notin Linked' \/ state'[t] # "BLOCKED" \/ Wakers(t)' # {}]_vars

(* A task that begins to exit is in the end unlinked and freed by reaper.  *)
ExitReaped ==
    \A t \in Tcb : (t \in live /\ pc[t] = "kill") ~> (t \notin live \/ raced # {})
=============================================================================
