----------------------------- MODULE TaskMgrInv -----------------------------
(***************************************************************************)
(* Why the ring of TaskMgr stays intact: an inductive invariant.  Its      *)
(* parts hold as long as none of RingRaces has happened.                   *)
(***************************************************************************)
EXTENDS TaskMgr

(* The four boot tasks do what they do, and what runs is in the ring.      *)
Threads ==
    /\ {Kernel, Reaper, current_task} \subseteq Linked
    /\ pc[Kernel] = "idle"
    /\ \A t \in live : pc[t] \in {"rscan", "rcli"} <=> t = Reaper

(* new_task is allocated, belongs to one spawner only, and does not run    *)
(* before it is linked.                                                    *)
Owner(o) == o \in live /\ pc[o] \in Unlinked \cup Linking
Owners ==
    \A o \in live : Owner(o) =>
        /\ new[o] \in live \ {Kernel}
        /\ pc[o] \in Unlinked => pc[new[o]] = "loop"
        /\ \A p \in live : Owner(p) /\ new[p] = new[o] => p = o

OneLinker ==
    \A o, p \in live : pc[o] \in Linking /\ pc[p] \in Linking => o = p

(* Where tail_task and the links of the TCB being linked point.            *)
Appending(o) == pc[o] \in {"hprev", "tailw"}
TailOK ==
    /\ tail_task \in Linked
    /\ \A o \in live :
        /\ pc[o] \in Linking => prev[new[o]] = tail_task /\ next[new[o]] = Kernel
        /\ pc[o] = "tnext" => reg[o] = tail_task
        /\ pc[o] = "hprev" => \A x \in Linked : next[x] = Kernel => x = new[o]
    /\ (\A o \in live : ~Appending(o)) => next[tail_task] = Kernel

(* A ZOMBIE runs at most its int $0x20, and is what the reaper frees.      *)
Dead ==
    /\ \A x \in live : state[x] = "ZOMBIE" =>
         pc[x] = "int" \/ (pc[x] = "loop" /\ x # current_task)
    /\ reg[Reaper] \in Linked
    /\ pc[Reaper] = "rcli" => state[reg[Reaper]] = "ZOMBIE"

(* The boot context is there for Schedule to find.                         *)
HeadReady ==
    /\ state[Kernel] \in {"READY", "RUNNING"}
    /\ current_task # Kernel => state[Kernel] = "READY"
    /\ pid[Kernel] = 0 /\ next_pid >= 1
    /\ \A o \in live : pc[o] = "pidw" => val[o] >= 1
    /\ \A x \in Numbered \ {Kernel} : pid[x] >= 1

Core == /\ Threads /\ Owners /\ OneLinker /\ TailOK
        /\ WellLinked /\ OneRing /\ Dead /\ HeadReady

(* A spawner that has not finished has a TCB, whatever has happened.       *)
NewOK == \A t \in Tcb : pc[t] \in Unlinked \cup Linking => new[t] \in Tcb

IInv == TypeOK /\ NewOK /\ (RingSafe => Core)

-----------------------------------------------------------------------------
(***************************************************************************)
(* Why pids are unique and parents and children agree about each other.    *)
(***************************************************************************)

(* next_pid is above every pid that was given out.                         *)
Pids ==
    /\ \A x, y \in Numbered : pid[x] = pid[y] => x = y
    /\ \A x \in Numbered : pid[x] < next_pid
    /\ \A o \in live : pc[o] = "pidw" =>
         val[o] = next_pid /\ \A p \in live : pc[p] = "pidw" => p = o

(* A parent is in the ring before it has children, and older than they.    *)
Elders ==
    /\ \A x, y \in Numbered : parent_pid[x] = pid[y] => y \in Linked
    /\ \A x \in Numbered : parent_pid[x] < pid[x] \/ (x = Kernel /\ parent_pid[x] = 0)

(* The slots of children are counted, and hold the pids of tasks that      *)
(* name t as their parent and have not exited.                             *)
Counted(t) == IsFiniteSet(Claimed(t)) /\ child_count[t] = Cardinality(Claimed(t))
ChildOf(x, t, c) == pid[x] = c /\ parent_pid[x] = pid[t] /\ state[x] # "ZOMBIE"
Slots ==
    \A t \in Linked :
        /\ Counted(t)
        /\ \A c \in children[t] : \E x \in Numbered : ChildOf(x, t, c)

(* The new task of a spawner: a child of it without children, which gets   *)
(* its slot in SpawnSlot.                                                  *)
Parented(o) == pc[o] \in Unlinked \ {"pidr", "pidw"}
Born ==
    \A o \in live : Parented(o) =>
        /\ parent_pid[new[o]] = pid[o]
        /\ child_count[new[o]] = 0 /\ children[new[o]] = {}
        /\ IF pc[o] \in {"check", "ccr", "ccw", "slot"}
             THEN state[new[o]] # "ZOMBIE" /\ pid[new[o]] \notin children[o]
             ELSE pid[new[o]] \in children[o]

(* A task in the ring holds a slot of its parent until KillSlot, and a     *)
(* task that has left its slot exits at once.                              *)
Gone(x) == state[x] = "ZOMBIE" \/ pc[x] \in {"zombie", "int"}
Holding ==
    /\ \A x \in Linked \ {Kernel} : ~Gone(x) =>
         \A t \in Linked : pid[t] = parent_pid[x] => pid[x] \in children[t]
    /\ \A x \in live : pc[x] = "zombie" =>
         \A t \in Linked : pid[x] \notin children[t]
    /\ \A x \in live : pc[x] = "int" => state[x] = "ZOMBIE"

(* The loads of child_count that are not yet stored.                       *)
CountingOf(o) ==
    /\ pc[o] = "ccw" => val[o] = child_count[o]
    /\ pc[o] \in {"kccr", "kccw", "kslot"} => reg[o] \in Linked /\ pid[reg[o]] = parent_pid[o]
    /\ pc[o] = "kccw" =>
         /\ val[o] = child_count[reg[o]] /\ pc[reg[o]] # "ccw"
         /\ \A p \in live \ {o} : ~(pc[p] = "kccw" /\ reg[p] = reg[o])
Counting == \A o \in live : CountingOf(o)

(* The walk of KillTask has not passed the parent: what goes backwards in  *)
(* the ring from the parent, except past o itself, comes by reg[o].        *)
Behind(o, S) == \A x \in Linked \ {o} : next[x] \in S => x \in S
SeekingOf(o) ==
    pc[o] = "kwalk" =>
        /\ reg[o] \in Linked
        /\ \A t \in Linked \ {o} : pid[t] = parent_pid[o] =>
             \A S \in SUBSET Linked : t \in S /\ Behind(o, S) => reg[o] \in S
Seeking == \A o \in live : SeekingOf(o)

Family == Elders /\ Slots /\ Born /\ Holding /\ Counting /\ Seeking

FamilyInv == raced = {} => Pids /\ Family
=============================================================================
