--------------------------- MODULE TaskMgrProofs ---------------------------
(***************************************************************************)
(* Proofs for any number of tasks.  The ring, from the inductive invariant *)
(* IInv of TaskMgrInv: every variable keeps its type, the ring of tasks    *)
(* stays intact, and Schedule always finds a READY task.  Then, from the   *)
(* invariant of the ring: pids stay unique as long as no two tasks are in  *)
(* next_pid++ at once, because next_pid is above every pid that was given  *)
(* out; and parents and children agree about each other, and a child that  *)
(* exits wakes its BLOCKED parent, as long as no race has happened.        *)
(***************************************************************************)
EXTENDS TaskMgrInv, FiniteSetTheorems, TLAPS

(***************************************************************************)
(* Types.                                                                  *)
(***************************************************************************)
USE TcbAssumption, ProgramAssumption, LimitAssumption

Typed == TypeOK /\ NewOK

(* The boot tasks of kernel_main are well typed.                           *)
LEMMA TypedInit == Init => Typed
  BY DEF Init, Typed, TypeOK, NewOK, Boot, State, Label, Unlinked, Linking, Walking

(* Schedule picks a TCB, and makes the states RUNNING and READY only.      *)
LEMMA TypedSchedule ==
  ASSUME TypeOK, Schedule
  PROVE  state' \in [Tcb -> State] /\ current_task' \in Tcb
<1> DEFINE stopped == IF state[self] = "RUNNING"
                        THEN [state EXCEPT ![self] = "READY"] ELSE state
           ready == {x \in Tcb : stopped[x] = "READY"}
           found == Found(next[self], ready, self)
           task == IF found = {} THEN self ELSE CHOOSE x \in found : TRUE
<1>1. stopped \in [Tcb -> State]
  BY DEF TypeOK, State, self
<1>2. found \subseteq Tcb
  BY DEF Found
<1>3. task \in Tcb
  BY <1>2 DEF TypeOK, self
<1>4. state' = [stopped EXCEPT ![task] = "RUNNING"] /\ current_task' = task
  BY DEF Schedule
<1> HIDE DEF stopped, task
<1> QED
  BY <1>1, <1>3, <1>4 DEF State

(* No handler and no statement of a task breaks a type.                    *)
LEMMA TypeStep == Typed /\ [Next]_vars => TypeOK'
<1> USE DEF Boot, Typed, links, ids, family, locals, self, head_task, Goto, Race
<1> SUFFICES ASSUME Typed, [Next]_vars
             PROVE  TypeOK'
  OBVIOUS
<1>1. CASE Tick
  BY <1>1, TypedSchedule DEF Tick, TypeOK
<1>2. CASE UNCHANGED vars
  BY <1>2 DEF vars, TypeOK
<1>3. ASSUME NEW p \in Programs, NEW a \in Tcb, SpawnAlloc(p, a)
      PROVE  TypeOK'
  <2>1. {"pidr", "loop"} \subseteq Label
    BY DEF Label, Unlinked
  <2>2. pc' \in [Tcb -> Label] /\ live' \in SUBSET Tcb
    BY <1>3, <2>1 DEF SpawnAlloc, TypeOK
  <2>3. reg' \in [Tcb -> Tcb]
    BY <1>3, TcbAssumption DEF SpawnAlloc, TypeOK
  <2>4. new' \in [Tcb -> Tcb \cup {NULL}] /\ val' \in [Tcb -> Int]
    BY <1>3 DEF SpawnAlloc, TypeOK
  <2>5. prog' \in [Tcb -> {"none", "kernel", "reaper", "meminsp", "launcher"} \cup Programs]
    BY <1>3 DEF SpawnAlloc, TypeOK
  <2> QED BY <1>3, <2>2, <2>3, <2>4, <2>5 DEF SpawnAlloc, TypeOK
<1>4. CASE SpawnReadPid
  BY <1>4 DEF SpawnReadPid, TypeOK, Label, Unlinked, Linking, Walking, State
<1>5. CASE SpawnFill
  <2>1. new[self] \in Tcb
    BY <1>5 DEF SpawnFill, NewOK, TypeOK, Unlinked, Linking
  <2> QED
    BY <1>5, <2>1 DEF SpawnFill, TypeOK, Label, Unlinked, Linking, Walking, State
<1>6. CASE SpawnAdmit
  BY <1>6 DEF SpawnAdmit, TypeOK, Label, Unlinked, Linking, Walking, State
<1>7. CASE SpawnRefuse
  <2>1. new[self] \in Tcb
    BY <1>7 DEF SpawnRefuse, NewOK, TypeOK, Unlinked, Linking
  <2> QED
    BY <1>7, <2>1 DEF SpawnRefuse, TypeOK, Label, Unlinked, Linking, Walking, State
<1>8. CASE SpawnReadCount
  BY <1>8 DEF SpawnReadCount, TypeOK, Label, Unlinked, Linking, Walking, State
<1>9. CASE SpawnCount
  <2>1. new[self] \in Tcb
    BY <1>9 DEF SpawnCount, NewOK, TypeOK, Unlinked, Linking
  <2> QED
    BY <1>9, <2>1 DEF SpawnCount, TypeOK, Label, Unlinked, Linking, Walking, State
<1>10. CASE SpawnAim
  <2>1. new[self] \in Tcb
    BY <1>10 DEF SpawnAim, NewOK, TypeOK, Unlinked, Linking
  <2> QED
    BY <1>10, <2>1 DEF SpawnAim, TypeOK, Label, Unlinked, Linking, Walking, State
<1>11. CASE SpawnReadTail
  BY <1>11 DEF SpawnReadTail, TypeOK, Label, Unlinked, Linking, Walking, State
<1>12. CASE SpawnLinkNext
  <2>1. new[self] \in Tcb
    BY <1>12 DEF SpawnLinkNext, NewOK, TypeOK, Unlinked, Linking
  <2> QED
    BY <1>12, <2>1 DEF SpawnLinkNext, TypeOK, Label, Unlinked, Linking, Walking, State
<1>13. CASE SpawnLinkPrev
  <2>1. new[self] \in Tcb
    BY <1>13 DEF SpawnLinkPrev, NewOK, TypeOK, Unlinked, Linking
  <2> QED
    BY <1>13, <2>1 DEF SpawnLinkPrev, TypeOK, Label, Unlinked, Linking, Walking, State
<1>14. CASE SpawnLinkTail
  <2>1. new[self] \in Tcb
    BY <1>14 DEF SpawnLinkTail, NewOK, TypeOK, Unlinked, Linking
  <2> QED
    BY <1>14, <2>1 DEF SpawnLinkTail, TypeOK, Label, Unlinked, Linking, Walking, State
<1>15. CASE BlockWalk
  BY <1>15 DEF BlockWalk, TypeOK, Label, Unlinked, Linking, Walking, State
<1>16. CASE BlockSet
  BY <1>16 DEF BlockSet, TypeOK, Label, Unlinked, Linking, Walking, State
<1>17. CASE AwakeParent
  BY <1>17 DEF AwakeParent, TypeOK, Label, Unlinked, Linking, Walking, State
<1>18. CASE KillStart
  BY <1>18 DEF KillStart, TypeOK, Label, Unlinked, Linking, Walking, State
<1>19. CASE KillWalk
  BY <1>19 DEF KillWalk, TypeOK, Label, Unlinked, Linking, Walking, State
<1>20. CASE KillNoParent
  BY <1>20 DEF KillNoParent, TypeOK, Label, Unlinked, Linking, Walking, State
<1>21. CASE KillAwake
  BY <1>21 DEF KillAwake, TypeOK, Label, Unlinked, Linking, Walking, State
<1>22. CASE KillReadCount
  BY <1>22 DEF KillReadCount, TypeOK, Label, Unlinked, Linking, Walking, State
<1>23. CASE KillUncount
  BY <1>23 DEF KillUncount, TypeOK, Label, Unlinked, Linking, Walking, State
<1>24. CASE KillZombie
  BY <1>24 DEF KillZombie, TypeOK, Label, Unlinked, Linking, Walking, State
<1>28. CASE SpawnSlot
  <2>1. new[self] \in Tcb
    BY <1>28 DEF SpawnSlot, NewOK, TypeOK, Unlinked, Linking
  <2> QED
    BY <1>28, <2>1 DEF SpawnSlot, TypeOK, Label, Unlinked, Linking, Walking, State
<1>29. CASE KillSlot
  BY <1>29 DEF KillSlot, TypeOK, Label, Unlinked, Linking, Walking, State
<1>25. CASE KillYield
  BY <1>25, TypedSchedule DEF KillYield, TypeOK, Label
<1>26. CASE ReapScan
  <2>1. self \in Tcb /\ reg' \in [Tcb -> Tcb]
    BY <1>26 DEF ReapScan, TypeOK
  <2>2. pc' \in [Tcb -> Label]
    BY <1>26, <2>1 DEF ReapScan, TypeOK, Label, Unlinked, Linking, Walking
  <2> QED
    BY <1>26, <2>1, <2>2 DEF ReapScan, TypeOK
<1>27. CASE ReapFree
  BY <1>27 DEF ReapFree, TypeOK, Label, Unlinked, Linking, Walking, State
<1> QED
  BY <1>1, <1>2, <1>3, <1>4, <1>5, <1>6, <1>7, <1>8, <1>9, <1>10, <1>11, <1>12, <1>13, <1>14, <1>15, <1>16, <1>17, <1>18, <1>19, <1>20, <1>21, <1>22, <1>23, <1>24, <1>25, <1>26, <1>27,
  <1>28, <1>29
  DEF Next, Step, Spawn, Kill, Reap

(* A task between SpawnAlloc and SpawnLinkTail always has a new TCB.       *)
LEMMA NewStep == Typed /\ [Next]_vars => NewOK'
<1> USE DEF Typed, links, ids, family, locals, self, head_task, Goto, Race
<1> SUFFICES ASSUME Typed, [Next]_vars
             PROVE  NewOK'
  OBVIOUS
<1>1. CASE Tick
  BY <1>1, TypedSchedule DEF Tick, NewOK
<1>2. CASE UNCHANGED vars
  BY <1>2 DEF vars, NewOK
<1>3. ASSUME NEW p \in Programs, NEW a \in Tcb, SpawnAlloc(p, a)
      PROVE  NewOK'
  BY <1>3 DEF SpawnAlloc, TypeOK, NewOK, Unlinked, Linking
<1>4. CASE SpawnReadPid
  BY <1>4 DEF SpawnReadPid, TypeOK, NewOK, Unlinked, Linking
<1>5. CASE SpawnFill
  BY <1>5 DEF SpawnFill, TypeOK, NewOK, Unlinked, Linking
<1>6. CASE SpawnAdmit
  BY <1>6 DEF SpawnAdmit, TypeOK, NewOK, Unlinked, Linking
<1>7. CASE SpawnRefuse
  BY <1>7 DEF SpawnRefuse, TypeOK, NewOK, Unlinked, Linking
<1>8. CASE SpawnReadCount
  BY <1>8 DEF SpawnReadCount, TypeOK, NewOK, Unlinked, Linking
<1>9. CASE SpawnCount
  BY <1>9 DEF SpawnCount, TypeOK, NewOK, Unlinked, Linking
<1>10. CASE SpawnAim
  BY <1>10 DEF SpawnAim, TypeOK, NewOK, Unlinked, Linking
<1>11. CASE SpawnReadTail
  BY <1>11 DEF SpawnReadTail, TypeOK, NewOK, Unlinked, Linking
<1>12. CASE SpawnLinkNext
  BY <1>12 DEF SpawnLinkNext, TypeOK, NewOK, Unlinked, Linking
<1>13. CASE SpawnLinkPrev
  BY <1>13 DEF SpawnLinkPrev, TypeOK, NewOK, Unlinked, Linking
<1>14. CASE SpawnLinkTail
  BY <1>14 DEF SpawnLinkTail, TypeOK, NewOK, Unlinked, Linking
<1>15. CASE BlockWalk
  BY <1>15 DEF BlockWalk, TypeOK, NewOK, Unlinked, Linking
<1>16. CASE BlockSet
  BY <1>16 DEF BlockSet, TypeOK, NewOK, Unlinked, Linking
<1>17. CASE AwakeParent
  BY <1>17 DEF AwakeParent, TypeOK, NewOK, Unlinked, Linking
<1>18. CASE KillStart
  BY <1>18 DEF KillStart, TypeOK, NewOK, Unlinked, Linking
<1>19. CASE KillWalk
  BY <1>19 DEF KillWalk, TypeOK, NewOK, Unlinked, Linking
<1>20. CASE KillNoParent
  BY <1>20 DEF KillNoParent, TypeOK, NewOK, Unlinked, Linking
<1>21. CASE KillAwake
  BY <1>21 DEF KillAwake, TypeOK, NewOK, Unlinked, Linking
<1>22. CASE KillReadCount
  BY <1>22 DEF KillReadCount, TypeOK, NewOK, Unlinked, Linking
<1>23. CASE KillUncount
  BY <1>23 DEF KillUncount, TypeOK, NewOK, Unlinked, Linking
<1>24. CASE KillZombie
  BY <1>24 DEF KillZombie, TypeOK, NewOK, Unlinked, Linking
<1>28. CASE SpawnSlot
  BY <1>28 DEF SpawnSlot, TypeOK, NewOK, Unlinked, Linking
<1>29. CASE KillSlot
  BY <1>29 DEF KillSlot, TypeOK, NewOK, Unlinked, Linking
<1>25. CASE KillYield
  BY <1>25, TypedSchedule DEF KillYield, TypeOK, NewOK, Unlinked, Linking
<1>26. CASE ReapScan
  BY <1>26 DEF ReapScan, TypeOK, NewOK, Unlinked, Linking
<1>27. CASE ReapFree
  BY <1>27 DEF ReapFree, TypeOK, NewOK, Unlinked, Linking
<1> QED
  BY <1>1, <1>2, <1>3, <1>4, <1>5, <1>6, <1>7, <1>8, <1>9, <1>10, <1>11, <1>12, <1>13, <1>14, <1>15, <1>16, <1>17, <1>18, <1>19, <1>20, <1>21, <1>22, <1>23, <1>24, <1>25, <1>26, <1>27,
  <1>28, <1>29
  DEF Next, Step, Spawn, Kill, Reap

(* Every variable keeps its type: the walks, the links and the counters of *)
(* task_mgr.c never leave the TCBs and the integers they range over.       *)
THEOREM TypeCorrect == Spec => []TypeOK
<1>1. Init => Typed
  BY TypedInit
<1>2. Typed /\ [Next]_vars => Typed'
  BY TypeStep, NewStep DEF Typed
<1>3. Typed => TypeOK
  BY DEF Typed
<1> QED
  BY <1>1, <1>2, <1>3, PTL DEF Spec

(***************************************************************************)
(* The ring.                                                               *)
(***************************************************************************)
Building == {"pidr", "pidw", "check", "ccr", "ccw", "slot", "prev"}
Outside == {"loop", "block", "kill", "kwalk", "kccr", "kccw", "kslot", "zombie", "int"}
Reaping == {"rscan", "rcli"}

(* The boot context and the reaper are two different TCBs.                 *)
LEMMA BootTcbs == Kernel \in Tcb /\ Reaper \in Tcb /\ Kernel # Reaper
  BY TcbAssumption DEF Boot

(***************************************************************************)
(* Schedule.                                                               *)
(***************************************************************************)

(* A walk that does not pass a TCB of Stop is closed under next.           *)
LEMMA WalkClosed ==
  ASSUME TypeOK, NEW s \in Tcb, NEW Stop \in SUBSET Tcb
  PROVE  /\ s \in Walk(s, Stop)
         /\ Walk(s, Stop) \subseteq Tcb
         /\ \A y \in Walk(s, Stop) \ Stop : next[y] \in Walk(s, Stop)
         /\ \A S \in SUBSET Tcb :
              s \in S /\ (\A y \in S : next[y] \in S) => Walk(s, Stop) \subseteq S
<1> DEFINE closed == {S \in SUBSET Tcb : s \in S /\ \A y \in S \ Stop : next[y] \in S}
<1>1. Walk(s, Stop) = {x \in Tcb : \A S \in closed : x \in S}
  BY DEF Walk
<1>2. \A y \in Tcb : next[y] \in Tcb
  BY DEF TypeOK
<1>3. ASSUME NEW y \in Walk(s, Stop) \ Stop
      PROVE  next[y] \in Walk(s, Stop)
  BY <1>1, <1>2, <1>3
<1> QED
  BY <1>1, <1>3

(* The task that gets the CPU is in the ring and was READY, or is the      *)
(* current task that keeps running.                                        *)
LEMMA ScheduleFinds ==
  ASSUME TypeOK, Threads, WellLinked, OneRing, HeadReady, Schedule
  PROVE  /\ current_task' \in Linked
         /\ \/ state[current_task'] = "READY"
            \/ state[self] = "RUNNING" /\ current_task' = self
         /\ state' = [x \in Tcb |->
              IF x = current_task' THEN "RUNNING"
              ELSE IF x = self /\ state[x] = "RUNNING" THEN "READY" ELSE state[x]]
<1> DEFINE stopped == IF state[self] = "RUNNING"
                        THEN [state EXCEPT ![self] = "READY"] ELSE state
           ready == {x \in Tcb : stopped[x] = "READY"}
           Stop == ready \cup {y \in Tcb : next[y] = self}
           W == Walk(next[self], Stop)
           found == Found(next[self], ready, self)
           task == IF found = {} THEN self ELSE CHOOSE x \in found : TRUE
<1>1. state' = [stopped EXCEPT ![task] = "RUNNING"] /\ current_task' = task
  BY DEF Schedule
<1>2. found = W \cap ready
  BY DEF Found
<1>3. self \in Tcb /\ self \in Linked /\ next[self] \in Linked /\ Linked \subseteq Tcb
  BY DEF self, TypeOK, Threads, WellLinked, Linked
<1>4. W \subseteq Linked
  BY <1>3, WalkClosed, Stop \in SUBSET Tcb DEF WellLinked
<1>5. stopped \in [Tcb -> State]
  BY DEF TypeOK, State, self
<1>6. CASE found = {}
  <2>1. \A y \in W \cup {self} : next[y] \in W \cup {self}
    <3>1. next[self] \in W
      BY <1>3, WalkClosed, Stop \in SUBSET Tcb
    <3>2. ASSUME NEW y \in W
          PROVE  next[y] \in W \cup {self}
      <4>1. y \notin ready
        BY <1>2, <1>6
      <4>2. CASE next[y] = self
        BY <4>2
      <4>3. CASE next[y] # self
        <5>1. y \in W \ Stop
          BY <4>1, <4>3
        <5> QED
          BY <1>3, <5>1, WalkClosed, Stop \in SUBSET Tcb
      <4> QED
        BY <4>2, <4>3
    <3> QED
      BY <3>1, <3>2
  <2>2. Kernel \in W \cup {self}
    BY <1>3, <1>4, <2>1 DEF OneRing, head_task
  <2>3. self = Kernel
    <3> SUFFICES ASSUME self # Kernel
                 PROVE  FALSE
      OBVIOUS
    <3>1. state[Kernel] = "READY" /\ Kernel \in W
      BY <2>2 DEF HeadReady, self
    <3>2. stopped[Kernel] = "READY"
      BY <3>1, BootTcbs, <1>3 DEF TypeOK
    <3> QED
      BY <3>1, <3>2, <1>2, <1>6, BootTcbs
  <2>4. task = self /\ state[self] \in {"READY", "RUNNING"}
    BY <1>6, <2>3 DEF HeadReady
  <2> HIDE DEF task, found, W
  <2> QED
    BY <1>1, <1>3, <2>4 DEF TypeOK
<1>7. CASE found # {}
  <2>1. task \in found
    BY <1>7
  <2>2. task \in Linked /\ task \in Tcb /\ stopped[task] = "READY"
    BY <2>1, <1>2, <1>4, <1>3
  <2> HIDE DEF task, found, W
  <2> QED
    BY <1>1, <1>3, <2>2 DEF TypeOK
<1> QED
  BY <1>6, <1>7

(***************************************************************************)
(* Steps that leave the ring alone.                                        *)
(***************************************************************************)
Ring == Threads /\ Owners /\ OneLinker /\ TailOK /\ WellLinked /\ OneRing

(* A step that only gives the CPU away.                                    *)
LEMMA SwitchKeepsRing ==
  ASSUME Ring, UNCHANGED <<next, prev, tail_task, live, new, reg>>,
         pc' = pc, current_task' \in Linked
  PROVE  Linked' = Linked /\ Ring'
<1>1. Linked' = Linked /\ HeadBehind' = HeadBehind
  BY DEF Linked, HeadBehind
<1> QED
  BY <1>1 DEF Ring, Threads, Owners, Owner, OneLinker, TailOK, Appending, WellLinked,
     OneRing, head_task

(* A step of one task outside the statements that link and unlink.         *)
LEMMA QuietKeepsRing ==
  ASSUME Typed, Ring, UNCHANGED <<next, prev, tail_task, live, new>>,
         current_task' \in Linked,
         NEW from, NEW to, Goto(from, to),
         \/ from \in Building /\ to \in Building
         \/ from \in Outside /\ to \in Outside
         \/ from \in Reaping /\ to \in Reaping,
         \A o \in live \ {self} : reg'[o] = reg[o]
  PROVE  Linked' = Linked /\ Ring'
<1> USE DEF Goto
<1>0. self \in Linked /\ self \in live /\ self \in Tcb /\ live \subseteq Tcb
  BY DEF Ring, Threads, self, Linked, Typed, TypeOK
<1>1. /\ \A o \in live \ {self} : pc'[o] = pc[o]
      /\ pc[self] = from /\ pc'[self] = to
  BY <1>0 DEF Typed, TypeOK
<1>2. \A o \in live : /\ pc'[o] \in Unlinked <=> pc[o] \in Unlinked
                      /\ \A l \in Linking : pc'[o] = l <=> pc[o] = l
                      /\ pc'[o] \in Reaping <=> pc[o] \in Reaping
                      /\ pc'[o] = "idle" <=> pc[o] = "idle"
  BY <1>1 DEF Building, Outside, Reaping, Unlinked, Linking
<1>3. Linked' = Linked
  BY <1>2 DEF Linked
<1>4. HeadBehind' = HeadBehind
  BY <1>2 DEF HeadBehind, Linking
<1>5. Threads'
  BY <1>2, <1>3 DEF Ring, Threads, Reaping, Linked
<1>6. Owners'
  <2>1. \A o \in live : Owner(o)' <=> Owner(o)
    BY <1>2 DEF Owner, Linking
  <2>2. \A o \in live : pc[o] \in Unlinked => new[o] # self
    BY <1>0 DEF Linked
  <2> QED
    BY <1>1, <1>2, <2>1, <2>2 DEF Ring, Owners
<1>7. OneLinker'
  BY <1>2 DEF Ring, OneLinker, Linking
<1>8. TailOK'
  <2>1. \A o \in live : pc[o] = "tnext" => reg'[o] = reg[o]
    BY <1>1 DEF Building, Outside, Reaping
  <2>2. \A o \in live : Appending(o)' <=> Appending(o)
    BY <1>2 DEF Appending, Linking
  <2>3. \A o \in live : pc'[o] \in Linking <=> pc[o] \in Linking
    BY <1>2 DEF Linking
  <2>4. \A o \in live : /\ pc'[o] = "tnext" <=> pc[o] = "tnext"
                        /\ pc'[o] = "hprev" <=> pc[o] = "hprev"
    BY <1>2 DEF Linking
  <2> QED
    BY <1>3, <2>1, <2>2, <2>3, <2>4 DEF Ring, TailOK
<1>9. WellLinked' /\ OneRing'
  BY <1>3, <1>4 DEF Ring, WellLinked, OneRing, head_task
<1> QED
  BY <1>3, <1>5, <1>6, <1>7, <1>8, <1>9 DEF Ring

(* The TCBs with a pid, when no task enters or leaves next_pid++.          *)
LEMMA NumberedKept ==
  ASSUME Typed, UNCHANGED <<live, new>>, self \in live,
         NEW from, NEW to, Goto(from, to),
         {from, to} \cap {"pidr", "pidw"} = {} \/ {from, to} \subseteq {"pidr", "pidw"}
  PROVE  Numbered' = Numbered
<1>1. \A o \in live : /\ o # self => pc'[o] = pc[o]
                      /\ pc[self] = from /\ pc'[self] = to
  BY DEF Goto, Typed, TypeOK, self
<1> QED
  BY <1>1 DEF Numbered
(***************************************************************************)
(* The steps of SpawnTask.                                                 *)
(***************************************************************************)

(* What holds of the executing task.                                       *)
LEMMA SelfFacts ==
  ASSUME Typed, Ring
  PROVE  /\ self \in Linked /\ self \in live /\ self \in Tcb
         /\ live \subseteq Tcb /\ Linked \subseteq live
         /\ Kernel \in Linked /\ Kernel \in Tcb /\ pc[Kernel] = "idle"
         /\ Reaper \in Linked /\ Reaper \in Tcb /\ Kernel # Reaper
  BY BootTcbs DEF Ring, Threads, self, Linked, Typed, TypeOK

(* A TCB that my_malloc has just returned is not part of the ring.         *)
LEMMA AllocKeepsRing ==
  ASSUME Typed, Ring, NEW p \in Programs, NEW a \in Tcb, SpawnAlloc(p, a)
  PROVE  Linked' = Linked /\ Ring'
<1> USE SelfFacts
<1>1. /\ a \notin live /\ live' = live \cup {a} /\ a # self /\ a # Kernel /\ a # Reaper
      /\ pc[self] = "loop" /\ pc'[self] = "pidr" /\ pc'[a] = "loop"
      /\ new'[self] = a
      /\ \A o \in live \ {self} : pc'[o] = pc[o] /\ new'[o] = new[o] /\ reg'[o] = reg[o]
      /\ current_task' = current_task
      /\ next' = next /\ prev' = prev /\ tail_task' = tail_task
  BY DEF SpawnAlloc, links, Typed, TypeOK
<1>2. Linked' = Linked
  <2>1. ASSUME NEW x \in live
        PROVE  x \in Linked' <=> x \in Linked
    BY <1>1 DEF Linked, Unlinked
  <2>2. a \notin Linked'
    BY <1>1 DEF Linked, Unlinked
  <2> QED
    BY <1>1, <2>1, <2>2 DEF Linked
<1>3. HeadBehind' = HeadBehind
  BY <1>1 DEF HeadBehind
<1>4. Threads'
  BY <1>1, <1>2 DEF Ring, Threads
<1>5. Owners'
  <2>1. \A o \in live' : Owner(o)' <=> o = self \/ Owner(o)
    BY <1>1 DEF Owner, Unlinked, Linking
  <2>2. \A o \in live : Owner(o) => new[o] # a /\ o # self
    BY <1>1 DEF Ring, Owners, Owner, Unlinked, Linking
  <2>3. \A o \in live : Owner(o) /\ pc[o] \in Unlinked => new[o] # self
    BY DEF Linked
  <2> QED
    BY <1>1, <2>1, <2>2, <2>3 DEF Ring, Owners, Unlinked, Owner
<1>6. OneLinker'
  BY <1>1 DEF Ring, OneLinker, Linking
<1>7. TailOK'
  <2>1. \A o \in live' : pc'[o] \in Linking => o \in live \ {self} /\ pc[o] \in Linking
    BY <1>1 DEF Linking
  <2>2. \A o \in live \ {self} : Appending(o)' <=> Appending(o)
    BY <1>1 DEF Appending
  <2>3. ~Appending(self) /\ pc'[self] \notin {"hprev", "tailw"} /\ pc'[a] \notin {"hprev", "tailw"}
    BY <1>1 DEF Appending
  <2> QED
    BY <1>1, <1>2, <2>1, <2>2, <2>3 DEF Ring, TailOK, Linking
<1>8. WellLinked' /\ OneRing'
  BY <1>1, <1>2, <1>3 DEF Ring, WellLinked, OneRing, head_task
<1> QED
  BY <1>2, <1>4, <1>5, <1>6, <1>7, <1>8 DEF Ring

(* SpawnTask frees a TCB that it has never linked.                         *)
LEMMA RefuseKeepsRing ==
  ASSUME Typed, Ring, SpawnRefuse
  PROVE  Linked' = Linked /\ Ring'
<1> USE SelfFacts
<1> DEFINE a == new[self]
<1>1. /\ a \in live \ {Kernel} /\ a \notin Linked /\ live' = live \ {a}
      /\ pc[self] = "check" /\ pc'[self] \in {"loop", "block"}
      /\ \A o \in live \ {self} : pc'[o] = pc[o] /\ new'[o] = new[o] /\ reg'[o] = reg[o]
      /\ current_task' = current_task
      /\ next' = next /\ prev' = prev /\ tail_task' = tail_task
  BY DEF SpawnRefuse, links, Goto, Typed, TypeOK, Ring, Owners, Owner, Unlinked, Linked
<1>2. \A o \in live : Owner(o) /\ o # self => new[o] # a
  BY <1>1 DEF Ring, Owners, Owner, Unlinked
<1>3. pc[a] = "loop"
  BY <1>1 DEF Ring, Owners, Owner, Unlinked
<1> HIDE DEF a
<1>4. Linked' = Linked
  BY <1>1, <1>2, <1>3 DEF Linked, Unlinked, Owner, a
<1>5. HeadBehind' = HeadBehind
  BY <1>1, <1>3 DEF HeadBehind
<1>6. Threads'
  BY <1>1, <1>4 DEF Ring, Threads
<1>7. \A o \in live' : Owner(o)' <=> o # self /\ Owner(o)
  BY <1>1 DEF Owner, Unlinked, Linking
<1>8. Owners'
  <2>1. \A o \in live : Owner(o) /\ pc[o] \in Unlinked => new[o] # self
    BY DEF Linked
  <2> QED
    BY <1>1, <1>2, <1>7, <2>1 DEF Ring, Owners
<1>9. OneLinker'
  BY <1>1 DEF Ring, OneLinker, Linking
<1>10. TailOK'
  <2>1. \A o \in live' : pc'[o] \in Linking => o \in live \ {self} /\ pc[o] \in Linking
    BY <1>1 DEF Linking
  <2>2. \A o \in live \ {self} : Appending(o)' <=> Appending(o)
    BY <1>1 DEF Appending
  <2>3. ~Appending(self) /\ pc'[self] \notin {"hprev", "tailw"} /\ ~Appending(a)
    BY <1>1, <1>3 DEF Appending
  <2> QED
    BY <1>1, <1>4, <2>1, <2>2, <2>3 DEF Ring, TailOK, Linking
<1>11. WellLinked' /\ OneRing'
  BY <1>1, <1>4, <1>5 DEF Ring, WellLinked, OneRing, head_task
<1> QED
  BY <1>4, <1>6, <1>8, <1>9, <1>10, <1>11 DEF Ring
(* The first two links are written while nobody else links.                *)
LEMMA AimKeepsRing ==
  ASSUME Typed, Ring, SpawnAim, RingSafe'
  PROVE  Linked' = Linked /\ Ring'
<1> USE SelfFacts
<1> DEFINE a == new[self]
<1>0. a \in live \ {Kernel} /\ a \notin Linked /\ a \in Tcb
  <2>1. pc[self] = "prev"
    BY DEF SpawnAim, Goto
  <2> QED
    BY <2>1 DEF Ring, Owners, Owner, Unlinked, Linked
<1>1. /\ a \in live \ {Kernel} /\ a \notin Linked /\ a \in Tcb
      /\ live' = live /\ new' = new /\ reg' = reg
      /\ current_task' = current_task /\ tail_task' = tail_task
      /\ pc[self] = "prev" /\ pc' = [pc EXCEPT ![self] = "tread"]
      /\ next' = [next EXCEPT ![a] = Kernel] /\ prev' = [prev EXCEPT ![a] = tail_task]
  BY <1>0 DEF SpawnAim, Goto, head_task, locals
<1>2. \A o \in live : o # self => pc[o] \notin Linking
  BY DEF SpawnAim, Race, RingSafe, RingRaces, Others
<1> HIDE DEF a
<1>3. /\ pc'[self] = "tread"
      /\ \A o \in live : o # self => pc'[o] = pc[o]
      /\ next'[a] = Kernel /\ prev'[a] = tail_task
      /\ \A x \in Linked : next'[x] = next[x] /\ prev'[x] = prev[x]
  BY <1>1 DEF Typed, TypeOK
<1>4. Linked' = Linked /\ HeadBehind' = HeadBehind
  BY <1>1, <1>3 DEF Linked, Unlinked, HeadBehind
<1>5. Threads'
  BY <1>1, <1>3, <1>4 DEF Ring, Threads
<1>6. Owners'
  <2>1. \A o \in live : Owner(o)' <=> Owner(o)
    BY <1>1, <1>3 DEF Owner, Unlinked, Linking
  <2>2. \A o \in live : pc[o] \in Unlinked => new[o] # self
    BY DEF Linked
  <2>3. \A o \in live : pc'[o] \in Unlinked => pc[o] \in Unlinked
    BY <1>1, <1>3 DEF Unlinked
  <2> QED
    BY <1>1, <1>3, <2>1, <2>2, <2>3 DEF Ring, Owners
<1>7. OneLinker'
  BY <1>1, <1>2, <1>3 DEF OneLinker
<1>8. TailOK'
  <2>1. tail_task \in Linked /\ next[tail_task] = Kernel
    BY <1>1, <1>2 DEF Ring, TailOK, Appending, Linking
  <2>2. \A o \in live : pc'[o] \in Linking => o = self
    BY <1>1, <1>2, <1>3
  <2> QED
    BY <1>1, <1>3, <1>4, <2>1, <2>2, a = new[self] DEF TailOK, Linking, a
<1>9. WellLinked'
  <2>1. \A x \in Linked : next[x] \in Linked
    BY DEF Ring, WellLinked
  <2>2. ~HeadBehind
    BY <1>1, <1>2 DEF HeadBehind, Linking
  <2> QED
    BY <1>3, <1>4, <2>1, <2>2 DEF Ring, WellLinked
<1>10. OneRing'
  BY <1>3, <1>4 DEF Ring, OneRing, head_task
<1> QED
  BY <1>4, <1>5, <1>6, <1>7, <1>8, <1>9, <1>10 DEF Ring

(* The load of tail_task changes nothing, and is what tail_task stays.     *)
LEMMA ReadTailKeepsRing ==
  ASSUME Typed, Ring, SpawnReadTail
  PROVE  Linked' = Linked /\ Ring'
<1> USE SelfFacts
<1>1. /\ UNCHANGED <<live, new, next, prev, tail_task, current_task>>
      /\ pc[self] = "tread" /\ pc'[self] = "tnext" /\ reg'[self] = tail_task
      /\ \A o \in live : o # self => pc'[o] = pc[o] /\ reg'[o] = reg[o]
  BY DEF SpawnReadTail, links, Goto, Typed, TypeOK
<1>2. Linked' = Linked /\ HeadBehind' = HeadBehind
  BY <1>1 DEF Linked, HeadBehind, Unlinked
<1>3. \A o \in live : /\ pc'[o] \in Linking <=> pc[o] \in Linking
                      /\ pc'[o] \in Unlinked <=> pc[o] \in Unlinked
                      /\ Appending(o)' <=> Appending(o)
                      /\ Owner(o)' <=> Owner(o)
                      /\ pc'[o] = "hprev" <=> pc[o] = "hprev"
                      /\ pc'[o] = "tnext" => o = self \/ pc[o] = "tnext"
  BY <1>1 DEF Linking, Unlinked, Appending, Owner
<1>4. \A o \in live : pc[o] \in Unlinked => new[o] # self
  BY DEF Linked
<1>5. Threads'
  BY <1>1, <1>2 DEF Ring, Threads
<1>6. Owners'
  BY <1>1, <1>3, <1>4 DEF Ring, Owners
<1>7. OneLinker'
  BY <1>1, <1>3 DEF Ring, OneLinker
<1>8. TailOK'
  BY <1>1, <1>2, <1>3 DEF Ring, TailOK
<1>9. WellLinked' /\ OneRing'
  BY <1>1, <1>2 DEF Ring, WellLinked, OneRing, head_task
<1> QED
  BY <1>2, <1>5, <1>6, <1>7, <1>8, <1>9 DEF Ring

(* The write that makes the new TCB reachable.                             *)
LEMMA LinkNextKeepsRing ==
  ASSUME Typed, Ring, SpawnLinkNext
  PROVE  Linked' = Linked \cup {new[self]} /\ Ring'
<1> USE SelfFacts
<1> DEFINE a == new[self]
<1>0. /\ a \in live \ {Kernel} /\ a \notin Linked /\ a \in Tcb
      /\ reg[self] = tail_task /\ tail_task \in Linked /\ tail_task \in Tcb
      /\ next[a] = Kernel /\ prev[a] = tail_task
  <2>1. pc[self] = "tnext"
    BY DEF SpawnLinkNext, Goto
  <2>2. a \in live \ {Kernel} /\ a \notin Linked
    BY <2>1 DEF Ring, Owners, Owner, Unlinked, Linked
  <2> QED
    BY <2>1, <2>2 DEF Ring, TailOK, Linking
<1>1. /\ a \in live \ {Kernel} /\ a \notin Linked /\ a \in Tcb /\ a # self
      /\ live' = live /\ new' = new /\ prev' = prev
      /\ current_task' = current_task /\ tail_task' = tail_task
      /\ pc[self] = "tnext" /\ pc'[self] = "hprev"
      /\ reg[self] = tail_task /\ tail_task \in Linked /\ tail_task \in Tcb
      /\ next[a] = Kernel /\ prev[a] = tail_task
      /\ next' = [next EXCEPT ![tail_task] = a]
      /\ \A o \in live : o # self => pc'[o] = pc[o] /\ reg'[o] = reg[o]
  BY <1>0 DEF SpawnLinkNext, Goto, Typed, TypeOK
<1>2. \A o \in live : o # self => pc[o] \notin Linking
  BY <1>1 DEF Ring, OneLinker, Linking
<1>3. \A o \in live : Owner(o) /\ new[o] = a => o = self
  BY <1>1 DEF Ring, Owners, Owner, Unlinked
<1> HIDE DEF a
<1>4. Linked' = Linked \cup {a}
  <2>1. a \in Linked'
    BY <1>1, <1>3 DEF Linked, Owner, Unlinked
  <2>2. ASSUME NEW x \in live, x # a
        PROVE  x \in Linked' <=> x \in Linked
    BY <1>1, <2>2 DEF Linked, Unlinked, a
  <2> QED
    BY <1>1, <2>1, <2>2 DEF Linked
<1>5. Threads'
  BY <1>1, <1>4 DEF Ring, Threads
<1>6. \A o \in live : /\ Owner(o)' <=> Owner(o)
                      /\ pc'[o] \in Unlinked => pc[o] \in Unlinked /\ o # self
                      /\ pc'[o] \in Linking => o = self
  BY <1>1, <1>2 DEF Owner, Unlinked, Linking
<1>7. Owners'
  <2>1. \A o \in live : pc[o] \in Unlinked => new[o] # self
    BY DEF Linked
  <2> QED
    BY <1>1, <1>6, <2>1 DEF Ring, Owners
<1>8. OneLinker'
  BY <1>1, <1>6 DEF OneLinker
<1>9. ~HeadBehind /\ HeadBehind' /\ next[tail_task] = Kernel
  BY <1>1, <1>2 DEF HeadBehind, Linking, Ring, TailOK, Appending
<1>10. /\ next'[a] = Kernel /\ next'[tail_task] = a
       /\ \A x \in Linked : x # tail_task => next'[x] = next[x] /\ next[x] # Kernel
  <2>1. \A x \in Linked : prev[next[x]] = x
    BY <1>9 DEF Ring, WellLinked
  <2>2. \A x \in Linked : next[x] = Kernel => x = tail_task
    BY <1>1, <1>9, <2>1
  <2> QED
    BY <1>1, <2>2 DEF Typed, TypeOK
<1>11. TailOK'
  <2>1. \A x \in Linked' : next'[x] = Kernel => x = a
    BY <1>1, <1>4, <1>10
  <2>2. a # tail_task /\ \A o \in live : pc'[o] \in Linking => new[o] = a
    BY <1>1, <1>6 DEF a
  <2>3. \A o \in live : pc'[o] # "tnext"
    BY <1>1, <1>6 DEF Linking
  <2>4. ~(\A o \in live : ~(pc'[o] \in {"hprev", "tailw"}))
    BY <1>1
  <2>5. \A o \in live' : pc'[o] \in Linking =>
          prev'[new'[o]] = tail_task' /\ next'[new'[o]] = Kernel
    BY <1>1, <1>10, <2>2
  <2>6. \A o \in live' : pc'[o] = "hprev" => \A x \in Linked' : next'[x] = Kernel => x = new'[o]
    BY <1>1, <2>1, <2>2 DEF Linking
  <2> QED
    BY <1>1, <1>4, <2>3, <2>4, <2>5, <2>6 DEF TailOK, Appending
<1>12. WellLinked'
  <2> SUFFICES ASSUME NEW x \in Linked \cup {a}
               PROVE  /\ next'[x] \in Linked \cup {a}
                      /\ x # Kernel => prev[x] \in Linked \cup {a} /\ next'[prev[x]] = x
                      /\ next'[x] # Kernel => prev[next'[x]] = x
    BY <1>1, <1>4, <1>9 DEF WellLinked, head_task
  <2>1. CASE x = a
    BY <1>1, <1>10, <2>1
  <2>2. CASE x = tail_task
    <3>1. x # Kernel => prev[x] \in Linked /\ next[prev[x]] = x
      BY <1>1, <1>9, <2>2 DEF Ring, WellLinked
    <3> QED
      BY <1>1, <1>9, <1>10, <2>2, <3>1
  <2>3. CASE x \in Linked /\ x # tail_task
    <3>1. /\ next[x] \in Linked /\ prev[x] \in Linked
          /\ next[prev[x]] = x /\ prev[next[x]] = x
      BY <1>9, <2>3 DEF Ring, WellLinked
    <3> QED
      BY <1>9, <1>10, <2>3, <3>1
  <2> QED
    BY <2>1, <2>2, <2>3
<1>13. OneRing'
  <2> SUFFICES ASSUME NEW S \in SUBSET (Linked \cup {a}), S # {},
                      \A x \in S : next'[x] \in S
               PROVE  Kernel \in S
    BY <1>4 DEF OneRing, head_task
  <2>1. CASE a \in S
    BY <1>10, <2>1
  <2>2. CASE a \notin S
    <3>1. tail_task \notin S /\ S \in SUBSET Linked
      BY <1>10, <2>2
    <3>2. \A x \in S : next[x] \in S
      BY <1>10, <3>1
    <3> QED
      BY <3>1, <3>2 DEF Ring, OneRing, head_task
  <2> QED
    BY <2>1, <2>2
<1> QED
  BY <1>4, <1>5, <1>7, <1>8, <1>11, <1>12, <1>13 DEF Ring, a
(* What a spawner that has linked its TCB knows of it.                     *)
LEMMA AppendingFacts ==
  ASSUME Typed, Ring, pc[self] \in {"hprev", "tailw"}
  PROVE  /\ new[self] \in Linked /\ new[self] # Kernel /\ new[self] \in Tcb
         /\ prev[new[self]] = tail_task /\ next[new[self]] = Kernel
         /\ \A o \in live : o # self => pc[o] \notin Linking
<1> USE SelfFacts
<1>1. Owner(self)
  BY DEF Owner, Linking
<1>2. new[self] \in live \ {Kernel}
  BY <1>1 DEF Ring, Owners
<1>3. \A o \in live : pc[o] \in Unlinked => new[o] # new[self]
  BY <1>1 DEF Ring, Owners, Owner, Unlinked
<1> QED
  BY <1>2, <1>3 DEF Ring, TailOK, OneLinker, Linking, Linked

(* The write of head_task->prev closes the ring backwards.                 *)
LEMMA LinkPrevKeepsRing ==
  ASSUME Typed, Ring, SpawnLinkPrev
  PROVE  Linked' = Linked /\ Ring'
<1> USE SelfFacts
<1> DEFINE a == new[self]
<1>1. /\ pc[self] = "hprev" /\ pc'[self] = "tailw"
      /\ UNCHANGED <<live, new, reg, next, tail_task, current_task>>
      /\ prev' = [prev EXCEPT ![Kernel] = a]
      /\ \A o \in live : o # self => pc'[o] = pc[o]
  BY DEF SpawnLinkPrev, Goto, head_task, locals, Typed, TypeOK
<1>2. /\ a \in Linked /\ a # Kernel /\ a \in Tcb
      /\ prev[a] = tail_task /\ next[a] = Kernel
      /\ \A o \in live : o # self => pc[o] \notin Linking
  BY <1>1, AppendingFacts
<1>3. \A x \in Linked : next[x] = Kernel => x = a
  BY <1>1 DEF Ring, TailOK
<1> HIDE DEF a
<1>4. Linked' = Linked
  BY <1>1 DEF Linked, Unlinked
<1>5. HeadBehind /\ ~HeadBehind'
  BY <1>1, <1>2 DEF HeadBehind, Linking
<1>6. \A o \in live : /\ Owner(o)' <=> Owner(o)
                      /\ pc'[o] \in Unlinked <=> pc[o] \in Unlinked
                      /\ pc'[o] \in Linking => o = self
                      /\ pc'[o] # "tnext" /\ pc'[o] # "hprev"
  BY <1>1, <1>2 DEF Owner, Unlinked, Linking
<1>7. prev'[Kernel] = a /\ \A x \in Tcb : x # Kernel => prev'[x] = prev[x]
  BY <1>1 DEF Typed, TypeOK
<1>8. Threads'
  BY <1>1, <1>4 DEF Ring, Threads
<1>9. Owners'
  <2>1. \A o \in live : pc[o] \in Unlinked => new[o] # self
    BY DEF Linked
  <2> QED
    BY <1>1, <1>6, <2>1 DEF Ring, Owners
<1>10. OneLinker'
  BY <1>1, <1>6 DEF OneLinker
<1>11. TailOK'
  BY <1>1, <1>2, <1>4, <1>6, <1>7 DEF Ring, TailOK, Appending, a
<1>12. WellLinked'
  <2> SUFFICES ASSUME NEW x \in Linked
               PROVE  /\ next[x] \in Linked
                      /\ prev'[x] \in Linked /\ next[prev'[x]] = x
                      /\ prev'[next[x]] = x
    BY <1>1, <1>4, <1>5 DEF WellLinked
  <2>1. next[x] \in Linked /\ next[x] \in Tcb /\ x \in Tcb
    BY DEF Ring, WellLinked
  <2>2. x # Kernel => prev[x] \in Linked /\ next[prev[x]] = x
    BY DEF Ring, WellLinked, head_task
  <2>3. next[x] # Kernel => prev[next[x]] = x
    BY DEF Ring, WellLinked, head_task
  <2> QED
    BY <1>2, <1>3, <1>7, <2>1, <2>2, <2>3
<1>13. OneRing'
  BY <1>1, <1>4 DEF Ring, OneRing, head_task
<1> QED
  BY <1>4, <1>8, <1>9, <1>10, <1>11, <1>12, <1>13 DEF Ring

(* The write of tail_task ends the linking.                                *)
LEMMA LinkTailKeepsRing ==
  ASSUME Typed, Ring, SpawnLinkTail
  PROVE  Linked' = Linked /\ Ring'
<1> USE SelfFacts
<1>1. /\ pc[self] = "tailw" /\ pc'[self] = "block"
      /\ UNCHANGED <<live, reg, next, prev, current_task>>
      /\ tail_task' = new[self]
      /\ \A o \in live : o # self => pc'[o] = pc[o] /\ new'[o] = new[o]
  BY DEF SpawnLinkTail, Goto, Typed, TypeOK
<1>2. /\ new[self] \in Linked /\ next[new[self]] = Kernel
      /\ \A o \in live : o # self => pc[o] \notin Linking
  BY <1>1, AppendingFacts
<1>3. Linked' = Linked /\ HeadBehind' = HeadBehind
  BY <1>1 DEF Linked, Unlinked, HeadBehind
<1>4. \A o \in live : /\ pc'[o] \notin Linking
                      /\ Owner(o)' => Owner(o) /\ o # self
                      /\ pc'[o] \in Unlinked <=> pc[o] \in Unlinked
  BY <1>1, <1>2 DEF Owner, Unlinked, Linking
<1>5. Threads'
  BY <1>1, <1>3 DEF Ring, Threads
<1>6. Owners'
  <2>1. \A o \in live : pc[o] \in Unlinked => new[o] # self
    BY DEF Linked
  <2> QED
    BY <1>1, <1>4, <2>1 DEF Ring, Owners
<1>7. OneLinker'
  BY <1>1, <1>4 DEF OneLinker
<1>8. TailOK'
  BY <1>1, <1>2, <1>3, <1>4 DEF TailOK, Linking
<1>9. WellLinked' /\ OneRing'
  BY <1>1, <1>3 DEF Ring, WellLinked, OneRing, head_task
<1> QED
  BY <1>3, <1>5, <1>6, <1>7, <1>8, <1>9 DEF Ring

(***************************************************************************)
(* The unlink of the reaper.                                               *)
(***************************************************************************)
(* Unlinking a ZOMBIE leaves one well linked ring of the others.           *)
LEMMA ReapKeepsRing ==
  ASSUME Typed, Ring, Dead, HeadReady, ReapFree, RingSafe'
  PROVE  Linked' = Linked \ {reg[self]} /\ Ring'
<1> USE SelfFacts
<1> DEFINE x == reg[self]
           n == next[x]
           p == prev[x]
<1>1. pc[self] = "rcli" /\ self = Reaper /\ pc' = [pc EXCEPT ![self] = "rscan"]
  BY DEF ReapFree, Goto, Ring, Threads
<1>2. /\ x \in Linked /\ x \in Tcb /\ x \in live /\ state[x] = "ZOMBIE"
      /\ x # Kernel /\ x # self /\ pc[x] \in {"int", "loop"}
  BY <1>1 DEF Dead, HeadReady
<1>3. \A o \in live : Owner(o) => new[o] # x /\ o # x
  <2>1. /\ ~\E o \in live : \/ pc[o] \in {"tread", "tnext"} /\ prev[new[o]] = x
                            \/ pc[o] \in {"hprev", "tailw"} /\ new[o] = x
    BY DEF ReapFree, RingSafe, RingRaces
  <2> QED
    BY <1>2, <2>1 DEF Owner, Unlinked, Linking, Linked
<1>4. \A o \in live : pc[o] \in {"tread", "tnext"} => tail_task # x
  <2>1. /\ ~\E o \in live : pc[o] \in {"tread", "tnext"} /\ prev[new[o]] = x
    BY DEF ReapFree, RingSafe, RingRaces
  <2> QED
    BY <2>1 DEF Ring, TailOK, Linking
<1> HIDE DEF x
<1>5. HeadBehind => n # Kernel
  <2> SUFFICES ASSUME NEW o \in live, pc[o] = "hprev", n = Kernel
               PROVE  FALSE
    BY DEF HeadBehind
  <2>1. x = new[o]
    BY <1>2 DEF Ring, TailOK
  <2> QED
    BY <1>3, <2>1 DEF Owner, Linking
<1>6. /\ n \in Linked /\ p \in Linked /\ next[p] = x /\ prev[n] = x
      /\ n \in Tcb /\ p \in Tcb
  BY <1>2, <1>5 DEF Ring, WellLinked, head_task
<1>7. n # x /\ p # x
  <2>1. n # x
    BY <1>2, {x} \in SUBSET Linked DEF Ring, OneRing, head_task
  <2> QED
    BY <1>6, <2>1
<1> HIDE DEF n, p
<1>8. /\ next' = [next EXCEPT ![p] = n]
      /\ prev' = [prev EXCEPT ![n] = p]
      /\ tail_task' = IF x = tail_task THEN p ELSE tail_task
      /\ live' = live \ {x} /\ new' = new /\ current_task' = current_task
      /\ \A o \in live : o # self => reg'[o] = reg[o]
  <2>1. [prev EXCEPT ![n] = p][x] = p
    BY <1>2, <1>7 DEF Typed, TypeOK, p
  <2> QED
    BY <2>1 DEF ReapFree, Typed, TypeOK, x, n, p
<1>9. /\ next'[p] = n /\ prev'[n] = p
      /\ \A y \in Tcb : y # p => next'[y] = next[y]
      /\ \A y \in Tcb : y # n => prev'[y] = prev[y]
      /\ pc'[self] = "rscan" /\ \A o \in live : o # self => pc'[o] = pc[o]
  BY <1>1, <1>6, <1>8 DEF Typed, TypeOK
<1>10. Linked' = Linked \ {x}
  <2>1. ~(pc[x] \in Unlinked) /\ \A o \in live : pc'[o] \in Unlinked <=> pc[o] \in Unlinked
    BY <1>1, <1>2, <1>9 DEF Unlinked
  <2> QED
    BY <1>8, <2>1 DEF Linked
<1>11. HeadBehind' = HeadBehind
  BY <1>1, <1>2, <1>8, <1>9 DEF HeadBehind
<1>12. Threads'
  BY <1>1, <1>2, <1>8, <1>9, <1>10 DEF Ring, Threads, self
<1>13. \A o \in live' : /\ Owner(o)' <=> Owner(o)
                        /\ pc'[o] \in Linking <=> pc[o] \in Linking
                        /\ pc'[o] \in Unlinked <=> pc[o] \in Unlinked
                        /\ Appending(o)' <=> Appending(o)
                        /\ pc'[o] = "tnext" => pc[o] = "tnext" /\ o # self
                        /\ pc'[o] = "hprev" => pc[o] = "hprev"
  BY <1>1, <1>8, <1>9 DEF Owner, Linking, Unlinked, Appending
<1>14. Owners'
  <2>1. \A o \in live : Owner(o) /\ pc[o] \in Unlinked => new[o] # self
    BY DEF Linked
  <2> QED
    BY <1>3, <1>8, <1>9, <1>13, <2>1 DEF Ring, Owners
<1>15. OneLinker'
  BY <1>8, <1>13 DEF Ring, OneLinker
<1>16. \A y \in Linked : y # Kernel \/ ~HeadBehind =>
         prev[y] \in Linked /\ prev[y] \in Tcb /\ next[prev[y]] = y
  BY DEF Ring, WellLinked, head_task
<1>17. \A o \in live : Appending(o) => new[o] \in Linked /\ new[o] # Kernel
  <2>1. ASSUME NEW o \in live, Appending(o)
        PROVE  new[o] \in Linked /\ new[o] # Kernel
    <3>1. Owner(o) /\ pc[o] \notin Unlinked
      BY <2>1 DEF Owner, Appending, Linking, Unlinked
    <3>2. \A q \in live : pc[q] \in Unlinked => new[q] # new[o]
      BY <3>1 DEF Ring, Owners, Owner
    <3> QED
      BY <3>1, <3>2 DEF Ring, Owners, Linked
  <2> QED
    BY <2>1
<1>18. TailOK'
  <2>1. tail_task \in Linked /\ tail_task' \in Linked \ {x}
    BY <1>6, <1>7, <1>8 DEF Ring, TailOK
  <2>2. ASSUME NEW o \in live', pc[o] \in {"tread", "tnext"}
        PROVE  prev'[new[o]] = tail_task' /\ next'[new[o]] = Kernel /\ tail_task' = tail_task
    <3>1. new[o] \notin Linked /\ new[o] \in Tcb
      BY <1>8, <2>2 DEF Linked, Unlinked, Ring, Owners, Owner
    <3>2. tail_task # x
      BY <1>4, <1>8, <2>2
    <3> QED
      BY <1>6, <1>8, <1>9, <2>2, <3>1, <3>2 DEF Ring, TailOK, Linking
  <2>3. ASSUME NEW o \in live', Appending(o)
        PROVE  prev'[new[o]] = tail_task' /\ next'[new[o]] = Kernel
    <3>1. /\ new[o] \in Linked /\ new[o] # Kernel /\ new[o] \in Tcb
          /\ prev[new[o]] = tail_task /\ next[new[o]] = Kernel
      BY <1>8, <1>17, <2>3 DEF Ring, TailOK, Linking, Appending
    <3>2. next[tail_task] = new[o]
      BY <1>16, <3>1
    <3>3. next'[new[o]] = Kernel
      BY <1>2, <1>6, <1>9, <3>1
    <3>4. CASE new[o] = n
      BY <1>6, <1>8, <1>9, <3>1, <3>3, <3>4
    <3>5. CASE new[o] # n
      <4>1. tail_task # x
        BY <3>2, <3>5 DEF n
      <4> QED
        BY <1>8, <1>9, <3>1, <3>3, <3>5, <4>1
    <3> QED
      BY <3>4, <3>5
  <2>4. ASSUME NEW o \in live', pc[o] = "hprev", NEW y \in Linked \ {x}, next'[y] = Kernel
        PROVE  y = new[o]
    <3>1. y # p
      BY <1>5, <1>8, <1>9, <2>4 DEF HeadBehind
    <3> QED
      BY <1>8, <1>9, <2>4, <3>1 DEF Ring, TailOK
  <2>5. ASSUME \A o \in live' : ~Appending(o)
        PROVE  next'[tail_task'] = Kernel
    <3>1. next[tail_task] = Kernel
      BY <1>2, <1>8, <2>5 DEF Ring, TailOK, Appending
    <3>2. CASE tail_task = x
      BY <1>8, <1>9, <3>1, <3>2 DEF n
    <3>3. CASE tail_task # x
      BY <1>2, <1>6, <1>8, <1>9, <2>1, <3>1, <3>3
    <3> QED
      BY <3>2, <3>3
  <2>6. \A o \in live' : pc[o] \in Linking => pc[o] \in {"tread", "tnext"} \/ Appending(o)
    BY DEF Linking, Appending
  <2>7. \A o \in live' : pc'[o] \in Linking =>
          prev'[new'[o]] = tail_task' /\ next'[new'[o]] = Kernel
    BY <1>8, <1>13, <2>2, <2>3, <2>6
  <2>8. \A o \in live' : pc'[o] = "tnext" => reg'[o] = tail_task'
    <3>1. \A o \in live : pc[o] = "tnext" => reg[o] = tail_task
      BY DEF Ring, TailOK
    <3> QED
      BY <1>8, <1>13, <2>2, <3>1
  <2>9. \A o \in live' : pc'[o] = "hprev" =>
          \A y \in Linked' : next'[y] = Kernel => y = new'[o]
    BY <1>8, <1>10, <1>13, <2>4
  <2>10. (\A o \in live' : ~Appending(o)') => next'[tail_task'] = Kernel
    BY <1>13, <2>5
  <2> QED
    BY <1>10, <2>1, <2>7, <2>8, <2>9, <2>10 DEF TailOK
<1>19. WellLinked'
  <2> SUFFICES ASSUME NEW y \in Linked \ {x}
               PROVE  /\ next'[y] \in Linked \ {x}
                      /\ ~(HeadBehind /\ y = Kernel) =>
                            prev'[y] \in Linked \ {x} /\ next'[prev'[y]] = y
                      /\ ~(HeadBehind /\ next'[y] = Kernel) => prev'[next'[y]] = y
    BY <1>10, <1>11 DEF WellLinked, head_task
  <2>1. /\ next[y] \in Linked /\ next[y] \in Tcb /\ y \in Tcb
        /\ ~(HeadBehind /\ next[y] = Kernel) => prev[next[y]] = y
    BY DEF Ring, WellLinked, head_task
  <2>2. y # p => next[y] # x
    BY <1>2, <2>1 DEF p
  <2>3. next'[y] \in Linked \ {x}
    BY <1>6, <1>7, <1>9, <2>1, <2>2
  <2>4. ~(HeadBehind /\ y = Kernel) => prev'[y] \in Linked \ {x} /\ next'[prev'[y]] = y
    <3>1. CASE y = n
      BY <1>6, <1>7, <1>9, <3>1
    <3>2. CASE y # n
      <4> SUFFICES ASSUME ~(HeadBehind /\ y = Kernel)
                   PROVE  prev'[y] \in Linked \ {x} /\ next'[prev'[y]] = y
        OBVIOUS
      <4>1. prev[y] \in Linked /\ prev[y] \in Tcb /\ next[prev[y]] = y
        BY <1>16
      <4>2. prev[y] # x
        BY <3>2, <4>1 DEF n
      <4>3. prev[y] # p
        BY <1>6, <4>1
      <4> QED
        BY <1>9, <2>1, <3>2, <4>1, <4>2, <4>3
    <3> QED
      BY <3>1, <3>2
  <2>5. ~(HeadBehind /\ next'[y] = Kernel) => prev'[next'[y]] = y
    <3>1. CASE y = p
      BY <1>9, <3>1, <1>6
    <3>2. CASE y # p
      <4>1. next'[y] = next[y]
        BY <1>9, <2>1, <3>2
      <4>2. ~(HeadBehind /\ next[y] = Kernel) => next[y] # n
        BY <1>6, <2>1
      <4> QED
        BY <1>9, <2>1, <4>1, <4>2
    <3> QED
      BY <3>1, <3>2
  <2> QED
    BY <2>3, <2>4, <2>5
<1>20. OneRing'
  <2> SUFFICES ASSUME NEW S \in SUBSET (Linked \ {x}), S # {},
                      \A y \in S : next'[y] \in S
               PROVE  Kernel \in S
    BY <1>10 DEF OneRing, head_task
  <2>1. CASE p \in S
    <3>1. \A y \in S \cup {x} : next[y] \in S \cup {x}
      BY <1>6, <1>9, <2>1 DEF n
    <3>2. Kernel \in S \cup {x}
      BY <1>2, <3>1, S \cup {x} \in SUBSET Linked DEF Ring, OneRing, head_task
    <3> QED
      BY <1>2, <3>2
  <2>2. CASE p \notin S
    <3>1. \A y \in S : next[y] \in S
      BY <1>9, <2>2
    <3> QED
      BY <3>1 DEF Ring, OneRing, head_task
  <2> QED
    BY <2>1, <2>2
<1> QED
  BY <1>10, <1>12, <1>14, <1>15, <1>18, <1>19, <1>20 DEF Ring, x

(***************************************************************************)
(* The dead tasks, and the boot context that Schedule can count on.        *)
(***************************************************************************)
(* What is dead stays so when no state, link or pc of a ZOMBIE changes.    *)
LEMMA DeadKept ==
  ASSUME Typed, Ring, Dead,
         pc[self] # "int", self # Reaper, current_task' = current_task,
         Linked \subseteq Linked', reg'[Reaper] = reg[Reaper], pc'[Reaper] = pc[Reaper],
         \A x \in live' : \/ x = self
                          \/ x \in live /\ pc'[x] = pc[x]
                          \/ pc'[x] = "loop",
         \A x \in live : state'[x] = "ZOMBIE" => state[x] = "ZOMBIE",
         \A x \in Linked : state[x] = "ZOMBIE" => state'[x] = "ZOMBIE"
  PROVE  Dead'
<1> USE SelfFacts
<1>1. state[self] # "ZOMBIE"
  BY DEF Dead, self
<1>2. ASSUME NEW x \in live', state'[x] = "ZOMBIE"
      PROVE  pc'[x] = "int" \/ (pc'[x] = "loop" /\ x # current_task')
  BY <1>1, <1>2 DEF Dead, self
<1>3. reg'[Reaper] \in Linked'
  BY DEF Dead
<1>4. pc'[Reaper] = "rcli" => state'[reg'[Reaper]] = "ZOMBIE"
  BY DEF Dead
<1> QED
  BY <1>2, <1>3, <1>4 DEF Dead

(* The boot context stays READY when a step changes no state of it.        *)
LEMMA HeadKept ==
  ASSUME Typed, Ring, HeadReady,
         self # Kernel, current_task' = current_task,
         state'[Kernel] = "READY", pid' = pid, next_pid' = next_pid,
         Numbered' \subseteq Numbered,
         \A o \in live' : pc'[o] = "pidw" =>
             \/ o \in live /\ pc[o] = "pidw" /\ val'[o] = val[o]
             \/ val'[o] = next_pid
  PROVE  HeadReady'
  BY DEF HeadReady, self

(* What the code of any task but the reaper and the boot context knows.    *)
LEMMA AppFacts ==
  ASSUME Typed, Ring, Dead, HeadReady, pc[self] \notin {"idle", "int", "rscan", "rcli"}
  PROVE  /\ self # Kernel /\ self # Reaper /\ state[Kernel] = "READY"
         /\ state[self] # "ZOMBIE"
         /\ pid[self] # pid[Kernel]
<1> USE SelfFacts
<1>1. self # Kernel /\ self # Reaper
  BY DEF Ring, Threads
<1>2. state[Kernel] = "READY"
  BY <1>1 DEF HeadReady, self
<1>3. state[self] # "ZOMBIE"
  BY DEF Dead, self
<1>4. self \in Numbered
  BY DEF Numbered, Linked, Unlinked
<1> QED
  BY <1>1, <1>2, <1>3, <1>4 DEF HeadReady, Typed, TypeOK
(***************************************************************************)
(* The inductive step.                                                     *)
(***************************************************************************)
(* Every statement of a program keeps the invariant, until a race.         *)
LEMMA AppStep ==
  ASSUME Typed, Core, RingSafe', Spawn \/ (Kill /\ ~KillYield)
  PROVE  Core'
<1>0. /\ Ring /\ Dead /\ HeadReady
      /\ Ring' /\ Dead' /\ HeadReady' => Core'
  BY DEF Ring, Core
<1>a. /\ self \in live /\ self \in Tcb /\ live \subseteq Tcb
      /\ Kernel \in live /\ Reaper \in live /\ Linked \subseteq live
  BY <1>0, SelfFacts
<1>1. ASSUME NEW p \in Programs, NEW a \in Tcb, SpawnAlloc(p, a)
      PROVE  Core'
  <2>1. /\ pc[self] = "loop" /\ pc'[self] = "pidr" /\ a \notin live /\ a # self
        /\ pc'[a] = "loop" /\ new'[self] = a /\ live' = live \cup {a}
        /\ \A o \in live : o # self => pc'[o] = pc[o] /\ new'[o] = new[o]
        /\ UNCHANGED <<ids, state, current_task>> /\ reg'[Reaper] = reg[Reaper]
        /\ \A o \in live : val'[o] = val[o]
    BY <1>1, <1>a DEF SpawnAlloc, Typed, TypeOK
  <2>2. /\ self # Kernel /\ self # Reaper /\ state[Kernel] = "READY"
    BY <1>0, <1>a, <2>1, AppFacts
  <2>3. Ring' /\ Linked' = Linked
    BY <1>0, <1>1, AllocKeepsRing
  <2>4. Dead'
    BY <1>0, <1>a, <2>1, <2>2, <2>3, DeadKept
  <2>5. HeadReady'
    <3>1. Numbered' \subseteq Numbered
      BY <1>a, <2>1 DEF Numbered
    <3> QED
      BY <1>0, <1>a, <2>1, <2>2, <3>1, HeadKept DEF ids
  <2> QED
    BY <1>0, <2>3, <2>4, <2>5
<1>2. CASE SpawnReadPid
  <2>1. /\ pc[self] = "pidr" /\ pc'[self] = "pidw"
        /\ \A o \in live : o # self => pc'[o] = pc[o]
    BY <1>2, <1>a DEF SpawnReadPid, Goto, Typed, TypeOK
  <2>2. /\ self # Kernel /\ self # Reaper /\ state[Kernel] = "READY"
        /\ state[self] # "ZOMBIE" /\ pid[self] # pid[Kernel]
    BY <1>0, <1>a, <2>1, AppFacts
  <2>3. Ring' /\ Linked \subseteq Linked'
    BY <1>2, <1>0, <1>a, <2>1, QuietKeepsRing DEF SpawnReadPid, links, locals, Building, Outside, Typed, TypeOK, self, Ring, Threads
  <2>4. Dead'
    BY <1>2, <1>0, <1>a, <2>1, <2>2, <2>3, DeadKept DEF SpawnReadPid, links, locals, Typed, TypeOK
  <2>5. HeadReady'
    <3>1. Numbered' = Numbered
      BY <1>2, <1>a, <2>1, NumberedKept DEF SpawnReadPid, locals
    <3> QED
      BY <1>2, <1>0, <1>a, <2>1, <2>2, <3>1, HeadKept DEF SpawnReadPid, ids, locals, Typed, TypeOK
  <2> QED
    BY <1>0, <2>3, <2>4, <2>5
<1>3. CASE SpawnFill
  <2>1. /\ pc[self] = "pidw" /\ pc'[self] = "check"
        /\ \A o \in live : o # self => pc'[o] = pc[o]
    BY <1>3, <1>a DEF SpawnFill, Goto, Typed, TypeOK
  <2>2. /\ self # Kernel /\ self # Reaper /\ state[Kernel] = "READY"
        /\ state[self] # "ZOMBIE" /\ pid[self] # pid[Kernel]
    BY <1>0, <1>a, <2>1, AppFacts
  <2>3. Ring' /\ Linked \subseteq Linked'
    BY <1>3, <1>0, <1>a, <2>1, QuietKeepsRing DEF SpawnFill, links, locals, Building, Outside, Typed, TypeOK, self, Ring, Threads
  <2>4. Dead'
    <3>1. new[self] \in Tcb /\ new[self] \notin Linked
      BY <1>0, <1>a, <2>1 DEF Ring, Owners, Owner, Unlinked, Linked
    <3>2. state'[new[self]] = "READY" /\ \A x \in Tcb : x # new[self] => state'[x] = state[x]
      BY <1>3, <1>a, <3>1 DEF SpawnFill, Typed, TypeOK
    <3> QED
      BY <1>3, <1>0, <1>a, <2>1, <2>2, <2>3, <3>1, <3>2, DeadKept DEF SpawnFill, links, locals, Typed, TypeOK
  <2>5. HeadReady'
    <3>1. new[self] \in live /\ new[self] \in Tcb /\ new[self] # Kernel
      BY <1>0, <1>a, <2>1 DEF Ring, Owners, Owner, Unlinked
    <3>2. \A x \in Numbered' : x = new[self] \/ x \in Numbered
      BY <1>3, <1>a, <2>1 DEF SpawnFill, Numbered
    <3>3. /\ pid'[new[self]] = val[self] /\ next_pid' = val[self] + 1
          /\ \A x \in Tcb : x # new[self] => pid'[x] = pid[x] /\ state'[x] = state[x]
          /\ \A o \in live : o # self => val'[o] = val[o]
          /\ current_task' = current_task /\ live' = live
      BY <1>3, <1>a, <3>1 DEF SpawnFill, Typed, TypeOK
    <3>4. val[self] >= 1 /\ val[self] \in Int
      BY <1>0, <1>a, <2>1 DEF HeadReady, Typed, TypeOK
    <3>5. Numbered' \subseteq Tcb
      BY <3>3, <1>a DEF Numbered
    <3> QED
      BY <1>0, <1>a, <2>1, <2>2, <3>1, <3>2, <3>3, <3>4, <3>5 DEF HeadReady, self
  <2> QED
    BY <1>0, <2>3, <2>4, <2>5
<1>4. CASE SpawnAdmit
  <2>1. /\ pc[self] = "check" /\ pc'[self] = "ccr"
        /\ \A o \in live : o # self => pc'[o] = pc[o]
    BY <1>4, <1>a DEF SpawnAdmit, Goto, Typed, TypeOK
  <2>2. /\ self # Kernel /\ self # Reaper /\ state[Kernel] = "READY"
        /\ state[self] # "ZOMBIE" /\ pid[self] # pid[Kernel]
    BY <1>0, <1>a, <2>1, AppFacts
  <2>3. Ring' /\ Linked \subseteq Linked'
    BY <1>4, <1>0, <1>a, <2>1, QuietKeepsRing DEF SpawnAdmit, links, locals, Building, Outside, Typed, TypeOK, self, Ring, Threads
  <2>4. Dead'
    BY <1>4, <1>0, <1>a, <2>1, <2>2, <2>3, DeadKept DEF SpawnAdmit, links, locals, Typed, TypeOK
  <2>5. HeadReady'
    <3>1. Numbered' = Numbered
      BY <1>4, <1>a, <2>1, NumberedKept DEF SpawnAdmit, locals
    <3> QED
      BY <1>4, <1>0, <1>a, <2>1, <2>2, <3>1, HeadKept DEF SpawnAdmit, ids, locals, Typed, TypeOK
  <2> QED
    BY <1>0, <2>3, <2>4, <2>5
<1>5. CASE SpawnRefuse
  <2>1. /\ pc[self] = "check" /\ pc'[self] \in {"loop", "block"}
        /\ \A o \in live : o # self => pc'[o] = pc[o]
    BY <1>5, <1>a DEF SpawnRefuse, Goto, Typed, TypeOK
  <2>2. /\ self # Kernel /\ self # Reaper /\ state[Kernel] = "READY"
        /\ state[self] # "ZOMBIE" /\ pid[self] # pid[Kernel]
    BY <1>0, <1>a, <2>1, AppFacts
  <2>3. Ring' /\ Linked \subseteq Linked'
    BY <1>5, <1>0, RefuseKeepsRing
  <2>4. Dead'
    <3>1. live' \subseteq live /\ reg'[Reaper] = reg[Reaper]
      BY <1>5, <1>a, <2>2 DEF SpawnRefuse, Typed, TypeOK
    <3> QED
      BY <1>5, <1>0, <1>a, <2>1, <2>2, <2>3, <3>1, DeadKept DEF SpawnRefuse
  <2>5. HeadReady'
    <3>1. pc[new[self]] = "loop" /\ live' = live \ {new[self]} /\ val' = val
      BY <1>5, <1>0, <1>a, <2>1 DEF SpawnRefuse, Ring, Owners, Owner, Unlinked
    <3>2. \A o \in live : o # self => new'[o] = new[o]
      BY <1>5, <1>a DEF SpawnRefuse, Typed, TypeOK
    <3>3. Numbered' \subseteq Numbered
      BY <2>1, <3>1, <3>2 DEF Numbered
    <3> QED
      BY <1>5, <1>0, <1>a, <2>1, <2>2, <3>1, <3>3, HeadKept DEF SpawnRefuse, ids
  <2> QED
    BY <1>0, <2>3, <2>4, <2>5
<1>6. CASE SpawnReadCount
  <2>1. /\ pc[self] = "ccr" /\ pc'[self] = "ccw"
        /\ \A o \in live : o # self => pc'[o] = pc[o]
    BY <1>6, <1>a DEF SpawnReadCount, Goto, Typed, TypeOK
  <2>2. /\ self # Kernel /\ self # Reaper /\ state[Kernel] = "READY"
        /\ state[self] # "ZOMBIE" /\ pid[self] # pid[Kernel]
    BY <1>0, <1>a, <2>1, AppFacts
  <2>3. Ring' /\ Linked \subseteq Linked'
    BY <1>6, <1>0, <1>a, <2>1, QuietKeepsRing DEF SpawnReadCount, links, locals, Building, Outside, Typed, TypeOK, self, Ring, Threads
  <2>4. Dead'
    BY <1>6, <1>0, <1>a, <2>1, <2>2, <2>3, DeadKept DEF SpawnReadCount, links, locals, Typed, TypeOK
  <2>5. HeadReady'
    <3>1. Numbered' = Numbered
      BY <1>6, <1>a, <2>1, NumberedKept DEF SpawnReadCount, locals
    <3> QED
      BY <1>6, <1>0, <1>a, <2>1, <2>2, <3>1, HeadKept DEF SpawnReadCount, ids, locals, Typed, TypeOK
  <2> QED
    BY <1>0, <2>3, <2>4, <2>5
<1>7. CASE SpawnCount
  <2>1. /\ pc[self] = "ccw" /\ pc'[self] = "slot"
        /\ \A o \in live : o # self => pc'[o] = pc[o]
    BY <1>7, <1>a DEF SpawnCount, Goto, Typed, TypeOK
  <2>2. /\ self # Kernel /\ self # Reaper /\ state[Kernel] = "READY"
        /\ state[self] # "ZOMBIE" /\ pid[self] # pid[Kernel]
    BY <1>0, <1>a, <2>1, AppFacts
  <2>3. Ring' /\ Linked \subseteq Linked'
    BY <1>7, <1>0, <1>a, <2>1, QuietKeepsRing DEF SpawnCount, links, locals, Building, Outside, Typed, TypeOK, self, Ring, Threads
  <2>4. Dead'
    BY <1>7, <1>0, <1>a, <2>1, <2>2, <2>3, DeadKept DEF SpawnCount, links, locals, Typed, TypeOK
  <2>5. HeadReady'
    <3>1. Numbered' = Numbered
      BY <1>7, <1>a, <2>1, NumberedKept DEF SpawnCount, locals
    <3> QED
      BY <1>7, <1>0, <1>a, <2>1, <2>2, <3>1, HeadKept DEF SpawnCount, ids, locals, Typed, TypeOK
  <2> QED
    BY <1>0, <2>3, <2>4, <2>5
<1>23. CASE SpawnSlot
  <2>1. /\ pc[self] = "slot" /\ pc'[self] = "prev"
        /\ \A o \in live : o # self => pc'[o] = pc[o]
    BY <1>23, <1>a DEF SpawnSlot, Goto, Typed, TypeOK
  <2>2. /\ self # Kernel /\ self # Reaper /\ state[Kernel] = "READY"
        /\ state[self] # "ZOMBIE" /\ pid[self] # pid[Kernel]
    BY <1>0, <1>a, <2>1, AppFacts
  <2>3. Ring' /\ Linked \subseteq Linked'
    BY <1>23, <1>0, <1>a, <2>1, QuietKeepsRing DEF SpawnSlot, links, locals, Building, Outside, Typed, TypeOK, self, Ring, Threads
  <2>4. Dead'
    BY <1>23, <1>0, <1>a, <2>1, <2>2, <2>3, DeadKept DEF SpawnSlot, links, locals, Typed, TypeOK
  <2>5. HeadReady'
    <3>1. Numbered' = Numbered
      BY <1>23, <1>a, <2>1, NumberedKept DEF SpawnSlot, locals
    <3> QED
      BY <1>23, <1>0, <1>a, <2>1, <2>2, <3>1, HeadKept DEF SpawnSlot, ids, locals, Typed, TypeOK
  <2> QED
    BY <1>0, <2>3, <2>4, <2>5
<1>8. CASE SpawnAim
  <2>1. /\ pc[self] = "prev" /\ pc'[self] = "tread"
        /\ \A o \in live : o # self => pc'[o] = pc[o]
    BY <1>8, <1>a DEF SpawnAim, Goto, Typed, TypeOK
  <2>2. /\ self # Kernel /\ self # Reaper /\ state[Kernel] = "READY"
        /\ state[self] # "ZOMBIE" /\ pid[self] # pid[Kernel]
    BY <1>0, <1>a, <2>1, AppFacts
  <2>3. Ring' /\ Linked \subseteq Linked'
    BY <1>8, <1>0, AimKeepsRing
  <2>4. Dead'
    BY <1>8, <1>0, <1>a, <2>1, <2>2, <2>3, DeadKept DEF SpawnAim, links, locals, Typed, TypeOK
  <2>5. HeadReady'
    <3>1. Numbered' = Numbered
      BY <1>8, <1>a, <2>1, NumberedKept DEF SpawnAim, locals
    <3> QED
      BY <1>8, <1>0, <1>a, <2>1, <2>2, <3>1, HeadKept DEF SpawnAim, ids, locals, Typed, TypeOK
  <2> QED
    BY <1>0, <2>3, <2>4, <2>5
<1>9. CASE SpawnReadTail
  <2>1. /\ pc[self] = "tread" /\ pc'[self] = "tnext"
        /\ \A o \in live : o # self => pc'[o] = pc[o]
    BY <1>9, <1>a DEF SpawnReadTail, Goto, Typed, TypeOK
  <2>2. /\ self # Kernel /\ self # Reaper /\ state[Kernel] = "READY"
        /\ state[self] # "ZOMBIE" /\ pid[self] # pid[Kernel]
    BY <1>0, <1>a, <2>1, AppFacts
  <2>3. Ring' /\ Linked \subseteq Linked'
    BY <1>9, <1>0, ReadTailKeepsRing
  <2>4. Dead'
    BY <1>9, <1>0, <1>a, <2>1, <2>2, <2>3, DeadKept DEF SpawnReadTail, links, locals, Typed, TypeOK
  <2>5. HeadReady'
    <3>1. Numbered' = Numbered
      BY <1>9, <1>a, <2>1, NumberedKept DEF SpawnReadTail, locals
    <3> QED
      BY <1>9, <1>0, <1>a, <2>1, <2>2, <3>1, HeadKept DEF SpawnReadTail, ids, locals, Typed, TypeOK
  <2> QED
    BY <1>0, <2>3, <2>4, <2>5
<1>10. CASE SpawnLinkNext
  <2>1. /\ pc[self] = "tnext" /\ pc'[self] = "hprev"
        /\ \A o \in live : o # self => pc'[o] = pc[o]
    BY <1>10, <1>a DEF SpawnLinkNext, Goto, Typed, TypeOK
  <2>2. /\ self # Kernel /\ self # Reaper /\ state[Kernel] = "READY"
        /\ state[self] # "ZOMBIE" /\ pid[self] # pid[Kernel]
    BY <1>0, <1>a, <2>1, AppFacts
  <2>3. Ring' /\ Linked \subseteq Linked'
    BY <1>10, <1>0, LinkNextKeepsRing
  <2>4. Dead'
    BY <1>10, <1>0, <1>a, <2>1, <2>2, <2>3, DeadKept DEF SpawnLinkNext, links, locals, Typed, TypeOK
  <2>5. HeadReady'
    <3>1. Numbered' = Numbered
      BY <1>10, <1>a, <2>1, NumberedKept DEF SpawnLinkNext, locals
    <3> QED
      BY <1>10, <1>0, <1>a, <2>1, <2>2, <3>1, HeadKept DEF SpawnLinkNext, ids, locals, Typed, TypeOK
  <2> QED
    BY <1>0, <2>3, <2>4, <2>5
<1>11. CASE SpawnLinkPrev
  <2>1. /\ pc[self] = "hprev" /\ pc'[self] = "tailw"
        /\ \A o \in live : o # self => pc'[o] = pc[o]
    BY <1>11, <1>a DEF SpawnLinkPrev, Goto, Typed, TypeOK
  <2>2. /\ self # Kernel /\ self # Reaper /\ state[Kernel] = "READY"
        /\ state[self] # "ZOMBIE" /\ pid[self] # pid[Kernel]
    BY <1>0, <1>a, <2>1, AppFacts
  <2>3. Ring' /\ Linked \subseteq Linked'
    BY <1>11, <1>0, LinkPrevKeepsRing
  <2>4. Dead'
    BY <1>11, <1>0, <1>a, <2>1, <2>2, <2>3, DeadKept DEF SpawnLinkPrev, links, locals, Typed, TypeOK
  <2>5. HeadReady'
    <3>1. Numbered' = Numbered
      BY <1>11, <1>a, <2>1, NumberedKept DEF SpawnLinkPrev, locals
    <3> QED
      BY <1>11, <1>0, <1>a, <2>1, <2>2, <3>1, HeadKept DEF SpawnLinkPrev, ids, locals, Typed, TypeOK
  <2> QED
    BY <1>0, <2>3, <2>4, <2>5
<1>12. CASE SpawnLinkTail
  <2>1. /\ pc[self] = "tailw" /\ pc'[self] = "block"
        /\ \A o \in live : o # self => pc'[o] = pc[o]
    BY <1>12, <1>a DEF SpawnLinkTail, Goto, Typed, TypeOK
  <2>2. /\ self # Kernel /\ self # Reaper /\ state[Kernel] = "READY"
        /\ state[self] # "ZOMBIE" /\ pid[self] # pid[Kernel]
    BY <1>0, <1>a, <2>1, AppFacts
  <2>3. Ring' /\ Linked \subseteq Linked'
    BY <1>12, <1>0, LinkTailKeepsRing
  <2>4. Dead'
    BY <1>12, <1>0, <1>a, <2>1, <2>2, <2>3, DeadKept DEF SpawnLinkTail, links, locals, Typed, TypeOK
  <2>5. HeadReady'
    <3>1. Numbered' = Numbered
      BY <1>12, <1>a, <2>1 DEF SpawnLinkTail, Numbered, Typed, TypeOK
    <3> QED
      BY <1>12, <1>0, <1>a, <2>1, <2>2, <3>1, HeadKept DEF SpawnLinkTail, ids, locals, Typed, TypeOK
  <2> QED
    BY <1>0, <2>3, <2>4, <2>5
<1>13. CASE BlockWalk
  <2>1. /\ pc[self] = "block" /\ pc'[self] \in {"loop", "block"}
        /\ \A o \in live : o # self => pc'[o] = pc[o]
    BY <1>13, <1>a DEF BlockWalk, Goto, Typed, TypeOK
  <2>2. /\ self # Kernel /\ self # Reaper /\ state[Kernel] = "READY"
        /\ state[self] # "ZOMBIE" /\ pid[self] # pid[Kernel]
    BY <1>0, <1>a, <2>1, AppFacts
  <2>3. Ring' /\ Linked \subseteq Linked'
    BY <1>13, <1>0, <1>a, <2>1, QuietKeepsRing DEF BlockWalk, links, locals, Building, Outside, Typed, TypeOK, self, Ring, Threads
  <2>4. Dead'
    BY <1>13, <1>0, <1>a, <2>1, <2>2, <2>3, DeadKept DEF BlockWalk, links, locals, Typed, TypeOK
  <2>5. HeadReady'
    <3>1. Numbered' = Numbered
      BY <1>13, <1>a, <2>1, NumberedKept DEF BlockWalk, locals
    <3> QED
      BY <1>13, <1>0, <1>a, <2>1, <2>2, <3>1, HeadKept DEF BlockWalk, ids, locals, Typed, TypeOK
  <2> QED
    BY <1>0, <2>3, <2>4, <2>5
<1>14. CASE BlockSet
  <2>1. /\ pc[self] = "block" /\ pc'[self] = "loop"
        /\ \A o \in live : o # self => pc'[o] = pc[o]
    BY <1>14, <1>a DEF BlockSet, Goto, Typed, TypeOK
  <2>2. /\ self # Kernel /\ self # Reaper /\ state[Kernel] = "READY"
        /\ state[self] # "ZOMBIE" /\ pid[self] # pid[Kernel]
    BY <1>0, <1>a, <2>1, AppFacts
  <2>3. Ring' /\ Linked \subseteq Linked'
    BY <1>14, <1>0, <1>a, <2>1, QuietKeepsRing DEF BlockSet, links, locals, Building, Outside, Typed, TypeOK, self, Ring, Threads
  <2>4. Dead'
    <3>1. \A x \in live : (state'[x] = "ZOMBIE") = (state[x] = "ZOMBIE")
      BY <1>14, <1>a DEF BlockSet, Race, RingSafe, RingRaces, Typed, TypeOK
    <3> QED
      BY <1>14, <1>0, <1>a, <2>1, <2>2, <2>3, <3>1, DeadKept DEF BlockSet, links, locals, Typed, TypeOK
  <2>5. HeadReady'
    <3>1. Numbered' = Numbered
      BY <1>14, <1>a, <2>1, NumberedKept DEF BlockSet, locals
    <3> QED
      BY <1>14, <1>0, <1>a, <2>1, <2>2, <3>1, HeadKept DEF BlockSet, ids, locals, Typed, TypeOK
  <2> QED
    BY <1>0, <2>3, <2>4, <2>5
<1>15. CASE AwakeParent
  <2>1. /\ pc[self] = "loop" /\ pc'[self] = "kill"
        /\ \A o \in live : o # self => pc'[o] = pc[o]
    BY <1>15, <1>a DEF AwakeParent, Goto, Typed, TypeOK
  <2>2. /\ self # Kernel /\ self # Reaper /\ state[Kernel] = "READY"
        /\ state[self] # "ZOMBIE" /\ pid[self] # pid[Kernel]
    BY <1>0, <1>a, <2>1, AppFacts
  <2>3. Ring' /\ Linked \subseteq Linked'
    BY <1>15, <1>0, <1>a, <2>1, QuietKeepsRing DEF AwakeParent, links, locals, Building, Outside, Typed, TypeOK, self, Ring, Threads
  <2>4. Dead'
    <3>1. \A x \in live : (state'[x] = "ZOMBIE") = (state[x] = "ZOMBIE")
      BY <1>15, <1>a DEF AwakeParent, Race, RingSafe, RingRaces, Typed, TypeOK
    <3> QED
      BY <1>15, <1>0, <1>a, <2>1, <2>2, <2>3, <3>1, DeadKept DEF AwakeParent, links, locals, Typed, TypeOK
  <2>5. HeadReady'
    <3>1. Numbered' = Numbered
      BY <1>15, <1>a, <2>1, NumberedKept DEF AwakeParent, locals
    <3> QED
      BY <1>15, <1>0, <1>a, <2>1, <2>2, <3>1, HeadKept DEF AwakeParent, ids, locals, Typed, TypeOK
  <2> QED
    BY <1>0, <2>3, <2>4, <2>5
<1>16. CASE KillStart
  <2>1. /\ pc[self] = "kill" /\ pc'[self] = "kwalk"
        /\ \A o \in live : o # self => pc'[o] = pc[o]
    BY <1>16, <1>a DEF KillStart, Goto, Typed, TypeOK
  <2>2. /\ self # Kernel /\ self # Reaper /\ state[Kernel] = "READY"
        /\ state[self] # "ZOMBIE" /\ pid[self] # pid[Kernel]
    BY <1>0, <1>a, <2>1, AppFacts
  <2>3. Ring' /\ Linked \subseteq Linked'
    BY <1>16, <1>0, <1>a, <2>1, QuietKeepsRing DEF KillStart, links, locals, Building, Outside, Typed, TypeOK, self, Ring, Threads
  <2>4. Dead'
    BY <1>16, <1>0, <1>a, <2>1, <2>2, <2>3, DeadKept DEF KillStart, links, locals, Typed, TypeOK
  <2>5. HeadReady'
    <3>1. Numbered' = Numbered
      BY <1>16, <1>a, <2>1, NumberedKept DEF KillStart, locals
    <3> QED
      BY <1>16, <1>0, <1>a, <2>1, <2>2, <3>1, HeadKept DEF KillStart, ids, locals, Typed, TypeOK
  <2> QED
    BY <1>0, <2>3, <2>4, <2>5
<1>17. CASE KillWalk
  <2>1. /\ pc[self] = "kwalk" /\ pc'[self] = "kwalk"
        /\ \A o \in live : o # self => pc'[o] = pc[o]
    BY <1>17, <1>a DEF KillWalk, Goto, Typed, TypeOK
  <2>2. /\ self # Kernel /\ self # Reaper /\ state[Kernel] = "READY"
        /\ state[self] # "ZOMBIE" /\ pid[self] # pid[Kernel]
    BY <1>0, <1>a, <2>1, AppFacts
  <2>3. Ring' /\ Linked \subseteq Linked'
    BY <1>17, <1>0, <1>a, <2>1, QuietKeepsRing DEF KillWalk, links, locals, Building, Outside, Typed, TypeOK, self, Ring, Threads
  <2>4. Dead'
    BY <1>17, <1>0, <1>a, <2>1, <2>2, <2>3, DeadKept DEF KillWalk, links, locals, Typed, TypeOK
  <2>5. HeadReady'
    <3>1. Numbered' = Numbered
      BY <1>17, <1>a, <2>1, NumberedKept DEF KillWalk, locals
    <3> QED
      BY <1>17, <1>0, <1>a, <2>1, <2>2, <3>1, HeadKept DEF KillWalk, ids, locals, Typed, TypeOK
  <2> QED
    BY <1>0, <2>3, <2>4, <2>5
<1>18. CASE KillNoParent
  <2>1. /\ pc[self] = "kwalk" /\ pc'[self] = "zombie"
        /\ \A o \in live : o # self => pc'[o] = pc[o]
    BY <1>18, <1>a DEF KillNoParent, Goto, Typed, TypeOK
  <2>2. /\ self # Kernel /\ self # Reaper /\ state[Kernel] = "READY"
        /\ state[self] # "ZOMBIE" /\ pid[self] # pid[Kernel]
    BY <1>0, <1>a, <2>1, AppFacts
  <2>3. Ring' /\ Linked \subseteq Linked'
    BY <1>18, <1>0, <1>a, <2>1, QuietKeepsRing DEF KillNoParent, links, locals, Building, Outside, Typed, TypeOK, self, Ring, Threads
  <2>4. Dead'
    BY <1>18, <1>0, <1>a, <2>1, <2>2, <2>3, DeadKept DEF KillNoParent, links, locals, Typed, TypeOK
  <2>5. HeadReady'
    <3>1. Numbered' = Numbered
      BY <1>18, <1>a, <2>1, NumberedKept DEF KillNoParent, locals
    <3> QED
      BY <1>18, <1>0, <1>a, <2>1, <2>2, <3>1, HeadKept DEF KillNoParent, ids, locals, Typed, TypeOK
  <2> QED
    BY <1>0, <2>3, <2>4, <2>5
<1>19. CASE KillAwake
  <2>1. /\ pc[self] = "kwalk" /\ pc'[self] = "kccr"
        /\ \A o \in live : o # self => pc'[o] = pc[o]
    BY <1>19, <1>a DEF KillAwake, Goto, Typed, TypeOK
  <2>2. /\ self # Kernel /\ self # Reaper /\ state[Kernel] = "READY"
        /\ state[self] # "ZOMBIE" /\ pid[self] # pid[Kernel]
    BY <1>0, <1>a, <2>1, AppFacts
  <2>3. Ring' /\ Linked \subseteq Linked'
    BY <1>19, <1>0, <1>a, <2>1, QuietKeepsRing DEF KillAwake, links, locals, Building, Outside, Typed, TypeOK, self, Ring, Threads
  <2>4. Dead'
    <3>1. \A x \in live : (state'[x] = "ZOMBIE") = (state[x] = "ZOMBIE")
      BY <1>19, <1>a DEF KillAwake, Race, RingSafe, RingRaces, Typed, TypeOK
    <3> QED
      BY <1>19, <1>0, <1>a, <2>1, <2>2, <2>3, <3>1, DeadKept DEF KillAwake, links, locals, Typed, TypeOK
  <2>5. HeadReady'
    <3>1. Numbered' = Numbered
      BY <1>19, <1>a, <2>1, NumberedKept DEF KillAwake, locals
    <3> QED
      BY <1>19, <1>0, <1>a, <2>1, <2>2, <3>1, HeadKept DEF KillAwake, ids, locals, Typed, TypeOK
  <2> QED
    BY <1>0, <2>3, <2>4, <2>5
<1>20. CASE KillReadCount
  <2>1. /\ pc[self] = "kccr" /\ pc'[self] = "kccw"
        /\ \A o \in live : o # self => pc'[o] = pc[o]
    BY <1>20, <1>a DEF KillReadCount, Goto, Typed, TypeOK
  <2>2. /\ self # Kernel /\ self # Reaper /\ state[Kernel] = "READY"
        /\ state[self] # "ZOMBIE" /\ pid[self] # pid[Kernel]
    BY <1>0, <1>a, <2>1, AppFacts
  <2>3. Ring' /\ Linked \subseteq Linked'
    BY <1>20, <1>0, <1>a, <2>1, QuietKeepsRing DEF KillReadCount, links, locals, Building, Outside, Typed, TypeOK, self, Ring, Threads
  <2>4. Dead'
    BY <1>20, <1>0, <1>a, <2>1, <2>2, <2>3, DeadKept DEF KillReadCount, links, locals, Typed, TypeOK
  <2>5. HeadReady'
    <3>1. Numbered' = Numbered
      BY <1>20, <1>a, <2>1, NumberedKept DEF KillReadCount, locals
    <3> QED
      BY <1>20, <1>0, <1>a, <2>1, <2>2, <3>1, HeadKept DEF KillReadCount, ids, locals, Typed, TypeOK
  <2> QED
    BY <1>0, <2>3, <2>4, <2>5
<1>21. CASE KillUncount
  <2>1. /\ pc[self] = "kccw" /\ pc'[self] = "kslot"
        /\ \A o \in live : o # self => pc'[o] = pc[o]
    BY <1>21, <1>a DEF KillUncount, Goto, Typed, TypeOK
  <2>2. /\ self # Kernel /\ self # Reaper /\ state[Kernel] = "READY"
        /\ state[self] # "ZOMBIE" /\ pid[self] # pid[Kernel]
    BY <1>0, <1>a, <2>1, AppFacts
  <2>3. Ring' /\ Linked \subseteq Linked'
    BY <1>21, <1>0, <1>a, <2>1, QuietKeepsRing DEF KillUncount, links, locals, Building, Outside, Typed, TypeOK, self, Ring, Threads
  <2>4. Dead'
    BY <1>21, <1>0, <1>a, <2>1, <2>2, <2>3, DeadKept DEF KillUncount, links, locals, Typed, TypeOK
  <2>5. HeadReady'
    <3>1. Numbered' = Numbered
      BY <1>21, <1>a, <2>1, NumberedKept DEF KillUncount, locals
    <3> QED
      BY <1>21, <1>0, <1>a, <2>1, <2>2, <3>1, HeadKept DEF KillUncount, ids, locals, Typed, TypeOK
  <2> QED
    BY <1>0, <2>3, <2>4, <2>5
<1>24. CASE KillSlot
  <2>1. /\ pc[self] = "kslot" /\ pc'[self] = "zombie"
        /\ \A o \in live : o # self => pc'[o] = pc[o]
    BY <1>24, <1>a DEF KillSlot, Goto, Typed, TypeOK
  <2>2. /\ self # Kernel /\ self # Reaper /\ state[Kernel] = "READY"
        /\ state[self] # "ZOMBIE" /\ pid[self] # pid[Kernel]
    BY <1>0, <1>a, <2>1, AppFacts
  <2>3. Ring' /\ Linked \subseteq Linked'
    BY <1>24, <1>0, <1>a, <2>1, QuietKeepsRing DEF KillSlot, links, locals, Building, Outside, Typed, TypeOK, self, Ring, Threads
  <2>4. Dead'
    BY <1>24, <1>0, <1>a, <2>1, <2>2, <2>3, DeadKept DEF KillSlot, links, locals, Typed, TypeOK
  <2>5. HeadReady'
    <3>1. Numbered' = Numbered
      BY <1>24, <1>a, <2>1, NumberedKept DEF KillSlot, locals
    <3> QED
      BY <1>24, <1>0, <1>a, <2>1, <2>2, <3>1, HeadKept DEF KillSlot, ids, locals, Typed, TypeOK
  <2> QED
    BY <1>0, <2>3, <2>4, <2>5
<1>22. CASE KillZombie
  <2>1. /\ pc[self] = "zombie" /\ pc'[self] = "int"
        /\ \A o \in live : o # self => pc'[o] = pc[o]
    BY <1>22, <1>a DEF KillZombie, Goto, Typed, TypeOK
  <2>2. /\ self # Kernel /\ self # Reaper /\ state[Kernel] = "READY"
        /\ state[self] # "ZOMBIE" /\ pid[self] # pid[Kernel]
    BY <1>0, <1>a, <2>1, AppFacts
  <2>3. Ring' /\ Linked \subseteq Linked'
    BY <1>22, <1>0, <1>a, <2>1, QuietKeepsRing DEF KillZombie, links, locals, Building, Outside, Typed, TypeOK, self, Ring, Threads
  <2>4. Dead'
    <3>1. /\ \A x \in live : x # self => state'[x] = state[x]
          /\ live' = live /\ reg'[Reaper] = reg[Reaper] /\ current_task' = current_task
      BY <1>22, <1>a, <2>2 DEF KillZombie, Typed, TypeOK
    <3>2. Reaper \in live /\ reg[Reaper] \in live
      BY <1>0, <1>a DEF Dead
    <3>3. reg[Reaper] = self => pc[Reaper] # "rcli"
      BY <1>0, <2>2 DEF Dead
    <3> QED
      BY <1>0, <1>a, <2>1, <2>2, <2>3, <3>1, <3>2, <3>3 DEF Dead, self
  <2>5. HeadReady'
    <3>1. Numbered' = Numbered
      BY <1>22, <1>a, <2>1, NumberedKept DEF KillZombie, locals
    <3> QED
      BY <1>22, <1>0, <1>a, <2>1, <2>2, <3>1, HeadKept DEF KillZombie, ids, locals, Typed, TypeOK
  <2> QED
    BY <1>0, <2>3, <2>4, <2>5
<1> QED
  BY <1>1, <1>2, <1>3, <1>4, <1>5, <1>6, <1>7, <1>8, <1>9, <1>10, <1>11, <1>12, <1>13, <1>14, <1>15, <1>16, <1>17, <1>18, <1>19, <1>20, <1>21, <1>22,
  <1>23, <1>24
  DEF Spawn, Kill
(* A ZOMBIE is switched away from for good, and the boot context is READY  *)
(* again once it is: for the timer, and for the int $0x20 of KillTask.     *)
LEMMA ScheduleStep ==
  ASSUME Typed, Core, Schedule, UNCHANGED <<links, ids, live, locals>>,
         pc' = pc \/ (pc[self] = "int" /\ pc' = [pc EXCEPT ![self] = "loop"])
  PROVE  Core'
<1>0. /\ Ring /\ Dead /\ HeadReady
      /\ Ring' /\ Dead' /\ HeadReady' => Core'
  BY DEF Ring, Core
<1>a. /\ self \in live /\ self \in Tcb /\ live \subseteq Tcb /\ Kernel \in Tcb
      /\ Kernel \in live /\ Reaper \in live /\ Linked \subseteq live
      /\ self = current_task /\ pc[Kernel] = "idle"
      /\ pc[Reaper] \in {"rscan", "rcli"}
  BY <1>0, SelfFacts DEF self, Ring, Threads
<1>1. /\ current_task' \in Linked
      /\ \/ state[current_task'] = "READY"
         \/ state[self] = "RUNNING" /\ current_task' = self
      /\ state' = [x \in Tcb |->
           IF x = current_task' THEN "RUNNING"
           ELSE IF x = self /\ state[x] = "RUNNING" THEN "READY" ELSE state[x]]
  BY <1>0, ScheduleFinds DEF Ring, Typed
<1>2. /\ UNCHANGED <<next, prev, tail_task, live, new, reg, val, pid, next_pid>>
  BY DEF links, ids, locals
<1>3. Ring' /\ Linked' = Linked
  <2>1. CASE pc' = pc
    BY <1>0, <1>1, <1>2, <2>1, SwitchKeepsRing
  <2>2. CASE pc[self] = "int" /\ pc' = [pc EXCEPT ![self] = "loop"]
    BY <1>0, <1>1, <1>2, <2>2, QuietKeepsRing DEF Goto, Outside
  <2> QED
    BY <2>1, <2>2
<1>4. \A x \in live : /\ x # self => pc'[x] = pc[x]
                      /\ pc'[self] = pc[self] \/ (pc[self] = "int" /\ pc'[self] = "loop")
                      /\ pc'[x] = "pidw" <=> pc[x] = "pidw"
  <2>1. CASE pc' = pc
    BY <2>1
  <2>2. CASE pc[self] = "int" /\ pc' = [pc EXCEPT ![self] = "loop"]
    BY <1>a, <2>2 DEF Typed, TypeOK
  <2> QED
    BY <2>1, <2>2
<1>5. Dead'
  <2>1. \A x \in live : state'[x] = "ZOMBIE" => state[x] = "ZOMBIE" /\ x # current_task'
    BY <1>a, <1>1
  <2>2. \A x \in live : state[x] = "ZOMBIE" => state'[x] = "ZOMBIE"
    BY <1>a, <1>1
  <2>3. ASSUME NEW x \in live, state'[x] = "ZOMBIE"
        PROVE  pc'[x] = "int" \/ (pc'[x] = "loop" /\ x # current_task')
    BY <1>0, <1>a, <1>4, <2>1, <2>3 DEF Dead
  <2>4. pc'[Reaper] = pc[Reaper]
    BY <1>a, <1>4
  <2> QED
    BY <1>0, <1>a, <1>2, <1>3, <2>2, <2>3, <2>4 DEF Dead
<1>6. HeadReady'
  <2>1. Numbered' = Numbered
    <3>1. CASE pc' = pc
      BY <1>2, <3>1 DEF Numbered
    <3>2. CASE pc[self] = "int" /\ pc' = [pc EXCEPT ![self] = "loop"]
      BY <1>a, <1>2, <3>2, NumberedKept DEF Goto
    <3> QED
      BY <3>1, <3>2
  <2>2. /\ state'[Kernel] \in {"READY", "RUNNING"}
        /\ current_task' # Kernel => state'[Kernel] = "READY"
    BY <1>0, <1>a, <1>1 DEF HeadReady
  <2>3. \A o \in live' : pc'[o] = "pidw" => val'[o] >= 1
    BY <1>0, <1>2, <1>4 DEF HeadReady
  <2> QED
    BY <1>0, <1>2, <2>1, <2>2, <2>3 DEF HeadReady
<1> QED
  BY <1>0, <1>3, <1>5, <1>6

(* Both steps of the reaper keep the invariant, until a race.              *)
LEMMA ReapStep ==
  ASSUME Typed, Core, RingSafe', Reap
  PROVE  Core'
<1>0. /\ Ring /\ Dead /\ HeadReady
      /\ Ring' /\ Dead' /\ HeadReady' => Core'
  BY DEF Ring, Core
<1>a. /\ self \in live /\ self \in Tcb /\ live \subseteq Tcb /\ Kernel \in Tcb
      /\ Kernel \in live /\ Linked \subseteq live /\ Kernel \in Linked
      /\ self = current_task /\ Reaper # Kernel
  BY <1>0, SelfFacts DEF self
<1>b. self = Reaper /\ state[Kernel] = "READY"
  BY <1>0, <1>a DEF Reap, ReapScan, ReapFree, Goto, Ring, Threads, HeadReady
<1>1. CASE ReapScan
  <2>1. /\ UNCHANGED <<live, state, current_task, pid, next_pid, val, new, next, prev, tail_task>>
        /\ \A o \in live : o # self => pc'[o] = pc[o] /\ reg'[o] = reg[o]
    BY <1>1, <1>a DEF ReapScan, Goto, links, ids, Typed, TypeOK
  <2>2. \/ state[reg[self]] = "ZOMBIE" /\ Goto("rscan", "rcli") /\ reg' = reg
        \/ Goto("rscan", "rscan") /\ reg'[self] = next[reg[self]] /\ pc'[self] = "rscan"
    BY <1>1, <1>a DEF ReapScan, Goto, Typed, TypeOK
  <2>3. Ring' /\ Linked' = Linked
    BY <1>0, <1>a, <2>1, <2>2, QuietKeepsRing DEF Reaping, Ring, Threads
  <2>4. Dead'
    <3>1. reg'[Reaper] \in Linked
      BY <1>0, <1>b, <2>2 DEF Dead, Ring, WellLinked
    <3>2. state[self] # "ZOMBIE" /\ pc[self] = "rscan"
      BY <1>0, <1>a, <2>2 DEF Dead, Goto
    <3> QED
      BY <1>0, <1>a, <1>b, <2>1, <2>2, <2>3, <3>1, <3>2 DEF Dead
  <2>5. HeadReady'
    <3>1. Numbered' = Numbered
      BY <1>a, <2>1, <2>2, NumberedKept
    <3>2. pc'[self] # "pidw"
      BY <1>a, <2>2 DEF Goto, Typed, TypeOK
    <3> QED
      BY <1>0, <1>a, <1>b, <2>1, <3>1, <3>2, HeadKept
  <2> QED
    BY <1>0, <2>3, <2>4, <2>5
<1>2. CASE ReapFree
  <2>1. /\ UNCHANGED <<state, current_task, pid, next_pid, val, new>>
        /\ live' = live \ {reg[self]} /\ reg'[self] = Kernel
        /\ \A o \in live : o # self => pc'[o] = pc[o]
        /\ pc[self] = "rcli" /\ pc'[self] = "rscan"
    BY <1>2, <1>a DEF ReapFree, Goto, ids, head_task, Typed, TypeOK
  <2>2. Ring' /\ Linked' = Linked \ {reg[self]}
    BY <1>0, <1>2, ReapKeepsRing
  <2>3. /\ reg[self] \in live /\ reg[self] # self /\ reg[self] # Kernel
        /\ pc[reg[self]] \in {"int", "loop"}
    BY <1>0, <1>a, <1>b, <2>1 DEF Dead, HeadReady
  <2>4. Dead'
    BY <1>0, <1>a, <1>b, <2>1, <2>2, <2>3 DEF Dead
  <2>5. HeadReady'
    <3>1. Numbered' \subseteq Numbered
      BY <1>a, <2>1, <2>3 DEF Numbered
    <3> QED
      BY <1>0, <1>a, <1>b, <2>1, <3>1, HeadKept
  <2> QED
    BY <1>0, <2>2, <2>4, <2>5
<1> QED
  BY <1>1, <1>2 DEF Reap

(* Every step keeps the invariant, until a race.                           *)
LEMMA CoreStep ==
  ASSUME Typed, Core, RingSafe', [Next]_vars
  PROVE  Core'
<1>1. CASE Tick
  BY <1>1, ScheduleStep DEF Tick, family
<1>2. CASE KillYield
  BY <1>2, ScheduleStep DEF KillYield, Goto
<1>3. CASE Spawn \/ (Kill /\ ~KillYield)
  BY <1>3, AppStep
<1>4. CASE Reap
  BY <1>4, ReapStep
<1>5. CASE UNCHANGED vars
  BY <1>5 DEF vars, Core, Threads, Owners, Owner, OneLinker, TailOK, Appending, WellLinked,
     OneRing, Dead, HeadReady, Linked, Numbered, HeadBehind, head_task
<1> QED
  BY <1>1, <1>2, <1>3, <1>4, <1>5 DEF Next, Step, Kill

(* The ring that kernel_main builds satisfies the invariant.               *)
LEMMA CoreInit == Init => Core
<1> SUFFICES ASSUME Init
             PROVE  Core
  OBVIOUS
<1> USE TcbAssumption DEF Boot
<1>1. Linked = Boot /\ Numbered = Boot /\ live = Boot
  BY DEF Init, Linked, Numbered, Unlinked
<1>2. Threads
  BY <1>1 DEF Init, Threads
<1>3. Owners /\ OneLinker
  BY <1>1 DEF Init, Owners, Owner, OneLinker, Unlinked, Linking
<1>4. TailOK
  BY <1>1 DEF Init, TailOK, Linking
<1>5. WellLinked
  BY <1>1 DEF Init, WellLinked, HeadBehind, head_task
<1>6. OneRing
  BY <1>1 DEF Init, OneRing, head_task
<1>7. Dead /\ HeadReady
  BY <1>1 DEF Init, Dead, HeadReady
<1> QED
  BY <1>2, <1>3, <1>4, <1>5, <1>6, <1>7 DEF Core

(* IInv holds at boot ...                                                  *)
LEMMA InductiveInit == Init => IInv
  BY TypedInit, CoreInit DEF IInv, Typed

(* ... and is inductive.                                                   *)
LEMMA InductiveStep == IInv /\ [Next]_vars => IInv'
<1> SUFFICES ASSUME IInv, [Next]_vars
             PROVE  IInv'
  OBVIOUS
<1>1. Typed /\ Typed'
  BY TypeStep, NewStep DEF IInv, Typed
<1>2. RingSafe' => RingSafe
  <2>1. raced \subseteq raced'
    BY DEF Next, vars, Tick, Step, Spawn, Kill, Reap, Race, SpawnAlloc, SpawnReadPid, SpawnFill,
       SpawnAdmit, SpawnRefuse, SpawnReadCount, SpawnCount, SpawnSlot, SpawnAim, SpawnReadTail,
       SpawnLinkNext, SpawnLinkPrev, SpawnLinkTail, BlockWalk, BlockSet, AwakeParent,
       KillStart, KillWalk, KillNoParent, KillAwake, KillReadCount, KillUncount, KillSlot,
       KillZombie, KillYield, ReapScan, ReapFree
  <2> QED
    BY <2>1 DEF RingSafe
<1> QED
  BY <1>1, <1>2, CoreStep DEF IInv, Typed

(* The invariant that carries the two theorems below: who owns a new TCB,  *)
(* where tail_task points while one is linked, and what is dead.           *)
THEOREM Invariance == Spec => []IInv
  BY InductiveInit, InductiveStep, PTL DEF Spec

(* SpawnTask and reaper keep one well linked ring, free of freed TCBs, for *)
(* any number of tasks, unless one of RingRaces happens.                   *)
THEOREM RingStaysIntact == Spec => []RingIntact
<1>1. IInv => RingIntact
  BY DEF IInv, RingIntact, Core
<1> QED
  BY <1>1, Invariance, PTL

(* Schedule never gives the CPU to a task that is BLOCKED or a ZOMBIE, its *)
(* fallback to the current task included, unless one of RingRaces happens. *)
THEOREM SchedulerRunsReady == Spec => RunsOnlyReady
<1> DEFINE Only == RingSafe => \A t \in Tcb :
              state[t] # "RUNNING" /\ state'[t] = "RUNNING" => state[t] = "READY"
<1>1. IInv /\ [Next]_vars => [Only]_vars
  <2> SUFFICES ASSUME IInv, Next, RingSafe, NEW t \in Tcb,
                      state[t] # "RUNNING", state'[t] = "RUNNING"
               PROVE  state[t] = "READY"
    OBVIOUS
  <2>1. TypeOK /\ Core
    BY DEF IInv
  <2>2. CASE Schedule
    BY <2>1, <2>2, ScheduleFinds DEF Core
  <2>3. CASE ~Schedule
    <3>1. state' = state \/ SpawnFill \/ BlockSet \/ AwakeParent \/ KillAwake \/ KillZombie
      BY <2>3 DEF Next, Tick, Step, Spawn, Kill, Reap, SpawnAlloc, SpawnReadPid,
         SpawnAdmit, SpawnRefuse, SpawnReadCount, SpawnCount, SpawnSlot, SpawnAim, SpawnReadTail,
         SpawnLinkNext, SpawnLinkPrev, SpawnLinkTail, BlockWalk, KillStart, KillWalk,
         KillNoParent, KillReadCount, KillUncount, KillSlot, KillYield, ReapScan, ReapFree
    <3>2. CASE state' = state
      BY <3>2
    <3>3. CASE AwakeParent
      BY <2>1, <3>3 DEF AwakeParent, TypeOK
    <3>4. CASE SpawnFill
      BY <2>1, <3>4 DEF SpawnFill, TypeOK
    <3>5. CASE BlockSet
      BY <2>1, <3>5 DEF BlockSet, TypeOK
    <3>6. CASE KillAwake
      BY <2>1, <3>6 DEF KillAwake, TypeOK
    <3>7. CASE KillZombie
      BY <2>1, <3>7 DEF KillZombie, TypeOK
    <3> QED
      BY <3>1, <3>2, <3>3, <3>4, <3>5, <3>6, <3>7
  <2> QED
    BY <2>2, <2>3
<1> QED
  BY <1>1, Invariance, PTL DEF Spec, RunsOnlyReady

-----------------------------------------------------------------------------
(***************************************************************************)
(* Pids.                                                                   *)
(***************************************************************************)
HIDE LimitAssumption
HIDE ProgramAssumption
HIDE TcbAssumption

PidsKept == RingSafe /\ "pid" \notin raced => Pids

(* Nobody gets a pid in a step that leaves pids and next_pid alone.        *)
LEMMA FewerNumbered ==
  ASSUME Pids, UNCHANGED <<pid, next_pid>>, Numbered' \subseteq Numbered,
         \A o \in live' : pc'[o] = "pidw" => o \in live /\ pc[o] = "pidw" /\ val'[o] = val[o]
  PROVE  Pids'
BY DEF Pids

LEMMA QuietPids ==
  ASSUME Typed, Core, Pids, UNCHANGED <<live, new, pid, next_pid>>,
         NEW from, NEW to, Goto(from, to), {from, to} \cap {"pidr", "pidw"} = {},
         \A o \in live \ {self} : val'[o] = val[o]
  PROVE  Pids'
<1>1. self \in live /\ live \subseteq Tcb
  BY SelfFacts DEF Core, Ring
<1>2. Numbered' = Numbered
  BY <1>1, NumberedKept
<1>3. pc'[self] = to /\ \A o \in live \ {self} : pc'[o] = pc[o]
  BY <1>1 DEF Goto, Typed, TypeOK
<1> QED BY <1>2, <1>3, FewerNumbered

LEMMA AllocPids ==
  ASSUME Typed, Core, Pids, NEW p \in Programs, NEW a \in Tcb, SpawnAlloc(p, a)
  PROVE  Pids'
<1>1. self \in live /\ live \subseteq Tcb
  BY SelfFacts DEF Core, Ring
<1>2. /\ pc[self] = "loop" /\ pc'[self] = "pidr" /\ a \notin live /\ pc'[a] = "loop"
      /\ new'[self] = a /\ live' = live \cup {a}
      /\ \A o \in live : o # self => pc'[o] = pc[o] /\ new'[o] = new[o]
      /\ \A o \in live : val'[o] = val[o]
      /\ UNCHANGED <<pid, next_pid>>
  BY <1>1 DEF SpawnAlloc, ids, Typed, TypeOK
<1>3. Numbered' \subseteq Numbered
  BY <1>1, <1>2 DEF Numbered
<1> QED BY <1>2, <1>3, FewerNumbered

(* The load of next_pid++ while no other task is between load and store.   *)
LEMMA ReadPids ==
  ASSUME Typed, Core, Pids, SpawnReadPid, "pid" \notin raced'
  PROVE  Pids'
<1>1. self \in live /\ live \subseteq Tcb
  BY SelfFacts DEF Core, Ring
<1>2. /\ pc[self] = "pidr" /\ pc'[self] = "pidw" /\ val'[self] = next_pid
      /\ UNCHANGED <<live, pid, next_pid, new>>
      /\ \A o \in live \ {self} : pc'[o] = pc[o] /\ pc[o] # "pidw"
  BY <1>1 DEF SpawnReadPid, Goto, Race, Others, ids, Typed, TypeOK
<1>3. Numbered' = Numbered
  BY <1>1, <1>2, NumberedKept DEF SpawnReadPid
<1> QED BY <1>2, <1>3 DEF Pids

(* The store: the new task gets what next_pid was.                         *)
LEMMA FillPids ==
  ASSUME Typed, Core, Pids, SpawnFill
  PROVE  Pids'
<1>1. self \in live /\ live \subseteq Tcb
  BY SelfFacts DEF Core, Ring
<1>2. /\ pc[self] = "pidw" /\ pc'[self] = "check"
      /\ \A o \in live \ {self} : pc'[o] = pc[o] /\ pc[o] # "pidw"
      /\ new[self] \in Tcb /\ val[self] = next_pid /\ next_pid \in Int
      /\ next_pid' = next_pid + 1 /\ pid' = [pid EXCEPT ![new[self]] = next_pid]
      /\ UNCHANGED <<live, new>>
  BY <1>1 DEF SpawnFill, Goto, Pids, Typed, TypeOK, NewOK, Unlinked
<1>3. new[self] \notin Numbered
  BY <1>1, <1>2 DEF Numbered
<1>4. Numbered' \subseteq Numbered \cup {new[self]}
  BY <1>1, <1>2 DEF Numbered
<1>5. \A x \in Numbered : pid'[x] = pid[x] /\ pid[x] < next_pid /\ pid[x] \in Int
  BY <1>1, <1>2, <1>3 DEF Pids, Numbered, Typed, TypeOK
<1>6. pid'[new[self]] = next_pid
  BY <1>2 DEF Typed, TypeOK
<1>7. \A x, y \in Numbered' : pid'[x] = pid'[y] => x = y
  BY <1>2, <1>4, <1>5, <1>6 DEF Pids
<1>8. \A x \in Numbered' : pid'[x] < next_pid'
  BY <1>2, <1>4, <1>5, <1>6
<1>9. \A o \in live' : pc'[o] # "pidw"
  BY <1>2
<1> QED BY <1>7, <1>8, <1>9 DEF Pids

LEMMA RefusePids ==
  ASSUME Typed, Core, Pids, SpawnRefuse
  PROVE  Pids'
<1>1. self \in live /\ live \subseteq Tcb
  BY SelfFacts DEF Core, Ring
<1>2. /\ pc[self] = "check" /\ pc'[self] \in {"loop", "block"}
      /\ live' = live \ {new[self]} /\ pc[new[self]] = "loop"
      /\ \A o \in live \ {self} : pc'[o] = pc[o] /\ new'[o] = new[o]
      /\ UNCHANGED <<pid, next_pid, val>>
  BY <1>1 DEF SpawnRefuse, Goto, ids, Typed, TypeOK, Core, Owners, Owner, Unlinked
<1>3. Numbered' \subseteq Numbered
  BY <1>1, <1>2 DEF Numbered
<1> QED BY <1>2, <1>3, FewerNumbered

LEMMA LinkTailPids ==
  ASSUME Typed, Core, Pids, SpawnLinkTail
  PROVE  Pids'
<1>1. self \in live /\ live \subseteq Tcb
  BY SelfFacts DEF Core, Ring
<1>2. /\ pc[self] = "tailw" /\ pc'[self] = "block"
      /\ \A o \in live \ {self} : pc'[o] = pc[o] /\ new'[o] = new[o]
      /\ UNCHANGED <<live, pid, next_pid, val>>
  BY <1>1 DEF SpawnLinkTail, Goto, ids, Typed, TypeOK
<1>3. Numbered' \subseteq Numbered
  BY <1>1, <1>2 DEF Numbered
<1> QED BY <1>2, <1>3, FewerNumbered

(* What is reaped was not about to give anybody a pid.                     *)
LEMMA ReapPids ==
  ASSUME Typed, Core, Pids, ReapFree
  PROVE  Pids'
<1>1. self \in live /\ live \subseteq Tcb
  BY SelfFacts DEF Core, Ring
<1>2. /\ pc[self] = "rcli" /\ pc'[self] = "rscan" /\ live' = live \ {reg[self]}
      /\ \A o \in live \ {self} : pc'[o] = pc[o]
      /\ UNCHANGED <<pid, next_pid, val, new>>
  BY <1>1 DEF ReapFree, Goto, ids, Typed, TypeOK
<1>3. pc[reg[self]] \in {"int", "loop"}
  BY <1>1, <1>2 DEF Core, Threads, Dead, Linked
<1>4. Numbered' \subseteq Numbered
  BY <1>1, <1>2, <1>3 DEF Numbered
<1> QED BY <1>2, <1>4, FewerNumbered

LEMMA SchedulePids ==
  ASSUME Typed, Core, Pids, Schedule, UNCHANGED <<live, new, pid, next_pid, val>>,
         pc' = pc \/ Goto("int", "loop")
  PROVE  Pids'
<1>1. CASE pc' = pc
  BY <1>1, FewerNumbered DEF Numbered
<1>2. CASE Goto("int", "loop")
  BY <1>2, QuietPids
<1> QED BY <1>1, <1>2

-----------------------------------------------------------------------------
LEMMA PidsStep ==
  ASSUME Typed, Core, Pids, [Next]_vars, "pid" \notin raced'
  PROVE  Pids'
<1> USE DEF ids, links, locals
<1>1. CASE UNCHANGED vars
  BY <1>1, FewerNumbered DEF vars, Numbered
<1>2. CASE Tick
  BY <1>2, SchedulePids DEF Tick
<1>3. CASE Spawn
  <2>1. CASE SpawnAdmit
    BY <2>1, QuietPids DEF SpawnAdmit
  <2>2. CASE SpawnReadCount
    BY <2>2, QuietPids DEF SpawnReadCount, Typed, TypeOK
  <2>3. CASE SpawnCount
    BY <2>3, QuietPids DEF SpawnCount, Typed, TypeOK
  <2>11. CASE SpawnSlot
    BY <2>11, QuietPids DEF SpawnSlot, Typed, TypeOK
  <2>4. CASE SpawnAim
    BY <2>4, QuietPids DEF SpawnAim
  <2>5. CASE SpawnReadTail
    BY <2>5, QuietPids DEF SpawnReadTail
  <2>6. CASE SpawnLinkNext
    BY <2>6, QuietPids DEF SpawnLinkNext
  <2>7. CASE SpawnLinkPrev
    BY <2>7, QuietPids DEF SpawnLinkPrev
  <2>8. CASE SpawnLinkTail
    BY <2>8, LinkTailPids
  <2>9. CASE BlockWalk
    BY <2>9, QuietPids DEF BlockWalk
  <2>10. CASE BlockSet
    BY <2>10, QuietPids DEF BlockSet
  <2> QED BY <1>3, <2>1, <2>2, <2>3, <2>4, <2>5, <2>6, <2>7, <2>8, <2>9, <2>10, <2>11, AllocPids,
             ReadPids, FillPids, RefusePids DEF Spawn
<1>4. CASE Kill
  <2>1. CASE AwakeParent
    BY <2>1, QuietPids DEF AwakeParent
  <2>2. CASE KillStart
    BY <2>2, QuietPids DEF KillStart
  <2>3. CASE KillWalk
    BY <2>3, QuietPids DEF KillWalk
  <2>4. CASE KillNoParent
    BY <2>4, QuietPids DEF KillNoParent
  <2>5. CASE KillAwake
    BY <2>5, QuietPids DEF KillAwake
  <2>6. CASE KillReadCount
    BY <2>6, QuietPids DEF KillReadCount, Typed, TypeOK
  <2>7. CASE KillUncount
    BY <2>7, QuietPids DEF KillUncount, Typed, TypeOK
  <2>10. CASE KillSlot
    BY <2>10, QuietPids DEF KillSlot, Typed, TypeOK
  <2>8. CASE KillZombie
    BY <2>8, QuietPids DEF KillZombie
  <2>9. CASE KillYield
    BY <2>9, SchedulePids DEF KillYield
  <2> QED BY <1>4, <2>1, <2>2, <2>3, <2>4, <2>5, <2>6, <2>7, <2>8, <2>9, <2>10 DEF Kill
<1>5. CASE ReapScan
  BY <1>5, QuietPids DEF ReapScan
<1> QED BY <1>1, <1>2, <1>3, <1>4, <1>5, ReapPids DEF Next, Step, Reap

LEMMA PidsInit == Init => Pids
<1> SUFFICES ASSUME Init PROVE Pids
  OBVIOUS
<1>1. Numbered \subseteq Boot /\ live = Boot /\ \A o \in live : pc[o] # "pidw"
  BY BootTcbs, TcbAssumption DEF Init, Numbered, Boot
<1>2. pid[Kernel] = 0 /\ pid[Reaper] = 1 /\ pid[MemInsp] = 2 /\ pid[Launcher] = 3 /\ next_pid = 4
  BY TcbAssumption DEF Init, Boot
<1> QED BY <1>1, <1>2 DEF Pids, Boot

(* Two tasks never share a pid, for any number of tasks: unless two tasks  *)
(* are in next_pid++ of SpawnTask at once, or the ring is torn first.      *)
THEOREM PidsStayUnique == Spec => [](RingSafe => PidUnique)
<1>1. Init => PidsKept
  BY PidsInit DEF PidsKept
<1>2. IInv /\ PidsKept /\ [Next]_vars => PidsKept'
  <2> SUFFICES ASSUME IInv, PidsKept, [Next]_vars, RingSafe', "pid" \notin raced'
               PROVE  Pids'
    BY DEF PidsKept
  <2>1. raced \subseteq raced'
    BY DEF Next, vars, Tick, Step, Spawn, Kill, Reap, Race, SpawnAlloc, SpawnReadPid, SpawnFill,
       SpawnAdmit, SpawnRefuse, SpawnReadCount, SpawnCount, SpawnSlot, SpawnAim, SpawnReadTail,
       SpawnLinkNext, SpawnLinkPrev, SpawnLinkTail, BlockWalk, BlockSet, AwakeParent,
       KillStart, KillWalk, KillNoParent, KillAwake, KillReadCount, KillUncount, KillSlot,
       KillZombie, KillYield, ReapScan, ReapFree
  <2>2. RingSafe /\ "pid" \notin raced
    BY <2>1 DEF RingSafe
  <2> QED BY <2>2, PidsStep DEF IInv, Typed, PidsKept
<1>3. PidsKept => (RingSafe => PidUnique)
  BY DEF PidsKept, Pids, PidUnique
<1> QED BY <1>1, <1>2, <1>3, Invariance, PTL DEF Spec

-----------------------------------------------------------------------------
(* The ring is one cycle: whoever follows next comes by every task.        *)
LEMMA NextInjective ==
  ASSUME Typed, Ring, NEW x \in Linked, NEW y \in Linked, next[x] = next[y]
  PROVE  x = y
<1>1. CASE HeadBehind /\ next[x] = Kernel
  BY <1>1 DEF Ring, TailOK, HeadBehind
<1>2. CASE ~(HeadBehind /\ next[x] = Kernel)
  BY <1>2 DEF Ring, WellLinked, head_task
<1> QED BY <1>1, <1>2

LEMMA OneCycle ==
  ASSUME Typed, Ring, NEW S \in SUBSET Linked, S # {}, \A x \in S : next[x] \in S
  PROVE  S = Linked
<1> DEFINE Closed(T) == \A y \in T : next[y] \in T
           C == {x \in Linked : \A T \in SUBSET Linked : Kernel \in T /\ Closed(T) => x \in T}
           D == {next[x] : x \in C}
           U == Linked \ C
<1>1. /\ Kernel \in Linked
      /\ \A x \in Linked : next[x] \in Linked
      /\ \A T \in SUBSET Linked : T # {} /\ Closed(T) => Kernel \in T
  BY SelfFacts DEF Ring, WellLinked, OneRing, head_task
<1>2. Kernel \in C /\ Closed(C)
  BY <1>1
<1>3. D \in SUBSET Linked /\ D # {} /\ Closed(D)
  BY <1>1, <1>2
<1>4. C \subseteq D
  BY <1>1, <1>3
<1>5. Closed(U)
  <2> SUFFICES ASSUME NEW x \in U, next[x] \in C PROVE FALSE
    BY <1>1
  <2>1. PICK y \in C : next[x] = next[y]
    BY <1>4
  <2> QED BY <2>1, NextInjective
<1>6. U = {}
  BY <1>1, <1>2, <1>5
<1>7. Kernel \in S
  BY <1>1
<1> QED BY <1>6, <1>7

-----------------------------------------------------------------------------
(***************************************************************************)
(* Steps that leave the family alone.                                      *)
(***************************************************************************)
Still(o) == o \in live /\ pc'[o] = pc[o] /\ new'[o] = new[o] /\ reg'[o] = reg[o] /\ val'[o] = val[o]

SameZombies(X) == \A x \in X : state'[x] = "ZOMBIE" <=> state[x] = "ZOMBIE"

LEMMA LinkedNumbered == Linked \subseteq Numbered
  BY DEF Linked, Numbered, Unlinked

(* Only what does not run yet is not in the ring.                          *)
LEMMA BusyLinked ==
  ASSUME Typed, Core, NEW o \in live, pc[o] # "loop"
  PROVE  o \in Linked
BY DEF Core, Owners, Owner, Linked

LEMMA ParentedFacts ==
  ASSUME Typed, Core, NEW o \in live, Parented(o)
  PROVE  /\ o \in Linked /\ new[o] \in Numbered /\ new[o] \notin Linked /\ new[o] # o
         /\ pc[new[o]] = "loop"
<1>1. new[o] \in live /\ pc[new[o]] = "loop" /\ pc[o] # "loop" /\ pc[o] \in Unlinked
  BY DEF Core, Owners, Owner, Parented, Unlinked
<1>2. \A p \in live : pc[p] \in Unlinked /\ new[p] = new[o] => p = o
  BY <1>1 DEF Core, Owners, Owner
<1>3. new[o] \notin Linked
  BY <1>1 DEF Linked
<1>4. new[o] \in Numbered
  BY <1>1, <1>2 DEF Numbered, Parented, Unlinked
<1> QED BY <1>1, <1>3, <1>4, BusyLinked

(* What the executing task loads while it counts, and where it walks.      *)
CountsWell ==
    /\ pc'[self] = "ccw" =>
         val'[self] = child_count[self] /\ \A o \in live : ~(pc[o] = "kccw" /\ reg[o] = self)
    /\ pc'[self] \in {"kccr", "kccw", "kslot"} => reg'[self] \in Linked /\ pid[reg'[self]] = parent_pid[self]
    /\ pc'[self] = "kccw" =>
         /\ val'[self] = child_count[reg'[self]] /\ reg'[self] # self /\ pc[reg'[self]] # "ccw"
         /\ \A o \in live \ {self} : ~(pc[o] = "kccw" /\ reg[o] = reg'[self])

SeeksWell ==
    pc'[self] = "kwalk" =>
        /\ reg'[self] \in Linked
        /\ \A t \in Linked \ {self} : pid[t] = parent_pid[self] =>
             \A S \in SUBSET Linked : t \in S /\ Behind(self, S) => reg'[self] \in S

(* A step that leaves the other tasks where they are, as far as the slots  *)
(* are concerned that they are about to fill or to clear.                  *)
OthersStay ==
    /\ \A o \in live \ {self} : o \in live' =>
         \/ pc'[o] = pc[o] /\ new'[o] = new[o] /\ reg'[o] = reg[o]
         \/ pc'[o] = "loop" /\ pc[o] = "loop"
    /\ \A o \in live' \ live : pc'[o] = "loop"
    /\ \A o \in live \ live' : pc[o] # "kslot"
    /\ \A o \in Linked : pid'[o] = pid[o]

LEMMA ClearingStays ==
  ASSUME Typed, Core, NEW t, OthersStay, pc[self] # "kslot", pc'[self] # "kslot"
  PROVE  Clearing(t)' = Clearing(t)
<1> DEFINE C == {x \in live : pc[x] = "kslot" /\ reg[x] = t}
           D == {x \in live' : pc'[x] = "kslot" /\ reg'[x] = t}
<1>1. \A x \in C : x \in D /\ pid'[x] = pid[x]
  BY BusyLinked DEF OthersStay
<1>2. \A x \in D : x \in C
  BY DEF OthersStay
<1>3. C = D
  BY <1>1, <1>2
<1> HIDE DEF C, D
<1>4. {pid[o] : o \in C} = {pid'[o] : o \in D}
  BY <1>1, <1>3
<1> QED BY <1>4 DEF Clearing, C, D

LEMMA FillingStays ==
  ASSUME OthersStay, NEW t \in live, t \in live',
         t = self => pc[self] # "slot" /\ pc'[self] # "slot",
         t # self /\ pc[t] = "slot" => pid'[new[t]] = pid[new[t]]
  PROVE  Filling(t)' = Filling(t)
BY DEF Filling, OthersStay

(* The slots that a counter stands for, when nobody stores into a slot and *)
(* the executing task is not between its stores.                           *)
LEMMA ClaimsStay ==
  ASSUME Typed, Core, OthersStay, NEW t \in Linked, t \in live', children'[t] = children[t],
         {pc[self], pc'[self]} \cap {"slot", "kslot"} = {},
         t # self /\ pc[t] = "slot" => pid'[new[t]] = pid[new[t]]
  PROVE  Claimed(t)' = Claimed(t)
<1>1. t \in live
  BY DEF Linked
<1>2. Filling(t)' = Filling(t)
  BY <1>1, FillingStays
<1>3. Clearing(t)' = Clearing(t)
  BY ClearingStays
<1> QED BY <1>2, <1>3 DEF Claimed

LEMMA QuietFamily ==
  ASSUME Typed, Core, Family,
         UNCHANGED <<pid, parent_pid, child_count, children>>,
         \A x \in Linked : next'[x] = next[x],
         Linked' = Linked, Numbered' = Numbered, SameZombies(Numbered), self \in live',
         \A o \in live' \ {self} : Still(o) \/ (pc'[o] = "loop" /\ o \notin Linked),
         pc'[self] \in Unlinked \ {"pidr", "pidw"} =>
             /\ Parented(self) /\ new'[self] = new[self]
             /\ pc[self] \in {"check", "ccr", "ccw", "slot"} <=> pc'[self] \in {"check", "ccr", "ccw", "slot"},
         {pc[self], pc'[self]} \cap {"slot", "kslot"} = {},
         Gone(self) => state'[self] = "ZOMBIE" \/ pc'[self] = "zombie",
         pc'[self] = "zombie" => \A t \in Linked : pid[self] \notin children[t],
         pc'[self] # "int",
         CountsWell, SeeksWell
  PROVE  Family'
<1>0. /\ self \in Linked /\ Linked \subseteq live /\ Linked \subseteq Numbered /\ Numbered \subseteq live
      /\ Linked \subseteq live'
  BY SelfFacts, LinkedNumbered DEF Core, Ring, Numbered, Linked
<1>1. Elders'
  BY DEF Family, Elders
<1>2. Slots'
  <2>1. \A o \in live : o \notin Linked => pc[o] = "loop"
    BY BusyLinked
  <2>2. OthersStay
    BY <1>0, <2>1 DEF OthersStay, Still
  <2>3. \A t \in Linked : Claimed(t)' = Claimed(t)
    <3> SUFFICES ASSUME NEW t \in Linked PROVE Claimed(t)' = Claimed(t)
      OBVIOUS
    <3>1. t # self /\ pc[t] = "slot" => pid'[new[t]] = pid[new[t]]
      OBVIOUS
    <3> QED BY <1>0, <2>2, <3>1, ClaimsStay
  <2> QED BY <1>0, <2>3 DEF Family, Slots, Counted, ChildOf, SameZombies
<1>3. Born'
  <2> SUFFICES ASSUME NEW o \in live', Parented(o)'
               PROVE  /\ parent_pid'[new'[o]] = pid'[o]
                      /\ child_count'[new'[o]] = 0 /\ children'[new'[o]] = {}
                      /\ IF pc'[o] \in {"check", "ccr", "ccw", "slot"}
                           THEN state'[new'[o]] # "ZOMBIE" /\ pid'[new'[o]] \notin children'[o]
                           ELSE pid'[new'[o]] \in children'[o]
    BY DEF Born
  <2>1. pc'[o] # "loop"
    BY DEF Parented, Unlinked
  <2>2. /\ o \in live /\ Parented(o) /\ new'[o] = new[o]
        /\ pc'[o] \in {"check", "ccr", "ccw", "slot"} <=> pc[o] \in {"check", "ccr", "ccw", "slot"}
    <3>1. CASE o = self
      BY <1>0, <2>1, <3>1 DEF Parented
    <3>2. CASE o # self
      BY <2>1, <3>2 DEF Still, Parented
    <3> QED BY <3>1, <3>2
  <2>3. new[o] \in Numbered
    BY <2>2, ParentedFacts
  <2> QED BY <2>2, <2>3 DEF Family, Born, SameZombies
<1>4. Holding'
  <2>1. ASSUME NEW x \in Linked, x # Kernel, ~Gone(x)'
        PROVE  ~Gone(x)
    <3>1. CASE x = self
      BY <2>1, <3>1 DEF Gone
    <3>2. CASE x # self
      BY <1>0, <2>1, <3>2 DEF SameZombies, Gone, Still
    <3> QED BY <3>1, <3>2
  <2>2. \A x \in live' : pc'[x] = "zombie" => \A t \in Linked : pid[x] \notin children[t]
    BY <1>0 DEF Family, Holding, Still
  <2>3. \A x \in live' : pc'[x] = "int" => state'[x] = "ZOMBIE"
    <3> SUFFICES ASSUME NEW x \in live', pc'[x] = "int" PROVE state'[x] = "ZOMBIE"
      OBVIOUS
    <3>1. x # self /\ x \in live /\ pc[x] = "int"
      BY <1>0 DEF Still
    <3> QED BY <3>1, <1>0, BusyLinked DEF Family, Holding, SameZombies
  <2> QED BY <2>1, <2>2, <2>3 DEF Family, Holding
<1>5. Counting'
  <2> SUFFICES ASSUME NEW o \in live' PROVE CountingOf(o)'
    BY DEF Counting
  <2>0. CASE o = self
    <3>1. \A p \in live' \ {self} : ~(pc'[p] = "kccw" /\ reg'[p] = reg'[self]) \/ pc'[self] # "kccw"
      BY DEF CountsWell, Still
    <3>2. pc'[self] = "kccw" => pc'[reg'[self]] # "ccw"
      BY <1>0 DEF CountsWell, Still
    <3> QED BY <2>0, <3>1, <3>2 DEF CountsWell, CountingOf
  <2>1. CASE o # self /\ pc'[o] = "loop"
    BY <2>1 DEF CountingOf
  <2>2. CASE o # self /\ Still(o)
    <3>1. CountingOf(o)
      BY <2>2 DEF Family, Counting, Still
    <3>2. pc[o] = "kccw" => reg[o] \in Linked /\ pc'[reg[o]] # "ccw"
      BY <1>0, <2>2, <3>1 DEF CountingOf, Still, CountsWell
    <3>3. pc[o] = "kccw" => \A p \in live' \ {o} : ~(pc'[p] = "kccw" /\ reg'[p] = reg[o])
      BY <1>0, <2>2, <3>1 DEF CountingOf, Still, CountsWell
    <3> QED BY <2>2, <3>1, <3>2, <3>3 DEF CountingOf, Still
  <2> QED BY <2>0, <2>1, <2>2
<1>6. Seeking'
  <2> SUFFICES ASSUME NEW o \in live' PROVE SeekingOf(o)'
    BY DEF Seeking
  <2>0. CASE o = self
    BY <2>0 DEF SeekingOf, SeeksWell, Behind
  <2>1. CASE o # self /\ pc'[o] = "loop"
    BY <2>1 DEF SeekingOf
  <2>2. CASE o # self /\ Still(o)
    BY <2>2 DEF SeekingOf, Family, Seeking, Still, Behind
  <2> QED BY <2>0, <2>1, <2>2
<1> QED BY <1>1, <1>2, <1>3, <1>4, <1>5, <1>6 DEF Family

(* A statement of a program that neither links nor unlinks.                *)
LEMMA QuietApp ==
  ASSUME Typed, Core, Family,
         UNCHANGED <<next, prev, tail_task, live, new, pid, parent_pid, child_count, children,
                     current_task>>,
         NEW from, NEW to, Goto(from, to),
         from \notin {"idle", "zombie", "int", "rscan", "rcli"}, to # "int",
         {from, to} \subseteq Building \/ {from, to} \subseteq Outside,
         {from, to} \cap {"pidr", "pidw"} = {} \/ {from, to} \subseteq {"pidr", "pidw"},
         \/ {from, to} \subseteq {"check", "ccr", "ccw", "slot"}
         \/ {from, to} \subseteq {"prev", "tread", "tnext"}
         \/ to \notin Unlinked \ {"pidr", "pidw"},
         \A o \in live \ {self} : reg'[o] = reg[o] /\ val'[o] = val[o],
         SameZombies(Numbered),
         to = "zombie" => \A t \in Linked : pid[self] \notin children[t],
         CountsWell, SeeksWell
  PROVE  Family'
<1>1. Ring /\ Dead /\ HeadReady /\ self \in Linked /\ self \in live /\ live \subseteq Tcb
  BY SelfFacts DEF Core, Ring
<1>2. /\ pc[self] = from /\ pc'[self] = to /\ \A o \in live \ {self} : pc'[o] = pc[o]
  BY <1>1 DEF Goto, Typed, TypeOK
<1>3. state[self] # "ZOMBIE"
  BY <1>1, <1>2, AppFacts
<1>4. Linked' = Linked
  BY <1>1, QuietKeepsRing DEF self
<1>5. Numbered' = Numbered
  BY <1>1, NumberedKept
<1>6. \A o \in live' \ {self} : Still(o)
  BY <1>2 DEF Still
<1>7. to \in Unlinked \ {"pidr", "pidw"} =>
        Parented(self) /\ (pc[self] \in {"check", "ccr", "ccw", "slot"} <=> to \in {"check", "ccr", "ccw", "slot"})
  BY <1>2 DEF Parented, Unlinked
<1> QED BY <1>1, <1>2, <1>3, <1>4, <1>5, <1>6, <1>7, QuietFamily DEF Gone

LEMMA SameStates ==
  ASSUME UNCHANGED state
  PROVE  SameZombies(Numbered)
BY DEF SameZombies

(* What QuietApp asks of a program that is not exiting.                    *)
LEMMA Elsewhere ==
  ASSUME pc'[self] \notin {"ccw", "kwalk", "kccr", "kccw", "kslot"}
  PROVE  CountsWell /\ SeeksWell
BY DEF CountsWell, SeeksWell

LEMMA QuietSpawn ==
  ASSUME Typed, Core, Family, raced' = {},
         \/ SpawnReadPid \/ SpawnAdmit \/ SpawnReadCount \/ BlockWalk \/ BlockSet
  PROVE  Family'
<1>1. self \in live /\ self \in Tcb /\ live \subseteq Tcb /\ Numbered \subseteq Tcb
  BY SelfFacts DEF Core, Ring, Numbered
<1> DEFINE Rest == /\ UNCHANGED <<next, prev, tail_task, live, new, pid, parent_pid, child_count,
                                  children, current_task>>
                   /\ \A o \in live \ {self} : reg'[o] = reg[o] /\ val'[o] = val[o]
<1> USE DEF links, ids, family, locals, Building, Outside, Unlinked
<1>2. CASE SpawnReadPid
  <2>1. pc'[self] = "pidw" /\ Rest /\ Goto("pidr", "pidw") /\ UNCHANGED state
    BY <1>1, <1>2 DEF SpawnReadPid, Goto, Typed, TypeOK
  <2>2. CountsWell /\ SeeksWell /\ SameZombies(Numbered)
    BY <2>1, Elsewhere, SameStates
  <2> QED BY <2>1, <2>2, QuietApp
<1>3. CASE SpawnAdmit
  <2>1. pc'[self] = "ccr" /\ Rest /\ Goto("check", "ccr") /\ UNCHANGED state
    BY <1>1, <1>3 DEF SpawnAdmit, Goto, Typed, TypeOK
  <2>2. CountsWell /\ SeeksWell /\ SameZombies(Numbered)
    BY <2>1, Elsewhere, SameStates
  <2> QED BY <2>1, <2>2, QuietApp
<1>4. CASE SpawnReadCount
  <2>1. /\ pc'[self] = "ccw" /\ Rest /\ Goto("ccr", "ccw") /\ UNCHANGED state
        /\ val'[self] = child_count[self]
    BY <1>1, <1>4 DEF SpawnReadCount, Goto, Typed, TypeOK
  <2>2. \A o \in live : ~(pc[o] = "kccw" /\ reg[o] = self)
    BY <1>1, <1>4 DEF SpawnReadCount, Goto, Race, Others
  <2>3. CountsWell /\ SeeksWell /\ SameZombies(Numbered)
    BY <2>1, <2>2, SameStates DEF CountsWell, SeeksWell
  <2> QED BY <2>1, <2>3, QuietApp
<1>5. CASE BlockWalk
  <2>1. PICK to \in {"loop", "block"} : pc'[self] = to /\ Goto("block", to)
    BY <1>1, <1>5 DEF BlockWalk, Goto, Typed, TypeOK
  <2>2. Rest /\ UNCHANGED state
    BY <1>1, <1>5 DEF BlockWalk, Typed, TypeOK
  <2>3. CountsWell /\ SeeksWell /\ SameZombies(Numbered)
    BY <2>1, <2>2, Elsewhere, SameStates
  <2> QED BY <2>1, <2>2, <2>3, QuietApp
<1>6. CASE BlockSet
  <2>1. pc'[self] = "loop" /\ Rest /\ Goto("block", "loop")
    BY <1>1, <1>6 DEF BlockSet, Goto, Typed, TypeOK
  <2>2. SameZombies(Numbered)
    BY <1>1, <1>6 DEF BlockSet, Race, SameZombies, Typed, TypeOK
  <2> QED BY <2>1, <2>2, Elsewhere, QuietApp
<1> QED BY <1>2, <1>3, <1>4, <1>5, <1>6

(* The four statements that link the new task, but for the one that makes  *)
(* it part of the ring.                                                    *)
LEMMA QuietLink ==
  ASSUME Typed, Core, Family, raced' = {},
         \/ SpawnAim \/ SpawnReadTail \/ SpawnLinkPrev \/ SpawnLinkTail
  PROVE  Family'
<1>1. Ring /\ self \in live /\ self \in Tcb /\ live \subseteq Tcb /\ Linked \subseteq live
      /\ self \in Linked
  BY SelfFacts DEF Core, Ring
<1> USE DEF links, ids, family, locals, Goto, Unlinked
<1>2. CASE SpawnAim
  <2>1. pc[self] = "prev" /\ pc'[self] = "tread" /\ \A o \in live \ {self} : Still(o)
    BY <1>1, <1>2 DEF SpawnAim, Typed, TypeOK, Still
  <2>2. Linked' = Linked
    BY <1>1, <1>2, AimKeepsRing DEF RingSafe
  <2>3. Numbered' = Numbered
    BY <1>1, <1>2, NumberedKept DEF SpawnAim
  <2>4. \A x \in Linked : next'[x] = next[x]
    BY <1>1, <1>2, <2>1, ParentedFacts DEF SpawnAim, Parented, Typed, TypeOK
  <2> QED BY <1>1, <1>2, <2>1, <2>2, <2>3, <2>4, SameStates, Elsewhere, QuietFamily
      DEF SpawnAim, Parented, Gone
<1>3. CASE SpawnReadTail
  <2>1. pc[self] = "tread" /\ pc'[self] = "tnext" /\ \A o \in live \ {self} : Still(o)
    BY <1>1, <1>3 DEF SpawnReadTail, Typed, TypeOK, Still
  <2>2. Linked' = Linked
    BY <1>1, <1>3, ReadTailKeepsRing
  <2>3. Numbered' = Numbered
    BY <1>1, <1>3, NumberedKept DEF SpawnReadTail
  <2> QED BY <1>1, <1>3, <2>1, <2>2, <2>3, SameStates, Elsewhere, QuietFamily
      DEF SpawnReadTail, Parented, Gone
<1>4. CASE SpawnLinkPrev
  <2>1. pc[self] = "hprev" /\ pc'[self] = "tailw" /\ \A o \in live \ {self} : Still(o)
    BY <1>1, <1>4 DEF SpawnLinkPrev, Typed, TypeOK, Still
  <2>2. Linked' = Linked
    BY <1>1, <1>4, LinkPrevKeepsRing
  <2>3. Numbered' = Numbered
    BY <1>1, <1>4, NumberedKept DEF SpawnLinkPrev
  <2> QED BY <1>1, <1>4, <2>1, <2>2, <2>3, SameStates, Elsewhere, QuietFamily
      DEF SpawnLinkPrev, Parented, Gone
<1>5. CASE SpawnLinkTail
  <2>1. pc[self] = "tailw" /\ pc'[self] = "block" /\ \A o \in live \ {self} : Still(o)
    BY <1>1, <1>5 DEF SpawnLinkTail, Typed, TypeOK, Still
  <2>2. Linked' = Linked
    BY <1>1, <1>5, LinkTailKeepsRing
  <2>3. Numbered' = Numbered
    BY <1>1, <1>5, <2>1 DEF SpawnLinkTail, Numbered, Still
  <2> QED BY <1>1, <1>5, <2>1, <2>2, <2>3, SameStates, Elsewhere, QuietFamily
      DEF SpawnLinkTail, Parented, Gone
<1> QED BY <1>2, <1>3, <1>4, <1>5

(* A TCB that my_malloc has just returned is nobody's parent or child.     *)
LEMMA AllocFamily ==
  ASSUME Typed, Core, Family, NEW p \in Programs, NEW a \in Tcb, SpawnAlloc(p, a)
  PROVE  Family'
<1>1. Ring /\ self \in live /\ self \in Tcb /\ live \subseteq Tcb /\ Linked \subseteq live
  BY SelfFacts DEF Core, Ring
<1>2. /\ pc[self] = "loop" /\ pc'[self] = "pidr" /\ a \notin live /\ pc'[a] = "loop"
      /\ new'[self] = a /\ live' = live \cup {a}
      /\ \A o \in live \ {self} : Still(o)
      /\ UNCHANGED <<next, pid, parent_pid, child_count, children, state>>
  BY <1>1 DEF SpawnAlloc, ids, links, family, Typed, TypeOK, Still
<1>3. Linked' = Linked
  BY <1>1, AllocKeepsRing
<1>4. Numbered' = Numbered
  BY <1>1, <1>2 DEF Numbered, Still
<1> QED BY <1>1, <1>2, <1>3, <1>4, SameStates, Elsewhere, QuietFamily DEF Unlinked, Gone

-----------------------------------------------------------------------------
(***************************************************************************)
(* The walk of KillTask for the parent.                                    *)
(***************************************************************************)

(* It starts behind the exiting task, and the ring leads to the parent.    *)
LEMMA SeekStarts ==
  ASSUME Typed, Ring, NEW t \in Linked, NEW S \in SUBSET Linked, t \in S, Behind(self, S)
  PROVE  next[self] \in S
<1> SUFFICES ASSUME next[self] \notin S PROVE FALSE
  OBVIOUS
<1>1. self \in Linked /\ \A x \in Linked : next[x] \in Linked
  BY SelfFacts DEF Ring, WellLinked
<1>2. \A x \in Linked \ S : next[x] \in Linked \ S
  BY <1>1 DEF Behind
<1>3. Linked \ S # {}
  BY <1>1
<1>4. Linked \ S = Linked
  BY <1>2, <1>3, OneCycle
<1> QED BY <1>4

(* A task that is not the parent does not hide it.                         *)
LEMMA SeekGoesOn ==
  ASSUME NEW o, NEW r \in Linked, NEW t \in Linked, r # t,
         \A S \in SUBSET Linked : t \in S /\ Behind(o, S) => r \in S,
         NEW S \in SUBSET Linked, t \in S, Behind(o, S)
  PROVE  next[r] \in S
<1> SUFFICES ASSUME next[r] \notin S PROVE FALSE
  OBVIOUS
<1> DEFINE T == S \ {r}
<1>1. T \in SUBSET Linked /\ t \in T /\ r \notin T
  OBVIOUS
<1>2. Behind(o, T)
  BY DEF Behind
<1> QED BY <1>1, <1>2

(* Back at the exiting task, there was no parent in the ring.              *)
LEMMA SeekEnds ==
  ASSUME Typed, Core, Family, pc[self] = "kwalk", reg[self] = self
  PROVE  \A t \in Linked \ {self} : pid[t] # parent_pid[self]
<1> SUFFICES ASSUME NEW t \in Linked \ {self}, pid[t] = parent_pid[self] PROVE FALSE
  OBVIOUS
<1> DEFINE S == Linked \ {self}
<1>1. self \in live
  BY SelfFacts DEF Core, Ring
<1>2. S \in SUBSET Linked /\ t \in S /\ Behind(self, S) /\ reg[self] \notin S
  BY DEF Behind
<1> QED BY <1>1, <1>2 DEF Family, Seeking, SeekingOf

(* No child is younger than itself: the exiting task is not its parent.    *)
LEMMA NotOwnParent ==
  ASSUME Typed, Core, Family, Pids, NEW x \in Linked \ {Kernel}, NEW t \in Linked,
         pid[t] = parent_pid[x]
  PROVE  t # x
<1>1. x \in Numbered /\ x \in Tcb
  BY LinkedNumbered DEF Linked, Typed, TypeOK
<1> QED BY <1>1 DEF Family, Elders, Typed, TypeOK

(* The slot that says pid[x] belongs to x and to its parent.               *)
LEMMA SlotOwner ==
  ASSUME Family, Pids, NEW x \in Numbered, NEW t \in Linked, pid[x] \in children[t]
  PROVE  parent_pid[x] = pid[t] /\ state[x] # "ZOMBIE"
BY DEF Family, Slots, ChildOf, Pids

LEMMA QuietKill ==
  ASSUME Typed, Core, Pids, Family, raced' = {},
         \/ AwakeParent \/ KillStart \/ KillWalk \/ KillNoParent \/ KillAwake \/ KillReadCount
  PROVE  Family'
<1>1. /\ Ring /\ self \in live /\ self \in Tcb /\ live \subseteq Tcb /\ Numbered \subseteq Tcb
      /\ self \in Linked /\ Linked \subseteq live /\ Linked \subseteq Numbered
      /\ Kernel \in Linked /\ pc[Kernel] = "idle" /\ Dead /\ HeadReady
  BY SelfFacts, LinkedNumbered DEF Core, Ring, Numbered
<1> DEFINE Rest == /\ UNCHANGED <<next, prev, tail_task, live, new, pid, parent_pid, child_count,
                                  children, current_task>>
                   /\ \A o \in live \ {self} : reg'[o] = reg[o] /\ val'[o] = val[o]
<1> USE DEF links, ids, family, locals, Building, Outside, Unlinked
<1>2. CASE AwakeParent
  <2>1. pc'[self] = "kill" /\ Rest /\ Goto("loop", "kill")
    BY <1>1, <1>2 DEF AwakeParent, Goto, Typed, TypeOK
  <2>2. SameZombies(Numbered)
    BY <1>1, <1>2 DEF AwakeParent, Race, SameZombies, Typed, TypeOK
  <2> QED BY <2>1, <2>2, Elsewhere, QuietApp
<1>3. CASE KillStart
  <2>1. /\ pc'[self] = "kwalk" /\ Rest /\ Goto("kill", "kwalk") /\ UNCHANGED state
        /\ reg'[self] = next[self]
    BY <1>1, <1>3 DEF KillStart, Goto, Typed, TypeOK
  <2>2. next[self] \in Linked
    BY <1>1 DEF Ring, WellLinked
  <2>3. SeeksWell
    BY <1>1, <2>1, <2>2, SeekStarts DEF SeeksWell
  <2>4. CountsWell /\ SameZombies(Numbered)
    BY <2>1, SameStates DEF CountsWell
  <2> QED BY <2>1, <2>3, <2>4, QuietApp
<1>4. CASE KillWalk
  <2>1. /\ pc[self] = "kwalk" /\ pc'[self] = "kwalk" /\ Rest /\ Goto("kwalk", "kwalk")
        /\ UNCHANGED state /\ reg'[self] = next[reg[self]] /\ pid[reg[self]] # parent_pid[self]
    BY <1>1, <1>4 DEF KillWalk, Goto, Typed, TypeOK
  <2>2. SeekingOf(self)
    BY <1>1 DEF Family, Seeking
  <2>3. reg[self] \in Linked /\ next[reg[self]] \in Linked
    BY <1>1, <2>1, <2>2 DEF SeekingOf, Ring, WellLinked
  <2>4. ASSUME NEW t \in Linked \ {self}, pid[t] = parent_pid[self],
               NEW S \in SUBSET Linked, t \in S, Behind(self, S)
        PROVE  next[reg[self]] \in S
    <3>1. \A T \in SUBSET Linked : t \in T /\ Behind(self, T) => reg[self] \in T
      BY <2>1, <2>2, <2>4 DEF SeekingOf
    <3>2. reg[self] # t
      BY <2>1, <2>4
    <3>3. PICK me : me = self
      OBVIOUS
    <3>4. PICK r \in Linked : r = reg[self]
      BY <2>3
    <3> QED BY <2>4, <3>1, <3>2, <3>3, <3>4, SeekGoesOn
  <2>5. SeeksWell
    BY <2>1, <2>3, <2>4 DEF SeeksWell
  <2>6. CountsWell /\ SameZombies(Numbered)
    BY <2>1, SameStates DEF CountsWell
  <2> QED BY <2>1, <2>5, <2>6, QuietApp
<1>5. CASE KillNoParent
  <2>1. /\ pc[self] = "kwalk" /\ pc'[self] = "zombie" /\ Rest /\ Goto("kwalk", "zombie")
        /\ UNCHANGED state /\ reg[self] = self
    BY <1>1, <1>5 DEF KillNoParent, Goto, Typed, TypeOK
  <2>2. ASSUME NEW t \in Linked, pid[self] \in children[t]
        PROVE  FALSE
    <3>1. parent_pid[self] = pid[t]
      BY <1>1, <2>2, SlotOwner
    <3>2. self # Kernel
      BY <1>1, <2>1
    <3>3. t # self
      BY <1>1, <3>1, <3>2, NotOwnParent
    <3> QED BY <2>1, <3>1, <3>3, SeekEnds
  <2>3. CountsWell /\ SeeksWell /\ SameZombies(Numbered)
    BY <2>1, Elsewhere, SameStates
  <2> QED BY <2>1, <2>2, <2>3, QuietApp
<1>6. CASE KillAwake
  <2>1. /\ pc[self] = "kwalk" /\ pc'[self] = "kccr" /\ Rest /\ Goto("kwalk", "kccr")
        /\ reg'[self] = reg[self] /\ pid[reg[self]] = parent_pid[self]
    BY <1>1, <1>6 DEF KillAwake, Goto, Typed, TypeOK
  <2>2. reg[self] \in Linked
    BY <1>1, <2>1 DEF Family, Seeking, SeekingOf
  <2>3. SameZombies(Numbered)
    BY <1>1, <1>6 DEF KillAwake, Race, SameZombies, Typed, TypeOK
  <2>4. CountsWell /\ SeeksWell
    BY <2>1, <2>2 DEF CountsWell, SeeksWell
  <2> QED BY <2>1, <2>3, <2>4, QuietApp
<1>7. CASE KillReadCount
  <2>1. /\ pc[self] = "kccr" /\ pc'[self] = "kccw" /\ Rest /\ Goto("kccr", "kccw")
        /\ UNCHANGED state /\ reg'[self] = reg[self] /\ val'[self] = child_count[reg[self]]
    BY <1>1, <1>7 DEF KillReadCount, Goto, Typed, TypeOK
  <2>2. reg[self] \in Linked /\ pid[reg[self]] = parent_pid[self]
    BY <1>1, <2>1 DEF Family, Counting, CountingOf
  <2>3. \A o \in live \ {self} : /\ ~(pc[o] = "ccw" /\ o = reg[self])
                                /\ ~(pc[o] = "kccw" /\ reg[o] = reg[self])
    BY <1>7 DEF KillReadCount, Race, Others
  <2>4. reg[self] # self
    BY <1>1, <2>1, <2>2, NotOwnParent
  <2>5. CountsWell /\ SeeksWell
    BY <1>1, <2>1, <2>2, <2>3, <2>4 DEF CountsWell, SeeksWell
  <2>6. SameZombies(Numbered)
    BY <2>1, SameStates
  <2> QED BY <2>1, <2>5, <2>6, QuietApp
<1> QED BY <1>2, <1>3, <1>4, <1>5, <1>6, <1>7

(* The timer, and the int $0x20 of a task that has exited.                 *)
LEMMA ScheduleFamily ==
  ASSUME Typed, Core, Family, Schedule, UNCHANGED <<links, ids, family, live, locals>>,
         pc' = pc \/ Goto("int", "loop")
  PROVE  Family'
<1>1. /\ Ring /\ self \in live /\ self \in Tcb /\ live \subseteq Tcb /\ Numbered \subseteq Tcb
      /\ self \in Linked /\ Linked \subseteq live
  BY SelfFacts DEF Core, Ring, Numbered
<1>2. /\ current_task' \in Linked
      /\ \/ state[current_task'] = "READY"
         \/ state[self] = "RUNNING" /\ current_task' = self
      /\ state' = [x \in Tcb |->
           IF x = current_task' THEN "RUNNING"
           ELSE IF x = self /\ state[x] = "RUNNING" THEN "READY" ELSE state[x]]
  BY ScheduleFinds DEF Core, Typed
<1>3. SameZombies(Numbered)
  BY <1>1, <1>2 DEF SameZombies
<1>4. UNCHANGED <<next, prev, tail_task, live, new, reg, val, pid, parent_pid, child_count, children>>
  BY DEF links, ids, family, locals
<1>5. CASE pc' = pc
  <2>1. Linked' = Linked /\ Numbered' = Numbered /\ HeadBehind' = HeadBehind
    BY <1>4, <1>5 DEF Linked, Numbered, HeadBehind
  <2>2. Elders' /\ Born'
    BY <1>3, <1>4, <1>5, <2>1, ParentedFacts
    DEF Family, Elders, Born, Parented, SameZombies
  <2>5. Slots'
    <3>1. \A t : Claimed(t)' = Claimed(t)
      BY <1>4, <1>5 DEF Claimed, Filling, Clearing
    <3> QED BY <1>3, <1>4, <2>1, <3>1 DEF Family, Slots, Counted, ChildOf, SameZombies
  <2>3. Holding'
    BY <1>1, <1>3, <1>4, <1>5, <2>1, LinkedNumbered, BusyLinked DEF Family, Holding, Gone, SameZombies
  <2>4. Counting' /\ Seeking'
    BY <1>4, <1>5, <2>1 DEF Family, Counting, CountingOf, Seeking, SeekingOf, Behind
  <2> QED BY <2>2, <2>3, <2>4, <2>5 DEF Family
<1>6. CASE Goto("int", "loop")
  <2>1. /\ pc[self] = "int" /\ pc'[self] = "loop" /\ \A o \in live \ {self} : Still(o)
    BY <1>1, <1>4, <1>6 DEF Goto, Typed, TypeOK, Still
  <2>2. Linked' = Linked
    BY <1>1, <1>2, <1>4, <1>6, QuietKeepsRing DEF Outside
  <2>3. Numbered' = Numbered
    BY <1>1, <1>4, <1>6, NumberedKept
  <2>4. state'[self] = "ZOMBIE"
    BY <1>1, <1>3, <2>1, LinkedNumbered DEF Family, Holding, SameZombies
  <2> QED BY <1>1, <1>3, <1>4, <2>1, <2>2, <2>3, <2>4, Elsewhere, QuietFamily DEF Unlinked, Gone
<1> QED BY <1>5, <1>6

LEMMA ScanFamily ==
  ASSUME Typed, Core, Family, ReapScan
  PROVE  Family'
<1>1. Ring /\ self \in live /\ self \in Tcb /\ live \subseteq Tcb /\ self \in Linked
  BY SelfFacts DEF Core, Ring
<1>2. PICK to \in {"rscan", "rcli"} : Goto("rscan", to)
  BY DEF ReapScan
<1>3. /\ UNCHANGED <<next, prev, tail_task, live, new, pid, parent_pid, child_count, children,
                     current_task, state>>
      /\ pc[self] = "rscan" /\ pc'[self] = to /\ \A o \in live \ {self} : Still(o)
  BY <1>1, <1>2 DEF ReapScan, links, ids, family, Goto, Typed, TypeOK, Still
<1>4. Linked' = Linked
  BY <1>1, <1>2, <1>3, QuietKeepsRing DEF Reaping, Still, self
<1>5. Numbered' = Numbered
  BY <1>1, <1>2, <1>3, NumberedKept
<1> QED BY <1>1, <1>3, <1>4, <1>5, SameStates, Elsewhere, QuietFamily DEF Unlinked, Gone

-----------------------------------------------------------------------------
(***************************************************************************)
(* Steps that change the family.                                           *)
(***************************************************************************)
RingFacts == /\ Ring /\ Dead /\ HeadReady /\ self \in live /\ self \in Tcb /\ self \in Linked
             /\ Kernel \in Linked /\ pc[Kernel] = "idle" /\ pid[Kernel] = 0
             /\ live \subseteq Tcb /\ Linked \subseteq live /\ Linked \subseteq Numbered
             /\ Numbered \subseteq live
             /\ \A x \in live : pid[x] \in Int /\ parent_pid[x] \in Int

LEMMA RingFactsHold ==
  ASSUME Typed, Core
  PROVE  RingFacts
<1>1. Ring /\ Dead /\ HeadReady
  BY DEF Core, Ring
<1>2. Numbered \subseteq live /\ Linked \subseteq Numbered /\ pid[Kernel] = 0
  BY <1>1, LinkedNumbered DEF Numbered, HeadReady
<1> QED BY <1>1, <1>2, SelfFacts DEF RingFacts, Typed, TypeOK

(* The new task becomes a child of its spawner that has no slot yet.       *)
LEMMA FillFamily ==
  ASSUME Typed, Core, Pids, Family, SpawnFill
  PROVE  Family'
<1> DEFINE a == new[self]
<1>1. RingFacts
  BY RingFactsHold
<1>2. /\ pc[self] = "pidw" /\ pc'[self] = "check" /\ val[self] = next_pid
      /\ \A o \in live \ {self} : Still(o)
      /\ UNCHANGED <<next, live, new, reg>>
  BY <1>1 DEF RingFacts, SpawnFill, Goto, links, Pids, Typed, TypeOK, Still
<1>3. a \in live \ {Kernel} /\ pc[a] = "loop" /\ \A o \in live : Owner(o) /\ new[o] = a => o = self
  BY <1>1, <1>2 DEF RingFacts, Ring, Owners, Owner, Unlinked
<1>4. a \notin Numbered /\ a \notin Linked /\ a \in Tcb
  BY <1>1, <1>2, <1>3 DEF RingFacts, Numbered
<1>5. /\ pid' = [pid EXCEPT ![a] = next_pid] /\ parent_pid' = [parent_pid EXCEPT ![a] = pid[self]]
      /\ child_count' = [child_count EXCEPT ![a] = 0] /\ children' = [children EXCEPT ![a] = {}]
      /\ state' = [state EXCEPT ![a] = "READY"]
  BY <1>2 DEF SpawnFill
<1>6. /\ pid'[a] = next_pid /\ parent_pid'[a] = pid[self] /\ child_count'[a] = 0
      /\ children'[a] = {} /\ state'[a] = "READY"
      /\ \A x \in live : x # a => /\ pid'[x] = pid[x] /\ parent_pid'[x] = parent_pid[x]
                                /\ child_count'[x] = child_count[x] /\ children'[x] = children[x]
                                /\ state'[x] = state[x]
  BY <1>1, <1>4, <1>5 DEF RingFacts, Typed, TypeOK
<1>7. Linked' = Linked
  BY <1>1, <1>2, QuietKeepsRing DEF SpawnFill, links, Building, RingFacts, Still, self
<1>8. Numbered' = Numbered \cup {a}
  BY <1>1, <1>2, <1>3 DEF RingFacts, Numbered, Still, Owner, Unlinked
<1>9. \A x \in Numbered : x \in live /\ x # a /\ pid[x] < next_pid /\ parent_pid[x] <= pid[x]
  BY <1>1, <1>4 DEF RingFacts, Pids, Family, Elders
<1>10. next_pid \in Int
  BY DEF Typed, TypeOK
<1> HIDE DEF a
<1>11. Elders'
  <2> SUFFICES ASSUME NEW x \in Numbered'
               PROVE  /\ \A y \in Numbered' : parent_pid'[x] = pid'[y] => y \in Linked'
                      /\ parent_pid'[x] < pid'[x] \/ (x = Kernel /\ parent_pid'[x] = 0)
    BY DEF Elders
  <2>1. CASE x = a
    <3>1. self \in Numbered /\ self \in Linked /\ pid[self] \in Int
      BY <1>1 DEF RingFacts
    <3> QED BY <1>6, <1>7, <1>8, <1>9, <1>10, <2>1, <3>1 DEF Pids
  <2>2. CASE x \in Numbered
    <3>1. parent_pid[x] < next_pid /\ pid[x] \in Int /\ parent_pid[x] \in Int
      BY <1>1, <1>9, <1>10, <2>2 DEF RingFacts
    <3> QED BY <1>6, <1>7, <1>8, <1>9, <1>10, <2>2, <3>1 DEF Family, Elders
  <2> QED BY <1>8, <2>1, <2>2
<1>12. Slots'
  <2>1. \A t \in Linked : t \in live /\ t # a
    BY <1>1, <1>4 DEF RingFacts
  <2>2. OthersStay
    BY <1>1, <1>2, <1>6, <2>1 DEF OthersStay, Still, RingFacts
  <2>3. \A o \in live \ {self} : pc[o] = "slot" => new[o] \in live /\ new[o] # a
    BY <1>1, <1>3 DEF Owner, Unlinked, RingFacts, Ring, Owners
  <2>4. ASSUME NEW t \in Linked PROVE Claimed(t)' = Claimed(t)
    <3>1. t # self /\ pc[t] = "slot" => pid'[new[t]] = pid[new[t]]
      BY <1>6, <2>1, <2>3
    <3> QED BY <1>2, <1>6, <2>1, <2>2, <3>1, ClaimsStay
  <2> QED BY <1>6, <1>7, <1>8, <1>9, <2>1, <2>4 DEF Family, Slots, Counted, ChildOf
<1>13. Born'
  <2> SUFFICES ASSUME NEW o \in live, Parented(o)'
               PROVE  /\ parent_pid'[new'[o]] = pid'[o]
                      /\ child_count'[new'[o]] = 0 /\ children'[new'[o]] = {}
                      /\ IF pc'[o] \in {"check", "ccr", "ccw", "slot"}
                           THEN state'[new'[o]] # "ZOMBIE" /\ pid'[new'[o]] \notin children'[o]
                           ELSE pid'[new'[o]] \in children'[o]
    BY <1>2 DEF Born
  <2>1. CASE o = self
    <3>1. self # a /\ self \in Linked
      BY <1>1, <1>4 DEF RingFacts
    <3>2. next_pid \notin children[self]
      BY <1>9, <3>1, <1>1, <1>10 DEF Family, Slots, ChildOf, RingFacts
    <3> QED BY <1>2, <1>6, <2>1, <3>1, <3>2 DEF a
  <2>2. CASE o # self
    <3>1. Parented(o) /\ pc'[o] = pc[o] /\ o # a
      BY <1>2, <1>3, <2>2 DEF Still, Parented, Unlinked
    <3>2. new[o] \in Numbered /\ new[o] # a /\ new[o] \in live
      BY <3>1, <1>9, ParentedFacts
    <3> QED BY <1>2, <1>6, <3>1, <3>2 DEF Family, Born
  <2> QED BY <2>1, <2>2
<1>14. Holding'
  <2>1. \A t \in Linked : t \in live /\ t # a
    BY <1>1, <1>4 DEF RingFacts
  <2>2. \A x \in live : pc'[x] \in {"zombie", "int"} => x # a /\ pc[x] = pc'[x]
    BY <1>2, <1>3 DEF Still
  <2>3. \A x \in Linked : ~Gone(x)' => ~Gone(x)
    BY <1>2, <1>6, <2>1 DEF Gone, Still
  <2> QED BY <1>2, <1>6, <1>7, <2>1, <2>2, <2>3 DEF Family, Holding
<1>15. Counting'
  <2> SUFFICES ASSUME NEW o \in live PROVE CountingOf(o)'
    BY <1>2 DEF Counting
  <2>1. CASE pc'[o] \notin {"ccw", "kccr", "kccw", "kslot"}
    BY <2>1 DEF CountingOf
  <2>2. CASE pc'[o] \in {"ccw", "kccr", "kccw", "kslot"}
    <3>1. o # self /\ Still(o) /\ o # a /\ CountingOf(o)
      BY <1>2, <1>3, <2>2 DEF Still, Family, Counting
    <3>2. pc[o] \in {"kccr", "kccw", "kslot"} => reg[o] \in live /\ reg[o] # a /\ reg[o] \in Linked
      BY <1>1, <1>4, <3>1 DEF CountingOf, RingFacts
    <3>3. pc[o] = "kccw" => pc'[reg[o]] # "ccw"
      BY <1>2, <3>1, <3>2 DEF CountingOf, Still
    <3>4. \A p \in live : pc'[p] = "kccw" => pc[p] = "kccw"
      BY <1>2 DEF Still
    <3> QED BY <1>2, <1>6, <1>7, <3>1, <3>2, <3>3, <3>4 DEF CountingOf, Still
  <2> QED BY <2>1, <2>2
<1>16. Seeking'
  <2> SUFFICES ASSUME NEW o \in live, pc'[o] = "kwalk" PROVE SeekingOf(o)'
    BY <1>2 DEF Seeking, SeekingOf
  <2>1. Still(o) /\ o # a /\ SeekingOf(o) /\ pc[o] = "kwalk"
    BY <1>2, <1>3 DEF Still, Family, Seeking
  <2>2. \A t \in Linked : t \in live /\ t # a
    BY <1>1, <1>4 DEF RingFacts
  <2> QED BY <1>2, <1>6, <1>7, <2>1, <2>2 DEF SeekingOf, Behind, Still
<1> QED BY <1>11, <1>12, <1>13, <1>14, <1>15, <1>16 DEF Family

(* A refused TCB is freed; no slot held its pid.                           *)
LEMMA RefuseFamily ==
  ASSUME Typed, Core, Pids, Family, SpawnRefuse
  PROVE  Family'
<1> DEFINE a == new[self]
<1>1. RingFacts
  BY RingFactsHold
<1>2. /\ pc[self] = "check" /\ pc'[self] \in {"loop", "block"}
      /\ \A o \in live \ {self} : Still(o)
      /\ live' = live \ {a}
      /\ UNCHANGED <<next, pid, parent_pid, child_count, children, state>>
  BY <1>1 DEF RingFacts, SpawnRefuse, Goto, links, ids, family, Typed, TypeOK, Still
<1>3. Parented(self) /\ a \notin Linked /\ a \in Numbered /\ a # self /\ pc[a] = "loop"
  <2>1. Parented(self)
    BY <1>2 DEF Parented, Unlinked
  <2> QED BY <1>1, <2>1, ParentedFacts DEF RingFacts
<1>4. \A o \in live : Owner(o) /\ new[o] = a => o = self
  BY <1>1, <1>3 DEF RingFacts, Ring, Owners, Owner, Parented
<1>5. parent_pid[a] = pid[self] /\ pid[a] \notin children[self]
  BY <1>1, <1>2, <1>3 DEF RingFacts, Family, Born
<1>6. Linked' = Linked
  BY <1>1, RefuseKeepsRing DEF RingFacts
<1>7. Numbered' = Numbered \ {a}
  BY <1>1, <1>2, <1>3 DEF RingFacts, Numbered, Still
<1> HIDE DEF a
<1>8. Elders'
  BY <1>2, <1>6, <1>7 DEF Family, Elders
<1>9. Slots'
  <2>1. ASSUME NEW t \in Linked, pid[a] \in children[t] PROVE FALSE
    <3>1. parent_pid[a] = pid[t]
      BY <1>3, <2>1, SlotOwner
    <3>2. t = self
      BY <1>1, <1>5, <3>1 DEF RingFacts, Pids
    <3> QED BY <1>5, <2>1, <3>2
  <2>2. OthersStay /\ \A t \in Linked : t \in live'
    BY <1>1, <1>2, <1>3 DEF OthersStay, Still, RingFacts
  <2>3. ASSUME NEW t \in Linked PROVE Claimed(t)' = Claimed(t)
    <3>1. t # self /\ pc[t] = "slot" => pid'[new[t]] = pid[new[t]]
      BY <1>2
    <3> QED BY <1>2, <2>2, <3>1, ClaimsStay
  <2> QED BY <1>2, <1>6, <1>7, <2>1, <2>3 DEF Family, Slots, Counted, ChildOf
<1>10. Born'
  <2> SUFFICES ASSUME NEW o \in live', Parented(o)'
               PROVE  Parented(o) /\ o \in live /\ pc'[o] = pc[o] /\ new'[o] = new[o]
    BY <1>2 DEF Born, Family
  <2> QED BY <1>2 DEF Still, Parented, Unlinked
<1>11. Holding'
  <2>1. \A x \in Linked : ~Gone(x)' => ~Gone(x)
    BY <1>1, <1>2 DEF RingFacts, Gone, Still
  <2>2. \A x \in live' : x \in live /\ (pc'[x] \in {"zombie", "int"} => pc[x] = pc'[x])
    BY <1>2 DEF Still
  <2> QED BY <1>2, <1>6, <2>1, <2>2 DEF Family, Holding
<1>12. Counting'
  <2> SUFFICES ASSUME NEW o \in live', pc'[o] \in {"ccw", "kccr", "kccw", "kslot"} PROVE CountingOf(o)'
    BY DEF Counting, CountingOf
  <2>1. o # self /\ Still(o) /\ CountingOf(o)
    BY <1>2 DEF Still, Family, Counting
  <2>2. pc[o] = "kccw" => reg[o] \in live /\ pc'[reg[o]] # "ccw"
    BY <1>1, <1>2, <2>1 DEF CountingOf, Still, RingFacts
  <2>3. \A p \in live' : pc'[p] = "kccw" => p \in live /\ pc[p] = "kccw" /\ reg'[p] = reg[p]
    BY <1>2 DEF Still
  <2> QED BY <1>2, <1>6, <2>1, <2>2, <2>3 DEF CountingOf, Still
<1>13. Seeking'
  <2> SUFFICES ASSUME NEW o \in live', pc'[o] = "kwalk" PROVE SeekingOf(o)'
    BY DEF Seeking, SeekingOf
  <2>1. Still(o) /\ SeekingOf(o) /\ pc[o] = "kwalk"
    BY <1>2 DEF Still, Family, Seeking
  <2> QED BY <1>2, <1>6, <2>1 DEF SeekingOf, Behind, Still
<1> QED BY <1>8, <1>9, <1>10, <1>11, <1>12, <1>13 DEF Family

(* The new task is counted.                                                *)
LEMMA CountFamily ==
  ASSUME Typed, Core, Pids, Family, SpawnCount
  PROVE  Family'
<1> DEFINE a == new[self]
<1>1. RingFacts
  BY RingFactsHold
<1>2. /\ pc[self] = "ccw" /\ pc'[self] = "slot" /\ new'[self] = new[self]
      /\ \A o \in live \ {self} : Still(o)
      /\ UNCHANGED <<next, pid, parent_pid, live, new, reg, state, children>>
  BY <1>1 DEF RingFacts, SpawnCount, Goto, links, ids, Typed, TypeOK, Still
<1>3. Parented(self) /\ a \notin Linked /\ a \in Numbered /\ a # self
  <2>1. Parented(self)
    BY <1>2 DEF Parented, Unlinked
  <2> QED BY <1>1, <2>1, ParentedFacts DEF RingFacts
<1>4. parent_pid[a] = pid[self] /\ pid[a] \notin children[self] /\ state[a] # "ZOMBIE"
      /\ child_count[a] = 0 /\ children[a] = {}
  BY <1>1, <1>2, <1>3 DEF RingFacts, Family, Born
<1>5. val[self] = child_count[self]
  BY <1>1, <1>2 DEF RingFacts, Family, Counting, CountingOf
<1>6. /\ child_count'[self] = child_count[self] + 1
      /\ \A x \in live \ {self} : child_count'[x] = child_count[x]
  BY <1>1, <1>5 DEF RingFacts, SpawnCount, Typed, TypeOK
<1>7. Linked' = Linked
  BY <1>1, <1>2, QuietKeepsRing DEF SpawnCount, links, Building, RingFacts, Still, self
<1>8. Numbered' = Numbered
  BY <1>1, <1>2, NumberedKept DEF RingFacts, SpawnCount
<1> HIDE DEF a
<1>9. Elders'
  BY <1>2, <1>7, <1>8 DEF Family, Elders
<1>10. Slots'
  <2>1. /\ \A t \in Linked : t \in live /\ t \in live'
        /\ OthersStay
    BY <1>1, <1>2 DEF OthersStay, Still, RingFacts
  <2>2. ASSUME NEW t \in Linked, t # self PROVE Claimed(t)' = Claimed(t)
    <3>1. Filling(t)' = Filling(t)
      BY <1>2, <2>1, <2>2, FillingStays
    <3>2. Clearing(t)' = Clearing(t)
      BY <1>2, <2>1, ClearingStays
    <3> QED BY <1>2, <3>1, <3>2 DEF Claimed
  <2>3. ASSUME NEW t \in Linked, t = self
        PROVE  Claimed(t)' = Claimed(t) \cup {pid[a]} /\ pid[a] \notin Claimed(t)
    <3>1. Clearing(t)' = Clearing(t)
      BY <1>2, <2>1, ClearingStays
    <3>2. Filling(t) = {} /\ Filling(t)' = {pid[a]}
      BY <1>2, <2>3 DEF Filling, a
    <3>3. pid[a] \notin Clearing(t)
      <4> SUFFICES ASSUME NEW o \in live, pc[o] = "kslot", pid[o] = pid[a] PROVE FALSE
        BY DEF Clearing
      <4>1. o \in Linked /\ o \in Numbered
        BY <1>1, BusyLinked DEF RingFacts
      <4> QED BY <1>3, <4>1 DEF Pids
    <3> QED BY <1>2, <1>4, <2>3, <3>1, <3>2, <3>3 DEF Claimed
  <2>4. \A t \in Linked : IsFiniteSet(Claimed(t)) /\ child_count[t] = Cardinality(Claimed(t))
    BY DEF Family, Slots, Counted
  <2>5. ASSUME NEW t \in Linked, t = self
        PROVE  /\ IsFiniteSet(Claimed(t)')
               /\ Cardinality(Claimed(t)') = Cardinality(Claimed(t)) + 1
    BY <2>3, <2>4, <2>5, FS_AddElement
  <2>6. ASSUME NEW t \in Linked PROVE Counted(t)'
    <3>1. CASE t = self
      BY <1>6, <2>4, <2>5, <3>1 DEF Counted
    <3>2. CASE t # self
      BY <1>6, <2>1, <2>2, <2>4, <3>2 DEF Counted
    <3> QED BY <3>1, <3>2
  <2> QED BY <1>2, <1>7, <1>8, <2>6 DEF Family, Slots, ChildOf
<1>11. Born'
  <2> SUFFICES ASSUME NEW o \in live, Parented(o)'
               PROVE  /\ parent_pid[new[o]] = pid[o]
                      /\ child_count'[new[o]] = 0 /\ children'[new[o]] = {}
                      /\ IF pc'[o] \in {"check", "ccr", "ccw", "slot"}
                           THEN state[new[o]] # "ZOMBIE" /\ pid[new[o]] \notin children'[o]
                           ELSE pid[new[o]] \in children'[o]
    BY <1>2 DEF Born
  <2>1. CASE o = self
    BY <1>1, <1>2, <1>3, <1>4, <1>6, <2>1 DEF a, RingFacts
  <2>2. CASE o # self
    <3>1. Parented(o) /\ pc'[o] = pc[o]
      BY <1>2, <2>2 DEF Still, Parented
    <3>2. new[o] \in live /\ new[o] # self
      BY <1>1, <3>1, ParentedFacts DEF RingFacts
    <3> QED BY <1>2, <1>6, <2>2, <3>1, <3>2 DEF Family, Born
  <2> QED BY <2>1, <2>2
<1>12. Holding'
  <2>1. \A x \in live : pc'[x] \in {"zombie", "int"} => pc[x] = pc'[x]
    BY <1>2 DEF Still
  <2>2. \A x \in Linked : x \in live /\ (~Gone(x)' => ~Gone(x))
    BY <1>1, <1>2 DEF RingFacts, Still, Gone
  <2> QED BY <1>2, <1>7, <2>1, <2>2 DEF Family, Holding
<1>13. Counting'
  <2> SUFFICES ASSUME NEW o \in live, pc'[o] \in {"ccw", "kccr", "kccw", "kslot"} PROVE CountingOf(o)'
    BY <1>2 DEF Counting, CountingOf
  <2>1. o # self /\ Still(o) /\ CountingOf(o)
    BY <1>2 DEF Still, Family, Counting
  <2>2. pc[o] = "kccw" => reg[o] \in live /\ reg[o] # self /\ pc'[reg[o]] # "ccw"
    BY <1>1, <1>2, <2>1 DEF CountingOf, Still, RingFacts
  <2>3. \A p \in live : pc'[p] = "kccw" => pc[p] = "kccw"
    BY <1>2 DEF Still
  <2> QED BY <1>2, <1>6, <1>7, <2>1, <2>2, <2>3 DEF CountingOf, Still
<1>14. Seeking'
  <2> SUFFICES ASSUME NEW o \in live, pc'[o] = "kwalk" PROVE SeekingOf(o)'
    BY <1>2 DEF Seeking, SeekingOf
  <2>1. Still(o) /\ SeekingOf(o) /\ pc[o] = "kwalk"
    BY <1>2 DEF Still, Family, Seeking
  <2> QED BY <1>2, <1>7, <2>1 DEF SeekingOf, Behind, Still
<1> QED BY <1>9, <1>10, <1>11, <1>12, <1>13, <1>14 DEF Family

(* ... and gets its slot.                                                  *)
LEMMA SlotFamily ==
  ASSUME Typed, Core, Pids, Family, SpawnSlot
  PROVE  Family'
<1> DEFINE a == new[self]
<1>1. RingFacts
  BY RingFactsHold
<1>2. /\ pc[self] = "slot" /\ pc'[self] = "prev" /\ new'[self] = new[self]
      /\ \A o \in live \ {self} : Still(o)
      /\ UNCHANGED <<next, pid, parent_pid, live, new, reg, val, state, child_count>>
  BY <1>1 DEF RingFacts, SpawnSlot, Goto, links, ids, locals, Typed, TypeOK, Still
<1>3. Parented(self) /\ a \notin Linked /\ a \in Numbered /\ a # self
  <2>1. Parented(self)
    BY <1>2 DEF Parented, Unlinked
  <2> QED BY <1>1, <2>1, ParentedFacts DEF RingFacts
<1>4. parent_pid[a] = pid[self] /\ pid[a] \notin children[self] /\ state[a] # "ZOMBIE"
      /\ child_count[a] = 0 /\ children[a] = {}
  BY <1>1, <1>2, <1>3 DEF RingFacts, Family, Born
<1>6. /\ children'[self] = children[self] \cup {pid[a]}
      /\ \A x \in live \ {self} : children'[x] = children[x]
  BY <1>1 DEF RingFacts, SpawnSlot, Typed, TypeOK
<1>7. Linked' = Linked
  BY <1>1, <1>2, QuietKeepsRing DEF SpawnSlot, links, Building, RingFacts, Still, self
<1>8. Numbered' = Numbered
  BY <1>1, <1>2, NumberedKept DEF RingFacts, SpawnSlot
<1> HIDE DEF a
<1>9. Elders'
  BY <1>2, <1>7, <1>8 DEF Family, Elders
<1>10. Slots'
  <2>1. /\ \A t \in Linked : t \in live /\ t \in live'
        /\ OthersStay
    BY <1>1, <1>2 DEF OthersStay, Still, RingFacts
  <2>2. ASSUME NEW t \in Linked PROVE Claimed(t)' = Claimed(t)
    <3>1. Clearing(t)' = Clearing(t)
      BY <1>2, <2>1, ClearingStays
    <3>2. CASE t = self
      <4>1. Filling(t) = {pid[a]} /\ Filling(t)' = {}
        BY <1>2, <3>2 DEF Filling, a
      <4> QED BY <1>6, <3>1, <3>2, <4>1 DEF Claimed
    <3>3. CASE t # self
      <4>1. Filling(t)' = Filling(t)
        BY <1>2, <2>1, <3>3, FillingStays
      <4> QED BY <1>6, <2>1, <3>1, <3>3, <4>1 DEF Claimed
    <3> QED BY <3>2, <3>3
  <2>3. \A t \in Linked : Counted(t)'
    BY <1>2, <2>2 DEF Family, Slots, Counted
  <2>4. \A t \in Linked : \A c \in children'[t] : \E x \in Numbered :
           pid[x] = c /\ parent_pid[x] = pid[t] /\ state[x] # "ZOMBIE"
    <3> SUFFICES ASSUME NEW t \in Linked, NEW c \in children'[t]
                 PROVE  \E x \in Numbered :
                          pid[x] = c /\ parent_pid[x] = pid[t] /\ state[x] # "ZOMBIE"
      OBVIOUS
    <3>1. CASE c \in children[t]
      BY <3>1 DEF Family, Slots, ChildOf
    <3>2. CASE c \notin children[t]
      BY <1>3, <1>4, <1>6, <2>1, <3>2
    <3> QED BY <3>1, <3>2
  <2> QED BY <1>2, <1>7, <1>8, <2>3, <2>4 DEF Slots, ChildOf
<1>11. Born'
  <2> SUFFICES ASSUME NEW o \in live, Parented(o)'
               PROVE  /\ parent_pid[new[o]] = pid[o]
                      /\ child_count'[new[o]] = 0 /\ children'[new[o]] = {}
                      /\ IF pc'[o] \in {"check", "ccr", "ccw", "slot"}
                           THEN state[new[o]] # "ZOMBIE" /\ pid[new[o]] \notin children'[o]
                           ELSE pid[new[o]] \in children'[o]
    BY <1>2 DEF Born
  <2>1. CASE o = self
    BY <1>1, <1>2, <1>3, <1>4, <1>6, <2>1 DEF a, RingFacts
  <2>2. CASE o # self
    <3>1. Parented(o) /\ pc'[o] = pc[o]
      BY <1>2, <2>2 DEF Still, Parented
    <3>2. new[o] \in live /\ new[o] # self
      BY <1>1, <3>1, ParentedFacts DEF RingFacts
    <3> QED BY <1>2, <1>6, <2>2, <3>1, <3>2 DEF Family, Born
  <2> QED BY <2>1, <2>2
<1>12. Holding'
  <2>1. \A x \in live : pc'[x] \in {"zombie", "int"} => pc[x] = pc'[x]
    BY <1>2 DEF Still
  <2>2. \A t \in Linked : children[t] \subseteq children'[t]
    BY <1>1, <1>6 DEF RingFacts
  <2>3. ASSUME NEW x \in live, pc[x] = "zombie", NEW t \in Linked, pid[x] \in children'[t]
        PROVE  FALSE
    <3>1. x \in Linked /\ x \in Numbered /\ x # a
      BY <1>1, <1>3, <2>3, BusyLinked DEF RingFacts
    <3>2. pid[x] # pid[a]
      BY <1>3, <3>1 DEF Pids
    <3> QED BY <1>1, <1>6, <2>3, <3>2 DEF RingFacts, Family, Holding
  <2>4. \A x \in Linked : x \in live /\ (~Gone(x)' => ~Gone(x))
    BY <1>1, <1>2 DEF RingFacts, Still, Gone
  <2>5. \A x \in live' : pc'[x] = "zombie" => \A t \in Linked' : pid'[x] \notin children'[t]
    BY <1>2, <1>7, <2>1, <2>3
  <2>6. \A x \in live' : pc'[x] = "int" => state'[x] = "ZOMBIE"
    BY <1>2, <2>1 DEF Family, Holding
  <2> QED BY <1>2, <1>7, <2>2, <2>4, <2>5, <2>6 DEF Family, Holding
<1>13. Counting'
  <2> SUFFICES ASSUME NEW o \in live, pc'[o] \in {"ccw", "kccr", "kccw", "kslot"} PROVE CountingOf(o)'
    BY <1>2 DEF Counting, CountingOf
  <2>1. o # self /\ Still(o) /\ CountingOf(o)
    BY <1>2 DEF Still, Family, Counting
  <2>2. pc[o] = "kccw" => reg[o] \in live /\ pc'[reg[o]] # "ccw"
    BY <1>1, <1>2, <2>1 DEF CountingOf, Still, RingFacts
  <2>3. \A p \in live : pc'[p] = "kccw" => pc[p] = "kccw"
    BY <1>2 DEF Still
  <2> QED BY <1>2, <1>6, <1>7, <2>1, <2>2, <2>3 DEF CountingOf, Still
<1>14. Seeking'
  <2> SUFFICES ASSUME NEW o \in live, pc'[o] = "kwalk" PROVE SeekingOf(o)'
    BY <1>2 DEF Seeking, SeekingOf
  <2>1. Still(o) /\ SeekingOf(o) /\ pc[o] = "kwalk"
    BY <1>2 DEF Still, Family, Seeking
  <2> QED BY <1>2, <1>7, <2>1 DEF SeekingOf, Behind, Still
<1> QED BY <1>9, <1>10, <1>11, <1>12, <1>13, <1>14 DEF Family

(* The write that makes the new task part of the ring.                     *)
LEMMA LinkNextFamily ==
  ASSUME Typed, Core, Pids, Family, SpawnLinkNext
  PROVE  Family'
<1> DEFINE a == new[self]
<1>1. RingFacts
  BY RingFactsHold
<1>2. /\ pc[self] = "tnext" /\ pc'[self] = "hprev"
      /\ \A o \in live \ {self} : Still(o)
      /\ UNCHANGED <<pid, parent_pid, child_count, children, live, new, state>>
  BY <1>1 DEF RingFacts, SpawnLinkNext, Goto, family, ids, Typed, TypeOK, Still
<1>3. Parented(self) /\ a \notin Linked /\ a \in Numbered /\ a # self /\ pc[a] = "loop"
  <2>1. Parented(self)
    BY <1>2 DEF Parented, Unlinked
  <2> QED BY <1>1, <2>1, ParentedFacts DEF RingFacts
<1>4. parent_pid[a] = pid[self] /\ pid[a] \in children[self]
      /\ child_count[a] = 0 /\ children[a] = {}
  BY <1>1, <1>2, <1>3 DEF RingFacts, Family, Born
<1>5. /\ tail_task \in Linked /\ next[a] = Kernel /\ next[tail_task] = Kernel
      /\ a \in Tcb /\ a # Kernel
      /\ next'[tail_task] = a /\ \A x \in Tcb \ {tail_task} : next'[x] = next[x]
  <2>1. /\ reg[self] = tail_task /\ tail_task \in Linked /\ next[a] = Kernel
        /\ \A o \in live : pc[o] \in Linking => o = self
    BY <1>1, <1>2 DEF RingFacts, Ring, TailOK, OneLinker, Linking
  <2>2. \A o \in live : ~Appending(o)
    BY <1>1, <1>2, <2>1 DEF Appending, Linking
  <2>3. next[tail_task] = Kernel
    BY <1>1, <2>2 DEF RingFacts, Ring, TailOK
  <2>4. a \in Tcb /\ a # Kernel
    BY <1>1, <1>3 DEF RingFacts
  <2> QED BY <1>1, <2>1, <2>3, <2>4 DEF RingFacts, SpawnLinkNext, Typed, TypeOK
<1>6. Linked' = Linked \cup {a}
  BY <1>1, LinkNextKeepsRing DEF RingFacts
<1>7. Numbered' = Numbered
  BY <1>1, <1>2, NumberedKept DEF RingFacts, SpawnLinkNext
<1> HIDE DEF a
<1>8. \A x \in Numbered : parent_pid[x] # pid[a]
  BY <1>3 DEF Family, Elders, Pids
<1>9. Elders'
  BY <1>2, <1>6, <1>7 DEF Family, Elders
<1>10. Slots'
  <2>1. Counted(a)
    <3>1. Clearing(a) = {}
      <4> SUFFICES ASSUME NEW o \in live, pc[o] = "kslot", reg[o] = a PROVE FALSE
        BY DEF Clearing
      <4> QED BY <1>3 DEF Family, Counting, CountingOf
    <3>2. Claimed(a) = {}
      BY <1>3, <1>4, <3>1 DEF Claimed, Filling
    <3> QED BY <1>4, <3>2, FS_EmptySet DEF Counted
  <2>3. \A t \in Linked' : t \in live /\ Counted(t)
    BY <1>1, <1>3, <1>6, <2>1 DEF RingFacts, Family, Slots
  <2>4. OthersStay
    BY <1>1, <1>2 DEF OthersStay, Still, RingFacts
  <2>5. ASSUME NEW t \in Linked' PROVE Counted(t)'
    <3>1. Clearing(t)' = Clearing(t)
      BY <1>2, <2>4, ClearingStays
    <3>2. Filling(t)' = Filling(t)
      BY <1>2, <2>3, <2>4, FillingStays
    <3>3. Claimed(t)' = Claimed(t)
      BY <1>2, <3>1, <3>2 DEF Claimed
    <3> QED BY <1>2, <2>3, <3>3 DEF Counted
  <2>2. /\ \A t \in Linked' : \A c \in children[t] : \E x \in Numbered :
             pid[x] = c /\ parent_pid[x] = pid[t] /\ state[x] # "ZOMBIE"
    BY <1>4, <1>6 DEF Family, Slots, ChildOf
  <2> QED BY <1>2, <1>7, <2>2, <2>5 DEF Slots, ChildOf
<1>11. Born'
  <2> SUFFICES ASSUME NEW o \in live', Parented(o)'
               PROVE  Parented(o) /\ o \in live /\ pc'[o] = pc[o] /\ new'[o] = new[o]
    BY <1>2 DEF Born, Family
  <2> QED BY <1>2 DEF Still, Parented, Unlinked
<1>12. Holding'
  <2>1. \A x \in live : pc'[x] \in {"zombie", "int"} => pc[x] = pc'[x]
    BY <1>2 DEF Still
  <2>2. ASSUME NEW x \in Linked', x # Kernel, ~Gone(x), NEW t \in Linked', pid[t] = parent_pid[x]
        PROVE  pid[x] \in children[t]
    <3>1. x \in Numbered /\ t # a /\ t \in Linked
      BY <1>1, <1>3, <1>6, <1>8, <2>2 DEF RingFacts
    <3>2. CASE x = a
      <4>1. t = self
        BY <1>1, <1>4, <2>2, <3>1, <3>2 DEF Pids, RingFacts
      <4> QED BY <1>4, <3>2, <4>1
    <3>3. CASE x \in Linked
      BY <2>2, <3>1, <3>3 DEF Family, Holding
    <3> QED BY <1>6, <3>2, <3>3
  <2>3. ASSUME NEW x \in live, pc[x] = "zombie", NEW t \in Linked' PROVE pid[x] \notin children[t]
    BY <1>4, <1>6, <2>3 DEF Family, Holding
  <2>4. Linked' \subseteq live
    BY <1>1, <1>3, <1>6 DEF RingFacts
  <2>5. \A x \in Linked' : ~Gone(x)' => ~Gone(x)
    BY <1>2, <2>4 DEF Still, Gone
  <2>6. \A x \in live' : pc'[x] = "int" => state'[x] = "ZOMBIE"
    BY <1>2, <2>1 DEF Family, Holding
  <2> QED BY <1>2, <2>1, <2>2, <2>3, <2>5, <2>6 DEF Holding
<1>13. Counting'
  <2> SUFFICES ASSUME NEW o \in live, pc'[o] \in {"ccw", "kccr", "kccw", "kslot"} PROVE CountingOf(o)'
    BY <1>2 DEF Counting, CountingOf
  <2>1. o # self /\ Still(o) /\ CountingOf(o)
    BY <1>2 DEF Still, Family, Counting
  <2>2. pc[o] = "kccw" => reg[o] \in live /\ pc'[reg[o]] # "ccw"
    BY <1>1, <1>2, <2>1 DEF CountingOf, Still, RingFacts
  <2>3. \A p \in live : pc'[p] = "kccw" => pc[p] = "kccw" /\ reg'[p] = reg[p]
    BY <1>2 DEF Still
  <2> QED BY <1>2, <1>6, <2>1, <2>2, <2>3 DEF CountingOf, Still
<1>14. Seeking'
  <2> SUFFICES ASSUME NEW o \in live, pc'[o] = "kwalk" PROVE SeekingOf(o)'
    BY <1>2 DEF Seeking, SeekingOf
  <2>1. Still(o) /\ SeekingOf(o) /\ pc[o] = "kwalk" /\ o # self /\ o # a
    BY <1>2, <1>3 DEF Still, Family, Seeking
  <2>2. reg[o] \in Linked /\ o \in Numbered
    BY <1>1, <2>1, BusyLinked DEF SeekingOf, RingFacts
  <2>3. ASSUME NEW t \in Linked' \ {o}, pid[t] = parent_pid[o], NEW S \in SUBSET Linked', t \in S,
               \A x \in Linked' \ {o} : next'[x] \in S => x \in S
        PROVE  reg[o] \in S
    <3> DEFINE T == S \cap Linked
    <3>1. t # a
      BY <1>8, <2>2, <2>3
    <3>2. t \in Linked \ {o} /\ t \in T /\ T \in SUBSET Linked
      BY <1>6, <2>3, <3>1
    <3>3. Behind(o, T)
      <4> SUFFICES ASSUME NEW x \in Linked \ {o}, next[x] \in T PROVE x \in T
        BY DEF Behind
      <4>1. x \in Tcb
        BY <1>1 DEF RingFacts
      <4>2. CASE x # tail_task
        BY <1>5, <1>6, <2>3, <4>1, <4>2
      <4>3. CASE x = tail_task
        <5>1. next'[a] = Kernel /\ Kernel \in S
          BY <1>1, <1>3, <1>5, <4>3
        <5>2. a \in S
          BY <1>6, <2>1, <2>3, <5>1
        <5> QED BY <1>5, <1>6, <2>3, <4>3, <5>2
      <4> QED BY <4>2, <4>3
    <3>4. reg[o] \in T
      BY <2>1, <2>3, <3>2, <3>3 DEF SeekingOf
    <3> QED BY <3>4
  <2> QED BY <1>2, <1>6, <2>1, <2>2, <2>3 DEF SeekingOf, Behind, Still
<1> QED BY <1>9, <1>10, <1>11, <1>12, <1>13, <1>14 DEF Family

(* The exiting task is no longer counted, ...                              *)
LEMMA UncountFamily ==
  ASSUME Typed, Core, Pids, Family, KillUncount
  PROVE  Family'
<1> DEFINE r == reg[self]
<1>1. RingFacts
  BY RingFactsHold
<1>2. /\ pc[self] = "kccw" /\ pc'[self] = "kslot"
      /\ \A o \in live \ {self} : Still(o)
      /\ UNCHANGED <<next, pid, parent_pid, live, new, reg, state, children>>
  BY <1>1 DEF RingFacts, KillUncount, Goto, links, ids, Typed, TypeOK, Still
<1>3. /\ r \in Linked /\ pid[r] = parent_pid[self] /\ val[self] = child_count[r] /\ pc[r] # "ccw"
      /\ \A p \in live \ {self} : ~(pc[p] = "kccw" /\ reg[p] = r)
  BY <1>1, <1>2 DEF RingFacts, Family, Counting, CountingOf
<1>4. /\ child_count'[r] = child_count[r] - 1
      /\ \A x \in live \ {r} : child_count'[x] = child_count[x]
  BY <1>1, <1>3 DEF RingFacts, KillUncount, Typed, TypeOK
<1>5. state[self] # "ZOMBIE" /\ self # Kernel /\ self \in Numbered
  BY <1>1, <1>2, AppFacts DEF RingFacts
<1>6. pid[self] \in children[r]
  BY <1>1, <1>2, <1>3, <1>5 DEF RingFacts, Family, Holding, Gone
<1>7. Linked' = Linked
  BY <1>1, <1>2, QuietKeepsRing DEF KillUncount, links, Outside, RingFacts, Still, self
<1>8. Numbered' = Numbered
  BY <1>1, <1>2, NumberedKept DEF RingFacts, KillUncount
<1>9. \A x \in Numbered : x # self => pid[x] # pid[self]
  BY <1>5 DEF Pids
<1> HIDE DEF r
<1>10. Elders'
  BY <1>2, <1>7, <1>8 DEF Family, Elders
<1>11. Slots'
  <2>1. /\ \A t \in Linked : t \in live /\ t \in live' /\ t \in Numbered
        /\ OthersStay
    BY <1>1, <1>2 DEF OthersStay, Still, RingFacts
  <2>2. \A t \in Linked : Filling(t)' = Filling(t)
    BY <1>2, <2>1, FillingStays
  <2>3. ASSUME NEW t \in Linked
        PROVE  Clearing(t)' = IF t = r THEN Clearing(t) \cup {pid[self]} ELSE Clearing(t)
    <3> DEFINE C == {x \in live : pc[x] = "kslot" /\ reg[x] = t}
               D == {x \in live : pc'[x] = "kslot" /\ reg[x] = t}
    <3>1. D = IF t = r THEN C \cup {self} ELSE C
      BY <1>1, <1>2 DEF Still, RingFacts, r
    <3>2. Clearing(t) = {pid[o] : o \in C} /\ Clearing(t)' = {pid[o] : o \in D}
      BY <1>2 DEF Clearing
    <3> HIDE DEF C, D
    <3> QED BY <3>1, <3>2
  <2>4. ASSUME NEW t \in Linked, t # r PROVE Claimed(t)' = Claimed(t)
    BY <1>2, <2>2, <2>3, <2>4 DEF Claimed
  <2>5. ASSUME NEW t \in Linked, t = r
        PROVE  Claimed(t)' = Claimed(t) \ {pid[self]} /\ pid[self] \in Claimed(t)
    <3>1. pid[self] \notin Clearing(t)
      <4> SUFFICES ASSUME NEW o \in live, pc[o] = "kslot", pid[o] = pid[self] PROVE FALSE
        BY DEF Clearing
      <4>1. o \in Numbered /\ o # self
        BY <1>1, <1>2, BusyLinked DEF RingFacts
      <4> QED BY <1>9, <4>1
    <3> QED BY <1>2, <1>6, <2>2, <2>3, <2>5, <3>1 DEF Claimed
  <2>6. \A t \in Linked : IsFiniteSet(Claimed(t)) /\ child_count[t] = Cardinality(Claimed(t))
    BY DEF Family, Slots, Counted
  <2>7. ASSUME NEW t \in Linked, t = r
        PROVE  /\ IsFiniteSet(Claimed(t)')
               /\ Cardinality(Claimed(t)') = Cardinality(Claimed(t)) - 1
    BY <2>5, <2>6, <2>7, FS_RemoveElement
  <2>8. ASSUME NEW t \in Linked PROVE Counted(t)'
    <3>1. CASE t = r
      BY <1>4, <2>6, <2>7, <3>1 DEF Counted
    <3>2. CASE t # r
      BY <1>4, <2>1, <2>4, <2>6, <3>2 DEF Counted
    <3> QED BY <3>1, <3>2
  <2> QED BY <1>2, <1>7, <1>8, <2>8 DEF Family, Slots, ChildOf
<1>12. Born'
  <2> SUFFICES ASSUME NEW o \in live, Parented(o)'
               PROVE  /\ parent_pid[new[o]] = pid[o]
                      /\ child_count'[new[o]] = 0 /\ children'[new[o]] = {}
                      /\ IF pc'[o] \in {"check", "ccr", "ccw", "slot"}
                           THEN state[new[o]] # "ZOMBIE" /\ pid[new[o]] \notin children'[o]
                           ELSE pid[new[o]] \in children'[o]
    BY <1>2 DEF Born
  <2>1. Parented(o) /\ pc'[o] = pc[o]
    BY <1>2 DEF Still, Parented, Unlinked
  <2>2. new[o] \in live /\ new[o] # r /\ new[o] # self /\ new[o] \in Numbered
    BY <1>1, <1>3, <2>1, ParentedFacts DEF RingFacts
  <2>3. pid[new[o]] # pid[self]
    BY <1>9, <2>2
  <2> QED BY <1>2, <1>4, <2>1, <2>2, <2>3 DEF Family, Born
<1>13. Holding'
  <2>1. \A x \in live : pc'[x] \in {"zombie", "int"} => pc[x] = pc'[x]
    BY <1>2 DEF Still
  <2>2. \A x \in Linked : x \in live /\ (~Gone(x)' => ~Gone(x))
    BY <1>1, <1>2 DEF RingFacts, Still, Gone
  <2> QED BY <1>2, <1>7, <2>1, <2>2 DEF Family, Holding
<1>14. Counting'
  <2> SUFFICES ASSUME NEW o \in live, pc'[o] \in {"ccw", "kccr", "kccw", "kslot"} PROVE CountingOf(o)'
    BY <1>2 DEF Counting, CountingOf
  <2>1. CASE o = self
    BY <1>2, <1>3, <1>7, <2>1 DEF CountingOf, r
  <2>2. CASE o # self
    <3>1. Still(o) /\ CountingOf(o)
      BY <1>2, <2>2 DEF Family, Counting
    <3>2. pc[o] = "kccw" => reg[o] \in live /\ reg[o] # r /\ pc'[reg[o]] # "ccw"
      BY <1>1, <1>2, <1>3, <2>2, <3>1 DEF CountingOf, Still, RingFacts
    <3>3. \A p \in live : pc'[p] = "kccw" => pc[p] = "kccw"
      BY <1>2 DEF Still
    <3>4. pc[o] = "ccw" => o # r
      BY <1>3
    <3> QED BY <1>2, <1>4, <1>7, <3>1, <3>2, <3>3, <3>4 DEF CountingOf, Still
  <2> QED BY <2>1, <2>2
<1>15. Seeking'
  <2> SUFFICES ASSUME NEW o \in live, pc'[o] = "kwalk" PROVE SeekingOf(o)'
    BY <1>2 DEF Seeking, SeekingOf
  <2>1. Still(o) /\ SeekingOf(o) /\ pc[o] = "kwalk"
    BY <1>2 DEF Still, Family, Seeking
  <2> QED BY <1>2, <1>7, <2>1 DEF SeekingOf, Behind, Still
<1> QED BY <1>10, <1>11, <1>12, <1>13, <1>14, <1>15 DEF Family

(* ... and gives its slot back.                                            *)
LEMMA ClearFamily ==
  ASSUME Typed, Core, Pids, Family, KillSlot
  PROVE  Family'
<1> DEFINE r == reg[self]
<1>1. RingFacts
  BY RingFactsHold
<1>2. /\ pc[self] = "kslot" /\ pc'[self] = "zombie"
      /\ \A o \in live \ {self} : Still(o)
      /\ UNCHANGED <<next, pid, parent_pid, live, new, reg, val, state, child_count>>
  BY <1>1 DEF RingFacts, KillSlot, Goto, links, ids, locals, Typed, TypeOK, Still
<1>3. r \in Linked /\ pid[r] = parent_pid[self]
  BY <1>1, <1>2 DEF RingFacts, Family, Counting, CountingOf
<1>4. /\ children'[r] = children[r] \ {pid[self]}
      /\ \A x \in live \ {r} : children'[x] = children[x]
  BY <1>1, <1>3 DEF RingFacts, KillSlot, Typed, TypeOK
<1>5. state[self] # "ZOMBIE" /\ self # Kernel /\ self \in Numbered
  BY <1>1, <1>2, AppFacts DEF RingFacts
<1>6. pid[self] \in children[r]
  BY <1>1, <1>2, <1>3, <1>5 DEF RingFacts, Family, Holding, Gone
<1>7. Linked' = Linked
  BY <1>1, <1>2, QuietKeepsRing DEF KillSlot, links, Outside, RingFacts, Still, self
<1>8. Numbered' = Numbered
  BY <1>1, <1>2, NumberedKept DEF RingFacts, KillSlot
<1>9. \A x \in Numbered : x # self => pid[x] # pid[self]
  BY <1>5 DEF Pids
<1> HIDE DEF r
<1>10. Elders'
  BY <1>2, <1>7, <1>8 DEF Family, Elders
<1>11. Slots'
  <2>1. /\ \A t \in Linked : t \in live /\ t \in live' /\ t \in Numbered
        /\ OthersStay
    BY <1>1, <1>2 DEF OthersStay, Still, RingFacts
  <2>2. \A t \in Linked : Filling(t)' = Filling(t)
    BY <1>2, <2>1, FillingStays
  <2>3. \A o \in live : o # self /\ pc[o] = "kslot" => pid[o] # pid[self]
    BY <1>1, <1>9, BusyLinked DEF RingFacts
  <2>4. ASSUME NEW t \in Linked
        PROVE  Clearing(t)' = IF t = r THEN Clearing(t) \ {pid[self]} ELSE Clearing(t)
    <3> DEFINE C == {x \in live : pc[x] = "kslot" /\ reg[x] = t}
               D == {x \in live : pc'[x] = "kslot" /\ reg[x] = t}
    <3>1. D = IF t = r THEN C \ {self} ELSE C
      BY <1>1, <1>2 DEF Still, RingFacts, r
    <3>2. Clearing(t) = {pid[o] : o \in C} /\ Clearing(t)' = {pid[o] : o \in D}
      BY <1>2 DEF Clearing
    <3>3. \A o \in C : o # self => pid[o] # pid[self]
      BY <2>3
    <3> HIDE DEF C, D
    <3> QED BY <3>1, <3>2, <3>3
  <2>5. ASSUME NEW t \in Linked, t # r PROVE Claimed(t)' = Claimed(t)
    BY <1>4, <2>1, <2>2, <2>4, <2>5 DEF Claimed
  <2>6. ASSUME NEW t \in Linked, t = r PROVE Claimed(t)' = Claimed(t)
    <3>1. pid[self] \in Clearing(t)
      BY <1>1, <1>2, <2>6 DEF Clearing, RingFacts, r
    <3>2. pid[self] \notin Filling(t)
      <4> SUFFICES ASSUME pc[t] = "slot", pid[new[t]] = pid[self] PROVE FALSE
        BY DEF Filling
      <4>1. t \in live /\ Parented(t)
        BY <2>1 DEF Parented, Unlinked
      <4>2. new[t] \in Numbered /\ new[t] # self
        BY <1>1, <4>1, ParentedFacts DEF RingFacts
      <4> QED BY <1>9, <4>2
    <3> QED BY <1>4, <2>2, <2>4, <2>6, <3>1, <3>2 DEF Claimed
  <2>7. \A t \in Linked : Counted(t)'
    BY <1>2, <2>5, <2>6 DEF Family, Slots, Counted
  <2>8. \A t \in Linked : children'[t] \subseteq children[t]
    BY <1>4, <2>1
  <2> QED BY <1>2, <1>7, <1>8, <2>7, <2>8 DEF Family, Slots, ChildOf
<1>12. Born'
  <2> SUFFICES ASSUME NEW o \in live, Parented(o)'
               PROVE  /\ parent_pid[new[o]] = pid[o]
                      /\ child_count'[new[o]] = 0 /\ children'[new[o]] = {}
                      /\ IF pc'[o] \in {"check", "ccr", "ccw", "slot"}
                           THEN state[new[o]] # "ZOMBIE" /\ pid[new[o]] \notin children'[o]
                           ELSE pid[new[o]] \in children'[o]
    BY <1>2 DEF Born
  <2>1. Parented(o) /\ pc'[o] = pc[o]
    BY <1>2 DEF Still, Parented, Unlinked
  <2>2. new[o] \in live /\ new[o] # r /\ new[o] # self /\ new[o] \in Numbered
    BY <1>1, <1>3, <2>1, ParentedFacts DEF RingFacts
  <2>3. pid[new[o]] # pid[self]
    BY <1>9, <2>2
  <2> QED BY <1>2, <1>4, <2>1, <2>2, <2>3 DEF Family, Born
<1>13. Holding'
  <2>1. \A x \in Linked : ~Gone(x)' => x # self /\ ~Gone(x)
    BY <1>1, <1>2 DEF RingFacts, Still, Gone
  <2>2. ASSUME NEW x \in Linked \ {Kernel}, x # self, ~Gone(x), NEW t \in Linked,
               pid[t] = parent_pid[x]
        PROVE  pid[x] \in children'[t]
    BY <1>1, <1>4, <1>9, <2>2 DEF RingFacts, Family, Holding
  <2>3. ASSUME NEW x \in live, pc'[x] = "zombie", NEW t \in Linked, pid[x] \in children'[t]
        PROVE  FALSE
    <3>1. pid[x] \in children[t] /\ (t = r => pid[x] # pid[self])
      BY <1>1, <1>4, <2>3 DEF RingFacts
    <3>2. CASE x = self
      <4>1. parent_pid[self] = pid[t]
        BY <1>5, <3>1, <3>2, SlotOwner
      <4>2. t = r
        BY <1>1, <1>3, <4>1 DEF RingFacts, Pids
      <4> QED BY <3>1, <3>2, <4>2
    <3>3. CASE x # self
      BY <1>2, <2>3, <3>1, <3>3 DEF Still, Family, Holding
    <3> QED BY <3>2, <3>3
  <2>4. \A x \in live' : pc'[x] = "int" => state'[x] = "ZOMBIE"
    BY <1>2 DEF Still, Family, Holding
  <2> QED BY <1>2, <1>7, <2>1, <2>2, <2>3, <2>4 DEF Holding
<1>14. Counting'
  <2> SUFFICES ASSUME NEW o \in live, pc'[o] \in {"ccw", "kccr", "kccw", "kslot"} PROVE CountingOf(o)'
    BY <1>2 DEF Counting, CountingOf
  <2>1. o # self /\ Still(o) /\ CountingOf(o)
    BY <1>2 DEF Still, Family, Counting
  <2>2. pc[o] = "kccw" => reg[o] \in live /\ pc'[reg[o]] # "ccw"
    BY <1>1, <1>2, <1>3, <2>1 DEF CountingOf, Still, RingFacts
  <2>3. \A p \in live : pc'[p] = "kccw" => pc[p] = "kccw"
    BY <1>2 DEF Still
  <2> QED BY <1>2, <1>7, <2>1, <2>2, <2>3 DEF CountingOf, Still
<1>15. Seeking'
  <2> SUFFICES ASSUME NEW o \in live, pc'[o] = "kwalk" PROVE SeekingOf(o)'
    BY <1>2 DEF Seeking, SeekingOf
  <2>1. Still(o) /\ SeekingOf(o) /\ pc[o] = "kwalk"
    BY <1>2 DEF Still, Family, Seeking
  <2> QED BY <1>2, <1>7, <2>1 DEF SeekingOf, Behind, Still
<1> QED BY <1>10, <1>11, <1>12, <1>13, <1>14, <1>15 DEF Family

(* A task becomes a ZOMBIE when nobody has a slot for it any more.         *)
LEMMA ZombieFamily ==
  ASSUME Typed, Core, Pids, Family, KillZombie
  PROVE  Family'
<1>1. RingFacts
  BY RingFactsHold
<1>2. /\ pc[self] = "zombie" /\ pc'[self] = "int" /\ state'[self] = "ZOMBIE"
      /\ \A o \in live \ {self} : Still(o) /\ state'[o] = state[o]
      /\ UNCHANGED <<next, pid, parent_pid, child_count, children, live, new>>
  BY <1>1 DEF RingFacts, KillZombie, Goto, links, ids, family, Typed, TypeOK, Still
<1>3. Linked' = Linked
  BY <1>1, <1>2, QuietKeepsRing DEF KillZombie, links, Outside, RingFacts, Still, self
<1>4. Numbered' = Numbered
  BY <1>1, <1>2, NumberedKept DEF RingFacts, KillZombie
<1>5. \A t \in Linked : pid[self] \notin children[t]
  BY <1>1, <1>2 DEF RingFacts, Family, Holding
<1>6. Elders'
  BY <1>2, <1>3, <1>4 DEF Family, Elders
<1>7. Slots'
  <2>1. \A t \in Linked : \A c \in children[t] : \E x \in Numbered :
          pid[x] = c /\ parent_pid[x] = pid[t] /\ state'[x] # "ZOMBIE"
    BY <1>1, <1>2, <1>5 DEF RingFacts, Family, Slots, ChildOf
  <2>2. OthersStay /\ \A t \in Linked : t \in live'
    BY <1>1, <1>2 DEF OthersStay, Still, RingFacts
  <2>3. ASSUME NEW t \in Linked PROVE Claimed(t)' = Claimed(t)
    BY <1>2, <2>2, ClaimsStay
  <2> QED BY <1>2, <1>3, <1>4, <2>1, <2>3 DEF Family, Slots, Counted, ChildOf
<1>8. Born'
  <2> SUFFICES ASSUME NEW o \in live, Parented(o)'
               PROVE  /\ Parented(o) /\ pc'[o] = pc[o] /\ new'[o] = new[o]
                      /\ state'[new[o]] = state[new[o]]
    BY <1>2 DEF Born, Family
  <2>1. Parented(o) /\ pc'[o] = pc[o]
    BY <1>2 DEF Still, Parented, Unlinked
  <2> QED BY <1>1, <1>2, <2>1, ParentedFacts DEF RingFacts
<1>9. Holding'
  <2>1. \A x \in Linked : ~Gone(x)' => x # self /\ ~Gone(x)
    BY <1>1, <1>2 DEF RingFacts, Still, Gone
  <2>2. \A x \in live' : pc'[x] = "zombie" => pc[x] = "zombie"
    BY <1>2 DEF Still
  <2>3. \A x \in live' : pc'[x] = "int" => state'[x] = "ZOMBIE"
    BY <1>2 DEF Still, Family, Holding
  <2> QED BY <1>2, <1>3, <2>1, <2>2, <2>3 DEF Family, Holding
<1>10. Counting'
  <2> SUFFICES ASSUME NEW o \in live, pc'[o] \in {"ccw", "kccr", "kccw", "kslot"} PROVE CountingOf(o)'
    BY <1>2 DEF Counting, CountingOf
  <2>1. o # self /\ Still(o) /\ CountingOf(o)
    BY <1>2 DEF Still, Family, Counting
  <2>2. pc[o] = "kccw" => reg[o] \in live /\ pc'[reg[o]] # "ccw"
    BY <1>1, <1>2, <2>1 DEF CountingOf, Still, RingFacts
  <2>3. \A p \in live : pc'[p] = "kccw" => pc[p] = "kccw" /\ reg'[p] = reg[p]
    BY <1>2 DEF Still
  <2> QED BY <1>2, <1>3, <2>1, <2>2, <2>3 DEF CountingOf, Still
<1>11. Seeking'
  <2> SUFFICES ASSUME NEW o \in live, pc'[o] = "kwalk" PROVE SeekingOf(o)'
    BY <1>2 DEF Seeking, SeekingOf
  <2>1. Still(o) /\ SeekingOf(o) /\ pc[o] = "kwalk"
    BY <1>2 DEF Still, Family, Seeking
  <2> QED BY <1>2, <1>3, <2>1 DEF SeekingOf, Behind, Still
<1> QED BY <1>6, <1>7, <1>8, <1>9, <1>10, <1>11 DEF Family

(* The reaper takes a ZOMBIE out of the ring that no walk has reached.     *)
LEMMA ReapFamily ==
  ASSUME Typed, Core, Pids, Family, ReapFree, raced' = {}
  PROVE  Family'
<1> DEFINE z == reg[self]
<1>1. RingFacts
  BY RingFactsHold
<1>2. /\ pc[self] = "rcli" /\ pc'[self] = "rscan" /\ live' = live \ {z}
      /\ \A o \in live \ {self} : pc'[o] = pc[o] /\ new'[o] = new[o] /\ reg'[o] = reg[o]
                              /\ val'[o] = val[o]
      /\ UNCHANGED <<pid, parent_pid, child_count, children, new, state>>
  BY <1>1 DEF RingFacts, ReapFree, Goto, ids, family, Typed, TypeOK
<1>3. /\ z \in Linked /\ state[z] = "ZOMBIE" /\ z # Kernel /\ pc[z] \in {"int", "loop"} /\ z # self
      /\ z \in Tcb
  <2>1. z \in Linked /\ state[z] = "ZOMBIE"
    BY <1>1, <1>2 DEF RingFacts, Ring, Threads, Dead
  <2> QED BY <1>1, <1>2, <2>1 DEF RingFacts, Dead
<1>4. Linked' = Linked \ {z}
  BY <1>1, ReapKeepsRing DEF RingFacts, RingSafe
<1>5. Numbered' = Numbered \ {z}
  BY <1>1, <1>2, <1>3 DEF RingFacts, Numbered
<1>6. \A o \in live \ {self} : pc[o] \in Walking => reg[o] # z
  BY DEF ReapFree, Others
<1>7. /\ prev[z] \in Linked /\ next[prev[z]] = z
      /\ next'[prev[z]] = next[z] /\ \A x \in Tcb \ {prev[z]} : next'[x] = next[x]
  <2>1. prev[z] \in Linked /\ next[prev[z]] = z
    BY <1>1, <1>3 DEF RingFacts, Ring, WellLinked, head_task
  <2>2. next' = [next EXCEPT ![prev[z]] = next[z]]
    BY <1>3 DEF ReapFree, Typed, TypeOK
  <2> QED BY <1>1, <2>1, <2>2 DEF RingFacts, Typed, TypeOK
<1> HIDE DEF z
<1>8. Elders'
  <2>1. \A x \in live : pid[x] = pid[z] /\ x \in Numbered => x = z
    BY <1>1, <1>3 DEF RingFacts, Pids
  <2> QED BY <1>1, <1>2, <1>4, <1>5 DEF Family, Elders
<1>9. Slots'
  <2>1. OthersStay
    BY <1>1, <1>2, <1>3 DEF OthersStay, RingFacts
  <2>2. ASSUME NEW t \in Linked' PROVE Claimed(t)' = Claimed(t)
    <3>1. t \in Linked /\ t \in live'
      BY <1>1, <1>2, <1>4 DEF RingFacts
    <3> QED BY <1>2, <2>1, <3>1, ClaimsStay
  <2> QED BY <1>2, <1>3, <1>4, <1>5, <2>2 DEF Family, Slots, Counted, ChildOf
<1>10. Born'
  <2> SUFFICES ASSUME NEW o \in live', Parented(o)'
               PROVE  Parented(o) /\ o \in live /\ pc'[o] = pc[o] /\ new'[o] = new[o]
    BY <1>2 DEF Born, Family
  <2> QED BY <1>2 DEF Parented, Unlinked
<1>11. Holding'
  <2>1. \A x \in Linked' : ~Gone(x)' => ~Gone(x)
    BY <1>1, <1>2, <1>4 DEF RingFacts, Gone
  <2>2. \A x \in live' : x \in live /\ (pc'[x] \in {"zombie", "int"} => pc[x] = pc'[x])
    BY <1>2
  <2> QED BY <1>2, <1>4, <2>1, <2>2 DEF Family, Holding
<1>12. Counting'
  <2> SUFFICES ASSUME NEW o \in live', pc'[o] \in {"ccw", "kccr", "kccw", "kslot"} PROVE CountingOf(o)'
    BY DEF Counting, CountingOf
  <2>1. o \in live \ {self} /\ pc'[o] = pc[o] /\ reg'[o] = reg[o] /\ val'[o] = val[o] /\ CountingOf(o)
    BY <1>2 DEF Family, Counting
  <2>2. pc[o] \in {"kccr", "kccw", "kslot"} => reg[o] \in Linked'
    BY <1>4, <1>6, <2>1 DEF CountingOf, Walking
  <2>3. pc[o] = "kccw" => reg[o] \in live /\ pc'[reg[o]] # "ccw"
    BY <1>1, <1>2, <2>1 DEF CountingOf, RingFacts
  <2>4. \A p \in live' : pc'[p] = "kccw" => p \in live /\ pc[p] = "kccw" /\ reg'[p] = reg[p]
    BY <1>2
  <2> QED BY <1>2, <2>1, <2>2, <2>3, <2>4 DEF CountingOf
<1>13. Seeking'
  <2> SUFFICES ASSUME NEW o \in live', pc'[o] = "kwalk" PROVE SeekingOf(o)'
    BY DEF Seeking, SeekingOf
  <2>1. /\ o \in live \ {self} /\ pc[o] = "kwalk" /\ reg'[o] = reg[o] /\ SeekingOf(o)
        /\ o # z /\ reg[o] # z /\ reg[o] \in Linked
    BY <1>2, <1>3, <1>6 DEF Family, Seeking, SeekingOf, Walking
  <2>2. ASSUME NEW t \in Linked' \ {o}, pid[t] = parent_pid[o], NEW S \in SUBSET Linked', t \in S,
               \A x \in Linked' \ {o} : next'[x] \in S => x \in S
        PROVE  reg[o] \in S
    <3> DEFINE T == IF next[z] \in S THEN S \cup {z} ELSE S
    <3>1. t \in Linked \ {o} /\ t \in T /\ T \in SUBSET Linked
      BY <1>3, <1>4, <2>2
    <3>2. Behind(o, T)
      <4> SUFFICES ASSUME NEW x \in Linked \ {o}, next[x] \in T PROVE x \in T
        BY DEF Behind
      <4>0. x \in Tcb
        BY <1>1 DEF RingFacts
      <4>1. CASE x = z
        <5>1. next[z] \in S
          BY <4>1, <1>4, <2>2
        <5> QED BY <4>1, <5>1
      <4>2. CASE x # z /\ next[x] = z
        <5>1. x = prev[z]
          BY <1>1, <1>7, <4>2, NextInjective DEF RingFacts
        <5>2. next[z] \in S
          BY <4>2, <1>4, <2>2
        <5> QED BY <1>4, <1>7, <2>2, <4>2, <5>1, <5>2
      <4>3. CASE x # z /\ next[x] # z
        <5>1. next'[x] = next[x] /\ next[x] \in S
          BY <1>7, <4>0, <4>3
        <5> QED BY <1>4, <2>2, <4>3, <5>1
      <4> QED BY <4>1, <4>2, <4>3
    <3>3. reg[o] \in T
      BY <2>1, <2>2, <3>1, <3>2 DEF SeekingOf
    <3> QED BY <2>1, <3>3
  <2>3. reg[o] \in Linked'
    BY <1>4, <2>1
  <2> QED BY <1>2, <2>1, <2>2, <2>3 DEF SeekingOf, Behind
<1> QED BY <1>8, <1>9, <1>10, <1>11, <1>12, <1>13 DEF Family

-----------------------------------------------------------------------------
LEMMA FamilyStep ==
  ASSUME Typed, Core, Pids, Family, raced' = {}, [Next]_vars
  PROVE  Family'
<1>1. CASE UNCHANGED vars
  <2>1. \A t : Claimed(t)' = Claimed(t)
    BY <1>1 DEF vars, Claimed, Filling, Clearing
  <2>2. Slots'
    BY <1>1, <2>1 DEF vars, Family, Slots, Counted, ChildOf, Linked, Numbered
  <2>3. Elders' /\ Born' /\ Holding' /\ Counting' /\ Seeking'
    BY <1>1 DEF vars, Family, Elders, Born, Parented, Holding, Gone, Counting, CountingOf, Seeking,
       SeekingOf, Behind, Linked, Numbered
  <2> QED BY <2>2, <2>3 DEF Family
<1>2. CASE Tick \/ KillYield
  <2>1. /\ Schedule /\ UNCHANGED <<links, ids, family, live, locals>>
        /\ pc' = pc \/ Goto("int", "loop")
    BY <1>2 DEF Tick, KillYield
  <2> QED BY <2>1, ScheduleFamily
<1>3. CASE Spawn
  BY <1>3, AllocFamily, QuietSpawn, QuietLink, FillFamily, RefuseFamily, CountFamily, SlotFamily,
     LinkNextFamily
  DEF Spawn
<1>4. CASE Kill /\ ~KillYield
  BY <1>4, QuietKill, UncountFamily, ClearFamily, ZombieFamily DEF Kill
<1>5. CASE Reap
  BY <1>5, ScanFamily, ReapFamily DEF Reap
<1> QED BY <1>1, <1>2, <1>3, <1>4, <1>5 DEF Next, Step

(* kernel_main makes the three boot tasks children of the boot context.    *)
LEMMA FamilyInit == Init => Family
<1> SUFFICES ASSUME Init PROVE Family
  OBVIOUS
<1>1. /\ Linked = Boot /\ Numbered = Boot /\ live = Boot
      /\ \A x \in Boot : pc[x] \in {"idle", "loop", "rscan"} /\ state[x] = "READY"
  BY TcbAssumption DEF Init, Linked, Numbered, Boot, Unlinked
<1>2. /\ pid[Kernel] = 0 /\ pid[Reaper] = 1 /\ pid[MemInsp] = 2 /\ pid[Launcher] = 3
      /\ \A x \in Boot : parent_pid[x] = 0
      /\ child_count[Kernel] = 3 /\ children[Kernel] = 1 .. 3
      /\ \A x \in Boot \ {Kernel} : child_count[x] = 0 /\ children[x] = {}
  BY TcbAssumption DEF Init, Boot
<1>3. Elders
  BY <1>1, <1>2 DEF Elders, Boot
<1>4. Slots
  <2>0. \A x \in Boot : Claimed(x) = children[x]
    BY <1>1 DEF Claimed, Filling, Clearing
  <2>1. \A x \in Boot \ {Kernel} : Counted(x)
    BY <1>2, <2>0, FS_EmptySet DEF Counted
  <2>2. Counted(Kernel)
    <3>1. IsFiniteSet(1 .. 3) /\ Cardinality(1 .. 3) = IF 1 > 3 THEN 0 ELSE 3 - 1 + 1
      <4>1. 1 \in Int /\ 3 \in Int
        OBVIOUS
      <4> QED BY <4>1, FS_Interval, Zenon
    <3>2. Cardinality(1 .. 3) = 3
      BY <3>1
    <3> QED BY <1>2, <2>0, <3>1, <3>2 DEF Counted, Boot
  <2>3. \A c \in 1 .. 3 : \E x \in Boot : pid[x] = c
    BY <1>2 DEF Boot
  <2> QED BY <1>1, <1>2, <2>1, <2>2, <2>3 DEF Slots, ChildOf
<1>5. Born
  BY <1>1 DEF Born, Parented, Unlinked
<1>6. Holding
  BY <1>1, <1>2 DEF Holding, Boot
<1>7. Counting /\ Seeking
  BY <1>1 DEF Counting, CountingOf, Seeking, SeekingOf
<1> QED BY <1>3, <1>4, <1>5, <1>6, <1>7 DEF Family

LEMMA RacedGrows == [Next]_vars => raced \subseteq raced'
  BY DEF Next, vars, Tick, Step, Spawn, Kill, Reap, Race, SpawnAlloc, SpawnReadPid, SpawnFill,
     SpawnAdmit, SpawnRefuse, SpawnReadCount, SpawnCount, SpawnSlot, SpawnAim, SpawnReadTail,
     SpawnLinkNext, SpawnLinkPrev, SpawnLinkTail, BlockWalk, BlockSet, AwakeParent,
     KillStart, KillWalk, KillNoParent, KillAwake, KillReadCount, KillUncount, KillSlot,
     KillZombie, KillYield, ReapScan, ReapFree

(* What the parents and the children know about each other, with the loads *)
(* and walks that are under way, is an invariant for any number of tasks.  *)
THEOREM FamilyInvariance == Spec => []FamilyInv
<1>1. Init => FamilyInv
  BY FamilyInit, PidsInit DEF FamilyInv
<1>2. IInv /\ FamilyInv /\ [Next]_vars => FamilyInv'
  <2> SUFFICES ASSUME IInv, FamilyInv, [Next]_vars, raced' = {}
               PROVE  Pids' /\ Family'
    BY DEF FamilyInv
  <2>1. raced = {}
    BY RacedGrows
  <2>2. Typed /\ Core /\ Pids /\ Family
    BY <2>1 DEF IInv, Typed, RingSafe, FamilyInv
  <2> QED BY <2>2, PidsStep, FamilyStep
<1> QED BY <1>1, <1>2, Invariance, PTL DEF Spec

(* child_count is the number of slots of children in use, up to the tasks  *)
(* that are between their store into the one and into the other, and every *)
(* slot holds a child that is alive, whatever spawns and exits overlap,    *)
(* for any number of tasks and any limit of children, as long as no race   *)
(* happens.                                                                *)
THEOREM ChildrenAgree == Spec => []FamilyAgrees
<1>1. FamilyInv => FamilyAgrees
  BY DEF FamilyInv, FamilyAgrees, Family, Slots, Counted, ChildOf, Numbered
<1> QED BY <1>1, FamilyInvariance, PTL

(* What a step may do to a task in the ring, other than link it.           *)
Leaving == {"kccr", "kccw", "kslot", "zombie", "int"}
Unharmed(x) ==
    /\ x \in Linked' \/ (ReapFree /\ x = reg[self])
    /\ pid'[x] = pid[x] /\ parent_pid'[x] = parent_pid[x]
    /\ state'[x] = "ZOMBIE" => state[x] = "ZOMBIE" \/ (pc[self] = "zombie" /\ x = self)
    /\ pc'[x] \in Leaving /\ pc[x] \notin Leaving =>
         x = self /\ (KillNoParent \/ KillAwake)

LEMMA SpawnUnharmed ==
  ASSUME Typed, RingFacts, Spawn, NEW x \in Linked
  PROVE  Unharmed(x)
<1>1. /\ x \in live /\ x \in Tcb /\ self \in live /\ self \in Tcb /\ live \subseteq Tcb
      /\ \A o \in live : ~(pc[o] \in Unlinked /\ new[o] = x)
      /\ \A o \in live : pc[o] \in Unlinked => new[o] \in live /\ pc[o] # "loop"
  BY DEF RingFacts, Linked, Ring, Owners, Owner, Unlinked
<1>2. TypeOK
  BY DEF Typed
<1> USE DEF Unharmed, Leaving, Linked, Goto, links, ids, family, locals
<1>3. ASSUME NEW p \in Programs, NEW a \in Tcb, SpawnAlloc(p, a) PROVE Unharmed(x)
  BY <1>1, <1>2, <1>3 DEF SpawnAlloc, TypeOK, Unlinked
<1>4. CASE SpawnReadPid
  BY <1>1, <1>2, <1>4 DEF SpawnReadPid, TypeOK, Unlinked
<1>5. CASE SpawnFill
  BY <1>1, <1>2, <1>5 DEF SpawnFill, TypeOK, Unlinked
<1>6. CASE SpawnAdmit
  BY <1>1, <1>2, <1>6 DEF SpawnAdmit, TypeOK, Unlinked
<1>7. CASE SpawnRefuse
  BY <1>1, <1>2, <1>7 DEF SpawnRefuse, TypeOK, Unlinked
<1>8. CASE SpawnReadCount
  BY <1>1, <1>2, <1>8 DEF SpawnReadCount, TypeOK, Unlinked
<1>9. CASE SpawnCount
  BY <1>1, <1>2, <1>9 DEF SpawnCount, TypeOK, Unlinked
<1>17. CASE SpawnSlot
  BY <1>1, <1>2, <1>17 DEF SpawnSlot, TypeOK, Unlinked
<1>10. CASE SpawnAim
  BY <1>1, <1>2, <1>10 DEF SpawnAim, TypeOK, Unlinked
<1>11. CASE SpawnReadTail
  BY <1>1, <1>2, <1>11 DEF SpawnReadTail, TypeOK, Unlinked
<1>12. CASE SpawnLinkNext
  BY <1>1, <1>2, <1>12 DEF SpawnLinkNext, TypeOK, Unlinked
<1>13. CASE SpawnLinkPrev
  BY <1>1, <1>2, <1>13 DEF SpawnLinkPrev, TypeOK, Unlinked
<1>14. CASE SpawnLinkTail
  BY <1>1, <1>2, <1>14 DEF SpawnLinkTail, TypeOK, Unlinked
<1>15. CASE BlockWalk
  BY <1>1, <1>2, <1>15 DEF BlockWalk, TypeOK, Unlinked
<1>16. CASE BlockSet
  BY <1>1, <1>2, <1>16 DEF BlockSet, TypeOK, Unlinked
<1> QED BY <1>3, <1>4, <1>5, <1>6, <1>7, <1>8, <1>9, <1>10, <1>11, <1>12, <1>13, <1>14, <1>15,
           <1>16, <1>17 DEF Spawn

LEMMA KillUnharmed ==
  ASSUME Typed, RingFacts, Kill, ~KillYield, NEW x \in Linked
  PROVE  Unharmed(x)
<1>1. /\ x \in live /\ x \in Tcb /\ self \in live /\ self \in Tcb /\ live \subseteq Tcb
      /\ \A o \in live : ~(pc[o] \in Unlinked /\ new[o] = x)
  BY DEF RingFacts, Linked
<1>2. TypeOK
  BY DEF Typed
<1> USE DEF Unharmed, Leaving, Linked, Goto, links, ids, family, locals
<1>3. CASE AwakeParent
  BY <1>1, <1>2, <1>3 DEF AwakeParent, TypeOK, Unlinked
<1>4. CASE KillStart
  BY <1>1, <1>2, <1>4 DEF KillStart, TypeOK, Unlinked
<1>5. CASE KillWalk
  BY <1>1, <1>2, <1>5 DEF KillWalk, TypeOK, Unlinked
<1>6. CASE KillNoParent
  BY <1>1, <1>2, <1>6 DEF KillNoParent, TypeOK, Unlinked
<1>7. CASE KillAwake
  BY <1>1, <1>2, <1>7 DEF KillAwake, TypeOK, Unlinked
<1>8. CASE KillReadCount
  BY <1>1, <1>2, <1>8 DEF KillReadCount, TypeOK, Unlinked
<1>9. CASE KillUncount
  BY <1>1, <1>2, <1>9 DEF KillUncount, TypeOK, Unlinked
<1>10. CASE KillZombie
  BY <1>1, <1>2, <1>10 DEF KillZombie, TypeOK, Unlinked
<1>11. CASE KillSlot
  BY <1>1, <1>2, <1>11 DEF KillSlot, TypeOK, Unlinked
<1> QED BY <1>3, <1>4, <1>5, <1>6, <1>7, <1>8, <1>9, <1>10, <1>11 DEF Kill

LEMMA OtherUnharmed ==
  ASSUME Typed, Core, RingFacts, Tick \/ KillYield \/ Reap, NEW x \in Linked
  PROVE  Unharmed(x)
<1>1. /\ x \in live /\ x \in Tcb /\ self \in live /\ self \in Tcb /\ live \subseteq Tcb
      /\ \A o \in live : ~(pc[o] \in Unlinked /\ new[o] = x)
  BY DEF RingFacts, Linked
<1>2. TypeOK
  BY DEF Typed
<1> USE DEF Unharmed, Leaving, Linked, Goto, links, ids, family, locals
<1>3. CASE Tick \/ KillYield
  <2>1. Schedule
    BY <1>3 DEF Tick, KillYield
  <2>2. state'[x] = "ZOMBIE" => state[x] = "ZOMBIE"
    BY <1>1, <1>2, <2>1, ScheduleFinds DEF Core
  <2> QED BY <1>1, <1>2, <1>3, <2>2 DEF Tick, KillYield, TypeOK, Unlinked
<1>4. CASE ReapScan
  BY <1>1, <1>2, <1>4 DEF ReapScan, TypeOK, Unlinked
<1>5. CASE ReapFree
  BY <1>1, <1>2, <1>5 DEF ReapFree, TypeOK, Unlinked
<1> QED BY <1>3, <1>4, <1>5 DEF Reap

(* A child stays one that will wake its parent until it has woken it: the  *)
(* only step that ends this makes the parent READY.                        *)
LEMMA WakerStays ==
  ASSUME Typed, Core, Pids, Family, raced' = {}, Next,
         NEW t \in Linked, NEW c \in Wakers(t), t \in Linked', state'[t] = "BLOCKED"
  PROVE  c \in Wakers(t)'
<1>1. RingFacts
  BY RingFactsHold
<1>2. /\ c \in Linked /\ c # t /\ parent_pid[c] = pid[t] /\ state[c] # "ZOMBIE"
      /\ pc[c] \notin Leaving
  BY DEF Wakers, Leaving
<1>3. c \in Tcb /\ c \in live /\ t \in Tcb /\ t \in live /\ c \in Numbered /\ t \in Numbered
  BY <1>1, <1>2 DEF RingFacts
<1>4. Unharmed(c) /\ Unharmed(t)
  BY <1>1, <1>2, SpawnUnharmed, KillUnharmed, OtherUnharmed DEF Next, Step
<1>5. c \in Linked'
  <2>1. ReapFree => state[reg[self]] = "ZOMBIE"
    BY <1>1 DEF RingFacts, Ring, Threads, Dead, ReapFree, Goto
  <2> QED BY <1>2, <1>4, <2>1 DEF Unharmed
<1>6. state'[c] # "ZOMBIE"
  BY <1>2, <1>4 DEF Unharmed, Leaving
<1>7. ASSUME c = self, KillNoParent PROVE FALSE
  BY <1>2, <1>7, SeekEnds DEF KillNoParent, Goto
<1>8. ASSUME c = self, KillAwake PROVE FALSE
  <2>1. reg[self] \in Linked /\ pid[reg[self]] = parent_pid[self]
    BY <1>3, <1>8 DEF KillAwake, Goto, Family, Seeking, SeekingOf
  <2>2. reg[self] = t
    BY <1>1, <1>2, <1>3, <1>8, <2>1 DEF RingFacts, Pids
  <2> QED BY <1>3, <1>8, <2>2 DEF KillAwake, Typed, TypeOK
<1>9. pc'[c] \notin Leaving
  BY <1>2, <1>4, <1>7, <1>8 DEF Unharmed
<1> QED BY <1>2, <1>4, <1>5, <1>6, <1>9 DEF Wakers, Unharmed, Leaving

(* A child that exits never strands its BLOCKED parent, for any number of  *)
(* tasks, as long as no race happens.                                      *)
THEOREM NobodyStranded == Spec => WakerKept
<1>1. IInv /\ FamilyInv /\ [Next]_vars =>
        [raced' = {} => \A t \in Linked :
           state[t] = "BLOCKED" /\ Wakers(t) # {} =>
             t \notin Linked' \/ state'[t] # "BLOCKED" \/ Wakers(t)' # {}]_vars
  <2> SUFFICES ASSUME IInv, FamilyInv, Next, raced' = {}, NEW t \in Linked,
                      Wakers(t) # {}, t \in Linked', state'[t] = "BLOCKED"
               PROVE  Wakers(t)' # {}
    OBVIOUS
  <2>1. raced = {}
    BY RacedGrows
  <2>2. Typed /\ Core /\ Pids /\ Family
    BY <2>1 DEF IInv, Typed, RingSafe, FamilyInv
  <2> QED BY <2>2, WakerStays
<1> QED BY <1>1, Invariance, FamilyInvariance, PTL DEF Spec, WakerKept
=============================================================================
