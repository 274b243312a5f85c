-------------------------- MODULE HeapCallsProofs --------------------------
(***************************************************************************)
(* The blocks of HeapCalls tile the heap whenever no call is in progress,  *)
(* and what is given out never overlaps, for every set of tasks, whatever  *)
(* heap calls they make and wherever they are preempted, until one of the  *)
(* named races happens.                                                    *)
(*                                                                         *)
(* The first lemmas speak of headers h that are laid out over blocks B.    *)
(* Then come the headers as View has them: a store of a call changes them  *)
(* in the blocks that the call is at work on and nowhere else, and in most *)
(* cases not at all.  So the other calls go on knowing what they know,     *)
(* since no two of them are at work on one block.  Last comes reaper,      *)
(* which does a whole my_free at once.                                     *)
(***************************************************************************)
EXTENDS HeapProofs, HeapCallsInv

(* The code finds the blocks of a tiling, over the next of any headers     *)
(* that agree with it.                                                     *)
LEMMA BlocksAre ==
    ASSUME NEW h, NEW w, NEW current, NEW B, IsTiling(w, current, B), Sized(w, B),
           B \subseteq DOMAIN h, IsFiniteSet(DOMAIN h), \A b \in B : h[b].next = w[b].next
    PROVE  BlocksOf(h) = B
<1> DEFINE c == Chain(h, heap_start)
           d == Chain(w, heap_start)
           T == {k \in Nat : c[k] = d[k]}
<1>1. heap_start \in B /\ Closed(h, B) /\ Closed(w, B)
  BY DEF IsTiling, Closed
<1>2. /\ c[0] = heap_start /\ \A k \in Nat : c[k + 1] = h[c[k]].next
      /\ d[0] = heap_start /\ \A k \in Nat : d[k + 1] = w[d[k]].next
  BY <1>1, Unroll
<1>3. \A k \in Nat : c[k] \in B /\ d[k] \in B
  BY <1>1, StaysIn
<1> HIDE DEF c, d
<1>4. 0 \in T /\ \A k \in Nat : k \in T => k + 1 \in T
  BY <1>2, <1>3
<1>5. Nat \subseteq T
  <2> HIDE DEF T
  <2> QED BY <1>4, Induct
<1>6. \A k \in Nat : c[k] = d[k]
  BY <1>5
<1>7. IsFiniteSet(B) /\ Cardinality(DOMAIN h) \in Nat
  BY FS_Subset, FS_CardinalityType
<1>8. BlocksOf(h) \subseteq B
  <2>1. \A k \in 0 .. Cardinality(DOMAIN h) : k \in Nat
    BY <1>7
  <2> QED BY <1>3, <2>1 DEF BlocksOf, c
<1>9. ASSUME NEW b \in B PROVE b \in BlocksOf(h)
  <2>1. Below(B, b) \subseteq DOMAIN h /\ Below(B, b) \subseteq B
    BY DEF Below
  <2>2. Cardinality(Below(B, b)) \in Nat
    BY <2>1, FS_Subset, FS_CardinalityType
  <2>3. Cardinality(Below(B, b)) <= Cardinality(DOMAIN h)
    BY <2>1, FS_Subset
  <2>4. Cardinality(Below(B, b)) \in 0 .. Cardinality(DOMAIN h)
    BY <1>7, <2>2, <2>3
  <2>5. d[Cardinality(Below(B, b))] = b
    BY <1>7, TilingReached DEF d
  <2>6. c[Cardinality(Below(B, b))] = b
    BY <1>6, <2>2, <2>5
  <2> QED BY <2>4, <2>6 DEF BlocksOf, c
<1> QED BY <1>8, <1>9

-----------------------------------------------------------------------------
(* The stores of a call, on headers that are laid out.                     *)
LEMMA LaidHas ==
    ASSUME NEW h, NEW current, NEW B, NEW given, Laid(h, current, B, given)
    PROVE  /\ DOMAIN h \subseteq Nat /\ B \subseteq DOMAIN h /\ heap_start \in B /\ current \in Nat
           /\ \A a \in DOMAIN h : /\ a \in Nat /\ h[a] \in Header /\ h[a].size \in Nat /\ h[a].next \in Nat
                                  /\ h[a].free \in BOOLEAN
           /\ \A b \in B : h[b].next \in B
           /\ IsTiling(h, current, B) /\ Sized(h, B) /\ BlocksOf(h) = B
<1>1. /\ DOMAIN h \subseteq Nat /\ B \subseteq DOMAIN h /\ heap_start \in B /\ current \in Nat
      /\ IsTiling(h, current, B) /\ IsFiniteSet(DOMAIN h) /\ h \in [DOMAIN h -> Header]
  BY DEF Laid, Headers, IsTiling
<1>2. \A a \in DOMAIN h : /\ a \in Nat /\ h[a] \in Header /\ h[a].size \in Nat /\ h[a].next \in Nat
                          /\ h[a].free \in BOOLEAN
  BY <1>1 DEF Header
<1>3. Sized(h, B)
  BY <1>1, <1>2 DEF Sized
<1>4. BlocksOf(h) = B
  BY <1>1, <1>3, BlocksAreTiling
<1> QED BY <1>1, <1>2, <1>3, <1>4 DEF IsTiling

(* What is inside a block is no block.                                     *)
LEMMA Inside ==
    ASSUME NEW h, NEW current, NEW B, NEW given, Laid(h, current, B, given),
           NEW a \in B, NEW x \in Nat, a < x, x < End(h, a)
    PROVE  x \notin B
<1>1. IsTiling(h, current, B) /\ Sized(h, B)
  BY LaidHas
<1>2. x \in B => End(h, a) <= x
  BY <1>1 DEF IsTiling
<1>3. End(h, a) \in Nat
  BY <1>1 DEF Sized, End
<1> QED BY <1>2, <1>3

(* The last block is one.                                                  *)
LEMMA LastIsOne ==
    ASSUME NEW h, NEW current, NEW B, NEW given, Laid(h, current, B, given), NEW a \in B, NEW b \in B,
           h[a].next = heap_start, h[b].next = heap_start
    PROVE  a = b
<1>1. IsTiling(h, current, B) /\ Sized(h, B)
  BY LaidHas
<1>2. End(h, a) = current /\ End(h, b) = current
  BY <1>1 DEF IsTiling, Reaches
<1>3. (a < b => End(h, a) <= b) /\ (b < a => End(h, b) <= a)
  BY <1>1 DEF IsTiling
<1>4. a \in Nat /\ b \in Nat /\ h[a].size \in Nat /\ h[b].size \in Nat
  BY <1>1 DEF Sized
<1> QED BY <1>2, <1>3, <1>4 DEF End

(* A block that is not the last goes as far as its next.                   *)
LEMMA AsFar ==
    ASSUME NEW h, NEW current, NEW B, NEW given, Laid(h, current, B, given), NEW a \in B,
           h[a].next # heap_start
    PROVE  h[a].size = h[a].next - a - 1 /\ a < h[a].next
<1>1. IsTiling(h, current, B) /\ Sized(h, B)
  BY LaidHas
<1>2. End(h, a) = h[a].next /\ a \in Nat /\ h[a].size \in Nat
  BY <1>1 DEF IsTiling, Reaches, Sized
<1> QED BY <1>2 DEF End

LEMMA SameLaid ==
    ASSUME NEW h, NEW current, NEW B, NEW given, Laid(h, current, B, given),
           NEW g, Headers(g), B \subseteq DOMAIN g, \A b \in B : Same(h, g, b)
    PROVE  Laid(g, current, B, given)
<1>1. IsTiling(h, current, B) /\ GivenOut(h, B, given) /\ current \in Nat
  BY DEF Laid
<1>2. IsTiling(g, current, B)
  BY <1>1, Freeing DEF Same
<1>3. GivenOut(g, B, given)
  BY <1>1 DEF GivenOut, Same
<1> QED BY <1>1, <1>2, <1>3 DEF Laid

(* A block is split and given out.                                         *)
Takes(h, g, B, a, size, new) ==
    /\ a \in B /\ h[a].free /\ size \in Nat /\ h[a].size >= size + 1 /\ new = a + 1 + size
    /\ g[a].size = size /\ g[a].next = new /\ ~g[a].free
    /\ g[new].size = h[a].size - size - 1 /\ g[new].next = h[a].next /\ g[new].free
    /\ \A b \in B \ {a} : Same(h, g, b)

LEMMA TakeLaid ==
    ASSUME NEW h, NEW current, NEW B, NEW given, Laid(h, current, B, given),
           NEW g, Headers(g), NEW new, B \cup {new} \subseteq DOMAIN g,
           NEW a, NEW size, Takes(h, g, B, a, size, new), NEW m, m.addr = a + 1, m.size = size
    PROVE  Laid(g, current, B \cup {new}, given \cup {m})
<1>1. /\ IsTiling(h, current, B) /\ Sized(h, B) /\ current \in Nat /\ GivenOut(h, B, given)
      /\ \A b \in B : b \in Nat
  BY LaidHas DEF Laid, Sized
<1>2. IsTiling(g, current, B \cup {new}) /\ new \notin B
  BY <1>1, Splitting DEF Takes
<1>3. ASSUME NEW n \in given
      PROVE  \E b \in B \ {a} : ~h[b].free /\ n.addr = b + 1 /\ n.size = h[b].size
  BY <1>1 DEF GivenOut, Takes
<1>4. \A b \in B \ {a} : Same(h, g, b)
  BY DEF Takes
<1>5. \A n \in given : n.addr # m.addr
  BY <1>1, <1>3 DEF Takes
<1>6. \A n \in given \cup {m} : \E b \in B \cup {new} : ~g[b].free /\ n.addr = b + 1 /\ n.size = g[b].size
  BY <1>3, <1>4 DEF Takes, Same
<1>7. \A b \in B \cup {new} : ~g[b].free =>
        \E n \in given \cup {m} : n.addr = b + 1 /\ n.size = g[b].size
  BY <1>1, <1>4 DEF GivenOut, Takes, Same
<1>8. GivenOut(g, B \cup {new}, given \cup {m})
  BY <1>1, <1>5, <1>6, <1>7 DEF GivenOut
<1> QED BY <1>1, <1>2, <1>8 DEF Laid

(* A block is taken back, ...                                              *)
Freed1(h, g, B, x) ==
    /\ g[x].size = h[x].size /\ g[x].next = h[x].next /\ g[x].free
    /\ \A b \in B \ {x} : Same(h, g, b)

LEMMA MarkLaid ==
    ASSUME NEW h, NEW current, NEW B, NEW given, Laid(h, current, B, given),
           NEW g, Headers(g), B \subseteq DOMAIN g,
           NEW m \in given, NEW x, x = m.addr - 1, Freed1(h, g, B, x)
    PROVE  /\ Laid(g, current, B, given \ {m})
           /\ x \in B /\ x + 1 = m.addr /\ ~h[x].free
<1>1. /\ IsTiling(h, current, B) /\ current \in Nat /\ GivenOut(h, B, given)
      /\ \A b \in B : b \in Nat
  BY LaidHas DEF Laid, Sized
<1>2. PICK b \in B : ~h[b].free /\ m.addr = b + 1 /\ m.size = h[b].size
  BY <1>1 DEF GivenOut
<1>3. b = x
  BY <1>1, <1>2
<1>4. \A y \in B : g[y].size = h[y].size /\ g[y].next = h[y].next /\ (h[y].free => g[y].free)
  BY DEF Freed1, Same
<1>5. IsTiling(g, current, B)
  BY <1>1, <1>4, Freeing
<1>6. ASSUME NEW n \in given \ {m}
      PROVE  \E y \in B : ~g[y].free /\ n.addr = y + 1 /\ n.size = g[y].size
  <2>1. PICK y \in B : ~h[y].free /\ n.addr = y + 1 /\ n.size = h[y].size
    BY <1>1 DEF GivenOut
  <2>2. y # x
    BY <1>1, <1>2, <1>3, <2>1 DEF GivenOut
  <2> QED BY <2>1, <2>2 DEF Freed1, Same
<1>7. ASSUME NEW y \in B, ~g[y].free
      PROVE  \E n \in given \ {m} : n.addr = y + 1 /\ n.size = g[y].size
  <2>1. y # x /\ ~h[y].free /\ g[y].size = h[y].size
    BY <1>7 DEF Freed1, Same
  <2>2. PICK n \in given : n.addr = y + 1 /\ n.size = h[y].size
    BY <1>1, <2>1 DEF GivenOut
  <2>3. n # m
    BY <1>1, <1>2, <1>3, <2>1, <2>2
  <2> QED BY <2>1, <2>2, <2>3
<1>8. GivenOut(g, B, given \ {m})
  BY <1>1, <1>6, <1>7 DEF GivenOut
<1> QED BY <1>1, <1>2, <1>3, <1>5, <1>8 DEF Laid

(* ... becomes part of the one in front of it, ...                         *)
LEMMA MergeLaid ==
    ASSUME NEW h, NEW current, NEW B, NEW given, Laid(h, current, B, given),
           NEW a, NEW b, NEW g, Headers(g), B \ {b} \subseteq DOMAIN g,
           Follow(h, B, a, b), Merged(h, g, B, a, b), h[a].free, h[b].free
    PROVE  Laid(g, current, B \ {b}, given) /\ a # b
<1>1. IsTiling(h, current, B) /\ Sized(h, B) /\ current \in Nat /\ GivenOut(h, B, given)
  BY LaidHas DEF Laid
<1>2. IsTiling(g, current, B \ {b}) /\ a # b
  BY <1>1, Merging
<1>3. \A n \in given : \E y \in B \ {b} : ~g[y].free /\ n.addr = y + 1 /\ n.size = g[y].size
  <2> SUFFICES ASSUME NEW n \in given
               PROVE  \E y \in B \ {b} : ~g[y].free /\ n.addr = y + 1 /\ n.size = g[y].size
    OBVIOUS
  <2>1. PICK y \in B : ~h[y].free /\ n.addr = y + 1 /\ n.size = h[y].size
    BY <1>1 DEF GivenOut
  <2>2. y # a /\ y # b
    BY <2>1
  <2> QED BY <2>1, <2>2 DEF Merged, Same
<1>4. \A y \in B \ {b} : ~g[y].free => \E n \in given : n.addr = y + 1 /\ n.size = g[y].size
  BY <1>1 DEF GivenOut, Merged, Same
<1>5. GivenOut(g, B \ {b}, given)
  BY <1>1, <1>3, <1>4 DEF GivenOut
<1> QED BY <1>1, <1>2, <1>5 DEF Laid

(* ... and the last block grows.                                           *)
Widens(h, g, B, last, more) ==
    /\ last \in B /\ h[last].next = heap_start /\ more \in Nat
    /\ g[last].size = h[last].size + more /\ g[last].next = heap_start
    /\ g[last].free = h[last].free
    /\ \A b \in B \ {last} : Same(h, g, b)

LEMMA GrowLaid ==
    ASSUME NEW h, NEW current, NEW B, NEW given, Laid(h, current, B, given),
           NEW last, NEW more, NEW g, Headers(g), B \subseteq DOMAIN g, Widens(h, g, B, last, more)
    PROVE  Laid(g, current + more, B, given)
<1>1. IsTiling(h, current, B) /\ Sized(h, B) /\ current \in Nat /\ GivenOut(h, B, given)
  BY LaidHas DEF Laid
<1>2. h[last].free /\ g[last].free
  BY <1>1 DEF IsTiling, Widens
<1>3. IsTiling(g, current + more, B)
  BY <1>1, <1>2, Growing DEF Widens
<1>4. \A n \in given : \E y \in B : ~g[y].free /\ n.addr = y + 1 /\ n.size = g[y].size
  BY <1>1, <1>2 DEF GivenOut, Widens, Same
<1>5. \A y \in B : ~g[y].free => \E n \in given : n.addr = y + 1 /\ n.size = g[y].size
  BY <1>1, <1>2 DEF GivenOut, Widens, Same
<1>6. GivenOut(g, B, given)
  BY <1>1, <1>4, <1>5 DEF GivenOut
<1>7. current + more \in Nat
  BY <1>1 DEF Widens
<1> QED BY <1>3, <1>6, <1>7 DEF Laid

(* The first block.                                                        *)
LEMMA FirstLaid ==
    ASSUME PAGE \in Nat \ {0}, NEW x, x = [size |-> PAGE - 1, free |-> TRUE,
                                           next |-> heap_start, prev |-> heap_start],
           NEW g, g = Put(<< >>, heap_start, x)
    PROVE  Laid(g, PAGE, {heap_start}, {}) /\ g # << >>
<1>1. x \in Header /\ x.size = PAGE - 1 /\ x.free /\ x.next = 0
  BY DEF Header, heap_start
<1>2. DOMAIN g = {0} /\ g[0] = x /\ g = [y \in DOMAIN g |-> g[y]]
  BY DEF Put, heap_start
<1>3. IsFiniteSet({0})
  BY FS_Singleton
<1>4. Headers(g)
  <2>1. \A y \in DOMAIN g : g[y] \in Header
    BY <1>1, <1>2
  <2>2. DOMAIN g \in SUBSET Nat /\ IsFiniteSet(DOMAIN g)
    BY <1>2, <1>3
  <2>3. g \in [DOMAIN g -> Header]
    BY <1>2, <2>1
  <2> QED BY <2>2, <2>3 DEF Headers
<1>5. IsTiling(g, PAGE, {0})
  <2>1. End(g, 0) = PAGE
    BY <1>1, <1>2 DEF End
  <2>2. Reaches(g, PAGE, 0)
    BY <1>1, <1>2, <2>1 DEF Reaches, heap_start
  <2> QED BY <1>1, <1>2, <2>2 DEF IsTiling, heap_start
<1>6. GivenOut(g, {0}, {})
  BY <1>1, <1>2 DEF GivenOut
<1>7. g # << >>
  BY <1>2
<1> QED BY <1>2, <1>4, <1>5, <1>6, <1>7 DEF Laid, heap_start

-----------------------------------------------------------------------------
(* The scripts.                                                            *)
LEMMA Scripted ==
    ASSUME NEW t \in Task
    PROVE  /\ Len(Script[t]) \in Nat /\ DOMAIN Script[t] = 1 .. Len(Script[t])
           /\ \A k \in DOMAIN Script[t] :
                /\ Script[t][k].op \in {"malloc", "free"}
                /\ Script[t][k].op = "malloc" => Script[t][k].size \in Nat
                /\ Script[t][k].op = "free" <=> Held(Script[t], k - 1, Script[t][k].role)
<1>1. PICK s : s = Script[t]
  OBVIOUS
<1>2. s \in Seq([op : {"malloc"}, role : STRING, size : Nat] \cup [op : {"free"}, role : STRING])
  BY <1>1, ScriptAssumption
<1>3. \A k \in DOMAIN s : s[k].op = "free" <=> Held(s, k - 1, s[k].role)
  BY <1>1, ScriptAssumption
<1>4. Len(s) \in Nat /\ DOMAIN s = 1 .. Len(s)
  BY <1>2
<1>5. ASSUME NEW k \in DOMAIN s
      PROVE  s[k].op \in {"malloc", "free"} /\ (s[k].op = "malloc" => s[k].size \in Nat)
  <2>1. s[k] \in [op : {"malloc"}, role : STRING, size : Nat] \cup [op : {"free"}, role : STRING]
    BY <1>2
  <2> QED BY <2>1
<1> QED BY <1>1, <1>3, <1>4, <1>5

LEMMA HeldNone ==
    ASSUME NEW s, NEW role
    PROVE  ~Held(s, 0, role)
BY DEF Held

LEMMA HeldNext ==
    ASSUME NEW s, NEW n \in Nat, NEW role, NEW k, k = n + 1
    PROVE  Held(s, k, role) <=>
             \/ s[k].op = "malloc" /\ s[k].role = role
             \/ Held(s, n, role) /\ ~(s[k].op = "free" /\ s[k].role = role)
<1>1. ASSUME Held(s, k, role), ~(s[k].op = "malloc" /\ s[k].role = role)
      PROVE  Held(s, n, role) /\ ~(s[k].op = "free" /\ s[k].role = role)
  <2>1. PICK i \in 1 .. k : /\ s[i].op = "malloc" /\ s[i].role = role
                            /\ \A j \in i + 1 .. k : ~(s[j].op = "free" /\ s[j].role = role)
    BY <1>1 DEF Held
  <2>2. i \in 1 .. n
    BY <1>1, <2>1
  <2>3. k \in i + 1 .. k /\ \A j \in i + 1 .. n : j \in i + 1 .. k
    BY <2>2
  <2> QED BY <2>1, <2>2, <2>3 DEF Held
<1>2. ASSUME s[k].op = "malloc", s[k].role = role PROVE Held(s, k, role)
  <2>1. k \in 1 .. k /\ \A j \in k + 1 .. k : FALSE
    OBVIOUS
  <2> QED BY <1>2, <2>1 DEF Held
<1>3. ASSUME Held(s, n, role), ~(s[k].op = "free" /\ s[k].role = role) PROVE Held(s, k, role)
  <2>1. PICK i \in 1 .. n : /\ s[i].op = "malloc" /\ s[i].role = role
                            /\ \A j \in i + 1 .. n : ~(s[j].op = "free" /\ s[j].role = role)
    BY <1>3 DEF Held
  <2>2. i \in 1 .. k /\ \A j \in i + 1 .. k : j \in i + 1 .. n \/ j = k
    OBVIOUS
  <2> QED BY <1>3, <2>1, <2>2 DEF Held
<1> QED BY <1>1, <1>2, <1>3

LEMMA ScriptOfFormer ==
    /\ former \in Task /\ Len(Script[former]) >= 1 /\ Script[former][1].op = "malloc"
    /\ \A role \in {Script[former][1].role, "stack", "tcb"} :
         Held(Script[former], Len(Script[former]), role)
    /\ \A k \in DOMAIN Script[former] :
         Script[former][k].op = "free" => Script[former][k].role # Script[former][1].role
    /\ Script[former][1].role \notin {"stack", "tcb"}
<1>1. former \in Task
  BY ScriptAssumption
<1>2. \A role \in {Script[former][1].role, "stack", "tcb"} : Held(Script[former], Len(Script[former]), role)
  BY ScriptAssumption
<1>3. Len(Script[former]) \in Nat /\ DOMAIN Script[former] = 1 .. Len(Script[former])
  BY <1>1, Scripted
<1>4. Len(Script[former]) # 0
  BY <1>2, HeldNone
<1>5. Len(Script[former]) >= 1 /\ 1 \in DOMAIN Script[former]
  BY <1>3, <1>4
<1>6. Script[former][1].op # "free"
  <2>1. ~Held(Script[former], 1 - 1, Script[former][1].role)
    BY HeldNone
  <2> QED BY <1>1, <1>5, <2>1, Scripted
<1>7. Script[former][1].op = "malloc"
  BY <1>1, <1>5, <1>6, Scripted
<1> QED BY <1>1, <1>2, <1>5, <1>7, ScriptAssumption

-----------------------------------------------------------------------------
(* A step of one task.                                                     *)
Stays(u) ==
    /\ pc'[u] = pc[u] /\ done'[u] = done[u]
    /\ curr'[u] = curr[u] /\ pages'[u] = pages[u] /\ block'[u] = block[u]
Moves(t) ==
    /\ raced = {} /\ reaped' = reaped
    /\ pc' \in [Task -> Called] /\ done' \in [Task -> Nat]
    /\ {curr', pages', block'} \subseteq [Task -> Int]
    /\ \A u \in Task \ {t} : Stays(u)

Goes(t, p, d, c, n, b) ==
    /\ p \in Called /\ d \in Nat /\ {c, n, b} \subseteq Int /\ raced = {} /\ reaped' = reaped
    /\ pc' = [pc EXCEPT ![t] = p] /\ done' = [done EXCEPT ![t] = d]
    /\ curr' = [curr EXCEPT ![t] = c] /\ pages' = [pages EXCEPT ![t] = n]
    /\ block' = [block EXCEPT ![t] = b]

LEMMA MovesIs ==
    ASSUME Located, NEW t \in Task, NEW p, NEW d, NEW c, NEW n, NEW b, Goes(t, p, d, c, n, b)
    PROVE  Moves(t) /\ pc'[t] = p /\ done'[t] = d /\ curr'[t] = c /\ pages'[t] = n /\ block'[t] = b
<1> USE DEF Goes
<1>1. pc \in [Task -> Called] /\ done \in [Task -> Nat]
  BY DEF Located
<1>2. curr \in [Task -> Int] /\ pages \in [Task -> Int] /\ block \in [Task -> Int]
  BY DEF Located
<1>3. pc' \in [Task -> Called] /\ pc'[t] = p /\ \A u \in Task \ {t} : pc'[u] = pc[u]
  BY <1>1
<1>4. done' \in [Task -> Nat] /\ done'[t] = d /\ \A u \in Task \ {t} : done'[u] = done[u]
  BY <1>1
<1>5. curr' \in [Task -> Int] /\ curr'[t] = c /\ \A u \in Task \ {t} : curr'[u] = curr[u]
  BY <1>2
<1>6. pages' \in [Task -> Int] /\ pages'[t] = n /\ \A u \in Task \ {t} : pages'[u] = pages[u]
  BY <1>2
<1>7. block' \in [Task -> Int] /\ block'[t] = b /\ \A u \in Task \ {t} : block'[u] = block[u]
  BY <1>2
<1>8. Moves(t)
  BY <1>3, <1>4, <1>5, <1>6, <1>7 DEF Moves, Stays
<1> QED BY <1>3, <1>4, <1>5, <1>6, <1>7, <1>8

LEMMA Where ==
    ASSUME Located, NEW t \in Task
    PROVE  /\ pc[t] \in Called /\ done[t] \in Nat /\ curr[t] \in Int /\ pages[t] \in Int /\ block[t] \in Int
           /\ Placed(t) /\ pc = [pc EXCEPT ![t] = pc[t]] /\ done = [done EXCEPT ![t] = done[t]]
           /\ curr = [curr EXCEPT ![t] = curr[t]] /\ pages = [pages EXCEPT ![t] = pages[t]]
           /\ block = [block EXCEPT ![t] = block[t]]
<1>1. pc \in [Task -> Called] /\ done \in [Task -> Nat] /\ Placed(t)
  BY DEF Located
<1>2. curr \in [Task -> Int] /\ pages \in [Task -> Int] /\ block \in [Task -> Int]
  BY DEF Located
<1> QED BY <1>1, <1>2

LEMMA LocatedOn ==
    ASSUME Located, NEW t \in Task, Moves(t), Placed(t)', reaped => t # former
    PROVE  Located'
<1>1. \A u \in Task \ {t} : Placed(u)'
  <2> SUFFICES ASSUME NEW u \in Task \ {t} PROVE Placed(u)'
    OBVIOUS
  <2>1. Placed(u)
    BY DEF Located
  <2>2. Stays(u)
    BY DEF Moves
  <2> QED BY <2>1, <2>2 DEF Placed, Stays, Made, Idle, Frees, Call
<1>2. ASSUME reaped PROVE Finished(former)'
  <2>1. former \in Task \ {t}
    BY <1>2, ScriptOfFormer
  <2>2. Stays(former)
    BY <2>1 DEF Moves
  <2>3. Finished(former)
    BY <1>2 DEF Located
  <2> QED BY <2>2, <2>3 DEF Finished, Idle, Stays
<1>3. \A u \in Task : Placed(u)'
  BY <1>1
<1> QED BY <1>2, <1>3 DEF Located, Moves

LEMMA MadeStays ==
    ASSUME NEW u, Stays(u)
    PROVE  Made(u)' = Made(u)
BY DEF Stays, Made, Frees

(* A step by which no block changes hands.                                 *)
LEMMA OwnedStays ==
    ASSUME Owned, NEW t \in Task, Moves(t), live' = live, Made(t)' = Made(t)
    PROVE  Owned'
<1>1. \A u \in Task : Made(u)' = Made(u)
  BY MadeStays DEF Moves
<1>2. reaped' = reaped
  BY DEF Moves
<1>3. \A u \in Task : \A role : (Owns(u, role)' <=> Owns(u, role)) /\ (Due(u, role)' <=> Due(u, role))
  BY <1>1, <1>2 DEF Owns, Due
<1>4. ASSUME NEW u \in Task, NEW k \in DOMAIN Script[u]
      PROVE  (Owns(u, Script[u][k].role) <=> Due(u, Script[u][k].role))'
  <2>1. PICK role : role = Script[u][k].role
    OBVIOUS
  <2>2. Owns(u, role) <=> Due(u, role)
    BY <2>1 DEF Owned
  <2>3. Owns(u, role)' <=> Due(u, role)'
    BY <1>3, <2>2
  <2> QED BY <2>1, <2>3
<1>5. /\ (\A m, n \in live : m.task = n.task /\ m.role = n.role => m = n)'
      /\ (\A m \in live : m.task \in Task)'
  BY DEF Owned
<1> QED BY <1>4, <1>5 DEF Owned

(* The next call of a task is its last one made now.                       *)
LEMMA DueNext ==
    ASSUME Located, NEW t \in Task, Moves(t), ~(t = former /\ reaped), NEW k \in DOMAIN Script[t],
           Made(t) = k - 1, Made(t)' = k, NEW role
    PROVE  Due(t, role)' <=>
             \/ Script[t][k].op = "malloc" /\ Script[t][k].role = role
             \/ Due(t, role) /\ ~(Script[t][k].op = "free" /\ Script[t][k].role = role)
<1>1. k \in Nat /\ k - 1 \in Nat /\ k = (k - 1) + 1
  BY Scripted
<1>2. reaped' = reaped
  BY DEF Moves
<1>3. PICK s : s = Script[t]
  OBVIOUS
<1>4. Held(s, k, role) <=> \/ s[k].op = "malloc" /\ s[k].role = role
                           \/ Held(s, k - 1, role) /\ ~(s[k].op = "free" /\ s[k].role = role)
  BY <1>1, HeldNext
<1>5. Due(t, role) <=> Held(s, k - 1, role)
  BY <1>3 DEF Due
<1>6. Due(t, role)' <=> Held(s, k, role)
  BY <1>2, <1>3 DEF Due
<1> QED BY <1>3, <1>4, <1>5, <1>6

LEMMA DueOthers ==
    ASSUME NEW t \in Task, Moves(t), NEW u \in Task \ {t}, NEW role
    PROVE  Due(u, role)' <=> Due(u, role)
<1>1. Made(u)' = Made(u) /\ reaped' = reaped
  BY MadeStays DEF Moves
<1> QED BY <1>1 DEF Due

(* A block is given out, ...                                               *)
LEMMA OwnedTaken ==
    ASSUME Located, Owned, NEW t \in Task, Moves(t), ~(t = former /\ reaped), NEW k \in DOMAIN Script[t],
           Made(t) = k - 1, Made(t)' = k, Script[t][k].op = "malloc",
           NEW m, m.task = t, m.role = Script[t][k].role, live' = live \cup {m}
    PROVE  Owned' /\ m \notin live
<1>1. ~Due(t, m.role)
  <2>1. Script[t][k].op # "free"
    OBVIOUS
  <2>2. ~Held(Script[t], k - 1, Script[t][k].role)
    BY <2>1, Scripted
  <2> QED BY <2>2 DEF Due
<1>2. ~Owns(t, m.role)
  BY <1>1 DEF Owned
<1>3. \A n \in live : ~(n.task = t /\ n.role = m.role)
  BY <1>2 DEF Owns
<1>4. /\ (\A x, n \in live : x.task = n.task /\ x.role = n.role => x = n)'
      /\ (\A n \in live : n.task \in Task)'
  BY <1>3 DEF Owned
<1>5. \A u \in Task : \A role : Owns(u, role)' <=> Owns(u, role) \/ (u = t /\ role = m.role)
  BY DEF Owns
<1>6. \A role : Due(t, role)' <=> role = m.role \/ Due(t, role)
  <2> SUFFICES ASSUME NEW role PROVE Due(t, role)' <=> role = m.role \/ Due(t, role)
    OBVIOUS
  <2>1. Due(t, role)' <=> \/ Script[t][k].op = "malloc" /\ Script[t][k].role = role
                          \/ Due(t, role) /\ ~(Script[t][k].op = "free" /\ Script[t][k].role = role)
    BY DueNext
  <2>2. Script[t][k].op # "free"
    OBVIOUS
  <2> QED BY <2>1, <2>2
<1>7. ASSUME NEW u \in Task, NEW j \in DOMAIN Script[u]
      PROVE  (Owns(u, Script[u][j].role) <=> Due(u, Script[u][j].role))'
  <2>1. PICK role : role = Script[u][j].role
    OBVIOUS
  <2>2. Owns(u, role) <=> Due(u, role)
    BY <2>1 DEF Owned
  <2>3. Owns(u, role)' <=> Due(u, role)'
    <3>1. CASE u = t
      BY <1>5, <1>6, <2>2, <3>1
    <3>2. CASE u # t
      <4>1. Due(u, role)' <=> Due(u, role)
        BY <3>2, DueOthers
      <4> QED BY <1>5, <2>2, <3>2, <4>1
    <3> QED BY <3>1, <3>2
  <2> QED BY <2>1, <2>3
<1> QED BY <1>3, <1>4, <1>7 DEF Owned

(* ... and taken back.                                                     *)
LEMMA HeldBy ==
    ASSUME Located, Owned, NEW t \in Task, NEW k \in DOMAIN Script[t], Due(t, Script[t][k].role),
           NEW m, m = The(Script[t][k].role, t)
    PROVE  m \in live /\ m.task = t /\ m.role = Script[t][k].role
<1>1. Owns(t, Script[t][k].role)
  BY DEF Owned
<1> QED BY <1>1 DEF Owns, The

LEMMA OwnedFreed ==
    ASSUME Located, Owned, NEW t \in Task, Moves(t), ~(t = former /\ reaped), NEW k \in DOMAIN Script[t],
           Made(t) = k - 1, Made(t)' = k, Script[t][k].op = "free",
           NEW m, m = The(Script[t][k].role, t), live' = live \ {m}
    PROVE  Owned' /\ m \in live /\ m.task = t /\ m.role = Script[t][k].role
<1>1. Due(t, Script[t][k].role)
  <2>1. Held(Script[t], k - 1, Script[t][k].role)
    BY Scripted
  <2> QED BY <2>1 DEF Due
<1>2. m \in live /\ m.task = t /\ m.role = Script[t][k].role
  BY <1>1, HeldBy
<1>3. /\ (\A x, n \in live : x.task = n.task /\ x.role = n.role => x = n)'
      /\ (\A n \in live : n.task \in Task)'
  BY DEF Owned
<1>4. \A u \in Task : \A role : Owns(u, role)' <=> Owns(u, role) /\ ~(u = t /\ role = m.role)
  <2>1. \A x, n \in live : x.task = n.task /\ x.role = n.role => x = n
    BY DEF Owned
  <2> QED BY <1>2, <2>1 DEF Owns
<1>5. \A role : Due(t, role)' <=> role # m.role /\ Due(t, role)
  <2> SUFFICES ASSUME NEW role PROVE Due(t, role)' <=> role # m.role /\ Due(t, role)
    OBVIOUS
  <2>1. Due(t, role)' <=> \/ Script[t][k].op = "malloc" /\ Script[t][k].role = role
                          \/ Due(t, role) /\ ~(Script[t][k].op = "free" /\ Script[t][k].role = role)
    BY DueNext
  <2>2. Script[t][k].op # "malloc"
    OBVIOUS
  <2> QED BY <1>2, <2>1, <2>2
<1>6. ASSUME NEW u \in Task, NEW j \in DOMAIN Script[u]
      PROVE  (Owns(u, Script[u][j].role) <=> Due(u, Script[u][j].role))'
  <2>1. PICK role : role = Script[u][j].role
    OBVIOUS
  <2>2. Owns(u, role) <=> Due(u, role)
    BY <2>1 DEF Owned
  <2>3. Owns(u, role)' <=> Due(u, role)'
    <3>1. CASE u = t
      BY <1>4, <1>5, <2>2, <3>1
    <3>2. CASE u # t
      <4>1. Due(u, role)' <=> Due(u, role)
        BY <3>2, DueOthers
      <4> QED BY <1>4, <2>2, <3>2, <4>1
    <3> QED BY <3>1, <3>2
  <2> QED BY <2>1, <2>3
<1> QED BY <1>2, <1>3, <1>6 DEF Owned

LEMMA FormerHolds ==
    ASSUME Located, Owned, Finished(former), ~reaped, NEW role \in {"stack", "tcb"},
           NEW m, m = The(role, former)
    PROVE  m \in live /\ m.task = former /\ m.role = role
<1>1. former \in Task /\ Held(Script[former], Len(Script[former]), role)
  BY ScriptOfFormer
<1>2. Made(former) = Len(Script[former])
  <2>1. Len(Script[former]) \in Nat
    BY <1>1, Scripted
  <2> QED BY <2>1 DEF Made, Frees, Finished, Idle, FreeSteps, MergeSteps, MergeBackSteps
<1>3. Due(former, role)
  BY <1>1, <1>2 DEF Due
<1>4. PICK k \in DOMAIN Script[former] : Script[former][k].role = role
  <2>1. PICK i \in 1 .. Len(Script[former]) : Script[former][i].role = role
    BY <1>1 DEF Held
  <2> QED BY <1>1, <2>1, Scripted
<1> QED BY <1>1, <1>3, <1>4, HeldBy

LEMMA OwnedReaped ==
    ASSUME Located, Owned, Finished(former), ~reaped, reaped' = TRUE, UNCHANGED <<done, locals>>,
           NEW stack, stack = The("stack", former), NEW tcb, tcb = The("tcb", former),
           live' = live \ {stack, tcb}
    PROVE  /\ Owned' /\ Located'
           /\ stack \in live /\ stack.task = former /\ stack.role = "stack"
           /\ tcb \in live /\ tcb.task = former /\ tcb.role = "tcb"
<1>1. /\ stack \in live /\ stack.task = former /\ stack.role = "stack"
      /\ tcb \in live /\ tcb.task = former /\ tcb.role = "tcb"
  BY FormerHolds
<1>2. Located'
  <2>1. \A u \in Task : Placed(u)'
    BY DEF Located, Placed, Made, Idle, Frees, Call, locals
  <2>2. Finished(former)'
    BY DEF Finished, Idle, locals
  <2> QED BY <2>1, <2>2 DEF Located, locals
<1>3. \A u \in Task : Made(u)' = Made(u)
  BY DEF Made, Frees, locals
<1>4. \A u \in Task : \A role : Due(u, role)' <=> Due(u, role) /\ ~(u = former /\ role \in {"stack", "tcb"})
  BY <1>3 DEF Due
<1>5. \A u \in Task : \A role : Owns(u, role)' <=> Owns(u, role) /\ ~(u = former /\ role \in {"stack", "tcb"})
  <2>1. \A x, n \in live : x.task = n.task /\ x.role = n.role => x = n
    BY DEF Owned
  <2>2. \A x \in live : x \in {stack, tcb} <=> x.task = former /\ x.role \in {"stack", "tcb"}
    BY <1>1, <2>1
  <2> QED BY <2>2 DEF Owns
<1>6. ASSUME NEW u \in Task, NEW j \in DOMAIN Script[u]
      PROVE  (Owns(u, Script[u][j].role) <=> Due(u, Script[u][j].role))'
  <2>1. PICK role : role = Script[u][j].role
    OBVIOUS
  <2>2. Owns(u, role) <=> Due(u, role)
    BY <2>1 DEF Owned
  <2>3. Owns(u, role)' <=> Due(u, role)'
    BY <1>4, <1>5, <2>2
  <2> QED BY <2>1, <2>3
<1>7. /\ (\A x, n \in live : x.task = n.task /\ x.role = n.role => x = n)'
      /\ (\A n \in live : n.task \in Task)'
  BY DEF Owned
<1> QED BY <1>1, <1>2, <1>6, <1>7 DEF Owned

-----------------------------------------------------------------------------
(* The first block.                                                        *)
LEMMA OnlyFormer ==
    ASSUME Located, Rooted, Made(former) = 0, NEW t \in Task,
           \/ ~Idle(t)
           \/ /\ done[t] < Len(Script[t])
              /\ (Call(t).op = "malloc" /\ (t # former => Finished(former))) \/ Call(t).op = "free"
    PROVE  t = former /\ done[former] = 0 /\ Call(t).op = "malloc"
<1>1. former \in Task /\ Len(Script[former]) >= 1 /\ Script[former][1].op = "malloc"
  BY ScriptOfFormer
<1>2. done[former] = 0
  <2>1. done[former] \in Nat
    BY <1>1, Where
  <2> QED BY <2>1 DEF Made
<1>3. ~Finished(former)
  BY <1>1, <1>2 DEF Finished
<1>4. t # former => Idle(t) /\ done[t] = 0
  BY DEF Rooted
<1>5. ASSUME t # former PROVE FALSE
  <2>1. done[t] = 0 /\ 0 < Len(Script[t]) /\ Call(t).op = "free"
    BY <1>3, <1>4, <1>5
  <2>2. 1 \in DOMAIN Script[t] /\ Script[t][1].op = "free"
    BY <2>1, Scripted DEF Call
  <2>3. Held(Script[t], 1 - 1, Script[t][1].role)
    BY <2>2, Scripted
  <2> QED BY <2>3, HeldNone
<1>6. t = former
  BY <1>5
<1> QED BY <1>1, <1>2, <1>6 DEF Call

LEMMA RootedStays ==
    ASSUME Rooted, Located, NEW t \in Task, Moves(t), live' = live, Made(t)' = Made(t),
           Made(former) = 0 => t = former /\ (hdr' # << >> => Blocks' = {heap_start})
    PROVE  Rooted'
<1>1. former \in Task
  BY ScriptOfFormer
<1>2. Made(former)' = Made(former)
  <2>1. CASE t = former
    BY <2>1
  <2>2. CASE t # former
    BY <1>1, <2>2, MadeStays DEF Moves
  <2> QED BY <2>1, <2>2
<1>3. CASE Made(former) = 0
  <2>1. live = {} /\ \A u \in Task \ {former} : Idle(u) /\ done[u] = 0
    BY <1>3 DEF Rooted
  <2>2. \A u \in Task \ {former} : Stays(u)
    BY <1>3 DEF Moves
  <2>3. \A u \in Task \ {former} : Idle(u)' /\ done'[u] = 0
    BY <2>1, <2>2 DEF Stays, Idle
  <2> QED BY <1>2, <1>3, <2>1, <2>3 DEF Rooted
<1>4. CASE Made(former) # 0
  BY <1>2, <1>4 DEF Rooted
<1> QED BY <1>3, <1>4

LEMMA RootedTaken ==
    ASSUME Rooted, Located, NEW t \in Task, Moves(t), Made(t)' = Made(t) + 1,
           NEW m, m.task = t, m.role = Call(t).role, live' = live \cup {m},
           Made(former) = 0 => t = former /\ done[former] = 0 /\ m.addr = heap_start + 1
    PROVE  Rooted'
<1>1. former \in Task /\ Made(t) \in Nat
  BY ScriptOfFormer, Where DEF Made
<1>2. Made(former)' # 0
  <2>1. CASE t = former
    BY <1>1, <2>1
  <2>2. CASE t # former
    <3>1. Made(former)' = Made(former)
      BY <1>1, <2>2, MadeStays DEF Moves
    <3> QED BY <2>2, <3>1
  <2> QED BY <2>1, <2>2
<1>3. \E n \in live' : /\ n.addr = heap_start + 1 /\ n.task = former
                       /\ n.role = Script[former][1].role
  <2>1. CASE Made(former) = 0
    BY <2>1 DEF Call
  <2>2. CASE Made(former) # 0
    BY <2>2 DEF Rooted
  <2> QED BY <2>1, <2>2
<1> QED BY <1>2, <1>3 DEF Rooted

LEMMA RootedFreed ==
    ASSUME Rooted, Located, NEW t \in Task, Moves(t), Made(t)' = Made(t) + 1,
           ~Idle(t) \/ done[t] < Len(Script[t]), Call(t).op = "free", Made(t) = done[t],
           done[t] + 1 \in DOMAIN Script[t],
           NEW m, m.task = t, m.role = Call(t).role, live' = live \ {m}
    PROVE  /\ Rooted'
           /\ \E r \in live : r.addr = heap_start + 1 /\ r # m
<1>1. former \in Task /\ Made(t) \in Nat
  BY ScriptOfFormer, Where DEF Made
<1>2. Made(former) # 0
  BY OnlyFormer
<1>3. PICK r \in live : r.addr = heap_start + 1 /\ r.task = former /\ r.role = Script[former][1].role
  BY <1>2 DEF Rooted
<1>4. r # m
  <2>1. CASE t # former
    BY <1>3, <2>1
  <2>2. CASE t = former
    <3>1. Script[former][done[t] + 1].op = "free" /\ done[t] + 1 \in DOMAIN Script[former]
      BY <2>2 DEF Call
    <3>2. Script[former][done[t] + 1].role # Script[former][1].role
      BY <3>1, ScriptOfFormer
    <3> QED BY <1>3, <2>2, <3>2 DEF Call
  <2> QED BY <2>1, <2>2
<1>5. Made(former)' # 0
  <2>1. CASE t = former
    BY <1>1, <2>1
  <2>2. CASE t # former
    <3>1. Made(former)' = Made(former)
      BY <1>1, <2>2, MadeStays DEF Moves
    <3> QED BY <1>2, <3>1
  <2> QED BY <2>1, <2>2
<1> QED BY <1>3, <1>4, <1>5 DEF Rooted

LEMMA RootedReaped ==
    ASSUME Rooted, Located, Finished(former), UNCHANGED <<done, locals>>,
           NEW stack, stack.role = "stack", NEW tcb, tcb.role = "tcb", live' = live \ {stack, tcb}
    PROVE  /\ Rooted'
           /\ \E r \in live : r.addr = heap_start + 1 /\ r # stack /\ r # tcb
<1>1. former \in Task /\ Script[former][1].role \notin {"stack", "tcb"} /\ Len(Script[former]) >= 1
  BY ScriptOfFormer
<1>2. Made(former) # 0 /\ Made(former)' = Made(former)
  <2>1. done[former] # 0
    BY <1>1 DEF Finished
  <2>2. Made(former) = done[former]
    <3>1. done[former] \in Nat
      BY <1>1, Where
    <3> QED BY <3>1 DEF Made, Finished, Idle, Frees, FreeSteps, MergeSteps, MergeBackSteps
  <2>3. Made(former)' = Made(former)
    BY DEF Made, Frees, locals
  <2> QED BY <2>1, <2>2, <2>3
<1>3. PICK r \in live : r.addr = heap_start + 1 /\ r.task = former /\ r.role = Script[former][1].role
  BY <1>2 DEF Rooted
<1>4. r # stack /\ r # tcb
  BY <1>1, <1>3
<1> QED BY <1>2, <1>3, <1>4 DEF Rooted
-----------------------------------------------------------------------------
(* What a step tells that has raised no race.                              *)
LEMMA RacesGive ==
    ASSUME NEW own, Raises(own), raced = {}, raced' = {}
    PROVE  /\ own = {} /\ Apart'
           /\ \A t \in Task : Searches(t)' => curr'[t] \in Blocks'
           /\ heap_pointer' \in Blocks' \/ \E t \in Task : pc'[t] \in {"nextBack", "pointer"}
<1>1. ~(\E t, u \in Task : t # u /\ AtWork(t)' \cap AtWork(u)' # {})
  <2> SUFFICES ASSUME \E t, u \in Task : t # u /\ AtWork(t)' \cap AtWork(u)' # {} PROVE FALSE
    OBVIOUS
  <2>1. "window" \in raced'
    BY DEF Raises
  <2> QED BY <2>1
<1>2. ~(\/ \E t \in Task : Searches(t)' /\ curr[t]' \notin Blocks'
        \/ /\ heap_pointer' \notin Blocks'
           /\ \A t \in Task : pc[t]' \notin {"nextBack", "pointer"})
  <2> SUFFICES ASSUME \/ \E t \in Task : Searches(t)' /\ curr[t]' \notin Blocks'
                      \/ /\ heap_pointer' \notin Blocks'
                         /\ \A t \in Task : pc[t]' \notin {"nextBack", "pointer"}
               PROVE  FALSE
    OBVIOUS
  <2>1. "absorbed" \in raced'
    BY DEF Raises
  <2> QED BY <2>1
<1>3. own = {}
  BY DEF Raises
<1>4. Apart'
  BY <1>1 DEF Apart
<1> QED BY <1>2, <1>3, <1>4

LEMMA NotReaped ==
    ASSUME Located, NEW t \in Task, ~Idle(t) \/ done[t] < Len(Script[t])
    PROVE  ~(t = former /\ reaped)
<1> SUFFICES ASSUME t = former, reaped PROVE FALSE
  OBVIOUS
<1>1. Finished(t)
  BY DEF Located
<1>2. Len(Script[t]) \in Nat
  BY Scripted
<1> QED BY <1>1, <1>2 DEF Finished

(* The call that t is at, and the next one.                                *)
LEMMA CallIs ==
    ASSUME Located, NEW t \in Task, ~Idle(t) \/ done[t] < Len(Script[t])
    PROVE  /\ done[t] \in Nat /\ done[t] + 1 \in DOMAIN Script[t] /\ done[t] < Len(Script[t])
           /\ Call(t).op \in {"malloc", "free"}
           /\ Call(t).op = "malloc" => Call(t).size \in Nat
           /\ Frees(t) => Call(t).op = "free"
           /\ ~Idle(t) /\ ~Frees(t) => Call(t).op = "malloc"
           /\ Len(Script[t]) \in Nat
<1>1. done[t] \in Nat /\ Placed(t)
  BY Where
<1>2. done[t] < Len(Script[t])
  BY <1>1 DEF Placed
<1>3. Len(Script[t]) \in Nat /\ done[t] + 1 \in DOMAIN Script[t]
  BY <1>1, <1>2, Scripted
<1>4. Call(t).op \in {"malloc", "free"} /\ (Call(t).op = "malloc" => Call(t).size \in Nat)
  BY <1>3, Scripted DEF Call
<1>5. ~Idle(t) => Call(t).op = IF Frees(t) THEN "free" ELSE "malloc"
  BY <1>1 DEF Placed
<1>6. Frees(t) => ~Idle(t)
  BY DEF Frees, Idle, FreeSteps, MergeSteps, MergeBackSteps
<1>7. (Frees(t) => Call(t).op = "free") /\ (~Idle(t) /\ ~Frees(t) => Call(t).op = "malloc")
  BY <1>5, <1>6
<1> QED BY <1>1, <1>2, <1>3, <1>4, <1>7

Given == {"shrink", "occupy", "point"} \cup FreeSteps

LEMMA MadeIs ==
    ASSUME NEW t
    PROVE  /\ pc[t] \in Given => Made(t) = done[t] + 1
           /\ pc[t] \notin Given => Made(t) = done[t] + 0
           /\ pc'[t] \in Given => Made(t)' = done'[t] + 1
           /\ pc'[t] \notin Given => Made(t)' = done'[t] + 0
<1>1. pc[t] \in Given <=> (pc[t] \in {"shrink", "occupy", "point"} \/ Frees(t))
  BY DEF Given, Frees
<1>2. pc'[t] \in Given <=> (pc'[t] \in {"shrink", "occupy", "point"} \/ Frees(t)')
  BY DEF Given, Frees
<1>3. (pc[t] \in Given => Made(t) = done[t] + 1) /\ (pc[t] \notin Given => Made(t) = done[t] + 0)
  BY <1>1 DEF Made
<1>4. (pc'[t] \in Given => Made(t)' = done'[t] + 1) /\ (pc'[t] \notin Given => Made(t)' = done'[t] + 0)
  BY <1>2 DEF Made
<1> QED BY <1>3, <1>4

LEMMA PlacedOn ==
    ASSUME Located, NEW t \in Task, ~Idle(t) \/ done[t] < Len(Script[t]), NEW p \in Called, pc'[t] = p,
           IF p = "idle" THEN done'[t] \in {done[t], done[t] + 1} ELSE done'[t] = done[t],
           p = "idle" \/ Call(t).op = IF p \in FreeSteps THEN "free" ELSE "malloc"
    PROVE  Placed(t)'
<1>1. done[t] \in Nat /\ done[t] < Len(Script[t]) /\ Len(Script[t]) \in Nat
  BY CallIs
<1>2. CASE p = "idle"
  <2>1. Idle(t)' /\ pc'[t] \notin Given
    BY <1>2 DEF Idle, Given, FreeSteps, MergeSteps, MergeBackSteps
  <2>2. Made(t)' = done'[t] + 0
    BY <2>1, MadeIs
  <2>3. Made(t)' <= Len(Script[t])
    BY <1>1, <1>2, <2>2
  <2> QED BY <1>2, <2>1, <2>3 DEF Placed
<1>3. CASE p # "idle"
  <2>1. done'[t] = done[t] /\ Call(t)' = Call(t)
    BY <1>3 DEF Call
  <2>2. Made(t)' = done[t] + 1 \/ Made(t)' = done[t] + 0
    BY <2>1, MadeIs
  <2>3. Made(t)' <= Len(Script[t])
    BY <1>1, <2>2
  <2>4. Frees(t)' <=> p \in FreeSteps
    BY DEF Frees
  <2>5. Call(t)'.op = IF Frees(t)' THEN "free" ELSE "malloc"
    BY <1>3, <2>1, <2>4
  <2> QED BY <1>1, <2>1, <2>3, <2>5 DEF Placed
<1> QED BY <1>2, <1>3

-----------------------------------------------------------------------------
(* The headers as View has them.                                           *)
HeadersSeen ==
    Headers(hdr) =>
      /\ DOMAIN View = DOMAIN hdr
      /\ \A a \in DOMAIN hdr :
           /\ View[a].next = hdr[a].next /\ View[a].prev = hdr[a].prev
           /\ View[a].free = (hdr[a].free /\ ~GivesOut(a))
           /\ (\E u \in Task : a \in Torn(u)) => View[a].size = hdr[a].next - a - 1
           /\ ~(\E u \in Task : a \in Torn(u)) => View[a].size = hdr[a].size

LEMMA ViewIs ==
    HeadersSeen
<1> SUFFICES ASSUME Headers(hdr), NEW a \in DOMAIN hdr
             PROVE  /\ View[a].next = hdr[a].next /\ View[a].prev = hdr[a].prev
                    /\ View[a].free = (hdr[a].free /\ ~GivesOut(a))
                    /\ (\E u \in Task : a \in Torn(u)) => View[a].size = hdr[a].next - a - 1
                    /\ ~(\E u \in Task : a \in Torn(u)) => View[a].size = hdr[a].size
  BY DEF View, HeadersSeen
<1>1. hdr[a] \in Header
  BY DEF Headers
<1>2. PICK r \in Header : r = hdr[a]
  BY <1>1
<1>3. PICK size : size = IF \E u \in Task : a \in Torn(u) THEN hdr[a].next - a - 1 ELSE hdr[a].size
  OBVIOUS
<1>4. PICK open : open = (hdr[a].free /\ ~GivesOut(a))
  OBVIOUS
<1>5. View[a] = [r EXCEPT !.size = size, !.free = open]
  BY <1>2, <1>3, <1>4 DEF View
<1>6. View[a].next = r.next /\ View[a].prev = r.prev /\ View[a].free = open /\ View[a].size = size
  BY <1>5 DEF Header
<1> QED BY <1>2, <1>3, <1>4, <1>6

(* The last step of the headers, as one call sees it that is alone at      *)
(* work on block b.                                                        *)
Width(t, b) == IF b \in Torn(t) THEN hdr[b].next - b - 1 ELSE hdr[b].size
Open(t, b) == hdr[b].free /\ ~(pc[t] \in {"shrink", "occupy"} /\ curr[t] = b)
Alone(t, b) == \A u \in Task \ {t} : b \notin AtWork(u)
Whole(t) == Torn(t) \subseteq AtWork(t) /\ (pc[t] \in {"shrink", "occupy"} => curr[t] \in AtWork(t))

TornInside == \A t : Whole(t)

LEMMA TornAtWork ==
    TornInside
<1> SUFFICES ASSUME NEW t PROVE Whole(t)
  BY DEF TornInside
<1> USE DEF Whole, Torn, AtWork, SplitSteps, GrowSteps, FreeSteps, MergeSteps, MergeBackSteps
<1>1. CASE pc[t] \in {"shrink", "occupy"}
  BY <1>1
<1>2. CASE pc[t] \in {"nextLink", "prevLink"}
  BY <1>2
<1>3. CASE pc[t] \notin {"shrink", "occupy", "nextLink", "prevLink"}
  BY <1>3
<1> QED BY <1>1, <1>2, <1>3

SeenAlone ==
    Headers(hdr) =>
      \A t \in Task : \A b \in DOMAIN hdr :
        Alone(t, b) => View[b].size = Width(t, b) /\ View[b].free = Open(t, b)

LEMMA ViewAlone ==
    SeenAlone
<1> SUFFICES ASSUME Headers(hdr), NEW t \in Task, NEW b \in DOMAIN hdr, Alone(t, b)
             PROVE  View[b].size = Width(t, b) /\ View[b].free = Open(t, b)
  BY DEF SeenAlone
<1>1. \A u \in Task \ {t} : b \notin Torn(u) /\ ~(pc[u] \in {"shrink", "occupy"} /\ curr[u] = b)
  BY TornAtWork DEF Whole, Alone, TornInside
<1>2. (\E u \in Task : b \in Torn(u)) <=> b \in Torn(t)
  BY <1>1
<1>3. GivesOut(b) <=> (pc[t] \in {"shrink", "occupy"} /\ curr[t] = b)
  BY <1>1 DEF GivesOut
<1>4. (b \in Torn(t) => View[b].size = hdr[b].next - b - 1) /\ (b \notin Torn(t) => View[b].size = hdr[b].size)
  BY <1>2, ViewIs DEF HeadersSeen
<1>5. View[b].free = (hdr[b].free /\ ~GivesOut(b))
  BY ViewIs DEF HeadersSeen
<1> QED BY <1>3, <1>4, <1>5 DEF Width, Open

-----------------------------------------------------------------------------
LEMMA HeapThere ==
    ASSUME CallsSound, hdr # << >>
    PROVE  /\ Laid(View, Mapped, Blocks, live) /\ Headers(hdr) /\ DOMAIN View = DOMAIN hdr
           /\ Blocks \subseteq DOMAIN hdr /\ heap_start \in Blocks /\ heap_tail \in Nat /\ heap_current \in Nat
           /\ DOMAIN hdr \subseteq Nat
           /\ \A a \in DOMAIN hdr : /\ a \in Nat /\ hdr[a] \in Header /\ hdr[a].size \in Nat
                                    /\ hdr[a].next \in Nat /\ hdr[a].free \in BOOLEAN
           /\ \A a \in Blocks : hdr[a].next \in Blocks /\ View[a].next = hdr[a].next
           /\ \A t \in Task : Knows(t)
           /\ heap_pointer \in Blocks \/ \E t \in Task : pc[t] \in {"nextBack", "pointer"}
           /\ Located /\ Owned /\ Rooted /\ Apart
<1>1. Built /\ Located /\ Owned /\ Rooted /\ Apart
  BY DEF CallsSound
<1>2. /\ Laid(View, Mapped, Blocks, live) /\ heap_tail \in Nat /\ heap_current \in Nat /\ Headers(hdr)
      /\ \A t \in Task : Knows(t)
      /\ heap_pointer \in Blocks \/ \E t \in Task : pc[t] \in {"nextBack", "pointer"}
  BY <1>1 DEF Built
<1>3. DOMAIN View = DOMAIN hdr /\ \A a \in DOMAIN hdr : View[a].next = hdr[a].next
  BY <1>2, ViewIs DEF HeadersSeen
<1>4. Blocks \subseteq DOMAIN hdr /\ heap_start \in Blocks /\ \A a \in Blocks : View[a].next \in Blocks
  BY <1>2, <1>3, LaidHas
<1>5. /\ DOMAIN hdr \subseteq Nat
      /\ \A a \in DOMAIN hdr : /\ a \in Nat /\ hdr[a] \in Header /\ hdr[a].size \in Nat
                               /\ hdr[a].next \in Nat /\ hdr[a].free \in BOOLEAN
  BY <1>2 DEF Headers, Header
<1>6. \A a \in Blocks : hdr[a].next \in Blocks /\ View[a].next = hdr[a].next
  BY <1>3, <1>4
<1> QED BY <1>1, <1>2, <1>3, <1>4, <1>5, <1>6

LEMMA TailIsOne ==
    ASSUME CallsSound, hdr # << >>, NEW a \in Blocks, NEW b \in Blocks,
           hdr[a].next = heap_start, hdr[b].next = heap_start
    PROVE  a = b
<1>1. View[a].next = heap_start /\ View[b].next = heap_start
  BY HeapThere
<1>2. Laid(View, Mapped, Blocks, live)
  BY HeapThere
<1> QED BY <1>1, <1>2, LastIsOne

(* Where the blocks are that a call is at work on.                         *)
WorksOn(t) ==
    /\ pc[t] \in SplitSteps => AtWork(t) = {curr[t], New(t)}
    /\ pc[t] \in GrowSteps => AtWork(t) = {heap_tail}
    /\ pc[t] \in FreeSteps => AtWork(t) = {block[t], hdr[block[t]].next, hdr[block[t]].prev}
    /\ pc[t] \notin SplitSteps \cup GrowSteps \cup FreeSteps => AtWork(t) = {}

WorksAll == \A t : WorksOn(t)

LEMMA Working ==
    WorksAll
<1> SUFFICES ASSUME NEW t PROVE WorksOn(t)
  BY DEF WorksAll
<1> USE DEF SplitSteps, GrowSteps, FreeSteps, MergeSteps, MergeBackSteps
<1>1. pc[t] \in SplitSteps => pc[t] \notin GrowSteps /\ pc[t] \notin FreeSteps
  OBVIOUS
<1>2. pc[t] \in GrowSteps => pc[t] \notin FreeSteps
  OBVIOUS
<1> HIDE DEF SplitSteps, GrowSteps, FreeSteps
<1> QED BY <1>1, <1>2 DEF AtWork, WorksOn, WorksAll

(* A store of a call is to a block that it is at work on, but for the mark *)
(* of my_free; heap_tail it moves away from a block that it splits.        *)
Writes(t) ==
    /\ DOMAIN hdr \subseteq DOMAIN hdr'
    /\ \A x \in DOMAIN hdr \ AtWork(t) :
         hdr'[x] = hdr[x] \/ (x \in AtWork(t)' /\ hdr'[x] = [hdr[x] EXCEPT !.free = TRUE])
    /\ heap_tail' = heap_tail \/ (pc[t] \in SplitSteps /\ hdr[curr[t]].next = heap_start)

LEMMA TailKept ==
    ASSUME CallsSound, hdr # << >>, NEW t \in Task, Writes(t), NEW u \in Task \ {t},
           pc[u] \in GrowSteps \/ (pc[u] \in SplitSteps /\ hdr[curr[u]].next = heap_start)
    PROVE  heap_tail' = heap_tail
<1> SUFFICES ASSUME pc[t] \in SplitSteps, hdr[curr[t]].next = heap_start PROVE FALSE
  BY DEF Writes
<1>1. Knows(t) /\ Knows(u) /\ AtWork(t) \cap AtWork(u) = {}
  BY HeapThere DEF Apart
<1>2. curr[t] \in Blocks /\ curr[t] \in AtWork(t)
  BY <1>1, Working DEF Knows, Splits, WorksOn, WorksAll
<1>3. \A a \in Blocks : hdr[a].next = heap_start => a = curr[t]
  BY <1>2, TailIsOne
<1>4. \E a \in Blocks : hdr[a].next = heap_start /\ a \in AtWork(u)
  <2>1. CASE pc[u] \in GrowSteps
    BY <1>1, <2>1, Working DEF Knows, WorksOn, WorksAll
  <2>2. CASE pc[u] \in SplitSteps /\ hdr[curr[u]].next = heap_start
    BY <1>1, <2>2, Working DEF Knows, Splits, WorksOn, WorksAll
  <2> QED BY <2>1, <2>2
<1> QED BY <1>1, <1>2, <1>3, <1>4

(* The other calls stay where they are, ...                                *)
Elsewhere(t, u) ==
    /\ AtWork(u)' = AtWork(u) /\ Torn(u)' = Torn(u)
    /\ AtWork(u) \cap AtWork(t) = {} /\ AtWork(u) \cap AtWork(t)' = {}

LEMMA OthersStay ==
    ASSUME CallsSound, hdr # << >>, NEW t \in Task, Moves(t), Apart', Writes(t), NEW u \in Task \ {t}
    PROVE  Elsewhere(t, u)
<1>0. WorksAll'
  BY Working, PTL
<1>1. Knows(u) /\ AtWork(u) \cap AtWork(t) = {} /\ AtWork(u)' \cap AtWork(t)' = {} /\ Stays(u)
  BY HeapThere DEF Apart, Moves
<1>2. \A x \in DOMAIN hdr : x \in AtWork(u) => hdr'[x].next = hdr[x].next /\ hdr'[x].prev = hdr[x].prev
  <2> SUFFICES ASSUME NEW x \in DOMAIN hdr, x \in AtWork(u)
               PROVE  hdr'[x].next = hdr[x].next /\ hdr'[x].prev = hdr[x].prev
    OBVIOUS
  <2>1. hdr'[x] = hdr[x] \/ hdr'[x] = [hdr[x] EXCEPT !.free = TRUE]
    BY <1>1 DEF Writes
  <2>2. PICK r \in Header : r = hdr[x]
    BY HeapThere
  <2> QED BY <2>1, <2>2 DEF Header
<1>3. CASE pc[u] \in SplitSteps
  <2>1. New(u)' = New(u)
    BY <1>1 DEF New, Call, Stays
  <2>2. AtWork(u) = {curr[u], New(u)} /\ AtWork(u)' = {curr'[u], New(u)'}
    <3>1. pc'[u] \in SplitSteps
      BY <1>1, <1>3 DEF Stays
    <3>2. AtWork(u)' = {curr'[u], New(u)'}
      BY <1>0, <3>1 DEF WorksOn, WorksAll
    <3> QED BY <1>3, <3>2, Working DEF WorksOn, WorksAll
  <2>3. Torn(u)' = Torn(u)
    <3>1. pc[u] # "nextLink" /\ pc[u] # "prevLink"
      BY <1>3 DEF SplitSteps
    <3> QED BY <1>1, <3>1 DEF Torn, Stays
  <2> QED BY <1>1, <2>1, <2>2, <2>3 DEF Elsewhere, Stays
<1>4. CASE pc[u] \in GrowSteps
  <2>1. heap_tail' = heap_tail
    BY <1>4, TailKept
  <2>2. AtWork(u) = {heap_tail} /\ AtWork(u)' = {heap_tail'}
    <3>1. pc'[u] \in GrowSteps
      BY <1>1, <1>4 DEF Stays
    <3>2. AtWork(u)' = {heap_tail'}
      BY <1>0, <3>1 DEF WorksOn, WorksAll
    <3> QED BY <1>4, <3>2, Working DEF WorksOn, WorksAll
  <2>3. Torn(u)' = Torn(u)
    <3>1. pc[u] \notin {"shrink", "occupy", "nextLink", "prevLink"}
      BY <1>4 DEF GrowSteps
    <3> QED BY <1>1, <3>1 DEF Torn, Stays
  <2> QED BY <1>1, <2>1, <2>2, <2>3 DEF Elsewhere
<1>5. CASE pc[u] \in FreeSteps
  <2>1. block[u] \in DOMAIN hdr /\ block'[u] = block[u]
    BY <1>1, <1>5 DEF Knows, Frees, Stays
  <2>2. AtWork(u) = {block[u], hdr[block[u]].next, hdr[block[u]].prev}
    BY <1>5, Working DEF WorksOn, WorksAll
  <2>3. AtWork(u)' = {block'[u], hdr'[block'[u]].next, hdr'[block'[u]].prev}
    <3>1. pc'[u] \in FreeSteps
      BY <1>1, <1>5 DEF Stays
    <3> QED BY <1>0, <3>1 DEF WorksOn, WorksAll
  <2>4. hdr'[block[u]].next = hdr[block[u]].next /\ hdr'[block[u]].prev = hdr[block[u]].prev
    BY <1>2, <2>1, <2>2
  <2>5. AtWork(u)' = AtWork(u)
    BY <2>1, <2>2, <2>3, <2>4
  <2>6. Torn(u)' = Torn(u)
    <3>1. pc[u] \notin {"shrink", "occupy"} /\ pc'[u] = pc[u]
      BY <1>1, <1>5 DEF FreeSteps, MergeSteps, MergeBackSteps, Stays
    <3> QED BY <2>1, <2>4, <3>1 DEF Torn
  <2> QED BY <1>1, <2>5, <2>6 DEF Elsewhere
<1>6. CASE pc[u] \notin SplitSteps \cup GrowSteps \cup FreeSteps
  <2>1. AtWork(u) = {} /\ AtWork(u)' = {}
    <3>1. pc'[u] \notin SplitSteps \cup GrowSteps \cup FreeSteps
      BY <1>1, <1>6 DEF Stays
    <3>2. AtWork(u)' = {}
      BY <1>0, <3>1 DEF WorksOn, WorksAll
    <3> QED BY <1>6, <3>2, Working DEF WorksOn, WorksAll
  <2>2. Torn(u) = {} /\ Torn(u)' = {}
    <3>1. pc[u] \notin {"shrink", "occupy", "nextLink", "prevLink"} /\ pc'[u] = pc[u]
      BY <1>1, <1>6 DEF SplitSteps, FreeSteps, MergeSteps, MergeBackSteps, Stays
    <3> QED BY <3>1 DEF Torn
  <2> QED BY <2>1, <2>2 DEF Elsewhere
<1> QED BY <1>3, <1>4, <1>5, <1>6

(* ... and know what they knew.                                            *)
LEMMA OthersKnow ==
    ASSUME CallsSound, hdr # << >>, NEW t \in Task, Moves(t), Writes(t), NEW u \in Task \ {t},
           Elsewhere(t, u), \A x \in Blocks : x \in Blocks' \/ x \in AtWork(t),
           Searches(u)' => curr'[u] \in Blocks'
    PROVE  Knows(u)'
<1>1. Knows(u) /\ Stays(u) /\ Blocks \subseteq DOMAIN hdr
  BY HeapThere DEF Moves
<1>2. \A x \in DOMAIN hdr : x \in AtWork(u) => x \in DOMAIN hdr' /\ hdr'[x] = hdr[x]
  BY DEF Writes, Elsewhere
<1>3. \A x \in Blocks : x \in AtWork(u) => x \in Blocks'
  BY DEF Elsewhere
<1>4. /\ pc'[u] = pc[u] /\ curr'[u] = curr[u] /\ pages'[u] = pages[u] /\ block'[u] = block[u]
      /\ Call(u)' = Call(u) /\ New(u)' = New(u)
  BY <1>1 DEF Stays, Call, New
<1>5. CASE pc[u] \in SplitSteps
  <2>1. Splits(u, curr[u], New(u)) /\ AtWork(u) = {curr[u], New(u)}
    BY <1>1, <1>5, Working DEF Knows, WorksOn, WorksAll
  <2>2. PICK a, new : a = curr[u] /\ new = New(u)
    OBVIOUS
  <2>3. /\ a \in Blocks /\ a \in Blocks' /\ hdr'[a] = hdr[a]
        /\ new \in DOMAIN hdr => new \in DOMAIN hdr' /\ hdr'[new] = hdr[new]
    BY <1>1, <1>2, <1>3, <2>1, <2>2 DEF Splits
  <2>4. hdr[a].next = heap_start => heap_tail' = heap_tail
    BY <1>5, <2>2, TailKept
  <2>5. Splits(u, a, new)
    BY <2>1, <2>2
  <2>6. Splits(u, a, new)'
    BY <1>4, <2>3, <2>4, <2>5 DEF Splits
  <2>7. pc'[u] \notin SearchSteps \cup GrowSteps \cup {"sbrk", "widen"} \cup FreeSteps
    BY <1>4, <1>5 DEF SplitSteps, SearchSteps, GrowSteps, FreeSteps, MergeSteps, MergeBackSteps
  <2>8. curr'[u] = a /\ New(u)' = new
    BY <1>4, <2>2
  <2>9. Splits(u, curr[u], New(u))'
    BY <2>6, <2>8 DEF Splits
  <2> QED BY <2>7, <2>9 DEF Knows, Searches, Frees
<1>6. CASE pc[u] \in GrowSteps
  <2>1. heap_tail \in Blocks /\ hdr[heap_tail].next = heap_start /\ AtWork(u) = {heap_tail}
    BY <1>1, <1>6, Working DEF Knows, WorksOn, WorksAll
  <2>2. heap_tail' = heap_tail
    BY <1>6, TailKept
  <2>3. heap_tail' \in Blocks' /\ hdr'[heap_tail'].next = heap_start
    BY <1>1, <1>2, <1>3, <2>1, <2>2
  <2>4. pc'[u] \notin SplitSteps \cup SearchSteps \cup FreeSteps
    BY <1>4, <1>6 DEF SplitSteps, SearchSteps, GrowSteps, FreeSteps, MergeSteps, MergeBackSteps
  <2> QED BY <1>1, <1>4, <2>3, <2>4 DEF Knows, Searches, Frees
<1>7. CASE pc[u] \in FreeSteps
  <2>1. PICK b, n, p : b = block[u] /\ n = hdr[b].next /\ p = hdr[b].prev
    OBVIOUS
  <2>2. /\ b \in DOMAIN hdr /\ b # heap_start /\ hdr[b].free /\ n \in Blocks
        /\ pc[u] # "prevBack" => b \in Blocks
        /\ Absorbs(u, b, n) /\ Backs(u, b, p)
    BY <1>1, <1>7, <2>1 DEF Knows, Frees
  <2>3. b \in AtWork(u) /\ n \in AtWork(u) /\ p \in AtWork(u)
    BY <1>7, <2>1, Working DEF WorksOn, WorksAll
  <2>4. /\ hdr'[b] = hdr[b] /\ b \in DOMAIN hdr' /\ hdr'[n] = hdr[n] /\ n \in Blocks'
        /\ pc[u] # "prevBack" => b \in Blocks'
        /\ p \in Blocks => hdr'[p] = hdr[p] /\ p \in Blocks'
    BY <1>1, <1>2, <1>3, <2>2, <2>3
  <2>5. Absorbs(u, b, n)' /\ Backs(u, b, p)'
    <3>1. Absorbs(u, b, n)'
      BY <1>4, <2>2, <2>4, HeapThere DEF Absorbs
    <3>2. pc[u] \in MergeBackSteps => hdr'[p] = hdr[p] /\ p \in Blocks'
      BY <2>2, <2>4 DEF Backs
    <3>3. Backs(u, b, p)'
      BY <1>4, <2>2, <2>4, <3>2 DEF Backs, MergeBackSteps
    <3> QED BY <3>1, <3>3
  <2>6. block'[u] = b /\ hdr'[b].next = n /\ hdr'[b].prev = p
    BY <1>4, <2>1, <2>4
  <2>7. Absorbs(u, block[u], hdr[block[u]].next)' /\ Backs(u, block[u], hdr[block[u]].prev)'
    BY <2>5, <2>6 DEF Absorbs, Backs
  <2>8. pc'[u] \notin SplitSteps \cup SearchSteps \cup GrowSteps \cup {"sbrk", "widen"}
    BY <1>4, <1>7 DEF SplitSteps, SearchSteps, GrowSteps, FreeSteps, MergeSteps, MergeBackSteps
  <2> QED BY <1>4, <2>2, <2>4, <2>6, <2>7, <2>8 DEF Knows, Searches, Frees
<1>8. CASE pc[u] \notin SplitSteps \cup GrowSteps \cup FreeSteps
  <2>1. pc'[u] \notin SplitSteps \cup GrowSteps \cup FreeSteps \cup {"sbrk", "widen"}
    BY <1>4, <1>8 DEF GrowSteps
  <2> QED BY <2>1 DEF Knows, Frees
<1> QED BY <1>5, <1>6, <1>7, <1>8

-----------------------------------------------------------------------------
(* What a step of one call makes of the view.                              *)
LEMMA TornBlocks ==
    ASSUME CallsSound, hdr # << >>, NEW t \in Task
    PROVE  Torn(t) \subseteq Blocks
<1>1. Knows(t)
  BY HeapThere
<1>2. CASE pc[t] \in {"shrink", "occupy"}
  BY <1>1, <1>2 DEF Torn, Knows, Splits, SplitSteps
<1>3. CASE pc[t] = "nextLink"
  BY <1>1, <1>3 DEF Torn, Knows, Frees, FreeSteps, MergeSteps
<1>4. CASE pc[t] = "prevLink"
  BY <1>1, <1>4 DEF Torn, Knows, Frees, Backs, FreeSteps, MergeBackSteps
<1>5. CASE pc[t] \notin {"shrink", "occupy", "nextLink", "prevLink"}
  BY <1>5 DEF Torn
<1> QED BY <1>2, <1>3, <1>4, <1>5

Viewed(t, b) ==
    IF b \in AtWork(t) \/ b \in AtWork(t)'
      THEN /\ View[b].size = Width(t, b) /\ View[b].free = Open(t, b)
           /\ View'[b].size = Width(t, b)' /\ View'[b].free = Open(t, b)'
      ELSE View'[b].size = View[b].size /\ View'[b].free = View[b].free /\ hdr'[b] = hdr[b]

LEMMA ViewStep ==
    ASSUME CallsSound, hdr # << >>, NEW t \in Task, Moves(t), Apart', Writes(t), Headers(hdr)',
           NEW b \in DOMAIN hdr
    PROVE  /\ Viewed(t, b)
           /\ b \in DOMAIN View' /\ View[b].next = hdr[b].next /\ View'[b].next = hdr'[b].next
<1>1. \A u \in Task \ {t} : Elsewhere(t, u)
  BY OthersStay
<1>2. Headers(hdr) /\ b \in DOMAIN hdr'
  BY HeapThere DEF Writes
<1>3. HeadersSeen' /\ SeenAlone' /\ TornInside'
  BY ViewIs, ViewAlone, TornAtWork, PTL
<1>4. View[b].next = hdr[b].next /\ b \in DOMAIN View' /\ View'[b].next = hdr'[b].next
  BY <1>2, <1>3, ViewIs DEF HeadersSeen
<1>5. ASSUME b \in AtWork(t) \/ b \in AtWork(t)'
      PROVE  /\ View[b].size = Width(t, b) /\ View[b].free = Open(t, b)
             /\ View'[b].size = Width(t, b)' /\ View'[b].free = Open(t, b)'
  <2>1. Alone(t, b) /\ Alone(t, b)'
    BY <1>1, <1>5 DEF Alone, Elsewhere
  <2>2. View[b].size = Width(t, b) /\ View[b].free = Open(t, b)
    BY <1>2, <2>1, ViewAlone DEF SeenAlone
  <2>3. View'[b].size = Width(t, b)' /\ View'[b].free = Open(t, b)'
    BY <1>2, <1>3, <2>1 DEF SeenAlone
  <2> QED BY <2>2, <2>3
<1>6. ASSUME b \notin AtWork(t), b \notin AtWork(t)'
      PROVE  View'[b].size = View[b].size /\ View'[b].free = View[b].free /\ hdr'[b] = hdr[b]
  <2>1. hdr'[b] = hdr[b]
    BY <1>6 DEF Writes
  <2>2. /\ b \notin Torn(t) /\ ~(pc[t] \in {"shrink", "occupy"} /\ curr[t] = b)
        /\ b \notin Torn(t)' /\ ~(pc'[t] \in {"shrink", "occupy"} /\ curr'[t] = b)
    BY <1>3, <1>6, TornAtWork DEF TornInside, Whole
  <2>3. (\E u \in Task : b \in Torn(u)') <=> (\E u \in Task : b \in Torn(u))
    BY <1>1, <2>2 DEF Elsewhere
  <2>4. \A u \in Task \ {t} : pc'[u] = pc[u] /\ curr'[u] = curr[u]
    BY DEF Moves, Stays
  <2>5. GivesOut(b)' <=> GivesOut(b)
    BY <2>2, <2>4 DEF GivesOut
  <2>6. /\ View[b].free = (hdr[b].free /\ ~GivesOut(b))
        /\ (\E u \in Task : b \in Torn(u)) => View[b].size = hdr[b].next - b - 1
        /\ ~(\E u \in Task : b \in Torn(u)) => View[b].size = hdr[b].size
    BY <1>2, ViewIs DEF HeadersSeen
  <2>7. /\ View'[b].free = (hdr'[b].free /\ ~GivesOut(b)')
        /\ (\E u \in Task : b \in Torn(u)') => View'[b].size = hdr'[b].next - b - 1
        /\ ~(\E u \in Task : b \in Torn(u)') => View'[b].size = hdr'[b].size
    BY <1>2, <1>3 DEF HeadersSeen
  <2> QED BY <2>1, <2>3, <2>5, <2>6, <2>7
<1> QED BY <1>4, <1>5, <1>6 DEF Viewed

HeadersThere ==
    Headers(hdr) /\ (\A u \in Task : \A a \in Torn(u) : a \in DOMAIN hdr => a < hdr[a].next)
      => Headers(View)

LEMMA ViewHeaders ==
    HeadersThere
<1> SUFFICES ASSUME Headers(hdr), \A u \in Task : \A a \in Torn(u) : a \in DOMAIN hdr => a < hdr[a].next
             PROVE  Headers(View)
  BY DEF HeadersThere
<1>1. DOMAIN View = DOMAIN hdr /\ View = [a \in DOMAIN View |-> View[a]]
  BY DEF View
<1>2. ASSUME NEW a \in DOMAIN hdr PROVE View[a] \in Header
  <2>1. PICK r \in Header : r = hdr[a]
    BY DEF Headers
  <2>2. PICK size : size = IF \E u \in Task : a \in Torn(u) THEN hdr[a].next - a - 1 ELSE hdr[a].size
    OBVIOUS
  <2>3. PICK open : open = (hdr[a].free /\ ~GivesOut(a))
    OBVIOUS
  <2>4. View[a] = [r EXCEPT !.size = size, !.free = open]
    BY <2>1, <2>2, <2>3 DEF View
  <2>5. size \in Nat
    <3>1. a \in Nat /\ hdr[a].next \in Nat /\ hdr[a].size \in Nat
      BY <2>1 DEF Headers, Header
    <3>2. (\E u \in Task : a \in Torn(u)) => a < hdr[a].next
      OBVIOUS
    <3>3. a < hdr[a].next => hdr[a].next - a - 1 \in Nat
      BY <3>1
    <3> QED BY <2>2, <3>1, <3>2, <3>3
  <2>6. open \in BOOLEAN
    BY <2>1, <2>3 DEF Header
  <2> QED BY <2>4, <2>5, <2>6 DEF Header
<1>3. DOMAIN View \in SUBSET Nat /\ IsFiniteSet(DOMAIN View)
  BY <1>1 DEF Headers
<1> QED BY <1>1, <1>2, <1>3 DEF Headers

LEMMA HeadersOn ==
    ASSUME CallsSound, hdr # << >>, NEW t \in Task, Moves(t), Apart', Writes(t), Headers(hdr)',
           \A a \in Torn(t)' : a < hdr'[a].next
    PROVE  Headers(View)'
<1>1. HeadersThere'
  BY ViewHeaders, PTL
<1>2. ASSUME NEW u \in Task \ {t}, NEW a \in Torn(u) PROVE a < hdr'[a].next
  <2>1. a \in Blocks /\ a \in DOMAIN hdr
    BY <1>2, TornBlocks, HeapThere
  <2>2. Elsewhere(t, u) /\ a \in AtWork(u)
    BY <1>2, OthersStay, TornAtWork DEF TornInside, Whole
  <2>3. hdr'[a] = hdr[a]
    BY <2>1, <2>2 DEF Elsewhere, Writes
  <2>4. View[a].size = hdr[a].next - a - 1
    BY <1>2, <2>1, HeapThere, ViewIs DEF HeadersSeen
  <2>5. View[a].size \in Nat /\ a \in Nat /\ hdr[a].next \in Nat
    BY <2>1, HeapThere, LaidHas
  <2> QED BY <2>3, <2>4, <2>5
<1>3. \A u \in Task : \A a \in Torn(u)' : a < hdr'[a].next
  <2> SUFFICES ASSUME NEW u \in Task, NEW a \in Torn(u)' PROVE a < hdr'[a].next
    OBVIOUS
  <2>1. CASE u = t
    BY <2>1
  <2>2. CASE u # t
    <3>1. Elsewhere(t, u)
      BY <2>2, OthersStay
    <3> QED BY <1>2, <2>2, <3>1 DEF Elsewhere
  <2> QED BY <2>1, <2>2
<1> QED BY <1>1, <1>3 DEF HeadersThere

(* The code finds the blocks that the headers are laid out over.           *)
LEMMA BlocksNow ==
    ASSUME NEW C, Laid(View', Mapped', C, live'), Headers(hdr)'
    PROVE  Blocks' = C
<1>1. PICK h, w, current, given : h = hdr' /\ w = View' /\ current = Mapped' /\ given = live'
  OBVIOUS
<1>2. HeadersSeen'
  BY ViewIs, PTL
<1>3. DOMAIN w = DOMAIN h /\ \A a \in DOMAIN h : w[a].next = h[a].next
  BY <1>1, <1>2 DEF HeadersSeen
<1>4. Laid(w, current, C, given) /\ IsFiniteSet(DOMAIN h)
  BY <1>1 DEF Headers
<1>5. IsTiling(w, current, C) /\ Sized(w, C) /\ C \subseteq DOMAIN h /\ heap_start \in C
  BY <1>3, <1>4, LaidHas
<1>6. BlocksOf(h) = C
  BY <1>3, <1>4, <1>5, BlocksAre
<1> QED BY <1>1, <1>6 DEF Blocks

LEMMA StepTo ==
    ASSUME CallsSound, hdr # << >>, NEW t \in Task, Moves(t), NEW own, Raises(own), raced' = {},
           ~Idle(t) \/ done[t] < Len(Script[t]),
           Writes(t), Headers(hdr)', NEW C, Laid(View', Mapped', C, live'),
           \A x \in Blocks : x \in C \/ x \in AtWork(t),
           Placed(t)', Owned', Rooted', heap_tail' \in Nat, heap_current' \in Nat, Blocks' = C => Knows(t)'
    PROVE  CallsSound'
<1>1. Located'
  BY HeapThere, NotReaped, LocatedOn
<1>2. /\ Apart' /\ \A u \in Task : Searches(u)' => curr'[u] \in Blocks'
      /\ heap_pointer' \in Blocks' \/ \E u \in Task : pc'[u] \in {"nextBack", "pointer"}
  BY RacesGive DEF Moves
<1>3. Blocks' = C
  BY BlocksNow
<1>4. hdr' # << >>
  <2>1. PICK x : x \in DOMAIN hdr
    BY HeapThere
  <2>2. x \in DOMAIN hdr' /\ x \in Nat
    BY <2>1, HeapThere DEF Writes
  <2> QED BY <2>2, HeapThere DEF Writes
<1>5. ASSUME NEW u \in Task \ {t} PROVE Knows(u)'
  <2>1. Elsewhere(t, u)
    BY <1>2, OthersStay
  <2>2. \A x \in Blocks : x \in Blocks' \/ x \in AtWork(t)
    BY <1>3
  <2> QED BY <1>2, <2>1, <2>2, OthersKnow
<1>6. \A u \in Task : Knows(u)'
  BY <1>3, <1>5
<1>7. Built'
  BY <1>2, <1>3, <1>6 DEF Built
<1> QED BY <1>1, <1>2, <1>4, <1>7 DEF CallsSound

MapKept == Mapped' = Mapped /\ heap_current' \in Nat

LEMMA MappedStays ==
    ASSUME NEW t \in Task, Moves(t), pc[t] # "widen", pc'[t] # "widen", heap_current \in Nat,
           heap_current' = heap_current
    PROVE  MapKept
<1>1. \A u \in Task \ {t} : pc'[u] = pc[u]
  BY DEF Moves, Stays
<1>2. (\E u \in Task : pc'[u] = "widen") <=> (\E u \in Task : pc[u] = "widen")
  BY <1>1
<1> QED BY <1>2 DEF Mapped, MapKept

(* A step that changes no block as a walk along next has it.               *)
LEMMA Quiet ==
    ASSUME CallsSound, hdr # << >>, NEW t \in Task, Moves(t), NEW own, Raises(own), raced' = {},
           ~Idle(t) \/ done[t] < Len(Script[t]), Made(former) = 0 => t = former,
           Writes(t), Headers(hdr)', Torn(t)' \subseteq Blocks,
           \A b \in Blocks : b \in AtWork(t) \/ b \in AtWork(t)' =>
             /\ Width(t, b)' = Width(t, b) /\ Open(t, b)' = Open(t, b)
             /\ hdr'[b].next = hdr[b].next,
           MapKept, live' = live, Made(t)' = Made(t), Placed(t)', heap_tail' \in Nat,
           Blocks' = Blocks => Knows(t)'
    PROVE  CallsSound'
<1>1. Apart'
  BY RacesGive DEF Moves
<1>2. ASSUME NEW b \in Blocks PROVE Same(View, View', b) /\ b \in DOMAIN View'
  <2>1. b \in DOMAIN hdr
    BY HeapThere
  <2>2. /\ Viewed(t, b)
        /\ b \in DOMAIN View' /\ View[b].next = hdr[b].next /\ View'[b].next = hdr'[b].next
    BY <1>1, <2>1, ViewStep
  <2> QED BY <2>2 DEF Viewed, Same
<1>3. Headers(View)'
  <2>1. ASSUME NEW a \in Torn(t)' PROVE a < hdr'[a].next
    <3>1. a \in Blocks /\ a \in AtWork(t)'
      <4>1. TornInside'
        BY TornAtWork, PTL
      <4> QED BY <2>1, <4>1 DEF TornInside, Whole
    <3>2. Viewed(t, a) /\ Width(t, a)' = Width(t, a)
      BY <1>1, <3>1, ViewStep, HeapThere
    <3>3. Width(t, a)' = hdr'[a].next - a - 1
      BY <2>1 DEF Width
    <3>4. View[a].size = hdr'[a].next - a - 1
      BY <3>1, <3>2, <3>3 DEF Viewed
    <3>5. View[a].size \in Nat /\ a \in Nat
      BY <3>1, HeapThere, LaidHas
    <3>6. hdr'[a].next = hdr[a].next /\ hdr[a].next \in Nat
      BY <3>1, HeapThere
    <3> QED BY <3>4, <3>5, <3>6
  <2> QED BY <1>1, <2>1, HeadersOn
<1>4. PICK C : C = Blocks
  OBVIOUS
<1>5. Laid(View', Mapped', C, live')
  <2>1. PICK v, w, current, given : v = View /\ w = View' /\ current = Mapped /\ given = live
    OBVIOUS
  <2>2. Laid(v, current, C, given) /\ Headers(w) /\ C \subseteq DOMAIN w /\ \A b \in C : Same(v, w, b)
    BY <1>2, <1>3, <1>4, <2>1, HeapThere DEF MapKept
  <2>3. Laid(w, current, C, given)
    BY <2>2, SameLaid
  <2> QED BY <2>1, <2>3 DEF MapKept
<1>6. Owned'
  BY HeapThere, OwnedStays
<1>7. Blocks' = Blocks
  BY <1>4, <1>5, BlocksNow
<1>8. Rooted'
  <2>1. Made(former) = 0 => t = former /\ (hdr' # << >> => Blocks' = {heap_start})
    BY <1>7, HeapThere DEF Rooted
  <2> QED BY <2>1, HeapThere, RootedStays
<1>9. \A x \in Blocks : x \in C \/ x \in AtWork(t)
  BY <1>4
<1>10. Blocks' = C => Knows(t)'
  BY <1>4
<1>11. heap_current' \in Nat
  BY DEF MapKept
<1> QED BY <1>5, <1>6, <1>8, <1>9, <1>10, <1>11, StepTo

-----------------------------------------------------------------------------
(* A step of a call in progress that gives out nothing and takes nothing   *)
(* back.                                                                   *)
Onward(t, p, d, c, n, b) ==
    /\ raced = {} /\ reaped' = reaped /\ pc[t] # "idle" /\ p \in Called /\ {c, n, b} \subseteq Int
    /\ pc' = [pc EXCEPT ![t] = p] /\ done' = [done EXCEPT ![t] = d]
    /\ curr' = [curr EXCEPT ![t] = c] /\ pages' = [pages EXCEPT ![t] = n]
    /\ block' = [block EXCEPT ![t] = b]
    /\ \/ p = "idle" /\ d = IF pc[t] \in Given THEN done[t] + 1 ELSE done[t]
       \/ /\ p # "idle" /\ d = done[t]
          /\ p \in FreeSteps <=> pc[t] \in FreeSteps
          /\ p \in Given <=> pc[t] \in Given
GoneOn(t, p, d, c, n, b) ==
    /\ Moves(t) /\ hdr # << >> /\ Placed(t)' /\ Made(t)' = Made(t) /\ (Made(former) = 0 => t = former)
    /\ pc'[t] = p /\ done'[t] = d /\ curr'[t] = c /\ pages'[t] = n /\ block'[t] = b
    /\ ~Idle(t) /\ Knows(t) /\ (pc[t] \notin FreeSteps => Call(t).size \in Nat)
    /\ p # "idle" => Call(t)' = Call(t)

LEMMA OnwardIs ==
    ASSUME CallsSound, NEW t \in Task, NEW p, NEW d, NEW c, NEW n, NEW b, Onward(t, p, d, c, n, b)
    PROVE  GoneOn(t, p, d, c, n, b)
<1>1. /\ raced = {} /\ pc[t] # "idle" /\ p \in Called
      /\ pc' = [pc EXCEPT ![t] = p] /\ done' = [done EXCEPT ![t] = d]
      /\ \/ p = "idle" /\ d = IF pc[t] \in Given THEN done[t] + 1 ELSE done[t]
         \/ /\ p # "idle" /\ d = done[t]
            /\ p \in FreeSteps <=> pc[t] \in FreeSteps
            /\ p \in Given <=> pc[t] \in Given
  BY DEF Onward
<1>2. Located /\ Rooted /\ ~Idle(t)
  BY <1>1 DEF CallsSound, Idle
<1>3. done[t] \in Nat /\ Call(t).op = (IF pc[t] \in FreeSteps THEN "free" ELSE "malloc")
  BY <1>2, Where DEF Placed, Frees
<1>4. Moves(t) /\ pc'[t] = p /\ done'[t] = d /\ curr'[t] = c /\ pages'[t] = n /\ block'[t] = b
  <2>1. d \in Nat
    BY <1>1, <1>3
  <2>2. Goes(t, p, d, c, n, b)
    BY <2>1 DEF Goes, Onward
  <2> QED BY <1>2, <2>2, MovesIs
<1>5. Placed(t)'
  <2>1. IF p = "idle" THEN done'[t] \in {done[t], done[t] + 1} ELSE done'[t] = done[t]
    BY <1>1, <1>4
  <2>2. p = "idle" \/ Call(t).op = IF p \in FreeSteps THEN "free" ELSE "malloc"
    BY <1>1, <1>3
  <2> QED BY <1>1, <1>2, <1>4, <2>1, <2>2, PlacedOn
<1>6. Made(t)' = Made(t)
  <2>1. "idle" \notin Given
    BY DEF Given, FreeSteps, MergeSteps, MergeBackSteps
  <2>2. CASE p = "idle" /\ pc[t] \in Given
    <3>1. Made(t) = done[t] + 1 /\ Made(t)' = done'[t] + 0 /\ done'[t] = done[t] + 1
      BY <1>1, <1>4, <2>1, <2>2, MadeIs
    <3> QED BY <1>3, <3>1
  <2>3. CASE p = "idle" /\ pc[t] \notin Given
    <3>1. Made(t) = done[t] + 0 /\ Made(t)' = done'[t] + 0 /\ done'[t] = done[t]
      BY <1>1, <1>4, <2>1, <2>3, MadeIs
    <3> QED BY <1>3, <3>1
  <2>4. CASE p # "idle" /\ pc[t] \in Given
    <3>1. Made(t) = done[t] + 1 /\ Made(t)' = done'[t] + 1 /\ done'[t] = done[t]
      BY <1>1, <1>4, <2>4, MadeIs
    <3> QED BY <3>1
  <2>5. CASE p # "idle" /\ pc[t] \notin Given
    <3>1. Made(t) = done[t] + 0 /\ Made(t)' = done'[t] + 0 /\ done'[t] = done[t]
      BY <1>1, <1>4, <2>5, MadeIs
    <3> QED BY <3>1
  <2> QED BY <2>2, <2>3, <2>4, <2>5
<1>7. Made(former) = 0 => t = former
  BY <1>2, OnlyFormer
<1>8. hdr # << >> /\ Knows(t)
  <2>1. hdr # << >>
    BY <1>2 DEF CallsSound
  <2> QED BY <2>1, HeapThere
<1>9. pc[t] \notin FreeSteps => Call(t).size \in Nat
  BY <1>2, <1>3, CallIs
<1>10. p # "idle" => Call(t)' = Call(t)
  BY <1>1, <1>4 DEF Call
<1> QED BY <1>2, <1>4, <1>5, <1>6, <1>7, <1>8, <1>9, <1>10 DEF GoneOn

(* What a call has to know that searches, or is about to start or to grow. *)
LEMMA EasyKnows ==
    ASSUME NEW t \in Task, pc'[t] \in SearchSteps \cup {"idle", "grow"},
           NEW own, Raises(own), raced = {}, raced' = {}
    PROVE  Knows(t)'
<1>1. pc'[t] \notin SplitSteps \cup GrowSteps \cup FreeSteps \cup {"sbrk", "widen"}
  BY DEF SearchSteps, SplitSteps, GrowSteps, FreeSteps, MergeSteps, MergeBackSteps
<1>2. Searches(t)' => curr'[t] \in Blocks'
  BY RacesGive
<1> QED BY <1>1, <1>2 DEF Knows, Frees

TornSteps == {"shrink", "occupy", "nextLink", "prevLink"}

(* A step that leaves the headers alone.                                   *)
LEMMA Still ==
    ASSUME CallsSound, NEW t \in Task, NEW p, NEW d, NEW c, NEW n, NEW b, Onward(t, p, d, c, n, b),
           NEW own, Raises(own), raced' = {}, hdr' = hdr, live' = live, MapKept,
           pc[t] \notin TornSteps, p \notin TornSteps,
           \/ heap_tail' = heap_tail
           \/ pc[t] \in SplitSteps /\ hdr[curr[t]].next = heap_start /\ heap_tail' \in Nat,
           Knows(t)'
    PROVE  CallsSound'
<1>1. GoneOn(t, p, d, c, n, b)
  BY OnwardIs
<1>2. /\ Moves(t) /\ hdr # << >> /\ Placed(t)' /\ Made(t)' = Made(t) /\ (Made(former) = 0 => t = former)
      /\ pc'[t] = p /\ ~Idle(t)
  BY <1>1 DEF GoneOn
<1>3. Writes(t)
  BY DEF Writes
<1>4. Headers(hdr)' /\ heap_tail' \in Nat
  BY <1>2, HeapThere
<1>5. Torn(t) = {} /\ Torn(t)' = {}
  BY <1>2 DEF Torn, TornSteps
<1>6. ASSUME NEW x \in Blocks
      PROVE  Width(t, x)' = Width(t, x) /\ Open(t, x)' = Open(t, x) /\ hdr'[x].next = hdr[x].next
  <2>1. Width(t, x)' = Width(t, x)
    BY <1>5 DEF Width
  <2>2. Open(t, x)' = Open(t, x)
    BY <1>2 DEF Open, TornSteps
  <2> QED BY <2>1, <2>2
<1> QED BY <1>2, <1>3, <1>4, <1>5, <1>6, Quiet

LEMMA SearchSound ==
    ASSUME CallsSound, NEW t \in Task, Search(t), raced' = {}
    PROVE  CallsSound'
<1>1. PICK p : p = IF hdr[curr[t]].free THEN "size" ELSE "next"
  OBVIOUS
<1>2. /\ raced = {} /\ pc[t] = "search" /\ pc' = [pc EXCEPT ![t] = p]
      /\ UNCHANGED <<blocks, live, done, curr, pages, block, reaped>> /\ Raises({})
  BY <1>1 DEF Search, Test, Step, Races
<1>3. PICK c, n, b, d : c = curr[t] /\ n = pages[t] /\ b = block[t] /\ d = done[t]
  OBVIOUS
<1>4. p \in {"size", "next"} /\ p \in Called /\ p \notin FreeSteps /\ p \notin Given /\ p \in SearchSteps
  BY <1>1 DEF Called, SearchSteps, FreeSteps, MergeSteps, MergeBackSteps, Given
<1>5. "search" \notin FreeSteps /\ "search" \notin Given
  BY DEF FreeSteps, MergeSteps, MergeBackSteps, Given
<1>6. Onward(t, p, d, c, n, b)
  BY <1>2, <1>3, <1>4, <1>5, Where DEF Onward, CallsSound
<1>7. GoneOn(t, p, d, c, n, b)
  BY <1>6, OnwardIs
<1>8. Knows(t)'
  BY <1>2, <1>4, <1>7, EasyKnows DEF GoneOn
<1>9. MapKept
  BY <1>2, <1>4, <1>7, MappedStays, HeapThere DEF GoneOn, blocks
<1> QED BY <1>2, <1>4, <1>6, <1>8, <1>9, Still DEF TornSteps, blocks

LEMMA SizeSound ==
    ASSUME CallsSound, NEW t \in Task, Size(t), raced' = {}
    PROVE  CallsSound'
<1>1. PICK p : p = IF hdr[curr[t]].size >= Call(t).size + 1 THEN "rest" ELSE "next"
  OBVIOUS
<1>2. PICK own : own = IF hdr[curr[t]].size >= Call(t).size + 1 /\ ~hdr[curr[t]].free
                         THEN {"taken"} ELSE {}
  OBVIOUS
<1>3. /\ raced = {} /\ pc[t] = "size" /\ pc' = [pc EXCEPT ![t] = p]
      /\ UNCHANGED <<blocks, live, done, curr, pages, block, reaped>> /\ Raises(own)
  <2>1. /\ raced = {} /\ pc[t] = "size" /\ pc' = [pc EXCEPT ![t] = p]
        /\ UNCHANGED <<blocks, live, done, curr, pages, block, reaped>>
    BY <1>1 DEF Size, Test, Step
  <2>2. Raises(own)
    BY <1>2 DEF Size, Raises
  <2> QED BY <2>1, <2>2
<1>4. PICK c, n, b, d : c = curr[t] /\ n = pages[t] /\ b = block[t] /\ d = done[t]
  OBVIOUS
<1>5. p \in {"rest", "next"} /\ p \in Called /\ p \notin FreeSteps /\ p \notin Given
  BY <1>1 DEF Called, SearchSteps, SplitSteps, FreeSteps, MergeSteps, MergeBackSteps, Given
<1>6. "size" \notin FreeSteps /\ "size" \notin Given /\ "size" \in SearchSteps
  BY DEF FreeSteps, MergeSteps, MergeBackSteps, Given, SearchSteps
<1>7. Onward(t, p, d, c, n, b)
  BY <1>3, <1>4, <1>5, <1>6, Where DEF Onward, CallsSound
<1>8. GoneOn(t, p, d, c, n, b)
  BY <1>7, OnwardIs
<1>9. Knows(t)'
  <2>1. CASE p = "next"
    BY <1>3, <1>8, <2>1, EasyKnows DEF GoneOn, SearchSteps
  <2>2. CASE p = "rest"
    <3>1. hdr[c].size >= Call(t).size + 1 /\ hdr[c].free
      BY <1>1, <1>2, <1>3, <1>4, <2>2, RacesGive
    <3>2. c \in Blocks /\ Call(t)' = Call(t) /\ curr'[t] = c /\ pc'[t] = "rest"
      BY <1>3, <1>4, <1>6, <1>8, <2>2 DEF GoneOn, Knows, Searches
    <3>3. hdr' = hdr /\ Blocks' = Blocks
      BY <1>3 DEF blocks, Blocks
    <3>4. Splits(t, curr[t], New(t))'
      BY <1>1, <1>4, <3>1, <3>2, <3>3 DEF Splits
    <3>5. pc'[t] \notin SearchSteps \cup GrowSteps \cup FreeSteps \cup {"sbrk", "widen"}
      BY <3>2 DEF SearchSteps, GrowSteps, FreeSteps, MergeSteps, MergeBackSteps
    <3> QED BY <3>4, <3>5 DEF Knows, Searches, Frees
  <2> QED BY <1>5, <2>1, <2>2
<1>10. MapKept
  BY <1>3, <1>5, <1>8, MappedStays, HeapThere DEF GoneOn, blocks
<1> QED BY <1>3, <1>5, <1>7, <1>9, <1>10, Still DEF TornSteps, blocks

LEMMA AdvanceSound ==
    ASSUME CallsSound, NEW t \in Task, Advance(t), raced' = {}
    PROVE  CallsSound'
<1>1. PICK c, n, b, d : c = hdr[curr[t]].next /\ n = pages[t] /\ b = block[t] /\ d = done[t]
  OBVIOUS
<1>2. /\ raced = {} /\ pc[t] = "next" /\ pc' = [pc EXCEPT ![t] = "wrap"]
      /\ curr' = [curr EXCEPT ![t] = c]
      /\ UNCHANGED <<blocks, live, done, pages, block, reaped>> /\ Raises({})
  BY <1>1 DEF Advance, Step, Races
<1>3. /\ "wrap" \in Called /\ "wrap" \notin FreeSteps /\ "wrap" \notin Given /\ "wrap" \in SearchSteps
      /\ "next" \notin FreeSteps /\ "next" \notin Given /\ "next" \in SearchSteps
  BY DEF Called, SearchSteps, FreeSteps, MergeSteps, MergeBackSteps, Given
<1>4. c \in Int
  <2>1. hdr # << >>
    BY <1>2 DEF CallsSound, Idle
  <2>2. curr[t] \in Blocks
    BY <1>2, <1>3, <2>1, HeapThere DEF Knows, Searches
  <2>3. c \in Nat
    BY <1>1, <2>1, <2>2, HeapThere
  <2> QED BY <2>3
<1>5. Onward(t, "wrap", d, c, n, b)
  BY <1>1, <1>2, <1>3, <1>4, Where DEF Onward, CallsSound
<1>6. GoneOn(t, "wrap", d, c, n, b)
  BY <1>5, OnwardIs
<1>7. Knows(t)'
  BY <1>2, <1>3, <1>6, EasyKnows DEF GoneOn
<1>8. MapKept
  BY <1>2, <1>6, MappedStays, HeapThere DEF GoneOn, blocks
<1> QED BY <1>2, <1>5, <1>7, <1>8, Still DEF TornSteps, blocks

LEMMA WrapSound ==
    ASSUME CallsSound, NEW t \in Task, Wrap(t), raced' = {}
    PROVE  CallsSound'
<1>1. PICK p : p = IF curr[t] = EndsAt THEN "grow" ELSE "search"
  OBVIOUS
<1>2. /\ raced = {} /\ pc[t] = "wrap" /\ pc' = [pc EXCEPT ![t] = p]
      /\ UNCHANGED <<blocks, live, done, curr, pages, block, reaped>> /\ Raises({})
  BY <1>1 DEF Wrap, Test, Step, Races
<1>3. PICK c, n, b, d : c = curr[t] /\ n = pages[t] /\ b = block[t] /\ d = done[t]
  OBVIOUS
<1>4. p \in {"grow", "search"} /\ p \in Called /\ p \notin FreeSteps /\ p \notin Given
  BY <1>1 DEF Called, SearchSteps, FreeSteps, MergeSteps, MergeBackSteps, Given
<1>5. "wrap" \notin FreeSteps /\ "wrap" \notin Given
  BY DEF FreeSteps, MergeSteps, MergeBackSteps, Given
<1>6. Onward(t, p, d, c, n, b)
  BY <1>2, <1>3, <1>4, <1>5, Where DEF Onward, CallsSound
<1>7. GoneOn(t, p, d, c, n, b)
  BY <1>6, OnwardIs
<1>8. Knows(t)'
  BY <1>2, <1>4, <1>7, EasyKnows DEF GoneOn, SearchSteps
<1>9. MapKept
  BY <1>2, <1>4, <1>7, MappedStays, HeapThere DEF GoneOn, blocks
<1> QED BY <1>2, <1>4, <1>6, <1>8, <1>9, Still DEF TornSteps, blocks

LEMMA PointSound ==
    ASSUME CallsSound, NEW t \in Task, Point(t), raced' = {}
    PROVE  CallsSound'
<1>1. PICK n, b, d : n = pages[t] /\ b = block[t] /\ d = done[t] + 1
  OBVIOUS
<1>2. /\ raced = {} /\ pc[t] = "point" /\ pc' = [pc EXCEPT ![t] = "idle"]
      /\ done' = [done EXCEPT ![t] = d] /\ curr' = [curr EXCEPT ![t] = NONE]
      /\ UNCHANGED <<hdr, heap_tail, heap_current, live, pages, block, reaped>> /\ Raises({})
  BY <1>1 DEF Point, Step, Races
<1>3. "idle" \in Called /\ "point" \in Given /\ NONE \in Int
  BY DEF Called, Given, NONE
<1>4. Onward(t, "idle", d, NONE, n, b)
  BY <1>1, <1>2, <1>3, Where DEF Onward, CallsSound
<1>5. GoneOn(t, "idle", d, NONE, n, b)
  BY <1>4, OnwardIs
<1>6. Knows(t)'
  BY <1>2, <1>5, EasyKnows DEF GoneOn
<1>7. MapKept
  BY <1>2, <1>5, MappedStays, HeapThere DEF GoneOn
<1> QED BY <1>2, <1>4, <1>6, <1>7, Still DEF TornSteps

LEMMA GrowSound ==
    ASSUME CallsSound, NEW t \in Task, Grow(t), raced' = {}
    PROVE  CallsSound'
<1>1. PICK own : own = IF heap_tail \in Blocks /\ hdr[heap_tail].next = heap_start THEN {} ELSE {"tail"}
  OBVIOUS
<1>2. PICK n, b, d : n = pages[t] /\ b = block[t] /\ d = done[t]
  OBVIOUS
<1>3. /\ raced = {} /\ pc[t] = "grow" /\ pc' = [pc EXCEPT ![t] = "count"]
      /\ curr' = [curr EXCEPT ![t] = NONE]
      /\ UNCHANGED <<blocks, live, done, pages, block, reaped>> /\ Raises(own)
  <2>1. /\ raced = {} /\ pc[t] = "grow" /\ pc' = [pc EXCEPT ![t] = "count"]
        /\ curr' = [curr EXCEPT ![t] = NONE]
        /\ UNCHANGED <<blocks, live, done, pages, block, reaped>>
    BY DEF Grow, Step
  <2>2. Raises(own)
    BY <1>1 DEF Grow, Raises
  <2> QED BY <2>1, <2>2
<1>4. /\ "count" \in Called /\ "count" \notin FreeSteps /\ "count" \notin Given
      /\ "grow" \notin FreeSteps /\ "grow" \notin Given /\ NONE \in Int
  BY DEF Called, GrowSteps, FreeSteps, MergeSteps, MergeBackSteps, Given, NONE
<1>5. Onward(t, "count", d, NONE, n, b)
  BY <1>2, <1>3, <1>4, Where DEF Onward, CallsSound
<1>6. GoneOn(t, "count", d, NONE, n, b)
  BY <1>5, OnwardIs
<1>7. Knows(t)'
  <2>1. heap_tail \in Blocks /\ hdr[heap_tail].next = heap_start
    BY <1>1, <1>3, RacesGive
  <2>2. heap_tail' = heap_tail /\ hdr' = hdr /\ Blocks' = Blocks /\ pc'[t] = "count"
    BY <1>3, <1>6 DEF blocks, Blocks, GoneOn
  <2>3. "count" \notin SearchSteps \cup SplitSteps \cup FreeSteps
    BY DEF SearchSteps, SplitSteps, FreeSteps, MergeSteps, MergeBackSteps
  <2> QED BY <2>1, <2>2, <2>3 DEF Knows, Searches, Frees
<1>8. MapKept
  BY <1>3, <1>6, MappedStays, HeapThere DEF GoneOn, blocks
<1> QED BY <1>3, <1>5, <1>7, <1>8, Still DEF TornSteps, blocks

(* The quotient of the page count.                                         *)
LEMMA Product ==
    ASSUME NEW m \in Int
    PROVE  (m + PAGE - 1) \div PAGE \in Int
<1>1. PICK page \in Nat \ {0} : page = PAGE
  BY ScriptAssumption
<1>2. (m + page - 1) \div page \in Int
  BY <1>1
<1> QED BY <1>1, <1>2

(* A call that is growing the heap goes on growing it.                     *)
LEMMA GrowKnows ==
    ASSUME NEW t \in Task, Knows(t), pc[t] \in GrowSteps, pc'[t] \in {"sbrk", "widen"},
           pages'[t] >= 1, UNCHANGED <<hdr, heap_tail>>
    PROVE  Knows(t)'
<1>1. heap_tail \in Blocks /\ hdr[heap_tail].next = heap_start
  BY DEF Knows
<1>2. Blocks' = Blocks
  BY DEF Blocks
<1>3. pc'[t] \notin SearchSteps \cup SplitSteps \cup FreeSteps
  BY DEF SearchSteps, SplitSteps, FreeSteps, MergeSteps, MergeBackSteps
<1> QED BY <1>1, <1>2, <1>3 DEF Knows, Searches, Frees

LEMMA CountSound ==
    ASSUME CallsSound, NEW t \in Task, Count(t), raced' = {}
    PROVE  CallsSound'
<1>1. PICK n : n = (Call(t).size - hdr[heap_tail].size + PAGE - 1) \div PAGE
  OBVIOUS
<1>2. PICK p : p = IF n = 0 THEN "idle" ELSE "sbrk"
  OBVIOUS
<1>3. PICK own : own = IF n > 0 \/ (n = 0 /\ \E a \in Blocks : Fit(a, Call(t).size)) THEN {} ELSE {"pages"}
  OBVIOUS
<1>4. PICK c, b, d : c = curr[t] /\ b = block[t] /\ d = done[t]
  OBVIOUS
<1>5. /\ raced = {} /\ pc[t] = "count" /\ pc' = [pc EXCEPT ![t] = p]
      /\ pages' = [pages EXCEPT ![t] = n]
      /\ UNCHANGED <<blocks, live, done, curr, block, reaped>> /\ Raises(own)
  <2>1. /\ raced = {} /\ pc[t] = "count" /\ pc' = [pc EXCEPT ![t] = p]
        /\ pages' = [pages EXCEPT ![t] = n]
        /\ UNCHANGED <<blocks, live, done, curr, block, reaped>>
    BY <1>1, <1>2 DEF Count, Step
  <2>2. Raises(own)
    BY <1>1, <1>3 DEF Count, Raises
  <2> QED BY <2>1, <2>2
<1>6. p \in {"idle", "sbrk"} /\ p \in Called /\ p \notin FreeSteps /\ p \notin Given
  BY <1>2 DEF Called, GrowSteps, FreeSteps, MergeSteps, MergeBackSteps, Given
<1>7. "count" \notin FreeSteps /\ "count" \notin Given /\ "count" \in GrowSteps
  BY DEF FreeSteps, MergeSteps, MergeBackSteps, Given, GrowSteps
<1>8. hdr # << >> /\ Knows(t) /\ Located /\ ~Idle(t)
  <2>1. hdr # << >> /\ ~Idle(t) /\ Located
    BY <1>5 DEF CallsSound, Idle
  <2> QED BY <2>1, HeapThere
<1>9. n \in Int
  <2>1. heap_tail \in Blocks
    BY <1>5, <1>7, <1>8 DEF Knows
  <2>2. PICK s, x : s = Call(t).size /\ x = hdr[heap_tail].size
    OBVIOUS
  <2>3. s \in Nat /\ x \in Nat
    BY <1>5, <1>7, <1>8, <2>1, <2>2, HeapThere, CallIs DEF Frees
  <2>4. PICK m : m = s - x
    OBVIOUS
  <2>5. m \in Int
    BY <2>3, <2>4
  <2>6. n = (m + PAGE - 1) \div PAGE
    BY <1>1, <2>2, <2>4
  <2> QED BY <2>5, <2>6, Product
<1>10. Onward(t, p, d, c, n, b)
  BY <1>4, <1>5, <1>6, <1>7, <1>8, <1>9, Where DEF Onward
<1>11. GoneOn(t, p, d, c, n, b)
  BY <1>10, OnwardIs
<1>12. Knows(t)'
  <2>1. CASE p = "idle"
    BY <1>5, <1>11, <2>1, EasyKnows DEF GoneOn
  <2>2. CASE p = "sbrk"
    <3>1. n # 0 /\ n > 0
      BY <1>2, <1>3, <1>5, <2>2, RacesGive
    <3>2. pages'[t] >= 1 /\ pc'[t] = "sbrk"
      BY <1>9, <1>11, <2>2, <3>1 DEF GoneOn
    <3> QED BY <1>5, <1>7, <1>8, <3>2, GrowKnows DEF blocks
  <2> QED BY <1>6, <2>1, <2>2
<1>13. MapKept
  BY <1>5, <1>6, <1>11, MappedStays, HeapThere DEF GoneOn, blocks
<1> QED BY <1>5, <1>6, <1>10, <1>12, <1>13, Still DEF TornSteps, blocks

(* One call at a time grows the heap.                                      *)
LEMMA GrowsAlone ==
    ASSUME Apart, NEW t \in Task, pc[t] \in GrowSteps, NEW u \in Task \ {t}
    PROVE  pc[u] \notin GrowSteps
<1>1. AtWork(t) \cap AtWork(u) = {}
  BY DEF Apart
<1>2. pc[u] \in GrowSteps => heap_tail \in AtWork(u)
  BY Working DEF WorksOn, WorksAll
<1>3. heap_tail \in AtWork(t)
  BY Working DEF WorksOn, WorksAll
<1> QED BY <1>1, <1>2, <1>3

LEMMA sbrkSound ==
    ASSUME CallsSound, NEW t \in Task, sbrk(t), raced' = {}
    PROVE  CallsSound'
<1>1. PICK c, n, b, d : c = curr[t] /\ n = pages[t] /\ b = block[t] /\ d = done[t]
  OBVIOUS
<1>2. /\ raced = {} /\ pc[t] = "sbrk" /\ pc' = [pc EXCEPT ![t] = "widen"]
      /\ heap_current' = heap_current + PAGE
      /\ UNCHANGED <<hdr, heap_tail, heap_pointer, live, done, curr, pages, block, reaped>> /\ Raises({})
  BY DEF sbrk, Step, Races
<1>3. /\ "widen" \in Called /\ "widen" \notin FreeSteps /\ "widen" \notin Given
      /\ "sbrk" \notin FreeSteps /\ "sbrk" \notin Given /\ "sbrk" \in GrowSteps
  BY DEF Called, GrowSteps, FreeSteps, MergeSteps, MergeBackSteps, Given
<1>4. Onward(t, "widen", d, c, n, b)
  BY <1>1, <1>2, <1>3, Where DEF Onward, CallsSound
<1>5. GoneOn(t, "widen", d, c, n, b)
  BY <1>4, OnwardIs
<1>6. Knows(t)'
  <2>1. Knows(t) /\ pages[t] >= 1 /\ pc'[t] = "widen" /\ pages'[t] = pages[t]
    BY <1>1, <1>2, <1>5 DEF GoneOn, Knows
  <2> QED BY <1>2, <1>3, <2>1, GrowKnows
<1>7. MapKept
  <2>1. \A u \in Task \ {t} : pc[u] # "widen"
    BY <1>2, <1>3, <1>5, HeapThere, GrowsAlone DEF GoneOn, GrowSteps
  <2>2. ~(\E u \in Task : pc[u] = "widen") /\ (\E u \in Task : pc'[u] = "widen")
    BY <1>2, <1>5, <2>1 DEF GoneOn
  <2>4. PICK current, page : current = heap_current /\ page = PAGE
    OBVIOUS
  <2>5. current \in Nat /\ page \in Nat /\ heap_current' = current + page
    BY <1>2, <1>5, <2>4, HeapThere, ScriptAssumption DEF GoneOn
  <2>6. Mapped = current - 0 /\ Mapped' = heap_current' - page
    BY <2>2, <2>4 DEF Mapped
  <2> QED BY <2>5, <2>6 DEF MapKept
<1> QED BY <1>2, <1>4, <1>6, <1>7, Still DEF TornSteps

-----------------------------------------------------------------------------
(* The split.                                                              *)
LEMMA ViewMine ==
    ASSUME CallsSound, hdr # << >>, NEW t \in Task, NEW b \in DOMAIN hdr, b \in AtWork(t)
    PROVE  View[b].size = Width(t, b) /\ View[b].free = Open(t, b) /\ View[b].next = hdr[b].next
<1>1. Alone(t, b)
  BY HeapThere DEF Alone, Apart
<1>2. Headers(hdr)
  BY HeapThere
<1> QED BY <1>1, <1>2, ViewAlone, ViewIs DEF SeenAlone, HeadersSeen

Uncut == {"rest", "tail", "back", "link"}
SplitFacts(t, a, size, new) ==
    /\ size \in Nat /\ a \in Blocks /\ a \in Nat /\ a \in DOMAIN hdr /\ new = a + 1 + size /\ new \in Nat
    /\ a < new /\ hdr[a].free /\ Splits(t, a, new) /\ AtWork(t) = {a, new}
    /\ pc[t] \in Uncut => new \notin Blocks /\ View[a].size = hdr[a].size /\ View[a].free

LEMMA SplitIs ==
    ASSUME CallsSound, hdr # << >>, NEW t \in Task, pc[t] \in SplitSteps,
           NEW a, a = curr[t], NEW size, size = Call(t).size, NEW new, new = New(t)
    PROVE  SplitFacts(t, a, size, new)
<1>1. Splits(t, a, new) /\ AtWork(t) = {a, new}
  BY HeapThere, Working DEF Knows, WorksOn, WorksAll
<1>2. pc[t] \notin FreeSteps /\ pc[t] # "idle"
  BY DEF SplitSteps, FreeSteps, MergeSteps, MergeBackSteps
<1>3. size \in Nat
  BY <1>2, HeapThere, CallIs DEF Frees, Idle
<1>4. a \in Blocks /\ a \in DOMAIN hdr /\ a \in Nat /\ hdr[a].free
  BY <1>1, HeapThere DEF Splits
<1>5. new = a + 1 + size /\ new \in Nat /\ a < new
  <2>1. new = a + 1 + size
    BY DEF New
  <2> QED BY <1>3, <1>4, <2>1
<1>6. ASSUME pc[t] \in Uncut PROVE new \notin Blocks /\ View[a].size = hdr[a].size /\ View[a].free
  <2>1. View[a].size = hdr[a].size /\ View[a].free
    <3>1. a \notin Torn(t) /\ pc[t] \notin {"shrink", "occupy"}
      BY <1>6 DEF Torn, Uncut
    <3>2. View[a].size = Width(t, a) /\ View[a].free = Open(t, a)
      BY <1>1, <1>4, ViewMine
    <3> QED BY <1>4, <3>1, <3>2 DEF Width, Open
  <2>2. hdr[a].size >= size + 1 /\ hdr[a].size \in Nat
    BY <1>1, <1>4, <1>6, HeapThere DEF Splits, Uncut
  <2>3. new < End(View, a)
    BY <1>3, <1>4, <1>5, <2>1, <2>2 DEF End
  <2>4. PICK v, current, given : v = View /\ current = Mapped /\ given = live
    OBVIOUS
  <2>5. Laid(v, current, Blocks, given)
    BY <2>4, HeapThere
  <2>6. new \notin Blocks
    BY <1>4, <1>5, <2>3, <2>4, <2>5, Inside
  <2> QED BY <2>1, <2>6
<1> QED BY <1>1, <1>3, <1>4, <1>5, <1>6 DEF SplitFacts

LEMMA SplitKnows ==
    ASSUME NEW t \in Task, NEW p, p \in SplitSteps, pc'[t] = p, NEW a, NEW new, curr'[t] = a, New(t)' = new,
           Splits(t, a, new)'
    PROVE  Knows(t)'
<1>1. Splits(t, curr[t], New(t))'
  BY DEF Splits
<1>2. pc'[t] \notin SearchSteps \cup GrowSteps \cup {"sbrk", "widen"} \cup FreeSteps
  BY DEF SplitSteps, SearchSteps, GrowSteps, FreeSteps, MergeSteps, MergeBackSteps
<1> QED BY <1>1, <1>2 DEF Knows, Searches, Frees

LEMMA StoreRestSound ==
    ASSUME CallsSound, NEW t \in Task, StoreRest(t), raced' = {}
    PROVE  CallsSound'
<1>1. PICK a, size, new : a = curr[t] /\ size = Call(t).size /\ new = New(t)
  OBVIOUS
<1>2. PICK n, b, d : n = pages[t] /\ b = block[t] /\ d = done[t]
  OBVIOUS
<1>3. PICK r : r = [Rest(a, size) EXCEPT !.prev = NONE]
  OBVIOUS
<1>4. /\ raced = {} /\ pc[t] = "rest" /\ pc' = [pc EXCEPT ![t] = "tail"] /\ hdr' = Put(hdr, new, r)
      /\ UNCHANGED <<globals, live, done, curr, pages, block, reaped>> /\ Raises({})
  BY <1>1, <1>3 DEF StoreRest, Store, Step, Races
<1>5. /\ "tail" \in Called /\ "tail" \notin FreeSteps /\ "tail" \notin Given /\ "tail" \in SplitSteps
      /\ "rest" \notin FreeSteps /\ "rest" \notin Given /\ "rest" \in SplitSteps /\ "rest" \in Uncut
  BY DEF Called, SplitSteps, FreeSteps, MergeSteps, MergeBackSteps, Given, Uncut
<1>6. GoneOn(t, "tail", d, a, n, b)
  <2>1. Onward(t, "tail", d, a, n, b)
    BY <1>1, <1>2, <1>4, <1>5, Where DEF Onward, CallsSound
  <2> QED BY <2>1, OnwardIs
<1>7. SplitFacts(t, a, size, new)
  BY <1>1, <1>4, <1>5, <1>6, SplitIs DEF GoneOn
<1>8. /\ hdr[a].size >= size + 1 /\ hdr[a].size \in Nat /\ hdr[a].next \in Nat /\ a # new
      /\ new \notin Blocks /\ Headers(hdr)
  BY <1>1, <1>4, <1>5, <1>6, <1>7, HeapThere DEF SplitFacts, Splits, GoneOn
<1>9. r = [size |-> hdr[a].size - size - 1, free |-> TRUE, next |-> hdr[a].next, prev |-> NONE]
  BY <1>3 DEF Rest
<1>10. r \in Header /\ r.free /\ r.next = hdr[a].next /\ r.size = hdr[a].size - size - 1
  <2>1. hdr[a].size - size - 1 \in Nat
    BY <1>7, <1>8 DEF SplitFacts
  <2> QED BY <1>8, <1>9, <2>1 DEF Header, NONE
<1>11. /\ DOMAIN hdr' = DOMAIN hdr \cup {new} /\ hdr'[new] = r
       /\ \A x \in DOMAIN hdr : x # new => hdr'[x] = hdr[x]
       /\ hdr' = [x \in DOMAIN hdr' |-> hdr'[x]]
  BY <1>4 DEF Put
<1>12. Headers(hdr)'
  <2>1. DOMAIN hdr' \in SUBSET Nat /\ IsFiniteSet(DOMAIN hdr')
    BY <1>7, <1>8, <1>11, FS_AddElement DEF Headers, SplitFacts
  <2>2. \A x \in DOMAIN hdr' : hdr'[x] \in Header
    BY <1>8, <1>10, <1>11 DEF Headers
  <2> QED BY <1>11, <2>1, <2>2 DEF Headers
<1>13. Writes(t)
  BY <1>4, <1>7, <1>11 DEF Writes, SplitFacts, globals
<1>14. Torn(t)' = {} /\ Torn(t) = {} /\ pc'[t] = "tail"
  BY <1>4, <1>6 DEF Torn, GoneOn
<1>15. ASSUME NEW x \in Blocks
       PROVE  Width(t, x)' = Width(t, x) /\ Open(t, x)' = Open(t, x) /\ hdr'[x].next = hdr[x].next
  <2>1. hdr'[x] = hdr[x]
    BY <1>6, <1>8, <1>11, HeapThere DEF GoneOn
  <2> QED BY <1>4, <1>14, <2>1 DEF Width, Open
<1>16. ASSUME Blocks' = Blocks PROVE Knows(t)'
  <2>1. curr'[t] = a /\ New(t)' = new /\ Call(t)' = Call(t)
    BY <1>1, <1>6 DEF New, GoneOn
  <2>2. hdr'[a] = hdr[a]
    BY <1>7, <1>8, <1>11 DEF SplitFacts
  <2>3. Splits(t, a, new)'
    BY <1>1, <1>7, <1>8, <1>10, <1>11, <1>14, <1>16, <2>1, <2>2 DEF Splits, SplitFacts
  <2> QED BY <1>5, <1>14, <2>1, <2>3, SplitKnows
<1>17. MapKept /\ heap_tail' \in Nat
  BY <1>4, <1>6, MappedStays, HeapThere DEF GoneOn, globals
<1> QED BY <1>4, <1>6, <1>12, <1>13, <1>14, <1>15, <1>16, <1>17, Quiet DEF GoneOn

LEMMA MoveTailSound ==
    ASSUME CallsSound, NEW t \in Task, MoveTail(t), raced' = {}
    PROVE  CallsSound'
<1>1. PICK a, size, new : a = curr[t] /\ size = Call(t).size /\ new = New(t)
  OBVIOUS
<1>2. PICK n, b, d : n = pages[t] /\ b = block[t] /\ d = done[t]
  OBVIOUS
<1>3. /\ raced = {} /\ pc[t] = "tail" /\ pc' = [pc EXCEPT ![t] = "back"]
      /\ heap_tail' = (IF hdr[a].next = heap_start THEN new ELSE heap_tail)
      /\ UNCHANGED <<hdr, heap_pointer, heap_current, live, done, curr, pages, block, reaped>> /\ Raises({})
  BY <1>1 DEF MoveTail, Step, Races, TailAfter
<1>4. /\ "back" \in Called /\ "back" \notin FreeSteps /\ "back" \notin Given /\ "back" \in SplitSteps
      /\ "tail" \notin FreeSteps /\ "tail" \notin Given /\ "tail" \in SplitSteps
  BY DEF Called, SplitSteps, FreeSteps, MergeSteps, MergeBackSteps, Given
<1>5. Onward(t, "back", d, a, n, b)
  BY <1>1, <1>2, <1>3, <1>4, Where DEF Onward, CallsSound
<1>6. GoneOn(t, "back", d, a, n, b)
  BY <1>5, OnwardIs
<1>7. SplitFacts(t, a, size, new)
  BY <1>1, <1>3, <1>4, <1>6, SplitIs DEF GoneOn
<1>8. Knows(t)'
  <2>1. curr'[t] = a /\ New(t)' = new /\ Call(t)' = Call(t) /\ pc'[t] = "back"
    BY <1>1, <1>6 DEF New, GoneOn
  <2>2. hdr' = hdr /\ Blocks' = Blocks
    BY <1>3 DEF Blocks
  <2>3. Splits(t, a, new)'
    BY <1>3, <1>7, <2>1, <2>2 DEF Splits, SplitFacts
  <2> QED BY <1>4, <2>1, <2>3, SplitKnows
<1>9. MapKept
  BY <1>3, <1>6, MappedStays, HeapThere DEF GoneOn
<1>10. \/ heap_tail' = heap_tail
       \/ pc[t] \in SplitSteps /\ hdr[curr[t]].next = heap_start /\ heap_tail' \in Nat
  BY <1>1, <1>3, <1>4, <1>7 DEF SplitFacts
<1> QED BY <1>3, <1>5, <1>8, <1>9, <1>10, Still DEF TornSteps

(* A store to the header of block x.                                       *)
OneSet(x, r) ==
    /\ Headers(hdr)' /\ DOMAIN hdr' = DOMAIN hdr /\ hdr'[x] = r
    /\ \A y \in DOMAIN hdr : y # x => hdr'[y] = hdr[y]

LEMMA OneIs ==
    ASSUME Headers(hdr), NEW x \in DOMAIN hdr, NEW r \in Header, hdr' = [hdr EXCEPT ![x] = r]
    PROVE  OneSet(x, r)
<1>1. DOMAIN hdr \in SUBSET Nat /\ IsFiniteSet(DOMAIN hdr) /\ hdr \in [DOMAIN hdr -> Header]
  BY DEF Headers
<1>2. /\ DOMAIN hdr' = DOMAIN hdr /\ hdr'[x] = r /\ hdr' \in [DOMAIN hdr' -> Header]
      /\ \A y \in DOMAIN hdr : y # x => hdr'[y] = hdr[y]
  BY <1>1
<1> QED BY <1>1, <1>2 DEF OneSet, Headers

LEMMA StoreBackSound ==
    ASSUME CallsSound, NEW t \in Task, StoreBack(t), raced' = {}
    PROVE  CallsSound'
<1>1. PICK a, size, new : a = curr[t] /\ size = Call(t).size /\ new = New(t)
  OBVIOUS
<1>2. PICK n, b, d : n = pages[t] /\ b = block[t] /\ d = done[t]
  OBVIOUS
<1>3. PICK r : r = [hdr[new] EXCEPT !.prev = a]
  OBVIOUS
<1>4. /\ raced = {} /\ pc[t] = "back" /\ pc' = [pc EXCEPT ![t] = "link"]
      /\ hdr' = [hdr EXCEPT ![new] = r]
      /\ UNCHANGED <<globals, live, done, curr, pages, block, reaped>> /\ Raises({})
  BY <1>1, <1>3 DEF StoreBack, Store, Step, Races
<1>5. /\ "link" \in Called /\ "link" \notin FreeSteps /\ "link" \notin Given /\ "link" \in SplitSteps
      /\ "back" \notin FreeSteps /\ "back" \notin Given /\ "back" \in SplitSteps
  BY DEF Called, SplitSteps, FreeSteps, MergeSteps, MergeBackSteps, Given
<1>6. GoneOn(t, "link", d, a, n, b)
  <2>1. Onward(t, "link", d, a, n, b)
    BY <1>1, <1>2, <1>4, <1>5, Where DEF Onward, CallsSound
  <2> QED BY <2>1, OnwardIs
<1>7. SplitFacts(t, a, size, new)
  BY <1>1, <1>4, <1>5, <1>6, SplitIs DEF GoneOn
<1>8. new \in DOMAIN hdr /\ hdr[new] \in Header /\ a \in Int /\ Headers(hdr)
  BY <1>4, <1>6, <1>7, HeapThere DEF SplitFacts, Splits, GoneOn
<1>9. r \in Header /\ r.free = hdr[new].free /\ r.next = hdr[new].next /\ r.size = hdr[new].size
  BY <1>3, <1>8 DEF Header
<1>10. OneSet(new, r)
  BY <1>4, <1>8, <1>9, OneIs
<1>11. \A x \in DOMAIN hdr : Same(hdr, hdr', x)
  BY <1>9, <1>10 DEF OneSet, Same
<1>12. Writes(t)
  BY <1>4, <1>7, <1>10 DEF Writes, SplitFacts, globals, OneSet
<1>13. Torn(t)' = {} /\ Torn(t) = {} /\ pc'[t] = "link"
  BY <1>4, <1>6 DEF Torn, GoneOn
<1>14. ASSUME NEW x \in Blocks
       PROVE  Width(t, x)' = Width(t, x) /\ Open(t, x)' = Open(t, x) /\ hdr'[x].next = hdr[x].next
  <2>1. Same(hdr, hdr', x)
    BY <1>6, <1>11, HeapThere DEF GoneOn
  <2> QED BY <1>4, <1>13, <2>1 DEF Width, Open, Same
<1>15. ASSUME Blocks' = Blocks PROVE Knows(t)'
  <2>1. curr'[t] = a /\ New(t)' = new /\ Call(t)' = Call(t)
    BY <1>1, <1>6 DEF New, GoneOn
  <2>2. Same(hdr, hdr', a) /\ Same(hdr, hdr', new) /\ new \in DOMAIN hdr'
    BY <1>7, <1>8, <1>10, <1>11 DEF SplitFacts, OneSet
  <2>3. Splits(t, a, new)'
    BY <1>4, <1>7, <1>13, <1>15, <2>1, <2>2 DEF Splits, SplitFacts, Same, globals
  <2> QED BY <1>5, <1>13, <2>1, <2>3, SplitKnows
<1>16. MapKept /\ heap_tail' \in Nat
  BY <1>4, <1>6, MappedStays, HeapThere DEF GoneOn, globals
<1>17. Headers(hdr)'
  BY <1>10 DEF OneSet
<1> QED BY <1>4, <1>6, <1>12, <1>13, <1>14, <1>15, <1>16, <1>17, Quiet DEF GoneOn

LEMMA ShrinkSound ==
    ASSUME CallsSound, NEW t \in Task, Shrink(t), raced' = {}
    PROVE  CallsSound'
<1>1. PICK a, size, new : a = curr[t] /\ size = Call(t).size /\ new = New(t)
  OBVIOUS
<1>2. PICK n, b, d : n = pages[t] /\ b = block[t] /\ d = done[t]
  OBVIOUS
<1>3. PICK r : r = [hdr[a] EXCEPT !.size = size]
  OBVIOUS
<1>4. /\ raced = {} /\ pc[t] = "shrink" /\ pc' = [pc EXCEPT ![t] = "occupy"]
      /\ hdr' = [hdr EXCEPT ![a] = r]
      /\ UNCHANGED <<globals, live, done, curr, pages, block, reaped>> /\ Raises({})
  BY <1>1, <1>3 DEF Shrink, Store, Step, Races
<1>5. /\ "occupy" \in Called /\ "occupy" \notin FreeSteps /\ "occupy" \in Given /\ "occupy" \in SplitSteps
      /\ "shrink" \notin FreeSteps /\ "shrink" \in Given /\ "shrink" \in SplitSteps
  BY DEF Called, SplitSteps, FreeSteps, MergeSteps, MergeBackSteps, Given
<1>6. GoneOn(t, "occupy", d, a, n, b)
  <2>1. Onward(t, "occupy", d, a, n, b)
    BY <1>1, <1>2, <1>4, <1>5, Where DEF Onward, CallsSound
  <2> QED BY <2>1, OnwardIs
<1>7. SplitFacts(t, a, size, new)
  BY <1>1, <1>4, <1>5, <1>6, SplitIs DEF GoneOn
<1>8. a \in DOMAIN hdr /\ hdr[a] \in Header /\ size \in Nat /\ Headers(hdr) /\ hdr[a].next = new /\ hdr[a].free
  BY <1>4, <1>6, <1>7, HeapThere DEF SplitFacts, Splits, GoneOn
<1>9. r \in Header /\ r.free = hdr[a].free /\ r.next = hdr[a].next /\ r.size = size
  BY <1>3, <1>8 DEF Header
<1>10. OneSet(a, r)
  BY <1>4, <1>8, <1>9, OneIs
<1>11. Writes(t)
  BY <1>4, <1>7, <1>10 DEF Writes, SplitFacts, globals, OneSet
<1>12. Torn(t)' = {a} /\ Torn(t) = {a} /\ pc'[t] = "occupy" /\ curr'[t] = a
  BY <1>1, <1>4, <1>6 DEF Torn, GoneOn
<1>13. ASSUME NEW x \in Blocks
       PROVE  Width(t, x)' = Width(t, x) /\ Open(t, x)' = Open(t, x) /\ hdr'[x].next = hdr[x].next
  <2>1. hdr'[x].next = hdr[x].next /\ hdr'[x].free = hdr[x].free /\ (x # a => hdr'[x] = hdr[x])
    BY <1>6, <1>9, <1>10, HeapThere DEF OneSet, GoneOn
  <2> QED BY <1>1, <1>4, <1>12, <2>1 DEF Width, Open
<1>14. ASSUME Blocks' = Blocks PROVE Knows(t)'
  <2>1. curr'[t] = a /\ New(t)' = new /\ Call(t)' = Call(t)
    BY <1>1, <1>6 DEF New, GoneOn
  <2>2. Splits(t, a, new)'
    BY <1>1, <1>4, <1>7, <1>8, <1>9, <1>10, <1>12, <1>14, <2>1 DEF Splits, SplitFacts, OneSet, globals
  <2> QED BY <1>5, <1>12, <2>1, <2>2, SplitKnows
<1>15. MapKept /\ heap_tail' \in Nat
  BY <1>4, <1>6, MappedStays, HeapThere DEF GoneOn, globals
<1>16. Headers(hdr)' /\ Torn(t)' \subseteq Blocks
  BY <1>7, <1>10, <1>12 DEF OneSet, SplitFacts
<1> QED BY <1>4, <1>6, <1>11, <1>13, <1>14, <1>15, <1>16, Quiet DEF GoneOn

LEMMA OccupySound ==
    ASSUME CallsSound, NEW t \in Task, Occupy(t), raced' = {}
    PROVE  CallsSound'
<1>1. PICK a, size, new : a = curr[t] /\ size = Call(t).size /\ new = New(t)
  OBVIOUS
<1>2. PICK n, b, d : n = pages[t] /\ b = block[t] /\ d = done[t]
  OBVIOUS
<1>3. PICK r : r = [hdr[a] EXCEPT !.free = FALSE]
  OBVIOUS
<1>4. /\ raced = {} /\ pc[t] = "occupy" /\ pc' = [pc EXCEPT ![t] = "point"]
      /\ hdr' = [hdr EXCEPT ![a] = r] /\ curr' = [curr EXCEPT ![t] = new]
      /\ UNCHANGED <<globals, live, done, pages, block, reaped>> /\ Raises({})
  BY <1>1, <1>3 DEF Occupy, Occupied, Step, Races
<1>5. /\ "point" \in Called /\ "point" \notin FreeSteps /\ "point" \in Given /\ "point" \in SearchSteps
      /\ "occupy" \notin FreeSteps /\ "occupy" \in Given /\ "occupy" \in SplitSteps
  BY DEF Called, SplitSteps, SearchSteps, FreeSteps, MergeSteps, MergeBackSteps, Given
<1>6. SplitFacts(t, a, size, new)
  <2>1. hdr # << >>
    BY <1>4 DEF CallsSound, Idle
  <2> QED BY <1>1, <1>4, <1>5, <2>1, SplitIs
<1>7. GoneOn(t, "point", d, new, n, b)
  <2>1. Onward(t, "point", d, new, n, b)
    BY <1>1, <1>2, <1>4, <1>5, <1>6, Where DEF Onward, CallsSound, SplitFacts
  <2> QED BY <2>1, OnwardIs
<1>8. /\ a \in DOMAIN hdr /\ hdr[a] \in Header /\ size \in Nat /\ Headers(hdr)
      /\ hdr[a].next = new /\ hdr[a].size = size /\ hdr[a].free
  BY <1>1, <1>4, <1>6, <1>7, HeapThere DEF SplitFacts, Splits, GoneOn
<1>9. r \in Header /\ r.free = FALSE /\ r.next = hdr[a].next /\ r.size = size
  BY <1>3, <1>8 DEF Header
<1>10. OneSet(a, r)
  BY <1>4, <1>8, <1>9, OneIs
<1>11. Writes(t)
  BY <1>4, <1>6, <1>10 DEF Writes, SplitFacts, globals, OneSet
<1>12. Torn(t)' = {} /\ Torn(t) = {a} /\ pc'[t] = "point"
  BY <1>1, <1>4, <1>7 DEF Torn, GoneOn
<1>13. ASSUME NEW x \in Blocks
       PROVE  Width(t, x)' = Width(t, x) /\ Open(t, x)' = Open(t, x) /\ hdr'[x].next = hdr[x].next
  <2>1. CASE x = a
    <3>1. Width(t, x)' = size /\ Open(t, x)' = FALSE /\ Open(t, x) = FALSE
      BY <1>1, <1>4, <1>9, <1>10, <1>12, <2>1 DEF Width, Open, OneSet
    <3>2. Width(t, x) = new - a - 1
      BY <1>8, <1>12, <2>1 DEF Width
    <3>3. new - a - 1 = size
      BY <1>6 DEF SplitFacts
    <3> QED BY <1>9, <1>10, <2>1, <3>1, <3>2, <3>3 DEF OneSet
  <2>2. CASE x # a
    <3>1. hdr'[x] = hdr[x]
      BY <1>7, <1>10, <2>2, HeapThere DEF OneSet, GoneOn
    <3> QED BY <1>1, <1>12, <2>2, <3>1 DEF Width, Open
  <2> QED BY <2>1, <2>2
<1>14. Knows(t)'
  BY <1>4, <1>5, <1>12, EasyKnows
<1>15. MapKept /\ heap_tail' \in Nat
  BY <1>4, <1>7, MappedStays, HeapThere DEF GoneOn, globals
<1>16. Headers(hdr)' /\ Torn(t)' \subseteq Blocks
  BY <1>10, <1>12 DEF OneSet
<1> QED BY <1>4, <1>7, <1>11, <1>13, <1>14, <1>15, <1>16, Quiet DEF GoneOn


(* From the next of its block on, a call has given it out.                 *)
LEMMA LinkSound ==
    ASSUME CallsSound, NEW t \in Task, Link(t), raced' = {}
    PROVE  CallsSound'
<1>1. PICK a, size, new : a = curr[t] /\ size = Call(t).size /\ new = New(t)
  OBVIOUS
<1>2. PICK n, b, d : n = pages[t] /\ b = block[t] /\ d = done[t]
  OBVIOUS
<1>3. PICK r : r = [hdr[a] EXCEPT !.next = new]
  OBVIOUS
<1>4. PICK m : m = [task |-> t, role |-> Call(t).role, addr |-> a + 1, size |-> size]
  OBVIOUS
<1>5. m.task = t /\ m.role = Call(t).role /\ m.addr = a + 1 /\ m.size = size
  BY <1>4
<1>6. /\ raced = {} /\ pc[t] = "link" /\ pc' = [pc EXCEPT ![t] = "shrink"]
      /\ hdr' = [hdr EXCEPT ![a] = r] /\ live' = live \cup {m}
      /\ UNCHANGED <<globals, done, curr, pages, block, reaped>> /\ Raises({})
  BY <1>1, <1>3, <1>4 DEF Link, Step, Races
<1>7. /\ "shrink" \in Called /\ "shrink" \notin FreeSteps /\ "shrink" \in Given /\ "shrink" \in SplitSteps
      /\ "link" \notin FreeSteps /\ "link" \notin Given /\ "link" \in SplitSteps /\ "link" \in Uncut
  BY DEF Called, SplitSteps, FreeSteps, MergeSteps, MergeBackSteps, Given, Uncut
<1>8. /\ hdr # << >> /\ ~Idle(t) /\ Located /\ Rooted /\ Owned /\ Headers(hdr)
      /\ Call(t).op = "malloc"
  <2>1. hdr # << >> /\ ~Idle(t)
    BY <1>6 DEF CallsSound, Idle
  <2>2. Located /\ Rooted /\ Owned /\ Headers(hdr)
    BY <2>1, HeapThere
  <2> QED BY <1>6, <1>7, <2>1, <2>2, CallIs DEF Frees
<1>9. SplitFacts(t, a, size, new)
  BY <1>1, <1>6, <1>7, <1>8, SplitIs
<1>10. /\ Moves(t) /\ pc'[t] = "shrink" /\ done'[t] = d /\ curr'[t] = a /\ pages'[t] = n
       /\ block'[t] = b /\ d \in Nat
  <2>1. Goes(t, "shrink", d, a, n, b) /\ d \in Nat
    BY <1>1, <1>2, <1>6, <1>7, <1>8, Where DEF Goes
  <2> QED BY <1>8, <2>1, MovesIs
<1>11. Placed(t)'
  BY <1>2, <1>7, <1>8, <1>10, PlacedOn
<1>12. Made(t) = d /\ Made(t)' = d + 1
  <2>1. Made(t) = d + 0 /\ Made(t)' = d + 1
    BY <1>2, <1>6, <1>7, <1>10, MadeIs
  <2> QED BY <1>10, <2>1
<1>13. a \in DOMAIN hdr /\ hdr[a] \in Header /\ new \in DOMAIN hdr /\ hdr[new].free
       /\ hdr[new].next = hdr[a].next /\ hdr[new].size = hdr[a].size - size - 1
       /\ hdr[a].size >= size + 1 /\ a # new /\ new \notin Blocks /\ hdr[a].free
       /\ View[a].size = hdr[a].size /\ View[a].free /\ View[a].next = hdr[a].next
  <2>1. Splits(t, a, new) /\ a \in Blocks /\ a < new /\ hdr[a].free /\ a \in Nat /\ new \in Nat
    BY <1>9 DEF SplitFacts
  <2>2. new \notin Blocks /\ View[a].size = hdr[a].size /\ View[a].free
    BY <1>6, <1>7, <1>9 DEF SplitFacts
  <2>3. /\ new \in DOMAIN hdr /\ hdr[new].free /\ hdr[new].next = hdr[a].next
        /\ hdr[new].size = hdr[a].size - size - 1 /\ hdr[a].size >= size + 1
    BY <1>1, <1>6, <2>1 DEF Splits
  <2>4. a \in DOMAIN hdr /\ hdr[a] \in Header /\ View[a].next = hdr[a].next
    BY <1>8, <2>1, HeapThere
  <2>5. a # new
    BY <2>1
  <2> QED BY <2>1, <2>2, <2>3, <2>4, <2>5
<1>14. r \in Header /\ r.free = hdr[a].free /\ r.next = new /\ r.size = hdr[a].size
  BY <1>3, <1>9, <1>13 DEF Header, SplitFacts
<1>15. OneSet(a, r)
  BY <1>6, <1>8, <1>13, <1>14, OneIs
<1>16. Writes(t) /\ Headers(hdr)'
  BY <1>6, <1>9, <1>15 DEF Writes, SplitFacts, globals, OneSet
<1>17. Torn(t)' = {a} /\ Torn(t) = {}
  BY <1>6, <1>10 DEF Torn
<1>18. AtWork(t) = {a, new} /\ AtWork(t)' = {a, new}
  <2>1. WorksAll'
    BY Working, PTL
  <2>2. New(t)' = new
    BY <1>1, <1>2, <1>10 DEF New, Call
  <2> QED BY <1>7, <1>9, <1>10, <2>1, <2>2 DEF WorksAll, WorksOn, SplitFacts
<1>19. Apart'
  BY <1>6, RacesGive
<1>20. \A x \in DOMAIN hdr : Viewed(t, x) /\ x \in DOMAIN View' /\ View[x].next = hdr[x].next
                             /\ View'[x].next = hdr'[x].next
  BY <1>8, <1>10, <1>16, <1>19, ViewStep
<1>21. Headers(View)'
  <2>1. a < hdr'[a].next
    BY <1>9, <1>14, <1>15 DEF SplitFacts, OneSet
  <2> QED BY <1>8, <1>10, <1>16, <1>17, <1>19, <2>1, HeadersOn
<1>22. PICK C, v, w, current, given :
         C = Blocks \cup {new} /\ v = View /\ w = View' /\ current = Mapped /\ given = live
  OBVIOUS
<1>23. Takes(v, w, Blocks, a, size, new)
  <2>1. w[a].size = size /\ w[a].next = new /\ ~w[a].free
    <3>1. w[a].size = Width(t, a)' /\ w[a].free = Open(t, a)' /\ w[a].next = hdr'[a].next
      BY <1>13, <1>18, <1>20, <1>22 DEF Viewed
    <3>2. Width(t, a)' = new - a - 1 /\ ~Open(t, a)'
      BY <1>10, <1>14, <1>15, <1>17 DEF Width, Open, OneSet
    <3> QED BY <1>9, <1>14, <1>15, <3>1, <3>2 DEF SplitFacts, OneSet
  <2>2. w[new].size = hdr[new].size /\ w[new].next = hdr[new].next /\ w[new].free
    <3>1. w[new].size = Width(t, new)' /\ w[new].free = Open(t, new)' /\ w[new].next = hdr'[new].next
      BY <1>13, <1>18, <1>20, <1>22 DEF Viewed
    <3>2. hdr'[new] = hdr[new]
      BY <1>13, <1>15 DEF OneSet
    <3> QED BY <1>10, <1>13, <1>17, <3>1, <3>2 DEF Width, Open
  <2>3. \A x \in Blocks \ {a} : Same(v, w, x)
    <3> SUFFICES ASSUME NEW x \in Blocks \ {a} PROVE Same(v, w, x)
      OBVIOUS
    <3>1. x \in DOMAIN hdr /\ x \notin AtWork(t) /\ x \notin AtWork(t)'
      BY <1>8, <1>13, <1>18, HeapThere
    <3> QED BY <1>20, <1>22, <3>1 DEF Viewed, Same
  <2> QED BY <1>9, <1>13, <1>22, <2>1, <2>2, <2>3 DEF Takes, SplitFacts
<1>24. MapKept /\ heap_tail' \in Nat
  BY <1>6, <1>8, <1>10, MappedStays, HeapThere DEF globals
<1>25. Laid(View', Mapped', C, live')
  <2>1. Laid(v, current, Blocks, given) /\ Blocks \cup {new} \subseteq DOMAIN w /\ Headers(w)
    BY <1>8, <1>13, <1>20, <1>21, <1>22, HeapThere
  <2>2. Laid(w, current, Blocks \cup {new}, given \cup {m})
    BY <1>5, <1>23, <2>1, TakeLaid
  <2> QED BY <1>6, <1>22, <1>24, <2>2 DEF MapKept
<1>26. ~(t = former /\ reaped)
  BY <1>8, NotReaped
<1>27. Owned'
  <2>1. PICK k : k = d + 1
    OBVIOUS
  <2>2. k \in DOMAIN Script[t] /\ Made(t) = k - 1 /\ Made(t)' = k
    BY <1>2, <1>8, <1>10, <1>12, <2>1, CallIs
  <2>3. Script[t][k].op = "malloc" /\ m.role = Script[t][k].role
    BY <1>2, <1>5, <1>8, <2>1 DEF Call
  <2> QED BY <1>5, <1>6, <1>8, <1>10, <1>26, <2>2, <2>3, OwnedTaken
<1>28. Rooted'
  <2>1. ASSUME Made(former) = 0 PROVE t = former /\ done[former] = 0 /\ m.addr = heap_start + 1
    <3>1. t = former /\ done[former] = 0
      BY <1>8, <2>1, OnlyFormer
    <3>2. Blocks = {heap_start}
      BY <1>8, <2>1 DEF Rooted
    <3> QED BY <1>5, <1>9, <3>1, <3>2 DEF SplitFacts
  <2>2. Made(t)' = Made(t) + 1
    BY <1>12
  <2> QED BY <1>5, <1>6, <1>8, <1>10, <2>1, <2>2, RootedTaken
<1>29. Blocks' = C => Knows(t)'
  <2> SUFFICES ASSUME Blocks' = C PROVE Knows(t)'
    OBVIOUS
  <2>1. curr'[t] = a /\ New(t)' = new
    BY <1>1, <1>2, <1>10 DEF New, Call
  <2>2. a \in Blocks' /\ hdr'[a].free /\ hdr'[a].next = new
    BY <1>9, <1>13, <1>14, <1>15, <1>22 DEF SplitFacts, OneSet
  <2>3. Splits(t, a, new)'
    BY <1>10, <2>2 DEF Splits
  <2> QED BY <1>7, <1>10, <2>1, <2>3, SplitKnows
<1>30. \A x \in Blocks : x \in C \/ x \in AtWork(t)
  BY <1>22
<1>31. heap_current' \in Nat
  BY <1>24 DEF MapKept
<1> QED BY <1>6, <1>8, <1>10, <1>11, <1>16, <1>24, <1>25, <1>27, <1>28, <1>29, <1>30, <1>31, StepTo

(* The last block takes in a page that sbrk has added.                     *)
LEMMA WidenSound ==
    ASSUME CallsSound, NEW t \in Task, Widen(t), raced' = {}
    PROVE  CallsSound'
<1>1. PICK p : p = IF pages[t] = 1 THEN "idle" ELSE "sbrk"
  OBVIOUS
<1>2. PICK a, n, c, b, d : a = heap_tail /\ n = pages[t] - 1 /\ c = curr[t] /\ b = block[t] /\ d = done[t]
  OBVIOUS
<1>3. PICK r : r = [hdr[a] EXCEPT !.size = @ + PAGE]
  OBVIOUS
<1>4. /\ raced = {} /\ pc[t] = "widen" /\ pc' = [pc EXCEPT ![t] = p]
      /\ hdr' = [hdr EXCEPT ![a] = r] /\ pages' = [pages EXCEPT ![t] = n]
      /\ UNCHANGED <<globals, live, done, curr, block, reaped>> /\ Raises({})
  BY <1>1, <1>2, <1>3 DEF Widen, Step, Races
<1>5. p \in {"idle", "sbrk"} /\ p \in Called /\ p \notin FreeSteps /\ p \notin Given
  BY <1>1 DEF Called, GrowSteps, FreeSteps, MergeSteps, MergeBackSteps, Given
<1>6. "widen" \notin FreeSteps /\ "widen" \notin Given /\ "widen" \in GrowSteps /\ "sbrk" \in GrowSteps
  BY DEF FreeSteps, MergeSteps, MergeBackSteps, Given, GrowSteps
<1>7. GoneOn(t, p, d, c, n, b)
  <2>1. pages[t] \in Int
    BY Where DEF CallsSound
  <2>2. Onward(t, p, d, c, n, b)
    BY <1>2, <1>4, <1>5, <1>6, <2>1, Where DEF Onward, CallsSound
  <2> QED BY <2>2, OnwardIs
<1>8. /\ Moves(t) /\ hdr # << >> /\ Placed(t)' /\ Made(t)' = Made(t) /\ (Made(former) = 0 => t = former)
      /\ pc'[t] = p /\ pages'[t] = n /\ ~Idle(t) /\ Knows(t)
  BY <1>7 DEF GoneOn
<1>9. /\ a \in Blocks /\ hdr[a].next = heap_start /\ pages[t] >= 1 /\ heap_tail' = a
  BY <1>2, <1>4, <1>6, <1>8 DEF Knows, globals
<1>10. a \in DOMAIN hdr /\ hdr[a] \in Header /\ Headers(hdr) /\ hdr[a].size \in Nat /\ PAGE \in Nat \ {0}
       /\ a \in Nat
  BY <1>8, <1>9, HeapThere, ScriptAssumption
<1>11. r \in Header /\ r.free = hdr[a].free /\ r.next = hdr[a].next /\ r.size = hdr[a].size + PAGE
  BY <1>3, <1>10 DEF Header
<1>12. OneSet(a, r)
  BY <1>4, <1>10, <1>11, OneIs
<1>13. AtWork(t) = {a}
  BY <1>2, <1>4, <1>6, Working DEF WorksAll, WorksOn
<1>14. AtWork(t)' \subseteq {a}
  <2>1. WorksAll'
    BY Working, PTL
  <2>2. CASE p = "idle"
    <3>1. p \notin SplitSteps \cup GrowSteps \cup FreeSteps
      BY <2>2 DEF SplitSteps, GrowSteps, FreeSteps, MergeSteps, MergeBackSteps
    <3> QED BY <1>8, <2>1, <3>1 DEF WorksAll, WorksOn
  <2>3. CASE p = "sbrk"
    BY <1>6, <1>8, <1>9, <2>1, <2>3 DEF WorksAll, WorksOn
  <2> QED BY <1>5, <2>2, <2>3
<1>15. Writes(t) /\ Headers(hdr)' /\ heap_tail' \in Nat
  BY <1>4, <1>9, <1>10, <1>12, <1>13 DEF Writes, globals, OneSet
<1>16. Torn(t) = {} /\ Torn(t)' = {}
  BY <1>4, <1>5, <1>8 DEF Torn
<1>17. Apart'
  BY <1>4, RacesGive
<1>18. \A x \in DOMAIN hdr : Viewed(t, x) /\ x \in DOMAIN View' /\ View[x].next = hdr[x].next
                             /\ View'[x].next = hdr'[x].next
  BY <1>8, <1>15, <1>17, ViewStep
<1>19. Headers(View)'
  BY <1>8, <1>15, <1>16, <1>17, HeadersOn
<1>20. PICK C, v, w, current, given, page :
         C = Blocks /\ v = View /\ w = View' /\ current = Mapped /\ given = live /\ page = PAGE
  OBVIOUS
<1>21. Widens(v, w, C, a, page)
  <2>1. v[a].size = hdr[a].size /\ v[a].free = hdr[a].free /\ v[a].next = hdr[a].next
    <3>1. Width(t, a) = hdr[a].size /\ Open(t, a) = hdr[a].free
      BY <1>4, <1>10, <1>16, HeapThere, <1>8 DEF Width, Open
    <3> QED BY <1>10, <1>13, <1>18, <1>20, <3>1 DEF Viewed
  <2>2. w[a].size = hdr[a].size + page /\ w[a].free = hdr[a].free /\ w[a].next = hdr[a].next
    <3>1. Width(t, a)' = r.size /\ Open(t, a)' = r.free
      <4>1. pc'[t] \notin {"shrink", "occupy"} /\ hdr'[a] = r
        BY <1>5, <1>8, <1>12 DEF OneSet
      <4>2. r.free \in BOOLEAN
        BY <1>11 DEF Header
      <4> QED BY <1>16, <4>1, <4>2 DEF Width, Open
    <3>2. w[a].size = Width(t, a)' /\ w[a].free = Open(t, a)' /\ w[a].next = hdr'[a].next
      BY <1>10, <1>13, <1>18, <1>20 DEF Viewed
    <3> QED BY <1>11, <1>12, <1>20, <3>1, <3>2 DEF OneSet
  <2>3. \A x \in C \ {a} : Same(v, w, x)
    <3> SUFFICES ASSUME NEW x \in C \ {a} PROVE Same(v, w, x)
      OBVIOUS
    <3>1. x \in DOMAIN hdr /\ x \notin AtWork(t) /\ x \notin AtWork(t)'
      BY <1>8, <1>13, <1>14, <1>20, HeapThere
    <3> QED BY <1>18, <1>20, <3>1 DEF Viewed, Same
  <2> QED BY <1>9, <1>10, <1>20, <2>1, <2>2, <2>3 DEF Widens
<1>22. Mapped' = Mapped + PAGE /\ heap_current' \in Nat
  <2>1. \A u \in Task \ {t} : pc[u] # "widen" /\ pc'[u] = pc[u]
    BY <1>4, <1>6, <1>8, HeapThere, GrowsAlone DEF GrowSteps, Moves, Stays
  <2>2. (\E u \in Task : pc[u] = "widen") /\ ~(\E u \in Task : pc'[u] = "widen")
    BY <1>4, <1>5, <1>8, <2>1
  <2>3. PICK h : h = heap_current
    OBVIOUS
  <2>4. h \in Nat /\ heap_current' = h
    BY <1>4, <1>8, <2>3, HeapThere DEF globals
  <2>5. Mapped = h - page /\ Mapped' = h - 0
    BY <1>20, <2>2, <2>3, <2>4 DEF Mapped
  <2> QED BY <1>10, <1>20, <2>4, <2>5
<1>23. Laid(View', Mapped', C, live')
  <2>1. Laid(v, current, C, given) /\ C \subseteq DOMAIN w /\ Headers(w)
    BY <1>8, <1>18, <1>19, <1>20, HeapThere
  <2>2. Laid(w, current + page, C, given)
    BY <1>21, <2>1, GrowLaid
  <2> QED BY <1>4, <1>20, <1>22, <2>2
<1>24. Owned'
  BY <1>4, <1>8, HeapThere, OwnedStays
<1>25. Blocks' = C
  BY <1>20, <1>23, <1>15, BlocksNow
<1>26. Rooted'
  <2>1. Made(former) = 0 => t = former /\ (hdr' # << >> => Blocks' = {heap_start})
    BY <1>8, <1>20, <1>25, HeapThere DEF Rooted
  <2> QED BY <1>4, <1>8, <2>1, HeapThere, RootedStays
<1>27. Knows(t)'
  <2>1. CASE p = "idle"
    BY <1>4, <1>8, <2>1, EasyKnows
  <2>2. CASE p = "sbrk"
    <3>1. pages[t] # 1 /\ pages[t] \in Int
      BY <1>1, <1>8, <2>2, HeapThere, Where
    <3>2. pages'[t] >= 1
      BY <1>2, <1>8, <1>9, <3>1
    <3>3. heap_tail' \in Blocks' /\ hdr'[heap_tail'].next = heap_start
      BY <1>9, <1>11, <1>12, <1>20, <1>25 DEF OneSet
    <3>4. "sbrk" \notin SearchSteps \cup SplitSteps \cup FreeSteps
      BY DEF SearchSteps, SplitSteps, FreeSteps, MergeSteps, MergeBackSteps
    <3> QED BY <1>8, <2>2, <3>2, <3>3, <3>4 DEF Knows, Searches, Frees
  <2> QED BY <1>5, <2>1, <2>2
<1>28. \A x \in Blocks : x \in C \/ x \in AtWork(t)
  BY <1>20
<1> QED BY <1>4, <1>8, <1>15, <1>22, <1>23, <1>24, <1>26, <1>27, <1>28, StepTo

-----------------------------------------------------------------------------
(* The start of a call.                                                    *)
LEMMA FirstSound ==
    ASSUME CallsSound, NEW t \in Task, Begin(t), raced' = {}, hdr = << >>
    PROVE  CallsSound'
<1>1. /\ raced = {} /\ pc[t] = "idle" /\ pc' = [pc EXCEPT ![t] = "search"]
      /\ done[t] < Len(Script[t]) /\ Call(t).op = "malloc" /\ (t # former => Finished(former))
      /\ FirstBlock /\ curr' = [curr EXCEPT ![t] = heap_pointer']
      /\ UNCHANGED <<live, done, pages, block, reaped>> /\ Raises({})
  BY DEF Begin, Step, Races
<1>2. /\ Located /\ Owned /\ Rooted /\ \A u \in Task : Idle(u) /\ done[u] = 0
  BY DEF CallsSound
<1>3. "search" \in Called /\ "search" \in SearchSteps /\ "search" \notin FreeSteps
      /\ "search" \notin Given /\ "idle" \notin Given
  BY DEF Called, SearchSteps, Given, FreeSteps, MergeSteps, MergeBackSteps
<1>4. former \in Task /\ Made(former) = 0 /\ live = {}
  <2>1. former \in Task
    BY ScriptOfFormer
  <2>2. Made(former) = done[former] + 0
    BY <1>2, <1>3, <2>1, MadeIs DEF Idle
  <2>3. Made(former) = 0
    BY <1>2, <2>1, <2>2
  <2> QED BY <1>2, <2>1, <2>3 DEF Rooted
<1>5. t = former
  BY <1>1, <1>2, <1>4, OnlyFormer
<1>6. PICK x, g : /\ x = [size |-> PAGE - 1, free |-> TRUE, next |-> heap_start, prev |-> heap_start]
                  /\ g = Put(<< >>, heap_start, x)
  OBVIOUS
<1>7. g = hdr' /\ heap_tail' = heap_start /\ heap_pointer' = heap_start /\ heap_current' = PAGE
  BY <1>1, <1>6 DEF FirstBlock
<1>8. heap_start \in Nat /\ PAGE \in Nat \ {0}
  BY ScriptAssumption DEF heap_start
<1>9. PICK n, b, d : n = pages[t] /\ b = block[t] /\ d = done[t]
  OBVIOUS
<1>10. /\ Moves(t) /\ pc'[t] = "search" /\ done'[t] = d /\ d \in Nat
  <2>1. curr' = [curr EXCEPT ![t] = heap_start]
    BY <1>1, <1>7
  <2>2. /\ d \in Nat /\ n \in Int /\ b \in Int /\ done' = [done EXCEPT ![t] = d]
        /\ pages' = [pages EXCEPT ![t] = n] /\ block' = [block EXCEPT ![t] = b]
    BY <1>1, <1>2, <1>9, Where
  <2>3. PICK c : c = heap_start
    OBVIOUS
  <2>4. curr' = [curr EXCEPT ![t] = c] /\ c \in Int
    BY <1>8, <2>1, <2>3
  <2>5. raced = {} /\ reaped' = reaped /\ pc' = [pc EXCEPT ![t] = "search"]
    BY <1>1
  <2>6. Goes(t, "search", d, c, n, b)
    BY <1>3, <2>2, <2>4, <2>5 DEF Goes
  <2> QED BY <1>2, <2>2, <2>6, MovesIs
<1>11. Located'
  <2>1. Placed(t)'
    BY <1>1, <1>2, <1>3, <1>9, <1>10, PlacedOn
  <2> QED BY <1>1, <1>2, <1>10, <2>1, LocatedOn, NotReaped
<1>12. Made(t)' = Made(t)
  <2>1. Made(t) = done[t] + 0 /\ Made(t)' = done'[t] + 0
    BY <1>1, <1>3, <1>10, MadeIs
  <2> QED BY <1>9, <1>10, <2>1
<1>13. \A u \in Task : pc'[u] \in {"idle", "search"}
  BY <1>2, <1>10 DEF Moves, Stays, Idle
<1>14. \A u \in Task : Torn(u)' = {} /\ pc'[u] \notin {"shrink", "occupy", "widen"}
  BY <1>13 DEF Torn
<1>15. Laid(g, PAGE, {heap_start}, {}) /\ g # << >>
  BY <1>6, <1>8, FirstLaid
<1>16. Headers(hdr)'
  BY <1>7, <1>15 DEF Laid
<1>17. Laid(View', PAGE, {heap_start}, {})
  <2>1. HeadersThere' /\ HeadersSeen'
    BY ViewHeaders, ViewIs, PTL
  <2>2. Headers(View)'
    BY <1>14, <1>16, <2>1 DEF HeadersThere
  <2>3. PICK w, page, B : w = View' /\ page = PAGE /\ B = {heap_start}
    OBVIOUS
  <2>4. DOMAIN w = DOMAIN g /\ \A y \in DOMAIN g : Same(g, w, y)
    <3>1. \A a \in DOMAIN g : g[a].free \in BOOLEAN
      BY <1>7, <1>16 DEF Headers, Header
    <3>2. ~\E u \in Task : pc'[u] \in {"shrink", "occupy"}
      BY <1>14
    <3>3. \A a \in DOMAIN g : ~GivesOut(a)'
      BY <3>2 DEF GivesOut
    <3> QED BY <1>7, <1>14, <1>16, <2>1, <2>3, <3>1, <3>3 DEF HeadersSeen, Same
  <2>5. Laid(g, page, B, {}) /\ B \subseteq DOMAIN w
    BY <1>15, <2>3, <2>4, LaidHas
  <2>6. Laid(w, page, B, {})
    BY <2>2, <2>3, <2>4, <2>5, SameLaid
  <2> QED BY <2>3, <2>6
<1>18. Mapped' = PAGE
  <2>1. ~\E u \in Task : pc'[u] = "widen"
    BY <1>14
  <2>2. Mapped' = heap_current' - 0
    BY <2>1 DEF Mapped
  <2> QED BY <1>7, <1>8, <2>2
<1>19. PICK C : C = {heap_start}
  OBVIOUS
<1>20. Laid(View', Mapped', C, live')
  BY <1>1, <1>4, <1>17, <1>18, <1>19
<1>21. Blocks' = C
  BY <1>16, <1>20, BlocksNow
<1>22. Owned' /\ Rooted'
  BY <1>1, <1>2, <1>5, <1>10, <1>12, <1>19, <1>21, OwnedStays, RootedStays
<1>23. Apart' /\ \A u \in Task : Knows(u)'
  <2>1. \A u \in Task : pc'[u] \in SearchSteps \cup {"idle", "grow"}
    BY <1>3, <1>13
  <2> QED BY <1>1, <2>1, RacesGive, EasyKnows
<1>24. Built'
  BY <1>7, <1>8, <1>16, <1>19, <1>20, <1>21, <1>23 DEF Built
<1> QED BY <1>7, <1>11, <1>15, <1>22, <1>23, <1>24 DEF CallsSound

LEMMA BeginSound ==
    ASSUME CallsSound, NEW t \in Task, Begin(t), raced' = {}, hdr # << >>
    PROVE  CallsSound'
<1>1. /\ raced = {} /\ pc[t] = "idle" /\ pc' = [pc EXCEPT ![t] = "search"]
      /\ done[t] < Len(Script[t]) /\ Call(t).op = "malloc" /\ (t # former => Finished(former))
      /\ UNCHANGED blocks /\ curr' = [curr EXCEPT ![t] = heap_pointer]
      /\ UNCHANGED <<live, done, pages, block, reaped>> /\ Raises({})
  BY DEF Begin, Step, Races, blocks
<1>2. Located /\ Owned /\ Rooted
  BY DEF CallsSound
<1>3. "search" \in Called /\ "search" \in SearchSteps /\ "search" \notin FreeSteps
      /\ "search" \notin Given /\ "idle" \notin Given
  BY DEF Called, SearchSteps, Given, FreeSteps, MergeSteps, MergeBackSteps
<1>4. UNCHANGED <<hdr, heap_tail, heap_pointer, heap_current, live>> /\ Blocks' = Blocks
  BY <1>1 DEF blocks, Blocks
<1>5. PICK c, n, b, d : c = heap_pointer /\ n = pages[t] /\ b = block[t] /\ d = done[t]
  OBVIOUS
<1>6. c \in Nat
  <2>1. curr'[t] = c /\ pc'[t] = "search"
    BY <1>1, <1>2, <1>5 DEF Located
  <2>2. curr'[t] \in Blocks'
    BY <1>1, <1>3, <2>1, RacesGive DEF Searches
  <2>3. c \in Blocks
    BY <1>4, <2>1, <2>2
  <2> QED BY <2>3, HeapThere
<1>7. /\ Moves(t) /\ pc'[t] = "search" /\ done'[t] = d /\ d \in Nat
  <2>1. Goes(t, "search", d, c, n, b) /\ d \in Nat
    BY <1>1, <1>2, <1>3, <1>5, <1>6, Where DEF Goes
  <2> QED BY <1>2, <2>1, MovesIs
<1>8. Placed(t)'
  BY <1>1, <1>2, <1>3, <1>5, <1>7, PlacedOn
<1>9. Made(t)' = Made(t)
  <2>1. Made(t) = done[t] + 0 /\ Made(t)' = done'[t] + 0
    BY <1>1, <1>3, <1>7, MadeIs
  <2> QED BY <1>5, <1>7, <2>1
<1>10. Made(former) = 0 => t = former
  BY <1>1, <1>2, OnlyFormer
<1>11. Torn(t) = {} /\ Torn(t)' = {}
  BY <1>1, <1>7 DEF Torn
<1>12. Writes(t) /\ Headers(hdr)' /\ heap_tail' \in Nat
  BY <1>4, HeapThere DEF Writes
<1>13. ASSUME NEW x \in Blocks
       PROVE  Width(t, x)' = Width(t, x) /\ Open(t, x)' = Open(t, x) /\ hdr'[x].next = hdr[x].next
  BY <1>1, <1>4, <1>7, <1>11 DEF Width, Open
<1>14. MapKept
  BY <1>1, <1>4, <1>7, MappedStays, HeapThere
<1>15. Knows(t)'
  BY <1>1, <1>3, <1>7, EasyKnows
<1> QED BY <1>1, <1>4, <1>7, <1>8, <1>9, <1>10, <1>11, <1>12, <1>13, <1>14, <1>15, Quiet

(* my_free marks its block.                                                *)
LEMMA MarkSound ==
    ASSUME CallsSound, NEW t \in Task, Mark(t), raced' = {}
    PROVE  CallsSound'
<1>1. PICK m, x : m = The(Call(t).role, t) /\ x = m.addr - 1
  OBVIOUS
<1>2. PICK r : r = [hdr[x] EXCEPT !.free = TRUE]
  OBVIOUS
<1>3. /\ raced = {} /\ pc[t] = "idle" /\ pc' = [pc EXCEPT ![t] = "forward"]
      /\ done[t] < Len(Script[t]) /\ Call(t).op = "free"
      /\ hdr' = [hdr EXCEPT ![x] = r] /\ live' = live \ {m} /\ block' = [block EXCEPT ![t] = x]
      /\ UNCHANGED <<globals, done, curr, pages, reaped>> /\ Raises({})
  BY <1>1, <1>2 DEF Mark, Step, Races
<1>4. Located /\ Owned /\ Rooted
  BY DEF CallsSound
<1>5. "forward" \in Called /\ "forward" \in FreeSteps /\ "forward" \in Given /\ "idle" \notin Given
  BY DEF Called, Given, FreeSteps, MergeSteps, MergeBackSteps
<1>6. done[t] \in Nat /\ done[t] + 1 \in DOMAIN Script[t]
  BY <1>3, <1>4, CallIs
<1>7. Made(t) = done[t]
  <2>1. Made(t) = done[t] + 0
    BY <1>3, <1>5, MadeIs
  <2> QED BY <1>6, <2>1
<1>8. hdr # << >> /\ Made(former) # 0
  <2>1. Made(former) # 0
    BY <1>3, <1>4, OnlyFormer
  <2>2. former \in Task
    BY ScriptOfFormer
  <2>3. ASSUME hdr = << >> PROVE FALSE
    <3>1. pc[former] = "idle" /\ done[former] = 0
      BY <2>2, <2>3 DEF CallsSound, Idle
    <3>2. Made(former) = done[former] + 0
      BY <1>5, <3>1, MadeIs
    <3> QED BY <2>1, <3>1, <3>2
  <2> QED BY <2>1, <2>3
<1>9. ~(t = former /\ reaped)
  BY <1>3, <1>4, NotReaped
<1>10. m \in live /\ m.task = t /\ m.role = Call(t).role
  <2>1. PICK k : k = done[t] + 1
    OBVIOUS
  <2>2. k \in DOMAIN Script[t] /\ Made(t) = k - 1 /\ Script[t][k].op = "free"
    BY <1>3, <1>6, <1>7, <2>1 DEF Call
  <2>3. m = The(Script[t][k].role, t)
    BY <1>1, <2>1 DEF Call
  <2>4. Held(Script[t], k - 1, Script[t][k].role)
    BY <2>2, Scripted
  <2>5. Due(t, Script[t][k].role)
    BY <1>9, <2>2, <2>4 DEF Due
  <2>6. m \in live /\ m.task = t /\ m.role = Script[t][k].role
    BY <1>4, <2>2, <2>3, <2>5, HeldBy
  <2> QED BY <2>1, <2>6 DEF Call
<1>11. PICK C, v, w, current, given :
         C = Blocks /\ v = View /\ w = View' /\ current = Mapped /\ given = live
  OBVIOUS
<1>12. Laid(v, current, C, given) /\ Headers(hdr) /\ Blocks \subseteq DOMAIN hdr
  BY <1>8, <1>11, HeapThere
<1>13. x \in Blocks /\ m.addr = x + 1 /\ x \in Nat
  <2>1. PICK a \in C : m.addr = a + 1
    BY <1>10, <1>11, <1>12 DEF Laid, GivenOut
  <2>2. a \in Nat
    BY <1>8, <1>11, HeapThere
  <2> QED BY <1>1, <1>11, <2>1, <2>2
<1>14. x \in DOMAIN hdr /\ hdr[x] \in Header
  BY <1>8, <1>13, HeapThere
<1>15. r \in Header /\ r.free /\ r.next = hdr[x].next /\ r.size = hdr[x].size
  BY <1>2, <1>14 DEF Header
<1>16. OneSet(x, r)
  BY <1>3, <1>12, <1>14, <1>15, OneIs
<1>17. PICK c, n, d : c = curr[t] /\ n = pages[t] /\ d = done[t]
  OBVIOUS
<1>18. /\ Moves(t) /\ pc'[t] = "forward" /\ done'[t] = d /\ block'[t] = x
  <2>1. Goes(t, "forward", d, c, n, x)
    BY <1>3, <1>4, <1>5, <1>13, <1>17, Where DEF Goes
  <2> QED BY <1>4, <2>1, MovesIs
<1>19. Placed(t)'
  BY <1>3, <1>4, <1>5, <1>17, <1>18, PlacedOn
<1>20. Made(t)' = done[t] + 1
  <2>1. Made(t)' = done'[t] + 1
    BY <1>5, <1>18, MadeIs
  <2> QED BY <1>17, <1>18, <2>1
<1>21. Owned'
  <2>1. PICK k : k = done[t] + 1
    OBVIOUS
  <2>2. k \in DOMAIN Script[t] /\ Made(t) = k - 1 /\ Made(t)' = k
    BY <1>6, <1>7, <1>20, <2>1
  <2>3. Script[t][k].op = "free" /\ m = The(Script[t][k].role, t)
    BY <1>1, <1>3, <2>1 DEF Call
  <2> QED BY <1>3, <1>4, <1>9, <1>18, <2>2, <2>3, OwnedFreed
<1>22. Rooted' /\ \E o \in live : o.addr = heap_start + 1 /\ o # m
  BY <1>3, <1>4, <1>6, <1>7, <1>10, <1>18, <1>20, RootedFreed
<1>23. x # heap_start
  <2>1. PICK o \in live : o.addr = heap_start + 1 /\ o # m
    BY <1>22
  <2>2. o.addr # m.addr
    BY <1>10, <1>11, <1>12, <2>1 DEF Laid, GivenOut
  <2> QED BY <1>13, <2>1, <2>2
<1>24. AtWork(t) = {} /\ AtWork(t)' = {x, r.next, r.prev}
  <2>1. WorksAll'
    BY Working, PTL
  <2>2. "idle" \notin SplitSteps \cup GrowSteps \cup FreeSteps
    BY DEF SplitSteps, GrowSteps, FreeSteps, MergeSteps, MergeBackSteps
  <2>3. AtWork(t) = {}
    BY <1>3, <2>2, Working DEF WorksAll, WorksOn
  <2>4. hdr'[block'[t]] = r
    BY <1>16, <1>18 DEF OneSet
  <2>5. AtWork(t)' = {x, r.next, r.prev}
    BY <1>5, <1>18, <2>1, <2>4 DEF WorksAll, WorksOn
  <2> QED BY <2>3, <2>5
<1>25. Writes(t) /\ Headers(hdr)' /\ heap_tail' \in Nat
  <2>1. \A y \in DOMAIN hdr : hdr'[y] = hdr[y] \/ (y \in AtWork(t)' /\ hdr'[y] = [hdr[y] EXCEPT !.free = TRUE])
    BY <1>2, <1>16, <1>24 DEF OneSet
  <2> QED BY <1>3, <1>8, <1>16, <2>1, HeapThere DEF Writes, globals, OneSet
<1>26. Torn(t) = {} /\ Torn(t)' = {}
  BY <1>3, <1>18 DEF Torn
<1>27. Apart'
  BY <1>3, RacesGive
<1>28. \A y \in DOMAIN hdr : Viewed(t, y) /\ y \in DOMAIN View' /\ View[y].next = hdr[y].next
                             /\ View'[y].next = hdr'[y].next
  BY <1>8, <1>18, <1>25, <1>27, ViewStep
<1>29. Headers(View)'
  BY <1>8, <1>18, <1>25, <1>26, <1>27, HeadersOn
<1>30. Freed1(v, w, C, x)
  <2>1. ASSUME NEW y \in C
        PROVE  /\ w[y].size = v[y].size /\ w[y].next = v[y].next
               /\ y # x => w[y].free = v[y].free
               /\ y = x => w[y].free
    <3>1. y \in DOMAIN hdr /\ hdr[y].free \in BOOLEAN
      BY <1>8, <1>11, HeapThere
    <3>2. /\ hdr'[y].size = hdr[y].size /\ hdr'[y].next = hdr[y].next
          /\ y # x => hdr'[y].free = hdr[y].free
          /\ y = x => hdr'[y].free
      BY <1>15, <1>16, <3>1 DEF OneSet
    <3>3. v[y].next = hdr[y].next /\ w[y].next = hdr'[y].next
      BY <1>11, <1>28, <3>1
    <3>4. CASE y \in AtWork(t)'
      <4>1. /\ v[y].size = Width(t, y) /\ v[y].free = Open(t, y)
            /\ w[y].size = Width(t, y)' /\ w[y].free = Open(t, y)'
        BY <1>11, <1>28, <3>1, <3>4 DEF Viewed
      <4>2. Width(t, y) = hdr[y].size /\ Width(t, y)' = hdr'[y].size
        BY <1>26 DEF Width
      <4>3. Open(t, y) = hdr[y].free
        BY <1>3, <3>1 DEF Open
      <4>4. hdr'[y].free \in BOOLEAN
        BY <1>15, <1>16, <3>1 DEF OneSet, Header
      <4>5. Open(t, y)' = hdr'[y].free
        BY <1>18, <4>4 DEF Open
      <4> QED BY <3>2, <3>3, <4>1, <4>2, <4>3, <4>5
    <3>5. CASE y \notin AtWork(t)'
      <4>1. w[y].size = v[y].size /\ w[y].free = v[y].free
        BY <1>11, <1>24, <1>28, <3>1, <3>5 DEF Viewed
      <4>2. y # x
        BY <1>24, <3>5
      <4> QED BY <3>2, <3>3, <4>1, <4>2
    <3> QED BY <3>4, <3>5
  <2> QED BY <1>11, <1>13, <2>1 DEF Freed1, Same
<1>31. MapKept
  BY <1>3, <1>8, <1>18, MappedStays, HeapThere DEF globals
<1>32. Laid(View', Mapped', C, live')
  <2>1. C \subseteq DOMAIN w /\ Headers(w) /\ m \in given
    BY <1>10, <1>11, <1>12, <1>28, <1>29
  <2>2. Laid(w, current, C, given \ {m})
    BY <1>1, <1>12, <1>30, <2>1, MarkLaid
  <2> QED BY <1>3, <1>11, <1>31, <2>2 DEF MapKept
<1>33. Blocks' = C => Knows(t)'
  <2> SUFFICES ASSUME Blocks' = C PROVE Knows(t)'
    OBVIOUS
  <2>1. pc'[t] \notin SearchSteps \cup SplitSteps \cup GrowSteps \cup {"sbrk", "widen"}
    BY <1>18 DEF SearchSteps, SplitSteps, GrowSteps
  <2>2. x \in DOMAIN hdr' /\ hdr'[x].free /\ hdr'[x].next \in Blocks'
    BY <1>8, <1>11, <1>13, <1>14, <1>15, <1>16, HeapThere DEF OneSet
  <2>3. Absorbs(t, block[t], hdr[block[t]].next)' /\ Backs(t, block[t], hdr[block[t]].prev)'
    BY <1>18 DEF Absorbs, Backs, MergeBackSteps
  <2> QED BY <1>11, <1>13, <1>18, <1>23, <2>1, <2>2, <2>3 DEF Knows, Searches, Frees
<1>34. \A y \in Blocks : y \in C \/ y \in AtWork(t)
  BY <1>11
<1>35. heap_current' \in Nat
  BY <1>31 DEF MapKept
<1> QED BY <1>3, <1>8, <1>18, <1>19, <1>21, <1>22, <1>25, <1>32, <1>33, <1>34, <1>35, StepTo

-----------------------------------------------------------------------------
(* The rest of my_free.                                                    *)
FreeFacts(t, x, y, z) ==
    /\ x = block[t] /\ y = hdr[x].next /\ z = hdr[x].prev
    /\ x \in DOMAIN hdr /\ x \in Nat /\ x # heap_start /\ hdr[x].free
    /\ y \in Blocks /\ y \in DOMAIN hdr /\ y \in Nat /\ z \in Int
    /\ pc[t] # "prevBack" => x \in Blocks
    /\ Absorbs(t, x, y) /\ Backs(t, x, z) /\ AtWork(t) = {x, y, z}

LEMMA FreeIs ==
    ASSUME CallsSound, NEW t \in Task, pc[t] \in FreeSteps,
           NEW x, x = block[t], NEW y, y = hdr[x].next, NEW z, z = hdr[x].prev
    PROVE  FreeFacts(t, x, y, z) /\ hdr # << >> /\ Headers(hdr)
<1>1. hdr # << >>
  BY DEF CallsSound, Idle, FreeSteps, MergeSteps, MergeBackSteps
<1>2. /\ x \in DOMAIN hdr /\ x # heap_start /\ hdr[x].free /\ y \in Blocks
      /\ pc[t] # "prevBack" => x \in Blocks
      /\ Absorbs(t, x, y) /\ Backs(t, x, z)
  BY <1>1, HeapThere DEF Knows, Frees
<1>3. x \in Nat /\ y \in DOMAIN hdr /\ y \in Nat /\ z \in Int /\ Headers(hdr)
  <2>1. y \in DOMAIN hdr /\ Headers(hdr) /\ x \in Nat /\ hdr[x] \in Header
    BY <1>1, <1>2, HeapThere
  <2>2. y \in Nat
    BY <1>1, <2>1, HeapThere
  <2> QED BY <2>1, <2>2 DEF Header
<1>4. AtWork(t) = {x, y, z}
  BY Working DEF WorksAll, WorksOn
<1> QED BY <1>1, <1>2, <1>3, <1>4 DEF FreeFacts

LEMMA FreeKnows ==
    ASSUME NEW t \in Task, pc'[t] \in FreeSteps, NEW x, block'[t] = x, x \in DOMAIN hdr', x # heap_start,
           hdr'[x].free, NEW y, hdr'[x].next = y, y \in Blocks', NEW z, hdr'[x].prev = z,
           pc'[t] # "prevBack" => x \in Blocks', Absorbs(t, x, y)', Backs(t, x, z)'
    PROVE  Knows(t)'
<1>1. pc'[t] \notin SearchSteps \cup SplitSteps \cup GrowSteps \cup {"sbrk", "widen"}
  BY DEF SearchSteps, SplitSteps, GrowSteps, FreeSteps, MergeSteps, MergeBackSteps
<1>2. Absorbs(t, block[t], hdr[block[t]].next)' /\ Backs(t, block[t], hdr[block[t]].prev)'
  BY DEF Absorbs, Backs
<1> QED BY <1>1, <1>2 DEF Knows, Searches, Frees

(* A call that is freeing goes on freeing.                                 *)
LEMMA FreesOn ==
    ASSUME NEW p \in FreeSteps
    PROVE  p \in Called /\ p \in Given /\ p # "idle" /\ p # "widen" /\ p \notin {"shrink", "occupy"}
BY DEF Called, Given, FreeSteps, MergeSteps, MergeBackSteps

LEMMA ForwardSound ==
    ASSUME CallsSound, NEW t \in Task, Forward(t), raced' = {}
    PROVE  CallsSound'
<1>1. PICK x, y, z : x = block[t] /\ y = hdr[x].next /\ z = hdr[x].prev
  OBVIOUS
<1>2. PICK p : p = IF MergesNext(hdr, x) THEN "nextSize" ELSE "backward"
  OBVIOUS
<1>3. /\ raced = {} /\ pc[t] = "forward" /\ pc' = [pc EXCEPT ![t] = p]
      /\ UNCHANGED <<blocks, live, done, curr, pages, block, reaped>> /\ Raises({})
  BY <1>1, <1>2 DEF Forward, Test, Step, Races
<1>4. PICK c, n, d : c = curr[t] /\ n = pages[t] /\ d = done[t]
  OBVIOUS
<1>5. pc[t] \in FreeSteps /\ p \in FreeSteps /\ p \in {"nextSize", "backward"}
  BY <1>2, <1>3 DEF FreeSteps, MergeSteps
<1>6. FreeFacts(t, x, y, z) /\ hdr # << >>
  BY <1>1, <1>5, FreeIs
<1>7. Onward(t, p, d, c, n, x)
  BY <1>1, <1>3, <1>4, <1>5, FreesOn, Where DEF Onward, CallsSound
<1>8. GoneOn(t, p, d, c, n, x)
  BY <1>7, OnwardIs
<1>9. Knows(t)'
  <2>1. hdr' = hdr /\ Blocks' = Blocks /\ pc'[t] = p /\ block'[t] = x
    BY <1>3, <1>8 DEF blocks, Blocks, GoneOn
  <2>2. Absorbs(t, x, y)'
    BY <1>1, <1>2, <2>1 DEF Absorbs, MergesNext
  <2>3. Backs(t, x, z)'
    BY <1>5, <2>1 DEF Backs, MergeBackSteps
  <2>4. x \in Blocks' /\ y \in Blocks' /\ x \in DOMAIN hdr' /\ x # heap_start /\ hdr'[x].free
    BY <1>3, <1>6, <2>1 DEF FreeFacts
  <2> QED BY <1>1, <1>5, <2>1, <2>2, <2>3, <2>4, FreeKnows
<1>10. MapKept
  BY <1>3, <1>5, <1>6, <1>8, MappedStays, HeapThere DEF GoneOn, blocks
<1> QED BY <1>3, <1>5, <1>7, <1>9, <1>10, Still DEF TornSteps, blocks

LEMMA PointerSound ==
    ASSUME CallsSound, NEW t \in Task, Pointer(t), raced' = {}
    PROVE  CallsSound'
<1>1. PICK x, y, z : x = block[t] /\ y = hdr[x].next /\ z = hdr[x].prev
  OBVIOUS
<1>2. /\ raced = {} /\ pc[t] = "pointer" /\ pc' = [pc EXCEPT ![t] = "backward"]
      /\ UNCHANGED <<hdr, heap_tail, heap_current, live, done, curr, pages, block, reaped>> /\ Raises({})
  BY DEF Pointer, Step, Races
<1>3. PICK c, n, d : c = curr[t] /\ n = pages[t] /\ d = done[t]
  OBVIOUS
<1>4. pc[t] \in FreeSteps /\ "backward" \in FreeSteps
  BY <1>2 DEF FreeSteps, MergeSteps
<1>5. FreeFacts(t, x, y, z) /\ hdr # << >>
  BY <1>1, <1>4, FreeIs
<1>6. Onward(t, "backward", d, c, n, x)
  BY <1>1, <1>2, <1>3, <1>4, FreesOn, Where DEF Onward, CallsSound
<1>7. GoneOn(t, "backward", d, c, n, x)
  BY <1>6, OnwardIs
<1>8. Knows(t)'
  <2>1. hdr' = hdr /\ Blocks' = Blocks /\ pc'[t] = "backward" /\ block'[t] = x
    BY <1>2, <1>7 DEF Blocks, GoneOn
  <2>2. Absorbs(t, x, y)' /\ Backs(t, x, z)'
    BY <2>1 DEF Absorbs, Backs, MergeBackSteps
  <2>3. x \in Blocks' /\ y \in Blocks' /\ x \in DOMAIN hdr' /\ x # heap_start /\ hdr'[x].free
    BY <1>2, <1>5, <2>1 DEF FreeFacts
  <2> QED BY <1>1, <1>4, <2>1, <2>2, <2>3, FreeKnows
<1>9. MapKept
  BY <1>2, <1>5, <1>7, MappedStays, HeapThere DEF GoneOn
<1> QED BY <1>2, <1>6, <1>8, <1>9, Still DEF TornSteps

LEMMA BackwardSound ==
    ASSUME CallsSound, NEW t \in Task, Backward(t), raced' = {}
    PROVE  CallsSound'
<1>1. PICK x, y, z : x = block[t] /\ y = hdr[x].next /\ z = hdr[x].prev
  OBVIOUS
<1>2. PICK own : own = IF MergesPrev(hdr, x) /\ Stale(hdr, x) THEN {"prev"} ELSE {}
  OBVIOUS
<1>3. PICK c, n : c = curr[t] /\ n = pages[t]
  OBVIOUS
<1>4. /\ raced = {} /\ pc[t] = "backward" /\ UNCHANGED <<blocks, live, curr, pages, reaped>>
      /\ pc' = [pc EXCEPT ![t] = IF MergesPrev(hdr, x) THEN "pointBack" ELSE "idle"]
      /\ IF MergesPrev(hdr, x) THEN UNCHANGED <<done, block>> ELSE Return(t)
  BY <1>1 DEF Backward, Step
<1>5. Raises(own)
  BY <1>1, <1>2 DEF Backward, Raises
<1>6. pc[t] \in FreeSteps /\ "pointBack" \in FreeSteps /\ "idle" \in Called /\ NONE \in Int
  BY <1>4 DEF FreeSteps, MergeBackSteps, Called, NONE
<1>7. FreeFacts(t, x, y, z) /\ hdr # << >>
  BY <1>1, <1>6, FreeIs
<1>8. hdr' = hdr /\ Blocks' = Blocks /\ heap_tail' = heap_tail /\ heap_current' = heap_current
  BY <1>4 DEF blocks, Blocks
<1>9. CASE MergesPrev(hdr, x)
  <2>1. PICK d : d = done[t]
    OBVIOUS
  <2>2. Onward(t, "pointBack", d, c, n, x)
    BY <1>1, <1>3, <1>4, <1>6, <1>9, <2>1, FreesOn, Where DEF Onward, CallsSound
  <2>3. GoneOn(t, "pointBack", d, c, n, x)
    BY <2>2, OnwardIs
  <2>4. own = {}
    BY <1>4, <1>5, RacesGive
  <2>5. ~Stale(hdr, x)
    BY <1>2, <1>9, <2>4
  <2>6. z \in Blocks /\ hdr[z].next = x /\ hdr[z].free
    BY <1>1, <1>9, <2>5 DEF Stale, MergesPrev, Blocks
  <2>7. Knows(t)'
    <3>1. pc'[t] = "pointBack" /\ block'[t] = x
      BY <2>3 DEF GoneOn
    <3>2. Absorbs(t, x, y)' /\ Backs(t, x, z)'
      BY <1>8, <2>6, <3>1 DEF Absorbs, Backs
    <3>3. x \in Blocks' /\ y \in Blocks' /\ x \in DOMAIN hdr' /\ x # heap_start /\ hdr'[x].free
      BY <1>4, <1>7, <1>8 DEF FreeFacts
    <3> QED BY <1>1, <1>6, <1>8, <3>1, <3>2, <3>3, FreeKnows
  <2>8. MapKept
    BY <1>4, <1>7, <1>8, <2>3, MappedStays, HeapThere DEF GoneOn
  <2> QED BY <1>4, <1>5, <1>8, <2>2, <2>7, <2>8, Still DEF TornSteps
<1>10. CASE ~MergesPrev(hdr, x)
  <2>1. PICK d : d = done[t] + 1
    OBVIOUS
  <2>2. done' = [done EXCEPT ![t] = d] /\ block' = [block EXCEPT ![t] = NONE]
    BY <1>4, <1>10, <2>1 DEF Return
  <2>3. Onward(t, "idle", d, c, n, NONE)
    BY <1>3, <1>4, <1>6, <1>10, <2>1, <2>2, FreesOn, Where DEF Onward, CallsSound
  <2>4. GoneOn(t, "idle", d, c, n, NONE)
    BY <2>3, OnwardIs
  <2>5. Knows(t)'
    BY <1>4, <1>5, <2>4, EasyKnows DEF GoneOn
  <2>6. MapKept
    BY <1>4, <1>7, <1>8, <2>4, MappedStays, HeapThere DEF GoneOn
  <2> QED BY <1>4, <1>5, <1>8, <2>3, <2>5, <2>6, Still DEF TornSteps
<1> QED BY <1>9, <1>10

LEMMA PointBackSound ==
    ASSUME CallsSound, NEW t \in Task, PointBack(t), raced' = {}
    PROVE  CallsSound'
<1>1. PICK x, y, z : x = block[t] /\ y = hdr[x].next /\ z = hdr[x].prev
  OBVIOUS
<1>2. /\ raced = {} /\ pc[t] = "pointBack" /\ pc' = [pc EXCEPT ![t] = "prevSize"]
      /\ UNCHANGED <<hdr, heap_tail, heap_current, live, done, curr, pages, block, reaped>> /\ Raises({})
  BY DEF PointBack, Step, Races
<1>3. PICK c, n, d : c = curr[t] /\ n = pages[t] /\ d = done[t]
  OBVIOUS
<1>4. /\ pc[t] \in FreeSteps /\ "prevSize" \in FreeSteps
      /\ pc[t] \in MergeBackSteps \ {"prevBack"} /\ "prevSize" \in MergeBackSteps \ {"prevBack"}
  BY <1>2 DEF FreeSteps, MergeBackSteps
<1>5. FreeFacts(t, x, y, z) /\ hdr # << >>
  BY <1>1, <1>4, FreeIs
<1>6. Onward(t, "prevSize", d, c, n, x)
  BY <1>1, <1>2, <1>3, <1>4, FreesOn, Where DEF Onward, CallsSound
<1>7. GoneOn(t, "prevSize", d, c, n, x)
  BY <1>6, OnwardIs
<1>8. Knows(t)'
  <2>1. hdr' = hdr /\ Blocks' = Blocks /\ pc'[t] = "prevSize" /\ block'[t] = x
    BY <1>2, <1>7 DEF Blocks, GoneOn
  <2>2. z \in Blocks /\ hdr[z].free /\ hdr[z].next = x
    BY <1>4, <1>5 DEF FreeFacts, Backs
  <2>3. Absorbs(t, x, y)' /\ Backs(t, x, z)'
    BY <2>1, <2>2 DEF Absorbs, Backs
  <2>4. x \in Blocks' /\ y \in Blocks' /\ x \in DOMAIN hdr' /\ x # heap_start /\ hdr'[x].free
    BY <1>2, <1>5, <2>1 DEF FreeFacts
  <2> QED BY <1>1, <1>4, <2>1, <2>3, <2>4, FreeKnows
<1>9. MapKept
  BY <1>2, <1>5, <1>7, MappedStays, HeapThere DEF GoneOn
<1> QED BY <1>2, <1>6, <1>8, <1>9, Still DEF TornSteps

(* A store of my_free to a block that it is at work on.                    *)
FreeStore(t, p, x, a, r) ==
    /\ raced = {} /\ pc[t] \in FreeSteps /\ p \in FreeSteps \cup {"idle"}
    /\ hdr' = [hdr EXCEPT ![a] = r] /\ a \in DOMAIN hdr /\ a \in AtWork(t) /\ r \in Header
    /\ pc' = [pc EXCEPT ![t] = p] /\ UNCHANGED <<globals, live, curr, pages, reaped>> /\ Raises({})
    /\ IF p = "idle" THEN Return(t) ELSE UNCHANGED <<done, block>> /\ block[t] = x

LEMMA FreeStoreIs ==
    ASSUME CallsSound, NEW t \in Task, NEW p, NEW x, NEW a, NEW r, FreeStore(t, p, x, a, r)
    PROVE  /\ Moves(t) /\ hdr # << >> /\ Placed(t)' /\ Made(t)' = Made(t) /\ (Made(former) = 0 => t = former)
           /\ pc'[t] = p /\ p \notin {"shrink", "occupy"} /\ pc[t] \notin {"shrink", "occupy"}
           /\ p # "idle" => block'[t] = x
           /\ OneSet(a, r) /\ Writes(t) /\ MapKept /\ heap_tail' \in Nat /\ ~Idle(t) /\ Headers(hdr)
           /\ Made(former) # 0
<1>1. PICK c, n, d, b : /\ c = curr[t] /\ n = pages[t]
                        /\ d = IF p = "idle" THEN done[t] + 1 ELSE done[t]
                        /\ b = IF p = "idle" THEN NONE ELSE block[t]
  OBVIOUS
<1>2. /\ pc[t] \in Given /\ pc[t] # "idle" /\ pc[t] # "widen" /\ pc[t] \notin {"shrink", "occupy"}
      /\ p \in Called /\ p # "widen" /\ p \notin {"shrink", "occupy"} /\ NONE \in Int
      /\ p # "idle" => p \in FreeSteps /\ p \in Given
  BY FreesOn DEF FreeStore, Called, NONE
<1>3. done' = [done EXCEPT ![t] = d] /\ block' = [block EXCEPT ![t] = b] /\ b \in Int
  BY <1>1, <1>2, Where DEF FreeStore, Return, CallsSound
<1>4. Onward(t, p, d, c, n, b)
  BY <1>1, <1>2, <1>3, Where DEF Onward, CallsSound, FreeStore
<1>5. GoneOn(t, p, d, c, n, b)
  BY <1>4, OnwardIs
<1>6. /\ Moves(t) /\ hdr # << >> /\ Placed(t)' /\ Made(t)' = Made(t) /\ (Made(former) = 0 => t = former)
      /\ pc'[t] = p /\ block'[t] = b /\ ~Idle(t)
  BY <1>5 DEF GoneOn
<1>7. Headers(hdr) /\ Located /\ Rooted /\ heap_tail \in Nat
  BY <1>6, HeapThere
<1>8. OneSet(a, r)
  BY <1>7, OneIs DEF FreeStore
<1>9. Writes(t) /\ heap_tail' \in Nat
  BY <1>7, <1>8 DEF FreeStore, Writes, OneSet, globals
<1>10. MapKept
  BY <1>2, <1>6, MappedStays, HeapThere DEF FreeStore, globals
<1>11. Made(former) # 0
  <2>1. Call(t).op = "free"
    BY <1>6, <1>7, CallIs DEF Frees, FreeStore
  <2> QED BY <1>6, <1>7, <2>1, OnlyFormer
<1> QED BY <1>1, <1>2, <1>6, <1>7, <1>8, <1>9, <1>10, <1>11 DEF FreeStore

(* It changes a prev, ...                                                  *)
LEMMA BackStep ==
    ASSUME CallsSound, NEW t \in Task, NEW p, NEW x, NEW a, NEW r, FreeStore(t, p, x, a, r),
           raced' = {}, r.size = hdr[a].size, r.free = hdr[a].free, r.next = hdr[a].next,
           Torn(t) = {}, Torn(t)' = {}, Blocks' = Blocks => Knows(t)'
    PROVE  CallsSound'
<1>1. /\ Moves(t) /\ hdr # << >> /\ Placed(t)' /\ Made(t)' = Made(t) /\ (Made(former) = 0 => t = former)
      /\ pc'[t] = p /\ p \notin {"shrink", "occupy"} /\ pc[t] \notin {"shrink", "occupy"}
      /\ OneSet(a, r) /\ Writes(t) /\ MapKept /\ heap_tail' \in Nat /\ ~Idle(t)
  BY FreeStoreIs
<1>2. ASSUME NEW y \in Blocks
      PROVE  Width(t, y)' = Width(t, y) /\ Open(t, y)' = Open(t, y) /\ hdr'[y].next = hdr[y].next
  <2>1. y \in DOMAIN hdr
    BY <1>1, HeapThere
  <2>2. hdr'[y].size = hdr[y].size /\ hdr'[y].free = hdr[y].free /\ hdr'[y].next = hdr[y].next
    BY <1>1, <2>1 DEF OneSet
  <2> QED BY <1>1, <2>2 DEF Width, Open
<1>3. Headers(hdr)' /\ raced = {} /\ live' = live /\ Raises({})
  BY <1>1 DEF OneSet, FreeStore
<1> QED BY <1>1, <1>2, <1>3, Quiet

(* ... or the size of a block whose next is to follow, ...                 *)
LEMMA SizeStep ==
    ASSUME CallsSound, NEW t \in Task, NEW p, NEW x, NEW a, NEW r, FreeStore(t, p, x, a, r),
           raced' = {}, r.free = hdr[a].free, r.next = hdr[a].next, a \in Blocks, r.next # heap_start,
           Torn(t) = {}, Torn(t)' = {a}, Blocks' = Blocks => Knows(t)'
    PROVE  CallsSound' /\ hdr[a].size = hdr[a].next - a - 1 /\ a < hdr[a].next
<1>1. /\ Moves(t) /\ hdr # << >> /\ Placed(t)' /\ Made(t)' = Made(t) /\ (Made(former) = 0 => t = former)
      /\ pc'[t] = p /\ p \notin {"shrink", "occupy"} /\ pc[t] \notin {"shrink", "occupy"}
      /\ OneSet(a, r) /\ Writes(t) /\ MapKept /\ heap_tail' \in Nat /\ ~Idle(t)
  BY FreeStoreIs
<1>2. hdr[a].size = hdr[a].next - a - 1 /\ a < hdr[a].next
  <2>1. PICK v, current, given : v = View /\ current = Mapped /\ given = live
    OBVIOUS
  <2>2. Laid(v, current, Blocks, given)
    BY <1>1, <2>1, HeapThere
  <2>3. v[a].next = hdr[a].next /\ v[a].size = hdr[a].size
    <3>1. v[a].next = hdr[a].next /\ v[a].size = Width(t, a)
      BY <1>1, <2>1, ViewMine DEF FreeStore
    <3> QED BY <3>1 DEF Width
  <2>4. v[a].size = v[a].next - a - 1 /\ a < v[a].next
    BY <2>2, <2>3, AsFar
  <2> QED BY <2>3, <2>4
<1>3. ASSUME NEW y \in Blocks
      PROVE  Width(t, y)' = Width(t, y) /\ Open(t, y)' = Open(t, y) /\ hdr'[y].next = hdr[y].next
  <2>1. y \in DOMAIN hdr
    BY <1>1, HeapThere
  <2>2. hdr'[y].free = hdr[y].free /\ hdr'[y].next = hdr[y].next /\ (y # a => hdr'[y].size = hdr[y].size)
    BY <1>1, <2>1 DEF OneSet
  <2>3. Open(t, y)' = Open(t, y)
    BY <1>1, <2>2 DEF Open
  <2>4. Width(t, y)' = Width(t, y)
    BY <1>2, <2>2 DEF Width
  <2> QED BY <2>2, <2>3, <2>4
<1>4. Headers(hdr)' /\ raced = {} /\ live' = live /\ Raises({}) /\ Torn(t)' \subseteq Blocks
  BY <1>1 DEF OneSet, FreeStore
<1>5. CallsSound'
  BY <1>1, <1>3, <1>4, Quiet
<1> QED BY <1>2, <1>5

(* ... or the next of a block that takes in the block b behind it.         *)
LEMMA MergeStep ==
    ASSUME CallsSound, NEW t \in Task, NEW p, NEW x, NEW a, NEW r, FreeStore(t, p, x, a, r),
           raced' = {}, a \in Blocks, NEW b \in Blocks, b \in AtWork(t), hdr[a].next = b, b # heap_start,
           hdr[a].free, hdr[b].free, hdr[a].size = b - a + hdr[b].size,
           r.free, r.size = hdr[a].size, r.next = hdr[b].next, Torn(t) = {a}, Torn(t)' = {},
           (Blocks' = Blocks \ {b} /\ a # b /\ hdr[b].next # b) => Knows(t)'
    PROVE  CallsSound'
<1>1. /\ Moves(t) /\ hdr # << >> /\ Placed(t)' /\ Made(t)' = Made(t)
      /\ pc'[t] = p /\ p \notin {"shrink", "occupy"} /\ pc[t] \notin {"shrink", "occupy"}
      /\ OneSet(a, r) /\ Writes(t) /\ MapKept /\ heap_tail' \in Nat /\ ~Idle(t) /\ Headers(hdr)
      /\ Made(former) # 0
  BY FreeStoreIs
<1>2. Headers(hdr)' /\ raced = {} /\ live' = live /\ Raises({}) /\ a \in AtWork(t)
  BY <1>1 DEF OneSet, FreeStore
<1>3. PICK C, v, w, current, given :
        C = Blocks \ {b} /\ v = View /\ w = View' /\ current = Mapped /\ given = live
  OBVIOUS
<1>4. Laid(v, current, Blocks, given) /\ a \in DOMAIN hdr /\ b \in DOMAIN hdr /\ a \in Nat /\ b \in Nat
  BY <1>1, <1>3, HeapThere
<1>5. v[a].next = b /\ v[b].next = hdr[b].next /\ v[a].free /\ v[b].free
  <2>1. Open(t, a) /\ Open(t, b)
    BY <1>1 DEF Open
  <2> QED BY <1>1, <1>2, <1>3, <1>4, <2>1, ViewMine
<1>6. v[a].size = b - a - 1 /\ a < b
  BY <1>4, <1>5, AsFar
<1>7. v[b].size = hdr[b].size
  <2>1. b \notin Torn(t)
    BY <1>4, <1>6
  <2>2. Width(t, b) = hdr[b].size
    BY <2>1 DEF Width
  <2> QED BY <1>1, <1>3, <1>4, <2>2, ViewMine
<1>8. hdr[b].next # b
  <2>1. b # heap_start => v[b].next = heap_start \/ b < v[b].next
    BY <1>4, AsFar
  <2> QED BY <1>4, <1>5, <2>1
<1>9. Apart'
  BY <1>2, RacesGive
<1>10. \A y \in DOMAIN hdr : Viewed(t, y) /\ y \in DOMAIN View' /\ View[y].next = hdr[y].next
                             /\ View'[y].next = hdr'[y].next
  BY <1>1, <1>2, <1>9, ViewStep
<1>11. Headers(View)'
  BY <1>1, <1>2, <1>9, HeadersOn
<1>12. Merged(v, w, Blocks, a, b)
  <2>1. w[a].size = hdr[a].size /\ w[a].next = hdr[b].next /\ w[a].free
    <3>1. Width(t, a)' = hdr[a].size /\ Open(t, a)'
      <4>1. hdr'[a] = r /\ pc'[t] \notin {"shrink", "occupy"}
        BY <1>1 DEF OneSet
      <4> QED BY <4>1 DEF Width, Open
    <3>2. w[a].size = Width(t, a)' /\ w[a].free = Open(t, a)' /\ w[a].next = hdr'[a].next
      BY <1>2, <1>3, <1>4, <1>10 DEF Viewed
    <3> QED BY <1>1, <3>1, <3>2 DEF OneSet
  <2>2. w[a].size = v[a].size + v[b].size + 1
    <3>1. hdr[b].size \in Nat
      BY <1>1, <1>4, HeapThere
    <3> QED BY <1>4, <1>6, <1>7, <2>1, <3>1
  <2>3. ASSUME NEW y \in Blocks \ {a, b} PROVE Same(v, w, y)
    <3>1. y \in DOMAIN hdr /\ hdr'[y] = hdr[y]
      BY <1>1, HeapThere DEF OneSet
    <3>2. v[y].next = w[y].next
      BY <1>3, <1>10, <3>1
    <3>3. CASE y \in AtWork(t) \/ y \in AtWork(t)'
      <4>1. Width(t, y)' = Width(t, y) /\ Open(t, y)' = Open(t, y)
        BY <1>1, <3>1 DEF Width, Open
      <4> QED BY <1>3, <1>10, <3>1, <3>2, <3>3, <4>1 DEF Viewed, Same
    <3>4. CASE y \notin AtWork(t) /\ y \notin AtWork(t)'
      BY <1>3, <1>10, <3>1, <3>2, <3>4 DEF Viewed, Same
    <3> QED BY <3>3, <3>4
  <2> QED BY <1>5, <2>1, <2>2, <2>3 DEF Merged
<1>13. Laid(View', Mapped', C, live')
  <2>1. Follow(v, Blocks, a, b)
    BY <1>5 DEF Follow
  <2>2. Blocks \ {b} \subseteq DOMAIN w /\ Headers(w)
    BY <1>1, <1>3, <1>10, <1>11, HeapThere
  <2>3. Laid(w, current, Blocks \ {b}, given)
    BY <1>4, <1>5, <1>12, <2>1, <2>2, MergeLaid
  <2> QED BY <1>1, <1>2, <1>3, <2>3 DEF MapKept
<1>14. Owned'
  BY <1>1, <1>2, HeapThere, OwnedStays
<1>15. Rooted'
  BY <1>1, <1>2, HeapThere, RootedStays
<1>16. Blocks' = C => Knows(t)'
  BY <1>3, <1>4, <1>6, <1>8
<1>17. \A y \in Blocks : y \in C \/ y \in AtWork(t)
  BY <1>3
<1>18. heap_current' \in Nat
  BY <1>1 DEF MapKept
<1> QED BY <1>1, <1>2, <1>13, <1>14, <1>15, <1>16, <1>17, <1>18, StepTo

LEMMA NextSizeSound ==
    ASSUME CallsSound, NEW t \in Task, NextSize(t), raced' = {}
    PROVE  CallsSound'
<1>1. PICK x, y, z : x = block[t] /\ y = hdr[x].next /\ z = hdr[x].prev
  OBVIOUS
<1>2. PICK r : r = [hdr[x] EXCEPT !.size = @ + hdr[y].size + 1]
  OBVIOUS
<1>3. /\ raced = {} /\ pc[t] = "nextSize" /\ pc' = [pc EXCEPT ![t] = "nextLink"]
      /\ hdr' = [hdr EXCEPT ![x] = r]
      /\ UNCHANGED <<globals, live, done, curr, pages, block, reaped>> /\ Raises({})
  BY <1>1, <1>2 DEF NextSize, Store, Step, Races
<1>4. pc[t] \in FreeSteps /\ "nextLink" \in FreeSteps /\ "nextLink" # "idle"
  BY <1>3 DEF FreeSteps, MergeSteps
<1>5. FreeFacts(t, x, y, z) /\ hdr # << >>
  BY <1>1, <1>4, FreeIs
<1>6. /\ x \in Blocks /\ x \in DOMAIN hdr /\ y # heap_start /\ hdr[y].free /\ x \in AtWork(t) /\ y \in Nat
      /\ hdr[x] \in Header /\ hdr[x].size \in Nat /\ hdr[y].size \in Nat /\ x \in Nat /\ hdr[x].free
  BY <1>3, <1>5, HeapThere DEF FreeFacts, Absorbs
<1>7. r \in Header /\ r.free /\ r.next = y /\ r.prev = z /\ r.size = hdr[x].size + hdr[y].size + 1
  BY <1>1, <1>2, <1>6 DEF Header
<1>8. FreeStore(t, "nextLink", x, x, r)
  BY <1>1, <1>3, <1>4, <1>6, <1>7 DEF FreeStore
<1>9. pc'[t] = "nextLink" /\ block'[t] = x /\ OneSet(x, r)
  BY <1>8, FreeStoreIs
<1>10. Torn(t) = {} /\ Torn(t)' = {x}
  BY <1>3, <1>9 DEF Torn
<1>11. hdr[x].size = y - x - 1 /\ x < y
  <2>1. PICK v, current, given : v = View /\ current = Mapped /\ given = live
    OBVIOUS
  <2>2. Laid(v, current, Blocks, given)
    BY <1>5, <2>1, HeapThere
  <2>3. v[x].next = y /\ v[x].size = hdr[x].size
    <3>1. v[x].next = y /\ v[x].size = Width(t, x)
      BY <1>1, <1>5, <1>6, <2>1, ViewMine
    <3> QED BY <1>10, <3>1 DEF Width
  <2> QED BY <1>6, <2>2, <2>3, AsFar
<1>12. Blocks' = Blocks => Knows(t)'
  <2> SUFFICES ASSUME Blocks' = Blocks PROVE Knows(t)'
    OBVIOUS
  <2>1. hdr'[x] = r /\ hdr'[y] = hdr[y] /\ DOMAIN hdr' = DOMAIN hdr
    BY <1>5, <1>6, <1>9, <1>11 DEF OneSet, FreeFacts
  <2>2. r.size = y - x + hdr[y].size
    BY <1>6, <1>7, <1>11
  <2>3. Absorbs(t, x, y)'
    BY <1>6, <1>9, <2>1, <2>2 DEF Absorbs
  <2>4. Backs(t, x, z)'
    BY <1>9 DEF Backs, MergeBackSteps
  <2>5. /\ x \in DOMAIN hdr' /\ x # heap_start /\ hdr'[x].free /\ hdr'[x].next = y /\ hdr'[x].prev = z
        /\ x \in Blocks' /\ y \in Blocks' /\ pc'[t] \in FreeSteps
    BY <1>4, <1>5, <1>6, <1>7, <1>9, <2>1 DEF FreeFacts
  <2> QED BY <1>9, <2>3, <2>4, <2>5, FreeKnows
<1>13. r.free = hdr[x].free /\ r.next = hdr[x].next /\ r.next # heap_start
  <2>1. hdr[x].free \in BOOLEAN /\ r.free \in BOOLEAN
    BY <1>6, <1>7 DEF Header
  <2> QED BY <1>1, <1>6, <1>7, <2>1
<1> QED BY <1>6, <1>8, <1>10, <1>12, <1>13, SizeStep

LEMMA NextLinkSound ==
    ASSUME CallsSound, NEW t \in Task, NextLink(t), raced' = {}
    PROVE  CallsSound'
<1>1. PICK x, y, z : x = block[t] /\ y = hdr[x].next /\ z = hdr[x].prev
  OBVIOUS
<1>2. PICK r : r = [hdr[x] EXCEPT !.next = hdr[y].next]
  OBVIOUS
<1>3. /\ raced = {} /\ pc[t] = "nextLink" /\ pc' = [pc EXCEPT ![t] = "nextBack"]
      /\ hdr' = [hdr EXCEPT ![x] = r]
      /\ UNCHANGED <<globals, live, done, curr, pages, block, reaped>> /\ Raises({})
  BY <1>1, <1>2 DEF NextLink, Store, Step, Races
<1>4. pc[t] \in FreeSteps /\ "nextBack" \in FreeSteps /\ "nextBack" # "idle"
  BY <1>3 DEF FreeSteps, MergeSteps
<1>5. FreeFacts(t, x, y, z) /\ hdr # << >>
  BY <1>1, <1>4, FreeIs
<1>6. /\ x \in Blocks /\ x \in DOMAIN hdr /\ y # heap_start /\ hdr[y].free /\ x \in AtWork(t) /\ y \in AtWork(t)
      /\ hdr[x] \in Header /\ hdr[x].free /\ y \in Blocks /\ hdr[y].next \in Blocks /\ hdr[y].next \in Nat
      /\ hdr[x].size = y - x + hdr[y].size
  BY <1>3, <1>5, HeapThere DEF FreeFacts, Absorbs
<1>7. r \in Header /\ r.free /\ r.next = hdr[y].next /\ r.prev = z /\ r.size = hdr[x].size
  BY <1>1, <1>2, <1>6 DEF Header
<1>8. FreeStore(t, "nextBack", x, x, r)
  BY <1>1, <1>3, <1>4, <1>6, <1>7 DEF FreeStore
<1>9. pc'[t] = "nextBack" /\ block'[t] = x /\ OneSet(x, r)
  BY <1>8, FreeStoreIs
<1>10. Torn(t) = {x} /\ Torn(t)' = {}
  BY <1>1, <1>3, <1>9 DEF Torn
<1>11. (Blocks' = Blocks \ {y} /\ x # y /\ hdr[y].next # y) => Knows(t)'
  <2> SUFFICES ASSUME Blocks' = Blocks \ {y}, x # y, hdr[y].next # y PROVE Knows(t)'
    OBVIOUS
  <2>1. hdr'[x] = r /\ DOMAIN hdr' = DOMAIN hdr
    BY <1>9 DEF OneSet
  <2>2. PICK u : u = hdr[y].next
    OBVIOUS
  <2>3. Absorbs(t, x, u)' /\ Backs(t, x, z)'
    BY <1>9 DEF Absorbs, Backs, MergeBackSteps
  <2>4. /\ x \in DOMAIN hdr' /\ x # heap_start /\ hdr'[x].free /\ hdr'[x].next = u /\ hdr'[x].prev = z
        /\ x \in Blocks' /\ u \in Blocks' /\ pc'[t] \in FreeSteps
    BY <1>4, <1>5, <1>6, <1>7, <1>9, <2>1, <2>2 DEF FreeFacts
  <2> QED BY <1>9, <2>3, <2>4, FreeKnows
<1> QED BY <1>1, <1>6, <1>7, <1>8, <1>10, <1>11, MergeStep

LEMMA NextBackSound ==
    ASSUME CallsSound, NEW t \in Task, NextBack(t), raced' = {}
    PROVE  CallsSound'
<1>1. PICK x, y, z : x = block[t] /\ y = hdr[x].next /\ z = hdr[x].prev
  OBVIOUS
<1>2. PICK r : r = [hdr[y] EXCEPT !.prev = x]
  OBVIOUS
<1>3. /\ raced = {} /\ pc[t] = "nextBack" /\ pc' = [pc EXCEPT ![t] = "pointer"]
      /\ hdr' = [hdr EXCEPT ![y] = r]
      /\ UNCHANGED <<globals, live, done, curr, pages, block, reaped>> /\ Raises({})
  BY <1>1, <1>2 DEF NextBack, Store, Step, Races
<1>4. pc[t] \in FreeSteps /\ "pointer" \in FreeSteps /\ "pointer" # "idle"
  BY <1>3 DEF FreeSteps, MergeSteps
<1>5. FreeFacts(t, x, y, z) /\ hdr # << >>
  BY <1>1, <1>4, FreeIs
<1>6. /\ x \in Blocks /\ x \in DOMAIN hdr /\ x \in Nat /\ y \in AtWork(t) /\ y \in DOMAIN hdr /\ y \in Blocks
      /\ hdr[y] \in Header
  BY <1>3, <1>5, HeapThere DEF FreeFacts
<1>7. r \in Header /\ r.free = hdr[y].free /\ r.next = hdr[y].next /\ r.size = hdr[y].size
  BY <1>2, <1>6 DEF Header
<1>8. FreeStore(t, "pointer", x, y, r)
  BY <1>1, <1>3, <1>4, <1>6, <1>7 DEF FreeStore
<1>9. pc'[t] = "pointer" /\ block'[t] = x /\ OneSet(y, r)
  BY <1>8, FreeStoreIs
<1>10. Torn(t) = {} /\ Torn(t)' = {}
  BY <1>3, <1>9 DEF Torn
<1>11. Blocks' = Blocks => Knows(t)'
  <2> SUFFICES ASSUME Blocks' = Blocks PROVE Knows(t)'
    OBVIOUS
  <2>1. hdr'[x].next = y /\ hdr'[x].free /\ DOMAIN hdr' = DOMAIN hdr
    BY <1>1, <1>5, <1>6, <1>7, <1>9 DEF OneSet, FreeFacts
  <2>2. PICK u : u = hdr'[x].prev
    OBVIOUS
  <2>3. Absorbs(t, x, y)' /\ Backs(t, x, u)'
    BY <1>9 DEF Absorbs, Backs, MergeBackSteps
  <2>4. /\ x \in DOMAIN hdr' /\ x # heap_start /\ x \in Blocks' /\ y \in Blocks' /\ pc'[t] \in FreeSteps
    BY <1>4, <1>5, <1>6, <1>9, <2>1 DEF FreeFacts
  <2> QED BY <1>9, <2>1, <2>2, <2>3, <2>4, FreeKnows
<1> QED BY <1>7, <1>8, <1>10, <1>11, BackStep

LEMMA PrevSizeSound ==
    ASSUME CallsSound, NEW t \in Task, PrevSize(t), raced' = {}
    PROVE  CallsSound'
<1>1. PICK x, y, z : x = block[t] /\ y = hdr[x].next /\ z = hdr[x].prev
  OBVIOUS
<1>2. PICK r : r = [hdr[z] EXCEPT !.size = @ + hdr[x].size + 1]
  OBVIOUS
<1>3. /\ raced = {} /\ pc[t] = "prevSize" /\ pc' = [pc EXCEPT ![t] = "prevLink"]
      /\ hdr' = [hdr EXCEPT ![z] = r]
      /\ UNCHANGED <<globals, live, done, curr, pages, block, reaped>> /\ Raises({})
  BY <1>1, <1>2 DEF PrevSize, Store, Step, Races
<1>4. /\ pc[t] \in FreeSteps /\ "prevLink" \in FreeSteps /\ "prevLink" # "idle"
      /\ pc[t] \in MergeBackSteps \ {"prevBack"} /\ "prevLink" \in MergeBackSteps \ {"prevBack"}
  BY <1>3 DEF FreeSteps, MergeBackSteps
<1>5. FreeFacts(t, x, y, z) /\ hdr # << >>
  BY <1>1, <1>4, FreeIs
<1>6. x \in Blocks /\ z \in Blocks /\ hdr[z].free /\ hdr[z].next = x /\ z \in AtWork(t)
      /\ x \in DOMAIN hdr /\ x \in Nat /\ x # heap_start /\ hdr[x].free
  BY <1>3, <1>4, <1>5 DEF FreeFacts, Backs
<1>7. /\ z \in DOMAIN hdr /\ hdr[z] \in Header /\ hdr[z].size \in Nat /\ hdr[x].size \in Nat /\ z \in Nat
  BY <1>5, <1>6, HeapThere
<1>8. r \in Header /\ r.free /\ r.next = x /\ r.size = hdr[z].size + hdr[x].size + 1
  BY <1>2, <1>6, <1>7 DEF Header
<1>9. FreeStore(t, "prevLink", x, z, r)
  BY <1>1, <1>3, <1>4, <1>6, <1>7, <1>8 DEF FreeStore
<1>10. pc'[t] = "prevLink" /\ block'[t] = x /\ OneSet(z, r)
  BY <1>9, FreeStoreIs
<1>11. hdr[z].size = x - z - 1 /\ z < x
  <2>1. PICK v, current, given : v = View /\ current = Mapped /\ given = live
    OBVIOUS
  <2>2. Laid(v, current, Blocks, given)
    BY <1>5, <2>1, HeapThere
  <2>3. Torn(t) = {}
    BY <1>3 DEF Torn
  <2>4. v[z].next = x /\ v[z].size = hdr[z].size
    <3>1. v[z].next = x /\ v[z].size = Width(t, z)
      BY <1>5, <1>6, <1>7, <2>1, ViewMine
    <3> QED BY <2>3, <3>1 DEF Width
  <2> QED BY <1>6, <2>2, <2>4, AsFar
<1>12. hdr'[z] = r /\ hdr'[x] = hdr[x] /\ DOMAIN hdr' = DOMAIN hdr
  BY <1>6, <1>7, <1>10, <1>11 DEF OneSet
<1>13. Torn(t) = {} /\ Torn(t)' = {z}
  BY <1>1, <1>3, <1>10, <1>12 DEF Torn
<1>14. Blocks' = Blocks => Knows(t)'
  <2> SUFFICES ASSUME Blocks' = Blocks PROVE Knows(t)'
    OBVIOUS
  <2>1. r.size = x - z + hdr[x].size
    BY <1>6, <1>7, <1>8, <1>11
  <2>2. Absorbs(t, x, y)'
    BY <1>10 DEF Absorbs
  <2>3. Backs(t, x, z)'
    BY <1>6, <1>8, <1>10, <1>12, <2>1 DEF Backs
  <2>4. /\ x \in DOMAIN hdr' /\ hdr'[x].free /\ hdr'[x].next = y /\ hdr'[x].prev = z
        /\ x \in Blocks' /\ y \in Blocks' /\ pc'[t] \in FreeSteps
    BY <1>1, <1>4, <1>5, <1>6, <1>10, <1>12 DEF FreeFacts
  <2> QED BY <1>6, <1>10, <2>2, <2>3, <2>4, FreeKnows
<1>15. r.free = hdr[z].free /\ r.next = hdr[z].next /\ r.next # heap_start
  <2>1. hdr[z].free \in BOOLEAN /\ r.free \in BOOLEAN
    BY <1>7, <1>8 DEF Header
  <2> QED BY <1>6, <1>8, <2>1
<1> QED BY <1>6, <1>9, <1>13, <1>14, <1>15, SizeStep

LEMMA PrevLinkSound ==
    ASSUME CallsSound, NEW t \in Task, PrevLink(t), raced' = {}
    PROVE  CallsSound'
<1>1. PICK x, y, z : x = block[t] /\ y = hdr[x].next /\ z = hdr[x].prev
  OBVIOUS
<1>2. PICK r : r = [hdr[z] EXCEPT !.next = y]
  OBVIOUS
<1>3. /\ raced = {} /\ pc[t] = "prevLink" /\ pc' = [pc EXCEPT ![t] = "prevBack"]
      /\ hdr' = [hdr EXCEPT ![z] = r]
      /\ UNCHANGED <<globals, live, done, curr, pages, block, reaped>> /\ Raises({})
  BY <1>1, <1>2 DEF PrevLink, Store, Step, Races
<1>4. /\ pc[t] \in FreeSteps /\ "prevBack" \in FreeSteps /\ "prevBack" # "idle"
      /\ pc[t] \in MergeBackSteps \ {"prevBack"}
  BY <1>3 DEF FreeSteps, MergeBackSteps
<1>5. FreeFacts(t, x, y, z) /\ hdr # << >>
  BY <1>1, <1>4, FreeIs
<1>6. /\ x \in Blocks /\ z \in Blocks /\ hdr[z].free /\ hdr[z].next = x /\ z \in AtWork(t) /\ x \in AtWork(t)
      /\ x \in DOMAIN hdr /\ x # heap_start /\ hdr[x].free /\ y \in Blocks /\ y \in Nat
      /\ hdr[z].size = x - z + hdr[x].size
  BY <1>3, <1>4, <1>5 DEF FreeFacts, Backs
<1>7. z \in DOMAIN hdr /\ hdr[z] \in Header
  BY <1>5, <1>6, HeapThere
<1>8. r \in Header /\ r.free /\ r.next = hdr[x].next /\ r.size = hdr[z].size
  BY <1>1, <1>2, <1>6, <1>7 DEF Header
<1>9. FreeStore(t, "prevBack", x, z, r)
  BY <1>1, <1>3, <1>4, <1>6, <1>7, <1>8 DEF FreeStore
<1>10. pc'[t] = "prevBack" /\ block'[t] = x /\ OneSet(z, r)
  BY <1>9, FreeStoreIs
<1>11. Torn(t) = {z} /\ Torn(t)' = {}
  BY <1>1, <1>3, <1>10 DEF Torn
<1>12. (Blocks' = Blocks \ {x} /\ z # x /\ hdr[x].next # x) => Knows(t)'
  <2> SUFFICES ASSUME Blocks' = Blocks \ {x}, z # x, hdr[x].next # x PROVE Knows(t)'
    OBVIOUS
  <2>1. hdr'[z] = r /\ hdr'[x] = hdr[x] /\ DOMAIN hdr' = DOMAIN hdr
    BY <1>6, <1>10 DEF OneSet
  <2>2. Absorbs(t, x, y)' /\ Backs(t, x, z)'
    BY <1>6, <1>8, <1>10, <2>1 DEF Absorbs, Backs
  <2>3. /\ x \in DOMAIN hdr' /\ hdr'[x].free /\ hdr'[x].next = y /\ hdr'[x].prev = z
        /\ y \in Blocks' /\ pc'[t] \in FreeSteps
    BY <1>1, <1>4, <1>6, <1>10, <2>1
  <2> QED BY <1>6, <1>10, <2>2, <2>3, FreeKnows
<1> QED BY <1>6, <1>8, <1>9, <1>11, <1>12, MergeStep

LEMMA PrevBackSound ==
    ASSUME CallsSound, NEW t \in Task, PrevBack(t), raced' = {}
    PROVE  CallsSound'
<1>1. PICK x, y, z : x = block[t] /\ y = hdr[x].next /\ z = hdr[x].prev
  OBVIOUS
<1>2. PICK r : r = [hdr[y] EXCEPT !.prev = z]
  OBVIOUS
<1>3. /\ raced = {} /\ pc[t] = "prevBack" /\ pc' = [pc EXCEPT ![t] = "idle"] /\ Return(t)
      /\ hdr' = [hdr EXCEPT ![y] = r]
      /\ UNCHANGED <<globals, live, curr, pages, reaped>> /\ Raises({})
  BY <1>1, <1>2 DEF PrevBack, Step, Races
<1>4. pc[t] \in FreeSteps
  BY <1>3 DEF FreeSteps, MergeBackSteps
<1>5. FreeFacts(t, x, y, z) /\ hdr # << >>
  BY <1>1, <1>4, FreeIs
<1>6. y \in AtWork(t) /\ y \in DOMAIN hdr /\ z \in Int /\ hdr[y] \in Header
  BY <1>5, HeapThere DEF FreeFacts
<1>7. r \in Header /\ r.free = hdr[y].free /\ r.next = hdr[y].next /\ r.size = hdr[y].size
  BY <1>2, <1>6 DEF Header
<1>8. FreeStore(t, "idle", x, y, r)
  BY <1>1, <1>3, <1>4, <1>6, <1>7 DEF FreeStore
<1>9. pc'[t] = "idle"
  BY <1>8, FreeStoreIs
<1>10. Torn(t) = {} /\ Torn(t)' = {}
  BY <1>3, <1>9 DEF Torn
<1>11. Knows(t)'
  BY <1>3, <1>9, EasyKnows
<1> QED BY <1>7, <1>8, <1>10, <1>11, BackStep
-----------------------------------------------------------------------------
(* reaper frees two blocks at once.  Headers h that agree with those of a  *)
(* view v on the blocks N, and in next everywhere.                         *)
Alike(h, v, N) ==
    /\ DOMAIN v = DOMAIN h
    /\ \A a \in DOMAIN h : v[a].next = h[a].next /\ (a \in N => Same(h, v, a))

(* The view after stores to the blocks N.                                  *)
Overlay(v, g, N) == [a \in DOMAIN v |-> IF a \in N THEN g[a] ELSE v[a]]

(* Nothing else has changed.                                               *)
Spares(h, g, v, w, B, C, N) ==
    /\ DOMAIN g = DOMAIN h
    /\ \A a \in DOMAIN h \ N : g[a] = h[a] /\ w[a] = v[a] /\ (a \in B => a \in C)

LEMMA HeadersStay ==
    ASSUME NEW h, Headers(h), NEW g, DOMAIN g = DOMAIN h, g = [x \in DOMAIN g |-> g[x]],
           \A x \in DOMAIN h : g[x] \in Header
    PROVE  Headers(g)
BY DEF Headers

LEMMA OverlayIs ==
    ASSUME NEW v, NEW g, Headers(v), Headers(g), DOMAIN g = DOMAIN v, NEW N, NEW w, w = Overlay(v, g, N)
    PROVE  /\ Headers(w) /\ DOMAIN w = DOMAIN v
           /\ \A a \in DOMAIN v : (a \in N => w[a] = g[a]) /\ (a \notin N => w[a] = v[a])
<1>1. DOMAIN w = DOMAIN v /\ w = [a \in DOMAIN w |-> w[a]]
  BY DEF Overlay
<1>2. \A a \in DOMAIN v : (a \in N => w[a] = g[a]) /\ (a \notin N => w[a] = v[a])
  BY DEF Overlay
<1>3. \A a \in DOMAIN v : w[a] \in Header
  BY <1>2 DEF Headers
<1> QED BY <1>1, <1>2, <1>3, HeadersStay

(* The mark, ...                                                           *)
FreesBlock(h, g, x) ==
    /\ DOMAIN g = DOMAIN h /\ \A y \in DOMAIN h \ {x} : g[y] = h[y]
    /\ g[x].size = h[x].size /\ g[x].next = h[x].next /\ g[x].prev = h[x].prev /\ g[x].free

LEMMA FreesIs ==
    ASSUME NEW h, Headers(h), NEW x \in DOMAIN h, NEW g, g = [h EXCEPT ![x].free = TRUE]
    PROVE  Headers(g) /\ FreesBlock(h, g, x)
<1>1. PICK y : y = [h[x] EXCEPT !.free = TRUE]
  OBVIOUS
<1>2. h[x] \in Header
  BY DEF Headers
<1>3. y \in Header /\ y.size = h[x].size /\ y.next = h[x].next /\ y.prev = h[x].prev /\ y.free
  BY <1>1, <1>2 DEF Header
<1>4. g = [h EXCEPT ![x] = y]
  BY <1>1
<1>5. DOMAIN g = DOMAIN h /\ g[x] = y /\ \A z \in DOMAIN h \ {x} : g[z] = h[z]
  BY <1>4
<1>6. Headers(g)
  <2>1. \A z \in DOMAIN h : g[z] \in Header
    BY <1>3, <1>5 DEF Headers
  <2>2. g = [z \in DOMAIN g |-> g[z]]
    BY <1>4
  <2> QED BY <1>5, <2>1, <2>2, HeadersStay
<1> QED BY <1>3, <1>5, <1>6 DEF FreesBlock

Marks(h, k, x) == k = [h EXCEPT ![x].free = TRUE]

LEMMA Marked ==
    ASSUME NEW v, NEW current, NEW B, NEW given, Laid(v, current, B, given),
           NEW h, Headers(h), NEW N, Alike(h, v, N), NEW m \in given, NEW x, x = m.addr - 1, x \in N,
           NEW k, Marks(h, k, x), NEW w, w = Overlay(v, k, N)
    PROVE  /\ x \in B /\ x + 1 = m.addr /\ Headers(k) /\ FreesBlock(h, k, x)
           /\ Laid(w, current, B, given \ {m}) /\ Alike(k, w, N) /\ Spares(h, k, v, w, B, B, N)
<1>1. /\ Headers(v) /\ B \subseteq DOMAIN h /\ DOMAIN v = DOMAIN h
      /\ \A a \in DOMAIN h : v[a].next = h[a].next /\ (a \in N => Same(h, v, a))
  BY DEF Laid, Alike
<1>2. x \in B
  <2>1. PICK b \in B : m.addr = b + 1
    BY DEF Laid, GivenOut
  <2>2. b \in Nat
    BY LaidHas DEF Sized
  <2> QED BY <2>1, <2>2
<1>3. Headers(k) /\ FreesBlock(h, k, x)
  BY <1>1, <1>2, FreesIs DEF Marks
<1>4. DOMAIN k = DOMAIN v
  BY <1>1, <1>3 DEF FreesBlock
<1>5. /\ Headers(w) /\ DOMAIN w = DOMAIN v
      /\ \A a \in DOMAIN v : (a \in N => w[a] = k[a]) /\ (a \notin N => w[a] = v[a])
  BY <1>1, <1>3, <1>4, OverlayIs
<1>6. Freed1(v, w, B, x)
  <2>1. w[x].size = v[x].size /\ w[x].next = v[x].next /\ w[x].free
    BY <1>1, <1>2, <1>3, <1>5 DEF FreesBlock, Same
  <2>2. ASSUME NEW b \in B \ {x} PROVE Same(v, w, b)
    BY <1>1, <1>3, <1>5 DEF FreesBlock, Same
  <2> QED BY <2>1, <2>2 DEF Freed1
<1>7. Laid(w, current, B, given \ {m}) /\ x + 1 = m.addr
  BY <1>1, <1>5, <1>6, MarkLaid
<1>8. Alike(k, w, N)
  <2>1. \A a \in DOMAIN h : w[a].next = k[a].next
    BY <1>1, <1>3, <1>5 DEF FreesBlock
  <2>2. \A a \in DOMAIN h : a \in N => Same(k, w, a)
    BY <1>1, <1>5 DEF Same
  <2> QED BY <1>1, <1>3, <1>5, <2>1, <2>2 DEF Alike, FreesBlock
<1>9. Spares(h, k, v, w, B, B, N)
  BY <1>1, <1>3, <1>5 DEF Spares, FreesBlock
<1> QED BY <1>2, <1>3, <1>7, <1>8, <1>9

(* ... and a block that becomes part of another.                           *)
AbsorbsTo(h, g, a, b) ==
    /\ DOMAIN g = DOMAIN h
    /\ g[a].size = h[a].size + h[b].size + 1 /\ g[a].next = h[b].next
    /\ \A x \in DOMAIN h : g[x].free = h[x].free
    /\ \A x \in DOMAIN h \ {a} : g[x].size = h[x].size /\ g[x].next = h[x].next
    /\ \A x \in DOMAIN h : x # h[b].next => g[x].prev = h[x].prev
    /\ \A x \in DOMAIN h \ {a, h[b].next} : g[x] = h[x]

LEMMA AbsorbIs ==
    ASSUME NEW h, Headers(h), NEW a \in DOMAIN h, NEW b \in DOMAIN h, h[b].next \in DOMAIN h,
           NEW g, g = Absorb(h, a, b)
    PROVE  Headers(g) /\ AbsorbsTo(h, g, a, b)
<1> DEFINE n == h[b].next
           k == [h EXCEPT ![a].size = @ + h[b].size + 1, ![a].next = n]
           wide == h[a].size + h[b].size + 1
<1>1. h[a] \in Header /\ h[b] \in Header /\ a \in Nat /\ n \in DOMAIN h
  BY DEF Headers
<1>2. wide \in Nat /\ n \in Nat
  BY <1>1 DEF Header
<1>3. k = [h EXCEPT ![a] = [h[a] EXCEPT !.size = wide, !.next = n]]
  BY <1>1 DEF Header
<1>4. g = [k EXCEPT ![n].prev = a]
  BY DEF Absorb
<1> HIDE DEF k, wide
<1>w. wide = h[a].size + h[b].size + 1
  BY DEF wide
<1>5. PICK big : big = [h[a] EXCEPT !.size = wide, !.next = n]
  OBVIOUS
<1>6. big \in Header /\ big.size = wide /\ big.next = n /\ big.free = h[a].free /\ big.prev = h[a].prev
  <2>1. PICK x : x = h[a]
    OBVIOUS
  <2>2. x \in Header /\ big = [x EXCEPT !.size = wide, !.next = n]
    BY <1>1, <1>5, <2>1
  <2> QED BY <1>2, <2>1, <2>2 DEF Header
<1> HIDE DEF n
<1>7. k = [h EXCEPT ![a] = big]
  BY <1>3, <1>5
<1>8. DOMAIN k = DOMAIN h /\ k[a] = big /\ \A x \in DOMAIN h \ {a} : k[x] = h[x]
  BY <1>7
<1>9. k[n] \in Header
  BY <1>1, <1>6, <1>8 DEF Headers
<1>10. PICK tied : tied = [k[n] EXCEPT !.prev = a]
  OBVIOUS
<1>11. tied \in Header /\ tied.size = k[n].size /\ tied.next = k[n].next /\ tied.free = k[n].free
  <2>1. PICK x : x = k[n]
    OBVIOUS
  <2>2. x \in Header /\ tied = [x EXCEPT !.prev = a]
    BY <1>9, <1>10, <2>1
  <2>3. tied \in Header /\ tied.size = x.size /\ tied.next = x.next /\ tied.free = x.free
    BY <1>1, <2>2 DEF Header
  <2> QED BY <2>1, <2>3
<1>12. g = [k EXCEPT ![n] = tied]
  BY <1>4, <1>10
<1>13. DOMAIN g = DOMAIN h /\ g[n] = tied /\ \A x \in DOMAIN h \ {n} : g[x] = k[x]
  BY <1>1, <1>8, <1>12
<1>14. Headers(g)
  <2>1. \A x \in DOMAIN h : g[x] \in Header
    BY <1>6, <1>8, <1>11, <1>13 DEF Headers
  <2>2. g = [x \in DOMAIN g |-> g[x]]
    BY <1>12
  <2> QED BY <1>13, <2>1, <2>2, HeadersStay
<1>15. \A x \in DOMAIN h : g[x].size = k[x].size /\ g[x].next = k[x].next /\ g[x].free = k[x].free
  BY <1>11, <1>13
<1>16. /\ g[a].size = h[a].size + h[b].size + 1 /\ g[a].next = n
       /\ \A x \in DOMAIN h : g[x].free = h[x].free
       /\ \A x \in DOMAIN h \ {a} : g[x].size = h[x].size /\ g[x].next = h[x].next
  BY <1>w, <1>6, <1>8, <1>15
<1>17. \A x \in DOMAIN h : x # n => g[x].prev = h[x].prev
  BY <1>6, <1>8, <1>13
<1>18. \A x \in DOMAIN h \ {a, n} : g[x] = h[x]
  BY <1>8, <1>13
<1> QED BY <1>13, <1>14, <1>16, <1>17, <1>18 DEF AbsorbsTo, n

(* Block b, which follows a, becomes part of it.                           *)
Joins(h, g, B, a, b, N) ==
    /\ Follow(h, B, a, b) /\ h[a].free /\ h[b].free /\ g = Absorb(h, a, b)
    /\ a \in N /\ b \in N /\ h[b].next \in N

MadeOne(h, v, current, B, given, N, a, b, g, w) ==
    /\ a \in B \ {b} /\ Headers(g) /\ AbsorbsTo(h, g, a, b)
    /\ Laid(w, current, B \ {b}, given) /\ Alike(g, w, N) /\ Spares(h, g, v, w, B, B \ {b}, N)

LEMMA JoinLaid ==
    ASSUME NEW v, NEW current, NEW B, NEW given, Laid(v, current, B, given),
           NEW h, Headers(h), NEW N, Alike(h, v, N), NEW a, NEW b, NEW g, Joins(h, g, B, a, b, N),
           NEW w, w = Overlay(v, g, N)
    PROVE  MadeOne(h, v, current, B, given, N, a, b, g, w)
<1>1. /\ Headers(v) /\ B \subseteq DOMAIN h /\ DOMAIN v = DOMAIN h
      /\ \A z \in DOMAIN h : v[z].next = h[z].next /\ (z \in N => Same(h, v, z))
  BY DEF Laid, Alike
<1>2. /\ a \in B /\ b \in B /\ h[a].next = b /\ b # heap_start /\ h[a].free /\ h[b].free
      /\ a \in N /\ b \in N /\ h[b].next \in N /\ g = Absorb(h, a, b)
  BY DEF Joins, Follow
<1>3. h[b].next \in DOMAIN h
  BY <1>1, <1>2, LaidHas
<1>4. Headers(g) /\ AbsorbsTo(h, g, a, b)
  BY <1>1, <1>2, <1>3, AbsorbIs
<1>5. DOMAIN g = DOMAIN v
  BY <1>1, <1>4 DEF AbsorbsTo
<1>6. /\ Headers(w) /\ DOMAIN w = DOMAIN v
      /\ \A z \in DOMAIN v : (z \in N => w[z] = g[z]) /\ (z \notin N => w[z] = v[z])
  BY <1>1, <1>4, <1>5, OverlayIs
<1>7. Follow(v, B, a, b) /\ v[a].free /\ v[b].free
  BY <1>1, <1>2 DEF Follow, Same
<1>8. Merged(v, w, B, a, b)
  <2>1. w[a].size = v[a].size + v[b].size + 1 /\ w[a].next = v[b].next /\ w[a].free
    BY <1>1, <1>2, <1>4, <1>6 DEF AbsorbsTo, Same
  <2>2. ASSUME NEW z \in B \ {a, b} PROVE Same(v, w, z)
    <3>1. CASE z \in N
      <4>1. w[z] = g[z] /\ Same(h, v, z) /\ z \in DOMAIN h
        BY <1>1, <1>6, <3>1
      <4>2. Same(h, g, z)
        BY <1>4, <4>1 DEF AbsorbsTo, Same
      <4> QED BY <4>1, <4>2 DEF Same
    <3>2. CASE z \notin N
      BY <1>1, <1>6, <3>2 DEF Same
    <3> QED BY <3>1, <3>2
  <2> QED BY <2>1, <2>2 DEF Merged
<1>9. Laid(w, current, B \ {b}, given) /\ a # b
  <2>1. B \ {b} \subseteq DOMAIN w
    BY <1>1, <1>6
  <2> QED BY <1>6, <1>7, <1>8, <2>1, MergeLaid
<1>10. \A z \in DOMAIN h \ N : g[z] = h[z]
  BY <1>2, <1>4 DEF AbsorbsTo
<1>11. Alike(g, w, N)
  <2>1. \A z \in DOMAIN h : w[z].next = g[z].next
    BY <1>1, <1>6, <1>10
  <2>2. \A z \in DOMAIN h : z \in N => Same(g, w, z)
    BY <1>1, <1>6 DEF Same
  <2> QED BY <1>1, <1>5, <1>6, <2>1, <2>2 DEF Alike
<1>12. Spares(h, g, v, w, B, B \ {b}, N)
  BY <1>1, <1>2, <1>5, <1>6, <1>10 DEF Spares
<1> QED BY <1>2, <1>4, <1>9, <1>11, <1>12 DEF MadeOne

LEMMA SparesBoth ==
    ASSUME NEW h, NEW k, NEW g, NEW v, NEW u, NEW w, NEW B, NEW C, NEW D, NEW N,
           Spares(h, k, v, u, B, C, N), Spares(k, g, u, w, C, D, N)
    PROVE  Spares(h, g, v, w, B, D, N)
BY DEF Spares

(* my_free as one step, on blocks of which the headers are those of v.     *)
Frames(h, v, current, B, given) == Headers(h) /\ Laid(v, current, B, given)
Frees1(h, x, g, p, q) == /\ x # heap_start /\ ~Stale(h, x)
                         /\ g = Freed(h, x) /\ q = PointerAfter(h, x, p)
FreedTo(h, v, g, w, current, B, rest, N, p, q) ==
    \E C : /\ Frames(g, w, current, C, rest) /\ Alike(g, w, N)
           /\ Spares(h, g, v, w, B, C, N) /\ (p \in B => q \in C)

LEMMA FreedLaid ==
    ASSUME NEW h, NEW v, NEW current, NEW B, NEW given, Frames(h, v, current, B, given),
           NEW N, Alike(h, v, N), NEW m \in given, NEW x, x = m.addr - 1, Near(h, x) \subseteq N,
           NEW g, NEW p, NEW q, Frees1(h, x, g, p, q), NEW w, w = Overlay(v, g, N)
    PROVE  FreedTo(h, v, g, w, current, B, given \ {m}, N, p, q)
<1>1. PICK k : Marks(h, k, x)
  BY DEF Marks
<1>2. PICK v1, rest : v1 = Overlay(v, k, N) /\ rest = given \ {m}
  OBVIOUS
<1>3. PICK n, r : n = h[x].next /\ r = h[x].prev
  OBVIOUS
<1>4. Laid(v, current, B, given) /\ Headers(h) /\ x # heap_start /\ ~Stale(h, x)
  BY DEF Frames, Frees1
<1>5. x \in N /\ n \in N /\ r \in N /\ h[n].next \in N
  BY <1>3 DEF Near
<1>6. /\ x \in B /\ x + 1 = m.addr /\ Headers(k) /\ FreesBlock(h, k, x)
      /\ Laid(v1, current, B, rest) /\ Alike(k, v1, N) /\ Spares(h, k, v, v1, B, B, N)
  BY <1>1, <1>2, <1>4, <1>5, Marked
<1>7. /\ DOMAIN v = DOMAIN h /\ B \subseteq DOMAIN h /\ n \in B /\ B \subseteq Nat
      /\ \A b \in B : v[b].next = h[b].next /\ h[b].next \in B
  <2>1. DOMAIN v = DOMAIN h /\ \A a \in DOMAIN h : v[a].next = h[a].next
    BY DEF Alike
  <2>2. B \subseteq DOMAIN v /\ B \subseteq Nat /\ \A b \in B : v[b].next \in B
    BY <1>4, LaidHas DEF Sized
  <2> QED BY <1>3, <1>6, <2>1, <2>2
<1>8. r \in B /\ h[r].next = x
  <2>1. IsTiling(v, current, B) /\ Sized(v, B) /\ IsFiniteSet(DOMAIN h)
    BY <1>4, LaidHas DEF Headers
  <2>2. BlocksOf(h) = B
    BY <1>7, <2>1, BlocksAre
  <2> QED BY <1>3, <1>4, <2>2 DEF Stale
<1>9. r < x /\ (n # heap_start => x < n)
  BY <1>3, <1>4, <1>6, <1>7, <1>8, AsFar
<1>10. r # x /\ (n # heap_start => x # n /\ r # n /\ h[n].next # x)
  <2>1. r \in Nat /\ x \in Nat /\ n \in Nat
    BY <1>6, <1>7, <1>8
  <2>2. h[n].next = x => n < x
    BY <1>4, <1>7, AsFar
  <2> QED BY <1>9, <2>1, <2>2
<1>11. /\ k[x].next = n /\ k[x].prev = r /\ k[x].free /\ k[r] = h[r] /\ k[n].next = h[n].next
       /\ DOMAIN k = DOMAIN h /\ \A y \in DOMAIN h \ {x} : k[y] = h[y]
  <2>1. k[n].next = h[n].next
    BY <1>6, <1>7 DEF FreesBlock
  <2> QED BY <1>3, <1>6, <1>7, <1>8, <1>10, <2>1 DEF FreesBlock
<1>12. PICK l, C1 : /\ l = IF MergesNext(k, x) THEN Absorb(k, x, n) ELSE k
                    /\ C1 = IF MergesNext(k, x) THEN B \ {n} ELSE B
  OBVIOUS
<1>13. PICK v2 : v2 = Overlay(v1, l, N)
  OBVIOUS
<1>14. /\ g = IF MergesPrev(l, x) THEN Absorb(l, l[x].prev, x) ELSE l
       /\ q = IF MergesPrev(k, x) THEN r ELSE IF MergesNext(k, x) THEN x ELSE p
  BY <1>1, <1>3, <1>12 DEF Freed, PointerAfter, Marks, Frees1
<1>15. Headers(v1) /\ Headers(v) /\ DOMAIN v1 = DOMAIN v
  BY <1>4, <1>6, <1>7, <1>11 DEF Laid, Alike
<1>16. /\ Headers(l) /\ Laid(v2, current, C1, rest) /\ Alike(l, v2, N)
       /\ Spares(h, l, v, v2, B, C1, N) /\ x \in C1 /\ r \in C1
       /\ l[x].free /\ l[x].prev = r /\ l[r].free = k[r].free /\ l[r].next = x /\ l[x].next \in N
       /\ v2 = Overlay(v, l, N)
  <2>0. DOMAIN l = DOMAIN h => v2 = Overlay(v, l, N)
    BY <1>2, <1>13 DEF Overlay
  <2>1. CASE MergesNext(k, x)
    <3>1. n # heap_start /\ k[n].free /\ l = Absorb(k, x, n) /\ C1 = B \ {n}
      BY <1>11, <1>12, <2>1 DEF MergesNext
    <3>2. Joins(k, l, B, x, n, N)
      BY <1>5, <1>6, <1>7, <1>11, <3>1 DEF Joins, Follow
    <3>3. /\ Headers(l) /\ AbsorbsTo(k, l, x, n) /\ x \in B \ {n}
          /\ Laid(v2, current, B \ {n}, rest) /\ Alike(l, v2, N) /\ Spares(k, l, v1, v2, B, B \ {n}, N)
      <4>1. MadeOne(k, v1, current, B, rest, N, x, n, l, v2)
        BY <1>6, <1>13, <3>2, JoinLaid
      <4> QED BY <4>1 DEF MadeOne
    <3>4. Spares(h, l, v, v2, B, C1, N)
      BY <1>6, <3>1, <3>3, SparesBoth
    <3>5. l[x].prev = r /\ l[x].free /\ l[x].next \in N
      BY <1>5, <1>6, <1>7, <1>10, <1>11, <3>1, <3>3 DEF AbsorbsTo
    <3>6. l[r].free = k[r].free /\ l[r].next = x
      <4>1. r \in DOMAIN k /\ r # x /\ k[r].next = x
        BY <1>7, <1>8, <1>10, <1>11
      <4> QED BY <3>3, <4>1 DEF AbsorbsTo
    <3>7. r \in C1 /\ DOMAIN l = DOMAIN h
      BY <1>8, <1>10, <1>11, <3>1, <3>3 DEF AbsorbsTo
    <3> QED BY <2>0, <3>1, <3>3, <3>4, <3>5, <3>6, <3>7
  <2>2. CASE ~MergesNext(k, x)
    <3>1. l = k /\ C1 = B
      BY <1>12, <2>2
    <3>2. v2 = v1
      <4>1. v2 = Overlay(v, k, N)
        BY <1>11, <2>0, <3>1
      <4> QED BY <1>2, <4>1
    <3> QED BY <1>2, <1>5, <1>6, <1>8, <1>11, <3>1, <3>2
  <2> QED BY <2>1, <2>2
<1>17. MergesPrev(l, x) <=> MergesPrev(k, x)
  BY <1>11, <1>16 DEF MergesPrev
<1>18. CASE MergesPrev(l, x)
  <2>1. l[r].free /\ g = Absorb(l, r, x) /\ q = r
    BY <1>14, <1>16, <1>17, <1>18 DEF MergesPrev
  <2>2. Joins(l, g, C1, r, x, N)
    BY <1>4, <1>5, <1>16, <2>1 DEF Joins, Follow
  <2>3. PICK w2 : w2 = Overlay(v2, g, N)
    OBVIOUS
  <2>4. /\ r \in C1 \ {x} /\ Headers(g) /\ AbsorbsTo(l, g, r, x)
        /\ Laid(w2, current, C1 \ {x}, rest) /\ Alike(g, w2, N) /\ Spares(l, g, v2, w2, C1, C1 \ {x}, N)
    <3>1. PICK f : f = g
      OBVIOUS
    <3>2. Joins(l, f, C1, r, x, N) /\ w2 = Overlay(v2, f, N)
      BY <2>2, <2>3, <3>1
    <3>3. /\ r \in C1 \ {x} /\ Headers(f) /\ AbsorbsTo(l, f, r, x)
          /\ Laid(w2, current, C1 \ {x}, rest) /\ Alike(f, w2, N) /\ Spares(l, f, v2, w2, C1, C1 \ {x}, N)
      <4>1. MadeOne(l, v2, current, C1, rest, N, r, x, f, w2)
        BY <1>16, <3>2, JoinLaid
      <4> QED BY <4>1 DEF MadeOne
    <3> QED BY <3>1, <3>3
  <2>5. w2 = w
    <3>1. w2 = Overlay(v, g, N)
      BY <1>16, <2>3 DEF Overlay
    <3> QED BY <3>1
  <2>6. Spares(h, g, v, w, B, C1 \ {x}, N)
    BY <1>16, <2>4, <2>5, SparesBoth
  <2>7. Frames(g, w, current, C1 \ {x}, given \ {m})
    BY <1>2, <2>4, <2>5 DEF Frames
  <2> QED BY <2>1, <2>4, <2>5, <2>6, <2>7 DEF FreedTo
<1>19. CASE ~MergesPrev(l, x)
  <2>1. g = l /\ q = IF MergesNext(k, x) THEN x ELSE p
    BY <1>14, <1>17, <1>19
  <2>2. p \in B => q \in C1
    BY <1>12, <1>16, <2>1
  <2>3. w = v2
    BY <1>16, <2>1
  <2>4. Frames(g, w, current, C1, given \ {m})
    BY <1>2, <1>16, <2>1, <2>3 DEF Frames
  <2> QED BY <1>16, <2>1, <2>2, <2>3, <2>4 DEF FreedTo
<1> QED BY <1>18, <1>19

(* The calls that reaper preempts, none of which is at work on a block     *)
(* that it writes to, are where they were, ...                             *)
Preempted(u) == \A x \in DOMAIN hdr : x \in AtWork(u) => hdr'[x] = hdr[x] /\ x \in DOMAIN hdr'

LEMMA ReapedStay ==
    ASSUME CallsSound, hdr # << >>, UNCHANGED <<done, locals, heap_tail>>, NEW u \in Task, Preempted(u)
    PROVE  AtWork(u)' = AtWork(u) /\ Torn(u)' = Torn(u)
<1>1. /\ pc'[u] = pc[u] /\ curr'[u] = curr[u] /\ block'[u] = block[u] /\ New(u)' = New(u)
      /\ heap_tail' = heap_tail
  BY DEF locals, New, Call
<1>2. WorksAll'
  BY Working, PTL
<1>3. CASE pc[u] \in FreeSteps
  <2>1. PICK b : b = block[u]
    OBVIOUS
  <2>2. b \in DOMAIN hdr /\ AtWork(u) = {b, hdr[b].next, hdr[b].prev}
    BY <1>3, <2>1, HeapThere, Working DEF Knows, Frees, WorksOn, WorksAll
  <2>3. hdr'[b] = hdr[b]
    BY <2>2 DEF Preempted
  <2>4. AtWork(u)' = {b, hdr'[b].next, hdr'[b].prev}
    BY <1>1, <1>2, <1>3, <2>1 DEF WorksOn, WorksAll
  <2>5. Torn(u)' = Torn(u)
    BY <1>1, <2>1, <2>3 DEF Torn
  <2> QED BY <2>2, <2>3, <2>4, <2>5
<1>4. CASE pc[u] \notin FreeSteps
  <2>1. AtWork(u)' = AtWork(u)
    BY <1>1, <1>4 DEF AtWork
  <2>2. pc[u] # "nextLink" /\ pc[u] # "prevLink"
    BY <1>4 DEF FreeSteps, MergeSteps, MergeBackSteps
  <2>3. Torn(u)' = Torn(u)
    BY <1>1, <2>2 DEF Torn
  <2> QED BY <2>1, <2>3
<1> QED BY <1>3, <1>4

(* ... and know what they knew.                                            *)
LEMMA ReapedKnow ==
    ASSUME CallsSound, hdr # << >>, UNCHANGED <<done, locals, heap_tail>>, NEW u \in Task, Preempted(u),
           \A x \in Blocks : x \in AtWork(u) => x \in Blocks', Searches(u) => curr[u] \in Blocks'
    PROVE  Knows(u)'
<1>1. /\ pc'[u] = pc[u] /\ curr'[u] = curr[u] /\ pages'[u] = pages[u] /\ block'[u] = block[u]
      /\ Call(u)' = Call(u) /\ New(u)' = New(u) /\ heap_tail' = heap_tail
  BY DEF locals, New, Call
<1>2. Knows(u) /\ Blocks \subseteq DOMAIN hdr
  BY HeapThere
<1>3. CASE pc[u] \in SplitSteps
  <2>1. PICK a, new : a = curr[u] /\ new = New(u)
    OBVIOUS
  <2>2. Splits(u, a, new) /\ AtWork(u) = {a, new}
    BY <1>2, <1>3, <2>1, Working DEF Knows, WorksOn, WorksAll
  <2>3. /\ a \in Blocks' /\ hdr'[a] = hdr[a]
        /\ new \in DOMAIN hdr => new \in DOMAIN hdr' /\ hdr'[new] = hdr[new]
    BY <1>2, <2>2 DEF Splits, Preempted
  <2>4. Splits(u, a, new)'
    BY <1>1, <2>2, <2>3 DEF Splits
  <2>5. Splits(u, curr[u], New(u))'
    BY <1>1, <2>1, <2>4 DEF Splits
  <2>6. pc'[u] \notin SearchSteps \cup GrowSteps \cup {"sbrk", "widen"} \cup FreeSteps
    BY <1>1, <1>3 DEF SplitSteps, SearchSteps, GrowSteps, FreeSteps, MergeSteps, MergeBackSteps
  <2> QED BY <2>5, <2>6 DEF Knows, Searches, Frees
<1>4. CASE pc[u] \in GrowSteps
  <2>1. heap_tail \in Blocks /\ hdr[heap_tail].next = heap_start /\ AtWork(u) = {heap_tail}
    BY <1>2, <1>4, Working DEF Knows, WorksOn, WorksAll
  <2>2. heap_tail' \in Blocks' /\ hdr'[heap_tail'].next = heap_start
    BY <1>1, <1>2, <2>1 DEF Preempted
  <2>3. pc'[u] \notin SplitSteps \cup SearchSteps \cup FreeSteps
    BY <1>1, <1>4 DEF SplitSteps, SearchSteps, GrowSteps, FreeSteps, MergeSteps, MergeBackSteps
  <2> QED BY <1>1, <1>2, <2>2, <2>3 DEF Knows, Searches, Frees
<1>5. CASE pc[u] \in FreeSteps
  <2>1. PICK b, n, p : b = block[u] /\ n = hdr[b].next /\ p = hdr[b].prev
    OBVIOUS
  <2>2. /\ b \in DOMAIN hdr /\ b # heap_start /\ hdr[b].free /\ n \in Blocks
        /\ pc[u] # "prevBack" => b \in Blocks
        /\ Absorbs(u, b, n) /\ Backs(u, b, p)
    BY <1>2, <1>5, <2>1 DEF Knows, Frees
  <2>3. b \in AtWork(u) /\ n \in AtWork(u) /\ p \in AtWork(u)
    BY <1>5, <2>1, Working DEF WorksOn, WorksAll
  <2>4. /\ hdr'[b] = hdr[b] /\ b \in DOMAIN hdr' /\ hdr'[n] = hdr[n] /\ n \in Blocks'
        /\ pc[u] # "prevBack" => b \in Blocks'
        /\ p \in Blocks => hdr'[p] = hdr[p] /\ p \in Blocks'
    BY <1>2, <2>2, <2>3 DEF Preempted
  <2>5. Absorbs(u, b, n)'
    BY <1>1, <2>2, <2>4, HeapThere DEF Absorbs
  <2>6. pc[u] \in MergeBackSteps => hdr'[p] = hdr[p] /\ p \in Blocks'
    BY <2>2, <2>4 DEF Backs
  <2>7. Backs(u, b, p)'
    BY <1>1, <2>2, <2>4, <2>6 DEF Backs, MergeBackSteps
  <2>8. block'[u] = b /\ hdr'[b].next = n /\ hdr'[b].prev = p /\ hdr'[b].free
    BY <1>1, <2>1, <2>2, <2>4
  <2> QED BY <1>1, <1>5, <2>2, <2>4, <2>5, <2>7, <2>8, FreeKnows
<1>6. CASE pc[u] \notin SplitSteps \cup GrowSteps \cup FreeSteps
  <2>1. pc'[u] \notin SplitSteps \cup GrowSteps \cup FreeSteps \cup {"sbrk", "widen"}
    BY <1>1, <1>6 DEF GrowSteps
  <2>2. Searches(u)' <=> Searches(u)
    BY <1>1 DEF Searches
  <2> QED BY <1>1, <2>1, <2>2 DEF Knows, Frees
<1> QED BY <1>3, <1>4, <1>5, <1>6

(* The view, which is what w has, when reaper has written g.               *)
LEMMA ReapedView ==
    ASSUME CallsSound, hdr # << >>, UNCHANGED <<done, locals, heap_tail>>, \A u \in Task : Preempted(u),
           NEW N, \A u \in Task : AtWork(u) \cap N = {},
           NEW g, hdr' = g, NEW v, v = View, NEW w, NEW B, NEW C,
           Headers(g), Headers(w), Alike(g, w, N), Spares(hdr, g, v, w, B, C, N), C \subseteq DOMAIN g
    PROVE  Headers(View)' /\ \A b \in C : Same(w, View', b) /\ b \in DOMAIN View'
<1>1. \A u \in Task : AtWork(u)' = AtWork(u) /\ Torn(u)' = Torn(u)
  BY ReapedStay
<1>2. \A u \in Task : pc'[u] = pc[u] /\ curr'[u] = curr[u]
  BY DEF locals
<1>3. HeadersSeen' /\ HeadersThere' /\ Headers(hdr)'
  <2>1. HeadersSeen' /\ HeadersThere'
    BY ViewIs, ViewHeaders, PTL
  <2> QED BY <2>1
<1>4. Headers(hdr) /\ DOMAIN g = DOMAIN hdr /\ DOMAIN w = DOMAIN g
  BY HeapThere DEF Spares, Alike
<1>5. ASSUME NEW u \in Task, NEW a \in Torn(u)' PROVE a < hdr'[a].next
  <2>1. a \in Torn(u) /\ a \in AtWork(u) /\ a \in Blocks /\ a \in DOMAIN hdr
    BY <1>1, <1>5, TornBlocks, TornAtWork, HeapThere DEF TornInside, Whole
  <2>2. hdr'[a] = hdr[a]
    BY <2>1 DEF Preempted
  <2>3. View[a].size = hdr[a].next - a - 1
    BY <1>4, <2>1, ViewIs DEF HeadersSeen
  <2>4. View[a].size \in Nat /\ a \in Nat /\ hdr[a].next \in Nat
    BY <2>1, HeapThere, LaidHas
  <2> QED BY <2>2, <2>3, <2>4
<1>6. Headers(View)'
  BY <1>3, <1>5 DEF HeadersThere
<1>7. ASSUME NEW b \in C PROVE Same(w, View', b) /\ b \in DOMAIN View'
  <2>1. b \in DOMAIN hdr /\ b \in DOMAIN View' /\ View'[b].next = g[b].next /\ w[b].next = g[b].next
    BY <1>3, <1>4 DEF HeadersSeen, Alike
  <2>2. /\ View'[b].free = (hdr'[b].free /\ ~GivesOut(b)')
        /\ (\E u \in Task : b \in Torn(u)') => View'[b].size = hdr'[b].next - b - 1
        /\ ~(\E u \in Task : b \in Torn(u)') => View'[b].size = hdr'[b].size
    BY <1>3, <1>4, <2>1 DEF HeadersSeen
  <2>3. /\ View[b].free = (hdr[b].free /\ ~GivesOut(b))
        /\ (\E u \in Task : b \in Torn(u)) => View[b].size = hdr[b].next - b - 1
        /\ ~(\E u \in Task : b \in Torn(u)) => View[b].size = hdr[b].size
    BY <1>4, <2>1, ViewIs DEF HeadersSeen
  <2>4. GivesOut(b)' <=> GivesOut(b)
    BY <1>2 DEF GivesOut
  <2>5. (\E u \in Task : b \in Torn(u)') <=> (\E u \in Task : b \in Torn(u))
    BY <1>1
  <2>6. CASE b \in N
    <3>1. \A u \in Task : b \notin Torn(u) /\ ~(pc[u] \in {"shrink", "occupy"} /\ curr[u] = b)
      BY <2>6, TornAtWork DEF TornInside, Whole
    <3>2. ~GivesOut(b)'
      BY <2>4, <3>1 DEF GivesOut
    <3>3. View'[b].size = g[b].size
      BY <2>2, <2>5, <3>1
    <3>4. Same(g, w, b) /\ g[b].free \in BOOLEAN
      BY <1>4, <2>1, <2>6 DEF Alike, Headers, Header
    <3>5. View'[b].free = g[b].free
      BY <2>2, <3>2, <3>4
    <3> QED BY <2>1, <3>3, <3>4, <3>5 DEF Same
  <2>7. CASE b \notin N
    <3>1. g[b] = hdr[b] /\ w[b] = View[b]
      BY <2>1, <2>7 DEF Spares
    <3>2. View'[b].free = View[b].free
      BY <2>2, <2>3, <2>4, <3>1
    <3>3. View'[b].size = View[b].size
      BY <2>2, <2>3, <2>5, <3>1
    <3> QED BY <2>1, <3>1, <3>2, <3>3 DEF Same
  <2> QED BY <2>6, <2>7
<1> QED BY <1>6, <1>7

(* What reaper does when no race happens.                                  *)
Reaps(stack, tcb, x, y, once, g, p) ==
    /\ stack = The("stack", former) /\ tcb = The("tcb", former)
    /\ x = stack.addr - 1 /\ y = tcb.addr - 1
    /\ once = Freed(hdr, x) /\ g = Freed(once, y) /\ p = PointerAfter(hdr, x, heap_pointer)

LEMMA ReaperIs ==
    ASSUME reaper, raced' = {},
           NEW stack, NEW tcb, NEW x, NEW y, NEW once, NEW g, NEW p, Reaps(stack, tcb, x, y, once, g, p)
    PROVE  /\ raced = {} /\ Finished(former) /\ ~reaped /\ reaped' = TRUE
           /\ hdr' = g /\ heap_pointer' = PointerAfter(once, y, p) /\ live' = live \ {stack, tcb}
           /\ UNCHANGED <<heap_tail, heap_current, done, locals>>
           /\ \A t \in Task : AtWork(t) \cap (Near(hdr, x) \cup Near(once, y)) = {}
           /\ ~Stale(hdr, x) /\ ~Stale(once, y)
           /\ \A t \in Task : Searches(t) => curr[t] \in Blocks'
<1> DEFINE touched == Near(hdr, x) \cup Near(once, y)
           R1 == \E t \in Task : AtWork(t) \cap touched # {}
           R2 == Stale(hdr, x) \/ Stale(once, y)
           R3 == \E t \in Task : Searches(t) /\ curr[t] \notin Blocks'
<1>1. /\ raced = {} /\ Finished(former) /\ ~reaped /\ reaped' = TRUE
      /\ hdr' = g /\ heap_pointer' = PointerAfter(once, y, p) /\ live' = live \ {stack, tcb}
      /\ UNCHANGED <<heap_tail, heap_current, done, locals>>
  BY DEF reaper, Reaps
<1>2. raced' = raced \cup (IF R1 THEN {"window"} ELSE {})
                     \cup (IF R2 THEN {"prev"} ELSE {}) \cup (IF R3 THEN {"absorbed"} ELSE {})
  BY DEF reaper, Reaps
<1>3. ~R1 /\ ~R2 /\ ~R3
  <2> HIDE DEF R1, R2, R3
  <2>1. R1 => "window" \in raced'
    BY <1>2
  <2>2. R2 => "prev" \in raced'
    BY <1>2
  <2>3. R3 => "absorbed" \in raced'
    BY <1>2
  <2> QED BY <2>1, <2>2, <2>3
<1> QED BY <1>1, <1>3

LEMMA ReaperSound ==
    ASSUME CallsSound, reaper, raced' = {}
    PROVE  CallsSound'
<1>1. PICK stack, tcb : stack = The("stack", former) /\ tcb = The("tcb", former)
  OBVIOUS
<1>2. PICK x, y : x = stack.addr - 1 /\ y = tcb.addr - 1
  OBVIOUS
<1>3. PICK once, p : once = Freed(hdr, x) /\ p = PointerAfter(hdr, x, heap_pointer)
  OBVIOUS
<1>4. PICK g, q : g = Freed(once, y) /\ q = PointerAfter(once, y, p)
  OBVIOUS
<1>5. Reaps(stack, tcb, x, y, once, g, p)
  BY <1>1, <1>2, <1>3, <1>4 DEF Reaps
<1>6. PICK touched : touched = Near(hdr, x) \cup Near(once, y)
  OBVIOUS
<1>7. /\ raced = {} /\ Finished(former) /\ ~reaped /\ reaped' = TRUE
      /\ hdr' = g /\ heap_pointer' = q /\ live' = live \ {stack, tcb}
      /\ UNCHANGED <<heap_tail, heap_current, done, locals>>
      /\ \A t \in Task : AtWork(t) \cap touched = {}
      /\ ~Stale(hdr, x) /\ ~Stale(once, y)
      /\ \A t \in Task : Searches(t) => curr[t] \in Blocks'
  <2>1. /\ raced = {} /\ Finished(former) /\ ~reaped /\ reaped' = TRUE
        /\ hdr' = g /\ heap_pointer' = PointerAfter(once, y, p) /\ live' = live \ {stack, tcb}
        /\ UNCHANGED <<heap_tail, heap_current, done, locals>>
        /\ \A t \in Task : AtWork(t) \cap (Near(hdr, x) \cup Near(once, y)) = {}
        /\ ~Stale(hdr, x) /\ ~Stale(once, y)
        /\ \A t \in Task : Searches(t) => curr[t] \in Blocks'
    BY <1>5, ReaperIs
  <2> QED BY <1>4, <1>6, <2>1
<1>8. Located /\ Owned /\ Rooted /\ Apart /\ former \in Task
  BY ScriptOfFormer DEF CallsSound
<1>9. UNCHANGED <<done, locals>> /\ UNCHANGED <<done, locals, heap_tail>>
  BY <1>7
<1>10. /\ Owned' /\ Located'
       /\ stack \in live /\ stack.task = former /\ stack.role = "stack"
       /\ tcb \in live /\ tcb.task = former /\ tcb.role = "tcb"
  BY <1>1, <1>7, <1>8, <1>9, OwnedReaped
<1>11. Rooted' /\ \E r \in live : r.addr = heap_start + 1 /\ r # stack /\ r # tcb
  BY <1>7, <1>8, <1>9, <1>10, RootedReaped
<1>12. hdr # << >>
  <2> SUFFICES ASSUME hdr = << >> PROVE FALSE
    OBVIOUS
  <2>1. Idle(former) /\ done[former] = 0
    BY <1>8 DEF CallsSound
  <2>2. done[former] = Len(Script[former]) /\ Len(Script[former]) >= 1
    BY <1>7, ScriptOfFormer DEF Finished
  <2> QED BY <2>1, <2>2
<1>13. PICK v, current, given : v = View /\ current = Mapped /\ given = live
  OBVIOUS
<1>14. /\ Laid(v, current, Blocks, given) /\ Headers(hdr) /\ DOMAIN v = DOMAIN hdr
       /\ heap_tail \in Nat /\ heap_current \in Nat
       /\ heap_pointer \in Blocks \/ \E t \in Task : pc[t] \in {"nextBack", "pointer"}
  BY <1>12, <1>13, HeapThere
<1>15. Alike(hdr, v, touched)
  <2> SUFFICES ASSUME NEW a \in DOMAIN hdr
               PROVE  v[a].next = hdr[a].next /\ (a \in touched => Same(hdr, v, a))
    BY <1>14 DEF Alike
  <2>1. /\ View[a].next = hdr[a].next
        /\ View[a].free = (hdr[a].free /\ ~GivesOut(a))
        /\ ~(\E u \in Task : a \in Torn(u)) => View[a].size = hdr[a].size
    BY <1>14, ViewIs DEF HeadersSeen
  <2>2. ASSUME a \in touched PROVE Same(hdr, v, a)
    <3>1. \A u \in Task : a \notin Torn(u) /\ ~(pc[u] \in {"shrink", "occupy"} /\ curr[u] = a)
      BY <1>7, <2>2, TornAtWork DEF TornInside, Whole
    <3>2. hdr[a].free \in BOOLEAN
      BY <1>12, HeapThere
    <3> QED BY <1>13, <2>1, <3>1, <3>2 DEF GivesOut, Same
  <2> QED BY <1>13, <2>1, <2>2
<1>16. x # heap_start /\ y # heap_start /\ stack # tcb
  <2>1. PICK r \in given : r.addr = heap_start + 1 /\ r # stack /\ r # tcb
    BY <1>11, <1>13
  <2>2. r.addr # stack.addr /\ r.addr # tcb.addr
    BY <1>10, <1>13, <1>14, <2>1 DEF Laid, GivenOut
  <2>3. PICK a, b \in Blocks : stack.addr = a + 1 /\ tcb.addr = b + 1
    BY <1>10, <1>13, <1>14 DEF Laid, GivenOut
  <2>4. a \in Nat /\ b \in Nat
    BY <2>3, <1>14, LaidHas DEF Sized
  <2> QED BY <1>2, <1>10, <2>1, <2>2, <2>3, <2>4 DEF heap_start
<1>17. PICK w1, w : w1 = Overlay(v, once, touched) /\ w = Overlay(w1, g, touched)
  OBVIOUS
<1>18. PICK C : /\ Frames(once, w1, current, C, given \ {stack}) /\ Alike(once, w1, touched)
                /\ Spares(hdr, once, v, w1, Blocks, C, touched) /\ (heap_pointer \in Blocks => p \in C)
  <2>1. Frames(hdr, v, current, Blocks, given)
    BY <1>14 DEF Frames
  <2>2. Frees1(hdr, x, once, heap_pointer, p)
    BY <1>3, <1>7, <1>16 DEF Frees1
  <2>3. stack \in given /\ Near(hdr, x) \subseteq touched
    BY <1>6, <1>10, <1>13
  <2>4. FreedTo(hdr, v, once, w1, current, Blocks, given \ {stack}, touched, heap_pointer, p)
    BY <1>2, <1>15, <1>17, <2>1, <2>2, <2>3, FreedLaid
  <2> QED BY <2>4 DEF FreedTo
<1>19. PICK D : /\ Frames(g, w, current, D, live') /\ Alike(g, w, touched)
                /\ Spares(once, g, w1, w, C, D, touched) /\ (p \in C => q \in D)
  <2>1. PICK rest : rest = given \ {stack}
    OBVIOUS
  <2>2. Frames(once, w1, current, C, rest) /\ tcb \in rest
    BY <1>10, <1>13, <1>16, <1>18, <2>1
  <2>3. Frees1(once, y, g, p, q)
    BY <1>4, <1>7, <1>16 DEF Frees1
  <2>4. Near(once, y) \subseteq touched
    BY <1>6
  <2>5. PICK E : /\ Frames(g, w, current, E, rest \ {tcb}) /\ Alike(g, w, touched)
                 /\ Spares(once, g, w1, w, C, E, touched) /\ (p \in C => q \in E)
    <3>1. FreedTo(once, w1, g, w, current, C, rest \ {tcb}, touched, p, q)
      BY <1>2, <1>17, <1>18, <2>2, <2>3, <2>4, FreedLaid
    <3> QED BY <3>1 DEF FreedTo
  <2>6. rest \ {tcb} = live'
    BY <1>7, <1>13, <2>1
  <2> QED BY <2>5, <2>6
<1>20. Spares(hdr, g, v, w, Blocks, D, touched)
  BY <1>18, <1>19, SparesBoth
<1>21. Headers(g) /\ Headers(w) /\ Laid(w, current, D, live') /\ D \subseteq DOMAIN g /\ DOMAIN g = DOMAIN hdr
  BY <1>19, <1>20 DEF Frames, Laid, Alike, Spares
<1>22. ASSUME NEW u \in Task
       PROVE  /\ Preempted(u)
              /\ \A z \in Blocks : z \in AtWork(u) => z \in D
  <2>1. AtWork(u) \cap touched = {} /\ Blocks \subseteq DOMAIN hdr
    BY <1>7, <1>13, <1>14 DEF Laid
  <2> QED BY <1>7, <1>20, <1>21, <2>1 DEF Spares, Preempted
<1>23. Headers(View)' /\ \A b \in D : Same(w, View', b) /\ b \in DOMAIN View'
  BY <1>7, <1>9, <1>12, <1>13, <1>19, <1>20, <1>21, <1>22, ReapedView
<1>24. Mapped' = current
  BY <1>7, <1>13 DEF Mapped, locals
<1>25. Laid(View', Mapped', D, live')
  <2>1. PICK v2, rest : v2 = View' /\ rest = live'
    OBVIOUS
  <2>2. /\ Laid(w, current, D, rest) /\ Headers(v2) /\ D \subseteq DOMAIN v2
        /\ \A b \in D : Same(w, v2, b)
    BY <1>21, <1>23, <2>1
  <2>3. Laid(v2, current, D, rest)
    BY <2>2, SameLaid
  <2> QED BY <1>24, <2>1, <2>3
<1>26. Headers(hdr)' /\ hdr' # << >>
  <2>1. hdr' = g /\ Headers(g)
    BY <1>7, <1>21
  <2>2. heap_start \in Blocks /\ Blocks \subseteq DOMAIN hdr
    BY <1>12, HeapThere
  <2> QED BY <1>21, <2>1, <2>2 DEF heap_start
<1>27. Blocks' = D
  BY <1>25, <1>26, BlocksNow
<1>28. \A t \in Task : Knows(t)'
  BY <1>7, <1>9, <1>12, <1>22, <1>27, ReapedKnow
<1>29. Apart'
  <2>1. \A u \in Task : AtWork(u)' = AtWork(u)
    BY <1>9, <1>12, <1>22, ReapedStay
  <2> QED BY <1>8, <2>1 DEF Apart
<1>30. heap_pointer' \in Blocks' \/ \E t \in Task : pc'[t] \in {"nextBack", "pointer"}
  <2>1. pc' = pc
    BY <1>7 DEF locals
  <2> QED BY <1>7, <1>14, <1>18, <1>19, <1>27, <2>1
<1>31. Built'
  <2>1. Laid(View, Mapped, Blocks, live)'
    BY <1>25, <1>27
  <2>2. heap_tail' \in Nat /\ heap_current' \in Nat
    BY <1>7, <1>14
  <2> QED BY <1>26, <1>28, <1>30, <2>1, <2>2 DEF Built
<1> QED BY <1>10, <1>11, <1>26, <1>29, <1>31 DEF CallsSound

-----------------------------------------------------------------------------
(* The invariant.                                                          *)
LEMMA CallsStart ==
    ASSUME CallsInit
    PROVE  CallsSound
<1>1. /\ hdr = << >> /\ live = {} /\ reaped = FALSE
      /\ done = [t \in Task |-> 0] /\ pc = [t \in Task |-> "idle"]
      /\ curr = [t \in Task |-> NONE] /\ pages = [t \in Task |-> 0]
      /\ block = [t \in Task |-> NONE]
  BY DEF CallsInit, NoHeap
<1>2. \A t \in Task : pc[t] = "idle" /\ done[t] = 0 /\ Idle(t)
  BY <1>1 DEF Idle
<1>3. \A t \in Task : Made(t) = 0
  <2> SUFFICES ASSUME NEW t \in Task PROVE Made(t) = 0
    OBVIOUS
  <2>1. pc[t] \notin Given
    BY <1>2 DEF Given, FreeSteps, MergeSteps, MergeBackSteps
  <2>2. Made(t) = done[t] + 0
    BY <2>1, MadeIs
  <2> QED BY <1>2, <2>2
<1>4. Located
  <2>1. NONE \in Int /\ "idle" \in Called
    BY DEF NONE, Called
  <2>2. {curr, pages, block} \subseteq [Task -> Int]
    BY <1>1, <2>1
  <2>3. pc \in [Task -> Called] /\ done \in [Task -> Nat]
    BY <1>1, <2>1
  <2>4. \A t \in Task : Placed(t)
    BY <1>2, <1>3, Scripted DEF Placed
  <2> QED BY <1>1, <2>2, <2>3, <2>4 DEF Located
<1>5. Owned
  <2>1. \A t \in Task : \A k \in DOMAIN Script[t] : ~Due(t, Script[t][k].role)
    BY <1>3, HeldNone DEF Due
  <2>2. \A t \in Task : \A k \in DOMAIN Script[t] : ~Owns(t, Script[t][k].role)
    BY <1>1 DEF Owns
  <2> QED BY <1>1, <2>1, <2>2 DEF Owned
<1>6. Rooted
  BY <1>1, <1>2, <1>3, ScriptOfFormer DEF Rooted
<1>7. Apart
  <2>1. \A t \in Task : AtWork(t) = {}
    BY <1>2, Working DEF WorksAll, WorksOn, SplitSteps, GrowSteps, FreeSteps, MergeSteps, MergeBackSteps
  <2> QED BY <2>1 DEF Apart
<1> QED BY <1>1, <1>2, <1>4, <1>5, <1>6, <1>7 DEF CallsSound

LEMMA MallocSound ==
    ASSUME CallsSound, NEW t \in Task, my_malloc(t), raced' = {}
    PROVE  CallsSound'
<1>1. CASE Begin(t)
  BY <1>1, FirstSound, BeginSound
<1>2. CASE Search(t)
  BY <1>2, SearchSound
<1>3. CASE Size(t)
  BY <1>3, SizeSound
<1>4. CASE Advance(t)
  BY <1>4, AdvanceSound
<1>5. CASE Wrap(t)
  BY <1>5, WrapSound
<1>6. CASE StoreRest(t)
  BY <1>6, StoreRestSound
<1>7. CASE MoveTail(t)
  BY <1>7, MoveTailSound
<1>8. CASE StoreBack(t)
  BY <1>8, StoreBackSound
<1>9. CASE Link(t)
  BY <1>9, LinkSound
<1>10. CASE Shrink(t)
  BY <1>10, ShrinkSound
<1>11. CASE Occupy(t)
  BY <1>11, OccupySound
<1>12. CASE Point(t)
  BY <1>12, PointSound
<1>13. CASE Grow(t)
  BY <1>13, GrowSound
<1>14. CASE Count(t)
  BY <1>14, CountSound
<1>15. CASE sbrk(t)
  BY <1>15, sbrkSound
<1>16. CASE Widen(t)
  BY <1>16, WidenSound
<1> QED
  BY <1>1, <1>2, <1>3, <1>4, <1>5, <1>6, <1>7, <1>8, <1>9, <1>10, <1>11, <1>12, <1>13, <1>14, <1>15, <1>16
  DEF my_malloc

LEMMA FreeSound ==
    ASSUME CallsSound, NEW t \in Task, my_free(t), raced' = {}
    PROVE  CallsSound'
<1>1. CASE Mark(t)
  BY <1>1, MarkSound
<1>2. CASE Forward(t)
  BY <1>2, ForwardSound
<1>3. CASE NextSize(t)
  BY <1>3, NextSizeSound
<1>4. CASE NextLink(t)
  BY <1>4, NextLinkSound
<1>5. CASE NextBack(t)
  BY <1>5, NextBackSound
<1>6. CASE Pointer(t)
  BY <1>6, PointerSound
<1>7. CASE Backward(t)
  BY <1>7, BackwardSound
<1>8. CASE PointBack(t)
  BY <1>8, PointBackSound
<1>9. CASE PrevSize(t)
  BY <1>9, PrevSizeSound
<1>10. CASE PrevLink(t)
  BY <1>10, PrevLinkSound
<1>11. CASE PrevBack(t)
  BY <1>11, PrevBackSound
<1> QED
  BY <1>1, <1>2, <1>3, <1>4, <1>5, <1>6, <1>7, <1>8, <1>9, <1>10, <1>11 DEF my_free

LEMMA UntilRace ==
    ASSUME CallsNext
    PROVE  raced = {}
<1>1. CASE reaper
  BY <1>1 DEF reaper
<1>2. ASSUME NEW t \in Task, my_malloc(t) \/ my_free(t) PROVE raced = {}
  <2>1. CASE my_malloc(t)
    BY <2>1 DEF my_malloc, Begin, Search, Size, Advance, Wrap, StoreRest, MoveTail, StoreBack, Link,
                Shrink, Occupy, Point, Grow, Count, sbrk, Widen, Test, Store, Step
  <2>2. CASE my_free(t)
    BY <2>2 DEF my_free, Mark, Forward, NextSize, NextLink, NextBack, Pointer, Backward,
                PointBack, PrevSize, PrevLink, PrevBack, Test, Store, Step
  <2> QED BY <1>2, <2>1, <2>2
<1> QED BY <1>1, <1>2 DEF CallsNext

LEMMA CallsStutter ==
    ASSUME CallsSound, UNCHANGED call_vars
    PROVE  CallsSound'
<1>1. UNCHANGED <<hdr, heap_tail, heap_pointer, heap_current>> /\ UNCHANGED <<pc, curr, pages, block>>
  BY DEF call_vars, blocks, locals
<1>2. UNCHANGED <<live, done, reaped>>
  BY DEF call_vars
<1>3. Located'
  BY <1>1, <1>2 DEF CallsSound, Located, Placed, Made, Idle, Frees, Call, Finished
<1>4. Blocks' = Blocks
  BY <1>1 DEF Blocks
<1>5. \A t \in Task : Made(t)' = Made(t)
  BY <1>1, <1>2 DEF Made, Frees
<1>6. Owned'
  BY <1>2, <1>5 DEF CallsSound, Owned, Owns, Due
<1>7. Rooted'
  BY <1>1, <1>2, <1>4, <1>5, ScriptOfFormer DEF CallsSound, Rooted, Idle
<1>8. \A t \in Task : New(t)' = New(t) /\ Call(t)' = Call(t)
  BY <1>1, <1>2 DEF New, Call
<1>9. Apart'
  BY <1>1, <1>8 DEF CallsSound, Apart, AtWork
<1>10. CASE hdr = << >>
  BY <1>1, <1>2, <1>3, <1>6, <1>7, <1>9, <1>10 DEF CallsSound, Idle
<1>11. CASE hdr # << >>
  <2>1. Built
    BY <1>11 DEF CallsSound
  <2>2. View' = View /\ Mapped' = Mapped
    BY <1>1 DEF View, Mapped, GivesOut, Torn
  <2>3. ASSUME NEW t \in Task PROVE Knows(t)'
    <3>1. Preempted(t)
      BY <1>1 DEF Preempted
    <3>2. Knows(t)
      BY <2>1 DEF Built
    <3>3. Searches(t) => curr[t] \in Blocks'
      BY <1>4, <3>2 DEF Knows
    <3> QED BY <1>1, <1>2, <1>4, <1>11, <3>1, <3>3, ReapedKnow DEF locals
  <2>4. Laid(View, Mapped, Blocks, live)'
    BY <1>2, <1>4, <2>1, <2>2 DEF Built
  <2>5. /\ (heap_pointer \in Blocks \/ \E t \in Task : pc[t] \in {"nextBack", "pointer"})'
        /\ heap_tail' \in Nat /\ heap_current' \in Nat /\ Headers(hdr)'
    BY <1>1, <1>4, <2>1 DEF Built
  <2>6. Built'
    BY <2>3, <2>4, <2>5 DEF Built
  <2> QED BY <1>1, <1>3, <1>6, <1>7, <1>9, <1>11, <2>6 DEF CallsSound
<1> QED BY <1>10, <1>11

(* Until a race happens, the blocks are laid out at every step of every    *)
(* call as far as its stores have gone: as a walk along next finds them,   *)
(* they tile what sbrk has mapped, and each call that is in progress knows *)
(* what it has read of them.                                               *)
THEOREM CallsInvariance == CallsSpec => []CallsInvariant
<1>1. CallsInit => CallsInvariant
  BY CallsStart DEF CallsInvariant
<1>2. CallsInvariant /\ [CallsNext]_call_vars => CallsInvariant'
  <2> SUFFICES ASSUME CallsInvariant, [CallsNext]_call_vars, raced' = {} PROVE CallsSound'
    BY DEF CallsInvariant
  <2>1. CASE CallsNext
    <3>1. CallsSound
      BY <2>1, UntilRace DEF CallsInvariant
    <3> QED BY <2>1, <3>1, MallocSound, FreeSound, ReaperSound DEF CallsNext
  <2>2. CASE UNCHANGED call_vars
    <3>1. raced = {}
      BY <2>2 DEF call_vars
    <3> QED BY <2>2, <3>1, CallsStutter DEF CallsInvariant
  <2> QED BY <2>1, <2>2
<1> QED BY <1>1, <1>2, PTL DEF CallsSpec

LEMMA NoOverlap ==
    ASSUME CallsSound, hdr # << >>, NEW m \in live, NEW n \in live, m # n
    PROVE  m.addr + m.size < n.addr \/ n.addr + n.size < m.addr
<1>1. PICK w, current : w = View /\ current = Mapped
  OBVIOUS
<1>2. Laid(w, current, Blocks, live)
  BY <1>1, HeapThere
<1>3. IsTiling(w, current, Blocks) /\ Sized(w, Blocks) /\ GivenOut(w, Blocks, live)
  BY <1>2, LaidHas DEF Laid
<1>4. PICK a \in Blocks : m.addr = a + 1 /\ m.size = w[a].size
  BY <1>3 DEF GivenOut
<1>5. PICK b \in Blocks : n.addr = b + 1 /\ n.size = w[b].size
  BY <1>3 DEF GivenOut
<1>6. a \in Nat /\ b \in Nat /\ w[a].size \in Nat /\ w[b].size \in Nat
  BY <1>3 DEF Sized
<1>7. a # b
  BY <1>3, <1>4, <1>5 DEF GivenOut
<1>8. (a < b => a + 1 + w[a].size <= b) /\ (b < a => b + 1 + w[b].size <= a)
  BY <1>3 DEF IsTiling, End
<1>9. a < b \/ b < a
  BY <1>6, <1>7
<1> QED BY <1>4, <1>5, <1>6, <1>8, <1>9

LEMMA TiledAtRest ==
    ASSUME CallsSound, hdr # << >>, \A t \in Task : Idle(t)
    PROVE  Tiled
<1>1. /\ Laid(View, Mapped, Blocks, live) /\ Headers(hdr) /\ Blocks \subseteq DOMAIN hdr
      /\ heap_pointer \in Blocks \/ \E t \in Task : pc[t] \in {"nextBack", "pointer"}
      /\ \A a \in DOMAIN hdr : hdr[a].free \in BOOLEAN
  BY HeapThere
<1>2. \A t \in Task : pc[t] = "idle"
  BY DEF Idle
<1>3. heap_pointer \in Blocks
  BY <1>1, <1>2
<1>4. Mapped = heap_current
  <2>1. ~\E t \in Task : pc[t] = "widen"
    BY <1>2
  <2>2. heap_current \in Nat
    BY HeapThere
  <2> QED BY <2>1, <2>2 DEF Mapped
<1>5. ASSUME NEW a \in Blocks PROVE Same(hdr, View, a)
  <2>1. a \in DOMAIN hdr /\ ~GivesOut(a) /\ ~\E u \in Task : a \in Torn(u)
    BY <1>1, <1>2 DEF GivesOut, Torn
  <2>2. /\ View[a].next = hdr[a].next
        /\ View[a].free = (hdr[a].free /\ ~GivesOut(a)) /\ View[a].size = hdr[a].size
    BY <1>1, <2>1, ViewIs DEF HeadersSeen
  <2> QED BY <1>1, <2>1, <2>2 DEF Same
<1>6. IsTiling(View, heap_current, Blocks) /\ GivenOut(View, Blocks, live)
  BY <1>1, <1>4 DEF Laid
<1>7. \A a \in Blocks : Reaches(hdr, heap_current, a)
  BY <1>5, <1>6 DEF IsTiling, Reaches, End, Same
<1>8. GivenOut(hdr, Blocks, live)
  BY <1>5, <1>6 DEF GivenOut, Same
<1> QED BY <1>3, <1>7, <1>8 DEF Tiled

(* What my_malloc gives out never overlaps, and the blocks tile the heap   *)
(* whenever no call is in progress, wherever the calls are preempted,      *)
(* until one of the named races happens.                                   *)
THEOREM CallsStayTiled == CallsSpec => []CallsTiled
<1>1. CallsInvariant => CallsTiled
  <2> SUFFICES ASSUME CallsInvariant, raced = {}
               PROVE  /\ \A m, n \in live : m = n \/ m.addr + m.size < n.addr \/ n.addr + n.size < m.addr
                      /\ (\A t \in Task : Idle(t)) /\ hdr # << >> => Tiled
    BY DEF CallsTiled
  <2>1. CallsSound
    BY DEF CallsInvariant
  <2>2. hdr = << >> => live = {}
    <3> SUFFICES ASSUME hdr = << >> PROVE live = {}
      OBVIOUS
    <3>1. former \in Task /\ pc[former] = "idle" /\ done[former] = 0
      BY <2>1, ScriptOfFormer DEF CallsSound, Idle
    <3>2. Made(former) = done[former] + 0
      BY <3>1, MadeIs DEF Given, FreeSteps, MergeSteps, MergeBackSteps
    <3>3. Made(former) = 0
      BY <3>1, <3>2
    <3> QED BY <2>1, <3>3 DEF CallsSound, Rooted
  <2> QED BY <2>1, <2>2, NoOverlap, TiledAtRest
<1> QED BY <1>1, CallsInvariance, PTL
=============================================================================
