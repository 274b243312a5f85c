----------------------------- MODULE HeapProofs -----------------------------
(* For any sizes and any programs: the blocks tile the heap, heap_tail can *)
(* be grown, and nothing of a closed window is left on the screen.         *)
EXTENDS HeapInv, FiniteSetTheorems, SequenceTheorems, WellFoundedInduction, TLAPS

(* Induction: every set of numbers has a least one.                        *)
LEMMA Least ==
    ASSUME NEW T \in SUBSET Nat, T # {}
    PROVE  \E m \in T : \A k \in T : m <= k
<1> DEFINE R == OpToRel(<, Nat)
<1>1. IsWellFoundedOn(R, Nat)
  BY NatLessThanWellFounded, Zenon
<1>2. \A x, y \in Nat : y < x => <<y, x>> \in R
  BY DEF OpToRel
<1> HIDE DEF R
<1>3. PICK x \in T : \A y \in T : ~ (<<y, x>> \in R)
  BY <1>1, WFMin
<1>4. \A y \in T : ~ (y < x)
  BY <1>2, <1>3
<1>5. \A y \in T : x <= y
  BY <1>3, <1>4
<1> QED BY <1>3, <1>5

LEMMA Induct ==
    ASSUME NEW T, 0 \in T, \A n \in Nat : n \in T => n + 1 \in T
    PROVE  Nat \subseteq T
<1> DEFINE U == Nat \ T
<1>1. SUFFICES ASSUME U # {} PROVE FALSE
  OBVIOUS
<1>2. PICK m \in U : \A k \in U : m <= k
  BY <1>1, Least
<1>3. m # 0 /\ m - 1 \in Nat /\ m - 1 \in T
  BY <1>2
<1> QED BY <1>2, <1>3

LEMMA MinIsIn ==
    ASSUME NEW S \in SUBSET Nat, S # {}
    PROVE  Min(S) \in S
<1>1. \E x \in S : \A y \in S : x =< y
  BY Least
<1> QED BY <1>1 DEF Min

-----------------------------------------------------------------------------
(* Following next in the headers h, from a, within a set B that is closed. *)
Closed(h, B) == \A b \in B : h[b].next \in B
Follows(h, a, n, g) ==
    g[0] = a /\ \A k \in 0 .. n - 1 : g[k + 1] = h[g[k]].next

LEMMA OneWay ==
    ASSUME NEW h, NEW a, NEW n \in Nat, NEW m \in Nat, NEW f, NEW g,
           Follows(h, a, n, f), Follows(h, a, m, g)
    PROVE  \A k \in 0 .. n : k \in 0 .. m => f[k] = g[k]
<1> DEFINE T == {k \in Nat : k <= n /\ k <= m => f[k] = g[k]}
<1>1. 0 \in T
  BY DEF Follows
<1>2. \A k \in Nat : k \in T => k + 1 \in T
  <2> SUFFICES ASSUME NEW k \in T, k + 1 <= n, k + 1 <= m PROVE f[k + 1] = g[k + 1]
    OBVIOUS
  <2>1. f[k] = g[k]
    OBVIOUS
  <2>2. k \in 0 .. n - 1 /\ k \in 0 .. m - 1
    OBVIOUS
  <2> QED BY <2>1, <2>2 DEF Follows
<1> HIDE DEF T
<1>3. Nat \subseteq T
  BY <1>1, <1>2, Induct
<1> QED BY <1>3 DEF T

LEMMA SomeWay ==
    ASSUME NEW h, NEW B, NEW a \in B, Closed(h, B)
    PROVE  \A n \in Nat : \E g \in [0 .. n -> B] : Follows(h, a, n, g)
<1> DEFINE T == {n \in Nat : \E g \in [0 .. n -> B] : Follows(h, a, n, g)}
<1>1. 0 \in T
  <2>1. [k \in 0 .. 0 |-> a] \in [0 .. 0 -> B] /\ Follows(h, a, 0, [k \in 0 .. 0 |-> a])
    BY DEF Follows
  <2> QED BY <2>1
<1>2. \A n \in Nat : n \in T => n + 1 \in T
  <2> SUFFICES ASSUME NEW n \in Nat, NEW g \in [0 .. n -> B], Follows(h, a, n, g)
               PROVE  \E f \in [0 .. n + 1 -> B] : Follows(h, a, n + 1, f)
    OBVIOUS
  <2> DEFINE f == [k \in 0 .. n + 1 |-> IF k = n + 1 THEN h[g[n]].next ELSE g[k]]
  <2>1. f \in [0 .. n + 1 -> B]
    BY DEF Closed
  <2>2. f[0] = a
    BY DEF Follows
  <2>3. ASSUME NEW k \in 0 .. n PROVE f[k + 1] = h[f[k]].next
    <3>1. CASE k = n
      BY <3>1
    <3>2. CASE k < n
      BY <3>2 DEF Follows
    <3> QED BY <3>1, <3>2
  <2>4. n + 1 - 1 = n
    OBVIOUS
  <2> HIDE DEF f
  <2>5. Follows(h, a, n + 1, f)
    BY <2>2, <2>3, <2>4 DEF Follows
  <2> QED BY <2>1, <2>5
<1> HIDE DEF T
<1>3. Nat \subseteq T
  BY <1>1, <1>2, Induct
<1> QED BY <1>3 DEF T

LEMMA Unroll ==
    ASSUME NEW h, NEW B, NEW a \in B, Closed(h, B)
    PROVE  /\ Chain(h, a)[0] = a
           /\ \A k \in Nat : Chain(h, a)[k + 1] = h[Chain(h, a)[k]].next
<1> DEFINE way(n) == CHOOSE g \in [0 .. n -> B] : Follows(h, a, n, g)
           f == [n \in Nat |-> way(n)[n]]
<1>1. \A n \in Nat : way(n) \in [0 .. n -> B] /\ Follows(h, a, n, way(n))
  BY SomeWay
<1> HIDE DEF way
<1>2. f[0] = a
  BY <1>1 DEF Follows
<1>3. ASSUME NEW n \in Nat PROVE f[n + 1] = h[f[n]].next
  <2>1. Follows(h, a, n, way(n)) /\ Follows(h, a, n + 1, way(n + 1))
    BY <1>1
  <2>2. way(n)[n] = way(n + 1)[n]
    BY <2>1, OneWay, n \in 0 .. n, n \in 0 .. n + 1, n + 1 \in Nat
  <2>3. way(n + 1)[n + 1] = h[way(n + 1)[n]].next
    BY <2>1 DEF Follows
  <2> QED BY <2>2, <2>3
<1>4. f = [k \in Nat |-> IF k = 0 THEN a ELSE h[f[k - 1]].next]
  <2>1. ASSUME NEW k \in Nat \ {0} PROVE f[k] = h[f[k - 1]].next
    <3>1. k - 1 \in Nat /\ (k - 1) + 1 = k
      OBVIOUS
    <3> HIDE DEF f
    <3> QED BY <1>3, <3>1
  <2>2. \A k \in Nat : f[k] = IF k = 0 THEN a ELSE h[f[k - 1]].next
    BY <1>2, <2>1
  <2>3. f = [k \in Nat |-> f[k]]
    OBVIOUS
  <2> HIDE DEF f
  <2> QED BY <2>2, <2>3
<1> HIDE DEF f
<1>5. \E at : at = [k \in Nat |-> IF k = 0 THEN a ELSE h[at[k - 1]].next]
  BY <1>4
<1>6. Chain(h, a) = [k \in Nat |-> IF k = 0 THEN a ELSE h[Chain(h, a)[k - 1]].next]
  BY <1>5 DEF Chain
<1> DEFINE c == Chain(h, a)
<1>7. c = [k \in Nat |-> IF k = 0 THEN a ELSE h[c[k - 1]].next]
  BY <1>6
<1> HIDE DEF c
<1>8. \A k \in Nat : c[k] = IF k = 0 THEN a ELSE h[c[k - 1]].next
  BY <1>7
<1>9. \A k \in Nat : k + 1 # 0 /\ (k + 1) - 1 = k /\ k + 1 \in Nat
  OBVIOUS
<1>10. c[0] = a /\ \A k \in Nat : c[k + 1] = h[c[k]].next
  BY <1>8, <1>9
<1> QED BY <1>10 DEF c

LEMMA StaysIn ==
    ASSUME NEW h, NEW B, NEW a \in B, Closed(h, B)
    PROVE  \A k \in Nat : Chain(h, a)[k] \in B
<1> DEFINE T == {k \in Nat : Chain(h, a)[k] \in B}
<1>1. 0 \in T
  BY Unroll
<1>2. \A k \in Nat : k \in T => k + 1 \in T
  BY Unroll DEF Closed
<1> HIDE DEF T
<1>3. Nat \subseteq T
  BY <1>1, <1>2, Induct
<1> QED BY <1>3 DEF T

-----------------------------------------------------------------------------
(* A tiling is what the code reaches over next from heap_start: the k-th   *)
(* block is the one with k blocks below it.                                *)
Sized(h, B) == \A b \in B : b \in Nat /\ h[b].size \in Nat
Below(B, b) == {x \in B : x < b}

LEMMA NextAbove ==
    ASSUME NEW h, NEW current, NEW B, IsTiling(h, current, B), Sized(h, B),
           NEW d \in B, h[d].next # heap_start
    PROVE  /\ d < h[d].next /\ h[d].next = d + 1 + h[d].size
           /\ Below(B, h[d].next) = Below(B, d) \cup {d} /\ d \notin Below(B, d)
<1> DEFINE b == h[d].next
<1>1. b \in B /\ b = d + 1 + h[d].size /\ d \in Nat /\ h[d].size \in Nat
  BY DEF IsTiling, Reaches, End, Sized
<1>2. \A x \in B : x \in Nat /\ (d < x => d + 1 + h[d].size <= x)
  BY DEF IsTiling, End, Sized
<1> HIDE DEF b
<1>3. \A x \in B : x < b <=> x < d \/ x = d
  BY <1>1, <1>2
<1>4. Below(B, b) = Below(B, d) \cup {d}
  BY <1>3 DEF Below
<1>5. d \notin Below(B, d)
  BY <1>1 DEF Below
<1>6. d < b
  BY <1>1
<1> QED BY <1>1, <1>4, <1>5, <1>6 DEF b

LEMMA TilingReached ==
    ASSUME NEW h, NEW current, NEW B, IsTiling(h, current, B), Sized(h, B), IsFiniteSet(B)
    PROVE  \A b \in B : Chain(h, heap_start)[Cardinality(Below(B, b))] = b
<1> DEFINE c == Chain(h, heap_start)
           T == {b \in B : c[Cardinality(Below(B, b))] # b}
<1>1. heap_start \in B /\ Closed(h, B)
  BY DEF IsTiling, Closed
<1>2. c[0] = heap_start /\ \A k \in Nat : c[k + 1] = h[c[k]].next
  BY <1>1, Unroll
<1>3. \A b : IsFiniteSet(Below(B, b))
  BY FS_Subset DEF Below
<1>4. \A b : Cardinality(Below(B, b)) \in Nat
  BY <1>3, FS_CardinalityType
<1> HIDE DEF c
<1>5. SUFFICES ASSUME T # {} PROVE FALSE
  BY DEF c
<1>6. T \in SUBSET Nat
  BY DEF Sized
<1>7. PICK b \in T : \A x \in T : b <= x
  BY <1>5, <1>6, Least
<1>8. b \in B /\ b # heap_start
  <2>1. Below(B, heap_start) = {}
    BY DEF Below, Sized, heap_start
  <2>2. Cardinality(Below(B, heap_start)) = 0
    BY <2>1, FS_EmptySet
  <2> QED BY <1>2, <2>2
<1>9. PICK d \in B : h[d].next = b
  BY <1>8 DEF IsTiling
<1>10. d < b /\ Below(B, b) = Below(B, d) \cup {d} /\ d \notin Below(B, d)
  BY <1>8, <1>9, NextAbove
<1>11. d \notin T
  BY <1>7, <1>10, <1>6, <1>8 DEF Sized
<1>12. Cardinality(Below(B, b)) = Cardinality(Below(B, d)) + 1
  BY <1>3, <1>10, FS_AddElement
<1>13. c[Cardinality(Below(B, d))] = d
  BY <1>11
<1>14. c[Cardinality(Below(B, d)) + 1] = b
  BY <1>2, <1>4, <1>9, <1>13
<1> QED BY <1>7, <1>12, <1>14

LEMMA BlocksAreTiling ==
    ASSUME NEW h, NEW current, NEW B, IsTiling(h, current, B), Sized(h, B),
           B \subseteq DOMAIN h, IsFiniteSet(DOMAIN h)
    PROVE  BlocksOf(h) = B
<1>1. heap_start \in B /\ Closed(h, B)
  BY DEF IsTiling, Closed
<1>2. IsFiniteSet(B) /\ Cardinality(DOMAIN h) \in Nat
  BY FS_Subset, FS_CardinalityType
<1>3. BlocksOf(h) \subseteq B
  <2>1. \A k \in 0 .. Cardinality(DOMAIN h) : k \in Nat
    BY <1>2
  <2> QED BY <1>1, <2>1, StaysIn DEF BlocksOf
<1>4. ASSUME NEW b \in B PROVE b \in BlocksOf(h)
  <2>1. Below(B, b) \subseteq DOMAIN h
    BY DEF Below
  <2>2. Cardinality(Below(B, b)) \in Nat
    BY <2>1, FS_Subset, FS_CardinalityType
  <2>3. Cardinality(Below(B, b)) <= Cardinality(DOMAIN h)
    BY <2>1, FS_Subset
  <2>4. Cardinality(Below(B, b)) \in 0 .. Cardinality(DOMAIN h)
    BY <1>2, <2>2, <2>3
  <2>5. Chain(h, heap_start)[Cardinality(Below(B, b))] = b
    BY <1>2, TilingReached
  <2> QED BY <2>4, <2>5 DEF BlocksOf
<1> QED BY <1>3, <1>4

-----------------------------------------------------------------------------
(* What the stores of my_malloc and my_free make of a tiling.              *)
Same(h, g, b) == g[b].size = h[b].size /\ g[b].next = h[b].next /\ g[b].free = h[b].free

LEMMA Freeing ==
    ASSUME NEW h, NEW g, NEW current, NEW B, IsTiling(h, current, B),
           \A b \in B : g[b].size = h[b].size /\ g[b].next = h[b].next /\ (h[b].free => g[b].free)
    PROVE  IsTiling(g, current, B)
BY DEF IsTiling, Reaches, End

LEMMA Growing ==
    ASSUME NEW h, NEW g, NEW current, NEW B, IsTiling(h, current, B), Sized(h, B),
           NEW last \in B, h[last].next = heap_start, NEW more \in Nat, current \in Nat,
           g[last].size = h[last].size + more, g[last].next = heap_start, g[last].free,
           \A b \in B \ {last} : Same(h, g, b)
    PROVE  IsTiling(g, current + more, B)
<1>1. \A a \in B : a \in Nat /\ h[a].size \in Nat
  BY DEF Sized
<1>2. \A a \in B : g[a].next = h[a].next
  BY DEF Same
<1>3. \A a \in B : g[a].next = heap_start => a = last
  <2> SUFFICES ASSUME NEW a \in B, h[a].next = heap_start, a # last PROVE FALSE
    BY <1>2
  <2>1. a + 1 + h[a].size = current /\ last + 1 + h[last].size = current
    BY DEF IsTiling, Reaches, End
  <2>2. a < last \/ last < a
    BY <1>1
  <2>3. a < last => a + 1 + h[a].size <= last
    BY DEF IsTiling, End
  <2>4. last < a => last + 1 + h[last].size <= a
    BY DEF IsTiling, End
  <2> QED BY <1>1, <2>1, <2>2, <2>3, <2>4
<1>4. ASSUME NEW a \in B PROVE Reaches(g, current + more, a)
  <2>1. CASE a = last
    <3>1. a + 1 + h[a].size = current
      BY <2>1 DEF IsTiling, Reaches, End
    <3> QED BY <1>1, <2>1, <3>1 DEF Reaches, End
  <2>2. CASE a # last
    BY <1>3, <2>2 DEF IsTiling, Reaches, End, Same
  <2> QED BY <2>1, <2>2
<1>5. ASSUME NEW a \in B, NEW b \in B, a < b PROVE End(g, a) <= b
  <2>1. CASE a = last
    <3>1. last + 1 + h[last].size = current /\ current <= b
      BY <1>5, <2>1 DEF IsTiling, Reaches, End
    <3> DEFINE U == {x \in B : last < x}
    <3>2. U \in SUBSET Nat /\ U # {}
      BY <1>1, <1>5, <2>1
    <3>3. PICK x \in U : \A y \in U : x <= y
      BY <3>2, Least
    <3>4. x # heap_start
      BY <1>1, <3>3 DEF heap_start
    <3>5. PICK d \in B : h[d].next = x
      BY <3>3, <3>4 DEF IsTiling
    <3>6. d < x
      BY <3>4, <3>5, NextAbove
    <3>7. d # last /\ ~(last < d)
      BY <1>1, <3>3, <3>4, <3>5, <3>6
    <3>8. d < last
      BY <1>1, <3>7
    <3>9. d + 1 + h[d].size <= last /\ d + 1 + h[d].size = x
      BY <3>4, <3>5, <3>8 DEF IsTiling, Reaches, End
    <3> QED BY <1>1, <3>3, <3>9
  <2>2. CASE a # last
    BY <1>5, <2>2 DEF IsTiling, End, Same
  <2> QED BY <2>1, <2>2
<1>6. \A a \in B : g[a].next = heap_start => g[a].free
  BY <1>3
<1> QED BY <1>2, <1>4, <1>5, <1>6 DEF IsTiling

LEMMA Splitting ==
    ASSUME NEW h, NEW g, NEW current, NEW B, IsTiling(h, current, B), Sized(h, B),
           NEW curr \in B, NEW size \in Nat, h[curr].size >= size + 1,
           NEW new, new = curr + 1 + size,
           g[curr].size = size, g[curr].next = new,
           g[new].size = h[curr].size - size - 1, g[new].next = h[curr].next, g[new].free,
           \A b \in B \ {curr} : Same(h, g, b)
    PROVE  /\ IsTiling(g, current, B \cup {new}) /\ Sized(g, B \cup {new})
           /\ new \notin B /\ new # heap_start
<1>1. \A a \in B : a \in Nat /\ h[a].size \in Nat
  BY DEF Sized
<1>2. /\ new \in Nat /\ curr < new /\ new < End(h, curr)
      /\ End(g, curr) = new /\ g[new].size \in Nat /\ g[curr].size \in Nat
      /\ End(g, new) = End(h, curr) /\ new # heap_start
  BY <1>1 DEF End, heap_start
<1>0. \A a \in B : End(h, a) \in Nat /\ a < End(h, a)
  BY <1>1 DEF End
<1>a. \A a, b \in B : a < b => End(h, a) <= b
  BY DEF IsTiling
<1>3. \A b \in B : /\ curr < b => End(h, curr) <= b /\ new < b
                   /\ b < curr => End(h, b) <= curr
  <2> SUFFICES ASSUME NEW b \in B
               PROVE  /\ curr < b => End(h, curr) <= b /\ new < b
                      /\ b < curr => End(h, b) <= curr
    OBVIOUS
  <2>1. curr < b => End(h, curr) <= b
    BY <1>a
  <2>2. b < curr => End(h, b) <= curr
    BY <1>a
  <2>3. End(h, curr) <= b => new < b
    BY <1>0, <1>1, <1>2
  <2> QED BY <2>1, <2>2, <2>3
<1>4. new \notin B
  <2> SUFFICES ASSUME new \in B PROVE FALSE
    OBVIOUS
  <2>1. new < new
    BY <1>2, <1>3
  <2> QED BY <1>2, <2>1
<1>5. Sized(g, B \cup {new})
  BY <1>1, <1>2 DEF Sized, Same
<1>6. \A a \in B \ {curr} : End(g, a) = End(h, a) /\ g[a].next = h[a].next
  BY DEF Same, End
<1>7. ASSUME NEW a \in B \cup {new} PROVE g[a].next \in B \cup {new} /\ Reaches(g, current, a)
  <2>1. CASE a = curr
    BY <1>2, <2>1 DEF Reaches
  <2>2. CASE a = new
    BY <1>2, <2>2 DEF Reaches, IsTiling
  <2>3. CASE a \in B \ {curr}
    BY <1>6, <2>3 DEF Reaches, IsTiling
  <2> QED BY <2>1, <2>2, <2>3
<1>8. ASSUME NEW a \in B \cup {new}, NEW b \in B \cup {new}, a < b PROVE End(g, a) <= b
  <2>1. CASE a = curr /\ b = new
    BY <1>2, <2>1
  <2>2. CASE a = curr /\ b # new
    <3>1. b \in B /\ new < b
      BY <1>3, <1>4, <1>8, <2>2
    <3> QED BY <1>1, <1>2, <2>2, <3>1
  <2>3. CASE a = new
    <3>1. b \in B /\ new < b
      BY <1>2, <1>8, <2>3
    <3>2. curr < b
      BY <1>1, <1>2, <3>1
    <3>3. End(h, curr) <= b
      BY <1>3, <3>1, <3>2
    <3> QED BY <1>2, <2>3, <3>3
  <2>4. CASE a \in B \ {curr} /\ b \in B
    BY <1>6, <1>8, <2>4 DEF IsTiling
  <2>5. CASE a \in B \ {curr} /\ b = new
    <3>1. ~(curr < a)
      <4>1. curr < a => new < a
        BY <1>3, <2>5
      <4> QED BY <1>1, <1>2, <1>8, <2>5, <4>1
    <3>2. a < curr
      BY <1>1, <2>5, <3>1
    <3>3. End(h, a) <= curr
      BY <1>3, <2>5, <3>2
    <3> QED BY <1>1, <1>2, <1>6, <2>5, <3>3 DEF End
  <2> QED BY <2>1, <2>2, <2>3, <2>4, <2>5
<1>9. ASSUME NEW b \in (B \cup {new}) \ {heap_start} PROVE \E a \in B \cup {new} : g[a].next = b
  <2>1. CASE b = new
    BY <2>1
  <2>2. CASE b \in B
    <3>1. PICK a \in B : h[a].next = b
      BY <2>2 DEF IsTiling
    <3>2. CASE a = curr
      BY <3>1, <3>2
    <3>3. CASE a # curr
      BY <1>6, <3>1, <3>3
    <3> QED BY <3>2, <3>3
  <2> QED BY <2>1, <2>2
<1>10. ASSUME NEW a \in B \cup {new}, g[a].next = heap_start PROVE g[a].free
  BY <1>2, <1>10 DEF IsTiling, Same
<1>11. heap_start \in B \cup {new}
  BY DEF IsTiling
<1>12. IsTiling(g, current, B \cup {new})
  BY <1>7, <1>8, <1>9, <1>10, <1>11 DEF IsTiling
<1> QED BY <1>2, <1>4, <1>5, <1>12

Follow(h, B, a, b) == a \in B /\ b \in B /\ h[a].next = b /\ b # heap_start
Merged(h, g, B, a, b) ==
    /\ g[a].size = h[a].size + h[b].size + 1 /\ g[a].next = h[b].next /\ g[a].free
    /\ \A x \in B \ {a, b} : Same(h, g, x)

LEMMA Merging ==
    ASSUME NEW h, NEW g, NEW current, NEW B, IsTiling(h, current, B), Sized(h, B),
           NEW a, NEW b, Follow(h, B, a, b), Merged(h, g, B, a, b)
    PROVE  IsTiling(g, current, B \ {b}) /\ Sized(g, B \ {b}) /\ a # b
<1>0. a \in B /\ b \in B /\ h[a].next = b /\ b # heap_start
  BY DEF Follow
<1>m. /\ g[a].size = h[a].size + h[b].size + 1 /\ g[a].next = h[b].next /\ g[a].free
      /\ \A x \in B \ {a, b} : Same(h, g, x)
  BY DEF Merged
<1>1. \A x \in B : x \in Nat /\ h[x].size \in Nat
  BY <1>0, <1>m DEF Sized
<1>2. End(h, a) = b /\ a < b /\ g[a].size \in Nat /\ End(g, a) = End(h, b) /\ b < End(h, b)
  BY <1>0, <1>m, <1>1 DEF IsTiling, Reaches, End
<1>3. Sized(g, B \ {b})
  BY <1>0, <1>m, <1>1, <1>2 DEF Sized, Same
<1>4. \A x \in B \ {a, b} : End(g, x) = End(h, x) /\ g[x].next = h[x].next /\ g[x].free = h[x].free
  BY <1>0, <1>m DEF Same, End
<1>5. ASSUME NEW x \in B, NEW y \in B, h[x].next = h[y].next, h[x].next # heap_start PROVE x = y
  <2>1. End(h, x) = h[x].next /\ End(h, y) = h[x].next
    BY <1>0, <1>m, <1>5 DEF IsTiling, Reaches
  <2>2. (x < y => End(h, x) <= y) /\ (y < x => End(h, y) <= x)
    BY <1>0, <1>m DEF IsTiling
  <2> QED BY <1>0, <1>m, <1>1, <2>1, <2>2 DEF End
<1>6. ASSUME NEW x \in B \ {b} PROVE g[x].next \in B \ {b} /\ Reaches(g, current, x)
  <2>1. CASE x = a
    <3>1. h[b].next \in B /\ h[b].next # b
      <4>1. CASE h[b].next = heap_start
        BY <1>0, <1>m, <4>1 DEF IsTiling
      <4>2. CASE h[b].next # heap_start
        <5>1. End(h, b) = h[b].next
          BY <1>0, <1>m, <4>2 DEF IsTiling, Reaches
        <5> QED BY <1>0, <1>m, <1>1, <1>2, <5>1 DEF IsTiling
      <4> QED BY <1>0, <1>m, <4>1, <4>2
    <3> QED BY <1>0, <1>m, <1>2, <2>1, <3>1 DEF IsTiling, Reaches
  <2>2. CASE x # a
    <3>1. h[x].next # b
      BY <1>0, <1>m, <1>5, <2>2
    <3> QED BY <1>0, <1>m, <1>4, <2>2, <3>1 DEF IsTiling, Reaches
  <2> QED BY <1>0, <1>m, <2>1, <2>2
<1>7. ASSUME NEW x \in B \ {b}, NEW y \in B \ {b}, x < y PROVE End(g, x) <= y
  <2>1. CASE x = a
    <3>1. End(h, a) <= y
      BY <1>0, <1>m, <1>7, <2>1 DEF IsTiling
    <3>2. b < y
      BY <1>0, <1>m, <1>1, <1>2, <3>1
    <3>3. End(h, b) <= y
      BY <1>0, <1>m, <3>2 DEF IsTiling
    <3> QED BY <1>0, <1>m, <1>2, <2>1, <3>3
  <2>2. CASE x # a
    BY <1>0, <1>m, <1>4, <1>7, <2>2 DEF IsTiling
  <2> QED BY <1>0, <1>m, <2>1, <2>2
<1>8. ASSUME NEW y \in (B \ {b}) \ {heap_start} PROVE \E x \in B \ {b} : g[x].next = y
  <2>1. PICK x \in B : h[x].next = y
    BY <1>0, <1>m DEF IsTiling
  <2>2. CASE x = b
    BY <1>0, <1>m, <1>2, <2>1, <2>2
  <2>3. CASE x # b
    <3>1. x # a
      BY <1>0, <1>m, <2>1
    <3> QED BY <1>0, <1>m, <1>4, <2>1, <2>3, <3>1
  <2> QED BY <1>0, <1>m, <2>2, <2>3
<1>9. ASSUME NEW x \in B \ {b}, g[x].next = heap_start PROVE g[x].free
  <2>1. CASE x = a
    BY <1>0, <1>m, <2>1
  <2>2. CASE x # a
    BY <1>0, <1>m, <1>4, <1>9, <2>2 DEF IsTiling
  <2> QED BY <1>0, <1>m, <2>1, <2>2
<1>10. heap_start \in B \ {b}
  BY <1>0, <1>m DEF IsTiling
<1>11. IsTiling(g, current, B \ {b})
  BY <1>0, <1>m, <1>6, <1>7, <1>8, <1>9, <1>10 DEF IsTiling
<1>12. a # b
  BY <1>0, <1>m, <1>1, <1>2
<1> QED BY <1>3, <1>11, <1>12

-----------------------------------------------------------------------------
(* The calls to come: one of them is made, ...                             *)
IsCall(c, op, t, role) == c.op = op /\ c.task = t /\ c.role = role

LEMMA Dropped ==
    ASSUME Protocol, todo # << >>, todo' = Tail(todo), UNCHANGED <<running, dead>>,
           NEW c, c = Head(todo),
           \A t, role : Has(t, role) /\ ~IsCall(c, "free", t, role) => Has(t, role)',
           c.op = "malloc" => Has(c.task, c.role)'
    PROVE  Protocol'
<1>1. /\ todo \in Seq(HeapCall) /\ todo' \in Seq(HeapCall) /\ c = todo[1] /\ 1 \in DOMAIN todo
      /\ \A k \in DOMAIN todo' : k + 1 \in DOMAIN todo /\ todo'[k] = todo[k + 1] /\ k \in Nat \ {0}
      /\ \A k \in DOMAIN todo : k # 1 => k - 1 \in DOMAIN todo' /\ todo[k] = todo'[k - 1]
  <2>1. todo \in Seq(HeapCall)
    BY DEF Protocol, Typed
  <2>2. /\ Len(todo) \in Nat \ {0} /\ DOMAIN todo = 1 .. Len(todo)
        /\ Tail(todo) \in Seq(HeapCall) /\ Len(Tail(todo)) = Len(todo) - 1 /\ c = todo[1]
    BY <2>1
  <2>3. /\ DOMAIN todo' = 1 .. Len(todo) - 1
        /\ \A k \in 1 .. Len(todo) - 1 : todo'[k] = todo[k + 1]
    BY <2>1, <2>2
  <2>4. \A k \in DOMAIN todo : k # 1 => k - 1 \in DOMAIN todo' /\ (k - 1) + 1 = k
    BY <2>2, <2>3
  <2>5. \A k \in DOMAIN todo : k # 1 => todo[k] = todo'[k - 1]
    BY <2>3, <2>4
  <2> QED BY <2>1, <2>2, <2>3, <2>4, <2>5
<1>2. Typed'
  BY <1>1 DEF Protocol, Typed
<1>3. \A op, t, role : Coming(op, t, role)' => Coming(op, t, role)
  BY <1>1 DEF Coming
<1>4. \A t, role : Coming("free", t, role) \/ ~IsCall(c, "free", t, role)
  BY <1>1 DEF Coming, IsCall
<1>5. \A t, role : Coming("malloc", t, role) => Has(t, role)' \/ Coming("malloc", t, role)'
  <2> SUFFICES ASSUME NEW t, NEW role, NEW k \in DOMAIN todo, IsCall(todo[k], "malloc", t, role)
               PROVE  Has(t, role)' \/ Coming("malloc", t, role)'
    BY DEF Coming, IsCall
  <2>1. CASE k = 1
    BY <1>1, <2>1 DEF IsCall
  <2>2. CASE k # 1
    <3>1. k - 1 \in DOMAIN todo' /\ IsCall(todo'[k - 1], "malloc", t, role)
      BY <1>1, <2>2
    <3> QED BY <3>1 DEF Coming, IsCall
  <2> QED BY <2>1, <2>2
<1>6. FreedOnce'
  <2> SUFFICES ASSUME NEW k \in DOMAIN todo', NEW t, NEW role, IsCall(todo'[k], "free", t, role)
               PROVE  /\ Has(t, role)'
                      /\ \A j \in DOMAIN todo' : IsCall(todo'[j], "free", t, role) => j = k
    BY DEF FreedOnce, IsCall, Has
  <2>1. k + 1 \in DOMAIN todo /\ IsCall(todo[k + 1], "free", t, role) /\ k + 1 # 1
    BY <1>1 DEF IsCall
  <2>2. Has(t, role) /\ \A j \in DOMAIN todo : IsCall(todo[j], "free", t, role) => j = k + 1
    BY <2>1 DEF Protocol, FreedOnce, IsCall
  <2>3. ~IsCall(c, "free", t, role)
    BY <1>1, <2>1, <2>2
  <2>4. Has(t, role)'
    BY <2>2, <2>3
  <2>5. \A j \in DOMAIN todo' : IsCall(todo'[j], "free", t, role) => j = k
    BY <1>1, <2>2
  <2> QED BY <2>4, <2>5
<1>7. Unreaped'
  BY <1>3, <1>4 DEF Protocol, Unreaped
<1>8. Furnished'
  BY <1>3, <1>4, <1>5 DEF Protocol, Furnished
<1> QED BY <1>2, <1>6, <1>7, <1>8 DEF Protocol

LEMMA Untouched ==
    ASSUME Protocol, UNCHANGED <<todo, live, running, dead>>
    PROVE  Protocol'
BY DEF Protocol, Typed, FreedOnce, Unreaped, Furnished, Has, Coming

(* ... reaper comes in between, ...                                        *)
LEMMA ReaperComes ==
    ASSUME Protocol, NEW t \in Slot, Reap(t)
    PROVE  Protocol'
<1>1. /\ t \in dead /\ todo' = << free(t, "stack"), free(t, "tcb") >> \o todo
      /\ dead' = dead \ {t} /\ UNCHANGED <<live, running>>
  BY DEF Reap
<1>2. todo \in Seq(HeapCall) /\ running \in Seq([task : Slot, prog : Program]) /\ dead \in SUBSET Slot
  BY DEF Protocol, Typed
<1>3. free(t, "stack") \in HeapCall /\ free(t, "tcb") \in HeapCall
  BY DEF free, HeapCall, Owner, Role
<1>4. Typed'
  BY <1>1, <1>2, <1>3 DEF Typed
<1>5. /\ DOMAIN todo' = 1 .. Len(todo) + 2
      /\ todo'[1] = free(t, "stack") /\ todo'[2] = free(t, "tcb")
      /\ \A k \in DOMAIN todo' : k # 1 /\ k # 2 => k - 2 \in DOMAIN todo /\ todo'[k] = todo[k - 2]
      /\ \A k \in DOMAIN todo : k + 2 \in DOMAIN todo' /\ todo'[k + 2] = todo[k]
  BY <1>1, <1>2, <1>3
<1>6. \A s, role : Has(s, role)' <=> Has(s, role)
  BY <1>1 DEF Has
<1>7. /\ Has(t, "stack") /\ Has(t, "tcb")
      /\ ~Coming("free", t, "stack") /\ ~Coming("free", t, "tcb")
  BY <1>1 DEF Protocol, Unreaped
<1>8. \A s, role : Coming("free", s, role)' =>
        Coming("free", s, role) \/ (s = t /\ role \in {"stack", "tcb"})
  BY <1>5 DEF Coming, free
<1>9. \A s, role : Coming("malloc", s, role) => Coming("malloc", s, role)'
  BY <1>5 DEF Coming
<1>10. FreedOnce'
  <2> SUFFICES ASSUME NEW k \in DOMAIN todo', NEW s, NEW role, IsCall(todo'[k], "free", s, role)
               PROVE  /\ Has(s, role)'
                      /\ \A j \in DOMAIN todo' : IsCall(todo'[j], "free", s, role) => j = k
    BY DEF FreedOnce, IsCall, Has
  <2>1. \A j \in DOMAIN todo : ~IsCall(todo[j], "free", t, "stack") /\ ~IsCall(todo[j], "free", t, "tcb")
    BY <1>7 DEF Coming, IsCall
  <2>2. CASE k = 1
    BY <1>5, <1>6, <1>7, <2>1, <2>2 DEF free, IsCall
  <2>3. CASE k = 2
    BY <1>5, <1>6, <1>7, <2>1, <2>3 DEF free, IsCall
  <2>4. CASE k # 1 /\ k # 2
    <3>1. k - 2 \in DOMAIN todo /\ IsCall(todo[k - 2], "free", s, role)
      BY <1>5, <2>4 DEF IsCall
    <3>2. Has(s, role) /\ \A j \in DOMAIN todo : IsCall(todo[j], "free", s, role) => j = k - 2
      BY <3>1 DEF Protocol, FreedOnce, IsCall
    <3>3. ~(s = t /\ role \in {"stack", "tcb"})
      BY <2>1, <3>1
    <3>4. ASSUME NEW j \in DOMAIN todo', IsCall(todo'[j], "free", s, role) PROVE j = k
      <4>1. j # 1 /\ j # 2
        BY <1>5, <3>3, <3>4 DEF free, IsCall
      <4>2. j - 2 = k - 2
        BY <1>5, <3>2, <3>4, <4>1
      <4> QED BY <1>5, <4>2
    <3> QED BY <1>6, <3>2, <3>4
  <2> QED BY <2>2, <2>3, <2>4
<1>11. Unreaped'
  BY <1>1, <1>6, <1>8 DEF Protocol, Unreaped
<1>12. Furnished'
  BY <1>1, <1>6, <1>8, <1>9 DEF Protocol, Furnished
<1> QED BY <1>4, <1>10, <1>11, <1>12 DEF Protocol

(* ... a program is started, ...                                           *)
LEMMA ProgramStarts ==
    ASSUME Protocol, SizesAssumption, NEW p \in Program, NEW t \in Slot, Start(p, t)
    PROVE  Protocol'
<1>1. /\ todo = << >> /\ t \notin dead /\ \A i \in DOMAIN running : running[i].task # t
      /\ running' = Append(running, [task |-> t, prog |-> p])
      /\ todo' = << malloc(t, "tcb", TCB), malloc(t, "stack", STACK),
                    malloc(t, "win", WINDOW), malloc(t, "vault", Vault[p]), link_window(t, p) >>
      /\ UNCHANGED <<live, dead>>
  BY DEF Start
<1>2. running \in Seq([task : Slot, prog : Program]) /\ dead \in SUBSET Slot
  BY DEF Protocol, Typed
<1>3. TCB \in Nat /\ STACK \in Nat /\ WINDOW \in Nat /\ Vault[p] \in Nat
  BY DEF SizesAssumption
<1>4. /\ malloc(t, "tcb", TCB) \in HeapCall /\ malloc(t, "stack", STACK) \in HeapCall
      /\ malloc(t, "win", WINDOW) \in HeapCall /\ malloc(t, "vault", Vault[p]) \in HeapCall
      /\ link_window(t, p) \in HeapCall
  BY <1>3 DEF malloc, link_window, HeapCall, Owner, Role
<1>5. [task |-> t, prog |-> p] \in [task : Slot, prog : Program]
  OBVIOUS
<1>6. Typed'
  BY <1>1, <1>2, <1>4, <1>5 DEF Typed
<1>7. /\ DOMAIN todo' = 1 .. 5
      /\ IsCall(todo'[1], "malloc", t, "tcb") /\ IsCall(todo'[2], "malloc", t, "stack")
      /\ IsCall(todo'[3], "malloc", t, "win") /\ IsCall(todo'[4], "malloc", t, "vault")
      /\ todo'[5].op = "link"
  BY <1>1 DEF malloc, link_window, IsCall
<1>8. \A k \in DOMAIN todo' : todo'[k].op # "free"
  BY <1>7 DEF IsCall
<1>9. \A s, role : ~Coming("free", s, role)'
  BY <1>8 DEF Coming
<1>10. \A s, role : Has(s, role)' <=> Has(s, role)
  BY <1>1 DEF Has
<1>11. \A s, role : ~Coming("malloc", s, role)
  BY <1>1 DEF Coming
<1>12. \A role \in Role : Coming("malloc", t, role)'
  <2>1. 1 \in DOMAIN todo' /\ 2 \in DOMAIN todo' /\ 3 \in DOMAIN todo' /\ 4 \in DOMAIN todo'
    BY <1>7
  <2> QED BY <1>7, <2>1 DEF Coming, IsCall, Role
<1>13. FreedOnce'
  BY <1>8 DEF FreedOnce
<1>14. Unreaped'
  BY <1>1, <1>9, <1>10 DEF Protocol, Unreaped
<1>15. /\ DOMAIN running' = 1 .. Len(running) + 1 /\ DOMAIN running = 1 .. Len(running)
       /\ Len(running) \in Nat /\ running'[Len(running) + 1].task = t
       /\ \A i \in DOMAIN running : running'[i] = running[i]
  BY <1>1, <1>2
<1>16. \A i \in DOMAIN running' : i \in DOMAIN running \/ i = Len(running) + 1
  BY <1>15
<1>17. Furnished'
  <2> SUFFICES ASSUME NEW i \in DOMAIN running', NEW s, s = running'[i].task
               PROVE  /\ s \notin dead'
                      /\ \A j \in DOMAIN running' : running'[j].task = s => j = i
                      /\ \A role \in Role : (Has(s, role)' \/ Coming("malloc", s, role)')
                                           /\ ~Coming("free", s, role)'
    BY DEF Furnished, Has, Coming
  <2>1. CASE i \in DOMAIN running
    <3>1. s = running[i].task /\ s # t
      BY <1>1, <1>15, <2>1
    <3>2. s \notin dead /\ \A role \in Role : Has(s, role)
      BY <1>11, <2>1, <3>1 DEF Protocol, Furnished
    <3>3. \A j \in DOMAIN running : running[j].task = s => j = i
      BY <2>1, <3>1 DEF Protocol, Furnished
    <3>4. \A j \in DOMAIN running' : running'[j].task = s => j = i
      BY <1>15, <1>16, <3>1, <3>3
    <3> QED BY <1>1, <1>9, <1>10, <3>2, <3>4
  <2>2. CASE i = Len(running) + 1
    <3>1. s = t
      BY <1>15, <2>2
    <3>2. \A j \in DOMAIN running' : running'[j].task = s => j = i
      BY <1>1, <1>15, <1>16, <2>2, <3>1
    <3> QED BY <1>1, <1>9, <1>12, <3>1, <3>2
  <2> QED BY <1>16, <2>1, <2>2
<1> QED BY <1>6, <1>13, <1>14, <1>17 DEF Protocol

LEMMA AllButLast ==
    ASSUME NEW S, NEW s \in Seq(S), s # << >>
    PROVE  /\ s[Len(s)] \in S
           /\ SubSeq(s, 1, Len(s) - 1) \in Seq(S)
           /\ Len(SubSeq(s, 1, Len(s) - 1)) = Len(s) - 1
           /\ \A i \in 1 .. Len(s) - 1 : SubSeq(s, 1, Len(s) - 1)[i] = s[i]
<1>1. Len(s) \in Nat \ {0} /\ Len(s) \in DOMAIN s
  OBVIOUS
<1>2. \A i \in 1 .. Len(s) - 1 : s[i] \in S
  OBVIOUS
<1>3. s[Len(s)] \in S
  BY <1>1
<1> DEFINE u == SubSeq(s, 1, Len(s) - 1)
<1>4. /\ 1 \in Int /\ Len(s) - 1 \in Int
  BY <1>1
<1>5. /\ u \in Seq(S)
      /\ Len(u) = IF 1 <= Len(s) - 1 THEN Len(s) - 1 - 1 + 1 ELSE 0
      /\ \A i \in 1 .. Len(s) - 1 - 1 + 1 : u[i] = s[1 + i - 1]
  BY <1>2, <1>4, SubSeqProperties
<1> HIDE DEF u
<1>6. Len(u) = Len(s) - 1
  <2> DEFINE n == Len(s)
  <2>1. n \in Nat \ {0} /\ Len(u) = IF 1 <= n - 1 THEN n - 1 - 1 + 1 ELSE 0
    BY <1>1, <1>5
  <2> HIDE DEF n
  <2>2. (IF 1 <= n - 1 THEN n - 1 - 1 + 1 ELSE 0) = n - 1
    BY <2>1
  <2> QED BY <2>1, <2>2 DEF n
<1>7. \A i \in 1 .. Len(s) - 1 : i \in 1 .. Len(s) - 1 - 1 + 1 /\ 1 + i - 1 = i
  BY <1>1
<1> QED BY <1>3, <1>5, <1>6, <1>7 DEF u

(* ... or the last one exits.                                              *)
LEMMA ProgramExits ==
    ASSUME Protocol, Exit
    PROVE  Protocol'
<1> DEFINE n == Len(running)
<1>1. /\ todo = << >> /\ running # << >> /\ running \in Seq([task : Slot, prog : Program])
      /\ dead \in SUBSET Slot /\ UNCHANGED live /\ running' = SubSeq(running, 1, n - 1)
  BY DEF Exit, Protocol, Typed
<1>2. /\ n \in Nat \ {0} /\ DOMAIN running = 1 .. n /\ n \in DOMAIN running
      /\ running' \in Seq([task : Slot, prog : Program])
      /\ DOMAIN running' = 1 .. n - 1 /\ \A i \in DOMAIN running' : running'[i] = running[i]
  <2>1. n \in Nat \ {0} /\ DOMAIN running = 1 .. n /\ n \in DOMAIN running
    BY <1>1
  <2>2. /\ Len(SubSeq(running, 1, n - 1)) = n - 1
        /\ \A i \in 1 .. n - 1 : SubSeq(running, 1, n - 1)[i] = running[i]
    BY <1>1, <2>1
  <2>3. running' \in Seq([task : Slot, prog : Program])
    BY <1>1, AllButLast
  <2>4. DOMAIN running' = 1 .. n - 1
    BY <1>1, <2>2, <2>3
  <2> QED BY <1>1, <2>1, <2>2, <2>3, <2>4
<1>3. PICK t : t = running[n].task
  OBVIOUS
<1>4. /\ t \in Slot /\ dead' = dead \cup {t}
      /\ todo' = << unlink_window(t), free(t, "vault"), free(t, "win") >>
  <2>1. running[n] \in [task : Slot, prog : Program]
    BY <1>1, AllButLast
  <2>2. t \in Slot
    BY <1>3, <2>1
  <2> QED BY <1>3, <2>2 DEF Exit
<1>5. /\ unlink_window(t) \in HeapCall /\ free(t, "vault") \in HeapCall
      /\ free(t, "win") \in HeapCall
  BY <1>4 DEF free, unlink_window, HeapCall, Owner, Role
<1>6. Typed'
  BY <1>1, <1>2, <1>4, <1>5 DEF Typed
<1>7. /\ DOMAIN todo' = 1 .. 3 /\ todo'[1].op = "unlink"
      /\ IsCall(todo'[2], "free", t, "vault") /\ IsCall(todo'[3], "free", t, "win")
  BY <1>4 DEF free, unlink_window, IsCall
<1>8. \A s, role : Has(s, role)' <=> Has(s, role)
  BY <1>1 DEF Has
<1>9. \A op, s, role : ~Coming(op, s, role)
  BY <1>1 DEF Coming
<1>10. \A role \in Role : Has(t, role)
  BY <1>2, <1>3, <1>9 DEF Protocol, Furnished
<1>11. \A s, role : Coming("free", s, role)' => s = t /\ role \in {"vault", "win"}
  BY <1>7 DEF Coming, IsCall
<1>12. FreedOnce'
  <2> SUFFICES ASSUME NEW k \in DOMAIN todo', NEW s, NEW role, IsCall(todo'[k], "free", s, role)
               PROVE  /\ Has(s, role)'
                      /\ \A j \in DOMAIN todo' : IsCall(todo'[j], "free", s, role) => j = k
    BY DEF FreedOnce, IsCall, Has
  <2>1. k \in {2, 3}
    BY <1>7 DEF IsCall
  <2>2. s = t /\ role = IF k = 2 THEN "vault" ELSE "win"
    BY <1>7, <2>1 DEF IsCall
  <2>3. Has(s, role)'
    BY <1>8, <1>10, <2>2 DEF Role
  <2>4. \A j \in DOMAIN todo' : IsCall(todo'[j], "free", s, role) => j = k
    BY <1>7, <2>1, <2>2 DEF IsCall
  <2> QED BY <2>3, <2>4
<1>13. Unreaped'
  BY <1>4, <1>8, <1>10, <1>11 DEF Protocol, Unreaped, Role
<1>14. Furnished'
  <2> SUFFICES ASSUME NEW i \in DOMAIN running', NEW s, s = running'[i].task
               PROVE  /\ s \notin dead'
                      /\ \A j \in DOMAIN running' : running'[j].task = s => j = i
                      /\ \A role \in Role : (Has(s, role)' \/ Coming("malloc", s, role)')
                                           /\ ~Coming("free", s, role)'
    BY DEF Furnished, Has, Coming
  <2>1. i \in DOMAIN running /\ i # n /\ s = running[i].task
    BY <1>2
  <2>2. /\ s \notin dead /\ \A role \in Role : Has(s, role)
        /\ \A j \in DOMAIN running : running[j].task = s => j = i
    BY <1>9, <2>1 DEF Protocol, Furnished
  <2>3. s # t
    BY <1>2, <1>3, <2>1, <2>2
  <2>4. \A j \in DOMAIN running' : running'[j].task = s => j = i
    BY <1>2, <2>2
  <2> QED BY <1>4, <1>8, <1>11, <2>2, <2>3, <2>4
<1> QED BY <1>6, <1>12, <1>13, <1>14 DEF Protocol

-----------------------------------------------------------------------------
(* The calls themselves.                                                   *)
LEMMA Rebuilt ==
    ASSUME Headed', NEW B, B \subseteq DOMAIN hdr', IsTiling(hdr', heap_current', B),
           heap_pointer' \in B, GivenOut(hdr', B, live')
    PROVE  Sound' /\ Blocks' = B
<1>1. Sized(hdr', B) /\ IsFiniteSet(DOMAIN hdr')
  BY DEF Headed, Sized, Header
<1>2. BlocksOf(hdr') = B
  BY <1>1, BlocksAreTiling
<1>3. Blocks' = B
  BY <1>2 DEF Blocks
<1> QED BY <1>3 DEF Sound

LEMMA Found ==
    ASSUME Sound
    PROVE  /\ Sized(hdr, Blocks) /\ Closed(hdr, Blocks) /\ Blocks \subseteq DOMAIN hdr
           /\ \A b \in Blocks : hdr[b] \in Header /\ b \in Nat
BY DEF Sound, Headed, Sized, Header, Closed, IsTiling

LEMMA FirstPageMade ==
    ASSUME FirstPage, live = {}, SizesAssumption
    PROVE  hdr' # << >> /\ Sound' /\ Blocks' = {heap_start}
<1> DEFINE header == [size |-> PAGE - 1, free |-> TRUE, next |-> heap_start, prev |-> heap_start]
<1>1. PAGE \in Nat \ {0}
  BY DEF SizesAssumption
<1>2. /\ hdr = << >> /\ hdr' = Put(hdr, heap_start, header)
      /\ heap_pointer' = heap_start /\ heap_current' = PAGE /\ live' = {}
  BY DEF FirstPage, FirstBlock
<1>3. header \in Header /\ header.size = PAGE - 1 /\ header.free /\ header.next = heap_start
  BY <1>1 DEF Header, heap_start
<1> HIDE DEF header
<1>4. DOMAIN hdr = {}
  BY <1>2
<1>5. DOMAIN hdr' = {heap_start} /\ hdr'[heap_start] = header /\ hdr' \in [{heap_start} -> Header]
  BY <1>2, <1>3, <1>4 DEF Put
<1>6. hdr' # << >>
  BY <1>5
<1>7. IsFiniteSet({heap_start})
  BY FS_Singleton
<1>8. Headed'
  BY <1>1, <1>2, <1>5, <1>7 DEF Headed, heap_start
<1>9. IsTiling(hdr', heap_current', {heap_start})
  BY <1>1, <1>2, <1>3, <1>5 DEF IsTiling, Reaches, End, heap_start
<1>10. GivenOut(hdr', {heap_start}, live')
  BY <1>2, <1>3, <1>5 DEF GivenOut
<1> QED BY <1>2, <1>5, <1>6, <1>8, <1>9, <1>10, Rebuilt

(* Block curr is split, and new is its rest.                               *)
SplitAt(curr, new) ==
    /\ Blocks' = Blocks \cup {new} /\ DOMAIN hdr' = DOMAIN hdr \cup {new}
    /\ End(hdr', curr) = new /\ hdr'[curr].next = new
    /\ End(hdr', new) = End(hdr, curr) /\ hdr'[new].next = hdr[curr].next /\ hdr'[new].free
    /\ curr < new /\ new < End(hdr, curr)
    /\ \A x \in DOMAIN hdr \ {curr, new} : hdr'[x] = hdr[x]
    /\ heap_tail' = TailAfter(curr, new)

LEMMA Allocated ==
    ASSUME Allocate, Protocol, Sound
    PROVE  /\ hdr' # << >> /\ Sound'
           /\ \E a \in Blocks, m \in live' :
                m.addr = a + 1 /\ m.task = call.task /\ m.role = call.role
           /\ \E curr \in Blocks, new \in Nat : SplitAt(curr, new)
<1> DEFINE c == Head(todo)
           curr == Visited[Min(Fits(c.size))]
           size == c.size
           new == curr + 1 + size
           given == [task |-> c.task, role |-> c.role, addr |-> curr + 1, size |-> size]
           B == Blocks
<1>1. /\ c.op = "malloc" /\ Fits(size) # {} /\ todo # << >>
      /\ hdr' = Put([hdr EXCEPT ![curr] = Taken(curr, size)], new, Rest(curr, size))
      /\ heap_pointer' = new /\ live' = live \cup {given} /\ heap_current' = heap_current
      /\ heap_tail' = TailAfter(curr, new)
  BY DEF Allocate, Calls, call
<1>2. size \in Nat
  <2>1. c \in HeapCall
    BY <1>1 DEF Protocol, Typed
  <2> QED BY <1>1, <2>1 DEF HeapCall
<1>3. curr \in B /\ hdr[curr].free /\ hdr[curr].size >= size + 1
  <2>1. Fits(size) \in SUBSET Nat
    <3>1. Cardinality(DOMAIN hdr) \in Nat
      BY FS_CardinalityType DEF Sound, Headed
    <3> QED BY <3>1 DEF Fits
  <2>2. Min(Fits(size)) \in Fits(size)
    BY <1>1, <2>1, MinIsIn
  <2>3. Min(Fits(size)) \in Nat /\ Fit(curr, size)
    BY <2>1, <2>2 DEF Fits
  <2>4. heap_pointer \in B /\ Closed(hdr, B)
    BY Found DEF Sound
  <2>5. curr \in B
    BY <2>3, <2>4, StaysIn DEF Visited
  <2> QED BY <2>3, <2>5 DEF Fit
<1> HIDE DEF c, curr
<1>4. /\ Sized(hdr, B) /\ B \subseteq DOMAIN hdr /\ IsTiling(hdr, heap_current, B)
      /\ GivenOut(hdr, B, live) /\ hdr[curr] \in Header /\ curr \in Nat
  BY <1>3, Found DEF Sound
<1>5. /\ DOMAIN hdr \in SUBSET Nat /\ IsFiniteSet(DOMAIN hdr) /\ heap_current \in Nat
      /\ hdr \in [DOMAIN hdr -> Header]
  BY DEF Sound, Headed
<1>6. /\ new \in Nat /\ new # curr
      /\ Taken(curr, size).size = size /\ ~Taken(curr, size).free
      /\ Taken(curr, size).next = new /\ Taken(curr, size) \in Header
  <2>1. new \in Nat /\ new # curr
    BY <1>2, <1>4
  <2>2. Taken(curr, size) = [hdr[curr] EXCEPT !.size = size, !.free = FALSE, !.next = new]
    BY DEF Taken
  <2> HIDE DEF new, size
  <2> QED BY <1>2, <1>4, <2>1, <2>2 DEF Header
<1>7. /\ Rest(curr, size).size = hdr[curr].size - size - 1 /\ Rest(curr, size).free
      /\ Rest(curr, size).next = hdr[curr].next /\ Rest(curr, size) \in Header
  BY <1>2, <1>3, <1>4 DEF Rest, Header
<1>8. /\ DOMAIN hdr' = DOMAIN hdr \cup {new}
      /\ hdr'[curr] = Taken(curr, size) /\ hdr'[new] = Rest(curr, size)
      /\ \A x \in DOMAIN hdr \ {curr, new} : hdr'[x] = hdr[x]
      /\ hdr' = [x \in DOMAIN hdr \cup {new} |-> hdr'[x]]
  BY <1>1, <1>3, <1>4, <1>6 DEF Put
<1>9. new \notin B /\ Sized(hdr', B \cup {new}) /\ IsTiling(hdr', heap_current, B \cup {new})
  <2>0. ASSUME NEW b \in B, b = new PROVE FALSE
    <3>1. b \in Nat /\ curr < b /\ End(hdr, curr) = curr + 1 + hdr[curr].size /\ hdr[curr].size \in Nat
      BY <1>2, <1>3, <1>4, <2>0 DEF End, Sized
    <3>2. End(hdr, curr) <= b
      BY <1>3, <1>4, <3>1 DEF IsTiling
    <3> QED BY <1>2, <1>3, <1>4, <2>0, <3>1, <3>2
  <2>1. \A b \in B \ {curr} : Same(hdr, hdr', b)
    BY <1>4, <1>8, <2>0 DEF Same
  <2>2. new = curr + 1 + size
    OBVIOUS
  <2> HIDE DEF new, size, B
  <2> QED BY <1>2, <1>3, <1>4, <1>6, <1>7, <1>8, <2>1, <2>2, Splitting
<1>10. Headed'
  <2>1. IsFiniteSet(DOMAIN hdr')
    BY <1>5, <1>8, FS_AddElement
  <2>2. \A x \in DOMAIN hdr' : hdr'[x] \in Header
    BY <1>5, <1>6, <1>7, <1>8
  <2> QED BY <1>1, <1>5, <1>6, <1>8, <2>1, <2>2 DEF Headed
<1>11. \A a \in B \ {curr} : hdr'[a] = hdr[a]
  BY <1>4, <1>8, <1>9
<1>12. GivenOut(hdr', B \cup {new}, live')
  <2>1. \A m \in live : m.addr # curr + 1
    <3> SUFFICES ASSUME NEW m \in live, m.addr = curr + 1 PROVE FALSE
      OBVIOUS
    <3>1. PICK a \in B : ~hdr[a].free /\ m.addr = a + 1
      BY <1>4 DEF GivenOut
    <3>2. a \in Nat /\ a = curr
      BY <1>4, <3>1 DEF Sized
    <3> QED BY <1>3, <3>1, <3>2
  <2>2. ASSUME NEW a \in B \cup {new}, ~hdr'[a].free
        PROVE  \E m \in live' : m.addr = a + 1 /\ m.size = hdr'[a].size
    <3>1. a # new
      BY <1>7, <1>8, <2>2
    <3>2. CASE a = curr
      <4>1. given \in live' /\ given.addr = a + 1 /\ given.size = hdr'[a].size
        BY <1>1, <1>6, <1>8, <3>2
      <4> QED BY <4>1
    <3>3. CASE a # curr
      <4>1. a \in B /\ hdr'[a] = hdr[a]
        BY <1>11, <3>1, <3>3
      <4> QED BY <1>1, <1>4, <2>2, <4>1 DEF GivenOut
    <3> QED BY <3>2, <3>3
  <2>3. ASSUME NEW m \in live'
        PROVE  \E a \in B \cup {new} : ~hdr'[a].free /\ m.addr = a + 1 /\ m.size = hdr'[a].size
    <3>1. CASE m = given
      BY <1>3, <1>6, <1>8, <3>1
    <3>2. CASE m \in live
      <4>1. PICK a \in B : ~hdr[a].free /\ m.addr = a + 1 /\ m.size = hdr[a].size
        BY <1>4, <3>2 DEF GivenOut
      <4>2. a # curr
        BY <1>3, <4>1
      <4> QED BY <1>11, <4>1, <4>2
    <3> QED BY <1>1, <3>1, <3>2
  <2>4. ASSUME NEW m \in live', NEW n \in live', m.addr = n.addr PROVE m = n
    <3>1. given.addr = curr + 1
      OBVIOUS
    <3> HIDE DEF given
    <3> QED BY <1>1, <1>4, <2>1, <2>4, <3>1 DEF GivenOut
  <2> QED BY <2>2, <2>3, <2>4 DEF GivenOut
<1>13. hdr' # << >>
  BY <1>8
<1>14. B \cup {new} \subseteq DOMAIN hdr'
  BY <1>4, <1>8
<1>15. given \in live' /\ given.addr = curr + 1 /\ given.task = call.task /\ given.role = call.role
  BY <1>1 DEF c, call
<1>16. Sound' /\ Blocks' = B \cup {new}
  BY <1>1, <1>9, <1>10, <1>12, <1>14, Rebuilt
<1>17. SplitAt(curr, new)
  <2>1. /\ hdr[curr].size \in Nat /\ hdr'[curr].size = size /\ hdr'[curr].next = new
        /\ hdr'[new].size = hdr[curr].size - size - 1 /\ hdr'[new].next = hdr[curr].next
        /\ hdr'[new].free
    BY <1>4, <1>6, <1>7, <1>8 DEF Header
  <2>2. /\ End(hdr', curr) = new /\ End(hdr', new) = End(hdr, curr)
        /\ curr < new /\ new < End(hdr, curr)
    BY <1>2, <1>3, <1>4, <2>1 DEF End
  <2> HIDE DEF new, size
  <2> QED BY <1>1, <1>8, <1>16, <2>1, <2>2 DEF SplitAt
<1> QED BY <1>3, <1>6, <1>13, <1>15, <1>16, <1>17

(* What Expand does to heap_tail, whether or not that is a block.          *)
Grown(more) ==
    /\ more \in Nat
    /\ DOMAIN hdr' = DOMAIN hdr
    /\ hdr'[heap_tail].size = hdr[heap_tail].size + more
    /\ hdr'[heap_tail].next = hdr[heap_tail].next
    /\ hdr'[heap_tail].free = hdr[heap_tail].free /\ hdr'[heap_tail] \in Header
    /\ \A x \in DOMAIN hdr \ {heap_tail} : hdr'[x] = hdr[x]
    /\ hdr' = [x \in DOMAIN hdr |-> hdr'[x]]
    /\ heap_current' = heap_current + more

LEMMA TailGrown ==
    ASSUME Expand, SizesAssumption, call.size \in Nat,
           heap_tail \in DOMAIN hdr, hdr[heap_tail] \in Header
    PROVE  \E more \in Nat : Grown(more)
<1> DEFINE pages == (((call.size - hdr[heap_tail].size) + PAGE - 1) % WIDTH) \div PAGE
           more == pages * PAGE
<1>1. hdr' = [hdr EXCEPT ![heap_tail].size = @ + more] /\ heap_current' = heap_current + more
  BY DEF Expand
<1>2. more \in Nat
  <2>1. PAGE \in Nat \ {0} /\ WIDTH \in Nat \ {0}
    BY DEF SizesAssumption
  <2> DEFINE missing == (call.size - hdr[heap_tail].size) + PAGE - 1
  <2>2. missing \in Int
    BY <2>1 DEF Header
  <2> HIDE DEF missing
  <2>3. missing % WIDTH \in Nat
    BY <2>1, <2>2
  <2> DEFINE n == missing % WIDTH
  <2> HIDE DEF n
  <2>4. n \div PAGE \in Nat
    BY <2>1, <2>3 DEF n
  <2>5. pages \in Nat
    BY <2>4 DEF n, missing
  <2> HIDE DEF pages
  <2> QED BY <2>1, <2>5
<1> HIDE DEF more
<1>3. /\ DOMAIN hdr' = DOMAIN hdr
      /\ hdr'[heap_tail] = [hdr[heap_tail] EXCEPT !.size = @ + more]
      /\ \A x \in DOMAIN hdr \ {heap_tail} : hdr'[x] = hdr[x]
      /\ hdr' = [x \in DOMAIN hdr |-> hdr'[x]]
  BY <1>1
<1> DEFINE old == hdr[heap_tail]
<1> HIDE DEF old
<1>4. old \in Header /\ hdr'[heap_tail] = [old EXCEPT !.size = @ + more]
  BY <1>3 DEF old
<1>5. /\ hdr'[heap_tail].size = old.size + more /\ hdr'[heap_tail].next = old.next
      /\ hdr'[heap_tail].free = old.free /\ hdr'[heap_tail] \in Header
  BY <1>2, <1>4 DEF Header
<1>6. Grown(more)
  BY <1>1, <1>2, <1>3, <1>5 DEF Grown, old
<1> QED BY <1>2, <1>6

LEMMA Expanded ==
    ASSUME Expand, Protocol, Sound, SizesAssumption, broken = "no", broken' = "no"
    PROVE  hdr' # << >> /\ Sound' /\ Blocks' = Blocks
<1> DEFINE B == Blocks
<1>1. /\ heap_tail \in B /\ hdr[heap_tail].next = heap_start
      /\ todo # << >> /\ call.op = "malloc" /\ UNCHANGED <<heap_pointer, live>>
  BY DEF Expand, Expanding, Calls
<1>2. /\ Sized(hdr, B) /\ B \subseteq DOMAIN hdr /\ IsTiling(hdr, heap_current, B)
      /\ GivenOut(hdr, B, live) /\ hdr[heap_tail] \in Header /\ heap_pointer \in B
  BY <1>1, Found DEF Sound
<1>3. /\ DOMAIN hdr \in SUBSET Nat /\ IsFiniteSet(DOMAIN hdr) /\ heap_current \in Nat
      /\ hdr \in [DOMAIN hdr -> Header]
  BY DEF Sound, Headed
<1>4. call.size \in Nat
  <2>1. call \in HeapCall
    BY <1>1 DEF Protocol, Typed, call
  <2> QED BY <1>1, <2>1 DEF HeapCall
<1>5. PICK more \in Nat :
        /\ DOMAIN hdr' = DOMAIN hdr /\ heap_current' = heap_current + more
        /\ hdr'[heap_tail].size = hdr[heap_tail].size + more /\ hdr'[heap_tail].next = heap_start
        /\ hdr'[heap_tail].free = hdr[heap_tail].free /\ hdr'[heap_tail] \in Header
        /\ \A x \in DOMAIN hdr \ {heap_tail} : hdr'[x] = hdr[x]
        /\ hdr' = [x \in DOMAIN hdr |-> hdr'[x]]
  BY <1>1, <1>2, <1>4, TailGrown DEF Grown
<1>6. \A b \in B \ {heap_tail} : Same(hdr, hdr', b)
  BY <1>2, <1>5 DEF Same
<1>7. hdr[heap_tail].free
  BY <1>1, <1>2 DEF IsTiling
<1>8. IsTiling(hdr', heap_current', B)
  <2> HIDE DEF B
  <2> QED BY <1>1, <1>2, <1>3, <1>4, <1>5, <1>6, <1>7, Growing
<1>9. Headed'
  <2>1. \A x \in DOMAIN hdr' : hdr'[x] \in Header
    BY <1>3, <1>5
  <2>2. hdr' \in [DOMAIN hdr' -> Header]
    BY <1>1, <1>5, <2>1
  <2> QED BY <1>1, <1>3, <1>4, <1>5, <2>2 DEF Headed
<1>10. GivenOut(hdr', B, live')
  <2>1. \A b \in B : ~hdr'[b].free => hdr'[b] = hdr[b]
    BY <1>2, <1>5, <1>7
  <2>2. \A b \in B : ~hdr[b].free => hdr'[b] = hdr[b]
    BY <1>2, <1>5, <1>7
  <2>3. live' = live
    BY <1>1
  <2> HIDE DEF B
  <2>4. ASSUME NEW a \in B, ~hdr'[a].free PROVE \E m \in live' : m.addr = a + 1 /\ m.size = hdr'[a].size
    BY <1>2, <2>1, <2>3, <2>4 DEF GivenOut
  <2>5. ASSUME NEW m \in live'
        PROVE  \E a \in B : ~hdr'[a].free /\ m.addr = a + 1 /\ m.size = hdr'[a].size
    <3>1. PICK a \in B : ~hdr[a].free /\ m.addr = a + 1 /\ m.size = hdr[a].size
      BY <1>2, <2>3 DEF GivenOut
    <3> QED BY <2>2, <3>1
  <2> QED BY <1>2, <2>3, <2>4, <2>5 DEF GivenOut
<1>11. hdr' # << >> /\ B \subseteq DOMAIN hdr' /\ heap_pointer' \in B
  BY <1>1, <1>2, <1>5
<1> QED BY <1>8, <1>9, <1>10, <1>11, Rebuilt

(* Each block of E ends where one of B did, and leads where that did.      *)
Ends(g, E, h, B) == \A x \in E : \E y \in B : End(g, x) = End(h, y) /\ g[x].next = h[y].next

Took(h, g, D, current, C, given, a, b) ==
    /\ g \in [D -> Header] /\ IsTiling(g, current, C \ {b}) /\ GivenOut(g, C \ {b}, given)
    /\ g[a].free /\ a # b
    /\ \A x \in C \ {a, b} : Same(h, g, x)
    /\ Ends(g, C \ {b}, h, C)
    /\ \A x \in D : g[x].free = h[x].free

LEMMA Absorbed ==
    ASSUME NEW D \in SUBSET Nat, NEW h \in [D -> Header], NEW current,
           NEW C \in SUBSET D, IsTiling(h, current, C), NEW given, GivenOut(h, C, given),
           NEW a, NEW b, Follow(h, C, a, b), h[a].free, h[b].free
    PROVE  Took(h, Absorb(h, a, b), D, current, C, given, a, b)
<1> DEFINE n == h[b].next
           k == [h EXCEPT ![a].size = @ + h[b].size + 1, ![a].next = n]
           g == [k EXCEPT ![n].prev = a]
           wide == h[a].size + h[b].size + 1
<1>0. a \in C /\ b \in C /\ h[a].next = b /\ b # heap_start
  BY DEF Follow
<1>1. n \in C /\ h[a] \in Header /\ h[b] \in Header /\ a \in Nat /\ a \in D
  BY <1>0 DEF IsTiling
<1>2. wide \in Nat /\ n \in Nat /\ n \in D
  BY <1>1 DEF Header
<1>3. k = [h EXCEPT ![a] = [h[a] EXCEPT !.size = wide, !.next = n]]
  BY <1>1 DEF Header
<1>4. g = Absorb(h, a, b)
  BY DEF Absorb
<1> HIDE DEF n, k, g, wide
<1> DEFINE big == [h[a] EXCEPT !.size = wide, !.next = n]
<1>5. big \in Header /\ big.size = wide /\ big.next = n /\ big.free = h[a].free
  BY <1>1, <1>2 DEF Header
<1> HIDE DEF big
<1>6. k \in [D -> Header] /\ k[a] = big /\ \A x \in D \ {a} : k[x] = h[x]
  BY <1>1, <1>3, <1>5 DEF big
<1> DEFINE tied == [k[n] EXCEPT !.prev = a]
<1>7. /\ tied \in Header /\ tied.size = k[n].size /\ tied.next = k[n].next
      /\ tied.free = k[n].free
  BY <1>1, <1>2, <1>6 DEF Header
<1>8. g = [k EXCEPT ![n] = tied]
  BY <1>2, <1>6 DEF g
<1> HIDE DEF tied
<1>9. g \in [D -> Header] /\ g[n] = tied /\ \A x \in D \ {n} : g[x] = k[x]
  BY <1>2, <1>6, <1>7, <1>8
<1>10. \A x \in D : g[x].size = k[x].size /\ g[x].next = k[x].next /\ g[x].free = k[x].free
  BY <1>7, <1>9
<1>11. g[a].size = h[a].size + h[b].size + 1 /\ g[a].next = h[b].next /\ g[a].free
  BY <1>1, <1>5, <1>6, <1>10 DEF wide, n
<1>12. \A x \in C \ {a} : Same(h, g, x)
  BY <1>6, <1>10 DEF Same
<1>13. Sized(h, C)
  BY DEF Sized, Header
<1>14. IsTiling(g, current, C \ {b}) /\ a # b
  <2>1. Merged(h, g, C, a, b)
    BY <1>11, <1>12 DEF Merged
  <2> QED BY <1>13, <2>1, Merging
<1>15. GivenOut(g, C \ {b}, given)
  <2>1. ASSUME NEW x \in C \ {b}, ~g[x].free PROVE \E m \in given : m.addr = x + 1 /\ m.size = g[x].size
    BY <1>11, <1>12, <2>1 DEF GivenOut, Same
  <2>2. ASSUME NEW m \in given
        PROVE  \E x \in C \ {b} : ~g[x].free /\ m.addr = x + 1 /\ m.size = g[x].size
    <3>1. PICK x \in C : ~h[x].free /\ m.addr = x + 1 /\ m.size = h[x].size
      BY DEF GivenOut
    <3> QED BY <1>12, <3>1 DEF Same
  <2> QED BY <2>1, <2>2 DEF GivenOut
<1>16. \A x \in D : g[x].free = h[x].free
  BY <1>5, <1>6, <1>10
<1>17. Ends(g, C \ {b}, h, C)
  <2> SUFFICES ASSUME NEW x \in C \ {b}
               PROVE  \E y \in C : End(g, x) = End(h, y) /\ g[x].next = h[y].next
    BY DEF Ends
  <2>1. CASE x = a
    <3>1. End(h, a) = b
      BY <1>0 DEF IsTiling, Reaches
    <3>2. h[a].size \in Nat /\ h[b].size \in Nat
      BY <1>0, <1>13 DEF Sized
    <3>3. End(g, a) = End(h, b)
      BY <1>1, <1>11, <3>1, <3>2 DEF End
    <3> QED BY <1>0, <1>11, <2>1, <3>3
  <2>2. CASE x # a
    BY <1>12, <2>2 DEF Same, End
  <2> QED BY <2>1, <2>2
<1> QED BY <1>4, <1>9, <1>11, <1>12, <1>14, <1>15, <1>16, <1>17 DEF Took

(* What becomes of the headers when one is freed.                          *)
FreedOf(g, E) == Ends(g, E, hdr, Blocks) /\ \A x \in DOMAIN hdr : hdr[x].free => g[x].free

LEMMA FreeMade ==
    ASSUME Free, Protocol, Founded, Sound, SlotAssumption, broken = "no", broken' = "no"
    PROVE  hdr' # << >> /\ Sound' /\ FreedOf(hdr', Blocks') /\ DOMAIN hdr' = DOMAIN hdr
<1> DEFINE c == Head(todo)
           used == The(c.role, c.task)
           block == used.addr - 1
           freed == [hdr EXCEPT ![block].free = TRUE]
           n == hdr[block].next
           forward == MergesNext(freed, block)
           h == IF forward THEN Absorb(freed, block, n) ELSE freed
           p == h[block].prev
           B == Blocks
           D == DOMAIN hdr
           left == live \ {used}
           C == IF forward THEN B \ {n} ELSE B
           pointer == IF forward THEN block ELSE heap_pointer
<1>1. /\ c.op = "free" /\ todo # << >> /\ live' = left /\ heap_current' = heap_current
      /\ \E back \in BOOLEAN :
             /\ Readable(p) => back = MergesPrev(h, block)
             /\ p = heap_tail => ~back
             /\ hdr' = IF back THEN Absorb(h, p, block) ELSE h
             /\ heap_pointer' = IF back THEN p ELSE pointer
             /\ broken' = IF back /\ (p \notin B \/ hdr[p].next # block)
                            THEN "prev" ELSE broken
  BY DEF Free, Calls, call
<1>2. used \in live /\ used.task \in Slot
  <2>0. todo \in Seq(HeapCall) /\ todo # << >>
    BY <1>1 DEF Protocol, Typed
  <2>1. todo[1] = c /\ 1 \in DOMAIN todo /\ c \in HeapCall
    BY <2>0
  <2>2. c.task \in Slot
    BY <1>1, <2>1 DEF HeapCall
  <2>3. Has(c.task, c.role)
    BY <1>1, <2>1 DEF Protocol, FreedOnce
  <2>4. used \in live /\ used.task = c.task
    BY <2>3 DEF Has, The
  <2> QED BY <2>2, <2>4
<1> HIDE DEF used
<1>3. /\ D \in SUBSET Nat /\ IsFiniteSet(D) /\ hdr \in [D -> Header] /\ heap_current \in Nat
      /\ B \subseteq D /\ IsTiling(hdr, heap_current, B) /\ GivenOut(hdr, B, live)
      /\ heap_pointer \in B /\ Sized(hdr, B)
  BY Found DEF Sound, Headed
<1>4. block \in B /\ ~hdr[block].free /\ used.size = hdr[block].size
  <2>1. PICK a \in B : ~hdr[a].free /\ used.addr = a + 1 /\ used.size = hdr[a].size
    BY <1>2, <1>3 DEF GivenOut
  <2>2. a \in Nat /\ a = block
    BY <1>3, <2>1
  <2> QED BY <2>1, <2>2
<1>5. block # heap_start
  <2>1. PICK m \in live : m.addr = heap_start + 1 /\ m.task = "boot"
    BY <1>2 DEF Founded
  <2>2. m # used
    BY <1>2, <2>1 DEF SlotAssumption
  <2>3. m.addr # used.addr
    BY <1>2, <1>3, <2>1, <2>2 DEF GivenOut
  <2>4. PICK a \in B : used.addr = a + 1
    BY <1>2, <1>3 DEF GivenOut
  <2>5. a \in Nat
    BY <1>3, <2>4
  <2> QED BY <2>1, <2>3, <2>4, <2>5 DEF heap_start
<1>6. n # block
  <2>1. n # heap_start
    BY <1>3, <1>4 DEF IsTiling
  <2>2. n = block + 1 + hdr[block].size /\ block \in Nat /\ hdr[block].size \in Nat
    BY <1>3, <1>4, <2>1 DEF IsTiling, Reaches, End, Sized
  <2> QED BY <2>2
<1>7. /\ freed \in [D -> Header] /\ freed[block].free
      /\ \A x \in D : freed[x].size = hdr[x].size /\ freed[x].next = hdr[x].next
      /\ \A x \in D \ {block} : freed[x] = hdr[x]
  <2>1. hdr[block] \in Header /\ block \in D
    BY <1>3, <1>4
  <2> HIDE DEF block, D
  <2>2. [hdr[block] EXCEPT !.free = TRUE] \in Header
    BY <2>1 DEF Header
  <2>3. /\ freed[block] = [hdr[block] EXCEPT !.free = TRUE] /\ freed \in [D -> Header]
        /\ \A x \in D \ {block} : freed[x] = hdr[x]
    BY <1>3, <2>1, <2>2 DEF D
  <2> QED BY <2>1, <2>3 DEF Header
<1> HIDE DEF freed
<1>8. IsTiling(freed, heap_current, B)
  <2>1. \A b \in B : /\ freed[b].size = hdr[b].size /\ freed[b].next = hdr[b].next
                     /\ hdr[b].free => freed[b].free
    BY <1>3, <1>7
  <2> HIDE DEF B, block
  <2> QED BY <1>3, <2>1, Freeing
<1>9. GivenOut(freed, B, left)
  <2>1. ASSUME NEW a \in B, ~freed[a].free PROVE \E m \in left : m.addr = a + 1 /\ m.size = freed[a].size
    <3>1. a # block /\ ~hdr[a].free /\ a \in Nat /\ freed[a].size = hdr[a].size
      BY <1>3, <1>7, <2>1
    <3>2. PICK m \in live : m.addr = a + 1 /\ m.size = hdr[a].size
      BY <1>3, <3>1 DEF GivenOut
    <3>3. used.addr = block + 1
      <4>1. PICK b \in B : used.addr = b + 1
        BY <1>2, <1>3 DEF GivenOut
      <4>2. b \in Nat
        BY <1>3, <4>1
      <4> QED BY <4>1, <4>2
    <3>4. block \in Nat
      BY <1>3, <1>4
    <3> HIDE DEF block
    <3>5. m # used
      BY <3>1, <3>2, <3>3, <3>4
    <3> QED BY <3>1, <3>2, <3>5
  <2>2. ASSUME NEW m \in left
        PROVE  \E a \in B : ~freed[a].free /\ m.addr = a + 1 /\ m.size = freed[a].size
    <3>1. PICK a \in B : ~hdr[a].free /\ m.addr = a + 1 /\ m.size = hdr[a].size
      BY <1>3, <2>2 DEF GivenOut
    <3>2. m.addr # used.addr
      BY <1>2, <1>3, <2>2 DEF GivenOut
    <3>3. a # block
      <4>1. PICK b \in B : used.addr = b + 1
        BY <1>2, <1>3 DEF GivenOut
      <4>2. b \in Nat
        BY <1>3, <4>1
      <4> QED BY <3>1, <3>2, <4>1, <4>2
    <3>4. a \in D
      BY <1>3, <3>1
    <3> QED BY <1>7, <3>1, <3>3, <3>4
  <2>3. \A m, k \in left : m.addr = k.addr => m = k
    BY <1>3 DEF GivenOut
  <2> HIDE DEF left, B
  <2> QED BY <2>1, <2>2, <2>3 DEF GivenOut
<1>10. /\ h \in [D -> Header] /\ IsTiling(h, heap_current, C) /\ GivenOut(h, C, left)
       /\ block \in C /\ h[block].free /\ pointer \in C /\ C \subseteq B
       /\ \A x \in C \ {block} : h[x].next = hdr[x].next
       /\ \A x \in B : x < block => x \in C
       /\ FreedOf(h, C)
  <2>0. FreedOf(freed, B)
    <3>1. \A x \in D : hdr[x].free => freed[x].free
      BY <1>7
    <3>2. Ends(freed, B, hdr, B)
      BY <1>3, <1>7 DEF Ends, End
    <3> QED BY <3>1, <3>2 DEF FreedOf
  <2>1. CASE forward
    <3>1. freed[block].next = n
      BY <1>3, <1>4, <1>7
    <3>2. n # heap_start /\ freed[n].free /\ n \in B
      BY <1>3, <1>4, <2>1, <3>1 DEF MergesNext, IsTiling
    <3>3. /\ h = Absorb(freed, block, n) /\ C = B \ {n} /\ pointer = block
      BY <2>1
    <3>4. block < n /\ block \in Nat /\ n \in Nat
      BY <1>3, <1>4, <3>2 DEF IsTiling, Reaches, End, Sized
    <3> HIDE DEF h, C, pointer, n, forward, block
    <3>5. /\ h \in [D -> Header] /\ IsTiling(h, heap_current, C) /\ GivenOut(h, C, left)
          /\ h[block].free /\ block # n /\ \A x \in B \ {block, n} : Same(freed, h, x)
          /\ Ends(h, C, freed, B) /\ \A x \in D : h[x].free = freed[x].free
      <4>1. B \in SUBSET D
        BY <1>3
      <4>2. Follow(freed, B, block, n)
        BY <1>4, <3>1, <3>2 DEF Follow
      <4>3. D \in SUBSET Nat /\ freed \in [D -> Header] /\ freed[block].free /\ freed[n].free
        BY <1>3, <1>7, <3>2
      <4> HIDE DEF D, B, left
      <4>4. Took(freed, h, D, heap_current, B, left, block, n)
        BY <1>8, <1>9, <3>3, <4>1, <4>2, <4>3, Absorbed
      <4> QED BY <3>3, <4>4 DEF Took
    <3>6. \A x \in C \ {block} : h[x].next = hdr[x].next
      BY <1>3, <1>7, <3>3, <3>5 DEF Same
    <3>7. \A x \in B : x < block => x \in C
      BY <1>3, <3>3, <3>4
    <3>8. FreedOf(h, C)
      BY <2>0, <3>5 DEF FreedOf, Ends
    <3> QED BY <1>4, <3>3, <3>5, <3>6, <3>7, <3>8
  <2>2. CASE ~forward
    <3>1. h = freed /\ C = B /\ pointer = heap_pointer
      BY <2>2
    <3> HIDE DEF h, C, pointer, n, forward, block
    <3> QED BY <1>3, <1>4, <1>7, <1>8, <1>9, <2>0, <3>1
  <2> QED BY <2>1, <2>2
<1> HIDE DEF h, C, pointer, forward, n, block
<1>11. PICK back \in BOOLEAN :
             /\ Readable(p) => back = MergesPrev(h, block)
             /\ hdr' = IF back THEN Absorb(h, p, block) ELSE h
             /\ heap_pointer' = IF back THEN p ELSE pointer
             /\ broken' = IF back /\ (p \notin B \/ hdr[p].next # block) THEN "prev" ELSE broken
  BY <1>1
<1>12. ASSUME NEW E \in SUBSET B, hdr' \in [D -> Header], IsTiling(hdr', heap_current, E),
              heap_pointer' \in E, GivenOut(hdr', E, left), FreedOf(hdr', E)
       PROVE  hdr' # << >> /\ Sound' /\ FreedOf(hdr', Blocks') /\ DOMAIN hdr' = D
  <2>1. DOMAIN hdr' = D
    BY <1>12
  <2>2. Headed'
    BY <1>1, <1>3, <1>12, <2>1 DEF Headed
  <2>3. E \subseteq DOMAIN hdr' /\ hdr' # << >>
    BY <1>3, <1>12, <2>1
  <2>4. Sound' /\ Blocks' = E
    BY <1>1, <1>12, <2>2, <2>3, Rebuilt
  <2> QED BY <1>12, <2>1, <2>3, <2>4
<1>13. CASE ~back
  <2>1. hdr' = h /\ heap_pointer' = pointer
    BY <1>11, <1>13
  <2> QED BY <1>10, <1>12, <2>1
<1>14. CASE back
  <2>1. p \in B /\ hdr[p].next = block /\ hdr' = Absorb(h, p, block) /\ heap_pointer' = p
    BY <1>11, <1>14
  <2> HIDE DEF p
  <2>2. p < block /\ p \in C /\ p # block
    <3>1. p < block
      BY <1>3, <1>5, <2>1 DEF IsTiling, Reaches, End, Sized
    <3> QED BY <1>3, <1>10, <2>1, <3>1
  <2>3. Readable(p)
    <3> SUFFICES ASSUME NEW m \in live, p \in m.addr .. m.addr + m.size - 1 PROVE FALSE
      BY <1>3, <2>1 DEF Readable
    <3>1. PICK a \in B : m.addr = a + 1 /\ m.size = hdr[a].size
      BY <1>3 DEF GivenOut
    <3>2. a \in Nat /\ hdr[a].size \in Nat /\ p \in Nat
      BY <1>3, <2>1, <3>1 DEF Sized
    <3>3. a < p /\ p < a + 1 + hdr[a].size
      BY <3>1, <3>2
    <3>4. a + 1 + hdr[a].size <= p
      BY <1>3, <2>1, <3>1, <3>3 DEF IsTiling, End
    <3> QED BY <3>2, <3>3, <3>4
  <2>4. h[p].free
    BY <1>11, <1>14, <2>3 DEF MergesPrev, p
  <2>5. h[p].next = block
    BY <1>10, <2>1, <2>2
  <2>6. C \in SUBSET D
    BY <1>3, <1>10
  <2>7. /\ hdr' \in [D -> Header] /\ IsTiling(hdr', heap_current, C \ {block})
        /\ GivenOut(hdr', C \ {block}, left) /\ FreedOf(hdr', C \ {block})
    <3>1. Follow(h, C, p, block)
      BY <1>5, <1>10, <2>2, <2>5 DEF Follow
    <3>2. D \in SUBSET Nat /\ h \in [D -> Header] /\ h[block].free
      BY <1>3, <1>10
    <3>3. IsTiling(h, heap_current, C) /\ GivenOut(h, C, left)
      BY <1>10
    <3> HIDE DEF D, B, left
    <3>4. Took(h, hdr', D, heap_current, C, left, p, block)
      BY <2>1, <2>4, <2>6, <3>1, <3>2, <3>3, Absorbed
    <3>5. FreedOf(hdr', C \ {block})
      <4>1. /\ \A x \in D : hdr'[x].free = h[x].free
            /\ Ends(hdr', C \ {block}, h, C)
        BY <3>4 DEF Took
      <4>2. /\ \A x \in D : hdr[x].free => h[x].free
            /\ Ends(h, C, hdr, B)
        BY <1>10 DEF FreedOf, D, B
      <4>3. Ends(hdr', C \ {block}, hdr, B)
        BY <4>1, <4>2 DEF Ends
      <4> QED BY <4>1, <4>2, <4>3 DEF FreedOf, D, B
    <3> QED BY <3>4, <3>5 DEF Took
  <2> QED BY <1>10, <1>12, <2>1, <2>2, <2>7
<1> QED BY <1>13, <1>14

-----------------------------------------------------------------------------
(* Whatever the kernel does next, the invariant holds again.               *)
LEMMA ClientStep ==
    ASSUME Protocol, Founded, SizesAssumption, hdr # << >> => Sound, [Next]_vars
    PROVE  Protocol'
<1>0. ASSUME NEW op, Calls(op) PROVE todo # << >> /\ Head(todo).op = op /\ call = Head(todo)
  BY <1>0 DEF Calls, call
<1>1. CASE FirstPage \/ Expand \/ display_heap_data \/ UNCHANGED vars
  <2>1. UNCHANGED <<todo, live, running, dead>>
    BY <1>1 DEF FirstPage, Expand, display_heap_data, vars, client
  <2> QED BY <2>1, Untouched
<1>2. CASE Allocate
  <2>1. hdr # << >> /\ Calls("malloc") /\ todo' = Tail(todo) /\ UNCHANGED <<running, dead>> /\ live \subseteq live'
    BY <1>2 DEF Allocate, client
  <2>2. PICK c : c = Head(todo)
    OBVIOUS
  <2>3. \A t, role : Has(t, role) => Has(t, role)'
    BY <2>1 DEF Has
  <2>4. Has(c.task, c.role)'
    BY <1>2, <2>1, <2>2, Allocated DEF Has, call
  <2> QED BY <1>0, <2>1, <2>2, <2>3, <2>4, Dropped
<1>3. CASE Free
  <2>1. /\ Calls("free") /\ todo' = Tail(todo) /\ UNCHANGED <<running, dead>>
        /\ live' = live \ {The(call.role, call.task)}
    BY <1>3 DEF Free, client
  <2>2. PICK c : c = Head(todo)
    OBVIOUS
  <2>3. c.op = "free" /\ todo # << >>
    BY <1>0, <2>1, <2>2
  <2>4. Has(c.task, c.role)
    <3>1. todo \in Seq(HeapCall)
      BY DEF Protocol, Typed
    <3>2. 1 \in DOMAIN todo /\ todo[1] = c
      BY <2>2, <2>3, <3>1
    <3> QED BY <2>3, <3>2 DEF Protocol, FreedOnce
  <2>5. PICK used : used = The(c.role, c.task)
    OBVIOUS
  <2>6. used.task = c.task /\ used.role = c.role /\ live' = live \ {used}
    BY <2>1, <2>2, <2>4, <2>5 DEF Has, The, call
  <2>7. \A t, role : Has(t, role) /\ ~IsCall(c, "free", t, role) => Has(t, role)'
    BY <2>3, <2>6 DEF Has, IsCall
  <2> QED BY <2>1, <2>2, <2>3, <2>7, Dropped
<1>4. CASE LinkWindow \/ UnlinkWindow
  <2>1. /\ todo # << >> /\ Head(todo).op \in {"link", "unlink"} /\ todo' = Tail(todo)
        /\ UNCHANGED <<live, running, dead>>
    BY <1>4 DEF LinkWindow, UnlinkWindow, Links, Calls, call, client
  <2>2. PICK c : c = Head(todo)
    OBVIOUS
  <2>3. \A t, role : Has(t, role) => Has(t, role)'
    BY <2>1 DEF Has
  <2> QED BY <2>1, <2>2, <2>3, Dropped
<1>5. CASE Exit
  BY <1>5, ProgramExits
<1>6. ASSUME NEW t \in Slot, Reap(t) PROVE Protocol'
  BY <1>6, ReaperComes
<1>7. ASSUME NEW p \in Program, NEW t \in Slot, Start(p, t) PROVE Protocol'
  BY <1>7, ProgramStarts
<1> QED BY <1>1, <1>2, <1>3, <1>4, <1>5, <1>6, <1>7 DEF Next

LEMMA FoundedStep ==
    ASSUME Protocol, Founded, SizesAssumption, SlotAssumption, hdr # << >> => Sound, [Next]_vars,
           broken = "no", broken' = "no"
    PROVE  Founded'
<1>1. CASE live # {}
  <2>1. PICK m \in live : m.addr = heap_start + 1 /\ m.task = "boot"
    BY <1>1 DEF Founded
  <2>2. m \in live'
    <3>1. CASE Free
      <4>1. /\ call.op = "free" /\ todo # << >> /\ live' = live \ {The(call.role, call.task)}
        BY <3>1 DEF Free, Calls
      <4>2. todo \in Seq(HeapCall)
        BY DEF Protocol, Typed
      <4>3. 1 \in DOMAIN todo /\ todo[1] = call /\ call \in HeapCall
        BY <4>1, <4>2 DEF call
      <4>4. call.task \in Slot /\ Has(call.task, call.role)
        BY <4>1, <4>3 DEF Protocol, FreedOnce, HeapCall
      <4>5. The(call.role, call.task).task = call.task
        BY <4>4 DEF Has, The
      <4> QED BY <2>1, <4>1, <4>4, <4>5 DEF SlotAssumption
    <3>2. CASE ~Free
      BY <3>2 DEF Next, vars, client, FirstPage, Allocate, Expand, LinkWindow, UnlinkWindow, Links,
                  Exit, display_heap_data, Reap, Start
    <3> QED BY <3>1, <3>2
  <2>3. live' # {}
    BY <2>2
  <2> QED BY <2>1, <2>2, <2>3 DEF Founded
<1>2. CASE live = {}
  <2>1. todo # << >> /\ call.op = "malloc" /\ call.task = "boot" /\ (hdr # << >> => Blocks = {heap_start})
    BY <1>2 DEF Founded
  <2>2. \A t, role : ~Has(t, role)
    BY <1>2 DEF Has
  <2>3. CASE FirstPage
    <3>1. live' = {} /\ todo' = todo /\ Blocks' = {heap_start}
      BY <1>2, <2>3, FirstPageMade DEF FirstPage
    <3> QED BY <2>1, <3>1 DEF Founded, call
  <2>4. CASE Expand
    <3>1. live' = {} /\ todo' = todo /\ hdr # << >>
      BY <1>2, <2>4 DEF Expand, Expanding
    <3>2. Blocks' = {heap_start}
      BY <2>1, <2>4, <3>1, Expanded
    <3> QED BY <2>1, <3>1, <3>2 DEF Founded, call
  <2>5. CASE Allocate
    <3>1. hdr # << >>
      BY <2>5 DEF Allocate
    <3>2. PICK a \in Blocks, m \in live' : m.addr = a + 1 /\ m.task = call.task
      BY <2>5, <3>1, Allocated
    <3>3. a = heap_start /\ live' # {}
      BY <2>1, <3>1, <3>2
    <3> QED BY <2>1, <3>2, <3>3 DEF Founded
  <2>6. CASE UNCHANGED vars \/ display_heap_data
    <3>1. UNCHANGED <<live, todo, hdr>>
      BY <2>6 DEF vars, blocks, display_heap_data
    <3>2. Blocks' = Blocks
      BY <3>1 DEF Blocks
    <3> QED BY <1>2, <2>1, <3>1, <3>2 DEF Founded, call
  <2>7. ~Free /\ ~LinkWindow /\ ~UnlinkWindow /\ ~Exit
    BY <2>1 DEF Free, LinkWindow, UnlinkWindow, Calls, Exit
  <2>8. \A t \in Slot : ~Reap(t)
    BY <2>2 DEF Reap, Protocol, Unreaped
  <2>9. \A p \in Program, t \in Slot : ~Start(p, t)
    BY <2>1 DEF Start
  <2> QED BY <2>3, <2>4, <2>5, <2>6, <2>7, <2>8, <2>9 DEF Next
<1> QED BY <1>1, <1>2

LEMMA HeapStep ==
    ASSUME HeapInvariant, [Next]_vars, SizesAssumption, SlotAssumption
    PROVE  HeapInvariant'
<1> SUFFICES ASSUME broken' = "no"
             PROVE  /\ Protocol' /\ Founded'
                    /\ hdr' = << >> => live' = {}
                    /\ hdr' # << >> => Sound'
  BY DEF HeapInvariant
<1>1. broken = "no"
  BY DEF Next, vars, FirstPage, Allocate, Expand, Free, LinkWindow, UnlinkWindow, Links,
         Exit, display_heap_data, Reap, Start, Works, Calls
<1>2. /\ Protocol /\ Founded
      /\ hdr = << >> => live = {}
      /\ hdr # << >> => Sound
  BY <1>1 DEF HeapInvariant
<1>3. Protocol' /\ Founded'
  BY <1>1, <1>2, ClientStep, FoundedStep
<1>4. CASE FirstPage
  <2>1. hdr = << >>
    BY <1>4 DEF FirstPage, FirstBlock
  <2> QED BY <1>2, <1>3, <1>4, <2>1, FirstPageMade
<1>5. CASE Allocate
  <2>1. hdr # << >>
    BY <1>5 DEF Allocate
  <2> QED BY <1>2, <1>3, <1>5, <2>1, Allocated
<1>6. CASE Expand
  <2>1. hdr # << >>
    BY <1>6 DEF Expand, Expanding
  <2> QED BY <1>1, <1>2, <1>3, <1>6, <2>1, Expanded
<1>7. CASE Free
  <2>1. hdr # << >>
    <3>1. /\ call.op = "free" /\ todo # << >>
      BY <1>7 DEF Free, Calls
    <3> QED BY <1>2, <3>1 DEF Founded
  <2> QED BY <1>1, <1>2, <1>3, <1>7, <2>1, FreeMade
<1>8. CASE ~(FirstPage \/ Allocate \/ Expand \/ Free)
  <2>1. UNCHANGED <<hdr, heap_pointer, heap_current, live>>
    BY <1>8 DEF Next, vars, blocks, LinkWindow, UnlinkWindow, Links, Exit, display_heap_data, Reap, Start
  <2>2. Sound => Sound'
    BY <2>1 DEF Sound, Headed, Blocks
  <2> QED BY <1>2, <1>3, <2>1, <2>2
<1> QED BY <1>3, <1>4, <1>5, <1>6, <1>7, <1>8

(* The invariant of the heap: what is allocated by whom, and a tiling of   *)
(* it by headers that next reaches, of which only next, size and free are  *)
(* up to date.                                                             *)
THEOREM HeapInvariance == Spec => []HeapInvariant
<1>1. Init => HeapInvariant
  <2> SUFFICES ASSUME Init PROVE HeapInvariant
    OBVIOUS
  <2>1. /\ hdr = << >> /\ live = {} /\ running = << >> /\ dead = {}
        /\ todo = [k \in 1 .. 2 * Boot |-> IF k % 2 = 1 THEN malloc("boot", "tcb", TCB)
                                                      ELSE malloc("boot", "stack", STACK)]
    BY DEF Init, NoHeap
  <2>2. Boot \in Nat \ {0} /\ TCB \in Nat /\ STACK \in Nat
    BY SizesAssumption DEF SizesAssumption
  <2>3. malloc("boot", "tcb", TCB) \in HeapCall /\ malloc("boot", "stack", STACK) \in HeapCall
    BY <2>2 DEF malloc, HeapCall, Owner, Role
  <2>4. 2 * Boot \in Nat /\ 1 \in 1 .. 2 * Boot
    BY <2>2
  <2>5. todo \in Seq(HeapCall) /\ DOMAIN todo = 1 .. 2 * Boot /\ Len(todo) = 2 * Boot
    BY <2>1, <2>3, <2>4
  <2>6. \A k \in DOMAIN todo : todo[k].op = "malloc" /\ todo[k].task = "boot"
    BY <2>1 DEF malloc
  <2>7. todo # << >> /\ call = todo[1] /\ 1 \in DOMAIN todo
    BY <2>4, <2>5 DEF call
  <2>8. Founded
    BY <2>1, <2>6, <2>7 DEF Founded
  <2>9. Typed
    BY <2>1, <2>5 DEF Typed
  <2>10. FreedOnce
    BY <2>6 DEF FreedOnce
  <2>11. Unreaped /\ Furnished
    BY <2>1 DEF Unreaped, Furnished
  <2> QED BY <2>1, <2>8, <2>9, <2>10, <2>11 DEF HeapInvariant, Protocol
<1>2. HeapInvariant /\ [Next]_vars => HeapInvariant'
  BY HeapStep, SizesAssumption, SlotAssumption
<1> QED BY <1>1, <1>2, PTL DEF Spec

(* The blocks tile the heap and the occupied ones are what was given out:  *)
(* no two allocations overlap and no byte is lost, for any sizes of pages, *)
(* of what is allocated, and any number of programs, until a stale link is *)
(* used (my_malloc, my_free and sbrk of mem_mgr.c).                        *)
THEOREM HeapStaysTiled == Spec => []HeapTiled
<1>1. HeapInvariant => HeapTiled
  BY DEF HeapInvariant, HeapTiled, Tiled, Sound, IsTiling
<1> QED BY <1>1, HeapInvariance, PTL

-----------------------------------------------------------------------------
(* The last block of a tiling is the uppermost.                            *)
LEMMA LastIsTop ==
    ASSUME NEW h, NEW current, NEW B, IsTiling(h, current, B), Sized(h, B),
           NEW last \in B, h[last].next = heap_start, NEW b \in B
    PROVE  b <= last
<1>1. \A a \in B : a \in Nat /\ h[a].size \in Nat
  BY DEF Sized
<1> SUFFICES ASSUME last < b PROVE FALSE
  BY <1>1
<1> DEFINE U == {x \in B : last < x}
<1>2. U \in SUBSET Nat /\ U # {}
  BY <1>1
<1>3. PICK x \in U : \A y \in U : x <= y
  BY <1>2, Least
<1>4. x # heap_start
  BY <1>1, <1>3 DEF heap_start
<1>5. PICK d \in B : h[d].next = x
  BY <1>3, <1>4 DEF IsTiling
<1>6. d < x
  BY <1>4, <1>5, NextAbove
<1>7. d # last /\ ~(last < d)
  BY <1>1, <1>3, <1>4, <1>5, <1>6
<1>8. d < last
  BY <1>1, <1>7
<1>9. d + 1 + h[d].size <= last /\ d + 1 + h[d].size = x
  BY <1>4, <1>5, <1>8 DEF IsTiling, Reaches, End
<1> QED BY <1>1, <1>3, <1>9

(* What the tail is at is nobody's.                                        *)
LEMMA TailFree ==
    ASSUME Sound, TailInLast
    PROVE  Readable(heap_tail) /\ hdr[heap_tail].free
<1>1. heap_tail \in DOMAIN hdr /\ hdr[heap_tail].free /\ heap_tail \in Nat
  BY DEF TailInLast, Sound, Headed
<1>2. ASSUME NEW m \in live, heap_tail \in m.addr .. m.addr + m.size - 1 PROVE FALSE
  <2>1. PICK a \in Blocks : ~hdr[a].free /\ m.addr = a + 1 /\ m.size = hdr[a].size
    BY DEF Sound, GivenOut
  <2>2. a \in Nat /\ hdr[a].size \in Nat
    BY <2>1, Found DEF Sized
  <2>3. hdr[a].next # heap_start
    BY <2>1 DEF Sound, IsTiling
  <2>4. End(hdr, a) <= heap_tail
    BY <2>1, <2>3 DEF TailInLast
  <2>5. a + 1 + hdr[a].size <= heap_tail
    BY <2>4 DEF End
  <2>6. heap_tail <= a + 1 + hdr[a].size - 1
    BY <1>1, <1>2, <2>1, <2>2
  <2> QED BY <1>1, <2>2, <2>5, <2>6
<1> QED BY <1>1, <1>2 DEF Readable

LEMMA ChainSame ==
    ASSUME NEW h, NEW g, NEW B, NEW a \in B, Closed(h, B),
           \A x \in B : g[x].next = h[x].next
    PROVE  \A k \in Nat : Chain(g, a)[k] = Chain(h, a)[k]
<1> DEFINE T == {k \in Nat : Chain(g, a)[k] = Chain(h, a)[k]}
<1>1. Closed(g, B)
  BY DEF Closed
<1>2. \A k \in Nat : Chain(h, a)[k] \in B
  BY StaysIn
<1>3. 0 \in T
  BY <1>1, Unroll
<1>4. \A k \in Nat : k \in T => k + 1 \in T
  <2> SUFFICES ASSUME NEW k \in Nat, k \in T PROVE k + 1 \in T
    OBVIOUS
  <2>1. Chain(g, a)[k + 1] = g[Chain(g, a)[k]].next
    BY <1>1, Unroll
  <2>2. Chain(h, a)[k + 1] = h[Chain(h, a)[k]].next
    BY Unroll
  <2>3. g[Chain(g, a)[k]].next = h[Chain(h, a)[k]].next
    BY <1>2
  <2> QED BY <2>1, <2>2, <2>3
<1> HIDE DEF T
<1>5. Nat \subseteq T
  BY <1>3, <1>4, Induct
<1> QED BY <1>5 DEF T

LEMMA TailAtFirst ==
    ASSUME FirstPage, live = {}, SizesAssumption
    PROVE  TailInLast'
<1>1. Blocks' = {heap_start}
  BY FirstPageMade
<1>2. /\ heap_tail' = heap_start /\ DOMAIN hdr' = {heap_start}
      /\ hdr'[heap_start].free /\ hdr'[heap_start].next = heap_start
  <2> DEFINE header == [size |-> PAGE - 1, free |-> TRUE, next |-> heap_start, prev |-> heap_start]
  <2>1. heap_tail' = heap_start /\ DOMAIN hdr = {} /\ hdr' = Put(hdr, heap_start, header)
    BY DEF FirstPage, FirstBlock
  <2>2. header.free /\ header.next = heap_start
    OBVIOUS
  <2> HIDE DEF header
  <2> QED BY <2>1, <2>2 DEF Put
<1> QED BY <1>1, <1>2 DEF TailInLast

(* A split either moves heap_tail to the new last block, or is below it.   *)
LEMMA TailAllocates ==
    ASSUME Allocate, Protocol, Sound, TailInLast
    PROVE  TailInLast'
<1>1. Sound'
  BY Allocated
<1>2. PICK curr \in Blocks, new \in Nat : SplitAt(curr, new)
  BY Allocated
<1>3. /\ Blocks' = Blocks \cup {new} /\ DOMAIN hdr' = DOMAIN hdr \cup {new}
      /\ End(hdr', curr) = new /\ hdr'[curr].next = new
      /\ End(hdr', new) = End(hdr, curr) /\ hdr'[new].next = hdr[curr].next /\ hdr'[new].free
      /\ curr < new /\ new < End(hdr, curr)
      /\ \A x \in DOMAIN hdr \ {curr, new} : hdr'[x] = hdr[x]
      /\ heap_tail' = TailAfter(curr, new)
  BY <1>2 DEF SplitAt
<1>4. Sized(hdr, Blocks) /\ Blocks \subseteq DOMAIN hdr /\ DOMAIN hdr \in SUBSET Nat
  BY Found DEF Sound, Headed
<1>5. heap_tail \in DOMAIN hdr /\ hdr[heap_tail].free /\ heap_tail \in Nat
  BY <1>4 DEF TailInLast
<1>6. CASE hdr[curr].next = heap_start
  <2>1. heap_tail' = new /\ hdr'[new].next = heap_start
    BY <1>3, <1>6 DEF TailAfter
  <2>2. /\ IsTiling(hdr', heap_current', Blocks') /\ Sized(hdr', Blocks')
    BY <1>1 DEF Sound, Headed, Sized, Header
  <2>3. ASSUME NEW a \in Blocks', hdr'[a].next # heap_start PROVE End(hdr', a) <= new
    <3>1. new \in Blocks' /\ a \in Nat /\ a # new
      BY <1>3, <2>1, <2>2, <2>3 DEF Sized
    <3>2. a <= new
      BY <2>1, <2>2, <3>1, LastIsTop
    <3>3. a < new
      BY <3>1, <3>2
    <3> QED BY <2>2, <3>1, <3>3 DEF IsTiling
  <2> QED BY <1>3, <2>1, <2>3 DEF TailInLast
<1>7. CASE hdr[curr].next # heap_start
  <2>1. heap_tail' = heap_tail /\ End(hdr, curr) <= heap_tail
    BY <1>2, <1>3, <1>7 DEF TailAfter, TailInLast
  <2>2. curr \in Nat /\ hdr[curr].size \in Nat
    BY <1>4 DEF Sized
  <2>3. End(hdr, curr) \in Nat
    BY <2>2 DEF End
  <2>4. heap_tail # curr /\ heap_tail # new /\ new <= heap_tail
    BY <1>3, <1>5, <2>1, <2>2, <2>3
  <2>5. heap_tail \in DOMAIN hdr' /\ hdr'[heap_tail].free
    BY <1>3, <1>5, <2>4
  <2>6. ASSUME NEW a \in Blocks', hdr'[a].next # heap_start PROVE End(hdr', a) <= heap_tail
    <3>1. CASE a = curr
      BY <1>3, <2>4, <3>1
    <3>2. CASE a = new
      BY <1>3, <2>1, <3>2
    <3>3. CASE a # curr /\ a # new
      <4>1. a \in Blocks /\ hdr'[a] = hdr[a]
        BY <1>3, <1>4, <3>3
      <4> QED BY <2>6, <4>1 DEF TailInLast, End
    <3> QED BY <3>1, <3>2, <3>3
  <2> QED BY <2>1, <2>5, <2>6 DEF TailInLast
<1> QED BY <1>6, <1>7

LEMMA TailFrees ==
    ASSUME Free, Protocol, Founded, Sound, SlotAssumption, broken = "no", broken' = "no", TailInLast
    PROVE  TailInLast'
<1>1. FreedOf(hdr', Blocks') /\ DOMAIN hdr' = DOMAIN hdr
  BY FreeMade
<1>2. heap_tail' = heap_tail
  BY DEF Free
<1>3. heap_tail \in DOMAIN hdr' /\ hdr'[heap_tail].free
  BY <1>1 DEF FreedOf, TailInLast
<1>4. ASSUME NEW a \in Blocks', hdr'[a].next # heap_start PROVE End(hdr', a) <= heap_tail
  <2>1. PICK b \in Blocks : End(hdr', a) = End(hdr, b) /\ hdr'[a].next = hdr[b].next
    BY <1>1 DEF FreedOf, Ends
  <2> QED BY <1>4, <2>1 DEF TailInLast
<1> QED BY <1>2, <1>3, <1>4 DEF TailInLast

LEMMA TailExpands ==
    ASSUME Expand, Protocol, Sound, SizesAssumption, broken = "no", broken' = "no", TailInLast
    PROVE  TailInLast'
<1>1. Blocks' = Blocks
  BY Expanded
<1>2. /\ heap_tail' = heap_tail /\ heap_tail \in Blocks /\ hdr[heap_tail].next = heap_start
      /\ todo # << >> /\ call.op = "malloc"
  BY DEF Expand, Expanding, Calls
<1>3. heap_tail \in DOMAIN hdr /\ hdr[heap_tail] \in Header /\ Blocks \subseteq DOMAIN hdr
  BY <1>2, Found
<1>4. call.size \in Nat
  <2>1. call \in HeapCall
    BY <1>2 DEF Protocol, Typed, call
  <2> QED BY <1>2, <2>1 DEF HeapCall
<1>5. PICK more \in Nat : Grown(more)
  BY <1>3, <1>4, TailGrown
<1>6. heap_tail \in DOMAIN hdr' /\ hdr'[heap_tail].free
  BY <1>3, <1>5 DEF Grown, TailInLast
<1>7. ASSUME NEW a \in Blocks, hdr'[a].next # heap_start PROVE End(hdr', a) <= heap_tail
  <2>1. a # heap_tail
    BY <1>2, <1>5, <1>7 DEF Grown
  <2>2. hdr'[a] = hdr[a]
    BY <1>3, <1>5, <2>1 DEF Grown
  <2> QED BY <1>7, <2>2 DEF TailInLast, End
<1> QED BY <1>1, <1>2, <1>6, <1>7 DEF TailInLast

(* To grow a free header that is no block changes neither the blocks nor   *)
(* what fits.                                                              *)
LEMMA GrownAside ==
    ASSUME Expand, SizesAssumption, depth \in Nat, call.size \in Nat,
           hdr[heap_tail] \in Header, Readable(heap_tail), hdr[heap_tail].free,
           heap_tail \notin Blocks, {heap_start, heap_pointer} \subseteq Blocks,
           Blocks \subseteq DOMAIN hdr, Closed(hdr, Blocks)
    PROVE  Stuck'
<1>1. /\ todo # << >> /\ call.op = "malloc" /\ hdr # << >> /\ Fits(call.size) = {}
      /\ UNCHANGED <<todo, live, heap_tail, heap_pointer>> /\ depth' = depth + 1
  BY DEF Expand, Expanding, Calls
<1>2. heap_tail \in DOMAIN hdr
  BY DEF Readable
<1>3. PICK more \in Nat : Grown(more)
  BY <1>2, TailGrown
<1>4. /\ DOMAIN hdr' = DOMAIN hdr /\ hdr'[heap_tail].free /\ hdr'[heap_tail] \in Header
      /\ \A x \in Blocks : hdr'[x] = hdr[x]
  BY <1>3 DEF Grown
<1>5. \A x \in Blocks : hdr'[x].next = hdr[x].next
  BY <1>4
<1>6. \A k \in Nat : Chain(hdr', heap_start)[k] = Chain(hdr, heap_start)[k]
  <2> DEFINE B == Blocks
  <2>1. heap_start \in B /\ Closed(hdr, B) /\ \A x \in B : hdr'[x].next = hdr[x].next
    BY <1>5
  <2> HIDE DEF B
  <2> QED BY <2>1, ChainSame
<1>7. \A k \in Nat : /\ Chain(hdr', heap_pointer)[k] = Chain(hdr, heap_pointer)[k]
                     /\ Chain(hdr, heap_pointer)[k] \in Blocks
  <2> DEFINE B == Blocks
  <2>1. heap_pointer \in B /\ Closed(hdr, B) /\ \A x \in B : hdr'[x].next = hdr[x].next
    BY <1>5
  <2> HIDE DEF B
  <2> QED BY <2>1, ChainSame, StaysIn
<1>8. \A k \in 0 .. Cardinality(DOMAIN hdr) : k \in Nat
  OBVIOUS
<1>9. Blocks' = Blocks
  BY <1>4, <1>6, <1>8 DEF Blocks, BlocksOf
<1>10. Fits(call.size)' = {}
  <2> SUFFICES ASSUME NEW k \in 0 .. Cardinality(DOMAIN hdr), Fit(Visited[k], call.size)' PROVE FALSE
    BY <1>4 DEF Fits
  <2>1. Visited'[k] = Visited[k] /\ Visited[k] \in Blocks
    BY <1>1, <1>7, <1>8 DEF Visited
  <2>2. call' = call
    BY <1>1 DEF call
  <2>3. Fit(Visited[k], call.size)
    BY <1>4, <2>1, <2>2 DEF Fit
  <2> QED BY <1>1, <2>3 DEF Fits
<1>11. \A x \in Blocks' : hdr'[x].next \in Blocks'
  BY <1>4, <1>9 DEF Closed
<1>12. hdr' # << >>
  BY <1>2, <1>4
<1>13. Readable(heap_tail)'
  BY <1>1, <1>4 DEF Readable
<1>14. todo' # << >> /\ call'.op = "malloc" /\ call'.size \in Nat /\ depth' > 0
  BY <1>1 DEF call
<1>15. /\ heap_tail' \notin Blocks' /\ {heap_start, heap_pointer'} \subseteq Blocks'
       /\ Blocks' \subseteq DOMAIN hdr' /\ hdr'[heap_tail'] \in Header /\ hdr'[heap_tail'].free
  BY <1>1, <1>4, <1>9
<1> QED BY <1>10, <1>11, <1>12, <1>13, <1>14, <1>15 DEF Stuck

(* Once something has gone wrong, nothing more happens but my_malloc       *)
(* calling itself.                                                         *)
LEMMA NoWayOut ==
    ASSUME TailInvariant, [Next]_vars, broken # "no"
    PROVE  FirstPage \/ Expand \/ display_heap_data \/ UNCHANGED vars
<1>1. CASE broken = "tail"
  <2>1. /\ todo # << >> /\ call.op = "malloc" /\ call.size \in Nat /\ depth \in Nat /\ depth > 0
        /\ hdr # << >> /\ Fits(call.size) = {}
    BY <1>1 DEF TailInvariant, Stuck
  <2>2. ~Allocate /\ ~Free /\ ~LinkWindow /\ ~UnlinkWindow /\ ~Exit
    BY <2>1 DEF Allocate, Free, LinkWindow, UnlinkWindow, Exit, Calls
  <2>3. \A t \in Slot : ~Reap(t) /\ \A p \in Program : ~Start(p, t)
    BY <2>1 DEF Reap, Start
  <2> QED BY <2>2, <2>3 DEF Next
<1>2. CASE broken # "tail"
  <2>1. ~Works
    BY <1>2 DEF Works
  <2> QED BY <2>1 DEF Next, FirstPage, Allocate, Expand, Free, LinkWindow, UnlinkWindow, Exit,
                      display_heap_data, Reap, Start, Calls
<1> QED BY <1>1, <1>2

LEMMA TailStep ==
    ASSUME HeapInvariant, TailInvariant, [Next]_vars, SizesAssumption, SlotAssumption
    PROVE  TailInvariant'
<1>1. depth' \in Nat
  <2>1. depth \in Nat
    BY DEF TailInvariant
  <2>2. CASE Expand
    BY <2>1, <2>2 DEF Expand
  <2>3. CASE ~Expand
    <3>1. depth' \in {0, depth}
      BY <2>3 DEF Next, vars, FirstPage, Allocate, Free, LinkWindow, UnlinkWindow, Links,
                  Exit, display_heap_data, Reap, Start
    <3> QED BY <2>1, <3>1
  <2> QED BY <2>2, <2>3
<1>2. ASSUME UNCHANGED <<hdr, heap_tail, heap_pointer, live, todo, depth>>, broken' \in {broken, "link"}
      PROVE  TailInvariant'
  <2>1. Blocks' = Blocks /\ call' = call
    BY <1>2 DEF Blocks, call
  <2>2. TailInLast => TailInLast'
    BY <1>2, <2>1 DEF TailInLast
  <2>3. Fits(call.size)' = Fits(call.size) /\ (Readable(heap_tail) => Readable(heap_tail)')
    BY <1>2, <2>1 DEF Readable, Fits, Fit, Visited
  <2>4. Stuck => Stuck'
    BY <1>2, <2>1, <2>3 DEF Stuck
  <2> QED BY <1>1, <1>2, <2>2, <2>4 DEF TailInvariant
<1>3. CASE display_heap_data \/ UNCHANGED vars
  BY <1>2, <1>3 DEF display_heap_data, vars, blocks
<1>4. CASE broken = "no"
  <2>1. /\ Protocol /\ Founded
        /\ hdr = << >> => live = {}
        /\ hdr # << >> => Sound /\ TailInLast
    BY <1>4 DEF HeapInvariant, TailInvariant
  <2>2. ASSUME broken' = "no", hdr' # << >> => TailInLast' PROVE TailInvariant'
    BY <1>1, <2>2 DEF TailInvariant
  <2>3. CASE FirstPage
    <3>1. hdr = << >> /\ broken' = broken
      BY <2>3 DEF FirstPage, FirstBlock
    <3> QED BY <1>4, <2>1, <2>2, <2>3, <3>1, TailAtFirst
  <2>4. CASE Allocate
    <3>1. hdr # << >> /\ broken' = broken
      BY <2>4 DEF Allocate
    <3> QED BY <1>4, <2>1, <2>2, <2>4, <3>1, TailAllocates
  <2>5. CASE Expand
    <3>1. /\ hdr # << >> /\ broken' \in {"no", "tail"} /\ todo # << >> /\ call.op = "malloc"
          /\ broken' = "tail" => ~(heap_tail \in Blocks /\ hdr[heap_tail].next = heap_start)
      BY <1>4, <2>5 DEF Expand, Expanding, Calls
    <3>2. CASE broken' = "no"
      BY <1>4, <2>1, <2>2, <2>5, <3>1, <3>2, TailExpands
    <3>3. CASE broken' = "tail"
      <4>1. Readable(heap_tail) /\ hdr[heap_tail].free
        BY <2>1, <3>1, TailFree
      <4>2. heap_tail \notin Blocks
        <5> SUFFICES ASSUME heap_tail \in Blocks PROVE FALSE
          OBVIOUS
        <5>1. End(hdr, heap_tail) <= heap_tail
          BY <2>1, <3>1, <3>3 DEF TailInLast
        <5>2. heap_tail \in Nat /\ hdr[heap_tail].size \in Nat
          BY <2>1, <3>1, Found DEF Sized
        <5> QED BY <5>1, <5>2 DEF End
      <4>3. call.size \in Nat
        <5>1. call \in HeapCall
          BY <2>1, <3>1 DEF Protocol, Typed, call
        <5> QED BY <3>1, <5>1 DEF HeapCall
      <4>4. hdr[heap_tail] \in Header
        BY <2>1, <3>1, <4>1 DEF Sound, Headed, Readable
      <4>5. Closed(hdr, Blocks) /\ Blocks \subseteq DOMAIN hdr /\ {heap_start, heap_pointer} \subseteq Blocks
        BY <2>1, <3>1, Found DEF Sound, IsTiling
      <4>6. Stuck'
        BY <2>5, <4>1, <4>2, <4>3, <4>4, <4>5, GrownAside DEF TailInvariant
      <4> QED BY <1>1, <3>3, <4>6 DEF TailInvariant
    <3> QED BY <3>1, <3>2, <3>3
  <2>6. CASE Free
    <3>1. hdr # << >>
      <4>1. call.op = "free" /\ todo # << >>
        BY <2>6 DEF Free, Calls
      <4> QED BY <2>1, <4>1 DEF Founded
    <3>2. broken' \in {"no", "prev"}
      BY <1>4, <2>6 DEF Free
    <3>3. CASE broken' = "no"
      BY <1>4, <2>1, <2>2, <2>6, <3>1, <3>3, TailFrees
    <3>4. CASE broken' = "prev"
      BY <1>1, <3>4 DEF TailInvariant
    <3> QED BY <3>2, <3>3, <3>4
  <2>7. CASE ~(FirstPage \/ Allocate \/ Expand \/ Free)
    <3>1. UNCHANGED <<hdr, heap_tail>> /\ broken' \in {"no", "link"}
      BY <1>4, <2>7 DEF Next, vars, blocks, LinkWindow, UnlinkWindow, Links, Exit, display_heap_data, Reap, Start
    <3>2. Blocks' = Blocks
      BY <3>1 DEF Blocks
    <3>3. TailInLast => TailInLast'
      BY <3>1, <3>2 DEF TailInLast
    <3> QED BY <1>1, <2>1, <3>1, <3>3 DEF TailInvariant
  <2> QED BY <2>3, <2>4, <2>5, <2>6, <2>7
<1>5. CASE broken # "no"
  <2>1. FirstPage \/ Expand \/ display_heap_data \/ UNCHANGED vars
    BY <1>5, NoWayOut
  <2>2. CASE FirstPage
    <3>1. hdr = << >> /\ broken' = broken /\ Works
      BY <2>2 DEF FirstPage, FirstBlock, Calls
    <3> QED BY <1>5, <3>1 DEF TailInvariant, Stuck, Works
  <2>3. CASE Expand
    <3>1. Works
      BY <2>3 DEF Expand, Expanding, Calls
    <3>2. Stuck /\ broken = "tail" /\ depth \in Nat
      BY <1>5, <3>1 DEF Works, TailInvariant
    <3>3. Stuck'
      <4>1. Closed(hdr, Blocks)
        BY <3>2 DEF Stuck, Closed
      <4> QED BY <2>3, <3>2, <4>1, GrownAside DEF Stuck
    <3>4. broken' = "tail"
      BY <2>3, <3>2 DEF Expand
    <3> QED BY <1>1, <3>3, <3>4 DEF TailInvariant
  <2> QED BY <1>3, <2>1, <2>2, <2>3
<1> QED BY <1>4, <1>5

(* heap_tail is in the last block or, stale, is no block at all; once such *)
(* a heap_tail is grown, my_malloc calls itself for ever.                  *)
THEOREM TailInvariance == Spec => []TailInvariant
<1>1. Init => TailInvariant
  BY DEF Init, NoHeap, TailInvariant
<1>2. HeapInvariant /\ TailInvariant /\ [Next]_vars => TailInvariant'
  BY TailStep, SizesAssumption, SlotAssumption
<1> QED BY <1>1, <1>2, HeapInvariance, PTL DEF Spec

(* The invariant of the blocks and of heap_tail, for any sizes, programs   *)
(* and reaping (my_malloc, my_free and sbrk of mem_mgr.c).                 *)
THEOREM BlocksInvariance == Spec => []BlocksInvariant
<1>1. HeapInvariant /\ TailInvariant => BlocksInvariant
  BY DEF BlocksInvariant
<1> QED BY <1>1, HeapInvariance, TailInvariance, PTL

(* The heap_tail that is to grow is a free header that nobody's data has   *)
(* overwritten, whatever the sizes and the programs (my_malloc).           *)
THEOREM TailStaysUsable == Spec => []TailUsable
<1>1. HeapInvariant /\ TailInvariant => TailUsable
  <2> SUFFICES ASSUME HeapInvariant, TailInvariant, Expanding
               PROVE  Readable(heap_tail) /\ hdr[heap_tail].free
    BY DEF TailUsable
  <2>1. hdr # << >> /\ broken \in {"no", "tail"}
    BY DEF Expanding, Calls, Works
  <2>2. CASE broken = "no"
    <3>1. Sound /\ TailInLast
      BY <2>1, <2>2 DEF HeapInvariant, TailInvariant
    <3> QED BY <3>1, TailFree
  <2>3. CASE broken = "tail"
    BY <2>3 DEF TailInvariant, Stuck
  <2> QED BY <2>1, <2>2, <2>3
<1> QED BY <1>1, HeapInvariance, TailInvariance, PTL

-----------------------------------------------------------------------------
(* What a point shows under the first n windows.  It depends on their      *)
(* names, ...                                                              *)
SameNames(n) == \A i \in 1 .. n : opened'[i] = opened[i] /\ window'[opened[i]].name = window[opened[i]].name

LEMMA ShowsSame ==
    ASSUME NEW v, NEW p, NEW n \in Nat, SameNames(n)
    PROVE  Shows(v, p, n)' <=> Shows(v, p, n)
<1>1. \A i \in 1 .. n : Above(i, p)' <=> Above(i, p)
  BY DEF SameNames, Above
<1>2. \A i \in 1 .. n : \A j \in i + 1 .. n : j \in 1 .. n
  OBVIOUS
<1>3. \A i \in 1 .. n : window'[opened'[i]].name = window[opened[i]].name
  BY DEF SameNames
<1> QED BY <1>1, <1>2, <1>3 DEF Shows

(* ... and a window that is not above the point makes no difference.       *)
LEMMA ShowsBelow ==
    ASSUME NEW v, NEW p, NEW n \in Nat \ {0}, ~Above(n, p)
    PROVE  Shows(v, p, n) <=> Shows(v, p, n - 1)
<1>1. \A i \in 1 .. n : i \in 1 .. n - 1 \/ i = n
  OBVIOUS
<1>2. \A i \in 1 .. n - 1 : i \in 1 .. n /\ n \in i + 1 .. n
  OBVIOUS
<1>3. \A i \in 1 .. n - 1 : \A j \in i + 1 .. n : j \in i + 1 .. n - 1 \/ j = n
  OBVIOUS
<1>4. \A i \in 1 .. n - 1 : \A j \in i + 1 .. n - 1 : j \in i + 1 .. n
  OBVIOUS
<1>5. (\A i \in 1 .. n : ~Above(i, p)) <=> \A i \in 1 .. n - 1 : ~Above(i, p)
  BY <1>1, <1>2
<1>6. \A i \in 1 .. n - 1 : (\A j \in i + 1 .. n : ~Above(j, p)) <=> \A j \in i + 1 .. n - 1 : ~Above(j, p)
  BY <1>3, <1>4
<1>7. (\E i \in 1 .. n : /\ Above(i, p) /\ \A j \in i + 1 .. n : ~Above(j, p)
                        /\ v = window[opened[i]].name)
      <=> \E i \in 1 .. n - 1 : /\ Above(i, p) /\ \A j \in i + 1 .. n - 1 : ~Above(j, p)
                                /\ v = window[opened[i]].name
  BY <1>1, <1>2, <1>6
<1> QED BY <1>5, <1>7 DEF Shows

LEMMA WindowsUntouched ==
    ASSUME WindowsTyped, Kept, NothingLeft, UNCHANGED windows
    PROVE  WindowsTyped' /\ Kept' /\ NothingLeft'
<1>1. UNCHANGED <<bottom_window, top_window, window, vault, screen, opened>>
  BY DEF windows
<1>2. WindowsTyped'
  BY <1>1 DEF WindowsTyped
<1>3. \A v, p, n : Shows(v, p, n)' <=> Shows(v, p, n)
  BY <1>1 DEF Shows, Above
<1>4. Kept'
  BY <1>1, <1>3 DEF Kept
<1>5. NothingLeft'
  BY <1>1, <1>3 DEF NothingLeft
<1> QED BY <1>2, <1>4, <1>5

(* A call is made; which of the others come is as before.                  *)
LEMMA TailOf ==
    ASSUME todo \in Seq(HeapCall), todo # << >>, todo' = Tail(todo)
    PROVE  /\ Head(todo) = todo[1] /\ 1 \in DOMAIN todo /\ todo[1] \in HeapCall
           /\ Len(todo) \in Nat /\ Len(todo') = Len(todo) - 1 /\ DOMAIN todo' = 1 .. Len(todo')
           /\ \A k \in DOMAIN todo' : k \in Nat /\ k + 1 \in DOMAIN todo /\ todo'[k] = todo[k + 1]
           /\ \A k \in DOMAIN todo : k = 1 \/ (k - 1 \in DOMAIN todo' /\ todo'[k - 1] = todo[k])
<1>1. /\ Len(todo) \in Nat \ {0} /\ DOMAIN todo = 1 .. Len(todo)
      /\ Tail(todo) \in Seq(HeapCall) /\ Len(Tail(todo)) = Len(todo) - 1 /\ Head(todo) = todo[1]
  OBVIOUS
<1>2. /\ DOMAIN todo' = 1 .. Len(todo) - 1
      /\ \A k \in 1 .. Len(todo) - 1 : todo'[k] = todo[k + 1]
  BY <1>1
<1>3. \A k \in DOMAIN todo : k # 1 => k - 1 \in DOMAIN todo' /\ (k - 1) + 1 = k
  BY <1>1, <1>2
<1>4. \A k \in DOMAIN todo : k # 1 => todo'[k - 1] = todo[k]
  BY <1>2, <1>3
<1>5. \A k \in DOMAIN todo' : k \in Nat /\ k + 1 \in DOMAIN todo /\ todo'[k] = todo[k + 1]
  BY <1>1, <1>2
<1>6. 1 \in DOMAIN todo /\ todo[1] \in HeapCall
  BY <1>1
<1> QED BY <1>1, <1>3, <1>4, <1>5, <1>6

Closing(t) == \E k \in DOMAIN todo : todo[k].op = "unlink" /\ todo[k].task = t

LEMMA NestedLater ==
    ASSUME todo \in Seq(HeapCall), todo # << >>, todo' = Tail(todo), UNCHANGED <<running, opened>>,
           todo[1].op \notin {"link", "unlink"}, Nested, opened \in Seq(Int),
           \A w, t : WindowOf(w, t) /\ (Runs(t) \/ Closing(t)) => WindowOf(w, t)'
    PROVE  Nested'
<1>1. \A i \in DOMAIN opened' \cap DOMAIN running' : WindowOf(opened[i], running[i].task)'
  <2> SUFFICES ASSUME NEW i \in DOMAIN opened \cap DOMAIN running
               PROVE  WindowOf(opened[i], running[i].task)'
    OBVIOUS
  <2> DEFINE w == opened[i]  t == running[i].task
  <2>1. WindowOf(w, t) /\ Runs(t)
    BY DEF Nested, Runs
  <2>2. PICK u, s : u = w /\ s = t
    OBVIOUS
  <2>3. WindowOf(u, s)'
    BY <2>1, <2>2
  <2>4. opened'[i] = u /\ running'[i].task = s
    BY <2>2
  <2> QED BY <2>3, <2>4 DEF WindowOf
<1>2. \A k \in DOMAIN todo' : todo'[k].op = "link" =>
         /\ Len(todo') = k /\ Len(running') = Len(opened') + 1
         /\ todo'[k].task = running'[Len(running')].task
  <2> SUFFICES ASSUME NEW k \in DOMAIN todo', todo'[k].op = "link"
               PROVE  /\ Len(todo') = k /\ Len(running') = Len(opened') + 1
                      /\ todo'[k].task = running'[Len(running')].task
    OBVIOUS
  <2>1. /\ k + 1 \in DOMAIN todo /\ todo'[k] = todo[k + 1] /\ k \in Nat
        /\ Len(todo') = Len(todo) - 1
    BY TailOf
  <2>2. /\ Len(todo) = k + 1 /\ Len(running) = Len(opened) + 1
        /\ todo[k + 1].task = running[Len(running)].task
    BY <2>1 DEF Nested
  <2> QED BY <2>1, <2>2
<1>3. ASSUME NEW k \in DOMAIN todo', todo'[k].op = "unlink"
      PROVE  /\ Len(todo') = k + 2 /\ Len(opened') = Len(running') + 1
             /\ todo'[k + 2].op = "free" /\ todo'[k + 2].role = "win"
             /\ todo'[k + 2].task = todo'[k].task
             /\ WindowOf(opened[Len(opened)], todo[k].task)'
  <2>1. /\ k + 1 \in DOMAIN todo /\ todo'[k] = todo[k + 1] /\ k \in Nat
        /\ Len(todo') = Len(todo) - 1 /\ Len(todo) \in Nat
    BY TailOf
  <2>2. /\ Len(todo) = (k + 1) + 2 /\ Len(opened) = Len(running) + 1
        /\ todo[(k + 1) + 2].op = "free" /\ todo[(k + 1) + 2].role = "win"
        /\ todo[(k + 1) + 2].task = todo[k + 1].task
        /\ WindowOf(opened[Len(opened)], todo[k + 1].task)
    BY <1>3, <2>1 DEF Nested
  <2>3. Len(todo') = k + 2 /\ k + 2 \in DOMAIN todo' /\ (k + 2) + 1 = (k + 1) + 2
    BY <2>1, <2>2, TailOf
  <2>4. todo'[k + 2] = todo[(k + 1) + 2]
    BY <2>3, TailOf
  <2>5. PICK w, t : w = opened[Len(opened)] /\ t = todo[k + 1].task
    OBVIOUS
  <2>6. WindowOf(w, t)'
    BY <1>3, <2>1, <2>2, <2>5 DEF Closing
  <2>7. opened'[Len(opened')] = w /\ todo'[k].task = t
    BY <2>1, <2>5
  <2>8. WindowOf(opened[Len(opened)], todo[k].task)'
    BY <2>6, <2>7 DEF WindowOf
  <2> QED BY <2>1, <2>2, <2>3, <2>4, <2>8
<1>4. (\A k \in DOMAIN todo' : todo'[k].op \notin {"link", "unlink"}) => Len(opened') = Len(running')
  <2> SUFFICES ASSUME \A k \in DOMAIN todo' : todo'[k].op \notin {"link", "unlink"}
               PROVE  Len(opened) = Len(running)
    OBVIOUS
  <2>1. \A k \in DOMAIN todo : k = 1 \/ (k - 1 \in DOMAIN todo' /\ todo'[k - 1] = todo[k])
    BY TailOf
  <2>2. \A k \in DOMAIN todo : todo[k].op \notin {"link", "unlink"}
    BY <2>1
  <2> QED BY <2>2 DEF Nested
<1> QED BY <1>1, <1>2, <1>3, <1>4 DEF Nested

(* A call that neither gives out nor frees a window.                       *)
LEMMA OneWindowLater ==
    ASSUME todo \in Seq(HeapCall), todo # << >>, todo' = Tail(todo), UNCHANGED running, OneWindow,
           \A m \in live' : m.role = "win" => m \in live,
           \A t : IsCall(todo[1], "free", t, "win") => \A m \in live' : ~(m.task = t /\ m.role = "win")
    PROVE  OneWindow'
<1>1. \A m, n \in live' : m.role = "win" /\ n.role = "win" /\ m.task = n.task => m = n
  BY DEF OneWindow
<1>2. \A t : Runs(t)' <=> Runs(t)
  BY DEF Runs
<1>3. ASSUME NEW m \in live', m.role = "win" PROVE Runs(m.task)' \/ Coming("free", m.task, "win")'
  <2>1. Runs(m.task) \/ Coming("free", m.task, "win")
    BY <1>3 DEF OneWindow
  <2>2. CASE Coming("free", m.task, "win")
    <3>1. PICK k \in DOMAIN todo : IsCall(todo[k], "free", m.task, "win")
      BY <2>2 DEF Coming, IsCall
    <3>2. k # 1
      BY <1>3, <3>1
    <3>3. k - 1 \in DOMAIN todo' /\ todo'[k - 1] = todo[k]
      BY <3>2, TailOf
    <3> QED BY <3>1, <3>3 DEF Coming, IsCall
  <2> QED BY <1>2, <2>1, <2>2 DEF Runs
<1>4. ASSUME NEW k \in DOMAIN todo', todo'[k].op = "malloc" /\ todo'[k].role = "win"
      PROVE  Len(todo') = k + 2 /\ Runs(todo[k].task)' /\ ~Has(todo[k].task, "win")'
  <2>1. /\ k + 1 \in DOMAIN todo /\ todo'[k] = todo[k + 1] /\ k \in Nat
        /\ Len(todo') = Len(todo) - 1 /\ Len(todo) \in Nat
    BY TailOf
  <2>2. Len(todo) = (k + 1) + 2 /\ Runs(todo[k + 1].task) /\ ~Has(todo[k + 1].task, "win")
    BY <1>4, <2>1 DEF OneWindow
  <2>3. Runs(todo[k].task)' /\ ~Has(todo[k].task, "win")'
    BY <2>1, <2>2 DEF Runs, Has
  <2> QED BY <2>1, <2>2, <2>3
<1> QED BY <1>1, <1>3, <1>4 DEF OneWindow

(* A window is given out to the program that opens it.                     *)
LEMMA WindowGiven ==
    ASSUME todo \in Seq(HeapCall), todo # << >>, todo' = Tail(todo), UNCHANGED running, OneWindow,
           NEW g, live' = live \cup {g}, todo[1].op = "malloc",
           g.task = todo[1].task, g.role = todo[1].role
    PROVE  OneWindow'
<1>1. CASE g.role # "win"
  <2>1. \A m \in live' : m.role = "win" => m \in live
    BY <1>1
  <2>2. \A t : ~IsCall(todo[1], "free", t, "win")
    BY DEF IsCall
  <2> QED BY <2>1, <2>2, OneWindowLater
<1>2. CASE g.role = "win"
  <2>1. Len(todo) = 3 /\ Runs(g.task) /\ ~Has(g.task, "win")
    <3>1. 1 \in DOMAIN todo
      BY TailOf
    <3>2. Len(todo) = 1 + 2 /\ Runs(todo[1].task) /\ ~Has(todo[1].task, "win")
      BY <1>2, <3>1 DEF OneWindow
    <3> QED BY <3>2
  <2>2. \A m \in live : m.role = "win" => m.task # g.task
    BY <2>1 DEF Has
  <2>3. \A m, n \in live' : m.role = "win" /\ n.role = "win" /\ m.task = n.task => m = n
    BY <2>2 DEF OneWindow
  <2>4. ASSUME NEW m \in live', m.role = "win" PROVE Runs(m.task)' \/ Coming("free", m.task, "win")'
    <3>1. Runs(m.task) \/ Coming("free", m.task, "win")
      BY <2>1, <2>4 DEF OneWindow
    <3>2. CASE Runs(m.task)
      BY <3>2 DEF Runs
    <3>3. CASE Coming("free", m.task, "win")
      <4>1. PICK k \in DOMAIN todo : IsCall(todo[k], "free", m.task, "win")
        BY <3>3 DEF Coming, IsCall
      <4>2. k # 1
        BY <4>1 DEF IsCall
      <4>3. k - 1 \in DOMAIN todo' /\ todo'[k - 1] = todo[k]
        BY <4>2, TailOf
      <4> QED BY <4>1, <4>3 DEF Coming, IsCall
    <3> QED BY <3>1, <3>2, <3>3
  <2>5. ASSUME NEW k \in DOMAIN todo', todo'[k].op = "malloc" /\ todo'[k].role = "win" PROVE FALSE
    <3>1. k + 1 \in DOMAIN todo /\ todo'[k] = todo[k + 1] /\ k \in Nat
      BY TailOf
    <3>2. k >= 1
      BY <2>5, TailOf
    <3>3. Len(todo) = (k + 1) + 2
      BY <2>5, <3>1 DEF OneWindow
    <3> QED BY <2>1, <3>1, <3>2, <3>3
  <2> QED BY <2>3, <2>4, <2>5 DEF OneWindow
<1> QED BY <1>1, <1>2

LEMMA WindowsAllocate ==
    ASSUME Protocol, WindowsInvariant, Allocate
    PROVE  WindowsInvariant'
<1> SUFFICES ASSUME OneWindow, Nested, WindowsTyped, Kept, NothingLeft
             PROVE  OneWindow' /\ Nested' /\ WindowsTyped' /\ Kept' /\ NothingLeft'
  BY DEF WindowsInvariant
<1>1. /\ todo \in Seq(HeapCall) /\ opened \in Seq(Int)
  BY DEF Protocol, Typed, WindowsTyped
<1>2. /\ todo # << >> /\ todo' = Tail(todo) /\ UNCHANGED <<running, windows>>
      /\ Head(todo).op = "malloc"
      /\ live' = live \cup {[task |-> call.task, role |-> call.role,
                             addr |-> Visited[Min(Fits(call.size))] + 1, size |-> call.size]}
  BY DEF Allocate, Calls, call, client
<1>3. PICK g : /\ g = [task |-> call.task, role |-> call.role,
                      addr |-> Visited[Min(Fits(call.size))] + 1, size |-> call.size]
  OBVIOUS
<1>4. /\ live' = live \cup {g} /\ todo[1] = Head(todo)
      /\ g.task = todo[1].task /\ g.role = todo[1].role /\ todo[1].op = "malloc"
  BY <1>1, <1>2, <1>3, TailOf DEF call
<1>5. OneWindow'
  BY <1>1, <1>2, <1>4, WindowGiven
<1>6. \A w, t : WindowOf(w, t) => WindowOf(w, t)'
  BY <1>4 DEF WindowOf
<1>7. UNCHANGED opened
  BY <1>2 DEF windows
<1>8. Nested'
  BY <1>1, <1>2, <1>4, <1>6, <1>7, NestedLater
<1> QED BY <1>2, <1>5, <1>8, WindowsUntouched

LEMMA WindowsFree ==
    ASSUME Protocol, WindowsInvariant, Free
    PROVE  WindowsInvariant'
<1> SUFFICES ASSUME OneWindow, Nested, WindowsTyped, Kept, NothingLeft
             PROVE  OneWindow' /\ Nested' /\ WindowsTyped' /\ Kept' /\ NothingLeft'
  BY DEF WindowsInvariant
<1>1. /\ todo \in Seq(HeapCall) /\ opened \in Seq(Int)
  BY DEF Protocol, Typed, WindowsTyped
<1>2. /\ todo # << >> /\ todo' = Tail(todo) /\ UNCHANGED <<running, windows>>
      /\ Head(todo).op = "free" /\ live' = live \ {The(call.role, call.task)}
  BY DEF Free, Calls, call, client
<1>3. PICK c, used : c = todo[1] /\ used = The(c.role, c.task)
  OBVIOUS
<1>4. /\ c.op = "free" /\ live' = live \ {used} /\ 1 \in DOMAIN todo /\ c \in HeapCall
  BY <1>1, <1>2, <1>3, TailOf DEF call
<1>5. Has(c.task, c.role)
      /\ \A j \in DOMAIN todo : IsCall(todo[j], "free", c.task, c.role) => j = 1
  BY <1>3, <1>4 DEF Protocol, FreedOnce, IsCall
<1>6. used \in live /\ used.task = c.task /\ used.role = c.role
  BY <1>3, <1>5 DEF Has, The
<1>7. \A t : IsCall(todo[1], "free", t, "win") => \A m \in live' : ~(m.task = t /\ m.role = "win")
  BY <1>3, <1>4, <1>6 DEF IsCall, OneWindow
<1>8. OneWindow'
  BY <1>1, <1>2, <1>4, <1>7, OneWindowLater
<1>9. ASSUME NEW w, NEW t, WindowOf(w, t), Runs(t) \/ Closing(t) PROVE WindowOf(w, t)'
  <2>1. PICK m \in live : m.task = t /\ m.role = "win" /\ m.addr = w
    BY <1>9 DEF WindowOf
  <2>2. m # used
    <3> SUFFICES ASSUME m = used PROVE FALSE
      OBVIOUS
    <3>1. IsCall(todo[1], "free", t, "win")
      BY <1>3, <1>4, <1>6, <2>1 DEF IsCall
    <3>2. Coming("free", t, "win")
      BY <1>4, <3>1 DEF Coming, IsCall
    <3>3. ~Runs(t)
      BY <3>2 DEF Runs, Protocol, Furnished, Role
    <3>4. PICK k \in DOMAIN todo : todo[k].op = "unlink" /\ todo[k].task = t
      BY <1>9, <3>3 DEF Closing
    <3>5. Len(todo) = k + 2 /\ IsCall(todo[k + 2], "free", t, "win")
      BY <3>4 DEF Nested, IsCall
    <3>6. k \in Nat \ {0} /\ k + 2 \in DOMAIN todo
      BY <1>1, <3>5
    <3>7. c.task = t /\ c.role = "win"
      BY <1>3, <3>1 DEF IsCall
    <3> QED BY <1>5, <3>5, <3>6, <3>7
  <2> QED BY <1>4, <2>1, <2>2 DEF WindowOf
<1>10. UNCHANGED opened
  BY <1>2 DEF windows
<1>11. Nested'
  BY <1>1, <1>2, <1>3, <1>4, <1>9, <1>10, NestedLater
<1> QED BY <1>2, <1>8, <1>11, WindowsUntouched

LEMMA WindowsReap ==
    ASSUME Protocol, WindowsInvariant, NEW t \in Slot, Reap(t)
    PROVE  WindowsInvariant'
<1> SUFFICES ASSUME OneWindow, Nested, WindowsTyped, Kept, NothingLeft
             PROVE  OneWindow' /\ Nested' /\ WindowsTyped' /\ Kept' /\ NothingLeft'
  BY DEF WindowsInvariant
<1>1. /\ todo' = << free(t, "stack"), free(t, "tcb") >> \o todo
      /\ UNCHANGED <<live, running, windows>>
  BY DEF Reap
<1>2. todo \in Seq(HeapCall) /\ free(t, "stack") \in HeapCall /\ free(t, "tcb") \in HeapCall
  BY DEF Protocol, Typed, free, HeapCall, Owner, Role
<1>3. /\ Len(todo) \in Nat /\ Len(todo') = Len(todo) + 2 /\ DOMAIN todo = 1 .. Len(todo)
      /\ DOMAIN todo' = 1 .. Len(todo) + 2
      /\ todo'[1] = free(t, "stack") /\ todo'[2] = free(t, "tcb")
      /\ \A k \in DOMAIN todo : todo'[k + 2] = todo[k]
  BY <1>1, <1>2
<1>4. /\ todo'[1].op = "free" /\ todo'[2].op = "free"
  BY <1>3 DEF free
<1>5. \A k \in DOMAIN todo' : todo'[k].op # "free" => k - 2 \in DOMAIN todo /\ todo'[k] = todo[k - 2]
  <2> SUFFICES ASSUME NEW k \in DOMAIN todo', todo'[k].op # "free"
               PROVE  k - 2 \in DOMAIN todo /\ todo'[k] = todo[k - 2]
    OBVIOUS
  <2>1. k # 1 /\ k # 2 /\ k \in 1 .. Len(todo) + 2
    BY <1>3, <1>4
  <2>2. k - 2 \in DOMAIN todo /\ (k - 2) + 2 = k
    BY <1>3, <2>1
  <2> QED BY <1>3, <2>2
<1>6. \A k \in DOMAIN todo : k + 2 \in DOMAIN todo' /\ todo'[k + 2] = todo[k]
  BY <1>3
<1>7. UNCHANGED opened
  BY <1>1 DEF windows
<1>8. OneWindow'
  <2>1. \A m, n \in live' : m.role = "win" /\ n.role = "win" /\ m.task = n.task => m = n
    BY <1>1 DEF OneWindow
  <2>2. ASSUME NEW m \in live', m.role = "win" PROVE Runs(m.task)' \/ Coming("free", m.task, "win")'
    <3>1. Runs(m.task) \/ Coming("free", m.task, "win")
      BY <1>1, <2>2 DEF OneWindow
    <3>2. Coming("free", m.task, "win") => Coming("free", m.task, "win")'
      BY <1>6 DEF Coming
    <3> QED BY <1>1, <3>1, <3>2 DEF Runs
  <2>3. ASSUME NEW k \in DOMAIN todo', todo'[k].op = "malloc" /\ todo'[k].role = "win"
        PROVE  Len(todo') = k + 2 /\ Runs(todo[k].task)' /\ ~Has(todo[k].task, "win")'
    <3>1. k - 2 \in DOMAIN todo /\ todo'[k] = todo[k - 2]
      BY <1>5, <2>3
    <3>2. Len(todo) = (k - 2) + 2 /\ Runs(todo[k - 2].task) /\ ~Has(todo[k - 2].task, "win")
      BY <2>3, <3>1 DEF OneWindow
    <3>3. k \in Int
      BY <1>3
    <3> QED BY <1>1, <1>3, <3>1, <3>2, <3>3 DEF Runs, Has
  <2> QED BY <2>1, <2>2, <2>3 DEF OneWindow
<1>9. Nested'
  <2>1. \A w, s : WindowOf(w, s)' <=> WindowOf(w, s)
    BY <1>1 DEF WindowOf
  <2>2. \A i \in DOMAIN opened' \cap DOMAIN running' : WindowOf(opened[i], running[i].task)'
    BY <1>1, <1>7 DEF Nested, WindowOf
  <2>3. ASSUME NEW k \in DOMAIN todo', todo'[k].op = "link"
        PROVE  /\ Len(todo') = k /\ Len(running') = Len(opened') + 1
               /\ todo'[k].task = running'[Len(running')].task
    <3>1. k - 2 \in DOMAIN todo /\ todo'[k] = todo[k - 2]
      BY <1>5, <2>3
    <3>2. /\ Len(todo) = k - 2 /\ Len(running) = Len(opened) + 1
          /\ todo[k - 2].task = running[Len(running)].task
      BY <2>3, <3>1 DEF Nested
    <3>3. k \in Int
      BY <1>3
    <3> QED BY <1>1, <1>3, <1>7, <3>1, <3>2, <3>3
  <2>4. ASSUME NEW k \in DOMAIN todo', todo'[k].op = "unlink"
        PROVE  /\ Len(todo') = k + 2 /\ Len(opened') = Len(running') + 1
               /\ todo'[k + 2].op = "free" /\ todo'[k + 2].role = "win"
               /\ todo'[k + 2].task = todo'[k].task
               /\ WindowOf(opened[Len(opened)], todo[k].task)'
    <3>1. k - 2 \in DOMAIN todo /\ todo'[k] = todo[k - 2] /\ k \in Int
      BY <1>3, <1>5, <2>4
    <3>2. /\ Len(todo) = (k - 2) + 2 /\ Len(opened) = Len(running) + 1
          /\ todo[(k - 2) + 2].op = "free" /\ todo[(k - 2) + 2].role = "win"
          /\ todo[(k - 2) + 2].task = todo[k - 2].task
          /\ WindowOf(opened[Len(opened)], todo[k - 2].task)
      BY <2>4, <3>1 DEF Nested
    <3>3. k \in DOMAIN todo /\ (k - 2) + 2 = k
      BY <1>3, <3>1, <3>2
    <3>4. todo'[k + 2] = todo[k]
      BY <1>6, <3>3
    <3>5. WindowOf(opened[Len(opened)], todo[k].task)'
      BY <1>1, <1>7, <3>1, <3>2 DEF WindowOf
    <3> QED BY <1>1, <1>3, <1>7, <3>1, <3>2, <3>3, <3>4, <3>5
  <2>5. (\A k \in DOMAIN todo' : todo'[k].op \notin {"link", "unlink"}) => Len(opened') = Len(running')
    <3> SUFFICES ASSUME \A k \in DOMAIN todo' : todo'[k].op \notin {"link", "unlink"}
                 PROVE  Len(opened) = Len(running)
      BY <1>1, <1>7
    <3>1. \A k \in DOMAIN todo : todo[k].op \notin {"link", "unlink"}
      BY <1>6
    <3> QED BY <3>1 DEF Nested
  <2> QED BY <2>2, <2>3, <2>4, <2>5 DEF Nested
<1> QED BY <1>1, <1>8, <1>9, WindowsUntouched

LEMMA WindowsStart ==
    ASSUME Protocol, WindowsInvariant,
           NEW p \in Program, NEW t \in Slot, Start(p, t)
    PROVE  WindowsInvariant'
<1> SUFFICES ASSUME OneWindow, Nested, WindowsTyped, Kept, NothingLeft
             PROVE  OneWindow' /\ Nested' /\ WindowsTyped' /\ Kept' /\ NothingLeft'
  BY DEF WindowsInvariant
<1>1. /\ todo = << >> /\ \A i \in DOMAIN running : running[i].task # t
      /\ running' = Append(running, [task |-> t, prog |-> p])
      /\ todo' = << malloc(t, "tcb", TCB), malloc(t, "stack", STACK),
                    malloc(t, "win", WINDOW), malloc(t, "vault", Vault[p]), link_window(t, p) >>
      /\ UNCHANGED <<live, windows>>
  BY DEF Start
<1>2. running \in Seq([task : Slot, prog : Program]) /\ opened \in Seq(Int)
  BY DEF Protocol, Typed, WindowsTyped
<1>3. UNCHANGED opened
  BY <1>1 DEF windows
<1>4. /\ Len(running) \in Nat /\ Len(running') = Len(running) + 1
      /\ DOMAIN running' = 1 .. Len(running) + 1 /\ DOMAIN running = 1 .. Len(running)
      /\ running'[Len(running) + 1].task = t
      /\ \A i \in DOMAIN running : running'[i] = running[i]
  BY <1>1, <1>2
<1>5. /\ Len(todo') = 5 /\ DOMAIN todo' = 1 .. 5
      /\ todo'[1] = malloc(t, "tcb", TCB) /\ todo'[2] = malloc(t, "stack", STACK)
      /\ todo'[3] = malloc(t, "win", WINDOW) /\ todo'[4] = malloc(t, "vault", Vault[p])
      /\ todo'[5] = link_window(t, p)
  BY <1>1
<1>6. /\ todo'[1].op = "malloc" /\ todo'[2].op = "malloc" /\ todo'[3].op = "malloc"
      /\ todo'[4].op = "malloc" /\ todo'[5].op = "link"
      /\ todo'[1].role = "tcb" /\ todo'[2].role = "stack" /\ todo'[4].role = "vault"
      /\ todo'[3].task = t /\ todo'[5].task = t
  BY <1>5 DEF malloc, link_window
<1>7. \A k \in DOMAIN todo' : k = 1 \/ k = 2 \/ k = 3 \/ k = 4 \/ k = 5
  BY <1>5
<1>8. \A m \in live : m.role = "win" => Runs(m.task) /\ m.task # t
  BY <1>1 DEF OneWindow, Coming, Runs
<1>9. Runs(t)' /\ \A s : Runs(s) => Runs(s)'
  <2>1. Len(running) + 1 \in DOMAIN running' /\ DOMAIN running \subseteq DOMAIN running'
    BY <1>4
  <2> QED BY <1>4, <2>1 DEF Runs
<1>10. OneWindow'
  <2>1. \A m, n \in live' : m.role = "win" /\ n.role = "win" /\ m.task = n.task => m = n
    BY <1>1 DEF OneWindow
  <2>2. \A m \in live' : m.role = "win" => Runs(m.task)'
    BY <1>1, <1>8, <1>9
  <2>3. ASSUME NEW k \in DOMAIN todo', todo'[k].op = "malloc" /\ todo'[k].role = "win"
        PROVE  Len(todo') = k + 2 /\ Runs(todo[k].task)' /\ ~Has(todo[k].task, "win")'
    <3>1. k = 3
      BY <1>6, <1>7, <2>3
    <3>2. Runs(todo[k].task)'
      BY <1>6, <1>9, <3>1 DEF Runs
    <3>3. ~Has(todo[k].task, "win")'
      BY <1>1, <1>6, <1>8, <3>1 DEF Has
    <3> QED BY <1>5, <3>1, <3>2, <3>3
  <2> QED BY <2>1, <2>2, <2>3 DEF OneWindow
<1>11. Len(opened) = Len(running)
  BY <1>1 DEF Nested
<1>12. Nested'
  <2>1. ASSUME NEW i \in DOMAIN opened' \cap DOMAIN running' PROVE WindowOf(opened[i], running[i].task)'
    <3>1. i \in DOMAIN opened /\ i \in DOMAIN running
      BY <1>2, <1>3, <1>4, <1>11, <2>1
    <3>2. WindowOf(opened[i], running[i].task)
      BY <3>1 DEF Nested
    <3> QED BY <1>1, <1>3, <1>4, <3>1, <3>2 DEF WindowOf
  <2>2. ASSUME NEW k \in DOMAIN todo', todo'[k].op = "link"
        PROVE  /\ Len(todo') = k /\ Len(running') = Len(opened') + 1
               /\ todo'[k].task = running'[Len(running')].task
    BY <1>3, <1>4, <1>5, <1>6, <1>7, <1>11, <2>2
  <2>3. \A k \in DOMAIN todo' : todo'[k].op # "unlink"
    BY <1>6, <1>7
  <2>4. ~\A k \in DOMAIN todo' : todo'[k].op \notin {"link", "unlink"}
    BY <1>5, <1>6
  <2> QED BY <2>1, <2>2, <2>3, <2>4 DEF Nested
<1> QED BY <1>1, <1>10, <1>12, WindowsUntouched

LEMMA WindowsExit ==
    ASSUME Protocol, WindowsInvariant, Exit
    PROVE  WindowsInvariant'
<1> SUFFICES ASSUME OneWindow, Nested, WindowsTyped, Kept, NothingLeft
             PROVE  OneWindow' /\ Nested' /\ WindowsTyped' /\ Kept' /\ NothingLeft'
  BY DEF WindowsInvariant
<1> DEFINE n == Len(running)  t == running[n].task
<1>1. /\ todo = << >> /\ running # << >> /\ running \in Seq([task : Slot, prog : Program])
      /\ running' = SubSeq(running, 1, n - 1)
      /\ todo' = << unlink_window(t), free(t, "vault"), free(t, "win") >>
      /\ UNCHANGED <<live, windows>> /\ opened \in Seq(Int)
  BY DEF Exit, Protocol, Typed, WindowsTyped
<1>2. /\ n \in Nat \ {0} /\ DOMAIN running = 1 .. n
  BY <1>1
<1>3. /\ Len(running') = n - 1 /\ running' \in Seq([task : Slot, prog : Program])
      /\ \A i \in 1 .. n - 1 : running'[i] = running[i]
  BY <1>1, AllButLast
<1>4. DOMAIN running' = 1 .. n - 1
  BY <1>3
<1>5. UNCHANGED opened
  BY <1>1 DEF windows
<1>6. PICK c : c = t
  OBVIOUS
<1>7. /\ Len(todo') = 3 /\ DOMAIN todo' = 1 .. 3
      /\ todo'[1] = unlink_window(c) /\ todo'[2] = free(c, "vault") /\ todo'[3] = free(c, "win")
  BY <1>1, <1>6
<1>8. /\ todo'[1].op = "unlink" /\ todo'[1].task = c /\ todo'[2].op = "free"
      /\ todo'[3].op = "free" /\ todo'[3].role = "win" /\ todo'[3].task = c
  BY <1>7 DEF unlink_window, free
<1>9. \A k \in DOMAIN todo' : k = 1 \/ k = 2 \/ k = 3
  BY <1>7
<1>10. Len(opened) = n /\ DOMAIN opened = 1 .. n
  BY <1>1 DEF Nested
<1>11. \A s : Runs(s) => Runs(s)' \/ s = c
  BY <1>2, <1>3, <1>4, <1>6 DEF Runs
<1>12. OneWindow'
  <2>1. \A m, k \in live' : m.role = "win" /\ k.role = "win" /\ m.task = k.task => m = k
    BY <1>1 DEF OneWindow
  <2>2. Coming("free", c, "win")'
    BY <1>7, <1>8 DEF Coming
  <2>3. \A m \in live' : m.role = "win" => Runs(m.task)
    BY <1>1 DEF OneWindow, Coming
  <2>4. \A m \in live' : m.role = "win" => Runs(m.task)' \/ Coming("free", m.task, "win")'
    BY <1>11, <2>2, <2>3 DEF Coming
  <2>5. \A k \in DOMAIN todo' : todo'[k].op # "malloc"
    BY <1>8, <1>9
  <2> QED BY <2>1, <2>4, <2>5 DEF OneWindow
<1>13. Nested'
  <2>1. ASSUME NEW i \in DOMAIN opened' \cap DOMAIN running' PROVE WindowOf(opened[i], running[i].task)'
    <3>1. i \in DOMAIN opened /\ i \in DOMAIN running /\ running'[i] = running[i]
      BY <1>2, <1>3, <1>4, <1>5, <2>1
    <3>2. WindowOf(opened[i], running[i].task)
      BY <3>1 DEF Nested
    <3> QED BY <1>1, <1>5, <3>1, <3>2 DEF WindowOf
  <2>2. n \in DOMAIN opened \cap DOMAIN running
    BY <1>2, <1>10
  <2>3. WindowOf(opened[n], c)
    BY <1>6, <2>2 DEF Nested
  <2>4. WindowOf(opened[Len(opened)], todo[1].task)'
    BY <1>1, <1>5, <1>8, <1>10, <2>3 DEF WindowOf
  <2>5. ASSUME NEW k \in DOMAIN todo', todo'[k].op = "unlink"
        PROVE  /\ Len(todo') = k + 2 /\ Len(opened') = Len(running') + 1
               /\ todo'[k + 2].op = "free" /\ todo'[k + 2].role = "win"
               /\ todo'[k + 2].task = todo'[k].task
               /\ WindowOf(opened[Len(opened)], todo[k].task)'
    <3>1. k = 1 /\ k + 2 = 3
      BY <1>8, <1>9, <2>5
    <3> QED BY <1>2, <1>3, <1>5, <1>7, <1>8, <1>10, <2>4, <3>1
  <2>6. \A k \in DOMAIN todo' : todo'[k].op # "link"
    BY <1>8, <1>9
  <2>7. ~\A k \in DOMAIN todo' : todo'[k].op \notin {"link", "unlink"}
    BY <1>7, <1>8
  <2> QED BY <2>1, <2>5, <2>6, <2>7 DEF Nested
<1> QED BY <1>1, <1>12, <1>13, WindowsUntouched

LEMMA WindowsDrawnOver ==
    ASSUME WindowsTyped, Kept, NothingLeft, display_heap_data
    PROVE  WindowsTyped' /\ Kept' /\ NothingLeft'
<1> DEFINE M == {p \in DOMAIN Desktop : Desktop[p] = "MEM_INSP"}
           drawn == [p \in M |-> "MEM_INSP"]
<1>1. /\ screen' = Over(drawn, screen)
      /\ UNCHANGED <<bottom_window, top_window, window, vault, opened>>
  BY DEF display_heap_data, Draw
<1>2. DOMAIN drawn = M /\ \A p \in M : drawn[p] = "MEM_INSP"
  OBVIOUS
<1> HIDE DEF drawn
<1>3. /\ DOMAIN screen' = M \cup DOMAIN screen
      /\ \A p \in DOMAIN screen' : screen'[p] = IF p \in M THEN "MEM_INSP" ELSE screen[p]
  BY <1>1, <1>2 DEF Over
<1>4. DOMAIN screen = DOMAIN Desktop
  BY DEF WindowsTyped
<1>5. WindowsTyped'
  BY <1>1, <1>3, <1>4 DEF WindowsTyped
<1>6. \A v, p, n : Shows(v, p, n)' <=> Shows(v, p, n)
  BY <1>1 DEF Shows, Above
<1>7. Kept'
  BY <1>1, <1>6 DEF Kept
<1>8. ASSUME NEW p \in DOMAIN Desktop PROVE Shows(screen[p], p, Len(opened))'
  <2>1. PICK v, n : v = screen'[p] /\ n = Len(opened)
    OBVIOUS
  <2>2. Shows(v, p, n)
    <3>1. CASE p \in M
      BY <1>3, <1>4, <2>1, <3>1 DEF Shows
    <3>2. CASE p \notin M
      BY <1>3, <1>4, <2>1, <3>2 DEF NothingLeft
    <3> QED BY <3>1, <3>2
  <2>3. Shows(v, p, n)'
    BY <1>6, <2>2
  <2> QED BY <1>1, <2>1, <2>3
<1>9. NothingLeft'
  BY <1>8 DEF NothingLeft
<1> QED BY <1>5, <1>7, <1>9

LEMMA ShowsUnder ==
    ASSUME NEW v, NEW p, NEW n \in Nat, SameNames(n), ~Above(n + 1, p)', Shows(v, p, n)
    PROVE  Shows(v, p, n + 1)'
<1>1. \A i \in 1 .. n : Above(i, p)' <=> Above(i, p)
  BY DEF SameNames, Above
<1>2. \A i \in 1 .. n + 1 : i \in 1 .. n \/ i = n + 1
  OBVIOUS
<1>3. \A i \in 1 .. n : i \in 1 .. n + 1 /\ window'[opened'[i]].name = window[opened[i]].name
  BY DEF SameNames
<1>4. CASE (Desktop[p] = "MEM_INSP" \/ \A i \in 1 .. n : ~Above(i, p)) /\ v = Desktop[p]
  <2>1. (\A i \in 1 .. n : ~Above(i, p)) => \A i \in 1 .. n + 1 : ~Above(i, p)'
    BY <1>1, <1>2
  <2> QED BY <1>4, <2>1 DEF Shows
<1>5. ASSUME NEW i \in 1 .. n, Above(i, p), \A j \in i + 1 .. n : ~Above(j, p),
             v = window[opened[i]].name
      PROVE  Shows(v, p, n + 1)'
  <2>1. \A j \in i + 1 .. n + 1 : j \in i + 1 .. n \/ j = n + 1
    OBVIOUS
  <2>2. \A j \in i + 1 .. n : j \in 1 .. n
    OBVIOUS
  <2>3. \A j \in i + 1 .. n + 1 : ~Above(j, p)'
    BY <1>1, <1>5, <2>1, <2>2
  <2>4. Above(i, p)' /\ i \in 1 .. n + 1 /\ v = window'[opened'[i]].name
    BY <1>1, <1>3, <1>5
  <2> QED BY <2>3, <2>4 DEF Shows
<1> QED BY <1>4, <1>5 DEF Shows

(* Writing links changes no name.                                          *)
Entry == [name : Program, next : Int, prev : Int]
SameButLinks(f, g) ==
    /\ DOMAIN f = DOMAIN g /\ f \in [DOMAIN f -> Entry]
    /\ \A a \in DOMAIN f : f[a].name = g[a].name

LEMMA LinkWritten ==
    ASSUME NEW f, f \in [DOMAIN f -> Entry], NEW a, NEW x \in Int, NEW g,
           g = [f EXCEPT ![a].prev = x] \/ g = [f EXCEPT ![a].next = x]
    PROVE  SameButLinks(g, f)
<1>1. DOMAIN g = DOMAIN f
  OBVIOUS
<1>2. ASSUME NEW c \in DOMAIN f PROVE g[c] \in Entry /\ g[c].name = f[c].name
  <2>1. PICK r : r = f[c]
    OBVIOUS
  <2>2. r \in Entry
    BY <2>1
  <2>3. CASE g = [f EXCEPT ![a].prev = x]
    <3>1. g[c] = IF c = a THEN [r EXCEPT !.prev = x] ELSE r
      BY <2>1, <2>3
    <3>2. [r EXCEPT !.prev = x] \in Entry /\ [r EXCEPT !.prev = x].name = r.name
      BY <2>2 DEF Entry
    <3> QED BY <2>1, <2>2, <3>1, <3>2
  <2>4. CASE g = [f EXCEPT ![a].next = x]
    <3>1. g[c] = IF c = a THEN [r EXCEPT !.next = x] ELSE r
      BY <2>1, <2>4
    <3>2. [r EXCEPT !.next = x] \in Entry /\ [r EXCEPT !.next = x].name = r.name
      BY <2>2 DEF Entry
    <3> QED BY <2>1, <2>2, <3>1, <3>2
  <2> QED BY <2>3, <2>4
<1>3. g = [c \in DOMAIN g |-> g[c]]
  OBVIOUS
<1>4. g \in [DOMAIN g -> Entry]
  BY <1>1, <1>2, <1>3
<1> QED BY <1>1, <1>2, <1>4 DEF SameButLinks

LEMMA LinksWritten ==
    ASSUME NEW f, f \in [DOMAIN f -> Entry], NEW a, NEW b, NEW x \in Int, NEW y \in Int, NEW h,
           h = [f EXCEPT ![a].prev = x, ![b].next = y] \/ h = [f EXCEPT ![a].next = x, ![b].prev = y]
    PROVE  SameButLinks(h, f)
<1>1. ASSUME NEW g, SameButLinks(g, f), SameButLinks(h, g) PROVE SameButLinks(h, f)
  BY <1>1 DEF SameButLinks
<1>2. CASE h = [f EXCEPT ![a].prev = x, ![b].next = y]
  <2>1. PICK g : g = [f EXCEPT ![a].prev = x]
    OBVIOUS
  <2>2. h = [g EXCEPT ![b].next = y]
    BY <1>2, <2>1
  <2>3. SameButLinks(g, f)
    BY <2>1, LinkWritten
  <2>4. g \in [DOMAIN g -> Entry]
    BY <2>3 DEF SameButLinks
  <2>5. SameButLinks(h, g)
    BY <2>2, <2>4, LinkWritten
  <2> QED BY <1>1, <2>3, <2>5
<1>3. CASE h = [f EXCEPT ![a].next = x, ![b].prev = y]
  <2>1. PICK g : g = [f EXCEPT ![a].next = x]
    OBVIOUS
  <2>2. h = [g EXCEPT ![b].prev = y]
    BY <1>3, <2>1
  <2>3. SameButLinks(g, f)
    BY <2>1, LinkWritten
  <2>4. g \in [DOMAIN g -> Entry]
    BY <2>3 DEF SameButLinks
  <2>5. SameButLinks(h, g)
    BY <2>2, <2>4, LinkWritten
  <2> QED BY <1>1, <2>3, <2>5
<1> QED BY <1>2, <1>3

LEMMA Linked ==
    ASSUME WindowsTyped, NEW w \in Nat, NEW name \in Program, create_window(w, name)
    PROVE  /\ DOMAIN window' = DOMAIN window \cup {w} /\ window' \in [DOMAIN window' -> Entry]
           /\ window'[w].name = name
           /\ \A a \in DOMAIN window : a # w => window'[a].name = window[a].name
           /\ bottom_window' \in Int /\ top_window' \in Int /\ opened' = Append(opened, w)
<1>1. PICK end, top : /\ end = IF bottom_window = NULL THEN w ELSE bottom_window
                     /\ top = IF bottom_window = NULL THEN w ELSE top_window
  OBVIOUS
<1>2. PICK rec : rec = [name |-> name, next |-> end, prev |-> top]
  OBVIOUS
<1>3. PICK new : new = Over([a \in {w} |-> rec], window)
  OBVIOUS
<1>4. end \in Int /\ top \in Int
  BY <1>1 DEF WindowsTyped
<1>5. rec \in Entry /\ rec.name = name
  BY <1>2, <1>4 DEF Entry
<1>6. /\ window' = [new EXCEPT ![end].prev = w, ![top].next = w]
      /\ bottom_window' = end /\ top_window' = w /\ opened' = Append(opened, w)
  BY <1>1, <1>2, <1>3 DEF create_window
<1>7. window \in [DOMAIN window -> Entry]
  BY DEF WindowsTyped, Entry
<1>8. /\ DOMAIN new = DOMAIN window \cup {w} /\ new[w] = rec
      /\ \A a \in DOMAIN window : a # w => new[a] = window[a]
  BY <1>3 DEF Over
<1>9. new \in [DOMAIN new -> Entry]
  <2>1. \A a \in DOMAIN new : new[a] \in Entry
    BY <1>5, <1>7, <1>8
  <2> QED BY <1>3, <2>1 DEF Over
<1>10. PICK f : f = window'
  OBVIOUS
<1>11. SameButLinks(f, new)
  <2>1. f = [new EXCEPT ![end].prev = w, ![top].next = w] /\ w \in Int
    BY <1>6, <1>10
  <2> QED BY <1>9, <2>1, LinksWritten
<1>12. /\ DOMAIN f = DOMAIN window \cup {w} /\ f \in [DOMAIN f -> Entry] /\ f[w].name = name
       /\ \A a \in DOMAIN window : a # w => f[a].name = window[a].name
  BY <1>5, <1>8, <1>11 DEF SameButLinks
<1>13. /\ DOMAIN window' = DOMAIN window \cup {w} /\ window' \in [DOMAIN window' -> Entry]
       /\ window'[w].name = name
       /\ \A a \in DOMAIN window : a # w => window'[a].name = window[a].name
  BY <1>10, <1>12, Zenon
<1>14. bottom_window' \in Int /\ top_window' \in Int /\ opened' = Append(opened, w)
  BY <1>4, <1>6
<1> QED BY <1>13, <1>14

LEMMA Retyped ==
    ASSUME NEW S, NEW T, NEW s \in Seq(T), \A i \in 1 .. Len(s) : s[i] \in S
    PROVE  s \in Seq(S)
OBVIOUS

(* The window that create_window puts on top shows, and its vault has what *)
(* was there.                                                              *)
LEMMA WindowsLink ==
    ASSUME Protocol, hdr # << >> => Sound, hdr = << >> => live = {}, SizesAssumption,
           WindowsInvariant, LinkWindow
    PROVE  WindowsInvariant'
<1> SUFFICES ASSUME OneWindow, Nested, WindowsTyped, Kept, NothingLeft
             PROVE  OneWindow' /\ Nested' /\ WindowsTyped' /\ Kept' /\ NothingLeft'
  BY DEF WindowsInvariant
<1>1. /\ todo \in Seq(HeapCall) /\ running \in Seq([task : Slot, prog : Program])
      /\ opened \in Seq(DOMAIN window \cap DOMAIN vault \cap Nat) /\ opened \in Seq(Int)
  BY DEF Protocol, Typed, WindowsTyped
<1>2. PICK c, w, n : c = todo[1] /\ w = Window /\ n = Len(opened)
  OBVIOUS
<1>3. /\ todo # << >> /\ todo' = Tail(todo) /\ UNCHANGED <<running, live>>
      /\ c.op = "link" /\ c = call
      /\ open_window(w, c.prog, Area[c.prog])
  BY <1>1, <1>2, TailOf DEF LinkWindow, Links, Calls, call, client
<1>4. n \in Nat /\ DOMAIN opened = 1 .. n
  BY <1>1, <1>2
<1>5. /\ 1 \in DOMAIN todo /\ c \in HeapCall
      /\ Len(todo) = 1 /\ Len(running) = n + 1 /\ c.task = running[n + 1].task
  <2>1. 1 \in DOMAIN todo /\ c \in HeapCall
    BY <1>1, <1>2, <1>3, TailOf
  <2>2. /\ Len(todo) = 1 /\ Len(running) = n + 1 /\ c.task = running[Len(running)].task
    BY <1>2, <1>3, <2>1 DEF Nested
  <2> QED BY <2>1, <2>2
<1>6. c.prog \in Program
  BY <1>3, <1>5 DEF HeapCall
<1>7. \A k \in DOMAIN todo : k = 1
  BY <1>1, <1>5
<1>8. n + 1 \in DOMAIN running /\ \A i \in 1 .. n : i \in DOMAIN running
  BY <1>1, <1>4, <1>5
<1>9. Has(c.task, "win")
  <2>1. ~Coming("malloc", c.task, "win")
    BY <1>2, <1>3, <1>7 DEF Coming
  <2> QED BY <1>5, <1>8, <2>1 DEF Protocol, Furnished, Role
<1>10. PICK m \in live : m.task = c.task /\ m.role = "win" /\ m.addr = w
  BY <1>2, <1>3, <1>9 DEF Has, Window, The
<1>11. /\ \A k, l \in live : k.addr = l.addr => k = l
       /\ w \in Nat
  <2>1. Sound
    BY <1>10
  <2>2. PICK a \in Blocks : m.addr = a + 1
    BY <2>1 DEF Sound, GivenOut
  <2>3. a \in Nat
    BY <2>1, <2>2 DEF Sound, Headed
  <2> QED BY <1>10, <2>1, <2>2, <2>3 DEF Sound, GivenOut
<1>12. ASSUME NEW i \in 1 .. n PROVE opened[i] # w /\ opened[i] \in DOMAIN window \cap DOMAIN vault
  <2>1. PICK k \in live : k.task = running[i].task /\ k.addr = opened[i]
    BY <1>4, <1>8 DEF Nested, WindowOf
  <2>2. running[i].task # running[n + 1].task
    BY <1>4, <1>8 DEF Protocol, Furnished
  <2>3. k # m
    BY <1>5, <1>10, <2>1, <2>2
  <2>4. opened[i] \in DOMAIN window \cap DOMAIN vault
    BY <1>1, <1>4
  <2> QED BY <1>10, <1>11, <2>1, <2>3, <2>4
<1>13. /\ create_window(w, c.prog) /\ Draw(Area[c.prog], c.prog) /\ take_snapshot(w, Area[c.prog])
  BY <1>3 DEF open_window
<1>14. /\ DOMAIN window' = DOMAIN window \cup {w} /\ window' \in [DOMAIN window' -> Entry]
       /\ window'[w].name = c.prog
       /\ \A a \in DOMAIN window : a # w => window'[a].name = window[a].name
       /\ bottom_window' \in Int /\ top_window' \in Int /\ opened' = Append(opened, w)
  BY <1>6, <1>11, <1>13, Linked
<1>15. /\ Len(opened') = n + 1 /\ DOMAIN opened' = 1 .. n + 1 /\ opened'[n + 1] = w
       /\ \A i \in 1 .. n : opened'[i] = opened[i]
  BY <1>1, <1>2, <1>14
<1>16. SameNames(n)
  BY <1>12, <1>14, <1>15 DEF SameNames
<1>17. DOMAIN screen = DOMAIN Desktop /\ Area[c.prog] \subseteq DOMAIN Desktop
  BY <1>6 DEF WindowsTyped, SizesAssumption
<1>18. /\ DOMAIN screen' = DOMAIN Desktop
       /\ \A p \in DOMAIN Desktop : screen'[p] = IF p \in Area[c.prog] THEN c.prog ELSE screen[p]
  <2>1. PICK f : f = [p \in Area[c.prog] |-> c.prog]
    OBVIOUS
  <2>2. DOMAIN f = Area[c.prog] /\ \A p \in Area[c.prog] : f[p] = c.prog
    BY <2>1
  <2>3. screen' = Over(f, screen)
    BY <1>13, <2>1 DEF Draw
  <2>4. /\ DOMAIN screen' = Area[c.prog] \cup DOMAIN screen
        /\ \A p \in DOMAIN screen' : screen'[p] = IF p \in Area[c.prog] THEN c.prog ELSE screen[p]
    BY <2>2, <2>3 DEF Over
  <2> QED BY <1>17, <2>4
<1>19. PICK f : f = [p \in Area[c.prog] |-> screen[p]]
  OBVIOUS
<1>20. DOMAIN f = Area[c.prog] /\ \A p \in Area[c.prog] : f[p] = screen[p]
  BY <1>19
<1>21. /\ DOMAIN vault' = DOMAIN vault \cup {w} /\ vault'[w] = f
       /\ \A a \in DOMAIN vault : a # w => vault'[a] = vault[a]
  BY <1>13, <1>19 DEF take_snapshot, Over
<1>22. WindowsTyped'
  <2>1. \A i \in 1 .. n + 1 : opened'[i] \in (DOMAIN window \cap DOMAIN vault \cap Nat)'
    <3>1. \A i \in 1 .. n + 1 : i \in 1 .. n \/ i = n + 1
      BY <1>4
    <3>2. \A i \in 1 .. n : opened[i] \in DOMAIN window \cap DOMAIN vault \cap Nat
      BY <1>1, <1>4
    <3> QED BY <1>11, <1>14, <1>15, <1>21, <3>1, <3>2
  <2>2. opened' \in Seq(Int)
    BY <1>1, <1>11, <1>14
  <2>3. opened' \in Seq((DOMAIN window \cap DOMAIN vault \cap Nat)')
    <3>1. PICK S, s : S = (DOMAIN window \cap DOMAIN vault \cap Nat)' /\ s = opened'
      OBVIOUS
    <3>2. s \in Seq(Int) /\ \A i \in 1 .. Len(s) : s[i] \in S
      BY <1>15, <2>1, <2>2, <3>1
    <3>3. s \in Seq(S)
      BY <3>2, Retyped
    <3> QED BY <3>1, <3>3
  <2> QED BY <1>14, <1>18, <2>3 DEF WindowsTyped, Entry
<1>23. NothingLeft'
  <2> SUFFICES ASSUME NEW p \in DOMAIN Desktop PROVE Shows(screen[p], p, Len(opened))'
    BY DEF NothingLeft
  <2>1. PICK v : v = screen'[p]
    OBVIOUS
  <2>2. Shows(v, p, n + 1)'
    <3>1. CASE p \in Area[c.prog]
      <4>1. Above(n + 1, p)' /\ v = window'[opened'[n + 1]].name
        BY <1>14, <1>15, <1>18, <2>1, <3>1 DEF Above
      <4>2. n + 1 \in 1 .. n + 1 /\ (n + 1) + 1 .. n + 1 = {}
        BY <1>4
      <4> QED BY <4>1, <4>2 DEF Shows
    <3>2. CASE p \notin Area[c.prog]
      <4>1. ~Above(n + 1, p)'
        BY <1>14, <1>15, <3>2 DEF Above
      <4>2. Shows(v, p, n)
        BY <1>2, <1>18, <2>1, <3>2 DEF NothingLeft
      <4> QED BY <1>4, <1>16, <4>1, <4>2, ShowsUnder
    <3> QED BY <3>1, <3>2
  <2> QED BY <1>15, <2>1, <2>2
<1>24. Kept'
  <2> SUFFICES ASSUME NEW i \in 1 .. n + 1
               PROVE  /\ DOMAIN vault'[opened'[i]] = Area[window'[opened'[i]].name]
                      /\ \A p \in DOMAIN vault'[opened'[i]] : Shows(vault[opened[i]][p], p, i - 1)'
    BY <1>15 DEF Kept
  <2>1. CASE i = n + 1
    <3>1. DOMAIN vault'[opened'[i]] = Area[window'[opened'[i]].name]
      BY <1>14, <1>15, <1>20, <1>21, <2>1
    <3>2. ASSUME NEW p \in DOMAIN vault'[opened'[i]] PROVE Shows(vault[opened[i]][p], p, i - 1)'
      <4>1. PICK v : v = screen[p]
        OBVIOUS
      <4>2. p \in Area[c.prog] /\ vault'[opened'[i]][p] = v
        BY <1>15, <1>20, <1>21, <2>1, <3>2, <4>1
      <4>3. Shows(v, p, n)
        BY <1>2, <1>17, <4>1, <4>2 DEF NothingLeft
      <4>4. Shows(v, p, n)'
        BY <1>4, <1>16, <4>3, ShowsSame
      <4>5. i - 1 = n
        BY <1>4, <2>1
      <4> QED BY <4>2, <4>4, <4>5
    <3> QED BY <3>1, <3>2
  <2>2. CASE i \in 1 .. n
    <3>1. vault'[opened'[i]] = vault[opened[i]] /\ window'[opened'[i]].name = window[opened[i]].name
      BY <1>12, <1>14, <1>15, <1>21, <2>2
    <3>2. DOMAIN vault'[opened'[i]] = Area[window'[opened'[i]].name]
      BY <1>4, <2>2, <3>1 DEF Kept
    <3>3. ASSUME NEW p \in DOMAIN vault'[opened'[i]] PROVE Shows(vault[opened[i]][p], p, i - 1)'
      <4>1. PICK v, k : v = vault[opened[i]][p] /\ k = i - 1
        OBVIOUS
      <4>2. Shows(v, p, k)
        BY <1>4, <2>2, <3>1, <3>3, <4>1 DEF Kept
      <4>3. k \in Nat /\ SameNames(k)
        <5>1. k \in Nat /\ \A j \in 1 .. k : j \in 1 .. n
          BY <1>4, <2>2, <4>1
        <5> QED BY <1>16, <5>1 DEF SameNames
      <4>4. Shows(v, p, k)'
        BY <4>2, <4>3, ShowsSame
      <4> QED BY <3>1, <4>1, <4>4
    <3> QED BY <3>2, <3>3
  <2> QED BY <1>4, <2>1, <2>2
<1>25. OneWindow'
  <2>1. \A t : ~IsCall(todo[1], "free", t, "win")
    BY <1>2, <1>3 DEF IsCall
  <2> QED BY <1>1, <1>3, <2>1, OneWindowLater
<1>26. Nested'
  <2>1. Len(todo') = 0 /\ DOMAIN todo' = 1 .. Len(todo')
    BY <1>1, <1>3, <1>5, TailOf
  <2>2. \A k \in DOMAIN todo' : FALSE
    BY <2>1
  <2>3. ASSUME NEW i \in DOMAIN opened' \cap DOMAIN running' PROVE WindowOf(opened[i], running[i].task)'
    <3>1. CASE i = n + 1
      BY <1>3, <1>5, <1>10, <1>15, <3>1 DEF WindowOf
    <3>2. CASE i \in 1 .. n
      <4>1. WindowOf(opened[i], running[i].task)
        BY <1>4, <1>8, <3>2 DEF Nested
      <4> QED BY <1>3, <1>15, <3>2, <4>1 DEF WindowOf
    <3> QED BY <1>4, <1>15, <2>3, <3>1, <3>2
  <2>4. Len(opened') = Len(running')
    BY <1>3, <1>5, <1>15
  <2> QED BY <2>2, <2>3, <2>4 DEF Nested
<1> QED BY <1>22, <1>23, <1>24, <1>25, <1>26

(* The window that close_window closes is the top one, and what its vault  *)
(* has is what there would be without it.                                  *)
LEMMA WindowsUnlink ==
    ASSUME Protocol, hdr # << >> => Sound, hdr = << >> => live = {}, SizesAssumption,
           WindowsInvariant, UnlinkWindow
    PROVE  WindowsInvariant'
<1> SUFFICES ASSUME OneWindow, Nested, WindowsTyped, Kept, NothingLeft
             PROVE  OneWindow' /\ Nested' /\ WindowsTyped' /\ Kept' /\ NothingLeft'
  BY DEF WindowsInvariant
<1>1. /\ todo \in Seq(HeapCall) /\ running \in Seq([task : Slot, prog : Program])
      /\ opened \in Seq(DOMAIN window \cap DOMAIN vault \cap Nat) /\ opened \in Seq(Int)
      /\ window \in [DOMAIN window -> Entry]
  BY DEF Protocol, Typed, WindowsTyped, Entry
<1>2. PICK c, w, n : c = todo[1] /\ w = Window /\ n = Len(opened)
  OBVIOUS
<1>3. /\ todo # << >> /\ todo' = Tail(todo) /\ UNCHANGED <<running, live>>
      /\ c.op = "unlink" /\ c = call /\ close_window(w)
  BY <1>1, <1>2, TailOf DEF UnlinkWindow, Links, Calls, call, client
<1>4. 1 \in DOMAIN todo /\ c \in HeapCall
  BY <1>1, <1>2, <1>3, TailOf
<1>5. /\ Len(todo) = 3 /\ n = Len(running) + 1 /\ IsCall(todo[3], "free", c.task, "win")
      /\ WindowOf(opened[n], c.task)
  <2>1. /\ Len(todo) = 1 + 2 /\ n = Len(running) + 1 /\ IsCall(todo[1 + 2], "free", c.task, "win")
        /\ WindowOf(opened[n], c.task)
    BY <1>2, <1>3, <1>4 DEF Nested, IsCall
  <2> QED BY <2>1
<1>6. /\ n \in Nat \ {0} /\ DOMAIN opened = 1 .. n /\ DOMAIN running = 1 .. n - 1
  <2>1. Len(running) \in Nat /\ DOMAIN running = 1 .. Len(running) /\ Len(running) = n - 1
    BY <1>1, <1>2, <1>5
  <2>2. n \in Nat /\ DOMAIN opened = 1 .. n
    BY <1>1, <1>2
  <2> QED BY <2>1, <2>2
<1>7. Coming("free", c.task, "win") /\ Has(c.task, "win")
  <2>1. 3 \in DOMAIN todo
    BY <1>1, <1>5
  <2> QED BY <1>5, <2>1 DEF Coming, IsCall, Protocol, FreedOnce
<1>8. PICK m \in live : m.task = c.task /\ m.role = "win" /\ m.addr = w
  BY <1>2, <1>3, <1>7 DEF Has, Window, The
<1>9. opened[n] = w
  BY <1>5, <1>8 DEF WindowOf, OneWindow
<1>10. \A k, l \in live : k.addr = l.addr => k = l
  <2>1. Sound
    BY <1>8
  <2> QED BY <2>1 DEF Sound, GivenOut
<1>11. ASSUME NEW i \in 1 .. n - 1 PROVE opened[i] # w
  <2>1. i \in DOMAIN opened \cap DOMAIN running
    BY <1>6
  <2>2. PICK k \in live : k.task = running[i].task /\ k.addr = opened[i]
    BY <2>1 DEF Nested, WindowOf
  <2>3. running[i].task # c.task
    BY <1>7, <2>1 DEF Protocol, Furnished, Role
  <2> QED BY <1>8, <1>10, <2>2, <2>3
<1>12. (CHOOSE i \in DOMAIN opened : opened[i] = w) = n
  <2>1. n \in DOMAIN opened
    BY <1>6
  <2>2. \A i \in DOMAIN opened : opened[i] = w => i = n
    BY <1>6, <1>11
  <2> QED BY <1>9, <2>1, <2>2
<1>13. /\ screen' = Over(vault[w], screen) /\ vault' = vault
       /\ window' = [window EXCEPT ![window[w].prev].next = window[w].next,
                                   ![window[w].next].prev = window[w].prev]
       /\ top_window' = TopWithout(w)
       /\ bottom_window' = IF bottom_window = w THEN window'[w].next ELSE bottom_window
       /\ opened' = RemoveAt(opened, n)
  BY <1>3, <1>12 DEF close_window, redraw_snapshot
<1>14. w \in DOMAIN window /\ w \in DOMAIN vault
  <2>1. n \in 1 .. Len(opened)
    BY <1>2, <1>6
  <2> QED BY <1>1, <1>9, <2>1
<1>15. SameButLinks(window', window)
  <2>1. window[w].next \in Int /\ window[w].prev \in Int
    BY <1>1, <1>14 DEF Entry
  <2>2. PICK a, b, h : a = window[w].prev /\ b = window[w].next /\ h = window'
    OBVIOUS
  <2>3. h = [window EXCEPT ![a].next = b, ![b].prev = a]
    BY <1>13, <2>2
  <2>4. SameButLinks(h, window)
    <3>1. PICK f : f = window
      OBVIOUS
    <3>2. f \in [DOMAIN f -> Entry] /\ h = [f EXCEPT ![a].next = b, ![b].prev = a]
      BY <1>1, <2>3, <3>1
    <3>3. a \in Int /\ b \in Int
      BY <2>1, <2>2
    <3>4. SameButLinks(h, f)
      BY <3>2, <3>3, LinksWritten
    <3> QED BY <3>1, <3>4
  <2> QED BY <2>2, <2>4
<1>16. bottom_window' \in Int /\ top_window' \in Int
  <2>1. window'[w] \in Entry
    BY <1>14, <1>15 DEF SameButLinks
  <2>2. window'[w].next \in Int /\ window'[w].prev \in Int
    BY <2>1 DEF Entry
  <2> QED BY <1>13, <2>2 DEF TopWithout, WindowsTyped
<1>17. /\ Len(opened') = n - 1 /\ DOMAIN opened' = 1 .. n - 1
       /\ \A i \in 1 .. n - 1 : opened'[i] = opened[i]
       /\ opened' \in Seq(DOMAIN window \cap DOMAIN vault \cap Nat)
  <2> DEFINE S == DOMAIN window \cap DOMAIN vault \cap Nat
             front == SubSeq(opened, 1, n - 1)
             rest == SubSeq(opened, n + 1, Len(opened))
  <2>1. opened' = front \o rest
    BY <1>13 DEF RemoveAt
  <2>2. rest = << >>
    <3>1. n + 1 \in Int /\ Len(opened) \in Int /\ ~(n + 1 <= Len(opened))
      BY <1>2, <1>6
    <3>2. \A i \in n + 1 .. Len(opened) : opened[i] \in S
      BY <3>1
    <3>3. rest \in Seq(S) /\ Len(rest) = 0
      BY <3>1, <3>2, SubSeqProperties
    <3> QED BY <3>3
  <2>3. opened # << >> /\ opened \in Seq(S)
    BY <1>1, <1>2, <1>6
  <2>4. /\ front \in Seq(S) /\ Len(front) = n - 1
        /\ \A i \in 1 .. n - 1 : front[i] = opened[i]
    BY <1>2, <2>3, AllButLast
  <2> HIDE DEF front, rest, S
  <2>5. opened' = front
    BY <2>1, <2>2, <2>4
  <2> QED BY <1>6, <2>4, <2>5 DEF S
<1>18. SameNames(n - 1)
  <2>1. \A i \in 1 .. n - 1 : opened[i] \in DOMAIN window
    BY <1>1, <1>6
  <2> QED BY <1>15, <1>17, <2>1 DEF SameNames, SameButLinks
<1>19. PICK area : area = Area[window[w].name]
  OBVIOUS
<1>20. area \subseteq DOMAIN Desktop /\ DOMAIN screen = DOMAIN Desktop
  <2>1. window[w].name \in Program
    BY <1>1, <1>14 DEF Entry
  <2> QED BY <1>19, <2>1 DEF WindowsTyped, SizesAssumption
<1>21. DOMAIN vault[w] = area /\ \A p \in area : Shows(vault[w][p], p, n - 1)
  <2>1. n \in DOMAIN opened
    BY <1>6
  <2> QED BY <1>9, <1>19, <2>1 DEF Kept
<1>22. /\ DOMAIN screen' = DOMAIN Desktop
       /\ \A p \in DOMAIN Desktop : screen'[p] = IF p \in area THEN vault[w][p] ELSE screen[p]
  <2>1. /\ DOMAIN screen' = area \cup DOMAIN screen
        /\ \A p \in DOMAIN screen' : screen'[p] = IF p \in area THEN vault[w][p] ELSE screen[p]
    BY <1>13, <1>21 DEF Over
  <2> QED BY <1>20, <2>1
<1>23. WindowsTyped'
  <2>1. DOMAIN window' = DOMAIN window /\ window' \in [DOMAIN window' -> Entry]
    BY <1>15 DEF SameButLinks
  <2>2. opened' \in Seq((DOMAIN window \cap DOMAIN vault \cap Nat)')
    BY <1>13, <1>17, <2>1
  <2> QED BY <1>16, <1>22, <2>1, <2>2 DEF WindowsTyped, Entry
<1>24. NothingLeft'
  <2> SUFFICES ASSUME NEW p \in DOMAIN Desktop PROVE Shows(screen[p], p, Len(opened))'
    BY DEF NothingLeft
  <2>1. PICK v, k : v = screen'[p] /\ k = n - 1
    OBVIOUS
  <2>2. Shows(v, p, n - 1)
    <3>1. CASE p \in area
      BY <1>21, <1>22, <2>1, <3>1
    <3>2. CASE p \notin area
      <4>1. ~Above(n, p)
        BY <1>9, <1>19, <3>2 DEF Above
      <4>2. Shows(v, p, n)
        BY <1>2, <1>22, <2>1, <3>2 DEF NothingLeft
      <4> QED BY <1>6, <4>1, <4>2, ShowsBelow
    <3> QED BY <3>1, <3>2
  <2>3. k \in Nat /\ SameNames(k) /\ Shows(v, p, k)
    BY <1>6, <1>18, <2>1, <2>2
  <2>4. Shows(v, p, k)'
    BY <2>3, ShowsSame
  <2> QED BY <1>17, <2>1, <2>4
<1>25. Kept'
  <2> SUFFICES ASSUME NEW i \in 1 .. n - 1
               PROVE  /\ DOMAIN vault'[opened'[i]] = Area[window'[opened'[i]].name]
                      /\ \A p \in DOMAIN vault'[opened'[i]] : Shows(vault[opened[i]][p], p, i - 1)'
    BY <1>17 DEF Kept
  <2>1. vault'[opened'[i]] = vault[opened[i]] /\ window'[opened'[i]].name = window[opened[i]].name
    BY <1>13, <1>17, <1>18 DEF SameNames
  <2>2. i \in DOMAIN opened
    BY <1>6
  <2>3. DOMAIN vault'[opened'[i]] = Area[window'[opened'[i]].name]
    BY <2>1, <2>2 DEF Kept
  <2>4. ASSUME NEW p \in DOMAIN vault'[opened'[i]] PROVE Shows(vault[opened[i]][p], p, i - 1)'
    <3>1. PICK v, k : v = vault[opened[i]][p] /\ k = i - 1
      OBVIOUS
    <3>2. Shows(v, p, k)
      BY <2>1, <2>2, <2>4, <3>1 DEF Kept
    <3>3. k \in Nat /\ SameNames(k)
      <4>1. k \in Nat /\ \A j \in 1 .. k : j \in 1 .. n - 1
        BY <1>6, <3>1
      <4> QED BY <1>18, <4>1 DEF SameNames
    <3>4. Shows(v, p, k)'
      BY <3>2, <3>3, ShowsSame
    <3> QED BY <2>1, <3>1, <3>4
  <2> QED BY <2>3, <2>4
<1>26. OneWindow'
  <2>1. \A t : ~IsCall(todo[1], "free", t, "win")
    BY <1>2, <1>3 DEF IsCall
  <2> QED BY <1>1, <1>3, <2>1, OneWindowLater
<1>27. Nested'
  <2>1. /\ Len(todo') = 2
        /\ \A k \in DOMAIN todo' : k \in Nat /\ k + 1 \in DOMAIN todo /\ todo'[k] = todo[k + 1]
        /\ DOMAIN todo' = 1 .. Len(todo')
    BY <1>1, <1>3, <1>5, TailOf
  <2>2. ASSUME NEW k \in DOMAIN todo' PROVE todo'[k].op \notin {"link", "unlink"}
    <3>1. k + 1 \in DOMAIN todo /\ todo'[k] = todo[k + 1] /\ k \in 1 .. 2
      BY <2>1
    <3>2. todo[k + 1].op # "link"
      <4> SUFFICES ASSUME todo[k + 1].op = "link" PROVE FALSE
        OBVIOUS
      <4>1. Len(running) = Len(opened) + 1
        BY <3>1 DEF Nested
      <4> QED BY <1>2, <1>5, <1>6, <4>1
    <3>3. todo[k + 1].op # "unlink"
      <4> SUFFICES ASSUME todo[k + 1].op = "unlink" PROVE FALSE
        OBVIOUS
      <4>1. Len(todo) = (k + 1) + 2
        BY <3>1 DEF Nested
      <4>2. Len(todo) = 3
        BY <1>5
      <4>3. k \in Nat /\ k >= 1
        BY <3>1
      <4>4. (k + 1) + 2 = 3
        BY <4>1, <4>2, Zenon
      <4> QED BY <4>3, <4>4
    <3> QED BY <3>1, <3>2, <3>3
  <2>3. ASSUME NEW i \in DOMAIN opened' \cap DOMAIN running' PROVE WindowOf(opened[i], running[i].task)'
    <3>1. i \in 1 .. n - 1 /\ i \in DOMAIN opened \cap DOMAIN running
      BY <1>3, <1>6, <1>17, <2>3
    <3>2. WindowOf(opened[i], running[i].task)
      BY <3>1 DEF Nested
    <3> QED BY <1>3, <1>17, <3>1, <3>2 DEF WindowOf
  <2>4. Len(opened') = Len(running')
    BY <1>3, <1>5, <1>6, <1>17
  <2> QED BY <2>2, <2>3, <2>4 DEF Nested
<1> QED BY <1>23, <1>24, <1>25, <1>26, <1>27

LEMMA WindowsStep ==
    ASSUME HeapInvariant, TailInvariant, WindowsInvariant, [Next]_vars, SizesAssumption
    PROVE  WindowsInvariant'
<1>1. ASSUME UNCHANGED <<todo, live, running, opened>>, WindowsTyped' /\ Kept' /\ NothingLeft'
      PROVE  WindowsInvariant'
  BY <1>1 DEF WindowsInvariant, OneWindow, Nested, Runs, Coming, Has, WindowOf
<1>2. CASE FirstPage \/ Expand \/ UNCHANGED vars
  <2>1. UNCHANGED <<todo, live, running, windows, opened>>
    BY <1>2 DEF FirstPage, Expand, vars, client, windows
  <2> QED BY <1>1, <2>1, WindowsUntouched DEF WindowsInvariant
<1>3. CASE display_heap_data
  <2>1. UNCHANGED <<todo, live, running, opened>>
    BY <1>3 DEF display_heap_data, client
  <2> QED BY <1>1, <1>3, <2>1, WindowsDrawnOver DEF WindowsInvariant
<1>4. CASE broken = "no"
  <2>1. /\ Protocol
        /\ hdr # << >> => Sound
        /\ hdr = << >> => live = {}
    BY <1>4 DEF HeapInvariant
  <2>2. CASE Allocate
    BY <2>1, <2>2, WindowsAllocate
  <2>3. CASE Free
    BY <2>1, <2>3, WindowsFree
  <2>4. CASE LinkWindow
    BY <2>1, <2>4, WindowsLink
  <2>5. CASE UnlinkWindow
    BY <2>1, <2>5, WindowsUnlink
  <2>6. CASE Exit
    BY <2>1, <2>6, WindowsExit
  <2>7. ASSUME NEW t \in Slot, Reap(t) PROVE WindowsInvariant'
    BY <2>1, <2>7, WindowsReap
  <2>8. ASSUME NEW p \in Program, NEW t \in Slot, Start(p, t) PROVE WindowsInvariant'
    BY <2>1, <2>8, WindowsStart
  <2> QED BY <1>2, <1>3, <2>2, <2>3, <2>4, <2>5, <2>6, <2>7, <2>8 DEF Next
<1>5. CASE broken # "no"
  <2>1. FirstPage \/ Expand \/ display_heap_data \/ UNCHANGED vars
    BY <1>5, NoWayOut
  <2> QED BY <1>2, <1>3, <2>1
<1> QED BY <1>4, <1>5

(* The invariant of the windows: whose memory each is, in which order they *)
(* close, and that each vault has what was on the screen before.           *)
THEOREM WindowsInvariance == Spec => []WindowsInvariant
<1>1. Init => WindowsInvariant
  <2> SUFFICES ASSUME Init PROVE WindowsInvariant
    OBVIOUS
  <2>1. /\ live = {} /\ running = << >> /\ opened = << >> /\ window = << >>
        /\ screen = Desktop /\ bottom_window = NULL /\ top_window = NULL
        /\ todo = [k \in 1 .. 2 * Boot |-> IF k % 2 = 1 THEN malloc("boot", "tcb", TCB)
                                                      ELSE malloc("boot", "stack", STACK)]
    BY DEF Init, NoHeap, InitWindows
  <2>2. \A k \in DOMAIN todo : todo[k].op = "malloc" /\ todo[k].role \in {"tcb", "stack"}
    BY <2>1 DEF malloc
  <2>3. OneWindow
    BY <2>1, <2>2 DEF OneWindow
  <2>4. Nested
    BY <2>1, <2>2 DEF Nested
  <2>5. WindowsTyped
    BY <2>1 DEF WindowsTyped, NULL
  <2>6. Kept
    BY <2>1 DEF Kept
  <2>7. NothingLeft
    BY <2>1 DEF NothingLeft, Shows
  <2> QED BY <2>3, <2>4, <2>5, <2>6, <2>7 DEF WindowsInvariant
<1>2. HeapInvariant /\ TailInvariant /\ WindowsInvariant /\ [Next]_vars => WindowsInvariant'
  BY WindowsStep, SizesAssumption
<1> QED BY <1>1, <1>2, HeapInvariance, TailInvariance, PTL DEF Spec

(* Every point shows what was drawn there: the youngest window above it    *)
(* or the desktop, for any screen, any windows and any sizes               *)
(* (create_window, close_window, take_snapshot and redraw_snapshot of      *)
(* ui.c).                                                                  *)
THEOREM NothingIsLeft == Spec => []NothingLeft
<1>1. WindowsInvariant => NothingLeft
  BY DEF WindowsInvariant
<1> QED BY <1>1, WindowsInvariance, PTL
=============================================================================
