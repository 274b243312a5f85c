-------------------------- MODULE FileSystemProofs --------------------------
(***************************************************************************)
(* Proofs about the file system, for any numbers of sectors, inodes, slots *)
(* and names, for any number of refused writes, or one power failure that  *)
(* does not come while flush_sbm has put an old inode bitmap on the disk.  *)
(***************************************************************************)
EXTENDS FileSystemInv, SequenceTheorems, WellFoundedInduction, TLAPS

(* Induction: every set of numbers has a least one.                        *)
LEMMA Least ==
    ASSUME NEW T \in SUBSET Nat, T # {}
    PROVE  \E m \in T : \A k \in T : m <= k
<1> DEFINE R == OpToRel(<, Nat)
<1>1. IsWellFoundedOn(R, Nat)
  BY NatLessThanWellFounded, Zenon
<1>2. \A x, y \in Nat : y < x => <<y, x>> \in R
  BY DEF OpToRel
<1> HIDE DEF R
<1>3. PICK x \in T : \A y \in T : ~ (<<y, x>> \in R)
  BY <1>1, WFMin
<1>4. \A y \in T : ~ (y < x)
  BY <1>2, <1>3
<1>5. \A y \in T : x <= y
  BY <1>3, <1>4
<1> QED BY <1>3, <1>5

LEMMA Induct ==
    ASSUME NEW T, 0 \in T, \A n \in Nat : n \in T => n + 1 \in T
    PROVE  Nat \subseteq T
<1> DEFINE U == Nat \ T
<1>1. SUFFICES ASSUME U # {} PROVE FALSE
  OBVIOUS
<1>2. PICK m \in U : \A k \in U : m <= k
  BY <1>1, Least
<1>3. m # 0 /\ m - 1 \in Nat /\ m - 1 \in T
  BY <1>2
<1> QED BY <1>2, <1>3

LEMMA LowestIs ==
    ASSUME NEW S \in SUBSET Nat, S # {}
    PROVE  Lowest(S) \in S /\ \A m \in S : Lowest(S) <= m
BY Least DEF Lowest

-----------------------------------------------------------------------------
(* What the assumptions say, piece by piece.                               *)
LEMMA SectorIsNat == Sector \subseteq Nat /\ 0 \in Sector
BY SizesAssumption

-----------------------------------------------------------------------------
(* The sectors of an inode, extent after extent.                           *)
Run(ext) == [j \in 1 .. ext.length |-> ext.block + j - 1]
Then(s, ext) == s \o Run(ext)
Lists(exts, n, g) ==
    g[0] = << >> /\ \A k \in 0 .. n - 1 : g[k + 1] = Then(g[k], exts[k + 1])
Begins(s, t) == Len(s) <= Len(t) /\ \A i \in 1 .. Len(s) : s[i] = t[i]

LEMMA ThenIs ==
    ASSUME NEW s \in Seq(Nat), NEW ext \in Extent
    PROVE  /\ Then(s, ext) \in Seq(Nat) /\ Begins(s, Then(s, ext))
           /\ Len(Then(s, ext)) = Len(s) + ext.length
           /\ Len(s) + 1 \in DOMAIN Then(s, ext) /\ Then(s, ext)[Len(s) + 1] = ext.block
<1>1. ext.block \in Nat /\ ext.length \in Nat \ {0}
  BY SectorIsNat DEF Extent
<1>2. \A j \in 1 .. ext.length : ext.block + j - 1 \in Nat
  BY <1>1
<1>3. 1 \in 1 .. ext.length /\ ext.block + 1 - 1 = ext.block
  BY <1>1
<1>4. Run(ext) \in Seq(Nat) /\ Len(Run(ext)) = ext.length /\ Run(ext)[1] = ext.block
  BY <1>1, <1>2, <1>3 DEF Run
<1>5. PICK r : r = Run(ext)
  OBVIOUS
<1>6. r \in Seq(Nat) /\ Len(r) \in Nat \ {0} /\ Len(r) = ext.length /\ r[1] = ext.block
  BY <1>1, <1>4, <1>5
<1>7. s \o r \in Seq(Nat) /\ Len(s \o r) = Len(s) + Len(r)
  BY <1>6
<1>8. \A i \in 1 .. Len(s) : s[i] = (s \o r)[i]
  BY <1>6
<1>9. (s \o r)[Len(s) + 1] = r[1]
  BY <1>6
<1>10. Len(s) <= Len(s \o r) /\ Len(s) + 1 \in 1 .. Len(s \o r)
  BY <1>6, <1>7
<1> QED BY <1>5, <1>6, <1>7, <1>8, <1>9, <1>10 DEF Then, Begins

LEMMA SomeList ==
    ASSUME NEW exts \in Seq(Extent)
    PROVE  \E g \in [0 .. Len(exts) -> Seq(Nat)] : Lists(exts, Len(exts), g)
<1> DEFINE T == {n \in Nat : n <= Len(exts) => \E g \in [0 .. n -> Seq(Nat)] : Lists(exts, n, g)}
<1>1. 0 \in T
  <2>1. [k \in 0 .. 0 |-> << >>] \in [0 .. 0 -> Seq(Nat)] /\ Lists(exts, 0, [k \in 0 .. 0 |-> << >>])
    BY DEF Lists
  <2> QED BY <2>1
<1>2. \A n \in Nat : n \in T => n + 1 \in T
  <2> SUFFICES ASSUME NEW n \in Nat, n + 1 <= Len(exts),
                      NEW g \in [0 .. n -> Seq(Nat)], Lists(exts, n, g)
               PROVE  \E f \in [0 .. n + 1 -> Seq(Nat)] : Lists(exts, n + 1, f)
    OBVIOUS
  <2> DEFINE f == [k \in 0 .. n + 1 |-> IF k = n + 1 THEN Then(g[n], exts[n + 1]) ELSE g[k]]
  <2>1. exts[n + 1] \in Extent /\ g[n] \in Seq(Nat) /\ Then(g[n], exts[n + 1]) \in Seq(Nat)
    <3>1. exts[n + 1] \in Extent /\ g[n] \in Seq(Nat)
      OBVIOUS
    <3> QED BY <3>1, ThenIs
  <2>2. f \in [0 .. n + 1 -> Seq(Nat)]
    BY <2>1
  <2>3. f[0] = << >>
    BY DEF Lists
  <2>4. ASSUME NEW k \in 0 .. n PROVE f[k + 1] = Then(f[k], exts[k + 1])
    <3>1. CASE k = n
      BY <3>1
    <3>2. CASE k < n
      BY <3>2 DEF Lists
    <3> QED BY <3>1, <3>2
  <2>5. n + 1 - 1 = n
    OBVIOUS
  <2> HIDE DEF f
  <2>6. Lists(exts, n + 1, f)
    BY <2>3, <2>4, <2>5 DEF Lists
  <2> QED BY <2>2, <2>6
<1> HIDE DEF T
<1>3. Nat \subseteq T
  BY <1>1, <1>2, Induct
<1> QED BY <1>3 DEF T

LEMMA OneList ==
    ASSUME NEW n \in Nat, NEW e, NEW f, NEW g, NEW h, Lists(e, n, g), Lists(f, n, h),
           \A k \in 1 .. n : e[k] = f[k]
    PROVE  \A k \in 0 .. n : g[k] = h[k]
<1> DEFINE T == {k \in Nat : k <= n => g[k] = h[k]}
<1>1. 0 \in T
  BY DEF Lists
<1>2. \A k \in Nat : k \in T => k + 1 \in T
  <2> SUFFICES ASSUME NEW k \in T, k + 1 <= n PROVE g[k + 1] = h[k + 1]
    OBVIOUS
  <2>1. g[k] = h[k] /\ e[k + 1] = f[k + 1] /\ k \in 0 .. n - 1
    OBVIOUS
  <2> QED BY <2>1 DEF Lists
<1> HIDE DEF T
<1>3. Nat \subseteq T
  BY <1>1, <1>2, Induct
<1> QED BY <1>3 DEF T

LEMMA SectorsList ==
    ASSUME NEW inode, inode.exts \in Seq(Extent)
    PROVE  \E g \in [0 .. Len(inode.exts) -> Seq(Nat)] :
              Lists(inode.exts, Len(inode.exts), g) /\ Sectors(inode) = g[Len(inode.exts)]
<1> DEFINE n == Len(inode.exts)
           Is(f) == f = [k \in 0 .. n |->
                    IF k = 0 THEN << >>
                    ELSE f[k - 1] \o [j \in 1 .. inode.exts[k].length |-> inode.exts[k].block + j - 1]]
           Does(f) == f = [k \in 0 .. n |-> IF k = 0 THEN << >> ELSE Then(f[k - 1], inode.exts[k])]
<1>1. PICK g \in [0 .. n -> Seq(Nat)] : Lists(inode.exts, n, g)
  BY SomeList
<1>2. \A k \in 0 .. n : g[k] = IF k = 0 THEN << >> ELSE Then(g[k - 1], inode.exts[k])
  <2>1. ASSUME NEW k \in 1 .. n PROVE g[k] = Then(g[k - 1], inode.exts[k])
    <3>1. k - 1 \in 0 .. n - 1 /\ (k - 1) + 1 = k
      OBVIOUS
    <3> QED BY <1>1, <3>1 DEF Lists
  <2> QED BY <1>1, <2>1 DEF Lists
<1>3. \A f : Is(f) <=> Does(f)
  BY DEF Run, Then
<1>4. Is(g)
  <2>1. g = [k \in 0 .. n |-> g[k]]
    BY <1>1
  <2>2. Does(g)
    BY <1>2, <2>1
  <2> QED BY <1>3, <2>2
<1> DEFINE s == CHOOSE f : Is(f)
<1>5. Does(s)
  BY <1>3, <1>4
<1>6. Sectors(inode) = s[n]
  BY DEF Sectors
<1> HIDE DEF s
<1>7. \A k \in 0 .. n : s[k] = IF k = 0 THEN << >> ELSE Then(s[k - 1], inode.exts[k])
  BY <1>5
<1>8. Lists(inode.exts, n, s)
  <2>1. s[0] = << >>
    BY <1>7
  <2>2. ASSUME NEW k \in 0 .. n - 1 PROVE s[k + 1] = Then(s[k], inode.exts[k + 1])
    <3>1. k + 1 \in 0 .. n /\ k + 1 # 0 /\ (k + 1) - 1 = k
      OBVIOUS
    <3> QED BY <1>7, <3>1
  <2> QED BY <2>1, <2>2 DEF Lists
<1>9. s[n] = g[n]
  BY <1>1, <1>8, OneList
<1> QED BY <1>1, <1>6, <1>9

(* A directory's first sector is that of its first extent, and those of    *)
(* the other extents are among its sectors.                                *)
LEMMA Unrolled ==
    ASSUME NEW exts \in Seq(Extent), NEW n \in Nat, n = Len(exts),
           NEW g \in [0 .. n -> Seq(Nat)], Lists(exts, n, g),
           NEW k \in 1 .. n
    PROVE  /\ exts[k] \in Extent /\ k - 1 \in 0 .. n /\ g[k - 1] \in Seq(Nat) /\ g[k] \in Seq(Nat)
           /\ g[k] = Then(g[k - 1], exts[k]) /\ Begins(g[k - 1], g[k])
<1>1. exts[k] \in Extent /\ k - 1 \in 0 .. n - 1 /\ (k - 1) + 1 = k
  OBVIOUS
<1>2. g[k] = Then(g[k - 1], exts[k])
  BY <1>1 DEF Lists
<1>3. g[k - 1] \in Seq(Nat)
  OBVIOUS
<1> QED BY <1>1, <1>2, <1>3, ThenIs

LEMMA SectorsHave ==
    ASSUME NEW inode, inode.exts \in Seq(Extent)
    PROVE  /\ Sectors(inode) \in Seq(Nat)
           /\ \A k \in DOMAIN inode.exts :
                 \E i \in DOMAIN Sectors(inode) :
                    Sectors(inode)[i] = inode.exts[k].block /\ (k = 1 <=> i = 1)
<1> DEFINE n == Len(inode.exts)
<1>1. PICK g \in [0 .. n -> Seq(Nat)] : Lists(inode.exts, n, g) /\ Sectors(inode) = g[n]
  BY SectorsList
<1>2. n \in Nat
  OBVIOUS
<1>3. ASSUME NEW k \in 0 .. n PROVE Begins(g[k], g[n])
  <2> DEFINE T == {m \in Nat : k + m <= n => Begins(g[k], g[k + m])}
  <2>1. 0 \in T
    <3>1. k + 0 = k /\ g[k] \in Seq(Nat)
      OBVIOUS
    <3> QED BY <3>1 DEF Begins
  <2>2. \A m \in Nat : m \in T => m + 1 \in T
    <3> SUFFICES ASSUME NEW m \in Nat, k + (m + 1) <= n, Begins(g[k], g[k + m])
                 PROVE  Begins(g[k], g[k + (m + 1)])
      OBVIOUS
    <3>1. k + (m + 1) \in 1 .. n /\ (k + (m + 1)) - 1 = k + m
      OBVIOUS
    <3>2. Begins(g[k + m], g[k + (m + 1)])
      BY <1>1, <1>2, <3>1, Unrolled
    <3>3. g[k] \in Seq(Nat) /\ g[k + m] \in Seq(Nat) /\ g[k + (m + 1)] \in Seq(Nat)
      <4>1. k + m \in 0 .. n /\ k + (m + 1) \in 0 .. n
        OBVIOUS
      <4> QED BY <4>1
    <3> QED BY <3>2, <3>3 DEF Begins
  <2> HIDE DEF T
  <2>3. Nat \subseteq T
    BY <2>1, <2>2, Induct
  <2>4. n - k \in Nat /\ k + (n - k) = n
    OBVIOUS
  <2>5. n - k \in T
    BY <2>3, <2>4
  <2> QED BY <2>4, <2>5 DEF T
<1>4. ASSUME NEW k \in 1 .. n
      PROVE  \E i \in DOMAIN g[n] : g[n][i] = inode.exts[k].block /\ (k = 1 <=> i = 1)
  <2>1. /\ inode.exts[k] \in Extent /\ g[k - 1] \in Seq(Nat) /\ g[k] \in Seq(Nat)
        /\ g[k] = Then(g[k - 1], inode.exts[k])
    BY <1>1, <1>2, Unrolled
  <2>2. PICK i \in Nat : i = Len(g[k - 1]) + 1
    BY <2>1
  <2>3. i \in DOMAIN g[k] /\ g[k][i] = inode.exts[k].block
    <3>1. PICK s, ext : s = g[k - 1] /\ ext = inode.exts[k]
      OBVIOUS
    <3>2. s \in Seq(Nat) /\ ext \in Extent /\ g[k] = Then(s, ext) /\ i = Len(s) + 1
      BY <2>1, <2>2, <3>1
    <3>3. Len(s) + 1 \in DOMAIN Then(s, ext) /\ Then(s, ext)[Len(s) + 1] = ext.block
      BY <3>2, ThenIs
    <3> QED BY <3>1, <3>2, <3>3
  <2>4. k \in 0 .. n /\ n \in 0 .. n
    BY <1>2
  <2>5. Begins(g[k], g[n]) /\ g[n] \in Seq(Nat)
    BY <1>3, <2>4
  <2>6. i \in DOMAIN g[n] /\ g[n][i] = inode.exts[k].block
    <3>1. PICK s \in Seq(Nat), t \in Seq(Nat) : s = g[k] /\ t = g[n]
      BY <2>1, <2>5
    <3>2. Begins(s, t) /\ i \in DOMAIN s
      BY <2>3, <2>5, <3>1
    <3>3. i \in 1 .. Len(s) /\ Len(s) \in Nat /\ Len(t) \in Nat /\ DOMAIN t = 1 .. Len(t)
      BY <3>2
    <3>4. Len(s) <= Len(t) /\ s[i] = t[i]
      BY <3>2, <3>3 DEF Begins
    <3>5. i \in DOMAIN t
      BY <3>3, <3>4
    <3> QED BY <2>3, <3>1, <3>4, <3>5
  <2>7. k = 1 => i = 1
    BY <1>1, <2>2 DEF Lists
  <2>8. ASSUME k # 1 PROVE i # 1
    <3>1. k - 1 \in 1 .. n
      BY <1>2, <2>8
    <3>2. PICK h : h = k - 1
      OBVIOUS
    <3>3. inode.exts[h] \in Extent /\ g[h - 1] \in Seq(Nat) /\ g[h] = Then(g[h - 1], inode.exts[h])
      BY <1>1, <1>2, <3>1, <3>2, Unrolled
    <3>4. Len(g[h]) = Len(g[h - 1]) + inode.exts[h].length
      BY <3>3, ThenIs
    <3>5. inode.exts[h].length \in Nat \ {0} /\ Len(g[h - 1]) \in Nat
      BY <3>3 DEF Extent
    <3> QED BY <2>2, <3>2, <3>4, <3>5
  <2> QED BY <2>6, <2>7, <2>8
<1>5. DOMAIN inode.exts = 1 .. n /\ g[n] \in Seq(Nat)
  BY <1>2
<1> HIDE DEF n
<1> QED BY <1>1, <1>4, <1>5

LEMMA SectorsNone ==
    ASSUME NEW inode, inode.exts = << >>
    PROVE  Sectors(inode) = << >>
<1>1. inode.exts \in Seq(Extent) /\ Len(inode.exts) = 0
  OBVIOUS
<1> QED BY <1>1, SectorsList DEF Lists

LEMMA SectorsOne ==
    ASSUME NEW inode, NEW s \in Sector, inode.exts = <<[block |-> s, length |-> 1]>>
    PROVE  Sectors(inode) = <<s>>
<1> DEFINE ext == [block |-> s, length |-> 1]
<1>1. ext \in Extent /\ s \in Nat
  <2>1. s \in Nat /\ 1 \in Nat \ {0}
    BY SectorIsNat
  <2> QED BY <2>1 DEF Extent
<1>2. inode.exts \in Seq(Extent) /\ Len(inode.exts) = 1 /\ inode.exts[1] = ext
  BY <1>1
<1>3. PICK g \in [0 .. 1 -> Seq(Nat)] : Lists(inode.exts, 1, g) /\ Sectors(inode) = g[1]
  BY <1>2, SectorsList
<1>4. g[0] = << >> /\ g[1] = Then(g[0], ext)
  BY <1>2, <1>3, Unrolled DEF Lists
<1>5. Run(ext) = <<s + 1 - 1>>
  BY DEF Run
<1>6. s + 1 - 1 = s
  BY <1>1
<1>7. << >> \o <<s>> = <<s>>
  OBVIOUS
<1> HIDE DEF ext
<1> QED BY <1>3, <1>4, <1>5, <1>6, <1>7 DEF Then

LEMMA LastListed ==
    ASSUME NEW x \in Seq(Extent), NEW n \in Nat, Len(x) = n + 1,
           NEW g \in [0 .. n + 1 -> Seq(Nat)], Lists(x, n + 1, g)
    PROVE  /\ g[n + 1] = Then(g[n], x[n + 1]) /\ g[n] \in Seq(Nat) /\ x[n + 1] \in Extent
           /\ Lists(x, n, g)
<1>1. \A k \in 0 .. n - 1 : k \in 0 .. (n + 1) - 1
  OBVIOUS
<1>2. n \in 0 .. (n + 1) - 1 /\ n \in 0 .. n + 1 /\ n + 1 \in 1 .. n + 1
  OBVIOUS
<1>3. g[n] \in Seq(Nat) /\ x[n + 1] \in Extent
  BY <1>2
<1>4. Lists(x, n, g)
  BY <1>1 DEF Lists
<1>5. g[n + 1] = Then(g[n], x[n + 1])
  BY <1>2 DEF Lists
<1> QED BY <1>3, <1>4, <1>5

Agree(x, y, n) == \A k \in 1 .. n : x[k] = y[k]
Is(s, t) == s = t
LEMMA SameListed ==
    \A n \in Nat : \A x, y, g, h :
        Agree(x, y, n) /\ Lists(x, n, g) /\ Lists(y, n, h) => Is(g[n], h[n])
<1> SUFFICES ASSUME NEW n \in Nat, NEW x, NEW y, NEW g, NEW h,
                    Agree(x, y, n), Lists(x, n, g), Lists(y, n, h)
             PROVE  Is(g[n], h[n])
  OBVIOUS
<1>1. \A k \in 0 .. n : g[k] = h[k]
  BY OneList DEF Agree
<1> QED BY <1>1 DEF Is

LEMMA AppendBehind ==
    ASSUME NEW s \in Seq(Nat), NEW r \in Seq(Nat), NEW e \in Nat
    PROVE  s \o Append(r, e) = Append(s \o r, e)
OBVIOUS

LEMMA SameBefore ==
    ASSUME NEW x \in Seq(Extent), NEW y \in Seq(Extent), NEW n \in Nat, Len(x) = n + 1,
           Len(y) = n + 1, Agree(x, y, n),
           NEW g \in [0 .. n + 1 -> Seq(Nat)], Lists(x, n + 1, g),
           NEW h \in [0 .. n + 1 -> Seq(Nat)], Lists(y, n + 1, h)
    PROVE  g[n] = h[n]
<1>1. Lists(x, n, g) /\ Lists(y, n, h)
  BY LastListed
<1>2. Is(g[n], h[n])
  BY <1>1, SameListed
<1> QED BY <1>2 DEF Is

LEMMA LongerExtent ==
    ASSUME NEW x \in Seq(Extent), NEW y \in Seq(Extent), NEW n \in Nat,
           Len(x) = n + 1, Len(y) = n + 1, \A k \in 1 .. n : y[k] = x[k],
           y[n + 1].block = x[n + 1].block, y[n + 1].length = x[n + 1].length + 1,
           NEW p, p.exts = x, NEW q, q.exts = y
    PROVE  Sectors(q) = Append(Sectors(p), x[n + 1].block + x[n + 1].length)
<1>1. PICK g \in [0 .. n + 1 -> Seq(Nat)] : Lists(x, n + 1, g) /\ Sectors(p) = g[n + 1]
  BY SectorsList
<1>2. PICK h \in [0 .. n + 1 -> Seq(Nat)] : Lists(y, n + 1, h) /\ Sectors(q) = h[n + 1]
  BY SectorsList
<1>3. Len(x) \in Nat /\ Len(y) \in Nat
  OBVIOUS
<1>5. /\ g[n + 1] = Then(g[n], x[n + 1]) /\ g[n] \in Seq(Nat) /\ x[n + 1] \in Extent
      /\ Lists(x, n, g)
  BY <1>1, LastListed
<1>6. h[n + 1] = Then(h[n], y[n + 1]) /\ Lists(y, n, h)
  BY <1>2, LastListed
<1>4. g[n] = h[n]
  <2>1. Agree(x, y, n)
    BY DEF Agree
  <2> QED BY <1>1, <1>2, <2>1, SameBefore
<1>14. PICK s \in Seq(Nat) : s = g[n]
  BY <1>5
<1>7. PICK u, v : u = x[n + 1].block /\ v = x[n + 1].length
  OBVIOUS
<1>8. u \in Nat /\ v \in Nat \ {0}
  BY <1>5, <1>7, SectorIsNat DEF Extent
<1>9. Run(x[n + 1]) = [j \in 1 .. v |-> u + j - 1]
  BY <1>7 DEF Run
<1>10. Run(y[n + 1]) = [j \in 1 .. v + 1 |-> u + j - 1]
  BY <1>7 DEF Run
<1>11. [j \in 1 .. v + 1 |-> u + j - 1] = Append([j \in 1 .. v |-> u + j - 1], u + v)
  <2>1. u + (v + 1) - 1 = u + v
    BY <1>8
  <2> QED BY <1>8, <2>1
<1>12. [j \in 1 .. v |-> u + j - 1] \in Seq(Nat)
  <2>1. \A j \in 1 .. v : u + j - 1 \in Nat
    BY <1>8
  <2> QED BY <1>8, <2>1
<1>13. PICK r \in Seq(Nat) : r = [j \in 1 .. v |-> u + j - 1]
  BY <1>12
<1>15. s \o Append(r, u + v) = Append(s \o r, u + v)
  BY <1>8, AppendBehind, u + v \in Nat
<1>16. g[n + 1] = s \o r
  BY <1>5, <1>9, <1>13, <1>14 DEF Then
<1>17. h[n + 1] = s \o Append(r, u + v)
  BY <1>4, <1>6, <1>10, <1>11, <1>13, <1>14 DEF Then
<1> QED BY <1>1, <1>2, <1>7, <1>15, <1>16, <1>17

LEMMA AnotherExtent ==
    ASSUME NEW x \in Seq(Extent), NEW y \in Seq(Extent), NEW n \in Nat,
           Len(x) = n, Len(y) = n + 1, \A k \in 1 .. n : y[k] = x[k],
           y[n + 1].length = 1, NEW p, p.exts = x, NEW q, q.exts = y
    PROVE  Sectors(q) = Append(Sectors(p), y[n + 1].block)
<1>1. PICK g \in [0 .. n -> Seq(Nat)] : Lists(x, n, g) /\ Sectors(p) = g[n]
  BY SectorsList
<1>2. PICK h \in [0 .. n + 1 -> Seq(Nat)] : Lists(y, n + 1, h) /\ Sectors(q) = h[n + 1]
  <2>1. q.exts \in Seq(Extent) /\ q.exts = y /\ Len(q.exts) = n + 1
    OBVIOUS
  <2>2. \E h \in [0 .. Len(q.exts) -> Seq(Nat)] :
           Lists(q.exts, Len(q.exts), h) /\ Sectors(q) = h[Len(q.exts)]
    BY <2>1, SectorsList
  <2> QED BY <2>1, <2>2
<1>3. h[n + 1] = Then(h[n], y[n + 1]) /\ y[n + 1] \in Extent /\ Lists(y, n, h)
  BY <1>2, LastListed
<1>4. g[n] = h[n]
  <2>1. Agree(x, y, n)
    BY DEF Agree
  <2>2. Lists(x, n, g) /\ Lists(y, n, h)
    BY <1>1, <1>3
  <2>3. Is(g[n], h[n])
    BY <2>1, <2>2, SameListed
  <2> QED BY <2>3 DEF Is
<1>5. g[n] \in Seq(Nat) /\ y[n + 1] \in Extent
  BY <1>1, <1>3, n \in 0 .. n
<1>6. PICK u : u = y[n + 1].block
  OBVIOUS
<1>10. PICK s \in Seq(Nat) : s = g[n]
  BY <1>5
<1>7. u \in Nat
  BY <1>5, <1>6, SectorIsNat DEF Extent
<1>8. Run(y[n + 1]) = <<u>>
  <2>1. Run(y[n + 1]) = <<u + 1 - 1>>
    BY <1>6 DEF Run
  <2>2. u + 1 - 1 = u
    BY <1>7
  <2> QED BY <2>1, <2>2
<1>9. s \o <<u>> = Append(s, u)
  BY <1>7
<1> QED BY <1>1, <1>2, <1>3, <1>4, <1>6, <1>8, <1>9, <1>10 DEF Then

(* A directory that grows has its sectors, and then the new one.           *)
LEMMA SectorsGrow ==
    ASSUME NEW inode \in InodeType, inode.dir, NEW s \in Sector, NEW big, big = add_exts(inode, s)
    PROVE  /\ Sectors(big) = Append(Sectors(inode), s)
           /\ big \in InodeType /\ big.dir /\ First(big) = First(inode)
           /\ \A j \in DOMAIN big.exts :
                 \/ j > 1 /\ big.exts[j].block = s
                 \/ j \in DOMAIN inode.exts /\ big.exts[j].block = inode.exts[j].block
<1>1. inode \in [dir : {TRUE}, exts : Seq(Extent) \ {<< >>}]
  <2>1. inode # NoInode
    BY DEF NoInode
  <2> QED BY <2>1 DEF InodeType
<1>2. PICK x \in Seq(Extent) : x = inode.exts /\ x # << >>
  BY <1>1
<1>3. PICK n \in Nat : Len(x) = n + 1
  <2>1. Len(x) \in Nat \ {0} /\ Len(x) - 1 \in Nat /\ Len(x) = (Len(x) - 1) + 1
    BY <1>2
  <2> QED BY <2>1
<1>4. x[n + 1] \in Extent /\ n + 1 \in Nat
  BY <1>3
<1>5. PICK u \in Sector, v \in Nat \ {0} : x[n + 1] = [block |-> u, length |-> v]
  BY <1>4 DEF Extent
<1>6. inode = [dir |-> TRUE, exts |-> x]
  BY <1>1, <1>2
<1>7. s \in Nat /\ u \in Nat /\ v + 1 \in Nat \ {0} /\ 1 \in Nat \ {0}
  BY SectorIsNat
<1>8. CASE s = u + v
  <2>1. PICK longer : longer = [block |-> u, length |-> v + 1]
    OBVIOUS
  <2>2. longer \in Extent
    BY <1>7, <2>1 DEF Extent
  <2>3. PICK y : y = [x EXCEPT ![n + 1] = longer]
    OBVIOUS
  <2>4. y \in Seq(Extent) /\ Len(y) = n + 1 /\ y # << >>
    BY <1>3, <2>2, <2>3
  <2>5. y[n + 1] = longer /\ \A k \in 1 .. n : y[k] = x[k]
    BY <1>3, <2>2, <2>3
  <2>6. big = [dir |-> TRUE, exts |-> y]
    <3>1. inode.exts[Len(inode.exts)].block + inode.exts[Len(inode.exts)].length = u + v
      BY <1>2, <1>3, <1>5
    <3>2. big = [inode EXCEPT !.exts[Len(inode.exts)].length = @ + 1]
      BY <1>8, <3>1 DEF add_exts
    <3>3. big = [dir |-> TRUE, exts |-> [x EXCEPT ![n + 1].length = @ + 1]]
      BY <1>2, <1>3, <1>6, <3>2
    <3>4. [x EXCEPT ![n + 1].length = @ + 1] = [x EXCEPT ![n + 1] = [x[n + 1] EXCEPT !.length = @ + 1]]
      OBVIOUS
    <3>5. [x[n + 1] EXCEPT !.length = @ + 1] = longer
      BY <1>5, <2>1
    <3> QED BY <2>3, <3>3, <3>4, <3>5
  <2>7. big.exts = y /\ big.dir /\ big \in InodeType
    BY <2>4, <2>6 DEF InodeType
  <2>8. Sectors(big) = Append(Sectors(inode), x[n + 1].block + x[n + 1].length)
    <3>1. longer.block = x[n + 1].block /\ longer.length = x[n + 1].length + 1
      BY <1>5, <2>1
    <3> QED BY <1>2, <1>3, <2>4, <2>5, <2>7, <3>1, LongerExtent
  <2>9. \A j \in 1 .. n + 1 : y[j].block = x[j].block
    <3>1. longer.block = x[n + 1].block
      BY <1>5, <2>1
    <3>2. \A j \in 1 .. n + 1 : j = n + 1 \/ j \in 1 .. n
      OBVIOUS
    <3> QED BY <2>5, <3>1, <3>2
  <2>10. DOMAIN y = 1 .. n + 1 /\ DOMAIN x = 1 .. n + 1 /\ 1 \in 1 .. n + 1
    BY <1>3, <2>4
  <2>11. x[n + 1].block + x[n + 1].length = s
    BY <1>5, <1>8
  <2> QED BY <1>2, <2>7, <2>8, <2>9, <2>10, <2>11 DEF First
<1>9. CASE s # u + v
  <2>1. PICK new : new = [block |-> s, length |-> 1]
    OBVIOUS
  <2>2. new \in Extent /\ new.block = s /\ new.length = 1
    BY <1>7, <2>1 DEF Extent
  <2>3. PICK y : y = Append(x, new)
    OBVIOUS
  <2>4. y \in Seq(Extent) /\ Len(y) = (n + 1) + 1 /\ y # << >>
    BY <1>3, <2>2, <2>3
  <2>5. y[(n + 1) + 1] = new /\ \A k \in 1 .. n + 1 : y[k] = x[k]
    BY <1>3, <2>2, <2>3
  <2>6. big = [dir |-> TRUE, exts |-> y]
    <3>1. inode.exts[Len(inode.exts)].block + inode.exts[Len(inode.exts)].length = u + v
      BY <1>2, <1>3, <1>5
    <3>2. big = [inode EXCEPT !.exts = Append(@, new)]
      BY <1>9, <2>1, <3>1 DEF add_exts
    <3> QED BY <1>6, <2>3, <3>2
  <2>7. big.exts = y /\ big.dir /\ big \in InodeType
    BY <2>4, <2>6 DEF InodeType
  <2>8. Sectors(big) = Append(Sectors(inode), s)
    <3>1. PICK m \in Nat : m = n + 1
      OBVIOUS
    <3>2. x \in Seq(Extent) /\ y \in Seq(Extent) /\ Len(x) = m /\ Len(y) = m + 1
      BY <1>3, <2>4, <3>1
    <3>3. y[m + 1] = new /\ \A k \in 1 .. m : y[k] = x[k]
      BY <2>5, <3>1
    <3>4. inode.exts = x /\ big.exts = y /\ new.length = 1 /\ new.block = s
      BY <1>2, <1>3, <2>2, <2>7
    <3>5. Sectors(big) = Append(Sectors(inode), y[m + 1].block)
      BY <3>2, <3>3, <3>4, AnotherExtent
    <3> QED BY <3>3, <3>4, <3>5
  <2>9. DOMAIN y = 1 .. (n + 1) + 1 /\ DOMAIN x = 1 .. n + 1 /\ 1 \in 1 .. n + 1
    BY <1>3, <2>4
  <2>10. \A j \in DOMAIN y : \/ j > 1 /\ y[j].block = s
                             \/ j \in DOMAIN x /\ y[j].block = x[j].block
    <3>1. \A j \in 1 .. (n + 1) + 1 : (j = (n + 1) + 1 /\ j > 1) \/ j \in 1 .. n + 1
      OBVIOUS
    <3> QED BY <2>2, <2>5, <2>9, <3>1
  <2> QED BY <1>2, <2>5, <2>7, <2>8, <2>9, <2>10 DEF First
<1> QED BY <1>8, <1>9

-----------------------------------------------------------------------------
(* Inodes, slots and what the operators return.                            *)

LEMMA Sizes ==
    /\ INODES \in Nat \ {0} /\ INODES_PER_SECTOR \in Nat \ {0} /\ MaxFaults \in Nat
    /\ SLOTS \in Nat /\ SLOTS > 2 /\ MAX_DIR_ENTRIES \in Nat /\ MAX_DIR_ENTRIES >= SLOTS
    /\ INODES_PER_SECTOR <= SLOTS - 2
BY SizesAssumption, SectorAssumption

LEMMA Inodes == Inode = 0 .. INODES - 1 /\ Inode \subseteq Nat /\ Root = 0 /\ Root \in Inode
BY Sizes DEF Inode, Root

(* Where the k-th entry is: slot k % SLOTS of sector k \div SLOTS.         *)
LEMMA Slots ==
    ASSUME NEW k \in Nat
    PROVE  k \div SLOTS \in Nat /\ k % SLOTS \in 0 .. SLOTS - 1
           /\ (k < SLOTS <=> k \div SLOTS = 0) /\ (k < SLOTS => k % SLOTS = k)
<1>1. SLOTS \in Nat /\ SLOTS > 0
  BY Sizes
<1>2. k \div SLOTS \in Nat /\ k % SLOTS \in 0 .. SLOTS - 1 /\ k = SLOTS * (k \div SLOTS) + (k % SLOTS)
  BY <1>1
<1>3. k < SLOTS => k \div SLOTS = 0 /\ k % SLOTS = k
  BY <1>1
<1>4. k \div SLOTS = 0 => k < SLOTS
  BY <1>1, <1>2
<1> QED BY <1>2, <1>3, <1>4

LEMMA SameSector ==
    ASSUME NEW m \in Nat, NEW n \in Nat, SectorOf(m) = SectorOf(n)
    PROVE  m < n + INODES_PER_SECTOR
<1>1. PICK d \in Nat \ {0} : d = INODES_PER_SECTOR
  BY Sizes
<1>2. m = d * (m \div d) + (m % d) /\ m % d \in 0 .. d - 1 /\ m \div d \in Nat
  BY <1>1
<1>3. n = d * (n \div d) + (n % d) /\ n % d \in 0 .. d - 1 /\ n \div d \in Nat
  BY <1>1
<1>4. m \div d = n \div d
  BY <1>1 DEF SectorOf
<1>5. PICK q \in Nat : q = m \div d
  BY <1>2
<1>6. d * q \in Nat
  BY <1>5
<1> QED BY <1>1, <1>2, <1>3, <1>4, <1>5, <1>6

LEMMA OneSectorHas ==
    ASSUME NEW x \in OneSector
    PROVE  /\ x \in InodeType /\ x.dir \in BOOLEAN /\ (x.dir => x # NoInode)
           /\ ~x.dir => x = NoInode /\ Sectors(x) = << >>
           /\ x.dir => /\ First(x) \in Sector /\ Sectors(x) = <<First(x)>>
                       /\ x.exts = <<[block |-> First(x), length |-> 1]>>
<1>1. CASE x = NoInode
  <2>1. x.exts = << >> /\ x.dir = FALSE
    BY <1>1 DEF NoInode
  <2> QED BY <1>1, <2>1, SectorsNone DEF InodeType
<1>2. CASE x # NoInode
  <2>1. PICK s \in Sector : x = [dir |-> TRUE, exts |-> <<[block |-> s, length |-> 1]>>]
    BY <1>2 DEF OneSector
  <2>2. x.exts = <<[block |-> s, length |-> 1]>> /\ x.dir = TRUE /\ First(x) = s
    BY <2>1 DEF First
  <2>3. Sectors(x) = <<s>>
    BY <2>2, SectorsOne
  <2>4. x \in InodeType
    <3>1. s \in Nat /\ 1 \in Nat \ {0}
      BY SectorIsNat
    <3>2. [block |-> s, length |-> 1] \in Extent
      BY <3>1 DEF Extent
    <3>3. PICK e : e = [block |-> s, length |-> 1]
      OBVIOUS
    <3>4. <<e>> \in Seq(Extent) /\ <<e>> # << >>
      BY <3>2, <3>3
    <3> QED BY <2>1, <3>3, <3>4 DEF InodeType
  <2> QED BY <1>2, <2>2, <2>3, <2>4
<1> QED BY <1>1, <1>2

LEMMA InodeHas ==
    ASSUME NEW x \in InodeType
    PROVE  /\ x.dir \in BOOLEAN /\ (x.dir => x # NoInode)
           /\ ~x.dir => x = NoInode /\ Sectors(x) = << >> /\ x.exts = << >>
           /\ x.dir => /\ x.exts \in Seq(Extent) /\ 1 \in DOMAIN x.exts /\ First(x) \in Sector
                       /\ DOMAIN x.exts = 1 .. Len(x.exts) /\ Len(x.exts) \in Nat \ {0}
                       /\ \A j \in DOMAIN x.exts : x.exts[j].block \in Sector
                       /\ Sectors(x) \in Seq(Nat) /\ 1 \in DOMAIN Sectors(x)
                       /\ Sectors(x)[1] = First(x)
<1>1. CASE x = NoInode
  <2>1. x.exts = << >> /\ x.dir = FALSE
    BY <1>1 DEF NoInode
  <2> QED BY <1>1, <2>1, SectorsNone
<1>2. CASE x # NoInode
  <2>1. x \in [dir : {TRUE}, exts : Seq(Extent) \ {<< >>}]
    BY <1>2 DEF InodeType
  <2>2. x.dir = TRUE /\ x.exts \in Seq(Extent) /\ x.exts # << >>
    BY <2>1
  <2>3. DOMAIN x.exts = 1 .. Len(x.exts) /\ Len(x.exts) \in Nat \ {0}
    BY <2>2
  <2>4. \A j \in DOMAIN x.exts : x.exts[j].block \in Sector
    <3>1. \A j \in DOMAIN x.exts : x.exts[j] \in Extent
      BY <2>2
    <3> QED BY <3>1 DEF Extent
  <2>5. 1 \in DOMAIN x.exts
    BY <2>3
  <2>6. Sectors(x) \in Seq(Nat) /\ 1 \in DOMAIN Sectors(x) /\ Sectors(x)[1] = First(x)
    BY <2>2, <2>5, SectorsHave DEF First
  <2> QED BY <1>2, <2>2, <2>3, <2>4, <2>5, <2>6 DEF First
<1> QED BY <1>1, <1>2

(* A new directory.                                                        *)
LEMMA OneSectorIs ==
    ASSUME NEW s \in Sector, NEW x, x = [dir |-> TRUE, exts |-> <<[block |-> s, length |-> 1]>>]
    PROVE  x \in OneSector /\ x.dir /\ First(x) = s /\ Sectors(x) = <<s>> /\ x.exts[1].block = s
           /\ DOMAIN x.exts = {1}
<1>1. x \in OneSector /\ x.dir = TRUE /\ x.exts = <<[block |-> s, length |-> 1]>> /\ First(x) = s
  BY DEF OneSector, First
<1>2. DOMAIN x.exts = {1}
  BY <1>1
<1> QED BY <1>1, <1>2, SectorsOne

(* The inode that is taken is next to those in use.                        *)
LEMMA FdiIs ==
    ASSUME NEW S, Segment(S), NEW n, n = fdi(S), n # NOWHERE
    PROVE  /\ n \in Inode \ S /\ n # Root /\ \A m \in S : m < n
           /\ Segment(S \cup {n}) /\ n + 1 \notin S /\ n + 1 # n
<1>1. S \subseteq Inode /\ Root \in S /\ \A k \in S : 0 .. k \subseteq S
  BY DEF Segment
<1>2. Inode \ S # {} /\ n = Lowest(Inode \ S) /\ Inode \ S \in SUBSET Nat
  BY Inodes DEF fdi
<1>3. n \in Inode \ S /\ \A m \in Inode \ S : n <= m
  BY <1>2, LowestIs
<1>4. ASSUME NEW m \in S PROVE m < n
  <2>1. m \in Nat /\ n \in Nat
    BY <1>1, <1>3, Inodes
  <2>2. m >= n => n \in 0 .. m
    BY <2>1
  <2> QED BY <1>1, <1>3, <2>1, <2>2
<1>5. 0 .. n \subseteq S \cup {n}
  <2>1. n \in 0 .. INODES - 1 /\ INODES \in Nat
    BY <1>3, Inodes, Sizes
  <2>2. ASSUME NEW k \in 0 .. n, k # n PROVE k \in S
    <3>1. k \in Inode /\ k < n
      BY <2>1, <2>2, Inodes
    <3> QED BY <1>3, <2>1, <3>1
  <2> QED BY <2>2
<1>6. n + 1 \notin S /\ n + 1 # n
  <2>1. n \in Nat
    BY <1>3, Inodes
  <2>2. ~ n + 1 < n
    BY <2>1
  <2> QED BY <1>4, <2>1, <2>2
<1>7. Segment(S \cup {n})
  <2>1. \A k \in S : 0 .. k \subseteq S \cup {n}
    BY <1>1
  <2> QED BY <1>1, <1>3, <1>5, <2>1 DEF Segment
<1> QED BY <1>1, <1>3, <1>4, <1>6, <1>7

LEMMA FdiFull ==
    ASSUME NEW S, Segment(S), fdi(S) = NOWHERE
    PROVE  S = Inode
<1>1. CASE Inode \ S = {}
  BY <1>1 DEF Segment
<1>2. CASE Inode \ S # {}
  <2>1. Lowest(Inode \ S) \in Inode
    <3>1. Inode \ S \in SUBSET Nat
      BY Inodes
    <3> QED BY <1>2, <3>1, LowestIs
  <2>2. Lowest(Inode \ S) = -1
    BY <1>2 DEF fdi, NOWHERE
  <2> QED BY <2>1, <2>2, Inodes
<1> QED BY <1>1, <1>2

LEMMA FdsIs ==
    ASSUME NEW S, Sector \ S # {}
    PROVE  fds(S) \in Sector \ S
<1>1. Sector \ S \in SUBSET Nat
  BY SectorIsNat
<1> QED BY <1>1, LowestIs DEF fds

(* The slot that is taken is the first without a name.                     *)
LEMMA SlotIs ==
    ASSUME NEW slot, slot = find_free_dir_slot, slot # NOWHERE
    PROVE  /\ slot \in 2 .. MAX_DIR_ENTRIES - 1 /\ entries[slot].name = ""
           /\ \A k \in 2 .. MAX_DIR_ENTRIES - 1 : k < slot => entries[k].name # ""
<1> DEFINE free == {k \in 2 .. MAX_DIR_ENTRIES - 1 : entries[k].name = ""}
<1>1. free # {} /\ slot = Lowest(free)
  BY DEF find_free_dir_slot
<1>5. MAX_DIR_ENTRIES - 1 \in Int /\ \A k \in 2 .. MAX_DIR_ENTRIES - 1 : k \in Nat
  BY Sizes
<1>2. free \in SUBSET Nat
  BY <1>5
<1>3. slot \in free /\ \A k \in free : slot <= k
  <2> HIDE DEF free
  <2> QED BY <1>1, <1>2, LowestIs
<1>4. \A k \in 2 .. MAX_DIR_ENTRIES - 1 : k < slot => ~ slot <= k
  <2>1. slot \in Nat
    BY <1>3, <1>5
  <2> QED BY <2>1, <1>5
<1> QED BY <1>3, <1>4

-----------------------------------------------------------------------------
(* The sequence of writes that is left.                                    *)

LEMMA TailIs ==
    ASSUME NEW S, NEW p \in Seq(S), p # << >>
    PROVE  /\ Tail(p) \in Seq(S) /\ Len(p) \in Nat \ {0} /\ Len(Tail(p)) = Len(p) - 1
           /\ DOMAIN p = 1 .. Len(p) /\ DOMAIN Tail(p) = 1 .. Len(p) - 1
           /\ Head(p) = p[1] /\ \A k \in 1 .. Len(p) - 1 : Tail(p)[k] = p[k + 1]
<1>1. Tail(p) \in Seq(S) /\ Len(Tail(p)) = Len(p) - 1 /\ \A k \in 1 .. Len(Tail(p)) : Tail(p)[k] = p[k + 1]
  BY HeadTailProperties
<1>2. PICK t \in Seq(S) : t = Tail(p)
  BY <1>1
<1>3. DOMAIN t = 1 .. Len(t)
  OBVIOUS
<1>4. Len(p) \in Nat \ {0} /\ DOMAIN p = 1 .. Len(p) /\ Head(p) = p[1]
  OBVIOUS
<1> QED BY <1>1, <1>2, <1>3, <1>4

(* The last writes of an operation.                                        *)
LEMMA LastOfIs ==
    ASSUME NEW S, NEW s \in Seq(S), NEW m \in 0 .. Len(s), NEW p, p = LastOf(s, m)
    PROVE  /\ p \in Seq(S) /\ Len(p) = m /\ (p = << >> <=> m = 0)
           /\ m > 0 => /\ Head(p) = s[Len(s) - m + 1] /\ Len(s) - m + 1 \in DOMAIN s
                       /\ m - 1 \in 0 .. Len(s) /\ Tail(p) = LastOf(s, m - 1)
<1>1. PICK l \in Nat : l = Len(s) /\ DOMAIN s = 1 .. l /\ \A k \in 1 .. l : s[k] \in S
  OBVIOUS
<1>2. m \in 0 .. l /\ p = [k \in 1 .. m |-> s[l - m + k]]
  BY <1>1 DEF LastOf
<1>3. \A k \in 1 .. m : l - m + k \in 1 .. l
  BY <1>2
<1>4. p \in Seq(S) /\ Len(p) = m
  BY <1>1, <1>2, <1>3
<1>5. p = << >> <=> m = 0
  BY <1>4
<1>6. ASSUME m > 0
      PROVE  /\ Head(p) = s[l - m + 1] /\ l - m + 1 \in 1 .. l
             /\ m - 1 \in 0 .. l /\ Tail(p) = LastOf(s, m - 1)
  <2>1. p # << >> /\ Head(p) = p[1] /\ 1 \in 1 .. m
    BY <1>2, <1>4, <1>5, <1>6
  <2>2. Head(p) = s[l - m + 1]
    BY <1>2, <2>1
  <2>3. PICK t \in Seq(S) : t = Tail(p)
    BY <1>4, <2>1, TailIs
  <2>4. Len(t) = m - 1 /\ \A k \in 1 .. m - 1 : t[k] = p[k + 1]
    BY <1>2, <1>4, <2>1, <2>3, TailIs
  <2>5. \A k \in 1 .. m - 1 : t[k] = s[l - (m - 1) + k]
    <3>1. ASSUME NEW k \in 1 .. m - 1 PROVE p[k + 1] = s[l - (m - 1) + k]
      <4>1. k + 1 \in 1 .. m /\ l - m + (k + 1) = l - (m - 1) + k
        BY <1>2
      <4> QED BY <1>2, <4>1
    <3> QED BY <2>4, <3>1
  <2>6. t = [k \in 1 .. m - 1 |-> s[l - (m - 1) + k]]
    <3>1. m - 1 \in Nat
      BY <1>2, <1>6
    <3>2. t = [k \in 1 .. m - 1 |-> t[k]]
      BY <2>4, <3>1
    <3> QED BY <2>5, <3>2
  <2>7. l - m + 1 \in 1 .. l /\ m - 1 \in 0 .. l
    BY <1>2, <1>6
  <2> QED BY <1>1, <2>2, <2>3, <2>6, <2>7 DEF LastOf
<1> QED BY <1>1, <1>4, <1>5, <1>6

(* The first element of p, and t behind it.                                *)
Splits(p, t) ==
    /\ \A k \in DOMAIN p : k # 1 => k - 1 \in DOMAIN t /\ p[k] = t[k - 1]
    /\ \A k \in DOMAIN t : k + 1 \in DOMAIN p /\ p[k + 1] = t[k]
LEMMA RestHas ==
    ASSUME NEW S, NEW writes \in Seq(S), Rest(writes)
    PROVE  /\ pending \in Seq(S) /\ Len(pending) <= Len(writes)
           /\ pending # << >> =>
                /\ Len(pending) > 0
                /\ Len(writes) - Len(pending) + 1 \in DOMAIN writes
                /\ Head(pending) = writes[Len(writes) - Len(pending) + 1]
                /\ \E m \in 0 .. Len(writes) : Tail(pending) = LastOf(writes, m)
                /\ Len(Tail(pending)) = Len(pending) - 1
                /\ Head(pending) = pending[1] /\ 1 \in DOMAIN pending
                /\ Splits(pending, Tail(pending))
<1>1. PICK m \in 0 .. Len(writes) : pending = LastOf(writes, m)
  BY DEF Rest
<1>2. PICK p : p = pending
  OBVIOUS
<1>3. p = LastOf(writes, m)
  BY <1>1, <1>2
<1>4. p \in Seq(S) /\ Len(p) = m /\ (p = << >> <=> m = 0)
      /\ (m > 0 => /\ Head(p) = writes[Len(writes) - m + 1] /\ Len(writes) - m + 1 \in DOMAIN writes
                   /\ m - 1 \in 0 .. Len(writes) /\ Tail(p) = LastOf(writes, m - 1))
  BY <1>3, LastOfIs
<1>5. Len(writes) \in Nat /\ m \in Nat
  OBVIOUS
<1>6. ASSUME p # << >>
      PROVE  /\ Len(Tail(p)) = Len(p) - 1 /\ Len(p) > 0 /\ Head(p) = p[1] /\ 1 \in DOMAIN p
             /\ Splits(p, Tail(p))
  <2>1. PICK l, t : /\ l \in Nat \ {0} /\ l = Len(p) /\ DOMAIN p = 1 .. l /\ DOMAIN t = 1 .. l - 1
                    /\ \A k \in 1 .. l - 1 : t[k] = p[k + 1]
                    /\ Len(t) = l - 1 /\ t = Tail(p) /\ Head(p) = p[1]
    BY <1>4, <1>6, TailIs
  <2>2. \A k \in DOMAIN p : k # 1 => k - 1 \in DOMAIN t /\ p[k] = t[k - 1]
    <3>1. ASSUME NEW k \in 1 .. l, k # 1 PROVE k - 1 \in DOMAIN t /\ p[k] = t[k - 1]
      <4>1. PICK i \in 1 .. l - 1 : i = k - 1 /\ k = i + 1
        BY <2>1, <3>1
      <4> QED BY <2>1, <4>1
    <3>2. DOMAIN p = 1 .. l
      BY <2>1
    <3> QED BY <3>1, <3>2, Zenon
  <2>3. \A k \in DOMAIN t : k + 1 \in DOMAIN p /\ p[k + 1] = t[k]
    <3>1. l \in Nat
      BY <2>1
    <3>2. \A k \in 1 .. l - 1 : k + 1 \in 1 .. l
      BY <3>1
    <3> QED BY <2>1, <3>2
  <2>4. Len(t) = Len(p) - 1 /\ Len(p) > 0 /\ 1 \in DOMAIN p
    BY <2>1
  <2>5. Splits(p, t)
    BY <2>2, <2>3 DEF Splits
  <2>6. t = Tail(p)
    BY <2>1
  <2>7. Splits(p, Tail(p)) /\ Len(Tail(p)) = Len(p) - 1
    BY <2>4, <2>5, <2>6, Zenon
  <2> QED BY <2>1, <2>4, <2>7
<1>7. ASSUME p # << >>
      PROVE  /\ Head(p) = writes[Len(writes) - Len(p) + 1] /\ Len(writes) - Len(p) + 1 \in DOMAIN writes
             /\ \E i \in 0 .. Len(writes) : Tail(p) = LastOf(writes, i)
  <2>1. m > 0
    BY <1>4, <1>5, <1>7
  <2> QED BY <1>4, <2>1
<1>8. pending \in Seq(S) /\ Len(pending) <= Len(writes)
  BY <1>2, <1>4, <1>5
<1>9. ASSUME pending # << >>
      PROVE  /\ Len(pending) > 0
             /\ Len(writes) - Len(pending) + 1 \in DOMAIN writes
             /\ Head(pending) = writes[Len(writes) - Len(pending) + 1]
             /\ \E i \in 0 .. Len(writes) : Tail(pending) = LastOf(writes, i)
             /\ Len(Tail(pending)) = Len(pending) - 1
  BY <1>2, <1>6, <1>7, <1>9
<1>10. ASSUME pending # << >>
      PROVE  /\ Head(pending) = pending[1] /\ 1 \in DOMAIN pending
             /\ Splits(pending, Tail(pending))
  BY <1>2, <1>6, <1>10
<1> QED BY <1>8, <1>9, <1>10

LEMMA Concats ==
    ASSUME NEW S, NEW v \in S, NEW w \in S, NEW x \in S, NEW y \in S, NEW z \in S
    PROVE  /\ <<v>> \o <<w, x>> = <<v, w, x>> /\ <<v, w, x>> \o <<y>> = <<v, w, x, y>>
           /\ <<v, w, x, y>> \o <<z>> = <<v, w, x, y, z>>
<1>1. /\ <<v>> \in Seq(S) /\ <<y>> \in Seq(S) /\ <<z>> \in Seq(S) /\ <<w, x>> \in Seq(S)
      /\ <<v, w, x>> \in Seq(S) /\ <<v, w, x, y>> \in Seq(S) /\ <<v, w, x, y, z>> \in Seq(S)
  OBVIOUS
<1>2. <<v>> \o <<w, x>> = <<v, w, x>>
  <2>1. PICK r \in Seq(S) : r = <<v>> \o <<w, x>>
    BY <1>1, ConcatProperties
  <2>2. Len(r) = 3 /\ r[1] = v /\ r[2] = w /\ r[3] = x
    BY <1>1, <2>1, ConcatProperties
  <2>3. PICK t \in Seq(S) : t = <<v, w, x>>
    BY <1>1
  <2>4. Len(t) = 3 /\ t[1] = v /\ t[2] = w /\ t[3] = x
    BY <2>3
  <2>5. r = t
    BY <2>2, <2>4
  <2> QED BY <2>1, <2>3, <2>5
<1>3. <<v, w, x>> \o <<y>> = <<v, w, x, y>>
  <2>1. PICK r \in Seq(S) : r = <<v, w, x>> \o <<y>>
    BY <1>1, ConcatProperties
  <2>2. Len(r) = 4 /\ r[1] = v /\ r[2] = w /\ r[3] = x /\ r[4] = y
    BY <1>1, <2>1, ConcatProperties
  <2>3. PICK t \in Seq(S) : t = <<v, w, x, y>>
    BY <1>1
  <2>4. Len(t) = 4 /\ t[1] = v /\ t[2] = w /\ t[3] = x /\ t[4] = y
    BY <2>3
  <2>5. r = t
    BY <2>2, <2>4
  <2> QED BY <2>1, <2>3, <2>5
<1>4. <<v, w, x, y>> \o <<z>> = <<v, w, x, y, z>>
  <2>1. PICK r \in Seq(S) : r = <<v, w, x, y>> \o <<z>>
    BY <1>1, ConcatProperties
  <2>2. Len(r) = 5 /\ r[1] = v /\ r[2] = w /\ r[3] = x /\ r[4] = y /\ r[5] = z
    BY <1>1, <2>1, ConcatProperties
  <2>3. PICK t \in Seq(S) : t = <<v, w, x, y, z>>
    BY <1>1
  <2>4. Len(t) = 5 /\ t[1] = v /\ t[2] = w /\ t[3] = x /\ t[4] = y /\ t[5] = z
    BY <2>3
  <2>5. r = t
    BY <2>2, <2>4
  <2> QED BY <2>1, <2>3, <2>5
<1> QED BY <1>2, <1>3, <1>4

LEMMA Concat ==
    ASSUME NEW S, NEW y \in S, NEW z \in S
    PROVE  << >> \o <<y>> = <<y>> /\ <<y>> \o <<z>> = <<y, z>>
<1>1. <<y>> \in Seq(S) /\ <<z>> \in Seq(S) /\ <<y, z>> \in Seq(S)
  OBVIOUS
<1>2. PICK r \in Seq(S) : r = <<y>> \o <<z>>
  BY <1>1, ConcatProperties
<1>3. Len(r) = 2 /\ r[1] = y /\ r[2] = z
  BY <1>1, <1>2, ConcatProperties
<1>4. PICK t \in Seq(S) : t = <<y, z>>
  BY <1>1
<1>5. Len(t) = 2 /\ t[1] = y /\ t[2] = z
  BY <1>4
<1>6. r = t
  BY <1>3, <1>5
<1>7. << >> \o <<y>> = <<y>>
  OBVIOUS
<1> QED BY <1>2, <1>4, <1>6, <1>7

LEMMA LastOfAll ==
    ASSUME NEW S, NEW s \in Seq(S)
    PROVE  \E m \in 0 .. Len(s) : s = LastOf(s, m)
<1>1. PICK l \in Nat : l = Len(s) /\ DOMAIN s = 1 .. l
  OBVIOUS
<1>2. s = [k \in 1 .. l |-> s[k]]
  BY <1>1
<1>3. \A k \in 1 .. l : l - l + k = k
  OBVIOUS
<1>4. s = LastOf(s, l)
  BY <1>1, <1>2, <1>3 DEF LastOf
<1> QED BY <1>1, <1>4

LEMMA Sequence ==
    ASSUME NEW v, NEW w, NEW x, NEW y, NEW z
    PROVE  \E S : <<v, w, x, y, z>> \in Seq(S) /\ <<y, z>> \in Seq(S)
<1>1. PICK S : v \in S /\ w \in S /\ x \in S /\ y \in S /\ z \in S
  <2>1. v \in {v, w, x, y, z} /\ w \in {v, w, x, y, z} /\ x \in {v, w, x, y, z}
        /\ y \in {v, w, x, y, z} /\ z \in {v, w, x, y, z}
    OBVIOUS
  <2> QED BY <2>1
<1>2. <<v, w, x, y, z>> \in Seq(S) /\ <<y, z>> \in Seq(S)
  BY <1>1
<1> QED BY <1>2

(* The writes of init_directory, flush_ibm and flush_inode.                *)
LEMMA FiveWrites ==
    ASSUME NEW v, NEW w, NEW x, NEW y, NEW z
    PROVE  /\ <<v>> \o <<w, x>> \o <<y>> \o <<z>> = <<v, w, x, y, z>>
           /\ <<y>> \o <<z>> = <<y, z>>
<1>1. PICK S : v \in S /\ w \in S /\ x \in S /\ y \in S /\ z \in S
  <2>1. v \in {v, w, x, y, z} /\ w \in {v, w, x, y, z} /\ x \in {v, w, x, y, z}
        /\ y \in {v, w, x, y, z} /\ z \in {v, w, x, y, z}
    OBVIOUS
  <2> QED BY <2>1
<1>2. /\ <<v>> \o <<w, x>> = <<v, w, x>> /\ <<v, w, x>> \o <<y>> = <<v, w, x, y>>
      /\ <<v, w, x, y>> \o <<z>> = <<v, w, x, y, z>>
  BY <1>1, Concats
<1>3. <<y>> \o <<z>> = <<y, z>>
  BY <1>1, Concat
<1> QED BY <1>2, <1>3, Zenon

-----------------------------------------------------------------------------
(* What the types give, and sectors that are added.                        *)

LEMMA TypedHas ==
    ASSUME Typed
    PROVE  /\ disk.data \in [Sector -> Block] /\ disk.inodes \in [Inode -> OneSector]
           /\ disk.sbm \subseteq Sector /\ Segment(disk.ibm) /\ disk.ibm \subseteq Inode
           /\ b \subseteq Sector /\ Segment(inodebm) /\ inodebm \subseteq Inode
           /\ inode_table \in [Inode -> InodeType]
           /\ cwd \in inodebm /\ cwd \in Inode /\ cwd \in Nat /\ inode_table[cwd].dir
           /\ Root \in inodebm /\ inode_table[Root].dir
           /\ entries \in [0 .. MAX_DIR_ENTRIES - 1 -> Entry]
BY Inodes DEF Typed, Known, Segment

(* A directory gets the next sector.                                       *)
LEMMA OwnGrown ==
    ASSUME NEW inodes \in [Inode -> InodeType], NEW map, OwnSectors(inodes, map),
           NEW c \in Inode, inodes[c].dir, NEW s, s \notin map,
           NEW big \in InodeType, big.dir, Sectors(big) = Append(Sectors(inodes[c]), s)
    PROVE  OwnSectors([inodes EXCEPT ![c] = big], map \cup {s})
<1> DEFINE new == [inodes EXCEPT ![c] = big]
           Old(m, i) == inodes[m].dir /\ i \in DOMAIN Sectors(inodes[m])
                        /\ Sectors(new[m])[i] = Sectors(inodes[m])[i]
           Added(m, i) == m = c /\ i = Len(Sectors(inodes[c])) + 1 /\ Sectors(new[m])[i] = s
<1>1. ASSUME NEW m \in DirectoriesOf(new), NEW i \in DOMAIN Sectors(new[m])
      PROVE  Old(m, i) \/ Added(m, i)
  <2>1. m \in Inode /\ new[m].dir
    BY DEF DirectoriesOf
  <2>2. CASE m = c
    <3>1. new[m] = big
      BY <2>1, <2>2
    <3>2. PICK t \in Seq(Nat) : t = Sectors(inodes[c])
      BY InodeHas
    <3>3. i \in DOMAIN Append(t, s) /\ Sectors(new[m]) = Append(t, s)
      BY <3>1, <3>2
    <3>4. \/ i \in DOMAIN t /\ Append(t, s)[i] = t[i]
          \/ i = Len(t) + 1 /\ Append(t, s)[i] = s
      BY <3>3
    <3> QED BY <2>2, <3>2, <3>3, <3>4
  <2>3. CASE m # c
    BY <2>1, <2>3
  <2> QED BY <2>2, <2>3
<1>2. ASSUME NEW m, NEW i, Old(m, i), m \in Inode PROVE Sectors(new[m])[i] \in map
  BY <1>2 DEF OwnSectors, DirectoriesOf
<1>3. ASSUME NEW m, NEW i, NEW n, NEW j, Old(m, i), Old(n, j), m \in Inode, n \in Inode,
             Sectors(new[m])[i] = Sectors(new[n])[j]
      PROVE  m = n /\ i = j
  BY <1>3 DEF OwnSectors, DirectoriesOf
<1>4. \A m \in DirectoriesOf(new) : m \in Inode
  BY DEF DirectoriesOf
<1>5. ASSUME NEW m \in DirectoriesOf(new), NEW i \in DOMAIN Sectors(new[m])
      PROVE  /\ Sectors(new[m])[i] \in map \cup {s}
             /\ \A n \in DirectoriesOf(new) : \A j \in DOMAIN Sectors(new[n]) :
                  Sectors(new[m])[i] = Sectors(new[n])[j] => m = n /\ i = j
  <2>1. Old(m, i) => Sectors(new[m])[i] \in map
    BY <1>2, <1>4
  <2>2. Old(m, i) \/ Added(m, i)
    BY <1>1
  <2>3. Sectors(new[m])[i] \in map \cup {s}
    BY <2>1, <2>2
  <2>4. ASSUME NEW n \in DirectoriesOf(new), NEW j \in DOMAIN Sectors(new[n]),
               Sectors(new[m])[i] = Sectors(new[n])[j]
        PROVE  m = n /\ i = j
    <3>1. (Old(n, j) => Sectors(new[n])[j] \in map) /\ (Old(n, j) \/ Added(n, j))
      BY <1>1, <1>2, <1>4
    <3>2. CASE Old(m, i) /\ Old(n, j)
      BY <1>3, <1>4, <2>4, <3>2
    <3>3. CASE Added(m, i) /\ Added(n, j)
      BY <3>3
    <3> QED BY <2>1, <2>2, <2>4, <3>1, <3>2, <3>3
  <2> QED BY <2>3, <2>4
<1> HIDE DEF new
<1>6. OwnSectors(new, map \cup {s})
  BY <1>5 DEF OwnSectors
<1> QED BY <1>6 DEF new

(* A new directory gets its only sector.                                   *)
LEMMA OwnNew ==
    ASSUME NEW inodes \in [Inode -> InodeType], NEW map, OwnSectors(inodes, map),
           NEW n \in Inode, NEW x \in OneSector, NEW more, x.dir => First(x) \in more \ map
    PROVE  OwnSectors([inodes EXCEPT ![n] = x], map \cup more)
<1> DEFINE new == [inodes EXCEPT ![n] = x]
           Old(m, i) == inodes[m].dir /\ i \in DOMAIN Sectors(inodes[m])
                        /\ Sectors(new[m])[i] = Sectors(inodes[m])[i]
           Added(m, i) == m = n /\ i = 1 /\ Sectors(new[m])[i] \in more \ map
<1>1. ASSUME NEW m \in DirectoriesOf(new), NEW i \in DOMAIN Sectors(new[m])
      PROVE  Old(m, i) \/ Added(m, i)
  <2>1. m \in Inode /\ new[m].dir
    BY DEF DirectoriesOf
  <2>2. CASE m = n
    <3>1. new[m] = x /\ x.dir
      BY <2>1, <2>2
    <3>2. PICK s : s = First(x) /\ Sectors(x) = <<s>> /\ s \in more \ map
      BY <3>1, OneSectorHas
    <3> QED BY <2>2, <3>1, <3>2
  <2>3. CASE m # n
    BY <2>1, <2>3
  <2> QED BY <2>2, <2>3
<1>2. ASSUME NEW m, NEW i, Old(m, i), m \in Inode PROVE Sectors(new[m])[i] \in map
  BY <1>2 DEF OwnSectors, DirectoriesOf
<1>3. ASSUME NEW m, NEW i, NEW k, NEW j, Old(m, i), Old(k, j), m \in Inode, k \in Inode,
             Sectors(new[m])[i] = Sectors(new[k])[j]
      PROVE  m = k /\ i = j
  BY <1>3 DEF OwnSectors, DirectoriesOf
<1>4. \A m \in DirectoriesOf(new) : m \in Inode
  BY DEF DirectoriesOf
<1>5. ASSUME NEW m \in DirectoriesOf(new), NEW i \in DOMAIN Sectors(new[m])
      PROVE  /\ Sectors(new[m])[i] \in map \cup more
             /\ \A k \in DirectoriesOf(new) : \A j \in DOMAIN Sectors(new[k]) :
                  Sectors(new[m])[i] = Sectors(new[k])[j] => m = k /\ i = j
  <2>1. Old(m, i) => Sectors(new[m])[i] \in map
    BY <1>2, <1>4
  <2>2. Old(m, i) \/ Added(m, i)
    BY <1>1
  <2>3. Sectors(new[m])[i] \in map \cup more
    BY <2>1, <2>2
  <2>4. ASSUME NEW k \in DirectoriesOf(new), NEW j \in DOMAIN Sectors(new[k]),
               Sectors(new[m])[i] = Sectors(new[k])[j]
        PROVE  m = k /\ i = j
    <3>1. (Old(k, j) => Sectors(new[k])[j] \in map) /\ (Old(k, j) \/ Added(k, j))
      BY <1>1, <1>2, <1>4
    <3>2. CASE Old(m, i) /\ Old(k, j)
      BY <1>3, <1>4, <2>4, <3>2
    <3>3. CASE Added(m, i) /\ Added(k, j)
      BY <3>3
    <3> QED BY <2>1, <2>2, <2>4, <3>1, <3>2, <3>3
  <2> QED BY <2>3, <2>4
<1> HIDE DEF new
<1>6. OwnSectors(new, map \cup more)
  BY <1>5 DEF OwnSectors
<1> QED BY <1>6 DEF new

-----------------------------------------------------------------------------
(* A directory that grows.                                                 *)

(* Before a directory grows, the inodes next to its own are all in use.    *)
LEMMA NeighboursTaken ==
    ASSUME Typed, Readable, find_free_dir_slot # NOWHERE, Grows
    PROVE  Neighbours(cwd) \subseteq inodebm /\ find_free_dir_slot >= SLOTS
<1>1. PICK slot : slot = find_free_dir_slot
  OBVIOUS
<1>2. /\ slot \in 2 .. MAX_DIR_ENTRIES - 1
      /\ \A k \in 2 .. MAX_DIR_ENTRIES - 1 : k < slot => entries[k].name # ""
  BY <1>1, SlotIs
<1>10. slot \in 2 .. MAX_DIR_ENTRIES - 1 /\ slot \in Nat
  <2>1. \A k \in 2 .. MAX_DIR_ENTRIES - 1 : k \in Nat
    BY Sizes
  <2> QED BY <1>2, <2>1
<1>3. cwd \in Inode /\ cwd \in Nat /\ inode_table[cwd] \in InodeType /\ inode_table[cwd].dir
  BY TypedHas
<1>4. slot >= SLOTS
  <2>1. PICK l \in Nat \ {0} : l = Len(inode_table[cwd].exts)
    BY <1>3, InodeHas
  <2>2. l * SLOTS >= SLOTS
    BY Sizes
  <2>3. slot >= l * SLOTS
    BY <1>1, <2>1 DEF Grows
  <2>4. l * SLOTS \in Nat /\ SLOTS \in Nat /\ slot \in Nat
    BY <1>10, <2>1, Sizes
  <2> QED BY <2>2, <2>3, <2>4
<1>5. PICK k \in Nat : /\ k \in 2 .. MAX_DIR_ENTRIES - 1 /\ k = SLOTS - 1 /\ k < slot
                      /\ k \in 2 .. SLOTS - 1 /\ k \in 0 .. MAX_DIR_ENTRIES - 1
  <2>1. SLOTS - 1 \in 2 .. MAX_DIR_ENTRIES - 1 /\ SLOTS - 1 \in Nat /\ SLOTS - 1 < slot
        /\ SLOTS - 1 \in 2 .. SLOTS - 1 /\ SLOTS - 1 \in 0 .. MAX_DIR_ENTRIES - 1
    BY <1>10, <1>4, Sizes
  <2> QED BY <2>1
<1>6. entries[k].name # ""
  BY <1>2, <1>5
<1>7. entries[k].inode \in inodebm /\ entries[k].inode >= cwd + k - 1
  BY <1>5, <1>6, TypedHas DEF Readable, Marked, Heads
<1>8. 0 .. entries[k].inode \subseteq inodebm /\ entries[k].inode \in Nat
  BY <1>7, TypedHas, Inodes DEF Segment
<1>9. ASSUME NEW m \in Neighbours(cwd) PROVE m \in inodebm
  <2>1. m \in Nat /\ SectorOf(m) = SectorOf(cwd)
    BY Inodes DEF Neighbours
  <2>2. m < cwd + INODES_PER_SECTOR
    BY <1>3, <2>1, SameSector
  <2>3. m <= cwd + k - 1
    BY <1>3, <1>5, <2>1, <2>2, Sizes
  <2> QED BY <1>3, <1>5, <1>7, <1>8, <2>1, <2>3
<1> QED BY <1>1, <1>4, <1>9

(* The directory with its new sector.                                      *)
LEMMA Growing ==
    ASSUME Typed, Readable, SectorsSafe, CanCreate
    PROVE  /\ Grows => fds(b) \in Sector \ b
           /\ b \subseteq used /\ used \subseteq Sector
           /\ grown \in [Inode -> InodeType]
           /\ \A n \in Inode : n # cwd \/ ~Grows => grown[n] = inode_table[n]
           /\ \A n \in Inode : /\ grown[n].dir = inode_table[n].dir
                               /\ inode_table[n].dir => First(grown[n]) = First(inode_table[n])
           /\ \A n \in Inode : inode_table[n].dir => \A j \in DOMAIN grown[n].exts :
                 \/ n = cwd /\ Grows /\ j > 1 /\ grown[n].exts[j].block \in Sector \ b
                 \/ /\ j \in DOMAIN inode_table[n].exts
                    /\ grown[n].exts[j].block = inode_table[n].exts[j].block
           /\ Grows => Sectors(grown[cwd]) = Append(Sectors(inode_table[cwd]), fds(b))
           /\ OwnSectors(grown, used)
<1>1. CASE ~Grows
  <2>1. used = b /\ grown = inode_table
    BY <1>1 DEF used, grown
  <2> QED BY <1>1, <2>1, TypedHas DEF SectorsSafe
<1>2. CASE Grows
  <2>1. PICK s \in Sector \ b : s = fds(b)
    BY FdsIs DEF CanCreate
  <2>2. used = b \cup {s} /\ grown = [inode_table EXCEPT ![cwd] = add_exts(inode_table[cwd], s)]
    BY <1>2, <2>1 DEF used, grown
  <2>3. /\ inode_table \in [Inode -> InodeType] /\ cwd \in Inode /\ inode_table[cwd].dir
        /\ b \subseteq Sector
    BY TypedHas
  <2>4. PICK big : big = add_exts(inode_table[cwd], s)
    OBVIOUS
  <2>5. /\ Sectors(big) = Append(Sectors(inode_table[cwd]), s)
        /\ big \in InodeType /\ big.dir /\ First(big) = First(inode_table[cwd])
        /\ \A j \in DOMAIN big.exts :
              \/ j > 1 /\ big.exts[j].block = s
              \/ /\ j \in DOMAIN inode_table[cwd].exts
                 /\ big.exts[j].block = inode_table[cwd].exts[j].block
    BY <2>3, <2>4, SectorsGrow
  <2>6. grown = [inode_table EXCEPT ![cwd] = big]
    BY <2>2, <2>4
  <2>7. OwnSectors(grown, used)
    <3>1. OwnSectors(inode_table, b)
      BY DEF SectorsSafe
    <3>2. OwnSectors([inode_table EXCEPT ![cwd] = big], b \cup {s})
      BY <2>3, <2>5, <3>1, OwnGrown
    <3> QED BY <2>2, <2>6, <3>2
  <2>8. grown[cwd] = big /\ \A n \in Inode : n # cwd => grown[n] = inode_table[n]
    BY <2>3, <2>6
  <2>9. big.dir = inode_table[cwd].dir
    <3>1. big.dir \in BOOLEAN /\ inode_table[cwd].dir \in BOOLEAN
      BY <2>3, <2>5, InodeHas
    <3> QED BY <2>3, <2>5, <3>1
  <2>10. grown \in [Inode -> InodeType]
    BY <2>3, <2>5, <2>6
  <2>11. \A n \in Inode : /\ grown[n].dir = inode_table[n].dir
                          /\ inode_table[n].dir => First(grown[n]) = First(inode_table[n])
    BY <2>5, <2>8, <2>9
  <2>12. ASSUME NEW n \in Inode, inode_table[n].dir, NEW j \in DOMAIN grown[n].exts
         PROVE  \/ n = cwd /\ Grows /\ j > 1 /\ grown[n].exts[j].block \in Sector \ b
                \/ /\ j \in DOMAIN inode_table[n].exts
                   /\ grown[n].exts[j].block = inode_table[n].exts[j].block
    <3>1. CASE n = cwd
      BY <1>2, <2>1, <2>5, <2>8, <3>1
    <3>2. CASE n # cwd
      BY <2>8, <3>2
    <3> QED BY <3>1, <3>2
  <2>13. b \subseteq used /\ used \subseteq Sector
    BY <2>2, <2>3
  <2> QED BY <1>2, <2>1, <2>4, <2>5, <2>7, <2>8, <2>10, <2>11, <2>12, <2>13
<1> QED BY <1>1, <1>2

-----------------------------------------------------------------------------
(* An entry that is made: types, marks and sectors.                        *)

(* What CreateFile and CreateDirectory have in common: n is the new inode, *)
(* x what becomes of it, more the sectors it takes.                        *)
Enters(name, n, x, more) ==
    /\ CanCreate /\ name \in Name /\ n = fdi(inodebm) /\ n # NOWHERE
    /\ x \in OneSector /\ more \subseteq Sector \ used /\ (x.dir => First(x) \in more)
    /\ b' = used \cup more /\ inodebm' = inodebm \cup {n}
    /\ inode_table' = [grown EXCEPT ![n] = x]
    /\ entries' = [entries EXCEPT ![find_free_dir_slot] = dirent(name, n)]
    /\ pending' = Made(n)' /\ outgrown' = (outgrown \/ Grows)
    /\ behind' \subseteq {"sbm", "ibm", "inodes", "data"} \X Nat
    /\ UNCHANGED <<disk, fifth, cwd, goal, faults>>

LEMMA EntersHas ==
    ASSUME Stored, NEW name, NEW n, NEW x, NEW more, Enters(name, n, x, more)
    PROVE  /\ n \in Inode \ inodebm /\ n \in Nat /\ n # cwd /\ n # Root /\ \A m \in inodebm : m < n
           /\ Segment(inodebm') /\ n + 1 \notin inodebm' /\ n \in inodebm'
           /\ inode_table'[n] = x /\ inode_table' \in [Inode -> InodeType]
           /\ \A m \in Inode : m # n => inode_table'[m] = grown[m]
           /\ Known' = Known \cup {m \in {n} : x.dir} /\ Known \subseteq Inode
           /\ {Root, cwd} \subseteq Known /\ cwd' = cwd /\ goal = << >> /\ goal' = << >>
           /\ pending = << >> /\ disk' = disk /\ failures' = failures /\ errors' = errors
<1>1. Typed /\ Readable /\ SectorsSafe /\ CanCreate
  BY DEF Stored, Enters
<1>2. n = fdi(inodebm) /\ n # NOWHERE /\ inodebm' = inodebm \cup {n}
  BY DEF Enters
<1>3. Segment(inodebm) /\ cwd \in inodebm /\ inodebm \subseteq Inode
  BY <1>1, TypedHas
<1>4. /\ n \in Inode \ inodebm /\ n # Root /\ \A m \in inodebm : m < n
      /\ Segment(inodebm \cup {n}) /\ n + 1 \notin inodebm /\ n + 1 # n
  BY <1>2, <1>3, FdiIs
<1>5. x \in OneSector /\ inode_table' = [grown EXCEPT ![n] = x]
  BY DEF Enters
<1>6. grown \in [Inode -> InodeType] /\ \A m \in Inode : grown[m].dir = inode_table[m].dir
  BY <1>1, Growing
<1>7. /\ inode_table'[n] = x /\ inode_table' \in [Inode -> InodeType]
      /\ \A m \in Inode : m # n => inode_table'[m] = grown[m]
  BY <1>4, <1>5, <1>6, OneSectorHas
<1>8. Known' = Known \cup {m \in {n} : x.dir} /\ Known \subseteq Inode
  <2>1. \A m \in inodebm : inode_table'[m].dir = inode_table[m].dir
    BY <1>3, <1>4, <1>6, <1>7
  <2>2. Known' = {m \in inodebm \cup {n} : inode_table'[m].dir}
    BY <1>2 DEF Known
  <2> QED BY <1>3, <1>7, <2>1, <2>2 DEF Known
<1>9. {Root, cwd} \subseteq Known
  BY <1>1 DEF Typed
<1>10. n \in Nat /\ n # cwd
  BY <1>3, <1>4, Inodes
<1> QED BY <1>2, <1>4, <1>7, <1>8, <1>9, <1>10 DEF Enters, CanCreate, Idle, faults

(* The slot of the new entry.                                              *)
Placed(slot, name, n) ==
    /\ slot \in 2 .. MAX_DIR_ENTRIES - 1 /\ slot \in 0 .. MAX_DIR_ENTRIES - 1 /\ slot \in Nat
    /\ slot = find_free_dir_slot /\ entries[slot].name = ""
    /\ \A k \in 2 .. MAX_DIR_ENTRIES - 1 : k < slot => entries[k].name # ""
    /\ entries'[slot] = [name |-> name, inode |-> n]
    /\ \A k \in 0 .. MAX_DIR_ENTRIES - 1 : k # slot => entries'[k] = entries[k]
    /\ entries' \in [0 .. MAX_DIR_ENTRIES - 1 -> Entry]
    /\ DOMAIN entries' = 0 .. MAX_DIR_ENTRIES - 1
LEMMA EntersSlot ==
    ASSUME Stored, NEW name, NEW n, NEW x, NEW more, Enters(name, n, x, more)
    PROVE  \E slot : Placed(slot, name, n)
<1>1. PICK slot : slot = find_free_dir_slot
  OBVIOUS
<1>2. slot # NOWHERE /\ name \in Name
  BY <1>1 DEF Enters, CanCreate
<1>3. /\ slot \in 2 .. MAX_DIR_ENTRIES - 1 /\ entries[slot].name = ""
      /\ \A k \in 2 .. MAX_DIR_ENTRIES - 1 : k < slot => entries[k].name # ""
  BY <1>1, <1>2, SlotIs
<1>4. slot \in Nat /\ slot \in 0 .. MAX_DIR_ENTRIES - 1
  <2>1. \A k \in 2 .. MAX_DIR_ENTRIES - 1 : k \in Nat /\ k \in 0 .. MAX_DIR_ENTRIES - 1
    BY Sizes
  <2> QED BY <1>3, <2>1
<1>5. PICK e : e = [name |-> name, inode |-> n]
  OBVIOUS
<1>6. e \in Entry
  BY <1>2, <1>5, EntersHas DEF Entry
<1>7. entries \in [0 .. MAX_DIR_ENTRIES - 1 -> Entry]
  BY TypedHas DEF Stored
<1>8. entries' = [entries EXCEPT ![slot] = e]
  BY <1>1, <1>5 DEF Enters, dirent
<1>9. /\ entries'[slot] = e /\ entries' \in [0 .. MAX_DIR_ENTRIES - 1 -> Entry]
      /\ \A k \in 0 .. MAX_DIR_ENTRIES - 1 : k # slot => entries'[k] = entries[k]
      /\ DOMAIN entries' = 0 .. MAX_DIR_ENTRIES - 1
  BY <1>4, <1>6, <1>7, <1>8
<1> QED BY <1>1, <1>3, <1>4, <1>5, <1>9 DEF Placed

LEMMA EntersTyped ==
    ASSUME Stored, NEW name, NEW n, NEW x, NEW more, Enters(name, n, x, more)
    PROVE  Typed' /\ Outgrown' /\ SectorsSafe'
<1>1. Typed /\ Readable /\ SectorsSafe /\ CanCreate /\ Outgrown
  BY DEF Stored, Enters
<1>2. Typed'
  <2>1. used \subseteq Sector /\ more \subseteq Sector /\ b' = used \cup more
    BY <1>1, Growing DEF Enters
  <2>2. entries' \in [0 .. MAX_DIR_ENTRIES - 1 -> Entry]
    BY EntersSlot DEF Placed
  <2>3. /\ disk' \in [data : [Sector -> Block], inodes : [Inode -> OneSector],
                      sbm : SUBSET Sector, ibm : SUBSET Inode]
        /\ Segment(disk.ibm) /\ Segment(fifth)
        /\ goal' \in Path \cup {<< >>}
        /\ {failures', errors'} \subseteq Nat /\ failures' + errors' <= MaxFaults /\ outgrown \in BOOLEAN
    BY <1>1, EntersHas DEF Typed
  <2>4. outgrown' \in BOOLEAN /\ behind' \subseteq {"sbm", "ibm", "inodes", "data"} \X Nat
    BY <2>3 DEF Enters
  <2>5. {Root, cwd'} \subseteq Known'
    BY EntersHas
  <2>6. \A S \in {disk'.ibm, fifth', inodebm'} : Segment(S)
    BY <2>3, EntersHas DEF Enters
  <2>7. inode_table' \in [Inode -> InodeType]
    BY EntersHas
  <2> QED BY <2>1, <2>2, <2>3, <2>4, <2>5, <2>6, <2>7 DEF Typed
<1>3. Outgrown'
  <2>1. ASSUME NEW m \in Inode, inode_table'[m] \notin OneSector
        PROVE  Neighbours(m) \subseteq inodebm' /\ outgrown'
    <3>1. m # n /\ inode_table'[m] = grown[m]
      BY <2>1, EntersHas DEF Enters
    <3>2. CASE m = cwd /\ Grows
      BY <1>1, <3>2, NeighboursTaken DEF CanCreate, Enters
    <3>3. CASE ~ (m = cwd /\ Grows)
      <4>1. inode_table[m] \notin OneSector
        BY <1>1, <2>1, <3>1, <3>3, Growing
      <4> QED BY <1>1, <4>1 DEF Outgrown, Enters
    <3> QED BY <3>2, <3>3
  <2> QED BY <2>1 DEF Outgrown
<1>4. SectorsSafe'
  <2>1. OwnSectors(grown, used) /\ grown \in [Inode -> InodeType]
    BY <1>1, Growing
  <2>2. x \in OneSector /\ (x.dir => First(x) \in more \ used) /\ n \in Inode
    BY EntersHas DEF Enters
  <2>3. OwnSectors([grown EXCEPT ![n] = x], used \cup more)
    BY <2>1, <2>2, OwnNew
  <2>4. OwnSectors(inode_table', b')
    BY <2>3 DEF Enters
  <2>5. errors' = 0 => OwnSectors(disk'.inodes, disk'.sbm)
    BY <1>1, EntersHas DEF SectorsSafe
  <2> QED BY <2>4, <2>5 DEF SectorsSafe
<1> QED BY <1>2, <1>3, <1>4

-----------------------------------------------------------------------------
(* An entry that is made: the writes, and the entries in memory.           *)

LEMMA NamesAre == Name \cap {"", ".", ".."} = {} /\ \A name \in Name : name # ""
BY SizesAssumption

LEMMA EntersWriting ==
    ASSUME Stored, NEW name, NEW n, NEW x, NEW more, Enters(name, n, x, more)
    PROVE  /\ Writing' /\ Creating(n)'
           /\ \A m \in Inode : Creating(m)' => m = n
<1>1. ASSUME NEW m \in Inode, Newest(m)' PROVE m = n
  <2>1. m \in inodebm \cup {n} /\ m + 1 \notin inodebm' /\ n \in inodebm' /\ Segment(inodebm')
    BY <1>1, EntersHas DEF Newest, Enters
  <2>2. 0 .. n \subseteq inodebm' /\ n \in Nat /\ m \in Nat
    BY <2>1, EntersHas, Inodes DEF Segment
  <2>3. CASE m # n
    <3>1. m < n
      BY <2>1, <2>3, EntersHas
    <3>2. m + 1 \in 0 .. n
      BY <2>2, <3>1
    <3> QED BY <2>1, <2>2, <3>2
  <2> QED BY <2>3
<1>2. Newest(n)'
  BY EntersHas DEF Newest
<1>3. pending' = Made(n)'
  BY DEF Enters
<1>4. PICK S : Made(n)' \in Seq(S) /\ Made(n)' # << >>
  <2>1. PICK v, w, y, z : Made(n)' = IF inode_table'[n].dir
             THEN << v, w, Write("ibm", fifth'), y, z >> ELSE << y, z >>
    BY DEF Made
  <2>2. PICK u : u = Write("ibm", fifth')
    OBVIOUS
  <2>3. PICK S : <<v, w, u, y, z>> \in Seq(S) /\ <<y, z>> \in Seq(S)
    BY Sequence
  <2> QED BY <2>1, <2>2, <2>3
<1>5. Rest(Made(n))'
  BY <1>3, <1>4, LastOfAll DEF Rest
<1>6. \A m \in Neighbours(n) : inode_table'[m] \in OneSector
  <2>1. ASSUME NEW m \in Inode, inode_table'[m] \notin OneSector PROVE n \notin Neighbours(m)
    <3>1. m # n
      BY <2>1, EntersHas DEF Enters
    <3>2. Neighbours(m) \subseteq inodebm
      <4>1. CASE m = cwd /\ Grows
        BY <4>1, NeighboursTaken DEF CanCreate, Enters, Stored
      <4>2. CASE ~ (m = cwd /\ Grows)
        <5>1. inode_table[m] \notin OneSector
          BY <2>1, <3>1, <4>2, EntersHas, Growing DEF Stored, Enters
        <5> QED BY <5>1 DEF Outgrown, Stored
      <4> QED BY <4>1, <4>2
    <3> QED BY <3>2, EntersHas
  <2> QED BY <2>1, EntersHas DEF Neighbours
<1>7. goal' = << >> /\ pending' # << >>
  BY <1>3, <1>4, EntersHas
<1>8. Creating(n)'
  BY <1>2, <1>7 DEF Creating
<1>9. \A m \in Inode : Creating(m)' => m = n
  BY <1>1 DEF Creating
<1>10. n \in Inode
  BY EntersHas
<1>11. \A m \in Inode : Creating(m)' => Rest(Made(m))' /\ \A k \in Neighbours(m) : inode_table'[k] \in OneSector
  BY <1>5, <1>6, <1>9
<1>12. Writing'
  BY <1>2, <1>7, <1>10, <1>11 DEF Writing
<1> QED BY <1>8, <1>9, <1>12

LEMMA EntersReadableHere ==
    ASSUME Stored, NEW name, NEW n, NEW x, NEW more, Enters(name, n, x, more)
    PROVE  Heads(cwd, entries)' /\ Marked(entries)'
<1>1. Heads(cwd, entries) /\ Marked(entries) /\ DOMAIN entries = 0 .. MAX_DIR_ENTRIES - 1
      /\ entries \in [0 .. MAX_DIR_ENTRIES - 1 -> Entry] /\ cwd \in Nat /\ cwd \in inodebm
  BY TypedHas DEF Stored, Readable
<1>20. PICK slot : Placed(slot, name, n)
  BY EntersSlot
<1>2. /\ slot \in 2 .. MAX_DIR_ENTRIES - 1 /\ slot \in Nat /\ slot \in 0 .. MAX_DIR_ENTRIES - 1
      /\ entries[slot].name = ""
      /\ \A k \in 2 .. MAX_DIR_ENTRIES - 1 : k < slot => entries[k].name # ""
      /\ entries'[slot] = [name |-> name, inode |-> n]
      /\ \A k \in 0 .. MAX_DIR_ENTRIES - 1 : k # slot => entries'[k] = entries[k]
      /\ DOMAIN entries' = 0 .. MAX_DIR_ENTRIES - 1
  BY <1>20 DEF Placed
<1>3. entries'[slot].name # "" /\ entries'[slot].inode = n
  <2>1. name # ""
    BY NamesAre DEF Enters
  <2>2. entries'[slot] = [name |-> name, inode |-> n]
    BY <1>2
  <2>3. PICK e : e = entries'[slot]
    OBVIOUS
  <2>4. e.name = name /\ e.inode = n
    BY <2>2, <2>3
  <2> QED BY <2>1, <2>3, <2>4
<1>21. slot >= 2 /\ slot \in Nat
  <2>1. \A k \in 2 .. MAX_DIR_ENTRIES - 1 : k >= 2
    OBVIOUS
  <2> QED BY <1>2, <2>1
<1>4. Marked(entries)'
  <2>1. ASSUME NEW k \in 0 .. MAX_DIR_ENTRIES - 1, entries'[k].name # ""
        PROVE  entries'[k].inode \in inodebm'
    <3>1. CASE k = slot
      BY <1>3, <3>1, EntersHas
    <3>2. CASE k # slot
      BY <1>1, <1>2, <2>1, <3>2 DEF Marked, Enters
    <3> QED BY <3>1, <3>2
  <2> QED BY <1>2, <2>1 DEF Marked
<1>5. {entries'[0].inode, entries'[1].inode} \subseteq Known' \cap 0 .. cwd'
  <2>1. 0 \in 0 .. MAX_DIR_ENTRIES - 1 /\ 1 \in 0 .. MAX_DIR_ENTRIES - 1 /\ 0 # slot /\ 1 # slot
    BY <1>21, Sizes
  <2>2. entries'[0] = entries[0] /\ entries'[1] = entries[1]
    BY <1>2, <2>1
  <2>3. {entries[0].inode, entries[1].inode} \subseteq Known \cap 0 .. cwd
    BY <1>1 DEF Heads
  <2>4. Known \subseteq Known' /\ cwd' = cwd
    BY EntersHas
  <2> QED BY <2>2, <2>3, <2>4
<1>6. ASSUME NEW k \in 2 .. SLOTS - 1, entries'[k].name # ""
      PROVE  entries'[k].inode >= cwd + k - 1 /\ (k > 2 => entries'[k - 1].name # "")
  <2>1. /\ k \in Nat /\ k \in 0 .. MAX_DIR_ENTRIES - 1 /\ k \in 2 .. MAX_DIR_ENTRIES - 1
        /\ k - 1 \in 0 .. MAX_DIR_ENTRIES - 1
        /\ k > 2 => k - 1 \in 2 .. MAX_DIR_ENTRIES - 1 /\ k - 1 \in 2 .. SLOTS - 1
    BY Sizes
  <2>2. CASE k = slot
    <3>1. n \in Nat /\ \A m \in inodebm : m < n
      BY EntersHas
    <3>2. CASE k = 2
      <4>3. entries'[k].inode = n
        BY <1>3, <2>2
      <4>4. cwd < n /\ cwd \in Nat
        BY <1>1, <3>1
      <4>1. n > cwd /\ entries'[k].inode = n /\ (~ k > 2)
        BY <3>1, <3>2, <4>3, <4>4
      <4>2. n >= cwd + k - 1
        BY <1>1, <3>1, <3>2, <4>1
      <4> QED BY <4>1, <4>2
    <3>3. CASE k > 2
      <4>1. entries[k - 1].name # "" /\ entries'[k - 1] = entries[k - 1]
        <5>1. k - 1 < slot /\ k - 1 # slot
          BY <2>1, <2>2
        <5> QED BY <1>2, <2>1, <3>3, <5>1
      <4>2. entries[k - 1].inode >= cwd + (k - 1) - 1 /\ entries[k - 1].inode \in inodebm
        BY <1>1, <2>1, <3>3, <4>1 DEF Heads, Marked
      <4>3. entries[k - 1].inode \in Nat /\ entries[k - 1].inode < n
        BY <4>2, <3>1, TypedHas, Inodes DEF Stored
      <4>4. n >= cwd + k - 1
        <5>1. PICK i \in Nat : i = entries[k - 1].inode
          BY <4>3
        <5> QED BY <1>1, <2>1, <3>1, <4>2, <4>3, <5>1
      <4>5. entries'[k].inode = n
        BY <1>3, <2>2
      <4> QED BY <4>1, <4>4, <4>5
    <3>4. k = 2 \/ k > 2
      OBVIOUS
    <3> QED BY <3>2, <3>3, <3>4
  <2>3. CASE k # slot
    <3>1. entries'[k] = entries[k]
      BY <1>2, <2>1, <2>3
    <3>2. entries[k].inode >= cwd + k - 1 /\ (k > 2 => entries[k - 1].name # "")
      BY <1>1, <3>1, <1>6 DEF Heads
    <3>3. k > 2 => entries'[k - 1].name # ""
      BY <1>2, <1>3, <2>1, <3>2
    <3> QED BY <3>1, <3>2, <3>3
  <2> QED BY <2>2, <2>3
<1>7. cwd' = cwd
  BY EntersHas
<1> QED BY <1>4, <1>5, <1>6, <1>7 DEF Heads

-----------------------------------------------------------------------------
(* An entry that is made: what can be read, and what the disk follows.     *)

(* A block that is sound remains so while more inodes are in use.          *)
Sound(n, j, block) == Marked(block) /\ (j = 1 => Heads(n, block))
LEMMA SoundStays ==
    ASSUME NEW n, NEW j, NEW block, Sound(n, j, block), inodebm \subseteq inodebm', Known \subseteq Known'
    PROVE  Marked(block)' /\ (j = 1 => Heads(n, block)')
BY DEF Sound, Marked, Heads

Blank == [k \in 0 .. SLOTS - 1 |-> EMPTY]
LEMMA BlankIs ==
    /\ DOMAIN Blank = 0 .. SLOTS - 1
    /\ \A k \in 0 .. SLOTS - 1 : Blank[k].name = "" /\ Blank[k].inode = 0
    /\ 0 \in 0 .. SLOTS - 1 /\ 1 \in 0 .. SLOTS - 1
    /\ \A k \in 2 .. SLOTS - 1 : k \in 0 .. SLOTS - 1
<1>1. 0 \in 0 .. SLOTS - 1 /\ 1 \in 0 .. SLOTS - 1 /\ \A k \in 2 .. SLOTS - 1 : k \in 0 .. SLOTS - 1
  BY Sizes
<1> QED BY <1>1 DEF Blank, EMPTY

LEMMA BlankSound ==
    ASSUME NEW n \in Nat, NEW j, Root \in Known
    PROVE  Sound(n, j, Blank)
<1>1. Marked(Blank)
  BY BlankIs DEF Marked
<1>2. Blank[0].inode = Root /\ Blank[1].inode = Root /\ Root \in 0 .. n
  <2>1. Root \in 0 .. n
    BY DEF Root
  <2>2. Blank[0].inode = 0 /\ Blank[1].inode = 0
    BY BlankIs
  <2> QED BY <2>1, <2>2 DEF Root
<1>3. \A k \in 2 .. SLOTS - 1 : Blank[k].name = ""
  BY BlankIs
<1>4. Heads(n, Blank)
  BY <1>2, <1>3 DEF Heads
<1> QED BY <1>1, <1>4 DEF Sound

LEMMA SettledKnown ==
    ASSUME Readable, NEW n \in Known, NEW j \in DOMAIN inode_table[n].exts,
           Settled(n, inode_table[n].exts[j].block)
    PROVE  Sound(n, j, disk.data[inode_table[n].exts[j].block])
BY DEF Readable, Shows, Sound

(* What a directory has had on the disk before this step.                  *)
Held(n, j, block) ==
    /\ n \in Known /\ j \in DOMAIN inode_table[n].exts
    /\ Settled(n, inode_table[n].exts[j].block) /\ block = disk.data[inode_table[n].exts[j].block]
LEMMA HeldSound ==
    ASSUME Readable, NEW n, NEW j, NEW block, Held(n, j, block)
    PROVE  Sound(n, j, block)
BY SettledKnown DEF Held

LEMMA NothingComing == ASSUME pending = << >>, NEW place PROVE ~ Coming(place)
BY DEF Coming

LEMMA EntersHeld ==
    ASSUME Stored, NEW name, NEW n, NEW x, NEW more, Enters(name, n, x, more),
           NEW m \in Known', NEW j \in DOMAIN inode_table'[m].exts, Settled(m, inode_table[m].exts[j].block)',
           NEW block, block = disk.data[inode_table'[m].exts[j].block]
    PROVE  Held(m, j, block) \/ block = Blank
<1> DEFINE At == inode_table'[m].exts[j].block
<1>1. inodebm \subseteq Inode
  BY TypedHas DEF Stored
<1>2. Typed /\ Readable /\ SectorsSafe /\ CanCreate
  BY DEF Stored, Enters
<1>3. /\ Known' = Known \cup {k \in {n} : x.dir} /\ Known \subseteq Inode /\ n \in Inode \ inodebm
      /\ inode_table'[n] = x /\ (\A k \in Inode : k # n => inode_table'[k] = grown[k])
      /\ cwd' = cwd /\ goal' = << >> /\ pending = << >> /\ disk' = disk /\ failures' = failures
  BY EntersHas
<1>4. failures = 0 => \A s \in Sector \ b : disk.data[s] = Blank
  BY <1>2 DEF Readable, Unused, Blank
<1>5. CASE m = n
  <2>1. x.dir /\ inode_table'[n] = x
    BY <1>3, <1>5 DEF Known
  <2>2. x \in OneSector /\ First(x) \in more /\ more \subseteq Sector \ used
    BY <2>1 DEF Enters
  <2>3. x.exts = <<[block |-> First(x), length |-> 1]>>
    BY <2>1, <2>2, OneSectorHas
  <2>4. j = 1 /\ At = First(x)
    BY <1>5, <2>1, <2>3
  <2>5. First(x) \in Sector \ b
    BY <1>2, <2>2, Growing
  <2>6. failures = 0
    <3>1. pending' = Made(n)'
      BY DEF Enters
    <3>2. PICK w : w = WriteData(First(x), NewBlock(n)')
      OBVIOUS
    <3>3. 1 \in DOMAIN pending' /\ pending'[1] = w
      BY <2>1, <3>1, <3>2 DEF Made
    <3>4. Place(w) = <<"data", First(x)>>
      BY <3>2 DEF Place, WriteData
    <3>5. PICK a : a = At
      OBVIOUS
    <3>6. Coming(<<"data", a>>)'
      BY <2>4, <3>3, <3>4, <3>5 DEF Coming
    <3> QED BY <1>3, <3>5, <3>6 DEF Settled
  <2> QED BY <1>4, <2>4, <2>5, <2>6
<1>6. CASE m # n
  <2>1. m \in Known /\ inode_table'[m] = grown[m] /\ inode_table[m].dir /\ m \in Inode
    BY <1>1, <1>3, <1>6 DEF Known
  <2>2. failures = 0 \/ m # cwd
    BY <1>3 DEF Settled
  <2>3. \/ m = cwd /\ Grows /\ j > 1 /\ At \in Sector \ b
        \/ j \in DOMAIN inode_table[m].exts /\ At = inode_table[m].exts[j].block
    BY <1>2, <2>1, Growing
  <2>4. CASE m = cwd /\ At \in Sector \ b
    BY <1>4, <2>2, <2>4
  <2>5. CASE j \in DOMAIN inode_table[m].exts /\ At = inode_table[m].exts[j].block
    <3>1. Settled(m, inode_table[m].exts[j].block)
      BY <1>3, <2>2, NothingComing DEF Settled
    <3> QED BY <2>1, <2>5, <3>1 DEF Held
  <2> QED BY <2>3, <2>4, <2>5
<1> QED BY <1>5, <1>6

LEMMA EntersReadable ==
    ASSUME Stored, NEW name, NEW n, NEW x, NEW more, Enters(name, n, x, more)
    PROVE  Readable'
<1> DEFINE At(m, j) == inode_table[m].exts[j].block
<1>1. inodebm \subseteq inodebm' /\ Known \subseteq Known' /\ inodebm \subseteq Inode /\ Root \in Known
  BY EntersHas, TypedHas DEF Enters, Stored
<1>2. Typed /\ Readable /\ SectorsSafe /\ CanCreate
  BY DEF Stored, Enters
<1>3. /\ Known' = Known \cup {m \in {n} : x.dir} /\ Known \subseteq Inode /\ n \in Inode \ inodebm
      /\ inode_table'[n] = x /\ (\A m \in Inode : m # n => inode_table'[m] = grown[m])
      /\ cwd' = cwd /\ goal' = << >> /\ pending = << >> /\ disk' = disk /\ failures' = failures
  BY EntersHas
<1>4. b \subseteq b'
  BY <1>2, Growing DEF Enters
<1>5. \A m \in Known' : m \in Nat
  BY <1>3, Inodes
<1>8. \A m \in Known' : \A j \in DOMAIN inode_table'[m].exts : Shows(m, j, At(m, j))'
  <2> SUFFICES ASSUME NEW m \in Known', NEW j \in DOMAIN inode_table'[m].exts, Settled(m, At(m, j))'
               PROVE  Marked(disk.data[At(m, j)])' /\ (j = 1 => Heads(m, disk.data[At(m, j)])')
    BY DEF Shows
  <2>1. PICK block : block = disk.data[At(m, j)']
    OBVIOUS
  <2>2. Sound(m, j, block)
    <3>1. Held(m, j, block) \/ block = Blank
      BY <2>1, EntersHeld
    <3> QED BY <1>1, <1>2, <1>5, <3>1, HeldSound, BlankSound
  <2>3. Marked(block)' /\ (j = 1 => Heads(m, block)')
    BY <1>1, <2>2, SoundStays
  <2> QED BY <1>3, <2>1, <2>3
<1>9. Unused'
  BY <1>2, <1>3, <1>4 DEF Readable, Unused
<1>10. \A m \in Inode : Orphan(m)' =>
          failures' = 1 /\ inode_table'[m] \in OneSector /\ Unnamed(disk.data[First(inode_table[m])])'
  <2> SUFFICES ASSUME NEW m \in Inode, m \notin inodebm', inode_table'[m].dir
               PROVE  failures = 1 /\ inode_table'[m] \in OneSector
                      /\ Unnamed(disk.data[First(inode_table'[m])])
    BY <1>3 DEF Orphan
  <2>1. m \notin inodebm /\ m # n /\ m # cwd
    BY <1>1, <1>2, TypedHas DEF Enters
  <2>2. inode_table'[m] = inode_table[m]
    BY <1>2, <1>3, <2>1, Growing
  <2>3. Orphan(m)
    BY <2>1, <2>2 DEF Orphan
  <2> QED BY <1>2, <2>2, <2>3 DEF Readable
<1>11. Heads(cwd, entries)' /\ Marked(entries)'
  BY EntersReadableHere
<1> QED BY <1>8, <1>9, <1>10, <1>11 DEF Readable

LEMMA EntersFollowed ==
    ASSUME Stored, NEW name, NEW n, NEW x, NEW more, Enters(name, n, x, more)
    PROVE  Followed'
<1> SUFFICES ASSUME errors' = 0 PROVE Followed'
  BY DEF Followed
<1>1. /\ n \in Inode \ inodebm /\ inode_table'[n] = x
      /\ (\A m \in Inode : m # n => inode_table'[m] = grown[m])
      /\ pending = << >> /\ disk' = disk /\ failures' = failures /\ errors = 0
  BY EntersHas
<1>2. Typed /\ Readable /\ SectorsSafe /\ CanCreate /\ Followed
  BY DEF Stored, Enters
<1>3. \A m \in Inode : ~ Creating(m)
  BY <1>1 DEF Creating
<1>4. \A m \in Inode : Same(m)
  BY <1>1, <1>2, <1>3 DEF Followed
<1>5. ASSUME NEW m \in Inode, m # n PROVE Same(m)'
  <2>1. grown[m].dir = inode_table[m].dir /\ (inode_table[m].dir => First(grown[m]) = First(inode_table[m]))
    BY <1>2, Growing
  <2>2. inode_table'[m] = grown[m] /\ Same(m)
    BY <1>1, <1>4, <1>5
  <2> QED BY <1>1, <2>1, <2>2 DEF Same
<1>6. Fresh(n)'
  <2> SUFFICES ASSUME failures = 0 PROVE disk.inodes[n] = NoInode
    BY <1>1 DEF Fresh
  <2>1. ~ inode_table[n].dir
    BY <1>1, <1>2 DEF Readable, Orphan
  <2>2. ~ disk.inodes[n].dir /\ disk.inodes[n] \in OneSector
    BY <1>1, <1>2, <1>4, <2>1, TypedHas DEF Same
  <2> QED BY <2>2, OneSectorHas
<1>7. disk'.sbm \subseteq b'
  BY <1>1, <1>2, Growing DEF Followed, Enters
<1>8. Prepared(n)'
  <2>1. pending' = Made(n)'
    BY DEF Enters
  <2>2. x.dir => Len(pending') = 5
    BY <1>1, <2>1 DEF Made
  <2>3. PICK l : l = Len(pending')
    OBVIOUS
  <2>4. inode_table'[n].dir => ~ l <= 4 /\ ~ l <= 3
    <3>1. inode_table'[n].dir => l = 5
      BY <1>1, <2>2, <2>3, Zenon
    <3> QED BY <3>1
  <2> QED BY <2>3, <2>4 DEF Prepared
<1>9. Creating(n)' /\ \A m \in Inode : Creating(m)' => m = n
  BY EntersWriting
<1>10. \A m \in Inode : IF Creating(m)' THEN Fresh(m)' ELSE Same(m)'
  BY <1>5, <1>6, <1>9
<1>11. \A m \in Inode : Creating(m)' => Prepared(m)'
  BY <1>8, <1>9
<1> QED BY <1>7, <1>10, <1>11 DEF Followed

LEMMA EntersStored ==
    ASSUME Stored, NEW name, NEW n, NEW x, NEW more, Enters(name, n, x, more)
    PROVE  Stored'
BY EntersTyped, EntersWriting, EntersReadable, EntersFollowed DEF Stored

-----------------------------------------------------------------------------
(* CreateFile and CreateDirectory make an entry.                           *)

LEMMA CreateBehind ==
    ASSUME Stored, create_entry
    PROVE  behind' \subseteq {"sbm", "ibm", "inodes", "data"} \X Nat
<1>1. CanCreate
  BY DEF create_entry, CreateFile, CreateDirectory, CreateNothing
<1>2. behind \subseteq {"sbm", "ibm", "inodes", "data"} \X Nat
  BY DEF Stored, Typed
<1>3. grown[cwd] \in InodeType /\ grown[cwd].dir
  BY <1>1, Growing, TypedHas DEF Stored
<1>4. PICK t \in Seq(Nat) : t = Sectors(grown[cwd])
  BY <1>3, InodeHas
<1>5. \A s \in Range(t) : s \in Nat
  BY DEF Range
<1>6. SectorOf(cwd) \in Nat
  <2>1. cwd \in Nat /\ INODES_PER_SECTOR \in Nat /\ INODES_PER_SECTOR > 0
    BY TypedHas, Sizes DEF Stored
  <2> QED BY <2>1 DEF SectorOf
<1>7. behind' = behind \cup {<<"data", s>> : s \in Range(t)}
                \cup (IF Grows THEN {<<"inodes", SectorOf(cwd)>>, <<"sbm", 0>>} ELSE {})
  BY <1>4 DEF create_entry
<1>8. {<<"data", s>> : s \in Range(t)} \subseteq {"sbm", "ibm", "inodes", "data"} \X Nat
  BY <1>5
<1>9. <<"inodes", SectorOf(cwd)>> \in {"sbm", "ibm", "inodes", "data"} \X Nat
      /\ <<"sbm", 0>> \in {"sbm", "ibm", "inodes", "data"} \X Nat
  BY <1>6
<1> QED BY <1>2, <1>7, <1>8, <1>9

LEMMA FileEnters ==
    ASSUME Stored, create_entry, NEW name \in Name, CreateFile(name)
    PROVE  \E n : n = fdi(inodebm) /\ Enters(name, n, NoInode, {})
<1>20. PICK n : n = fdi(inodebm)
  OBVIOUS
<1>1. n \in Inode /\ CanCreate /\ n # NOWHERE
  <2>1. CanCreate /\ n # NOWHERE
    BY <1>20 DEF CreateFile
  <2> QED BY <1>20, <2>1, FdiIs, TypedHas DEF Stored
<1>2. inode_table' = [grown EXCEPT ![n] = NoInode] /\ grown \in [Inode -> InodeType]
  BY <1>1, <1>20, Growing DEF CreateFile, Stored
<1>3. inode_table'[n] = NoInode /\ ~ NoInode.dir /\ NoInode \in OneSector
  BY <1>1, <1>2 DEF NoInode, OneSector
<1>4. pending' = Made(n)'
  <2>1. PICK y : y = Write("ibm", inodebm')
    OBVIOUS
  <2>2. PICK z : z = InodesNear(n)'
    OBVIOUS
  <2>3. flush_ibm(inodebm') = <<y>>
    BY <2>1 DEF flush_ibm
  <2>4. flush_inode(inode_table', n) = <<z>>
    BY <2>2 DEF flush_inode, InodesNear, Neighbours
  <2>5. pending' = flush_ibm(inodebm') \o flush_inode(inode_table', n)
    <3>1. inodebm' = inodebm \cup {n} /\ inode_table' = [grown EXCEPT ![n] = NoInode]
      BY <1>20 DEF CreateFile
    <3> QED BY <1>20, <3>1 DEF CreateFile
  <2>6. pending' = <<y, z>>
    BY <2>3, <2>4, <2>5, FiveWrites
  <2>7. ~ inode_table'[n].dir
    BY <1>3
  <2>8. Made(n)' = <<y, z>>
    BY <2>1, <2>2, <2>7 DEF Made
  <2> QED BY <2>6, <2>8
<1>5. outgrown' = (outgrown \/ Grows)
  BY DEF create_entry
<1>6. Enters(name, n, NoInode, {})
  BY <1>1, <1>2, <1>3, <1>4, <1>5, <1>20, CreateBehind DEF CreateFile, Enters
<1> QED BY <1>6, <1>20

LEMMA DirectoryEnters ==
    ASSUME Stored, create_entry, NEW name \in Name, CreateDirectory(name)
    PROVE  \E n, x, more : /\ n = fdi(inodebm) /\ Enters(name, n, x, more)
                           /\ x.dir /\ First(x) = fds(used) /\ more = {fds(used)}
<1>20. PICK n : n = fdi(inodebm)
  OBVIOUS
<1>1. n \in Inode /\ CanCreate /\ n # NOWHERE
  <2>1. CanCreate /\ n # NOWHERE
    BY <1>20 DEF CreateDirectory
  <2> QED BY <1>20, <2>1, FdiIs, TypedHas DEF Stored
<1>2. PICK sector \in Sector \ used : sector = fds(used)
  BY FdsIs DEF CreateDirectory
<1>3. PICK x : x = [dir |-> TRUE, exts |-> <<[block |-> sector, length |-> 1]>>]
  OBVIOUS
<1>4. x \in OneSector /\ x.dir /\ First(x) = sector
  BY <1>2, <1>3, OneSectorIs
<1>5. inode_table' = [grown EXCEPT ![n] = x] /\ grown \in [Inode -> InodeType]
  BY <1>1, <1>2, <1>3, <1>20, Growing DEF CreateDirectory, Stored
<1>6. inode_table'[n] = x
  BY <1>1, <1>5
<1>7. b' = used \cup {sector} /\ inodebm' = inodebm \cup {n} /\ UNCHANGED <<disk, fifth, cwd, goal, faults>>
      /\ entries' = [entries EXCEPT ![find_free_dir_slot] = dirent(name, n)]
  BY <1>2, <1>20 DEF CreateDirectory
<1>8. entries'[0].inode = entries[0].inode
  <2>1. PICK slot : slot = find_free_dir_slot
    OBVIOUS
  <2>2. slot # 0 /\ slot \in 2 .. MAX_DIR_ENTRIES - 1
    <3>1. slot \in 2 .. MAX_DIR_ENTRIES - 1
      BY <1>1, <2>1, SlotIs DEF CanCreate
    <3>2. 0 \notin 2 .. MAX_DIR_ENTRIES - 1
      OBVIOUS
    <3> QED BY <3>1, <3>2
  <2>3. entries' = [entries EXCEPT ![slot] = dirent(name, n)]
    BY <1>7, <2>1
  <2>4. 0 \in DOMAIN entries
    BY TypedHas, Sizes DEF Stored
  <2> QED BY <2>2, <2>3, <2>4
<1>9. pending' = Made(n)'
  <2>1. PICK v : v = WriteData(sector, Directory(n, dirent("..", entries[0].inode)))
    OBVIOUS
  <2>2. PICK w : w = Write("sbm", b')
    OBVIOUS
  <2>3. PICK u : u = Write("ibm", fifth')
    OBVIOUS
  <2>4. PICK y : y = Write("ibm", inodebm')
    OBVIOUS
  <2>5. PICK z : z = InodesNear(n)'
    OBVIOUS
  <2>6. flush_sbm(b') = <<w, u>>
    BY <1>7, <2>2, <2>3 DEF flush_sbm
  <2>7. flush_ibm(inodebm') = <<y>>
    BY <2>4 DEF flush_ibm
  <2>8. flush_inode(inode_table', n) = <<z>>
    BY <2>5 DEF flush_inode, InodesNear, Neighbours
  <2>9. pending' = <<v>> \o flush_sbm(b') \o flush_ibm(inodebm') \o flush_inode(inode_table', n)
    BY <1>2, <1>3, <1>5, <1>7, <1>20, <2>1 DEF CreateDirectory
  <2>10. pending' = <<v, w, u, y, z>>
    <3>1. <<v>> \o <<w, u>> \o <<y>> \o <<z>> = <<v, w, u, y, z>>
      BY FiveWrites
    <3> QED BY <2>6, <2>7, <2>8, <2>9, <3>1, Zenon
  <2>11. v = WriteData(First(inode_table'[n]), NewBlock(n)')
    BY <1>4, <1>6, <1>8, <2>1 DEF NewBlock
  <2>12. inode_table'[n].dir
    BY <1>4, <1>6
  <2>13. Made(n)' = <<v, w, u, y, z>>
    BY <2>2, <2>3, <2>4, <2>5, <2>11, <2>12 DEF Made
  <2> QED BY <2>10, <2>13
<1>10. outgrown' = (outgrown \/ Grows)
  BY DEF create_entry
<1>11. Enters(name, n, x, {sector})
  BY <1>1, <1>2, <1>4, <1>5, <1>7, <1>9, <1>10, <1>20, CreateBehind DEF Enters
<1> QED BY <1>2, <1>4, <1>11, <1>20

-----------------------------------------------------------------------------
(* create_entry keeps the invariant.                                       *)

LEMMA NothingHeld ==
    ASSUME Stored, create_entry, CreateNothing,
           NEW n \in Known', NEW j \in DOMAIN inode_table'[n].exts, Settled(n, inode_table[n].exts[j].block)',
           NEW block, block = disk.data[inode_table'[n].exts[j].block]
    PROVE  Held(n, j, block) \/ block = Blank
<1>1. Typed /\ Readable /\ SectorsSafe /\ CanCreate
  BY DEF Stored, CreateNothing
<1>2. /\ inode_table' = grown /\ inodebm' = inodebm /\ pending = << >> /\ pending' = << >>
      /\ UNCHANGED <<cwd, goal, failures>> /\ goal = << >>
  BY DEF CreateNothing, CanCreate, Idle, faults
<1>3. n \in Known /\ n \in Inode /\ inode_table[n].dir
  <2>1. \A m \in Inode : grown[m].dir = inode_table[m].dir
    BY <1>1, Growing
  <2>2. n \in inodebm /\ grown[n].dir /\ n \in Inode
    BY <1>1, <1>2, TypedHas DEF Known
  <2> QED BY <2>1, <2>2 DEF Known
<1>4. PICK s : s = inode_table'[n].exts[j].block
  OBVIOUS
<1>5. failures = 0 \/ n # cwd
  BY <1>2 DEF Settled
<1>6. \/ n = cwd /\ s \in Sector \ b
      \/ j \in DOMAIN inode_table[n].exts /\ s = inode_table[n].exts[j].block
  BY <1>1, <1>2, <1>3, <1>4, Growing
<1>7. CASE n = cwd /\ s \in Sector \ b
  <2>1. failures = 0
    BY <1>5, <1>7
  <2>2. disk.data[s] = Blank
    BY <1>1, <1>7, <2>1 DEF Readable, Unused, Blank
  <2> QED BY <1>4, <2>2
<1>8. CASE j \in DOMAIN inode_table[n].exts /\ s = inode_table[n].exts[j].block
  <2>1. Settled(n, inode_table[n].exts[j].block)
    BY <1>2, <1>5, NothingComing DEF Settled
  <2> QED BY <1>3, <1>4, <1>8, <2>1 DEF Held
<1> QED BY <1>6, <1>7, <1>8

LEMMA NothingStored ==
    ASSUME Stored, create_entry, CreateNothing
    PROVE  Stored'
<1>1. Typed /\ Readable /\ SectorsSafe /\ CanCreate /\ Outgrown /\ Writing /\ Followed
  BY DEF Stored, CreateNothing
<1>2. /\ b' = used /\ inode_table' = grown /\ pending = << >> /\ goal = << >>
      /\ UNCHANGED <<disk, fifth, inodebm, cwd, entries, pending, goal, failures, errors>>
      /\ outgrown' = (outgrown \/ Grows)
  BY DEF CreateNothing, CanCreate, Idle, faults, create_entry
<1>3. inodebm = Inode
  BY <1>1, FdiFull, TypedHas DEF CreateNothing
<1>4. /\ b \subseteq used /\ used \subseteq Sector /\ grown \in [Inode -> InodeType]
      /\ \A n \in Inode : n # cwd \/ ~Grows => grown[n] = inode_table[n]
      /\ \A n \in Inode : /\ grown[n].dir = inode_table[n].dir
                          /\ inode_table[n].dir => First(grown[n]) = First(inode_table[n])
      /\ OwnSectors(grown, used)
  BY <1>1, Growing
<1>5. Known' = Known /\ \A n \in Known : n \in Inode /\ n \in Nat /\ inode_table[n].dir
  <2>1. \A n \in Inode : grown[n].dir = inode_table[n].dir
    BY <1>4
  <2> QED BY <1>2, <1>3, <2>1, Inodes DEF Known
<1>6. Typed'
  <2>1. /\ disk' \in [data : [Sector -> Block], inodes : [Inode -> OneSector],
                      sbm : SUBSET Sector, ibm : SUBSET Inode]
        /\ \A S \in {disk'.ibm, fifth', inodebm'} : Segment(S)
        /\ entries' \in [0 .. MAX_DIR_ENTRIES - 1 -> Entry]
        /\ goal' \in Path \cup {<< >>}
        /\ {failures', errors'} \subseteq Nat /\ failures' + errors' <= MaxFaults /\ outgrown' \in BOOLEAN
    BY <1>1, <1>2 DEF Typed
  <2>2. {Root, cwd'} \subseteq Known'
    BY <1>1, <1>2, <1>5 DEF Typed
  <2>3. inode_table' \in [Inode -> InodeType] /\ b' \subseteq Sector
    BY <1>2, <1>4
  <2> QED BY <2>1, <2>2, <2>3, CreateBehind DEF Typed
<1>7. Outgrown'
  <2>1. \A n \in Inode : Neighbours(n) \subseteq inodebm'
    BY <1>2, <1>3 DEF Neighbours
  <2>2. ~outgrown' => \A n \in Inode : inode_table'[n] \in OneSector
    BY <1>1, <1>2, <1>4 DEF Outgrown
  <2> QED BY <2>1, <2>2 DEF Outgrown
<1>8. SectorsSafe'
  BY <1>1, <1>2, <1>4 DEF SectorsSafe
<1>9. Writing'
  BY <1>2 DEF Writing, Creating
<1>10. Readable'
  <2>1. Heads(cwd, entries)' /\ Marked(entries)'
    BY <1>1, <1>2, <1>5 DEF Readable, Heads, Marked
  <2>2. Unused'
    BY <1>1, <1>2, <1>4 DEF Readable, Unused
  <2>3. \A n \in Inode : ~ Orphan(n)'
    BY <1>2, <1>3 DEF Orphan
  <2>4. ASSUME NEW n \in Known', NEW j \in DOMAIN inode_table'[n].exts,
               Settled(n, inode_table[n].exts[j].block)'
        PROVE  Sound(n, j, disk.data[inode_table'[n].exts[j].block])
    <3>1. PICK block : block = disk.data[inode_table'[n].exts[j].block]
      OBVIOUS
    <3>2. Root \in Known
      BY <1>1 DEF Typed
    <3> QED BY <1>1, <1>5, <2>4, <3>1, <3>2, NothingHeld, HeldSound, BlankSound
  <2>5. \A n \in Known' : \A j \in DOMAIN inode_table'[n].exts :
           Shows(n, j, inode_table[n].exts[j].block)'
    <3> SUFFICES ASSUME NEW n \in Known', NEW j \in DOMAIN inode_table'[n].exts,
                        Settled(n, inode_table[n].exts[j].block)'
                 PROVE  /\ Marked(disk.data[inode_table[n].exts[j].block])'
                        /\ j = 1 => Heads(n, disk.data[inode_table[n].exts[j].block])'
      BY DEF Shows
    <3>1. PICK block : block = disk.data[inode_table'[n].exts[j].block]
      OBVIOUS
    <3>2. Sound(n, j, block)
      BY <2>4, <3>1
    <3>3. Marked(block)' /\ (j = 1 => Heads(n, block)')
      BY <1>2, <1>5, <3>2, SoundStays
    <3> QED BY <1>2, <3>1, <3>3
  <2> QED BY <2>1, <2>2, <2>3, <2>5 DEF Readable
<1>11. Followed'
  <2>1. \A n \in Inode : ~ Creating(n) /\ ~ Creating(n)'
    BY <1>2 DEF Creating
  <2>2. ASSUME errors = 0, NEW n \in Inode PROVE Same(n)'
    <3>1. Same(n)
      BY <1>1, <2>1, <2>2 DEF Followed
    <3>2. inode_table'[n].dir = inode_table[n].dir
          /\ (inode_table[n].dir => First(inode_table'[n]) = First(inode_table[n]))
      BY <1>2, <1>4
    <3> QED BY <1>2, <3>1, <3>2 DEF Same
  <2>3. errors = 0 => disk'.sbm \subseteq b'
    BY <1>1, <1>2, <1>4 DEF Followed
  <2> QED BY <1>2, <2>1, <2>2, <2>3 DEF Followed
<1> QED BY <1>6, <1>7, <1>8, <1>9, <1>10, <1>11 DEF Stored

LEMMA CreateStored ==
    ASSUME Stored, create_entry
    PROVE  Stored'
<1>1. CASE CreateNothing
  BY <1>1, NothingStored
<1>2. CASE \E name \in Name : CreateFile(name) \/ CreateDirectory(name)
  <2>1. PICK name \in Name : CreateFile(name) \/ CreateDirectory(name)
    BY <1>2
  <2>2. \E n, x, more : Enters(name, n, x, more)
    <3>1. CASE CreateFile(name)
      BY <3>1, FileEnters
    <3>2. CASE CreateDirectory(name)
      BY <3>2, DirectoryEnters
    <3> QED BY <2>1, <3>1, <3>2
  <2> QED BY <2>2, EntersStored
<1> QED BY <1>1, <1>2 DEF create_entry

-----------------------------------------------------------------------------
(* cd writes the directory, and what cache_dir reads.                      *)

LEMMA FlushIs ==
    ASSUME Typed
    PROVE  /\ \E S : flush_dentry \in Seq(S)
           /\ DOMAIN flush_dentry = DOMAIN Sectors(inode_table[cwd])
           /\ \A k \in DOMAIN flush_dentry :
                 flush_dentry[k] = WriteData(Sectors(inode_table[cwd])[k], Chunk(k - 1))
<1>1. PICK t \in Seq(Nat) : t = Sectors(inode_table[cwd])
  BY TypedHas, InodeHas
<1>2. PICK l \in Nat : DOMAIN t = 1 .. l
  BY Len(t) \in Nat, DOMAIN t = 1 .. Len(t)
<1>3. flush_dentry = [k \in 1 .. l |-> WriteData(t[k], Chunk(k - 1))]
  BY <1>1, <1>2 DEF flush_dentry
<1>4. PICK f : f = flush_dentry
  OBVIOUS
<1>5. f \in Seq({f[k] : k \in 1 .. l})
  <2>1. f = [k \in 1 .. l |-> f[k]]
    BY <1>3, <1>4
  <2>2. PICK S : S = {f[k] : k \in 1 .. l}
    OBVIOUS
  <2>3. \A k \in 1 .. l : f[k] \in S
    BY <2>2
  <2>4. f \in [1 .. l -> S]
    BY <2>1, <2>3
  <2>5. f \in UNION {[1 .. n -> S] : n \in Nat}
    BY <1>2, <2>4
  <2>6. f \in Seq(S)
    BY <2>5, SeqDef
  <2> QED BY <2>2, <2>6
<1> QED BY <1>1, <1>2, <1>3, <1>4, <1>5

LEMMA CdSettled ==
    ASSUME Stored, NEW path \in Path, cd(path), NEW n \in Known, NEW j \in DOMAIN inode_table[n].exts,
           Settled(n, inode_table[n].exts[j].block)'
    PROVE  Settled(n, inode_table[n].exts[j].block)
<1>1. Typed
  BY DEF Stored
<1>2. /\ pending = << >> /\ pending' = flush_dentry
      /\ UNCHANGED <<inode_table, cwd, failures>>
  BY DEF cd, Idle, memory, faults
<1>3. CASE failures = 0
  BY <1>3 DEF Settled
<1>4. CASE n # cwd
  BY <1>2, <1>4, NothingComing DEF Settled
<1>5. CASE failures # 0 /\ n = cwd
  <2>1. PICK s : s = inode_table[cwd].exts[j].block
    OBVIOUS
  <2>2. inode_table[cwd].exts \in Seq(Extent) /\ j \in DOMAIN inode_table[cwd].exts
    BY <1>1, <1>5, TypedHas, InodeHas
  <2>3. PICK i \in DOMAIN Sectors(inode_table[cwd]) : Sectors(inode_table[cwd])[i] = s
    BY <2>1, <2>2, SectorsHave
  <2>4. i \in DOMAIN flush_dentry /\ flush_dentry[i] = WriteData(s, Chunk(i - 1))
    BY <1>1, <2>3, FlushIs
  <2>5. Place(flush_dentry[i]) = <<"data", s>>
    BY <2>4 DEF Place, WriteData
  <2>6. Coming(<<"data", s>>)'
    BY <1>2, <2>4, <2>5 DEF Coming
  <2> QED BY <1>2, <1>5, <2>1, <2>6 DEF Settled
<1> QED BY <1>3, <1>4, <1>5

LEMMA CdStored ==
    ASSUME Stored, NEW path \in Path, cd(path)
    PROVE  Stored'
<1>1. Typed /\ Readable /\ SectorsSafe /\ Outgrown /\ Writing /\ Followed
  BY DEF Stored
<1>2. /\ pending = << >> /\ goal = << >> /\ pending' = flush_dentry /\ goal' = path
      /\ UNCHANGED <<disk, b, fifth, inodebm, inode_table, cwd, entries>>
      /\ UNCHANGED <<failures, errors, outgrown, behind>>
  BY DEF cd, Idle, memory, faults
<1>3. path # << >>
  BY DEF Path
<1>4. Known' = Known
  BY <1>2 DEF Known
<1>5. Typed'
  BY <1>1, <1>2, <1>4 DEF Typed
<1>6. Outgrown' /\ SectorsSafe'
  BY <1>1, <1>2 DEF Outgrown, SectorsSafe
<1>7. flush_dentry' = flush_dentry
  BY <1>2 DEF flush_dentry, Chunk
<1>8. \A n \in Inode : ~ Creating(n) /\ ~ Creating(n)'
  BY <1>2, <1>3 DEF Creating
<1>9. Writing'
  <2>1. PICK S : flush_dentry \in Seq(S)
    BY <1>1, FlushIs
  <2>2. Rest(flush_dentry)'
    BY <1>2, <1>7, <2>1, LastOfAll DEF Rest
  <2> QED BY <1>2, <1>3, <1>8, <2>2 DEF Writing
<1>10. Followed'
  BY <1>1, <1>2, <1>8 DEF Followed, Same
<1>11. Readable'
  <2>1. Heads(cwd, entries)' /\ Marked(entries)'
    BY <1>1, <1>2, <1>4 DEF Readable, Heads, Marked
  <2>2. Unused'
    BY <1>1, <1>2 DEF Readable, Unused
  <2>3. \A n \in Inode : Orphan(n)' =>
          failures' = 1 /\ inode_table'[n] \in OneSector /\ Unnamed(disk.data[First(inode_table[n])])'
    BY <1>1, <1>2 DEF Readable, Orphan, Unnamed
  <2>4. \A n \in Known' : \A j \in DOMAIN inode_table'[n].exts :
           Shows(n, j, inode_table[n].exts[j].block)'
    <3> SUFFICES ASSUME NEW n \in Known, NEW j \in DOMAIN inode_table[n].exts,
                        Settled(n, inode_table[n].exts[j].block)'
                 PROVE  /\ Marked(disk.data[inode_table[n].exts[j].block])'
                        /\ j = 1 => Heads(n, disk.data[inode_table[n].exts[j].block])'
      BY <1>2, <1>4 DEF Shows
    <3>1. PICK block : block = disk.data[inode_table[n].exts[j].block]
      OBVIOUS
    <3>2. Sound(n, j, block)
      BY <1>1, <3>1, CdSettled, SettledKnown
    <3>3. Marked(block)' /\ (j = 1 => Heads(n, block)')
      BY <1>2, <1>4, <3>2, SoundStays
    <3> QED BY <1>2, <3>1, <3>3
  <2> QED BY <2>1, <2>2, <2>3, <2>4 DEF Readable
<1> QED BY <1>5, <1>6, <1>9, <1>10, <1>11 DEF Stored

(* What cache_dir reads.                                                   *)
From(x, j, i, k) == j \in DOMAIN x.exts /\ i \in 0 .. SLOTS - 1 /\ (j = 1 <=> k < SLOTS) /\ (k < SLOTS => i = k)
LEMMA CacheReads ==
    ASSUME disk.data \in [Sector -> Block], NEW x \in InodeType, x.dir
    PROVE  /\ cache_dir(x) \in [0 .. MAX_DIR_ENTRIES - 1 -> Entry]
           /\ \A k \in 0 .. SLOTS - 1 : cache_dir(x)[k] = disk.data[First(x)][k]
           /\ \A k \in 0 .. MAX_DIR_ENTRIES - 1 :
                 \/ cache_dir(x)[k] = EMPTY
                 \/ \E j, i : From(x, j, i, k) /\ cache_dir(x)[k] = disk.data[x.exts[j].block][i]
<1> DEFINE Got(k) == IF k \div SLOTS + 1 <= Len(x.exts)
                       THEN disk.data[x.exts[k \div SLOTS + 1].block][k % SLOTS] ELSE EMPTY
<1>1. cache_dir(x) = [k \in 0 .. MAX_DIR_ENTRIES - 1 |-> Got(k)]
  BY DEF cache_dir
<1>2. /\ DOMAIN x.exts = 1 .. Len(x.exts) /\ Len(x.exts) \in Nat \ {0}
      /\ \A j \in DOMAIN x.exts : x.exts[j].block \in Sector
  BY InodeHas
<1>3. disk.data \in [Sector -> Block]
  OBVIOUS
<1>4. EMPTY \in Entry
  BY Inodes DEF EMPTY, Entry, Root
<1>5. ASSUME NEW k \in 0 .. MAX_DIR_ENTRIES - 1
      PROVE  \/ Got(k) = EMPTY /\ ~ k < SLOTS
             \/ \E j, i : From(x, j, i, k) /\ Got(k) = disk.data[x.exts[j].block][i]
  <2>1. k \in Nat
    OBVIOUS
  <2>2. PICK q \in Nat, i \in 0 .. SLOTS - 1 :
            q = k \div SLOTS /\ i = k % SLOTS /\ (k < SLOTS <=> q = 0) /\ (k < SLOTS => i = k)
    BY <2>1, Slots
  <2>3. Got(k) = IF q + 1 <= Len(x.exts) THEN disk.data[x.exts[q + 1].block][i] ELSE EMPTY
    BY <2>2
  <2> HIDE DEF Got
  <2>4. CASE q + 1 <= Len(x.exts)
    <3>1. q + 1 \in DOMAIN x.exts /\ (q + 1 = 1 <=> k < SLOTS)
      BY <1>2, <2>2, <2>4
    <3>2. From(x, q + 1, i, k)
      BY <2>2, <3>1 DEF From
    <3> QED BY <2>3, <2>4, <3>2
  <2>5. CASE ~ q + 1 <= Len(x.exts)
    <3>1. q # 0
      BY <1>2, <2>5
    <3> QED BY <2>2, <2>3, <2>5, <3>1
  <2> QED BY <2>4, <2>5
<1>6. ASSUME NEW k \in 0 .. MAX_DIR_ENTRIES - 1 PROVE Got(k) \in Entry
  <2> HIDE DEF Got
  <2>1. ASSUME NEW j, NEW i, From(x, j, i, k) PROVE disk.data[x.exts[j].block][i] \in Entry
    <3>1. i \in 0 .. SLOTS - 1 /\ x.exts[j].block \in Sector
      BY <1>2, <2>1 DEF From
    <3>2. disk.data[x.exts[j].block] \in Block
      BY <1>3, <3>1
    <3> QED BY <3>1, <3>2 DEF Block, Entry
  <2> QED BY <1>4, <1>5, <2>1
<1>7. ASSUME NEW k \in 0 .. SLOTS - 1 PROVE k \in 0 .. MAX_DIR_ENTRIES - 1 /\ Got(k) = disk.data[First(x)][k]
  <2>1. k \in 0 .. MAX_DIR_ENTRIES - 1 /\ k < SLOTS
    BY Sizes
  <2> HIDE DEF Got
  <2> QED BY <1>5, <2>1 DEF First, From
<1> HIDE DEF Got
<1>8. cache_dir(x) \in [0 .. MAX_DIR_ENTRIES - 1 -> Entry]
  BY <1>1, <1>6
<1>9. \A k \in 0 .. SLOTS - 1 : cache_dir(x)[k] = disk.data[First(x)][k]
  BY <1>1, <1>7
<1>10. \A k \in 0 .. MAX_DIR_ENTRIES - 1 : cache_dir(x)[k] = Got(k)
  BY <1>1
<1> QED BY <1>5, <1>8, <1>9, <1>10

LEMMA CacheIs ==
    ASSUME Typed, NEW x \in InodeType, x.dir
    PROVE  /\ cache_dir(x) \in [0 .. MAX_DIR_ENTRIES - 1 -> Entry]
           /\ \A k \in 0 .. SLOTS - 1 : cache_dir(x)[k] = disk.data[First(x)][k]
           /\ \A k \in 0 .. MAX_DIR_ENTRIES - 1 :
                 \/ cache_dir(x)[k] = EMPTY
                 \/ \E j, i : From(x, j, i, k) /\ cache_dir(x)[k] = disk.data[x.exts[j].block][i]
<1>1. disk.data \in [Sector -> Block]
  BY TypedHas
<1> QED BY <1>1, CacheReads

-----------------------------------------------------------------------------
(* Where cd may lead.                                                      *)

(* The entries that ls shows lead to inodes that are in use.               *)
Named(e) == e.name # ""
LEMMA Indices == \A k \in 0 .. MAX_DIR_ENTRIES - 1 : k \in Nat
BY Sizes

LEMMA FirstIndices ==
    ASSUME Typed, NEW m, inode_table[m] \in OneSector, NEW x, x = inode_table[m], x.dir, NEW k \in 0 .. MAX_DIR_ENTRIES - 1,
           NEW j, NEW i, From(x, j, i, k)
    PROVE  j = 1 /\ k \in 0 .. SLOTS - 1 /\ i = k
<1>1. x.exts = <<[block |-> First(x), length |-> 1]>>
  BY OneSectorHas
<1>2. PICK r : x.exts = <<r>>
  BY <1>1
<1>3. DOMAIN x.exts = {1}
  BY <1>2
<1>4. j = 1 /\ k < SLOTS /\ i = k
  BY <1>3 DEF From
<1>5. k \in Nat /\ SLOTS \in Nat
  BY Sizes
<1> QED BY <1>4, <1>5

LEMMA NamedMarked ==
    ASSUME Stored, pending = << >>, NEW m \in Inode, inode_table[m].dir, m # cwd \/ goal # << >>,
           NEW k \in 0 .. MAX_DIR_ENTRIES - 1, Named(cache_dir(inode_table[m])[k]),
           m \in inodebm \/ k \in 2 .. MAX_DIR_ENTRIES - 1
    PROVE  m \in Known /\ cache_dir(inode_table[m])[k].inode \in inodebm
<1>1. Typed /\ Readable /\ inode_table[m] \in InodeType
  BY TypedHas DEF Stored
<1>13. PICK x : x = inode_table[m]
  OBVIOUS
<1>2. PICK e : e = cache_dir(x)[k] /\ e = cache_dir(inode_table[m])[k]
  BY <1>13
<1>3. e # EMPTY
  <2>1. Named(e)
    BY <1>2
  <2>2. ~ Named(EMPTY)
    BY DEF EMPTY, Named
  <2> QED BY <2>1, <2>2
<1>12. PICK j, i : From(x, j, i, k) /\ e = disk.data[x.exts[j].block][i]
  <2>1. x \in InodeType /\ x.dir
    BY <1>1, <1>13
  <2>2. \/ cache_dir(x)[k] = EMPTY
        \/ \E j, i : From(x, j, i, k) /\ cache_dir(x)[k] = disk.data[x.exts[j].block][i]
    BY <1>1, <2>1, CacheIs
  <2> QED BY <1>2, <1>3, <2>2
<1>4. /\ j \in DOMAIN inode_table[m].exts /\ i \in 0 .. SLOTS - 1
      /\ (j = 1 <=> k < SLOTS) /\ (k < SLOTS => i = k)
      /\ e = disk.data[inode_table[m].exts[j].block][i]
  BY <1>12, <1>13 DEF From
<1>5. PICK block : block = disk.data[inode_table[m].exts[j].block]
  OBVIOUS
<1>6. block \in Block
  BY <1>1, <1>4, <1>5, InodeHas, TypedHas
<1>7. i \in DOMAIN block /\ block[i] = e
  BY <1>4, <1>5, <1>6 DEF Block
<1>8. m \in inodebm
  <2> SUFFICES ASSUME m \notin inodebm PROVE FALSE
    OBVIOUS
  <2>1. inode_table[m] \in OneSector /\ Unnamed(disk.data[First(inode_table[m])])
    BY <1>1 DEF Readable, Orphan
  <2>2. j = 1 /\ k \in 0 .. SLOTS - 1 /\ i = k
    BY <1>1, <1>12, <1>13, <2>1, FirstIndices
  <2>3. i \in 2 .. SLOTS - 1
    <3>1. k \in 2 .. MAX_DIR_ENTRIES - 1
      OBVIOUS
    <3>2. SLOTS \in Nat /\ MAX_DIR_ENTRIES \in Nat
      BY Sizes
    <3> QED BY <2>2, <3>1, <3>2
  <2>4. block = disk.data[First(inode_table[m])]
    BY <1>5, <2>2 DEF First
  <2>5. block[i].name = "" /\ Named(block[i])
    <3>1. Named(block[i])
      BY <1>2, <1>7
    <3>2. block[i].name = ""
      BY <2>1, <2>3, <2>4 DEF Unnamed
    <3> QED BY <3>1, <3>2
  <2> QED BY <2>5 DEF Named
<1>9. m \in Known
  BY <1>8 DEF Known
<1>10. Settled(m, inode_table[m].exts[j].block)
  BY NothingComing DEF Settled
<1>11. Sound(m, j, block)
  BY <1>1, <1>4, <1>5, <1>9, <1>10, SettledKnown
<1>14. Named(block[i])
  BY <1>2, <1>7
<1>15. block[i].inode \in inodebm
  BY <1>7, <1>11, <1>14 DEF Sound, Marked, Named
<1> QED BY <1>2, <1>7, <1>9, <1>15

LEMMA TreeMarked ==
    ASSUME Stored, pending = << >>, NEW e \in tree
    PROVE  e.is \in inodebm /\ e.dir = inode_table[e.is].dir
<1>1. Typed /\ Readable
  BY DEF Stored
<1>2. CASE e \in Shown(cwd, entries, inode_table)
  <2>1. PICK k \in DOMAIN entries : /\ k >= 2 /\ entries[k].name # ""
                                   /\ e = [in |-> cwd, name |-> entries[k].name, is |-> entries[k].inode,
                                          dir |-> inode_table[entries[k].inode].dir]
    BY <1>2 DEF Shown
  <2>2. entries[k].inode \in inodebm
    BY <1>1, <2>1 DEF Readable, Marked
  <2> QED BY <2>1, <2>2
<1>3. CASE e \in ShownAfterCd(inode_table, DirectoriesOf(inode_table) \ {cwd})
  <2>1. PICK m \in DirectoriesOf(inode_table) \ {cwd} :
            e \in Shown(m, cache_dir(inode_table[m]), inode_table)
    BY <1>3 DEF ShownAfterCd
  <2>2. m \in Inode /\ inode_table[m].dir /\ m # cwd /\ inode_table[m] \in InodeType
    BY <1>1, <2>1, TypedHas DEF DirectoriesOf
  <2>3. PICK c : c = cache_dir(inode_table[m])
    OBVIOUS
  <2>4. PICK k \in DOMAIN c : k >= 2 /\ c[k].name # ""
            /\ e = [in |-> m, name |-> c[k].name, is |-> c[k].inode, dir |-> inode_table[c[k].inode].dir]
    BY <2>1, <2>3 DEF Shown
  <2>5. DOMAIN c = 0 .. MAX_DIR_ENTRIES - 1
    BY <1>1, <2>2, <2>3, CacheIs
  <2>7. Named(c[k])
    BY <2>4 DEF Named
  <2>8. k \in 2 .. MAX_DIR_ENTRIES - 1
    <3>1. k \in 0 .. MAX_DIR_ENTRIES - 1 /\ k >= 2
      BY <2>4, <2>5
    <3>2. MAX_DIR_ENTRIES \in Nat
      BY Sizes
    <3> QED BY <3>1, <3>2
  <2>6. c[k].inode \in inodebm
    BY <2>2, <2>3, <2>5, <2>7, <2>8, NamedMarked
  <2> QED BY <2>4, <2>6
<1> QED BY <1>2, <1>3 DEF tree

LEMMA HitIs ==
    ASSUME Typed, NEW name, Hits(name) # {}
    PROVE  LET k == Lowest(Hits(name)) IN
             /\ k \in DOMAIN entries /\ entries[k].name = name
             /\ inode_table[entries[k].inode].dir
<1>1. Hits(name) \in SUBSET Nat
  <2>1. DOMAIN entries = 0 .. MAX_DIR_ENTRIES - 1
    BY TypedHas
  <2> QED BY <2>1, Indices DEF Hits
<1>2. Lowest(Hits(name)) \in Hits(name)
  BY <1>1, LowestIs
<1> QED BY <1>2 DEF Hits

(* cd finds a directory that is in use.                                    *)
Up(path) == path[1] = ".." /\ cwd = Root
Starts(path) == path[1] = "."
Short(path) == Len(path) = 2
LEMMA FdDirIs ==
    ASSUME NEW path, NEW n \in fd_dir(path), n # NOWHERE
    PROVE  \/ n = entries[1].inode \/ n = cwd \/ n \in LinkedDirectories
           \/ Starts(path) /\ Short(path) /\ Hits(path[2]) # {} /\ n = entries[Lowest(Hits(path[2]))].inode
<1>1. PICK p, q, up, here, nohit, hit :
          /\ p = (path = <<"..">>) /\ q = (path = <<".">>) /\ up = Up(path) /\ here = Starts(path)
          /\ nohit = (Starts(path) /\ Hits(path[2]) = {}) /\ hit = (Starts(path) /\ Short(path))
  OBVIOUS
<1>2. fd_dir(path) =
        IF up THEN {NOWHERE}
        ELSE IF p THEN {entries[1].inode}
        ELSE IF q THEN {cwd}
        ELSE IF nohit THEN {NOWHERE}
        ELSE IF hit THEN {entries[Lowest(Hits(path[2]))].inode}
        ELSE LinkedDirectories \cup {NOWHERE}
  BY <1>1 DEF fd_dir, Up, Starts, Short
<1>3. PICK v, w, x : v = {entries[1].inode} /\ w = {cwd} /\ x = {entries[Lowest(Hits(path[2]))].inode}
  OBVIOUS
<1>4. \/ n \in {NOWHERE} \/ n \in v \/ n \in w \/ n \in LinkedDirectories \cup {NOWHERE}
      \/ hit /\ ~ nohit /\ n \in x
  <2>1. CASE up \/ p \/ q
    BY <1>2, <1>3, <2>1
  <2>2. CASE ~ up /\ ~ p /\ ~ q /\ nohit
    BY <1>2, <2>2
  <2>3. CASE ~ up /\ ~ p /\ ~ q /\ ~ nohit /\ hit
    BY <1>2, <1>3, <2>3
  <2>4. CASE ~ up /\ ~ p /\ ~ q /\ ~ nohit /\ ~ hit
    BY <1>2, <2>4
  <2> QED BY <2>1, <2>2, <2>3, <2>4
<1>5. hit /\ ~ nohit => Starts(path) /\ Short(path) /\ Hits(path[2]) # {}
  BY <1>1
<1> QED BY <1>3, <1>4, <1>5

LEMMA FoundKnown ==
    ASSUME Stored, pending = << >>, goal # << >>, NEW n \in fd_dir(goal), n # NOWHERE
    PROVE  n \in Known
<1>1. Typed /\ Readable /\ goal \in Path /\ inodebm \subseteq Inode
  BY TypedHas DEF Stored, Typed
<1>2. \/ n = entries[1].inode \/ n = cwd \/ n \in LinkedDirectories
      \/ Starts(goal) /\ Short(goal) /\ Hits(goal[2]) # {} /\ n = entries[Lowest(Hits(goal[2]))].inode
  BY FdDirIs
<1>3. entries[1].inode \in Known /\ cwd \in Known /\ Root \in Known
  BY <1>1 DEF Readable, Heads, Typed
<1>4. CASE n \in LinkedDirectories
  <2>1. n = Root \/ \E e \in tree : e.dir /\ n = e.is
    BY <1>4 DEF LinkedDirectories
  <2>2. \A e \in tree : e.dir => e.is \in Known
    BY TreeMarked DEF Known
  <2> QED BY <1>3, <2>1, <2>2
<1>5. CASE Starts(goal) /\ Short(goal) /\ Hits(goal[2]) # {} /\ n = entries[Lowest(Hits(goal[2]))].inode
  <2>1. goal[2] # ""
    <3>1. \A path \in Path : Starts(path) /\ Short(path) => path[2] \in Name \cup {".."}
      BY DEF Path, Starts, Short
    <3>2. "" \notin Name \cup {".."}
      BY NamesAre
    <3> QED BY <1>1, <1>5, <3>1, <3>2
  <2>2. PICK k : k = Lowest(Hits(goal[2]))
    OBVIOUS
  <2>3. k \in DOMAIN entries /\ entries[k].name = goal[2] /\ inode_table[entries[k].inode].dir
    BY <1>1, <1>5, <2>2, HitIs
  <2>4. entries[k].inode \in inodebm
    BY <1>1, <2>1, <2>3 DEF Readable, Marked
  <2> QED BY <1>5, <2>2, <2>3, <2>4 DEF Known
<1> QED BY <1>2, <1>3, <1>4, <1>5

-----------------------------------------------------------------------------
(* cd reads the directory that it found.                                   *)

(* A cache whose first sector is sound is sound there.                     *)
LEMMA HeadsSame ==
    ASSUME NEW n, NEW block, NEW cache, Heads(n, block), \A k \in 0 .. SLOTS - 1 : cache[k] = block[k]
    PROVE  Heads(n, cache)
<1>1. 0 \in 0 .. SLOTS - 1 /\ 1 \in 0 .. SLOTS - 1
      /\ \A k \in 2 .. SLOTS - 1 : k \in 0 .. SLOTS - 1 /\ (k > 2 => k - 1 \in 0 .. SLOTS - 1)
  BY Sizes
<1>2. cache[0] = block[0] /\ cache[1] = block[1]
      /\ \A k \in 2 .. SLOTS - 1 : cache[k] = block[k] /\ (k > 2 => cache[k - 1] = block[k - 1])
  BY <1>1
<1> QED BY <1>2 DEF Heads

LEMMA EnteredSound ==
    ASSUME Stored, pending = << >>, goal # << >>, NEW n \in Known, NEW c, c = cache_dir(inode_table[n])
    PROVE  /\ c \in [0 .. MAX_DIR_ENTRIES - 1 -> Entry] /\ Heads(n, c)
           /\ \A k \in DOMAIN c : c[k].name # "" => c[k].inode \in inodebm
<1>1. Typed /\ Readable /\ n \in Inode /\ n \in inodebm /\ inode_table[n].dir /\ inode_table[n] \in InodeType
  BY TypedHas DEF Stored, Known
<1>2. /\ c \in [0 .. MAX_DIR_ENTRIES - 1 -> Entry]
      /\ \A k \in 0 .. SLOTS - 1 : c[k] = disk.data[First(inode_table[n])][k]
  BY <1>1, CacheIs
<1>3. PICK block : block = disk.data[First(inode_table[n])]
  OBVIOUS
<1>4. Heads(n, block)
  <2>1. 1 \in DOMAIN inode_table[n].exts /\ inode_table[n].exts[1].block = First(inode_table[n])
    BY <1>1, InodeHas DEF First
  <2>2. Settled(n, inode_table[n].exts[1].block)
    BY NothingComing DEF Settled
  <2>3. Sound(n, 1, disk.data[inode_table[n].exts[1].block])
    BY <1>1, <2>1, <2>2, SettledKnown
  <2> QED BY <1>3, <2>1, <2>3 DEF Sound
<1>5. \A k \in 0 .. SLOTS - 1 : c[k] = block[k]
  BY <1>2, <1>3
<1>6. Heads(n, c)
  BY <1>4, <1>5, HeadsSame
<1>7. \A k \in DOMAIN c : Named(c[k]) => c[k].inode \in inodebm
  <2> SUFFICES ASSUME NEW k \in 0 .. MAX_DIR_ENTRIES - 1, Named(c[k]) PROVE c[k].inode \in inodebm
    BY <1>2
  <2> QED BY <1>1, NamedMarked
<1> QED BY <1>2, <1>6, <1>7 DEF Named

LEMMA CdDoneStored ==
    ASSUME Stored, CdDone
    PROVE  Stored'
<1>1. Typed /\ Readable /\ SectorsSafe /\ Outgrown /\ Writing /\ Followed
  BY DEF Stored
<1>2. /\ pending = << >> /\ goal # << >> /\ goal' = << >>
      /\ UNCHANGED <<disk, b, fifth, inodebm, inode_table, pending>>
      /\ UNCHANGED <<failures, errors, outgrown, behind>>
  BY DEF CdDone, faults
<1>3. PICK n \in fd_dir(goal) : IF n = NOWHERE THEN UNCHANGED <<cwd, entries>>
                                ELSE cwd' = n /\ entries' = cache_dir(inode_table[n])
  BY DEF CdDone
<1>4. /\ cwd' \in Known /\ Heads(cwd', entries')
      /\ entries' \in [0 .. MAX_DIR_ENTRIES - 1 -> Entry]
      /\ \A k \in DOMAIN entries' : entries'[k].name # "" => entries'[k].inode \in inodebm
  <2>1. CASE n = NOWHERE
    <3>1. /\ cwd \in Known /\ Heads(cwd, entries)
          /\ entries \in [0 .. MAX_DIR_ENTRIES - 1 -> Entry]
          /\ \A k \in DOMAIN entries : entries[k].name # "" => entries[k].inode \in inodebm
      BY <1>1 DEF Typed, Readable, Marked
    <3> QED BY <1>3, <2>1, <3>1
  <2>2. CASE n # NOWHERE
    <3>1. cwd' = n /\ entries' = cache_dir(inode_table[n])
      BY <1>3, <2>2
    <3>2. n \in Known
      BY <1>2, <2>2, FoundKnown
    <3> QED BY <1>2, <3>1, <3>2, EnteredSound
  <2> QED BY <2>1, <2>2
<1>5. Known' = Known
  BY <1>2 DEF Known
<1>6. Typed'
  <2>1. {Root, cwd'} \subseteq Known'
    BY <1>1, <1>4, <1>5 DEF Typed
  <2> QED BY <1>1, <1>2, <1>4, <2>1 DEF Typed
<1>7. Outgrown' /\ SectorsSafe'
  BY <1>1, <1>2 DEF Outgrown, SectorsSafe
<1>8. \A m \in Inode : ~ Creating(m) /\ ~ Creating(m)'
  BY <1>2 DEF Creating
<1>9. Writing'
  BY <1>2, <1>8 DEF Writing
<1>10. Followed'
  BY <1>1, <1>2, <1>8 DEF Followed, Same
<1>11. Readable'
  <2>1. Heads(cwd, entries)' /\ Marked(entries)'
    BY <1>2, <1>4, <1>5 DEF Heads, Marked
  <2>2. Unused'
    BY <1>1, <1>2 DEF Readable, Unused
  <2>3. \A m \in Inode : Orphan(m)' =>
          failures' = 1 /\ inode_table'[m] \in OneSector /\ Unnamed(disk.data[First(inode_table[m])])'
    BY <1>1, <1>2 DEF Readable, Orphan, Unnamed
  <2>4. \A m, s : Settled(m, s)
    BY <1>2, NothingComing DEF Settled
  <2>5. \A m \in Known' : \A j \in DOMAIN inode_table'[m].exts :
           Shows(m, j, inode_table[m].exts[j].block)'
    <3> SUFFICES ASSUME NEW m \in Known, NEW j \in DOMAIN inode_table[m].exts
                 PROVE  /\ Marked(disk.data[inode_table[m].exts[j].block])'
                        /\ j = 1 => Heads(m, disk.data[inode_table[m].exts[j].block])'
      BY <1>2, <1>5 DEF Shows
    <3>1. PICK block : block = disk.data[inode_table[m].exts[j].block]
      OBVIOUS
    <3>2. Sound(m, j, block)
      BY <1>1, <2>4, <3>1, SettledKnown
    <3>3. Marked(block)' /\ (j = 1 => Heads(m, block)')
      BY <1>2, <1>5, <3>2, SoundStays
    <3> QED BY <1>2, <3>1, <3>3
  <2> QED BY <2>1, <2>2, <2>3, <2>5 DEF Readable
<1> QED BY <1>6, <1>7, <1>9, <1>10, <1>11 DEF Stored

-----------------------------------------------------------------------------
(* One write less.                                                         *)

(* The next write of the creation of an inode.                             *)
Next5(n, w, l) ==
    \/ /\ inode_table[n].dir
       /\ \/ l = 5 /\ w = WriteData(First(inode_table[n]), NewBlock(n))
          \/ l = 4 /\ w = Write("sbm", b)
          \/ l = 3 /\ w = Write("ibm", fifth)
          \/ l = 2 /\ w = Write("ibm", inodebm)
          \/ l = 1 /\ w = InodesNear(n)
    \/ /\ ~ inode_table[n].dir
       /\ \/ l = 2 /\ w = Write("ibm", inodebm)
          \/ l = 1 /\ w = InodesNear(n)

LEMMA MadeHead ==
    ASSUME NEW n, Rest(Made(n)), pending # << >>
    PROVE  /\ Next5(n, Head(pending), Len(pending))
           /\ \E S : Made(n) \in Seq(S)
<1>1. PICK v, w, x, y, z :
         /\ v = WriteData(First(inode_table[n]), NewBlock(n)) /\ w = Write("sbm", b)
         /\ x = Write("ibm", fifth) /\ y = Write("ibm", inodebm) /\ z = InodesNear(n)
  OBVIOUS
<1>2. Made(n) = IF inode_table[n].dir THEN <<v, w, x, y, z>> ELSE <<y, z>>
  BY <1>1 DEF Made
<1>3. PICK S : <<v, w, x, y, z>> \in Seq(S) /\ <<y, z>> \in Seq(S)
  BY Sequence
<1>4. PICK made : made = Made(n)
  OBVIOUS
<1>5. made \in Seq(S)
  BY <1>2, <1>3, <1>4
<1>6. /\ Len(pending) <= Len(made) /\ Len(pending) > 0 /\ pending \in Seq(S)
      /\ Head(pending) = made[Len(made) - Len(pending) + 1]
  BY <1>4, <1>5, RestHas
<1>7. PICK l \in Nat : l = Len(pending)
  BY <1>6
<1>8. CASE inode_table[n].dir
  <2>1. made = <<v, w, x, y, z>>
    BY <1>2, <1>4, <1>8
  <2>2. l \in 1 .. 5 /\ Head(pending) = made[5 - l + 1]
    <3>1. Len(made) = 5
      BY <2>1
    <3>2. l <= 5 /\ l > 0
      BY <1>6, <1>7, <3>1
    <3>3. Head(pending) = made[5 - l + 1]
      BY <1>6, <1>7, <3>1, Zenon
    <3> QED BY <3>2, <3>3
  <2>3. \/ l = 5 /\ Head(pending) = v
        \/ l = 4 /\ Head(pending) = w
        \/ l = 3 /\ Head(pending) = x
        \/ l = 2 /\ Head(pending) = y
        \/ l = 1 /\ Head(pending) = z
    <3>1. made[1] = v /\ made[2] = w /\ made[3] = x /\ made[4] = y /\ made[5] = z
      BY <2>1
    <3>2. \/ l = 5 /\ 5 - l + 1 = 1
          \/ l = 4 /\ 5 - l + 1 = 2
          \/ l = 3 /\ 5 - l + 1 = 3
          \/ l = 2 /\ 5 - l + 1 = 4
          \/ l = 1 /\ 5 - l + 1 = 5
      BY <2>2
    <3> QED BY <2>2, <3>1, <3>2, Zenon
  <2> QED BY <1>1, <1>4, <1>5, <1>7, <1>8, <2>3 DEF Next5
<1>9. CASE ~ inode_table[n].dir
  <2>1. made = <<y, z>>
    BY <1>2, <1>4, <1>9
  <2>2. l \in 1 .. 2 /\ Head(pending) = made[2 - l + 1]
    BY <1>6, <1>7, <2>1
  <2>3. \/ l = 2 /\ Head(pending) = y
        \/ l = 1 /\ Head(pending) = z
    <3>1. made[1] = y /\ made[2] = z
      BY <2>1
    <3>2. \/ l = 2 /\ 2 - l + 1 = 1
          \/ l = 1 /\ 2 - l + 1 = 2
      BY <2>2
    <3> QED BY <2>2, <3>1, <3>2, Zenon
  <2> QED BY <1>1, <1>4, <1>5, <1>7, <1>9, <2>3 DEF Next5
<1> QED BY <1>8, <1>9

(* The disk is done with the first write, whether it took it or not.       *)
Delivers ==
    /\ pending # << >> /\ pending' = Tail(pending)
    /\ UNCHANGED <<b, fifth, inodebm, inode_table, cwd, entries>>
    /\ UNCHANGED <<goal, failures, outgrown>>
Flushed(k) ==
    /\ k \in DOMAIN Sectors(inode_table[cwd])
    /\ Head(pending) = WriteData(Sectors(inode_table[cwd])[k], Chunk(k - 1))

LEMMA DeliversHas ==
    ASSUME Stored, Delivers
    PROVE  /\ Writing' /\ Outgrown' /\ Known' = Known
           /\ Splits(pending, pending') /\ 1 \in DOMAIN pending /\ Head(pending) = pending[1]
           /\ \A n \in Inode : Creating(n)' => Creating(n)
           /\ Len(pending) \in Nat /\ Len(pending') = Len(pending) - 1
           /\ \/ goal # << >> /\ \E k : Flushed(k)
              \/ \E n \in Inode : Creating(n) /\ Next5(n, Head(pending), Len(pending))
<1>1. Typed /\ Writing /\ Outgrown
  BY DEF Stored
<1>2. /\ pending # << >> /\ pending' = Tail(pending)
      /\ UNCHANGED <<b, fifth, inodebm, inode_table, cwd, entries>>
      /\ goal' = goal /\ outgrown' = outgrown
  BY DEF Delivers
<1>3. Outgrown' /\ Known' = Known
  BY <1>1, <1>2 DEF Outgrown, Known
<1>4. \A n \in Inode : Creating(n)' => Creating(n)
  BY <1>2 DEF Creating, Newest
<1>5. CASE goal # << >>
  <2>1. PICK S : flush_dentry \in Seq(S)
    BY <1>1, FlushIs
  <2>2. PICK writes : writes = flush_dentry
    OBVIOUS
  <2>3. writes \in Seq(S) /\ Rest(writes)
    BY <1>1, <1>5, <2>1, <2>2 DEF Writing
  <2>4. flush_dentry' = flush_dentry
    BY <1>2 DEF flush_dentry, Chunk
  <2>5. /\ Len(pending) \in Nat /\ Len(pending') = Len(pending) - 1 /\ Splits(pending, pending')
        /\ 1 \in DOMAIN pending /\ Head(pending) = pending[1]
        /\ \E m \in 0 .. Len(writes) : pending' = LastOf(writes, m)
        /\ \E k \in DOMAIN writes : Head(pending) = writes[k]
    BY <1>2, <2>3, RestHas
  <2>6. Rest(flush_dentry)'
    BY <2>2, <2>4, <2>5 DEF Rest
  <2>7. \E k : Flushed(k)
    BY <1>1, <2>2, <2>5, FlushIs DEF Flushed
  <2>8. Writing'
    BY <1>2, <1>5, <2>6 DEF Writing, Creating
  <2> QED BY <1>3, <1>4, <1>5, <2>5, <2>7, <2>8
<1>6. CASE goal = << >>
  <2>1. PICK n \in Inode : Newest(n)
    BY <1>1, <1>2, <1>6 DEF Writing
  <2>2. Creating(n)
    BY <1>2, <1>6, <2>1 DEF Creating
  <2>3. Rest(Made(n)) /\ \A m \in Neighbours(n) : inode_table[m] \in OneSector
    BY <1>1, <2>2 DEF Writing
  <2>4. Next5(n, Head(pending), Len(pending))
    BY <1>2, <2>3, MadeHead
  <2>5. PICK S : Made(n) \in Seq(S)
    BY <1>2, <2>3, MadeHead
  <2>6. PICK writes : writes = Made(n)
    OBVIOUS
  <2>7. /\ Len(pending) \in Nat /\ Len(pending') = Len(pending) - 1 /\ Splits(pending, pending')
        /\ 1 \in DOMAIN pending /\ Head(pending) = pending[1]
        /\ \E m \in 0 .. Len(writes) : pending' = LastOf(writes, m)
    <3>1. writes \in Seq(S) /\ Rest(writes)
      BY <2>3, <2>5, <2>6
    <3> QED BY <1>2, <3>1, RestHas
  <2>8. \A m \in Inode : Creating(m)' => Rest(Made(m))' /\ \A i \in Neighbours(m) : inode_table'[i] \in OneSector
    <3> SUFFICES ASSUME NEW m \in Inode, Creating(m)'
                 PROVE  Rest(Made(m))' /\ \A i \in Neighbours(m) : inode_table'[i] \in OneSector
      OBVIOUS
    <3>1. Creating(m)
      BY <1>4
    <3>2. Rest(Made(m)) /\ \A i \in Neighbours(m) : inode_table[i] \in OneSector
      BY <1>1, <3>1 DEF Writing
    <3>3. PICK U : Made(m) \in Seq(U)
      BY <1>2, <3>2, MadeHead
    <3>4. PICK all : all = Made(m)
      OBVIOUS
    <3>5. \E i \in 0 .. Len(all) : pending' = LastOf(all, i)
      BY <1>2, <3>2, <3>3, <3>4, RestHas
    <3>6. Made(m)' = all
      BY <1>2, <3>4 DEF Made, NewBlock, InodesNear
    <3>7. Rest(Made(m))'
      BY <3>5, <3>6 DEF Rest
    <3> QED BY <1>2, <3>2, <3>7
  <2>9. Newest(n)'
    BY <1>2, <2>1 DEF Newest
  <2>10. Writing'
    BY <1>2, <1>6, <2>8, <2>9 DEF Writing
  <2> QED BY <1>3, <1>4, <2>2, <2>4, <2>7, <2>10
<1> QED BY <1>5, <1>6

LEMMA SectorOfIs == \A n \in Inode : SectorOf(n) \in Nat
<1>1. INODES_PER_SECTOR \in Nat /\ INODES_PER_SECTOR > 0
  BY Sizes
<1>2. \A n \in Nat : n \div INODES_PER_SECTOR \in Nat
  BY <1>1
<1> QED BY <1>2, Inodes, Zenon DEF SectorOf

LEMMA PlaceIs ==
    ASSUME Stored, Delivers
    PROVE  Place(Head(pending)) \in {"sbm", "ibm", "inodes", "data"} \X Nat
<1>1. Typed
  BY DEF Stored
<1>2. CASE \E k : Flushed(k)
  <2>1. PICK k : Flushed(k)
    BY <1>2
  <2>2. Sectors(inode_table[cwd]) \in Seq(Nat)
    BY <1>1, TypedHas, InodeHas
  <2>3. PICK s \in Nat : s = Sectors(inode_table[cwd])[k]
    BY <2>1, <2>2 DEF Flushed
  <2>4. Place(Head(pending)) = <<"data", s>>
    BY <2>1, <2>3 DEF Flushed, Place, WriteData
  <2> QED BY <2>4
<1>3. CASE \E n \in Inode : Creating(n) /\ Next5(n, Head(pending), Len(pending))
  <2>1. PICK n, l : n \in Inode /\ Next5(n, Head(pending), l)
    BY <1>3
  <2>2. inode_table[n].dir => First(inode_table[n]) \in Nat
    BY <1>1, <2>1, TypedHas, InodeHas, SectorIsNat
  <2>3. PICK s, block, near : /\ s = First(inode_table[n]) /\ block = NewBlock(n)
                              /\ near = [m \in Neighbours(n) |-> inode_table[m]]
    OBVIOUS
  <2>6. PICK k \in Nat : k = SectorOf(n)
    BY <2>1, SectorOfIs
  <2>4. InodesNear(n) = [to |-> "inodes", at |-> k, what |-> near]
    BY <2>3, <2>6 DEF InodesNear, WriteInodes
  <2>5. \/ inode_table[n].dir /\ Head(pending) = WriteData(s, block)
        \/ Head(pending) = Write("sbm", b)
        \/ Head(pending) = Write("ibm", fifth)
        \/ Head(pending) = Write("ibm", inodebm)
        \/ Head(pending) = InodesNear(n)
    BY <2>1, <2>3 DEF Next5
  <2> QED BY <2>2, <2>3, <2>4, <2>5 DEF Place, WriteData, Write
<1> QED BY <1>2, <1>3, DeliversHas

(* A sector that settles with this write is the one that is written.       *)
LEMMA SettlesNow ==
    ASSUME Stored, Delivers, NEW n, NEW s, Settled(n, s)', ~ Settled(n, s)
    PROVE  Place(Head(pending)) = <<"data", s>>
<1>1. failures' = failures /\ cwd' = cwd /\ goal' = goal
  BY DEF Delivers
<1>2. Coming(<<"data", s>>) /\ ~ Coming(<<"data", s>>)'
  BY <1>1 DEF Settled
<1>3. PICK place : place = <<"data", s>>
  OBVIOUS
<1>4. PICK k \in DOMAIN pending : Place(pending[k]) = place
  BY <1>2, <1>3 DEF Coming
<1>5. Splits(pending, pending') /\ Head(pending) = pending[1]
  BY DeliversHas
<1>6. k = 1
  <2> SUFFICES ASSUME k # 1 PROVE FALSE
    OBVIOUS
  <2>1. k - 1 \in DOMAIN pending' /\ pending'[k - 1] = pending[k]
    BY <1>4, <1>5 DEF Splits
  <2>2. Place(pending'[k - 1]) = place
    BY <1>4, <2>1
  <2> QED BY <1>2, <1>3, <2>1, <2>2 DEF Coming, Place
<1> QED BY <1>3, <1>4, <1>5, <1>6

-----------------------------------------------------------------------------
(* The disk refuses a write, or takes one of data.                         *)

Refuses == Delivers /\ failures = 0 /\ errors < MaxFaults /\ errors' = errors + 1 /\ disk' = disk
           /\ behind' = behind \cup {Place(Head(pending))}

LEMMA RefusesStored ==
    ASSUME Stored, Refuses
    PROVE  Stored'
<1>1. Typed /\ Readable /\ SectorsSafe
  BY DEF Stored
<1>2. /\ UNCHANGED <<b, fifth, inodebm, inode_table, cwd, entries>>
      /\ UNCHANGED <<goal, failures, outgrown>>
      /\ disk' = disk /\ errors' = errors + 1 /\ behind' = behind \cup {Place(Head(pending))}
  BY DEF Refuses, Delivers
<1>3. Writing' /\ Outgrown' /\ Known' = Known
  BY DeliversHas DEF Refuses
<1>4. failures = 0 /\ errors \in Nat /\ errors < MaxFaults
  BY <1>1 DEF Refuses, Typed
<1>5. Typed'
  <2>1. behind' \subseteq {"sbm", "ibm", "inodes", "data"} \X Nat
    <3>1. behind \subseteq {"sbm", "ibm", "inodes", "data"} \X Nat
      BY <1>1 DEF Typed
    <3> QED BY <1>2, <3>1, PlaceIs DEF Refuses
  <2>2. {failures', errors'} \subseteq Nat /\ failures' + errors' <= MaxFaults
    BY <1>2, <1>4, Sizes
  <2> QED BY <1>1, <1>2, <1>3, <2>1, <2>2 DEF Typed
<1>6. errors' # 0
  BY <1>2, <1>4
<1>7. SectorsSafe' /\ Followed'
  BY <1>1, <1>2, <1>6 DEF SectorsSafe, Followed
<1>8. Readable'
  <2>1. Heads(cwd, entries)' /\ Marked(entries)'
    BY <1>1, <1>2, <1>3 DEF Readable, Heads, Marked
  <2>2. Unused'
    BY <1>1, <1>2 DEF Readable, Unused
  <2>3. \A n \in Inode : Orphan(n)' =>
          failures' = 1 /\ inode_table'[n] \in OneSector /\ Unnamed(disk.data[First(inode_table[n])])'
    BY <1>1, <1>2 DEF Readable, Orphan, Unnamed
  <2>5. \A n \in Known' : \A j \in DOMAIN inode_table'[n].exts :
           Shows(n, j, inode_table[n].exts[j].block)'
    <3> SUFFICES ASSUME NEW n \in Known, NEW j \in DOMAIN inode_table[n].exts
                 PROVE  /\ Marked(disk.data[inode_table[n].exts[j].block])'
                        /\ j = 1 => Heads(n, disk.data[inode_table[n].exts[j].block])'
      BY <1>2, <1>3 DEF Shows
    <3>1. PICK block : block = disk.data[inode_table[n].exts[j].block]
      OBVIOUS
    <3>2. Sound(n, j, block)
      <4>1. Settled(n, inode_table[n].exts[j].block)
        BY <1>4 DEF Settled
      <4> QED BY <1>1, <3>1, <4>1, SettledKnown
    <3>3. Marked(block)' /\ (j = 1 => Heads(n, block)')
      BY <1>2, <1>3, <3>2, SoundStays
    <3> QED BY <1>2, <3>1, <3>3
  <2> QED BY <2>1, <2>2, <2>3, <2>5 DEF Readable
<1> QED BY <1>3, <1>5, <1>7, <1>8 DEF Stored

(* The writes that the disk takes.                                         *)
Takes == Delivers /\ disk' = Written(Head(pending)) /\ behind' = behind \ {Place(Head(pending))}
         /\ errors' = errors

(* What a write of data has to be: to the sector of one directory that is  *)
(* known, of entries that are sound there.                                 *)
Fits(m, i, s, block) ==
    /\ m \in Known /\ i \in DOMAIN Sectors(inode_table[m]) /\ Sectors(inode_table[m])[i] = s
    /\ s \in Sector /\ block \in Block /\ Sound(m, i, block)
    /\ Head(pending) = WriteData(s, block)

LEMMA DataTyped ==
    ASSUME Stored, Takes, NEW m, NEW i, NEW s, NEW block, Fits(m, i, s, block)
    PROVE  /\ disk' = [disk EXCEPT !.data[s] = block]
           /\ disk'.data = [disk.data EXCEPT ![s] = block]
           /\ disk'.inodes = disk.inodes /\ disk'.sbm = disk.sbm /\ disk'.ibm = disk.ibm
           /\ Typed' /\ Outgrown' /\ SectorsSafe' /\ Writing'
<1>1. Typed /\ SectorsSafe
  BY DEF Stored
<1>2. disk' = Written(WriteData(s, block))
  BY DEF Takes, Fits
<1>3. disk' = [disk EXCEPT !.data[s] = block]
  BY <1>2 DEF Written, WriteData
<1>4. disk \in [data : [Sector -> Block], inodes : [Inode -> OneSector],
                sbm : SUBSET Sector, ibm : SUBSET Inode]
  BY <1>1 DEF Typed
<1>5. /\ disk'.data = [disk.data EXCEPT ![s] = block]
      /\ disk'.inodes = disk.inodes /\ disk'.sbm = disk.sbm /\ disk'.ibm = disk.ibm
  BY <1>3, <1>4
<1>6. disk' \in [data : [Sector -> Block], inodes : [Inode -> OneSector],
                 sbm : SUBSET Sector, ibm : SUBSET Inode]
  BY <1>3, <1>4 DEF Fits
<1>7. /\ UNCHANGED <<b, fifth, inodebm, inode_table, cwd, entries>>
      /\ UNCHANGED <<goal, failures, outgrown, errors>>
  BY DEF Takes, Delivers
<1>8. Writing' /\ Outgrown' /\ Known' = Known
  BY DeliversHas DEF Takes
<1>9. behind' \subseteq {"sbm", "ibm", "inodes", "data"} \X Nat
  BY <1>1 DEF Typed, Takes
<1>10. Typed'
  BY <1>1, <1>5, <1>6, <1>7, <1>8, <1>9 DEF Typed
<1>11. SectorsSafe'
  BY <1>1, <1>5, <1>7 DEF SectorsSafe
<1> QED BY <1>3, <1>5, <1>8, <1>10, <1>11

LEMMA DataHeld ==
    ASSUME Stored, Takes, NEW m, NEW i, NEW s, NEW block, Fits(m, i, s, block),
           NEW n \in Known, NEW j \in DOMAIN inode_table[n].exts, Settled(n, inode_table[n].exts[j].block)',
           NEW data, data = disk'.data[inode_table[n].exts[j].block]
    PROVE  Held(n, j, data) \/ (n = m /\ (j = 1 <=> i = 1) /\ data = block)
<1>1. Typed /\ SectorsSafe
  BY DEF Stored
<1>2. UNCHANGED <<inode_table, cwd, goal, failures>> /\ Delivers
  BY DEF Takes, Delivers
<1>3. disk'.data = [disk.data EXCEPT ![s] = block] /\ s \in Sector /\ disk.data \in [Sector -> Block]
  BY <1>1, DataTyped, TypedHas DEF Fits
<1>4. /\ i \in DOMAIN Sectors(inode_table[m]) /\ Sectors(inode_table[m])[i] = s
      /\ m \in Inode /\ inode_table[m].dir
  BY <1>1, TypedHas DEF Fits, Known
<1>5. \A q \in Inode : inode_table[q].dir => \A l \in DOMAIN Sectors(inode_table[q]) :
         Sectors(inode_table[q])[l] = s => q = m /\ l = i
  BY <1>1, <1>4 DEF SectorsSafe, OwnSectors, DirectoriesOf
<1>6. PICK t : t = inode_table[n].exts[j].block
  OBVIOUS
<1>7. n \in Inode /\ inode_table[n].dir /\ inode_table[n] \in InodeType
  BY <1>1, TypedHas DEF Known
<1>8. t \in Sector /\ inode_table[n].exts \in Seq(Extent)
  BY <1>6, <1>7, InodeHas
<1>9. CASE t = s
  <2>4. PICK x : x = inode_table[n]
    OBVIOUS
  <2>5. x.exts \in Seq(Extent) /\ j \in DOMAIN x.exts /\ x.exts[j].block = t
    BY <1>6, <1>8, <2>4
  <2>6. PICK l \in DOMAIN Sectors(x) : Sectors(x)[l] = t /\ (j = 1 <=> l = 1)
    BY <2>5, SectorsHave
  <2>1. l \in DOMAIN Sectors(inode_table[n]) /\ Sectors(inode_table[n])[l] = t /\ (j = 1 <=> l = 1)
    BY <2>4, <2>6
  <2>2. n = m /\ l = i
    BY <1>5, <1>7, <1>9, <2>1
  <2>3. data = block
    BY <1>3, <1>6, <1>9
  <2> QED BY <2>1, <2>2, <2>3
<1>10. CASE t # s
  <2>1. data = disk.data[t]
    BY <1>3, <1>6, <1>8, <1>10
  <2>2. Settled(n, t)
    <3> SUFFICES ASSUME ~ Settled(n, t) PROVE FALSE
      OBVIOUS
    <3>1. inode_table'[n].exts[j].block = t
      BY <1>2, <1>6
    <3>2. Settled(n, t)'
      BY <3>1 DEF Settled, Coming, Place
    <3>3. Place(Head(pending)) = <<"data", t>>
      BY <1>2, <3>2, SettlesNow
    <3>4. Place(Head(pending)) = <<"data", s>>
      BY DEF Fits, Place, WriteData
    <3> QED BY <1>10, <3>3, <3>4
  <2> QED BY <1>6, <2>1, <2>2 DEF Held
<1> QED BY <1>9, <1>10

LEMMA DataReadable ==
    ASSUME Stored, Takes, NEW m, NEW i, NEW s, NEW block, Fits(m, i, s, block)
    PROVE  Readable'
<1>1. Typed /\ Readable /\ SectorsSafe
  BY DEF Stored
<1>2. /\ UNCHANGED <<b, fifth, inodebm, inode_table, cwd, entries>>
      /\ UNCHANGED <<goal, failures, outgrown, errors>> /\ Delivers
  BY DEF Takes, Delivers
<1>3. Writing' /\ Outgrown' /\ Known' = Known
  BY <1>2, DeliversHas
<1>4. disk'.data = [disk.data EXCEPT ![s] = block] /\ s \in Sector /\ disk.data \in [Sector -> Block]
  BY <1>1, DataTyped, TypedHas DEF Fits
<1>5. /\ m \in Known /\ i \in DOMAIN Sectors(inode_table[m]) /\ Sectors(inode_table[m])[i] = s
      /\ Sound(m, i, block) /\ m \in Inode /\ m \in inodebm /\ inode_table[m].dir
  BY <1>1, TypedHas DEF Fits, Known
<1>6. /\ s \in b
      /\ \A n \in Inode : inode_table[n].dir => \A j \in DOMAIN Sectors(inode_table[n]) :
            Sectors(inode_table[n])[j] = s => n = m /\ j = i
  BY <1>1, <1>5 DEF SectorsSafe, OwnSectors, DirectoriesOf
<1>7. Heads(cwd, entries)' /\ Marked(entries)'
  BY <1>1, <1>2, <1>3 DEF Readable, Heads, Marked
<1>8. Unused'
  <2> SUFFICES ASSUME failures = 0, NEW t \in Sector \ b PROVE disk'.data[t] = [k \in 0 .. SLOTS - 1 |-> EMPTY]
    BY <1>2 DEF Unused
  <2>1. t # s
    BY <1>6
  <2>2. disk.data[t] = [k \in 0 .. SLOTS - 1 |-> EMPTY]
    BY <1>1 DEF Readable, Unused
  <2> QED BY <1>4, <2>1, <2>2
<1>9. \A n \in Inode : Orphan(n)' =>
          failures' = 1 /\ inode_table'[n] \in OneSector /\ Unnamed(disk.data[First(inode_table[n])])'
  <2> SUFFICES ASSUME NEW n \in Inode, n \notin inodebm, inode_table[n].dir
               PROVE  failures = 1 /\ inode_table[n] \in OneSector
                      /\ Unnamed(disk'.data[First(inode_table[n])])
    BY <1>2 DEF Orphan, Unnamed
  <2>1. failures = 1 /\ inode_table[n] \in OneSector /\ Unnamed(disk.data[First(inode_table[n])])
    BY <1>1 DEF Readable, Orphan
  <2>2. First(inode_table[n]) # s
    <3>1. inode_table[n] \in InodeType
      BY <1>1, TypedHas
    <3>2. 1 \in DOMAIN Sectors(inode_table[n]) /\ Sectors(inode_table[n])[1] = First(inode_table[n])
      BY <3>1, InodeHas
    <3> QED BY <1>5, <1>6, <3>2
  <2>3. First(inode_table[n]) \in Sector
    BY <2>1, OneSectorHas
  <2>4. disk'.data[First(inode_table[n])] = disk.data[First(inode_table[n])]
    BY <1>4, <2>2, <2>3
  <2> QED BY <2>1, <2>4
<1>10. ASSUME NEW n \in Known, NEW j \in DOMAIN inode_table[n].exts,
              Settled(n, inode_table[n].exts[j].block)'
       PROVE  Sound(n, j, disk'.data[inode_table[n].exts[j].block])
  <2>1. PICK data : data = disk'.data[inode_table[n].exts[j].block]
    OBVIOUS
  <2>2. Held(n, j, data) \/ (n = m /\ (j = 1 <=> i = 1) /\ data = block)
    BY <1>10, <2>1, DataHeld
  <2>3. Marked(block) /\ (i = 1 => Heads(m, block))
    BY <1>5 DEF Sound
  <2>4. n = m /\ (j = 1 <=> i = 1) /\ data = block => Sound(n, j, data)
    BY <2>3 DEF Sound
  <2> QED BY <1>1, <2>1, <2>2, <2>4, HeldSound
<1>11. \A n \in Known' : \A j \in DOMAIN inode_table'[n].exts :
           Shows(n, j, inode_table[n].exts[j].block)'
  <2> SUFFICES ASSUME NEW n \in Known, NEW j \in DOMAIN inode_table[n].exts,
                      Settled(n, inode_table[n].exts[j].block)'
               PROVE  /\ Marked(disk.data[inode_table[n].exts[j].block])'
                      /\ j = 1 => Heads(n, disk.data[inode_table[n].exts[j].block])'
    BY <1>2, <1>3 DEF Shows
  <2>1. PICK data : data = disk'.data[inode_table[n].exts[j].block]
    OBVIOUS
  <2>2. Sound(n, j, data)
    BY <1>10, <2>1
  <2>3. Marked(data)' /\ (j = 1 => Heads(n, data)')
    BY <1>2, <1>3, <2>2, SoundStays
  <2> QED BY <1>2, <2>1, <2>3
<1> QED BY <1>7, <1>8, <1>9, <1>11 DEF Readable

-----------------------------------------------------------------------------
(* The writes of cd, and the first of a new directory.                     *)

(* cd writes the entries as they are.                                      *)
ChunkEntry(k, s) == IF k * SLOTS + s < MAX_DIR_ENTRIES THEN entries[k * SLOTS + s] ELSE EMPTY
LEMMA ChunkIs ==
    ASSUME Typed, Readable, NEW k \in Nat
    PROVE  Chunk(k) \in Block /\ Marked(Chunk(k)) /\ (k = 0 => Heads(cwd, Chunk(k)))
<1>1. entries \in [0 .. MAX_DIR_ENTRIES - 1 -> Entry] /\ Heads(cwd, entries) /\ Marked(entries)
  BY TypedHas DEF Readable
<1>2. Chunk(k) = [s \in 0 .. SLOTS - 1 |-> ChunkEntry(k, s)]
  BY DEF Chunk, ChunkEntry
<1>3. ASSUME NEW s \in 0 .. SLOTS - 1
      PROVE  ChunkEntry(k, s) = EMPTY \/ \E i \in 0 .. MAX_DIR_ENTRIES - 1 : ChunkEntry(k, s) = entries[i]
  <2>1. SLOTS \in Nat /\ MAX_DIR_ENTRIES \in Nat
    BY Sizes
  <2>2. PICK i : i = k * SLOTS + s
    OBVIOUS
  <2>3. i \in Nat
    BY <2>1, <2>2
  <2>4. i < MAX_DIR_ENTRIES => i \in 0 .. MAX_DIR_ENTRIES - 1
    BY <2>1, <2>3
  <2>5. ChunkEntry(k, s) = IF i < MAX_DIR_ENTRIES THEN entries[i] ELSE EMPTY
    BY <2>2 DEF ChunkEntry
  <2> QED BY <2>4, <2>5
<1>4. \A s \in 0 .. SLOTS - 1 : Chunk(k)[s] = ChunkEntry(k, s)
  BY <1>2
<1>5. Chunk(k) \in Block
  <2>1. EMPTY \in Entry
    BY Inodes DEF EMPTY, Entry, Root
  <2>2. \A s \in 0 .. SLOTS - 1 : ChunkEntry(k, s) \in Entry
    BY <1>1, <1>3, <2>1
  <2>3. Chunk(k) \in [0 .. SLOTS - 1 -> Entry]
    BY <1>2, <2>2
  <2> QED BY <2>3 DEF Block, Entry
<1>6. Marked(Chunk(k))
  <2> SUFFICES ASSUME NEW s \in 0 .. SLOTS - 1, Named(Chunk(k)[s]) PROVE Chunk(k)[s].inode \in inodebm
    BY <1>2 DEF Marked, Named
  <2>1. ~ Named(EMPTY)
    BY DEF Named, EMPTY
  <2>2. PICK i \in 0 .. MAX_DIR_ENTRIES - 1 : Chunk(k)[s] = entries[i]
    BY <1>3, <1>4, <2>1
  <2>3. \A j \in DOMAIN entries : Named(entries[j]) => entries[j].inode \in inodebm
    BY <1>1 DEF Marked, Named
  <2> QED BY <1>1, <2>2, <2>3
<1>7. ASSUME k = 0 PROVE Heads(cwd, Chunk(k))
  <2>1. ASSUME NEW s \in 0 .. SLOTS - 1 PROVE Chunk(k)[s] = entries[s]
    <3>1. k * SLOTS + s = s /\ s < MAX_DIR_ENTRIES
      BY <1>7, Sizes
    <3>2. ChunkEntry(k, s) = entries[s]
      BY <3>1 DEF ChunkEntry
    <3> QED BY <1>4, <3>2
  <2> QED BY <1>1, <2>1, HeadsSame
<1> QED BY <1>5, <1>6, <1>7

LEMMA FlushedFits ==
    ASSUME Stored, Delivers, NEW k, Flushed(k)
    PROVE  \E s, block : Fits(cwd, k, s, block)
<1>1. Typed /\ Readable /\ SectorsSafe
  BY DEF Stored
<1>2. /\ cwd \in Known /\ inode_table[cwd] \in InodeType /\ inode_table[cwd].dir /\ cwd \in Inode
      /\ b \subseteq Sector
  BY <1>1, TypedHas DEF Typed
<1>3. PICK t \in Seq(Nat) : t = Sectors(inode_table[cwd])
  BY <1>2, InodeHas
<1>4. k \in DOMAIN t /\ k \in Nat /\ k - 1 \in Nat /\ (k = 1 <=> k - 1 = 0)
  <2>1. k \in DOMAIN t /\ DOMAIN t = 1 .. Len(t) /\ Len(t) \in Nat
    BY <1>3 DEF Flushed
  <2> QED BY <2>1
<1>5. t[k] \in Sector
  BY <1>1, <1>2, <1>3, <1>4 DEF SectorsSafe, OwnSectors, DirectoriesOf
<1>6. Chunk(k - 1) \in Block /\ Marked(Chunk(k - 1)) /\ (k - 1 = 0 => Heads(cwd, Chunk(k - 1)))
  BY <1>1, <1>4, ChunkIs
<1>7. Sound(cwd, k, Chunk(k - 1))
  BY <1>4, <1>6 DEF Sound
<1>8. Head(pending) = WriteData(t[k], Chunk(k - 1))
  BY <1>3 DEF Flushed
<1>9. Fits(cwd, k, t[k], Chunk(k - 1))
  BY <1>2, <1>3, <1>4, <1>5, <1>6, <1>7, <1>8 DEF Fits
<1> QED BY <1>9

LEMMA FlushedStored ==
    ASSUME Stored, Takes, goal # << >>, NEW k, Flushed(k)
    PROVE  Stored'
<1>1. Delivers
  BY DEF Takes
<1>2. PICK s, block : Fits(cwd, k, s, block)
  BY <1>1, FlushedFits
<1>3. Typed' /\ Outgrown' /\ SectorsSafe' /\ Writing' /\ Readable' /\ disk'.inodes = disk.inodes
      /\ disk'.sbm = disk.sbm
  BY <1>2, DataTyped, DataReadable
<1>4. Followed'
  <2>1. goal' = goal /\ inode_table' = inode_table /\ b' = b /\ errors' = errors
    BY DEF Takes, Delivers
  <2>2. \A n \in Inode : ~ Creating(n) /\ ~ Creating(n)'
    BY <2>1 DEF Creating
  <2>3. Followed
    BY DEF Stored
  <2> QED BY <1>3, <2>1, <2>2, <2>3 DEF Followed, Same
<1> QED BY <1>3, <1>4 DEF Stored

(* The newest inode is the last one in use.                                *)
LEMMA NewestLast ==
    ASSUME Typed, NEW n \in Inode, Newest(n)
    PROVE  /\ \A m \in inodebm : m \in Nat /\ m <= n
           /\ \A m \in Inode : Newest(m) => m = n
<1>1. Segment(inodebm) /\ inodebm \subseteq Nat /\ n \in Nat /\ n \in inodebm /\ n + 1 \notin inodebm
  BY TypedHas, Inodes DEF Newest
<1>2. ASSUME NEW p \in Nat, NEW q \in Nat, p + 1 \notin inodebm, q \in inodebm PROVE q <= p
  <2>1. 0 .. q \subseteq inodebm
    BY <1>1, <1>2 DEF Segment
  <2>2. ~ q <= p => p + 1 \in 0 .. q
    BY <1>2
  <2> QED BY <1>2, <2>1, <2>2
<1>3. \A m \in inodebm : m \in Nat /\ m <= n
  BY <1>1, <1>2
<1>4. ASSUME NEW m \in Inode, Newest(m) PROVE m = n
  <2>1. m \in Nat /\ m \in inodebm /\ m + 1 \notin inodebm
    BY <1>4, Inodes DEF Newest
  <2>2. m <= n /\ n <= m
    BY <1>1, <1>2, <2>1
  <2> QED BY <1>1, <2>1, <2>2
<1> QED BY <1>3, <1>4

(* What the new directory gets first.                                      *)
LEMMA NewBlockIs ==
    ASSUME Stored, NEW n \in Inode, Creating(n), inode_table[n].dir
    PROVE  NewBlock(n) \in Block /\ Marked(NewBlock(n)) /\ Heads(n, NewBlock(n))
<1>1. Typed /\ Readable /\ Newest(n) /\ n \in inodebm /\ n \in Known /\ n \in Nat
  BY Inodes DEF Stored, Creating, Newest, Known
<1>2. PICK up \in Inode : up = entries[0].inode /\ up \in Known
  <2>1. entries[0].inode \in Known
    BY <1>1 DEF Readable, Heads
  <2>2. Known \subseteq Inode
    BY <1>1, TypedHas DEF Known
  <2> QED BY <2>1, <2>2
<1>3. up \in 0 .. n /\ n \in 0 .. n /\ up \in inodebm
  BY <1>1, <1>2, NewestLast DEF Known
<1>4. PICK here, there : here = dirent(".", n) /\ there = dirent("..", up)
  OBVIOUS
<1>5. /\ here \in Entry /\ there \in Entry /\ EMPTY \in Entry
      /\ here.inode = n /\ there.inode = up /\ EMPTY.name = ""
  BY <1>4, Inodes DEF dirent, Entry, EMPTY, Root
<1>6. PICK f : f = NewBlock(n)
  OBVIOUS
<1>7. f = [k \in 0 .. SLOTS - 1 |-> IF k = 0 THEN here ELSE IF k = 1 THEN there ELSE EMPTY]
  BY <1>2, <1>4, <1>6 DEF NewBlock, Directory
<1>8. f \in [0 .. SLOTS - 1 -> Entry]
  BY <1>5, <1>7
<1>9. 0 \in 0 .. SLOTS - 1 /\ 1 \in 0 .. SLOTS - 1 /\ \A k \in 2 .. SLOTS - 1 : k \in 0 .. SLOTS - 1 /\ k # 0 /\ k # 1
  BY Sizes
<1>10. f[0] = here /\ f[1] = there /\ \A k \in 2 .. SLOTS - 1 : f[k] = EMPTY
  BY <1>7, <1>9
<1>11. Marked(f)
  <2>1. \A k \in 0 .. SLOTS - 1 : f[k] = here \/ f[k] = there \/ f[k] = EMPTY
    BY <1>7
  <2> QED BY <1>1, <1>3, <1>5, <1>7, <2>1 DEF Marked
<1>12. Heads(n, f)
  <2>1. {f[0].inode, f[1].inode} \subseteq Known \cap 0 .. n
    BY <1>1, <1>2, <1>3, <1>5, <1>10
  <2> QED BY <1>5, <1>10, <2>1 DEF Heads
<1> QED BY <1>6, <1>8, <1>11, <1>12 DEF Block, Entry

LEMMA NotEmpty == ASSUME NEW p, Len(p) # 0 PROVE p # << >>
<1>1. Len(<< >>) = 0
  OBVIOUS
<1> QED BY <1>1, Zenon

Begun(n) == Len(pending) = 5 /\ Head(pending) = WriteData(First(inode_table[n]), NewBlock(n))
LEMMA NewDataStored ==
    ASSUME Stored, Takes, NEW n \in Inode, Creating(n), inode_table[n].dir, Begun(n)
    PROVE  Stored'
<1>1. Typed /\ Followed /\ Newest(n) /\ Delivers
  BY DEF Stored, Takes, Creating
<1>2. Fits(n, 1, First(inode_table[n]), NewBlock(n))
  <2>1. n \in Known
    BY DEF Known, Creating, Newest
  <2>2. inode_table[n] \in InodeType
    BY <1>1, TypedHas
  <2>3. First(inode_table[n]) \in Sector /\ 1 \in DOMAIN Sectors(inode_table[n])
        /\ Sectors(inode_table[n])[1] = First(inode_table[n])
    BY <2>2, InodeHas
  <2>4. NewBlock(n) \in Block /\ Sound(n, 1, NewBlock(n))
    BY NewBlockIs DEF Sound
  <2> QED BY <2>1, <2>3, <2>4 DEF Fits, Begun
<1>3. PICK s, block : s \in Sector /\ s = First(inode_table[n]) /\ block = NewBlock(n) /\ Fits(n, 1, s, block)
  BY <1>2 DEF Fits
<1>4. /\ Typed' /\ Outgrown' /\ SectorsSafe' /\ Writing' /\ Readable' /\ disk'.inodes = disk.inodes
      /\ disk'.sbm = disk.sbm /\ disk'.data = [disk.data EXCEPT ![s] = block]
  <2>1. Fits(n, 1, s, block)
    BY <1>3
  <2>2. Readable'
    BY <2>1, DataReadable
  <2>3. Typed' /\ Outgrown' /\ SectorsSafe' /\ Writing' /\ disk'.inodes = disk.inodes /\ disk'.sbm = disk.sbm
    BY <2>1, DataTyped
  <2>4. disk'.data = [disk.data EXCEPT ![s] = block]
    BY <1>1, <1>3, <2>1, DataTyped, TypedHas
  <2> QED BY <2>2, <2>3, <2>4
<1>5. /\ UNCHANGED <<b, fifth, inodebm, inode_table, cwd, entries>>
      /\ UNCHANGED <<goal, failures, errors>>
  BY DEF Takes, Delivers
<1>6. Followed'
  <2> SUFFICES ASSUME errors = 0 PROVE Followed'
    BY <1>5 DEF Followed
  <2>1. \A m \in Inode : (Creating(m) => m = n) /\ (Creating(m)' => Creating(m))
    BY <1>1, DeliversHas, NewestLast DEF Creating
  <2>2. \A m \in Inode : Same(m)' \/ m = n
    BY <1>1, <1>4, <1>5, <2>1 DEF Followed, Same
  <2>3. Len(pending') = 4
    <3>1. PICK l, k : l = Len(pending) /\ k = Len(pending')
      OBVIOUS
    <3>2. l = 5 /\ k = l - 1
      BY <1>1, <3>1, DeliversHas DEF Begun
    <3> QED BY <3>1, <3>2
  <2>4. pending' # << >>
    <3>1. PICK p : p = pending'
      OBVIOUS
    <3>2. Len(p) # 0
      BY <2>3, <3>1
    <3>3. p # << >>
      BY <3>2, NotEmpty
    <3> QED BY <3>1, <3>3
  <2>5. Creating(n)'
    BY <1>5, <2>4 DEF Creating, Newest
  <2>6. Fresh(n)'
    BY <1>1, <1>4, <1>5 DEF Followed, Same, Fresh
  <2>7. Prepared(n)'
    <3>1. disk'.data[s] = block
      <4>1. disk.data \in [Sector -> Block]
        BY <1>1, TypedHas
      <4> QED BY <1>3, <1>4, <4>1
    <3>2. First(inode_table[n])' = s /\ NewBlock(n)' = block
      BY <1>3, <1>5 DEF NewBlock
    <3>3. PICK l : l = Len(pending')
      OBVIOUS
    <3>4. ~ l <= 3
      BY <2>3, <3>3
    <3> QED BY <3>1, <3>2, <3>3, <3>4 DEF Prepared
  <2>8. \A m \in Inode : Creating(m)' => Prepared(m)'
    BY <2>1, <2>7
  <2>9. disk'.sbm \subseteq b'
    BY <1>1, <1>4, <1>5 DEF Followed
  <2>10. \A m \in Inode : IF Creating(m)' THEN Fresh(m)' ELSE Same(m)'
    BY <2>1, <2>2, <2>5, <2>6
  <2> QED BY <2>8, <2>9, <2>10 DEF Followed
<1> QED BY <1>4, <1>6 DEF Stored

-----------------------------------------------------------------------------
(* The writes of the bitmaps.                                              *)

Elsewhere == \A s : Place(Head(pending)) # <<"data", s>>
LEMMA ElsewhereHeld ==
    ASSUME Stored, Takes, disk'.data = disk.data, Elsewhere,
           NEW n \in Known, NEW j \in DOMAIN inode_table[n].exts, Settled(n, inode_table[n].exts[j].block)',
           NEW block, block = disk.data[inode_table[n].exts[j].block]
    PROVE  Held(n, j, block)
<1>1. Delivers /\ inode_table' = inode_table
  BY DEF Takes, Delivers
<1>2. PICK t : t = inode_table[n].exts[j].block
  OBVIOUS
<1>3. inode_table'[n].exts[j].block = t
  BY <1>1, <1>2
<1>4. Settled(n, t)'
  BY <1>3 DEF Settled, Coming, Place
<1>5. Settled(n, t)
  BY <1>1, <1>4, SettlesNow DEF Elsewhere
<1> QED BY <1>2, <1>5 DEF Held

LEMMA ElsewhereReadable ==
    ASSUME Stored, Takes, disk'.data = disk.data, Elsewhere
    PROVE  Readable'
<1>1. Typed /\ Readable /\ Delivers
  BY DEF Stored, Takes
<1>2. /\ UNCHANGED <<b, fifth, inodebm, inode_table, cwd, entries>>
      /\ UNCHANGED <<goal, failures, outgrown, errors>>
  BY DEF Takes, Delivers
<1>3. Known' = Known
  BY <1>1, DeliversHas
<1>4. Heads(cwd, entries)' /\ Marked(entries)'
  BY <1>1, <1>2, <1>3 DEF Readable, Heads, Marked
<1>5. Unused'
  BY <1>1, <1>2 DEF Readable, Unused
<1>6. \A n \in Inode : Orphan(n)' =>
          failures' = 1 /\ inode_table'[n] \in OneSector /\ Unnamed(disk.data[First(inode_table[n])])'
  BY <1>1, <1>2 DEF Readable, Orphan, Unnamed
<1>7. \A n \in Known' : \A j \in DOMAIN inode_table'[n].exts :
           Shows(n, j, inode_table[n].exts[j].block)'
  <2> SUFFICES ASSUME NEW n \in Known, NEW j \in DOMAIN inode_table[n].exts,
                      Settled(n, inode_table[n].exts[j].block)'
               PROVE  /\ Marked(disk.data[inode_table[n].exts[j].block])'
                      /\ j = 1 => Heads(n, disk.data[inode_table[n].exts[j].block])'
    BY <1>2, <1>3 DEF Shows
  <2>1. PICK block : block = disk.data[inode_table[n].exts[j].block]
    OBVIOUS
  <2>2. Sound(n, j, block)
    BY <1>1, <2>1, ElsewhereHeld, HeldSound
  <2>3. Marked(block)' /\ (j = 1 => Heads(n, block)')
    BY <1>2, <1>3, <2>2, SoundStays
  <2> QED BY <1>2, <2>1, <2>3
<1> QED BY <1>4, <1>5, <1>6, <1>7 DEF Readable

(* The inode on the disk is that in memory, except for the newest.         *)
Copied(n) == \A m \in Inode : m # n => Same(m)
LEMMA CreatingHas ==
    ASSUME Stored, Delivers, NEW n \in Inode, Creating(n)
    PROVE  /\ Newest(n) /\ n \in inodebm /\ inode_table[n] \in InodeType
           /\ \A m \in Inode : (Creating(m) => m = n) /\ (Creating(m)' => m = n)
           /\ errors = 0 => Copied(n) /\ Prepared(n) /\ Fresh(n) /\ disk.sbm \subseteq b
           /\ \A m \in Neighbours(n) : inode_table[m] \in OneSector
<1>1. Typed /\ Followed /\ Writing /\ Newest(n)
  BY DEF Stored, Creating
<1>2. \A m \in Inode : (Creating(m) => m = n) /\ (Creating(m)' => m = n)
  BY <1>1, DeliversHas, NewestLast DEF Creating
<1> QED BY <1>1, <1>2, TypedHas DEF Followed, Writing, Newest, Copied

(* A write of a bitmap.                                                    *)
Maps(sbm, ibm) == disk' = [disk EXCEPT !.sbm = sbm, !.ibm = ibm]
LEMMA MapsStored ==
    ASSUME Stored, Takes, Elsewhere, NEW n \in Inode, Creating(n), NEW sbm, NEW ibm, Maps(sbm, ibm),
           Segment(ibm), sbm = b \/ sbm = disk.sbm,
           NEW l \in {2, 3, 4}, l = Len(pending), sbm = b \/ l # 4
    PROVE  Stored'
<1>1. Typed /\ SectorsSafe /\ Delivers
  BY DEF Stored, Takes
<1>2. disk \in [data : [Sector -> Block], inodes : [Inode -> OneSector],
                sbm : SUBSET Sector, ibm : SUBSET Inode] /\ b \subseteq Sector
  BY <1>1 DEF Typed
<1>3. sbm \subseteq Sector /\ ibm \subseteq Inode
  BY <1>2 DEF Segment
<1>4. /\ disk'.data = disk.data /\ disk'.inodes = disk.inodes /\ disk'.sbm = sbm /\ disk'.ibm = ibm
      /\ disk' \in [data : [Sector -> Block], inodes : [Inode -> OneSector],
                    sbm : SUBSET Sector, ibm : SUBSET Inode]
  BY <1>2, <1>3 DEF Maps
<1>5. /\ UNCHANGED <<b, fifth, inodebm, inode_table, cwd, entries>>
      /\ UNCHANGED <<goal, failures, outgrown, errors>>
  BY DEF Takes, Delivers
<1>6. Writing' /\ Outgrown' /\ Known' = Known
  BY <1>1, DeliversHas
<1>7. Readable'
  BY <1>4, ElsewhereReadable
<1>8. Typed'
  <2>1. behind' \subseteq {"sbm", "ibm", "inodes", "data"} \X Nat
    BY <1>1 DEF Typed, Takes
  <2> QED BY <1>1, <1>4, <1>5, <1>6, <2>1 DEF Typed
<1>9. SectorsSafe'
  <2>1. OwnSectors(inode_table, b)'
    BY <1>1, <1>5 DEF SectorsSafe
  <2>2. ASSUME errors = 0 PROVE OwnSectors(disk'.inodes, disk'.sbm)
    <3>1. disk.sbm \subseteq sbm
      BY <1>1, <2>2, CreatingHas
    <3>2. OwnSectors(disk.inodes, disk.sbm)
      BY <1>1, <2>2 DEF SectorsSafe
    <3>3. OwnSectors(disk.inodes, sbm)
      BY <3>1, <3>2 DEF OwnSectors
    <3> QED BY <1>4, <3>3
  <2> QED BY <1>5, <2>1, <2>2 DEF SectorsSafe
<1>10. Followed'
  <2> SUFFICES ASSUME errors = 0 PROVE Followed'
    BY <1>5 DEF Followed
  <2>1. Copied(n) /\ Prepared(n) /\ Fresh(n) /\ disk.sbm \subseteq b
        /\ \A m \in Inode : Creating(m)' => m = n
    BY <1>1, CreatingHas
  <2>2. \A m \in Inode : m # n => Same(m)'
    BY <1>4, <1>5, <2>1 DEF Copied, Same
  <2>3. Fresh(n)'
    BY <1>4, <1>5, <2>1 DEF Fresh
  <2>4. PICK k : k = Len(pending')
    OBVIOUS
  <2>5. k = l - 1
    BY <1>1, <2>4, DeliversHas
  <2>6. ASSUME inode_table[n].dir
        PROVE  disk.data[First(inode_table[n])] = NewBlock(n) /\ (k <= 3 => sbm = b)
    <3>1. l <= 4 /\ (sbm = b \/ l <= 3)
      BY <2>4, <2>5, <2>6
    <3>2. /\ disk.data[First(inode_table[n])] = NewBlock(n)
          /\ l <= 3 => disk.sbm = b
      BY <2>1, <2>4, <2>6, <3>1 DEF Prepared
    <3> QED BY <3>1, <3>2
  <2>7. Prepared(n)'
    <3>1. NewBlock(n)' = NewBlock(n) /\ First(inode_table[n])' = First(inode_table[n])
      BY <1>5 DEF NewBlock
    <3> QED BY <1>4, <1>5, <2>4, <2>6, <3>1 DEF Prepared
  <2>8. pending' # << >>
    <3>1. Len(pending') # 0
      BY <2>4, <2>5
    <3> QED BY <3>1, NotEmpty
  <2>9. Creating(n)'
    BY <1>5, <2>8 DEF Creating, Newest
  <2> QED BY <1>4, <1>5, <2>1, <2>2, <2>3, <2>7, <2>9 DEF Followed
<1> QED BY <1>6, <1>7, <1>8, <1>9, <1>10 DEF Stored

-----------------------------------------------------------------------------
(* The write of the inodes.                                                *)

(* The last write brings the inodes.                                       *)
Ends(n) == Len(pending) = 1 /\ Head(pending) = InodesNear(n)
LEMMA EndsHas ==
    ASSUME Stored, Takes, NEW n \in Inode, Creating(n), Ends(n)
    PROVE  /\ Elsewhere /\ pending' = << >>
           /\ disk'.data = disk.data /\ disk'.sbm = disk.sbm /\ disk'.ibm = disk.ibm
           /\ disk' \in [data : [Sector -> Block], inodes : [Inode -> OneSector],
                         sbm : SUBSET Sector, ibm : SUBSET Inode]
           /\ \A m \in Inode : disk'.inodes[m] = IF m \in Neighbours(n) THEN inode_table[m] ELSE disk.inodes[m]
<1>1. Typed /\ Delivers
  BY DEF Stored, Takes
<1>2. disk \in [data : [Sector -> Block], inodes : [Inode -> OneSector],
                sbm : SUBSET Sector, ibm : SUBSET Inode]
  BY <1>1 DEF Typed
<1>3. PICK near : near = [m \in Neighbours(n) |-> inode_table[m]]
  OBVIOUS
<1>4. PICK k : k = SectorOf(n)
  OBVIOUS
<1>5. Head(pending) = [to |-> "inodes", at |-> k, what |-> near]
  BY <1>3, <1>4 DEF Ends, InodesNear, WriteInodes
<1>6. Elsewhere
  BY <1>5 DEF Elsewhere, Place
<1>7. PICK both : both = [m \in Inode |-> IF m \in Neighbours(n) THEN inode_table[m] ELSE disk.inodes[m]]
  OBVIOUS
<1>8. disk' = [disk EXCEPT !.inodes = both]
  <2>1. disk' = Written([to |-> "inodes", at |-> k, what |-> near])
    BY <1>5 DEF Takes
  <2>2. disk' = [disk EXCEPT !.inodes = [m \in Inode |-> IF m \in DOMAIN near THEN near[m] ELSE @[m]]]
    BY <2>1 DEF Written
  <2>3. DOMAIN near = Neighbours(n) /\ \A m \in Neighbours(n) : near[m] = inode_table[m]
    BY <1>3
  <2>4. both = [m \in Inode |-> IF m \in DOMAIN near THEN near[m] ELSE disk.inodes[m]]
    BY <1>7, <2>3
  <2> QED BY <2>2, <2>4
<1>9. both \in [Inode -> OneSector]
  <2>1. disk.inodes \in [Inode -> OneSector]
    BY <1>2
  <2>2. \A m \in Neighbours(n) : inode_table[m] \in OneSector
    BY <1>1, CreatingHas
  <2> QED BY <1>7, <2>1, <2>2
<1>10. /\ disk'.data = disk.data /\ disk'.sbm = disk.sbm /\ disk'.ibm = disk.ibm /\ disk'.inodes = both
       /\ disk' \in [data : [Sector -> Block], inodes : [Inode -> OneSector],
                     sbm : SUBSET Sector, ibm : SUBSET Inode]
  BY <1>2, <1>8, <1>9
<1>11. pending' = << >>
  <2>1. Len(pending') = 0
    <3>1. PICK l, k1 : l = Len(pending) /\ k1 = Len(pending')
      OBVIOUS
    <3>2. l = 1 /\ k1 = l - 1
      BY <1>1, <3>1, DeliversHas DEF Ends
    <3> QED BY <3>1, <3>2
  <2>2. pending' = Tail(pending) /\ Splits(pending, pending')
    BY <1>1, DeliversHas DEF Delivers
  <2>3. \E S : pending \in Seq(S)
    <3>1. Rest(Made(n)) /\ pending # << >>
      BY <1>1 DEF Stored, Writing, Delivers
    <3>2. PICK S : Made(n) \in Seq(S)
      BY <3>1, MadeHead
    <3> QED BY <3>1, <3>2, RestHas
  <2>4. PICK S : pending' \in Seq(S)
    <3>1. PICK S : pending \in Seq(S)
      BY <2>3
    <3>2. pending # << >>
      BY <1>1 DEF Delivers
    <3> QED BY <2>2, <3>1, <3>2, TailIs
  <2>5. PICK p \in Seq(S) : p = pending'
    BY <2>4
  <2>6. Len(p) = 0
    BY <2>1, <2>5
  <2>7. p = << >>
    BY <2>5, <2>6
  <2> QED BY <2>5, <2>7
<1> QED BY <1>6, <1>7, <1>10, <1>11

LEMMA EndsStored ==
    ASSUME Stored, Takes, NEW n \in Inode, Creating(n), Ends(n)
    PROVE  Stored'
<1>1. Typed /\ SectorsSafe /\ Delivers
  BY DEF Stored, Takes
<1>2. /\ Elsewhere /\ pending' = << >>
      /\ disk'.data = disk.data /\ disk'.sbm = disk.sbm /\ disk'.ibm = disk.ibm
      /\ disk' \in [data : [Sector -> Block], inodes : [Inode -> OneSector],
                    sbm : SUBSET Sector, ibm : SUBSET Inode]
      /\ \A m \in Inode : disk'.inodes[m] = IF m \in Neighbours(n) THEN inode_table[m] ELSE disk.inodes[m]
  BY EndsHas
<1>3. /\ UNCHANGED <<b, fifth, inodebm, inode_table, cwd, entries>>
      /\ UNCHANGED <<goal, failures, outgrown, errors>>
  BY DEF Takes, Delivers
<1>4. Writing' /\ Outgrown' /\ Known' = Known
  BY <1>1, DeliversHas
<1>5. Readable'
  BY <1>2, ElsewhereReadable
<1>6. Typed'
  <2>1. behind' \subseteq {"sbm", "ibm", "inodes", "data"} \X Nat
    BY <1>1 DEF Typed, Takes
  <2> QED BY <1>1, <1>2, <1>3, <1>4, <2>1 DEF Typed
<1>7. ASSUME errors = 0, NEW m \in Inode PROVE Same(m)'
  <2>1. CASE m \in Neighbours(n)
    BY <1>2, <1>3, <2>1 DEF Same
  <2>2. CASE m \notin Neighbours(n)
    <3>1. m # n
      BY <2>2 DEF Neighbours
    <3>2. Same(m)
      BY <1>1, <1>7, <3>1, CreatingHas DEF Copied
    <3> QED BY <1>2, <1>3, <2>2, <3>2 DEF Same
  <2> QED BY <2>1, <2>2
<1>8. ASSUME errors = 0, NEW m \in Inode, disk'.inodes[m].dir
      PROVE  /\ inode_table[m].dir /\ 1 \in DOMAIN Sectors(inode_table[m])
             /\ Sectors(inode_table[m])[1] = First(inode_table[m])
             /\ Sectors(disk'.inodes[m]) = <<First(inode_table[m])>>
             /\ First(inode_table[m]) \in disk.sbm
  <2>1. inode_table[m].dir /\ First(disk'.inodes[m]) = First(inode_table[m])
    BY <1>3, <1>7, <1>8 DEF Same
  <2>2. inode_table[m] \in InodeType /\ disk'.inodes[m] \in OneSector /\ disk.inodes[m] \in OneSector
    BY <1>1, <1>2, TypedHas
  <2>3. 1 \in DOMAIN Sectors(inode_table[m]) /\ Sectors(inode_table[m])[1] = First(inode_table[m])
    BY <2>1, <2>2, InodeHas
  <2>4. Sectors(disk'.inodes[m]) = <<First(inode_table[m])>>
    BY <1>8, <2>1, <2>2, OneSectorHas
  <2>5. CASE m = n
    <3>1. Prepared(n)
      BY <1>1, <1>8, CreatingHas
    <3>2. PICK l : l = Len(pending)
      OBVIOUS
    <3>3. l = 1 /\ l <= 3
      BY <3>2 DEF Ends
    <3>4. disk.sbm = b
      BY <2>1, <2>5, <3>1, <3>2, <3>3 DEF Prepared
    <3>5. First(inode_table[m]) \in b
      BY <1>1, <2>1, <2>3 DEF SectorsSafe, OwnSectors, DirectoriesOf
    <3> QED BY <2>1, <2>3, <2>4, <3>4, <3>5
  <2>6. CASE m # n
    <3>1. Same(m)
      BY <1>1, <1>8, <2>6, CreatingHas DEF Copied
    <3>2. disk.inodes[m].dir /\ First(disk.inodes[m]) = First(inode_table[m])
      BY <2>1, <3>1 DEF Same
    <3>3. PICK t : t = Sectors(disk.inodes[m])
      OBVIOUS
    <3>4. t = <<First(inode_table[m])>>
      BY <2>2, <3>2, <3>3, OneSectorHas
    <3>5. 1 \in DOMAIN t /\ t[1] = First(inode_table[m])
      BY <3>4
    <3>6. OwnSectors(disk.inodes, disk.sbm)
      BY <1>1, <1>8 DEF SectorsSafe
    <3>7. t[1] \in disk.sbm
      BY <3>2, <3>3, <3>5, <3>6 DEF OwnSectors, DirectoriesOf
    <3> QED BY <2>1, <2>3, <2>4, <3>5, <3>7
  <2> QED BY <2>5, <2>6
<1>9. SectorsSafe'
  <2>1. OwnSectors(inode_table, b)
    BY <1>1 DEF SectorsSafe
  <2>2. ASSUME errors = 0 PROVE OwnSectors(disk'.inodes, disk.sbm)
    <3> SUFFICES ASSUME NEW m \in Inode, disk'.inodes[m].dir, NEW i \in DOMAIN Sectors(disk'.inodes[m])
                 PROVE  /\ Sectors(disk'.inodes[m])[i] \in disk.sbm
                        /\ \A q \in Inode : disk'.inodes[q].dir =>
                             \A j \in DOMAIN Sectors(disk'.inodes[q]) :
                               Sectors(disk'.inodes[m])[i] = Sectors(disk'.inodes[q])[j] => m = q /\ i = j
      BY DEF OwnSectors, DirectoriesOf
    <3>1. Sectors(disk'.inodes[m]) = <<First(inode_table[m])>> /\ First(inode_table[m]) \in disk.sbm
      BY <1>8, <2>2
    <3>2. PICK t : t = Sectors(disk'.inodes[m])
      OBVIOUS
    <3>3. i = 1 /\ t[i] = First(inode_table[m])
      BY <3>1, <3>2
    <3>4. ASSUME NEW q \in Inode, disk'.inodes[q].dir, NEW j \in DOMAIN Sectors(disk'.inodes[q]),
                 Sectors(disk'.inodes[q])[j] = t[i]
          PROVE  m = q /\ i = j
      <4>1. Sectors(disk'.inodes[q]) = <<First(inode_table[q])>>
        BY <1>8, <2>2, <3>4
      <4>2. PICK u : u = Sectors(disk'.inodes[q])
        OBVIOUS
      <4>3. j = 1 /\ u[j] = First(inode_table[q])
        BY <4>1, <4>2
      <4>4. /\ inode_table[m].dir /\ 1 \in DOMAIN Sectors(inode_table[m])
            /\ Sectors(inode_table[m])[1] = First(inode_table[m])
            /\ inode_table[q].dir /\ 1 \in DOMAIN Sectors(inode_table[q])
            /\ Sectors(inode_table[q])[1] = First(inode_table[q])
        BY <1>8, <2>2, <3>4
      <4>5. First(inode_table[m]) = First(inode_table[q])
        BY <3>3, <3>4, <4>2, <4>3
      <4>6. m = q
        BY <2>1, <4>4, <4>5 DEF OwnSectors, DirectoriesOf
      <4> QED BY <3>3, <4>3, <4>6
    <3> QED BY <3>1, <3>2, <3>3, <3>4
  <2> QED BY <1>2, <1>3, <2>1, <2>2 DEF SectorsSafe
<1>10. Followed'
  <2>1. \A m \in Inode : ~ Creating(m)'
    BY <1>2 DEF Creating
  <2>2. errors = 0 => disk'.sbm \subseteq b'
    BY <1>1, <1>2, <1>3, CreatingHas
  <2> QED BY <1>3, <1>7, <2>1, <2>2 DEF Followed
<1> QED BY <1>4, <1>5, <1>6, <1>9, <1>10 DEF Stored

(* A write of a bitmap changes one of them.                                *)
LEMMA MapsIs ==
    ASSUME Stored, Takes, NEW map, NEW to, to = "sbm" \/ to = "ibm", Head(pending) = Write(to, map)
    PROVE  /\ Elsewhere
           /\ Maps(IF to = "sbm" THEN map ELSE disk.sbm, IF to = "ibm" THEN map ELSE disk.ibm)
<1>1. disk \in [data : [Sector -> Block], inodes : [Inode -> OneSector],
                sbm : SUBSET Sector, ibm : SUBSET Inode]
  BY DEF Stored, Typed
<1>2. Head(pending) = [to |-> to, at |-> 0, what |-> map]
  BY DEF Write
<1>3. Elsewhere
  BY <1>2 DEF Elsewhere, Place
<1>4. disk' = Written([to |-> to, at |-> 0, what |-> map])
  BY <1>2 DEF Takes
<1>5. CASE to = "sbm"
  <2>1. disk' = [disk EXCEPT !.sbm = map]
    BY <1>4, <1>5 DEF Written
  <2>2. disk' = [disk EXCEPT !.sbm = map, !.ibm = disk.ibm]
    BY <1>1, <2>1
  <2> QED BY <1>3, <1>5, <2>2 DEF Maps
<1>6. CASE to = "ibm"
  <2>1. disk' = [disk EXCEPT !.ibm = map]
    BY <1>4, <1>6 DEF Written
  <2>2. disk' = [disk EXCEPT !.sbm = disk.sbm, !.ibm = map]
    BY <1>1, <2>1
  <2> QED BY <1>3, <1>6, <2>2 DEF Maps
<1> QED BY <1>5, <1>6

-----------------------------------------------------------------------------
(* Every write; and what the disk has when power fails.                    *)

LEMMA MapWrites ==
    ASSUME Stored, Takes, NEW n \in Inode, Creating(n), NEW l \in {2, 3, 4}, l = Len(pending),
           \/ l = 4 /\ Head(pending) = Write("sbm", b)
           \/ l = 3 /\ Head(pending) = Write("ibm", fifth)
           \/ l = 2 /\ Head(pending) = Write("ibm", inodebm)
    PROVE  Stored'
<1>1. Segment(disk.ibm) /\ Segment(fifth) /\ Segment(inodebm)
  BY DEF Stored, Typed
<1>2. CASE l = 4 /\ Head(pending) = Write("sbm", b)
  <2>1. Elsewhere /\ Maps(b, disk.ibm)
    BY <1>2, MapsIs
  <2> QED BY <1>1, <2>1, MapsStored
<1>3. CASE l = 3 /\ Head(pending) = Write("ibm", fifth)
  <2>1. Elsewhere /\ Maps(disk.sbm, fifth)
    BY <1>3, MapsIs
  <2> QED BY <1>1, <1>3, <2>1, MapsStored
<1>4. CASE l = 2 /\ Head(pending) = Write("ibm", inodebm)
  <2>1. Elsewhere /\ Maps(disk.sbm, inodebm)
    BY <1>4, MapsIs
  <2> QED BY <1>1, <1>4, <2>1, MapsStored
<1> QED BY <1>2, <1>3, <1>4

LEMMA TakesStored ==
    ASSUME Stored, Takes
    PROVE  Stored'
<1>1. Delivers
  BY DEF Takes
<1>2. CASE goal # << >> /\ \E k : Flushed(k)
  BY <1>2, FlushedStored
<1>3. CASE \E n \in Inode : Creating(n) /\ Next5(n, Head(pending), Len(pending))
  <2>1. PICK n \in Inode : Creating(n) /\ Next5(n, Head(pending), Len(pending))
    BY <1>3
  <2>2. PICK l : l = Len(pending)
    OBVIOUS
  <2>3. \/ inode_table[n].dir /\ Begun(n)
        \/ l = 4 /\ Head(pending) = Write("sbm", b)
        \/ l = 3 /\ Head(pending) = Write("ibm", fifth)
        \/ l = 2 /\ Head(pending) = Write("ibm", inodebm)
        \/ Ends(n)
    BY <2>1, <2>2 DEF Next5, Begun, Ends
  <2>4. CASE inode_table[n].dir /\ Begun(n)
    BY <2>1, <2>4, NewDataStored
  <2>5. CASE Ends(n)
    BY <2>1, <2>5, EndsStored
  <2>6. CASE \/ l = 4 /\ Head(pending) = Write("sbm", b)
             \/ l = 3 /\ Head(pending) = Write("ibm", fifth)
             \/ l = 2 /\ Head(pending) = Write("ibm", inodebm)
    <3>1. l \in {2, 3, 4}
      BY <2>6
    <3> QED BY <2>1, <2>2, <2>6, <3>1, MapWrites
  <2> QED BY <2>3, <2>4, <2>5, <2>6
<1> QED BY <1>1, <1>2, <1>3, DeliversHas

LEMMA WriteIs ==
    ASSUME Stored, dskws2, failures = 0 \/ errors' = errors
    PROVE  Takes \/ Refuses
<1>1. Delivers
  BY DEF dskws2, Delivers, memory
<1>2. errors \in Nat
  BY DEF Stored, Typed
<1>3. errors' = errors + 1 => failures = 0
  BY <1>2
<1>4. failures = 0 /\ failures + errors < MaxFaults => errors < MaxFaults
  BY <1>2, Sizes
<1> QED BY <1>1, <1>3, <1>4 DEF dskws2, Takes, Refuses

LEMMA WriteStored ==
    ASSUME Stored, dskws2, failures = 0 \/ errors' = errors
    PROVE  Stored'
BY WriteIs, TakesStored, RefusesStored

(* After a restart.                                                        *)
Restarts ==
    /\ errors = 0 /\ failures = 0 /\ MaxFaults > 0 /\ failures' = 1 /\ errors' = 0
    /\ b' = disk.sbm /\ fifth' = disk.ibm /\ inodebm' = disk.ibm /\ inode_table' = disk.inodes
    /\ cwd' = Root /\ entries' = cache_dir(disk.inodes[Root])
    /\ pending' = << >> /\ goal' = << >> /\ behind' = {} /\ disk' = disk /\ outgrown' = outgrown

LEMMA RestartIs ==
    ASSUME init_fs, failures = 0, errors = 0
    PROVE  Restarts
BY Sizes DEF init_fs, Restarts

(* A directory on the disk was one in memory, with the same first sector.  *)
LEMMA SavedIs ==
    ASSUME Stored, failures = 0, errors = 0, NEW n \in Inode, disk.inodes[n].dir
    PROVE  /\ n \in Known /\ First(disk.inodes[n]) = First(inode_table[n])
           /\ \A m \in Known \cap 0 .. n : disk.inodes[m].dir
<1>1. Typed /\ Readable /\ Followed
  BY DEF Stored
<1>2. Same(n)
  <2>1. ~ Fresh(n)
    BY DEF Fresh, NoInode
  <2> QED BY <1>1, <2>1 DEF Followed
<1>3. inode_table[n].dir /\ First(disk.inodes[n]) = First(inode_table[n])
  BY <1>2 DEF Same
<1>4. n \in Known
  BY <1>1, <1>3 DEF Readable, Orphan, Known
<1>5. ASSUME NEW m \in Known \cap 0 .. n PROVE disk.inodes[m].dir
  <2>1. m \in Inode /\ m \in Nat /\ inode_table[m].dir /\ n \in inodebm /\ n \in Nat
    BY <1>1, <1>4, TypedHas, Inodes DEF Known
  <2>2. CASE Same(m)
    BY <2>1, <2>2 DEF Same
  <2>3. CASE Creating(m)
    <3>1. n <= m
      BY <1>1, <2>1, <2>3, NewestLast DEF Creating
    <3>2. m = n
      BY <2>1, <3>1
    <3> QED BY <3>2
  <2> QED BY <1>1, <2>1, <2>2, <2>3 DEF Followed
<1> QED BY <1>3, <1>4, <1>5

(* What is in its first sector.                                            *)
LEMMA SavedSound ==
    ASSUME Stored, failures = 0, errors = 0, InodesMarked, NEW n \in Inode, disk.inodes[n].dir,
           NEW block, block = disk.data[First(disk.inodes[n])]
    PROVE  /\ block \in Block /\ Heads(n, block)
           /\ \A k \in 2 .. SLOTS - 1 : Named(block[k]) => block[k].inode \in disk.ibm
           /\ {block[0].inode, block[1].inode} \subseteq {m \in Inode : disk.inodes[m].dir} \cap 0 .. n
<1>1. Typed /\ Readable
  BY DEF Stored
<1>2. n \in Known /\ First(disk.inodes[n]) = First(inode_table[n])
      /\ \A m \in Known \cap 0 .. n : disk.inodes[m].dir
  BY SavedIs
<1>3. disk.inodes[n] \in OneSector /\ disk.inodes[n] \in InodeType /\ inode_table[n] \in InodeType /\ inode_table[n].dir
  BY <1>1, <1>2, TypedHas, OneSectorHas DEF Known
<1>4. block \in Block
  BY <1>1, <1>3, TypedHas, OneSectorHas
<1>5. Heads(n, block)
  <2>1. 1 \in DOMAIN inode_table[n].exts /\ inode_table[n].exts[1].block = First(inode_table[n])
    BY <1>3, InodeHas DEF First
  <2>2. Settled(n, inode_table[n].exts[1].block)
    BY DEF Settled
  <2>3. Sound(n, 1, disk.data[inode_table[n].exts[1].block])
    BY <1>1, <1>2, <2>1, <2>2, SettledKnown
  <2> QED BY <1>2, <2>1, <2>3 DEF Sound
<1>6. ASSUME NEW k \in 2 .. SLOTS - 1, Named(block[k]) PROVE block[k].inode \in disk.ibm
  <2>1. PICK c : c = cache_dir(disk.inodes[n])
    OBVIOUS
  <2>2. k \in 0 .. SLOTS - 1 /\ k \in 0 .. MAX_DIR_ENTRIES - 1 /\ k >= 2
    BY Sizes
  <2>3. c[k] = block[k] /\ DOMAIN c = 0 .. MAX_DIR_ENTRIES - 1
    BY <1>1, <1>3, <2>1, <2>2, CacheIs
  <2>4. \E e \in Shown(n, c, disk.inodes) : e.is = block[k].inode
    <3>1. c[k].name # "" /\ k \in DOMAIN c
      BY <1>6, <2>2, <2>3 DEF Named
    <3>2. [in |-> n, name |-> c[k].name, is |-> c[k].inode, dir |-> disk.inodes[c[k].inode].dir]
            \in Shown(n, c, disk.inodes)
      BY <2>2, <3>1 DEF Shown
    <3> QED BY <2>3, <3>2
  <2>5. Shown(n, c, disk.inodes) \subseteq saved
    BY <2>1 DEF saved, ShownAfterCd, DirectoriesOf
  <2> QED BY <2>4, <2>5 DEF InodesMarked
<1>7. {block[0].inode, block[1].inode} \subseteq {m \in Inode : disk.inodes[m].dir} \cap 0 .. n
  <2>1. {block[0].inode, block[1].inode} \subseteq Known \cap 0 .. n
    BY <1>5 DEF Heads
  <2>2. Known \subseteq Inode
    BY <1>1, TypedHas DEF Known
  <2> QED BY <1>2, <2>1, <2>2
<1> QED BY <1>4, <1>5, <1>6, <1>7

-----------------------------------------------------------------------------
(* init_fs.                                                                *)

LEMMA RestartTyped ==
    ASSUME Stored, Restarts
    PROVE  /\ Typed' /\ Outgrown' /\ SectorsSafe' /\ Writing' /\ Followed'
           /\ Root \in Inode /\ disk.inodes[Root].dir
           /\ Known' = {n \in disk.ibm : disk.inodes[n].dir}
<1>1. Typed /\ SectorsSafe /\ Followed
  BY DEF Stored
<1>2. disk.inodes \in [Inode -> OneSector] /\ Segment(disk.ibm) /\ disk.sbm \subseteq Sector
  BY <1>1, TypedHas
<1>3. Known' = {n \in disk.ibm : disk.inodes[n].dir}
  BY DEF Known, Restarts
<1>4. Root \in Inode /\ disk.inodes[Root].dir
  <2>1. Root \in Inode /\ inode_table[Root].dir
    BY <1>1, Inodes, TypedHas
  <2>2. ~ Creating(Root)
    BY DEF Creating, Newest
  <2>3. Same(Root)
    BY <1>1, <2>1, <2>2 DEF Followed, Restarts
  <2> QED BY <2>1, <2>3 DEF Same
<1>5. OneSector \subseteq InodeType
  BY OneSectorHas
<1>6. Typed'
  <2>1. Root \in disk.ibm
    BY <1>2 DEF Segment
  <2>2. {Root, cwd'} \subseteq Known'
    BY <1>3, <1>4, <2>1 DEF Restarts
  <2>3. entries' \in [0 .. MAX_DIR_ENTRIES - 1 -> Entry]
    <3>1. disk.inodes[Root] \in InodeType
      BY <1>2, <1>4, <1>5
    <3> QED BY <1>1, <1>4, <3>1, CacheIs DEF Restarts
  <2>4. inode_table' \in [Inode -> InodeType] /\ b' \subseteq Sector
        /\ \A S \in {disk'.ibm, fifth', inodebm'} : Segment(S)
    BY <1>2, <1>5 DEF Restarts
  <2>5. /\ disk' \in [data : [Sector -> Block], inodes : [Inode -> OneSector],
                      sbm : SUBSET Sector, ibm : SUBSET Inode]
        /\ outgrown' \in BOOLEAN /\ behind' = {} /\ goal' \in Path \cup {<< >>}
    BY <1>1 DEF Typed, Restarts
  <2>6. {failures', errors'} \subseteq Nat /\ failures' + errors' <= MaxFaults
    BY Sizes DEF Restarts
  <2> QED BY <2>2, <2>3, <2>4, <2>5, <2>6 DEF Typed
<1>7. Outgrown'
  BY <1>2 DEF Outgrown, Restarts
<1>8. SectorsSafe'
  BY <1>1 DEF SectorsSafe, Restarts
<1>9. Writing' /\ \A n \in Inode : ~ Creating(n)'
  BY DEF Writing, Restarts, Creating
<1>10. Followed'
  BY <1>9 DEF Followed, Same, Restarts
<1> QED BY <1>3, <1>4, <1>6, <1>7, <1>8, <1>9, <1>10

(* The entries of the directories on the disk are sound once it is read.   *)
LEMMA RestartSound ==
    ASSUME Stored, Restarts, InodesMarked, NEW n \in disk.ibm, disk.inodes[n].dir,
           NEW block, block = disk.data[First(disk.inodes[n])]
    PROVE  Marked(block)' /\ Heads(n, block)'
<1>1. n \in Inode /\ Segment(disk.ibm)
  BY TypedHas DEF Stored
<1>2. /\ block \in Block /\ Heads(n, block)
      /\ \A k \in 2 .. SLOTS - 1 : Named(block[k]) => block[k].inode \in disk.ibm
      /\ {block[0].inode, block[1].inode} \subseteq {m \in Inode : disk.inodes[m].dir} \cap 0 .. n
  BY <1>1, SavedSound DEF Restarts
<1>3. 0 .. n \subseteq disk.ibm
  BY <1>1 DEF Segment
<1>4. Known' = {m \in disk.ibm : disk.inodes[m].dir}
  BY RestartTyped
<1>5. inodebm' = disk.ibm
  BY DEF Restarts
<1>6. Marked(block)'
  <2>1. \A k \in 0 .. SLOTS - 1 : k = 0 \/ k = 1 \/ k \in 2 .. SLOTS - 1
    BY Sizes
  <2>2. DOMAIN block = 0 .. SLOTS - 1
    BY <1>2 DEF Block
  <2>3. block[0].inode \in disk.ibm /\ block[1].inode \in disk.ibm
    BY <1>2, <1>3
  <2>4. \A k \in DOMAIN block : Named(block[k]) => block[k].inode \in disk.ibm
    BY <1>2, <2>1, <2>2, <2>3
  <2> QED BY <1>5, <2>4 DEF Marked, Named
<1>7. Heads(n, block)'
  <2>1. {block[0].inode, block[1].inode} \subseteq Known' \cap 0 .. n
    BY <1>2, <1>3, <1>4
  <2> QED BY <1>2, <2>1 DEF Heads
<1> QED BY <1>6, <1>7

LEMMA RestartEntries ==
    ASSUME Stored, Restarts, InodesMarked
    PROVE  Heads(cwd, entries)' /\ Marked(entries)'
<1>1. Typed /\ Root \in Inode /\ disk.inodes[Root].dir /\ Root \in disk.ibm
      /\ disk.inodes[Root] \in OneSector /\ disk.inodes[Root] \in InodeType
  <2>1. Typed /\ Root \in Inode /\ disk.inodes[Root].dir
    BY RestartTyped DEF Stored
  <2>2. Segment(disk.ibm) /\ disk.inodes \in [Inode -> OneSector]
    BY <2>1, TypedHas
  <2> QED BY <2>1, <2>2, OneSectorHas DEF Segment
<1>2. PICK x, c, block : x = disk.inodes[Root] /\ c = cache_dir(x) /\ block = disk.data[First(x)]
  OBVIOUS
<1>3. Marked(block)' /\ Heads(Root, block)' /\ block \in Block
  <2>1. Marked(block)' /\ Heads(Root, block)'
    BY <1>1, <1>2, RestartSound
  <2>2. block \in Block
    BY <1>1, <1>2, TypedHas, OneSectorHas
  <2> QED BY <2>1, <2>2
<1>4. x \in InodeType /\ x.dir
  BY <1>1, <1>2
<1>5. /\ c \in [0 .. MAX_DIR_ENTRIES - 1 -> Entry]
      /\ \A k \in 0 .. SLOTS - 1 : c[k] = block[k]
  BY <1>1, <1>2, <1>4, CacheIs
<1>6. ASSUME NEW k \in 0 .. MAX_DIR_ENTRIES - 1, Named(c[k]) PROVE c[k].inode \in disk.ibm
  <2>1. ~ Named(EMPTY)
    BY DEF Named, EMPTY
  <2>2. \/ c[k] = EMPTY
        \/ \E j, i : From(x, j, i, k) /\ c[k] = disk.data[x.exts[j].block][i]
    BY <1>1, <1>2, <1>4, CacheIs
  <2>3. PICK j, i : From(x, j, i, k) /\ c[k] = disk.data[x.exts[j].block][i]
    BY <1>6, <2>1, <2>2
  <2>4. j = 1
    <3>1. x.exts = <<[block |-> First(x), length |-> 1]>>
      BY <1>1, <1>2, OneSectorHas
    <3>2. PICK r : x.exts = <<r>>
      BY <3>1
    <3>3. DOMAIN x.exts = {1}
      BY <3>2
    <3> QED BY <2>3, <3>3 DEF From
  <2>5. i \in DOMAIN block /\ c[k] = block[i]
    BY <1>2, <1>3, <2>3, <2>4 DEF From, First, Block
  <2>6. inodebm' = disk.ibm /\ \A h \in DOMAIN block : Named(block[h]) => block[h].inode \in inodebm'
    BY <1>3 DEF Marked, Restarts, Named
  <2> QED BY <1>6, <2>5, <2>6
<1>7. entries' = c /\ cwd' = Root
  BY <1>2 DEF Restarts
<1>8. Marked(entries)'
  <2>1. \A k \in DOMAIN c : Named(c[k]) => c[k].inode \in disk.ibm
    BY <1>5, <1>6
  <2>2. inodebm' = disk.ibm
    BY DEF Restarts
  <2> QED BY <1>7, <2>1, <2>2 DEF Marked, Named
<1>9. Heads(cwd, entries)'
  <2>1. 0 \in 0 .. SLOTS - 1 /\ 1 \in 0 .. SLOTS - 1
        /\ \A k \in 2 .. SLOTS - 1 : k \in 0 .. SLOTS - 1 /\ (k > 2 => k - 1 \in 0 .. SLOTS - 1)
    BY Sizes
  <2>2. c[0] = block[0] /\ c[1] = block[1]
        /\ \A k \in 2 .. SLOTS - 1 : c[k] = block[k] /\ (k > 2 => c[k - 1] = block[k - 1])
    BY <1>5, <2>1
  <2>3. Heads(Root, block)'
    BY <1>3
  <2>4. {block[0].inode, block[1].inode} \subseteq Known' \cap 0 .. Root
        /\ \A k \in 2 .. SLOTS - 1 : block[k].name # "" =>
              block[k].inode >= Root + k - 1 /\ (k > 2 => block[k - 1].name # "")
    BY <2>3 DEF Heads
  <2>5. {c[0].inode, c[1].inode} \subseteq Known' \cap 0 .. Root
    BY <2>2, <2>4
  <2>6. \A k \in 2 .. SLOTS - 1 : c[k].name # "" =>
           c[k].inode >= Root + k - 1 /\ (k > 2 => c[k - 1].name # "")
    BY <2>2, <2>4
  <2> QED BY <1>7, <2>5, <2>6 DEF Heads
<1> QED BY <1>8, <1>9

LEMMA RestartReadable ==
    ASSUME Stored, Restarts, InodesMarked
    PROVE  Readable'
<1>1. Typed /\ disk.inodes \in [Inode -> OneSector] /\ Segment(disk.ibm) /\ disk.ibm \subseteq Inode
  BY TypedHas DEF Stored
<1>2. Known' = {n \in disk.ibm : disk.inodes[n].dir}
  BY RestartTyped
<1>3. Unused'
  BY DEF Unused, Restarts
<1>4. ASSUME NEW n \in Known', NEW j \in DOMAIN inode_table'[n].exts
      PROVE  Shows(n, j, inode_table[n].exts[j].block)'
  <2>1. n \in disk.ibm /\ disk.inodes[n].dir /\ disk.inodes[n] \in OneSector
    BY <1>1, <1>2
  <2>2. j = 1
    <3>1. disk.inodes[n].exts = <<[block |-> First(disk.inodes[n]), length |-> 1]>>
      BY <2>1, OneSectorHas
    <3>2. PICK r : disk.inodes[n].exts = <<r>>
      BY <3>1
    <3>3. DOMAIN disk.inodes[n].exts = {1}
      BY <3>2
    <3> QED BY <1>4, <3>3 DEF Restarts
  <2>3. PICK block : block = disk.data[First(disk.inodes[n])]
    OBVIOUS
  <2>4. Marked(block)' /\ Heads(n, block)'
    BY <2>1, <2>3, RestartSound
  <2>5. disk'.data[inode_table'[n].exts[j].block] = block
    BY <2>2, <2>3 DEF Restarts, First
  <2>6. Marked(disk.data[inode_table[n].exts[j].block])'
    BY <2>4, <2>5
  <2>7. Heads(n, disk.data[inode_table[n].exts[j].block])'
    BY <2>4, <2>5
  <2> QED BY <2>6, <2>7 DEF Shows
<1>5. ASSUME NEW n \in Inode, Orphan(n)'
      PROVE  failures' = 1 /\ inode_table'[n] \in OneSector /\ Unnamed(disk.data[First(inode_table[n])])'
  <2>1. n \notin disk.ibm /\ disk.inodes[n].dir /\ n \in Nat
    BY <1>5, Inodes DEF Orphan, Restarts
  <2>2. PICK block : block = disk.data[First(disk.inodes[n])]
    OBVIOUS
  <2>3. /\ block \in Block /\ Heads(n, block)
        /\ \A k \in 2 .. SLOTS - 1 : Named(block[k]) => block[k].inode \in disk.ibm
    BY <2>1, <2>2, SavedSound DEF Restarts
  <2>4. ASSUME NEW k \in 2 .. SLOTS - 1 PROVE ~ Named(block[k])
    <3> SUFFICES ASSUME Named(block[k]) PROVE FALSE
      OBVIOUS
    <3>1. PICK m \in Nat : m = block[k].inode
      BY <1>1, <2>3, Inodes
    <3>2. m >= n + k - 1 /\ m \in disk.ibm
      BY <2>3, <3>1 DEF Heads, Named
    <3>3. 0 .. m \subseteq disk.ibm
      BY <1>1, <3>2 DEF Segment
    <3>4. n \in 0 .. m
      BY <2>1, <3>1, <3>2, Sizes
    <3> QED BY <2>1, <3>3, <3>4
  <2>5. Unnamed(disk.data[First(inode_table[n])])'
    <3>1. disk'.data[First(inode_table'[n])] = block
      BY <2>2 DEF Restarts
    <3>2. \A k \in 2 .. SLOTS - 1 : block[k].name = ""
      BY <2>4 DEF Named
    <3> QED BY <3>1, <3>2 DEF Unnamed
  <2> QED BY <1>1, <2>5 DEF Restarts
<1> QED BY <1>3, <1>4, <1>5, RestartEntries DEF Readable

LEMMA RestartStored ==
    ASSUME Stored, init_fs, InodesMarked, failures = 0, errors = 0
    PROVE  Stored'
<1>1. Restarts
  BY RestartIs
<1> QED BY <1>1, RestartTyped, RestartReadable DEF Stored

-----------------------------------------------------------------------------
(* The image, the steps and the theorems.                                  *)

(* The image of tools/fs.c.                                                *)
LEMMA ImageIs ==
    ASSUME Init, NEW block, block = Directory(Root, EMPTY)
    PROVE  /\ block \in Block /\ disk.data[0] = block /\ \A k \in 0 .. SLOTS - 1 : block[k].inode = Root
           /\ \A k \in 2 .. SLOTS - 1 : block[k].name = ""
           /\ \A s \in Sector \ {0} : disk.data[s] = Blank
           /\ disk \in [data : [Sector -> Block], inodes : [Inode -> OneSector],
                        sbm : SUBSET Sector, ibm : SUBSET Inode]
           /\ disk.sbm = {0} /\ disk.ibm = {Root} /\ inode_table = disk.inodes
           /\ inode_table[Root] = RootInode /\ \A n \in Inode \ {Root} : inode_table[n] = NoInode
<1>1. PICK here : here = dirent(".", Root)
  OBVIOUS
<1>2. here \in Entry /\ EMPTY \in Entry /\ here.inode = Root /\ EMPTY.inode = Root /\ EMPTY.name = ""
  BY <1>1, Inodes DEF dirent, EMPTY, Entry, Root
<1>3. block = [k \in 0 .. SLOTS - 1 |-> IF k = 0 THEN here ELSE EMPTY]
  BY <1>1 DEF Directory
<1>4. block \in [0 .. SLOTS - 1 -> Entry]
  BY <1>2, <1>3
<1>5. \A k \in 0 .. SLOTS - 1 : block[k].inode = Root
  BY <1>2, <1>3
<1>6. \A k \in 2 .. SLOTS - 1 : block[k].name = ""
  <2>1. \A k \in 2 .. SLOTS - 1 : k \in 0 .. SLOTS - 1 /\ k # 0
    OBVIOUS
  <2> QED BY <1>2, <1>3, <2>1
<1>7. PICK blank : blank = Blank /\ blank \in [0 .. SLOTS - 1 -> Entry]
  <2>1. PICK e : e = EMPTY
    OBVIOUS
  <2>2. e \in Entry
    BY <1>2, <2>1
  <2>3. Blank = [k \in 0 .. SLOTS - 1 |-> e]
    BY <2>1 DEF Blank
  <2>4. [k \in 0 .. SLOTS - 1 |-> e] \in [0 .. SLOTS - 1 -> Entry]
    BY <2>2
  <2> QED BY <2>3, <2>4
<1>8. PICK data : data = [s \in Sector |-> IF s = 0 THEN block ELSE blank]
  OBVIOUS
<1>9. PICK inodes : inodes = [n \in Inode |-> IF n = Root THEN RootInode ELSE NoInode]
  OBVIOUS
<1>10. disk = [data |-> data, inodes |-> inodes, sbm |-> {0}, ibm |-> {Root}] /\ inode_table = inodes
  BY <1>7, <1>8, <1>9 DEF Init, Image, Blank
<1>11. RootInode \in OneSector /\ NoInode \in OneSector
  <2>1. 0 \in Sector
    BY SectorIsNat
  <2> QED BY <2>1 DEF RootInode, OneSector
<1>12. data \in [Sector -> Block] /\ inodes \in [Inode -> OneSector] /\ {0} \subseteq Sector /\ {Root} \subseteq Inode
  <2>1. Block = [0 .. SLOTS - 1 -> Entry]
    BY DEF Block, Entry
  <2>2. data \in [Sector -> Block]
    BY <1>4, <1>7, <1>8, <2>1
  <2>3. inodes \in [Inode -> OneSector]
    BY <1>9, <1>11
  <2> QED BY <2>2, <2>3, Inodes, SectorIsNat
<1>13. data[0] = block /\ \A s \in Sector \ {0} : data[s] = Blank
  BY <1>7, <1>8, SectorIsNat
<1>14. inodes[Root] = RootInode /\ \A n \in Inode \ {Root} : inodes[n] = NoInode
  BY <1>9, Inodes
<1>15. block \in Block
  BY <1>4 DEF Block, Entry
<1> QED BY <1>5, <1>6, <1>10, <1>12, <1>13, <1>14, <1>15

LEMMA InitTyped ==
    ASSUME Init
    PROVE  Typed /\ Outgrown /\ SectorsSafe /\ Writing /\ Followed /\ Known = {Root}
<1>1. PICK block : block = Directory(Root, EMPTY)
  OBVIOUS
<1>2. /\ disk \in [data : [Sector -> Block], inodes : [Inode -> OneSector],
                   sbm : SUBSET Sector, ibm : SUBSET Inode]
      /\ disk.sbm = {0} /\ disk.ibm = {Root} /\ inode_table = disk.inodes
      /\ inode_table[Root] = RootInode /\ \A n \in Inode \ {Root} : inode_table[n] = NoInode
  BY <1>1, ImageIs
<1>3. /\ b = {0} /\ fifth = {Root} /\ inodebm = {Root} /\ cwd = Root /\ entries = cache_dir(RootInode)
      /\ pending = << >> /\ goal = << >> /\ failures = 0 /\ errors = 0 /\ outgrown = FALSE /\ behind = {}
  BY DEF Init
<1>4. RootInode.dir /\ RootInode \in OneSector /\ First(RootInode) = 0 /\ Sectors(RootInode) = <<0>>
  <2>1. 0 \in Sector
    BY SectorIsNat
  <2>2. RootInode = [dir |-> TRUE, exts |-> <<[block |-> 0, length |-> 1]>>]
    BY DEF RootInode
  <2> QED BY <2>1, <2>2, OneSectorIs
<1>5. Known = {Root}
  BY <1>2, <1>3, <1>4 DEF Known
<1>6. OneSector \subseteq InodeType /\ Root \in Inode /\ 0 \in Sector
  BY OneSectorHas, Inodes, SectorIsNat
<1>7. Segment({Root})
  BY <1>6 DEF Segment, Root
<1>8. Typed
  <2>1. entries \in [0 .. MAX_DIR_ENTRIES - 1 -> Entry]
    <3>1. disk.data \in [Sector -> Block]
      BY <1>2
    <3> QED BY <1>3, <1>4, <1>6, <3>1, CacheReads
  <2>2. inode_table \in [Inode -> InodeType]
    BY <1>2, <1>6
  <2>3. b \subseteq Sector /\ \A S \in {disk.ibm, fifth, inodebm} : Segment(S)
    BY <1>2, <1>3, <1>6, <1>7
  <2>4. {failures, errors} \subseteq Nat /\ failures + errors <= MaxFaults
    BY <1>3, Sizes
  <2> QED BY <1>2, <1>3, <1>5, <2>1, <2>2, <2>3, <2>4 DEF Typed
<1>9. Outgrown
  BY <1>2 DEF Outgrown
<1>10. SectorsSafe
  <2>1. \A n \in Inode : inode_table[n].dir => n = Root
    BY <1>2 DEF NoInode
  <2>2. Sectors(inode_table[Root]) = <<0>>
    BY <1>2, <1>4
  <2>3. PICK t : t = Sectors(inode_table[Root])
    OBVIOUS
  <2>4. \A i \in DOMAIN t : i = 1 /\ t[i] = 0
    BY <2>2, <2>3
  <2>5. OwnSectors(inode_table, {0})
    BY <2>1, <2>3, <2>4 DEF OwnSectors, DirectoriesOf
  <2> QED BY <1>2, <1>3, <2>5 DEF SectorsSafe
<1>11. Writing /\ \A n \in Inode : ~ Creating(n)
  BY <1>3 DEF Writing, Creating
<1>12. Followed
  BY <1>2, <1>3, <1>11 DEF Followed, Same
<1> QED BY <1>5, <1>8, <1>9, <1>10, <1>11, <1>12

LEMMA InitReadable ==
    ASSUME Init
    PROVE  Readable
<1>1. PICK block : block = Directory(Root, EMPTY)
  OBVIOUS
<1>2. /\ block \in Block /\ disk.data[0] = block /\ \A k \in 0 .. SLOTS - 1 : block[k].inode = Root
      /\ \A k \in 2 .. SLOTS - 1 : block[k].name = ""
      /\ \A s \in Sector \ {0} : disk.data[s] = Blank
      /\ inode_table[Root] = RootInode /\ \A n \in Inode \ {Root} : inode_table[n] = NoInode
  BY <1>1, ImageIs
<1>3. /\ b = {0} /\ inodebm = {Root} /\ cwd = Root /\ entries = cache_dir(RootInode)
      /\ Typed /\ Known = {Root}
  BY InitTyped DEF Init
<1>4. RootInode.dir /\ RootInode \in OneSector /\ RootInode \in InodeType /\ First(RootInode) = 0
      /\ DOMAIN RootInode.exts = {1} /\ RootInode.exts[1].block = 0
  <2>1. 0 \in Sector
    BY SectorIsNat
  <2>2. RootInode = [dir |-> TRUE, exts |-> <<[block |-> 0, length |-> 1]>>]
    BY DEF RootInode
  <2>3. /\ RootInode.dir /\ RootInode \in OneSector /\ First(RootInode) = 0
        /\ DOMAIN RootInode.exts = {1} /\ RootInode.exts[1].block = 0
    BY <2>1, <2>2, OneSectorIs
  <2> QED BY <2>3, OneSectorHas
<1>5. Marked(block) /\ Heads(Root, block)
  <2>1. DOMAIN block = 0 .. SLOTS - 1
    BY <1>2 DEF Block
  <2>2. Marked(block)
    BY <1>2, <1>3, <2>1 DEF Marked
  <2>3. block[0].inode = Root /\ block[1].inode = Root
    BY <1>2, BlankIs
  <2>4. Root \in 0 .. Root
    BY DEF Root
  <2> QED BY <1>2, <1>3, <2>2, <2>3, <2>4 DEF Heads
<1>6. PICK x : x = RootInode
  OBVIOUS
<1>7. /\ entries \in [0 .. MAX_DIR_ENTRIES - 1 -> Entry]
      /\ \A k \in 0 .. SLOTS - 1 : entries[k] = block[k]
      /\ \A k \in 0 .. MAX_DIR_ENTRIES - 1 :
            entries[k] = EMPTY \/ \E j, i : From(x, j, i, k) /\ entries[k] = disk.data[x.exts[j].block][i]
  <2>1. x \in InodeType /\ x.dir /\ entries = cache_dir(x) /\ First(x) = 0
    BY <1>3, <1>4, <1>6
  <2>2. PICK c : c = cache_dir(x) /\ c = entries
    BY <2>1
  <2>3. /\ c \in [0 .. MAX_DIR_ENTRIES - 1 -> Entry]
        /\ \A k \in 0 .. SLOTS - 1 : c[k] = disk.data[First(x)][k]
    BY <1>3, <2>1, <2>2, CacheIs
  <2>4. \A k \in 0 .. MAX_DIR_ENTRIES - 1 :
            c[k] = EMPTY \/ \E j, i : From(x, j, i, k) /\ c[k] = disk.data[x.exts[j].block][i]
    BY <1>3, <2>1, <2>2, CacheIs
  <2>5. disk.data[First(x)] = block
    BY <1>2, <2>1
  <2> QED BY <2>2, <2>3, <2>4, <2>5
<1>8. Heads(cwd, entries)
  BY <1>3, <1>5, <1>7, HeadsSame
<1>9. Marked(entries)
  <2> SUFFICES ASSUME NEW k \in 0 .. MAX_DIR_ENTRIES - 1, Named(entries[k]) PROVE entries[k].inode \in inodebm
    BY <1>7 DEF Marked, Named
  <2>1. ~ Named(EMPTY)
    BY DEF Named, EMPTY
  <2>2. PICK j, i : From(x, j, i, k) /\ entries[k] = disk.data[x.exts[j].block][i]
    BY <1>7, <2>1
  <2>3. j = 1 /\ i \in 0 .. SLOTS - 1
    BY <1>4, <1>6, <2>2 DEF From
  <2>4. x.exts[j].block = 0
    BY <1>4, <1>6, <2>3
  <2>5. entries[k] = block[i]
    BY <1>2, <2>2, <2>4
  <2>6. entries[k].inode = Root
    BY <1>2, <2>3, <2>5
  <2> QED BY <1>3, <2>6
<1>10. \A n \in Known : \A j \in DOMAIN inode_table[n].exts : Shows(n, j, inode_table[n].exts[j].block)
  BY <1>2, <1>3, <1>4, <1>5 DEF Shows
<1>11. Unused
  BY <1>2, <1>3 DEF Unused, Blank
<1>12. \A n \in Inode : ~ Orphan(n)
  <2>1. ~ NoInode.dir
    BY DEF NoInode
  <2>2. \A n \in Inode \ inodebm : inode_table[n] = NoInode
    BY <1>2, <1>3
  <2> QED BY <2>1, <2>2 DEF Orphan
<1> QED BY <1>8, <1>9, <1>10, <1>11, <1>12 DEF Readable

LEMMA NextStored ==
    ASSUME Stored, [MarkedNext]_vars
    PROVE  Stored'
<1>1. CASE MarkedNext
  <2>1. CASE Operation
    <3>1. CASE \E path \in Path : cd(path)
      BY <3>1, CdStored
    <3> QED BY <2>1, <3>1, CreateStored, CdDoneStored DEF Operation
  <2> QED BY <1>1, <2>1, WriteStored, RestartStored DEF MarkedNext
<1>2. CASE UNCHANGED vars
  <2>1. UNCHANGED <<disk, b, fifth, inodebm, inode_table, cwd, entries, pending, goal, failures, errors, outgrown, behind>>
    BY <1>2 DEF vars, memory, faults
  <2>2. Typed' /\ Outgrown' /\ SectorsSafe'
    BY <2>1 DEF Stored, Typed, Known, Outgrown, SectorsSafe
  <2>3. Known' = Known /\ flush_dentry' = flush_dentry
    BY <2>1 DEF Known, flush_dentry, Chunk
  <2>4. Writing'
    <3>1. \A n \in Inode : Made(n)' = Made(n) /\ Newest(n)' = Newest(n) /\ Creating(n)' = Creating(n)
      BY <2>1 DEF Made, NewBlock, InodesNear, Newest, Creating
    <3> QED BY <2>1, <2>3, <3>1 DEF Stored, Writing, Rest
  <2>5. Readable'
    <3>1. Readable
      BY DEF Stored
    <3>2. Heads(cwd, entries)' /\ Marked(entries)'
      BY <2>1, <2>3, <3>1 DEF Readable, Heads, Marked
    <3>3. Unused'
      BY <2>1, <3>1 DEF Readable, Unused
    <3>4. \A n \in Inode : Orphan(n)' =>
             failures' = 1 /\ inode_table'[n] \in OneSector /\ Unnamed(disk.data[First(inode_table[n])])'
      BY <2>1, <3>1 DEF Readable, Orphan, Unnamed
    <3>5. ASSUME NEW n \in Known, NEW j \in DOMAIN inode_table[n].exts
          PROVE  Shows(n, j, inode_table[n].exts[j].block)'
      <4>1. PICK t : t = inode_table[n].exts[j].block
        OBVIOUS
      <4>2. Shows(n, j, t)
        BY <3>1, <4>1 DEF Readable
      <4>3. inode_table'[n].exts[j].block = t
        BY <2>1, <4>1
      <4>4. Settled(n, inode_table[n].exts[j].block)' => Settled(n, t)
        BY <2>1, <4>3 DEF Settled, Coming, Place
      <4>5. PICK block : block = disk.data[t]
        OBVIOUS
      <4>6. ASSUME Settled(n, t)
            PROVE  Marked(block)' /\ (j = 1 => Heads(n, block)')
        <5>1. Sound(n, j, block)
          BY <4>2, <4>5, <4>6 DEF Shows, Sound
        <5> QED BY <2>1, <2>3, <5>1, SoundStays
      <4> QED BY <2>1, <4>1, <4>4, <4>5, <4>6 DEF Shows
    <3>6. \A n \in Known' : \A j \in DOMAIN inode_table'[n].exts :
             Shows(n, j, inode_table[n].exts[j].block)'
      BY <2>1, <2>3, <3>5
    <3> QED BY <3>2, <3>3, <3>4, <3>6 DEF Readable
  <2>6. Followed'
    BY <2>1 DEF Stored, Followed, Same, Fresh, Creating, Newest, Prepared, NewBlock
  <2> QED BY <2>2, <2>4, <2>5, <2>6 DEF Stored
<1> QED BY <1>1, <1>2

(* The invariant gives the types.                                          *)
LEMMA StoredTypeOK ==
    ASSUME Stored
    PROVE  TypeOK
<1>1. Typed
  BY DEF Stored
<1>2. disk \in [data : [Sector -> Block], inodes : [Inode -> OneSector],
                sbm : SUBSET Sector, ibm : SUBSET Inode]
  BY <1>1 DEF Typed
<1>3. DOMAIN disk = {"data", "inodes", "sbm", "ibm"}
  BY <1>2
<1>4. ASSUME NEW x \in InodeType, NEW k \in DOMAIN x.exts
      PROVE  x.dir /\ x.exts[k].block \in Sector /\ x.exts[k].length \in Nat \ {0}
  <2>1. x.dir
    BY InodeHas
  <2>2. x.exts \in Seq(Extent)
    BY <2>1, InodeHas
  <2>3. x.exts[k] \in Extent
    BY <2>2
  <2> QED BY <2>1, <2>3 DEF Extent
<1>5. disk.inodes \in [Inode -> InodeType] /\ inode_table \in [Inode -> InodeType]
  BY <1>1, TypedHas, OneSectorHas
<1>6. \A inodes \in {disk.inodes, inode_table} :
         /\ DOMAIN inodes = Inode
         /\ \A n \in Inode : \A k \in DOMAIN inodes[n].exts :
              /\ inodes[n].dir
              /\ inodes[n].exts[k].block \in Sector /\ inodes[n].exts[k].length \in Nat \ {0}
  BY <1>4, <1>5
<1>7. disk.ibm \subseteq Inode /\ fifth \subseteq Inode /\ inodebm \subseteq Inode
  BY <1>1 DEF Typed, Segment
<1>8. cwd \in Inode /\ inode_table[cwd].dir /\ DOMAIN entries = 0 .. MAX_DIR_ENTRIES - 1
  BY <1>1, TypedHas
<1> QED BY <1>1, <1>2, <1>3, <1>6, <1>7, <1>8 DEF TypeOK, Typed

(* The inductive invariant: what every operation of the shell, every write *)
(* of dskws2, refused or not, and a restart in init_fs keeps.              *)
THEOREM StoredInvariance == MarkedSpec => []Stored
<1>1. Init => Stored
  BY InitTyped, InitReadable DEF Stored
<1>2. Stored /\ [MarkedNext]_vars => Stored'
  BY NextStored
<1> QED BY <1>1, <1>2, PTL DEF MarkedSpec

(* The caches of fs.c and the disk keep their types: extents are of        *)
(* directories and inside the data sectors, the current directory is one,  *)
(* whatever create_entry and cd do and wherever power fails.               *)
THEOREM FileSystemTyped == MarkedSpec => []TypeOK
<1>1. Stored => TypeOK
  BY StoredTypeOK
<1> QED BY <1>1, StoredInvariance, PTL

(* Whenever power fails, each sector of a directory is marked on the disk  *)
(* and in no other directory, since flush_sbm is called before             *)
(* flush_inode; and the same holds in memory.                              *)
THEOREM SectorsStaySafe == MarkedSpec => []SectorsSafe
<1>1. Stored => SectorsSafe
  BY DEF Stored
<1> QED BY <1>1, StoredInvariance, PTL

-----------------------------------------------------------------------------
(* What the disk has: one write less, and the writes of cd.                *)

LEMMA CurrentIs ==
    Current <=> /\ InodesCurrent /\ MapsCurrent
                /\ \A s : s = First(inode_table[cwd]) =>
                      outgrown \/ Lags(<<"data", s>>) \/ disk.data[s] = Chunk(0)
BY DEF Current, DirectoryCurrent

(* A write takes its own sector from the queue, and no other.              *)
LEMMA LagsStays ==
    ASSUME Stored, Delivers, behind \ {Place(Head(pending))} \subseteq behind',
           NEW place, Lags(place), place # Place(Head(pending))
    PROVE  Lags(place)'
<1>1. CASE place \in behind
  BY <1>1 DEF Lags
<1>2. CASE Coming(place)
  <2>1. PICK k \in DOMAIN pending : Place(pending[k]) = place
    BY <1>2 DEF Coming
  <2>2. k # 1
    BY <2>1, DeliversHas
  <2>3. k - 1 \in DOMAIN pending' /\ pending[k] = pending'[k - 1]
    BY <2>1, <2>2, DeliversHas DEF Splits
  <2>4. PICK w : w = pending[k]
    OBVIOUS
  <2>5. Place(w) = place /\ pending'[k - 1] = w
    BY <2>1, <2>3, <2>4
  <2>6. Coming(place)'
    BY <2>3, <2>5 DEF Coming, Place
  <2> QED BY <2>6 DEF Lags
<1> QED BY <1>1, <1>2 DEF Lags

(* Memory stays as it is, and so does the disk, but for what head has.     *)
LEMMA DeliversCurrent ==
    ASSUME Stored, Current, Delivers, behind \ {Place(Head(pending))} \subseteq behind',
           NEW place, place = Place(Head(pending)),
           \A n \in Inode : \/ Lags(<<"inodes", SectorOf(n)>>)'
                            \/ <<"inodes", SectorOf(n)>> # place /\ disk'.inodes[n] = disk.inodes[n]
                            \/ disk'.inodes[n] = inode_table[n],
           \/ Lags(<<"sbm", 0>>)' \/ (<<"sbm", 0>> # place /\ disk'.sbm = disk.sbm) \/ disk'.sbm = b,
           \/ Lags(<<"ibm", 0>>)' \/ (<<"ibm", 0>> # place /\ disk'.ibm = disk.ibm) \/ disk'.ibm = inodebm,
           \A s : s = First(inode_table[cwd]) =>
              \/ outgrown \/ Lags(<<"data", s>>)' \/ disk'.data[s] = Chunk(0)
              \/ <<"data", s>> # place /\ disk'.data[s] = disk.data[s]
    PROVE  Current'
<1>1. UNCHANGED <<b, fifth, inodebm, inode_table, cwd, entries, outgrown>>
  BY DEF Delivers
<1>2. InodesCurrent'
  <2> SUFFICES ASSUME NEW n \in Inode
               PROVE  Lags(<<"inodes", SectorOf(n)>>)' \/ disk'.inodes[n] = inode_table'[n]
    BY DEF InodesCurrent
  <2>1. CASE <<"inodes", SectorOf(n)>> # place /\ disk'.inodes[n] = disk.inodes[n]
    <3>1. PICK p : p = <<"inodes", SectorOf(n)>>
      OBVIOUS
    <3>2. Lags(p) \/ disk.inodes[n] = inode_table[n]
      BY <3>1 DEF Current, InodesCurrent
    <3>3. Lags(p) => Lags(p)'
      BY <2>1, <3>1, LagsStays
    <3> QED BY <1>1, <2>1, <3>1, <3>2, <3>3
  <2> QED BY <1>1, <2>1
<1>3. MapsCurrent'
  <2>1. Lags(<<"sbm", 0>>) \/ disk.sbm = b
    BY DEF Current, MapsCurrent
  <2>2. Lags(<<"ibm", 0>>) \/ disk.ibm = inodebm
    BY DEF Current, MapsCurrent
  <2>3. <<"sbm", 0>> # place /\ Lags(<<"sbm", 0>>) => Lags(<<"sbm", 0>>)'
    BY LagsStays
  <2>4. <<"ibm", 0>> # place /\ Lags(<<"ibm", 0>>) => Lags(<<"ibm", 0>>)'
    BY LagsStays
  <2>5. Lags(<<"sbm", 0>>)' \/ disk'.sbm = b'
    BY <1>1, <2>1, <2>3
  <2>6. Lags(<<"ibm", 0>>)' \/ disk'.ibm = inodebm'
    BY <1>1, <2>2, <2>4
  <2> QED BY <2>5, <2>6 DEF MapsCurrent
<1>4. ASSUME NEW s, s = First(inode_table[cwd])
      PROVE  outgrown \/ Lags(<<"data", s>>)' \/ disk'.data[s] = Chunk(0)
  <2>1. outgrown \/ Lags(<<"data", s>>) \/ disk.data[s] = Chunk(0)
    BY <1>4, CurrentIs
  <2>2. <<"data", s>> # place /\ Lags(<<"data", s>>) => Lags(<<"data", s>>)'
    BY LagsStays
  <2> QED BY <1>4, <2>1, <2>2
<1>5. Chunk(0)' = Chunk(0) /\ First(inode_table[cwd])' = First(inode_table[cwd])
  BY <1>1 DEF Chunk, First
<1>6. DirectoryCurrent'
  <2>1. PICK s : s = First(inode_table[cwd])
    OBVIOUS
  <2>2. First(inode_table[cwd])' = s
    BY <1>5, <2>1
  <2> QED BY <1>1, <1>4, <1>5, <2>1, <2>2 DEF DirectoryCurrent
<1> QED BY <1>2, <1>3, <1>6 DEF Current

LEMMA RefusesCurrent ==
    ASSUME Stored, Current, Refuses, behind' = behind \cup {Place(Head(pending))}
    PROVE  Current'
<1>1. PICK place : place = Place(Head(pending))
  OBVIOUS
<1>2. Delivers /\ disk' = disk
  BY DEF Refuses
<1>3. Lags(place)'
  BY <1>1 DEF Lags
<1> QED BY <1>1, <1>2, <1>3, DeliversCurrent

LEMMA DataPut ==
    ASSUME Stored, Takes, NEW m, NEW i, NEW s, NEW block, Fits(m, i, s, block)
    PROVE  \A t \in Sector : disk'.data[t] = IF t = s THEN block ELSE disk.data[t]
<1>1. Typed
  BY DEF Stored
<1>2. disk'.data = [disk.data EXCEPT ![s] = block] /\ s \in Sector /\ disk.data \in [Sector -> Block]
  BY <1>1, DataTyped, TypedHas DEF Fits
<1> QED BY <1>2

(* cd writes what the directory has.                                       *)
LEMMA FlushedCurrent ==
    ASSUME Stored, Current, Takes, goal # << >>, NEW k, Flushed(k)
    PROVE  Current'
<1>1. Delivers
  BY DEF Takes
<1>2. PICK s, block : Fits(cwd, k, s, block)
  BY <1>1, FlushedFits
<1>9. Head(pending) = WriteData(s, block) /\ Head(pending) = WriteData(s, Chunk(k - 1))
  BY <1>2 DEF Fits, Flushed
<1>3. PICK place : place = Place(Head(pending)) /\ place = <<"data", s>>
  <2>1. Place(WriteData(s, block)) = <<"data", s>>
    BY DEF Place, WriteData
  <2> QED BY <1>9, <2>1
<1>10. block = Chunk(k - 1)
  <2>1. WriteData(s, block).what = block /\ WriteData(s, Chunk(k - 1)).what = Chunk(k - 1)
    BY DEF WriteData
  <2> QED BY <1>9, <2>1
<1>4. /\ \A t \in Sector : disk'.data[t] = IF t = s THEN block ELSE disk.data[t]
      /\ disk'.inodes = disk.inodes /\ disk'.sbm = disk.sbm /\ disk'.ibm = disk.ibm
  <2>1. disk'.inodes = disk.inodes /\ disk'.sbm = disk.sbm /\ disk'.ibm = disk.ibm
    BY <1>2, DataTyped
  <2>2. \A t \in Sector : disk'.data[t] = IF t = s THEN block ELSE disk.data[t]
    BY <1>2, DataPut
  <2> QED BY <2>1, <2>2
<1>5. disk.data \in [Sector -> Block] /\ s \in Sector
  BY <1>2, TypedHas DEF Stored, Fits
<1>6. ASSUME NEW t, t = First(inode_table[cwd])
      PROVE  \/ outgrown \/ disk'.data[t] = Chunk(0)
             \/ <<"data", t>> # place /\ disk'.data[t] = disk.data[t]
  <2>1. CASE t # s
    <3>1. t \in Sector
      BY <1>6, TypedHas, InodeHas DEF Stored
    <3> QED BY <1>3, <1>4, <1>5, <2>1, <3>1
  <2>2. CASE t = s /\ ~ outgrown
    <3>1. inode_table[cwd] \in OneSector /\ inode_table[cwd].dir
      BY <2>2, TypedHas DEF Stored, Outgrown
    <3>2. PICK q : q = Sectors(inode_table[cwd]) /\ q = <<First(inode_table[cwd])>>
      BY <3>1, OneSectorHas
    <3>3. k \in DOMAIN q
      BY <3>2 DEF Flushed
    <3>4. k = 1
      BY <3>2, <3>3
    <3>5. block = Chunk(0)
      BY <1>10, <3>4
    <3> QED BY <1>4, <1>5, <2>2, <3>5
  <2> QED BY <2>1, <2>2
<1>7. behind \ {Place(Head(pending))} \subseteq behind'
  BY DEF Takes
<1>8. <<"sbm", 0>> # place /\ <<"ibm", 0>> # place /\ \A n \in Inode : <<"inodes", SectorOf(n)>> # place
  BY <1>3
<1> QED BY <1>1, <1>3, <1>4, <1>6, <1>7, <1>8, DeliversCurrent

-----------------------------------------------------------------------------
(* What the disk has: the writes of a new inode.                           *)

LEMMA TakesHas ==
    ASSUME Takes
    PROVE  Delivers /\ behind \ {Place(Head(pending))} \subseteq behind'
BY DEF Takes

LEMMA PlacesAre ==
    ASSUME NEW s, NEW what
    PROVE  /\ Place(WriteData(s, what)) = <<"data", s>> /\ Place(WriteInodes(s, what)) = <<"inodes", s>>
           /\ Place(Write(s, what)) = <<s, 0>>
BY DEF Place, WriteData, WriteInodes, Write

(* The first sectors of two directories are two.                           *)
LEMMA FirstOwn ==
    ASSUME Stored, NEW m \in Inode, NEW n \in Inode, inode_table[m].dir, inode_table[n].dir, m # n
    PROVE  First(inode_table[m]) # First(inode_table[n]) /\ First(inode_table[n]) \in b
<1>1. OwnSectors(inode_table, b) /\ inode_table \in [Inode -> InodeType]
  BY TypedHas DEF Stored, SectorsSafe
<1>2. PICK s, t : s = Sectors(inode_table[m]) /\ t = Sectors(inode_table[n])
  OBVIOUS
<1>3. 1 \in DOMAIN s /\ s[1] = First(inode_table[m]) /\ 1 \in DOMAIN t /\ t[1] = First(inode_table[n])
  BY <1>1, <1>2, InodeHas
<1>4. m \in DirectoriesOf(inode_table) /\ n \in DirectoriesOf(inode_table)
  BY DEF DirectoriesOf
<1>5. s[1] # t[1]
  BY <1>1, <1>2, <1>3, <1>4 DEF OwnSectors
<1>6. t[1] \in b
  BY <1>1, <1>2, <1>3, <1>4 DEF OwnSectors
<1> QED BY <1>3, <1>5, <1>6

LEMMA NewDataFits ==
    ASSUME Stored, NEW n \in Inode, Creating(n), inode_table[n].dir, Begun(n),
           NEW s, NEW block, s = First(inode_table[n]), block = NewBlock(n)
    PROVE  Fits(n, 1, s, block)
<1>1. n \in Known /\ inode_table[n] \in OneSector
  BY DEF Creating, Newest, Known, Stored, Writing, Neighbours
<1>2. Sectors(inode_table[n]) = <<s>> /\ s \in Sector
  BY <1>1, OneSectorHas
<1>3. 1 \in DOMAIN Sectors(inode_table[n]) /\ Sectors(inode_table[n])[1] = s
  BY <1>2
<1>4. block \in Block /\ Sound(n, 1, block)
  BY NewBlockIs DEF Sound
<1>5. Head(pending) = WriteData(s, block)
  BY DEF Begun
<1> QED BY <1>1, <1>2, <1>3, <1>4, <1>5 DEF Fits

LEMMA NewDataCurrent ==
    ASSUME Stored, Current, Takes, NEW n \in Inode, Creating(n), inode_table[n].dir, Begun(n)
    PROVE  Current'
<1>1. n \in Known /\ n # cwd
  BY DEF Creating, Newest, Known
<1>2. PICK s, block : s = First(inode_table[n]) /\ block = NewBlock(n)
  OBVIOUS
<1>3. Fits(n, 1, s, block)
  BY <1>2, NewDataFits
<1>4. PICK place : place = Place(Head(pending)) /\ place = <<"data", s>>
  BY <1>3, PlacesAre DEF Fits
<1>5. disk'.inodes = disk.inodes /\ disk'.sbm = disk.sbm /\ disk'.ibm = disk.ibm
  BY <1>3, DataTyped
<1>6. ASSUME NEW t, t = First(inode_table[cwd])
      PROVE  <<"data", t>> # place /\ disk'.data[t] = disk.data[t]
  <2>1. cwd \in Inode /\ inode_table[cwd].dir /\ t \in Sector
    BY <1>6, TypedHas, InodeHas DEF Stored
  <2>2. t # s
    BY <1>1, <1>2, <1>6, <2>1, FirstOwn
  <2>3. disk'.data[t] = disk.data[t]
    BY <1>3, <2>1, <2>2, DataPut
  <2> QED BY <1>4, <2>2, <2>3
<1>7. <<"sbm", 0>> # place /\ <<"ibm", 0>> # place /\ \A m \in Inode : <<"inodes", SectorOf(m)>> # place
  BY <1>4
<1> QED BY <1>4, <1>5, <1>6, <1>7, TakesHas, DeliversCurrent

(* What is left of the creation of an inode, after a write.                *)
LEMMA ThenMarked ==
    ASSUME Stored, Takes, NEW n \in Inode, Creating(n), inode_table[n].dir, Len(pending) = 3
    PROVE  Lags(<<"ibm", 0>>)'
<1>1. Delivers
  BY TakesHas
<1>2. Writing' /\ Len(pending') = Len(pending) - 1
  BY <1>1, DeliversHas
<1>3. Len(pending') = 2
  BY <1>2
<1>4. pending' # << >>
  <2>1. PICK p : p = pending'
    OBVIOUS
  <2> QED BY <1>3, <2>1, NotEmpty
<1>5. goal' = << >> /\ Newest(n)' /\ inode_table' = inode_table /\ inodebm' = inodebm
  BY <1>1 DEF Delivers, Creating, Newest
<1>6. Creating(n)'
  BY <1>4, <1>5 DEF Creating
<1>7. Rest(Made(n))'
  BY <1>2, <1>6 DEF Writing
<1>8. PICK p, w : p = pending' /\ w = Write("ibm", inodebm)
  OBVIOUS
<1>9. PICK m \in 0 .. Len(Made(n)') : pending' = LastOf(Made(n)', m)
  BY <1>7 DEF Rest
<1>10. PICK u, v, x, y : Made(n)' = <<u, v, x, w, y>>
  BY <1>5, <1>8 DEF Made, Write
<1>11. p = LastOf(<<u, v, x, w, y>>, m) /\ m \in 0 .. 5
  BY <1>8, <1>9, <1>10
<1>12. DOMAIN p = 1 .. m /\ Len(p) = m
  BY <1>11 DEF LastOf
<1>13. m = 2
  BY <1>3, <1>8, <1>12
<1>14. 1 \in DOMAIN p /\ p[1] = w
  BY <1>11, <1>13 DEF LastOf
<1>15. Place(w) = <<"ibm", 0>>
  BY <1>8 DEF Place, Write
<1>16. Coming(<<"ibm", 0>>)'
  BY <1>8, <1>14, <1>15 DEF Coming, Place
<1> QED BY <1>16 DEF Lags

LEMMA MapCurrent ==
    ASSUME Stored, Current, Takes, NEW map, NEW to, to = "sbm" \/ to = "ibm", Head(pending) = Write(to, map),
           to = "sbm" => map = b, to = "ibm" => map = inodebm \/ Lags(<<"ibm", 0>>)'
    PROVE  Current'
<1>1. PICK place : place = Place(Head(pending)) /\ place = <<to, 0>>
  BY PlacesAre
<1>2. disk \in [data : [Sector -> Block], inodes : [Inode -> OneSector],
                sbm : SUBSET Sector, ibm : SUBSET Inode]
  BY DEF Stored, Typed
<1>3. disk' = Written(Write(to, map))
  BY DEF Takes
<1>4. /\ disk'.data = disk.data /\ disk'.inodes = disk.inodes
      /\ to = "sbm" => disk'.sbm = map /\ disk'.ibm = disk.ibm
      /\ to = "ibm" => disk'.ibm = map /\ disk'.sbm = disk.sbm
  BY <1>2, <1>3 DEF Written, Write
<1>5. (\A s : <<"data", s>> # place) /\ \A n \in Inode : <<"inodes", SectorOf(n)>> # place
  BY <1>1
<1>6. \/ Lags(<<"sbm", 0>>)' \/ (<<"sbm", 0>> # place /\ disk'.sbm = disk.sbm) \/ disk'.sbm = b
  BY <1>1, <1>4
<1>7. \/ Lags(<<"ibm", 0>>)' \/ (<<"ibm", 0>> # place /\ disk'.ibm = disk.ibm) \/ disk'.ibm = inodebm
  BY <1>1, <1>4
<1> QED BY <1>1, <1>4, <1>5, <1>6, <1>7, TakesHas, DeliversCurrent

LEMMA EndsCurrent ==
    ASSUME Stored, Current, Takes, NEW n \in Inode, Creating(n), Ends(n)
    PROVE  Current'
<1>1. PICK place : place = Place(Head(pending)) /\ place = <<"inodes", SectorOf(n)>>
  BY PlacesAre DEF Ends, InodesNear
<1>2. /\ disk'.data = disk.data /\ disk'.sbm = disk.sbm /\ disk'.ibm = disk.ibm
      /\ \A m \in Inode : disk'.inodes[m] = IF m \in Neighbours(n) THEN inode_table[m] ELSE disk.inodes[m]
  BY EndsHas
<1>3. ASSUME NEW m \in Inode
      PROVE  \/ <<"inodes", SectorOf(m)>> # place /\ disk'.inodes[m] = disk.inodes[m]
             \/ disk'.inodes[m] = inode_table[m]
  BY <1>1, <1>2 DEF Neighbours
<1>4. (\A s : <<"data", s>> # place) /\ <<"sbm", 0>> # place /\ <<"ibm", 0>> # place
  BY <1>1
<1> QED BY <1>1, <1>2, <1>3, <1>4, TakesHas, DeliversCurrent


LEMMA WriteCurrent ==
    ASSUME Stored, Current, dskws2, failures = 0 \/ errors' = errors
    PROVE  Current'
<1>1. Delivers
  BY DEF dskws2, Delivers, memory
<1>2. Takes \/ (Refuses /\ behind' = behind \cup {Place(Head(pending))})
  BY WriteIs DEF Refuses
<1>3. CASE Takes
  <2>1. CASE goal # << >> /\ \E k : Flushed(k)
    BY <1>3, <2>1, FlushedCurrent
  <2>2. CASE \E n \in Inode : Creating(n) /\ Next5(n, Head(pending), Len(pending))
    <3>1. PICK n \in Inode : Creating(n) /\ Next5(n, Head(pending), Len(pending))
      BY <2>2
    <3>2. \/ inode_table[n].dir /\ Begun(n)
          \/ Head(pending) = Write("sbm", b)
          \/ inode_table[n].dir /\ Len(pending) = 3 /\ Head(pending) = Write("ibm", fifth)
          \/ Head(pending) = Write("ibm", inodebm)
          \/ Ends(n)
      BY <3>1 DEF Next5, Begun, Ends
    <3>3. CASE inode_table[n].dir /\ Len(pending) = 3 /\ Head(pending) = Write("ibm", fifth)
      <4>1. Lags(<<"ibm", 0>>)'
        BY <1>3, <3>1, <3>3, ThenMarked
      <4> QED BY <1>3, <3>3, <4>1, MapCurrent
    <3>4. CASE Head(pending) = Write("sbm", b) \/ Head(pending) = Write("ibm", inodebm)
      BY <1>3, <3>4, MapCurrent
    <3> QED BY <1>3, <3>1, <3>2, <3>3, <3>4, NewDataCurrent, EndsCurrent
  <2> QED BY <1>1, <2>1, <2>2, DeliversHas
<1> QED BY <1>2, <1>3, RefusesCurrent

-----------------------------------------------------------------------------
(* What the disk has: an entry that is made.                               *)

(* The writes that an entry makes.                                         *)
LEMMA MadeComing ==
    ASSUME NEW n, pending' = Made(n)'
    PROVE  /\ Lags(<<"inodes", SectorOf(n)>>)' /\ Lags(<<"ibm", 0>>)'
           /\ inode_table'[n].dir => Lags(<<"sbm", 0>>)'
<1>1. PICK v, w, x, y, z : /\ v = WriteData(First(inode_table'[n]), NewBlock(n)') /\ w = Write("sbm", b')
                           /\ x = Write("ibm", fifth') /\ y = Write("ibm", inodebm') /\ z = InodesNear(n)'
  OBVIOUS
<1>2. PICK p : p = pending'
  OBVIOUS
<1>3. p = IF inode_table'[n].dir THEN <<v, w, x, y, z>> ELSE <<y, z>>
  BY <1>1, <1>2 DEF Made
<1>4. Place(w) = <<"sbm", 0>> /\ Place(y) = <<"ibm", 0>> /\ Place(z) = <<"inodes", SectorOf(n)>>
  BY <1>1, PlacesAre DEF InodesNear
<1>5. ASSUME NEW k \in DOMAIN p PROVE Lags(Place(p[k]))'
  <2>1. PICK place : place = Place(p[k])
    OBVIOUS
  <2>2. Coming(place)'
    BY <1>2, <2>1 DEF Coming, Place
  <2>3. Lags(place)'
    BY <2>2 DEF Lags
  <2> QED BY <2>1, <2>3
<1>6. CASE inode_table'[n].dir
  <2>1. {2, 4, 5} \subseteq DOMAIN p /\ p[2] = w /\ p[4] = y /\ p[5] = z
    BY <1>3, <1>6
  <2>2. Lags(<<"sbm", 0>>)'
    BY <1>4, <1>5, <2>1
  <2>3. Lags(<<"ibm", 0>>)'
    BY <1>4, <1>5, <2>1
  <2>4. Lags(<<"inodes", SectorOf(n)>>)'
    BY <1>4, <1>5, <2>1
  <2> QED BY <2>2, <2>3, <2>4
<1>7. CASE ~ inode_table'[n].dir
  <2>1. {1, 2} \subseteq DOMAIN p /\ p[1] = y /\ p[2] = z
    BY <1>3, <1>7
  <2>3. Lags(<<"ibm", 0>>)'
    BY <1>4, <1>5, <2>1
  <2>4. Lags(<<"inodes", SectorOf(n)>>)'
    BY <1>4, <1>5, <2>1
  <2> QED BY <1>7, <2>3, <2>4
<1> QED BY <1>6, <1>7

LEMMA BehindLags ==
    ASSUME NEW place, place \in behind'
    PROVE  Lags(place)'
BY DEF Lags

(* What create_entry leaves for later is behind.                           *)
LEMMA CreateLags ==
    ASSUME Stored, Current, create_entry, CanCreate
    PROVE  /\ \A m \in Inode : Lags(<<"inodes", SectorOf(m)>>)' \/ grown[m] = disk.inodes[m]
           /\ Lags(<<"sbm", 0>>)' \/ used = disk.sbm
           /\ Lags(<<"ibm", 0>>)' \/ inodebm = disk.ibm
           /\ \A s : s = First(inode_table[cwd]) => Lags(<<"data", s>>)'
<1>1. Typed /\ Readable /\ SectorsSafe /\ pending = << >>
  BY DEF Stored, CanCreate, Idle
<1>2. behind' = behind \cup {<<"data", s>> : s \in Range(Sectors(grown[cwd]))}
                       \cup (IF Grows THEN {<<"inodes", SectorOf(cwd)>>, <<"sbm", 0>>} ELSE {})
  BY DEF create_entry
<1>3. ASSUME NEW place, Lags(place) PROVE Lags(place)'
  BY <1>1, <1>2, <1>3, NothingComing, BehindLags DEF Lags
<1>4. ASSUME NEW m \in Inode PROVE Lags(<<"inodes", SectorOf(m)>>)' \/ grown[m] = disk.inodes[m]
  <2>1. PICK place : place = <<"inodes", SectorOf(m)>>
    OBVIOUS
  <2>2. Lags(place) \/ disk.inodes[m] = inode_table[m]
    BY <2>1 DEF Current, InodesCurrent
  <2>3. CASE m # cwd \/ ~ Grows
    <3>1. grown[m] = inode_table[m]
      BY <1>1, <2>3, Growing
    <3> QED BY <1>3, <2>1, <2>2, <3>1
  <2>4. CASE m = cwd /\ Grows
    BY <1>2, <2>1, <2>4, BehindLags
  <2> QED BY <2>3, <2>4
<1>5. Lags(<<"sbm", 0>>)' \/ used = disk.sbm
  <2>1. PICK place : place = <<"sbm", 0>>
    OBVIOUS
  <2>2. Lags(place) \/ disk.sbm = b
    BY <2>1 DEF Current, MapsCurrent
  <2>3. CASE ~ Grows
    BY <1>3, <2>1, <2>2, <2>3 DEF used
  <2>4. CASE Grows
    BY <1>2, <2>1, <2>4, BehindLags
  <2> QED BY <2>3, <2>4
<1>6. Lags(<<"ibm", 0>>)' \/ inodebm = disk.ibm
  <2>1. PICK place : place = <<"ibm", 0>>
    OBVIOUS
  <2>2. Lags(place) \/ disk.ibm = inodebm
    BY <2>1 DEF Current, MapsCurrent
  <2> QED BY <1>3, <2>1, <2>2
<1>7. ASSUME NEW s, s = First(inode_table[cwd]) PROVE Lags(<<"data", s>>)'
  <2>1. grown \in [Inode -> InodeType] /\ cwd \in Inode /\ grown[cwd].dir /\ First(grown[cwd]) = s
    BY <1>1, <1>7, Growing, TypedHas
  <2>2. PICK q : q = Sectors(grown[cwd])
    OBVIOUS
  <2>3. 1 \in DOMAIN q /\ q[1] = s
    BY <2>1, <2>2, InodeHas
  <2>4. s \in Range(q)
    BY <2>3 DEF Range
  <2>5. PICK place : place = <<"data", s>>
    OBVIOUS
  <2>6. place \in behind'
    BY <1>2, <2>2, <2>4, <2>5
  <2> QED BY <2>5, <2>6, BehindLags
<1> QED BY <1>4, <1>5, <1>6, <1>7

LEMMA EntersCurrent ==
    ASSUME Stored, Current, create_entry, NEW name, NEW n, NEW x, NEW more, Enters(name, n, x, more),
           x.dir \/ more = {}
    PROVE  Current'
<1>1. CanCreate /\ pending' = Made(n)' /\ b' = used \cup more
  BY DEF Enters
<1>2. /\ inode_table'[n] = x /\ \A m \in Inode : m # n => inode_table'[m] = grown[m]
      /\ disk' = disk /\ cwd' = cwd /\ n # cwd /\ cwd \in Inode
  BY EntersHas, TypedHas DEF Stored
<1>3. InodesCurrent'
  <2> SUFFICES ASSUME NEW m \in Inode
               PROVE  Lags(<<"inodes", SectorOf(m)>>)' \/ disk'.inodes[m] = inode_table'[m]
    BY DEF InodesCurrent
  <2>1. Lags(<<"inodes", SectorOf(n)>>)'
    BY <1>1, MadeComing
  <2>2. Lags(<<"inodes", SectorOf(m)>>)' \/ grown[m] = disk.inodes[m]
    BY <1>1, CreateLags
  <2> QED BY <1>2, <2>1, <2>2
<1>4. MapsCurrent'
  <2>1. Lags(<<"ibm", 0>>)'
    BY <1>1, MadeComing
  <2>2. CASE x.dir
    <3>1. Lags(<<"sbm", 0>>)'
      BY <1>1, <1>2, <2>2, MadeComing
    <3> QED BY <2>1, <3>1 DEF MapsCurrent
  <2>3. CASE more = {}
    <3>1. Lags(<<"sbm", 0>>)' \/ used = disk.sbm
      BY <1>1, CreateLags
    <3>2. Lags(<<"sbm", 0>>)' \/ b' = disk'.sbm
      BY <1>1, <1>2, <2>3, <3>1
    <3> QED BY <2>1, <3>2 DEF MapsCurrent
  <2> QED BY <2>2, <2>3
<1>5. DirectoryCurrent'
  <2>1. PICK s : s = First(inode_table[cwd])
    OBVIOUS
  <2>2. First(inode_table'[cwd']) = s
    BY <1>1, <1>2, <2>1, Growing, TypedHas DEF Stored
  <2>3. Lags(<<"data", s>>)'
    BY <1>1, <2>1, CreateLags
  <2>4. PICK place : place = <<"data", s>>
    OBVIOUS
  <2>5. Lags(place)'
    BY <2>3, <2>4
  <2> QED BY <2>2, <2>4, <2>5 DEF DirectoryCurrent, Lags, Coming, Place
<1> QED BY <1>3, <1>4, <1>5 DEF Current

-----------------------------------------------------------------------------
(* What the disk has: cd, and a restart.                                   *)

LEMMA NothingCurrent ==
    ASSUME Stored, Current, create_entry, CreateNothing
    PROVE  Current'
<1>1. /\ CanCreate /\ b' = used /\ inode_table' = grown /\ disk' = disk /\ cwd' = cwd /\ inodebm' = inodebm
      /\ cwd \in Inode
  BY TypedHas DEF CreateNothing, Stored
<1>2. InodesCurrent'
  <2> SUFFICES ASSUME NEW m \in Inode
               PROVE  Lags(<<"inodes", SectorOf(m)>>)' \/ disk'.inodes[m] = inode_table'[m]
    BY DEF InodesCurrent
  <2>1. Lags(<<"inodes", SectorOf(m)>>)' \/ grown[m] = disk.inodes[m]
    BY <1>1, CreateLags
  <2> QED BY <1>1, <2>1
<1>3. MapsCurrent'
  <2>1. Lags(<<"sbm", 0>>)' \/ used = disk.sbm
    BY <1>1, CreateLags
  <2>2. Lags(<<"ibm", 0>>)' \/ inodebm = disk.ibm
    BY <1>1, CreateLags
  <2>3. Lags(<<"sbm", 0>>)' \/ disk'.sbm = b'
    BY <1>1, <2>1
  <2>4. Lags(<<"ibm", 0>>)' \/ disk'.ibm = inodebm'
    BY <1>1, <2>2
  <2> QED BY <2>3, <2>4 DEF MapsCurrent
<1>4. DirectoryCurrent'
  <2>1. PICK s : s = First(inode_table[cwd])
    OBVIOUS
  <2>2. First(inode_table'[cwd']) = s
    BY <1>1, <2>1, Growing, TypedHas DEF Stored
  <2>3. Lags(<<"data", s>>)'
    BY <1>1, <2>1, CreateLags
  <2>4. PICK place : place = <<"data", s>>
    OBVIOUS
  <2>5. Lags(place)'
    BY <2>3, <2>4
  <2> QED BY <2>2, <2>4, <2>5 DEF DirectoryCurrent, Lags, Coming, Place
<1> QED BY <1>2, <1>3, <1>4 DEF Current

LEMMA CreateCurrent ==
    ASSUME Stored, Current, create_entry
    PROVE  Current'
<1>1. CASE CreateNothing
  BY <1>1, NothingCurrent
<1>2. ASSUME NEW name \in Name, CreateFile(name) PROVE Current'
  <2>1. PICK n : Enters(name, n, NoInode, {})
    BY <1>2, FileEnters
  <2> QED BY <2>1, EntersCurrent
<1>3. ASSUME NEW name \in Name, CreateDirectory(name) PROVE Current'
  <2>1. PICK n, x, more : Enters(name, n, x, more) /\ x.dir
    BY <1>3, DirectoryEnters
  <2> QED BY <2>1, EntersCurrent
<1> QED BY <1>1, <1>2, <1>3 DEF create_entry

LEMMA CdCurrent ==
    ASSUME Stored, Current, NEW path \in Path, cd(path)
    PROVE  Current'
<1>1. /\ pending = << >> /\ behind' = behind
      /\ UNCHANGED <<disk, b, fifth, inodebm, inode_table, cwd, entries, outgrown>>
  BY DEF cd, Idle, memory
<1>2. ASSUME NEW place, Lags(place) PROVE Lags(place)'
  BY <1>1, <1>2, NothingComing, BehindLags DEF Lags
<1>3. InodesCurrent'
  <2> SUFFICES ASSUME NEW m \in Inode
               PROVE  Lags(<<"inodes", SectorOf(m)>>)' \/ disk'.inodes[m] = inode_table'[m]
    BY DEF InodesCurrent
  <2>1. PICK place : place = <<"inodes", SectorOf(m)>>
    OBVIOUS
  <2>2. Lags(place) \/ disk.inodes[m] = inode_table[m]
    BY <2>1 DEF Current, InodesCurrent
  <2>3. Lags(place)' \/ disk'.inodes[m] = inode_table'[m]
    BY <1>1, <1>2, <2>2
  <2> QED BY <2>1, <2>3
<1>4. MapsCurrent'
  <2>1. PICK p, q : p = <<"sbm", 0>> /\ q = <<"ibm", 0>>
    OBVIOUS
  <2>2. (Lags(p) \/ disk.sbm = b) /\ (Lags(q) \/ disk.ibm = inodebm)
    BY <2>1 DEF Current, MapsCurrent
  <2>3. Lags(p)' \/ disk'.sbm = b'
    BY <1>1, <1>2, <2>2
  <2>4. Lags(q)' \/ disk'.ibm = inodebm'
    BY <1>1, <1>2, <2>2
  <2> QED BY <2>1, <2>3, <2>4 DEF MapsCurrent
<1>5. DirectoryCurrent'
  <2>1. PICK s : s = First(inode_table[cwd])
    OBVIOUS
  <2>2. First(inode_table'[cwd']) = s
    BY <1>1, <2>1
  <2>3. PICK place : place = <<"data", s>>
    OBVIOUS
  <2>4. outgrown \/ Lags(place) \/ disk.data[s] = Chunk(0)
    BY <2>1, <2>3, CurrentIs
  <2>5. Lags(place) => Lags(place)'
    BY <1>2
  <2>6. Chunk(0)' = Chunk(0)
    BY <1>1 DEF Chunk
  <2> QED BY <1>1, <2>2, <2>3, <2>4, <2>5, <2>6 DEF DirectoryCurrent, Lags, Coming, Place
<1> QED BY <1>3, <1>4, <1>5 DEF Current

(* The first sector of a directory that cache_dir has read.                *)
LEMMA FirstChunk ==
    ASSUME NEW block \in Block, \A k \in 0 .. SLOTS - 1 : entries'[k] = block[k]
    PROVE  Chunk(0)' = block
<1>1. DOMAIN block = 0 .. SLOTS - 1 /\ block = [k \in 0 .. SLOTS - 1 |-> block[k]]
  BY DEF Block
<1>2. \A s \in 0 .. SLOTS - 1 : 0 * SLOTS + s = s /\ s < MAX_DIR_ENTRIES
  BY Sizes
<1>3. Chunk(0)' = [s \in 0 .. SLOTS - 1 |-> entries'[s]]
  BY <1>2 DEF Chunk
<1> QED BY <1>1, <1>3

LEMMA CdDoneCurrent ==
    ASSUME Stored, Current, CdDone
    PROVE  Current'
<1>1. /\ pending = << >> /\ goal # << >>
      /\ UNCHANGED <<disk, b, fifth, inodebm, inode_table, pending, outgrown, behind>>
  BY DEF CdDone
<1>2. PICK n \in fd_dir(goal) : IF n = NOWHERE THEN UNCHANGED <<cwd, entries>>
                                ELSE cwd' = n /\ entries' = cache_dir(inode_table[n])
  BY DEF CdDone
<1>3. ASSUME NEW place PROVE Lags(place)' <=> Lags(place)
  BY <1>1 DEF Lags, Coming, Place
<1>4. InodesCurrent'
  <2> SUFFICES ASSUME NEW m \in Inode
               PROVE  Lags(<<"inodes", SectorOf(m)>>)' \/ disk'.inodes[m] = inode_table'[m]
    BY DEF InodesCurrent
  <2>1. PICK place : place = <<"inodes", SectorOf(m)>>
    OBVIOUS
  <2>2. Lags(place) \/ disk.inodes[m] = inode_table[m]
    BY <2>1 DEF Current, InodesCurrent
  <2>3. Lags(place)' \/ disk'.inodes[m] = inode_table'[m]
    BY <1>1, <1>3, <2>2
  <2> QED BY <2>1, <2>3
<1>5. MapsCurrent'
  <2>1. PICK p, q : p = <<"sbm", 0>> /\ q = <<"ibm", 0>>
    OBVIOUS
  <2>2. (Lags(p) \/ disk.sbm = b) /\ (Lags(q) \/ disk.ibm = inodebm)
    BY <2>1 DEF Current, MapsCurrent
  <2>3. Lags(p)' \/ disk'.sbm = b'
    BY <1>1, <1>3, <2>2
  <2>4. Lags(q)' \/ disk'.ibm = inodebm'
    BY <1>1, <1>3, <2>2
  <2> QED BY <2>1, <2>3, <2>4 DEF MapsCurrent
<1>6. DirectoryCurrent'
  <2>1. CASE n = NOWHERE
    <3>1. PICK s : s = First(inode_table[cwd])
      OBVIOUS
    <3>2. First(inode_table'[cwd']) = s
      BY <1>1, <1>2, <2>1, <3>1
    <3>3. PICK place : place = <<"data", s>>
      OBVIOUS
    <3>4. outgrown \/ Lags(place) \/ disk.data[s] = Chunk(0)
      BY <3>1, <3>3, CurrentIs
    <3>5. Lags(place) => Lags(place)'
      BY <1>3
    <3>6. Chunk(0)' = Chunk(0)
      BY <1>2, <2>1 DEF Chunk
    <3> QED BY <1>1, <3>2, <3>3, <3>4, <3>5, <3>6 DEF DirectoryCurrent, Lags, Coming, Place
  <2>2. CASE n # NOWHERE
    <3>1. n \in Known /\ cwd' = n /\ entries' = cache_dir(inode_table[n])
      BY <1>1, <1>2, <2>2, FoundKnown
    <3>2. PICK x : x = inode_table[n]
      OBVIOUS
    <3>3. x \in InodeType /\ x.dir
      BY <3>1, <3>2, TypedHas DEF Stored, Known
    <3>4. PICK block : block = disk.data[First(x)]
      OBVIOUS
    <3>5. block \in Block
      BY <3>3, <3>4, InodeHas, TypedHas DEF Stored
    <3>6. \A k \in 0 .. SLOTS - 1 : cache_dir(x)[k] = block[k]
      BY <3>3, <3>4, CacheIs DEF Stored
    <3>7. \A k \in 0 .. SLOTS - 1 : entries'[k] = block[k]
      BY <3>1, <3>2, <3>6
    <3>8. Chunk(0)' = block
      BY <3>5, <3>7, FirstChunk
    <3>9. disk'.data[First(inode_table'[cwd'])] = block
      BY <1>1, <3>1, <3>2, <3>4
    <3> QED BY <3>8, <3>9 DEF DirectoryCurrent
  <2> QED BY <2>1, <2>2
<1> QED BY <1>4, <1>5, <1>6 DEF Current

LEMMA RestartCurrent ==
    ASSUME Stored, init_fs, failures = 0, errors = 0
    PROVE  Current'
<1>1. /\ disk' = disk /\ inode_table' = disk.inodes /\ b' = disk.sbm /\ inodebm' = disk.ibm
      /\ cwd' = Root /\ entries' = cache_dir(disk.inodes[Root])
  BY DEF init_fs
<1>2. InodesCurrent' /\ MapsCurrent'
  BY <1>1 DEF InodesCurrent, MapsCurrent
<1>3. Restarts
  BY RestartIs
<1>4. Root \in Inode /\ disk.inodes[Root].dir
  BY <1>3, RestartTyped
<1>5. PICK x : x = disk.inodes[Root]
  OBVIOUS
<1>6. x \in InodeType /\ x.dir
  BY <1>4, <1>5, OneSectorHas, TypedHas DEF Stored
<1>7. PICK block : block = disk.data[First(x)]
  OBVIOUS
<1>8. block \in Block
  BY <1>6, <1>7, InodeHas, TypedHas DEF Stored
<1>9. \A k \in 0 .. SLOTS - 1 : cache_dir(x)[k] = block[k]
  BY <1>6, <1>7, CacheIs DEF Stored
<1>10. \A k \in 0 .. SLOTS - 1 : entries'[k] = block[k]
  BY <1>1, <1>5, <1>9
<1>11. Chunk(0)' = block
  BY <1>8, <1>10, FirstChunk
<1>12. disk'.data[First(inode_table'[cwd'])] = block
  BY <1>1, <1>5, <1>7
<1> QED BY <1>2, <1>11, <1>12 DEF Current, DirectoryCurrent

-----------------------------------------------------------------------------
(* What the disk has between two commands.                                 *)

LEMMA InitCurrent ==
    ASSUME Init
    PROVE  Current
<1>1. PICK block : block = Directory(Root, EMPTY)
  OBVIOUS
<1>2. /\ block \in Block /\ disk.data[0] = block /\ disk.sbm = {0} /\ disk.ibm = {Root}
      /\ inode_table = disk.inodes /\ inode_table[Root] = RootInode
      /\ disk.data \in [Sector -> Block]
  <2>1. disk \in [data : [Sector -> Block], inodes : [Inode -> OneSector],
                  sbm : SUBSET Sector, ibm : SUBSET Inode]
    BY <1>1, ImageIs
  <2> QED BY <1>1, <2>1, ImageIs
<1>3. b = {0} /\ inodebm = {Root} /\ cwd = Root /\ entries = cache_dir(RootInode)
  BY DEF Init
<1>4. InodesCurrent /\ MapsCurrent
  BY <1>2, <1>3 DEF InodesCurrent, MapsCurrent
<1>5. RootInode \in InodeType /\ RootInode.dir /\ First(RootInode) = 0
  <2>1. RootInode = [dir |-> TRUE, exts |-> <<[block |-> 0, length |-> 1]>>]
    BY DEF RootInode
  <2> QED BY <2>1, SectorIsNat, OneSectorIs, OneSectorHas
<1>6. \A k \in 0 .. SLOTS - 1 : entries[k] = block[k]
  <2>1. PICK x : x = RootInode
    OBVIOUS
  <2>2. \A k \in 0 .. SLOTS - 1 : cache_dir(x)[k] = disk.data[First(x)][k]
    BY <1>2, <1>5, <2>1, CacheReads
  <2> QED BY <1>2, <1>3, <1>5, <2>1, <2>2
<1>7. Chunk(0) = block
  <2>1. DOMAIN block = 0 .. SLOTS - 1 /\ block = [k \in 0 .. SLOTS - 1 |-> block[k]]
    BY <1>2 DEF Block
  <2>2. \A s \in 0 .. SLOTS - 1 : 0 * SLOTS + s = s /\ s < MAX_DIR_ENTRIES
    BY Sizes
  <2>3. Chunk(0) = [s \in 0 .. SLOTS - 1 |-> entries[s]]
    BY <2>2 DEF Chunk
  <2> QED BY <1>6, <2>1, <2>3
<1>8. DirectoryCurrent
  BY <1>2, <1>3, <1>5, <1>7 DEF DirectoryCurrent
<1> QED BY <1>4, <1>8 DEF Current

LEMMA NextCurrent ==
    ASSUME Stored, Current, [MarkedNext]_vars
    PROVE  Current'
<1>1. CASE MarkedNext
  <2>1. CASE Operation
    <3>1. CASE \E path \in Path : cd(path)
      BY <3>1, CdCurrent
    <3> QED BY <2>1, <3>1, CreateCurrent, CdDoneCurrent DEF Operation
  <2> QED BY <1>1, <2>1, WriteCurrent, RestartCurrent DEF MarkedNext
<1>2. CASE UNCHANGED vars
  <2>1. UNCHANGED <<disk, b, fifth, inodebm, inode_table, cwd, entries, pending, goal, failures, errors, outgrown, behind>>
    BY <1>2 DEF vars, memory, faults
  <2>2. InodesCurrent' /\ MapsCurrent'
    BY <2>1 DEF Current, InodesCurrent, MapsCurrent, Lags, Coming, Place
  <2>3. DirectoryCurrent'
    BY <2>1 DEF Current, DirectoryCurrent, Lags, Coming, Place, Chunk
  <2> QED BY <2>2, <2>3 DEF Current
<1> QED BY <1>1, <1>2

(* No write is left, so that the disk has what is not behind.              *)
LEMMA CurrentDisk ==
    ASSUME Stored, Current, pending = << >>
    PROVE  DiskCurrent
<1>1. ASSUME NEW place, Lags(place) PROVE place \in behind
  BY <1>1, NothingComing DEF Lags
<1>2. ASSUME NEW n \in Inode, <<"inodes", SectorOf(n)>> \notin behind
      PROVE  disk.inodes[n] = inode_table[n]
  BY <1>1, <1>2 DEF Current, InodesCurrent
<1>3. <<"sbm", 0>> \notin behind => disk.sbm = b
  BY <1>1 DEF Current, MapsCurrent
<1>4. <<"ibm", 0>> \notin behind => disk.ibm = inodebm
  BY <1>1 DEF Current, MapsCurrent
<1>5. ASSUME ~ outgrown, NEW k \in DOMAIN flush_dentry, Place(flush_dentry[k]) \notin behind
      PROVE  Written(flush_dentry[k]) = disk
  <2>1. inode_table[cwd] \in OneSector /\ inode_table[cwd].dir
    BY <1>5, TypedHas DEF Stored, Outgrown
  <2>2. PICK q, s : q = Sectors(inode_table[cwd]) /\ s = First(inode_table[cwd])
    OBVIOUS
  <2>3. q = <<s>> /\ s \in Sector
    BY <2>1, <2>2, OneSectorHas
  <2>4. k \in DOMAIN q /\ flush_dentry[k] = WriteData(q[k], Chunk(k - 1))
    BY <1>5, <2>2, FlushIs DEF Stored
  <2>5. k = 1 /\ q[k] = s
    BY <2>3, <2>4
  <2>6. PICK block : block = Chunk(0)
    OBVIOUS
  <2>7. flush_dentry[k] = WriteData(s, block)
    BY <2>4, <2>5, <2>6
  <2>8. <<"data", s>> \notin behind
    BY <1>5, <2>7, PlacesAre
  <2>9. disk.data[s] = block
    BY <1>1, <1>5, <2>2, <2>6, <2>8, CurrentIs
  <2>10. disk \in [data : [Sector -> Block], inodes : [Inode -> OneSector],
                   sbm : SUBSET Sector, ibm : SUBSET Inode]
    BY DEF Stored, Typed
  <2>11. Written(WriteData(s, block)) = [disk EXCEPT !.data[s] = block]
    BY DEF Written, WriteData
  <2>12. [disk EXCEPT !.data[s] = block] = disk
    BY <2>3, <2>9, <2>10
  <2> QED BY <2>7, <2>11, <2>12
<1> QED BY <1>2, <1>3, <1>4, <1>5 DEF DiskCurrent

(* Between two commands the disk is behind the memory where a write was    *)
(* refused or is still to be made, and nowhere else: create_entry queues   *)
(* the bitmaps and the inodes that it changes, cd the entries, and what    *)
(* dskws2 could not write stays behind until its sector is written again.  *)
THEOREM DiskStaysCurrent == MarkedSpec => []DiskCurrent
<1>1. Init => Stored /\ Current
  BY InitTyped, InitReadable, InitCurrent DEF Stored
<1>2. Stored /\ Current /\ [MarkedNext]_vars => Stored' /\ Current'
  BY NextStored, NextCurrent
<1>3. Stored /\ Current => DiskCurrent
  BY CurrentDisk DEF DiskCurrent
<1> QED BY <1>1, <1>2, <1>3, PTL DEF MarkedSpec

-----------------------------------------------------------------------------
(* Directories that lead back: what a step keeps.                          *)

LEMMA StartIs == \A j : Start(j) \in {0, 2} /\ (Start(j) = 2 <=> j = 1)
BY DEF Start

(* What leads back before a step leads back after it.                      *)
Keeps(m) == \A q : Child(m, q) => Child(m, q)'
StepKeeps == \A m \in inodebm : inode_table'[m].dir => inode_table[m].dir /\ Keeps(m)

LEMMA LeadsStays ==
    ASSUME StepKeeps, NEW n, NEW block \in Block, Marked(block), NEW j, Leads(n, block, Start(j))
    PROVE  Leads(n, block, Start(j))'
<1>1. PICK start : start = Start(j) /\ start \in {0, 2}
  BY StartIs
<1>2. DOMAIN block = 0 .. SLOTS - 1
  BY DEF Block
<1>3. ASSUME NEW k \in start .. SLOTS - 1, block[k].name # "", inode_table'[block[k].inode].dir
      PROVE  Child(block[k].inode, n)'
  <2>1. k \in DOMAIN block
    BY <1>1, <1>2
  <2>2. PICK m : m = block[k].inode
    OBVIOUS
  <2>3. m \in inodebm
    BY <1>3, <2>1, <2>2 DEF Marked
  <2>4. inode_table[m].dir /\ Keeps(m)
    BY <1>3, <2>2, <2>3 DEF StepKeeps
  <2>5. Child(m, n)
    BY <1>1, <1>3, <2>2, <2>4 DEF Leads, Subdirectory
  <2>6. Child(m, n)'
    BY <2>4, <2>5 DEF Keeps
  <2> QED BY <2>2, <2>6
<1>4. Leads(n, block, start)'
  BY <1>3 DEF Leads, Subdirectory
<1> QED BY <1>1, <1>4

LEMMA HeldLeads ==
    ASSUME Stored, SectorsLead, NEW n, NEW j, NEW block, Held(n, j, block)
    PROVE  Leads(n, block, Start(j)) /\ block \in Block /\ Marked(block)
<1>1. Typed /\ Readable
  BY DEF Stored
<1>2. Marked(block)
  BY <1>1, HeldSound DEF Sound
<1>3. inode_table[n] \in InodeType /\ inode_table[n].dir
  BY <1>1, TypedHas DEF Held, Known
<1>4. PICK s : s = inode_table[n].exts[j].block
  OBVIOUS
<1>5. s \in Sector /\ block = disk.data[s]
  BY <1>3, <1>4, InodeHas DEF Held
<1>6. block \in Block
  BY <1>1, <1>5, TypedHas
<1>7. Leads(n, block, Start(j))
  BY DEF SectorsLead, Held
<1> QED BY <1>2, <1>6, <1>7

LEMMA HeldStays ==
    ASSUME Stored, SectorsLead, StepKeeps, NEW n, NEW j, NEW block, Held(n, j, block)
    PROVE  Leads(n, block, Start(j))'
BY HeldLeads, LeadsStays

(* Nothing leads anywhere from a sector without entries.                   *)
LEMMA UnnamedLeads ==
    ASSUME NEW n, NEW block, Unnamed(block), NEW j, j = 1 \/ block = Blank
    PROVE  Leads(n, block, Start(j)) /\ Leads(n, block, Start(j))'
<1>1. PICK start : start = Start(j) /\ start \in {0, 2} /\ (start = 2 <=> j = 1)
  BY StartIs
<1>2. ASSUME NEW k \in start .. SLOTS - 1 PROVE block[k].name = ""
  <2>1. CASE start = 2
    BY <2>1 DEF Unnamed
  <2>2. CASE start # 2
    <3>1. block = Blank /\ k \in 0 .. SLOTS - 1
      BY <1>1, <2>2
    <3> QED BY <3>1, BlankIs
  <2> QED BY <2>1, <2>2
<1>3. Leads(n, block, start)
  BY <1>2 DEF Leads, Subdirectory
<1>4. Leads(n, block, start)'
  BY <1>2 DEF Leads, Subdirectory
<1> QED BY <1>1, <1>3, <1>4

LEMMA BlankLeads ==
    ASSUME NEW n, NEW j
    PROVE  Leads(n, Blank, Start(j)) /\ Leads(n, Blank, Start(j))'
<1>1. PICK block : block = Blank
  OBVIOUS
<1>2. Unnamed(block)
  BY <1>1, BlankIs DEF Unnamed
<1> QED BY <1>1, <1>2, UnnamedLeads

LEMMA NothingUnwritten ==
    ASSUME NEW m
    PROVE  /\ pending = << >> \/ goal # << >> => ~ Unwritten(m)
           /\ pending' = << >> \/ goal' # << >> => ~ Unwritten(m)'
BY DEF Unwritten, Creating

LEMMA SectorsLeadNext ==
    ASSUME \A n \in Known' : \A j \in DOMAIN inode_table'[n].exts :
              Settled(n, inode_table[n].exts[j].block)' =>
                 \A block : block = disk'.data[inode_table'[n].exts[j].block] => Leads(n, block, Start(j))'
    PROVE  SectorsLead'
<1> SUFFICES ASSUME NEW n \in Known', NEW j \in DOMAIN inode_table'[n].exts,
                    Settled(n, inode_table[n].exts[j].block)'
             PROVE  Leads(n, disk.data[inode_table[n].exts[j].block], Start(j))'
  BY DEF SectorsLead
<1>1. PICK block : block = disk'.data[inode_table'[n].exts[j].block]
  OBVIOUS
<1>2. Leads(n, block, Start(j))'
  BY <1>1
<1> QED BY <1>1, <1>2

-----------------------------------------------------------------------------
(* Directories that lead back: an entry that is made.                      *)

(* Where a directory leads back to depends on its first sector.            *)
LEMMA KeepsFirst ==
    ASSUME NEW m, ~ Unwritten(m), ~ Unwritten(m)',
           NEW s, s = First(inode_table[m]), s = First(inode_table'[m]),
           \A k \in {0, 1} : disk'.data[s][k] = disk.data[s][k]
    PROVE  Keeps(m)
<1> SUFFICES ASSUME NEW q, Child(m, q) PROVE Child(m, q)'
  BY DEF Keeps
<1>1. disk.data[s][0] = dirent(".", m) /\ disk.data[s][1] = dirent("..", q)
  BY DEF Child, Dots
<1>2. disk'.data[s][0] = dirent(".", m) /\ disk'.data[s][1] = dirent("..", q)
  BY <1>1
<1>3. Child(m, q)' <=> disk'.data[s][0] = dirent(".", m) /\ disk'.data[s][1] = dirent("..", q)
  BY DEF Child, Dots
<1> QED BY <1>2, <1>3

OthersStay(slot) == \A k \in 0 .. MAX_DIR_ENTRIES - 1 : k # slot => entries'[k] = entries[k]
LEMMA PlacedHas ==
    ASSUME NEW slot, NEW name, NEW n, Placed(slot, name, n)
    PROVE  /\ slot \in 2 .. MAX_DIR_ENTRIES - 1 /\ slot # 0 /\ slot # 1
           /\ entries'[slot] = [name |-> name, inode |-> n]
           /\ OthersStay(slot)
<1>1. slot \in 2 .. MAX_DIR_ENTRIES - 1
  BY DEF Placed
<1>2. slot # 0 /\ slot # 1
  BY <1>1, Sizes
<1>3. entries'[slot] = [name |-> name, inode |-> n]
  BY DEF Placed
<1>4. OthersStay(slot)
  BY DEF Placed, OthersStay
<1> QED BY <1>1, <1>2, <1>3, <1>4

LEMMA EntersLinked ==
    ASSUME Stored, Linked, errors = 0, NEW name, NEW n, NEW x, NEW more, Enters(name, n, x, more)
    PROVE  Linked'
<1>1. Typed /\ Readable /\ SectorsSafe /\ CanCreate /\ pending' = Made(n)'
  BY DEF Stored, Enters
<1>2. /\ n \in Inode \ inodebm /\ n # cwd /\ inode_table'[n] = x
      /\ (\A m \in Inode : m # n => inode_table'[m] = grown[m])
      /\ Known' = Known \cup {m \in {n} : x.dir} /\ cwd' = cwd /\ pending = << >> /\ disk' = disk
      /\ inodebm \subseteq Inode /\ cwd \in inodebm /\ Known \subseteq inodebm
  BY EntersHas, TypedHas DEF Stored, Known
<1>3. Dotted /\ Cached /\ EntriesLead /\ SectorsLead
  BY DEF Linked
<1>4. Creating(n)' /\ \A m \in Inode : Creating(m)' => m = n
  BY EntersWriting
<1>5. ASSUME NEW m \in inodebm
      PROVE  /\ ~ Unwritten(m) /\ ~ Unwritten(m)' /\ inode_table'[m].dir = inode_table[m].dir
             /\ inode_table[m].dir => First(inode_table'[m]) = First(inode_table[m])
  <2>1. ~ Unwritten(m) /\ ~ Unwritten(m)'
    BY <1>2, <1>4, <1>5, NothingUnwritten DEF Unwritten
  <2>2. inode_table'[m] = grown[m]
    BY <1>2, <1>5
  <2> QED BY <1>1, <1>2, <1>5, <2>1, <2>2, Growing
<1>6. StepKeeps
  <2> SUFFICES ASSUME NEW m \in inodebm, inode_table'[m].dir PROVE inode_table[m].dir /\ Keeps(m)
    BY DEF StepKeeps
  <2>1. inode_table[m].dir
    BY <1>5
  <2> QED BY <1>2, <1>5, <2>1, KeepsFirst
<1>7. x.dir => Unwritten(n)'
  <2> SUFFICES ASSUME x.dir PROVE Unwritten(n)'
    OBVIOUS
  <2>1. PICK u, v, w, y, z : pending' = <<u, v, w, y, z>>
    BY <1>1, <1>2 DEF Made
  <2>2. Len(<<u, v, w, y, z>>) = 5
    OBVIOUS
  <2>3. Len(pending') = 5
    BY <2>1, <2>2
  <2> QED BY <1>4, <2>3 DEF Unwritten
<1>8. Dotted'
  <2> SUFFICES ASSUME NEW m \in Known', ~ Unwritten(m)'
               PROVE  disk'.data[First(inode_table'[m])][0] = dirent(".", m)
    BY DEF Dotted
  <2>1. m \in Known
    BY <1>2, <1>7
  <2>2. m \in inodebm /\ inode_table[m].dir
    BY <2>1 DEF Known
  <2>3. disk.data[First(inode_table[m])][0] = dirent(".", m)
    BY <1>3, <1>5, <2>1, <2>2 DEF Dotted
  <2> QED BY <1>2, <1>5, <2>2, <2>3
<1>9. PICK slot : Placed(slot, name, n)
  BY EntersSlot
<1>13. slot \in 2 .. MAX_DIR_ENTRIES - 1 /\ slot # 0 /\ slot # 1 /\ OthersStay(slot)
  BY <1>9, PlacedHas
<1>10. Cached'
  <2>1. \A k \in {0, 1} : entries'[k] = entries[k]
    <3>1. {0, 1} \subseteq 0 .. MAX_DIR_ENTRIES - 1
      BY Sizes
    <3> QED BY <1>13, <3>1 DEF OthersStay
  <2>2. First(inode_table'[cwd']) = First(inode_table[cwd])
    BY <1>1, <1>2, <1>5, TypedHas
  <2> QED BY <1>2, <1>3, <2>1, <2>2 DEF Cached
<1>11. EntriesLead'
  <2> SUFFICES ASSUME NEW k \in 2 .. MAX_DIR_ENTRIES - 1, Named(entries'[k]), inode_table'[entries'[k].inode].dir
               PROVE  Child(entries[k].inode, cwd)'
    BY DEF EntriesLead, Subdirectory, Named
  <2>1. CASE k = slot
    <3>1. entries'[k].inode = n
      <4>1. entries'[slot] = [name |-> name, inode |-> n]
        BY <1>9, PlacedHas
      <4> QED BY <2>1, <4>1
    <3>2. Unwritten(n)'
      BY <1>2, <1>7, <3>1
    <3>3. Child(n, cwd)'
      BY <3>2 DEF Child
    <3> QED BY <3>1, <3>3
  <2>2. CASE k # slot
    <3>1. entries'[k] = entries[k] /\ k \in DOMAIN entries
      <4>1. k \in 0 .. MAX_DIR_ENTRIES - 1 /\ DOMAIN entries = 0 .. MAX_DIR_ENTRIES - 1
        BY <1>1, TypedHas
      <4> QED BY <1>13, <2>2, <4>1 DEF OthersStay
    <3>2. PICK m : m = entries[k].inode
      OBVIOUS
    <3>3. m \in inodebm
      BY <1>1, <3>1, <3>2 DEF Readable, Marked, Named
    <3>4. inode_table[m].dir /\ Keeps(m)
      BY <1>6, <3>1, <3>2, <3>3 DEF StepKeeps
    <3>5. Child(m, cwd)
      BY <1>3, <3>1, <3>2, <3>4 DEF EntriesLead, Subdirectory, Named
    <3>6. PICK q : q = cwd
      OBVIOUS
    <3>7. Child(m, q)'
      BY <3>4, <3>5, <3>6 DEF Keeps
    <3> QED BY <1>2, <3>1, <3>2, <3>6, <3>7
  <2> QED BY <2>1, <2>2
<1>12. SectorsLead'
  <2> SUFFICES ASSUME NEW m \in Known', NEW j \in DOMAIN inode_table'[m].exts,
                      Settled(m, inode_table[m].exts[j].block)',
                      NEW block, block = disk'.data[inode_table'[m].exts[j].block]
               PROVE  Leads(m, block, Start(j))'
    BY SectorsLeadNext
  <2>1. block = disk.data[inode_table'[m].exts[j].block]
    BY <1>2
  <2>2. Held(m, j, block) \/ block = Blank
    BY <2>1, EntersHeld
  <2> QED BY <1>3, <1>6, <2>2, HeldStays, BlankLeads
<1> QED BY <1>8, <1>10, <1>11, <1>12 DEF Linked

-----------------------------------------------------------------------------
(* Directories that lead back: create_entry and cd.                        *)

LEMMA NothingLinked ==
    ASSUME Stored, Linked, errors = 0, create_entry, CreateNothing
    PROVE  Linked'
<1>1. Typed /\ Readable /\ SectorsSafe /\ CanCreate
  BY DEF Stored, CreateNothing
<1>2. /\ inode_table' = grown /\ pending = << >> /\ pending' = << >>
      /\ disk' = disk /\ inodebm' = inodebm /\ cwd' = cwd /\ entries' = entries
      /\ inodebm \subseteq Inode /\ cwd \in inodebm
  BY <1>1, TypedHas DEF CreateNothing, CanCreate, Idle
<1>3. Dotted /\ Cached /\ EntriesLead /\ SectorsLead
  BY DEF Linked
<1>4. ASSUME NEW m \in inodebm
      PROVE  /\ ~ Unwritten(m) /\ ~ Unwritten(m)' /\ inode_table'[m].dir = inode_table[m].dir
             /\ inode_table[m].dir => First(inode_table'[m]) = First(inode_table[m])
  BY <1>1, <1>2, <1>4, Growing, NothingUnwritten
<1>5. Known' = Known
  BY <1>2, <1>4 DEF Known
<1>6. StepKeeps
  <2> SUFFICES ASSUME NEW m \in inodebm, inode_table'[m].dir PROVE inode_table[m].dir /\ Keeps(m)
    BY DEF StepKeeps
  <2>1. inode_table[m].dir
    BY <1>4
  <2> QED BY <1>2, <1>4, <2>1, KeepsFirst
<1>7. Dotted'
  <2> SUFFICES ASSUME NEW m \in Known PROVE disk'.data[First(inode_table'[m])][0] = dirent(".", m)
    BY <1>5 DEF Dotted
  <2>1. m \in inodebm /\ inode_table[m].dir
    BY DEF Known
  <2>2. disk.data[First(inode_table[m])][0] = dirent(".", m)
    BY <1>3, <1>4, <2>1 DEF Dotted
  <2> QED BY <1>2, <1>4, <2>1, <2>2
<1>8. Cached'
  <2>1. First(inode_table'[cwd']) = First(inode_table[cwd])
    BY <1>1, <1>2, <1>4, TypedHas
  <2> QED BY <1>2, <1>3, <2>1 DEF Cached
<1>9. EntriesLead'
  <2> SUFFICES ASSUME NEW k \in 2 .. MAX_DIR_ENTRIES - 1, Named(entries[k]), inode_table'[entries[k].inode].dir
               PROVE  Child(entries[k].inode, cwd)'
    BY <1>2 DEF EntriesLead, Subdirectory, Named
  <2>1. PICK m, q : m = entries[k].inode /\ q = cwd
    OBVIOUS
  <2>2. k \in DOMAIN entries
    BY <1>1, TypedHas
  <2>3. m \in inodebm
    BY <1>1, <2>1, <2>2 DEF Readable, Marked, Named
  <2>4. inode_table[m].dir /\ Keeps(m)
    BY <1>6, <2>1, <2>3 DEF StepKeeps
  <2>5. Child(m, q)
    BY <1>3, <2>1, <2>4 DEF EntriesLead, Subdirectory, Named
  <2>6. Child(m, q)'
    BY <2>4, <2>5 DEF Keeps
  <2> QED BY <1>2, <2>1, <2>6
<1>10. SectorsLead'
  <2> SUFFICES ASSUME NEW m \in Known', NEW j \in DOMAIN inode_table'[m].exts,
                      Settled(m, inode_table[m].exts[j].block)',
                      NEW block, block = disk'.data[inode_table'[m].exts[j].block]
               PROVE  Leads(m, block, Start(j))'
    BY SectorsLeadNext
  <2>1. block = disk.data[inode_table'[m].exts[j].block]
    BY <1>2
  <2>2. Held(m, j, block) \/ block = Blank
    BY <2>1, NothingHeld
  <2> QED BY <1>3, <1>6, <2>2, HeldStays, BlankLeads
<1> QED BY <1>7, <1>8, <1>9, <1>10 DEF Linked

LEMMA CreateLinked ==
    ASSUME Stored, Linked, errors = 0, create_entry
    PROVE  Linked'
<1>1. CASE CreateNothing
  BY <1>1, NothingLinked
<1>2. ASSUME NEW name \in Name, CreateFile(name) PROVE Linked'
  <2>1. PICK n : Enters(name, n, NoInode, {})
    BY <1>2, FileEnters
  <2> QED BY <2>1, EntersLinked
<1>3. ASSUME NEW name \in Name, CreateDirectory(name) PROVE Linked'
  <2>1. PICK n, x, more : Enters(name, n, x, more)
    BY <1>3, DirectoryEnters
  <2> QED BY <2>1, EntersLinked
<1> QED BY <1>1, <1>2, <1>3 DEF create_entry

(* Directories and the first two entries on the disk stay as they are.     *)
LEMMA SameKeeps ==
    ASSUME Stored, inodebm' = inodebm, inode_table' = inode_table,
           \A m \in inodebm : /\ ~ Unwritten(m) /\ ~ Unwritten(m)'
                              /\ inode_table[m].dir => \A k \in {0, 1} :
                                   disk'.data[First(inode_table[m])][k] = disk.data[First(inode_table[m])][k]
    PROVE  /\ StepKeeps /\ Known' = Known
           /\ Dotted => Dotted'
<1>1. StepKeeps
  <2> SUFFICES ASSUME NEW m \in inodebm, inode_table[m].dir PROVE Keeps(m)
    BY DEF StepKeeps
  <2>1. PICK s : s = First(inode_table[m])
    OBVIOUS
  <2>2. s = First(inode_table'[m])
    BY <2>1
  <2>3. \A k \in {0, 1} : disk'.data[s][k] = disk.data[s][k]
    BY <2>1
  <2> QED BY <2>1, <2>2, <2>3, KeepsFirst
<1>2. Known' = Known
  BY DEF Known
<1>3. Dotted => Dotted'
  <2> SUFFICES ASSUME Dotted, NEW m \in Known PROVE disk'.data[First(inode_table'[m])][0] = dirent(".", m)
    BY <1>2 DEF Dotted
  <2>1. m \in inodebm /\ inode_table[m].dir
    BY DEF Known
  <2>2. disk.data[First(inode_table[m])][0] = dirent(".", m)
    BY <2>1 DEF Dotted
  <2> QED BY <2>1, <2>2
<1> QED BY <1>1, <1>2, <1>3

LEMMA EntriesLeadStays ==
    ASSUME Stored, EntriesLead, StepKeeps, inode_table' = inode_table, cwd' = cwd, entries' = entries
    PROVE  EntriesLead'
<1> SUFFICES ASSUME NEW k \in 2 .. MAX_DIR_ENTRIES - 1, Named(entries[k]), inode_table[entries[k].inode].dir
             PROVE  Child(entries[k].inode, cwd)'
  BY DEF EntriesLead, Subdirectory, Named
<1>1. PICK m, q : m = entries[k].inode /\ q = cwd
  OBVIOUS
<1>2. k \in DOMAIN entries
  BY TypedHas DEF Stored
<1>3. m \in inodebm
  BY <1>1, <1>2 DEF Stored, Readable, Marked, Named
<1>4. Keeps(m)
  BY <1>1, <1>3 DEF StepKeeps
<1>5. Child(m, q)
  BY <1>1 DEF EntriesLead, Subdirectory, Named
<1>6. Child(m, q)'
  BY <1>4, <1>5 DEF Keeps
<1> QED BY <1>1, <1>6

LEMMA CdLinked ==
    ASSUME Stored, Linked, errors = 0, NEW path \in Path, cd(path)
    PROVE  Linked'
<1>1. /\ pending = << >> /\ goal' # << >>
      /\ UNCHANGED <<disk, b, fifth, inodebm, inode_table, cwd, entries>>
  BY DEF cd, Idle, memory, Path
<1>2. Dotted /\ Cached /\ EntriesLead /\ SectorsLead
  BY DEF Linked
<1>3. \A m : ~ Unwritten(m) /\ ~ Unwritten(m)'
  BY <1>1, NothingUnwritten
<1>4. StepKeeps /\ Known' = Known /\ Dotted'
  BY <1>1, <1>2, <1>3, SameKeeps
<1>5. Cached' /\ EntriesLead'
  BY <1>1, <1>2, <1>4, EntriesLeadStays DEF Cached
<1>6. SectorsLead'
  <2> SUFFICES ASSUME NEW m \in Known', NEW j \in DOMAIN inode_table'[m].exts,
                      Settled(m, inode_table[m].exts[j].block)',
                      NEW block, block = disk'.data[inode_table'[m].exts[j].block]
               PROVE  Leads(m, block, Start(j))'
    BY SectorsLeadNext
  <2>1. m \in Known /\ j \in DOMAIN inode_table[m].exts /\ block = disk.data[inode_table[m].exts[j].block]
    BY <1>1, <1>4
  <2>2. Settled(m, inode_table[m].exts[j].block)
    BY <2>1, CdSettled
  <2>3. Held(m, j, block)
    BY <2>1, <2>2 DEF Held
  <2> QED BY <1>2, <1>4, <2>3, HeldStays
<1> QED BY <1>4, <1>5, <1>6 DEF Linked

-----------------------------------------------------------------------------
(* Directories that lead back: cd reads a directory.                       *)

(* What cd reads in a directory leads back to it.                          *)
LEMMA CacheLeads ==
    ASSUME Stored, SectorsLead, pending = << >>, NEW n \in Known, n # cwd \/ goal # << >>,
           NEW k \in 2 .. MAX_DIR_ENTRIES - 1, NEW e, e = cache_dir(inode_table[n])[k],
           Named(e), inode_table[e.inode].dir
    PROVE  Child(e.inode, n)
<1>1. Typed
  BY DEF Stored
<1>2. PICK x : x = inode_table[n]
  OBVIOUS
<1>3. x \in InodeType /\ x.dir
  BY <1>1, <1>2, TypedHas DEF Known
<1>4. k \in 0 .. MAX_DIR_ENTRIES - 1 /\ k \in Nat /\ k >= 2
  OBVIOUS
<1>5. e = EMPTY \/ \E j, i : From(x, j, i, k) /\ e = disk.data[x.exts[j].block][i]
  BY <1>1, <1>2, <1>3, <1>4, CacheIs
<1>6. ~ Named(EMPTY)
  BY DEF Named, EMPTY
<1>7. PICK j, i : From(x, j, i, k) /\ e = disk.data[x.exts[j].block][i]
  BY <1>5, <1>6
<1>8. PICK s : s = x.exts[j].block
  OBVIOUS
<1>9. Settled(n, s)
  BY NothingComing DEF Settled
<1>10. Leads(n, disk.data[s], Start(j))
  BY <1>2, <1>7, <1>8, <1>9 DEF SectorsLead, From
<1>11. i \in Start(j) .. SLOTS - 1
  <2>1. i \in 0 .. SLOTS - 1 /\ (j = 1 => i = k)
    BY <1>7 DEF From
  <2> QED BY <1>4, <2>1, Sizes DEF Start
<1> QED BY <1>7, <1>8, <1>10, <1>11 DEF Leads, Subdirectory, Named

LEMMA CdDoneLinked ==
    ASSUME Stored, Linked, errors = 0, CdDone
    PROVE  Linked'
<1>1. /\ pending = << >> /\ goal # << >> /\ goal' = << >>
      /\ UNCHANGED <<disk, b, fifth, inodebm, inode_table, pending>>
  BY DEF CdDone
<1>2. PICK n \in fd_dir(goal) : IF n = NOWHERE THEN UNCHANGED <<cwd, entries>>
                                ELSE cwd' = n /\ entries' = cache_dir(inode_table[n])
  BY DEF CdDone
<1>3. Dotted /\ Cached /\ EntriesLead /\ SectorsLead
  BY DEF Linked
<1>4. \A m : ~ Unwritten(m) /\ ~ Unwritten(m)'
  BY <1>1, NothingUnwritten
<1>5. StepKeeps /\ Known' = Known /\ Dotted'
  BY <1>1, <1>3, <1>4, SameKeeps
<1>6. SectorsLead'
  <2> SUFFICES ASSUME NEW m \in Known', NEW j \in DOMAIN inode_table'[m].exts,
                      NEW block, block = disk'.data[inode_table'[m].exts[j].block]
               PROVE  Leads(m, block, Start(j))'
    BY SectorsLeadNext
  <2>1. m \in Known /\ j \in DOMAIN inode_table[m].exts /\ block = disk.data[inode_table[m].exts[j].block]
    BY <1>1, <1>5
  <2>2. Settled(m, inode_table[m].exts[j].block)
    BY <1>1, NothingComing DEF Settled
  <2>3. Held(m, j, block)
    BY <2>1, <2>2 DEF Held
  <2> QED BY <1>3, <1>5, <2>3, HeldStays
<1>7. Cached' /\ EntriesLead'
  <2>1. CASE n = NOWHERE
    <3>1. cwd' = cwd /\ entries' = entries
      BY <1>2, <2>1
    <3> QED BY <1>1, <1>3, <1>5, <3>1, EntriesLeadStays DEF Cached
  <2>2. CASE n # NOWHERE
    <3>1. n \in Known /\ cwd' = n /\ entries' = cache_dir(inode_table[n])
      BY <1>1, <1>2, <2>2, FoundKnown
    <3>2. PICK x : x = inode_table[n]
      OBVIOUS
    <3>3. x \in InodeType /\ x.dir
      BY <3>1, <3>2, TypedHas DEF Stored, Known
    <3>4. Cached'
      <4>1. \A k \in 0 .. SLOTS - 1 : cache_dir(x)[k] = disk.data[First(x)][k]
        BY <3>3, CacheIs DEF Stored
      <4>2. {0, 1} \subseteq 0 .. SLOTS - 1
        BY Sizes
      <4>3. entries' = cache_dir(x) /\ First(inode_table'[cwd']) = First(x)
        BY <1>1, <3>1, <3>2
      <4> QED BY <1>1, <4>1, <4>2, <4>3 DEF Cached
    <3>5. EntriesLead'
      <4> SUFFICES ASSUME NEW k \in 2 .. MAX_DIR_ENTRIES - 1, Named(entries'[k]), inode_table'[entries'[k].inode].dir
                   PROVE  Child(entries[k].inode, cwd)'
        BY DEF EntriesLead, Subdirectory, Named
      <4>1. PICK e, m : e = entries'[k] /\ m = e.inode
        OBVIOUS
      <4>2. e = cache_dir(inode_table[n])[k] /\ Named(e) /\ inode_table[e.inode].dir
        BY <1>1, <3>1, <4>1
      <4>3. Child(m, n)
        BY <1>1, <1>3, <3>1, <4>1, <4>2, CacheLeads
      <4>4. k \in 0 .. MAX_DIR_ENTRIES - 1
        OBVIOUS
      <4>5. m \in inodebm
        BY <1>1, <3>1, <4>1, <4>2, <4>4, NamedMarked, TypedHas DEF Stored, Known
      <4>6. Keeps(m)
        BY <1>1, <1>5, <4>1, <4>2, <4>5 DEF StepKeeps
      <4>7. Child(m, n)'
        BY <4>3, <4>6 DEF Keeps
      <4> QED BY <3>1, <4>1, <4>7
    <3> QED BY <3>4, <3>5
  <2> QED BY <2>1, <2>2
<1> QED BY <1>5, <1>6, <1>7 DEF Linked

-----------------------------------------------------------------------------
(* Directories that lead back: the writes of cd.                           *)

LEMMA ChunkLeads ==
    ASSUME Stored, EntriesLead, NEW k \in Nat, NEW j, j = 1 <=> k = 0
    PROVE  Leads(cwd, Chunk(k), Start(j))
<1>1. PICK start : start = Start(j) /\ start \in {0, 2} /\ (start = 2 <=> k = 0)
  BY StartIs
<1> SUFFICES ASSUME NEW s \in start .. SLOTS - 1, Named(Chunk(k)[s]), inode_table[Chunk(k)[s].inode].dir
             PROVE  Child(Chunk(k)[s].inode, cwd)
  BY <1>1 DEF Leads, Subdirectory, Named
<1>2. s \in 0 .. SLOTS - 1
  BY <1>1
<1>3. Chunk(k)[s] = ChunkEntry(k, s)
  BY <1>2 DEF Chunk, ChunkEntry
<1>4. SLOTS \in Nat /\ SLOTS > 2 /\ MAX_DIR_ENTRIES \in Nat
  BY Sizes
<1>5. PICK i : i = k * SLOTS + s
  OBVIOUS
<1>6. i \in Nat /\ i >= 2
  <2>1. CASE k = 0
    <3>1. s >= 2 /\ k * SLOTS = 0
      BY <1>1, <1>4, <2>1
    <3> QED BY <1>2, <1>4, <1>5, <3>1
  <2>2. CASE k # 0
    <3>1. PICK l \in Nat : k = l + 1
      BY <2>2
    <3>2. k * SLOTS = l * SLOTS + SLOTS /\ l * SLOTS \in Nat
      BY <1>4, <3>1
    <3> QED BY <1>2, <1>4, <1>5, <3>2
  <2> QED BY <2>1, <2>2
<1>7. ~ Named(EMPTY)
  BY DEF Named, EMPTY
<1>8. ChunkEntry(k, s) = IF i < MAX_DIR_ENTRIES THEN entries[i] ELSE EMPTY
  BY <1>5 DEF ChunkEntry
<1>9. i < MAX_DIR_ENTRIES /\ Chunk(k)[s] = entries[i]
  BY <1>3, <1>7, <1>8
<1>10. i \in 2 .. MAX_DIR_ENTRIES - 1
  BY <1>4, <1>6, <1>9
<1> QED BY <1>9, <1>10 DEF EntriesLead, Subdirectory, Named

LEMMA TakesSame ==
    ASSUME Takes
    PROVE  /\ UNCHANGED <<b, fifth, inodebm, inode_table, cwd, entries, goal, failures, errors>>
           /\ Delivers
BY DEF Takes, Delivers

(* What is written to the first sector of the current directory begins as  *)
(* it did.                                                                 *)
LEMMA FlushedFirst ==
    ASSUME Stored, Cached, Takes, NEW k, Flushed(k), NEW s, NEW block, Fits(cwd, k, s, block),
           NEW m \in Inode, inode_table[m].dir, NEW l \in {0, 1}
    PROVE  disk'.data[First(inode_table[m])][l] = disk.data[First(inode_table[m])][l]
<1>1. PICK t : t = First(inode_table[m])
  OBVIOUS
<1>2. inode_table[m] \in InodeType /\ cwd \in Inode /\ inode_table[cwd].dir
  BY TypedHas DEF Stored
<1>3. t \in Sector /\ 1 \in DOMAIN Sectors(inode_table[m]) /\ Sectors(inode_table[m])[1] = t
  BY <1>1, <1>2, InodeHas
<1>4. CASE t # s
  BY <1>1, <1>3, <1>4, DataPut
<1>5. CASE t = s
  <2>1. m = cwd /\ k = 1
    <3>1. PICK v, w : v = Sectors(inode_table[m]) /\ w = Sectors(inode_table[cwd])
      OBVIOUS
    <3>2. 1 \in DOMAIN v /\ k \in DOMAIN w /\ v[1] = w[k]
      BY <1>3, <1>5, <3>1 DEF Fits
    <3>3. m \in DirectoriesOf(inode_table) /\ cwd \in DirectoriesOf(inode_table)
      BY <1>2 DEF DirectoriesOf
    <3>4. OwnSectors(inode_table, b)
      BY DEF Stored, SectorsSafe
    <3>5. \A i \in DOMAIN v : \A j \in DOMAIN w : v[i] = w[j] => m = cwd /\ i = j
      BY <3>1, <3>3, <3>4 DEF OwnSectors
    <3> QED BY <3>2, <3>5
  <2>2. disk'.data[t] = block
    BY <1>3, <1>5, DataPut
  <2>3. block = Chunk(0)
    <3>1. Head(pending) = WriteData(s, block) /\ Head(pending) = WriteData(s, Chunk(0))
      BY <2>1 DEF Fits, Flushed
    <3>2. WriteData(s, block).what = block /\ WriteData(s, Chunk(0)).what = Chunk(0)
      BY DEF WriteData
    <3> QED BY <3>1, <3>2
  <2>4. Chunk(0)[l] = entries[l]
    <3>1. l \in 0 .. SLOTS - 1 /\ 0 * SLOTS + l = l /\ l < MAX_DIR_ENTRIES
      BY Sizes
    <3> QED BY <3>1 DEF Chunk
  <2>5. entries[l] = disk.data[t][l]
    BY <1>1, <2>1 DEF Cached
  <2> QED BY <1>1, <2>2, <2>3, <2>4, <2>5
<1> QED BY <1>4, <1>5

LEMMA FlushedLinked ==
    ASSUME Stored, Linked, errors = 0, Takes, goal # << >>, NEW k, Flushed(k)
    PROVE  Linked'
<1>1. /\ UNCHANGED <<b, fifth, inodebm, inode_table, cwd, entries, goal, failures, errors>>
      /\ Delivers
  BY TakesSame
<1>2. PICK s, block : Fits(cwd, k, s, block)
  BY <1>1, FlushedFits
<1>3. Dotted /\ Cached /\ EntriesLead /\ SectorsLead
  BY DEF Linked
<1>4. \A m : ~ Unwritten(m) /\ ~ Unwritten(m)'
  BY <1>1, NothingUnwritten
<1>5. inodebm \subseteq Inode /\ cwd \in Inode /\ inode_table[cwd].dir /\ inode_table[cwd] \in InodeType
  BY TypedHas DEF Stored
<1>6. ASSUME NEW m \in Inode, inode_table[m].dir, NEW l \in {0, 1}
      PROVE  disk'.data[First(inode_table[m])][l] = disk.data[First(inode_table[m])][l]
  BY <1>2, <1>3, <1>6, FlushedFirst
<1>7. StepKeeps /\ Known' = Known /\ Dotted'
  BY <1>1, <1>3, <1>4, <1>5, <1>6, SameKeeps
<1>8. Cached'
  BY <1>1, <1>3, <1>5, <1>6 DEF Cached
<1>9. EntriesLead'
  BY <1>1, <1>3, <1>7, EntriesLeadStays
<1>10. block = Chunk(k - 1)
  <2>1. Head(pending) = WriteData(s, block) /\ Head(pending) = WriteData(s, Chunk(k - 1))
    BY <1>2 DEF Fits, Flushed
  <2>2. WriteData(s, block).what = block /\ WriteData(s, Chunk(k - 1)).what = Chunk(k - 1)
    BY DEF WriteData
  <2> QED BY <2>1, <2>2
<1>11. k - 1 \in Nat /\ (k = 1 <=> k - 1 = 0)
  <2>1. PICK q : q = Sectors(inode_table[cwd])
    OBVIOUS
  <2>2. q \in Seq(Nat) /\ k \in DOMAIN q
    BY <1>5, <2>1, InodeHas DEF Flushed
  <2> QED BY <2>2
<1>12. block \in Block /\ Marked(block)
  BY <1>2 DEF Fits, Sound
<1>13. SectorsLead'
  <2> SUFFICES ASSUME NEW n \in Known', NEW j \in DOMAIN inode_table'[n].exts,
                      Settled(n, inode_table[n].exts[j].block)',
                      NEW data, data = disk'.data[inode_table'[n].exts[j].block]
               PROVE  Leads(n, data, Start(j))'
    BY SectorsLeadNext
  <2>1. n \in Known /\ j \in DOMAIN inode_table[n].exts /\ data = disk'.data[inode_table[n].exts[j].block]
    BY <1>1, <1>7
  <2>2. Held(n, j, data) \/ (n = cwd /\ (j = 1 <=> k = 1) /\ data = block)
    BY <1>2, <2>1, DataHeld
  <2>3. CASE n = cwd /\ (j = 1 <=> k = 1) /\ data = block
    <3>1. Leads(n, data, Start(j))
      BY <1>3, <1>10, <1>11, <2>3, ChunkLeads
    <3> QED BY <1>7, <1>12, <2>3, <3>1, LeadsStays
  <2> QED BY <1>3, <1>7, <2>2, <2>3, HeldStays
<1> QED BY <1>7, <1>8, <1>9, <1>13 DEF Linked

-----------------------------------------------------------------------------
(* Directories that lead back: the writes of a new inode.                  *)

(* The first sector of a new directory: "." and "..", and no entries.      *)
LEMMA NewBlockDots ==
    ASSUME Linked, errors = 0, Stored, NEW n \in Inode, Creating(n)
    PROVE  Dots(NewBlock(n), n, cwd) /\ Unnamed(NewBlock(n))
<1>1. n # cwd /\ cwd \in Known /\ Newest(n) /\ cwd \in Inode /\ Typed
  BY TypedHas DEF Creating, Newest, Stored, Known
<1>2. ~ Unwritten(cwd)
  BY <1>1, NewestLast DEF Unwritten, Creating
<1>3. PICK here, there, up : here = dirent(".", n) /\ up = entries[0].inode /\ there = dirent("..", up)
  OBVIOUS
<1>4. up = cwd
  <2>1. entries[0] = disk.data[First(inode_table[cwd])][0]
    BY DEF Linked, Cached
  <2>2. disk.data[First(inode_table[cwd])][0] = dirent(".", cwd)
    BY <1>1, <1>2 DEF Linked, Dotted
  <2>3. dirent(".", cwd).inode = cwd
    BY DEF dirent
  <2> QED BY <1>3, <2>1, <2>2, <2>3
<1>5. PICK f : f = NewBlock(n)
  OBVIOUS
<1>6. f = [k \in 0 .. SLOTS - 1 |-> IF k = 0 THEN here ELSE IF k = 1 THEN there ELSE EMPTY]
  BY <1>3, <1>5 DEF NewBlock, Directory
<1>7. 0 \in 0 .. SLOTS - 1 /\ 1 \in 0 .. SLOTS - 1 /\ \A k \in 2 .. SLOTS - 1 : k \in 0 .. SLOTS - 1 /\ k # 0 /\ k # 1
  BY Sizes
<1>8. f[0] = here /\ f[1] = there /\ \A k \in 2 .. SLOTS - 1 : f[k] = EMPTY
  BY <1>6, <1>7
<1>9. Unnamed(f)
  <2>1. EMPTY.name = ""
    BY DEF EMPTY
  <2> QED BY <1>8, <2>1 DEF Unnamed
<1> QED BY <1>3, <1>4, <1>5, <1>8, <1>9 DEF Dots

LEMMA NewDataLinked ==
    ASSUME Stored, Linked, errors = 0, Takes, NEW n \in Inode, Creating(n), inode_table[n].dir, Begun(n)
    PROVE  Linked'
<1>1. /\ UNCHANGED <<b, fifth, inodebm, inode_table, cwd, entries, goal, failures, errors>>
      /\ Delivers
  BY TakesSame
<1>2. PICK s, block : s = First(inode_table[n]) /\ block = NewBlock(n)
  OBVIOUS
<1>3. Fits(n, 1, s, block)
  BY <1>2, NewDataFits
<1>4. Dotted /\ Cached /\ EntriesLead /\ SectorsLead
  BY DEF Linked
<1>5. /\ inodebm \subseteq Inode /\ cwd \in Inode /\ cwd \in inodebm /\ inode_table[cwd].dir
      /\ n # cwd /\ inode_table \in [Inode -> InodeType]
  BY TypedHas DEF Stored, Creating, Newest
<1>6. \A m \in Inode : (Creating(m) => m = n) /\ (Creating(m)' => m = n)
  BY <1>1, CreatingHas
<1>7. Unwritten(n) /\ \A m : ~ Unwritten(m)'
  <2>1. Len(pending) = 5
    BY DEF Begun
  <2>2. Len(pending') = Len(pending) - 1
    BY <1>1, DeliversHas
  <2>3. Len(pending') # 5
    BY <2>1, <2>2
  <2> QED BY <2>1, <2>3 DEF Unwritten
<1>8. ASSUME NEW m \in Inode, inode_table[m].dir, m # n
      PROVE  disk'.data[First(inode_table[m])] = disk.data[First(inode_table[m])]
  <2>1. PICK t : t = First(inode_table[m])
    OBVIOUS
  <2>2. t \in Sector
    BY <1>5, <1>8, <2>1, InodeHas
  <2>3. t # s
    BY <1>2, <1>8, <2>1, FirstOwn
  <2> QED BY <1>3, <2>1, <2>2, <2>3, DataPut
<1>9. disk'.data[s] = block /\ Dots(block, n, cwd) /\ Unnamed(block)
  <2>1. s \in Sector
    BY <1>3 DEF Fits
  <2> QED BY <1>2, <1>3, <2>1, DataPut, NewBlockDots
<1>10. StepKeeps
  <2> SUFFICES ASSUME NEW m \in inodebm, inode_table[m].dir PROVE Keeps(m)
    BY <1>1 DEF StepKeeps
  <2>1. CASE m # n
    <3>1. PICK t : t = First(inode_table[m]) /\ t = First(inode_table'[m])
      BY <1>1
    <3>2. ~ Unwritten(m) /\ ~ Unwritten(m)'
      BY <1>5, <1>6, <1>7, <2>1 DEF Unwritten
    <3>3. disk'.data[t] = disk.data[t]
      BY <1>5, <1>8, <2>1, <3>1
    <3> QED BY <3>1, <3>2, <3>3, KeepsFirst
  <2>2. CASE m = n
    <3> SUFFICES ASSUME NEW q, Child(n, q) PROVE Child(n, q)'
      BY <2>2 DEF Keeps
    <3>1. q = cwd
      BY <1>7 DEF Child
    <3>2. disk'.data[First(inode_table'[n])] = block
      BY <1>1, <1>2, <1>9
    <3>3. Dots(block, n, q)
      BY <1>9, <3>1
    <3>4. ~ Unwritten(n)'
      BY <1>7
    <3> QED BY <3>2, <3>3, <3>4 DEF Child, Dots
  <2> QED BY <2>1, <2>2
<1>11. Known' = Known
  BY <1>1 DEF Known
<1>12. Dotted'
  <2> SUFFICES ASSUME NEW m \in Known PROVE disk'.data[First(inode_table[m])][0] = dirent(".", m)
    BY <1>1, <1>11 DEF Dotted
  <2>1. m \in Inode /\ inode_table[m].dir
    BY <1>5 DEF Known
  <2>2. CASE m = n
    BY <1>2, <1>9, <2>2 DEF Dots
  <2>3. CASE m # n
    <3>1. ~ Unwritten(m)
      BY <1>6, <2>1, <2>3 DEF Unwritten
    <3>2. disk.data[First(inode_table[m])][0] = dirent(".", m)
      BY <1>4, <3>1 DEF Dotted
    <3> QED BY <1>8, <2>1, <2>3, <3>2
  <2> QED BY <2>2, <2>3
<1>13. Cached'
  BY <1>1, <1>4, <1>5, <1>8 DEF Cached
<1>14. EntriesLead'
  BY <1>1, <1>4, <1>10, EntriesLeadStays
<1>15. SectorsLead'
  <2> SUFFICES ASSUME NEW m \in Known', NEW j \in DOMAIN inode_table'[m].exts,
                      Settled(m, inode_table[m].exts[j].block)',
                      NEW data, data = disk'.data[inode_table'[m].exts[j].block]
               PROVE  Leads(m, data, Start(j))'
    BY SectorsLeadNext
  <2>1. m \in Known /\ j \in DOMAIN inode_table[m].exts /\ data = disk'.data[inode_table[m].exts[j].block]
    BY <1>1, <1>11
  <2>2. Held(m, j, data) \/ (m = n /\ (j = 1 <=> 1 = 1) /\ data = block)
    BY <1>3, <2>1, DataHeld
  <2>3. CASE m = n /\ (j = 1 <=> 1 = 1) /\ data = block
    BY <1>9, <2>3, UnnamedLeads
  <2> QED BY <1>4, <1>10, <2>2, <2>3, HeldStays
<1> QED BY <1>12, <1>13, <1>14, <1>15 DEF Linked

LEMMA ElsewhereLinked ==
    ASSUME Stored, Linked, errors = 0, Takes, disk'.data = disk.data, Elsewhere,
           \A m : ~ Unwritten(m) /\ ~ Unwritten(m)'
    PROVE  Linked'
<1>1. /\ UNCHANGED <<b, fifth, inodebm, inode_table, cwd, entries, goal, failures, errors>>
      /\ Delivers
  BY TakesSame
<1>2. Dotted /\ Cached /\ EntriesLead /\ SectorsLead
  BY DEF Linked
<1>3. StepKeeps /\ Known' = Known /\ Dotted'
  BY <1>1, <1>2, SameKeeps
<1>4. Cached'
  BY <1>1, <1>2 DEF Cached
<1>5. EntriesLead'
  BY <1>1, <1>2, <1>3, EntriesLeadStays
<1>6. SectorsLead'
  <2> SUFFICES ASSUME NEW n \in Known', NEW j \in DOMAIN inode_table'[n].exts,
                      Settled(n, inode_table[n].exts[j].block)',
                      NEW data, data = disk'.data[inode_table'[n].exts[j].block]
               PROVE  Leads(n, data, Start(j))'
    BY SectorsLeadNext
  <2>1. n \in Known /\ j \in DOMAIN inode_table[n].exts /\ data = disk.data[inode_table[n].exts[j].block]
    BY <1>1, <1>3
  <2>2. Held(n, j, data)
    BY <2>1, ElsewhereHeld
  <2> QED BY <1>2, <1>3, <2>2, HeldStays
<1> QED BY <1>3, <1>4, <1>5, <1>6 DEF Linked

LEMMA WriteLinked ==
    ASSUME Stored, Linked, dskws2, failures = 0 \/ errors' = errors
    PROVE  Linked'
<1>1. Delivers
  BY DEF dskws2, Delivers, memory
<1>2. Takes \/ Refuses
  BY WriteIs
<1>3. CASE Refuses
  <2>1. errors \in Nat /\ errors' = errors + 1
    BY <1>3 DEF Stored, Typed, Refuses
  <2>2. errors' # 0
    BY <2>1
  <2> QED BY <2>2 DEF Linked
<1>4. CASE Takes
  <2> SUFFICES ASSUME errors = 0 PROVE Linked'
    BY <1>4, TakesSame DEF Linked
  <2>1. CASE goal # << >> /\ \E k : Flushed(k)
    BY <1>4, <2>1, FlushedLinked
  <2>2. CASE \E n \in Inode : Creating(n) /\ Next5(n, Head(pending), Len(pending))
    <3>1. PICK n \in Inode : Creating(n) /\ Next5(n, Head(pending), Len(pending))
      BY <2>2
    <3>2. PICK l : l = Len(pending)
      OBVIOUS
    <3>3. CASE inode_table[n].dir /\ Begun(n)
      BY <1>4, <3>1, <3>3, NewDataLinked
    <3>4. CASE l # 5
      <4>1. l \in Nat /\ Len(pending') = l - 1 /\ l \in {1, 2, 3, 4}
        BY <1>1, <3>1, <3>2, <3>4, DeliversHas DEF Next5
      <4>2. \A m : ~ Unwritten(m) /\ ~ Unwritten(m)'
        <5>1. Len(pending) # 5 /\ Len(pending') # 5
          BY <3>2, <4>1
        <5> QED BY <5>1 DEF Unwritten
      <4>3. \/ Head(pending) = Write("sbm", b)
            \/ Head(pending) = Write("ibm", fifth)
            \/ Head(pending) = Write("ibm", inodebm)
            \/ Ends(n)
        BY <3>1, <3>2, <3>4 DEF Next5, Ends
      <4>4. CASE Ends(n)
        BY <1>4, <3>1, <4>2, <4>4, EndsHas, ElsewhereLinked
      <4>5. ASSUME NEW map, NEW to, to = "sbm" \/ to = "ibm", Head(pending) = Write(to, map)
            PROVE  Linked'
        <5>1. PICK sbm, ibm : Maps(sbm, ibm) /\ Elsewhere
          BY <1>4, <4>5, MapsIs
        <5>2. disk'.data = disk.data
          BY <5>1 DEF Maps, Stored, Typed
        <5> QED BY <1>4, <4>2, <5>1, <5>2, ElsewhereLinked
      <4> QED BY <4>3, <4>4, <4>5
    <3>5. l # 5 \/ (inode_table[n].dir /\ Begun(n))
      BY <3>1, <3>2 DEF Next5, Begun
    <3> QED BY <3>3, <3>4, <3>5
  <2> QED BY <1>1, <2>1, <2>2, DeliversHas
<1> QED BY <1>2, <1>3, <1>4

-----------------------------------------------------------------------------
(* Directories that lead back: a restart, and the image.                   *)

(* A directory on the disk leads back as it does in memory.                *)
LEMMA RestartKeeps ==
    ASSUME Stored, Restarts
    PROVE  /\ StepKeeps
           /\ \A n \in Inode : disk.inodes[n].dir =>
                 /\ n \in Known /\ ~ Unwritten(n) /\ First(disk.inodes[n]) = First(inode_table[n])
                 /\ Held(n, 1, disk.data[First(disk.inodes[n])])
<1>1. failures = 0 /\ errors = 0 /\ Typed /\ Followed
  BY DEF Restarts, Stored
<1>2. ASSUME NEW n \in Inode, disk.inodes[n].dir
      PROVE  /\ n \in Known /\ ~ Unwritten(n) /\ First(disk.inodes[n]) = First(inode_table[n])
             /\ Held(n, 1, disk.data[First(disk.inodes[n])])
  <2>1. n \in Known /\ First(disk.inodes[n]) = First(inode_table[n])
    BY <1>1, <1>2, SavedIs
  <2>2. ~ Unwritten(n)
    <3>1. Creating(n) => disk.inodes[n] = NoInode
      BY <1>1 DEF Followed, Fresh
    <3>2. ~ NoInode.dir
      BY DEF NoInode
    <3> QED BY <1>2, <3>1, <3>2 DEF Unwritten
  <2>3. inode_table[n] \in InodeType /\ inode_table[n].dir
    BY <1>1, <2>1, TypedHas DEF Known
  <2>4. 1 \in DOMAIN inode_table[n].exts
    BY <2>3, InodeHas
  <2>5. Held(n, 1, disk.data[First(disk.inodes[n])])
    BY <1>1, <2>1, <2>4 DEF Held, Settled, First
  <2> QED BY <2>1, <2>2, <2>5
<1>3. StepKeeps
  <2> SUFFICES ASSUME NEW m \in inodebm, inode_table'[m].dir PROVE inode_table[m].dir /\ Keeps(m)
    BY DEF StepKeeps
  <2>1. m \in Inode /\ disk.inodes[m].dir /\ inode_table' = disk.inodes /\ disk' = disk /\ pending' = << >>
    BY <1>1, TypedHas DEF Restarts
  <2>2. ~ Unwritten(m) /\ ~ Unwritten(m)' /\ m \in Known
    BY <1>2, <2>1, NothingUnwritten
  <2>3. First(inode_table'[m]) = First(inode_table[m])
    BY <1>2, <2>1
  <2>4. inode_table[m].dir
    BY <2>2 DEF Known
  <2> QED BY <2>1, <2>2, <2>3, <2>4, KeepsFirst
<1> QED BY <1>2, <1>3

(* With one sector, an entry that cache_dir reads is in that sector.       *)
LEMMA CacheFirst ==
    ASSUME Typed, NEW x \in OneSector, x.dir, NEW k \in 2 .. MAX_DIR_ENTRIES - 1, Named(cache_dir(x)[k])
    PROVE  k \in 2 .. SLOTS - 1 /\ cache_dir(x)[k] = disk.data[First(x)][k]
<1>1. x \in InodeType /\ DOMAIN x.exts = {1}
  <2>1. x.exts = <<[block |-> First(x), length |-> 1]>>
    BY OneSectorHas
  <2>2. PICK r : x.exts = <<r>>
    BY <2>1
  <2>3. x \in InodeType
    BY OneSectorHas
  <2>4. DOMAIN <<r>> = {1}
    OBVIOUS
  <2> QED BY <2>2, <2>3, <2>4
<1>2. k \in 0 .. MAX_DIR_ENTRIES - 1
  OBVIOUS
<1>3. ~ Named(EMPTY)
  BY DEF Named, EMPTY
<1>4. PICK j, i : From(x, j, i, k)
  BY <1>1, <1>2, <1>3, CacheIs
<1>5. k < SLOTS
  BY <1>1, <1>4 DEF From
<1>6. k \in 0 .. SLOTS - 1 /\ k \in 2 .. SLOTS - 1
  BY <1>5, Sizes
<1> QED BY <1>1, <1>6, CacheIs

LEMMA RestartLinked ==
    ASSUME Stored, Linked, init_fs, failures = 0, errors = 0
    PROVE  Linked'
<1>1. Restarts
  BY RestartIs
<1>2. /\ errors = 0 /\ disk' = disk /\ inode_table' = disk.inodes /\ pending' = << >> /\ inodebm' = disk.ibm
      /\ cwd' = Root /\ entries' = cache_dir(disk.inodes[Root])
  BY <1>1 DEF Restarts
<1>3. Dotted /\ SectorsLead /\ Typed
  BY <1>2 DEF Linked, Stored
<1>4. /\ StepKeeps
      /\ \A n \in Inode : disk.inodes[n].dir =>
            /\ n \in Known /\ ~ Unwritten(n) /\ First(disk.inodes[n]) = First(inode_table[n])
            /\ Held(n, 1, disk.data[First(disk.inodes[n])])
  BY <1>1, RestartKeeps
<1>5. /\ Root \in Inode /\ disk.inodes[Root].dir
      /\ Known' = {n \in disk.ibm : disk.inodes[n].dir} /\ disk.ibm \subseteq Inode
      /\ disk.inodes \in [Inode -> OneSector]
  BY <1>1, <1>3, RestartTyped, TypedHas
<1>6. Dotted'
  <2> SUFFICES ASSUME NEW n \in Known' PROVE disk.data[First(disk.inodes[n])][0] = dirent(".", n)
    BY <1>2 DEF Dotted
  <2>1. n \in Inode /\ disk.inodes[n].dir
    BY <1>5
  <2> QED BY <1>3, <1>4, <2>1 DEF Dotted
<1>7. ASSUME NEW n \in Inode, disk.inodes[n].dir, NEW block, block = disk.data[First(disk.inodes[n])]
      PROVE  Leads(n, block, Start(1))'
  <2>1. Held(n, 1, block)
    BY <1>4, <1>7
  <2> QED BY <1>3, <1>4, <2>1, HeldStays
<1>8. PICK x : x = disk.inodes[Root]
  OBVIOUS
<1>9. x \in OneSector /\ x \in InodeType /\ x.dir
  BY <1>5, <1>8, OneSectorHas
<1>10. Cached'
  <2>1. \A k \in 0 .. SLOTS - 1 : cache_dir(x)[k] = disk.data[First(x)][k]
    BY <1>3, <1>9, CacheIs
  <2>2. {0, 1} \subseteq 0 .. SLOTS - 1
    BY Sizes
  <2>3. entries' = cache_dir(x) /\ First(inode_table'[cwd']) = First(x)
    BY <1>2, <1>8
  <2> QED BY <1>2, <2>1, <2>2, <2>3 DEF Cached
<1>11. EntriesLead'
  <2> SUFFICES ASSUME NEW k \in 2 .. MAX_DIR_ENTRIES - 1, Named(entries'[k]), inode_table'[entries'[k].inode].dir
               PROVE  Child(entries[k].inode, cwd)'
    BY DEF EntriesLead, Subdirectory, Named
  <2>1. PICK block, e : block = disk.data[First(x)] /\ e = entries'[k]
    OBVIOUS
  <2>2. k \in 2 .. SLOTS - 1 /\ e = block[k] /\ Named(e)
    BY <1>2, <1>3, <1>8, <1>9, <2>1, CacheFirst
  <2>3. PICK n : n = Root
    OBVIOUS
  <2>4. Leads(n, block, Start(1))'
    BY <1>5, <1>7, <1>8, <2>1, <2>3
  <2>5. Start(1) = 2
    BY DEF Start
  <2>6. Leads(n, block, 2)'
    BY <2>4, <2>5
  <2>7. Child(block[k].inode, n)'
    BY <2>1, <2>2, <2>6 DEF Leads, Subdirectory, Named
  <2> QED BY <1>2, <2>1, <2>2, <2>3, <2>7
<1>12. SectorsLead'
  <2> SUFFICES ASSUME NEW n \in Known', NEW j \in DOMAIN inode_table'[n].exts,
                      NEW block, block = disk'.data[inode_table'[n].exts[j].block]
               PROVE  Leads(n, block, Start(j))'
    BY SectorsLeadNext
  <2>1. n \in Inode /\ disk.inodes[n].dir /\ disk.inodes[n] \in OneSector
    BY <1>5
  <2>2. disk.inodes[n].exts = <<[block |-> First(disk.inodes[n]), length |-> 1]>>
    BY <2>1, OneSectorHas
  <2>3. PICK r : disk.inodes[n].exts = <<r>> /\ r = [block |-> First(disk.inodes[n]), length |-> 1]
    BY <2>2
  <2>4. j = 1 /\ disk.inodes[n].exts[j] = r
    BY <1>2, <2>3
  <2>5. block = disk.data[First(disk.inodes[n])]
    BY <1>2, <2>3, <2>4
  <2> QED BY <1>7, <2>1, <2>4, <2>5
<1> QED BY <1>6, <1>10, <1>11, <1>12 DEF Linked

LEMMA InitLinked ==
    ASSUME Init
    PROVE  Linked
<1>1. PICK block : block = Directory(Root, EMPTY)
  OBVIOUS
<1>2. /\ disk.data[0] = block /\ \A k \in 2 .. SLOTS - 1 : block[k].name = ""
      /\ inode_table[Root] = RootInode
  BY <1>1, ImageIs
<1>3. cwd = Root /\ entries = cache_dir(RootInode) /\ Known = {Root} /\ Typed
  BY InitTyped DEF Init
<1>4. PICK x : x = RootInode
  OBVIOUS
<1>5. x \in OneSector /\ x \in InodeType /\ x.dir /\ First(x) = 0 /\ DOMAIN x.exts = {1} /\ x.exts[1].block = 0
  <2>1. x = [dir |-> TRUE, exts |-> <<[block |-> 0, length |-> 1]>>]
    BY <1>4 DEF RootInode
  <2>2. x \in OneSector /\ x.dir /\ First(x) = 0 /\ DOMAIN x.exts = {1} /\ x.exts[1].block = 0
    BY <2>1, SectorIsNat, OneSectorIs
  <2> QED BY <2>2, OneSectorHas
<1>6. Dotted
  <2>1. PICK here : here = dirent(".", Root)
    OBVIOUS
  <2>2. block = [k \in 0 .. SLOTS - 1 |-> IF k = 0 THEN here ELSE IF k = 1 THEN EMPTY ELSE EMPTY]
    BY <1>1, <2>1 DEF Directory
  <2>3. 0 \in 0 .. SLOTS - 1
    BY Sizes
  <2>4. block[0] = here
    BY <2>2, <2>3
  <2> QED BY <1>2, <1>3, <1>4, <1>5, <2>1, <2>4 DEF Dotted
<1>7. Cached
  <2>1. \A k \in 0 .. SLOTS - 1 : cache_dir(x)[k] = disk.data[First(x)][k]
    BY <1>3, <1>5, CacheIs
  <2>2. {0, 1} \subseteq 0 .. SLOTS - 1
    BY Sizes
  <2> QED BY <1>2, <1>3, <1>4, <2>1, <2>2 DEF Cached
<1>8. Unnamed(block)
  BY <1>2 DEF Unnamed
<1>9. EntriesLead
  <2> SUFFICES ASSUME NEW k \in 2 .. MAX_DIR_ENTRIES - 1, Named(entries[k]) PROVE FALSE
    BY DEF EntriesLead, Subdirectory, Named
  <2>1. k \in 2 .. SLOTS - 1 /\ entries[k] = block[k]
    BY <1>2, <1>3, <1>4, <1>5, CacheFirst
  <2> QED BY <1>8, <2>1 DEF Unnamed, Named
<1>10. SectorsLead
  <2> SUFFICES ASSUME NEW n \in Known, NEW j \in DOMAIN inode_table[n].exts
               PROVE  Leads(n, disk.data[inode_table[n].exts[j].block], Start(j))
    BY DEF SectorsLead
  <2>1. n = Root /\ j = 1 /\ inode_table[n].exts[j].block = 0
    BY <1>2, <1>3, <1>4, <1>5
  <2> QED BY <1>2, <1>8, <2>1, UnnamedLeads
<1> QED BY <1>6, <1>7, <1>9, <1>10 DEF Linked

-----------------------------------------------------------------------------
(* Directories that lead back between two commands.                        *)

LEMMA StutterLinked ==
    ASSUME Stored, Linked, UNCHANGED vars
    PROVE  Linked'
<1>1. UNCHANGED <<disk, b, fifth, inodebm, inode_table, cwd, entries, pending, goal, failures, errors>>
  BY DEF vars, memory, faults
<1>2. SUFFICES ASSUME errors = 0 PROVE Linked'
  BY <1>1 DEF Linked
<1>3. Dotted /\ Cached /\ EntriesLead /\ SectorsLead
  BY <1>2 DEF Linked
<1>4. ASSUME NEW m PROVE Unwritten(m)' <=> Unwritten(m)
  BY <1>1 DEF Unwritten, Creating, Newest
<1>5. Known' = Known
  BY <1>1 DEF Known
<1>6. StepKeeps
  <2> SUFFICES ASSUME NEW m, NEW q, Child(m, q) PROVE Child(m, q)'
    BY <1>1 DEF StepKeeps, Keeps
  <2> QED BY <1>1, <1>4 DEF Child, Dots, First
<1>7. Dotted'
  <2> SUFFICES ASSUME NEW m \in Known, ~ Unwritten(m)
               PROVE  disk'.data[First(inode_table'[m])][0] = dirent(".", m)
    BY <1>4, <1>5 DEF Dotted
  <2> QED BY <1>1, <1>3 DEF Dotted
<1>8. Cached'
  BY <1>1, <1>3 DEF Cached
<1>9. EntriesLead'
  BY <1>1, <1>3, <1>6, EntriesLeadStays
<1>10. SectorsLead'
  <2> SUFFICES ASSUME NEW m \in Known', NEW j \in DOMAIN inode_table'[m].exts,
                      Settled(m, inode_table[m].exts[j].block)',
                      NEW block, block = disk'.data[inode_table'[m].exts[j].block]
               PROVE  Leads(m, block, Start(j))'
    BY SectorsLeadNext
  <2>1. m \in Known /\ j \in DOMAIN inode_table[m].exts /\ block = disk.data[inode_table[m].exts[j].block]
    BY <1>1, <1>5
  <2>2. PICK s : s = inode_table[m].exts[j].block
    OBVIOUS
  <2>3. Settled(m, s)'
    BY <1>1, <2>2
  <2>4. Settled(m, s)
    BY <1>1, <2>3 DEF Settled, Coming
  <2>5. Held(m, j, block)
    BY <2>1, <2>2, <2>4 DEF Held
  <2> QED BY <1>3, <1>6, <2>5, HeldStays
<1> QED BY <1>7, <1>8, <1>9, <1>10 DEF Linked

LEMMA NextLinked ==
    ASSUME Stored, Linked, [MarkedNext]_vars
    PROVE  Linked'
<1>1. CASE Operation
  <2>1. errors' = errors
    BY <1>1 DEF Operation, create_entry, CreateFile, CreateDirectory, CreateNothing, cd, CdDone, faults
  <2>2. CASE errors # 0
    BY <2>1, <2>2 DEF Linked
  <2>3. CASE errors = 0
    <3>1. CASE \E path \in Path : cd(path)
      BY <2>3, <3>1, CdLinked
    <3> QED BY <1>1, <2>3, <3>1, CreateLinked, CdDoneLinked DEF Operation
  <2> QED BY <2>2, <2>3
<1> QED BY <1>1, WriteLinked, RestartLinked, StutterLinked DEF MarkedNext

(* Between two commands every directory that is linked leads back.         *)
LEMMA LinkedParents ==
    ASSUME Stored, Linked, pending = << >>, errors = 0, NEW e \in tree, e.dir
    PROVE  Here(e.is)[0] = dirent(".", e.is) /\ Here(e.is)[1] = dirent("..", e.in)
<1>1. Typed /\ Readable /\ Dotted /\ Cached /\ EntriesLead /\ SectorsLead
  BY DEF Stored, Linked
<1>2. PICK m, n : m = e.is /\ n = e.in
  OBVIOUS
<1>3. m \in inodebm /\ inode_table[m].dir
  BY <1>2, TreeMarked
<1>4. Child(m, n)
  <2>1. CASE e \in Shown(cwd, entries, inode_table)
    <3>1. PICK k \in DOMAIN entries : /\ k >= 2 /\ entries[k].name # ""
                                     /\ e = [in |-> cwd, name |-> entries[k].name, is |-> entries[k].inode,
                                            dir |-> inode_table[entries[k].inode].dir]
      BY <2>1 DEF Shown
    <3>2. k \in 2 .. MAX_DIR_ENTRIES - 1
      <4>1. k \in 0 .. MAX_DIR_ENTRIES - 1 /\ k >= 2
        BY <1>1, <3>1, TypedHas
      <4> QED BY <4>1, Sizes
    <3>3. m = entries[k].inode /\ n = cwd
      BY <1>2, <3>1
    <3>4. Subdirectory(entries[k])
      BY <1>3, <3>1, <3>3 DEF Subdirectory
    <3> QED BY <1>1, <3>2, <3>3, <3>4 DEF EntriesLead
  <2>2. CASE e \in ShownAfterCd(inode_table, DirectoriesOf(inode_table) \ {cwd})
    <3>1. PICK p \in DirectoriesOf(inode_table) \ {cwd} :
              e \in Shown(p, cache_dir(inode_table[p]), inode_table)
      BY <2>2 DEF ShownAfterCd
    <3>2. p \in Inode /\ inode_table[p].dir /\ p # cwd /\ inode_table[p] \in InodeType
      BY <1>1, <3>1, TypedHas DEF DirectoriesOf
    <3>3. PICK c : c = cache_dir(inode_table[p])
      OBVIOUS
    <3>4. PICK k \in DOMAIN c : k >= 2 /\ c[k].name # ""
              /\ e = [in |-> p, name |-> c[k].name, is |-> c[k].inode, dir |-> inode_table[c[k].inode].dir]
      BY <3>1, <3>3 DEF Shown
    <3>5. DOMAIN c = 0 .. MAX_DIR_ENTRIES - 1
      BY <1>1, <3>2, <3>3, CacheIs
    <3>6. k \in 2 .. MAX_DIR_ENTRIES - 1
      <4>1. k \in 0 .. MAX_DIR_ENTRIES - 1 /\ k >= 2
        BY <3>4, <3>5
      <4> QED BY <4>1, Sizes
    <3>7. Named(c[k])
      BY <3>4 DEF Named
    <3>8. m = c[k].inode /\ n = p
      BY <1>2, <3>4
    <3>9. p \in Known
      BY <3>2, <3>3, <3>5, <3>6, <3>7, NamedMarked
    <3>10. inode_table[c[k].inode].dir
      BY <1>3, <3>8
    <3>11. PICK f : f = c[k]
      OBVIOUS
    <3>12. f = cache_dir(inode_table[p])[k] /\ Named(f) /\ inode_table[f.inode].dir
      BY <3>3, <3>7, <3>10, <3>11
    <3>13. Child(f.inode, p)
      BY <1>1, <3>2, <3>6, <3>9, <3>12, CacheLeads
    <3> QED BY <3>8, <3>11, <3>13
  <2> QED BY <2>1, <2>2 DEF tree
<1>5. PICK block : block = disk.data[First(inode_table[m])]
  OBVIOUS
<1>6. block[0] = dirent(".", m) /\ block[1] = dirent("..", n)
  <2>1. ~ Unwritten(m)
    BY NothingUnwritten
  <2> QED BY <1>4, <1>5, <2>1 DEF Child, Dots
<1>7. Here(m)[0] = block[0] /\ Here(m)[1] = block[1]
  <2>1. CASE m = cwd
    BY <1>1, <1>5, <2>1 DEF Here, Cached
  <2>2. CASE m # cwd
    BY <1>5, <2>2 DEF Here, First
  <2> QED BY <2>1, <2>2
<1> QED BY <1>2, <1>6, <1>7

-----------------------------------------------------------------------------
(* What is shown: of a directory, by the shell, and from the disk.         *)

(* What a directory of one sector shows; what all of them show, the        *)
(* current one from memory, and all of them from the disk.                 *)
Item(n, e, inodes) == [in |-> n, name |-> e.name, is |-> e.inode, dir |-> inodes[e.inode].dir]
In(e, n, block, inodes) == \E k \in 2 .. SLOTS - 1 : Named(block[k]) /\ e = Item(n, block[k], inodes)
Rests(e, inodes, data) == \E n \in DirectoriesOf(inodes) : In(e, n, data[First(inodes[n])], inodes)
Lies(e, c, cache, inodes, data) ==
    \/ In(e, c, cache, inodes)
    \/ \E n \in DirectoriesOf(inodes) \ {c} : In(e, n, data[First(inodes[n])], inodes)
CacheOf(data, x) ==
    [k \in 0 .. MAX_DIR_ENTRIES - 1 |->
        IF k \div SLOTS + 1 <= Len(x.exts) THEN data[x.exts[k \div SLOTS + 1].block][k % SLOTS] ELSE EMPTY]
FirstOnly(cache) ==
    DOMAIN cache = 0 .. MAX_DIR_ENTRIES - 1 /\ \A k \in SLOTS .. MAX_DIR_ENTRIES - 1 : ~ Named(cache[k])

LEMMA CacheOfOne ==
    ASSUME NEW data, NEW x \in OneSector, x.dir, NEW c, c = CacheOf(data, x)
    PROVE  FirstOnly(c) /\ \A k \in 0 .. SLOTS - 1 : c[k] = data[First(x)][k]
<1>1. x.exts = <<[block |-> First(x), length |-> 1]>>
  BY OneSectorHas
<1>2. PICK r : x.exts = <<r>> /\ r.block = First(x)
  <2>1. PICK r : r = [block |-> First(x), length |-> 1]
    OBVIOUS
  <2> QED BY <1>1, <2>1
<1>3. Len(x.exts) = 1 /\ x.exts[1].block = First(x)
  BY <1>2
<1>4. ASSUME NEW k \in 0 .. MAX_DIR_ENTRIES - 1
      PROVE  /\ k < SLOTS => c[k] = data[First(x)][k]
             /\ ~ k < SLOTS => c[k] = EMPTY
  <2>1. PICK q \in Nat, i \in 0 .. SLOTS - 1 :
            q = k \div SLOTS /\ i = k % SLOTS /\ (k < SLOTS <=> q = 0) /\ (k < SLOTS => i = k)
    BY k \in Nat, Slots
  <2>2. c[k] = IF q + 1 <= Len(x.exts) THEN data[x.exts[q + 1].block][i] ELSE EMPTY
    BY <2>1 DEF CacheOf
  <2>3. CASE q = 0
    <3>1. k < SLOTS /\ i = k /\ q + 1 = 1
      BY <2>1, <2>3
    <3> QED BY <1>3, <2>2, <3>1
  <2>4. CASE q # 0
    <3>1. ~ k < SLOTS /\ ~ q + 1 <= 1
      BY <2>1, <2>4
    <3> QED BY <1>3, <2>2, <3>1
  <2> QED BY <2>3, <2>4
<1>5. ~ Named(EMPTY)
  BY DEF Named, EMPTY
<1>6. DOMAIN c = 0 .. MAX_DIR_ENTRIES - 1
  BY DEF CacheOf
<1>7. /\ \A k \in SLOTS .. MAX_DIR_ENTRIES - 1 : k \in 0 .. MAX_DIR_ENTRIES - 1 /\ ~ k < SLOTS
      /\ \A k \in 0 .. SLOTS - 1 : k \in 0 .. MAX_DIR_ENTRIES - 1 /\ k < SLOTS
  BY Sizes
<1> QED BY <1>4, <1>5, <1>6, <1>7 DEF FirstOnly

(* What ls shows is what is named in the first sector.                     *)
LEMMA ShownIs ==
    ASSUME NEW n, NEW cache, FirstOnly(cache), NEW inodes, NEW e
    PROVE  e \in Shown(n, cache, inodes) <=> In(e, n, cache, inodes)
<1>1. \A k \in DOMAIN cache : k >= 2 /\ Named(cache[k]) => k \in 2 .. SLOTS - 1
  <2>1. \A k \in 0 .. MAX_DIR_ENTRIES - 1 : k >= 2 => k \in 2 .. SLOTS - 1 \/ k \in SLOTS .. MAX_DIR_ENTRIES - 1
    BY Sizes
  <2> QED BY <2>1 DEF FirstOnly
<1>2. \A k \in 2 .. SLOTS - 1 : k \in DOMAIN cache /\ k >= 2
  <2>1. \A k \in 2 .. SLOTS - 1 : k \in 0 .. MAX_DIR_ENTRIES - 1 /\ k >= 2
    BY Sizes
  <2> QED BY <2>1 DEF FirstOnly
<1>3. e \in Shown(n, cache, inodes) <=>
         \E k \in DOMAIN cache : k >= 2 /\ Named(cache[k]) /\ e = Item(n, cache[k], inodes)
  BY DEF Shown, Named, Item
<1> QED BY <1>1, <1>2, <1>3 DEF In

LEMMA InSame ==
    ASSUME NEW n, NEW block, NEW other, \A k \in 2 .. SLOTS - 1 : block[k] = other[k], NEW inodes, NEW e
    PROVE  In(e, n, block, inodes) <=> In(e, n, other, inodes)
BY DEF In

LEMMA InUnnamed ==
    ASSUME NEW n, NEW block, Unnamed(block), NEW inodes, NEW e
    PROVE  ~ In(e, n, block, inodes)
BY DEF In, Unnamed, Named

LEMMA InKept ==
    ASSUME NEW n, NEW block, NEW inodes, NEW table,
           \A k \in 2 .. SLOTS - 1 : Named(block[k]) => inodes[block[k].inode].dir = table[block[k].inode].dir,
           NEW e
    PROVE  In(e, n, block, inodes) <=> In(e, n, block, table)
BY DEF In, Item

LEMMA CacheShown ==
    ASSUME NEW data, NEW inodes, NEW n, inodes[n] \in OneSector, inodes[n].dir, NEW e
    PROVE  e \in Shown(n, CacheOf(data, inodes[n]), inodes) <=> In(e, n, data[First(inodes[n])], inodes)
<1>1. PICK x, c, block : x = inodes[n] /\ c = CacheOf(data, x) /\ block = data[First(x)]
  OBVIOUS
<1>2. FirstOnly(c) /\ \A k \in 0 .. SLOTS - 1 : c[k] = block[k]
  BY <1>1, CacheOfOne
<1>3. \A k \in 2 .. SLOTS - 1 : k \in 0 .. SLOTS - 1
  BY Sizes
<1>4. In(e, n, c, inodes) <=> In(e, n, block, inodes)
  BY <1>2, <1>3, InSame
<1> QED BY <1>1, <1>2, <1>4, ShownIs

AllShown(D, data, inodes) == UNION {Shown(n, CacheOf(data, inodes[n]), inodes) : n \in D}
LEMMA AllShownIs ==
    ASSUME NEW data, NEW inodes, NEW D, \A n \in D : inodes[n] \in OneSector /\ inodes[n].dir, NEW e
    PROVE  e \in AllShown(D, data, inodes) <=> \E n \in D : In(e, n, data[First(inodes[n])], inodes)
<1>1. e \in AllShown(D, data, inodes) <=> \E n \in D : e \in Shown(n, CacheOf(data, inodes[n]), inodes)
  BY DEF AllShown
<1> QED BY <1>1, CacheShown

(* What the shell sees, and what it will see after a power failure; before *)
(* a step and after it.                                                    *)
LEMMA TreeLies ==
    ASSUME FirstOnly(entries), inode_table \in [Inode -> OneSector], NEW e
    PROVE  e \in tree <=> Lies(e, cwd, entries, inode_table, disk.data)
<1>1. PICK D : D = DirectoriesOf(inode_table) \ {cwd}
  OBVIOUS
<1>2. tree = Shown(cwd, entries, inode_table) \cup AllShown(D, disk.data, inode_table)
  BY <1>1 DEF tree, ShownAfterCd, AllShown, cache_dir, CacheOf
<1>3. \A n \in D : inode_table[n] \in OneSector /\ inode_table[n].dir
  BY <1>1 DEF DirectoriesOf
<1>4. e \in AllShown(D, disk.data, inode_table) <=> \E n \in D : In(e, n, disk.data[First(inode_table[n])], inode_table)
  BY <1>3, AllShownIs
<1> QED BY <1>1, <1>2, <1>4, ShownIs DEF Lies

LEMMA TreeLiesNext ==
    ASSUME FirstOnly(entries'), inode_table' \in [Inode -> OneSector], NEW e
    PROVE  e \in tree' <=> Lies(e, cwd', entries', inode_table', disk'.data)
<1>1. PICK D : D = DirectoriesOf(inode_table') \ {cwd'}
  OBVIOUS
<1>2. tree' = Shown(cwd', entries', inode_table') \cup AllShown(D, disk'.data, inode_table')
  BY <1>1 DEF tree, ShownAfterCd, AllShown, cache_dir, CacheOf, Shown, DirectoriesOf
<1>3. \A n \in D : inode_table'[n] \in OneSector /\ inode_table'[n].dir
  BY <1>1 DEF DirectoriesOf
<1>4. e \in AllShown(D, disk'.data, inode_table')
         <=> \E n \in D : In(e, n, disk'.data[First(inode_table'[n])], inode_table')
  BY <1>3, AllShownIs
<1>5. e \in Shown(cwd', entries', inode_table') <=> In(e, cwd', entries', inode_table')
  BY ShownIs
<1> QED BY <1>1, <1>2, <1>4, <1>5 DEF Lies

LEMMA SavedRests ==
    ASSUME disk.inodes \in [Inode -> OneSector], NEW e
    PROVE  e \in saved <=> Rests(e, disk.inodes, disk.data)
<1>1. PICK D : D = DirectoriesOf(disk.inodes)
  OBVIOUS
<1>2. saved = AllShown(D, disk.data, disk.inodes)
  BY <1>1 DEF saved, ShownAfterCd, AllShown, cache_dir, CacheOf
<1>3. \A n \in D : disk.inodes[n] \in OneSector /\ disk.inodes[n].dir
  BY <1>1 DEF DirectoriesOf
<1>4. e \in AllShown(D, disk.data, disk.inodes) <=> \E n \in D : In(e, n, disk.data[First(disk.inodes[n])], disk.inodes)
  BY <1>3, AllShownIs
<1> QED BY <1>1, <1>2, <1>4 DEF Rests

LEMMA SavedRestsNext ==
    ASSUME disk'.inodes \in [Inode -> OneSector], NEW e
    PROVE  e \in saved' <=> Rests(e, disk'.inodes, disk'.data)
<1>1. PICK D : D = DirectoriesOf(disk'.inodes)
  OBVIOUS
<1>2. saved' = AllShown(D, disk'.data, disk'.inodes)
  BY <1>1 DEF saved, ShownAfterCd, AllShown, cache_dir, CacheOf, Shown, DirectoriesOf
<1>3. \A n \in D : disk'.inodes[n] \in OneSector /\ disk'.inodes[n].dir
  BY <1>1 DEF DirectoriesOf
<1>4. e \in AllShown(D, disk'.data, disk'.inodes)
         <=> \E n \in D : In(e, n, disk'.data[First(disk'.inodes[n])], disk'.inodes)
  BY <1>3, AllShownIs
<1> QED BY <1>1, <1>2, <1>4 DEF Rests

-----------------------------------------------------------------------------
(* What is shown: what the disk has, the memory has.                       *)

LEMMA WholeHas ==
    ASSUME Stored, Kept, errors = 0, ~ outgrown
    PROVE  /\ SavedAbove /\ FreeUnnamed /\ OneShown /\ Ahead /\ Saving /\ NewestApart
           /\ inode_table \in [Inode -> OneSector] /\ disk.inodes \in [Inode -> OneSector]
           /\ disk.data \in [Sector -> Block] /\ disk.sbm \subseteq b /\ FirstOnly(entries)
           /\ cwd \in Inode /\ inode_table[cwd].dir
           /\ \A n \in Inode : ~ Creating(n) => Same(n)
<1>1. Typed /\ Outgrown /\ Followed
  BY DEF Stored
<1>2. SavedAbove /\ FreeUnnamed /\ OneShown /\ Ahead /\ Saving /\ NewestApart
  BY DEF Kept
<1>3. inode_table \in [Inode -> OneSector]
  <2>1. inode_table \in [Inode -> InodeType] /\ \A n \in Inode : inode_table[n] \in OneSector
    BY <1>1, TypedHas DEF Outgrown
  <2> QED BY <2>1
<1>4. FirstOnly(entries)
  <2>1. DOMAIN entries = 0 .. MAX_DIR_ENTRIES - 1
    BY <1>1, TypedHas
  <2> QED BY <1>2, <2>1 DEF FirstOnly, OneShown, Named
<1>5. disk.sbm \subseteq b /\ \A n \in Inode : ~ Creating(n) => Same(n)
  BY <1>1 DEF Followed
<1> QED BY <1>1, <1>2, <1>3, <1>4, <1>5, TypedHas

LEMMA BlockOf ==
    ASSUME NEW inodes \in [Inode -> OneSector], NEW n \in Inode, inodes[n].dir,
           NEW data \in [Sector -> Block]
    PROVE  /\ First(inodes[n]) \in Sector
           /\ \A k \in 0 .. SLOTS - 1 : data[First(inodes[n])][k].inode \in Inode
<1>1. First(inodes[n]) \in Sector
  BY OneSectorHas
<1> QED BY <1>1 DEF Block

(* The disk has no entry that memory has not.                              *)
LEMMA SavedTree ==
    ASSUME Stored, Kept, errors = 0, ~ outgrown, NEW e \in saved
    PROVE  e \in tree
<1>1. /\ Ahead /\ NewestApart /\ inode_table \in [Inode -> OneSector] /\ disk.inodes \in [Inode -> OneSector]
      /\ disk.data \in [Sector -> Block] /\ FirstOnly(entries)
      /\ \A n \in Inode : ~ Creating(n) => Same(n)
  BY WholeHas
<1>2. PICK n \in DirectoriesOf(disk.inodes) : In(e, n, disk.data[First(disk.inodes[n])], disk.inodes)
  BY <1>1, SavedRests DEF Rests
<1>3. n \in Inode /\ disk.inodes[n].dir
  BY <1>2 DEF DirectoriesOf
<1>4. ~ Creating(n)
  <2>1. Creating(n) => Unnamed(disk.data[First(disk.inodes[n])])
    BY <1>1, <1>3 DEF NewestApart
  <2> QED BY <1>2, <2>1, InUnnamed
<1>5. inode_table[n].dir /\ First(disk.inodes[n]) = First(inode_table[n])
  BY <1>1, <1>3, <1>4 DEF Same
<1>6. PICK block : block = disk.data[First(inode_table[n])]
  OBVIOUS
<1>7. PICK k \in 2 .. SLOTS - 1 : Named(block[k]) /\ e = Item(n, block[k], disk.inodes)
  BY <1>2, <1>5, <1>6 DEF In
<1>8. PICK i : i = block[k].inode
  OBVIOUS
<1>9. i \in Inode /\ e.is = i
  <2>1. k \in 0 .. SLOTS - 1
    BY Sizes
  <2>2. i \in Inode
    BY <1>1, <1>3, <1>5, <1>6, <1>8, <2>1, BlockOf
  <2> QED BY <1>7, <1>8, <2>2 DEF Item
<1>10. disk.inodes[i].dir = inode_table[i].dir
  <2>1. ~ Creating(i)
    BY <1>1, <1>9 DEF NewestApart
  <2> QED BY <1>1, <1>9, <2>1 DEF Same
<1>11. e = Item(n, block[k], inode_table)
  BY <1>7, <1>8, <1>10 DEF Item
<1>12. CASE n = cwd
  <2>1. entries[k] = block[k]
    BY <1>1, <1>6, <1>7, <1>12 DEF Ahead, OnDisk, Named
  <2>2. In(e, cwd, entries, inode_table)
    BY <1>7, <1>11, <1>12, <2>1 DEF In
  <2> QED BY <1>1, <2>2, TreeLies DEF Lies
<1>13. CASE n # cwd
  <2>1. n \in DirectoriesOf(inode_table) \ {cwd}
    BY <1>3, <1>5, <1>13 DEF DirectoriesOf
  <2>2. In(e, n, disk.data[First(inode_table[n])], inode_table)
    BY <1>6, <1>7, <1>11 DEF In
  <2> QED BY <1>1, <2>1, <2>2, TreeLies DEF Lies
<1> QED BY <1>12, <1>13

(* Once the current directory has been written, the disk has them all.     *)
LEMMA TreeRests ==
    ASSUME Stored, Kept, errors = 0, ~ outgrown, goal # << >>, pending = << >>, NEW e
    PROVE  /\ e \in tree <=> Rests(e, inode_table, disk.data)
           /\ e \in tree <=> e \in saved
<1>1. /\ Saving /\ inode_table \in [Inode -> OneSector] /\ disk.inodes \in [Inode -> OneSector]
      /\ disk.data \in [Sector -> Block] /\ FirstOnly(entries) /\ cwd \in Inode /\ inode_table[cwd].dir
      /\ \A n \in Inode : ~ Creating(n) => Same(n)
  BY WholeHas
<1>2. \A n \in Inode : Same(n)
  BY <1>1 DEF Creating
<1>3. DirectoriesOf(disk.inodes) = DirectoriesOf(inode_table) /\ cwd \in DirectoriesOf(inode_table)
  BY <1>1, <1>2 DEF DirectoriesOf, Same
<1>4. \A k \in 2 .. SLOTS - 1 : entries[k] = disk.data[First(inode_table[cwd])][k]
  BY <1>1 DEF Saving, OnDisk
<1>5. PICK block : block = disk.data[First(inode_table[cwd])]
  OBVIOUS
<1>6. In(e, cwd, entries, inode_table) <=> In(e, cwd, block, inode_table)
  BY <1>4, <1>5, InSame
<1>7. e \in tree <=> Rests(e, inode_table, disk.data)
  <2>1. e \in tree <=> Lies(e, cwd, entries, inode_table, disk.data)
    BY <1>1, TreeLies
  <2> QED BY <1>3, <1>5, <1>6, <2>1 DEF Lies, Rests
<1>8. ASSUME NEW n \in DirectoriesOf(inode_table)
      PROVE  In(e, n, disk.data[First(disk.inodes[n])], disk.inodes)
               <=> In(e, n, disk.data[First(inode_table[n])], inode_table)
  <2>1. n \in Inode /\ inode_table[n].dir /\ First(disk.inodes[n]) = First(inode_table[n])
    BY <1>2 DEF DirectoriesOf, Same
  <2>2. PICK own : own = disk.data[First(inode_table[n])]
    OBVIOUS
  <2>3. \A k \in 2 .. SLOTS - 1 : own[k].inode \in Inode
    <3>1. \A k \in 2 .. SLOTS - 1 : k \in 0 .. SLOTS - 1
      BY Sizes
    <3>2. \A k \in 0 .. SLOTS - 1 : own[k].inode \in Inode
      BY <1>1, <2>1, <2>2, BlockOf
    <3> QED BY <3>1, <3>2
  <2>4. \A k \in 2 .. SLOTS - 1 : disk.inodes[own[k].inode].dir = inode_table[own[k].inode].dir
    BY <1>2, <2>3 DEF Same
  <2>5. In(e, n, own, disk.inodes) <=> In(e, n, own, inode_table)
    BY <2>4, InKept
  <2> QED BY <2>1, <2>2, <2>5
<1>9. e \in saved <=> Rests(e, inode_table, disk.data)
  <2>1. e \in saved <=> Rests(e, disk.inodes, disk.data)
    BY <1>1, SavedRests
  <2> QED BY <1>3, <1>8, <2>1 DEF Rests
<1> QED BY <1>7, <1>9

-----------------------------------------------------------------------------
(* The promise of DirTree: steps that show nothing.                        *)

(* What a step has to show: that it keeps Kept, and that the shell sees a  *)
(* step of DirTree or none, unless a directory has outgrown its sector or  *)
(* a write was refused.                                                    *)
Quiet == UNCHANGED <<tree, saved, cwd>>
Promised == Kept' /\ (outgrown' \/ errors' > 0 \/ Tree!Next \/ Quiet)

LEMMA NotWhole ==
    ASSUME Stored', errors' # 0 \/ outgrown'
    PROVE  Promised
<1>1. errors' \in Nat
  BY DEF Stored, Typed
<1>2. errors' # 0 => errors' > 0
  BY <1>1
<1> QED BY <1>2 DEF Promised, Kept

LEMMA SavedSame ==
    ASSUME disk' = disk
    PROVE  saved' = saved
BY DEF saved, ShownAfterCd, cache_dir, Shown, DirectoriesOf

LEMMA TreeSame ==
    ASSUME disk' = disk, inode_table' = inode_table, cwd' = cwd, entries' = entries
    PROVE  tree' = tree
BY DEF tree, ShownAfterCd, cache_dir, Shown, DirectoriesOf

LEMMA SameKept ==
    ASSUME Kept, UNCHANGED <<disk, inode_table, cwd, entries, errors, outgrown>>,
           \A n \in Inode : Creating(n)' => Creating(n),
           goal' # << >> /\ pending' = << >> => goal # << >> /\ pending = << >>
    PROVE  Kept' /\ Quiet
<1>1. tree' = tree /\ saved' = saved
  BY SavedSame, TreeSame
<1>2. SUFFICES ASSUME errors = 0, ~ outgrown PROVE Kept'
  BY <1>1 DEF Kept, Quiet
<1>3. SavedAbove /\ FreeUnnamed /\ OneShown /\ Ahead /\ Saving /\ NewestApart
  BY <1>2 DEF Kept
<1>4. SavedAbove'
  BY <1>1, <1>3 DEF SavedAbove, SavedDirectory
<1>5. FreeUnnamed' /\ OneShown' /\ Ahead'
  BY <1>3 DEF FreeUnnamed, OneShown, Ahead, OnDisk, First, Unnamed
<1>6. Saving'
  BY <1>3 DEF Saving, OnDisk, First
<1>7. NewestApart'
  BY <1>1, <1>3 DEF NewestApart, First, Unnamed
<1> QED BY <1>4, <1>5, <1>6, <1>7 DEF Kept

LEMMA StutterKept ==
    ASSUME Kept, UNCHANGED vars
    PROVE  Kept' /\ Quiet
<1>1. UNCHANGED <<disk, inodebm, inode_table, cwd, entries, pending, goal, errors, outgrown>>
  BY DEF vars, memory, faults
<1>2. \A n \in Inode : Creating(n)' => Creating(n)
  BY <1>1 DEF Creating, Newest
<1> QED BY <1>1, <1>2, SameKept

LEMMA CdKept ==
    ASSUME Stored, Kept, NEW path \in Path, cd(path)
    PROVE  Kept' /\ Quiet
<1>1. /\ UNCHANGED <<disk, inode_table, cwd, entries, errors, outgrown>>
      /\ goal' = path /\ pending' = flush_dentry
  BY DEF cd, memory, faults
<1>2. path # << >>
  BY DEF Path
<1>3. pending' # << >>
  <2>1. Typed /\ inode_table[cwd] \in InodeType /\ inode_table[cwd].dir
    BY TypedHas DEF Stored
  <2>2. 1 \in DOMAIN flush_dentry
    BY <2>1, FlushIs, InodeHas
  <2> QED BY <1>1, <2>2
<1>4. \A n \in Inode : ~ Creating(n)'
  BY <1>1, <1>2 DEF Creating
<1> QED BY <1>1, <1>3, <1>4, SameKept

LEMMA NothingPromised ==
    ASSUME Stored, Stored', Kept, create_entry, CreateNothing
    PROVE  Promised
<1>1. CASE outgrown'
  BY <1>1, NotWhole
<1>2. CASE ~ outgrown'
  <2>1. ~ outgrown /\ ~ Grows /\ outgrown \in BOOLEAN
    BY <1>2 DEF create_entry, Stored, Typed
  <2>2. outgrown' = outgrown
    BY <1>2, <2>1 DEF create_entry
  <2>3. inode_table' = inode_table
    BY <2>1 DEF CreateNothing, grown
  <2>4. UNCHANGED <<disk, inodebm, cwd, entries, pending, goal, errors>>
    BY DEF CreateNothing, faults
  <2>5. \A n \in Inode : Creating(n)' => Creating(n)
    BY <2>4 DEF Creating, Newest
  <2>6. Kept' /\ Quiet
    BY <2>2, <2>3, <2>4, <2>5, SameKept
  <2> QED BY <2>6 DEF Promised
<1> QED BY <1>1, <1>2

-----------------------------------------------------------------------------
(* The promise of DirTree: an entry in the first sector.                   *)

(* An entry in the first sector: nothing is in the sectors of its inode,   *)
(* and the entries that there are lead to other inodes.                    *)
Plain(slot, n, x) ==
    /\ slot \in 2 .. SLOTS - 1 /\ n \in Inode /\ n # Root /\ n # cwd
    /\ inode_table' \in [Inode -> OneSector] /\ inode_table'[n] = x
    /\ \A m \in Inode : m # n => inode_table'[m] = inode_table[m]
    /\ x.dir => Unnamed(disk.data[First(x)])
    /\ \A inodes \in {disk.inodes, inode_table} : inodes[n].dir => Unnamed(disk.data[First(inodes[n])])
    /\ \A e \in tree : e.is # n
    /\ disk' = disk /\ cwd' = cwd /\ goal' = << >> /\ errors = 0 /\ errors' = 0 /\ ~ outgrown

LEMMA EntersPlain ==
    ASSUME Stored, Kept, NEW name, NEW n, NEW x, NEW more, Enters(name, n, x, more),
           errors' = 0, ~ outgrown'
    PROVE  \E slot : Plain(slot, n, x) /\ Placed(slot, name, n)
<1>1. PICK slot : Placed(slot, name, n)
  BY EntersSlot
<1>2. /\ n \in Inode \ inodebm /\ n # cwd /\ n # Root /\ inode_table'[n] = x /\ inode_table' \in [Inode -> InodeType]
      /\ \A m \in Inode : m # n => inode_table'[m] = grown[m]
      /\ cwd' = cwd /\ goal' = << >> /\ pending = << >> /\ disk' = disk /\ errors' = errors
  BY EntersHas
<1>3. ~ Grows /\ ~ outgrown /\ outgrown \in BOOLEAN
  BY DEF Enters, Stored, Typed
<1>4. grown = inode_table /\ used = b
  BY <1>3 DEF grown, used
<1>5. /\ FreeUnnamed /\ inode_table \in [Inode -> OneSector] /\ disk.sbm \subseteq b
      /\ cwd \in Inode /\ inode_table[cwd].dir
      /\ \A m \in Inode : ~ Creating(m) => Same(m)
  BY <1>2, <1>3, WholeHas
<1>6. slot \in 2 .. SLOTS - 1
  <2>1. PICK y : y = inode_table[cwd]
    OBVIOUS
  <2>2. y.exts = <<[block |-> First(y), length |-> 1]>>
    BY <1>5, <2>1, OneSectorHas
  <2>3. PICK r : y.exts = <<r>>
    BY <2>2
  <2>4. Len(y.exts) = 1
    BY <2>3
  <2>5. ~ slot >= 1 * SLOTS
    BY <1>1, <1>3, <2>1, <2>4 DEF Grows, Placed
  <2>6. slot \in 2 .. MAX_DIR_ENTRIES - 1
    BY <1>1, PlacedHas
  <2>7. slot \in Nat /\ slot >= 2
    BY <2>6, Sizes
  <2> QED BY <2>5, <2>7, Sizes
<1>7. inode_table' \in [Inode -> OneSector]
  <2>1. x \in OneSector
    BY DEF Enters
  <2>2. \A m \in Inode : inode_table'[m] \in OneSector
    BY <1>2, <1>4, <1>5, <2>1
  <2> QED BY <1>2, <2>2
<1>8. x.dir => Unnamed(disk.data[First(x)])
  <2>1. x.dir => First(x) \in Sector \ b
    BY <1>4 DEF Enters
  <2> QED BY <1>5, <2>1 DEF FreeUnnamed
<1>9. inode_table[n].dir => Unnamed(disk.data[First(inode_table[n])])
  BY <1>2 DEF Stored, Readable, Orphan
<1>10. Same(n)
  BY <1>2, <1>5 DEF Creating
<1>11. disk.inodes[n].dir => Unnamed(disk.data[First(disk.inodes[n])])
  BY <1>9, <1>10 DEF Same
<1>12. \A e \in tree : e.is # n
  BY <1>2, TreeMarked
<1> QED BY <1>1, <1>2, <1>3, <1>4, <1>6, <1>7, <1>8, <1>9, <1>11, <1>12 DEF Plain

(* What ls shows in the other directories stays.                           *)
LEMMA PlainElsewhere ==
    ASSUME Stored, Kept, NEW slot, NEW n, NEW x, Plain(slot, n, x), NEW m \in Inode, m # cwd, NEW e
    PROVE  /\ m \in DirectoriesOf(inode_table') /\ In(e, m, disk.data[First(inode_table'[m])], inode_table')
           <=> /\ m \in DirectoriesOf(inode_table) /\ In(e, m, disk.data[First(inode_table[m])], inode_table)
<1>1. CASE m = n
  <2>1. inode_table'[m].dir => Unnamed(disk.data[First(inode_table'[m])])
    BY <1>1 DEF Plain
  <2>2. inode_table[m].dir => Unnamed(disk.data[First(inode_table[m])])
    BY <1>1 DEF Plain
  <2> QED BY <2>1, <2>2, InUnnamed DEF DirectoriesOf
<1>2. CASE m # n
  <2>1. inode_table'[m] = inode_table[m]
    BY <1>2 DEF Plain
  <2>2. SUFFICES ASSUME m \in DirectoriesOf(inode_table)
                 PROVE  In(e, m, disk.data[First(inode_table[m])], inode_table')
                          <=> In(e, m, disk.data[First(inode_table[m])], inode_table)
    BY <2>1 DEF DirectoriesOf
  <2>3. PICK block : block = disk.data[First(inode_table[m])]
    OBVIOUS
  <2>4. /\ inode_table \in [Inode -> OneSector] /\ disk.data \in [Sector -> Block] /\ FirstOnly(entries)
        /\ inode_table[m].dir
    BY <2>2, WholeHas DEF Plain, DirectoriesOf
  <2>5. ASSUME NEW k \in 2 .. SLOTS - 1, Named(block[k])
        PROVE  inode_table'[block[k].inode].dir = inode_table[block[k].inode].dir
    <3>1. PICK i, f : i = block[k].inode /\ f = Item(m, block[k], inode_table)
      OBVIOUS
    <3>2. In(f, m, block, inode_table)
      BY <2>5, <3>1 DEF In
    <3>3. f \in tree
      BY <2>2, <2>3, <2>4, <3>2, TreeLies DEF Lies
    <3>4. f.is = i
      BY <3>1 DEF Item
    <3>5. i # n
      BY <3>3, <3>4 DEF Plain
    <3>6. i \in Inode
      <4>1. k \in 0 .. SLOTS - 1
        BY Sizes
      <4> QED BY <2>3, <2>4, <3>1, <4>1, BlockOf
    <3> QED BY <3>1, <3>5, <3>6 DEF Plain
  <2>6. In(e, m, block, inode_table') <=> In(e, m, block, inode_table)
    BY <2>5, InKept
  <2> QED BY <2>3, <2>6
<1> QED BY <1>1, <1>2

(* In the current directory there is one more.                             *)
LEMMA PlainHere ==
    ASSUME Stored, Kept, NEW slot, NEW n, NEW x, Plain(slot, n, x), NEW name \in Name, Placed(slot, name, n), NEW e
    PROVE  In(e, cwd, entries', inode_table')
             <=> \/ In(e, cwd, entries, inode_table)
                 \/ e = [in |-> cwd, name |-> name, is |-> n, dir |-> x.dir]
<1>1. /\ inode_table \in [Inode -> OneSector] /\ FirstOnly(entries) /\ Typed
  BY WholeHas DEF Plain, Stored
<1>2. entries'[slot] = [name |-> name, inode |-> n] /\ OthersStay(slot) /\ ~ Named(entries[slot])
  BY PlacedHas DEF Placed, Named
<1>3. PICK new, entry : /\ new = [in |-> cwd, name |-> name, is |-> n, dir |-> x.dir]
                        /\ entry = [name |-> name, inode |-> n]
  OBVIOUS
<1>4. Named(entry) /\ Item(cwd, entry, inode_table') = new
  <2>1. name # ""
    BY NamesAre
  <2>2. entry.name = name /\ entry.inode = n
    BY <1>3
  <2> QED BY <1>3, <2>1, <2>2 DEF Plain, Named, Item
<1>5. ASSUME NEW k \in 2 .. SLOTS - 1, k # slot
      PROVE  /\ entries'[k] = entries[k]
             /\ Named(entries[k]) => Item(cwd, entries[k], inode_table') = Item(cwd, entries[k], inode_table)
  <2>1. k \in 0 .. MAX_DIR_ENTRIES - 1
    BY Sizes
  <2>2. entries'[k] = entries[k]
    BY <1>2, <1>5, <2>1 DEF OthersStay
  <2>3. ASSUME Named(entries[k]) PROVE Item(cwd, entries[k], inode_table') = Item(cwd, entries[k], inode_table)
    <3>1. PICK i, f : i = entries[k].inode /\ f = Item(cwd, entries[k], inode_table)
      OBVIOUS
    <3>2. In(f, cwd, entries, inode_table)
      BY <2>3, <3>1 DEF In
    <3>3. f \in tree /\ f.is = i
      <4>1. f \in tree
        BY <1>1, <3>2, TreeLies DEF Lies
      <4> QED BY <3>1, <4>1 DEF Item
    <3>4. i # n
      BY <3>3 DEF Plain
    <3>5. i \in Inode
      <4>1. entries[k] \in Entry
        BY <1>1, <2>1, TypedHas
      <4> QED BY <3>1, <4>1 DEF Entry
    <3>6. inode_table'[i] = inode_table[i]
      BY <3>4, <3>5 DEF Plain
    <3> QED BY <3>1, <3>6 DEF Item
  <2> QED BY <2>2, <2>3
<1>6. slot \in 2 .. SLOTS - 1 /\ entries'[slot] = entry
  BY <1>2, <1>3 DEF Plain
<1>7. ASSUME In(e, cwd, entries', inode_table')
      PROVE  In(e, cwd, entries, inode_table) \/ e = new
  <2>1. PICK k \in 2 .. SLOTS - 1 : Named(entries'[k]) /\ e = Item(cwd, entries'[k], inode_table')
    BY <1>7 DEF In
  <2>2. CASE k = slot
    BY <1>4, <1>6, <2>1, <2>2
  <2>3. CASE k # slot
    <3>1. Named(entries[k]) /\ e = Item(cwd, entries[k], inode_table)
      BY <1>5, <2>1, <2>3
    <3> QED BY <3>1 DEF In
  <2> QED BY <2>2, <2>3
<1>8. ASSUME In(e, cwd, entries, inode_table)
      PROVE  In(e, cwd, entries', inode_table')
  <2>1. PICK k \in 2 .. SLOTS - 1 : Named(entries[k]) /\ e = Item(cwd, entries[k], inode_table)
    BY <1>8 DEF In
  <2>2. k # slot
    BY <1>2, <2>1
  <2>3. Named(entries'[k]) /\ e = Item(cwd, entries'[k], inode_table')
    BY <1>5, <2>1, <2>2
  <2> QED BY <2>3 DEF In
<1>9. In(new, cwd, entries', inode_table')
  BY <1>4, <1>6 DEF In
<1> QED BY <1>3, <1>7, <1>8, <1>9

-----------------------------------------------------------------------------
(* The promise of DirTree: an entry that is made.                          *)

LEMMA EntersTree ==
    ASSUME Stored, Stored', Kept, OneShown', NEW slot, NEW n, NEW x, Plain(slot, n, x),
           NEW name \in Name, Placed(slot, name, n)
    PROVE  tree' = tree \cup {[in |-> cwd, name |-> name, is |-> n, dir |-> x.dir]}
<1>1. PICK new : new = [in |-> cwd, name |-> name, is |-> n, dir |-> x.dir]
  OBVIOUS
<1>2. /\ inode_table \in [Inode -> OneSector] /\ FirstOnly(entries) /\ disk' = disk /\ cwd' = cwd
      /\ inode_table' \in [Inode -> OneSector]
  BY WholeHas DEF Plain
<1>3. FirstOnly(entries')
  <2>1. DOMAIN entries' = 0 .. MAX_DIR_ENTRIES - 1
    BY DEF Stored, Typed
  <2> QED BY <2>1 DEF FirstOnly, OneShown, Named
<1>4. ASSUME NEW e
      PROVE  e \in tree' <=> e \in tree \/ e = new
  <2>1. e \in tree' <=> Lies(e, cwd, entries', inode_table', disk.data)
    BY <1>2, <1>3, TreeLiesNext
  <2>2. e \in tree <=> Lies(e, cwd, entries, inode_table, disk.data)
    BY <1>2, TreeLies
  <2>3. In(e, cwd, entries', inode_table') <=> In(e, cwd, entries, inode_table) \/ e = new
    BY <1>1, PlainHere
  <2>4. ASSUME NEW m
        PROVE  /\ m \in DirectoriesOf(inode_table') \ {cwd}
               /\ In(e, m, disk.data[First(inode_table'[m])], inode_table')
               <=> /\ m \in DirectoriesOf(inode_table) \ {cwd}
                   /\ In(e, m, disk.data[First(inode_table[m])], inode_table)
    <3>1. CASE m \in Inode /\ m # cwd
      BY <3>1, PlainElsewhere
    <3>2. CASE ~ (m \in Inode /\ m # cwd)
      BY <3>2 DEF DirectoriesOf
    <3> QED BY <3>1, <3>2
  <2> QED BY <2>1, <2>2, <2>3, <2>4 DEF Lies
<1> QED BY <1>1, <1>4

LEMMA EntersPromised ==
    ASSUME Stored, Stored', Kept, NEW name, NEW n, NEW x, NEW more, Enters(name, n, x, more)
    PROVE  Promised
<1>1. SUFFICES ASSUME errors' = 0, ~ outgrown' PROVE Promised
  BY NotWhole
<1>2. PICK slot : Plain(slot, n, x) /\ Placed(slot, name, n)
  BY <1>1, EntersPlain
<1>3. /\ SavedAbove /\ FreeUnnamed /\ OneShown /\ Ahead /\ NewestApart
      /\ cwd \in Inode /\ inode_table[cwd].dir
  BY <1>2, WholeHas DEF Plain
<1>4. name \in Name /\ x \in OneSector /\ x.dir \in BOOLEAN
  BY OneSectorHas DEF Enters
<1>5. saved' = saved /\ disk' = disk /\ cwd' = cwd /\ inode_table'[cwd] = inode_table[cwd] /\ goal' = << >>
  BY <1>2, <1>3, SavedSame DEF Plain
<1>6. OneShown'
  <2>1. slot \in 2 .. SLOTS - 1 /\ OthersStay(slot)
    BY <1>2, PlacedHas DEF Plain
  <2>2. \A k \in SLOTS .. MAX_DIR_ENTRIES - 1 : k \in 0 .. MAX_DIR_ENTRIES - 1 /\ k # slot
    BY <2>1, Sizes
  <2> QED BY <1>3, <2>1, <2>2 DEF OneShown, OthersStay
<1>7. PICK new : new = [in |-> cwd, name |-> name, is |-> n, dir |-> x.dir]
  OBVIOUS
<1>8. tree' = tree \cup {new}
  BY <1>2, <1>4, <1>6, <1>7, EntersTree
<1>9. SavedAbove'
  <2>1. new.in = cwd
    BY <1>7
  <2>2. \A m : SavedDirectory(m)' <=> SavedDirectory(m)
    BY <1>5 DEF SavedDirectory
  <2>3. SavedDirectory(cwd) /\ \A e \in tree' : SavedDirectory(e.in)
    BY <1>3, <1>8, <2>1 DEF SavedAbove
  <2> QED BY <1>5, <2>2, <2>3 DEF SavedAbove
<1>10. FreeUnnamed'
  BY <1>3, <1>5 DEF FreeUnnamed, Unnamed
<1>11. Ahead'
  <2> SUFFICES ASSUME NEW k \in 2 .. SLOTS - 1, Named(OnDisk(k)') PROVE entries'[k] = OnDisk(k)'
    BY DEF Ahead, Named
  <2>1. OnDisk(k)' = OnDisk(k)
    BY <1>5 DEF OnDisk
  <2>2. entries[k] = OnDisk(k) /\ Named(OnDisk(k))
    BY <1>3, <2>1 DEF Ahead, Named
  <2>3. k # slot /\ OthersStay(slot) /\ k \in 0 .. MAX_DIR_ENTRIES - 1
    <3>1. ~ Named(entries[slot]) /\ OthersStay(slot)
      BY <1>2, PlacedHas DEF Placed, Named
    <3> QED BY <2>2, <3>1, Sizes
  <2>4. entries'[k] = entries[k]
    BY <2>3 DEF OthersStay
  <2> QED BY <2>1, <2>2, <2>4
<1>12. Saving'
  BY <1>5 DEF Saving
<1>13. NewestApart'
  <2> SUFFICES ASSUME NEW m \in Inode, Creating(m)'
               PROVE  /\ \A e \in saved' : e.is # m
                      /\ \A inodes \in {disk'.inodes, inode_table'} :
                            inodes[m].dir => Unnamed(disk'.data[First(inodes[m])])
    BY DEF NewestApart, Unnamed
  <2>1. m = n
    BY EntersWriting
  <2>2. \A e \in saved : e.is # n
    BY <1>2, SavedTree DEF Plain
  <2> QED BY <1>2, <1>5, <2>1, <2>2 DEF Plain
<1>14. Tree!Next
  <2>1. n \in Inode \ ({Root} \cup {e.is : e \in tree})
    BY <1>2 DEF Plain
  <2>2. Tree!Create(name, x.dir)
    BY <1>5, <1>7, <1>8, <2>1 DEF Tree!Create
  <2> QED BY <1>4, <2>2 DEF Tree!Next
<1> QED BY <1>9, <1>10, <1>6, <1>11, <1>12, <1>13, <1>14 DEF Promised, Kept

-----------------------------------------------------------------------------
(* The promise of DirTree: cd.                                             *)

(* The directory above one that has been saved has been saved.             *)
LEMMA AboveSaved ==
    ASSUME Stored, Linked, Kept, errors = 0, ~ outgrown, pending = << >>
    PROVE  SavedDirectory(entries[1].inode)
<1>1. SavedAbove /\ cwd \in Inode /\ inode_table[cwd].dir
  BY WholeHas
<1>2. PICK up : up = entries[1].inode
  OBVIOUS
<1>3. CASE cwd = Root
  <2>1. up \in 0 .. Root
    BY <1>2, <1>3 DEF Stored, Readable, Heads
  <2>2. up = Root
    BY <2>1 DEF Root
  <2> QED BY <1>2, <2>2 DEF SavedDirectory
<1>4. CASE cwd # Root
  <2>1. PICK e \in saved : e.dir /\ e.is = cwd
    BY <1>1, <1>4 DEF SavedAbove, SavedDirectory
  <2>2. e \in tree
    BY SavedTree
  <2>3. Here(e.is)[1] = dirent("..", e.in)
    BY <2>1, <2>2, LinkedParents
  <2>4. PICK there : there = dirent("..", e.in)
    OBVIOUS
  <2>5. entries[1] = there /\ there.inode = e.in
    BY <2>1, <2>3, <2>4 DEF Here, dirent
  <2>6. SavedDirectory(e.in)
    BY <1>1, <2>2 DEF SavedAbove
  <2> QED BY <2>5, <2>6
<1> QED BY <1>3, <1>4

LEMMA FoundSaved ==
    ASSUME Stored, Linked, Kept, errors = 0, ~ outgrown, pending = << >>, goal # << >>,
           NEW n \in fd_dir(goal), n # NOWHERE
    PROVE  SavedDirectory(n)
<1>1. /\ SavedAbove /\ inode_table \in [Inode -> OneSector] /\ FirstOnly(entries)
      /\ cwd \in Inode /\ inode_table[cwd].dir
  BY WholeHas
<1>2. \/ n = entries[1].inode \/ n = cwd \/ n \in LinkedDirectories
      \/ Starts(goal) /\ Short(goal) /\ Hits(goal[2]) # {} /\ n = entries[Lowest(Hits(goal[2]))].inode
  BY FdDirIs
<1>3. SavedDirectory(entries[1].inode) /\ SavedDirectory(cwd)
  BY <1>1, AboveSaved DEF SavedAbove
<1>4. ASSUME NEW e \in tree, e.dir, e.is = n
      PROVE  SavedDirectory(n)
  <2>1. e \in saved
    BY TreeRests
  <2> QED BY <1>4, <2>1 DEF SavedDirectory
<1>5. CASE n \in LinkedDirectories
  <2>1. n = Root \/ \E e \in tree : e.dir /\ e.is = n
    BY <1>5 DEF LinkedDirectories
  <2> QED BY <1>4, <2>1 DEF SavedDirectory
<1>6. CASE Starts(goal) /\ Short(goal) /\ Hits(goal[2]) # {} /\ n = entries[Lowest(Hits(goal[2]))].inode
  <2>1. goal \in Path /\ Typed
    BY DEF Stored, Typed
  <2>2. goal[2] # ""
    <3>1. \A path \in Path : Starts(path) /\ Short(path) => path[2] \in Name \cup {".."}
      BY DEF Path, Starts, Short
    <3>2. "" \notin Name \cup {".."}
      BY NamesAre
    <3> QED BY <1>6, <2>1, <3>1, <3>2
  <2>3. PICK k : k = Lowest(Hits(goal[2]))
    OBVIOUS
  <2>4. k \in DOMAIN entries /\ entries[k].name = goal[2] /\ inode_table[entries[k].inode].dir
    BY <1>6, <2>1, <2>3, HitIs
  <2>5. Named(entries[k])
    BY <2>2, <2>4 DEF Named
  <2>6. k = 0 \/ k = 1 \/ k \in 2 .. SLOTS - 1
    <3>1. k \in 0 .. MAX_DIR_ENTRIES - 1 /\ k \notin SLOTS .. MAX_DIR_ENTRIES - 1
      BY <1>1, <2>4, <2>5 DEF FirstOnly
    <3> QED BY <3>1, Sizes
  <2>7. n = entries[k].inode
    BY <1>6, <2>3
  <2>8. CASE k = 0
    <3>1. ~ Unwritten(cwd) /\ cwd \in Known
      BY <2>1, NothingUnwritten DEF Typed
    <3>2. PICK here : here = dirent(".", cwd)
      OBVIOUS
    <3>3. entries[0] = here
      BY <3>1, <3>2 DEF Linked, Cached, Dotted
    <3>4. here.inode = cwd
      BY <3>2 DEF dirent
    <3> QED BY <1>3, <2>7, <2>8, <3>3, <3>4
  <2>9. CASE k \in 2 .. SLOTS - 1
    <3>1. PICK e : e = Item(cwd, entries[k], inode_table)
      OBVIOUS
    <3>2. In(e, cwd, entries, inode_table)
      BY <2>5, <2>9, <3>1 DEF In
    <3>3. e \in tree
      BY <1>1, <3>2, TreeLies DEF Lies
    <3>4. e.is = n /\ e.dir
      BY <2>4, <2>7, <3>1 DEF Item
    <3> QED BY <1>4, <3>3, <3>4
  <2> QED BY <1>3, <2>6, <2>7, <2>8, <2>9
<1> QED BY <1>2, <1>3, <1>5, <1>6

(* The cache of a directory shows it as the others are shown.              *)
LEMMA CacheRests ==
    ASSUME NEW inodes \in [Inode -> OneSector], NEW data, NEW n \in DirectoriesOf(inodes),
           NEW cache, cache = CacheOf(data, inodes[n]), NEW e
    PROVE  FirstOnly(cache) /\ (Lies(e, n, cache, inodes, data) <=> Rests(e, inodes, data))
<1>1. PICK x, block : x = inodes[n] /\ block = data[First(x)]
  OBVIOUS
<1>2. x \in OneSector /\ x.dir
  BY <1>1 DEF DirectoriesOf
<1>3. FirstOnly(cache) /\ \A k \in 0 .. SLOTS - 1 : cache[k] = block[k]
  BY <1>1, <1>2, CacheOfOne
<1>4. \A k \in 2 .. SLOTS - 1 : k \in 0 .. SLOTS - 1
  BY Sizes
<1>5. In(e, n, cache, inodes) <=> In(e, n, block, inodes)
  BY <1>3, <1>4, InSame
<1> QED BY <1>1, <1>3, <1>5 DEF Lies, Rests

LEMMA CdDonePromised ==
    ASSUME Stored, Stored', Linked, Kept, CdDone
    PROVE  Promised
<1>1. /\ UNCHANGED <<disk, inode_table, pending, errors, outgrown>>
      /\ pending = << >> /\ goal # << >> /\ goal' = << >>
  BY DEF CdDone, faults
<1>2. SUFFICES ASSUME errors = 0, ~ outgrown PROVE Promised
  BY <1>1, NotWhole
<1>3. PICK n \in fd_dir(goal) : IF n = NOWHERE THEN UNCHANGED <<cwd, entries>>
                               ELSE cwd' = n /\ entries' = cache_dir(inode_table[n])
  BY DEF CdDone
<1>4. \A m \in Inode : ~ Creating(m)'
  BY <1>1 DEF Creating
<1>5. CASE n = NOWHERE
  <2>1. Kept' /\ Quiet
    BY <1>1, <1>3, <1>4, <1>5, SameKept
  <2> QED BY <2>1 DEF Promised
<1>6. CASE n # NOWHERE
  <2>1. cwd' = n /\ entries' = cache_dir(inode_table[n])
    BY <1>3, <1>6
  <2>2. SavedDirectory(n) /\ n \in Known
    BY <1>1, <1>2, <1>6, FoundSaved, FoundKnown
  <2>3. /\ SavedAbove /\ FreeUnnamed /\ inode_table \in [Inode -> OneSector]
    BY <1>2, WholeHas
  <2>4. n \in Inode /\ inode_table[n].dir /\ n \in DirectoriesOf(inode_table)
    BY <2>2, TypedHas DEF Known, DirectoriesOf, Stored
  <2>5. entries' = CacheOf(disk.data, inode_table[n])
    BY <2>1 DEF cache_dir, CacheOf
  <2>6. FirstOnly(entries') /\ \A e : Lies(e, n, entries', inode_table, disk.data) <=> Rests(e, inode_table, disk.data)
    BY <2>3, <2>4, <2>5, CacheRests
  <2>7. tree' = tree /\ saved' = saved /\ \A e \in tree : e \in saved
    <3>1. \A e : e \in tree' <=> Lies(e, n, entries', inode_table, disk.data)
      BY <1>1, <2>1, <2>3, <2>6, TreeLiesNext
    <3>2. \A e : e \in tree <=> Rests(e, inode_table, disk.data)
      BY <1>1, <1>2, TreeRests
    <3>3. tree' = tree
      BY <2>6, <3>1, <3>2
    <3>4. \A e \in tree : e \in saved
      BY <1>1, <1>2, TreeRests
    <3> QED BY <1>1, <3>3, <3>4, SavedSame
  <2>8. SavedAbove'
    <3>1. \A m : SavedDirectory(m)' <=> SavedDirectory(m)
      BY <2>7 DEF SavedDirectory
    <3>2. SavedDirectory(n) /\ \A e \in tree' : SavedDirectory(e.in)
      BY <2>2, <2>3, <2>7 DEF SavedAbove
    <3> QED BY <2>1, <3>1, <3>2 DEF SavedAbove
  <2>9. FreeUnnamed'
    BY <1>1, <2>3 DEF FreeUnnamed, Unnamed
  <2>10. OneShown'
    BY <2>6 DEF OneShown, FirstOnly, Named
  <2>11. Ahead'
    <3>1. PICK x : x = inode_table[n]
      OBVIOUS
    <3>2. \A k \in 0 .. SLOTS - 1 : entries'[k] = disk.data[First(x)][k]
      BY <2>3, <2>4, <2>5, <3>1, CacheOfOne
    <3>3. \A k \in 2 .. SLOTS - 1 : k \in 0 .. SLOTS - 1
      BY Sizes
    <3>4. \A k \in 2 .. SLOTS - 1 : OnDisk(k)' = disk.data[First(x)][k]
      BY <1>1, <2>1, <3>1 DEF OnDisk
    <3> QED BY <3>2, <3>3, <3>4 DEF Ahead
  <2>12. Saving' /\ NewestApart'
    BY <1>1, <1>4 DEF Saving, NewestApart
  <2>13. Tree!Next
    <3>1. Tree!InCwd \subseteq saved
      BY <2>7 DEF Tree!InCwd
    <3>2. n = Root \/ \E e \in tree : e.dir /\ e.is = n
      BY <1>2, <2>2, SavedTree DEF SavedDirectory
    <3>3. Tree!ChangeDir(n)
      BY <2>1, <2>7, <3>1, <3>2 DEF Tree!ChangeDir
    <3> QED BY <2>4, <3>3 DEF Tree!Next
  <2> QED BY <2>8, <2>9, <2>10, <2>11, <2>12, <2>13 DEF Promised, Kept
<1> QED BY <1>5, <1>6

-----------------------------------------------------------------------------
(* The promise of DirTree: writes that show nothing.                       *)

(* The writes that make an inode change nothing that is shown: they leave  *)
(* the sectors as they are, or without entries, and the other inodes.      *)
Alike(block, other) == block = other \/ (Unnamed(block) /\ Unnamed(other))
Gentle(n) ==
    /\ \A s \in Sector : Alike(disk'.data[s], disk.data[s])
    /\ disk.sbm \subseteq disk'.sbm
    /\ \A m \in Inode : m # n => /\ disk'.inodes[m].dir = disk.inodes[m].dir
                                 /\ disk.inodes[m].dir => First(disk'.inodes[m]) = First(disk.inodes[m])
    /\ disk'.inodes[n] = disk.inodes[n] \/ disk'.inodes[n] = inode_table[n]

LEMMA InAlike ==
    ASSUME NEW n, NEW block, NEW other, Alike(block, other), NEW inodes, NEW e
    PROVE  In(e, n, block, inodes) <=> In(e, n, other, inodes)
BY InUnnamed DEF Alike

LEMMA GentleTree ==
    ASSUME Stored, Kept, Takes, errors = 0, ~ outgrown, NEW n, Gentle(n)
    PROVE  tree' = tree
<1>1. inode_table \in [Inode -> OneSector] /\ FirstOnly(entries)
  BY WholeHas
<1>2. inode_table' = inode_table /\ cwd' = cwd /\ entries' = entries
  BY TakesSame
<1>3. ASSUME NEW e
      PROVE  e \in tree' <=> e \in tree
  <2>1. e \in tree' <=> Lies(e, cwd, entries, inode_table, disk'.data)
    BY <1>1, <1>2, TreeLiesNext
  <2>2. e \in tree <=> Lies(e, cwd, entries, inode_table, disk.data)
    BY <1>1, TreeLies
  <2>3. ASSUME NEW m \in DirectoriesOf(inode_table)
        PROVE  In(e, m, disk'.data[First(inode_table[m])], inode_table)
                 <=> In(e, m, disk.data[First(inode_table[m])], inode_table)
    <3>1. First(inode_table[m]) \in Sector
      BY <1>1, OneSectorHas DEF DirectoriesOf
    <3> QED BY <3>1, InAlike DEF Gentle
  <2> QED BY <2>1, <2>2, <2>3 DEF Lies
<1> QED BY <1>3

LEMMA GentleSaved ==
    ASSUME Stored, Stored', Kept, errors = 0, ~ outgrown, NEW n \in Inode, Creating(n), Gentle(n)
    PROVE  saved' = saved
<1>1. NewestApart /\ disk.inodes \in [Inode -> OneSector] /\ disk.data \in [Sector -> Block]
      /\ inode_table \in [Inode -> OneSector]
  BY WholeHas
<1>2. disk'.inodes \in [Inode -> OneSector] /\ disk'.data \in [Sector -> Block]
  BY DEF Stored, Typed
<1>3. \A e : (e \in saved <=> Rests(e, disk.inodes, disk.data)) /\ (e \in saved' <=> Rests(e, disk'.inodes, disk'.data))
  BY <1>1, <1>2, SavedRests, SavedRestsNext
<1>4. ASSUME NEW m \in Inode, m # n, disk.inodes[m].dir,
             NEW block, block = disk.data[First(disk.inodes[m])], NEW e
      PROVE  In(e, m, block, disk.inodes) <=> In(e, m, block, disk'.inodes)
  <2>1. ASSUME NEW k \in 2 .. SLOTS - 1, Named(block[k])
        PROVE  disk.inodes[block[k].inode].dir = disk'.inodes[block[k].inode].dir
    <3>1. PICK i, f : i = block[k].inode /\ f = Item(m, block[k], disk.inodes)
      OBVIOUS
    <3>2. In(f, m, block, disk.inodes)
      BY <2>1, <3>1 DEF In
    <3>3. f \in saved
      BY <1>3, <1>4, <3>2 DEF Rests, DirectoriesOf
    <3>4. f.is = i
      BY <3>1 DEF Item
    <3>5. i # n
      BY <1>1, <3>3, <3>4 DEF NewestApart
    <3>6. i \in Inode
      <4>1. k \in 0 .. SLOTS - 1
        BY Sizes
      <4> QED BY <1>1, <1>4, <3>1, <4>1, BlockOf
    <3> QED BY <3>1, <3>5, <3>6 DEF Gentle
  <2> QED BY <2>1, InKept
<1>5. ASSUME NEW inodes, inodes = disk.inodes \/ inodes = inode_table, inodes[n].dir,
             NEW block, block = disk.data[First(inodes[n])] \/ block = disk'.data[First(inodes[n])]
      PROVE  Unnamed(block)
  <2>1. Unnamed(disk.data[First(inodes[n])])
    BY <1>1, <1>5 DEF NewestApart
  <2>2. First(inodes[n]) \in Sector
    BY <1>1, <1>5, OneSectorHas
  <2> QED BY <1>5, <2>1, <2>2 DEF Gentle, Alike
<1>6. ASSUME NEW m \in Inode, NEW e
      PROVE  /\ m \in DirectoriesOf(disk'.inodes) /\ In(e, m, disk'.data[First(disk'.inodes[m])], disk'.inodes)
             <=> /\ m \in DirectoriesOf(disk.inodes) /\ In(e, m, disk.data[First(disk.inodes[m])], disk.inodes)
  <2>1. CASE m = n
    <3>1. disk.inodes[m].dir => Unnamed(disk.data[First(disk.inodes[m])])
      BY <1>5, <2>1
    <3>2. disk'.inodes[m].dir => Unnamed(disk'.data[First(disk'.inodes[m])])
      BY <1>5, <2>1 DEF Gentle
    <3> QED BY <3>1, <3>2, InUnnamed DEF DirectoriesOf
  <2>2. CASE m # n
    <3>1. SUFFICES ASSUME disk.inodes[m].dir
                   PROVE  In(e, m, disk'.data[First(disk.inodes[m])], disk'.inodes)
                            <=> In(e, m, disk.data[First(disk.inodes[m])], disk.inodes)
      BY <2>2 DEF Gentle, DirectoriesOf
    <3>2. First(disk.inodes[m]) \in Sector
      BY <1>1, <3>1, OneSectorHas
    <3>3. PICK block, other : block = disk.data[First(disk.inodes[m])] /\ other = disk'.data[First(disk.inodes[m])]
      OBVIOUS
    <3>4. In(e, m, block, disk.inodes) <=> In(e, m, block, disk'.inodes)
      BY <1>4, <2>2, <3>1, <3>3
    <3>5. In(e, m, other, disk'.inodes) <=> In(e, m, block, disk'.inodes)
      BY <3>2, <3>3, InAlike DEF Gentle
    <3> QED BY <3>3, <3>4, <3>5
  <2> QED BY <2>1, <2>2
<1>7. ASSUME NEW e
      PROVE  Rests(e, disk'.inodes, disk'.data) <=> Rests(e, disk.inodes, disk.data)
  BY <1>6 DEF Rests, DirectoriesOf
<1> QED BY <1>3, <1>7

LEMMA GentlePromised ==
    ASSUME Stored, Stored', Kept, Takes, errors = 0, ~ outgrown, NEW n \in Inode, Creating(n), Gentle(n)
    PROVE  Promised
<1>1. /\ UNCHANGED <<inode_table, cwd, entries, goal, errors, outgrown>> /\ Delivers
  BY TakesSame DEF Takes, Delivers
<1>2. tree' = tree /\ saved' = saved
  BY GentleTree, GentleSaved
<1>3. /\ SavedAbove /\ FreeUnnamed /\ OneShown /\ Ahead /\ NewestApart
      /\ inode_table \in [Inode -> OneSector] /\ disk.inodes \in [Inode -> OneSector]
      /\ cwd \in Inode /\ inode_table[cwd].dir
  BY WholeHas
<1>4. SavedAbove'
  BY <1>1, <1>2, <1>3 DEF SavedAbove, SavedDirectory
<1>5. FreeUnnamed'
  <2> SUFFICES ASSUME NEW s \in Sector, s \notin disk'.sbm PROVE Unnamed(disk'.data[s])
    BY DEF FreeUnnamed, Unnamed
  <2>1. Unnamed(disk.data[s])
    BY <1>3 DEF FreeUnnamed, Gentle
  <2> QED BY <2>1 DEF Gentle, Alike
<1>6. OneShown' /\ Saving'
  BY <1>1, <1>3 DEF OneShown, Saving, Creating
<1>7. Ahead'
  <2>1. PICK s : s = First(inode_table[cwd])
    OBVIOUS
  <2>2. s \in Sector
    BY <1>3, <2>1, OneSectorHas
  <2>3. CASE disk'.data[s] = disk.data[s]
    BY <1>1, <1>3, <2>1, <2>3 DEF Ahead, OnDisk
  <2>4. CASE Unnamed(disk'.data[s])
    BY <1>1, <2>1, <2>4 DEF Ahead, OnDisk, Unnamed
  <2> QED BY <2>2, <2>3, <2>4 DEF Gentle, Alike
<1>8. NewestApart'
  <2> SUFFICES ASSUME NEW m \in Inode, Creating(m)',
                      NEW inodes \in {disk'.inodes, inode_table'}
               PROVE  /\ \A e \in saved' : e.is # m
                      /\ inodes[m].dir => Unnamed(disk'.data[First(inodes[m])])
    BY DEF NewestApart, Unnamed
  <2>1. m = n
    BY <1>1, CreatingHas
  <2>2. \A e \in saved : e.is # n
    BY <1>3 DEF NewestApart
  <2>3. ASSUME inodes[n].dir PROVE Unnamed(disk'.data[First(inodes[n])])
    <3>1. PICK x : x = inodes[n]
      OBVIOUS
    <3>2. x = disk.inodes[n] \/ x = inode_table[n]
      BY <1>1, <3>1 DEF Gentle
    <3>3. Unnamed(disk.data[First(x)])
      BY <1>3, <2>3, <3>1, <3>2 DEF NewestApart
    <3>4. First(x) \in Sector
      BY <1>3, <2>3, <3>1, <3>2, OneSectorHas
    <3> QED BY <3>1, <3>3, <3>4 DEF Gentle, Alike
  <2> QED BY <1>2, <2>1, <2>2, <2>3
<1> QED BY <1>1, <1>2, <1>4, <1>5, <1>6, <1>7, <1>8 DEF Promised, Kept, Quiet

-----------------------------------------------------------------------------
(* The promise of DirTree: the writes of a new inode, and of cd.           *)

LEMMA NewDataGentle ==
    ASSUME Stored, Linked, Kept, Takes, errors = 0, ~ outgrown,
           NEW n \in Inode, Creating(n), inode_table[n].dir, Begun(n)
    PROVE  Gentle(n)
<1>1. PICK s, block : s = First(inode_table[n]) /\ block = NewBlock(n)
  OBVIOUS
<1>2. Fits(n, 1, s, block)
  BY <1>1, NewDataFits
<1>3. /\ disk'.inodes = disk.inodes /\ disk'.sbm = disk.sbm
      /\ \A t \in Sector : disk'.data[t] = IF t = s THEN block ELSE disk.data[t]
  <2>1. disk'.inodes = disk.inodes /\ disk'.sbm = disk.sbm
    BY <1>2, DataTyped
  <2>2. \A t \in Sector : disk'.data[t] = IF t = s THEN block ELSE disk.data[t]
    BY <1>2, DataPut
  <2> QED BY <2>1, <2>2
<1>4. Unnamed(disk.data[s])
  BY <1>1, WholeHas DEF NewestApart
<1>5. Unnamed(block)
  BY <1>1, NewBlockDots
<1> QED BY <1>3, <1>4, <1>5 DEF Gentle, Alike

LEMMA MapGentle ==
    ASSUME Stored, Kept, Takes, errors = 0, ~ outgrown, NEW n \in Inode, NEW map, NEW to,
           to = "sbm" \/ to = "ibm", Head(pending) = Write(to, map), to = "sbm" => map = b
    PROVE  Gentle(n)
<1>1. PICK sbm, ibm : /\ sbm = IF to = "sbm" THEN map ELSE disk.sbm
                      /\ ibm = IF to = "ibm" THEN map ELSE disk.ibm
  OBVIOUS
<1>2. Maps(sbm, ibm)
  BY <1>1, MapsIs
<1>3. disk \in [data : [Sector -> Block], inodes : [Inode -> OneSector], sbm : SUBSET Sector, ibm : SUBSET Inode]
  BY DEF Stored, Typed
<1>4. disk'.data = disk.data /\ disk'.inodes = disk.inodes /\ disk'.sbm = sbm
  BY <1>2, <1>3 DEF Maps
<1>5. disk.sbm \subseteq sbm
  BY <1>1, WholeHas
<1> QED BY <1>4, <1>5 DEF Gentle, Alike

LEMMA EndsGentle ==
    ASSUME Stored, Kept, Takes, errors = 0, ~ outgrown, NEW n \in Inode, Creating(n), Ends(n)
    PROVE  Gentle(n)
<1>1. /\ disk'.data = disk.data /\ disk'.sbm = disk.sbm
      /\ \A m \in Inode : disk'.inodes[m] = IF m \in Neighbours(n) THEN inode_table[m] ELSE disk.inodes[m]
  BY EndsHas
<1>2. \A m \in Inode : m # n => Same(m)
  <2>1. \A m \in Inode : Creating(m) => m = n
    BY CreatingHas DEF Takes
  <2> QED BY <2>1, WholeHas
<1> QED BY <1>1, <1>2 DEF Gentle, Alike, Same

LEMMA MadePromised ==
    ASSUME Stored, Stored', Linked, Kept, Takes, errors = 0, ~ outgrown,
           NEW n \in Inode, Creating(n), Next5(n, Head(pending), Len(pending))
    PROVE  Promised
<1>1. \/ inode_table[n].dir /\ Begun(n)
      \/ Head(pending) = Write("sbm", b)
      \/ Head(pending) = Write("ibm", fifth)
      \/ Head(pending) = Write("ibm", inodebm)
      \/ Ends(n)
  BY DEF Next5, Begun, Ends
<1>2. Gentle(n)
  BY <1>1, NewDataGentle, MapGentle, EndsGentle
<1> QED BY <1>2, GentlePromised

(* The write of cd saves what the current directory has.                   *)
Puts(s) ==
    /\ s = First(inode_table[cwd])
    /\ \A t \in Sector : t # s => disk'.data[t] = disk.data[t]
    /\ \A k \in 2 .. SLOTS - 1 : disk'.data[s][k] = entries[k]
    /\ disk'.inodes = disk.inodes /\ disk'.sbm = disk.sbm

LEMMA FlushedPuts ==
    ASSUME Stored, Kept, Takes, errors = 0, ~ outgrown, NEW k, Flushed(k)
    PROVE  \E s \in Sector : Puts(s)
<1>1. inode_table \in [Inode -> OneSector] /\ cwd \in Inode /\ inode_table[cwd].dir /\ Typed
  BY WholeHas DEF Stored
<1>2. PICK s, block : Fits(cwd, k, s, block)
  BY FlushedFits DEF Takes
<1>3. /\ disk'.inodes = disk.inodes /\ disk'.sbm = disk.sbm
      /\ \A t \in Sector : disk'.data[t] = IF t = s THEN block ELSE disk.data[t]
  <2>1. disk'.inodes = disk.inodes /\ disk'.sbm = disk.sbm
    BY <1>2, DataTyped
  <2>2. \A t \in Sector : disk'.data[t] = IF t = s THEN block ELSE disk.data[t]
    BY <1>2, DataPut
  <2> QED BY <2>1, <2>2
<1>4. PICK f : f = First(inode_table[cwd])
  OBVIOUS
<1>5. Sectors(inode_table[cwd]) = <<f>>
  BY <1>1, <1>4, OneSectorHas
<1>6. k = 1 /\ s = f
  BY <1>2, <1>5 DEF Fits
<1>7. block = Chunk(0)
  <2>1. Head(pending) = WriteData(f, Chunk(0))
    BY <1>5, <1>6 DEF Flushed
  <2>2. Head(pending) = WriteData(s, block)
    BY <1>2 DEF Fits
  <2>3. PICK chunk : chunk = Chunk(0)
    OBVIOUS
  <2> QED BY <1>6, <2>1, <2>2, <2>3 DEF WriteData
<1>8. \A i \in 2 .. SLOTS - 1 : block[i] = entries[i]
  <2> SUFFICES ASSUME NEW i \in 2 .. SLOTS - 1 PROVE block[i] = entries[i]
    OBVIOUS
  <2>1. i \in 0 .. SLOTS - 1 /\ 0 * SLOTS + i = i /\ i < MAX_DIR_ENTRIES
    BY Sizes
  <2> QED BY <1>7, <2>1 DEF Chunk
<1>9. s \in Sector
  BY <1>2 DEF Fits
<1> QED BY <1>3, <1>4, <1>6, <1>8, <1>9 DEF Puts

-----------------------------------------------------------------------------
(* The promise of DirTree: the write of cd saves, and every write.         *)

LEMMA DiskFirst ==
    ASSUME Stored, errors = 0, NEW n \in Inode, disk.inodes[n].dir
    PROVE  First(disk.inodes[n]) \in disk.sbm
<1>1. OwnSectors(disk.inodes, disk.sbm) /\ n \in DirectoriesOf(disk.inodes) /\ disk.inodes[n] \in OneSector
  BY TypedHas DEF Stored, SectorsSafe, DirectoriesOf
<1>2. PICK f : f = First(disk.inodes[n])
  OBVIOUS
<1>3. Sectors(disk.inodes[n]) = <<f>>
  BY <1>1, <1>2, OneSectorHas
<1>4. 1 \in DOMAIN <<f>> /\ <<f>>[1] = f
  OBVIOUS
<1> QED BY <1>1, <1>2, <1>3, <1>4 DEF OwnSectors

LEMMA PutsTree ==
    ASSUME Stored, Kept, Takes, errors = 0, ~ outgrown, NEW s, Puts(s)
    PROVE  tree' = tree
<1>1. inode_table \in [Inode -> OneSector] /\ FirstOnly(entries) /\ cwd \in Inode /\ inode_table[cwd].dir
  BY WholeHas
<1>2. inode_table' = inode_table /\ cwd' = cwd /\ entries' = entries
  BY TakesSame
<1>3. ASSUME NEW m \in DirectoriesOf(inode_table) \ {cwd}
      PROVE  disk'.data[First(inode_table[m])] = disk.data[First(inode_table[m])]
  <2>1. m \in Inode /\ inode_table[m].dir /\ m # cwd
    BY DEF DirectoriesOf
  <2>2. First(inode_table[m]) # s
    BY <1>1, <2>1, FirstOwn DEF Puts
  <2>3. First(inode_table[m]) \in Sector
    BY <1>1, <2>1, OneSectorHas
  <2> QED BY <2>2, <2>3 DEF Puts
<1>4. ASSUME NEW e
      PROVE  e \in tree' <=> e \in tree
  <2>1. e \in tree' <=> Lies(e, cwd, entries, inode_table, disk'.data)
    BY <1>1, <1>2, TreeLiesNext
  <2>2. e \in tree <=> Lies(e, cwd, entries, inode_table, disk.data)
    BY <1>1, TreeLies
  <2> QED BY <1>3, <2>1, <2>2 DEF Lies
<1> QED BY <1>4

LEMMA InHas ==
    ASSUME NEW e, NEW n, NEW block, NEW inodes, In(e, n, block, inodes)
    PROVE  e.in = n
BY DEF In, Item

LEMMA PutsSaved ==
    ASSUME Stored, Kept, errors = 0, ~ outgrown, goal # << >>, NEW s, Puts(s)
    PROVE  saved' = saved \cup Tree!InCwd
<1>1. /\ inode_table \in [Inode -> OneSector] /\ FirstOnly(entries) /\ cwd \in Inode /\ inode_table[cwd].dir
      /\ disk.inodes \in [Inode -> OneSector] /\ Ahead /\ Typed
      /\ \A n \in Inode : ~ Creating(n) => Same(n)
  BY WholeHas DEF Stored
<1>2. \A n \in Inode : Same(n)
  BY <1>1 DEF Creating
<1>3. cwd \in DirectoriesOf(disk.inodes) /\ First(disk.inodes[cwd]) = s
  BY <1>1, <1>2 DEF DirectoriesOf, Same, Puts
<1>4. PICK block, other : block = disk.data[s] /\ other = disk'.data[s]
  OBVIOUS
<1>5. ASSUME NEW e
      PROVE  /\ In(e, cwd, other, disk.inodes) <=> In(e, cwd, entries, inode_table)
             /\ In(e, cwd, block, disk.inodes) => In(e, cwd, other, disk.inodes)
  <2>1. \A k \in 2 .. SLOTS - 1 : other[k] = entries[k]
    BY <1>4 DEF Puts
  <2>2. In(e, cwd, other, disk.inodes) <=> In(e, cwd, entries, disk.inodes)
    BY <2>1, InSame
  <2>3. \A k \in 2 .. SLOTS - 1 : entries[k].inode \in Inode
    <3>1. \A k \in 2 .. SLOTS - 1 : k \in 0 .. MAX_DIR_ENTRIES - 1
      BY Sizes
    <3>2. \A k \in 0 .. MAX_DIR_ENTRIES - 1 : entries[k] \in Entry
      BY <1>1, TypedHas
    <3> QED BY <3>1, <3>2 DEF Entry
  <2>4. \A k \in 2 .. SLOTS - 1 : disk.inodes[entries[k].inode].dir = inode_table[entries[k].inode].dir
    BY <1>2, <2>3 DEF Same
  <2>5. In(e, cwd, entries, disk.inodes) <=> In(e, cwd, entries, inode_table)
    BY <2>4, InKept
  <2>6. ASSUME In(e, cwd, block, disk.inodes) PROVE In(e, cwd, other, disk.inodes)
    <3>1. PICK k \in 2 .. SLOTS - 1 : Named(block[k]) /\ e = Item(cwd, block[k], disk.inodes)
      BY <2>6 DEF In
    <3>2. other[k] = block[k]
      BY <1>1, <1>4, <2>1, <3>1 DEF Ahead, OnDisk, Named, Puts
    <3> QED BY <3>1, <3>2 DEF In
  <2> QED BY <2>2, <2>5, <2>6
<1>6. ASSUME NEW m \in DirectoriesOf(disk.inodes) \ {cwd}
      PROVE  disk'.data[First(disk.inodes[m])] = disk.data[First(disk.inodes[m])]
  <2>1. m \in Inode /\ inode_table[m].dir /\ m # cwd /\ First(disk.inodes[m]) = First(inode_table[m])
    BY <1>2 DEF DirectoriesOf, Same
  <2>2. First(inode_table[m]) # s
    BY <1>1, <2>1, FirstOwn DEF Puts
  <2>3. First(inode_table[m]) \in Sector
    BY <1>1, <2>1, OneSectorHas
  <2> QED BY <2>1, <2>2, <2>3 DEF Puts
<1>7. ASSUME NEW e
      PROVE  e \in saved' <=> e \in saved \/ In(e, cwd, entries, inode_table)
  <2>1. e \in saved' <=> Rests(e, disk.inodes, disk'.data)
    <3>1. disk'.inodes \in [Inode -> OneSector] /\ disk'.inodes = disk.inodes
      BY <1>1 DEF Puts
    <3> QED BY <3>1, SavedRestsNext
  <2>2. e \in saved <=> Rests(e, disk.inodes, disk.data)
    BY <1>1, SavedRests
  <2>3. In(e, cwd, other, disk.inodes) <=> In(e, cwd, entries, inode_table)
    BY <1>5
  <2>4. In(e, cwd, block, disk.inodes) => In(e, cwd, entries, inode_table)
    BY <1>5
  <2> QED BY <1>3, <1>4, <1>6, <2>1, <2>2, <2>3, <2>4 DEF Rests
<1>8. ASSUME NEW e
      PROVE  e \in Tree!InCwd <=> In(e, cwd, entries, inode_table)
  <2>1. e \in tree <=> Lies(e, cwd, entries, inode_table, disk.data)
    BY <1>1, TreeLies
  <2>2. e \in Tree!InCwd <=> e \in tree /\ e.in = cwd
    BY DEF Tree!InCwd
  <2> QED BY <2>1, <2>2, InHas DEF Lies
<1> QED BY <1>7, <1>8

LEMMA FlushedPromised ==
    ASSUME Stored, Kept, Takes, errors = 0, ~ outgrown, goal # << >>, NEW k, Flushed(k)
    PROVE  Promised
<1>1. /\ UNCHANGED <<inode_table, cwd, entries, goal, errors, outgrown>>
  BY TakesSame DEF Takes, Delivers
<1>2. PICK s \in Sector : Puts(s)
  BY FlushedPuts
<1>3. tree' = tree /\ saved' = saved \cup Tree!InCwd
  BY <1>2, PutsTree, PutsSaved
<1>4. /\ SavedAbove /\ FreeUnnamed /\ OneShown /\ cwd \in Inode /\ inode_table[cwd].dir
      /\ \A n \in Inode : ~ Creating(n) => Same(n)
  BY WholeHas
<1>5. SavedAbove'
  <2>1. \A m : SavedDirectory(m) => SavedDirectory(m)'
    BY <1>3 DEF SavedDirectory
  <2> QED BY <1>1, <1>3, <1>4, <2>1 DEF SavedAbove
<1>6. s \in disk.sbm
  <2>1. Same(cwd)
    BY <1>4 DEF Creating
  <2>2. disk.inodes[cwd].dir /\ First(disk.inodes[cwd]) = s
    BY <1>2, <1>4, <2>1 DEF Same, Puts
  <2> QED BY <1>4, <2>2, DiskFirst
<1>7. FreeUnnamed'
  <2>1. \A t \in Sector \ disk'.sbm : t # s /\ disk'.data[t] = disk.data[t] /\ t \notin disk.sbm
    BY <1>2, <1>6 DEF Puts
  <2> QED BY <1>4, <2>1 DEF FreeUnnamed, Unnamed
<1>8. \A i \in 2 .. SLOTS - 1 : OnDisk(i)' = entries'[i]
  BY <1>1, <1>2 DEF OnDisk, Puts
<1>9. OneShown' /\ Ahead' /\ Saving'
  BY <1>1, <1>4, <1>8 DEF OneShown, Ahead, Saving
<1>10. NewestApart'
  BY <1>1 DEF NewestApart, Creating
<1>11. Tree!Next
  BY <1>1, <1>3 DEF Tree!Save, Tree!Next
<1> QED BY <1>5, <1>7, <1>9, <1>10, <1>11 DEF Promised, Kept

LEMMA WritePromised ==
    ASSUME Stored, Stored', Linked, Kept, dskws2, failures = 0 \/ errors' = errors
    PROVE  Promised
<1>1. Delivers
  BY DEF dskws2, Delivers, memory
<1>2. Takes \/ Refuses
  BY WriteIs
<1>3. CASE Refuses
  <2>1. errors' = errors + 1 /\ errors \in Nat
    BY <1>3 DEF Refuses, Stored, Typed
  <2> QED BY <2>1, NotWhole
<1>4. CASE Takes
  <2>1. errors' = errors /\ outgrown' = outgrown
    BY <1>4 DEF Takes, Delivers
  <2>2. SUFFICES ASSUME errors = 0, ~ outgrown PROVE Promised
    BY <2>1, NotWhole
  <2> QED BY <1>1, <1>4, <2>2, DeliversHas, FlushedPromised, MadePromised
<1> QED BY <1>2, <1>3, <1>4

-----------------------------------------------------------------------------
(* The promise of DirTree: a restart, and all steps.                       *)

LEMMA RestartPromised ==
    ASSUME Stored, Stored', Kept, init_fs, failures = 0, errors = 0
    PROVE  Promised
<1>1. Restarts
  BY RestartIs
<1>2. /\ errors = 0 /\ errors' = 0 /\ outgrown' = outgrown /\ disk' = disk /\ inode_table' = disk.inodes
      /\ cwd' = Root /\ entries' = cache_dir(disk.inodes[Root]) /\ pending' = << >> /\ goal' = << >>
  BY <1>1 DEF Restarts
<1>3. SUFFICES ASSUME ~ outgrown PROVE Promised
  BY <1>2, NotWhole
<1>4. SavedAbove /\ FreeUnnamed /\ disk.inodes \in [Inode -> OneSector]
  BY <1>2, <1>3, WholeHas
<1>5. Root \in Inode /\ disk.inodes[Root].dir /\ Root \in DirectoriesOf(disk.inodes)
  BY <1>1, RestartTyped DEF DirectoriesOf
<1>6. entries' = CacheOf(disk.data, disk.inodes[Root])
  BY <1>2 DEF cache_dir, CacheOf
<1>7. FirstOnly(entries') /\ \A e : Lies(e, Root, entries', disk.inodes, disk.data) <=> Rests(e, disk.inodes, disk.data)
  BY <1>4, <1>5, <1>6, CacheRests
<1>8. tree' = saved /\ saved' = saved
  <2>1. \A e : e \in tree' <=> Lies(e, Root, entries', disk.inodes, disk.data)
    BY <1>2, <1>4, <1>7, TreeLiesNext
  <2>2. \A e : e \in saved <=> Rests(e, disk.inodes, disk.data)
    BY <1>4, SavedRests
  <2>3. tree' = saved
    BY <1>7, <2>1, <2>2
  <2> QED BY <1>2, <2>3, SavedSame
<1>9. SavedAbove'
  <2>1. \A m : SavedDirectory(m)' <=> SavedDirectory(m)
    BY <1>8 DEF SavedDirectory
  <2>2. \A e \in saved : SavedDirectory(e.in)
    BY <1>2, <1>3, <1>4, SavedTree DEF SavedAbove
  <2> QED BY <1>2, <1>8, <2>1, <2>2 DEF SavedAbove, SavedDirectory
<1>10. FreeUnnamed'
  BY <1>2, <1>4 DEF FreeUnnamed, Unnamed
<1>11. OneShown'
  BY <1>7 DEF OneShown, FirstOnly, Named
<1>12. Ahead'
  <2>1. PICK x : x = disk.inodes[Root]
    OBVIOUS
  <2>2. \A k \in 0 .. SLOTS - 1 : entries'[k] = disk.data[First(x)][k]
    BY <1>4, <1>5, <1>6, <2>1, CacheOfOne
  <2>3. \A k \in 2 .. SLOTS - 1 : k \in 0 .. SLOTS - 1
    BY Sizes
  <2>4. \A k \in 2 .. SLOTS - 1 : OnDisk(k)' = disk.data[First(x)][k]
    BY <1>2, <2>1 DEF OnDisk
  <2> QED BY <2>2, <2>3, <2>4 DEF Ahead
<1>13. Saving' /\ NewestApart'
  BY <1>2 DEF Saving, NewestApart, Creating
<1>14. Tree!Next
  BY <1>2, <1>8 DEF Tree!PowerFailure, Tree!Next
<1> QED BY <1>9, <1>10, <1>11, <1>12, <1>13, <1>14 DEF Promised, Kept

LEMMA InitKept ==
    ASSUME Init
    PROVE  Kept /\ Tree!Init
<1>1. PICK block : block = Directory(Root, EMPTY)
  OBVIOUS
<1>2. /\ disk.data[0] = block /\ \A k \in 2 .. SLOTS - 1 : block[k].name = ""
      /\ \A s \in Sector \ {0} : disk.data[s] = Blank
      /\ disk.sbm = {0} /\ inode_table = disk.inodes
      /\ inode_table[Root] = RootInode /\ \A n \in Inode \ {Root} : inode_table[n] = NoInode
  BY <1>1, ImageIs
<1>3. cwd = Root /\ entries = cache_dir(RootInode) /\ pending = << >> /\ goal = << >>
  BY DEF Init
<1>4. Typed
  BY InitTyped
<1>5. disk.inodes \in [Inode -> OneSector] /\ Root \in Inode
  BY <1>4, TypedHas, Inodes
<1>6. First(RootInode) = 0 /\ RootInode.dir /\ ~ NoInode.dir
  BY DEF First, RootInode, NoInode
<1>7. Unnamed(block) /\ Unnamed(Blank)
  <2>1. \A k \in 2 .. SLOTS - 1 : Blank[k].name = ""
    BY BlankIs
  <2> QED BY <1>2, <2>1 DEF Unnamed
<1>8. DirectoriesOf(disk.inodes) = {Root}
  BY <1>2, <1>5, <1>6 DEF DirectoriesOf
<1>9. PICK x : x = disk.inodes[Root]
  OBVIOUS
<1>10. x = RootInode /\ x \in OneSector /\ x.dir /\ First(x) = 0
  BY <1>2, <1>5, <1>6, <1>9
<1>11. entries = CacheOf(disk.data, x)
  BY <1>3, <1>10 DEF cache_dir, CacheOf
<1>12. FirstOnly(entries) /\ \A k \in 0 .. SLOTS - 1 : entries[k] = block[k]
  <2>1. FirstOnly(entries) /\ \A k \in 0 .. SLOTS - 1 : entries[k] = disk.data[First(x)][k]
    BY <1>10, <1>11, CacheOfOne
  <2>2. disk.data[First(x)] = block
    BY <1>2, <1>10
  <2> QED BY <2>1, <2>2
<1>13. saved = {}
  <2>1. \A e : e \in saved <=> Rests(e, disk.inodes, disk.data)
    BY <1>5, SavedRests
  <2>2. \A e : ~ Rests(e, disk.inodes, disk.data)
    BY <1>2, <1>7, <1>8, <1>9, <1>10, InUnnamed DEF Rests
  <2> QED BY <2>1, <2>2
<1>14. tree = {}
  <2>1. \A e : Lies(e, Root, entries, disk.inodes, disk.data) <=> Rests(e, disk.inodes, disk.data)
    BY <1>5, <1>8, <1>9, <1>11, CacheRests
  <2>2. \A e : e \in tree <=> Lies(e, Root, entries, disk.inodes, disk.data)
    BY <1>2, <1>3, <1>5, <1>12, TreeLies
  <2>3. \A e : e \in saved <=> Rests(e, disk.inodes, disk.data)
    BY <1>5, SavedRests
  <2> QED BY <1>13, <2>1, <2>2, <2>3
<1>15. SavedAbove
  BY <1>3, <1>14 DEF SavedAbove, SavedDirectory
<1>16. FreeUnnamed
  BY <1>2, <1>7 DEF FreeUnnamed
<1>17. OneShown
  BY <1>12 DEF OneShown, FirstOnly, Named
<1>18. Ahead
  <2>1. \A k \in 2 .. SLOTS - 1 : OnDisk(k) = block[k]
    BY <1>2, <1>3, <1>9, <1>10 DEF OnDisk
  <2> QED BY <1>2, <2>1 DEF Ahead
<1>19. Saving /\ NewestApart
  BY <1>3 DEF Saving, NewestApart, Creating
<1> QED BY <1>3, <1>13, <1>14, <1>15, <1>16, <1>17, <1>18, <1>19 DEF Kept, Tree!Init

LEMMA NextPromised ==
    ASSUME Stored, Stored', Linked, Kept, [MarkedNext]_vars
    PROVE  Promised
<1>1. CASE dskws2 /\ (failures = 0 \/ errors' = errors)
  BY <1>1, WritePromised
<1>2. CASE failures = 0 /\ errors = 0 /\ init_fs
  BY <1>2, RestartPromised
<1>3. CASE create_entry
  <2>1. CASE \E name \in Name : CreateFile(name) \/ CreateDirectory(name)
    BY <1>3, <2>1, FileEnters, DirectoryEnters, EntersPromised
  <2> QED BY <1>3, <2>1, NothingPromised DEF create_entry
<1>4. CASE \E path \in Path : cd(path)
  <2>1. Kept' /\ Quiet
    BY <1>4, CdKept
  <2> QED BY <2>1 DEF Promised
<1>5. CASE CdDone
  BY <1>5, CdDonePromised
<1>6. CASE UNCHANGED vars
  <2>1. Kept' /\ Quiet
    BY <1>6, StutterKept
  <2> QED BY <2>1 DEF Promised
<1> QED BY <1>1, <1>2, <1>3, <1>4, <1>5, <1>6 DEF MarkedNext, Operation

(* The whole of the inductive invariant: with what the disk lags behind,   *)
(* what leads back, and what a power failure would leave, through every    *)
(* operation of the shell, every write of dskws2, refused or not, and a    *)
(* restart in init_fs.                                                     *)
THEOREM FileSystemInvariance == MarkedSpec => []FileSystemInvariant
<1>1. Init => FileSystemInvariant
  BY InitTyped, InitReadable, InitCurrent, InitLinked, InitKept DEF Stored, FileSystemInvariant
<1>2. FileSystemInvariant /\ [MarkedNext]_vars => FileSystemInvariant'
  BY NextStored, NextCurrent, NextLinked, NextPromised DEF FileSystemInvariant, Promised
<1> QED BY <1>1, <1>2, PTL DEF MarkedSpec

(* "cd .." leads back: between two commands, while the disk refused no     *)
(* write, the "." of every directory that is linked is itself and its ".." *)
(* the directory that holds its entry, whatever create_entry made and      *)
(* wherever power failed: init_directory writes a directory before the     *)
(* inode bitmap and the inode, and cd writes an entry only after those.    *)
THEOREM ParentsStayLinked == MarkedSpec => []ParentLinked
<1>1. FileSystemInvariant => ParentLinked
  BY LinkedParents DEF ParentLinked, FileSystemInvariant
<1> QED BY <1>1, FileSystemInvariance, PTL

(* The file system implements DirTree: until a directory gets its second   *)
(* sector or the disk refuses a write, create_entry adds one entry to what *)
(* ls shows, with an inode that no other has; the write of cd saves those  *)
(* of the current directory; cd leaves it only once they are saved, for a  *)
(* directory that an entry leads to; the writes of an inode and the maps   *)
(* show nothing; and init_fs brings back what was saved, all of it and     *)
(* nothing else, after a power failure between any two writes.             *)
THEOREM PromiseKept == MarkedSpec => TreeSpec
<1>1. Init => Tree!Init
  BY InitKept
<1>2. FileSystemInvariant /\ FileSystemInvariant' /\ [MarkedNext]_vars
        => [outgrown' \/ errors' > 0 \/ Tree!Next]_(Tree!vars)
  BY NextPromised DEF FileSystemInvariant, Promised, Quiet, Tree!vars
<1> QED BY <1>1, <1>2, FileSystemInvariance, PTL DEF MarkedSpec, TreeSpec
=============================================================================
