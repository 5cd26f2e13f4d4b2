------------------------------ MODULE HunkProofs ------------------------------
(***************************************************************************)
(* The hunk keeps data committed and gives memory back, and what a         *)
(* HunkUser is given may be written to: for a region and reservations of   *)
(* any size, any requests, alignments and permanent parts.                 *)
(***************************************************************************)
EXTENDS HunkMemory, SequenceTheorems, WellFoundedInduction, TLAPS

\* The sizes are numbers.
LEMMA Numbers ==
    /\ Page \in Nat \ {0} /\ Align \in Nat \ {0}
    /\ Total \in Nat \ {0} /\ UserSize \in Nat \ {0}
  BY HunkAssumption

USE Numbers

-----------------------------------------------------------------------------
(* Pages *)

\* Division rounds down.
LEMMA Division ==
    ASSUME NEW x \in Int, NEW d \in Nat \ {0}
    PROVE  /\ x \div d \in Int /\ d * (x \div d) \in Int
           /\ d * (x \div d) <= x /\ x < d * (x \div d) + d
  OBVIOUS

\* It is the only number that does.
LEMMA Quotient ==
    ASSUME NEW x \in Int, NEW d \in Nat \ {0}, NEW q \in Int, d * q <= x, x < d * q + d
    PROVE  x \div d = q
<1> DEFINE e == x \div d
<1>1. e \in Int /\ d * e <= x /\ x < d * e + d
  BY Division
<1> HIDE DEF e
<1>2. CASE e < q
  <2>1. d * (e + 1) <= d * q
    BY <1>1, <1>2
  <2> QED
    BY <1>1, <2>1
<1>3. CASE q < e
  <2>1. d * (q + 1) <= d * e
    BY <1>1, <1>3
  <2> QED
    BY <1>1, <2>1
<1> QED
  BY <1>1, <1>2, <1>3 DEF e

\* And it keeps the order.
LEMMA DivisionKeepsOrder ==
    ASSUME NEW x \in Int, NEW y \in Int, x <= y, NEW d \in Nat \ {0}
    PROVE  x \div d <= y \div d
<1> DEFINE e == x \div d
           f == y \div d
<1>1. e \in Int /\ f \in Int /\ d * e <= x /\ y < d * f + d
  BY Division
<1> HIDE DEF e, f
<1> SUFFICES ASSUME f < e PROVE FALSE
  BY <1>1 DEF e, f
<1>2. d * (f + 1) <= d * e
  BY <1>1
<1> QED
  BY <1>1, <1>2

\* A block is moved up to its alignment, by less than the alignment.
LEMMA AlignUpNear ==
    ASSUME NEW x \in Int, NEW a \in Nat \ {0}
    PROVE  AlignUp(x, a) \in Int /\ x <= AlignUp(x, a) /\ AlignUp(x, a) < x + a
<1> DEFINE q == (x + a - 1) \div a
<1>1. q \in Int /\ a * q <= x + a - 1 /\ x + a - 1 < a * q + a
  BY Division
<1>2. AlignUp(x, a) = q * a
  BY DEF AlignUp
<1> HIDE DEF q
<1>3. q * a = a * q /\ q * a \in Int
  BY <1>1
<1> QED
  BY <1>1, <1>2, <1>3

\* The page below which x ends, and the one it is in.
Ceil(x)  == PageUp(x) \div Page
Floor(x) == PageDown(x) \div Page

\* The pages of the region.
Count == Total \div Page

\* PageDown goes down by less than a page, and to a boundary.
LEMMA PageDownNear ==
    ASSUME NEW x \in Int
    PROVE  /\ PageDown(x) \in Int
           /\ PageDown(x) <= x /\ x < PageDown(x) + Page
           /\ Floor(x) \in Int /\ PageDown(x) = Page * Floor(x)
           /\ Floor(x) = x \div Page
<1> DEFINE q == x \div Page
<1>1. q \in Int /\ Page * q \in Int /\ Page * q <= x /\ x < Page * q + Page
  BY Division
<1>2. PageDown(x) = q * Page
  BY DEF PageDown
<1> HIDE DEF q
<1>3. q * Page = Page * q
  BY <1>1
<1>4. (Page * q) \div Page = q
  <2>1. Page * q \in Int /\ Page * q <= Page * q /\ Page * q < Page * q + Page
    BY <1>1
  <2> QED
    BY <1>1, <2>1, Quotient
<1>5. Floor(x) = q
  BY <1>2, <1>3, <1>4 DEF Floor
<1> QED
  BY <1>1, <1>2, <1>3, <1>5 DEF q

\* PageUp is the same of the last byte that would not need another page.
LEMMA PageUpIsDown ==
    ASSUME NEW x \in Int
    PROVE  x + Page - 1 \in Int /\ PageUp(x) = PageDown(x + Page - 1)
                                /\ Ceil(x) = Floor(x + Page - 1)
  BY DEF PageUp, PageDown, AlignUp, Ceil, Floor

\* PageUp goes up by less than a page, and to a boundary.
LEMMA PageUpNear ==
    ASSUME NEW x \in Int
    PROVE  /\ PageUp(x) \in Int /\ Ceil(x) \in Int
           /\ x <= PageUp(x) /\ PageUp(x) < x + Page
           /\ PageUp(x) = Page * Ceil(x)
<1> DEFINE y == x + Page - 1
<1>1. y \in Int /\ PageUp(x) = PageDown(y) /\ Ceil(x) = Floor(y)
  BY PageUpIsDown
<1>2. /\ PageDown(y) \in Int /\ PageDown(y) <= y /\ y < PageDown(y) + Page
      /\ Floor(y) \in Int /\ PageDown(y) = Page * Floor(y)
  BY <1>1, PageDownNear
<1> QED
  BY <1>1, <1>2

\* Both keep the order, and so do the pages they begin.
LEMMA PagesKeepOrder ==
    ASSUME NEW x \in Int, NEW y \in Int
    PROVE  /\ x <= y => Floor(x) <= Floor(y) /\ Ceil(x) <= Ceil(y)
           /\ PageUp(x) <= PageDown(y) => Ceil(x) <= Floor(y)
<1>1. x <= y => Floor(x) <= Floor(y)
  BY PageDownNear, DivisionKeepsOrder
<1>2. x <= y => Ceil(x) <= Ceil(y)
  <2> DEFINE v == x + Page - 1
             w == y + Page - 1
  <2>1. v \in Int /\ w \in Int /\ (x <= y => v <= w)
    OBVIOUS
  <2>2. Ceil(x) = Floor(v) /\ Ceil(y) = Floor(w)
    BY PageUpIsDown
  <2> HIDE DEF v, w
  <2>3. x <= y => Floor(v) <= Floor(w)
    BY <2>1, PageDownNear, DivisionKeepsOrder
  <2> QED
    BY <2>2, <2>3
<1>3. PageUp(x) <= PageDown(y) => Ceil(x) <= Floor(y)
  BY PageUpNear, PageDownNear, DivisionKeepsOrder DEF Ceil, Floor
<1> QED
  BY <1>1, <1>2, <1>3

\* A multiple of the page is a boundary.
LEMMA Boundary ==
    ASSUME NEW x \in Nat, x % Page = 0
    PROVE  /\ PageUp(x) = x /\ PageDown(x) = x
           /\ Ceil(x) = x \div Page /\ Floor(x) = x \div Page
<1> DEFINE q == x \div Page
<1>1. q \in Int /\ x = Page * q
  <2>1. x = Page * (x \div Page) + (x % Page) /\ x \div Page \in Int
    OBVIOUS
  <2> QED
    BY <2>1
<1>2. q * Page = Page * q
  BY <1>1
<1>3. (x + Page - 1) \div Page = q
  <2>1. x + Page - 1 \in Int /\ Page * q <= x + Page - 1 /\ x + Page - 1 < Page * q + Page
    BY <1>1
  <2> HIDE DEF q
  <2> QED
    BY <1>1, <2>1, Quotient
<1>4. PageUp(x) = x /\ PageDown(x) = x
  BY <1>1, <1>2, <1>3 DEF PageUp, PageDown, AlignUp
<1> QED
  BY <1>4 DEF Ceil, Floor

\* What lies in the region ends in the region.
LEMMA InRegion ==
    ASSUME NEW x \in Int
    PROVE  /\ Count \in Nat
           /\ x >= 0 => PageDown(x) >= 0 /\ Floor(x) >= 0 /\ Ceil(x) >= 0
           /\ x <= Total => PageUp(x) <= Total /\ Ceil(x) <= Count /\ Floor(x) <= Count
<1>1. Floor(0) = 0 /\ Ceil(0) = 0 /\ PageDown(0) = 0
  <2>1. 0 % Page = 0 /\ 0 \div Page = 0
    <3>1. 0 \in Int /\ Page * 0 <= 0 /\ 0 < Page * 0 + Page
      OBVIOUS
    <3>2. 0 \div Page = 0
      BY <3>1, Quotient
    <3>3. 0 = Page * (0 \div Page) + (0 % Page)
      OBVIOUS
    <3> QED
      BY <3>2, <3>3
  <2> QED
    BY <2>1, Boundary
<1>2. Floor(Total) = Count /\ Ceil(Total) = Count /\ PageUp(Total) = Total
  BY Boundary, HunkAssumption DEF Count
<1>3. Count \in Nat
  <2>1. Floor(0) <= Floor(Total) /\ Floor(Total) \in Int
    BY PagesKeepOrder, PageDownNear
  <2> QED
    BY <1>1, <1>2, <2>1
<1>4. x >= 0 => Floor(x) >= 0 /\ Ceil(x) >= 0
  BY <1>1, PagesKeepOrder
<1>5. x >= 0 => PageDown(x) >= 0
  <2>1. PageDown(x) = Page * Floor(x) /\ Floor(x) \in Int
    BY PageDownNear
  <2> QED
    BY <1>4, <2>1
<1>6. x <= Total => Ceil(x) <= Count /\ Floor(x) <= Count
  BY <1>2, PagesKeepOrder
<1>7. x <= Total => PageUp(x) <= Total
  <2>1. PageUp(x) = Page * Ceil(x) /\ Ceil(x) \in Int
    BY PageUpNear
  <2>2. Total = Page * Count
    BY <1>2, PageUpNear
  <2>3. Ceil(x) <= Count => Page * Ceil(x) <= Page * Count
    BY <1>3, <2>1
  <2> QED
    BY <1>6, <2>1, <2>2, <2>3
<1> QED
  BY <1>3, <1>4, <1>5, <1>6, <1>7

\* The pages between two cursors.
LEMMA PagesBetween ==
    /\ PagesOf(0, Total) = 0..(Count - 1)
    /\ \A x : PagesOf(0, PageUp(x)) = 0..(Ceil(x) - 1)
    /\ \A x : PagesOf(PageDown(x), Total) = Floor(x)..(Count - 1)
    /\ \A x, y : PagesOf(PageDown(x), PageDown(y)) = Floor(x)..(Floor(y) - 1)
    /\ \A x, y : PagesOf(PageUp(x), PageUp(y)) = Ceil(x)..(Ceil(y) - 1)
<1>1. 0 \div Page = 0
  <2>1. 0 \in Int /\ Page * 0 <= 0 /\ 0 < Page * 0 + Page
    OBVIOUS
  <2> QED
    BY <2>1, Quotient
<1> QED
  BY <1>1 DEF PagesOf, Ceil, Floor, Count

-----------------------------------------------------------------------------
(* Blocks on a stack *)

\* A set of numbers has a least one.
LEMMA LeastOf ==
    ASSUME NEW T \in SUBSET Nat, T # {}
    PROVE  \E m \in T : \A k \in T : m <= k
<1> DEFINE R == OpToRel(<, Nat)
<1>1. IsWellFoundedOn(R, Nat)
  BY NatLessThanWellFounded
<1>2. \A x, y \in Nat : x < y => <<x, y>> \in R
  BY DEF OpToRel
<1> HIDE DEF R
<1>3. PICK m \in T : \A k \in T : ~(<<k, m>> \in R)
  BY <1>1, WFMin
<1>4. ASSUME NEW k \in T PROVE m <= k
  <2>1. m \in Nat /\ k \in Nat /\ ~(k < m)
    BY <1>2, <1>3
  <2> QED
    BY <2>1
<1> QED
  BY <1>4

\* The ends of the first n blocks.
Ends(f, n, base, blocks) ==
    f = [i \in 0..n |-> IF i = 0 THEN base ELSE f[i - 1] + blocks[i].size]

\* There are such ends.
LEMMA EndsExist ==
    ASSUME NEW base, NEW blocks, NEW n \in Nat
    PROVE  \E f : Ends(f, n, base, blocks)
<1> DEFINE T == {m \in 0..n : ~ \E f : Ends(f, m, base, blocks)}
<1> SUFFICES ASSUME T # {} PROVE FALSE
  OBVIOUS
<1>1. PICK m \in T : \A k \in T : m <= k
  <2>1. T \in SUBSET Nat
    OBVIOUS
  <2> HIDE DEF T
  <2> QED
    BY <2>1, LeastOf
<1>2. CASE m = 0
  <2>1. Ends([i \in 0..0 |-> base], 0, base, blocks)
    BY DEF Ends
  <2> QED
    BY <1>1, <1>2, <2>1
<1>3. CASE m # 0
  <2>1. m - 1 \in 0..n /\ m \in Nat /\ m - 1 \notin T
    BY <1>1, <1>3
  <2>2. PICK f : Ends(f, m - 1, base, blocks)
    BY <2>1
  <2> DEFINE last == f[m - 1] + blocks[m].size
             g == [i \in 0..m |-> IF i < m THEN f[i] ELSE last]
  <2>3. \A i \in 0..m : i < m => g[i] = f[i]
    BY <2>1
  <2>4. g[m] = last
    BY <2>1
  <2>5. ASSUME NEW i \in 0..m
        PROVE  g[i] = IF i = 0 THEN base ELSE g[i - 1] + blocks[i].size
    <3>1. CASE i < m
      <4>1. i \in 0..(m - 1) /\ (i # 0 => i - 1 \in 0..m /\ i - 1 < m)
        BY <2>1, <3>1
      <4>2. f[i] = IF i = 0 THEN base ELSE f[i - 1] + blocks[i].size
        BY <2>2, <4>1 DEF Ends
      <4> HIDE DEF g
      <4> QED
        BY <2>3, <3>1, <4>1, <4>2
    <3>2. CASE i = m
      <4>1. m - 1 \in 0..m /\ m - 1 < m
        BY <2>1
      <4>2. g[m - 1] = f[m - 1]
        BY <2>3, <4>1
      <4> HIDE DEF g
      <4> QED
        BY <1>3, <2>4, <3>2, <4>2
    <3> QED
      BY <2>1, <3>1, <3>2
  <2>6. Ends(g, m, base, blocks)
    <3>1. g = [i \in 0..m |-> g[i]]
      OBVIOUS
    <3> HIDE DEF g
    <3> QED
      BY <2>5, <3>1 DEF Ends
  <2> QED
    BY <1>1, <2>6
<1> QED
  BY <1>2, <1>3

\* StackEnd is the last of them.
LEMMA StackEndIsLast ==
    ASSUME NEW base, NEW blocks, Len(blocks) \in Nat
    PROVE  \E f : /\ Ends(f, Len(blocks), base, blocks)
                  /\ StackEnd(base, blocks) = f[Len(blocks)]
<1> DEFINE f == CHOOSE g : g = [i \in 0..Len(blocks) |->
                  IF i = 0 THEN base ELSE g[i - 1] + blocks[i].size]
<1>1. StackEnd(base, blocks) = f[Len(blocks)]
  BY DEF StackEnd
<1>2. \E g : Ends(g, Len(blocks), base, blocks)
  BY EndsExist
<1>3. Ends(f, Len(blocks), base, blocks)
  BY <1>2 DEF Ends
<1> QED
  BY <1>1, <1>3

\* They follow from the sizes.
SameSizes(n, b, c) == \A i \in 1..n : b[i].size = c[i].size

\* Stacks of the same sizes on the same base end at the same place, block by block.
LEMMA EndsAgree ==
    ASSUME NEW n \in Nat, NEW k \in Nat, n <= k, NEW f, NEW g, NEW base, NEW b, NEW c,
           Ends(f, n, base, b), Ends(g, k, base, c), SameSizes(n, b, c)
    PROVE  f[n] = g[n]
<1> DEFINE T == {m \in 0..n : f[m] # g[m]}
<1> SUFFICES ASSUME T # {} PROVE FALSE
  OBVIOUS
<1>1. PICK m \in T : \A i \in T : m <= i
  <2>1. T \in SUBSET Nat
    OBVIOUS
  <2> HIDE DEF T
  <2> QED
    BY <2>1, LeastOf
<1>2. \A i \in 0..n : f[i] = IF i = 0 THEN base ELSE f[i - 1] + b[i].size
  BY DEF Ends
<1>3. \A i \in 0..k : g[i] = IF i = 0 THEN base ELSE g[i - 1] + c[i].size
  BY DEF Ends
<1>4. m \in 0..n /\ m \in 0..k
  BY <1>1
<1>5. CASE m = 0
  BY <1>1, <1>2, <1>3, <1>4, <1>5
<1>6. CASE m # 0
  <2>1. m \in 1..n /\ m - 1 \in 0..n /\ m - 1 \notin T
    BY <1>1, <1>4, <1>6
  <2>2. f[m - 1] = g[m - 1] /\ b[m].size = c[m].size
    BY <2>1 DEF SameSizes
  <2> QED
    BY <1>1, <1>2, <1>3, <1>4, <1>6, <2>2
<1> QED
  BY <1>5, <1>6

\* No block pulls the end below the base.
LEMMA EndsAbove ==
    ASSUME NEW n \in Nat, NEW f, NEW base \in Nat, NEW b, Ends(f, n, base, b),
           \A i \in 1..n : b[i].size \in Nat
    PROVE  f[n] \in Nat /\ f[n] >= base
<1> DEFINE T == {m \in 0..n : ~(f[m] \in Nat /\ f[m] >= base)}
<1> SUFFICES ASSUME T # {} PROVE FALSE
  OBVIOUS
<1>1. PICK m \in T : \A i \in T : m <= i
  <2>1. T \in SUBSET Nat
    OBVIOUS
  <2> HIDE DEF T
  <2> QED
    BY <2>1, LeastOf
<1>2. \A i \in 0..n : f[i] = IF i = 0 THEN base ELSE f[i - 1] + b[i].size
  BY DEF Ends
<1>3. m \in 0..n
  BY <1>1
<1>4. CASE m = 0
  BY <1>1, <1>2, <1>3, <1>4
<1>5. CASE m # 0
  <2>1. m \in 1..n /\ m - 1 \in 0..n /\ m - 1 \notin T
    BY <1>1, <1>3, <1>5
  <2>2. f[m - 1] \in Nat /\ f[m - 1] >= base /\ b[m].size \in Nat
    BY <2>1
  <2> QED
    BY <1>1, <1>2, <1>3, <1>5, <2>2
<1> QED
  BY <1>4, <1>5

\* The fields of a header as numbers.
LEMMA BlockFields ==
    ASSUME NEW b \in Block
    PROVE  b.hdr \in Nat /\ b.size \in Nat /\ b.magic \in BOOLEAN
  BY DEF Block

\* A stack does not end below its base.
LEMMA StackEndAbove ==
    ASSUME NEW base \in Nat, NEW blocks \in Seq(Block)
    PROVE  StackEnd(base, blocks) \in Nat /\ StackEnd(base, blocks) >= base
<1>1. PICK f : Ends(f, Len(blocks), base, blocks) /\ StackEnd(base, blocks) = f[Len(blocks)]
  BY StackEndIsLast
<1>2. Len(blocks) \in Nat /\ \A i \in 1..Len(blocks) : blocks[i].size \in Nat
  <2>1. Len(blocks) \in Nat /\ \A i \in 1..Len(blocks) : blocks[i] \in Block
    OBVIOUS
  <2> QED
    BY <2>1, BlockFields
<1> QED
  BY <1>1, <1>2, EndsAbove

\* Nothing is stacked on the base.
LEMMA StackEndEmpty ==
    ASSUME NEW base
    PROVE  StackEnd(base, <<>>) = base
<1>1. PICK f : Ends(f, 0, base, <<>>) /\ StackEnd(base, <<>>) = f[0]
  BY StackEndIsLast
<1> QED
  BY <1>1 DEF Ends

\* Marking blocks moves none.
LEMMA StackEndSame ==
    ASSUME NEW base, NEW b, NEW c, Len(b) \in Nat, Len(c) = Len(b), SameSizes(Len(b), b, c)
    PROVE  StackEnd(base, b) = StackEnd(base, c)
<1>1. PICK f : Ends(f, Len(b), base, b) /\ StackEnd(base, b) = f[Len(b)]
  BY StackEndIsLast
<1>2. PICK g : Ends(g, Len(b), base, c) /\ StackEnd(base, c) = g[Len(b)]
  BY StackEndIsLast
<1> QED
  BY <1>1, <1>2, EndsAgree

\* The last block ends where the others do and its size further.
LEMMA StackEndLast ==
    ASSUME NEW base, NEW b, NEW c, NEW n \in Nat, Len(b) = n, Len(c) = n + 1,
           SameSizes(n, b, c)
    PROVE  StackEnd(base, c) = StackEnd(base, b) + c[n + 1].size
<1>1. PICK f : Ends(f, n, base, b) /\ StackEnd(base, b) = f[n]
  BY StackEndIsLast
<1>2. PICK g : Ends(g, n + 1, base, c) /\ StackEnd(base, c) = g[n + 1]
  BY StackEndIsLast
<1>3. f[n] = g[n]
  <2>1. n + 1 \in Nat /\ n <= n + 1
    OBVIOUS
  <2> QED
    BY <1>1, <1>2, <2>1, EndsAgree
<1>4. g[n + 1] = g[n] + c[n + 1].size
  <2>1. \A i \in 0..(n + 1) : g[i] = IF i = 0 THEN base ELSE g[i - 1] + c[i].size
    BY <1>2 DEF Ends
  <2>2. n + 1 \in 0..(n + 1) /\ n + 1 # 0 /\ (n + 1) - 1 = n
    OBVIOUS
  <2> QED
    BY <2>1, <2>2
<1> QED
  BY <1>1, <1>2, <1>3, <1>4

\* A block put on a stack raises its end by its size,
LEMMA StackEndAppend ==
    ASSUME NEW base, NEW blocks \in Seq(Block), NEW block \in Block
    PROVE  StackEnd(base, Append(blocks, block)) = StackEnd(base, blocks) + block.size
<1> DEFINE n == Len(blocks)
           c == Append(blocks, block)
<1>1. n \in Nat /\ Len(c) = n + 1 /\ c[n + 1] = block /\ \A i \in 1..n : c[i] = blocks[i]
  BY AppendProperties
<1> HIDE DEF n, c
<1>2. SameSizes(n, blocks, c)
  BY <1>1 DEF SameSizes
<1>3. StackEnd(base, c) = StackEnd(base, blocks) + c[n + 1].size
  <2>1. Len(blocks) = n
    BY DEF n
  <2> QED
    BY <1>1, <1>2, <2>1, StackEndLast
<1> QED
  BY <1>1, <1>3 DEF c

\* Front and Last take a stack apart.
LEMMA FrontAndLast ==
    ASSUME NEW S, NEW s \in Seq(S), s # <<>>
    PROVE  /\ Len(s) \in Nat /\ Len(s) >= 1 /\ Last(s) \in S
           /\ Front(s) \in Seq(S) /\ Len(Front(s)) = Len(s) - 1
           /\ \A i \in 1..(Len(s) - 1) : Front(s)[i] = s[i]
<1>1. Len(s) \in Nat /\ Len(s) >= 1 /\ Last(s) \in S
  BY EmptySeq DEF Last
<1> DEFINE n == Len(s) - 1
<1>2. Front(s) = SubSeq(s, 1, n)
  BY DEF Front
<1>3. n \in Nat /\ Len(s) = n + 1 /\ \A i \in 1..n : s[i] \in S
  BY <1>1
<1> HIDE DEF n
<1>4. /\ SubSeq(s, 1, n) \in Seq(S)
      /\ Len(SubSeq(s, 1, n)) = IF 1 <= n THEN n - 1 + 1 ELSE 0
      /\ \A i \in 1..(n - 1 + 1) : SubSeq(s, 1, n)[i] = s[1 + i - 1]
  BY <1>3, SubSeqProperties
<1>5. \A i \in 1..n : i \in 1..(n - 1 + 1) /\ 1 + i - 1 = i
  BY <1>3
<1> QED
  BY <1>1, <1>2, <1>3, <1>4, <1>5 DEF n

\* and one taken off lowers it by that.
LEMMA StackEndFront ==
    ASSUME NEW base \in Nat, NEW blocks \in Seq(Block), blocks # <<>>
    PROVE  StackEnd(base, Front(blocks)) = StackEnd(base, blocks) - Last(blocks).size
<1> DEFINE n == Len(Front(blocks))
           b == Front(blocks)
<1>1. /\ n \in Nat /\ Len(blocks) = n + 1 /\ b \in Seq(Block)
      /\ \A i \in 1..n : b[i] = blocks[i]
      /\ Last(blocks) = blocks[n + 1] /\ Last(blocks) \in Block
  BY FrontAndLast DEF Last
<1>2. SameSizes(n, b, blocks)
  BY <1>1 DEF SameSizes
<1>3. StackEnd(base, b) \in Nat /\ Last(blocks).size \in Nat
  BY <1>1, StackEndAbove, BlockFields
<1>4. Len(b) = n
  OBVIOUS
<1> HIDE DEF n, b
<1>5. StackEnd(base, blocks) = StackEnd(base, b) + Last(blocks).size
  BY <1>1, <1>2, <1>4, StackEndLast
<1> QED
  BY <1>3, <1>5 DEF b

-----------------------------------------------------------------------------
(* Giving pages back *)

\* A header after its page may have gone.
Marked(block, committed) ==
    [block EXCEPT !.magic = @ /\ block.hdr \div Page \in committed]

\* It is still a header, of a block of that size.
LEMMA MarkedIsBlock ==
    ASSUME NEW block \in Block, NEW committed
    PROVE  Marked(block, committed) \in Block /\ Marked(block, committed).size = block.size
<1>1. block \in [hdr : 0..Total, size : 0..Total, magic : BOOLEAN]
  BY DEF Block
<1>2. (block.magic /\ block.hdr \div Page \in committed) \in BOOLEAN
  BY Zenon
<1>3. Marked(block, committed) \in Block
  BY <1>1, <1>2, Zenon DEF Marked, Block
<1> QED
  BY <1>1, <1>3 DEF Marked

\* No block moves, and pages go only if all of them are in the region.
LEMMA DecommitKeepsBlocks ==
    ASSUME NEW lo \in Int, NEW hi \in Int, NEW blocks \in Seq(Block),
           Decommit(lo, hi, blocks)
    PROVE  /\ lowBlocks' \in Seq(Block)
           /\ \A base : StackEnd(base, lowBlocks') = StackEnd(base, blocks)
           /\ lo < 0 \/ hi > Total => pages' = pages
           /\ ~(lo < 0 \/ hi > Total) => pages' = pages \ PagesOf(lo, hi)
<1>1. CASE lo < 0 \/ hi > Total
  BY <1>1 DEF Decommit
<1>2. CASE ~(lo < 0 \/ hi > Total)
  <2> DEFINE marked == [i \in DOMAIN blocks |-> Marked(blocks[i], pages')]
             n == Len(blocks)
  <2>1. lowBlocks' = marked /\ pages' = pages \ PagesOf(lo, hi)
    BY <1>2 DEF Decommit, Marked
  <2>2. /\ n \in Nat /\ DOMAIN blocks = 1..n
        /\ \A i \in 1..n : /\ Marked(blocks[i], pages') \in Block
                           /\ Marked(blocks[i], pages').size = blocks[i].size
    BY MarkedIsBlock
  <2>3. marked = [i \in 1..n |-> Marked(blocks[i], pages')]
    BY <2>2
  <2>4. marked \in Seq(Block) /\ Len(marked) = n
    <3> HIDE DEF n
    <3> QED
      BY <2>2, <2>3, IsASeq
  <2>5. SameSizes(n, blocks, marked)
    BY <2>2, <2>3 DEF SameSizes
  <2> HIDE DEF marked
  <2>6. \A base : StackEnd(base, marked) = StackEnd(base, blocks)
    BY <2>2, <2>4, <2>5, StackEndSame
  <2> QED
    BY <1>2, <2>1, <2>4, <2>6
<1> QED
  BY <1>1, <1>2

-----------------------------------------------------------------------------
(* The invariant *)

\* What the cursors say is what is in use, but for the request that has just failed,
\* whose cursor is too far up; and the two sides leave each other their bytes.
Bounds ==
    /\ LowEnd <= low.temp /\ highLive <= high.temp
    /\ high.permanent <= highLive
    /\ LowEnd + highLive <= Total
    /\ high.temp # highLive => low.temp = LowEnd
    /\ ~dropped => low.temp = LowEnd /\ high.temp = highLive

Inv == TypeOK /\ Bounds /\ UserAddressCommitted /\ user.chain # <<>>

\* The action properties of a step.
LiveStays == SidesMeet \/ LivePages' \ pages' \subseteq LivePages \ pages
Returned  == dropped \/ pages' \ LivePages' \subseteq pages \ LivePages
ExactFit  ==
    fatal' = "out of memory" /\ fatal = "no" =>
        LET r == Last(user'.chain) IN r.pos = UserSize /\ r.locked < UserSize

\* The fields as numbers.
Fields ==
    /\ low.permanent \in LowMarks /\ low.permanent \in Nat /\ low.temp \in Nat
    /\ high.permanent \in HighMarks /\ high.permanent \in Nat /\ high.temp \in Nat
    /\ low = [permanent |-> low.permanent, temp |-> low.temp]
    /\ high = [permanent |-> high.permanent, temp |-> high.temp]
    /\ highLive \in Nat /\ highLive <= Total
    /\ lowBlocks \in Seq(Block)
    /\ LowEnd \in Nat /\ low.permanent <= LowEnd
    /\ pages \subseteq 0..(Count - 1)
    /\ dropped \in BOOLEAN

\* They follow from the types.
LEMMA StateTyped == ASSUME TypeOK PROVE Fields
<1>1. /\ low.permanent \in LowMarks /\ low.temp \in Nat
      /\ high.permanent \in HighMarks /\ high.temp \in Nat
      /\ low = [permanent |-> low.permanent, temp |-> low.temp]
      /\ high = [permanent |-> high.permanent, temp |-> high.temp]
      /\ highLive \in Nat /\ highLive <= Total
      /\ lowBlocks \in Seq(Block)
  <2>1. /\ low \in [permanent : LowMarks, temp : Nat]
        /\ high \in [permanent : HighMarks, temp : Nat]
        /\ highLive \in 0..Total /\ lowBlocks \in Seq(Block)
    BY Zenon DEF TypeOK
  <2>2. /\ low.permanent \in LowMarks /\ low.temp \in Nat
        /\ low = [permanent |-> low.permanent, temp |-> low.temp]
    BY <2>1
  <2>3. /\ high.permanent \in HighMarks /\ high.temp \in Nat
        /\ high = [permanent |-> high.permanent, temp |-> high.temp]
    BY <2>1
  <2> QED
    BY <2>1, <2>2, <2>3
<1>2. low.permanent \in Nat /\ high.permanent \in Nat
  BY <1>1, HunkAssumption
<1>3. LowEnd \in Nat /\ low.permanent <= LowEnd
  BY <1>1, <1>2, StackEndAbove DEF LowEnd
<1>4. pages \subseteq 0..(Count - 1)
  BY PagesBetween DEF TypeOK
<1> QED
  BY <1>1, <1>2, <1>3, <1>4 DEF Fields, TypeOK

\* The pages of the data, by number.
LEMMA LivePagesAre == LivePages = 0..(Ceil(LowEnd) - 1) \cup Floor(Total - highLive)..(Count - 1)
  BY PagesBetween DEF LivePages

\* A page and the header of a HunkUser are in a reservation, which is a number of pages.
LEMMA HeaderFits ==
    /\ UserHeader \in Nat /\ UserHeader < Page /\ Page <= UserSize
    /\ UserSize = PageDown(UserSize)
<1>1. UserHeader \in Nat /\ UserHeader < Page /\ UserSize % Page = 0
  BY HunkAssumption
<1>2. UserSize = PageDown(UserSize)
  BY <1>1, Boundary
<1>3. Page <= UserSize
  <2> DEFINE k == Floor(UserSize)
  <2>1. k \in Int /\ UserSize = Page * k
    BY <1>2, PageDownNear
  <2> HIDE DEF k
  <2>2. k >= 1
    <3> SUFFICES ASSUME k <= 0 PROVE FALSE
      BY <2>1
    <3>1. Page * k <= Page * 0
      BY <2>1
    <3> QED
      BY <2>1, <3>1
  <2>3. Page * 1 <= Page * k
    BY <2>1, <2>2
  <2> QED
    BY <2>1, <2>3
<1> QED
  BY <1>1, <1>2, <1>3

\* The permanent parts fit.
LEMMA InitHolds == Init => Inv
<1> SUFFICES ASSUME Init PROVE Inv
  OBVIOUS
<1>1. PICK l \in LowMarks, h \in HighMarks :
         /\ low = [permanent |-> l, temp |-> l]
         /\ high = [permanent |-> h, temp |-> h]
         /\ highLive = h
         /\ pages = PagesOf(0, PageUp(l)) \cup PagesOf(PageDown(Total - h), Total)
  BY DEF Init
<1>2. l \in Nat /\ h \in Nat /\ l + h <= Total
  BY HunkAssumption
<1>3. lowBlocks = <<>> /\ LowEnd = l
  BY <1>1, StackEndEmpty DEF Init, LowEnd
<1>4. pages \subseteq PagesOf(0, Total)
  <2> DEFINE d == Total - h
  <2>1. d \in Int /\ d >= 0 /\ d <= Total /\ l >= 0 /\ l <= Total
    BY <1>2
  <2>2. Ceil(l) \in Int /\ Floor(d) \in Int
    BY <1>2, <2>1, PageUpNear, PageDownNear
  <2>3. Count \in Nat /\ Ceil(l) <= Count /\ Floor(d) >= 0
    BY <1>2, <2>1, InRegion
  <2>4. pages = 0..(Ceil(l) - 1) \cup Floor(d)..(Count - 1)
    BY <1>1, PagesBetween
  <2> HIDE DEF d
  <2> QED
    BY <2>2, <2>3, <2>4, PagesBetween
<1>5. user.chain = <<NewReservation>> /\ user \in [fixed : BOOLEAN, chain : {<<NewReservation>>}]
  BY DEF Init
<1>6. NewReservation \in Reservation /\ NewReservation.pos < NewReservation.locked
  BY HeaderFits DEF NewReservation, Reservation
<1>7. user \in [fixed : BOOLEAN, chain : Seq(Reservation)]
  <2>1. <<NewReservation>> \in Seq(Reservation)
    BY <1>6
  <2> QED
    BY <1>5, <2>1
<1>8. TypeOK
  <2>1. low \in [permanent : LowMarks, temp : Nat] /\ high \in [permanent : HighMarks, temp : Nat]
    BY <1>1, <1>2
  <2>2. highLive \in 0..Total /\ lowBlocks \in Seq(Block)
    BY <1>1, <1>2, <1>3
  <2>3. dropped \in BOOLEAN /\ fatal = "no"
    BY DEF Init
  <2> QED
    BY <1>4, <1>7, <2>1, <2>2, <2>3 DEF TypeOK
<1>9. Bounds
  BY <1>1, <1>2, <1>3 DEF Bounds
<1>10. UserAddressCommitted
  BY <1>5, <1>6 DEF UserAddressCommitted
<1> QED
  BY <1>5, <1>8, <1>9, <1>10 DEF Inv

-----------------------------------------------------------------------------
(* Memory *)

\* A step of the hunk proper leaves the HunkUser alone.
LEMMA UserUnchanged ==
    ASSUME Inv, UNCHANGED user, fatal' \in {fatal, "access violation", "bad magic"}
    PROVE  /\ UserAddressCommitted' /\ user'.chain # <<>>
           /\ user' \in [fixed : BOOLEAN, chain : Seq(Reservation)]
           /\ fatal' \in {"no", "access violation", "bad magic", "out of memory", "user full"}
           /\ ExactFit
<1>1. /\ user \in [fixed : BOOLEAN, chain : Seq(Reservation)]
      /\ fatal \in {"no", "access violation", "bad magic", "out of memory", "user full"}
  BY Zenon DEF Inv, TypeOK
<1>2. UserAddressCommitted' /\ user'.chain # <<>>
  <2>1. fatal' = "no" => fatal = "no"
    BY <1>1
  <2>2. UserAddressCommitted /\ user.chain # <<>>
    BY DEF Inv
  <2> QED
    BY <2>1, <2>2 DEF UserAddressCommitted
<1>3. ExactFit
  BY DEF ExactFit
<1> QED
  BY <1>1, <1>2, <1>3

\* What every step has to show.
Keeps == Inv' /\ LiveStays /\ Returned /\ ExactFit

\* What shares the region with something fits into it.
LEMMA LeavesRoom ==
    ASSUME NEW a \in Nat, NEW b \in Nat, a + b <= Total
    PROVE  b \in 0..Total
  OBVIOUS

\* The parts of it that are the hunk's, in numbers.
LEMMA HunkKept ==
    ASSUME NEW lp \in LowMarks, NEW lt \in Nat, NEW hp \in HighMarks, NEW ht \in Nat,
           NEW le \in Nat, NEW hl \in Nat,
           Inv, UNCHANGED user, fatal' \in {fatal, "access violation", "bad magic"},
           low' = [permanent |-> lp, temp |-> lt], high' = [permanent |-> hp, temp |-> ht],
           lowBlocks' \in Seq(Block), LowEnd' = le, highLive' = hl,
           dropped' \in BOOLEAN, pages' \subseteq 0..(Count - 1),
           le <= lt, hp <= hl, hl <= ht, le + hl <= Total,
           ht # hl => lt = le, ~dropped' => lt = le /\ ht = hl
    PROVE  Inv' /\ ExactFit
<1>1. /\ UserAddressCommitted' /\ user'.chain # <<>>
      /\ user' \in [fixed : BOOLEAN, chain : Seq(Reservation)]
      /\ fatal' \in {"no", "access violation", "bad magic", "out of memory", "user full"}
      /\ ExactFit
  BY UserUnchanged
<1>2. Bounds'
  BY DEF Bounds
<1>3. TypeOK'
  <2>1. /\ low' \in [permanent : LowMarks, temp : Nat]
        /\ high' \in [permanent : HighMarks, temp : Nat]
        /\ highLive' \in 0..Total
    <3>1. hl \in 0..Total
      BY LeavesRoom
    <3> QED
      BY <3>1
  <2>2. pages' \subseteq PagesOf(0, Total)
    BY PagesBetween
  <2> QED
    BY <1>1, <2>1, <2>2 DEF TypeOK
<1> QED
  BY <1>1, <1>2, <1>3 DEF Inv

\* Where the hunk does not change at all.
LEMMA FlatUnchanged ==
    ASSUME UNCHANGED flat
    PROVE  LivePages' = LivePages /\ pages' = pages /\ LiveStays /\ Returned
<1>1. LowEnd' = LowEnd /\ highLive' = highLive /\ pages' = pages
  BY DEF flat, LowEnd
<1>2. LivePages' = LivePages
  BY <1>1 DEF LivePages
<1> QED
  BY <1>1, <1>2 DEF LiveStays, Returned

\* The invariant of the hunk does not speak of the HunkUser.
LEMMA FlatHolds ==
    ASSUME TypeOK, Bounds, UNCHANGED flat,
           user' \in [fixed : BOOLEAN, chain : Seq(Reservation)],
           fatal' \in {"no", "access violation", "bad magic", "out of memory", "user full"}
    PROVE  TypeOK' /\ Bounds'
<1>1. /\ low' = low /\ high' = high /\ pages' = pages /\ lowBlocks' = lowBlocks
      /\ highLive' = highLive /\ dropped' = dropped /\ LowEnd' = LowEnd
  BY DEF flat, LowEnd
<1>2. TypeOK'
  BY <1>1, Zenon DEF TypeOK
<1>3. Bounds'
  BY <1>1 DEF Bounds
<1> QED
  BY <1>2, <1>3

\* A step on which the hunk stays as it is, though it may be its last.
LEMMA FlatKeeps ==
    ASSUME Inv, UNCHANGED <<flat, user>>, fatal' \in {fatal, "access violation", "bad magic"}
    PROVE  Keeps
<1>1. /\ UserAddressCommitted' /\ user'.chain # <<>>
      /\ user' \in [fixed : BOOLEAN, chain : Seq(Reservation)]
      /\ fatal' \in {"no", "access violation", "bad magic", "out of memory", "user full"}
      /\ ExactFit
  BY UserUnchanged
<1>2. TypeOK' /\ Bounds'
  BY <1>1, FlatHolds DEF Inv
<1> QED
  BY <1>1, <1>2, FlatUnchanged DEF Inv, Keeps

\* Hunk_AllocateTempMemoryHigh commits the pages it moves into, the whole of them and
\* nothing else.
LEMMA AllocateHighKeeps ==
    ASSUME Inv, NEW size \in Sizes, AllocateTempMemoryHigh(size)
    PROVE  Keeps
<1> DEFINE hi == AlignUp(high.temp + size, Align)
<1>1. TypeOK /\ Bounds /\ ~dropped /\ size \in Nat
  BY HunkAssumption DEF Inv, AllocateTempMemoryHigh, Runs
<1>2. Fields
  BY <1>1, StateTyped
<1>3. /\ LowEnd = low.temp /\ highLive = high.temp /\ high.permanent <= highLive
      /\ LowEnd + highLive <= Total
  BY <1>1 DEF Bounds
<1>4. hi \in Nat /\ high.temp <= hi
  <2> DEFINE x == high.temp + size
  <2>1. x \in Nat /\ high.temp \in Nat /\ high.temp <= x
    BY <1>1, <1>2 DEF Fields
  <2> HIDE DEF x
  <2>2. AlignUp(x, Align) \in Int /\ x <= AlignUp(x, Align)
    BY <2>1, AlignUpNear
  <2> QED
    BY <2>1, <2>2 DEF x
<1>5. /\ high' = [permanent |-> high.permanent, temp |-> hi]
      /\ dropped' = (hi + low.temp > Total)
      /\ low' = low /\ lowBlocks' = lowBlocks /\ user' = user /\ fatal' = fatal
      /\ LowEnd' = LowEnd
  BY <1>2 DEF AllocateTempMemoryHigh, LowEnd, Fields
<1> HIDE DEF hi
<1>6. CASE hi + low.temp > Total
  <2>1. pages' = pages /\ highLive' = highLive /\ dropped'
    BY <1>5, <1>6 DEF AllocateTempMemoryHigh, hi
  <2>2. Inv' /\ ExactFit
    BY <1>2, <1>3, <1>4, <1>5, <2>1, HunkKept DEF Fields
  <2>3. LivePages' = LivePages
    BY <1>5, <2>1, LivePagesAre DEF LivePages
  <2> QED
    BY <2>1, <2>2, <2>3 DEF Keeps, LiveStays, Returned
<1>7. CASE ~(hi + low.temp > Total)
  <2> DEFINE a == Floor(Total - hi)
             b == Floor(Total - high.temp)
             c == Ceil(LowEnd)
  <2>1. pages' = pages \cup a..(b - 1) /\ highLive' = hi /\ ~dropped'
    BY <1>5, <1>7, PagesBetween DEF AllocateTempMemoryHigh, hi
  <2>2. a \in Int /\ b \in Int /\ c \in Int /\ Count \in Nat /\ 0 <= a /\ a <= b /\ b <= Count
    <3> DEFINE x == Total - hi
               y == Total - high.temp
    <3>1. x \in Int /\ y \in Int /\ 0 <= x /\ x <= y /\ y <= Total
      BY <1>2, <1>4, <1>7 DEF Fields
    <3> HIDE DEF x, y
    <3>2. /\ Floor(x) \in Int /\ Floor(y) \in Int /\ Floor(x) <= Floor(y) /\ 0 <= Floor(x)
          /\ Floor(y) <= Count /\ Count \in Nat
      BY <3>1, PageDownNear, PagesKeepOrder, InRegion
    <3> QED
      BY <1>2, <3>2, PageUpNear DEF x, y, Fields
  <2>3. /\ LivePages = 0..(c - 1) \cup b..(Count - 1)
        /\ LivePages' = 0..(c - 1) \cup a..(Count - 1)
    <3>1. LivePages' = (0..(Ceil(LowEnd) - 1) \cup Floor(Total - highLive)..(Count - 1))'
      BY PagesBetween DEF LivePages
    <3> QED
      BY <1>3, <1>5, <2>1, <3>1, LivePagesAre
  <2> HIDE DEF a, b, c
  <2>4. pages' \subseteq 0..(Count - 1)
    <3>1. pages \subseteq 0..(Count - 1)
      BY <1>2 DEF Fields
    <3> QED
      BY <2>1, <2>2, <3>1
  <2>5. Inv' /\ ExactFit
    <3>1. LowEnd + hi <= Total /\ high.permanent <= hi
      BY <1>2, <1>3, <1>4, <1>7 DEF Fields
    <3> QED
      BY <1>2, <1>3, <1>4, <1>5, <2>1, <2>4, <3>1, HunkKept DEF Fields
  <2>6. LivePages' \ pages' \subseteq LivePages \ pages
    BY <2>1, <2>2, <2>3
  <2>7. pages' \ LivePages' \subseteq pages \ LivePages
    BY <2>1, <2>2, <2>3
  <2> QED
    BY <2>5, <2>6, <2>7 DEF Keeps, LiveStays, Returned
<1> QED
  BY <1>6, <1>7

\* Hunk_ClearTempMemoryHigh gives back the pages between its cursor and the permanent
\* part, or none if a request that failed has moved the cursor out of the region.
LEMMA ClearHighKeeps ==
    ASSUME Inv, ClearHigh, UNCHANGED <<low, user, fatal>>, dropped' = FALSE,
           low.temp = LowEnd
    PROVE  Keeps
<1> DEFINE x == Total - high.temp
           y == Total - high.permanent
           z == Total - highLive
<1>1. TypeOK /\ Bounds
  BY DEF Inv
<1>2. Fields
  BY <1>1, StateTyped
<1>3. /\ LowEnd \in Nat /\ low.temp = LowEnd /\ highLive <= high.temp
      /\ high.permanent <= highLive /\ LowEnd + highLive <= Total
      /\ (~dropped => high.temp = highLive)
  <2>1. LowEnd \in Nat
    BY <1>2 DEF Fields
  <2>2. /\ highLive <= high.temp /\ high.permanent <= highLive /\ LowEnd + highLive <= Total
        /\ (~dropped => high.temp = highLive)
    BY <1>1 DEF Bounds
  <2> QED
    BY <2>1, <2>2
<1>4. x \in Int /\ y \in Int /\ z \in Int /\ x <= z /\ z <= y /\ y <= Total /\ 0 <= z
  BY SMTT(30), <1>2, <1>3 DEF Fields
<1>5. /\ high' = [permanent |-> high.permanent, temp |-> high.permanent]
      /\ highLive' = high.permanent
      /\ Decommit(PageDown(x), PageDown(y), lowBlocks)
  BY <1>2 DEF ClearHigh, HighBegin, Fields
<1> DEFINE a == Floor(x)
           b == Floor(y)
           c == Ceil(LowEnd)
           d == Floor(z)
<1>6. /\ a \in Int /\ b \in Int /\ c \in Int /\ d \in Int /\ Count \in Nat
      /\ a <= d /\ d <= b /\ b <= Count /\ PageDown(x) \in Int /\ PageDown(y) \in Int
      /\ PageDown(y) <= Total /\ (0 <= x => 0 <= PageDown(x))
  <2> HIDE DEF x, y, z
  <2>1. a \in Int /\ b \in Int /\ d \in Int /\ PageDown(x) \in Int /\ PageDown(y) \in Int
    BY <1>4, PageDownNear
  <2>2. a <= d /\ d <= b
    BY <1>4, PagesKeepOrder
  <2>3. b <= Count /\ Count \in Nat /\ (0 <= x => 0 <= PageDown(x))
    BY <1>4, InRegion
  <2>4. PageDown(y) <= y
    BY <1>4, PageDownNear
  <2>5. c \in Int
    BY <1>3, PageUpNear
  <2> QED
    BY <1>4, <2>1, <2>2, <2>3, <2>4, <2>5
<1>7. /\ lowBlocks' \in Seq(Block) /\ LowEnd' = LowEnd
      /\ PageDown(x) < 0 => pages' = pages
      /\ ~(PageDown(x) < 0) => pages' = pages \ (a..(b - 1))
  <2>1. lowBlocks \in Seq(Block)
    BY <1>2 DEF Fields
  <2>2. /\ lowBlocks' \in Seq(Block)
        /\ \A base : StackEnd(base, lowBlocks') = StackEnd(base, lowBlocks)
        /\ PageDown(x) < 0 \/ PageDown(y) > Total => pages' = pages
        /\ ~(PageDown(x) < 0 \/ PageDown(y) > Total) =>
              pages' = pages \ PagesOf(PageDown(x), PageDown(y))
    <3> HIDE DEF x, y
    <3> QED
      BY <1>5, <1>6, <2>1, DecommitKeepsBlocks
  <2>3. LowEnd' = LowEnd
    BY <2>2 DEF LowEnd
  <2>4. PagesOf(PageDown(x), PageDown(y)) = a..(b - 1)
    BY PagesBetween
  <2> HIDE DEF x, y, z, a, b
  <2> QED
    BY <1>6, <2>2, <2>3, <2>4
<1>8. LivePages = 0..(c - 1) \cup d..(Count - 1)
  BY LivePagesAre
<1>9. LivePages' = 0..(c - 1) \cup b..(Count - 1)
  <2>1. LivePages' = (0..(Ceil(LowEnd) - 1) \cup Floor(Total - highLive)..(Count - 1))'
    BY PagesBetween DEF LivePages
  <2> QED
    BY <1>5, <1>7, <2>1
<1>10. ~SidesMeet => c <= a
  <2>1. ~SidesMeet => ~(PageUp(LowEnd) > PageDown(x))
    BY <1>3 DEF SidesMeet
  <2>2. PageUp(LowEnd) \in Int
    BY <1>3, PageUpNear
  <2>3. LowEnd \in Int
    BY <1>3
  <2> HIDE DEF x
  <2>4. PageUp(LowEnd) <= PageDown(x) => Ceil(LowEnd) <= Floor(x)
    BY <1>4, <2>3, PagesKeepOrder
  <2> QED
    BY <1>6, <2>1, <2>2, <2>4
<1>11. ~dropped => x = z /\ 0 <= PageDown(x) /\ a = d
  BY <1>3, <1>4, <1>6
<1>12. pages \subseteq 0..(Count - 1)
  BY <1>2 DEF Fields
<1> HIDE DEF x, y, z, a, b, c, d
<1>13. Inv' /\ ExactFit
  <2>1. pages' \subseteq 0..(Count - 1)
    BY <1>6, <1>7, <1>12
  <2>2. LowEnd + high.permanent <= Total
    BY <1>2, <1>3 DEF Fields
  <2>3. /\ low' = [permanent |-> low.permanent, temp |-> low.temp]
        /\ low.permanent \in LowMarks /\ low.temp \in Nat
        /\ high.permanent \in HighMarks /\ high.permanent \in Nat
    BY <1>2 DEF Fields
  <2>4. /\ high' = [permanent |-> high.permanent, temp |-> high.permanent]
        /\ highLive' = high.permanent /\ LowEnd' = LowEnd /\ lowBlocks' \in Seq(Block)
        /\ LowEnd \in Nat /\ low.temp = LowEnd /\ dropped' \in BOOLEAN
    BY <1>3, <1>5, <1>7
  <2>5. LowEnd <= low.temp /\ high.permanent <= high.permanent
    BY <2>3, <2>4
  <2> QED
    BY <2>1, <2>2, <2>3, <2>4, <2>5, HunkKept
<1>14. LiveStays
  <2> SUFFICES ASSUME ~SidesMeet PROVE LivePages' \ pages' \subseteq LivePages \ pages
    BY DEF LiveStays
  <2> QED
    BY <1>6, <1>7, <1>8, <1>9, <1>10
<1>15. Returned
  <2> SUFFICES ASSUME ~dropped PROVE pages' \ LivePages' \subseteq pages \ LivePages
    BY DEF Returned
  <2> QED
    BY <1>6, <1>7, <1>8, <1>9, <1>11, <1>12
<1> QED
  BY <1>13, <1>14, <1>15 DEF Keeps

\* Hunk_AllocateTempMemory likewise: the pages from where the last block ended to where
\* the new one does, and its header is on one of them.
LEMMA AllocateLowKeeps ==
    ASSUME Inv, NEW size \in Sizes, AllocateTempMemory(size)
    PROVE  Keeps
<1> DEFINE aligned == AlignUp(low.temp, Align)
           end == aligned + size + Align
           block == [hdr |-> aligned, size |-> end - low.temp, magic |-> TRUE]
<1>1. TypeOK /\ Bounds /\ ~dropped /\ size \in Nat /\ fatal = "no"
  BY HunkAssumption DEF Inv, AllocateTempMemory, Runs
<1>2. Fields
  BY <1>1, StateTyped
<1>3. /\ LowEnd = low.temp /\ highLive = high.temp /\ high.permanent <= highLive
      /\ LowEnd + highLive <= Total
  BY <1>1 DEF Bounds
<1>4. aligned \in Nat /\ low.temp <= aligned /\ end \in Nat /\ aligned < end
  <2>1. aligned \in Int /\ low.temp <= aligned /\ low.temp \in Nat
    BY <1>2, AlignUpNear DEF Fields
  <2> HIDE DEF aligned
  <2> QED
    BY <1>1, <2>1
<1>5. /\ low' = [permanent |-> low.permanent, temp |-> end]
      /\ dropped' = (high.temp + end > Total)
      /\ high' = high /\ highLive' = highLive /\ user' = user
  BY <1>2 DEF AllocateTempMemory, Fields
<1> HIDE DEF aligned, end
<1>6. CASE high.temp + end > Total
  <2>1. pages' = pages /\ lowBlocks' = lowBlocks /\ fatal' = fatal /\ dropped'
    BY <1>5, <1>6 DEF AllocateTempMemory, end, aligned
  <2>2. LowEnd' = LowEnd
    BY <1>2, <1>5, <2>1 DEF LowEnd, Fields
  <2>3. Inv' /\ ExactFit
    BY <1>2, <1>3, <1>4, <1>5, <2>1, <2>2, HunkKept DEF Fields
  <2>4. LivePages' = LivePages
    BY <1>5, <2>1, <2>2 DEF LivePages
  <2> QED
    BY <2>1, <2>3, <2>4 DEF Keeps, LiveStays, Returned
<1>7. CASE ~(high.temp + end > Total)
  <2> DEFINE a == Ceil(low.temp)
             b == Ceil(end)
             c == Floor(Total - highLive)
  <2>1. /\ pages' = pages \cup a..(b - 1) /\ ~dropped'
        /\ lowBlocks' = Append(lowBlocks, block)
        /\ fatal' \in {fatal, "access violation"}
    <3>1. /\ pages' = pages \cup LowPages(low.temp, end) /\ ~dropped'
          /\ lowBlocks' = Append(lowBlocks, block)
          /\ fatal' = Fault(aligned, pages')
      BY <1>5, <1>7 DEF AllocateTempMemory, end, aligned
    <3>2. fatal' \in {fatal, "access violation"}
      BY <1>1, <3>1 DEF Fault
    <3> QED
      BY <3>1, <3>2, PagesBetween DEF LowPages
  <2>2. a \in Int /\ b \in Int /\ c \in Int /\ Count \in Nat /\ 0 <= a /\ a <= b /\ b <= Count
    <3>1. /\ low.temp \in Nat /\ end <= Total /\ low.temp <= end
          /\ Total - highLive \in Int
      BY SMTT(30), <1>2, <1>4, <1>7 DEF Fields
    <3>2. a \in Int /\ b \in Int /\ c \in Int
      <4> DEFINE z == Total - highLive
      <4>1. z \in Int
        BY <3>1
      <4> HIDE DEF z
      <4>2. Floor(z) \in Int
        BY <4>1, PageDownNear
      <4>3. a \in Int /\ b \in Int
        BY <1>4, <3>1, PageUpNear
      <4> QED
        BY <4>2, <4>3 DEF z
    <3>3. a <= b
      BY <1>4, <3>1, PagesKeepOrder
    <3>4. 0 <= a /\ b <= Count /\ Count \in Nat
      BY <1>4, <3>1, InRegion
    <3> QED
      BY <3>2, <3>3, <3>4
  <2>3. block \in Block /\ block.size = end - low.temp
    <3>1. aligned \in 0..Total /\ end - low.temp \in 0..Total
      BY SMTT(30), <1>2, <1>4, <1>7 DEF Fields
    <3> QED
      BY <3>1 DEF Block
  <2> HIDE DEF block
  <2>4. lowBlocks' \in Seq(Block) /\ LowEnd' = end
    <3>1. /\ lowBlocks \in Seq(Block) /\ low.permanent \in Nat /\ low.temp \in Nat
          /\ StackEnd(low.permanent, lowBlocks) = low.temp
      BY <1>2, <1>3 DEF Fields, LowEnd
    <3>2. StackEnd(low.permanent, Append(lowBlocks, block)) = low.temp + (end - low.temp)
      BY <2>3, <3>1, StackEndAppend
    <3>3. LowEnd' = StackEnd(low.permanent, Append(lowBlocks, block))
      BY <1>5, <2>1 DEF LowEnd
    <3>4. low.temp + (end - low.temp) = end
      BY <1>4, <3>1
    <3>5. lowBlocks' \in Seq(Block)
      BY <2>1, <2>3, <3>1, AppendProperties
    <3> QED
      BY <3>2, <3>3, <3>4, <3>5
  <2>5. LivePages = 0..(a - 1) \cup c..(Count - 1)
    BY <1>3, LivePagesAre
  <2>6. LivePages' = 0..(b - 1) \cup c..(Count - 1)
    <3>1. LivePages' = (0..(Ceil(LowEnd) - 1) \cup Floor(Total - highLive)..(Count - 1))'
      BY PagesBetween DEF LivePages
    <3> QED
      BY <1>5, <2>4, <3>1
  <2>7. pages \subseteq 0..(Count - 1)
    BY <1>2 DEF Fields
  <2> HIDE DEF a, b, c
  <2>12. pages' = pages \cup a..(b - 1)
    BY <2>1
  <2>8. pages' \subseteq 0..(Count - 1)
    BY <2>2, <2>7, <2>12
  <2>9. Inv' /\ ExactFit
    <3>1. end + highLive <= Total
      BY <1>2, <1>3, <1>4, <1>7 DEF Fields
    <3>2. /\ low.permanent \in LowMarks /\ high.permanent \in HighMarks
          /\ high' = [permanent |-> high.permanent, temp |-> high.temp]
          /\ high.temp \in Nat /\ highLive \in Nat
      BY <1>2, <1>5 DEF Fields
    <3>3. /\ low' = [permanent |-> low.permanent, temp |-> end]
          /\ LowEnd' = end /\ highLive' = highLive /\ highLive = high.temp
          /\ high.permanent <= highLive /\ end \in Nat
          /\ ~dropped' /\ dropped' \in BOOLEAN
          /\ lowBlocks' \in Seq(Block) /\ fatal' \in {fatal, "access violation", "bad magic"}
          /\ UNCHANGED user
      <4>1. ~dropped' /\ dropped' \in BOOLEAN
        <5>1. dropped' = (high.temp + end > Total)
          BY <1>5
        <5>2. (high.temp + end > Total) = FALSE
          BY <1>7
        <5> QED
          BY <5>1, <5>2
      <4> QED
        BY <1>3, <1>4, <1>5, <2>1, <2>4, <4>1
    <3>4. end <= end /\ highLive <= high.temp
      <4>1. end \in Nat /\ highLive \in Nat /\ highLive = high.temp
        BY <3>2, <3>3
      <4> QED
        BY <4>1
    <3> QED
      BY <2>8, <3>1, <3>2, <3>3, <3>4, HunkKept
  <2>10. LivePages' \ pages' \subseteq LivePages \ pages
    BY <2>2, <2>5, <2>6, <2>12
  <2>11. pages' \ LivePages' \subseteq pages \ LivePages
    BY <2>2, <2>5, <2>6, <2>12
  <2> QED
    BY <2>9, <2>10, <2>11 DEF Keeps, LiveStays, Returned
<1> QED
  BY <1>6, <1>7

\* Pages a..b-1 go, and all their data: no page stays that has lost its data.
LEMMA EmptyPagesCut ==
    ASSUME NEW a \in Int, NEW b \in Int, NEW c \in Int, NEW d \in Int, NEW n \in Int,
           0 <= a, a <= c, b = c, NEW P, P \subseteq 0..(n - 1), NEW Q, Q = P \ (a..(b - 1))
    PROVE  Q \ (0..(a - 1) \cup d..(n - 1)) \subseteq P \ (0..(c - 1) \cup d..(n - 1))
  OBVIOUS

\* Data given up on a..c-1, and no page with it.
LEMMA DataCut ==
    ASSUME NEW a \in Int, NEW c \in Int, NEW d \in Int, NEW n \in Int, a <= c, NEW P
    PROVE  (0..(a - 1) \cup d..(n - 1)) \ P \subseteq (0..(c - 1) \cup d..(n - 1)) \ P
  OBVIOUS

\* The low side gives back the pages above the blocks it keeps, unless its cursor is out
\* of the region.
LEMMA LowCutKeeps ==
    ASSUME NEW to \in Nat, NEW blocks \in Seq(Block), Inv,
           low' = [low EXCEPT !.temp = to], StackEnd(low.permanent, blocks) = to,
           to <= LowEnd, high.temp = highLive,
           Decommit(PageUp(to), PageUp(low.temp), blocks),
           UNCHANGED <<high, highLive, user, fatal>>, dropped' = FALSE
    PROVE  Keeps
<1>1. TypeOK /\ Bounds
  BY DEF Inv
<1>2. Fields
  BY <1>1, StateTyped
<1>3. /\ LowEnd \in Nat /\ low.temp \in Nat /\ highLive \in Nat /\ highLive <= Total
      /\ low.permanent \in LowMarks /\ high.permanent \in HighMarks
      /\ low.permanent \in Nat /\ high.permanent \in Nat
      /\ low' = [permanent |-> low.permanent, temp |-> to]
      /\ high' = [permanent |-> high.permanent, temp |-> high.temp]
      /\ pages \subseteq 0..(Count - 1)
  BY <1>2 DEF Fields
<1>4. /\ LowEnd <= low.temp /\ high.permanent <= highLive
      /\ LowEnd + highLive <= Total /\ (~dropped => low.temp = LowEnd)
  BY <1>1 DEF Bounds
<1> DEFINE x == low.temp
           z == Total - highLive
           t == to
           l == LowEnd
<1>5. x \in Nat /\ z \in Int /\ 0 <= z /\ z <= Total /\ t \in Nat /\ l \in Nat
      /\ t <= l /\ l <= x /\ l <= Total
  BY <1>3, <1>4
<1> DEFINE a == Ceil(t)
           b == Ceil(x)
           c == Ceil(l)
           d == Floor(z)
<1>6. /\ a \in Int /\ b \in Int /\ c \in Int /\ d \in Int /\ Count \in Nat
      /\ 0 <= a /\ a <= c /\ c <= b /\ 0 <= d
      /\ PageUp(t) \in Int /\ PageUp(x) \in Int /\ 0 <= PageUp(t)
      /\ x <= Total => PageUp(x) <= Total
      /\ PageDown(z) \in Int
  <2> HIDE DEF x, z, t, l
  <2>1. /\ a \in Int /\ b \in Int /\ c \in Int
        /\ PageUp(t) \in Int /\ PageUp(x) \in Int /\ t <= PageUp(t)
    <3>1. t \in Int /\ x \in Int /\ l \in Int
      BY <1>5
    <3>2. Ceil(t) \in Int /\ PageUp(t) \in Int /\ t <= PageUp(t)
      BY <3>1, PageUpNear
    <3>3. Ceil(x) \in Int /\ PageUp(x) \in Int
      BY <3>1, PageUpNear
    <3>4. Ceil(l) \in Int
      BY <3>1, PageUpNear
    <3> QED
      BY <3>2, <3>3, <3>4
  <2>2. a <= c /\ c <= b
    BY <1>5, PagesKeepOrder
  <2>3. 0 <= a /\ 0 <= d /\ Count \in Nat /\ (x <= Total => PageUp(x) <= Total)
    BY <1>5, InRegion
  <2>4. d \in Int /\ PageDown(z) \in Int
    BY <1>5, PageDownNear
  <2> QED
    BY SMTT(30), <1>5, <2>1, <2>2, <2>3, <2>4
<1>7. /\ lowBlocks' \in Seq(Block) /\ LowEnd' = t
      /\ PageUp(x) > Total => pages' = pages
      /\ ~(PageUp(x) > Total) => pages' = pages \ (a..(b - 1))
  <2>1. /\ lowBlocks' \in Seq(Block)
        /\ \A base : StackEnd(base, lowBlocks') = StackEnd(base, blocks)
        /\ PageUp(t) < 0 \/ PageUp(x) > Total => pages' = pages
        /\ ~(PageUp(t) < 0 \/ PageUp(x) > Total) =>
              pages' = pages \ PagesOf(PageUp(t), PageUp(x))
    BY <1>6, DecommitKeepsBlocks
  <2>2. LowEnd' = t
    BY <1>3, <2>1 DEF LowEnd
  <2>3. PagesOf(PageUp(t), PageUp(x)) = a..(b - 1)
    BY PagesBetween
  <2> HIDE DEF x, t, a, b
  <2>4. ~(PageUp(t) < 0)
    BY <1>6
  <2> QED
    BY <2>1, <2>2, <2>3, <2>4
<1>8. LivePages = 0..(c - 1) \cup d..(Count - 1)
  BY LivePagesAre
<1>9. LivePages' = 0..(a - 1) \cup d..(Count - 1)
  <2>1. LivePages' = (0..(Ceil(LowEnd) - 1) \cup Floor(Total - highLive)..(Count - 1))'
    BY PagesBetween DEF LivePages
  <2>2. highLive' = highLive
    OBVIOUS
  <2> QED
    BY <1>7, <2>1, <2>2
<1>10. ~SidesMeet => b <= d
  <2>1. ~SidesMeet => ~(PageUp(x) > PageDown(z))
    BY DEF SidesMeet
  <2> HIDE DEF x, z
  <2>2. PageUp(x) <= PageDown(z) => Ceil(x) <= Floor(z)
    BY <1>5, PagesKeepOrder
  <2> QED
    BY <1>6, <2>1, <2>2
<1>11. ~dropped => ~(PageUp(x) > Total) /\ b = c
  BY SMTT(30), <1>4, <1>5, <1>6
<1>12. Inv' /\ ExactFit
  <2>1. pages' \subseteq 0..(Count - 1)
    <3> HIDE DEF a, b, x
    <3> QED
      BY <1>3, <1>7
  <2>2. to + highLive <= Total /\ to <= to /\ highLive <= high.temp
    BY <1>3, <1>4
  <2>3. LowEnd' = to /\ lowBlocks' \in Seq(Block)
    BY <1>7
  <2>4. high.temp \in Nat /\ highLive' = highLive /\ dropped' \in BOOLEAN /\ UNCHANGED user
        /\ fatal' \in {fatal, "access violation", "bad magic"}
    BY <1>3
  <2>5. high.permanent <= highLive
    BY <1>4
  <2> HIDE DEF x, z, t, l, a, b, c, d
  <2> QED
    BY ZenonT(30), <1>3, <2>1, <2>2, <2>3, <2>4, <2>5, HunkKept
<1> HIDE DEF x, z, t, l, a, b, c, d
<1>13. LiveStays
  <2> SUFFICES ASSUME ~SidesMeet PROVE LivePages' \ pages' \subseteq LivePages \ pages
    BY DEF LiveStays
  <2>1. CASE PageUp(x) > Total
    <3>1. pages' = pages
      BY <1>7, <2>1
    <3> QED
      BY SMTT(30), <1>6, <1>8, <1>9, <3>1, DataCut
  <2>2. CASE ~(PageUp(x) > Total)
    <3>1. pages' = pages \ (a..(b - 1)) /\ b <= d
      BY <1>7, <1>10, <2>2
    <3>2. (0..(a - 1) \cup d..(Count - 1)) \ pages'
             \subseteq (0..(c - 1) \cup d..(Count - 1)) \ pages
      <4>1. /\ a \in Int /\ b \in Int /\ c \in Int /\ d \in Int /\ Count \in Int
            /\ 0 <= a /\ a <= c /\ c <= b
        BY <1>6
      <4>2. b <= d
        BY <3>1
      <4>3. ASSUME NEW p \in 0..(a - 1) \cup d..(Count - 1)
            PROVE  p \in 0..(c - 1) \cup d..(Count - 1) /\ p \notin a..(b - 1)
        <5>1. p \in Int /\ ((0 <= p /\ p < a) \/ (d <= p /\ p < Count))
          BY <4>1
        <5>2. p \in 0..(c - 1) \cup d..(Count - 1)
          BY <4>1, <5>1
        <5>3. ~(a <= p /\ p <= b - 1)
          BY <4>1, <4>2, <5>1
        <5> QED
          BY <5>2, <5>3
      <4> QED
        BY <3>1, <4>3
    <3> QED
      BY <1>8, <1>9, <3>2
  <2> QED
    BY <2>1, <2>2
<1>14. Returned
  <2> SUFFICES ASSUME ~dropped PROVE pages' \ LivePages' \subseteq pages \ LivePages
    BY DEF Returned
  <2>1. pages' = pages \ (a..(b - 1)) /\ b = c
    BY <1>7, <1>11
  <2>2. pages \subseteq 0..(Count - 1)
    BY <1>3
  <2>3. pages' \ (0..(a - 1) \cup d..(Count - 1))
           \subseteq pages \ (0..(c - 1) \cup d..(Count - 1))
    BY SMTT(30), <1>6, <2>1, <2>2, EmptyPagesCut
  <2> QED
    BY <1>8, <1>9, <2>3
<1> QED
  BY <1>12, <1>13, <1>14 DEF Keeps

\* Hunk_FreeTempMemory takes the newest block off.
LEMMA FreeKeeps ==
    ASSUME Inv, FreeTempMemory
    PROVE  Keeps
<1> DEFINE block == Last(lowBlocks)
           temp == low.temp - block.size
           fault == Fault(block.hdr, pages)
<1>1. TypeOK /\ Bounds /\ ~dropped /\ lowBlocks # <<>> /\ fatal = "no"
  BY DEF Inv, FreeTempMemory, Runs
<1>2. Fields
  BY <1>1, StateTyped
<1>3. LowEnd = low.temp /\ highLive = high.temp
  BY <1>1 DEF Bounds
<1>4. UNCHANGED <<high, highLive, dropped, user>> /\ dropped' = FALSE
  BY <1>1, <1>2 DEF FreeTempMemory, Fields
<1>5. CASE /\ low' = [low EXCEPT !.temp = temp]
           /\ Decommit(PageUp(temp), PageUp(low.temp), Front(lowBlocks))
           /\ UNCHANGED fatal
  <2>1. /\ lowBlocks \in Seq(Block) /\ low.permanent \in Nat /\ LowEnd \in Nat
        /\ StackEnd(low.permanent, lowBlocks) = LowEnd
    BY <1>2 DEF Fields, LowEnd
  <2>2. /\ Front(lowBlocks) \in Seq(Block) /\ block \in Block
    BY <1>1, <2>1, FrontAndLast
  <2>3. /\ StackEnd(low.permanent, Front(lowBlocks)) = temp
        /\ temp \in Nat
    <3>1. StackEnd(low.permanent, Front(lowBlocks))
            = StackEnd(low.permanent, lowBlocks) - block.size
      BY <1>1, <2>1, StackEndFront
    <3>2. StackEnd(low.permanent, Front(lowBlocks)) \in Nat
      BY <2>1, <2>2, StackEndAbove
    <3> QED
      BY <1>3, <2>1, <3>1, <3>2
  <2>4. block.size \in Nat
    BY <2>2, BlockFields
  <2>5. temp <= LowEnd
    BY <1>3, <2>1, <2>4
  <2> HIDE DEF temp, block
  <2> QED
    BY <1>3, <1>4, <1>5, <2>2, <2>3, <2>5, LowCutKeeps
<1>6. CASE /\ fatal' = IF fault = "no" THEN "bad magic" ELSE fault
           /\ UNCHANGED <<low, pages, lowBlocks>>
  <2>1. fatal' \in {fatal, "access violation", "bad magic"}
    BY <1>6 DEF Fault
  <2>2. UNCHANGED flat
    BY <1>4, <1>6 DEF flat
  <2> QED
    BY <1>4, <2>1, <2>2, FlatKeeps
<1> QED
  BY <1>5, <1>6 DEF FreeTempMemory

\* Hunk_ClearTempMemory takes all of them off.
LEMMA ClearLowKeeps ==
    ASSUME Inv, low' = [low EXCEPT !.temp = low.permanent], high.temp = highLive,
           Decommit(PageUp(low.permanent), PageUp(low.temp), <<>>),
           UNCHANGED <<high, highLive, user, fatal>>, dropped' = FALSE
    PROVE  Keeps
<1>1. Fields
  BY StateTyped DEF Inv
<1>2. low.permanent \in Nat /\ low.permanent <= LowEnd
  BY <1>1 DEF Fields
<1>3. StackEnd(low.permanent, <<>>) = low.permanent /\ <<>> \in Seq(Block)
  BY StackEndEmpty
<1> QED
  BY <1>2, <1>3, LowCutKeeps

\* After an error the side that failed is cleared: only its cursor is not what is in use.
LEMMA CleanupKeeps ==
    ASSUME Inv, ErrorCleanup
    PROVE  Keeps
<1>1. dropped' = FALSE /\ UNCHANGED <<user, fatal>>
  BY DEF ErrorCleanup
<1>2. CASE high.temp # highLive /\ ClearHigh /\ UNCHANGED low
  <2>1. low.temp = LowEnd
    BY <1>2 DEF Inv, Bounds
  <2> QED
    BY <1>1, <1>2, <2>1, ClearHighKeeps
<1>3. CASE /\ high.temp = highLive
           /\ low' = [low EXCEPT !.temp = low.permanent]
           /\ Decommit(PageUp(low.permanent), PageUp(low.temp), <<>>)
           /\ UNCHANGED <<high, highLive>>
  BY <1>1, <1>3, ClearLowKeeps
<1> QED
  BY <1>2, <1>3 DEF ErrorCleanup

-----------------------------------------------------------------------------
(* HunkUser *)

\* What may be written to: one byte after pos, or pos is the end of the reservation.
Writable(r) == r.pos < r.locked \/ (r.pos = UserSize /\ r.locked = UserSize)

\* A chain in which every reservation is.
AllWritable(chain) ==
    chain \in Seq(Reservation) /\ chain # <<>> /\ \A i \in DOMAIN chain : Writable(chain[i])

\* A step of the HunkUser leaves the hunk alone.
LEMMA UserStepKeeps ==
    ASSUME Inv, UNCHANGED flat, user' \in [fixed : BOOLEAN, chain : Seq(Reservation)],
           user'.chain # <<>>, ExactFit,
           fatal' \in {"no", "out of memory", "user full"},
           fatal' = "no" => AllWritable(user'.chain)
    PROVE  Keeps
<1>1. TypeOK' /\ Bounds'
  BY FlatHolds DEF Inv
<1>2. UserAddressCommitted'
  BY DEF UserAddressCommitted, AllWritable, Writable
<1> QED
  BY <1>1, <1>2, FlatUnchanged DEF Inv, Keeps

\* The fields of a reservation, and that it has no others.
LEMMA ReservationFields ==
    ASSUME NEW r \in Reservation
    PROVE  /\ r.pos \in Nat /\ r.pos <= UserSize /\ r.locked \in Nat /\ r.locked <= UserSize
           /\ r = [pos |-> r.pos, locked |-> r.locked]
  BY DEF Reservation

\* What CommitSize commits reaches past the position unless that is the end of the
\* reservation, and goes past the reservation only if the position is.
LEMMA CommitReaches ==
    ASSUME NEW cur \in Reservation, NEW newPos \in Nat, newPos <= UserSize,
           NEW locked, locked = cur.locked + CommitSize(cur, newPos)
    PROVE  /\ locked \in Nat
           /\ locked <= UserSize => newPos < locked \/ (newPos = UserSize /\ locked = UserSize)
           /\ locked > UserSize => newPos = UserSize /\ cur.locked < UserSize
<1>1. cur.locked \in Nat /\ cur.locked <= UserSize
  BY ReservationFields
<1>2. CASE newPos > cur.locked \/ (newPos = cur.locked /\ cur.locked < UserSize)
  <2> DEFINE x == newPos + Page
             k == Floor(x)
             m == Floor(UserSize)
  <2>1. x \in Nat /\ x - Page = newPos
    OBVIOUS
  <2>2. PageDown(x) \in Int /\ PageDown(x) <= x /\ x < PageDown(x) + Page
        /\ k \in Int /\ PageDown(x) = Page * k
    <3>1. x \in Int
      BY <2>1
    <3> HIDE DEF x
    <3> QED
      BY <3>1, PageDownNear, Zenon
  <2>3. CommitSize(cur, newPos) = PageDown(x) - cur.locked
    BY <1>2 DEF CommitSize
  <2>4. m \in Int /\ UserSize = Page * m
    BY HeaderFits, PageDownNear
  <2> HIDE DEF x, k, m
  <2>5. locked = PageDown(x)
    BY <1>1, <2>2, <2>3
  <2>6. newPos < locked
    BY <2>1, <2>2, <2>5
  <2>7. locked > UserSize => newPos = UserSize
    <3> SUFFICES ASSUME locked > UserSize PROVE newPos >= UserSize
      OBVIOUS
    <3>1. m + 1 <= k
      <4> SUFFICES ASSUME k <= m PROVE FALSE
        BY <2>2, <2>4
      <4>1. Page * k <= Page * m
        BY <2>2, <2>4
      <4> QED
        BY <2>2, <2>4, <2>5, <4>1
    <3>2. Page * (m + 1) <= Page * k /\ Page * (m + 1) = Page * m + Page
      BY <2>2, <2>4, <3>1
    <3> QED
      BY <2>1, <2>2, <2>4, <3>2
  <2>8. locked \in Nat
    BY <2>2, <2>5, <2>6
  <2> QED
    BY <1>1, <1>2, <2>6, <2>7, <2>8
<1>3. CASE ~(newPos > cur.locked \/ (newPos = cur.locked /\ cur.locked < UserSize))
  <2>1. locked = cur.locked
    BY <1>1, <1>3 DEF CommitSize
  <2> QED
    BY <1>1, <1>3, <2>1
<1> QED
  BY <1>2, <1>3

\* Another chain.
LEMMA ReplacedChain ==
    ASSUME NEW u \in [fixed : BOOLEAN, chain : Seq(Reservation)], NEW chain \in Seq(Reservation)
    PROVE  /\ [u EXCEPT !.chain = chain].chain = chain
           /\ [u EXCEPT !.chain = chain] \in [fixed : BOOLEAN, chain : Seq(Reservation)]
  OBVIOUS

\* One reservation more, or another in the place of the last.
LEMMA WritableAppend ==
    ASSUME NEW chain \in Seq(Reservation), NEW r \in Reservation, Writable(r),
           \A i \in 1..Len(chain) : Writable(chain[i])
    PROVE  AllWritable(Append(chain, r))
<1> DEFINE n == Len(chain)
           c == Append(chain, r)
<1>1. /\ n \in Nat /\ c \in Seq(Reservation) /\ c # <<>> /\ Len(c) = n + 1
      /\ \A i \in 1..n : c[i] = chain[i]
      /\ c[n + 1] = r
  BY AppendProperties
<1>2. ASSUME NEW i \in 1..(n + 1) PROVE Writable(c[i])
  <2>1. i \in 1..n \/ i = n + 1
    BY <1>1
  <2> HIDE DEF c
  <2> QED
    BY <1>1, <2>1
<1>3. DOMAIN c = 1..(n + 1)
  BY <1>1
<1> QED
  BY <1>1, <1>2, <1>3 DEF AllWritable

\* The rest of Hunk_UserAlloc, in a reservation that has room.
LEMMA TakeKeeps ==
    ASSUME Inv, fatal = "no", UNCHANGED flat,
           NEW chain, AllWritable(chain), NEW size \in Nat, NEW a \in Nat \ {0},
           Fits(Last(chain), size, a), TakeFrom(chain, size, a)
    PROVE  Keeps
<1> DEFINE cur == Last(chain)
           newPos == AlignUp(cur.pos, a) + size
           locked == cur.locked + CommitSize(cur, newPos)
           taken == [pos |-> newPos, locked |-> locked]
           failed == [cur EXCEPT !.pos = newPos]
<1>1. user \in [fixed : BOOLEAN, chain : Seq(Reservation)]
  BY Zenon DEF Inv, TypeOK
<1>2. /\ cur \in Reservation /\ Front(chain) \in Seq(Reservation)
      /\ Len(chain) \in Nat /\ Len(Front(chain)) = Len(chain) - 1
      /\ \A i \in 1..(Len(chain) - 1) : Front(chain)[i] = chain[i]
  BY FrontAndLast DEF AllWritable
<1>3. cur.pos \in Nat /\ cur.locked \in Nat /\ cur = [pos |-> cur.pos, locked |-> cur.locked]
      /\ cur.locked <= UserSize
  BY <1>2, ReservationFields
<1>4. newPos \in Nat /\ newPos <= UserSize
  <2>1. AlignUp(cur.pos, a) \in Int /\ cur.pos <= AlignUp(cur.pos, a)
    BY <1>3, AlignUpNear
  <2>2. newPos <= UserSize
    BY DEF Fits
  <2> QED
    BY <1>3, <2>1, <2>2
<1> HIDE DEF cur, newPos
<1>5. /\ locked \in Nat
      /\ locked <= UserSize => newPos < locked \/ (newPos = UserSize /\ locked = UserSize)
      /\ locked > UserSize => newPos = UserSize /\ cur.locked < UserSize
  BY <1>2, <1>4, CommitReaches
<1> HIDE DEF locked
<1>6. CASE locked <= UserSize
  <2>1. /\ user' = [user EXCEPT !.chain = Append(Front(chain), taken)]
        /\ UNCHANGED fatal
    BY <1>6 DEF TakeFrom, locked, newPos, cur
  <2>2. taken \in Reservation /\ Writable(taken)
    BY <1>4, <1>5, <1>6 DEF Reservation, Writable
  <2> HIDE DEF taken
  <2>3. user'.chain = Append(Front(chain), taken)
        /\ user' \in [fixed : BOOLEAN, chain : Seq(Reservation)]
    BY <1>1, <1>2, <2>1, <2>2, AppendProperties, ReplacedChain
  <2>4. AllWritable(user'.chain)
    <3>1. \A i \in 1..Len(chain) : Writable(chain[i])
      BY DEF AllWritable
    <3>2. \A i \in 1..Len(Front(chain)) : Writable(Front(chain)[i])
      BY <1>2, <3>1
    <3> QED
      BY <1>2, <2>2, <2>3, <3>2, WritableAppend
  <2>5. ExactFit /\ fatal' = "no" /\ user'.chain # <<>>
    BY <2>1, <2>4 DEF ExactFit, AllWritable
  <2> QED
    BY <2>3, <2>4, <2>5, UserStepKeeps
<1>7. CASE locked > UserSize
  <2>1. /\ user' = [user EXCEPT !.chain = Append(Front(chain), failed)]
        /\ fatal' = "out of memory"
    <3>1. ~(locked <= UserSize)
      BY <1>5, <1>7
    <3> QED
      BY <3>1, Zenon DEF TakeFrom, locked, newPos, cur
  <2>2. failed \in Reservation /\ failed.pos = newPos /\ failed.locked = cur.locked
    BY <1>3, <1>4 DEF Reservation
  <2> HIDE DEF failed
  <2>3. user'.chain = Append(Front(chain), failed)
        /\ user' \in [fixed : BOOLEAN, chain : Seq(Reservation)]
    BY <1>1, <1>2, <2>1, <2>2, AppendProperties, ReplacedChain
  <2>4. user'.chain # <<>> /\ Last(user'.chain) = failed
    BY <1>2, <2>2, <2>3, AppendProperties DEF Last
  <2>5. ExactFit
    BY <1>5, <1>7, <2>2, <2>4 DEF ExactFit
  <2> QED
    BY <2>1, <2>3, <2>4, <2>5, UserStepKeeps
<1> QED
  BY <1>3, <1>5, <1>6, <1>7

\* Hunk_UserAlloc: in the current reservation, in a new one, or not at all.
LEMMA UserAllocKeeps ==
    ASSUME Inv, NEW size \in UserSizes, NEW a \in UserAligns, UserAlloc(size, a)
    PROVE  Keeps
<1>1. fatal = "no" /\ UNCHANGED flat
  BY DEF UserAlloc, Runs
<1>2. size \in Nat /\ a \in Nat \ {0} /\ AlignUp(UserHeader, a) + size <= UserSize
  <2>1. a \in 1..Page
    BY HunkAssumption
  <2> QED
    BY <2>1, HunkAssumption
<1>3. user \in [fixed : BOOLEAN, chain : Seq(Reservation)] /\ user.chain # <<>>
  BY Zenon DEF Inv, TypeOK
<1>4. AllWritable(user.chain)
  BY <1>1, <1>3 DEF Inv, UserAddressCommitted, AllWritable, Writable
<1>5. CASE Fits(Current, size, a) /\ TakeFrom(user.chain, size, a)
  BY <1>1, <1>2, <1>4, <1>5, TakeKeeps DEF Current
<1>6. CASE TakeFrom(Append(user.chain, NewReservation), size, a)
  <2> DEFINE chain == Append(user.chain, NewReservation)
  <2>1. NewReservation \in Reservation /\ Writable(NewReservation)
    BY HeaderFits DEF NewReservation, Reservation, Writable
  <2>2. AllWritable(chain)
    BY <1>3, <1>4, <2>1, WritableAppend DEF AllWritable
  <2>3. Last(chain) = NewReservation
    BY <1>3, <2>1, AppendProperties DEF Last
  <2>4. Fits(Last(chain), size, a)
    <3>1. Fits(NewReservation, size, a)
      BY <1>2 DEF Fits, NewReservation
    <3> QED
      BY <2>3, <3>1
  <2> HIDE DEF chain
  <2> QED
    BY <1>1, <1>2, <1>6, <2>2, <2>4, TakeKeeps DEF chain
<1>7. CASE fatal' = "user full" /\ UNCHANGED user
  BY <1>1, <1>3, <1>7, UserStepKeeps DEF ExactFit
<1> QED
  BY <1>5, <1>6, <1>7 DEF UserAlloc

\* A new HunkUser has a reservation with its header on the first page.
LEMMA UserCreateKeeps ==
    ASSUME Inv, UserCreate
    PROVE  Keeps
<1>1. PICK fixed \in BOOLEAN : user' = [fixed |-> fixed, chain |-> <<NewReservation>>]
  BY DEF UserCreate
<1>2. UNCHANGED flat /\ fatal = "no" /\ fatal' = "no"
  BY DEF UserCreate, Runs
<1>3. NewReservation \in Reservation /\ Writable(NewReservation)
  BY HeaderFits DEF NewReservation, Reservation, Writable
<1>4. <<NewReservation>> \in Seq(Reservation) /\ AllWritable(<<NewReservation>>)
  BY <1>3 DEF AllWritable
<1>5. user'.chain = <<NewReservation>>
      /\ user' \in [fixed : BOOLEAN, chain : Seq(Reservation)]
  BY <1>1, <1>4
<1>6. ExactFit
  BY <1>2 DEF ExactFit
<1> QED
  BY <1>2, <1>4, <1>5, <1>6, UserStepKeeps

-----------------------------------------------------------------------------
(* Every step *)

\* Every operation keeps the invariant and shows the action properties.
LEMMA StepKeeps ==
    ASSUME Inv, Next
    PROVE  Keeps
<1>1. CASE \E size \in Sizes : AllocateTempMemoryHigh(size)
  BY <1>1, AllocateHighKeeps
<1>2. CASE \E size \in Sizes : AllocateTempMemory(size)
  BY <1>2, AllocateLowKeeps
<1>3. CASE ClearTempMemoryHigh
  <2>1. low.temp = LowEnd /\ dropped' = FALSE
    BY <1>3 DEF ClearTempMemoryHigh, Runs, Inv, Bounds, TypeOK
  <2> QED
    BY <1>3, <2>1, ClearHighKeeps DEF ClearTempMemoryHigh
<1>4. CASE FreeTempMemory
  BY <1>4, FreeKeeps
<1>5. CASE ClearTempMemory
  <2>1. high.temp = highLive /\ dropped' = FALSE
    BY <1>5 DEF ClearTempMemory, Runs, Inv, Bounds, TypeOK
  <2> QED
    BY <1>5, <2>1, ClearLowKeeps DEF ClearTempMemory
<1>6. CASE ErrorCleanup
  BY <1>6, CleanupKeeps
<1>7. CASE \E size \in UserSizes, a \in UserAligns : UserAlloc(size, a)
  BY <1>7, UserAllocKeeps
<1>8. CASE UserCreate
  BY <1>8, UserCreateKeeps
<1> QED
  BY <1>1, <1>2, <1>3, <1>4, <1>5, <1>6, <1>7, <1>8 DEF Next

\* So does a step that changes nothing.
LEMMA StutterKeeps ==
    ASSUME Inv, UNCHANGED vars
    PROVE  Keeps
<1>1. UNCHANGED <<flat, user>> /\ fatal' = fatal
  BY DEF vars, flat
<1> QED
  BY <1>1, FlatKeeps

\* The invariant holds: cursors and blocks agree, and the sum of both sides fits, from one
\* end of a session to the other, through every request that fails.
THEOREM Invariance == Spec => []Inv
<1>1. Inv /\ [Next]_vars => Inv'
  BY StepKeeps, StutterKeeps DEF Keeps
<1> QED
  BY <1>1, InitHolds, PTL DEF Spec

-----------------------------------------------------------------------------
(* The theorems *)

\* The cursors, blocks and reservations stay in their ranges, and no page is committed
\* outside the region.
THEOREM TypeCorrect == Spec => []TypeOK
<1>1. Inv => TypeOK
  BY DEF Inv
<1> QED
  BY <1>1, Invariance, PTL

\* What Hunk_UserAlloc returns may be written to, whatever was asked for before.
THEOREM AddressesAreCommitted == Spec => []UserAddressCommitted
<1>1. Inv => UserAddressCommitted
  BY DEF Inv
<1> QED
  BY <1>1, Invariance, PTL

\* Hunk_UserAlloc runs out of memory only by a block that ends where its reservation does.
THEOREM OnlyAnExactFitFails == Spec => OutOfMemoryIsExactFit
<1>1. Inv /\ [Next]_vars =>
        [fatal' = "out of memory" /\ fatal = "no" =>
           LET r == Last(user'.chain) IN r.pos = UserSize /\ r.locked < UserSize]_vars
  BY StepKeeps DEF Keeps, ExactFit
<1> QED
  BY <1>1, Invariance, PTL DEF Spec, OutOfMemoryIsExactFit

\* Neither end takes the pages of the other's data, unless the cursors had come into one
\* page or passed each other.
THEOREM DataStaysCommitted == Spec => LiveStaysCommitted
<1>1. Inv /\ [Next]_vars => [SidesMeet \/ LivePages' \ pages' \subseteq LivePages \ pages]_vars
  BY StepKeeps DEF Keeps, LiveStays
<1> QED
  BY <1>1, Invariance, PTL DEF Spec, LiveStaysCommitted

\* No step leaves pages committed that had data on them and have none any more, but the
\* cleanup after an error.
THEOREM PagesComeBack == Spec => PagesReturned
<1>1. Inv /\ [Next]_vars => [dropped \/ pages' \ LivePages' \subseteq pages \ LivePages]_vars
  BY StepKeeps DEF Keeps, Returned
<1> QED
  BY <1>1, Invariance, PTL DEF Spec, PagesReturned

=============================================================================
