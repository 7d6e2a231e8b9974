------------------------------ MODULE SfmmProofs ------------------------------
(***************************************************************************)
(* Proofs about the memory allocator.                                      *)
(*                                                                         *)
(* The invariant says of the heap at rest that its blocks tile it, that    *)
(* the lists hold blocks of their class, each once, and that a block on no *)
(* list is marked allocated and is the client's.  Inside an operation one  *)
(* block, x, is out of order: Sound(h, x).  Each operator of Sfmm has a    *)
(* lemma that says what it does to a sound heap and to the loose blocks,   *)
(* those on no list, and the steps put the lemmas together.                *)
(*                                                                         *)
(* The last part is about the prv bits: Explained says which blocks may be *)
(* followed by a clear one, and Keeps that an operator adds none.          *)
(***************************************************************************)
EXTENDS Sfmm, FiniteSetTheorems, SequenceTheorems, WellFoundedInduction, TLAPS

\* The blocks of a heap, those on its lists, and those on none.
Starts(h) == DOMAIN h.blk
Mains(h)  == UNION {ToSet(h.main[i]) : i \in 1..NMain}
Quicks(h) == UNION {ToSet(h.quick[i]) : i \in 1..NQuick}
Loose(h)  == Starts(h) \ (Mains(h) \cup Quicks(h))

\* The types of a heap's fields; no list has a block twice.
Words == [size : Nat, alloc : BOOLEAN, prv : BOOLEAN, foot : BOOLEAN]
Fields == {"blk", "main", "quick", "last", "pages", "fault"}
IsList(s) == s \in Seq(Nat) /\ \A k, m \in 1..Len(s) : s[k] = s[m] => k = m
IsHeap(h) ==
   /\ DOMAIN h = Fields /\ DOMAIN h.main = 1..NMain /\ DOMAIN h.quick = 1..NQuick
   /\ Starts(h) \subseteq Nat /\ \A b \in Starts(h) : h.blk[b] \in Words
   /\ \A i \in 1..NMain : IsList(h.main[i])
   /\ \A i \in 1..NQuick : IsList(h.quick[i])
   /\ h.pages \in Nat /\ h.last \in Nat /\ h.fault \in {"none", "wild"}

\* From line 1 on each block ends where the next one begins, up to the end.
Tiled(h) ==
    /\ 1 \in Starts(h) /\ h.blk[1].prv
    /\ \A b \in Starts(h) : /\ b >= 1 /\ h.blk[b].size >= MinLines
                            /\ Nxt(h, b) \in Starts(h) \cup {End(h)} /\ Nxt(h, b) <= End(h)
    /\ \A b \in (Starts(h) \cup {End(h)}) \ {1} : \E p \in Starts(h) : Nxt(h, p) = b
    /\ \A b, c \in Starts(h) : b < c => Nxt(h, b) <= c

\* Lists have blocks of their class, with footers, and quick lists allocated ones.
ListsOK(h) ==
    /\ \A i \in 1..NMain : \A b \in ToSet(h.main[i]) :
           /\ b \in Starts(h) \ Quicks(h)
           /\ MainClass(h.blk[b].size) = i /\ h.blk[b].foot
    /\ \A i \in 1..NQuick : /\ Len(h.quick[i]) <= QuickMax
                            /\ \A b \in ToSet(h.quick[i]) :
                                /\ b \in Starts(h) /\ QuickClass(h.blk[b].size) = i
                                /\ h.blk[b].foot /\ h.blk[b].alloc

\* A sound heap, but for the block x, which is being worked on; no block is 0.
LastOf(h, b) == Nxt(h, b) = End(h) => h.last = b
Sound(h, x) ==
    /\ IsHeap(h) /\ Tiled(h) /\ ListsOK(h) /\ h.last \in Starts(h)
    /\ \A b \in Starts(h) \ {x} : (h.blk[b].alloc \/ b \in Mains(h)) /\ LastOf(h, b)

-------------------------------------------------------------------------------
\* Lists.
LEMMA ListElements ==
    ASSUME NEW s, IsList(s)
    PROVE  /\ s \in Seq(Nat) /\ Len(s) \in Nat /\ DOMAIN s = 1..Len(s) /\ ToSet(s) \subseteq Nat
           /\ \A e : e \in ToSet(s) <=> \E k \in 1..Len(s) : s[k] = e
  BY DEF IsList, ToSet

\* The list with its k-th entry taken out.
LEMMA RemoveAtIs ==
    ASSUME NEW s, IsList(s), NEW k \in 1..Len(s)
    PROVE  /\ IsList(RemoveAt(s, k)) /\ Len(RemoveAt(s, k)) = Len(s) - 1
           /\ ToSet(RemoveAt(s, k)) = ToSet(s) \ {s[k]}
  <1>1. PICK n \in Nat : /\ n = Len(s) /\ \A j \in 1..n : s[j] \in Nat
                         /\ \A j, m \in 1..n : s[j] = s[m] => j = m
    BY ListElements DEF IsList
  <1> DEFINE a == SubSeq(s, 1, k - 1)
             b == SubSeq(s, k + 1, n)
             r == a \o b
             from(j) == IF j < k THEN j ELSE j + 1
  <1>2. /\ a \in Seq(Nat) /\ Len(a) = k - 1 /\ \A j \in 1..(k - 1) : a[j] = s[j]
    BY <1>1, SubSeqProperties
  <1>3. /\ b \in Seq(Nat) /\ Len(b) = n - k /\ \A j \in 1..(n - k) : b[j] = s[j + k]
    BY <1>1, SubSeqProperties
  <1>4. r = RemoveAt(s, k)
    BY <1>1 DEF RemoveAt
  <1> HIDE DEF a, b
  <1>5. /\ r \in Seq(Nat) /\ Len(r) = n - 1
        /\ \A j \in 1..(n - 1) : r[j] = IF j <= Len(a) THEN a[j] ELSE b[j - Len(a)]
    <2>1. /\ r \in Seq(Nat) /\ Len(r) = Len(a) + Len(b)
          /\ \A j \in 1..(Len(a) + Len(b)) : r[j] = IF j <= Len(a) THEN a[j] ELSE b[j - Len(a)]
      BY <1>2, <1>3, ConcatProperties
    <2>2. Len(a) + Len(b) = n - 1
      BY <1>1, <1>2, <1>3
    <2> QED
      BY <2>1, <2>2
  <1> HIDE DEF r
  <1>6. ASSUME NEW j \in 1..(n - 1) PROVE r[j] = s[from(j)] /\ from(j) \in 1..n /\ from(j) # k
    <2>1. CASE j < k
      BY <1>1, <1>2, <1>5, <2>1
    <2>2. CASE j >= k
      <3>1. j - (k - 1) \in 1..(n - k) /\ j - (k - 1) + k = j + 1
        BY <1>1, <2>2
      <3>2. r[j] = b[j - (k - 1)]
        BY <1>1, <1>2, <1>5, <2>2
      <3> QED
        BY <1>1, <1>3, <2>2, <3>1, <3>2
    <2> QED
      BY <1>1, <2>1, <2>2
  <1>7. ASSUME NEW j \in 1..(n - 1), NEW m \in 1..(n - 1), r[j] = r[m] PROVE j = m
    <2>1. from(j) = from(m)
      BY <1>1, <1>6, <1>7
    <2> QED
      BY <2>1
  <1>8. IsList(r) /\ Len(r) = n - 1
    BY <1>5, <1>7 DEF IsList
  <1>9. ASSUME NEW j \in 1..n, j # k PROVE \E m \in 1..(n - 1) : r[m] = s[j]
    <2>1. CASE j < k
      <3>1. j \in 1..(n - 1) /\ from(j) = j
        BY <1>1, <2>1
      <3> QED
        BY <1>6, <3>1
    <2>2. CASE j > k
      <3>1. j - 1 \in 1..(n - 1) /\ from(j - 1) = j
        BY <1>1, <2>2
      <3> QED
        BY <1>6, <3>1
    <2> QED
      BY <1>9, <2>1, <2>2
  <1>10. \A e : e \in ToSet(r) <=> \E m \in 1..(n - 1) : r[m] = e
    BY <1>8, ListElements
  <1>11. \A e : e \in ToSet(s) <=> \E m \in 1..n : s[m] = e
    BY <1>1, ListElements
  <1>12. ToSet(r) \subseteq ToSet(s) \ {s[k]}
    BY <1>1, <1>6, <1>10, <1>11
  <1>13. ToSet(s) \ {s[k]} \subseteq ToSet(r)
    BY <1>9, <1>10, <1>11
  <1> QED
    BY <1>1, <1>4, <1>8, <1>12, <1>13

\* The list without an entry, which it may not have.
LEMMA RemoveFirstIs ==
    ASSUME NEW s, IsList(s), NEW e
    PROVE  IsList(RemoveFirst(s, e)) /\ ToSet(RemoveFirst(s, e)) = ToSet(s) \ {e}
  <1>1. CASE e \notin ToSet(s)
    BY <1>1, ListElements DEF RemoveFirst
  <1>2. CASE e \in ToSet(s)
    <2>1. PICK k \in 1..Len(s) : s[k] = e
      BY <1>2, ListElements
    <2>2. {j \in 1..Len(s) : s[j] = e} = {k}
      BY <2>1 DEF IsList
    <2>3. Min({k}) = k
      BY ListElements DEF Min
    <2>4. SelectInSeq(s, LAMBDA v : v = e) = k
      BY <2>2, <2>3 DEF SelectInSeq
    <2>5. RemoveFirst(s, e) = RemoveAt(s, k)
      BY <2>1, <2>4 DEF RemoveFirst
    <2> QED
      BY <2>1, <2>5, RemoveAtIs
  <1> QED
    BY <1>1, <1>2

\* The list with a new entry in front.
LEMMA ConsIs ==
    ASSUME NEW s, IsList(s), NEW e \in Nat \ ToSet(s)
    PROVE  /\ IsList(<<e>> \o s) /\ Len(<<e>> \o s) = Len(s) + 1
           /\ ToSet(<<e>> \o s) = ToSet(s) \cup {e}
  <1> DEFINE r == <<e>> \o s
  <1>1. PICK n \in Nat : /\ n = Len(s) /\ \A j \in 1..n : s[j] \in Nat /\ s[j] # e
                         /\ \A j, m \in 1..n : s[j] = s[m] => j = m
    BY ListElements DEF IsList
  <1>2. <<e>> \in Seq(Nat) /\ Len(<<e>>) = 1 /\ <<e>>[1] = e
    OBVIOUS
  <1>3. /\ r \in Seq(Nat) /\ Len(r) = n + 1
        /\ \A j \in 1..(n + 1) : r[j] = IF j <= 1 THEN <<e>>[j] ELSE s[j - 1]
    <2>1. /\ r \in Seq(Nat) /\ Len(r) = 1 + n
          /\ \A j \in 1..(1 + n) : r[j] = IF j <= 1 THEN <<e>>[j] ELSE s[j - 1]
      BY <1>1, <1>2, ConcatProperties DEF IsList
    <2> QED
      BY <2>1
  <1> HIDE DEF r
  <1>4. \A j \in 1..(n + 1) : r[j] = IF j = 1 THEN e ELSE s[j - 1]
    BY <1>2, <1>3
  <1>5. ASSUME NEW j \in 1..(n + 1), NEW m \in 1..(n + 1), r[j] = r[m] PROVE j = m
    <2>1. j = 1 \/ (j - 1 \in 1..n /\ r[j] = s[j - 1])
      BY <1>4
    <2>2. m = 1 \/ (m - 1 \in 1..n /\ r[m] = s[m - 1])
      BY <1>4
    <2>3. j = 1 => r[j] = e
      BY <1>4
    <2>4. m = 1 => r[m] = e
      BY <1>4
    <2>5. j - 1 = m - 1 => j = m
      OBVIOUS
    <2> QED
      BY <1>1, <1>5, <2>1, <2>2, <2>3, <2>4, <2>5
  <1>6. IsList(r) /\ Len(r) = n + 1
    BY <1>3, <1>5 DEF IsList
  <1>7. \A x : x \in ToSet(r) <=> \E m \in 1..(n + 1) : r[m] = x
    BY <1>6, ListElements
  <1>8. \A x : x \in ToSet(s) <=> \E m \in 1..n : s[m] = x
    BY <1>1, ListElements
  <1>9. e \in ToSet(r)
    BY <1>4, <1>7
  <1>10. ASSUME NEW x \in ToSet(s) PROVE x \in ToSet(r)
    <2>1. PICK m \in 1..n : s[m] = x
      BY <1>8, <1>10
    <2>2. m + 1 \in 1..(n + 1) /\ r[m + 1] = x
      BY <1>4, <2>1
    <2> QED
      BY <1>7, <2>2
  <1>11. ASSUME NEW x \in ToSet(r) PROVE x \in ToSet(s) \cup {e}
    <2>1. PICK m \in 1..(n + 1) : r[m] = x
      BY <1>7, <1>11
    <2>2. m = 1 \/ m - 1 \in 1..n
      OBVIOUS
    <2> QED
      BY <1>4, <1>8, <2>1, <2>2
  <1>12. IsList(r) /\ Len(r) = n + 1 /\ ToSet(r) = ToSet(s) \cup {e}
    BY <1>6, <1>9, <1>10, <1>11
  <1> QED
    BY <1>1, <1>12 DEF r

\* The list without its first entry.
LEMMA RestIs ==
    ASSUME NEW s, IsList(s), s # << >>
    PROVE  LET r == SubSeq(s, 2, Len(s))
           IN  /\ IsList(r) /\ Len(r) = Len(s) - 1
               /\ ToSet(r) = ToSet(s) \ {s[1]}
  <1>1. 1 \in 1..Len(s)
    BY ListElements, EmptySeq
  <1>2. SubSeq(s, 1, 0) = << >>
    BY SubSeqEmpty
  <1>3. SubSeq(s, 2, Len(s)) \in Seq(Nat)
    <2>1. \A i \in 2..Len(s) : s[i] \in Nat
      BY ListElements
    <2> QED
      BY <2>1, ListElements, SubSeqProperties
  <1>4. RemoveAt(s, 1) = << >> \o SubSeq(s, 2, Len(s))
    BY <1>2 DEF RemoveAt
  <1>5. RemoveAt(s, 1) = SubSeq(s, 2, Len(s))
    BY <1>3, <1>4, ConcatEmptySeq
  <1> QED
    BY <1>1, <1>5, RemoveAtIs
-------------------------------------------------------------------------------
\* Blocks.
LEMMA ListsOfOne ==
    ASSUME NEW e \in Nat
    PROVE  /\ IsList(<<e>>) /\ Len(<<e>>) = 1 /\ ToSet(<<e>>) = {e}
           /\ IsList(<< >>) /\ Len(<< >>) = 0 /\ ToSet(<< >>) = {}
  <1>1. IsList(<< >>) /\ Len(<< >>) = 0 /\ ToSet(<< >>) = {}
    BY DEF IsList, ToSet
  <1>2. <<e>> \in Seq(Nat) /\ Len(<<e>>) = 1 /\ <<e>>[1] = e /\ DOMAIN <<e>> = 1..1
    OBVIOUS
  <1>3. IsList(<<e>>)
    BY <1>2 DEF IsList
  <1>4. ToSet(<<e>>) = {e}
    BY <1>2 DEF ToSet
  <1> QED
    BY <1>1, <1>2, <1>3, <1>4

\* Each size has a class.
LEMMA MainClassIs == ASSUME NEW size \in Nat PROVE MainClass(size) \in 1..NMain
  <1> DEFINE P(i) == /\ i = NMain \/ size <= MainLimits[i]
                     /\ i > 1 => size > MainLimits[i - 1]
  <1>1. \E i \in 1..NMain : P(i)
    <2>1. \/ P(1) \/ P(2) \/ P(3) \/ P(4) \/ P(5) \/ P(6) \/ P(7) \/ P(8) \/ P(9) \/ P(10)
      BY DEF NMain, MainLimits
    <2> QED
      BY <2>1 DEF NMain
  <1> QED
    BY <1>1 DEF MainClass

LEMMA OnMainIs == ASSUME NEW h, NEW b PROVE OnMain(h, b) <=> b \in Mains(h)
  BY DEF OnMain, Mains

\* What a tiled heap says of each of its blocks.
LEMMA BlocksAre ==
    ASSUME NEW h, IsHeap(h), Tiled(h)
    PROVE  /\ End(h) \in Nat /\ End(h) \notin Starts(h) /\ End(h) > 1
           /\ \A b \in Starts(h) :
                 /\ b \in Nat /\ b >= 1 /\ b < End(h)
                 /\ h.blk[b].size \in Nat /\ h.blk[b].size >= MinLines
                 /\ Nxt(h, b) = b + h.blk[b].size /\ Nxt(h, b) \in Nat /\ b < Nxt(h, b)
                 /\ Nxt(h, b) <= End(h) /\ Nxt(h, b) \in Starts(h) \cup {End(h)}
                 /\ h.blk[b].alloc \in BOOLEAN /\ h.blk[b].prv \in BOOLEAN
                 /\ HasNext(h, b) <=> Nxt(h, b) \in Starts(h)
  <1>1. End(h) \in Nat
    BY SfmmAssumption DEF End, IsHeap
  <1>2. ASSUME NEW b \in Starts(h)
        PROVE  /\ b \in Nat /\ b >= 1
               /\ h.blk[b].size \in Nat /\ h.blk[b].size >= MinLines
               /\ Nxt(h, b) = b + h.blk[b].size /\ Nxt(h, b) \in Nat /\ b < Nxt(h, b)
               /\ Nxt(h, b) <= End(h) /\ Nxt(h, b) \in Starts(h) \cup {End(h)}
               /\ h.blk[b].alloc \in BOOLEAN /\ h.blk[b].prv \in BOOLEAN
    <2>1. h.blk[b] \in Words /\ b \in Nat
      BY <1>2 DEF IsHeap
    <2>2. h.blk[b].size \in Nat /\ h.blk[b].alloc \in BOOLEAN /\ h.blk[b].prv \in BOOLEAN
      BY <2>1 DEF Words
    <2>3. /\ b >= 1 /\ h.blk[b].size >= MinLines
          /\ Nxt(h, b) \in Starts(h) \cup {End(h)} /\ Nxt(h, b) <= End(h)
      BY <1>2 DEF Tiled
    <2>4. Nxt(h, b) = b + h.blk[b].size
      BY DEF Nxt
    <2> QED
      BY <2>1, <2>2, <2>3, <2>4 DEF MinLines
  <1>3. \A b \in Starts(h) : b < End(h)
    BY <1>1, <1>2
  <1>4. End(h) \notin Starts(h) /\ End(h) > 1
    BY <1>1, <1>3 DEF Tiled
  <1>5. \A b \in Starts(h) : HasNext(h, b) <=> Nxt(h, b) \in Starts(h)
    BY <1>1, <1>2, <1>3, <1>4 DEF HasNext
  <1> QED
    BY <1>1, <1>2, <1>3, <1>4, <1>5

\* A block ends where one begins at most.
LEMMA EndsOnce ==
    ASSUME NEW h, IsHeap(h), Tiled(h), NEW b \in Starts(h), NEW c \in Starts(h),
           Nxt(h, b) = Nxt(h, c)
    PROVE  b = c
  <1>1. b < c => FALSE
    BY BlocksAre DEF Tiled
  <1>2. c < b => FALSE
    BY BlocksAre DEF Tiled
  <1> QED
    BY <1>1, <1>2, BlocksAre

\* Each block but the first has one that ends where it begins.
LEMMA PrevIs ==
    ASSUME NEW h, IsHeap(h), Tiled(h), NEW b \in Starts(h), b # 1
    PROVE  Prev(h, b) \in Starts(h) /\ Nxt(h, Prev(h, b)) = b /\ Prev(h, b) < b
  <1>1. \E p \in Starts(h) : Nxt(h, p) = b
    BY DEF Tiled
  <1>2. Prev(h, b) \in Starts(h) /\ Nxt(h, Prev(h, b)) = b
    BY <1>1 DEF Prev, Starts
  <1> QED
    BY <1>2, BlocksAre

\* The blocks from first up to e become one.
LEMMA JoinTiles ==
    ASSUME NEW h, IsHeap(h), Tiled(h), NEW g,
           NEW first \in Starts(h), NEW e \in Starts(h) \cup {End(h)}, first < e,
           End(g) = End(h), g.blk[1].prv,
           Starts(g) = {c \in Starts(h) : c < first \/ c >= e} \cup {first},
           \A c \in Starts(g) \ {first} : g.blk[c].size = h.blk[c].size,
           g.blk[first].size = e - first
    PROVE  Tiled(g)
  <1>1. /\ e \in Nat /\ e <= End(h) /\ End(h) \in Nat /\ Nxt(h, first) <= e
        /\ End(h) \notin Starts(h) /\ 1 <= first /\ first \in Nat
    BY BlocksAre DEF Tiled
  <1>b. \A c \in Starts(h) : c \in Nat /\ c < End(h) /\ c < Nxt(h, c) /\ Nxt(h, c) \in Nat
    BY BlocksAre
  <1>2. /\ Nxt(g, first) = e /\ g.blk[first].size >= MinLines
        /\ e \in Starts(g) \cup {End(g)}
    <2>1. Nxt(g, first) = first + (e - first)
      BY DEF Nxt
    <2>2. h.blk[first].size \in Nat /\ h.blk[first].size >= 2 /\ first + h.blk[first].size <= e
      BY <1>1, BlocksAre DEF Nxt, MinLines
    <2>3. e \in Starts(h) => e \in Starts(g)
      BY <1>1
    <2> QED
      BY <1>1, <2>1, <2>2, <2>3 DEF MinLines
  <1>3. ASSUME NEW c \in Starts(g), c # first
        PROVE  /\ c \in Starts(h) /\ Nxt(g, c) = Nxt(h, c) /\ (c < first \/ c >= e)
               /\ g.blk[c].size = h.blk[c].size
               /\ c < first => Nxt(h, c) <= first
    BY <1>3, BlocksAre DEF Nxt, Tiled
  <1>4. 1 \in Starts(g)
    <2>1. 1 \in Starts(h) /\ (1 < first \/ first = 1)
      BY BlocksAre, <1>1 DEF Tiled
    <2> QED
      BY <2>1
  <1>5. ASSUME NEW c \in Starts(g)
        PROVE  /\ c >= 1 /\ g.blk[c].size >= MinLines
               /\ Nxt(g, c) \in Starts(g) \cup {End(g)} /\ Nxt(g, c) <= End(g)
    <2>1. CASE c = first
      BY <1>1, <1>2, <2>1
    <2>2. CASE c # first
      <3>1. Nxt(h, c) \in Starts(h) \cup {End(h)} /\ (Nxt(h, c) <= first \/ Nxt(h, c) >= e)
        <4>1. Nxt(h, c) \in Starts(h) \cup {End(h)}
          BY <1>3, <2>2, BlocksAre
        <4>2. c >= e => Nxt(h, c) >= e
          BY <1>1, <1>b, <1>3, <2>2
        <4> QED
          BY <1>3, <2>2, <4>1, <4>2
      <3>2. Nxt(h, c) \in Starts(h) => Nxt(h, c) \in Starts(g)
        BY <1>1, <1>b, <3>1
      <3> QED
        BY <1>3, <2>2, <3>2, BlocksAre
    <2> QED
      BY <2>1, <2>2
  <1>6. ASSUME NEW b \in (Starts(g) \cup {End(g)}) \ {1}
        PROVE  \E p \in Starts(g) : Nxt(g, p) = b
    <2>1. CASE b = e
      BY <1>2, <2>1
    <2>2. CASE b # e
      <3>1. b \in (Starts(h) \cup {End(h)}) \ {1} /\ (b <= first \/ b > e)
        <4>1. CASE b = End(h)
          BY <1>1, <2>2, <4>1
        <4>2. CASE b # End(h)
          BY <1>1, <1>b, <1>3, <1>6, <2>2, <4>2
        <4> QED
          BY <4>1, <4>2
      <3>2. PICK p \in Starts(h) : Nxt(h, p) = b
        BY <3>1 DEF Tiled
      <3>3. p \in Starts(g) /\ p # first
        <4>1. CASE b <= first
          BY <3>2, <4>1, BlocksAre
        <4>2. CASE b > e
          <5>1. e \in Starts(h)
            BY <1>1, <3>1, <4>2, BlocksAre
          <5>2. p >= e
            BY <1>1, <3>2, <4>2, <5>1, BlocksAre DEF Tiled
          <5> QED
            BY <1>1, <5>2, BlocksAre
        <4> QED
          BY <3>1, <4>1, <4>2
      <3> QED
        BY <1>3, <3>2, <3>3
    <2> QED
      BY <2>1, <2>2
  <1>7. ASSUME NEW b \in Starts(g), NEW c \in Starts(g), b < c
        PROVE  Nxt(g, b) <= c
    <2>1. CASE b = first
      <3>1. c # first /\ ~(c < first)
        BY <1>1, <1>b, <1>7, <2>1
      <3> QED
        BY <1>2, <1>3, <2>1, <3>1
    <2>2. CASE b # first
      BY <1>3, <1>7, <2>2, BlocksAre DEF Tiled
    <2> QED
      BY <2>1, <2>2
  <1> QED
    BY <1>4, <1>5, <1>6, <1>7 DEF Tiled

\* A block is cut in two.
LEMMA SplitTiles ==
    ASSUME NEW h, IsHeap(h), Tiled(h), NEW g, NEW b \in Starts(h), NEW size \in Nat,
           size >= MinLines, h.blk[b].size - size >= MinLines, NEW m, m = b + size,
           Starts(g) = Starts(h) \cup {m}, End(g) = End(h), g.blk[1].prv,
           g.blk[b].size = size, g.blk[m].size = h.blk[b].size - size,
           \A c \in Starts(h) \ {b} : g.blk[c].size = h.blk[c].size
    PROVE  Tiled(g) /\ m \notin Starts(h)
  <1>0. \A c \in Starts(h) : /\ c \in Nat /\ c >= 1 /\ c < End(h) /\ c < Nxt(h, c) /\ Nxt(h, c) \in Nat
                             /\ Nxt(h, c) <= End(h) /\ h.blk[c].size >= MinLines
    BY BlocksAre
  <1>1. /\ m \in Nat /\ b < m /\ m < Nxt(h, b) /\ Nxt(h, b) = b + h.blk[b].size
        /\ h.blk[b].size \in Nat /\ b \in Nat
    BY BlocksAre DEF MinLines
  <1>2. m \notin Starts(h)
    <2>1. m \in Starts(h) => Nxt(h, b) <= m
      BY <1>1 DEF Tiled
    <2> QED
      BY <1>1, <2>1, BlocksAre
  <1>3. Nxt(g, b) = m /\ Nxt(g, m) = Nxt(h, b)
    BY <1>1 DEF Nxt
  <1>4. ASSUME NEW c \in Starts(h), c # b
        PROVE  Nxt(g, c) = Nxt(h, c) /\ g.blk[c].size = h.blk[c].size
    BY <1>4 DEF Nxt
  <1>5. ASSUME NEW c \in Starts(g)
        PROVE  /\ c >= 1 /\ g.blk[c].size >= MinLines
               /\ Nxt(g, c) \in Starts(g) \cup {End(g)} /\ Nxt(g, c) <= End(g)
    <2>1. CASE c = b
      <3>1. m \in Starts(g) /\ m <= Nxt(h, b) /\ Nxt(h, b) <= End(h) /\ b >= 1
        BY <1>0, <1>1
      <3>2. m <= End(h)
        BY <1>1, <3>1, BlocksAre
      <3> QED
        BY <1>3, <2>1, <3>1, <3>2
    <2>2. CASE c = m
      <3>1. Nxt(h, b) \in Starts(h) \cup {End(h)}
        BY BlocksAre
      <3> QED
        BY <1>0, <1>1, <1>3, <2>2, <3>1
    <2>3. CASE c # b /\ c # m
      <3>1. c \in Starts(h) /\ Nxt(h, c) \in Starts(h) \cup {End(h)}
        BY <2>3, BlocksAre
      <3> QED
        BY <1>0, <1>4, <2>3, <3>1
    <2> QED
      BY <2>1, <2>2, <2>3
  <1>6. ASSUME NEW c \in (Starts(g) \cup {End(g)}) \ {1}
        PROVE  \E p \in Starts(g) : Nxt(g, p) = c
    <2>1. CASE c = m
      BY <1>3, <2>1
    <2>2. CASE c # m
      <3>1. PICK p \in Starts(h) : Nxt(h, p) = c
        BY <2>2 DEF Tiled
      <3> QED
        BY <1>3, <1>4, <3>1
    <2> QED
      BY <2>1, <2>2
  <1>7. ASSUME NEW c \in Starts(g), NEW d \in Starts(g), c < d
        PROVE  Nxt(g, c) <= d
    <2>1. \A x, y \in Starts(h) : x < y => Nxt(h, x) <= y
      BY DEF Tiled
    <2>2. CASE c = b
      BY <1>0, <1>1, <1>3, <1>7, <2>1, <2>2
    <2>3. CASE c = m
      <3>1. d \in Starts(h) /\ b < d
        BY <1>0, <1>1, <1>7, <2>3
      <3> QED
        BY <1>3, <2>1, <2>3, <3>1
    <2>4. CASE c # b /\ c # m
      <3>1. c \in Starts(h) /\ Nxt(g, c) = Nxt(h, c)
        BY <1>4, <2>4
      <3>2. CASE d = m
        <4>1. c < b
          <5>1. b < c => Nxt(h, b) <= c
            BY <2>1, <3>1
          <5>2. c \in Nat /\ c < m /\ Nxt(h, b) \in Nat
            BY <1>0, <1>7, <3>1, <3>2
          <5> QED
            BY <1>1, <2>4, <5>1, <5>2
        <4> QED
          BY <1>0, <1>1, <2>1, <3>1, <3>2, <4>1
      <3>3. CASE d # m
        BY <1>7, <2>1, <3>1, <3>3
      <3> QED
        BY <3>2, <3>3
    <2> QED
      BY <2>2, <2>3, <2>4
  <1> QED
    BY <1>2, <1>5, <1>6, <1>7 DEF Tiled

\* A page is added behind the last block.
LEMMA GrowTiles ==
    ASSUME NEW h, IsHeap(h), Tiled(h), NEW g,
           Starts(g) = Starts(h) \cup {End(h)}, End(g) = End(h) + Page, g.blk[1].prv,
           g.blk[End(h)].size = Page,
           \A c \in Starts(h) : g.blk[c].size = h.blk[c].size
    PROVE  Tiled(g)
  <1> DEFINE m == End(h)
  <1>0. \A c \in Starts(h) : /\ c \in Nat /\ c >= 1 /\ c < m /\ c < Nxt(h, c) /\ Nxt(h, c) \in Nat
                             /\ Nxt(h, c) <= m /\ h.blk[c].size >= MinLines
                             /\ Nxt(h, c) \in Starts(h) \cup {m}
    BY BlocksAre
  <1>1. m \in Nat /\ m > 1 /\ Page \in Nat /\ Page >= MinLines
    BY SfmmAssumption, BlocksAre DEF MinLines
  <1>2. Nxt(g, m) = End(g)
    BY DEF Nxt
  <1>3. \A c \in Starts(h) : Nxt(g, c) = Nxt(h, c)
    BY DEF Nxt
  <1>4. ASSUME NEW c \in Starts(g)
        PROVE  /\ c >= 1 /\ g.blk[c].size >= MinLines
               /\ Nxt(g, c) \in Starts(g) \cup {End(g)} /\ Nxt(g, c) <= End(g)
    <2>1. CASE c = m
      BY <1>1, <1>2, <2>1
    <2>2. CASE c # m
      <3>1. c \in Starts(h)
        BY <2>2
      <3>2. Nxt(g, c) \in Starts(h) \cup {m} /\ Nxt(g, c) <= m /\ Nxt(g, c) \in Nat
        BY <1>0, <1>3, <3>1
      <3> QED
        BY <1>0, <1>1, <3>1, <3>2
    <2> QED
      BY <2>1, <2>2
  <1>5. ASSUME NEW c \in (Starts(g) \cup {End(g)}) \ {1}
        PROVE  \E p \in Starts(g) : Nxt(g, p) = c
    <2>1. CASE c = End(g)
      BY <1>2, <2>1
    <2>2. CASE c # End(g)
      <3>1. c \in (Starts(h) \cup {End(h)}) \ {1}
        BY <2>2
      <3>2. PICK p \in Starts(h) : Nxt(h, p) = c
        BY <3>1 DEF Tiled
      <3> QED
        BY <1>3, <3>2
    <2> QED
      BY <2>1, <2>2
  <1>6. ASSUME NEW c \in Starts(g), NEW d \in Starts(g), c < d
        PROVE  Nxt(g, c) <= d
    <2>1. c \in Starts(h) /\ Nxt(g, c) = Nxt(h, c)
      BY <1>0, <1>1, <1>3, <1>6
    <2>2. CASE d = m
      BY <1>0, <2>1, <2>2
    <2>3. CASE d # m
      BY <1>6, <2>1, <2>3 DEF Tiled
    <2> QED
      BY <2>2, <2>3
  <1>7. 1 \in Starts(g)
    BY DEF Tiled
  <1> QED
    BY <1>4, <1>5, <1>6, <1>7 DEF Tiled

-------------------------------------------------------------------------------
\* Two heaps are the same but for some fields.
SameBlocks(g, h) == g.blk = h.blk /\ g.last = h.last /\ g.pages = h.pages
SameLists(g, h)  == g.main = h.main /\ g.quick = h.quick

\* A fault changes nothing else.
LEMMA WildIs ==
    ASSUME NEW h, IsHeap(h)
    PROVE  /\ IsHeap(Wild(h)) /\ SameBlocks(Wild(h), h) /\ SameLists(Wild(h), h)
           /\ Wild(h).fault = "wild"
  <1> DEFINE g == Wild(h)
  <1>1. /\ DOMAIN g = Fields /\ g.blk = h.blk /\ g.last = h.last /\ g.pages = h.pages
        /\ g.main = h.main /\ g.quick = h.quick /\ g.fault = "wild"
    BY DEF Wild, IsHeap, Fields
  <1> HIDE DEF g
  <1>2. IsHeap(g)
    BY <1>1 DEF IsHeap, Starts
  <1> QED
    BY <1>1, <1>2 DEF SameBlocks, SameLists, g

\* A block is taken from its main list.
LEMMA UnlinkIs ==
    ASSUME NEW h, IsHeap(h), NEW b
    PROVE  LET g == Unlink(h, b)
           IN  /\ IsHeap(g) /\ SameBlocks(g, h) /\ g.quick = h.quick /\ g.fault = h.fault
               /\ \A i \in 1..NMain : ToSet(g.main[i]) = ToSet(h.main[i]) \ {b}
               /\ Mains(g) = Mains(h) \ {b} /\ Quicks(g) = Quicks(h)
  <1> DEFINE g == Unlink(h, b)
  <1>1. /\ DOMAIN g = Fields /\ g.blk = h.blk /\ g.last = h.last /\ g.pages = h.pages
        /\ g.quick = h.quick /\ g.fault = h.fault
        /\ g.main = [i \in 1..NMain |-> RemoveFirst(h.main[i], b)]
    BY DEF Unlink, IsHeap, Fields
  <1> HIDE DEF g
  <1>2. ASSUME NEW i \in 1..NMain
        PROVE  IsList(g.main[i]) /\ ToSet(g.main[i]) = ToSet(h.main[i]) \ {b}
    <2>1. IsList(h.main[i]) /\ g.main[i] = RemoveFirst(h.main[i], b)
      BY <1>1 DEF IsHeap
    <2> QED
      BY <2>1, RemoveFirstIs
  <1>3. IsHeap(g)
    BY <1>1, <1>2 DEF IsHeap, Starts
  <1>4. Mains(g) = Mains(h) \ {b}
    BY <1>2 DEF Mains
  <1>5. Quicks(g) = Quicks(h)
    BY <1>1 DEF Quicks
  <1> QED
    BY <1>1, <1>2, <1>3, <1>4, <1>5 DEF SameBlocks, g

\* last_bp is moved to the last block.
LEMMA AtEndIs ==
    ASSUME NEW h, IsHeap(h), NEW b \in Nat
    PROVE  LET g == AtEnd(h, b)
           IN  /\ IsHeap(g) /\ SameLists(g, h) /\ g.blk = h.blk /\ g.pages = h.pages
               /\ g.fault = h.fault /\ g.last = IF HasNext(h, b) THEN h.last ELSE b
  <1> DEFINE g == AtEnd(h, b)
  <1>1. /\ DOMAIN g = Fields /\ g.blk = h.blk /\ g.pages = h.pages /\ g.fault = h.fault
        /\ g.main = h.main /\ g.quick = h.quick
        /\ g.last = IF HasNext(h, b) THEN h.last ELSE b
    BY DEF AtEnd, IsHeap, Fields
  <1> HIDE DEF g
  <1>2. IsHeap(g)
    BY <1>1 DEF IsHeap, Starts
  <1> QED
    BY <1>1, <1>2 DEF SameLists, g

\* What a block is joined with lies next to it.
LEMMA JoinIs ==
    ASSUME NEW h, NEW b \in Starts(h), IsHeap(h), Tiled(h)
    PROVE  /\ JoinFrom(h, b) \in Starts(h) /\ JoinTo(h, b) \in Starts(h)
           /\ JoinFrom(h, b) = b \/ (~h.blk[b].prv /\ Nxt(h, JoinFrom(h, b)) = b)
           /\ JoinTo(h, b) = b \/ (Nxt(h, b) = JoinTo(h, b) /\ ~h.blk[JoinTo(h, b)].alloc)
           /\ JoinFrom(h, b) = b => h.blk[b].prv
           /\ \A c \in Starts(h) : JoinFrom(h, b) <= c /\ c < Nxt(h, JoinTo(h, b))
                    <=> c \in {JoinFrom(h, b), b, JoinTo(h, b)}
  <1> DEFINE first == JoinFrom(h, b)
             next == JoinTo(h, b)
  <1>0. \A c \in Starts(h) : c \in Nat /\ c < Nxt(h, c) /\ Nxt(h, c) \in Nat /\ h.blk[c].prv \in BOOLEAN
    BY BlocksAre
  <1>1. first \in Starts(h) /\ (first = b \/ (~h.blk[b].prv /\ Nxt(h, first) = b))
    <2>1. ~h.blk[b].prv => b # 1
      BY DEF Tiled
    <2> QED
      BY <1>0, <2>1, PrevIs DEF JoinFrom
  <1>2. next \in Starts(h) /\ (next = b \/ (Nxt(h, b) = next /\ ~h.blk[next].alloc))
    BY BlocksAre DEF JoinTo
  <1>3. first = b => h.blk[b].prv
    <2>1. ~h.blk[b].prv => b # 1
      BY DEF Tiled
    <2> QED
      BY <1>0, <2>1, PrevIs DEF JoinFrom
  <1> HIDE DEF first, next
  <1>4. first <= b /\ b <= next /\ next < Nxt(h, next) /\ Nxt(h, b) <= Nxt(h, next)
    BY <1>0, <1>1, <1>2
  <1>5. \A c, d \in Starts(h) : c < d => Nxt(h, c) <= d
    BY DEF Tiled
  <1>6. ASSUME NEW c \in Starts(h), first <= c, c < Nxt(h, next) PROVE c \in {first, b, next}
    <2>1. c <= next
      BY <1>0, <1>2, <1>5, <1>6
    <2>2. CASE c < b
      BY <1>0, <1>1, <1>5, <1>6, <2>2
    <2>3. CASE c > b
      BY <1>0, <1>2, <1>5, <2>1, <2>3
    <2> QED
      BY <1>0, <2>2, <2>3
  <1>7. ASSUME NEW c \in {first, b, next} PROVE first <= c /\ c < Nxt(h, next)
    BY <1>0, <1>1, <1>2, <1>4, <1>7
  <1>8. \A c \in Starts(h) : first <= c /\ c < Nxt(h, next) <=> c \in {first, b, next}
    BY <1>6, <1>7
  <1> QED
    BY <1>1, <1>2, <1>3, <1>8 DEF first, next

\* The joined block is loose, its neighbours' places are gone.
LEMMA JoinedIs ==
    ASSUME NEW h, NEW b, Sound(h, b), b \in Loose(h), NEW first, NEW next,
           first = JoinFrom(h, b), next = JoinTo(h, b),
           {first, next} \ {b} \subseteq Mains(h)
    PROVE  LET g == Joined(h, first, b, next)
           IN  /\ IsHeap(g) /\ Tiled(g) /\ ListsOK(g)
               /\ Mains(g) = Mains(h) \ {first, b, next} /\ g.quick = h.quick
               /\ g.pages = h.pages /\ g.fault = h.fault /\ g.last = h.last
               /\ Starts(g) = (Starts(h) \ {b, next}) \cup {first}
               /\ \A c \in Starts(g) \ {first} : g.blk[c] = h.blk[c]
               /\ g.blk[first].foot /\ g.blk[first].prv = (first = b \/ h.blk[first].prv)
               /\ Nxt(g, first) = Nxt(h, next)
  <1> DEFINE u == Unlink(h, first)
             v == Unlink(u, next)
             g == Joined(h, first, b, next)
             e == Nxt(h, next)
  <1>1. IsHeap(h) /\ Tiled(h) /\ ListsOK(h) /\ b \in Starts(h) /\ b \notin Mains(h) /\ b \notin Quicks(h)
    BY DEF Sound, Loose
  <1>2. /\ first \in Starts(h) /\ next \in Starts(h)
        /\ \A c \in Starts(h) : first <= c /\ c < e <=> c \in {first, b, next}
        /\ first = b => h.blk[b].prv
    BY <1>1, JoinIs
  <1>3. /\ IsHeap(u) /\ SameBlocks(u, h) /\ u.quick = h.quick /\ u.fault = h.fault
        /\ \A i \in 1..NMain : ToSet(u.main[i]) = ToSet(h.main[i]) \ {first}
        /\ Mains(u) = Mains(h) \ {first} /\ Quicks(u) = Quicks(h)
    BY <1>1, UnlinkIs
  <1> HIDE DEF u
  <1>4. /\ IsHeap(v) /\ SameBlocks(v, u) /\ v.quick = u.quick /\ v.fault = u.fault
        /\ \A i \in 1..NMain : ToSet(v.main[i]) = ToSet(u.main[i]) \ {next}
        /\ Mains(v) = Mains(u) \ {next} /\ Quicks(v) = Quicks(u)
    BY <1>3, UnlinkIs
  <1> HIDE DEF v
  <1>5. /\ DOMAIN g = Fields /\ g.pages = h.pages /\ g.last = h.last /\ g.fault = h.fault
        /\ g.quick = h.quick /\ g.main = v.main
        /\ g.blk = [c \in (Starts(h) \ {b, next}) \cup {first} |->
                      IF c = first
                      THEN Block(e - first, FALSE, first = b \/ h.blk[first].prv, TRUE)
                      ELSE h.blk[c]]
    <2>1. DOMAIN v = Fields /\ v.blk = h.blk /\ v.pages = h.pages /\ v.last = h.last
      BY <1>3, <1>4 DEF IsHeap, SameBlocks
    <2>2. g = [v EXCEPT !.blk = [c \in (Starts(h) \ {b, next}) \cup {first} |->
                      IF c = first
                      THEN Block(e - first, FALSE, first = b \/ h.blk[first].prv, TRUE)
                      ELSE h.blk[c]]]
      BY <2>1 DEF Joined, u, v, Starts
    <2> QED
      BY <1>3, <1>4, <2>1, <2>2 DEF Fields
  <1> HIDE DEF g
  <1>6. /\ Starts(g) = (Starts(h) \ {b, next}) \cup {first}
        /\ \A c \in Starts(g) \ {first} : g.blk[c] = h.blk[c] /\ c \in Starts(h)
        /\ g.blk[first] = Block(e - first, FALSE, first = b \/ h.blk[first].prv, TRUE)
    BY <1>5 DEF Starts
  <1>7. /\ g.blk[first].size = e - first /\ g.blk[first].foot /\ ~g.blk[first].alloc
        /\ g.blk[first].prv = (first = b \/ h.blk[first].prv)
    BY <1>6 DEF Block
  <1>8. /\ first \in Nat /\ e \in Nat /\ first < e /\ e \in Starts(h) \cup {End(h)}
        /\ h.blk[first].prv \in BOOLEAN
    <2>1. next \in Nat /\ next < e /\ e \in Nat /\ first \in Nat
      BY <1>1, <1>2, BlocksAre
    <2> QED
      BY <1>1, <1>2, <2>1, BlocksAre
  <1>9. IsHeap(g)
    <2>1. \A c \in Starts(g) : g.blk[c] \in Words
      <3>1. g.blk[first] \in Words
        BY <1>6, <1>8 DEF Block, Words
      <3> QED
        BY <1>1, <1>6, <3>1 DEF IsHeap
    <2>2. Starts(g) \subseteq Nat
      BY <1>1, <1>6, <1>8 DEF IsHeap
    <2> QED
      BY <1>1, <1>4, <1>5, <2>1, <2>2 DEF IsHeap
  <1>10. Tiled(g)
    <2>1. End(g) = End(h)
      BY <1>5 DEF End
    <2>2. g.blk[1].prv
      <3>1. 1 \in Starts(h) /\ h.blk[1].prv /\ 1 <= first
        BY <1>1, <1>2, BlocksAre DEF Tiled
      <3>2. CASE first = 1
        BY <1>7, <3>1, <3>2
      <3>3. CASE first # 1
        <4>1. 1 \notin {first, b, next}
          BY <1>2, <1>8, <3>1, <3>3
        <4> QED
          BY <1>6, <3>1, <4>1
      <3> QED
        BY <3>2, <3>3
    <2>3. Starts(g) = {c \in Starts(h) : c < first \/ c >= e} \cup {first}
      <3>1. \A c \in Starts(h) : c \in Nat
        BY <1>1, BlocksAre
      <3>2. ASSUME NEW c \in Starts(h)
            PROVE  c \notin {first, b, next} <=> (c < first \/ c >= e)
        <4>1. c \in Nat /\ first \in Nat /\ e \in Nat
          BY <1>8, <3>1
        <4>2. (first <= c /\ c < e) <=> c \in {first, b, next}
          BY <1>2
        <4> HIDE DEF e
        <4> QED
          BY <4>1, <4>2
      <3> QED
        BY <1>6, <3>2
    <2>4. \A c \in Starts(g) \ {first} : g.blk[c].size = h.blk[c].size
      BY <1>6
    <2> QED
      BY <1>1, <1>2, <1>7, <1>8, <2>1, <2>2, <2>3, <2>4, JoinTiles
  <1>11. \A i \in 1..NMain : ToSet(g.main[i]) = ToSet(h.main[i]) \ {first, b, next}
    <2>1. \A i \in 1..NMain : b \notin ToSet(h.main[i])
      BY <1>1 DEF Mains
    <2> QED
      BY <1>3, <1>4, <1>5, <2>1
  <1>12. Mains(g) = Mains(h) \ {first, b, next} /\ Quicks(g) = Quicks(h)
    BY <1>5, <1>11 DEF Mains, Quicks
  <1>13. ListsOK(g)
    <2>1. ASSUME NEW i \in 1..NMain, NEW c \in ToSet(g.main[i])
          PROVE  /\ c \in Starts(g) \ Quicks(g)
                 /\ MainClass(g.blk[c].size) = i /\ g.blk[c].foot
      <3>1. c \in ToSet(h.main[i]) /\ c \notin {first, b, next}
        BY <1>11, <2>1
      <3>2. c \in Starts(h) \ Quicks(h) /\ MainClass(h.blk[c].size) = i /\ h.blk[c].foot
        BY <1>1, <3>1 DEF ListsOK
      <3> QED
        BY <1>6, <1>12, <3>1, <3>2
    <2>2. ASSUME NEW i \in 1..NQuick
          PROVE  /\ Len(g.quick[i]) <= QuickMax
                 /\ \A c \in ToSet(g.quick[i]) :
                       /\ c \in Starts(g) /\ QuickClass(g.blk[c].size) = i
                       /\ g.blk[c].foot /\ g.blk[c].alloc
      <3>1. Len(g.quick[i]) <= QuickMax
        BY <1>1, <1>5 DEF ListsOK
      <3>2. ASSUME NEW c \in ToSet(g.quick[i])
            PROVE  /\ c \in Starts(g) /\ QuickClass(g.blk[c].size) = i
                   /\ g.blk[c].foot /\ g.blk[c].alloc
        <4>1. c \in ToSet(h.quick[i]) /\ c \in Quicks(h)
          BY <1>5, <3>2 DEF Quicks
        <4>2. /\ c \in Starts(h) /\ QuickClass(h.blk[c].size) = i
              /\ h.blk[c].foot /\ h.blk[c].alloc
          BY <1>1, <4>1 DEF ListsOK
        <4>3. c \notin Mains(h)
          BY <1>1, <4>1 DEF ListsOK, Mains
        <4>4. c \notin {first, b, next}
          BY <1>1, <4>1, <4>3
        <4> QED
          BY <1>6, <4>2, <4>4
      <3> QED
        BY <3>1, <3>2
    <2> QED
      BY <2>1, <2>2 DEF ListsOK
  <1>14. Nxt(g, first) = e
    BY <1>7, <1>8 DEF Nxt
  <1> QED
    BY <1>5, <1>6, <1>7, <1>9, <1>10, <1>12, <1>13, <1>14 DEF g

\* What is sound stays so if only the fault changes.
LEMMA SoundSame ==
    ASSUME NEW h, NEW g, NEW x, Sound(h, x), IsHeap(g), SameBlocks(g, h), SameLists(g, h)
    PROVE  Sound(g, x) /\ Loose(g) = Loose(h)
  <1>1. /\ Starts(g) = Starts(h) /\ End(g) = End(h) /\ Mains(g) = Mains(h)
        /\ Quicks(g) = Quicks(h) /\ \A c : Nxt(g, c) = Nxt(h, c) /\ (LastOf(g, c) <=> LastOf(h, c))
    BY DEF SameBlocks, SameLists, Starts, End, Mains, Quicks, Nxt, LastOf
  <1>2. Tiled(g)
    BY <1>1 DEF Sound, Tiled, SameBlocks
  <1>3. ListsOK(g)
    BY <1>1 DEF Sound, ListsOK, SameBlocks, SameLists
  <1> QED
    BY <1>1, <1>2, <1>3 DEF Sound, Loose, SameBlocks

\* What a loose block is joined to.
LEMMA CoalesceIs ==
    ASSUME NEW h, NEW b, Sound(h, b), b \in Loose(h), NEW r, r = Coalesce(h, b)
    PROVE  /\ Sound(r.heap, r.at) /\ r.at \in Loose(r.heap)
           /\ Loose(r.heap) = (Loose(h) \ {b}) \cup {r.at} /\ r.at \notin Loose(h) \ {b}
           /\ \A c \in Loose(h) \ {b} : r.heap.blk[c] = h.blk[c]
           /\ r.heap.quick = h.quick /\ r.heap.pages = h.pages
           /\ r.heap.fault \in {h.fault, "wild"}
           /\ LastOf(h, b) => LastOf(r.heap, r.at)
           /\ h.blk[b].foot => r.heap.blk[r.at].foot
           /\ Nxt(h, b) = End(h) => Nxt(r.heap, r.at) = End(h)
  <1> DEFINE first == JoinFrom(h, b)
             next == JoinTo(h, b)
             g == Joined(h, first, b, next)
             Post(k, at) ==
               /\ Sound(k, at) /\ at \in Loose(k)
               /\ Loose(k) = (Loose(h) \ {b}) \cup {at} /\ at \notin Loose(h) \ {b}
               /\ \A c \in Loose(h) \ {b} : k.blk[c] = h.blk[c]
               /\ k.quick = h.quick /\ k.pages = h.pages /\ k.fault \in {h.fault, "wild"}
               /\ LastOf(h, b) => LastOf(k, at)
               /\ h.blk[b].foot => k.blk[at].foot
               /\ Nxt(h, b) = End(h) => Nxt(k, at) = End(h)
  <1>1. /\ IsHeap(h) /\ Tiled(h) /\ ListsOK(h) /\ b \in Starts(h)
        /\ b \notin Mains(h) /\ b \notin Quicks(h)
    BY DEF Sound, Loose
  <1>2. /\ first \in Starts(h) /\ next \in Starts(h)
        /\ first = b \/ (~h.blk[b].prv /\ Nxt(h, first) = b)
        /\ next = b \/ (Nxt(h, b) = next /\ ~h.blk[next].alloc)
    BY <1>1, JoinIs
  <1> HIDE DEF first, next
  <1>3. CASE first = b /\ next = b
    <2>1. r = [heap |-> h, at |-> b]
      BY <1>3 DEF Coalesce, first, next
    <2>2. Post(h, b)
      BY <1>1 DEF Loose
    <2> QED
      BY <2>1, <2>2
  <1>4. CASE ~(first = b /\ next = b) /\ ~(\A c \in {first, next} \ {b} : OnMain(h, c))
    <2>1. r = [heap |-> Wild(h), at |-> b]
      BY <1>4 DEF Coalesce, first, next
    <2>2. /\ IsHeap(Wild(h)) /\ SameBlocks(Wild(h), h) /\ SameLists(Wild(h), h)
          /\ Wild(h).fault = "wild"
      BY <1>1, WildIs
    <2>3. Sound(Wild(h), b) /\ Loose(Wild(h)) = Loose(h)
      BY <2>2, SoundSame
    <2>4. Post(Wild(h), b)
      BY <2>2, <2>3 DEF Nxt, LastOf, End, SameBlocks, SameLists
    <2> QED
      BY <2>1, <2>4
  <1>5. CASE ~(first = b /\ next = b) /\ \A c \in {first, next} \ {b} : OnMain(h, c)
    <2> DEFINE k == AtEnd(g, first)
    <2>1. r = [heap |-> k, at |-> first]
      BY <1>5 DEF Coalesce, first, next
    <2>2. {first, next} \ {b} \subseteq Mains(h)
      BY <1>5, OnMainIs
    <2>3. /\ IsHeap(g) /\ Tiled(g) /\ ListsOK(g)
          /\ Mains(g) = Mains(h) \ {first, b, next} /\ g.quick = h.quick
          /\ g.pages = h.pages /\ g.fault = h.fault /\ g.last = h.last
          /\ Starts(g) = (Starts(h) \ {b, next}) \cup {first}
          /\ \A c \in Starts(g) \ {first} : g.blk[c] = h.blk[c]
          /\ g.blk[first].foot
          /\ Nxt(g, first) = Nxt(h, next)
      BY <2>2, JoinedIs DEF first, next
    <2> HIDE DEF g
    <2>4. first \in Nat
      BY <1>1, <1>2, BlocksAre
    <2>5. /\ IsHeap(k) /\ SameLists(k, g) /\ k.blk = g.blk /\ k.pages = g.pages
          /\ k.fault = g.fault /\ k.last = IF HasNext(g, first) THEN g.last ELSE first
      BY <2>3, <2>4, AtEndIs
    <2> HIDE DEF k
    <2>6. /\ Starts(k) = Starts(g) /\ End(k) = End(g) /\ End(g) = End(h)
          /\ \A c : Nxt(k, c) = Nxt(g, c)
          /\ Mains(k) = Mains(g) /\ Quicks(k) = Quicks(h)
      BY <2>3, <2>5 DEF Starts, End, Nxt, Mains, Quicks, SameLists
    <2>7. Tiled(k) /\ ListsOK(k)
      <3>1. Tiled(k)
        BY <2>3, <2>5, <2>6 DEF Tiled
      <3>2. Quicks(k) = Quicks(g)
        BY <2>5 DEF Quicks, SameLists
      <3>3. ListsOK(k)
        BY <2>3, <2>5, <2>6, <3>2 DEF ListsOK, SameLists
      <3> QED
        BY <3>1, <3>3
    <2>8. \A c \in Mains(h) : c \notin Quicks(h)
      BY <1>1 DEF ListsOK, Mains
    <2>9. /\ first \in Loose(k) /\ Loose(k) = (Loose(h) \ {b}) \cup {first}
          /\ first \notin Loose(h) \ {b}
      BY <1>1, <1>2, <2>2, <2>3, <2>6, <2>8 DEF Loose
    <2>10. \A c \in Starts(g) \ {first} : Nxt(g, c) = Nxt(h, c) /\ c \in Starts(h) \ {b, first, next}
      BY <1>2, <2>3 DEF Nxt
    <2>11. \A c \in Starts(g) : HasNext(g, c) <=> Nxt(g, c) # End(g)
      BY <2>3, BlocksAre
    <2>12. first \in Starts(g)
      BY <2>3
    <2>13. LastOf(k, first)
      BY <2>5, <2>6, <2>11, <2>12 DEF LastOf
    <2>14. \A c \in Starts(h) \ {b} : (h.blk[c].alloc \/ c \in Mains(h)) /\ LastOf(h, c)
      BY DEF Sound
    <2>15. ASSUME NEW c \in Starts(k) \ {first}
           PROVE  (k.blk[c].alloc \/ c \in Mains(k)) /\ LastOf(k, c)
      <3>1. c \in Starts(g) \ {first} /\ c \in Starts(h) \ {b, first, next}
        BY <2>6, <2>10
      <3>2. k.blk[c].alloc \/ c \in Mains(k)
        BY <2>3, <2>5, <2>6, <2>14, <3>1
      <3>3. ASSUME Nxt(k, c) = End(k) PROVE k.last = c
        <4>1. Nxt(g, c) = End(g) /\ Nxt(h, c) = End(h)
          BY <2>6, <2>10, <3>1, <3>3
        <4>2. Nxt(g, first) # End(g)
          BY <2>3, <2>12, <3>1, <4>1, EndsOnce
        <4>3. h.last = c
          BY <2>14, <3>1, <4>1 DEF LastOf
        <4> QED
          BY <2>3, <2>5, <2>11, <2>12, <4>2, <4>3
      <3> QED
        BY <3>2, <3>3 DEF LastOf
    <2>16. k.last \in Starts(k)
      <3>1. CASE ~HasNext(g, first)
        BY <2>5, <2>6, <2>12, <3>1
      <3>2. CASE HasNext(g, first)
        <4>1. Nxt(g, first) # End(g)
          BY <2>11, <2>12, <3>2
        <4>2. PICK p \in Starts(h) : Nxt(h, p) = End(h)
          BY <1>1, BlocksAre DEF Tiled
        <4>3. Nxt(h, next) # End(h)
          BY <2>3, <2>6, <4>1
        <4>4. p # next /\ p # b
          <5>1. p = b => next = b
            BY <1>1, <1>2, <4>2, BlocksAre
          <5> QED
            BY <4>2, <4>3, <5>1
        <4>5. h.last = p
          BY <2>14, <4>2, <4>4 DEF LastOf
        <4> QED
          BY <2>3, <2>5, <2>6, <3>2, <4>4, <4>5
      <3> QED
        BY <3>1, <3>2
    <2>17. Sound(k, first)
      BY <2>5, <2>7, <2>15, <2>16 DEF Sound
    <2>18. \A c \in Loose(h) \ {b} : k.blk[c] = h.blk[c]
      <3>1. ASSUME NEW c \in Loose(h), c # b PROVE c \in Starts(g) \ {first}
        BY <1>1, <2>2, <2>3, <3>1 DEF Loose
      <3> QED
        BY <2>3, <2>5, <3>1
    <2>19. Nxt(h, b) = End(h) => Nxt(k, first) = End(h)
      BY <1>1, <1>2, <2>3, <2>6, BlocksAre
    <2>20. /\ k.quick = h.quick /\ k.pages = h.pages /\ k.fault \in {h.fault, "wild"}
           /\ k.blk[first].foot
      BY <2>3, <2>5 DEF SameLists
    <2>21. Post(k, first)
      BY <2>9, <2>13, <2>17, <2>18, <2>19, <2>20
    <2> QED
      BY <2>1, <2>21
  <1> QED
    BY <1>3, <1>4, <1>5

\* At most the fault changes.
LEMMA CopyFooterIs ==
    ASSUME NEW h, IsHeap(h), NEW b
    PROVE  LET g == CopyFooter(h, b)
           IN  /\ IsHeap(g) /\ SameBlocks(g, h) /\ SameLists(g, h)
               /\ g.fault \in {h.fault, "wild"}
  <1>1. CopyFooter(h, b) \in {h, Wild(h)}
    BY DEF CopyFooter, FooterThere
  <1>2. IsHeap(h) /\ SameBlocks(h, h) /\ SameLists(h, h)
    BY DEF SameBlocks, SameLists
  <1> QED
    BY <1>1, <1>2, WildIs

\* With the loose block no longer loose the whole heap is sound.
LEMMA AllSound ==
    ASSUME NEW h, NEW x, Sound(h, x), x \in Starts(h) => (h.blk[x].alloc \/ x \in Mains(h)) /\ LastOf(h, x)
    PROVE  \A y : Sound(h, y)
  BY DEF Sound

\* A loose block with a footer goes on a main list.
LEMMA AddMainIs ==
    ASSUME NEW h, NEW x, Sound(h, x), x \in Loose(h), h.blk[x].foot, NEW r, r = AddMain(h, x)
    PROVE  /\ Sound(r, x) /\ Loose(r) = Loose(h) \ {x} /\ x \in Mains(r)
           /\ SameBlocks(r, h) /\ r.quick = h.quick /\ r.fault \in {h.fault, "wild"}
           /\ LastOf(h, x) => Sound(r, 0)
  <1> DEFINE m == MainClass(h.blk[x].size)
             g == [h EXCEPT !.main[m] = <<x>> \o @]
  <1>1. /\ IsHeap(h) /\ Tiled(h) /\ ListsOK(h) /\ x \in Starts(h) /\ x \in Nat
        /\ x \notin Mains(h) /\ x \notin Quicks(h)
    BY BlocksAre DEF Sound, Loose
  <1>2. m \in 1..NMain
    BY <1>1, BlocksAre, MainClassIs
  <1>2a. MainClass(h.blk[x].size) = m
    OBVIOUS
  <1> HIDE DEF m
  <1>3. /\ DOMAIN g = Fields /\ g.blk = h.blk /\ g.last = h.last /\ g.pages = h.pages
        /\ g.quick = h.quick /\ g.fault = h.fault
        /\ DOMAIN g.main = 1..NMain
        /\ g.main[m] = <<x>> \o h.main[m]
        /\ \A i \in 1..NMain : i # m => g.main[i] = h.main[i]
    BY <1>1, <1>2 DEF IsHeap, Fields
  <1>4. r = CopyFooter(g, x)
    BY <1>2a DEF AddMain
  <1> HIDE DEF g
  <1>5. /\ IsList(g.main[m]) /\ ToSet(g.main[m]) = ToSet(h.main[m]) \cup {x}
    <2>1. IsList(h.main[m]) /\ x \in Nat \ ToSet(h.main[m])
      BY <1>1, <1>2 DEF IsHeap, Mains
    <2> QED
      BY <1>3, <2>1, ConsIs
  <1>6. IsHeap(g)
    BY <1>1, <1>2, <1>3, <1>5 DEF IsHeap, Starts
  <1>7. /\ Mains(g) = Mains(h) \cup {x} /\ Quicks(g) = Quicks(h) /\ Starts(g) = Starts(h)
        /\ End(g) = End(h) /\ \A c : Nxt(g, c) = Nxt(h, c) /\ (LastOf(g, c) <=> LastOf(h, c))
    <2>1. \A i \in 1..NMain : ToSet(g.main[i]) = IF i = m THEN ToSet(h.main[i]) \cup {x} ELSE ToSet(h.main[i])
      BY <1>3, <1>5
    <2>2. Mains(g) = Mains(h) \cup {x}
      BY <1>2, <2>1 DEF Mains
    <2> QED
      BY <1>3, <2>2 DEF Quicks, Starts, End, Nxt, LastOf
  <1>8. Tiled(g)
    BY <1>1, <1>3, <1>7 DEF Tiled
  <1>9. ListsOK(g)
    <2>1. ASSUME NEW i \in 1..NMain, NEW c \in ToSet(g.main[i])
          PROVE  /\ c \in Starts(g) \ Quicks(g)
                 /\ MainClass(g.blk[c].size) = i /\ g.blk[c].foot
      <3>1. CASE c = x /\ i = m
        BY <1>1, <1>2a, <1>3, <1>7, <3>1
      <3>2. CASE ~(c = x /\ i = m)
        <4>1. c \in ToSet(h.main[i])
          BY <1>3, <1>5, <2>1, <3>2
        <4> QED
          BY <1>1, <1>3, <1>7, <4>1 DEF ListsOK
      <3> QED
        BY <3>1, <3>2
    <2> QED
      BY <1>1, <1>3, <1>7, <2>1 DEF ListsOK
  <1>10. Sound(g, x)
    BY <1>3, <1>6, <1>7, <1>8, <1>9 DEF Sound
  <1>11. Loose(g) = Loose(h) \ {x}
    BY <1>7 DEF Loose
  <1>12. /\ IsHeap(r) /\ SameBlocks(r, g) /\ SameLists(r, g) /\ r.fault \in {g.fault, "wild"}
    BY <1>4, <1>6, CopyFooterIs
  <1>13. Sound(r, x) /\ Loose(r) = Loose(g)
    BY <1>10, <1>12, SoundSame
  <1>14. /\ Mains(r) = Mains(g) /\ x \in Mains(r) /\ (LastOf(r, x) <=> LastOf(h, x))
    BY <1>7, <1>12 DEF Mains, SameLists, SameBlocks, LastOf, Nxt, End
  <1>15. LastOf(h, x) => Sound(r, 0)
    BY <1>13, <1>14, AllSound
  <1> QED
    BY <1>3, <1>11, <1>12, <1>13, <1>14, <1>15 DEF SameBlocks, SameLists

\* Two heaps are the same but for bits, and for lists and sizes they are alike.
SameBits(g, h, x) ==
    /\ IsHeap(g) /\ SameLists(g, h) /\ g.last = h.last /\ g.pages = h.pages
    /\ Starts(g) = Starts(h) /\ g.blk[1].prv
    /\ \A c \in Starts(h) : /\ g.blk[c].size = h.blk[c].size
                            /\ c # x => g.blk[c].alloc = h.blk[c].alloc
                            /\ h.blk[c].foot /\ c \notin Loose(h) => g.blk[c].foot

\* Such a heap is as sound as the other.
LEMMA SameBitsIs ==
    ASSUME NEW h, NEW g, NEW x, Sound(h, x), SameBits(g, h, x), x \notin Quicks(h)
    PROVE  /\ Sound(g, x) /\ Loose(g) = Loose(h)
           /\ \A c \in Starts(h) : Nxt(g, c) = Nxt(h, c) /\ (LastOf(g, c) <=> LastOf(h, c))
           /\ End(g) = End(h)
  <1>1. /\ Starts(g) = Starts(h) /\ End(g) = End(h) /\ Mains(g) = Mains(h)
        /\ Quicks(g) = Quicks(h) /\ Loose(g) = Loose(h)
        /\ \A c \in Starts(h) : Nxt(g, c) = Nxt(h, c) /\ (LastOf(g, c) <=> LastOf(h, c))
    BY DEF SameBits, SameLists, Starts, End, Mains, Quicks, Nxt, LastOf, Loose
  <1>2. IsHeap(h) /\ Tiled(h) /\ ListsOK(h) /\ IsHeap(g) /\ g.blk[1].prv
    BY DEF Sound, SameBits
  <1>3. Tiled(g)
    BY <1>1, <1>2 DEF Tiled, SameBits
  <1>4. ListsOK(g)
    <2>1. ASSUME NEW i \in 1..NMain, NEW c \in ToSet(g.main[i])
          PROVE  /\ c \in Starts(g) \ Quicks(g)
                 /\ MainClass(g.blk[c].size) = i /\ g.blk[c].foot
      <3>1. c \in ToSet(h.main[i]) /\ c \in Mains(h)
        BY <2>1 DEF SameBits, SameLists, Mains
      <3>2. c \in Starts(h) \ Quicks(h) /\ MainClass(h.blk[c].size) = i /\ h.blk[c].foot
        BY <1>2, <3>1 DEF ListsOK
      <3>3. c \notin Loose(h)
        BY <3>1 DEF Loose
      <3> QED
        BY <1>1, <3>2, <3>3 DEF SameBits
    <2>2. ASSUME NEW i \in 1..NQuick, NEW c \in ToSet(g.quick[i])
          PROVE  /\ c \in Starts(g) /\ QuickClass(g.blk[c].size) = i
                 /\ g.blk[c].foot /\ g.blk[c].alloc
      <3>1. c \in ToSet(h.quick[i]) /\ c \in Quicks(h)
        BY <2>2 DEF SameBits, SameLists, Quicks
      <3>2. /\ c \in Starts(h) /\ QuickClass(h.blk[c].size) = i /\ h.blk[c].foot /\ h.blk[c].alloc
        BY <1>2, <3>1 DEF ListsOK
      <3>3. c \notin Loose(h) /\ c # x
        BY <3>1 DEF Loose
      <3> QED
        BY <1>1, <3>2, <3>3 DEF SameBits
    <2>3. \A i \in 1..NQuick : Len(g.quick[i]) <= QuickMax
      BY <1>2 DEF ListsOK, SameBits, SameLists
    <2> QED
      BY <2>1, <2>2, <2>3 DEF ListsOK
  <1>5. g.last \in Starts(g)
    BY <1>1 DEF Sound, SameBits
  <1>6. \A c \in Starts(g) \ {x} : (g.blk[c].alloc \/ c \in Mains(g)) /\ LastOf(g, c)
    BY <1>1 DEF Sound, SameBits
  <1> QED
    BY <1>1, <1>2, <1>3, <1>4, <1>5, <1>6 DEF Sound

\* Once last_bp is the last block nothing is missing any more.
LEMMA EndSound ==
    ASSUME NEW h, NEW x, Sound(h, x), x \in Starts(h), h.blk[x].alloc \/ x \in Mains(h),
           NEW g, g = AtEnd(h, x)
    PROVE  /\ Sound(g, 0) /\ Loose(g) = Loose(h) /\ g.blk = h.blk
           /\ g.quick = h.quick /\ g.pages = h.pages /\ g.fault = h.fault
  <1>1. IsHeap(h) /\ Tiled(h) /\ ListsOK(h) /\ x \in Nat /\ h.last \in Starts(h)
    BY BlocksAre DEF Sound
  <1>2. /\ IsHeap(g) /\ SameLists(g, h) /\ g.blk = h.blk /\ g.pages = h.pages
        /\ g.fault = h.fault /\ g.last = IF HasNext(h, x) THEN h.last ELSE x
    BY <1>1, AtEndIs
  <1>3. /\ Starts(g) = Starts(h) /\ End(g) = End(h) /\ Mains(g) = Mains(h)
        /\ Quicks(g) = Quicks(h) /\ Loose(g) = Loose(h)
        /\ \A c : Nxt(g, c) = Nxt(h, c)
    BY <1>2 DEF SameLists, Starts, End, Mains, Quicks, Nxt, Loose
  <1>4. Tiled(g)
    BY <1>1, <1>2, <1>3 DEF Tiled
  <1>5. ListsOK(g)
    BY <1>1, <1>2, <1>3 DEF ListsOK, SameLists
  <1>6. g.last \in Starts(g)
    BY <1>1, <1>2, <1>3
  <1>7. HasNext(h, x) <=> Nxt(h, x) # End(h)
    BY <1>1, BlocksAre
  <1>8. ASSUME NEW c \in Starts(g) PROVE (g.blk[c].alloc \/ c \in Mains(g)) /\ LastOf(g, c)
    <2>1. CASE c = x
      BY <1>2, <1>3, <1>7, <2>1 DEF LastOf
    <2>2. CASE c # x
      <3>1. (h.blk[c].alloc \/ c \in Mains(h)) /\ LastOf(h, c)
        BY <1>3, <1>8, <2>2 DEF Sound
      <3>2. Nxt(h, c) = End(h) => Nxt(h, x) # End(h)
        BY <1>1, <1>3, <1>8, <2>2, EndsOnce
      <3> QED
        BY <1>2, <1>3, <1>7, <3>1, <3>2 DEF LastOf
    <2> QED
      BY <2>1, <2>2
  <1> QED
    BY <1>2, <1>3, <1>4, <1>5, <1>6, <1>8 DEF Sound, SameLists

\* The blocks that are followed by a clear prv bit.
Bare(h) == {p \in Starts(h) : Nxt(h, p) \in Starts(h) /\ ~h.blk[Nxt(h, p)].prv}

\* Such a block is on a main list, or in T, or being worked on; and there is a
\* fault only if one is in T, or else the fault is one of F.
Explained(h, T, x, F) ==
    /\ Bare(h) \subseteq Mains(h) \cup T \cup {x}
    /\ h.fault \in F \/ \E p \in T : p \in Bare(h)

\* From the heap h, with the block x in hand, to the heap r, with y in hand.
Keeps(L, h, x, r, y) ==
    \A T, F : T \subseteq L /\ Explained(h, T, x, F) => Explained(r, T, y, F)

\* One operator after another.
LEMMA KeepsThen ==
    ASSUME NEW L, NEW h, NEW x, NEW g, NEW y, NEW r, NEW z,
           Keeps(L, h, x, g, y), Keeps(L, g, y, r, z)
    PROVE  Keeps(L, h, x, r, z)
  BY DEF Keeps

\* Of fewer blocks less is said.
LEMMA KeepsLess ==
    ASSUME NEW L, NEW K, K \subseteq L, NEW h, NEW x, NEW r, NEW y, Keeps(L, h, x, r, y)
    PROVE  Keeps(K, h, x, r, y)
  BY DEF Keeps

\* Nothing changes about bits, main lists and faults.
LEMMA KeepsSame ==
    ASSUME NEW L, NEW h, NEW x, NEW g,
           \A c \in Starts(h) : g.blk[c].size = h.blk[c].size /\ g.blk[c].prv = h.blk[c].prv,
           Starts(g) = Starts(h), Mains(g) = Mains(h), g.fault = h.fault
    PROVE  Keeps(L, h, x, g, x)
  <1>1. \A c \in Starts(h) : Nxt(g, c) = Nxt(h, c)
    BY DEF Nxt
  <1>2. Bare(g) = Bare(h)
    BY <1>1 DEF Bare
  <1> QED
    BY <1>2 DEF Keeps, Explained

\* The block in hand is on a main list, or there is none.
LEMMA KeepsWeak ==
    ASSUME NEW L, NEW h, NEW x, NEW y, x \in Mains(h) \/ x \notin Starts(h)
    PROVE  Keeps(L, h, x, h, y)
  BY DEF Keeps, Explained, Bare

\* The footer before the block in hand, or one behind a main list's block, is
\* not there only if a bit is wrong.
LEMMA KeepsFooter ==
    ASSUME NEW L, NEW h, IsHeap(h), Tiled(h), ListsOK(h), NEW b \in Starts(h), NEW r,
           r = CopyFooter(h, b)
    PROVE  Keeps(L, h, b, r, b)
  <1>1. CASE h.blk[b].prv \/ h.blk[Prev(h, b)].foot
    <2>1. r = h
      BY <1>1 DEF CopyFooter, FooterThere
    <2> QED
      BY <2>1 DEF Keeps
  <1>2. CASE ~(h.blk[b].prv \/ h.blk[Prev(h, b)].foot)
    <2>1. r = Wild(h) /\ b # 1
      BY <1>2 DEF CopyFooter, FooterThere, Tiled
    <2>2. SameBlocks(r, h) /\ SameLists(r, h)
      BY <2>1, WildIs
    <2>3. Bare(r) = Bare(h) /\ Mains(r) = Mains(h)
      BY <2>2 DEF SameBlocks, SameLists, Bare, Mains, Starts, Nxt
    <2> DEFINE p == Prev(h, b)
    <2>4. p \in Starts(h) /\ Nxt(h, p) = b /\ p # b
      BY <2>1, PrevIs, BlocksAre
    <2>5. p \in Bare(h)
      BY <1>2, <2>4 DEF Bare
    <2>6. p \notin Mains(h)
      BY <1>2 DEF ListsOK, Mains
    <2> HIDE DEF p
    <2> QED
      BY <2>3, <2>4, <2>5, <2>6 DEF Keeps, Explained
  <1> QED
    BY <1>1, <1>2

\* coalesce takes up a bare block, or one that is on a main list.
LEMMA KeepsCoalesce ==
    ASSUME NEW h, NEW b, Sound(h, b), b \in Loose(h), NEW r, r = Coalesce(h, b),
           NEW L, L \subseteq Loose(h) \ {b}
    PROVE  Keeps(L, h, b, r.heap, r.at)
  <1> DEFINE first == JoinFrom(h, b)
             next == JoinTo(h, b)
             g == Joined(h, first, b, next)
  <1>1. /\ IsHeap(h) /\ Tiled(h) /\ ListsOK(h) /\ b \in Starts(h)
        /\ b \notin Mains(h) /\ b \notin Quicks(h)
    BY DEF Sound, Loose
  <1>2. /\ first \in Starts(h) /\ next \in Starts(h)
        /\ first = b \/ (~h.blk[b].prv /\ Nxt(h, first) = b)
        /\ next = b \/ (Nxt(h, b) = next /\ ~h.blk[next].alloc)
    BY <1>1, JoinIs
  <1>3. first = b => h.blk[b].prv
    BY <1>1, JoinIs
  <1>4. first # b => first \in Bare(h)
    BY <1>1, <1>2 DEF Bare
  <1>5. next # b => next \in Mains(h)
    BY <1>2 DEF Sound
  <1> HIDE DEF first, next
  <1>6. CASE first = b /\ next = b
    <2>1. r = [heap |-> h, at |-> b]
      BY <1>6 DEF Coalesce, first, next
    <2> QED
      BY <2>1 DEF Keeps
  <1>7. CASE ~(first = b /\ next = b) /\ ~(\A c \in {first, next} \ {b} : OnMain(h, c))
    <2>1. r = [heap |-> Wild(h), at |-> b]
      BY <1>7 DEF Coalesce, first, next
    <2>2. SameBlocks(Wild(h), h) /\ SameLists(Wild(h), h)
      BY <1>1, WildIs
    <2>3. Bare(Wild(h)) = Bare(h) /\ Mains(Wild(h)) = Mains(h)
      BY <2>2 DEF SameBlocks, SameLists, Bare, Mains, Starts, Nxt
    <2>4. first # b /\ first \notin Mains(h)
      BY <1>5, <1>7, OnMainIs
    <2>5. Keeps(L, h, b, Wild(h), b)
      BY <1>4, <2>3, <2>4 DEF Keeps, Explained
    <2> QED
      BY <2>1, <2>5
  <1>8. CASE ~(first = b /\ next = b) /\ \A c \in {first, next} \ {b} : OnMain(h, c)
    <2> DEFINE k == AtEnd(g, first)
    <2>1. r = [heap |-> k, at |-> first]
      BY <1>8 DEF Coalesce, first, next
    <2>2. {first, next} \ {b} \subseteq Mains(h)
      BY <1>8, OnMainIs
    <2>3. /\ IsHeap(g) /\ Tiled(g) /\ ListsOK(g)
          /\ Mains(g) = Mains(h) \ {first, b, next} /\ g.fault = h.fault
          /\ Starts(g) = (Starts(h) \ {b, next}) \cup {first}
          /\ \A c \in Starts(g) \ {first} : g.blk[c] = h.blk[c]
          /\ g.blk[first].prv = (first = b \/ h.blk[first].prv)
      BY <2>2, JoinedIs DEF first, next
    <2> HIDE DEF g
    <2>4. first \in Nat
      BY <1>1, <1>2, BlocksAre
    <2>5. SameLists(k, g) /\ k.blk = g.blk /\ k.fault = g.fault
      BY <2>3, <2>4, AtEndIs
    <2> HIDE DEF k
    <2>6. Starts(k) = Starts(g) /\ Mains(k) = Mains(g) /\ Bare(k) = Bare(g)
      BY <2>5 DEF Starts, Nxt, Mains, SameLists, Bare
    <2>7. ASSUME NEW c \in Starts(g), c # first
          PROVE  /\ c \in Starts(h) /\ c \notin {b, next} /\ Nxt(g, c) = Nxt(h, c)
                 /\ Nxt(h, c) \in Starts(g) => Nxt(h, c) \in Starts(h)
                 /\ Nxt(h, c) \in Starts(h) => Nxt(h, c) \in Starts(g)
                 /\ Nxt(h, c) \in Starts(h) =>
                      (g.blk[Nxt(h, c)].prv <=> h.blk[Nxt(h, c)].prv)
      <3>1. c \in Starts(h) /\ c \notin {b, next} /\ Nxt(g, c) = Nxt(h, c)
        BY <1>2, <2>3, <2>7 DEF Nxt
      <3>2. Nxt(h, c) \in Starts(g) => Nxt(h, c) \in Starts(h)
        BY <1>2, <2>3
      <3>3. first # b => Nxt(h, c) # b
        BY <1>1, <1>2, <2>7, <3>1, EndsOnce
      <3>4. next # b => Nxt(h, c) # next
        BY <1>1, <1>2, <3>1, EndsOnce
      <3>5. Nxt(h, c) \in Starts(h) => Nxt(h, c) \in Starts(g)
        BY <2>3, <3>3, <3>4
      <3>6. Nxt(h, c) = first => (g.blk[first].prv <=> h.blk[first].prv)
        BY <1>1, <1>3, <2>3
      <3>7. Nxt(h, c) \in Starts(h) => (g.blk[Nxt(h, c)].prv <=> h.blk[Nxt(h, c)].prv)
        BY <2>3, <3>5, <3>6
      <3> QED
        BY <3>1, <3>2, <3>5, <3>7
    <2>8. \A c \in Starts(g) \ {first} : c \in Bare(g) <=> c \in Bare(h)
      BY <2>7 DEF Bare
    <2>9. ASSUME NEW T, NEW F, T \subseteq L, Explained(h, T, b, F)
          PROVE  Explained(k, T, first, F)
      <3>1. /\ Bare(h) \subseteq Mains(h) \cup T \cup {b}
            /\ h.fault \in F \/ \E p \in T : p \in Bare(h)
        BY <2>9 DEF Explained
      <3>2. \A p \in T : p \in Starts(h) /\ p \notin Mains(h) /\ p # b
        BY <2>9 DEF Loose
      <3>3. \A p \in T : p \in Starts(g) \ {first}
        BY <2>2, <2>3, <3>2
      <3>4. Bare(g) \subseteq Mains(g) \cup T \cup {first}
        <4>1. ASSUME NEW p \in Bare(g), p # first PROVE p \in Mains(g) \cup T
          <5>1. p \in Starts(g)
            BY DEF Bare
          <5>2. p \in Bare(h) /\ p # b /\ p # next
            BY <2>7, <2>8, <4>1, <5>1
          <5> QED
            BY <2>3, <3>1, <4>1, <5>2
        <4> QED
          BY <4>1
      <3>5. g.fault \in F \/ \E p \in T : p \in Bare(g)
        BY <2>3, <2>8, <3>1, <3>3
      <3> QED
        BY <2>5, <2>6, <3>4, <3>5 DEF Explained
    <2>10. Keeps(L, h, b, k, first)
      BY <2>9 DEF Keeps
    <2> QED
      BY <2>1, <2>10
  <1> QED
    BY <1>6, <1>7, <1>8

\* The block in hand goes to a main list, where it may be bare.
LEMMA KeepsAddMain ==
    ASSUME NEW h, NEW x, Sound(h, x), x \in Loose(h), h.blk[x].foot, NEW r, r = AddMain(h, x),
           NEW L, L \subseteq Loose(h) \ {x}
    PROVE  Keeps(L, h, x, r, 0)
  <1> DEFINE m == MainClass(h.blk[x].size)
             g == [h EXCEPT !.main[m] = <<x>> \o @]
  <1>1. /\ IsHeap(h) /\ Tiled(h) /\ ListsOK(h) /\ x \in Starts(h) /\ x \in Nat
        /\ x \notin Mains(h) /\ x \notin Quicks(h)
    BY BlocksAre DEF Sound, Loose
  <1>2. m \in 1..NMain
    BY <1>1, BlocksAre, MainClassIs
  <1>2a. MainClass(h.blk[x].size) = m
    OBVIOUS
  <1> HIDE DEF m
  <1>3. /\ g.blk = h.blk /\ g.fault = h.fault /\ DOMAIN g.main = 1..NMain
        /\ g.main[m] = <<x>> \o h.main[m]
        /\ \A i \in 1..NMain : i # m => g.main[i] = h.main[i]
    BY <1>1, <1>2 DEF IsHeap, Fields
  <1>4. r = CopyFooter(g, x)
    BY <1>2a DEF AddMain
  <1> HIDE DEF g
  <1>5. ToSet(g.main[m]) = ToSet(h.main[m]) \cup {x}
    <2>1. IsList(h.main[m]) /\ x \in Nat \ ToSet(h.main[m])
      BY <1>1, <1>2 DEF IsHeap, Mains
    <2> QED
      BY <1>3, <2>1, ConsIs
  <1>6. Mains(g) = Mains(h) \cup {x}
    <2>1. \A i \in 1..NMain :
             ToSet(g.main[i]) = IF i = m THEN ToSet(h.main[i]) \cup {x} ELSE ToSet(h.main[i])
      BY <1>3, <1>5
    <2> QED
      BY <1>2, <2>1 DEF Mains
  <1>7. Bare(g) = Bare(h) /\ Starts(g) = Starts(h)
    BY <1>3 DEF Bare, Starts, Nxt
  <1>8. CASE h.blk[x].prv \/ h.blk[Prev(h, x)].foot
    <2>1. r = g
      BY <1>3, <1>4, <1>8 DEF CopyFooter, FooterThere, Prev, Nxt
    <2> QED
      BY <1>3, <1>6, <1>7, <2>1 DEF Keeps, Explained
  <1>9. CASE ~(h.blk[x].prv \/ h.blk[Prev(h, x)].foot)
    <2> DEFINE p == Prev(h, x)
    <2>1. r = Wild(g) /\ x # 1
      BY <1>1, <1>3, <1>4, <1>9 DEF CopyFooter, FooterThere, Tiled, Prev, Nxt
    <2>2. p \in Starts(h) /\ Nxt(h, p) = x /\ p # x
      BY <1>1, <2>1, PrevIs, BlocksAre
    <2>3. p \in Bare(h) /\ p \notin Mains(h)
      BY <1>1, <1>9, <2>2 DEF Bare, ListsOK, Mains
    <2>4. Bare(r) = Bare(g) /\ Mains(r) = Mains(g)
      BY <2>1 DEF Wild, Bare, Mains, Starts, Nxt
    <2> HIDE DEF p
    <2> QED
      BY <1>6, <1>7, <2>2, <2>3, <2>4 DEF Keeps, Explained
  <1> QED
    BY <1>8, <1>9

\* A loose block is handed out, whole or its front.
LEMMA AllocateIs ==
    ASSUME NEW h, NEW b, Sound(h, b), b \in Loose(h), LastOf(h, b),
           NEW size \in Nat, size >= MinLines, size <= h.blk[b].size,
           NEW r, r = Allocate(h, b, size)
    PROVE  /\ Sound(r, 0) /\ Loose(r) = Loose(h) /\ r.blk[b].size >= size
           /\ \A c \in Loose(h) \ {b} : r.blk[c] = h.blk[c]
           /\ r.quick = h.quick /\ r.pages = h.pages /\ r.fault \in {h.fault, "wild"}
           /\ Keeps(Loose(h) \ {b}, h, b, r, b)
  <1> DEFINE rest == h.blk[b].size - size
             marked == [h EXCEPT !.blk[b].alloc = TRUE]
             front == [h.blk[b] EXCEPT !.size = size, !.alloc = TRUE, !.foot = FALSE]
             back == Block(rest, FALSE, TRUE, TRUE)
             cut == [h EXCEPT !.blk = Put(Put(@, b + size, back), b, front)]
             Post(k) ==
               /\ Sound(k, 0) /\ Loose(k) = Loose(h) /\ k.blk[b].size >= size
               /\ \A c \in Loose(h) \ {b} : k.blk[c] = h.blk[c]
               /\ k.quick = h.quick /\ k.pages = h.pages /\ k.fault \in {h.fault, "wild"}
               /\ Keeps(Loose(h) \ {b}, h, b, k, b)
  <1>1. /\ IsHeap(h) /\ Tiled(h) /\ ListsOK(h) /\ b \in Starts(h) /\ b \in Nat
        /\ b \notin Mains(h) /\ b \notin Quicks(h) /\ h.last \in Starts(h)
        /\ h.blk[b].size \in Nat /\ h.blk[b] \in Words /\ rest \in Int
    BY BlocksAre DEF Sound, Loose, IsHeap
  <1>2. \A c \in Starts(h) \ {b} : (h.blk[c].alloc \/ c \in Mains(h)) /\ LastOf(h, c)
    BY DEF Sound
  <1>3. ASSUME NEW k, Post(k) PROVE Post(CopyFooter(k, b))
    <2> DEFINE v == CopyFooter(k, b)
    <2>1. IsHeap(k)
      BY <1>3 DEF Sound
    <2>2. IsHeap(v) /\ SameBlocks(v, k) /\ SameLists(v, k) /\ v.fault \in {k.fault, "wild"}
      BY <2>1, CopyFooterIs
    <2> HIDE DEF v
    <2>3. Sound(v, 0) /\ Loose(v) = Loose(k)
      BY <1>3, <2>2, SoundSame
    <2>4. Keeps(Loose(h) \ {b}, h, b, v, b)
      <3>1. v = CopyFooter(k, b) /\ b \in Starts(k)
        BY <1>3 DEF v, Loose
      <3>2. IsHeap(k) /\ Tiled(k) /\ ListsOK(k)
        BY <1>3 DEF Sound
      <3>3. Keeps(Loose(h) \ {b}, k, b, v, b)
        BY <3>1, <3>2, KeepsFooter
      <3> QED
        BY <1>3, <3>3, KeepsThen
    <2> QED
      BY <1>3, <2>2, <2>3, <2>4 DEF SameBlocks, SameLists, v
  <1>4. CASE rest < MinLines
    <2> DEFINE whole == AtEnd(marked, b)
    <2>1. r = CopyFooter(whole, b)
      BY <1>4 DEF Allocate
    <2>2. /\ DOMAIN marked = Fields /\ marked.main = h.main /\ marked.quick = h.quick
          /\ marked.last = h.last /\ marked.pages = h.pages /\ marked.fault = h.fault
          /\ Starts(marked) = Starts(h) /\ marked.blk[b] = [h.blk[b] EXCEPT !.alloc = TRUE]
          /\ \A c \in Starts(h) \ {b} : marked.blk[c] = h.blk[c]
      BY <1>1 DEF IsHeap, Fields, Starts
    <2>3. /\ marked.blk[b].size = h.blk[b].size /\ marked.blk[b].alloc
          /\ marked.blk[b].prv = h.blk[b].prv /\ marked.blk[b].foot = h.blk[b].foot
          /\ marked.blk[b] \in Words
      <3>1. ASSUME NEW w \in Words, NEW v, v = [w EXCEPT !.alloc = TRUE]
            PROVE  v \in Words /\ v.size = w.size /\ v.alloc /\ v.prv = w.prv /\ v.foot = w.foot
        BY <3>1 DEF Words
      <3> QED
        BY <1>1, <2>2, <3>1
    <2> HIDE DEF marked
    <2>4. IsHeap(marked)
      BY <1>1, <2>2, <2>3 DEF IsHeap
    <2>5. SameBits(marked, h, b)
      <3>1. marked.blk[1].prv
        BY <1>1, <2>2, <2>3 DEF Tiled
      <3>2. ASSUME NEW c \in Starts(h)
            PROVE  /\ marked.blk[c].size = h.blk[c].size
                   /\ c # b => marked.blk[c].alloc = h.blk[c].alloc
                   /\ marked.blk[c].foot = h.blk[c].foot
        BY <2>2, <2>3
      <3> QED
        BY <2>2, <2>4, <3>1, <3>2 DEF SameBits, SameLists
    <2>6. Sound(marked, b) /\ Loose(marked) = Loose(h) /\ LastOf(marked, b)
      BY <1>1, <2>5, SameBitsIs
    <2>7. \A y : Sound(marked, y)
      BY <2>3, <2>6, AllSound
    <2>8. /\ IsHeap(whole) /\ SameLists(whole, marked) /\ whole.blk = marked.blk
          /\ whole.pages = marked.pages /\ whole.fault = marked.fault
          /\ whole.last = IF HasNext(marked, b) THEN marked.last ELSE b
      BY <1>1, <2>4, AtEndIs
    <2>9. whole.last = marked.last
      <3>1. CASE HasNext(marked, b)
        BY <2>8, <3>1
      <3>2. CASE ~HasNext(marked, b)
        <4>1. Nxt(marked, b) = End(marked)
          BY <2>2, <2>6, <1>1, <3>2, BlocksAre DEF Sound
        <4> QED
          BY <2>6, <2>8, <3>2, <4>1 DEF LastOf
      <3> QED
        BY <3>1, <3>2
    <2> HIDE DEF whole
    <2>10. Sound(whole, 0) /\ Loose(whole) = Loose(h)
      BY <2>6, <2>7, <2>8, <2>9, SoundSame DEF SameBlocks
    <2>12. Keeps(Loose(h) \ {b}, h, b, whole, b)
      <3>1. /\ Starts(whole) = Starts(h) /\ Mains(whole) = Mains(h) /\ whole.fault = h.fault
            /\ \A c \in Starts(h) : /\ whole.blk[c].size = h.blk[c].size
                                    /\ whole.blk[c].prv = h.blk[c].prv
        <4>1. Starts(whole) = Starts(marked) /\ Mains(whole) = Mains(marked)
          BY <2>8 DEF Starts, Mains, SameLists
        <4>2. Mains(marked) = Mains(h)
          BY <2>2 DEF Mains
        <4>3. \A c \in Starts(h) : /\ marked.blk[c].size = h.blk[c].size
                                  /\ marked.blk[c].prv = h.blk[c].prv
          BY <2>2, <2>3
        <4> QED
          BY <2>2, <2>8, <4>1, <4>2, <4>3
      <3> QED
        BY <3>1, KeepsSame
    <2>11. Post(whole)
      BY <2>2, <2>3, <2>8, <2>10, <2>12 DEF SameLists, Loose
    <2> QED
      BY <1>3, <2>1, <2>11
  <1>5. CASE rest >= MinLines
    <2> DEFINE m == b + size
               co == Coalesce(cut, m)
               added == AddMain(co.heap, co.at)
               k == AtEnd(added, co.at)
    <2>1. r = CopyFooter(k, b)
      <3>1. ~(rest < MinLines)
        BY <1>1, <1>5 DEF MinLines
      <3> QED
        BY <3>1 DEF Allocate
    <2>2. PICK n : n = b + size
      OBVIOUS
    <2>3. /\ n \in Nat /\ n # b /\ rest \in Nat /\ size # 0
      BY <1>1, <1>5, <2>2 DEF MinLines
    <2>4. /\ DOMAIN cut = Fields /\ cut.main = h.main /\ cut.quick = h.quick
          /\ cut.last = h.last /\ cut.pages = h.pages /\ cut.fault = h.fault
          /\ cut.blk = Put(Put(h.blk, n, back), b, front)
      BY <1>1, <2>2 DEF IsHeap, Fields
    <2>5. /\ front.size = size /\ front.alloc /\ front.prv = h.blk[b].prv /\ front \in Words
      BY <1>1 DEF Words
    <2>6. /\ back.size = rest /\ back.prv /\ back.foot /\ back \in Words
      BY <2>3 DEF Words, Block
    <2> HIDE DEF cut, front, back
    <2>7. /\ Starts(cut) = Starts(h) \cup {n} /\ cut.blk[b] = front /\ cut.blk[n] = back
          /\ \A c \in Starts(h) \ {b, n} : cut.blk[c] = h.blk[c]
      BY <1>1, <2>3, <2>4 DEF Put, Starts
    <2>8. n \notin Starts(h)
      <3>1. \A c \in Starts(h) : b < c => Nxt(h, b) <= c
        BY <1>1 DEF Tiled
      <3>2. n \in Starts(h) => FALSE
        BY <1>1, <1>5, <2>2, <2>3, <3>1 DEF Nxt, MinLines
      <3> QED
        BY <3>2
    <2>9. cut.blk[1].prv
      <3>1. 1 \in Starts(h) /\ h.blk[1].prv
        BY <1>1 DEF Tiled
      <3> QED
        BY <2>5, <2>7, <2>8, <3>1
    <2>10. End(cut) = End(h)
      BY <2>4 DEF End
    <2>11. Tiled(cut)
      <3>1. \A c \in Starts(h) \ {b} : cut.blk[c].size = h.blk[c].size
        BY <2>7, <2>8
      <3> QED
        BY <1>1, <1>5, <2>2, <2>5, <2>6, <2>7, <2>9, <2>10, <3>1, SplitTiles
    <2>12. IsHeap(cut)
      BY <1>1, <2>3, <2>4, <2>5, <2>6, <2>7, <2>8 DEF IsHeap
    <2>13. /\ Mains(cut) = Mains(h) /\ Quicks(cut) = Quicks(h)
           /\ n \notin Mains(h) /\ n \notin Quicks(h)
      BY <1>1, <2>4, <2>8 DEF Mains, Quicks, ListsOK
    <2>14. ListsOK(cut)
      <3>1. ASSUME NEW i \in 1..NMain, NEW c \in ToSet(cut.main[i])
            PROVE  /\ c \in Starts(cut) \ Quicks(cut)
                   /\ MainClass(cut.blk[c].size) = i /\ cut.blk[c].foot
        <4>1. c \in ToSet(h.main[i]) /\ c \in Mains(h)
          BY <2>4, <3>1 DEF Mains
        <4>2. c \in Starts(h) \ {b, n}
          BY <1>1, <2>13, <4>1 DEF ListsOK
        <4> QED
          BY <1>1, <2>7, <2>13, <4>1, <4>2 DEF ListsOK
      <3>2. ASSUME NEW i \in 1..NQuick, NEW c \in ToSet(cut.quick[i])
            PROVE  /\ c \in Starts(cut) /\ QuickClass(cut.blk[c].size) = i
                   /\ cut.blk[c].foot /\ cut.blk[c].alloc
        <4>1. c \in ToSet(h.quick[i]) /\ c \in Quicks(h)
          BY <2>4, <3>2 DEF Quicks
        <4>2. c \in Starts(h) \ {b, n}
          BY <1>1, <2>13, <4>1 DEF ListsOK
        <4> QED
          BY <1>1, <2>7, <4>1, <4>2 DEF ListsOK
      <3>3. \A i \in 1..NQuick : Len(cut.quick[i]) <= QuickMax
        BY <1>1, <2>4 DEF ListsOK
      <3> QED
        BY <3>1, <3>2, <3>3 DEF ListsOK
    <2>15. ASSUME NEW c \in Starts(cut) \ {n}
           PROVE  (cut.blk[c].alloc \/ c \in Mains(cut)) /\ LastOf(cut, c)
      <3>1. CASE c = b
        <4>1. Nxt(cut, b) = n
          BY <2>2, <2>5, <2>7 DEF Nxt
        <4>2. Nxt(cut, b) # End(cut)
          BY <2>7, <2>11, <2>12, <4>1, BlocksAre
        <4> QED
          BY <2>5, <2>7, <3>1, <4>2 DEF LastOf
      <3>2. CASE c # b
        <4>1. c \in Starts(h) \ {b, n} /\ cut.blk[c] = h.blk[c]
          BY <2>7, <2>15, <3>2
        <4> QED
          BY <1>2, <2>4, <2>10, <2>13, <4>1 DEF LastOf, Nxt
      <3> QED
        BY <3>1, <3>2
    <2>16. Sound(cut, n)
      BY <1>1, <2>4, <2>7, <2>11, <2>12, <2>14, <2>15 DEF Sound
    <2>17. Loose(cut) = Loose(h) \cup {n} /\ n \in Loose(cut) /\ n \notin Loose(h)
      BY <2>7, <2>8, <2>13 DEF Loose
    <2>18. co = Coalesce(cut, n)
      BY <2>2
    <2> HIDE DEF co
    <2>19. /\ Sound(co.heap, co.at) /\ co.at \in Loose(co.heap)
           /\ Loose(co.heap) = Loose(h) \cup {co.at} /\ co.at \notin Loose(h)
           /\ \A c \in Loose(h) : co.heap.blk[c] = cut.blk[c]
           /\ co.heap.quick = h.quick /\ co.heap.pages = h.pages
           /\ co.heap.fault \in {h.fault, "wild"}
           /\ co.heap.blk[co.at].foot
      <3>1. Loose(cut) \ {n} = Loose(h)
        BY <2>17
      <3> QED
        BY <2>4, <2>6, <2>7, <2>16, <2>17, <2>18, <3>1, CoalesceIs
    <2>20. /\ Sound(added, co.at) /\ Loose(added) = Loose(h) /\ co.at \in Mains(added)
           /\ SameBlocks(added, co.heap) /\ added.quick = h.quick /\ added.fault \in {h.fault, "wild"}
      <3>1. Loose(co.heap) \ {co.at} = Loose(h)
        BY <2>19
      <3>2. added = AddMain(co.heap, co.at)
        OBVIOUS
      <3> HIDE DEF added
      <3>3. /\ Sound(added, co.at) /\ Loose(added) = Loose(co.heap) \ {co.at}
            /\ co.at \in Mains(added) /\ SameBlocks(added, co.heap)
            /\ added.quick = co.heap.quick /\ added.fault \in {co.heap.fault, "wild"}
        BY <2>19, <3>2, AddMainIs
      <3> QED
        BY <2>19, <3>1, <3>3
    <2> HIDE DEF added
    <2>21. IsHeap(added) /\ Tiled(added) /\ co.at \in Starts(added) /\ co.at \in Nat
      <3>1. IsHeap(added) /\ Tiled(added) /\ ListsOK(added)
        BY <2>20 DEF Sound
      <3>2. co.at \in Starts(added)
        BY <2>20, <3>1 DEF ListsOK, Mains
      <3> QED
        BY <3>1, <3>2, BlocksAre
    <2>22. /\ Sound(k, 0) /\ Loose(k) = Loose(added) /\ k.blk = added.blk
           /\ k.quick = added.quick /\ k.pages = added.pages /\ k.fault = added.fault
      BY <2>20, <2>21, EndSound
    <2> HIDE DEF k
    <2>23. b \in Loose(h)
      OBVIOUS
    <2>24. \A c \in Loose(h) \ {b} : k.blk[c] = h.blk[c]
      BY <2>7, <2>17, <2>19, <2>20, <2>22 DEF SameBlocks, Loose
    <2>25. k.blk[b].size >= size
      BY <2>5, <2>7, <2>19, <2>20, <2>22, <2>23 DEF SameBlocks
    <2> DEFINE L == Loose(h) \ {b}
    <2>27. Keeps(L, h, b, cut, n)
      <3>1. \A p \in Starts(h) \ {b} : p \in Bare(cut) <=> p \in Bare(h)
        <4>1. ASSUME NEW p \in Starts(h) \ {b} PROVE p \in Bare(cut) <=> p \in Bare(h)
          <5>1. p \in Starts(cut) /\ Nxt(cut, p) = Nxt(h, p)
            BY <2>7, <2>8 DEF Nxt
          <5>2. Nxt(h, p) # n
            <6>1. Nxt(h, p) \in Starts(h) \cup {End(h)}
              BY <1>1, BlocksAre
            <6>2. n # End(h)
              BY <2>7, <2>10, <2>11, <2>12, BlocksAre
            <6> QED
              BY <2>8, <6>1, <6>2
          <5>3. Nxt(h, p) \in Starts(cut) <=> Nxt(h, p) \in Starts(h)
            BY <2>7, <5>2
          <5>4. \A c \in Starts(h) : cut.blk[c].prv = h.blk[c].prv
            BY <2>5, <2>7, <2>8
          <5> QED
            BY <5>1, <5>3, <5>4 DEF Bare
        <4> QED
          BY <4>1
      <3>2. b \notin Bare(cut)
        <4>1. Nxt(cut, b) = n /\ cut.blk[n].prv
          BY <2>2, <2>5, <2>6, <2>7 DEF Nxt
        <4> QED
          BY <4>1 DEF Bare
      <3>3. Bare(cut) \subseteq (Bare(h) \ {b}) \cup {n}
        BY <2>7, <3>1, <3>2 DEF Bare
      <3>4. \A p \in L : p \in Bare(h) <=> p \in Bare(cut)
        BY <3>1 DEF Loose
      <3>5. cut.fault = h.fault /\ Mains(cut) = Mains(h)
        BY <2>4, <2>13
      <3> QED
        BY <3>3, <3>4, <3>5 DEF Keeps, Explained
    <2>28. Keeps(L, cut, n, co.heap, co.at)
      <3>1. L \subseteq Loose(cut) \ {n}
        BY <2>17
      <3> QED
        BY <2>16, <2>17, <2>18, <3>1, KeepsCoalesce
    <2>29. Keeps(L, co.heap, co.at, added, 0)
      <3>1. L \subseteq Loose(co.heap) \ {co.at} /\ added = AddMain(co.heap, co.at)
        BY <2>19 DEF added
      <3> QED
        BY <2>19, <3>1, KeepsAddMain
    <2>30. Keeps(L, added, 0, k, b)
      <3>1. k = AtEnd(added, co.at) /\ IsHeap(added) /\ co.at \in Nat
        BY <2>21 DEF k
      <3>2. SameLists(k, added) /\ k.fault = added.fault /\ k.blk = added.blk
        BY <3>1, AtEndIs
      <3>3. Starts(k) = Starts(added) /\ Mains(k) = Mains(added)
        BY <3>2 DEF Starts, Mains, SameLists
      <3>4. Keeps(L, added, 0, k, 0)
        BY <3>2, <3>3, KeepsSame
      <3>5. 0 \notin Starts(k)
        BY <2>21, <3>3, BlocksAre
      <3>6. Keeps(L, k, 0, k, b)
        BY <3>5, KeepsWeak
      <3> QED
        BY <3>4, <3>6, KeepsThen
    <2>31. Keeps(L, h, b, k, b)
      <3>1. Keeps(L, h, b, co.heap, co.at)
        BY <2>27, <2>28, KeepsThen
      <3>2. Keeps(L, h, b, added, 0)
        BY <2>29, <3>1, KeepsThen
      <3> QED
        BY <2>30, <3>2, KeepsThen
    <2>26. Post(k)
      BY <2>19, <2>20, <2>22, <2>24, <2>25, <2>31 DEF SameBlocks
    <2> QED
      BY <1>3, <2>1, <2>26
  <1> QED
    BY <1>1, <1>3, <1>4, <1>5 DEF MinLines

\* With x = 0 no block is left out.
LEMMA SoundMeans ==
    ASSUME NEW h, Sound(h, 0)
    PROVE  /\ IsHeap(h) /\ Tiled(h) /\ ListsOK(h) /\ h.last \in Starts(h) /\ 0 \notin Starts(h)
           /\ \A b \in Starts(h) : (h.blk[b].alloc \/ b \in Mains(h)) /\ LastOf(h, b)
           /\ \A y : Sound(h, y)
  <1>1. IsHeap(h) /\ Tiled(h) /\ ListsOK(h) /\ h.last \in Starts(h)
    BY DEF Sound
  <1>2. \A b \in Starts(h) : b # 0
    BY <1>1, BlocksAre
  <1> QED
    BY <1>1, <1>2 DEF Sound

\* The heap with its first page.
LEMMA FirstPageIs ==
    ASSUME NEW r, r = FirstPage(NoHeap)
    PROVE  /\ Sound(r, 0) /\ Loose(r) = {} /\ r.pages = 1 /\ r.fault \in {"none", "wild"}
           /\ Explained(r, {}, 0, {"none"})
  <1> DEFINE g == [NoHeap EXCEPT !.pages = 1, !.last = 1,
                                 !.blk = [b \in {1} |-> Block(Page - 1, FALSE, TRUE, TRUE)]]
  <1>1. /\ DOMAIN g = Fields /\ g.pages = 1 /\ g.last = 1 /\ g.fault = "none"
        /\ g.main = [i \in 1..NMain |-> <<>>] /\ g.quick = [i \in 1..NQuick |-> <<>>]
        /\ Starts(g) = {1} /\ g.blk[1] = Block(Page - 1, FALSE, TRUE, TRUE)
    BY DEF NoHeap, Fields, Starts
  <1>2. r = AddMain(g, 1)
    BY DEF FirstPage
  <1> HIDE DEF g
  <1>3. Page \in Nat /\ Page >= 3 /\ QuickMax \in Nat
    BY SfmmAssumption
  <1>4. /\ g.blk[1].size = Page - 1 /\ ~g.blk[1].alloc /\ g.blk[1].prv /\ g.blk[1].foot
        /\ g.blk[1] \in Words /\ End(g) = Page /\ Nxt(g, 1) = Page
    BY <1>1, <1>3 DEF Block, Words, End, Nxt
  <1>5. /\ IsList(<<>>) /\ ToSet(<<>>) = {} /\ Len(<<>>) = 0
    BY ListsOfOne
  <1>6. Mains(g) = {} /\ Quicks(g) = {}
    BY <1>1, <1>5 DEF Mains, Quicks
  <1>7. IsHeap(g)
    <2>1. \A i \in 1..NMain : g.main[i] = <<>>
      BY <1>1
    <2>2. \A i \in 1..NQuick : g.quick[i] = <<>>
      BY <1>1
    <2>3. DOMAIN g.main = 1..NMain /\ DOMAIN g.quick = 1..NQuick
      BY <1>1
    <2>4. (\A i \in 1..NMain : IsList(g.main[i])) /\ (\A i \in 1..NQuick : IsList(g.quick[i]))
      BY <1>5, <2>1, <2>2
    <2>5. \A b \in Starts(g) : g.blk[b] \in Words
      BY <1>1, <1>4
    <2> QED
      BY <1>1, <2>3, <2>4, <2>5 DEF IsHeap
  <1>8. Tiled(g)
    <2>1. \A b \in Starts(g) : b = 1
      BY <1>1
    <2>2. \A b \in (Starts(g) \cup {End(g)}) \ {1} : b = Page
      BY <1>1, <1>4
    <2>3. Page - 1 >= 2 /\ 1 \in Starts(g)
      BY <1>1, <1>3
    <2> QED
      BY <1>3, <1>4, <2>1, <2>2, <2>3 DEF Tiled, MinLines
  <1>9. ListsOK(g)
    BY <1>1, <1>3, <1>5 DEF ListsOK
  <1>10. Sound(g, 1) /\ Loose(g) = {1} /\ LastOf(g, 1)
    BY <1>1, <1>6, <1>7, <1>8, <1>9 DEF Sound, Loose, LastOf
  <1> QED
    <2>1. /\ Sound(r, 0) /\ Loose(r) = Loose(g) \ {1} /\ SameBlocks(r, g)
          /\ r.fault \in {g.fault, "wild"}
      BY <1>2, <1>4, <1>10, AddMainIs
    <2>2. Explained(g, {}, 1, {"none"})
      <3>1. Page # 1
        BY <1>3
      <3>2. Bare(g) = {}
        BY <1>1, <1>4, <3>1 DEF Bare
      <3> QED
        BY <1>1, <3>2 DEF Explained
    <2>3. Keeps({}, g, 1, r, 0)
      BY <1>2, <1>4, <1>10, KeepsAddMain
    <2>4. Explained(r, {}, 0, {"none"})
      BY <2>2, <2>3 DEF Keeps
    <2> QED
      BY <1>1, <1>10, <2>1, <2>4 DEF SameBlocks

\* A page more.
LEMMA GrowIs ==
    ASSUME NEW h, Sound(h, 0), NEW r, r = Grow(h)
    PROVE  /\ Sound(r, 0) /\ Loose(r) = Loose(h) /\ \A c \in Loose(h) : r.blk[c] = h.blk[c]
           /\ r.quick = h.quick /\ r.pages = h.pages + 1 /\ r.fault \in {h.fault, "wild"}
           /\ Keeps(Loose(h), h, 0, r, 0)
  <1> DEFINE new == Block(Page, FALSE, h.blk[h.last].alloc, TRUE)
             cut == [h EXCEPT !.pages = @ + 1, !.blk = Put(@, End(h), new)]
             co == Coalesce(cut, End(h))
             added == AddMain(co.heap, co.at)
  <1>1. /\ IsHeap(h) /\ Tiled(h) /\ ListsOK(h) /\ h.last \in Starts(h) /\ h.pages \in Nat
        /\ End(h) \in Nat /\ End(h) \notin Starts(h) /\ 1 \in Starts(h) /\ h.blk[1].prv
    BY BlocksAre DEF Sound, IsHeap, Tiled
  <1>2. Page \in Nat /\ Page >= 3
    BY SfmmAssumption
  <1>3. r = [added EXCEPT !.last = co.at]
    BY DEF Grow
  <1>4. PICK n : n = End(h)
    OBVIOUS
  <1>5. /\ DOMAIN cut = Fields /\ cut.main = h.main /\ cut.quick = h.quick
        /\ cut.last = h.last /\ cut.pages = h.pages + 1 /\ cut.fault = h.fault
        /\ cut.blk = Put(h.blk, n, new)
    BY <1>1, <1>4 DEF IsHeap, Fields
  <1>6. new.size = Page /\ new.foot /\ new \in Words
    BY <1>1, <1>2, BlocksAre DEF Block, Words
  <1>6a. new.prv = h.blk[h.last].alloc
    BY DEF Block
  <1> HIDE DEF cut, new
  <1>7. /\ Starts(cut) = Starts(h) \cup {n} /\ cut.blk[n] = new
        /\ \A c \in Starts(h) : cut.blk[c] = h.blk[c]
    BY <1>1, <1>4, <1>5 DEF Put, Starts
  <1>8. End(cut) = End(h) + Page
    BY <1>1, <1>2, <1>5 DEF End
  <1>9. Tiled(cut)
    BY <1>1, <1>4, <1>6, <1>7, <1>8, GrowTiles
  <1>10. IsHeap(cut)
    BY <1>1, <1>4, <1>5, <1>6, <1>7 DEF IsHeap
  <1>11. /\ Mains(cut) = Mains(h) /\ Quicks(cut) = Quicks(h)
         /\ n \notin Mains(h) /\ n \notin Quicks(h)
    BY <1>1, <1>4, <1>5 DEF Mains, Quicks, ListsOK
  <1>12. ListsOK(cut)
    <2>1. ASSUME NEW i \in 1..NMain, NEW c \in ToSet(cut.main[i])
          PROVE  /\ c \in Starts(cut) \ Quicks(cut)
                 /\ MainClass(cut.blk[c].size) = i /\ cut.blk[c].foot
      BY <1>1, <1>5, <1>7, <1>11 DEF ListsOK
    <2>2. ASSUME NEW i \in 1..NQuick, NEW c \in ToSet(cut.quick[i])
          PROVE  /\ c \in Starts(cut) /\ QuickClass(cut.blk[c].size) = i
                 /\ cut.blk[c].foot /\ cut.blk[c].alloc
      BY <1>1, <1>5, <1>7 DEF ListsOK
    <2>3. \A i \in 1..NQuick : Len(cut.quick[i]) <= QuickMax
      BY <1>1, <1>5 DEF ListsOK
    <2> QED
      BY <2>1, <2>2, <2>3 DEF ListsOK
  <1>13. ASSUME NEW c \in Starts(cut) \ {n}
         PROVE  (cut.blk[c].alloc \/ c \in Mains(cut)) /\ LastOf(cut, c)
    <2>1. c \in Starts(h) /\ c # 0 /\ cut.blk[c] = h.blk[c]
      BY <1>1, <1>7, <1>13, BlocksAre
    <2>2. h.blk[c].alloc \/ c \in Mains(h)
      BY <2>1 DEF Sound
    <2>3. Nxt(cut, c) = Nxt(h, c) /\ Nxt(h, c) <= End(h) /\ Nxt(h, c) \in Nat
      BY <1>1, <2>1, BlocksAre DEF Nxt
    <2>4. Nxt(cut, c) # End(cut)
      BY <1>1, <1>2, <1>8, <2>3
    <2> QED
      BY <1>11, <2>1, <2>2, <2>4 DEF LastOf
  <1>14. Sound(cut, n)
    BY <1>1, <1>5, <1>7, <1>9, <1>10, <1>12, <1>13 DEF Sound
  <1>15. Loose(cut) = Loose(h) \cup {n} /\ n \in Loose(cut) /\ Loose(cut) \ {n} = Loose(h)
    BY <1>1, <1>4, <1>7, <1>11 DEF Loose
  <1>16. Nxt(cut, n) = End(cut)
    BY <1>4, <1>6, <1>7, <1>8 DEF Nxt
  <1>17. co = Coalesce(cut, n)
    BY <1>4
  <1> HIDE DEF co
  <1>18. /\ Sound(co.heap, co.at) /\ co.at \in Loose(co.heap)
         /\ Loose(co.heap) \ {co.at} = Loose(h) /\ \A c \in Loose(h) : co.heap.blk[c] = cut.blk[c]
         /\ co.heap.quick = h.quick /\ co.heap.pages = h.pages + 1
         /\ co.heap.fault \in {h.fault, "wild"} /\ co.heap.blk[co.at].foot
         /\ Nxt(co.heap, co.at) = End(cut)
    <2>1. /\ Loose(co.heap) = (Loose(cut) \ {n}) \cup {co.at} /\ co.at \notin Loose(cut) \ {n}
          /\ \A c \in Loose(cut) \ {n} : co.heap.blk[c] = cut.blk[c]
          /\ Sound(co.heap, co.at) /\ co.at \in Loose(co.heap)
          /\ co.heap.quick = cut.quick /\ co.heap.pages = cut.pages
          /\ co.heap.fault \in {cut.fault, "wild"}
          /\ cut.blk[n].foot => co.heap.blk[co.at].foot
          /\ Nxt(cut, n) = End(cut) => Nxt(co.heap, co.at) = End(cut)
      BY <1>14, <1>15, <1>17, CoalesceIs
    <2> QED
      BY <1>5, <1>6, <1>7, <1>15, <1>16, <2>1
  <1>19. added = AddMain(co.heap, co.at)
    OBVIOUS
  <1> HIDE DEF added
  <1>20. /\ Sound(added, co.at) /\ Loose(added) = Loose(h) /\ co.at \in Mains(added)
         /\ SameBlocks(added, co.heap) /\ added.quick = co.heap.quick
         /\ added.fault \in {co.heap.fault, "wild"}
    <2>1. Sound(co.heap, co.at) /\ co.at \in Loose(co.heap) /\ co.heap.blk[co.at].foot
      BY <1>18
    <2>2. /\ Sound(added, co.at) /\ Loose(added) = Loose(co.heap) \ {co.at}
          /\ co.at \in Mains(added) /\ SameBlocks(added, co.heap)
          /\ added.quick = co.heap.quick /\ added.fault \in {co.heap.fault, "wild"}
      BY <1>19, <2>1, AddMainIs
    <2> QED
      BY <1>18, <2>2
  <1>21. Nxt(added, co.at) = End(added)
    <2>1. End(co.heap) = End(cut)
      BY <1>5, <1>18 DEF End
    <2> QED
      BY <1>18, <1>20, <2>1 DEF SameBlocks, Nxt, End
  <1>22. co.at \in Starts(added) /\ co.at \in Nat /\ IsHeap(added) /\ Tiled(added)
    <2>1. IsHeap(added) /\ Tiled(added) /\ ListsOK(added)
      BY <1>20 DEF Sound
    <2>2. co.at \in Starts(added)
      BY <1>20, <2>1 DEF ListsOK, Mains
    <2> QED
      BY <2>1, <2>2, BlocksAre
  <1>23. r = AtEnd(added, co.at)
    <2>1. ~HasNext(added, co.at)
      BY <1>21, <1>22, BlocksAre
    <2> QED
      BY <1>3, <2>1 DEF AtEnd
  <1>24. /\ Sound(r, 0) /\ Loose(r) = Loose(added) /\ r.blk = added.blk
         /\ r.quick = added.quick /\ r.pages = added.pages /\ r.fault = added.fault
    BY <1>20, <1>22, <1>23, EndSound
  <1>25. \A c \in Loose(h) : r.blk[c] = h.blk[c]
    BY <1>7, <1>18, <1>20, <1>24 DEF SameBlocks, Loose
  <1> DEFINE L == Loose(h)
  <1>26. Keeps(L, h, 0, cut, n)
    <2>1. ASSUME NEW p \in Starts(h), p # h.last PROVE p \in Bare(cut) <=> p \in Bare(h)
      <3>1. p \in Starts(cut) /\ Nxt(cut, p) = Nxt(h, p)
        BY <1>7 DEF Nxt
      <3>2. Nxt(h, p) # n
        BY <1>4, <2>1, SoundMeans DEF LastOf
      <3>3. Nxt(h, p) \in Starts(cut) <=> Nxt(h, p) \in Starts(h)
        BY <1>7, <3>2
      <3> QED
        BY <1>7, <3>1, <3>3 DEF Bare
    <2>2. h.last \notin Bare(h)
      <3>1. PICK p \in Starts(h) : Nxt(h, p) = End(h)
        BY <1>1, BlocksAre DEF Tiled
      <3>2. p = h.last
        BY <3>1, SoundMeans DEF LastOf
      <3> QED
        BY <1>1, <3>1, <3>2 DEF Bare
    <2>3. h.last \in Bare(cut) => h.last \in Mains(h)
      <3>1. PICK p \in Starts(h) : Nxt(h, p) = End(h)
        BY <1>1, BlocksAre DEF Tiled
      <3>2. p = h.last
        BY <3>1, SoundMeans DEF LastOf
      <3>3. Nxt(cut, h.last) = n
        BY <1>4, <1>7, <3>1, <3>2 DEF Nxt
      <3>4. h.last \in Bare(cut) => ~h.blk[h.last].alloc
        BY <1>6a, <1>7, <3>3 DEF Bare
      <3> QED
        BY <1>1, <3>4, SoundMeans
    <2>4. Bare(cut) \subseteq Bare(h) \cup Mains(h) \cup {n}
      BY <1>7, <2>1, <2>3 DEF Bare
    <2>5. \A p \in L : p \in Bare(h) => p \in Bare(cut)
      BY <2>1, <2>2 DEF Loose
    <2>6. cut.fault = h.fault /\ Mains(cut) = Mains(h) /\ 0 \notin Bare(h)
      BY <1>5, <1>11, SoundMeans DEF Bare
    <2> QED
      BY <2>4, <2>5, <2>6 DEF Keeps, Explained
  <1>27. Keeps(L, cut, n, co.heap, co.at)
    <2>1. L \subseteq Loose(cut) \ {n}
      BY <1>15
    <2> QED
      BY <1>14, <1>15, <1>17, <2>1, KeepsCoalesce
  <1>28. Keeps(L, co.heap, co.at, added, 0)
    <2>1. L \subseteq Loose(co.heap) \ {co.at}
      BY <1>18
    <2> QED
      BY <1>18, <1>19, <2>1, KeepsAddMain
  <1>29. Keeps(L, added, 0, r, 0)
    <2>1. SameLists(r, added) /\ r.fault = added.fault /\ r.blk = added.blk
      BY <1>22, <1>23, AtEndIs
    <2>2. Starts(r) = Starts(added) /\ Mains(r) = Mains(added)
      BY <2>1 DEF Starts, Mains, SameLists
    <2> QED
      BY <2>1, <2>2, KeepsSame
  <1>30. Keeps(L, h, 0, r, 0)
    <2>1. Keeps(L, h, 0, co.heap, co.at)
      BY <1>26, <1>27, KeepsThen
    <2>2. Keeps(L, h, 0, added, 0)
      BY <1>28, <2>1, KeepsThen
    <2> QED
      BY <1>29, <2>2, KeepsThen
  <1> QED
    BY <1>18, <1>20, <1>24, <1>25, <1>30 DEF SameBlocks
-------------------------------------------------------------------------------
\* A set of natural numbers has a least one.
LEMMA LeastIs ==
    ASSUME NEW T, T \subseteq Nat, T # {}
    PROVE  Min(T) \in T /\ \A y \in T : Min(T) <= y
  <1> DEFINE R == {ss \in Nat \X Nat : ss[1] < ss[2]}
  <1>1. IsWellFoundedOn(R, Nat)
    BY NatLessThanWellFounded DEF OpToRel
  <1> HIDE DEF R
  <1>2. PICK x \in T : \A y \in T : ~ (<<y, x>> \in R)
    BY <1>1, WFMin
  <1>3. ASSUME NEW y \in T PROVE x <= y
    <2>1. x \in Nat /\ y \in Nat
      OBVIOUS
    <2>2. <<y, x>> \notin R
      BY <1>2
    <2> QED
      BY <2>1, <2>2 DEF R
  <1>4. \E z \in T : \A y \in T : z <= y
    BY <1>3
  <1> QED
    BY <1>4 DEF Min

\* What find_main_fit finds is on a main list and large enough.
LEMMA FitIs ==
    ASSUME NEW h, IsHeap(h), NEW size \in Nat, NEW b, b = Fit(h, size)
    PROVE  b = 0 \/ (b \in Mains(h) /\ h.blk[b].size >= size)
  <1> DEFINE Fits(i) == {k \in DOMAIN h.main[i] : h.blk[h.main[i][k]].size >= size}
             classes == {i \in MainClass(size)..NMain : Fits(i) # {}}
             m == Min(classes)
             k == Min(Fits(m))
  <1>1. CASE classes = {}
    BY <1>1 DEF Fit
  <1>2. CASE classes # {}
    <2>1. b = h.main[m][k]
      BY <1>2 DEF Fit
    <2>2. MainClass(size) \in 1..NMain /\ NMain \in Nat
      BY MainClassIs DEF NMain
    <2>3. classes \subseteq Nat /\ classes \subseteq 1..NMain
      BY <2>2
    <2> HIDE DEF m
    <2>4. m \in classes
      BY <1>2, <2>3, LeastIs DEF m
    <2>5. m \in 1..NMain /\ Fits(m) # {}
      BY <2>3, <2>4
    <2>6. IsList(h.main[m]) /\ DOMAIN h.main[m] = 1..Len(h.main[m]) /\ Len(h.main[m]) \in Nat
      BY <2>5, ListElements DEF IsHeap
    <2>7. Fits(m) \subseteq Nat
      BY <2>6
    <2> HIDE DEF k
    <2>8. k \in Fits(m)
      BY <2>5, <2>7, LeastIs DEF k
    <2>9. k \in 1..Len(h.main[m]) /\ h.blk[b].size >= size
      BY <2>1, <2>6, <2>8
    <2>10. b \in ToSet(h.main[m])
      BY <2>1, <2>6, <2>9, ListElements
    <2> QED
      BY <2>5, <2>9, <2>10 DEF Mains
  <1> QED
    BY <1>1, <1>2

\* The heap with the pages it takes to fit size lines.
LEMMA EnlargedIs ==
    ASSUME NEW h, Sound(h, 0), h.pages \in 1..MaxPages, NEW size, NEW r, r = Enlarged(h, size)
    PROVE  /\ Sound(r, 0) /\ Loose(r) = Loose(h) /\ \A c \in Loose(h) : r.blk[c] = h.blk[c]
           /\ r.quick = h.quick /\ r.pages \in 1..MaxPages /\ r.fault \in {h.fault, "wild"}
           /\ Keeps(Loose(h), h, 0, r, 0)
  <1> DEFINE Step(g) == IF Fit(g, size) # 0 \/ g.pages = MaxPages THEN g ELSE Grow(g)
             IsAfter(f, n) == f = [k \in 0..n |-> IF k = 0 THEN h ELSE Step(f[k - 1])]
             Post(g) == /\ Sound(g, 0) /\ Loose(g) = Loose(h)
                        /\ \A c \in Loose(h) : g.blk[c] = h.blk[c]
                        /\ g.quick = h.quick /\ g.pages \in 1..MaxPages
                        /\ g.fault \in {h.fault, "wild"}
                        /\ Keeps(Loose(h), h, 0, g, 0)
  <1>1. MaxPages \in Nat
    BY SfmmAssumption
  <1>2. ASSUME NEW g, Post(g) PROVE Post(Step(g))
    <2>1. CASE Fit(g, size) # 0 \/ g.pages = MaxPages
      BY <1>2, <2>1
    <2>2. CASE ~(Fit(g, size) # 0 \/ g.pages = MaxPages)
      <3> DEFINE w == Grow(g)
      <3>1. /\ Sound(w, 0) /\ Loose(w) = Loose(g) /\ \A c \in Loose(g) : w.blk[c] = g.blk[c]
            /\ w.quick = g.quick /\ w.pages = g.pages + 1 /\ w.fault \in {g.fault, "wild"}
            /\ Keeps(Loose(g), g, 0, w, 0)
        BY <1>2, GrowIs
      <3>2. Step(g) = w
        BY <2>2
      <3> HIDE DEF w
      <3>3. w.pages \in 1..MaxPages
        BY <1>1, <1>2, <2>2, <3>1
      <3>4. Keeps(Loose(h), h, 0, w, 0)
        BY <1>2, <3>1, KeepsThen
      <3>5. Post(w)
        BY <1>2, <3>1, <3>3, <3>4
      <3> QED
        BY <3>2, <3>5
    <2> QED
      BY <2>1, <2>2
  <1> HIDE DEF Step
  <1>3. \A n \in Nat : \E f : IsAfter(f, n)
    <2> DEFINE T == {n \in Nat : ~\E f : IsAfter(f, n)}
    <2>1. SUFFICES ASSUME T # {} PROVE FALSE
      OBVIOUS
    <2>2. PICK n \in T : \A y \in T : n <= y
      BY <2>1, LeastIs
    <2>3. n # 0
      <3> DEFINE f == [k \in 0..0 |-> h]
      <3>1. IsAfter(f, 0)
        OBVIOUS
      <3> QED
        BY <2>2, <3>1
    <2>4. n - 1 \in Nat /\ ~(n <= n - 1)
      BY <2>2, <2>3
    <2>5. PICK f : IsAfter(f, n - 1)
      BY <2>2, <2>4
    <2> DEFINE w == [k \in 0..n |-> IF k = n THEN Step(f[n - 1]) ELSE f[k]]
    <2>6. ASSUME NEW k \in 0..n PROVE w[k] = IF k = 0 THEN h ELSE Step(w[k - 1])
      <3>1. CASE k = n
        BY <2>3, <2>4, <3>1
      <3>2. CASE k # n
        <4>1. k \in 0..(n - 1) /\ w[k] = f[k]
          BY <2>2, <2>6, <3>2
        <4>2. f[k] = IF k = 0 THEN h ELSE Step(f[k - 1])
          BY <2>5, <4>1
        <4>3. k # 0 => k - 1 \in 0..n /\ k - 1 # n /\ w[k - 1] = f[k - 1]
          BY <2>2, <4>1
        <4> QED
          BY <4>1, <4>2, <4>3
      <3> QED
        BY <3>1, <3>2
    <2>7. IsAfter(w, n)
      BY <2>6
    <2> QED
      BY <2>2, <2>7
  <1> DEFINE f == CHOOSE f : IsAfter(f, MaxPages)
  <1>4. r = f[MaxPages]
    BY DEF Enlarged, Step
  <1>5. IsAfter(f, MaxPages)
    BY <1>1, <1>3
  <1> HIDE DEF f
  <1>6. \A k \in 0..MaxPages : f[k] = IF k = 0 THEN h ELSE Step(f[k - 1])
    BY <1>5
  <1>7. Post(h)
    BY DEF Keeps
  <1> HIDE DEF Post, IsAfter
  <1>8. \A k \in 0..MaxPages : Post(f[k])
    <2> DEFINE T == {k \in 0..MaxPages : ~Post(f[k])}
    <2>1. SUFFICES ASSUME T # {} PROVE FALSE
      OBVIOUS
    <2>1a. T \subseteq Nat
      BY <1>1
    <2>2. PICK n \in T : \A y \in T : n <= y
      BY <2>1, <2>1a, LeastIs
    <2>3. n # 0
      BY <1>1, <1>6, <1>7, <2>2
    <2>4. n - 1 \in 0..MaxPages /\ ~(n <= n - 1)
      BY <1>1, <2>2, <2>3
    <2>5. Post(f[n - 1])
      BY <2>2, <2>4
    <2> QED
      BY <1>2, <1>6, <2>2, <2>3, <2>5
  <1>9. Post(r)
    BY <1>1, <1>4, <1>8
  <1> QED
    BY <1>9 DEF Post

\* The blocks of a list that was a quick list go to the main lists.
LEMMA FlushIs ==
    ASSUME NEW h, Sound(h, 0), NEW L, IsList(L), ToSet(L) \subseteq Loose(h),
           \A e \in ToSet(L) : h.blk[e].foot, NEW r, r = flush_list(h, L)
    PROVE  /\ Sound(r, 0) /\ Loose(r) = Loose(h) \ ToSet(L)
           /\ \A c \in Loose(r) : r.blk[c] = h.blk[c]
           /\ r.quick = h.quick /\ r.pages = h.pages /\ r.fault \in {h.fault, "wild"}
           /\ Keeps(Loose(h) \ ToSet(L), h, 0, r, 0)
  <1>1. PICK N \in Nat : /\ N = Len(L) /\ \A j, m \in 1..N : L[j] = L[m] => j = m
                         /\ \A e : e \in ToSet(L) <=> \E j \in 1..N : L[j] = e
    BY ListElements DEF IsList
  <1> DEFINE IsAfter(f, n) == f = [k \in 0..n |-> IF k = 0 THEN h
                                                 ELSE CoalesceAndAdd(f[k - 1], L[k])]
             Todo(k) == {L[j] : j \in (k + 1)..N}
             Left(k) == (Loose(h) \ ToSet(L)) \cup Todo(k)
             Post(g, k) == /\ Sound(g, 0) /\ Loose(g) = Left(k)
                           /\ \A c \in Left(k) : g.blk[c] = h.blk[c]
                           /\ g.quick = h.quick /\ g.pages = h.pages
                           /\ g.fault \in {h.fault, "wild"}
                           /\ Keeps(Loose(h) \ ToSet(L), h, 0, g, 0)
  <1>2. ASSUME NEW g, NEW k \in 1..N, Post(g, k - 1)
        PROVE  Post(CoalesceAndAdd(g, L[k]), k)
    <2> DEFINE x == L[k]
               co == Coalesce(g, x)
               w == AddMain(co.heap, co.at)
    <2>1. CoalesceAndAdd(g, x) = w
      BY DEF CoalesceAndAdd
    <2>2. x \in ToSet(L) /\ x \in Loose(h) /\ h.blk[x].foot
      BY <1>1
    <2>3. Todo(k - 1) = Todo(k) \cup {x} /\ x \notin Todo(k)
      <3>1. \A j \in k..N : j = k \/ j \in (k + 1)..N
        BY <1>1
      <3>2. (k - 1) + 1 = k /\ k \in k..N /\ (k + 1)..N \subseteq k..N
        BY <1>1
      <3>3. \A j \in (k + 1)..N : j \in 1..N /\ j # k
        BY <1>1
      <3> QED
        BY <1>1, <3>1, <3>2, <3>3
    <2> HIDE DEF x, Todo
    <2>4. Left(k - 1) = Left(k) \cup {x} /\ x \notin Left(k)
      BY <2>2, <2>3
    <2> HIDE DEF Left
    <2>5. x \in Loose(g) /\ g.blk[x].foot /\ Loose(g) \ {x} = Left(k)
      BY <1>2, <2>2, <2>4
    <2>6. Sound(g, x) /\ LastOf(g, x)
      <3>1. x \in Starts(g)
        BY <2>5 DEF Loose
      <3> QED
        BY <1>2, <3>1, SoundMeans
    <2>7. /\ Sound(co.heap, co.at) /\ co.at \in Loose(co.heap)
          /\ Loose(co.heap) = (Loose(g) \ {x}) \cup {co.at} /\ co.at \notin Loose(g) \ {x}
          /\ \A c \in Loose(g) \ {x} : co.heap.blk[c] = g.blk[c]
          /\ co.heap.quick = g.quick /\ co.heap.pages = g.pages
          /\ co.heap.fault \in {g.fault, "wild"} /\ LastOf(co.heap, co.at)
          /\ co.heap.blk[co.at].foot
      BY <2>5, <2>6, CoalesceIs
    <2> DEFINE K == Loose(h) \ ToSet(L)
    <2>7a. K \subseteq Loose(g) \ {x} /\ K \subseteq Loose(co.heap) \ {co.at}
      BY <2>5, <2>7 DEF Left
    <2>7b. Keeps(K, h, 0, g, x)
      <3>1. 0 \notin Starts(g) /\ Keeps(K, h, 0, g, 0)
        BY <1>2, SoundMeans
      <3>2. Keeps(K, g, 0, g, x)
        BY <3>1, KeepsWeak
      <3> QED
        BY <3>1, <3>2, KeepsThen
    <2>7c. Keeps(K, g, x, co.heap, co.at)
      BY <2>5, <2>6, <2>7a, KeepsCoalesce
    <2> HIDE DEF co
    <2>7d. Keeps(K, co.heap, co.at, w, 0)
      <3>1. w = AddMain(co.heap, co.at)
        OBVIOUS
      <3> HIDE DEF w
      <3> QED
        BY <2>7, <2>7a, <3>1, KeepsAddMain
    <2>7e. Keeps(K, h, 0, w, 0)
      <3>1. Keeps(K, h, 0, co.heap, co.at)
        BY <2>7b, <2>7c, KeepsThen
      <3> QED
        BY <2>7d, <3>1, KeepsThen
    <2>8. /\ Loose(w) = Loose(co.heap) \ {co.at}
          /\ SameBlocks(w, co.heap) /\ w.quick = co.heap.quick /\ w.fault \in {co.heap.fault, "wild"}
          /\ Sound(w, 0)
      <3>1. w = AddMain(co.heap, co.at)
        OBVIOUS
      <3> HIDE DEF w
      <3> QED
        BY <2>7, <3>1, AddMainIs
    <2> HIDE DEF w
    <2>9. Loose(w) = Left(k)
      BY <2>5, <2>7, <2>8
    <2>10. \A c \in Left(k) : w.blk[c] = h.blk[c]
      BY <1>2, <2>4, <2>5, <2>7, <2>8 DEF SameBlocks
    <2>11. Post(w, k)
      BY <1>2, <2>7, <2>7e, <2>8, <2>9, <2>10 DEF SameBlocks
    <2> QED
      BY <2>1, <2>11 DEF x
  <1>3. \A n \in Nat : \E f : IsAfter(f, n)
    <2> DEFINE T == {n \in Nat : ~\E f : IsAfter(f, n)}
    <2>1. SUFFICES ASSUME T # {} PROVE FALSE
      OBVIOUS
    <2>2. PICK n \in T : \A y \in T : n <= y
      BY <2>1, LeastIs
    <2>3. n # 0
      <3> DEFINE f == [k \in 0..0 |-> h]
      <3>1. IsAfter(f, 0)
        OBVIOUS
      <3> QED
        BY <2>2, <3>1
    <2>4. n - 1 \in Nat /\ ~(n <= n - 1)
      BY <2>2, <2>3
    <2>5. PICK f : IsAfter(f, n - 1)
      BY <2>2, <2>4
    <2> DEFINE w == [k \in 0..n |-> IF k = n THEN CoalesceAndAdd(f[n - 1], L[n]) ELSE f[k]]
    <2>6. ASSUME NEW k \in 0..n
          PROVE  w[k] = IF k = 0 THEN h ELSE CoalesceAndAdd(w[k - 1], L[k])
      <3>1. CASE k = n
        BY <2>3, <2>4, <3>1
      <3>2. CASE k # n
        <4>1. k \in 0..(n - 1) /\ w[k] = f[k]
          BY <2>2, <2>6, <3>2
        <4>2. f[k] = IF k = 0 THEN h ELSE CoalesceAndAdd(f[k - 1], L[k])
          BY <2>5, <4>1
        <4>3. k # 0 => k - 1 \in 0..n /\ k - 1 # n /\ w[k - 1] = f[k - 1]
          BY <2>2, <4>1
        <4> QED
          BY <4>1, <4>2, <4>3
      <3> QED
        BY <3>1, <3>2
    <2>7. IsAfter(w, n)
      BY <2>6
    <2> QED
      BY <2>2, <2>7
  <1> DEFINE f == CHOOSE f : IsAfter(f, N)
  <1>4. r = f[N]
    BY <1>1 DEF flush_list
  <1>5. IsAfter(f, N)
    BY <1>3
  <1> HIDE DEF f
  <1>6. \A k \in 0..N : f[k] = IF k = 0 THEN h ELSE CoalesceAndAdd(f[k - 1], L[k])
    BY <1>5
  <1>7. Post(h, 0)
    <2>1. Left(0) = Loose(h)
      BY <1>1
    <2>2. Keeps(Loose(h) \ ToSet(L), h, 0, h, 0)
      BY DEF Keeps
    <2> QED
      BY <2>1, <2>2
  <1>7a. Left(N) = Loose(h) \ ToSet(L)
    OBVIOUS
  <1> HIDE DEF Left, IsAfter
  <1>8. \A k \in 0..N : Post(f[k], k)
    <2> DEFINE T == {k \in 0..N : ~Post(f[k], k)}
    <2>1. SUFFICES ASSUME T # {} PROVE FALSE
      OBVIOUS
    <2> HIDE DEF Post
    <2>1a. T \subseteq Nat
      BY <1>1
    <2>2. PICK n \in T : \A y \in T : n <= y
      BY <2>1, <2>1a, LeastIs
    <2>3. n # 0
      BY <1>6, <1>7, <2>2
    <2>4. n - 1 \in 0..N /\ ~(n <= n - 1) /\ n \in 1..N
      BY <2>2, <2>3
    <2>5. Post(f[n - 1], n - 1)
      BY <2>2, <2>4
    <2>6. Post(CoalesceAndAdd(f[n - 1], L[n]), n)
      BY <1>2, <2>4, <2>5
    <2> QED
      BY <1>6, <2>2, <2>4, <2>6
  <1> HIDE DEF Post
  <1>9. N \in 0..N
    BY <1>1
  <1>10. Post(r, N)
    BY <1>4, <1>8, <1>9
  <1> QED
    BY <1>7a, <1>10 DEF Post

\* A block has at least two lines.
LEMMA BlockLinesIs ==
    ASSUME NEW n \in Nat
    PROVE  BlockLines(n) \in Nat /\ BlockLines(n) >= MinLines
  <1> DEFINE size == (((n + 8 + 15) \div 16) * 16) % WordMod
  <1>1. size \in Nat
    BY SfmmAssumption
  <1>2. BlockLines(n) = IF size < 32 THEN MinLines ELSE size \div 16
    BY DEF BlockLines
  <1> HIDE DEF size
  <1>3. size >= 32 => size \div 16 \in Nat /\ size \div 16 >= 2
    BY <1>1
  <1> QED
    BY <1>1, <1>2, <1>3 DEF MinLines

\* The block that find_main_fit found, taken from its list, is loose.
LEMMA TakenIs ==
    ASSUME NEW h, Sound(h, 0), NEW b \in Mains(h), NEW u, u = Unlink(h, b)
    PROVE  /\ Sound(u, b) /\ b \in Loose(u) /\ Loose(u) = Loose(h) \cup {b} /\ b \notin Loose(h)
           /\ u.blk = h.blk /\ LastOf(u, b)
           /\ u.quick = h.quick /\ u.pages = h.pages /\ u.fault = h.fault
           /\ Keeps(Loose(h), h, 0, u, b)
  <1>1. /\ IsHeap(h) /\ Tiled(h) /\ ListsOK(h) /\ h.last \in Starts(h) /\ 0 \notin Starts(h)
        /\ \A c \in Starts(h) : (h.blk[c].alloc \/ c \in Mains(h)) /\ LastOf(h, c)
    BY SoundMeans
  <1>2. /\ IsHeap(u) /\ SameBlocks(u, h) /\ u.quick = h.quick /\ u.fault = h.fault
        /\ \A i \in 1..NMain : ToSet(u.main[i]) = ToSet(h.main[i]) \ {b}
        /\ Mains(u) = Mains(h) \ {b} /\ Quicks(u) = Quicks(h)
    BY <1>1, UnlinkIs
  <1>3. /\ Starts(u) = Starts(h) /\ End(u) = End(h)
        /\ \A c : Nxt(u, c) = Nxt(h, c) /\ (LastOf(u, c) <=> LastOf(h, c))
    BY <1>2 DEF SameBlocks, Starts, End, Nxt, LastOf
  <1>4. Tiled(u)
    BY <1>1, <1>2, <1>3 DEF Tiled, SameBlocks
  <1>5. ListsOK(u)
    <2>1. ASSUME NEW i \in 1..NMain, NEW c \in ToSet(u.main[i])
          PROVE  /\ c \in Starts(u) \ Quicks(u)
                 /\ MainClass(u.blk[c].size) = i /\ u.blk[c].foot
      <3>1. c \in ToSet(h.main[i]) /\ u.blk = h.blk
        BY <1>2, <2>1 DEF SameBlocks
      <3> QED
        BY <1>1, <1>2, <1>3, <3>1 DEF ListsOK
    <2>2. ASSUME NEW i \in 1..NQuick
          PROVE  /\ Len(u.quick[i]) <= QuickMax
                 /\ \A c \in ToSet(u.quick[i]) :
                       /\ c \in Starts(u) /\ QuickClass(u.blk[c].size) = i
                       /\ u.blk[c].foot /\ u.blk[c].alloc
      BY <1>1, <1>2, <1>3 DEF ListsOK, SameBlocks
    <2> QED
      BY <2>1, <2>2 DEF ListsOK
  <1>6. Sound(u, b)
    BY <1>1, <1>2, <1>3, <1>4, <1>5 DEF Sound, SameBlocks
  <1>7. b \in Starts(h) /\ b \notin Quicks(h)
    BY <1>1 DEF ListsOK, Mains
  <1>8. Keeps(Loose(h), h, 0, u, b)
    <2>1. Bare(u) = Bare(h) /\ 0 \notin Bare(h)
      BY <1>1, <1>2, <1>3 DEF Bare, SameBlocks
    <2> QED
      BY <1>2, <2>1 DEF Keeps, Explained
  <1> QED
    BY <1>1, <1>2, <1>3, <1>6, <1>7, <1>8 DEF Loose, SameBlocks

\* sf_malloc from the main lists.
LEMMA FromMainIs ==
    ASSUME NEW h, Sound(h, 0), h.pages \in 1..MaxPages, NEW size \in Nat, size >= MinLines,
           NEW r, r = FromMain(h, size)
    PROVE  /\ Sound(r.heap, 0) /\ r.heap.pages \in 1..MaxPages
           /\ r.heap.fault \in {h.fault, "wild"}
           /\ \A c \in Loose(h) : r.heap.blk[c] = h.blk[c]
           /\ r.at = 0 => Loose(r.heap) = Loose(h)
           /\ r.at # 0 => /\ r.at \notin Loose(h) /\ Loose(r.heap) = Loose(h) \cup {r.at}
                          /\ r.heap.blk[r.at].size >= size
           /\ Keeps(Loose(h), h, 0, r.heap, r.at)
  <1> DEFINE g == Enlarged(h, size)
             b == Fit(g, size)
             u == Unlink(g, b)
             a == Allocate(u, b, size)
  <1>1. /\ Sound(g, 0) /\ Loose(g) = Loose(h) /\ \A c \in Loose(h) : g.blk[c] = h.blk[c]
        /\ g.quick = h.quick /\ g.pages \in 1..MaxPages /\ g.fault \in {h.fault, "wild"}
        /\ Keeps(Loose(h), h, 0, g, 0)
    BY EnlargedIs
  <1>2. r = [heap |-> IF b = 0 THEN g ELSE a, at |-> b]
    BY DEF FromMain
  <1> HIDE DEF g
  <1>3. b = 0 \/ (b \in Mains(g) /\ g.blk[b].size >= size)
    BY <1>1, FitIs, SoundMeans
  <1> HIDE DEF b
  <1>4. CASE b = 0
    <2>1. r.heap = g /\ r.at = 0
      BY <1>2, <1>4
    <2> QED
      BY <1>1, <2>1
  <1>5. CASE b # 0
    <2>1. r.heap = a /\ r.at = b
      BY <1>2, <1>5
    <2>2. /\ Sound(u, b) /\ b \in Loose(u) /\ Loose(u) = Loose(g) \cup {b} /\ b \notin Loose(g)
          /\ u.blk = g.blk /\ LastOf(u, b)
          /\ u.quick = g.quick /\ u.pages = g.pages /\ u.fault = g.fault
          /\ Keeps(Loose(g), g, 0, u, b)
      BY <1>1, <1>3, <1>5, TakenIs
    <2> HIDE DEF u
    <2>3. size <= u.blk[b].size
      <3>1. b \in Starts(g) /\ IsHeap(g) /\ Tiled(g)
        BY <1>1, <1>3, <1>5, SoundMeans DEF ListsOK, Mains
      <3>2. g.blk[b].size \in Nat
        BY <3>1, BlocksAre
      <3> QED
        BY <1>3, <1>5, <2>2, <3>2
    <2>4. /\ Sound(a, 0) /\ Loose(a) = Loose(u) /\ a.blk[b].size >= size
          /\ \A c \in Loose(u) \ {b} : a.blk[c] = u.blk[c]
          /\ a.quick = u.quick /\ a.pages = u.pages /\ a.fault \in {u.fault, "wild"}
          /\ Keeps(Loose(u) \ {b}, u, b, a, b)
      BY <2>2, <2>3, AllocateIs
    <2> HIDE DEF a
    <2>5. \A c \in Loose(h) : c \in Loose(u) \ {b}
      BY <1>1, <2>2
    <2>6. \A c \in Loose(h) : a.blk[c] = h.blk[c]
      BY <1>1, <2>2, <2>4, <2>5
    <2>7. b \notin Loose(h) /\ Loose(a) = Loose(h) \cup {b}
      BY <1>1, <2>2, <2>4
    <2>8. a.pages \in 1..MaxPages /\ a.fault \in {h.fault, "wild"}
      BY <1>1, <2>2, <2>4
    <2>9. Keeps(Loose(h), h, 0, a, b)
      <3>1. Loose(u) \ {b} = Loose(h) /\ Loose(g) = Loose(h)
        BY <1>1, <2>2
      <3>2. Keeps(Loose(h), g, 0, u, b) /\ Keeps(Loose(h), u, b, a, b)
        BY <2>2, <2>4, <3>1
      <3>3. Keeps(Loose(h), h, 0, u, b)
        BY <1>1, <3>2, KeepsThen
      <3> QED
        BY <3>2, <3>3, KeepsThen
    <2> QED
      BY <1>5, <2>1, <2>4, <2>6, <2>7, <2>8, <2>9
  <1> QED
    BY <1>4, <1>5

\* sf_malloc from a quick list.
LEMMA FromQuickIs ==
    ASSUME NEW h, Sound(h, 0), NEW size \in Nat, size >= MinLines, IsQuick(size),
           h.quick[QuickClass(size)] # <<>>, NEW r, r = FromQuick(h, size)
    PROVE  /\ Sound(r.heap, 0) /\ r.heap.pages = h.pages
           /\ r.heap.fault \in {h.fault, "wild"}
           /\ \A c \in Loose(h) : r.heap.blk[c] = h.blk[c]
           /\ r.at # 0 /\ r.at \notin Loose(h) /\ Loose(r.heap) = Loose(h) \cup {r.at}
           /\ r.heap.blk[r.at].size >= size
           /\ Keeps(Loose(h), h, 0, r.heap, r.at)
  <1> DEFINE q == QuickClass(size)
             s == h.quick[q]
             test(e) == h.blk[e].size >= size
             k == SelectInSeq(s, test)
             b == s[1]
             u == [h EXCEPT !.quick[q] = SubSeq(@, 2, Len(@))]
             a == Allocate(u, b, size)
  <1>1. /\ IsHeap(h) /\ Tiled(h) /\ ListsOK(h) /\ h.last \in Starts(h) /\ 0 \notin Starts(h)
        /\ \A c \in Starts(h) : (h.blk[c].alloc \/ c \in Mains(h)) /\ LastOf(h, c)
    BY SoundMeans
  <1>2. q \in 1..NQuick
    BY DEF IsQuick, QuickClass
  <1>3. IsList(s) /\ s # <<>>
    BY <1>1, <1>2 DEF IsHeap
  <1>4. Len(s) \in Nat /\ Len(s) # 0 /\ 1 \in 1..Len(s)
    <2>1. s \in Seq(Nat) /\ Len(s) \in Nat
      BY <1>3, ListElements
    <2>2. Len(s) # 0
      BY <1>3, <2>1, EmptySeq
    <2> QED
      BY <2>1, <2>2
  <1>5. \A e \in ToSet(s) : /\ e \in Starts(h) /\ h.blk[e].size = size
                            /\ h.blk[e].foot /\ h.blk[e].alloc
    <2>1. \A e \in ToSet(s) : /\ e \in Starts(h) /\ QuickClass(h.blk[e].size) = q
                              /\ h.blk[e].foot /\ h.blk[e].alloc
      BY <1>1, <1>2 DEF ListsOK
    <2>2. \A e \in Starts(h) : h.blk[e].size \in Nat
      BY <1>1, BlocksAre
    <2> QED
      BY <2>1, <2>2 DEF QuickClass
  <1>6. k = 1
    <2> DEFINE I == {i \in 1..Len(s) : test(s[i])}
    <2>1. 1 \in I
      <3>1. s[1] \in ToSet(s)
        BY <1>3, <1>4, ListElements
      <3> QED
        BY <1>4, <1>5, <3>1
    <2>2. I \subseteq 1..Len(s)
      OBVIOUS
    <2>3. k = Min(I)
      BY <2>1 DEF SelectInSeq
    <2> HIDE DEF I
    <2>4. I \subseteq Nat
      BY <1>4, <2>2
    <2>5. Min(I) \in I /\ Min(I) <= 1
      BY <2>1, <2>4, LeastIs
    <2> QED
      BY <1>4, <2>2, <2>3, <2>5
  <1>7. r = [heap |-> a, at |-> b]
    <2>1. r = [heap |-> Allocate([h EXCEPT !.quick[q] = SubSeq(@, k + 1, Len(@))], s[k], size),
               at |-> s[k]]
      BY DEF FromQuick
    <2>2. k + 1 = 2
      BY <1>6
    <2> HIDE DEF k
    <2> QED
      BY <1>6, <2>1, <2>2
  <1>8. /\ DOMAIN u = Fields /\ u.blk = h.blk /\ u.main = h.main /\ u.last = h.last
        /\ u.pages = h.pages /\ u.fault = h.fault /\ DOMAIN u.quick = 1..NQuick
        /\ u.quick[q] = SubSeq(s, 2, Len(s))
        /\ \A i \in 1..NQuick : i # q => u.quick[i] = h.quick[i]
    BY <1>1, <1>2 DEF IsHeap, Fields
  <1>9. /\ IsList(u.quick[q]) /\ Len(u.quick[q]) = Len(s) - 1 /\ ToSet(u.quick[q]) = ToSet(s) \ {b}
    BY <1>3, <1>8, RestIs
  <1>10. b \in ToSet(s)
    BY <1>3, <1>4, ListElements
  <1> HIDE DEF u
  <1>11. IsHeap(u)
    BY <1>1, <1>8, <1>9 DEF IsHeap, Starts
  <1>12. /\ Starts(u) = Starts(h) /\ End(u) = End(h) /\ Mains(u) = Mains(h)
         /\ \A c : Nxt(u, c) = Nxt(h, c) /\ (LastOf(u, c) <=> LastOf(h, c))
    BY <1>8 DEF Starts, End, Mains, Nxt, LastOf
  <1>13. b \in Quicks(h) /\ b \in Starts(h) /\ b \notin Mains(h)
    <2>1. b \in Quicks(h)
      BY <1>2, <1>10 DEF Quicks
    <2> QED
      BY <1>1, <1>5, <1>10, <2>1 DEF ListsOK, Mains
  <1>14. \A i \in 1..NQuick : i # q => b \notin ToSet(h.quick[i])
    <2>1. QuickClass(h.blk[b].size) = q
      BY <1>5, <1>10
    <2> QED
      BY <1>1, <2>1 DEF ListsOK
  <1>15. \A i \in 1..NQuick : ToSet(u.quick[i]) = ToSet(h.quick[i]) \ {b}
    BY <1>8, <1>9, <1>14
  <1>16. Quicks(u) = Quicks(h) \ {b}
    <2>1. \A c : c \in Quicks(u) <=> \E i \in 1..NQuick : c \in ToSet(u.quick[i])
      BY DEF Quicks
    <2>2. \A c : c \in Quicks(h) <=> \E i \in 1..NQuick : c \in ToSet(h.quick[i])
      BY DEF Quicks
    <2> HIDE DEF b, q, s
    <2>3. \A i \in 1..NQuick : \A c : c \in ToSet(u.quick[i]) <=> c \in ToSet(h.quick[i]) /\ c # b
      BY <1>15
    <2>4. \A c : c \in Quicks(u) <=> c \in Quicks(h) /\ c # b
      BY <2>1, <2>2, <2>3, Zenon
    <2> QED
      BY <2>4
  <1>17. Tiled(u)
    BY <1>1, <1>8, <1>12 DEF Tiled
  <1>18. ListsOK(u)
    <2>1. \A i \in 1..NQuick : Len(u.quick[i]) <= QuickMax
      <3>1. \A i \in 1..NQuick : Len(h.quick[i]) <= QuickMax
        BY <1>1 DEF ListsOK
      <3>2. Len(s) - 1 <= QuickMax
        BY <1>2, <1>4, <3>1, SfmmAssumption
      <3> QED
        BY <1>8, <1>9, <3>1, <3>2
    <2>2. ASSUME NEW i \in 1..NQuick, NEW c \in ToSet(u.quick[i])
          PROVE  /\ c \in Starts(u) /\ QuickClass(u.blk[c].size) = i
                 /\ u.blk[c].foot /\ u.blk[c].alloc
      BY <1>1, <1>8, <1>12, <1>15, <2>2 DEF ListsOK
    <2>3. ASSUME NEW i \in 1..NMain, NEW c \in ToSet(u.main[i])
          PROVE  /\ c \in Starts(u) \ Quicks(u)
                 /\ MainClass(u.blk[c].size) = i /\ u.blk[c].foot
      BY <1>1, <1>8, <1>12, <1>16, <2>3 DEF ListsOK
    <2> QED
      BY <2>1, <2>2, <2>3 DEF ListsOK
  <1>19. Sound(u, b) /\ LastOf(u, b)
    BY <1>1, <1>8, <1>11, <1>12, <1>13, <1>17, <1>18 DEF Sound
  <1>20. b \in Loose(u) /\ Loose(u) = Loose(h) \cup {b} /\ b \notin Loose(h)
    BY <1>12, <1>13, <1>16 DEF Loose
  <1>21. size <= u.blk[b].size
    BY <1>5, <1>8, <1>10
  <1>22. /\ Sound(a, 0) /\ Loose(a) = Loose(u) /\ a.blk[b].size >= size
         /\ \A c \in Loose(u) \ {b} : a.blk[c] = u.blk[c]
         /\ a.quick = u.quick /\ a.pages = u.pages /\ a.fault \in {u.fault, "wild"}
         /\ Keeps(Loose(u) \ {b}, u, b, a, b)
    BY <1>19, <1>20, <1>21, AllocateIs
  <1> HIDE DEF a, b
  <1>23. \A c \in Loose(h) : a.blk[c] = h.blk[c]
    BY <1>8, <1>20, <1>22
  <1>24. b # 0
    BY <1>1, <1>13
  <1>25. r.heap = a /\ r.at = b
    BY <1>7
  <1>26. Keeps(Loose(h), h, 0, a, b)
    <2>1. Keeps(Loose(h), h, 0, u, b)
      <3>1. Bare(u) = Bare(h) /\ 0 \notin Bare(h)
        BY <1>1, <1>8, <1>12 DEF Bare
      <3> QED
        BY <1>8, <1>12, <3>1 DEF Keeps, Explained
    <2>2. Loose(u) \ {b} = Loose(h)
      BY <1>20
    <2>3. Keeps(Loose(h), u, b, a, b)
      BY <1>22, <2>2
    <2> QED
      BY <2>1, <2>3, KeepsThen
  <1> QED
    BY <1>8, <1>20, <1>22, <1>23, <1>24, <1>25, <1>26

\* There is no heap yet, or one that is sound.
Ready(h) == h = NoHeap \/ (Sound(h, 0) /\ h.pages \in 1..MaxPages)

\* sf_malloc hands out a block that was on a list, large enough, or none.
LEMMA MallocIs ==
    ASSUME NEW h, Ready(h), NEW n \in Nat, NEW r, r = sf_malloc(h, n)
    PROVE  /\ Sound(r.heap, 0) /\ r.heap.pages \in 1..MaxPages
           /\ \A c \in Loose(h) : r.heap.blk[c] = h.blk[c]
           /\ r.at = 0 => Loose(r.heap) = Loose(h)
           /\ r.at # 0 => /\ r.at \notin Loose(h) /\ Loose(r.heap) = Loose(h) \cup {r.at}
                          /\ r.heap.blk[r.at].size >= BlockLines(n)
           /\ Keeps(Loose(h), h, 0, r.heap, r.at)
  <1> DEFINE g == IF h.pages = 0 THEN FirstPage(h) ELSE h
             size == BlockLines(n)
  <1>1. /\ Sound(g, 0) /\ g.pages \in 1..MaxPages /\ Loose(g) = Loose(h)
        /\ \A c \in Loose(h) : g.blk[c] = h.blk[c]
        /\ Keeps(Loose(h), h, 0, g, 0)
    <2>1. CASE h = NoHeap
      <3>1. Loose(h) = {} /\ h.pages = 0 /\ h.fault = "none"
        BY <2>1 DEF NoHeap, Loose, Starts
      <3>2. g = FirstPage(NoHeap)
        BY <2>1, <3>1
      <3>3. Sound(g, 0) /\ Loose(g) = {} /\ g.pages = 1 /\ Explained(g, {}, 0, {"none"})
        BY <3>2, FirstPageIs
      <3>4. Keeps(Loose(h), h, 0, g, 0)
        BY <3>1, <3>3 DEF Keeps, Explained
      <3> QED
        BY <3>1, <3>3, <3>4, SfmmAssumption
    <2>2. CASE h # NoHeap
      <3>1. Sound(h, 0) /\ h.pages \in 1..MaxPages
        BY <2>2 DEF Ready
      <3>2. g = h
        BY <3>1, SfmmAssumption
      <3>3. Keeps(Loose(h), h, 0, g, 0)
        BY <3>2 DEF Keeps
      <3> QED
        BY <3>1, <3>2, <3>3
    <2> QED
      BY <2>1, <2>2
  <1>2. r = IF IsQuick(size) /\ g.quick[QuickClass(size)] # <<>>
            THEN FromQuick(g, size) ELSE FromMain(g, size)
    BY DEF sf_malloc
  <1>3. size \in Nat /\ size >= MinLines
    BY BlockLinesIs
  <1> HIDE DEF g, size
  <1>4. CASE IsQuick(size) /\ g.quick[QuickClass(size)] # <<>>
    <2>1. r = FromQuick(g, size)
      BY <1>2, <1>4
    <2>2. /\ Sound(r.heap, 0) /\ r.heap.pages = g.pages
          /\ \A c \in Loose(g) : r.heap.blk[c] = g.blk[c]
          /\ r.at # 0 /\ r.at \notin Loose(g) /\ Loose(r.heap) = Loose(g) \cup {r.at}
          /\ r.heap.blk[r.at].size >= size
          /\ Keeps(Loose(g), g, 0, r.heap, r.at)
      BY <1>1, <1>3, <1>4, <2>1, FromQuickIs
    <2>3. Keeps(Loose(h), h, 0, r.heap, r.at)
      BY <1>1, <2>2, KeepsThen
    <2> QED
      BY <1>1, <2>2, <2>3 DEF size
  <1>5. CASE ~(IsQuick(size) /\ g.quick[QuickClass(size)] # <<>>)
    <2>1. r = FromMain(g, size)
      BY <1>2, <1>5
    <2>2. /\ Sound(r.heap, 0) /\ r.heap.pages \in 1..MaxPages
          /\ \A c \in Loose(g) : r.heap.blk[c] = g.blk[c]
          /\ r.at = 0 => Loose(r.heap) = Loose(g)
          /\ r.at # 0 => /\ r.at \notin Loose(g) /\ Loose(r.heap) = Loose(g) \cup {r.at}
                         /\ r.heap.blk[r.at].size >= size
          /\ Keeps(Loose(g), g, 0, r.heap, r.at)
      BY <1>1, <1>3, <2>1, FromMainIs
    <2>3. Keeps(Loose(h), h, 0, r.heap, r.at)
      BY <1>1, <2>2, KeepsThen
    <2> QED
      BY <1>1, <2>2, <2>3 DEF size
  <1> QED
    BY <1>4, <1>5
-------------------------------------------------------------------------------
\* The header of one block is written.
WithHeader(h, b, w)  == [h EXCEPT !.blk = [@ EXCEPT ![b] = w]]
Marked(h, b, x)      == [h EXCEPT !.blk[b].alloc = x, !.blk[b].foot = TRUE]
MarkedNext(h, b, x)  == [h EXCEPT !.blk[b].prv = x, !.blk[b].foot = TRUE]
Cleared(h, b)        == [h EXCEPT !.blk[b].prv = FALSE]

\* Nothing but that header changes.
LEMMA HeaderIs ==
    ASSUME NEW h, IsHeap(h), NEW b \in Starts(h), NEW w \in Words, NEW g,
           g = WithHeader(h, b, w)
    PROVE  /\ IsHeap(g) /\ SameLists(g, h) /\ g.last = h.last /\ g.pages = h.pages
           /\ g.fault = h.fault /\ Starts(g) = Starts(h) /\ g.blk[b] = w
           /\ \A c \in Starts(h) \ {b} : g.blk[c] = h.blk[c]
  <1>1. /\ DOMAIN g = Fields /\ g.main = h.main /\ g.quick = h.quick /\ g.last = h.last
        /\ g.pages = h.pages /\ g.fault = h.fault
        /\ g.blk = [h.blk EXCEPT ![b] = w]
    BY DEF IsHeap, Fields, WithHeader
  <1>2. /\ Starts(g) = Starts(h) /\ g.blk[b] = w
        /\ \A c \in Starts(h) \ {b} : g.blk[c] = h.blk[c]
    BY <1>1 DEF Starts
  <1>3. IsHeap(g)
    BY <1>1, <1>2 DEF IsHeap
  <1> QED
    BY <1>1, <1>2, <1>3 DEF SameLists

\* What sf_free writes: alloc and footer of the block, prv and footer of the next one.
LEMMA MarkIs ==
    ASSUME NEW h, IsHeap(h), NEW b \in Starts(h), NEW x \in BOOLEAN, NEW g,
           g = Marked(h, b, x)
    PROVE  /\ IsHeap(g) /\ SameLists(g, h) /\ g.last = h.last /\ g.pages = h.pages
           /\ g.fault = h.fault /\ Starts(g) = Starts(h)
           /\ g.blk[b].size = h.blk[b].size /\ g.blk[b].alloc = x
           /\ g.blk[b].prv = h.blk[b].prv /\ g.blk[b].foot
           /\ \A c \in Starts(h) \ {b} : g.blk[c] = h.blk[c]
  <1> DEFINE w == [[h.blk[b] EXCEPT !.alloc = x] EXCEPT !.foot = TRUE]
  <1>1. DOMAIN h = Fields /\ h.blk[b] \in Words
    BY DEF IsHeap
  <1>2. ASSUME NEW v \in Words, NEW u, u = [[v EXCEPT !.alloc = x] EXCEPT !.foot = TRUE]
        PROVE  u \in Words /\ u.size = v.size /\ u.alloc = x /\ u.prv = v.prv /\ u.foot
    BY <1>2 DEF Words
  <1>3. w \in Words /\ w.size = h.blk[b].size /\ w.alloc = x /\ w.prv = h.blk[b].prv /\ w.foot
    BY <1>1, <1>2
  <1>4. g = WithHeader(h, b, w)
    BY <1>1 DEF Fields, Starts, WithHeader, Marked, MarkedNext, Cleared
  <1> HIDE DEF w
  <1> QED
    BY <1>3, <1>4, HeaderIs

LEMMA MarkNextIs ==
    ASSUME NEW h, IsHeap(h), NEW b \in Starts(h), NEW x \in BOOLEAN, NEW g,
           g = MarkedNext(h, b, x)
    PROVE  /\ IsHeap(g) /\ SameLists(g, h) /\ g.last = h.last /\ g.pages = h.pages
           /\ g.fault = h.fault /\ Starts(g) = Starts(h)
           /\ g.blk[b].size = h.blk[b].size /\ g.blk[b].alloc = h.blk[b].alloc
           /\ g.blk[b].prv = x /\ g.blk[b].foot
           /\ \A c \in Starts(h) \ {b} : g.blk[c] = h.blk[c]
  <1> DEFINE w == [[h.blk[b] EXCEPT !.prv = x] EXCEPT !.foot = TRUE]
  <1>1. DOMAIN h = Fields /\ h.blk[b] \in Words
    BY DEF IsHeap
  <1>2. ASSUME NEW v \in Words, NEW u, u = [[v EXCEPT !.prv = x] EXCEPT !.foot = TRUE]
        PROVE  u \in Words /\ u.size = v.size /\ u.alloc = v.alloc /\ u.prv = x /\ u.foot
    BY <1>2 DEF Words
  <1>3. w \in Words /\ w.size = h.blk[b].size /\ w.alloc = h.blk[b].alloc /\ w.prv = x /\ w.foot
    BY <1>1, <1>2
  <1>4. g = WithHeader(h, b, w)
    BY <1>1 DEF Fields, Starts, WithHeader, Marked, MarkedNext, Cleared
  <1> HIDE DEF w
  <1> QED
    BY <1>3, <1>4, HeaderIs

LEMMA ClearPrvIs ==
    ASSUME NEW h, IsHeap(h), NEW b \in Starts(h), NEW g, g = Cleared(h, b)
    PROVE  /\ IsHeap(g) /\ SameLists(g, h) /\ g.last = h.last /\ g.pages = h.pages
           /\ g.fault = h.fault /\ Starts(g) = Starts(h)
           /\ g.blk[b].size = h.blk[b].size /\ g.blk[b].alloc = h.blk[b].alloc
           /\ ~g.blk[b].prv /\ g.blk[b].foot = h.blk[b].foot
           /\ \A c \in Starts(h) \ {b} : g.blk[c] = h.blk[c]
  <1> DEFINE w == [h.blk[b] EXCEPT !.prv = FALSE]
  <1>1. DOMAIN h = Fields /\ h.blk[b] \in Words
    BY DEF IsHeap
  <1>2. ASSUME NEW v \in Words, NEW u, u = [v EXCEPT !.prv = FALSE]
        PROVE  u \in Words /\ u.size = v.size /\ u.alloc = v.alloc /\ ~u.prv /\ u.foot = v.foot
    BY <1>2 DEF Words
  <1>3. /\ w \in Words /\ w.size = h.blk[b].size /\ w.alloc = h.blk[b].alloc
        /\ ~w.prv /\ w.foot = h.blk[b].foot
    BY <1>1, <1>2
  <1>4. g = WithHeader(h, b, w)
    BY <1>1 DEF Fields, Starts, WithHeader, Marked, MarkedNext, Cleared
  <1> HIDE DEF w
  <1> QED
    BY <1>3, <1>4, HeaderIs

\* All that sf_free writes into the headers of b and the block behind it.
Marks(h, b, x, y) ==
    LET g == Marked(h, b, x)
    IN  IF HasNext(g, b) THEN MarkedNext(g, Nxt(g, b), y) ELSE g

LEMMA MarksAre ==
    ASSUME NEW h, IsHeap(h), Tiled(h), NEW b \in Starts(h), NEW x \in BOOLEAN, NEW y \in BOOLEAN,
           NEW k, k = Marks(h, b, x, y)
    PROVE  /\ SameBits(k, h, b) /\ k.fault = h.fault
           /\ k.blk[b].alloc = x /\ k.blk[b].foot /\ k.blk[b].prv = h.blk[b].prv
           /\ \A c \in Starts(h) : k.blk[c].prv = IF c = Nxt(h, b) THEN y ELSE h.blk[c].prv
           /\ \A c \in Starts(h) : h.blk[c].foot => k.blk[c].foot
  <1> DEFINE g == Marked(h, b, x)
  <1>0. k = IF HasNext(g, b) THEN MarkedNext(g, Nxt(g, b), y) ELSE g
    BY DEF Marks
  <1>1. /\ IsHeap(g) /\ SameLists(g, h) /\ g.last = h.last /\ g.pages = h.pages
        /\ g.fault = h.fault /\ Starts(g) = Starts(h)
        /\ g.blk[b].size = h.blk[b].size /\ g.blk[b].alloc = x
        /\ g.blk[b].prv = h.blk[b].prv /\ g.blk[b].foot
        /\ \A c \in Starts(h) \ {b} : g.blk[c] = h.blk[c]
    BY MarkIs
  <1> HIDE DEF g
  <1>2. Nxt(g, b) = Nxt(h, b) /\ (HasNext(g, b) <=> HasNext(h, b))
    BY <1>1 DEF Nxt, HasNext, End
  <1>3. /\ HasNext(h, b) <=> Nxt(h, b) \in Starts(h)
        /\ Nxt(h, b) # b /\ Nxt(h, b) > 1
    BY BlocksAre
  <1>4. 1 \in Starts(h) /\ h.blk[1].prv
    BY DEF Tiled
  <1>5. \A c \in Starts(h) : h.blk[c].prv \in BOOLEAN
    BY BlocksAre
  <1>6. CASE HasNext(h, b)
    <2> DEFINE n == Nxt(h, b)
    <2>1. k = MarkedNext(g, n, y) /\ n \in Starts(g)
      BY <1>0, <1>1, <1>2, <1>3, <1>6
    <2> HIDE DEF n
    <2>2. /\ IsHeap(k) /\ SameLists(k, g) /\ k.last = g.last /\ k.pages = g.pages
          /\ k.fault = g.fault /\ Starts(k) = Starts(g)
          /\ k.blk[n].size = g.blk[n].size /\ k.blk[n].alloc = g.blk[n].alloc
          /\ k.blk[n].prv = y /\ k.blk[n].foot
          /\ \A c \in Starts(g) \ {n} : k.blk[c] = g.blk[c]
      <3>1. IsHeap(g) /\ n \in Starts(g) /\ k = MarkedNext(g, n, y)
        BY <1>1, <2>1
      <3> QED
        BY <3>1, MarkNextIs
    <2>3. n # b /\ n # 1 /\ n = Nxt(h, b)
      BY <1>3 DEF n
    <2>4. ASSUME NEW c \in Starts(h)
          PROVE  /\ k.blk[c].size = h.blk[c].size
                 /\ c # b => k.blk[c].alloc = h.blk[c].alloc
                 /\ h.blk[c].foot => k.blk[c].foot
                 /\ k.blk[c].prv = IF c = n THEN y ELSE h.blk[c].prv
      BY <1>1, <2>2, <2>3
    <2>5. k.blk[1].prv
      BY <1>4, <2>3, <2>4
    <2>6. SameBits(k, h, b)
      BY <1>1, <2>2, <2>4, <2>5 DEF SameBits, SameLists
    <2> QED
      BY <1>1, <2>2, <2>3, <2>4, <2>6
  <1>7. CASE ~HasNext(h, b)
    <2>1. k = g
      BY <1>0, <1>2, <1>7
    <2>2. ASSUME NEW c \in Starts(h)
          PROVE  /\ k.blk[c].size = h.blk[c].size
                 /\ c # b => k.blk[c].alloc = h.blk[c].alloc
                 /\ h.blk[c].foot => k.blk[c].foot
                 /\ k.blk[c].prv = h.blk[c].prv /\ c # Nxt(h, b)
      BY <1>1, <1>3, <1>7, <2>1
    <2>3. k.blk[1].prv
      BY <1>4, <2>2
    <2>4. SameBits(k, h, b)
      BY <1>1, <2>1, <2>2, <2>3 DEF SameBits
    <2> QED
      BY <1>1, <2>1, <2>2, <2>4
  <1> QED
    BY <1>6, <1>7

\* Two writes to a quick list.
Pushed(h, q, b) == [h EXCEPT !.quick[q] = <<b>> \o @]
Emptied(h, q)   == [h EXCEPT !.quick[q] = <<>>]

\* A freed block goes to the front of its quick list.
LEMMA PushQuickIs ==
    ASSUME NEW h, Sound(h, 0), NEW b \in Loose(h), h.blk[b].foot, NEW q \in 1..NQuick,
           q = QuickClass(h.blk[b].size), Len(h.quick[q]) < QuickMax,
           NEW g, g = Pushed(h, q, b)
    PROVE  /\ Sound(g, 0) /\ Loose(g) = Loose(h) \ {b} /\ g.blk = h.blk /\ g.pages = h.pages
           /\ g.fault = h.fault /\ \A L : Keeps(L, h, 0, g, 0)
  <1>1. /\ IsHeap(h) /\ Tiled(h) /\ ListsOK(h) /\ h.last \in Starts(h)
        /\ \A c \in Starts(h) : (h.blk[c].alloc \/ c \in Mains(h)) /\ LastOf(h, c)
    BY SoundMeans
  <1>2. b \in Starts(h) /\ b \notin Mains(h) /\ b \notin Quicks(h) /\ b \in Nat
    BY <1>1, BlocksAre DEF Loose
  <1>3. /\ DOMAIN g = Fields /\ g.blk = h.blk /\ g.main = h.main /\ g.last = h.last
        /\ g.pages = h.pages /\ g.fault = h.fault /\ DOMAIN g.quick = 1..NQuick
        /\ \A i \in 1..NQuick : i # q => g.quick[i] = h.quick[i]
    BY <1>1 DEF IsHeap, Fields, Pushed, Emptied
  <1>3a. g.quick[q] = <<b>> \o h.quick[q]
    BY <1>1 DEF IsHeap, Fields, Pushed
  <1>4. IsList(h.quick[q]) /\ b \notin ToSet(h.quick[q])
    BY <1>1, <1>2 DEF IsHeap, Quicks
  <1>5. /\ IsList(g.quick[q]) /\ Len(g.quick[q]) = Len(h.quick[q]) + 1
        /\ ToSet(g.quick[q]) = ToSet(h.quick[q]) \cup {b}
    <2>1. b \in Nat \ ToSet(h.quick[q])
      BY <1>2, <1>4
    <2> QED
      BY <1>3a, <1>4, <2>1, ConsIs
  <1>6. IsHeap(g)
    BY <1>1, <1>3, <1>5 DEF IsHeap, Starts
  <1>7. /\ Starts(g) = Starts(h) /\ End(g) = End(h) /\ Mains(g) = Mains(h)
        /\ \A c : Nxt(g, c) = Nxt(h, c) /\ (LastOf(g, c) <=> LastOf(h, c))
    BY <1>3 DEF Starts, End, Mains, Nxt, LastOf
  <1>8. \A c : c \in Quicks(g) <=> c \in Quicks(h) \/ c = b
    <2>1. \A c : c \in Quicks(g) <=> \E i \in 1..NQuick : c \in ToSet(g.quick[i])
      BY DEF Quicks
    <2>2. \A c : c \in Quicks(h) <=> \E i \in 1..NQuick : c \in ToSet(h.quick[i])
      BY DEF Quicks
    <2>3. \A i \in 1..NQuick : \A c : c \in ToSet(g.quick[i]) <=> c \in ToSet(h.quick[i]) \/ (c = b /\ i = q)
      <3>1. ASSUME NEW i \in 1..NQuick, NEW c
            PROVE  c \in ToSet(g.quick[i]) <=> c \in ToSet(h.quick[i]) \/ (c = b /\ i = q)
        <4>1. CASE i = q
          BY <1>5, <4>1
        <4>2. CASE i # q
          BY <1>3, <4>2
        <4> QED
          BY <4>1, <4>2
      <3> QED
        BY <3>1
    <2> QED
      BY <2>1, <2>2, <2>3
  <1>9. Tiled(g)
    <2>1. g.blk = h.blk
      BY <1>3
    <2> QED
      BY <1>1, <1>7, <2>1 DEF Tiled
  <1>10. ListsOK(g)
    <2>1. \A i \in 1..NQuick : Len(g.quick[i]) <= QuickMax
      <3>1. Len(h.quick[q]) + 1 <= QuickMax
        BY <1>4, ListElements, SfmmAssumption
      <3> QED
        BY <1>1, <1>3, <1>5, <3>1 DEF ListsOK
    <2>2. ASSUME NEW i \in 1..NQuick, NEW c \in ToSet(g.quick[i])
          PROVE  /\ c \in Starts(g) /\ QuickClass(g.blk[c].size) = i
                 /\ g.blk[c].foot /\ g.blk[c].alloc
      <3>1. CASE c = b /\ i = q
        BY <1>1, <1>2, <1>3, <1>7, <3>1
      <3>2. CASE ~(c = b /\ i = q)
        <4>1. c \in ToSet(h.quick[i])
          <5>1. CASE i = q
            BY <1>5, <2>2, <3>2, <5>1
          <5>2. CASE i # q
            BY <1>3, <2>2, <5>2
          <5> QED
            BY <5>1, <5>2
        <4> QED
          BY <1>1, <1>3, <1>7, <4>1 DEF ListsOK
      <3> QED
        BY <3>1, <3>2
    <2>3. ASSUME NEW i \in 1..NMain, NEW c \in ToSet(g.main[i])
          PROVE  /\ c \in Starts(g) \ Quicks(g)
                 /\ MainClass(g.blk[c].size) = i /\ g.blk[c].foot
      <3>1. c \in ToSet(h.main[i]) /\ c # b
        BY <1>2, <1>3, <2>3 DEF Mains
      <3> QED
        BY <1>1, <1>3, <1>7, <1>8, <3>1 DEF ListsOK
    <2> QED
      BY <2>1, <2>2, <2>3 DEF ListsOK
  <1>11. Sound(g, 0)
    BY <1>1, <1>3, <1>6, <1>7, <1>9, <1>10 DEF Sound
  <1>12. Loose(g) = Loose(h) \ {b}
    BY <1>7, <1>8 DEF Loose
  <1>13. \A L : Keeps(L, h, 0, g, 0)
    BY <1>3, <1>7, KeepsSame
  <1> QED
    BY <1>3, <1>11, <1>12, <1>13

\* A quick list is emptied: its blocks are loose.
LEMMA EmptyQuickIs ==
    ASSUME NEW h, Sound(h, 0), NEW q \in 1..NQuick,
           NEW g, g = Emptied(h, q)
    PROVE  /\ Sound(g, 0) /\ Loose(g) = Loose(h) \cup ToSet(h.quick[q])
           /\ ToSet(h.quick[q]) \cap Loose(h) = {} /\ IsList(h.quick[q])
           /\ \A e \in ToSet(h.quick[q]) : g.blk[e].foot
           /\ g.blk = h.blk /\ g.pages = h.pages /\ g.fault = h.fault
           /\ DOMAIN g.quick = 1..NQuick /\ g.quick[q] = <<>>
           /\ \A i \in 1..NQuick : i # q => g.quick[i] = h.quick[i]
           /\ \A L : Keeps(L, h, 0, g, 0)
  <1>1. /\ IsHeap(h) /\ Tiled(h) /\ ListsOK(h) /\ h.last \in Starts(h)
        /\ \A c \in Starts(h) : (h.blk[c].alloc \/ c \in Mains(h)) /\ LastOf(h, c)
    BY SoundMeans
  <1>2. /\ DOMAIN g = Fields /\ g.blk = h.blk /\ g.main = h.main /\ g.last = h.last
        /\ g.pages = h.pages /\ g.fault = h.fault /\ DOMAIN g.quick = 1..NQuick
        /\ \A i \in 1..NQuick : i # q => g.quick[i] = h.quick[i]
    BY <1>1 DEF IsHeap, Fields, Pushed, Emptied
  <1>2a. g.quick[q] = <<>>
    BY <1>1 DEF IsHeap, Fields, Emptied
  <1>3. IsList(g.quick[q]) /\ Len(g.quick[q]) = 0 /\ ToSet(g.quick[q]) = {}
    BY <1>2a, ListsOfOne
  <1>4. IsHeap(g)
    BY <1>1, <1>2, <1>3 DEF IsHeap, Starts
  <1>5. /\ Starts(g) = Starts(h) /\ End(g) = End(h) /\ Mains(g) = Mains(h)
        /\ \A c : Nxt(g, c) = Nxt(h, c) /\ (LastOf(g, c) <=> LastOf(h, c))
    BY <1>2 DEF Starts, End, Mains, Nxt, LastOf
  <1>6. \A c \in ToSet(h.quick[q]) :
           /\ c \in Starts(h) /\ QuickClass(h.blk[c].size) = q /\ h.blk[c].foot /\ h.blk[c].alloc
           /\ c \in Quicks(h) /\ c \notin Mains(h)
    <2>1. \A c \in ToSet(h.quick[q]) :
             /\ c \in Starts(h) /\ QuickClass(h.blk[c].size) = q /\ h.blk[c].foot /\ h.blk[c].alloc
      BY <1>1 DEF ListsOK
    <2>2. \A c \in ToSet(h.quick[q]) : c \in Quicks(h)
      BY DEF Quicks
    <2>3. \A c \in Mains(h) : c \notin Quicks(h)
      BY <1>1 DEF ListsOK, Mains
    <2> QED
      BY <2>1, <2>2, <2>3
  <1>7. \A c : c \in Quicks(g) <=> c \in Quicks(h) /\ c \notin ToSet(h.quick[q])
    <2>1. \A c : c \in Quicks(g) <=> \E i \in 1..NQuick : c \in ToSet(g.quick[i])
      BY DEF Quicks
    <2>2. \A c : c \in Quicks(h) <=> \E i \in 1..NQuick : c \in ToSet(h.quick[i])
      BY DEF Quicks
    <2>3. \A i \in 1..NQuick : i # q => \A c \in ToSet(h.quick[i]) : c \notin ToSet(h.quick[q])
      <3>1. \A i \in 1..NQuick : \A c \in ToSet(h.quick[i]) : QuickClass(h.blk[c].size) = i
        BY <1>1 DEF ListsOK
      <3> QED
        BY <3>1
    <2> QED
      BY <1>2, <1>3, <2>1, <2>2, <2>3
  <1>8. Tiled(g)
    BY <1>1, <1>2, <1>5 DEF Tiled
  <1>9. ListsOK(g)
    <2>1. \A i \in 1..NQuick : Len(g.quick[i]) <= QuickMax
      BY <1>1, <1>2, <1>3, SfmmAssumption DEF ListsOK
    <2>2. ASSUME NEW i \in 1..NQuick, NEW c \in ToSet(g.quick[i])
          PROVE  /\ c \in Starts(g) /\ QuickClass(g.blk[c].size) = i
                 /\ g.blk[c].foot /\ g.blk[c].alloc
      <3>1. c \in ToSet(h.quick[i])
        BY <1>2, <1>3, <2>2
      <3> QED
        BY <1>1, <1>2, <1>5, <3>1 DEF ListsOK
    <2>3. ASSUME NEW i \in 1..NMain, NEW c \in ToSet(g.main[i])
          PROVE  /\ c \in Starts(g) \ Quicks(g)
                 /\ MainClass(g.blk[c].size) = i /\ g.blk[c].foot
      BY <1>1, <1>2, <1>5, <1>7, <2>3 DEF ListsOK
    <2> QED
      BY <2>1, <2>2, <2>3 DEF ListsOK
  <1>10. Sound(g, 0)
    BY <1>1, <1>2, <1>4, <1>5, <1>8, <1>9 DEF Sound
  <1>11. Loose(g) = Loose(h) \cup ToSet(h.quick[q])
    BY <1>5, <1>6, <1>7 DEF Loose
  <1>12. ToSet(h.quick[q]) \cap Loose(h) = {}
    BY <1>6 DEF Loose
  <1>13. IsList(h.quick[q])
    BY <1>1 DEF IsHeap
  <1>14. \A L : Keeps(L, h, 0, g, 0)
    BY <1>2, <1>5, KeepsSame
  <1> QED
    BY <1>2, <1>2a, <1>6, <1>10, <1>11, <1>12, <1>13, <1>14

\* A prv bit is written, and only the block in hand is followed by it.
LEMMA KeepsPrv ==
    ASSUME NEW h, IsHeap(h), Tiled(h), NEW b \in Starts(h), b \notin Mains(h), NEW k,
           Starts(k) = Starts(h), Mains(k) = Mains(h), k.fault = h.fault,
           \A c \in Starts(h) : k.blk[c].size = h.blk[c].size,
           \A c \in Starts(h) \ {Nxt(h, b)} : k.blk[c].prv = h.blk[c].prv,
           NEW L, b \notin L
    PROVE  /\ Keeps(L, h, b, k, b)
           /\ b \notin Bare(k) => Keeps(L, h, b, k, 0)
  <1>1. \A c \in Starts(h) : Nxt(k, c) = Nxt(h, c)
    BY DEF Nxt
  <1>2. \A c \in Starts(h) \ {b} : c \in Bare(k) <=> c \in Bare(h)
    <2>1. ASSUME NEW c \in Starts(h) \ {b}, Nxt(h, c) \in Starts(h)
          PROVE  k.blk[Nxt(h, c)].prv = h.blk[Nxt(h, c)].prv
      BY <2>1, EndsOnce
    <2> QED
      BY <1>1, <2>1 DEF Bare
  <1>3. Bare(k) \subseteq Starts(h) /\ Bare(h) \subseteq Starts(h)
    BY DEF Bare
  <1> QED
    BY <1>2, <1>3 DEF Keeps, Explained

\* What sf_free writes behind the block is such a bit.
LEMMA KeepsMarks ==
    ASSUME NEW h, IsHeap(h), Tiled(h), NEW b \in Starts(h), b \notin Mains(h),
           NEW x \in BOOLEAN, NEW y \in BOOLEAN, NEW k, k = Marks(h, b, x, y),
           NEW L, b \notin L
    PROVE  Keeps(L, h, b, k, b) /\ (y => Keeps(L, h, b, k, 0))
  <1>1. /\ SameBits(k, h, b) /\ k.fault = h.fault
        /\ \A c \in Starts(h) : k.blk[c].prv = IF c = Nxt(h, b) THEN y ELSE h.blk[c].prv
    BY MarksAre
  <1>2. /\ Starts(k) = Starts(h) /\ Mains(k) = Mains(h) /\ k.fault = h.fault
        /\ \A c \in Starts(h) : k.blk[c].size = h.blk[c].size
        /\ \A c \in Starts(h) \ {Nxt(h, b)} : k.blk[c].prv = h.blk[c].prv
    BY <1>1 DEF SameBits, SameLists, Mains
  <1>3. y => b \notin Bare(k)
    BY <1>1, <1>2 DEF Bare, Nxt
  <1> QED
    BY <1>2, <1>3, KeepsPrv

\* sf_free of a block for the quick lists, with the flush of a full one.
LEMMA FreeQuickIs ==
    ASSUME NEW h, Sound(h, 0), NEW b \in Loose(h), IsQuick(h.blk[b].size),
           NEW r, r = FreeQuick(h, b)
    PROVE  /\ Sound(r, 0) /\ Loose(r) = Loose(h) \ {b} /\ r.pages = h.pages
           /\ \A c \in Loose(h) \ {b} : r.blk[c].size = h.blk[c].size
           /\ Keeps(Loose(h) \ {b}, h, b, r, 0)
  <1> DEFINE q == QuickClass(h.blk[b].size)
             v == CopyFooter(h, b)
             k == Marks(v, b, TRUE, TRUE)
             e == Emptied(k, q)
             f == flush_list(e, k.quick[q])
  <1>1. /\ IsHeap(h) /\ Tiled(h) /\ ListsOK(h)
        /\ \A c \in Starts(h) : h.blk[c].alloc \/ c \in Mains(h)
    BY SoundMeans
  <1>2. b \in Starts(h) /\ h.blk[b].alloc
    BY <1>1 DEF Loose
  <1>3. q \in 1..NQuick
    BY DEF IsQuick, QuickClass
  <1>4. r = IF Len(k.quick[q]) = QuickMax THEN [f EXCEPT !.quick[q] = <<b>>]
            ELSE Pushed(k, q, b)
    BY DEF FreeQuick, Marks, Marked, MarkedNext, Pushed, Emptied
  <1> HIDE DEF q
  <1> DEFINE K == Loose(h) \ {b}
  <1>4a. Keeps(K, h, b, v, b)
    BY <1>1, <1>2, KeepsFooter
  <1>5. IsHeap(v) /\ SameBlocks(v, h) /\ SameLists(v, h)
    BY <1>1, CopyFooterIs
  <1>6. Sound(v, 0) /\ Loose(v) = Loose(h)
    BY <1>5, SoundSame
  <1> HIDE DEF v
  <1>7. b \in Starts(v) /\ v.blk = h.blk /\ v.pages = h.pages /\ v.quick = h.quick
    BY <1>2, <1>5 DEF SameBlocks, SameLists, Starts
  <1>8. SameBits(k, v, b) /\ k.blk[b].alloc /\ k.blk[b].foot /\ Keeps(K, v, b, k, 0)
    <2>1. IsHeap(v) /\ Tiled(v)
      BY <1>6, SoundMeans
    <2>2. k = Marks(v, b, TRUE, TRUE)
      OBVIOUS
    <2> HIDE DEF k, K
    <2>3. b \in Starts(v) /\ TRUE \in BOOLEAN
      BY <1>7
    <2>4. PICK t : t = TRUE
      OBVIOUS
    <2>5. t \in BOOLEAN /\ k = Marks(v, b, t, t)
      BY <2>2, <2>4
    <2>6. SameBits(k, v, b) /\ k.blk[b].alloc = t /\ k.blk[b].foot
      BY <2>1, <2>3, <2>5, MarksAre
    <2>7. b \notin K
      BY DEF K
    <2>8. b \notin Mains(v)
      BY <1>6 DEF Loose
    <2>9. t => Keeps(K, v, b, k, 0)
      BY <2>1, <2>3, <2>5, <2>7, <2>8, KeepsMarks
    <2> QED
      BY <2>4, <2>6, <2>9
  <1> HIDE DEF k
  <1>8a. Keeps(K, h, b, k, 0)
    BY <1>4a, <1>8, KeepsThen
  <1>9. Sound(k, b) /\ Loose(k) = Loose(h)
    <2>1. Sound(v, b)
      BY <1>6, SoundMeans
    <2>2. b \notin Quicks(v)
      BY <1>6 DEF Loose
    <2> QED
      BY <1>6, <1>8, <2>1, <2>2, SameBitsIs
  <1>10. Sound(k, 0)
    <2>1. LastOf(v, b)
      BY <1>6, <1>7, SoundMeans
    <2>2. LastOf(k, b)
      <3>1. Sound(v, b) /\ b \notin Quicks(v)
        BY <1>6, SoundMeans DEF Loose
      <3> QED
        BY <1>7, <1>8, <2>1, <3>1, SameBitsIs
    <2> QED
      BY <1>8, <1>9, <2>2, AllSound
  <1>11. /\ k.pages = h.pages /\ k.quick = h.quick
         /\ \A c \in Starts(h) : k.blk[c].size = h.blk[c].size
    <2>1. Starts(v) = Starts(h)
      BY <1>7 DEF Starts
    <2> QED
      BY <1>7, <1>8, <2>1 DEF SameBits, SameLists
  <1>12. b \in Loose(k) /\ q = QuickClass(k.blk[b].size)
    BY <1>2, <1>9, <1>11 DEF q
  <1>13. CASE Len(k.quick[q]) # QuickMax
    <2>1. r = Pushed(k, q, b)
      BY <1>4, <1>13
    <2>2. Len(k.quick[q]) < QuickMax
      <3>1. ListsOK(k) /\ IsHeap(k)
        BY <1>10, SoundMeans
      <3>2. IsList(k.quick[q]) /\ Len(k.quick[q]) <= QuickMax
        BY <1>3, <3>1 DEF ListsOK, IsHeap
      <3>3. Len(k.quick[q]) \in Nat /\ QuickMax \in Nat
        BY <3>2, ListElements, SfmmAssumption
      <3> QED
        BY <1>13, <3>2, <3>3
    <2>3. /\ Sound(r, 0) /\ Loose(r) = Loose(k) \ {b} /\ r.blk = k.blk /\ r.pages = k.pages
          /\ \A L : Keeps(L, k, 0, r, 0)
      <3>1. k.blk[b].foot
        BY <1>8
      <3> HIDE DEF K
      <3> QED
        BY <1>3, <1>10, <1>12, <2>1, <2>2, <3>1, PushQuickIs
    <2>4. Keeps(K, h, b, r, 0)
      BY <1>8a, <2>3, KeepsThen
    <2> QED
      BY <1>9, <1>11, <2>3, <2>4 DEF Loose
  <1>14. CASE Len(k.quick[q]) = QuickMax
    <2>1. r = [f EXCEPT !.quick[q] = <<b>>]
      BY <1>4, <1>14
    <2>2. /\ Sound(e, 0) /\ Loose(e) = Loose(k) \cup ToSet(k.quick[q])
          /\ ToSet(k.quick[q]) \cap Loose(k) = {} /\ IsList(k.quick[q])
          /\ \A x \in ToSet(k.quick[q]) : e.blk[x].foot
          /\ e.blk = k.blk /\ e.pages = k.pages
          /\ DOMAIN e.quick = 1..NQuick /\ e.quick[q] = <<>>
          /\ Keeps(K, k, 0, e, 0)
      BY <1>3, <1>10, EmptyQuickIs
    <2> HIDE DEF e
    <2>3. /\ Sound(f, 0) /\ Loose(f) = Loose(e) \ ToSet(k.quick[q])
          /\ \A c \in Loose(f) : f.blk[c] = e.blk[c]
          /\ f.quick = e.quick /\ f.pages = e.pages
          /\ Keeps(Loose(e) \ ToSet(k.quick[q]), e, 0, f, 0)
      <3>1. Sound(e, 0) /\ IsList(k.quick[q]) /\ ToSet(k.quick[q]) \subseteq Loose(e)
            /\ \A x \in ToSet(k.quick[q]) : e.blk[x].foot
        BY <2>2
      <3> QED
        BY <3>1, FlushIs
    <2> HIDE DEF f
    <2>4. Loose(f) = Loose(k) /\ b \in Loose(f)
      BY <1>12, <2>2, <2>3
    <2>5. f.blk[b].foot /\ q = QuickClass(f.blk[b].size)
      BY <1>8, <1>12, <2>2, <2>3, <2>4
    <2>6. Len(f.quick[q]) < QuickMax /\ f.quick[q] = <<>>
      BY <2>2, <2>3, ListsOfOne, SfmmAssumption
    <2>7. <<b>> \o <<>> = <<b>>
      <3>1. <<b>> \in Seq({b})
        OBVIOUS
      <3> QED
        BY <3>1, ConcatEmptySeq
    <2>8. r = Pushed(f, q, b)
      <3>1. DOMAIN f = Fields
        BY <2>3, SoundMeans DEF IsHeap
      <3> QED
        BY <1>3, <2>1, <2>2, <2>3, <2>6, <2>7, <3>1 DEF Fields, Pushed
    <2>9. /\ Sound(r, 0) /\ Loose(r) = Loose(f) \ {b} /\ r.blk = f.blk /\ r.pages = f.pages
          /\ Keeps(K, f, 0, r, 0)
      BY <1>3, <2>3, <2>4, <2>5, <2>6, <2>8, PushQuickIs
    <2>10. \A c \in Loose(h) \ {b} : r.blk[c].size = h.blk[c].size
      BY <1>9, <1>11, <2>2, <2>3, <2>4, <2>9 DEF Loose
    <2>11. Keeps(K, e, 0, f, 0)
      <3>1. K \subseteq Loose(e) \ ToSet(k.quick[q])
        BY <1>9, <2>2
      <3> QED
        BY <2>3, <3>1, KeepsLess
    <2>12. Keeps(K, h, b, f, 0)
      <3>1. Keeps(K, h, b, e, 0)
        BY <1>8a, <2>2, KeepsThen
      <3> QED
        BY <2>11, <3>1, KeepsThen
    <2>13. Keeps(K, h, b, r, 0)
      BY <2>9, <2>12, KeepsThen
    <2> QED
      BY <1>9, <1>11, <2>2, <2>3, <2>4, <2>9, <2>10, <2>13
  <1> QED
    BY <1>13, <1>14

\* sf_free of a block for the main lists.
LEMMA FreeMainIs ==
    ASSUME NEW h, Sound(h, 0), NEW b \in Loose(h), NEW r, r = FreeMain(h, b)
    PROVE  /\ Sound(r, 0) /\ Loose(r) = Loose(h) \ {b} /\ r.pages = h.pages
           /\ \A c \in Loose(h) \ {b} : r.blk[c].size = h.blk[c].size
           /\ Keeps(Loose(h) \ {b}, h, b, r, 0)
  <1> DEFINE k == Marks(h, b, FALSE, FALSE)
             co == Coalesce(k, b)
             n == Nxt(co.heap, co.at)
             t == IF HasNext(co.heap, co.at) THEN Cleared(co.heap, n) ELSE co.heap
  <1>1. IsHeap(h) /\ Tiled(h) /\ ListsOK(h) /\ b \in Starts(h)
    BY SoundMeans DEF Loose
  <1>2. r = AddMain(t, co.at)
    BY DEF FreeMain, Marks, Marked, MarkedNext, Cleared
  <1>3. k = Marks(h, b, FALSE, FALSE) /\ co = Coalesce(k, b)
    OBVIOUS
  <1> HIDE DEF k, co
  <1> DEFINE K == Loose(h) \ {b}
  <1>3a. b \notin K /\ b \notin Mains(h) /\ b \in Loose(h)
    BY DEF Loose
  <1> HIDE DEF K
  <1>4. SameBits(k, h, b) /\ k.blk[b].foot /\ Keeps(K, h, b, k, b)
    <2>1. PICK x : x = FALSE
      OBVIOUS
    <2>2. x \in BOOLEAN /\ k = Marks(h, b, x, x)
      BY <1>3, <2>1
    <2>3. Keeps(K, h, b, k, b)
      BY <1>1, <1>3a, <2>2, KeepsMarks
    <2> QED
      BY <1>1, <2>2, <2>3, MarksAre
  <1>5. /\ Sound(k, b) /\ Loose(k) = Loose(h) /\ LastOf(k, b)
        /\ \A c \in Loose(h) : k.blk[c].size = h.blk[c].size
        /\ k.pages = h.pages
    <2>1. Sound(h, b) /\ b \notin Quicks(h) /\ LastOf(h, b)
      BY <1>1, SoundMeans DEF Loose
    <2>2. /\ Sound(k, b) /\ Loose(k) = Loose(h)
          /\ \A c \in Starts(h) : LastOf(k, c) <=> LastOf(h, c)
      BY <1>4, <2>1, SameBitsIs
    <2>3. /\ \A c \in Starts(h) : k.blk[c].size = h.blk[c].size
          /\ k.pages = h.pages
      BY <1>4 DEF SameBits
    <2> QED
      BY <1>1, <2>1, <2>2, <2>3 DEF Loose
  <1>6. /\ Sound(co.heap, co.at) /\ co.at \in Loose(co.heap)
        /\ Loose(co.heap) = (Loose(h) \ {b}) \cup {co.at} /\ co.at \notin Loose(h) \ {b}
        /\ \A c \in Loose(h) \ {b} : co.heap.blk[c] = k.blk[c]
        /\ co.heap.pages = k.pages /\ LastOf(co.heap, co.at) /\ co.heap.blk[co.at].foot
        /\ Keeps(K, k, b, co.heap, co.at)
    <2>1. b \in Loose(k)
      BY <1>5
    <2>2. /\ Sound(co.heap, co.at) /\ co.at \in Loose(co.heap)
          /\ Loose(co.heap) = (Loose(k) \ {b}) \cup {co.at} /\ co.at \notin Loose(k) \ {b}
          /\ \A c \in Loose(k) \ {b} : co.heap.blk[c] = k.blk[c]
          /\ co.heap.pages = k.pages
          /\ LastOf(k, b) => LastOf(co.heap, co.at)
          /\ k.blk[b].foot => co.heap.blk[co.at].foot
      <3>1. Sound(k, b) /\ b \in Loose(k) /\ co = Coalesce(k, b)
        BY <1>3, <1>5, <2>1
      <3> QED
        BY <3>1, CoalesceIs
    <2>3. Keeps(K, k, b, co.heap, co.at)
      <3>1. K \subseteq Loose(k) \ {b}
        BY <1>5 DEF K
      <3> QED
        BY <1>3, <1>5, <2>1, <3>1, KeepsCoalesce
    <2> QED
      BY <1>4, <1>5, <2>2, <2>3
  <1> DEFINE g == co.heap
             a == co.at
  <1>7. /\ IsHeap(g) /\ Tiled(g) /\ a \in Starts(g) /\ a \notin Quicks(g)
        /\ a \notin Mains(g) /\ a \notin K
    BY <1>6 DEF Sound, Loose, K
  <1>8. /\ SameBits(t, g, a) /\ t.blk[a].foot
        /\ \A c \in Starts(g) : t.blk[c].size = g.blk[c].size
        /\ t.pages = g.pages /\ Keeps(K, g, a, t, a)
    <2>1. CASE HasNext(g, a)
      <3>1. t = Cleared(g, n) /\ n \in Starts(g) /\ n # a /\ n # 1
        BY <1>7, <2>1, BlocksAre
      <3> HIDE DEF t, n
      <3>2. /\ IsHeap(t) /\ SameLists(t, g) /\ t.last = g.last /\ t.pages = g.pages
            /\ t.fault = g.fault /\ Starts(t) = Starts(g)
            /\ t.blk[n].size = g.blk[n].size /\ t.blk[n].alloc = g.blk[n].alloc
            /\ t.blk[n].foot = g.blk[n].foot
            /\ \A c \in Starts(g) \ {n} : t.blk[c] = g.blk[c]
        <4>1. IsHeap(g) /\ n \in Starts(g) /\ t = Cleared(g, n)
          BY <1>7, <3>1
        <4> HIDE DEF g
        <4> QED
          BY <4>1, ClearPrvIs
      <3>3. \A c \in Starts(g) : /\ t.blk[c].size = g.blk[c].size
                                 /\ t.blk[c].alloc = g.blk[c].alloc
                                 /\ t.blk[c].foot = g.blk[c].foot
        BY <3>2
      <3>4. t.blk[1].prv
        BY <1>7, <3>1, <3>2 DEF Tiled
      <3>5. Keeps(K, g, a, t, a)
        <4>1. /\ Starts(t) = Starts(g) /\ Mains(t) = Mains(g) /\ t.fault = g.fault
              /\ \A c \in Starts(g) : t.blk[c].size = g.blk[c].size
              /\ \A c \in Starts(g) \ {Nxt(g, a)} : t.blk[c].prv = g.blk[c].prv
          BY <3>2, <3>3 DEF n, SameLists, Mains
        <4> HIDE DEF g, a
        <4> QED
          BY <1>7, <4>1, KeepsPrv
      <3> QED
        BY <1>6, <1>7, <3>2, <3>3, <3>4, <3>5 DEF SameBits
    <2>2. CASE ~HasNext(g, a)
      <3>1. t = g
        BY <2>2
      <3>2. Keeps(K, g, a, t, a)
        BY <3>1 DEF Keeps
      <3> QED
        BY <1>6, <1>7, <3>1, <3>2 DEF SameBits, SameLists, Tiled
    <2> QED
      BY <2>1, <2>2
  <1> HIDE DEF t, n
  <1>9. Sound(t, a) /\ Loose(t) = Loose(g) /\ LastOf(t, a)
    BY <1>6, <1>7, <1>8, SameBitsIs
  <1>10. a \in Loose(t)
    BY <1>6, <1>9
  <1>10a. Keeps(K, t, a, r, 0)
    <2>1. K \subseteq Loose(t) \ {a}
      BY <1>6, <1>7, <1>9 DEF K
    <2> QED
      BY <1>2, <1>8, <1>9, <1>10, <2>1, KeepsAddMain
  <1>10b. Keeps(K, h, b, r, 0)
    <2>1. Keeps(K, h, b, g, a)
      BY <1>4, <1>6, KeepsThen
    <2>2. Keeps(K, h, b, t, a)
      <3> HIDE DEF g, a
      <3> QED
        BY <1>8, <2>1, KeepsThen
    <2> QED
      BY <1>10a, <2>2, KeepsThen
  <1>11. /\ Sound(r, 0) /\ Loose(r) = Loose(t) \ {a} /\ SameBlocks(r, t)
    BY <1>2, <1>8, <1>9, <1>10, AddMainIs
  <1>12. Loose(r) = Loose(h) \ {b}
    BY <1>6, <1>9, <1>11
  <1>13. \A c \in Loose(h) \ {b} : r.blk[c].size = h.blk[c].size
    <2>1. \A c \in Loose(h) \ {b} : c \in Starts(g)
      BY <1>6 DEF Loose
    <2> QED
      BY <1>5, <1>6, <1>8, <1>11, <2>1 DEF SameBlocks
  <1> QED
    BY <1>5, <1>6, <1>8, <1>10b, <1>11, <1>12, <1>13 DEF SameBlocks, K

\* sf_free takes the block from the loose ones, and no other.
LEMMA FreeIs ==
    ASSUME NEW h, Sound(h, 0), NEW b \in Loose(h), NEW r, r = sf_free(h, b)
    PROVE  /\ Sound(r, 0) /\ Loose(r) = Loose(h) \ {b} /\ r.pages = h.pages
           /\ \A c \in Loose(h) \ {b} : r.blk[c].size = h.blk[c].size
           /\ Keeps(Loose(h) \ {b}, h, b, r, 0)
  <1>1. Valid(h, b)
    <2>1. /\ IsHeap(h) /\ Tiled(h) /\ b \in Starts(h) /\ b \notin Mains(h)
          /\ h.blk[b].alloc \/ b \in Mains(h)
      BY SoundMeans DEF Loose
    <2> QED
      BY <2>1, BlocksAre DEF Valid
  <1>2. r = IF IsQuick(h.blk[b].size) THEN FreeQuick(h, b) ELSE FreeMain(h, b)
    BY <1>1 DEF sf_free
  <1>3. CASE IsQuick(h.blk[b].size)
    <2>1. r = FreeQuick(h, b)
      BY <1>2, <1>3
    <2> QED
      BY <1>3, <2>1, FreeQuickIs
  <1>4. CASE ~IsQuick(h.blk[b].size)
    <2>1. r = FreeMain(h, b)
      BY <1>2, <1>4
    <2> QED
      BY <2>1, FreeMainIs
  <1> QED
    BY <1>3, <1>4

\* A call that starts without a fault: what is bare in the end was asked for,
\* and a fault is one of a block that is.
Follows(h, r) ==
    /\ Explained(h, Loose(h), 0, {"none", "wild"}) => Explained(r, Loose(r), 0, {"none", "wild"})
    /\ Explained(h, {}, 0, {"none"}) => Explained(r, Loose(r), 0, {"none"})

\* An operator that keeps what it should, from a call's start to its end.
LEMMA FollowsIs ==
    ASSUME NEW h, Ready(h), NEW r, Sound(r, 0), NEW K, NEW x, NEW y, Keeps(K, h, x, r, y),
           K \subseteq Loose(h), Loose(h) \subseteq K \cup {x},
           K \subseteq Loose(r), y \in Loose(r) \cup {0}
    PROVE  Follows(h, r)
  <1>1. /\ 0 \notin Bare(h) /\ 0 \notin Bare(r)
        /\ h.fault \in {"none", "wild"} /\ r.fault \in {"none", "wild"}
    <2>1. \A g : Sound(g, 0) => 0 \notin Bare(g) /\ g.fault \in {"none", "wild"}
      BY SoundMeans DEF Bare, IsHeap
    <2>2. Starts(NoHeap) = {} /\ NoHeap.fault = "none"
      BY DEF NoHeap, Starts
    <2> QED
      BY <2>1, <2>2 DEF Ready, Bare
  <1>2. ASSUME Explained(h, Loose(h), 0, {"none", "wild"})
        PROVE  Explained(r, Loose(r), 0, {"none", "wild"})
    <2>1. Explained(h, K, x, {"none", "wild"})
      BY <1>1, <1>2 DEF Explained
    <2>2. Explained(r, K, y, {"none", "wild"})
      BY <2>1 DEF Keeps
    <2> QED
      BY <1>1, <2>2 DEF Explained
  <1>3. ASSUME Explained(h, {}, 0, {"none"})
        PROVE  Explained(r, Loose(r), 0, {"none"})
    <2>1. Explained(h, {}, x, {"none"})
      BY <1>1, <1>3 DEF Explained
    <2>2. Explained(r, {}, y, {"none"})
      BY <2>1 DEF Keeps
    <2> QED
      BY <1>1, <2>2 DEF Explained
  <1> QED
    BY <1>2, <1>3 DEF Follows

\* While a block moves, the old one and the new one at b are both held.
Between(h, n, b) ==
    \E m : /\ Sound(m, 0) /\ m.pages \in 1..MaxPages
           /\ b \notin Loose(h) /\ Loose(m) = Loose(h) \cup {b}
           /\ \A c \in Loose(h) : m.blk[c].size = h.blk[c].size
           /\ m.blk[b].size >= BlockLines(n)

\* sf_realloc leaves the block, cuts it, or moves it.
LEMMA ReallocIs ==
    ASSUME NEW h, Sound(h, 0), h.pages \in 1..MaxPages, NEW b \in Loose(h), NEW n \in Nat,
           NEW r, r = sf_realloc(h, b, n)
    PROVE  /\ Sound(r.heap, 0) /\ r.heap.pages \in 1..MaxPages
           /\ \A c \in Loose(h) \ {b} : r.heap.blk[c].size = h.blk[c].size
           /\ r.at = 0 => /\ Loose(r.heap) = Loose(h)
                          /\ r.heap.blk[b].size = h.blk[b].size
           /\ r.at # 0 => /\ r.at \notin Loose(h) \ {b}
                          /\ Loose(r.heap) = (Loose(h) \ {b}) \cup {r.at}
                          /\ r.heap.blk[r.at].size >= BlockLines(n)
           /\ r.at \notin {0, b} => Between(h, n, r.at)
           /\ Follows(h, r.heap)
  <1> DEFINE size == BlockLines(n)
             m == sf_malloc(h, n)
             Post(x) ==
               /\ Sound(x.heap, 0) /\ x.heap.pages \in 1..MaxPages
               /\ \A c \in Loose(h) \ {b} : x.heap.blk[c].size = h.blk[c].size
               /\ x.at = 0 => /\ Loose(x.heap) = Loose(h)
                              /\ x.heap.blk[b].size = h.blk[b].size
               /\ x.at # 0 => /\ x.at \notin Loose(h) \ {b}
                              /\ Loose(x.heap) = (Loose(h) \ {b}) \cup {x.at}
                              /\ x.heap.blk[x.at].size >= size
               /\ x.at \notin {0, b} => Between(h, n, x.at)
               /\ Follows(h, x.heap)
  <1>1. /\ IsHeap(h) /\ Tiled(h) /\ b \in Starts(h) /\ b \notin Mains(h) /\ h.blk[b].alloc
        /\ b \in Nat /\ b # 0 /\ h.blk[b].size \in Nat /\ Sound(h, b) /\ LastOf(h, b)
    BY SoundMeans, BlocksAre DEF Loose
  <1>2. Valid(h, b)
    BY <1>1, BlocksAre DEF Valid
  <1>3. size \in Nat /\ size >= MinLines
    BY BlockLinesIs
  <1>4. r = IF ~FooterThere(h, b) THEN [heap |-> Wild(h), at |-> 0]
            ELSE IF size = h.blk[b].size THEN [heap |-> h, at |-> b]
            ELSE IF size < h.blk[b].size THEN [heap |-> Allocate(h, b, size), at |-> b]
            ELSE IF m.at = 0 THEN m
            ELSE [heap |-> sf_free(m.heap, b), at |-> m.at]
    BY <1>2 DEF sf_realloc
  <1>5. size = BlockLines(n) /\ m = sf_malloc(h, n)
    OBVIOUS
  <1> HIDE DEF size, m
  <1>9. CASE ~FooterThere(h, b)
    <2> DEFINE v == CopyFooter(h, b)
    <2>1. r.heap = v /\ r.at = 0 /\ v = Wild(h)
      BY <1>4, <1>9 DEF CopyFooter
    <2>2. IsHeap(v) /\ SameBlocks(v, h) /\ SameLists(v, h)
      BY <1>1, CopyFooterIs
    <2>3. Keeps(Loose(h) \ {b}, h, b, v, b)
      BY <1>1, SoundMeans, KeepsFooter
    <2>4. v.blk = h.blk /\ v.pages = h.pages
      BY <2>1 DEF Wild
    <2> HIDE DEF v
    <2>5. Sound(v, 0) /\ Loose(v) = Loose(h)
      BY <2>2, SoundSame
    <2>6. Follows(h, v)
      <3> DEFINE K == Loose(h) \ {b}
      <3>1. K \subseteq Loose(h) /\ Loose(h) \subseteq K \cup {b} /\ K \subseteq Loose(v)
            /\ b \in Loose(v) \cup {0} /\ Keeps(K, h, b, v, b) /\ Ready(h)
        BY <2>3, <2>5 DEF Ready
      <3> HIDE DEF K
      <3> QED
        BY <2>5, <3>1, FollowsIs
    <2>7. Post(r)
      BY <2>1, <2>4, <2>5, <2>6
    <2> QED
      BY <1>5, <2>7
  <1>6. CASE FooterThere(h, b) /\ size = h.blk[b].size
    <2>1. r.heap = h /\ r.at = b
      BY <1>4, <1>6
    <2>1a. Follows(h, h)
      BY DEF Follows, Explained
    <2>2. Post(r)
      BY <1>1, <1>3, <1>6, <2>1, <2>1a
    <2> QED
      BY <1>5, <2>2
  <1>7. CASE FooterThere(h, b) /\ size < h.blk[b].size
    <2> DEFINE a == Allocate(h, b, size)
    <2>1. r.heap = a /\ r.at = b
      BY <1>1, <1>3, <1>4, <1>7
    <2>2. /\ Sound(a, 0) /\ Loose(a) = Loose(h) /\ a.blk[b].size >= size
          /\ \A c \in Loose(h) \ {b} : a.blk[c] = h.blk[c]
          /\ a.pages = h.pages /\ Keeps(Loose(h) \ {b}, h, b, a, b)
      <3>1. size <= h.blk[b].size
        BY <1>1, <1>3, <1>7
      <3>2. /\ Sound(h, b) /\ b \in Loose(h) /\ LastOf(h, b) /\ a = Allocate(h, b, size)
            /\ size \in Nat /\ size >= MinLines /\ size <= h.blk[b].size
        BY <1>1, <1>3, <3>1
      <3> HIDE DEF a, Post
      <3> QED
        BY <3>2, AllocateIs
    <2> HIDE DEF a
    <2>2a. Follows(h, a)
      <3> DEFINE K == Loose(h) \ {b}
      <3>1. K \subseteq Loose(h) /\ Loose(h) \subseteq K \cup {b} /\ K \subseteq Loose(a)
            /\ b \in Loose(a) \cup {0} /\ Keeps(K, h, b, a, b) /\ Ready(h)
        BY <2>2 DEF Ready
      <3> HIDE DEF K
      <3> QED
        BY <2>2, <3>1, FollowsIs
    <2>3. Post(r)
      BY <1>1, <2>1, <2>2, <2>2a
    <2> QED
      BY <1>5, <2>3
  <1>8. CASE FooterThere(h, b) /\ ~(size = h.blk[b].size) /\ ~(size < h.blk[b].size)
    <2>1. /\ Sound(m.heap, 0) /\ m.heap.pages \in 1..MaxPages
          /\ \A c \in Loose(h) : m.heap.blk[c] = h.blk[c]
          /\ m.at = 0 => Loose(m.heap) = Loose(h)
          /\ m.at # 0 => /\ m.at \notin Loose(h) /\ Loose(m.heap) = Loose(h) \cup {m.at}
                         /\ m.heap.blk[m.at].size >= size
          /\ Keeps(Loose(h), h, 0, m.heap, m.at)
      <3>1. Ready(h)
        BY DEF Ready
      <3> QED
        BY <1>5, <3>1, MallocIs
    <2>1a. Follows(h, m.heap)
      <3>1. m.at \in Loose(m.heap) \cup {0} /\ Loose(h) \subseteq Loose(m.heap)
            /\ Loose(h) \subseteq Loose(h) /\ Loose(h) \subseteq Loose(h) \cup {0} /\ Ready(h)
        BY <2>1 DEF Ready
      <3> QED
        BY <2>1, <3>1, FollowsIs
    <2>2. CASE m.at = 0
      <3>1. r = m
        BY <1>4, <1>8, <2>2
      <3>2. Post(r)
        BY <2>1, <2>1a, <2>2, <3>1
      <3> QED
        BY <1>5, <3>2
    <2>3. CASE m.at # 0
      <3> DEFINE f == sf_free(m.heap, b)
      <3>1. r.heap = f /\ r.at = m.at
        BY <1>4, <1>8, <2>3
      <3>2. b \in Loose(m.heap)
        BY <2>1, <2>3
      <3>3. /\ Sound(f, 0) /\ Loose(f) = Loose(m.heap) \ {b} /\ f.pages = m.heap.pages
            /\ \A c \in Loose(m.heap) \ {b} : f.blk[c].size = m.heap.blk[c].size
            /\ Keeps(Loose(m.heap) \ {b}, m.heap, b, f, 0)
        <4>1. Sound(m.heap, 0) /\ f = sf_free(m.heap, b)
          BY <2>1
        <4> HIDE DEF f, Post
        <4> QED
          BY <3>2, <4>1, FreeIs
      <3> HIDE DEF f
      <3>4. Loose(f) = (Loose(h) \ {b}) \cup {m.at} /\ m.at # b
        BY <2>1, <2>3, <3>3
      <3>5. \A c \in Loose(h) \ {b} : f.blk[c].size = h.blk[c].size
        BY <2>1, <2>3, <3>3
      <3>6. f.blk[m.at].size >= size
        BY <2>1, <2>3, <3>3, <3>4
      <3>7. Between(h, n, m.at)
        BY <1>5, <2>1, <2>3 DEF Between
      <3>7a. Follows(h, f)
        <4> DEFINE K == Loose(m.heap) \ {b}
        <4>1. K \subseteq Loose(m.heap) /\ Loose(m.heap) \subseteq K \cup {b} /\ K \subseteq Loose(f)
              /\ 0 \in Loose(f) \cup {0} /\ Keeps(K, m.heap, b, f, 0)
              /\ Ready(m.heap) /\ Sound(f, 0)
          BY <2>1, <3>3 DEF Ready
        <4>2. m.at \in K /\ m.at \in Loose(f)
          BY <2>1, <2>3, <3>4
        <4> HIDE DEF K
        <4>3. Follows(m.heap, f)
          BY <4>1, FollowsIs
        <4>4. ASSUME Explained(h, {}, 0, {"none"})
              PROVE  Explained(f, Loose(f), 0, {"none"})
          <5>1. Explained(m.heap, {}, m.at, {"none"})
            BY <2>1, <4>4 DEF Keeps
          <5>2. Explained(m.heap, {m.at}, b, {"none"}) /\ {m.at} \subseteq K
            BY <4>2, <5>1 DEF Explained
          <5>3. Explained(f, {m.at}, 0, {"none"})
            BY <4>1, <5>2 DEF Keeps
          <5> QED
            BY <4>2, <5>3 DEF Explained
        <4> QED
          BY <2>1a, <4>3, <4>4 DEF Follows
      <3>8. Post(r)
        BY <2>1, <2>3, <3>1, <3>3, <3>4, <3>5, <3>6, <3>7, <3>7a
      <3> QED
        BY <1>5, <3>8
    <2> QED
      BY <2>2, <2>3
  <1> QED
    BY <1>6, <1>7, <1>8, <1>9

-------------------------------------------------------------------------------
\* The inductive invariant: the heap is sound, and the loose blocks are the
\* client's, each as large as its request.
SfmmInvariant ==
    /\ own \in [Held -> Requests]
    /\ Ready(heap)
    /\ Loose(heap) = Held
    /\ \A b \in Held : heap.blk[b].size >= BlockLines(own[b])

\* Sizes are numbers.
LEMMA RequestsAre == Requests \subseteq Nat
  BY SfmmAssumption

\* Before the first call there are no blocks.
LEMMA NoHeapIs ==
          /\ Starts(NoHeap) = {} /\ Loose(NoHeap) = {} /\ NoHeap.pages = 0 /\ NoHeap.last = 0
          /\ NoHeap.fault = "none" /\ \A i \in 1..NMain : NoHeap.main[i] = <<>>
          /\ \A i \in 1..NQuick : NoHeap.quick[i] = <<>>
  BY DEF NoHeap, Starts, Loose

\* The client begins with no heap.
LEMMA InitHolds == ASSUME Init PROVE SfmmInvariant
  <1>1. heap = NoHeap /\ Held = {} /\ own \in [Held -> Requests]
    BY DEF Init, Held
  <1>2. Ready(heap) /\ Loose(heap) = {}
    BY <1>1, NoHeapIs DEF Ready
  <1> QED
    BY <1>1, <1>2 DEF SfmmInvariant

\* One step for each operation.
LEMMA MallocStep ==
    ASSUME SfmmInvariant, Malloc
    PROVE  SfmmInvariant'
  <1>1. PICK n \in Requests :
           /\ heap' = sf_malloc(heap, n).heap
           /\ own' = IF sf_malloc(heap, n).at = 0 THEN own ELSE Put(own, sf_malloc(heap, n).at, n)
    BY DEF Malloc
  <1>2. n \in Nat
    BY RequestsAre
  <1>3. PICK r : r = sf_malloc(heap, n)
    OBVIOUS
  <1>4. /\ own \in [Held -> Requests] /\ Ready(heap) /\ Loose(heap) = Held
        /\ \A b \in Held : heap.blk[b].size >= BlockLines(own[b])
    BY DEF SfmmInvariant
  <1>5. /\ Sound(r.heap, 0) /\ r.heap.pages \in 1..MaxPages
        /\ \A c \in Held : r.heap.blk[c] = heap.blk[c]
        /\ r.at = 0 => Loose(r.heap) = Held
        /\ r.at # 0 => /\ r.at \notin Held /\ Loose(r.heap) = Held \cup {r.at}
                       /\ r.heap.blk[r.at].size >= BlockLines(n)
    BY <1>2, <1>3, <1>4, MallocIs
  <1>6. heap' = r.heap /\ own' = IF r.at = 0 THEN own ELSE Put(own, r.at, n)
    BY <1>1, <1>3
  <1>7. Held' = DOMAIN own'
    BY DEF Held
  <1>8. Ready(heap')
    BY <1>5, <1>6 DEF Ready
  <1>9. CASE r.at = 0
    <2>1. own' = own /\ Held' = Held
      BY <1>6, <1>9 DEF Held
    <2> QED
      BY <1>4, <1>5, <1>6, <1>8, <1>9, <2>1 DEF SfmmInvariant
  <1>10. CASE r.at # 0
    <2>1. own' = Put(own, r.at, n)
      BY <1>6, <1>10
    <2>2. /\ Held' = Held \cup {r.at} /\ own' \in [Held \cup {r.at} -> Requests]
          /\ own'[r.at] = n /\ \A c \in Held : own'[c] = own[c]
      BY <1>4, <1>5, <1>7, <1>10, <2>1 DEF Put
    <2>3. \A b \in Held' : heap'.blk[b].size >= BlockLines(own'[b])
      BY <1>4, <1>5, <1>6, <1>10, <2>2
    <2>4. Loose(heap') = Held'
      BY <1>5, <1>6, <1>10, <2>2
    <2> QED
      BY <1>8, <2>2, <2>3, <2>4 DEF SfmmInvariant
  <1> QED
    BY <1>9, <1>10

\* If the client holds a block, there is a heap.
LEMMA SomeHeld ==
    ASSUME SfmmInvariant, NEW b \in Held
    PROVE  Sound(heap, 0) /\ heap.pages \in 1..MaxPages /\ b \in Loose(heap)
  BY NoHeapIs DEF SfmmInvariant, Ready

LEMMA FreeStep ==
    ASSUME SfmmInvariant, Free
    PROVE  SfmmInvariant'
  <1>1. PICK b \in Held : heap' = sf_free(heap, b) /\ own' = [c \in Held \ {b} |-> own[c]]
    BY DEF Free
  <1>2. Sound(heap, 0) /\ heap.pages \in 1..MaxPages /\ b \in Loose(heap)
    BY SomeHeld
  <1>3. /\ own \in [Held -> Requests] /\ Loose(heap) = Held
        /\ \A c \in Held : heap.blk[c].size >= BlockLines(own[c])
    BY DEF SfmmInvariant
  <1>4. /\ Sound(heap', 0) /\ Loose(heap') = Loose(heap) \ {b} /\ heap'.pages = heap.pages
        /\ \A c \in Loose(heap) \ {b} : heap'.blk[c].size = heap.blk[c].size
    <2>1. PICK r : r = sf_free(heap, b)
      OBVIOUS
    <2>2. /\ Sound(r, 0) /\ Loose(r) = Loose(heap) \ {b} /\ r.pages = heap.pages
          /\ \A c \in Loose(heap) \ {b} : r.blk[c].size = heap.blk[c].size
      <3> DEFINE K == Loose(heap) \ {b}
      <3>1. Sound(heap, 0) /\ b \in Loose(heap)
        BY <1>2
      <3>2. /\ Sound(r, 0) /\ Loose(r) = K /\ r.pages = heap.pages
            /\ \A c \in K : r.blk[c].size = heap.blk[c].size
            /\ Keeps(K, heap, b, r, 0)
        BY <2>1, <3>1, FreeIs
      <3> QED
        BY <3>2
    <2> QED
      BY <1>1, <2>1, <2>2
  <1>5. /\ Held' = Held \ {b} /\ own' \in [Held \ {b} -> Requests]
        /\ \A c \in Held \ {b} : own'[c] = own[c]
    BY <1>1, <1>3 DEF Held
  <1>6. Ready(heap')
    BY <1>2, <1>4 DEF Ready
  <1> QED
    BY <1>3, <1>4, <1>5, <1>6 DEF SfmmInvariant

LEMMA ReallocStep ==
    ASSUME SfmmInvariant, Realloc
    PROVE  SfmmInvariant'
  <1>1. PICK b \in Held, n \in Requests :
           /\ heap' = sf_realloc(heap, b, n).heap
           /\ own' = IF sf_realloc(heap, b, n).at = 0 THEN own
                     ELSE Put([c \in Held \ {b} |-> own[c]], sf_realloc(heap, b, n).at, n)
    BY DEF Realloc
  <1>2. Sound(heap, 0) /\ heap.pages \in 1..MaxPages /\ b \in Loose(heap) /\ n \in Nat
    BY SomeHeld, RequestsAre
  <1>3. PICK r : r = sf_realloc(heap, b, n)
    OBVIOUS
  <1>4. /\ own \in [Held -> Requests] /\ Loose(heap) = Held
        /\ \A c \in Held : heap.blk[c].size >= BlockLines(own[c])
    BY DEF SfmmInvariant
  <1>5. /\ Sound(r.heap, 0) /\ r.heap.pages \in 1..MaxPages
        /\ \A c \in Held \ {b} : r.heap.blk[c].size = heap.blk[c].size
        /\ r.at = 0 => /\ Loose(r.heap) = Held
                       /\ r.heap.blk[b].size = heap.blk[b].size
        /\ r.at # 0 => /\ r.at \notin Held \ {b}
                       /\ Loose(r.heap) = (Held \ {b}) \cup {r.at}
                       /\ r.heap.blk[r.at].size >= BlockLines(n)
    BY <1>2, <1>3, <1>4, ReallocIs
  <1>6. /\ heap' = r.heap
        /\ own' = IF r.at = 0 THEN own ELSE Put([c \in Held \ {b} |-> own[c]], r.at, n)
    BY <1>1, <1>3
  <1>7. Ready(heap')
    BY <1>5, <1>6 DEF Ready
  <1>8. CASE r.at = 0
    <2>1. own' = own /\ Held' = Held
      BY <1>6, <1>8 DEF Held
    <2> QED
      BY <1>4, <1>5, <1>6, <1>7, <1>8, <2>1 DEF SfmmInvariant
  <1>9. CASE r.at # 0
    <2>1. own' = Put([c \in Held \ {b} |-> own[c]], r.at, n)
      BY <1>6, <1>9
    <2>2. /\ DOMAIN own' = (Held \ {b}) \cup {r.at}
          /\ own' \in [(Held \ {b}) \cup {r.at} -> Requests]
          /\ own'[r.at] = n /\ \A c \in Held \ {b} : own'[c] = own[c]
      BY <1>4, <1>5, <1>9, <2>1 DEF Put
    <2>3. Held' = (Held \ {b}) \cup {r.at}
      BY <2>2 DEF Held
    <2>4. \A c \in Held' : heap'.blk[c].size >= BlockLines(own'[c])
      BY <1>4, <1>5, <1>6, <1>9, <2>2, <2>3
    <2>5. Loose(heap') = Held'
      BY <1>5, <1>6, <1>9, <2>3
    <2> QED
      BY <1>7, <2>2, <2>3, <2>4, <2>5 DEF SfmmInvariant
  <1> QED
    BY <1>8, <1>9

\* The client's write into the last word of a block it holds.
Written(h, b) == [h EXCEPT !.blk[b].foot = FALSE]

LEMMA WriteIs ==
    ASSUME NEW h, Sound(h, 0), NEW b \in Loose(h), NEW g, g = Written(h, b)
    PROVE  /\ Sound(g, 0) /\ Loose(g) = Loose(h) /\ g.pages = h.pages
           /\ \A c \in Loose(h) : g.blk[c].size = h.blk[c].size
           /\ \A L : Keeps(L, h, 0, g, 0)
  <1> DEFINE w == [h.blk[b] EXCEPT !.foot = FALSE]
  <1>1. IsHeap(h) /\ Tiled(h) /\ b \in Starts(h) /\ DOMAIN h = Fields /\ h.blk[b] \in Words
    BY SoundMeans DEF Loose, IsHeap
  <1>2. ASSUME NEW v \in Words, NEW u, u = [v EXCEPT !.foot = FALSE]
        PROVE  u \in Words /\ u.size = v.size /\ u.alloc = v.alloc /\ u.prv = v.prv
    BY <1>2 DEF Words
  <1>3. /\ w \in Words /\ w.size = h.blk[b].size /\ w.alloc = h.blk[b].alloc
        /\ w.prv = h.blk[b].prv
    BY <1>1, <1>2
  <1>4. g = WithHeader(h, b, w)
    BY <1>1 DEF Fields, Starts, WithHeader, Written
  <1> HIDE DEF w
  <1>5. /\ IsHeap(g) /\ SameLists(g, h) /\ g.last = h.last /\ g.pages = h.pages
        /\ g.fault = h.fault /\ Starts(g) = Starts(h) /\ g.blk[b] = w
        /\ \A c \in Starts(h) \ {b} : g.blk[c] = h.blk[c]
    <2>1. IsHeap(h) /\ b \in Starts(h) /\ w \in Words /\ g = WithHeader(h, b, w)
      BY <1>1, <1>3, <1>4
    <2> QED
      BY <2>1, HeaderIs
  <1>6. \A c \in Starts(h) : /\ g.blk[c].size = h.blk[c].size /\ g.blk[c].alloc = h.blk[c].alloc
                             /\ g.blk[c].prv = h.blk[c].prv
                             /\ c # b => g.blk[c].foot = h.blk[c].foot
    BY <1>3, <1>5
  <1>7. g.blk[1].prv
    BY <1>1, <1>6 DEF Tiled
  <1>8. SameBits(g, h, 0)
    BY <1>5, <1>6, <1>7 DEF SameBits
  <1>9. 0 \notin Quicks(h)
    BY SoundMeans DEF Quicks, ListsOK
  <1>10. Sound(g, 0) /\ Loose(g) = Loose(h)
    BY <1>8, <1>9, SameBitsIs
  <1>11. \A L : Keeps(L, h, 0, g, 0)
    <2>1. Mains(g) = Mains(h)
      BY <1>5 DEF SameLists, Mains
    <2> QED
      BY <1>5, <1>6, <2>1, KeepsSame
  <1> QED
    BY <1>5, <1>6, <1>10, <1>11 DEF Loose

LEMMA WriteStep ==
    ASSUME SfmmInvariant, Write
    PROVE  SfmmInvariant'
  <1>1. PICK b \in Held : heap' = Written(heap, b) /\ own' = own
    BY DEF Write, Written
  <1>2. Sound(heap, 0) /\ heap.pages \in 1..MaxPages /\ b \in Loose(heap)
    BY SomeHeld
  <1>3. /\ Sound(heap', 0) /\ Loose(heap') = Loose(heap) /\ heap'.pages = heap.pages
        /\ \A c \in Loose(heap) : heap'.blk[c].size = heap.blk[c].size
    BY <1>1, <1>2, WriteIs
  <1>4. Held' = Held /\ Ready(heap')
    BY <1>1, <1>2, <1>3 DEF Held, Ready
  <1> QED
    BY <1>1, <1>3, <1>4 DEF SfmmInvariant

LEMMA NextHolds ==
    ASSUME SfmmInvariant, [Next]_vars
    PROVE  SfmmInvariant'
  <1>1. CASE UNCHANGED vars
    BY <1>1 DEF SfmmInvariant, vars, Held
  <1> QED
    BY <1>1, MallocStep, FreeStep, ReallocStep, WriteStep DEF Next

\* Whatever the client asks for, releases and writes, the heap stays sound and
\* the blocks on no list are exactly the client's (sfmm.c: sf_malloc, sf_free,
\* sf_realloc).
THEOREM Invariance == Spec => []SfmmInvariant
  <1>1. Init => SfmmInvariant
    BY InitHolds
  <1>2. SfmmInvariant /\ [Next]_vars => SfmmInvariant'
    BY NextHolds
  <1> QED
    BY <1>1, <1>2, PTL DEF Spec

-------------------------------------------------------------------------------
\* The lists as they are numbered in Lists.
LEMMA ListsAre ==
    ASSUME Sound(heap, 0)
    PROVE  /\ DOMAIN Lists = 1..(NMain + NQuick)
           /\ \A i \in DOMAIN Lists : IsList(Lists[i]) /\ ToSet(Lists[i]) \subseteq Starts(heap)
           /\ \A i \in 1..NMain : Lists[i] = heap.main[i]
           /\ \A i \in (NMain + 1)..(NMain + NQuick) :
                 Lists[i] = heap.quick[i - NMain] /\ i - NMain \in 1..NQuick
  <1>1. IsHeap(heap) /\ ListsOK(heap)
    BY SoundMeans
  <1>2. NMain \in Nat /\ NQuick \in Nat
    BY SfmmAssumption DEF NMain
  <1>3. \A i \in 1..(NMain + NQuick) :
           Lists[i] = IF i <= NMain THEN heap.main[i] ELSE heap.quick[i - NMain]
    BY DEF Lists
  <1>4. DOMAIN Lists = 1..(NMain + NQuick)
    BY DEF Lists
  <1>5. \A i \in 1..NMain : Lists[i] = heap.main[i]
    BY <1>2, <1>3
  <1>6. ASSUME NEW i \in (NMain + 1)..(NMain + NQuick)
        PROVE  Lists[i] = heap.quick[i - NMain] /\ i - NMain \in 1..NQuick
    BY <1>2, <1>3
  <1>7. ASSUME NEW i \in DOMAIN Lists
        PROVE  IsList(Lists[i]) /\ ToSet(Lists[i]) \subseteq Starts(heap)
    <2>1. CASE i \in 1..NMain
      BY <1>1, <1>5, <2>1 DEF IsHeap, ListsOK
    <2>2. CASE i \in (NMain + 1)..(NMain + NQuick)
      BY <1>1, <1>6, <2>2 DEF IsHeap, ListsOK
    <2> QED
      BY <1>2, <1>4, <2>1, <2>2
  <1> QED
    BY <1>4, <1>5, <1>6, <1>7

LEMMA TypeHolds == ASSUME SfmmInvariant PROVE TypeOK
  <1>1. /\ own \in [Held -> Requests] /\ Loose(heap) = Held
        /\ Held \subseteq Starts(heap) /\ \A b \in Held : own[b] \in Requests
    BY DEF SfmmInvariant, Loose
  <1>2. MaxPages \in Nat /\ NQuick \in Nat /\ QuickMax \in Nat
    BY SfmmAssumption
  <1>3. CASE heap = NoHeap
    <2>1. Starts(heap) = {} /\ heap.pages = 0 /\ heap.last = 0 /\ heap.fault = "none"
      BY <1>3, NoHeapIs
    <2>2. \A i \in 1..(NMain + NQuick) : Lists[i] = <<>>
      <3>1. NMain \in Nat
        BY DEF NMain
      <3>2. \A i \in 1..(NMain + NQuick) : i <= NMain \/ i - NMain \in 1..NQuick
        BY <1>2, <3>1
      <3>3. \A i \in 1..(NMain + NQuick) :
               Lists[i] = IF i <= NMain THEN heap.main[i] ELSE heap.quick[i - NMain]
        BY DEF Lists
      <3> QED
        BY <1>3, <3>1, <3>2, <3>3, NoHeapIs
    <2>3. \A i \in 1..(NMain + NQuick) : ToSet(Lists[i]) \subseteq DOMAIN heap.blk
      BY <2>2, ListsOfOne
    <2>4. \A i \in 1..NQuick : Len(heap.quick[i]) <= QuickMax
      BY <1>2, <1>3, NoHeapIs, ListsOfOne
    <2> QED
      <3>1. DOMAIN heap.blk = {} /\ Held = {}
        BY <1>1, <2>1 DEF Starts
      <3>2. /\ heap.last \in DOMAIN heap.blk \cup {0} /\ heap.pages \in 0..MaxPages
            /\ heap.fault \in {"none", "wild", "abort"}
        BY <1>2, <2>1
      <3> QED
        BY <2>3, <2>4, <3>1, <3>2 DEF TypeOK
  <1>4. CASE heap # NoHeap
    <2>1. Sound(heap, 0) /\ heap.pages \in 1..MaxPages
      BY <1>4 DEF SfmmInvariant, Ready
    <2>2. /\ IsHeap(heap) /\ Tiled(heap) /\ ListsOK(heap) /\ heap.last \in Starts(heap)
          /\ heap.fault \in {"none", "wild"}
      BY <2>1, SoundMeans DEF IsHeap
    <2>3. \A i \in 1..(NMain + NQuick) : ToSet(Lists[i]) \subseteq DOMAIN heap.blk
      BY <2>1, ListsAre DEF Starts
    <2>4. \A i \in 1..NQuick : Len(heap.quick[i]) <= QuickMax
      BY <2>2 DEF ListsOK
    <2>5. ASSUME NEW b \in Starts(heap)
          PROVE  /\ b \in 1..End(heap)
                 /\ heap.blk[b] \in [size : MinLines..End(heap), alloc : BOOLEAN,
                                     prv : BOOLEAN, foot : BOOLEAN]
      <3>1. /\ b \in Nat /\ b >= 1 /\ b < End(heap) /\ End(heap) \in Nat
            /\ heap.blk[b].size \in Nat /\ heap.blk[b].size >= MinLines
            /\ Nxt(heap, b) = b + heap.blk[b].size /\ Nxt(heap, b) <= End(heap)
        BY <2>2, BlocksAre
      <3>2. heap.blk[b] \in Words
        BY <2>2 DEF IsHeap
      <3>3. heap.blk[b].size \in MinLines..End(heap)
        BY <3>1 DEF MinLines
      <3> QED
        BY <3>1, <3>2, <3>3 DEF Words
    <2> QED
      BY <1>1, <2>1, <2>2, <2>3, <2>4, <2>5 DEF TypeOK, Starts
  <1> QED
    BY <1>3, <1>4

\* The fields of the heap and of the client's table keep their types, and a
\* quick list never grows past QUICK_LIST_MAX (sf_free flushes it first).
THEOREM TypeCorrect == Spec => []TypeOK
  <1>1. SfmmInvariant => TypeOK
    BY TypeHolds
  <1> QED
    BY <1>1, Invariance, PTL

\* Where blocks end is one to one with where blocks begin.
LEMMA TilesHold == ASSUME SfmmInvariant PROVE Tiles
  <1> DEFINE starts == Starts(heap)
             ends == {Nxt(heap, b) : b \in starts}
  <1>1. SUFFICES ASSUME heap.pages > 0
                 PROVE  /\ ends \cup {1} = starts \cup {End(heap)}
                        /\ Cardinality(ends) = Cardinality(starts)
                        /\ \A b \in starts : Nxt(heap, b) = End(heap) => heap.last = b
    BY DEF Tiles, Starts
  <1>2. Sound(heap, 0)
    BY <1>1, NoHeapIs DEF SfmmInvariant, Ready
  <1>3. /\ IsHeap(heap) /\ Tiled(heap) /\ \A b \in starts : LastOf(heap, b)
    BY <1>2, SoundMeans
  <1>4. /\ \A b \in starts : Nxt(heap, b) \in starts \cup {End(heap)} /\ 1 \in starts
        /\ \A b \in (starts \cup {End(heap)}) \ {1} : \E p \in starts : Nxt(heap, p) = b
    BY <1>3 DEF Tiled
  <1>5. ends \cup {1} = starts \cup {End(heap)}
    <2>1. ends \subseteq starts \cup {End(heap)}
      BY <1>4
    <2>2. (starts \cup {End(heap)}) \ {1} \subseteq ends
      BY <1>4
    <2>3. 1 \in starts
      BY <1>3 DEF Tiled
    <2> QED
      BY <2>1, <2>2, <2>3
  <1>6. Cardinality(ends) = Cardinality(starts)
    <2>1. IsFiniteSet(starts)
      <3>1. End(heap) \in Nat /\ \A b \in starts : b \in Nat /\ b <= End(heap)
        BY <1>3, BlocksAre
      <3>2. starts \in SUBSET Nat
        BY <3>1
      <3> QED
        BY <3>1, <3>2, FS_BoundedSetOfNaturals
    <2> DEFINE f == [b \in starts |-> Nxt(heap, b)]
    <2>2. f \in [starts -> ends]
      OBVIOUS
    <2>3. \A b, c \in starts : f[b] = f[c] => b = c
      BY <1>3, EndsOnce
    <2>4. \A t \in ends : \E b \in starts : f[b] = t
      OBVIOUS
    <2> HIDE DEF f, ends
    <2>5. ExistsBijection(starts, ends)
      BY <2>2, <2>3, <2>4
         DEF ExistsBijection, Bijection, Injection, Surjection, IsInjective
    <2> QED
      BY <2>1, <2>5, FS_Bijection
  <1> QED
    BY <1>3, <1>5, <1>6 DEF LastOf

\* Splitting, joining and growing leave no gap and no overlap, and last_bp is
\* the last block: allocate, coalesce and sf_mem_grow's callers in sfmm.c.
THEOREM TilesAlways == Spec => []Tiles
  <1>1. SfmmInvariant => Tiles
    BY TilesHold
  <1> QED
    BY <1>1, Invariance, PTL

\* Where a block is on a list.
LEMMA PlacesAre ==
    ASSUME Sound(heap, 0), NEW b \in Starts(heap)
    PROVE  Cardinality(Places(b)) = IF b \in Loose(heap) THEN 0 ELSE 1
  <1>1. /\ DOMAIN Lists = 1..(NMain + NQuick) /\ NMain \in Nat /\ NQuick \in Nat
        /\ \A i \in DOMAIN Lists : IsList(Lists[i])
        /\ \A i \in 1..NMain : Lists[i] = heap.main[i]
        /\ \A i \in (NMain + 1)..(NMain + NQuick) :
             Lists[i] = heap.quick[i - NMain] /\ i - NMain \in 1..NQuick
    BY ListsAre, SfmmAssumption DEF NMain
  <1>2. ListsOK(heap)
    BY SoundMeans
  <1>3. \A s : s \in Places(b) <=> \E i \in DOMAIN Lists : \E k \in 1..Len(Lists[i]) :
                                      s = <<i, k>> /\ Lists[i][k] = b
    <2>1. \A i \in DOMAIN Lists : DOMAIN Lists[i] = 1..Len(Lists[i])
      BY <1>1, ListElements
    <2> QED
      BY <2>1 DEF Places
  <1>4. \A i \in DOMAIN Lists : b \in ToSet(Lists[i]) <=> \E k \in 1..Len(Lists[i]) : Lists[i][k] = b
    BY <1>1, ListElements
  <1>5. ASSUME NEW i \in DOMAIN Lists, b \in ToSet(Lists[i])
        PROVE  /\ b \notin Loose(heap)
               /\ i = IF b \in Quicks(heap) THEN NMain + QuickClass(heap.blk[b].size)
                      ELSE MainClass(heap.blk[b].size)
    <2>1. CASE i \in 1..NMain
      <3>1. b \in ToSet(heap.main[i]) /\ b \in Mains(heap)
        BY <1>1, <1>5, <2>1 DEF Mains
      <3>2. b \notin Quicks(heap) /\ MainClass(heap.blk[b].size) = i
        BY <1>2, <2>1, <3>1 DEF ListsOK
      <3> QED
        BY <3>1, <3>2 DEF Loose
    <2>2. CASE i \in (NMain + 1)..(NMain + NQuick)
      <3>1. /\ b \in ToSet(heap.quick[i - NMain]) /\ b \in Quicks(heap)
            /\ i - NMain \in 1..NQuick
        BY <1>1, <1>5, <2>2 DEF Quicks
      <3>2. QuickClass(heap.blk[b].size) = i - NMain
        BY <1>2, <3>1 DEF ListsOK
      <3> QED
        BY <1>1, <2>2, <3>1, <3>2 DEF Loose
    <2> QED
      BY <1>1, <2>1, <2>2
  <1>6. CASE b \in Loose(heap)
    <2>1. Places(b) = {}
      BY <1>3, <1>4, <1>5, <1>6
    <2> QED
      BY <1>6, <2>1, FS_EmptySet
  <1>7. CASE b \notin Loose(heap)
    <2>1. \E i \in DOMAIN Lists : b \in ToSet(Lists[i])
      <3>1. CASE b \in Mains(heap)
        BY <1>1, <3>1 DEF Mains
      <3>2. CASE b \in Quicks(heap)
        <4>1. PICK j \in 1..NQuick : b \in ToSet(heap.quick[j])
          BY <3>2 DEF Quicks
        <4>2. NMain + j \in (NMain + 1)..(NMain + NQuick) /\ (NMain + j) - NMain = j
          BY <1>1
        <4>3. NMain + j \in DOMAIN Lists
          BY <1>1, <4>2
        <4> QED
          BY <1>1, <4>1, <4>2, <4>3
      <3> QED
        BY <1>7, <3>1, <3>2 DEF Loose
    <2>2. PICK i \in DOMAIN Lists : b \in ToSet(Lists[i])
      BY <2>1
    <2>3. PICK k \in 1..Len(Lists[i]) : Lists[i][k] = b
      BY <1>4, <2>2
    <2>4. ASSUME NEW j \in DOMAIN Lists, NEW m \in 1..Len(Lists[j]), Lists[j][m] = b
          PROVE  j = i /\ m = k
      <3>1. b \in ToSet(Lists[j])
        BY <1>4, <2>4
      <3>2. j = i
        BY <1>5, <2>2, <3>1
      <3> QED
        BY <1>1, <2>3, <2>4, <3>2 DEF IsList
    <2>5. Places(b) = {<<i, k>>}
      BY <1>3, <2>3, <2>4
    <2> QED
      BY <1>7, <2>5, FS_Singleton
  <1> QED
    BY <1>6, <1>7

\* The invariant's parts, list by list.
LEMMA ListsHold == ASSUME SfmmInvariant PROVE ListsHoldFree
  <1>1. Loose(heap) = Held
    BY DEF SfmmInvariant
  <1>2. CASE heap = NoHeap
    <2>1. Starts(heap) = {}
      BY <1>2, NoHeapIs
    <2>2. Held = {}
      BY <1>1, <2>1 DEF Loose
    <2>3. ToSet(<<>>) = {}
      BY ListsOfOne
    <2>4. /\ \A i \in 1..NMain : ToSet(heap.main[i]) = {}
          /\ \A i \in 1..NQuick : ToSet(heap.quick[i]) = {}
      BY <1>2, <2>3, NoHeapIs
    <2> QED
      BY <2>1, <2>2, <2>4 DEF ListsHoldFree, Starts
  <1>3. CASE heap # NoHeap
    <2>1. Sound(heap, 0)
      BY <1>3 DEF SfmmInvariant, Ready
    <2>2. ListsOK(heap) /\ \A b \in Starts(heap) : heap.blk[b].alloc \/ b \in Mains(heap)
      BY <2>1, SoundMeans
    <2>3. \A b \in DOMAIN heap.blk : Cardinality(Places(b)) = IF b \in Held THEN 0 ELSE 1
      BY <1>1, <2>1, PlacesAre DEF Starts
    <2>4. \A b \in Held : heap.blk[b].alloc
      BY <1>1, <2>2 DEF Loose
    <2> QED
      BY <2>2, <2>3, <2>4 DEF ListsHoldFree, ListsOK
  <1> QED
    BY <1>2, <1>3

\* A block is the client's or on exactly one list, once, the one for its size:
\* no operation of sfmm.c loses a block or links it twice.
THEOREM ListsAlwaysHold == Spec => []ListsHoldFree
  <1>1. SfmmInvariant => ListsHoldFree
    BY ListsHold
  <1> QED
    BY <1>1, Invariance, PTL

-------------------------------------------------------------------------------
\* No request is so large that rounding it up, in size_t, wraps to a small size.
NoWrap == \A n \in Requests : n + 23 < WordMod

\* A block has room for its request and the header of the next block.
LEMMA RoomIs ==
    ASSUME NoWrap, NEW n \in Requests
    PROVE  n \in Nat /\ BlockLines(n) \in Nat /\ n <= 16 * BlockLines(n) - 8
  <1> DEFINE k == (n + 23) \div 16
  <1>1. n \in Nat /\ n + 23 < WordMod /\ WordMod \in Nat
    BY RequestsAre, SfmmAssumption DEF NoWrap
  <1>2. k \in Nat /\ 16 * k <= n + 23 /\ n + 8 <= 16 * k /\ k * 16 = 16 * k
    BY <1>1
  <1>3. BlockLines(n) = IF (k * 16) % WordMod < 32 THEN MinLines ELSE ((k * 16) % WordMod) \div 16
    <2>1. n + 8 + 15 = n + 23
      BY <1>1
    <2> QED
      BY <2>1 DEF BlockLines
  <1> HIDE DEF k
  <1>4. (k * 16) % WordMod = 16 * k
    BY <1>1, <1>2
  <1>5. (16 * k) \div 16 = k
    BY <1>2
  <1>6. BlockLines(n) = IF 16 * k < 32 THEN 2 ELSE k
    BY <1>3, <1>4, <1>5 DEF MinLines
  <1> QED
    BY <1>1, <1>2, <1>6

\* sf_mem_grow bounds the heap.
LEMMA HeapEnds ==
    ASSUME NEW h, h.pages \in 1..MaxPages
    PROVE  End(h) \in Nat /\ Page * MaxPages \in Nat /\ End(h) <= Page * MaxPages
  <1>1. Page \in Nat /\ MaxPages \in Nat
    BY SfmmAssumption
  <1>2. ASSUME NEW x \in Nat, NEW y \in Nat, NEW z \in Nat
        PROVE  x * y \in Nat /\ x * (y + z) = x * y + x * z
    OBVIOUS
  <1>3. PICK z \in Nat : MaxPages = h.pages + z
    <2>1. MaxPages - h.pages \in Nat /\ MaxPages = h.pages + (MaxPages - h.pages)
      BY <1>1
    <2> QED
      BY <2>1
  <1>4. Page * MaxPages = Page * h.pages + Page * z
    BY <1>1, <1>2, <1>3
  <1>5. Page * h.pages \in Nat /\ Page * z \in Nat
    BY <1>1, <1>2
  <1> QED
    BY <1>4, <1>5 DEF End

\* What fits the blocks of a sound heap is apart.
LEMMA ApartIs ==
    ASSUME NoWrap, NEW h, Sound(h, 0), h.pages \in 1..MaxPages,
           NEW o \in [Loose(h) -> Requests],
           \A b \in Loose(h) : h.blk[b].size >= BlockLines(o[b])
    PROVE  /\ A!Apart(o)
           /\ \A b \in Loose(h) : b \in 1..(Page * MaxPages)
                                  /\ 16 * b + o[b] <= 16 * (Page * MaxPages)
  <1>1. IsHeap(h) /\ Tiled(h)
    BY SoundMeans
  <1>2. ASSUME NEW b \in Loose(h)
        PROVE  /\ b \in Nat /\ b >= 1 /\ o[b] \in Nat /\ Nxt(h, b) \in Nat
               /\ Nxt(h, b) <= End(h) /\ b < End(h) /\ b \in Starts(h)
               /\ 16 * b + o[b] <= 16 * Nxt(h, b) - 8
    <2>1. b \in Starts(h)
      BY DEF Loose
    <2>2. /\ b \in Nat /\ b >= 1 /\ b < End(h) /\ h.blk[b].size \in Nat
          /\ Nxt(h, b) = b + h.blk[b].size /\ Nxt(h, b) \in Nat /\ Nxt(h, b) <= End(h)
      BY <1>1, <2>1, BlocksAre
    <2>3. o[b] \in Requests
      OBVIOUS
    <2>4. o[b] \in Nat /\ BlockLines(o[b]) \in Nat /\ o[b] <= 16 * BlockLines(o[b]) - 8
      BY <2>3, RoomIs
    <2> QED
      BY <2>1, <2>2, <2>4
  <1>3. ASSUME NEW b \in Loose(h), NEW c \in Loose(h), b < c
        PROVE  16 * b + o[b] <= 16 * c - 8
    <2>1. Nxt(h, b) <= c
      BY <1>1, <1>2, <1>3 DEF Tiled
    <2> QED
      BY <1>2, <2>1
  <1>4. ASSUME NEW b \in Loose(h), NEW c \in Loose(h), b # c
        PROVE  16 * b + o[b] <= 16 * c - 8 \/ 16 * c + o[c] <= 16 * b - 8
    <2>1. b < c \/ c < b
      BY <1>2, <1>4
    <2> QED
      BY <1>3, <2>1
  <1>5. A!Apart(o)
    BY <1>4 DEF A!Apart
  <1>6. End(h) \in Nat /\ Page * MaxPages \in Nat /\ End(h) <= Page * MaxPages
    BY HeapEnds
  <1> HIDE DEF End
  <1>7. ASSUME NEW L \in Nat, End(h) <= L, NEW b \in Loose(h)
        PROVE  b \in 1..L /\ 16 * b + o[b] <= 16 * L
    BY <1>2, <1>6, <1>7
  <1> QED
    BY <1>5, <1>6, <1>7

\* So is what the client holds, in each state.
LEMMA HeldApart ==
    ASSUME NoWrap, NEW h, Ready(h), NEW o \in [Loose(h) -> Requests],
           \A b \in Loose(h) : h.blk[b].size >= BlockLines(o[b])
    PROVE  /\ A!Apart(o)
           /\ \A b \in Loose(h) : b \in 1..(Page * MaxPages)
                                  /\ 16 * b + o[b] <= 16 * (Page * MaxPages)
  <1>1. CASE h = NoHeap
    <2>1. Loose(h) = {}
      BY <1>1, NoHeapIs
    <2> QED
      BY <2>1 DEF A!Apart
  <1>2. CASE h # NoHeap
    <2>1. Sound(h, 0) /\ h.pages \in 1..MaxPages
      BY <1>2 DEF Ready
    <2> QED
      BY <2>1, ApartIs
  <1> QED
    BY <1>1, <1>2

\* The steps of the allocator are steps, or stutters, of the abstract one.
LEMMA MallocRefines ==
    ASSUME NoWrap, SfmmInvariant, SfmmInvariant', Malloc
    PROVE  A!Malloc \/ own' = own
  <1>1. PICK n \in Requests :
           /\ heap' = sf_malloc(heap, n).heap
           /\ own' = IF sf_malloc(heap, n).at = 0 THEN own ELSE Put(own, sf_malloc(heap, n).at, n)
    BY DEF Malloc
  <1>2. PICK r : r = sf_malloc(heap, n)
    OBVIOUS
  <1>3. r.at # 0 => r.at \notin Held
    <2>1. n \in Nat /\ Ready(heap) /\ Loose(heap) = Held
      BY RequestsAre DEF SfmmInvariant
    <2> QED
      BY <1>2, <2>1, MallocIs
  <1>4. CASE r.at = 0
    BY <1>1, <1>2, <1>4
  <1>5. CASE r.at # 0
    <2>1. own' = Put(own, r.at, n)
      BY <1>1, <1>2, <1>5
    <2>2. own' = A!With(own, r.at, n)
      BY <2>1 DEF Put, A!With
    <2>3. r.at \in Held' /\ own'[r.at] = n
      BY <2>1 DEF Put, Held
    <2>4. /\ A!Apart(own') /\ r.at \in 1..(Page * MaxPages)
          /\ 16 * r.at + n <= 16 * (Page * MaxPages)
      <3>1. /\ own' \in [Loose(heap') -> Requests] /\ Loose(heap') = Held' /\ Ready(heap')
            /\ \A b \in Loose(heap') : heap'.blk[b].size >= BlockLines(own'[b])
        BY DEF SfmmInvariant
      <3>2. /\ A!Apart(own')
            /\ \A b \in Loose(heap') : b \in 1..(Page * MaxPages)
                                       /\ 16 * b + own'[b] <= 16 * (Page * MaxPages)
        BY <3>1, HeldApart
      <3> QED
        BY <2>3, <3>1, <3>2
    <2>5. r.at \in A!Address \ DOMAIN own
      BY <1>3, <1>5, <2>4 DEF A!Address, Held
    <2> QED
      BY <2>2, <2>4, <2>5 DEF A!Malloc
  <1> QED
    BY <1>4, <1>5

LEMMA ReallocRefines ==
    ASSUME NoWrap, SfmmInvariant, SfmmInvariant', Realloc
    PROVE  A!Realloc \/ own' = own
  <1>1. PICK b \in Held, n \in Requests :
           /\ heap' = sf_realloc(heap, b, n).heap
           /\ own' = IF sf_realloc(heap, b, n).at = 0 THEN own
                     ELSE Put([c \in Held \ {b} |-> own[c]], sf_realloc(heap, b, n).at, n)
    BY DEF Realloc
  <1>2. Sound(heap, 0) /\ heap.pages \in 1..MaxPages /\ b \in Loose(heap) /\ n \in Nat
    BY SomeHeld, RequestsAre
  <1>3. PICK r : r = sf_realloc(heap, b, n)
    OBVIOUS
  <1>4. /\ own \in [Held -> Requests] /\ Loose(heap) = Held
        /\ \A c \in Held : heap.blk[c].size >= BlockLines(own[c])
    BY DEF SfmmInvariant
  <1>5. r.at \notin {0, b} => Between(heap, n, r.at)
    BY <1>2, <1>3, ReallocIs
  <1>6. CASE r.at = 0
    BY <1>1, <1>3, <1>6
  <1>7. CASE r.at # 0
    <2>1. own' = Put([c \in Held \ {b} |-> own[c]], r.at, n)
      BY <1>1, <1>3, <1>7
    <2>2. own' = A!With(A!Without(own, b), r.at, n)
      BY <2>1 DEF Put, A!With, A!Without, Held
    <2>3. r.at \in Held' /\ own'[r.at] = n
      BY <2>1 DEF Put, Held
    <2>4. /\ A!Apart(own') /\ r.at \in 1..(Page * MaxPages)
          /\ 16 * r.at + n <= 16 * (Page * MaxPages)
      <3>1. /\ own' \in [Loose(heap') -> Requests] /\ Loose(heap') = Held' /\ Ready(heap')
            /\ \A c \in Loose(heap') : heap'.blk[c].size >= BlockLines(own'[c])
        BY DEF SfmmInvariant
      <3>2. /\ A!Apart(own')
            /\ \A c \in Loose(heap') : c \in 1..(Page * MaxPages)
                                       /\ 16 * c + own'[c] <= 16 * (Page * MaxPages)
        BY <3>1, HeldApart
      <3> QED
        BY <2>3, <3>1, <3>2
    <2>5. ASSUME r.at # b PROVE r.at \notin DOMAIN own /\ A!Apart(A!With(own, r.at, n))
      <3>1. PICK m : /\ Sound(m, 0) /\ m.pages \in 1..MaxPages
                     /\ r.at \notin Loose(heap) /\ Loose(m) = Loose(heap) \cup {r.at}
                     /\ \A c \in Loose(heap) : m.blk[c].size = heap.blk[c].size
                     /\ m.blk[r.at].size >= BlockLines(n)
        BY <1>5, <1>7, <2>5 DEF Between
      <3> DEFINE o == A!With(own, r.at, n)
      <3>2. /\ o \in [Loose(m) -> Requests] /\ o[r.at] = n
            /\ \A c \in Loose(heap) : o[c] = own[c]
        BY <1>4, <3>1 DEF A!With, Held
      <3> HIDE DEF o
      <3>3. \A c \in Loose(m) : m.blk[c].size >= BlockLines(o[c])
        BY <1>4, <3>1, <3>2
      <3>4. A!Apart(o)
        BY <3>1, <3>2, <3>3, ApartIs
      <3> QED
        BY <1>4, <3>1, <3>4 DEF o, Held
    <2> QED
      BY <2>2, <2>4, <2>5 DEF A!Realloc, A!Address, Held
  <1> QED
    BY <1>6, <1>7

LEMMA NextRefines ==
    ASSUME NoWrap, SfmmInvariant, SfmmInvariant', [Next]_vars
    PROVE  [A!Next]_own
  <1>1. CASE UNCHANGED vars
    BY <1>1 DEF vars
  <1>2. CASE Malloc
    BY <1>2, MallocRefines DEF A!Next
  <1>3. CASE Free
    <2>1. PICK b \in Held : own' = [c \in Held \ {b} |-> own[c]]
      BY <1>3 DEF Free
    <2> QED
      BY <2>1 DEF A!Next, A!Free, A!Without, Held
  <1>4. CASE Realloc
    BY <1>4, ReallocRefines DEF A!Next
  <1>5. CASE Write
    BY <1>5 DEF Write
  <1> QED
    BY <1>1, <1>2, <1>3, <1>4, <1>5 DEF Next

\* For requests that do not wrap sf_malloc, sf_free and sf_realloc keep what
\* sfmm.h promises: payloads that do not overlap, each with room for its bytes.
\* Without the hypothesis it is false: sfmm.c:299-302 rounds in size_t, and a
\* request of nearly 2^64 bytes is given a block of 32.
THEOREM Refinement == ASSUME NoWrap PROVE Spec => RefinesAllocator
  <1>1. Init => A!Init
    BY DEF Init, A!Init
  <1>2. SfmmInvariant /\ SfmmInvariant' /\ [Next]_vars => [A!Next]_own
    BY NextRefines
  <1> QED
    BY <1>1, <1>2, Invariance, PTL DEF Spec, RefinesAllocator, A!Spec

-------------------------------------------------------------------------------
\* What is bare is what the client asked for, whether there was a fault or not.
BitsOK == Explained(heap, Held, 0, {"none", "wild"})

\* So does each step.
LEMMA MallocFollows ==
    ASSUME SfmmInvariant, SfmmInvariant', Malloc
    PROVE  Follows(heap, heap')
  <1>1. PICK n \in Requests : heap' = sf_malloc(heap, n).heap
    BY DEF Malloc
  <1>2. PICK r : r = sf_malloc(heap, n)
    OBVIOUS
  <1>3. n \in Nat /\ Ready(heap)
    BY RequestsAre DEF SfmmInvariant
  <1>4. /\ Sound(r.heap, 0)
        /\ r.at = 0 => Loose(r.heap) = Loose(heap)
        /\ r.at # 0 => Loose(r.heap) = Loose(heap) \cup {r.at}
        /\ Keeps(Loose(heap), heap, 0, r.heap, r.at)
    BY <1>2, <1>3, MallocIs
  <1>5. /\ Loose(heap) \subseteq Loose(heap) /\ Loose(heap) \subseteq Loose(heap) \cup {0}
        /\ Loose(heap) \subseteq Loose(r.heap) /\ r.at \in Loose(r.heap) \cup {0}
    BY <1>4
  <1>6. Follows(heap, r.heap)
    BY <1>3, <1>4, <1>5, FollowsIs
  <1> QED
    BY <1>1, <1>2, <1>6

LEMMA FreeFollows ==
    ASSUME SfmmInvariant, Free
    PROVE  Follows(heap, heap')
  <1>1. PICK b \in Held : heap' = sf_free(heap, b)
    BY DEF Free
  <1>2. Sound(heap, 0) /\ heap.pages \in 1..MaxPages /\ b \in Loose(heap)
    BY SomeHeld
  <1> DEFINE K == Loose(heap) \ {b}
  <1>3. Sound(heap', 0) /\ Loose(heap') = K /\ Keeps(K, heap, b, heap', 0)
    BY <1>1, <1>2, FreeIs
  <1>4. /\ K \subseteq Loose(heap) /\ Loose(heap) \subseteq K \cup {b}
        /\ K \subseteq Loose(heap') /\ 0 \in Loose(heap') \cup {0} /\ Ready(heap)
    BY <1>2, <1>3 DEF Ready
  <1> HIDE DEF K
  <1> QED
    BY <1>3, <1>4, FollowsIs

LEMMA ReallocFollows ==
    ASSUME SfmmInvariant, Realloc
    PROVE  Follows(heap, heap')
  <1>1. PICK b \in Held, n \in Requests : heap' = sf_realloc(heap, b, n).heap
    BY DEF Realloc
  <1>2. Sound(heap, 0) /\ heap.pages \in 1..MaxPages /\ b \in Loose(heap) /\ n \in Nat
    BY SomeHeld, RequestsAre
  <1>3. PICK r : r = sf_realloc(heap, b, n)
    OBVIOUS
  <1>4. Follows(heap, r.heap)
    BY <1>2, <1>3, ReallocIs
  <1> QED
    BY <1>1, <1>3, <1>4

LEMMA WriteFollows ==
    ASSUME SfmmInvariant, Write
    PROVE  Follows(heap, heap')
  <1>1. PICK b \in Held : heap' = Written(heap, b)
    BY DEF Write, Written
  <1>2. Sound(heap, 0) /\ heap.pages \in 1..MaxPages /\ b \in Loose(heap)
    BY SomeHeld
  <1> DEFINE K == Loose(heap)
  <1>3. Sound(heap', 0) /\ Loose(heap') = K /\ Keeps(K, heap, 0, heap', 0)
    BY <1>1, <1>2, WriteIs
  <1>4. /\ K \subseteq Loose(heap) /\ Loose(heap) \subseteq K \cup {0}
        /\ K \subseteq Loose(heap') /\ 0 \in Loose(heap') \cup {0} /\ Ready(heap)
    BY <1>2, <1>3 DEF Ready
  <1> HIDE DEF K
  <1> QED
    BY <1>3, <1>4, FollowsIs

LEMMA NextFollows ==
    ASSUME SfmmInvariant, SfmmInvariant', Next
    PROVE  Follows(heap, heap')
  BY MallocFollows, FreeFollows, ReallocFollows, WriteFollows DEF Next

\* No step leaves a clear bit behind a block of a quick list.
LEMMA BitsHold ==
    ASSUME SfmmInvariant, SfmmInvariant', BitsOK, [Next]_vars
    PROVE  BitsOK'
  <1>1. CASE UNCHANGED vars
    BY <1>1 DEF BitsOK, vars, Held
  <1>2. CASE Next
    <2>1. Follows(heap, heap')
      BY <1>2, NextFollows
    <2>2. Loose(heap) = Held /\ Loose(heap') = Held'
      BY DEF SfmmInvariant
    <2> QED
      BY <2>1, <2>2 DEF Follows, BitsOK
  <1> QED
    BY <1>1, <1>2

\* A clear prv bit is behind a block of a main list, where it is right, or behind
\* one that the client holds, where allocate (sfmm.c:265-271) left it: flushing,
\* freeing and joining leave no other.
THEOREM BitsAlwaysHold == Spec => []BitsOK
  <1>1. Init => BitsOK
    <2>1. Init => heap.fault = "none" /\ Starts(heap) = {}
      BY NoHeapIs DEF Init
    <2> QED
      BY <2>1 DEF BitsOK, Explained, Bare
  <1>2. SfmmInvariant /\ SfmmInvariant' /\ BitsOK /\ [Next]_vars => BitsOK'
    BY BitsHold
  <1> QED
    BY <1>1, <1>2, Invariance, PTL DEF Spec

\* A stale bit is one behind a bare block of the client's.
StaleIn(h, S) == \E b \in DOMAIN h.blk : ~h.blk[b].prv /\ Prev(h, b) \in S

LEMMA StaleIsBare ==
    ASSUME NEW h, Ready(h), NEW S
    PROVE  StaleIn(h, S) <=> \E p \in S : p \in Bare(h)
  <1>1. CASE h = NoHeap
    BY <1>1, NoHeapIs DEF StaleIn, Bare, Starts
  <1>2. CASE h # NoHeap
    <2>1. IsHeap(h) /\ Tiled(h)
      BY <1>2, SoundMeans DEF Ready
    <2>2. ASSUME NEW b \in Starts(h), ~h.blk[b].prv
          PROVE  Prev(h, b) \in Starts(h) /\ Nxt(h, Prev(h, b)) = b
      <3>1. b # 1
        BY <2>1, <2>2 DEF Tiled
      <3> QED
        BY <2>1, <3>1, PrevIs
    <2>3. ASSUME NEW b \in Starts(h), ~h.blk[b].prv, Prev(h, b) \in S
          PROVE  \E p \in S : p \in Bare(h)
      BY <2>2, <2>3 DEF Bare
    <2>4. ASSUME NEW p \in S, p \in Bare(h)
          PROVE  StaleIn(h, S)
      <3> DEFINE b == Nxt(h, p)
      <3>1. p \in Starts(h) /\ b \in Starts(h) /\ ~h.blk[b].prv
        BY <2>4 DEF Bare
      <3>2. Prev(h, b) \in Starts(h) /\ Nxt(h, Prev(h, b)) = Nxt(h, p)
        BY <2>2, <3>1
      <3>3. Prev(h, b) = p
        BY <2>1, <3>1, <3>2, EndsOnce
      <3> QED
        BY <3>1, <3>3 DEF StaleIn, Starts
    <2> QED
      BY <2>3, <2>4 DEF StaleIn, Starts
  <1> QED
    BY <1>1, <1>2

\* A call with no stale bit at hand fails on one it makes, which stays.
LEMMA FaultStep ==
    ASSUME SfmmInvariant, SfmmInvariant', BitsOK, Next, heap'.fault # "none"
    PROVE  heap'.fault = "wild" /\ (SomeStale \/ SomeStale')
  <1>1. heap.fault = "none"
    BY DEF Next, Malloc, Free, Realloc, Write
  <1>2. Ready(heap) /\ Ready(heap') /\ Loose(heap') = Held'
    BY DEF SfmmInvariant
  <1>3. heap'.fault = "wild"
    <2>1. \A h : Ready(h) => h.fault \in {"none", "wild"}
      BY NoHeapIs, SoundMeans DEF Ready, IsHeap
    <2> QED
      BY <1>2, <2>1
  <1>4. /\ SomeStale <=> \E p \in Held : p \in Bare(heap)
        /\ SomeStale' <=> \E p \in Held' : p \in Bare(heap')
    <2>1. (SomeStale <=> StaleIn(heap, Held)) /\ (SomeStale' <=> StaleIn(heap', Held'))
      BY DEF SomeStale, StaleIn
    <2> QED
      BY <1>2, <2>1, StaleIsBare
  <1>5. ASSUME ~SomeStale PROVE SomeStale'
    <2>1. Explained(heap, {}, 0, {"none"})
      BY <1>1, <1>4, <1>5 DEF BitsOK, Explained
    <2>2. Explained(heap', Held', 0, {"none"})
      BY <1>2, <2>1, NextFollows DEF Follows
    <2> QED
      BY <1>4, <2>2 DEF Explained
  <1> QED
    BY <1>3, <1>5

\* sfmm.c reads a size or a link that is none only behind a stale prv bit, one
\* that was there before the call or that the call leaves; and sf_free and
\* sf_realloc never refuse a block they handed out.
THEOREM FaultsExplained == Spec => FaultsAreStale
  <1>1. SfmmInvariant /\ SfmmInvariant' /\ BitsOK /\ [Next]_vars
          => [heap'.fault # "none" => heap'.fault = "wild" /\ (SomeStale \/ SomeStale')]_vars
    BY FaultStep
  <1> QED
    BY <1>1, Invariance, BitsAlwaysHold, PTL DEF Spec, FaultsAreStale
===============================================================================
