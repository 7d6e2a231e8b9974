----------------------------- MODULE FindDupProofs -----------------------------
(***************************************************************************)
(* Proofs about module FindDup. Whatever is sorted, marked and moved, the  *)
(* list is the files found, each of them once, and the scan stays in it.   *)
(* If comp1's differences do not go round in circles on the disk, the list *)
(* is in order when the links are marked, so that each file keeps one name *)
(* that is no link; and behind the head of scan2 it stays in order, so     *)
(* that a link can be taken for a match, and the groups printed are the    *)
(* files that are the same.                                                *)
(***************************************************************************)
EXTENDS FindDup, FiniteSetTheorems, SequenceTheorems, WellFoundedInduction, TLAPS

\* What may be in the list, and what the disk is (Init).
Entries == [name : Nat, length : Nat, crc : Crcs \cup {0}, inode : Nat,
            lnk : BOOLEAN, dup : BOOLEAN]

DiskOK == disk \in [inode : Listings, content : [Inodes -> Contents],
                    crc : [{Text(c) : c \in Contents} -> Crcs], links : BOOLEAN]

\* A list has every file found once, with the inode of its name.
NamesOf(list) == {list[k].name : k \in 1..Len(list)}
IsListing(list) ==
    /\ list \in Seq(Entries) /\ Len(list) = Cardinality(Found)
    /\ NamesOf(list) = Found
    /\ \A k, m \in 1..Len(list) : list[k].name = list[m].name => k = m
    /\ \A k \in 1..Len(list) : list[k].inode = disk.inode[list[k].name]

\* An order of n entries, and a list that has the files of another in an order.
IsOrder(p, n) ==
    /\ p \in [1..n -> 1..n]
    /\ \A k \in 1..n : \E m \in 1..n : p[m] = k
    /\ \A k, m \in 1..n : p[k] = p[m] => k = m
HasFilesOf(new, list, p) ==
    /\ new \in Seq(Entries) /\ Len(new) = Len(list)
    /\ \A k \in 1..Len(list) : /\ new[k].name = list[p[k]].name
                               /\ new[k].inode = list[p[k]].inode

\* ListIsFilesFound needs that qsort, the scans and the matches of scan2
\* (finddup.c:320-389) rearrange a listing.
FindDupInvariant ==
    /\ DiskOK
    /\ pc \in {"build", "sort", "scan1", "resort", "links", "head", "compare",
               "print", "done", "exit"}
    /\ pc # "build" => IsListing(filelist)
    /\ pc = "head" => lastix \in Nat \ {0}
    /\ pc = "compare" => /\ ix \in 1..NFound /\ ix2 \in Nat
                         /\ lastix \in (ix + 1)..ix2

-------------------------------------------------------------------------------
\* A set of numbers has a least one.
LEMMA LeastIs ==
    ASSUME NEW T, T \subseteq Nat, T # {}
    PROVE  Min(T) \in T /\ \A y \in T : Min(T) <= y
  <1> DEFINE R == {ss \in Nat \X Nat : ss[1] < ss[2]}
  <1>1. IsWellFoundedOn(R, Nat)
    BY NatLessThanWellFounded DEF OpToRel
  <1> HIDE DEF R
  <1>2. PICK x \in T : \A y \in T : ~ (<<y, x>> \in R)
    BY <1>1, WFMin
  <1>3. ASSUME NEW y \in T PROVE x <= y
    <2>1. x \in Nat /\ y \in Nat
      OBVIOUS
    <2>2. <<y, x>> \notin R
      BY <1>2
    <2> QED
      BY <2>1, <2>2 DEF R
  <1>4. \E z \in T : \A y \in T : z <= y
    BY <1>3
  <1> QED
    BY <1>4 DEF Min

\* The files found have inodes, and contents.
LEMMA FoundAre ==
    ASSUME DiskOK
    PROVE  /\ \E n \in Nat : Names = 1..n
           /\ IsFiniteSet(Found) /\ Found \subseteq Nat
           /\ \A name \in Found : /\ disk.inode[name] \in Inodes /\ disk.inode[name] \in Nat
                                  /\ ContentOf(name) \in Contents
                                  /\ Len(ContentOf(name)) \in Nat
  <1>1. /\ disk.inode \in Seq(Nat) /\ disk.inode \in Listings
        /\ disk.content \in [Inodes -> Contents]
    BY FindDupAssumption DEF DiskOK
  <1>2. PICK n \in Nat : Names = 1..n
    BY <1>1 DEF Names
  <1>3. IsFiniteSet(Names)
    BY <1>2, FS_Interval
  <1>4. Found \subseteq Names
    BY DEF Found
  <1>5. IsFiniteSet(Found) /\ Found \subseteq Nat
    <2>1. Found \in SUBSET Names /\ Found \subseteq 1..n
      BY <1>2, <1>4
    <2>2. IsFiniteSet(Found)
      BY <1>3, <2>1, FS_Subset
    <2> QED
      BY <2>1, <2>2
  <1>6. ASSUME NEW name \in Found
        PROVE  /\ disk.inode[name] \in Inodes /\ disk.inode[name] \in Nat
               /\ ContentOf(name) \in Contents /\ Len(ContentOf(name)) \in Nat
    <2>1. name \in DOMAIN disk.inode /\ disk.inode[name] # 0
      BY DEF Found, Names
    <2>2. disk.inode[name] \in ToSet(disk.inode)
      BY <2>1 DEF ToSet
    <2>3. disk.inode[name] \in Inodes
      <3>1. ToSet(disk.inode) \in {ToSet(l) : l \in Listings}
        BY <1>1
      <3>2. disk.inode[name] \in UNION {ToSet(l) : l \in Listings}
        BY <2>2, <3>1
      <3> QED
        BY <2>1, <3>2 DEF Inodes
    <2>4. disk.inode[name] \in Nat
      BY <1>1, <2>1
    <2>5. ContentOf(name) \in Contents
      BY <1>1, <2>3 DEF ContentOf
    <2>6. ContentOf(name) \in Seq(0..255)
      BY <2>5, FindDupAssumption
    <2> QED
      BY <2>3, <2>4, <2>5, <2>6
  <1> QED
    BY <1>2, <1>5, <1>6

\* A list is still one when its entries change places, and change in nothing
\* but the CRC and the marks.
LEMMA Rearranged ==
    ASSUME NEW list, IsListing(list), NEW new, NEW p, IsOrder(p, Len(list)),
           HasFilesOf(new, list, p)
    PROVE  IsListing(new)
  <1>1. PICK n \in Nat : n = Len(list)
    BY DEF IsListing
  <1>2. /\ NamesOf(list) = Found
        /\ \A k, m \in 1..n : list[k].name = list[m].name => k = m
        /\ \A k \in 1..n : list[k].inode = disk.inode[list[k].name]
    BY <1>1 DEF IsListing
  <1>3. /\ Len(new) = n /\ new \in Seq(Entries)
        /\ \A k \in 1..n : new[k].name = list[p[k]].name /\ new[k].inode = list[p[k]].inode
    BY <1>1 DEF HasFilesOf
  <1>4. \A k \in 1..n : p[k] \in 1..n
    BY <1>1 DEF IsOrder
  <1>5. NamesOf(new) = {new[k].name : k \in 1..n} /\ NamesOf(list) = {list[k].name : k \in 1..n}
    BY <1>1, <1>3 DEF NamesOf
  <1>6. NamesOf(new) \subseteq NamesOf(list)
    BY <1>3, <1>4, <1>5
  <1>7. NamesOf(list) \subseteq NamesOf(new)
    <2>1. ASSUME NEW k \in 1..n PROVE list[k].name \in NamesOf(new)
      <3>1. PICK m \in 1..n : p[m] = k
        BY <1>1 DEF IsOrder
      <3> QED
        BY <1>3, <1>5, <3>1
    <2> QED
      BY <1>5, <2>1
  <1>8. ASSUME NEW k \in 1..n, NEW m \in 1..n, new[k].name = new[m].name
        PROVE  k = m
    <2>1. p[k] \in 1..n /\ p[m] \in 1..n
      BY <1>4
    <2>2. new[k].name = list[p[k]].name /\ new[m].name = list[p[m]].name
      BY <1>3
    <2>3. p[k] = p[m]
      BY <1>2, <1>8, <2>1, <2>2
    <2> QED
      BY <1>1, <2>3 DEF IsOrder
  <1>9. \A k \in 1..n : new[k].inode = disk.inode[new[k].name]
    BY <1>2, <1>3, <1>4
  <1> QED
    BY <1>2, <1>3, <1>6, <1>7, <1>8, <1>9 DEF IsListing

\* Build.
LEMMA BuildStep ==
    ASSUME DiskOK, Build
    PROVE  IsListing(filelist)'
  <1> DEFINE n == Cardinality(Found)
             found == SetToSeq(Found)
  <1>1. filelist' = [k \in DOMAIN found |-> Entry(found[k])]
    BY DEF Build, Found
  <1>2. n \in Nat /\ ExistsBijection(1..n, Found)
    BY FoundAre, FS_CardinalityType
  <1>3. \E f \in [1..n -> Found] : IsInjective(f)
    BY <1>2 DEF ExistsBijection, Bijection, Injection, IsInjective
  <1>4. found \in [1..n -> Found] /\ IsInjective(found)
    BY <1>3 DEF SetToSeq
  <1> HIDE DEF found
  <1>5. IsFiniteSet(1..n) /\ Cardinality(1..n) = n
    BY <1>2, FS_Interval
  <1>6. \A name \in Found : \E k \in 1..n : found[k] = name
    <2>1. found \in Injection(1..n, Found) /\ IsFiniteSet(Found)
      BY <1>4, FoundAre DEF Injection
    <2>2. found \in Surjection(1..n, Found)
      BY <1>5, <2>1, FS_Injection
    <2> QED
      BY <2>2 DEF Surjection
  <1>7. ASSUME NEW k \in 1..n
        PROVE  /\ Entry(found[k]) \in Entries /\ Entry(found[k]).name = found[k]
               /\ Entry(found[k]).inode = disk.inode[found[k]]
    BY <1>4, FoundAre DEF Entry, Entries
  <1>8. /\ filelist' = [k \in 1..n |-> Entry(found[k])]
        /\ disk' = disk /\ Found' = Found
    BY <1>1, <1>4 DEF Build, Found, ContentOf, Names
  <1> HIDE DEF n
  <1>9. filelist' \in [1..n -> Entries]
    BY <1>7, <1>8
  <1>10. filelist' \in Seq(Entries) /\ Len(filelist') = n
    BY <1>2, <1>9, SeqDef
  <1>11. NamesOf(filelist') = Found
    <2>1. NamesOf(filelist') = {filelist'[k].name : k \in 1..n}
      BY <1>10 DEF NamesOf
    <2>2. \A k \in 1..n : filelist'[k].name = found[k] /\ found[k] \in Found
      BY <1>4, <1>7, <1>8
    <2> QED
      BY <1>6, <2>1, <2>2
  <1>12. \A k, m \in 1..n : filelist'[k].name = filelist'[m].name => k = m
    BY <1>4, <1>7, <1>8 DEF IsInjective
  <1>13. \A k \in 1..n : filelist'[k].inode = disk.inode[filelist'[k].name]
    BY <1>7, <1>8
  <1> QED
    BY <1>8, <1>10, <1>11, <1>12, <1>13 DEF IsListing, n

\* One field of some entries is changed, and not the name or the inode.
LEMMA Marked ==
    ASSUME IsListing(filelist), NEW new,
           new \in [1..NFound -> Entries],
           \A k \in 1..NFound : /\ new[k].name = filelist[k].name
                                /\ new[k].inode = filelist[k].inode
    PROVE  IsListing(new)
  <1>1. PICK n \in Nat : n = NFound
    BY DEF IsListing, NFound
  <1> DEFINE p == [k \in 1..n |-> k]
  <1>2. new \in Seq(Entries) /\ Len(new) = n
    BY <1>1, SeqDef
  <1>3. IsOrder(p, n) /\ \A k \in 1..n : p[k] = k
    BY DEF IsOrder
  <1> HIDE DEF p
  <1>4. HasFilesOf(new, filelist, p)
    BY <1>1, <1>2, <1>3 DEF HasFilesOf, NFound
  <1> QED
    BY <1>1, <1>3, <1>4, Rearranged DEF NFound

\* What qsort makes of a list is the list in an order, with neighbours that
\* comp1 finds the right way round.
LEMMA SortsAre ==
    ASSUME NEW list, IsListing(list), NEW new \in Sorts(list)
    PROVE  /\ new \in Seq(Entries) /\ Len(new) = Len(list)
           /\ \E p : /\ IsOrder(p, Len(list))
                     /\ \A k \in 1..Len(list) : p[k] \in 1..Len(list) /\ new[k] = list[p[k]]
           /\ \A k \in 1..(Len(list) - 1) : Comp1(new[k], new[k + 1]) <= 0
  <1>1. PICK n \in Nat : n = Len(list) /\ list \in Seq(Entries)
    BY DEF IsListing
  <1>2. PICK p \in Orders : /\ DOMAIN p = 1..n /\ new = [k \in 1..n |-> list[p[k]]]
                            /\ \A k \in 1..(n - 1) : Comp1(list[p[k]], list[p[k + 1]]) <= 0
    BY <1>1 DEF Sorts
  <1>3. p \in Injection(1..n, 1..n) /\ p \in Surjection(1..n, 1..n)
    <2>1. PICK m : p \in Injection(1..m, 1..m)
      BY DEF Orders
    <2>2. 1..m = 1..n
      BY <1>2, <2>1 DEF Injection
    <2>3. p \in Injection(1..n, 1..n) /\ IsFiniteSet(1..n)
      BY <2>1, <2>2, FS_Interval
    <2> QED
      BY <2>3, FS_Injection
  <1>4. /\ p \in [1..n -> 1..n] /\ \A k \in 1..n : \E m \in 1..n : p[m] = k
        /\ \A k, m \in 1..n : p[k] = p[m] => k = m
    BY <1>3 DEF Injection, Surjection, IsInjective
  <1>5. IsOrder(p, n)
    BY <1>4 DEF IsOrder
  <1>6. ASSUME NEW k \in 1..n PROVE p[k] \in 1..n /\ list[p[k]] \in Entries
    <2>1. p[k] \in 1..n
      BY <1>4
    <2> QED
      BY <1>1, <2>1, ElementOfSeq
  <1>7. new \in [1..n -> Entries] /\ \A k \in 1..n : new[k] = list[p[k]]
    BY <1>2, <1>6
  <1>8. new \in Seq(Entries) /\ Len(new) = n
    BY <1>7, SeqDef
  <1>9. ASSUME NEW k \in 1..(n - 1) PROVE Comp1(new[k], new[k + 1]) <= 0
    <2>1. k \in 1..n /\ k + 1 \in 1..n
      BY <1>1
    <2> QED
      BY <1>2, <1>7, <2>1
  <1> QED
    BY <1>1, <1>5, <1>6, <1>7, <1>8, <1>9

\* So it is a list of the files found.
LEMMA SortStep ==
    ASSUME NEW list, IsListing(list), NEW new \in Sorts(list)
    PROVE  IsListing(new)
  <1>1. PICK n \in Nat : n = Len(list)
    BY DEF IsListing
  <1>2. PICK p : IsOrder(p, n) /\ \A k \in 1..n : new[k] = list[p[k]]
    BY <1>1, SortsAre
  <1>3. new \in Seq(Entries) /\ Len(new) = n
    BY <1>1, SortsAre
  <1>4. HasFilesOf(new, list, p)
    BY <1>1, <1>2, <1>3 DEF HasFilesOf
  <1> QED
    BY <1>1, <1>2, <1>4, Rearranged

\* An entry moved forward: where each entry of the new list comes from.
MovedFrom(n, i, j) == [k \in 1..n |-> IF k = j THEN i
                                      ELSE IF j < k /\ k <= i THEN k - 1 ELSE k]

\* It is an order.
LEMMA MovedFromIsOrder ==
    ASSUME NEW n \in Nat, NEW i \in 1..n, NEW j \in 1..i
    PROVE  IsOrder(MovedFrom(n, i, j), n)
  <1>1. MovedFrom(n, i, j) \in [1..n -> 1..n]
    BY DEF MovedFrom
  <1>2. ASSUME NEW k \in 1..n PROVE \E m \in 1..n : MovedFrom(n, i, j)[m] = k
    <2>1. CASE k = i
      BY <2>1 DEF MovedFrom
    <2>2. CASE j <= k /\ k < i
      <3>1. k + 1 \in 1..n /\ MovedFrom(n, i, j)[k + 1] = k
        BY <2>2 DEF MovedFrom
      <3> QED
        BY <3>1
    <2>3. CASE k < j \/ k > i
      <3>1. MovedFrom(n, i, j)[k] = k
        BY <2>3 DEF MovedFrom
      <3> QED
        BY <3>1
    <2> QED
      BY <2>1, <2>2, <2>3
  <1>3. \A k, m \in 1..n : MovedFrom(n, i, j)[k] = MovedFrom(n, i, j)[m] => k = m
    BY DEF MovedFrom
  <1> QED
    BY <1>1, <1>2, <1>3 DEF IsOrder

\* Where the entry at each place was, before one was moved from i to a.
MovesTo(p, n, i, a) ==
    \A k \in 1..n : /\ p[k] \in 1..n
                    /\ k < a \/ i < k => p[k] = k
                    /\ k = a => p[k] = i
                    /\ a < k /\ k <= i => p[k] = k - 1

\* It takes the one entry to its place and shifts those between.
LEMMA MovedFromAre ==
    ASSUME NEW n \in Nat, NEW i \in 1..n, NEW a \in 1..i
    PROVE  MovesTo(MovedFrom(n, i, a), n, i, a)
  BY DEF MovedFrom, MovesTo

\* The sequence that is made by taking an entry out and putting it in again.
LEMMA MovedIs ==
    ASSUME NEW S, NEW list \in Seq(S), NEW i \in 1..Len(list), NEW j \in 1..i
    PROVE  /\ Moved(list, i, j) \in Seq(S)
           /\ Len(Moved(list, i, j)) = Len(list)
           /\ \A k \in 1..Len(list) :
                 Moved(list, i, j)[k] = list[MovedFrom(Len(list), i, j)[k]]
  <1>1. PICK n \in Nat : n = Len(list) /\ \A k \in 1..n : list[k] \in S
    OBVIOUS
  <1> DEFINE a == SubSeq(list, 1, i - 1)
             b == SubSeq(list, i + 1, n)
             r == a \o b
             c == SubSeq(r, 1, j - 1)
             d == SubSeq(r, j, n - 1)
             e == <<list[i]>>
  <1>2. /\ a \in Seq(S) /\ Len(a) = i - 1 /\ \A k \in 1..(i - 1) : a[k] = list[k]
    BY <1>1, SubSeqProperties
  <1>3. /\ b \in Seq(S) /\ Len(b) = n - i /\ \A k \in 1..(n - i) : b[k] = list[k + i]
    BY <1>1, SubSeqProperties
  <1>4. /\ r \in Seq(S) /\ Len(r) = n - 1
        /\ \A k \in 1..(n - 1) : r[k] = IF k < i THEN list[k] ELSE list[k + 1]
    <2> HIDE DEF a, b
    <2>1. r \in Seq(S) /\ Len(r) = n - 1
      <3>1. r \in Seq(S) /\ Len(r) = Len(a) + Len(b)
        BY <1>2, <1>3, ConcatProperties
      <3> QED
        BY <1>1, <1>2, <1>3, <3>1
    <2>2. \A k \in 1..(n - 1) : r[k] = IF k <= Len(a) THEN a[k] ELSE b[k - Len(a)]
      BY <1>1, <1>2, <1>3, ConcatProperties
    <2> HIDE DEF r
    <2>3. ASSUME NEW k \in 1..(n - 1) PROVE r[k] = IF k < i THEN list[k] ELSE list[k + 1]
      <3>1. CASE k < i
        BY <1>1, <1>2, <2>2, <3>1
      <3>2. CASE k >= i
        <4>1. k - (i - 1) \in 1..(n - i) /\ k - (i - 1) + i = k + 1
          BY <1>1, <3>2
        <4>2. r[k] = b[k - (i - 1)]
          BY <1>1, <1>2, <2>2, <3>2
        <4> QED
          BY <1>3, <3>2, <4>1, <4>2
      <3> QED
        BY <1>1, <3>1, <3>2
    <2> QED
      BY <2>1, <2>3
  <1> HIDE DEF a, b, r
  <1>5. \A k \in 1..(n - 1) : r[k] \in S
    BY <1>4
  <1>6. /\ c \in Seq(S) /\ Len(c) = j - 1 /\ \A k \in 1..(j - 1) : c[k] = r[k]
    BY <1>1, <1>5, SubSeqProperties
  <1>7. /\ d \in Seq(S) /\ Len(d) = n - j /\ \A k \in 1..(n - j) : d[k] = r[k + j - 1]
    BY <1>1, <1>5, SubSeqProperties
  <1>8. e \in Seq(S) /\ Len(e) = 1 /\ e[1] = list[i]
    BY <1>1
  <1> HIDE DEF c, d, e
  <1>9. /\ c \o e \in Seq(S) /\ Len(c \o e) = j
        /\ \A k \in 1..j : (c \o e)[k] = IF k < j THEN r[k] ELSE list[i]
    <2>1. /\ c \o e \in Seq(S) /\ Len(c \o e) = Len(c) + Len(e)
          /\ \A k \in 1..(Len(c) + Len(e)) :
                (c \o e)[k] = IF k <= Len(c) THEN c[k] ELSE e[k - Len(c)]
      BY <1>6, <1>8, ConcatProperties
    <2>2. Len(c) + Len(e) = j
      BY <1>1, <1>6, <1>8
    <2> QED
      BY <1>1, <1>6, <1>8, <2>1, <2>2
  <1>10. Moved(list, i, j) = (c \o e) \o d
    BY <1>1, <1>4 DEF Moved, InsertAt, RemoveAt, a, b, c, d, e, r
  <1>11. /\ (c \o e) \o d \in Seq(S) /\ Len((c \o e) \o d) = n
         /\ \A k \in 1..n : ((c \o e) \o d)[k] = IF k <= j THEN (c \o e)[k] ELSE d[k - j]
    BY <1>1, <1>7, <1>9, ConcatProperties
  <1>12. ASSUME NEW k \in 1..n
         PROVE  Moved(list, i, j)[k] = list[MovedFrom(n, i, j)[k]]
    <2>1. CASE k <= j
      <3>1. Moved(list, i, j)[k] = IF k < j THEN r[k] ELSE list[i]
        BY <1>9, <1>10, <1>11, <2>1
      <3> QED
        BY <1>1, <1>4, <2>1, <3>1 DEF MovedFrom
    <2>2. CASE k > j
      <3>1. k - j \in 1..(n - j) /\ (k - j) + j - 1 = k - 1 /\ k - 1 \in 1..(n - 1)
        BY <1>1, <2>2
      <3>2. Moved(list, i, j)[k] = r[k - 1]
        BY <1>7, <1>10, <1>11, <2>2, <3>1
      <3> QED
        BY <1>1, <1>4, <2>2, <3>1, <3>2 DEF MovedFrom
    <2> QED
      BY <1>1, <2>1, <2>2
  <1> QED
    BY <1>1, <1>10, <1>11, <1>12

-------------------------------------------------------------------------------
\* The program starts with any disk.
LEMMA FindDupInit == Init => FindDupInvariant
  BY DEF Init, FindDupInvariant, DiskOK

\* scan1 gives entries a CRC.
LEMMA Scan1Step ==
    ASSUME DiskOK, IsListing(filelist), Scan1
    PROVE  IsListing(filelist')
  <1>1. PICK n \in Nat : /\ n = NFound /\ DOMAIN filelist = 1..n
                         /\ \A k \in 1..n : filelist[k] \in Entries /\ filelist[k].name \in Found
    BY DEF IsListing, NFound, NamesOf
  <1>2. ASSUME NEW k \in 1..n
        PROVE  disk.crc[Text(ContentOf(filelist[k].name))] \in Crcs
    <2>1. ContentOf(filelist[k].name) \in Contents
      BY <1>1, FoundAre
    <2> QED
      BY <2>1 DEF DiskOK
  <1>3. filelist' = [k \in 1..n |->
                      IF SameLength(k)
                      THEN [filelist[k] EXCEPT !.crc = disk.crc[Text(ContentOf(filelist[k].name))]]
                      ELSE filelist[k]]
    BY <1>1 DEF Scan1
  <1>4. ASSUME NEW k \in 1..n
        PROVE  /\ filelist'[k] \in Entries /\ filelist'[k].name = filelist[k].name
               /\ filelist'[k].inode = filelist[k].inode
    BY <1>1, <1>2, <1>3 DEF Entries
  <1>5. filelist' \in [1..n -> Entries]
    BY <1>3, <1>4
  <1> QED
    BY <1>1, <1>4, <1>5, Marked

\* scan2 marks links.
LEMMA MarkLinksStep ==
    ASSUME IsListing(filelist), MarkLinks
    PROVE  IsListing(filelist')
  <1>1. PICK n \in Nat : /\ n = NFound /\ DOMAIN filelist = 1..n
                         /\ \A k \in 1..n : filelist[k] \in Entries
    BY DEF IsListing, NFound
  <1>2. filelist' = [k \in 1..n |->
                      IF k > 1 /\ filelist[k - 1].inode = filelist[k].inode
                      THEN [filelist[k] EXCEPT !.lnk = TRUE] ELSE filelist[k]]
    BY <1>1 DEF MarkLinks
  <1>3. ASSUME NEW k \in 1..n
        PROVE  /\ filelist'[k] \in Entries /\ filelist'[k].name = filelist[k].name
               /\ filelist'[k].inode = filelist[k].inode
    <2>1. filelist'[k] \in {[filelist[k] EXCEPT !.lnk = TRUE], filelist[k]}
      BY <1>2
    <2> QED
      BY <1>1, <2>1 DEF Entries
  <1>4. filelist' \in [1..n -> Entries]
    BY <1>2, <1>3
  <1> QED
    BY <1>1, <1>3, <1>4, Marked

\* The list new is list with the entries in the order p, and the one at i a
\* duplicate.
IsMatch(new, list, i, p) ==
    /\ Len(new) = Len(list)
    /\ \A k \in 1..Len(list) :
          /\ p[k] \in 1..Len(list)
          /\ new[k].name = list[p[k]].name
          /\ new[k].length = list[p[k]].length
          /\ new[k].crc = list[p[k]].crc
          /\ new[k].inode = list[p[k]].inode
          /\ new[k].lnk <=> list[p[k]].lnk
          /\ new[k].dup <=> (p[k] = i \/ list[p[k]].dup)

\* The list after a match: all entries are as they were, in their new places,
\* and the one that matched is a duplicate.
LEMMA MatchIs ==
    ASSUME IsListing(filelist), Match, ix \in 1..NFound, ix2 \in Nat, lastix \in (ix + 1)..ix2
    PROVE  /\ filelist' \in Seq(Entries) /\ ix2 \in 1..NFound
           /\ \E p : /\ IsOrder(p, NFound) /\ MovesTo(p, NFound, ix2, lastix)
                     /\ IsMatch(filelist', filelist, ix2, p)
  <1> DEFINE marked == [filelist EXCEPT ![ix2].dup = TRUE]
  <1>1. PICK n \in Nat : /\ n = NFound /\ n = Len(filelist) /\ filelist \in Seq(Entries)
                         /\ DOMAIN filelist = 1..n /\ \A k \in 1..n : filelist[k] \in Entries
    BY DEF IsListing, NFound
  <1>2. ix2 \in 1..n /\ lastix \in 1..ix2
    BY <1>1 DEF Match, Alike
  <1>3. ASSUME NEW k \in 1..n
        PROVE  /\ marked[k] \in Entries /\ marked[k].name = filelist[k].name
               /\ marked[k].length = filelist[k].length /\ marked[k].crc = filelist[k].crc
               /\ marked[k].inode = filelist[k].inode
               /\ marked[k].lnk <=> filelist[k].lnk
               /\ marked[k].dup <=> (k = ix2 \/ filelist[k].dup)
    <2>1. marked[k] = IF k = ix2 THEN [filelist[k] EXCEPT !.dup = TRUE] ELSE filelist[k]
      BY <1>1, <1>2
    <2> HIDE DEF marked
    <2> QED
      BY <1>1, <2>1 DEF Entries
  <1>4. DOMAIN marked = 1..n /\ marked = [k \in 1..n |-> marked[k]]
    BY <1>1
  <1>5. filelist' = Moved(marked, ix2, lastix)
    BY DEF Match
  <1> HIDE DEF marked
  <1>6. marked \in [1..n -> Entries]
    BY <1>3, <1>4
  <1>7. marked \in Seq(Entries) /\ Len(marked) = n
    BY <1>1, <1>6, SeqDef
  <1> DEFINE p == MovedFrom(n, ix2, lastix)
  <1>8. /\ filelist' \in Seq(Entries) /\ Len(filelist') = n
        /\ \A k \in 1..n : filelist'[k] = marked[p[k]]
    BY <1>2, <1>5, <1>7, MovedIs
  <1>9. IsOrder(p, n) /\ MovesTo(p, n, ix2, lastix)
    BY <1>1, <1>2, MovedFromIsOrder, MovedFromAre
  <1> HIDE DEF p
  <1>10. \A k \in 1..n : p[k] \in 1..n
    BY <1>9 DEF IsOrder
  <1>11. IsMatch(filelist', filelist, ix2, p)
    BY <1>1, <1>3, <1>8, <1>10 DEF IsMatch
  <1> QED
    BY <1>1, <1>2, <1>8, <1>9, <1>11

\* scan2 finds a duplicate and moves it behind the others.
LEMMA MatchStep ==
    ASSUME IsListing(filelist), Match, ix \in 1..NFound, ix2 \in Nat, lastix \in (ix + 1)..ix2
    PROVE  IsListing(filelist') /\ NFound' = NFound
  <1>1. PICK p : IsOrder(p, Len(filelist)) /\ IsMatch(filelist', filelist, ix2, p)
    BY MatchIs DEF NFound
  <1>2. filelist' \in Seq(Entries) /\ Len(filelist') = Len(filelist)
    BY <1>1, MatchIs DEF IsMatch
  <1>3. HasFilesOf(filelist', filelist, p)
    BY <1>1, <1>2 DEF HasFilesOf, IsMatch
  <1> QED
    BY <1>1, <1>2, <1>3, Rearranged DEF NFound

\* The files found are those of the disk.
LEMMA DiskStays ==
    ASSUME disk' = disk, IsListing(filelist')
    PROVE  IsListing(filelist)'
  <1>1. Found' = Found
    BY DEF Found, Names, ContentOf
  <1> QED
    BY <1>1 DEF IsListing, NamesOf

\* FindDupInvariant is inductive.
LEMMA FindDupNext == FindDupInvariant /\ [Next]_vars => FindDupInvariant'
  <1> SUFFICES ASSUME FindDupInvariant, [Next]_vars PROVE FindDupInvariant'
    OBVIOUS
  <1>1. disk' = disk /\ DiskOK /\ DiskOK'
    BY DEF Next, vars, Build, Sort, Scan1, Scan1Exit, MarkLinks, TakeHead, Match, NoMatch,
           EndOfRun, CompareExit, Scan3, Finished, FindDupInvariant, DiskOK
  <1>2. CASE Build
    <2>1. pc' = "sort"
      BY <1>2 DEF Build
    <2> QED
      BY <1>1, <1>2, <2>1, BuildStep DEF FindDupInvariant
  <1>3. CASE Sort
    <2>1. IsListing(filelist) /\ filelist' \in Sorts(filelist) /\ pc' \in {"scan1", "links"}
      BY <1>3 DEF Sort, FindDupInvariant
    <2>2. IsListing(filelist)'
      BY <1>1, <2>1, SortStep, DiskStays
    <2> QED
      BY <1>1, <2>1, <2>2 DEF FindDupInvariant
  <1>4. CASE Scan1
    <2>1. IsListing(filelist) /\ pc' \in {"resort", "links"}
      BY <1>4 DEF Scan1, FindDupInvariant
    <2>2. IsListing(filelist)'
      BY <1>1, <1>4, <2>1, Scan1Step, DiskStays
    <2> QED
      BY <1>1, <2>1, <2>2 DEF FindDupInvariant
  <1>5. CASE MarkLinks
    <2>1. IsListing(filelist) /\ pc' = "head" /\ lastix' = 1
      BY <1>5 DEF MarkLinks, FindDupInvariant
    <2>2. IsListing(filelist)'
      BY <1>1, <1>5, <2>1, MarkLinksStep, DiskStays
    <2> QED
      BY <1>1, <2>1, <2>2 DEF FindDupInvariant
  <1>6. CASE Match
    <2>1. /\ IsListing(filelist) /\ ix \in 1..NFound /\ ix2 \in Nat /\ lastix \in (ix + 1)..ix2
          /\ pc = "compare"
      BY <1>6 DEF Match, FindDupInvariant
    <2>2. IsListing(filelist)' /\ NFound' = NFound
      BY <1>1, <1>6, <2>1, MatchStep, DiskStays
    <2>3. /\ pc' = "compare" /\ ix' = ix /\ ix2' = ix2 + 1
          /\ lastix' = IF lastix # ix2 THEN lastix + 1 ELSE lastix
      BY <1>6, <2>1 DEF Match
    <2>4. NFound \in Nat
      BY <2>1 DEF IsListing, NFound
    <2>5. ix' \in 1..NFound' /\ ix2' \in Nat /\ lastix' \in (ix' + 1)..ix2'
      BY <2>1, <2>2, <2>3, <2>4
    <2> QED
      BY <1>1, <2>2, <2>3, <2>5 DEF FindDupInvariant
  <1>7. CASE TakeHead
    <2>1. /\ IsListing(filelist) /\ lastix \in Nat \ {0} /\ filelist' = filelist
          /\ \/ lastix <= NFound /\ pc' = "compare" /\ ix' = lastix
                /\ ix2' = lastix + 1 /\ lastix' = lastix + 1
             \/ pc' = "print"
      BY <1>7 DEF TakeHead, FindDupInvariant
    <2>2. IsListing(filelist)' /\ NFound' = NFound /\ NFound \in Nat
      BY <1>1, <2>1, DiskStays DEF IsListing, NFound
    <2> QED
      BY <1>1, <2>1, <2>2 DEF FindDupInvariant
  <1>8. CASE NoMatch \/ EndOfRun
    <2>1. /\ IsListing(filelist) /\ filelist' = filelist /\ lastix' = lastix /\ ix' = ix
          /\ ix \in 1..NFound /\ ix2 \in Nat /\ lastix \in (ix + 1)..ix2
          /\ \/ pc' = "head"
             \/ pc' = "compare" /\ ix2' = ix2 + 1
      BY <1>8 DEF NoMatch, EndOfRun, FindDupInvariant, locals
    <2>2. IsListing(filelist)' /\ NFound' = NFound /\ NFound \in Nat
      BY <1>1, <2>1, DiskStays DEF IsListing, NFound
    <2> QED
      BY <1>1, <2>1, <2>2 DEF FindDupInvariant
  <1>9. CASE Scan1Exit \/ CompareExit \/ Scan3
    <2>1. IsListing(filelist) /\ filelist' = filelist /\ pc' \in {"exit", "done"}
      BY <1>9 DEF Scan1Exit, CompareExit, Scan3, FindDupInvariant
    <2>2. IsListing(filelist)'
      BY <1>1, <2>1, DiskStays
    <2> QED
      BY <1>1, <2>1, <2>2 DEF FindDupInvariant
  <1>10. CASE Finished \/ UNCHANGED vars
    <2>1. UNCHANGED vars
      BY <1>10 DEF Finished
    <2>2. pc # "build" => IsListing(filelist)'
      BY <1>1, <2>1, DiskStays DEF vars, FindDupInvariant
    <2> QED
      BY <1>1, <2>1, <2>2 DEF vars, FindDupInvariant, NFound
  <1> QED
    BY <1>2, <1>3, <1>4, <1>5, <1>6, <1>7, <1>8, <1>9, <1>10 DEF Next

\* TypeOK: the list (finddup.c) is the files found, each of them once and with
\* its own inode, after any order qsort makes and any move in scan2, and
\* scan2's indices stay in it.
THEOREM ListIsFilesFound == Spec => []TypeOK
  <1>1. FindDupInvariant => TypeOK
    <2> SUFFICES ASSUME FindDupInvariant PROVE TypeOK
      OBVIOUS
    <2>1. pc # "build" => /\ IsListing(filelist) /\ DOMAIN filelist = 1..Len(filelist)
                          /\ NFound \in Nat
      BY DEF FindDupInvariant, IsListing, NFound
    <2>2. pc # "build" =>
            /\ {filelist[k].name : k \in DOMAIN filelist} = Found
            /\ NFound = Cardinality(Found)
            /\ \A k \in DOMAIN filelist : filelist[k].inode = disk.inode[filelist[k].name]
      BY <2>1 DEF IsListing, NamesOf, NFound
    <2>3. pc = "compare" => ix \in DOMAIN filelist /\ lastix \in (ix + 1)..ix2
      BY <2>1 DEF FindDupInvariant, NFound
    <2> QED
      BY <2>2, <2>3 DEF FindDupInvariant, TypeOK
  <1>2. Spec => []FindDupInvariant
    BY FindDupInit, FindDupNext, PTL DEF Spec
  <1> QED
    BY <1>1, <1>2, PTL

-------------------------------------------------------------------------------
\* The order that comp1 is without circles, and a list that is in it from a on.
Before(e, f) == \/ Below(e.length, f.length)
                \/ e.length = f.length /\ Below(e.crc, f.crc)
                \/ e.length = f.length /\ e.crc = f.crc /\ NotAfter(e.inode, f.inode)
SortedFrom(list, a) ==
    \A k, m \in 1..Len(list) : a <= k /\ k <= m => Before(list[k], list[m])

\* Entries have the length of their content, and those of one length all have
\* their CRC or all have none yet.
Filled(list) ==
    /\ \A k \in 1..Len(list) : list[k].length = Len(ContentOf(list[k].name))
    /\ \A k \in 1..Len(list) : \A m \in 1..Len(list) :
          list[k].length = list[m].length =>
             \/ list[k].crc = CrcOf(list[k].name) /\ list[m].crc = CrcOf(list[m].name)
             \/ list[k].crc = 0 /\ list[m].crc = 0
Unmarked(list) == \A k \in 1..Len(list) : ~list[k].lnk /\ ~list[k].dup

\* Of the entries of one file, one is no link.
OneIsNoLink(list) ==
    /\ \A k, m \in 1..Len(list) :
          list[k].inode = list[m].inode /\ ~list[k].lnk /\ ~list[m].lnk => k = m
    /\ \A k \in 1..Len(list) : \E m \in 1..Len(list) :
          list[m].inode = list[k].inode /\ ~list[m].lnk

-------------------------------------------------------------------------------
\* The types of an entry.
LEMMA EntryIs ==
    ASSUME NEW e \in Entries
    PROVE  /\ e.length \in Nat /\ e.crc \in Nat /\ e.inode \in Nat /\ e.crc \in Crcs \cup {0}
           /\ e.lnk \in BOOLEAN /\ e.dup \in BOOLEAN /\ e.name \in Nat
  <1>1. Crcs \cup {0} \subseteq Nat
    BY FindDupAssumption
  <1> QED
    BY <1>1 DEF Entries

\* What an entry of a list is.
LEMMA ListingIs ==
    ASSUME DiskOK, NEW list, IsListing(list)
    PROVE  /\ Len(list) \in Nat /\ list \in [1..Len(list) -> Entries]
           /\ \A k \in 1..Len(list) :
                 /\ list[k] \in Entries /\ list[k].name \in Found
                 /\ list[k].inode = disk.inode[list[k].name]
                 /\ list[k].inode \in Inodes
                 /\ ContentOf(list[k].name) \in Contents
                 /\ ContentOf(list[k].name) = disk.content[list[k].inode]
           /\ \A name \in Found : \E k \in 1..Len(list) : list[k].name = name
           /\ \A k, m \in 1..Len(list) : list[k].name = list[m].name => k = m
  <1>1. PICK n \in Nat : n = Len(list) /\ list \in Seq(Entries) /\ list \in [1..n -> Entries]
    BY DEF IsListing
  <1>2. /\ NamesOf(list) = Found
        /\ \A k, m \in 1..n : list[k].name = list[m].name => k = m
        /\ \A k \in 1..n : list[k].inode = disk.inode[list[k].name]
    BY <1>1 DEF IsListing
  <1>3. /\ \A k \in 1..n : list[k].name \in Found
        /\ \A name \in Found : \E k \in 1..n : list[k].name = name
    BY <1>1, <1>2 DEF NamesOf
  <1>4. ASSUME NEW k \in 1..n
        PROVE  /\ list[k] \in Entries /\ list[k].inode \in Inodes
               /\ ContentOf(list[k].name) \in Contents
               /\ ContentOf(list[k].name) = disk.content[list[k].inode]
    <2>1. disk.inode[list[k].name] \in Inodes /\ ContentOf(list[k].name) \in Contents
      BY <1>3, FoundAre
    <2> QED
      BY <1>1, <1>2, <2>1 DEF ContentOf
  <1> QED
    BY <1>1, <1>2, <1>3, <1>4

\* Filled entries of one content have one CRC.
LEMMA FilledAre ==
    ASSUME NEW list, Filled(list), NEW k \in 1..Len(list), NEW m \in 1..Len(list),
           ContentOf(list[k].name) = ContentOf(list[m].name)
    PROVE  list[k].length = list[m].length /\ list[k].crc = list[m].crc
  <1>1. list[k].length = list[m].length
    BY DEF Filled
  <1>2. \/ list[k].crc = CrcOf(list[k].name) /\ list[m].crc = CrcOf(list[m].name)
        \/ list[k].crc = 0 /\ list[m].crc = 0
    BY <1>1 DEF Filled
  <1>3. CrcOf(list[k].name) = CrcOf(list[m].name)
    BY DEF CrcOf
  <1> QED
    BY <1>1, <1>2, <1>3

\* comp1's differences are numbers, and 0 for equal ones.
LEMMA AsIntIs ==
    /\ \A d \in Int : AsInt(d) \in Int
    /\ AsInt(0) = 0
  <1>1. IntMod \in Nat /\ IntMod > 0
    BY FindDupAssumption
  <1>2. ASSUME NEW d \in Int PROVE AsInt(d) \in Int
    BY <1>1 DEF AsInt
  <1>3. IntMod \div 2 \in Nat /\ IntMod \div 2 < IntMod
    BY <1>1
  <1>4. (IntMod \div 2) % IntMod = IntMod \div 2
    BY <1>1, <1>3
  <1>5. AsInt(0) = 0
    BY <1>1, <1>3, <1>4 DEF AsInt
  <1> QED
    BY <1>2, <1>5

\* Numbers less than 2^31 apart are in order.
LEMMA CloseInOrder ==
    ASSUME NEW S, S \subseteq Nat, \A x \in S : \A y \in S : x - y < IntMod \div 2
    PROVE  InOrder(S)
  <1>1. IntMod \in Nat /\ IntMod > 0
    BY FindDupAssumption
  <1>2. PICK h \in Nat : h = IntMod \div 2 /\ h + h <= IntMod
    BY <1>1
  <1>3. ASSUME NEW x \in S, NEW y \in S PROVE AsInt(x - y) = x - y
    <2>1. x \in Int /\ y \in Int /\ x - y < h /\ y - x < h
      BY <1>2
    <2>2. PICK d \in Int : d = x - y /\ 0 <= d + h /\ d + h < IntMod
      BY <1>1, <1>2, <2>1
    <2>3. (d + h) % IntMod = d + h
      BY <1>1, <1>2, <2>2
    <2>4. AsInt(d) = d
      BY <1>2, <2>2, <2>3 DEF AsInt
    <2> QED
      BY <2>2, <2>4
  <1>4. ASSUME NEW x \in S, NEW y \in S PROVE Below(x, y) <=> x < y
    <2>1. AsInt(x - y) = x - y /\ x \in Nat /\ y \in Nat
      BY <1>3
    <2> QED
      BY <2>1 DEF Below
  <1>5. ASSUME NEW x \in S, NEW y \in S, AsInt(x - y) = 0 PROVE x = y
    <2>1. x - y = 0 /\ x \in Nat /\ y \in Nat
      BY <1>3, <1>5
    <2> QED
      BY <2>1
  <1>6. ASSUME NEW x \in S, NEW y \in S, NEW z \in S, Below(x, y), Below(y, z)
        PROVE  Below(x, z)
    <2>1. x < y /\ y < z /\ x \in Nat /\ y \in Nat /\ z \in Nat
      BY <1>4, <1>6
    <2>2. x < z
      BY <2>1
    <2> QED
      BY <1>4, <2>2
  <1> QED
    BY <1>5, <1>6 DEF InOrder

\* So there are no circles on a disk where no two lengths, CRCs or inodes are
\* 2^31 or more apart.
LEMMA NoCirclesIfClose ==
    ASSUME DiskOK,
           \A x \in Found : \A y \in Found :
              /\ Len(ContentOf(x)) - Len(ContentOf(y)) < IntMod \div 2
              /\ CrcOf(x) - CrcOf(y) < IntMod \div 2
              /\ disk.inode[x] - disk.inode[y] < IntMod \div 2
    PROVE  NoCircles
  <1>1. ASSUME NEW x \in Found
        PROVE  Len(ContentOf(x)) \in Nat /\ CrcOf(x) \in Nat /\ disk.inode[x] \in Nat
    <2>1. disk.inode[x] \in Nat /\ ContentOf(x) \in Contents
      BY FoundAre
    <2>2. Len(ContentOf(x)) \in Nat
      BY <2>1, FindDupAssumption
    <2>3. CrcOf(x) \in Crcs
      BY <2>1 DEF CrcOf, DiskOK
    <2> QED
      BY <2>1, <2>2, <2>3, FindDupAssumption
  <1>2. InOrder({Len(ContentOf(x)) : x \in Found})
    <2> DEFINE S == {Len(ContentOf(x)) : x \in Found}
    <2>1. S \subseteq Nat /\ \A x \in S : \A y \in S : x - y < IntMod \div 2
      BY <1>1
    <2> QED
      BY <2>1, CloseInOrder
  <1>3. ASSUME NEW name \in Found
        PROVE  /\ InOrder({CrcOf(x) : x \in SameLengthAs(name)})
               /\ InOrder({disk.inode[x] : x \in SameLengthAs(name)})
    <2> DEFINE C == {CrcOf(x) : x \in SameLengthAs(name)}
               N == {disk.inode[x] : x \in SameLengthAs(name)}
    <2>1. SameLengthAs(name) \subseteq Found
      BY DEF SameLengthAs
    <2>2. C \subseteq Nat /\ \A x \in C : \A y \in C : x - y < IntMod \div 2
      BY <1>1, <2>1
    <2>3. N \subseteq Nat /\ \A x \in N : \A y \in N : x - y < IntMod \div 2
      BY <1>1, <2>1
    <2> QED
      BY <2>2, <2>3, CloseInOrder
  <1> QED
    BY <1>2, <1>3 DEF NoCircles

\* What an order of three numbers is: there is no way back.
LEMMA InOrderIs ==
    ASSUME NEW x \in Nat, NEW y \in Nat, NEW z \in Nat, InOrder({x, y, z})
    PROVE  /\ AsInt(x - y) \in Int /\ (AsInt(x - y) = 0 => x = y)
           /\ ~Below(x, x) /\ ~Below(z, z)
           /\ ~ (Below(x, y) /\ Below(y, x)) /\ ~ (Below(y, z) /\ Below(z, y))
           /\ Below(x, y) /\ Below(y, z) => Below(x, z)
  <1>1. ASSUME NEW v \in Nat PROVE ~Below(v, v)
    <2>1. v - v = 0
      OBVIOUS
    <2> QED
      BY <2>1, AsIntIs DEF Below
  <1>2. x - y \in Int
    OBVIOUS
  <1>3. AsInt(x - y) \in Int
    BY <1>2, AsIntIs
  <1>4. /\ AsInt(x - y) = 0 => x = y
        /\ Below(x, y) /\ Below(y, z) => Below(x, z)
        /\ Below(x, y) /\ Below(y, x) => Below(x, x)
        /\ Below(y, z) /\ Below(z, y) => Below(y, y)
    BY DEF InOrder
  <1> QED
    BY <1>1, <1>3, <1>4

\* The numbers of three filled entries are in order, if nothing goes round in
\* circles on the disk.
LEMMA NumbersInOrder ==
    ASSUME NoCircles, DiskOK, NEW list, IsListing(list), Filled(list),
           NEW i \in 1..Len(list), NEW j \in 1..Len(list), NEW k \in 1..Len(list)
    PROVE  /\ InOrder({list[i].length, list[j].length, list[k].length})
           /\ list[i].length = list[j].length /\ list[j].length = list[k].length =>
                /\ InOrder({list[i].crc, list[j].crc, list[k].crc})
                /\ InOrder({list[i].inode, list[j].inode, list[k].inode})
  <1>1. /\ list[i].name \in Found /\ list[j].name \in Found /\ list[k].name \in Found
        /\ list[i].inode = disk.inode[list[i].name]
        /\ list[j].inode = disk.inode[list[j].name]
        /\ list[k].inode = disk.inode[list[k].name]
    BY ListingIs
  <1>2. /\ list[i].length = Len(ContentOf(list[i].name))
        /\ list[j].length = Len(ContentOf(list[j].name))
        /\ list[k].length = Len(ContentOf(list[k].name))
    BY DEF Filled
  <1>3. \A S, T : T \subseteq S /\ InOrder(S) => InOrder(T)
    BY DEF InOrder
  <1>4. InOrder({list[i].length, list[j].length, list[k].length})
    <2>1. {list[i].length, list[j].length, list[k].length}
             \subseteq {Len(ContentOf(x)) : x \in Found}
      BY <1>1, <1>2
    <2> QED
      BY <1>3, <2>1 DEF NoCircles
  <1>5. ASSUME list[i].length = list[j].length, list[j].length = list[k].length
        PROVE  /\ InOrder({list[i].crc, list[j].crc, list[k].crc})
               /\ InOrder({list[i].inode, list[j].inode, list[k].inode})
    <2> DEFINE same == SameLengthAs(list[i].name)
    <2>1. list[i].name \in same /\ list[j].name \in same /\ list[k].name \in same
      BY <1>1, <1>2, <1>5 DEF SameLengthAs
    <2>2. InOrder({CrcOf(x) : x \in same}) /\ InOrder({disk.inode[x] : x \in same})
      BY <1>1 DEF NoCircles
    <2> HIDE DEF same
    <2>3. {list[i].inode, list[j].inode, list[k].inode} \subseteq {disk.inode[x] : x \in same}
      BY <1>1, <2>1
    <2>4. CASE list[i].crc = 0 /\ list[j].crc = 0 /\ list[k].crc = 0
      <3>1. InOrder({0})
        <4>1. 0 - 0 = 0
          OBVIOUS
        <4> QED
          BY <4>1, AsIntIs DEF InOrder, Below
      <3>2. {list[i].crc, list[j].crc, list[k].crc} = {0}
        BY <2>4
      <3> QED
        BY <1>3, <2>2, <2>3, <3>1, <3>2
    <2>5. CASE ~ (list[i].crc = 0 /\ list[j].crc = 0 /\ list[k].crc = 0)
      <3>1. /\ \/ list[i].crc = CrcOf(list[i].name) /\ list[j].crc = CrcOf(list[j].name)
               \/ list[i].crc = 0 /\ list[j].crc = 0
            /\ \/ list[j].crc = CrcOf(list[j].name) /\ list[k].crc = CrcOf(list[k].name)
               \/ list[j].crc = 0 /\ list[k].crc = 0
            /\ \/ list[i].crc = CrcOf(list[i].name) /\ list[k].crc = CrcOf(list[k].name)
               \/ list[i].crc = 0 /\ list[k].crc = 0
        BY <1>5 DEF Filled
      <3>2. /\ list[i].crc = CrcOf(list[i].name) /\ list[j].crc = CrcOf(list[j].name)
            /\ list[k].crc = CrcOf(list[k].name)
        BY <2>5, <3>1
      <3>3. {list[i].crc, list[j].crc, list[k].crc} \subseteq {CrcOf(x) : x \in same}
        BY <2>1, <3>2
      <3> QED
        BY <1>3, <2>2, <2>3, <3>3
    <2> QED
      BY <2>4, <2>5
  <1> QED
    BY <1>4, <1>5

\* Then comp1 is an order of the entries, and an entry between two of one
\* length and CRC has them too, and an inode between theirs.
LEMMA ListOrder ==
    ASSUME NoCircles, DiskOK, NEW list, IsListing(list), Filled(list),
           NEW i \in 1..Len(list), NEW j \in 1..Len(list), NEW k \in 1..Len(list)
    PROVE  /\ Before(list[i], list[i])
           /\ Comp1(list[i], list[j]) <= 0 => Before(list[i], list[j])
           /\ Before(list[i], list[j]) /\ Before(list[j], list[k]) =>
                /\ Before(list[i], list[k])
                /\ list[i].length = list[k].length => list[j].length = list[k].length
                /\ list[i].length = list[k].length /\ list[i].crc = list[k].crc =>
                     /\ list[j].crc = list[k].crc
                     /\ NotAfter(list[i].inode, list[j].inode)
                     /\ NotAfter(list[j].inode, list[k].inode)
  <1>1. /\ list[i] \in Entries /\ list[j] \in Entries /\ list[k] \in Entries
    BY ListingIs
  <1>2. /\ list[i].length \in Nat /\ list[j].length \in Nat /\ list[k].length \in Nat
        /\ list[i].crc \in Nat /\ list[j].crc \in Nat /\ list[k].crc \in Nat
        /\ list[i].inode \in Nat /\ list[j].inode \in Nat /\ list[k].inode \in Nat
    BY <1>1, EntryIs
  <1>3. Before(list[i], list[i])
    BY DEF Before, NotAfter
  <1>4. /\ InOrder({list[i].length, list[j].length, list[k].length})
        /\ list[i].length = list[j].length /\ list[j].length = list[k].length =>
             /\ InOrder({list[i].crc, list[j].crc, list[k].crc})
             /\ InOrder({list[i].inode, list[j].inode, list[k].inode})
    BY NumbersInOrder
  <1>5. ASSUME Comp1(list[i], list[j]) <= 0 PROVE Before(list[i], list[j])
    <2> DEFINE l == AsInt(list[i].length - list[j].length)
               c == AsInt(list[i].crc - list[j].crc)
               d == AsInt(list[i].inode - list[j].inode)
    <2>1. l \in Int /\ (l = 0 => list[i].length = list[j].length)
      BY <1>2, <1>4, InOrderIs
    <2>2. (IF l # 0 THEN l ELSE IF c # 0 THEN c ELSE d) <= 0
      BY <1>5 DEF Comp1
    <2>3. CASE l # 0
      <3>1. l < 0
        BY <2>1, <2>2, <2>3
      <3> QED
        BY <3>1 DEF Before, Below
    <2>4. CASE l = 0
      <3>1. /\ list[i].length = list[j].length
            /\ InOrder({list[i].crc, list[j].crc, list[j].crc})
            /\ InOrder({list[i].inode, list[j].inode, list[j].inode})
        BY <2>1, <2>4, NumbersInOrder
      <3>2. c \in Int /\ (c = 0 => list[i].crc = list[j].crc)
        BY <1>2, <3>1, InOrderIs
      <3>3. d \in Int /\ (d = 0 => list[i].inode = list[j].inode)
        BY <1>2, <3>1, InOrderIs
      <3>4. CASE c # 0
        <4>1. c < 0
          BY <2>2, <2>4, <3>2, <3>4
        <4> QED
          BY <3>1, <4>1 DEF Before, Below
      <3>5. CASE c = 0
        <4>1. d <= 0
          BY <2>2, <2>4, <3>5
        <4>2. d < 0 \/ d = 0
          BY <3>3, <4>1
        <4> QED
          BY <3>1, <3>2, <3>3, <3>5, <4>2 DEF Before, Below, NotAfter
      <3> QED
        BY <3>4, <3>5
    <2> QED
      BY <2>3, <2>4
  <1>6. /\ ~Below(list[i].length, list[i].length) /\ ~Below(list[k].length, list[k].length)
        /\ ~ (Below(list[i].length, list[j].length) /\ Below(list[j].length, list[i].length))
        /\ ~ (Below(list[j].length, list[k].length) /\ Below(list[k].length, list[j].length))
        /\ Below(list[i].length, list[j].length) /\ Below(list[j].length, list[k].length)
             => Below(list[i].length, list[k].length)
    BY <1>2, <1>4, InOrderIs
  <1>7. ASSUME list[i].length = list[j].length, list[j].length = list[k].length
        PROVE  /\ ~Below(list[i].crc, list[i].crc) /\ ~Below(list[k].crc, list[k].crc)
               /\ Below(list[i].crc, list[j].crc) /\ Below(list[j].crc, list[k].crc)
                    => Below(list[i].crc, list[k].crc)
               /\ Below(list[i].inode, list[j].inode) /\ Below(list[j].inode, list[k].inode)
                    => Below(list[i].inode, list[k].inode)
    BY <1>2, <1>4, <1>7, InOrderIs
  <1>8. ASSUME Before(list[i], list[j]), Before(list[j], list[k])
        PROVE  Before(list[i], list[k])
    <2>1. CASE list[i].length = list[j].length /\ list[j].length = list[k].length
      BY <1>7, <1>8, <2>1 DEF Before, NotAfter
    <2>2. CASE ~ (list[i].length = list[j].length /\ list[j].length = list[k].length)
      <3>1. Below(list[i].length, list[k].length)
        BY <1>6, <1>8, <2>2 DEF Before
      <3> QED
        BY <3>1 DEF Before
    <2> QED
      BY <2>1, <2>2
  <1>9. ASSUME Before(list[i], list[j]), Before(list[j], list[k]), list[i].length = list[k].length
        PROVE  /\ list[j].length = list[k].length
               /\ list[i].crc = list[k].crc => /\ list[j].crc = list[k].crc
                                               /\ NotAfter(list[i].inode, list[j].inode)
                                               /\ NotAfter(list[j].inode, list[k].inode)
    <2>1. list[j].length = list[k].length
      BY <1>6, <1>9 DEF Before
    <2>2. ASSUME list[i].crc = list[k].crc PROVE list[j].crc = list[k].crc
      BY <1>6, <1>7, <1>9, <2>1, <2>2 DEF Before
    <2>3. ASSUME list[i].crc = list[k].crc
          PROVE  NotAfter(list[i].inode, list[j].inode) /\ NotAfter(list[j].inode, list[k].inode)
      BY <1>6, <1>7, <1>9, <2>1, <2>2, <2>3 DEF Before
    <2> QED
      BY <2>1, <2>2, <2>3
  <1> QED
    BY <1>3, <1>5, <1>8, <1>9

\* Two inodes of one length that come after each other are the same.
LEMMA SameInode ==
    ASSUME NoCircles, DiskOK, NEW list, IsListing(list), Filled(list),
           NEW i \in 1..Len(list), NEW j \in 1..Len(list), list[i].length = list[j].length,
           NotAfter(list[i].inode, list[j].inode), NotAfter(list[j].inode, list[i].inode)
    PROVE  list[i].inode = list[j].inode
  <1>1. list[i].inode \in Nat /\ list[j].inode \in Nat
    BY ListingIs, EntryIs
  <1>2. InOrder({list[i].inode, list[j].inode, list[j].inode})
    BY NumbersInOrder
  <1>3. ~ (Below(list[i].inode, list[j].inode) /\ Below(list[j].inode, list[i].inode))
    BY <1>1, <1>2, InOrderIs
  <1> QED
    BY <1>3 DEF NotAfter

\* A list with its neighbours in order is sorted.
LEMMA NeighboursSorted ==
    ASSUME NoCircles, DiskOK, NEW list, IsListing(list), Filled(list),
           NEW n \in Nat, n = Len(list),
           \A k \in 1..(n - 1) : Before(list[k], list[k + 1]),
           NEW a \in 1..n, NEW b \in 1..n, a <= b
    PROVE  Before(list[a], list[b])
  <1> DEFINE T == {m \in a..n : ~Before(list[a], list[m])}
  <1> SUFFICES ASSUME T # {} PROVE FALSE
    OBVIOUS
  <1>1. T \subseteq Nat
    OBVIOUS
  <1>2. PICK m \in T : \A y \in T : m <= y
    BY <1>1, LeastIs
  <1>3. m \in a..n /\ ~Before(list[a], list[m]) /\ m \in 1..n
    OBVIOUS
  <1>4. m # a
    <2>1. Before(list[a], list[a])
      BY ListOrder
    <2> QED
      BY <1>3, <2>1
  <1>5. m - 1 \in a..n /\ m - 1 \in 1..(n - 1) /\ m - 1 \in 1..n /\ (m - 1) + 1 = m
    BY <1>3, <1>4
  <1>6. m - 1 \notin T
    BY <1>2, <1>5
  <1>7. Before(list[a], list[m - 1]) /\ Before(list[m - 1], list[m])
    BY <1>5, <1>6
  <1>8. a \in 1..Len(list) /\ m - 1 \in 1..Len(list) /\ m \in 1..Len(list)
    BY <1>3, <1>5
  <1> QED
    BY <1>3, <1>7, <1>8, ListOrder

\* The list that qsort makes is sorted, if nothing goes round in circles.
LEMMA SortsSort ==
    ASSUME NoCircles, DiskOK, NEW list, IsListing(list), Filled(list), Unmarked(list),
           NEW new \in Sorts(list)
    PROVE  Filled(new) /\ Unmarked(new) /\ SortedFrom(new, 1)
  <1>1. PICK n \in Nat : n = Len(list)
    BY DEF IsListing
  <1>2. PICK p : /\ IsOrder(p, n)
                 /\ \A k \in 1..n : p[k] \in 1..n /\ new[k] = list[p[k]]
    BY <1>1, SortsAre
  <1>3. /\ Len(new) = n /\ IsListing(new)
        /\ \A k \in 1..(n - 1) : Comp1(new[k], new[k + 1]) <= 0
    BY <1>1, SortsAre, SortStep
  <1>4. Filled(new)
    <2>1. \A k \in 1..n : new[k].length = Len(ContentOf(new[k].name))
      BY <1>1, <1>2 DEF Filled
    <2>2. ASSUME NEW k \in 1..n, NEW m \in 1..n, new[k].length = new[m].length
          PROVE  \/ new[k].crc = CrcOf(new[k].name) /\ new[m].crc = CrcOf(new[m].name)
                 \/ new[k].crc = 0 /\ new[m].crc = 0
      <3>1. PICK i \in 1..n, j \in 1..n : new[k] = list[i] /\ new[m] = list[j]
        BY <1>2
      <3>2. list[i].length = list[j].length
        BY <2>2, <3>1
      <3> QED
        BY <1>1, <3>1, <3>2 DEF Filled
    <2> QED
      BY <1>3, <2>1, <2>2 DEF Filled
  <1>5. Unmarked(new)
    BY <1>1, <1>2, <1>3 DEF Unmarked
  <1>6. ASSUME NEW k \in 1..(n - 1) PROVE Before(new[k], new[k + 1])
    <2>1. k \in 1..Len(new) /\ k + 1 \in 1..Len(new) /\ Comp1(new[k], new[k + 1]) <= 0
      BY <1>1, <1>3
    <2> QED
      BY <1>3, <1>4, <2>1, ListOrder
  <1>7. SortedFrom(new, 1)
    <2>1. ASSUME NEW k \in 1..n, NEW m \in 1..n, k <= m PROVE Before(new[k], new[m])
      BY <1>3, <1>4, <1>6, <2>1, NeighboursSorted
    <2> QED
      BY <1>3, <2>1 DEF SortedFrom
  <1> QED
    BY <1>4, <1>5, <1>7

\* Every link comes after an entry of its file, and the first one is no link.
\* (An entry that matched may be moved in front of one of its own file.)
LinksAreLater(list) ==
    \A m \in 1..Len(list) : ~list[m].dup =>
       (list[m].lnk <=> \E k \in 1..(m - 1) : list[k].inode = list[m].inode)

\* Build fills in the entries.
LEMMA BuildFills ==
    ASSUME DiskOK, Build
    PROVE  Filled(filelist') /\ Unmarked(filelist')
  <1> DEFINE found == SetToSeq(Found)
  <1>1. filelist' = [k \in DOMAIN found |-> Entry(found[k])]
    BY DEF Build, Found
  <1>2. filelist' \in Seq(Entries)
    BY BuildStep DEF IsListing
  <1> HIDE DEF found
  <1>3. ASSUME NEW k \in 1..Len(filelist')
        PROVE  /\ filelist'[k].length = Len(ContentOf(filelist'[k].name))
               /\ filelist'[k].crc = 0 /\ ~filelist'[k].lnk /\ ~filelist'[k].dup
    <2>1. k \in DOMAIN filelist'
      BY <1>2
    <2>2. filelist'[k] = Entry(found[k])
      BY <1>1, <2>1
    <2> QED
      BY <2>2 DEF Entry
  <1> QED
    BY <1>3 DEF Filled, Unmarked

\* scan1 gives all entries of one content their CRC: in a sorted list there is
\* a neighbour of the same length.
LEMMA Scan1Fills ==
    ASSUME DiskOK, IsListing(filelist), Filled(filelist), Unmarked(filelist),
           SortedFrom(filelist, 1), NoCircles, Scan1
    PROVE  /\ Filled(filelist') /\ Unmarked(filelist')
           /\ pc' = "links" => SortedFrom(filelist', 1)
  <1>1. PICK n \in Nat : /\ n = Len(filelist) /\ DOMAIN filelist = 1..n
                         /\ \A k \in 1..n : filelist[k] \in Entries
    BY ListingIs
  <1>2. filelist' = [k \in 1..n |-> IF SameLength(k)
                                    THEN [filelist[k] EXCEPT !.crc = CrcOf(filelist[k].name)]
                                    ELSE filelist[k]]
    BY <1>1 DEF Scan1, CrcOf
  <1>3. Len(filelist') = n
    <2>1. IsListing(filelist')
      BY Scan1Step
    <2>2. Len(filelist') \in Nat /\ DOMAIN filelist' = 1..Len(filelist')
      BY <2>1 DEF IsListing
    <2> QED
      BY <1>1, <1>2, <2>2
  <1>4. ASSUME NEW k \in 1..n
        PROVE  /\ filelist'[k].name = filelist[k].name
               /\ filelist'[k].length = filelist[k].length
               /\ filelist'[k].lnk = filelist[k].lnk /\ filelist'[k].dup = filelist[k].dup
               /\ filelist'[k].crc = IF SameLength(k) THEN CrcOf(filelist[k].name)
                                                      ELSE filelist[k].crc
    <2>1. filelist'[k] = IF SameLength(k)
                         THEN [filelist[k] EXCEPT !.crc = CrcOf(filelist[k].name)]
                         ELSE filelist[k]
      BY <1>2
    <2> QED
      BY <1>1, <2>1 DEF Entries
  <1>5. ASSUME NEW k \in 1..n, NEW m \in 1..n, k < m, filelist[k].length = filelist[m].length
        PROVE  SameLength(k) /\ SameLength(m)
    <2>1. k + 1 \in 1..n /\ m - 1 \in 1..n /\ k <= k + 1 /\ k + 1 <= m /\ k <= m - 1 /\ m - 1 <= m
      BY <1>5
    <2>2. /\ Before(filelist[k], filelist[k + 1]) /\ Before(filelist[k + 1], filelist[m])
          /\ Before(filelist[k], filelist[m - 1]) /\ Before(filelist[m - 1], filelist[m])
      BY <1>1, <2>1 DEF SortedFrom
    <2>3. filelist[k + 1].length = filelist[m].length
      BY <1>1, <1>5, <2>1, <2>2, ListOrder
    <2>4. filelist[m - 1].length = filelist[m].length
      BY <1>1, <1>5, <2>1, <2>2, ListOrder
    <2> QED
      BY <1>1, <1>5, <2>1, <2>3, <2>4 DEF SameLength
  <1>6. ASSUME NEW k \in 1..n, NEW m \in 1..n, filelist'[k].length = filelist'[m].length
        PROVE  \/ /\ filelist'[k].crc = CrcOf(filelist'[k].name)
                  /\ filelist'[m].crc = CrcOf(filelist'[m].name)
               \/ filelist'[k].crc = 0 /\ filelist'[m].crc = 0
    <2>1. filelist[k].length = filelist[m].length
      BY <1>4, <1>6
    <2>2. \/ filelist[k].crc = CrcOf(filelist[k].name) /\ filelist[m].crc = CrcOf(filelist[m].name)
          \/ filelist[k].crc = 0 /\ filelist[m].crc = 0
      BY <1>1, <2>1 DEF Filled
    <2>3. CASE k = m
      BY <1>4, <2>2, <2>3
    <2>4. CASE k # m
      <3>1. k < m \/ m < k
        BY <2>4
      <3>2. SameLength(k) /\ SameLength(m)
        BY <1>5, <2>1, <3>1
      <3> QED
        BY <1>4, <3>2
    <2> QED
      BY <2>3, <2>4
  <1>7. Filled(filelist')
    <2>1. \A k \in 1..n : filelist'[k].length = Len(ContentOf(filelist'[k].name))
      BY <1>1, <1>4 DEF Filled
    <2> QED
      BY <1>3, <1>6, <2>1 DEF Filled
  <1>8. Unmarked(filelist')
    BY <1>1, <1>3, <1>4 DEF Unmarked
  <1>9. ASSUME pc' = "links" PROVE SortedFrom(filelist', 1)
    <2>1. \A k \in 1..n : ~SameLength(k)
      BY <1>1, <1>9 DEF Scan1
    <2>2. \A k \in 1..n : filelist'[k] = filelist[k]
      BY <1>2, <2>1
    <2> QED
      BY <1>1, <1>3, <2>2 DEF SortedFrom
  <1> QED
    BY <1>7, <1>8, <1>9

\* The names of one file are next to each other when scan2 marks links.
LEMMA MarkLinksMarks ==
    ASSUME DiskOK, IsListing(filelist), Filled(filelist), Unmarked(filelist),
           SortedFrom(filelist, 1), NoCircles, MarkLinks
    PROVE  /\ Filled(filelist') /\ LinksAreLater(filelist') /\ OneIsNoLink(filelist')
           /\ SortedFrom(filelist', 1) /\ \A k \in 1..Len(filelist') : ~filelist'[k].dup
  <1>1. PICK n \in Nat : /\ n = Len(filelist) /\ DOMAIN filelist = 1..n
                         /\ \A k \in 1..n : filelist[k] \in Entries
    BY ListingIs
  <1> DEFINE Next2(k) == k > 1 /\ filelist[k - 1].inode = filelist[k].inode
  <1>2. filelist' = [k \in 1..n |-> IF Next2(k) THEN [filelist[k] EXCEPT !.lnk = TRUE]
                                              ELSE filelist[k]]
    BY <1>1 DEF MarkLinks
  <1>3. Len(filelist') = n
    <2>1. IsListing(filelist')
      BY MarkLinksStep
    <2>2. Len(filelist') \in Nat /\ DOMAIN filelist' = 1..Len(filelist')
      BY <2>1 DEF IsListing
    <2> QED
      BY <1>1, <1>2, <2>2
  <1>4. ASSUME NEW k \in 1..n
        PROVE  /\ filelist'[k].name = filelist[k].name
               /\ filelist'[k].length = filelist[k].length
               /\ filelist'[k].crc = filelist[k].crc /\ filelist'[k].inode = filelist[k].inode
               /\ filelist'[k].lnk <=> Next2(k)
               /\ ~filelist'[k].dup
    <2>1. filelist'[k] = IF Next2(k) THEN [filelist[k] EXCEPT !.lnk = TRUE] ELSE filelist[k]
      BY <1>2
    <2>2. ~filelist[k].lnk /\ ~filelist[k].dup
      BY <1>1 DEF Unmarked
    <2> HIDE DEF Next2
    <2> QED
      BY <1>1, <2>1, <2>2 DEF Entries
  <1>5. ASSUME NEW k \in 1..n, NEW m \in 1..n, k < m, filelist[k].inode = filelist[m].inode
        PROVE  Next2(m)
    <2>1. ContentOf(filelist[k].name) = ContentOf(filelist[m].name)
      BY <1>1, <1>5, ListingIs
    <2>2. filelist[k].length = filelist[m].length /\ filelist[k].crc = filelist[m].crc
      BY <1>1, <2>1, FilledAre
    <2>3. m - 1 \in 1..n /\ k <= m - 1 /\ m - 1 <= m
      BY <1>5
    <2>4. Before(filelist[k], filelist[m - 1]) /\ Before(filelist[m - 1], filelist[m])
      BY <1>1, <2>3 DEF SortedFrom
    <2>5. /\ filelist[m - 1].length = filelist[m].length
          /\ NotAfter(filelist[k].inode, filelist[m - 1].inode)
          /\ NotAfter(filelist[m - 1].inode, filelist[m].inode)
      BY <1>1, <2>2, <2>3, <2>4, ListOrder
    <2>6. NotAfter(filelist[m].inode, filelist[m - 1].inode)
      BY <1>5, <2>5
    <2>7. filelist[m - 1].inode = filelist[m].inode
      BY <1>1, <2>3, <2>5, <2>6, SameInode
    <2> QED
      BY <1>5, <2>7
  <1>6. ASSUME NEW m \in 1..n
        PROVE  filelist'[m].lnk <=> \E k \in 1..(m - 1) : filelist'[k].inode = filelist'[m].inode
    <2>1. ASSUME filelist'[m].lnk
          PROVE  \E k \in 1..(m - 1) : filelist'[k].inode = filelist'[m].inode
      <3>1. m > 1 /\ filelist[m - 1].inode = filelist[m].inode
        BY <1>4, <2>1
      <3>2. m - 1 \in 1..(m - 1) /\ m - 1 \in 1..n
        BY <3>1
      <3> QED
        BY <1>4, <3>1, <3>2
    <2>2. ASSUME NEW k \in 1..(m - 1), filelist'[k].inode = filelist'[m].inode
          PROVE  filelist'[m].lnk
      <3>1. k \in 1..n /\ k < m
        OBVIOUS
      <3>2. filelist[k].inode = filelist[m].inode
        BY <1>4, <2>2, <3>1
      <3>3. Next2(m)
        BY <1>5, <3>1, <3>2
      <3> QED
        BY <1>4, <3>3
    <2> QED
      BY <2>1, <2>2
  <1>7. Filled(filelist')
    <2>1. \A k \in 1..n : filelist'[k].length = Len(ContentOf(filelist'[k].name))
      BY <1>1, <1>4 DEF Filled
    <2>2. ASSUME NEW k \in 1..n, NEW m \in 1..n, filelist'[k].length = filelist'[m].length
          PROVE  \/ /\ filelist'[k].crc = CrcOf(filelist'[k].name)
                    /\ filelist'[m].crc = CrcOf(filelist'[m].name)
                 \/ filelist'[k].crc = 0 /\ filelist'[m].crc = 0
      BY <1>1, <1>4, <2>2 DEF Filled
    <2> QED
      BY <1>3, <2>1, <2>2 DEF Filled
  <1>8. LinksAreLater(filelist')
    BY <1>3, <1>6 DEF LinksAreLater
  <1>9. OneIsNoLink(filelist')
    <2>1. ASSUME NEW k \in 1..n, NEW m \in 1..n, filelist'[k].inode = filelist'[m].inode,
                 ~filelist'[k].lnk, ~filelist'[m].lnk
          PROVE  k = m
      <3>1. CASE k < m
        BY <1>6, <2>1, <3>1
      <3>2. CASE m < k
        BY <1>6, <2>1, <3>2
      <3> QED
        BY <3>1, <3>2
    <2>2. ASSUME NEW k \in 1..n
          PROVE  \E m \in 1..n : filelist'[m].inode = filelist'[k].inode /\ ~filelist'[m].lnk
      <3> DEFINE T == {m \in 1..n : filelist'[m].inode = filelist'[k].inode}
      <3>1. T \subseteq Nat
        OBVIOUS
      <3>2. k \in T
        OBVIOUS
      <3>3. PICK m \in T : \A j \in T : m <= j
        BY <3>1, <3>2, LeastIs
      <3>4. \A j \in 1..(m - 1) : filelist'[j].inode # filelist'[m].inode
        BY <3>3
      <3> QED
        BY <1>6, <3>3, <3>4
    <2> QED
      BY <1>3, <2>1, <2>2 DEF OneIsNoLink
  <1>10. SortedFrom(filelist', 1)
    <2>1. \A k, m \in 1..n : k <= m => Before(filelist[k], filelist[m])
      BY <1>1 DEF SortedFrom
    <2>2. \A k, m \in 1..n : Before(filelist[k], filelist[m]) => Before(filelist'[k], filelist'[m])
      BY <1>4 DEF Before
    <2> QED
      BY <1>3, <2>1, <2>2 DEF SortedFrom
  <1> QED
    BY <1>3, <1>4, <1>7, <1>8, <1>9, <1>10

\* In another order, one entry of a file is no link still.
LEMMA OneStays ==
    ASSUME NEW list, OneIsNoLink(list), NEW n, n = Len(list), NEW new, Len(new) = n,
           NEW p, IsOrder(p, n),
           \A k \in 1..n : /\ p[k] \in 1..n /\ new[k].inode = list[p[k]].inode
                           /\ new[k].lnk <=> list[p[k]].lnk
    PROVE  OneIsNoLink(new)
  <1>1. ASSUME NEW k \in 1..n, NEW m \in 1..n, new[k].inode = new[m].inode,
               ~new[k].lnk, ~new[m].lnk
        PROVE  k = m
    <2>1. /\ p[k] \in 1..n /\ p[m] \in 1..n /\ list[p[k]].inode = list[p[m]].inode
          /\ ~list[p[k]].lnk /\ ~list[p[m]].lnk
      BY <1>1
    <2>2. p[k] = p[m]
      BY <2>1 DEF OneIsNoLink
    <2> QED
      BY <2>2 DEF IsOrder
  <1>2. ASSUME NEW k \in 1..n
        PROVE  \E m \in 1..n : new[m].inode = new[k].inode /\ ~new[m].lnk
    <2>1. PICK i \in 1..n : list[i].inode = list[p[k]].inode /\ ~list[i].lnk
      BY DEF OneIsNoLink
    <2>2. PICK m \in 1..n : p[m] = i
      BY DEF IsOrder
    <2> QED
      BY <2>1, <2>2
  <1> QED
    BY <1>1, <1>2 DEF OneIsNoLink

\* The phases in which scan2's links are marked.
scan2 == {"head", "compare", "print", "done"}

\* LinksMarked needs the list in order when the links are marked.
LinksInvariant ==
    /\ FindDupInvariant /\ NoCircles
    /\ pc \in {"sort", "scan1", "resort", "links"} => Filled(filelist) /\ Unmarked(filelist)
    /\ pc \in {"scan1", "links"} => SortedFrom(filelist, 1)
    /\ pc \in scan2 => OneIsNoLink(filelist)

\* What is said of a new list is true in the next state.
LEMMA FillingStays ==
    ASSUME disk' = disk
    PROVE  /\ Filled(filelist') => Filled(filelist)'
           /\ Unmarked(filelist') => Unmarked(filelist)'
           /\ SortedFrom(filelist', 1) => SortedFrom(filelist, 1)'
           /\ OneIsNoLink(filelist') => OneIsNoLink(filelist)'
  <1>1. \A name : ContentOf(name)' = ContentOf(name) /\ CrcOf(name)' = CrcOf(name)
    BY DEF ContentOf, CrcOf
  <1>2. Filled(filelist') => Filled(filelist)'
    BY <1>1 DEF Filled
  <1> QED
    BY <1>2 DEF Unmarked, SortedFrom, Before, Below, NotAfter, AsInt, OneIsNoLink

\* The disk is only read, so that what is said of it stays true, or false.
LEMMA DiskIsRead == [Next]_vars => disk' = disk
  BY DEF Next, vars, Build, Sort, Scan1, Scan1Exit, MarkLinks, TakeHead, Match, NoMatch,
         EndOfRun, CompareExit, Scan3, Finished

LEMMA NoCirclesStays == disk' = disk => (NoCircles' <=> NoCircles)
  <1> SUFFICES ASSUME disk' = disk PROVE NoCircles' <=> NoCircles
    OBVIOUS
  <1>1. \A name : ContentOf(name)' = ContentOf(name) /\ CrcOf(name)' = CrcOf(name)
    BY DEF ContentOf, CrcOf
  <1>2. Found' = Found
    BY <1>1 DEF Found, Names
  <1>3. \A name : SameLengthAs(name)' = SameLengthAs(name)
    BY <1>1, <1>2 DEF SameLengthAs
  <1> QED
    BY <1>1, <1>2, <1>3 DEF NoCircles, InOrder, Below, AsInt

LEMMA BytesCompareStays == disk' = disk => (BytesCompare' <=> BytesCompare)
  <1> SUFFICES ASSUME disk' = disk PROVE BytesCompare' <=> BytesCompare
    OBVIOUS
  <1>1. Found' = Found
    BY DEF Found, Names, ContentOf
  <1> QED
    BY <1>1 DEF BytesCompare, ContentOf

\* LinksInvariant is inductive.
LEMMA LinksNext ==
    ASSUME LinksInvariant, [Next]_vars
    PROVE  LinksInvariant'
  <1>1. FindDupInvariant /\ FindDupInvariant' /\ DiskOK /\ NoCircles
    BY FindDupNext DEF LinksInvariant, FindDupInvariant
  <1>2. disk' = disk /\ NoCircles'
    <2>1. disk' = disk
      BY DEF Next, vars, Build, Sort, Scan1, Scan1Exit, MarkLinks, TakeHead, Match, NoMatch,
             EndOfRun, CompareExit, Scan3, Finished
    <2> QED
      BY <1>1, <2>1, NoCirclesStays
  <1>3. pc # "build" => IsListing(filelist)
    BY <1>1 DEF FindDupInvariant
  <1>4. CASE Build
    <2>1. pc' = "sort" /\ Filled(filelist') /\ Unmarked(filelist')
      BY <1>1, <1>4, BuildFills DEF Build
    <2> QED
      BY <1>1, <1>2, <2>1, FillingStays DEF LinksInvariant, scan2
  <1>5. CASE Sort
    <2>1. /\ IsListing(filelist) /\ filelist' \in Sorts(filelist) /\ pc' \in {"scan1", "links"}
          /\ Filled(filelist) /\ Unmarked(filelist)
      BY <1>3, <1>5 DEF Sort, LinksInvariant
    <2>2. Filled(filelist') /\ Unmarked(filelist') /\ SortedFrom(filelist', 1)
      BY <1>1, <2>1, SortsSort
    <2> QED
      BY <1>1, <1>2, <2>1, <2>2, FillingStays DEF LinksInvariant, scan2
  <1>6. CASE Scan1
    <2>1. /\ IsListing(filelist) /\ pc' \in {"resort", "links"}
          /\ Filled(filelist) /\ Unmarked(filelist) /\ SortedFrom(filelist, 1)
      BY <1>3, <1>6 DEF Scan1, LinksInvariant
    <2>2. /\ Filled(filelist') /\ Unmarked(filelist')
          /\ pc' = "links" => SortedFrom(filelist', 1)
      BY <1>1, <1>6, <2>1, Scan1Fills
    <2> QED
      BY <1>1, <1>2, <2>1, <2>2, FillingStays DEF LinksInvariant, scan2
  <1>7. CASE MarkLinks
    <2>1. /\ IsListing(filelist) /\ pc' = "head"
          /\ Filled(filelist) /\ Unmarked(filelist) /\ SortedFrom(filelist, 1)
      BY <1>3, <1>7 DEF MarkLinks, LinksInvariant
    <2>2. OneIsNoLink(filelist')
      BY <1>1, <1>7, <2>1, MarkLinksMarks
    <2> QED
      BY <1>1, <1>2, <2>1, <2>2, FillingStays DEF LinksInvariant, scan2
  <1>8. CASE Match
    <2>1. /\ IsListing(filelist) /\ ix \in 1..NFound /\ ix2 \in Nat /\ lastix \in (ix + 1)..ix2
          /\ pc = "compare" /\ pc' = "compare" /\ OneIsNoLink(filelist)
      BY <1>1, <1>8 DEF Match, LinksInvariant, FindDupInvariant, scan2
    <2>2. PICK n \in Nat : n = Len(filelist) /\ n = NFound
      BY <1>1, <2>1, ListingIs DEF NFound
    <2>3. PICK p : IsOrder(p, n) /\ IsMatch(filelist', filelist, ix2, p)
      BY <1>8, <2>1, <2>2, MatchIs
    <2>4. /\ Len(filelist') = n
          /\ \A k \in 1..n : /\ p[k] \in 1..n /\ filelist'[k].inode = filelist[p[k]].inode
                             /\ filelist'[k].lnk <=> filelist[p[k]].lnk
      BY <2>2, <2>3 DEF IsMatch
    <2>5. OneIsNoLink(filelist')
      BY <2>1, <2>2, <2>3, <2>4, OneStays
    <2> QED
      BY <1>1, <1>2, <2>1, <2>5, FillingStays DEF LinksInvariant, scan2
  <1>9. CASE TakeHead \/ NoMatch \/ EndOfRun
    <2>1. filelist' = filelist /\ pc \in scan2 /\ pc' \in scan2
      BY <1>9 DEF TakeHead, NoMatch, EndOfRun, scan2
    <2>2. OneIsNoLink(filelist')
      BY <2>1 DEF LinksInvariant
    <2> QED
      BY <1>1, <1>2, <2>1, <2>2, FillingStays DEF LinksInvariant, scan2
  <1>10. CASE Scan1Exit \/ CompareExit
    <2>1. pc' = "exit"
      BY <1>10 DEF Scan1Exit, CompareExit
    <2> QED
      BY <1>1, <1>2, <2>1 DEF LinksInvariant, scan2
  <1>11. CASE Scan3
    <2>1. filelist' = filelist /\ pc \in scan2 /\ pc' = "done"
      BY <1>11 DEF Scan3, scan2
    <2>2. OneIsNoLink(filelist')
      BY <2>1 DEF LinksInvariant
    <2> QED
      BY <1>1, <1>2, <2>1, <2>2, FillingStays DEF LinksInvariant, scan2
  <1>12. CASE Finished \/ UNCHANGED vars
    <2>1. filelist' = filelist /\ pc' = pc
      BY <1>12 DEF Finished, vars
    <2> QED
      BY <1>1, <1>2, <2>1, FillingStays DEF LinksInvariant
  <1> QED
    BY <1>4, <1>5, <1>6, <1>7, <1>8, <1>9, <1>10, <1>11, <1>12 DEF Next

\* LinksMarked: in the list that scan2 works on (finddup.c:332-354), each file
\* found has exactly one name that is no link, if comp1's differences do not go
\* round in circles: its names are then next to each other when the links are
\* marked, and matches only move them about.
THEOREM LinksAlwaysMarked == Spec => []LinksMarked
  <1>1. LinksInvariant => LinksMarked
    <2> SUFFICES ASSUME LinksInvariant, pc \in scan2, NEW name \in Found
                 PROVE  Cardinality({i \in DOMAIN filelist :
                          filelist[i].inode = disk.inode[name] /\ ~filelist[i].lnk}) = 1
      BY DEF LinksMarked, scan2
    <2> DEFINE T == {i \in DOMAIN filelist :
                       filelist[i].inode = disk.inode[name] /\ ~filelist[i].lnk}
    <2>1. /\ DiskOK /\ IsListing(filelist) /\ OneIsNoLink(filelist)
      BY DEF LinksInvariant, FindDupInvariant, scan2
    <2>2. DOMAIN filelist = 1..Len(filelist)
      BY <2>1, ListingIs
    <2>3. PICK k \in 1..Len(filelist) : filelist[k].name = name
      BY <2>1, ListingIs
    <2>4. filelist[k].inode = disk.inode[name]
      BY <2>1, <2>3, ListingIs
    <2>5. PICK m \in 1..Len(filelist) : filelist[m].inode = filelist[k].inode /\ ~filelist[m].lnk
      BY <2>1 DEF OneIsNoLink
    <2>6. T = {m}
      BY <2>1, <2>2, <2>4, <2>5 DEF OneIsNoLink
    <2> QED
      BY <2>6, FS_Singleton
  <1>2. NoCircles /\ Init => LinksInvariant
    BY FindDupInit DEF Init, LinksInvariant, scan2
  <1>3. LinksInvariant /\ [Next]_vars => LinksInvariant'
    BY LinksNext
  <1>4. ~NoCircles => LinksMarked
    BY DEF LinksMarked
  <1>5. ~NoCircles /\ [Next]_vars => ~NoCircles'
    BY DiskIsRead, NoCirclesStays
  <1> QED
    BY <1>1, <1>2, <1>3, <1>4, <1>5, PTL DEF Spec

-------------------------------------------------------------------------------
\* The names of files with the same content.
SameFile(x, y) == ContentOf(y) = ContentOf(x)

\* fullcmp finds contents of one length the same if they are, and are text.
LEMMA SameBytesIs ==
    ASSUME NEW c \in Contents, NEW d \in Contents, Len(c) = Len(d), ReadToEnd(c)
    PROVE  SameBytes(c, d) <=> IsText(c) /\ c = d
  <1> DEFINE Differs(i) == c[i] >= 128 \/ c[i] # d[i]
             seq == [i \in DOMAIN c |-> Differs(i)]
             T == {i \in 1..Len(seq) : seq[i]}
  <1>1. PICK n \in Nat : c \in [1..n -> Int] /\ d \in [1..n -> Int] /\ n = Len(c)
    <2>1. 0..255 \subseteq Int /\ c \in Seq(0..255) /\ d \in Seq(0..255)
      BY FindDupAssumption
    <2>2. \A S : c \in Seq(S) => Len(c) \in Nat /\ c \in [1..Len(c) -> S]
      OBVIOUS
    <2>3. \A S : d \in Seq(S) => Len(d) \in Nat /\ d \in [1..Len(d) -> S]
      OBVIOUS
    <2>4. /\ Len(c) \in Nat /\ c \in [1..Len(c) -> 0..255] /\ d \in [1..Len(c) -> 0..255]
      BY <2>1, <2>2, <2>3
    <2> QED
      BY <2>1, <2>4
  <1>2. Len(seq) = n /\ T = {i \in 1..n : Differs(i)}
    <2>1. DOMAIN c = 1..n
      BY <1>1
    <2>2. seq = [i \in 1..n |-> Differs(i)]
      BY <2>1
    <2> HIDE DEF seq
    <2>3. seq \in [1..n -> BOOLEAN]
      BY <2>2
    <2>4. seq \in Seq(BOOLEAN) /\ Len(seq) = n
      BY <2>3, SeqDef
    <2>5. \A i \in 1..n : seq[i] <=> Differs(i)
      BY <2>2
    <2> QED
      BY <2>4, <2>5
  <1>3. SelectInSeq(seq, LAMBDA x : x) = IF T # {} THEN Min(T) ELSE 0
    BY DEF SelectInSeq
  <1>4. ToSet(c) = {c[i] : i \in 1..n}
    BY <1>1 DEF ToSet
  <1>5. SameBytes(c, d) <=>
          (IF SelectInSeq(seq, LAMBDA x : x) = 0 THEN TRUE
           ELSE c[SelectInSeq(seq, LAMBDA x : x)] = 255)
    BY DEF SameBytes
  <1>6. (T = {}) <=> IsText(c) /\ c = d
    <2>1. ASSUME NEW i \in 1..n PROVE Differs(i) <=> ~(c[i] < 128 /\ c[i] = d[i])
      <3>1. c[i] \in Int
        BY <1>1
      <3>2. c[i] >= 128 <=> ~(c[i] < 128)
        BY <3>1
      <3> QED
        BY <3>2
    <2> HIDE DEF T, Differs
    <2>2. (T = {}) <=> \A i \in 1..n : c[i] < 128 /\ c[i] = d[i]
      BY <1>2, <2>1
    <2>3. IsText(c) <=> \A i \in 1..n : c[i] < 128
      BY <1>4 DEF IsText
    <2>4. c = d <=> \A i \in 1..n : c[i] = d[i]
      BY <1>1
    <2> QED
      BY <2>2, <2>3, <2>4
  <1>7. ASSUME T # {} PROVE ~SameBytes(c, d)
    <2>1. T \subseteq Nat
      BY <1>2
    <2>2. Min(T) \in T /\ \A y \in T : Min(T) <= y
      BY <1>7, <2>1, LeastIs
    <2>3. Min(T) \in 1..n
      BY <1>2, <2>2
    <2>4. PICK k \in 1..n : k = Min(T)
      BY <2>3
    <2>5. ASSUME NEW j \in 1..(k - 1), c[j] >= 128 PROVE FALSE
      <3>1. j \in 1..n
        OBVIOUS
      <3>2. j \in T
        BY <1>2, <2>5, <3>1
      <3>3. k <= j
        BY <2>2, <2>4, <3>2
      <3> QED
        BY <2>5, <3>3
    <2>6. c[Min(T)] # 255
      BY <1>1, <2>4, <2>5 DEF ReadToEnd
    <2> HIDE DEF T, seq
    <2> QED
      BY <1>3, <1>5, <1>7, <2>3, <2>6
  <1> HIDE DEF T, seq
  <1> QED
    BY <1>3, <1>5, <1>6, <1>7

\* SameFile is an equivalence; names of one file are the same, and the same
\* files have the same content.
LEMMA SameFileIs ==
    ASSUME DiskOK, NEW x \in Found, NEW y \in Found, NEW z \in Found
    PROVE  /\ SameFile(x, x) /\ (SameFile(x, y) => SameFile(y, x))
           /\ SameFile(x, y) /\ SameFile(y, z) => SameFile(x, z)
           /\ disk.inode[x] = disk.inode[y] => SameFile(x, y)
           /\ SameFile(x, y) => ContentOf(x) = ContentOf(y)
  BY DEF SameFile, ContentOf

\* The files of two entries are the same.
Copies(list, k, m) == SameFile(list[k].name, list[m].name)

\* While scan2 compares the head at h with the entry at i, a is where a match
\* goes: the entries from a on are in order, those in front of i are in order
\* with those from i on, and the head is the first of all that follow.
Ordered(list, h, i, a) ==
    /\ SortedFrom(list, a)
    /\ \A k \in 1..Len(list) : h <= k => Before(list[h], list[k])
    /\ \A k, m \in 1..Len(list) : h <= k /\ k < i /\ i <= m => Before(list[k], list[m])

\* Up to h, a duplicate is the same as the entry in front of it, and what is no
\* duplicate differs from all entries in front of it.
Headed(list, h, i) ==
    \A k \in 1..Len(list) :
       /\ list[k].dup => k \in 2..(i - 1)
       /\ list[k].dup /\ k <= h => Copies(list, k - 1, k)
       /\ ~list[k].dup => \A j \in 1..(k - 1) : j < h => ~Copies(list, j, k)

\* Of the entries compared, the duplicates are those that are the same as the
\* head.  They end in front of a, or at a if the first of them did not move.
Matched(list, h, i, a) ==
    \A k \in 1..Len(list) :
       /\ h < k /\ k < i => (list[k].dup <=> Copies(list, h, k))
       /\ h < k /\ k < a => list[k].dup
       /\ a < k => ~list[k].dup

\* lnkmatch is FALSE if the last entry did not match; else one that matched has
\* an inode as large as all that did not.
LinkMatch(list, h, i, m) ==
    IF m THEN \E j \in h..(i - 1) :
                /\ Copies(list, h, j)
                /\ \A k \in (h + 1)..(i - 1) :
                      ~list[k].dup => NotAfter(list[k].inode, list[j].inode)
         ELSE h < i - 1 /\ ~list[i - 1].dup

\* All that while scan2 compares.
Compared(list, h, i, a, m) ==
    /\ i <= Len(list) + 1
    /\ Ordered(list, h, i, a) /\ Headed(list, h, i) /\ Matched(list, h, i, a)
    /\ LinkMatch(list, h, i, m)

\* Between two heads, a is the next one (or the last duplicate).
Grouped(list, a) ==
    \A k \in 1..Len(list) :
       /\ list[k].dup => k \in 2..a /\ Copies(list, k - 1, k)
       /\ ~list[k].dup => \A j \in 1..(k - 1) : j < a => ~Copies(list, j, k)

-------------------------------------------------------------------------------
\* Copies is an equivalence; entries of one file are copies, and copies have the
\* same length and CRC.
LEMMA CopiesAre ==
    ASSUME DiskOK, NEW list, IsListing(list), Filled(list),
           NEW k \in 1..Len(list), NEW m \in 1..Len(list)
    PROVE  /\ Copies(list, k, k) /\ (Copies(list, k, m) => Copies(list, m, k))
           /\ \A j \in 1..Len(list) :
                Copies(list, k, m) /\ Copies(list, m, j) => Copies(list, k, j)
           /\ list[k].inode = list[m].inode => Copies(list, k, m)
           /\ Copies(list, k, m) => /\ list[k].length = list[m].length
                                    /\ list[k].crc = list[m].crc
  <1>1. list[k].name \in Found /\ list[m].name \in Found
    BY ListingIs
  <1>2. /\ Copies(list, k, k) /\ (Copies(list, k, m) => Copies(list, m, k))
        /\ Copies(list, k, m) => ContentOf(list[k].name) = ContentOf(list[m].name)
    BY <1>1, SameFileIs DEF Copies
  <1>3. ASSUME NEW j \in 1..Len(list), Copies(list, k, m), Copies(list, m, j)
        PROVE  Copies(list, k, j)
    <2>1. list[j].name \in Found
      BY ListingIs
    <2> QED
      BY <1>1, <1>3, <2>1, SameFileIs DEF Copies
  <1>4. ASSUME list[k].inode = list[m].inode PROVE Copies(list, k, m)
    <2>1. disk.inode[list[k].name] = disk.inode[list[m].name]
      BY <1>4, ListingIs
    <2> QED
      BY <1>1, <2>1, SameFileIs DEF Copies
  <1>5. Copies(list, k, m) => list[k].length = list[m].length /\ list[k].crc = list[m].crc
    BY <1>2, FilledAre
  <1> QED
    BY <1>2, <1>3, <1>4, <1>5

\* What scan2 takes for the same is the same: links need no comparison.
LEMMA SameIsCopy ==
    ASSUME NoCircles, BytesCompare, DiskOK,
           IsListing(filelist), Filled(filelist), LinksAreLater(filelist),
           ix \in 1..NFound, ix2 \in 1..NFound, lastix \in (ix + 1)..ix2, lnkmatch \in BOOLEAN,
           Compared(filelist, ix, ix2, lastix, lnkmatch), Alike
    PROVE  Same <=> Copies(filelist, ix, ix2)
  <1>1. PICK n \in Nat : n = Len(filelist) /\ n = NFound
    BY ListingIs DEF NFound
  <1>2. /\ ix \in 1..n /\ ix2 \in 1..n /\ ix < ix2
        /\ filelist[ix].length = filelist[ix2].length /\ filelist[ix].crc = filelist[ix2].crc
    BY <1>1 DEF Alike
  <1>3. ~filelist[ix2].dup
    BY <1>1, <1>2 DEF Compared, Headed
  <1>4. /\ ContentOf(filelist[ix].name) \in Contents /\ ContentOf(filelist[ix2].name) \in Contents
        /\ Len(ContentOf(filelist[ix].name)) = Len(ContentOf(filelist[ix2].name))
        /\ ReadToEnd(ContentOf(filelist[ix].name))
    <2>1. /\ filelist[ix].length = Len(ContentOf(filelist[ix].name))
          /\ filelist[ix2].length = Len(ContentOf(filelist[ix2].name))
      BY <1>1, <1>2 DEF Filled
    <2> QED
      BY <1>1, <1>2, <2>1, ListingIs DEF BytesCompare
  <1>5. SameBytes(ContentOf(filelist[ix].name), ContentOf(filelist[ix2].name))
          <=> /\ IsText(ContentOf(filelist[ix].name))
              /\ ContentOf(filelist[ix].name) = ContentOf(filelist[ix2].name)
    BY <1>4, SameBytesIs
  <1>6. SameBytes(ContentOf(filelist[ix].name), ContentOf(filelist[ix2].name))
          => Copies(filelist, ix, ix2)
    BY <1>5 DEF Copies, SameFile
  <1>7. ASSUME IsLink PROVE Copies(filelist, ix, ix2)
    <2>1. filelist[ix2].lnk /\ lnkmatch
      BY <1>7 DEF IsLink
    <2>2. PICK k \in 1..(ix2 - 1) : filelist[k].inode = filelist[ix2].inode
      BY <1>1, <1>2, <1>3, <2>1 DEF LinksAreLater
    <2>3. k \in 1..n
      BY <1>2
    <2>4. Copies(filelist, k, ix2)
      BY <1>1, <1>2, <2>2, <2>3, CopiesAre
    <2>5. ~(k < ix)
      BY <1>1, <1>2, <1>3, <2>4 DEF Compared, Headed
    <2>6. CASE k = ix
      BY <2>4, <2>6
    <2>7. CASE k > ix /\ filelist[k].dup
      <3>1. Copies(filelist, ix, k)
        BY <1>1, <2>3, <2>7 DEF Compared, Matched
      <3> QED
        BY <1>1, <1>2, <2>3, <2>4, <3>1, CopiesAre
    <2>8. CASE k > ix /\ ~filelist[k].dup
      <3>1. PICK j \in ix..(ix2 - 1) : /\ Copies(filelist, ix, j)
                                       /\ NotAfter(filelist[k].inode, filelist[j].inode)
        BY <2>1, <2>3, <2>8 DEF Compared, LinkMatch
      <3>2. j \in 1..n /\ ix <= j /\ j < ix2
        BY <1>2
      <3>3. /\ filelist[j].length = filelist[ix2].length /\ filelist[j].crc = filelist[ix2].crc
        BY <1>1, <1>2, <3>1, <3>2, CopiesAre
      <3>4. Before(filelist[j], filelist[ix2])
        BY <1>1, <1>2, <3>2 DEF Compared, Ordered
      <3>5. NotAfter(filelist[j].inode, filelist[ix2].inode)
        <4>1. Before(filelist[ix2], filelist[ix2])
          BY <1>1, <1>2, ListOrder
        <4> QED
          BY <1>1, <1>2, <3>2, <3>3, <3>4, <4>1, ListOrder
      <3>6. filelist[j].inode = filelist[ix2].inode
        BY <1>1, <1>2, <2>2, <3>1, <3>2, <3>3, <3>5, SameInode
      <3>7. Copies(filelist, j, ix2)
        BY <1>1, <1>2, <3>2, <3>6, CopiesAre
      <3> QED
        BY <1>1, <1>2, <3>1, <3>2, <3>7, CopiesAre
    <2> QED
      BY <2>3, <2>5, <2>6, <2>7, <2>8
  <1>8. ASSUME Copies(filelist, ix, ix2), ~IsText(ContentOf(filelist[ix].name))
        PROVE  IsLink
    <2>1. filelist[ix].inode = filelist[ix2].inode
      <3>1. /\ filelist[ix].name \in Found /\ filelist[ix2].name \in Found
            /\ filelist[ix].inode = disk.inode[filelist[ix].name]
            /\ filelist[ix2].inode = disk.inode[filelist[ix2].name]
        BY <1>1, <1>2, ListingIs
      <3> QED
        BY <1>8, <3>1 DEF BytesCompare, Copies, SameFile
    <2>2. filelist[ix2].lnk
      BY <1>1, <1>2, <1>3, <2>1 DEF LinksAreLater
    <2>3. ASSUME ~lnkmatch PROVE FALSE
      <3> DEFINE k == ix2 - 1
      <3>1. k \in 1..n /\ ix < k /\ ~filelist[k].dup
        BY <1>2, <2>3 DEF Compared, LinkMatch
      <3>2. Before(filelist[ix], filelist[k]) /\ Before(filelist[k], filelist[ix2])
        BY <1>1, <1>2, <3>1 DEF Compared, Ordered
      <3>3. /\ filelist[k].length = filelist[ix2].length
            /\ NotAfter(filelist[ix].inode, filelist[k].inode)
            /\ NotAfter(filelist[k].inode, filelist[ix2].inode)
        <4>1. /\ ix \in 1..Len(filelist) /\ k \in 1..Len(filelist) /\ ix2 \in 1..Len(filelist)
              /\ Before(filelist[ix], filelist[k]) /\ Before(filelist[k], filelist[ix2])
              /\ filelist[ix].length = filelist[ix2].length
              /\ filelist[ix].crc = filelist[ix2].crc
          BY <1>1, <1>2, <3>1, <3>2
        <4> HIDE DEF k
        <4> QED
          BY <4>1, ListOrder
      <3>4. filelist[k].inode = filelist[ix].inode
        BY <1>1, <1>2, <2>1, <3>1, <3>3, SameInode
      <3>5. Copies(filelist, ix, k)
        BY <1>1, <1>2, <3>1, <3>4, CopiesAre
      <3> QED
        BY <1>1, <3>1, <3>5 DEF Compared, Matched
    <2> QED
      BY <2>2, <2>3 DEF IsLink
  <1>9. ASSUME Copies(filelist, ix, ix2), IsText(ContentOf(filelist[ix].name))
        PROVE  SameBytes(ContentOf(filelist[ix].name), ContentOf(filelist[ix2].name))
    BY <1>5, <1>9 DEF Copies, SameFile
  <1> QED
    BY <1>6, <1>7, <1>8, <1>9 DEF Same

\* The next head.
LEMMA HeadTaken ==
    ASSUME DiskOK, NEW list, IsListing(list), Filled(list), NEW a \in 1..Len(list),
           Grouped(list, a), SortedFrom(list, a)
    PROVE  Compared(list, a, a + 1, a + 1, TRUE)
  <1>1. PICK n \in Nat : n = Len(list)
    BY ListingIs
  <1>2. Ordered(list, a, a + 1, a + 1)
    BY <1>1 DEF Ordered, SortedFrom
  <1>3. Headed(list, a, a + 1)
    BY <1>1 DEF Headed, Grouped
  <1>4. Matched(list, a, a + 1, a + 1)
    BY <1>1 DEF Matched, Grouped
  <1>5. LinkMatch(list, a, a + 1, TRUE)
    <2>1. Copies(list, a, a) /\ a \in a..((a + 1) - 1) /\ (a + 1)..((a + 1) - 1) = {}
      BY <1>1, CopiesAre
    <2> QED
      BY <2>1 DEF LinkMatch
  <1>6. a + 1 <= Len(list) + 1
    BY <1>1
  <1> QED
    BY <1>2, <1>3, <1>4, <1>5, <1>6, Zenon DEF Compared

\* No match.
LEMMA NotMatched ==
    ASSUME DiskOK, NEW list, IsListing(list), NEW h \in 1..Len(list), NEW i \in 1..Len(list),
           NEW a \in (h + 1)..i, NEW m \in BOOLEAN, Compared(list, h, i, a, m),
           ~Copies(list, h, i)
    PROVE  Compared(list, h, i + 1, a, FALSE)
  <1>1. PICK n \in Nat : n = Len(list)
    BY ListingIs
  <1>2. /\ Ordered(list, h, i, a) /\ Headed(list, h, i) /\ Matched(list, h, i, a)
    BY DEF Compared
  <1>3. ~list[i].dup
    BY <1>1, <1>2 DEF Headed
  <1>4. Ordered(list, h, i + 1, a)
    <2>1. SortedFrom(list, a) /\ \A k \in 1..n : h <= k => Before(list[h], list[k])
      BY <1>1, <1>2 DEF Ordered
    <2>2. ASSUME NEW k \in 1..n, NEW j \in 1..n, h <= k, k < i + 1, i + 1 <= j
          PROVE  Before(list[k], list[j])
      <3>1. CASE k < i
        BY <1>1, <1>2, <2>2, <3>1 DEF Ordered
      <3>2. CASE k = i
        BY <1>1, <2>1, <2>2, <3>2 DEF SortedFrom
      <3> QED
        BY <2>2, <3>1, <3>2
    <2> QED
      BY <1>1, <2>1, <2>2 DEF Ordered
  <1>5. Headed(list, h, i + 1)
    BY <1>1, <1>2 DEF Headed
  <1>6. Matched(list, h, i + 1, a)
    <2>1. ASSUME NEW k \in 1..n, h < k, k < i + 1 PROVE list[k].dup <=> Copies(list, h, k)
      <3>1. CASE k < i
        BY <1>1, <1>2, <2>1, <3>1 DEF Matched
      <3>2. CASE k = i
        BY <1>3, <3>2
      <3> QED
        BY <2>1, <3>1, <3>2
    <2> QED
      BY <1>1, <1>2, <2>1 DEF Matched
  <1>7. LinkMatch(list, h, i + 1, FALSE)
    BY <1>1, <1>3 DEF LinkMatch
  <1>8. i + 1 <= Len(list) + 1
    BY <1>1
  <1> QED
    BY <1>4, <1>5, <1>6, <1>7, <1>8, Zenon DEF Compared

\* The run of the head's length and CRC has been compared.
LEMMA RunEnds ==
    ASSUME NoCircles, DiskOK, NEW list, IsListing(list), Filled(list),
           NEW h \in 1..Len(list), NEW i \in Nat,
           NEW a \in (h + 1)..i, NEW m \in BOOLEAN, Compared(list, h, i, a, m),
           ~ (i <= Len(list) /\ list[h].length = list[i].length /\ list[h].crc = list[i].crc)
    PROVE  Grouped(list, a) /\ SortedFrom(list, a)
  <1>1. PICK n \in Nat : n = Len(list) /\ \A k \in 1..n : list[k] \in Entries
    BY ListingIs
  <1>2. /\ Ordered(list, h, i, a) /\ Headed(list, h, i) /\ Matched(list, h, i, a)
        /\ i <= n + 1
    BY <1>1 DEF Compared
  <1>3. ASSUME NEW k \in 1..n, i <= k PROVE ~Copies(list, h, k)
    <2>1. i \in 1..n
      BY <1>1, <1>3
    <2>2. Before(list[h], list[i]) /\ Before(list[i], list[k])
      BY <1>1, <1>2, <1>3, <2>1 DEF Ordered, SortedFrom
    <2>3. ~ (list[h].length = list[k].length /\ list[h].crc = list[k].crc)
      BY <1>1, <2>1, <2>2, ListOrder
    <2> QED
      BY <1>1, <2>3, CopiesAre
  <1>4. ASSUME NEW k \in 1..n, list[k].dup
        PROVE  k \in 2..a /\ Copies(list, k - 1, k)
    <2>1. k \in 2..(i - 1)
      BY <1>1, <1>2, <1>4 DEF Headed
    <2>2. k <= a
      BY <1>1, <1>2, <1>4 DEF Matched
    <2>3. CASE k <= h
      BY <1>1, <1>2, <1>4, <2>1, <2>2, <2>3 DEF Headed
    <2>4. CASE k > h
      <3>1. Copies(list, h, k)
        BY <1>1, <1>2, <1>4, <2>1, <2>4 DEF Matched
      <3>2. k - 1 \in 1..n /\ h <= k - 1
        BY <1>1, <2>4
      <3>3. Copies(list, h, k - 1)
        <4>1. CASE k - 1 = h
          BY <1>1, <3>2, <4>1, CopiesAre
        <4>2. CASE k - 1 > h
          <5>1. k - 1 < a /\ k - 1 < i
            BY <2>1, <2>2
          <5>2. list[k - 1].dup
            BY <1>1, <1>2, <3>2, <4>2, <5>1 DEF Matched
          <5> QED
            BY <1>1, <1>2, <3>2, <4>2, <5>1, <5>2 DEF Matched
        <4> QED
          BY <3>2, <4>1, <4>2
      <3>4. Copies(list, k - 1, h)
        BY <1>1, <3>2, <3>3, CopiesAre
      <3>5. Copies(list, k - 1, k)
        BY <1>1, <3>1, <3>2, <3>4, CopiesAre
      <3> QED
        BY <2>1, <2>2, <3>5
    <2> QED
      BY <2>3, <2>4
  <1>5. ASSUME NEW k \in 1..n, ~list[k].dup, NEW j \in 1..(k - 1), j < a, Copies(list, j, k)
        PROVE  FALSE
    <2>1. j \in 1..n
      OBVIOUS
    <2>2. ~(j < h)
      BY <1>1, <1>2, <1>5 DEF Headed
    <2>3. Copies(list, h, j)
      <3>1. CASE j = h
        BY <1>1, <2>1, <3>1, CopiesAre
      <3>2. CASE j > h
        <4>1. list[j].dup /\ j < i
          BY <1>1, <1>2, <1>5, <2>1, <3>2 DEF Matched
        <4> QED
          BY <1>1, <1>2, <2>1, <3>2, <4>1 DEF Matched
      <3> QED
        BY <2>1, <2>2, <3>1, <3>2
    <2>4. Copies(list, h, k)
      BY <1>1, <1>5, <2>1, <2>3, CopiesAre
    <2>5. k < i
      BY <1>3, <2>4
    <2> QED
      BY <1>1, <1>2, <1>5, <2>1, <2>2, <2>4, <2>5 DEF Matched
  <1>6. Grouped(list, a)
    BY <1>1, <1>4, <1>5 DEF Grouped
  <1> QED
    BY <1>2, <1>6 DEF Ordered

\* The entries keep their files.
LEMMA MatchFields ==
    ASSUME NEW list, NEW new, NEW i, NEW p, IsMatch(new, list, i, p), Filled(list)
    PROVE  /\ Filled(new)
           /\ \A k \in 1..Len(list) : \A m \in 1..Len(list) :
                /\ Copies(new, k, m) <=> Copies(list, p[k], p[m])
                /\ Before(new[k], new[m]) <=> Before(list[p[k]], list[p[m]])
  <1> DEFINE n == Len(list)
  <1>1. ASSUME NEW k \in 1..n PROVE new[k].length = Len(ContentOf(new[k].name))
    <2>1. p[k] \in 1..n /\ new[k].name = list[p[k]].name /\ new[k].length = list[p[k]].length
      BY DEF IsMatch
    <2> QED
      BY <2>1 DEF Filled
  <1>2. ASSUME NEW k \in 1..n, NEW m \in 1..n, new[k].length = new[m].length
        PROVE  \/ new[k].crc = CrcOf(new[k].name) /\ new[m].crc = CrcOf(new[m].name)
               \/ new[k].crc = 0 /\ new[m].crc = 0
    <2>1. /\ p[k] \in 1..n /\ p[m] \in 1..n /\ list[p[k]].length = list[p[m]].length
          /\ new[k].crc = list[p[k]].crc /\ new[m].crc = list[p[m]].crc
          /\ new[k].name = list[p[k]].name /\ new[m].name = list[p[m]].name
      BY <1>2 DEF IsMatch
    <2> QED
      BY <2>1 DEF Filled
  <1>3. Filled(new)
    BY <1>1, <1>2 DEF Filled, IsMatch
  <1>4. ASSUME NEW k \in 1..n, NEW m \in 1..n
        PROVE  /\ Copies(new, k, m) <=> Copies(list, p[k], p[m])
               /\ Before(new[k], new[m]) <=> Before(list[p[k]], list[p[m]])
    <2>1. /\ new[k].name = list[p[k]].name /\ new[k].length = list[p[k]].length
          /\ new[k].crc = list[p[k]].crc /\ new[k].inode = list[p[k]].inode
      BY DEF IsMatch
    <2>2. /\ new[m].name = list[p[m]].name /\ new[m].length = list[p[m]].length
          /\ new[m].crc = list[p[m]].crc /\ new[m].inode = list[p[m]].inode
      BY DEF IsMatch
    <2> QED
      BY <2>1, <2>2 DEF Copies, Before
  <1> QED
    BY <1>3, <1>4

\* They stay in order: the entry moved is not after those it passes.
LEMMA MatchOrdered ==
    ASSUME NEW list, NEW n \in Nat, n = Len(list), NEW h \in 1..n, NEW i \in 1..n,
           NEW a \in (h + 1)..i, Ordered(list, h, i, a), NEW p, MovesTo(p, n, i, a), NEW new,
           IsMatch(new, list, i, p), Filled(list)
    PROVE  Ordered(new, h, i + 1, IF a # i THEN a + 1 ELSE a)
  <1> DEFINE b == IF a # i THEN a + 1 ELSE a
  <1>1. /\ Len(new) = n /\ \A k \in 1..n : p[k] \in 1..n
        /\ \A k, m \in 1..n : Before(list[p[k]], list[p[m]]) => Before(new[k], new[m])
    <2>1. \A k \in 1..Len(list) : \A m \in 1..Len(list) :
             /\ Copies(new, k, m) <=> Copies(list, p[k], p[m])
             /\ Before(new[k], new[m]) <=> Before(list[p[k]], list[p[m]])
      BY MatchFields
    <2> QED
      BY <2>1 DEF IsMatch, MovesTo
  <1>2. a \in 1..i /\ h < a
    OBVIOUS
  <1>3. SortedFrom(new, b)
    <2>1. ASSUME NEW k \in 1..n, NEW m \in 1..n, b <= k, k <= m
          PROVE  Before(new[k], new[m])
      <3>1. a <= p[k] /\ p[k] <= p[m]
        BY <1>2, <2>1 DEF MovesTo
      <3>2. Before(list[p[k]], list[p[m]])
        BY <1>1, <3>1 DEF Ordered, SortedFrom
      <3> QED
        BY <1>1, <3>2
    <2> QED
      BY <1>1, <2>1 DEF SortedFrom
  <1>4. ASSUME NEW k \in 1..n, h <= k PROVE Before(new[h], new[k])
    <2>1. p[h] = h /\ h <= p[k]
      BY <1>2, <1>4 DEF MovesTo
    <2>2. Before(list[p[h]], list[p[k]])
      BY <1>1, <2>1 DEF Ordered
    <2> QED
      BY <1>1, <2>2
  <1>5. ASSUME NEW k \in 1..n, NEW m \in 1..n, h <= k, k < i + 1, i + 1 <= m
        PROVE  Before(new[k], new[m])
    <2>1. p[m] = m /\ h <= p[k] /\ p[k] <= i
      BY <1>2, <1>5 DEF MovesTo
    <2>2. CASE p[k] = i
      <3>1. Before(list[i], list[m])
        BY <1>5 DEF Ordered, SortedFrom
      <3> QED
        BY <1>1, <2>1, <2>2, <3>1
    <2>3. CASE p[k] # i
      <3>1. Before(list[p[k]], list[m])
        BY <1>1, <1>5, <2>1, <2>3 DEF Ordered
      <3> QED
        BY <1>1, <2>1, <3>1
    <2> QED
      BY <2>2, <2>3
  <1> QED
    BY <1>1, <1>3, <1>4, <1>5 DEF Ordered

\* Up to the head nothing moves.
LEMMA MatchHeaded ==
    ASSUME NEW list, NEW n \in Nat, n = Len(list), NEW h \in 1..n, NEW i \in 1..n,
           NEW a \in (h + 1)..i, Headed(list, h, i), NEW p, MovesTo(p, n, i, a), NEW new,
           IsMatch(new, list, i, p), Filled(list)
    PROVE  Headed(new, h, i + 1)
  <1>1. /\ Len(new) = n /\ \A k \in 1..n : p[k] \in 1..n
        /\ \A k \in 1..n : new[k].dup <=> (p[k] = i \/ list[p[k]].dup)
        /\ \A k, m \in 1..n : Copies(new, k, m) <=> Copies(list, p[k], p[m])
    <2>1. \A k \in 1..Len(list) : \A m \in 1..Len(list) :
             /\ Copies(new, k, m) <=> Copies(list, p[k], p[m])
             /\ Before(new[k], new[m]) <=> Before(list[p[k]], list[p[m]])
      BY MatchFields
    <2> QED
      BY <2>1 DEF IsMatch, MovesTo
  <1>2. a \in 1..i /\ h < a
    OBVIOUS
  <1>3. ASSUME NEW k \in 1..n, new[k].dup PROVE k \in 2..i
    <2>1. p[k] = i \/ p[k] \in 2..(i - 1)
      BY <1>1, <1>3 DEF Headed
    <2> QED
      BY <1>2, <2>1 DEF MovesTo
  <1>4. ASSUME NEW k \in 1..n, new[k].dup, k <= h PROVE Copies(new, k - 1, k)
    <2>1. k - 1 \in 1..n
      BY <1>3, <1>4
    <2>2. p[k] = k /\ p[k - 1] = k - 1
      BY <1>2, <1>4, <2>1 DEF MovesTo
    <2>3. Copies(list, k - 1, k)
      BY <1>1, <1>2, <1>4, <2>2 DEF Headed
    <2> QED
      BY <1>1, <2>1, <2>2, <2>3
  <1>5. ASSUME NEW k \in 1..n, ~new[k].dup, NEW j \in 1..(k - 1), j < h
        PROVE  ~Copies(new, j, k)
    <2>1. j \in 1..n /\ p[j] = j /\ j < p[k]
      BY <1>2, <1>5 DEF MovesTo
    <2>2. ~Copies(list, j, p[k])
      BY <1>1, <1>5, <2>1 DEF Headed
    <2> QED
      BY <1>1, <2>1, <2>2
  <1> QED
    BY <1>1, <1>3, <1>4, <1>5 DEF Headed

\* The duplicates of the head stay together.
LEMMA MatchMatched ==
    ASSUME NEW list, NEW n \in Nat, n = Len(list), NEW h \in 1..n, NEW i \in 1..n,
           NEW a \in (h + 1)..i, Matched(list, h, i, a), Copies(list, h, i),
           NEW p, MovesTo(p, n, i, a), NEW new, IsMatch(new, list, i, p), Filled(list)
    PROVE  Matched(new, h, i + 1, IF a # i THEN a + 1 ELSE a)
  <1> DEFINE b == IF a # i THEN a + 1 ELSE a
  <1>1. /\ Len(new) = n /\ \A k \in 1..n : p[k] \in 1..n
        /\ \A k \in 1..n : new[k].dup <=> (p[k] = i \/ list[p[k]].dup)
        /\ \A k, m \in 1..n : Copies(new, k, m) <=> Copies(list, p[k], p[m])
    <2>1. \A k \in 1..Len(list) : \A m \in 1..Len(list) :
             /\ Copies(new, k, m) <=> Copies(list, p[k], p[m])
             /\ Before(new[k], new[m]) <=> Before(list[p[k]], list[p[m]])
      BY MatchFields
    <2> QED
      BY <2>1 DEF IsMatch, MovesTo
  <1>2. a \in 1..i /\ h < a
    OBVIOUS
  <1>3. ASSUME NEW k \in 1..n, h < k, k < i + 1
        PROVE  new[k].dup <=> Copies(new, h, k)
    <2>1. p[h] = h /\ h < p[k] /\ p[k] <= i
      BY <1>2, <1>3 DEF MovesTo
    <2>2. CASE p[k] = i
      BY <1>1, <2>1, <2>2
    <2>3. CASE p[k] # i
      <3>1. list[p[k]].dup <=> Copies(list, h, p[k])
        BY <1>1, <2>1, <2>3 DEF Matched
      <3> QED
        BY <1>1, <2>1, <2>3, <3>1
    <2> QED
      BY <2>2, <2>3
  <1>4. ASSUME NEW k \in 1..n, h < k, k < b PROVE new[k].dup
    <2>1. (p[k] = k /\ k < a) \/ p[k] = i
      BY <1>2, <1>4 DEF MovesTo
    <2> QED
      BY <1>1, <1>4, <2>1 DEF Matched
  <1>5. ASSUME NEW k \in 1..n, b < k PROVE ~new[k].dup
    <2>1. p[k] # i /\ a < p[k]
      BY <1>2, <1>5 DEF MovesTo
    <2> QED
      BY <1>1, <2>1 DEF Matched
  <1> QED
    BY <1>1, <1>3, <1>4, <1>5 DEF Matched

\* The entry that matched has the largest inode so far.
LEMMA MatchLinkMatch ==
    ASSUME NoCircles, DiskOK, NEW list, IsListing(list), NEW n \in Nat, n = Len(list),
           NEW h \in 1..n, NEW i \in 1..n, NEW a \in (h + 1)..i,
           Ordered(list, h, i, a), Copies(list, h, i),
           list[h].length = list[i].length, list[h].crc = list[i].crc,
           NEW p, MovesTo(p, n, i, a), NEW new, IsMatch(new, list, i, p), Filled(list)
    PROVE  LinkMatch(new, h, i + 1, TRUE)
  <1>1. /\ Len(new) = n /\ \A k \in 1..n : p[k] \in 1..n
        /\ \A k \in 1..n : new[k].dup <=> (p[k] = i \/ list[p[k]].dup)
        /\ \A k \in 1..n : new[k].inode = list[p[k]].inode
        /\ \A k, m \in 1..n : Copies(new, k, m) <=> Copies(list, p[k], p[m])
    <2>1. \A k \in 1..Len(list) : \A m \in 1..Len(list) :
             /\ Copies(new, k, m) <=> Copies(list, p[k], p[m])
             /\ Before(new[k], new[m]) <=> Before(list[p[k]], list[p[m]])
      BY MatchFields
    <2> QED
      BY <2>1 DEF IsMatch, MovesTo
  <1>2. a \in 1..i /\ h < a /\ a \in 1..n
    OBVIOUS
  <1>3. p[h] = h /\ p[a] = i
    BY <1>2 DEF MovesTo
  <1>4. Copies(new, h, a)
    BY <1>1, <1>2, <1>3
  <1>5. ASSUME NEW k \in (h + 1)..i, ~new[k].dup
        PROVE  NotAfter(new[k].inode, new[a].inode)
    <2>1. k \in 1..n /\ h < p[k] /\ p[k] <= i
      BY <1>2 DEF MovesTo
    <2>2. p[k] < i
      BY <1>1, <1>5, <2>1
    <2>3. Before(list[h], list[p[k]]) /\ Before(list[p[k]], list[i])
      BY <1>1, <2>1, <2>2 DEF Ordered
    <2>4. NotAfter(list[p[k]].inode, list[i].inode)
      BY <1>1, <2>1, <2>3, ListOrder
    <2> QED
      BY <1>1, <1>2, <1>3, <2>1, <2>4
  <1>6. a \in h..((i + 1) - 1) /\ (i + 1) - 1 = i
    BY <1>2
  <1> QED
    BY <1>4, <1>5, <1>6 DEF LinkMatch

\* A match moves over entries of other files only, or over duplicates.
LEMMA MatchLinks ==
    ASSUME DiskOK, NEW list, IsListing(list), Filled(list), NEW n \in Nat, n = Len(list),
           NEW h \in 1..n, NEW i \in 1..n, NEW a \in (h + 1)..i, Matched(list, h, i, a),
           Copies(list, h, i), LinksAreLater(list),
           NEW p, MovesTo(p, n, i, a), IsOrder(p, n), NEW new, IsMatch(new, list, i, p)
    PROVE  LinksAreLater(new)
  <1>1. /\ Len(new) = n /\ \A k \in 1..n : p[k] \in 1..n
        /\ \A k \in 1..n : new[k].dup <=> (p[k] = i \/ list[p[k]].dup)
        /\ \A k \in 1..n : new[k].inode = list[p[k]].inode
        /\ \A k \in 1..n : new[k].lnk <=> list[p[k]].lnk
    BY DEF IsMatch
  <1>2. a \in 1..i /\ h < a /\ a \in 1..n
    OBVIOUS
  <1>3. ASSUME NEW m \in 1..n, ~new[m].dup, NEW k \in 1..(p[m] - 1),
               list[k].inode = list[p[m]].inode
        PROVE  \E q \in 1..(m - 1) : new[q].inode = new[m].inode
    <2>1. p[m] # i /\ k \in 1..n /\ m # a
      BY <1>1, <1>2, <1>3 DEF MovesTo
    <2>2. PICK q \in 1..n : p[q] = k
      BY <2>1 DEF IsOrder
    <2>3. q < m
      <3>1. p[q] < p[m] /\ q # m /\ p[m] \in 1..n /\ p[q] \in 1..n
        BY <1>1, <2>2
      <3>2. CASE q = a
        BY <1>2, <2>1, <3>1, <3>2 DEF MovesTo
      <3>3. CASE q # a
        BY <1>2, <2>1, <3>1, <3>3 DEF MovesTo
      <3> QED
        BY <3>2, <3>3
    <2>4. new[q].inode = new[m].inode /\ q \in 1..(m - 1)
      BY <1>1, <1>3, <2>2, <2>3
    <2> QED
      BY <2>4
  <1>4. ASSUME NEW m \in 1..n, ~new[m].dup, NEW k \in 1..(m - 1), new[k].inode = new[m].inode
        PROVE  \E q \in 1..(p[m] - 1) : list[q].inode = list[p[m]].inode
    <2>1. k \in 1..n /\ p[m] # i /\ ~list[p[m]].dup /\ list[p[k]].inode = list[p[m]].inode
      BY <1>1, <1>4
    <2>2. CASE p[k] < p[m]
      BY <1>1, <2>1, <2>2
    <2>3. CASE ~(p[k] < p[m])
      <3>1. p[k] \in 1..n /\ p[m] \in 1..n /\ m # a /\ k < m
        BY <1>2, <2>1 DEF MovesTo
      <3>2. k = a /\ m <= i
        BY <1>2, <2>1, <2>3, <3>1 DEF MovesTo
      <3>3. p[k] = i /\ h < p[m] /\ p[m] < i
        BY <1>2, <2>1, <3>1, <3>2 DEF MovesTo
      <3>4. Copies(list, i, p[m])
        BY <1>1, <2>1, <3>3, CopiesAre
      <3>5. Copies(list, h, p[m])
        BY <1>1, <3>4, CopiesAre
      <3> QED
        BY <1>1, <2>1, <3>3, <3>5 DEF Matched
    <2> QED
      BY <2>2, <2>3
  <1>5. ASSUME NEW m \in 1..n, ~new[m].dup
        PROVE  new[m].lnk <=> \E k \in 1..(m - 1) : new[k].inode = new[m].inode
    <2>1. p[m] \in 1..n /\ ~list[p[m]].dup
      BY <1>1, <1>5
    <2>2. list[p[m]].lnk <=> \E k \in 1..(p[m] - 1) : list[k].inode = list[p[m]].inode
      BY <2>1 DEF LinksAreLater
    <2> QED
      BY <1>1, <1>3, <1>4, <1>5, <2>2
  <1> QED
    BY <1>1, <1>5 DEF LinksAreLater

\* DuplicatesFound needs the order of the list behind the head as well.
ScanInvariant ==
    /\ LinksInvariant /\ BytesCompare
    /\ pc \in scan2 => Filled(filelist) /\ LinksAreLater(filelist)
    /\ pc \in {"head", "print", "done"} => Grouped(filelist, lastix)
    /\ pc = "head" => SortedFrom(filelist, lastix)
    /\ pc \in {"print", "done"} => lastix \in Nat /\ lastix > NFound
    /\ pc = "compare" => /\ lnkmatch \in BOOLEAN
                         /\ Compared(filelist, ix, ix2, lastix, lnkmatch)
    /\ pc = "done" => out = {<<filelist[HeadOf(i)].name, filelist[i].name>> :
                               i \in {j \in DOMAIN filelist :
                                        filelist[j].dup /\ (disk.links \/ ~filelist[j].lnk)}}

\* What is said of a new list is true in the next state.
LEMMA GroupingStays ==
    ASSUME disk' = disk
    PROVE  /\ LinksAreLater(filelist') => LinksAreLater(filelist)'
           /\ Grouped(filelist', lastix') => Grouped(filelist, lastix)'
           /\ SortedFrom(filelist', lastix') => SortedFrom(filelist, lastix)'
           /\ Compared(filelist', ix', ix2', lastix', lnkmatch')
                => Compared(filelist, ix, ix2, lastix, lnkmatch)'
  BY DEF LinksAreLater, Grouped, Copies, SameFile, ContentOf, SortedFrom, Before, Below, NotAfter,
         AsInt, Compared, Ordered, Headed, Matched, LinkMatch

\* A match keeps the order and the groups.
LEMMA MatchCompared ==
    ASSUME NoCircles, BytesCompare, DiskOK,
           IsListing(filelist), Filled(filelist), LinksAreLater(filelist),
           ix \in 1..NFound, ix2 \in Nat, lastix \in (ix + 1)..ix2, lnkmatch \in BOOLEAN,
           Compared(filelist, ix, ix2, lastix, lnkmatch), Match
    PROVE  /\ Filled(filelist') /\ LinksAreLater(filelist')
           /\ Compared(filelist', ix', ix2', lastix', lnkmatch')
  <1>1. PICK n \in Nat : /\ n = Len(filelist) /\ n = NFound
                         /\ \A k \in 1..n : filelist[k] \in Entries
    BY ListingIs DEF NFound
  <1>2. PICK p : /\ ix2 \in 1..n /\ IsOrder(p, n) /\ MovesTo(p, n, ix2, lastix)
                 /\ IsMatch(filelist', filelist, ix2, p)
    BY <1>1, MatchIs
  <1>3. /\ Alike /\ Same /\ ix' = ix /\ ix2' = ix2 + 1 /\ lnkmatch' = TRUE
        /\ lastix' = IF lastix # ix2 THEN lastix + 1 ELSE lastix
    BY DEF Match
  <1>4. Copies(filelist, ix, ix2)
    BY <1>1, <1>2, <1>3, SameIsCopy
  <1>5. /\ filelist[ix].length = filelist[ix2].length /\ filelist[ix].crc = filelist[ix2].crc
    BY <1>3 DEF Alike
  <1>6. /\ Ordered(filelist, ix, ix2, lastix) /\ Headed(filelist, ix, ix2)
        /\ Matched(filelist, ix, ix2, lastix)
    BY DEF Compared
  <1>7. Filled(filelist')
    BY <1>2, MatchFields
  <1>8. ix \in 1..n /\ lastix \in (ix + 1)..ix2
    BY <1>1
  <1>9. LinksAreLater(filelist')
    BY <1>1, <1>2, <1>4, <1>6, <1>8, MatchLinks
  <1>10. Ordered(filelist', ix, ix2 + 1, lastix')
    BY <1>1, <1>2, <1>3, <1>6, <1>8, MatchOrdered
  <1>11. Headed(filelist', ix, ix2 + 1)
    BY <1>1, <1>2, <1>6, <1>8, MatchHeaded
  <1>12. Matched(filelist', ix, ix2 + 1, lastix')
    BY <1>1, <1>2, <1>3, <1>4, <1>6, <1>8, MatchMatched
  <1>13. LinkMatch(filelist', ix, ix2 + 1, TRUE)
    BY <1>1, <1>2, <1>4, <1>5, <1>6, <1>8, MatchLinkMatch
  <1>14. ix2 + 1 <= Len(filelist') + 1
    <2>1. Len(filelist') = Len(filelist)
      BY <1>2 DEF IsMatch
    <2>2. Len(filelist') = n /\ ix2 \in 1..n
      BY <1>1, <1>2, <2>1
    <2> QED
      BY <2>2
  <1>15. Compared(filelist', ix, ix2 + 1, lastix', TRUE)
    BY <1>10, <1>11, <1>12, <1>13, <1>14, Zenon DEF Compared
  <1>16. Compared(filelist', ix', ix2', lastix', lnkmatch')
    BY <1>3, <1>15, Zenon
  <1> QED
    BY <1>7, <1>9, <1>16

\* ScanInvariant is inductive.
LEMMA ScanNext ==
    ASSUME ScanInvariant, [Next]_vars
    PROVE  ScanInvariant'
  <1>1. /\ LinksInvariant /\ LinksInvariant' /\ FindDupInvariant
        /\ DiskOK /\ NoCircles /\ BytesCompare
    BY LinksNext DEF ScanInvariant, LinksInvariant, FindDupInvariant
  <1>2. disk' = disk /\ BytesCompare'
    BY <1>1, DiskIsRead, BytesCompareStays
  <1>3. ASSUME pc' \notin scan2 PROVE ScanInvariant'
    BY <1>1, <1>2, <1>3 DEF ScanInvariant, scan2
  <1>4. pc # "build" => IsListing(filelist) /\ NFound = Len(filelist) /\ NFound \in Nat
    BY <1>1, ListingIs DEF FindDupInvariant, NFound
  <1>5. pc = "compare" => /\ ix \in 1..NFound /\ ix2 \in Nat /\ lastix \in (ix + 1)..ix2
                          /\ lnkmatch \in BOOLEAN /\ Filled(filelist) /\ LinksAreLater(filelist)
                          /\ Compared(filelist, ix, ix2, lastix, lnkmatch)
    BY <1>1 DEF FindDupInvariant, ScanInvariant, scan2
  <1>6. CASE Build \/ Sort \/ Scan1 \/ Scan1Exit \/ CompareExit
    <2>1. pc' \notin scan2
      BY <1>6 DEF Build, Sort, Scan1, Scan1Exit, CompareExit, scan2
    <2> QED
      BY <1>3, <2>1
  <1>7. CASE MarkLinks
    <2>1. /\ IsListing(filelist) /\ pc' = "head" /\ lastix' = 1
          /\ Filled(filelist) /\ Unmarked(filelist) /\ SortedFrom(filelist, 1)
      BY <1>1, <1>4, <1>7 DEF MarkLinks, LinksInvariant
    <2>2. /\ Filled(filelist') /\ LinksAreLater(filelist')
          /\ SortedFrom(filelist', 1) /\ \A k \in 1..Len(filelist') : ~filelist'[k].dup
      BY <1>1, <1>7, <2>1, MarkLinksMarks
    <2>3. Grouped(filelist', 1)
      BY <2>2 DEF Grouped
    <2>4. Grouped(filelist', lastix') /\ SortedFrom(filelist', lastix')
      BY <2>1, <2>2, <2>3
    <2> QED
      BY <1>1, <1>2, <2>1, <2>2, <2>4, FillingStays, GroupingStays DEF ScanInvariant
  <1>8. CASE TakeHead
    <2>1. /\ IsListing(filelist) /\ NFound = Len(filelist) /\ Filled(filelist)
          /\ LinksAreLater(filelist) /\ Grouped(filelist, lastix) /\ SortedFrom(filelist, lastix)
          /\ lastix \in Nat \ {0} /\ filelist' = filelist /\ NFound \in Nat
      BY <1>1, <1>4, <1>8 DEF TakeHead, ScanInvariant, scan2, FindDupInvariant
    <2>2. CASE lastix <= NFound
      <3>1. /\ pc' = "compare" /\ ix' = lastix /\ ix2' = lastix + 1 /\ lastix' = lastix + 1
            /\ lnkmatch' = TRUE
        BY <1>8, <2>2 DEF TakeHead
      <3>2. lastix \in 1..Len(filelist)
        BY <2>1, <2>2
      <3>3. Compared(filelist, lastix, lastix + 1, lastix + 1, TRUE)
        BY <1>1, <2>1, <3>2, HeadTaken
      <3>4. Compared(filelist', ix', ix2', lastix', lnkmatch')
        BY <2>1, <3>1, <3>3, Zenon
      <3>5. lnkmatch' \in BOOLEAN
        BY <3>1
      <3>6. Filled(filelist') /\ LinksAreLater(filelist')
        BY <2>1
      <3> QED
        BY <1>1, <1>2, <3>1, <3>4, <3>5, <3>6, FillingStays, GroupingStays DEF ScanInvariant
    <2>3. CASE ~(lastix <= NFound)
      <3>1. pc' = "print" /\ lastix' = lastix
        BY <1>8, <2>3 DEF TakeHead, locals
      <3>2. Grouped(filelist', lastix') /\ Filled(filelist') /\ LinksAreLater(filelist')
        BY <2>1, <3>1
      <3>3. lastix' \in Nat /\ lastix' > NFound'
        BY <2>1, <2>3, <3>1 DEF NFound
      <3> QED
        BY <1>1, <1>2, <3>1, <3>2, <3>3, FillingStays, GroupingStays DEF ScanInvariant
    <2> QED
      BY <2>2, <2>3
  <1>9. CASE Match
    <2>1. pc = "compare" /\ pc' = "compare" /\ lnkmatch' = TRUE /\ IsListing(filelist)
      BY <1>4, <1>9 DEF Match
    <2>2. /\ Filled(filelist') /\ LinksAreLater(filelist')
          /\ Compared(filelist', ix', ix2', lastix', lnkmatch')
      BY <1>1, <1>5, <1>9, <2>1, MatchCompared
    <2>3. lnkmatch' \in BOOLEAN
      BY <2>1
    <2> QED
      BY <1>1, <1>2, <2>1, <2>2, <2>3, FillingStays, GroupingStays DEF ScanInvariant
  <1>10. CASE NoMatch
    <2>1. /\ pc = "compare" /\ pc' = "compare" /\ lnkmatch' = FALSE /\ IsListing(filelist)
          /\ Alike /\ ~Same /\ filelist' = filelist /\ ix' = ix /\ ix2' = ix2 + 1
          /\ lastix' = lastix
      BY <1>4, <1>10 DEF NoMatch
    <2>2. ix2 \in 1..NFound
      BY <1>4, <1>5, <2>1 DEF Alike
    <2>3. ~Copies(filelist, ix, ix2)
      BY <1>1, <1>5, <2>1, <2>2, SameIsCopy
    <2>4. ix \in 1..Len(filelist) /\ ix2 \in 1..Len(filelist)
      BY <1>4, <1>5, <2>1, <2>2
    <2>5. Compared(filelist, ix, ix2 + 1, lastix, FALSE)
      BY <1>1, <1>5, <2>1, <2>3, <2>4, NotMatched
    <2>6. Compared(filelist', ix', ix2', lastix', lnkmatch')
      BY <2>1, <2>5, Zenon
    <2>7. Filled(filelist') /\ LinksAreLater(filelist') /\ lnkmatch' \in BOOLEAN
      BY <1>5, <2>1
    <2> QED
      BY <1>1, <1>2, <2>1, <2>6, <2>7, FillingStays, GroupingStays DEF ScanInvariant
  <1>11. CASE EndOfRun
    <2>1. /\ pc = "compare" /\ pc' = "head" /\ IsListing(filelist) /\ ~Alike
          /\ filelist' = filelist /\ lastix' = lastix
      BY <1>4, <1>11 DEF EndOfRun, locals
    <2>2. /\ ix \in 1..Len(filelist)
          /\ ~ (ix2 <= Len(filelist) /\ filelist[ix].length = filelist[ix2].length
                                     /\ filelist[ix].crc = filelist[ix2].crc)
      BY <1>4, <1>5, <2>1 DEF Alike
    <2>3. Grouped(filelist, lastix) /\ SortedFrom(filelist, lastix)
      BY <1>1, <1>5, <2>1, <2>2, RunEnds
    <2>4. /\ Grouped(filelist', lastix') /\ SortedFrom(filelist', lastix')
          /\ Filled(filelist') /\ LinksAreLater(filelist')
      BY <1>5, <2>1, <2>3
    <2> QED
      BY <1>1, <1>2, <2>1, <2>4, FillingStays, GroupingStays DEF ScanInvariant
  <1>12. CASE Scan3
    <2>1. /\ pc = "print" /\ pc' = "done" /\ filelist' = filelist /\ lastix' = lastix
          /\ out' = {<<filelist[HeadOf(i)].name, filelist[i].name>> :
                       i \in {j \in DOMAIN filelist :
                                filelist[j].dup /\ (disk.links \/ ~filelist[j].lnk)}}
      BY <1>12 DEF Scan3, locals
    <2>2. /\ Grouped(filelist', lastix') /\ Filled(filelist') /\ LinksAreLater(filelist')
          /\ lastix' \in Nat /\ lastix' > NFound'
      BY <2>1 DEF ScanInvariant, scan2, NFound
    <2>3. (out = {<<filelist[HeadOf(i)].name, filelist[i].name>> :
                       i \in {j \in DOMAIN filelist :
                                filelist[j].dup /\ (disk.links \/ ~filelist[j].lnk)}})'
      BY <1>2, <2>1 DEF HeadOf
    <2> QED
      BY <1>1, <1>2, <2>1, <2>2, <2>3, FillingStays, GroupingStays DEF ScanInvariant
  <1>13. CASE Finished \/ UNCHANGED vars
    <2>1. UNCHANGED vars
      BY <1>13 DEF Finished
    <2>2. pc \in scan2 => Filled(filelist)' /\ LinksAreLater(filelist)'
      BY <1>2, <2>1, FillingStays, GroupingStays DEF ScanInvariant, vars
    <2>3. /\ pc' = pc /\ lastix' = lastix /\ NFound' = NFound /\ lnkmatch' = lnkmatch
          /\ (pc \in {"head", "print", "done"} => Grouped(filelist, lastix)')
          /\ (pc = "head" => SortedFrom(filelist, lastix)')
          /\ (pc = "compare" => Compared(filelist, ix, ix2, lastix, lnkmatch)')
      BY <1>2, <2>1, GroupingStays DEF ScanInvariant, vars, NFound
    <2>4. pc = "done" =>
            (out = {<<filelist[HeadOf(i)].name, filelist[i].name>> :
                       i \in {j \in DOMAIN filelist :
                                filelist[j].dup /\ (disk.links \/ ~filelist[j].lnk)}})'
      BY <2>1 DEF ScanInvariant, vars, HeadOf
    <2> QED
      BY <1>1, <1>2, <2>2, <2>3, <2>4 DEF ScanInvariant
  <1> QED
    BY <1>6, <1>7, <1>8, <1>9, <1>10, <1>11, <1>12, <1>13 DEF Next

-------------------------------------------------------------------------------
\* What scan3 prints (finddup.c:391-427): the entries that it shows, under their heads.
Shown(i) == filelist[i].dup /\ (disk.links \/ ~filelist[i].lnk)
GroupOf(h) == {filelist[h].name} \cup
              {filelist[m].name : m \in {j \in 1..NFound : Shown(j) /\ HeadOf(j) = h}}

\* The list when scan2 has ended.
Scanned ==
    /\ DiskOK /\ IsListing(filelist) /\ Filled(filelist)
    /\ OneIsNoLink(filelist) /\ LinksAreLater(filelist)
    /\ Grouped(filelist, lastix) /\ lastix \in Nat /\ lastix > NFound

\* A set has more than one element if two differ.
LEMMA MoreThanOne ==
    ASSUME NEW S, IsFiniteSet(S)
    PROVE  Cardinality(S) > 1 <=> \E x, y \in S : x # y
  <1>1. Cardinality(S) \in Nat
    BY FS_CardinalityType
  <1>2. ASSUME NEW x \in S, NEW y \in S, x # y PROVE Cardinality(S) > 1
    <2>1. IsFiniteSet({x}) /\ Cardinality({x}) = 1
      BY FS_Singleton
    <2>2. {x} \in SUBSET S /\ {x} # S
      BY <1>2
    <2>3. Cardinality({x}) <= Cardinality(S) /\ (Cardinality({x}) = Cardinality(S) => {x} = S)
      BY <2>2, FS_Subset
    <2> QED
      BY <1>1, <2>1, <2>2, <2>3
  <1>3. ASSUME Cardinality(S) > 1 PROVE \E x, y \in S : x # y
    <2>1. S # {}
      BY <1>3, FS_EmptySet
    <2>2. PICK x \in S : TRUE
      BY <2>1
    <2>3. Cardinality({x}) = 1
      BY FS_Singleton
    <2>4. S # {x}
      BY <1>3, <2>3
    <2> QED
      BY <2>2, <2>4
  <1> QED
    BY <1>2, <1>3

\* Every entry has a head, and is the same as its head.
LEMMA HeadIs ==
    ASSUME Scanned, NEW i \in 1..NFound
    PROVE  /\ HeadOf(i) \in 1..i /\ ~filelist[HeadOf(i)].dup
           /\ Copies(filelist, HeadOf(i), i)
           /\ ~filelist[i].dup => HeadOf(i) = i
  <1>1. PICK n \in Nat : n = Len(filelist) /\ n = NFound
    BY ListingIs DEF NFound, Scanned
  <1>2. \A k \in 1..n : filelist[k].dup => k \in 2..n /\ Copies(filelist, k - 1, k)
    BY <1>1 DEF Scanned, Grouped
  <1> DEFINE T == {j \in 1..i : ~filelist[j].dup}
             D == {d \in 0..(i - 1) : ~filelist[i - d].dup}
  <1>3. D \subseteq Nat /\ i - 1 \in D
    <2>1. ~filelist[1].dup /\ i - (i - 1) = 1
      BY <1>1, <1>2
    <2> QED
      BY <1>1, <2>1
  <1>4. PICK d \in D : \A e \in D : d <= e
    BY <1>3, LeastIs
  <1> DEFINE h == i - d
  <1>5. h \in T
    BY <1>1, <1>4
  <1>6. ASSUME NEW j \in T PROVE h >= j
    <2>1. i - j \in 0..(i - 1) /\ i - (i - j) = j
      BY <1>1
    <2>2. i - j \in D
      BY <2>1
    <2> QED
      BY <1>1, <1>4, <2>2
  <1>7. HeadOf(i) \in T /\ \A j \in T : HeadOf(i) >= j
    <2>1. \E x \in T : \A y \in T : x >= y
      BY <1>5, <1>6
    <2> QED
      BY <2>1 DEF HeadOf, Max
  <1> HIDE DEF T, D, h
  <1>8. PICK g : g = HeadOf(i)
    OBVIOUS
  <1>9. g \in 1..i /\ ~filelist[g].dup /\ \A j \in 1..i : g < j => filelist[j].dup
    BY <1>1, <1>7, <1>8 DEF T
  <1>10. Copies(filelist, g, i)
    <2> DEFINE B == {j \in g..i : ~Copies(filelist, g, j)}
    <2> SUFFICES ASSUME B # {} PROVE FALSE
      BY <1>1, <1>9
    <2>1. B \subseteq Nat
      BY <1>9
    <2>2. PICK j \in B : \A k \in B : j <= k
      BY <2>1, LeastIs
    <2>3. j # g
      <3>1. g \in 1..Len(filelist) /\ DiskOK /\ IsListing(filelist) /\ Filled(filelist)
        BY <1>1, <1>9 DEF Scanned
      <3>2. Copies(filelist, g, g)
        BY <3>1, CopiesAre
      <3> QED
        BY <2>2, <3>2
    <2>4. j - 1 \in g..i /\ j - 1 \notin B /\ j \in 1..n /\ j - 1 \in 1..n /\ g \in 1..n
      BY <1>1, <1>9, <2>2, <2>3
    <2>5. Copies(filelist, g, j - 1) /\ filelist[j].dup
      BY <1>9, <2>2, <2>3, <2>4
    <2>6. Copies(filelist, j - 1, j)
      BY <1>2, <2>4, <2>5
    <2>7. Copies(filelist, g, j)
      BY <1>1, <2>4, <2>5, <2>6, CopiesAre DEF Scanned
    <2> QED
      BY <2>2, <2>7
  <1>11. ~filelist[i].dup => g = i
    BY <1>1, <1>9
  <1> QED
    BY <1>8, <1>9, <1>10, <1>11

\* Entries are the same if and only if they have one head.
LEMMA OneHead ==
    ASSUME Scanned, NEW i \in 1..NFound, NEW m \in 1..NFound
    PROVE  Copies(filelist, i, m) <=> HeadOf(i) = HeadOf(m)
  <1>1. PICK n \in Nat : n = Len(filelist) /\ n = NFound
    BY ListingIs DEF NFound, Scanned
  <1>2. PICK g, h : g = HeadOf(i) /\ h = HeadOf(m)
    OBVIOUS
  <1>3. /\ g \in 1..n /\ ~filelist[g].dup /\ Copies(filelist, g, i)
        /\ h \in 1..n /\ ~filelist[h].dup /\ Copies(filelist, h, m)
    BY <1>1, <1>2, HeadIs
  <1>4. DiskOK /\ IsListing(filelist) /\ Filled(filelist)
    BY DEF Scanned
  <1>5. ASSUME g = h PROVE Copies(filelist, i, m)
    <2>1. Copies(filelist, i, g)
      BY <1>1, <1>3, <1>4, CopiesAre
    <2> QED
      BY <1>1, <1>3, <1>4, <1>5, <2>1, CopiesAre
  <1>6. ASSUME Copies(filelist, i, m) PROVE g = h
    <2>1. Copies(filelist, g, m)
      BY <1>1, <1>3, <1>4, <1>6, CopiesAre
    <2>2. Copies(filelist, m, h)
      BY <1>1, <1>3, <1>4, CopiesAre
    <2>3. Copies(filelist, g, h)
      BY <1>1, <1>3, <1>4, <2>1, <2>2, CopiesAre
    <2>4. Copies(filelist, h, g)
      BY <1>1, <1>3, <1>4, <2>3, CopiesAre
    <2>5. \A k \in 1..n : ~filelist[k].dup => \A j \in 1..(k - 1) : ~Copies(filelist, j, k)
      BY <1>1 DEF Scanned, Grouped
    <2> QED
      BY <1>1, <1>3, <2>3, <2>4, <2>5
  <1> QED
    BY <1>2, <1>5, <1>6

\* A head is no link.
LEMMA HeadIsNoLink ==
    ASSUME Scanned, NEW h \in 1..NFound, ~filelist[h].dup
    PROVE  ~filelist[h].lnk
  <1>1. PICK n \in Nat : n = Len(filelist) /\ n = NFound
    BY ListingIs DEF NFound, Scanned
  <1>2. ASSUME filelist[h].lnk PROVE FALSE
    <2>1. PICK k \in 1..(h - 1) : filelist[k].inode = filelist[h].inode
      BY <1>1, <1>2 DEF Scanned, LinksAreLater
    <2>2. k \in 1..n
      BY <1>1
    <2>3. Copies(filelist, k, h)
      BY <1>1, <2>1, <2>2, CopiesAre DEF Scanned
    <2>4. k < lastix
      BY <1>1, <2>2 DEF Scanned
    <2> QED
      BY <1>1, <2>3, <2>4 DEF Scanned, Grouped
  <1> QED
    BY <1>2

\* What scan3 prints of it.
ScannedOut ==
    out = {<<filelist[HeadOf(i)].name, filelist[i].name>> :
             i \in {j \in DOMAIN filelist :
                      filelist[j].dup /\ (disk.links \/ ~filelist[j].lnk)}}

\* The groups printed are those of the heads of the entries shown.
LEMMA GroupsAre ==
    ASSUME Scanned, ScannedOut
    PROVE  Groups = {GroupOf(HeadOf(i)) : i \in {j \in 1..NFound : Shown(j)}}
  <1>1. PICK n \in Nat : /\ n = NFound /\ DOMAIN filelist = 1..n
                         /\ \A k, m \in 1..n : filelist[k].name = filelist[m].name => k = m
    BY ListingIs DEF NFound, Scanned
  <1> DEFINE N(i) == filelist[i].name
             S == {j \in 1..n : Shown(j)}
             Listed(x) == {x} \cup {p[2] : p \in {q \in out : q[1] = x}}
  <1>2. out = {<<N(HeadOf(i)), N(i)>> : i \in S}
    BY <1>1 DEF ScannedOut, Shown
  <1>3. \A i \in S : HeadOf(i) \in 1..n
    BY <1>1, HeadIs
  <1> HIDE DEF S
  <1>4. {p[1] : p \in out} = {N(HeadOf(i)) : i \in S}
    <2>1. ASSUME NEW i \in S PROVE N(HeadOf(i)) \in {p[1] : p \in out}
      <3>1. PICK p \in out : p = <<N(HeadOf(i)), N(i)>>
        BY <1>2
      <3>2. p[1] = N(HeadOf(i))
        BY <3>1
      <3> QED
        BY <3>2
    <2>2. \A p \in out : p[1] \in {N(HeadOf(i)) : i \in S}
      BY <1>2
    <2> QED
      BY <2>1, <2>2
  <1>5. Groups = {Listed(x) : x \in {N(HeadOf(i)) : i \in S}}
    BY <1>4 DEF Groups
  <1>6. ASSUME NEW i \in S PROVE Listed(N(HeadOf(i))) = GroupOf(HeadOf(i))
    <2>1. PICK h \in 1..n : h = HeadOf(i)
      BY <1>3
    <2>2. {p[2] : p \in {q \in out : q[1] = N(h)}} = {N(m) : m \in {j \in S : HeadOf(j) = h}}
      <3>1. ASSUME NEW q \in out, q[1] = N(h)
            PROVE  q[2] \in {N(m) : m \in {j \in S : HeadOf(j) = h}}
        <4>1. PICK m \in S : q = <<N(HeadOf(m)), N(m)>>
          BY <1>2
        <4>2. HeadOf(m) = h
          BY <1>1, <1>3, <2>1, <3>1, <4>1
        <4> QED
          BY <4>1, <4>2
      <3>2. ASSUME NEW m \in S, HeadOf(m) = h
            PROVE  N(m) \in {p[2] : p \in {q \in out : q[1] = N(h)}}
        <4>1. <<N(HeadOf(m)), N(m)>> \in out
          BY <1>2
        <4>2. PICK q \in out : q[1] = N(h) /\ q[2] = N(m)
          BY <3>2, <4>1
        <4> QED
          BY <4>2
      <3> QED
        BY <3>1, <3>2
    <2>3. {j \in S : HeadOf(j) = h} = {j \in 1..NFound : Shown(j) /\ HeadOf(j) = h}
      BY <1>1 DEF S
    <2> QED
      BY <2>1, <2>2, <2>3 DEF GroupOf
  <1> HIDE DEF Listed
  <1>7. {Listed(x) : x \in {N(HeadOf(i)) : i \in S}} = {GroupOf(HeadOf(i)) : i \in S}
    BY <1>6
  <1> QED
    BY <1>1, <1>5, <1>7 DEF S

\* The names of a class are those of the entries with one head.
LEMMA ClassIs ==
    ASSUME Scanned, NEW i \in 1..NFound
    PROVE  /\ Class(filelist[i].name) =
                {filelist[m].name : m \in {j \in 1..NFound : HeadOf(j) = HeadOf(i)}}
           /\ Class(filelist[i].name) = Class(filelist[HeadOf(i)].name)
           /\ IsFiniteSet(Class(filelist[i].name))
  <1>1. PICK n \in Nat : n = NFound /\ n = Len(filelist)
    BY ListingIs DEF NFound, Scanned
  <1>2. /\ \A k \in 1..n : filelist[k].name \in Found
        /\ \A name \in Found : \E k \in 1..n : filelist[k].name = name
    BY <1>1, ListingIs DEF Scanned
  <1>3. ASSUME NEW k \in 1..n
        PROVE  Class(filelist[k].name) =
                 {filelist[m].name : m \in {j \in 1..n : HeadOf(j) = HeadOf(k)}}
    <2>1. Class(filelist[k].name) = {x \in Found : SameFile(filelist[k].name, x)}
      BY DEF Class, SameFile
    <2>2. ASSUME NEW m \in 1..n
          PROVE  SameFile(filelist[k].name, filelist[m].name) <=> HeadOf(m) = HeadOf(k)
      BY <1>1, OneHead DEF Copies
    <2> QED
      BY <1>2, <2>1, <2>2
  <1>4. HeadOf(i) \in 1..n /\ HeadOf(HeadOf(i)) = HeadOf(i)
    BY <1>1, HeadIs
  <1>5. IsFiniteSet(Class(filelist[i].name))
    <2>1. IsFiniteSet(Found) /\ Class(filelist[i].name) \in SUBSET Found
      BY FoundAre DEF Scanned, Class
    <2> QED
      BY <2>1, FS_Subset
  <1> QED
    BY <1>1, <1>3, <1>4, <1>5

\* With links, a group has all names of its files.
LEMMA WithLinks ==
    ASSUME Scanned, ScannedOut, disk.links
    PROVE  Groups = {g \in {Class(n) : n \in Found} : Cardinality(g) > 1}
  <1>1. PICK n \in Nat : n = NFound /\ n = Len(filelist)
    BY ListingIs DEF NFound, Scanned
  <1>2. /\ \A k \in 1..n : filelist[k].name \in Found
        /\ \A name \in Found : \E k \in 1..n : filelist[k].name = name
        /\ \A k, m \in 1..n : filelist[k].name = filelist[m].name => k = m
    BY <1>1, ListingIs DEF Scanned
  <1>3. \A k \in 1..n : Shown(k) <=> filelist[k].dup
    BY DEF Shown
  <1>4. ASSUME NEW i \in 1..n
        PROVE  GroupOf(HeadOf(i)) = Class(filelist[i].name)
    <2>1. PICK h \in 1..n : h = HeadOf(i) /\ HeadOf(h) = h
      BY <1>1, HeadIs
    <2>2. \A m \in 1..n : HeadOf(m) = h => m = h \/ Shown(m)
      BY <1>1, <1>3, HeadIs
    <2>3. GroupOf(h) = {filelist[m].name : m \in {j \in 1..n : HeadOf(j) = h}}
      BY <1>1, <2>1, <2>2 DEF GroupOf
    <2> QED
      BY <1>1, <2>1, <2>3, ClassIs
  <1>5. ASSUME NEW i \in 1..n, Shown(i)
        PROVE  Cardinality(Class(filelist[i].name)) > 1
    <2>1. PICK h \in 1..n : h = HeadOf(i) /\ HeadOf(h) = h /\ ~filelist[h].dup
      BY <1>1, HeadIs
    <2>2. filelist[h].name # filelist[i].name
      BY <1>2, <1>3, <1>5, <2>1
    <2>3. /\ filelist[h].name \in Class(filelist[i].name)
          /\ filelist[i].name \in Class(filelist[i].name)
      BY <1>1, <2>1, ClassIs
    <2> QED
      BY <1>1, <2>2, <2>3, ClassIs, MoreThanOne
  <1>6. ASSUME NEW i \in 1..n, Cardinality(Class(filelist[i].name)) > 1
        PROVE  \E m \in 1..n : Shown(m) /\ HeadOf(m) = HeadOf(i)
    <2>1. PICK x \in Class(filelist[i].name), y \in Class(filelist[i].name) : x # y
      BY <1>1, <1>6, ClassIs, MoreThanOne
    <2>a. Class(filelist[i].name) =
                {filelist[j].name : j \in {l \in 1..n : HeadOf(l) = HeadOf(i)}}
      BY <1>1, ClassIs
    <2>2. PICK k \in 1..n, m \in 1..n : /\ HeadOf(k) = HeadOf(i) /\ HeadOf(m) = HeadOf(i)
                                        /\ filelist[k].name = x /\ filelist[m].name = y
      BY <2>1, <2>a
    <2>3. k # m
      BY <2>1, <2>2
    <2>4. filelist[k].dup \/ filelist[m].dup
      BY <1>1, <2>2, <2>3, HeadIs
    <2> QED
      BY <1>3, <2>2, <2>4
  <1>7. Groups = {GroupOf(HeadOf(i)) : i \in {j \in 1..n : Shown(j)}}
    BY <1>1, GroupsAre
  <1>8. \A g \in Groups : g \in {Class(x) : x \in Found} /\ Cardinality(g) > 1
    <2>1. ASSUME NEW i \in 1..n, Shown(i)
          PROVE  /\ GroupOf(HeadOf(i)) \in {Class(x) : x \in Found}
                 /\ Cardinality(GroupOf(HeadOf(i))) > 1
      BY <1>2, <1>4, <1>5, <2>1
    <2> QED
      BY <1>7, <2>1
  <1>9. ASSUME NEW x \in Found, Cardinality(Class(x)) > 1 PROVE Class(x) \in Groups
    <2>1. PICK i \in 1..n : filelist[i].name = x
      BY <1>2
    <2>2. PICK m \in 1..n : Shown(m) /\ HeadOf(m) = HeadOf(i)
      BY <1>6, <1>9, <2>1
    <2>3. GroupOf(HeadOf(m)) \in Groups
      BY <1>7, <2>2
    <2> QED
      BY <1>4, <2>1, <2>2, <2>3
  <1> QED
    BY <1>8, <1>9

\* Without links, a group has one name of each of its files.
LEMMA WithoutLinks ==
    ASSUME Scanned, ScannedOut, ~disk.links
    PROVE  /\ {Files(g) : g \in Groups} =
                {f \in {Files(Class(n)) : n \in Found} : Cardinality(f) > 1}
           /\ \A g \in Groups : Cardinality(g) = Cardinality(Files(g))
  <1>1. PICK n \in Nat : n = NFound /\ n = Len(filelist)
    BY ListingIs DEF NFound, Scanned
  <1>2. /\ \A k \in 1..n : /\ filelist[k].name \in Found
                           /\ disk.inode[filelist[k].name] = filelist[k].inode
        /\ \A name \in Found : \E k \in 1..n : filelist[k].name = name
        /\ \A k, m \in 1..n : filelist[k].name = filelist[m].name => k = m
    BY <1>1, ListingIs DEF Scanned
  <1>3. \A k \in 1..n : Shown(k) <=> filelist[k].dup /\ ~filelist[k].lnk
    BY DEF Shown
  <1>4. /\ \A k, m \in 1..n :
             filelist[k].inode = filelist[m].inode /\ ~filelist[k].lnk /\ ~filelist[m].lnk => k = m
        /\ \A k \in 1..n : \E m \in 1..n :
             filelist[m].inode = filelist[k].inode /\ ~filelist[m].lnk
    BY <1>1 DEF Scanned, OneIsNoLink
  <1>5. \A k, m \in 1..n : filelist[k].inode = filelist[m].inode => HeadOf(k) = HeadOf(m)
    BY <1>1, OneHead, CopiesAre DEF Scanned
  <1>6. \A k \in 1..n : /\ HeadOf(k) \in 1..n /\ HeadOf(HeadOf(k)) = HeadOf(k)
                        /\ ~filelist[HeadOf(k)].lnk /\ ~filelist[HeadOf(k)].dup
    BY <1>1, HeadIs, HeadIsNoLink
  <1> DEFINE Firsts(h) == {m \in 1..n : HeadOf(m) = h /\ ~filelist[m].lnk}
  <1>7. ASSUME NEW i \in 1..n
        PROVE  /\ GroupOf(HeadOf(i)) = {filelist[m].name : m \in Firsts(HeadOf(i))}
               /\ Files(GroupOf(HeadOf(i))) = {filelist[m].inode : m \in Firsts(HeadOf(i))}
    <2>1. PICK h \in 1..n : h = HeadOf(i) /\ HeadOf(h) = h /\ ~filelist[h].lnk
      BY <1>6
    <2>2. \A m \in 1..n : HeadOf(m) = h => m = h \/ filelist[m].dup
      BY <1>1, HeadIs
    <2>3. GroupOf(h) = {filelist[m].name : m \in Firsts(h)}
      BY <1>1, <1>3, <2>1, <2>2 DEF GroupOf
    <2>4. Files(GroupOf(h)) = {filelist[m].inode : m \in Firsts(h)}
      BY <1>2, <2>3 DEF Files
    <2> QED
      BY <2>1, <2>3, <2>4
  <1>8. ASSUME NEW i \in 1..n
        PROVE  Files(Class(filelist[i].name)) = {filelist[m].inode : m \in Firsts(HeadOf(i))}
    <2>1. Class(filelist[i].name) =
            {filelist[j].name : j \in {l \in 1..n : HeadOf(l) = HeadOf(i)}}
      BY <1>1, ClassIs
    <2>2. Files(Class(filelist[i].name)) =
            {filelist[j].inode : j \in {l \in 1..n : HeadOf(l) = HeadOf(i)}}
      BY <1>2, <2>1 DEF Files
    <2>3. ASSUME NEW j \in 1..n, HeadOf(j) = HeadOf(i)
          PROVE  filelist[j].inode \in {filelist[m].inode : m \in Firsts(HeadOf(i))}
      <3>1. PICK m \in 1..n : filelist[m].inode = filelist[j].inode /\ ~filelist[m].lnk
        BY <1>4
      <3>2. HeadOf(m) = HeadOf(i)
        BY <1>5, <2>3, <3>1
      <3> QED
        BY <3>1, <3>2
    <2> QED
      BY <2>2, <2>3
  <1>9. ASSUME NEW i \in 1..n PROVE IsFiniteSet({filelist[m].inode : m \in Firsts(HeadOf(i))})
    <2>1. IsFiniteSet(Firsts(HeadOf(i)))
      <3>1. Firsts(HeadOf(i)) \in SUBSET (1..n) /\ IsFiniteSet(1..n)
        BY FS_Interval
      <3> QED
        BY <3>1, FS_Subset
    <2> DEFINE f == [m \in Firsts(HeadOf(i)) |-> filelist[m].inode]
               T == {filelist[m].inode : m \in Firsts(HeadOf(i))}
    <2>2. f \in Surjection(Firsts(HeadOf(i)), T)
      BY DEF Surjection
    <2> QED
      BY <2>1, <2>2, FS_Surjection
  <1>10. Groups = {GroupOf(HeadOf(i)) : i \in {j \in 1..n : Shown(j)}}
    BY <1>1, GroupsAre
  <1>11. ASSUME NEW i \in 1..n, Shown(i)
         PROVE  /\ Files(GroupOf(HeadOf(i))) = Files(Class(filelist[i].name))
                /\ Cardinality(Files(GroupOf(HeadOf(i)))) > 1
    <2>1. PICK h \in 1..n : h = HeadOf(i) /\ HeadOf(h) = h /\ ~filelist[h].dup /\ ~filelist[h].lnk
      BY <1>6
    <2>2. i \in Firsts(h) /\ h \in Firsts(h) /\ i # h
      BY <1>3, <1>11, <2>1
    <2>3. filelist[i].inode # filelist[h].inode
      BY <1>3, <1>4, <1>11, <2>1, <2>2
    <2>4. /\ IsFiniteSet(Files(GroupOf(h)))
          /\ Files(GroupOf(h)) = {filelist[m].inode : m \in Firsts(h)}
      BY <1>7, <1>9, <2>1
    <2>5. Cardinality(Files(GroupOf(h))) > 1
      BY <2>2, <2>3, <2>4, MoreThanOne
    <2> QED
      BY <1>7, <1>8, <2>1, <2>5
  <1>12. ASSUME NEW i \in 1..n, Cardinality(Files(Class(filelist[i].name))) > 1
         PROVE  \E m \in 1..n : Shown(m) /\ HeadOf(m) = HeadOf(i)
    <2> DEFINE T == {filelist[m].inode : m \in Firsts(HeadOf(i))}
    <2>1. IsFiniteSet(T) /\ Cardinality(T) > 1
      BY <1>8, <1>9, <1>12
    <2>2. \E x, y \in T : x # y
      BY <2>1, MoreThanOne
    <2>3. PICK k \in Firsts(HeadOf(i)), m \in Firsts(HeadOf(i)) : k # m
      BY <2>2
    <2>4. filelist[k].dup \/ filelist[m].dup
      BY <1>1, <2>3, HeadIs
    <2> QED
      BY <1>3, <2>3, <2>4
  <1>13. {Files(g) : g \in Groups} = {f \in {Files(Class(x)) : x \in Found} : Cardinality(f) > 1}
    <2>1. ASSUME NEW g \in Groups
          PROVE  Files(g) \in {Files(Class(x)) : x \in Found} /\ Cardinality(Files(g)) > 1
      <3>1. PICK i \in 1..n : Shown(i) /\ g = GroupOf(HeadOf(i))
        BY <1>10
      <3> QED
        BY <1>2, <1>11, <3>1
    <2>2. ASSUME NEW x \in Found, Cardinality(Files(Class(x))) > 1
          PROVE  Files(Class(x)) \in {Files(g) : g \in Groups}
      <3>1. PICK i \in 1..n : filelist[i].name = x
        BY <1>2
      <3>2. PICK m \in 1..n : Shown(m) /\ HeadOf(m) = HeadOf(i)
        BY <1>12, <2>2, <3>1
      <3>3. GroupOf(HeadOf(m)) \in Groups
        BY <1>10, <3>2
      <3>4. Files(GroupOf(HeadOf(m))) = Files(Class(x))
        BY <1>7, <1>8, <3>1, <3>2
      <3> QED
        BY <3>3, <3>4
    <2> QED
      BY <2>1, <2>2
  <1>14. ASSUME NEW g \in Groups PROVE Cardinality(g) = Cardinality(Files(g))
    <2>1. PICK i \in 1..n : g = GroupOf(HeadOf(i))
      BY <1>10
    <2> DEFINE F == Firsts(HeadOf(i))
               f == [x \in g |-> disk.inode[x]]
    <2>2. g = {filelist[m].name : m \in F} /\ Files(g) = {disk.inode[x] : x \in g}
      BY <1>7, <2>1 DEF Files
    <2>3. \A x, y \in g : disk.inode[x] = disk.inode[y] => x = y
      BY <1>2, <1>4, <2>2
    <2>4. f \in Bijection(g, Files(g))
      BY <2>2, <2>3 DEF Bijection, Injection, Surjection, IsInjective
    <2>5. IsFiniteSet(g)
      <3>1. g \in SUBSET Found /\ IsFiniteSet(Found)
        BY <1>2, <2>2, FoundAre DEF Scanned
      <3> QED
        BY <3>1, FS_Subset
    <2>6. ExistsBijection(g, Files(g))
      BY <2>4 DEF ExistsBijection
    <2> QED
      BY <2>5, <2>6, FS_Bijection
  <1> QED
    BY <1>13, <1>14

\* DuplicatesFound: the groups that scan3 prints (finddup.c:391-427) are the
\* sets of two and more names whose files have one content, without links one
\* name of each file, if comp1's differences do not go round in circles and no
\* file with a byte from 128 has a copy, which fullcmp would not find.  CRCs
\* that collide, moved entries and links that are not compared change nothing.
THEOREM DuplicatesAlwaysFound == Spec => []DuplicatesFound
  <1>1. ScanInvariant => DuplicatesFound
    <2> SUFFICES ASSUME ScanInvariant, pc = "done" PROVE DuplicatesFound
      BY DEF DuplicatesFound
    <2>1. Scanned /\ ScannedOut
      BY DEF Scanned, ScannedOut, ScanInvariant, LinksInvariant, FindDupInvariant, scan2
    <2> QED
      BY <2>1, WithLinks, WithoutLinks DEF DuplicatesFound
  <1>2. NoCircles /\ BytesCompare /\ Init => ScanInvariant
    BY FindDupInit DEF Init, ScanInvariant, LinksInvariant, scan2
  <1>3. ScanInvariant /\ [Next]_vars => ScanInvariant'
    BY ScanNext
  <1>4. ~(NoCircles /\ BytesCompare) => DuplicatesFound
    BY DEF DuplicatesFound
  <1>5. ~(NoCircles /\ BytesCompare) /\ [Next]_vars => ~(NoCircles /\ BytesCompare)'
    BY DiskIsRead, NoCirclesStays, BytesCompareStays
  <1> QED
    BY <1>1, <1>2, <1>3, <1>4, <1>5, PTL DEF Spec
===============================================================================
