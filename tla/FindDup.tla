-------------------------------- MODULE FindDup --------------------------------
(***************************************************************************)
(* The duplicate file finder of hw2 (finddup.c): the list of files, its    *)
(* two sorts, the CRC scan, the scan for links and for duplicates, and the *)
(* list it prints.                                                         *)
(***************************************************************************)
EXTENDS Integers, SequencesExt, FiniteSetsExt

CONSTANTS Listings,   \* files of names: for each name the inode number of its
                      \* file, 0 if there is no regular file of that name
          Contents,   \* what is in a file: sequences of bytes
          Crcs,       \* the values of rc_crc32 that occur
          IntMod,     \* 2^32: comp1 returns differences as an int
          Chunk       \* entries of the first vector: 50 in the code

ASSUME FindDupAssumption ==
    /\ Listings \subseteq Seq(Nat) /\ Crcs \subseteq Nat
    /\ Contents \subseteq Seq(0..255)
    /\ IntMod \in Nat /\ IntMod > 0 /\ Chunk \in Nat

VARIABLES disk,       \* what the program finds: the inodes of the names, the
                      \* content of each inode, the CRC of a string, -l
          filelist,   \* the entries, in the order of the array
          pc,         \* the phase of finddup_main
          ix, ix2, lastix, lnkmatch,   \* locals of scan2
          out         \* the lines FILE and DUP: head and duplicate

vars == <<disk, filelist, pc, ix, ix2, lastix, lnkmatch, out>>
locals == <<ix, ix2, lastix, lnkmatch>>

Names == DOMAIN disk.inode
Inodes == (UNION {ToSet(l) : l \in Listings}) \ {0}

\* The orders of as many entries as there may be.
Orders == UNION {Injection(1..n, 1..n) : n \in UNION {0..Len(l) : l \in Listings}}
NFound == Len(filelist)

\* The part of a content in front of the first NUL, which is all strlen sees.
Text(c) == IF 0 \in ToSet(c) THEN SubSeq(c, 1, SelectInSeq(c, LAMBDA b : b = 0) - 1) ELSE c

ContentOf(name) == disk.content[disk.inode[name]]

\* A difference as the int that comp1 returns.
AsInt(d) == ((d + IntMod \div 2) % IntMod) - IntMod \div 2

\* comp1: by length, CRC and inode; the device is the same for all files.
Comp1(e, f) ==
    LET length == AsInt(e.length - f.length)
        crc == AsInt(e.crc - f.crc)
    IN  IF length # 0 THEN length ELSE IF crc # 0 THEN crc ELSE AsInt(e.inode - f.inode)

\* What qsort may make of a list: the orders with no neighbours that comp1
\* finds the wrong way round.  (That is all there is if differences overflow
\* and comp1 goes round in circles; else the list is sorted.)
Sorts(list) ==
    LET n == Len(list)
        upTo == {q \in (1..n) \X (1..n) : Comp1(list[q[1]], list[q[2]]) <= 0}
        sorted == {p \in Orders : /\ DOMAIN p = 1..n
                                  /\ \A i \in 1..(n - 1) : <<p[i], p[i + 1]>> \in upTo}
    IN  {[i \in 1..n |-> list[p[i]]] : p \in sorted}

\* fullcmp: a byte is compared as a signed char with an int, so that 255 is
\* taken for the end of the file and 128..254 never equal anything.
SameBytes(c, d) ==
    LET k == SelectInSeq([i \in DOMAIN c |-> c[i] >= 128 \/ c[i] # d[i]], LAMBDA x : x)
    IN  IF k = 0 THEN TRUE ELSE c[k] = 255

-------------------------------------------------------------------------------
Init ==
    /\ disk \in [inode : Listings, content : [Inodes -> Contents],
                 crc : [{Text(c) : c \in Contents} -> Crcs], links : BOOLEAN]
    /\ filelist = <<>> /\ pc = "build" /\ out = {}
    /\ ix = 0 /\ ix2 = 0 /\ lastix = 0 /\ lnkmatch = FALSE

Entry(name) == [name |-> name, length |-> Len(ContentOf(name)), crc |-> 0,
                inode |-> disk.inode[name], lnk |-> FALSE, dup |-> FALSE]

\* The build loop: names without a file and empty files are left out.  Any
\* order will do, as the list is sorted next.
Build ==
    /\ pc = "build" /\ pc' = "sort"
    /\ LET found == SetToSeq({n \in Names : disk.inode[n] # 0 /\ ContentOf(n) # <<>>})
       IN  filelist' = [i \in DOMAIN found |-> Entry(found[i])]
    /\ UNCHANGED <<disk, locals, out>>

Sort ==
    /\ \/ pc = "sort" /\ pc' = "scan1"
       \/ pc = "resort" /\ pc' = "links"
    /\ filelist' \in Sorts(filelist)
    /\ UNCHANGED <<disk, locals, out>>

\* scan1: entries with the length of a neighbour get a CRC, and then the list
\* is sorted again.
SameLength(i) == \E j \in {i - 1, i + 1} \cap DOMAIN filelist :
                   filelist[i].length = filelist[j].length

Scan1 ==
    /\ pc = "scan1"
    /\ pc' = IF \E i \in DOMAIN filelist : SameLength(i) THEN "resort" ELSE "links"
    /\ filelist' = [i \in DOMAIN filelist |->
                      IF SameLength(i)
                      THEN [filelist[i] EXCEPT !.crc =
                              disk.crc[Text(ContentOf(filelist[i].name))]]
                      ELSE filelist[i]]
    /\ UNCHANGED <<disk, locals, out>>

\* A file cannot be opened for its CRC.  With Chunk entries or more, scan1
\* also compares the last length with memory that was never written, and may
\* try to open a file by what it finds there.
Scan1Exit ==
    /\ pc = "scan1" /\ pc' = "exit"
    /\ NFound >= Chunk \/ \E i \in DOMAIN filelist : SameLength(i)
    /\ UNCHANGED <<disk, filelist, locals, out>>

\* Mutant: the first run of equal inodes is entered too late.
MarkLinksLate ==
    /\ pc = "links" /\ pc' = "head"
    /\ filelist' = [i \in DOMAIN filelist |->
                      IF i > 2 /\ filelist[i - 1].inode = filelist[i].inode
                      THEN [filelist[i] EXCEPT !.lnk = TRUE] ELSE filelist[i]]
    /\ lastix' = 1
    /\ UNCHANGED <<disk, ix, ix2, lnkmatch, out>>

\* The first loop of scan2: all but the first of a run of equal inodes are
\* links.
MarkLinks ==
    /\ pc = "links" /\ pc' = "head"
    /\ filelist' = [i \in DOMAIN filelist |->
                      IF i > 1 /\ filelist[i - 1].inode = filelist[i].inode
                      THEN [filelist[i] EXCEPT !.lnk = TRUE] ELSE filelist[i]]
    /\ lastix' = 1
    /\ UNCHANGED <<disk, ix, ix2, lnkmatch, out>>

\* Mutant: the scan goes on from the head itself.
TakeHeadStuck ==
    /\ pc = "head"
    /\ IF lastix <= NFound
       THEN /\ pc' = "compare"
            /\ ix' = lastix /\ ix2' = lastix + 1 /\ UNCHANGED lastix
            /\ lnkmatch' = TRUE
       ELSE pc' = "print" /\ UNCHANGED locals
    /\ UNCHANGED <<disk, filelist, out>>

\* The next entry to look for duplicates of, if there is one.
TakeHead ==
    /\ pc = "head"
    /\ IF lastix <= NFound
       THEN /\ pc' = "compare"
            /\ ix' = lastix /\ ix2' = lastix + 1 /\ lastix' = lastix + 1
            /\ lnkmatch' = TRUE
       ELSE pc' = "print" /\ UNCHANGED locals
    /\ UNCHANGED <<disk, filelist, out>>

Alike == /\ ix2 <= NFound
         /\ filelist[ix].length = filelist[ix2].length
         /\ filelist[ix].crc = filelist[ix2].crc

IsLink == filelist[ix2].lnk /\ lnkmatch

Same == IsLink \/ SameBytes(ContentOf(filelist[ix].name), ContentOf(filelist[ix2].name))

\* Mutant: the entries between are not shifted.
MovedOver(list, i, j) == [list EXCEPT ![j] = list[i]]

\* list with the entry at i moved forward to j, and those between shifted.
Moved(list, i, j) == InsertAt(RemoveAt(list, i), j, list[i])

Match ==
    /\ pc = "compare" /\ Alike /\ Same
    /\ filelist' = Moved([filelist EXCEPT ![ix2].dup = TRUE], ix2, lastix)
    /\ lastix' = IF lastix # ix2 THEN lastix + 1 ELSE lastix
    /\ lnkmatch' = TRUE /\ ix2' = ix2 + 1
    /\ UNCHANGED <<disk, pc, ix, out>>

\* Mutant: the links of a file that does not match are taken to match.
NoMatchKeepsLinks ==
    /\ pc = "compare" /\ Alike /\ ~Same
    /\ ix2' = ix2 + 1
    /\ UNCHANGED <<disk, filelist, pc, ix, lastix, lnkmatch, out>>

NoMatch ==
    /\ pc = "compare" /\ Alike /\ ~Same
    /\ lnkmatch' = FALSE /\ ix2' = ix2 + 1
    /\ UNCHANGED <<disk, filelist, pc, ix, lastix, out>>

EndOfRun ==
    /\ pc = "compare" /\ ~Alike /\ pc' = "head"
    /\ UNCHANGED <<disk, filelist, locals, out>>

\* A file cannot be opened for the comparison.
CompareExit ==
    /\ pc = "compare" /\ Alike /\ ~IsLink /\ pc' = "exit"
    /\ UNCHANGED <<disk, filelist, locals, out>>

\* scan3: every duplicate is printed under the last entry in front of it that
\* is none; without links, only if it is not a link.
HeadOf(i) == Max({j \in 1..i : ~filelist[j].dup})

Scan3 ==
    /\ pc = "print" /\ pc' = "done"
    /\ out' = {<<filelist[HeadOf(i)].name, filelist[i].name>> :
                 i \in {j \in DOMAIN filelist :
                         filelist[j].dup /\ (disk.links \/ ~filelist[j].lnk)}}
    /\ UNCHANGED <<disk, filelist, locals>>

Finished == pc \in {"done", "exit"} /\ UNCHANGED vars

Next == \/ Build \/ Sort \/ Scan1 \/ Scan1Exit \/ MarkLinks \/ TakeHead \/ Match \/ NoMatch
        \/ EndOfRun \/ CompareExit \/ Scan3 \/ Finished

\* One process that never waits.
Spec == Init /\ [][Next]_vars /\ WF_vars(Next)

-------------------------------------------------------------------------------
(***************************************************************************)
(* The disks on which comp1 and fullcmp do what they are there for.        *)
(***************************************************************************)
Found == {n \in Names : disk.inode[n] # 0 /\ ContentOf(n) # <<>>}

Below(x, y) == AsInt(x - y) < 0
NotAfter(x, y) == x = y \/ Below(x, y)

\* Numbers whose differences, taken for an int, do not go round in circles:
\* less than 2^31 apart, for one.
InOrder(S) ==
    \A x \in S : \A y \in S :
       /\ AsInt(x - y) = 0 => x = y
       /\ \A z \in S : Below(x, y) /\ Below(y, z) => Below(x, z)

CrcOf(name) == disk.crc[Text(ContentOf(name))]
SameLengthAs(name) == {x \in Found : Len(ContentOf(x)) = Len(ContentOf(name))}

\* comp1's differences (finddup.c:272-294) put the files found in an order.
NoCircles ==
    /\ InOrder({Len(ContentOf(x)) : x \in Found})
    /\ \A name \in Found : /\ InOrder({CrcOf(x) : x \in SameLengthAs(name)})
                           /\ InOrder({disk.inode[x] : x \in SameLengthAs(name)})

\* fullcmp (finddup.c:532-534) takes bytes from 128 for negative numbers, so
\* that it finds no copy of a file that has one, and 255 for the end.  It
\* finds every copy and nothing else if such files have none, and no 255 that
\* it would get to.
IsText(c) == \A b \in ToSet(c) : b < 128
ReadToEnd(c) == \A i \in 1..Len(c) : c[i] = 255 => \E j \in 1..(i - 1) : c[j] >= 128
BytesCompare ==
    \A n \in Found :
       /\ ReadToEnd(ContentOf(n))
       /\ IsText(ContentOf(n))
            \/ \A m \in Found : ContentOf(m) = ContentOf(n) => disk.inode[m] = disk.inode[n]

-------------------------------------------------------------------------------
(***************************************************************************)
(* Properties.                                                             *)
(***************************************************************************)
\* The list is the files found, once each and with their data, in whatever
\* order; scan2's indices stay in it.
TypeOK ==
    /\ pc \in {"build", "sort", "scan1", "resort", "links", "head", "compare", "print", "done", "exit"}
    /\ pc # "build" =>
         /\ {filelist[i].name : i \in DOMAIN filelist} = Found
         /\ NFound = Cardinality(Found)
         /\ \A i \in DOMAIN filelist : filelist[i].inode = disk.inode[filelist[i].name]
    /\ pc = "compare" => ix \in DOMAIN filelist /\ lastix \in (ix + 1)..ix2

\* Of the names of one file, scan2 (finddup.c:332-354) marks all but one as
\* links, and moving the entries about keeps that, on disks where comp1 puts
\* the files in an order.  Where its differences overflow (finddup.c:284) the
\* names of one file need not be neighbours when they are marked.
LinksMarked ==
    pc \in {"head", "compare", "print", "done"} /\ NoCircles =>
      \A inode \in {disk.inode[n] : n \in Found} :
        Cardinality({i \in DOMAIN filelist :
                       filelist[i].inode = inode /\ ~filelist[i].lnk}) = 1

\* What is printed: groups of a head and its duplicates.
Groups == {{h} \cup {p[2] : p \in {q \in out : q[1] = h}} : h \in {p[1] : p \in out}}

\* The names of files with the content of n, bit for bit.
Class(n) == {m \in Found : ContentOf(m) = ContentOf(n)}
Files(g) == {disk.inode[n] : n \in g}

\* With links, the groups printed are the sets of two and more names whose
\* files have one content (finddup.c:504); without, each group has one name of
\* every file.  Neither the order of the list, nor CRCs that collide, nor the
\* entries moved and links taken for granted in scan2 change that.  This is
\* said of disks where comp1 puts the files in an order and fullcmp can compare
\* them: copies of a file with a byte from 128 are not found (finddup.c:533).
DuplicatesFound ==
    pc = "done" /\ NoCircles /\ BytesCompare =>
      IF disk.links
      THEN Groups = {g \in {Class(n) : n \in Found} : Cardinality(g) > 1}
      ELSE /\ {Files(g) : g \in Groups} =
                {f \in {Files(Class(n)) : n \in Found} : Cardinality(f) > 1}
           /\ \A g \in Groups : Cardinality(g) = Cardinality(Files(g))

\* The scans end: scan2 starts over from lastix, which has to move on.
Ends == <>(pc \in {"done", "exit"})
===============================================================================
