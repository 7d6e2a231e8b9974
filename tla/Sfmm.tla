--------------------------------- MODULE Sfmm ---------------------------------
(***************************************************************************)
(* The memory allocator of hw3 (sfmm.c) under one client.                  *)
(*                                                                         *)
(* Addresses and sizes are counted in lines of 16 bytes from the start of  *)
(* the heap: the block at b has its payload at line b, its header in the   *)
(* 8 bytes before, and the word before the next header is its footer while *)
(* it is free and the end of its payload while a client has it.            *)
(***************************************************************************)
EXTENDS Integers, SequencesExt

CONSTANTS Page,       \* lines sf_mem_grow adds: 256 in the code
          MaxPages,   \* how often sf_mem_grow succeeds
          NQuick,     \* NUM_QUICK_LISTS: 10 in the code
          QuickMax,   \* QUICK_LIST_MAX: 5 in the code
          WordMod,    \* one past the largest size_t
          Requests,   \* the sizes a client asks for, in bytes
          MaxHeld     \* bound: the blocks a client has at a time

ASSUME SfmmAssumption ==
    /\ Page \in Nat /\ Page >= 3 /\ MaxPages \in Nat \ {0}
    /\ NQuick \in Nat /\ QuickMax \in Nat \ {0} /\ MaxHeld \in Nat
    /\ WordMod \in Nat /\ WordMod % 16 = 0 /\ WordMod > 0
    /\ Requests \subseteq 1..(WordMod - 1)

VARIABLES heap,   \* the blocks, the lists and last_bp
          own     \* what the client holds: block |-> bytes it asked for

vars == <<heap, own>>

NMain == 10         \* NUM_FREE_LISTS
MainLimits == <<2, 4, 8, 16, 32, 64, 128, 256, 512>>
MinLines == 2

(***************************************************************************)
(* Heaps are records.  blk has a size, the bits of the header, and whether *)
(* the last word is the block's footer (else it is whatever was there      *)
(* before, or the client's data).  After a fault the heap is left as it is. *)
(***************************************************************************)
Block(size, alloc, prv, foot) ==
    [size |-> size, alloc |-> alloc, prv |-> prv, foot |-> foot]

NoHeap ==
    [blk |-> [b \in {} |-> Block(0, FALSE, FALSE, FALSE)],
     main |-> [i \in 1..NMain |-> <<>>], quick |-> [i \in 1..NQuick |-> <<>>],
     last |-> 0, pages |-> 0, fault |-> "none"]

\* The function f with v at b.
Put(f, b, v) == [c \in DOMAIN f \cup {b} |-> IF c = b THEN v ELSE f[c]]

End(h) == Page * h.pages
Nxt(h, b) == b + h.blk[b].size
HasNext(h, b) == Nxt(h, b) < End(h)
Prev(h, b) == CHOOSE p \in DOMAIN h.blk : Nxt(h, p) = b
OnMain(h, b) == \E i \in 1..NMain : b \in ToSet(h.main[i])

\* A size or a link is read from a word that holds something else.
Wild(h) == [h EXCEPT !.fault = "wild"]

\* Mutant: the room for the header is forgotten.
BlockLinesNoHeader(n) == IF n <= 16 THEN MinLines ELSE (n + 15) \div 16

\* The size of a block with n bytes of payload, in size_t arithmetic.
BlockLines(n) ==
    LET size == (((n + 8 + 15) \div 16) * 16) % WordMod
    IN  IF size < 32 THEN MinLines ELSE size \div 16

\* find_main_class: class i takes the blocks of up to 2^i lines, and the
\* last one the rest.
MainClass(size) ==
    CHOOSE i \in 1..NMain : /\ i = NMain \/ size <= MainLimits[i]
                            /\ i > 1 => size > MainLimits[i - 1]

\* find_quick_class: list i is for blocks of i + 1 lines.
IsQuick(size) == size - 1 \in 1..NQuick
QuickClass(size) == size - 1

\* Behind a clear prv bit the word before b is read as a footer.
FooterThere(h, b) == h.blk[b].prv \/ h.blk[Prev(h, b)].foot

\* What prev_footer = GET(FTRP(PREV_BLKP(bp))) does: the footer before b is
\* copied onto itself, if it is one.
CopyFooter(h, b) == IF FooterThere(h, b) THEN h ELSE Wild(h)

\* remove_main_list: b is taken from the main list it is on.
Unlink(h, b) == [h EXCEPT !.main = [i \in 1..NMain |-> RemoveFirst(@[i], b)]]

AddMain(h, b) ==
    CopyFooter([h EXCEPT !.main[MainClass(h.blk[b].size)] = <<b>> \o @], b)

\* Mutant: last_bp stays where it is.
AtEndForgotten(h, b) == h

AtEnd(h, b) == IF HasNext(h, b) THEN h ELSE [h EXCEPT !.last = b]

\* coalesce: b is joined to the neighbours that its prv bit and the next
\* header's alloc bit call free.
JoinFrom(h, b) == IF h.blk[b].prv THEN b ELSE Prev(h, b)
JoinTo(h, b) == IF HasNext(h, b) /\ ~h.blk[Nxt(h, b)].alloc THEN Nxt(h, b) ELSE b

\* The blocks first, b and next as one, which begins at first.
Joined(h, first, b, next) ==
    LET whole == Block(Nxt(h, next) - first, FALSE, first = b \/ h.blk[first].prv, TRUE)
    IN  [Unlink(Unlink(h, first), next) EXCEPT
           !.blk = [c \in (DOMAIN @ \ {b, next}) \cup {first} |->
                      IF c = first THEN whole ELSE @[c]]]

Coalesce(h, b) ==
    LET first == JoinFrom(h, b)
        next == JoinTo(h, b)
    IN  IF first = b /\ next = b THEN [heap |-> h, at |-> b]
        ELSE IF \A c \in {first, next} \ {b} : OnMain(h, c)
             THEN [heap |-> AtEnd(Joined(h, first, b, next), first), at |-> first]
             ELSE [heap |-> Wild(h), at |-> b]

CoalesceAndAdd(h, b) == LET r == Coalesce(h, b) IN AddMain(r.heap, r.at)

\* allocate: the block b, which is on no list, is handed out, or shrunk, to
\* size lines; what is left over becomes a free block if it can be one.
Allocate(h, b, size) ==
    LET rest == h.blk[b].size - size
        whole == AtEnd([h EXCEPT !.blk[b].alloc = TRUE], b)
        front == [h.blk[b] EXCEPT !.size = size, !.alloc = TRUE, !.foot = FALSE]
        back == Block(rest, FALSE, TRUE, TRUE)
        cut == [h EXCEPT !.blk = Put(Put(@, b + size, back), b, front)]
        r == Coalesce(cut, b + size)
    IN  CopyFooter(IF rest < MinLines THEN whole ELSE AtEnd(AddMain(r.heap, r.at), r.at),
                   b)

\* The first page, as one free block behind an unused line.
FirstPage(h) ==
    AddMain([h EXCEPT !.pages = 1, !.last = 1,
                      !.blk = [b \in {1} |-> Block(Page - 1, FALSE, TRUE, TRUE)]], 1)

\* sf_mem_grow and the new page as a block, joined to a free last block.
Grow(h) ==
    LET new == Block(Page, FALSE, h.blk[h.last].alloc, TRUE)
        r == Coalesce([h EXCEPT !.pages = @ + 1, !.blk = Put(@, End(h), new)], End(h))
    IN  [AddMain(r.heap, r.at) EXCEPT !.last = r.at]

\* find_main_fit in the classes from size's on: the first block that is
\* large enough, 0 if there is none.
Fit(h, size) ==
    LET Fits(i) == {k \in DOMAIN h.main[i] : h.blk[h.main[i][k]].size >= size}
        classes == {i \in MainClass(size)..NMain : Fits(i) # {}}
        i == Min(classes)
    IN  IF classes = {} THEN 0 ELSE h.main[i][Min(Fits(i))]

\* h with as many new pages as it takes, or can have, to fit size lines.
Enlarged(h, size) ==
    LET after[k \in 0..MaxPages] ==
          IF k = 0 THEN h
          ELSE LET g == after[k - 1]
               IN  IF Fit(g, size) # 0 \/ g.pages = MaxPages THEN g ELSE Grow(g)
    IN  after[MaxPages]

(***************************************************************************)
(* The operations, each with the heap it leaves and what it returns: a     *)
(* block, or 0 for NULL.                                                   *)
(***************************************************************************)
FromQuick(h, size) ==
    LET q == QuickClass(size)
        k == SelectInSeq(h.quick[q], LAMBDA b : h.blk[b].size >= size)
    IN  [heap |-> Allocate([h EXCEPT !.quick[q] = SubSeq(@, k + 1, Len(@))],
                           h.quick[q][k], size),
         at |-> h.quick[q][k]]

\* Mutant: the block stays on its main list.
FromMainNoRemove(h, size) ==
    LET g == Enlarged(h, size)
        b == Fit(g, size)
    IN  [heap |-> IF b = 0 THEN g ELSE Allocate(g, b, size), at |-> b]

FromMain(h, size) ==
    LET g == Enlarged(h, size)
        b == Fit(g, size)
    IN  [heap |-> IF b = 0 THEN g ELSE Allocate(Unlink(g, b), b, size), at |-> b]

sf_malloc(h, n) ==
    LET g == IF h.pages = 0 THEN FirstPage(h) ELSE h
        size == BlockLines(n)
    IN  IF IsQuick(size) /\ g.quick[QuickClass(size)] # <<>>
        THEN FromQuick(g, size) ELSE FromMain(g, size)

\* flush_list: from the front on, each block of a quick list, which is empty
\* from then on, goes to the main lists.
flush_list(h, list) ==
    LET after[k \in 0..Len(list)] ==
          IF k = 0 THEN h ELSE CoalesceAndAdd(after[k - 1], list[k])
    IN  after[Len(list)]

\* Mutants: the list is flushed too late; the next block's prv bit is kept.
FreeQuickLate(h, b) ==
    LET q == QuickClass(h.blk[b].size)
        g == [CopyFooter(h, b) EXCEPT !.blk[b].alloc = TRUE, !.blk[b].foot = TRUE]
        k == IF HasNext(g, b)
             THEN [g EXCEPT !.blk[Nxt(g, b)].prv = TRUE, !.blk[Nxt(g, b)].foot = TRUE]
             ELSE g
    IN  IF Len(k.quick[q]) > QuickMax
        THEN [flush_list([k EXCEPT !.quick[q] = <<>>], k.quick[q])
                EXCEPT !.quick[q] = <<b>>]
        ELSE [k EXCEPT !.quick[q] = <<b>> \o @]

FreeQuickNoPrv(h, b) ==
    LET q == QuickClass(h.blk[b].size)
        g == [CopyFooter(h, b) EXCEPT !.blk[b].alloc = TRUE, !.blk[b].foot = TRUE]
        k == IF HasNext(g, b)
             THEN [g EXCEPT !.blk[Nxt(g, b)].foot = TRUE]
             ELSE g
    IN  IF Len(k.quick[q]) = QuickMax
        THEN [flush_list([k EXCEPT !.quick[q] = <<>>], k.quick[q])
                EXCEPT !.quick[q] = <<b>>]
        ELSE [k EXCEPT !.quick[q] = <<b>> \o @]

\* The block goes to the front of its quick list, still marked allocated;
\* so is, for the next block, whatever the next block is.
FreeQuick(h, b) ==
    LET q == QuickClass(h.blk[b].size)
        g == [CopyFooter(h, b) EXCEPT !.blk[b].alloc = TRUE, !.blk[b].foot = TRUE]
        k == IF HasNext(g, b)
             THEN [g EXCEPT !.blk[Nxt(g, b)].prv = TRUE, !.blk[Nxt(g, b)].foot = TRUE]
             ELSE g
    IN  IF Len(k.quick[q]) = QuickMax
        THEN [flush_list([k EXCEPT !.quick[q] = <<>>], k.quick[q])
                EXCEPT !.quick[q] = <<b>>]
        ELSE [k EXCEPT !.quick[q] = <<b>> \o @]

FreeMain(h, b) ==
    LET g == [h EXCEPT !.blk[b].alloc = FALSE, !.blk[b].foot = TRUE]
        k == IF HasNext(g, b)
             THEN [g EXCEPT !.blk[Nxt(g, b)].prv = FALSE, !.blk[Nxt(g, b)].foot = TRUE]
             ELSE g
        r == Coalesce(k, b)
    IN  AddMain(IF HasNext(r.heap, r.at)
                THEN [r.heap EXCEPT !.blk[Nxt(r.heap, r.at)].prv = FALSE] ELSE r.heap,
                r.at)

\* The tests of the pointer that a block of this heap could fail.
Valid(h, b) == h.blk[b].alloc /\ h.blk[b].size >= MinLines /\ Nxt(h, b) <= End(h)

sf_free(h, b) ==
    IF ~Valid(h, b) THEN [h EXCEPT !.fault = "abort"]
    ELSE IF IsQuick(h.blk[b].size) THEN FreeQuick(h, b) ELSE FreeMain(h, b)

\* A block that must grow moves; the bytes copied are left out.  The last test
\* of the pointer reads the size in front; the one of sf_free reads a word that
\* FreeQuick and FreeMain read again.
sf_realloc(h, b, n) ==
    LET size == BlockLines(n)
        r == sf_malloc(h, n)
    IN  IF ~Valid(h, b) THEN [heap |-> [h EXCEPT !.fault = "abort"], at |-> b]
        ELSE IF ~FooterThere(h, b) THEN [heap |-> Wild(h), at |-> 0]
        ELSE IF size = h.blk[b].size THEN [heap |-> h, at |-> b]
        ELSE IF size < h.blk[b].size THEN [heap |-> Allocate(h, b, size), at |-> b]
        ELSE IF r.at = 0 THEN r
        ELSE [heap |-> sf_free(r.heap, b), at |-> r.at]

(***************************************************************************)
(* The client: it passes only pointers it holds, and after a fault it asks *)
(* no more.                                                                *)
(***************************************************************************)
Held == DOMAIN own

\* The bytes that would lie in the footer are part of the payload.
UsesFooter(b, n) == n > 16 * heap.blk[b].size - 16

Init == heap = NoHeap /\ own = [b \in {} |-> 0]

Malloc ==
    /\ heap.fault = "none" /\ Cardinality(Held) < MaxHeld
    /\ \E n \in Requests :
         LET r == sf_malloc(heap, n)
         IN  /\ heap' = r.heap
             /\ own' = IF r.at = 0 THEN own ELSE Put(own, r.at, n)

Free ==
    /\ heap.fault = "none"
    /\ \E b \in Held : /\ heap' = sf_free(heap, b)
                       /\ own' = [c \in Held \ {b} |-> own[c]]

\* sf_realloc(b, 0) is sf_free(b).
Realloc ==
    /\ heap.fault = "none"
    /\ \E b \in Held, n \in Requests :
         LET r == sf_realloc(heap, b, n)
         IN  /\ heap' = r.heap
             /\ own' = IF r.at = 0 THEN own
                       ELSE Put([c \in Held \ {b} |-> own[c]], r.at, n)

\* The client fills a payload that reaches into the last word.
Write ==
    /\ heap.fault = "none"
    /\ \E b \in Held : /\ UsesFooter(b, own[b]) /\ heap.blk[b].foot
                       /\ heap' = [heap EXCEPT !.blk[b].foot = FALSE]
    /\ UNCHANGED own

Next == Malloc \/ Free \/ Realloc \/ Write

Spec == Init /\ [][Next]_vars

-------------------------------------------------------------------------------
(***************************************************************************)
(* Properties.                                                             *)
(***************************************************************************)
Lists == [i \in 1..(NMain + NQuick) |->
            IF i <= NMain THEN heap.main[i] ELSE heap.quick[i - NMain]]

\* The types of the heap's fields, and of the client's table.
TypeOK ==
    /\ DOMAIN heap.blk \subseteq 1..End(heap)
    /\ \A b \in DOMAIN heap.blk :
         heap.blk[b] \in [size : MinLines..End(heap), alloc : BOOLEAN,
                          prv : BOOLEAN, foot : BOOLEAN]
    /\ \A i \in 1..(NMain + NQuick) : ToSet(Lists[i]) \subseteq DOMAIN heap.blk
    /\ \A i \in 1..NQuick : Len(heap.quick[i]) <= QuickMax
    /\ heap.last \in DOMAIN heap.blk \cup {0} /\ heap.pages \in 0..MaxPages
    /\ heap.fault \in {"none", "wild", "abort"}
    /\ Held \subseteq DOMAIN heap.blk /\ \A b \in Held : own[b] \in Requests

\* Splitting, joining and growing (sfmm.c:50-119, 257-292, 356-365) leave no
\* gap and no overlap: from line 1 on each block ends where the next begins,
\* up to the end of the heap, and last_bp is the one that ends there, on
\* which the next page's prv bit and its joining depend.
Tiles ==
    heap.pages > 0 /\ heap.fault = "none" =>
      LET starts == DOMAIN heap.blk
          ends == {Nxt(heap, b) : b \in starts}
      IN  /\ ends \cup {1} = starts \cup {End(heap)}
          /\ Cardinality(ends) = Cardinality(starts)
          /\ \A b \in starts : Nxt(heap, b) = End(heap) => heap.last = b

\* The places in lists that b is in.
Places(b) == {s \in UNION {{i} \X DOMAIN Lists[i] : i \in DOMAIN Lists} :
                Lists[s[1]][s[2]] = b}

\* Whatever is freed, flushed, joined or split: a block is held by the
\* client or else on exactly one list, once, the list for its size, with a
\* footer, and a block on a quick list is marked allocated.
ListsHoldFree ==
    heap.fault = "none" =>
      /\ \A b \in DOMAIN heap.blk : Cardinality(Places(b)) = IF b \in Held THEN 0 ELSE 1
      /\ \A i \in 1..NMain : \A b \in ToSet(heap.main[i]) :
           MainClass(heap.blk[b].size) = i /\ heap.blk[b].foot
      /\ \A i \in 1..NQuick : \A b \in ToSet(heap.quick[i]) :
           QuickClass(heap.blk[b].size) = i /\ heap.blk[b].foot /\ heap.blk[b].alloc
      /\ \A b \in Held : heap.blk[b].alloc

\* A clear prv bit is wrong about a block the client holds at most: allocate
\* (sfmm.c:265-271) takes a whole free block without setting the bit behind it.
SomeStale == \E b \in DOMAIN heap.blk : ~heap.blk[b].prv /\ Prev(heap, b) \in Held

\* Only such a bit makes the allocator read a size or a link that is none: it
\* is there before the call, or is set by it and stays.  And the allocator
\* never refuses a pointer it handed out.
FaultsAreStale ==
    [][heap'.fault # "none" =>
         heap'.fault = "wild" /\ (SomeStale \/ SomeStale')]_vars

\* sfmm.h:35 has that an allocated block has no footer, the word being used
\* for payload: no call for another block changes it.
PayloadKept ==
    [][\A b \in Held : UsesFooter(b, own[b]) /\ ~heap.blk[b].foot /\ b \in Held'
                        => ~heap'.blk[b].foot]_vars

\* Up to a fault: payloads the client holds never overlap and have room for
\* the bytes asked for.
A == INSTANCE Allocator WITH Lines <- Page * MaxPages,
       held <- own
RefinesAllocator == A!Spec
===============================================================================
