------------------------------ MODULE JeuxProofs ------------------------------
(***************************************************************************)
(* Proofs about module Jeux.  Three inductive invariants, one on top of    *)
(* the other:                                                              *)
(*   - JeuxInvariant: the types, the lists of the clients, the references  *)
(*     of an invitation, and what each thread may rely on where it is;     *)
(*   - RatingOK: removing an invitation from its source's list succeeds    *)
(*     once, which is what keeps two threads from rating one game twice;   *)
(*   - AgreementOK: where the two parties' lists differ, a thread is still *)
(*     to make them agree.                                                 *)
(***************************************************************************)
EXTENDS Jeux, SequenceTheorems, TLAPS

Labels == {"idle", "create", "offer", "check", "do", "todo", "reply",
           "scan", "visit", "side", "pick", "search", "gone"}

Parties(v) == {inv[v].source, inv[v].target}

\* How many of the references of an invitation belong to lists.
InLists(v) == (IF Holds(inv[v].source, v) THEN 1 ELSE 0)
            + (IF Holds(inv[v].target, v) THEN 1 ELSE 0)

Nexts == Slots \cup {NSlots, NULL}

InvitationsOK ==
    \A v \in Invs :
        /\ inv[v] = NULL => games[v] = << >> /\ posted[v] = 0
        /\ inv[v] # NULL => /\ inv[v].source # inv[v].target
                            /\ inv[v].game = Len(games[v])
                            /\ inv[v].refs >= InLists(v)

\* What a list of calls looks like at any time: an id is read once it is
\* found, the end of a game is looked at and a result is posted last, and the two removals stand next
\* to each other until the first one is made.
PostCall == [call |-> "post", who |-> NULL]
CallsClients(q)  == \A k \in 1..Len(q) : q[k].call \notin {"over", "post"} => q[k].who \in Clients
ReadsFound(q)    == \A k \in 1..Len(q) : q[k].call = "find" => k < Len(q) /\ q[k + 1].call = "read"
PostsLast(q)     == \A k \in 1..Len(q) : q[k].call = "post" => k = Len(q) /\ q[k] = PostCall
OversLast(q)     == \A k \in 1..Len(q) : q[k].call = "over" => k = Len(q)
RemovesOnce(q)   == \A j, k \in 1..Len(q) : q[k].call = "remove" /\ q[j] = q[k] => j = k
RemovesFrom(q, parties) == \A k \in 1..Len(q) : q[k].call = "remove" => q[k].who \in parties
RemovesPaired(q) ==
    \A k \in 2..Len(q) : q[k].call = "remove" =>
        q[k - 1].call = "remove" \/ (k < Len(q) /\ q[k + 1].call = "remove")

ToDoOK(q, parties) ==
    /\ CallsClients(q) /\ ReadsFound(q) /\ PostsLast(q) /\ OversLast(q)
    /\ RemovesOnce(q) /\ RemovesFrom(q, parties) /\ RemovesPaired(q)

\* A call that is left.
In(q, call) == \E k \in 1..Len(q) : q[k] = call

\* What a thread may rely on where it is.
Closers == {"revoke", "decline", "resign"}
ThreadOK(c) ==
    LET v == InvOf(c) IN
    /\ v # NULL => inv[v] # NULL
    /\ pc[c] = "create" => Op(c) = "invite" /\ work[c].peer \in Clients \ {c}
    /\ pc[c] = "offer"  => /\ Op(c) = "invite" /\ v # NULL
                           /\ inv[v].source = c /\ inv[v].game = 0
                           /\ ~Holds(inv[v].target, v)
    /\ pc[c] = "check"  => Op(c) \in Requests /\ work[c].slot \in Slots
    /\ pc[c] = "check" /\ Op(c) = "accept" =>
          \A w \in Invs : Holds(c, w) /\ inv[w].target = c => inv[w].game < MaxGames
    /\ pc[c] = "do"     => Op(c) \in Requests /\ v # NULL /\ c \in Parties(v)
    /\ pc[c] = "do" /\ Op(c) = "accept" => inv[v].target = c /\ inv[v].game < MaxGames
    /\ pc[c] \in {"do", "todo"} /\ Op(c) = "move" => work[c].game \in 1..Len(games[v])
    /\ pc[c] = "todo"   => /\ Op(c) \in Requests \cup {"invite"} /\ v # NULL
                           /\ ToDoOK(work[c].todo, Parties(v))
                           /\ Op(c) \in Closers => inv[v].state = "closed"
    /\ pc[c] \in {"visit", "side", "pick"} => next[c] \in 1..NSlots
    /\ pc[c] = "pick"   => Op(c) \in Closers
    /\ pc[c] = "search" => Op(c) \in Closers /\ work[c].id \in Slots

\* An invitation its source has not offered yet is nobody else's business.
OffersApart == \A c, d \in Clients : pc[c] = "offer" /\ InvOf(c) = InvOf(d) => c = d

JeuxInvariant ==
    /\ TypeOK
    /\ ListsAreProper
    /\ InvitationsOK
    /\ OffersApart
    /\ \A c \in Clients : ThreadOK(c)

-------------------------------------------------------------------------------
Left(c, call) == In(work[c].todo, call)
SourceHolds(v) == Holds(inv[v].source, v)

\* A thread that is to post a result and has removed the invitation from its
\* source's list.
Rating(c) == /\ pc[c] = "todo"
             /\ Left(c, PostCall)
             /\ ~Left(c, Remove(inv[InvOf(c)].source))

RatingOK ==
    /\ \A c \in Clients : Rating(c) => posted[InvOf(c)] = 0 /\ ~SourceHolds(InvOf(c))
    /\ \A c, d \in Clients : Rating(c) /\ Rating(d) /\ InvOf(c) = InvOf(d) => c = d
    /\ \A v \in Invs : posted[v] # 0 => inv[v] # NULL /\ posted[v] = 1 /\ ~SourceHolds(v)

\* A thread that has taken the invitation from y and is still to take it from x.
HalfDone(c, x, y) == pc[c] = "todo" /\ Left(c, Remove(x)) /\ ~Left(c, Remove(y))

\* A thread that is still to give the invitation to y, or to take it from x.
Repairs(c, v, x, y) == InvOf(c) = v /\ (pc[c] = "offer" \/ HalfDone(c, x, y))

AgreementOK ==
    /\ \A c \in Clients : pc[c] = "todo" => \A x, y \in Parties(InvOf(c)) :
          HalfDone(c, x, y) => ~Holds(y, InvOf(c))
    /\ \A v \in Invs : inv[v] # NULL => \A x, y \in Parties(v) :
          Holds(x, v) /\ ~Holds(y, v) => \E c \in Clients : Repairs(c, v, x, y)
    /\ \A c \in Clients : pc[c] = "offer" => Holds(c, InvOf(c))

\* The steps that neither fill nor empty a slot, and post nothing.
KeepsParties  == \A u \in Invs : inv[u] # NULL =>
                    /\ inv'[u] # NULL
                    /\ inv'[u].source = inv[u].source /\ inv'[u].target = inv[u].target
OthersWait(c) == \A d \in Clients \ {c} : pc'[d] = pc[d] /\ work'[d] = work[d]
NeedsNone(c)  == pc[c] = "todo" => \A x, y \in Parties(InvOf(c)) :
                    HalfDone(c, x, y) => ~Holds(x, InvOf(c))
GoesOn(c) ==
    /\ pc[c] \in {"do", "todo"} /\ InvOf(c)' = InvOf(c) /\ Op(c)' = Op(c)
    /\ pc[c] = "do" /\ Op(c) \in Closers => inv[InvOf(c)].state # "closed"
    /\ \A x, y \in Parties(InvOf(c)) : HalfDone(c, x, y)' => HalfDone(c, x, y)
    /\ \A x \in Parties(InvOf(c)) :
          Left(c, PostCall)' /\ ~Left(c, Remove(x))' =>
              pc[c] = "todo" /\ Left(c, PostCall) /\ ~Left(c, Remove(x))
    /\ \A x \in Parties(InvOf(c)) :
          Op(c) \in Closers /\ ~Left(c, Remove(x))' => pc[c] = "todo" /\ ~Left(c, Remove(x))
Quiet(c) ==
    /\ UNCHANGED <<list, posted>> /\ KeepsParties /\ OthersWait(c)
    /\ pc[c] # "offer" /\ NeedsNone(c)
    /\ pc'[c] # "offer" /\ (pc'[c] = "todo" => GoesOn(c))

\* The steps that do.
Creates(c, v, i, k) ==
    /\ pc[c] = "create" /\ inv[v] = NULL /\ list[c][i] = NULL /\ k = work[c].peer
    /\ list' = [list EXCEPT ![c][i] = v] /\ posted' = posted
    /\ inv'[v] # NULL /\ inv'[v].source = c /\ inv'[v].target = k
    /\ \A u \in Invs \ {v} : inv'[u] = inv[u]
    /\ pc'[c] = "offer" /\ InvOf(c)' = v
Removes(c, x, v, i) ==
    /\ x = Who(c) /\ v = InvOf(c) /\ list[x][i] = v
    /\ list' = [list EXCEPT ![x][i] = NULL]
    /\ inv' = [inv EXCEPT ![v].refs = @ - 1]
    /\ Pop(c)
    /\ UNCHANGED <<open, player, games, posted>>
Posts(c, v) ==
    /\ At(c, "post") /\ v = InvOf(c)
    /\ posted' = [posted EXCEPT ![v] = @ + 1] /\ Pop(c)
    /\ UNCHANGED <<open, player, list, inv, games>>

\* Nothing that the proofs below speak of changes.
Still == UNCHANGED <<list, inv, posted, pc, work>>

-------------------------------------------------------------------------------
\* The calls that are left.

\* The id of a slot, a number of eight bits in the code, is not above the slot.
LEMMA IdIsSlot ==
    ASSUME NEW i \in Slots
    PROVE  IdOf(i) \in Slots
  <1>1. i \in Nat /\ IdMod \in Nat \ {0} /\ NSlots \in Nat
    BY SizesAssumption DEF Slots
  <1>2. i % IdMod \in 0..i
    BY <1>1
  <1> QED
    BY <1>1, <1>2 DEF IdOf, Slots

\* A list of calls loses its first call.
LEMMA TailIsOK ==
    ASSUME NEW q \in Seq(ToDo), q # << >>, NEW parties, ToDoOK(q, parties)
    PROVE  /\ Tail(q) \in Seq(ToDo)
           /\ ToDoOK(Tail(q), parties)
           /\ \A x : In(Tail(q), x) => In(q, x)
           /\ \A x : In(q, x) /\ x # Head(q) => In(Tail(q), x)
  <1>1. /\ Len(q) \in Nat \ {0} /\ Head(q) = q[1]
        /\ Tail(q) \in Seq(ToDo) /\ Len(Tail(q)) = Len(q) - 1
        /\ \A k \in 1..Len(Tail(q)) : Tail(q)[k] = q[k + 1]
    OBVIOUS
  <1>2. \A k \in 1..Len(Tail(q)) : k + 1 \in 1..Len(q)
    BY <1>1
  <1>5. CallsClients(Tail(q)) /\ RemovesFrom(Tail(q), parties)
    BY <1>1, <1>2 DEF ToDoOK, CallsClients, RemovesFrom
  <1>6. ReadsFound(Tail(q))
    <2> SUFFICES ASSUME NEW k \in 1..Len(Tail(q)), Tail(q)[k].call = "find"
                 PROVE  k < Len(Tail(q)) /\ Tail(q)[k + 1].call = "read"
      BY DEF ReadsFound
    <2>1. k + 1 < Len(q) /\ q[(k + 1) + 1].call = "read"
      BY <1>1, <1>2 DEF ToDoOK, ReadsFound
    <2> QED
      BY <1>1, <2>1
  <1>7. PostsLast(Tail(q))
    <2> SUFFICES ASSUME NEW k \in 1..Len(Tail(q)), Tail(q)[k].call = "post"
                 PROVE  k = Len(Tail(q)) /\ Tail(q)[k] = PostCall
      BY DEF PostsLast
    <2>1. k + 1 = Len(q) /\ Tail(q)[k] = PostCall
      BY <1>1, <1>2 DEF ToDoOK, PostsLast
    <2>2. k \in Int /\ Len(Tail(q)) = Len(q) - 1 /\ Len(q) \in Int
      BY <1>1
    <2> QED
      BY <2>1, <2>2
  <1>10. OversLast(Tail(q))
    <2> SUFFICES ASSUME NEW k \in 1..Len(Tail(q)), Tail(q)[k].call = "over"
                 PROVE  k = Len(Tail(q))
      BY DEF OversLast
    <2>1. k + 1 = Len(q)
      BY <1>1, <1>2 DEF ToDoOK, OversLast
    <2>2. k \in Int /\ Len(Tail(q)) = Len(q) - 1 /\ Len(q) \in Int
      BY <1>1
    <2> QED
      BY <2>1, <2>2
  <1>8. RemovesOnce(Tail(q))
    <2> SUFFICES ASSUME NEW j \in 1..Len(Tail(q)), NEW k \in 1..Len(Tail(q)),
                        Tail(q)[k].call = "remove", Tail(q)[j] = Tail(q)[k]
                 PROVE  j = k
      BY DEF RemovesOnce
    <2>1. j + 1 = k + 1
      BY <1>1, <1>2 DEF ToDoOK, RemovesOnce
    <2> QED
      BY <2>1
  <1>9. RemovesPaired(Tail(q))
    <2> SUFFICES ASSUME NEW k \in 2..Len(Tail(q)), Tail(q)[k].call = "remove"
                 PROVE  \/ Tail(q)[k - 1].call = "remove"
                        \/ k < Len(Tail(q)) /\ Tail(q)[k + 1].call = "remove"
      BY DEF RemovesPaired
    <2>1. k + 1 \in 2..Len(q) /\ q[k + 1].call = "remove"
      BY <1>1
    <2>2. \/ q[(k + 1) - 1].call = "remove"
          \/ k + 1 < Len(q) /\ q[(k + 1) + 1].call = "remove"
      BY <2>1 DEF ToDoOK, RemovesPaired
    <2>3. (k + 1) - 1 = k /\ k - 1 \in 1..Len(Tail(q)) /\ (k - 1) + 1 = k
      BY <1>1
    <2>4. Tail(q)[k - 1] = q[k]
      BY <1>1, <2>3
    <2>5. k + 1 < Len(q) => k < Len(Tail(q)) /\ Tail(q)[k + 1] = q[(k + 1) + 1]
      BY <1>1
    <2> QED
      BY <2>2, <2>3, <2>4, <2>5
  <1>3. ASSUME NEW x, In(Tail(q), x) PROVE In(q, x)
    BY <1>1, <1>3 DEF In
  <1>4. ASSUME NEW x, In(q, x), x # Head(q) PROVE In(Tail(q), x)
    <2>1. PICK k \in 1..Len(q) : q[k] = x
      BY <1>4 DEF In
    <2>2. k - 1 \in 1..Len(Tail(q)) /\ Tail(q)[k - 1] = x
      BY <1>1, <1>4, <2>1
    <2> QED
      BY <2>2 DEF In
  <1> QED
    BY <1>1, <1>3, <1>4, <1>5, <1>6, <1>7, <1>8, <1>9, <1>10 DEF ToDoOK

\* The head of a list of calls.
LEMMA HeadIs ==
    ASSUME NEW q \in Seq(ToDo), q # << >>, NEW parties, ToDoOK(q, parties)
    PROVE  /\ Head(q) \in ToDo /\ In(q, Head(q))
           /\ Head(q).call \notin {"over", "post"} => Head(q).who \in Clients
           /\ Head(q).call = "find" => Tail(q) # << >> /\ Head(Tail(q)).call = "read"
           /\ Head(q).call = "post" => Tail(q) = << >> /\ Head(q) = PostCall
           /\ Head(q).call = "over" => \A x : In(q, x) => x = Head(q)
           /\ Head(q).call = "remove" =>
                 Head(q).who \in parties /\ ~In(Tail(q), Head(q))
  <1>1. /\ Len(q) \in Nat \ {0} /\ Head(q) = q[1] /\ 1 \in 1..Len(q)
        /\ Tail(q) \in Seq(ToDo) /\ Len(Tail(q)) = Len(q) - 1
        /\ \A k \in 1..Len(Tail(q)) : Tail(q)[k] = q[k + 1]
    OBVIOUS
  <1>2. Head(q) \in ToDo /\ In(q, Head(q))
    BY <1>1 DEF In
  <1>3. ASSUME Head(q).call = "find" PROVE Tail(q) # << >> /\ Head(Tail(q)).call = "read"
    <2>1. 1 < Len(q) /\ q[1 + 1].call = "read" /\ 1 + 1 = 2
      BY <1>1, <1>3 DEF ToDoOK, ReadsFound
    <2>2. Tail(q) # << >> /\ Head(Tail(q)) = q[2]
      BY <1>1, <2>1
    <2> QED
      BY <2>1, <2>2
  <1>4. ASSUME Head(q).call = "post" PROVE Tail(q) = << >> /\ Head(q) = PostCall
    <2>1. Len(q) = 1 /\ Head(q) = PostCall
      BY <1>1, <1>4 DEF ToDoOK, PostsLast
    <2>2. Len(Tail(q)) = 0
      BY <1>1, <2>1
    <2>3. Tail(q) # << >> => Len(Tail(q)) \in Nat \ {0}
      BY <1>1, EmptySeq
    <2> QED
      BY <2>1, <2>2, <2>3
  <1>5. ASSUME Head(q).call = "remove"
        PROVE  Head(q).who \in parties /\ ~In(Tail(q), Head(q))
    <2>1. q[1].who \in parties /\ \A j \in 1..Len(q) : q[j] = q[1] => j = 1
      BY <1>1, <1>5 DEF ToDoOK, RemovesOnce, RemovesFrom
    <2> QED
      BY <1>1, <2>1 DEF In
  <1>6. Head(q).call \notin {"over", "post"} => Head(q).who \in Clients
    BY <1>1 DEF ToDoOK, CallsClients
  <1>7. ASSUME Head(q).call = "over", NEW x, In(q, x) PROVE x = Head(q)
    <2>1. Len(q) = 1
      BY <1>1, <1>7 DEF ToDoOK, OversLast
    <2> QED
      BY <1>1, <1>7, <2>1 DEF In
  <1> QED
    BY <1>2, <1>3, <1>4, <1>5, <1>6, <1>7

\* Where one removal is left of two, it is the next call.
LEMMA LastRemovalIsNext ==
    ASSUME NEW q \in Seq(ToDo), NEW x, NEW y, ToDoOK(q, {x, y}),
           In(q, Remove(x)), ~In(q, Remove(y))
    PROVE  q # << >> /\ Head(q) = Remove(x)
  <1>1. PICK k \in 1..Len(q) : q[k] = Remove(x)
    BY DEF In
  <1>2. Len(q) \in Nat /\ k \in Nat /\ k >= 1 /\ k <= Len(q)
    OBVIOUS
  <1>3. ASSUME NEW j \in 1..Len(q), j # k PROVE q[j].call # "remove"
    <2>1. SUFFICES ASSUME q[j].call = "remove" PROVE FALSE
      OBVIOUS
    <2>2. q[j] \in ToDo
      BY ElementOfSeq
    <2>3. q[j].who \in {x, y}
      BY <2>1 DEF ToDoOK, RemovesFrom
    <2>4. q[j] = Remove(x) \/ q[j] = Remove(y)
      BY <2>1, <2>2, <2>3 DEF ToDo, Remove
    <2>5. q[j] = q[k]
      BY <1>1, <2>4 DEF In
    <2> QED
      BY <1>3, <2>1, <2>5 DEF ToDoOK, RemovesOnce
  <1>4. k = 1
    <2>1. SUFFICES ASSUME k > 1 PROVE FALSE
      BY <1>2
    <2>2. q[k].call = "remove"
      BY <1>1 DEF Remove
    <2>3. \/ q[k - 1].call = "remove"
          \/ k < Len(q) /\ q[k + 1].call = "remove"
      BY <2>1, <2>2 DEF ToDoOK, RemovesPaired
    <2>4. k - 1 \in 1..Len(q) /\ k - 1 # k
      BY <1>2, <2>1
    <2>5. k < Len(q) => k + 1 \in 1..Len(q) /\ k + 1 # k
      BY <1>2
    <2> QED
      BY <1>3, <2>3, <2>4, <2>5
  <1> QED
    BY <1>1, <1>2, <1>4

\* The id of the invitation on the other side is looked up first.
LEMMA FindThen ==
    ASSUME NEW q \in Seq(ToDo), NEW parties, NEW p \in Clients, ToDoOK(q, parties),
           q # << >> => Head(q).call # "remove"
    PROVE  /\ Find(p) \o q \in Seq(ToDo)
           /\ ToDoOK(Find(p) \o q, parties)
           /\ Find(p) \o q # << >> /\ Head(Find(p) \o q).call # "remove"
           /\ \A x : x.call \notin {"find", "read"} => (In(Find(p) \o q, x) <=> In(q, x))
  <1> DEFINE r == Find(p) \o q
  <1>1. /\ Find(p) \in Seq(ToDo) /\ Len(Find(p)) = 2
        /\ Find(p)[1] = [call |-> "find", who |-> p]
        /\ Find(p)[2] = [call |-> "read", who |-> p]
    BY DEF Find, ToDo, Calls
  <1>2. /\ r \in Seq(ToDo) /\ Len(r) = Len(q) + 2 /\ Len(q) \in Nat
        /\ \A k \in 1..Len(r) : r[k] = IF k <= 2 THEN Find(p)[k] ELSE q[k - 2]
    <2>1. q \in Seq(ToDo) /\ Len(q) \in Nat
      OBVIOUS
    <2>2. /\ r \in Seq(ToDo) /\ Len(r) = Len(Find(p)) + Len(q)
          /\ \A k \in 1..(Len(Find(p)) + Len(q)) :
                r[k] = IF k <= Len(Find(p)) THEN Find(p)[k] ELSE q[k - Len(Find(p))]
      BY <1>1, <2>1, ConcatProperties
    <2> QED
      BY <1>1, <2>1, <2>2
  <1> HIDE DEF r
  <1>3. r[1] = [call |-> "find", who |-> p] /\ r[2] = [call |-> "read", who |-> p]
    BY <1>1, <1>2
  <1>4. \A k \in 1..Len(q) : k + 2 \in 1..Len(r) /\ r[k + 2] = q[k]
    BY <1>2
  <1>5. ASSUME NEW k \in 1..Len(r)
        PROVE  \/ k = 1 \/ k = 2
               \/ \E i \in 1..Len(q) : k = i + 2 /\ r[k] = q[i]
    <2>1. CASE k > 2
      <3>1. k - 2 \in 1..Len(q) /\ k = (k - 2) + 2
        BY <1>2, <2>1
      <3> QED
        BY <1>4, <3>1
    <2> QED
      BY <2>1
  <1>6. /\ r[1].call = "find" /\ r[1].who \in Clients
        /\ r[2].call = "read" /\ r[2].who \in Clients
    BY <1>3
  <1>7. ToDoOK(r, parties)
    <2>1. CallsClients(r) /\ RemovesFrom(r, parties)
      BY <1>5, <1>6 DEF ToDoOK, CallsClients, RemovesFrom
    <2>2. ReadsFound(r)
      <3> SUFFICES ASSUME NEW k \in 1..Len(r), r[k].call = "find"
                   PROVE  k < Len(r) /\ r[k + 1].call = "read"
        BY DEF ReadsFound
      <3>1. CASE k = 1
        BY <1>2, <1>6, <3>1
      <3>2. ASSUME NEW i \in 1..Len(q), k = i + 2, r[k] = q[i]
            PROVE  k < Len(r) /\ r[k + 1].call = "read"
        <4>1. i < Len(q) /\ q[i + 1].call = "read"
          BY <3>2 DEF ToDoOK, ReadsFound
        <4>2. i + 1 \in 1..Len(q) /\ (i + 1) + 2 = k + 1
          BY <3>2, <4>1
        <4>3. r[k + 1] = q[i + 1]
          BY <1>4, <4>2
        <4> QED
          BY <1>2, <3>2, <4>1, <4>3
      <3> QED
        BY <1>5, <1>6, <3>1, <3>2
    <2>3. PostsLast(r)
      <3> SUFFICES ASSUME NEW k \in 1..Len(r), r[k].call = "post"
                   PROVE  k = Len(r) /\ r[k] = PostCall
        BY DEF PostsLast
      <3>1. PICK i \in 1..Len(q) : k = i + 2 /\ r[k] = q[i]
        BY <1>5, <1>6
      <3>2. i = Len(q) /\ q[i] = PostCall
        BY <3>1 DEF ToDoOK, PostsLast
      <3> QED
        BY <1>2, <3>1, <3>2
    <2>6. OversLast(r)
      <3> SUFFICES ASSUME NEW k \in 1..Len(r), r[k].call = "over"
                   PROVE  k = Len(r)
        BY DEF OversLast
      <3>1. PICK i \in 1..Len(q) : k = i + 2 /\ r[k] = q[i]
        BY <1>5, <1>6
      <3>2. i = Len(q)
        BY <3>1 DEF ToDoOK, OversLast
      <3> QED
        BY <1>2, <3>1, <3>2
    <2>4. RemovesOnce(r)
      <3> SUFFICES ASSUME NEW j \in 1..Len(r), NEW k \in 1..Len(r),
                          r[k].call = "remove", r[j] = r[k]
                   PROVE  j = k
        BY DEF RemovesOnce
      <3>1. PICK i \in 1..Len(q) : k = i + 2 /\ r[k] = q[i]
        BY <1>5, <1>6
      <3>2. PICK h \in 1..Len(q) : j = h + 2 /\ r[j] = q[h]
        BY <1>5, <1>6
      <3>3. h = i
        BY <3>1, <3>2 DEF ToDoOK, RemovesOnce
      <3> QED
        BY <3>1, <3>2, <3>3
    <2>5. RemovesPaired(r)
      <3> SUFFICES ASSUME NEW k \in 2..Len(r), r[k].call = "remove"
                   PROVE  r[k - 1].call = "remove" \/ (k < Len(r) /\ r[k + 1].call = "remove")
        BY DEF RemovesPaired
      <3>1. PICK i \in 1..Len(q) : k = i + 2 /\ r[k] = q[i]
        BY <1>5, <1>6
      <3>2. i # 1
        BY <1>2, <3>1
      <3>3. i \in 2..Len(q) /\ i - 1 \in 1..Len(q) /\ (i - 1) + 2 = k - 1
        BY <1>2, <3>1, <3>2
      <3>4. q[i - 1].call = "remove" \/ (i < Len(q) /\ q[i + 1].call = "remove")
        BY <3>1, <3>3 DEF ToDoOK, RemovesPaired
      <3>5. r[k - 1] = q[i - 1]
        BY <1>4, <3>3
      <3>6. ASSUME i < Len(q) PROVE k < Len(r) /\ r[k + 1] = q[i + 1]
        <4>1. i + 1 \in 1..Len(q) /\ (i + 1) + 2 = k + 1
          BY <1>2, <3>1, <3>6
        <4> QED
          BY <1>2, <1>4, <3>1, <3>6, <4>1
      <3> QED
        BY <3>4, <3>5, <3>6
    <2> QED
      BY <2>1, <2>2, <2>3, <2>4, <2>5, <2>6 DEF ToDoOK
  <1>8. r # << >> /\ Head(r).call # "remove"
    BY <1>2, <1>3
  <1>9. ASSUME NEW x, x.call \notin {"find", "read"} PROVE In(r, x) <=> In(q, x)
    <2>1. ASSUME NEW k \in 1..Len(r), r[k] = x PROVE In(q, x)
      BY <1>5, <1>6, <1>9, <2>1 DEF In
    <2>2. ASSUME NEW i \in 1..Len(q), q[i] = x PROVE In(r, x)
      BY <1>4, <2>2 DEF In
    <2> QED
      BY <2>1, <2>2 DEF In
  <1> QED
    BY <1>2, <1>7, <1>8, <1>9 DEF r

\* The two parties of an invitation, seen from one of them.
LEMMA PartiesAre ==
    ASSUME TypeOK, NEW v \in Invs, inv[v] # NULL, inv[v].source # inv[v].target
    PROVE  /\ inv[v] \in Invitation /\ Parties(v) \subseteq Clients
           /\ inv[v].source \in Clients /\ inv[v].target \in Clients
           /\ \A c \in Parties(v) : Peer(c, v) \in Clients /\ Parties(v) = {c, Peer(c, v)}
                                    /\ Peer(c, v) # c
  <1>1. inv[v] \in Invitation
    BY DEF TypeOK
  <1> QED
    BY <1>1 DEF Invitation, Parties, Peer

\* Nothing is left.
LEMMA EmptyIsOK ==
    ASSUME NEW parties
    PROVE  << >> \in Seq(ToDo) /\ ToDoOK(<< >>, parties)
  <1>1. << >> \in Seq(ToDo) /\ Len(<< >>) = 0
    BY EmptySeq
  <1> QED
    BY <1>1 DEF ToDoOK, CallsClients, ReadsFound, PostsLast, OversLast, RemovesOnce, RemovesFrom,
                RemovesPaired

\* The calls that are left when an invitation is revoked or declined ...
LEMMA RefusalIsOK ==
    ASSUME NEW x \in Clients, NEW y \in Clients, x # y
    PROVE  LET q == <<Remove(x), Remove(y), Send(y)>> IN
           /\ q \in Seq(ToDo) /\ ToDoOK(q, {x, y}) /\ q # << >>
           /\ In(q, Remove(x)) /\ In(q, Remove(y))
           /\ \A e : In(q, e) => e.call # "post"
  <1> DEFINE q == <<Remove(x), Remove(y), Send(y)>>
  <1>1. /\ q \in Seq(ToDo) /\ Len(q) = 3
        /\ q[1] = Remove(x) /\ q[2] = Remove(y) /\ q[3] = Send(y)
    BY DEF Remove, Send, ToDo, Calls
  <1> HIDE DEF q
  <1>2. \A k \in 1..Len(q) : k = 1 \/ k = 2 \/ k = 3
    BY <1>1
  <1>3. /\ q[1].call = "remove" /\ q[1].who = x /\ q[2].call = "remove" /\ q[2].who = y
        /\ q[3].call = "send" /\ q[3].who = y
    BY <1>1 DEF Remove, Send
  <1>4. CallsClients(q) /\ ReadsFound(q) /\ PostsLast(q) /\ OversLast(q)
    BY <1>1, <1>2, <1>3 DEF CallsClients, ReadsFound, PostsLast, OversLast
  <1>5. RemovesOnce(q) /\ RemovesFrom(q, {x, y})
    BY <1>1, <1>2, <1>3 DEF RemovesOnce, RemovesFrom
  <1>6. RemovesPaired(q)
    BY <1>1, <1>2, <1>3 DEF RemovesPaired
  <1>7. In(q, Remove(x)) /\ In(q, Remove(y)) /\ \A e : In(q, e) => e.call # "post"
    BY <1>1, <1>2, <1>3 DEF In
  <1> QED
    BY <1>1, <1>4, <1>5, <1>6, <1>7, EmptySeq DEF ToDoOK, q

\* ... when it is resigned, after the look-up of its id ...
LEMMA ResignationIsOK ==
    ASSUME NEW x \in Clients, NEW y \in Clients, x # y, NEW p \in Clients
    PROVE  LET q == <<Send(p), Remove(y), Remove(x)>> IN
           /\ q \in Seq(ToDo) /\ ToDoOK(q, {x, y}) /\ Head(q).call # "remove"
           /\ In(q, Remove(x)) /\ In(q, Remove(y))
           /\ \A e : In(q, e) => e.call # "post"
  <1> DEFINE q == <<Send(p), Remove(y), Remove(x)>>
  <1>1. /\ q \in Seq(ToDo) /\ Len(q) = 3 /\ Head(q) = q[1]
        /\ q[1] = Send(p) /\ q[2] = Remove(y) /\ q[3] = Remove(x)
    BY DEF Remove, Send, ToDo, Calls
  <1> HIDE DEF q
  <1>2. \A k \in 1..Len(q) : k = 1 \/ k = 2 \/ k = 3
    BY <1>1
  <1>3. /\ q[1].call = "send" /\ q[1].who = p /\ q[2].call = "remove" /\ q[2].who = y
        /\ q[3].call = "remove" /\ q[3].who = x
    BY <1>1 DEF Remove, Send
  <1>4. CallsClients(q) /\ ReadsFound(q) /\ PostsLast(q) /\ OversLast(q)
    BY <1>1, <1>2, <1>3 DEF CallsClients, ReadsFound, PostsLast, OversLast
  <1>5. RemovesOnce(q) /\ RemovesFrom(q, {x, y})
    BY <1>1, <1>2, <1>3 DEF RemovesOnce, RemovesFrom
  <1>6. RemovesPaired(q)
    BY <1>1, <1>2, <1>3 DEF RemovesPaired
  <1>7. In(q, Remove(x)) /\ In(q, Remove(y)) /\ \A e : In(q, e) => e.call # "post"
    BY <1>1, <1>2, <1>3 DEF In
  <1> QED
    BY <1>1, <1>3, <1>4, <1>5, <1>6, <1>7 DEF ToDoOK, q

\* ... when it is accepted, or a move was made ...
LEMMA NoticeIsOK ==
    ASSUME NEW p \in Clients, NEW parties, NEW over \in BOOLEAN
    PROVE  LET q == IF over THEN <<Send(p), [call |-> "over", who |-> NULL]>> ELSE <<Send(p)>> IN
           /\ q \in Seq(ToDo) /\ ToDoOK(q, parties) /\ Head(q).call # "remove"
           /\ \A e : In(q, e) => e.call \notin {"post", "remove"}
  <1> DEFINE q == IF over THEN <<Send(p), [call |-> "over", who |-> NULL]>> ELSE <<Send(p)>>
  <1>1. /\ q \in Seq(ToDo) /\ Len(q) \in {1, 2} /\ Head(q) = q[1] /\ q[1] = Send(p)
        /\ Len(q) = 2 => q[2] = [call |-> "over", who |-> NULL]
    <2>1. CASE over
      BY <2>1 DEF Send, ToDo, Calls
    <2>2. CASE ~over
      BY <2>2 DEF Send, ToDo, Calls
    <2> QED
      BY <2>1, <2>2
  <1> HIDE DEF q
  <1>2. \A k \in 1..Len(q) : q[k].call \in {"send", "over"} /\ (q[k].call # "over" => q[k].who \in Clients)
    <2>1. \A k \in 1..Len(q) : k = 1 \/ (k = 2 /\ Len(q) = 2)
      <3>1. CASE Len(q) = 1
        BY <3>1
      <3>2. CASE Len(q) = 2
        BY <3>2
      <3> QED
        BY <1>1, <3>1, <3>2
    <2> QED
      BY <1>1, <2>1 DEF Send
  <1>3. CallsClients(q) /\ ReadsFound(q) /\ PostsLast(q)
    BY <1>2 DEF CallsClients, ReadsFound, PostsLast
  <1>7. OversLast(q)
    <2>1. ASSUME NEW k \in 1..Len(q) PROVE k = 1 \/ k = Len(q)
      <3>1. CASE Len(q) = 1
        BY <3>1
      <3>2. CASE Len(q) = 2
        BY <3>2
      <3> QED
        BY <1>1, <3>1, <3>2
    <2>2. q[1].call # "over"
      BY <1>1 DEF Send
    <2> QED
      BY <2>1, <2>2 DEF OversLast
  <1>4. RemovesOnce(q) /\ RemovesFrom(q, parties)
    BY <1>2 DEF RemovesOnce, RemovesFrom
  <1>5. \A k \in 2..Len(q) : k \in 1..Len(q)
    BY <1>1
  <1>6. RemovesPaired(q)
    BY <1>2, <1>5 DEF RemovesPaired
  <1> QED
    BY <1>1, <1>2, <1>3, <1>4, <1>6, <1>7 DEF ToDoOK, In, Send, q

\* ... and when a game has ended.
LEMMA RatedEndIsOK ==
    ASSUME NEW s \in Clients, NEW t \in Clients, s # t
    PROVE  LET q == <<Send(s), Send(t), Remove(s), Remove(t), [call |-> "post", who |-> NULL]>> IN
           /\ q \in Seq(ToDo) /\ ToDoOK(q, {s, t}) /\ Head(q).call # "remove"
           /\ In(q, Remove(s)) /\ In(q, Remove(t))
  <1> DEFINE q == <<Send(s), Send(t), Remove(s), Remove(t), [call |-> "post", who |-> NULL]>>
  <1>1. /\ q \in Seq(ToDo) /\ Len(q) = 5 /\ Head(q) = q[1]
        /\ q[1] = Send(s) /\ q[2] = Send(t) /\ q[3] = Remove(s) /\ q[4] = Remove(t)
        /\ q[5] = [call |-> "post", who |-> NULL]
    BY DEF Remove, Send, ToDo, Calls
  <1> HIDE DEF q
  <1>2. \A k \in 1..Len(q) : k = 1 \/ k = 2 \/ k = 3 \/ k = 4 \/ k = 5
    BY <1>1
  <1>3. /\ q[1].call = "send" /\ q[1].who = s /\ q[2].call = "send" /\ q[2].who = t
        /\ q[3].call = "remove" /\ q[3].who = s /\ q[4].call = "remove" /\ q[4].who = t
        /\ q[5].call = "post" /\ q[5] = PostCall
    BY <1>1 DEF Remove, Send, PostCall
  <1>4. CallsClients(q) /\ ReadsFound(q) /\ PostsLast(q) /\ OversLast(q)
    BY <1>1, <1>2, <1>3 DEF CallsClients, ReadsFound, PostsLast, OversLast
  <1>5. RemovesOnce(q) /\ RemovesFrom(q, {s, t})
    BY <1>1, <1>2, <1>3 DEF RemovesOnce, RemovesFrom
  <1>6. RemovesPaired(q)
    BY <1>1, <1>2, <1>3 DEF RemovesPaired
  <1>7. In(q, Remove(s)) /\ In(q, Remove(t))
    BY <1>1 DEF In
  <1> QED
    BY <1>1, <1>3, <1>4, <1>5, <1>6, <1>7 DEF ToDoOK, q

\* What Rest leaves to do: it removes the invitation from both lists or from
\* neither, and posts nothing.
LEMMA RestIsOK ==
    ASSUME TypeOK, NEW c \in Clients, NEW v \in Invs, inv[v] # NULL,
           inv[v].source # inv[v].target, c \in Parties(v), Op(c) \in Requests
    PROVE  /\ Rest(c, v) \in Seq(ToDo) /\ ToDoOK(Rest(c, v), Parties(v))
           /\ \A e : In(Rest(c, v), e) => e.call # "post"
           /\ \A x, y \in Parties(v) : In(Rest(c, v), Remove(x)) => In(Rest(c, v), Remove(y))
           /\ Op(c) \in Closers => \A x \in Parties(v) : In(Rest(c, v), Remove(x))
  <1> DEFINE p == Peer(c, v)  s == inv[v].source  t == inv[v].target
  <1>1. /\ p \in Clients /\ Parties(v) = {c, p} /\ p # c
        /\ Parties(v) = {s, t} /\ s \in Clients /\ t \in Clients /\ s # t
    BY PartiesAre DEF Parties
  <1>2. /\ \A x : Remove(x).call = "remove"
        /\ "remove" \notin {"find", "read"} /\ "post" \notin {"find", "read"}
    BY DEF Remove
  <1>3. CASE Op(c) \in {"revoke", "decline"}
    <2>1. Rest(c, v) = <<Remove(c), Remove(p), Send(p)>>
      BY <1>3 DEF Rest
    <2> QED
      BY <1>1, <1>3, <2>1, RefusalIsOK
  <1>4. CASE Op(c) = "resign"
    <2> DEFINE q == <<Send(p), Remove(t), Remove(s)>>
    <2>1. Rest(c, v) = Find(p) \o q
      BY <1>4 DEF Rest
    <2>2. /\ q \in Seq(ToDo) /\ ToDoOK(q, Parties(v)) /\ Head(q).call # "remove"
          /\ In(q, Remove(s)) /\ In(q, Remove(t)) /\ \A e : In(q, e) => e.call # "post"
      BY <1>1, ResignationIsOK
    <2> HIDE DEF q
    <2>3. /\ Find(p) \o q \in Seq(ToDo) /\ ToDoOK(Find(p) \o q, Parties(v))
          /\ \A x : x.call \notin {"find", "read"} => (In(Find(p) \o q, x) <=> In(q, x))
      BY <1>1, <2>2, FindThen
    <2>4. \A e : In(Find(p) \o q, e) => e.call # "post"
      BY <1>2, <2>2, <2>3
    <2> QED
      BY <1>1, <1>2, <2>1, <2>2, <2>3, <2>4
  <1>5. CASE Op(c) \in {"accept", "move"}
    <2> DEFINE over == Op(c) = "move"
               q == IF over THEN <<Send(p), [call |-> "over", who |-> NULL]>> ELSE <<Send(p)>>
    <2>1. Rest(c, v) = Find(p) \o q
      BY <1>5 DEF Rest
    <2>2. /\ q \in Seq(ToDo) /\ ToDoOK(q, Parties(v)) /\ Head(q).call # "remove"
          /\ \A e : In(q, e) => e.call \notin {"post", "remove"}
      BY <1>1, NoticeIsOK
    <2> HIDE DEF q
    <2>3. /\ Find(p) \o q \in Seq(ToDo) /\ ToDoOK(Find(p) \o q, Parties(v))
          /\ \A x : x.call \notin {"find", "read"} => (In(Find(p) \o q, x) <=> In(q, x))
      BY <1>1, <2>2, FindThen
    <2>4. \A e : In(Find(p) \o q, e) => e.call # "post"
      BY <1>2, <2>2, <2>3
    <2> QED
      BY <1>1, <1>2, <1>5, <2>1, <2>2, <2>3, <2>4 DEF Closers
  <1> QED
    BY <1>3, <1>4, <1>5 DEF Requests

\* What SeeOver leaves to do once a game is over.
LEMMA AfterGameIsOK ==
    ASSUME TypeOK, NEW v \in Invs, inv[v] # NULL, inv[v].source # inv[v].target
    PROVE  /\ AfterGame(v) \in Seq(ToDo) /\ ToDoOK(AfterGame(v), Parties(v))
           /\ \A x \in Parties(v) : In(AfterGame(v), Remove(x))
  <1> DEFINE s == inv[v].source  t == inv[v].target
             q == <<Send(s), Send(t), Remove(s), Remove(t), [call |-> "post", who |-> NULL]>>
  <1>1. s \in Clients /\ t \in Clients /\ Parties(v) = {s, t}
    BY PartiesAre DEF Parties
  <1>2. /\ q \in Seq(ToDo) /\ ToDoOK(q, Parties(v)) /\ Head(q).call # "remove"
        /\ In(q, Remove(s)) /\ In(q, Remove(t))
    BY <1>1, RatedEndIsOK
  <1>3. AfterGame(v) = Find(s) \o (Find(t) \o q)
    <2>1. Find(s) \in Seq(ToDo) /\ Find(t) \in Seq(ToDo)
      BY <1>1 DEF Find, ToDo, Calls
    <2>2. AfterGame(v) = (Find(s) \o Find(t)) \o q
      BY DEF AfterGame
    <2> HIDE DEF q
    <2> QED
      BY <1>2, <2>1, <2>2, ConcatAssociative
  <1> HIDE DEF q
  <1>4. /\ Find(t) \o q \in Seq(ToDo) /\ ToDoOK(Find(t) \o q, Parties(v))
        /\ Head(Find(t) \o q).call # "remove"
        /\ \A x : x.call \notin {"find", "read"} => (In(Find(t) \o q, x) <=> In(q, x))
    BY <1>1, <1>2, FindThen
  <1>5. /\ Find(s) \o (Find(t) \o q) \in Seq(ToDo)
        /\ ToDoOK(Find(s) \o (Find(t) \o q), Parties(v))
        /\ \A x : x.call \notin {"find", "read"} =>
              (In(Find(s) \o (Find(t) \o q), x) <=> In(Find(t) \o q, x))
    BY <1>1, <1>4, FindThen
  <1>6. \A x : Remove(x).call = "remove"
    BY DEF Remove
  <1> QED
    BY <1>1, <1>2, <1>3, <1>4, <1>5, <1>6

-------------------------------------------------------------------------------
\* The invariant: initial states and local steps.

\* All invitations start unallocated and all threads idle.
LEMMA InitInvariant == Init => JeuxInvariant
  <1> SUFFICES ASSUME Init PROVE JeuxInvariant
    OBVIOUS
  <1>1. NoWork \in Work
    <2>1. << >> \in Seq(ToDo)
      BY EmptySeq
    <2>2. 0 \in 0..MaxGames
      BY SizesAssumption
    <2> QED
      BY <2>1, <2>2 DEF NoWork, Work
  <1>2. TypeOK
    <2>1. \A v \in Invs : << >> \in Seq(Outcome)
      BY EmptySeq
    <2> QED
      BY <1>1, <2>1 DEF Init, TypeOK
  <1>3. ListsAreProper
    BY DEF Init, ListsAreProper
  <1>4. InvitationsOK
    BY DEF Init, InvitationsOK
  <1>5. OffersApart
    BY DEF Init, OffersApart
  <1>6. \A c \in Clients : ThreadOK(c)
    BY DEF Init, ThreadOK, InvOf, NoWork
  <1> QED
    BY <1>2, <1>3, <1>4, <1>5, <1>6 DEF JeuxInvariant

\* An invitation in a list is allocated, and the list is a party's.
LEMMA HeldIsAllocated ==
    ASSUME JeuxInvariant, NEW c \in Clients, NEW v \in Invs, Holds(c, v)
    PROVE  /\ inv[v] # NULL /\ c \in Parties(v)
           /\ \A i, j \in Slots : list[c][i] = v /\ list[c][j] = v => i = j
  BY ObjectsAssumption DEF JeuxInvariant, ListsAreProper, Holds, Parties

\* What a thread relies on survives the steps of the others, because only the
\* target accepts an invitation, and only its source offers it.
LEMMA OthersKeep ==
    ASSUME JeuxInvariant, NEW d \in Clients,
           pc'[d] = pc[d], work'[d] = work[d], next'[d] = next[d],
           \A v \in Invs : inv[v] # NULL =>
               /\ inv'[v] # NULL
               /\ inv'[v].source = inv[v].source /\ inv'[v].target = inv[v].target
               /\ inv[v].state = "closed" => inv'[v].state = "closed"
               /\ inv[v].target = d => inv'[v].game = inv[v].game
               /\ pc[d] = "offer" /\ v = InvOf(d) =>
                      inv'[v].game = inv[v].game /\ ~Holds(inv[v].target, v)',
           \A v \in Invs : Len(games[v]) \in Nat /\ Len(games'[v]) \in Nat
                           /\ Len(games[v]) <= Len(games'[v]),
           \A v \in Invs : Holds(d, v)' /\ ~Holds(d, v) /\ inv'[v].target = d =>
               inv'[v].game < MaxGames
    PROVE  ThreadOK(d)'
  <1>0. PICK v \in Invs \cup {NULL} : v = InvOf(d)
    BY DEF JeuxInvariant, TypeOK, Work, InvOf
  <1>1. InvOf(d) = v /\ InvOf(d)' = v /\ Op(d)' = Op(d)
    BY <1>0 DEF InvOf, Op
  <1>2. v # NULL => /\ v \in Invs /\ inv[v] # NULL
                    /\ inv'[v] # NULL /\ Parties(v)' = Parties(v)
    <2>1. ThreadOK(d)
      BY DEF JeuxInvariant
    <2>2. ASSUME v # NULL PROVE v \in Invs /\ inv[v] # NULL
      BY <1>1, <2>1, <2>2 DEF ThreadOK
    <2> QED
      BY <2>2 DEF Parties
  <1>3. ASSUME NEW w \in Invs, Holds(d, w)', inv'[w].target = d, pc[d] = "check", Op(d) = "accept"
        PROVE  inv'[w].game < MaxGames
    <2>1. CASE Holds(d, w)
      <3>1. inv[w] # NULL
        BY <2>1, HeldIsAllocated
      <3> QED
        BY <1>3, <2>1, <3>1 DEF JeuxInvariant, ThreadOK
    <2> QED
      BY <1>3, <2>1
  <1>4. ASSUME pc[d] \in {"do", "todo"}, Op(d) = "move"
        PROVE  work[d].game \in 1..Len(games'[v])
    <2>1. work[d].game \in 1..Len(games[v]) /\ v # NULL
      BY <1>1, <1>4 DEF JeuxInvariant, ThreadOK
    <2> QED
      BY <1>2, <2>1
  <1>5. ThreadOK(d)
    BY DEF JeuxInvariant
  <1> QED
    BY <1>1, <1>2, <1>3, <1>4, <1>5 DEF ThreadOK

\* A step that leaves the invitations and the lists alone has to restore only
\* what its own thread relies on.
LEMMA LocalStep ==
    ASSUME JeuxInvariant, NEW c \in Clients,
           UNCHANGED <<list, inv, games, posted>>,
           open' \subseteq Clients, player' \subseteq Clients,
           pc' \in [Clients -> Labels], work' \in [Clients -> Work],
           next' \in [Clients -> Nexts],
           \A d \in Clients \ {c} : pc'[d] = pc[d] /\ work'[d] = work[d] /\ next'[d] = next[d],
           pc'[c] = "offer" => pc[c] = "offer" /\ InvOf(c)' = InvOf(c),
           InvOf(c)' # NULL /\ InvOf(c)' # InvOf(c) => Holds(c, InvOf(c)'),
           ThreadOK(c)'
    PROVE  JeuxInvariant'
  <1>1. TypeOK'
    BY DEF JeuxInvariant, TypeOK, Labels, Nexts
  <1>2. ListsAreProper' /\ InvitationsOK'
    BY DEF JeuxInvariant, ListsAreProper, InvitationsOK, InLists, Holds
  <1>3. \A v \in Invs : Len(games[v]) \in Nat
    BY DEF JeuxInvariant, TypeOK
  <1>4. \A d \in Clients \ {c} : ThreadOK(d)'
    <2> SUFFICES ASSUME NEW d \in Clients \ {c} PROVE ThreadOK(d)'
      OBVIOUS
    <2>1. \A x \in Clients, v \in Invs : Holds(x, v)' = Holds(x, v)
      BY DEF Holds
    <2>2. pc[d] = "offer" => /\ InvOf(d) \in Invs /\ inv[InvOf(d)] # NULL
                             /\ inv[InvOf(d)].target \in Clients
                             /\ ~Holds(inv[InvOf(d)].target, InvOf(d))
      BY PartiesAre DEF JeuxInvariant, ThreadOK, TypeOK, Work, InvOf, Invitation
    <2> QED
      BY <1>3, <2>1, <2>2, OthersKeep
  <1>5. OffersApart'
    <2> SUFFICES ASSUME NEW a \in Clients, NEW b \in Clients,
                        pc'[a] = "offer", InvOf(a)' = InvOf(b)'
                 PROVE  a = b
      BY DEF OffersApart
    <2>1. pc[a] = "offer"
      BY DEF InvOf
    <2>2. /\ InvOf(a) \in Invs /\ inv[InvOf(a)] # NULL /\ inv[InvOf(a)].source = a
          /\ ~Holds(inv[InvOf(a)].target, InvOf(a))
      BY <2>1 DEF JeuxInvariant, ThreadOK, TypeOK, Work, InvOf
    <2>3. InvOf(a)' = InvOf(a)
      BY DEF InvOf
    <2>4. CASE InvOf(b)' = InvOf(b)
      BY <2>1, <2>3, <2>4 DEF JeuxInvariant, OffersApart
    <2>5. CASE InvOf(b)' # InvOf(b) 
      <3>1. b = c
        BY <2>5 DEF InvOf
      <3>2. Holds(b, InvOf(a))
        BY <2>2, <2>3, <2>5, <3>1, ObjectsAssumption
      <3>3. b \in {inv[InvOf(a)].source, inv[InvOf(a)].target}
        BY <2>2, <3>2, HeldIsAllocated DEF Parties
      <3> QED
        BY <2>2, <3>2, <3>3
    <2> QED
      BY <2>3, <2>4, <2>5
  <1> QED
    BY <1>1, <1>2, <1>4, <1>5 DEF JeuxInvariant

\* A fault ends the process and changes nothing else.
LEMMA FaultStep ==
    ASSUME JeuxInvariant, UNCHANGED <<shared, pc, work, next>>
    PROVE  JeuxInvariant'
  <1>1. TypeOK' /\ ListsAreProper' /\ InvitationsOK' /\ OffersApart'
    BY DEF shared, JeuxInvariant, TypeOK, ListsAreProper, InvitationsOK, InLists, Holds,
           OffersApart, InvOf
  <1>2. ASSUME NEW c \in Clients PROVE ThreadOK(c)'
    <2>1. /\ ThreadOK(c) /\ InvOf(c)' = InvOf(c) /\ Op(c)' = Op(c)
          /\ Parties(InvOf(c))' = Parties(InvOf(c))
          /\ \A d, v : Holds(d, v)' <=> Holds(d, v)
      BY DEF shared, JeuxInvariant, InvOf, Op, Holds, Parties
    <2> QED
      BY <2>1 DEF shared, ThreadOK
  <1> QED
    BY <1>1, <1>2 DEF JeuxInvariant

\* A handler ends.
LEMMA DoneStep ==
    ASSUME JeuxInvariant, NEW c \in Clients, NEW ok, Done(c, ok), UNCHANGED shared
    PROVE  JeuxInvariant'
  <1>1. NoWork \in Work
    <2>1. << >> \in Seq(ToDo) /\ 0 \in 0..MaxGames
      BY EmptySeq, SizesAssumption
    <2> QED
      BY <2>1 DEF NoWork, Work
  <1>2. PICK l \in {"reply", "scan", "gone"} :
            pc' = [pc EXCEPT ![c] = l] /\ work' = [work EXCEPT ![c] = NoWork] /\ next' = next
    BY DEF Done, Go, Goto
  <1>3. /\ pc' \in [Clients -> Labels] /\ work' \in [Clients -> Work] /\ next' \in [Clients -> Nexts]
        /\ pc'[c] = l /\ work'[c] = NoWork
        /\ open' \subseteq Clients /\ player' \subseteq Clients
    BY <1>1, <1>2 DEF JeuxInvariant, TypeOK, Labels, Nexts, shared
  <1>4. InvOf(c)' = NULL
    BY <1>3 DEF InvOf, NoWork
  <1>5. ThreadOK(c)'
    BY <1>3, <1>4 DEF ThreadOK
  <1>6. \A d \in Clients \ {c} : pc'[d] = pc[d] /\ work'[d] = work[d] /\ next'[d] = next[d]
    BY <1>2 DEF JeuxInvariant, TypeOK
  <1> QED
    BY <1>3, <1>4, <1>5, <1>6, LocalStep DEF shared

\* A search finds a slot, or the request is refused.
LEMMA BeginStep ==
    ASSUME JeuxInvariant, NEW c \in Clients, NEW op \in Requests, NEW id,
           Begin(c, op, id), UNCHANGED shared,
           op = "accept" => \A v \in Invs : Holds(c, v) => inv[v].game < MaxGames
    PROVE  JeuxInvariant'
  <1>1. CASE Done(c, FALSE)
    BY <1>1, DoneStep
  <1>2. ASSUME NEW i \in Slots, Go(c, "check", [NoWork EXCEPT !.op = op, !.slot = i]),
               UNCHANGED next
        PROVE  JeuxInvariant'
    <2> DEFINE w == [NoWork EXCEPT !.op = op, !.slot = i]
    <2>1. w \in Work
      <3>1. << >> \in Seq(ToDo) /\ 0 \in 0..MaxGames
        BY EmptySeq, SizesAssumption
      <3> QED
        BY <3>1 DEF NoWork, Work
    <2>2. w.op = op /\ w.slot = i /\ w.inv = NULL
      BY DEF NoWork
    <2>3. pc' = [pc EXCEPT ![c] = "check"] /\ work' = [work EXCEPT ![c] = w]
      BY <1>2 DEF Go, Goto
    <2> HIDE DEF w
    <2>4. /\ pc' \in [Clients -> Labels] /\ work' \in [Clients -> Work] /\ next' \in [Clients -> Nexts]
          /\ pc'[c] = "check" /\ work'[c] = w
          /\ open' \subseteq Clients /\ player' \subseteq Clients
      BY <1>2, <2>1, <2>3 DEF JeuxInvariant, TypeOK, Labels, Nexts, shared
    <2>5. InvOf(c)' = NULL /\ Op(c)' = op
      BY <2>2, <2>4 DEF InvOf, Op
    <2>6. ThreadOK(c)'
      BY <2>2, <2>4, <2>5 DEF ThreadOK, Holds, shared
    <2>7. \A d \in Clients \ {c} : pc'[d] = pc[d] /\ work'[d] = work[d] /\ next'[d] = next[d]
      BY <1>2, <2>3 DEF JeuxInvariant, TypeOK
    <2> QED
      BY <2>4, <2>5, <2>6, <2>7, LocalStep DEF shared
  <1> QED
    BY <1>1, <1>2 DEF Begin

\* A thread that goes on with the rest of its calls.
LEMMA ToDoStep ==
    ASSUME JeuxInvariant, NEW c \in Clients, pc[c] = "todo", UNCHANGED <<shared, pc, next>>,
           NEW w \in Work, work' = [work EXCEPT ![c] = w],
           w.op = Op(c), w.inv = InvOf(c), w.game = work[c].game,
           ToDoOK(w.todo, Parties(InvOf(c)))
    PROVE  JeuxInvariant'
  <1>1. /\ pc' \in [Clients -> Labels] /\ work' \in [Clients -> Work] /\ next' \in [Clients -> Nexts]
        /\ pc'[c] = "todo" /\ work'[c] = w
        /\ open' \subseteq Clients /\ player' \subseteq Clients
    BY DEF JeuxInvariant, TypeOK, Labels, Nexts, shared
  <1>2. InvOf(c)' = InvOf(c) /\ Op(c)' = Op(c)
    BY <1>1 DEF InvOf, Op
  <1>3. ThreadOK(c)
    BY DEF JeuxInvariant
  <1>4. Parties(InvOf(c))' = Parties(InvOf(c))
    BY <1>2 DEF Parties, shared
  <1>5. ThreadOK(c)'
    BY <1>1, <1>2, <1>3, <1>4 DEF ThreadOK, shared
  <1>6. \A d \in Clients \ {c} : pc'[d] = pc[d] /\ work'[d] = work[d] /\ next'[d] = next[d]
    BY DEF JeuxInvariant, TypeOK
  <1> QED
    BY <1>1, <1>2, <1>5, <1>6, LocalStep DEF shared

\* The work of a thread after its first call.
LEMMA PopIsOK ==
    ASSUME JeuxInvariant, NEW c \in Clients, pc[c] = "todo", work[c].todo # << >>
    PROVE  LET w == [work[c] EXCEPT !.todo = Tail(@)] IN
           /\ w \in Work /\ w.op = Op(c) /\ w.inv = InvOf(c) /\ w.game = work[c].game
           /\ w.todo = Tail(work[c].todo) /\ ToDoOK(w.todo, Parties(InvOf(c)))
  <1>1. work[c] \in Work /\ work[c].todo \in Seq(ToDo) /\ ToDoOK(work[c].todo, Parties(InvOf(c)))
    BY DEF JeuxInvariant, TypeOK, Work, ThreadOK
  <1>2. Tail(work[c].todo) \in Seq(ToDo) /\ ToDoOK(Tail(work[c].todo), Parties(InvOf(c)))
    BY <1>1, TailIsOK
  <1> QED
    BY <1>1, <1>2 DEF Work, InvOf, Op

\* A thread whose first call is done goes on with the others.
LEMMA PopStep ==
    ASSUME JeuxInvariant, NEW c \in Clients, pc[c] = "todo", work[c].todo # << >>,
           Pop(c), UNCHANGED shared
    PROVE  JeuxInvariant'
  <1> DEFINE w == [work[c] EXCEPT !.todo = Tail(@)]
  <1>1. /\ w \in Work /\ w.op = Op(c) /\ w.inv = InvOf(c) /\ w.game = work[c].game
        /\ ToDoOK(w.todo, Parties(InvOf(c)))
    BY PopIsOK
  <1>2. work' = [work EXCEPT ![c] = w] /\ UNCHANGED <<pc, next>>
    BY DEF Pop
  <1> HIDE DEF w
  <1> QED
    BY <1>1, <1>2, ToDoStep

-------------------------------------------------------------------------------
\* Steps that leave lists and invitations alone.

\* A thread that takes an INVITE goes on to create the invitation.
LEMMA InviteStep ==
    ASSUME JeuxInvariant, NEW c \in Clients, NEW k \in Clients, Invite(c, k)
    PROVE  JeuxInvariant'
  <1> DEFINE w == [NoWork EXCEPT !.op = "invite", !.peer = k]
  <1>1. w \in Work /\ w.inv = NULL /\ w.op = "invite" /\ w.peer = k
    <2>1. << >> \in Seq(ToDo) /\ 0 \in 0..MaxGames
      BY EmptySeq, SizesAssumption
    <2> QED
      BY <2>1 DEF NoWork, Work
  <1>2. pc' = [pc EXCEPT ![c] = "create"] /\ work' = [work EXCEPT ![c] = w] /\ k # c
    BY DEF Invite, Go, Goto
  <1>3. UNCHANGED <<shared, next>>
    BY DEF Invite
  <1> HIDE DEF w
  <1>4. /\ pc' \in [Clients -> Labels] /\ work' \in [Clients -> Work] /\ next' \in [Clients -> Nexts]
        /\ pc'[c] = "create" /\ work'[c] = w
        /\ open' \subseteq Clients /\ player' \subseteq Clients
    BY <1>1, <1>2, <1>3 DEF JeuxInvariant, TypeOK, Labels, Nexts, shared
  <1>5. InvOf(c)' = NULL /\ Op(c)' = "invite"
    BY <1>1, <1>4 DEF InvOf, Op
  <1>6. ThreadOK(c)'
    BY <1>1, <1>2, <1>4, <1>5 DEF ThreadOK
  <1>7. \A d \in Clients \ {c} : pc'[d] = pc[d] /\ work'[d] = work[d] /\ next'[d] = next[d]
    BY <1>2, <1>3 DEF JeuxInvariant, TypeOK
  <1> QED
    BY <1>3, <1>4, <1>5, <1>6, <1>7, LocalStep DEF shared

\* What the handlers look at before they call the client module; a game number
\* that accept is to use is still free.
LEMMA CheckStep ==
    ASSUME JeuxInvariant, NEW c \in Clients, Check(c)
    PROVE  JeuxInvariant'
  <1>1. /\ pc[c] = "check" /\ UNCHANGED shared
        /\ ThreadOK(c) /\ Op(c) \in Requests /\ work[c].slot \in Slots
    BY DEF Check, JeuxInvariant, ThreadOK
  <1>2. PICK v \in Invs \cup {NULL} : v = list[c][work[c].slot]
    BY <1>1 DEF JeuxInvariant, TypeOK
  <1>3. ASSUME NEW where, Fault(where) PROVE JeuxInvariant'
    BY <1>1, <1>3, FaultStep DEF Fault
  <1>4. CASE Done(c, FALSE)
    BY <1>1, <1>4, DoneStep
  <1>5. ASSUME v # NULL, ~(Op(c) = "move" /\ inv[v].game = 0), CanDo(c, v), UNCHANGED next,
               Go(c, "do", [work[c] EXCEPT !.inv = v, !.game = inv[v].game])
        PROVE  JeuxInvariant'
    <2> DEFINE w == [work[c] EXCEPT !.inv = v, !.game = inv[v].game]
    <2>1. Holds(c, v) /\ v \in Invs
      BY <1>1, <1>2, <1>5 DEF Holds
    <2>2. inv[v] # NULL /\ c \in Parties(v)
      BY <2>1, HeldIsAllocated
    <2>3. inv[v] \in Invitation /\ inv[v].game = Len(games[v]) /\ inv[v].game \in 0..MaxGames
      BY <2>1, <2>2 DEF JeuxInvariant, TypeOK, InvitationsOK, Invitation
    <2>4. w \in Work /\ w.inv = v /\ w.op = Op(c) /\ w.game = inv[v].game
      BY <2>1, <2>3 DEF JeuxInvariant, TypeOK, Work, Op
    <2>5. pc' = [pc EXCEPT ![c] = "do"] /\ work' = [work EXCEPT ![c] = w]
      BY <1>5 DEF Go, Goto
    <2> HIDE DEF w
    <2>6. /\ pc' \in [Clients -> Labels] /\ work' \in [Clients -> Work] /\ next' \in [Clients -> Nexts]
          /\ pc'[c] = "do" /\ work'[c] = w
          /\ open' \subseteq Clients /\ player' \subseteq Clients
      BY <1>1, <1>5, <2>4, <2>5 DEF JeuxInvariant, TypeOK, Labels, Nexts, shared
    <2>7. InvOf(c)' = v /\ Op(c)' = Op(c)
      BY <2>4, <2>6 DEF InvOf, Op
    <2>8. Op(c) = "accept" => inv[v].target = c /\ inv[v].game < MaxGames
      BY <1>1, <1>5, <2>1 DEF CanDo, ThreadOK
    <2>9. Op(c) = "move" => inv[v].game \in 1..Len(games[v])
      BY <1>5, <2>3
    <2>10. Parties(v)' = Parties(v) /\ UNCHANGED <<inv, list, games>>
      BY <1>1 DEF Parties, shared
    <2>11. ThreadOK(c)'
      BY <1>1, <1>5, <2>2, <2>4, <2>6, <2>7, <2>8, <2>9, <2>10 DEF ThreadOK
    <2>12. \A d \in Clients \ {c} : pc'[d] = pc[d] /\ work'[d] = work[d] /\ next'[d] = next[d]
      BY <1>5, <2>5 DEF JeuxInvariant, TypeOK
    <2> QED
      BY <1>1, <2>1, <2>6, <2>7, <2>11, <2>12, LocalStep DEF shared
  <1> QED
    BY <1>2, <1>3, <1>4, <1>5 DEF Check

\* The first call that is left, and its argument.
LEMMA CallIs ==
    ASSUME JeuxInvariant, NEW c \in Clients, NEW what, At(c, what)
    PROVE  /\ pc[c] = "todo" /\ work[c].todo \in Seq(ToDo) /\ work[c].todo # << >>
           /\ Head(work[c].todo).call = what /\ InvOf(c) \in Invs /\ inv[InvOf(c)] # NULL
           /\ ToDoOK(work[c].todo, Parties(InvOf(c)))
           /\ what \notin {"over", "post"} => Who(c) \in Clients
           /\ what = "remove" => Who(c) \in Parties(InvOf(c))
  <1>1. /\ pc[c] = "todo" /\ work[c].todo # << >> /\ Head(work[c].todo).call = what
        /\ work[c] \in Work /\ work[c].todo \in Seq(ToDo) /\ ThreadOK(c)
    BY DEF At, JeuxInvariant, TypeOK, Work
  <1>2. /\ ToDoOK(work[c].todo, Parties(InvOf(c))) /\ InvOf(c) \in Invs /\ inv[InvOf(c)] # NULL
    BY <1>1 DEF ThreadOK, Work, InvOf
  <1> QED
    BY <1>1, <1>2, HeadIs DEF Who

\* A packet is sent, or the connection is gone and the handler ends.
LEMMA SendStep ==
    ASSUME JeuxInvariant, NEW c \in Clients, SendTo(c)
    PROVE  JeuxInvariant'
  <1>1. pc[c] = "todo" /\ work[c].todo # << >> /\ UNCHANGED shared
    BY DEF SendTo, At
  <1>2. Fault("SIGPIPE") => JeuxInvariant'
    BY <1>1, FaultStep DEF Fault
  <1> QED
    BY <1>1, <1>2, PopStep, DoneStep DEF SendTo

\* The id under which the peer knows the invitation is looked up in its list.
LEMMA FindStep ==
    ASSUME JeuxInvariant, NEW c \in Clients, FindIn(c)
    PROVE  JeuxInvariant'
  <1> DEFINE q == work[c].todo
  <1>1. /\ pc[c] = "todo" /\ q \in Seq(ToDo) /\ q # << >> /\ Head(q).call = "find"
        /\ ToDoOK(q, Parties(InvOf(c)))
    BY CallIs DEF FindIn
  <1>2. UNCHANGED <<shared, pc, next>>
    BY DEF FindIn
  <1>3. Tail(q) \in Seq(ToDo) /\ ToDoOK(Tail(q), Parties(InvOf(c))) /\ Tail(q) # << >>
    BY <1>1, TailIsOK, HeadIs
  <1>4. Tail(Tail(q)) \in Seq(ToDo) /\ ToDoOK(Tail(Tail(q)), Parties(InvOf(c)))
    BY <1>3, TailIsOK
  <1>5. work[c] \in Work /\ work \in [Clients -> Work]
    BY DEF JeuxInvariant, TypeOK
  <1>6. CASE work' = [work EXCEPT ![c].todo = Tail(Tail(@))]
    <2> DEFINE w == [work[c] EXCEPT !.todo = Tail(Tail(@))]
    <2>1. /\ w \in Work /\ w.op = Op(c) /\ w.inv = InvOf(c) /\ w.game = work[c].game
          /\ w.todo = Tail(Tail(q))
      BY <1>4, <1>5 DEF Work, Op, InvOf
    <2>2. work' = [work EXCEPT ![c] = w]
      BY <1>6
    <2> HIDE DEF w, q
    <2> QED
      BY <1>1, <1>2, <1>4, <2>1, <2>2, ToDoStep
  <1>7. ASSUME NEW i \in Slots, work' = [work EXCEPT ![c].todo = Tail(@), ![c].slot = i]
        PROVE  JeuxInvariant'
    <2> DEFINE w == [[work[c] EXCEPT !.todo = Tail(@)] EXCEPT !.slot = i]
    <2>1. /\ w \in Work /\ w.op = Op(c) /\ w.inv = InvOf(c) /\ w.game = work[c].game
          /\ w.todo = Tail(q)
      BY <1>3, <1>5 DEF Work, Op, InvOf
    <2>2. work' = [work EXCEPT ![c] = w]
      BY <1>5, <1>7
    <2> HIDE DEF w, q
    <2> QED
      BY <1>1, <1>2, <1>3, <2>1, <2>2, ToDoStep
  <1> QED
    BY <1>6, <1>7 DEF FindIn

\* The id that was found is read again without the mutex.
LEMMA ReadStep ==
    ASSUME JeuxInvariant, NEW c \in Clients, ReadId(c)
    PROVE  JeuxInvariant'
  <1>1. pc[c] = "todo" /\ work[c].todo # << >> /\ UNCHANGED shared
    BY DEF ReadId, At
  <1>2. Fault("id") => JeuxInvariant'
    BY <1>1, FaultStep DEF Fault
  <1> QED
    BY <1>1, <1>2, PopStep DEF ReadId

\* client_make_move looks whether the game is over now.
LEMMA SeeOverStep ==
    ASSUME JeuxInvariant, NEW c \in Clients, SeeOver(c)
    PROVE  JeuxInvariant'
  <1> DEFINE v == InvOf(c)
             q == IF GameOf(v, work[c].game).isOver THEN AfterGame(v) ELSE << >>
             w == [work[c] EXCEPT !.todo = q]
  <1>1. pc[c] = "todo" /\ v \in Invs /\ inv[v] # NULL
    BY CallIs DEF SeeOver
  <1>2. UNCHANGED <<shared, pc, next>> /\ work' = [work EXCEPT ![c] = w]
    BY DEF SeeOver
  <1>3. q \in Seq(ToDo) /\ ToDoOK(q, Parties(v))
    <2>1. AfterGame(v) \in Seq(ToDo) /\ ToDoOK(AfterGame(v), Parties(v))
      BY <1>1, AfterGameIsOK DEF JeuxInvariant, InvitationsOK
    <2>2. << >> \in Seq(ToDo) /\ ToDoOK(<< >>, Parties(v))
      BY EmptyIsOK
    <2> QED
      BY <2>1, <2>2
  <1> HIDE DEF q
  <1>4. w \in Work /\ w.op = Op(c) /\ w.inv = v /\ w.game = work[c].game /\ w.todo = q
    BY <1>3 DEF JeuxInvariant, TypeOK, Work, Op, InvOf
  <1> HIDE DEF w
  <1> QED
    BY <1>1, <1>2, <1>3, <1>4, ToDoStep

\* The handler answers its client and ends.
LEMMA ReplyStep ==
    ASSUME JeuxInvariant, NEW c \in Clients, Reply(c)
    PROVE  JeuxInvariant'
  <1>1. pc[c] = "reply" /\ UNCHANGED shared
    BY DEF Reply
  <1>2. CASE Fault("SIGPIPE")
    BY <1>1, <1>2, FaultStep DEF Fault
  <1>3. CASE Goto(c, "idle") /\ UNCHANGED <<work, next, fault>>
    <2>1. /\ pc' \in [Clients -> Labels] /\ work' \in [Clients -> Work] /\ next' \in [Clients -> Nexts]
          /\ pc'[c] = "idle" /\ open' \subseteq Clients /\ player' \subseteq Clients
      BY <1>1, <1>3 DEF JeuxInvariant, TypeOK, Labels, Nexts, shared, Goto
    <2>2. InvOf(c)' = InvOf(c) /\ ThreadOK(c)
      BY <1>3 DEF InvOf, JeuxInvariant
    <2>3. ThreadOK(c)'
      BY <1>1, <2>1, <2>2 DEF ThreadOK, shared
    <2>4. \A d \in Clients \ {c} : pc'[d] = pc[d] /\ work'[d] = work[d] /\ next'[d] = next[d]
      BY <1>3 DEF JeuxInvariant, TypeOK, Goto
    <2> QED
      BY <1>1, <2>1, <2>2, <2>3, <2>4, LocalStep DEF shared
  <1> QED
    BY <1>2, <1>3 DEF Reply

\* client_logout up to the point where it has picked an invitation.
LEMMA EofStep ==
    ASSUME JeuxInvariant, NEW c \in Clients, Eof(c)
    PROVE  JeuxInvariant'
  <1>1. /\ pc' = [pc EXCEPT ![c] = "scan"] /\ next' = [next EXCEPT ![c] = 0]
        /\ UNCHANGED <<shared, work>>
    BY DEF Eof, Goto
  <1>2. 0 \in Nexts
    BY SizesAssumption DEF Nexts, Slots
  <1>3. /\ pc' \in [Clients -> Labels] /\ work' \in [Clients -> Work] /\ next' \in [Clients -> Nexts]
        /\ pc'[c] = "scan" /\ open' \subseteq Clients /\ player' \subseteq Clients
    BY <1>1, <1>2 DEF JeuxInvariant, TypeOK, Labels, Nexts, shared
  <1>4. InvOf(c)' = InvOf(c) /\ ThreadOK(c)
    BY <1>1 DEF InvOf, JeuxInvariant
  <1>5. ThreadOK(c)'
    BY <1>1, <1>3, <1>4 DEF ThreadOK, shared
  <1>6. \A d \in Clients \ {c} : pc'[d] = pc[d] /\ work'[d] = work[d] /\ next'[d] = next[d]
    BY <1>1 DEF JeuxInvariant, TypeOK
  <1> QED
    BY <1>1, <1>3, <1>4, <1>5, <1>6, LocalStep DEF shared

\* client_logout leaves its loop, or looks at the next entry of the list.
LEMMA ScanStep ==
    ASSUME JeuxInvariant, NEW c \in Clients, Scan(c)
    PROVE  JeuxInvariant'
  <1>1. UNCHANGED <<open, list, inv, games, posted, work>>
    BY DEF Scan
  <1>2. PICK l \in {"gone", "visit"}, n \in Nexts :
            /\ pc' = [pc EXCEPT ![c] = l] /\ next' = [next EXCEPT ![c] = n]
            /\ l = "visit" => n \in 1..NSlots
            /\ player' \subseteq Clients
    <2>1. CASE Goto(c, "gone") /\ player' = player \ {c} /\ UNCHANGED next
      <3>1. next' = [next EXCEPT ![c] = next[c]] /\ next[c] \in Nexts
        BY <2>1 DEF JeuxInvariant, TypeOK, Nexts
      <3> QED
        BY <2>1, <3>1 DEF Goto, JeuxInvariant, TypeOK
    <2>2. ASSUME NEW i \in Slots, Goto(c, "visit"), next' = [next EXCEPT ![c] = i + 1],
                 UNCHANGED player
          PROVE  \E n \in Nexts : /\ pc' = [pc EXCEPT ![c] = "visit"]
                                  /\ next' = [next EXCEPT ![c] = n]
                                  /\ n \in 1..NSlots /\ player' \subseteq Clients
      <3>1. i + 1 \in 1..NSlots /\ i + 1 \in Nexts
        BY SizesAssumption DEF Slots, Nexts
      <3> QED
        BY <2>2, <3>1 DEF Goto, JeuxInvariant, TypeOK
    <2> QED
      BY <2>1, <2>2 DEF Scan
  <1>3. /\ pc' \in [Clients -> Labels] /\ work' \in [Clients -> Work] /\ next' \in [Clients -> Nexts]
        /\ pc'[c] = l /\ next'[c] = n /\ open' \subseteq Clients /\ player' \subseteq Clients
    BY <1>1, <1>2 DEF JeuxInvariant, TypeOK, Labels, Nexts
  <1>4. InvOf(c)' = InvOf(c) /\ ThreadOK(c)
    BY <1>1 DEF InvOf, JeuxInvariant
  <1>5. ThreadOK(c)'
    BY <1>1, <1>2, <1>3, <1>4 DEF ThreadOK
  <1>6. \A d \in Clients \ {c} : pc'[d] = pc[d] /\ work'[d] = work[d] /\ next'[d] = next[d]
    BY <1>1, <1>2 DEF JeuxInvariant, TypeOK
  <1> QED
    BY <1>1, <1>3, <1>4, <1>5, <1>6, LocalStep

\* client_logout tests the entry, and takes up what its invitation calls for.
LEMMA VisitStep ==
    ASSUME JeuxInvariant, NEW c \in Clients, Visit(c)
    PROVE  JeuxInvariant'
  <1>1. pc[c] \in {"visit", "side"} /\ UNCHANGED shared /\ next[c] \in 1..NSlots
    BY DEF Visit, JeuxInvariant, ThreadOK
  <1>2. CASE Fault("logout")
    BY <1>1, <1>2, FaultStep DEF Fault
  <1>3. CASE Goto(c, "side") /\ UNCHANGED <<work, next>>
    <2>1. /\ pc' \in [Clients -> Labels] /\ work' \in [Clients -> Work] /\ next' \in [Clients -> Nexts]
          /\ pc'[c] = "side" /\ open' \subseteq Clients /\ player' \subseteq Clients
      BY <1>1, <1>3 DEF Goto, JeuxInvariant, TypeOK, Labels, Nexts, shared
    <2>2. InvOf(c)' = InvOf(c) /\ ThreadOK(c)
      BY <1>3 DEF InvOf, JeuxInvariant
    <2>3. ThreadOK(c)'
      BY <1>1, <1>3, <2>1, <2>2 DEF ThreadOK, shared
    <2>4. \A d \in Clients \ {c} : pc'[d] = pc[d] /\ work'[d] = work[d] /\ next'[d] = next[d]
      BY <1>3 DEF Goto, JeuxInvariant, TypeOK
    <2> QED
      BY <1>1, <2>1, <2>2, <2>3, <2>4, LocalStep DEF shared
  <1>4. ASSUME NEW op \in Closers, UNCHANGED next, Go(c, "pick", [NoWork EXCEPT !.op = op])
        PROVE  JeuxInvariant'
    <2> DEFINE w == [NoWork EXCEPT !.op = op]
    <2>1. w \in Work /\ w.inv = NULL /\ w.op = op
      <3>1. << >> \in Seq(ToDo) /\ 0 \in 0..MaxGames /\ 0 \in Slots \cup {NULL}
        BY EmptySeq, SizesAssumption DEF Slots
      <3> QED
        BY <3>1 DEF NoWork, Work, Closers, Requests
    <2>2. pc' = [pc EXCEPT ![c] = "pick"] /\ work' = [work EXCEPT ![c] = w]
      BY <1>4 DEF Go, Goto
    <2> HIDE DEF w
    <2>3. /\ pc' \in [Clients -> Labels] /\ work' \in [Clients -> Work] /\ next' \in [Clients -> Nexts]
          /\ pc'[c] = "pick" /\ work'[c] = w /\ next'[c] = next[c]
          /\ open' \subseteq Clients /\ player' \subseteq Clients
      BY <1>1, <1>4, <2>1, <2>2 DEF JeuxInvariant, TypeOK, Labels, Nexts, shared
    <2>4. InvOf(c)' = NULL /\ Op(c)' = op
      BY <2>1, <2>3 DEF InvOf, Op
    <2>5. ThreadOK(c)'
      BY <1>1, <2>1, <2>3, <2>4 DEF ThreadOK
    <2>6. \A d \in Clients \ {c} : pc'[d] = pc[d] /\ work'[d] = work[d] /\ next'[d] = next[d]
      BY <1>4, <2>2 DEF JeuxInvariant, TypeOK
    <2> QED
      BY <1>1, <2>3, <2>4, <2>5, <2>6, LocalStep DEF shared
  <1>5. \/ Fault("logout")
        \/ Goto(c, "side") /\ UNCHANGED <<work, next>>
        \/ \E op \in Closers : Go(c, "pick", [NoWork EXCEPT !.op = op]) /\ UNCHANGED next
    BY DEF Visit, Closers
  <1> QED
    BY <1>2, <1>3, <1>4, <1>5

\* It reads the entry's id.
LEMMA PickStep ==
    ASSUME JeuxInvariant, NEW c \in Clients, Pick(c)
    PROVE  JeuxInvariant'
  <1>1. /\ pc[c] = "pick" /\ UNCHANGED shared /\ next[c] \in 1..NSlots /\ Op(c) \in Closers
        /\ ThreadOK(c) /\ work[c] \in Work
    BY DEF Pick, JeuxInvariant, ThreadOK, TypeOK
  <1>2. CASE Fault("logout")
    BY <1>1, <1>2, FaultStep DEF Fault
  <1>3. CASE Go(c, "search", [work[c] EXCEPT !.id = IdOf(next[c] - 1)]) /\ UNCHANGED next
    <2> DEFINE w == [work[c] EXCEPT !.id = IdOf(next[c] - 1)]
    <2>1. IdOf(next[c] - 1) \in Slots
      <3>1. next[c] - 1 \in Slots
        BY <1>1, SizesAssumption DEF Slots
      <3> QED
        BY <3>1, IdIsSlot
    <2>2. w \in Work /\ w.inv = InvOf(c) /\ w.op = Op(c) /\ w.id \in Slots
      BY <1>1, <2>1 DEF Work, InvOf, Op
    <2>3. pc' = [pc EXCEPT ![c] = "search"] /\ work' = [work EXCEPT ![c] = w]
      BY <1>3 DEF Go, Goto
    <2> HIDE DEF w
    <2>4. /\ pc' \in [Clients -> Labels] /\ work' \in [Clients -> Work] /\ next' \in [Clients -> Nexts]
          /\ pc'[c] = "search" /\ work'[c] = w
          /\ open' \subseteq Clients /\ player' \subseteq Clients
      BY <1>1, <1>3, <2>2, <2>3 DEF JeuxInvariant, TypeOK, Labels, Nexts, shared
    <2>5. InvOf(c)' = InvOf(c) /\ Op(c)' = Op(c)
      BY <2>2, <2>4 DEF InvOf, Op
    <2>6. ThreadOK(c)'
      BY <1>1, <2>2, <2>4, <2>5 DEF ThreadOK, shared
    <2>7. \A d \in Clients \ {c} : pc'[d] = pc[d] /\ work'[d] = work[d] /\ next'[d] = next[d]
      BY <1>3, <2>3 DEF JeuxInvariant, TypeOK
    <2> QED
      BY <1>1, <2>4, <2>5, <2>6, <2>7, LocalStep DEF shared
  <1> QED
    BY <1>2, <1>3 DEF Pick

\* A request looks its invitation up by the id it was given.
LEMMA SearchStep ==
    ASSUME JeuxInvariant, NEW c \in Clients, Search(c)
    PROVE  JeuxInvariant'
  <1>1. pc[c] = "search" /\ UNCHANGED shared /\ Op(c) \in Closers
    BY DEF Search, JeuxInvariant, ThreadOK
  <1>2. Op(c) \in Requests /\ Op(c) # "accept" /\ Begin(c, Op(c), work[c].id)
    BY <1>1 DEF Search, Closers, Requests
  <1> QED
    BY <1>1, <1>2, BeginStep

\* An invitation is put into an empty slot.
LEMMA HoldsAfterAdd ==
    ASSUME TypeOK, NEW x \in Clients, NEW i \in Slots, NEW v \in Invs, list[x][i] = NULL,
           list' = [list EXCEPT ![x][i] = v], ~Holds(x, v)
    PROVE  /\ list' \in [Clients -> [Slots -> Invs \cup {NULL}]]
           /\ \A d \in Clients, w \in Invs : Holds(d, w)' <=> Holds(d, w) \/ (d = x /\ w = v)
           /\ \A d \in Clients, j \in Slots : list'[d][j] = v => Holds(d, v) \/ (d = x /\ j = i)
           /\ \A d \in Clients, j \in Slots : list'[d][j] # v => list'[d][j] = list[d][j]
  <1>1. list \in [Clients -> [Slots -> Invs \cup {NULL}]]
    BY DEF TypeOK
  <1>2. \A d \in Clients, j \in Slots :
            list'[d][j] = IF d = x /\ j = i THEN v ELSE list[d][j]
    BY <1>1
  <1>3. list' \in [Clients -> [Slots -> Invs \cup {NULL}]]
    BY <1>1
  <1>4. ASSUME NEW d \in Clients, NEW w \in Invs
        PROVE  Holds(d, w)' <=> Holds(d, w) \/ (d = x /\ w = v)
    <2>1. ASSUME Holds(d, w) PROVE Holds(d, w)'
      BY <1>2, <2>1, ObjectsAssumption DEF Holds
    <2>2. ASSUME d = x, w = v PROVE Holds(d, w)'
      BY <1>2, <2>2 DEF Holds
    <2>3. ASSUME Holds(d, w)' PROVE Holds(d, w) \/ (d = x /\ w = v)
      BY <1>2, <2>3 DEF Holds
    <2> QED
      BY <2>1, <2>2, <2>3
  <1> QED
    BY <1>2, <1>3, <1>4 DEF Holds

\* A step of a thread that is not in, and does not enter, an offer.
LEMMA SharedStep ==
    ASSUME JeuxInvariant, NEW c \in Clients, TypeOK', ListsAreProper', InvitationsOK',
           ThreadOK(c)', pc'[c] # "offer", InvOf(c)' \in {InvOf(c), NULL},
           \A d \in Clients \ {c} : pc'[d] = pc[d] /\ work'[d] = work[d] /\ next'[d] = next[d],
           \A v \in Invs : inv[v] # NULL =>
               /\ inv'[v] # NULL
               /\ inv'[v].source = inv[v].source /\ inv'[v].target = inv[v].target
               /\ inv[v].state = "closed" => inv'[v].state = "closed"
               /\ (InvOf(c) = v /\ inv[v].target = c) \/ inv'[v].game = inv[v].game,
           \A v \in Invs, d \in Clients : Holds(d, v)' /\ ~Holds(d, v) =>
               InvOf(c) = v /\ inv'[v].game < MaxGames,
           \A v \in Invs : Len(games[v]) <= Len(games'[v])
    PROVE  JeuxInvariant'
  <1>1. \A v \in Invs : Len(games[v]) \in Nat /\ Len(games'[v]) \in Nat
    BY DEF JeuxInvariant, TypeOK
  <1>2. ASSUME NEW d \in Clients \ {c} PROVE ThreadOK(d)'
    <2>1. pc[d] = "offer" => /\ InvOf(d) \in Invs /\ inv[InvOf(d)] # NULL /\ InvOf(d) # InvOf(c)
                             /\ inv[InvOf(d)].target \in Clients
                             /\ ~Holds(inv[InvOf(d)].target, InvOf(d))
      <3>1. ASSUME pc[d] = "offer"
            PROVE  InvOf(d) \in Invs /\ inv[InvOf(d)] # NULL /\ InvOf(d) # InvOf(c)
                   /\ ~Holds(inv[InvOf(d)].target, InvOf(d))
        BY <3>1 DEF JeuxInvariant, ThreadOK, TypeOK, Work, InvOf, OffersApart
      <3> QED
        BY <3>1, PartiesAre DEF JeuxInvariant, InvitationsOK
    <2>2. pc[d] = "offer" => ~Holds(inv[InvOf(d)].target, InvOf(d))'
      BY <2>1 DEF Holds, InvOf
    <2>3. \A v \in Invs : inv[v] # NULL =>
              /\ inv'[v] # NULL
              /\ inv'[v].source = inv[v].source /\ inv'[v].target = inv[v].target
              /\ inv[v].state = "closed" => inv'[v].state = "closed"
              /\ inv[v].target = d => inv'[v].game = inv[v].game
              /\ pc[d] = "offer" /\ v = InvOf(d) =>
                     inv'[v].game = inv[v].game /\ ~Holds(inv[v].target, v)'
      BY <2>1
    <2> QED
      BY <1>1, <2>3, OthersKeep
  <1>3. OffersApart'
    <2> SUFFICES ASSUME NEW a \in Clients, NEW b \in Clients,
                        pc'[a] = "offer", InvOf(a)' = InvOf(b)'
                 PROVE  a = b
      BY DEF OffersApart
    <2>1. a # c /\ pc[a] = "offer" /\ InvOf(a)' = InvOf(a)
      BY DEF InvOf
    <2>2. InvOf(a) # NULL
      BY <2>1 DEF JeuxInvariant, ThreadOK
    <2>3. InvOf(b)' = InvOf(b)
      BY <2>1, <2>2 DEF InvOf
    <2>4. InvOf(a) = InvOf(b)
      BY <2>1, <2>3
    <2> QED
      BY <2>1, <2>4 DEF JeuxInvariant, OffersApart
  <1> QED
    BY <1>2, <1>3 DEF JeuxInvariant

-------------------------------------------------------------------------------
\* Steps that change them.

\* A thread and its invitation, while it works on one.
LEMMA WorksOn ==
    ASSUME JeuxInvariant, NEW c \in Clients, pc[c] \in {"offer", "do", "todo"}
    PROVE  /\ InvOf(c) \in Invs /\ inv[InvOf(c)] # NULL /\ inv[InvOf(c)] \in Invitation
           /\ inv[InvOf(c)].source # inv[InvOf(c)].target
           /\ inv[InvOf(c)].game = Len(games[InvOf(c)])
           /\ inv[InvOf(c)].refs >= InLists(InvOf(c))
  <1>1. InvOf(c) \in Invs /\ inv[InvOf(c)] # NULL
    BY DEF JeuxInvariant, ThreadOK, TypeOK, Work, InvOf
  <1> QED
    BY <1>1 DEF JeuxInvariant, TypeOK, InvitationsOK

\* The new invitation is in its source's list only.
LEMMA CreateStep ==
    ASSUME JeuxInvariant, NEW c \in Clients, NEW role \in PlayerRole, Create(c, role)
    PROVE  JeuxInvariant'
  <1>1. pc[c] = "create" /\ Op(c) = "invite" /\ UNCHANGED <<open, player, games, posted>>
    BY DEF Create, JeuxInvariant, ThreadOK
  <1>2. PICK k \in Clients \ {c} : k = work[c].peer
    BY <1>1 DEF JeuxInvariant, ThreadOK
  <1>3. CASE Fault("freed client") /\ UNCHANGED <<list, inv>>
    BY <1>1, <1>3, FaultStep DEF Fault, shared
  <1>4. ASSUME NEW v \in Invs, NEW i \in Slots, inv[v] = NULL, FirstEmpty(c, i),
               inv' = [inv EXCEPT ![v] = [state |-> "open", source |-> c, target |-> k,
                                          role |-> role, refs |-> 3, game |-> 0]],
               list' = [list EXCEPT ![c][i] = v],
               Go(c, "offer", [work[c] EXCEPT !.inv = v, !.id = IdOf(i)]),
               UNCHANGED next
        PROVE  JeuxInvariant'
    <2> DEFINE new == [state |-> "open", source |-> c, target |-> k,
                       role |-> role, refs |-> 3, game |-> 0]
               w == [work[c] EXCEPT !.inv = v, !.id = IdOf(i)]
    <2>1. TypeOK /\ \A d \in Clients : ~Holds(d, v)
      BY <1>4, HeldIsAllocated DEF JeuxInvariant
    <2>2. /\ list' \in [Clients -> [Slots -> Invs \cup {NULL}]]
          /\ \A d \in Clients, u \in Invs : Holds(d, u)' <=> Holds(d, u) \/ (d = c /\ u = v)
          /\ \A d \in Clients, j \in Slots : list'[d][j] = v => d = c /\ j = i
          /\ \A d \in Clients, j \in Slots : list'[d][j] # v => list'[d][j] = list[d][j]
      <3>1. list[c][i] = NULL /\ ~Holds(c, v)
        BY <1>4, <2>1 DEF FirstEmpty
      <3>2. /\ list' \in [Clients -> [Slots -> Invs \cup {NULL}]]
            /\ \A d \in Clients, u \in Invs : Holds(d, u)' <=> Holds(d, u) \/ (d = c /\ u = v)
            /\ \A d \in Clients, j \in Slots : list'[d][j] = v => Holds(d, v) \/ (d = c /\ j = i)
            /\ \A d \in Clients, j \in Slots : list'[d][j] # v => list'[d][j] = list[d][j]
        BY <1>4, <2>1, <3>1, HoldsAfterAdd
      <3> QED
        BY <2>1, <3>2
    <2>3. /\ new \in Invitation /\ new.state = "open" /\ new.source = c /\ new.target = k
          /\ new.refs = 3 /\ new.game = 0
      BY SizesAssumption DEF Invitation, States
    <2>4. inv' = [inv EXCEPT ![v] = new] /\ new # NULL
      BY <1>4, <2>3, NullAssumption
    <2> HIDE DEF new
    <2>5. /\ inv' \in [Invs -> Invitation \cup {NULL}] /\ inv'[v] = new
          /\ \A u \in Invs \ {v} : inv'[u] = inv[u]
      BY <2>1, <2>3, <2>4 DEF TypeOK
    <2>6. /\ w \in Work /\ w.inv = v /\ w.op = "invite"
      BY <1>1, <2>1, IdIsSlot DEF TypeOK, Work, Op
    <2>7. pc' = [pc EXCEPT ![c] = "offer"] /\ work' = [work EXCEPT ![c] = w]
      BY <1>4 DEF Go, Goto
    <2> HIDE DEF w
    <2>8. /\ TypeOK' /\ pc'[c] = "offer" /\ work'[c] = w
          /\ \A d \in Clients \ {c} : pc'[d] = pc[d] /\ work'[d] = work[d] /\ next'[d] = next[d]
      BY <1>1, <1>4, <2>1, <2>2, <2>5, <2>6, <2>7 DEF TypeOK
    <2>9. ListsAreProper'
      <3> SUFFICES ASSUME NEW d \in Clients, NEW j \in Slots, list'[d][j] # NULL
                   PROVE  /\ inv'[list'[d][j]] # NULL
                          /\ d \in {inv'[list'[d][j]].source, inv'[list'[d][j]].target}
                          /\ \A h \in Slots : list'[d][h] = list'[d][j] => j = h
        BY DEF ListsAreProper
      <3>1. CASE list'[d][j] = v
        BY <2>2, <2>3, <2>4, <2>5, <3>1
      <3>2. CASE list'[d][j] # v
        <4>1. /\ list'[d][j] = list[d][j] /\ list[d][j] \in Invs
              /\ \A h \in Slots : list'[d][h] = list'[d][j] => list[d][h] = list[d][j]
          BY <2>1, <2>2, <3>2 DEF TypeOK
        <4> QED
          BY <2>5, <3>2, <4>1 DEF JeuxInvariant, ListsAreProper
      <3> QED
        BY <3>1, <3>2
    <2>10. InvitationsOK'
      <3> SUFFICES ASSUME NEW u \in Invs
                   PROVE  /\ inv'[u] = NULL => games'[u] = << >> /\ posted'[u] = 0
                          /\ inv'[u] # NULL => /\ inv'[u].source # inv'[u].target
                                               /\ inv'[u].game = Len(games'[u])
                                               /\ inv'[u].refs >= InLists(u)'
        BY DEF InvitationsOK
      <3>1. CASE u = v
        <4>1. games[v] = << >> /\ Len(<< >>) = 0
          BY <1>4, EmptySeq DEF JeuxInvariant, InvitationsOK
        <4>2. InLists(v)' <= 2
          BY DEF InLists
        <4>3. InLists(v)' \in Int
          BY DEF InLists
        <4> QED
          BY <1>1, <2>3, <2>4, <2>5, <3>1, <4>1, <4>2, <4>3
      <3>2. CASE u # v
        <4>1. inv'[u] = inv[u] /\ games'[u] = games[u] /\ posted'[u] = posted[u]
          BY <1>1, <2>5, <3>2
        <4>2. ASSUME inv[u] # NULL PROVE InLists(u)' = InLists(u)
          <5>1. inv[u].source \in Clients /\ inv[u].target \in Clients
            BY <2>1, <4>2 DEF TypeOK, Invitation
          <5> QED
            BY <2>2, <3>2, <4>1, <5>1 DEF InLists
        <4> QED
          BY <4>1, <4>2 DEF JeuxInvariant, InvitationsOK
      <3> QED
        BY <3>1, <3>2
    <2>11. InvOf(c)' = v /\ Op(c)' = "invite"
      BY <2>6, <2>8 DEF InvOf, Op
    <2>12. ThreadOK(c)'
      <3>1. ~Holds(inv[v].target, v)'
        <4>1. ~Holds(k, v)'
          BY <1>2, <2>1, <2>2
        <4> QED
          BY <2>3, <2>5, <4>1 DEF Holds
      <3> QED
        BY <2>3, <2>4, <2>5, <2>8, <2>11, <3>1, ObjectsAssumption DEF ThreadOK
    <2>13. \A d \in Clients : InvOf(d) # v
      BY <1>4, ObjectsAssumption DEF JeuxInvariant, ThreadOK
    <2>14. ASSUME NEW d \in Clients \ {c} PROVE ThreadOK(d)'
      <3>1. \A u \in Invs : Len(games[u]) \in Nat /\ Len(games'[u]) \in Nat
                            /\ Len(games[u]) <= Len(games'[u])
        BY <1>1, <2>1 DEF TypeOK
      <3>2. ASSUME pc[d] = "offer"
            PROVE  InvOf(d) # v /\ ~Holds(inv[InvOf(d)].target, InvOf(d))'
        <4>1. PICK u \in Invs, t \in Clients :
                  InvOf(d) = u /\ inv[u].target = t /\ ~Holds(t, u)
          BY <3>2, WorksOn DEF JeuxInvariant, ThreadOK, Invitation
        <4>2. u # v /\ ~Holds(t, u)'
          BY <2>2, <2>13, <4>1
        <4>3. inv'[u] = inv[u] /\ InvOf(d)' = u
          BY <2>5, <2>8, <2>14, <4>1, <4>2 DEF InvOf
        <4> QED
          BY <4>1, <4>2, <4>3 DEF Holds
      <3>3. \A u \in Invs : inv[u] # NULL => inv'[u] = inv[u]
        BY <1>4, <2>5
      <3>4. \A u \in Invs : Holds(d, u)' => Holds(d, u)
        BY <2>2
      <3>5. \A u \in Invs : pc[d] = "offer" /\ u = InvOf(d) => ~Holds(inv[u].target, u)'
        BY <3>2, <2>8, <2>14 DEF Holds, InvOf
      <3> QED
        BY <2>8, <3>1, <3>3, <3>4, <3>5, OthersKeep
    <2>15. OffersApart'
      <3> SUFFICES ASSUME NEW a \in Clients, NEW b \in Clients,
                          pc'[a] = "offer", InvOf(a)' = InvOf(b)'
                   PROVE  a = b
        BY DEF OffersApart
      <3>1. \A d \in Clients \ {c} : InvOf(d)' = InvOf(d) /\ InvOf(d)' # v
        BY <2>8, <2>13 DEF InvOf
      <3> QED
        BY <2>8, <2>11, <3>1 DEF JeuxInvariant, OffersApart
    <2> QED
      BY <2>8, <2>9, <2>10, <2>12, <2>14, <2>15 DEF JeuxInvariant
  <1> QED
    BY <1>2, <1>3, <1>4 DEF Create

\* The target's list gets the invitation its source is offering.
LEMMA OfferStep ==
    ASSUME JeuxInvariant, NEW c \in Clients, Offer(c)
    PROVE  JeuxInvariant'
  <1>1. pc[c] = "offer" /\ UNCHANGED <<open, player, games, posted, next>>
    BY DEF Offer
  <1>2. PICK v \in Invs, t \in Clients : /\ v = InvOf(c) /\ inv[v] # NULL /\ inv[v] \in Invitation
                           /\ t = inv[v].target /\ inv[v].source = c /\ c # t
                           /\ inv[v].game = 0 /\ Op(c) = "invite" /\ ~Holds(t, v)
                           /\ inv[v].refs >= InLists(v)
    BY <1>1, WorksOn DEF JeuxInvariant, ThreadOK, Invitation
  <1>3. PICK i \in Slots : list[t][i] = NULL /\ list' = [list EXCEPT ![t][i] = v]
    BY <1>2 DEF Offer, Add, FirstEmpty
  <1>4. inv' = [inv EXCEPT ![v].refs = @ + 2]
    BY <1>2 DEF Offer
  <1> DEFINE q == <<Send(t)>>
             w == [work[c] EXCEPT !.todo = q]
  <1>5. Go(c, "todo", w)
    BY <1>2 DEF Offer, Send
  <1>6. TypeOK
    BY DEF JeuxInvariant
  <1>7. q \in Seq(ToDo) /\ ToDoOK(q, {c, t}) /\ \A e : In(q, e) => e.call = "send"
    <2>1. /\ q \in Seq(ToDo) /\ \A e : In(q, e) => e.call \notin {"post", "remove"}
      BY NoticeIsOK
    <2>2. ToDoOK(q, {c, t})
      BY NoticeIsOK
    <2>3. \A e : In(q, e) => e.call = "send"
      BY DEF In, Send
    <2> QED
      BY <2>1, <2>2, <2>3
  <1>8. /\ list' \in [Clients -> [Slots -> Invs \cup {NULL}]]
        /\ \A d \in Clients, u \in Invs : Holds(d, u)' <=> Holds(d, u) \/ (d = t /\ u = v)
        /\ \A d \in Clients, j \in Slots : list'[d][j] = v => Holds(d, v) \/ (d = t /\ j = i)
        /\ \A d \in Clients, j \in Slots : list'[d][j] # v => list'[d][j] = list[d][j]
    <2>1. ~Holds(t, v) /\ list[t][i] = NULL /\ list' = [list EXCEPT ![t][i] = v]
      BY <1>2, <1>3
    <2> QED
      BY <1>6, <2>1, HoldsAfterAdd
  <1>9. /\ inv' \in [Invs -> Invitation \cup {NULL}] /\ inv'[v] # NULL
        /\ inv'[v] = [inv[v] EXCEPT !.refs = @ + 2]
        /\ \A u \in Invs \ {v} : inv'[u] = inv[u]
    <2> DEFINE new == [inv[v] EXCEPT !.refs = @ + 2]
    <2>1. new \in Invitation
      BY <1>2 DEF Invitation
    <2>2. inv' = [inv EXCEPT ![v] = new]
      BY <1>4
    <2> HIDE DEF new
    <2> QED
      BY <1>6, <2>1, <2>2, NullAssumption DEF TypeOK, new
  <1>10. /\ inv'[v].source = c /\ inv'[v].target = t /\ inv'[v].game = 0
         /\ inv'[v].refs = inv[v].refs + 2 /\ inv'[v].state = inv[v].state
    BY <1>2, <1>9 DEF Invitation
  <1> HIDE DEF q
  <1>11. w \in Work /\ w.inv = v /\ w.op = "invite" /\ w.todo = q
    <2>1. work[c] \in Work /\ work[c].inv = v /\ work[c].op = "invite"
      BY <1>2, <1>6 DEF TypeOK, InvOf, Op
    <2> QED
      BY <1>7, <2>1 DEF Work
  <1>12. pc' = [pc EXCEPT ![c] = "todo"] /\ work' = [work EXCEPT ![c] = w]
    BY <1>5 DEF Go, Goto
  <1> HIDE DEF w
  <1>13. /\ TypeOK' /\ pc'[c] = "todo" /\ work'[c] = w
         /\ \A d \in Clients \ {c} : pc'[d] = pc[d] /\ work'[d] = work[d] /\ next'[d] = next[d]
    BY <1>1, <1>6, <1>8, <1>9, <1>11, <1>12 DEF TypeOK
  <1>14. ListsAreProper'
    <2> SUFFICES ASSUME NEW d \in Clients, NEW j \in Slots, list'[d][j] # NULL
                 PROVE  /\ inv'[list'[d][j]] # NULL
                        /\ d \in {inv'[list'[d][j]].source, inv'[list'[d][j]].target}
                        /\ \A h \in Slots : list'[d][h] = list'[d][j] => j = h
      BY DEF ListsAreProper
    <2>1. CASE list'[d][j] = v
      <3>1. ASSUME NEW h \in Slots, list'[d][h] = v PROVE j = h
        <4>1. CASE d = t
          BY <1>2, <1>8, <2>1, <3>1, <4>1
        <4>2. CASE d # t
          <5>1. list[d][h] = v /\ list[d][j] = v
            BY <1>3, <1>6, <2>1, <3>1, <4>2 DEF TypeOK
          <5> QED
            BY <5>1, ObjectsAssumption DEF JeuxInvariant, ListsAreProper
        <4> QED
          BY <4>1, <4>2
      <3>2. d \in {c, t}
        <4>1. Holds(d, v) => d \in Parties(v)
          BY HeldIsAllocated
        <4> QED
          BY <1>2, <1>8, <2>1, <4>1 DEF Parties
      <3> QED
        BY <1>9, <1>10, <2>1, <3>1, <3>2
    <2>2. CASE list'[d][j] # v
      <3>1. /\ list'[d][j] = list[d][j] /\ list[d][j] \in Invs
            /\ \A h \in Slots : list'[d][h] = list'[d][j] => list[d][h] = list[d][j]
        BY <1>6, <1>8, <2>2 DEF TypeOK
      <3> QED
        BY <1>9, <2>2, <3>1 DEF JeuxInvariant, ListsAreProper
    <2> QED
      BY <2>1, <2>2
  <1>15. InvitationsOK'
    <2> SUFFICES ASSUME NEW u \in Invs
                 PROVE  /\ inv'[u] = NULL => games'[u] = << >> /\ posted'[u] = 0
                        /\ inv'[u] # NULL => /\ inv'[u].source # inv'[u].target
                                             /\ inv'[u].game = Len(games'[u])
                                             /\ inv'[u].refs >= InLists(u)'
      BY DEF InvitationsOK
    <2>1. CASE u = v
      <3>1. InLists(v)' <= 2 /\ InLists(v)' \in Int /\ InLists(v) >= 0 /\ InLists(v) \in Int
        BY DEF InLists
      <3>2. inv[v].refs \in Nat
        BY <1>2 DEF Invitation
      <3>3. Len(games[v]) = 0
        BY <1>2 DEF JeuxInvariant, InvitationsOK
      <3> QED
        <4>1. inv'[v].refs >= InLists(v)'
          BY <1>10, <3>1, <3>2
        <4>2. inv'[v].game = Len(games'[v])
          BY <1>1, <1>10, <3>3
        <4> QED
          BY <1>2, <1>9, <1>10, <2>1, <4>1, <4>2
    <2>2. CASE u # v
      <3>1. inv'[u] = inv[u] /\ games'[u] = games[u] /\ posted'[u] = posted[u]
        BY <1>1, <1>9, <2>2
      <3>2. ASSUME inv[u] # NULL PROVE InLists(u)' = InLists(u)
        <4>1. inv[u].source \in Clients /\ inv[u].target \in Clients
          BY <1>6, <3>2 DEF TypeOK, Invitation
        <4> QED
          BY <1>8, <2>2, <3>1, <4>1 DEF InLists
      <3> QED
        BY <3>1, <3>2 DEF JeuxInvariant, InvitationsOK
    <2> QED
      BY <2>1, <2>2
  <1>16. InvOf(c)' = v /\ Op(c)' = "invite"
    BY <1>11, <1>13 DEF InvOf, Op
  <1>17. ThreadOK(c)'
    <2>1. Parties(v)' = {c, t}
      BY <1>10 DEF Parties
    <2> QED
      BY <1>7, <1>9, <1>11, <1>13, <1>16, <2>1, ObjectsAssumption DEF ThreadOK, Closers
  <1>18. \A u \in Invs : inv[u] # NULL =>
            /\ inv'[u] # NULL
            /\ inv'[u].source = inv[u].source /\ inv'[u].target = inv[u].target
            /\ inv[u].state = "closed" => inv'[u].state = "closed"
            /\ inv'[u].game = inv[u].game
    BY <1>2, <1>9, <1>10
  <1>19. \A u \in Invs, d \in Clients : Holds(d, u)' /\ ~Holds(d, u) =>
            u = v /\ inv'[u].game < MaxGames
    BY <1>8, <1>10, SizesAssumption
  <1>20. \A u \in Invs : Len(games[u]) <= Len(games'[u])
    BY <1>1, <1>6 DEF TypeOK
  <1> QED
    BY <1>2, <1>13, <1>14, <1>15, <1>16, <1>17, <1>18, <1>19, <1>20, SharedStep

\* The lists stay as they are, and the parties of every invitation.
LEMMA ListsKept ==
    ASSUME JeuxInvariant, list' = list,
           \A u \in Invs : inv[u] # NULL =>
               inv'[u] # NULL /\ inv'[u].source = inv[u].source /\ inv'[u].target = inv[u].target
    PROVE  /\ ListsAreProper'
           /\ \A d \in Clients, u \in Invs : Holds(d, u)' <=> Holds(d, u)
           /\ \A u \in Invs : inv[u] # NULL => InLists(u)' = InLists(u)
  <1>1. ListsAreProper'
    <2> SUFFICES ASSUME NEW d \in Clients, NEW j \in Slots, list[d][j] # NULL
                 PROVE  /\ inv'[list[d][j]] # NULL
                        /\ d \in {inv'[list[d][j]].source, inv'[list[d][j]].target}
                        /\ \A h \in Slots : list[d][h] = list[d][j] => j = h
      BY DEF ListsAreProper
    <2>1. list[d][j] \in Invs
      BY DEF JeuxInvariant, TypeOK
    <2> QED
      BY <2>1 DEF JeuxInvariant, ListsAreProper
  <1> QED
    BY <1>1 DEF Holds, InLists

\* A thread that did what it came for goes on with the calls of Rest.
LEMMA ContinueIsOK ==
    ASSUME JeuxInvariant, NEW c \in Clients, pc[c] = "do", Continue(c)
    PROVE  /\ pc' \in [Clients -> Labels] /\ work' \in [Clients -> Work] /\ next' = next
           /\ pc'[c] = "todo" /\ InvOf(c)' = InvOf(c) /\ Op(c)' = Op(c)
           /\ work'[c].game = work[c].game /\ work'[c].todo = Rest(c, InvOf(c))
           /\ ToDoOK(work'[c].todo, Parties(InvOf(c)))
           /\ \A e : In(work'[c].todo, e) => e.call # "post"
           /\ \A x, y \in Parties(InvOf(c)) :
                 In(work'[c].todo, Remove(x)) => In(work'[c].todo, Remove(y))
           /\ Op(c) \in Closers => \A x \in Parties(InvOf(c)) : In(work'[c].todo, Remove(x))
           /\ \A d \in Clients \ {c} : pc'[d] = pc[d] /\ work'[d] = work[d] /\ next'[d] = next[d]
  <1> DEFINE v == InvOf(c)
             w == [work[c] EXCEPT !.todo = Rest(c, v)]
  <1>1. /\ v \in Invs /\ inv[v] # NULL /\ inv[v].source # inv[v].target
        /\ c \in Parties(v) /\ Op(c) \in Requests /\ TypeOK
    BY WorksOn DEF JeuxInvariant, ThreadOK
  <1>2. /\ Rest(c, v) \in Seq(ToDo) /\ ToDoOK(Rest(c, v), Parties(v))
        /\ \A e : In(Rest(c, v), e) => e.call # "post"
        /\ \A x, y \in Parties(v) : In(Rest(c, v), Remove(x)) => In(Rest(c, v), Remove(y))
        /\ Op(c) \in Closers => \A x \in Parties(v) : In(Rest(c, v), Remove(x))
    BY <1>1, RestIsOK
  <1>3. pc' = [pc EXCEPT ![c] = "todo"] /\ work' = [work EXCEPT ![c] = w] /\ next' = next
    BY DEF Continue, Go, Goto
  <1>4. /\ w \in Work /\ w.op = Op(c) /\ w.inv = v /\ w.game = work[c].game
        /\ w.todo = Rest(c, v)
    BY <1>1, <1>2 DEF TypeOK, Work, Op, InvOf
  <1> HIDE DEF w
  <1>5. /\ pc' \in [Clients -> Labels] /\ work' \in [Clients -> Work]
        /\ pc'[c] = "todo" /\ work'[c] = w
        /\ \A d \in Clients \ {c} : pc'[d] = pc[d] /\ work'[d] = work[d] /\ next'[d] = next[d]
    BY <1>1, <1>3, <1>4 DEF TypeOK, Labels
  <1>6. InvOf(c)' = InvOf(c) /\ Op(c)' = Op(c)
    BY <1>4, <1>5 DEF InvOf, Op
  <1> QED
    BY <1>2, <1>3, <1>4, <1>5, <1>6

\* A step of a thread that goes on with an invitation v it has just changed.
LEMMA ContinueStep ==
    ASSUME JeuxInvariant, NEW c \in Clients, pc[c] = "do", Continue(c),
           UNCHANGED <<open, player, list, posted>>,
           NEW v \in Invs, v = InvOf(c),
           NEW new \in Invitation, inv' = [inv EXCEPT ![v] = new],
           new.source = inv[v].source, new.target = inv[v].target, new.refs = inv[v].refs,
           inv[v].state = "closed" => new.state = "closed",
           Op(c) \in Closers => new.state = "closed",
           NEW gs \in Seq(Outcome), games' = [games EXCEPT ![v] = gs],
           new.game = Len(gs), Len(gs) >= Len(games[v]),
           inv[v].target = c \/ new.game = inv[v].game
    PROVE  JeuxInvariant'
  <1>1. /\ inv[v] # NULL /\ inv[v] \in Invitation /\ TypeOK
    BY WorksOn DEF JeuxInvariant
  <1>2. /\ inv' \in [Invs -> Invitation \cup {NULL}] /\ inv'[v] = new /\ new # NULL
        /\ \A u \in Invs \ {v} : inv'[u] = inv[u]
    BY <1>1, NullAssumption DEF TypeOK
  <1>3. /\ games' \in [Invs -> Seq(Outcome)] /\ games'[v] = gs
        /\ \A u \in Invs \ {v} : games'[u] = games[u]
    BY <1>1 DEF TypeOK
  <1>4. /\ pc' \in [Clients -> Labels] /\ work' \in [Clients -> Work] /\ next' = next
        /\ pc'[c] = "todo" /\ InvOf(c)' = v /\ Op(c)' = Op(c)
        /\ work'[c].game = work[c].game
        /\ ToDoOK(work'[c].todo, Parties(v))
        /\ \A d \in Clients \ {c} : pc'[d] = pc[d] /\ work'[d] = work[d] /\ next'[d] = next[d]
    BY ContinueIsOK
  <1>5. TypeOK'
    BY <1>1, <1>2, <1>3, <1>4 DEF TypeOK, Labels
  <1>6. \A u \in Invs : inv[u] # NULL =>
            /\ inv'[u] # NULL
            /\ inv'[u].source = inv[u].source /\ inv'[u].target = inv[u].target
            /\ inv[u].state = "closed" => inv'[u].state = "closed"
            /\ (u = v /\ inv[u].target = c) \/ inv'[u].game = inv[u].game
    BY <1>2
  <1>7. /\ ListsAreProper'
        /\ \A d \in Clients, u \in Invs : Holds(d, u)' <=> Holds(d, u)
        /\ \A u \in Invs : inv[u] # NULL => InLists(u)' = InLists(u)
    BY <1>6, ListsKept
  <1>8. InvitationsOK'
    <2> SUFFICES ASSUME NEW u \in Invs
                 PROVE  /\ inv'[u] = NULL => games'[u] = << >> /\ posted'[u] = 0
                        /\ inv'[u] # NULL => /\ inv'[u].source # inv'[u].target
                                             /\ inv'[u].game = Len(games'[u])
                                             /\ inv'[u].refs >= InLists(u)'
      BY DEF InvitationsOK
    <2>1. CASE u = v
      BY <1>1, <1>2, <1>3, <1>7, <2>1 DEF JeuxInvariant, InvitationsOK
    <2>2. CASE u # v
      BY <1>2, <1>3, <1>7, <2>2 DEF JeuxInvariant, InvitationsOK
    <2> QED
      BY <2>1, <2>2
  <1>9. ThreadOK(c)
    BY DEF JeuxInvariant
  <1>10. Parties(v)' = Parties(v)
    BY <1>2 DEF Parties
  <1>11. Op(c) = "move" => work[c].game \in 1..Len(gs)
    <2>1. Len(gs) \in Nat /\ Len(games[v]) \in Nat
      BY <1>1 DEF TypeOK
    <2>2. Op(c) = "move" => work[c].game \in 1..Len(games[v])
      BY <1>9 DEF ThreadOK
    <2> QED
      BY <2>1, <2>2
  <1>12. ThreadOK(c)'
    BY <1>2, <1>3, <1>4, <1>9, <1>10, <1>11, ObjectsAssumption DEF ThreadOK
  <1>13. \A u \in Invs : Len(games[u]) <= Len(games'[u])
    BY <1>1, <1>3 DEF TypeOK
  <1> QED
    BY <1>4, <1>5, <1>6, <1>7, <1>8, <1>12, <1>13, SharedStep

\* An invitation is closed, with its game if there is one, and the calls that
\* remove it from both lists are left.
LEMMA CloseStep ==
    ASSUME JeuxInvariant, NEW c \in Clients, Close(c)
    PROVE  JeuxInvariant'
  <1>1. pc[c] = "do" /\ Op(c) \in Closers /\ UNCHANGED <<open, player, list, posted>>
    BY DEF Close, Closers
  <1>2. PICK v \in Invs : v = InvOf(c) /\ inv[v] # NULL /\ inv[v] \in Invitation
                          /\ inv[v].game = Len(games[v])
    BY <1>1, WorksOn
  <1>3. CASE Done(c, FALSE) /\ UNCHANGED <<inv, games>>
    BY <1>1, <1>3, DoneStep DEF shared
  <1>4. CASE /\ inv' = [inv EXCEPT ![v].state = "closed"]
             /\ games' = IF inv[v].state = "accepted"
                         THEN [games EXCEPT ![v][inv[v].game] = AfterResign(@, Role(c, v))]
                         ELSE games
             /\ Continue(c)
    <2> DEFINE new == [inv[v] EXCEPT !.state = "closed"]
               g == inv[v].game
               gs == IF inv[v].state = "accepted"
                     THEN [games[v] EXCEPT ![g] = AfterResign(@, Role(c, v))] ELSE games[v]
    <2>1. /\ new \in Invitation /\ new.state = "closed" /\ new.source = inv[v].source
          /\ new.target = inv[v].target /\ new.refs = inv[v].refs /\ new.game = inv[v].game
      BY <1>2 DEF Invitation, States
    <2>2. inv' = [inv EXCEPT ![v] = new]
      BY <1>4
    <2>3. games[v] \in Seq(Outcome) /\ games \in [Invs -> Seq(Outcome)]
      BY DEF JeuxInvariant, TypeOK
    <2>4. gs \in Seq(Outcome) /\ Len(gs) = Len(games[v])
      <3>1. CASE inv[v].state = "accepted" /\ g \in 1..Len(games[v])
        <4>1. games[v][g] \in Outcome
          BY <2>3, <3>1
        <4>2. AfterResign(games[v][g], Role(c, v)) \in Outcome
          BY <4>1 DEF AfterResign, Ended, Opponent, Outcome, GameRole, PlayerRole, NULL_ROLE,
                      FIRST_PLAYER_ROLE, SECOND_PLAYER_ROLE
        <4> QED
          BY <2>3, <3>1, <4>2, ExceptSeq
      <3>2. CASE inv[v].state = "accepted" /\ g \notin 1..Len(games[v])
        <4>1. gs = games[v]
          BY <2>3, <3>2, LenProperties
        <4> QED
          BY <2>3, <4>1
      <3>3. CASE inv[v].state # "accepted"
        BY <2>3, <3>3
      <3> QED
        BY <3>1, <3>2, <3>3
    <2>5. games' = [games EXCEPT ![v] = gs]
      BY <1>4, <2>3
    <2>6. Len(games[v]) \in Nat
      BY <2>3
    <2> HIDE DEF new, gs
    <2>7. /\ pc[c] = "do" /\ Continue(c) /\ UNCHANGED <<open, player, list, posted>>
          /\ v = InvOf(c) /\ new \in Invitation /\ inv' = [inv EXCEPT ![v] = new]
          /\ new.source = inv[v].source /\ new.target = inv[v].target
          /\ new.refs = inv[v].refs /\ new.state = "closed"
          /\ gs \in Seq(Outcome) /\ games' = [games EXCEPT ![v] = gs]
          /\ new.game = Len(gs) /\ Len(gs) >= Len(games[v]) /\ new.game = inv[v].game
      <3>1. new.game = Len(gs) /\ Len(gs) >= Len(games[v]) /\ new.game = inv[v].game
        BY <1>2, <2>1, <2>4, <2>6
      <3> QED
        BY <1>1, <1>2, <1>4, <2>1, <2>2, <2>4, <2>5, <3>1
    <2> QED
      BY <2>7, ContinueStep
  <1> QED
    BY <1>2, <1>3, <1>4 DEF Close

\* The target's thread is the only one that accepts, so the game number it
\* checked is still the current one.
LEMMA AcceptStep ==
    ASSUME JeuxInvariant, NEW c \in Clients, Accept(c)
    PROVE  JeuxInvariant'
  <1>1. pc[c] = "do" /\ Op(c) = "accept" /\ UNCHANGED <<open, player, list, posted>>
    BY DEF Accept
  <1>2. PICK v \in Invs : v = InvOf(c) /\ inv[v] # NULL /\ inv[v] \in Invitation
                          /\ inv[v].game = Len(games[v])
                          /\ inv[v].target = c /\ inv[v].game < MaxGames
    BY <1>1, WorksOn DEF JeuxInvariant, ThreadOK
  <1>3. CASE Done(c, FALSE) /\ UNCHANGED <<inv, games>>
    BY <1>1, <1>3, DoneStep DEF shared
  <1>4. CASE /\ games' = [games EXCEPT ![v] = Append(@, NewOutcome)]
             /\ inv' = [inv EXCEPT ![v].game = @ + 1]
             /\ Continue(c)
    <2> DEFINE new == [inv[v] EXCEPT !.game = @ + 1]
               gs == Append(games[v], NewOutcome)
    <2>1. /\ new \in Invitation /\ new.state = inv[v].state /\ new.source = inv[v].source
          /\ new.target = inv[v].target /\ new.refs = inv[v].refs /\ new.game = inv[v].game + 1
      BY <1>2, SizesAssumption DEF Invitation
    <2>2. inv' = [inv EXCEPT ![v] = new] /\ games' = [games EXCEPT ![v] = gs]
      BY <1>4
    <2>3. games[v] \in Seq(Outcome) /\ NewOutcome \in Outcome
      BY DEF JeuxInvariant, TypeOK, NewOutcome, Outcome, GameRole, PlayerRole, NULL_ROLE,
             FIRST_PLAYER_ROLE
    <2>4. gs \in Seq(Outcome) /\ Len(gs) = Len(games[v]) + 1 /\ Len(games[v]) \in Nat
      BY <2>3
    <2>5. Op(c) \notin Closers
      BY <1>1 DEF Closers
    <2> HIDE DEF new, gs
    <2>6. /\ pc[c] = "do" /\ Continue(c) /\ UNCHANGED <<open, player, list, posted>>
          /\ v = InvOf(c) /\ new \in Invitation /\ inv' = [inv EXCEPT ![v] = new]
          /\ new.source = inv[v].source /\ new.target = inv[v].target
          /\ new.refs = inv[v].refs /\ new.state = inv[v].state /\ Op(c) \notin Closers
          /\ gs \in Seq(Outcome) /\ games' = [games EXCEPT ![v] = gs]
          /\ new.game = Len(gs) /\ Len(gs) >= Len(games[v]) /\ inv[v].target = c
      <3>1. new.game = Len(gs) /\ Len(gs) >= Len(games[v])
        BY <1>2, <2>1, <2>4
      <3> QED
        BY <1>1, <1>2, <1>4, <2>1, <2>2, <2>4, <2>5, <3>1
    <2> QED
      BY <2>6, ContinueStep
  <1> QED
    BY <1>2, <1>3, <1>4 DEF Accept

\* A move changes the game that Check read, which is still one of the
\* invitation's games.
LEMMA MoveStep ==
    ASSUME JeuxInvariant, NEW c \in Clients, Move(c)
    PROVE  JeuxInvariant'
  <1>1. pc[c] = "do" /\ Op(c) = "move" /\ UNCHANGED <<open, player, list, inv, posted>>
    BY DEF Move
  <1>2. PICK v \in Invs : v = InvOf(c) /\ inv[v] # NULL /\ inv[v] \in Invitation
                          /\ inv[v].game = Len(games[v])
    BY <1>1, WorksOn
  <1>3. CASE Done(c, FALSE) /\ UNCHANGED games
    BY <1>1, <1>3, DoneStep DEF shared
  <1>4. ASSUME NEW o \in AfterMove(GameOf(v, work[c].game), Role(c, v)),
               games' = [games EXCEPT ![v][work[c].game] = o], Continue(c)
        PROVE  JeuxInvariant'
    <2> DEFINE g == work[c].game
               gs == [games[v] EXCEPT ![g] = o]
    <2>1. /\ games \in [Invs -> Seq(Outcome)] /\ games[v] \in Seq(Outcome)
          /\ inv \in [Invs -> Invitation \cup {NULL}]
      BY DEF JeuxInvariant, TypeOK
    <2>2. g \in 1..Len(games[v])
      BY <1>1, <1>2 DEF JeuxInvariant, ThreadOK
    <2>3. o \in Outcome
      <3>1. games[v][g] \in Outcome
        BY <2>1, <2>2
      <3>2. Role(c, v) \in PlayerRole
        BY <1>2 DEF Invitation, Role, Opponent, PlayerRole
      <3>3. PICK r \in Outcome, role \in PlayerRole : o \in AfterMove(r, role)
        BY <1>4, <3>1, <3>2 DEF GameOf
      <3>4. /\ r.isOver \in BOOLEAN /\ r.winner \in GameRole
            /\ role \in GameRole /\ NULL_ROLE \in GameRole /\ Opponent(role) \in GameRole
        BY DEF Outcome, Opponent, PlayerRole, GameRole
      <3>5. /\ [turn |-> Opponent(role), isOver |-> r.isOver, winner |-> r.winner] \in Outcome
            /\ Ended(role) \in Outcome /\ Ended(NULL_ROLE) \in Outcome
        BY <3>4, Zenon DEF Outcome, Ended
      <3> QED
        BY <3>3, <3>5 DEF AfterMove
    <2>4. gs \in Seq(Outcome) /\ Len(gs) = Len(games[v]) /\ Len(games[v]) \in Nat
      BY <2>1, <2>2, <2>3, ExceptSeq
    <2>5. games' = [games EXCEPT ![v] = gs] /\ inv' = [inv EXCEPT ![v] = inv[v]]
      BY <1>1, <1>4, <2>1
    <2>6. Op(c) \notin Closers
      BY <1>1 DEF Closers
    <2> HIDE DEF gs
    <2>7. /\ pc[c] = "do" /\ Continue(c) /\ UNCHANGED <<open, player, list, posted>>
          /\ v = InvOf(c) /\ inv[v] \in Invitation /\ inv' = [inv EXCEPT ![v] = inv[v]]
          /\ Op(c) \notin Closers
          /\ gs \in Seq(Outcome) /\ games' = [games EXCEPT ![v] = gs]
          /\ inv[v].game = Len(gs) /\ Len(gs) >= Len(games[v])
      <3>1. inv[v].game = Len(gs) /\ Len(gs) >= Len(games[v])
        BY <1>2, <2>4
      <3> QED
        BY <1>1, <1>2, <1>4, <2>4, <2>5, <2>6, <3>1
    <2> QED
      BY <2>7, ContinueStep
  <1> QED
    BY <1>1, <1>2, <1>3, <1>4 DEF Move

\* An invitation is taken from the one slot it is in.
LEMMA HoldsAfterRemove ==
    ASSUME JeuxInvariant, NEW x \in Clients, NEW i \in Slots, NEW v \in Invs,
           NEW c \in Clients, Removes(c, x, v, i)
    PROVE  /\ list' \in [Clients -> [Slots -> Invs \cup {NULL}]]
           /\ Holds(x, v)
           /\ \A d \in Clients, w \in Invs : Holds(d, w)' <=> Holds(d, w) /\ ~(d = x /\ w = v)
           /\ \A d \in Clients, j \in Slots : list'[d][j] # NULL => list'[d][j] = list[d][j]
  <1>1. /\ list \in [Clients -> [Slots -> Invs \cup {NULL}]]
        /\ list[x][i] = v /\ list' = [list EXCEPT ![x][i] = NULL]
    BY DEF JeuxInvariant, TypeOK, Removes
  <1>2. \A d \in Clients, j \in Slots :
            list'[d][j] = IF d = x /\ j = i THEN NULL ELSE list[d][j]
    BY <1>1
  <1>3. list' \in [Clients -> [Slots -> Invs \cup {NULL}]]
    BY <1>1
  <1>4. Holds(x, v) /\ \A j \in Slots : list[x][j] = v => j = i
    <2>1. Holds(x, v)
      BY <1>1 DEF Holds
    <2>2. \A j, k \in Slots : list[x][j] = v /\ list[x][k] = v => j = k
      BY <2>1, HeldIsAllocated
    <2> QED
      BY <1>1, <2>1, <2>2
  <1>5. ASSUME NEW d \in Clients, NEW w \in Invs
        PROVE  Holds(d, w)' <=> Holds(d, w) /\ ~(d = x /\ w = v)
    <2>1. ASSUME Holds(d, w)' PROVE Holds(d, w) /\ ~(d = x /\ w = v)
      BY <1>2, <1>4, <2>1, ObjectsAssumption DEF Holds
    <2>2. ASSUME Holds(d, w), ~(d = x /\ w = v) PROVE Holds(d, w)'
      <3>1. PICK j \in Slots : list[d][j] = w
        BY <2>2 DEF Holds
      <3>2. ~(d = x /\ j = i)
        BY <1>1, <2>2, <3>1
      <3>3. list'[d][j] = w
        BY <1>2, <3>1, <3>2
      <3> QED
        BY <3>3 DEF Holds
    <2> QED
      BY <2>1, <2>2
  <1> QED
    BY <1>2, <1>3, <1>4, <1>5

\* The lists of calls and the objects after that step.
LEMMA RemoveIs ==
    ASSUME JeuxInvariant, NEW c \in Clients, NEW x \in Clients, NEW v \in Invs, NEW i \in Slots,
           At(c, "remove"), Removes(c, x, v, i)
    PROVE  /\ Holds(x, v) /\ x \in Parties(v) /\ inv[v] # NULL /\ inv[v] \in Invitation
           /\ list' \in [Clients -> [Slots -> Invs \cup {NULL}]]
           /\ \A d \in Clients, w \in Invs : Holds(d, w)' <=> Holds(d, w) /\ ~(d = x /\ w = v)
           /\ \A d \in Clients, j \in Slots : list'[d][j] # NULL => list'[d][j] = list[d][j]
           /\ inv' \in [Invs -> Invitation \cup {NULL}] /\ inv'[v] # NULL
           /\ inv'[v] = [inv[v] EXCEPT !.refs = @ - 1]
           /\ \A u \in Invs \ {v} : inv'[u] = inv[u]
           /\ pc' = pc /\ next' = next /\ work' \in [Clients -> Work]
           /\ InvOf(c)' = v /\ Op(c)' = Op(c) /\ work'[c].game = work[c].game
           /\ work'[c].todo = Tail(work[c].todo)
           /\ ToDoOK(work'[c].todo, Parties(v))
           /\ \A d \in Clients \ {c} : work'[d] = work[d]
  <1>1. /\ pc[c] = "todo" /\ work[c].todo # << >> /\ inv[v] # NULL
        /\ v = InvOf(c) /\ x \in Parties(v) /\ TypeOK
    BY CallIs DEF Removes, JeuxInvariant
  <1>2. /\ list' \in [Clients -> [Slots -> Invs \cup {NULL}]]
        /\ Holds(x, v)
        /\ \A d \in Clients, w \in Invs : Holds(d, w)' <=> Holds(d, w) /\ ~(d = x /\ w = v)
        /\ \A d \in Clients, j \in Slots : list'[d][j] # NULL => list'[d][j] = list[d][j]
    BY HoldsAfterRemove
  <1>3. inv[v] \in Invitation /\ inv[v].refs >= 1 /\ inv[v].refs \in Nat
    <2>1. inv[v] \in Invitation /\ inv[v].refs >= InLists(v)
      BY <1>1 DEF TypeOK, JeuxInvariant, InvitationsOK
    <2>2. InLists(v) >= 1 /\ InLists(v) \in Nat
      BY <1>1, <1>2 DEF InLists, Parties
    <2> QED
      BY <2>1, <2>2 DEF Invitation
  <1> DEFINE new == [inv[v] EXCEPT !.refs = @ - 1]
             w == [work[c] EXCEPT !.todo = Tail(@)]
  <1>4. new \in Invitation
    BY <1>3 DEF Invitation
  <1>5. inv' = [inv EXCEPT ![v] = new]
    BY DEF Removes
  <1>6. /\ inv' \in [Invs -> Invitation \cup {NULL}] /\ inv'[v] # NULL /\ inv'[v] = new
        /\ \A u \in Invs \ {v} : inv'[u] = inv[u]
    <2> HIDE DEF new
    <2> QED
      BY <1>1, <1>4, <1>5, NullAssumption DEF TypeOK
  <1>7. /\ w \in Work /\ w.op = Op(c) /\ w.inv = v /\ w.game = work[c].game
        /\ w.todo = Tail(work[c].todo) /\ ToDoOK(w.todo, Parties(v))
    BY <1>1, PopIsOK
  <1>8. work' = [work EXCEPT ![c] = w] /\ pc' = pc /\ next' = next
    BY DEF Removes, Pop
  <1> HIDE DEF w
  <1>9. /\ work' \in [Clients -> Work] /\ work'[c] = w
        /\ \A d \in Clients \ {c} : work'[d] = work[d]
    BY <1>1, <1>7, <1>8 DEF TypeOK
  <1>10. InvOf(c)' = v /\ Op(c)' = Op(c)
    BY <1>7, <1>9 DEF InvOf, Op
  <1> QED
    BY <1>1, <1>2, <1>3, <1>6, <1>7, <1>8, <1>9, <1>10

\* Where RemoveFrom can end.
LEMMA RemoveCases ==
    ASSUME JeuxInvariant, NEW c \in Clients, RemoveFrom(c)
    PROVE  \/ Done(c, FALSE) /\ UNCHANGED shared
                /\ ~Holds(Who(c), InvOf(c))
           \/ Fault("remove") /\ UNCHANGED shared
           \/ \E x \in Clients, v \in Invs, i \in Slots : Removes(c, x, v, i)
  <1>1. At(c, "remove") /\ UNCHANGED <<open, player, games, posted>>
    BY DEF RemoveFrom
  <1>2. PICK x \in Clients, v \in Invs : x = Who(c) /\ v = InvOf(c)
    BY <1>1, CallIs
  <1> DEFINE stop == {i \in Slots : list[x][i] \in {NULL, v}}
  <1>3. CASE stop = {} /\ Done(c, FALSE) /\ UNCHANGED <<list, inv>>
    <2>1. ~Holds(x, v)
      BY <1>3 DEF Holds
    <2> QED
      BY <1>1, <1>2, <1>3, <2>1 DEF shared
  <1>4. ASSUME NEW i \in stop, list[x][i] = NULL, Fault("remove"), UNCHANGED <<list, inv>>
        PROVE  Fault("remove") /\ UNCHANGED shared
    BY <1>1, <1>4 DEF shared
  <1>5. ASSUME NEW i \in stop, list[x][i] # NULL, list' = [list EXCEPT ![x][i] = NULL],
               inv' = [inv EXCEPT ![v].refs = @ - 1], Pop(c)
        PROVE  \E j \in Slots : Removes(c, x, v, j)
    <2>1. i \in Slots /\ list[x][i] = v
      BY <1>5
    <2> QED
      BY <1>1, <1>2, <1>5, <2>1 DEF Removes
  <1> QED
    BY <1>2, <1>3, <1>4, <1>5 DEF RemoveFrom

\* Taking the invitation out of a list leaves the other entries alone.
LEMMA RemovesStep ==
    ASSUME JeuxInvariant, NEW c \in Clients, NEW x \in Clients, NEW v \in Invs, NEW i \in Slots,
           At(c, "remove"), Removes(c, x, v, i)
    PROVE  JeuxInvariant'
  <1>1. /\ Holds(x, v) /\ x \in Parties(v) /\ inv[v] # NULL /\ inv[v] \in Invitation
        /\ list' \in [Clients -> [Slots -> Invs \cup {NULL}]]
        /\ \A d \in Clients, w \in Invs : Holds(d, w)' <=> Holds(d, w) /\ ~(d = x /\ w = v)
        /\ \A d \in Clients, j \in Slots : list'[d][j] # NULL => list'[d][j] = list[d][j]
    BY RemoveIs
  <1>2. /\ inv' \in [Invs -> Invitation \cup {NULL}] /\ inv'[v] # NULL
        /\ inv'[v] = [inv[v] EXCEPT !.refs = @ - 1]
        /\ \A u \in Invs \ {v} : inv'[u] = inv[u]
    BY RemoveIs
  <1>3. /\ pc' = pc /\ next' = next /\ work' \in [Clients -> Work]
        /\ InvOf(c)' = v /\ Op(c)' = Op(c) /\ work'[c].game = work[c].game
        /\ ToDoOK(work'[c].todo, Parties(v))
        /\ \A d \in Clients \ {c} : work'[d] = work[d]
    BY RemoveIs
  <1>4. /\ v = InvOf(c) /\ UNCHANGED <<open, player, games, posted>> /\ TypeOK
        /\ pc[c] = "todo" /\ ThreadOK(c)
    BY DEF Removes, JeuxInvariant, At
  <1>5. /\ inv'[v].source = inv[v].source /\ inv'[v].target = inv[v].target
        /\ inv'[v].game = inv[v].game /\ inv'[v].state = inv[v].state
        /\ inv'[v].refs = inv[v].refs - 1
    BY <1>1, <1>2 DEF Invitation
  <1>6. TypeOK'
    BY <1>1, <1>2, <1>3, <1>4 DEF TypeOK
  <1>7. \A u \in Invs : inv[u] # NULL =>
            /\ inv'[u] # NULL /\ inv'[u].game = inv[u].game
            /\ inv'[u].source = inv[u].source /\ inv'[u].target = inv[u].target
            /\ inv[u].state = "closed" => inv'[u].state = "closed"
    BY <1>2, <1>5
  <1>8. ListsAreProper'
    <2> SUFFICES ASSUME NEW d \in Clients, NEW j \in Slots, list'[d][j] # NULL
                 PROVE  /\ inv'[list'[d][j]] # NULL
                        /\ d \in {inv'[list'[d][j]].source, inv'[list'[d][j]].target}
                        /\ \A h \in Slots : list'[d][h] = list'[d][j] => j = h
      BY DEF ListsAreProper
    <2>1. /\ list'[d][j] = list[d][j] /\ list[d][j] \in Invs
          /\ \A h \in Slots : list'[d][h] = list'[d][j] => list[d][h] = list[d][j]
      BY <1>1, <1>4 DEF TypeOK
    <2> QED
      BY <1>7, <2>1 DEF JeuxInvariant, ListsAreProper
  <1>9. InvitationsOK'
    <2> SUFFICES ASSUME NEW u \in Invs
                 PROVE  /\ inv'[u] = NULL => games'[u] = << >> /\ posted'[u] = 0
                        /\ inv'[u] # NULL => /\ inv'[u].source # inv'[u].target
                                             /\ inv'[u].game = Len(games'[u])
                                             /\ inv'[u].refs >= InLists(u)'
      BY DEF InvitationsOK
    <2>1. CASE u = v
      <3>1. inv[v].source \in Clients /\ inv[v].target \in Clients /\ inv[v].refs \in Nat
        BY <1>1 DEF Invitation
      <3>2. inv[v].source # inv[v].target /\ inv[v].refs >= InLists(v)
            /\ inv[v].game = Len(games[v])
        BY <1>1 DEF JeuxInvariant, InvitationsOK
      <3>3. InLists(v)' = InLists(v) - 1
        <4>1. /\ InLists(v)' = (IF Holds(inv[v].source, v)' THEN 1 ELSE 0)
                             + (IF Holds(inv[v].target, v)' THEN 1 ELSE 0)
          BY <1>5 DEF InLists, Holds
        <4>2. PICK s \in Clients, t \in Clients : s = inv[v].source /\ t = inv[v].target
          BY <3>1
        <4>3. /\ Holds(inv[v].source, v)' <=> Holds(s, v)'
              /\ Holds(inv[v].target, v)' <=> Holds(t, v)'
          BY <1>5, <4>2 DEF Holds
        <4>4. InLists(v)' = (IF Holds(s, v)' THEN 1 ELSE 0) + (IF Holds(t, v)' THEN 1 ELSE 0)
          BY <1>5, <4>2 DEF InLists, Holds
        <4>5. x \in {s, t} /\ s # t
              /\ InLists(v) = (IF Holds(s, v) THEN 1 ELSE 0) + (IF Holds(t, v) THEN 1 ELSE 0)
          BY <1>1, <3>2, <4>2 DEF Parties, InLists
        <4> QED
          BY <1>1, <4>4, <4>5
      <3>4. InLists(v) \in Nat
        BY DEF InLists
      <3>5. inv'[v].refs >= InLists(v)'
        BY <1>5, <3>1, <3>2, <3>3, <3>4
      <3> QED
        BY <1>2, <1>4, <1>5, <2>1, <3>2, <3>5
    <2>2. CASE u # v
      <3>1. inv'[u] = inv[u] /\ games'[u] = games[u] /\ posted'[u] = posted[u]
        BY <1>2, <1>4, <2>2
      <3>2. ASSUME inv[u] # NULL PROVE InLists(u)' = InLists(u)
        <4>1. inv[u].source \in Clients /\ inv[u].target \in Clients
          BY <1>4, <3>2 DEF TypeOK, Invitation
        <4> QED
          BY <1>1, <2>2, <3>1, <4>1 DEF InLists
      <3> QED
        BY <3>1, <3>2 DEF JeuxInvariant, InvitationsOK
    <2> QED
      BY <2>1, <2>2
  <1>10. ThreadOK(c)'
    <2>1. Parties(v)' = Parties(v)
      BY <1>5 DEF Parties
    <2> QED
      BY <1>2, <1>3, <1>4, <1>5, <2>1, ObjectsAssumption DEF ThreadOK
  <1>11. \A u \in Invs : Len(games[u]) <= Len(games'[u])
    BY <1>4 DEF TypeOK
  <1>12. \A d \in Clients \ {c} : pc'[d] = pc[d] /\ work'[d] = work[d] /\ next'[d] = next[d]
    BY <1>3
  <1> QED
    BY <1>1, <1>3, <1>4, <1>6, <1>7, <1>8, <1>9, <1>10, <1>11, <1>12, SharedStep

\* client_remove_invitation.
LEMMA RemoveStep ==
    ASSUME JeuxInvariant, NEW c \in Clients, RemoveFrom(c)
    PROVE  JeuxInvariant'
  <1>1. At(c, "remove")
    BY DEF RemoveFrom
  <1>2. Fault("remove") /\ UNCHANGED shared => JeuxInvariant'
    BY FaultStep DEF Fault
  <1>3. Done(c, FALSE) /\ UNCHANGED shared => JeuxInvariant'
    BY DoneStep
  <1> QED
    BY <1>1, <1>2, <1>3, RemoveCases, RemovesStep

-------------------------------------------------------------------------------
\* The invariant holds.

\* player_post_result counts for the invitation and for nothing else.
LEMMA PostStep ==
    ASSUME JeuxInvariant, NEW c \in Clients, Post(c)
    PROVE  JeuxInvariant'
  <1>1. At(c, "post") /\ UNCHANGED <<open, player, list, inv, games>>
    BY DEF Post
  <1>2. PICK v \in Invs : /\ v = InvOf(c) /\ inv[v] # NULL /\ pc[c] = "todo"
                          /\ work[c].todo # << >>
    BY <1>1, CallIs
  <1>3. CASE Fault("no player") /\ UNCHANGED posted
    BY <1>1, <1>3, FaultStep DEF Fault, shared
  <1>4. CASE posted' = [posted EXCEPT ![v] = @ + 1] /\ Pop(c)
    <2> DEFINE w == [work[c] EXCEPT !.todo = Tail(@)]
    <2>1. /\ w \in Work /\ w.op = Op(c) /\ w.inv = v /\ w.game = work[c].game
          /\ ToDoOK(w.todo, Parties(v))
      BY <1>2, PopIsOK
    <2>2. work' = [work EXCEPT ![c] = w] /\ pc' = pc /\ next' = next
      BY <1>4 DEF Pop
    <2> HIDE DEF w
    <2>3. TypeOK /\ ThreadOK(c)
      BY DEF JeuxInvariant
    <2>4. /\ work' \in [Clients -> Work] /\ work'[c] = w
          /\ \A d \in Clients \ {c} : pc'[d] = pc[d] /\ work'[d] = work[d] /\ next'[d] = next[d]
      BY <2>1, <2>2, <2>3 DEF TypeOK
    <2>5. posted' \in [Invs -> Nat] /\ \A u \in Invs \ {v} : posted'[u] = posted[u]
      BY <1>4, <2>3 DEF TypeOK
    <2>6. TypeOK'
      BY <1>1, <2>2, <2>3, <2>4, <2>5 DEF TypeOK
    <2>7. /\ ListsAreProper'
          /\ \A d \in Clients, u \in Invs : Holds(d, u)' <=> Holds(d, u)
          /\ \A u \in Invs : inv[u] # NULL => InLists(u)' = InLists(u)
      BY <1>1, ListsKept
    <2>8. InvitationsOK'
      BY <1>1, <1>2, <2>5, <2>7 DEF JeuxInvariant, InvitationsOK
    <2>9. InvOf(c)' = v /\ Op(c)' = Op(c)
      BY <2>1, <2>4 DEF InvOf, Op
    <2>10. ThreadOK(c)'
      <3>1. Parties(v)' = Parties(v)
        BY <1>1 DEF Parties
      <3> QED
        BY <1>1, <1>2, <2>1, <2>2, <2>3, <2>4, <2>9, <3>1 DEF ThreadOK
    <2>11. \A u \in Invs : Len(games[u]) <= Len(games'[u])
      BY <1>1, <2>3 DEF TypeOK
    <2> QED
      BY <1>1, <1>2, <2>2, <2>4, <2>6, <2>7, <2>8, <2>9, <2>10, <2>11, SharedStep
  <1> QED
    BY <1>2, <1>3, <1>4 DEF Post

\* A connection that goes down changes nothing at the server yet.
LEMMA DisconnectStep ==
    ASSUME JeuxInvariant, NEW c \in Clients, Disconnect(c)
    PROVE  JeuxInvariant'
  <1>1. UNCHANGED <<player, list, inv, games, posted, pc, work, next>> /\ open' \subseteq Clients
    BY DEF Disconnect, JeuxInvariant, TypeOK
  <1>2. TypeOK' /\ ListsAreProper' /\ InvitationsOK' /\ OffersApart'
    BY <1>1 DEF JeuxInvariant, TypeOK, ListsAreProper, InvitationsOK, InLists, Holds,
                OffersApart, InvOf
  <1>3. ASSUME NEW d \in Clients PROVE ThreadOK(d)'
    <2>1. ThreadOK(d)
      BY DEF JeuxInvariant
    <2>2. /\ InvOf(d)' = InvOf(d) /\ Op(d)' = Op(d)
          /\ Parties(InvOf(d))' = Parties(InvOf(d))
      BY <1>1 DEF InvOf, Op, Parties
    <2> QED
      BY <1>1, <2>1, <2>2 DEF ThreadOK, Holds
  <1> QED
    BY <1>2, <1>3 DEF JeuxInvariant

\* Every step of a thread preserves the invariant ...
LEMMA ThreadStep ==
    ASSUME JeuxInvariant, NEW c \in Clients, Thread(c)
    PROVE  JeuxInvariant'
  <1>1. CASE ListFull(c)
    BY <1>1, FaultStep DEF ListFull, Fault
  <1>2. CASE Finish(c)
    BY <1>2, DoneStep DEF Finish
  <1>3. CASE \/ Check(c) \/ Close(c) \/ Accept(c) \/ Move(c)
    BY <1>3, CheckStep, CloseStep, AcceptStep, MoveStep
  <1>4. CASE RemoveFrom(c) \/ SendTo(c) \/ FindIn(c) \/ ReadId(c)
    BY <1>4, RemoveStep, SendStep, FindStep, ReadStep
  <1>5. CASE SeeOver(c) \/ Post(c) \/ Reply(c) \/ Eof(c)
    BY <1>5, SeeOverStep, PostStep, ReplyStep, EofStep
  <1>6. CASE Scan(c) \/ Visit(c) \/ Pick(c) \/ Search(c)
    BY <1>6, ScanStep, VisitStep, PickStep, SearchStep
  <1>7. CASE Offer(c) \/ \E role \in PlayerRole : Create(c, role)
    BY <1>7, OfferStep, CreateStep
  <1> QED
    BY <1>1, <1>2, <1>3, <1>4, <1>5, <1>6, <1>7 DEF Thread

\* ... and so does every packet.
LEMMA PacketStep ==
    ASSUME JeuxInvariant, NEW c \in Clients, Packet(c)
    PROVE  JeuxInvariant'
  <1>1. ASSUME NEW op \in Requests, NEW i \in Slots, Request(c, op, IdOf(i))
        PROVE  JeuxInvariant'
    BY <1>1, BeginStep DEF Request
  <1> QED
    BY <1>1, InviteStep DEF Packet

\* JeuxInvariant is inductive.
LEMMA NextInvariant == JeuxInvariant /\ [Next]_vars => JeuxInvariant'
  <1> SUFFICES ASSUME JeuxInvariant, [Next]_vars PROVE JeuxInvariant'
    OBVIOUS
  <1>1. CASE UNCHANGED vars
    BY <1>1, FaultStep DEF vars
  <1>2. ASSUME NEW c \in Clients, Thread(c) \/ Packet(c) \/ Disconnect(c)
        PROVE  JeuxInvariant'
    BY <1>2, ThreadStep, PacketStep, DisconnectStep
  <1> QED
    BY <1>1, <1>2 DEF Next

\* The invariant holds always.
LEMMA InvariantHolds == Spec => []JeuxInvariant
  BY InitInvariant, NextInvariant, PTL DEF Spec

\* TypeOK: whatever the handlers (jeux.c, client.c) do, in any interleaving,
\* the lists, the invitations, the games and the threads stay what they are.
THEOREM TypeCorrect == Spec => []TypeOK
  <1>1. JeuxInvariant => TypeOK
    BY DEF JeuxInvariant
  <1> QED
    BY <1>1, InvariantHolds, PTL

\* ListsAreProper: a list of invitations (client.c) never holds one that is not
\* allocated, one of other clients, or the same one in two slots.
THEOREM ListsStayProper == Spec => []ListsAreProper
  <1>1. JeuxInvariant => ListsAreProper
    BY DEF JeuxInvariant
  <1> QED
    BY <1>1, InvariantHolds, PTL

-------------------------------------------------------------------------------
\* The steps that neither fill nor empty a slot, and post nothing.

\* A thread whose next call is not a removal has no half of a removal to do.
LEMMA NeedsNoneIf ==
    ASSUME JeuxInvariant, NEW c \in Clients,
           pc[c] = "todo" => work[c].todo = << >> \/ Head(work[c].todo).call # "remove"
    PROVE  NeedsNone(c)
  <1> SUFFICES ASSUME pc[c] = "todo", NEW x \in Parties(InvOf(c)), NEW y \in Parties(InvOf(c)),
                      HalfDone(c, x, y)
               PROVE  FALSE
    BY DEF NeedsNone
  <1> DEFINE q == work[c].todo
  <1>1. q \in Seq(ToDo) /\ ToDoOK(q, Parties(InvOf(c))) /\ In(q, Remove(x)) /\ ~In(q, Remove(y))
    BY DEF JeuxInvariant, TypeOK, Work, ThreadOK, HalfDone, Left
  <1>2. Parties(InvOf(c)) = {x, y}
    BY <1>1 DEF Parties
  <1> HIDE DEF q
  <1>3. q # << >> /\ Head(q) = Remove(x)
    BY <1>1, <1>2, LastRemovalIsNext
  <1> QED
    BY <1>3 DEF q, Remove

\* A request that is refused, and a handler that ends, leave nothing behind.
LEMMA DoneIsQuiet ==
    ASSUME JeuxInvariant, NEW c \in Clients, NEW ok, Done(c, ok),
           UNCHANGED <<list, posted>>, KeepsParties, pc[c] # "offer", NeedsNone(c)
    PROVE  Quiet(c)
  <1>1. /\ pc \in [Clients -> Labels] /\ work \in [Clients -> Work]
    BY DEF JeuxInvariant, TypeOK, Labels
  <1>2. PICK l \in {"reply", "scan", "gone"} :
            pc' = [pc EXCEPT ![c] = l] /\ work' = [work EXCEPT ![c] = NoWork]
    BY DEF Done, Go, Goto
  <1>3. pc'[c] = l /\ OthersWait(c)
    BY <1>1, <1>2 DEF OthersWait
  <1> QED
    BY <1>3 DEF Quiet

\* The steps in which a thread goes to a place where it has nothing to remove.
LEMMA MovesOnIsQuiet ==
    ASSUME JeuxInvariant, NEW c \in Clients, pc[c] \notin {"offer", "todo"},
           UNCHANGED <<list, posted>>, KeepsParties,
           NEW l \in Labels \ {"offer", "todo"}, pc' = [pc EXCEPT ![c] = l],
           NEW w, work' = [work EXCEPT ![c] = w]
    PROVE  Quiet(c)
  <1>1. /\ pc \in [Clients -> Labels] /\ work \in [Clients -> Work]
    BY DEF JeuxInvariant, TypeOK, Labels
  <1>2. pc'[c] = l /\ OthersWait(c) /\ NeedsNone(c)
    BY <1>1 DEF OthersWait, NeedsNone
  <1> QED
    BY <1>2 DEF Quiet

\* The steps in which it goes on with the calls that are left.
LEMMA GoesOnIsQuiet ==
    ASSUME JeuxInvariant, NEW c \in Clients, pc[c] = "todo", pc' = pc,
           UNCHANGED <<list, inv, posted>>, NeedsNone(c),
           NEW w \in Work, work' = [work EXCEPT ![c] = w], w.op = Op(c), w.inv = InvOf(c),
           \A x, y \in Parties(InvOf(c)) :
              In(w.todo, Remove(x)) /\ ~In(w.todo, Remove(y)) => HalfDone(c, x, y),
           \A x \in Parties(InvOf(c)) :
              In(w.todo, PostCall) /\ ~In(w.todo, Remove(x)) =>
                  Left(c, PostCall) /\ ~Left(c, Remove(x)),
           \A x \in Parties(InvOf(c)) : Left(c, Remove(x)) => In(w.todo, Remove(x))
    PROVE  Quiet(c)
  <1>1. /\ pc \in [Clients -> Labels] /\ work \in [Clients -> Work]
    BY DEF JeuxInvariant, TypeOK, Labels
  <1>2. work'[c] = w /\ OthersWait(c) /\ KeepsParties /\ pc'[c] = "todo"
    BY <1>1 DEF OthersWait, KeepsParties
  <1>3. InvOf(c)' = InvOf(c) /\ Op(c)' = Op(c)
    BY <1>2 DEF InvOf, Op
  <1>4. \A call : Left(c, call)' <=> In(w.todo, call)
    BY <1>2 DEF Left
  <1>5. ASSUME NEW x \in Parties(InvOf(c)), NEW y \in Parties(InvOf(c)), HalfDone(c, x, y)'
        PROVE  HalfDone(c, x, y)
    <2>1. In(w.todo, Remove(x)) /\ ~In(w.todo, Remove(y))
      BY <1>2, <1>5 DEF HalfDone, Left
    <2> QED
      BY <2>1
  <1>6. ASSUME NEW x \in Parties(InvOf(c)), Left(c, PostCall)', ~Left(c, Remove(x))'
        PROVE  Left(c, PostCall) /\ ~Left(c, Remove(x))
    <2>1. In(w.todo, PostCall) /\ ~In(w.todo, Remove(x))
      BY <1>2, <1>6 DEF Left, PostCall
    <2> QED
      BY <2>1
  <1>7. ASSUME NEW x \in Parties(InvOf(c)), ~Left(c, Remove(x))' PROVE ~Left(c, Remove(x))
    <2>1. ~In(w.todo, Remove(x))
      BY <1>2, <1>7 DEF Left
    <2> QED
      BY <2>1
  <1>8. GoesOn(c)
    BY <1>3, <1>5, <1>6, <1>7 DEF GoesOn
  <1> QED
    BY <1>2, <1>8 DEF Quiet

\* A call other than a removal is done.
LEMMA PopIsQuiet ==
    ASSUME JeuxInvariant, NEW c \in Clients, pc[c] = "todo", work[c].todo # << >>,
           Head(work[c].todo).call # "remove", Pop(c), UNCHANGED <<list, inv, posted>>
    PROVE  Quiet(c)
  <1> DEFINE q == work[c].todo
             w == [work[c] EXCEPT !.todo = Tail(@)]
  <1>1. w \in Work /\ w.op = Op(c) /\ w.inv = InvOf(c) /\ w.todo = Tail(q)
    BY PopIsOK
  <1>2. work' = [work EXCEPT ![c] = w] /\ pc' = pc
    BY DEF Pop
  <1>3. q \in Seq(ToDo) /\ q # << >> /\ ToDoOK(q, Parties(InvOf(c)))
    BY DEF JeuxInvariant, TypeOK, Work, ThreadOK
  <1> HIDE DEF q, w
  <1>4. /\ \A e : In(Tail(q), e) => In(q, e)
        /\ \A e : In(q, e) /\ e # Head(q) => In(Tail(q), e)
    BY <1>3, TailIsOK
  <1>5. \A x : Remove(x) # Head(q)
    BY DEF Remove, q
  <1>6. NeedsNone(c)
    BY NeedsNoneIf
  <1>7. \A e : Left(c, e) <=> In(q, e)
    BY DEF Left, q
  <1>8. /\ \A x, y \in Parties(InvOf(c)) :
              In(w.todo, Remove(x)) /\ ~In(w.todo, Remove(y)) => HalfDone(c, x, y)
        /\ \A x \in Parties(InvOf(c)) :
              In(w.todo, PostCall) /\ ~In(w.todo, Remove(x)) =>
                  Left(c, PostCall) /\ ~Left(c, Remove(x))
        /\ \A x \in Parties(InvOf(c)) : Left(c, Remove(x)) => In(w.todo, Remove(x))
    BY <1>1, <1>4, <1>5, <1>7 DEF HalfDone
  <1> QED
    BY <1>1, <1>2, <1>6, <1>8, GoesOnIsQuiet

\* Looking up the peer's id changes neither lists nor results.
LEMMA FindIsQuiet ==
    ASSUME JeuxInvariant, NEW c \in Clients, FindIn(c)
    PROVE  Quiet(c)
  <1> DEFINE q == work[c].todo
  <1>1. /\ pc[c] = "todo" /\ q \in Seq(ToDo) /\ q # << >> /\ Head(q).call = "find"
        /\ ToDoOK(q, Parties(InvOf(c)))
    BY CallIs DEF FindIn
  <1>2. UNCHANGED <<list, inv, posted, pc>>
    BY DEF FindIn, shared
  <1>3. NeedsNone(c)
    BY <1>1, NeedsNoneIf
  <1>4. work[c] \in Work /\ work \in [Clients -> Work]
    BY DEF JeuxInvariant, TypeOK
  <1>5. /\ Tail(q) \in Seq(ToDo) /\ ToDoOK(Tail(q), Parties(InvOf(c)))
        /\ Tail(q) # << >> /\ Head(Tail(q)).call = "read"
    BY <1>1, TailIsOK, HeadIs
  <1>6. \A x : Remove(x) # Head(q) /\ Remove(x) # Head(Tail(q))
    BY <1>1, <1>5 DEF Remove
  <1>7. /\ \A e : In(Tail(q), e) => In(q, e)
        /\ \A x : In(q, Remove(x)) => In(Tail(q), Remove(x))
    <2> HIDE DEF q
    <2>1. \A e : In(q, e) /\ e # Head(q) => In(Tail(q), e)
      BY <1>1, TailIsOK
    <2>2. \A e : In(Tail(q), e) => In(q, e)
      BY <1>1, TailIsOK
    <2> QED
      BY <1>6, <2>1, <2>2
  <1>8. /\ Tail(Tail(q)) \in Seq(ToDo)
        /\ \A e : In(Tail(Tail(q)), e) => In(q, e)
        /\ \A x : In(q, Remove(x)) => In(Tail(Tail(q)), Remove(x))
    <2> DEFINE r == Tail(q)
    <2>1. r \in Seq(ToDo) /\ r # << >> /\ ToDoOK(r, Parties(InvOf(c)))
      BY <1>5
    <2> HIDE DEF r
    <2>2. /\ Tail(r) \in Seq(ToDo)
          /\ \A e : In(Tail(r), e) => In(r, e)
          /\ \A e : In(r, e) /\ e # Head(r) => In(Tail(r), e)
      BY <2>1, TailIsOK
    <2> QED
      BY <1>6, <1>7, <2>2 DEF r
  <1>9. \A e : Left(c, e) <=> In(q, e)
    BY DEF Left
  <1>10. ASSUME NEW w \in Work, work' = [work EXCEPT ![c] = w], w.op = Op(c), w.inv = InvOf(c),
                \A e : In(w.todo, e) => In(q, e),
                \A x : In(q, Remove(x)) => In(w.todo, Remove(x))
         PROVE  Quiet(c)
    <2> HIDE DEF q
    <2>1. /\ \A x, y \in Parties(InvOf(c)) :
                In(w.todo, Remove(x)) /\ ~In(w.todo, Remove(y)) => HalfDone(c, x, y)
          /\ \A x \in Parties(InvOf(c)) :
                In(w.todo, PostCall) /\ ~In(w.todo, Remove(x)) =>
                    Left(c, PostCall) /\ ~Left(c, Remove(x))
          /\ \A x \in Parties(InvOf(c)) : Left(c, Remove(x)) => In(w.todo, Remove(x))
      BY <1>1, <1>9, <1>10 DEF HalfDone
    <2> QED
      BY <1>1, <1>2, <1>3, <1>10, <2>1, GoesOnIsQuiet
  <1>11. CASE work' = [work EXCEPT ![c].todo = Tail(Tail(@))]
    <2> DEFINE w == [work[c] EXCEPT !.todo = Tail(Tail(@))]
    <2>1. /\ w \in Work /\ w.op = Op(c) /\ w.inv = InvOf(c) /\ w.todo = Tail(Tail(q))
      BY <1>4, <1>8 DEF Work, Op, InvOf
    <2>2. work' = [work EXCEPT ![c] = w]
      BY <1>11
    <2> HIDE DEF w, q
    <2> QED
      BY <1>8, <1>10, <2>1, <2>2
  <1>12. ASSUME NEW i \in Slots, work' = [work EXCEPT ![c].todo = Tail(@), ![c].slot = i]
         PROVE  Quiet(c)
    <2> DEFINE w == [[work[c] EXCEPT !.todo = Tail(@)] EXCEPT !.slot = i]
    <2>1. /\ w \in Work /\ w.op = Op(c) /\ w.inv = InvOf(c) /\ w.todo = Tail(q)
      BY <1>4, <1>5 DEF Work, Op, InvOf
    <2>2. work' = [work EXCEPT ![c] = w]
      BY <1>4, <1>12
    <2> HIDE DEF w, q
    <2> QED
      BY <1>7, <1>10, <2>1, <2>2
  <1> QED
    BY <1>11, <1>12 DEF FindIn

\* When a game is over, the invitation is to be removed from both lists first.
LEMMA SeeOverIsQuiet ==
    ASSUME JeuxInvariant, NEW c \in Clients, SeeOver(c)
    PROVE  Quiet(c)
  <1> DEFINE v == InvOf(c)
             q == IF GameOf(v, work[c].game).isOver THEN AfterGame(v) ELSE << >>
             w == [work[c] EXCEPT !.todo = q]
  <1>1. /\ pc[c] = "todo" /\ v \in Invs /\ inv[v] # NULL /\ work[c].todo # << >>
        /\ Head(work[c].todo).call = "over"
    BY CallIs DEF SeeOver
  <1>2. UNCHANGED <<list, inv, posted, pc>> /\ work' = [work EXCEPT ![c] = w]
    BY DEF SeeOver, shared
  <1>3. /\ q \in Seq(ToDo)
        /\ (\A x \in Parties(v) : In(q, Remove(x))) \/ (\A e : ~In(q, e))
    <2>1. AfterGame(v) \in Seq(ToDo) /\ \A x \in Parties(v) : In(AfterGame(v), Remove(x))
      BY <1>1, AfterGameIsOK DEF JeuxInvariant, InvitationsOK
    <2>2. << >> \in Seq(ToDo) /\ \A e : ~In(<< >>, e)
      BY EmptySeq DEF In
    <2> QED
      BY <2>1, <2>2
  <1> HIDE DEF q
  <1>4. w \in Work /\ w.op = Op(c) /\ w.inv = v /\ w.todo = q
    BY <1>3 DEF JeuxInvariant, TypeOK, Work, Op, InvOf
  <1>5. NeedsNone(c)
    BY <1>1, NeedsNoneIf
  <1>6. \A x : ~Left(c, Remove(x))
    <2> DEFINE r == work[c].todo
    <2>1. r \in Seq(ToDo) /\ r # << >> /\ ToDoOK(r, Parties(v)) /\ Head(r).call = "over"
      BY <1>1, CallIs DEF SeeOver
    <2> HIDE DEF r
    <2>2. \A e : In(r, e) => e.call = "over"
      BY <2>1, HeadIs
    <2>3. \A x : ~In(r, Remove(x))
      BY <2>2 DEF Remove
    <2> QED
      BY <2>3 DEF Left, r
  <1> HIDE DEF w
  <1> QED
    BY <1>1, <1>2, <1>3, <1>4, <1>5, <1>6, GoesOnIsQuiet

\* A thread that has changed its invitation goes on with calls that remove it
\* from both lists or from none, and that post nothing.
LEMMA ContinueIsQuiet ==
    ASSUME JeuxInvariant, NEW c \in Clients, pc[c] = "do", Continue(c),
           Op(c) \in Closers => inv[InvOf(c)].state # "closed",
           UNCHANGED <<list, posted>>, KeepsParties
    PROVE  Quiet(c)
  <1>1. /\ pc'[c] = "todo" /\ InvOf(c)' = InvOf(c) /\ Op(c)' = Op(c)
        /\ \A e : In(work'[c].todo, e) => e.call # "post"
        /\ \A x, y \in Parties(InvOf(c)) :
              In(work'[c].todo, Remove(x)) => In(work'[c].todo, Remove(y))
        /\ Op(c) \in Closers => \A x \in Parties(InvOf(c)) : In(work'[c].todo, Remove(x))
        /\ OthersWait(c)
    BY ContinueIsOK DEF OthersWait
  <1>2. ~Left(c, PostCall)'
    <2>1. ~In(work'[c].todo, PostCall)
      BY <1>1 DEF PostCall
    <2> QED
      BY <2>1 DEF Left, PostCall
  <1>3. \A x, y \in Parties(InvOf(c)) : ~HalfDone(c, x, y)'
    BY <1>1 DEF HalfDone, Left
  <1>4. Op(c) \in Closers => \A x \in Parties(InvOf(c)) : Left(c, Remove(x))'
    BY <1>1 DEF Left
  <1> QED
    BY <1>1, <1>2, <1>3, <1>4 DEF Quiet, GoesOn, NeedsNone

\* An EXCEPT on an invitation that leaves its parties alone.
LEMMA PartiesKept ==
    ASSUME TypeOK, NEW v \in Invs, NEW new \in Invitation, inv' = [inv EXCEPT ![v] = new],
           inv[v] # NULL => new.source = inv[v].source /\ new.target = inv[v].target
    PROVE  KeepsParties
  <1>1. /\ inv'[v] = new /\ new # NULL
        /\ \A u \in Invs \ {v} : inv'[u] = inv[u]
    BY NullAssumption DEF TypeOK
  <1> QED
    BY <1>1 DEF KeepsParties

\* Accepting, closing and moving change an invitation and its games only.
LEMMA ChangeIsQuiet ==
    ASSUME JeuxInvariant, NEW c \in Clients, Close(c) \/ Accept(c) \/ Move(c)
    PROVE  Quiet(c)
  <1>1. pc[c] = "do" /\ UNCHANGED <<list, posted>> /\ NeedsNone(c) /\ TypeOK
    BY DEF Close, Accept, Move, NeedsNone, JeuxInvariant
  <1>2. PICK v \in Invs : v = InvOf(c) /\ inv[v] # NULL /\ inv[v] \in Invitation
    BY <1>1, WorksOn
  <1>3. CASE Done(c, FALSE) /\ inv' = inv
    <2>1. KeepsParties
      BY <1>3 DEF KeepsParties
    <2> QED
      BY <1>1, <1>3, <2>1, DoneIsQuiet
  <1>4. CASE Close(c) /\ ~(Done(c, FALSE) /\ inv' = inv)
    <2> DEFINE new == [inv[v] EXCEPT !.state = "closed"]
    <2>1. inv' = [inv EXCEPT ![v] = new] /\ inv[v].state # "closed" /\ Continue(c)
      BY <1>2, <1>4 DEF Close
    <2>2. new \in Invitation /\ new.source = inv[v].source /\ new.target = inv[v].target
      BY <1>2 DEF Invitation, States
    <2> HIDE DEF new
    <2>3. KeepsParties
      BY <1>1, <2>1, <2>2, PartiesKept
    <2> QED
      BY <1>1, <1>2, <2>1, <2>3, ContinueIsQuiet
  <1>5. CASE Accept(c) /\ ~(Done(c, FALSE) /\ inv' = inv)
    <2> DEFINE new == [inv[v] EXCEPT !.game = @ + 1]
    <2>1. inv' = [inv EXCEPT ![v] = new] /\ Continue(c) /\ Op(c) = "accept"
      BY <1>2, <1>5 DEF Accept
    <2>2. new \in Invitation /\ new.source = inv[v].source /\ new.target = inv[v].target
      <3>1. inv[v].game < MaxGames
        BY <1>1, <1>2, <2>1 DEF JeuxInvariant, ThreadOK
      <3> QED
        BY <1>2, <3>1, SizesAssumption DEF Invitation
    <2> HIDE DEF new
    <2>3. KeepsParties
      BY <1>1, <2>1, <2>2, PartiesKept
    <2> QED
      BY <1>1, <2>1, <2>3, ContinueIsQuiet DEF Closers
  <1>6. CASE Move(c) /\ ~Done(c, FALSE)
    <2>1. inv' = inv /\ Continue(c) /\ Op(c) = "move"
      BY <1>6 DEF Move
    <2>2. KeepsParties
      BY <2>1 DEF KeepsParties
    <2> QED
      BY <1>1, <2>1, <2>2, ContinueIsQuiet DEF Closers
  <1>7. Move(c) => inv' = inv
    BY DEF Move
  <1> QED
    BY <1>3, <1>4, <1>5, <1>6, <1>7

\* The steps before a thread has an invitation, and after.
LEMMA SearchIsQuiet ==
    ASSUME JeuxInvariant, NEW c \in Clients, pc[c] \in {"idle", "search"},
           NEW op, NEW id, Begin(c, op, id), UNCHANGED shared
    PROVE  Quiet(c)
  <1>1. UNCHANGED <<list, posted>> /\ KeepsParties /\ NeedsNone(c)
    BY DEF shared, KeepsParties, NeedsNone
  <1>2. \/ Done(c, FALSE)
        \/ \E w : pc' = [pc EXCEPT ![c] = "check"] /\ work' = [work EXCEPT ![c] = w]
    BY DEF Begin, Go, Goto
  <1> QED
    BY <1>1, <1>2, DoneIsQuiet, MovesOnIsQuiet DEF Labels

\* So does a thread that looks at its request ...
LEMMA CheckIsQuiet ==
    ASSUME JeuxInvariant, NEW c \in Clients, Check(c)
    PROVE  Still \/ Quiet(c)
  <1>1. /\ UNCHANGED <<list, inv, posted>> /\ KeepsParties /\ NeedsNone(c)
        /\ pc[c] = "check"
    BY DEF Check, shared, KeepsParties, NeedsNone
  <1>2. \/ Done(c, FALSE) \/ UNCHANGED <<pc, work>>
        \/ \E w : pc' = [pc EXCEPT ![c] = "do"] /\ work' = [work EXCEPT ![c] = w]
    BY DEF Check, Go, Goto, Fault
  <1> QED
    BY <1>1, <1>2, DoneIsQuiet, MovesOnIsQuiet DEF Labels, Still

\* ... or is elsewhere in a handler or in client_logout ...
LEMMA ElsewhereIsQuiet ==
    ASSUME JeuxInvariant, NEW c \in Clients,
           \/ \E k \in Clients : Invite(c, k)
           \/ Reply(c) \/ Eof(c) \/ Scan(c) \/ Visit(c) \/ Pick(c)
    PROVE  Still \/ Quiet(c)
  <1>1. /\ UNCHANGED <<list, inv, posted>> /\ KeepsParties
        /\ pc[c] \in {"idle", "reply", "scan", "visit", "side", "pick"}
    BY DEF Invite, Reply, Eof, Scan, Visit, Pick, shared, KeepsParties
  <1>2. work = [work EXCEPT ![c] = work[c]]
    BY DEF JeuxInvariant, TypeOK
  <1>3. \/ UNCHANGED <<pc, work>>
        \/ \E l \in Labels \ {"offer", "todo"} : \E w :
              pc' = [pc EXCEPT ![c] = l] /\ work' = [work EXCEPT ![c] = w]
    BY <1>2 DEF Invite, Reply, Eof, Scan, Visit, Pick, Go, Goto, Fault, Labels
  <1> QED
    BY <1>1, <1>3, MovesOnIsQuiet DEF Still

\* ... or makes a call that is no removal and posts nothing.
LEMMA CallIsQuiet ==
    ASSUME JeuxInvariant, NEW c \in Clients, SendTo(c) \/ ReadId(c) \/ Finish(c)
    PROVE  Still \/ Quiet(c)
  <1>1. /\ UNCHANGED <<list, inv, posted>> /\ KeepsParties /\ pc[c] = "todo"
        /\ work[c].todo = << >> \/ Head(work[c].todo).call # "remove"
    BY DEF SendTo, ReadId, Finish, shared, KeepsParties, At
  <1>2. NeedsNone(c)
    BY <1>1, NeedsNoneIf
  <1>3. \/ UNCHANGED <<pc, work>> \/ (\E ok : Done(c, ok))
        \/ Pop(c) /\ work[c].todo # << >> /\ Head(work[c].todo).call # "remove"
    BY DEF SendTo, ReadId, Finish, Fault, At
  <1> QED
    BY <1>1, <1>2, <1>3, DoneIsQuiet, PopIsQuiet DEF Still

\* What a removal that fails leaves: nothing to remove from the other list that
\* the other list still has.
LEMMA RemoveIsQuiet ==
    ASSUME JeuxInvariant, NEW c \in Clients, RemoveFrom(c)
    PROVE  \/ Still \/ Quiet(c)
           \/ At(c, "remove") /\ \E x \in Clients, v \in Invs, i \in Slots : Removes(c, x, v, i)
  <1>1. At(c, "remove")
    BY DEF RemoveFrom
  <1>2. CASE Done(c, FALSE) /\ UNCHANGED shared /\ ~Holds(Who(c), InvOf(c))
    <2> DEFINE q == work[c].todo
    <2>1. /\ q \in Seq(ToDo) /\ ToDoOK(q, Parties(InvOf(c))) /\ pc[c] = "todo"
      BY <1>1, CallIs
    <2>2. ASSUME NEW x \in Parties(InvOf(c)), NEW y \in Parties(InvOf(c)), HalfDone(c, x, y)
          PROVE  ~Holds(x, InvOf(c))
      <3>1. In(q, Remove(x)) /\ ~In(q, Remove(y))
        BY <2>2 DEF HalfDone, Left
      <3>2. Parties(InvOf(c)) = {x, y}
        BY <3>1 DEF Parties
      <3> HIDE DEF q
      <3>3. Head(q) = Remove(x)
        BY <2>1, <3>1, <3>2, LastRemovalIsNext
      <3> QED
        BY <1>2, <3>3 DEF Who, Remove, q
    <2>3. NeedsNone(c) /\ KeepsParties /\ UNCHANGED <<list, posted>>
      BY <1>2, <2>2 DEF NeedsNone, KeepsParties, shared
    <2> QED
      BY <1>2, <2>1, <2>3, DoneIsQuiet
  <1>3. CASE Fault("remove") /\ UNCHANGED shared
    BY <1>3 DEF Still, Fault, shared
  <1> QED
    BY <1>1, <1>2, <1>3, RemoveCases

\* player_post_result is called, is called with no player to rate, or faults.
LEMMA PostIs ==
    ASSUME JeuxInvariant, NEW c \in Clients, Post(c)
    PROVE  Still \/ \E v \in Invs : Posts(c, v)
  <1>1. At(c, "post") /\ UNCHANGED <<open, player, list, inv, games>> /\ InvOf(c) \in Invs
    BY CallIs DEF Post
  <1> QED
    BY <1>1 DEF Post, Posts, Still, Fault

\* client_make_invitation puts a new invitation into its source's list, or fails.
LEMMA CreateIs ==
    ASSUME JeuxInvariant, NEW c \in Clients, NEW role \in PlayerRole, Create(c, role)
    PROVE  \/ Still
           \/ OthersWait(c) /\ \E v \in Invs, i \in Slots, k \in Clients \ {c} : Creates(c, v, i, k)
  <1>1. /\ pc[c] = "create" /\ UNCHANGED posted /\ TypeOK
        /\ \E k \in Clients \ {c} : k = work[c].peer
    BY DEF Create, JeuxInvariant, ThreadOK
  <1>2. ASSUME NEW v \in Invs, NEW i \in Slots, inv[v] = NULL, FirstEmpty(c, i),
               inv' = [inv EXCEPT ![v] = [state |-> "open", source |-> c, target |-> work[c].peer,
                                          role |-> role, refs |-> 3, game |-> 0]],
               list' = [list EXCEPT ![c][i] = v],
               Go(c, "offer", [work[c] EXCEPT !.inv = v, !.id = IdOf(i)])
        PROVE  OthersWait(c) /\ Creates(c, v, i, work[c].peer)
    <2> DEFINE new == [state |-> "open", source |-> c, target |-> work[c].peer,
                       role |-> role, refs |-> 3, game |-> 0]
               w == [work[c] EXCEPT !.inv = v, !.id = IdOf(i)]
    <2>1. new \in Invitation /\ new.source = c /\ new.target = work[c].peer
      BY <1>1, SizesAssumption DEF Invitation, States
    <2> HIDE DEF new
    <2>2. /\ inv'[v] = new /\ new # NULL /\ \A u \in Invs \ {v} : inv'[u] = inv[u]
      BY <1>1, <1>2, <2>1, NullAssumption DEF TypeOK, new
    <2>3. w.inv = v
      BY <1>1 DEF TypeOK, Work
    <2>4. pc' = [pc EXCEPT ![c] = "offer"] /\ work' = [work EXCEPT ![c] = w]
      BY <1>2 DEF Go, Goto
    <2> HIDE DEF w
    <2>5. pc'[c] = "offer" /\ InvOf(c)' = v /\ OthersWait(c)
      BY <1>1, <2>3, <2>4 DEF TypeOK, InvOf, OthersWait
    <2> QED
      BY <1>1, <1>2, <2>1, <2>2, <2>5 DEF Creates, FirstEmpty
  <1> QED
    BY <1>1, <1>2 DEF Create, Still, Fault

\* Every step is one of these.
LEMMA StepIs ==
    ASSUME JeuxInvariant, [Next]_vars
    PROVE  \/ Still
           \/ \E c \in Clients :
                \/ Quiet(c) \/ Offer(c)
                \/ /\ OthersWait(c)
                   /\ \E v \in Invs, i \in Slots, k \in Clients \ {c} : Creates(c, v, i, k)
                \/ /\ At(c, "remove")
                   /\ \E x \in Clients, v \in Invs, i \in Slots : Removes(c, x, v, i)
                \/ \E v \in Invs : Posts(c, v)
  <1>1. CASE UNCHANGED vars
    BY <1>1 DEF vars, shared, Still
  <1>2. ASSUME NEW c \in Clients, Thread(c)
        PROVE  \/ Still \/ Quiet(c) \/ Offer(c)
               \/ /\ OthersWait(c)
                  /\ \E v \in Invs, i \in Slots, k \in Clients \ {c} : Creates(c, v, i, k)
               \/ /\ At(c, "remove")
                  /\ \E x \in Clients, v \in Invs, i \in Slots : Removes(c, x, v, i)
               \/ \E v \in Invs : Posts(c, v)
    <2>1. CASE ListFull(c)
      BY <2>1 DEF ListFull, Fault, Still, shared
    <2>2. CASE Close(c) \/ Accept(c) \/ Move(c)
      BY <2>2, ChangeIsQuiet
    <2>3. CASE SendTo(c) \/ ReadId(c) \/ Finish(c)
      BY <2>3, CallIsQuiet
    <2>4. CASE Reply(c) \/ Eof(c) \/ Scan(c) \/ Visit(c) \/ Pick(c)
      BY <2>4, ElsewhereIsQuiet
    <2>5. CASE Search(c)
      BY <2>5, SearchIsQuiet DEF Search
    <2>6. ASSUME NEW role \in PlayerRole, Create(c, role)
          PROVE  \/ Still
                 \/ /\ OthersWait(c)
                    /\ \E v \in Invs, i \in Slots, k \in Clients \ {c} : Creates(c, v, i, k)
      BY <2>6, CreateIs
    <2> QED
      BY <1>2, <2>1, <2>2, <2>3, <2>4, <2>5, <2>6, CheckIsQuiet, RemoveIsQuiet,
         FindIsQuiet, SeeOverIsQuiet, PostIs DEF Thread
  <1>3. ASSUME NEW c \in Clients, Packet(c) PROVE Still \/ Quiet(c)
    <2>1. ASSUME NEW op, NEW id, Request(c, op, id) PROVE Quiet(c)
      BY <2>1, SearchIsQuiet DEF Request
    <2> QED
      BY <1>3, <2>1, ElsewhereIsQuiet DEF Packet
  <1>4. ASSUME NEW c \in Clients, Disconnect(c) PROVE Still
    BY <1>4 DEF Disconnect, Still
  <1> QED
    BY <1>1, <1>2, <1>3, <1>4 DEF Next

-------------------------------------------------------------------------------
\* The lists, the parties and the threads after the others.

\* The lists and the parties after each of the steps that are not quiet.
LEMMA OfferIs ==
    ASSUME JeuxInvariant, NEW c \in Clients, Offer(c)
    PROVE  \E v \in Invs, t \in Clients :
             /\ v = InvOf(c) /\ pc[c] = "offer" /\ inv[v] # NULL
             /\ inv[v].source = c /\ inv[v].target = t /\ c # t
             /\ posted' = posted /\ KeepsParties /\ OthersWait(c)
             /\ pc'[c] = "todo" /\ InvOf(c)' = v /\ Op(c)' = "invite"
             /\ \A e : In(work'[c].todo, e) => e.call \notin {"post", "remove"}
             /\ \A d \in Clients, u \in Invs : Holds(d, u)' <=> Holds(d, u) \/ (d = t /\ u = v)
  <1>1. pc[c] = "offer" /\ posted' = posted /\ TypeOK
    BY DEF Offer, JeuxInvariant
  <1>2. PICK v \in Invs, t \in Clients :
            /\ v = InvOf(c) /\ inv[v] # NULL /\ inv[v] \in Invitation
            /\ t = inv[v].target /\ inv[v].source = c /\ c # t /\ Op(c) = "invite"
            /\ ~Holds(t, v)
    BY <1>1, WorksOn DEF JeuxInvariant, ThreadOK, Invitation
  <1>3. PICK i \in Slots : list[t][i] = NULL /\ list' = [list EXCEPT ![t][i] = v]
    BY <1>2 DEF Offer, Add, FirstEmpty
  <1>4. \A d \in Clients, u \in Invs : Holds(d, u)' <=> Holds(d, u) \/ (d = t /\ u = v)
    BY <1>1, <1>2, <1>3, HoldsAfterAdd
  <1>5. KeepsParties
    <2> DEFINE new == [inv[v] EXCEPT !.refs = @ + 2]
    <2>1. new \in Invitation /\ new.source = inv[v].source /\ new.target = inv[v].target
      BY <1>2 DEF Invitation
    <2>2. inv' = [inv EXCEPT ![v] = new]
      BY <1>2 DEF Offer
    <2> HIDE DEF new
    <2> QED
      BY <1>1, <2>1, <2>2, PartiesKept
  <1> DEFINE q == <<Send(t)>>
             w == [work[c] EXCEPT !.todo = q]
  <1>6. \A e : In(q, e) => e.call \notin {"post", "remove"}
    BY NoticeIsOK
  <1>7. pc' = [pc EXCEPT ![c] = "todo"] /\ work' = [work EXCEPT ![c] = w]
    BY <1>2 DEF Offer, Send, Go, Goto
  <1> HIDE DEF q
  <1>8. w.inv = v /\ w.op = "invite" /\ w.todo = q
    BY <1>1, <1>2 DEF TypeOK, Work, InvOf, Op
  <1> HIDE DEF w
  <1>9. pc'[c] = "todo" /\ work'[c] = w /\ OthersWait(c)
    BY <1>1, <1>7 DEF TypeOK, OthersWait
  <1> QED
    BY <1>1, <1>2, <1>4, <1>5, <1>6, <1>8, <1>9 DEF InvOf, Op

\* A new invitation is in its source's list and in no other.
LEMMA CreatesIs ==
    ASSUME JeuxInvariant, NEW c \in Clients, NEW v \in Invs, NEW i \in Slots, NEW k \in Clients \ {c},
           OthersWait(c), Creates(c, v, i, k)
    PROVE  /\ posted' = posted /\ posted[v] = 0 /\ KeepsParties
           /\ pc[c] = "create" /\ pc'[c] = "offer" /\ InvOf(c)' = v
           /\ inv'[v] # NULL /\ inv'[v].source = c /\ inv'[v].target = k
           /\ \A u \in Invs \ {v} : inv'[u] = inv[u]
           /\ \A d \in Clients : ~Holds(d, v) /\ InvOf(d) # v
           /\ \A d \in Clients, u \in Invs : Holds(d, u)' <=> Holds(d, u) \/ (d = c /\ u = v)
  <1>1. /\ TypeOK /\ inv[v] = NULL /\ posted' = posted /\ posted[v] = 0
        /\ list[c][i] = NULL /\ list' = [list EXCEPT ![c][i] = v]
    BY DEF Creates, JeuxInvariant, InvitationsOK
  <1>2. \A d \in Clients : ~Holds(d, v) /\ InvOf(d) # v
    <2>1. \A d \in Clients : ~Holds(d, v)
      BY <1>1, HeldIsAllocated
    <2>2. \A d \in Clients : InvOf(d) # v
      BY <1>1, ObjectsAssumption DEF JeuxInvariant, ThreadOK
    <2> QED
      BY <2>1, <2>2
  <1>3. \A d \in Clients, u \in Invs : Holds(d, u)' <=> Holds(d, u) \/ (d = c /\ u = v)
    <2>1. ~Holds(c, v) /\ list[c][i] = NULL /\ list' = [list EXCEPT ![c][i] = v] /\ TypeOK
      BY <1>1, <1>2
    <2> QED
      BY <2>1, HoldsAfterAdd
  <1>4. KeepsParties
    BY <1>1 DEF KeepsParties, Creates
  <1> QED
    BY <1>1, <1>2, <1>3, <1>4 DEF Creates

\* An invitation that is removed is not in that list any more.
LEMMA RemovesIs ==
    ASSUME JeuxInvariant, NEW c \in Clients, NEW x \in Clients, NEW v \in Invs, NEW i \in Slots,
           At(c, "remove"), Removes(c, x, v, i)
    PROVE  /\ posted' = posted /\ KeepsParties /\ OthersWait(c)
           /\ pc[c] = "todo" /\ pc'[c] = "todo" /\ v = InvOf(c) /\ InvOf(c)' = v
           /\ Op(c)' = Op(c)
           /\ inv[v] # NULL /\ x \in Parties(v) /\ Holds(x, v)
           /\ Left(c, Remove(x)) /\ ~In(work'[c].todo, Remove(x))
           /\ \A e : In(work'[c].todo, e) => Left(c, e)
           /\ \A e : Left(c, e) /\ e # Remove(x) => In(work'[c].todo, e)
           /\ \A d \in Clients, u \in Invs : Holds(d, u)' <=> Holds(d, u) /\ ~(d = x /\ u = v)
  <1> DEFINE q == work[c].todo
  <1>1. /\ pc[c] = "todo" /\ q \in Seq(ToDo) /\ q # << >> /\ ToDoOK(q, Parties(v))
        /\ Head(q).call = "remove" /\ Head(q).who = x /\ v = InvOf(c)
    BY CallIs DEF Removes, Who
  <1>2. /\ Holds(x, v) /\ x \in Parties(v) /\ inv[v] # NULL /\ inv[v] \in Invitation
        /\ \A d \in Clients, u \in Invs : Holds(d, u)' <=> Holds(d, u) /\ ~(d = x /\ u = v)
        /\ inv'[v] # NULL /\ inv'[v] = [inv[v] EXCEPT !.refs = @ - 1]
        /\ \A u \in Invs \ {v} : inv'[u] = inv[u]
        /\ pc' = pc /\ InvOf(c)' = v /\ Op(c)' = Op(c)
        /\ work'[c].todo = Tail(q)
        /\ \A d \in Clients \ {c} : work'[d] = work[d]
    BY RemoveIs
  <1>3. KeepsParties
    <2>1. inv'[v].source = inv[v].source /\ inv'[v].target = inv[v].target
      BY <1>2 DEF Invitation
    <2> QED
      BY <1>2, <2>1 DEF KeepsParties
  <1>4. Head(q) = Remove(x)
    <2>1. Head(q) \in ToDo
      BY <1>1, HeadIs
    <2> QED
      BY <1>1, <2>1 DEF ToDo, Remove
  <1> HIDE DEF q
  <1>5. /\ In(q, Remove(x)) /\ ~In(Tail(q), Remove(x))
        /\ \A e : In(Tail(q), e) => In(q, e)
        /\ \A e : In(q, e) /\ e # Remove(x) => In(Tail(q), e)
    <2>1. In(q, Head(q)) /\ ~In(Tail(q), Head(q))
      BY <1>1, HeadIs
    <2>2. /\ \A e : In(Tail(q), e) => In(q, e)
          /\ \A e : In(q, e) /\ e # Head(q) => In(Tail(q), e)
      BY <1>1, TailIsOK
    <2> QED
      BY <1>4, <2>1, <2>2
  <1>6. \A e : Left(c, e) <=> In(q, e)
    BY DEF Left, q
  <1>7. posted' = posted /\ OthersWait(c)
    BY <1>2 DEF Removes, OthersWait
  <1> QED
    BY <1>1, <1>2, <1>3, <1>5, <1>6, <1>7

\* A result that is posted leaves nothing else for the thread to do.
LEMMA PostsIs ==
    ASSUME JeuxInvariant, NEW c \in Clients, NEW v \in Invs, Posts(c, v)
    PROVE  /\ UNCHANGED <<list, inv>> /\ KeepsParties /\ OthersWait(c)
           /\ pc[c] = "todo" /\ pc'[c] = "todo" /\ v = InvOf(c) /\ InvOf(c)' = v
           /\ Op(c)' = Op(c) /\ inv[v] # NULL
           /\ Left(c, PostCall) /\ \A x : ~Left(c, Remove(x))
           /\ \A e : ~In(work'[c].todo, e)
           /\ posted \in [Invs -> Nat] /\ posted' = [posted EXCEPT ![v] = @ + 1]
  <1> DEFINE q == work[c].todo
             w == [work[c] EXCEPT !.todo = Tail(@)]
  <1>1. /\ pc[c] = "todo" /\ q \in Seq(ToDo) /\ q # << >> /\ ToDoOK(q, Parties(v))
        /\ Head(q).call = "post" /\ v = InvOf(c) /\ inv[v] # NULL
    BY CallIs DEF Posts
  <1>2. /\ w.op = Op(c) /\ w.inv = v /\ w.todo = Tail(q)
    BY <1>1, PopIsOK
  <1>3. /\ work' = [work EXCEPT ![c] = w] /\ pc' = pc /\ UNCHANGED <<list, inv>>
        /\ posted' = [posted EXCEPT ![v] = @ + 1] /\ posted \in [Invs -> Nat]
        /\ work \in [Clients -> Work]
    BY DEF Posts, Pop, JeuxInvariant, TypeOK
  <1> HIDE DEF q, w
  <1>4. Tail(q) = << >> /\ In(q, Head(q)) /\ Head(q) = PostCall
    BY <1>1, HeadIs
  <1>5. \A e : ~In(Tail(q), e)
    <2>1. Len(Tail(q)) = 0
      BY <1>4, EmptySeq
    <2> QED
      BY <2>1 DEF In
  <1>6. \A e : In(q, e) => e = Head(q)
    <2>1. \A e : In(q, e) /\ e # Head(q) => In(Tail(q), e)
      BY <1>1, TailIsOK
    <2> QED
      BY <1>5, <2>1
  <1>7. work'[c] = w /\ OthersWait(c) /\ KeepsParties
    BY <1>3 DEF OthersWait, KeepsParties
  <1>8. /\ \A x : ~Left(c, Remove(x))
    <2>1. \A x : ~In(q, Remove(x))
      BY <1>1, <1>6 DEF Remove
    <2> QED
      BY <2>1 DEF Left, q
  <1>9. work'[c].todo = Tail(q) /\ InvOf(c)' = v /\ Op(c)' = Op(c)
    BY <1>2, <1>7 DEF InvOf, Op
  <1>10. Left(c, PostCall)
    BY <1>4 DEF Left, q
  <1> QED
    BY <1>1, <1>3, <1>5, <1>7, <1>8, <1>9, <1>10

\* A thread that waits is where it was.
LEMMA WaitingIs ==
    ASSUME JeuxInvariant, KeepsParties, NEW d \in Clients, pc'[d] = pc[d], work'[d] = work[d]
    PROVE  /\ InvOf(d)' = InvOf(d) /\ Op(d)' = Op(d)
           /\ \A e : Left(d, e)' <=> Left(d, e)
           /\ pc[d] = "todo" => /\ InvOf(d) \in Invs /\ inv[InvOf(d)] # NULL
                                /\ Parties(InvOf(d))' = Parties(InvOf(d))
                                /\ inv'[InvOf(d)].source = inv[InvOf(d)].source
           /\ Rating(d)' <=> Rating(d)
           /\ \A x, y : HalfDone(d, x, y)' <=> HalfDone(d, x, y)
  <1>1. InvOf(d)' = InvOf(d) /\ Op(d)' = Op(d)
    BY DEF InvOf, Op
  <1>2. \A e : Left(d, e)' <=> Left(d, e)
    BY DEF Left
  <1>3. ASSUME pc[d] = "todo"
        PROVE  /\ InvOf(d) \in Invs /\ inv[InvOf(d)] # NULL
               /\ Parties(InvOf(d))' = Parties(InvOf(d))
               /\ inv'[InvOf(d)].source = inv[InvOf(d)].source
    <2>1. PICK v \in Invs : v = InvOf(d) /\ inv[v] # NULL
      BY <1>3, WorksOn
    <2> QED
      BY <1>1, <2>1 DEF KeepsParties, Parties
  <1>4. \A x, y : HalfDone(d, x, y)' <=> HalfDone(d, x, y)
    BY DEF HalfDone, Left
  <1>5. Rating(d)' <=> Rating(d)
    BY <1>1, <1>2, <1>3 DEF Rating, Left
  <1> QED
    BY <1>1, <1>2, <1>3, <1>4, <1>5

-------------------------------------------------------------------------------
\* OneCloser: inv_close sees that an invitation is closed already.
LEMMA OneCloserStep ==
    ASSUME JeuxInvariant, OneCloser, [Next]_vars
    PROVE  OneCloser'
  <1>1. ASSUME NEW c \in Clients, OthersWait(c), KeepsParties,
               pc'[c] = "todo" /\ Op(c)' \in Closers =>
                   /\ InvOf(c)' = InvOf(c)
                   /\ Closing(c) \/ inv[InvOf(c)].state # "closed"
        PROVE  OneCloser'
    <2>1. ASSUME NEW d \in Clients, d # c
          PROVE  /\ Closing(d)' => Closing(d) /\ inv[InvOf(d)].state = "closed"
                 /\ InvOf(d)' = InvOf(d)
      <3>1. pc'[d] = pc[d] /\ work'[d] = work[d]
        BY <1>1, <2>1 DEF OthersWait
      <3>2. InvOf(d)' = InvOf(d) /\ Op(d)' = Op(d)
        BY <3>1 DEF InvOf, Op
      <3>3. Closing(d)' => Closing(d)
        BY <3>1, <3>2 DEF Closing
      <3>4. Closing(d) => inv[InvOf(d)].state = "closed"
        BY DEF Closing, Closers, JeuxInvariant, ThreadOK
      <3> QED
        BY <3>2, <3>3, <3>4
    <2>2. Closing(c)' => /\ InvOf(c)' = InvOf(c)
                         /\ Closing(c) \/ inv[InvOf(c)].state # "closed"
      BY <1>1 DEF Closing, Closers
    <2> SUFFICES ASSUME NEW a \in Clients, NEW b \in Clients,
                        Closing(a)', Closing(b)', InvOf(a)' = InvOf(b)'
                 PROVE  a = b
      BY DEF OneCloser
    <2> QED
      BY <2>1, <2>2 DEF OneCloser
  <1>2. CASE Still
    BY <1>2 DEF Still, OneCloser, Closing, InvOf, Op
  <1>3. ASSUME NEW c \in Clients, Quiet(c) PROVE OneCloser'
    <2>1. pc'[c] = "todo" /\ Op(c)' \in Closers =>
              /\ InvOf(c)' = InvOf(c)
              /\ Closing(c) \/ inv[InvOf(c)].state # "closed"
      BY <1>3 DEF Quiet, GoesOn, Closing, Closers
    <2> QED
      BY <1>1, <1>3, <2>1 DEF Quiet
  <1>4. ASSUME NEW c \in Clients, Offer(c) PROVE OneCloser'
    <2>1. OthersWait(c) /\ KeepsParties /\ Op(c)' \notin Closers
      BY <1>4, OfferIs DEF Closers
    <2> QED
      BY <1>1, <2>1
  <1>5. ASSUME NEW c \in Clients, NEW v \in Invs, NEW i \in Slots, NEW k \in Clients \ {c},
               OthersWait(c), Creates(c, v, i, k)
        PROVE  OneCloser'
    <2>1. KeepsParties /\ pc'[c] # "todo"
      BY <1>5, CreatesIs
    <2> QED
      BY <1>1, <1>5, <2>1
  <1>6. ASSUME NEW c \in Clients, OthersWait(c), KeepsParties, pc[c] = "todo",
               InvOf(c)' = InvOf(c), Op(c)' = Op(c)
        PROVE  OneCloser'
    BY <1>1, <1>6 DEF Closing, Closers
  <1>7. ASSUME NEW c \in Clients, NEW x \in Clients, NEW v \in Invs, NEW i \in Slots,
               At(c, "remove"), Removes(c, x, v, i)
        PROVE  OneCloser'
    <2>1. OthersWait(c) /\ KeepsParties /\ pc[c] = "todo" /\ InvOf(c)' = InvOf(c) /\ Op(c)' = Op(c)
      BY <1>7, RemovesIs
    <2> QED
      BY <1>6, <2>1
  <1>8. ASSUME NEW c \in Clients, NEW v \in Invs, Posts(c, v)
        PROVE  OneCloser'
    <2>1. OthersWait(c) /\ KeepsParties /\ pc[c] = "todo" /\ InvOf(c)' = InvOf(c) /\ Op(c)' = Op(c)
      BY <1>8, PostsIs
    <2> QED
      BY <1>6, <2>1
  <1> QED
    BY <1>2, <1>3, <1>4, <1>5, <1>7, <1>8, StepIs

\* OneCloser: of the threads that revoke, decline or resign one invitation, or
\* log its parties out, inv_close (invitation.c) lets one succeed.
THEOREM OneThreadCloses == Spec => []OneCloser
  <1>1. Init => OneCloser
    BY DEF Init, OneCloser, Closing
  <1>2. JeuxInvariant /\ OneCloser /\ [Next]_vars => OneCloser'
    BY OneCloserStep
  <1> QED
    BY <1>1, <1>2, InvariantHolds, PTL DEF Spec

-------------------------------------------------------------------------------
\* OneRemover: client_remove_invitation takes an invitation out of a list once.

\* A thread that ends the invitation's game, or the invitation, and is past a
\* party's list.
Passed(c, x) == /\ pc[c] = "todo" /\ (Op(c) \in Closers \/ Left(c, PostCall))
                /\ ~Left(c, Remove(x))

RemovalOK ==
    /\ \A c \in Clients : \A x \in Parties(InvOf(c)) : Passed(c, x) => ~Holds(x, InvOf(c))
    /\ \A c, d \in Clients : \A x \in Parties(InvOf(c)) :
          Passed(c, x) /\ Passed(d, x) /\ InvOf(c) = InvOf(d) => c = d

\* What it has passed, and whose list that is, when another thread makes a step.
LEMMA PassedWaits ==
    ASSUME JeuxInvariant, NEW c \in Clients, KeepsParties, OthersWait(c),
           NEW d \in Clients \ {c}, NEW x \in Parties(InvOf(d))', Passed(d, x)'
    PROVE  /\ Passed(d, x) /\ InvOf(d)' = InvOf(d) /\ x \in Parties(InvOf(d))
           /\ x \in Clients /\ InvOf(d) \in Invs /\ inv[InvOf(d)] # NULL
  <1>1. pc'[d] = pc[d] /\ work'[d] = work[d] /\ pc[d] = "todo"
    BY DEF OthersWait, Passed
  <1>2. /\ InvOf(d)' = InvOf(d) /\ Op(d)' = Op(d) /\ \A e : Left(d, e)' <=> Left(d, e)
        /\ InvOf(d) \in Invs /\ inv[InvOf(d)] # NULL /\ Parties(InvOf(d))' = Parties(InvOf(d))
    BY <1>1, WaitingIs
  <1>3. Parties(InvOf(d)) \subseteq Clients
    BY <1>2, PartiesAre DEF JeuxInvariant, InvitationsOK
  <1>4. Passed(d, x)
    BY <1>1, <1>2 DEF Passed, Left, PostCall, Remove
  <1> QED
    BY <1>2, <1>3, <1>4

\* Steps that give no invitation back to a list that was passed, and in which
\* the thread passes no list.
LEMMA RemovalKept ==
    ASSUME JeuxInvariant, RemovalOK, NEW c \in Clients, KeepsParties, OthersWait(c),
           \A d, x \in Clients : \A u \in Invs :
               Passed(d, x) /\ u = InvOf(d) /\ Holds(x, u)' => Holds(x, u),
           \A x \in Parties(InvOf(c))' : Passed(c, x)' =>
               /\ Passed(c, x) /\ InvOf(c)' = InvOf(c) /\ x \in Parties(InvOf(c)) /\ x \in Clients
    PROVE  RemovalOK'
  <1>1. ASSUME NEW d \in Clients, NEW x \in Parties(InvOf(d))', Passed(d, x)'
        PROVE  /\ Passed(d, x) /\ InvOf(d)' = InvOf(d) /\ x \in Parties(InvOf(d)) /\ x \in Clients
    <2>1. CASE d = c
      BY <1>1, <2>1
    <2>2. CASE d # c
      BY <1>1, <2>2, PassedWaits
    <2> QED
      BY <2>1, <2>2
  <1>2. ASSUME NEW d \in Clients, NEW x \in Parties(InvOf(d))', Passed(d, x)'
        PROVE  ~Holds(x, InvOf(d))'
    <2>1. Passed(d, x) /\ InvOf(d)' = InvOf(d) /\ x \in Parties(InvOf(d)) /\ x \in Clients
      BY <1>1, <1>2
    <2>2. PICK u \in Invs : u = InvOf(d)
      BY <2>1, WorksOn DEF Passed
    <2>3. ~Holds(x, u)
      BY <2>1, <2>2 DEF RemovalOK
    <2>4. ~Holds(x, u)'
      BY <2>1, <2>2, <2>3
    <2> QED
      BY <2>1, <2>2, <2>4 DEF Holds
  <1>3. ASSUME NEW a \in Clients, NEW b \in Clients, NEW x \in Parties(InvOf(a))',
               Passed(a, x)', Passed(b, x)', InvOf(a)' = InvOf(b)'
        PROVE  a = b
    <2>1. x \in Parties(InvOf(b))'
      BY <1>3 DEF Parties
    <2>2. Passed(a, x) /\ InvOf(a)' = InvOf(a) /\ x \in Parties(InvOf(a))
      BY <1>1, <1>3
    <2>3. Passed(b, x) /\ InvOf(b)' = InvOf(b)
      BY <1>1, <1>3, <2>1
    <2> QED
      BY <1>3, <2>2, <2>3 DEF RemovalOK
  <1> QED
    BY <1>2, <1>3 DEF RemovalOK

\* RemovalOK when nothing it speaks of changes,
LEMMA RemovalStill ==
    ASSUME RemovalOK, Still
    PROVE  RemovalOK'
  <1>1. \A d \in Clients : /\ InvOf(d)' = InvOf(d) /\ Parties(InvOf(d))' = Parties(InvOf(d))
                           /\ \A x : Passed(d, x)' <=> Passed(d, x)
                           /\ \A x : Holds(x, InvOf(d))' <=> Holds(x, InvOf(d))
    BY DEF Still, Passed, Left, Op, InvOf, Parties, Holds
  <1> QED
    BY <1>1 DEF RemovalOK

\* in a quiet step,
LEMMA RemovalQuiet ==
    ASSUME JeuxInvariant, RemovalOK, NEW c \in Clients, Quiet(c)
    PROVE  RemovalOK'
  <1>1. list' = list /\ KeepsParties /\ OthersWait(c)
    BY DEF Quiet
  <1>2. \A d, x \in Clients : \A u \in Invs :
            Passed(d, x) /\ u = InvOf(d) /\ Holds(x, u)' => Holds(x, u)
    BY <1>1 DEF Holds
  <1>3. ASSUME NEW x \in Parties(InvOf(c))', Passed(c, x)'
        PROVE  Passed(c, x) /\ InvOf(c)' = InvOf(c) /\ x \in Parties(InvOf(c)) /\ x \in Clients
    <2>1. pc'[c] = "todo" /\ GoesOn(c)
      BY <1>3 DEF Passed, Quiet
    <2>2. PICK v \in Invs : v = InvOf(c) /\ InvOf(c)' = v /\ inv[v] # NULL
      BY <2>1, WorksOn DEF GoesOn
    <2>3. x \in Parties(v)
      BY <1>1, <2>2 DEF KeepsParties, Parties
    <2>4. Parties(v) \subseteq Clients
      BY <2>2, PartiesAre DEF JeuxInvariant, InvitationsOK
    <2>5. /\ Left(c, PostCall)' /\ ~Left(c, Remove(x))' =>
                 pc[c] = "todo" /\ Left(c, PostCall) /\ ~Left(c, Remove(x))
          /\ Op(c) \in Closers /\ ~Left(c, Remove(x))' => pc[c] = "todo" /\ ~Left(c, Remove(x))
          /\ Op(c)' = Op(c)
      BY <2>1, <2>2, <2>3 DEF GoesOn
    <2>6. ~Left(c, Remove(x))' /\ (Op(c) \in Closers \/ Left(c, PostCall)')
      BY <1>3, <2>5 DEF Passed
    <2>7. Passed(c, x)
      BY <2>5, <2>6 DEF Passed
    <2> QED
      BY <2>2, <2>3, <2>4, <2>7
  <1> QED
    BY <1>1, <1>2, <1>3, RemovalKept

\* when the target's list gets the invitation, which nobody works on yet,
LEMMA RemovalOffer ==
    ASSUME JeuxInvariant, RemovalOK, NEW c \in Clients, Offer(c)
    PROVE  RemovalOK'
  <1>1. PICK v \in Invs, t \in Clients :
             /\ v = InvOf(c) /\ pc[c] = "offer" /\ KeepsParties /\ OthersWait(c)
             /\ Op(c)' = "invite"
             /\ \A e : In(work'[c].todo, e) => e.call \notin {"post", "remove"}
             /\ \A d \in Clients, u \in Invs : Holds(d, u)' <=> Holds(d, u) \/ (d = t /\ u = v)
    BY OfferIs
  <1>2. ASSUME NEW d \in Clients, NEW x \in Clients, NEW u \in Invs,
               Passed(d, x), u = InvOf(d), Holds(x, u)'
        PROVE  Holds(x, u)
    <2>1. u # v
      BY <1>1, <1>2 DEF JeuxInvariant, OffersApart, Passed
    <2> QED
      BY <1>1, <1>2, <2>1
  <1>3. \A x : ~Passed(c, x)'
    <2>1. ~In(work'[c].todo, PostCall)
      BY <1>1 DEF PostCall
    <2> QED
      BY <1>1, <2>1 DEF Passed, Left, PostCall, Closers
  <1> QED
    BY <1>1, <1>2, <1>3, RemovalKept

\* and when there is a new one.
LEMMA RemovalCreates ==
    ASSUME JeuxInvariant, RemovalOK, NEW c \in Clients, NEW v \in Invs, NEW i \in Slots,
           NEW k \in Clients \ {c}, OthersWait(c), Creates(c, v, i, k)
    PROVE  RemovalOK'
  <1>1. /\ KeepsParties /\ pc'[c] = "offer"
        /\ \A d \in Clients : InvOf(d) # v
        /\ \A d \in Clients, u \in Invs : Holds(d, u)' <=> Holds(d, u) \/ (d = c /\ u = v)
    BY CreatesIs
  <1>2. \A d, x \in Clients : \A u \in Invs :
            Passed(d, x) /\ u = InvOf(d) /\ Holds(x, u)' => Holds(x, u)
    BY <1>1
  <1>3. \A x : ~Passed(c, x)'
    BY <1>1 DEF Passed
  <1> QED
    BY <1>1, <1>2, <1>3, RemovalKept

\* A result is posted behind both lists: the thread has nothing new behind it.
LEMMA RemovalPosts ==
    ASSUME JeuxInvariant, RemovalOK, NEW c \in Clients, NEW v \in Invs, Posts(c, v)
    PROVE  RemovalOK'
  <1>1. /\ list' = list /\ KeepsParties /\ OthersWait(c) /\ inv' = inv
        /\ pc[c] = "todo" /\ v = InvOf(c) /\ InvOf(c)' = v /\ inv[v] # NULL
        /\ Left(c, PostCall) /\ \A x : ~Left(c, Remove(x))
    BY PostsIs
  <1>2. \A d, x \in Clients : \A u \in Invs :
            Passed(d, x) /\ u = InvOf(d) /\ Holds(x, u)' => Holds(x, u)
    BY <1>1 DEF Holds
  <1>3. Parties(InvOf(c))' = Parties(v) /\ Parties(v) \subseteq Clients
    <2>1. Parties(v) \subseteq Clients
      BY <1>1, PartiesAre DEF JeuxInvariant, InvitationsOK
    <2> QED
      BY <1>1, <2>1 DEF Parties
  <1>4. \A x : Passed(c, x)
    BY <1>1 DEF Passed
  <1> QED
    BY <1>1, <1>2, <1>3, <1>4, RemovalKept

\* The thread that finds the invitation in a list is the first one to pass it,
\* and the last: from then on it is not there.
LEMMA RemovalRemoves ==
    ASSUME JeuxInvariant, RemovalOK, NEW c \in Clients, NEW y \in Clients, NEW v \in Invs,
           NEW i \in Slots, At(c, "remove"), Removes(c, y, v, i)
    PROVE  RemovalOK'
  <1>1. /\ KeepsParties /\ OthersWait(c)
        /\ pc[c] = "todo" /\ v = InvOf(c) /\ InvOf(c)' = v /\ Op(c)' = Op(c)
        /\ inv[v] # NULL /\ y \in Parties(v) /\ Holds(y, v)
        /\ \A e : In(work'[c].todo, e) => Left(c, e)
        /\ \A e : Left(c, e) /\ e # Remove(y) => In(work'[c].todo, e)
        /\ \A d \in Clients, u \in Invs : Holds(d, u)' <=> Holds(d, u) /\ ~(d = y /\ u = v)
    BY RemovesIs
  <1>2. ASSUME NEW d \in Clients, InvOf(d) = v PROVE ~Passed(d, y)
    <2>1. y \in Parties(InvOf(d)) /\ Holds(y, InvOf(d))
      BY <1>1, <1>2
    <2> QED
      BY <2>1 DEF RemovalOK
  <1>3. Parties(InvOf(c))' = Parties(v) /\ Parties(v) \subseteq Clients
    <2>1. Parties(v) \subseteq Clients /\ inv[v].source \in Clients
      BY <1>1, PartiesAre DEF JeuxInvariant, InvitationsOK
    <2>2. inv'[v].source = inv[v].source /\ inv'[v].target = inv[v].target
      BY <1>1 DEF KeepsParties
    <2> QED
      BY <1>1, <2>1, <2>2 DEF Parties
  <1>4. ASSUME NEW x, x # y, Passed(c, x)' PROVE Passed(c, x)
    <2>1. Remove(x) # Remove(y)
      BY <1>4 DEF Remove
    <2>2. ~In(work'[c].todo, Remove(x)) /\ (Op(c) \in Closers \/ In(work'[c].todo, PostCall))
      BY <1>1, <1>4 DEF Passed, Left, PostCall, Remove
    <2> QED
      BY <1>1, <2>1, <2>2 DEF Passed
  <1>5. ASSUME NEW d \in Clients, NEW x \in Parties(InvOf(d))', Passed(d, x)'
        PROVE  /\ InvOf(d)' = InvOf(d) /\ x \in Parties(InvOf(d)) /\ x \in Clients
               /\ InvOf(d) \in Invs
               /\ Passed(d, x) \/ (d = c /\ x = y)
    <2>1. CASE d = c
      BY <1>1, <1>3, <1>4, <1>5, <2>1
    <2>2. CASE d # c
      BY <1>1, <1>5, <2>2, PassedWaits
    <2> QED
      BY <2>1, <2>2
  <1>6. ASSUME NEW d \in Clients, NEW x \in Parties(InvOf(d))', Passed(d, x)'
        PROVE  ~Holds(x, InvOf(d))'
    <2>1. PICK u \in Invs : /\ u = InvOf(d) /\ InvOf(d)' = u /\ x \in Clients
                            /\ x \in Parties(InvOf(d))
                            /\ Passed(d, x) \/ (d = c /\ x = y)
      BY <1>5, <1>6
    <2>2. ~Holds(x, u)'
      <3>1. CASE Passed(d, x)
        <4>1. ~Holds(x, u)
          BY <1>5, <1>6, <2>1, <3>1 DEF RemovalOK
        <4> QED
          BY <1>1, <2>1, <4>1
      <3>2. CASE d = c /\ x = y
        BY <1>1, <2>1, <3>2
      <3> QED
        BY <2>1, <3>1, <3>2
    <2> QED
      BY <2>1, <2>2 DEF Holds
  <1>7. ASSUME NEW a \in Clients, NEW b \in Clients, NEW x \in Parties(InvOf(a))',
               Passed(a, x)', Passed(b, x)', InvOf(a)' = InvOf(b)'
        PROVE  a = b
    <2>1. x \in Parties(InvOf(b))'
      BY <1>7 DEF Parties
    <2>2. /\ InvOf(a)' = InvOf(a) /\ x \in Parties(InvOf(a))
          /\ Passed(a, x) \/ (a = c /\ x = y)
      BY <1>5, <1>7
    <2>3. InvOf(b)' = InvOf(b) /\ (Passed(b, x) \/ (b = c /\ x = y))
      BY <1>5, <1>7, <2>1
    <2>4. InvOf(a) = InvOf(b)
      BY <1>7, <2>2, <2>3
    <2>5. CASE Passed(a, x) /\ Passed(b, x)
      BY <2>2, <2>4, <2>5 DEF RemovalOK
    <2>6. CASE (a = c \/ b = c) /\ x = y
      <3>1. InvOf(a) = v /\ InvOf(b) = v
        BY <1>1, <2>4, <2>6
      <3> QED
        BY <1>2, <2>2, <2>3, <2>6, <3>1
    <2> QED
      BY <2>2, <2>3, <2>5, <2>6
  <1> QED
    BY <1>6, <1>7 DEF RemovalOK

\* OneRemover: of the threads that end one game or invitation, movers that see
\* its end (client.c:591-623) and those inv_close lets through, one at most gets
\* past client_remove_invitation for each of the two lists.
THEOREM OneThreadRemoves == Spec => []OneRemover
  <1>1. Init => RemovalOK
    BY DEF Init, RemovalOK, Passed
  <1>2. JeuxInvariant /\ RemovalOK /\ [Next]_vars => RemovalOK'
    BY StepIs, RemovalStill, RemovalQuiet, RemovalOffer, RemovalCreates, RemovalRemoves,
       RemovalPosts
  <1>3. RemovalOK => OneRemover
    <2>1. \A c \in Clients : \A x : HasRemoved(c, x) <=> x \in Parties(InvOf(c)) /\ Passed(c, x)
      BY DEF HasRemoved, Ending, Closing, Owes, Parties, Passed, Left, In, PostCall, Closers
    <2> QED
      BY <2>1 DEF RemovalOK, OneRemover
  <1> QED
    BY <1>1, <1>2, <1>3, InvariantHolds, PTL DEF Spec

\* Steps that post nothing, give no invitation back to its source, and make no
\* thread one that rates.
LEMMA RatingKept ==
    ASSUME JeuxInvariant, RatingOK, NEW c \in Clients,
           posted' = posted, KeepsParties, OthersWait(c),
           \A u \in Invs : inv[u] # NULL /\ SourceHolds(u)' => SourceHolds(u),
           Rating(c)' => Rating(c) /\ InvOf(c)' = InvOf(c)
    PROVE  RatingOK'
  <1>1. ASSUME NEW d \in Clients, Rating(d)'
        PROVE  Rating(d) /\ InvOf(d)' = InvOf(d) /\ InvOf(d) \in Invs /\ inv[InvOf(d)] # NULL
    <2>1. Rating(d) /\ InvOf(d)' = InvOf(d)
      BY <1>1, WaitingIs DEF OthersWait
    <2> QED
      BY <2>1, WorksOn DEF Rating
  <1>2. ASSUME NEW d \in Clients, Rating(d)'
        PROVE  posted'[InvOf(d)'] = 0 /\ ~SourceHolds(InvOf(d))'
    <2>1. PICK u \in Invs : u = InvOf(d) /\ InvOf(d)' = u /\ inv[u] # NULL /\ Rating(d)
      BY <1>1, <1>2
    <2>2. posted[u] = 0 /\ ~SourceHolds(u)
      BY <2>1 DEF RatingOK
    <2>3. ~SourceHolds(u)'
      BY <2>1, <2>2
    <2> QED
      BY <2>1, <2>2, <2>3 DEF SourceHolds
  <1>3. ASSUME NEW a \in Clients, NEW b \in Clients, Rating(a)', Rating(b)', InvOf(a)' = InvOf(b)'
        PROVE  a = b
    BY <1>1, <1>3 DEF RatingOK
  <1>4. ASSUME NEW u \in Invs, posted'[u] # 0
        PROVE  inv'[u] # NULL /\ posted'[u] = 1 /\ ~SourceHolds(u)'
    BY <1>4 DEF RatingOK, KeepsParties
  <1> QED
    BY <1>2, <1>3, <1>4 DEF RatingOK

\* RatingOK when nothing it speaks of changes,
LEMMA RatingStill ==
    ASSUME RatingOK, Still
    PROVE  RatingOK'
  <1>1. /\ \A d \in Clients : InvOf(d)' = InvOf(d) /\ (Rating(d)' <=> Rating(d))
        /\ \A u : SourceHolds(u)' <=> SourceHolds(u)
    BY DEF Still, Rating, Left, InvOf, SourceHolds, Holds
  <1>2. \A d \in Clients : SourceHolds(InvOf(d))' <=> SourceHolds(InvOf(d))
    BY <1>1 DEF SourceHolds, Holds, Still, InvOf
  <1> QED
    BY <1>1, <1>2 DEF RatingOK, Still

\* in a quiet step,
LEMMA RatingQuiet ==
    ASSUME JeuxInvariant, RatingOK, NEW c \in Clients, Quiet(c)
    PROVE  RatingOK'
  <1>1. posted' = posted /\ list' = list /\ KeepsParties /\ OthersWait(c)
    BY DEF Quiet
  <1>2. \A u \in Invs : inv[u] # NULL /\ SourceHolds(u)' => SourceHolds(u)
    BY <1>1 DEF KeepsParties, SourceHolds, Holds
  <1>3. ASSUME Rating(c)' PROVE Rating(c) /\ InvOf(c)' = InvOf(c)
    <2>1. pc'[c] = "todo" /\ GoesOn(c)
      BY <1>3 DEF Rating, Quiet
    <2>2. PICK v \in Invs : v = InvOf(c) /\ InvOf(c)' = v /\ inv[v] # NULL
      BY <2>1, WorksOn DEF GoesOn
    <2>3. inv'[v].source = inv[v].source /\ inv[v].source \in Parties(v)
      BY <1>1, <2>2 DEF KeepsParties, Parties
    <2>4. Left(c, PostCall)' /\ ~Left(c, Remove(inv[v].source))'
      BY <1>3, <2>2 DEF Rating
    <2>5. PICK s \in Parties(v) : s = inv[v].source
      BY <2>3
    <2>6. Left(c, PostCall)' /\ ~Left(c, Remove(s))'
      BY <2>3, <2>4, <2>5 DEF Left
    <2>7. pc[c] = "todo" /\ Left(c, PostCall) /\ ~Left(c, Remove(s))
      BY <2>1, <2>2, <2>6 DEF GoesOn
    <2> QED
      BY <2>2, <2>5, <2>7 DEF Rating
  <1> QED
    BY <1>1, <1>2, <1>3, RatingKept

\* when the target's list gets the invitation,
LEMMA RatingOffer ==
    ASSUME JeuxInvariant, RatingOK, NEW c \in Clients, Offer(c)
    PROVE  RatingOK'
  <1>1. PICK v \in Invs, t \in Clients :
             /\ v = InvOf(c) /\ pc[c] = "offer" /\ inv[v] # NULL
             /\ inv[v].source = c /\ inv[v].target = t /\ c # t
             /\ posted' = posted /\ KeepsParties /\ OthersWait(c)
             /\ pc'[c] = "todo" /\ InvOf(c)' = v /\ Op(c)' = "invite"
             /\ \A e : In(work'[c].todo, e) => e.call \notin {"post", "remove"}
             /\ \A d \in Clients, u \in Invs : Holds(d, u)' <=> Holds(d, u) \/ (d = t /\ u = v)
    BY OfferIs
  <1>2. ASSUME NEW u \in Invs, inv[u] # NULL, SourceHolds(u)' PROVE SourceHolds(u)
    <2>1. PICK s \in Clients : s = inv[u].source /\ inv'[u].source = s
      BY <1>1, <1>2, PartiesAre DEF JeuxInvariant, InvitationsOK, KeepsParties
    <2>2. Holds(s, u)'
      BY <1>2, <2>1 DEF SourceHolds, Holds
    <2>3. Holds(s, u)
      BY <1>1, <2>1, <2>2
    <2> QED
      BY <2>1, <2>3 DEF SourceHolds
  <1>3. ~Rating(c)'
    <2>1. ~In(work'[c].todo, PostCall)
      BY <1>1 DEF PostCall
    <2> QED
      BY <2>1 DEF Rating, Left, PostCall
  <1> QED
    BY <1>1, <1>2, <1>3, RatingKept

\* and when there is a new one, which no thread rates.
LEMMA RatingCreates ==
    ASSUME JeuxInvariant, RatingOK, NEW c \in Clients, NEW v \in Invs, NEW i \in Slots,
           NEW k \in Clients \ {c}, OthersWait(c), Creates(c, v, i, k)
    PROVE  RatingOK'
  <1>1. /\ posted' = posted /\ posted[v] = 0 /\ KeepsParties
        /\ pc'[c] = "offer"
        /\ \A u \in Invs \ {v} : inv'[u] = inv[u]
        /\ \A d \in Clients : InvOf(d) # v
        /\ \A d \in Clients, u \in Invs : Holds(d, u)' <=> Holds(d, u) \/ (d = c /\ u = v)
    BY CreatesIs
  <1>2. ASSUME NEW u \in Invs, u # v, inv[u] # NULL, SourceHolds(u)' PROVE SourceHolds(u)
    <2>1. PICK s \in Clients : s = inv[u].source /\ inv'[u].source = s
      BY <1>1, <1>2, PartiesAre DEF JeuxInvariant, InvitationsOK, KeepsParties
    <2>2. Holds(s, u)'
      BY <1>2, <2>1 DEF SourceHolds, Holds
    <2>3. Holds(s, u)
      BY <1>1, <1>2, <2>1, <2>2
    <2> QED
      BY <2>1, <2>3 DEF SourceHolds
  <1>3. ASSUME NEW u \in Invs, inv[u] # NULL, SourceHolds(u)' PROVE SourceHolds(u)
    BY <1>2, <1>3 DEF Creates
  <1>4. ~Rating(c)'
    BY <1>1 DEF Rating
  <1> QED
    BY <1>1, <1>3, <1>4, RatingKept

\* The thread that finds the invitation in its source's list is the first one,
\* and the last: from then on it is not there.
LEMMA RatingRemoves ==
    ASSUME JeuxInvariant, RatingOK, NEW c \in Clients, NEW x \in Clients, NEW v \in Invs,
           NEW i \in Slots, At(c, "remove"), Removes(c, x, v, i)
    PROVE  RatingOK'
  <1>1. /\ posted' = posted /\ KeepsParties /\ OthersWait(c)
        /\ pc[c] = "todo" /\ pc'[c] = "todo" /\ v = InvOf(c) /\ InvOf(c)' = v
        /\ inv[v] # NULL /\ Holds(x, v)
        /\ \A e : In(work'[c].todo, e) => Left(c, e)
        /\ \A e : Left(c, e) /\ e # Remove(x) => In(work'[c].todo, e)
        /\ \A d \in Clients, u \in Invs : Holds(d, u)' <=> Holds(d, u) /\ ~(d = x /\ u = v)
    BY RemovesIs
  <1>2. ASSUME NEW u \in Invs, inv[u] # NULL
        PROVE  \E s \in Clients : /\ s = inv[u].source /\ inv'[u].source = s
                                  /\ SourceHolds(u) <=> Holds(s, u)
                                  /\ SourceHolds(u)' <=> Holds(s, u)'
    <2>1. PICK s \in Clients : s = inv[u].source /\ inv'[u].source = s
      BY <1>1, <1>2, PartiesAre DEF JeuxInvariant, InvitationsOK, KeepsParties
    <2> QED
      BY <2>1 DEF SourceHolds, Holds
  <1>3. \A u \in Invs : inv[u] # NULL /\ SourceHolds(u)' => SourceHolds(u)
    BY <1>1, <1>2
  <1>4. CASE Rating(c)' => Rating(c)
    BY <1>1, <1>3, <1>4, RatingKept
  <1>5. CASE Rating(c)' /\ ~Rating(c)
    <2>1. PICK s \in Clients : /\ s = inv[v].source /\ inv'[v].source = s
                               /\ SourceHolds(v) <=> Holds(s, v)
                               /\ SourceHolds(v)' <=> Holds(s, v)'
      BY <1>1, <1>2
    <2>2. x = s
      <3>1. In(work'[c].todo, PostCall) /\ ~In(work'[c].todo, Remove(s))
        BY <1>1, <1>5, <2>1 DEF Rating, Left, PostCall
      <3>2. Left(c, PostCall) /\ Left(c, Remove(s))
        BY <1>1, <1>5, <2>1, <3>1 DEF Rating
      <3>3. Remove(s) = Remove(x)
        BY <1>1, <3>1, <3>2
      <3> QED
        BY <3>3 DEF Remove
    <2>3. posted[v] = 0 /\ \A d \in Clients : Rating(d) => InvOf(d) # v
      BY <1>1, <2>1, <2>2 DEF RatingOK, JeuxInvariant, TypeOK
    <2>4. ~SourceHolds(v)'
      BY <1>1, <2>1, <2>2
    <2>5. ASSUME NEW d \in Clients, d # c, Rating(d)'
          PROVE  Rating(d) /\ InvOf(d)' = InvOf(d)
      BY <1>1, <2>5, WaitingIs DEF OthersWait
    <2>6. ASSUME NEW d \in Clients, Rating(d)'
          PROVE  posted'[InvOf(d)'] = 0 /\ ~SourceHolds(InvOf(d))'
      <3>1. CASE d = c
        <4>1. ~SourceHolds(InvOf(c))'
          BY <1>1, <2>4 DEF SourceHolds
        <4> QED
          BY <1>1, <2>3, <3>1, <4>1
      <3>2. CASE d # c
        <4>1. PICK u \in Invs : u = InvOf(d) /\ InvOf(d)' = u /\ inv[u] # NULL /\ Rating(d)
          BY <2>5, <2>6, <3>2, WorksOn DEF Rating
        <4>2. posted[u] = 0 /\ ~SourceHolds(u)'
          BY <1>3, <4>1 DEF RatingOK
        <4> QED
          BY <1>1, <4>1, <4>2 DEF SourceHolds
      <3> QED
        BY <3>1, <3>2
    <2>7. ASSUME NEW a \in Clients, NEW b \in Clients, Rating(a)', Rating(b)',
                 InvOf(a)' = InvOf(b)'
          PROVE  a = b
      BY <1>1, <2>3, <2>5, <2>7 DEF RatingOK
    <2>8. ASSUME NEW u \in Invs, posted'[u] # 0
          PROVE  inv'[u] # NULL /\ posted'[u] = 1 /\ ~SourceHolds(u)'
      BY <1>1, <1>3, <2>8 DEF RatingOK, KeepsParties
    <2> QED
      BY <2>6, <2>7, <2>8 DEF RatingOK
  <1> QED
    BY <1>4, <1>5

\* It posts once, and no other thread is to post the same result.
LEMMA RatingPosts ==
    ASSUME JeuxInvariant, RatingOK, NEW c \in Clients, NEW v \in Invs, Posts(c, v)
    PROVE  RatingOK'
  <1>1. /\ UNCHANGED <<list, inv>> /\ KeepsParties /\ OthersWait(c)
        /\ pc[c] = "todo" /\ v = InvOf(c) /\ inv[v] # NULL
        /\ Left(c, PostCall) /\ \A x : ~Left(c, Remove(x))
        /\ \A e : ~In(work'[c].todo, e)
        /\ posted \in [Invs -> Nat] /\ posted' = [posted EXCEPT ![v] = @ + 1]
    BY PostsIs
  <1>2. Rating(c) /\ ~Rating(c)'
    BY <1>1 DEF Rating, Left, PostCall
  <1>3. posted[v] = 0 /\ ~SourceHolds(v) /\ \A d \in Clients : Rating(d) /\ InvOf(d) = v => d = c
    BY <1>1, <1>2 DEF RatingOK
  <1>4. posted'[v] = 1 /\ \A u \in Invs \ {v} : posted'[u] = posted[u]
    BY <1>1, <1>3
  <1>5. ASSUME NEW d \in Clients, Rating(d)'
        PROVE  d # c /\ Rating(d) /\ InvOf(d)' = InvOf(d) /\ InvOf(d) \in Invs /\ InvOf(d) # v
    <2>1. d # c
      BY <1>2, <1>5
    <2>2. Rating(d) /\ InvOf(d)' = InvOf(d)
      BY <1>1, <1>5, <2>1, WaitingIs DEF OthersWait
    <2> QED
      BY <1>3, <2>1, <2>2, WorksOn DEF Rating
  <1>6. \A u : SourceHolds(u)' <=> SourceHolds(u)
    BY <1>1 DEF SourceHolds, Holds
  <1>7. ASSUME NEW d \in Clients, Rating(d)'
        PROVE  posted'[InvOf(d)'] = 0 /\ ~SourceHolds(InvOf(d))'
    <2>1. PICK u \in Invs : u = InvOf(d) /\ InvOf(d)' = u /\ u # v /\ Rating(d)
      BY <1>5, <1>7
    <2>2. posted[u] = 0 /\ ~SourceHolds(u)'
      BY <1>6, <2>1 DEF RatingOK
    <2> QED
      BY <1>4, <2>1, <2>2 DEF SourceHolds
  <1>8. ASSUME NEW a \in Clients, NEW b \in Clients, Rating(a)', Rating(b)', InvOf(a)' = InvOf(b)'
        PROVE  a = b
    BY <1>5, <1>8 DEF RatingOK
  <1>9. ASSUME NEW u \in Invs, posted'[u] # 0
        PROVE  inv'[u] # NULL /\ posted'[u] = 1 /\ ~SourceHolds(u)'
    BY <1>1, <1>3, <1>4, <1>6, <1>9 DEF RatingOK
  <1> QED
    BY <1>7, <1>8, <1>9 DEF RatingOK

\* RatedOnce: no game is rated twice (player_post_result, called by
\* client_make_move and client_resign_game), though both may find it over.
THEOREM RatedOnceHolds == Spec => []RatedOnce
  <1>1. Init => RatingOK
    BY DEF Init, RatingOK, Rating
  <1>2. JeuxInvariant /\ RatingOK /\ [Next]_vars => RatingOK'
    BY StepIs, RatingStill, RatingQuiet, RatingOffer, RatingCreates, RatingRemoves, RatingPosts
  <1>3. RatingOK => RatedOnce
    <2> SUFFICES ASSUME RatingOK, NEW v \in Invs PROVE posted[v] <= 1
      BY DEF RatedOnce
    <2>1. posted[v] = 0 \/ posted[v] = 1
      BY DEF RatingOK
    <2> QED
      BY <2>1
  <1> QED
    BY <1>1, <1>2, <1>3, InvariantHolds, PTL DEF Spec

\* A thread that waits repairs what it did before.
LEMMA WaitingRepairs ==
    ASSUME JeuxInvariant, KeepsParties, NEW d \in Clients, pc'[d] = pc[d], work'[d] = work[d],
           NEW u, NEW x, NEW y
    PROVE  Repairs(d, u, x, y)' <=> Repairs(d, u, x, y)
  <1>1. InvOf(d)' = InvOf(d) /\ (HalfDone(d, x, y)' <=> HalfDone(d, x, y))
    BY WaitingIs
  <1> QED
    BY <1>1 DEF Repairs

\* What a step of a thread has to show for the lists to agree where it matters.
LEMMA AgreementIf ==
    ASSUME JeuxInvariant, AgreementOK, NEW c \in Clients, KeepsParties, OthersWait(c), TypeOK',
           pc'[c] = "todo" => \E u \in Invs :
               /\ u = InvOf(c)' /\ inv[u] # NULL
               /\ \A x, y \in Parties(u) : HalfDone(c, x, y)' => ~Holds(y, u)',
           \A d \in Clients \ {c}, u \in Invs, y \in Clients :
               pc[d] = "todo" /\ u = InvOf(d) /\ Holds(y, u)' => Holds(y, u),
           \A u \in Invs : inv[u] # NULL => \A x, y \in Parties(u) :
               Holds(x, u)' /\ ~Holds(y, u)' =>
                   Repairs(c, u, x, y)' \/ \E d \in Clients \ {c} : Repairs(d, u, x, y),
           \A u \in Invs : inv[u] = NULL /\ inv'[u] # NULL =>
               \A x, y \in Clients :
                   {x, y} \subseteq {inv'[u].source, inv'[u].target} /\ Holds(x, u)' /\ ~Holds(y, u)' => Repairs(c, u, x, y)',
           \A d \in Clients \ {c}, u \in Invs :
               pc[d] = "offer" /\ u = InvOf(d) => Holds(d, u)',
           pc'[c] = "offer" => \E u \in Invs : u = InvOf(c)' /\ Holds(c, u)'
    PROVE  AgreementOK'
  <1>1. \A u \in Invs : inv[u] # NULL => inv'[u] # NULL /\ Parties(u)' = Parties(u)
    BY DEF KeepsParties, Parties
  <1>2. \A d \in Clients \ {c} :
            /\ pc'[d] = pc[d] /\ InvOf(d)' = InvOf(d)
            /\ \A x, y : HalfDone(d, x, y)' <=> HalfDone(d, x, y)
    BY WaitingIs DEF OthersWait
  <1>3. ASSUME NEW d \in Clients, pc'[d] = "todo",
               NEW x \in Parties(InvOf(d))', NEW y \in Parties(InvOf(d))', HalfDone(d, x, y)'
        PROVE  ~Holds(y, InvOf(d))'
    <2>1. CASE d = c
      <3>1. PICK u \in Invs : /\ u = InvOf(c)' /\ inv[u] # NULL
                              /\ \A a, b \in Parties(u) : HalfDone(c, a, b)' => ~Holds(b, u)'
        BY <1>3, <2>1
      <3>2. x \in Parties(u) /\ y \in Parties(u)
        BY <1>1, <1>3, <2>1, <3>1 DEF Parties
      <3>3. HalfDone(c, x, y)'
        BY <1>3, <2>1
      <3>4. ~Holds(y, u)'
        BY <3>1, <3>2, <3>3
      <3> QED
        BY <2>1, <3>1, <3>4 DEF Holds
    <2>2. CASE d # c
      <3>1. pc[d] = "todo" /\ InvOf(d)' = InvOf(d) /\ HalfDone(d, x, y)
        BY <1>2, <1>3, <2>2
      <3>2. PICK u \in Invs : u = InvOf(d) /\ InvOf(d)' = u /\ inv[u] # NULL
                              /\ inv[u].source # inv[u].target
        BY <3>1, WorksOn
      <3>3. x \in Parties(u) /\ y \in Parties(u) /\ y \in Clients
        <4>1. x \in Parties(u) /\ y \in Parties(u)
          BY <1>1, <1>3, <3>2 DEF Parties
        <4> QED
          BY <3>2, <4>1, PartiesAre DEF JeuxInvariant
      <3>4. ~Holds(y, u)
        BY <3>1, <3>2, <3>3 DEF AgreementOK
      <3>5. ~Holds(y, u)'
        BY <2>2, <3>1, <3>2, <3>3, <3>4
      <3> QED
        BY <3>2, <3>5 DEF Holds
    <2> QED
      BY <2>1, <2>2
  <1>4. ASSUME NEW u \in Invs, inv'[u] # NULL, NEW x \in Parties(u)', NEW y \in Parties(u)',
               Holds(x, u)', ~Holds(y, u)'
        PROVE  \E d \in Clients : Repairs(d, u, x, y)'
    <2>1. CASE inv[u] = NULL
      <3>1. x \in {inv'[u].source, inv'[u].target} /\ y \in {inv'[u].source, inv'[u].target}
        BY DEF Parties
      <3>2. inv'[u].source \in Clients /\ inv'[u].target \in Clients
        BY <1>4 DEF TypeOK, Invitation
      <3> QED
        BY <1>4, <2>1, <3>1, <3>2
    <2>2. CASE inv[u] # NULL
      <3>1. x \in Parties(u) /\ y \in Parties(u)
        BY <1>1, <1>4, <2>2
      <3>2. ASSUME NEW d \in Clients \ {c}, Repairs(d, u, x, y) PROVE Repairs(d, u, x, y)'
        BY <3>2, WaitingRepairs DEF OthersWait
      <3> QED
        BY <1>4, <2>2, <3>1, <3>2
    <2> QED
      BY <2>1, <2>2
  <1>5. ASSUME NEW d \in Clients, pc'[d] = "offer" PROVE Holds(d, InvOf(d))'
    <2>1. CASE d = c
      BY <1>5, <2>1 DEF Holds
    <2>2. CASE d # c
      <3>1. PICK u \in Invs : u = InvOf(d) /\ InvOf(d)' = u /\ pc[d] = "offer"
        BY <1>2, <1>5, <2>2, WorksOn
      <3>2. Holds(d, u)'
        BY <2>2, <3>1
      <3> QED
        BY <3>1, <3>2 DEF Holds
    <2> QED
      BY <2>1, <2>2
  <1> QED
    BY <1>3, <1>4, <1>5 DEF AgreementOK

\* AgreementOK when nothing it speaks of changes.
LEMMA AgreementStill ==
    ASSUME AgreementOK, Still
    PROVE  AgreementOK'
  <1>1. /\ \A x, u : Holds(x, u)' <=> Holds(x, u)
        /\ \A d \in Clients : InvOf(d)' = InvOf(d)
        /\ \A d \in Clients : \A x, y : HalfDone(d, x, y)' <=> HalfDone(d, x, y)
        /\ \A u : Parties(u)' = Parties(u)
    BY DEF Still, Holds, InvOf, HalfDone, Left, Parties
  <1>2. \A d \in Clients : /\ Parties(InvOf(d))' = Parties(InvOf(d))
                           /\ \A y : Holds(y, InvOf(d))' <=> Holds(y, InvOf(d))
    BY DEF Still, InvOf, Parties, Holds
  <1>3. \A d \in Clients : \A u, x, y : Repairs(d, u, x, y)' <=> Repairs(d, u, x, y)
    BY <1>1 DEF Still, Repairs
  <1> QED
    BY <1>1, <1>2, <1>3 DEF AgreementOK, Still

\* A thread that has half of a removal to do takes no quiet step.
LEMMA AgreementQuiet ==
    ASSUME JeuxInvariant, AgreementOK, NEW c \in Clients, Quiet(c), TypeOK'
    PROVE  AgreementOK'
  <1>1. /\ list' = list /\ KeepsParties /\ OthersWait(c) /\ pc[c] # "offer" /\ pc'[c] # "offer"
        /\ NeedsNone(c)
    BY DEF Quiet
  <1>2. \A x, u : Holds(x, u)' <=> Holds(x, u)
    BY <1>1 DEF Holds
  <1>3. ASSUME pc'[c] = "todo"
        PROVE  \E u \in Invs :
               /\ u = InvOf(c)' /\ inv[u] # NULL
               /\ \A x, y \in Parties(u) : HalfDone(c, x, y)' => ~Holds(y, u)'
    <2>1. GoesOn(c)
      BY <1>3 DEF Quiet
    <2>2. PICK u \in Invs : u = InvOf(c) /\ InvOf(c)' = u /\ inv[u] # NULL
      BY <2>1, WorksOn DEF GoesOn
    <2>3. ASSUME NEW x \in Parties(u), NEW y \in Parties(u), HalfDone(c, x, y)'
          PROVE  ~Holds(y, u)'
      <3>1. HalfDone(c, x, y)
        BY <2>1, <2>2, <2>3 DEF GoesOn
      <3>2. pc[c] = "todo"
        BY <3>1 DEF HalfDone
      <3>3. ~Holds(y, u)
        BY <2>2, <3>1, <3>2 DEF AgreementOK
      <3> QED
        BY <1>2, <3>3
    <2> QED
      BY <2>2, <2>3
  <1>4. ASSUME NEW u \in Invs, inv[u] # NULL, NEW x \in Parties(u), NEW y \in Parties(u),
               Holds(x, u)', ~Holds(y, u)'
        PROVE  \E d \in Clients \ {c} : Repairs(d, u, x, y)
    <2>1. Holds(x, u) /\ ~Holds(y, u)
      BY <1>2, <1>4
    <2>2. PICK d \in Clients : Repairs(d, u, x, y)
      BY <1>4, <2>1 DEF AgreementOK
    <2>3. d # c
      <3>1. Repairs(c, u, x, y) => pc[c] = "todo" /\ u = InvOf(c) /\ HalfDone(c, x, y)
        BY <1>1 DEF Repairs, HalfDone
      <3>2. ~Repairs(c, u, x, y)
        BY <1>1, <1>4, <2>1, <3>1 DEF NeedsNone
      <3> QED
        BY <2>2, <3>2
    <2> QED
      BY <2>2, <2>3
  <1>5. ASSUME NEW u \in Invs, inv[u] = NULL, NEW x \in Clients PROVE ~Holds(x, u)'
    BY <1>2, <1>5, HeldIsAllocated
  <1>6. \A d \in Clients \ {c}, u \in Invs : pc[d] = "offer" /\ u = InvOf(d) => Holds(d, u)'
    BY <1>2 DEF AgreementOK
  <1> QED
    BY <1>1, <1>2, <1>3, <1>4, <1>5, <1>6, AgreementIf

\* The offer gives the invitation to the one party that did not have it.
LEMMA AgreementOffer ==
    ASSUME JeuxInvariant, AgreementOK, NEW c \in Clients, Offer(c), TypeOK'
    PROVE  AgreementOK'
  <1>1. PICK v \in Invs, t \in Clients :
             /\ v = InvOf(c) /\ pc[c] = "offer" /\ inv[v] # NULL
             /\ inv[v].source = c /\ inv[v].target = t /\ c # t
             /\ posted' = posted /\ KeepsParties /\ OthersWait(c)
             /\ pc'[c] = "todo" /\ InvOf(c)' = v /\ Op(c)' = "invite"
             /\ \A e : In(work'[c].todo, e) => e.call \notin {"post", "remove"}
             /\ \A d \in Clients, u \in Invs : Holds(d, u)' <=> Holds(d, u) \/ (d = t /\ u = v)
    BY OfferIs
  <1>2. \A x, y : ~HalfDone(c, x, y)'
    <2>1. \A x : ~In(work'[c].todo, Remove(x))
      BY <1>1 DEF Remove
    <2> QED
      BY <2>1 DEF HalfDone, Left
  <1>3. \A d \in Clients \ {c} : InvOf(d) # v
    BY <1>1 DEF JeuxInvariant, OffersApart
  <1>4. Holds(c, v) /\ Holds(c, v)' /\ Holds(t, v)'
    BY <1>1 DEF AgreementOK
  <1>5. ASSUME NEW u \in Invs, inv[u] # NULL, NEW x \in Parties(u), NEW y \in Parties(u),
               Holds(x, u)', ~Holds(y, u)'
        PROVE  \E d \in Clients \ {c} : Repairs(d, u, x, y)
    <2>1. u # v
      BY <1>1, <1>4, <1>5 DEF Parties
    <2>2. x \in Clients /\ y \in Clients
      BY <1>5, PartiesAre DEF JeuxInvariant, InvitationsOK
    <2>3. Holds(x, u) /\ ~Holds(y, u)
      BY <1>1, <1>5, <2>1, <2>2
    <2>4. PICK d \in Clients : Repairs(d, u, x, y)
      BY <1>5, <2>3 DEF AgreementOK
    <2>5. d # c
      BY <1>1, <2>1, <2>4 DEF Repairs
    <2> QED
      BY <2>4, <2>5
  <1>6. ASSUME NEW u \in Invs, inv[u] = NULL, NEW x \in Clients PROVE ~Holds(x, u)'
    BY <1>1, <1>6, HeldIsAllocated
  <1>7. \A d \in Clients \ {c}, u \in Invs : pc[d] = "offer" /\ u = InvOf(d) => Holds(d, u)'
    BY <1>1 DEF AgreementOK
  <1>8. \A d \in Clients \ {c}, u \in Invs, y \in Clients :
            pc[d] = "todo" /\ u = InvOf(d) /\ Holds(y, u)' => Holds(y, u)
    BY <1>1, <1>3
  <1>9. \E u \in Invs : /\ u = InvOf(c)' /\ inv[u] # NULL
                        /\ \A x, y \in Parties(u) : HalfDone(c, x, y)' => ~Holds(y, u)'
    BY <1>1, <1>2
  <1> QED
    BY <1>1, <1>5, <1>6, <1>7, <1>8, <1>9, AgreementIf

\* A new invitation is offered next.
LEMMA AgreementCreates ==
    ASSUME JeuxInvariant, AgreementOK, NEW c \in Clients, NEW v \in Invs, NEW i \in Slots,
           NEW k \in Clients \ {c}, OthersWait(c), Creates(c, v, i, k), TypeOK'
    PROVE  AgreementOK'
  <1>1. /\ KeepsParties /\ pc[c] = "create" /\ pc'[c] = "offer" /\ InvOf(c)' = v
        /\ inv'[v].source = c /\ inv'[v].target = k
        /\ \A u \in Invs \ {v} : inv'[u] = inv[u]
        /\ \A d \in Clients : ~Holds(d, v) /\ InvOf(d) # v
        /\ \A d \in Clients, u \in Invs : Holds(d, u)' <=> Holds(d, u) \/ (d = c /\ u = v)
    BY CreatesIs
  <1>2. inv[v] = NULL
    BY DEF Creates
  <1>3. ASSUME NEW u \in Invs, inv[u] # NULL, NEW x \in Parties(u), NEW y \in Parties(u),
               Holds(x, u)', ~Holds(y, u)'
        PROVE  \E d \in Clients \ {c} : Repairs(d, u, x, y)
    <2>1. u # v /\ x \in Clients /\ y \in Clients
      BY <1>2, <1>3, PartiesAre DEF JeuxInvariant, InvitationsOK
    <2>2. Holds(x, u) /\ ~Holds(y, u)
      BY <1>1, <1>3, <2>1
    <2>3. PICK d \in Clients : Repairs(d, u, x, y)
      BY <1>3, <2>2 DEF AgreementOK
    <2>4. d # c
      BY <1>1, <2>3 DEF Repairs, HalfDone
    <2> QED
      BY <2>3, <2>4
  <1>4. ASSUME NEW u \in Invs, inv[u] = NULL, inv'[u] # NULL, NEW x, NEW y
        PROVE  Repairs(c, u, x, y)'
    <2>1. u = v
      BY <1>1, <1>4
    <2> QED
      BY <1>1, <2>1 DEF Repairs
  <1>5. \A d \in Clients \ {c}, u \in Invs : pc[d] = "offer" /\ u = InvOf(d) => Holds(d, u)'
    BY <1>1 DEF AgreementOK
  <1>6. \A d \in Clients \ {c}, u \in Invs, y \in Clients :
            pc[d] = "todo" /\ u = InvOf(d) /\ Holds(y, u)' => Holds(y, u)
    BY <1>1
  <1>7. Holds(c, v)'
    BY <1>1
  <1> QED
    BY <1>1, <1>3, <1>4, <1>5, <1>6, <1>7, AgreementIf

\* Whoever takes the invitation from one party has the other party's list to
\* do, or has done it.
LEMMA AgreementRemoves ==
    ASSUME JeuxInvariant, AgreementOK, NEW c \in Clients, NEW z \in Clients, NEW v \in Invs,
           NEW i \in Slots, At(c, "remove"), Removes(c, z, v, i), TypeOK'
    PROVE  AgreementOK'
  <1>1. /\ KeepsParties /\ OthersWait(c)
        /\ pc[c] = "todo" /\ pc'[c] = "todo" /\ v = InvOf(c) /\ InvOf(c)' = v
        /\ inv[v] # NULL /\ z \in Parties(v)
        /\ Left(c, Remove(z)) /\ ~In(work'[c].todo, Remove(z))
        /\ \A e : In(work'[c].todo, e) => Left(c, e)
        /\ \A e : Left(c, e) /\ e # Remove(z) => In(work'[c].todo, e)
        /\ \A d \in Clients, u \in Invs : Holds(d, u)' <=> Holds(d, u) /\ ~(d = z /\ u = v)
    BY RemovesIs
  <1>2. \A x, y : HalfDone(c, x, y)' <=> In(work'[c].todo, Remove(x)) /\ ~In(work'[c].todo, Remove(y))
    BY <1>1 DEF HalfDone, Left
  <1>3. \A u \in Invs : inv[u] # NULL => Parties(u) \subseteq Clients
    BY PartiesAre DEF JeuxInvariant, InvitationsOK
  <1>4. \A x : x # z => Remove(x) # Remove(z)
    BY DEF Remove
  <1>5. ASSUME NEW x \in Parties(v), NEW y \in Parties(v), HalfDone(c, x, y)'
        PROVE  ~Holds(y, v)'
    <2>1. In(work'[c].todo, Remove(x)) /\ ~In(work'[c].todo, Remove(y))
      BY <1>2, <1>5
    <2>2. CASE y = z
      BY <1>1, <1>3, <2>2
    <2>3. CASE y # z
      <3>1. HalfDone(c, x, y)
        BY <1>1, <1>4, <2>1, <2>3 DEF HalfDone
      <3>2. ~Holds(y, v)
        BY <1>1, <3>1 DEF AgreementOK
      <3> QED
        BY <1>1, <1>3, <3>2
    <2> QED
      BY <2>2, <2>3
  <1>6. ASSUME NEW u \in Invs, inv[u] # NULL, NEW x \in Parties(u), NEW y \in Parties(u),
               Holds(x, u)', ~Holds(y, u)'
        PROVE  Repairs(c, u, x, y)' \/ \E d \in Clients \ {c} : Repairs(d, u, x, y)
    <2>1. x \in Clients /\ y \in Clients /\ Holds(x, u) /\ ~(x = z /\ u = v)
      BY <1>1, <1>3, <1>6
    <2>2. CASE u = v /\ y = z
      <3>1. Left(c, Remove(x))
        <4>1. SUFFICES ASSUME ~Left(c, Remove(x)) PROVE FALSE
          OBVIOUS
        <4>2. HalfDone(c, z, x)
          BY <1>1, <4>1 DEF HalfDone
        <4> QED
          BY <1>1, <1>6, <2>1, <2>2, <4>2 DEF AgreementOK
      <3>2. HalfDone(c, x, y)'
        BY <1>1, <1>2, <1>4, <2>1, <2>2, <3>1
      <3> QED
        BY <1>1, <2>2, <3>2 DEF Repairs
    <2>3. CASE ~(u = v /\ y = z)
      <3>1. ~Holds(y, u)
        BY <1>1, <1>6, <2>1, <2>3
      <3>2. PICK d \in Clients : Repairs(d, u, x, y)
        BY <1>6, <2>1, <3>1 DEF AgreementOK
      <3>3. ASSUME d = c PROVE Repairs(c, u, x, y)'
        <4>1. u = v /\ HalfDone(c, x, y)
          BY <1>1, <3>2, <3>3 DEF Repairs
        <4>2. y # z /\ x # z
          BY <1>1, <2>1, <4>1 DEF HalfDone
        <4>3. HalfDone(c, x, y)'
          BY <1>1, <1>2, <1>4, <4>1, <4>2 DEF HalfDone
        <4> QED
          BY <1>1, <4>1, <4>3 DEF Repairs
      <3> QED
        BY <3>2, <3>3
    <2> QED
      BY <2>2, <2>3
  <1>7. ASSUME NEW u \in Invs, inv[u] = NULL, NEW x \in Clients PROVE ~Holds(x, u)'
    BY <1>1, <1>7, HeldIsAllocated
  <1>8. ASSUME NEW d \in Clients \ {c}, NEW u \in Invs, pc[d] = "offer", u = InvOf(d)
        PROVE  Holds(d, u)'
    <2>1. u # v
      BY <1>1, <1>8 DEF JeuxInvariant, OffersApart
    <2> QED
      BY <1>1, <1>8, <2>1 DEF AgreementOK
  <1>9. \A d \in Clients \ {c}, u \in Invs, y \in Clients :
            pc[d] = "todo" /\ u = InvOf(d) /\ Holds(y, u)' => Holds(y, u)
    BY <1>1
  <1>10. \E u \in Invs : /\ u = InvOf(c)' /\ inv[u] # NULL
                         /\ \A x, y \in Parties(u) : HalfDone(c, x, y)' => ~Holds(y, u)'
    BY <1>1, <1>5
  <1> QED
    BY <1>1, <1>6, <1>7, <1>8, <1>9, <1>10, AgreementIf

\* A result is posted when nothing is left to remove.
LEMMA AgreementPosts ==
    ASSUME JeuxInvariant, AgreementOK, NEW c \in Clients, NEW v \in Invs, Posts(c, v), TypeOK'
    PROVE  AgreementOK'
  <1>1. /\ UNCHANGED <<list, inv>> /\ KeepsParties /\ OthersWait(c)
        /\ pc[c] = "todo" /\ pc'[c] = "todo" /\ v = InvOf(c) /\ InvOf(c)' = v /\ inv[v] # NULL
        /\ \A x : ~Left(c, Remove(x))
        /\ \A e : ~In(work'[c].todo, e)
    BY PostsIs
  <1>2. \A x, u : Holds(x, u)' <=> Holds(x, u)
    BY <1>1 DEF Holds
  <1>3. \A x, y : ~HalfDone(c, x, y) /\ ~HalfDone(c, x, y)'
    BY <1>1 DEF HalfDone, Left
  <1>4. ASSUME NEW u \in Invs, inv[u] # NULL, NEW x \in Parties(u), NEW y \in Parties(u),
               Holds(x, u)', ~Holds(y, u)'
        PROVE  \E d \in Clients \ {c} : Repairs(d, u, x, y)
    <2>1. PICK d \in Clients : Repairs(d, u, x, y)
      BY <1>2, <1>4 DEF AgreementOK
    <2>2. d # c
      BY <1>1, <1>3, <2>1 DEF Repairs
    <2> QED
      BY <2>1, <2>2
  <1>5. ASSUME NEW u \in Invs, inv[u] = NULL, NEW x \in Clients PROVE ~Holds(x, u)'
    BY <1>2, <1>5, HeldIsAllocated
  <1>6. \A d \in Clients \ {c}, u \in Invs : pc[d] = "offer" /\ u = InvOf(d) => Holds(d, u)'
    BY <1>2 DEF AgreementOK
  <1>7. \E u \in Invs : /\ u = InvOf(c)' /\ inv[u] # NULL
                        /\ \A x, y \in Parties(u) : HalfDone(c, x, y)' => ~Holds(y, u)'
    BY <1>1, <1>3
  <1> QED
    BY <1>1, <1>2, <1>4, <1>5, <1>6, <1>7, AgreementIf

\* ListsAgree: the lists of two clients (client.c) differ in an invitation only
\* while a thread is between its two calls of client_add_invitation or of
\* client_remove_invitation for it.
THEOREM ListsAgreeHolds == Spec => []ListsAgree
  <1>1. Init => AgreementOK
    BY DEF Init, AgreementOK, HalfDone
  <1>2. JeuxInvariant /\ AgreementOK /\ [Next]_vars => AgreementOK'
    <2> SUFFICES ASSUME JeuxInvariant, AgreementOK, [Next]_vars PROVE AgreementOK'
      OBVIOUS
    <2>1. TypeOK'
      BY NextInvariant DEF JeuxInvariant
    <2> QED
      BY <2>1, StepIs, AgreementStill, AgreementQuiet, AgreementOffer, AgreementCreates,
         AgreementRemoves, AgreementPosts
  <1>3. JeuxInvariant /\ AgreementOK => ListsAgree
    <2> SUFFICES ASSUME JeuxInvariant, AgreementOK, NEW v \in Invs, inv[v] # NULL, ~Busy(v)
                 PROVE  Holds(inv[v].source, v) <=> Holds(inv[v].target, v)
      BY DEF ListsAgree
    <2>1. \A x, y \in Parties(v) : Holds(x, v) => Holds(y, v)
      <3> SUFFICES ASSUME NEW x \in Parties(v), NEW y \in Parties(v), Holds(x, v), ~Holds(y, v)
                   PROVE  FALSE
        OBVIOUS
      <3>1. PICK c \in Clients : Repairs(c, v, x, y)
        BY DEF AgreementOK
      <3>2. Busy(v)
        BY <3>1 DEF Busy, Repairs, HalfDone
      <3> QED
        BY <3>2
    <2> QED
      BY <2>1 DEF Parties
  <1> QED
    BY <1>1, <1>2, <1>3, InvariantHolds, PTL DEF Spec
===============================================================================
