--------------------------------- MODULE Jeux ---------------------------------
(***************************************************************************)
(* The invitations and games of the jeux server: hw5/src/client.c,         *)
(* invitation.c and the logged-in part of server.c, run by one service     *)
(* thread per client.  Module ClientRegistry has the threads' life before  *)
(* the login and around the registry; here all clients are logged in, and  *)
(* creg_lookup is one step.  Module Game has what a GAME does inside.      *)
(*                                                                         *)
(* A step ends where the code releases a mutex, or where it has read, with *)
(* no lock held, something another thread may change before it is used.    *)
(* What a handler still has to do after its critical step is kept in       *)
(* todo, one element per function it calls.                                *)
(***************************************************************************)
EXTENDS GameRules, Sequences, FiniteSets

CONSTANTS Clients,   \* the clients, each with its service thread
          Invs,      \* the INVITATION objects that can be allocated
          NSlots,    \* the length of client->invitations, 1000 in the code
          IdMod,     \* invitation ids are uint8_t: 256 in the code
          MaxGames,  \* bound on the games created for one invitation
          MaxDown,   \* bound on the connections that go down
          NULL

ASSUME ObjectsAssumption == NULL \notin Clients /\ NULL \notin Invs
ASSUME SizesAssumption == /\ NSlots \in Nat \ {0} /\ IdMod \in Nat \ {0}
                          /\ MaxGames \in Nat \ {0} /\ MaxDown \in Nat

VARIABLES open,    \* the clients whose connection is up
          player,  \* the clients with client->player # NULL
          list,    \* client->invitations
          inv,     \* the INVITATIONs, NULL when not allocated
          games,   \* the GAMEs created for each invitation, in order
          posted,  \* how often player_post_result was called for an invitation
          pc, work, next,  \* where each service thread is
          fault    \* where the process died, or its behaviour became undefined

shared == <<open, player, list, inv, games, posted>>
vars   == <<shared, pc, work, next, fault>>

Slots    == 0..(NSlots - 1)
IdOf(i)  == i % IdMod
States   == {"open", "accepted", "closed"}

\* struct invitation.  game is the number of the current game, 0 for NULL.
Invitation == [state : States, source : Clients, target : Clients, role : PlayerRole,
               refs : Nat, game : 0..MaxGames]
ASSUME NullAssumption == NULL \notin Invitation

\* What a thread works on: the request, the slot and the invitation it found,
\* the GAME pointer it holds, the client it invites, the id it will send, and
\* the calls that are left.
Requests == {"revoke", "decline", "accept", "resign", "move"}
Calls    == {"remove", "send", "find", "read", "over", "post"}
ToDo     == [call : Calls, who : Clients \cup {NULL}]
Work     == [op : Requests \cup {"invite", NULL}, slot : Slots \cup {NULL},
             inv : Invs \cup {NULL}, game : 0..MaxGames, peer : Clients \cup {NULL},
             id : Slots \cup {NULL}, todo : Seq(ToDo)]
NoWork   == [op |-> NULL, slot |-> NULL, inv |-> NULL, game |-> 0, peer |-> NULL,
             id |-> NULL, todo |-> << >>]

Init ==
    /\ open = Clients
    /\ player = Clients
    /\ list = [c \in Clients |-> [i \in Slots |-> NULL]]
    /\ inv = [v \in Invs |-> NULL]
    /\ games = [v \in Invs |-> << >>]
    /\ posted = [v \in Invs |-> 0]
    /\ pc = [c \in Clients |-> "idle"]
    /\ work = [c \in Clients |-> NoWork]
    /\ next = [c \in Clients |-> NULL]   \* the slot client_logout is at
    /\ fault = "none"

Goto(c, l)    == pc' = [pc EXCEPT ![c] = l]
Go(c, l, w)   == Goto(c, l) /\ work' = [work EXCEPT ![c] = w]
Fault(where)  == fault' = where /\ UNCHANGED <<pc, work, next>>
Op(c)         == work[c].op
InvOf(c)      == work[c].inv
Role(c, v)    == IF inv[v].source = c THEN inv[v].role ELSE Opponent(inv[v].role)
Peer(c, v)    == IF inv[v].source = c THEN inv[v].target ELSE inv[v].source
GameOf(v, g)  == games[v][g]
Holds(c, v)   == \E i \in Slots : list[c][i] = v

\* Mutant of Done: client_logout tries again what it could not resign.
DoneRetries(c, ok) ==
    /\ Go(c, IF next[c] = NULL THEN "reply"
             ELSE IF ok \/ Op(c) = "resign" THEN "scan" ELSE "gone", NoWork)
    /\ next' = IF ok \/ next[c] = NULL THEN next ELSE [next EXCEPT ![c] = @ - 1]
    /\ UNCHANGED fault

\* The end of a handler.  A request is answered with an ACK or a NACK;
\* client_logout goes on with the next slot, unless a revocation or a refusal
\* returned -1: then it gives up and the thread unregisters the client as it is.
Done(c, ok) ==
    /\ Go(c, IF next[c] = NULL THEN "reply"
             ELSE IF ok \/ Op(c) = "resign" THEN "scan" ELSE "gone", NoWork)
    /\ UNCHANGED <<next, fault>>

-------------------------------------------------------------------------------
\* INVITE: creg_lookup finds another client that is logged in.
Invite(c, k) ==
    /\ pc[c] = "idle" /\ c \in open
    /\ k \in player \ {c} /\ pc[k] # "gone"
    /\ Cardinality({d \in Clients : pc[d] = "create"})
          < Cardinality({v \in Invs : inv[v] = NULL})  \* bound
    /\ Go(c, "create", [NoWork EXCEPT !.op = "invite", !.peer = k])
    /\ UNCHANGED <<shared, next, fault>>

\* The first empty slot of a client's list, if there is one.
FirstEmpty(c, i) == list[c][i] = NULL /\ \A j \in Slots : list[c][j] = NULL => i <= j
Add(c, v)        == \E i \in Slots : FirstEmpty(c, i) /\ list' = [list EXCEPT ![c][i] = v]

\* A client that left may have been freed, unless an invitation refers to it.
MayBeFreed(k) ==
    pc[k] = "gone" /\ \A v \in Invs : inv[v] # NULL => k \notin {inv[v].source, inv[v].target}

\* inv_create and client_add_invitation(source): the references are the
\* creator's, the list's and one "for being associated with a source client".
Create(c, role) ==
    LET k == work[c].peer IN
    /\ pc[c] = "create"
    /\ \/ MayBeFreed(k) /\ Fault("freed client") /\ UNCHANGED <<list, inv>>
       \/ \E v \in Invs, i \in Slots :
            /\ inv[v] = NULL
            /\ FirstEmpty(c, i)
            /\ inv' = [inv EXCEPT ![v] = [state |-> "open", source |-> c, target |-> k,
                                          role |-> role, refs |-> 3, game |-> 0]]
            /\ list' = [list EXCEPT ![c][i] = v]
            /\ Go(c, "offer", [work[c] EXCEPT !.inv = v, !.id = IdOf(i)])
            /\ UNCHANGED <<next, fault>>
    /\ UNCHANGED <<open, player, games, posted>>

\* Mutant of Offer: the source's list is taken for the target's.
OfferToSource(c) ==
    LET v == InvOf(c) IN
    /\ pc[c] = "offer"
    /\ Add(inv[v].source, v)
    /\ inv' = [inv EXCEPT ![v].refs = @ + 2]
    /\ Go(c, "todo", [work[c] EXCEPT !.todo = <<[call |-> "send", who |-> inv[v].target]>>])
    /\ UNCHANGED <<open, player, games, posted, next, fault>>

\* client_add_invitation(target); INVITED is sent with the source's id.
Offer(c) ==
    LET v == InvOf(c) IN
    /\ pc[c] = "offer"
    /\ Add(inv[v].target, v)
    /\ inv' = [inv EXCEPT ![v].refs = @ + 2]
    /\ Go(c, "todo", [work[c] EXCEPT !.todo = <<[call |-> "send", who |-> inv[v].target]>>])
    /\ UNCHANGED <<open, player, games, posted, next, fault>>

\* A list of 1000 invitations is full: client_add_invitation goes on with an
\* uninitialised pointer.
ListFull(c) ==
    /\ \/ pc[c] = "create" /\ \A i \in Slots : list[c][i] # NULL
       \/ pc[c] = "offer" /\ \A i \in Slots : list[inv[InvOf(c)].target][i] # NULL
    /\ Fault("list full")
    /\ UNCHANGED shared

-------------------------------------------------------------------------------
\* client_inv_search, without a lock: the first invitation with that id.
Begin(c, op, id) ==
    LET matches == {i \in Slots : list[c][i] # NULL /\ IdOf(i) = id} IN
    IF matches = {} THEN Done(c, FALSE)
    ELSE \E i \in matches : /\ \A j \in matches : i <= j
                            /\ Go(c, "check", [NoWork EXCEPT !.op = op, !.slot = i])
                            /\ UNCHANGED <<next, fault>>

\* REVOKE, DECLINE, ACCEPT, RESIGN or MOVE.
Request(c, op, id) ==
    /\ pc[c] = "idle" /\ c \in open
    /\ op = "accept" => \A v \in Invs : Holds(c, v) => inv[v].game < MaxGames  \* bound
    /\ Begin(c, op, id)
    /\ UNCHANGED shared

\* The conditions under which each handler goes on, read without a lock.
CanDo(c, v) ==
    CASE Op(c) = "revoke"              -> inv[v].source = c /\ inv[v].game = 0
      [] Op(c) \in {"decline", "accept"} -> inv[v].target = c
      [] Op(c) = "resign"              -> inv[v].game # 0 /\ ~GameOf(v, inv[v].game).isOver
      [] OTHER                         -> TRUE

\* The slot is read again and the conditions are tested.  A move is parsed
\* with the game's mutex, whether there is a game or not.
Check(c) ==
    LET v == list[c][work[c].slot] IN
    /\ pc[c] = "check"
    /\ IF v = NULL THEN Fault("search")
       ELSE IF Op(c) = "move" /\ inv[v].game = 0 THEN Fault("no game")
       ELSE \/ /\ CanDo(c, v)
               /\ Go(c, "do", [work[c] EXCEPT !.inv = v, !.game = inv[v].game])
               /\ UNCHANGED <<next, fault>>
            \/ /\ ~CanDo(c, v) \/ Op(c) = "move"   \* the move cannot be parsed
               /\ Done(c, FALSE)
    /\ UNCHANGED shared

\* What is left to do once an invitation is closed or accepted or a move is made.
Remove(c)  == [call |-> "remove", who |-> c]
Send(c)    == [call |-> "send", who |-> c]
Find(c)    == <<[call |-> "find", who |-> c], [call |-> "read", who |-> c]>>

\* Mutant of Rest: a refused invitation stays in the opponent's list.
RestOneSided(c, v) ==
    LET p == Peer(c, v) IN
    CASE Op(c) \in {"revoke", "decline"} -> <<Remove(c), Send(p)>>
      [] Op(c) = "resign" -> Find(p) \o <<Send(p), Remove(inv[v].target), Remove(inv[v].source)>>
      [] Op(c) = "accept" -> Find(p) \o <<Send(p)>>
      [] Op(c) = "move"   -> Find(p) \o <<Send(p), [call |-> "over", who |-> NULL]>>

Rest(c, v) ==
    LET p == Peer(c, v) IN
    CASE Op(c) \in {"revoke", "decline"} -> <<Remove(c), Remove(p), Send(p)>>
      [] Op(c) = "resign" -> Find(p) \o <<Send(p), Remove(inv[v].target), Remove(inv[v].source)>>
      [] Op(c) = "accept" -> Find(p) \o <<Send(p)>>
      [] Op(c) = "move"   -> Find(p) \o <<Send(p), [call |-> "over", who |-> NULL]>>

\* Mutant of AfterGame: the result is not posted.
AfterGameUnrated(v) ==
    LET s == inv[v].source  t == inv[v].target IN
    Find(s) \o Find(t) \o <<Send(s), Send(t), Remove(s), Remove(t)>>

AfterGame(v) ==
    LET s == inv[v].source  t == inv[v].target IN
    Find(s) \o Find(t) \o <<Send(s), Send(t), Remove(s), Remove(t),
                            [call |-> "post", who |-> NULL]>>

Continue(c) == Go(c, "todo", [work[c] EXCEPT !.todo = Rest(c, InvOf(c))]) /\ UNCHANGED <<next, fault>>

\* Mutant of Close: an invitation can be closed again.
CloseAgain(c) ==
    LET v == InvOf(c) IN
    /\ pc[c] = "do" /\ Op(c) \in {"revoke", "decline", "resign"}
    /\ inv' = [inv EXCEPT ![v].state = "closed"]
    /\ Continue(c)
    /\ UNCHANGED <<open, player, list, games, posted>>

\* inv_close: a game in progress is resigned if the invitation was accepted.
Close(c) ==
    LET v == InvOf(c) IN
    /\ pc[c] = "do" /\ Op(c) \in {"revoke", "decline", "resign"}
    /\ IF inv[v].state = "closed" THEN Done(c, FALSE) /\ UNCHANGED <<inv, games>>
       ELSE /\ inv' = [inv EXCEPT ![v].state = "closed"]
            /\ games' = IF inv[v].state = "accepted"
                        THEN [games EXCEPT ![v][inv[v].game] = AfterResign(@, Role(c, v))]
                        ELSE games
            /\ Continue(c)
    /\ UNCHANGED <<open, player, list, posted>>

\* inv_accept: a game is created, the state stays what it is.
Accept(c) ==
    LET v == InvOf(c) IN
    /\ pc[c] = "do" /\ Op(c) = "accept"
    /\ IF inv[v].state # "open" THEN Done(c, FALSE) /\ UNCHANGED <<inv, games>>
       ELSE /\ games' = [games EXCEPT ![v] = Append(@, NewOutcome)]
            /\ inv' = [inv EXCEPT ![v].game = @ + 1]
            /\ Continue(c)
    /\ UNCHANGED <<open, player, list, posted>>

\* game_apply_move on the game that Check read.
Move(c) ==
    LET v == InvOf(c)  g == work[c].game IN
    /\ pc[c] = "do" /\ Op(c) = "move"
    /\ \/ /\ \E o \in AfterMove(GameOf(v, g), Role(c, v)) : games' = [games EXCEPT ![v][g] = o]
          /\ Continue(c)
       \/ Done(c, FALSE) /\ UNCHANGED games    \* not on turn, or the space is taken
    /\ UNCHANGED <<open, player, list, inv, posted>>

-------------------------------------------------------------------------------
\* The remaining calls, one after the other.
At(c, what) == pc[c] = "todo" /\ work[c].todo # << >> /\ Head(work[c].todo).call = what
Who(c)      == Head(work[c].todo).who
Pop(c)      == /\ work' = [work EXCEPT ![c].todo = Tail(@)]
               /\ UNCHANGED <<pc, next, fault>>

Finish(c) ==
    /\ pc[c] = "todo" /\ work[c].todo = << >>
    /\ Done(c, TRUE)
    /\ UNCHANGED shared

\* Mutant of RemoveFrom: an invitation that is not there counts as removed.
RemoveTolerant(c) ==
    LET x == Who(c)  v == InvOf(c)  here == {i \in Slots : list[x][i] = v} IN
    /\ At(c, "remove")
    /\ list' = [list EXCEPT ![x] = [i \in Slots |-> IF i \in here THEN NULL ELSE @[i]]]
    /\ inv' = IF here = {} THEN inv ELSE [inv EXCEPT ![v].refs = @ - 1]
    /\ Pop(c)
    /\ UNCHANGED <<open, player, games, posted>>

\* client_remove_invitation looks into every slot up to the one it wants.
RemoveFrom(c) ==
    LET x == Who(c)  v == InvOf(c)
        stop == {i \in Slots : list[x][i] \in {NULL, v}}
    IN
    /\ At(c, "remove")
    /\ IF stop = {} THEN Done(c, FALSE) /\ UNCHANGED <<list, inv>>
       ELSE \E i \in stop :
            /\ \A j \in stop : i <= j
            /\ IF list[x][i] = NULL THEN Fault("remove") /\ UNCHANGED <<list, inv>>
               ELSE /\ list' = [list EXCEPT ![x][i] = NULL]
                    /\ inv' = [inv EXCEPT ![v].refs = @ - 1]
                    /\ Pop(c)
    /\ UNCHANGED <<open, player, games, posted>>

\* client_send_packet: on a connection that is down a write may still
\* succeed, may fail, or kill the process with SIGPIPE.
SendTo(c) ==
    /\ At(c, "send")
    /\ \/ Pop(c)
       \/ Who(c) \notin open /\ Done(c, FALSE)
       \/ Who(c) \notin open /\ Fault("SIGPIPE")
    /\ UNCHANGED shared

\* client_id_search: the slot is found under the mutex, its id is read after
\* the mutex is released.
FindIn(c) ==
    LET here == {i \in Slots : list[Who(c)][i] = InvOf(c)} IN
    /\ At(c, "find")
    /\ IF here = {}
       THEN work' = [work EXCEPT ![c].todo = Tail(Tail(@))]
       ELSE \E i \in here : work' = [work EXCEPT ![c].todo = Tail(@), ![c].slot = i]
    /\ UNCHANGED <<shared, pc, next, fault>>

ReadId(c) ==
    /\ At(c, "read")
    /\ IF list[Who(c)][work[c].slot] = NULL THEN Fault("id") ELSE Pop(c)
    /\ UNCHANGED shared

\* game_is_over, without the game's mutex and some time after the move.
SeeOver(c) ==
    LET v == InvOf(c) IN
    /\ At(c, "over")
    /\ work' = [work EXCEPT ![c].todo = IF GameOf(v, work[c].game).isOver
                                        THEN AfterGame(v) ELSE << >>]
    /\ UNCHANGED <<shared, pc, next, fault>>

\* player_post_result of the players the two clients have by now.
Post(c) ==
    LET v == InvOf(c) IN
    /\ At(c, "post")
    /\ IF {inv[v].source, inv[v].target} \subseteq player
       THEN posted' = [posted EXCEPT ![v] = @ + 1] /\ Pop(c)
       ELSE Fault("no player") /\ UNCHANGED posted
    /\ UNCHANGED <<open, player, list, inv, games>>

\* The ACK or NACK; its failure is not looked at.
Reply(c) ==
    /\ pc[c] = "reply"
    /\ \/ Goto(c, "idle") /\ UNCHANGED <<work, next, fault>>
       \/ c \notin open /\ Fault("SIGPIPE")
    /\ UNCHANGED shared

-------------------------------------------------------------------------------
\* The connection goes down: closed by the peer, or by creg_shutdown_all.
Disconnect(c) ==
    /\ c \in open
    /\ Cardinality(Clients \ open) < MaxDown  \* bound
    /\ open' = open \ {c}
    /\ UNCHANGED <<player, list, inv, games, posted, pc, work, next, fault>>

\* EOF: client_logout goes through the list ...
Eof(c) ==
    /\ pc[c] = "idle" /\ c \notin open
    /\ Goto(c, "scan")
    /\ next' = [next EXCEPT ![c] = 0]
    /\ UNCHANGED <<shared, work, fault>>

\* Mutant of Scan: an invitation is skipped.
ScanSkips(c) ==
    LET left == {i \in Slots : i >= next[c] /\ list[c][i] # NULL} IN
    /\ pc[c] = "scan"
    /\ IF left = {} THEN Goto(c, "gone") /\ player' = player \ {c} /\ UNCHANGED next
       ELSE \E i \in left : /\ \A j \in left : i <= j
                            /\ Goto(c, "scan")
                            /\ next' = [next EXCEPT ![c] = i + 2]
                            /\ UNCHANGED player
    /\ UNCHANGED <<open, list, inv, games, posted, work, fault>>

\* ... to the next invitation, and releases the mutex; at the end the client
\* is logged out, and then unregistered ...
Scan(c) ==
    LET left == {i \in Slots : i >= next[c] /\ list[c][i] # NULL} IN
    /\ pc[c] = "scan"
    /\ IF left = {} THEN Goto(c, "gone") /\ player' = player \ {c} /\ UNCHANGED next
       ELSE \E i \in left : /\ \A j \in left : i <= j
                            /\ Goto(c, "visit")
                            /\ next' = [next EXCEPT ![c] = i + 1]
                            /\ UNCHANGED player
    /\ UNCHANGED <<open, list, inv, games, posted, work, fault>>

\* ... and reads it again, if it is still there, for each of its tests, whether
\* there is a game and who is the source ...
Visit(c) ==
    LET v == list[c][next[c] - 1]
        take(op) == Go(c, "pick", [NoWork EXCEPT !.op = op])
    IN
    /\ pc[c] \in {"visit", "side"}
    /\ IF v = NULL THEN Fault("logout")
       ELSE /\ \/ pc[c] = "visit" /\ inv[v].game # 0 /\ take("resign")
               \/ pc[c] = "visit" /\ inv[v].game = 0 /\ Goto(c, "side") /\ UNCHANGED work
               \/ pc[c] = "side" /\ take(IF inv[v].source = c THEN "revoke" ELSE "decline")
            /\ UNCHANGED <<next, fault>>
    /\ UNCHANGED shared

\* ... and once more for its id, by which ...
Pick(c) ==
    /\ pc[c] = "pick"
    /\ IF list[c][next[c] - 1] = NULL THEN Fault("logout")
       ELSE /\ Go(c, "search", [work[c] EXCEPT !.id = IdOf(next[c] - 1)])
            /\ UNCHANGED <<next, fault>>
    /\ UNCHANGED shared

\* ... the call then looks for it.
Search(c) ==
    /\ pc[c] = "search"
    /\ Begin(c, Op(c), work[c].id)
    /\ UNCHANGED shared

Thread(c) == \/ \E role \in PlayerRole : Create(c, role)
             \/ Offer(c) \/ ListFull(c)
             \/ Check(c) \/ Close(c) \/ Accept(c) \/ Move(c)
             \/ RemoveFrom(c) \/ SendTo(c) \/ FindIn(c) \/ ReadId(c)
             \/ SeeOver(c) \/ Post(c) \/ Finish(c) \/ Reply(c)
             \/ Eof(c) \/ Scan(c) \/ Visit(c) \/ Pick(c) \/ Search(c)

Packet(c) == \/ \E k \in Clients : Invite(c, k)
             \/ \E op \in Requests, i \in Slots : Request(c, op, IdOf(i))

Alive == fault = "none"
Step(c) == Alive /\ Thread(c)
Next == Alive /\ \E c \in Clients : Thread(c) \/ Packet(c) \/ Disconnect(c)

\* Service threads are scheduled fairly; packets and disconnections are up to
\* the peers.
Spec == Init /\ [][Next]_vars /\ \A c \in Clients : WF_vars(Step(c))

-------------------------------------------------------------------------------
TypeOK ==
    /\ open \subseteq Clients
    /\ player \subseteq Clients
    /\ list \in [Clients -> [Slots -> Invs \cup {NULL}]]
    /\ inv \in [Invs -> Invitation \cup {NULL}]
    /\ games \in [Invs -> Seq(Outcome)]
    /\ posted \in [Invs -> Nat]
    /\ pc \in [Clients -> {"idle", "create", "offer", "check", "do", "todo", "reply",
                           "scan", "visit", "side", "pick", "search", "gone"}]
    /\ work \in [Clients -> Work]
    /\ next \in [Clients -> Slots \cup {NSlots, NULL}]

\* An invitation is in the lists of its two parties only, and once at most.
ListsAreProper ==
    \A c \in Clients, i \in Slots :
        list[c][i] # NULL =>
            LET v == list[c][i] IN
            /\ inv[v] # NULL /\ c \in {inv[v].source, inv[v].target}
            /\ \A j \in Slots : list[c][j] = v => i = j

\* When no thread is working on an invitation, both parties have it in their
\* lists or neither has.
Busy(v) == \E c \in Clients : InvOf(c) = v /\ pc[c] # "gone"
ListsAgree ==
    \A v \in Invs : inv[v] # NULL /\ ~Busy(v) /\ Alive =>
        (Holds(inv[v].source, v) <=> Holds(inv[v].target, v))

\* However REVOKE, DECLINE, RESIGN and the logouts of the two parties overlap,
\* inv_close lets one of their threads go on with an invitation.
Closing(c) == pc[c] = "todo" /\ Op(c) \in {"revoke", "decline", "resign"}
OneCloser  == \A c, d \in Clients : Closing(c) /\ Closing(d) /\ InvOf(c) = InvOf(d) => c = d

\* MOVE does not call inv_close: both movers that see the end of a game, and one
\* thread that closes the invitation meanwhile, go on to take it out of the
\* lists.  Of all of them one at most gets past a party's list, the others fail
\* at it; a result is posted behind both.
Owes(c, call) == \E k \in 1..Len(work[c].todo) : work[c].todo[k] = call
Ending(c)     == Closing(c) \/ (pc[c] = "todo" /\ Owes(c, [call |-> "post", who |-> NULL]))
HasRemoved(c, x) == /\ Ending(c) /\ x \in {inv[InvOf(c)].source, inv[InvOf(c)].target}
                    /\ ~Owes(c, Remove(x))
OneRemover == \A c, d, x \in Clients :
                 HasRemoved(c, x) /\ HasRemoved(d, x) /\ InvOf(c) = InvOf(d) => c = d

\* A game is rated at most once, although both threads may see it end.
RatedOnce == \A v \in Invs : posted[v] <= 1

\* A client whose connection went down is logged out and unregistered in the
\* end, whatever its opponents do in the meantime, unless the process dies.
LogoutEnds == \A c \in Clients : c \notin open ~> (pc[c] = "gone" \/ ~Alive)

\* While the connections are up, an invitation that is closed leaves both
\* lists.
Closed(v) == inv[v] # NULL /\ inv[v].state = "closed"
ClosedIsDropped ==
    \A v \in Invs :
        Closed(v) ~> (\A c \in Clients : ~Holds(c, v)) \/ open # Clients \/ ~Alive

\* The result of a game that was played to its end is posted, unless the
\* invitation was closed by the other side at the same time.
GameEnded(v) == inv[v] # NULL /\ inv[v].game # 0 /\ GameOf(v, inv[v].game).isOver
EndedIsRated ==
    \A v \in Invs :
        GameEnded(v) ~> posted[v] = 1 \/ Closed(v) \/ open # Clients \/ ~Alive
===============================================================================
