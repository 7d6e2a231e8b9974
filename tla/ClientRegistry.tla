---------------------------- MODULE ClientRegistry ----------------------------
(***************************************************************************)
(* The client registry of the jeux server (hw5/src/client_registry.c) with *)
(* everything that runs against it: the service threads of server.c, from  *)
(* the accepted connection through login, lookups and the user list to     *)
(* logout and creg_unregister, and the SIGHUP handler of main.c, which     *)
(* shuts the connections down, waits for the registry to become empty and  *)
(* frees it.                                                               *)
(*                                                                         *)
(* A step is what a thread does between two semaphore operations, or up to *)
(* a read of another client's fields, which the registry's mutex does not  *)
(* protect.  Names stand for players: name[c] is client_get_player(c), and *)
(* NULL means that c is logged out.                                        *)
(***************************************************************************)
EXTENDS Naturals, FiniteSets

CONSTANTS Clients,   \* the clients that ever connect, one service thread each
          Names,     \* the names a client may log in or be looked up under
          NSlots,    \* MAX_CLIENTS
          NULL

ASSUME ClientsFinite == IsFiniteSet(Clients) /\ NULL \notin Clients
ASSUME NamesAssumption == NULL \notin Names
ASSUME NSlotsAssumption == NSlots \in Nat \ {0}

Slots == 1..NSlots

VARIABLES clients,   \* cr->clients
          size,      \* cr->size
          empty,     \* the value of the semaphore cr->empty
          mutex,     \* the thread that holds cr->mutex, or NULL
          name,      \* the name of client->player
          invitations, \* the pairs of clients an INVITATION refers to
          leaked,    \* the clients whose own mutex was left taken for good
          open,      \* the clients whose connection is up
          pc,        \* where each service thread is
          call,      \* the locals of the call it is in
          main,      \* where the main thread is
          fault      \* what killed the process: a NULL, freed or garbage pointer
                     \* that was dereferenced, or SIGPIPE

registry   == <<clients, size, empty, mutex>>
clientData == <<name, invitations, leaked, open>>
vars       == <<registry, clientData, pc, call, main, fault>>

\* What a packet makes a thread do, through the registry but for the other
\* packets, and its locals there: the name it looks for, the slot i it is at
\* and the client it was returned.
Jobs   == {"login", "invite", "users", "other"}
Call   == [job : Jobs \cup {NULL}, want : Names \cup {NULL}, at : 1..(NSlots + 1),
           got : Clients \cup {NULL}]
NoCall == [job |-> NULL, want |-> NULL, at |-> 1, got |-> NULL]

\* The program counters of a thread that is in the registry, of those the ones
\* already counted in cr->size, and of the ones inside the mutex.
Counted  == {"serving", "asking", "scanning", "using", "missed", "found",
             "inviting", "replying", "stuck", "leaving"}
InTable  == Counted \cup {"counting"}
Inside   == {"counting", "scanning", "using", "unref", "unlocking"}
PCs      == InTable \cup Inside \cup {"idle", "started", "rejected", "gone"}

\* Past creg_fini nothing is left for the threads to run on.
Alive == fault = "none" /\ main \notin {"freed", "exited"}

SlotOf(c) == {s \in Slots : clients[s] = c}
Full      == SlotOf(NULL) = {}

\* Mutant of FirstFree: the search for an empty slot is forgotten.
FirstSlot(s) == s = 1

FirstFree(s) == clients[s] = NULL /\ \A r \in SlotOf(NULL) : s <= r

Init ==
    /\ clients = [s \in Slots |-> NULL]
    /\ size = 0
    /\ empty = 1
    /\ mutex = NULL
    /\ name = [c \in Clients |-> NULL]
    /\ invitations = {}
    /\ leaked = {}
    /\ open = {}
    /\ pc = [c \in Clients |-> "idle"]
    /\ call = [c \in Clients |-> NoCall]
    /\ main = "serving"
    /\ fault = "none"

Goto(c, l) == pc' = [pc EXCEPT ![c] = l]

\* On to the next slot.
NextSlot(c) == Goto(c, "scanning") /\ call' = [call EXCEPT ![c].at = @ + 1]

-------------------------------------------------------------------------------
\* The main thread accepts a connection and creates its service thread.
Accept(c) ==
    /\ main = "serving"
    /\ pc[c] = "idle"
    /\ Goto(c, "started")
    /\ open' = open \cup {c}
    /\ UNCHANGED <<registry, name, invitations, leaked, call, main, fault>>

\* The peer closes its connection.
Disconnect(c) ==
    /\ c \in open
    /\ open' = open \ {c}
    /\ UNCHANGED <<registry, name, invitations, leaked, pc, call, main, fault>>

\* Mutant of Register: the mutex is not waited for.
RegisterNoLock(c) ==
    /\ pc[c] = "started"
    /\ \E s \in Slots : FirstFree(s) /\ clients' = [clients EXCEPT ![s] = c]
    /\ mutex' = c
    /\ Goto(c, "counting")
    /\ UNCHANGED <<size, empty, clientData, call, main, fault>>

\* creg_register: the first empty slot is taken ...
Register(c) ==
    /\ pc[c] = "started"
    /\ mutex = NULL
    /\ \E s \in Slots : FirstFree(s) /\ clients' = [clients EXCEPT ![s] = c]
    /\ mutex' = c
    /\ Goto(c, "counting")
    /\ UNCHANGED <<size, empty, clientData, call, main, fault>>

\* ... or NULL is returned, which server.c does not look at ...
RegisterFull(c) ==
    /\ pc[c] = "started"
    /\ mutex = NULL
    /\ Full
    /\ Goto(c, "rejected")
    /\ UNCHANGED <<registry, clientData, call, main, fault>>

\* Mutant of Count: the semaphore is decremented without waiting for it.
CountNoGuard(c) ==
    /\ pc[c] = "counting"
    /\ empty' = IF size = 0 THEN empty - 1 ELSE empty
    /\ size' = size + 1
    /\ mutex' = NULL
    /\ Goto(c, "serving")
    /\ UNCHANGED <<clients, clientData, call, main, fault>>

\* Mutant of Count: the first client does not take the semaphore.
CountNoWait(c) ==
    /\ pc[c] = "counting"
    /\ size' = size + 1
    /\ mutex' = NULL
    /\ Goto(c, "serving")
    /\ UNCHANGED <<clients, empty, clientData, call, main, fault>>

\* ... and the client is counted; the first one takes the semaphore empty
\* and may have to wait for it while it holds the mutex.
Count(c) ==
    /\ pc[c] = "counting"
    /\ IF size = 0 THEN empty > 0 /\ empty' = empty - 1 ELSE UNCHANGED empty
    /\ size' = size + 1
    /\ mutex' = NULL
    /\ Goto(c, "serving")
    /\ UNCHANGED <<clients, clientData, call, main, fault>>

\* The service loop of a thread without a CLIENT: whatever arrives first, a
\* packet or EOF, ends in a call on a NULL client.
ServeNull(c) ==
    /\ pc[c] = "rejected"
    /\ fault' = "pointer"
    /\ UNCHANGED <<registry, clientData, pc, call, main>>

-------------------------------------------------------------------------------
\* A packet: LOGIN before the login, INVITE and USERS after it, and those that
\* do not look into the registry, the refused ones among them.
Request(c, j, n) ==
    /\ pc[c] = "serving"
    /\ c \in open
    /\ j # "other" => ((j = "login") <=> (name[c] = NULL))
    /\ Goto(c, IF j = "other" THEN "replying" ELSE "asking")
    /\ call' = [call EXCEPT ![c].job = j, ![c].want = n]
    /\ UNCHANGED <<registry, clientData, main, fault>>

\* creg_lookup and creg_all_players take the mutex and visit slot after slot.
Lock(c) ==
    /\ pc[c] = "asking"
    /\ mutex = NULL
    /\ mutex' = c
    /\ Goto(c, "scanning")
    /\ UNCHANGED <<clients, size, empty, clientData, call, main, fault>>

\* The player of the slot's client, as far as there is one.
Here(c)   == clients[call[c].at]
Player(k) == IF k = NULL THEN NULL ELSE name[k]

\* The test client_get_player(cr->clients[i]) != NULL.
Scan(c) ==
    /\ pc[c] = "scanning"
    /\ call[c].at <= NSlots
    /\ IF Player(Here(c)) = NULL THEN NextSlot(c)
                                ELSE Goto(c, "using") /\ UNCHANGED call
    /\ UNCHANGED <<registry, clientData, main, fault>>

\* The player is read again; it may be NULL by now, for client_logout does
\* not take the registry's mutex.
UseNull(c) ==
    /\ pc[c] = "using"
    /\ Player(Here(c)) = NULL
    /\ fault' = "pointer"
    /\ UNCHANGED <<registry, clientData, pc, call, main>>

UseNext(c) ==
    /\ pc[c] = "using"
    /\ Player(Here(c)) # NULL
    /\ call[c].job = "users" \/ Player(Here(c)) # call[c].want
    /\ NextSlot(c)
    /\ UNCHANGED <<registry, clientData, main, fault>>

UseMatch(c) ==
    /\ pc[c] = "using"
    /\ call[c].job # "users"
    /\ Player(Here(c)) = call[c].want
    /\ mutex' = NULL
    /\ Goto(c, "found")
    /\ UNCHANGED <<clients, size, empty, clientData, call, main, fault>>

ScanEnd(c) ==
    /\ pc[c] = "scanning"
    /\ call[c].at > NSlots
    /\ mutex' = NULL
    /\ Goto(c, IF call[c].job = "login" THEN "missed" ELSE "replying")
    /\ UNCHANGED <<clients, size, empty, clientData, call, main, fault>>

\* client_login after a lookup that found nobody.
Login(c) ==
    /\ pc[c] = "missed"
    /\ name' = [name EXCEPT ![c] = call[c].want]
    /\ Goto(c, "replying")
    /\ UNCHANGED <<registry, invitations, leaked, open, call, main, fault>>

\* creg_lookup returns cr->clients[i], read after the mutex is released.
\* client_login takes a client for "name taken" and returns with the client's
\* own mutex held, on which the NACK to the client then waits for ever.
FoundForLogin(c) ==
    /\ pc[c] = "found"
    /\ call[c].job = "login"
    /\ IF Here(c) = NULL THEN Goto(c, "missed") /\ UNCHANGED leaked
                         ELSE Goto(c, "stuck") /\ leaked' = leaked \cup {c}
    /\ UNCHANGED <<registry, name, invitations, open, call, main, fault>>

FoundForInvite(c) ==
    /\ pc[c] = "found"
    /\ call[c].job = "invite"
    /\ IF Here(c) \in {NULL, c}
       THEN Goto(c, "replying") /\ UNCHANGED call
       ELSE Goto(c, "inviting") /\ call' = [call EXCEPT ![c].got = Here(c)]
    /\ UNCHANGED <<registry, clientData, main, fault>>

\* A client is freed by creg_unregister unless an invitation refers to it.
Freed(c) == pc[c] \in {"unlocking", "gone"} /\ c \notin UNION invitations

\* client_login keeps the client's own mutex throughout its lookup.
Locked(c) == c \in leaked \/ (call[c].job = "login" /\ pc[c] # "replying")

\* client_make_invitation takes its references only now, and for that waits
\* for the target's own mutex.
Invite(c) ==
    LET target == call[c].got IN
    /\ pc[c] = "inviting"
    /\ ~Locked(target)
    /\ IF Freed(target)
       THEN fault' = "pointer" /\ UNCHANGED <<invitations, pc>>
       ELSE invitations' = invitations \cup {{c, target}} /\ Goto(c, "replying") /\ UNCHANGED fault
    /\ UNCHANGED <<registry, name, leaked, open, call, main>>

\* The clients that the packets sent for a request go to: the one that asked,
\* the invited one, and the partners of one that answers an invitation or plays.
Partners(c) == {d \in Clients \ {c} : {c, d} \in invitations}
Written(c) == {c} \cup ({call[c].got} \ {NULL})
                  \cup {d \in Partners(c) : call[c].job = "other" /\ name[c] # NULL}

\* A packet for a connection that is down may kill the process: main.c has the
\* lines that would ignore SIGPIPE commented out.
Sigpipe(written) == ~(written \subseteq open) /\ fault' = "SIGPIPE"

\* The packets of a request are sent, and the thread is back in its loop.
Reply(c) ==
    /\ pc[c] = "replying"
    /\ Sigpipe(Written(c)) \/ UNCHANGED fault
    /\ Goto(c, "serving")
    /\ call' = [call EXCEPT ![c] = NoCall]
    /\ UNCHANGED <<registry, clientData, main>>

-------------------------------------------------------------------------------
\* EOF on a connection.  client_logout sends the partners the notices, and gives
\* up when an invitation cannot be revoked or declined; the thread goes on all
\* the same.
Logout(c) ==
    /\ pc[c] = "serving"
    /\ c \notin open
    /\ name[c] # NULL
    /\ name' = [name EXCEPT ![c] = NULL] \/ (Partners(c) # {} /\ UNCHANGED name)
    /\ Sigpipe(Partners(c)) \/ UNCHANGED fault
    /\ Goto(c, "leaving")
    /\ UNCHANGED <<registry, invitations, leaked, open, call, main>>

\* client_logout of a client that never logged in returns with the client's
\* mutex taken, and player_unref is then given an uninitialised pointer, which
\* may or may not crash.
LogoutAnonymous(c) ==
    /\ pc[c] = "serving"
    /\ c \notin open
    /\ name[c] = NULL
    /\ leaked' = leaked \cup {c}
    /\ fault' \in {"none", "pointer"}
    /\ Goto(c, "leaving")
    /\ UNCHANGED <<registry, name, invitations, open, call, main>>

\* Mutant of Unregister: the counter is left alone.
UnregisterNoCount(c) ==
    /\ pc[c] = "leaving"
    /\ mutex = NULL
    /\ clients' = [s \in Slots |-> IF clients[s] = c THEN NULL ELSE clients[s]]
    /\ mutex' = c
    /\ Goto(c, "unref")
    /\ UNCHANGED <<size, empty, clientData, call, main, fault>>

\* creg_unregister: out of the table ...
Unregister(c) ==
    /\ pc[c] = "leaving"
    /\ mutex = NULL
    /\ clients' = [s \in Slots |-> IF clients[s] = c THEN NULL ELSE clients[s]]
    /\ size' = size - 1
    /\ mutex' = c
    /\ Goto(c, "unref")
    /\ UNCHANGED <<empty, clientData, call, main, fault>>

\* Mutant of Unref: the waiters are woken whoever leaves.
UnrefPostAlways(c) ==
    /\ pc[c] = "unref"
    /\ c \notin leaked
    /\ empty' = empty + 1
    /\ Goto(c, "unlocking")
    /\ UNCHANGED <<clients, size, mutex, clientData, call, main, fault>>

\* Mutant of Unref: the waiters are never woken.
UnrefNoPost(c) ==
    /\ pc[c] = "unref"
    /\ c \notin leaked
    /\ Goto(c, "unlocking")
    /\ UNCHANGED <<registry, clientData, call, main, fault>>

\* ... client_unref, which needs the client's own mutex, and sem_post(empty)
\* after the last one ...
Unref(c) ==
    /\ pc[c] = "unref"
    /\ c \notin leaked
    /\ empty' = IF size = 0 THEN empty + 1 ELSE empty
    /\ Goto(c, "unlocking")
    /\ UNCHANGED <<clients, size, mutex, clientData, call, main, fault>>

\* ... and the mutex is released.
Unlock(c) ==
    /\ pc[c] = "unlocking"
    /\ mutex' = NULL
    /\ Goto(c, "gone")
    /\ UNCHANGED <<clients, size, empty, clientData, call, main, fault>>

-------------------------------------------------------------------------------
\* The SIGHUP handler, on the main thread: terminate().
Sighup ==
    /\ main = "serving"
    /\ main' = "shutdown"
    /\ UNCHANGED <<registry, clientData, pc, call, fault>>

\* creg_shutdown_all reaches the registered clients only.
ShutdownAll ==
    /\ main = "shutdown"
    /\ mutex = NULL
    /\ open' = open \ {clients[s] : s \in Slots}
    /\ main' = "waiting"
    /\ UNCHANGED <<registry, name, invitations, leaked, pc, call, fault>>

\* creg_wait_for_empty: sem_wait and sem_post of empty.
WaitEmpty ==
    /\ main = "waiting"
    /\ empty > 0
    /\ empty' = empty - 1
    /\ main' = "posting"
    /\ UNCHANGED <<clients, size, mutex, clientData, pc, call, fault>>

PostEmpty ==
    /\ main = "posting"
    /\ empty' = empty + 1
    /\ main' = "finalizing"
    /\ UNCHANGED <<clients, size, mutex, clientData, pc, call, fault>>

\* creg_fini frees the registry, then the process exits.
Fini ==
    /\ main = "finalizing"
    /\ main' = "freed"
    /\ UNCHANGED <<registry, clientData, pc, call, fault>>

Exit ==
    /\ main = "freed"
    /\ main' = "exited"
    /\ UNCHANGED <<registry, clientData, pc, call, fault>>

\* What the environment decides, and what the threads do by themselves.
Environment == Alive /\ \/ Sighup
                        \/ \E c \in Clients :
                              \/ Accept(c)
                              \/ Disconnect(c)
                              \/ \E j \in Jobs, n \in Names : Request(c, j, n)

Thread(c) == Alive /\ \/ Register(c) \/ RegisterFull(c) \/ Count(c) \/ ServeNull(c)
                      \/ Lock(c) \/ Scan(c) \/ ScanEnd(c)
                      \/ UseNull(c) \/ UseNext(c) \/ UseMatch(c)
                      \/ Login(c) \/ FoundForLogin(c) \/ FoundForInvite(c) \/ Invite(c) \/ Reply(c)
                      \/ Logout(c) \/ LogoutAnonymous(c)
                      \/ Unregister(c) \/ Unref(c) \/ Unlock(c)

Main == fault = "none" /\ (ShutdownAll \/ WaitEmpty \/ PostEmpty \/ Fini \/ Exit)

Next == Environment \/ Main \/ \E c \in Clients : Thread(c)

\* Threads are scheduled fairly.  Semaphores are not assumed to be fair.
Fairness == WF_vars(Main) /\ \A c \in Clients : WF_vars(Thread(c))

Spec == Init /\ [][Next]_vars /\ Fairness

-------------------------------------------------------------------------------
TypeOK ==
    /\ clients \in [Slots -> Clients \cup {NULL}]
    /\ size \in Nat
    /\ empty \in Nat
    /\ mutex \in Clients \cup {NULL}
    /\ name \in [Clients -> Names \cup {NULL}]
    /\ invitations \subseteq SUBSET Clients
    /\ leaked \subseteq Clients /\ open \subseteq Clients
    /\ pc \in [Clients -> PCs]
    /\ call \in [Clients -> Call]
    /\ \A c \in Clients : pc[c] \in {"using", "found"} => call[c].at \in Slots
    /\ \A c \in Clients : pc[c] = "inviting" => call[c].got \in Clients \ {c}
    /\ main \in {"serving", "shutdown", "waiting", "posting", "finalizing", "freed", "exited"}
    /\ fault \in {"none", "pointer", "SIGPIPE"}

\* One thread at a time is inside the registry's mutex.
MutexHeld == \A c \in Clients : pc[c] \in Inside <=> mutex = c

\* cr->size is the number of slots in use, less the client being added.
\* creg_register and creg_unregister change the two in separate steps, and
\* whether cr->empty is taken or posted hangs on size being exactly right.
Occupied   == {s \in Slots : clients[s] # NULL}
Adding     == mutex # NULL /\ pc[mutex] = "counting"
SizeCounts == size = Cardinality(Occupied) - (IF Adding THEN 1 ELSE 0)

\* A client is in exactly one slot from creg_register to creg_unregister and
\* in none before and after, although slots are reused while others scan.
OneSlotEach ==
    \A c \in Clients : IF pc[c] \in InTable THEN \E s \in Slots : SlotOf(c) = {s}
                                             ELSE SlotOf(c) = {}

\* The token of cr->empty is in one place: in the semaphore, with the thread
\* that is passing creg_wait_for_empty, or with the clients in the registry
\* (the last one has it until client_unref is done).
OneOf(p, q, r) == (p \/ q \/ r) /\ ~(p /\ q) /\ ~(p /\ r) /\ ~(q /\ r)
InUse == size > 0 \/ \E c \in Clients : pc[c] = "unref"
EmptyToken ==
    /\ empty <= 1
    /\ OneOf(empty = 1, main = "posting", InUse)

\* creg_wait_for_empty returns only at a time when nobody is counted in the
\* registry, even though a client may be half way into it or out of it.
WaitSeesEmpty ==
    [][main = "waiting" /\ main' = "posting" =>
          \A c \in Clients : pc[c] \notin Counted \cup {"unref"}]_vars

\* The first client waits for cr->empty inside the mutex, while the main
\* thread has it: neither blocks the other for ever.
CountEnds ==
    \A c \in Clients : pc[c] = "counting" ~> (pc[c] = "serving" \/ ~Alive)

\* What the end of the server can do without: a connection that is up, a thread
\* whose client is not logged in, a mutex that is left taken.
CleanShutdown ==
    /\ main = "waiting" /\ fault = "none"
    /\ leaked = {}
    /\ \A c \in Clients : \/ pc[c] \in {"idle", "leaving", "unref", "unlocking", "gone"}
                          \/ (pc[c] \in Counted /\ name[c] # NULL /\ c \notin open)

\* Then no thread has a packet to send either.
NothingToSend ==
    \A c \in Clients : \/ pc[c] \in {"idle", "leaving", "unref", "unlocking", "gone"}
                       \/ pc[c] = "serving" /\ Partners(c) = {}

\* Clean termination, as far as the code has it.  terminate() ends, but not with
\* the server's exit if a thread still has a reply, or a notice to the partner
\* of an invitation, to send: the connections are shut down both ways, and the
\* process may be killed by SIGPIPE, or by a pointer such a request looked up.
\* If no thread has, then all of them unregister and the server does exit.
ShutdownEnds ==
    /\ CleanShutdown ~> (main = "exited" \/ fault # "none")
    /\ CleanShutdown /\ NothingToSend ~> main = "exited"

-------------------------------------------------------------------------------
\* What a header promises and the code does not keep.

\* client.h: a login fails if "there is already some other CLIENT that is
\* logged in as the specified PLAYER"; client_login sets client->player after
\* creg_lookup has released the registry.
UniqueLogin ==
    \A c, d \in Clients :
        c # d /\ {pc[c], pc[d]} \subseteq InTable /\ name[c] # NULL => name[c] # name[d]
===============================================================================
