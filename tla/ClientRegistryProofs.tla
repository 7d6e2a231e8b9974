------------------------- MODULE ClientRegistryProofs -------------------------
(***************************************************************************)
(* Proofs about module ClientRegistry, for any number of clients, names    *)
(* and slots.  The safety properties of the registry lean on each other:   *)
(* the token of cr->empty is right because size is, size is right because  *)
(* every registered client has one slot and the mutex is exclusive.        *)
(* RegistryInvariant is their conjunction, and it is inductive.            *)
(***************************************************************************)
EXTENDS ClientRegistry, FiniteSetTheorems, TLAPS

RegistryInvariant ==
    /\ TypeOK
    /\ MutexHeld
    /\ OneSlotEach
    /\ SizeCounts
    /\ EmptyToken

-------------------------------------------------------------------------------
\* The slots in use are finitely many.
LEMMA OccupiedFinite == IsFiniteSet(Occupied) /\ Cardinality(Occupied) \in Nat
  <1>1. IsFiniteSet(Slots)
    BY FS_Interval, NSlotsAssumption DEF Slots
  <1>2. Occupied \subseteq Slots
    BY DEF Occupied
  <1> QED
    BY <1>1, <1>2, FS_Subset, FS_CardinalityType

\* A step that leaves the registry alone, and keeps every thread on its side
\* of the mutex, of the table and of cr->size, cannot disturb the invariant.
SameSide(c) ==
    /\ pc'[c] \in Inside <=> pc[c] \in Inside
    /\ pc'[c] \in InTable <=> pc[c] \in InTable
    /\ pc'[c] = "counting" <=> pc[c] = "counting"
    /\ pc'[c] = "unref" <=> pc[c] = "unref"

LEMMA QuietStep ==
    ASSUME RegistryInvariant, TypeOK',
           UNCHANGED registry,
           main' = "posting" <=> main = "posting",
           \A c \in Clients : SameSide(c)
    PROVE  RegistryInvariant'
  <1> USE DEF RegistryInvariant
  <1>1. /\ clients' = clients /\ size' = size /\ empty' = empty /\ mutex' = mutex
    BY DEF registry
  <1>2. MutexHeld'
    BY <1>1 DEF MutexHeld, SameSide
  <1>3. OneSlotEach'
    BY <1>1 DEF OneSlotEach, SlotOf, SameSide
  <1>4. Occupied' = Occupied /\ (Adding' <=> Adding)
    BY <1>1 DEF Occupied, Adding, SameSide, TypeOK
  <1>5. SizeCounts'
    BY <1>1, <1>4 DEF SizeCounts
  <1>6. EmptyToken'
    BY <1>1 DEF EmptyToken, OneOf, InUse, SameSide
  <1> QED
    BY <1>2, <1>3, <1>5, <1>6

\* A step that only takes or releases the mutex, for a scan of the table.
LEMMA ScanningStep ==
    ASSUME RegistryInvariant, TypeOK',
           clients' = clients, size' = size, empty' = empty, main' = main,
           NEW c \in Clients, NEW l \in PCs, Goto(c, l),
           \/ /\ mutex = NULL /\ mutex' = c /\ pc[c] \in Counted \ Inside /\ l = "scanning"
           \/ /\ mutex = c /\ mutex' = NULL /\ pc[c] \in {"scanning", "using"}
              /\ l \in Counted \ Inside
    PROVE  RegistryInvariant'
  <1> USE DEF RegistryInvariant
  <1>1. /\ pc'[c] = l
        /\ \A d \in Clients : d # c => pc'[d] = pc[d]
    BY DEF Goto, TypeOK
  <1>2. MutexHeld'
    BY <1>1, ClientsFinite DEF MutexHeld, Inside, Counted
  <1>3. OneSlotEach'
    BY <1>1 DEF OneSlotEach, SlotOf, InTable, Counted
  <1>4. ~Adding /\ ~Adding'
    BY <1>1, ClientsFinite DEF Adding, Counted
  <1>5. SizeCounts'
    BY <1>4 DEF SizeCounts, Occupied
  <1>6. EmptyToken'
    BY <1>1 DEF EmptyToken, OneOf, InUse, Counted
  <1> QED
    BY <1>2, <1>3, <1>5, <1>6

-------------------------------------------------------------------------------
\* creg_unregister frees exactly one slot, so that size cannot go negative.
LEMMA UnregisterSlot ==
    ASSUME RegistryInvariant, NEW c \in Clients, Unregister(c)
    PROVE  /\ Cardinality(Occupied') = Cardinality(Occupied) - 1
           /\ size' = Cardinality(Occupied')
           /\ size' \in Nat
  <1> USE DEF RegistryInvariant
  <1>1. PICK s \in Slots : SlotOf(c) = {s}
    BY DEF OneSlotEach, Unregister, InTable, Counted
  <1>2. clients[s] = c /\ \A r \in Slots : clients[r] = c => r = s
    BY <1>1 DEF SlotOf
  <1>3. Occupied' = Occupied \ {s} /\ s \in Occupied
    BY <1>2, ClientsFinite DEF Unregister, Occupied
  <1>4. Cardinality(Occupied') = Cardinality(Occupied) - 1 /\ Cardinality(Occupied') \in Nat
    BY <1>3, OccupiedFinite, FS_RemoveElement, FS_CardinalityType
  <1>5. ~Adding
    BY DEF Unregister, Adding
  <1> QED
    BY <1>4, <1>5, OccupiedFinite DEF Unregister, SizeCounts

\* Types are preserved by every step.
LEMMA TypeStep == RegistryInvariant /\ [Next]_vars => TypeOK'
  <1> SUFFICES ASSUME RegistryInvariant, [Next]_vars PROVE TypeOK'
    OBVIOUS
  <1> USE DEF RegistryInvariant
  <1> USE DEF TypeOK, registry, clientData, Goto, PCs, InTable, Counted, Inside
  <1>1. ASSUME NEW c \in Clients, Accept(c) PROVE TypeOK'
    BY <1>1 DEF Accept
  <1>2. ASSUME NEW c \in Clients, Disconnect(c) PROVE TypeOK'
    BY <1>2 DEF Disconnect
  <1>3. ASSUME NEW c \in Clients, NEW j \in Jobs, NEW n \in Names, Request(c, j, n) PROVE TypeOK'
    <2>1. call[c] \in Call
      OBVIOUS
    <2>2. call' \in [Clients -> Call] /\ \A d \in Clients : call'[d].at = call[d].at
      BY <1>3, <2>1 DEF Request, Call
    <2> QED
      BY <1>3, <2>2 DEF Request
  <1>4. ASSUME Sighup PROVE TypeOK'
    BY <1>4 DEF Sighup
  <1>5. ASSUME NEW c \in Clients, Register(c) PROVE TypeOK'
    BY <1>5 DEF Register
  <1>6. ASSUME NEW c \in Clients, RegisterFull(c) PROVE TypeOK'
    BY <1>6 DEF RegisterFull
  <1>7. ASSUME NEW c \in Clients, Count(c) PROVE TypeOK'
    <2>1. size' \in Nat /\ empty' \in Nat
      BY <1>7 DEF Count
    <2> QED
      BY <1>7, <2>1 DEF Count
  <1>8. ASSUME NEW c \in Clients, ServeNull(c) PROVE TypeOK'
    BY <1>8 DEF ServeNull
  <1>9. ASSUME NEW c \in Clients, Lock(c) PROVE TypeOK'
    BY <1>9 DEF Lock
  <1>10. ASSUME NEW c \in Clients, call[c].at <= NSlots, NextSlot(c), UNCHANGED <<registry, clientData, main, fault>>
         PROVE TypeOK'
    <2>1. call[c] \in Call /\ call[c].at \in 1..(NSlots + 1)
      BY DEF Call
    <2>2. [call[c] EXCEPT !.at = @ + 1] \in Call
      BY <1>10, <2>1, NSlotsAssumption DEF Call
    <2>3. call' \in [Clients -> Call]
      BY <1>10, <2>2 DEF NextSlot
    <2> QED
      BY <1>10, <2>3 DEF NextSlot
  <1>11. ASSUME NEW c \in Clients, Scan(c) PROVE TypeOK'
    <2>1. CASE NextSlot(c)
      BY <1>10, <1>11, <2>1 DEF Scan
    <2>2. CASE Goto(c, "using") /\ UNCHANGED call
      <3>1. call[c].at \in Slots
        BY <1>11, NSlotsAssumption DEF Scan, Slots, Call
      <3> QED
        BY <1>11, <2>2, <3>1 DEF Scan
    <2> QED
      BY <1>11, <2>1, <2>2 DEF Scan
  <1>12. ASSUME NEW c \in Clients, Reply(c) PROVE TypeOK'
    <2>1. NoCall \in Call
      BY NSlotsAssumption DEF NoCall, Call
    <2>2. fault' \in {"none", "pointer", "SIGPIPE"}
      BY <1>12 DEF Reply, Sigpipe
    <2> QED
      BY <1>12, <2>1, <2>2 DEF Reply
  <1>13. ASSUME NEW c \in Clients, ScanEnd(c) PROVE TypeOK'
    BY <1>13 DEF ScanEnd
  <1>14. ASSUME NEW c \in Clients, UseNull(c) PROVE TypeOK'
    BY <1>14 DEF UseNull
  <1>15. ASSUME NEW c \in Clients, UseNext(c) PROVE TypeOK'
    BY <1>10, <1>15 DEF UseNext, Slots
  <1>16. ASSUME NEW c \in Clients, UseMatch(c) PROVE TypeOK'
    BY <1>16 DEF UseMatch
  <1>17. ASSUME NEW c \in Clients, Login(c) PROVE TypeOK'
    <2>1. call[c].want \in Names \cup {NULL}
      BY DEF Call
    <2> QED
      BY <1>17, <2>1 DEF Login
  <1>18. ASSUME NEW c \in Clients, FoundForLogin(c) PROVE TypeOK'
    BY <1>18 DEF FoundForLogin
  <1>19. ASSUME NEW c \in Clients, FoundForInvite(c) PROVE TypeOK'
    <2>1. CASE Here(c) \in {NULL, c}
      BY <1>19, <2>1 DEF FoundForInvite
    <2>2. CASE Here(c) \notin {NULL, c}
      BY <1>19, <2>2 DEF FoundForInvite, Call, Here
    <2> QED
      BY <2>1, <2>2
  <1>20. ASSUME NEW c \in Clients, Invite(c) PROVE TypeOK'
    <2>1. CASE Freed(call[c].got)
      BY <1>20, <2>1 DEF Invite
    <2>2. CASE ~Freed(call[c].got)
      <3>1. call[c].got \in Clients
        BY <1>20 DEF Invite
      <3>2. invitations' \subseteq SUBSET Clients
        BY <1>20, <2>2, <3>1 DEF Invite
      <3> QED
        BY <1>20, <2>2, <3>2 DEF Invite
    <2> QED
      BY <2>1, <2>2
  <1>21. ASSUME NEW c \in Clients, Logout(c) PROVE TypeOK'
    <2>1. fault' \in {"none", "pointer", "SIGPIPE"}
      BY <1>21 DEF Logout, Sigpipe
    <2>2. name' \in [Clients -> Names \cup {NULL}]
      BY <1>21 DEF Logout
    <2> QED
      BY <1>21, <2>1, <2>2 DEF Logout
  <1>22. ASSUME NEW c \in Clients, LogoutAnonymous(c) PROVE TypeOK'
    BY <1>22 DEF LogoutAnonymous
  <1>23. ASSUME NEW c \in Clients, Unregister(c) PROVE TypeOK'
    BY <1>23, UnregisterSlot DEF Unregister
  <1>24. ASSUME NEW c \in Clients, Unref(c) PROVE TypeOK'
    <2>1. empty' \in Nat
      BY <1>24 DEF Unref
    <2> QED
      BY <1>24, <2>1 DEF Unref
  <1>25. ASSUME NEW c \in Clients, Unlock(c) PROVE TypeOK'
    BY <1>25 DEF Unlock
  <1>26. ASSUME Main PROVE TypeOK'
    <2>1. empty' \in Nat
      BY <1>26 DEF Main, ShutdownAll, WaitEmpty, PostEmpty, Fini, Exit
    <2> QED
      BY <1>26, <2>1 DEF Main, ShutdownAll, WaitEmpty, PostEmpty, Fini, Exit
  <1>27. CASE UNCHANGED vars
    BY <1>27 DEF vars
  <1> QED
    BY <1>1, <1>2, <1>3, <1>4, <1>5, <1>6, <1>7, <1>8, <1>9, <1>11, <1>12, <1>13, <1>14,
       <1>15, <1>16, <1>17, <1>18, <1>19, <1>20, <1>21, <1>22, <1>23, <1>24, <1>25,
       <1>26, <1>27 DEF Next, Environment, Thread

-------------------------------------------------------------------------------
\* The registry starts empty, with its token in the semaphore.
LEMMA InitInvariant == Init => RegistryInvariant
  <1> SUFFICES ASSUME Init PROVE RegistryInvariant
    OBVIOUS
  <1> USE DEF Init
  <1>1. TypeOK
    <2>1. NoCall \in Call
      BY NSlotsAssumption DEF NoCall, Call
    <2> QED
      BY <2>1 DEF TypeOK, PCs
  <1>2. MutexHeld
    BY ClientsFinite DEF MutexHeld, Inside
  <1>3. OneSlotEach
    BY ClientsFinite DEF OneSlotEach, SlotOf, InTable, Counted
  <1>4. Occupied = {} /\ ~Adding
    BY DEF Occupied, Adding
  <1>5. SizeCounts
    BY <1>4, FS_EmptySet DEF SizeCounts
  <1>6. EmptyToken
    BY DEF EmptyToken, OneOf, InUse
  <1> QED
    BY <1>1, <1>2, <1>3, <1>5, <1>6 DEF RegistryInvariant

\* creg_register, first part: one more slot is in use, and the mutex is kept.
LEMMA RegisterStep ==
    ASSUME RegistryInvariant, TypeOK', NEW c \in Clients, Register(c)
    PROVE  RegistryInvariant'
  <1> USE DEF RegistryInvariant
  <1>1. PICK s \in Slots : clients[s] = NULL /\ clients' = [clients EXCEPT ![s] = c]
    BY DEF Register, FirstFree
  <1>2. /\ pc[c] = "started" /\ mutex = NULL /\ mutex' = c /\ pc'[c] = "counting"
        /\ \A d \in Clients : d # c => pc'[d] = pc[d]
        /\ size' = size /\ empty' = empty /\ main' = main
    BY DEF Register, Goto, TypeOK
  <1>3. MutexHeld'
    BY <1>2, ClientsFinite DEF MutexHeld, Inside
  <1>4. OneSlotEach'
    <2>1. SlotOf(c) = {}
      BY <1>2 DEF OneSlotEach, InTable, Counted
    <2>2. SlotOf(c)' = {s}
      BY <1>1, <2>1 DEF SlotOf, TypeOK
    <2>3. \A d \in Clients : d # c => SlotOf(d)' = SlotOf(d)
      BY <1>1, ClientsFinite DEF SlotOf, TypeOK
    <2> QED
      BY <1>2, <2>2, <2>3 DEF OneSlotEach, InTable
  <1>5. SizeCounts'
    <2>1. Occupied' = Occupied \cup {s} /\ s \notin Occupied
      BY <1>1, ClientsFinite DEF Occupied, TypeOK
    <2>2. Cardinality(Occupied') = Cardinality(Occupied) + 1
      BY <2>1, OccupiedFinite, FS_AddElement
    <2>3. ~Adding /\ Adding'
      BY <1>2, ClientsFinite DEF Adding
    <2> QED
      BY <1>2, <2>2, <2>3, OccupiedFinite DEF SizeCounts
  <1>6. EmptyToken'
    BY <1>2 DEF EmptyToken, OneOf, InUse
  <1> QED
    BY <1>3, <1>4, <1>5, <1>6

\* creg_register, second part: the first client takes the token.
LEMMA CountStep ==
    ASSUME RegistryInvariant, TypeOK', NEW c \in Clients, Count(c)
    PROVE  RegistryInvariant'
  <1> USE DEF RegistryInvariant
  <1>1. /\ pc[c] = "counting" /\ mutex = c /\ mutex' = NULL /\ pc'[c] = "serving"
        /\ \A d \in Clients : d # c => pc'[d] = pc[d] /\ pc[d] # "unref"
        /\ clients' = clients /\ size' = size + 1 /\ main' = main
    BY DEF Count, Goto, TypeOK, MutexHeld, Inside
  <1>2. MutexHeld'
    BY <1>1, ClientsFinite DEF MutexHeld, Inside
  <1>3. OneSlotEach'
    BY <1>1 DEF OneSlotEach, SlotOf, InTable, Counted
  <1>4. SizeCounts'
    <2>1. Adding /\ ~Adding'
      BY <1>1, ClientsFinite DEF Adding
    <2> QED
      BY <1>1, <2>1, OccupiedFinite DEF SizeCounts, Occupied
  <1>5. EmptyToken'
    <2>1. ~(\E d \in Clients : pc[d] = "unref") /\ ~(\E d \in Clients : pc'[d] = "unref")
      BY <1>1
    <2>2. size \in Nat /\ empty \in Nat
      BY DEF TypeOK
    <2>3. InUse' /\ (InUse <=> size > 0)
      BY <1>1, <2>1, <2>2 DEF InUse
    <2>4. CASE size = 0
      <3>1. empty = 1 /\ main # "posting" /\ empty' = 0
        BY <2>2, <2>3, <2>4 DEF Count, EmptyToken, OneOf
      <3> QED
        BY <1>1, <2>3, <3>1 DEF EmptyToken, OneOf
    <2>5. CASE size > 0
      BY <1>1, <2>3, <2>5 DEF Count, EmptyToken, OneOf
    <2> QED
      BY <2>2, <2>4, <2>5
  <1> QED
    BY <1>2, <1>3, <1>4, <1>5

\* creg_unregister, first part: one slot less, and the token stays in use.
LEMMA UnregisterStep ==
    ASSUME RegistryInvariant, TypeOK', NEW c \in Clients, Unregister(c)
    PROVE  RegistryInvariant'
  <1> USE DEF RegistryInvariant
  <1>1. /\ pc[c] = "leaving" /\ mutex = NULL /\ mutex' = c /\ pc'[c] = "unref"
        /\ \A d \in Clients : d # c => pc'[d] = pc[d]
        /\ clients' = [s \in Slots |-> IF clients[s] = c THEN NULL ELSE clients[s]]
        /\ size' = size - 1 /\ empty' = empty /\ main' = main
    BY DEF Unregister, Goto, TypeOK
  <1>2. MutexHeld'
    BY <1>1, ClientsFinite DEF MutexHeld, Inside
  <1>3. OneSlotEach'
    <2>1. SlotOf(c)' = {}
      BY <1>1, ClientsFinite DEF SlotOf
    <2>2. \A d \in Clients : d # c => SlotOf(d)' = SlotOf(d)
      BY <1>1, ClientsFinite DEF SlotOf
    <2> QED
      BY <1>1, <2>1, <2>2 DEF OneSlotEach, InTable, Counted
  <1>4. SizeCounts'
    <2>1. ~Adding'
      BY <1>1 DEF Adding
    <2> QED
      BY <2>1, UnregisterSlot DEF SizeCounts
  <1>5. EmptyToken'
    <2>1. InUse
      <3>1. Cardinality(Occupied) - 1 \in Nat /\ size = Cardinality(Occupied)
        BY <1>1, UnregisterSlot, OccupiedFinite DEF SizeCounts, Adding
      <3> QED
        BY <3>1, OccupiedFinite DEF InUse
    <2>2. InUse'
      BY <1>1 DEF InUse
    <2> QED
      BY <1>1, <2>1, <2>2 DEF EmptyToken, OneOf
  <1> QED
    BY <1>2, <1>3, <1>4, <1>5

\* creg_unregister, second part: the last client gives the token back.
LEMMA UnrefStep ==
    ASSUME RegistryInvariant, TypeOK', NEW c \in Clients, Unref(c)
    PROVE  RegistryInvariant'
  <1> USE DEF RegistryInvariant
  <1>1. /\ pc[c] = "unref" /\ mutex = c /\ pc'[c] = "unlocking"
        /\ \A d \in Clients : d # c => pc'[d] = pc[d] /\ pc[d] # "unref"
        /\ clients' = clients /\ size' = size /\ mutex' = mutex /\ main' = main
    BY DEF Unref, Goto, TypeOK, MutexHeld, Inside
  <1>2. MutexHeld'
    BY <1>1 DEF MutexHeld, Inside
  <1>3. OneSlotEach'
    BY <1>1 DEF OneSlotEach, SlotOf, InTable, Counted
  <1>4. SizeCounts'
    BY <1>1, ClientsFinite DEF SizeCounts, Occupied, Adding
  <1>5. EmptyToken'
    <2>1. InUse /\ (InUse' <=> size > 0)
      BY <1>1 DEF InUse
    <2>2. size \in Nat /\ empty = 0
      BY <2>1 DEF TypeOK, EmptyToken, OneOf
    <2>3. empty' = IF size = 0 THEN 1 ELSE 0
      BY <2>2 DEF Unref
    <2> QED
      BY <1>1, <2>1, <2>2, <2>3 DEF EmptyToken, OneOf
  <1> QED
    BY <1>2, <1>3, <1>4, <1>5

\* creg_unregister, third part: the mutex is released.
LEMMA UnlockStep ==
    ASSUME RegistryInvariant, TypeOK', NEW c \in Clients, Unlock(c)
    PROVE  RegistryInvariant'
  <1> USE DEF RegistryInvariant
  <1>1. /\ pc[c] = "unlocking" /\ mutex = c /\ mutex' = NULL /\ pc'[c] = "gone"
        /\ \A d \in Clients : d # c => pc'[d] = pc[d]
        /\ clients' = clients /\ size' = size /\ empty' = empty /\ main' = main
    BY DEF Unlock, Goto, TypeOK, MutexHeld, Inside
  <1>2. MutexHeld'
    BY <1>1, ClientsFinite DEF MutexHeld, Inside
  <1>3. OneSlotEach'
    BY <1>1 DEF OneSlotEach, SlotOf, InTable, Counted
  <1>4. SizeCounts'
    BY <1>1 DEF SizeCounts, Occupied, Adding
  <1>5. EmptyToken'
    BY <1>1 DEF EmptyToken, OneOf, InUse
  <1> QED
    BY <1>2, <1>3, <1>4, <1>5

\* creg_wait_for_empty takes the token and gives it back.
LEMMA WaiterStep ==
    ASSUME RegistryInvariant, TypeOK', WaitEmpty \/ PostEmpty
    PROVE  RegistryInvariant'
  <1> USE DEF RegistryInvariant
  <1>1. clients' = clients /\ size' = size /\ mutex' = mutex /\ pc' = pc
    BY DEF WaitEmpty, PostEmpty
  <1>2. MutexHeld' /\ OneSlotEach' /\ SizeCounts'
    BY <1>1 DEF MutexHeld, OneSlotEach, SlotOf, SizeCounts, Occupied, Adding
  <1>3. EmptyToken'
    <2>1. InUse' <=> InUse
      BY <1>1 DEF InUse
    <2>2. empty \in Nat
      BY DEF TypeOK
    <2> QED
      BY <2>1, <2>2 DEF EmptyToken, OneOf, WaitEmpty, PostEmpty
  <1> QED
    BY <1>2, <1>3

-------------------------------------------------------------------------------
\* No step of any thread, of the main thread or of a peer breaks the invariant.
LEMMA NextInvariant == RegistryInvariant /\ [Next]_vars => RegistryInvariant'
  <1> SUFFICES ASSUME RegistryInvariant, [Next]_vars PROVE RegistryInvariant'
    OBVIOUS
  <1>1. TypeOK'
    BY TypeStep
  \* What the program counters of a step that leaves the table alone may do.
  <1>2. ASSUME UNCHANGED registry, main' = "posting" <=> main = "posting",
               NEW c \in Clients, NEW l \in PCs, Goto(c, l),
               \/ pc[c] \in Counted \ Inside /\ l \in Counted \ Inside
               \/ pc[c] \in {"scanning", "using"} /\ l \in {"scanning", "using"}
               \/ pc[c] \in {"idle", "started"} /\ l \in {"started", "rejected"}
        PROVE  RegistryInvariant'
    <2>1. pc'[c] = l /\ \A d \in Clients : d # c => pc'[d] = pc[d]
      BY <1>2 DEF Goto, RegistryInvariant, TypeOK
    <2>2. SameSide(c)
      BY <1>2, <2>1 DEF SameSide, Counted, InTable, Inside
    <2>3. \A d \in Clients : SameSide(d)
      BY <2>1, <2>2 DEF SameSide
    <2> QED
      BY <1>1, <1>2, <2>3, QuietStep
  <1>3. ASSUME UNCHANGED <<registry, pc>>, main' = "posting" <=> main = "posting"
        PROVE  RegistryInvariant'
    BY <1>1, <1>3, QuietStep DEF SameSide
  <1>4. ASSUME NEW c \in Clients, Thread(c) PROVE RegistryInvariant'
    <2> USE DEF PCs, InTable, Counted, Inside, NextSlot
    <2>1. CASE Register(c)
      BY <1>1, <2>1, RegisterStep
    <2>2. CASE RegisterFull(c)
      BY <1>2, <2>2 DEF RegisterFull
    <2>3. CASE Count(c)
      BY <1>1, <2>3, CountStep
    <2>4. CASE ServeNull(c)
      BY <1>3, <2>4 DEF ServeNull
    <2>5. CASE Lock(c)
      BY <1>1, <2>5, ScanningStep DEF Lock
    <2>6. CASE Scan(c)
      BY <1>2, <2>6 DEF Scan
    <2>7. CASE ScanEnd(c)
      <3>1. mutex = c
        BY <2>7 DEF ScanEnd, RegistryInvariant, MutexHeld
      <3> QED
        BY <1>1, <2>7, <3>1, ScanningStep DEF ScanEnd
    <2>8. CASE UseNull(c)
      BY <1>3, <2>8 DEF UseNull
    <2>9. CASE UseNext(c)
      BY <1>2, <2>9 DEF UseNext
    <2>10. CASE UseMatch(c)
      <3>1. mutex = c
        BY <2>10 DEF UseMatch, RegistryInvariant, MutexHeld
      <3> QED
        BY <1>1, <2>10, <3>1, ScanningStep DEF UseMatch
    <2>11. CASE Login(c)
      BY <1>2, <2>11 DEF Login
    <2>12. CASE FoundForLogin(c)
      BY <1>2, <2>12 DEF FoundForLogin
    <2>13. CASE FoundForInvite(c)
      BY <1>2, <2>13 DEF FoundForInvite
    <2>14. CASE Invite(c)
      <3>1. CASE Freed(call[c].got)
        BY <1>3, <2>14, <3>1 DEF Invite
      <3>2. CASE ~Freed(call[c].got)
        BY <1>2, <2>14, <3>2 DEF Invite
      <3> QED
        BY <3>1, <3>2
    <2>15. CASE Logout(c)
      BY <1>2, <2>15 DEF Logout
    <2>16. CASE LogoutAnonymous(c)
      BY <1>2, <2>16 DEF LogoutAnonymous
    <2>17. CASE Unregister(c)
      BY <1>1, <2>17, UnregisterStep
    <2>18. CASE Unref(c)
      BY <1>1, <2>18, UnrefStep
    <2>19. CASE Unlock(c)
      BY <1>1, <2>19, UnlockStep
    <2>20. CASE Reply(c)
      BY <1>2, <2>20 DEF Reply
    <2> QED
      BY <1>4, <2>1, <2>2, <2>3, <2>4, <2>5, <2>6, <2>7, <2>8, <2>9, <2>10, <2>11,
         <2>12, <2>13, <2>14, <2>15, <2>16, <2>17, <2>18, <2>19, <2>20 DEF Thread
  <1>5. ASSUME Main PROVE RegistryInvariant'
    <2>1. CASE WaitEmpty \/ PostEmpty
      BY <1>1, <2>1, WaiterStep
    <2>2. CASE ShutdownAll \/ Fini \/ Exit
      BY <1>3, <2>2 DEF ShutdownAll, Fini, Exit
    <2> QED
      BY <1>5, <2>1, <2>2 DEF Main
  <1>6. ASSUME Environment PROVE RegistryInvariant'
    <2>1. CASE Sighup
      BY <1>3, <2>1 DEF Sighup
    <2>2. ASSUME NEW c \in Clients, Accept(c) PROVE RegistryInvariant'
      BY <1>2, <2>2 DEF Accept, PCs
    <2>3. ASSUME NEW c \in Clients, Disconnect(c) PROVE RegistryInvariant'
      BY <1>3, <2>3 DEF Disconnect
    <2>4. ASSUME NEW c \in Clients, NEW j \in Jobs, NEW n \in Names, Request(c, j, n)
          PROVE  RegistryInvariant'
      BY <1>2, <2>4 DEF Request, PCs, InTable, Counted, Inside
    <2> QED
      BY <1>6, <2>1, <2>2, <2>3, <2>4 DEF Environment
  <1>7. CASE UNCHANGED vars
    BY <1>3, <1>7 DEF vars
  <1> QED
    BY <1>4, <1>5, <1>6, <1>7 DEF Next

\* Every reachable state of the registry satisfies the invariant.
THEOREM InvariantHolds == Spec => []RegistryInvariant
  BY InitInvariant, NextInvariant, PTL DEF Spec

\* Type correctness, the bounds of the slot index included.
THEOREM TypeCorrect == Spec => []TypeOK
  <1>1. RegistryInvariant => TypeOK
    BY DEF RegistryInvariant
  <1> QED
    BY <1>1, InvariantHolds, PTL

\* The registry's mutex protects what it should: a thread is inside a critical
\* section exactly when it owns cr->mutex, so two never are.
THEOREM CriticalSectionsExclude == Spec => []MutexHeld
  <1>1. RegistryInvariant => MutexHeld
    BY DEF RegistryInvariant
  <1> QED
    BY <1>1, InvariantHolds, PTL

\* Each registered client is in exactly one slot, and nobody else is in any.
THEOREM SlotsAreExclusive == Spec => []OneSlotEach
  <1>1. RegistryInvariant => OneSlotEach
    BY DEF RegistryInvariant
  <1> QED
    BY <1>1, InvariantHolds, PTL

\* cr->size counts the slots in use.
THEOREM SizeIsRight == Spec => []SizeCounts
  <1>1. RegistryInvariant => SizeCounts
    BY DEF RegistryInvariant
  <1> QED
    BY <1>1, InvariantHolds, PTL

\* The semaphore cr->empty is never posted twice and never lost.
THEOREM TokenIsConserved == Spec => []EmptyToken
  <1>1. RegistryInvariant => EmptyToken
    BY DEF RegistryInvariant
  <1> QED
    BY <1>1, InvariantHolds, PTL

\* creg_wait_for_empty returns only when no client is counted.
THEOREM WaiterIsRight == Spec => WaitSeesEmpty
  <1> DEFINE Ok == main = "waiting" /\ main' = "posting" =>
                      \A c \in Clients : pc[c] \notin Counted \cup {"unref"}
  <1>1. RegistryInvariant /\ [Next]_vars => [Ok]_vars
    <2> SUFFICES ASSUME RegistryInvariant, Next, main = "waiting", main' = "posting",
                        NEW c \in Clients
                 PROVE  pc[c] \notin Counted \cup {"unref"}
      BY DEF vars
    <2>1. WaitEmpty
      BY DEF Next, Main, Environment, Thread, ShutdownAll, PostEmpty, Fini, Exit, Sighup,
             Accept, Disconnect, Request, Register, RegisterFull, Count, ServeNull, Lock,
             Scan, ScanEnd, UseNull, UseNext, UseMatch, Login, FoundForLogin,
             FoundForInvite, Invite, Reply, Logout, LogoutAnonymous, Unregister, Unref, Unlock
    <2>2. empty = 1 /\ ~InUse
      BY <2>1 DEF WaitEmpty, RegistryInvariant, TypeOK, EmptyToken, OneOf
    <2>3. size = 0 /\ pc[c] # "unref"
      BY <2>2 DEF InUse, RegistryInvariant, TypeOK
    <2>4. ASSUME pc[c] \in Counted PROVE FALSE
      <3>1. PICK s \in Slots : SlotOf(c) = {s}
        BY <2>4 DEF RegistryInvariant, OneSlotEach, InTable
      <3>2. s \in Occupied
        BY <3>1, ClientsFinite DEF SlotOf, Occupied
      <3>3. CASE ~Adding
        <4>1. Cardinality(Occupied) = 0
          BY <2>3, <3>3, OccupiedFinite DEF RegistryInvariant, SizeCounts
        <4> QED
          BY <3>2, <4>1, OccupiedFinite, FS_EmptySet
      <3>4. CASE Adding
        \* The client being added has a slot of its own besides.
        <4>1. mutex \in Clients /\ pc[mutex] = "counting" /\ mutex # c
          BY <2>4, <3>4 DEF Adding, Counted, RegistryInvariant, TypeOK
        <4>2. PICK r \in Slots : SlotOf(mutex) = {r}
          BY <4>1 DEF RegistryInvariant, OneSlotEach, InTable
        <4>3. r # s /\ r \in Occupied
          BY <3>1, <4>1, <4>2, ClientsFinite DEF SlotOf, Occupied
        <4>4. Cardinality(Occupied) = 1
          BY <2>3, <3>4, OccupiedFinite DEF RegistryInvariant, SizeCounts
        <4>5. Cardinality(Occupied \ {s}) = 0 /\ IsFiniteSet(Occupied \ {s})
          BY <3>2, <4>4, OccupiedFinite, FS_RemoveElement
        <4>6. Occupied \ {s} = {}
          BY <4>5, FS_EmptySet
        <4> QED
          BY <4>3, <4>6
      <3> QED
        BY <3>3, <3>4
    <2> QED
      BY <2>3, <2>4
  <1> QED
    BY <1>1, InvariantHolds, PTL DEF Spec, WaitSeesEmpty
===============================================================================
