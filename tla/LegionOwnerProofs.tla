--------------------------- MODULE LegionOwnerProofs ---------------------------
(***************************************************************************)
(* A process that the master of Legion forked and that runs is accounted   *)
(* for at every step: by the command under way, or by a listed daemon that *)
(* is "active", or it was dropped by unregister.  The argument turns on    *)
(* spid.  When flag is looked at, spid must not be the pid of a process    *)
(* that runs, or the daemon of that process would be marked as gone; the   *)
(* proof shows that it never is.                                           *)
(***************************************************************************)
EXTENDS LegionProofs

\* The process that the command under way starts or stops.
Staged(k) ==
    \/ pc = "forked" /\ k = forks
    \/ pc \in {"stopping", "suspended"} \cup PcsBlocked /\ k = pid[sp]

Owned(k) == \E d \in Listed : pid[d] = k /\ status[d] = "active"

OwnerOK ==
    Alive => \A k \in Pids \ dropped : proc[k] = "running" => Staged(k) \/ Owned(k)

\* The daemon of the command under way; the handler that ends the wait of a
\* stop leaves no child.
StageOK ==
    /\ pc \in {"fork", "forked"} \cup PcsBlocked => sp \in Listed /\ status[sp] = "starting"
    /\ pc \in {"stopping", "suspended", "resumed"} => sp \in Listed
    /\ pc \in PcsBlocked => pid[sp] = forks
    /\ pc = "resumed" => \A k \in Pids : proc[k] # "running"

Idle == {"prompt", "see2", "note2", "clear2", "see3", "note3", "clear3", "eval"}

\* What spid is when flag may be looked at, or will be before it changes.
SpidOK ==
    /\ spid <= forks /\ \A d \in Daemons : pid[d] <= forks
    /\ pc \in Idle \cup {"fork"} => spid = 0 \/ proc[spid] # "running"
    /\ pc \in PcsBlocked => spid \in {0, forks} \/ proc[spid] # "running"

OwnerInvariant == StageOK /\ SpidOK /\ OwnerOK

-------------------------------------------------------------------------------
\* The master is gone, and nobody is left to account for a process.
LEMMA Gone ==
    ASSUME OwnerInvariant, pc' \in {"exit", "segv"}, UNCHANGED <<pid, forks>>,
           spid' <= forks
    PROVE  OwnerInvariant'
  BY DEF OwnerInvariant, StageOK, SpidOK, OwnerOK, Alive, Idle, PcsBlocked

\* The master stays where it is, and no process starts to run.
LEMMA Rests ==
    ASSUME TypeOK, OwnerInvariant, UNCHANGED <<list, status, pid, dropped, forks, pc, sp>>,
           \/ spid' = spid
           \/ spid' <= forks /\ proc'[spid'] # "running",
           \A k \in Pids : proc'[k] = "running" => proc[k] = "running"
    PROVE  OwnerInvariant'
  <1>1. spid # 0 => spid \in Pids
    BY ForksAssumption DEF TypeOK, Pids
  <1>2. \A k \in Pids : (Staged(k) => Staged(k)') /\ (Owned(k) => Owned(k)')
    BY DEF Staged, Owned, Listed
  <1>3. StageOK'
    BY DEF OwnerInvariant, StageOK, Listed
  <1>4. SpidOK'
    BY <1>1 DEF OwnerInvariant, SpidOK
  <1>5. OwnerOK'
    BY <1>2 DEF OwnerInvariant, OwnerOK, Alive
  <1> QED
    BY <1>3, <1>4, <1>5 DEF OwnerInvariant

\* The master goes on to a place where no command is under way, and the owners
\* of processes that are not dropped keep them.
LEMMA GoesOn ==
    ASSUME TypeOK, OwnerInvariant, Alive, pc' \in Idle,
           UNCHANGED <<proc, forks>>, dropped \subseteq dropped',
           spid' <= forks, \A d \in Daemons : pid'[d] <= forks,
           spid' = 0 \/ proc[spid'] # "running",
           \A k \in Pids \ dropped' :
               proc[k] = "running" /\ (Staged(k) \/ Owned(k)) => Owned(k)'
    PROVE  OwnerInvariant'
  <1>1. StageOK'
    BY DEF StageOK, Idle, PcsBlocked
  <1>2. SpidOK'
    BY DEF SpidOK, Idle, PcsBlocked, OwnerInvariant
  <1>3. OwnerOK'
    BY DEF OwnerOK, OwnerInvariant
  <1> QED
    BY <1>1, <1>2, <1>3 DEF OwnerInvariant

\* A change of one daemon that does not own k leaves k its owner.
LEMMA OtherOwner ==
    ASSUME TypeOK, NEW k, Owned(k), NEW d, status[d] # "active" \/ pid[d] # k,
           \A e \in Daemons \ {d} : pid'[e] = pid[e] /\ status'[e] = status[e],
           Listed \subseteq Listed'
    PROVE  Owned(k)'
  BY ListedDaemons DEF Owned

LEMMA NothingStaged ==
    pc \in Idle \cup {"fork", "resumed", "exit", "segv"} => \A k : ~Staged(k)
  BY DEF Staged, Idle, PcsBlocked

-------------------------------------------------------------------------------
LEMMA OwnerRunCli == LegionInvariant /\ OwnerInvariant /\ RunCli => OwnerInvariant'
  <1> SUFFICES ASSUME LegionInvariant, OwnerInvariant, RunCli PROVE OwnerInvariant'
    OBVIOUS
  <1>0. TypeOK
    BY DEF LegionInvariant
  <1>1. pc \in Idle /\ Alive /\ \A k : ~Staged(k)
    BY NothingStaged DEF RunCli, ReadLine, See, Note, Clear, At, Runs, Alive, Idle
  <1>2. SpidOK /\ spid <= forks /\ \A d \in Daemons : pid[d] <= forks
    BY DEF OwnerInvariant, SpidOK
  <1>3. ASSUME UNCHANGED <<daemonVars, procVars, spid>>, pc' \in Idle PROVE OwnerInvariant'
    <2>1. \A k : Owned(k) => Owned(k)'
      BY <1>3 DEF daemonVars, Owned, Listed
    <2> QED
      BY <1>0, <1>1, <1>2, <1>3, <2>1, GoesOn DEF daemonVars, procVars, SpidOK
  <1>4. ASSUME NEW f, NEW here, NEW next \in Idle, Note(f, here, next) PROVE OwnerInvariant'
    <2>1. CASE pc' = "segv"
      <3>1. next # "segv"
        BY DEF Idle
      <3>2. UNCHANGED <<pid, forks, spid>>
        BY <1>4, <2>1, <3>1 DEF Note, daemonVars, procVars, sigVars
      <3> QED
        BY <1>2, <2>1, <3>2, Gone
    <2>2. CASE pc' # "segv"
      <3> PICK d \in Listed :
              /\ Finds(spid, d)
              /\ pid' = [pid EXCEPT ![d] = 0]
              /\ status' = [status EXCEPT ![d] = IF f = 2 THEN "exited" ELSE "crashed"]
              /\ pc' = next /\ UNCHANGED <<list, dropped>>
        BY <1>4, <2>2 DEF Note
      <3>1. d \in Daemons /\ pid[d] = spid
        BY <1>0, ListedDaemons, NullAssumption DEF Finds
      <3>2. ASSUME NEW k \in Pids \ dropped', proc[k] = "running", Owned(k) PROVE Owned(k)'
        <4>1. pid[d] # k
          BY <1>1, <1>2, <3>1, <3>2 DEF SpidOK, Pids
        <4>2. \A e \in Daemons \ {d} : pid'[e] = pid[e] /\ status'[e] = status[e]
          BY <1>0 DEF TypeOK
        <4>3. Listed \subseteq Listed'
          BY DEF Listed
        <4> QED
          BY <1>0, <3>2, <4>1, <4>2, <4>3, OtherOwner
      <3>3. \A e \in Daemons : pid'[e] <= forks
        BY <1>0, <1>2, <3>1 DEF TypeOK
      <3> QED
        BY <1>0, <1>1, <1>2, <1>4, <3>2, <3>3, GoesOn DEF Note, procVars, sigVars, SpidOK
    <2> QED
      BY <2>1, <2>2
  <1>5. \/ UNCHANGED <<daemonVars, procVars, spid>> /\ pc' \in Idle
        \/ Note(2, "note2", "clear2") \/ Note(3, "note3", "clear3")
    BY DEF RunCli, ReadLine, See, Clear, sigVars, Idle
  <1> QED
    BY <1>3, <1>4, <1>5 DEF Idle

LEMMA OwnerCommand == LegionInvariant /\ OwnerInvariant /\ Command => OwnerInvariant'
  <1> SUFFICES ASSUME LegionInvariant, OwnerInvariant, Command PROVE OwnerInvariant'
    OBVIOUS
  <1>0. TypeOK
    BY DEF LegionInvariant
  <1>1. pc = "eval" /\ pc \in Idle /\ Alive /\ \A k : ~Staged(k)
    BY NothingStaged
       DEF Command, Refuse, Quit, Eof, Register, Unregister, Start, Stop, Reset, At, Runs,
           Alive, Idle
  <1>2. spid <= forks /\ (spid = 0 \/ proc[spid] # "running") /\ \A d \in Daemons : pid[d] <= forks
    BY <1>1 DEF OwnerInvariant, SpidOK
  <1>3. CASE Refuse
    <2>1. \A k : Owned(k) => Owned(k)'
      BY <1>3 DEF Refuse, daemonVars, Owned, Listed
    <2> QED
      BY <1>0, <1>1, <1>2, <1>3, <2>1, GoesOn
         DEF Refuse, Prompt, daemonVars, procVars, sigVars, Idle
  <1>4. CASE Quit
    BY <1>2, <1>4, Gone DEF Quit, daemonVars
  <1>5. CASE Eof
    BY <1>2, <1>5, Gone DEF Eof, daemonVars, procVars, sigVars
  <1>6. ASSUME NEW d \in Daemons, Register(d) PROVE OwnerInvariant'
    <2>1. ASSUME NEW k, Owned(k) PROVE Owned(k)'
      <3>1. PICK e \in Listed : pid[e] = k /\ status[e] = "active"
        BY <2>1 DEF Owned
      <3>2. e # d /\ e \in Daemons
        BY <1>0, <1>6, <3>1, ListedDaemons DEF Register
      <3>3. e \in Listed'
        <4>1. /\ list \in Seq(Daemons) /\ <<d>> \in Seq(Daemons) /\ Len(<<d>>) = 1
              /\ Len(list) \in Nat /\ DOMAIN list = 1..Len(list) /\ list' = <<d>> \o list
          BY <1>0, <1>6, LenProperties DEF TypeOK, Register
        <4>2. /\ list' \in Seq(Daemons) /\ Len(list') = 1 + Len(list)
              /\ \A i \in 1..(1 + Len(list)) : list'[i] = IF i <= 1 THEN d ELSE list[i - 1]
          BY <4>1, ConcatProperties
        <4>3. PICK i \in 1..Len(list) : e = list[i]
          BY <3>1, <4>1 DEF Listed
        <4>4. i + 1 \in 1..(1 + Len(list)) /\ ~(i + 1 <= 1) /\ i + 1 - 1 = i
          BY <4>1
        <4>5. DOMAIN list' = 1..(1 + Len(list))
          BY <4>2, LenProperties
        <4>6. list'[i + 1] = e
          BY <4>2, <4>3, <4>4
        <4> QED
          BY <4>4, <4>5, <4>6 DEF Listed
      <3> QED
        BY <1>0, <1>6, <3>1, <3>2, <3>3 DEF Register, Owned, TypeOK
    <2>2. \A e \in Daemons : pid'[e] <= forks
      BY <1>0, <1>2, <1>6 DEF Register, TypeOK
    <2>3. UNCHANGED <<proc, forks, spid, dropped>> /\ pc' \in Idle
      BY <1>6 DEF Register, Prompt, procVars, sigVars, Idle
    <2> QED
      BY <1>0, <1>1, <1>2, <2>1, <2>2, <2>3, GoesOn
  <1>7. ASSUME NEW d \in Daemons, Unregister(d) PROVE OwnerInvariant'
    <2> PICK n \in DOMAIN list :
            /\ list[n] = d
            /\ list' = SubSeq(list, n + 1, Len(list))
            /\ dropped' = dropped \cup ({pid[list[j]] : j \in 1..(n - 1)} \ {0})
      BY <1>7 DEF Unregister
    <2>1. UNCHANGED <<proc, forks, spid, pid, status>> /\ pc' \in Idle
      BY <1>7 DEF Unregister, Prompt, procVars, sigVars, Idle
    <2>2. ASSUME NEW k \in Pids \ dropped', Owned(k) PROVE Owned(k)'
      <3>1. /\ list \in Seq(Daemons) /\ Len(list) \in Nat /\ DOMAIN list = 1..Len(list)
            /\ \A i \in 1..Len(list) : list[i] \in Daemons
        BY <1>0, LenProperties, ElementOfSeq DEF TypeOK
      <3>2. PICK i \in 1..Len(list) : pid[list[i]] = k /\ status[list[i]] = "active"
        BY <2>2, <3>1 DEF Owned, Listed
      <3>3. i # n
        BY <1>7, <3>2 DEF Unregister
      <3>4. k # 0
        BY DEF Pids
      <3>5. ~(i \in 1..(n - 1))
        BY <3>2, <3>4
      <3>6. i > n /\ n \in 1..Len(list)
        BY <3>1, <3>3, <3>5
      <3>7. list[i] \in Listed'
        <4>1. n + 1 \in Int /\ Len(list) \in Int /\ \A j \in (n + 1)..Len(list) : list[j] \in Daemons
          BY <3>1, <3>6
        <4>2. /\ list' \in Seq(Daemons)
              /\ Len(list') = IF n + 1 <= Len(list) THEN Len(list) - (n + 1) + 1 ELSE 0
              /\ \A j \in 1..(Len(list) - (n + 1) + 1) : list'[j] = list[n + 1 + j - 1]
          BY <4>1, SubSeqProperties
        <4>3. i - n \in 1..(Len(list) - (n + 1) + 1) /\ n + 1 + (i - n) - 1 = i
          BY <3>1, <3>6
        <4>4. i - n \in DOMAIN list'
          BY <3>1, <3>6, <4>2, <4>3, LenProperties
        <4>5. list'[i - n] = list[i]
          BY <4>2, <4>3
        <4> QED
          BY <4>4, <4>5 DEF Listed
      <3> QED
        BY <2>1, <3>2, <3>7 DEF Owned
    <2> QED
      BY <1>0, <1>1, <1>2, <2>1, <2>2, GoesOn
  <1>8. ASSUME NEW d \in Daemons, Reset(d) PROVE OwnerInvariant'
    <2>1. ASSUME NEW k, Owned(k) PROVE Owned(k)'
      <3>1. status[d] # "active" /\ Listed \subseteq Listed'
        BY <1>8 DEF Reset, Listed
      <3>2. \A e \in Daemons \ {d} : pid'[e] = pid[e] /\ status'[e] = status[e]
        BY <1>0, <1>8 DEF Reset, TypeOK
      <3> QED
        BY <1>0, <2>1, <3>1, <3>2, OtherOwner
    <2>2. \A e \in Daemons : pid'[e] <= forks
      BY <1>0, <1>2, <1>8 DEF Reset, TypeOK
    <2>3. UNCHANGED <<proc, forks, spid, dropped>> /\ pc' \in Idle
      BY <1>8 DEF Reset, Prompt, procVars, sigVars, Idle
    <2> QED
      BY <1>0, <1>1, <1>2, <2>1, <2>2, <2>3, GoesOn
  <1>9. ASSUME NEW d \in Daemons, Start(d) PROVE OwnerInvariant'
    <2>1. /\ pc' = "fork" /\ sp' = d /\ d \in Listed /\ Listed' = Listed
          /\ UNCHANGED <<pid, dropped, proc, forks, spid>>
      BY <1>9 DEF Start, procVars, sigVars, Listed
    <2>2. StageOK'
      BY <1>0, <1>9, <2>1, ListedDaemons DEF Start, StageOK, PcsBlocked, TypeOK
    <2>3. SpidOK'
      BY <1>2, <2>1 DEF SpidOK, PcsBlocked
    <2>4. ASSUME NEW k, Owned(k) PROVE Owned(k)'
      BY <1>0, <1>9, <2>1, <2>4, OtherOwner DEF Start, TypeOK
    <2>5. OwnerOK'
      BY <1>1, <2>1, <2>4 DEF OwnerInvariant, OwnerOK
    <2> QED
      BY <2>2, <2>3, <2>5 DEF OwnerInvariant
  <1>10. ASSUME NEW d \in Daemons, Stop(d) PROVE OwnerInvariant'
    <2>1. /\ pc' = "stopping" /\ sp' = d /\ d \in Listed /\ Listed' = Listed
          /\ UNCHANGED <<pid, dropped, proc, forks>> /\ spid' = pid[d]
      BY <1>10 DEF Stop, procVars, Listed
    <2>2. StageOK'
      BY <2>1 DEF StageOK, PcsBlocked
    <2>3. SpidOK'
      BY <1>0, <1>2, <2>1, ListedDaemons DEF SpidOK, Idle, PcsBlocked
    <2>4. ASSUME NEW k, Owned(k) PROVE Staged(k)' \/ Owned(k)'
      <3>1. CASE pid[d] = k
        BY <2>1, <3>1 DEF Staged
      <3>2. CASE pid[d] # k
        BY <1>0, <1>10, <2>1, <2>4, <3>2, OtherOwner DEF Stop, TypeOK
      <3> QED
        BY <3>1, <3>2
    <2>5. OwnerOK'
      BY <1>1, <2>1, <2>4 DEF OwnerInvariant, OwnerOK
    <2> QED
      BY <2>2, <2>3, <2>5 DEF OwnerInvariant
  <1> QED
    BY <1>3, <1>4, <1>5, <1>6, <1>7, <1>8, <1>9, <1>10 DEF Command

LEMMA OwnerStarting == LegionInvariant /\ OwnerInvariant /\ Starting => OwnerInvariant'
  <1> SUFFICES ASSUME LegionInvariant, OwnerInvariant, Starting PROVE OwnerInvariant'
    OBVIOUS
  <1>0. TypeOK
    BY DEF LegionInvariant
  <1>1. /\ Alive /\ pc \in {"fork", "forked"} \cup PcsBlocked
        /\ sp \in Listed /\ sp \in Daemons /\ status[sp] = "starting"
    BY <1>0, ListedDaemons
       DEF Starting, StartFails, Fork, Watch, Read, ReadFails, Activate, At, Runs, Alive,
           PcsBlocked, OwnerInvariant, StageOK
  <1>2. spid <= forks /\ \A d \in Daemons : pid[d] <= forks
    BY DEF OwnerInvariant, SpidOK
  <1>3. \A k \in Pids \ dropped : proc[k] = "running" => Staged(k) \/ Owned(k)
    BY <1>1 DEF OwnerInvariant, OwnerOK
  <1>4. CASE StartFails
    <2>1. /\ pc = "fork" /\ Listed' = Listed /\ pc' \in Idle
          /\ UNCHANGED <<pid, dropped, proc, forks, spid>>
      BY <1>4 DEF StartFails, Prompt, procVars, sigVars, At, Idle, Listed
    <2>2. spid = 0 \/ proc[spid] # "running"
      BY <2>1 DEF OwnerInvariant, SpidOK
    <2>3. ASSUME NEW k, Staged(k) \/ Owned(k) PROVE Owned(k)'
      <3>1. Owned(k)
        BY <2>1, <2>3, NothingStaged
      <3>2. \A e \in Daemons \ {sp} : status'[e] = status[e]
        BY <1>0, <1>4 DEF StartFails, SetStatus, TypeOK
      <3> QED
        BY <1>0, <1>1, <2>1, <3>1, <3>2, OtherOwner
    <2> QED
      BY <1>0, <1>1, <1>2, <2>1, <2>2, <2>3, GoesOn
  <1>5. CASE Fork
    <2>1. /\ pc = "fork" /\ pc' = "forked" /\ Listed' = Listed /\ forks' = forks + 1
          /\ UNCHANGED <<list, status, pid, dropped, spid, sp>>
          /\ \A k \in Pids : k # forks + 1 => proc'[k] = proc[k]
      BY <1>0, <1>5 DEF Fork, daemonVars, sigVars, At, Listed, TypeOK
    <2>2. StageOK'
      BY <1>1, <2>1 DEF StageOK, PcsBlocked
    <2>3. SpidOK'
      BY <1>0, <1>2, <2>1 DEF SpidOK, Idle, PcsBlocked, TypeOK
    <2>4. OwnerOK'
      <3> SUFFICES ASSUME NEW k \in Pids \ dropped, proc'[k] = "running"
                   PROVE  Staged(k)' \/ Owned(k)'
        BY <2>1 DEF OwnerOK
      <3>1. CASE k = forks + 1
        BY <2>1, <3>1 DEF Staged
      <3>2. CASE k # forks + 1
        BY <1>3, <2>1, <3>2, NothingStaged DEF Owned
      <3> QED
        BY <3>1, <3>2
    <2> QED
      BY <2>2, <2>3, <2>4 DEF OwnerInvariant
  <1>6. CASE Watch
    <2>1. /\ pc = "forked" /\ pc' = "reading" /\ Listed' = Listed /\ spid' = forks
          /\ UNCHANGED <<list, status, dropped, proc, forks, sp>>
          /\ pid' = [pid EXCEPT ![sp] = forks] /\ pid'[sp] = forks
      BY <1>0, <1>1, <1>6 DEF Watch, procVars, At, Listed, TypeOK
    <2>2. StageOK'
      BY <1>1, <2>1 DEF StageOK, PcsBlocked
    <2>3. SpidOK'
      <3>1. forks <= forks /\ forks \in Nat
        BY <1>0, ForksAssumption DEF TypeOK
      <3>2. \A d \in Daemons : pid'[d] <= forks
        BY <1>0, <1>2, <2>1, <3>1 DEF TypeOK
      <3> QED
        BY <2>1, <3>1, <3>2 DEF SpidOK, Idle, PcsBlocked
    <2>4. ASSUME NEW k, Staged(k) \/ Owned(k) PROVE Staged(k)' \/ Owned(k)'
      <3>1. CASE Staged(k)
        BY <2>1, <3>1 DEF Staged, PcsBlocked
      <3>2. CASE Owned(k)
        BY <1>0, <1>1, <2>1, <3>2, OtherOwner DEF TypeOK
      <3> QED
        BY <2>4, <3>1, <3>2
    <2>5. OwnerOK'
      BY <1>3, <2>1, <2>4 DEF OwnerOK
    <2> QED
      BY <2>2, <2>3, <2>5 DEF OwnerInvariant
  <1>7. CASE Read
    <2>1. /\ pc = "reading" /\ pc' = "synced" /\ Listed' = Listed
          /\ UNCHANGED <<list, status, pid, dropped, proc, forks, spid, sp>>
      BY <1>7 DEF Read, daemonVars, procVars, sigVars, At, Listed
    <2>2. StageOK'
      BY <2>1 DEF OwnerInvariant, StageOK, PcsBlocked
    <2>3. SpidOK'
      BY <2>1 DEF OwnerInvariant, SpidOK, Idle, PcsBlocked
    <2>4. \A k : (Staged(k) => Staged(k)') /\ (Owned(k) => Owned(k)')
      BY <2>1 DEF Staged, Owned, PcsBlocked
    <2>5. OwnerOK'
      BY <1>3, <2>1, <2>4 DEF OwnerOK
    <2> QED
      BY <2>2, <2>3, <2>5 DEF OwnerInvariant
  <1>8. CASE ReadFails
    <2>1. /\ pc = "reading" /\ proc[forks] # "running" /\ pc' \in Idle /\ Listed' = Listed
          /\ UNCHANGED <<pid, dropped, proc, forks, spid>>
      BY <1>8 DEF ReadFails, Prompt, procVars, At, Idle, Listed
    <2>2. pid[sp] = forks /\ (spid = 0 \/ proc[spid] # "running")
      BY <2>1 DEF OwnerInvariant, StageOK, SpidOK, PcsBlocked
    <2>3. ASSUME NEW k, proc[k] = "running", Staged(k) \/ Owned(k) PROVE Owned(k)'
      <3>1. Owned(k)
        BY <2>1, <2>2, <2>3 DEF Staged
      <3>2. \A e \in Daemons \ {sp} : status'[e] = status[e]
        BY <1>0, <1>8 DEF ReadFails, SetStatus, TypeOK
      <3> QED
        BY <1>0, <1>1, <2>1, <3>1, <3>2, OtherOwner
    <2> QED
      BY <1>0, <1>1, <1>2, <2>1, <2>2, <2>3, GoesOn
  <1>9. CASE Activate
    <2>1. /\ pc = "synced" /\ pc' \in Idle /\ Listed' = Listed /\ spid' = 0
          /\ UNCHANGED <<pid, dropped, proc, forks>> /\ status'[sp] = "active"
          /\ \A e \in Daemons \ {sp} : status'[e] = status[e]
      BY <1>0, <1>1, <1>9 DEF Activate, Prompt, SetStatus, At, Idle, Listed, TypeOK
    <2>2. ASSUME NEW k, Staged(k) \/ Owned(k) PROVE Owned(k)'
      <3>1. CASE Staged(k)
        BY <1>1, <2>1, <3>1 DEF Staged, Owned
      <3>2. CASE Owned(k)
        BY <1>0, <1>1, <2>1, <3>2, OtherOwner
      <3> QED
        BY <2>2, <3>1, <3>2
    <2>3. 0 <= forks
      BY <1>0, ForksAssumption DEF TypeOK
    <2> QED
      BY <1>0, <1>1, <1>2, <2>1, <2>2, <2>3, GoesOn
  <1> QED
    BY <1>4, <1>5, <1>6, <1>7, <1>8, <1>9 DEF Starting

LEMMA OwnerStopping == LegionInvariant /\ OwnerInvariant /\ Stopping => OwnerInvariant'
  <1> SUFFICES ASSUME LegionInvariant, OwnerInvariant, Stopping PROVE OwnerInvariant'
    OBVIOUS
  <1>0. TypeOK
    BY DEF LegionInvariant
  <1>1. /\ Alive /\ pc \in {"stopping", "resumed"} /\ sp \in Listed /\ sp \in Daemons
    BY <1>0, ListedDaemons
       DEF Stopping, Suspend, StopEnd, Restart, At, Runs, OwnerInvariant, StageOK
  <1>2. /\ spid <= forks /\ \A d \in Daemons : pid[d] <= forks
        /\ pc = "resumed" => \A k \in Pids : proc[k] # "running"
    BY DEF OwnerInvariant, SpidOK, StageOK
  <1>3. CASE Suspend
    <2>1. /\ pc = "stopping" /\ pc' = "suspended" /\ Listed' = Listed
          /\ UNCHANGED <<list, status, pid, dropped, proc, forks, spid, sp>>
      BY <1>3 DEF Suspend, daemonVars, procVars, sigVars, At, Listed
    <2>2. \A k : (Staged(k) => Staged(k)') /\ (Owned(k) => Owned(k)')
      BY <2>1 DEF Staged, Owned
    <2>3. StageOK'
      BY <1>1, <2>1 DEF StageOK, PcsBlocked
    <2>4. SpidOK'
      BY <1>2, <2>1 DEF SpidOK, Idle, PcsBlocked
    <2>5. OwnerOK'
      BY <1>1, <2>1, <2>2 DEF OwnerInvariant, OwnerOK
    <2> QED
      BY <2>3, <2>4, <2>5 DEF OwnerInvariant
  <1>4. ASSUME StopEnd \/ Restart PROVE OwnerInvariant'
    <2>1. /\ pc = "resumed" /\ pc' \in {"prompt", "fork"} /\ Listed' = Listed
          /\ UNCHANGED <<list, dropped, proc, forks, spid>>
      BY <1>4 DEF StopEnd, Restart, Prompt, procVars, At, Listed
    <2>2. \A d \in Daemons : pid'[d] <= forks
      BY <1>0, <1>2, <1>4, ForksAssumption DEF StopEnd, Restart, TypeOK
    <2>3. StageOK'
      <3>1. pc' = "fork" => sp' = sp /\ status'[sp] = "starting"
        BY <1>0, <1>1, <1>4 DEF StopEnd, Restart, Prompt, SetStatus, TypeOK
      <3> QED
        BY <1>1, <2>1, <3>1 DEF StageOK, PcsBlocked
    <2>4. SpidOK'
      <3>1. spid = 0 \/ spid \in Pids
        BY <1>0, ForksAssumption DEF TypeOK, Pids
      <3> QED
        BY <1>2, <2>1, <2>2, <3>1 DEF SpidOK, PcsBlocked
    <2>5. OwnerOK'
      BY <1>2, <2>1 DEF OwnerOK
    <2> QED
      BY <2>3, <2>4, <2>5 DEF OwnerInvariant
  <1> QED
    BY <1>3, <1>4 DEF Stopping

-------------------------------------------------------------------------------
\* SIGKILL lets no process run that did not.
LEMMA KillAllStops ==
    ASSUME NEW S, KillAll(S), NEW k \in Pids, proc'[k] = "running"
    PROVE  proc[k] = "running"
  BY DEF KillAll

LEMMA OwnerHandlers == LegionInvariant /\ OwnerInvariant /\ Handlers => OwnerInvariant'
  <1> SUFFICES ASSUME LegionInvariant, OwnerInvariant, Handlers PROVE OwnerInvariant'
    OBVIOUS
  <1>0. TypeOK /\ spid <= forks
    BY DEF LegionInvariant, OwnerInvariant, SpidOK
  <1>1. CASE DeliverAlrm \/ DeliverChld \/ AlrmSuspend
    <2>1. UNCHANGED <<list, status, pid, dropped, forks, proc, spid, pc, sp>>
      BY <1>1 DEF DeliverAlrm, DeliverChld, AlrmSuspend, daemonVars, procVars, cmdVars
    <2> QED
      BY <1>0, <2>1, Rests
  <1>2. CASE AlrmKill
    <2>1. /\ UNCHANGED <<list, status, pid, dropped, forks, spid, sp>>
          /\ pc' = pc \/ pc' = "segv"
      BY <1>2 DEF AlrmKill, Report, daemonVars
    <2>2. \A k \in Pids : proc'[k] = "running" => proc[k] = "running"
      BY <1>2, KillAllStops DEF AlrmKill
    <2>3. CASE pc' = "segv"
      BY <1>0, <2>1, <2>3, Gone
    <2>4. CASE pc' = pc
      BY <1>0, <2>1, <2>2, <2>4, Rests
    <2> QED
      BY <2>1, <2>3, <2>4
  <1>3. ASSUME NEW k \in Pids, Reap(k) PROVE OwnerInvariant'
    <2>1. /\ UNCHANGED <<list, status, pid, dropped, forks, sp>>
          /\ spid' = k /\ proc[k] \in Zombies
          /\ pc' = pc \/ pc' = "segv"
      BY <1>3 DEF Reap, Report, daemonVars
    <2>2. k <= forks
      BY <1>0, <2>1 DEF TypeOK, Pids, Zombies
    <2>3. /\ proc'[k] # "running"
          /\ \A l \in Pids : proc'[l] = "running" => proc[l] = "running"
      BY <1>0, <1>3 DEF Reap, TypeOK
    <2>4. CASE pc' = "segv"
      BY <2>1, <2>2, <2>4, Gone
    <2>5. CASE pc' = pc
      BY <1>0, <2>1, <2>2, <2>3, <2>5, Rests
    <2> QED
      BY <2>1, <2>4, <2>5
  <1>4. CASE ChldReturn
    <2>1. /\ UNCHANGED <<list, status, pid, dropped, forks, proc, spid, sp>>
          /\ pc' = pc \/ (pc = "suspended" /\ pc' = "resumed")
          /\ \A k \in Pids : proc[k] # "running"
      BY <1>4 DEF ChldReturn, Return, daemonVars, procVars
    <2>2. CASE pc' = pc
      BY <1>0, <2>1, <2>2, Rests
    <2>3. CASE pc = "suspended" /\ pc' = "resumed"
      <3>1. StageOK'
        BY <2>1, <2>3 DEF OwnerInvariant, StageOK, Listed, PcsBlocked
      <3>2. SpidOK'
        BY <2>1, <2>3 DEF OwnerInvariant, SpidOK, Idle, PcsBlocked
      <3>3. OwnerOK'
        BY <2>1 DEF OwnerOK
      <3> QED
        BY <3>1, <3>2, <3>3 DEF OwnerInvariant
    <2> QED
      BY <2>1, <2>2, <2>3
  <1> QED
    BY <1>1, <1>2, <1>3, <1>4 DEF Handlers

LEMMA OwnerOutside ==
    LegionInvariant /\ OwnerInvariant /\ (Sigint \/ Children \/ Expire) => OwnerInvariant'
  <1> SUFFICES ASSUME LegionInvariant, OwnerInvariant, Sigint \/ Children \/ Expire
               PROVE  OwnerInvariant'
    OBVIOUS
  <1>0. TypeOK /\ spid <= forks
    BY DEF LegionInvariant, OwnerInvariant, SpidOK
  <1>1. CASE Sigint
    BY <1>0, <1>1, Gone DEF Sigint, daemonVars
  <1>2. CASE Sync \/ Expire
    <2>1. UNCHANGED <<list, status, pid, dropped, forks, proc, spid, pc, sp>>
      BY <1>2 DEF Sync, Expire, daemonVars, procVars, sigVars, cmdVars
    <2> QED
      BY <1>0, <2>1, Rests
  <1>3. ASSUME NEW k \in Pids, Ends(k) PROVE OwnerInvariant'
    <2>1. UNCHANGED <<list, status, pid, dropped, forks, spid, pc, sp>>
      BY <1>3 DEF Ends, daemonVars, cmdVars
    <2>2. \A l \in Pids : proc'[l] = "running" => proc[l] = "running"
      BY <1>0, <1>3 DEF Ends, TypeOK, Zombies
    <2> QED
      BY <1>0, <2>1, <2>2, Rests
  <1>4. ASSUME NEW k \in Pids, Halt(k) PROVE OwnerInvariant'
    <2>1. UNCHANGED <<list, status, pid, dropped, forks, proc, spid, pc, sp>>
      BY <1>4 DEF Halt, daemonVars, cmdVars
    <2> QED
      BY <1>0, <2>1, Rests
  <1> QED
    BY <1>1, <1>2, <1>3, <1>4 DEF Children

LEMMA OwnerStep == LegionInvariant /\ OwnerInvariant /\ [Next]_vars => OwnerInvariant'
  <1> SUFFICES ASSUME LegionInvariant, OwnerInvariant, UNCHANGED vars PROVE OwnerInvariant'
    BY OwnerRunCli, OwnerCommand, OwnerStarting, OwnerStopping, OwnerHandlers, OwnerOutside
       DEF Next
  <1> QED
    BY Rests DEF LegionInvariant, vars, daemonVars, procVars, sigVars, cmdVars

\* When the master waits for a command, every process it forked that runs
\* belongs to a listed daemon that is "active", unless unregister dropped it:
\* no start, timeout, stop or logrotate leaves a process behind.
THEOREM RunningBelongs == Spec => []RunningIsActive
  <1>1. Init => OwnerInvariant
    <2> SUFFICES ASSUME Init PROVE OwnerInvariant
      OBVIOUS
    <2>1. \A k \in Pids : proc[k] # "running"
      BY DEF Init
    <2>2. StageOK /\ SpidOK
      BY DEF Init, StageOK, SpidOK, PcsBlocked
    <2> QED
      BY <2>1, <2>2 DEF OwnerInvariant, OwnerOK
  <1>2. OwnerInvariant => RunningIsActive
    BY NothingStaged DEF OwnerInvariant, OwnerOK, RunningIsActive, AtPrompt, Alive, Idle, Owned
  <1> QED
    BY <1>1, <1>2, OwnerStep, InvariantHolds, PTL DEF Spec
===============================================================================
