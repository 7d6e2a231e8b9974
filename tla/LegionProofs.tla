----------------------------- MODULE LegionProofs -----------------------------
(***************************************************************************)
(* Proofs about module Legion, for any set of daemons and any number of    *)
(* forks: the variables keep their types, and no kill has the pid 0.  For  *)
(* the second, whatever can still make the SIGALRM handler run (the alarm, *)
(* a pending SIGALRM, a handler before its kill) implies that spid is set; *)
(* only Activate resets spid, and it does so after the alarm is off, at a  *)
(* time when a SIGALRM cannot be pending.                                  *)
(***************************************************************************)
EXTENDS Legion, SequenceTheorems, TLAPS

\* What the master has found or stored by the time it gets to pc.
MasterOK ==
    /\ pc \in {"fork", "forked", "stopping", "suspended", "resumed"} \cup PcsBlocked
          => sp \in Daemons
    /\ pc = "forked" => forks >= 1
    /\ pc \in PcsBlocked => pid[sp] # 0

AlarmOK == timer \/ "ALRM" \in pending \/ OnStack({"alrm"}) => spid # 0

ActiveOK == \A d \in Daemons : status[d] = "active" => pid[d] # 0

LegionInvariant == TypeOK /\ MasterOK /\ AlarmOK /\ ActiveOK

-------------------------------------------------------------------------------
\* The stack of handlers: its top, and what becomes of it.
LEMMA TopProperties ==
    ASSUME TypeOK, Top # "main"
    PROVE  /\ Len(frames) \in Nat \ {0}
           /\ Len(frames) \in DOMAIN frames
           /\ Top = frames[Len(frames)] /\ Top \in Frames
  <1>1. frames \in Seq(Frames) /\ frames # <<>> /\ Top = frames[Len(frames)]
    BY DEF TypeOK, Top
  <1>2. Len(frames) \in Nat \ {0} /\ DOMAIN frames = 1..Len(frames)
    BY <1>1, EmptySeq, LenProperties
  <1> QED
    BY <1>1, <1>2

LEMMA ReplaceTop ==
    ASSUME TypeOK, Top # "main", NEW f \in Frames \ {"alrm"},
           frames' = [frames EXCEPT ![Len(frames)] = f]
    PROVE  frames' \in Seq(Frames) /\ (OnStack({"alrm"})' => OnStack({"alrm"}))
  <1>1. frames \in Seq(Frames)
    BY DEF TypeOK
  <1>2. frames' \in Seq(Frames) /\ DOMAIN frames' = DOMAIN frames
    BY <1>1, ExceptSeq, TopProperties
  <1>3. \A i \in DOMAIN frames : frames'[i] = frames[i] \/ frames'[i] = f
    BY <1>1
  <1> QED
    BY <1>2, <1>3 DEF OnStack

LEMMA PushFrame ==
    ASSUME TypeOK, NEW f \in Frames, frames' = Append(frames, f)
    PROVE  /\ frames' \in Seq(Frames)
           /\ OnStack({"alrm"})' => OnStack({"alrm"}) \/ f = "alrm"
  <1>1. frames \in Seq(Frames)
    BY DEF TypeOK
  <1>2. /\ frames' \in Seq(Frames) /\ DOMAIN frames' = 1..(Len(frames) + 1)
        /\ \A i \in 1..Len(frames) : frames'[i] = frames[i]
        /\ frames'[Len(frames) + 1] = f
    BY <1>1, AppendProperties, LenProperties
  <1> QED
    BY <1>1, <1>2, LenProperties DEF OnStack

LEMMA Prefix ==
    ASSUME NEW S, NEW s \in Seq(S), NEW n \in Int, n <= Len(s)
    PROVE  /\ SubSeq(s, 1, n) \in Seq(S)
           /\ Len(SubSeq(s, 1, n)) = IF 1 <= n THEN n ELSE 0
           /\ \A i \in 1..n : SubSeq(s, 1, n)[i] = s[i]
  <1>1. Len(s) \in Nat /\ \A i \in 1..Len(s) : s[i] \in S
    BY LenProperties, ElementOfSeq
  <1>2. \A i \in 1..n : s[i] \in S
    BY <1>1
  <1>3. /\ SubSeq(s, 1, n) \in Seq(S)
        /\ Len(SubSeq(s, 1, n)) = IF 1 <= n THEN n - 1 + 1 ELSE 0
        /\ \A i \in 1..(n - 1 + 1) : SubSeq(s, 1, n)[i] = s[1 + i - 1]
    BY <1>2, SubSeqProperties, SMT
  <1> QED
    BY <1>3

LEMMA ReturnPops ==
    ASSUME TypeOK, Top # "main", Return
    PROVE  frames' \in Seq(Frames) /\ (OnStack({"alrm"})' => OnStack({"alrm"}))
  <1> DEFINE below == SubSeq(frames, 1, Len(frames) - 1)
             depth == Len(below)
             under == SubSeq(below, 1, depth - 1)
  <1>1. frames \in Seq(Frames) /\ Len(frames) \in Nat \ {0} /\ DOMAIN frames = 1..Len(frames)
    BY TopProperties, LenProperties DEF TypeOK
  <1>2. /\ below \in Seq(Frames) /\ depth = Len(frames) - 1
        /\ \A i \in 1..depth : below[i] = frames[i]
    <2>1. Len(frames) - 1 \in Int /\ Len(frames) - 1 <= Len(frames)
      BY <1>1
    <2> QED
      BY <1>1, <2>1, Prefix
  <1> HIDE DEF below
  <1>3. /\ under \in Seq(Frames)
        /\ Len(under) = IF 1 <= depth - 1 THEN depth - 1 ELSE 0
        /\ \A i \in 1..(depth - 1) : under[i] = below[i]
    <2>1. depth - 1 \in Int /\ depth - 1 <= Len(below)
      BY <1>1, <1>2
    <2> QED
      BY <1>2, <2>1, Prefix
  <1>4. frames' \in {below, under}
    BY DEF Return, below
  <1> HIDE DEF under
  <1>5. \A i \in DOMAIN frames' : i \in DOMAIN frames /\ frames'[i] = frames[i]
    <2>1. CASE frames' = below
      <3>1. DOMAIN frames' = 1..depth
        BY <1>2, <2>1, LenProperties
      <3> QED
        BY <1>1, <1>2, <2>1, <3>1
    <2>2. CASE frames' = under
      <3>1. DOMAIN frames' = 1..Len(under)
        BY <1>3, <2>2, LenProperties
      <3>2. depth \in Nat /\ depth <= Len(frames)
        BY <1>1, <1>2
      <3> SUFFICES ASSUME NEW i \in DOMAIN frames'
                   PROVE  i \in DOMAIN frames /\ frames'[i] = frames[i]
        OBVIOUS
      <3> HIDE DEF depth
      <3>3. i \in 1..(depth - 1) /\ i \in 1..depth /\ i \in 1..Len(frames)
        BY <1>1, <1>3, <3>1, <3>2
      <3> QED
        BY <1>1, <1>2, <1>3, <2>2, <3>3
    <2> QED
      BY <1>4, <2>1, <2>2
  <1> QED
    BY <1>2, <1>3, <1>4, <1>5 DEF OnStack

-------------------------------------------------------------------------------
\* When the master takes a step no handler is on the stack, and no SIGALRM is
\* pending: it would have been delivered before.
LEMMA MasterStep ==
    ASSUME TypeOK, NEW p, At(p)
    PROVE  /\ pc = p /\ pc \notin {"exit", "segv"}
           /\ frames = <<>> /\ "ALRM" \notin pending
           /\ \A S : ~OnStack(S)
  <1>1. Top = "main" /\ Deliverable = {} /\ pc = p /\ pc \notin {"exit", "segv"}
    BY DEF At, Runs, Alive
  <1>2. frames = <<>>
    BY <1>1, TopProperties DEF Top, TypeOK, Frames, Alarmed
  <1>3. \A S : ~OnStack(S)
    BY <1>2 DEF OnStack
  <1>4. ~Blocked("ALRM")
    BY <1>3 DEF Blocked
  <1> QED
    BY <1>1, <1>2, <1>3, <1>4 DEF Deliverable

LEMMA ListedDaemons == TypeOK => Listed \subseteq Daemons
  BY ElementOfSeq, LenProperties DEF TypeOK, Listed

LEMMA KillAllTypes ==
    ASSUME TypeOK, NEW S, KillAll(S)
    PROVE  /\ proc' \in [Pids -> Fates]
           /\ \A k \in Pids : proc'[k] = "none" <=> proc[k] = "none"
           /\ pending' \in SUBSET Signals
           /\ "ALRM" \in pending' <=> "ALRM" \in pending
  BY DEF KillAll, TypeOK, Fates, Zombies, Signals

-------------------------------------------------------------------------------
LEMMA InitInvariant == Init => LegionInvariant
  <1> SUFFICES ASSUME Init PROVE LegionInvariant
    OBVIOUS
  <1>1. TypeOK
    <2>1. <<>> \in Seq(Daemons) /\ <<>> \in Seq(Frames)
      OBVIOUS
    <2>2. /\ list \in Seq(Daemons) /\ frames \in Seq(Frames)
          /\ \A i, j \in DOMAIN list : list[i] = list[j] => i = j
      BY <2>1 DEF Init
    <2>3. /\ proc \in [Pids -> Fates]
          /\ \A k \in Pids : proc[k] = "none" <=> k > forks
      BY ForksAssumption DEF Init, Pids, Fates
    <2>4. /\ status \in [Daemons -> Statuses] /\ pid \in [Daemons -> 0..MaxForks]
          /\ forks \in 0..MaxForks /\ spid \in 0..MaxForks
      BY ForksAssumption DEF Init, Statuses
    <2>5. pc \in Pcs /\ cmd \in Commands
      BY DEF Init, Pcs, Commands
    <2> QED
      BY <2>2, <2>3, <2>4, <2>5 DEF Init, TypeOK
  <1>2. ~OnStack({"alrm"})
    BY DEF Init, OnStack
  <1> QED
    BY <1>1, <1>2 DEF Init, LegionInvariant, MasterOK, AlarmOK, ActiveOK, PcsBlocked

LEMMA HandlersInvariant == LegionInvariant /\ Handlers => LegionInvariant'
  <1> SUFFICES ASSUME LegionInvariant, Handlers PROVE LegionInvariant'
    OBVIOUS
  <1> USE DEF LegionInvariant, daemonVars, procVars, sigVars, cmdVars
  <1>1. CASE DeliverAlrm
    <2>1. frames' \in Seq(Frames)
      BY <1>1, PushFrame DEF DeliverAlrm, Frames, Alarmed
    <2>2. spid # 0
      BY <1>1 DEF DeliverAlrm, Deliverable, AlarmOK
    <2> QED
      BY <1>1, <2>1, <2>2 DEF DeliverAlrm, TypeOK, MasterOK, AlarmOK, ActiveOK
  <1>2. CASE DeliverChld
    <2>1. frames' \in Seq(Frames) /\ (OnStack({"alrm"})' => OnStack({"alrm"}))
      BY <1>2, PushFrame DEF DeliverChld, Frames
    <2> QED
      BY <1>2, <2>1 DEF DeliverChld, TypeOK, MasterOK, AlarmOK, ActiveOK
  <1>3. CASE AlrmKill
    <2>1. frames' \in Seq(Frames) /\ (OnStack({"alrm"})' => OnStack({"alrm"}))
      BY <1>3, ReplaceTop DEF AlrmKill, Runs, Frames, Alarmed
    <2>2. /\ proc' \in [Pids -> Fates] /\ pending' \in SUBSET Signals
          /\ \A k \in Pids : proc'[k] = "none" <=> proc[k] = "none"
          /\ "ALRM" \in pending' <=> "ALRM" \in pending
      BY <1>3, KillAllTypes DEF AlrmKill
    <2>3. pc' = pc \/ pc' = "segv"
      BY <1>3 DEF AlrmKill, Report
    <2> QED
      BY <1>3, <2>1, <2>2, <2>3
         DEF AlrmKill, TypeOK, MasterOK, AlarmOK, ActiveOK, Pcs, PcsBlocked
  <1>4. CASE AlrmSuspend
    <2>1. frames' \in Seq(Frames) /\ (OnStack({"alrm"})' => OnStack({"alrm"}))
      BY <1>4, ReplaceTop DEF AlrmSuspend, Runs, Frames, Alarmed
    <2> QED
      BY <1>4, <2>1 DEF AlrmSuspend, TypeOK, MasterOK, AlarmOK, ActiveOK
  <1>5. ASSUME NEW k \in Pids, Reap(k) PROVE LegionInvariant'
    <2>1. pc' = pc \/ pc' = "segv"
      BY <1>5 DEF Reap, Report
    <2>2. k # 0 /\ k \in 0..MaxForks
      BY ForksAssumption DEF Pids
    <2>3. /\ proc' \in [Pids -> Fates]
          /\ \A l \in Pids : proc'[l] = "none" <=> proc[l] = "none"
      BY <1>5 DEF Reap, TypeOK, Fates, Zombies
    <2>4. OnStack({"alrm"})' <=> OnStack({"alrm"})
      BY <1>5 DEF Reap, OnStack
    <2> QED
      BY <1>5, <2>1, <2>2, <2>3, <2>4
         DEF Reap, TypeOK, MasterOK, AlarmOK, ActiveOK, Pcs, PcsBlocked
  <1>6. CASE ChldReturn
    <2>1. frames' \in Seq(Frames) /\ (OnStack({"alrm"})' => OnStack({"alrm"}))
      BY <1>6, ReturnPops DEF ChldReturn, Runs
    <2>2. pc' = pc \/ (pc = "suspended" /\ pc' = "resumed")
      BY <1>6 DEF ChldReturn, Return
    <2>3. UNCHANGED <<daemonVars, procVars, flag, spid, timer, pending, cmd, sp>>
      BY <1>6 DEF ChldReturn, Return
    <2> QED
      BY <2>1, <2>2, <2>3 DEF TypeOK, MasterOK, AlarmOK, ActiveOK, Pcs, PcsBlocked
  <1> QED
    BY <1>1, <1>2, <1>3, <1>4, <1>5, <1>6 DEF Handlers

LEMMA StartingInvariant == LegionInvariant /\ Starting => LegionInvariant'
  <1> SUFFICES ASSUME LegionInvariant, Starting PROVE LegionInvariant'
    OBVIOUS
  <1> USE DEF LegionInvariant, daemonVars, procVars, sigVars, cmdVars
  <1>1. CASE StartFails
    <2>1. /\ ~OnStack({"alrm"})' /\ "ALRM" \notin pending'
      BY <1>1, MasterStep DEF StartFails, OnStack
    <2> QED
      BY <1>1, <2>1
         DEF StartFails, Prompt, SetStatus, TypeOK, MasterOK, AlarmOK, ActiveOK,
             Statuses, Pcs, PcsBlocked, Commands
  <1>2. CASE Fork
    <2>1. frames = <<>> /\ ~OnStack({"alrm"})' /\ sp \in Daemons
      BY <1>2, MasterStep DEF Fork, OnStack, MasterOK
    <2>2. /\ forks' \in 0..MaxForks /\ forks' >= 1
          /\ proc' \in [Pids -> Fates]
          /\ \A k \in Pids : proc'[k] = "none" <=> k > forks'
      BY <1>2, ForksAssumption DEF Fork, TypeOK, Pids, Fates
    <2> QED
      BY <1>2, <2>1, <2>2 DEF Fork, TypeOK, MasterOK, AlarmOK, ActiveOK, Pcs, PcsBlocked
  <1>3. CASE Watch
    <2>1. sp \in Daemons /\ forks # 0
      BY <1>3, MasterStep DEF Watch, MasterOK, TypeOK
    <2> QED
      BY <1>3, <2>1, ForksAssumption DEF Watch, TypeOK, MasterOK, AlarmOK, ActiveOK, Pcs, PcsBlocked
  <1>4. CASE Read
    <2>1. sp \in Daemons /\ pid[sp] # 0 /\ (OnStack({"alrm"})' <=> OnStack({"alrm"}))
      BY <1>4, MasterStep DEF Read, MasterOK, PcsBlocked, OnStack
    <2> QED
      BY <1>4, <2>1 DEF Read, TypeOK, MasterOK, AlarmOK, ActiveOK, Pcs, PcsBlocked
  <1>5. CASE ReadFails
    <2>1. OnStack({"alrm"})' <=> OnStack({"alrm"})
      BY <1>5 DEF ReadFails, OnStack
    <2> QED
      BY <1>5, <2>1
         DEF ReadFails, Prompt, SetStatus, TypeOK, MasterOK, AlarmOK, ActiveOK,
             Statuses, Pcs, PcsBlocked, Commands
  <1>6. CASE Activate
    <2>1. /\ "ALRM" \notin pending' /\ ~OnStack({"alrm"})'
          /\ sp \in Daemons /\ pid[sp] # 0
      BY <1>6, MasterStep DEF Activate, OnStack, MasterOK, PcsBlocked
    <2>2. TypeOK'
      <3>1. status' \in [Daemons -> Statuses]
        BY <1>6 DEF Activate, SetStatus, TypeOK, Statuses
      <3>2. 0 \in 0..MaxForks /\ pc' \in Pcs /\ cmd' \in Commands
        BY <1>6, ForksAssumption DEF Activate, Prompt, Pcs, Commands
      <3> QED
        BY <1>6, <3>1, <3>2 DEF Activate, Prompt, TypeOK
    <2>3. MasterOK' /\ AlarmOK'
      BY <1>6, <2>1 DEF Activate, Prompt, SetStatus, MasterOK, AlarmOK, PcsBlocked
    <2>4. ActiveOK'
      BY <1>6, <2>1 DEF Activate, Prompt, SetStatus, ActiveOK, TypeOK
    <2> QED
      BY <2>2, <2>3, <2>4
  <1> QED
    BY <1>1, <1>2, <1>3, <1>4, <1>5, <1>6 DEF Starting

LEMMA StoppingInvariant == LegionInvariant /\ Stopping => LegionInvariant'
  <1> SUFFICES ASSUME LegionInvariant, Stopping PROVE LegionInvariant'
    OBVIOUS
  <1> USE DEF LegionInvariant, daemonVars, procVars, sigVars, cmdVars
  <1>1. CASE Suspend
    <2>1. sp \in Daemons /\ (OnStack({"alrm"})' <=> OnStack({"alrm"}))
      BY <1>1, MasterStep DEF Suspend, MasterOK, OnStack
    <2>2. TypeOK'
      BY <1>1, <2>1, ForksAssumption
         DEF Suspend, TypeOK, Statuses, Pcs, PcsBlocked, Commands
    <2>3. MasterOK' /\ AlarmOK'
      BY <1>1, <2>1 DEF Suspend, MasterOK, AlarmOK, PcsBlocked
    <2>4. ActiveOK'
      BY <1>1, <2>1 DEF Suspend, ActiveOK, TypeOK
    <2> QED
      BY <2>2, <2>3, <2>4
  <1>2. CASE StopEnd
    <2>1. "ALRM" \notin pending' /\ ~OnStack({"alrm"})' /\ sp \in Daemons
      BY <1>2, MasterStep DEF StopEnd, OnStack, MasterOK
    <2>2. TypeOK'
      <3>1. /\ status' \in [Daemons -> Statuses] /\ pid' \in [Daemons -> 0..MaxForks]
            /\ flag' \in {0, 2, 3}
        <4>1. CASE flag = 3
          BY <1>2, <4>1 DEF StopEnd, TypeOK
        <4>2. CASE flag # 3
          <5>1. status' \in [Daemons -> Statuses]
            BY <1>2, <4>2 DEF StopEnd, SetStatus, TypeOK, Statuses
          <5>2. 0 \in 0..MaxForks
            BY ForksAssumption
          <5>3. pid' \in [Daemons -> 0..MaxForks]
            BY <1>2, <4>2, <5>2 DEF StopEnd, TypeOK
          <5> QED
            BY <1>2, <4>2, <5>1, <5>3 DEF StopEnd
        <4> QED
          BY <4>1, <4>2
      <3>2. pc' \in Pcs /\ cmd' \in Commands
        BY <1>2 DEF StopEnd, Prompt, Pcs, Commands
      <3> QED
        BY <1>2, <3>1, <3>2 DEF StopEnd, Prompt, TypeOK
    <2>3. MasterOK' /\ AlarmOK'
      BY <1>2, <2>1 DEF StopEnd, Prompt, SetStatus, MasterOK, AlarmOK, PcsBlocked
    <2>4. ActiveOK'
      BY <1>2, <2>1 DEF StopEnd, Prompt, SetStatus, ActiveOK, TypeOK
    <2> QED
      BY <2>2, <2>3, <2>4
  <1>3. CASE Restart
    <2>1. "ALRM" \notin pending' /\ ~OnStack({"alrm"})' /\ sp \in Daemons
      BY <1>3, MasterStep DEF Restart, OnStack, MasterOK
    <2>2. TypeOK'
      <3>1. status' \in [Daemons -> Statuses]
        BY <1>3 DEF Restart, SetStatus, TypeOK, Statuses
      <3>2. pid' \in [Daemons -> 0..MaxForks]
        <4>1. 0 \in 0..MaxForks
          BY ForksAssumption
        <4> QED
          BY <1>3, <4>1 DEF Restart, TypeOK
      <3> QED
        BY <1>3, <3>1, <3>2 DEF Restart, TypeOK, Pcs
    <2>3. MasterOK' /\ AlarmOK'
      BY <1>3, <2>1 DEF Restart, MasterOK, AlarmOK, PcsBlocked
    <2>4. ActiveOK'
      BY <1>3, <2>1 DEF Restart, SetStatus, ActiveOK, TypeOK
    <2> QED
      BY <2>2, <2>3, <2>4
  <1> QED
    BY <1>1, <1>2, <1>3 DEF Stopping

LEMMA RunCliInvariant == LegionInvariant /\ RunCli => LegionInvariant'
  <1> SUFFICES ASSUME LegionInvariant, RunCli PROVE LegionInvariant'
    OBVIOUS
  <1> USE DEF LegionInvariant, daemonVars, procVars, sigVars, cmdVars
  <1> DEFINE Between == {"see2", "note2", "clear2", "see3", "note3", "clear3", "eval", "segv"}
  <1>1. ASSUME pc' \in Between, frames' = frames, flag' \in {0, flag},
               UNCHANGED <<daemonVars, procVars, spid, timer, pending, frames, cmd, sp>>
        PROVE  LegionInvariant'
    <2>1. OnStack({"alrm"})' <=> OnStack({"alrm"})
      BY <1>1 DEF OnStack
    <2>2. TypeOK'
      BY <1>1 DEF TypeOK, Pcs
    <2>3. MasterOK' /\ AlarmOK' /\ ActiveOK'
      BY <1>1, <2>1 DEF MasterOK, AlarmOK, ActiveOK, PcsBlocked
    <2> QED
      BY <2>2, <2>3
  <1>2. CASE ReadLine
    BY <1>1, <1>2 DEF ReadLine
  <1>3. CASE See(2, "see2", "note2", "see3") \/ See(3, "see3", "note3", "eval")
    BY <1>1, <1>3 DEF See
  <1>4. ASSUME NEW f \in {2, 3}, NEW here, NEW next \in Between, Note(f, here, next)
        PROVE  LegionInvariant'
    <2>1. CASE pc' = "segv" /\ UNCHANGED daemonVars
      BY <1>1, <1>4, <2>1 DEF Note
    <2>2. ASSUME NEW d \in Daemons,
                 pid' = [pid EXCEPT ![d] = 0],
                 status' = [status EXCEPT ![d] = IF f = 2 THEN "exited" ELSE "crashed"],
                 pc' = next, UNCHANGED <<list, dropped>>
          PROVE  LegionInvariant'
      <3>1. status' \in [Daemons -> Statuses] /\ pid' \in [Daemons -> 0..MaxForks]
        BY <2>2, ForksAssumption DEF TypeOK, Statuses
      <3>2. UNCHANGED <<procVars, sigVars, cmd, sp>>
        BY <1>4 DEF Note
      <3>3. TypeOK'
        BY <2>2, <3>1, <3>2 DEF TypeOK, Pcs
      <3>4. OnStack({"alrm"})' <=> OnStack({"alrm"})
        BY <3>2 DEF OnStack
      <3>5. MasterOK' /\ AlarmOK'
        BY <2>2, <3>2, <3>4 DEF MasterOK, AlarmOK, PcsBlocked
      <3>6. ActiveOK'
        BY <2>2 DEF ActiveOK, TypeOK
      <3> QED
        BY <3>3, <3>5, <3>6
    <2> QED
      BY <1>4, <2>1, <2>2, ListedDaemons DEF Note
  <1>5. CASE Clear("clear2", "see3") \/ Clear("clear3", "eval")
    BY <1>1, <1>5 DEF Clear
  <1> QED
    BY <1>2, <1>3, <1>4, <1>5 DEF RunCli

\* A command that is over leaves nothing to the master but its data.
LEMMA PromptInvariant ==
    ASSUME LegionInvariant, At("eval"), Prompt,
           UNCHANGED <<procVars, sigVars>>,
           list' \in Seq(Daemons),
           \A i, j \in DOMAIN list' : list'[i] = list'[j] => i = j,
           status' \in [Daemons -> Statuses], pid' \in [Daemons -> 0..MaxForks],
           dropped' \in SUBSET Pids, ActiveOK'
    PROVE  LegionInvariant'
  <1> USE DEF LegionInvariant, procVars, sigVars
  <1>1. pc' \in Pcs /\ cmd' \in Commands /\ sp' = NULL
    BY DEF Prompt, Pcs, Commands
  <1>2. TypeOK'
    BY <1>1 DEF TypeOK
  <1>3. OnStack({"alrm"})' <=> OnStack({"alrm"})
    BY DEF OnStack
  <1>4. MasterOK' /\ AlarmOK'
    BY <1>3 DEF Prompt, MasterOK, AlarmOK, PcsBlocked
  <1> QED
    BY <1>2, <1>4

\* The list that Register and Unregister make of a list without duplicates.
LEMMA RegisterList ==
    ASSUME TypeOK, NEW d \in Daemons, d \notin Listed, list' = <<d>> \o list
    PROVE  /\ list' \in Seq(Daemons)
           /\ \A i, j \in DOMAIN list' : list'[i] = list'[j] => i = j
  <1>1. list \in Seq(Daemons) /\ Len(list) \in Nat /\ DOMAIN list = 1..Len(list)
    BY LenProperties DEF TypeOK
  <1>2. <<d>> \in Seq(Daemons) /\ Len(<<d>>) = 1 /\ <<d>>[1] = d
    OBVIOUS
  <1>3. /\ list' \in Seq(Daemons) /\ Len(list') = 1 + Len(list)
        /\ \A i \in 1..(1 + Len(list)) : list'[i] = IF i <= 1 THEN d ELSE list[i - 1]
    BY <1>1, <1>2, ConcatProperties
  <1>4. DOMAIN list' = 1..(1 + Len(list))
    BY <1>3, LenProperties
  <1>5. \A i \in 1..(1 + Len(list)) : i > 1 => i - 1 \in DOMAIN list /\ list[i - 1] # d
    BY <1>1 DEF Listed
  <1>6. \A i, j \in DOMAIN list : list[i] = list[j] => i = j
    BY DEF TypeOK
  <1>7. ASSUME NEW i \in DOMAIN list', NEW j \in DOMAIN list', list'[i] = list'[j]
        PROVE  i = j
    BY <1>1, <1>3, <1>4, <1>5, <1>6, <1>7
  <1> QED
    BY <1>3, <1>7

LEMMA UnregisterList ==
    ASSUME TypeOK, NEW n \in DOMAIN list, list' = SubSeq(list, n + 1, Len(list))
    PROVE  /\ list' \in Seq(Daemons)
           /\ \A i, j \in DOMAIN list' : list'[i] = list'[j] => i = j
  <1>1. /\ list \in Seq(Daemons) /\ Len(list) \in Nat /\ DOMAIN list = 1..Len(list)
        /\ \A i \in 1..Len(list) : list[i] \in Daemons
    BY LenProperties, ElementOfSeq DEF TypeOK
  <1>2. n \in 1..Len(list) /\ n + 1 \in Int /\ Len(list) \in Int
    BY <1>1
  <1>3. \A i \in (n + 1)..Len(list) : list[i] \in Daemons
    BY <1>1, <1>2
  <1>4. /\ list' \in Seq(Daemons)
        /\ Len(list') = IF n + 1 <= Len(list) THEN Len(list) - (n + 1) + 1 ELSE 0
        /\ \A i \in 1..(Len(list) - (n + 1) + 1) : list'[i] = list[n + 1 + i - 1]
    BY <1>2, <1>3, SubSeqProperties
  <1>5. DOMAIN list' = 1..Len(list')
    BY <1>4, LenProperties
  <1>6. \A i \in DOMAIN list' : /\ i \in Nat /\ n + i \in DOMAIN list
                                /\ list'[i] = list[n + i]
    BY <1>1, <1>2, <1>4, <1>5
  <1>7. \A i, j \in DOMAIN list : list[i] = list[j] => i = j
    BY DEF TypeOK
  <1>8. ASSUME NEW i \in DOMAIN list', NEW j \in DOMAIN list', list'[i] = list'[j]
        PROVE  i = j
    <2>1. n + i = n + j
      BY <1>6, <1>7, <1>8
    <2> QED
      BY <1>2, <1>6, <2>1
  <1> QED
    BY <1>4, <1>8

LEMMA CommandInvariant == LegionInvariant /\ Command => LegionInvariant'
  <1> SUFFICES ASSUME LegionInvariant, Command PROVE LegionInvariant'
    OBVIOUS
  <1> USE DEF LegionInvariant
  <1>1. CASE Refuse
    BY <1>1, PromptInvariant DEF Refuse, daemonVars, TypeOK, ActiveOK
  <1>2. CASE Quit
    <2>1. /\ proc' \in [Pids -> Fates] /\ pending' \in SUBSET Signals
          /\ \A k \in Pids : proc'[k] = "none" <=> proc[k] = "none"
      BY <1>2, KillAllTypes DEF Quit, Shutdown
    <2>2. "ALRM" \in pending' <=> "ALRM" \in pending
      BY <1>2, KillAllTypes DEF Quit, Shutdown
    <2>3. /\ pc' = "exit" /\ UNCHANGED <<flag, spid, timer, frames, forks, byte, halted, cmd, sp>>
          /\ UNCHANGED <<list, status, pid, dropped>>
      BY <1>2 DEF Quit, daemonVars
    <2>4. OnStack({"alrm"})' <=> OnStack({"alrm"})
      BY <2>3 DEF OnStack
    <2> QED
      BY <2>1, <2>2, <2>3, <2>4 DEF TypeOK, MasterOK, AlarmOK, ActiveOK, Pcs, PcsBlocked
  <1>3. CASE Eof
    <2>1. OnStack({"alrm"})' <=> OnStack({"alrm"})
      BY <1>3 DEF Eof, OnStack, sigVars
    <2> QED
      BY <1>3, <2>1 DEF Eof, daemonVars, procVars, sigVars, TypeOK, MasterOK, AlarmOK,
                        ActiveOK, Pcs, PcsBlocked
  <1>4. ASSUME NEW d \in Daemons, Register(d) PROVE LegionInvariant'
    <2>1. /\ list' \in Seq(Daemons)
          /\ \A i, j \in DOMAIN list' : list'[i] = list'[j] => i = j
      BY <1>4, RegisterList DEF Register
    <2>2. status' \in [Daemons -> Statuses] /\ pid' \in [Daemons -> 0..MaxForks]
      BY <1>4, ForksAssumption DEF Register, TypeOK, Statuses
    <2>3. ActiveOK'
      BY <1>4 DEF Register, ActiveOK, TypeOK
    <2> QED
      BY <1>4, <2>1, <2>2, <2>3, PromptInvariant DEF Register, TypeOK
  <1>5. ASSUME NEW d \in Daemons, Unregister(d) PROVE LegionInvariant'
    <2> PICK n \in DOMAIN list :
            /\ list' = SubSeq(list, n + 1, Len(list))
            /\ dropped' = dropped \cup ({pid[list[j]] : j \in 1..(n - 1)} \ {0})
      BY <1>5 DEF Unregister
    <2>1. /\ list' \in Seq(Daemons)
          /\ \A i, j \in DOMAIN list' : list'[i] = list'[j] => i = j
      BY UnregisterList
    <2>2. \A j \in 1..(n - 1) : pid[list[j]] \in 0..MaxForks
      <3>1. /\ list \in Seq(Daemons) /\ Len(list) \in Nat /\ n \in 1..Len(list)
            /\ \A i \in 1..Len(list) : list[i] \in Daemons
        BY LenProperties, ElementOfSeq DEF TypeOK
      <3>2. \A j \in 1..(n - 1) : list[j] \in Daemons
        BY <3>1
      <3> QED
        BY <3>2 DEF TypeOK
    <2>3. dropped' \in SUBSET Pids
      <3>1. \A p \in 0..MaxForks : p # 0 => p \in Pids
        BY ForksAssumption DEF Pids
      <3>2. {pid[list[j]] : j \in 1..(n - 1)} \ {0} \subseteq Pids
        BY <2>2, <3>1
      <3> QED
        BY <3>2 DEF TypeOK
    <2>4. ActiveOK'
      BY <1>5 DEF Unregister, ActiveOK
    <2> QED
      BY <1>5, <2>1, <2>3, <2>4, PromptInvariant DEF Unregister, TypeOK
  <1>6. ASSUME NEW d \in Daemons, Reset(d) PROVE LegionInvariant'
    <2>1. status' \in [Daemons -> Statuses] /\ pid' \in [Daemons -> 0..MaxForks]
      BY <1>6, ForksAssumption DEF Reset, TypeOK, Statuses
    <2>2. ActiveOK'
      BY <1>6 DEF Reset, ActiveOK, TypeOK
    <2> QED
      BY <1>6, <2>1, <2>2, PromptInvariant DEF Reset, TypeOK
  <1>7. ASSUME NEW d \in Daemons, Start(d) PROVE LegionInvariant'
    <2>1. /\ ~OnStack({"alrm"})' /\ "ALRM" \notin pending'
      BY <1>7, MasterStep DEF Start, OnStack, sigVars
    <2>2. status' \in [Daemons -> Statuses]
      BY <1>7 DEF Start, TypeOK, Statuses
    <2>3. TypeOK'
      BY <1>7, <2>2 DEF Start, procVars, sigVars, TypeOK, Pcs, Commands
    <2>4. MasterOK' /\ AlarmOK'
      BY <1>7, <2>1 DEF Start, procVars, sigVars, MasterOK, AlarmOK, PcsBlocked
    <2>5. ActiveOK'
      BY <1>7 DEF Start, ActiveOK, TypeOK
    <2> QED
      BY <2>3, <2>4, <2>5
  <1>8. ASSUME NEW d \in Daemons, Stop(d) PROVE LegionInvariant'
    <2>1. spid' # 0 /\ spid' \in 0..MaxForks
      BY <1>8 DEF Stop, ActiveOK, TypeOK
    <2>2. status' \in [Daemons -> Statuses]
      BY <1>8 DEF Stop, TypeOK, Statuses
    <2>3. TypeOK'
      BY <1>8, <2>1, <2>2 DEF Stop, procVars, TypeOK, Pcs, Commands
    <2>4. MasterOK' /\ AlarmOK'
      BY <1>8, <2>1 DEF Stop, procVars, MasterOK, AlarmOK, PcsBlocked
    <2>5. ActiveOK'
      BY <1>8 DEF Stop, ActiveOK, TypeOK
    <2> QED
      BY <2>3, <2>4, <2>5
  <1> QED
    BY <1>1, <1>2, <1>3, <1>4, <1>5, <1>6, <1>7, <1>8 DEF Command

-------------------------------------------------------------------------------
LEMMA OutsideInvariant == LegionInvariant /\ (Sigint \/ Children \/ Expire) => LegionInvariant'
  <1> SUFFICES ASSUME LegionInvariant, Sigint \/ Children \/ Expire PROVE LegionInvariant'
    OBVIOUS
  <1> USE DEF LegionInvariant, daemonVars, procVars, sigVars, cmdVars
  <1>1. CASE Sigint
    <2>1. /\ proc' \in [Pids -> Fates] /\ pending' \in SUBSET Signals
          /\ \A k \in Pids : proc'[k] = "none" <=> proc[k] = "none"
          /\ "ALRM" \in pending' <=> "ALRM" \in pending
      BY <1>1, KillAllTypes DEF Sigint, Shutdown
    <2>2. OnStack({"alrm"})' <=> OnStack({"alrm"})
      BY <1>1 DEF Sigint, OnStack
    <2> QED
      BY <1>1, <2>1, <2>2 DEF Sigint, TypeOK, MasterOK, AlarmOK, ActiveOK, Pcs, PcsBlocked
  <1>2. CASE Sync
    <2>1. OnStack({"alrm"})' <=> OnStack({"alrm"})
      BY <1>2 DEF Sync, OnStack
    <2> QED
      BY <1>2, <2>1 DEF Sync, TypeOK, MasterOK, AlarmOK, ActiveOK
  <1>3. ASSUME NEW k \in Pids, Ends(k) PROVE LegionInvariant'
    <2>1. /\ proc' \in [Pids -> Fates]
          /\ \A l \in Pids : proc'[l] = "none" <=> proc[l] = "none"
      BY <1>3 DEF Ends, TypeOK, Fates, Zombies
    <2>2. OnStack({"alrm"})' <=> OnStack({"alrm"})
      BY <1>3 DEF Ends, OnStack
    <2> QED
      BY <1>3, <2>1, <2>2 DEF Ends, TypeOK, MasterOK, AlarmOK, ActiveOK, Signals
  <1>4. ASSUME NEW k \in Pids, Halt(k) PROVE LegionInvariant'
    <2>1. OnStack({"alrm"})' <=> OnStack({"alrm"})
      BY <1>4 DEF Halt, OnStack
    <2>2. halted' \in BOOLEAN /\ pending' \in SUBSET Signals
      BY <1>4 DEF Halt, TypeOK, Signals
    <2> QED
      BY <1>4, <2>1, <2>2 DEF Halt, TypeOK, MasterOK, AlarmOK, ActiveOK
  <1>5. CASE Expire
    <2>1. OnStack({"alrm"})' <=> OnStack({"alrm"})
      BY <1>5 DEF Expire, OnStack
    <2> QED
      BY <1>5, <2>1 DEF Expire, TypeOK, MasterOK, AlarmOK, ActiveOK, Signals
  <1> QED
    BY <1>1, <1>2, <1>3, <1>4, <1>5 DEF Children

LEMMA NextInvariant == LegionInvariant /\ [Next]_vars => LegionInvariant'
  <1>1. LegionInvariant /\ UNCHANGED vars => LegionInvariant'
    BY DEF vars, daemonVars, procVars, sigVars, cmdVars, LegionInvariant, TypeOK,
           MasterOK, AlarmOK, ActiveOK, OnStack
  <1> QED
    BY <1>1, RunCliInvariant, CommandInvariant, StartingInvariant, StoppingInvariant,
       HandlersInvariant, OutsideInvariant DEF Next

-------------------------------------------------------------------------------
\* The invariant of the master and its handlers.
THEOREM InvariantHolds == Spec => []LegionInvariant
  BY InitInvariant, NextInvariant, PTL DEF Spec

\* Type correctness: in particular no name is in the list twice, and children
\* are numbered in the order of their forks.
THEOREM TypeCorrect == Spec => []TypeOK
  <1>1. LegionInvariant => TypeOK
    BY DEF LegionInvariant
  <1> QED
    BY <1>1, InvariantHolds, PTL

\* kill never gets the pid 0 from sigalrm_handler, shutdown() or stop, so the
\* master does not end its own process group.
THEOREM KillsAreAimed == Spec => []KillsHaveTarget
  <1>1. LegionInvariant => KillsHaveTarget
    <2> SUFFICES ASSUME LegionInvariant PROVE KillsHaveTarget
      OBVIOUS
    <2>1. Top = "alrm" => OnStack({"alrm"})
      BY TopProperties DEF LegionInvariant, OnStack
    <2>2. \A d \in Listed : d \in Daemons
      BY ElementOfSeq, LenProperties DEF LegionInvariant, TypeOK, Listed
    <2> QED
      BY <2>1, <2>2 DEF LegionInvariant, AlarmOK, ActiveOK, KillsHaveTarget
  <1> QED
    BY <1>1, InvariantHolds, PTL

-------------------------------------------------------------------------------
\* A child that has ended and is not reaped has a SIGCHLD pending or its
\* handler at work, since a handler returns only when there are no children.
ZombiesOK ==
    \A k \in Pids : proc[k] \in Zombies => "CHLD" \in pending \/ OnStack({"chld"})

\* A frame other than the one at the top stays where it is.
LEMMA ChldFramesStay ==
    ASSUME TypeOK, OnStack({"chld"}), Top \in Alarmed, NEW f,
           frames' = [frames EXCEPT ![Len(frames)] = f]
    PROVE  OnStack({"chld"})'
  <1>1. Top # "main" /\ Top # "chld"
    BY DEF Alarmed
  <1>2. PICK i \in DOMAIN frames : frames[i] = "chld"
    BY DEF OnStack
  <1>3. i # Len(frames)
    BY <1>1, <1>2, TopProperties
  <1>4. DOMAIN frames' = DOMAIN frames /\ frames'[i] = "chld"
    BY <1>2, <1>3
  <1> QED
    BY <1>4 DEF OnStack

LEMMA ChldFramesPushed ==
    ASSUME TypeOK, NEW f \in Frames, frames' = Append(frames, f),
           OnStack({"chld"}) \/ f = "chld"
    PROVE  OnStack({"chld"})'
  <1>1. /\ DOMAIN frames = 1..Len(frames) /\ Len(frames) \in Nat
        /\ DOMAIN frames' = 1..(Len(frames) + 1)
        /\ \A i \in 1..Len(frames) : frames'[i] = frames[i]
        /\ frames'[Len(frames) + 1] = f
    BY AppendProperties, LenProperties DEF TypeOK
  <1> QED
    BY <1>1 DEF OnStack

\* SIGKILL makes zombies only together with a SIGCHLD.
LEMMA KillAllZombies ==
    ASSUME ZombiesOK, NEW S, KillAll(S), OnStack({"chld"}) => OnStack({"chld"})'
    PROVE  ZombiesOK'
  BY DEF KillAll, ZombiesOK, Zombies

LEMMA ZombieStep == LegionInvariant /\ ZombiesOK /\ [Next]_vars => ZombiesOK'
  <1> SUFFICES ASSUME LegionInvariant, ZombiesOK, [Next]_vars PROVE ZombiesOK'
    OBVIOUS
  <1> USE DEF LegionInvariant
  <1>1. ASSUME UNCHANGED <<proc, pending, frames>> PROVE ZombiesOK'
    BY <1>1 DEF ZombiesOK, OnStack
  <1>2. CASE UNCHANGED vars
    BY <1>1, <1>2 DEF vars, procVars, sigVars
  <1>3. CASE RunCli
    BY <1>1, <1>3 DEF RunCli, ReadLine, See, Note, Clear, procVars, sigVars
  <1>4. CASE Command
    <2>1. CASE Quit
      BY <2>1, KillAllZombies DEF Quit, Shutdown, OnStack
    <2>2. CASE UNCHANGED <<proc, pending, frames>>
      BY <1>1, <2>2
    <2> QED
      BY <1>4, <2>1, <2>2
         DEF Command, Refuse, Eof, Register, Unregister, Start, Stop, Reset,
             procVars, sigVars
  <1>5. CASE Starting
    <2>1. CASE Fork
      <3>1. forks + 1 \in Pids /\ \A k \in Pids : proc'[k] \in Zombies => proc[k] \in Zombies
        BY <2>1, ForksAssumption DEF Fork, TypeOK, Pids, Zombies
      <3>2. pending' = pending /\ (OnStack({"chld"})' <=> OnStack({"chld"}))
        BY <2>1 DEF Fork, sigVars, OnStack
      <3> QED
        BY <3>1, <3>2 DEF ZombiesOK
    <2>2. CASE UNCHANGED <<proc, pending, frames>>
      BY <1>1, <2>2
    <2> QED
      BY <1>5, <2>1, <2>2
         DEF Starting, StartFails, Watch, Read, ReadFails, Activate, procVars, sigVars
  <1>6. CASE Stopping
    BY <1>1, <1>6 DEF Stopping, Suspend, StopEnd, Restart, procVars, sigVars
  <1>7. CASE Handlers
    <2>1. CASE DeliverAlrm
      <3>1. OnStack({"chld"}) => OnStack({"chld"})'
        BY <2>1, ChldFramesPushed DEF DeliverAlrm, Frames, Alarmed
      <3> QED
        BY <2>1, <3>1 DEF DeliverAlrm, procVars, ZombiesOK
    <2>2. CASE DeliverChld
      <3>1. OnStack({"chld"})'
        BY <2>2, ChldFramesPushed DEF DeliverChld, Frames
      <3> QED
        BY <3>1 DEF ZombiesOK
    <2>3. CASE AlrmKill
      <3>1. OnStack({"chld"}) => OnStack({"chld"})'
        BY <2>3, ChldFramesStay DEF AlrmKill, Runs, Alarmed
      <3> QED
        BY <2>3, <3>1, KillAllZombies DEF AlrmKill
    <2>4. CASE AlrmSuspend
      <3>1. OnStack({"chld"}) => OnStack({"chld"})'
        BY <2>4, ChldFramesStay DEF AlrmSuspend, Runs, Alarmed
      <3> QED
        BY <2>4, <3>1 DEF AlrmSuspend, procVars, ZombiesOK
    <2>5. ASSUME NEW k \in Pids, Reap(k) PROVE ZombiesOK'
      <3>1. Top = "chld" /\ frames' = frames
        BY <2>5 DEF Reap, Runs
      <3>2. OnStack({"chld"})'
        BY <3>1, TopProperties DEF OnStack
      <3> QED
        BY <3>2 DEF ZombiesOK
    <2>6. CASE ChldReturn
      BY <2>6 DEF ChldReturn, procVars, ZombiesOK, Zombies
    <2> QED
      BY <1>7, <2>1, <2>2, <2>3, <2>4, <2>5, <2>6 DEF Handlers
  <1>8. CASE Sigint
    BY <1>8, KillAllZombies DEF Sigint, Shutdown, OnStack
  <1>9. CASE Children
    <2>1. CASE Sync
      BY <1>1, <2>1 DEF Sync, sigVars
    <2>2. ASSUME NEW k \in Pids, Ends(k) PROVE ZombiesOK'
      BY <2>2 DEF Ends, ZombiesOK
    <2>3. ASSUME NEW k \in Pids, Halt(k) PROVE ZombiesOK'
      BY <2>3 DEF Halt, ZombiesOK
    <2> QED
      BY <1>9, <2>1, <2>2, <2>3 DEF Children
  <1>10. CASE Expire
    BY <1>10 DEF Expire, procVars, ZombiesOK, OnStack
  <1> QED
    BY <1>2, <1>3, <1>4, <1>5, <1>6, <1>7, <1>8, <1>9, <1>10 DEF Next

\* While the master waits for a command and no signal is on its way, every
\* child that ended has been reaped.
THEOREM ZombiesAreReaped == Spec => []NoZombieLeft
  <1>1. Init => ZombiesOK
    BY DEF Init, ZombiesOK, Zombies
  <1>2. ZombiesOK => NoZombieLeft
    BY DEF ZombiesOK, NoZombieLeft, AtPrompt, OnStack
  <1> QED
    BY <1>1, <1>2, ZombieStep, InvariantHolds, PTL DEF Spec
===============================================================================
