-------------------------------- MODULE Legion --------------------------------
(***************************************************************************)
(* The daemon supervisor of hw4, src/hw4/src/cli.c: one master process     *)
(* that reads commands, forks daemons and learns of their fate through the *)
(* handlers of SIGCHLD and SIGALRM, which run between any two steps of the *)
(* master and of each other.  Master and handlers talk through the global  *)
(* variables flag and spid and through the list of daemons.                *)
(*                                                                         *)
(* A signal that is pending and not blocked is delivered before the next   *)
(* step of the process, as the kernel does on the return to user mode.     *)
(* signal() is the one of -D_GNU_SOURCE (hw4/Makefile:27): the signal is   *)
(* blocked while its handler runs and reads are restarted.                 *)
(*                                                                         *)
(* A process dies and closes its end of the synchronisation pipe in one    *)
(* step, and a daemon does not close SYNC_FD unwritten while it lives.     *)
(* Process identifiers are not reused.                                     *)
(***************************************************************************)
EXTENDS Integers, Sequences, FiniteSets

CONSTANTS Daemons,    \* names that may be registered
          MaxForks,   \* bound: processes forked in a behaviour
          NULL        \* what find_daemon_pid returns when it finds nothing

ASSUME NullAssumption == NULL \notin Daemons
ASSUME ForksAssumption == MaxForks \in Nat

VARIABLES
    list,       \* registered daemons, head.next first
    status,     \* status[d]: sp->status
    pid,        \* pid[d]: sp->pid, 0 when there is none
    forks,      \* processes forked so far; the last one is cpid
    proc,       \* proc[k]: fate of the k-th process
    byte,       \* the pipe of the current start holds the daemon's byte
    halted,     \* history: SIGSTOP or SIGCONT reached a daemon in this stop
    flag,       \* what the SIGCHLD handler reports: 2 exited, 3 crashed
    spid,       \* the process flag is about, or the one to kill
    timer,      \* alarm() is running
    pending,    \* signals generated and not delivered
    frames,     \* handlers on the stack, the innermost last
    pc, cmd, sp,\* where the master is; the command under way, its daemon
    dropped     \* history: processes of daemons unregister lost

daemonVars == <<list, status, pid, dropped>>
procVars   == <<forks, proc, byte, halted>>
sigVars    == <<flag, spid, timer, pending, frames>>
cmdVars    == <<pc, cmd, sp>>
vars       == <<daemonVars, procVars, sigVars, cmdVars>>

Pids     == 1..MaxForks
Zombies  == {"exited", "signaled"}
Fates    == {"none", "running", "reaped"} \cup Zombies
Statuses == {"inactive", "starting", "active", "stopping", "exited", "crashed"}
Signals  == {"CHLD", "ALRM"}
Commands == {"none", "start", "stop", "logrotate"}

\* A SIGALRM handler before its kill, before its sigsuspend, and in it.
Alarmed == {"alrm", "killed", "alrmwait"}
Frames  == {"chld"} \cup Alarmed

PcsBlocked == {"reading", "synced"}
Pcs == {"prompt", "see2", "note2", "clear2", "see3", "note3", "clear3", "eval",
        "fork", "forked", "stopping", "suspended", "resumed", "exit", "segv"} \cup PcsBlocked

Listed == {list[i] : i \in DOMAIN list}

\* find_daemon_pid(p) is d: the first daemon of the list with this pid, or NULL.
Finds(p, d) ==
    \/ \E i \in DOMAIN list : /\ list[i] = d /\ pid[d] = p
                             /\ \A j \in 1..(i - 1) : pid[list[j]] # p
    \/ d = NULL /\ \A e \in Listed : pid[e] # p

Init ==
    /\ list = <<>> /\ dropped = {}
    /\ status = [d \in Daemons |-> "inactive"] /\ pid = [d \in Daemons |-> 0]
    /\ forks = 0 /\ proc = [k \in Pids |-> "none"] /\ byte = FALSE
    /\ halted = FALSE
    /\ flag = 0 /\ spid = 0 /\ timer = FALSE /\ pending = {} /\ frames = <<>>
    /\ pc = "prompt" /\ cmd = "none" /\ sp = NULL

-------------------------------------------------------------------------------
(***************************************************************************)
(* Signals: when one is blocked, when one is delivered, who runs.          *)
(***************************************************************************)
Alive == pc \notin {"exit", "segv"}

Top == IF frames = <<>> THEN "main" ELSE frames[Len(frames)]

OnStack(S) == \E i \in DOMAIN frames : frames[i] \in S

\* sigsuspend in the SIGALRM handler lets SIGCHLD in, whatever was blocked.
Blocked(s) ==
    CASE s = "ALRM" -> OnStack(Alarmed)
      [] s = "CHLD" -> /\ Top # "alrmwait"
                       /\ pc \in PcsBlocked \/ OnStack({"chld"})

Deliverable == {s \in pending : ~Blocked(s)}

\* The process runs the frame f at its next step.
Runs(f) == Alive /\ Deliverable = {} /\ Top = f

At(p) == Runs("main") /\ pc = p

\* What find_daemon_pid(p) returns goes to sf_term, sf_crash or sf_kill, which
\* may print a NULL or die of it.
Report(p) == pc' = pc \/ (Finds(p, NULL) /\ pc' = "segv")

\* The process k gets SIGKILL, which is nothing to it unless it runs.
KillAll(S) ==
    LET hit == {k \in S \cap Pids : proc[k] = "running"}
    IN  /\ proc' = [k \in Pids |-> IF k \in hit THEN "signaled" ELSE proc[k]]
        /\ pending' = IF hit = {} THEN pending ELSE pending \cup {"CHLD"}

-------------------------------------------------------------------------------
(***************************************************************************)
(* The handlers.                                                           *)
(***************************************************************************)
DeliverAlrm ==
    /\ Alive /\ "ALRM" \in Deliverable
    /\ pending' = pending \ {"ALRM"} /\ frames' = Append(frames, "alrm")
    /\ UNCHANGED <<daemonVars, procVars, flag, spid, timer, cmdVars>>

\* sigchld_handler begins with alarm(0).
DeliverChld ==
    /\ Alive /\ "CHLD" \in Deliverable
    /\ pending' = pending \ {"CHLD"} /\ frames' = Append(frames, "chld")
    /\ timer' = FALSE
    /\ UNCHANGED <<daemonVars, procVars, flag, spid, cmdVars>>

AlrmKill ==
    /\ Runs("alrm") /\ Report(spid)
    /\ KillAll({spid})
    /\ frames' = [frames EXCEPT ![Len(frames)] = "killed"]
    /\ UNCHANGED <<daemonVars, forks, byte, halted, flag, spid, timer, cmd, sp>>

AlrmSuspend ==
    /\ Runs("killed")
    /\ frames' = [frames EXCEPT ![Len(frames)] = "alrmwait"]
    /\ UNCHANGED <<daemonVars, procVars, flag, spid, timer, pending, cmdVars>>

Reap(k) ==
    /\ Runs("chld") /\ proc[k] \in Zombies /\ Report(k)
    /\ proc' = [proc EXCEPT ![k] = "reaped"]
    /\ flag' = IF proc[k] = "exited" THEN 2 ELSE 3
    /\ spid' = k
    /\ UNCHANGED <<daemonVars, forks, byte, halted, timer, pending, frames, cmd, sp>>

\* The innermost handler returns.  It was a sigsuspend it interrupted, if any,
\* that returns with it: the one of the SIGALRM handler, which returns as
\* well, or the one of a stop.
Return ==
    LET below == SubSeq(frames, 1, Len(frames) - 1)
        depth == Len(below)
        rest  == IF depth > 0 /\ below[depth] = "alrmwait"
                 THEN SubSeq(below, 1, depth - 1) ELSE below
    IN  /\ frames' = rest
        /\ pc' = IF rest = <<>> /\ pc = "suspended" THEN "resumed" ELSE pc
        /\ UNCHANGED <<daemonVars, flag, spid, timer, pending, cmd, sp>>

\* A bug that NoZombieLeft excludes: one waitpid instead of a loop.
ChldReturnEarly ==
    /\ Runs("chld")
    /\ \E k \in Pids : proc[k] = "reaped"
    /\ Return
    /\ UNCHANGED procVars

\* waitpid(-1, &status, 0) blocks while a child runs and returns -1 only when
\* there is no child at all.
ChldReturn ==
    /\ Runs("chld")
    /\ \A k \in Pids : proc[k] \in {"none", "reaped"}
    /\ Return
    /\ UNCHANGED procVars

\* shutdown(): every listed daemon that is "active" gets SIGKILL.
Shutdown == KillAll({pid[d] : d \in {x \in Listed : status[x] = "active"}})

\* sigint_handler runs wherever SIGINT is not blocked.
Sigint ==
    /\ Alive /\ pc \notin PcsBlocked /\ ~OnStack({"alrmwait"})
    /\ Shutdown
    /\ pc' = "exit"
    /\ UNCHANGED <<daemonVars, forks, byte, halted, flag, spid, timer, frames, cmd, sp>>

-------------------------------------------------------------------------------
(***************************************************************************)
(* The children, and the clock.  SIGTERM needs no state of its own: a      *)
(* daemon may exit, die or go on after one as it may before.               *)
(***************************************************************************)
Sync ==
    /\ Alive /\ pc \in {"forked", "reading"} /\ proc[forks] = "running"
    /\ byte' = TRUE
    /\ UNCHANGED <<daemonVars, forks, proc, halted, sigVars, cmdVars>>

Ends(k) ==
    /\ Alive /\ proc[k] = "running"
    /\ \E z \in Zombies : proc' = [proc EXCEPT ![k] = z]
    /\ pending' = pending \cup {"CHLD"}
    /\ UNCHANGED <<daemonVars, forks, byte, halted, flag, spid, timer, frames, cmdVars>>

\* A stopped or continued child is a SIGCHLD as well (no SA_NOCLDSTOP).  Its
\* handler cancels the alarm and finds nothing to reap.
Halt(k) ==
    /\ Alive /\ proc[k] = "running"
    /\ pending' = pending \cup {"CHLD"}
    /\ halted' = (halted \/ pc \in {"stopping", "suspended", "resumed"})
    /\ UNCHANGED <<daemonVars, forks, proc, byte, flag, spid, timer, frames, cmdVars>>

Expire ==
    /\ Alive /\ timer
    /\ timer' = FALSE /\ pending' = pending \cup {"ALRM"}
    /\ UNCHANGED <<daemonVars, procVars, flag, spid, frames, cmdVars>>

-------------------------------------------------------------------------------
(***************************************************************************)
(* run_cli: a line is read, then flag is looked at twice, then the line is *)
(* evaluated.                                                              *)
(***************************************************************************)
ReadLine ==
    /\ At("prompt") /\ pc' = "see2"
    /\ UNCHANGED <<daemonVars, procVars, sigVars, cmd, sp>>

See(f, here, note, next) ==
    /\ At(here)
    /\ pc' = IF flag = f THEN note ELSE next
    /\ UNCHANGED <<daemonVars, procVars, sigVars, cmd, sp>>

\* The daemon is looked up by spid, and a NULL result is written to.
Note(f, here, next) ==
    /\ At(here)
    /\ \/ Finds(spid, NULL) /\ pc' = "segv" /\ UNCHANGED daemonVars
       \/ \E d \in Listed :
            /\ Finds(spid, d)
            /\ pid' = [pid EXCEPT ![d] = 0]
            /\ status' = [status EXCEPT ![d] = IF f = 2 THEN "exited" ELSE "crashed"]
            /\ pc' = next /\ UNCHANGED <<list, dropped>>
    /\ UNCHANGED <<procVars, sigVars, cmd, sp>>

\* Then flag is reset, whatever a handler has reported in between.
Clear(here, next) ==
    /\ At(here) /\ flag' = 0 /\ pc' = next
    /\ UNCHANGED <<daemonVars, procVars, spid, timer, pending, frames, cmd, sp>>

RunCli ==
    \/ ReadLine
    \/ See(2, "see2", "note2", "see3") \/ Note(2, "note2", "clear2") \/ Clear("clear2", "see3")
    \/ See(3, "see3", "note3", "eval") \/ Note(3, "note3", "clear3") \/ Clear("clear3", "eval")

\* The command is over; argv and the found daemon are locals of eval.
Prompt == pc' = "prompt" /\ cmd' = "none" /\ sp' = NULL

\* help, status, status-all, and every path that prints an error and returns.
Refuse ==
    /\ At("eval") /\ Prompt
    /\ UNCHANGED <<daemonVars, procVars, sigVars>>

\* A bug that TypeOK excludes: the name is not looked for.
RegisterTwice(d) ==
    /\ At("eval") /\ Len(list) <= Cardinality(Daemons)
    /\ list' = <<d>> \o list
    /\ status' = [status EXCEPT ![d] = "inactive"]
    /\ pid' = [pid EXCEPT ![d] = 0]
    /\ Prompt
    /\ UNCHANGED <<dropped, procVars, sigVars>>

Register(d) ==
    /\ At("eval") /\ d \notin Listed
    /\ list' = <<d>> \o list
    /\ status' = [status EXCEPT ![d] = "inactive"]
    /\ pid' = [pid EXCEPT ![d] = 0]
    /\ Prompt
    /\ UNCHANGED <<dropped, procVars, sigVars>>

\* Every daemon was linked in with &head as its prev, which nothing changes
\* afterwards: head.next becomes the successor of d.
Unregister(d) ==
    /\ At("eval") /\ status[d] = "inactive"
    /\ \E i \in DOMAIN list :
        /\ list[i] = d
        /\ list' = SubSeq(list, i + 1, Len(list))
        /\ dropped' = dropped \cup ({pid[list[j]] : j \in 1..(i - 1)} \ {0})
    /\ Prompt
    /\ UNCHANGED <<status, pid, procVars, sigVars>>

Quit ==
    /\ At("eval") /\ Shutdown
    /\ pc' = "exit"
    /\ UNCHANGED <<daemonVars, forks, byte, halted, flag, spid, timer, frames, cmd, sp>>

\* The line is NULL at the end of the input.
Eof ==
    /\ At("eval") /\ pc' = "exit"
    /\ UNCHANGED <<daemonVars, procVars, sigVars, cmd, sp>>

-------------------------------------------------------------------------------
(***************************************************************************)
(* start, as a command and as start() under logrotate.                     *)
(***************************************************************************)
SetStatus(s) == status' = [status EXCEPT ![sp] = s]

Start(d) ==
    /\ At("eval") /\ d \in Listed /\ status[d] = "inactive"
    /\ status' = [status EXCEPT ![d] = "starting"]
    /\ pc' = "fork" /\ cmd' = "start" /\ sp' = d
    /\ UNCHANGED <<list, pid, dropped, procVars, sigVars>>

\* pipe() fails and leaves "starting"; fork() fails and leaves "inactive".
StartFails ==
    /\ At("fork")
    /\ SetStatus("starting") \/ SetStatus("inactive")
    /\ Prompt
    /\ UNCHANGED <<list, pid, dropped, procVars, sigVars>>

Fork ==
    /\ At("fork") /\ forks < MaxForks
    /\ forks' = forks + 1 /\ proc' = [proc EXCEPT ![forks + 1] = "running"]
    /\ byte' = FALSE
    /\ pc' = "forked"
    /\ UNCHANGED <<halted, daemonVars, sigVars, cmd, sp>>

\* A bug that StartEnds excludes: the master reads without an alarm.
WatchNoAlarm ==
    /\ At("forked")
    /\ spid' = forks /\ pid' = [pid EXCEPT ![sp] = forks]
    /\ pc' = "reading"
    /\ UNCHANGED <<list, status, dropped, procVars, flag, timer, pending,
                   frames, cmd, sp>>

\* All signals but SIGALRM are blocked, and the alarm is set.
Watch ==
    /\ At("forked")
    /\ spid' = forks /\ pid' = [pid EXCEPT ![sp] = forks]
    /\ timer' = TRUE
    /\ pc' = "reading"
    /\ UNCHANGED <<list, status, dropped, procVars, flag, pending, frames,
                   cmd, sp>>

Read ==
    /\ At("reading") /\ byte
    /\ pc' = "synced"
    /\ UNCHANGED <<daemonVars, procVars, sigVars, cmd, sp>>

\* End of file: the child has gone without its byte.  The alarm runs on.
ReadFails ==
    /\ At("reading") /\ ~byte /\ proc[forks] # "running"
    /\ SetStatus("inactive")
    /\ flag' = IF cmd = "logrotate" THEN 0 ELSE flag
    /\ Prompt
    /\ UNCHANGED <<list, pid, dropped, procVars, spid, timer, pending, frames>>

\* A bug that KillsHaveTarget excludes: the alarm is not cancelled.
ActivateNoCancel ==
    /\ At("synced")
    /\ spid' = 0 /\ byte' = FALSE
    /\ SetStatus("active") /\ Prompt
    /\ UNCHANGED <<list, pid, dropped, forks, proc, halted, flag, timer, pending, frames>>

Activate ==
    /\ At("synced")
    /\ timer' = FALSE /\ spid' = 0 /\ byte' = FALSE
    /\ SetStatus("active") /\ Prompt
    /\ UNCHANGED <<list, pid, dropped, forks, proc, halted, flag, pending, frames>>

Starting ==
    \/ StartFails \/ Fork \/ Watch \/ Read \/ ReadFails \/ Activate

-------------------------------------------------------------------------------
(***************************************************************************)
(* stop, and the stop in the middle of logrotate.                          *)
(***************************************************************************)
Reset(d) ==
    /\ At("eval") /\ d \in Listed /\ status[d] \in {"exited", "crashed"}
    /\ status' = [status EXCEPT ![d] = "inactive"] /\ pid' = [pid EXCEPT ![d] = 0]
    /\ Prompt
    /\ UNCHANGED <<list, dropped, procVars, sigVars>>

\* A bug that StopKills excludes: no alarm is set.
StopNoAlarm(d) ==
    /\ At("eval") /\ d \in Listed /\ status[d] = "active"
    /\ spid' = pid[d]
    /\ status' = [status EXCEPT ![d] = "stopping"]
    /\ pc' = "stopping" /\ cmd' \in {"stop", "logrotate"} /\ sp' = d
    /\ UNCHANGED <<list, pid, dropped, procVars, flag, timer, pending, frames>>

\* Up to and with kill(sp->pid, SIGTERM).  logrotate has renamed the files.
Stop(d) ==
    /\ At("eval") /\ d \in Listed /\ status[d] = "active"
    /\ spid' = pid[d] /\ timer' = TRUE
    /\ status' = [status EXCEPT ![d] = "stopping"]
    /\ pc' = "stopping" /\ cmd' \in {"stop", "logrotate"} /\ sp' = d
    /\ UNCHANGED <<list, pid, dropped, procVars, flag, pending, frames>>

\* A bug that RunningIsActive excludes: the master does not wait.
SuspendNot ==
    /\ At("stopping")
    /\ pc' = "resumed"
    /\ UNCHANGED <<daemonVars, procVars, sigVars, cmd, sp>>

\* Only a handler that runs from here on ends the sigsuspend.
Suspend ==
    /\ At("stopping")
    /\ pc' = "suspended"
    /\ UNCHANGED <<daemonVars, procVars, sigVars, cmd, sp>>

StopEnd ==
    /\ At("resumed") /\ cmd = "stop"
    /\ timer' = FALSE /\ Prompt
    /\ IF flag = 3
       THEN UNCHANGED <<flag, pid, status>>
       ELSE flag' = 0 /\ pid' = [pid EXCEPT ![sp] = 0] /\ SetStatus("inactive")
    /\ halted' = FALSE
    /\ UNCHANGED <<list, dropped, forks, proc, byte, spid, pending, frames>>

\* logrotate goes on with start(sp), whatever flag says.
Restart ==
    /\ At("resumed") /\ cmd = "logrotate"
    /\ timer' = FALSE /\ flag' = 0 /\ pid' = [pid EXCEPT ![sp] = 0]
    /\ SetStatus("starting") /\ pc' = "fork"
    /\ halted' = FALSE
    /\ UNCHANGED <<list, dropped, forks, proc, byte, spid, pending, frames, cmd, sp>>

Stopping == Suspend \/ StopEnd \/ Restart

-------------------------------------------------------------------------------
Handlers ==
    \/ DeliverAlrm \/ DeliverChld \/ AlrmKill \/ AlrmSuspend
    \/ (\E k \in Pids : Reap(k)) \/ ChldReturn

Command ==
    \/ Refuse \/ Quit \/ Eof
    \/ \E d \in Daemons :
        Register(d) \/ Unregister(d) \/ Start(d) \/ Stop(d) \/ Reset(d)

Children == Sync \/ \E k \in Pids : Ends(k) \/ Halt(k)

Next ==
    \/ RunCli \/ Command \/ Starting \/ Stopping
    \/ Handlers \/ Sigint \/ Children \/ Expire

\* The master and its handlers are one process that the scheduler runs, and
\* alarm() rings.  Nothing makes a user type or a daemon end.
Fairness ==
    /\ WF_vars(Handlers) /\ WF_vars(Starting) /\ WF_vars(Stopping)
    /\ WF_vars(Expire)

Spec == Init /\ [][Next]_vars /\ Fairness

-------------------------------------------------------------------------------
(***************************************************************************)
(* Properties.                                                             *)
(***************************************************************************)

\* The variables keep their types; the names in the list are different, as
\* the register command's find_daemon intends, and the master's children are
\* numbered in the order of their forks.
TypeOK ==
    /\ list \in Seq(Daemons)
    /\ \A i, j \in DOMAIN list : list[i] = list[j] => i = j
    /\ status \in [Daemons -> Statuses] /\ pid \in [Daemons -> 0..MaxForks]
    /\ dropped \in SUBSET Pids
    /\ forks \in 0..MaxForks /\ proc \in [Pids -> Fates] /\ byte \in BOOLEAN
    /\ halted \in BOOLEAN
    /\ \A k \in Pids : proc[k] = "none" <=> k > forks
    /\ flag \in {0, 2, 3} /\ spid \in 0..MaxForks /\ timer \in BOOLEAN
    /\ pending \in SUBSET Signals /\ frames \in Seq(Frames)
    /\ pc \in Pcs /\ cmd \in Commands /\ sp \in Daemons \cup {NULL}

AtPrompt == pc = "prompt" /\ frames = <<>> /\ pending = {}

\* Whenever the master waits for a command, a process it forked and that runs
\* belongs to a listed daemon that is "active": no start, timeout, stop or
\* logrotate leaves a process behind.  Processes that unregister lost
\* run on.
RunningIsActive ==
    AtPrompt =>
        \A k \in Pids \ dropped : proc[k] = "running" =>
            \E d \in Listed : pid[d] = k /\ status[d] = "active"

\* No zombie is left when the master waits for a command: a SIGCHLD that
\* stands for several children has all of them reaped.
NoZombieLeft == AtPrompt => \A k \in Pids : proc[k] \notin Zombies

\* No kill has the pid 0, which would reach the process group of the master
\* and end it with its daemons: neither the one of sigalrm_handler nor those
\* of shutdown() and stop, which take the pids of "active" daemons.
KillsHaveTarget ==
    /\ Top = "alrm" => spid # 0
    /\ \A d \in Listed : status[d] = "active" => pid[d] # 0

Alone(k) ==
    proc[k] = "running" /\ \A l \in Pids \ {k} : proc[l] # "running"

\* A start of a daemon that runs and may stay silent ends: by the byte, by its
\* death or by the timeout.  While another child runs the SIGCHLD handler does
\* not return, and a start that timed out does not either.
StartEnds == (pc = "reading" /\ Alone(forks)) ~> pc # "reading"

\* CHILD_TIMEOUT bounds the life of a daemon that got SIGTERM (legion.h:32-35):
\* one that ignores it is killed, however SIGALRM and SIGCHLD race with the two
\* sigsuspends, if it is the only child.  (The stop may hang all the same, when
\* the SIGCHLD is handled before a sigsuspend.)  Without SA_NOCLDSTOP the bound
\* is lost when a daemon is stopped or continued by a signal meanwhile.
StopKills ==
    (At("stopping") /\ Alone(pid[sp]) /\ \A k \in Pids : proc[k] \notin Zombies)
        ~> ((\A k \in Pids : proc[k] # "running") \/ ~Alive \/ halted)
===============================================================================
