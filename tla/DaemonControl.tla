---------------------------- MODULE DaemonControl ----------------------------
(***************************************************************************)
(* The job daemon as its commands see it: data/job_daemon_pid, its backup, *)
(* and the processes of the machine.  warmup-jobs forks a daemon, which    *)
(* writes its own pid into the file; stop-jobs kills whatever process the  *)
(* file names and writes 0; restart-jobs does one after the other;         *)
(* job-status tells what the file says.                                    *)
(*                                                                         *)
(* setPid truncates the file to the length of the new number and then      *)
(* writes the digits over it.  All pids are taken to have one number of    *)
(* digits, more than one, while 0 has one.  The file therefore holds 0 or  *)
(* a pid, or only the first digit of a pid, or a pid whose first digit was *)
(* overwritten by 0.                                                       *)
(*                                                                         *)
(* A process that was killed, or died, keeps its pid until it is reaped,   *)
(* and until then kill finds it: a second SIGKILL succeeds too.            *)
(***************************************************************************)
EXTENDS Naturals, FiniteSets

CONSTANTS
    Cli,            \* invocations of mrn
    Pid,            \* process ids
    NoPid,          \* the number 0
    First(_),       \* the number read when only a pid's first digit is left
    Rest(_),        \* the number read when its first digit became 0
    Started,        \* daemons that run, and are named, in the initial state
    CarefulUser,    \* TRUE: warmup-jobs only when no daemon is alive and no
                    \* stop-jobs or restart-jobs is under way
    MaxCommands, MaxWarmups, MaxCrashes, MaxStrangers, MaxSignals

ASSUME DaemonControlAssumption ==
    /\ IsFiniteSet(Pid) /\ IsFiniteSet(Cli)
    /\ NoPid \notin Pid
    /\ \A p \in Pid : First(p) \in Pid \union {NoPid} /\ Rest(p) \in Pid \union {NoPid}
    /\ Started \subseteq Pid /\ \A p, q \in Started : p = q
    /\ CarefulUser \in BOOLEAN
    /\ MaxCommands \in Nat /\ MaxWarmups \in Nat /\ MaxCrashes \in Nat
    /\ MaxStrangers \in Nat /\ MaxSignals \in Nat

VARIABLES
    file, copy,     \* data/job_daemon_pid and its backup
    proc,           \* what runs under each pid
    pc,             \* where each command is
    command,        \* which command it is
    read,           \* the pid it read
    budget,         \* commands, warmups, crashes, strangers and signals so far
    victims,        \* history: pids of strangers that stop-jobs killed
    again           \* history: SIGKILLs to a process that was dying already

vars == <<file, copy, proc, pc, command, read, budget, victims, again>>

\* The contents of the file.
Whole(p) == [form |-> "whole", pid |-> p]
Empty == [form |-> "empty", pid |-> NoPid]
\* Mutant: the digits of an empty file are whatever the buffer held.
NumberOfNothing(f) == IF f.form = "empty" THEN f.form ELSE f.pid

Number(f) ==
    CASE f.pid = NoPid      -> NoPid
      [] f.form = "whole"   -> f.pid
      [] f.form = "first"   -> First(f.pid)
      [] f.form = "rest"    -> Rest(f.pid)

Content ==
    [form : {"whole", "first", "rest"}, pid : Pid]
        \union {Whole(NoPid), Empty}

\* A daemon inside runJobsDaemon: before, in and after setPid.
Booting == {"boot", "truncate", "write"}
DaemonState == Booting \union {"loop"}
Daemons == {p \in Pid : proc[p] \in DaemonState}
ProcState == {"none", "stranger", "dying"} \union DaemonState

\* Where a command is: reading the pid, killing, in setPid, and after it.
InSetPid == {"backup", "truncate", "write"}
PC == {"off", "read", "kill", "after", "launch"} \union InSetPid

-----------------------------------------------------------------------------
\* The steps of setPid on the file.

\* createBackupDaemonPid: an empty file leaves the copy alone.
Backup == copy' = IF file.form = "empty" THEN copy ELSE file

\* Mutant: the file is not cut.
CutKept(f) == f

\* ftruncate to one byte.
CutToOne(f) ==
    CASE f.form \in {"whole", "first"} /\ f.pid # NoPid
                           -> [form |-> "first", pid |-> f.pid]
      [] OTHER             -> Whole(NoPid)

\* Mutant: the write is forgotten.
PutZeroMissing(f) == f

\* write "0" over the first byte of what is there by now.
PutZero(f) ==
    IF f.form \in {"whole", "rest"} /\ f.pid # NoPid
    THEN [form |-> "rest", pid |-> f.pid]
    ELSE Whole(NoPid)

Goto(c, l) == pc' = [pc EXCEPT ![c] = l]
Become(p, s) == proc' = [proc EXCEPT ![p] = s]

-----------------------------------------------------------------------------
\* Commands.

\* stop-jobs or restart-jobs.
Begin(c, k) ==
    /\ pc[c] = "off"
    /\ budget.commands < MaxCommands
    /\ budget' = [budget EXCEPT !.commands = @ + 1]
    /\ command' = [command EXCEPT ![c] = k]
    /\ Goto(c, "read")
    /\ UNCHANGED <<file, copy, proc, read, victims, again>>

\* launchDaemon: fork; nobody looks whether a daemon runs.
Warmup(p) ==
    /\ proc[p] = "none"
    /\ CarefulUser => Daemons = {} /\ \A c \in Cli : pc[c] = "off"
    /\ budget.warmups < MaxWarmups
    /\ budget' = [budget EXCEPT !.warmups = @ + 1]
    /\ Become(p, "boot")
    /\ UNCHANGED <<file, copy, pc, command, read, victims, again>>

\* stopJobDaemon: getDaemonPid, and give up on 0.
ReadPid(c) ==
    /\ pc[c] = "read"
    /\ read' = [read EXCEPT ![c] = Number(file)]
    /\ Goto(c, IF Number(file) = NoPid THEN "off" ELSE "kill")
    /\ UNCHANGED <<file, copy, proc, command, budget, victims, again>>

\* Mutant: a SIGKILL that fails is no reason to give up.
KillPidAnyway(c) ==
    /\ pc[c] = "kill"
    /\ Goto(c, "backup")
    /\ Become(read[c], "dying")
    /\ victims' = IF proc[read[c]] = "stranger"
                  THEN victims \union {read[c]} ELSE victims
    /\ again' = IF proc[read[c]] = "dying" THEN again + 1 ELSE again
    /\ UNCHANGED <<file, copy, command, read, budget>>

\* stopJobDaemon: SIGKILL, and give up when there is no such process; the pid
\* file keeps its number then.  One that is dying, or not yet reaped, is there.
KillPid(c) ==
    /\ pc[c] = "kill"
    /\ IF proc[read[c]] = "none"
       THEN Goto(c, "off") /\ UNCHANGED <<proc, victims, again>>
       ELSE /\ Goto(c, "backup")
            /\ Become(read[c], "dying")
            /\ victims' = IF proc[read[c]] = "stranger"
                          THEN victims \union {read[c]} ELSE victims
            /\ again' = IF proc[read[c]] = "dying" THEN again + 1 ELSE again
    /\ UNCHANGED <<file, copy, command, read, budget>>

\* setPid(0): the backup, the truncation, the write.
BackupZero(c) ==
    /\ pc[c] = "backup"
    /\ Backup
    /\ Goto(c, "truncate")
    /\ UNCHANGED <<file, proc, command, read, budget, victims, again>>

TruncateZero(c) ==
    /\ pc[c] = "truncate"
    /\ file' = CutToOne(file)
    /\ Goto(c, "write")
    /\ UNCHANGED <<copy, proc, command, read, budget, victims, again>>

WriteZero(c) ==
    /\ pc[c] = "write"
    /\ file' = PutZero(file)
    /\ Goto(c, IF command[c] = "restart" THEN "launch" ELSE "after")
    /\ UNCHANGED <<copy, proc, command, read, budget, victims, again>>

\* restartJobDaemon: launchDaemon.
Relaunch(c, p) ==
    /\ pc[c] = "launch" /\ proc[p] = "none"
    /\ Become(p, "boot")
    /\ Goto(c, "after")
    /\ UNCHANGED <<file, copy, command, read, budget, victims, again>>

\* main returns.  The handler of setPid stays until save_jobs installs its own.
End(c) ==
    /\ pc[c] = "after"
    /\ Goto(c, "off")
    /\ UNCHANGED <<file, copy, proc, command, read, budget, victims, again>>

\* SIGINT once the handler is installed: the backup is copied over the file and
\* the interrupted code goes on.
Interrupt(c) ==
    /\ pc[c] \in {"truncate", "write", "launch", "after"}
    /\ budget.signals < MaxSignals
    /\ budget' = [budget EXCEPT !.signals = @ + 1]
    /\ file' = IF copy.form = "empty" THEN file ELSE copy
    /\ UNCHANGED <<copy, proc, pc, command, read, victims, again>>

-----------------------------------------------------------------------------
\* The daemon writes its own pid.  ftruncate to the length of a pid cuts
\* nothing; what it appends are NUL bytes, at which atoi stops.

DaemonBackup(p) ==
    /\ proc[p] = "boot"
    /\ Backup
    /\ Become(p, "truncate")
    /\ UNCHANGED <<file, pc, command, read, budget, victims, again>>

DaemonTruncate(p) ==
    /\ proc[p] = "truncate"
    /\ file' = IF file.form = "empty" THEN Whole(NoPid) ELSE file
    /\ Become(p, "write")
    /\ UNCHANGED <<copy, pc, command, read, budget, victims, again>>

\* Mutant: one digit is written.
DaemonWriteShort(p) ==
    /\ proc[p] = "write"
    /\ file' = [form |-> "first", pid |-> p]
    /\ Become(p, "loop")
    /\ UNCHANGED <<copy, pc, command, read, budget, victims, again>>

DaemonWrite(p) ==
    /\ proc[p] = "write"
    /\ file' = Whole(p)
    /\ Become(p, "loop")
    /\ UNCHANGED <<copy, pc, command, read, budget, victims, again>>

-----------------------------------------------------------------------------
\* The machine.

\* A daemon dies: an abort, the kernel.
Crash(p) ==
    /\ proc[p] \in DaemonState
    /\ budget.crashes < MaxCrashes
    /\ budget' = [budget EXCEPT !.crashes = @ + 1]
    /\ Become(p, "dying")
    /\ UNCHANGED <<file, copy, pc, command, read, victims, again>>

\* A process that was killed or died is reaped, and its pid is free.
Reaped(p) ==
    /\ proc[p] = "dying"
    /\ Become(p, "none")
    /\ UNCHANGED <<file, copy, pc, command, read, budget, victims, again>>

\* A command is killed: what it wrote so far stays.
CliDies(c) ==
    /\ pc[c] # "off"
    /\ budget.crashes < MaxCrashes
    /\ budget' = [budget EXCEPT !.crashes = @ + 1]
    /\ Goto(c, "off")
    /\ UNCHANGED <<file, copy, proc, command, read, victims, again>>

\* A pid that is not used is given to a process mrn knows nothing about.
Stranger(p) ==
    /\ proc[p] = "none"
    /\ budget.strangers < MaxStrangers
    /\ budget' = [budget EXCEPT !.strangers = @ + 1]
    /\ Become(p, "stranger")
    /\ UNCHANGED <<file, copy, pc, command, read, victims, again>>

Init ==
    /\ file \in IF Started = {} THEN {Whole(NoPid), Empty}
                               ELSE {Whole(p) : p \in Started}
    /\ copy \in {Whole(NoPid), Empty}
    /\ proc = [p \in Pid |-> IF p \in Started THEN "loop" ELSE "none"]
    /\ pc = [c \in Cli |-> "off"]
    /\ command = [c \in Cli |-> "stop"]
    /\ read = [c \in Cli |-> NoPid]
    /\ budget = [commands |-> 0, warmups |-> 0, crashes |-> 0, strangers |-> 0,
                 signals |-> 0]
    /\ victims = {} /\ again = 0

CliStep(c) ==
    \/ ReadPid(c) \/ KillPid(c) \/ BackupZero(c) \/ TruncateZero(c)
    \/ WriteZero(c) \/ End(c) \/ \E p \in Pid : Relaunch(c, p)
DaemonStep(p) == DaemonBackup(p) \/ DaemonTruncate(p) \/ DaemonWrite(p)

Next ==
    \/ \E c \in Cli :
        \/ CliStep(c) \/ Interrupt(c) \/ CliDies(c)
        \/ \E k \in {"stop", "restart"} : Begin(c, k)
    \/ \E p \in Pid : DaemonStep(p) \/ Warmup(p) \/ Crash(p) \/ Reaped(p) \/ Stranger(p)

Spec == Init /\ [][Next]_vars

\* Commands and daemons that are not killed go on.
FairSpec ==
    /\ Spec
    /\ \A c \in Cli : WF_vars(CliStep(c))
    /\ \A p \in Pid : WF_vars(DaemonStep(p))

-----------------------------------------------------------------------------
\* Properties.

TypeOK ==
    /\ file \in Content /\ copy \in Content
    /\ proc \in [Pid -> ProcState]
    /\ pc \in [Cli -> PC]
    /\ command \in [Cli -> {"stop", "restart"}]
    /\ read \in [Cli -> Pid \union {NoPid}]
    /\ budget \in [commands : 0..MaxCommands, warmups : 0..MaxWarmups,
                   crashes : 0..MaxCrashes, strangers : 0..MaxStrangers,
                   signals : 0..MaxSignals]
    /\ victims \subseteq Pid /\ again \in Nat

\* However many restart-jobs and stop-jobs overlap: there is one daemon ("the job
\* runner", Documentation/usage.txt:42), and one more for each SIGKILL that hit a
\* process already dying, so that two restarts each launch theirs.  Nothing else,
\* no crash and no SIGINT, adds one.
DaemonsAreCounted == Cardinality(Daemons) <= 1 + again

\* No command under way and no daemon still booting.
AtRest == (\A c \in Cli : pc[c] = "off") /\ (\A p \in Pid : proc[p] \notin Booting)

\* Nothing died by itself or was interrupted, and nothing was killed twice.
Calm == budget.crashes = 0 /\ budget.signals = 0 /\ again = 0

\* At rest, the file names the daemon that runs, and says 0 when none does:
\* job-status tells the truth (Documentation/usage.txt:44), as long as no daemon
\* and no command crashed, no SIGINT came, and no two commands killed the same
\* daemon, the later of which writes 0 over the pid of the new one.
StatusTellsTruth ==
    AtRest /\ Calm => \/ Daemons = {} /\ Number(file) = NoPid
                      \/ Daemons = {Number(file)}

\* stop-jobs and restart-jobs, one at a time, kill the job runner
\* (Documentation/usage.txt:43) and no process that is none of mrn's.
OnlyDaemonsAreKilled == victims = {}

\* A daemon that is launched and lives is named by the pid file in the end.
LaunchedIsNamed ==
    \A p \in Pid : proc[p] = "boot" ~> (p \notin Daemons \/ Number(file) = p)
=============================================================================
