------------------------------ MODULE JobDaemon ------------------------------
(***************************************************************************)
(* The job daemon of mrn: once per tick it loads the jobs file, runs the   *)
(* jobs that are due one after the other, and saves the table with the     *)
(* pids and times of the runs.  It leaks descriptors on the way: one for   *)
(* every load and one for every run, and what it does when there are no    *)
(* more depends on which call fails.                                       *)
(*                                                                         *)
(* The jobs file is a table here, and a command's edit of it one step; how *)
(* it is read and written, and what a write that is cut short leaves, is   *)
(* the subject of JobStore.  The lock on it is kept: a daemon killed while *)
(* it writes leaves it taken.  The daemon is one that was warmed up while  *)
(* there were jobs.                                                        *)
(***************************************************************************)
EXTENDS Naturals, Sequences, FiniteSets

CONSTANTS
    Job,            \* the jobs users add
    Interval,       \* the interval of each, in ticks
    Cycle,          \* a common multiple of the intervals
    Pid,            \* pids of job processes
    NoJob, NoPid,   \* no process; the number 0
    FirstTable,     \* the jobs in the file at the start
    FdLimit,        \* descriptors a process may have (RLIMIT_NOFILE)
    MaxLaunches,    \* bound on the number of daemons, one at a time
    MaxKills,       \* bound on SIGKILLs of the daemon, by stop-jobs or others
    MaxEdits,       \* bound on the number of add-job and remove-job
    MaxMishaps      \* bound on failed forks and missing folders

ASSUME JobDaemonAssumption ==
    /\ Cycle \in Nat \ {0}
    /\ Interval \in [Job -> 1..Cycle]
    /\ \A j \in Job : Cycle % Interval[j] = 0
    /\ NoJob \notin Job /\ NoPid \notin Pid
    /\ FirstTable \in Seq(Job)
    /\ FdLimit \in Nat \ {0}
    /\ MaxLaunches \in Nat /\ MaxKills \in Nat /\ MaxEdits \in Nat /\ MaxMishaps \in Nat

VARIABLES
    file,       \* the table in the jobs file: jobs with the pid last recorded
    lock,       \* the lock file beside it: "free" or "locked"
    phase,      \* where the daemon is
    mine,       \* the table it loaded
    idx,        \* the entry it looks at
    child,      \* the job process it waits for
    tick,       \* waitedTime, modulo Cycle
    fds,        \* its open descriptors
    proc,       \* the job each process runs
    budget,     \* launches, kills, edits and mishaps so far
    orphans,    \* history: job processes whose daemon died
    removed     \* history: jobs whose last edit was a removal

daemon == <<phase, mine, idx, child, tick, fds>>
around == <<proc, budget, orphans, removed>>
vars   == <<file, lock, daemon, around>>

Entry == [job : Job, pid : Pid \union {NoPid}]
Phase == {"load", "run", "wait", "save", "poll", "copy", "unlock", "sleep",
          "stuck", "dead"}

Recorded(t) == {t[i].pid : i \in DOMAIN t}
InTable(t, j) == \E i \in DOMAIN t : t[i].job = j
\* removeJob: shift the later entries left.
Without(t, i) ==
    [k \in 1..(Len(t) - 1) |-> IF k < i THEN t[k] ELSE t[k + 1]]
Live(p) == proc[p] # NoJob

\* is_divisible.
Due(j) == tick % Interval[j] = 0

\* A new process: the kernel hands out pids in turn, so that one which somebody
\* still remembers does not come back soon.
Fresh(p) == ~Live(p) /\ p \notin Recorded(file) \union Recorded(mine)

-----------------------------------------------------------------------------
\* A tick of the daemon.

\* isJobFree: -1, for a lock file that cannot be opened, counts as free.
JobFree == lock = "free" \/ fds = FdLimit

\* loadJobsDaemon: waits until the lock is free, opens the file and never closes
\* it; without a descriptor it aborts.
Load ==
    /\ phase = "load" /\ JobFree
    /\ IF fds < FdLimit
       THEN phase' = "run" /\ mine' = file /\ idx' = 1 /\ fds' = fds + 1
       ELSE phase' = "dead" /\ UNCHANGED <<mine, idx, fds>>
    /\ UNCHANGED <<file, lock, child, tick, around>>

AtJob == phase = "run" /\ idx <= Len(mine)
PipeFitsTight == fds + 1 <= FdLimit    \* mutant: a pipe takes one descriptor
PipeFits == fds + 2 <= FdLimit

\* The job is not due, or no pipe can be had for it: it is passed over.
PassOver ==
    /\ AtJob
    /\ ~Due(mine[idx].job) \/ ~PipeFits
    /\ idx' = idx + 1
    /\ UNCHANGED <<file, lock, phase, mine, child, tick, fds, around>>

\* fork: the parent keeps both ends of the pipe while it waits.
StartJob(p) ==
    /\ AtJob /\ Due(mine[idx].job) /\ PipeFits
    /\ Fresh(p)
    /\ proc' = [proc EXCEPT ![p] = mine[idx].job]
    /\ child' = p
    /\ fds' = fds + 2
    /\ phase' = "wait"
    /\ UNCHANGED <<file, lock, mine, idx, tick, budget, orphans, removed>>

\* Mutant: the pid is read before the child is waited for.
ReapEarly ==
    /\ phase = "wait"
    /\ mine' = [mine EXCEPT ![idx].pid = child]
    /\ child' = NoPid
    /\ fds' = fds - 1
    /\ idx' = idx + 1
    /\ phase' = "run"
    /\ UNCHANGED <<file, lock, tick, around>>

\* waitpid and read: the pid recorded is that of a process that has ended.  The
\* write end is closed, the read end is not.
Reap ==
    /\ phase = "wait" /\ ~Live(child)
    /\ mine' = [mine EXCEPT ![idx].pid = child]
    /\ child' = NoPid
    /\ fds' = fds - 1
    /\ idx' = idx + 1
    /\ phase' = "run"
    /\ UNCHANGED <<file, lock, tick, around>>

\* fork fails, and nothing comes through the pipe; or the folder is gone, and
\* the child reports 0.
Mishap ==
    /\ AtJob /\ Due(mine[idx].job) /\ PipeFits
    /\ budget.mishaps < MaxMishaps /\ budget' = [budget EXCEPT !.mishaps = @ + 1]
    /\ mine' \in {mine, [mine EXCEPT ![idx].pid = NoPid]}
    /\ fds' = fds + 1
    /\ idx' = idx + 1
    /\ UNCHANGED <<file, lock, phase, child, tick, proc, orphans, removed>>

AllLookedAt ==
    /\ phase = "run" /\ idx > Len(mine)
    /\ phase' = "save"
    /\ UNCHANGED <<file, lock, mine, idx, child, tick, fds, around>>

\* doBackup opens the source and the copy.  An empty source is not copied, and
\* its descriptor is not closed.
BackupOpens == IF file = <<>> THEN 1 ELSE 2
BackupLeaves == IF file = <<>> THEN 1 ELSE 0

\* save_jobs_daemon up to the lock: one descriptor for the file, then those of
\* its backup.  Without the first it is called again for ever, without the others
\* it aborts, and with an empty table it faults (strlen of NULL).
Save ==
    /\ phase = "save"
    /\ \/ fds + 1 > FdLimit
          /\ phase' = "stuck" /\ UNCHANGED fds
       \/ fds + 1 <= FdLimit /\ (mine = <<>> \/ fds + 1 + BackupOpens > FdLimit)
          /\ phase' = "dead" /\ UNCHANGED fds
       \/ fds + 1 + BackupOpens <= FdLimit /\ mine # <<>>
          /\ phase' = "poll" /\ fds' = fds + 1 + BackupLeaves
    /\ UNCHANGED <<file, lock, mine, idx, child, tick, around>>

\* isJobFree, then syncJob(true).  With no descriptor for the lock file the table
\* is written without it, and the save is called again for ever.
TakeLock ==
    /\ phase = "poll" /\ JobFree
    /\ IF fds < FdLimit
       THEN phase' = "copy" /\ lock' = "locked" /\ UNCHANGED file
       ELSE phase' = "stuck" /\ file' = mine /\ UNCHANGED lock
    /\ UNCHANGED <<mine, idx, child, tick, fds, around>>

\* memcpy of the table.
Copy ==
    /\ phase = "copy"
    /\ file' = mine
    /\ phase' = "unlock"
    /\ UNCHANGED <<lock, mine, idx, child, tick, fds, around>>

\* Mutant: the lock is not given back.
UnlockForgotten ==
    /\ phase = "unlock"
    /\ fds' = fds - 1
    /\ phase' = "sleep"
    /\ UNCHANGED <<file, lock, mine, idx, child, tick, around>>

\* close, then syncJob(false).
Unlock ==
    /\ phase = "unlock"
    /\ lock' = "free"
    /\ fds' = fds - 1
    /\ phase' = "sleep"
    /\ UNCHANGED <<file, mine, idx, child, tick, around>>

\* sleep(1), waitedTime++, freeJobs.
Sleep ==
    /\ phase = "sleep"
    /\ tick' = IF tick + 1 = Cycle THEN 0 ELSE tick + 1
    /\ mine' = <<>>
    /\ phase' = "load"
    /\ UNCHANGED <<file, lock, idx, child, fds, around>>

-----------------------------------------------------------------------------
\* Around the daemon.

\* A job ends by itself (README.md:61: jobs are finite processes).
JobEnds(p) ==
    /\ Live(p)
    /\ proc' = [proc EXCEPT ![p] = NoJob]
    /\ orphans' = orphans \ {p}
    /\ UNCHANGED <<file, lock, daemon, budget, removed>>

\* launchDaemon: runJobsDaemon from its start; getLimit leaves a descriptor.
Launch ==
    /\ phase = "dead"
    /\ budget.launches < MaxLaunches /\ budget' = [budget EXCEPT !.launches = @ + 1]
    /\ phase' = "load" /\ mine' = <<>> /\ idx' = 1 /\ child' = NoPid
    /\ tick' = 0 /\ fds' = 1
    /\ UNCHANGED <<file, lock, proc, orphans, removed>>

Dies ==
    /\ phase # "dead"
    /\ budget.kills < MaxKills /\ budget' = [budget EXCEPT !.kills = @ + 1]
    /\ phase' = "dead" /\ child' = NoPid
    /\ UNCHANGED <<mine, idx, tick, fds>>

\* The daemon is killed, by anybody.  A job it was waiting for runs on, and the
\* lock stays as it is.
Killed ==
    /\ Dies
    /\ orphans' = orphans \union ({child} \ {NoPid})
    /\ UNCHANGED <<file, lock, proc, removed>>

\* stopJobDaemon: SIGKILL to the daemon and to the pids recorded in the file.  The
\* command loads without a look at the lock and saves when it is free: a lock its
\* own kill has left taken keeps it from that.
StopJobs ==
    /\ Dies
    /\ proc' = [p \in Pid |-> IF p \in Recorded(file) THEN NoJob ELSE proc[p]]
    /\ IF lock = "free"
       THEN file' = [i \in DOMAIN file |-> [file[i] EXCEPT !.pid = NoPid]]
       ELSE UNCHANGED file
    /\ UNCHANGED <<lock, removed>>
    /\ orphans' = (orphans \union ({child} \ {NoPid})) \ Recorded(file)

\* add-job and remove-job in another process.
AddJob(j) ==
    /\ lock = "free"
    /\ ~InTable(file, j)
    /\ budget.edits < MaxEdits /\ budget' = [budget EXCEPT !.edits = @ + 1]
    /\ file' = Append(file, [job |-> j, pid |-> NoPid])
    /\ removed' = removed \ {j}
    /\ UNCHANGED <<lock, daemon, proc, orphans>>

RemoveJob(j) ==
    /\ lock = "free"
    /\ \E i \in DOMAIN file : file[i].job = j /\ file' = Without(file, i)
    /\ budget.edits < MaxEdits /\ budget' = [budget EXCEPT !.edits = @ + 1]
    /\ removed' = removed \union {j}
    /\ UNCHANGED <<lock, daemon, proc, orphans>>

Init ==
    /\ file = [i \in DOMAIN FirstTable |-> [job |-> FirstTable[i], pid |-> NoPid]]
    /\ lock = "free"
    /\ phase = "dead" /\ mine = <<>> /\ idx = 1 /\ child = NoPid
    /\ tick = 0 /\ fds = 1
    /\ proc = [p \in Pid |-> NoJob]
    /\ budget = [launches |-> 0, kills |-> 0, edits |-> 0, mishaps |-> 0]
    /\ orphans = {} /\ removed = {}

DaemonStep ==
    \/ Load \/ PassOver \/ Reap \/ AllLookedAt
    \/ Save \/ TakeLock \/ Copy \/ Unlock \/ Sleep
    \/ \E p \in Pid : StartJob(p)

Next ==
    \/ DaemonStep \/ Mishap \/ Launch \/ Killed \/ StopJobs
    \/ \E p \in Pid : JobEnds(p)
    \/ \E j \in Job : AddJob(j) \/ RemoveJob(j)

Spec == Init /\ [][Next]_vars

\* The daemon is scheduled, and every job ends.
FairSpec ==
    /\ Spec
    /\ WF_vars(DaemonStep)
    /\ \A p \in Pid : WF_vars(JobEnds(p))

-----------------------------------------------------------------------------
\* Properties.

TypeOK ==
    /\ file \in Seq(Entry) /\ mine \in Seq(Entry)
    /\ lock \in {"free", "locked"}
    /\ phase \in Phase
    /\ idx \in Nat \ {0}
    /\ child \in Pid \union {NoPid}
    /\ tick \in 0..(Cycle - 1)
    /\ fds \in 1..FdLimit
    /\ proc \in [Pid -> Job \union {NoJob}]
    /\ budget \in [launches : 0..MaxLaunches, kills : 0..MaxKills,
                   edits : 0..MaxEdits, mishaps : 0..MaxMishaps]
    /\ orphans \subseteq Pid /\ removed \subseteq Job

\* A pid in the jobs file never names a job that runs: the pid is recorded when
\* the job has ended.  So the loop of stop-jobs over the recorded pids never
\* stops a job, and the job that runs at that moment survives it.
RecordedPidIsDead == \A p \in Recorded(file) : p # NoPid => ~Live(p)

\* Jobs run one at a time; what else runs was left over by a daemon that died.
JobsRunOneAtATime == \A p \in Pid : Live(p) => p = child \/ p \in orphans

\* Descriptors that are enough for the ticks until a job's turn has come, and
\* come again when its fork failed: one for each load, one for each run, and
\* three at once for a save.
Enough ==
    fds + ((MaxMishaps + 1) * Cycle + 1) * (1 + Cardinality(Job)) + 3 <= FdLimit

\* The job j is one the daemon has loaded, or is about to load with a free lock.
InWork(j) ==
    IF phase = "load" THEN lock = "free" /\ InTable(file, j) ELSE InTable(mine, j)

\* What may end the wait of the job j: it runs, a command removes it, or the daemon
\* dies of something else than a want of descriptors.
Served(j) ==
    \/ \E p \in Pid : proc[p] = j
    \/ j \in removed
    \/ phase = "dead" /\ fds + 3 <= FdLimit

\* Every job the daemon has in its table gets its turn (README.md:62: mrn runs a
\* job "in some time interval"), over the loads and saves of all the ticks until
\* then, unless a command removes it or the daemon is killed.  Nothing is said of
\* a job added while the daemon works on an older table: the save of that table
\* erases it.
EveryJobGetsItsTurn ==
    \A j \in Job : InWork(j) /\ phase # "dead" /\ Enough ~> Served(j)

\* A daemon that is launched runs the jobs of the file (usage.txt:42: restart-jobs
\* "restarts the job runner if your jobs weren't running").  It does not when the
\* one before was killed inside its critical section: nobody gives the lock back.
LaunchedDaemonRunsJobs ==
    \A j \in Job : phase = "load" /\ InTable(file, j) /\ Enough ~> Served(j)
=============================================================================
