------------------------------ MODULE JobStore ------------------------------
(***************************************************************************)
(* The job table of mrn and the three files that hold it: data/jobs,       *)
(* data/jobs.backup and the lock file data/jobs_sync.  Every invocation of *)
(* the mrn binary (a "cli" process) loads the whole table in its           *)
(* constructor, edits its private copy and writes the whole copy back in   *)
(* its destructor.  The job daemon, forked from such an invocation, does   *)
(* the same once per tick.  Nothing but the lock file orders them.         *)
(*                                                                         *)
(* A file is a sequence of cells.  A cell stands for the bytes of one      *)
(* record "name^runnable#lastRun$interval@pid\n"; all records are taken to *)
(* have the same width, so ftruncate and memcpy work on whole cells, and   *)
(* the NUL bytes ftruncate appends are Zero cells.  lastRun, interval and  *)
(* pid are left to module JobDaemon.                                       *)
(***************************************************************************)
EXTENDS Naturals, Sequences, FiniteSets, Sublists

CONSTANTS
    Cli,            \* slots for invocations of the mrn command
    Daemon,         \* slots for job daemons
    Name, File,     \* job names and runnable files
    NoName, NoFile, \* the empty string read from a run of NUL bytes
    Job,            \* the jobs users try to add
    InitialTables,  \* tables earlier invocations may have left in the file
    OneAtATime,     \* TRUE: a process starts only when no other is at work
    MaxStarts,      \* bound on the number of invocations
    MaxKills,       \* bound on the number of SIGKILLs and power losses
    MaxSignals      \* bound on the number of SIGINTs caught by a handler

Proc == Cli \union Daemon

\* What a NUL-padded record-sized hole reads as, a record whose name starts
\* with NUL bytes, and the records and cells there can be.
Zero == [name |-> NoName, file |-> NoFile]
Unnamed(c) == [c EXCEPT !.name = NoName]
Rec  == Job \union {Unnamed(j) : j \in Job}
Cell == Rec \union {Zero}

\* No two jobs of a table share a name or a runnable file.
Distinct(t) ==
    \A i, j \in DOMAIN t :
        i # j => t[i].name # t[j].name /\ t[i].file # t[j].file

IsTable(t) == t \in Seq(Rec) /\ Distinct(t)

ASSUME JobStoreAssumption ==
    /\ Cli \intersect Daemon = {}
    /\ NoName \notin Name /\ NoFile \notin File
    /\ Job \subseteq [name : Name, file : File]
    /\ \A t \in InitialTables : IsTable(t)
    /\ OneAtATime \in BOOLEAN
    /\ MaxStarts \in Nat /\ MaxKills \in Nat /\ MaxSignals \in Nat

VARIABLES
    file,       \* data/jobs
    backup,     \* data/jobs.backup
    lock,       \* data/jobs_sync: "free" or "locked"
    pc,         \* where each process is
    table,      \* the jobs array of each process
    freed,      \* removeJob freed the array and set it to NULL
    next,       \* the next cell memcpy writes
    inherited,  \* daemons forked while numberOfJobs, the count save_jobs_daemon
                \* tests, was not zero
    budget,     \* starts, kills and signals so far
    \* history, read by the properties only
    prior,      \* the file as the latest save found it
    clash,      \* savers whose save another save, or a handler, overlapped
    victim,     \* processes killed in a save since the file was last loaded
    orphan      \* a process died while it held the lock

files   == <<file, backup, lock>>
local   == <<table, freed, next, inherited>>
history == <<prior, clash, victim, orphan>>
vars    == <<files, pc, local, budget, history>>

\* After ftruncate and before the lock is given back.
InSave == {"poll", "lock", "copy", "unlock"}
\* Inside the critical section the lock file is meant to protect.
Holding == {"copy", "unlock"}
\* The jobs signal handler is installed.
Guarded == {"truncate"} \union InSave

PC == {"off", "init", "ready", "wait", "load", "run", "save"} \union Guarded

-----------------------------------------------------------------------------
\* Helpers: what the code does to arrays and files.

\* Mutant: the file grows but is never cut.
ResizeGrowOnly(f, n) ==
    [i \in 1..(IF n > Len(f) THEN n ELSE Len(f)) |->
        IF i <= Len(f) THEN f[i] ELSE Zero]

\* ftruncate: the prefix survives, new space reads as NUL bytes.
Resize(f, n) == [i \in 1..n |-> IF i <= Len(f) THEN f[i] ELSE Zero]

\* memcpy into the mapping: a store past the end of the file is lost.
Store(f, i, c) == IF i <= Len(f) THEN [f EXCEPT ![i] = c] ELSE f

\* The loaders scan for separators: NUL bytes become part of the name that
\* follows, which strcmp then reads as "", and what no record ends is dropped.
Visible(f) ==
    LET seen == [i \in 1..Len(f) |->
                    IF f[i] # Zero /\ i > 1 /\ f[i - 1] = Zero
                    THEN Unnamed(f[i]) ELSE f[i]]
    IN  Picked(seen, {i \in 1..Len(f) : f[i] # Zero})

Loadable(f) == IsTable(Visible(f))

\* Mutant: the runnable is not compared.
ConflictsByName(t, j) == \E i \in DOMAIN t : t[i].name = j.name

Conflicts(t, j) ==
    \E i \in DOMAIN t : t[i].name = j.name \/ t[i].file = j.file

\* Mutant: the last entry fills the hole.
WithoutSwap(t, i) ==
    [k \in 1..(Len(t) - 1) |-> IF k = i THEN t[Len(t)] ELSE t[k]]

\* removeJob: shift the later entries left.
Without(t, i) ==
    [k \in 1..(Len(t) - 1) |-> IF k < i THEN t[k] ELSE t[k + 1]]

\* Mutant: no copy is made.
SnapshotSkipped == UNCHANGED backup

\* createBackupForJobs and doBackup: an empty source leaves the copy alone.
Snapshot == backup' = IF file = <<>> THEN backup ELSE file

\* Mutant: the last record is cut off.
IntactShort(f) == SubSeq(f, 1, Len(f) - 1)

\* applyBackupForjobs takes the backup up to its first NUL byte.
Intact(f) ==
    SubSeq(f, 1, Cardinality({i \in 1..Len(f) : \A k \in 1..i : f[k] # Zero}))

Goto(p, l) == pc' = [pc EXCEPT ![p] = l]

\* Where a process is when its save is over.
Rest(p) == IF p \in Cli THEN "off" ELSE "wait"

\* The end of a process, or of a daemon's tick: its memory is given back.
Release(p) ==
    /\ table' = [table EXCEPT ![p] = <<>>]
    /\ freed' = [freed EXCEPT ![p] = FALSE]
    /\ next' = [next EXCEPT ![p] = 1]

AtWork == {p \in Proc : pc[p] \notin {"off", "wait"}}
Others(p) == {q \in Proc \ {p} : pc[q] \in InSave}
MayStart == OneAtATime => AtWork = {}

-----------------------------------------------------------------------------
\* An invocation of mrn.

\* init: loadJobs, without a look at the lock.  A duplicate aborts mrn.
Start(c) ==
    /\ pc[c] = "off" /\ MayStart
    /\ budget.starts < MaxStarts
    /\ budget' = [budget EXCEPT !.starts = @ + 1]
    /\ victim' = {}
    /\ IF Loadable(file)
       THEN table' = [table EXCEPT ![c] = Visible(file)] /\ Goto(c, "init")
       ELSE UNCHANGED <<table, pc>>
    /\ UNCHANGED <<files, freed, next, inherited, prior, clash, orphan>>

\* init: createBackupForJobs, a no-op when numberOfJobs is 0.
InitBackup(c) ==
    /\ pc[c] = "init"
    /\ IF table[c] = <<>> THEN UNCHANGED backup ELSE Snapshot
    /\ Goto(c, "ready")
    /\ UNCHANGED <<file, lock, local, budget, history>>

\* add-job.  main returns at once when createJob refuses the job.
AddJob(c, j) ==
    /\ pc[c] = "ready" /\ ~freed[c]
    /\ IF Conflicts(table[c], j)
       THEN Goto(c, "save") /\ UNCHANGED table
       ELSE /\ table' = [table EXCEPT ![c] = Append(@, j)]
            /\ UNCHANGED pc
    /\ UNCHANGED <<files, freed, next, inherited, budget, prior, clash,
                   victim, orphan>>

\* add-job after remove-job emptied the table in the same invocation: the
\* array is NULL, its capacity is not, and the store faults.
AddJobFaults(c) ==
    /\ pc[c] = "ready" /\ freed[c]
    /\ Goto(c, "off") /\ Release(c)
    /\ UNCHANGED <<files, inherited, budget, prior, clash, victim, orphan>>

\* remove-job.  main returns at once when there is no such job.  (On a freed
\* array removeJob does nothing and succeeds.)
RemoveJob(c, n) ==
    /\ pc[c] = "ready" /\ ~freed[c]
    /\ \/ /\ \A i \in DOMAIN table[c] : table[c][i].name # n
          /\ Goto(c, "save")
          /\ UNCHANGED <<table, freed>>
       \/ \E i \in DOMAIN table[c] :
          /\ table[c][i].name = n
          /\ table' = [table EXCEPT ![c] = Without(@, i)]
          /\ freed' = [freed EXCEPT ![c] = Len(table[c]) = 1]
          /\ UNCHANGED pc
    /\ UNCHANGED <<files, next, inherited, budget, prior, clash, victim, orphan>>

\* The arguments are used up, or a command that leaves the table alone (list,
\* job-status, ...) ended main: the destructor saves all the same.
Finish(c) ==
    /\ pc[c] = "ready"
    /\ Goto(c, "save")
    /\ UNCHANGED <<files, local, budget, history>>

\* warmup-jobs: fork a daemon that keeps the parent's numberOfJobs.
Launch(c, d) ==
    /\ pc[c] = "ready" /\ pc[d] = "off"
    /\ inherited' = IF table[c] # <<>> THEN inherited \union {d}
                                       ELSE inherited \ {d}
    /\ Goto(d, "wait")
    /\ UNCHANGED <<files, table, freed, next, budget, history>>

\* stop-jobs: SIGKILL to the daemon, wherever it is.
StopDaemon(c, d) ==
    /\ pc[c] = "ready" /\ pc[d] # "off"
    /\ Goto(d, "off") /\ Release(d)
    /\ orphan' = (orphan \/ pc[d] \in Holding)
    /\ UNCHANGED <<files, inherited, budget, prior, clash, victim>>

-----------------------------------------------------------------------------
\* A tick of the daemon.

\* loadJobsDaemon: wait until the lock is free; it is not taken.
AwaitFree(d) ==
    /\ pc[d] = "wait" /\ MayStart
    /\ lock = "free"
    /\ Goto(d, "load")
    /\ UNCHANGED <<files, local, budget, history>>

\* loadJobsDaemon: on a duplicate, drop the array and try again later.
DaemonLoad(d) ==
    /\ pc[d] = "load"
    /\ victim' = {}
    /\ IF Loadable(file)
       THEN table' = [table EXCEPT ![d] = Visible(file)] /\ Goto(d, "run")
       ELSE Goto(d, "wait") /\ UNCHANGED table
    /\ UNCHANGED <<files, freed, next, inherited, budget, prior, clash, orphan>>

\* The jobs that are due run, one after the other.
DaemonRun(d) ==
    /\ pc[d] = "run"
    /\ Goto(d, "save")
    /\ UNCHANGED <<files, local, budget, prior, clash, victim, orphan>>

-----------------------------------------------------------------------------
\* Writing a table back: save_jobs and save_jobs_daemon.

\* numberOfJobs of the saving process is 0.  The daemon tests the count it
\* inherited, not the count of the table it loaded.
NothingToSave(p) == IF p \in Cli THEN table[p] = <<>> ELSE p \notin inherited

\* removeContentFromJobsFile: no lock, and no backup as numberOfJobs is 0.
Erase(p) ==
    /\ pc[p] = "save" /\ NothingToSave(p)
    /\ file' = <<>>
    /\ clash' = clash \union Others(p)
    /\ Goto(p, Rest(p)) /\ Release(p)
    /\ UNCHANGED <<backup, lock, inherited, budget, prior, victim, orphan>>

\* strlen of the NULL pointer a daemon has when the file became empty.
DaemonFaults(d) ==
    /\ pc[d] = "save" /\ ~NothingToSave(d) /\ table[d] = <<>>
    /\ Goto(d, "off") /\ Release(d)
    /\ UNCHANGED <<files, inherited, budget, prior, clash, victim, orphan>>

\* writeData: createBackupForJobs, then the SIGINT handler is installed.
SaveBackup(p) ==
    /\ pc[p] = "save" /\ ~NothingToSave(p) /\ table[p] # <<>>
    /\ Snapshot
    /\ Goto(p, "truncate")
    /\ UNCHANGED <<file, lock, local, budget, history>>

\* writeData: ftruncate to the new length, before the lock is looked at.
Truncate(p) ==
    /\ pc[p] = "truncate"
    /\ file' = Resize(file, Len(table[p]))
    /\ prior' = file
    /\ clash' = IF Others(p) = {} THEN clash \ {p}
                ELSE clash \union Others(p) \union {p}
    /\ Goto(p, "poll")
    /\ UNCHANGED <<backup, lock, local, budget, victim, orphan>>

\* Mutant: wait until nobody else is in a save.
PollLockPolite(p) ==
    /\ pc[p] = "poll" /\ lock = "free" /\ Others(p) = {}
    /\ Goto(p, "lock")
    /\ UNCHANGED <<files, local, budget, history>>

\* isJobFree says yes; otherwise sleep(1) and look again.
PollLock(p) ==
    /\ pc[p] = "poll" /\ lock = "free"
    /\ Goto(p, "lock")
    /\ UNCHANGED <<files, local, budget, history>>

\* Mutants: "free" is written; memcpy starts a record early.
TakeLockFree(p) ==
    /\ pc[p] = "lock"
    /\ lock' = "free"
    /\ next' = [next EXCEPT ![p] = 1]
    /\ Goto(p, "copy")
    /\ UNCHANGED <<file, backup, table, freed, inherited, budget, history>>
TakeLockEarly(p) ==
    /\ pc[p] = "lock"
    /\ lock' = "locked"
    /\ next' = [next EXCEPT ![p] = 0]
    /\ Goto(p, "copy")
    /\ UNCHANGED <<file, backup, table, freed, inherited, budget, history>>

\* syncJob(true): write "locked", whatever is there by now.
TakeLock(p) ==
    /\ pc[p] = "lock"
    /\ lock' = "locked"
    /\ next' = [next EXCEPT ![p] = 1]
    /\ Goto(p, "copy")
    /\ UNCHANGED <<file, backup, table, freed, inherited, budget, history>>

\* memcpy, one cell at a time.
CopyCell(p) ==
    /\ pc[p] = "copy"
    /\ file' = Store(file, next[p], table[p][next[p]])
    /\ next' = [next EXCEPT ![p] = @ + 1]
    /\ IF next[p] = Len(table[p]) THEN Goto(p, "unlock") ELSE UNCHANGED pc
    /\ UNCHANGED <<backup, lock, table, freed, inherited, budget, history>>

\* Mutant: the lock is not given back.
UnlockForgotten(p) ==
    /\ pc[p] = "unlock"
    /\ Goto(p, Rest(p)) /\ Release(p)
    /\ clash' = clash \ {p}
    /\ prior' = <<>>
    /\ UNCHANGED <<files, inherited, budget, victim, orphan>>

\* syncJob(false): write "free".
Unlock(p) ==
    /\ pc[p] = "unlock"
    /\ lock' = "free"
    /\ Goto(p, Rest(p)) /\ Release(p)
    /\ clash' = clash \ {p}
    /\ prior' = <<>>
    /\ UNCHANGED <<file, backup, inherited, budget, victim, orphan>>

-----------------------------------------------------------------------------
\* What happens to a process.

\* Mutant: the handler restores the file and returns inside its lock.
InterruptKeepsLock(c) ==
    /\ pc[c] \in Guarded
    /\ budget.signals < MaxSignals
    /\ budget' = [budget EXCEPT !.signals = @ + 1]
    /\ backup # <<>> /\ backup[1] # Zero
    /\ file' = Intact(backup)
    /\ lock' = "locked"
    /\ clash' = clash \union Others(c) \union {c}
    /\ UNCHANGED <<backup, pc, local, prior, victim, orphan>>

\* SIGINT while the handler is installed: the backup is written over the file
\* under a lock taken without asking, and the interrupted code goes on.  The
\* handler is one step here.
Interrupt(c) ==
    /\ pc[c] \in Guarded
    /\ budget.signals < MaxSignals
    /\ budget' = [budget EXCEPT !.signals = @ + 1]
    /\ backup # <<>>
    /\ IF backup[1] = Zero
       THEN /\ Goto(c, "off")
            /\ orphan' = (orphan \/ pc[c] \in Holding)
            /\ UNCHANGED <<file, lock, clash>>
       ELSE /\ file' = Intact(backup)
            /\ lock' = "free"
            /\ clash' = clash \union Others(c) \union {c}
            /\ UNCHANGED <<pc, orphan>>
    /\ UNCHANGED <<backup, local, prior, victim>>

\* SIGKILL, a power loss, or SIGINT before the handler is there.
Kill(p) ==
    /\ pc[p] # "off"
    /\ budget.kills < MaxKills
    /\ budget' = [budget EXCEPT !.kills = @ + 1]
    /\ Goto(p, "off") /\ Release(p)
    /\ victim' = IF pc[p] \in InSave THEN victim \union {p} ELSE victim
    /\ orphan' = (orphan \/ pc[p] \in Holding)
    /\ UNCHANGED <<files, inherited, prior, clash>>

-----------------------------------------------------------------------------
Init ==
    /\ file \in InitialTables
    /\ backup \in {<<>>, file}
    /\ lock = "free"
    /\ pc = [p \in Proc |-> "off"]
    /\ table = [p \in Proc |-> <<>>]
    /\ freed = [p \in Proc |-> FALSE]
    /\ next = [p \in Proc |-> 1]
    /\ inherited = {}
    /\ budget = [starts |-> 0, kills |-> 0, signals |-> 0]
    /\ prior = <<>>
    /\ clash = {} /\ victim = {}
    /\ orphan = FALSE

\* The steps that follow from the program text alone.
Save(p) ==
    \/ Erase(p) \/ SaveBackup(p) \/ Truncate(p) \/ PollLock(p)
    \/ TakeLock(p) \/ CopyCell(p) \/ Unlock(p)
CliStep(c) == InitBackup(c) \/ Finish(c) \/ Save(c)
DaemonStep(d) ==
    AwaitFree(d) \/ DaemonLoad(d) \/ DaemonRun(d) \/ DaemonFaults(d) \/ Save(d)

Next ==
    \/ \E c \in Cli :
        \/ Start(c) \/ CliStep(c) \/ AddJobFaults(c) \/ Interrupt(c)
        \/ \E j \in Job : AddJob(c, j)
        \/ \E n \in Name : RemoveJob(c, n)
        \/ \E d \in Daemon : Launch(c, d) \/ StopDaemon(c, d)
    \/ \E d \in Daemon : DaemonStep(d)
    \/ \E p \in Proc : Kill(p)

Spec == Init /\ [][Next]_vars

\* A process that is not killed keeps running.
FairSpec ==
    /\ Spec
    /\ \A c \in Cli : WF_vars(CliStep(c))
    /\ \A d \in Daemon : WF_vars(DaemonStep(d))
-----------------------------------------------------------------------------
\* Properties.

TypeOK ==
    /\ file \in Seq(Cell) /\ backup \in Seq(Cell) /\ prior \in Seq(Cell)
    /\ lock \in {"free", "locked"}
    /\ pc \in [Proc -> PC]
    /\ table \in [Proc -> Seq(Rec)]
    /\ freed \in [Proc -> BOOLEAN]
    /\ next \in [Proc -> Nat \ {0}]
    /\ inherited \subseteq Daemon
    /\ budget \in [starts : 0..MaxStarts, kills : 0..MaxKills,
                   signals : 0..MaxSignals]
    /\ clash \subseteq Proc /\ victim \subseteq Proc
    /\ orphan \in BOOLEAN

\* No process ever holds a table with two jobs of one name or one runnable
\* file: what loadJob and createJob refuse is never built by a shift of
\* removeJob, nor read from a file two savers have mixed.
TablesDistinct == \A p \in Proc : Distinct(table[p])

\* A save that no other save and no handler overlaps leaves exactly its table
\* in the file, although it truncates before it locks and copies piecemeal.
UndisturbedSaveIsExact ==
    \A p \in Proc : pc[p] = "unlock" /\ p \notin clash => file = table[p]

\* A save that nothing overlaps is seen as locked from its first byte to its
\* last by everybody who asks isJobFree.
UndisturbedSaveIsLocked ==
    \A p \in Proc : pc[p] \in Holding /\ p \notin clash => lock = "locked"

\* The lock file says "locked" only while some process is between syncJob(true)
\* and syncJob(false), or after one died there: no path through save_jobs,
\* the daemon's save or the signal handler forgets to give it back.
LockHasHolder ==
    lock = "locked" => orphan \/ \E p \in Proc : pc[p] \in Holding

\* One process at a time, killed anywhere in a save, no SIGINT: until somebody
\* loads the file again, what it held before that save is whole in the backup
\* (README.md:66).  An empty file is not backed up.
CrashKeepsACopy ==
    victim # {} /\ prior # <<>> /\ budget.signals = 0 => backup = prior

\* At rest, the file can be loaded by the next invocation.
LoadableAtRest == AtWork = {} => Loadable(file)

\* One process at a time, adding jobs survives Ctrl-C, any number of times and
\* anywhere in the save: the file ends as the old table or the new one.
\* (Removing does not: see LoadableAtRest.  Nor does adding to an empty file:
\* its backup is that of an older table, and brings removed jobs back.)
InterruptedAddIsWhole ==
    \A c \in Cli :
        /\ pc[c] = "unlock" /\ prior # <<>>
        /\ Len(prior) <= Len(table[c])
        /\ SubSeq(table[c], 1, Len(prior)) = prior
        => file \in {prior, table[c]}

\* A daemon erases the file only when it loaded an empty table.
DaemonKeepsJobs ==
    [][\A d \in Daemon : pc[d] = "save" /\ pc'[d] = "wait"
            => table[d] = <<>>]_vars

\* Whoever holds the lock, it is given back.
LockIsGivenBack == lock = "locked" ~> lock = "free"

\* Every invocation that starts ends.
CliFinishes == \A c \in Cli : pc[c] = "init" ~> pc[c] = "off"

-----------------------------------------------------------------------------
\* The abstract table: while a save is under way the file counts as it was
\* before, and the session of the process at work is over once it has copied.
Session == {p \in AtWork : pc[p] # "unlock"}
Writing == \E p \in Proc : pc[p] \in {"poll", "lock", "copy"}
Abstract == INSTANCE JobTable WITH
    committed <- IF Writing THEN Visible(prior) ELSE Visible(file),
    draft <- IF Session = {} THEN <<>> ELSE table[CHOOSE p \in Session : TRUE],
    open <- Session # {}

\* One command at a time and nothing killed, the files of mrn behave as one
\* table with transactional sessions (save_jobs.c, job_init.c).
ImplementsJobTable == Abstract!Spec
=============================================================================
