# A TLA+ verification of mini-runner

`mrn` is a process runner for a Linux server: it clones services from GitHub,
starts and stops them, puts them under cgroup limits, gives them environment
variables, runs jobs at intervals from a daemon of its own, and can save and
restore all of its files ("time shift").  There is no server and no shared
memory: each `mrn ...` command is a process that loads the files in
`/usr/lib/mrn/data` in a constructor (`init`, `main.c:79`), runs the command on
its private copy, and writes the copies back in a destructor (`closeProcess`,
`main.c:147`).  Commands overlap when two terminals use them, when a command
stays attached to a service, and with the job daemon, which loads and saves the
jobs file once per tick.  Signals, kills and power losses can cut a command off
anywhere.  The interesting questions are therefore about files: who overwrites
whose data, what a crash leaves, and whether the lock file and the process ids
on disk mean what the commands take them to mean.

## 1. Inventory

| component | source | state | operations |
|---|---|---|---|
| Command line | `main.c` | `services`, `jobs`, `envs`, `limits` arrays, `reformatState`, `reformatLimits` | constructor, one branch per command, destructor |
| Job table | `init/job_init.c`, `job_ops/`, `fini/save_jobs.c` | `data/jobs`, `data/jobs.backup`, `numberOfJobs` | load, create, remove, save, erase, restore on SIGINT |
| Jobs lock | `sync/` | `data/jobs_sync`: "free" or "locked" | `isJobFree`, `syncJob` |
| Job daemon | `job_ops/run_jobs.c`, `init/daemon_*.c`, `fini/daemon_save_jobs.c` | `numberOfJobsDaemon`, `waitedTime`, descriptors | launch, tick (load, run what is due, save) |
| Daemon control | `daemon_ops/`, `daemon_utils/` | `data/job_daemon_pid` and its backup | warmup, stop, restart, status, `setPid` |
| Daemon limits | `job_res_man/` | `data/job_cpu_limit`, `data/job_mem_limit` | config, get, `setrlimit` |
| Snapshots | `io_man/` | a `.backup` next to every data file | `doBackup`, one handler per file |
| Services | `init/main_init.c`, `ops/`, `utils_ops/` | `data/projects`, `data/updateStatus`, folders, service processes | add, run, stop, restart, update, rename, delete, save |
| Limits | `init/limit_init.c`, `res_man/`, `utils_ops/*limit*` | `data/limits`, cgroups | set, rename, remove, apply, save |
| Environment | `env_man/`, `fini/save_parse.c` | `data/env` | add, update, remove, hand to a service, save |
| Time shift | `time_shift/` | copies in `/usr/lib/mrn/backup` | create, apply |
| Formats | `job_format/`, `res_format/`, `exceptions/` | none | parse durations, sizes and cores; accept names |
| mrn-run | `mrn_interpreter/` | the script, the current directory | parse a script, run its lines |

How they interact: the command line calls everything else; the job daemon is a
fork of a command and shares the jobs file, the lock file and the pid file with
all later commands; `run` forks a service, learns its pid through a pipe and
stores it in the projects table only when the command ends; `stop`, `restart`,
`update` and `remove` in another process read that table and send signals to
what they find there; signal handlers copy a `.backup` over the file that is
being saved, inside the save they interrupt; time-shift apply replaces all data
files under running commands and daemons.

What is hard, and what should hold:

* *Job table and lock.*  Whole-file load and save by overlapping processes, a
  file lock that is polled and then taken, a truncation before the lock, a
  handler that writes in the middle of a save, kills anywhere.  A table must
  never hold duplicates, a save must be all or nothing, an edit must not be
  undone by a process that edited nothing, a lock must be given back.
* *Job daemon and its control.*  The pid on disk must name the daemon that
  runs; at most one daemon should run; stop, restart and status must agree with
  the processes there are, after crashes too; jobs must keep running.
* *Services.*  The pid on disk must name the process that runs; `run`, `stop`,
  `restart`, `update` and `remove` from several terminals; a service whose pid
  is lost cannot be stopped; an update that fails must not lock everyone out.
* *Limits and environment.*  Renaming or removing a service must take its
  limits and variables along; what a command accepted must be on disk after it.
* *Time shift.*  Apply after create must restore what create saw, and the
  destructor must not overwrite it.
* *Formats.*  What is accepted must be converted to the amount it says.

## 2. Modules

| module | models | composed by |
|---|---|---|
| `JobTable` | what the jobs file promises (abstract) | `JobStore`, as a refinement (`Abstract`) |
| `JobStore` | jobs file, backup, lock, commands and daemons byte by byte | |
| `DaemonControl` | the pid file, warmup, stop, restart, crashes | |
| `JobDaemon` | ticks, job processes, recorded pids, descriptors | |
| `Services` | projects file, update status, service processes, overlapping invocations | |
| `Resources` | records, folders, cgroups, limits and variables of one invocation after another | `TimeShift` extends it |
| `TimeShift` | the copies of all files, applied over `Resources` | |
| `Texts` | the rules of names, the four file formats, the numbers of operands | `JobLimits` and `Inputs` extend it |
| `CommandLine` | the loop of `main` over its arguments | `Inputs` |
| `Interpreter` | `mrn-run` | `Inputs` |
| `Inputs` | what may be given to the three above, and what they should make of it | `MCTexts` |
| `JobLimits` | `config job` and the daemon that reads its files | `MCTexts` |
| `Sublists` | what a loop that skips records keeps of a table | `JobTable`, `JobStore`, `Services` |

Each of `JobStore`, `DaemonControl`, `JobDaemon`, `Services`, `Resources`,
`TimeShift` and `Sublists` has its theorems in a module of its own
(`JobStoreProofs` and so on), those of `Inputs` and `JobLimits` are in
`TextsProofs`; the `MC` modules give instances for TLC.

`Services` and `Resources` cover the same commands from two sides.  `Services`
has any number of invocations at once with one command each, and every step of
theirs that others can see; `Resources` has one invocation at a time with
several commands, and everything one of them keeps for a service.  Each module
takes processes, names and bounds as CONSTANTS, has one action per operation and
uses no RECURSIVE operator; loops over data are folds or recursive functions.

## 3. JobStore: the jobs file, its backup and its lock

A file is a sequence of cells; a cell stands for the bytes of one record.  All
records are taken to have the same width, so that `ftruncate` and `memcpy` work
on whole cells (`Resize`, `Store`), and the bytes `ftruncate` appends are `Zero`
cells.  `Visible` is what both loaders make of such a file: zeros vanish into
the name of the record after them.  `lock` is `data/jobs_sync`.

| action | code |
|---|---|
| `Start`, `InitBackup` | the constructor: `loadJobs`, which aborts on a duplicate, then `createBackupForJobs` |
| `AddJob`, `AddJobFaults`, `RemoveJob`, `Finish` | `createJob`, its store through the freed array, `removeJob`, the end of `main` |
| `Launch`, `StopDaemon` | `launchDaemon`; the SIGKILL of `stopJobDaemon` |
| `AwaitFree`, `DaemonLoad`, `DaemonRun`, `DaemonFaults` | a tick of `runJobsDaemon` up to its save |
| `Erase`, `SaveBackup`, `Truncate`, `PollLock`, `TakeLock`, `CopyCell`, `Unlock` | `save_jobs` and `save_jobs_daemon`, in the order of `writeData` |
| `Interrupt` | the SIGINT handler installed by `writeData` |
| `Kill` | SIGKILL, power loss, SIGINT before the handler is installed |

After `Unlock` a process is off.  In the code the SIGINT handler stays installed
until the saver of the environment installs its own (`save_parse.c:45`), or to
the end of the process where there is no variable to save; a SIGINT in that
stretch copies the backup over a save that was complete.  The model has the
handler up to `Unlock` only, and its properties say nothing of that stretch.

`JobTable` is what the files promise to somebody who uses one command at a time:
a committed table, one open session with a draft, commit or give up.  The
mapping is at the end of `JobStore`: a save counts as committed with its last
cell.

Variables `prior`, `clash`, `victim` and `orphan` are history: no guard reads
them.

## 4. DaemonControl: the pid file

`file` and `copy` are `data/job_daemon_pid` and its backup, `proc` is what runs
under each pid (nothing, a daemon and where it is in its boot, a foreign
process, or one that is dying or waits to be reaped), `pc`, `command` and `read`
are the commands' local state.  `victims` and `again` are history: strangers that
were killed, and SIGKILLs that hit a process already dying.

`kill` returns 0 for a process until it is reaped.  So a killed or crashed daemon
is "dying" until `Reaped`, and every command that has read its pid by then takes
its own kill for the one that ended it: two `restart-jobs` then launch a daemon
each, and the later `setPid(0)` of one may wipe out the pid of the other's.

All pids have one number of digits, more than one; 0 has one.  So `setPid(0)`
cuts the file to the first digit (`CutToOne`) and then writes 0 over whatever
the first byte is (`PutZero`), while a daemon's own `setPid` cuts nothing.  The
file holds a whole number, its first digit, or a number whose first digit became
0; `First` and `Rest` say which pids those read as.

| action | code |
|---|---|
| `Begin`, `End` | the command line's branches (`main.c:566`), the end of `main` |
| `Warmup`, `Relaunch` | `launchDaemon` from `warmup-jobs`, and at the end of `restartJobDaemon` |
| `ReadPid`, `KillPid` | `stopJobDaemon`: 0 or a failing `kill` is the end of the command |
| `BackupZero`, `TruncateZero`, `WriteZero` | `setPid(0)` |
| `DaemonBackup`, `DaemonTruncate`, `DaemonWrite` | `setPid(getpid())` in the new daemon |
| `Reaped` | a dying process leaves the table of processes |
| `Interrupt` | `handlePidBackup`: the backup goes over the file, the code goes on |
| `Crash`, `CliDies`, `Stranger` | deaths; a free pid goes to another program |

Three behaviours follow from the table and need no run. `restart-jobs` ends in
`ReadPid` or `KillPid` when no daemon runs, so it does not do what
`Documentation/usage.txt:42` says ("restarts the job runner if your jobs weren't
running"). After `Crash`, `job-status` still prints "Running": `show_status.c`
reads the file and asks for no process (it calls no `kill`). And where the user
is not careful (a warmup that overlaps stop-jobs), the file can end as a pid
whose first digit is 0, which the next stop-jobs kills.

## 5. JobDaemon: ticks, job processes, descriptors

`file` is the jobs file as a table (one step per command's edit: the bytes are
the business of `JobStore`, and so is a file damaged by a kill), `lock` the lock
beside it, `mine` the table in the daemon's memory, `idx` and
`child` its place in the loop, `tick` is `waitedTime` modulo a common multiple
of the intervals, `fds` its open descriptors, `proc` what job each process runs.
`orphans` and `removed` are history: job processes whose daemon died, and jobs a
command removed last.

| action | code |
|---|---|
| `Load` | `loadJobsDaemon`: the wait for the lock, the descriptor it never closes, its abort |
| `PassOver`, `StartJob`, `Reap`, `Mishap` | the body of the loop: not due or no pipe; fork; waitpid and read; a failed fork or a missing folder |
| `AllLookedAt`, `Save` | the end of the loop; `save_jobs_daemon` up to the lock, by the number of descriptors left |
| `TakeLock`, `Copy`, `Unlock` | the wait for the lock and `syncJob(true)`; `memcpy`; `syncJob(false)` |
| `Sleep` | `sleep`, `waitedTime++`, `freeJobs` |
| `Launch`, `Killed`, `StopJobs` | a new daemon; SIGKILL by others; `stopJobDaemon` |
| `AddJob`, `RemoveJob`, `JobEnds` | another command; the end of a job process |

`Load` costs one descriptor for ever (`daemon_init.c:49`), a run one (the read
end of its pipe, `run_jobs.c:180`), `getLimit` one per daemon; a save needs three
for a moment, and leaves one when its backup finds the file empty.  A lock file
that cannot be opened counts as free, cannot be taken, and leaves the daemon in
saves without end.  A daemon killed between `TakeLock` and `Unlock`, by
`stop-jobs` and `restart-jobs` too, leaves the lock taken, and the next one stays
in `Load` for ever.  `Fresh` hands
out no pid that a table still records, which the kernel's rotation of pids makes
likely and does not guarantee: the kill of a recorded pid that meanwhile belongs
to another program is listed as a hazard and is not in the model.

## 6. Services: the projects file, the update lock and the processes

`file` is `data/projects` as a sequence of cells, as in `JobStore`, but saved
with no lock at all; `status` is `data/updateStatus` by its first four bytes and
its last four, since "idle" and "updating" differ in length and are cut and
written in two steps; `folder` are the clones; `proc` says which service runs
under which pid; `table`, `target` and `child` are local to an invocation.  A
service is known by its repository, which no command changes.

| action | code |
|---|---|
| `Begin` | the constructor: `loadServices`, the abort on a second name or repository, the backup |
| `List`, `Add`, `Rename`, `Stop` | the commands that do their work in one step others can see |
| `RemoveFolder`, `RemoveRecord` | `normalDeleteServices`: folder first, then record and process |
| `Run`, `Fork`, `ForkNoFolder`, `StorePid` | `runService` and its thread: check the update status, fork, read the pid from the pipe; a child without a folder ends as a second mrn |
| `Restart`, `Regroup`, `RestartFaults` | `restartService`, `updateCgroup`, the uninitialised `args` |
| `Detach` | SIGINT at `run --attach`, with the wake-up it may miss |
| `Update`, `Neglect`, `StatusCut`, `StatusPut`, `Pulled`, `PullFails` | `updateService` and `neglect-updates` with `writeUpdateAvialable` |
| `SaveNothing`, `SaveTruncate`, `SaveCopy` | `save_services` |
| `SaveInterrupt`, `StatusInterrupt` | the two SIGINT handlers |
| `Kill`, `Die` | an invocation, a service process |

`happened` is history: it names the disturbances (an overlap, a kill, a signal,
a second run of a running service, a pid that went stale) that the properties
excuse, so that each says exactly what it needs.  That overlapping commands lose
each other's changes follows from a save without a lock and is not a property.

## 7. Resources and TimeShift: what belongs to a service

A service has a record, a folder, a cgroup, a limit and variables, in four files
and in the kernel, and every command changes some of them one after the other.
`Resources` has the four arrays of an invocation, the flags `reformatState` and
`reformatLimits` its destructor asks, the arrays that were freed with their last
entry (`gone`), and the machine.

| action | code |
|---|---|
| `Begin`, `Return`, `SaveServices`, `SaveJobs`, `SaveEnvs`, `SaveLimits` | `init`, the end of `main`, `closeProcess` file by file |
| `Add`, `Remove`, `Rename`, `NotThere` | the three commands with folder, cgroup (`RenameCgrp`), limit and record, and what is undone when one of them fails |
| `Run`, `Stop`, `Restart` | which cgroup the process, and mrn itself, is in afterwards |
| `SetLimit`, `SetLimitOfNobody` | the three widths of `set-limit`, what they write before they fail what of the cores goes to the cgroup and to the file (`Quotas`, `FileCpus`), and when `main` sets `reformatLimits` (`SavedAfter`) |
| `AddEnv`, `UpdateEnv`, `RemoveEnv`, `EditJobs`, `Refuse` | the other tables; `return 1` |
| `AddToNothing`, `AddEnvToNothing`, `RestartCrashes` | stores through a freed array and a path never written |
| `Kill`, `Die` | the invocation, a service process |
| `Create`, `Apply`, `Restore`, `Applied` (`TimeShift`) | `createTimeShift`; `applyTimeShift` copy by copy, then folders and cgroups, then `reformatState = false` |

cgroup v1 and v2 are both there: on v1 a process is in two hierarchies, a rename
loses the limits, and restart kills what it started.  Again `happened` names
what a property excuses: `partial` (cpu.max written, memory.max refused),
`unsaved` (`-cpu` with `--type custom`, `main.c:399`), `undone` and `lost`
(rename), `outside` (`run` asks for no cgroup), `reused` (a pid of another),
`clash`, `revived` and `late` (time shifts; `FollowName` takes no busy cgroup,
for whose `rmdir` `apply_time_shift.c:115` would fail, and what it leaves is
excused by `shifted`).  Each of these is a way in which
the code parts what belongs together; the properties say that there is no other.

A number of cores is an operand in hundredths, as `convertToFloat` rounds it.
The cgroup gets `(int)(cpuLimit * 100000)` in double (`low.c:53`), the file
`numberOfCpu * 100000` in float (`cpu_limit.c:59`): 0.29 makes 28999 in the one
and 29000 in the other.  `Quota` and `FileCpu` are these two conversions, any two
functions in the proofs and the real numbers of 0.29 and 0.01 in the run, and
`LimitsAreEnforced` asks that file and cgroup have the two numbers of one
operand.  A quota below the least the kernel takes (`TinyCpu`, 0.01) is refused.
Negative cores are not among the operands.

`doBackup` copies no empty file (`base.c:62`): a shift made while there were no
jobs has none, or those of the shift before, and applying an empty one leaves the
jobs there are.  `CopyOver` says so for projects, variables and jobs alike, and
`ShiftIsApplied` promises the jobs of the shift only if it has some.

## 8. Texts, CommandLine, Interpreter, JobLimits: what mrn makes of its input

These are functions of the input, but for `JobLimits`, which has any number of
`config job` processes, with no lock, and the daemon that reads the two files.
`Inputs` says what may be given: a table for one of the four files with texts of
any length, an operand, a line of commands as somebody types them (`Part`), a
script; and, in its four properties, what should come of it.  `InputSpec` gives
each behaviour one of them.  `MCTexts` has small sets of each, or none, and then
the processes of `JobLimits` run; each of its behaviours is one of `InputSpec`.

* `Texts`: `Accepts` are the rules, `Written` what the save functions print,
  `Read` the scanners of the load functions as folds over characters.
  `FormatTime`, `ConvertToByte` and their like have the casts in the order the
  code has them and the width of each type: `Atoi` takes the lower 32 bits, an
  `int` that cannot hold a product becomes INT_MIN as on x86, products of 64 bits
  wrap, and what `atoll` reads ends at the largest long (`Saturated`).  `Kilo`
  stands for 1024 and `Period` for 100000; operands are below 2^53, where a
  double is exact, and have at most a half behind the point.
* `CommandLine`: `Dispatch` folds over `argv`.  Every argument that is the word
  of a command runs it, operands included; options are sought up to the end,
  the type of a memory limit behind `-mem` only.  `Strict` are the commands at
  which `main` may give up: because they failed, or before they did anything, at
  a new name against the rules, an empty name or `-m 0`; `failing` says at which
  arguments it does.
* `Interpreter`: `RunMrnFile` and `GetParse`, against a reference by the places
  of the separators (`Pieces`).  `Directories` are the paths that `chdir` takes
  one after the other from where the script began; none ends in an empty path,
  which `chdir` refuses and with it the script.
* `JobLimits`: `Ask`, `Backup`, `Truncate`, `Write`, `Finish`, `Interrupt`,
  `Kill` are `main` and `configJobRes` step by step; `StartDaemon`, `ReadMem`,
  `ReadCpu` are `runJobsDaemon` and `getLimit`.  `asked`, `disturbed`, `torn`,
  `settled`, `promised` and `doubtful` are history.  `createJobRsLimitBackup`
  copies the cpu file onto itself, so that there is never a copy to restore.
  A file cut to a shorter text and not yet written is `torn`, and so is a copy
  taken of it: killed between `ftruncate` and `write`, `config job` leaves a
  memory file that is too short, the next one copies it, and a SIGINT brings it
  back (`hanldeRsMmbackup`), over a limit that was written whole in between.
  `asked` has the numbers as a reader would take them, so that a memory limit of
  2^63 or more counts as the largest long.  What the kernel does with them is
  outside: `setLimit` gives cores * 100000 to RLIMIT_CPU, which counts seconds
  (`res_limit.c:8`).

## 9. The runs

| run | question | result |
|---|---|---|
| `jobs_serial` | Do the files refine `JobTable` when commands come one at a time? | yes |
| `jobs_race` | Three commands at any time, none of them killed: are tables free of duplicates, is a save that nothing overlaps exact and locked, does each command end, is the lock given back? | yes |
| `jobs_faults` | A kill and two SIGINTs at any point: who holds the lock, what survives a crash, what Ctrl-C does to an add | holds |
| `jobs_ctrlc` | Can the file still be loaded after Ctrl-C (README.md:66)? | no: a removal ends with a duplicate |
| `jobs_wipe` | Does a daemon keep the jobs of the file? | no: it may erase jobs added after its launch |
| `daemon_overlap` | Stop and restart overlapping: is there a daemon too many only where a kill hit one that was dying, and is the file truthful as long as that did not happen and nothing crashed? | yes |
| `daemon_serial` | One command at a time beside other programs: is nobody else killed, and every daemon named in the end? | yes |
| `jobd_runs` | Which job processes run, what the file says of them, does each job get its turn? | holds |
| `jobd_restart` | Does a daemon that is launched run the jobs (usage.txt:42)? | no: it waits for ever for a lock that a killed one left |
| `services` | Updates and restarts overlapping, everything else alone, with one kill, SIGINT or death: can every process be found and stopped, whom does a kill hit, can the file be loaded, who holds the update lock and is it given back? | holds |
| `timeshift` | Three invocations, on both cgroup versions, with time shifts and one fault: do records, folders, cgroups and limits stay in step, does what a command changed reach the disk, does an applied shift stay? | holds |
| `texts` | Is what was typed what is done: names through files, numbers, command lines, scripts, and the limits of the daemon through overlapping configurations? | holds |

`RecordedPidIsDead` holds and is bad news: the loop of `stopJobDaemon` over the
recorded pids stops no job, and the one that runs survives.

Five more statements of the documentation do not hold, and follow from the
tables above without a run of their own. Documentation/usage.txt:42 says that
restart-jobs "restarts the job runner": two at once may leave two daemons, of
which the file names one (`KillPid`; `DaemonsAreCounted` says how many there can
be). Documentation/usage.txt:31 has `-mem 2g` as an example, and :27 needs
`--type` only above 4gb: 2g is one more than an `int` holds and becomes INT_MIN
(`ConvertToByte`). README.md:66 says that nothing is lost by "exiting the
program on sudden shutdown": killed between `ftruncate` and the end of `memcpy`,
a save leaves a part of the table (`Truncate`, `CopyCell`, `Kill`). README.md:78
says that the state is applied "if your program makes a change": `closeProcess`
saves with every command (`Finish` and the destructor steps of every module).
README.md:61 says that jobs run in their intervals: the descriptors of the
daemon run out, one per tick and one per run, after which no job runs (`Load`,
`StartJob`).

### Bounds, and why they are enough

* `JobStore`: three commands overlap in `jobs_race`, because every property
  there speaks of one save and of one that disturbs it, and a third acts on what
  the two left (326,943 states); a daemon is in `jobs_faults` and `jobs_wipe`,
  one at a time with a command, and the theorems are about any number of daemons
  at any time. Tables of up to two jobs before the commands and three or four
  after them let removals shift, tables grow, shrink and become empty, with one
  job that clashes with two others. One kill and two signals reach a signal in
  the save after a crash and a handler run twice.
* `DaemonControl`: three pids (old daemon, new daemon, one more), two commands
  at a time; in `daemon_overlap` three in all with one warmup, crash and SIGINT
  (4,849,754 states), which is two that kill one daemon and one that meets what
  they left; in `daemon_serial` two foreign processes.
* `JobDaemon`: two jobs with intervals of one and two ticks, five pids (two in
  each table and a fresh one), two daemons, one kill, one edit, one mishap
  (847,037 states). A limit of 20 descriptors is enough for two cycles with a
  mishap, and runs out afterwards; at 1024 the same happens later.
* `Services`: two invocations at once and three in all (one that leaves a state,
  two that meet in it), two services and three names (so that a rename has a
  free name and a taken one), two pids, one fault.  Only `update`, `neglect` and
  `restart` overlap: all but the lock's properties excuse overlaps, and these
  three are what touches the lock.  1,092,408 states.
* `TimeShift`: three invocations with three commands between them (create,
  change, apply), two services, three names, one fault, two cpu limits, one of
  which the two conversions make different numbers of and the other the kernel
  refuses, and two of memory, one of which an `int` cannot hold; no jobs or one of
  two tables.  6,031,455 states.
* `MCTexts`: fields of one character out of every separator, a space, a newline
  and a plain one, and two records, so that what one breaks shows in the other;
  operands with up to two letters, from 0 to 4.5 and where an `int` or 64 bits
  end (with `Kilo = 5` an `int` holds 249, and `Period = 100`); up to three
  commands, with any of them failing; scripts of up to six characters, and of up
  to five lines out of cds that lead on, that fail, that are empty, and a
  process. 46,742 inputs. The configurations, with operands whose digits differ
  in number: two by two processes together with one fault, or three by one
  process with two faults, since it takes a kill, another configuration and a
  SIGINT in it to bring a torn copy back (with one fault the property would not
  have had to name the copy). 1,135,813 states.

### Fairness

A command that is not killed goes on by itself, so `CliStep` and `DaemonStep`
are weakly fair; nothing forces a user to type, a process to die, or a signal to
come.  A job ends (README.md:61 asks for finite processes).  `jobs_race` has no
daemon: against one that takes the lock at every tick a polling command could in
principle always look at the wrong moment, and weak fairness does not exclude it.
In `JobDaemon` nobody but the daemon takes the lock (a command's edit is one
step), so its wait ends unless the lock was abandoned; `EveryJobGetsItsTurn`
speaks of jobs that are in its table, or about to be with a free lock, and
`jobd_restart` of the others.  Killing the daemon ends the wait of its jobs; the
edit that takes a job away does so only as a removal, not where the daemon's own
stale save erases a job that was added.
In `Services` each invocation is weakly fair in its command and its save: git
ends, and nothing there waits for another invocation.

## 10. What is proved

All proofs are for every value of the constants that meets the assumption of the
module: any number of commands, daemons, services, jobs and pids, any bounds.
Of the 33 invariants and 7 action or temporal properties the runs check, all the
invariants, the action property and the refinement are theorems.  Where a
theorem has a hypothesis, the constants of its run meet it.

* `JobStoreProofs`.  `TypeCorrect` needs `CopyInBounds`: a process in a save has
  a table that is not empty and copies inside it.  `NeverADuplicate`: every way
  a table comes into being (load, add, the shift of remove) keeps it distinct,
  whatever is in the file.  `NoLockWithoutHolder` is inductive with the types.
  `UndisturbedSavesAreExact` and `UndisturbedSavesAreLocked` rest on
  `SaveProgress`: for a saver not in `clash`, the file has the length of its
  table, agrees with it up to `next - 1`, the lock is locked while it copies, and
  any other process in a save would have put both in `clash`.
  Three theorems are about one process at a time (`OneAtATime`, what their
  properties say).  `CrashesKeepACopy` needs that a saver past its backup has the
  old table there (`BackedUp`).  `InterruptedAddsAreWhole` needs `AddProgress`:
  since the table begins with the old one, after any number of restores the file
  is the old one, or agrees with the new one wherever the old one is or `memcpy`
  has been.  `FilesImplementTable` (in addition no daemon, no kill, no signal,
  as in `jobs_serial`) is the refinement of `JobTable`: initial states map to
  initial states, and every step to a step of a session or a stutter; while the
  file is being written its promise is the table before (`prior`), which the
  last `memcpy`, the erasure or the fault of `add-job` replaces or drops.
* `SublistsProofs`.  `PickedEntries`: the entries at given places, in order and
  each once.  Induction over numbers is had from a least element of a set
  (`NumbersUpTo`).  It serves the loaders, `removeJob`, `save_services` and
  (as an argument) the loop of `applyTimeShift`.
* `DaemonControlProofs`. `DaemonsComeFromKills` follows from `Counted`: daemons
  that live and commands past their successful kill are together at most one
  more than the kills that hit a dying process. A kill of a live daemon turns
  one into the other; a kill of a dying one adds a command and counts itself. It
  assumes a careful user and no pid used again; without the first a second
  warmup makes a second daemon, without the second a stop-jobs could kill a
  stranger that has the daemon's pid and go on to launch. `StatusIsTrue` adds
  `FileTruth`, what the file holds in each phase of `setPid`, as long as nothing
  crashed, no SIGINT came and no dying daemon was killed, when `Counted` is
  `OneToken`: at most one of the two. `NoStrangerIsKilled`: one command at a
  time and no crash or SIGINT, so that a pid that was read stays that of the
  daemon (`ReadsTheDaemon`) until it is killed; pids may be used again.
* `JobDaemonProofs`.  `TypeCorrect` needs `Waiting`: both ends of the pipe are open
  while the daemon waits.  `StopJobsStopsNoJob` and `OneJobAtATime` come from
  `RunInv`: recorded pids are dead in the file and in the daemon's copy, and what
  runs is the awaited child or an orphan.
* `ServicesProofs`.  `UpdateLockIsOwned`: the property is not inductive, because
  two updates and a neglect cut and write the word in turns.  `LockInv` gives each
  half of the word an owner of its own: "ting" is there only while somebody is in
  his pull or about to cut it off, "upda" only while somebody is anywhere between
  the two writes.  The half-written words in between fall under the second half.
  `TypeCorrect` needs `TargetsAreThere`: a command past its checks has its service
  in its table.  `NamesAreUnique` follows from `FileInv`, which says what is
  distinct in the array and in the file in each phase, with the names a rename
  may take.  `NoServiceIsLost` adds `LostInv`: every process that runs is named in
  the file, at rest, or in the array of the one invocation or by the pipe it reads
  from.  `KillsAreRightful` is the reverse, `StrikeInv`: a record that has a pid
  has that of its own service.  It assumes `OwnPids`: the records found at first
  have different pids (without it the very first stop could hit another service,
  by no fault of the commands).
* `ResourcesProofs`.  `TablesInv` says why `rename` never makes two limits of one
  name although it never looks: names of records are names that have a folder
  (`Taken`), limits belong to records, and `rename` moves its folder only to where
  none is.  Between two saves the file of limits still belongs to the table being
  saved unless `reformatLimits` is set.  `NeverTwoLimits` and
  `NoLimitWithoutService` follow for `Resources`; with the steps of a time shift
  they are `NeverTwoLimitsBesideShifts` and `NoLimitWithoutServiceBesideShifts` in
  `TimeShiftProofs`, which is the specification the run checks.  `TypeCorrect`
  and what follows use that the table found at first has no repository twice
  (`DistinctRepos`, on which `loadServices` aborts).
* `TimeShiftProofs`, about all steps of `TimeShift`.  `EditsReachDisk` needs that
  a table that differs from its file has its flag set, or the exit is one of those
  `SavedAfter` names.  `AppliedShiftStays` needs that files copied back stay what
  the shift has, or what they were where it has nothing (`RestoredSoFar`), and
  that nothing sets `reformatState` again.
  `FoldersStayInStep`: before a shift is applied folders follow the array of the
  invocation, after it the file it took back, and no folder is in the way of the
  one that may be taken back (`FoldersFree`); `Ahead` is the loop invariant of the
  renames in `applyTimeShift`.  `FileLimitsAreEnforced` has `HoldInv`: the limits
  of the array, or at rest of the file, are those of the cgroups, which are made
  and removed with both their limits.  `LimitedProcessesAreInside` has `PlaceInv`:
  beside that, no two records have the pid of one process, and the process of a
  limited service is where its name says; again under `OwnPids`.
* `TextsProofs`, first about the input, for every set `Input` that meets
  `InputAssumption`, so for the set of all tables, operands, lines and scripts.
  The models fold over texts, and a fold is a `CHOOSE` of a function over sets of
  places.  `Folding` shows that there is one with values in a given set, extended
  place by place; `FoldsThrough` and `FoldLeads` then say that it goes where the
  steps lead.  Every induction is one over the numbers up to a bound, written
  with a set (`NumbersUpTo`), since no prover takes an operator.
  `TablesAreReadBack` leads the loader over a field (no character of it is the
  separator it waits for, `AcceptedIsClear`), its separator, a line, a table.
  `DigitsAreRead` writes a number figure by figure and reads it the same way, for
  all numbers, up to the largest long.  `OperandsAreRead` goes through the
  conversions unit by unit, each up to the width of its type (`Scaled`,
  `FitsAnInt`).
  `ScriptsRunEveryLine` relates the fold to the reference by places: after i
  characters mrn-run holds the pieces that end there (`PieceByPiece`) and is where
  the lines so far lead (`Led`), in a directory that grows by a path with each cd
  (`Way`).
  `CommandsRunInOrder` is about `main`: `SegmentIs` and `LineIs` say where each
  word of each command is in the line; `OwnOptions`, that among all that follows
  a command only its own options are options of it, which is where `Apart` is
  needed; `CommandFinds`, that its word runs with all of its own and nothing else;
  `NothingHappens`, that `main` passes over what is no word of a command, and over
  everything once it ended; `CommandsRun`, by induction over the commands, what
  has run when `main` is past each.  The last command of a line cut short finds
  one operand too few (`CutLine`).
* `TextsProofs`, then about `JobLimits`.  `SettledIsLast`: a process nobody met is
  alone at work (`Alone`), the file it is about to write has exactly the length it
  writes (`WasCut`), and a file about to be written is not settled (`Open`).
  `QuietDaemonTakesBoth` follows the daemon between its two reads.
  `LimitsWereAsked` needs `AskedInv`: while a file is not torn only one process is
  at work (`OneAtWork`), the file is no longer than what is about to be written
  over it, and neither is the copy that a SIGINT may put there (`Fits`), and a
  copy that is not torn was asked for (`CopyAsked`); NULs behind a number do not
  change what `atoi` makes of it (`LeadingCut`).  `DaemonTakesWhatWasAsked` adds
  what the daemon has read, for nothing asked for is forgotten.  With
  `DigitsAreRead`, `LimitsAreOperands` says what the numbers are: 0 or what an
  operand stands for, so that printing and reading loses none below the largest
  long, and makes that of a memory limit above it.

Only model-checked is all liveness (`CliFinishes`, `LockIsGivenBack`,
`LaunchedIsNamed`, `EveryJobGetsItsTurn`, `UpdateLockIsGivenBack`), which the
prover does not reach.

## 11. Abstractions, and what is not modelled

* Records of the jobs file and of the projects file have one width, so a
  truncation never cuts a record in the middle; with several widths the same
  losses appear with half records.
* A load, `doBackup` and a signal handler are one step each.  `memcpy` goes record
  by record in `JobStore` and is one step in `Services`.  The lock file is written
  in one step: what it holds in between reads as "not free" just like "locked".
* Failing system calls are left out, but for descriptors in `JobDaemon`, git, the
  folder and the cgroups in `Services` and `Resources`; SIGKILL and power loss keep
  what was written so far.
* A job's times are not modelled; a record is its name and runnable.  In
  `Resources` a table of jobs is opaque and a service has one variable at most.
* `warmup-jobs` right after `remove-job` of the last job, and a daemon launched
  while there were no jobs, are in `JobStore` (`inherited`), not in `JobDaemon`.
* `time-shift create` is one step.  The SIGINT handlers
  of the limits and environment files are not modelled: an invocation is killed
  around their saves, never interrupted inside them.
* Memory errors of the C arrays (capacities counted in bytes, a NULL stored one
  place too far) are below the tables of the models.  What mrn does with a freed
  array is modelled as the crash it is.
* Not modelled: the display of usage and limits (reads and prints), help texts,
  wrappers of system calls, the installation, and the boot runtime that nothing
  starts yet.
