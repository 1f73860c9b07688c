------------------------------ MODULE Services ------------------------------
(***************************************************************************)
(* The services of mrn: the projects file and its backup, the update       *)
(* status file, the folders under /var/lib and the processes of the        *)
(* services.  Every invocation loads the projects file, runs a command on  *)
(* its private table and writes the whole table back, with no lock.        *)
(*                                                                         *)
(* A service is known by its repository, which no command changes.  A file *)
(* is a sequence of cells, one per record "name^repo#pid\n", all of one    *)
(* width as in JobStore.  One command per invocation; what an invocation   *)
(* with several does is left to CommandLine and Resources.                 *)
(***************************************************************************)
EXTENDS Naturals, Sequences, FiniteSets, Sublists

CONSTANTS
    Cli,            \* slots for invocations of the mrn command
    Name, Repo,     \* service names and repositories
    Pid,            \* process ids the machine gives to services
    NoPid,          \* pid 0: not running
    Nothing,        \* no service, no process
    InitialTables,  \* tables earlier invocations may have left in the file
    MayOverlap,     \* commands that may be at work together
    MaxCommands,    \* bound on the number of invocations
    MaxFaults       \* bound on what nobody planned: SIGKILLs and power losses,
                    \* SIGINTs, service processes that end by themselves

Command == {"add", "remove", "run", "attach", "stop", "restart", "update",
            "neglect", "rename", "list"}

Record == [name : Name, repo : Repo, pid : Pid \union {NoPid}]
Zero == [name |-> Nothing, repo |-> Nothing, pid |-> NoPid]
Cell == Record \union {Zero}
Entry == [rec : Record, cloned : BOOLEAN]

\* data/updateStatus, "idle" or "updating", by its first four bytes and its
\* last four: "none" is a file of four bytes, "nul" what ftruncate appends.
Status == [head : {"idle", "upda"}, tail : {"none", "nul", "ting"}]
Idle   == [head |-> "idle", tail |-> "none"]

Distinct(t) ==
    \A i, j \in DOMAIN t :
        i # j => t[i].name # t[j].name /\ t[i].repo # t[j].repo

ASSUME ServicesAssumption ==
    /\ NoPid \notin Pid /\ Nothing \notin Name \union Repo \union Pid
    /\ MayOverlap \subseteq Command
    /\ \A t \in InitialTables : t \in Seq(Record) /\ Distinct(t)
    /\ MaxCommands \in Nat /\ MaxFaults \in Nat

VARIABLES
    file,       \* data/projects
    backup,     \* data/projects.backup
    status,     \* data/updateStatus
    statusCopy, \* its backup
    folder,     \* names that have a non-empty folder under /var/lib
    proc,       \* which service runs under each pid
    pc,         \* where each invocation is
    command,    \* the command it runs
    table,      \* its services array
    target,     \* the service it works on
    child,      \* the process it has forked and not yet recorded
    budget,     \* commands and faults so far
    happened    \* history: which disturbances there have been

disk  == <<file, backup, folder>>
lockf == <<status, statusCopy>>
local == <<pc, command, table, target, child>>
vars  == <<disk, lockf, proc, local, budget, happened>>

PC == {"off", "ready", "removing", "checked", "forked", "attached", "joining",
       "regroup", "mark", "marking", "pull", "unmark", "unmarking", "save", "copy"}

AtWork == {c \in Cli : pc[c] # "off"}

\* An update is between its first write of the status file and its last, and
\* neglect-updates during its own.
StatusWriter == {c \in Cli : pc[c] \in {"marking", "pull", "unmark", "unmarking"}}

-----------------------------------------------------------------------------
\* Helpers.

\* ftruncate: the prefix survives, new space reads as NUL bytes.
Resize(f, n) == [i \in 1..n |-> IF i <= Len(f) THEN f[i] ELSE Zero]

\* memcpy into the mapping: what lies past the end of the file is lost.
Overlay(f, t) == [i \in 1..Len(f) |-> IF i <= Len(t) THEN t[i] ELSE f[i]]

\* loadServices scans for separators, so the NUL bytes at the end are dropped.
Visible(f) ==
    SubSeq(f, 1, Cardinality({i \in 1..Len(f) : \A k \in 1..i : f[k] # Zero}))

Loaded(f) == [i \in 1..Len(Visible(f)) |-> [rec |-> f[i], cloned |-> TRUE]]

\* loadProject makes init abort on a second record with a name or repository.
Loadable(f) == Distinct(Visible(f))

Conflicts(t, n, r) ==
    \E i \in DOMAIN t : t[i].rec.repo = r \/ t[i].rec.name = n

Find(t, r) == CHOOSE i \in DOMAIN t : t[i].rec.repo = r
Has(t, r)  == \E i \in DOMAIN t : t[i].rec.repo = r
NameOf(c, r) == table[c][Find(table[c], r)].rec.name
PidOf(c, r)  == table[c][Find(table[c], r)].rec.pid

SetPid(c, r, p) ==
    table' = [table EXCEPT ![c] = [@ EXCEPT ![Find(@, r)].rec.pid = p]]

\* Mutant: the entries after it go, and it stays.
WithoutShift(t, i) == SubSeq(t, 1, i)

Without(t, i) == SubSeq(t, 1, i - 1) \o SubSeq(t, i + 1, Len(t))

\* Mutant: the entries are written with their cloned flag.
SavedWithFlag(t) == Picked(t, {i \in DOMAIN t : t[i].cloned})

\* What save_services writes: the entries whose repository was cloned.
Saved(t) ==
    LET kept == Picked(t, {i \in DOMAIN t : t[i].cloned})
    IN  [i \in 1..Len(kept) |-> kept[i].rec]

\* doBackup: an empty source leaves the destination alone.
CopyOf(source, destination) ==
    IF source = <<>> THEN destination ELSE source

Goto(c, l) == pc' = [pc EXCEPT ![c] = l]

Note(w) == happened' = happened \union w

\* kill(pid, SIGKILL) if kill(pid, 0) finds the process; a stale pid may by
\* now be that of another service.
Shot(p) ==
    IF p = NoPid THEN proc ELSE [proc EXCEPT ![p] = Nothing]
Strike(p, r) ==
    IF p # NoPid /\ proc[p] \notin {Nothing, r} THEN {"strike"} ELSE {}

-----------------------------------------------------------------------------
\* The constructor and the destructor.

Init ==
    /\ file \in InitialTables
    /\ backup = file
    /\ status = Idle /\ statusCopy = Idle
    /\ folder = {file[i].name : i \in DOMAIN file}
    /\ proc = [p \in Pid |->
                 IF \E i \in DOMAIN file : file[i].pid = p
                 THEN file[CHOOSE i \in DOMAIN file : file[i].pid = p].repo
                 ELSE Nothing]
    /\ pc = [c \in Cli |-> "off"]
    /\ command = [c \in Cli |-> "list"]
    /\ table = [c \in Cli |-> <<>>]
    /\ target = [c \in Cli |-> Nothing]
    /\ child = [c \in Cli |-> NoPid]
    /\ budget = [commands |-> 0, faults |-> 0]
    /\ happened = {}

\* init: load, and back the file up.  An invocation that finds a file it
\* cannot load aborts before its command and changes nothing.
Begin(c) ==
    /\ pc[c] = "off" /\ budget.commands < MaxCommands
    /\ Loadable(file)
    /\ budget' = [budget EXCEPT !.commands = @ + 1]
    /\ table' = [table EXCEPT ![c] = Loaded(file)]
    /\ backup' = CopyOf(file, backup)
    /\ \E cmd \in Command :
        /\ AtWork # {} => {cmd} \union {command[d] : d \in AtWork} \subseteq MayOverlap
        /\ command' = [command EXCEPT ![c] = cmd]
    /\ Goto(c, "ready")
    /\ Note(IF AtWork = {} THEN {} ELSE {"overlap"})
    /\ UNCHANGED <<file, folder, lockf, proc, target, child>>

\* The process is gone; nothing of it is left but what it wrote.
Off(c) ==
    /\ Goto(c, "off")
    /\ table' = [table EXCEPT ![c] = <<>>]
    /\ target' = [target EXCEPT ![c] = Nothing]
    /\ child' = [child EXCEPT ![c] = NoPid]
    /\ command' = [command EXCEPT ![c] = "list"]

\* save_services returns at once when none of its entries was cloned, or when
\* there is nothing to save and nothing saved.
NothingToSave(c) ==
    \/ table[c] # <<>> /\ Saved(table[c]) = <<>>
    \/ table[c] = <<>> /\ file = <<>>

SaveNothing(c) ==
    /\ pc[c] = "save" /\ NothingToSave(c)
    /\ Off(c)
    /\ UNCHANGED <<disk, lockf, proc, budget, happened>>

\* save_services up to ftruncate, with its backup and its handler.  An empty
\* table is neither backed up nor truncated here.
SaveTruncate(c) ==
    /\ pc[c] = "save" /\ ~NothingToSave(c)
    /\ IF table[c] = <<>>
       THEN UNCHANGED <<file, backup>>
       ELSE /\ backup' = CopyOf(file, backup)
            /\ file' = Resize(file, Len(Saved(table[c])))
    /\ Goto(c, "copy")
    /\ UNCHANGED <<folder, lockf, proc, command, table, target, child, budget,
                   happened>>

\* memcpy, or ftruncate to nothing, and the end of the process.
SaveCopy(c) ==
    /\ pc[c] = "copy"
    /\ file' = IF table[c] = <<>> THEN <<>> ELSE Overlay(file, Saved(table[c]))
    /\ Off(c)
    /\ UNCHANGED <<backup, folder, lockf, proc, budget, happened>>

\* handleServicesBackup during the save: the backup goes over the file and the
\* save goes on.
SaveInterrupt(c) ==
    /\ pc[c] = "copy" /\ budget.faults < MaxFaults
    /\ budget' = [budget EXCEPT !.faults = @ + 1]
    /\ file' = IF table[c] = <<>> THEN file ELSE CopyOf(Visible(backup), file)
    /\ Note({"signal"})
    /\ UNCHANGED <<backup, folder, lockf, proc, local>>

-----------------------------------------------------------------------------
\* list, add, remove, rename, stop.

List(c) ==
    /\ pc[c] = "ready" /\ command[c] = "list"
    /\ Goto(c, "save")
    /\ UNCHANGED <<disk, lockf, proc, command, table, target, child, budget,
                   happened>>

\* addProject: a service that cannot be cloned stays in the table, uncloned.
Add(c) ==
    /\ pc[c] = "ready" /\ command[c] = "add"
    /\ \E n \in Name, r \in Repo :
        LET new(ok) == [rec |-> [name |-> n, repo |-> r, pid |-> NoPid],
                        cloned |-> ok]
        IN  \/ /\ Conflicts(table[c], n, r)
               /\ UNCHANGED <<folder, table>>
            \/ /\ ~Conflicts(table[c], n, r) /\ n \notin folder
               /\ folder' = folder \union {n}
               /\ table' = [table EXCEPT ![c] = Append(@, new(TRUE))]
            \/ /\ ~Conflicts(table[c], n, r)
               /\ table' = [table EXCEPT ![c] = Append(@, new(FALSE))]
               /\ UNCHANGED folder
    /\ Goto(c, "save")
    /\ UNCHANGED <<file, backup, lockf, proc, command, target, child, budget,
                   happened>>

\* normalDeleteServices deletes the folder first ...
RemoveFolder(c) ==
    /\ pc[c] = "ready" /\ command[c] = "remove"
    /\ \E r \in Repo :
        /\ Has(table[c], r)
        /\ target' = [target EXCEPT ![c] = r]
        /\ folder' = folder \ {NameOf(c, r)}
    /\ Goto(c, "removing")
    /\ UNCHANGED <<file, backup, lockf, proc, command, table, child, budget,
                   happened>>

\* ... then takes the entry out and kills the process it names.
RemoveRecord(c) ==
    /\ pc[c] = "removing"
    /\ table' = [table EXCEPT ![c] = Without(@, Find(@, target[c]))]
    /\ proc' = Shot(PidOf(c, target[c]))
    /\ Note(Strike(PidOf(c, target[c]), target[c]))
    /\ Goto(c, "save")
    /\ UNCHANGED <<disk, lockf, command, target, child, budget>>

\* Mutant: the folder of another service is replaced.
CanMoveAnywhere(old, new) == old \in folder

\* rename(2): a missing source, or a destination that is not empty, fails.
CanMove(old, new) == old \in folder /\ new \notin folder

\* renameService: the folder, the cgroup, the limit, the name.  A cgroup that
\* cannot be renamed makes it move the folder back.
Rename(c) ==
    /\ pc[c] = "ready" /\ command[c] = "rename"
    /\ \E r \in Repo, new \in Name :
        /\ Has(table[c], r)
        /\ LET i == Find(table[c], r)
               old == table[c][i].rec.name
           IN  \/ /\ old # new /\ CanMove(old, new)
                  /\ folder' = (folder \ {old}) \union {new}
                  /\ table' = [table EXCEPT ![c][i].rec.name = new]
               \/ UNCHANGED <<folder, table>>
    /\ Goto(c, "save")
    /\ UNCHANGED <<file, backup, lockf, proc, command, target, child, budget,
                   happened>>

\* Mutant: the pid is not reset.
StopKeepsPid(c) ==
    /\ pc[c] = "ready" /\ command[c] = "stop"
    /\ \E r \in Repo :
        /\ Has(table[c], r)
        /\ proc' = Shot(PidOf(c, r))
        /\ Note(Strike(PidOf(c, r), r))
    /\ Goto(c, "save")
    /\ UNCHANGED <<disk, lockf, command, table, target, child, budget>>

\* stopService: SIGKILL, leave the cgroup, pid 0; the pid of the killed process
\* stays when the cgroup cannot be written.
Stop(c) ==
    /\ pc[c] = "ready" /\ command[c] = "stop"
    /\ \E r \in Repo :
        /\ Has(table[c], r)
        /\ LET p == PidOf(c, r) IN
            /\ proc' = Shot(p)
            /\ \/ /\ SetPid(c, r, NoPid)
                  /\ Note(Strike(p, r))
               \/ /\ p # NoPid
                  /\ Note(Strike(p, r) \union {"stale"})
                  /\ UNCHANGED table
    /\ Goto(c, "save")
    /\ UNCHANGED <<disk, lockf, command, target, child, budget>>

-----------------------------------------------------------------------------
\* run, with and without --attach, and restart.

\* updateAvialable: anything that strcmp tells from "idle" is an update.
Updating == status.head # "idle" \/ status.tail = "ting"

\* runService up to the check of the update status: a service that already
\* runs is not refused.
Run(c) ==
    /\ pc[c] = "ready" /\ command[c] \in {"run", "attach"}
    /\ \E r \in Repo :
        /\ Has(table[c], r)
        /\ target' = [target EXCEPT ![c] = r]
        /\ Note(IF PidOf(c, r) # NoPid /\ proc[PidOf(c, r)] = r
                THEN {"double"} ELSE {})
    /\ Goto(c, IF Updating THEN "save" ELSE "checked")
    /\ UNCHANGED <<disk, lockf, proc, command, table, child, budget>>

\* restartService: killService, then warmService up to the same check, which
\* leaves the pid of the killed process behind when it refuses.
Restart(c) ==
    /\ pc[c] = "ready" /\ command[c] = "restart"
    /\ \E r \in Repo :
        /\ Has(table[c], r)
        /\ target' = [target EXCEPT ![c] = r]
        /\ proc' = Shot(PidOf(c, r))
        /\ Note(Strike(PidOf(c, r), r)
                 \union (IF Updating /\ PidOf(c, r) # NoPid THEN {"stale"} ELSE {}))
    /\ Goto(c, IF Updating THEN "save" ELSE "checked")
    /\ UNCHANGED <<disk, lockf, command, table, child, budget>>

\* runthread: fork; the child changes to the service's folder, sends its pid
\* and becomes the service.
Fork(c) ==
    /\ pc[c] = "checked" /\ NameOf(c, target[c]) \in folder
    /\ \E p \in Pid :
        /\ proc[p] = Nothing
        /\ proc' = [proc EXCEPT ![p] = target[c]]
        /\ child' = [child EXCEPT ![c] = p]
    /\ Goto(c, "forked")
    /\ UNCHANGED <<disk, lockf, command, table, target, budget, happened>>

\* Without a folder the child sends "0" and returns from the thread, so it
\* ends as a whole process with a destructor: it saves the table it inherited,
\* with the pid from before, beside its parent (in slot d here).
ForkNoFolder(c) ==
    /\ pc[c] = "checked" /\ NameOf(c, target[c]) \notin folder
    /\ \E d \in Cli :
        /\ pc[d] = "off"
        /\ pc' = [pc EXCEPT ![c] = "forked", ![d] = "save"]
        /\ table' = [table EXCEPT ![d] = table[c]]
        /\ command' = [command EXCEPT ![d] = command[c]]
        /\ child' = [child EXCEPT ![c] = NoPid]
    /\ Note({"overlap"})
    /\ UNCHANGED <<disk, lockf, proc, target, budget>>

\* The parent's thread stores the pid it read from the pipe.
StorePid(c) ==
    /\ pc[c] \in {"forked", "joining"}
    /\ SetPid(c, target[c], child[c])
    /\ child' = [child EXCEPT ![c] = NoPid]
    /\ Goto(c, CASE command[c] = "restart"                        -> "regroup"
                 [] command[c] = "attach" /\ pc[c] = "forked" -> "attached"
                 [] OTHER                                      -> "save")
    /\ UNCHANGED <<disk, lockf, proc, command, target, budget, happened>>

\* updateCgroup: on cgroup v2 a service without a cgroup (one that never had a
\* limit) is killed again, and its pid stays.
Regroup(c) ==
    /\ pc[c] = "regroup"
    /\ LET p == PidOf(c, target[c]) IN
        \/ UNCHANGED <<proc, happened>>
        \/ /\ proc' = Shot(p)
           /\ Note(IF p = NoPid THEN {} ELSE {"stale"} \union Strike(p, target[c]))
    /\ Goto(c, "save")
    /\ UNCHANGED <<disk, lockf, command, table, target, child, budget>>

\* SIGINT at the terminal of "run --attach" ends the service and wakes the
\* command.  It sets pid 0 and waits for its thread, which may store the pid
\* of the ended process after that; and a signal between the test of
\* "running" and pause() is not noticed until the next one.
Detach(c) ==
    /\ pc[c] \in {"forked", "attached"} /\ command[c] = "attach"
    /\ budget.faults < MaxFaults
    /\ budget' = [budget EXCEPT !.faults = @ + 1]
    /\ LET p == IF pc[c] = "forked" THEN child[c] ELSE PidOf(c, target[c]) IN
        /\ proc' = IF p # NoPid /\ proc[p] = target[c] THEN Shot(p) ELSE proc
        /\ \/ /\ pc[c] = "forked"
              /\ Goto(c, "joining")
              /\ Note({"stale"})
              /\ UNCHANGED table
           \/ /\ pc[c] = "attached"
              /\ SetPid(c, target[c], NoPid)
              /\ Goto(c, "save")
              /\ UNCHANGED happened
           \/ /\ Note({"stale"})
              /\ UNCHANGED <<pc, table>>
    /\ UNCHANGED <<disk, lockf, command, target, child>>

-----------------------------------------------------------------------------
\* update and neglect-updates.

\* updateService: a service that is not there changes nothing.
Update(c) ==
    /\ pc[c] = "ready" /\ command[c] = "update"
    /\ \E r \in Repo :
        /\ Has(table[c], r)
        /\ target' = [target EXCEPT ![c] = r]
    /\ Goto(c, "mark")
    /\ UNCHANGED <<disk, lockf, proc, command, table, child, budget, happened>>

Neglect(c) ==
    /\ pc[c] = "ready" /\ command[c] = "neglect"
    /\ Goto(c, "unmark")
    /\ UNCHANGED <<disk, lockf, proc, command, table, target, child, budget,
                   happened>>

\* Mutant: the file is not cut.
StatusUncut(c) ==
    /\ \/ pc[c] = "mark" /\ Goto(c, "marking")
       \/ pc[c] = "unmark" /\ Goto(c, "unmarking")
    /\ status' = [status EXCEPT !.tail = IF @ = "none" THEN "nul" ELSE @]
    /\ statusCopy' = status
    /\ UNCHANGED <<disk, proc, command, table, target, child, budget, happened>>

\* writeUpdateAvialable up to ftruncate, to the length of the new word.
StatusCut(c) ==
    /\ \/ /\ pc[c] = "mark"
          /\ Goto(c, "marking")
          /\ status' = [status EXCEPT !.tail = IF @ = "none" THEN "nul" ELSE @]
       \/ /\ pc[c] = "unmark"
          /\ Goto(c, "unmarking")
          /\ status' = [status EXCEPT !.tail = "none"]
    /\ statusCopy' = status
    /\ UNCHANGED <<disk, proc, command, table, target, child, budget, happened>>

\* Its memcpy, which stores only what the file still has room for, and the
\* SIGINT of "update --stop", which leaves the pid in the table.
StatusPut(c) ==
    /\ \/ /\ pc[c] = "marking"
          /\ Goto(c, "pull")
          /\ status' = [head |-> "upda",
                         tail |-> IF status.tail = "none" THEN "none" ELSE "ting"]
          /\ LET p == PidOf(c, target[c]) IN
             \/ UNCHANGED <<proc, happened>>
             \/ /\ proc' = Shot(p)
                /\ Note(IF p = NoPid THEN {} ELSE {"stale"} \union Strike(p, target[c]))
       \/ /\ pc[c] = "unmarking"
          /\ Goto(c, "save")
          /\ status' = [status EXCEPT !.head = "idle"]
          /\ UNCHANGED <<proc, happened>>
    /\ UNCHANGED <<disk, statusCopy, command, table, target, child, budget>>

\* Mutant: "idle" is not written after the pull.
PulledOnly(c) ==
    /\ pc[c] = "pull"
    /\ Goto(c, "save")
    /\ UNCHANGED <<disk, lockf, proc, command, table, target, child, budget,
                   happened>>

\* git pull succeeds, or the command aborts and never writes "idle".
Pulled(c) ==
    /\ pc[c] = "pull"
    /\ Goto(c, "unmark")
    /\ UNCHANGED <<disk, lockf, proc, command, table, target, child, budget,
                   happened>>

PullFails(c) ==
    /\ pc[c] = "pull"
    /\ Off(c)
    /\ Note({"failed"})
    /\ UNCHANGED <<disk, lockf, proc, budget>>

\* updateFileBackup: the handler restores the file as it was before the latest
\* write and the command goes on; it stays installed until save_services.
StatusInterrupt(c) ==
    /\ \/ pc[c] \in {"marking", "pull", "unmarking"}
       \/ pc[c] = "unmark" /\ command[c] = "update"
       \/ pc[c] = "save" /\ command[c] \in {"update", "neglect"}
    /\ budget.faults < MaxFaults
    /\ budget' = [budget EXCEPT !.faults = @ + 1]
    /\ status' = statusCopy
    /\ Note({"signal"})
    /\ UNCHANGED <<disk, statusCopy, proc, local>>

-----------------------------------------------------------------------------
\* Deaths.

\* The command is killed where it is, before it can save.
Kill(c) ==
    /\ pc[c] # "off" /\ budget.faults < MaxFaults
    /\ budget' = [budget EXCEPT !.faults = @ + 1]
    /\ Off(c)
    /\ Note({"killed"})
    /\ UNCHANGED <<disk, lockf, proc>>

\* warmService leaves params->args uninitialised: the new process may fail in
\* execve, and the command may die in freeArgs with the pid unsaved.
RestartFaults(c) ==
    /\ pc[c] = "forked" /\ command[c] = "restart"
    /\ \/ /\ Off(c)
          /\ Note({"killed"})
          /\ UNCHANGED proc
       \/ /\ proc' = IF child[c] # NoPid /\ proc[child[c]] = target[c]
                      THEN Shot(child[c]) ELSE proc
          /\ Note({"stale"})
          /\ UNCHANGED local
    /\ UNCHANGED <<disk, lockf, budget>>

\* A service ends by itself and its pid is free again.
Die(p) ==
    /\ proc[p] # Nothing /\ budget.faults < MaxFaults
    /\ budget' = [budget EXCEPT !.faults = @ + 1]
    /\ proc' = [proc EXCEPT ![p] = Nothing]
    /\ Note({"stale"})
    /\ UNCHANGED <<disk, lockf, local>>

-----------------------------------------------------------------------------
CommandStep(c) ==
    \/ List(c) \/ Add(c) \/ RemoveFolder(c) \/ RemoveRecord(c) \/ Rename(c)
    \/ Stop(c) \/ Run(c) \/ Restart(c) \/ Fork(c) \/ ForkNoFolder(c)
    \/ StorePid(c) \/ Regroup(c) \/ Update(c) \/ Neglect(c) \/ StatusCut(c)
    \/ StatusPut(c) \/ Pulled(c) \/ PullFails(c)

SaveStep(c) == SaveNothing(c) \/ SaveTruncate(c) \/ SaveCopy(c)

Disturbance(c) ==
    SaveInterrupt(c) \/ Detach(c) \/ StatusInterrupt(c) \/ Kill(c) \/ RestartFaults(c)

Next ==
    \/ \E c \in Cli : Begin(c) \/ CommandStep(c) \/ SaveStep(c) \/ Disturbance(c)
    \/ \E p \in Pid : Die(p)

Spec == Init /\ [][Next]_vars

\* An invocation that has begun is scheduled, git ends, and the machine gives
\* every process its turn.  Nobody has to start, interrupt or kill anything.
FairSpec ==
    Spec /\ \A c \in Cli : WF_vars(CommandStep(c) \/ SaveStep(c))

-----------------------------------------------------------------------------
\* Properties.

Happenings == {"overlap", "killed", "signal", "double", "stale", "failed", "strike"}

TypeOK ==
    /\ file \in Seq(Cell) /\ backup \in Seq(Cell)
    /\ status \in Status /\ statusCopy \in Status
    /\ folder \subseteq Name
    /\ proc \in [Pid -> Repo \union {Nothing}]
    /\ pc \in [Cli -> PC] /\ command \in [Cli -> Command]
    /\ table \in [Cli -> Seq(Entry)]
    /\ target \in [Cli -> Repo \union {Nothing}]
    /\ child \in [Cli -> Pid \union {NoPid}]
    /\ budget \in [commands : Nat, faults : Nat]
    /\ happened \subseteq Happenings

Undisturbed(w) == happened \intersect w = {}

\* Process p of service r is named by the file or by a command at work.
Known(p, r) ==
    \/ \E i \in DOMAIN Visible(file) : file[i].repo = r /\ file[i].pid = p
    \/ \E c \in AtWork :
        \/ child[c] = p /\ target[c] = r
        \/ \E i \in DOMAIN table[c] :
            table[c][i].rec.repo = r /\ table[c][i].rec.pid = p

\* Every service process that runs can still be found and stopped, as long as
\* no command overlapped another, was killed or interrupted in its save, or
\* ran a service that was running (run_service.c:78, create_service.c:147).
NoProcessIsLost ==
    Undisturbed({"overlap", "killed", "signal", "double"}) =>
        \A p \in Pid : proc[p] # Nothing => Known(p, proc[p])

\* stop, restart, remove and update --stop never hit the process of another
\* service, unless a pid went stale: a service that died unnoticed, a refused
\* restart, a cgroup that failed (stop_service.c:144, restart_service.c:108).
KillsOnlyItsOwn ==
    Undisturbed({"overlap", "killed", "signal", "double", "stale"}) =>
        "strike" \notin happened

\* The projects file can be loaded, so that mrn still works at all, unless
\* commands overlapped, or one was killed or interrupted: in particular
\* rename, which asks nobody whether the new name is taken, never makes two
\* services of one name (rename_service.c:268, load_project.c:36).
NamesStayUnique ==
    Undisturbed({"overlap", "killed", "signal"}) => Loadable(file)

\* Whatever overlaps, "updating" is on disk only while somebody updates, or
\* after a failed pull, a kill or a SIGINT (update_service.c:34, :146).
UpdateLockHasOwner ==
    Updating =>
        StatusWriter # {} \/ ~Undisturbed({"failed", "killed", "signal"})

\* The update lock is given back whatever overlaps, or a pull failed, or a
\* command was killed or interrupted (update_service.c:160).
UpdateLockIsGivenBack ==
    Updating ~> (~Updating \/ ~Undisturbed({"failed", "killed", "signal"}))
=============================================================================
