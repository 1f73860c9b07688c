----------------------------- MODULE Resources -----------------------------
(***************************************************************************)
(* What an invocation of mrn keeps in step for a service: its record, its  *)
(* folder, its cgroup, its limit in the limits file and its variables in   *)
(* the env file.  One invocation at a time (Services and JobStore have     *)
(* those that overlap), but with several commands on its command line, one *)
(* exit by "return 1", and a destructor that saves one file after another. *)
(*                                                                         *)
(* A limit of 0 is one that was not given.  Of a service's variables one   *)
(* is kept.  Files hold records, not text: Texts has the text.  What a     *)
(* number of cores comes to is computed twice, in double for the cgroup    *)
(* and in float for the file, so that -cpu 0.29 is 28999 in the one and    *)
(* 29000 in the other.                                                     *)
(***************************************************************************)
EXTENDS Naturals, Sequences, FiniteSets

CONSTANTS
    Name, Repo,     \* service names and repositories
    Pid,            \* process ids the machine gives to services
    Mrn,            \* the process of the invocation itself
    NoPid,          \* pid 0: not running
    Nothing,        \* no service, no cgroup, no value
    Unlimited,      \* "max" in cpu.max or memory.max
    Cpu, Mem,       \* limits a user may ask for, other than 0: cores, bytes
    Quota,          \* what a number of cores comes to in a cgroup
    FileCpu,        \* what it comes to in the limits file
    TinyCpu,        \* those whose quota the kernel refuses: 999 for 0.01
    BigMem,         \* those of 2g and more, which an int cannot hold
    Value,          \* values of a variable
    Jobs,           \* tables of jobs
    InitialProjects, \* services earlier invocations may have left
    MaxInvocations, \* bound on the number of invocations
    MaxCommands,    \* bound on the commands of all of them
    MaxFaults       \* bound on SIGKILLs, power losses and services that end

Record == [name : Name, repo : Repo, pid : Pid \union {NoPid}]
Quotas   == {Quota[c] : c \in Cpu}
FileCpus == {FileCpu[c] : c \in Cpu}
Limit  == [name : Name, cpu : FileCpus \union {0}, mem : Mem \union {0}]
Kind   == {"standard", "custom", "extreme"}     \* set-limit --type
Who    == Pid \union {Mrn}

\* The cgroups: the limits of each, by name, and the one each process is in.
\* cgroup v1 has them in two hierarchies, cpu and memory.
Cgroups == [cpu : [Name -> Quotas \union {Unlimited, Nothing}],
            mem : [Name -> Mem \union {Unlimited, Nothing}],
            cpuOf : [Who -> Name \union {Nothing}],
            memOf : [Who -> Name \union {Nothing}]]

DistinctNames(t) == \A i, j \in DOMAIN t : i # j => t[i].name # t[j].name

\* loadServices aborts on a second name or repository.
DistinctRepos(t) == \A i, j \in DOMAIN t : i # j => t[i].repo # t[j].repo

ASSUME ResourcesAssumption ==
    /\ NoPid \notin Pid /\ Mrn \notin Pid
    /\ Nothing \notin Name \union Repo \union Value
    /\ {Nothing, Unlimited} \intersect (Quotas \union Mem) = {} /\ Unlimited # Nothing
    /\ Quota \in [Cpu -> Nat \ {0}] /\ FileCpu \in [Cpu -> Nat \ {0}]
    /\ 0 \notin Cpu /\ TinyCpu \subseteq Cpu
    /\ Mem \subseteq Nat \ {0} /\ BigMem \subseteq Mem
    /\ \A t \in InitialProjects :
          t \in Seq(Record) /\ DistinctNames(t) /\ DistinctRepos(t)
    /\ MaxInvocations \in Nat /\ MaxCommands \in Nat /\ MaxFaults \in Nat

VARIABLES
    projects, limits, env, jobs,    \* the files under data/
    folder,         \* whose clone is in each folder under /var/lib
    cgroup,         \* the control groups
    version,        \* cgroup v1 or v2
    proc,           \* which service runs under each pid
    pc,             \* where the invocation is
    services, limitTable, envTable, jobTable,   \* its arrays
    gone,           \* the arrays freed with their last entry: NULL since
    reformatState, reformatLimits,  \* what its destructor is to save
    applied,        \* history: it has applied a time shift
    budget,         \* invocations, commands and faults so far
    happened        \* history: which disturbances there have been

files   == <<projects, limits, env, jobs>>
machine == <<folder, cgroup, version, proc>>
tables  == <<services, limitTable, envTable, jobTable, gone>>
flags   == <<reformatState, reformatLimits, applied>>
vars    == <<files, machine, pc, tables, flags, budget, happened>>

PC == {"off", "main", "restore", "services", "jobs", "envs", "limits"}

Note(w) == happened' = happened \union w
Undisturbed(w) == happened \intersect w = {}

Has(t, n)   == \E i \in DOMAIN t : t[i].name = n
Index(t, n) == CHOOSE i \in DOMAIN t : t[i].name = n
Without(t, i) == SubSeq(t, 1, i - 1) \o SubSeq(t, i + 1, Len(t))

-----------------------------------------------------------------------------
\* The cgroups, as functions from cgroups to cgroups.

\* basic_v1_setup and basic_v2_setup: mkdir, unless it is there.
Setup(g, n) ==
    [g EXCEPT !.cpu[n] = IF @ = Nothing THEN Unlimited ELSE @,
              !.mem[n] = IF @ = Nothing THEN Unlimited ELSE @]

\* createProcessV1 moves a process in the cpu hierarchy only.
EnterCpu(g, n, p) == [g EXCEPT !.cpuOf[p] = n]
EnterMem(g, n, p) == [g EXCEPT !.memOf[p] = n]

\* Mutant: the process is not moved in the cpu hierarchy.
EnterWithoutCpu(g, n, p) == EnterMem(g, n, p)

\* createProcess, processCopy_n.
Enter(g, n, p) ==
    IF version = 2 THEN EnterMem(EnterCpu(g, n, p), n, p) ELSE EnterCpu(g, n, p)

\* A process that ends leaves its group; a new one starts in its parent's.
Leave(g, p) == [g EXCEPT !.cpuOf[p] = Nothing, !.memOf[p] = Nothing]
Inherit(g, p) ==
    [g EXCEPT !.cpuOf[p] = g.cpuOf[Mrn], !.memOf[p] = g.memOf[Mrn]]

Done(g)   == [ok |-> TRUE, g |-> g]
Failed(g) == [ok |-> FALSE, g |-> g]

\* memoryLimit and its two larger forms.  The standard type has the bytes in an
\* int: 2g and more are INT_MIN on x86, which the kernel refuses, and INT_MAX on
\* ARM, for which a member of BigMem stands.
MemoryLimit(g, n, mem, kind) ==
    {Done([g EXCEPT !.mem[n] = mem])}
        \union (IF kind = "standard" /\ mem \in BigMem THEN {Failed(g)} ELSE {})

\* limitMemory_v1 and its two larger forms: the process enters the memory
\* hierarchy first.
LimitMemory(g, n, p, mem, kind) ==
    MemoryLimit(IF version = 2 THEN g ELSE EnterMem(g, n, p), n, mem, kind)

\* limitMm and its two larger forms; a process that is gone cannot be moved.
LimitMm(g, n, p, mem, kind) ==
    IF proc[p] = Nothing THEN {Failed(Setup(g, n))}
    ELSE LimitMemory(Enter(Setup(g, n), n, p), n, p, mem, kind)

\* Their first half with -cpu: the process enters, cpu.max is written.
LimitCpu(g, n, p, cpu) == [Enter(Setup(g, n), n, p) EXCEPT !.cpu[n] = Quota[cpu]]

\* limitCpuAndMemory and its two larger forms.
LimitCpuAndMemory(g, n, p, cpu, mem, kind) ==
    IF proc[p] = Nothing THEN {Failed(Setup(g, n))}
    ELSE IF cpu \in TinyCpu THEN {Failed(Enter(Setup(g, n), n, p))}
    ELSE IF mem = 0 THEN {Done(LimitCpu(g, n, p, cpu))}
    ELSE LimitMemory(LimitCpu(g, n, p, cpu), n, p, mem, kind)

\* Mutant: the new cgroup has no limits.
RenameCgrpEmpty(g, old, new, p, busy) ==
    LET e == Enter(Setup(g, new), new, IF p = NoPid THEN Mrn ELSE p)
    IN  IF g.cpu[old] = Nothing THEN Done(g)
        ELSE Done([e EXCEPT !.cpu[old] = Nothing, !.mem[old] = Nothing])

\* renameCgrp.  No cgroup, nothing to do.  Pid 0 moves mrn itself.  On v1 the
\* copying ends at memory.max, which v1 does not have.  rmdir of the old one
\* fails while a process is in it; "busy" are the children of the service.
RenameCgrp(g, old, new, p, busy) ==
    LET who == IF p = NoPid THEN Mrn ELSE p
        e   == Enter(Setup(g, new), new, who)
        c   == [e EXCEPT !.cpu[new] = e.cpu[old], !.mem[new] = e.mem[old]]
    IN  IF g.cpu[old] = Nothing THEN Done(g)
        ELSE IF p # NoPid /\ proc[p] = Nothing THEN Failed(Setup(g, new))
        ELSE IF version = 1 THEN Done(e)
        ELSE IF busy \/ \E q \in Who : c.cpuOf[q] = old THEN Failed(c)
        ELSE Done([c EXCEPT !.cpu[old] = Nothing, !.mem[old] = Nothing])

\* A service whose process has children in the group with it.
MayBeBusy(p) == IF p # NoPid /\ proc[p] # Nothing THEN BOOLEAN ELSE {FALSE}

-----------------------------------------------------------------------------
\* The limit table.

\* Mutant: the two limits are swapped.
CreateLimitSwapped(t, n, cpu, mem) ==
    LET e == [name |-> n, cpu |-> mem, mem |-> cpu]
    IN  IF Has(t, n) THEN [t EXCEPT ![Index(t, n)] = e] ELSE Append(t, e)

\* createLimit overwrites or appends.
CreateLimit(t, n, cpu, mem) ==
    LET e == [name |-> n, cpu |-> cpu, mem |-> mem]
    IN  IF Has(t, n) THEN [t EXCEPT ![Index(t, n)] = e] ELSE Append(t, e)

\* Mutant: the entry stays.
RemoveLimitKeeps(t, n) == t

RemoveLimit(t, n) == IF Has(t, n) THEN Without(t, Index(t, n)) ELSE t

\* Mutant: the entry under the new name is a second one.
RenameLimitCopies(t, old, new) ==
    IF Has(t, old) THEN Append(t, [t[Index(t, old)] EXCEPT !.name = new]) ELSE t

RenameLimit(t, old, new) ==
    IF Has(t, old) THEN [t EXCEPT ![Index(t, old)].name = new] ELSE t

\* An array whose last entry goes is freed and NULL.
Emptied(was, t, array) ==
    IF was # <<>> /\ t = <<>> THEN gone \union {array} ELSE gone

-----------------------------------------------------------------------------
\* The invocation: constructor, end of main, destructor.

Init ==
    /\ projects \in InitialProjects
    /\ limits = <<>> /\ env = [n \in Name |-> Nothing] /\ jobs \in Jobs
    /\ folder = [n \in Name |-> IF Has(projects, n)
                                THEN projects[Index(projects, n)].repo ELSE Nothing]
    /\ cgroup = [cpu |-> [n \in Name |-> Nothing], mem |-> [n \in Name |-> Nothing],
                 cpuOf |-> [p \in Who |-> Nothing], memOf |-> [p \in Who |-> Nothing]]
    /\ version \in {1, 2}
    /\ proc = [p \in Pid |->
                 IF \E i \in DOMAIN projects : projects[i].pid = p
                 THEN projects[CHOOSE i \in DOMAIN projects : projects[i].pid = p].repo
                 ELSE Nothing]
    /\ pc = "off"
    /\ services = <<>> /\ limitTable = <<>> /\ jobTable = jobs
    /\ envTable = [n \in Name |-> Nothing]
    /\ gone = {} /\ reformatState = TRUE /\ reformatLimits = FALSE
    /\ applied = FALSE
    /\ budget = [invocations |-> 0, commands |-> 0, faults |-> 0]
    /\ happened = {}

\* init loads every file; loadLimit aborts it when two limits have one name.
Begin ==
    /\ pc = "off" /\ budget.invocations < MaxInvocations
    /\ DistinctNames(limits)
    /\ services' = projects /\ limitTable' = limits
    /\ envTable' = env /\ jobTable' = jobs
    /\ applied' = FALSE
    /\ pc' = "main"
    /\ budget' = [budget EXCEPT !.invocations = @ + 1]
    /\ UNCHANGED <<files, machine, gone, reformatState, reformatLimits, happened>>

Command ==
    /\ pc = "main" /\ budget.commands < MaxCommands
    /\ budget' = [budget EXCEPT !.commands = @ + 1]

\* The process ends; what it has not saved is lost.
Off ==
    /\ pc' = "off"
    /\ services' = <<>> /\ limitTable' = <<>> /\ jobTable' = jobs
    /\ envTable' = [n \in Name |-> Nothing]
    /\ gone' = {} /\ reformatState' = TRUE /\ reformatLimits' = FALSE

\* A store through a NULL array: SIGSEGV before the destructor.
Crash ==
    /\ Off
    /\ cgroup' = Leave(cgroup, Mrn)
    /\ budget' = [budget EXCEPT !.commands = @ + 1]
    /\ Note({"crashed"})
    /\ UNCHANGED <<files, folder, version, proc, applied>>

\* main has run out of arguments.
Return ==
    /\ pc = "main"
    /\ pc' = "services"
    /\ UNCHANGED <<files, machine, tables, flags, budget, happened>>

\* closeProcess.
SaveServices ==
    /\ pc = "services"
    /\ pc' = "jobs"
    /\ projects' = IF reformatState THEN services ELSE projects
    /\ UNCHANGED <<limits, env, jobs, machine, tables, flags, budget, happened>>

SaveJobs ==
    /\ pc = "jobs"
    /\ pc' = "envs"
    /\ jobs' = IF reformatState THEN jobTable ELSE jobs
    /\ UNCHANGED <<projects, limits, env, machine, tables, flags, budget, happened>>

\* saveEnvs asks for no flag.
SaveEnvs ==
    /\ pc = "envs"
    /\ pc' = "limits"
    /\ env' = envTable
    /\ UNCHANGED <<projects, limits, jobs, machine, tables, flags, budget, happened>>

SaveLimits ==
    /\ pc = "limits"
    /\ limits' = IF reformatLimits THEN limitTable ELSE limits
    /\ Off
    /\ cgroup' = Leave(cgroup, Mrn)
    /\ UNCHANGED <<projects, env, jobs, folder, version, proc, applied, budget,
                   happened>>

-----------------------------------------------------------------------------
\* add, remove, rename.

\* What comes after a time shift on the command line is not saved with it.
Late == IF reformatState THEN {} ELSE {"late"}

\* addProject.  After the last service was removed the array is NULL.
Add ==
    /\ Command /\ "services" \notin gone
    /\ \E n \in Name, r \in Repo :
        \/ /\ \E i \in DOMAIN services : services[i].name = n \/ services[i].repo = r
           /\ pc' = "services"
           /\ UNCHANGED <<folder, services>>
        \/ /\ \A i \in DOMAIN services : services[i].name # n /\ services[i].repo # r
           /\ folder[n] = Nothing
           /\ folder' = [folder EXCEPT ![n] = r]
           /\ services' = Append(services, [name |-> n, repo |-> r, pid |-> NoPid])
           /\ UNCHANGED pc
    /\ Note(Late)
    /\ UNCHANGED <<files, cgroup, version, proc, limitTable, envTable, jobTable,
                   gone, flags>>

AddToNothing ==
    /\ pc = "main" /\ budget.commands < MaxCommands
    /\ "services" \in gone
    /\ Crash

\* normalDeleteServices: folder, record, limit, process.  The cgroup and the
\* variables stay.
Remove ==
    /\ Command
    /\ \E i \in DOMAIN services :
        LET s == services[i]
            t == Without(services, i)
            l == RemoveLimit(limitTable, s.name)
        IN  /\ folder' = [folder EXCEPT ![s.name] = Nothing]
            /\ services' = t /\ limitTable' = l
            /\ gone' = Emptied(services, t, "services")
                         \union Emptied(limitTable, l, "limits")
            /\ proc' = IF s.pid = NoPid THEN proc ELSE [proc EXCEPT ![s.pid] = Nothing]
            /\ cgroup' = IF s.pid = NoPid THEN cgroup ELSE Leave(cgroup, s.pid)
    /\ reformatLimits' = TRUE
    /\ Note(Late)
    /\ UNCHANGED <<files, version, pc, envTable, jobTable, reformatState, applied>>

\* rename(2) of a folder: to itself, or to where nothing is.
MovesFolder(old, new) ==
    folder[old] # Nothing /\ (folder[new] = Nothing \/ new = old)

Moved(old, new) ==
    IF new = old THEN folder
    ELSE [folder EXCEPT ![new] = folder[old], ![old] = Nothing]

\* Mutant: the folder is not moved back when the cgroup or the limit fails.
RenameForgetsFolder ==
    /\ Command
    /\ \E i \in DOMAIN services, new \in Name, busy \in BOOLEAN :
        LET s   == services[i]
            res == RenameCgrp(cgroup, s.name, new, s.pid, busy)
        IN  /\ MovesFolder(s.name, new) /\ busy \in MayBeBusy(s.pid)
            /\ cgroup' = res.g
            /\ folder' = Moved(s.name, new)
            /\ IF res.ok /\ "limits" \notin gone
               THEN /\ services' = [services EXCEPT ![i].name = new]
                    /\ limitTable' = RenameLimit(limitTable, s.name, new)
                    /\ Note(Late \union (IF version = 1 /\ cgroup.cpu[s.name] # Nothing
                                          THEN {"lost"} ELSE {}))
               ELSE /\ Note({"undone"})
                    /\ UNCHANGED <<services, limitTable>>
    /\ reformatLimits' = TRUE
    /\ UNCHANGED <<files, version, proc, pc, envTable, jobTable, gone,
                   reformatState, applied>>

\* renameService: folder, cgroup, limit, record.  When the cgroup fails, or the
\* limit table is NULL, the folder is moved back and nothing else is.
Rename ==
    /\ Command
    /\ \E i \in DOMAIN services, new \in Name, busy \in BOOLEAN :
        LET s   == services[i]
            res == RenameCgrp(cgroup, s.name, new, s.pid, busy)
        IN  /\ MovesFolder(s.name, new) /\ busy \in MayBeBusy(s.pid)
            /\ cgroup' = res.g
            /\ IF res.ok /\ "limits" \notin gone
               THEN /\ folder' = Moved(s.name, new)
                    /\ services' = [services EXCEPT ![i].name = new]
                    /\ limitTable' = RenameLimit(limitTable, s.name, new)
                    /\ Note(Late \union (IF version = 1 /\ cgroup.cpu[s.name] # Nothing
                                          THEN {"lost"} ELSE {}))
               ELSE /\ Note({"undone"})
                    /\ UNCHANGED <<folder, services, limitTable>>
    /\ reformatLimits' = TRUE
    /\ UNCHANGED <<files, version, proc, pc, envTable, jobTable, gone,
                   reformatState, applied>>

\* rename or remove of what is not there, or cannot be moved.
NotThere ==
    /\ Command
    /\ reformatLimits' = TRUE
    /\ UNCHANGED <<files, machine, pc, tables, reformatState, applied, happened>>

-----------------------------------------------------------------------------
\* run, stop, restart.

\* A pid the table still has for a process that ended.
Reused(p) ==
    IF \E j \in DOMAIN services : services[j].pid = p THEN {"reused"} ELSE {}

\* A process of service i starts under pid p, with mrn for parent.
Spawn(i, p, g) ==
    /\ proc[p] = Nothing
    /\ services' = [services EXCEPT ![i].pid = p]
    /\ cgroup' = Inherit(g, p)
    /\ proc' = [proc EXCEPT ![p] = services[i].repo]

\* runService puts the new process in no cgroup.
Run ==
    /\ Command
    /\ \E i \in DOMAIN services, p \in Pid :
        /\ folder[services[i].name] # Nothing
        /\ Spawn(i, p, cgroup)
        /\ Note((IF Has(limitTable, services[i].name) THEN {"outside"} ELSE {})
                  \union Reused(p))
    /\ UNCHANGED <<files, folder, version, pc, limitTable, envTable, jobTable, gone,
                   flags>>

\* stopService: kill; then "0" into the cgroup.procs of the service moves mrn
\* itself there.
Stop ==
    /\ Command
    /\ \E i \in DOMAIN services :
        LET s == services[i] IN
        /\ s.pid # NoPid
        /\ proc' = [proc EXCEPT ![s.pid] = Nothing]
        /\ services' = [services EXCEPT ![i].pid = NoPid]
        /\ LET g == Leave(cgroup, s.pid) IN
            cgroup' = IF g.cpu[s.name] = Nothing THEN g
                      ELSE EnterMem(EnterCpu(g, s.name, Mrn), s.name, Mrn)
    /\ UNCHANGED <<files, folder, version, pc, limitTable, envTable, jobTable, gone,
                   flags, happened>>

\* restartService: kill, warmService, updateCgroup, which kills the new process
\* when there is no cgroup for it.  On v1 it reads a path it never wrote: the
\* process is killed, or mrn is.
Restart ==
    /\ Command
    /\ \E i \in DOMAIN services, p \in Pid :
        LET s    == services[i]
            left == IF s.pid = NoPid THEN cgroup ELSE Leave(cgroup, s.pid)
            dead == IF s.pid = NoPid THEN proc ELSE [proc EXCEPT ![s.pid] = Nothing]
        IN  /\ folder[s.name] # Nothing /\ dead[p] = Nothing
            /\ services' = [services EXCEPT ![i].pid = p]
            /\ Note(IF p = s.pid THEN {} ELSE Reused(p))
            /\ IF version = 2 /\ cgroup.cpu[s.name] # Nothing
               THEN /\ proc' = [dead EXCEPT ![p] = s.repo]
                    /\ cgroup' = Enter(left, s.name, p)
                    /\ UNCHANGED pc
               ELSE /\ proc' = dead
                    /\ cgroup' = left
                    /\ pc' = "services"
    /\ UNCHANGED <<files, folder, version, limitTable, envTable, jobTable, gone,
                   flags>>

RestartCrashes ==
    /\ pc = "main" /\ budget.commands < MaxCommands
    /\ version = 1 /\ services # <<>>
    /\ Crash

-----------------------------------------------------------------------------
\* set-limit.

\* What a set function returns, and the cgroups and limit table it leaves, when
\* its writes come to r.  A NULL limit table fails it after the cgroup is set.
Recorded(n, cpu, mem, r) ==
    LET ok == r.ok /\ "limits" \notin gone
    IN  [ok |-> ok, g |-> r.g,
         t |-> IF ok THEN CreateLimit(limitTable, n, cpu, mem) ELSE limitTable]

NotRunning == {[ok |-> TRUE, g |-> cgroup, t |-> limitTable]}

\* setMemoryLimit and its two larger forms.
SetMemoryLimit(s, mem, kind) ==
    IF s.pid = NoPid THEN NotRunning
    ELSE {Recorded(s.name, 0, mem, r) : r \in LimitMm(cgroup, s.name, s.pid, mem, kind)}

\* setCpuResourceLimit and its two larger forms.
SetCpuResourceLimit(s, cpu, mem, kind) ==
    IF s.pid = NoPid THEN NotRunning
    ELSE {Recorded(s.name, FileCpu[cpu], mem, r) :
             r \in LimitCpuAndMemory(cgroup, s.name, s.pid, cpu, mem, kind)}

\* Mutant: what is limited in cpu is never saved.
SavedAfterNone(cpu, kind, ok) == cpu = 0 /\ ok

\* main sets reformatLimits when a call succeeds; with -cpu and one of the two
\* larger types, when it fails.
SavedAfter(cpu, kind, ok) ==
    IF cpu # 0 /\ kind # "standard" THEN ~ok ELSE ok

\* The larger types are read only with -mem.
SetLimit ==
    /\ Command
    /\ \E i \in DOMAIN services, kind \in Kind,
          cpu \in Cpu \union {0}, mem \in Mem \union {0} :
        /\ cpu # 0 \/ mem # 0
        /\ kind # "standard" => mem # 0
        /\ \E r \in IF cpu = 0 THEN SetMemoryLimit(services[i], mem, kind)
                    ELSE SetCpuResourceLimit(services[i], cpu, mem, kind) :
            /\ cgroup' = r.g
            /\ limitTable' = r.t
            /\ pc' = IF r.ok THEN "main" ELSE "services"
            /\ reformatLimits' = (reformatLimits \/ SavedAfter(cpu, kind, r.ok))
            /\ Note((IF r.ok THEN {} ELSE {"partial"})
                      \union (IF r.ok /\ cpu # 0 /\ kind # "standard"
                              THEN {"unsaved"} ELSE {}))
    /\ UNCHANGED <<files, folder, version, proc, services, envTable, jobTable, gone,
                   reformatState, applied>>

\* With no such service the -cpu forms fail; the others run off their end and
\* return what is in the register.
SetLimitOfNobody ==
    /\ Command
    /\ \E kind \in Kind, cpu \in Cpu \union {0}, ok \in BOOLEAN :
        /\ cpu # 0 => ~ok
        /\ pc' = IF ok THEN "main" ELSE "services"
        /\ reformatLimits' = (reformatLimits \/ SavedAfter(cpu, kind, ok))
    /\ UNCHANGED <<files, machine, tables, reformatState, applied, happened>>

-----------------------------------------------------------------------------
\* add-env, update-env, remove-env: of any name, whether a service has it or not.

\* addEnv: what is there stays.
AddEnv ==
    /\ Command /\ "envs" \notin gone
    /\ \E n \in Name, v \in Value :
        envTable' = [envTable EXCEPT ![n] = IF @ = Nothing THEN v ELSE @]
    /\ UNCHANGED <<files, machine, pc, services, limitTable, jobTable, gone, flags,
                   happened>>

\* removeEnv of the last one makes the array NULL, and an addEnv after it
\* stores through it.
AddEnvToNothing ==
    /\ pc = "main" /\ budget.commands < MaxCommands
    /\ "envs" \in gone
    /\ Crash

UpdateEnv ==
    /\ Command
    /\ \E n \in Name, v \in Value :
        /\ envTable[n] # Nothing
        /\ envTable' = [envTable EXCEPT ![n] = v]
    /\ UNCHANGED <<files, machine, pc, services, limitTable, jobTable, gone, flags,
                   happened>>

RemoveEnv ==
    /\ Command
    /\ \E n \in Name :
        /\ envTable[n] # Nothing
        /\ envTable' = [envTable EXCEPT ![n] = Nothing]
        /\ gone' = IF \A m \in Name \ {n} : envTable[m] = Nothing
                   THEN gone \union {"envs"} ELSE gone
    /\ UNCHANGED <<files, machine, pc, services, limitTable, jobTable, flags, happened>>

\* return 1 with nothing changed: update-env and remove-env of a variable that
\* is not there, a limit of 0, a missing operand.
Refuse ==
    /\ Command
    /\ pc' = "services"
    /\ UNCHANGED <<files, machine, tables, flags, happened>>

\* add-job and remove-job, as JobStore has them.
EditJobs ==
    /\ Command
    /\ jobTable' \in Jobs
    /\ UNCHANGED <<files, machine, pc, services, limitTable, envTable, gone, flags,
                   happened>>

-----------------------------------------------------------------------------
\* Faults.

\* The invocation is killed where it is.
Kill ==
    /\ pc # "off" /\ budget.faults < MaxFaults
    /\ Off
    /\ cgroup' = Leave(cgroup, Mrn)
    /\ budget' = [budget EXCEPT !.faults = @ + 1]
    /\ Note({"killed"})
    /\ UNCHANGED <<files, folder, version, proc, applied>>

\* A service ends by itself.
Die(p) ==
    /\ proc[p] # Nothing /\ budget.faults < MaxFaults
    /\ proc' = [proc EXCEPT ![p] = Nothing]
    /\ cgroup' = Leave(cgroup, p)
    /\ budget' = [budget EXCEPT !.faults = @ + 1]
    /\ UNCHANGED <<files, folder, version, pc, tables, flags, happened>>

-----------------------------------------------------------------------------
CommandStep ==
    \/ Add \/ AddToNothing \/ Remove \/ Rename \/ NotThere
    \/ Run \/ Stop \/ Restart \/ RestartCrashes
    \/ SetLimit \/ SetLimitOfNobody
    \/ AddEnv \/ AddEnvToNothing \/ UpdateEnv \/ RemoveEnv \/ Refuse
    \/ EditJobs

Destructor == Return \/ SaveServices \/ SaveJobs \/ SaveEnvs \/ SaveLimits

Next == Begin \/ CommandStep \/ Destructor \/ Kill \/ \E p \in Pid : Die(p)

Spec == Init /\ [][Next]_vars

-----------------------------------------------------------------------------
\* Properties.

AtRest == pc = "off"

Happenings == {"killed", "crashed", "partial", "unsaved", "undone", "lost",
               "outside", "shifted", "clash", "revived", "late", "reused"}

TypeOK ==
    /\ projects \in Seq(Record) /\ services \in Seq(Record)
    /\ limits \in Seq(Limit) /\ limitTable \in Seq(Limit)
    /\ env \in [Name -> Value \union {Nothing}]
    /\ envTable \in [Name -> Value \union {Nothing}]
    /\ jobs \in Jobs /\ jobTable \in Jobs
    /\ folder \in [Name -> Repo \union {Nothing}]
    /\ cgroup \in Cgroups
    /\ version \in {1, 2}
    /\ proc \in [Pid -> Repo \union {Nothing}]
    /\ pc \in PC
    /\ gone \subseteq {"services", "limits", "envs"}
    /\ reformatState \in BOOLEAN /\ reformatLimits \in BOOLEAN /\ applied \in BOOLEAN
    /\ budget \in [invocations : Nat, commands : Nat, faults : Nat]
    /\ happened \subseteq Happenings

\* No sequence of commands gives two limits one name, after which init aborts
\* every later invocation, unless one was killed or crashed between its folder
\* moves and its saves, or a time shift took names back, which the limits file
\* does not follow (load_limit.c:18, rename_limit.c:11, main.c:303).
LimitsStayLoadable ==
    Undisturbed({"killed", "crashed", "shifted"}) => DistinctNames(limits)

\* A limit in the file belongs to a service: remove and rename keep the two
\* files in step through two saves and every early return.
LimitsHaveServices ==
    AtRest /\ Undisturbed({"killed", "crashed", "shifted"}) =>
        \A i \in DOMAIN limits : Has(projects, limits[i].name)

\* What a command changed in the arrays of limits, variables and jobs is in the
\* files when the invocation ends, whatever came after it on the command line,
\* except a limit set with -cpu and --type custom or extreme (main.c:399), and
\* what a crash or a kill took.
ChangesReachDisk ==
    [][pc = "limits" /\ AtRest' /\ budget'.faults = budget.faults =>
          /\ env' = envTable
          /\ applied \/ jobs' = jobTable
          /\ Undisturbed({"unsaved"}) => limits' = limitTable]_vars

\* What the file and the cgroup have for one number of cores.
OfOneAmount(f, q) == \E c \in Cpu : f = FileCpu[c] /\ q = Quota[c]

\* The limits the file has and those of the cgroup are what was asked for, the
\* cores in the conversion of each, unless an invocation was killed, a write to
\* the cgroup or an undo failed half way, a limit was not saved, v1 lost it in
\* a rename, or a time shift took names back (cpu_limit.c:56, :59,
\* rename_service.c:289).
LimitsAreEnforced ==
    AtRest /\ Undisturbed({"killed", "crashed", "partial", "undone", "unsaved",
                            "lost", "shifted"}) =>
        \A i \in DOMAIN limits :
            LET l == limits[i] IN
            /\ l.cpu # 0 => OfOneAmount(l.cpu, cgroup.cpu[l.name])
            /\ l.mem # 0 => cgroup.mem[l.name] = l.mem

\* The process of a service with a limit is in the cgroup of that name, unless
\* one of those things happened, or the service was started again with run,
\* which asks for no cgroup (run_service.c:174), or its pid was given to another
\* while the table still had it (stop_service.c:32).
LimitedProcessIsInside ==
    AtRest /\ Undisturbed({"killed", "crashed", "partial", "undone", "unsaved",
                            "lost", "shifted", "outside", "reused"}) =>
        \A i \in DOMAIN limits, j \in DOMAIN projects :
            LET p == projects[j].pid IN
            (projects[j].name = limits[i].name /\ p # NoPid
               /\ proc[p] = projects[j].repo) =>
                /\ limits[i].cpu # 0 => cgroup.cpuOf[p] = projects[j].name
                /\ limits[i].mem # 0 => cgroup.memOf[p] = projects[j].name

\* Every service in the file has its own clone in the folder of its name,
\* through adds, removes, renames and time shifts, unless an invocation was
\* killed or crashed, or a time shift met a name that is now another's, or a
\* service that is gone, or other commands came after it on the command line
\* (rename_service.c:284, apply_time_shift.c:289, main.c:591).
FoldersFollow ==
    AtRest /\ Undisturbed({"killed", "crashed", "clash", "revived", "late"}) =>
        \A i \in DOMAIN projects : folder[projects[i].name] = projects[i].repo
=============================================================================
