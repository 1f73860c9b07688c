----------------------------- MODULE TimeShift -----------------------------
(***************************************************************************)
(* mrn time-shift create and apply, beside every command of Resources: a   *)
(* second set of the files, made and taken back file by file, and the      *)
(* folders and cgroups moved to the names the old file has.                *)
(***************************************************************************)
EXTENDS Resources

CONSTANT NoJobs     \* the table of jobs that is empty

ASSUME NoJobsAssumption == NoJobs \in Jobs

VARIABLES
    shift,      \* the copies under backup/: those of projects, jobs and env
    restoring   \* how many files applyTimeShift has copied back

shifted == <<shift, restoring>>
allVars == <<vars, shifted>>

\* The files in the order in which they are copied; the files of the job
\* daemon and its limits come before these, the update status between
\* projects and env, and limits is not among them.
Order == <<"jobs", "projects", "env">>

NoEnv == [n \in Name |-> Nothing]

\* doBackup: an empty source leaves the destination alone, in both directions.
CopyOver(source, destination, empty) ==
    IF source = empty THEN destination ELSE source

\* backup/ is empty until the first create.
ShiftInit ==
    /\ Init
    /\ shift = [jobs |-> NoJobs, projects |-> <<>>, env |-> NoEnv]
    /\ restoring = 0

\* createTimeShift copies what is on disk, not what this invocation changed.
Create ==
    /\ Command
    /\ shift' = [jobs |-> CopyOver(jobs, shift.jobs, NoJobs),
                 projects |-> CopyOver(projects, shift.projects, <<>>),
                 env |-> CopyOver(env, shift.env, NoEnv)]
    /\ UNCHANGED <<files, machine, pc, tables, flags, happened, restoring>>

\* applyTimeShift up to its first copy.
Apply ==
    /\ Command
    /\ pc' = "restore" /\ restoring' = 0
    /\ UNCHANGED <<files, machine, tables, flags, happened, shift>>

\* One more file is copied back; a failed copy aborts, which is Kill.
Restore ==
    /\ pc = "restore" /\ restoring < Len(Order)
    /\ restoring' = restoring + 1
    /\ LET f == Order[restoring + 1] IN
        /\ jobs' = IF f = "jobs" THEN CopyOver(shift.jobs, jobs, NoJobs) ELSE jobs
        /\ projects' = IF f = "projects"
                       THEN CopyOver(shift.projects, projects, <<>>) ELSE projects
        /\ env' = IF f = "env" THEN CopyOver(shift.env, env, NoEnv) ELSE env
    /\ UNCHANGED <<limits, machine, pc, tables, flags, budget, happened, shift>>

\* The service of the array with the repository of an old one, under another name.
Renamed(s) ==
    {i \in DOMAIN services : services[i].repo = s.repo /\ services[i].name # s.name}

\* One service of the file: its folder is moved to the name the file has, and
\* its cgroup, by the pid the file has; a failure is printed.
FollowName(m, s) ==
    IF Renamed(s) = {} THEN m
    ELSE LET old == services[CHOOSE i \in Renamed(s) : TRUE].name
             free == m.folder[old] # Nothing /\ m.folder[s.name] = Nothing
         IN  [folder |-> IF ~free THEN m.folder
                         ELSE [m.folder EXCEPT ![s.name] = m.folder[old],
                                               ![old] = Nothing],
              cgroup |-> RenameCgrp(m.cgroup, old, s.name, s.pid, FALSE).g]

\* All of them, in the order of the file.
FollowNames(m, t) ==
    LET after[i \in 0..Len(t)] ==
          IF i = 0 THEN m ELSE FollowName(after[i - 1], t[i])
    IN  after[Len(t)]

\* Mutant: the flag stays as it was.
AppliedKeepsState ==
    /\ pc = "restore" /\ restoring = Len(Order)
    /\ LET m == FollowNames([folder |-> folder, cgroup |-> cgroup], projects) IN
        /\ folder' = m.folder
        /\ cgroup' = m.cgroup
    /\ applied' = TRUE
    /\ pc' = "main"
    /\ Note({"shifted"})
    /\ UNCHANGED <<files, version, proc, tables, reformatState, reformatLimits,
                   budget, shifted>>

\* The rest of applyTimeShift: the names, and no save of the old tables, but
\* that of the variables.
Applied ==
    /\ pc = "restore" /\ restoring = Len(Order)
    /\ LET m == FollowNames([folder |-> folder, cgroup |-> cgroup], projects) IN
        /\ folder' = m.folder
        /\ cgroup' = m.cgroup
    /\ reformatState' = FALSE /\ applied' = TRUE
    /\ pc' = "main"
    /\ Note({"shifted"}
        \union (IF \E i \in DOMAIN projects, j \in DOMAIN services :
                      /\ services[j].name = projects[i].name
                      /\ services[j].repo # projects[i].repo
                THEN {"clash"} ELSE {})
        \union (IF \E i \in DOMAIN projects : \A j \in DOMAIN services :
                      services[j].repo # projects[i].repo
                THEN {"revived"} ELSE {}))
    /\ UNCHANGED <<files, version, proc, tables, reformatLimits, budget, shifted>>

ShiftNext ==
    \/ Next /\ UNCHANGED shifted
    \/ Create \/ Apply \/ Restore \/ Applied

ShiftSpec == ShiftInit /\ [][ShiftNext]_allVars

-----------------------------------------------------------------------------
\* Properties.

ShiftTypeOK ==
    /\ TypeOK
    /\ shift \in [jobs : Jobs, projects : Seq(Record),
                  env : [Name -> Value \union {Nothing}]]
    /\ restoring \in 0..Len(Order)

\* When an invocation that applied the time shift has ended, the services and
\* jobs on disk are those of the shift, each if it has any, for an empty copy
\* leaves the file as it was (base.c:62): its destructor, which still has the
\* tables of before, writes neither back (main.c:591, :151).  The variables
\* are not: saveEnvs asks for no flag.
ShiftIsApplied ==
    AtRest /\ applied =>
        /\ jobs = CopyOver(shift.jobs, jobs, NoJobs)
        /\ projects = CopyOver(shift.projects, projects, <<>>)
=============================================================================
