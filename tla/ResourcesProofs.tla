--------------------------- MODULE ResourcesProofs ---------------------------
(***************************************************************************)
(* Proofs about Resources, for every set of names, repositories, pids and  *)
(* limits and any number of invocations and commands: the limits file can  *)
(* be loaded and has no limit without a service; types; and what the steps *)
(* keep of the limits in the cgroups and of the processes inside them,     *)
(* which TimeShiftProofs takes up with the steps of a time shift.          *)
(***************************************************************************)
EXTENDS Resources, TLAPS

Names(t) == {t[i].name : i \in DOMAIN t}

Quiet == Undisturbed({"killed", "crashed", "shifted"})

\* The names that have a folder: rename asks nothing but whether there is one.
Taken == {n \in Name : folder[n] # Nothing}

\* A table of services whose folders are there, and limits that belong to it.
Sound(t) ==
    t \in Seq(Record) /\ DistinctNames(t) /\ Names(t) \subseteq Taken
SoundLimits(l, t) ==
    l \in Seq(Limit) /\ DistinctNames(l) /\ Names(l) \subseteq Names(t)

Scalars ==
    /\ pc \in PC /\ reformatLimits \in BOOLEAN /\ reformatState = TRUE
    /\ folder \in [Name -> Repo \union {Nothing}]
    /\ limits \in Seq(Limit) /\ DistinctNames(limits)
OnDisk ==
    pc = "off" => Sound(projects) /\ SoundLimits(limits, projects)
InArrays ==
    pc # "off" =>
        /\ Sound(services) /\ SoundLimits(limitTable, services)
        /\ ~reformatLimits => Names(limits) \subseteq Names(services)
Saved == pc \in {"jobs", "envs", "limits"} => projects = services

TablesInv == Quiet => Scalars /\ OnDisk /\ InArrays /\ Saved

-----------------------------------------------------------------------------
\* Tables.

LEMMA AppendTable ==
  ASSUME NEW S, NEW t \in Seq(S), NEW e \in S, DistinctNames(t), e.name \notin Names(t)
  PROVE  /\ Append(t, e) \in Seq(S) /\ DistinctNames(Append(t, e))
         /\ Names(Append(t, e)) = Names(t) \union {e.name}
<1> DEFINE u == Append(t, e)
<1>1. /\ Len(t) \in Nat /\ DOMAIN t = 1..Len(t) /\ DOMAIN u = 1..(Len(t) + 1)
      /\ u \in Seq(S) /\ u[Len(t) + 1] = e /\ \A k \in 1..Len(t) : u[k] = t[k]
  OBVIOUS
<1> HIDE DEF u
<1>2. \A k \in DOMAIN u : (k \in DOMAIN t /\ u[k] = t[k]) \/ (k = Len(t) + 1 /\ u[k] = e)
  BY <1>1
<1>3. \A k \in DOMAIN t : k \in DOMAIN u
  BY <1>1
<1>4. Len(t) + 1 \in DOMAIN u
  BY <1>1
<1>5. DistinctNames(u)
  BY <1>2 DEF DistinctNames, Names
<1>6. Names(u) = Names(t) \union {e.name}
  BY <1>1, <1>2, <1>3, <1>4 DEF Names
<1>. QED BY <1>1, <1>5, <1>6 DEF u

\* The second part of a concatenation.
LEMMA ConcatRight ==
  ASSUME NEW S, NEW x \in Seq(S), NEW y \in Seq(S), NEW m \in 1..(Len(x) + Len(y)),
         m > Len(x)
  PROVE  (x \o y)[m] = y[m - Len(x)]
<1>1. Len(x) \in Nat /\ Len(y) \in Nat /\ m \in Nat /\ m >= 1
  OBVIOUS
<1>. QED BY <1>1

\* The shift that takes an entry out of an array: every place has an entry of
\* another place of before, and none of those is lost.
Before(i, k) == IF k < i THEN k ELSE k + 1

LEMMA WithoutEntries ==
  ASSUME NEW S, NEW t \in Seq(S), NEW i \in DOMAIN t
  PROVE  /\ Without(t, i) \in Seq(S)
         /\ \A k \in DOMAIN Without(t, i) :
              Before(i, k) \in DOMAIN t \ {i} /\ Without(t, i)[k] = t[Before(i, k)]
         /\ \A k, l \in DOMAIN Without(t, i) : k # l => Before(i, k) # Before(i, l)
         /\ \A m \in DOMAIN t \ {i} : \E k \in DOMAIN Without(t, i) : Without(t, i)[k] = t[m]
<1> DEFINE u == Without(t, i)
<1>1. Len(t) \in Nat /\ DOMAIN t = 1..Len(t) /\ i \in 1..Len(t)
  OBVIOUS
<1>2. /\ SubSeq(t, 1, i - 1) \in Seq(S) /\ Len(SubSeq(t, 1, i - 1)) = i - 1
      /\ \A k \in 1..(i - 1) : SubSeq(t, 1, i - 1)[k] = t[k]
  BY <1>1
<1>3. /\ SubSeq(t, i + 1, Len(t)) \in Seq(S) /\ Len(SubSeq(t, i + 1, Len(t))) = Len(t) - i
      /\ \A k \in 1..(Len(t) - i) : SubSeq(t, i + 1, Len(t))[k] = t[k + i]
  BY <1>1
<1>4. /\ u \in Seq(S) /\ DOMAIN u = 1..(Len(t) - 1)
      /\ \A k \in 1..(Len(t) - 1) : u[k] = IF k < i THEN t[k] ELSE t[k + 1]
  <2> DEFINE a == SubSeq(t, 1, i - 1)
             b == SubSeq(t, i + 1, Len(t))
  <2>1. u = a \o b
    BY DEF Without
  <2>2. a \in Seq(S) /\ Len(a) = i - 1 /\ \A k \in 1..(i - 1) : a[k] = t[k]
    BY <1>2
  <2>3. b \in Seq(S) /\ Len(b) = Len(t) - i /\ \A k \in 1..(Len(t) - i) : b[k] = t[k + i]
    BY <1>3
  <2> HIDE DEF a, b, u
  <2>4. u \in Seq(S) /\ Len(u) = Len(t) - 1 /\ DOMAIN u = 1..(Len(t) - 1)
    <3>1. Len(a) + Len(b) = Len(t) - 1
      BY <1>1, <2>2, <2>3
    <3>2. u \in Seq(S) /\ Len(u) = Len(a) + Len(b)
      BY <2>1, <2>2, <2>3
    <3>3. Len(u) = Len(t) - 1
      BY <3>1, <3>2
    <3>. QED BY <3>2, <3>3
  <2>5. ASSUME NEW k \in 1..(Len(t) - 1) PROVE u[k] = IF k < i THEN t[k] ELSE t[k + 1]
    <3>1. CASE k < i
      <4>1. k \in 1..Len(a)
        BY <1>1, <2>2, <3>1
      <4>2. u[k] = a[k]
        BY <2>1, <2>2, <2>3, <4>1
      <4>. QED BY <1>1, <2>2, <3>1, <4>1, <4>2
    <3>2. CASE ~(k < i)
      <4>1. k - (i - 1) \in 1..(Len(t) - i) /\ k - (i - 1) + i = k + 1
        BY <1>1, <3>2
      <4>2. k \in 1..(Len(a) + Len(b)) /\ k > Len(a) /\ k - Len(a) = k - (i - 1)
        BY <1>1, <2>2, <2>3, <3>2
      <4>3. u[k] = b[k - Len(a)]
        BY <2>1, <2>2, <2>3, <4>2, ConcatRight
      <4>. QED BY <2>3, <3>2, <4>1, <4>2, <4>3
    <3>. QED BY <3>1, <3>2
  <2>. QED BY <2>4, <2>5
<1> HIDE DEF u
<1>5. \A k \in DOMAIN u : u[k] = t[Before(i, k)]
  BY <1>4 DEF Before
<1>6. \A k \in DOMAIN u : Before(i, k) \in DOMAIN t \ {i}
  BY <1>1, <1>4 DEF Before
<1>7. \A k, l \in DOMAIN u : k # l =>
        Before(i, k) # Before(i, l)
  BY <1>1, <1>4 DEF Before
<1>8. \A m \in DOMAIN t \ {i} : \E k \in DOMAIN u : u[k] = t[m]
  <2>. SUFFICES ASSUME NEW m \in DOMAIN t \ {i} PROVE \E k \in DOMAIN u : u[k] = t[m]
    OBVIOUS
  <2>1. CASE m < i
    BY <1>1, <1>4, <2>1
  <2>2. CASE ~(m < i)
    <3>1. m - 1 \in DOMAIN u /\ ~(m - 1 < i) /\ (m - 1) + 1 = m
      BY <1>1, <1>4, <2>2
    <3>. QED BY <1>5, <3>1 DEF Before
  <2>. QED BY <2>1, <2>2
<1>. QED BY <1>4, <1>5, <1>6, <1>7, <1>8 DEF u

LEMMA WithoutTable ==
  ASSUME NEW S, NEW t \in Seq(S), NEW i \in DOMAIN t, DistinctNames(t)
  PROVE  /\ Without(t, i) \in Seq(S) /\ DistinctNames(Without(t, i))
         /\ Names(Without(t, i)) = Names(t) \ {t[i].name}
<1>1. PICK u : u = Without(t, i)
  OBVIOUS
<1>2. /\ u \in Seq(S)
      /\ \A k \in DOMAIN u : Before(i, k) \in DOMAIN t \ {i} /\ u[k] = t[Before(i, k)]
      /\ \A k, l \in DOMAIN u : k # l => Before(i, k) # Before(i, l)
      /\ \A m \in DOMAIN t \ {i} : \E k \in DOMAIN u : u[k] = t[m]
  BY <1>1, WithoutEntries
<1>3. DistinctNames(u)
  <2>. SUFFICES ASSUME NEW k \in DOMAIN u, NEW l \in DOMAIN u, k # l
                PROVE  u[k].name # u[l].name
    BY DEF DistinctNames
  <2>1. t[Before(i, k)].name # t[Before(i, l)].name
    BY <1>2 DEF DistinctNames
  <2>. QED BY <1>2, <2>1
<1>4. ASSUME NEW k \in DOMAIN u PROVE u[k].name \in Names(t) \ {t[i].name}
  <2>1. Before(i, k) \in DOMAIN t \ {i} /\ u[k] = t[Before(i, k)]
    BY <1>2
  <2>. QED BY <2>1 DEF Names, DistinctNames
<1>5. ASSUME NEW m \in DOMAIN t, t[m].name # t[i].name PROVE t[m].name \in Names(u)
  <2>1. PICK k \in DOMAIN u : u[k] = t[m]
    BY <1>2, <1>5
  <2>. QED BY <2>1 DEF Names
<1>6. Names(u) = Names(t) \ {t[i].name}
  <2>1. Names(u) \subseteq Names(t) \ {t[i].name}
    BY <1>4 DEF Names
  <2>2. \A x \in Names(t) \ {t[i].name} : x \in Names(u)
    BY <1>5 DEF Names
  <2>. QED BY <2>1, <2>2
<1>. QED BY <1>1, <1>2, <1>3, <1>6

Put(t, i, e) == [t EXCEPT ![i] = e]

LEMMA ReplaceTable ==
  ASSUME NEW S, NEW t \in Seq(S), NEW i \in DOMAIN t, NEW e \in S, DistinctNames(t),
         e.name \notin Names(t) \ {t[i].name}
  PROVE  /\ Put(t, i, e) \in Seq(S) /\ DistinctNames(Put(t, i, e))
         /\ Names(Put(t, i, e)) = (Names(t) \ {t[i].name}) \union {e.name}
<1> DEFINE u == Put(t, i, e)
<1>1. u \in Seq(S) /\ DOMAIN u = DOMAIN t /\ u[i] = e
      /\ \A k \in DOMAIN t \ {i} : u[k] = t[k]
  BY DEF Put
<1> HIDE DEF u
<1>2. \A k \in DOMAIN t \ {i} : t[k].name # t[i].name /\ t[k].name \in Names(t)
  BY DEF DistinctNames, Names
<1>3. DistinctNames(u)
  BY <1>1, <1>2 DEF DistinctNames
<1>4. Names(u) = (Names(t) \ {t[i].name}) \union {e.name}
  BY <1>1, <1>2 DEF Names
<1>. QED BY <1>1, <1>3, <1>4 DEF u

LEMMA HasIndex ==
  ASSUME NEW t, NEW n
  PROVE  /\ Has(t, n) <=> n \in Names(t)
         /\ Has(t, n) => Index(t, n) \in DOMAIN t /\ t[Index(t, n)].name = n
  BY DEF Has, Names, Index

\* createLimit makes no second limit of a name.
LEMMA CreateLimitTable ==
  ASSUME NEW t \in Seq(Limit), DistinctNames(t), NEW n \in Name,
         NEW cpu \in FileCpus \union {0}, NEW mem \in Mem \union {0}
  PROVE  /\ CreateLimit(t, n, cpu, mem) \in Seq(Limit)
         /\ DistinctNames(CreateLimit(t, n, cpu, mem))
         /\ Names(CreateLimit(t, n, cpu, mem)) = Names(t) \union {n}
<1> DEFINE e == [name |-> n, cpu |-> cpu, mem |-> mem]
<1>1. e \in Limit /\ e.name = n
  BY DEF Limit
<1>2. CreateLimit(t, n, cpu, mem) =
        IF Has(t, n) THEN Put(t, Index(t, n), e) ELSE Append(t, e)
  BY DEF CreateLimit, Put
<1> HIDE DEF e
<1>3. CASE Has(t, n)
  <2>1. Index(t, n) \in DOMAIN t /\ t[Index(t, n)].name = n /\ n \in Names(t)
    BY <1>3, HasIndex
  <2>. QED BY <1>1, <1>2, <1>3, <2>1, ReplaceTable
<1>4. CASE ~Has(t, n)
  BY <1>1, <1>2, <1>4, HasIndex, AppendTable
<1>. QED BY <1>3, <1>4

LEMMA RemoveLimitTable ==
  ASSUME NEW t \in Seq(Limit), DistinctNames(t), NEW n
  PROVE  /\ RemoveLimit(t, n) \in Seq(Limit) /\ DistinctNames(RemoveLimit(t, n))
         /\ Names(RemoveLimit(t, n)) = Names(t) \ {n}
<1>1. CASE Has(t, n)
  <2>1. Index(t, n) \in DOMAIN t /\ t[Index(t, n)].name = n
    BY <1>1, HasIndex
  <2>2. RemoveLimit(t, n) = Without(t, Index(t, n))
    BY <1>1 DEF RemoveLimit
  <2>. QED BY <2>1, <2>2, WithoutTable
<1>2. CASE ~Has(t, n)
  BY <1>2, HasIndex DEF RemoveLimit
<1>. QED BY <1>1, <1>2

LEMMA RenameLimitTable ==
  ASSUME NEW t \in Seq(Limit), DistinctNames(t), NEW old, NEW new \in Name,
         new \notin Names(t) \ {old}
  PROVE  /\ RenameLimit(t, old, new) \in Seq(Limit) /\ DistinctNames(RenameLimit(t, old, new))
         /\ Names(RenameLimit(t, old, new)) \subseteq (Names(t) \ {old}) \union {new}
<1>1. CASE Has(t, old)
  <2> DEFINE i == Index(t, old)
             e == [t[i] EXCEPT !.name = new]
  <2>1. i \in DOMAIN t /\ t[i].name = old
    BY <1>1, HasIndex
  <2>2. t[i] \in Limit
    BY <2>1
  <2>3. e \in Limit /\ e.name = new
    BY <2>2 DEF Limit
  <2>4. RenameLimit(t, old, new) = Put(t, i, e)
    BY <1>1, <2>1 DEF RenameLimit, Put
  <2> HIDE DEF i, e
  <2>. QED BY <2>1, <2>3, <2>4, ReplaceTable
<1>2. CASE ~Has(t, old)
  BY <1>2, HasIndex DEF RenameLimit
<1>. QED BY <1>1, <1>2

\* A pid stored in the array, and a new name.
LEMMA PidTable ==
  ASSUME NEW t \in Seq(Record), NEW i \in DOMAIN t, DistinctNames(t),
         NEW p \in Pid \union {NoPid}
  PROVE  /\ [t EXCEPT ![i].pid = p] \in Seq(Record)
         /\ DistinctNames([t EXCEPT ![i].pid = p])
         /\ Names([t EXCEPT ![i].pid = p]) = Names(t)
<1> DEFINE e == [t[i] EXCEPT !.pid = p]
<1>1. t[i] \in Record /\ t[i].name \in Names(t)
  BY DEF Names
<1>2. e \in Record /\ e.name = t[i].name
  BY <1>1 DEF Record
<1>3. [t EXCEPT ![i].pid = p] = Put(t, i, e)
  BY DEF Put
<1> HIDE DEF e
<1>4. /\ Put(t, i, e) \in Seq(Record) /\ DistinctNames(Put(t, i, e))
      /\ Names(Put(t, i, e)) = (Names(t) \ {t[i].name}) \union {t[i].name}
  BY <1>2, ReplaceTable
<1>5. (Names(t) \ {t[i].name}) \union {t[i].name} = Names(t)
  BY <1>1
<1>. QED BY <1>3, <1>4, <1>5, Zenon

LEMMA NameTable ==
  ASSUME NEW t \in Seq(Record), NEW i \in DOMAIN t, DistinctNames(t), NEW new \in Name,
         new \notin Names(t) \ {t[i].name}
  PROVE  /\ [t EXCEPT ![i].name = new] \in Seq(Record)
         /\ DistinctNames([t EXCEPT ![i].name = new])
         /\ \A x : x \in Names([t EXCEPT ![i].name = new])
                  <=> x = new \/ (x \in Names(t) /\ x # t[i].name)
<1> DEFINE e == [t[i] EXCEPT !.name = new]
<1>1. t[i] \in Record
  OBVIOUS
<1>2. e \in Record /\ e.name = new
  BY <1>1 DEF Record
<1>3. [t EXCEPT ![i].name = new] = Put(t, i, e)
  BY DEF Put
<1> HIDE DEF e
<1>4. /\ Put(t, i, e) \in Seq(Record) /\ DistinctNames(Put(t, i, e))
      /\ Names(Put(t, i, e)) = (Names(t) \ {t[i].name}) \union {new}
  BY <1>2, ReplaceTable
<1>5. \A x : x \in Names(Put(t, i, e)) <=> x = new \/ (x \in Names(t) /\ x # t[i].name)
  BY <1>4
<1>. QED BY <1>3, <1>4, <1>5, Zenon

-----------------------------------------------------------------------------
\* The beginning.
LEMMA TablesInit == Init => TablesInv
<1> SUFFICES ASSUME Init PROVE Scalars /\ OnDisk /\ InArrays /\ Saved
  BY DEF TablesInv
<1>1. projects \in Seq(Record) /\ DistinctNames(projects)
  BY ResourcesAssumption DEF Init
<1>2. \A i \in DOMAIN projects : projects[i] \in Record
  BY <1>1
<1>3. folder = [n \in Name |-> IF Has(projects, n)
                               THEN projects[Index(projects, n)].repo ELSE Nothing]
  BY DEF Init
<1>4. \A n \in Name : Has(projects, n) =>
        projects[Index(projects, n)].repo \in Repo
  BY <1>2, HasIndex DEF Record
<1>5. folder \in [Name -> Repo \union {Nothing}]
  BY <1>3, <1>4
<1>6. Names(projects) \subseteq Name
  BY <1>2 DEF Names, Record
<1>7. Names(projects) \subseteq Taken
  BY <1>3, <1>4, <1>6, HasIndex, ResourcesAssumption DEF Taken
<1>8. /\ limits = <<>> /\ pc = "off" /\ reformatState = TRUE /\ reformatLimits = FALSE
  BY DEF Init
<1>9. /\ limits \in Seq(Limit) /\ DistinctNames(limits) /\ Names(limits) = {}
  BY <1>8 DEF DistinctNames, Names
<1>10. Scalars
  BY <1>5, <1>8, <1>9 DEF Scalars, PC
<1>11. OnDisk
  BY <1>1, <1>7, <1>9 DEF OnDisk, Sound, SoundLimits
<1>. QED BY <1>8, <1>10, <1>11 DEF InArrays, Saved

\* What happened stays, so that quiet behaviours were quiet before.
LEMMA QuietBefore ==
  ASSUME happened \subseteq happened', Quiet' PROVE Quiet
  BY DEF Quiet, Undisturbed

LEMMA Disturbed ==
  ASSUME \E w \in {"killed", "crashed", "shifted"} : w \in happened' PROVE TablesInv'
  BY DEF TablesInv, Quiet, Undisturbed

\* A command that leaves the files and the folders, and the names of both arrays.
LEMMA SameNames ==
  ASSUME TablesInv, Quiet, pc = "main", pc' \in {"main", "services"},
         UNCHANGED <<projects, limits, folder, reformatState>>,
         services' \in Seq(Record), DistinctNames(services'), Names(services') = Names(services),
         SoundLimits(limitTable', services'),
         reformatLimits' \in BOOLEAN, reformatLimits => reformatLimits'
  PROVE  TablesInv'
<1>1. Taken' = Taken
  BY DEF Taken
<1>2. Scalars'
  BY DEF TablesInv, Scalars, PC
<1>3. OnDisk' /\ Saved'
  BY DEF OnDisk, Saved
<1>4. Names(services') \subseteq Taken'
  BY <1>1 DEF TablesInv, InArrays, Sound
<1>5. ~reformatLimits' => Names(limits') \subseteq Names(services')
  BY DEF TablesInv, InArrays, Scalars
<1>6. InArrays'
  BY <1>4, <1>5 DEF InArrays, Sound, SoundLimits
<1>. QED BY <1>2, <1>3, <1>6 DEF TablesInv

\* One that leaves both arrays as they are.
LEMMA SameTables ==
  ASSUME TablesInv, Quiet, pc = "main", pc' \in {"main", "services"},
         UNCHANGED <<projects, limits, folder, reformatState, services, limitTable>>,
         reformatLimits' \in BOOLEAN, reformatLimits => reformatLimits'
  PROVE  TablesInv'
<1>1. /\ services \in Seq(Record) /\ DistinctNames(services)
      /\ SoundLimits(limitTable, services)
  BY DEF TablesInv, InArrays, Sound
<1>2. /\ services' \in Seq(Record) /\ DistinctNames(services') /\ Names(services') = Names(services)
      /\ SoundLimits(limitTable', services')
  BY <1>1
<1>. QED BY <1>2, SameNames

-----------------------------------------------------------------------------
\* The commands that change names.

LEMMA AddStep ==
  ASSUME TablesInv, Quiet, Add PROVE TablesInv'
<1>0. /\ pc = "main" /\ Scalars /\ Sound(services) /\ SoundLimits(limitTable, services)
      /\ (~reformatLimits => Names(limits) \subseteq Names(services))
  BY DEF Add, Command, TablesInv, InArrays
<1>1. UNCHANGED <<projects, limits, limitTable, reformatState, reformatLimits>>
  BY DEF Add, files, flags
<1>2. PICK n \in Name, r \in Repo :
        \/ pc' = "services" /\ UNCHANGED <<folder, services>>
        \/ /\ \A i \in DOMAIN services : services[i].name # n /\ services[i].repo # r
           /\ folder' = [folder EXCEPT ![n] = r]
           /\ services' = Append(services, [name |-> n, repo |-> r, pid |-> NoPid])
           /\ UNCHANGED pc
  BY DEF Add
<1>3. CASE pc' = "services" /\ UNCHANGED <<folder, services>>
  BY <1>0, <1>1, <1>3, SameTables DEF Scalars
<1>4. CASE /\ \A i \in DOMAIN services : services[i].name # n /\ services[i].repo # r
           /\ folder' = [folder EXCEPT ![n] = r]
           /\ services' = Append(services, [name |-> n, repo |-> r, pid |-> NoPid])
           /\ UNCHANGED pc
  <2> DEFINE e == [name |-> n, repo |-> r, pid |-> NoPid]
  <2>1. e \in Record /\ e.name = n
    BY DEF Record
  <2>2. n \notin Names(services)
    BY <1>4 DEF Names
  <2>3. services' = Append(services, e)
    BY <1>4
  <2> HIDE DEF e
  <2>4. /\ services' \in Seq(Record) /\ DistinctNames(services')
        /\ Names(services') = Names(services) \union {n}
    BY <1>0, <2>1, <2>2, <2>3, AppendTable DEF Sound
  <2>5. Taken' = Taken \union {n}
    BY <1>0, <1>4, ResourcesAssumption DEF Taken, Scalars
  <2>6. Sound(services)' /\ SoundLimits(limitTable, services)'
    BY <1>0, <1>1, <2>4, <2>5 DEF Sound, SoundLimits
  <2>7. Scalars'
    BY <1>0, <1>1, <1>4 DEF Scalars
  <2>8. InArrays'
    BY <1>0, <1>1, <2>4, <2>6 DEF InArrays
  <2>9. OnDisk' /\ Saved'
    BY <1>0, <1>4 DEF OnDisk, Saved
  <2>. QED BY <2>7, <2>8, <2>9 DEF TablesInv
<1>. QED BY <1>2, <1>3, <1>4

LEMMA RemoveStep ==
  ASSUME TablesInv, Quiet, Remove PROVE TablesInv'
<1>0. /\ pc = "main" /\ Scalars /\ Sound(services) /\ SoundLimits(limitTable, services)
  BY DEF Remove, Command, TablesInv, InArrays
<1>1. PICK i \in DOMAIN services :
        /\ folder' = [folder EXCEPT ![services[i].name] = Nothing]
        /\ services' = Without(services, i)
        /\ limitTable' = RemoveLimit(limitTable, services[i].name)
  BY DEF Remove
<1>2. UNCHANGED <<projects, limits, pc, reformatState>> /\ reformatLimits' = TRUE
  BY DEF Remove, files
<1> DEFINE n == services[i].name
<1>3. n \in Name /\ n \in Names(services)
  <2>1. services[i] \in Record
    BY <1>0 DEF Sound
  <2>. QED BY <2>1 DEF Record, Names
<1>4. /\ services' \in Seq(Record) /\ DistinctNames(services')
      /\ Names(services') = Names(services) \ {n}
  BY <1>0, <1>1, WithoutTable DEF Sound
<1>5. /\ limitTable' \in Seq(Limit) /\ DistinctNames(limitTable')
      /\ Names(limitTable') = Names(limitTable) \ {n}
  BY <1>0, <1>1, RemoveLimitTable DEF SoundLimits
<1> HIDE DEF n
<1>6. Taken' = Taken \ {n}
  BY <1>0, <1>1, <1>3 DEF Taken, Scalars, n
<1>7. Sound(services)' /\ SoundLimits(limitTable, services)'
  BY <1>0, <1>4, <1>5, <1>6 DEF Sound, SoundLimits
<1>8. folder' \in [Name -> Repo \union {Nothing}]
  BY <1>0, <1>1 DEF Scalars
<1>9. Scalars'
  BY <1>0, <1>2, <1>8 DEF Scalars
<1>10. InArrays' /\ OnDisk' /\ Saved'
  BY <1>0, <1>2, <1>7 DEF InArrays, OnDisk, Saved
<1>. QED BY <1>9, <1>10 DEF TablesInv

LEMMA RenameStep ==
  ASSUME TablesInv, Quiet, Rename PROVE TablesInv'
<1>0. /\ pc = "main" /\ Scalars /\ Sound(services) /\ SoundLimits(limitTable, services)
  BY DEF Rename, Command, TablesInv, InArrays
<1>1. UNCHANGED <<projects, limits, pc, reformatState>> /\ reformatLimits' = TRUE
  BY DEF Rename, files
<1>2. PICK i \in DOMAIN services, new \in Name :
        /\ MovesFolder(services[i].name, new)
        /\ \/ /\ folder' = Moved(services[i].name, new)
              /\ services' = [services EXCEPT ![i].name = new]
              /\ limitTable' = RenameLimit(limitTable, services[i].name, new)
           \/ UNCHANGED <<folder, services, limitTable>>
  BY DEF Rename
<1>3. CASE UNCHANGED <<folder, services, limitTable>>
  BY <1>0, <1>1, <1>3, SameTables
<1>4. CASE /\ folder' = Moved(services[i].name, new)
           /\ services' = [services EXCEPT ![i].name = new]
           /\ limitTable' = RenameLimit(limitTable, services[i].name, new)
  <2> DEFINE old == services[i].name
  <2>1. old \in Name /\ old \in Names(services)
    <3>1. services[i] \in Record
      BY <1>0 DEF Sound
    <3>. QED BY <3>1 DEF Record, Names
  <2>2. new \notin Names(services) \ {old}
    BY <1>0, <1>2 DEF MovesFolder, Sound, Taken
  <2>3. /\ services' \in Seq(Record) /\ DistinctNames(services')
        /\ \A x : x \in Names(services') <=> x = new \/ (x \in Names(services) /\ x # old)
    <3> DEFINE u == [services EXCEPT ![i].name = new]
    <3>1. /\ services \in Seq(Record) /\ DistinctNames(services)
          /\ new \notin Names(services) \ {services[i].name}
      BY <1>0, <2>2 DEF Sound
    <3>2. u \in Seq(Record) /\ DistinctNames(u)
      BY <3>1, NameTable
    <3>3. \A x : x \in Names(u) <=> x = new \/ (x \in Names(services) /\ x # services[i].name)
      BY <3>1, NameTable, Zenon
    <3>4. services' = u
      BY <1>4
    <3>. QED BY <3>2, <3>3, <3>4, Zenon
  <2>4. /\ limitTable' \in Seq(Limit) /\ DistinctNames(limitTable')
        /\ Names(limitTable') \subseteq (Names(limitTable) \ {old}) \union {new}
    BY <1>0, <1>4, <2>2, RenameLimitTable DEF SoundLimits
  <2>5. folder' = Moved(old, new) /\ MovesFolder(old, new)
    BY <1>2, <1>4
  <2> HIDE DEF old
  <2>6. folder' \in [Name -> Repo \union {Nothing}]
    BY <1>0, <2>1, <2>5 DEF Scalars, Moved
  <2>7. (Taken \ {old}) \union {new} \subseteq Taken'
    BY <1>0, <2>1, <2>5 DEF Scalars, Moved, MovesFolder, Taken
  <2>8. Sound(services)' /\ SoundLimits(limitTable, services)'
    BY <1>0, <2>3, <2>4, <2>7 DEF Sound, SoundLimits
  <2>9. Scalars'
    BY <1>0, <1>1, <2>6 DEF Scalars
  <2>10. InArrays' /\ OnDisk' /\ Saved'
    BY <1>0, <1>1, <2>8 DEF InArrays, OnDisk, Saved
  <2>. QED BY <2>9, <2>10 DEF TablesInv
<1>. QED BY <1>2, <1>3, <1>4

-----------------------------------------------------------------------------
\* The others keep the names.

LEMMA PidStep ==
  ASSUME TablesInv, Quiet, Run \/ Stop \/ Restart PROVE TablesInv'
<1>0. /\ pc = "main" /\ Scalars /\ Sound(services) /\ SoundLimits(limitTable, services)
  BY DEF Run, Stop, Restart, Command, TablesInv, InArrays
<1>1. /\ UNCHANGED <<projects, limits, folder, limitTable, reformatState, reformatLimits>>
      /\ pc' \in {"main", "services"}
  BY <1>0 DEF Run, Stop, Restart, files, flags
<1>2. PICK i \in DOMAIN services, p \in Pid \union {NoPid} :
        services' = [services EXCEPT ![i].pid = p]
  <2>1. CASE Run
    BY <2>1 DEF Run, Spawn
  <2>2. CASE Stop
    BY <2>2 DEF Stop
  <2>3. CASE Restart
    BY <2>3 DEF Restart
  <2>. QED BY <2>1, <2>2, <2>3
<1>3. /\ services' \in Seq(Record) /\ DistinctNames(services')
      /\ Names(services') = Names(services)
  <2> DEFINE u == [services EXCEPT ![i].pid = p]
  <2>1. u \in Seq(Record) /\ DistinctNames(u) /\ Names(u) = Names(services)
    BY <1>0, PidTable DEF Sound
  <2>. QED BY <1>2, <2>1, Zenon
<1>4. SoundLimits(limitTable', services')
  BY <1>0, <1>1, <1>3 DEF SoundLimits
<1>. QED BY <1>0, <1>1, <1>3, <1>4, SameNames DEF Scalars

\* What the file gets for a number of cores, 0 when none was given.
InFile(cpu) == IF cpu = 0 THEN 0 ELSE FileCpu[cpu]

LEMMA InFileTypes ==
  ASSUME NEW cpu \in Cpu \union {0} PROVE InFile(cpu) \in FileCpus \union {0}
  BY DEF InFile, FileCpus

\* What set-limit leaves of the limit table.
LEMMA SetLimitTable ==
  ASSUME NEW s, NEW cpu \in Cpu \union {0}, NEW mem \in Mem \union {0}, NEW kind,
         NEW r \in IF cpu = 0 THEN SetMemoryLimit(s, mem, kind)
                  ELSE SetCpuResourceLimit(s, cpu, mem, kind)
  PROVE  r.t \in {limitTable, CreateLimit(limitTable, s.name, InFile(cpu), mem)}
<1>1. CASE r \in NotRunning
  BY <1>1 DEF NotRunning
<1>2. CASE \E x : r = Recorded(s.name, InFile(cpu), mem, x)
  BY <1>2 DEF Recorded
<1>3. \/ r \in NotRunning
      \/ \E x : r = Recorded(s.name, InFile(cpu), mem, x)
  <2>1. CASE cpu = 0
    <3>1. InFile(cpu) = 0
      BY <2>1 DEF InFile
    <3>. QED BY <2>1, <3>1, Zenon DEF SetMemoryLimit
  <2>2. CASE cpu # 0
    <3>1. InFile(cpu) = FileCpu[cpu]
      BY <2>2 DEF InFile
    <3>. QED BY <2>2, <3>1, Zenon DEF SetCpuResourceLimit
  <2>. QED BY <2>1, <2>2
<1>. QED BY <1>1, <1>2, <1>3

LEMMA SetLimitStep ==
  ASSUME TablesInv, Quiet, SetLimit PROVE TablesInv'
<1>0. /\ pc = "main" /\ Scalars /\ Sound(services) /\ SoundLimits(limitTable, services)
  BY DEF SetLimit, Command, TablesInv, InArrays
<1>1. PICK i \in DOMAIN services, kind \in Kind,
           cpu \in Cpu \union {0}, mem \in Mem \union {0} :
        \E r \in IF cpu = 0 THEN SetMemoryLimit(services[i], mem, kind)
                 ELSE SetCpuResourceLimit(services[i], cpu, mem, kind) :
          /\ limitTable' = r.t
          /\ pc' = IF r.ok THEN "main" ELSE "services"
          /\ reformatLimits' = (reformatLimits \/ SavedAfter(cpu, kind, r.ok))
  BY DEF SetLimit
<1>2. PICK r \in IF cpu = 0 THEN SetMemoryLimit(services[i], mem, kind)
                 ELSE SetCpuResourceLimit(services[i], cpu, mem, kind) :
          /\ limitTable' = r.t
          /\ pc' = IF r.ok THEN "main" ELSE "services"
          /\ reformatLimits' = (reformatLimits \/ SavedAfter(cpu, kind, r.ok))
  BY <1>1
<1>3. /\ UNCHANGED <<projects, limits, folder, services, reformatState>>
      /\ pc' \in {"main", "services"}
      /\ reformatLimits' \in BOOLEAN /\ (reformatLimits => reformatLimits')
  BY <1>2 DEF SetLimit, files
<1>4. limitTable' \in {limitTable, CreateLimit(limitTable, services[i].name, InFile(cpu), mem)}
  BY <1>2, SetLimitTable
<1>5. services[i].name \in Name /\ services[i].name \in Names(services)
  <2>1. services[i] \in Record
    BY <1>0 DEF Sound
  <2>. QED BY <2>1 DEF Record, Names
<1>6. SoundLimits(limitTable', services)
  <2>1. SoundLimits(CreateLimit(limitTable, services[i].name, InFile(cpu), mem), services)
    <3> DEFINE n == services[i].name
               c == CreateLimit(limitTable, n, InFile(cpu), mem)
    <3>1. limitTable \in Seq(Limit) /\ DistinctNames(limitTable) /\ n \in Name
      BY <1>0, <1>5 DEF SoundLimits
    <3>2. n \in Names(services) /\ Names(limitTable) \subseteq Names(services)
      BY <1>0, <1>5 DEF SoundLimits
    <3> HIDE DEF n
    <3>3. /\ c \in Seq(Limit) /\ DistinctNames(c) /\ Names(c) = Names(limitTable) \union {n}
      BY <3>1, InFileTypes, CreateLimitTable
    <3> HIDE DEF c
    <3>4. SoundLimits(c, services)
      BY <3>2, <3>3 DEF SoundLimits
    <3>. QED BY <3>4 DEF c, n
  <2>. QED BY <1>0, <1>4, <2>1
<1>7. /\ services' \in Seq(Record) /\ DistinctNames(services')
      /\ Names(services') = Names(services) /\ SoundLimits(limitTable', services')
  BY <1>0, <1>3, <1>6 DEF Sound
<1>. QED BY <1>0, <1>3, <1>7, SameNames

LEMMA OtherStep ==
  ASSUME TablesInv, Quiet,
         NotThere \/ SetLimitOfNobody \/ AddEnv \/ UpdateEnv \/ RemoveEnv \/ Refuse \/ EditJobs
  PROVE  TablesInv'
<1>0. pc = "main" /\ reformatLimits \in BOOLEAN
  BY DEF TablesInv, Scalars, NotThere, SetLimitOfNobody, AddEnv, UpdateEnv, RemoveEnv,
         Refuse, EditJobs, Command
<1>1. /\ UNCHANGED <<projects, limits, folder, reformatState, services, limitTable>>
      /\ pc' \in {"main", "services"}
      /\ reformatLimits' \in BOOLEAN /\ (reformatLimits => reformatLimits')
  <2>1. CASE NotThere
    BY <1>0, <2>1 DEF NotThere, files, machine, tables
  <2>2. CASE SetLimitOfNobody
    BY <1>0, <2>2 DEF SetLimitOfNobody, files, machine, tables
  <2>3. CASE AddEnv \/ UpdateEnv \/ RemoveEnv \/ Refuse \/ EditJobs
    BY <1>0, <2>3 DEF AddEnv, UpdateEnv, RemoveEnv, Refuse, EditJobs, files, machine,
                      tables, flags
  <2>. QED BY <2>1, <2>2, <2>3
<1>. QED BY <1>0, <1>1, SameTables

-----------------------------------------------------------------------------
\* The constructor and the destructor.

LEMMA BeginStep ==
  ASSUME TablesInv, Quiet, Begin PROVE TablesInv'
<1>1. /\ pc = "off" /\ pc' = "main" /\ services' = projects /\ limitTable' = limits
      /\ UNCHANGED <<limits, folder, reformatState, reformatLimits>>
  BY DEF Begin, files, machine
<1>2. Scalars /\ Sound(projects) /\ SoundLimits(limits, projects)
  BY <1>1 DEF TablesInv, OnDisk
<1>3. Scalars'
  BY <1>1, <1>2 DEF Scalars, PC
<1>4. InArrays'
  BY <1>1, <1>2 DEF InArrays, Sound, SoundLimits, Taken
<1>. QED BY <1>1, <1>3, <1>4 DEF TablesInv, OnDisk, Saved

LEMMA DestructorStep ==
  ASSUME TablesInv, Quiet, Destructor PROVE TablesInv'
<1>0. /\ pc # "off" /\ Scalars /\ Saved /\ InArrays
  BY DEF TablesInv, Destructor, Return, SaveServices, SaveJobs, SaveEnvs, SaveLimits
<1>1. CASE Return \/ SaveServices \/ SaveJobs \/ SaveEnvs
  <2>1. /\ pc' \in {"services", "jobs", "envs", "limits"}
        /\ UNCHANGED <<limits, folder, services, limitTable, reformatState, reformatLimits>>
    BY <1>1 DEF Return, SaveServices, SaveJobs, SaveEnvs, files, machine, tables, flags
  <2>2. Saved'
    <3>1. CASE Return
      BY <3>1 DEF Return, Saved
    <3>2. CASE SaveServices
      BY <1>0, <3>2 DEF SaveServices, Saved, Scalars, tables
    <3>3. CASE SaveJobs \/ SaveEnvs
      <4>1. pc \in {"jobs", "envs"} /\ UNCHANGED <<projects, services>>
        BY <3>3 DEF SaveJobs, SaveEnvs, tables
      <4>. QED BY <1>0, <4>1 DEF Saved
    <3>. QED BY <1>1, <3>1, <3>2, <3>3
  <2>3. Scalars'
    BY <1>0, <2>1 DEF Scalars, PC
  <2>4. InArrays'
    BY <1>0, <2>1 DEF InArrays, Sound, SoundLimits, Taken
  <2>. QED BY <2>1, <2>2, <2>3, <2>4 DEF TablesInv, OnDisk
<1>2. CASE SaveLimits
  <2>1. /\ pc = "limits" /\ pc' = "off" /\ UNCHANGED <<projects, folder>>
        /\ limits' = IF reformatLimits THEN limitTable ELSE limits
        /\ reformatState' = TRUE /\ reformatLimits' = FALSE
    BY <1>2 DEF SaveLimits, Off
  <2>2. projects = services /\ Sound(projects) /\ SoundLimits(limitTable, projects)
        /\ (~reformatLimits => Names(limits) \subseteq Names(projects))
    BY <1>0, <2>1 DEF Saved, InArrays
  <2>3. SoundLimits(limits', projects)
    BY <1>0, <2>1, <2>2 DEF SoundLimits, Scalars
  <2>4. Scalars'
    BY <1>0, <2>1, <2>3 DEF Scalars, PC, SoundLimits
  <2>5. OnDisk'
    BY <2>1, <2>2, <2>3 DEF OnDisk, Sound, SoundLimits, Taken
  <2>. QED BY <2>1, <2>4, <2>5 DEF TablesInv, InArrays, Saved
<1>. QED BY <1>1, <1>2 DEF Destructor

\* What happened is never forgotten.
LEMMA HappenedStays ==
  ASSUME [Next]_vars PROVE happened \subseteq happened'
<1>1. CASE UNCHANGED vars
  BY <1>1 DEF vars
<1>2. CASE Begin \/ Destructor \/ Kill \/ \E p \in Pid : Die(p)
  BY <1>2 DEF Begin, Destructor, Return, SaveServices, SaveJobs, SaveEnvs, SaveLimits,
              Kill, Die, Note
<1>3. CASE CommandStep
  <2>1. CASE Add \/ Remove \/ Rename \/ NotThere
    BY <2>1 DEF Add, Remove, Rename, NotThere, Note
  <2>2. CASE Run \/ Stop \/ Restart
    BY <2>2 DEF Run, Stop, Restart, Note
  <2>3. CASE SetLimit \/ SetLimitOfNobody
    BY <2>3 DEF SetLimit, SetLimitOfNobody, Note
  <2>4. CASE AddToNothing \/ RestartCrashes \/ AddEnvToNothing
    BY <2>4 DEF AddToNothing, RestartCrashes, AddEnvToNothing, Crash, Note
  <2>5. CASE AddEnv \/ UpdateEnv \/ RemoveEnv \/ Refuse \/ EditJobs
    BY <2>5 DEF AddEnv, UpdateEnv, RemoveEnv, Refuse, EditJobs
  <2>. QED BY <1>3, <2>1, <2>2, <2>3, <2>4, <2>5 DEF CommandStep
<1>. QED BY <1>1, <1>2, <1>3 DEF Next

LEMMA TablesStep == TablesInv /\ [Next]_vars => TablesInv'
<1> SUFFICES ASSUME TablesInv, [Next]_vars PROVE TablesInv'
  OBVIOUS
<1>1. happened \subseteq happened'
  BY HappenedStays
<1>2. CASE ~Quiet
  BY <1>1, <1>2, QuietBefore DEF TablesInv
<1>3. CASE Quiet
  <2>1. CASE UNCHANGED vars
    BY <2>1 DEF vars, files, machine, tables, flags, TablesInv, Quiet, Undisturbed, Scalars,
                OnDisk, InArrays, Saved, Sound, SoundLimits, Taken
  <2>2. CASE Begin
    BY <1>3, <2>2, BeginStep
  <2>3. CASE Destructor
    BY <1>3, <2>3, DestructorStep
  <2>4. CASE Kill \/ AddToNothing \/ RestartCrashes \/ AddEnvToNothing
    BY <2>4, Disturbed DEF Kill, AddToNothing, RestartCrashes, AddEnvToNothing, Crash, Note
  <2>5. ASSUME NEW p \in Pid, Die(p) PROVE TablesInv'
    BY <2>5 DEF Die, files, tables, flags, TablesInv, Quiet, Undisturbed, Scalars,
                OnDisk, InArrays, Saved, Sound, SoundLimits, Taken
  <2>. QED BY <1>3, <2>1, <2>2, <2>3, <2>4, <2>5, AddStep, RemoveStep, RenameStep, PidStep,
             SetLimitStep, OtherStep DEF Next, CommandStep
<1>. QED BY <1>2, <1>3

\* No sequence of commands, early returns and failures makes two limits of one
\* name, which would abort every later invocation.
THEOREM NeverTwoLimits == Spec => []LimitsStayLoadable
<1>1. TablesInv => LimitsStayLoadable
  BY DEF TablesInv, Scalars, LimitsStayLoadable, Quiet
<1>. QED BY TablesInit, TablesStep, <1>1, PTL DEF Spec

\* Between two invocations every limit on disk belongs to a service on disk.
THEOREM NoLimitWithoutService == Spec => []LimitsHaveServices
<1>1. TablesInv => LimitsHaveServices
  BY HasIndex DEF TablesInv, OnDisk, SoundLimits, Names, LimitsHaveServices, Quiet, AtRest
<1>. QED BY TablesInit, TablesStep, <1>1, PTL DEF Spec

-----------------------------------------------------------------------------
\* The cgroups: what a step sets, and what it leaves alone.

SameLimits(g, h) == h.cpu = g.cpu /\ h.mem = g.mem

\* The group p is in, in both hierarchies; every other process stays.
CpuOfIs(g, h, p, n) == \A q \in Who : h.cpuOf[q] = IF q = p THEN n ELSE g.cpuOf[q]
MemOfIs(g, h, p, n) == \A q \in Who : h.memOf[q] = IF q = p THEN n ELSE g.memOf[q]

\* The limits of a group; every other group keeps its own.
CpuIs(g, h, n, cpu) == \A m \in Name : h.cpu[m] = IF m = n THEN cpu ELSE g.cpu[m]
MemIs(g, h, n, mem) == \A m \in Name : h.mem[m] = IF m = n THEN mem ELSE g.mem[m]

\* A limit there is stays when the group is made.
Kept(x) == IF x = Nothing THEN Unlimited ELSE x

LEMMA SetupFacts ==
  ASSUME NEW g \in Cgroups, NEW n \in Name
  PROVE  /\ Setup(g, n) \in Cgroups
         /\ Setup(g, n).cpuOf = g.cpuOf /\ Setup(g, n).memOf = g.memOf
         /\ CpuIs(g, Setup(g, n), n, Kept(g.cpu[n]))
         /\ MemIs(g, Setup(g, n), n, Kept(g.mem[n]))
  BY DEF Setup, Cgroups, CpuIs, MemIs, Kept

LEMMA EnterFacts ==
  ASSUME NEW g \in Cgroups, NEW n \in Name, NEW p \in Who
  PROVE  /\ EnterCpu(g, n, p) \in Cgroups /\ SameLimits(g, EnterCpu(g, n, p))
         /\ EnterCpu(g, n, p).memOf = g.memOf /\ CpuOfIs(g, EnterCpu(g, n, p), p, n)
         /\ EnterMem(g, n, p) \in Cgroups /\ SameLimits(g, EnterMem(g, n, p))
         /\ EnterMem(g, n, p).cpuOf = g.cpuOf /\ MemOfIs(g, EnterMem(g, n, p), p, n)
  BY DEF EnterCpu, EnterMem, Cgroups, SameLimits, CpuOfIs, MemOfIs

LEMMA CreateProcess ==
  ASSUME NEW g \in Cgroups, NEW n \in Name, NEW p \in Who
  PROVE  /\ Enter(g, n, p) \in Cgroups /\ SameLimits(g, Enter(g, n, p))
         /\ CpuOfIs(g, Enter(g, n, p), p, n)
         /\ IF version = 2 THEN MemOfIs(g, Enter(g, n, p), p, n)
                           ELSE Enter(g, n, p).memOf = g.memOf
<1>1. PICK h : h = EnterCpu(g, n, p)
  OBVIOUS
<1>2. /\ h \in Cgroups /\ SameLimits(g, h)
      /\ h.memOf = g.memOf /\ CpuOfIs(g, h, p, n)
  BY <1>1, EnterFacts
<1>3. PICK k : k = EnterMem(h, n, p)
  OBVIOUS
<1>4. /\ k \in Cgroups /\ SameLimits(h, k)
      /\ k.cpuOf = h.cpuOf /\ MemOfIs(h, k, p, n)
  BY <1>2, <1>3, EnterFacts
<1>5. Enter(g, n, p) = IF version = 2 THEN k ELSE h
  BY <1>1, <1>3 DEF Enter
<1>6. SameLimits(g, k) /\ CpuOfIs(g, k, p, n) /\ MemOfIs(g, k, p, n)
  BY <1>2, <1>4 DEF SameLimits, CpuOfIs, MemOfIs
<1>. QED BY <1>2, <1>4, <1>5, <1>6

LEMMA LeaveFacts ==
  ASSUME NEW g \in Cgroups, NEW p \in Who
  PROVE  /\ Leave(g, p) \in Cgroups /\ SameLimits(g, Leave(g, p))
         /\ CpuOfIs(g, Leave(g, p), p, Nothing) /\ MemOfIs(g, Leave(g, p), p, Nothing)
  BY DEF Leave, Cgroups, SameLimits, CpuOfIs, MemOfIs

LEMMA InheritFacts ==
  ASSUME NEW g \in Cgroups, NEW p \in Who
  PROVE  /\ Inherit(g, p) \in Cgroups /\ SameLimits(g, Inherit(g, p))
         /\ CpuOfIs(g, Inherit(g, p), p, g.cpuOf[Mrn])
         /\ MemOfIs(g, Inherit(g, p), p, g.memOf[Mrn])
  BY DEF Inherit, Cgroups, Who, SameLimits, CpuOfIs, MemOfIs

\* One limit written, and both with a group that takes another's or is removed.
LEMMA CpuWritten ==
  ASSUME NEW g \in Cgroups, NEW n \in Name, NEW cpu \in Quotas \union {Unlimited, Nothing},
         NEW h, h = [g EXCEPT !.cpu[n] = cpu]
  PROVE  h \in Cgroups /\ CpuIs(g, h, n, cpu) /\ h.mem = g.mem
           /\ h.cpuOf = g.cpuOf /\ h.memOf = g.memOf
  BY DEF Cgroups, CpuIs

LEMMA MemWritten ==
  ASSUME NEW g \in Cgroups, NEW n \in Name, NEW mem \in Mem \union {Unlimited, Nothing},
         NEW h, h = [g EXCEPT !.mem[n] = mem]
  PROVE  h \in Cgroups /\ h.cpu = g.cpu /\ MemIs(g, h, n, mem)
           /\ h.cpuOf = g.cpuOf /\ h.memOf = g.memOf
  BY DEF Cgroups, MemIs

Written(g, n, cpu, mem) == [g EXCEPT !.cpu[n] = cpu, !.mem[n] = mem]

LEMMA BothWritten ==
  ASSUME NEW g \in Cgroups, NEW n \in Name,
         NEW cpu \in Quotas \union {Unlimited, Nothing}, NEW mem \in Mem \union {Unlimited, Nothing},
         NEW h, h = Written(g, n, cpu, mem)
  PROVE  h \in Cgroups /\ CpuIs(g, h, n, cpu) /\ MemIs(g, h, n, mem)
           /\ h.cpuOf = g.cpuOf /\ h.memOf = g.memOf
  BY DEF Written, Cgroups, CpuIs, MemIs

\* What set-limit leaves of the cgroups when it succeeds.
LEMMA MemoryLimitFacts ==
  ASSUME NEW g \in Cgroups, NEW n \in Name, NEW p \in Pid, NEW mem \in Mem, NEW kind,
         NEW r \in LimitMemory(g, n, p, mem, kind)
  PROVE  /\ r.ok \in BOOLEAN /\ r.g \in Cgroups /\ r.g.cpu = g.cpu /\ r.g.cpuOf = g.cpuOf
         /\ r.ok => MemIs(g, r.g, n, mem)
         /\ IF version = 2 THEN r.g.memOf = g.memOf ELSE MemOfIs(g, r.g, p, n)
<1>1. PICK h : h = IF version = 2 THEN g ELSE EnterMem(g, n, p)
  OBVIOUS
<1>2. /\ h \in Cgroups /\ SameLimits(g, h) /\ h.cpuOf = g.cpuOf
      /\ IF version = 2 THEN h.memOf = g.memOf ELSE MemOfIs(g, h, p, n)
  BY <1>1, EnterFacts DEF Who, SameLimits
<1>3. PICK k : k = [h EXCEPT !.mem[n] = mem]
  OBVIOUS
<1>4. /\ k \in Cgroups /\ k.cpu = h.cpu /\ MemIs(h, k, n, mem)
      /\ k.cpuOf = h.cpuOf /\ k.memOf = h.memOf
  BY <1>2, <1>3, MemWritten
<1>5. r \in {Done(k), Failed(h)}
  BY <1>1, <1>3 DEF LimitMemory, MemoryLimit
<1>6. \/ r.ok = TRUE /\ r.g = k
      \/ r.ok = FALSE /\ r.g = h
  BY <1>5 DEF Done, Failed
<1>7. MemIs(g, k, n, mem)
  BY <1>2, <1>4 DEF MemIs, SameLimits
<1>8. IF version = 2 THEN k.memOf = g.memOf ELSE MemOfIs(g, k, p, n)
  BY <1>2, <1>4 DEF MemOfIs
<1>. QED BY <1>2, <1>4, <1>6, <1>7, <1>8 DEF SameLimits

LEMMA LimitMmFacts ==
  ASSUME NEW g \in Cgroups, NEW n \in Name, NEW p \in Pid, NEW mem \in Mem, NEW kind,
         NEW r \in LimitMm(g, n, p, mem, kind)
  PROVE  /\ r.ok \in BOOLEAN /\ r.g \in Cgroups
         /\ r.ok => /\ CpuIs(g, r.g, n, Kept(g.cpu[n])) /\ MemIs(g, r.g, n, mem)
                    /\ CpuOfIs(g, r.g, p, n) /\ MemOfIs(g, r.g, p, n)
<1>1. PICK h : h = Setup(g, n)
  OBVIOUS
<1>2. /\ h \in Cgroups /\ h.cpuOf = g.cpuOf /\ h.memOf = g.memOf
      /\ CpuIs(g, h, n, Kept(g.cpu[n])) /\ MemIs(g, h, n, Kept(g.mem[n]))
  BY <1>1, SetupFacts
<1>3. CASE proc[p] = Nothing
  <2>1. r = Failed(h)
    BY <1>1, <1>3 DEF LimitMm
  <2>2. r.ok = FALSE /\ r.g = h
    BY <2>1 DEF Failed
  <2>. QED BY <1>2, <2>2
<1>4. CASE proc[p] # Nothing
  <2>1. PICK e : e = Enter(h, n, p)
    OBVIOUS
  <2>2. /\ e \in Cgroups /\ SameLimits(h, e) /\ CpuOfIs(h, e, p, n)
        /\ IF version = 2 THEN MemOfIs(h, e, p, n) ELSE e.memOf = h.memOf
    BY <1>2, <2>1, CreateProcess DEF Who
  <2>3. r \in LimitMemory(e, n, p, mem, kind)
    BY <1>1, <1>4, <2>1 DEF LimitMm
  <2>4. /\ r.ok \in BOOLEAN /\ r.g \in Cgroups /\ r.g.cpu = e.cpu /\ r.g.cpuOf = e.cpuOf
        /\ r.ok => MemIs(e, r.g, n, mem)
        /\ IF version = 2 THEN r.g.memOf = e.memOf ELSE MemOfIs(e, r.g, p, n)
    BY <2>2, <2>3, MemoryLimitFacts
  <2>5. CpuIs(g, r.g, n, Kept(g.cpu[n])) /\ (r.ok => MemIs(g, r.g, n, mem))
    BY <1>2, <2>2, <2>4 DEF CpuIs, MemIs, SameLimits
  <2>6. CpuOfIs(g, r.g, p, n) /\ MemOfIs(g, r.g, p, n)
    BY <1>2, <2>2, <2>4 DEF CpuOfIs, MemOfIs
  <2>. QED BY <2>4, <2>5, <2>6
<1>. QED BY <1>3, <1>4

LEMMA LimitCpuAndMemoryFacts ==
  ASSUME NEW g \in Cgroups, NEW n \in Name, NEW p \in Pid, NEW cpu \in Cpu,
         NEW mem \in Mem \union {0}, NEW kind,
         NEW r \in LimitCpuAndMemory(g, n, p, cpu, mem, kind)
  PROVE  /\ r.ok \in BOOLEAN /\ r.g \in Cgroups
         /\ r.ok => /\ CpuIs(g, r.g, n, Quota[cpu])
                    /\ MemIs(g, r.g, n, IF mem = 0 THEN Kept(g.mem[n]) ELSE mem)
                    /\ CpuOfIs(g, r.g, p, n)
                    /\ mem # 0 => MemOfIs(g, r.g, p, n)
                    /\ \A q \in Who \ {p} : r.g.memOf[q] = g.memOf[q]
<1>1. PICK h : h = Setup(g, n)
  OBVIOUS
<1>2. /\ h \in Cgroups /\ h.cpuOf = g.cpuOf /\ h.memOf = g.memOf
      /\ CpuIs(g, h, n, Kept(g.cpu[n])) /\ MemIs(g, h, n, Kept(g.mem[n]))
  BY <1>1, SetupFacts
<1>3. CASE proc[p] = Nothing
  <2>1. r = Failed(h)
    BY <1>1, <1>3 DEF LimitCpuAndMemory
  <2>2. r.ok = FALSE /\ r.g = h
    BY <2>1 DEF Failed
  <2>. QED BY <1>2, <2>2
<1>4. CASE proc[p] # Nothing
  <2>1. PICK e : e = Enter(h, n, p)
    OBVIOUS
  <2>2. /\ e \in Cgroups /\ SameLimits(h, e) /\ CpuOfIs(h, e, p, n)
        /\ IF version = 2 THEN MemOfIs(h, e, p, n) ELSE e.memOf = h.memOf
    BY <1>2, <2>1, CreateProcess DEF Who
  <2>3. PICK w : w = [e EXCEPT !.cpu[n] = Quota[cpu]]
    OBVIOUS
  <2>4. w \in Cgroups /\ CpuIs(e, w, n, Quota[cpu]) /\ w.mem = e.mem
          /\ w.cpuOf = e.cpuOf /\ w.memOf = e.memOf
    <3>1. Quota[cpu] \in Quotas \union {Unlimited, Nothing}
      BY DEF Quotas
    <3>. QED BY <2>2, <2>3, <3>1, CpuWritten
  <2>5. w = LimitCpu(g, n, p, cpu)
    BY <1>1, <2>1, <2>3 DEF LimitCpu
  <2>6. CpuIs(g, w, n, Quota[cpu]) /\ MemIs(g, w, n, Kept(g.mem[n])) /\ CpuOfIs(g, w, p, n)
        /\ IF version = 2 THEN MemOfIs(g, w, p, n) ELSE w.memOf = g.memOf
    BY <1>2, <2>2, <2>4 DEF CpuIs, MemIs, SameLimits, CpuOfIs, MemOfIs
  <2>0. CASE cpu \in TinyCpu
    <3>1. r = Failed(e)
      BY <1>1, <1>4, <2>0, <2>1 DEF LimitCpuAndMemory
    <3>2. r.ok = FALSE /\ r.g = e
      BY <3>1 DEF Failed
    <3>. QED BY <2>2, <3>2
  <2>7. CASE cpu \notin TinyCpu /\ mem = 0
    <3>1. r = Done(w)
      BY <1>4, <2>5, <2>7 DEF LimitCpuAndMemory
    <3>2. r.ok = TRUE /\ r.g = w
      BY <3>1 DEF Done
    <3>. QED BY <2>4, <2>6, <2>7, <3>2 DEF MemOfIs
  <2>8. CASE cpu \notin TinyCpu /\ mem # 0
    <3>1. mem \in Mem /\ r \in LimitMemory(w, n, p, mem, kind)
      BY <1>4, <2>5, <2>8 DEF LimitCpuAndMemory
    <3>2. /\ r.ok \in BOOLEAN /\ r.g \in Cgroups /\ r.g.cpu = w.cpu /\ r.g.cpuOf = w.cpuOf
          /\ r.ok => MemIs(w, r.g, n, mem)
          /\ IF version = 2 THEN r.g.memOf = w.memOf ELSE MemOfIs(w, r.g, p, n)
      BY <2>4, <3>1, MemoryLimitFacts
    <3>3. CpuIs(g, r.g, n, Quota[cpu]) /\ (r.ok => MemIs(g, r.g, n, mem))
      BY <2>6, <3>2 DEF CpuIs, MemIs
    <3>4. CpuOfIs(g, r.g, p, n) /\ MemOfIs(g, r.g, p, n)
      BY <2>6, <3>2 DEF CpuOfIs, MemOfIs
    <3>5. \A q \in Who \ {p} : r.g.memOf[q] = g.memOf[q]
      BY <3>4 DEF MemOfIs
    <3>. QED BY <2>8, <3>2, <3>3, <3>4, <3>5
  <2>. QED BY <2>0, <2>7, <2>8
<1>. QED BY <1>3, <1>4

\* What a rename leaves of them: nothing changed when there was no group; on v2
\* the limits under the new name, and the process moved, when it succeeds.
LEMMA RenameCgrpFacts ==
  ASSUME NEW g \in Cgroups, NEW old \in Name, NEW new \in Name, NEW p \in Pid \union {NoPid},
         NEW busy, NEW r, r = RenameCgrp(g, old, new, p, busy),
         NEW who, who = IF p = NoPid THEN Mrn ELSE p
  PROVE  /\ r.ok \in BOOLEAN /\ r.g \in Cgroups
         /\ g.cpu[old] = Nothing => r.g = g
         /\ r.ok /\ g.cpu[old] # Nothing /\ version # 1 =>
              /\ new # old
              /\ \A m \in Name : r.g.cpu[m] = IF m = old THEN Nothing
                                              ELSE IF m = new THEN g.cpu[old] ELSE g.cpu[m]
              /\ \A m \in Name : r.g.mem[m] = IF m = old THEN Nothing
                                              ELSE IF m = new THEN g.mem[old] ELSE g.mem[m]
              /\ CpuOfIs(g, r.g, who, new)
              /\ version = 2 => MemOfIs(g, r.g, who, new)
<1>0. who \in Who
  BY DEF Who
<1>1. PICK h : h = Setup(g, new)
  OBVIOUS
<1>2. /\ h \in Cgroups /\ h.cpuOf = g.cpuOf /\ h.memOf = g.memOf
      /\ CpuIs(g, h, new, Kept(g.cpu[new])) /\ MemIs(g, h, new, Kept(g.mem[new]))
  BY <1>1, SetupFacts
<1>3. PICK e : e = Enter(h, new, who)
  OBVIOUS
<1>4. /\ e \in Cgroups /\ SameLimits(h, e) /\ CpuOfIs(h, e, who, new)
      /\ version = 2 => MemOfIs(h, e, who, new)
  BY <1>0, <1>2, <1>3, CreateProcess
<1>5. PICK c : c = Written(e, new, e.cpu[old], e.mem[old])
  OBVIOUS
<1>6. /\ e.cpu[old] \in Quotas \union {Unlimited, Nothing}
      /\ e.mem[old] \in Mem \union {Unlimited, Nothing}
  BY <1>4 DEF Cgroups
<1>7. /\ c \in Cgroups /\ CpuIs(e, c, new, e.cpu[old]) /\ MemIs(e, c, new, e.mem[old])
      /\ c.cpuOf = e.cpuOf /\ c.memOf = e.memOf
  BY <1>4, <1>5, <1>6, BothWritten
<1>8. PICK d : d = Written(c, old, Nothing, Nothing)
  OBVIOUS
<1>9. /\ d \in Cgroups /\ CpuIs(c, d, old, Nothing) /\ MemIs(c, d, old, Nothing)
      /\ d.cpuOf = c.cpuOf /\ d.memOf = c.memOf
  <2>1. /\ Nothing \in Quotas \union {Unlimited, Nothing}
        /\ Nothing \in Mem \union {Unlimited, Nothing}
    OBVIOUS
  <2>. QED BY <1>7, <1>8, <2>1, BothWritten
<1>10. /\ g.cpu[old] = Nothing => r = Done(g)
       /\ r \in {Done(g), Failed(h), Done(e), Failed(c), Done(d)}
       /\ g.cpu[old] # Nothing /\ version # 1 =>
            \/ r \in {Failed(h), Failed(c)}
            \/ r = Done(d) /\ \A q \in Who : c.cpuOf[q] # old
  <2>1. r = IF g.cpu[old] = Nothing THEN Done(g)
            ELSE IF p # NoPid /\ proc[p] = Nothing THEN Failed(h)
            ELSE IF version = 1 THEN Done(e)
            ELSE IF busy \/ \E q \in Who : c.cpuOf[q] = old THEN Failed(c)
            ELSE Done(d)
    <3>1. c = [e EXCEPT !.cpu[new] = e.cpu[old], !.mem[new] = e.mem[old]]
      BY <1>5 DEF Written
    <3>2. d = [c EXCEPT !.cpu[old] = Nothing, !.mem[old] = Nothing]
      BY <1>8 DEF Written
    <3>. QED BY <1>1, <1>3, <3>1, <3>2 DEF RenameCgrp
  <2>. QED BY <2>1, Zenon
<1>11. \A x : Done(x).ok = TRUE /\ Done(x).g = x /\ Failed(x).ok = FALSE /\ Failed(x).g = x
  BY DEF Done, Failed
<1>12. r.ok \in BOOLEAN /\ r.g \in Cgroups /\ (g.cpu[old] = Nothing => r.g = g)
  <2>1. r.ok \in BOOLEAN
    BY <1>10, <1>11
  <2>2. r.g \in {g, h, e, c, d}
    BY <1>10, <1>11
  <2>3. g.cpu[old] = Nothing => r.g = g
    BY <1>10, <1>11
  <2>. QED BY <1>2, <1>4, <1>7, <1>9, <2>1, <2>2, <2>3
<1>13. ASSUME r.ok, g.cpu[old] # Nothing, version # 1
       PROVE  /\ r.g = d /\ new # old
  <2>1. r = Done(d) /\ \A q \in Who : c.cpuOf[q] # old
    BY <1>10, <1>11, <1>13, Zenon
  <2>2. c.cpuOf[who] = new
    BY <1>0, <1>4, <1>7 DEF CpuOfIs
  <2>. QED BY <1>0, <1>11, <2>1, <2>2, Zenon
<1>14. ASSUME new # old
       PROVE  /\ \A m \in Name : d.cpu[m] = IF m = old THEN Nothing
                                            ELSE IF m = new THEN g.cpu[old] ELSE g.cpu[m]
              /\ \A m \in Name : d.mem[m] = IF m = old THEN Nothing
                                            ELSE IF m = new THEN g.mem[old] ELSE g.mem[m]
              /\ CpuOfIs(g, d, who, new)
              /\ version = 2 => MemOfIs(g, d, who, new)
  <2>1. e.cpu[old] = g.cpu[old] /\ e.mem[old] = g.mem[old]
    BY <1>2, <1>4, <1>14 DEF CpuIs, MemIs, SameLimits
  <2>2. \A m \in Name \ {new} : e.cpu[m] = g.cpu[m] /\ e.mem[m] = g.mem[m]
    BY <1>2, <1>4 DEF CpuIs, MemIs, SameLimits
  <2>3. \A m \in Name : d.cpu[m] = IF m = old THEN Nothing
                                   ELSE IF m = new THEN g.cpu[old] ELSE g.cpu[m]
    BY <1>7, <1>9, <1>14, <2>1, <2>2 DEF CpuIs
  <2>4. \A m \in Name : d.mem[m] = IF m = old THEN Nothing
                                   ELSE IF m = new THEN g.mem[old] ELSE g.mem[m]
    BY <1>7, <1>9, <1>14, <2>1, <2>2 DEF MemIs
  <2>5. CpuOfIs(g, d, who, new) /\ (version = 2 => MemOfIs(g, d, who, new))
    BY <1>2, <1>4, <1>7, <1>9 DEF CpuOfIs, MemOfIs
  <2>. QED BY <2>3, <2>4, <2>5
<1>. QED BY <1>12, <1>13, <1>14

-----------------------------------------------------------------------------
\* Types.

\* The tables keep their types whatever names are in them.
LEMMA EntryTypes ==
  ASSUME NEW t \in Seq(Record), NEW i \in DOMAIN t
  PROVE  t[i].name \in Name /\ t[i].repo \in Repo /\ t[i].pid \in Pid \union {NoPid}
<1>1. t[i] \in Record
  OBVIOUS
<1>. QED BY <1>1 DEF Record

LEMMA EditTypes ==
  ASSUME NEW t \in Seq(Record), NEW i \in DOMAIN t,
         NEW n \in Name, NEW p \in Pid \union {NoPid}
  PROVE  [t EXCEPT ![i].name = n] \in Seq(Record) /\ [t EXCEPT ![i].pid = p] \in Seq(Record)
<1>1. t[i] \in Record
  OBVIOUS
<1>2. [t[i] EXCEPT !.name = n] \in Record /\ [t[i] EXCEPT !.pid = p] \in Record
  BY <1>1 DEF Record
<1>. QED BY <1>2

LEMMA LimitTypes ==
  ASSUME NEW t \in Seq(Limit), NEW n \in Name, NEW m,
         NEW cpu \in FileCpus \union {0}, NEW mem \in Mem \union {0}
  PROVE  /\ CreateLimit(t, n, cpu, mem) \in Seq(Limit)
         /\ RemoveLimit(t, m) \in Seq(Limit)
         /\ RenameLimit(t, m, n) \in Seq(Limit)
<1>1. /\ Has(t, m) => Index(t, m) \in DOMAIN t
      /\ Has(t, n) => Index(t, n) \in DOMAIN t
  BY HasIndex
<1>2. PICK e : e = [name |-> n, cpu |-> cpu, mem |-> mem]
  OBVIOUS
<1>3. e \in Limit
  BY <1>2 DEF Limit
<1>4. CreateLimit(t, n, cpu, mem) \in Seq(Limit)
  <2>1. CreateLimit(t, n, cpu, mem) =
          IF Has(t, n) THEN [t EXCEPT ![Index(t, n)] = e] ELSE Append(t, e)
    BY <1>2 DEF CreateLimit
  <2>. QED BY <1>1, <1>3, <2>1
<1>5. RemoveLimit(t, m) \in Seq(Limit)
  BY <1>1, WithoutEntries DEF RemoveLimit
<1>6. RenameLimit(t, m, n) \in Seq(Limit)
  <2>1. CASE Has(t, m)
    <3>1. t[Index(t, m)] \in Limit
      BY <1>1, <2>1
    <3>2. [t[Index(t, m)] EXCEPT !.name = n] \in Limit
      BY <3>1 DEF Limit
    <3>. QED BY <1>1, <2>1, <3>2 DEF RenameLimit
  <2>. QED BY <2>1 DEF RenameLimit
<1>. QED BY <1>4, <1>5, <1>6

\* TypeOK in parts that the steps change together.
Disk ==
    /\ projects \in Seq(Record) /\ limits \in Seq(Limit)
    /\ env \in [Name -> Value \union {Nothing}] /\ jobs \in Jobs
Memory ==
    /\ services \in Seq(Record) /\ limitTable \in Seq(Limit)
    /\ envTable \in [Name -> Value \union {Nothing}] /\ jobTable \in Jobs
    /\ gone \subseteq {"services", "limits", "envs"}
Machine ==
    /\ folder \in [Name -> Repo \union {Nothing}] /\ cgroup \in Cgroups
    /\ version \in {1, 2} /\ proc \in [Pid -> Repo \union {Nothing}]
Flags ==
    /\ pc \in PC
    /\ reformatState \in BOOLEAN /\ reformatLimits \in BOOLEAN /\ applied \in BOOLEAN
    /\ budget \in [invocations : Nat, commands : Nat, faults : Nat]
    /\ happened \subseteq Happenings

LEMMA TypeParts == TypeOK <=> Disk /\ Memory /\ Machine /\ Flags
  BY DEF TypeOK, Disk, Memory, Machine, Flags

LEMMA TypesInit == Init => TypeOK
<1> SUFFICES ASSUME Init PROVE TypeOK
  OBVIOUS
<1>1. projects \in Seq(Record)
  BY ResourcesAssumption DEF Init
<1>2. \A i \in DOMAIN projects : projects[i].repo \in Repo
  BY <1>1, EntryTypes
<1>3. Disk
  <2>1. limits \in Seq(Limit)
    BY DEF Init
  <2>. QED BY <1>1, <2>1 DEF Init, Disk
<1>4. Memory
  <2>1. services \in Seq(Record) /\ limitTable \in Seq(Limit)
    BY DEF Init
  <2>. QED BY <2>1 DEF Init, Memory
<1>5. folder \in [Name -> Repo \union {Nothing}]
  <2>1. \A n \in Name : Has(projects, n) => projects[Index(projects, n)].repo \in Repo
    BY <1>2, HasIndex
  <2>. QED BY <2>1 DEF Init
<1>6. cgroup \in Cgroups
  BY DEF Init, Cgroups
<1>7. proc \in [Pid -> Repo \union {Nothing}]
  <2> DEFINE Of(p) == CHOOSE i \in DOMAIN projects : projects[i].pid = p
  <2>1. \A p \in Pid : (\E i \in DOMAIN projects : projects[i].pid = p) => Of(p) \in DOMAIN projects
    OBVIOUS
  <2>2. \A p \in Pid : (\E i \in DOMAIN projects : projects[i].pid = p) => projects[Of(p)].repo \in Repo
    BY <1>2, <2>1
  <2>. QED BY <2>2 DEF Init
<1>8. Machine
  BY <1>5, <1>6, <1>7 DEF Init, Machine
<1>9. Flags
  BY DEF Init, Flags, PC, Happenings
<1>. QED BY <1>3, <1>4, <1>8, <1>9, TypeParts

\* Steps that leave the files, as all but the saves do.
LEMMA CommandTypes ==
  ASSUME TypeOK, Command, UNCHANGED files, Memory', Machine',
         pc' \in PC, reformatState' \in BOOLEAN, reformatLimits' \in BOOLEAN,
         UNCHANGED applied, happened' \subseteq Happenings
  PROVE  TypeOK'
<1>1. Disk'
  BY TypeParts DEF Disk, files
<1>2. budget' \in [invocations : Nat, commands : Nat, faults : Nat]
  BY TypeParts DEF Command, Flags
<1>3. Flags'
  BY <1>2, TypeParts DEF Flags
<1>4. Disk' /\ Memory' /\ Machine' /\ Flags'
  BY <1>1, <1>3
<1>. QED BY <1>4 DEF TypeOK, Disk, Memory, Machine, Flags

LEMMA OffTypes ==
  ASSUME TypeOK, Off, Disk', UNCHANGED <<jobs, folder, version, proc, applied>>,
         cgroup' = Leave(cgroup, Mrn),
         budget' \in [invocations : Nat, commands : Nat, faults : Nat],
         happened' \subseteq Happenings
  PROVE  TypeOK'
<1>1. Memory'
  <2>1. services' \in Seq(Record) /\ limitTable' \in Seq(Limit)
    BY DEF Off
  <2>. QED BY <2>1, TypeParts DEF Off, Memory, Disk
<1>2. Machine'
  BY LeaveFacts, TypeParts DEF Machine, Who
<1>3. Flags'
  BY TypeParts DEF Off, Flags, PC
<1>. QED BY <1>1, <1>2, <1>3 DEF TypeOK, Disk, Memory, Machine, Flags

LEMMA CrashTypes == ASSUME TypeOK, Crash PROVE TypeOK'
<1>1. Disk'
  BY TypeParts DEF Crash, Disk, files
<1>2. budget' \in [invocations : Nat, commands : Nat, faults : Nat]
  BY TypeParts DEF Crash, Flags
<1>3. happened' \subseteq Happenings
  BY TypeParts DEF Crash, Note, Flags, Happenings
<1>. QED BY <1>1, <1>2, <1>3, OffTypes DEF Crash, files

LEMMA NameTypes ==
  ASSUME TypeOK, Add \/ Remove \/ Rename \/ NotThere PROVE TypeOK'
<1>0. Disk /\ Memory /\ Machine /\ Flags
  BY TypeParts
<1>1. ASSUME NEW W \in SUBSET Happenings, Note(W) PROVE happened' \subseteq Happenings
  BY <1>0, <1>1 DEF Note, Flags
<1>2. Late \in SUBSET Happenings
  BY DEF Late, Happenings
<1>3. CASE Add
  <2>1. PICK n \in Name, r \in Repo :
          \/ /\ pc' = "services"
             /\ UNCHANGED <<folder, services>>
          \/ /\ folder' = [folder EXCEPT ![n] = r]
             /\ services' = Append(services, [name |-> n, repo |-> r, pid |-> NoPid])
             /\ UNCHANGED pc
    BY <1>3 DEF Add
  <2>2. /\ Command /\ Note(Late)
        /\ UNCHANGED <<files, cgroup, version, proc, limitTable, envTable, jobTable, gone, flags>>
    BY <1>3 DEF Add
  <2>3. services' \in Seq(Record) /\ folder' \in [Name -> Repo \union {Nothing}] /\ pc' \in PC
    <3>1. PICK e : e = [name |-> n, repo |-> r, pid |-> NoPid]
      OBVIOUS
    <3>2. e \in Record
      BY <3>1 DEF Record
    <3>3. Append(services, e) \in Seq(Record)
      BY <1>0, <3>2 DEF Memory
    <3>4. services' \in Seq(Record)
      BY <1>0, <2>1, <3>1, <3>3 DEF Memory
    <3>. QED BY <1>0, <2>1, <3>4 DEF Machine, Flags, PC
  <2>4. Memory' /\ Machine'
    BY <1>0, <2>2, <2>3 DEF Memory, Machine
  <2>5. reformatState' \in BOOLEAN /\ reformatLimits' \in BOOLEAN /\ UNCHANGED applied
    BY <1>0, <2>2 DEF flags, Flags
  <2>6. happened' \subseteq Happenings
    BY <1>1, <1>2, <2>2
  <2>. QED BY <2>2, <2>3, <2>4, <2>5, <2>6, CommandTypes
<1>4. CASE Remove
  <2>1. /\ Command /\ Note(Late) /\ reformatLimits' = TRUE
        /\ UNCHANGED <<files, version, pc, envTable, jobTable, reformatState, applied>>
    BY <1>4 DEF Remove
  <2>2. PICK i \in DOMAIN services :
          LET s == services[i]
              t == Without(services, i)
              l == RemoveLimit(limitTable, s.name)
          IN  /\ folder' = [folder EXCEPT ![s.name] = Nothing]
              /\ services' = t /\ limitTable' = l
              /\ gone' = Emptied(services, t, "services")
                           \union Emptied(limitTable, l, "limits")
              /\ proc' = IF s.pid = NoPid THEN proc ELSE [proc EXCEPT ![s.pid] = Nothing]
              /\ cgroup' = IF s.pid = NoPid THEN cgroup ELSE Leave(cgroup, s.pid)
    BY <1>4 DEF Remove
  <2>3. /\ services[i].name \in Name
        /\ services[i].pid \in Pid \union {NoPid}
    BY <1>0, EntryTypes DEF Memory
  <2>4. services' \in Seq(Record) /\ limitTable' \in Seq(Limit)
    <3>1. limitTable' = RemoveLimit(limitTable, services[i].name)
      BY <2>2
    <3>2. 0 \in FileCpus \union {0} /\ 0 \in Mem \union {0}
      OBVIOUS
    <3>3. limitTable' \in Seq(Limit)
      BY <1>0, <2>3, <3>1, <3>2, LimitTypes DEF Memory
    <3>. QED BY <1>0, <2>2, <3>3, WithoutEntries DEF Memory
  <2>5. Memory'
    BY <1>0, <2>1, <2>2, <2>4 DEF Memory, Emptied
  <2>6. cgroup' \in Cgroups
    <3>1. services[i].pid # NoPid => services[i].pid \in Who
      BY <2>3 DEF Who
    <3>. QED BY <1>0, <2>2, <3>1, LeaveFacts DEF Machine
  <2>7. Machine'
    BY <1>0, <2>1, <2>2, <2>3, <2>6 DEF Machine
  <2>8. happened' \subseteq Happenings
    BY <1>1, <1>2, <2>1
  <2>. QED BY <1>0, <2>1, <2>5, <2>7, <2>8, CommandTypes DEF Flags
<1>5. CASE Rename
  <2>1. /\ Command /\ reformatLimits' = TRUE
        /\ UNCHANGED <<files, version, proc, pc, envTable, jobTable, gone,
                       reformatState, applied>>
    BY <1>5 DEF Rename
  <2>2. PICK i \in DOMAIN services, new \in Name, busy \in BOOLEAN :
          LET s   == services[i]
              res == RenameCgrp(cgroup, s.name, new, s.pid, busy)
          IN  /\ MovesFolder(s.name, new) /\ busy \in MayBeBusy(s.pid)
              /\ cgroup' = res.g
              /\ IF res.ok /\ "limits" \notin gone
                 THEN /\ folder' = Moved(s.name, new)
                      /\ services' = [services EXCEPT ![i].name = new]
                      /\ limitTable' = RenameLimit(limitTable, s.name, new)
                      /\ Note(Late \union (IF version = 1 /\ cgroup.cpu[s.name] # Nothing
                                            THEN {"lost"} ELSE {}))
                 ELSE /\ Note({"undone"})
                      /\ UNCHANGED <<folder, services, limitTable>>
    BY <1>5 DEF Rename
  <2>3. /\ services[i].name \in Name
        /\ services[i].pid \in Pid \union {NoPid}
    BY <1>0, EntryTypes DEF Memory
  <2>4. cgroup' \in Cgroups
    <3>1. PICK r : r = RenameCgrp(cgroup, services[i].name, new, services[i].pid, busy)
      OBVIOUS
    <3>2. r.g \in Cgroups
      BY <1>0, <2>3, <3>1, RenameCgrpFacts DEF Machine
    <3>. QED BY <2>2, <3>1, <3>2
  <2>5. folder' \in [Name -> Repo \union {Nothing}]
    <3>1. Moved(services[i].name, new) \in [Name -> Repo \union {Nothing}]
      BY <1>0, <2>3 DEF Machine, Moved
    <3>. QED BY <1>0, <2>2, <3>1 DEF Machine
  <2>6. services' \in Seq(Record)
    <3>1. [services EXCEPT ![i].name = new] \in Seq(Record)
      BY <1>0, <2>3, EditTypes DEF Memory
    <3>. QED BY <1>0, <2>2, <3>1 DEF Memory
  <2>7. limitTable' \in Seq(Limit)
    <3>1. 0 \in FileCpus \union {0} /\ 0 \in Mem \union {0}
      OBVIOUS
    <3>2. RenameLimit(limitTable, services[i].name, new) \in Seq(Limit)
      BY <1>0, <3>1, LimitTypes DEF Memory
    <3>. QED BY <1>0, <2>2, <3>2 DEF Memory
  <2>8. Memory' /\ Machine'
    BY <1>0, <2>1, <2>4, <2>5, <2>6, <2>7 DEF Memory, Machine
  <2>9. happened' \subseteq Happenings
    <3>1. /\ (Late \union (IF version = 1 /\ cgroup.cpu[services[i].name] # Nothing
                            THEN {"lost"} ELSE {})) \in SUBSET Happenings
          /\ {"undone"} \in SUBSET Happenings
      BY <1>2 DEF Happenings
    <3>. QED BY <1>1, <2>2, <3>1
  <2>. QED BY <1>0, <2>1, <2>8, <2>9, CommandTypes DEF Flags
<1>6. CASE NotThere
  <2>1. /\ Command /\ reformatLimits' = TRUE
        /\ UNCHANGED <<files, machine, pc, tables, reformatState, applied, happened>>
    BY <1>6 DEF NotThere
  <2>2. Memory' /\ Machine'
    BY <1>0, <2>1 DEF Memory, Machine, machine, tables
  <2>. QED BY <1>0, <2>1, <2>2, CommandTypes DEF Flags
<1>. QED BY <1>3, <1>4, <1>5, <1>6

LEMMA ProcessTypes ==
  ASSUME TypeOK, Run \/ Stop \/ Restart PROVE TypeOK'
<1>0. Disk /\ Memory /\ Machine /\ Flags
  BY TypeParts
<1>1. \A i \in DOMAIN services : /\ services[i].name \in Name /\ services[i].repo \in Repo
                                 /\ services[i].pid \in Pid \union {NoPid}
  BY <1>0, EntryTypes DEF Memory
<1>2. ASSUME NEW i \in DOMAIN services, NEW p \in Pid \union {NoPid}
      PROVE  [services EXCEPT ![i].pid = p] \in Seq(Record)
  BY <1>0, <1>1, EditTypes DEF Memory
<1>3. CASE Run
  <2>1. /\ Command
        /\ UNCHANGED <<files, folder, version, pc, limitTable, envTable, jobTable, gone, flags>>
    BY <1>3 DEF Run
  <2>2. PICK i \in DOMAIN services, p \in Pid :
          /\ Spawn(i, p, cgroup)
          /\ Note((IF Has(limitTable, services[i].name) THEN {"outside"} ELSE {})
                    \union Reused(p))
    BY <1>3 DEF Run
  <2>3. Memory'
    BY <1>0, <1>2, <2>1, <2>2 DEF Memory, Spawn
  <2>4. Machine'
    <3>1. Inherit(cgroup, p) \in Cgroups
      BY <1>0, InheritFacts DEF Machine, Who
    <3>. QED BY <1>0, <1>1, <2>1, <2>2, <3>1 DEF Machine, Spawn
  <2>5. happened' \subseteq Happenings
    BY <1>0, <2>2 DEF Note, Reused, Flags, Happenings
  <2>. QED BY <1>0, <2>1, <2>3, <2>4, <2>5, CommandTypes DEF Flags, flags
<1>4. CASE Stop
  <2>1. /\ Command
        /\ UNCHANGED <<files, folder, version, pc, limitTable, envTable, jobTable, gone,
                       flags, happened>>
    BY <1>4 DEF Stop
  <2>2. PICK i \in DOMAIN services :
          LET s == services[i] IN
          /\ s.pid # NoPid
          /\ proc' = [proc EXCEPT ![s.pid] = Nothing]
          /\ services' = [services EXCEPT ![i].pid = NoPid]
          /\ LET g == Leave(cgroup, s.pid) IN
              cgroup' = IF g.cpu[s.name] = Nothing THEN g
                        ELSE EnterMem(EnterCpu(g, s.name, Mrn), s.name, Mrn)
    BY <1>4 DEF Stop
  <2>3. Memory'
    BY <1>0, <1>2, <2>1, <2>2 DEF Memory
  <2>4. cgroup' \in Cgroups
    <3>1. Mrn \in Who /\ services[i].pid \in Who
      BY <1>1, <2>2 DEF Who
    <3>2. PICK g : g = Leave(cgroup, services[i].pid)
      OBVIOUS
    <3>3. g \in Cgroups
      BY <1>0, <3>1, <3>2, LeaveFacts DEF Machine
    <3>4. PICK h : h = EnterCpu(g, services[i].name, Mrn)
      OBVIOUS
    <3>5. h \in Cgroups
      BY <1>1, <3>1, <3>3, <3>4, EnterFacts
    <3>6. EnterMem(h, services[i].name, Mrn) \in Cgroups
      BY <1>1, <3>1, <3>5, EnterFacts
    <3>. QED BY <2>2, <3>2, <3>3, <3>4, <3>6
  <2>5. Machine'
    BY <1>0, <1>1, <2>1, <2>2, <2>4 DEF Machine
  <2>. QED BY <1>0, <2>1, <2>3, <2>5, CommandTypes DEF Flags, flags
<1>5. CASE Restart
  <2>1. /\ Command
        /\ UNCHANGED <<files, folder, version, limitTable, envTable, jobTable, gone, flags>>
    BY <1>5 DEF Restart
  <2>2. PICK i \in DOMAIN services, p \in Pid :
        LET s    == services[i]
            left == IF s.pid = NoPid THEN cgroup ELSE Leave(cgroup, s.pid)
            dead == IF s.pid = NoPid THEN proc ELSE [proc EXCEPT ![s.pid] = Nothing]
        IN  /\ services' = [services EXCEPT ![i].pid = p]
            /\ Note(IF p = s.pid THEN {} ELSE Reused(p))
            /\ IF version = 2 /\ cgroup.cpu[s.name] # Nothing
               THEN /\ proc' = [dead EXCEPT ![p] = s.repo]
                    /\ cgroup' = Enter(left, s.name, p)
                    /\ UNCHANGED pc
               ELSE /\ proc' = dead
                    /\ cgroup' = left
                    /\ pc' = "services"
    BY <1>5 DEF Restart
  <2>3. Memory'
    BY <1>0, <1>2, <2>1, <2>2 DEF Memory
  <2>4. PICK left : left = IF services[i].pid = NoPid THEN cgroup ELSE Leave(cgroup, services[i].pid)
    OBVIOUS
  <2>5. PICK dead : dead = IF services[i].pid = NoPid THEN proc
                           ELSE [proc EXCEPT ![services[i].pid] = Nothing]
    OBVIOUS
  <2>6. left \in Cgroups /\ dead \in [Pid -> Repo \union {Nothing}]
    <3>1. services[i].pid # NoPid => services[i].pid \in Who
      BY <1>1 DEF Who
    <3>. QED BY <1>0, <1>1, <2>4, <2>5, <3>1, LeaveFacts DEF Machine
  <2>7. Enter(left, services[i].name, p) \in Cgroups
    BY <1>1, <2>6, CreateProcess DEF Who
  <2>8. Machine' /\ pc' \in PC
    <3>1. \/ /\ proc' = [dead EXCEPT ![p] = services[i].repo]
             /\ cgroup' = Enter(left, services[i].name, p)
             /\ UNCHANGED pc
          \/ /\ proc' = dead
             /\ cgroup' = left
             /\ pc' = "services"
      BY <2>2, <2>4, <2>5
    <3>2. cgroup' \in Cgroups /\ proc' \in [Pid -> Repo \union {Nothing}] /\ pc' \in PC
      BY <1>0, <1>1, <2>6, <2>7, <3>1 DEF Flags, PC
    <3>. QED BY <1>0, <2>1, <3>2 DEF Machine
  <2>9. happened' \subseteq Happenings
    BY <1>0, <2>2 DEF Note, Reused, Flags, Happenings
  <2>. QED BY <1>0, <2>1, <2>3, <2>8, <2>9, CommandTypes DEF Flags, flags
<1>. QED BY <1>3, <1>4, <1>5

\* What set-limit leaves of both, of a service that runs.
LEMMA SetLimitFacts ==
  ASSUME TypeOK, NEW s \in Record, NEW kind,
         NEW cpu \in Cpu \union {0}, NEW mem \in Mem \union {0}, cpu # 0 \/ mem # 0,
         NEW r \in IF cpu = 0 THEN SetMemoryLimit(s, mem, kind)
                  ELSE SetCpuResourceLimit(s, cpu, mem, kind)
  PROVE  /\ r.ok \in BOOLEAN /\ r.g \in Cgroups
         /\ \/ s.pid = NoPid /\ r.g = cgroup /\ r.t = limitTable
            \/ /\ s.pid # NoPid
               /\ r.t = IF r.ok THEN CreateLimit(limitTable, s.name, InFile(cpu), mem) ELSE limitTable
               /\ r.ok =>
                    /\ CpuIs(cgroup, r.g, s.name, IF cpu = 0 THEN Kept(cgroup.cpu[s.name]) ELSE Quota[cpu])
                    /\ MemIs(cgroup, r.g, s.name, IF mem = 0 THEN Kept(cgroup.mem[s.name]) ELSE mem)
                    /\ CpuOfIs(cgroup, r.g, s.pid, s.name)
                    /\ mem # 0 => MemOfIs(cgroup, r.g, s.pid, s.name)
                    /\ \A q \in Who \ {s.pid} : r.g.memOf[q] = cgroup.memOf[q]
<1>0. /\ s.name \in Name /\ s.pid \in Pid \union {NoPid}
      /\ cgroup \in Cgroups
  BY TypeParts DEF Machine, Record
<1>1. CASE s.pid = NoPid
  <2>1. r \in NotRunning
    BY <1>1 DEF SetMemoryLimit, SetCpuResourceLimit
  <2>2. r.ok = TRUE /\ r.g = cgroup /\ r.t = limitTable
    BY <2>1 DEF NotRunning
  <2>. QED BY <1>0, <1>1, <2>2
<1>2. CASE s.pid # NoPid
  <2>0. s.pid \in Pid
    BY <1>0, <1>2
  <2>1. ASSUME NEW x, x.ok \in BOOLEAN, r = Recorded(s.name, InFile(cpu), mem, x)
        PROVE  /\ r.ok \in BOOLEAN /\ r.g = x.g /\ (r.ok => x.ok)
               /\ r.t = IF r.ok THEN CreateLimit(limitTable, s.name, InFile(cpu), mem) ELSE limitTable
    <3>1. PICK ok : ok = (x.ok /\ "limits" \notin gone)
      OBVIOUS
    <3>2. ok \in BOOLEAN /\ (ok => x.ok)
      BY <2>1, <3>1
    <3>3. r = [ok |-> ok, g |-> x.g,
               t |-> IF ok THEN CreateLimit(limitTable, s.name, InFile(cpu), mem) ELSE limitTable]
      BY <2>1, <3>1 DEF Recorded
    <3>4. /\ r.ok = ok /\ r.g = x.g
          /\ r.t = IF ok THEN CreateLimit(limitTable, s.name, InFile(cpu), mem) ELSE limitTable
      BY <3>3
    <3>. QED BY <3>2, <3>4, Zenon
  <2>2. CASE cpu = 0
    <3>1. mem \in Mem /\ mem # 0
      BY <2>2
    <3>2. PICK x \in LimitMm(cgroup, s.name, s.pid, mem, kind) : r = Recorded(s.name, 0, mem, x)
      BY <1>2, <2>2 DEF SetMemoryLimit
    <3>3. /\ x.ok \in BOOLEAN /\ x.g \in Cgroups
          /\ x.ok => /\ CpuIs(cgroup, x.g, s.name, Kept(cgroup.cpu[s.name]))
                     /\ MemIs(cgroup, x.g, s.name, mem)
                     /\ CpuOfIs(cgroup, x.g, s.pid, s.name) /\ MemOfIs(cgroup, x.g, s.pid, s.name)
      BY <1>0, <2>0, <3>1, <3>2, LimitMmFacts
    <3>4. r = Recorded(s.name, InFile(cpu), mem, x)
      BY <2>2, <3>2 DEF InFile
    <3>5. /\ r.ok \in BOOLEAN /\ r.g = x.g /\ (r.ok => x.ok)
          /\ r.t = IF r.ok THEN CreateLimit(limitTable, s.name, InFile(cpu), mem) ELSE limitTable
      BY <2>1, <3>3, <3>4
    <3>6. x.ok => \A q \in Who \ {s.pid} : x.g.memOf[q] = cgroup.memOf[q]
      BY <3>3 DEF MemOfIs
    <3>. QED BY <1>2, <2>2, <3>1, <3>3, <3>5, <3>6
  <2>3. CASE cpu # 0
    <3>1. cpu \in Cpu
      BY <2>3
    <3>2. PICK x \in LimitCpuAndMemory(cgroup, s.name, s.pid, cpu, mem, kind) :
            r = Recorded(s.name, InFile(cpu), mem, x)
      BY <1>2, <2>3 DEF SetCpuResourceLimit, InFile
    <3>3. /\ x.ok \in BOOLEAN /\ x.g \in Cgroups
          /\ x.ok => /\ CpuIs(cgroup, x.g, s.name, Quota[cpu])
                     /\ MemIs(cgroup, x.g, s.name, IF mem = 0 THEN Kept(cgroup.mem[s.name]) ELSE mem)
                     /\ CpuOfIs(cgroup, x.g, s.pid, s.name)
                     /\ mem # 0 => MemOfIs(cgroup, x.g, s.pid, s.name)
                     /\ \A q \in Who \ {s.pid} : x.g.memOf[q] = cgroup.memOf[q]
      BY <1>0, <2>0, <3>1, <3>2, LimitCpuAndMemoryFacts
    <3>4. /\ r.ok \in BOOLEAN /\ r.g = x.g /\ (r.ok => x.ok)
          /\ r.t = IF r.ok THEN CreateLimit(limitTable, s.name, InFile(cpu), mem) ELSE limitTable
      BY <2>1, <3>2, <3>3
    <3>. QED BY <1>2, <2>3, <3>3, <3>4
  <2>. QED BY <2>2, <2>3
<1>. QED BY <1>1, <1>2

LEMMA LimitCommandTypes ==
  ASSUME TypeOK, SetLimit \/ SetLimitOfNobody PROVE TypeOK'
<1>0. Disk /\ Memory /\ Machine /\ Flags
  BY TypeParts
<1>1. CASE SetLimit
  <2>1. /\ Command
        /\ UNCHANGED <<files, folder, version, proc, services, envTable, jobTable, gone,
                       reformatState, applied>>
    BY <1>1 DEF SetLimit
  <2>2. PICK i \in DOMAIN services, kind \in Kind,
             cpu \in Cpu \union {0}, mem \in Mem \union {0} :
          /\ cpu # 0 \/ mem # 0
          /\ \E r \in IF cpu = 0 THEN SetMemoryLimit(services[i], mem, kind)
                      ELSE SetCpuResourceLimit(services[i], cpu, mem, kind) :
               /\ cgroup' = r.g
               /\ limitTable' = r.t
               /\ pc' = IF r.ok THEN "main" ELSE "services"
               /\ reformatLimits' = (reformatLimits \/ SavedAfter(cpu, kind, r.ok))
               /\ Note((IF r.ok THEN {} ELSE {"partial"})
                         \union (IF r.ok /\ cpu # 0 /\ kind # "standard"
                                 THEN {"unsaved"} ELSE {}))
    BY <1>1 DEF SetLimit
  <2>3. PICK r \in IF cpu = 0 THEN SetMemoryLimit(services[i], mem, kind)
                   ELSE SetCpuResourceLimit(services[i], cpu, mem, kind) :
               /\ cgroup' = r.g
               /\ limitTable' = r.t
               /\ pc' = IF r.ok THEN "main" ELSE "services"
               /\ reformatLimits' = (reformatLimits \/ SavedAfter(cpu, kind, r.ok))
               /\ Note((IF r.ok THEN {} ELSE {"partial"})
                         \union (IF r.ok /\ cpu # 0 /\ kind # "standard"
                                 THEN {"unsaved"} ELSE {}))
    BY <2>2
  <2>4. services[i] \in Record /\ services[i].name \in Name
    BY <1>0, EntryTypes DEF Memory
  <2>5. /\ r.ok \in BOOLEAN /\ r.g \in Cgroups
        /\ r.t \in {limitTable, CreateLimit(limitTable, services[i].name, InFile(cpu), mem)}
    <3>1. /\ r.ok \in BOOLEAN /\ r.g \in Cgroups
          /\ \/ services[i].pid = NoPid /\ r.g = cgroup /\ r.t = limitTable
             \/ /\ services[i].pid # NoPid
                /\ r.t = IF r.ok THEN CreateLimit(limitTable, services[i].name, InFile(cpu), mem)
                         ELSE limitTable
      BY <2>2, <2>3, <2>4, SetLimitFacts
    <3>. QED BY <3>1
  <2>6. limitTable' \in Seq(Limit)
    <3>1. limitTable \in Seq(Limit) /\ limitTable' = r.t
      BY <1>0, <2>3 DEF Memory
    <3>2. CreateLimit(limitTable, services[i].name, InFile(cpu), mem) \in Seq(Limit)
      BY <2>4, <3>1, InFileTypes, LimitTypes
    <3>. QED BY <2>5, <3>1, <3>2
  <2>7. Memory' /\ Machine'
    BY <1>0, <2>1, <2>3, <2>5, <2>6 DEF Memory, Machine
  <2>8. pc' \in PC /\ reformatLimits' \in BOOLEAN
    BY <1>0, <2>3, <2>5 DEF PC, Flags, SavedAfter
  <2>9. happened' \subseteq Happenings
    BY <1>0, <2>3 DEF Note, Flags, Happenings
  <2>. QED BY <1>0, <2>1, <2>7, <2>8, <2>9, CommandTypes DEF Flags
<1>2. CASE SetLimitOfNobody
  <2>1. /\ Command
        /\ UNCHANGED <<files, machine, tables, reformatState, applied, happened>>
        /\ \E kind \in Kind, cpu \in Cpu \union {0}, ok \in BOOLEAN :
             /\ pc' = IF ok THEN "main" ELSE "services"
             /\ reformatLimits' = (reformatLimits \/ SavedAfter(cpu, kind, ok))
    BY <1>2 DEF SetLimitOfNobody
  <2>2. pc' \in PC /\ reformatLimits' \in BOOLEAN
    BY <1>0, <2>1 DEF PC, Flags, SavedAfter
  <2>3. Memory' /\ Machine'
    BY <1>0, <2>1 DEF Memory, Machine, machine, tables
  <2>. QED BY <1>0, <2>1, <2>2, <2>3, CommandTypes DEF Flags
<1>. QED BY <1>1, <1>2

LEMMA OtherTypes ==
  ASSUME TypeOK, AddEnv \/ UpdateEnv \/ RemoveEnv \/ Refuse \/ EditJobs PROVE TypeOK'
<1>0. Disk /\ Memory /\ Machine /\ Flags
  BY TypeParts
<1>1. Command /\ UNCHANGED <<files, machine, flags, happened, services, limitTable>>
  BY DEF AddEnv, UpdateEnv, RemoveEnv, Refuse, EditJobs, tables
<1>2. pc' \in PC
  BY <1>0 DEF AddEnv, UpdateEnv, RemoveEnv, Refuse, EditJobs, Command, PC, Flags
<1>3. envTable' \in [Name -> Value \union {Nothing}] /\ jobTable' \in Jobs
      /\ gone' \subseteq {"services", "limits", "envs"}
  BY <1>0 DEF AddEnv, UpdateEnv, RemoveEnv, Refuse, EditJobs, Memory, tables
<1>4. Memory' /\ Machine'
  BY <1>0, <1>1, <1>3 DEF Memory, Machine, machine
<1>. QED BY <1>0, <1>1, <1>2, <1>4, CommandTypes DEF Flags, flags

LEMMA EndTypes == ASSUME TypeOK, Destructor PROVE TypeOK'
<1>0. Disk /\ Memory /\ Machine /\ Flags
  BY TypeParts
<1>1. CASE Return \/ SaveServices \/ SaveJobs \/ SaveEnvs
  <2>1. UNCHANGED <<machine, tables, flags, budget, happened>>
    BY <1>1 DEF Return, SaveServices, SaveJobs, SaveEnvs
  <2>2. pc' \in PC
    BY <1>1 DEF Return, SaveServices, SaveJobs, SaveEnvs, PC
  <2>3. Disk'
    BY <1>0, <1>1 DEF Return, SaveServices, SaveJobs, SaveEnvs, Disk, Memory, files
  <2>4. Memory' /\ Machine' /\ Flags'
    BY <1>0, <2>1, <2>2 DEF Memory, Machine, Flags, machine, tables, flags
  <2>. QED BY <2>3, <2>4 DEF TypeOK, Disk, Memory, Machine, Flags
<1>2. CASE SaveLimits
  <2>1. Disk'
    BY <1>0, <1>2 DEF SaveLimits, Disk, Memory
  <2>. QED BY <1>0, <1>2, <2>1, OffTypes DEF SaveLimits, Flags
<1>. QED BY <1>1, <1>2 DEF Destructor

LEMMA TypesStep == TypeOK /\ [Next]_vars => TypeOK'
<1> SUFFICES ASSUME TypeOK, [Next]_vars PROVE TypeOK'
  OBVIOUS
<1>0. Disk /\ Memory /\ Machine /\ Flags
  BY TypeParts
<1>1. CASE UNCHANGED vars
  BY <1>1 DEF TypeOK, vars, files, machine, tables, flags
<1>2. CASE Begin
  <2>1. Memory' /\ Machine' /\ Disk'
    BY <1>0, <1>2 DEF Begin, Memory, Machine, Disk, files, machine
  <2>2. Flags'
    <3>1. budget' \in [invocations : Nat, commands : Nat, faults : Nat]
      BY <1>0, <1>2 DEF Begin, Flags
    <3>. QED BY <1>0, <1>2, <3>1 DEF Begin, Flags, PC
  <2>. QED BY <2>1, <2>2 DEF TypeOK, Disk, Memory, Machine, Flags
<1>3. CASE CommandStep
  BY <1>3, NameTypes, ProcessTypes, LimitCommandTypes, OtherTypes, CrashTypes
     DEF CommandStep, AddToNothing, RestartCrashes, AddEnvToNothing
<1>4. CASE Kill
  <2>1. Disk'
    BY <1>0, <1>4 DEF Kill, Disk, files
  <2>2. budget' \in [invocations : Nat, commands : Nat, faults : Nat]
    BY <1>0, <1>4 DEF Kill, Flags
  <2>3. happened' \subseteq Happenings
    BY <1>0, <1>4 DEF Kill, Note, Flags, Happenings
  <2>. QED BY <1>4, <2>1, <2>2, <2>3, OffTypes DEF Kill, files
<1>5. ASSUME NEW p \in Pid, Die(p) PROVE TypeOK'
  <2>1. Leave(cgroup, p) \in Cgroups
    BY <1>0, LeaveFacts DEF Machine, Who
  <2>2. Machine' /\ Memory' /\ Disk'
    BY <1>0, <1>5, <2>1 DEF Die, Machine, Memory, Disk, files, tables
  <2>3. Flags'
    BY <1>0, <1>5 DEF Die, Flags, flags
  <2>. QED BY <2>2, <2>3 DEF TypeOK, Disk, Memory, Machine, Flags
<1>. QED BY <1>1, <1>2, <1>3, <1>4, <1>5, EndTypes DEF Next

\* Files, arrays, folders and cgroups keep their types through every command,
\* failure and fault: what one invocation saves the next one can load.
THEOREM TypeCorrect == Spec => []TypeOK
BY TypesInit, TypesStep, PTL DEF Spec

-----------------------------------------------------------------------------
\* Entries, whatever their places: what each edit of a table leaves of them.

Entries(t) == {t[i] : i \in DOMAIN t}

LEMMA EntriesNamed ==
  ASSUME NEW t, DistinctNames(t)
  PROVE  /\ \A x, y \in Entries(t) : x.name = y.name => x = y
         /\ \A x \in Entries(t) : x.name \in Names(t)
         /\ \A i \in DOMAIN t : t[i] \in Entries(t)
         /\ \A n \in Names(t) : \E x \in Entries(t) : x.name = n
  BY DEF Entries, Names, DistinctNames

LEMMA EntriesTyped ==
  ASSUME NEW t, NEW S, t \in Seq(S) PROVE Entries(t) \subseteq S
  BY DEF Entries

LEMMA AppendEntries ==
  ASSUME NEW S, NEW t \in Seq(S), NEW e
  PROVE  Entries(Append(t, e)) \subseteq Entries(t) \union {e}
<1>1. /\ Len(t) \in Nat /\ DOMAIN t = 1..Len(t)
      /\ DOMAIN Append(t, e) = 1..(Len(t) + 1) /\ Append(t, e)[Len(t) + 1] = e
      /\ \A k \in 1..Len(t) : Append(t, e)[k] = t[k]
  OBVIOUS
<1>2. \A k \in DOMAIN Append(t, e) : k \in DOMAIN t \/ k = Len(t) + 1
  BY <1>1
<1>. QED BY <1>1, <1>2 DEF Entries

LEMMA PutEntries ==
  ASSUME NEW S, NEW t \in Seq(S), DistinctNames(t), NEW i \in DOMAIN t, NEW e
  PROVE  Entries(Put(t, i, e)) \subseteq {x \in Entries(t) : x.name # t[i].name} \union {e}
<1>1. /\ DOMAIN Put(t, i, e) = DOMAIN t /\ Put(t, i, e)[i] = e
      /\ \A k \in DOMAIN t \ {i} : Put(t, i, e)[k] = t[k]
  BY DEF Put
<1>2. \A k \in DOMAIN t \ {i} : t[k].name # t[i].name
  BY DEF DistinctNames
<1>. QED BY <1>1, <1>2 DEF Entries

LEMMA WithoutKeeps ==
  ASSUME NEW S, NEW t \in Seq(S), DistinctNames(t), NEW i \in DOMAIN t
  PROVE  Entries(Without(t, i)) \subseteq {x \in Entries(t) : x.name # t[i].name}
<1>1. \A k \in DOMAIN Without(t, i) :
        Before(i, k) \in DOMAIN t \ {i} /\ Without(t, i)[k] = t[Before(i, k)]
  BY WithoutEntries
<1>2. \A k \in DOMAIN t \ {i} : t[k].name # t[i].name
  BY DEF DistinctNames
<1>. QED BY <1>1, <1>2 DEF Entries

LEMMA LimitEntries ==
  ASSUME NEW t \in Seq(Limit), DistinctNames(t), NEW n, NEW cpu, NEW mem
  PROVE  /\ Entries(CreateLimit(t, n, cpu, mem)) \subseteq
              {x \in Entries(t) : x.name # n} \union {[name |-> n, cpu |-> cpu, mem |-> mem]}
         /\ Entries(RemoveLimit(t, n)) \subseteq {x \in Entries(t) : x.name # n}
<1>1. CASE Has(t, n)
  <2>1. PICK i : i = Index(t, n)
    OBVIOUS
  <2>2. i \in DOMAIN t /\ t[i].name = n
    BY <1>1, <2>1, HasIndex
  <2>3. PICK e : e = [name |-> n, cpu |-> cpu, mem |-> mem]
    OBVIOUS
  <2>4. /\ CreateLimit(t, n, cpu, mem) = Put(t, i, e)
        /\ RemoveLimit(t, n) = Without(t, i)
    BY <1>1, <2>1, <2>2, <2>3 DEF CreateLimit, RemoveLimit, Put
  <2>5. /\ Entries(Put(t, i, e)) \subseteq {x \in Entries(t) : x.name # n} \union {e}
        /\ Entries(Without(t, i)) \subseteq {x \in Entries(t) : x.name # n}
    BY <2>2, PutEntries, WithoutKeeps
  <2>. QED BY <2>3, <2>4, <2>5
<1>2. CASE ~Has(t, n)
  <2>1. \A x \in Entries(t) : x.name # n
    BY <1>2 DEF Has, Entries
  <2>2. PICK e : e = [name |-> n, cpu |-> cpu, mem |-> mem]
    OBVIOUS
  <2>3. CreateLimit(t, n, cpu, mem) = Append(t, e) /\ RemoveLimit(t, n) = t
    BY <1>2, <2>2 DEF CreateLimit, RemoveLimit
  <2>4. Entries(Append(t, e)) \subseteq Entries(t) \union {e}
    BY AppendEntries
  <2>. QED BY <2>1, <2>2, <2>3, <2>4
<1>. QED BY <1>1, <1>2

LEMMA RenamedEntries ==
  ASSUME NEW t \in Seq(Limit), DistinctNames(t), NEW n, NEW m,
         NEW x \in Entries(RenameLimit(t, n, m))
  PROVE  \/ x \in Entries(t) /\ x.name # n
         \/ \E y \in Entries(t) :
               y.name = n /\ x.name = m /\ x.cpu = y.cpu /\ x.mem = y.mem
<1>1. CASE Has(t, n)
  <2>1. PICK i : i = Index(t, n)
    OBVIOUS
  <2>2. i \in DOMAIN t /\ t[i].name = n /\ t[i] \in Entries(t) /\ t[i] \in Limit
    BY <1>1, <2>1, HasIndex DEF Entries
  <2>3. PICK f : f = [t[i] EXCEPT !.name = m]
    OBVIOUS
  <2>4. RenameLimit(t, n, m) = Put(t, i, f)
    BY <1>1, <2>1, <2>2, <2>3 DEF RenameLimit, Put
  <2>5. Entries(Put(t, i, f)) \subseteq {y \in Entries(t) : y.name # n} \union {f}
    BY <2>2, PutEntries
  <2>6. f.name = m /\ f.cpu = t[i].cpu /\ f.mem = t[i].mem
    BY <2>2, <2>3 DEF Limit
  <2>. QED BY <2>2, <2>4, <2>5, <2>6
<1>2. CASE ~Has(t, n)
  BY <1>2 DEF Has, Entries, RenameLimit
<1>. QED BY <1>1, <1>2

-----------------------------------------------------------------------------
\* The limits of the table and those of the cgroups.

Holding == Undisturbed({"killed", "crashed", "partial", "undone", "unsaved", "lost", "shifted"})

\* The limits a table asks for are set.
Held(l, g) ==
    \A x \in Entries(l) : /\ x.cpu # 0 => OfOneAmount(x.cpu, g.cpu[x.name])
                          /\ x.mem # 0 => g.mem[x.name] = x.mem

\* A cgroup is made, and removed, with both its limits.
Pairs(g) == \A n \in Name : g.cpu[n] = Nothing <=> g.mem[n] = Nothing

HoldInv ==
    Holding => /\ Pairs(cgroup)
               /\ pc = "off" => Held(limits, cgroup)
               /\ pc # "off" => Held(limitTable, cgroup)

\* What the invariants so far say of the arrays.
Arrays ==
    /\ services \in Seq(Record) /\ DistinctNames(services)
    /\ limitTable \in Seq(Limit) /\ DistinctNames(limitTable)
    /\ Names(limitTable) \subseteq Names(services) /\ Names(services) \subseteq Taken
    /\ Entries(services) \subseteq Record /\ Entries(limitTable) \subseteq Limit
    /\ cgroup \in Cgroups /\ version \in {1, 2} /\ proc \in [Pid -> Repo \union {Nothing}]

LEMMA ArraysSound == ASSUME TypeOK, TablesInv, Holding, pc # "off" PROVE Arrays
<1>1. Quiet
  BY DEF Holding, Quiet, Undisturbed
<1>2. /\ Sound(services) /\ SoundLimits(limitTable, services)
  BY <1>1 DEF TablesInv, InArrays
<1>3. cgroup \in Cgroups /\ version \in {1, 2} /\ proc \in [Pid -> Repo \union {Nothing}]
  BY DEF TypeOK
<1>4. Entries(services) \subseteq Record /\ Entries(limitTable) \subseteq Limit
  BY <1>2, EntriesTyped DEF Sound, SoundLimits
<1>. QED BY <1>2, <1>3, <1>4 DEF Arrays, Sound, SoundLimits

\* Fewer entries, and groups with the same limits, are still held.
LEMMA HeldStill ==
  ASSUME NEW l, NEW k, NEW g, NEW h, Held(l, g), Entries(k) \subseteq Entries(l),
         SameLimits(g, h)
  PROVE  Held(k, h)
  BY DEF Held, SameLimits

LEMMA PairsStill ==
  ASSUME NEW g, NEW h, Pairs(g), SameLimits(g, h) PROVE Pairs(h)
  BY DEF Pairs, SameLimits

LEMMA LimitNames ==
  ASSUME Arrays, NEW x \in Entries(limitTable)
  PROVE  x \in Limit /\ x.name \in Name /\ x.name \in Names(services)
<1>1. x \in Limit /\ x.name \in Names(services)
  BY EntriesNamed DEF Arrays
<1>. QED BY <1>1 DEF Limit

LEMMA HeldRemove ==
  ASSUME Arrays, Pairs(cgroup), Held(limitTable, cgroup), Remove
  PROVE  Pairs(cgroup') /\ Held(limitTable', cgroup')
<1>1. PICK i \in DOMAIN services :
        /\ limitTable' = RemoveLimit(limitTable, services[i].name)
        /\ cgroup' = IF services[i].pid = NoPid THEN cgroup ELSE Leave(cgroup, services[i].pid)
  BY DEF Remove
<1>2. services[i].pid \in Pid \union {NoPid}
  BY EntryTypes DEF Arrays
<1>3. SameLimits(cgroup, cgroup')
  BY <1>1, <1>2, LeaveFacts DEF Arrays, Who, SameLimits
<1>4. Entries(limitTable') \subseteq Entries(limitTable)
  BY <1>1, LimitEntries DEF Arrays
<1>. QED BY <1>3, <1>4, HeldStill, PairsStill

LEMMA HeldRename ==
  ASSUME Arrays, Pairs(cgroup), Held(limitTable, cgroup), Rename, Holding'
  PROVE  Pairs(cgroup') /\ Held(limitTable', cgroup')
<1>1. PICK i \in DOMAIN services, new \in Name, busy \in BOOLEAN :
          LET s   == services[i]
              res == RenameCgrp(cgroup, s.name, new, s.pid, busy)
          IN  /\ MovesFolder(s.name, new) /\ busy \in MayBeBusy(s.pid)
              /\ cgroup' = res.g
              /\ IF res.ok /\ "limits" \notin gone
                 THEN /\ folder' = Moved(s.name, new)
                      /\ services' = [services EXCEPT ![i].name = new]
                      /\ limitTable' = RenameLimit(limitTable, s.name, new)
                      /\ Note(Late \union (IF version = 1 /\ cgroup.cpu[s.name] # Nothing
                                            THEN {"lost"} ELSE {}))
                 ELSE /\ Note({"undone"})
                      /\ UNCHANGED <<folder, services, limitTable>>
  BY DEF Rename
<1>2. PICK old : old = services[i].name
  OBVIOUS
<1>3. PICK res : res = RenameCgrp(cgroup, old, new, services[i].pid, busy)
  OBVIOUS
<1>4. /\ res.ok /\ cgroup' = res.g /\ MovesFolder(old, new)
      /\ limitTable' = RenameLimit(limitTable, old, new)
      /\ version # 1 \/ cgroup.cpu[old] = Nothing
  <2>1. "undone" \notin happened' /\ "lost" \notin happened'
    BY DEF Holding, Undisturbed
  <2>. QED BY <1>1, <1>2, <1>3, <2>1 DEF Note
<1>5. old \in Name /\ services[i].pid \in Pid \union {NoPid}
  BY <1>2, EntryTypes DEF Arrays
<1>6. ASSUME NEW x \in Entries(limitTable')
      PROVE  \/ x \in Entries(limitTable) /\ x.name # old
             \/ \E y \in Entries(limitTable) :
                   y.name = old /\ x.name = new /\ x.cpu = y.cpu /\ x.mem = y.mem
  <2>1. limitTable \in Seq(Limit) /\ DistinctNames(limitTable)
    BY DEF Arrays
  <2>2. x \in Entries(RenameLimit(limitTable, old, new))
    BY <1>4, <1>6
  <2>. QED BY <2>1, <2>2, RenamedEntries
<1>7. CASE cgroup.cpu[old] = Nothing
  <2>1. cgroup' = cgroup
    <3>1. res.g = cgroup
      <4>1. PICK who : who = IF services[i].pid = NoPid THEN Mrn ELSE services[i].pid
        OBVIOUS
      <4>2. cgroup \in Cgroups
        BY DEF Arrays
      <4>. QED BY <1>3, <1>5, <1>7, <4>1, <4>2, RenameCgrpFacts
    <3>. QED BY <1>4, <3>1
  <2>2. ASSUME NEW x \in Entries(limitTable), x.name = old
        PROVE  x \in Limit /\ x.cpu = 0 /\ x.mem = 0
    <3>1. x \in Limit /\ cgroup.mem[old] = Nothing
      BY <1>5, <1>7, LimitNames DEF Pairs
    <3>2. x.mem \in Mem \union {0}
      BY <3>1 DEF Limit
    <3>3. ~OfOneAmount(x.cpu, Nothing)
      BY ResourcesAssumption DEF OfOneAmount, Quotas
    <3>. QED BY <1>7, <2>2, <3>1, <3>2, <3>3, ResourcesAssumption DEF Held
  <2>3. \A x \in Entries(limitTable') :
          x \in Entries(limitTable) \/ (x.cpu = 0 /\ x.mem = 0)
    BY <1>6, <2>2
  <2>. QED BY <2>1, <2>3 DEF Held
<1>8. CASE cgroup.cpu[old] # Nothing
  <2>1. /\ new # old
        /\ \A m \in Name : cgroup'.cpu[m] = IF m = old THEN Nothing
                                            ELSE IF m = new THEN cgroup.cpu[old] ELSE cgroup.cpu[m]
        /\ \A m \in Name : cgroup'.mem[m] = IF m = old THEN Nothing
                                            ELSE IF m = new THEN cgroup.mem[old] ELSE cgroup.mem[m]
    <3>1. PICK who : who = IF services[i].pid = NoPid THEN Mrn ELSE services[i].pid
      OBVIOUS
    <3>2. cgroup \in Cgroups
      BY DEF Arrays
    <3>3. /\ new # old
          /\ \A m \in Name : res.g.cpu[m] = IF m = old THEN Nothing
                                            ELSE IF m = new THEN cgroup.cpu[old] ELSE cgroup.cpu[m]
          /\ \A m \in Name : res.g.mem[m] = IF m = old THEN Nothing
                                            ELSE IF m = new THEN cgroup.mem[old] ELSE cgroup.mem[m]
      BY <1>3, <1>4, <1>5, <1>8, <3>1, <3>2, RenameCgrpFacts
    <3>. QED BY <1>4, <3>3
  <2>2. Pairs(cgroup')
    BY <1>5, <2>1 DEF Pairs
  <2>3. new \notin Names(services)
    <3>1. folder[new] = Nothing
      BY <1>4, <2>1 DEF MovesFolder
    <3>. QED BY <3>1 DEF Arrays, Taken
  <2>4. ASSUME NEW x \in Entries(limitTable), x.name # old
        PROVE  /\ x.cpu # 0 => OfOneAmount(x.cpu, cgroup'.cpu[x.name])
               /\ x.mem # 0 => cgroup'.mem[x.name] = x.mem
    <3>1. x.name \in Name /\ x.name # new
      BY <2>3, LimitNames
    <3>. QED BY <2>1, <2>4, <3>1 DEF Held
  <2>5. ASSUME NEW x \in Entries(limitTable), x.name = old
        PROVE  /\ x.cpu # 0 => OfOneAmount(x.cpu, cgroup'.cpu[new])
               /\ x.mem # 0 => cgroup'.mem[new] = x.mem
    BY <2>1, <2>5 DEF Held
  <2>. QED BY <1>6, <2>2, <2>4, <2>5 DEF Held
<1>. QED BY <1>7, <1>8

LEMMA HeldProcess ==
  ASSUME Arrays, Pairs(cgroup), Held(limitTable, cgroup), Run \/ Stop \/ Restart
  PROVE  Pairs(cgroup') /\ Held(limitTable', cgroup')
<1>1. limitTable' = limitTable
  BY DEF Run, Stop, Restart
<1>2. \A i \in DOMAIN services : services[i].name \in Name /\ services[i].pid \in Pid \union {NoPid}
  BY EntryTypes DEF Arrays
<1>3. cgroup \in Cgroups /\ Mrn \in Who /\ Pid \subseteq Who
  BY DEF Arrays, Who
<1>4. CASE Run
  <2>1. PICK p \in Pid : cgroup' = Inherit(cgroup, p)
    BY <1>4 DEF Run, Spawn
  <2>2. SameLimits(cgroup, cgroup')
    BY <1>3, <2>1, InheritFacts
  <2>. QED BY <1>1, <2>2, HeldStill, PairsStill
<1>5. CASE Stop
  <2>1. PICK i \in DOMAIN services :
          /\ services[i].pid # NoPid
          /\ LET g == Leave(cgroup, services[i].pid) IN
              cgroup' = IF g.cpu[services[i].name] = Nothing THEN g
                        ELSE EnterMem(EnterCpu(g, services[i].name, Mrn), services[i].name, Mrn)
    BY <1>5 DEF Stop
  <2>2. PICK g : g = Leave(cgroup, services[i].pid)
    OBVIOUS
  <2>3. g \in Cgroups /\ SameLimits(cgroup, g)
    BY <1>2, <1>3, <2>1, <2>2, LeaveFacts
  <2>4. PICK h : h = EnterCpu(g, services[i].name, Mrn)
    OBVIOUS
  <2>5. h \in Cgroups /\ SameLimits(g, h)
    BY <1>2, <1>3, <2>3, <2>4, EnterFacts
  <2>6. SameLimits(h, EnterMem(h, services[i].name, Mrn))
    BY <1>2, <1>3, <2>5, EnterFacts
  <2>7. cgroup' \in {g, EnterMem(h, services[i].name, Mrn)}
    BY <2>1, <2>2, <2>4
  <2>8. SameLimits(cgroup, cgroup')
    BY <2>3, <2>5, <2>6, <2>7 DEF SameLimits
  <2>. QED BY <1>1, <2>8, HeldStill, PairsStill
<1>6. CASE Restart
  <2>1. PICK i \in DOMAIN services, p \in Pid :
          LET left == IF services[i].pid = NoPid THEN cgroup ELSE Leave(cgroup, services[i].pid)
          IN  cgroup' = left \/ cgroup' = Enter(left, services[i].name, p)
    BY <1>6 DEF Restart
  <2>2. PICK g : g = IF services[i].pid = NoPid THEN cgroup ELSE Leave(cgroup, services[i].pid)
    OBVIOUS
  <2>3. g \in Cgroups /\ SameLimits(cgroup, g)
    BY <1>2, <1>3, <2>2, LeaveFacts DEF SameLimits
  <2>4. SameLimits(g, Enter(g, services[i].name, p))
    BY <1>2, <1>3, <2>3, CreateProcess
  <2>5. SameLimits(cgroup, cgroup')
    BY <2>1, <2>2, <2>3, <2>4 DEF SameLimits
  <2>. QED BY <1>1, <2>5, HeldStill, PairsStill
<1>. QED BY <1>4, <1>5, <1>6

\* A set-limit that fails nowhere leaves all alone, or one service limited.
LEMMA SetLimitLeaves ==
  ASSUME TypeOK, Arrays, SetLimit, Holding'
  PROVE  \/ cgroup' = cgroup /\ limitTable' = limitTable
         \/ \E s \in Entries(services), cpu \in Cpu \union {0}, mem \in Mem \union {0} :
              /\ s.pid # NoPid
              /\ limitTable' = CreateLimit(limitTable, s.name, InFile(cpu), mem)
              /\ CpuIs(cgroup, cgroup', s.name, IF cpu = 0 THEN Kept(cgroup.cpu[s.name]) ELSE Quota[cpu])
              /\ MemIs(cgroup, cgroup', s.name, IF mem = 0 THEN Kept(cgroup.mem[s.name]) ELSE mem)
              /\ CpuOfIs(cgroup, cgroup', s.pid, s.name)
              /\ mem # 0 => MemOfIs(cgroup, cgroup', s.pid, s.name)
              /\ \A q \in Who \ {s.pid} : cgroup'.memOf[q] = cgroup.memOf[q]
<1>1. PICK i \in DOMAIN services, kind \in Kind,
           cpu \in Cpu \union {0}, mem \in Mem \union {0} :
        /\ cpu # 0 \/ mem # 0
        /\ kind # "standard" => mem # 0
        /\ \E r \in IF cpu = 0 THEN SetMemoryLimit(services[i], mem, kind)
                    ELSE SetCpuResourceLimit(services[i], cpu, mem, kind) :
             /\ cgroup' = r.g
             /\ limitTable' = r.t
             /\ pc' = IF r.ok THEN "main" ELSE "services"
             /\ reformatLimits' = (reformatLimits \/ SavedAfter(cpu, kind, r.ok))
             /\ Note((IF r.ok THEN {} ELSE {"partial"})
                       \union (IF r.ok /\ cpu # 0 /\ kind # "standard"
                               THEN {"unsaved"} ELSE {}))
  BY DEF SetLimit
<1>2. PICK r \in IF cpu = 0 THEN SetMemoryLimit(services[i], mem, kind)
                 ELSE SetCpuResourceLimit(services[i], cpu, mem, kind) :
             /\ cgroup' = r.g
             /\ limitTable' = r.t
             /\ Note((IF r.ok THEN {} ELSE {"partial"})
                       \union (IF r.ok /\ cpu # 0 /\ kind # "standard"
                               THEN {"unsaved"} ELSE {}))
  BY <1>1
<1>3. r.ok
  <2>1. "partial" \notin happened'
    BY DEF Holding, Undisturbed
  <2>. QED BY <1>2, <2>1 DEF Note
<1>4. PICK s : s = services[i]
  OBVIOUS
<1>5. s \in Record /\ s \in Entries(services)
  BY <1>4 DEF Arrays, Entries
<1>6. \/ s.pid = NoPid /\ r.g = cgroup /\ r.t = limitTable
      \/ /\ s.pid # NoPid
         /\ r.t = IF r.ok THEN CreateLimit(limitTable, s.name, InFile(cpu), mem) ELSE limitTable
         /\ r.ok =>
              /\ CpuIs(cgroup, r.g, s.name, IF cpu = 0 THEN Kept(cgroup.cpu[s.name]) ELSE Quota[cpu])
              /\ MemIs(cgroup, r.g, s.name, IF mem = 0 THEN Kept(cgroup.mem[s.name]) ELSE mem)
              /\ CpuOfIs(cgroup, r.g, s.pid, s.name)
              /\ mem # 0 => MemOfIs(cgroup, r.g, s.pid, s.name)
              /\ \A q \in Who \ {s.pid} : r.g.memOf[q] = cgroup.memOf[q]
  <2>1. r \in IF cpu = 0 THEN SetMemoryLimit(s, mem, kind)
              ELSE SetCpuResourceLimit(s, cpu, mem, kind)
    BY <1>2, <1>4
  <2>2. cpu # 0 \/ mem # 0
    BY <1>1
  <2>. QED BY <1>5, <2>1, <2>2, SetLimitFacts
<1>7. CASE s.pid = NoPid
  BY <1>2, <1>6, <1>7
<1>8. CASE s.pid # NoPid
  <2>1. cgroup' = r.g /\ limitTable' = CreateLimit(limitTable, s.name, InFile(cpu), mem)
    BY <1>2, <1>3, <1>6, <1>8
  <2>. QED BY <1>3, <1>5, <1>6, <1>8, <2>1
<1>. QED BY <1>7, <1>8

LEMMA HeldSetLimit ==
  ASSUME TypeOK, Arrays, Pairs(cgroup), Held(limitTable, cgroup), SetLimit, Holding'
  PROVE  Pairs(cgroup') /\ Held(limitTable', cgroup')
<1>1. CASE cgroup' = cgroup /\ limitTable' = limitTable
  BY <1>1 DEF Held, Pairs
<1>2. ASSUME NEW s \in Entries(services), NEW cpu \in Cpu \union {0}, NEW mem \in Mem \union {0},
             limitTable' = CreateLimit(limitTable, s.name, InFile(cpu), mem),
             CpuIs(cgroup, cgroup', s.name, IF cpu = 0 THEN Kept(cgroup.cpu[s.name]) ELSE Quota[cpu]),
             MemIs(cgroup, cgroup', s.name, IF mem = 0 THEN Kept(cgroup.mem[s.name]) ELSE mem)
      PROVE  Pairs(cgroup') /\ Held(limitTable', cgroup')
  <2>0. s.name \in Name
    BY DEF Arrays, Record
  <2>1. PICK e : e = [name |-> s.name, cpu |-> InFile(cpu), mem |-> mem]
    OBVIOUS
  <2>2. e.name = s.name /\ e.cpu = InFile(cpu) /\ e.mem = mem
    BY <2>1
  <2>3. Entries(limitTable') \subseteq {x \in Entries(limitTable) : x.name # s.name} \union {e}
    BY <1>2, <2>1, LimitEntries DEF Arrays
  <2>4. /\ \A m \in Name \ {s.name} : cgroup'.cpu[m] = cgroup.cpu[m] /\ cgroup'.mem[m] = cgroup.mem[m]
        /\ cpu # 0 => cgroup'.cpu[s.name] = Quota[cpu]
        /\ mem # 0 => cgroup'.mem[s.name] = mem
    BY <2>0, <1>2 DEF CpuIs, MemIs
  <2>5. cgroup'.cpu[s.name] # Nothing /\ cgroup'.mem[s.name] # Nothing
    <3>1. \A x : Kept(x) # Nothing
      BY ResourcesAssumption DEF Kept
    <3>2. (cpu # 0 => Quota[cpu] # Nothing) /\ (mem # 0 => mem # Nothing)
      BY ResourcesAssumption DEF Quotas
    <3>. QED BY <2>0, <1>2, <3>1, <3>2 DEF CpuIs, MemIs
  <2>6. Pairs(cgroup')
    BY <2>4, <2>5 DEF Pairs
  <2>7. \A x \in Entries(limitTable) : x.name # s.name => x.name \in Name \ {s.name}
    BY LimitNames
  <2>9. e.cpu # 0 => OfOneAmount(e.cpu, cgroup'.cpu[s.name])
    <3>1. CASE cpu = 0
      BY <2>2, <3>1 DEF InFile
    <3>2. CASE cpu # 0
      <4>1. cpu \in Cpu /\ e.cpu = FileCpu[cpu]
        BY <2>2, <3>2 DEF InFile
      <4>. QED BY <2>4, <3>2, <4>1 DEF OfOneAmount
    <3>. QED BY <3>1, <3>2
  <2>8. Held(limitTable', cgroup')
    BY <2>2, <2>3, <2>4, <2>7, <2>9 DEF Held
  <2>. QED BY <2>6, <2>8
<1>. QED BY <1>1, <1>2, SetLimitLeaves

-----------------------------------------------------------------------------
\* The process of a service with a limit and the cgroup it is in.

Straight == Holding /\ Undisturbed({"outside", "reused"})

\* No two entries have the pid of one process.
OneOwner(t) == \A x, y \in Entries(t) : x.pid = y.pid => x = y \/ x.pid = NoPid

\* If the process of y is its own and x limits it, it is inside.
Placed(x, y, g, pr) ==
    y.pid # NoPid /\ pr[y.pid] = y.repo =>
        /\ x.cpu # 0 => g.cpuOf[y.pid] = y.name
        /\ x.mem # 0 => g.memOf[y.pid] = y.name

InPlace(l, t, g, pr) ==
    /\ OneOwner(t)
    /\ \A x \in Entries(l), y \in Entries(t) : x.name = y.name => Placed(x, y, g, pr)

PlaceInv ==
    Straight => /\ pc = "off" => InPlace(limits, projects, cgroup, proc)
                /\ pc # "off" => InPlace(limitTable, services, cgroup, proc)

\* What becomes of a process that nobody moves.
Stays(p, g, h, pr, qr) ==
    /\ qr[p] = pr[p] \/ qr[p] = Nothing
    /\ h.cpuOf[p] = g.cpuOf[p] /\ h.memOf[p] = g.memOf[p]

LEMMA PlacedStill ==
  ASSUME NEW x, NEW y \in Record, NEW g, NEW h, NEW pr, NEW qr,
         Placed(x, y, g, pr), y.pid = NoPid \/ Stays(y.pid, g, h, pr, qr)
  PROVE  Placed(x, y, h, qr)
<1>1. y.repo # Nothing
  BY ResourcesAssumption DEF Record
<1>. QED BY <1>1 DEF Placed, Stays

\* Fewer limits and entries, and nobody moved.
LEMMA PlaceFewer ==
  ASSUME NEW l, NEW t, NEW g, NEW pr, InPlace(l, t, g, pr), Entries(t) \subseteq Record,
         NEW k, NEW u, NEW h, NEW qr,
         Entries(k) \subseteq Entries(l), Entries(u) \subseteq Entries(t),
         \A y \in Entries(u) : y.pid = NoPid \/ Stays(y.pid, g, h, pr, qr)
  PROVE  InPlace(k, u, h, qr)
<1>1. OneOwner(u)
  BY DEF InPlace, OneOwner
<1>2. ASSUME NEW x \in Entries(k), NEW y \in Entries(u), x.name = y.name
      PROVE  Placed(x, y, h, qr)
  BY <1>2, PlacedStill DEF InPlace
<1>. QED BY <1>1, <1>2 DEF InPlace

\* A table where the entry of one name is e from now on.
Differ(u, t, n, e) == Entries(u) \subseteq {y \in Entries(t) : y.name # n} \union {e}

\* One entry is e from now on; nobody else was moved, or has its pid.
LEMMA PlaceOne ==
  ASSUME NEW l, NEW t, NEW g, NEW pr, InPlace(l, t, g, pr), Entries(t) \subseteq Record,
         NEW k, NEW u, NEW h, NEW qr, NEW n, NEW e \in Record,
         Differ(u, t, n, e),
         \A y \in Entries(t) :
            y.name # n => y.pid = NoPid \/ (y.pid # e.pid /\ Stays(y.pid, g, h, pr, qr)),
         \A x \in Entries(k), y \in Entries(t) :
            x.name = y.name /\ y.name # n => x \in Entries(l),
         \A x \in Entries(k) : x.name = e.name => Placed(x, e, h, qr)
  PROVE  InPlace(k, u, h, qr)
<1>1. OneOwner(u)
  BY DEF InPlace, OneOwner, Differ
<1>2. ASSUME NEW x \in Entries(k), NEW y \in Entries(u), x.name = y.name
      PROVE  Placed(x, y, h, qr)
  <2>1. CASE y = e
    BY <1>2, <2>1
  <2>2. CASE y # e
    <3>1. y \in Entries(t) /\ y.name # n /\ y \in Record
      BY <2>2 DEF Differ
    <3>2. x \in Entries(l) /\ Placed(x, y, g, pr)
      BY <1>2, <3>1 DEF InPlace
    <3>. QED BY <3>1, <3>2, PlacedStill
  <2>. QED BY <2>1, <2>2
<1>. QED BY <1>1, <1>2 DEF InPlace

LEMMA OneChanged ==
  ASSUME NEW t \in Seq(Record), DistinctNames(t), NEW i \in DOMAIN t,
         NEW u, DOMAIN u = DOMAIN t, \A k \in DOMAIN t \ {i} : u[k] = t[k]
  PROVE  Differ(u, t, t[i].name, u[i])
<1>1. \A k \in DOMAIN t \ {i} : t[k].name # t[i].name
  BY DEF DistinctNames
<1>. QED BY <1>1 DEF Entries, Differ

LEMMA PidChanged ==
  ASSUME Arrays, NEW i \in DOMAIN services, NEW p \in Pid \union {NoPid},
         services' = [services EXCEPT ![i].pid = p]
  PROVE  \E e \in Record :
            /\ e.name = services[i].name /\ e.repo = services[i].repo /\ e.pid = p
            /\ Differ(services', services, services[i].name, e)
<1>1. services \in Seq(Record) /\ DistinctNames(services) /\ services[i] \in Record
  BY DEF Arrays
<1>2. DOMAIN services' = DOMAIN services /\ \A k \in DOMAIN services \ {i} : services'[k] = services[k]
  OBVIOUS
<1>3. services'[i] = [services[i] EXCEPT !.pid = p]
  OBVIOUS
<1>4. /\ services'[i] \in Record /\ services'[i].name = services[i].name
      /\ services'[i].repo = services[i].repo /\ services'[i].pid = p
  BY <1>1, <1>3 DEF Record
<1>5. Differ(services', services, services[i].name, services'[i])
  BY <1>1, <1>2, OneChanged
<1>. QED BY <1>4, <1>5

\* The pid of an entry is no other's.
LEMMA OwnPid ==
  ASSUME Arrays, OneOwner(services), NEW i \in DOMAIN services
  PROVE  /\ services[i] \in Record
         /\ \A y \in Entries(services) :
              y.name # services[i].name =>
                 y.pid = NoPid \/ (y.pid \in Pid /\ y.pid \in Who /\ y.pid # services[i].pid)
<1>1. services[i] \in Record /\ services[i] \in Entries(services)
  BY DEF Arrays, Entries
<1>2. \A y \in Entries(services) : y.pid \in Pid \union {NoPid}
  BY DEF Arrays, Record
<1>. QED BY <1>1, <1>2 DEF OneOwner, Who

LEMMA PlaceRemove ==
  ASSUME Arrays, InPlace(limitTable, services, cgroup, proc), Remove
  PROVE  InPlace(limitTable', services', cgroup', proc')
<1>1. PICK i \in DOMAIN services :
        /\ services' = Without(services, i)
        /\ limitTable' = RemoveLimit(limitTable, services[i].name)
        /\ proc' = IF services[i].pid = NoPid THEN proc ELSE [proc EXCEPT ![services[i].pid] = Nothing]
        /\ cgroup' = IF services[i].pid = NoPid THEN cgroup ELSE Leave(cgroup, services[i].pid)
  BY DEF Remove
<1>2. services[i].pid \in Pid \union {NoPid} /\ cgroup \in Cgroups /\ proc \in [Pid -> Repo \union {Nothing}]
  BY EntryTypes DEF Arrays
<1>3. Entries(services') \subseteq {y \in Entries(services) : y.name # services[i].name}
  BY <1>1, WithoutKeeps DEF Arrays
<1>4. Entries(limitTable') \subseteq Entries(limitTable)
  BY <1>1, LimitEntries DEF Arrays
<1>5. ASSUME NEW y \in Entries(services')
      PROVE  y.pid = NoPid \/ Stays(y.pid, cgroup, cgroup', proc, proc')
  <2>1. y.pid = NoPid \/ (y.pid \in Pid /\ y.pid \in Who /\ y.pid # services[i].pid)
    BY <1>3, OwnPid DEF InPlace
  <2>2. CASE services[i].pid = NoPid
    BY <1>1, <2>2 DEF Stays
  <2>3. CASE services[i].pid # NoPid
    <3>1. /\ CpuOfIs(cgroup, cgroup', services[i].pid, Nothing)
          /\ MemOfIs(cgroup, cgroup', services[i].pid, Nothing)
      BY <1>1, <1>2, <2>3, LeaveFacts DEF Who
    <3>. QED BY <1>1, <1>2, <2>1, <2>3, <3>1 DEF Stays, CpuOfIs, MemOfIs
  <2>. QED BY <2>2, <2>3
<1>. QED BY <1>3, <1>4, <1>5, PlaceFewer DEF Arrays

LEMMA PlaceRename ==
  ASSUME Arrays, Pairs(cgroup), Held(limitTable, cgroup),
         InPlace(limitTable, services, cgroup, proc), Rename, Holding'
  PROVE  InPlace(limitTable', services', cgroup', proc')
<1>1. PICK i \in DOMAIN services, new \in Name, busy \in BOOLEAN :
          LET s   == services[i]
              res == RenameCgrp(cgroup, s.name, new, s.pid, busy)
          IN  /\ MovesFolder(s.name, new) /\ busy \in MayBeBusy(s.pid)
              /\ cgroup' = res.g
              /\ IF res.ok /\ "limits" \notin gone
                 THEN /\ folder' = Moved(s.name, new)
                      /\ services' = [services EXCEPT ![i].name = new]
                      /\ limitTable' = RenameLimit(limitTable, s.name, new)
                      /\ Note(Late \union (IF version = 1 /\ cgroup.cpu[s.name] # Nothing
                                            THEN {"lost"} ELSE {}))
                 ELSE /\ Note({"undone"})
                      /\ UNCHANGED <<folder, services, limitTable>>
  BY DEF Rename
<1>2. PICK old : old = services[i].name
  OBVIOUS
<1>3. PICK res : res = RenameCgrp(cgroup, old, new, services[i].pid, busy)
  OBVIOUS
<1>4. /\ res.ok /\ cgroup' = res.g /\ MovesFolder(old, new)
      /\ services' = [services EXCEPT ![i].name = new]
      /\ limitTable' = RenameLimit(limitTable, old, new)
      /\ version # 1 \/ cgroup.cpu[old] = Nothing
  <2>1. "undone" \notin happened' /\ "lost" \notin happened'
    BY DEF Holding, Undisturbed
  <2>. QED BY <1>1, <1>2, <1>3, <2>1 DEF Note
<1>5. /\ old \in Name /\ services[i].pid \in Pid \union {NoPid}
      /\ cgroup \in Cgroups /\ version \in {1, 2}
  BY <1>2, EntryTypes DEF Arrays
<1>6. PICK who : who = IF services[i].pid = NoPid THEN Mrn ELSE services[i].pid
  OBVIOUS
<1>7. /\ cgroup.cpu[old] = Nothing => cgroup' = cgroup
      /\ cgroup.cpu[old] # Nothing =>
            CpuOfIs(cgroup, cgroup', who, new) /\ MemOfIs(cgroup, cgroup', who, new)
  <2>1. /\ cgroup.cpu[old] = Nothing => res.g = cgroup
        /\ cgroup.cpu[old] # Nothing =>
              CpuOfIs(cgroup, res.g, who, new) /\ MemOfIs(cgroup, res.g, who, new)
    BY <1>3, <1>4, <1>5, <1>6, RenameCgrpFacts
  <2>. QED BY <1>4, <2>1
<1>8. PICK e \in Record :
         /\ e.name = new /\ e.repo = services[i].repo /\ e.pid = services[i].pid
         /\ Differ(services', services, old, e)
  <2>1. services \in Seq(Record) /\ DistinctNames(services) /\ services[i] \in Record
    BY DEF Arrays
  <2>2. DOMAIN services' = DOMAIN services /\ \A k \in DOMAIN services \ {i} : services'[k] = services[k]
    BY <1>4
  <2>3. services'[i] = [services[i] EXCEPT !.name = new]
    BY <1>4
  <2>4. /\ services'[i] \in Record /\ services'[i].name = new
        /\ services'[i].repo = services[i].repo /\ services'[i].pid = services[i].pid
    BY <2>1, <2>3 DEF Record
  <2>5. Differ(services', services, old, services'[i])
    BY <1>2, <2>1, <2>2, OneChanged
  <2>. QED BY <2>4, <2>5
<1>9. new # old => new \notin Names(services)
  BY <1>4 DEF MovesFolder, Arrays, Taken
<1>10. proc' = proc
  BY DEF Rename
<1>11. ASSUME NEW x \in Entries(limitTable')
       PROVE  \/ x \in Entries(limitTable) /\ x.name # old
              \/ \E y \in Entries(limitTable) :
                    y.name = old /\ x.name = new /\ x.cpu = y.cpu /\ x.mem = y.mem
  <2>1. limitTable \in Seq(Limit) /\ DistinctNames(limitTable)
    BY DEF Arrays
  <2>2. x \in Entries(RenameLimit(limitTable, old, new))
    BY <1>4, <1>11
  <2>. QED BY <2>1, <2>2, RenamedEntries
<1>12. ASSUME NEW y \in Entries(services), y.name # old
       PROVE  y.pid = NoPid \/ (y.pid # e.pid /\ Stays(y.pid, cgroup, cgroup', proc, proc'))
  <2>1. y.pid = NoPid \/ (y.pid \in Pid /\ y.pid \in Who /\ y.pid # services[i].pid)
    BY <1>2, <1>12, OwnPid DEF InPlace
  <2>2. y.pid # NoPid => y.pid # who
    BY <1>6, <2>1, ResourcesAssumption
  <2>. QED BY <1>7, <1>8, <1>10, <2>1, <2>2 DEF Stays, CpuOfIs, MemOfIs
<1>13. ASSUME NEW x \in Entries(limitTable'), NEW y \in Entries(services),
              x.name = y.name, y.name # old
       PROVE  x \in Entries(limitTable)
  <2>1. y.name \in Names(services)
    BY EntriesNamed DEF Arrays
  <2>. QED BY <1>9, <1>11, <1>13, <2>1
<1>14. ASSUME NEW x \in Entries(limitTable'), x.name = e.name
       PROVE  Placed(x, e, cgroup', proc')
  <2>1. CASE cgroup.cpu[old] # Nothing
    <3>1. e.pid # NoPid => e.pid = who /\ e.pid \in Who
      BY <1>5, <1>6, <1>8 DEF Who
    <3>. QED BY <1>7, <1>8, <2>1, <3>1 DEF Placed, CpuOfIs, MemOfIs
  <2>2. CASE cgroup.cpu[old] = Nothing
    <3>1. PICK z \in Entries(limitTable) : z.name = old /\ x.cpu = z.cpu /\ x.mem = z.mem
      <4>1. x.name \in Names(services) \/ x \notin Entries(limitTable)
        BY LimitNames
      <4>. QED BY <1>8, <1>9, <1>11, <1>14, <4>1
    <3>2. z \in Limit /\ cgroup.mem[old] = Nothing
      BY <1>5, <2>2, LimitNames DEF Pairs
    <3>3. ~OfOneAmount(z.cpu, Nothing) /\ (z.mem \in Mem \union {0})
      BY <3>2, ResourcesAssumption DEF Limit, OfOneAmount, Quotas
    <3>4. z.cpu = 0 /\ z.mem = 0
      BY <2>2, <3>1, <3>2, <3>3, ResourcesAssumption DEF Held
    <3>. QED BY <3>1, <3>4 DEF Placed
  <2>. QED BY <2>1, <2>2
<1>. QED
  <2>1. Entries(services) \subseteq Record
    BY DEF Arrays
  <2>. QED BY <1>8, <1>12, <1>13, <1>14, <2>1, PlaceOne

LEMMA PlaceRun ==
  ASSUME Arrays, InPlace(limitTable, services, cgroup, proc), Run, Straight'
  PROVE  InPlace(limitTable', services', cgroup', proc')
<1>1. PICK i \in DOMAIN services, p \in Pid :
        /\ Spawn(i, p, cgroup)
        /\ Note((IF Has(limitTable, services[i].name) THEN {"outside"} ELSE {})
                  \union Reused(p))
  BY DEF Run
<1>2. /\ proc[p] = Nothing /\ services' = [services EXCEPT ![i].pid = p]
      /\ cgroup' = Inherit(cgroup, p) /\ proc' = [proc EXCEPT ![p] = services[i].repo]
      /\ limitTable' = limitTable
  BY <1>1 DEF Run, Spawn
<1>3. ~Has(limitTable, services[i].name) /\ \A j \in DOMAIN services : services[j].pid # p
  <2>1. "outside" \notin happened' /\ "reused" \notin happened'
    BY DEF Straight, Undisturbed
  <2>. QED BY <1>1, <2>1 DEF Note, Reused
<1>4. PICK e \in Record :
         /\ e.name = services[i].name /\ e.repo = services[i].repo /\ e.pid = p
         /\ Differ(services', services, services[i].name, e)
  BY <1>2, PidChanged DEF Arrays
<1>5. /\ CpuOfIs(cgroup, cgroup', p, cgroup.cpuOf[Mrn])
      /\ MemOfIs(cgroup, cgroup', p, cgroup.memOf[Mrn])
      /\ proc \in [Pid -> Repo \union {Nothing}]
  BY <1>2, InheritFacts DEF Arrays, Who
<1>6. ASSUME NEW y \in Entries(services), y.name # services[i].name
      PROVE  y.pid = NoPid \/ (y.pid # e.pid /\ Stays(y.pid, cgroup, cgroup', proc, proc'))
  <2>1. y.pid = NoPid \/ (y.pid \in Pid /\ y.pid \in Who)
    BY <1>6, OwnPid DEF InPlace
  <2>2. y.pid # p
    BY <1>3 DEF Entries
  <2>. QED BY <1>2, <1>4, <1>5, <2>1, <2>2 DEF Stays, CpuOfIs, MemOfIs
<1>7. \A x \in Entries(limitTable') : x.name # e.name
  BY <1>2, <1>3, <1>4 DEF Entries, Has
<1>. QED
  <2>1. Entries(services) \subseteq Record
    BY DEF Arrays
  <2>2. \A x \in Entries(limitTable') : x.name = e.name => Placed(x, e, cgroup', proc')
    BY <1>7
  <2>3. \A x \in Entries(limitTable') : x \in Entries(limitTable)
    BY <1>2
  <2>. QED BY <1>4, <1>6, <2>1, <2>2, <2>3, PlaceOne

LEMMA PlaceStop ==
  ASSUME Arrays, InPlace(limitTable, services, cgroup, proc), Stop
  PROVE  InPlace(limitTable', services', cgroup', proc')
<1>1. PICK i \in DOMAIN services :
        /\ services[i].pid # NoPid
        /\ proc' = [proc EXCEPT ![services[i].pid] = Nothing]
        /\ services' = [services EXCEPT ![i].pid = NoPid]
        /\ LET g == Leave(cgroup, services[i].pid) IN
            cgroup' = IF g.cpu[services[i].name] = Nothing THEN g
                      ELSE EnterMem(EnterCpu(g, services[i].name, Mrn), services[i].name, Mrn)
  BY DEF Stop
<1>2. /\ limitTable' = limitTable
      /\ services[i].name \in Name /\ services[i].pid \in Who
      /\ cgroup \in Cgroups /\ Mrn \in Who /\ proc \in [Pid -> Repo \union {Nothing}]
  BY <1>1, EntryTypes DEF Arrays, Who, Stop
<1>3. PICK g : g = Leave(cgroup, services[i].pid)
  OBVIOUS
<1>4. PICK h : h = EnterCpu(g, services[i].name, Mrn)
  OBVIOUS
<1>5. PICK k : k = EnterMem(h, services[i].name, Mrn)
  OBVIOUS
<1>6. /\ g \in Cgroups /\ CpuOfIs(cgroup, g, services[i].pid, Nothing)
      /\ MemOfIs(cgroup, g, services[i].pid, Nothing)
  BY <1>2, <1>3, LeaveFacts
<1>7. /\ h \in Cgroups /\ h.memOf = g.memOf /\ CpuOfIs(g, h, Mrn, services[i].name)
  BY <1>2, <1>4, <1>6, EnterFacts
<1>8. /\ k.cpuOf = h.cpuOf /\ MemOfIs(h, k, Mrn, services[i].name)
  BY <1>2, <1>5, <1>7, EnterFacts
<1>9. cgroup' \in {g, k}
  BY <1>1, <1>3, <1>4, <1>5
<1>10. \A q \in Who \ {Mrn, services[i].pid} :
          cgroup'.cpuOf[q] = cgroup.cpuOf[q] /\ cgroup'.memOf[q] = cgroup.memOf[q]
  BY <1>6, <1>7, <1>8, <1>9 DEF CpuOfIs, MemOfIs
<1>11. PICK e \in Record :
         /\ e.name = services[i].name /\ e.repo = services[i].repo /\ e.pid = NoPid
         /\ Differ(services', services, services[i].name, e)
  BY <1>1, PidChanged DEF Arrays
<1>12. ASSUME NEW y \in Entries(services), y.name # services[i].name
       PROVE  y.pid = NoPid \/ (y.pid # e.pid /\ Stays(y.pid, cgroup, cgroup', proc, proc'))
  <2>1. y.pid = NoPid \/ (y.pid \in Pid /\ y.pid \in Who /\ y.pid # services[i].pid)
    BY <1>12, OwnPid DEF InPlace
  <2>2. y.pid \in Pid => y.pid # Mrn
    BY ResourcesAssumption
  <2>. QED BY <1>1, <1>2, <1>10, <1>11, <2>1, <2>2 DEF Stays
<1>13. \A x \in Entries(limitTable') : Placed(x, e, cgroup', proc')
  BY <1>11 DEF Placed
<1>. QED
  <2>1. Entries(services) \subseteq Record
    BY DEF Arrays
  <2>. QED BY <1>2, <1>11, <1>12, <1>13, <2>1, PlaceOne

LEMMA PlaceRestart ==
  ASSUME Arrays, InPlace(limitTable, services, cgroup, proc), Restart, Straight'
  PROVE  InPlace(limitTable', services', cgroup', proc')
<1>1. PICK i \in DOMAIN services, p \in Pid :
        LET s    == services[i]
            left == IF s.pid = NoPid THEN cgroup ELSE Leave(cgroup, s.pid)
            dead == IF s.pid = NoPid THEN proc ELSE [proc EXCEPT ![s.pid] = Nothing]
        IN  /\ dead[p] = Nothing
            /\ services' = [services EXCEPT ![i].pid = p]
            /\ Note(IF p = s.pid THEN {} ELSE Reused(p))
            /\ IF version = 2 /\ cgroup.cpu[s.name] # Nothing
               THEN /\ proc' = [dead EXCEPT ![p] = s.repo]
                    /\ cgroup' = Enter(left, s.name, p)
               ELSE /\ proc' = dead
                    /\ cgroup' = left
  BY DEF Restart
<1>2. PICK s : s = services[i]
  OBVIOUS
<1>3. PICK left : left = IF s.pid = NoPid THEN cgroup ELSE Leave(cgroup, s.pid)
  OBVIOUS
<1>4. PICK dead : dead = IF s.pid = NoPid THEN proc ELSE [proc EXCEPT ![s.pid] = Nothing]
  OBVIOUS
<1>5. /\ dead[p] = Nothing
      /\ services' = [services EXCEPT ![i].pid = p]
      /\ Note(IF p = s.pid THEN {} ELSE Reused(p))
      /\ \/ /\ version = 2
            /\ proc' = [dead EXCEPT ![p] = s.repo] /\ cgroup' = Enter(left, s.name, p)
         \/ proc' = dead /\ cgroup' = left
  BY <1>1, <1>2, <1>3, <1>4
<1>6. /\ limitTable' = limitTable /\ s.name \in Name /\ s.pid \in Pid \union {NoPid} /\ p \in Who
      /\ cgroup \in Cgroups /\ proc \in [Pid -> Repo \union {Nothing}]
  BY <1>2, EntryTypes DEF Arrays, Who, Restart
<1>7. p = s.pid \/ \A j \in DOMAIN services : services[j].pid # p
  <2>1. "reused" \notin happened'
    BY DEF Straight, Undisturbed
  <2>. QED BY <1>5, <2>1 DEF Note, Reused
<1>8. /\ left \in Cgroups
      /\ \A q \in Who \ {s.pid} : left.cpuOf[q] = cgroup.cpuOf[q] /\ left.memOf[q] = cgroup.memOf[q]
  <2>1. CASE s.pid = NoPid
    BY <1>3, <1>6, <2>1
  <2>2. CASE s.pid # NoPid
    <3>1. s.pid \in Who /\ left = Leave(cgroup, s.pid)
      BY <1>3, <1>6, <2>2 DEF Who
    <3>2. left \in Cgroups /\ CpuOfIs(cgroup, left, s.pid, Nothing) /\ MemOfIs(cgroup, left, s.pid, Nothing)
      BY <1>6, <3>1, LeaveFacts
    <3>. QED BY <3>2 DEF CpuOfIs, MemOfIs
  <2>. QED BY <2>1, <2>2
<1>9. DOMAIN dead = Pid /\ \A q \in Pid \ {s.pid} : dead[q] = proc[q]
  BY <1>4, <1>6
<1>10. /\ \A q \in Who \ {p, s.pid} :
            cgroup'.cpuOf[q] = cgroup.cpuOf[q] /\ cgroup'.memOf[q] = cgroup.memOf[q]
       /\ \A q \in Pid \ {p, s.pid} : proc'[q] = proc[q]
       /\ proc'[p] # Nothing => cgroup'.cpuOf[p] = s.name /\ cgroup'.memOf[p] = s.name
  <2>1. CASE proc' = dead /\ cgroup' = left
    BY <1>5, <1>8, <1>9, <2>1
  <2>2. CASE /\ version = 2
             /\ proc' = [dead EXCEPT ![p] = s.repo] /\ cgroup' = Enter(left, s.name, p)
    <3>1. CpuOfIs(left, cgroup', p, s.name) /\ MemOfIs(left, cgroup', p, s.name)
      <4>1. CpuOfIs(left, Enter(left, s.name, p), p, s.name) /\ MemOfIs(left, Enter(left, s.name, p), p, s.name)
        BY <1>6, <1>8, <2>2, CreateProcess
      <4>. QED BY <2>2, <4>1
    <3>. QED BY <1>6, <1>8, <1>9, <2>2, <3>1 DEF CpuOfIs, MemOfIs
  <2>. QED BY <1>5, <2>1, <2>2
<1>11. PICK e \in Record :
         /\ e.name = services[i].name /\ e.repo = services[i].repo /\ e.pid = p
         /\ Differ(services', services, services[i].name, e)
  BY <1>5, PidChanged DEF Arrays
<1>12. ASSUME NEW y \in Entries(services), y.name # services[i].name
       PROVE  y.pid = NoPid \/ (y.pid # e.pid /\ Stays(y.pid, cgroup, cgroup', proc, proc'))
  <2>1. y.pid = NoPid \/ (y.pid \in Pid /\ y.pid \in Who /\ y.pid # s.pid)
    BY <1>2, <1>12, OwnPid DEF InPlace
  <2>2. y.pid # NoPid => y.pid # p
    BY <1>7, <2>1 DEF Entries
  <2>. QED BY <1>10, <1>11, <2>1, <2>2 DEF Stays
<1>13. \A x \in Entries(limitTable') : Placed(x, e, cgroup', proc')
  <2>1. e.repo # Nothing
    BY ResourcesAssumption DEF Record
  <2>. QED BY <1>2, <1>10, <1>11, <2>1 DEF Placed
<1>. QED
  <2>1. Entries(services) \subseteq Record
    BY DEF Arrays
  <2>. QED BY <1>6, <1>11, <1>12, <1>13, <2>1, PlaceOne

LEMMA PlaceSetLimit ==
  ASSUME TypeOK, Arrays, InPlace(limitTable, services, cgroup, proc), SetLimit, Holding'
  PROVE  InPlace(limitTable', services', cgroup', proc')
<1>1. services' = services /\ proc' = proc
  BY DEF SetLimit
<1>2. CASE cgroup' = cgroup /\ limitTable' = limitTable
  BY <1>1, <1>2
<1>3. ASSUME NEW s \in Entries(services), NEW cpu \in Cpu \union {0}, NEW mem \in Mem \union {0},
             s.pid # NoPid,
             limitTable' = CreateLimit(limitTable, s.name, InFile(cpu), mem),
             CpuOfIs(cgroup, cgroup', s.pid, s.name),
             mem # 0 => MemOfIs(cgroup, cgroup', s.pid, s.name),
             \A q \in Who \ {s.pid} : cgroup'.memOf[q] = cgroup.memOf[q]
      PROVE  InPlace(limitTable', services', cgroup', proc')
  <2>1. /\ s \in Record /\ s.pid \in Who /\ Entries(services) \subseteq Record
        /\ \A y \in Entries(services) : y.name = s.name => y = s
    BY <1>3, EntriesNamed DEF Arrays, Record, Who
  <2>2. Differ(services', services, s.name, s)
    BY <1>1, <2>1 DEF Differ
  <2>3. PICK z : z = [name |-> s.name, cpu |-> InFile(cpu), mem |-> mem]
    OBVIOUS
  <2>4. z.name = s.name /\ z.mem = mem
    BY <2>3
  <2>5. Entries(limitTable') \subseteq {x \in Entries(limitTable) : x.name # s.name} \union {z}
    BY <1>3, <2>3, LimitEntries DEF Arrays
  <2>6. ASSUME NEW y \in Entries(services), y.name # s.name
        PROVE  y.pid = NoPid \/ (y.pid # s.pid /\ Stays(y.pid, cgroup, cgroup', proc, proc'))
    <3>1. y.pid = NoPid \/ (y.pid \in Who /\ y.pid # s.pid)
      BY <2>1, <2>6 DEF InPlace, OneOwner, Record, Who
    <3>. QED BY <1>1, <1>3, <3>1 DEF Stays, CpuOfIs
  <2>7. \A x \in Entries(limitTable') : x.name = s.name => Placed(x, s, cgroup', proc')
    BY <1>3, <2>1, <2>4, <2>5 DEF Placed, CpuOfIs, MemOfIs
  <2>8. \A x \in Entries(limitTable'), y \in Entries(services) :
           x.name = y.name /\ y.name # s.name => x \in Entries(limitTable)
    BY <2>4, <2>5
  <2>. QED BY <2>1, <2>2, <2>6, <2>7, <2>8, PlaceOne
<1>. QED BY <1>2, <1>3, SetLimitLeaves

LEMMA PlaceAdd ==
  ASSUME Arrays, InPlace(limitTable, services, cgroup, proc), Add
  PROVE  InPlace(limitTable', services', cgroup', proc')
<1>1. limitTable' = limitTable /\ cgroup' = cgroup /\ proc' = proc
  BY DEF Add
<1>2. CASE services' = services
  BY <1>1, <1>2
<1>3. ASSUME NEW n \in Name, NEW r \in Repo,
             services' = Append(services, [name |-> n, repo |-> r, pid |-> NoPid])
      PROVE  InPlace(limitTable', services', cgroup', proc')
  <2>1. PICK e : e = [name |-> n, repo |-> r, pid |-> NoPid]
    OBVIOUS
  <2>2. e.pid = NoPid
    BY <2>1
  <2>3. Entries(services') \subseteq Entries(services) \union {e}
    BY <1>3, <2>1, AppendEntries DEF Arrays
  <2>4. OneOwner(services')
    BY <2>2, <2>3 DEF InPlace, OneOwner
  <2>5. \A x \in Entries(limitTable'), y \in Entries(services') :
           x.name = y.name => Placed(x, y, cgroup', proc')
    BY <1>1, <2>2, <2>3 DEF InPlace, Placed
  <2>. QED BY <2>4, <2>5 DEF InPlace
<1>. QED BY <1>2, <1>3 DEF Add
=============================================================================
