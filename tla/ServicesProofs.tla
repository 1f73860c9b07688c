--------------------------- MODULE ServicesProofs ---------------------------
(***************************************************************************)
(* Proofs about Services, for any number of invocations, services, pids    *)
(* and faults: who the update lock belongs to, types, names that stay      *)
(* unique, processes that can be found, and whom a kill hits.              *)
(***************************************************************************)
EXTENDS Services, SublistsProofs

LockLoss == {"failed", "killed", "signal"}

\* The two halves of the word have their own owners: "ting" is written after
\* "upda" and cut off before "idle" is written over it.
TailHasOwner == status.tail = "ting" => \E c \in Cli : pc[c] \in {"pull", "unmark"}
HeadHasOwner == status.head = "upda" => StatusWriter # {}

LockInv ==
    /\ pc \in [Cli -> PC]
    /\ status \in Status /\ statusCopy \in Status
    /\ Undisturbed(LockLoss) => TailHasOwner /\ HeadHasOwner

\* The beginning.
LEMMA LockInit == Init => LockInv
  BY DEF Init, LockInv, PC, Status, Idle, TailHasOwner, HeadHasOwner

\* Steps that leave the status file and those who write it where they are.
LEMMA LockElsewhere ==
    ASSUME LockInv, pc' \in [Cli -> PC], UNCHANGED lockf, happened \subseteq happened',
           \A d \in Cli : pc[d] \in {"marking", "pull", "unmark", "unmarking"}
                             => pc'[d] = pc[d]
    PROVE  LockInv'
<1>1. TailHasOwner => TailHasOwner'
  BY DEF TailHasOwner, lockf
<1>2. HeadHasOwner => HeadHasOwner'
  BY DEF HeadHasOwner, StatusWriter, lockf
<1>. QED BY <1>1, <1>2 DEF LockInv, Undisturbed, lockf

\* Steps after which the lock is no longer promised.
LEMMA LockLost ==
    ASSUME LockInv, pc' \in [Cli -> PC], status' \in Status, statusCopy' \in Status,
           \E w \in LockLoss : w \in happened'
    PROVE  LockInv'
  BY DEF LockInv, Undisturbed

LEMMA LockBegin == ASSUME LockInv, NEW c \in Cli, Begin(c) PROVE LockInv'
<1>1. pc' = [pc EXCEPT ![c] = "ready"] /\ pc[c] = "off" /\ UNCHANGED lockf
  BY DEF Begin, Goto
<1>2. happened \subseteq happened'
  BY DEF Begin, Note
<1>. QED BY <1>1, <1>2, LockElsewhere DEF LockInv, PC

LEMMA LockCommand == ASSUME LockInv, NEW c \in Cli, CommandStep(c) PROVE LockInv'
<1>. USE DEF LockInv
<1>1. CASE List(c)
  BY <1>1, LockElsewhere DEF List, Goto, PC
<1>2. CASE Add(c)
  BY <1>2, LockElsewhere DEF Add, Goto, PC
<1>3. CASE RemoveFolder(c)
  BY <1>3, LockElsewhere DEF RemoveFolder, Goto, PC
<1>4. CASE RemoveRecord(c)
  BY <1>4, LockElsewhere DEF RemoveRecord, Goto, PC, Note
<1>5. CASE Rename(c)
  BY <1>5, LockElsewhere DEF Rename, Goto, PC
<1>6. CASE Stop(c)
  <2>1. pc' = [pc EXCEPT ![c] = "save"] /\ pc[c] = "ready" /\ UNCHANGED lockf
    BY <1>6 DEF Stop, Goto
  <2>2. happened \subseteq happened'
    BY <1>6 DEF Stop, Note
  <2>. QED BY <2>1, <2>2, LockElsewhere DEF PC
<1>7. CASE Run(c)
  <2>1. /\ pc' \in {[pc EXCEPT ![c] = "save"], [pc EXCEPT ![c] = "checked"]}
        /\ pc[c] = "ready" /\ UNCHANGED lockf
    BY <1>7 DEF Run, Goto
  <2>2. happened \subseteq happened'
    BY <1>7 DEF Run, Note
  <2>. QED BY <2>1, <2>2, LockElsewhere DEF PC
<1>8. CASE Restart(c)
  <2>1. /\ pc' \in {[pc EXCEPT ![c] = "save"], [pc EXCEPT ![c] = "checked"]}
        /\ pc[c] = "ready" /\ UNCHANGED lockf
    BY <1>8 DEF Restart, Goto
  <2>2. happened \subseteq happened'
    BY <1>8 DEF Restart, Note
  <2>. QED BY <2>1, <2>2, LockElsewhere DEF PC
<1>9. CASE Fork(c)
  BY <1>9, LockElsewhere DEF Fork, Goto, PC
<1>10. CASE ForkNoFolder(c)
  <2>1. PICK d \in Cli : /\ pc[d] = "off"
                         /\ pc' = [pc EXCEPT ![c] = "forked", ![d] = "save"]
    BY <1>10 DEF ForkNoFolder
  <2>2. pc[c] = "checked" /\ UNCHANGED lockf /\ happened \subseteq happened'
    BY <1>10 DEF ForkNoFolder, Note
  <2>. QED BY <2>1, <2>2, LockElsewhere DEF PC
<1>11. CASE StorePid(c)
  <2>1. /\ pc' \in {[pc EXCEPT ![c] = "regroup"], [pc EXCEPT ![c] = "attached"],
                    [pc EXCEPT ![c] = "save"]}
        /\ pc[c] \in {"forked", "joining"} /\ UNCHANGED <<lockf, happened>>
    BY <1>11 DEF StorePid, Goto
  <2>. QED BY <2>1, LockElsewhere DEF PC
<1>12. CASE Regroup(c)
  <2>1. pc' = [pc EXCEPT ![c] = "save"] /\ pc[c] = "regroup" /\ UNCHANGED lockf
    BY <1>12 DEF Regroup, Goto
  <2>2. happened \subseteq happened'
    BY <1>12 DEF Regroup, Note
  <2>. QED BY <2>1, <2>2, LockElsewhere DEF PC
<1>13. CASE Update(c)
  BY <1>13, LockElsewhere DEF Update, Goto, PC
<1>14. CASE Neglect(c)
  BY <1>14, LockElsewhere DEF Neglect, Goto, PC
<1>15. CASE StatusCut(c)
  <2>1. /\ pc' \in [Cli -> PC] /\ happened' = happened
        /\ status' \in Status /\ statusCopy' \in Status
    BY <1>15 DEF StatusCut, Goto, PC, Status
  <2>2. TailHasOwner => TailHasOwner'
    BY <1>15 DEF StatusCut, Goto, TailHasOwner, PC, Status
  <2>3. StatusWriter # {} => StatusWriter' # {}
    BY <1>15 DEF StatusCut, Goto, StatusWriter
  <2>4. HeadHasOwner => HeadHasOwner'
    BY <1>15, <2>3 DEF StatusCut, HeadHasOwner, Status
  <2>. QED BY <2>1, <2>2, <2>4 DEF Undisturbed
<1>16. CASE StatusPut(c)
  <2>1. pc' \in [Cli -> PC] /\ status' \in Status /\ statusCopy' = statusCopy
    BY <1>16 DEF StatusPut, Goto, PC, Status
  <2>2. happened \subseteq happened'
    BY <1>16 DEF StatusPut, Note
  <2>3. CASE pc[c] = "marking"
    <3>1. pc'[c] = "pull"
      BY <1>16, <2>3 DEF StatusPut, Goto
    <3>. QED BY <2>1, <3>1 DEF TailHasOwner, HeadHasOwner, StatusWriter
  <2>4. CASE pc[c] = "unmarking"
    <3>1. /\ pc' = [pc EXCEPT ![c] = "save"] /\ status'.head = "idle"
          /\ status'.tail = status.tail
      BY <1>16, <2>4 DEF StatusPut, Goto, Status
    <3>2. TailHasOwner => TailHasOwner'
      BY <2>4, <3>1 DEF TailHasOwner
    <3>. QED BY <2>1, <2>2, <3>1, <3>2 DEF HeadHasOwner, Undisturbed
  <2>. QED BY <1>16, <2>3, <2>4 DEF StatusPut
<1>17. CASE Pulled(c)
  <2>1. /\ pc' = [pc EXCEPT ![c] = "unmark"] /\ pc[c] = "pull"
        /\ UNCHANGED <<lockf, happened>>
    BY <1>17 DEF Pulled, Goto
  <2>2. pc' \in [Cli -> PC] /\ pc'[c] = "unmark"
    BY <2>1 DEF PC
  <2>3. TailHasOwner' /\ HeadHasOwner'
    BY <2>2 DEF TailHasOwner, HeadHasOwner, StatusWriter
  <2>. QED BY <2>1, <2>2, <2>3 DEF lockf
<1>18. CASE PullFails(c)
  <2>1. pc' \in [Cli -> PC] /\ UNCHANGED lockf /\ "failed" \in happened'
    BY <1>18 DEF PullFails, Off, Goto, PC, Note
  <2>. QED BY <2>1, LockLost DEF LockLoss, lockf
<1>. QED
  BY <1>1, <1>2, <1>3, <1>4, <1>5, <1>6, <1>7, <1>8, <1>9, <1>10, <1>11, <1>12, <1>13,
     <1>14, <1>15, <1>16, <1>17, <1>18 DEF CommandStep

LEMMA LockSave == ASSUME LockInv, NEW c \in Cli, SaveStep(c) PROVE LockInv'
<1>1. /\ pc' \in {[pc EXCEPT ![c] = "off"], [pc EXCEPT ![c] = "copy"]}
      /\ pc[c] \in {"save", "copy"} /\ UNCHANGED <<lockf, happened>>
  BY DEF SaveStep, SaveNothing, SaveTruncate, SaveCopy, Off, Goto
<1>. QED BY <1>1, LockElsewhere DEF LockInv, PC

LEMMA LockDisturbance == ASSUME LockInv, NEW c \in Cli, Disturbance(c) PROVE LockInv'
<1>. USE DEF LockInv
<1>1. CASE SaveInterrupt(c)
  BY <1>1, LockElsewhere DEF SaveInterrupt, local, Note
<1>2. CASE Detach(c)
  <2>1. /\ pc' \in {pc, [pc EXCEPT ![c] = "joining"], [pc EXCEPT ![c] = "save"]}
        /\ pc[c] \in {"forked", "attached"} /\ UNCHANGED lockf
    BY <1>2 DEF Detach, Goto
  <2>2. happened \subseteq happened'
    BY <1>2 DEF Detach, Note
  <2>. QED BY <2>1, <2>2, LockElsewhere DEF PC
<1>3. CASE StatusInterrupt(c)
  <2>1. pc' = pc /\ status' = statusCopy /\ statusCopy' = statusCopy /\ "signal" \in happened'
    BY <1>3 DEF StatusInterrupt, local, Note
  <2>. QED BY <2>1, LockLost DEF LockLoss
<1>4. CASE Kill(c)
  <2>1. pc' \in [Cli -> PC] /\ UNCHANGED lockf /\ "killed" \in happened'
    BY <1>4 DEF Kill, Off, Goto, PC, Note
  <2>. QED BY <2>1, LockLost DEF LockLoss, lockf
<1>5. CASE RestartFaults(c)
  <2>1. /\ pc' \in {pc, [pc EXCEPT ![c] = "off"]} /\ pc[c] = "forked" /\ UNCHANGED lockf
    BY <1>5 DEF RestartFaults, Off, Goto, local
  <2>2. happened \subseteq happened'
    BY <1>5 DEF RestartFaults, Note
  <2>. QED BY <2>1, <2>2, LockElsewhere DEF PC
<1>. QED BY <1>1, <1>2, <1>3, <1>4, <1>5 DEF Disturbance

LEMMA LockStep == LockInv /\ [Next]_vars => LockInv'
<1>1. SUFFICES ASSUME LockInv, [Next]_vars PROVE LockInv'
  OBVIOUS
<1>2. ASSUME NEW p \in Pid, Die(p) PROVE LockInv'
  BY <1>1, <1>2, LockElsewhere DEF Die, local, Note, LockInv
<1>3. CASE UNCHANGED vars
  BY <1>1, <1>3, LockElsewhere DEF vars, local, LockInv
<1>. QED
  BY <1>1, <1>2, <1>3, LockBegin, LockCommand, LockSave, LockDisturbance DEF Next

\* While the status file says "updating" somebody updates, however many updates
\* and neglect-updates cut and write it at once, unless a pull failed or a
\* command was killed or interrupted (update_service.c:34, :146).
THEOREM UpdateLockIsOwned == Spec => []UpdateLockHasOwner
<1>1. LockInv => UpdateLockHasOwner
  <2>1. SUFFICES ASSUME LockInv, Updating, Undisturbed(LockLoss) PROVE StatusWriter # {}
    BY DEF UpdateLockHasOwner, LockLoss
  <2>2. status.head = "upda" \/ status.tail = "ting"
    BY <2>1 DEF LockInv, Updating, Status
  <2>. QED BY <2>1, <2>2 DEF LockInv, TailHasOwner, HeadHasOwner, StatusWriter
<1>. QED BY LockInit, LockStep, <1>1, PTL DEF Spec

-----------------------------------------------------------------------------
\* What the helpers return.

LEMMA RecordsAreCells == Record \subseteq Cell /\ Zero \in Cell /\ Zero \notin Record
  BY ServicesAssumption DEF Record, Cell, Zero

\* loadServices reads the records before the first NUL bytes.
LEMMA VisibleFacts ==
  ASSUME NEW f \in Seq(Cell)
  PROVE  /\ Visible(f) \in Seq(Record) /\ Len(Visible(f)) \in 0..Len(f)
         /\ \A i \in DOMAIN Visible(f) : i \in DOMAIN f /\ Visible(f)[i] = f[i]
<1> DEFINE P == {i \in 1..Len(f) : \A k \in 1..i : f[k] # Zero}
           m == Cardinality(P)
<1>1. Len(f) \in Nat /\ \A i \in 1..Len(f) : f[i] \in Record \union {Zero}
  BY DEF Cell
<1>2. m \in 0..Len(f) /\ P = 1..m
  <2>1. P \in SUBSET (1..Len(f)) /\ \A i \in P : 1..i \subseteq P
    BY <1>1
  <2> HIDE DEF P
  <2>. QED BY <1>1, <2>1, FirstPlaces
<1>3. \A i \in P : f[i] \in Record
  BY <1>1
<1>4. Visible(f) = SubSeq(f, 1, m)
  BY DEF Visible
<1> HIDE DEF P, m
<1>5. /\ Len(SubSeq(f, 1, m)) = m /\ DOMAIN SubSeq(f, 1, m) = 1..m
      /\ \A i \in 1..m : SubSeq(f, 1, m)[i] = f[i] /\ i \in 1..Len(f)
  BY <1>1, <1>2
<1>6. SubSeq(f, 1, m) = [i \in 1..m |-> f[i]]
  BY <1>1, <1>2
<1>7. \A i \in 1..m : f[i] \in Record
  BY <1>2, <1>3
<1>8. SubSeq(f, 1, m) \in Seq(Record)
  BY <1>2, <1>6, <1>7
<1>. QED BY <1>1, <1>2, <1>4, <1>5, <1>8

\* A file of records only is read whole.
Whole(f) == \A i \in DOMAIN f : f[i] # Zero

LEMMA WholeVisible ==
  ASSUME NEW f \in Seq(Cell), Whole(f)
  PROVE  Visible(f) = f /\ f \in Seq(Record)
<1>1. {i \in 1..Len(f) : \A k \in 1..i : f[k] # Zero} = 1..Len(f)
  BY DEF Whole
<1>2. Visible(f) = SubSeq(f, 1, Len(f))
  <2>1. Len(f) \in Nat
    OBVIOUS
  <2>2. Cardinality(1..Len(f)) = Len(f)
    BY <2>1, CountInterval
  <2>. QED BY <1>1, <2>2 DEF Visible
<1>3. Visible(f) = f
  BY <1>2
<1>. QED BY <1>3, VisibleFacts

LEMMA LoadedFacts ==
  ASSUME NEW f \in Seq(Cell)
  PROVE  /\ Loaded(f) \in Seq(Entry) /\ DOMAIN Loaded(f) = DOMAIN Visible(f)
         /\ \A i \in DOMAIN Loaded(f) :
              i \in DOMAIN f /\ Loaded(f)[i].rec = f[i] /\ Loaded(f)[i].cloned = TRUE
<1>1. /\ Len(Visible(f)) \in Nat /\ DOMAIN Visible(f) = 1..Len(Visible(f))
      /\ \A i \in 1..Len(Visible(f)) : i \in DOMAIN f /\ f[i] \in Record
  BY VisibleFacts
<1>2. \A i \in 1..Len(Visible(f)) : [rec |-> f[i], cloned |-> TRUE] \in Entry
  BY <1>1 DEF Entry
<1>3. Loaded(f) = [i \in 1..Len(Visible(f)) |-> [rec |-> f[i], cloned |-> TRUE]]
  BY DEF Loaded
<1>. QED BY <1>1, <1>2, <1>3

LEMMA FileTypes ==
  ASSUME NEW f \in Seq(Cell), NEW g \in Seq(Cell), NEW n \in Nat
  PROVE  Resize(f, n) \in Seq(Cell) /\ Overlay(f, g) \in Seq(Cell) /\ CopyOf(f, g) \in Seq(Cell)
  BY RecordsAreCells DEF Resize, Overlay, CopyOf

LEMMA FindFacts ==
  ASSUME NEW t, NEW r, Has(t, r)
  PROVE  Find(t, r) \in DOMAIN t /\ t[Find(t, r)].rec.repo = r
  BY DEF Has, Find

LEMMA WithoutFacts ==
  ASSUME NEW t \in Seq(Entry), NEW i \in DOMAIN t
  PROVE  /\ Without(t, i) \in Seq(Entry) /\ DOMAIN Without(t, i) = 1..(Len(t) - 1)
         /\ \A k \in 1..(Len(t) - 1) :
               Without(t, i)[k] = IF k < i THEN t[k] ELSE t[k + 1]
<1> DEFINE a == SubSeq(t, 1, i - 1)
           b == SubSeq(t, i + 1, Len(t))
<1>1. Len(t) \in Nat /\ i \in 1..Len(t) /\ \A k \in 1..Len(t) : t[k] \in Entry
  OBVIOUS
<1>2. a \in Seq(Entry) /\ Len(a) = i - 1 /\ \A k \in 1..(i - 1) : a[k] = t[k]
  BY <1>1
<1>3. /\ b \in Seq(Entry) /\ Len(b) = Len(t) - i
      /\ \A k \in 1..(Len(t) - i) : b[k] = t[k + i]
  BY <1>1
<1>4. Without(t, i) = a \o b
  BY DEF Without
<1> HIDE DEF a, b
<1>5. a \o b \in Seq(Entry) /\ Len(a \o b) = Len(t) - 1
  BY <1>1, <1>2, <1>3
<1>6. \A k \in 1..(i - 1) : (a \o b)[k] = t[k]
  BY <1>1, <1>2, <1>3
<1>7. ASSUME NEW k \in i..(Len(t) - 1) PROVE (a \o b)[k] = t[k + 1]
  <2>1. k - (i - 1) \in 1..(Len(t) - i) /\ k - (i - 1) + i = k + 1
    BY <1>1
  <2>2. (a \o b)[k] = b[k - (i - 1)]
    BY <1>1, <1>2, <1>3
  <2>. QED BY <1>3, <2>1, <2>2
<1>8. \A k \in 1..(Len(t) - 1) : (a \o b)[k] = IF k < i THEN t[k] ELSE t[k + 1]
  <2> TAKE k \in 1..(Len(t) - 1)
  <2>1. (k \in 1..(i - 1) /\ k < i) \/ (k \in i..(Len(t) - 1) /\ ~(k < i))
    BY <1>1
  <2>. QED BY <1>6, <1>7, <2>1
<1>9. DOMAIN (a \o b) = 1..(Len(t) - 1)
  BY <1>5
<1>. QED BY <1>4, <1>5, <1>8, <1>9, Zenon

\* The records save_services writes are those of the cloned entries, once each.
LEMMA SavedFacts ==
  ASSUME NEW t \in Seq(Entry)
  PROVE  /\ Saved(t) \in Seq(Record)
         /\ \E at \in [DOMAIN Saved(t) -> DOMAIN t] :
               /\ \A k \in DOMAIN Saved(t) : t[at[k]].cloned /\ Saved(t)[k] = t[at[k]].rec
               /\ \A k, l \in DOMAIN Saved(t) : k # l => at[k] # at[l]
         /\ \A i \in DOMAIN t : t[i].cloned => \E k \in DOMAIN Saved(t) : Saved(t)[k] = t[i].rec
<1> DEFINE P == {i \in DOMAIN t : t[i].cloned}
<1>1. P \in SUBSET (DOMAIN t) /\ \A i \in P : t[i].cloned
  OBVIOUS
<1>2. Saved(t) = [k \in 1..Len(Picked(t, P)) |-> Picked(t, P)[k].rec]
  BY DEF Saved
<1>3. \A i \in DOMAIN t : t[i].cloned => i \in P
  OBVIOUS
<1> HIDE DEF P
<1>4. /\ Picked(t, P) \in Seq(Entry) /\ Len(Picked(t, P)) = Cardinality(P)
      /\ Cardinality(P) \in Nat
  BY <1>1, PickedType
<1>5. /\ DOMAIN Saved(t) = 1..Cardinality(P)
      /\ \A k \in 1..Cardinality(P) : Saved(t)[k] = Picked(t, P)[k].rec
  BY <1>2, <1>4
<1>6. Saved(t) \in Seq(Record)
  <2>1. \A k \in 1..Len(Picked(t, P)) : Picked(t, P)[k] \in Entry
    BY <1>4
  <2>2. \A k \in 1..Len(Picked(t, P)) : Picked(t, P)[k].rec \in Record
    BY <2>1 DEF Entry
  <2>. QED BY <1>2, <1>4, <2>2
<1>7. /\ \A k \in 1..Cardinality(P) : Place(P, k) \in P /\ Picked(t, P)[k] = t[Place(P, k)]
      /\ \A k, l \in 1..Cardinality(P) : k # l => Place(P, k) # Place(P, l)
      /\ \A i \in P : /\ UpTo(P, i) \in 1..Cardinality(P)
                      /\ Picked(t, P)[UpTo(P, i)] = t[i]
  BY <1>1, PickedEntries
<1>8. \E at \in [DOMAIN Saved(t) -> DOMAIN t] :
         /\ \A k \in DOMAIN Saved(t) : t[at[k]].cloned /\ Saved(t)[k] = t[at[k]].rec
         /\ \A k, l \in DOMAIN Saved(t) : k # l => at[k] # at[l]
  <2> DEFINE at == [k \in DOMAIN Saved(t) |-> Place(P, k)]
  <2>1. at \in [DOMAIN Saved(t) -> DOMAIN t]
    BY <1>1, <1>5, <1>7
  <2>2. \A k \in DOMAIN Saved(t) : t[at[k]].cloned /\ Saved(t)[k] = t[at[k]].rec
    BY <1>1, <1>5, <1>7
  <2>3. \A k, l \in DOMAIN Saved(t) : k # l => at[k] # at[l]
    BY <1>5, <1>7
  <2> HIDE DEF at
  <2>. QED BY <2>1, <2>2, <2>3
<1>9. \A i \in DOMAIN t : t[i].cloned => \E k \in DOMAIN Saved(t) : Saved(t)[k] = t[i].rec
  <2> TAKE i \in DOMAIN t
  <2> HAVE t[i].cloned
  <2>1. i \in P
    BY <1>3
  <2>2. UpTo(P, i) \in DOMAIN Saved(t) /\ Saved(t)[UpTo(P, i)] = t[i].rec
    BY <1>5, <1>7, <2>1
  <2>. QED BY <2>2
<1>. QED BY <1>6, <1>8, <1>9

-----------------------------------------------------------------------------
\* Types.

\* Where an invocation works on a service, the service is in its table.
Chosen == {"removing", "checked", "forked", "attached", "joining", "regroup",
           "mark", "marking", "pull"}
TargetsAreThere ==
  \A c \in Cli : pc[c] \in Chosen => target[c] \in Repo /\ Has(table[c], target[c])

TypeInv == TypeOK /\ TargetsAreThere

LEMMA TypeInit == Init => TypeInv
<1> SUFFICES ASSUME Init PROVE TypeInv
  OBVIOUS
<1>1. /\ file \in Seq(Record) /\ file \in Seq(Cell)
      /\ \A i \in DOMAIN file : file[i].name \in Name /\ file[i].repo \in Repo
  <2>1. file \in Seq(Record)
    BY ServicesAssumption DEF Init
  <2>2. \A i \in DOMAIN file : file[i] \in Record
    BY <2>1
  <2>. QED BY <2>1, <2>2, RecordsAreCells DEF Record
<1>2. proc \in [Pid -> Repo \union {Nothing}]
  <2> DEFINE owner(p) == IF \E i \in DOMAIN file : file[i].pid = p
                         THEN file[CHOOSE i \in DOMAIN file : file[i].pid = p].repo
                         ELSE Nothing
  <2>1. \A p \in Pid : owner(p) \in Repo \union {Nothing}
    BY <1>1
  <2>2. proc = [p \in Pid |-> owner(p)]
    BY DEF Init
  <2> HIDE DEF owner
  <2>. QED BY <2>1, <2>2
<1>3. TargetsAreThere
  BY DEF Init, TargetsAreThere, Chosen
<1>. QED
  BY <1>1, <1>2, <1>3 DEF Init, TypeInv, TypeOK, Status, Idle, PC, Command, Happenings

\* The entry of a service that is there.
LEMMA EntryOf ==
  ASSUME TypeOK, NEW c \in Cli, NEW r \in Repo, Has(table[c], r)
  PROVE  /\ Find(table[c], r) \in DOMAIN table[c]
         /\ table[c][Find(table[c], r)] \in Entry
         /\ table[c][Find(table[c], r)].rec.repo = r
         /\ PidOf(c, r) = table[c][Find(table[c], r)].rec.pid
         /\ PidOf(c, r) \in Pid \union {NoPid}
         /\ NameOf(c, r) = table[c][Find(table[c], r)].rec.name
         /\ NameOf(c, r) \in Name
<1>1. Find(table[c], r) \in DOMAIN table[c] /\ table[c][Find(table[c], r)].rec.repo = r
  BY FindFacts
<1>2. table[c][Find(table[c], r)] \in Entry
  BY <1>1 DEF TypeOK
<1>. QED BY <1>1, <1>2 DEF PidOf, NameOf, Entry, Record

LEMMA KillType ==
  ASSUME TypeOK, NEW p
  PROVE  Shot(p) \in [Pid -> Repo \union {Nothing}] /\ \A r : Strike(p, r) \subseteq Happenings
  BY DEF TypeOK, Shot, Strike, Happenings

\* What SetPid leaves: the same services, one with another pid.
LEMMA SetPidFacts ==
  ASSUME TypeOK, NEW c \in Cli, NEW r \in Repo, Has(table[c], r),
         NEW p \in Pid \union {NoPid}, SetPid(c, r, p)
  PROVE  /\ table' \in [Cli -> Seq(Entry)]
         /\ \A d \in Cli \ {c} : table'[d] = table[d]
         /\ DOMAIN table'[c] = DOMAIN table[c]
         /\ \A i \in DOMAIN table[c] :
              /\ table'[c][i].cloned = table[c][i].cloned
              /\ table'[c][i].rec.name = table[c][i].rec.name
              /\ table'[c][i].rec.repo = table[c][i].rec.repo
              /\ table'[c][i].rec.pid = IF i = Find(table[c], r) THEN p
                                        ELSE table[c][i].rec.pid
         /\ \A s : Has(table'[c], s) <=> Has(table[c], s)
<1> DEFINE k == Find(table[c], r)
           t == [table[c] EXCEPT ![k].rec.pid = p]
<1>1. /\ k \in DOMAIN table[c] /\ table[c] \in Seq(Entry)
      /\ \A i \in DOMAIN table[c] : table[c][i] \in Entry
  BY EntryOf DEF TypeOK
<1>2. table' = [table EXCEPT ![c] = t]
  BY DEF SetPid
<1> HIDE DEF k
<1>3. [table[c][k] EXCEPT !.rec.pid = p] \in Entry
  <2>1. table[c][k].rec \in Record
    BY <1>1 DEF Entry
  <2>2. [table[c][k].rec EXCEPT !.pid = p] \in Record
    BY <2>1 DEF Record
  <2>. QED BY <1>1, <2>2 DEF Entry
<1>4. t \in Seq(Entry) /\ DOMAIN t = DOMAIN table[c]
  BY <1>1, <1>3
<1>5. \A i \in DOMAIN table[c] :
        /\ t[i].cloned = table[c][i].cloned /\ t[i].rec.name = table[c][i].rec.name
        /\ t[i].rec.repo = table[c][i].rec.repo
        /\ t[i].rec.pid = IF i = k THEN p ELSE table[c][i].rec.pid
  BY <1>1 DEF Entry, Record
<1>6. /\ table' \in [Cli -> Seq(Entry)] /\ table'[c] = t
      /\ \A d \in Cli \ {c} : table'[d] = table[d]
  BY <1>2, <1>4 DEF TypeOK
<1> HIDE DEF t
<1>7. \A s : Has(table'[c], s) <=> Has(table[c], s)
  BY <1>4, <1>5, <1>6 DEF Has
<1>. QED BY <1>4, <1>5, <1>6, <1>7 DEF k

\* A step of c to l that keeps c's service in its table, if it has one.
LEMMA TargetsStay ==
  ASSUME TypeInv, NEW c \in Cli, NEW l \in PC, pc' = [pc EXCEPT ![c] = l],
         \A d \in Cli \ {c} : UNCHANGED <<table[d], target[d]>>,
         l \in Chosen => target'[c] \in Repo /\ Has(table'[c], target'[c])
  PROVE  TargetsAreThere' /\ pc' \in [Cli -> PC]
<1>1. pc' \in [Cli -> PC] /\ \A d \in Cli : pc'[d] = IF d = c THEN l ELSE pc[d]
  BY DEF TypeInv, TypeOK
<1>2. ASSUME NEW d \in Cli \ {c}, pc'[d] \in Chosen
      PROVE  target'[d] \in Repo /\ Has(table'[d], target'[d])
  BY <1>1, <1>2 DEF TypeInv, TargetsAreThere
<1>. QED BY <1>1, <1>2 DEF TargetsAreThere

LEMMA OffType ==
  ASSUME TypeInv, NEW c \in Cli, Off(c)
  PROVE  /\ table' \in [Cli -> Seq(Entry)] /\ target' \in [Cli -> Repo \union {Nothing}]
         /\ child' \in [Cli -> Pid \union {NoPid}] /\ command' \in [Cli -> Command]
         /\ pc' \in [Cli -> PC] /\ TargetsAreThere'
<1>1. /\ table' \in [Cli -> Seq(Entry)] /\ target' \in [Cli -> Repo \union {Nothing}]
      /\ child' \in [Cli -> Pid \union {NoPid}] /\ command' \in [Cli -> Command]
  BY DEF TypeInv, TypeOK, Off, Command
<1>2. \A d \in Cli \ {c} : UNCHANGED <<table[d], target[d]>>
  BY DEF TypeInv, TypeOK, Off
<1>3. pc' = [pc EXCEPT ![c] = "off"] /\ "off" \in PC /\ "off" \notin Chosen
  BY DEF Off, Goto, PC, Chosen
<1>. QED BY <1>1, <1>2, <1>3, TargetsStay

LEMMA TypeBegin == ASSUME TypeInv, NEW c \in Cli, Begin(c) PROVE TypeInv'
<1>1. table' \in [Cli -> Seq(Entry)] /\ backup' \in Seq(Cell)
  BY LoadedFacts, FileTypes DEF Begin, TypeInv, TypeOK
<1>2. command' \in [Cli -> Command] /\ budget' \in [commands : Nat, faults : Nat]
  <2>1. \E cmd \in Command : command' = [command EXCEPT ![c] = cmd]
    BY DEF Begin
  <2>2. budget' = [budget EXCEPT !.commands = @ + 1]
    BY DEF Begin
  <2>3. command \in [Cli -> Command] /\ budget \in [commands : Nat, faults : Nat]
    BY DEF TypeInv, TypeOK
  <2>4. command' \in [Cli -> Command]
    BY <2>1, <2>3
  <2>. QED BY <2>2, <2>3, <2>4
<1>3. happened' \subseteq Happenings
  BY DEF Begin, TypeInv, TypeOK, Note, Happenings
<1>4. TargetsAreThere' /\ pc' \in [Cli -> PC]
  <2>1. pc' = [pc EXCEPT ![c] = "ready"] /\ "ready" \in PC /\ "ready" \notin Chosen
    BY DEF Begin, Goto, PC, Chosen
  <2>2. \A d \in Cli \ {c} : UNCHANGED <<table[d], target[d]>>
    BY DEF Begin, TypeInv, TypeOK
  <2>. QED BY <2>1, <2>2, TargetsStay
<1>. QED BY <1>1, <1>2, <1>3, <1>4 DEF Begin, TypeInv, TypeOK, lockf

LEMMA TypeCommand == ASSUME TypeInv, NEW c \in Cli, CommandStep(c) PROVE TypeInv'
<1>0. /\ TypeOK
      /\ pc[c] \in Chosen => target[c] \in Repo /\ Has(table[c], target[c])
      /\ table[c] \in Seq(Entry) /\ file \in Seq(Cell) /\ backup \in Seq(Cell)
  BY DEF TypeInv, TypeOK, TargetsAreThere
<1>. USE DEF Goto, PC, Chosen
<1>1. CASE List(c)
  BY <1>1, TargetsStay DEF List, TypeInv, TypeOK, disk, lockf
<1>2. CASE Add(c)
  <2>1. PICK n \in Name, r \in Repo, ok \in BOOLEAN :
           \/ UNCHANGED <<folder, table>>
           \/ /\ folder' \in {folder, folder \union {n}}
              /\ table' = [table EXCEPT ![c] = Append(@,
                   [rec |-> [name |-> n, repo |-> r, pid |-> NoPid], cloned |-> ok])]
    BY <1>2 DEF Add
  <2>2. [rec |-> [name |-> n, repo |-> r, pid |-> NoPid], cloned |-> ok] \in Entry
    BY DEF Entry, Record
  <2>3. folder' \subseteq Name /\ table' \in [Cli -> Seq(Entry)]
    <3>1. folder' \subseteq Name
      BY <1>0, <2>1 DEF TypeOK
    <3>2. \A e \in Entry : Append(table[c], e) \in Seq(Entry)
      BY <1>0
    <3>3. table' = table \/ \E e \in Entry : table' = [table EXCEPT ![c] = Append(table[c], e)]
      BY <2>1, <2>2
    <3>4. table \in [Cli -> Seq(Entry)]
      BY <1>0 DEF TypeOK
    <3>. QED BY <3>1, <3>2, <3>3, <3>4
  <2>4. \A d \in Cli \ {c} : UNCHANGED <<table[d], target[d]>>
    BY <1>2, <2>1 DEF Add, TypeInv, TypeOK
  <2>5. TargetsAreThere' /\ pc' \in [Cli -> PC]
    BY <1>2, <2>4, TargetsStay DEF Add
  <2>. QED BY <1>2, <2>3, <2>5 DEF Add, TypeInv, TypeOK, lockf
<1>3. CASE RemoveFolder(c)
  <2>1. PICK r \in Repo : Has(table[c], r) /\ target' = [target EXCEPT ![c] = r]
    BY <1>3 DEF RemoveFolder
  <2>2. /\ target' \in [Cli -> Repo \union {Nothing}] /\ target'[c] = r
        /\ \A d \in Cli \ {c} : target'[d] = target[d]
    BY <2>1 DEF TypeInv, TypeOK
  <2>3. folder' \subseteq Name
    BY <1>3 DEF RemoveFolder, TypeInv, TypeOK
  <2>4. TargetsAreThere' /\ pc' \in [Cli -> PC]
    BY <1>3, <2>1, <2>2, TargetsStay DEF RemoveFolder
  <2>. QED BY <1>3, <2>2, <2>3, <2>4 DEF RemoveFolder, TypeInv, TypeOK, lockf
<1>4. CASE RemoveRecord(c)
  <2> DEFINE k == Find(table[c], target[c])
  <2>1. k \in DOMAIN table[c]
    BY <1>0, <1>4, FindFacts DEF RemoveRecord
  <2> HIDE DEF k
  <2>2. Without(table[c], k) \in Seq(Entry)
    BY <1>0, <2>1, WithoutFacts
  <2>3. table' = [table EXCEPT ![c] = Without(table[c], k)]
    BY <1>4 DEF RemoveRecord, k
  <2>4. table' \in [Cli -> Seq(Entry)] /\ \A d \in Cli \ {c} : table'[d] = table[d]
    BY <2>2, <2>3 DEF TypeInv, TypeOK
  <2>5. TargetsAreThere' /\ pc' \in [Cli -> PC]
    BY <1>4, <2>4, TargetsStay DEF RemoveRecord
  <2>6. proc' \in [Pid -> Repo \union {Nothing}] /\ happened' \subseteq Happenings
    BY <1>0, <1>4, KillType DEF RemoveRecord, Note, TypeOK
  <2>. QED BY <1>4, <2>4, <2>5, <2>6 DEF RemoveRecord, TypeInv, TypeOK, disk, lockf
<1>5. CASE Rename(c)
  <2>1. PICK r \in Repo, new \in Name :
          /\ Has(table[c], r)
          /\ \/ /\ folder' = (folder \ {NameOf(c, r)}) \union {new}
                /\ table' = [table EXCEPT ![c][Find(table[c], r)].rec.name = new]
             \/ UNCHANGED <<folder, table>>
    BY <1>5 DEF Rename, NameOf
  <2> DEFINE k == Find(table[c], r)
             e == [table[c][k] EXCEPT !.rec.name = new]
  <2>2. k \in DOMAIN table[c] /\ table[c][k] \in Entry
    BY <1>0, <2>1, EntryOf
  <2> HIDE DEF k
  <2>3. e \in Entry
    <3>1. table[c][k].rec \in Record
      BY <2>2 DEF Entry
    <3>2. [table[c][k].rec EXCEPT !.name = new] \in Record
      BY <3>1 DEF Record
    <3>. QED BY <2>2, <3>2 DEF Entry
  <2>4. \/ table' = [table EXCEPT ![c] = [table[c] EXCEPT ![k] = e]]
        \/ table' = table
    BY <1>0, <2>1, <2>2 DEF k, TypeOK
  <2> HIDE DEF e
  <2>5. /\ table' \in [Cli -> Seq(Entry)] /\ \A d \in Cli \ {c} : table'[d] = table[d]
    <3>1. PICK u : u = [table[c] EXCEPT ![k] = e]
      OBVIOUS
    <3>2. u \in Seq(Entry)
      BY <1>0, <2>2, <2>3, <3>1
    <3>3. table \in [Cli -> Seq(Entry)]
      BY <1>0 DEF TypeOK
    <3>4. table' = [table EXCEPT ![c] = u] \/ table' = table
      BY <2>4, <3>1
    <3>. QED BY <3>2, <3>3, <3>4
  <2>6. folder' \subseteq Name
    BY <2>1 DEF TypeInv, TypeOK
  <2>7. TargetsAreThere' /\ pc' \in [Cli -> PC]
    BY <1>5, <2>5, TargetsStay DEF Rename
  <2>. QED BY <1>5, <2>5, <2>6, <2>7 DEF Rename, TypeInv, TypeOK, lockf
<1>6. CASE Stop(c)
  <2>1. PICK r \in Repo :
          /\ Has(table[c], r) /\ proc' = Shot(PidOf(c, r))
          /\ \/ SetPid(c, r, NoPid) /\ happened' = happened \union Strike(PidOf(c, r), r)
             \/ /\ happened' = happened \union (Strike(PidOf(c, r), r) \union {"stale"})
                /\ UNCHANGED table
    BY <1>6 DEF Stop, Note
  <2>2. table' \in [Cli -> Seq(Entry)] /\ \A d \in Cli \ {c} : table'[d] = table[d]
    BY <1>0, <2>1, SetPidFacts DEF TypeOK
  <2>3. proc' \in [Pid -> Repo \union {Nothing}]
    BY <1>0, <2>1, KillType
  <2>4. happened' \subseteq Happenings
    BY <1>0, <2>1, KillType DEF TypeOK, Happenings
  <2>5. TargetsAreThere' /\ pc' \in [Cli -> PC]
    BY <1>6, <2>2, TargetsStay DEF Stop
  <2>. QED BY <1>6, <2>2, <2>3, <2>4, <2>5 DEF Stop, TypeInv, TypeOK, disk, lockf
<1>7. CASE Run(c) \/ Restart(c)
  <2>1. PICK r \in Repo, l \in {"save", "checked"} :
          /\ Has(table[c], r) /\ target' = [target EXCEPT ![c] = r]
          /\ proc' \in {proc, Shot(PidOf(c, r))} /\ pc' = [pc EXCEPT ![c] = l]
    BY <1>7 DEF Run, Restart
  <2>2. /\ target' \in [Cli -> Repo \union {Nothing}] /\ target'[c] = r
        /\ \A d \in Cli \ {c} : target'[d] = target[d]
    BY <2>1 DEF TypeInv, TypeOK
  <2>3. proc' \in [Pid -> Repo \union {Nothing}]
    BY <1>0, <2>1, KillType DEF TypeOK
  <2>4. happened' \subseteq Happenings
    BY <1>0, <1>7, KillType DEF Run, Restart, Note, TypeOK, Happenings
  <2>5. UNCHANGED <<disk, lockf, command, table, child, budget>>
    BY <1>7 DEF Run, Restart
  <2>6. TargetsAreThere' /\ pc' \in [Cli -> PC]
    BY <2>1, <2>2, <2>5, TargetsStay
  <2>. QED BY <2>2, <2>3, <2>4, <2>5, <2>6 DEF TypeInv, TypeOK, disk, lockf
<1>8. CASE Fork(c)
  <2>1. proc' \in [Pid -> Repo \union {Nothing}] /\ child' \in [Cli -> Pid \union {NoPid}]
    BY <1>0, <1>8 DEF Fork, TypeOK
  <2>2. TargetsAreThere' /\ pc' \in [Cli -> PC]
    BY <1>0, <1>8, TargetsStay DEF Fork
  <2>. QED BY <1>8, <2>1, <2>2 DEF Fork, TypeInv, TypeOK, disk, lockf
<1>9. CASE ForkNoFolder(c)
  <2>1. PICK d \in Cli :
          /\ pc[d] = "off" /\ pc[c] = "checked"
          /\ pc' = [pc EXCEPT ![c] = "forked", ![d] = "save"]
          /\ table' = [table EXCEPT ![d] = table[c]]
          /\ command' = [command EXCEPT ![d] = command[c]]
    BY <1>9 DEF ForkNoFolder
  <2>2. /\ pc' \in [Cli -> PC] /\ table' \in [Cli -> Seq(Entry)]
        /\ command' \in [Cli -> Command] /\ child' \in [Cli -> Pid \union {NoPid}]
    BY <1>0, <1>9, <2>1 DEF ForkNoFolder, TypeOK
  <2>3. happened' \subseteq Happenings
    BY <1>0, <1>9 DEF ForkNoFolder, Note, TypeOK, Happenings
  <2>4. \A q \in Cli : pc'[q] \in Chosen => pc[q] \in Chosen /\ table'[q] = table[q]
    BY <1>0, <2>1 DEF TypeOK
  <2>5. target' = target
    BY <1>9 DEF ForkNoFolder
  <2>6. TargetsAreThere'
    BY <2>4, <2>5 DEF TypeInv, TargetsAreThere
  <2>. QED
    BY <1>9, <2>2, <2>3, <2>6 DEF ForkNoFolder, TypeInv, TypeOK, disk, lockf
<1>10. CASE StorePid(c)
  <2>1. /\ SetPid(c, target[c], child[c]) /\ child[c] \in Pid \union {NoPid}
        /\ target[c] \in Repo /\ Has(table[c], target[c])
    BY <1>0, <1>10 DEF StorePid, TypeOK
  <2>2. /\ table' \in [Cli -> Seq(Entry)] /\ \A d \in Cli \ {c} : table'[d] = table[d]
        /\ Has(table'[c], target[c])
    BY <1>0, <2>1, SetPidFacts
  <2>3. child' \in [Cli -> Pid \union {NoPid}]
    BY <1>0, <1>10 DEF StorePid, TypeOK
  <2>4. PICK l \in {"regroup", "attached", "save"} : pc' = [pc EXCEPT ![c] = l]
    BY <1>10 DEF StorePid
  <2>5. UNCHANGED <<disk, lockf, proc, command, target, budget, happened>>
    BY <1>10 DEF StorePid
  <2>6. TargetsAreThere' /\ pc' \in [Cli -> PC]
    <3>1. l \in PC
      BY DEF PC
    <3>2. \A d \in Cli \ {c} : UNCHANGED <<table[d], target[d]>>
      BY <2>2, <2>5
    <3>3. target'[c] \in Repo /\ Has(table'[c], target'[c])
      BY <2>1, <2>2, <2>5
    <3>. QED BY <2>4, <3>1, <3>2, <3>3, TargetsStay
  <2>. QED BY <2>2, <2>3, <2>5, <2>6 DEF TypeInv, TypeOK, disk, lockf
<1>11. CASE Regroup(c)
  <2>1. proc' \in [Pid -> Repo \union {Nothing}] /\ happened' \subseteq Happenings
    BY <1>0, <1>11, KillType DEF Regroup, Note, TypeOK, Happenings
  <2>2. TargetsAreThere' /\ pc' \in [Cli -> PC]
    BY <1>11, TargetsStay DEF Regroup
  <2>. QED BY <1>11, <2>1, <2>2 DEF Regroup, TypeInv, TypeOK, disk, lockf
<1>12. CASE Update(c)
  <2>1. PICK r \in Repo : Has(table[c], r) /\ target' = [target EXCEPT ![c] = r]
    BY <1>12 DEF Update
  <2>2. /\ target' \in [Cli -> Repo \union {Nothing}] /\ target'[c] = r
        /\ \A d \in Cli \ {c} : target'[d] = target[d]
    BY <2>1 DEF TypeInv, TypeOK
  <2>3. TargetsAreThere' /\ pc' \in [Cli -> PC]
    BY <1>12, <2>1, <2>2, TargetsStay DEF Update
  <2>. QED BY <1>12, <2>2, <2>3 DEF Update, TypeInv, TypeOK, disk, lockf
<1>13. CASE Neglect(c) \/ Pulled(c)
  <2>1. pc' = [pc EXCEPT ![c] = "unmark"]
    BY <1>13 DEF Neglect, Pulled
  <2>2. UNCHANGED <<disk, lockf, proc, command, table, target, child, budget, happened>>
    BY <1>13 DEF Neglect, Pulled
  <2>3. TargetsAreThere' /\ pc' \in [Cli -> PC]
    BY <2>1, <2>2, TargetsStay
  <2>. QED BY <2>2, <2>3 DEF TypeInv, TypeOK, disk, lockf
<1>14. CASE StatusCut(c)
  <2>1. status' \in Status /\ statusCopy' \in Status
    BY <1>0, <1>14 DEF StatusCut, TypeOK, Status
  <2>2. PICK l \in {"marking", "unmarking"} :
          pc' = [pc EXCEPT ![c] = l] /\ (l = "marking" => pc[c] = "mark")
    BY <1>14 DEF StatusCut
  <2>3. TargetsAreThere' /\ pc' \in [Cli -> PC]
    BY <1>0, <1>14, <2>2, TargetsStay DEF StatusCut
  <2>. QED BY <1>14, <2>1, <2>3 DEF StatusCut, TypeInv, TypeOK, disk
<1>15. CASE StatusPut(c)
  <2>1. status' \in Status
    BY <1>0, <1>15 DEF StatusPut, TypeOK, Status
  <2>2. /\ proc' \in [Pid -> Repo \union {Nothing}] /\ happened' \subseteq Happenings
    <3>1. /\ proc \in [Pid -> Repo \union {Nothing}] /\ happened \subseteq Happenings
          /\ "stale" \in Happenings
      BY <1>0 DEF TypeOK, Happenings
    <3>2. \/ UNCHANGED <<proc, happened>>
          \/ \E p : /\ proc' = Shot(p)
                   /\ happened' \subseteq happened \union {"stale"} \union Strike(p, target[c])
      BY <1>15 DEF StatusPut, Note
    <3>. QED BY <1>0, <3>1, <3>2, KillType
  <2>3. PICK l \in {"pull", "save"} :
          pc' = [pc EXCEPT ![c] = l] /\ (l = "pull" => pc[c] = "marking")
    BY <1>15 DEF StatusPut
  <2>4. TargetsAreThere' /\ pc' \in [Cli -> PC]
    BY <1>0, <1>15, <2>3, TargetsStay DEF StatusPut
  <2>. QED BY <1>15, <2>1, <2>2, <2>4 DEF StatusPut, TypeInv, TypeOK, disk
<1>16. CASE PullFails(c)
  <2>1. happened' \subseteq Happenings
    BY <1>0, <1>16 DEF PullFails, Note, TypeOK, Happenings
  <2>. QED BY <1>16, <2>1, OffType DEF PullFails, TypeInv, TypeOK, disk, lockf
<1>. QED
  BY <1>1, <1>2, <1>3, <1>4, <1>5, <1>6, <1>7, <1>8, <1>9, <1>10, <1>11, <1>12, <1>13,
     <1>14, <1>15, <1>16 DEF CommandStep

LEMMA TypeSave == ASSUME TypeInv, NEW c \in Cli, SaveStep(c) PROVE TypeInv'
<1>0. /\ TypeOK /\ table[c] \in Seq(Entry) /\ file \in Seq(Cell) /\ backup \in Seq(Cell)
      /\ Saved(table[c]) \in Seq(Cell)
  BY SavedFacts, RecordsAreCells DEF TypeInv, TypeOK
<1>1. CASE SaveNothing(c)
  BY <1>1, OffType DEF SaveNothing, TypeInv, TypeOK, disk, lockf
<1>2. CASE SaveTruncate(c)
  <2>1. file' \in Seq(Cell) /\ backup' \in Seq(Cell)
    BY <1>0, <1>2, FileTypes DEF SaveTruncate
  <2>2. TargetsAreThere' /\ pc' \in [Cli -> PC]
    BY <1>2, TargetsStay DEF SaveTruncate, Goto, PC, Chosen
  <2>. QED BY <1>2, <2>1, <2>2 DEF SaveTruncate, TypeInv, TypeOK, lockf
<1>3. CASE SaveCopy(c)
  <2>1. file' \in Seq(Cell)
    BY <1>0, <1>3, FileTypes DEF SaveCopy
  <2>. QED BY <1>3, <2>1, OffType DEF SaveCopy, TypeInv, TypeOK, lockf
<1>. QED BY <1>1, <1>2, <1>3 DEF SaveStep

LEMMA FaultType ==
  ASSUME TypeOK, budget' = [budget EXCEPT !.faults = @ + 1],
         happened' = happened \/ \E w \in SUBSET Happenings : Note(w)
  PROVE  happened' \subseteq Happenings /\ budget' \in [commands : Nat, faults : Nat]
<1>1. budget' \in [commands : Nat, faults : Nat]
  <2>1. budget \in [commands : Nat, faults : Nat]
    BY DEF TypeOK
  <2>2. \A b \in [commands : Nat, faults : Nat] :
          [b EXCEPT !.faults = @ + 1] \in [commands : Nat, faults : Nat]
    OBVIOUS
  <2>. QED BY <2>1, <2>2
<1>2. happened' \subseteq Happenings
  BY DEF TypeOK, Note
<1>. QED BY <1>1, <1>2

LEMMA NotesType ==
  {"signal"} \in SUBSET Happenings /\ {"killed"} \in SUBSET Happenings
  /\ {"stale"} \in SUBSET Happenings
  BY DEF Happenings

LEMMA TypeDisturbance == ASSUME TypeInv, NEW c \in Cli, Disturbance(c) PROVE TypeInv'
<1>0. TypeOK /\ file \in Seq(Cell) /\ backup \in Seq(Cell)
  BY DEF TypeInv, TypeOK
<1>1. CASE SaveInterrupt(c)
  <2>1. Visible(backup) \in Seq(Cell)
    BY <1>0, VisibleFacts, RecordsAreCells
  <2>2. file' \in Seq(Cell)
    BY <1>0, <1>1, <2>1, FileTypes DEF SaveInterrupt
  <2>3. happened' \subseteq Happenings /\ budget' \in [commands : Nat, faults : Nat]
    BY <1>0, <1>1, FaultType, NotesType DEF SaveInterrupt
  <2>. QED
    BY <1>1, <2>2, <2>3 DEF SaveInterrupt, TypeInv, TypeOK, TargetsAreThere, lockf, local
<1>2. CASE Detach(c)
  <2>0. target[c] \in Repo /\ Has(table[c], target[c])
    BY <1>2 DEF Detach, TypeInv, TargetsAreThere, Chosen
  <2>1. proc' \in [Pid -> Repo \union {Nothing}]
    BY <1>0, <1>2, KillType DEF Detach, TypeOK
  <2>2. happened' \subseteq Happenings /\ budget' \in [commands : Nat, faults : Nat]
    BY <1>0, <1>2, FaultType, NotesType DEF Detach
  <2>3. /\ table' \in [Cli -> Seq(Entry)] /\ \A d \in Cli \ {c} : table'[d] = table[d]
        /\ Has(table'[c], target[c])
    BY <1>0, <1>2, <2>0, SetPidFacts DEF Detach, TypeOK
  <2>4. UNCHANGED <<disk, lockf, command, target, child>>
    BY <1>2 DEF Detach
  <2>5. PICK l \in PC : pc' = [pc EXCEPT ![c] = l]
    <3>1. \/ pc' = [pc EXCEPT ![c] = "joining"]
          \/ pc' = [pc EXCEPT ![c] = "save"]
          \/ pc' = [pc EXCEPT ![c] = pc[c]]
      BY <1>0, <1>2 DEF Detach, Goto, TypeOK
    <3>. QED BY <1>0, <3>1 DEF PC, TypeOK
  <2>6. TargetsAreThere' /\ pc' \in [Cli -> PC]
    BY <2>0, <2>3, <2>4, <2>5, TargetsStay
  <2>. QED BY <2>1, <2>2, <2>3, <2>4, <2>6 DEF TypeInv, TypeOK, disk, lockf
<1>3. CASE StatusInterrupt(c)
  <2>1. happened' \subseteq Happenings /\ budget' \in [commands : Nat, faults : Nat]
    BY <1>0, <1>3, FaultType, NotesType DEF StatusInterrupt
  <2>. QED
    BY <1>3, <2>1 DEF StatusInterrupt, TypeInv, TypeOK, TargetsAreThere, disk, local
<1>4. CASE Kill(c)
  <2>1. happened' \subseteq Happenings /\ budget' \in [commands : Nat, faults : Nat]
    BY <1>0, <1>4, FaultType, NotesType DEF Kill
  <2>. QED BY <1>4, <2>1, OffType DEF Kill, TypeInv, TypeOK, disk, lockf
<1>5. CASE RestartFaults(c)
  <2>1. /\ happened' \subseteq Happenings /\ proc' \in [Pid -> Repo \union {Nothing}]
    <3>1. /\ proc \in [Pid -> Repo \union {Nothing}] /\ happened \subseteq Happenings
          /\ "stale" \in Happenings /\ "killed" \in Happenings
      BY <1>0 DEF TypeOK, Happenings
    <3>2. /\ happened' = happened \union {"killed"} \/ happened' = happened \union {"stale"}
          /\ proc' = proc \/ proc' = Shot(child[c])
      BY <1>5 DEF RestartFaults, Note
    <3>. QED BY <1>0, <3>1, <3>2, KillType
  <2>2. /\ table' \in [Cli -> Seq(Entry)] /\ target' \in [Cli -> Repo \union {Nothing}]
        /\ child' \in [Cli -> Pid \union {NoPid}] /\ command' \in [Cli -> Command]
        /\ pc' \in [Cli -> PC] /\ TargetsAreThere'
    BY <1>5, OffType DEF RestartFaults, local, TypeInv, TypeOK, TargetsAreThere
  <2>. QED BY <1>5, <2>1, <2>2 DEF RestartFaults, TypeInv, TypeOK, disk, lockf
<1>. QED BY <1>1, <1>2, <1>3, <1>4, <1>5 DEF Disturbance

LEMMA TypeStep == TypeInv /\ [Next]_vars => TypeInv'
<1> SUFFICES ASSUME TypeInv, [Next]_vars PROVE TypeInv'
  OBVIOUS
<1>1. ASSUME NEW p \in Pid, Die(p) PROVE TypeInv'
  <2>1. happened' \subseteq Happenings /\ budget' \in [commands : Nat, faults : Nat]
    BY <1>1, FaultType, NotesType DEF Die, TypeInv
  <2>2. proc' \in [Pid -> Repo \union {Nothing}]
    BY <1>1 DEF Die, TypeInv, TypeOK
  <2>. QED
    BY <1>1, <2>1, <2>2 DEF Die, TypeInv, TypeOK, TargetsAreThere, disk, lockf, local
<1>2. CASE UNCHANGED vars
  BY <1>2 DEF vars, disk, lockf, local, TypeInv, TypeOK, TargetsAreThere
<1>. QED
  BY <1>1, <1>2, TypeBegin, TypeCommand, TypeSave, TypeDisturbance DEF Next

\* Every file holds whole cells and every table whole entries, whatever
\* overlaps, is killed or interrupted (create_service.c:111, load_project.c:46).
THEOREM TypeCorrect == Spec => []TypeOK
<1>1. TypeInv => TypeOK
  BY DEF TypeInv
<1>. QED BY TypeInit, TypeStep, <1>1, PTL DEF Spec

-----------------------------------------------------------------------------
\* The projects file and its one user.

\* An invocation holds its table exactly as loaded until it changes it, every
\* entry of it has a folder of its own, and a save of it keeps what was there.
Calm == Undisturbed({"overlap", "killed", "signal"})

Fresh == {"ready", "removing", "checked", "forked", "mark", "marking", "pull"}

Apart(t) ==
  \A i, j \in DOMAIN t :
    i # j => t[i].rec.name # t[j].rec.name /\ t[i].rec.repo # t[j].rec.repo

HasFolder(c, e) ==
  e.cloned /\ ~(pc[c] = "removing" /\ e.rec.repo = target[c]) => e.rec.name \in folder

WorkOk(c) ==
  /\ pc[c] \in Fresh => table[c] = Loaded(file)
  /\ Apart(table[c])
  /\ \A i \in DOMAIN table[c] :
       /\ HasFolder(c, table[c][i])
       /\ ~table[c][i].cloned => table[c][i].rec.pid = NoPid /\ pc[c] \in {"save", "copy"}
  /\ pc[c] # "copy" => Whole(file)
  /\ pc[c] # "copy" /\ table[c] # <<>> /\ file # <<>> => table[c][1].cloned
  /\ pc[c] = "copy" /\ table[c] # <<>> => Len(file) = Len(Saved(table[c]))

NobodyWorks == Whole(file) /\ \A i \in DOMAIN file : file[i].name \in folder

FileInv ==
  Calm => /\ \A c, d \in AtWork : c = d
          /\ Distinct(Visible(file))
          /\ AtWork = {} => NobodyWorks
          /\ \A c \in AtWork : WorkOk(c)

\* What has happened stays happened.
LEMMA History == [Next]_vars => happened \subseteq happened'
<1> SUFFICES ASSUME [Next]_vars PROVE happened \subseteq happened'
  OBVIOUS
<1>1. ASSUME NEW c \in Cli, Begin(c) \/ CommandStep(c) \/ SaveStep(c) \/ Disturbance(c)
      PROVE  happened' = happened \/ \E w : happened' = happened \union w
  <2>1. CASE Begin(c)
    BY <2>1 DEF Begin, Note
  <2>2. CASE List(c) \/ Add(c) \/ RemoveFolder(c) \/ Rename(c) \/ Fork(c) \/ Update(c)
             \/ Neglect(c) \/ StatusCut(c) \/ Pulled(c) \/ StorePid(c)
    BY <2>2 DEF List, Add, RemoveFolder, Rename, Fork, Update, Neglect, StatusCut,
                Pulled, StorePid
  <2>3. CASE RemoveRecord(c) \/ Stop(c) \/ Run(c) \/ Restart(c)
    BY <2>3 DEF RemoveRecord, Stop, Run, Restart, Note
  <2>4. CASE ForkNoFolder(c) \/ Regroup(c) \/ StatusPut(c) \/ PullFails(c)
    BY <2>4 DEF ForkNoFolder, Regroup, StatusPut, PullFails, Note
  <2>5. CASE SaveStep(c)
    BY <2>5 DEF SaveStep, SaveNothing, SaveTruncate, SaveCopy
  <2>6. CASE Disturbance(c)
    BY <2>6 DEF Disturbance, SaveInterrupt, Detach, StatusInterrupt, Kill,
                RestartFaults, Note
  <2>. QED BY <1>1, <2>1, <2>2, <2>3, <2>4, <2>5, <2>6 DEF CommandStep
<1>2. ASSUME NEW p \in Pid, Die(p) PROVE happened \subseteq happened'
  BY <1>2 DEF Die, Note
<1>. QED BY <1>1, <1>2 DEF Next, vars

\* Where one invocation works, its step says who works after it.
LEMMA OneWorks ==
  ASSUME TypeOK, NEW c \in Cli, AtWork \subseteq {c}, NEW l \in PC, pc' = [pc EXCEPT ![c] = l]
  PROVE  pc'[c] = l /\ AtWork' = IF l = "off" THEN {} ELSE {c}
<1>1. \A d \in Cli : pc'[d] = IF d = c THEN l ELSE pc[d]
  BY DEF TypeOK
<1>. QED BY <1>1 DEF AtWork

\* A step that leaves the files, and the services of the table but for their pids.
LEMMA SameServices ==
  ASSUME TypeOK, FileInv, Calm, NEW c \in Cli, NEW l \in PC, pc' = [pc EXCEPT ![c] = l],
         pc[c] \notin {"off", "removing", "save", "copy"}, l \notin {"off", "removing", "copy"},
         l \in Fresh => pc[c] \in Fresh /\ table'[c] = table[c],
         UNCHANGED <<file, folder>>, DOMAIN table'[c] = DOMAIN table[c],
         table[c] = <<>> => table'[c] = <<>>,
         \A i \in DOMAIN table[c] : /\ table'[c][i].cloned = table[c][i].cloned
                                    /\ table'[c][i].rec.name = table[c][i].rec.name
                                    /\ table'[c][i].rec.repo = table[c][i].rec.repo
  PROVE  FileInv'
<1>1. c \in AtWork /\ AtWork \subseteq {c} /\ WorkOk(c) /\ Distinct(Visible(file))
  BY DEF FileInv, AtWork
<1>2. pc'[c] = l /\ AtWork' = {c}
  BY <1>1, OneWorks
<1>3. l \in Fresh => table'[c] = Loaded(file)
  BY <1>1 DEF WorkOk
<1>4. Apart(table'[c])
  BY <1>1 DEF WorkOk, Apart
<1>5. \A i \in DOMAIN table'[c] : HasFolder(c, table[c][i]) /\ table[c][i].cloned
  BY <1>1 DEF WorkOk
<1>6. \A i \in DOMAIN table'[c] : HasFolder(c, table[c][i])' /\ table'[c][i].cloned
  BY <1>2, <1>5 DEF HasFolder
<1>7. Whole(file) /\ (table'[c] # <<>> /\ file # <<>> => table'[c][1].cloned)
  <2>1. Whole(file) /\ (table[c] # <<>> => 1 \in DOMAIN table[c])
    BY <1>1 DEF WorkOk, TypeOK
  <2>. QED BY <2>1, <1>6
<1>8. WorkOk(c)'
  BY <1>2, <1>3, <1>4, <1>6, <1>7 DEF WorkOk
<1>. QED BY <1>1, <1>2, <1>8 DEF FileInv

LEMMA FileInit == Init => FileInv
<1> SUFFICES ASSUME Init PROVE NobodyWorks /\ Distinct(Visible(file)) /\ AtWork = {}
  BY DEF FileInv
<1>1. file \in Seq(Record) /\ Distinct(file) /\ folder = {file[i].name : i \in DOMAIN file}
  BY ServicesAssumption DEF Init
<1>2. Whole(file) /\ file \in Seq(Cell)
  <2>1. \A i \in DOMAIN file : file[i] \in Record
    BY <1>1
  <2>. QED BY <1>1, <2>1, RecordsAreCells DEF Whole
<1>3. Visible(file) = file
  BY <1>2, WholeVisible
<1>. QED BY <1>1, <1>2, <1>3 DEF Init, AtWork, NobodyWorks

\* The steps that may change files or services.
LEMMA FileBegin ==
  ASSUME TypeInv, FileInv, Calm, Calm', NEW c \in Cli, Begin(c)
  PROVE  FileInv'
<1>1. /\ AtWork = {} /\ pc' = [pc EXCEPT ![c] = "ready"] /\ "ready" \in PC
      /\ UNCHANGED <<file, folder>> /\ table' = [table EXCEPT ![c] = Loaded(file)]
  BY DEF Begin, Goto, Calm, Undisturbed, Note, PC
<1>2. pc'[c] = "ready" /\ AtWork' = {c}
  BY <1>1, OneWorks DEF TypeInv
<1>3. NobodyWorks /\ Distinct(Visible(file)) /\ file \in Seq(Cell)
  BY <1>1 DEF FileInv, TypeInv, TypeOK
<1>4. Visible(file) = file /\ Distinct(file)
  BY <1>3, WholeVisible DEF NobodyWorks
<1>5. /\ DOMAIN Loaded(file) = DOMAIN file
      /\ \A i \in DOMAIN file : Loaded(file)[i].rec = file[i] /\ Loaded(file)[i].cloned = TRUE
  BY <1>3, <1>4, LoadedFacts
<1>6. table'[c] = Loaded(file)
  BY <1>1 DEF TypeInv, TypeOK
<1>7. Apart(table'[c])
  BY <1>4, <1>5, <1>6 DEF Apart, Distinct
<1>8. \A i \in DOMAIN table'[c] : HasFolder(c, table[c][i])' /\ table'[c][i].cloned
  BY <1>1, <1>3, <1>5, <1>6 DEF HasFolder, NobodyWorks
<1>9. file # <<>> => 1 \in DOMAIN file
  BY <1>3
<1>10. WorkOk(c)'
  BY <1>1, <1>2, <1>3, <1>5, <1>6, <1>7, <1>8, <1>9 DEF WorkOk, NobodyWorks
<1>. QED BY <1>1, <1>2, <1>3, <1>10 DEF FileInv

LEMMA FileAdd ==
  ASSUME TypeInv, FileInv, Calm, NEW c \in Cli, Add(c)
  PROVE  FileInv'
<1>1. /\ c \in AtWork /\ AtWork \subseteq {c} /\ WorkOk(c) /\ Distinct(Visible(file))
      /\ pc[c] = "ready" /\ pc' = [pc EXCEPT ![c] = "save"] /\ "save" \in PC
      /\ TypeOK /\ UNCHANGED file
  BY DEF FileInv, AtWork, Add, Goto, PC, TypeInv
<1>2. pc'[c] = "save" /\ AtWork' = {c}
  BY <1>1, OneWorks
<1>3. CASE UNCHANGED <<folder, table>>
  BY <1>1, <1>3, SameServices DEF Fresh
<1>4. CASE ~UNCHANGED <<folder, table>>
  <2>1. PICK n \in Name, r \in Repo, ok \in BOOLEAN :
          /\ ~Conflicts(table[c], n, r)
          /\ IF ok THEN n \notin folder /\ folder' = folder \union {n} ELSE folder' = folder
          /\ table' = [table EXCEPT ![c] = Append(table[c],
               [rec |-> [name |-> n, repo |-> r, pid |-> NoPid], cloned |-> ok])]
    BY <1>4 DEF Add
  <2> DEFINE e == [rec |-> [name |-> n, repo |-> r, pid |-> NoPid], cloned |-> ok]
             k == Len(table[c]) + 1
  <2>2. /\ table[c] \in Seq(Entry) /\ Len(table[c]) \in Nat /\ e \in Entry
    <3>1. table[c] \in Seq(Entry) /\ Len(table[c]) \in Nat
      BY <1>1 DEF TypeOK
    <3>2. [name |-> n, repo |-> r, pid |-> NoPid] \in Record
      BY DEF Record
    <3>. QED BY <3>1, <3>2 DEF Entry
  <2>3. /\ DOMAIN table[c] = 1..Len(table[c]) /\ DOMAIN table'[c] = 1..k
        /\ \A i \in DOMAIN table[c] : table'[c][i] = table[c][i]
        /\ table'[c][k] = e /\ DOMAIN table'[c] = DOMAIN table[c] \union {k}
        /\ k \notin DOMAIN table[c]
    <3>1. table'[c] = Append(table[c], e)
      BY <1>1, <2>1 DEF TypeOK
    <3> HIDE DEF e
    <3>. QED BY <2>2, <3>1
  <2> HIDE DEF k
  <2>4. \A i \in DOMAIN table[c] : table[c][i].rec.repo # r /\ table[c][i].rec.name # n
    BY <2>1 DEF Conflicts
  <2>5. Apart(table'[c])
    <3>1. table'[c][k].rec.name = n /\ table'[c][k].rec.repo = r
      BY <2>3
    <3>2. \A i, j \in DOMAIN table[c] :
            i # j => /\ table'[c][i].rec.name # table'[c][j].rec.name
                     /\ table'[c][i].rec.repo # table'[c][j].rec.repo
      BY <1>1, <2>3 DEF WorkOk, Apart
    <3>3. \A i \in DOMAIN table[c] :
            table'[c][i].rec.repo # r /\ table'[c][i].rec.name # n
      BY <2>3, <2>4
    <3>. QED BY <2>3, <3>1, <3>2, <3>3 DEF Apart
  <2>6. \A i \in DOMAIN table[c] : table[c][i].cloned /\ table[c][i].rec.name \in folder
    BY <1>1 DEF WorkOk, HasFolder
  <2>7. \A i \in DOMAIN table'[c] :
          /\ HasFolder(c, table[c][i])'
          /\ ~table'[c][i].cloned => table'[c][i].rec.pid = NoPid
    BY <2>1, <2>3, <2>6 DEF HasFolder
  <2>8. Whole(file) /\ (table'[c] # <<>> /\ file # <<>> => table'[c][1].cloned)
    <3>1. Whole(file) /\ table[c] = Loaded(file) /\ file \in Seq(Cell)
      BY <1>1 DEF WorkOk, Fresh, TypeOK
    <3>2. DOMAIN table[c] = DOMAIN file
      BY <3>1, LoadedFacts, WholeVisible
    <3>3. file # <<>> => 1 \in DOMAIN table[c]
      BY <3>1, <3>2
    <3>. QED BY <2>3, <2>6, <3>1, <3>3
  <2>9. WorkOk(c)'
    BY <1>1, <1>2, <2>5, <2>7, <2>8 DEF WorkOk, Fresh
  <2>. QED BY <1>1, <1>2, <2>9 DEF FileInv
<1>. QED BY <1>3, <1>4

LEMMA FileRemove ==
  ASSUME TypeInv, TypeInv', FileInv, Calm, NEW c \in Cli, RemoveFolder(c) \/ RemoveRecord(c)
  PROVE  FileInv'
<1>1. /\ c \in AtWork /\ AtWork \subseteq {c} /\ WorkOk(c) /\ Distinct(Visible(file))
      /\ TypeOK /\ UNCHANGED file /\ table[c] \in Seq(Entry) /\ file \in Seq(Cell)
  BY DEF FileInv, AtWork, RemoveFolder, RemoveRecord, TypeInv, TypeOK, disk
<1>2. CASE RemoveFolder(c)
  <2>1. PICK r \in Repo : /\ Has(table[c], r) /\ target' = [target EXCEPT ![c] = r]
                          /\ folder' = folder \ {NameOf(c, r)}
    BY <1>2 DEF RemoveFolder
  <2>2. /\ pc[c] = "ready" /\ pc' = [pc EXCEPT ![c] = "removing"] /\ "removing" \in PC
        /\ table' = table
    BY <1>2 DEF RemoveFolder, Goto, PC
  <2>3. pc'[c] = "removing" /\ AtWork' = {c} /\ target'[c] = r
    BY <1>1, <2>1, <2>2, OneWorks DEF TypeOK
  <2>4. ASSUME NEW i \in DOMAIN table[c] PROVE HasFolder(c, table[c][i])'
    <3> DEFINE k == Find(table[c], r)
    <3>1. k \in DOMAIN table[c] /\ NameOf(c, r) = table[c][k].rec.name /\ table[c][k].rec.repo = r
      BY <1>1, <2>1, EntryOf
    <3> HIDE DEF k
    <3>2. i # k => table[c][i].rec.name # table[c][k].rec.name
      BY <1>1, <3>1 DEF WorkOk, Apart
    <3>3. HasFolder(c, table[c][i])
      BY <1>1 DEF WorkOk
    <3>. QED BY <2>1, <2>2, <2>3, <3>1, <3>2, <3>3 DEF HasFolder
  <2>5. WorkOk(c)'
    BY <1>1, <2>2, <2>3, <2>4 DEF WorkOk, Fresh
  <2>. QED BY <1>1, <2>3, <2>5 DEF FileInv
<1>3. CASE RemoveRecord(c)
  <2> DEFINE k == Find(table[c], target[c])
             n == Len(table[c])
  <2>1. /\ pc[c] = "removing" /\ pc' = [pc EXCEPT ![c] = "save"] /\ "save" \in PC
        /\ table' = [table EXCEPT ![c] = Without(table[c], k)] /\ UNCHANGED folder
    BY <1>3 DEF RemoveRecord, Goto, PC, disk
  <2>2. pc'[c] = "save" /\ AtWork' = {c} /\ table'[c] = Without(table[c], k)
    BY <1>1, <2>1, OneWorks DEF TypeOK
  <2>3. k \in DOMAIN table[c] /\ table[c][k].rec.repo = target[c]
    BY <2>1, FindFacts DEF TypeInv, TargetsAreThere, Chosen
  <2>4. n \in Nat /\ DOMAIN table[c] = 1..n
    BY <1>1
  <2> HIDE DEF k, n
  <2>5. /\ DOMAIN table'[c] = 1..(n - 1)
        /\ \A i \in 1..(n - 1) : table'[c][i] = IF i < k THEN table[c][i] ELSE table[c][i + 1]
    BY <1>1, <2>2, <2>3, WithoutFacts DEF n
  <2> DEFINE old(i) == IF i < k THEN i ELSE i + 1
  <2>6. \A i \in DOMAIN table'[c] : /\ old(i) \in DOMAIN table[c] /\ old(i) # k
                                    /\ table'[c][i] = table[c][old(i)]
    BY <2>3, <2>4, <2>5
  <2>7. \A i, j \in DOMAIN table'[c] : i # j => old(i) # old(j)
    BY <2>3, <2>4, <2>5
  <2> HIDE DEF old
  <2>8. Apart(table'[c])
    BY <1>1, <2>6, <2>7 DEF WorkOk, Apart
  <2>9. \A i \in DOMAIN table'[c] : HasFolder(c, table[c][i])' /\ table'[c][i].cloned
    <3> TAKE i \in DOMAIN table'[c]
    <3>1. /\ HasFolder(c, table[c][old(i)]) /\ table[c][old(i)].cloned
          /\ table[c][old(i)].rec.repo # table[c][k].rec.repo
      BY <1>1, <2>1, <2>3, <2>6 DEF WorkOk, Apart
    <3>. QED BY <2>1, <2>3, <2>6, <3>1 DEF HasFolder
  <2>10. table'[c] # <<>> => 1 \in DOMAIN table'[c]
    BY DEF TypeInv, TypeOK
  <2>11. WorkOk(c)'
    BY <1>1, <2>1, <2>2, <2>8, <2>9, <2>10 DEF WorkOk, Fresh
  <2>. QED BY <1>1, <2>2, <2>11 DEF FileInv
<1>. QED BY <1>2, <1>3

\* rename(2) refuses a folder that is there, and every other service has its own.
LEMMA FileRename ==
  ASSUME TypeInv, FileInv, Calm, NEW c \in Cli, Rename(c)
  PROVE  FileInv'
<1>1. /\ c \in AtWork /\ AtWork \subseteq {c} /\ WorkOk(c) /\ Distinct(Visible(file))
      /\ TypeOK /\ UNCHANGED file /\ table[c] \in Seq(Entry) /\ file \in Seq(Cell)
      /\ pc[c] = "ready" /\ pc' = [pc EXCEPT ![c] = "save"] /\ "save" \in PC
  BY DEF FileInv, AtWork, Rename, TypeInv, TypeOK, Goto, PC
<1>2. CASE UNCHANGED <<folder, table>>
  BY <1>1, <1>2, SameServices DEF Fresh
<1>3. CASE ~UNCHANGED <<folder, table>>
  <2>1. PICK r \in Repo, new \in Name :
          /\ Has(table[c], r) /\ CanMove(NameOf(c, r), new)
          /\ folder' = (folder \ {NameOf(c, r)}) \union {new}
          /\ table' = [table EXCEPT ![c][Find(table[c], r)].rec.name = new]
    BY <1>3 DEF Rename, NameOf
  <2> DEFINE k == Find(table[c], r)
  <2>2. /\ k \in DOMAIN table[c] /\ table[c][k] \in Entry
        /\ NameOf(c, r) = table[c][k].rec.name
    BY <1>1, <2>1, EntryOf
  <2> HIDE DEF k
  <2>3. table'[c] = [table[c] EXCEPT ![k].rec.name = new]
    BY <1>1, <2>1 DEF k, TypeOK
  <2>4. /\ DOMAIN table'[c] = DOMAIN table[c]
        /\ \A i \in DOMAIN table[c] \ {k} : table'[c][i] = table[c][i]
        /\ table'[c][k].rec.name = new /\ table'[c][k].rec.repo = table[c][k].rec.repo
        /\ table'[c][k].cloned = table[c][k].cloned
    BY <1>1, <2>2, <2>3 DEF Entry, Record
  <2>5. \A i \in DOMAIN table[c] : table[c][i].cloned /\ table[c][i].rec.name \in folder
    BY <1>1 DEF WorkOk, HasFolder
  <2>6. \A i \in DOMAIN table[c] \ {k} :
          /\ table[c][i].rec.name # NameOf(c, r) /\ table[c][i].rec.name # new
          /\ table[c][i].rec.repo # table[c][k].rec.repo
    BY <1>1, <2>1, <2>2, <2>5 DEF CanMove, WorkOk, Apart
  <2>7. Apart(table'[c])
    <3>1. Apart(table[c])
      BY <1>1 DEF WorkOk
    <3>. QED BY <2>2, <2>4, <2>6, <3>1 DEF Apart
  <2>8. pc'[c] = "save" /\ AtWork' = {c}
    BY <1>1, OneWorks
  <2>9. \A i \in DOMAIN table'[c] : table'[c][i].cloned /\ table'[c][i].rec.name \in folder'
    BY <2>1, <2>2, <2>4, <2>5, <2>6
  <2>10. table'[c] # <<>> => 1 \in DOMAIN table'[c]
    <3>1. table[c] # <<>> => 1 \in DOMAIN table[c]
      BY <1>1
    <3>2. table'[c] # <<>> => table[c] # <<>>
      BY <2>3, <2>2
    <3>. QED BY <2>4, <3>1, <3>2
  <2>11. WorkOk(c)'
    BY <1>1, <2>7, <2>8, <2>9, <2>10 DEF WorkOk, Fresh, HasFolder
  <2>. QED BY <1>1, <2>8, <2>11 DEF FileInv
<1>. QED BY <1>2, <1>3

\* An update that fails ends without a save: the file is the one it loaded.
LEMMA FilePullFails ==
  ASSUME TypeInv, FileInv, Calm, NEW c \in Cli, PullFails(c)
  PROVE  FileInv'
<1>1. /\ c \in AtWork /\ AtWork \subseteq {c} /\ WorkOk(c) /\ Distinct(Visible(file))
      /\ TypeOK /\ UNCHANGED <<file, folder>> /\ file \in Seq(Cell)
      /\ pc[c] = "pull" /\ pc' = [pc EXCEPT ![c] = "off"] /\ "off" \in PC
  BY DEF FileInv, AtWork, PullFails, Off, TypeInv, TypeOK, Goto, PC, disk
<1>2. AtWork' = {}
  BY <1>1, OneWorks
<1>3. Whole(file) /\ table[c] = Loaded(file)
  BY <1>1 DEF WorkOk, Fresh
<1>4. /\ DOMAIN table[c] = DOMAIN file
      /\ \A i \in DOMAIN file : table[c][i].rec = file[i] /\ table[c][i].cloned = TRUE
  <2>1. Visible(file) = file
    BY <1>1, <1>3, WholeVisible
  <2>2. /\ DOMAIN Loaded(file) = DOMAIN Visible(file)
        /\ \A i \in DOMAIN Visible(file) :
             Loaded(file)[i].rec = file[i] /\ Loaded(file)[i].cloned = TRUE
    BY <1>1, LoadedFacts
  <2>. QED BY <1>3, <2>1, <2>2
<1>5. \A i \in DOMAIN file : file[i].name \in folder
  BY <1>1, <1>4 DEF WorkOk, HasFolder
<1>. QED BY <1>1, <1>2, <1>3, <1>5 DEF FileInv, NobodyWorks

\* Whatever way a save ends, the file is then what the table says.
LEMMA SaveWrites ==
  ASSUME TypeInv, FileInv, Calm, NEW c \in Cli, SaveNothing(c) \/ SaveCopy(c)
  PROVE  AtWork' = {} /\ UNCHANGED <<folder, proc>> /\ file' = Saved(table[c])
<1>1. /\ c \in AtWork /\ AtWork \subseteq {c} /\ WorkOk(c) /\ TypeOK
      /\ file \in Seq(Cell) /\ table[c] \in Seq(Entry)
  BY DEF FileInv, AtWork, SaveNothing, SaveCopy, TypeInv, TypeOK
<1>2. AtWork' = {} /\ UNCHANGED <<folder, proc>>
  BY <1>1, OneWorks DEF SaveNothing, SaveCopy, Off, Goto, PC, disk
<1> DEFINE s == Saved(table[c])
<1>3. /\ s \in Seq(Record) /\ Len(s) \in Nat
      /\ \A i \in DOMAIN table[c] : table[c][i].cloned => DOMAIN s # {}
      /\ \E at \in [DOMAIN s -> DOMAIN table[c]] : TRUE
  <2>1. PICK t \in Seq(Entry) : t = table[c]
    BY <1>1
  <2>2. Saved(t) \in Seq(Record) /\ \E at \in [DOMAIN Saved(t) -> DOMAIN t] : TRUE
    BY SavedFacts
  <2>3. \A i \in DOMAIN t : t[i].cloned => \E k \in DOMAIN Saved(t) : Saved(t)[k] = t[i].rec
    BY SavedFacts
  <2>4. \A i \in DOMAIN t : t[i].cloned => DOMAIN Saved(t) # {}
    BY <2>3
  <2>5. Len(Saved(t)) \in Nat
    BY <2>2
  <2>. QED BY <2>1, <2>2, <2>4, <2>5
<1> HIDE DEF s
<1>4. table[c] = <<>> => s = <<>>
  <2>1. PICK at \in [DOMAIN s -> DOMAIN table[c]] : TRUE
    BY <1>3
  <2>2. DOMAIN table[c] = {} => DOMAIN s = {}
    <3>1. \A k \in DOMAIN s : at[k] \in DOMAIN table[c]
      BY <2>1
    <3>. QED BY <3>1
  <2>3. table[c] = <<>> => DOMAIN table[c] = {}
    OBVIOUS
  <2>. QED BY <1>3, <2>2, <2>3
<1>5. CASE SaveNothing(c)
  <2>1. UNCHANGED file
    BY <1>5 DEF SaveNothing, disk
  <2>2. ASSUME table[c] # <<>>, s = <<>> PROVE file' = s
    <3>1. 1 \in DOMAIN table[c] /\ ~table[c][1].cloned
      BY <1>1, <1>3, <2>2
    <3>. QED BY <1>1, <1>5, <2>1, <2>2, <3>1 DEF WorkOk, SaveNothing
  <2>3. table[c] = <<>> /\ file = <<>> => file' = s
    BY <1>4, <2>1
  <2>4. file' = s
    BY <1>5, <2>2, <2>3 DEF SaveNothing, NothingToSave, s
  <2>. QED BY <1>2, <2>4 DEF s
<1>6. CASE SaveCopy(c)
  <2>1. pc[c] = "copy" /\ file' = IF table[c] = <<>> THEN <<>> ELSE Overlay(file, s)
    BY <1>6 DEF SaveCopy, s
  <2>2. ASSUME table[c] # <<>> PROVE file' = s
    <3>1. Len(file) = Len(s)
      BY <1>1, <2>1, <2>2 DEF WorkOk, s
    <3>. QED BY <1>1, <1>3, <2>1, <2>2, <3>1 DEF Overlay
  <2>3. file' = s
    BY <1>4, <2>1, <2>2
  <2>. QED BY <1>2, <2>3 DEF s
<1>. QED BY <1>5, <1>6

LEMMA FileSave ==
  ASSUME TypeInv, TypeInv', FileInv, Calm, NEW c \in Cli, SaveStep(c)
  PROVE  FileInv'
<1>1. /\ c \in AtWork /\ AtWork \subseteq {c} /\ WorkOk(c) /\ Distinct(Visible(file))
      /\ TypeOK /\ file \in Seq(Cell) /\ table[c] \in Seq(Entry) /\ UNCHANGED folder
      /\ pc[c] \in {"save", "copy"}
  BY DEF FileInv, AtWork, SaveStep, SaveNothing, SaveTruncate, SaveCopy, TypeInv, TypeOK, disk
<1> DEFINE s == Saved(table[c])
<1>2. s \in Seq(Record) /\ s \in Seq(Cell) /\ Len(s) \in Nat
  BY <1>1, SavedFacts, RecordsAreCells
<1>3. PICK at \in [DOMAIN s -> DOMAIN table[c]] :
        /\ \A k \in DOMAIN s : table[c][at[k]].cloned /\ s[k] = table[c][at[k]].rec
        /\ \A k, l \in DOMAIN s : k # l => at[k] # at[l]
  BY <1>1, SavedFacts
<1> HIDE DEF s
<1>4. CASE SaveNothing(c) \/ SaveCopy(c)
  <2>1. AtWork' = {} /\ file' = s
    BY <1>4, SaveWrites DEF s
  <2>2. Whole(s)
    <3>1. \A k \in DOMAIN s : s[k] \in Record
      BY <1>2
    <3>. QED BY <3>1, RecordsAreCells DEF Whole
  <2>3. Visible(s) = s
    BY <1>2, <2>2, WholeVisible
  <2>4. Distinct(s)
    BY <1>1, <1>3 DEF WorkOk, Apart, Distinct
  <2>5. \A k \in DOMAIN s : s[k].name \in folder
    BY <1>1, <1>3 DEF WorkOk, HasFolder
  <2>. QED BY <1>1, <2>1, <2>2, <2>3, <2>4, <2>5 DEF FileInv, NobodyWorks
<1>5. CASE SaveTruncate(c)
  <2>1. /\ pc' = [pc EXCEPT ![c] = "copy"] /\ "copy" \in PC /\ UNCHANGED <<table, target>>
        /\ file' = IF table[c] = <<>> THEN file ELSE Resize(file, Len(s))
        /\ pc[c] = "save"
    BY <1>5 DEF SaveTruncate, Goto, PC, s
  <2>2. pc'[c] = "copy" /\ AtWork' = {c}
    BY <1>1, <2>1, OneWorks
  <2>3. Visible(file) = file /\ Distinct(file) /\ file' \in Seq(Cell)
    BY <1>1, <1>2, <2>1, WholeVisible, FileTypes DEF WorkOk
  <2>4. Distinct(Visible(file'))
    <3>1. /\ \A i \in DOMAIN Visible(file') : i \in DOMAIN file' /\ Visible(file')[i] = file'[i]
          /\ Visible(file') \in Seq(Record)
      BY <2>3, VisibleFacts
    <3>2. \A i \in DOMAIN Visible(file') : Visible(file')[i] \in Record
      BY <3>1
    <3>3. \A i \in DOMAIN file' : file'[i] # Zero => i \in DOMAIN file /\ file'[i] = file[i]
      BY <1>1, <1>2, <2>1 DEF Resize
    <3>4. \A i \in DOMAIN Visible(file') : i \in DOMAIN file /\ Visible(file')[i] = file[i]
      BY <3>1, <3>2, <3>3, RecordsAreCells
    <3>. QED BY <2>3, <3>4 DEF Distinct
  <2>5. table[c] # <<>> => Len(file') = Len(s)
    BY <1>2, <2>1 DEF Resize
  <2>6. WorkOk(c)'
    BY <1>1, <2>1, <2>2, <2>5 DEF WorkOk, HasFolder, Fresh, s
  <2>. QED BY <2>2, <2>4, <2>6 DEF FileInv
<1>. QED BY <1>4, <1>5 DEF SaveStep

LEMMA FileCommand ==
  ASSUME TypeInv, TypeInv', FileInv, Calm, Calm', NEW c \in Cli, CommandStep(c)
  PROVE  FileInv'
<1>0. TypeOK
  BY DEF TypeInv
<1>1. CASE Add(c)
  BY <1>1, FileAdd
<1>2. CASE RemoveFolder(c) \/ RemoveRecord(c)
  BY <1>2, FileRemove
<1>3. CASE Rename(c)
  BY <1>3, FileRename
<1>4. CASE PullFails(c)
  BY <1>4, FilePullFails
<1>5. CASE ForkNoFolder(c)
  BY <1>5 DEF ForkNoFolder, Note, Calm, Undisturbed
<1>6. CASE List(c) \/ Run(c) \/ Restart(c) \/ Fork(c) \/ Regroup(c) \/ Update(c) \/ Neglect(c)
           \/ StatusCut(c) \/ StatusPut(c) \/ Pulled(c)
  <2>1. UNCHANGED <<file, folder, table>>
    BY <1>6 DEF List, Run, Restart, Fork, Regroup, Update, Neglect, StatusCut, StatusPut,
                Pulled, disk
  <2>2. \E l \in {"save", "checked", "forked", "mark", "marking", "pull", "unmark", "unmarking"} :
          /\ pc' = [pc EXCEPT ![c] = l]
          /\ l \in Fresh => pc[c] \in Fresh
          /\ pc[c] \notin {"off", "removing", "save", "copy"}
    <3>1. CASE List(c) \/ Run(c) \/ Restart(c)
      BY <3>1 DEF List, Run, Restart, Goto, Fresh
    <3>2. CASE Fork(c) \/ Regroup(c) \/ Update(c) \/ Neglect(c)
      BY <3>2 DEF Fork, Regroup, Update, Neglect, Goto, Fresh
    <3>3. CASE StatusCut(c) \/ StatusPut(c) \/ Pulled(c)
      BY <3>3 DEF StatusCut, StatusPut, Pulled, Goto, Fresh
    <3>. QED BY <1>6, <3>1, <3>2, <3>3
  <2>3. PICK l : /\ l \in PC \ {"off", "removing", "copy"}
                 /\ pc' = [pc EXCEPT ![c] = l]
                 /\ l \in Fresh => pc[c] \in Fresh
                 /\ pc[c] \notin {"off", "removing", "save", "copy"}
    BY <2>2 DEF PC
  <2>4. table'[c] = table[c]
    BY <2>1
  <2>. QED BY <1>0, <2>1, <2>3, <2>4, SameServices
<1>7. CASE Stop(c)
  <2>1. PICK r \in Repo : Has(table[c], r) /\ (SetPid(c, r, NoPid) \/ UNCHANGED table)
    BY <1>7 DEF Stop
  <2>2. /\ pc' = [pc EXCEPT ![c] = "save"] /\ pc[c] = "ready" /\ "save" \in PC
        /\ UNCHANGED <<file, folder>>
    BY <1>7 DEF Stop, Goto, PC, disk
  <2>3. CASE UNCHANGED table
    BY <1>0, <2>2, <2>3, SameServices DEF Fresh
  <2>4. CASE SetPid(c, r, NoPid)
    <3>1. /\ DOMAIN table'[c] = DOMAIN table[c]
          /\ \A i \in DOMAIN table[c] : /\ table'[c][i].cloned = table[c][i].cloned
                                        /\ table'[c][i].rec.name = table[c][i].rec.name
                                        /\ table'[c][i].rec.repo = table[c][i].rec.repo
      BY <1>0, <2>1, <2>4, SetPidFacts
    <3>2. table[c] # <<>>
      BY <2>1 DEF Has
    <3>. QED BY <1>0, <2>2, <3>1, <3>2, SameServices DEF Fresh
  <2>. QED BY <2>1, <2>3, <2>4
<1>8. CASE StorePid(c)
  <2>1. /\ SetPid(c, target[c], child[c]) /\ child[c] \in Pid \union {NoPid}
        /\ target[c] \in Repo /\ Has(table[c], target[c])
    BY <1>0, <1>8 DEF StorePid, TypeOK, TypeInv, TargetsAreThere, Chosen
  <2>2. /\ pc[c] \in {"forked", "joining"} /\ UNCHANGED <<file, folder>>
        /\ \E l \in {"regroup", "attached", "save"} : pc' = [pc EXCEPT ![c] = l]
    BY <1>8 DEF StorePid, Goto, disk
  <2>3. /\ DOMAIN table'[c] = DOMAIN table[c]
        /\ \A i \in DOMAIN table[c] : /\ table'[c][i].cloned = table[c][i].cloned
                                      /\ table'[c][i].rec.name = table[c][i].rec.name
                                      /\ table'[c][i].rec.repo = table[c][i].rec.repo
    BY <1>0, <2>1, SetPidFacts
  <2>4. table[c] # <<>>
    BY <2>1 DEF Has
  <2>. QED BY <1>0, <2>2, <2>3, <2>4, SameServices DEF Fresh, PC
<1>. QED
  BY <1>1, <1>2, <1>3, <1>4, <1>5, <1>6, <1>7, <1>8 DEF CommandStep

LEMMA FileDisturbance ==
  ASSUME TypeInv, TypeInv', FileInv, Calm, Calm', NEW c \in Cli, Disturbance(c)
  PROVE  FileInv'
<1>0. TypeOK
  BY DEF TypeInv
<1>1. CASE SaveInterrupt(c) \/ StatusInterrupt(c) \/ Kill(c)
  BY <1>1 DEF SaveInterrupt, StatusInterrupt, Kill, Note, Calm, Undisturbed
<1>2. CASE RestartFaults(c)
  <2>1. UNCHANGED <<local, disk>>
    BY <1>2 DEF RestartFaults, Note, Calm, Undisturbed
  <2>. QED
    BY <2>1 DEF FileInv, local, disk, AtWork, NobodyWorks, WorkOk, HasFolder, Calm
<1>3. CASE Detach(c)
  <2>1. UNCHANGED <<file, folder, target>> /\ pc[c] \in {"forked", "attached"}
    BY <1>3 DEF Detach, disk
  <2>2. CASE UNCHANGED <<pc, table>>
    BY <2>1, <2>2 DEF FileInv, AtWork, NobodyWorks, WorkOk, HasFolder
  <2>3. CASE pc' = [pc EXCEPT ![c] = "joining"] /\ UNCHANGED table
    BY <1>0, <2>1, <2>3, SameServices DEF Fresh, PC
  <2>4. CASE pc' = [pc EXCEPT ![c] = "save"] /\ SetPid(c, target[c], NoPid)
    <3>1. target[c] \in Repo /\ Has(table[c], target[c])
      BY <2>1 DEF TypeInv, TargetsAreThere, Chosen
    <3>2. /\ DOMAIN table'[c] = DOMAIN table[c]
          /\ \A i \in DOMAIN table[c] : /\ table'[c][i].cloned = table[c][i].cloned
                                        /\ table'[c][i].rec.name = table[c][i].rec.name
                                        /\ table'[c][i].rec.repo = table[c][i].rec.repo
      BY <1>0, <2>4, <3>1, SetPidFacts
    <3>3. table[c] # <<>>
      BY <3>1 DEF Has
    <3>. QED BY <1>0, <2>1, <2>4, <3>2, <3>3, SameServices DEF Fresh, PC
  <2>. QED BY <1>3, <2>2, <2>3, <2>4 DEF Detach, Goto
<1>. QED BY <1>1, <1>2, <1>3 DEF Disturbance

LEMMA FileStep == TypeInv /\ TypeInv' /\ FileInv /\ [Next]_vars => FileInv'
<1> SUFFICES ASSUME TypeInv, TypeInv', FileInv, [Next]_vars, Calm' PROVE FileInv'
  BY DEF FileInv
<1>1. Calm
  BY History DEF Calm, Undisturbed
<1>2. ASSUME NEW p \in Pid, Die(p) PROVE FileInv'
  BY <1>2 DEF Die, FileInv, local, disk, AtWork, NobodyWorks, WorkOk, HasFolder, Calm,
              Undisturbed, Note
<1>3. CASE UNCHANGED vars
  BY <1>3 DEF vars, FileInv, local, disk, AtWork, NobodyWorks, WorkOk, HasFolder, Calm, Undisturbed
<1>. QED
  BY <1>1, <1>2, <1>3, FileBegin, FileCommand, FileSave, FileDisturbance DEF Next

\* Without overlaps, kills and interrupted saves no sequence of commands leaves
\* a file with two services of one name or repository, which every later
\* invocation would refuse to load (rename_service.c:268, load_project.c:36).
THEOREM NamesAreUnique == Spec => []NamesStayUnique
<1>1. FileInv => NamesStayUnique
  BY DEF FileInv, NamesStayUnique, Calm, Loadable
<1>. QED BY TypeInit, TypeStep, FileInit, FileStep, <1>1, PTL DEF Spec

-----------------------------------------------------------------------------
\* Processes and the records that name them.

\* Between the moment a command starts a process and the moment it stores the
\* pid, the entry of the service names nothing that still runs.
Starting == {"checked", "forked", "joining"}

Named(c, p, r) ==
  \/ pc[c] \in {"forked", "joining"} /\ child[c] = p /\ target[c] = r
  \/ \E i \in DOMAIN table[c] : /\ table[c][i].rec.repo = r /\ table[c][i].rec.pid = p
                                /\ ~(pc[c] \in Starting /\ r = target[c])

InFile(p, r) == \E i \in DOMAIN file : file[i].repo = r /\ file[i].pid = p

Unlost == Undisturbed({"overlap", "killed", "signal", "double"})

LostInv ==
  Unlost =>
    /\ AtWork = {} => \A p \in Pid : proc[p] # Nothing => InFile(p, proc[p])
    /\ \A c \in AtWork : \A p \in Pid : proc[p] # Nothing => Named(c, p, proc[p])

LEMMA LostInit == Init => LostInv
<1> SUFFICES ASSUME Init, NEW p \in Pid, proc[p] # Nothing PROVE InFile(p, proc[p])
  BY DEF LostInv, Init, AtWork
<1>1. proc[p] = IF \E i \in DOMAIN file : file[i].pid = p
                THEN file[CHOOSE i \in DOMAIN file : file[i].pid = p].repo ELSE Nothing
  BY DEF Init
<1>2. \E i \in DOMAIN file : file[i].pid = p
  BY <1>1
<1>. QED BY <1>1, <1>2 DEF InFile

\* Of each service there is one entry.
LEMMA OneEntry ==
  ASSUME TypeOK, NEW c \in Cli, Apart(table[c]), NEW r \in Repo, Has(table[c], r)
  PROVE  \A i \in DOMAIN table[c] : table[c][i].rec.repo = r => table[c][i].rec.pid = PidOf(c, r)
  BY EntryOf DEF Apart

\* The process at work keeps the entries it had, and no process is new.
LEMMA StaysNamed ==
  ASSUME TypeOK, LostInv, Unlost, NEW c \in AtWork, AtWork' = {c},
         pc[c] \notin {"forked", "joining"}, pc'[c] \notin Starting,
         \A i \in DOMAIN table[c] :
            \E j \in DOMAIN table'[c] : /\ table'[c][j].rec.repo = table[c][i].rec.repo
                                        /\ table'[c][j].rec.pid = table[c][i].rec.pid,
         \A p \in Pid : proc'[p] \in {proc[p], Nothing}
  PROVE  LostInv'
<1>1. ASSUME NEW p \in Pid, proc'[p] # Nothing PROVE Named(c, p, proc[p])'
  <2>1. Named(c, p, proc[p]) /\ proc'[p] = proc[p]
    BY <1>1 DEF LostInv
  <2>. QED BY <2>1 DEF Named
<1>. QED BY <1>1 DEF LostInv

\* The one entry of the service whose process is killed is changed or dropped.
LEMMA KilledAndForgotten ==
  ASSUME TypeOK, LostInv, Unlost, NEW c \in AtWork, AtWork' = {c},
         pc[c] \notin Starting, pc'[c] \notin Starting, Apart(table[c]),
         NEW r \in Repo, Has(table[c], r), 
         PidOf(c, r) # NoPid /\ proc[PidOf(c, r)] = r => proc' = Shot(PidOf(c, r)),
         proc' \in {proc, Shot(PidOf(c, r))},
         \A i \in DOMAIN table[c] : table[c][i].rec.repo # r =>
            \E j \in DOMAIN table'[c] : /\ table'[c][j].rec.repo = table[c][i].rec.repo
                                        /\ table'[c][j].rec.pid = table[c][i].rec.pid
  PROVE  LostInv'
<1>1. ASSUME NEW p \in Pid, proc'[p] # Nothing PROVE Named(c, p, proc[p])'
  <2>1. proc'[p] = proc[p]
    BY <1>1 DEF Shot, TypeOK
  <2>2. Named(c, p, proc[p])
    BY <1>1, <2>1 DEF LostInv
  <2>3. PICK i \in DOMAIN table[c] : table[c][i].rec.repo = proc[p] /\ table[c][i].rec.pid = p
    BY <2>2 DEF Named, Starting
  <2>4. proc[p] # r
    <3>1. SUFFICES ASSUME proc[p] = r PROVE FALSE
      OBVIOUS
    <3>2. PidOf(c, r) = p
      BY <2>3, <3>1, OneEntry DEF AtWork
    <3>3. p # NoPid /\ proc' = Shot(p)
      BY <3>1, <3>2, ServicesAssumption
    <3>. QED BY <1>1, <3>3 DEF Shot, TypeOK
  <2>. QED BY <2>1, <2>3, <2>4 DEF Named
<1>. QED BY <1>1 DEF LostInv

LEMMA LostBegin ==
  ASSUME TypeInv, FileInv, LostInv, Calm, Unlost, Unlost', NEW c \in Cli, Begin(c)
  PROVE  LostInv'
<1>1. /\ AtWork = {} /\ pc' = [pc EXCEPT ![c] = "ready"] /\ "ready" \in PC
      /\ UNCHANGED <<file, proc>> /\ table' = [table EXCEPT ![c] = Loaded(file)]
  BY DEF Begin, Goto, Unlost, Undisturbed, Note, PC
<1>2. pc'[c] = "ready" /\ AtWork' = {c} /\ table'[c] = Loaded(file)
  BY <1>1, OneWorks DEF TypeInv, TypeOK
<1>3. DOMAIN Loaded(file) = DOMAIN file /\ \A i \in DOMAIN file : Loaded(file)[i].rec = file[i]
  <2>1. Whole(file) /\ file \in Seq(Cell)
    BY <1>1 DEF FileInv, NobodyWorks, TypeInv, TypeOK
  <2>. QED BY <2>1, LoadedFacts, WholeVisible
<1>4. ASSUME NEW p \in Pid, proc[p] # Nothing PROVE Named(c, p, proc[p])'
  <2>1. InFile(p, proc[p])
    BY <1>1, <1>4 DEF LostInv
  <2>. QED BY <1>1, <1>2, <1>3, <2>1 DEF InFile, Named, Starting
<1>. QED BY <1>1, <1>2, <1>4 DEF LostInv

\* A save writes every entry that names a process.
LEMMA LostSave ==
  ASSUME TypeInv, FileInv, LostInv, Calm, Unlost, NEW c \in Cli, SaveStep(c)
  PROVE  LostInv'
<1>1. /\ c \in AtWork /\ AtWork \subseteq {c} /\ WorkOk(c) /\ TypeOK
      /\ table[c] \in Seq(Entry) /\ pc[c] \in {"save", "copy"}
  BY DEF FileInv, AtWork, SaveStep, SaveNothing, SaveTruncate, SaveCopy, TypeInv, TypeOK
<1>2. CASE SaveNothing(c) \/ SaveCopy(c)
  <2>1. AtWork' = {} /\ UNCHANGED proc /\ file' = Saved(table[c])
    BY <1>2, SaveWrites
  <2>2. ASSUME NEW p \in Pid, proc[p] # Nothing PROVE InFile(p, proc[p])'
    <3>1. Named(c, p, proc[p])
      BY <1>1, <2>2 DEF LostInv
    <3>2. PICK i \in DOMAIN table[c] : table[c][i].rec.repo = proc[p] /\ table[c][i].rec.pid = p
      BY <1>1, <3>1 DEF Named
    <3>3. table[c][i].cloned
      BY <1>1, <3>2, ServicesAssumption DEF WorkOk
    <3>4. \E k \in DOMAIN Saved(table[c]) : Saved(table[c])[k] = table[c][i].rec
      BY <1>1, <3>3, SavedFacts
    <3>. QED BY <2>1, <3>2, <3>4 DEF InFile
  <2>. QED BY <2>1, <2>2 DEF LostInv
<1>3. CASE SaveTruncate(c)
  <2>1. pc' = [pc EXCEPT ![c] = "copy"] /\ "copy" \in PC /\ UNCHANGED <<table, proc>>
    BY <1>3 DEF SaveTruncate, Goto, PC
  <2>2. AtWork' = {c} /\ pc'[c] = "copy"
    BY <1>1, <2>1, OneWorks
  <2>. QED BY <1>1, <2>1, <2>2, StaysNamed DEF Starting
<1>. QED BY <1>2, <1>3 DEF SaveStep

LEMMA LostCommand ==
  ASSUME TypeInv, FileInv, LostInv, Calm, Unlost, Unlost', NEW c \in Cli, CommandStep(c)
  PROVE  LostInv'
<1>0. /\ c \in AtWork /\ AtWork \subseteq {c} /\ WorkOk(c) /\ Apart(table[c]) /\ TypeOK
      /\ table[c] \in Seq(Entry) /\ file \in Seq(Cell)
  <2>1. pc[c] # "off"
    BY DEF CommandStep, List, Add, RemoveFolder, RemoveRecord, Rename, Stop, Run, Restart, Fork,
           ForkNoFolder, StorePid, Regroup, Update, Neglect, StatusCut, StatusPut, Pulled, PullFails
  <2>. QED BY <2>1 DEF FileInv, AtWork, TypeInv, TypeOK, WorkOk
<1>1. CASE List(c) \/ RemoveFolder(c) \/ Update(c) \/ Neglect(c) \/ StatusCut(c) \/ Pulled(c)
           \/ Regroup(c) \/ StatusPut(c)
  <2>1. /\ UNCHANGED table /\ pc[c] \notin {"forked", "joining"}
        /\ \E l \in {"save", "removing", "mark", "marking", "unmark", "unmarking", "pull"} :
             pc' = [pc EXCEPT ![c] = l]
    BY <1>1 DEF List, RemoveFolder, Update, Neglect, StatusCut, Pulled, Regroup, StatusPut, Goto
  <2>2. AtWork' = {c} /\ pc'[c] \notin Starting
    BY <1>0, <2>1, OneWorks DEF PC, Starting
  <2>3. proc' = proc \/ \E p : proc' = Shot(p)
    BY <1>1 DEF List, RemoveFolder, Update, Neglect, StatusCut, Pulled, Regroup, StatusPut
  <2>4. \A p \in Pid : proc'[p] \in {proc[p], Nothing}
    BY <1>0, <2>3 DEF Shot, TypeOK
  <2>. QED BY <1>0, <2>1, <2>2, <2>4, StaysNamed
<1>2. CASE Add(c) \/ Rename(c)
  <2>1. pc' = [pc EXCEPT ![c] = "save"] /\ "save" \in PC /\ pc[c] = "ready" /\ UNCHANGED proc
    BY <1>2 DEF Add, Rename, Goto, PC
  <2>2. AtWork' = {c} /\ pc'[c] = "save"
    BY <1>0, <2>1, OneWorks
  <2>3. CASE UNCHANGED table
    BY <1>0, <2>1, <2>2, <2>3, StaysNamed DEF Starting
  <2>4. CASE \E e : table' = [table EXCEPT ![c] = Append(table[c], e)]
    <3>1. PICK e : table'[c] = Append(table[c], e)
      BY <1>0, <2>4 DEF TypeOK
    <3>2. \A i \in DOMAIN table[c] : i \in DOMAIN table'[c] /\ table'[c][i] = table[c][i]
      BY <1>0, <3>1
    <3>. QED BY <1>0, <2>1, <2>2, <3>2, StaysNamed DEF Starting
  <2>5. CASE \E k \in DOMAIN table[c] : \E n : table' = [table EXCEPT ![c][k].rec.name = n]
    <3>0. PICK k \in DOMAIN table[c] : \E n : table' = [table EXCEPT ![c][k].rec.name = n]
      BY <2>5
    <3>1. PICK n : table'[c] = [table[c] EXCEPT ![k].rec.name = n]
      BY <1>0, <3>0 DEF TypeOK
    <3>2. table[c][k] \in Entry
      BY <1>0
    <3>3. \A i \in DOMAIN table[c] : /\ i \in DOMAIN table'[c]
                                     /\ table'[c][i].rec.repo = table[c][i].rec.repo
                                     /\ table'[c][i].rec.pid = table[c][i].rec.pid
      BY <1>0, <3>1, <3>2 DEF Entry, Record
    <3>. QED BY <1>0, <2>1, <2>2, <3>3, StaysNamed DEF Starting
  <2>. QED BY <1>2, <2>3, <2>4, <2>5, FindFacts DEF Add, Rename
<1>3. CASE Stop(c)
  <2>1. PICK r \in Repo : /\ Has(table[c], r) /\ proc' = Shot(PidOf(c, r))
                          /\ SetPid(c, r, NoPid) \/ UNCHANGED table
    BY <1>3 DEF Stop
  <2>2. pc' = [pc EXCEPT ![c] = "save"] /\ "save" \in PC /\ pc[c] = "ready"
    BY <1>3 DEF Stop, Goto, PC
  <2>3. AtWork' = {c} /\ pc'[c] = "save"
    BY <1>0, <2>2, OneWorks
  <2>4. CASE UNCHANGED table
    <3>1. \A p \in Pid : proc'[p] \in {proc[p], Nothing}
      BY <1>0, <2>1 DEF Shot, TypeOK
    <3>. QED BY <1>0, <2>2, <2>3, <2>4, <3>1, StaysNamed DEF Starting
  <2>5. CASE SetPid(c, r, NoPid)
    <3>1. \A i \in DOMAIN table[c] :
            /\ i \in DOMAIN table'[c] /\ table'[c][i].rec.repo = table[c][i].rec.repo
            /\ i # Find(table[c], r) => table'[c][i].rec.pid = table[c][i].rec.pid
      BY <1>0, <2>1, <2>5, SetPidFacts
    <3>2. table[c][Find(table[c], r)].rec.repo = r
      BY <2>1, FindFacts
    <3>. QED BY <1>0, <2>1, <2>2, <2>3, <3>1, <3>2, KilledAndForgotten DEF Starting
  <2>. QED BY <2>1, <2>4, <2>5
<1>4. CASE RemoveRecord(c)
  <2> DEFINE r == target[c]
             k == Find(table[c], r)
  <2>1. /\ pc' = [pc EXCEPT ![c] = "save"] /\ "save" \in PC /\ pc[c] = "removing"
        /\ proc' = Shot(PidOf(c, r)) /\ table' = [table EXCEPT ![c] = Without(table[c], k)]
    BY <1>4 DEF RemoveRecord, Goto, PC
  <2>2. AtWork' = {c} /\ pc'[c] = "save" /\ table'[c] = Without(table[c], k)
    BY <1>0, <2>1, OneWorks DEF TypeOK
  <2>3. r \in Repo /\ Has(table[c], r)
    BY <2>1 DEF TypeInv, TargetsAreThere, Chosen
  <2>4. k \in DOMAIN table[c] /\ table[c][k].rec.repo = r
    BY <2>3, FindFacts
  <2> HIDE DEF k
  <2>5. \A i \in DOMAIN table[c] \ {k} : \E j \in DOMAIN table'[c] : table'[c][j] = table[c][i]
    <3> TAKE i \in DOMAIN table[c] \ {k}
    <3> DEFINE j == IF i < k THEN i ELSE i - 1
    <3>1. /\ Len(table[c]) \in Nat /\ i \in 1..Len(table[c]) /\ k \in 1..Len(table[c]) /\ i # k
      BY <1>0, <2>4
    <3>2. j \in 1..(Len(table[c]) - 1) /\ (IF j < k THEN j ELSE j + 1) = i
      BY <3>1
    <3> HIDE DEF j
    <3>3. j \in DOMAIN table'[c] /\ table'[c][j] = IF j < k THEN table[c][j] ELSE table[c][j + 1]
      BY <1>0, <2>2, <2>4, <3>2, WithoutFacts
    <3>4. table'[c][j] = table[c][i]
      BY <3>2, <3>3
    <3>. QED BY <3>3, <3>4
  <2>6. \A i \in DOMAIN table[c] : table[c][i].rec.repo # r => i # k
    BY <2>4
  <2> HIDE DEF r
  <2>. QED BY <1>0, <2>1, <2>2, <2>3, <2>5, <2>6, KilledAndForgotten DEF Starting
<1>5. CASE Run(c) \/ Restart(c)
  <2>1. PICK r \in Repo, l \in {"save", "checked"} :
          /\ Has(table[c], r) /\ target' = [target EXCEPT ![c] = r]
          /\ pc' = [pc EXCEPT ![c] = l] /\ UNCHANGED table
          /\ \/ proc' = Shot(PidOf(c, r))
             \/ proc' = proc /\ ~(PidOf(c, r) # NoPid /\ proc[PidOf(c, r)] = r)
    BY <1>5 DEF Run, Restart, Goto, Note, Unlost, Undisturbed
  <2>2. pc[c] = "ready" /\ l \in PC /\ l \notin {"forked", "joining"}
    BY <1>5 DEF Run, Restart, PC
  <2>3. AtWork' = {c} /\ pc'[c] = l /\ target'[c] = r
    BY <1>0, <2>1, <2>2, OneWorks DEF TypeOK
  <2>4. ASSUME NEW p \in Pid, proc'[p] # Nothing PROVE Named(c, p, proc[p])'
    <3>1. proc'[p] = proc[p]
      BY <1>0, <2>1, <2>4 DEF Shot, TypeOK
    <3>2. Named(c, p, proc[p])
      BY <1>0, <2>4, <3>1 DEF LostInv
    <3>3. PICK i \in DOMAIN table[c] : table[c][i].rec.repo = proc[p] /\ table[c][i].rec.pid = p
      BY <2>2, <3>2 DEF Named
    <3>4. proc[p] # r
      <4>1. SUFFICES ASSUME proc[p] = r PROVE FALSE
        OBVIOUS
      <4>2. PidOf(c, r) = p /\ p # NoPid
        BY <1>0, <2>1, <3>3, <4>1, OneEntry, ServicesAssumption
      <4>3. proc' = Shot(p)
        BY <2>1, <4>1, <4>2
      <4>. QED BY <1>0, <2>4, <4>2, <4>3 DEF Shot, TypeOK
    <3>. QED BY <2>1, <2>3, <3>1, <3>3, <3>4 DEF Named
  <2>. QED BY <2>3, <2>4 DEF LostInv
<1>6. CASE Fork(c)
  <2>1. PICK q \in Pid : /\ proc[q] = Nothing /\ proc' = [proc EXCEPT ![q] = target[c]]
                         /\ child' = [child EXCEPT ![c] = q]
    BY <1>6 DEF Fork
  <2>2. /\ pc[c] = "checked" /\ pc' = [pc EXCEPT ![c] = "forked"] /\ "forked" \in PC
        /\ UNCHANGED <<table, target>>
    BY <1>6 DEF Fork, Goto, PC
  <2>3. AtWork' = {c} /\ pc'[c] = "forked" /\ child'[c] = q
    BY <1>0, <2>1, <2>2, OneWorks DEF TypeOK
  <2>4. ASSUME NEW p \in Pid, proc'[p] # Nothing PROVE Named(c, p, proc[p])'
    <3>1. CASE p = q
      BY <1>0, <2>1, <2>2, <2>3, <3>1 DEF Named, TypeOK
    <3>2. CASE p # q
      <4>1. proc'[p] = proc[p]
        BY <1>0, <2>1, <3>2 DEF TypeOK
      <4>2. Named(c, p, proc[p])
        BY <1>0, <2>4, <4>1 DEF LostInv
      <4>. QED BY <2>2, <2>3, <4>1, <4>2 DEF Named, Starting
    <3>. QED BY <3>1, <3>2
  <2>. QED BY <2>3, <2>4 DEF LostInv
<1>7. CASE ForkNoFolder(c)
  BY <1>7 DEF ForkNoFolder, Note, Unlost, Undisturbed
<1>8. CASE StorePid(c)
  <2>1. /\ SetPid(c, target[c], child[c]) /\ child[c] \in Pid \union {NoPid}
        /\ target[c] \in Repo /\ Has(table[c], target[c])
    BY <1>0, <1>8 DEF StorePid, TypeOK, TypeInv, TargetsAreThere, Chosen
  <2> DEFINE k == Find(table[c], target[c])
  <2>2. /\ pc[c] \in {"forked", "joining"} /\ UNCHANGED <<proc, target>>
        /\ \E l \in {"regroup", "attached", "save"} : pc' = [pc EXCEPT ![c] = l]
    BY <1>8 DEF StorePid, Goto
  <2>3. AtWork' = {c} /\ pc'[c] \notin Starting
    BY <1>0, <2>2, OneWorks DEF PC, Starting
  <2>4. /\ DOMAIN table'[c] = DOMAIN table[c]
        /\ \A i \in DOMAIN table[c] :
             /\ table'[c][i].rec.repo = table[c][i].rec.repo
             /\ table'[c][i].rec.pid = IF i = k THEN child[c] ELSE table[c][i].rec.pid
    BY <1>0, <2>1, SetPidFacts
  <2>5. k \in DOMAIN table[c] /\ table[c][k].rec.repo = target[c]
    BY <2>1, FindFacts
  <2> HIDE DEF k
  <2>6. ASSUME NEW p \in Pid, proc'[p] # Nothing PROVE Named(c, p, proc[p])'
    <3>1. Named(c, p, proc[p])
      BY <1>0, <2>2, <2>6 DEF LostInv
    <3>. QED BY <2>2, <2>3, <2>4, <2>5, <3>1 DEF Named, Starting
  <2>. QED BY <2>3, <2>6 DEF LostInv
<1>9. CASE PullFails(c)
  <2>1. /\ pc[c] = "pull" /\ pc' = [pc EXCEPT ![c] = "off"] /\ "off" \in PC
        /\ UNCHANGED <<file, proc>>
    BY <1>9 DEF PullFails, Off, Goto, PC, disk
  <2>2. AtWork' = {}
    BY <1>0, <2>1, OneWorks
  <2>3. /\ DOMAIN table[c] = DOMAIN file
        /\ \A i \in DOMAIN file : table[c][i].rec = file[i]
    <3>1. Whole(file) /\ table[c] = Loaded(file)
      BY <1>0, <2>1 DEF WorkOk, Fresh
    <3>2. file \in Seq(Cell)
      BY <1>0 DEF TypeOK
    <3>3. Visible(file) = file
      BY <3>1, <3>2, WholeVisible
    <3>4. /\ DOMAIN Loaded(file) = DOMAIN Visible(file)
          /\ \A i \in DOMAIN Loaded(file) : Loaded(file)[i].rec = file[i]
      BY <3>2, LoadedFacts
    <3>. QED BY <3>1, <3>3, <3>4
  <2>4. ASSUME NEW p \in Pid, proc[p] # Nothing PROVE InFile(p, proc[p])
    BY <1>0, <2>1, <2>3, <2>4 DEF LostInv, Named, InFile
  <2>. QED BY <2>1, <2>2, <2>4 DEF LostInv, InFile
<1>. QED
  BY <1>1, <1>2, <1>3, <1>4, <1>5, <1>6, <1>7, <1>8, <1>9 DEF CommandStep

LEMMA LostDisturbance ==
  ASSUME TypeInv, FileInv, LostInv, Calm, Unlost, Unlost', NEW c \in Cli, Disturbance(c)
  PROVE  LostInv'
<1>1. CASE SaveInterrupt(c) \/ StatusInterrupt(c) \/ Kill(c)
  BY <1>1 DEF SaveInterrupt, StatusInterrupt, Kill, Note, Unlost, Undisturbed
<1>2. CASE RestartFaults(c) \/ (Detach(c) /\ UNCHANGED <<pc, table>>)
  <2>1. UNCHANGED <<file, pc, table, target, child>>
    BY <1>2 DEF RestartFaults, Detach, disk, local, Note, Unlost, Undisturbed
  <2>2. proc' = proc \/ \E p : proc' = Shot(p)
    BY <1>2 DEF RestartFaults, Detach
  <2>3. \A p \in Pid : proc'[p] \in {proc[p], Nothing}
    BY <2>2 DEF Shot, TypeInv, TypeOK
  <2>. QED BY <2>1, <2>3 DEF LostInv, InFile, Named, AtWork
<1>3. CASE Detach(c) /\ ~UNCHANGED <<pc, table>>
  <2>1. /\ c \in AtWork /\ AtWork \subseteq {c} /\ Apart(table[c]) /\ TypeOK
        /\ target[c] \in Repo /\ Has(table[c], target[c])
    BY <1>3 DEF Detach, FileInv, AtWork, WorkOk, TypeInv, TargetsAreThere, Chosen
  <2>2. CASE pc[c] = "forked" /\ pc' = [pc EXCEPT ![c] = "joining"] /\ UNCHANGED table
    <3>1. AtWork' = {c} /\ pc'[c] = "joining"
      BY <2>1, <2>2, OneWorks DEF PC
    <3>2. UNCHANGED <<target, child>> /\ \A p \in Pid : proc'[p] \in {proc[p], Nothing}
      BY <1>3, <2>1 DEF Detach, Shot, TypeOK
    <3>. QED BY <2>1, <2>2, <3>1, <3>2 DEF LostInv, Named, Starting
  <2>3. CASE pc[c] = "attached" /\ pc' = [pc EXCEPT ![c] = "save"] /\ SetPid(c, target[c], NoPid)
    <3> DEFINE r == target[c]
    <3>1. AtWork' = {c} /\ pc'[c] = "save"
      BY <2>1, <2>3, OneWorks DEF PC
    <3>2. /\ proc' \in {proc, Shot(PidOf(c, r))}
          /\ PidOf(c, r) # NoPid /\ proc[PidOf(c, r)] = r => proc' = Shot(PidOf(c, r))
      BY <1>3, <2>3 DEF Detach
    <3>3. \A i \in DOMAIN table[c] :
            /\ i \in DOMAIN table'[c] /\ table'[c][i].rec.repo = table[c][i].rec.repo
            /\ i # Find(table[c], r) => table'[c][i].rec.pid = table[c][i].rec.pid
      BY <2>1, <2>3, SetPidFacts
    <3>4. table[c][Find(table[c], r)].rec.repo = r
      BY <2>1, FindFacts
    <3> HIDE DEF r
    <3>5. r \in Repo /\ Has(table[c], r)
      BY <2>1 DEF r
    <3>. QED BY <2>1, <2>3, <3>1, <3>2, <3>3, <3>4, <3>5, KilledAndForgotten DEF Starting
  <2>. QED BY <1>3, <2>2, <2>3 DEF Detach, Goto
<1>. QED BY <1>1, <1>2, <1>3 DEF Disturbance

LEMMA LostStep == TypeInv /\ FileInv /\ LostInv /\ [Next]_vars => LostInv'
<1> SUFFICES ASSUME TypeInv, FileInv, LostInv, [Next]_vars, Unlost' PROVE LostInv'
  BY DEF LostInv
<1>1. Unlost /\ Calm
  BY History DEF Calm, Unlost, Undisturbed
<1>2. ASSUME NEW p \in Pid, Die(p) PROVE LostInv'
  <2>1. UNCHANGED <<file, pc, table, target, child>>
    BY <1>2 DEF Die, disk, local
  <2>2. \A q \in Pid : proc'[q] \in {proc[q], Nothing}
    BY <1>2 DEF Die, TypeInv, TypeOK
  <2>. QED BY <1>1, <2>1, <2>2 DEF LostInv, InFile, Named, AtWork
<1>3. CASE UNCHANGED vars
  BY <1>1, <1>3 DEF vars, LostInv, local, disk, AtWork, InFile, Named
<1>. QED
  BY <1>1, <1>2, <1>3, LostBegin, LostCommand, LostSave, LostDisturbance DEF Next

\* While commands run one at a time, are not killed or interrupted and no
\* service is run twice, every process of a service is named by the record of
\* that service, so that it can be stopped: whatever services die, are
\* restarted, renamed, or refused (run_service.c:78, create_service.c:147).
THEOREM NoServiceIsLost == Spec => []NoProcessIsLost
<1>1. TypeInv /\ FileInv /\ LostInv => NoProcessIsLost
  <2> SUFFICES ASSUME TypeInv, FileInv, LostInv, Unlost, NEW p \in Pid, proc[p] # Nothing
               PROVE  Known(p, proc[p])
    BY DEF NoProcessIsLost, Unlost
  <2>1. CASE AtWork = {}
    <3>1. Whole(file) /\ file \in Seq(Cell)
      BY <2>1 DEF FileInv, NobodyWorks, Calm, Unlost, Undisturbed, TypeInv, TypeOK
    <3>2. Visible(file) = file
      BY <3>1, WholeVisible
    <3>3. InFile(p, proc[p])
      BY <2>1 DEF LostInv
    <3>. QED BY <3>2, <3>3 DEF Known, InFile
  <2>2. ASSUME NEW c \in AtWork PROVE Known(p, proc[p])
    BY <2>2 DEF LostInv, Named, Known
  <2>. QED BY <2>1, <2>2
<1>. QED BY TypeInit, TypeStep, FileInit, FileStep, LostInit, LostStep, <1>1, PTL DEF Spec

-----------------------------------------------------------------------------
\* Recorded pids and their processes.

Quiet == Undisturbed({"overlap", "killed", "signal", "double", "stale"})

\* A record that names a process names one of its own service.
Owns(rec) == rec.pid # NoPid => proc[rec.pid] = rec.repo

StrikeInv ==
  Quiet =>
    /\ "strike" \notin happened
    /\ AtWork = {} => \A i \in DOMAIN file : Owns(file[i])
    /\ \A c \in AtWork :
         /\ pc[c] # "joining"
         /\ pc[c] = "forked" => child[c] \in Pid /\ proc[child[c]] = target[c]
         /\ \A i \in DOMAIN table[c] :
              ~(pc[c] \in Starting /\ table[c][i].rec.repo = target[c]) => Owns(table[c][i].rec)

\* The records invocations found at the start name different processes.
OwnPids ==
  \A t \in InitialTables : \A i, j \in DOMAIN t :
    i # j => t[i].pid # t[j].pid \/ t[i].pid = NoPid

LEMMA StrikeInit == OwnPids /\ Init => StrikeInv
<1> SUFFICES ASSUME OwnPids, Init, NEW i \in DOMAIN file, file[i].pid # NoPid
             PROVE  proc[file[i].pid] = file[i].repo
  BY DEF StrikeInv, Init, AtWork, Owns
<1>1. file \in Seq(Record) /\ file \in InitialTables
  BY ServicesAssumption DEF Init
<1>2. file[i] \in Record
  BY <1>1
<1>3. file[i].pid \in Pid
  BY <1>2 DEF Record
<1>4. proc[file[i].pid] = file[CHOOSE j \in DOMAIN file : file[j].pid = file[i].pid].repo
  BY <1>3 DEF Init
<1>5. \A j \in DOMAIN file : file[j].pid = file[i].pid => j = i
  BY <1>1 DEF OwnPids
<1>. QED BY <1>4, <1>5

\* A command kills what its record names: its own service, and no other record's.
LEMMA KillsItsOwn ==
  ASSUME TypeOK, StrikeInv, Quiet, NEW c \in Cli, c \in AtWork, pc[c] \notin Starting,
         Apart(table[c]), NEW r \in Repo, Has(table[c], r)
  PROVE  /\ Strike(PidOf(c, r), r) = {}
         /\ \A i \in DOMAIN table[c] :
              table[c][i].rec.repo # r /\ table[c][i].rec.pid # NoPid
                => Shot(PidOf(c, r))[table[c][i].rec.pid] = table[c][i].rec.repo
<1> DEFINE k == Find(table[c], r)
           p == PidOf(c, r)
<1>1. /\ k \in DOMAIN table[c] /\ table[c][k].rec.repo = r /\ p = table[c][k].rec.pid
      /\ p \in Pid \union {NoPid}
  BY EntryOf
<1> HIDE DEF k, p
<1>2. \A i \in DOMAIN table[c] : Owns(table[c][i].rec)
  BY DEF StrikeInv
<1>3. p # NoPid => proc[p] = r
  BY <1>1, <1>2 DEF Owns
<1>4. Strike(p, r) = {}
  BY <1>3 DEF Strike
<1>5. ASSUME NEW i \in DOMAIN table[c], table[c][i].rec.repo # r, table[c][i].rec.pid # NoPid
      PROVE  Shot(p)[table[c][i].rec.pid] = table[c][i].rec.repo
  <2>1. table[c][i].rec.pid # p \/ p = NoPid
    BY <1>2, <1>3, <1>5 DEF Owns
  <2>2. proc[table[c][i].rec.pid] = table[c][i].rec.repo
    BY <1>2, <1>5 DEF Owns
  <2>. QED BY <2>1, <2>2 DEF Shot, TypeOK
<1>. QED BY <1>4, <1>5 DEF p

\* Steps after which each entry names nothing, or what an entry named before.
LEMMA StaysOwned ==
  ASSUME TypeOK, StrikeInv, Quiet, NEW c \in AtWork, AtWork' = {c},
         pc[c] \notin Starting, pc'[c] \notin Starting, happened' = happened,
         \A j \in DOMAIN table'[c] :
           \/ table'[c][j].rec.pid = NoPid
           \/ \E i \in DOMAIN table[c] :
                /\ table'[c][j].rec.repo = table[c][i].rec.repo
                /\ table'[c][j].rec.pid = table[c][i].rec.pid
                /\ proc[table[c][i].rec.pid] = table[c][i].rec.repo
                     => proc'[table[c][i].rec.pid] = table[c][i].rec.repo
  PROVE  StrikeInv'
<1>1. \A i \in DOMAIN table[c] : Owns(table[c][i].rec)
  BY DEF StrikeInv
<1>2. ASSUME NEW j \in DOMAIN table'[c], table'[c][j].rec.pid # NoPid
      PROVE  proc'[table'[c][j].rec.pid] = table'[c][j].rec.repo
  BY <1>1, <1>2 DEF Owns
<1>. QED BY <1>2 DEF StrikeInv, Owns, Starting

LEMMA StrikeBegin ==
  ASSUME TypeInv, FileInv, StrikeInv, Calm, Quiet, Quiet', NEW c \in Cli, Begin(c)
  PROVE  StrikeInv'
<1>1. /\ AtWork = {} /\ pc' = [pc EXCEPT ![c] = "ready"] /\ "ready" \in PC
      /\ UNCHANGED <<file, proc, happened>> /\ table' = [table EXCEPT ![c] = Loaded(file)]
  BY DEF Begin, Goto, Quiet, Undisturbed, Note, PC
<1>2. pc'[c] = "ready" /\ AtWork' = {c} /\ table'[c] = Loaded(file)
  BY <1>1, OneWorks DEF TypeInv, TypeOK
<1>3. DOMAIN Loaded(file) = DOMAIN file /\ \A i \in DOMAIN file : Loaded(file)[i].rec = file[i]
  <2>1. Whole(file) /\ file \in Seq(Cell)
    BY <1>1 DEF FileInv, NobodyWorks, TypeInv, TypeOK
  <2>. QED BY <2>1, LoadedFacts, WholeVisible
<1>4. \A i \in DOMAIN file : Owns(file[i])
  BY <1>1 DEF StrikeInv
<1>. QED BY <1>1, <1>2, <1>3, <1>4 DEF StrikeInv, Owns

LEMMA StrikeSave ==
  ASSUME TypeInv, FileInv, StrikeInv, Calm, Quiet, NEW c \in Cli, SaveStep(c)
  PROVE  StrikeInv'
<1>1. /\ c \in AtWork /\ AtWork \subseteq {c} /\ TypeOK /\ table[c] \in Seq(Entry)
      /\ pc[c] \in {"save", "copy"} /\ UNCHANGED <<proc, happened>>
  BY DEF FileInv, AtWork, SaveStep, SaveNothing, SaveTruncate, SaveCopy, TypeInv, TypeOK
<1>2. CASE SaveNothing(c) \/ SaveCopy(c)
  <2>1. AtWork' = {} /\ file' = Saved(table[c])
    BY <1>2, SaveWrites
  <2>2. \A k \in DOMAIN Saved(table[c]) :
           \E i \in DOMAIN table[c] : Saved(table[c])[k] = table[c][i].rec
    BY <1>1, SavedFacts
  <2>3. \A i \in DOMAIN table[c] : Owns(table[c][i].rec)
    BY <1>1 DEF StrikeInv, Starting
  <2>. QED BY <1>1, <2>1, <2>2, <2>3 DEF StrikeInv, Owns
<1>3. CASE SaveTruncate(c)
  <2>1. pc' = [pc EXCEPT ![c] = "copy"] /\ "copy" \in PC /\ UNCHANGED table
    BY <1>3 DEF SaveTruncate, Goto, PC
  <2>2. AtWork' = {c} /\ pc'[c] = "copy"
    BY <1>1, <2>1, OneWorks
  <2>. QED BY <1>1, <2>1, <2>2, StaysOwned DEF Starting
<1>. QED BY <1>2, <1>3 DEF SaveStep

LEMMA StrikeCommand ==
  ASSUME TypeInv, FileInv, StrikeInv, Calm, Quiet, Quiet', NEW c \in Cli, CommandStep(c)
  PROVE  StrikeInv'
<1>0. /\ c \in AtWork /\ AtWork \subseteq {c} /\ WorkOk(c) /\ Apart(table[c]) /\ TypeOK
      /\ table[c] \in Seq(Entry) /\ file \in Seq(Cell)
  <2>1. pc[c] # "off"
    BY DEF CommandStep, List, Add, RemoveFolder, RemoveRecord, Rename, Stop, Run, Restart, Fork,
           ForkNoFolder, StorePid, Regroup, Update, Neglect, StatusCut, StatusPut, Pulled, PullFails
  <2>. QED BY <2>1 DEF FileInv, AtWork, TypeInv, TypeOK, WorkOk
<1>1. CASE List(c) \/ RemoveFolder(c) \/ Update(c) \/ Neglect(c) \/ StatusCut(c) \/ Pulled(c)
           \/ Regroup(c) \/ StatusPut(c)
  <2>1. /\ UNCHANGED table /\ pc[c] \notin {"checked", "forked", "joining"}
        /\ \E l \in {"save", "removing", "mark", "marking", "unmark", "unmarking", "pull"} :
             pc' = [pc EXCEPT ![c] = l]
    BY <1>1 DEF List, RemoveFolder, Update, Neglect, StatusCut, Pulled, Regroup, StatusPut, Goto
  <2>2. AtWork' = {c} /\ pc'[c] \notin Starting
    BY <1>0, <2>1, OneWorks DEF PC, Starting
  <2>3. UNCHANGED <<proc, happened>>
    BY <1>1 DEF List, RemoveFolder, Update, Neglect, StatusCut, Pulled, Regroup, StatusPut,
                Quiet, Undisturbed, Note, Shot
  <2>. QED BY <1>0, <2>1, <2>2, <2>3, StaysOwned DEF Starting
<1>2. CASE Add(c) \/ Rename(c)
  <2>1. /\ pc' = [pc EXCEPT ![c] = "save"] /\ "save" \in PC /\ pc[c] = "ready"
        /\ UNCHANGED <<proc, happened>>
    BY <1>2 DEF Add, Rename, Goto, PC
  <2>2. AtWork' = {c} /\ pc'[c] = "save"
    BY <1>0, <2>1, OneWorks
  <2>3. CASE UNCHANGED table
    BY <1>0, <2>1, <2>2, <2>3, StaysOwned DEF Starting
  <2>4. CASE \E e : e.rec.pid = NoPid /\ table' = [table EXCEPT ![c] = Append(table[c], e)]
    <3>1. PICK e : e.rec.pid = NoPid /\ table'[c] = Append(table[c], e)
      BY <1>0, <2>4 DEF TypeOK
    <3>2. \A j \in DOMAIN table'[c] :
            table'[c][j] = e \/ (j \in DOMAIN table[c] /\ table'[c][j] = table[c][j])
      BY <1>0, <3>1
    <3>. QED BY <1>0, <2>1, <2>2, <3>1, <3>2, StaysOwned DEF Starting
  <2>5. CASE \E k \in DOMAIN table[c] : \E n : table' = [table EXCEPT ![c][k].rec.name = n]
    <3>0. PICK k \in DOMAIN table[c] : \E n : table' = [table EXCEPT ![c][k].rec.name = n]
      BY <2>5
    <3>1. PICK n : table'[c] = [table[c] EXCEPT ![k].rec.name = n]
      BY <1>0, <3>0 DEF TypeOK
    <3>2. table[c][k] \in Entry
      BY <1>0
    <3>3. \A j \in DOMAIN table'[c] : /\ j \in DOMAIN table[c]
                                      /\ table'[c][j].rec.repo = table[c][j].rec.repo
                                      /\ table'[c][j].rec.pid = table[c][j].rec.pid
      BY <1>0, <3>1, <3>2 DEF Entry, Record
    <3>. QED BY <1>0, <2>1, <2>2, <3>3, StaysOwned DEF Starting
  <2>6. Add(c) => \/ UNCHANGED table
                  \/ \E e : e.rec.pid = NoPid /\ table' = [table EXCEPT ![c] = Append(table[c], e)]
    BY DEF Add
  <2>. QED BY <1>2, <2>3, <2>4, <2>5, <2>6, FindFacts DEF Rename
<1>3. CASE Stop(c)
  <2>1. PICK r \in Repo : /\ Has(table[c], r) /\ proc' = Shot(PidOf(c, r))
                          /\ SetPid(c, r, NoPid)
                          /\ happened' = happened \union Strike(PidOf(c, r), r)
    BY <1>3 DEF Stop, Note, Quiet, Undisturbed
  <2>2. pc' = [pc EXCEPT ![c] = "save"] /\ "save" \in PC /\ pc[c] = "ready"
    BY <1>3 DEF Stop, Goto, PC
  <2>3. AtWork' = {c} /\ pc'[c] = "save"
    BY <1>0, <2>2, OneWorks
  <2>4. /\ DOMAIN table'[c] = DOMAIN table[c]
        /\ \A i \in DOMAIN table[c] :
             /\ table'[c][i].rec.repo = table[c][i].rec.repo
             /\ table'[c][i].rec.pid = IF i = Find(table[c], r) THEN NoPid
                                       ELSE table[c][i].rec.pid
    BY <1>0, <2>1, SetPidFacts
  <2>5. /\ happened' = happened
        /\ \A i \in DOMAIN table[c] :
             table[c][i].rec.repo # r /\ table[c][i].rec.pid # NoPid
               => proc'[table[c][i].rec.pid] = table[c][i].rec.repo
    BY <1>0, <2>1, <2>2, KillsItsOwn DEF Starting
  <2>6. \A i \in DOMAIN table[c] : i # Find(table[c], r) => table[c][i].rec.repo # r
    <3>1. Find(table[c], r) \in DOMAIN table[c] /\ table[c][Find(table[c], r)].rec.repo = r
      BY <2>1, FindFacts
    <3>2. Apart(table[c])
      BY <1>0
    <3>. QED BY <3>1, <3>2 DEF Apart
  <2>7. pc[c] \notin Starting /\ pc'[c] \notin Starting
    BY <2>2, <2>3 DEF Starting
  <2>8. ASSUME NEW j \in DOMAIN table'[c]
        PROVE  \/ table'[c][j].rec.pid = NoPid
               \/ \E i \in DOMAIN table[c] :
                    /\ table'[c][j].rec.repo = table[c][i].rec.repo
                    /\ table'[c][j].rec.pid = table[c][i].rec.pid
                    /\ proc[table[c][i].rec.pid] = table[c][i].rec.repo
                         => proc'[table[c][i].rec.pid] = table[c][i].rec.repo
    BY <2>4, <2>5, <2>6
  <2>. QED BY <1>0, <2>3, <2>5, <2>7, <2>8, StaysOwned
<1>4. CASE RemoveRecord(c)
  <2> DEFINE r == target[c]
             k == Find(table[c], r)
  <2>1. /\ pc' = [pc EXCEPT ![c] = "save"] /\ "save" \in PC /\ pc[c] = "removing"
        /\ proc' = Shot(PidOf(c, r)) /\ table' = [table EXCEPT ![c] = Without(table[c], k)]
        /\ happened' = happened \union Strike(PidOf(c, r), r)
    BY <1>4 DEF RemoveRecord, Goto, PC, Note
  <2>2. AtWork' = {c} /\ pc'[c] = "save" /\ table'[c] = Without(table[c], k)
    BY <1>0, <2>1, OneWorks DEF TypeOK
  <2>3. r \in Repo /\ Has(table[c], r)
    BY <2>1 DEF TypeInv, TargetsAreThere, Chosen
  <2>4. k \in DOMAIN table[c] /\ table[c][k].rec.repo = r
    BY <2>3, FindFacts
  <2> HIDE DEF k
  <2>5. \A j \in DOMAIN table'[c] : \E i \in DOMAIN table[c] \ {k} : table'[c][j] = table[c][i]
    <3> TAKE j \in DOMAIN table'[c]
    <3>1. /\ j \in 1..(Len(table[c]) - 1) /\ Len(table[c]) \in Nat /\ k \in 1..Len(table[c])
          /\ table'[c][j] = IF j < k THEN table[c][j] ELSE table[c][j + 1]
      <4>1. k \in DOMAIN table[c] /\ Len(table[c]) \in Nat /\ DOMAIN table[c] = 1..Len(table[c])
        BY <1>0, <2>4
      <4>2. DOMAIN Without(table[c], k) = 1..(Len(table[c]) - 1)
        BY <1>0, <4>1, WithoutFacts
      <4>3. j \in 1..(Len(table[c]) - 1)
        BY <2>2, <4>2
      <4>4. Without(table[c], k)[j] = IF j < k THEN table[c][j] ELSE table[c][j + 1]
        BY <1>0, <4>1, <4>3, WithoutFacts
      <4>. QED BY <2>2, <4>1, <4>3, <4>4
    <3>2. (IF j < k THEN j ELSE j + 1) \in (1..Len(table[c])) \ {k}
      BY <3>1
    <3>. QED BY <1>0, <3>1, <3>2
  <2>6. \A i \in DOMAIN table[c] \ {k} : table[c][i].rec.repo # r
    BY <1>0, <2>4 DEF Apart
  <2> HIDE DEF r
  <2>7. /\ happened' = happened
        /\ \A i \in DOMAIN table[c] :
             table[c][i].rec.repo # r /\ table[c][i].rec.pid # NoPid
               => proc'[table[c][i].rec.pid] = table[c][i].rec.repo
    BY <1>0, <2>1, <2>3, KillsItsOwn DEF Starting
  <2>. QED BY <1>0, <2>1, <2>2, <2>5, <2>6, <2>7, StaysOwned DEF Starting
<1>5. CASE Run(c) \/ Restart(c)
  <2>1. PICK r \in Repo, l \in {"save", "checked"} :
          /\ Has(table[c], r) /\ target' = [target EXCEPT ![c] = r]
          /\ pc' = [pc EXCEPT ![c] = l] /\ UNCHANGED table
          /\ \/ /\ proc' = Shot(PidOf(c, r)) /\ (l = "save" => PidOf(c, r) = NoPid)
                /\ happened' = happened \union Strike(PidOf(c, r), r)
             \/ UNCHANGED <<proc, happened>>
    BY <1>5 DEF Run, Restart, Goto, Note, Quiet, Undisturbed
  <2>2. pc[c] = "ready" /\ l \in PC /\ l \notin {"forked", "joining"}
    BY <1>5 DEF Run, Restart, PC
  <2>3. AtWork' = {c} /\ pc'[c] = l /\ target'[c] = r
    BY <1>0, <2>1, <2>2, OneWorks DEF TypeOK
  <2>4. \A i \in DOMAIN table[c] : Owns(table[c][i].rec)
    BY <1>0, <2>2 DEF StrikeInv, Starting
  <2>5. /\ happened' = happened
        /\ \A i \in DOMAIN table[c] :
             table[c][i].rec.pid # NoPid /\ (table[c][i].rec.repo = r => l = "save")
               => proc'[table[c][i].rec.pid] = table[c][i].rec.repo
    <3>1. CASE UNCHANGED <<proc, happened>>
      BY <2>4, <3>1 DEF Owns
    <3>2. CASE l = "save" /\ PidOf(c, r) = NoPid /\ proc' = Shot(NoPid)
      BY <1>0, <2>1, <2>2, <2>4, <3>2, KillsItsOwn DEF Owns, Shot, Starting
    <3>3. CASE l = "checked" /\ proc' = Shot(PidOf(c, r))
      BY <1>0, <2>1, <2>2, <2>4, <3>3, KillsItsOwn DEF Owns, Starting
    <3>. QED BY <2>1, <3>1, <3>2, <3>3
  <2>. QED BY <1>0, <2>1, <2>2, <2>3, <2>5 DEF StrikeInv, Owns, Starting
<1>6. CASE Fork(c)
  <2>1. PICK q \in Pid : /\ proc[q] = Nothing /\ proc' = [proc EXCEPT ![q] = target[c]]
                         /\ child' = [child EXCEPT ![c] = q]
    BY <1>6 DEF Fork
  <2>2. /\ pc[c] = "checked" /\ pc' = [pc EXCEPT ![c] = "forked"] /\ "forked" \in PC
        /\ UNCHANGED <<table, target, happened>>
    BY <1>6 DEF Fork, Goto, PC
  <2>3. AtWork' = {c} /\ pc'[c] = "forked" /\ child'[c] = q /\ proc'[q] = target[c]
    BY <1>0, <2>1, <2>2, OneWorks DEF TypeOK
  <2>4. ASSUME NEW i \in DOMAIN table[c], table[c][i].rec.repo # target[c],
               table[c][i].rec.pid # NoPid
        PROVE  proc'[table[c][i].rec.pid] = table[c][i].rec.repo
    <3>1. proc[table[c][i].rec.pid] = table[c][i].rec.repo
      BY <1>0, <2>4 DEF StrikeInv, Owns
    <3>2. table[c][i].rec.repo \in Repo
      <4>1. table[c][i] \in Entry
        BY <1>0
      <4>. QED BY <4>1 DEF Entry, Record
    <3>3. table[c][i].rec.pid # q
      BY <2>1, <3>1, <3>2, ServicesAssumption
    <3>. QED BY <1>0, <2>1, <3>1, <3>3 DEF TypeOK
  <2>. QED BY <1>0, <2>2, <2>3, <2>4 DEF StrikeInv, Owns, Starting
<1>7. CASE ForkNoFolder(c)
  BY <1>7 DEF ForkNoFolder, Note, Quiet, Undisturbed
<1>8. CASE StorePid(c)
  <2>1. /\ SetPid(c, target[c], child[c]) /\ child[c] \in Pid \union {NoPid}
        /\ target[c] \in Repo /\ Has(table[c], target[c])
    BY <1>0, <1>8 DEF StorePid, TypeOK, TypeInv, TargetsAreThere, Chosen
  <2> DEFINE k == Find(table[c], target[c])
  <2>2. /\ pc[c] = "forked" /\ UNCHANGED <<proc, target, happened>>
        /\ \E l \in {"regroup", "attached", "save"} : pc' = [pc EXCEPT ![c] = l]
    BY <1>0, <1>8 DEF StorePid, Goto, StrikeInv
  <2>3. AtWork' = {c} /\ pc'[c] \notin Starting
    BY <1>0, <2>2, OneWorks DEF PC, Starting
  <2>4. /\ DOMAIN table'[c] = DOMAIN table[c]
        /\ \A i \in DOMAIN table[c] :
             /\ table'[c][i].rec.repo = table[c][i].rec.repo
             /\ table'[c][i].rec.pid = IF i = k THEN child[c] ELSE table[c][i].rec.pid
    BY <1>0, <2>1, SetPidFacts
  <2>5. /\ k \in DOMAIN table[c] /\ table[c][k].rec.repo = target[c]
        /\ \A i \in DOMAIN table[c] \ {k} : table[c][i].rec.repo # target[c]
    BY <1>0, <2>1, FindFacts DEF Apart
  <2> HIDE DEF k
  <2>6. proc[child[c]] = target[c]
    BY <1>0, <2>2 DEF StrikeInv
  <2>7. \A i \in DOMAIN table[c] \ {k} : Owns(table[c][i].rec)
    BY <1>0, <2>5 DEF StrikeInv
  <2>. QED BY <1>0, <2>2, <2>3, <2>4, <2>5, <2>6, <2>7 DEF StrikeInv, Owns, Starting
<1>9. CASE PullFails(c)
  <2>1. /\ pc[c] = "pull" /\ pc' = [pc EXCEPT ![c] = "off"] /\ "off" \in PC
        /\ UNCHANGED <<file, proc>> /\ happened' = happened \union {"failed"}
    BY <1>9 DEF PullFails, Off, Goto, PC, disk, Note
  <2>2. AtWork' = {}
    BY <1>0, <2>1, OneWorks
  <2>3. /\ DOMAIN table[c] = DOMAIN file
        /\ \A i \in DOMAIN file : table[c][i].rec = file[i]
    <3>1. Whole(file) /\ table[c] = Loaded(file)
      BY <1>0, <2>1 DEF WorkOk, Fresh
    <3>2. file \in Seq(Cell)
      BY <1>0 DEF TypeOK
    <3>3. Visible(file) = file
      BY <3>1, <3>2, WholeVisible
    <3>4. /\ DOMAIN Loaded(file) = DOMAIN Visible(file)
          /\ \A i \in DOMAIN Loaded(file) : Loaded(file)[i].rec = file[i]
      BY <3>2, LoadedFacts
    <3>. QED BY <3>1, <3>3, <3>4
  <2>4. \A i \in DOMAIN file : Owns(file[i])
    BY <1>0, <2>1, <2>3 DEF StrikeInv, Starting
  <2>. QED BY <2>1, <2>2, <2>4 DEF StrikeInv, Owns
<1>. QED
  BY <1>1, <1>2, <1>3, <1>4, <1>5, <1>6, <1>7, <1>8, <1>9 DEF CommandStep

LEMMA StrikeDisturbance ==
  ASSUME TypeInv, FileInv, StrikeInv, Calm, Quiet, Quiet', NEW c \in Cli, Disturbance(c)
  PROVE  StrikeInv'
<1>1. Detach(c)
  BY DEF Disturbance, SaveInterrupt, StatusInterrupt, Kill, RestartFaults, Note, Quiet,
         Undisturbed
<1>2. /\ pc[c] = "attached" /\ pc' = [pc EXCEPT ![c] = "save"]
      /\ SetPid(c, target[c], NoPid) /\ UNCHANGED happened
  BY <1>1 DEF Detach, Goto, Note, Quiet, Undisturbed
<1>3. /\ c \in AtWork /\ AtWork \subseteq {c} /\ Apart(table[c]) /\ TypeOK
      /\ target[c] \in Repo /\ Has(table[c], target[c])
  BY <1>2 DEF FileInv, AtWork, WorkOk, TypeInv, TargetsAreThere, Chosen
<1> DEFINE r == target[c]
           k == Find(table[c], r)
<1>4. proc' \in {proc, Shot(PidOf(c, r))}
  BY <1>1, <1>2 DEF Detach
<1>5. AtWork' = {c} /\ pc'[c] = "save"
  BY <1>2, <1>3, OneWorks DEF PC
<1>6. /\ DOMAIN table'[c] = DOMAIN table[c]
      /\ \A i \in DOMAIN table[c] :
           /\ table'[c][i].rec.repo = table[c][i].rec.repo
           /\ table'[c][i].rec.pid = IF i = k THEN NoPid ELSE table[c][i].rec.pid
  BY <1>2, <1>3, SetPidFacts
<1>7. \A i \in DOMAIN table[c] : i # k => table[c][i].rec.repo # r
  BY <1>3, FindFacts DEF Apart
<1>8. \A i \in DOMAIN table[c] :
        table[c][i].rec.repo # r /\ table[c][i].rec.pid # NoPid
          => Shot(PidOf(c, r))[table[c][i].rec.pid] = table[c][i].rec.repo
  BY <1>2, <1>3, KillsItsOwn DEF Starting
<1> HIDE DEF r, k
<1>. QED BY <1>2, <1>3, <1>4, <1>5, <1>6, <1>7, <1>8, StaysOwned DEF Starting

LEMMA StrikeStep == TypeInv /\ FileInv /\ StrikeInv /\ [Next]_vars => StrikeInv'
<1> SUFFICES ASSUME TypeInv, FileInv, StrikeInv, [Next]_vars, Quiet' PROVE StrikeInv'
  BY DEF StrikeInv
<1>1. Quiet /\ Calm
  BY History DEF Calm, Quiet, Undisturbed
<1>2. ASSUME NEW p \in Pid, Die(p) PROVE StrikeInv'
  BY <1>2 DEF Die, Note, Quiet, Undisturbed
<1>3. CASE UNCHANGED vars
  BY <1>1, <1>3 DEF vars, StrikeInv, local, disk, AtWork, Owns
<1>. QED
  BY <1>1, <1>2, <1>3, StrikeBegin, StrikeCommand, StrikeSave, StrikeDisturbance DEF Next

\* While commands run one at a time, unharmed, no service is run twice and no
\* recorded pid goes stale, what stop, restart, remove and "update --stop" kill
\* is always the service they were asked for, wherever the pids of earlier
\* processes are used again (stop_service.c:144, restart_service.c:108).
THEOREM KillsAreRightful ==
  ASSUME OwnPids
  PROVE  Spec => []KillsOnlyItsOwn
<1>1. Init => StrikeInv
  BY StrikeInit
<1>2. StrikeInv => KillsOnlyItsOwn
  BY DEF StrikeInv, KillsOnlyItsOwn, Quiet
<1>. QED BY TypeInit, TypeStep, FileInit, FileStep, StrikeStep, <1>1, <1>2, PTL DEF Spec
=============================================================================
