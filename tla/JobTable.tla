------------------------------ MODULE JobTable ------------------------------
(***************************************************************************)
(* What the jobs file promises when mrn is run one command at a time: a    *)
(* table that sessions edit in a draft of their own and commit as a whole, *)
(* or not at all.                                                          *)
(***************************************************************************)
EXTENDS Naturals, Sequences, Sublists

CONSTANTS Job, Name, InitialTables

VARIABLES
    committed,  \* the table the next session opens
    draft,      \* the table of the open session
    open        \* a session is open

tableVars == <<committed, draft, open>>

Clashes(t, j) ==
    \E i \in DOMAIN t : t[i].name = j.name \/ t[i].file = j.file

Init == committed \in InitialTables /\ draft = <<>> /\ open = FALSE

\* Open a session on the committed table.
Open ==
    /\ ~open
    /\ open' = TRUE /\ draft' = committed
    /\ UNCHANGED committed

\* Add a job that clashes with none.
Add(j) ==
    /\ open /\ ~Clashes(draft, j)
    /\ draft' = Append(draft, j)
    /\ UNCHANGED <<committed, open>>

\* Remove the job of that name, keeping the order of the others.
Remove(n) ==
    /\ open
    /\ \E i \in DOMAIN draft : draft[i].name = n
    /\ draft' = Picked(draft, {i \in DOMAIN draft : draft[i].name # n})
    /\ UNCHANGED <<committed, open>>

\* Close the session, and keep the draft or drop it.
Close(keep) ==
    /\ open
    /\ committed' = IF keep THEN draft ELSE committed
    /\ open' = FALSE /\ draft' = <<>>

Next ==
    \/ Open
    \/ \E j \in Job : Add(j)
    \/ \E n \in Name : Remove(n)
    \/ \E keep \in BOOLEAN : Close(keep)

Spec == Init /\ [][Next]_tableVars
=============================================================================
