------------------------------- MODULE MCExec -------------------------------
(* Finite instances of Exec for TLC. *)
EXTENDS Exec

\* Virtual layout: page 1 is a segment, 2 the stack, 3 the crash log and 4 a heap
\* page, under the low table, which also holds the kernel's entries; 5 onwards
\* is the staging area, under a table of its own.
Layout ==
    [v \in 1..8 |-> IF v >= 5 THEN <<"low", "staging">> ELSE <<"low">>]

LowTables  == <<"low">>
OneSegment == <<1>>
OneStack   == <<2>>

GoodImage      == [valid |-> TRUE, whole |-> TRUE]
TruncatedImage == [valid |-> TRUE, whole |-> FALSE]
ForeignImage   == [valid |-> FALSE, whole |-> TRUE]
AllImages      == {GoodImage, TruncatedImage, ForeignImage}

ExecQuota == {<<ExecPid, 2>>}

\* The requests of an instance are used up; nothing more need happen.
Done == requests = MaxRequests /\ UNCHANGED vars

MCSpec == Init /\ [][Next \/ Done]_vars

=============================================================================
