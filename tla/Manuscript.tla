------------------------------ MODULE Manuscript ------------------------------
(***************************************************************************)
(* What the tables of a novel promise its author: its chapters are the     *)
(* first ones of the book without a gap, and they change by writing the    *)
(* next one, by editing or rewriting one of them on request, and by        *)
(* deleting a tail.  A text that was written for another place in the book *)
(* or that nobody reviewed is none of the values a chapter may have.       *)
(***************************************************************************)
EXTENDS Naturals

CONSTANT Total      \* the chapters the book is planned to have

Indexes == 0 .. Total - 1

VARIABLES
    text,       \* what every chapter is: none, generated or edited
    written     \* progress.current_chapter

ManuscriptInit ==
    /\ text = [i \in Indexes |-> "none"]
    /\ written = 0

WriteNext ==
    /\ written < Total
    /\ text' = [text EXCEPT ![written] = "generated"]
    /\ written' = written + 1

EditOne(k) ==
    /\ k < written
    /\ text' = [text EXCEPT ![k] = "edited"]
    /\ UNCHANGED written

RewriteOne(k) ==
    /\ k < written
    /\ text' = [text EXCEPT ![k] = "generated"]
    /\ UNCHANGED written

DeleteFrom(k) ==
    /\ k < written
    /\ text' = [i \in Indexes |-> IF i < k THEN text[i] ELSE "none"]
    /\ written' = k

ManuscriptNext ==
    \/ WriteNext
    \/ \E k \in Indexes : EditOne(k) \/ RewriteOne(k) \/ DeleteFrom(k)

ManuscriptSpec == ManuscriptInit /\ [][ManuscriptNext]_<<text, written>>
=============================================================================
