------------------------------ MODULE ExamPaper ------------------------------
(***************************************************************************)
(* What exam mode promises to the user, without requests, jobs or rows: a  *)
(* sheet of answers that may be changed until it is handed in, that is     *)
(* handed in once, marked exactly as it was handed in, and whose published *)
(* marks are only ever amended item by item, never withdrawn.              *)
(***************************************************************************)
EXTENDS Naturals

CONSTANTS Item, Answer, Blank, Mark, NoMark

VARIABLES
    phase,      \* "open", "handed_in" or "marked"
    sheet,      \* the answer of each item, Blank if it was left out
    marks       \* the published mark of each item, NoMark until published

Init == /\ phase = "open"
        /\ sheet = [i \in Item |-> Blank]
        /\ marks = [i \in Item |-> NoMark]

Write(i, a) == /\ phase = "open"
               /\ sheet' = [sheet EXCEPT ![i] = a]
               /\ UNCHANGED <<phase, marks>>

HandIn == /\ phase = "open"
          /\ phase' = "handed_in"
          /\ UNCHANGED <<sheet, marks>>

\* A blank answer earns nothing.
Publish == /\ phase = "handed_in"
           /\ phase' = "marked"
           /\ marks' \in [Item -> Mark]
           /\ \A i \in Item : sheet[i] = Blank => marks'[i] = 0
           /\ UNCHANGED sheet

\* An objection or a regrade changes the mark of one item.
Amend(i, m) == /\ phase = "marked"
               /\ marks' = [marks EXCEPT ![i] = m]
               /\ UNCHANGED <<phase, sheet>>

Next == \/ HandIn \/ Publish
        \/ \E i \in Item : \/ \E a \in Answer \cup {Blank} : Write(i, a)
                           \/ \E m \in Mark : Amend(i, m)

Spec == Init /\ [][Next]_<<phase, sheet, marks>>
==============================================================================
