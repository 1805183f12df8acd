------------------------------ MODULE MCTriage ------------------------------
(* TLC instances of Triage.                                                *)
EXTENDS Triage, TLC

CONSTANTS
  RacedSteps,   \* bound: steps of an attendance whose requests overlap
  RacedChoice   \* bound: the options chosen by requests that overlap

\* One request at a time walks the whole menu; once requests have overlapped,
\* a part of it.
Bounded ==
  raced =>
    /\ Len(attendance.steps) <= RacedSteps
    /\ \A r \in Request :
         /\ request[r].message.value \in RacedChoice \union {Nothing}
         /\ request[r].message.text = Nothing

\* Two of the answers are typed with a blank before the option.
MCStrip(c) == CASE c = " 2" -> "2" [] c = " 5" -> "5" [] OTHER -> c

Symmetry == Permutations(Request)
=============================================================================
