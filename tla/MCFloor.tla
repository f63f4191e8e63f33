------------------------------ MODULE MCFloor -------------------------------
(***************************************************************************)
(* Instances of Floor for TLC.                                             *)
(***************************************************************************)
EXTENDS Floor, TLC

\* No request but those of b.
Only(b) == b @@ [k \in Kinds |-> 0]

\* Guests are seated, moved and leave, once beside a merged table; bills, unmerges
\* and staff take a table's mark away; orders are paid, refunded and served while
\* their guests move; the kitchen bumps two dishes while the order is cancelled;
\* bills are answered; requests fail.
MCBudgets ==
    { Only([open |-> 2, close |-> 2, merge |-> 1, move |-> 1, order |-> 1]),
      Only([open |-> 2, close |-> 1, merge |-> 1, unmerge |-> 1, bill |-> 1]),
      Only([open |-> 2, staff |-> 1, move |-> 1, order |-> 1]),
      Only([open |-> 1, move |-> 2, order |-> 2, pay |-> 2, status |-> 1]),
      Only([order |-> 1, bump |-> 3, status |-> 2, dish |-> 1]),
      Only([order |-> 2, bump |-> 1, bill |-> 1, answer |-> 2, complete |-> 1, status |-> 1]),
      Only([open |-> 1, move |-> 1, order |-> 1, bump |-> 2, status |-> 1]),
      Only([open |-> 1, close |-> 1, move |-> 1, order |-> 1, bump |-> 1, fault |-> 1]) }

FloorSymmetry == Permutations(Requests) \cup Permutations(Tables) \cup Permutations(Dishes)
=============================================================================
