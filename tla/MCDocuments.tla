---------------------------- MODULE MCDocuments ----------------------------
(***************************************************************************)
(* Instances of Documents for TLC.                                         *)
(***************************************************************************)
EXTENDS Documents, TLC

MCLimit == [receipt |-> 3, invoice |-> 1]

\* Enough digits for every receipt of the run.
MCNoLimit == [receipt |-> 9, invoice |-> 9]

\* Receipts that go beyond their digits; what closes a shift; what an invoice is
\* written for; tickets.
MCMixes == { [kinds |-> {"receipt"}, docs |-> 4],
             [kinds |-> {"receipt", "shift"}, docs |-> 3],
             [kinds |-> {"receipt", "invoice"}, docs |-> 3],
             [kinds |-> {"ticket"}, docs |-> 3] }

\* Six receipts on one day.
MCReceipts == {[kinds |-> {"receipt"}, docs |-> 6]}

\* No operator chooses a slot or a branch.
DocumentSymmetry == Permutations(Requests) \cup Permutations(Branches)
=============================================================================
