------------------------------ MODULE MCMailView ------------------------------
(* MailView with two labels and a query that narrows them. *)
EXTENDS MailView, TLC

MCRows == [l \in Labels |-> IF l = "Inbox" THEN {{1, 2}} ELSE {{2}}]
MCRowsOrNone == [l \in Labels |-> IF l = "Inbox" THEN {{1, 2}} ELSE {{2}, {}}]
MCHits == [q \in Queries |-> IF q = "r" THEN {2} ELSE Messages]

\* The names of the accounts do not matter.
Symmetry == Permutations(Accounts)
=============================================================================
