-------------------------- MODULE MCAccountLifecycle --------------------------
(* AccountLifecycle on small instances; the bounds are in the configurations. *)
EXTENDS AccountLifecycle, TLC

\* Accounts are interchangeable: sound for the safety runs.
Symmetry == Permutations(Accounts)

\* Symmetry is not sound for liveness.  The accounts on disk at the start are
\* named here instead, and the drafts, which no step creates, are left out.
StoredAccount == CHOOSE a \in Accounts : TRUE
SessionInit ==
    /\ Init
    /\ keyring \in {NoAccount, StoredAccount} /\ mailbox \in {NoAccount, StoredAccount}
    /\ drafts = {}

SessionSpec == SessionInit /\ [][Next]_vars /\ Fairness
=============================================================================
