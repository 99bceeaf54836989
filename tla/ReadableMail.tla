----------------------------- MODULE ReadableMail -----------------------------
(***************************************************************************)
(* What src/src/cache.rs promises to those who load from one cache root: a  *)
(* change of identity takes the mailbox and every body away in one step,    *)
(* mail of an account appears only by being committed or saved, and only    *)
(* where no other account's mailbox is, and what is lost in between, by a   *)
(* file operation that fails or a process that ends, does not come back.    *)
(* There are no files here, no marker, no failures and no restarts.         *)
(***************************************************************************)
CONSTANTS Account, Message, NoAccount

VARIABLES
    mail,   \* the mailbox a load returns
    texts,  \* accounts whose bodies can be loaded
    owner   \* the account last prepared or committed

vars == <<mail, texts, owner>>

NoMail == [owner |-> NoAccount, inbox |-> {}, baseline |-> FALSE, known |-> {}]

Init ==
    /\ owner \in Account
    /\ mail \in {NoMail} \cup [owner : {owner}, inbox : SUBSET Message, baseline : {FALSE}, known : {{}}]
    /\ texts \subseteq Account

\* The mailbox of nobody else is in the way.
FreeFor(a) == mail.owner \in {a, NoAccount}

Prepare(a) == FreeFor(a) /\ owner' = a /\ UNCHANGED <<mail, texts>>

\* With its watermark, which is the account's own.
CommitInbox(a) ==
    /\ FreeFor(a) /\ owner' = a
    /\ \E ids \in SUBSET Message : mail' = [owner |-> a, inbox |-> ids, baseline |-> TRUE, known |-> ids]
    /\ UNCHANGED texts
CommitFolder(a) ==
    /\ FreeFor(a) /\ owner' = a
    /\ \E inbox \in {mail.inbox, {}} :
         mail' = [owner |-> a, inbox |-> inbox, baseline |-> mail.baseline, known |-> mail.known]
    /\ UNCHANGED texts

SaveBody(a) == texts' = texts \cup {a} /\ UNCHANGED <<mail, owner>>

\* Messages leave the view by a mutation or a shorter retention.
Shorten ==
    /\ \E inbox \in SUBSET mail.inbox : mail' = [mail EXCEPT !.inbox = inbox]
    /\ UNCHANGED <<texts, owner>>
Evict == texts' \in SUBSET texts /\ UNCHANGED <<mail, owner>>

\* Clearing the cache takes the mailbox first, a change of identity both at once.
Clear == mail' = NoMail /\ UNCHANGED <<texts, owner>>
Purge == mail' = NoMail /\ texts' = {} /\ UNCHANGED owner

Next ==
    \/ \E a \in Account : Prepare(a) \/ CommitInbox(a) \/ CommitFolder(a) \/ SaveBody(a)
    \/ Shorten \/ Evict \/ Clear \/ Purge

Spec == Init /\ [][Next]_vars
=============================================================================
