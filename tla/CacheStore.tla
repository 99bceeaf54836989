------------------------------ MODULE CacheStore ------------------------------
(***************************************************************************)
(* The mail cache of cache.rs below one cache root: the mailbox index with  *)
(* its notification watermark, the message bodies, the attachments, and the *)
(* marker of a cleanup after a change of identity.  Closures run one at a   *)
(* time under cache_io, but every file operation of one may fail and the    *)
(* process may end before it; attachment downloads do not take cache_io.    *)
(* A file is written by renaming a complete temporary one.  Folders but the *)
(* Inbox are not told apart, an account's bodies and attachments are        *)
(* there or not, and what the size budgets evict is left open.              *)
(***************************************************************************)
EXTENDS FiniteSets

CONSTANTS
    Account,
    Message,
    NoAccount

ASSUME NoAccountAssumption == NoAccount \notin Account

VARIABLES
    marker,      \* account-cleanup-v1.json exists
    mailbox,     \* mailbox-v3.json: its owner, Inbox view and watermark
    legacy,      \* older generations still on disk: "index", "bodies"
    bodies,      \* accounts with files in bodies-v2
    attachments, \* accounts with files in attachments-v1
    partials,    \* accounts with .part files of an earlier process there
    download,    \* the attachment download that runs
    op,          \* the closure that holds cache_io
    verified,    \* observation: the account last prepared or committed
    sealed,      \* observation: accounts without index or body written since
                 \* a purge of the root became certain
    gone,        \* observation: accounts of which nothing was written since
                 \* a purge of the root was completed
    announced,   \* observation: announced messages that every Inbox window
                 \* committed since contains
    news         \* observation: what the last poll announced

diskVars == <<marker, mailbox, legacy, bodies, attachments, partials>>
purgeVars == <<verified, sealed, gone>>
newsVars == <<announced, news>>
vars == <<diskVars, download, op, purgeVars, newsVars>>

NoMailbox == [owner |-> NoAccount, inbox |-> {}, baseline |-> FALSE, known |-> {}]
Mailboxes == {NoMailbox} \cup
    [owner : Account, inbox : SUBSET Message, baseline : BOOLEAN, known : SUBSET Message]

NoDownload == [account |-> NoAccount, temporary |-> FALSE]
Downloads == {NoDownload} \cup [account : Account, temporary : BOOLEAN]

\* "then" is where a cleanup leads, "failed" the first_error of clear_all_mail;
\* "quiet" is an observation: accounts without a download since the purge began.
Idle == [kind |-> "none", account |-> NoAccount, inbox |-> FALSE, ids |-> {}, news |-> {},
         stage |-> "idle", then |-> "idle", quiet |-> {}, failed |-> FALSE]
Commits == {"replace", "poll"}
Kinds == Commits \cup {"prepare", "prune", "save", "load", "clear", "clearBodies"}
CleanupStages == {"index", "oldIndexes", "bodies", "oldBodies", "attachments", "marker"}
Stages == CleanupStages \cup
    {"check", "mark", "install", "leftovers", "truncate", "body", "reconcile", "done"}
Closures == [kind : Kinds, account : Account \cup {NoAccount}, inbox : BOOLEAN,
             ids : SUBSET Message, news : SUBSET Message, stage : Stages,
             then : {"check", "install", "done"},
             quiet : SUBSET Account, failed : BOOLEAN]

TypeOK ==
    /\ marker \in BOOLEAN
    /\ mailbox \in Mailboxes
    /\ legacy \subseteq {"index", "bodies"}
    /\ bodies \subseteq Account /\ attachments \subseteq Account /\ partials \subseteq Account
    /\ download \in Downloads
    /\ op \in {Idle} \cup Closures
    /\ verified \in Account
    /\ sealed \subseteq Account /\ gone \subseteq Account
    /\ announced \subseteq Message /\ news \subseteq Message

\* A root used by an earlier version: older files may be left, and a mailbox
\* of version 3 has no watermark.
Init ==
    /\ marker = FALSE
    /\ mailbox \in {NoMailbox} \cup
         [owner : Account, inbox : SUBSET Message, baseline : {FALSE}, known : {{}}]
    /\ legacy \in {{}, {"index", "bodies"}}
    /\ bodies \in SUBSET Account /\ attachments = {} /\ partials = {}
    /\ download = NoDownload /\ op = Idle
    /\ verified \in Account
    /\ mailbox.owner \in {verified, NoAccount}
    /\ sealed = {} /\ gone = {} /\ announced = {} /\ news = {}

-----------------------------------------------------------------------------
(* What a load returns.                                                    *)

ReadableMailbox == IF marker THEN NoMailbox ELSE mailbox
ReadableBodies == IF marker THEN {} ELSE bodies

-----------------------------------------------------------------------------
(* Closures taking cache_io.                                               *)

\* The Inbox poll's new_unread_ids: against the mailbox before the commit,
\* and nothing when that has no watermark yet.
\* Mutated: against the cached view instead of the watermark.
NewToTheView(a, unread) ==
    IF mailbox.owner = a /\ mailbox.baseline THEN unread \ mailbox.inbox ELSE {}
NewUnread(a, unread) ==
    IF mailbox.owner = a /\ mailbox.baseline THEN unread \ mailbox.known ELSE {}

Take(kind, stage, a) ==
    /\ op = Idle
    /\ op' = [Idle EXCEPT !.kind = kind, !.stage = stage, !.then = "done",
                          !.account = a, !.quiet = IF kind = "clear" THEN Account ELSE {}]

\* prepare_verified_account and replace_folder_and_save first resume the
\* cleanup that a marker announces, then compare the mailbox's owner.
TakeResuming(kind, a, inbox, ids, fresh) ==
    /\ op = Idle
    /\ op' = [kind |-> kind, account |-> a, inbox |-> inbox, ids |-> ids, news |-> fresh,
              stage |-> IF marker THEN "index" ELSE "check",
              then |-> "check", quiet |-> IF marker THEN Account ELSE {}, failed |-> FALSE]
    /\ sealed' = IF marker THEN Account ELSE sealed
    /\ UNCHANGED <<diskVars, verified, gone, newsVars>>

\* The controller aborts the downloads before an account changes or the
\* bodies are cleared.
AbortDownloads == download' = NoDownload

Prepare(a) == TakeResuming("prepare", a, FALSE, {}, {}) /\ AbortDownloads
ReplaceInbox(a, ids) == TakeResuming("replace", a, TRUE, ids, {}) /\ UNCHANGED download
ReplaceFolder(a) == TakeResuming("replace", a, FALSE, {}, {}) /\ UNCHANGED download
Poll(a, ids, unread) ==
    TakeResuming("poll", a, TRUE, ids, NewUnread(a, unread)) /\ UNCHANGED download

SaveBody(a) ==
    Take("save", "body", a) /\ UNCHANGED <<diskVars, download, purgeVars, newsVars>>

\* A load drops what is not the requested account's on its way.
LoadBody(a) ==
    /\ ~marker
    /\ Take("load", "reconcile", a)
    /\ UNCHANGED <<diskVars, download, purgeVars, newsVars>>

SavePreferences ==
    /\ mailbox # NoMailbox
    /\ Take("prune", "truncate", mailbox.owner)
    /\ UNCHANGED <<diskVars, download, purgeVars, newsVars>>

ClearAllMail ==
    /\ Take("clear", "index", NoAccount) /\ AbortDownloads
    /\ UNCHANGED <<diskVars, purgeVars, newsVars>>

ClearBodies ==
    /\ Take("clearBodies", "bodies", NoAccount) /\ AbortDownloads
    /\ UNCHANGED <<diskVars, purgeVars, newsVars>>

\* A confirmed Archive or Trash, or a reconciliation that found the message
\* outside the Inbox: one write of the index, and of the view only.
Mutate(m) ==
    /\ op = Idle /\ mailbox # NoMailbox
    /\ mailbox' = [mailbox EXCEPT !.inbox = @ \ {m}]
    /\ UNCHANGED <<marker, legacy, bodies, attachments, partials, download, op, purgeVars, newsVars>>

-----------------------------------------------------------------------------
(* Removing stages, of an account cleanup, clear_all_mail and clear_bodies. *)

\* Mutated: the marker goes when the indexes are gone.
AfterMarkerFirst(stage) ==
    CASE stage = "index" -> "oldIndexes"
      [] stage = "oldIndexes" -> "marker"
      [] stage = "bodies" -> "oldBodies"
      [] stage = "oldBodies" -> "attachments"
      [] stage = "attachments" -> IF op.kind = "clearBodies" THEN "done" ELSE "marker"
      [] OTHER -> op.then
After(stage) ==
    CASE stage = "index" -> "oldIndexes"
      [] stage = "oldIndexes" -> "bodies"
      [] stage = "bodies" -> "oldBodies"
      [] stage = "oldBodies" -> "attachments"
      [] stage = "attachments" -> IF op.kind = "clearBodies" THEN "done" ELSE "marker"
      [] OTHER -> op.then

At(stage) == op.stage = stage
Proceed == op' = [op EXCEPT !.stage = After(op.stage)]

RemoveIndex ==
    /\ At("index") /\ Proceed
    /\ mailbox' = NoMailbox /\ announced' = {} /\ news' = {}
    /\ UNCHANGED <<marker, legacy, bodies, attachments, partials, download, purgeVars>>

RemoveOldIndexes ==
    /\ At("oldIndexes") /\ Proceed
    /\ legacy' = legacy \ {"index"}
    /\ UNCHANGED <<marker, mailbox, bodies, attachments, partials, download, purgeVars, newsVars>>

RemoveBodies ==
    /\ At("bodies") /\ Proceed
    /\ bodies' = {}
    /\ UNCHANGED <<marker, mailbox, legacy, attachments, partials, download, purgeVars, newsVars>>

RemoveOldBodies ==
    /\ At("oldBodies") /\ Proceed
    /\ legacy' = legacy \ {"bodies"}
    /\ UNCHANGED <<marker, mailbox, bodies, attachments, partials, download, purgeVars, newsVars>>

\* The directory goes with the temporary files of downloads that still run.
CutOff == [account |-> download.account, temporary |-> FALSE]
RemoveAttachments ==
    /\ At("attachments") /\ Proceed
    /\ attachments' = {} /\ partials' = {}
    /\ download' = CutOff
    /\ UNCHANGED <<marker, mailbox, legacy, bodies, purgeVars, newsVars>>

\* The purge is complete.  clear_all_mail keeps the marker after an error.
\* Mutated: it does not.
RemoveMarkerAnyway ==
    /\ At("marker") /\ Proceed
    /\ marker' = FALSE
    /\ sealed' = Account /\ gone' = op.quiet
    /\ UNCHANGED <<mailbox, legacy, bodies, attachments, partials, download, verified, newsVars>>

RemoveMarker ==
    /\ At("marker") /\ ~op.failed /\ Proceed
    /\ marker' = FALSE
    /\ sealed' = Account /\ gone' = op.quiet
    /\ UNCHANGED <<mailbox, legacy, bodies, attachments, partials, download, verified, newsVars>>

-----------------------------------------------------------------------------
(* Preparing and committing.                                               *)

\* Mutated: the owner is not compared.
CheckNothing ==
    /\ At("check")
    /\ op' = [op EXCEPT !.stage = IF op.kind = "prepare" THEN "done" ELSE "install"]
    /\ UNCHANGED <<diskVars, download, purgeVars, newsVars>>

CheckOwner ==
    /\ At("check")
    /\ op' = [op EXCEPT !.stage =
                IF mailbox.owner \notin {op.account, NoAccount} THEN "mark"
                ELSE IF op.kind = "prepare" THEN "done" ELSE "install"]
    /\ UNCHANGED <<diskVars, download, purgeVars, newsVars>>

\* begin_account_cleanup: from here on no load returns anything.
WriteMarker ==
    /\ At("mark")
    /\ marker' = TRUE /\ sealed' = Account
    /\ op' = [op EXCEPT !.stage = "index", !.quiet = Account,
                        !.then = IF op.kind = "prepare" THEN "done" ELSE "install"]
    /\ UNCHANGED <<mailbox, legacy, bodies, attachments, partials, download, verified, gone, newsVars>>

\* Mutated: an initialized watermark is not advanced.
CommittedOverBaseline(a, ids) ==
    [owner |-> a, inbox |-> ids, baseline |-> TRUE,
     known |-> IF mailbox.baseline THEN mailbox.known ELSE ids]
Committed(a, ids) == [owner |-> a, inbox |-> ids, baseline |-> TRUE, known |-> ids]

\* Another folder's view leaves the Inbox's, unless that was accessed least
\* recently and there are too many views.
InstallFolder ==
    /\ ~op.inbox
    /\ \E inbox \in {mailbox.inbox, {}} :
         mailbox' = [owner |-> op.account, inbox |-> inbox,
                     baseline |-> mailbox.baseline, known |-> mailbox.known]
    /\ UNCHANGED newsVars

InstallInbox ==
    /\ op.inbox
    /\ mailbox' = Committed(op.account, op.ids)
    /\ announced' = (announced \cup news) \cap op.ids /\ news' = {}

Install ==
    /\ At("install")
    /\ InstallInbox \/ InstallFolder
    /\ op' = [op EXCEPT !.stage = "leftovers"]
    /\ verified' = op.account
    /\ sealed' = sealed \ {op.account} /\ gone' = gone \ {op.account}
    /\ UNCHANGED <<marker, legacy, bodies, attachments, partials, download>>

\* Older generations are removed as far as that succeeds.
RemoveLeftovers ==
    /\ At("leftovers")
    /\ legacy' \in SUBSET legacy
    /\ op' = [op EXCEPT !.stage = "reconcile"]
    /\ UNCHANGED <<marker, mailbox, bodies, attachments, partials, download, purgeVars, newsVars>>

Truncate ==
    /\ At("truncate")
    /\ \E inbox \in SUBSET mailbox.inbox : mailbox' = [mailbox EXCEPT !.inbox = inbox]
    /\ op' = [op EXCEPT !.stage = "reconcile"]
    /\ UNCHANGED <<marker, legacy, bodies, attachments, partials, download, purgeVars, newsVars>>

WriteBody ==
    /\ At("body")
    /\ bodies' = bodies \cup {op.account}
    /\ op' = [op EXCEPT !.stage = "reconcile"]
    /\ sealed' = sealed \ {op.account} /\ gone' = gone \ {op.account}
    /\ UNCHANGED <<marker, mailbox, legacy, attachments, partials, download, verified, newsVars>>

\* reconcile_bodies: only files of op.account stay, and the budget may evict
\* any of them but the one just saved.
Reconcile ==
    /\ At("reconcile")
    /\ bodies' \in IF op.kind = "save" THEN {{op.account}} ELSE SUBSET (bodies \cap {op.account})
    /\ op' = [op EXCEPT !.stage = "done"]
    /\ UNCHANGED <<marker, mailbox, legacy, attachments, partials, download, purgeVars, newsVars>>

Return ==
    /\ At("done")
    /\ op' = Idle
    /\ verified' = IF op.kind = "prepare" THEN op.account ELSE verified
    /\ news' = IF op.kind = "poll" THEN op.news ELSE news
    /\ UNCHANGED <<diskVars, download, sealed, gone, announced>>

-----------------------------------------------------------------------------
(* Failures and the end of the process.                                    *)

\* What the step at hand may have done before it stopped.
Partly ==
    /\ bodies' \in IF op.stage \in {"bodies", "reconcile"} THEN SUBSET bodies ELSE {bodies}
    /\ attachments' \in IF At("attachments") THEN SUBSET attachments ELSE {attachments}
    /\ legacy' \in IF op.stage \in {"oldIndexes", "oldBodies", "leftovers"}
                   THEN SUBSET legacy ELSE {legacy}
    /\ UNCHANGED <<marker, mailbox, purgeVars, newsVars>>

\* clear_all_mail goes on and remembers the error, every other operation
\* returns it.
GoesOn == op.kind = "clear" /\ op.stage \in CleanupStages \ {"marker"}

Fail ==
    /\ op # Idle /\ op.stage \notin {"leftovers", "done"} /\ Partly
    /\ partials' \in IF At("attachments") THEN SUBSET partials ELSE {partials}
    /\ download' \in IF At("attachments") THEN {download, CutOff} ELSE {download}
    /\ op' = IF GoesOn THEN [op EXCEPT !.stage = After(op.stage), !.failed = TRUE] ELSE Idle

ClearFails ==
    /\ At("marker") /\ op.failed
    /\ op' = Idle
    /\ UNCHANGED <<diskVars, download, purgeVars, newsVars>>

\* The process ends; the next one removes what downloads left, as far as
\* that succeeds.
Restart ==
    /\ Partly
    /\ partials' \in SUBSET (partials \cup IF download.temporary THEN {download.account} ELSE {})
    /\ download' = NoDownload /\ op' = Idle

-----------------------------------------------------------------------------
(* Attachment downloads, outside cache_io.                                 *)

Written(a) ==
    /\ op' = [op EXCEPT !.quiet = @ \ {a}]
    /\ gone' = gone \ {a}
    /\ UNCHANGED <<marker, mailbox, legacy, bodies, verified, sealed, newsVars>>

StartDownload(a) ==
    /\ download = NoDownload
    /\ download' = [account |-> a, temporary |-> TRUE]
    /\ Written(a) /\ UNCHANGED <<attachments, partials>>

\* The rename fails when the temporary file has been removed.  Afterwards
\* the budget may evict anything else.
FinishDownload ==
    /\ download.temporary
    /\ download' = NoDownload
    /\ attachments' \in {s \cup {download.account} : s \in SUBSET attachments}
    /\ partials' \in SUBSET partials
    /\ Written(download.account)

FailDownload ==
    /\ download # NoDownload
    /\ download' = NoDownload
    /\ UNCHANGED <<diskVars, op, purgeVars, newsVars>>

-----------------------------------------------------------------------------
TakeLane ==
    \/ \E a \in Account : Prepare(a) \/ ReplaceFolder(a) \/ SaveBody(a) \/ LoadBody(a)
    \/ \E a \in Account, ids \in SUBSET Message :
         ReplaceInbox(a, ids) \/ \E unread \in SUBSET ids : Poll(a, ids, unread)
    \/ SavePreferences \/ ClearAllMail \/ ClearBodies
    \/ \E m \in Message : Mutate(m)

Remove ==
    \/ RemoveIndex \/ RemoveOldIndexes \/ RemoveBodies \/ RemoveOldBodies
    \/ RemoveAttachments \/ RemoveMarker

Step ==
    \/ Remove \/ CheckOwner \/ WriteMarker \/ Install \/ RemoveLeftovers \/ Truncate
    \/ WriteBody \/ Reconcile \/ Return

Download == FinishDownload \/ FailDownload \/ \E a \in Account : StartDownload(a)

Next == TakeLane \/ Step \/ Fail \/ ClearFails \/ Restart \/ Download

Spec == Init /\ [][Next]_vars

-----------------------------------------------------------------------------
(* Properties.                                                             *)

\* A change of identity hides the previous account for good: no load returns
\* a mailbox but that of the account last prepared or committed, whichever
\* later write fails and wherever the process ends.
ShownIsVerified == ReadableMailbox.owner \in {verified, NoAccount}

\* From the moment the marker is on disk, an account has no readable mailbox
\* or body until something of it is written again: through failed stages,
\* restarts and resumed cleanups, and after clear_all_mail.
SealedIsUnreadable ==
    \A a \in sealed : ReadableMailbox.owner # a /\ a \notin ReadableBodies

\* A completed purge, by a cleanup or by clear_all_mail, leaves no file of any
\* account: no index or body of any generation, no attachment and no remains
\* of a download, until something of that account is written again.
GoneIsGone ==
    /\ \A a \in gone : /\ mailbox.owner # a
                       /\ a \notin bodies \cup attachments \cup partials
                       /\ download.temporary => download.account # a
    /\ gone # {} => legacy = {}

\* A message the cached Inbox shows is never announced as new, whatever
\* mutations and retention changes did to the view after its commit.
ShownIsKnown == mailbox.baseline => mailbox.inbox \subseteq mailbox.known

\* A message is announced once, as long as no Inbox window without it has been
\* committed.
AnnouncedOnce == news \cap announced = {}

\* To those who load from it the cache root is a mailbox and bodies that a change
\* of identity takes away in one step, although it takes six file operations any
\* of which may fail or be the last of its process: nothing comes back that was
\* not written anew, and nothing is committed over another account's mailbox.
Reader == INSTANCE ReadableMail WITH mail <- ReadableMailbox, texts <- ReadableBodies, owner <- verified
PurgesInOneStep == Reader!Spec

\* worker.rs says of a failed commit that "the prior durable watermark remains
\* authoritative": what it would have announced is still to be announced.
FailedCommitKeepsNews ==
    [][Fail /\ op.kind = "poll" => op.news \cap mailbox.known = {}]_vars
=============================================================================
