--------------------------- MODULE CacheStoreProofs ---------------------------
(***************************************************************************)
(* The safety properties of CacheStore, for any accounts and messages.      *)
(***************************************************************************)
EXTENDS CacheStore, TLAPS

Resuming == Commits \cup {"prepare"}

\* Which closure can be at which stage, and where a cleanup returns to.
Flow ==
    /\ op.kind \in Kinds \ {"clear", "clearBodies"} => op.account \in Account
    /\ op.kind = "save" => op.stage \in {"body", "reconcile", "done"}
    /\ op.kind = "clearBodies" => op.stage \in {"bodies", "oldBodies", "attachments", "done"}
    /\ op.kind = "prepare" => op.stage \in CleanupStages \cup {"check", "mark", "done"}
    /\ op.kind = "poll" => op.inbox
    /\ op.kind \in Commits => op.then \in {"check", "install"}
    /\ op.then = "check" => op.kind \in Resuming
    /\ op.then = "install" => op.kind \in Commits
    /\ op.stage \in {"check", "mark"} => op.kind \in Resuming
    /\ op.stage \in {"install", "leftovers"} => op.kind \in Commits
    /\ op.stage = "body" => op.kind = "save"
    /\ op.stage = "truncate" => op.kind = "prune"

\* What the stages of a purge that has had no failure have removed.
Removed ==
    op.kind # "clearBodies" /\ ~op.failed =>
      /\ op.stage \in CleanupStages \ {"index"} => mailbox = NoMailbox
      /\ op.stage \in CleanupStages \ {"index", "oldIndexes"} => "index" \notin legacy
      /\ op.stage \in {"oldBodies", "attachments", "marker"} => bodies = {}
      /\ op.stage \in {"attachments", "marker"} => legacy = {}
      /\ op.stage = "marker" =>
           \A a \in op.quiet : /\ a \notin attachments \cup partials
                               /\ download.temporary => download.account # a

\* What is on disk, and what a closure found or wrote there.
Stored ==
    /\ op.kind = "prepare" /\ op.stage = "done" => mailbox.owner \in {op.account, NoAccount}
    /\ op.kind = "save" /\ op.stage = "reconcile" => op.account \in bodies
    /\ marker \/ mailbox.owner \in {verified, NoAccount}
    /\ marker \/ \A a \in sealed : mailbox.owner # a /\ a \notin bodies

\* The watermark covers what was announced, and a poll announces nothing else.
Observed ==
    /\ mailbox.baseline => announced \cup news \subseteq mailbox.known
    /\ ~mailbox.baseline => announced \cup news = {}
    /\ op.kind = "poll" => /\ op.news \subseteq op.ids
                           /\ op.news \cap (announced \cup news) = {}
    /\ op.kind = "poll" /\ op.stage \in {"leftovers", "reconcile", "done"} =>
         mailbox.baseline /\ op.ids \subseteq mailbox.known

TypeInv == TypeOK /\ Flow
PurgeInv == TypeInv /\ Removed /\ Stored /\ GoneIsGone
NewsInv == TypeInv /\ Observed /\ ShownIsKnown /\ AnnouncedOnce

-----------------------------------------------------------------------------
(* Types and control flow *)

USE NoAccountAssumption

\* A closure stays well typed when it changes its stage.
LEMMA StageType ==
  ASSUME op \in {Idle} \cup Closures, op.stage \in Stages, NEW s \in Stages
  PROVE  /\ op \in Closures
         /\ [op EXCEPT !.stage = s] \in Closures
         /\ [op EXCEPT !.stage = s, !.failed = TRUE] \in Closures
  <1>1. op \in Closures
    BY DEF Idle, Stages, CleanupStages
  <1> QED  BY <1>1 DEF Closures

LEMMA AfterType ==
  ASSUME op \in Closures, op.stage \in CleanupStages
  PROVE  After(op.stage) \in Stages
  BY DEF After, Closures, Stages, CleanupStages

LEMMA InitType == Init => TypeInv
  <1> SUFFICES ASSUME Init PROVE TypeInv
    OBVIOUS
  <1>1. mailbox \in Mailboxes
    BY DEF Init, Mailboxes
  <1>2. TypeOK
    BY <1>1 DEF Init, TypeOK, Downloads
  <1>3. Flow
    BY DEF Init, Flow, Idle, Kinds, Commits, Resuming, CleanupStages
  <1> QED  BY <1>2, <1>3 DEF TypeInv

LEMMA TakeResumingType ==
  ASSUME TypeInv, NEW kind \in Resuming, NEW a \in Account, NEW inbox \in BOOLEAN,
         NEW ids \in SUBSET Message, NEW fresh \in SUBSET Message,
         kind # "poll" \/ inbox,
         TakeResuming(kind, a, inbox, ids, fresh), download' \in Downloads
  PROVE  TypeInv'
  <1>1. op' \in Closures
    BY DEF TakeResuming, TypeInv, TypeOK, Closures, Kinds, Stages, CleanupStages, Resuming, Commits
  <1>2. TypeOK'
    BY <1>1 DEF TakeResuming, TypeInv, TypeOK, diskVars, newsVars
  <1>3. Flow'
    BY DEF TakeResuming, Flow, Kinds, CleanupStages, Resuming, Commits
  <1> QED  BY <1>2, <1>3 DEF TypeInv

LEMMA TakeType ==
  ASSUME NEW kind \in Kinds, NEW stage \in Stages, NEW a \in Account \cup {NoAccount},
         Take(kind, stage, a)
  PROVE  op' \in Closures
  BY DEF Take, Idle, Closures

LEMMA TakeLaneType == ASSUME TypeInv, TakeLane PROVE TypeInv'
  <1> USE DEF TypeInv
  <1>1. ASSUME NEW a \in Account, Prepare(a) PROVE TypeInv'
    <2>1. TakeResuming("prepare", a, FALSE, {}, {}) /\ download' \in Downloads
      BY <1>1 DEF Prepare, AbortDownloads, Downloads
    <2>2. "prepare" \in Resuming /\ "prepare" # "poll" /\ {} \in SUBSET Message
      BY DEF Resuming
    <2> QED  BY <2>1, <2>2, TakeResumingType
  <1>2. ASSUME NEW a \in Account, ReplaceFolder(a) PROVE TypeInv'
    <2>1. TakeResuming("replace", a, FALSE, {}, {}) /\ download' \in Downloads
      BY <1>2 DEF ReplaceFolder, TypeOK
    <2>2. "replace" \in Resuming /\ "replace" # "poll" /\ {} \in SUBSET Message
      BY DEF Resuming, Commits
    <2> QED  BY <2>1, <2>2, TakeResumingType
  <1>3. ASSUME NEW a \in Account, NEW ids \in SUBSET Message, ReplaceInbox(a, ids) PROVE TypeInv'
    <2>1. TakeResuming("replace", a, TRUE, ids, {}) /\ download' \in Downloads
      BY <1>3 DEF ReplaceInbox, TypeOK
    <2>2. "replace" \in Resuming /\ {} \in SUBSET Message
      BY DEF Resuming, Commits
    <2> QED  BY <2>1, <2>2, TakeResumingType
  <1>4. ASSUME NEW a \in Account, NEW ids \in SUBSET Message, NEW unread \in SUBSET ids,
               Poll(a, ids, unread)
        PROVE  TypeInv'
    <2>1. NewUnread(a, unread) \in SUBSET Message
      BY DEF NewUnread
    <2> QED  BY <1>4, <2>1, TakeResumingType DEF Poll, TypeOK, Resuming, Commits
  <1>5. ASSUME NEW a \in Account, SaveBody(a) PROVE TypeInv'
    <2>1. op' \in Closures
      BY <1>5, TakeType DEF SaveBody, Kinds, Stages
    <2>2. Flow'
      BY <1>5 DEF SaveBody, Take, Idle, Flow, Kinds, Commits, Resuming
    <2> QED  BY <1>5, <2>1, <2>2 DEF SaveBody, TypeOK, diskVars, purgeVars, newsVars
  <1>6. ASSUME NEW a \in Account, LoadBody(a) PROVE TypeInv'
    <2>1. op' \in Closures
      BY <1>6, TakeType DEF LoadBody, Kinds, Stages
    <2>2. Flow'
      BY <1>6 DEF LoadBody, Take, Idle, Flow, Kinds, Commits, Resuming
    <2> QED  BY <1>6, <2>1, <2>2 DEF LoadBody, TypeOK, diskVars, purgeVars, newsVars
  <1>7. CASE SavePreferences
    <2>1. mailbox.owner \in Account
      BY <1>7 DEF SavePreferences, TypeOK, Mailboxes
    <2>2. op' \in Closures
      BY <1>7, <2>1, TakeType DEF SavePreferences, Kinds, Stages
    <2>3. Flow'
      BY <1>7, <2>1 DEF SavePreferences, Take, Idle, Flow, Kinds, Commits, Resuming
    <2> QED  BY <1>7, <2>2, <2>3 DEF SavePreferences, TypeOK, diskVars, purgeVars, newsVars
  <1>8. CASE ClearAllMail
    <2>1. op' \in Closures
      BY <1>8, TakeType DEF ClearAllMail, Kinds, Stages, CleanupStages
    <2>2. Flow'
      BY <1>8 DEF ClearAllMail, Take, Idle, Flow, Kinds, Commits, Resuming
    <2> QED  BY <1>8, <2>1, <2>2 DEF ClearAllMail, AbortDownloads, Downloads, TypeOK, diskVars, purgeVars, newsVars
  <1>9. CASE ClearBodies
    <2>1. op' \in Closures
      BY <1>9, TakeType DEF ClearBodies, Kinds, Stages, CleanupStages
    <2>2. Flow'
      BY <1>9 DEF ClearBodies, Take, Idle, Flow, Kinds, Commits, Resuming
    <2> QED  BY <1>9, <2>1, <2>2 DEF ClearBodies, AbortDownloads, Downloads, TypeOK, diskVars, purgeVars, newsVars
  <1>10. ASSUME NEW m \in Message, Mutate(m) PROVE TypeInv'
    BY <1>10 DEF Mutate, TypeOK, Mailboxes, NoMailbox, Flow, purgeVars, newsVars
  <1> QED  BY <1>1, <1>2, <1>3, <1>4, <1>5, <1>6, <1>7, <1>8, <1>9, <1>10 DEF TakeLane

LEMMA MailboxType ==
  ASSUME mailbox \in Mailboxes
  PROVE  /\ mailbox.inbox \subseteq Message /\ mailbox.known \subseteq Message
         /\ mailbox.baseline \in BOOLEAN
  <1>1. CASE mailbox = NoMailbox
    BY <1>1 DEF NoMailbox
  <1>2. CASE mailbox # NoMailbox
    BY <1>2 DEF Mailboxes
  <1> QED  BY <1>1, <1>2

\* A download whose temporary file has been removed.
LEMMA CutOffType ==
  ASSUME download \in Downloads
  PROVE  CutOff \in Downloads
  <1>1. CASE download = NoDownload
    <2>1. download.account = NoAccount
      BY <1>1 DEF NoDownload
    <2>2. CutOff = NoDownload
      BY <2>1 DEF CutOff, NoDownload
    <2> QED  BY <2>2 DEF Downloads
  <1>2. CASE download \in [account : Account, temporary : BOOLEAN]
    BY <1>2 DEF CutOff, Downloads
  <1> QED  BY <1>1, <1>2 DEF Downloads

\* A purge proceeds from stage to stage and then to where it was begun.
LEMMA ProceedType ==
  ASSUME op \in {Idle} \cup Closures, Flow, op.stage \in CleanupStages, Proceed
  PROVE  op' \in Closures /\ Flow'
  <1>1. op \in Closures
    BY DEF Idle, CleanupStages
  <1>2. After(op.stage) \in Stages
    BY <1>1, AfterType
  <1>3. op' = [op EXCEPT !.stage = After(op.stage)]
    BY DEF Proceed
  <1>4. op' \in Closures
    BY <1>1, <1>2, <1>3, StageType DEF Stages
  <1>5. /\ op'.kind = op.kind /\ op'.account = op.account /\ op'.inbox = op.inbox
        /\ op'.then = op.then /\ op'.stage = After(op.stage)
    BY <1>1, <1>3 DEF Closures
  <1>6. op.then \in {"check", "install", "done"} /\ op.kind \in Kinds
    BY <1>1 DEF Closures
  <1> QED  BY <1>4, <1>5, <1>6 DEF Flow, After, CleanupStages, Kinds, Resuming, Commits

LEMMA RemoveType == ASSUME TypeInv, Remove PROVE TypeInv'
  <1> USE DEF TypeInv
  <1>1. op.stage \in CleanupStages /\ Proceed
    BY DEF Remove, RemoveIndex, RemoveOldIndexes, RemoveBodies, RemoveOldBodies,
           RemoveAttachments, RemoveMarker, At, CleanupStages
  <1>2. op' \in Closures /\ Flow'
    BY <1>1, ProceedType DEF TypeOK
  <1>3. op \in Closures
    BY <1>1 DEF TypeOK, Idle, CleanupStages
  <1>4. op.quiet \subseteq Account
    BY <1>3 DEF Closures
  <1>5. CASE RemoveIndex
    BY <1>2, <1>5 DEF RemoveIndex, TypeOK, Mailboxes, purgeVars
  <1>6. CASE RemoveOldIndexes
    BY <1>2, <1>6 DEF RemoveOldIndexes, TypeOK, purgeVars, newsVars
  <1>7. CASE RemoveBodies
    BY <1>2, <1>7 DEF RemoveBodies, TypeOK, purgeVars, newsVars
  <1>8. CASE RemoveOldBodies
    BY <1>2, <1>8 DEF RemoveOldBodies, TypeOK, purgeVars, newsVars
  <1>9. CASE RemoveAttachments
    <2>1. download' \in Downloads
      BY <1>9, CutOffType DEF RemoveAttachments, TypeOK
    <2> QED  BY <1>2, <1>9, <2>1 DEF RemoveAttachments, TypeOK, purgeVars, newsVars
  <1>10. CASE RemoveMarker
    BY <1>2, <1>4, <1>10 DEF RemoveMarker, TypeOK, newsVars
  <1> QED  BY <1>5, <1>6, <1>7, <1>8, <1>9, <1>10 DEF Remove

LEMMA StepType == ASSUME TypeInv, Step PROVE TypeInv'
  <1> USE DEF TypeInv
  <1>1. op \in Closures \/ op.stage = "idle"
    BY DEF TypeOK, Idle
  <1>2. CASE Remove
    BY <1>2, RemoveType
  <1>3. CASE CheckOwner
    <2>1. op \in Closures /\ op.kind \in Resuming
      BY <1>1, <1>3 DEF CheckOwner, At, Flow
    <2>2. \E s \in {"mark", "done", "install"} :
            /\ op' = [op EXCEPT !.stage = s]
            /\ op.kind = "prepare" => s # "install"
            /\ op.kind # "prepare" => s # "done"
      BY <1>3 DEF CheckOwner
    <2>3. op' \in Closures /\ Flow'
      BY <2>1, <2>2, <1>3 DEF CheckOwner, At, Closures, Stages, Flow, Resuming, Commits, Kinds, CleanupStages
    <2> QED  BY <1>3, <2>3 DEF CheckOwner, TypeOK, diskVars, purgeVars, newsVars
  <1>4. CASE WriteMarker
    <2>1. op \in Closures /\ op.kind \in Resuming
      BY <1>1, <1>4 DEF WriteMarker, At, Flow
    <2>2. op' \in Closures /\ Flow'
      BY <2>1, <1>4 DEF WriteMarker, At, Closures, Stages, Flow, Resuming, Commits, Kinds, CleanupStages
    <2> QED  BY <1>4, <2>2 DEF WriteMarker, TypeOK, newsVars
  <1>5. CASE Install
    <2>1. op \in Closures /\ op.kind \in Commits /\ op.account \in Account
      BY <1>1, <1>5 DEF Install, At, Flow, Commits, Kinds
    <2>2. op' \in Closures /\ Flow'
      BY <2>1, <1>5 DEF Install, At, Closures, Stages, Flow, Resuming, Commits, Kinds, CleanupStages
    <2>3. op.ids \subseteq Message
      BY <2>1 DEF Closures
    <2>4. CASE InstallInbox
      BY <1>5, <2>1, <2>2, <2>3, <2>4 DEF Install, InstallInbox, Committed, TypeOK, Mailboxes
    <2>5. CASE InstallFolder
      <3>1. mailbox' \in Mailboxes
        <4>1. /\ mailbox.inbox \subseteq Message /\ mailbox.known \subseteq Message
              /\ mailbox.baseline \in BOOLEAN
          BY MailboxType DEF TypeOK
        <4>2. PICK inbox \in {mailbox.inbox, {}} :
                mailbox' = [owner |-> op.account, inbox |-> inbox,
                            baseline |-> mailbox.baseline, known |-> mailbox.known]
          BY <2>5 DEF InstallFolder
        <4>3. inbox \in SUBSET Message /\ mailbox.known \in SUBSET Message
          BY <4>1
        <4> QED  BY <2>1, <4>1, <4>2, <4>3 DEF Mailboxes
      <3> QED  BY <1>5, <2>1, <2>2, <2>5, <3>1 DEF Install, InstallFolder, TypeOK, newsVars
    <2> QED  BY <1>5, <2>4, <2>5 DEF Install
  <1>6. CASE RemoveLeftovers
    <2>1. op \in Closures /\ op.kind \in Commits
      BY <1>1, <1>6 DEF RemoveLeftovers, At, Flow
    <2>2. op' \in Closures /\ Flow'
      BY <2>1, <1>6 DEF RemoveLeftovers, At, Closures, Stages, Flow, Resuming, Commits, Kinds, CleanupStages
    <2> QED  BY <1>6, <2>2 DEF RemoveLeftovers, TypeOK, purgeVars, newsVars
  <1>7. CASE Truncate
    <2>1. op \in Closures /\ op.kind = "prune"
      BY <1>1, <1>7 DEF Truncate, At, Flow
    <2>2. op' \in Closures /\ Flow'
      BY <2>1, <1>7 DEF Truncate, At, Closures, Stages, Flow, Resuming, Commits, Kinds, CleanupStages
    <2>3. mailbox' \in Mailboxes
      <3>1. PICK inbox \in SUBSET mailbox.inbox : mailbox' = [mailbox EXCEPT !.inbox = inbox]
        BY <1>7 DEF Truncate
      <3>2. CASE mailbox = NoMailbox
        <4>1. inbox = {}
          BY <3>1, <3>2 DEF NoMailbox
        <4>2. mailbox' = NoMailbox
          BY <3>1, <3>2, <4>1 DEF NoMailbox
        <4> QED  BY <4>2 DEF Mailboxes
      <3>3. CASE mailbox # NoMailbox
        BY <3>1, <3>3 DEF TypeOK, Mailboxes
      <3> QED  BY <3>2, <3>3
    <2> QED  BY <1>7, <2>2, <2>3 DEF Truncate, TypeOK, purgeVars, newsVars
  <1>8. CASE WriteBody
    <2>1. op \in Closures /\ op.kind = "save" /\ op.account \in Account
      BY <1>1, <1>8 DEF WriteBody, At, Flow, Kinds, Commits
    <2>2. op' \in Closures /\ Flow'
      BY <2>1, <1>8 DEF WriteBody, At, Closures, Stages, Flow, Resuming, Commits, Kinds, CleanupStages
    <2> QED  BY <1>8, <2>1, <2>2 DEF WriteBody, TypeOK, newsVars
  <1>9. CASE Reconcile
    <2>1. op \in Closures
      BY <1>1, <1>9 DEF Reconcile, At
    <2>2. op' \in Closures /\ Flow'
      BY <2>1, <1>9 DEF Reconcile, At, Closures, Stages, Flow, Resuming, Commits, Kinds, CleanupStages
    <2>3. bodies' \subseteq Account
      BY <1>9, <2>1 DEF Reconcile, Flow, TypeOK, Kinds, Commits
    <2> QED  BY <1>9, <2>2, <2>3 DEF Reconcile, TypeOK, purgeVars, newsVars
  <1>10. CASE Return
    <2>1. op \in Closures
      BY <1>1, <1>10 DEF Return, At
    <2>2. op.news \subseteq Message /\ (op.kind = "prepare" => op.account \in Account)
      BY <2>1 DEF Closures, Flow, Kinds, Commits
    <2>3. op' = Idle
      BY <1>10 DEF Return
    <2>4. Flow'
      BY <2>3 DEF Flow, Idle, Kinds, Commits, Resuming, CleanupStages
    <2> QED  BY <1>10, <2>2, <2>3, <2>4 DEF Return, TypeOK, diskVars
  <1> QED  BY <1>2, <1>3, <1>4, <1>5, <1>6, <1>7, <1>8, <1>9, <1>10 DEF Step

LEMMA IdleFlow == ASSUME op' = Idle PROVE Flow'
  BY DEF Flow, Idle, Kinds, Commits, Resuming, CleanupStages

LEMMA PartlyType ==
  ASSUME TypeOK, Partly
  PROVE  /\ marker' \in BOOLEAN /\ mailbox' \in Mailboxes
         /\ legacy' \subseteq {"index", "bodies"}
         /\ bodies' \subseteq Account /\ attachments' \subseteq Account
         /\ verified' \in Account /\ sealed' \subseteq Account /\ gone' \subseteq Account
         /\ announced' \subseteq Message /\ news' \subseteq Message
  BY DEF TypeOK, Partly, purgeVars, newsVars

LEMMA FailType == ASSUME TypeInv, Fail PROVE TypeInv'
  <1> USE DEF TypeInv
  <1>1. op \in Closures
    BY DEF Fail, TypeOK
  <1>2. op' \in {Idle} \cup Closures /\ Flow'
    <2>1. CASE GoesOn
      <3>1. After(op.stage) \in Stages /\ op.stage \in Stages
        BY <1>1, <2>1, AfterType DEF GoesOn, Stages
      <3>2. op' = [op EXCEPT !.stage = After(op.stage), !.failed = TRUE]
        BY <2>1 DEF Fail
      <3>3. op' \in Closures
        BY <1>1, <3>1, <3>2, StageType
      <3>4. op.kind = "clear" /\ After(op.stage) \in CleanupStages
        BY <2>1 DEF GoesOn, After, CleanupStages
      <3>5. op'.kind = op.kind /\ op'.then = op.then /\ op'.stage = After(op.stage)
        BY <1>1, <3>2 DEF Closures
      <3>6. op.then \in {"check", "install", "done"}
        BY <1>1 DEF Closures
      <3> QED  BY <3>3, <3>4, <3>5, <3>6 DEF Flow, CleanupStages, Kinds, Commits, Resuming
    <2>2. CASE ~GoesOn
      BY <2>2, IdleFlow DEF Fail
    <2> QED  BY <2>1, <2>2
  <1>3. partials' \subseteq Account
    BY DEF Fail, TypeOK
  <1>4. download' \in Downloads
    BY CutOffType DEF Fail, TypeOK
  <1> QED  BY <1>2, <1>3, <1>4, PartlyType DEF Fail, TypeOK

LEMMA RestartType == ASSUME TypeInv, Restart PROVE TypeInv'
  <1>1. partials' \subseteq Account
    BY DEF Restart, TypeInv, TypeOK, Downloads, NoDownload
  <1>2. Flow' /\ op' = Idle
    BY IdleFlow DEF Restart
  <1> QED  BY <1>1, <1>2, PartlyType DEF Restart, TypeInv, TypeOK, Downloads

\* A download changes nothing of a closure but whose files are still untouched.
LEMMA WrittenType ==
  ASSUME TypeInv, NEW a \in Account, Written(a)
  PROVE  op' \in {Idle} \cup Closures /\ Flow'
  <1>1. CASE op = Idle
    <2>1. op' = Idle
      BY <1>1 DEF Written, Idle
    <2> QED  BY <2>1, IdleFlow
  <1>2. CASE op \in Closures
    <2>1. op' \in Closures
      BY <1>2 DEF Written, Closures
    <2>2. /\ op'.kind = op.kind /\ op'.account = op.account /\ op'.inbox = op.inbox
          /\ op'.then = op.then /\ op'.stage = op.stage
      BY <1>2 DEF Written, Closures
    <2> QED  BY <2>1, <2>2 DEF TypeInv, Flow
  <1> QED  BY <1>1, <1>2 DEF TypeInv, TypeOK

LEMMA DownloadType == ASSUME TypeInv, Download PROVE TypeInv'
  <1> USE DEF TypeInv
  <1>1. ASSUME NEW a \in Account, StartDownload(a) PROVE TypeInv'
    BY <1>1, WrittenType DEF StartDownload, Written, TypeOK, Downloads, newsVars
  <1>2. CASE FinishDownload
    <2>1. download.account \in Account
      BY <1>2 DEF FinishDownload, TypeOK, Downloads, NoDownload
    <2> QED  BY <1>2, <2>1, WrittenType DEF FinishDownload, Written, TypeOK, Downloads, newsVars
  <1>3. CASE FailDownload
    BY <1>3 DEF FailDownload, TypeOK, Downloads, Flow, diskVars, purgeVars, newsVars
  <1> QED  BY <1>1, <1>2, <1>3 DEF Download

LEMMA NextType == ASSUME TypeInv, [Next]_vars PROVE TypeInv'
  <1>1. CASE ClearFails
    BY <1>1, IdleFlow DEF ClearFails, TypeInv, TypeOK, diskVars, purgeVars, newsVars
  <1>2. CASE UNCHANGED vars
    BY <1>2 DEF TypeInv, TypeOK, Flow, vars, diskVars, purgeVars, newsVars
  <1> QED  BY <1>1, <1>2, TakeLaneType, StepType, FailType, RestartType, DownloadType DEF Next

-----------------------------------------------------------------------------
(* A purge hides, and then removes, everything                             *)

PurgeParts == Removed /\ Stored /\ GoneIsGone

\* While no closure runs, only what is on disk counts.
LEMMA IdlePurge ==
  ASSUME op' = Idle, GoneIsGone',
         marker' \/ mailbox'.owner \in {verified', NoAccount},
         marker' \/ \A a \in sealed' : mailbox'.owner # a /\ a \notin bodies'
  PROVE  PurgeParts'
  BY DEF PurgeParts, Removed, Stored, Idle, CleanupStages

LEMMA TakePurge ==
  ASSUME PurgeInv, NEW kind \in Kinds, NEW stage \in Stages, NEW a \in Account \cup {NoAccount},
         Take(kind, stage, a), stage \notin CleanupStages \ {"index"} \/ kind = "clearBodies",
         kind # "save" \/ stage # "reconcile", kind # "prepare",
         download' \in {download, NoDownload}, UNCHANGED <<diskVars, purgeVars>>
  PROVE  PurgeParts'
  <1>1. op'.kind = kind /\ op'.stage = stage
    BY DEF Take, Idle
  <1>2. Removed'
    BY <1>1 DEF Removed, CleanupStages
  <1>3. Stored'
    BY <1>1 DEF PurgeInv, Stored, diskVars, purgeVars
  <1>4. GoneIsGone'
    BY DEF PurgeInv, GoneIsGone, NoDownload, diskVars, purgeVars
  <1> QED  BY <1>2, <1>3, <1>4 DEF PurgeParts

LEMMA TakeResumingPurge ==
  ASSUME PurgeInv, NEW kind \in Resuming, NEW a \in Account, NEW inbox, NEW ids, NEW fresh,
         TakeResuming(kind, a, inbox, ids, fresh), download' \in {download, NoDownload}
  PROVE  PurgeParts'
  <1>1. op'.kind = kind /\ op'.stage \in {"index", "check"}
    BY DEF TakeResuming
  <1>2. kind # "save"
    BY DEF Resuming, Commits
  <1>3. Removed'
    BY <1>1 DEF Removed, CleanupStages
  <1>4. Stored'
    BY <1>1, <1>2 DEF PurgeInv, Stored, TakeResuming, diskVars
  <1>5. GoneIsGone'
    BY DEF PurgeInv, GoneIsGone, TakeResuming, NoDownload, diskVars
  <1> QED  BY <1>3, <1>4, <1>5 DEF PurgeParts

LEMMA TakeLanePurge == ASSUME PurgeInv, TakeLane PROVE PurgeParts'
  <1> USE DEF Resuming, Commits, AbortDownloads
  <1>1. ASSUME NEW a \in Account, Prepare(a) PROVE PurgeParts'
    BY <1>1, TakeResumingPurge DEF Prepare
  <1>2. ASSUME NEW a \in Account, ReplaceFolder(a) PROVE PurgeParts'
    BY <1>2, TakeResumingPurge DEF ReplaceFolder
  <1>3. ASSUME NEW a \in Account, NEW ids \in SUBSET Message, ReplaceInbox(a, ids) PROVE PurgeParts'
    BY <1>3, TakeResumingPurge DEF ReplaceInbox
  <1>4. ASSUME NEW a \in Account, NEW ids \in SUBSET Message, NEW unread \in SUBSET ids,
               Poll(a, ids, unread)
        PROVE  PurgeParts'
    BY <1>4, TakeResumingPurge DEF Poll
  <1> USE DEF Kinds, Stages, CleanupStages
  <1>5. ASSUME NEW a \in Account, SaveBody(a) PROVE PurgeParts'
    BY <1>5, TakePurge DEF SaveBody
  <1>6. ASSUME NEW a \in Account, LoadBody(a) PROVE PurgeParts'
    BY <1>6, TakePurge DEF LoadBody
  <1>7. CASE SavePreferences
    <2>1. mailbox.owner \in Account \cup {NoAccount}
      BY DEF PurgeInv, TypeInv, TypeOK, Mailboxes, NoMailbox
    <2> QED  BY <1>7, <2>1, TakePurge DEF SavePreferences
  <1>8. CASE ClearAllMail
    BY <1>8, TakePurge DEF ClearAllMail
  <1>9. CASE ClearBodies
    BY <1>9, TakePurge DEF ClearBodies
  <1>10. ASSUME NEW m \in Message, Mutate(m) PROVE PurgeParts'
    <2>1. mailbox'.owner = mailbox.owner /\ op' = Idle
      BY <1>10 DEF Mutate, PurgeInv, TypeInv, TypeOK, Mailboxes
    <2> QED  BY <1>10, <2>1, IdlePurge DEF Mutate, PurgeInv, Stored, GoneIsGone, purgeVars
  <1> QED  BY <1>1, <1>2, <1>3, <1>4, <1>5, <1>6, <1>7, <1>8, <1>9, <1>10 DEF TakeLane

\* A removing stage is followed by the next; only the last can return.
LEMMA ProceedPurge ==
  ASSUME TypeInv, op.stage \in CleanupStages, Proceed
  PROVE  /\ op \in Closures
         /\ op'.kind = op.kind /\ op'.account = op.account /\ op'.quiet = op.quiet
         /\ op'.failed = op.failed /\ op'.stage = After(op.stage)
         /\ op.kind # "save" /\ (op.stage = "marker" => op.kind # "clearBodies")
         /\ op.then \notin CleanupStages
  <1>1. op \in Closures
    BY DEF TypeInv, TypeOK, Idle, CleanupStages
  <1>2. op.stage \in Stages /\ After(op.stage) \in Stages
    BY <1>1, AfterType DEF Stages
  <1> QED  BY <1>1, <1>2 DEF Proceed, Closures, TypeInv, Flow, CleanupStages

LEMMA RemovePurge == ASSUME PurgeInv, Remove PROVE PurgeParts'
  <1> USE DEF PurgeInv
  <1>1. op.stage \in CleanupStages /\ Proceed
    BY DEF Remove, RemoveIndex, RemoveOldIndexes, RemoveBodies, RemoveOldBodies,
           RemoveAttachments, RemoveMarker, At, CleanupStages
  <1>2. /\ op \in Closures
        /\ op'.kind = op.kind /\ op'.account = op.account /\ op'.quiet = op.quiet
        /\ op'.failed = op.failed /\ op'.stage = After(op.stage)
        /\ op.kind # "save" /\ (op.stage = "marker" => op.kind # "clearBodies")
        /\ op.then \notin CleanupStages
    BY <1>1, ProceedPurge
  <1>3. op.kind = "prepare" /\ op.stage # "marker" => After(op.stage) # "done"
    BY <1>1 DEF After, CleanupStages
  <1>4. CASE RemoveIndex
    <2>1. Removed'
      BY <1>2, <1>4 DEF RemoveIndex, At, After, Removed, CleanupStages
    <2>2. mailbox'.owner = NoAccount /\ op'.stage = "oldIndexes"
      BY <1>2, <1>4 DEF RemoveIndex, At, After, NoMailbox
    <2>3. sealed' \subseteq Account
      BY <1>4 DEF RemoveIndex, TypeInv, TypeOK, purgeVars
    <2>4. Stored'
      BY <1>4, <2>2, <2>3 DEF RemoveIndex, Stored, purgeVars
    <2>5. GoneIsGone'
      BY <1>4, <2>2 DEF RemoveIndex, TypeInv, TypeOK, GoneIsGone, purgeVars
    <2> QED  BY <2>1, <2>4, <2>5 DEF PurgeParts
  <1>5. CASE RemoveOldIndexes
    <2>1. Removed'
      BY <1>2, <1>5 DEF RemoveOldIndexes, At, After, Removed, CleanupStages
    <2>2. Stored'
      BY <1>2, <1>3, <1>5 DEF RemoveOldIndexes, At, After, Stored, purgeVars
    <2>3. GoneIsGone'
      BY <1>5 DEF RemoveOldIndexes, GoneIsGone, purgeVars
    <2> QED  BY <2>1, <2>2, <2>3 DEF PurgeParts
  <1>6. CASE RemoveBodies
    <2>1. Removed'
      BY <1>2, <1>6 DEF RemoveBodies, At, After, Removed, CleanupStages
    <2>2. Stored'
      BY <1>2, <1>3, <1>6 DEF RemoveBodies, At, After, Stored, purgeVars
    <2>3. GoneIsGone'
      BY <1>6 DEF RemoveBodies, GoneIsGone, purgeVars
    <2> QED  BY <2>1, <2>2, <2>3 DEF PurgeParts
  <1>7. CASE RemoveOldBodies
    <2>1. Removed'
      BY <1>2, <1>7 DEF RemoveOldBodies, At, After, Removed, CleanupStages, TypeInv, TypeOK
    <2>2. Stored'
      BY <1>2, <1>3, <1>7 DEF RemoveOldBodies, At, After, Stored, purgeVars
    <2>3. GoneIsGone'
      BY <1>7 DEF RemoveOldBodies, GoneIsGone, purgeVars
    <2> QED  BY <2>1, <2>2, <2>3 DEF PurgeParts
  <1>8. CASE RemoveAttachments
    <2>1. Removed'
      BY <1>2, <1>8 DEF RemoveAttachments, At, After, Removed, CutOff, CleanupStages
    <2>2. Stored'
      BY <1>2, <1>3, <1>8 DEF RemoveAttachments, At, After, Stored, purgeVars
    <2>3. GoneIsGone'
      BY <1>8 DEF RemoveAttachments, GoneIsGone, CutOff, purgeVars
    <2> QED  BY <2>1, <2>2, <2>3 DEF PurgeParts
  <1>9. CASE RemoveMarker
    <2>1. op.stage = "marker" /\ op.kind # "clearBodies" /\ ~op.failed /\ op.quiet \subseteq Account
      BY <1>2, <1>9 DEF RemoveMarker, At, Closures
    <2>2. /\ mailbox = NoMailbox /\ bodies = {} /\ legacy = {}
          /\ \A a \in op.quiet : /\ a \notin attachments \cup partials
                                 /\ download.temporary => download.account # a
      BY <2>1 DEF Removed, CleanupStages
    <2>3. op'.stage \notin CleanupStages
      BY <1>2, <2>1 DEF After
    <2>4. Removed'
      BY <2>3 DEF Removed, CleanupStages
    <2>5. mailbox'.owner = NoAccount /\ bodies' = {}
      BY <1>9, <2>2 DEF RemoveMarker, NoMailbox
    <2>6. Stored'
      BY <1>2, <1>9, <2>5 DEF RemoveMarker, Stored
    <2>7. GoneIsGone'
      BY <1>9, <2>1, <2>2, <2>5 DEF RemoveMarker, GoneIsGone
    <2> QED  BY <2>4, <2>6, <2>7 DEF PurgeParts
  <1> QED  BY <1>4, <1>5, <1>6, <1>7, <1>8, <1>9 DEF Remove

LEMMA StepPurge == ASSUME PurgeInv, Step PROVE PurgeParts'
  <1> USE DEF PurgeInv
  <1>1. op \in Closures \/ op.stage = "idle"
    BY DEF TypeInv, TypeOK, Idle
  <1>2. CASE Remove
    BY <1>2, RemovePurge
  <1>3. CASE CheckOwner
    <2>1. op \in Closures /\ op.kind \in Resuming
      BY <1>1, <1>3 DEF CheckOwner, At, TypeInv, Flow
    <2>2. op'.stage \in {"mark", "done", "install"} /\ op'.kind = op.kind /\ op'.account = op.account
      BY <1>3, <2>1 DEF CheckOwner, Closures
    <2>3. op'.stage = "done" => mailbox.owner \in {op.account, NoAccount}
      <3>1. CASE mailbox.owner \notin {op.account, NoAccount}
        <4>1. op' = [op EXCEPT !.stage = "mark"]
          BY <1>3, <3>1 DEF CheckOwner
        <4> QED  BY <2>1, <4>1 DEF Closures
      <3> QED  BY <3>1
    <2>4. Removed'
      BY <2>2 DEF Removed, CleanupStages
    <2>5. Stored'
      BY <1>3, <2>1, <2>2, <2>3 DEF CheckOwner, Stored, Resuming, Commits, diskVars, purgeVars
    <2>6. GoneIsGone'
      BY <1>3 DEF CheckOwner, GoneIsGone, diskVars, purgeVars
    <2> QED  BY <2>4, <2>5, <2>6 DEF PurgeParts
  <1>4. CASE WriteMarker
    <2>1. op \in Closures
      BY <1>1, <1>4 DEF WriteMarker, At
    <2>2. op'.stage = "index"
      BY <1>4, <2>1 DEF WriteMarker, Closures
    <2>3. Removed'
      BY <2>2 DEF Removed, CleanupStages
    <2>4. Stored'
      BY <1>4, <2>2 DEF WriteMarker, Stored
    <2>5. GoneIsGone'
      BY <1>4 DEF WriteMarker, GoneIsGone
    <2> QED  BY <2>3, <2>4, <2>5 DEF PurgeParts
  <1>5. CASE Install
    <2>1. op \in Closures /\ op.kind \in Commits
      BY <1>1, <1>5 DEF Install, At, TypeInv, Flow
    <2>2. op'.stage = "leftovers" /\ op'.kind = op.kind
      BY <1>5, <2>1 DEF Install, Closures
    <2>3. mailbox'.owner = op.account
      BY <1>5 DEF Install, InstallInbox, InstallFolder, Committed
    <2>4. Removed'
      BY <2>2 DEF Removed, CleanupStages
    <2>5. Stored'
      BY <1>5, <2>2, <2>3 DEF Install, Stored
    <2>6. GoneIsGone'
      BY <1>5, <2>3 DEF Install, GoneIsGone
    <2> QED  BY <2>4, <2>5, <2>6 DEF PurgeParts
  <1>6. CASE RemoveLeftovers
    <2>1. op \in Closures /\ op.kind \in Commits
      BY <1>1, <1>6 DEF RemoveLeftovers, At, TypeInv, Flow
    <2>2. op'.stage = "reconcile" /\ op'.kind = op.kind
      BY <1>6, <2>1 DEF RemoveLeftovers, Closures
    <2>3. Removed'
      BY <2>2 DEF Removed, CleanupStages
    <2>4. Stored'
      BY <1>6, <2>1, <2>2 DEF RemoveLeftovers, Stored, Commits, purgeVars
    <2>5. GoneIsGone'
      BY <1>6 DEF RemoveLeftovers, GoneIsGone, purgeVars
    <2> QED  BY <2>3, <2>4, <2>5 DEF PurgeParts
  <1>7. CASE Truncate
    <2>1. op \in Closures /\ op.kind = "prune"
      BY <1>1, <1>7 DEF Truncate, At, TypeInv, Flow
    <2>2. op'.stage = "reconcile" /\ op'.kind = op.kind
      BY <1>7, <2>1 DEF Truncate, Closures
    <2>3. mailbox'.owner = mailbox.owner
      <3>1. CASE mailbox = NoMailbox
        BY <1>7, <3>1 DEF Truncate, NoMailbox
      <3>2. CASE mailbox # NoMailbox
        BY <1>7, <3>2 DEF Truncate, TypeInv, TypeOK, Mailboxes
      <3> QED  BY <3>1, <3>2
    <2>4. Removed'
      BY <2>2 DEF Removed, CleanupStages
    <2>5. Stored'
      BY <1>7, <2>1, <2>2, <2>3 DEF Truncate, Stored, purgeVars
    <2>6. GoneIsGone'
      BY <1>7, <2>3 DEF Truncate, GoneIsGone, purgeVars
    <2> QED  BY <2>4, <2>5, <2>6 DEF PurgeParts
  <1>8. CASE WriteBody
    <2>1. op \in Closures
      BY <1>1, <1>8 DEF WriteBody, At
    <2>2. op'.stage = "reconcile" /\ op'.kind = op.kind /\ op'.account = op.account
      BY <1>8, <2>1 DEF WriteBody, Closures
    <2>3. Removed'
      BY <2>2 DEF Removed, CleanupStages
    <2>4. Stored'
      BY <1>8, <2>2 DEF WriteBody, Stored
    <2>5. GoneIsGone'
      BY <1>8 DEF WriteBody, GoneIsGone
    <2> QED  BY <2>3, <2>4, <2>5 DEF PurgeParts
  <1>9. CASE Reconcile
    <2>1. op \in Closures
      BY <1>1, <1>9 DEF Reconcile, At
    <2>2. op'.stage = "done" /\ op'.kind = op.kind
      BY <1>9, <2>1 DEF Reconcile, Closures
    <2>3. op.kind # "prepare"
      BY <1>9 DEF Reconcile, At, TypeInv, Flow, CleanupStages
    <2>4. bodies' \subseteq bodies
      BY <1>9 DEF Reconcile, At, Stored
    <2>5. Removed'
      BY <2>2 DEF Removed, CleanupStages
    <2>6. Stored'
      BY <1>9, <2>2, <2>3, <2>4 DEF Reconcile, Stored, purgeVars
    <2>7. GoneIsGone'
      BY <1>9, <2>4 DEF Reconcile, GoneIsGone, purgeVars
    <2> QED  BY <2>5, <2>6, <2>7 DEF PurgeParts
  <1>10. CASE Return
    <2>1. op' = Idle
      BY <1>10 DEF Return
    <2>2. GoneIsGone'
      BY <1>10 DEF Return, GoneIsGone, diskVars
    <2>3. marker' \/ mailbox'.owner \in {verified', NoAccount}
      BY <1>10 DEF Return, At, Stored, diskVars
    <2>4. marker' \/ \A a \in sealed' : mailbox'.owner # a /\ a \notin bodies'
      BY <1>10 DEF Return, Stored, diskVars
    <2> QED  BY <2>1, <2>2, <2>3, <2>4, IdlePurge
  <1> QED  BY <1>2, <1>3, <1>4, <1>5, <1>6, <1>7, <1>8, <1>9, <1>10 DEF Step

\* What a failure or the end of the process leaves half done only removes.
LEMMA PartlyPurge ==
  ASSUME PurgeInv, Partly
  PROVE  /\ marker' \/ mailbox'.owner \in {verified', NoAccount}
         /\ marker' \/ \A a \in sealed' : mailbox'.owner # a /\ a \notin bodies'
         /\ bodies' \subseteq bodies /\ attachments' \subseteq attachments /\ legacy' \subseteq legacy
         /\ mailbox' = mailbox /\ gone' = gone
  BY DEF PurgeInv, Partly, Stored, purgeVars

LEMMA FailPurge == ASSUME PurgeInv, Fail PROVE PurgeParts'
  <1>1. Partly
    BY DEF Fail
  <1>2. partials' \subseteq partials /\ download'.account = download.account
        /\ (download'.temporary => download.temporary)
    BY DEF Fail, CutOff
  <1>3. GoneIsGone'
    BY <1>1, <1>2, PartlyPurge DEF PurgeInv, GoneIsGone
  <1>4. CASE GoesOn
    <2>1. op \in Closures
      BY DEF Fail, PurgeInv, TypeInv, TypeOK
    <2>2. op'.kind = "clear" /\ op'.failed
      BY <1>4, <2>1 DEF Fail, GoesOn, Closures
    <2>3. Removed'
      BY <2>2 DEF Removed
    <2>4. Stored'
      BY <1>1, <2>2, PartlyPurge DEF Stored
    <2> QED  BY <1>3, <2>3, <2>4 DEF PurgeParts
  <1>5. CASE ~GoesOn
    BY <1>1, <1>3, <1>5, PartlyPurge, IdlePurge DEF Fail
  <1> QED  BY <1>4, <1>5

LEMMA RestartPurge == ASSUME PurgeInv, Restart PROVE PurgeParts'
  <1>1. Partly /\ op' = Idle /\ ~download'.temporary
    BY DEF Restart, NoDownload
  <1>2. GoneIsGone'
    BY <1>1, PartlyPurge DEF Restart, PurgeInv, GoneIsGone
  <1> QED  BY <1>1, <1>2, PartlyPurge, IdlePurge

\* A download touches its own account's files only, and tells the closure.
LEMMA WrittenPurge ==
  ASSUME PurgeInv, NEW a \in Account, Written(a),
         attachments' \subseteq attachments \cup {a}, partials' \subseteq partials,
         download'.temporary => download'.account = a
  PROVE  PurgeParts'
  <1>1. GoneIsGone'
    BY DEF PurgeInv, GoneIsGone, Written
  <1>2. CASE op = Idle
    <2>1. op' = Idle
      BY <1>2 DEF Written, Idle
    <2> QED  BY <1>1, <2>1, IdlePurge DEF PurgeInv, Stored, Written
  <1>3. CASE op \in Closures
    <2>1. /\ op'.kind = op.kind /\ op'.account = op.account /\ op'.stage = op.stage
          /\ op'.failed = op.failed /\ op'.quiet = op.quiet \ {a}
      BY <1>3 DEF Written, Closures
    <2>2. Removed'
      BY <2>1 DEF PurgeInv, Removed, Written
    <2>3. Stored'
      BY <2>1 DEF PurgeInv, Stored, Written
    <2> QED  BY <1>1, <2>2, <2>3 DEF PurgeParts
  <1> QED  BY <1>2, <1>3 DEF PurgeInv, TypeInv, TypeOK

LEMMA DownloadPurge == ASSUME PurgeInv, Download PROVE PurgeParts'
  <1>1. ASSUME NEW a \in Account, StartDownload(a) PROVE PurgeParts'
    BY <1>1, WrittenPurge DEF StartDownload
  <1>2. CASE FinishDownload
    <2>1. download.account \in Account
      BY <1>2 DEF FinishDownload, PurgeInv, TypeInv, TypeOK, Downloads, NoDownload
    <2>2. ~download'.temporary
      BY <1>2 DEF FinishDownload, NoDownload
    <2> QED  BY <1>2, <2>1, <2>2, WrittenPurge DEF FinishDownload
  <1>3. CASE FailDownload
    <2>1. ~download'.temporary
      BY <1>3 DEF FailDownload, NoDownload
    <2>2. Removed'
      BY <1>3, <2>1 DEF FailDownload, PurgeInv, Removed, diskVars
    <2> QED  BY <1>3, <2>1, <2>2 DEF FailDownload, PurgeInv, PurgeParts, Stored, GoneIsGone, diskVars, purgeVars
  <1> QED  BY <1>1, <1>2, <1>3 DEF Download

LEMMA NextPurge == ASSUME PurgeInv, [Next]_vars PROVE PurgeInv'
  <1>1. TypeInv'
    BY NextType DEF PurgeInv
  <1>2. PurgeParts'
    <2>1. CASE ClearFails
      BY <2>1, IdlePurge DEF ClearFails, PurgeInv, Stored, GoneIsGone, diskVars, purgeVars
    <2>2. CASE UNCHANGED vars
      BY <2>2 DEF PurgeInv, PurgeParts, Removed, Stored, GoneIsGone, vars, diskVars, purgeVars
    <2> QED  BY <2>1, <2>2, TakeLanePurge, StepPurge, FailPurge, RestartPurge, DownloadPurge DEF Next
  <1> QED  BY <1>1, <1>2 DEF PurgeInv, PurgeParts

LEMMA InitPurge == Init => PurgeInv
  <1> SUFFICES ASSUME Init PROVE PurgeInv
    OBVIOUS
  <1>1. Removed /\ Stored
    BY DEF Init, Removed, Stored, Idle, CleanupStages
  <1> QED  BY <1>1, InitType DEF Init, PurgeInv, GoneIsGone

-----------------------------------------------------------------------------
(* Nothing is announced twice                                              *)

NewsParts == Observed /\ ShownIsKnown /\ AnnouncedOnce

\* Nothing is known of what another kind of closure has fetched.
LEMMA OtherNews ==
  ASSUME NewsInv, op'.kind # "poll",
         mailbox'.baseline = mailbox.baseline, mailbox'.known = mailbox.known,
         mailbox'.inbox \subseteq mailbox.inbox, UNCHANGED newsVars
  PROVE  NewsParts'
  BY DEF NewsInv, NewsParts, Observed, ShownIsKnown, AnnouncedOnce, newsVars

\* A poll that goes on has what it had, and the watermark too.
LEMMA SameNews ==
  ASSUME NewsInv, UNCHANGED <<mailbox, newsVars>>,
         op'.kind = op.kind, op'.ids = op.ids, op'.news = op.news,
         op'.stage \in {"leftovers", "reconcile", "done"} =>
           op.stage \in {"leftovers", "reconcile", "done"} \/ op.kind # "poll"
  PROVE  NewsParts'
  BY DEF NewsInv, NewsParts, Observed, ShownIsKnown, AnnouncedOnce, newsVars

LEMMA TakeLaneNews == ASSUME NewsInv, TakeLane PROVE NewsParts'
  <1>2. ASSUME NEW a \in Account,
               Prepare(a) \/ ReplaceFolder(a) \/ SaveBody(a) \/ LoadBody(a)
        PROVE  NewsParts'
    <2>1. ASSUME Prepare(a) \/ ReplaceFolder(a)
          PROVE  op'.kind \in {"prepare", "replace"} /\ UNCHANGED <<mailbox, newsVars>>
      BY <2>1 DEF Prepare, ReplaceFolder, TakeResuming, diskVars, newsVars
    <2>2. ASSUME SaveBody(a) \/ LoadBody(a)
          PROVE  op'.kind \in {"save", "load"} /\ UNCHANGED <<mailbox, newsVars>>
      BY <2>2 DEF SaveBody, LoadBody, Take, Idle, diskVars, newsVars
    <2>3. op'.kind # "poll" /\ UNCHANGED <<mailbox, newsVars>>
      BY <1>2, <2>1, <2>2
    <2> QED  BY <2>3, OtherNews
  <1>3. ASSUME NEW a \in Account, NEW ids \in SUBSET Message, ReplaceInbox(a, ids)
        PROVE  NewsParts'
    <2>1. op'.kind = "replace" /\ UNCHANGED <<mailbox, newsVars>>
      BY <1>3 DEF ReplaceInbox, TakeResuming, diskVars, newsVars
    <2> QED  BY <2>1, OtherNews
  <1>4. ASSUME NEW a \in Account, NEW ids \in SUBSET Message, NEW unread \in SUBSET ids,
               Poll(a, ids, unread)
        PROVE  NewsParts'
    <2>1. /\ op'.kind = "poll" /\ op'.ids = ids /\ op'.news = NewUnread(a, unread)
          /\ op'.stage \in {"index", "check"} /\ UNCHANGED <<mailbox, newsVars>>
      BY <1>4 DEF Poll, TakeResuming, diskVars, newsVars
    <2>2. op'.news \subseteq ids /\ op'.news \cap (announced \cup news) = {}
      BY <2>1 DEF NewUnread, NewsInv, Observed
    <2> QED  BY <2>1, <2>2 DEF NewsInv, NewsParts, Observed, ShownIsKnown, AnnouncedOnce, newsVars
  <1>5. CASE SavePreferences \/ ClearAllMail \/ ClearBodies
    <2>1. op'.kind \in {"prune", "clear", "clearBodies"} /\ UNCHANGED <<mailbox, newsVars>>
      BY <1>5 DEF SavePreferences, ClearAllMail, ClearBodies, Take, Idle, diskVars, newsVars
    <2> QED  BY <2>1, OtherNews
  <1>6. ASSUME NEW m \in Message, Mutate(m) PROVE NewsParts'
    <2>1. /\ mailbox'.baseline = mailbox.baseline /\ mailbox'.known = mailbox.known
          /\ mailbox'.inbox \subseteq mailbox.inbox
      BY <1>6 DEF Mutate, NewsInv, TypeInv, TypeOK, Mailboxes
    <2>2. op'.kind # "poll"
      BY <1>6 DEF Mutate, Idle
    <2> QED  BY <1>6, <2>1, <2>2, OtherNews DEF Mutate
  <1> QED  BY <1>2, <1>3, <1>4, <1>5, <1>6 DEF TakeLane

LEMMA RemoveNews == ASSUME NewsInv, Remove PROVE NewsParts'
  <1>1. op.stage \in CleanupStages /\ Proceed
    BY DEF Remove, RemoveIndex, RemoveOldIndexes, RemoveBodies, RemoveOldBodies,
           RemoveAttachments, RemoveMarker, At, CleanupStages
  <1>2. op \in Closures
    BY <1>1 DEF NewsInv, TypeInv, TypeOK, Idle, CleanupStages
  <1>3. op'.kind = op.kind /\ op'.ids = op.ids /\ op'.news = op.news /\ op'.stage = After(op.stage)
    BY <1>2, <1>1 DEF Proceed, Closures
  <1>4. op.kind = "poll" => After(op.stage) \in CleanupStages \cup {"check", "install"}
    BY <1>1 DEF After, CleanupStages, NewsInv, TypeInv, Flow, Commits
  <1>5. CASE RemoveIndex
    <2>1. ~mailbox'.baseline /\ mailbox'.inbox = {} /\ announced' = {} /\ news' = {}
      BY <1>5 DEF RemoveIndex, NoMailbox
    <2>2. op.kind = "poll" => op.news \subseteq op.ids
      BY DEF NewsInv, Observed
    <2> QED  BY <1>3, <1>4, <2>1, <2>2 DEF NewsParts, Observed, ShownIsKnown, AnnouncedOnce, CleanupStages
  <1>6. CASE ~RemoveIndex
    <2>1. UNCHANGED <<mailbox, newsVars>>
      BY <1>6 DEF Remove, RemoveOldIndexes, RemoveBodies, RemoveOldBodies, RemoveAttachments, RemoveMarker
    <2> QED  BY <1>3, <1>4, <2>1, SameNews DEF CleanupStages
  <1> QED  BY <1>5, <1>6

LEMMA StepNews == ASSUME NewsInv, Step PROVE NewsParts'
  <1>1. op \in Closures \/ op.stage = "idle"
    BY DEF NewsInv, TypeInv, TypeOK, Idle
  <1>2. CASE Remove
    BY <1>2, RemoveNews
  <1>3. CASE CheckOwner
    <2>1. op \in Closures /\ op.kind \in Resuming
      BY <1>1, <1>3 DEF CheckOwner, At, NewsInv, TypeInv, Flow
    <2>2. /\ op'.kind = op.kind /\ op'.ids = op.ids /\ op'.news = op.news
          /\ op.kind = "poll" => op'.stage \in {"mark", "install"}
      BY <1>3, <2>1 DEF CheckOwner, Closures
    <2> QED  BY <1>3, <2>2, SameNews DEF CheckOwner, diskVars
  <1>4. CASE WriteMarker
    <2>1. op \in Closures
      BY <1>1, <1>4 DEF WriteMarker, At
    <2>2. op'.kind = op.kind /\ op'.ids = op.ids /\ op'.news = op.news /\ op'.stage = "index"
      BY <1>4, <2>1 DEF WriteMarker, Closures
    <2> QED  BY <1>4, <2>2, SameNews DEF WriteMarker
  <1>5. CASE Install
    <2>1. op \in Closures
      BY <1>1, <1>5 DEF Install, At
    <2>2. op'.kind = op.kind /\ op'.ids = op.ids /\ op'.news = op.news
      BY <1>5, <2>1 DEF Install, Closures
    <2>3. CASE InstallInbox
      <3>1. /\ mailbox'.baseline /\ mailbox'.known = op.ids /\ mailbox'.inbox = op.ids
            /\ announced' = (announced \cup news) \cap op.ids /\ news' = {}
        BY <2>3 DEF InstallInbox, Committed
      <3> QED  BY <2>2, <3>1 DEF NewsInv, NewsParts, Observed, ShownIsKnown, AnnouncedOnce
    <2>4. CASE InstallFolder
      <3>1. op'.kind # "poll"
        BY <2>2, <2>4 DEF InstallFolder, NewsInv, TypeInv, Flow
      <3>2. /\ mailbox'.baseline = mailbox.baseline /\ mailbox'.known = mailbox.known
            /\ mailbox'.inbox \subseteq mailbox.inbox /\ UNCHANGED newsVars
        BY <2>4 DEF InstallFolder
      <3> QED  BY <3>1, <3>2, OtherNews
    <2> QED  BY <1>5, <2>3, <2>4 DEF Install
  <1>6. CASE RemoveLeftovers
    <2>1. op \in Closures
      BY <1>1, <1>6 DEF RemoveLeftovers, At
    <2>2. op'.kind = op.kind /\ op'.ids = op.ids /\ op'.news = op.news
      BY <1>6, <2>1 DEF RemoveLeftovers, Closures
    <2> QED  BY <1>6, <2>2, SameNews DEF RemoveLeftovers, At
  <1>7. CASE Truncate
    <2>1. op \in Closures /\ op.kind = "prune"
      BY <1>1, <1>7 DEF Truncate, At, NewsInv, TypeInv, Flow
    <2>2. op'.kind # "poll"
      BY <1>7, <2>1 DEF Truncate, Closures
    <2>3. /\ mailbox'.baseline = mailbox.baseline /\ mailbox'.known = mailbox.known
          /\ mailbox'.inbox \subseteq mailbox.inbox
      <3>1. CASE mailbox = NoMailbox
        BY <1>7, <3>1 DEF Truncate, NoMailbox
      <3>2. CASE mailbox # NoMailbox
        BY <1>7, <3>2 DEF Truncate, NewsInv, TypeInv, TypeOK, Mailboxes
      <3> QED  BY <3>1, <3>2
    <2> QED  BY <1>7, <2>2, <2>3, OtherNews DEF Truncate
  <1>8. CASE WriteBody
    <2>1. op \in Closures /\ op.kind = "save"
      BY <1>1, <1>8 DEF WriteBody, At, NewsInv, TypeInv, Flow
    <2>2. op'.kind # "poll"
      BY <1>8, <2>1 DEF WriteBody, Closures
    <2> QED  BY <1>8, <2>2, OtherNews DEF WriteBody
  <1>9. CASE Reconcile
    <2>1. op \in Closures
      BY <1>1, <1>9 DEF Reconcile, At
    <2>2. op'.kind = op.kind /\ op'.ids = op.ids /\ op'.news = op.news
      BY <1>9, <2>1 DEF Reconcile, Closures
    <2> QED  BY <1>9, <2>2, SameNews DEF Reconcile, At
  <1>10. CASE Return
    <2>1. op'.kind # "poll" /\ mailbox' = mailbox /\ announced' = announced
      BY <1>10 DEF Return, Idle, diskVars
    <2>2. CASE op.kind = "poll"
      <3>1. /\ news' = op.news /\ op.news \subseteq op.ids /\ op.news \cap announced = {}
            /\ mailbox.baseline /\ op.ids \subseteq mailbox.known
        BY <1>10, <2>2 DEF Return, At, NewsInv, Observed
      <3> QED  BY <2>1, <3>1 DEF NewsInv, NewsParts, Observed, ShownIsKnown, AnnouncedOnce
    <2>3. CASE op.kind # "poll"
      BY <1>10, <2>1, <2>3, OtherNews DEF Return, newsVars
    <2> QED  BY <2>2, <2>3
  <1> QED  BY <1>2, <1>3, <1>4, <1>5, <1>6, <1>7, <1>8, <1>9, <1>10 DEF Step

LEMMA InterruptedNews ==
  ASSUME NewsInv, Fail \/ ClearFails \/ Restart PROVE NewsParts'
  <1>1. UNCHANGED <<mailbox, newsVars>>
    BY DEF Fail, ClearFails, Restart, Partly, diskVars
  <1>2. op'.kind # "poll"
    <2>1. CASE op' = Idle
      BY <2>1 DEF Idle
    <2>2. CASE Fail /\ GoesOn
      <3>1. op \in Closures
        BY <2>2 DEF Fail, NewsInv, TypeInv, TypeOK
      <3> QED  BY <2>2, <3>1 DEF Fail, GoesOn, Closures
    <2> QED  BY <2>1, <2>2 DEF Fail, ClearFails, Restart
  <1> QED  BY <1>1, <1>2, OtherNews

LEMMA DownloadNews == ASSUME NewsInv, Download PROVE NewsParts'
  <1>1. CASE FailDownload
    BY <1>1, SameNews DEF FailDownload, diskVars
  <1>2. ASSUME NEW a, Written(a) PROVE NewsParts'
    <2>1. UNCHANGED <<mailbox, newsVars>>
      BY <1>2 DEF Written
    <2>2. op'.kind = op.kind /\ op'.ids = op.ids /\ op'.news = op.news /\ op'.stage = op.stage
      BY <1>2 DEF Written, NewsInv, TypeInv, TypeOK, Closures, Idle
    <2> QED  BY <2>1, <2>2, SameNews
  <1> QED  BY <1>1, <1>2 DEF Download, StartDownload, FinishDownload

LEMMA NextNews == ASSUME NewsInv, [Next]_vars PROVE NewsInv'
  <1>1. TypeInv'
    BY NextType DEF NewsInv
  <1>2. NewsParts'
    <2>1. CASE UNCHANGED vars
      BY <2>1, SameNews DEF vars, diskVars
    <2> QED  BY <2>1, TakeLaneNews, StepNews, InterruptedNews, DownloadNews DEF Next
  <1> QED  BY <1>1, <1>2 DEF NewsInv, NewsParts

LEMMA InitNews == Init => NewsInv
  <1> SUFFICES ASSUME Init PROVE NewsInv
    OBVIOUS
  <1>1. ~mailbox.baseline
    <2>1. CASE mailbox = NoMailbox
      BY <2>1 DEF NoMailbox
    <2>2. CASE mailbox \in
            [owner : Account, inbox : SUBSET Message, baseline : {FALSE}, known : {{}}]
      BY <2>2
    <2> QED  BY <2>1, <2>2 DEF Init
  <1>2. Observed
    BY <1>1 DEF Init, Observed, Idle
  <1> QED  BY <1>1, <1>2, InitType DEF Init, NewsInv, ShownIsKnown, AnnouncedOnce

-----------------------------------------------------------------------------
(* The theorems                                                            *)

\* The inductive invariant: a purge never leaves readable mail behind
\* (begin_account_cleanup_at, resume_pending_account_cleanup_with), and what
\* a poll announces agrees with the watermark (replace_folder_and_save_at).
THEOREM InvariantHolds == Spec => [](PurgeInv /\ NewsInv)
  <1>1. Init => PurgeInv /\ NewsInv
    BY InitPurge, InitNews
  <1>2. PurgeInv /\ NewsInv /\ [Next]_vars => (PurgeInv /\ NewsInv)'
    BY NextPurge, NextNews
  <1> QED  BY <1>1, <1>2, PTL DEF Spec

\* Every variable keeps its type (the cache root of cache.rs).
THEOREM CacheTypes == Spec => []TypeOK
  <1>1. PurgeInv => TypeOK
    BY DEF PurgeInv, TypeInv
  <1> QED  BY <1>1, InvariantHolds, PTL

\* No load returns the mailbox of an account other than the one last prepared
\* or committed, whatever fails and wherever the process ends.
THEOREM OnlyVerifiedIsShown == Spec => []ShownIsVerified
  <1>1. PurgeInv => ShownIsVerified
    BY DEF PurgeInv, Stored, ShownIsVerified, ReadableMailbox, NoMailbox
  <1> QED  BY <1>1, InvariantHolds, PTL

\* Once a purge has its marker on disk, what it removes is unreadable until
\* something of the account is written again.
THEOREM PurgeHides == Spec => []SealedIsUnreadable
  <1>1. PurgeInv => SealedIsUnreadable
    BY DEF PurgeInv, TypeInv, TypeOK, Stored, SealedIsUnreadable, ReadableMailbox, ReadableBodies,
           NoMailbox
  <1> QED  BY <1>1, InvariantHolds, PTL

\* A completed purge leaves no file of any account, downloads included.
THEOREM PurgeRemoves == Spec => []GoneIsGone
  <1>1. PurgeInv => GoneIsGone
    BY DEF PurgeInv
  <1> QED  BY <1>1, InvariantHolds, PTL

\* The watermark covers the Inbox that a load returns.
THEOREM WatermarkCovers == Spec => []ShownIsKnown
  <1>1. NewsInv => ShownIsKnown
    BY DEF NewsInv
  <1> QED  BY <1>1, InvariantHolds, PTL

\* A message is announced once while it stays in the Inbox window.
THEOREM AnnouncesOnce == Spec => []AnnouncedOnce
  <1>1. NewsInv => AnnouncedOnce
    BY DEF NewsInv
  <1> QED  BY <1>1, InvariantHolds, PTL

-----------------------------------------------------------------------------
(* A purge is one step                                                     *)

\* A closure that compares owners or commits found no marker, and one that
\* commits found no other account's mailbox.
Unmarked == op.stage \in {"check", "mark", "install"} => ~marker
Claimed == op.stage = "install" => mailbox.owner \in {op.account, NoAccount}
ReaderInv == PurgeInv /\ Unmarked /\ Claimed

\* A closure that stays where it is, over the same mailbox and marker.
LEMMA SameClaim ==
  ASSUME ReaderInv, UNCHANGED <<marker, mailbox>>, op'.stage = op.stage, op'.account = op.account
  PROVE  Unmarked' /\ Claimed'
  BY DEF ReaderInv, Unmarked, Claimed

LEMMA NoClaim ==
  ASSUME op'.stage \notin {"check", "mark", "install"}
  PROVE  Unmarked' /\ Claimed'
  BY DEF Unmarked, Claimed

LEMMA TakeLaneClaims == ASSUME ReaderInv, TakeLane PROVE Unmarked' /\ Claimed'
  <1>1. ASSUME NEW k, NEW a, NEW i, NEW ids, NEW n, TakeResuming(k, a, i, ids, n)
        PROVE  Unmarked' /\ Claimed'
    BY <1>1 DEF TakeResuming, diskVars, Unmarked, Claimed
  <1>2. ASSUME NEW k, NEW s \in {"body", "reconcile", "truncate", "index", "bodies"}, NEW a, Take(k, s, a)
        PROVE  Unmarked' /\ Claimed'
    <2>1. op'.stage = s
      BY <1>2 DEF Take, Idle
    <2> QED  BY <2>1, NoClaim
  <1>3. ASSUME NEW m \in Message, Mutate(m) PROVE Unmarked' /\ Claimed'
    <2>1. op'.stage = "idle"
      BY <1>3 DEF Mutate, Idle
    <2> QED  BY <2>1, NoClaim
  <1> QED  BY <1>1, <1>2, <1>3 DEF TakeLane, Prepare, ReplaceFolder, SaveBody, LoadBody, ReplaceInbox, Poll,
              SavePreferences, ClearAllMail, ClearBodies

LEMMA RemoveClaims == ASSUME ReaderInv, Remove PROVE Unmarked' /\ Claimed'
  <1>1. op.stage \in CleanupStages /\ Proceed
    BY DEF Remove, RemoveIndex, RemoveOldIndexes, RemoveBodies, RemoveOldBodies,
           RemoveAttachments, RemoveMarker, At, CleanupStages
  <1>2. op'.stage = After(op.stage) /\ op'.account = op.account
    BY <1>1, ProceedPurge DEF ReaderInv, PurgeInv
  <1>3. CASE op.stage # "marker"
    <2>1. After(op.stage) \in CleanupStages \cup {"done"}
      BY <1>1, <1>3 DEF After, CleanupStages
    <2> QED  BY <1>2, <2>1, NoClaim DEF CleanupStages
  <1>4. CASE op.stage = "marker"
    <2>1. RemoveMarker
      BY <1>4 DEF Remove, RemoveIndex, RemoveOldIndexes, RemoveBodies, RemoveOldBodies, RemoveAttachments, At
    <2>2. ~marker' /\ mailbox' = mailbox /\ ~op.failed
      BY <2>1 DEF RemoveMarker
    <2>3. mailbox = NoMailbox
      BY <1>1, <1>4, <2>2, ProceedPurge DEF ReaderInv, PurgeInv, Removed, CleanupStages
    <2> QED  BY <2>2, <2>3 DEF Unmarked, Claimed, NoMailbox
  <1> QED  BY <1>3, <1>4

LEMMA StepClaims == ASSUME ReaderInv, Step PROVE Unmarked' /\ Claimed'
  <1>1. op # Idle => op \in Closures
    BY DEF ReaderInv, PurgeInv, TypeInv, TypeOK
  <1>2. CASE Remove
    BY <1>2, RemoveClaims
  <1>3. CASE CheckOwner
    <2>1. UNCHANGED <<marker, mailbox>> /\ ~marker /\ op \in Closures
      BY <1>1, <1>3 DEF CheckOwner, diskVars, ReaderInv, Unmarked, At, Idle
    <2>2. /\ op'.account = op.account
          /\ op'.stage = "install" => mailbox.owner \in {op.account, NoAccount}
      <3>1. CASE mailbox.owner \notin {op.account, NoAccount}
        BY <1>3, <2>1, <3>1 DEF CheckOwner, Closures
      <3>2. CASE mailbox.owner \in {op.account, NoAccount}
        BY <1>3, <2>1, <3>2 DEF CheckOwner, Closures
      <3> QED  BY <3>1, <3>2
    <2> QED  BY <2>1, <2>2 DEF Unmarked, Claimed
  <1>4. CASE WriteMarker \/ Install \/ RemoveLeftovers \/ Truncate \/ WriteBody \/ Reconcile \/ Return
    <2>1. op \in Closures \/ Return
      BY <1>1, <1>4 DEF WriteMarker, Install, RemoveLeftovers, Truncate, WriteBody, Reconcile, At, Idle
    <2>2. op'.stage \in {"index", "leftovers", "reconcile", "done", "idle"}
      <3>1. CASE WriteMarker
        BY <2>1, <3>1 DEF WriteMarker, Return, At, Idle, Closures
      <3>2. CASE Install \/ RemoveLeftovers \/ Truncate \/ WriteBody \/ Reconcile
        BY <2>1, <3>2 DEF Install, RemoveLeftovers, Truncate, WriteBody, Reconcile, Return, Idle, Closures
      <3>3. CASE Return
        BY <3>3 DEF Return, Idle
      <3> QED  BY <1>4, <3>1, <3>2, <3>3
    <2> QED  BY <2>2, NoClaim
  <1> QED  BY <1>2, <1>3, <1>4 DEF Step

LEMMA OtherClaims ==
  ASSUME ReaderInv, Fail \/ ClearFails \/ Restart \/ Download \/ UNCHANGED vars
  PROVE  Unmarked' /\ Claimed'
  <1>1. ASSUME op' = Idle PROVE Unmarked' /\ Claimed'
    BY <1>1, NoClaim DEF Idle
  <1>2. CASE Fail
    <2>1. CASE GoesOn
      <3>1. op \in Closures
        BY <1>2 DEF Fail, ReaderInv, PurgeInv, TypeInv, TypeOK
      <3>2. op.kind = "clear" /\ op.stage \in CleanupStages \ {"marker"} /\ op'.stage = After(op.stage)
        BY <1>2, <2>1, <3>1 DEF Fail, GoesOn, Closures
      <3>3. After(op.stage) \in CleanupStages
        BY <3>2 DEF After, CleanupStages
      <3> QED  BY <3>2, <3>3, NoClaim DEF CleanupStages
    <2> QED  BY <1>1, <1>2, <2>1 DEF Fail
  <1>3. CASE ClearFails \/ Restart
    BY <1>1, <1>3 DEF ClearFails, Restart
  <1>4. CASE Download
    <2>1. op \in Closures \cup {Idle}
      BY DEF ReaderInv, PurgeInv, TypeInv, TypeOK
    <2>2. UNCHANGED <<marker, mailbox>> /\ op'.stage = op.stage /\ op'.account = op.account
      BY <1>4, <2>1 DEF Download, StartDownload, FinishDownload, FailDownload, Written, diskVars, Closures, Idle
    <2> QED  BY <2>2, SameClaim
  <1>5. CASE UNCHANGED vars
    BY <1>5, SameClaim DEF vars, diskVars
  <1> QED  BY <1>2, <1>3, <1>4, <1>5

LEMMA NextReader == ASSUME ReaderInv, [Next]_vars PROVE ReaderInv'
  <1>1. PurgeInv'
    BY NextPurge DEF ReaderInv
  <1>2. Unmarked' /\ Claimed'
    <2>1. CASE TakeLane
      BY <2>1, TakeLaneClaims
    <2>2. CASE Step
      BY <2>2, StepClaims
    <2>3. CASE Fail \/ ClearFails \/ Restart \/ Download \/ UNCHANGED vars
      BY <2>3, OtherClaims
    <2> QED  BY <2>1, <2>2, <2>3 DEF Next
  <1> QED  BY <1>1, <1>2 DEF ReaderInv

LEMMA InitReader == Init => ReaderInv
  <1> SUFFICES ASSUME Init PROVE ReaderInv
    OBVIOUS
  <1>1. PurgeInv
    BY InitPurge
  <1>2. op.stage = "idle"
    BY DEF Init, Idle
  <1> QED  BY <1>1, <1>2 DEF ReaderInv, Unmarked, Claimed

\* What a load returns is as the marker has it.
LEMMA Reads ==
  /\ marker => ReadableMailbox = Reader!NoMail /\ ReadableBodies = {}
  /\ ~marker => ReadableMailbox = mailbox /\ ReadableBodies = bodies
  /\ Reader!NoMail = NoMailbox /\ NoMailbox.owner = NoAccount
  BY DEF ReadableMailbox, ReadableBodies, NoMailbox, Reader!NoMail

LEMMA ReadsNext ==
  /\ marker' => ReadableMailbox' = Reader!NoMail /\ ReadableBodies' = {}
  /\ ~marker' => ReadableMailbox' = mailbox' /\ ReadableBodies' = bodies'
  BY DEF ReadableMailbox, ReadableBodies, NoMailbox, Reader!NoMail

\* The marker, the index, the bodies and the account are as they were.
LEMMA NothingRead ==
  ASSUME UNCHANGED <<marker, mailbox, bodies, verified>>
  PROVE  UNCHANGED Reader!vars
  BY DEF Reader!vars, ReadableMailbox, ReadableBodies

\* Bodies that go, wholly or in part, are evicted.
LEMMA LosingIsEvicting ==
  ASSUME UNCHANGED <<marker, mailbox, verified>>, bodies' \subseteq bodies
  PROVE  Reader!Evict
  <1>1. ReadableMailbox' = ReadableMailbox /\ ReadableBodies' \subseteq ReadableBodies
    BY DEF ReadableMailbox, ReadableBodies
  <1> QED  BY <1>1 DEF Reader!Evict

LEMMA ShorterIsShorten ==
  ASSUME ReaderInv, UNCHANGED <<marker, bodies, verified>>,
         NEW inbox \in SUBSET mailbox.inbox, mailbox' = [mailbox EXCEPT !.inbox = inbox]
  PROVE  [Reader!Shorten]_(Reader!vars)
  <1>1. CASE marker
    BY <1>1, Reads, ReadsNext DEF Reader!vars
  <1>2. CASE ~marker
    BY <1>2, Reads, ReadsNext DEF Reader!Shorten
  <1> QED  BY <1>1, <1>2

LEMMA TakeLaneReads == ASSUME ReaderInv, TakeLane PROVE [Reader!Next]_(Reader!vars)
  <1>1. CASE UNCHANGED <<marker, mailbox, bodies, verified>>
    BY <1>1, NothingRead
  <1>2. ASSUME NEW m \in Message, Mutate(m) PROVE [Reader!Next]_(Reader!vars)
    <2>1. /\ UNCHANGED <<marker, bodies, verified>> /\ mailbox.inbox \ {m} \in SUBSET mailbox.inbox
          /\ mailbox' = [mailbox EXCEPT !.inbox = mailbox.inbox \ {m}]
      BY <1>2 DEF Mutate, purgeVars
    <2>2. [Reader!Shorten]_(Reader!vars)
      BY <2>1, ShorterIsShorten
    <2> QED  BY <2>2 DEF Reader!Next
  <1>3. UNCHANGED <<marker, mailbox, bodies, verified>> \/ \E m \in Message : Mutate(m)
    BY DEF TakeLane, Prepare, ReplaceFolder, SaveBody, LoadBody, ReplaceInbox, Poll, SavePreferences, ClearAllMail,
           ClearBodies, TakeResuming, diskVars, purgeVars
  <1> QED  BY <1>1, <1>2, <1>3

\* A purge that had its marker is over for who loads; one without takes the index, then the bodies.
LEMMA RemoveReads == ASSUME ReaderInv, Remove PROVE [Reader!Next]_(Reader!vars)
  <1>1. CASE RemoveIndex
    <2>1. UNCHANGED <<marker, bodies, verified>> /\ mailbox' = NoMailbox
      BY <1>1 DEF RemoveIndex, purgeVars
    <2>2. CASE marker
      BY <2>1, <2>2, Reads, ReadsNext DEF Reader!vars
    <2>3. CASE ~marker
      BY <2>1, <2>3, Reads, ReadsNext DEF Reader!Clear, Reader!Next
    <2> QED  BY <2>2, <2>3
  <1>2. CASE RemoveBodies
    BY <1>2, LosingIsEvicting DEF RemoveBodies, purgeVars, Reader!Next
  <1>3. CASE RemoveOldIndexes \/ RemoveOldBodies \/ RemoveAttachments
    BY <1>3, NothingRead DEF RemoveOldIndexes, RemoveOldBodies, RemoveAttachments, purgeVars
  <1>4. CASE RemoveMarker
    <2>1. /\ UNCHANGED <<mailbox, bodies, verified>> /\ ~marker' /\ ~op.failed
          /\ op.stage = "marker" /\ op.stage \in CleanupStages /\ Proceed
      BY <1>4 DEF RemoveMarker, At, CleanupStages
    <2>2. mailbox = NoMailbox /\ bodies = {}
      BY <2>1, ProceedPurge DEF ReaderInv, PurgeInv, Removed, CleanupStages
    <2> QED  BY <2>1, <2>2, Reads, ReadsNext DEF Reader!vars
  <1> QED  BY <1>1, <1>2, <1>3, <1>4 DEF Remove

\* A commit finds no marker and no other account's mailbox.
LEMMA InstallReads == ASSUME ReaderInv, Install PROVE Reader!Next
  <1>1. /\ op.stage = "install" /\ UNCHANGED <<marker, bodies>> /\ verified' = op.account /\ ~marker
        /\ mailbox.owner \in {op.account, NoAccount} /\ op \in Closures
    BY DEF Install, At, ReaderInv, Unmarked, Claimed, PurgeInv, TypeInv, TypeOK, Idle
  <1>2. op.account \in Account /\ op.ids \subseteq Message
    BY <1>1 DEF ReaderInv, PurgeInv, TypeInv, Flow, Closures, Commits, Kinds
  <1>3. /\ ReadableMailbox = mailbox /\ ReadableMailbox' = mailbox'
        /\ ReadableBodies' = ReadableBodies /\ Reader!FreeFor(op.account)
    BY <1>1, Reads, ReadsNext DEF Reader!FreeFor
  <1>4. CASE InstallInbox
    <2>1. Reader!CommitInbox(op.account)
      BY <1>1, <1>2, <1>3, <1>4 DEF InstallInbox, Committed, Reader!CommitInbox
    <2> QED  BY <1>2, <2>1 DEF Reader!Next
  <1>5. CASE InstallFolder
    <2>1. Reader!CommitFolder(op.account)
      BY <1>1, <1>2, <1>3, <1>5 DEF InstallFolder, Reader!CommitFolder
    <2> QED  BY <1>2, <2>1 DEF Reader!Next
  <1> QED  BY <1>4, <1>5 DEF Install

LEMMA StepReads == ASSUME ReaderInv, Step PROVE [Reader!Next]_(Reader!vars)
  <1>1. /\ op # Idle => op \in Closures
        /\ op.kind \in Kinds \ {"clear", "clearBodies"} => op.account \in Account
        /\ Stored
    BY DEF ReaderInv, PurgeInv, TypeInv, TypeOK, Flow
  <1>2. CASE CheckOwner \/ RemoveLeftovers
    BY <1>2, NothingRead DEF CheckOwner, RemoveLeftovers, diskVars, purgeVars
  <1>3. CASE WriteMarker
    <2>1. marker' /\ verified' = verified
      BY <1>3 DEF WriteMarker
    <2> QED  BY <2>1, ReadsNext DEF Reader!Purge, Reader!Next
  <1>4. CASE Truncate
    <2>1. PICK inbox \in SUBSET mailbox.inbox :
            UNCHANGED <<marker, bodies, verified>> /\ mailbox' = [mailbox EXCEPT !.inbox = inbox]
      BY <1>4 DEF Truncate, purgeVars
    <2>2. [Reader!Shorten]_(Reader!vars)
      BY <2>1, ShorterIsShorten
    <2> QED  BY <2>2 DEF Reader!Next
  <1>5. CASE WriteBody
    <2>1. UNCHANGED <<marker, mailbox, verified>> /\ bodies' = bodies \cup {op.account} /\ op.stage = "body"
      BY <1>5 DEF WriteBody, At
    <2>2. op.account \in Account
      BY <1>1, <2>1 DEF ReaderInv, PurgeInv, TypeInv, Flow, Kinds, Idle
    <2>3. CASE marker
      BY <2>1, <2>3, Reads, ReadsNext DEF Reader!vars
    <2>4. CASE ~marker
      BY <2>1, <2>2, <2>4, Reads, ReadsNext DEF Reader!SaveBody, Reader!Next
    <2> QED  BY <2>3, <2>4
  <1>6. CASE Reconcile
    <2>1. UNCHANGED <<marker, mailbox, verified>> /\ op.stage = "reconcile"
      BY <1>6 DEF Reconcile, At, purgeVars
    <2>2. bodies' \subseteq bodies
      BY <1>1, <1>6, <2>1 DEF Reconcile, Stored
    <2> QED  BY <2>1, <2>2, LosingIsEvicting DEF Reader!Next
  <1>7. CASE Return
    <2>1. UNCHANGED <<marker, mailbox, bodies>> /\ op.stage = "done"
          /\ verified' = (IF op.kind = "prepare" THEN op.account ELSE verified)
      BY <1>7 DEF Return, At, diskVars
    <2>2. CASE op.kind = "prepare"
      <3>1. op.account \in Account /\ mailbox.owner \in {op.account, NoAccount}
        BY <1>1, <2>1, <2>2 DEF Stored, Kinds
      <3>2. Reader!Prepare(op.account)
        <4>1. UNCHANGED <<ReadableMailbox, ReadableBodies>>
          BY <2>1 DEF ReadableMailbox, ReadableBodies
        <4>2. Reader!FreeFor(op.account)
          BY <3>1, Reads DEF Reader!FreeFor
        <4> QED  BY <2>1, <2>2, <4>1, <4>2 DEF Reader!Prepare
      <3> QED  BY <3>1, <3>2 DEF Reader!Next
    <2>3. CASE op.kind # "prepare"
      BY <2>1, <2>3, NothingRead
    <2> QED  BY <2>2, <2>3
  <1> QED  BY <1>2, <1>3, <1>4, <1>5, <1>6, <1>7, RemoveReads, InstallReads DEF Step

\* Whatever a failure or the end of the process cuts short loses bodies at most.
LEMMA OtherReads ==
  ASSUME ReaderInv, Fail \/ ClearFails \/ Restart \/ Download \/ UNCHANGED vars
  PROVE  [Reader!Next]_(Reader!vars)
  <1>1. CASE Partly
    <2>1. UNCHANGED <<marker, mailbox, verified>> /\ bodies' \subseteq bodies
      BY <1>1 DEF Partly, purgeVars
    <2> QED  BY <2>1, LosingIsEvicting DEF Reader!Next
  <1>2. CASE UNCHANGED <<marker, mailbox, bodies, verified>>
    BY <1>2, NothingRead
  <1>3. Partly \/ UNCHANGED <<marker, mailbox, bodies, verified>>
    BY DEF Fail, Restart, ClearFails, Download, StartDownload, FinishDownload, FailDownload, Written, diskVars,
           purgeVars, vars
  <1> QED  BY <1>1, <1>2, <1>3

\* To those who load from a cache root a change of identity is one step: the
\* marker hides the mailbox and all bodies at once, and no failure, restart or
\* resumed cleanup shows any of them again; mail appears only by being committed,
\* where no other account's mailbox is, or saved.
THEOREM PurgeIsOneStep == Spec => PurgesInOneStep
  <1>1. Init => Reader!Init
    <2> SUFFICES ASSUME Init PROVE Reader!Init
      OBVIOUS
    <2>1. ReadableMailbox = mailbox /\ ReadableBodies = bodies /\ Reader!NoMail = NoMailbox
      BY Reads DEF Init
    <2>2. mailbox \in {NoMailbox} \cup
            [owner : {verified}, inbox : SUBSET Message, baseline : {FALSE}, known : {{}}]
      <3>1. CASE mailbox \in [owner : Account, inbox : SUBSET Message, baseline : {FALSE}, known : {{}}]
        <4>1. mailbox.owner = verified
          BY <3>1, NoAccountAssumption DEF Init
        <4> QED  BY <3>1, <4>1
      <3> QED  BY <3>1 DEF Init
    <2> QED  BY <2>1, <2>2 DEF Init, Reader!Init
  <1>2. ReaderInv /\ [Next]_vars => [Reader!Next]_(Reader!vars)
    <2> SUFFICES ASSUME ReaderInv, [Next]_vars PROVE [Reader!Next]_(Reader!vars)
      OBVIOUS
    <2>1. CASE TakeLane
      BY <2>1, TakeLaneReads
    <2>2. CASE Step
      BY <2>2, StepReads
    <2>3. CASE Fail \/ ClearFails \/ Restart \/ Download \/ UNCHANGED vars
      BY <2>3, OtherReads
    <2> QED  BY <2>1, <2>2, <2>3 DEF Next
  <1>3. ReaderInv /\ [Next]_vars => ReaderInv'
    BY NextReader
  <1> QED  BY <1>1, <1>2, <1>3, InitReader, PTL DEF Spec, PurgesInOneStep, Reader!Spec
=============================================================================
