---------------------------- MODULE AccountLifecycle ----------------------------
(***************************************************************************)
(* The life of the singleton Gmail session: the reducer of src/src/state.rs *)
(* (UI thread), the controller and its tasks of src/src/worker.rs (worker   *)
(* thread), the cache closures that tokio runs on blocking threads, and the *)
(* three things that survive the process: the refresh token in Secret       *)
(* Service, the mailbox cache and the local drafts.                         *)
(*                                                                          *)
(* The reducer and the worker talk over two unbounded FIFO channels.  A     *)
(* cache closure holds the global cache_io mutex while it runs, cannot be   *)
(* aborted, and outlives the task that spawned it.                          *)
(*                                                                          *)
(* An account is a model value.  A mailbox is the account it belongs to.    *)
(* Each keyring call is one atomic step; a panic is left out.               *)
(***************************************************************************)
EXTENDS Integers, Sequences

CONSTANTS
    Accounts,     \* the Google identities a person can sign in with
    NoAccount,    \* Option::None of an account, a token or a mailbox
    MaxOps,       \* bound on lifecycle operation ids of one process
    MaxPolls,     \* bound on background polls of one process
    MaxFolders,   \* bound on folder requests of one process
    MaxRestarts   \* bound on restarts of the process

ASSUME AccountAssumption == NoAccount \notin Accounts
ASSUME BoundAssumption == MaxOps \in Nat /\ MaxPolls \in Nat /\ MaxFolders \in Nat /\ MaxRestarts \in Nat

VARIABLES
    (* AppState, owned by the UI thread *)
    session, failure,   \* SessionState, and the FailureKind it carries
    uiAccount,          \* account
    shown,              \* the owner of the displayed mailbox
    activeOp, nextOp,   \* active_operation, next_operation (0: None)
    recovery,
    uiPoll, nextPoll, pollPaused,  \* background_sync
    uiFolder, nextFolder,          \* active_folder_request (0: None)
    (* the two channels *)
    cmds, evts,
    (* the controller and its tasks *)
    held,       \* a boundary command waiting for drain_mutations
    task,       \* active: the lifecycle task
    cleanup,    \* its "a credential was written" flag
    poll, folder, \* background_task, folder_task
    epoch,      \* background_epoch
    fgate,      \* folder_generation, as the request it admits
    auth,       \* RuntimeAuth: the account of the access token
    lane,       \* metadata_lane
    (* blocking threads *)
    closures,  \* spawned cache closures (one may be inside cache_io)
    (* what survives the process *)
    keyring, mailbox, drafts,
    (* the process, and two observations no code reads *)
    run, restarts,
    stray,     \* the mailbox on disk was written by a detached closure
    erased     \* the account of the last completed Disconnect

uiVars == <<session, failure, uiAccount, shown, activeOp, nextOp, recovery,
            uiPoll, nextPoll, pollPaused, uiFolder, nextFolder>>
workerVars == <<held, task, cleanup, poll, folder, epoch, fgate, auth, lane>>
diskVars == <<keyring, mailbox, drafts>>
vars == <<uiVars, cmds, evts, workerVars, closures, diskVars, run, restarts, stray, erased>>

-----------------------------------------------------------------------------
(* Data *)

MaybeAccount == Accounts \cup {NoAccount}
SyncKinds == {"Restore", "Connect"}
BoundaryKinds == SyncKinds \cup {"Disconnect"}
Sessions == {"Disconnected", "Syncing", "Authorizing", "Ready", "Disconnecting",
             "AuthRequired", "Offline", "ConfigError", "ServiceError"}
\* FailureKind up to what the reducer tells apart.  "auth": AuthorizationExpired,
\* IdentityInvalid, ImapAuthenticationFailed; "save": CredentialSaveFailed;
\* "cleanup": DisconnectFailed; "denied" is the one that is not retryable.
FailureKinds == {"none", "net", "auth", "save", "cleanup", "worker", "denied", "config", "browser"}

Command == [type : BoundaryKinds \cup {"none", "Cancel", "Poll", "Folder", "Shutdown"},
            op : Nat, acct : MaybeAccount]
Event == [type : {"Phase", "AuthorizationRequired", "IdentityVerified", "CacheLoaded",
                  "NoStoredAccount", "Cancelled", "SyncComplete", "Disconnected", "Failed",
                  "PollComplete", "PollFailed", "FolderCacheLoaded", "FolderLoaded", "FolderFailed"},
          op : Nat, acct : MaybeAccount, fail : FailureKinds, keep : BOOLEAN]
Task == [op : Nat, kind : BoundaryKinds \cup {"none"}, acct : MaybeAccount, cached : MaybeAccount,
         pc : {"none", "start", "config", "browser", "exchange", "load", "refresh", "identity",
               "prepare", "prepareErr", "verified", "authorize", "mark", "save", "fetch",
               "commit", "commitErr", "synced", "begin", "drafts", "clear", "clearErr", "token",
               "finished"}]
Poll == [id : Nat, acct : MaybeAccount, epoch : Nat,
         pc : {"none", "auth", "refresh", "permit", "replace", "fetch", "lane", "commit",
               "saved", "savedErr", "stale", "finished"}]
Folder == [id : Nat, acct : MaybeAccount,
           pc : {"none", "credentials", "lane", "fetch", "commit", "saved", "stale"}]
Closure == [kind : {"prepare", "sync", "clear", "poll", "folder"}, acct : MaybeAccount,
            id : Nat, epoch : Nat, live : BOOLEAN, inside : BOOLEAN]

Cmd(type, id, a) == [type |-> type, op |-> id, acct |-> a]
NoCmd == Cmd("none", 0, NoAccount)
Evt(type, id, a) == [type |-> type, op |-> id, acct |-> a, fail |-> "none", keep |-> TRUE]
Failure(type, id, kind, keep) == [type |-> type, op |-> id, acct |-> NoAccount, fail |-> kind, keep |-> keep]
NoTask == [op |-> 0, kind |-> "none", acct |-> NoAccount, cached |-> NoAccount, pc |-> "none"]
NewTask(c) == [op |-> c.op, kind |-> c.type, acct |-> c.acct, cached |-> NoAccount,
               pc |-> IF c.type = "Disconnect" THEN "begin" ELSE "start"]
NoPoll == [id |-> 0, acct |-> NoAccount, epoch |-> 0, pc |-> "none"]
NoFolder == [id |-> 0, acct |-> NoAccount, pc |-> "none"]

Send(c) == cmds' = Append(cmds, c)
Emit(e) == evts' = Append(evts, e)

-----------------------------------------------------------------------------
(* The process starts: dispatch(Startup) has sent Restore.  On disk: nothing, *)
(* an account with or without a cached mailbox, or mail without a token.      *)

Startup ==
    /\ session = "Syncing" /\ failure = "none" /\ uiAccount = NoAccount /\ shown = NoAccount
    /\ activeOp = 1 /\ nextOp = 2 /\ recovery = "Restore"
    /\ uiPoll = 0 /\ nextPoll = 1 /\ pollPaused = TRUE
    /\ uiFolder = 0 /\ nextFolder = 1
    /\ cmds = <<Cmd("Restore", 1, NoAccount)>> /\ evts = <<>>
    /\ held = NoCmd /\ task = NoTask /\ cleanup = FALSE
    /\ poll = NoPoll /\ folder = NoFolder
    /\ epoch = 0 /\ fgate = 0 /\ auth = NoAccount /\ lane = "free"
    /\ closures = {} /\ run = "up"

Init ==
    /\ Startup
    /\ keyring \in MaybeAccount /\ mailbox \in MaybeAccount /\ drafts \in SUBSET Accounts
    /\ keyring # NoAccount => mailbox \in {NoAccount, keyring}
    /\ drafts \subseteq {keyring, mailbox}
    /\ restarts = 0 /\ stray = FALSE /\ erased = NoAccount

-----------------------------------------------------------------------------
(* The reducer: what the person does *)

CanConnect ==
    \/ session \in {"Disconnected", "AuthRequired"}
    \/ uiAccount = NoAccount /\ session = "ServiceError" /\ failure \notin {"cleanup", "worker"}
CanDisconnect == uiAccount # NoAccount /\ session # "Disconnecting"
CanCancel == session = "Authorizing"
CanRetry ==
    \/ session = "AuthRequired"
    \/ session \in {"Offline", "ConfigError", "ServiceError"} /\ failure # "denied"

\* Takes the next operation id; None once the ids run out.
Allocate ==
    /\ nextOp <= MaxOps
    /\ activeOp' = nextOp /\ nextOp' = nextOp + 1

Start(kind) ==
    /\ Allocate
    /\ session' = "Syncing" /\ failure' = "none" /\ recovery' = kind /\ uiFolder' = 0
    /\ Send(Cmd(kind, nextOp, NoAccount))
    /\ erased' = IF kind = "Connect" THEN NoAccount ELSE erased
    /\ UNCHANGED <<uiAccount, shown, uiPoll, nextPoll, pollPaused, nextFolder, evts,
                   workerVars, closures, diskVars, run, restarts, stray>>

Disconnect ==
    /\ uiAccount # NoAccount \/ recovery = "Disconnect"
    /\ Allocate
    /\ session' = "Disconnecting" /\ failure' = "none" /\ recovery' = "Disconnect"
    /\ shown' = NoAccount
    /\ uiPoll' = 0 /\ pollPaused' = TRUE /\ uiFolder' = 0
    /\ Send(Cmd("Disconnect", nextOp, uiAccount))
    /\ UNCHANGED <<uiAccount, nextPoll, nextFolder, evts, workerVars, closures, diskVars,
                   run, restarts, stray, erased>>

LoadFolder ==
    /\ uiAccount # NoAccount /\ shown # NoAccount
    /\ nextFolder <= MaxFolders
    /\ uiFolder' = nextFolder /\ nextFolder' = nextFolder + 1
    /\ Send(Cmd("Folder", nextFolder, uiAccount))
    /\ UNCHANGED <<session, failure, uiAccount, shown, activeOp, nextOp, recovery, uiPoll,
                   nextPoll, pollPaused, evts, workerVars, closures, diskVars, run,
                   restarts, stray, erased>>

ClickConnect == run = "up" /\ CanConnect /\ Start("Connect")
ClickDisconnect == run = "up" /\ CanDisconnect /\ Disconnect
SelectFolder == run = "up" /\ LoadFolder
\* Retrying a folder is SelectFolder again.
ClickRetry ==
    /\ run = "up" /\ CanRetry
    /\ \/ recovery \in SyncKinds /\ Start(recovery)
       \/ recovery = "Disconnect" /\ Disconnect

\* cancel(): the Cancel command carries a fresh id, so every event of the
\* cancelled operation is stale from here on.
ClickCancel ==
    /\ run = "up" /\ CanCancel
    /\ Allocate
    /\ session' = "Disconnected" /\ failure' = "none"
    /\ Send(Cmd("Cancel", nextOp, NoAccount))
    /\ UNCHANGED <<uiAccount, shown, recovery, uiPoll, nextPoll, pollPaused, uiFolder, nextFolder,
                   evts, workerVars, closures, diskVars, run, restarts, stray, erased>>

\* BrowserLaunchFailed of the operation that asked for a browser.  Without an
\* id left nothing is sent; the operation is dropped either way.
BrowserLaunchFailed ==
    /\ run = "up" /\ session = "Authorizing" /\ activeOp # 0
    /\ session' = "ServiceError" /\ failure' = "browser"
    /\ activeOp' = 0
    /\ IF nextOp <= MaxOps
       THEN nextOp' = nextOp + 1 /\ Send(Cmd("Cancel", nextOp, NoAccount))
       ELSE UNCHANGED <<nextOp, cmds>>
    /\ UNCHANGED <<uiAccount, shown, recovery, uiPoll, nextPoll, pollPaused, uiFolder, nextFolder,
                   evts, workerVars, closures, diskVars, run, restarts, stray, erased>>

BackgroundTimer ==
    /\ run = "up"
    /\ session = "Ready" /\ uiAccount # NoAccount /\ shown # NoAccount
    /\ activeOp = 0 /\ uiFolder = 0 /\ uiPoll = 0 /\ ~pollPaused
    /\ nextPoll <= MaxPolls
    /\ uiPoll' = nextPoll /\ nextPoll' = nextPoll + 1
    /\ Send(Cmd("Poll", nextPoll, uiAccount))
    /\ UNCHANGED <<session, failure, uiAccount, shown, activeOp, nextOp, recovery, pollPaused,
                   uiFolder, nextFolder, evts, workerVars, closures, diskVars, run,
                   restarts, stray, erased>>

\* The window is destroyed: Shutdown is queued and the reducer runs no more.
CloseWindow ==
    /\ run = "up"
    /\ run' = "closing"
    /\ Send(Cmd("Shutdown", 0, NoAccount))
    /\ UNCHANGED <<uiVars, evts, workerVars, closures, diskVars, restarts, stray, erased>>

-----------------------------------------------------------------------------
(* The reducer: what the worker reports *)

Receive(type) == run = "up" /\ evts # <<>> /\ Head(evts).type = type /\ evts' = Tail(evts)
\* Mutated: the operation id of an event is not compared.
ReceiveAny(type) == Receive(type)
ReceiveOwn(type) == Receive(type) /\ Head(evts).op = activeOp
NotUi == <<cmds, workerVars, closures, diskVars, run, restarts, stray>>

\* account_worker_event drops every lifecycle event of another operation.
DropStaleEvent ==
    /\ run = "up" /\ evts # <<>> /\ evts' = Tail(evts)
    /\ LET e == Head(evts) IN
         CASE e.type \in {"PollComplete", "PollFailed"} -> e.op # uiPoll
           [] e.type \in {"FolderCacheLoaded", "FolderLoaded", "FolderFailed"} -> e.op # uiFolder
           [] OTHER -> e.op # activeOp
    /\ UNCHANGED <<uiVars, NotUi, erased>>

OnPhase ==
    /\ ReceiveOwn("Phase")
    /\ session' = "Syncing" /\ failure' = "none"
    /\ UNCHANGED <<uiAccount, shown, activeOp, nextOp, recovery, uiPoll, nextPoll, pollPaused,
                   uiFolder, nextFolder, NotUi, erased>>

OnAuthorizationRequired ==
    /\ ReceiveOwn("AuthorizationRequired")
    /\ session' = "Authorizing" /\ failure' = "none"
    /\ UNCHANGED <<uiAccount, shown, activeOp, nextOp, recovery, uiPoll, nextPoll, pollPaused,
                   uiFolder, nextFolder, NotUi, erased>>

\* Mutated: the previous account's mailbox stays on the screen.
OnIdentityVerifiedKeepingMail ==
    /\ ReceiveOwn("IdentityVerified")
    /\ uiAccount' = Head(evts).acct
    /\ UNCHANGED <<session, failure, shown, activeOp, nextOp, recovery, uiPoll, nextPoll, pollPaused,
                   uiFolder, nextFolder, NotUi, erased>>

\* A new identity takes the previous account's polls, folder and mailbox away.
OnIdentityVerified ==
    /\ ReceiveOwn("IdentityVerified")
    /\ LET a == Head(evts).acct IN
         /\ uiAccount' = a
         /\ IF uiAccount # a
            THEN shown' = NoAccount /\ uiPoll' = 0 /\ pollPaused' = TRUE /\ uiFolder' = 0
            ELSE UNCHANGED <<shown, uiPoll, pollPaused, uiFolder>>
    /\ UNCHANGED <<session, failure, activeOp, nextOp, recovery, nextPoll, nextFolder, NotUi, erased>>

\* A folder request that stays open although its folder is no longer selected,
\* so that its results are dropped; no request has this id.
Orphaned == MaxFolders + 1

\* The Inbox is selected.  A request for another folder stays open.
OnCacheLoaded ==
    /\ ReceiveOwn("CacheLoaded")
    /\ uiFolder' \in IF uiFolder = 0 THEN {0} ELSE {uiFolder, Orphaned}
    /\ LET a == Head(evts).acct IN
         /\ uiAccount' = a /\ shown' = a
         /\ IF uiAccount # a THEN uiPoll' = 0 /\ pollPaused' = TRUE ELSE UNCHANGED <<uiPoll, pollPaused>>
    /\ UNCHANGED <<session, failure, activeOp, nextOp, recovery, nextPoll, nextFolder, NotUi, erased>>

\* NoStoredAccount, and Cancelled unless a browser failure is on display.
OnSignedOut ==
    /\ \/ ReceiveOwn("NoStoredAccount") /\ session' = "Disconnected" /\ failure' = "none" /\ recovery' = "None"
       \/ /\ ReceiveOwn("Cancelled")
          /\ IF session = "ServiceError" /\ failure = "browser"
             THEN UNCHANGED <<session, failure, recovery>>
             ELSE session' = "Disconnected" /\ failure' = "none" /\ recovery' = "None"
    /\ activeOp' = 0
    /\ UNCHANGED <<uiAccount, shown, nextOp, uiPoll, nextPoll, pollPaused, uiFolder, nextFolder, NotUi, erased>>

OnSyncComplete ==
    /\ ReceiveOwn("SyncComplete")
    /\ LET a == Head(evts).acct IN
         /\ uiAccount' = a /\ shown' = a
         /\ IF uiAccount # a THEN uiPoll' = 0 /\ uiFolder' = 0 ELSE UNCHANGED <<uiPoll, uiFolder>>
    /\ session' = "Ready" /\ failure' = "none" /\ activeOp' = 0 /\ recovery' = "None"
    /\ pollPaused' = FALSE
    /\ UNCHANGED <<nextOp, nextPoll, nextFolder, NotUi, erased>>

OnDisconnected ==
    /\ ReceiveOwn("Disconnected")
    /\ session' = "Disconnected" /\ failure' = "none" /\ activeOp' = 0 /\ recovery' = "None"
    /\ uiAccount' = NoAccount /\ shown' = NoAccount
    /\ uiPoll' = 0 /\ pollPaused' = TRUE /\ uiFolder' = 0
    /\ erased' = Head(evts).acct
    /\ UNCHANGED <<nextOp, nextPoll, nextFolder, NotUi>>

OnFailed ==
    /\ ReceiveOwn("Failed")
    /\ LET f == Head(evts).fail IN
         /\ recovery' = CASE f \in {"auth", "save"} -> "Connect"
                          [] f = "cleanup" -> "Disconnect"
                          [] OTHER -> recovery
         /\ session' = IF f = "auth" THEN "AuthRequired"
                        ELSE IF f # "cleanup" /\ Head(evts).keep /\ shown # NoAccount THEN "Offline"
                        ELSE IF f = "config" THEN "ConfigError"
                        ELSE "ServiceError"
         /\ failure' = f
    /\ activeOp' = 0
    /\ UNCHANGED <<uiAccount, shown, nextOp, uiPoll, nextPoll, pollPaused, uiFolder, nextFolder, NotUi, erased>>

\* The snapshot is published only when the Inbox is the whole visible surface.
OnPollComplete ==
    /\ Receive("PollComplete") /\ Head(evts).op = uiPoll
    /\ IF Head(evts).acct = uiAccount
       THEN uiPoll' = 0 /\ shown' \in {shown, Head(evts).acct}
       ELSE UNCHANGED <<uiPoll, shown>>
    /\ UNCHANGED <<session, failure, uiAccount, activeOp, nextOp, recovery, nextPoll, pollPaused,
                   uiFolder, nextFolder, NotUi, erased>>

OnPollFailed ==
    /\ Receive("PollFailed") /\ Head(evts).op = uiPoll
    /\ uiPoll' = 0 /\ pollPaused' = (pollPaused \/ ~Head(evts).keep)
    /\ UNCHANGED <<session, failure, uiAccount, shown, activeOp, nextOp, recovery, nextPoll,
                   uiFolder, nextFolder, NotUi, erased>>

\* The cached view is shown while the request stays open.
OnFolderCacheLoaded ==
    /\ Receive("FolderCacheLoaded") /\ Head(evts).op = uiFolder
    /\ shown' = Head(evts).acct
    /\ UNCHANGED <<session, failure, uiAccount, activeOp, nextOp, recovery, uiPoll, nextPoll, pollPaused,
                   uiFolder, nextFolder, NotUi, erased>>

OnFolderLoaded ==
    /\ Receive("FolderLoaded") /\ Head(evts).op = uiFolder
    /\ shown' = Head(evts).acct /\ uiFolder' = 0
    /\ session' = "Ready" /\ failure' = "none" /\ recovery' = "None"
    /\ UNCHANGED <<uiAccount, activeOp, nextOp, uiPoll, nextPoll, pollPaused, nextFolder, NotUi, erased>>

\* "worker" stands for the protocol failures, which leave the session alone.
OnFolderFailed ==
    /\ Receive("FolderFailed") /\ Head(evts).op = uiFolder
    /\ uiFolder' = 0
    /\ LET f == Head(evts).fail IN
         CASE f = "net" -> session' = "Offline" /\ failure' = "net" /\ recovery' = "Folder"
           [] f = "auth" -> session' = "AuthRequired" /\ failure' = "none" /\ recovery' = "Connect"
           [] OTHER -> UNCHANGED <<session, failure, recovery>>
    /\ UNCHANGED <<uiAccount, shown, activeOp, nextOp, uiPoll, nextPoll, pollPaused, nextFolder, NotUi, erased>>

-----------------------------------------------------------------------------
(* The controller *)

WorkerUp == run \in {"up", "closing"}
Received(types) == WorkerUp /\ held = NoCmd /\ cmds # <<>> /\ Head(cmds).type \in types
NotWorker == <<uiVars, run, restarts, erased>>

\* Dropping a JoinHandle detaches the closures of an aborted task: they still
\* run, and nobody waits for them.
Detach(kinds) == closures' = {IF c.kind \in kinds THEN [c EXCEPT !.live = FALSE] ELSE c : c \in closures}
TaskClosures == {"prepare", "sync", "clear"}
Freed(holders) == IF lane \in holders THEN "free" ELSE lane

\* background_is_current
Current(p) == epoch = p.epoch /\ auth = p.acct

\* Cancel: abort_with_cleanup deletes the credential a task has written, then
\* the answer is Cancelled, or a failed cleanup.
CtlCancel ==
    /\ Received({"Cancel"})
    /\ cmds' = Tail(cmds)
    /\ task' = NoTask /\ lane' = Freed({"task"}) /\ cleanup' = FALSE
    /\ Detach(TaskClosures)
    /\ \/ /\ keyring' = IF cleanup THEN NoAccount ELSE keyring
          /\ Emit(Evt("Cancelled", Head(cmds).op, NoAccount))
       \/ /\ cleanup
          /\ keyring' = keyring
          /\ Emit(Failure("Failed", Head(cmds).op, "cleanup", TRUE))
    /\ UNCHANGED <<NotWorker, held, poll, folder, epoch, fgate, auth, mailbox, drafts, stray>>

\* A live poll keeps its slot: the second request gets a retryable failure.
CtlBackgroundSync ==
    /\ Received({"Poll"})
    /\ cmds' = Tail(cmds)
    /\ IF poll.pc \in {"none", "finished"}
       THEN /\ poll' = [id |-> Head(cmds).op, acct |-> Head(cmds).acct, epoch |-> epoch, pc |-> "auth"]
            /\ UNCHANGED evts
       ELSE /\ Emit(Failure("PollFailed", Head(cmds).op, "worker", TRUE))
            /\ UNCHANGED poll
    /\ UNCHANGED <<NotWorker, held, task, cleanup, folder, epoch, fgate, auth, lane, closures, diskVars, stray>>

CtlFetchFolder ==
    /\ Received({"Folder"})
    /\ cmds' = Tail(cmds)
    /\ fgate' = Head(cmds).op
    /\ folder' = [id |-> Head(cmds).op, acct |-> Head(cmds).acct, pc |-> "credentials"]
    /\ lane' = Freed({"folder"})
    /\ Detach({"folder"})
    /\ UNCHANGED <<NotWorker, evts, held, task, cleanup, poll, epoch, auth, diskVars, stray>>

\* Mutated: the aborted poll's request is not answered.
CtlBoundarySilent ==
    /\ Received(BoundaryKinds)
    /\ held' = Head(cmds) /\ cmds' = Tail(cmds)
    /\ epoch' = epoch + 1
    /\ poll' = NoPoll /\ lane' = Freed({"poll"}) /\ Detach({"poll"})
    /\ UNCHANGED <<NotWorker, evts, task, cleanup, folder, fgate, auth, diskVars, stray>>

\* Mutated: the poll is told to stop and not aborted.
CtlBoundaryKeepingPoll ==
    /\ Received(BoundaryKinds)
    /\ held' = Head(cmds) /\ cmds' = Tail(cmds)
    /\ epoch' = epoch + 1
    /\ UNCHANGED <<NotWorker, evts, task, cleanup, poll, folder, fgate, auth, lane, closures, diskVars, stray>>

\* An account boundary, first half: the epoch moves before the poll is
\* aborted, and the poll's request is answered.  Then drain_mutations is awaited.
CtlBoundary ==
    /\ Received(BoundaryKinds)
    /\ held' = Head(cmds) /\ cmds' = Tail(cmds)
    /\ epoch' = epoch + 1
    /\ poll' = NoPoll /\ lane' = Freed({"poll"}) /\ Detach({"poll"})
    /\ IF poll # NoPoll
       THEN Emit(Failure("PollFailed", poll.id, "worker", TRUE))
       ELSE UNCHANGED evts
    /\ UNCHANGED <<NotWorker, task, cleanup, folder, fgate, auth, diskVars, stray>>

\* Mutated: the runtime authorization outlives Disconnect.
CtlDisconnectKeepingAuth ==
    /\ WorkerUp /\ held.type = "Disconnect"
    /\ held' = NoCmd
    /\ fgate' = 0
    /\ folder' = NoFolder /\ lane' = Freed({"folder", "task"})
    /\ Detach(TaskClosures \cup {"folder"})
    /\ task' = NewTask(held) /\ cleanup' = FALSE
    /\ UNCHANGED <<NotWorker, cmds, evts, poll, epoch, auth, diskVars, stray>>

\* Second half of Disconnect: the session's token is dropped, the active task
\* is aborted without touching the credential, and the Disconnect task starts.
CtlDisconnect ==
    /\ WorkerUp /\ held.type = "Disconnect"
    /\ held' = NoCmd
    /\ fgate' = 0 /\ auth' = NoAccount
    /\ folder' = NoFolder /\ lane' = Freed({"folder", "task"})
    /\ Detach(TaskClosures \cup {"folder"})
    /\ task' = NewTask(held) /\ cleanup' = FALSE
    /\ UNCHANGED <<NotWorker, cmds, evts, poll, epoch, diskVars, stray>>

\* Second half of Connect and Restore.  A credential left by the aborted task
\* is deleted first; if that fails the command is answered and dropped.
CtlStartSync ==
    /\ WorkerUp /\ held.type \in SyncKinds
    /\ held' = NoCmd
    /\ folder' = NoFolder /\ lane' = Freed({"folder", "task"})
    /\ Detach(TaskClosures \cup {"folder"})
    /\ cleanup' = FALSE
    /\ \/ /\ keyring' = IF cleanup THEN NoAccount ELSE keyring
          /\ task' = NewTask(held)
          /\ UNCHANGED evts
       \/ /\ cleanup
          /\ keyring' = keyring
          /\ task' = NoTask
          /\ Emit(Failure("Failed", held.op, "cleanup", TRUE))
    /\ UNCHANGED <<NotWorker, cmds, poll, epoch, fgate, auth, mailbox, drafts, stray>>

\* Every task is aborted; a credential the active task has written is deleted
\* (or the deletion fails, which nobody hears).  The runtime is then dropped.
CtlShutdown ==
    /\ Received({"Shutdown"})
    /\ cmds' = Tail(cmds)
    /\ run' = "draining"
    /\ epoch' = epoch + 1 /\ fgate' = 0 /\ auth' = NoAccount
    /\ poll' = NoPoll /\ folder' = NoFolder /\ task' = NoTask /\ cleanup' = FALSE /\ lane' = "free"
    /\ Detach(TaskClosures \cup {"poll", "folder"})
    /\ keyring' \in IF cleanup THEN {NoAccount, keyring} ELSE {keyring}
    /\ UNCHANGED <<uiVars, restarts, erased, evts, held, mailbox, drafts, stray>>

\* select! is biased: a finished task is reaped when no command waits.
CtlReap ==
    /\ WorkerUp /\ held = NoCmd /\ cmds = <<>>
    /\ task.pc = "finished"
    /\ task' = NoTask /\ cleanup' = FALSE
    /\ UNCHANGED <<NotWorker, cmds, evts, held, poll, folder, epoch, fgate, auth, lane, closures, diskVars, stray>>

-----------------------------------------------------------------------------
(* The lifecycle task: Connect, Restore, Disconnect *)

At(pc) == WorkerUp /\ task.pc = pc
Goto(pc) == task' = [task EXCEPT !.pc = pc]
Spawn(kind) == closures' = closures \cup
    {[kind |-> kind, acct |-> task.acct, id |-> task.op, epoch |-> 0, live |-> TRUE, inside |-> FALSE]}
Finish == Goto("finished") /\ lane' = Freed({"task"}) /\ cleanup' = FALSE
\* A failed cleanup leaves the flag for the next abort.
FailTask(kind, keep) ==
    /\ Emit(Failure("Failed", task.op, kind, keep))
    /\ Goto("finished") /\ lane' = Freed({"task"})
    /\ cleanup' = (cleanup /\ kind = "cleanup")
KeepLane == UNCHANGED <<lane, cleanup>>
NotTask == <<NotWorker, cmds, held, poll, folder, epoch, fgate>>

TaskAcquireLane ==
    /\ At("start") /\ lane = "free"
    /\ lane' = "task"
    /\ Goto(IF task.kind = "Connect" THEN "config" ELSE "load")
    /\ UNCHANGED <<NotTask, evts, cleanup, auth, closures, diskVars, stray>>

ConnectListen ==
    /\ At("config")
    /\ \/ \E f \in {"config", "net"} : FailTask(f, FALSE)
       \/ Emit(Evt("AuthorizationRequired", task.op, NoAccount)) /\ Goto("browser") /\ KeepLane
    /\ UNCHANGED <<NotTask, auth, closures, diskVars, stray>>

\* The callback arrives, is refused, or CALLBACK_TIMEOUT passes.
ConnectCallback ==
    /\ At("browser")
    /\ \/ FailTask("net", FALSE)
       \/ FailTask("denied", TRUE)
       \/ Emit(Evt("Phase", task.op, NoAccount)) /\ Goto("exchange") /\ KeepLane
    /\ UNCHANGED <<NotTask, auth, closures, diskVars, stray>>

\* exchange_code and fetch_identity: the person may have chosen any account.
ConnectExchange ==
    /\ At("exchange")
    /\ \/ (\E f \in {"net", "auth"} : FailTask(f, TRUE)) /\ UNCHANGED closures
       \/ \E a \in Accounts :
            /\ task' = [task EXCEPT !.pc = "prepare", !.acct = a]
            /\ closures' = closures \cup {[kind |-> "prepare", acct |-> a, id |-> task.op, epoch |-> 0,
                                           live |-> TRUE, inside |-> FALSE]}
            /\ KeepLane /\ UNCHANGED evts
    /\ UNCHANGED <<NotTask, auth, diskVars, stray>>

\* Mutated: a missing token ends the task without an event.
RestoreLoadSilent ==
    /\ At("load")
    /\ \/ keyring = NoAccount /\ Finish /\ UNCHANGED evts
       \/ /\ keyring # NoAccount
          /\ task' = [task EXCEPT !.pc = "refresh", !.acct = keyring, !.cached = mailbox]
          /\ KeepLane /\ UNCHANGED evts
    /\ UNCHANGED <<NotTask, auth, closures, diskVars, stray>>

RestoreLoad ==
    /\ At("load")
    /\ \/ FailTask("net", TRUE)
       \/ keyring = NoAccount /\ Emit(Evt("NoStoredAccount", task.op, NoAccount)) /\ Finish
       \/ /\ keyring # NoAccount
          /\ task' = [task EXCEPT !.pc = "refresh", !.acct = keyring, !.cached = mailbox]
          /\ KeepLane /\ UNCHANGED evts
    /\ UNCHANGED <<NotTask, auth, closures, diskVars, stray>>

\* An expired token is deleted; a rotated one is saved before it is used.
RestoreRefresh ==
    /\ At("refresh")
    /\ \/ (\E f \in {"config", "net", "save", "cleanup"} : FailTask(f, TRUE)) /\ UNCHANGED keyring
       \/ keyring' = NoAccount /\ FailTask("auth", TRUE)
       \/ (\E pc \in {"identity", "mark"} : Goto(pc)) /\ KeepLane /\ UNCHANGED <<evts, keyring>>
    /\ UNCHANGED <<NotTask, auth, closures, mailbox, drafts, stray>>

RestoreIdentity ==
    /\ At("identity")
    /\ \/ (\E f \in {"net", "auth"} : FailTask(f, TRUE)) /\ UNCHANGED closures
       \/ Goto("prepare") /\ Spawn("prepare") /\ KeepLane /\ UNCHANGED evts
    /\ UNCHANGED <<NotTask, auth, diskVars, stray>>

TaskVerified ==
    /\ At("verified")
    /\ Emit(Evt("IdentityVerified", task.op, task.acct)) /\ Goto("authorize")
    /\ UNCHANGED <<NotTask, cleanup, lane, auth, closures, diskVars, stray>>

\* The access token is published before the refresh token is stored.
TaskAuthorize ==
    /\ At("authorize")
    /\ auth' = task.acct
    /\ \/ task.kind = "Connect" /\ \E f \in {"auth", "save", "worker"} : FailTask(f, FALSE)
       \/ task.kind = "Connect" /\ Goto("mark") /\ KeepLane /\ UNCHANGED evts
       \/ /\ task.kind = "Restore" /\ Goto("fetch") /\ KeepLane
          /\ IF task.cached = task.acct
             THEN Emit(Evt("CacheLoaded", task.op, task.acct))
             ELSE UNCHANGED evts
    /\ UNCHANGED <<NotTask, closures, diskVars, stray>>

\* save_with_cleanup raises the flag before the keyring is touched.
TaskMark ==
    /\ At("mark")
    /\ cleanup' = TRUE /\ Goto("save")
    /\ UNCHANGED <<NotTask, evts, lane, auth, closures, diskVars, stray>>

TaskSave ==
    /\ At("save")
    /\ \/ /\ keyring' = task.acct
          /\ Goto(IF task.kind = "Connect" THEN "fetch" ELSE "identity")
          /\ KeepLane /\ UNCHANGED evts
       \/ keyring' = NoAccount /\ FailTask("save", task.kind = "Restore")
       \/ keyring' \in {keyring, task.acct} /\ FailTask("cleanup", task.kind = "Restore")
    /\ UNCHANGED <<NotTask, auth, closures, mailbox, drafts, stray>>

TaskFetch ==
    /\ At("fetch")
    /\ \/ (\E f \in {"net", "auth"} : FailTask(f, TRUE)) /\ UNCHANGED closures
       \/ Goto("commit") /\ Spawn("sync") /\ KeepLane /\ UNCHANGED evts
    /\ UNCHANGED <<NotTask, auth, diskVars, stray>>

TaskSynced ==
    /\ At("synced")
    /\ Emit(Evt("SyncComplete", task.op, task.acct)) /\ Finish
    /\ UNCHANGED <<NotTask, auth, closures, diskVars, stray>>

TaskCacheError ==
    /\ \/ At("prepareErr") /\ FailTask("worker", FALSE)
       \/ At("commitErr") /\ FailTask("worker", TRUE)
       \/ At("clearErr") /\ FailTask("cleanup", FALSE)
    /\ UNCHANGED <<NotTask, auth, closures, diskVars, stray>>

DisconnectBegin ==
    /\ At("begin")
    /\ Emit(Evt("Phase", task.op, NoAccount)) /\ Goto("drafts")
    /\ UNCHANGED <<NotTask, cleanup, lane, auth, closures, diskVars, stray>>

\* PurgeAccount; without an account email there is nothing to purge.
DisconnectDrafts ==
    /\ At("drafts")
    /\ \/ drafts' \in {drafts, drafts \ {task.acct}} /\ FailTask("cleanup", FALSE) /\ UNCHANGED closures
       \/ drafts' = drafts \ {task.acct} /\ Goto("clear") /\ Spawn("clear") /\ KeepLane /\ UNCHANGED evts
    /\ UNCHANGED <<NotTask, auth, keyring, mailbox, stray>>

DisconnectToken ==
    /\ At("token")
    /\ \/ keyring' = NoAccount /\ Emit(Evt("Disconnected", task.op, task.acct)) /\ Finish
       \/ keyring' \in {keyring, NoAccount} /\ FailTask("cleanup", FALSE)
    /\ UNCHANGED <<NotTask, auth, closures, mailbox, drafts, stray>>

-----------------------------------------------------------------------------
(* The background poll and the folder task *)

PollAt(pc) == WorkerUp /\ poll.pc = pc
PollGoto(pc) == poll' = [poll EXCEPT !.pc = pc]
\* emit_background_failure_if_current, and the end of the task.
PollFail(keep) ==
    /\ PollGoto("finished")
    /\ lane' = Freed({"poll"})
    /\ IF epoch = poll.epoch THEN Emit(Failure("PollFailed", poll.id, "net", keep)) ELSE UNCHANGED evts
PollLeave == PollGoto("finished") /\ lane' = Freed({"poll"}) /\ UNCHANGED evts
NotPoll == <<NotWorker, cmds, held, task, cleanup, folder, epoch, fgate, auth, mailbox, drafts, stray>>

PollAuth ==
    /\ PollAt("auth")
    /\ IF auth = poll.acct
       THEN (\E pc \in {"fetch", "refresh"} : PollGoto(pc)) /\ UNCHANGED <<lane, evts>>
       ELSE PollFail(FALSE)
    /\ UNCHANGED <<NotPoll, closures, keyring>>

\* The access token is old: the stored credential is refreshed, and may rotate.
PollRefresh ==
    /\ PollAt("refresh")
    /\ \/ PollFail(keyring # NoAccount)
       \/ keyring # NoAccount /\ (\E pc \in {"fetch", "permit"} : PollGoto(pc)) /\ UNCHANGED <<lane, evts>>
    /\ UNCHANGED <<NotPoll, closures, keyring>>

\* Mutated: closures do not take the cache_io mutex.
IoShared == TRUE
IoFree == \A c \in closures : ~c.inside

\* background_cache_write_permitted, under cache_io.
PollPermit ==
    /\ PollAt("permit") /\ IoFree
    /\ IF Current(poll) THEN PollGoto("replace") /\ UNCHANGED <<lane, evts>> ELSE PollLeave
    /\ UNCHANGED <<NotPoll, closures, keyring>>

PollReplace ==
    /\ PollAt("replace")
    /\ \/ keyring' = poll.acct /\ (IF Current(poll) THEN PollGoto("fetch") /\ UNCHANGED <<lane, evts>> ELSE PollLeave)
       \/ keyring' \in {keyring, poll.acct} /\ PollFail(TRUE)
    /\ UNCHANGED <<NotPoll, closures>>

PollFetch ==
    /\ PollAt("fetch")
    /\ \/ \E keep \in BOOLEAN : PollFail(keep)
       \/ IF Current(poll) THEN PollGoto("lane") /\ UNCHANGED <<lane, evts>> ELSE PollLeave
    /\ UNCHANGED <<NotPoll, closures, keyring>>

PollLane ==
    /\ PollAt("lane") /\ lane = "free"
    /\ IF Current(poll)
       THEN /\ PollGoto("commit") /\ lane' = "poll" /\ UNCHANGED evts
            /\ closures' = closures \cup {[kind |-> "poll", acct |-> poll.acct, id |-> poll.id,
                                           epoch |-> poll.epoch, live |-> TRUE, inside |-> FALSE]}
       ELSE PollLeave /\ UNCHANGED closures
    /\ UNCHANGED <<NotPoll, keyring>>

PollPublish ==
    /\ \/ /\ PollAt("saved") \/ PollAt("stale")
          /\ IF poll.pc = "saved" /\ Current(poll)
             THEN Emit(Evt("PollComplete", poll.id, poll.acct)) /\ PollGoto("finished") /\ lane' = Freed({"poll"})
             ELSE PollLeave
       \/ PollAt("savedErr") /\ PollFail(TRUE)
    /\ UNCHANGED <<NotPoll, closures, keyring>>

FolderAt(pc) == WorkerUp /\ folder.pc = pc
FolderEnd == folder' = NoFolder /\ lane' = Freed({"folder"})
NotFolder == <<NotWorker, cmds, held, task, cleanup, poll, epoch, fgate, auth, diskVars, stray>>

\* The cached view, if it was there when it was read, is published first.
\* Without an access token of the requested account the view asks for sign-in.
\* The token found here is the one used after the wait for the lane.
FolderCredentials ==
    /\ FolderAt("credentials")
    /\ IF fgate # folder.id
       THEN FolderEnd /\ UNCHANGED evts
       ELSE \E read \in {evts, Append(evts, Evt("FolderCacheLoaded", folder.id, folder.acct))} :
              IF auth = folder.acct
              THEN folder' = [folder EXCEPT !.pc = "lane"] /\ evts' = read /\ UNCHANGED lane
              ELSE evts' = Append(read, Failure("FolderFailed", folder.id, "auth", TRUE)) /\ FolderEnd
    /\ UNCHANGED <<NotFolder, closures>>

FolderLane ==
    /\ FolderAt("lane") /\ lane = "free"
    /\ IF fgate = folder.id
       THEN folder' = [folder EXCEPT !.pc = "fetch"] /\ lane' = "folder"
       ELSE FolderEnd
    /\ UNCHANGED <<NotFolder, evts, closures>>

FolderFetch ==
    /\ FolderAt("fetch")
    /\ \/ \E f \in {"net", "auth", "worker"} :
            /\ FolderEnd
            /\ IF fgate = folder.id THEN Emit(Failure("FolderFailed", folder.id, f, TRUE)) ELSE UNCHANGED evts
            /\ UNCHANGED closures
       \/ /\ folder' = [folder EXCEPT !.pc = "commit"]
          /\ closures' = closures \cup {[kind |-> "folder", acct |-> folder.acct, id |-> folder.id,
                                         epoch |-> 0, live |-> TRUE, inside |-> FALSE]}
          /\ UNCHANGED <<lane, evts>>
    /\ UNCHANGED NotFolder

FolderPublish ==
    /\ FolderAt("saved") \/ FolderAt("stale")
    /\ FolderEnd
    /\ IF folder.pc = "saved" /\ fgate = folder.id
       THEN Emit(Evt("FolderLoaded", folder.id, folder.acct))
       ELSE UNCHANGED evts
    /\ UNCHANGED <<NotFolder, closures>>

-----------------------------------------------------------------------------
(* Cache closures, on blocking threads, one inside cache_io at a time *)

Runnable(c, kind) == c \in closures /\ c.kind = kind /\ IoFree
Leave(c) == closures' = closures \ {c}
\* The result reaches the task that waits for it, if it still does.
WakeTask(c, pc) == task' = IF c.live THEN [task EXCEPT !.pc = pc] ELSE task
NotClosure == <<NotWorker, cmds, evts, held, cleanup, epoch, fgate, auth, lane, keyring, drafts>>

\* prepare_verified_account: mail of another account is removed.
RunPrepare(c) ==
    /\ Runnable(c, "prepare") /\ Leave(c)
    /\ \/ /\ WakeTask(c, "verified")
          /\ IF mailbox \in {NoAccount, c.acct}
             THEN UNCHANGED <<mailbox, stray>>
             ELSE mailbox' = NoAccount /\ stray' = FALSE
       \/ WakeTask(c, "prepareErr") /\ UNCHANGED <<mailbox, stray>>
    /\ UNCHANGED <<NotClosure, poll, folder>>

\* complete_sync: no generation is checked before the mailbox is replaced.
RunSync(c) ==
    /\ Runnable(c, "sync") /\ Leave(c)
    /\ \/ WakeTask(c, "synced") /\ mailbox' = c.acct /\ stray' = ~c.live
       \/ WakeTask(c, "commitErr") /\ UNCHANGED <<mailbox, stray>>
    /\ UNCHANGED <<NotClosure, poll, folder>>

\* Mutated: a failed removal counts as done.
RunClearCareless(c) ==
    /\ Runnable(c, "clear") /\ Leave(c)
    /\ WakeTask(c, "token") /\ mailbox' \in {mailbox, NoAccount} /\ stray' = (stray /\ mailbox' # NoAccount)
    /\ UNCHANGED <<NotClosure, poll, folder>>

\* clear_all_mail; the index may be gone although a later removal failed.
RunClear(c) ==
    /\ Runnable(c, "clear") /\ Leave(c)
    /\ \/ WakeTask(c, "token") /\ mailbox' = NoAccount /\ stray' = FALSE
       \/ WakeTask(c, "clearErr") /\ mailbox' \in {mailbox, NoAccount} /\ stray' = (stray /\ mailbox' # NoAccount)
    /\ UNCHANGED <<NotClosure, poll, folder>>

\* The gate of a poll or a folder closure is read inside cache_io.
Admitted(c) == IF c.kind = "poll" THEN epoch = c.epoch /\ auth = c.acct ELSE fgate = c.id
WakeOwner(c, pc) ==
    /\ poll' = IF c.live /\ c.kind = "poll" THEN [poll EXCEPT !.pc = pc] ELSE poll
    /\ folder' = IF c.live /\ c.kind = "folder" THEN [folder EXCEPT !.pc = pc] ELSE folder

EnterGated(c) ==
    /\ Runnable(c, "poll") \/ Runnable(c, "folder")
    /\ IF Admitted(c)
       THEN closures' = (closures \ {c}) \cup {[c EXCEPT !.inside = TRUE]} /\ UNCHANGED <<poll, folder>>
       ELSE Leave(c) /\ WakeOwner(c, "stale")
    /\ UNCHANGED <<NotClosure, task, mailbox, stray>>

\* A folder whose save fails is shown all the same (unwrap_or).
WriteGated(c) ==
    /\ c \in closures /\ c.inside /\ Leave(c)
    /\ \/ WakeOwner(c, "saved") /\ mailbox' = c.acct /\ stray' = FALSE
       \/ WakeOwner(c, IF c.kind = "poll" THEN "savedErr" ELSE "saved") /\ UNCHANGED <<mailbox, stray>>
    /\ UNCHANGED <<NotClosure, task>>

RunClosure == \E c \in closures :
    RunPrepare(c) \/ RunSync(c) \/ RunClear(c) \/ EnterGated(c) \/ WriteGated(c)

\* Dropping the runtime discards the closures no thread has started.
DropClosure ==
    /\ run = "draining"
    /\ \E c \in closures : ~c.inside /\ Leave(c)
    /\ UNCHANGED <<NotClosure, task, poll, folder, mailbox, stray>>

-----------------------------------------------------------------------------
(* The process ends, drained or killed, and starts again on what is on disk. *)

Restart ==
    /\ restarts < MaxRestarts
    /\ run = "draining" => closures = {}
    /\ restarts' = restarts + 1
    /\ session' = "Syncing" /\ failure' = "none" /\ uiAccount' = NoAccount /\ shown' = NoAccount
    /\ activeOp' = 1 /\ nextOp' = 2 /\ recovery' = "Restore"
    /\ uiPoll' = 0 /\ nextPoll' = 1 /\ pollPaused' = TRUE
    /\ uiFolder' = 0 /\ nextFolder' = 1
    /\ cmds' = <<Cmd("Restore", 1, NoAccount)>> /\ evts' = <<>>
    /\ held' = NoCmd /\ task' = NoTask /\ cleanup' = FALSE
    /\ poll' = NoPoll /\ folder' = NoFolder
    /\ epoch' = 0 /\ fgate' = 0 /\ auth' = NoAccount /\ lane' = "free"
    /\ closures' = {} /\ run' = "up"
    /\ UNCHANGED <<diskVars, stray, erased>>

UiStep ==
    \/ ClickConnect \/ ClickDisconnect \/ ClickRetry \/ ClickCancel \/ SelectFolder
    \/ BrowserLaunchFailed \/ BackgroundTimer \/ CloseWindow

UiEvent ==
    \/ DropStaleEvent
    \/ OnPhase \/ OnAuthorizationRequired \/ OnIdentityVerified \/ OnCacheLoaded
    \/ OnSignedOut \/ OnSyncComplete \/ OnDisconnected \/ OnFailed
    \/ OnPollComplete \/ OnPollFailed \/ OnFolderCacheLoaded \/ OnFolderLoaded \/ OnFolderFailed

CtlStep ==
    \/ CtlCancel \/ CtlBackgroundSync \/ CtlFetchFolder \/ CtlBoundary
    \/ CtlDisconnect \/ CtlStartSync \/ CtlShutdown \/ CtlReap

TaskStep ==
    \/ TaskAcquireLane \/ ConnectListen \/ ConnectCallback \/ ConnectExchange
    \/ RestoreLoad \/ RestoreRefresh \/ RestoreIdentity
    \/ TaskVerified \/ TaskAuthorize \/ TaskMark \/ TaskSave \/ TaskFetch \/ TaskSynced \/ TaskCacheError
    \/ DisconnectBegin \/ DisconnectDrafts \/ DisconnectToken

PollStep ==
    \/ PollAuth \/ PollRefresh \/ PollPermit \/ PollReplace \/ PollFetch \/ PollLane \/ PollPublish

FolderStep == FolderCredentials \/ FolderLane \/ FolderFetch \/ FolderPublish

Next == UiStep \/ UiEvent \/ CtlStep \/ TaskStep \/ PollStep \/ FolderStep
        \/ RunClosure \/ DropClosure \/ Restart

Spec == Init /\ [][Next]_vars

\* Both event loops run, every network, keyring and browser wait has a
\* timeout, and started closures end.  The person and the timer owe nothing.
Fairness ==
    /\ WF_vars(UiEvent) /\ WF_vars(CtlStep) /\ WF_vars(TaskStep)
    /\ WF_vars(PollStep) /\ WF_vars(FolderStep) /\ WF_vars(RunClosure)

FairSpec == Spec /\ Fairness

-----------------------------------------------------------------------------
(* Properties *)

UiTypeOK ==
    /\ session \in Sessions /\ failure \in FailureKinds
    /\ uiAccount \in MaybeAccount /\ shown \in MaybeAccount
    /\ activeOp \in Nat /\ nextOp \in Nat
    /\ recovery \in SyncKinds \cup {"None", "Disconnect", "Folder"}
    /\ uiPoll \in Nat /\ nextPoll \in Nat /\ pollPaused \in BOOLEAN
    /\ uiFolder \in Nat /\ nextFolder \in Nat

WorkerTypeOK ==
    /\ held \in Command /\ task \in Task /\ cleanup \in BOOLEAN
    /\ poll \in Poll /\ folder \in Folder
    /\ epoch \in Nat /\ fgate \in Nat /\ auth \in MaybeAccount
    /\ lane \in {"free", "task", "poll", "folder"}
    /\ closures \subseteq Closure

\* Every variable keeps its type.
TypeOK ==
    /\ UiTypeOK /\ WorkerTypeOK
    /\ cmds \in Seq(Command) /\ evts \in Seq(Event)
    /\ keyring \in MaybeAccount /\ mailbox \in MaybeAccount /\ drafts \subseteq Accounts
    /\ run \in {"up", "closing", "draining"} /\ restarts \in Nat
    /\ stray \in BOOLEAN /\ erased \in MaybeAccount

\* The mail on the screen is the mail of the account on the screen, whatever
\* order cached snapshots, folder views and polls of two accounts arrive in
\* (state.rs 2404-2556: the identity change clears the mailbox and its requests).
ShownMailIsAccountMail == shown # NoAccount => shown = uiAccount

\* A synchronization leaves the session Ready only when its account holds both
\* the runtime authorization and the stored credential the next restart needs,
\* whatever was cancelled, superseded or rotated before (state.rs 2516-2556;
\* worker.rs 3836-3885, 4320-4383).
SyncedSessionIsAuthorized ==
    [][run' = "up" /\ activeOp # 0 /\ activeOp' = 0 /\ session' = "Ready"
       => auth = uiAccount' /\ keyring = uiAccount']_vars

\* Once Disconnect is confirmed, and until the next sign-in, also across
\* restarts: no token, no runtime authorization, no drafts of the account, and
\* no mail but what a detached complete_sync closure wrote back
\* (worker.rs 2880-2922; cache.rs 1403-1427).
SignedOutIsClean ==
    erased # NoAccount =>
        /\ keyring = NoAccount /\ auth = NoAccount
        /\ erased \notin drafts
        /\ mailbox = NoAccount \/ stray

\* A Disconnect that stops half way leaves the token, so a restart still finds
\* the account: it deletes the token after the account's drafts and mail
\* (worker.rs 3679-3693; test worker.rs 6023).
TokenGoesLast ==
    [][task.kind = "Disconnect" /\ task'.op = task.op /\ keyring # NoAccount /\ keyring' = NoAccount
       => task.acct \notin drafts /\ (mailbox = NoAccount \/ stray)]_vars

\* A poll writes the mailbox only while its own session, or none, is in place,
\* however late its closure runs: a sign-in publishes another account's
\* authorization only after a closure of its own got cache_io, and with it the
\* metadata lane (worker.rs 4575-4605, 4701-4713, 3846-3872).
PollWritesItsOwnSession ==
    \A c \in closures : c.kind = "poll" /\ c.inside => auth \in {c.acct, NoAccount}

\* A rotated token is stored only for the account that is signed in: no sign-in
\* comes between the check and the write (worker.rs 4646-4695, 4715-4732).
PollReplacesItsOwnToken == poll.pc = "replace" => auth = poll.acct

\* Every lifecycle operation the person sees pending is answered: superseded,
\* cancelled and failed ones too (worker.rs 2634-2671, 2845-2880).
OperationsSettle == activeOp # 0 ~> (activeOp = 0 \/ run # "up")

\* A poll in flight is always answered, across account boundaries too; an
\* unanswered one would stop background mail for good (worker.rs 2644-2652).
PollsSettle == uiPoll # 0 ~> (uiPoll = 0 \/ run # "up")

-----------------------------------------------------------------------------
(* Statements of the repository that the code does not meet *)

\* README.md:73, "Disconnect removes authorization, summaries, and bodies": no
\* mail is left on disk once Disconnect is confirmed.
DisconnectRemovesSummaries == erased # NoAccount => mailbox = NoAccount

\* README.md:63, "Restart restores the secure authorization": closing the
\* window never takes the stored credential away.
ClosingKeepsAuthorization == [][run = "closing" /\ run' = "draining" => keyring' = keyring]_vars

\* cache.rs:516-518, "a later save failure can never leave the previous
\* account's mailbox available": with a new identity in place, on both
\* sides, the mailbox on disk is not the previous account's.
PreviousMailboxStaysGone ==
    run = "up" /\ auth # NoAccount /\ uiAccount = auth /\ ~stray => mailbox \in {NoAccount, auth}
=============================================================================
