------------------------- MODULE AccountLifecycleProofs -------------------------
(* What TLAPS proves about AccountLifecycle, for every set of accounts and    *)
(* every bound.                                                              *)
EXTENDS AccountLifecycle, TLAPS

-----------------------------------------------------------------------------
(* Messages are well typed *)

LEMMA CmdType ==
  ASSUME NEW t \in BoundaryKinds \cup {"none", "Cancel", "Poll", "Folder", "Shutdown"},
         NEW id \in Nat, NEW a \in MaybeAccount
  PROVE  Cmd(t, id, a) \in Command
  BY DEF Cmd, Command

EventTypes == {"Phase", "AuthorizationRequired", "IdentityVerified", "CacheLoaded",
               "NoStoredAccount", "Cancelled", "SyncComplete", "Disconnected", "Failed",
               "PollComplete", "PollFailed", "FolderCacheLoaded", "FolderLoaded", "FolderFailed"}

LEMMA EvtType ==
  ASSUME NEW t \in EventTypes, NEW id \in Nat, NEW a \in MaybeAccount
  PROVE  Evt(t, id, a) \in Event
  BY DEF Evt, Event, EventTypes, FailureKinds

LEMMA FailureType ==
  ASSUME NEW t \in EventTypes, NEW id \in Nat, NEW f \in FailureKinds, NEW keep \in BOOLEAN
  PROVE  Failure(t, id, f, keep) \in Event
  BY DEF Failure, Event, EventTypes, MaybeAccount

LEMMA AppendType ==
  ASSUME NEW S, NEW s \in Seq(S), NEW e \in S
  PROVE  Append(s, e) \in Seq(S)
  OBVIOUS

LEMMA SendType ==
  ASSUME cmds \in Seq(Command), NEW c \in Command, Send(c)
  PROVE  cmds' \in Seq(Command)
  BY DEF Send

LEMMA EmitType ==
  ASSUME evts \in Seq(Event), NEW e \in Event, Emit(e)
  PROVE  evts' \in Seq(Event)
  BY DEF Emit

LEMMA ReceiveType ==
  ASSUME evts \in Seq(Event), NEW t, Receive(t)
  PROVE  /\ evts' \in Seq(Event) /\ Head(evts) \in Event
         /\ Head(evts).op \in Nat /\ Head(evts).acct \in MaybeAccount
         /\ Head(evts).fail \in FailureKinds /\ Head(evts).keep \in BOOLEAN
  <1>1. Head(evts) \in Event /\ Tail(evts) \in Seq(Event)
    BY DEF Receive
  <1> QED  BY <1>1 DEF Receive, Event

LEMMA ReceivedType ==
  ASSUME cmds \in Seq(Command), NEW ts, Received(ts)
  PROVE  /\ Head(cmds) \in Command /\ Tail(cmds) \in Seq(Command)
         /\ Head(cmds).op \in Nat /\ Head(cmds).acct \in MaybeAccount
  <1>1. Head(cmds) \in Command /\ Tail(cmds) \in Seq(Command)
    BY DEF Received
  <1> QED  BY <1>1 DEF Command

-----------------------------------------------------------------------------
(* TypeOK *)

LEMMA NothingType == /\ NoCmd \in Command /\ NoTask \in Task /\ NoPoll \in Poll /\ NoFolder \in Folder
                     /\ NoAccount \in MaybeAccount
  <1>1. NoAccount \in MaybeAccount
    BY DEF MaybeAccount
  <1>2. NoCmd \in Command
    BY <1>1, CmdType DEF NoCmd
  <1>3. NoTask \in Task
    BY <1>1 DEF NoTask, Task
  <1>4. NoPoll \in Poll
    BY <1>1 DEF NoPoll, Poll
  <1>5. NoFolder \in Folder
    BY <1>1 DEF NoFolder, Folder
  <1> QED  BY <1>1, <1>2, <1>3, <1>4, <1>5

LEMMA InitType == Init => TypeOK
  <1> SUFFICES ASSUME Init PROVE TypeOK
    OBVIOUS
  <1>1. cmds \in Seq(Command) /\ evts \in Seq(Event)
    <2>1. Cmd("Restore", 1, NoAccount) \in Command
      BY CmdType, NothingType DEF BoundaryKinds, SyncKinds
    <2> QED  BY <2>1 DEF Init, Startup
  <1>2. UiTypeOK
    BY NothingType DEF Init, Startup, UiTypeOK, Sessions, FailureKinds, SyncKinds
  <1>3. WorkerTypeOK
    BY NothingType DEF Init, Startup, WorkerTypeOK
  <1>4. QED
    BY <1>1, <1>2, <1>3, NothingType, AccountAssumption DEF Init, Startup, TypeOK, MaybeAccount

LEMMA StartType == ASSUME TypeOK, NEW k \in SyncKinds, Start(k) PROVE TypeOK'
  <1>1. cmds' \in Seq(Command)
    BY CmdType, NothingType, SendType DEF Start, TypeOK, UiTypeOK, BoundaryKinds
  <1>2. UiTypeOK'
    BY DEF Start, Allocate, TypeOK, UiTypeOK, Sessions, FailureKinds
  <1> QED  BY <1>1, <1>2, NothingType DEF Start, TypeOK, WorkerTypeOK, workerVars, diskVars

LEMMA DisconnectType == ASSUME TypeOK, Disconnect PROVE TypeOK'
  <1>1. cmds' \in Seq(Command)
    BY CmdType, SendType DEF Disconnect, TypeOK, UiTypeOK, BoundaryKinds
  <1>2. UiTypeOK'
    BY NothingType DEF Disconnect, Allocate, TypeOK, UiTypeOK, Sessions, FailureKinds
  <1> QED  BY <1>1, <1>2, NothingType DEF Disconnect, TypeOK, WorkerTypeOK, workerVars, diskVars

\* A step of the person that leaves the worker and the disk alone.
LEMMA UiStepType == ASSUME TypeOK, UiStep PROVE TypeOK'
  <1> USE NothingType
  <1>1. CASE ClickConnect
    BY <1>1, StartType DEF ClickConnect, SyncKinds
  <1>2. CASE ClickDisconnect
    BY <1>2, DisconnectType DEF ClickDisconnect
  <1>3. CASE ClickRetry
    BY <1>3, StartType, DisconnectType DEF ClickRetry
  <1>4. CASE ClickCancel
    <2>1. cmds' \in Seq(Command)
      BY <1>4, CmdType, SendType DEF ClickCancel, TypeOK, UiTypeOK
    <2>2. UiTypeOK'
      BY <1>4 DEF ClickCancel, Allocate, TypeOK, UiTypeOK, Sessions, FailureKinds
    <2> QED  BY <1>4, <2>1, <2>2 DEF ClickCancel, TypeOK, WorkerTypeOK, workerVars, diskVars
  <1>5. CASE SelectFolder
    <2>1. cmds' \in Seq(Command)
      BY <1>5, CmdType, SendType DEF SelectFolder, LoadFolder, TypeOK, UiTypeOK
    <2>2. UiTypeOK'
      BY <1>5 DEF SelectFolder, LoadFolder, TypeOK, UiTypeOK
    <2> QED  BY <1>5, <2>1, <2>2 DEF SelectFolder, LoadFolder, TypeOK, WorkerTypeOK, workerVars, diskVars
  <1>6. CASE BrowserLaunchFailed
    <2>1. cmds' \in Seq(Command)
      BY <1>6, CmdType, SendType DEF BrowserLaunchFailed, TypeOK, UiTypeOK
    <2>2. UiTypeOK'
      BY <1>6 DEF BrowserLaunchFailed, TypeOK, UiTypeOK, Sessions, FailureKinds
    <2> QED  BY <1>6, <2>1, <2>2 DEF BrowserLaunchFailed, TypeOK, WorkerTypeOK, workerVars, diskVars
  <1>7. CASE BackgroundTimer
    <2>1. cmds' \in Seq(Command)
      BY <1>7, CmdType, SendType DEF BackgroundTimer, TypeOK, UiTypeOK
    <2>2. UiTypeOK'
      BY <1>7 DEF BackgroundTimer, TypeOK, UiTypeOK
    <2> QED  BY <1>7, <2>1, <2>2 DEF BackgroundTimer, TypeOK, WorkerTypeOK, workerVars, diskVars
  <1>8. CASE CloseWindow
    <2>1. cmds' \in Seq(Command)
      BY <1>8, CmdType, SendType DEF CloseWindow, TypeOK
    <2> QED  BY <1>8, <2>1 DEF CloseWindow, TypeOK, UiTypeOK, WorkerTypeOK, uiVars, workerVars, diskVars
  <1> QED  BY <1>1, <1>2, <1>3, <1>4, <1>5, <1>6, <1>7, <1>8 DEF UiStep

\* A reducer step on an event: the queue shrinks, the rest of the process waits.
LEMMA UiEventFrame ==
  ASSUME TypeOK, NEW t, Receive(t), UNCHANGED NotUi, UiTypeOK', erased' \in MaybeAccount
  PROVE  TypeOK'
  BY ReceiveType DEF TypeOK, WorkerTypeOK, NotUi, workerVars, diskVars

LEMMA UiEventType == ASSUME TypeOK, UiEvent PROVE TypeOK'
  <1> USE NothingType, UiEventFrame, ReceiveType DEF ReceiveOwn
  <1>1. CASE DropStaleEvent
    BY <1>1 DEF DropStaleEvent, TypeOK, UiTypeOK, WorkerTypeOK, NotUi, uiVars, workerVars, diskVars
  <1>2. CASE OnPhase
    BY <1>2 DEF OnPhase, TypeOK, UiTypeOK, Sessions, FailureKinds
  <1>3. CASE OnAuthorizationRequired
    BY <1>3 DEF OnAuthorizationRequired, TypeOK, UiTypeOK, Sessions, FailureKinds
  <1>4. CASE OnIdentityVerified
    <2>1. Receive("IdentityVerified") /\ Head(evts).acct \in MaybeAccount /\ UNCHANGED NotUi /\ erased' = erased
      BY <1>4 DEF OnIdentityVerified, TypeOK
    <2>2. pollPaused' \in BOOLEAN
      BY <1>4 DEF OnIdentityVerified, TypeOK, UiTypeOK
    <2>3. uiPoll' \in Nat /\ uiFolder' \in Nat
      BY <1>4 DEF OnIdentityVerified, TypeOK, UiTypeOK
    <2>4. UiTypeOK'
      BY <1>4, <2>1, <2>2, <2>3 DEF OnIdentityVerified, TypeOK, UiTypeOK
    <2> QED  BY <2>1, <2>4 DEF TypeOK
  <1>5. CASE OnCacheLoaded
    <2>1. Receive("CacheLoaded") /\ Head(evts).acct \in MaybeAccount /\ UNCHANGED NotUi /\ erased' = erased
      BY <1>5 DEF OnCacheLoaded, TypeOK
    <2>2. pollPaused' \in BOOLEAN
      BY <1>5 DEF OnCacheLoaded, TypeOK, UiTypeOK
    <2>3. uiPoll' \in Nat /\ uiFolder' \in Nat
      BY <1>5, BoundAssumption DEF OnCacheLoaded, Orphaned, TypeOK, UiTypeOK
    <2>4. UiTypeOK'
      BY <1>5, <2>1, <2>2, <2>3 DEF OnCacheLoaded, Orphaned, TypeOK, UiTypeOK
    <2> QED  BY <2>1, <2>4 DEF TypeOK
  <1>6. CASE OnSignedOut
    BY <1>6 DEF OnSignedOut, TypeOK, UiTypeOK, Sessions, FailureKinds
  <1>7. CASE OnSyncComplete
    <2>1. Receive("SyncComplete") /\ Head(evts).acct \in MaybeAccount /\ UNCHANGED NotUi /\ erased' = erased
      BY <1>7 DEF OnSyncComplete, TypeOK
    <2>2. pollPaused' \in BOOLEAN
      BY <1>7 DEF OnSyncComplete, TypeOK, UiTypeOK
    <2>3. uiPoll' \in Nat /\ uiFolder' \in Nat
      BY <1>7 DEF OnSyncComplete, TypeOK, UiTypeOK
    <2>4. UiTypeOK'
      BY <1>7, <2>1, <2>2, <2>3 DEF OnSyncComplete, Sessions, FailureKinds, TypeOK, UiTypeOK
    <2> QED  BY <2>1, <2>4 DEF TypeOK
  <1>8. CASE OnDisconnected
    BY <1>8 DEF OnDisconnected, TypeOK, UiTypeOK, Sessions, FailureKinds
  <1>9. CASE OnFailed
    BY <1>9 DEF OnFailed, TypeOK, UiTypeOK, Sessions, FailureKinds, SyncKinds
  <1>10. CASE OnPollComplete
    BY <1>10 DEF OnPollComplete, TypeOK, UiTypeOK
  <1>11. CASE OnPollFailed
    BY <1>11 DEF OnPollFailed, TypeOK, UiTypeOK
  <1>12. CASE OnFolderCacheLoaded
    BY <1>12 DEF OnFolderCacheLoaded, TypeOK, UiTypeOK
  <1>13. CASE OnFolderLoaded
    BY <1>13 DEF OnFolderLoaded, TypeOK, UiTypeOK, Sessions, FailureKinds
  <1>14. CASE OnFolderFailed
    BY <1>14 DEF OnFolderFailed, TypeOK, UiTypeOK, Sessions, FailureKinds, SyncKinds
  <1> QED  BY <1>1, <1>2, <1>3, <1>4, <1>5, <1>6, <1>7, <1>8, <1>9, <1>10, <1>11, <1>12, <1>13, <1>14 DEF UiEvent

\* A worker step: the reducer and its observations wait.
LEMMA WorkerFrame ==
  ASSUME TypeOK, uiVars' = uiVars, WorkerTypeOK', erased' \in MaybeAccount,
         cmds' \in Seq(Command), evts' \in Seq(Event),
         keyring' \in MaybeAccount, mailbox' \in MaybeAccount, drafts' \subseteq Accounts,
         run' \in {"up", "closing", "draining"}, restarts' = restarts, stray' \in BOOLEAN
  PROVE  TypeOK'
  BY DEF TypeOK, UiTypeOK, uiVars

LEMMA DetachType ==
  ASSUME NEW ks, closures \subseteq Closure, Detach(ks)
  PROVE  closures' \subseteq Closure
  <1>1. ASSUME NEW c \in closures PROVE c \in Closure /\ [c EXCEPT !.live = FALSE] \in Closure
    BY <1>1 DEF Closure
  <1> QED  BY <1>1 DEF Detach

LEMMA NewTaskType ==
  ASSUME NEW c \in Command, c.type \in BoundaryKinds
  PROVE  NewTask(c) \in Task
  <1>1. c.op \in Nat /\ c.acct \in MaybeAccount
    BY DEF Command
  <1> QED  BY <1>1, NothingType DEF NewTask, Task

LEMMA CtlStepType == ASSUME TypeOK, CtlStep PROVE TypeOK'
  <1> USE NothingType, ReceivedType, WorkerFrame DEF TypeOK, NotWorker
  <1>1. CASE CtlCancel
    <2>1. evts' \in Seq(Event)
      <3>1. Evt("Cancelled", Head(cmds).op, NoAccount) \in Event
        BY <1>1, EvtType DEF CtlCancel, EventTypes
      <3>2. Failure("Failed", Head(cmds).op, "cleanup", TRUE) \in Event
        BY <1>1, FailureType DEF CtlCancel, EventTypes, FailureKinds
      <3> QED  BY <1>1, <3>1, <3>2, EmitType DEF CtlCancel
    <2>2. closures' \subseteq Closure
      BY <1>1, DetachType DEF CtlCancel, WorkerTypeOK
    <2>3. keyring' \in MaybeAccount /\ lane' \in {"free", "task", "poll", "folder"}
      BY <1>1 DEF CtlCancel, WorkerTypeOK, Freed
    <2>4. WorkerTypeOK'
      BY <1>1, <2>2, <2>3 DEF CtlCancel, WorkerTypeOK
    <2> QED  BY <1>1, <2>1, <2>3, <2>4 DEF CtlCancel
  <1>2. CASE CtlBackgroundSync
    <2>1. evts' \in Seq(Event)
      <3>1. Failure("PollFailed", Head(cmds).op, "worker", TRUE) \in Event
        BY <1>2, FailureType DEF CtlBackgroundSync, EventTypes, FailureKinds
      <3> QED  BY <1>2, <3>1, EmitType DEF CtlBackgroundSync
    <2>2. poll' \in Poll
      <3>1. Head(cmds).op \in Nat /\ Head(cmds).acct \in MaybeAccount /\ epoch \in Nat /\ poll \in Poll
        BY <1>2 DEF CtlBackgroundSync, WorkerTypeOK
      <3>2. [id |-> Head(cmds).op, acct |-> Head(cmds).acct, epoch |-> epoch, pc |-> "auth"] \in Poll
        BY <3>1 DEF Poll
      <3> QED  BY <1>2, <3>1, <3>2 DEF CtlBackgroundSync
    <2>3. WorkerTypeOK'
      BY <1>2, <2>2 DEF CtlBackgroundSync, WorkerTypeOK
    <2> QED  BY <1>2, <2>1, <2>3 DEF CtlBackgroundSync, diskVars
  <1>3. CASE CtlFetchFolder
    <2>1. folder' \in Folder /\ fgate' \in Nat
      BY <1>3 DEF CtlFetchFolder, Folder
    <2>2. closures' \subseteq Closure
      BY <1>3, DetachType DEF CtlFetchFolder, WorkerTypeOK
    <2>3. WorkerTypeOK'
      BY <1>3, <2>1, <2>2 DEF CtlFetchFolder, WorkerTypeOK, Freed
    <2> QED  BY <1>3, <2>3 DEF CtlFetchFolder, diskVars
  <1>4. CASE CtlBoundary
    <2>1. evts' \in Seq(Event)
      <3>1. Failure("PollFailed", poll.id, "worker", TRUE) \in Event
        BY FailureType DEF EventTypes, FailureKinds, WorkerTypeOK, Poll
      <3> QED  BY <1>4, <3>1, EmitType DEF CtlBoundary
    <2>2. closures' \subseteq Closure
      BY <1>4, DetachType DEF CtlBoundary, WorkerTypeOK
    <2>3. WorkerTypeOK'
      BY <1>4, <2>2 DEF CtlBoundary, WorkerTypeOK, Freed
    <2> QED  BY <1>4, <2>1, <2>3 DEF CtlBoundary, diskVars
  <1>5. CASE CtlDisconnect
    <2>1. task' \in Task
      BY <1>5, NewTaskType DEF CtlDisconnect, WorkerTypeOK, BoundaryKinds
    <2>2. closures' \subseteq Closure
      BY <1>5, DetachType DEF CtlDisconnect, WorkerTypeOK
    <2>3. WorkerTypeOK'
      BY <1>5, <2>1, <2>2 DEF CtlDisconnect, WorkerTypeOK, Freed
    <2> QED  BY <1>5, <2>3 DEF CtlDisconnect, diskVars
  <1>6. CASE CtlStartSync
    <2>1. evts' \in Seq(Event)
      <3>1. Failure("Failed", held.op, "cleanup", TRUE) \in Event
        BY FailureType DEF EventTypes, FailureKinds, WorkerTypeOK, Command
      <3> QED  BY <1>6, <3>1, EmitType DEF CtlStartSync
    <2>2. task' \in Task /\ keyring' \in MaybeAccount
      BY <1>6, NewTaskType DEF CtlStartSync, WorkerTypeOK, BoundaryKinds
    <2>3. closures' \subseteq Closure
      BY <1>6, DetachType DEF CtlStartSync, WorkerTypeOK
    <2>4. WorkerTypeOK'
      BY <1>6, <2>2, <2>3 DEF CtlStartSync, WorkerTypeOK, Freed
    <2> QED  BY <1>6, <2>1, <2>2, <2>4 DEF CtlStartSync
  <1>7. CASE CtlShutdown
    <2>1. closures' \subseteq Closure
      BY <1>7, DetachType DEF CtlShutdown, WorkerTypeOK
    <2>2. /\ epoch' \in Nat /\ fgate' \in Nat /\ auth' \in MaybeAccount /\ held' \in Command
          /\ cleanup' \in BOOLEAN /\ lane' = "free"
      <3>1. epoch' = epoch + 1 /\ fgate' = 0 /\ auth' = NoAccount
        BY <1>7 DEF CtlShutdown
      <3>2. held' = held
        BY <1>7 DEF CtlShutdown
      <3>3. cleanup' \in BOOLEAN
        BY <1>7 DEF CtlShutdown
      <3>4. lane' = "free"
        BY <1>7 DEF CtlShutdown
      <3> QED  BY <3>1, <3>2, <3>3, <3>4 DEF WorkerTypeOK
    <2>4. task' \in Task /\ poll' \in Poll /\ folder' \in Folder
      BY <1>7 DEF CtlShutdown
    <2>5. WorkerTypeOK'
      BY <2>1, <2>2, <2>4 DEF WorkerTypeOK
    <2>3. keyring' \in MaybeAccount
      BY <1>7 DEF CtlShutdown
    <2> QED  BY <1>7, <2>5, <2>3 DEF CtlShutdown
  <1>8. CASE CtlReap
    <2>1. WorkerTypeOK'
      BY <1>8 DEF CtlReap, WorkerTypeOK
    <2> QED  BY <1>8, <2>1 DEF CtlReap, diskVars
  <1> QED  BY <1>1, <1>2, <1>3, <1>4, <1>5, <1>6, <1>7, <1>8 DEF CtlStep

LEMMA FailTaskType ==
  ASSUME TypeOK, NEW f \in FailureKinds, NEW keep \in BOOLEAN, FailTask(f, keep)
  PROVE  evts' \in Seq(Event) /\ task' \in Task /\ cleanup' \in BOOLEAN
         /\ lane' \in {"free", "task", "poll", "folder"}
  <1>1. Failure("Failed", task.op, f, keep) \in Event
    BY FailureType DEF EventTypes, TypeOK, WorkerTypeOK, Task
  <1>2. evts' \in Seq(Event)
    BY <1>1, EmitType DEF FailTask, TypeOK
  <1>3. task' \in Task
    BY DEF FailTask, Goto, TypeOK, WorkerTypeOK, Task
  <1>4. cleanup' \in BOOLEAN /\ lane' \in {"free", "task", "poll", "folder"}
    BY DEF FailTask, Freed, TypeOK, WorkerTypeOK
  <1> QED  BY <1>2, <1>3, <1>4

LEMMA FinishType ==
  ASSUME TypeOK, Finish
  PROVE  task' \in Task /\ cleanup' \in BOOLEAN /\ lane' \in {"free", "task", "poll", "folder"}
  BY DEF Finish, Goto, Freed, TypeOK, WorkerTypeOK, Task

LEMMA SpawnType ==
  ASSUME TypeOK, NEW k \in {"prepare", "sync", "clear"}, Spawn(k)
  PROVE  closures' \subseteq Closure
  <1>1. [kind |-> k, acct |-> task.acct, id |-> task.op, epoch |-> 0, live |-> TRUE, inside |-> FALSE] \in Closure
    BY DEF TypeOK, WorkerTypeOK, Task, Closure
  <1> QED  BY <1>1 DEF Spawn, TypeOK, WorkerTypeOK

\* What a step of the lifecycle task may leave behind.
LEMMA TaskFrame ==
  ASSUME TypeOK, UNCHANGED NotTask,
         task' \in Task, lane' \in {"free", "task", "poll", "folder"}, cleanup' \in BOOLEAN,
         evts' \in Seq(Event), auth' \in MaybeAccount, closures' \subseteq Closure,
         keyring' \in MaybeAccount, mailbox' \in MaybeAccount, drafts' \subseteq Accounts, stray' \in BOOLEAN
  PROVE  TypeOK'
  <1>1. WorkerTypeOK'
    BY DEF TypeOK, WorkerTypeOK, NotTask
  <1> QED  BY <1>1, WorkerFrame DEF TypeOK, NotTask, NotWorker

LEMMA TaskTypes ==
  ASSUME TypeOK
  PROVE  /\ task \in Task /\ task.op \in Nat /\ task.acct \in MaybeAccount
         /\ lane \in {"free", "task", "poll", "folder"} /\ cleanup \in BOOLEAN /\ evts \in Seq(Event)
         /\ auth \in MaybeAccount /\ closures \subseteq Closure /\ keyring \in MaybeAccount
         /\ mailbox \in MaybeAccount /\ drafts \subseteq Accounts /\ stray \in BOOLEAN
  BY DEF TypeOK, WorkerTypeOK, Task

LEMMA TaskEventType ==
  ASSUME TypeOK, NEW t \in EventTypes, NEW a \in MaybeAccount, Emit(Evt(t, task.op, a))
  PROVE  evts' \in Seq(Event)
  BY TaskTypes, EvtType, EmitType

LEMMA TaskStepType == ASSUME TypeOK, TaskStep PROVE TypeOK'
  <1> USE NothingType, TaskTypes, TaskFrame, FailTaskType, FinishType, SpawnType, TaskEventType
      DEF EventTypes, FailureKinds, KeepLane
  <1>1. CASE TaskAcquireLane
    <2>1. task' \in Task
      BY <1>1 DEF TaskAcquireLane, Goto, Task
    <2> QED  BY <1>1, <2>1 DEF TaskAcquireLane, diskVars
  <1>2. CASE ConnectListen
    <2>1. ASSUME Goto("browser") PROVE task' \in Task
      BY <2>1 DEF Goto, Task
    <2> QED  BY <1>2, <2>1 DEF ConnectListen, diskVars
  <1>3. CASE ConnectCallback
    <2>1. ASSUME Goto("exchange") PROVE task' \in Task
      BY <2>1 DEF Goto, Task
    <2> QED  BY <1>3, <2>1 DEF ConnectCallback, diskVars
  <1>4. CASE ConnectExchange
    <2>1. ASSUME NEW f \in {"net", "auth"}, FailTask(f, TRUE), UNCHANGED closures PROVE TypeOK'
      BY <1>4, <2>1 DEF ConnectExchange, diskVars
    <2>2. ASSUME NEW a \in Accounts, task' = [task EXCEPT !.pc = "prepare", !.acct = a],
                 closures' = closures \cup {[kind |-> "prepare", acct |-> a, id |-> task.op, epoch |-> 0,
                                             live |-> TRUE, inside |-> FALSE]},
                 UNCHANGED <<lane, cleanup, evts>>
          PROVE  TypeOK'
      <3>1. task' \in Task
        BY <2>2 DEF Task, MaybeAccount
      <3>2. closures' \subseteq Closure
        <4>1. a \in MaybeAccount
          BY DEF MaybeAccount
        <4>2. [kind |-> "prepare", acct |-> a, id |-> task.op, epoch |-> 0, live |-> TRUE, inside |-> FALSE] \in Closure
          BY <4>1 DEF Closure
        <4> QED  BY <2>2, <4>2
      <3> QED  BY <1>4, <2>2, <3>1, <3>2 DEF ConnectExchange, diskVars
    <2> QED  BY <1>4, <2>1, <2>2 DEF ConnectExchange
  <1>5. CASE RestoreLoad
    <2>1. ASSUME task' = [task EXCEPT !.pc = "refresh", !.acct = keyring, !.cached = mailbox]
          PROVE  task' \in Task
      BY <2>1 DEF Task
    <2> QED  BY <1>5, <2>1 DEF RestoreLoad, diskVars
  <1>6. CASE RestoreRefresh
    <2>1. ASSUME NEW pc \in {"identity", "mark"}, Goto(pc) PROVE task' \in Task
      BY <2>1 DEF Goto, Task
    <2> QED  BY <1>6, <2>1 DEF RestoreRefresh
  <1>7. CASE RestoreIdentity
    <2>1. ASSUME Goto("prepare") PROVE task' \in Task
      BY <2>1 DEF Goto, Task
    <2> QED  BY <1>7, <2>1 DEF RestoreIdentity, diskVars
  <1>8. CASE TaskVerified
    <2>1. task' \in Task
      BY <1>8 DEF TaskVerified, Goto, Task
    <2> QED  BY <1>8, <2>1 DEF TaskVerified, diskVars
  <1>9. CASE TaskAuthorize
    <2>1. ASSUME NEW pc \in {"mark", "fetch"}, Goto(pc) PROVE task' \in Task
      BY <2>1 DEF Goto, Task
    <2>2. UNCHANGED NotTask /\ UNCHANGED <<closures, diskVars, stray>> /\ auth' \in MaybeAccount
      BY <1>9 DEF TaskAuthorize
    <2>3. CASE \E f \in {"auth", "save", "worker"} : FailTask(f, FALSE)
      BY <2>2, <2>3 DEF diskVars, FailureKinds
    <2>4. CASE Goto("mark") /\ KeepLane /\ UNCHANGED evts
      BY <2>1, <2>2, <2>4 DEF diskVars
    <2>5. CASE Goto("fetch") /\ KeepLane /\ evts' \in Seq(Event)
      BY <2>1, <2>2, <2>5 DEF diskVars
    <2> QED  BY <1>9, <2>3, <2>4, <2>5 DEF TaskAuthorize
  <1>10. CASE TaskMark
    <2>1. task' \in Task
      BY <1>10 DEF TaskMark, Goto, Task
    <2> QED  BY <1>10, <2>1 DEF TaskMark, diskVars
  <1>11. CASE TaskSave
    <2>1. ASSUME NEW pc \in {"identity", "fetch"}, Goto(pc) PROVE task' \in Task
      BY <2>1 DEF Goto, Task
    <2>2. keyring' \in MaybeAccount /\ UNCHANGED NotTask /\ UNCHANGED <<auth, closures, mailbox, drafts, stray>>
      BY <1>11 DEF TaskSave
    <2>3. CASE Goto(IF task.kind = "Connect" THEN "fetch" ELSE "identity") /\ KeepLane /\ UNCHANGED evts
      BY <2>1, <2>2, <2>3
    <2>4. CASE FailTask("save", task.kind = "Restore")
      BY <2>2, <2>4
    <2>5. CASE FailTask("cleanup", task.kind = "Restore")
      BY <2>2, <2>5
    <2> QED  BY <1>11, <2>3, <2>4, <2>5 DEF TaskSave
  <1>12. CASE TaskFetch
    <2>1. ASSUME Goto("commit") PROVE task' \in Task
      BY <2>1 DEF Goto, Task
    <2> QED  BY <1>12, <2>1 DEF TaskFetch, diskVars
  <1>13. CASE TaskSynced
    BY <1>13 DEF TaskSynced, diskVars
  <1>14. CASE TaskCacheError
    BY <1>14 DEF TaskCacheError, diskVars
  <1>15. CASE DisconnectBegin
    <2>1. task' \in Task
      BY <1>15 DEF DisconnectBegin, Goto, Task
    <2> QED  BY <1>15, <2>1 DEF DisconnectBegin, diskVars
  <1>16. CASE DisconnectDrafts
    <2>1. ASSUME Goto("clear") PROVE task' \in Task
      BY <2>1 DEF Goto, Task
    <2>2. drafts' \subseteq Accounts
      BY <1>16 DEF DisconnectDrafts
    <2> QED  BY <1>16, <2>1, <2>2 DEF DisconnectDrafts
  <1>17. CASE DisconnectToken
    BY <1>17 DEF DisconnectToken
  <1> QED  BY <1>1, <1>2, <1>3, <1>4, <1>5, <1>6, <1>7, <1>8, <1>9, <1>10, <1>11, <1>12, <1>13,
              <1>14, <1>15, <1>16, <1>17 DEF TaskStep

LEMMA PollTypes ==
  ASSUME TypeOK
  PROVE  /\ poll \in Poll /\ poll.id \in Nat /\ poll.acct \in MaybeAccount /\ poll.epoch \in Nat
         /\ lane \in {"free", "task", "poll", "folder"} /\ evts \in Seq(Event)
         /\ closures \subseteq Closure /\ keyring \in MaybeAccount /\ Freed({"poll"}) \in {"free", "task", "poll", "folder"}
  BY DEF TypeOK, WorkerTypeOK, Poll, Freed

LEMMA PollGotoType ==
  ASSUME TypeOK, NEW pc \in {"none", "auth", "refresh", "permit", "replace", "fetch", "lane", "commit",
                             "saved", "savedErr", "stale", "finished"}, PollGoto(pc)
  PROVE  poll' \in Poll
  BY PollTypes DEF PollGoto, Poll

LEMMA PollFailType ==
  ASSUME TypeOK, NEW keep \in BOOLEAN, PollFail(keep)
  PROVE  poll' \in Poll /\ lane' \in {"free", "task", "poll", "folder"} /\ evts' \in Seq(Event)
  <1>1. Failure("PollFailed", poll.id, "net", keep) \in Event
    BY PollTypes, FailureType DEF EventTypes, FailureKinds
  <1> QED  BY <1>1, PollTypes, PollGotoType, EmitType DEF PollFail

LEMMA PollLeaveType ==
  ASSUME TypeOK, PollLeave
  PROVE  poll' \in Poll /\ lane' \in {"free", "task", "poll", "folder"} /\ evts' \in Seq(Event)
  BY PollTypes, PollGotoType DEF PollLeave

LEMMA PollFrame ==
  ASSUME TypeOK, UNCHANGED NotPoll, poll' \in Poll, lane' \in {"free", "task", "poll", "folder"},
         evts' \in Seq(Event), closures' \subseteq Closure, keyring' \in MaybeAccount
  PROVE  TypeOK'
  <1>1. WorkerTypeOK'
    BY DEF TypeOK, WorkerTypeOK, NotPoll
  <1> QED  BY <1>1, WorkerFrame DEF TypeOK, NotPoll, NotWorker

LEMMA PollStepType == ASSUME TypeOK, PollStep PROVE TypeOK'
  <1> USE PollTypes, PollFrame, PollGotoType, PollFailType, PollLeaveType
  <1>1. CASE PollAuth
    BY <1>1 DEF PollAuth
  <1>2. CASE PollRefresh
    BY <1>2 DEF PollRefresh
  <1>3. CASE PollPermit
    BY <1>3 DEF PollPermit
  <1>4. CASE PollReplace
    BY <1>4 DEF PollReplace
  <1>5. CASE PollFetch
    BY <1>5 DEF PollFetch
  <1>6. CASE PollLane
    <2>1. [kind |-> "poll", acct |-> poll.acct, id |-> poll.id, epoch |-> poll.epoch,
           live |-> TRUE, inside |-> FALSE] \in Closure
      BY DEF Closure
    <2> QED  BY <1>6, <2>1 DEF PollLane
  <1>7. CASE PollPublish
    <2>1. Evt("PollComplete", poll.id, poll.acct) \in Event
      BY EvtType DEF EventTypes
    <2> QED  BY <1>7, <2>1, EmitType DEF PollPublish
  <1> QED  BY <1>1, <1>2, <1>3, <1>4, <1>5, <1>6, <1>7 DEF PollStep

LEMMA FolderFrame ==
  ASSUME TypeOK, UNCHANGED NotFolder, folder' \in Folder, lane' \in {"free", "task", "poll", "folder"},
         evts' \in Seq(Event), closures' \subseteq Closure
  PROVE  TypeOK'
  <1>1. WorkerTypeOK'
    BY DEF TypeOK, WorkerTypeOK, NotFolder
  <1> QED  BY <1>1, WorkerFrame DEF TypeOK, NotFolder, NotWorker, diskVars

LEMMA FolderStepType == ASSUME TypeOK, FolderStep PROVE TypeOK'
  <1>1. /\ folder \in Folder /\ folder.id \in Nat /\ folder.acct \in MaybeAccount
        /\ lane \in {"free", "task", "poll", "folder"} /\ Freed({"folder"}) \in {"free", "task", "poll", "folder"}
        /\ evts \in Seq(Event) /\ closures \subseteq Closure
    BY DEF TypeOK, WorkerTypeOK, Folder, Freed
  <1>2. ASSUME FolderEnd PROVE folder' \in Folder /\ lane' \in {"free", "task", "poll", "folder"}
    BY <1>1, <1>2, NothingType DEF FolderEnd
  <1>3. ASSUME NEW pc \in {"lane", "fetch", "commit"}, folder' = [folder EXCEPT !.pc = pc]
        PROVE  folder' \in Folder
    BY <1>1, <1>3 DEF Folder
  <1>4. ASSUME NEW f \in {"net", "auth", "worker"} PROVE Failure("FolderFailed", folder.id, f, TRUE) \in Event
    BY <1>1, FailureType DEF EventTypes, FailureKinds
  <1>5. ASSUME NEW t \in {"FolderCacheLoaded", "FolderLoaded"} PROVE Evt(t, folder.id, folder.acct) \in Event
    BY <1>1, EvtType DEF EventTypes
  <1>6. CASE FolderCredentials
    <2>1. evts' \in Seq(Event)
      <3>1. CASE fgate # folder.id
        BY <1>1, <1>6, <3>1 DEF FolderCredentials
      <3>2. CASE fgate = folder.id
        <4>1. PICK read \in {evts, Append(evts, Evt("FolderCacheLoaded", folder.id, folder.acct))} :
                     evts' = read \/ evts' = Append(read, Failure("FolderFailed", folder.id, "auth", TRUE))
          BY <1>6, <3>2 DEF FolderCredentials
        <4>2. read \in Seq(Event)
          BY <1>1, <1>5
        <4>3. Failure("FolderFailed", folder.id, "auth", TRUE) \in Event
          BY <1>4
        <4>4. Append(read, Failure("FolderFailed", folder.id, "auth", TRUE)) \in Seq(Event)
          BY <4>2, <4>3, AppendType
        <4> QED  BY <4>1, <4>2, <4>4
      <3> QED  BY <3>1, <3>2
    <2> QED  BY <1>1, <1>2, <1>3, <1>6, <2>1, FolderFrame DEF FolderCredentials
  <1>7. CASE FolderLane
    BY <1>1, <1>2, <1>3, <1>7, FolderFrame DEF FolderLane
  <1>8. CASE FolderFetch
    <2>1. [kind |-> "folder", acct |-> folder.acct, id |-> folder.id, epoch |-> 0,
           live |-> TRUE, inside |-> FALSE] \in Closure
      BY <1>1 DEF Closure
    <2> QED  BY <1>1, <1>2, <1>3, <1>4, <1>8, <2>1, EmitType, FolderFrame DEF FolderFetch
  <1>9. CASE FolderPublish
    BY <1>1, <1>2, <1>5, <1>9, EmitType, FolderFrame DEF FolderPublish
  <1> QED  BY <1>6, <1>7, <1>8, <1>9 DEF FolderStep

LEMMA ClosureFrame ==
  ASSUME TypeOK, UNCHANGED NotClosure, task' \in Task, poll' \in Poll, folder' \in Folder,
         closures' \subseteq Closure, mailbox' \in MaybeAccount, stray' \in BOOLEAN
  PROVE  TypeOK'
  <1>1. WorkerTypeOK'
    BY DEF TypeOK, WorkerTypeOK, NotClosure
  <1> QED  BY <1>1, WorkerFrame DEF TypeOK, NotClosure, NotWorker

LEMMA WakeType ==
  ASSUME TypeOK, NEW c \in closures
  PROVE  /\ c \in Closure /\ c.acct \in MaybeAccount
         /\ \A pc \in {"prepareErr", "verified", "synced", "commitErr", "token", "clearErr"} :
              WakeTask(c, pc) => task' \in Task
         /\ \A pc \in {"saved", "savedErr", "stale"} :
              WakeOwner(c, pc) /\ (pc = "savedErr" => c.kind = "poll") => poll' \in Poll /\ folder' \in Folder
  <1>1. c \in Closure /\ c.acct \in MaybeAccount /\ task \in Task /\ poll \in Poll /\ folder \in Folder
    BY DEF TypeOK, WorkerTypeOK, Closure
  <1>2. \A pc \in {"prepareErr", "verified", "synced", "commitErr", "token", "clearErr"} :
          [task EXCEPT !.pc = pc] \in Task
    BY <1>1 DEF Task
  <1>3. \A pc \in {"saved", "savedErr", "stale"} : [poll EXCEPT !.pc = pc] \in Poll
    BY <1>1 DEF Poll
  <1>4. \A pc \in {"saved", "stale"} : [folder EXCEPT !.pc = pc] \in Folder
    BY <1>1 DEF Folder
  <1>5. \A pc \in {"prepareErr", "verified", "synced", "commitErr", "token", "clearErr"} :
          WakeTask(c, pc) => task' \in Task
    BY <1>1, <1>2 DEF WakeTask
  <1>6. \A pc \in {"saved", "savedErr", "stale"} :
          WakeOwner(c, pc) /\ (pc = "savedErr" => c.kind = "poll") => poll' \in Poll /\ folder' \in Folder
    BY <1>1, <1>3, <1>4 DEF WakeOwner
  <1> QED  BY <1>1, <1>5, <1>6

LEMMA RunClosureType == ASSUME TypeOK, RunClosure PROVE TypeOK'
  <1>1. PICK c \in closures : RunPrepare(c) \/ RunSync(c) \/ RunClear(c) \/ EnterGated(c) \/ WriteGated(c)
    BY DEF RunClosure
  <1>2. /\ task \in Task /\ poll \in Poll /\ folder \in Folder /\ closures \subseteq Closure
        /\ mailbox \in MaybeAccount /\ stray \in BOOLEAN /\ c.live \in BOOLEAN
    BY WakeType DEF TypeOK, WorkerTypeOK, Closure
  <1> USE <1>2, WakeType, ClosureFrame, NothingType DEF Leave
  <1>3. CASE RunPrepare(c)
    BY <1>3 DEF RunPrepare
  <1>4. CASE RunSync(c)
    <2>1. task' \in Task
      BY <1>4 DEF RunSync
    <2>2. mailbox' \in MaybeAccount /\ stray' \in BOOLEAN
      BY <1>4 DEF RunSync
    <2> QED  BY <1>4, <2>1, <2>2 DEF RunSync
  <1>5. CASE RunClear(c)
    <2>1. task' \in Task
      BY <1>5 DEF RunClear
    <2>2. mailbox' \in MaybeAccount /\ stray' \in BOOLEAN
      BY <1>5 DEF RunClear
    <2> QED  BY <1>5, <2>1, <2>2 DEF RunClear
  <1>6. CASE EnterGated(c)
    <2>1. [c EXCEPT !.inside = TRUE] \in Closure
      BY DEF Closure
    <2>2. closures' \subseteq Closure
      BY <1>6, <2>1 DEF EnterGated
    <2>3. poll' \in Poll /\ folder' \in Folder
      BY <1>6 DEF EnterGated
    <2> QED  BY <1>6, <2>2, <2>3 DEF EnterGated
  <1>7. CASE WriteGated(c)
    <2>1. poll' \in Poll /\ folder' \in Folder
      BY <1>7 DEF WriteGated
    <2> QED  BY <1>7, <2>1 DEF WriteGated
  <1> QED  BY <1>1, <1>3, <1>4, <1>5, <1>6, <1>7

LEMMA DropClosureType == ASSUME TypeOK, DropClosure PROVE TypeOK'
  <1>1. PICK c \in closures : Leave(c)
    BY DEF DropClosure
  <1> QED  BY <1>1, ClosureFrame DEF DropClosure, Leave, TypeOK, WorkerTypeOK

LEMMA RestartType == ASSUME TypeOK, Restart PROVE TypeOK'
  <1>1. cmds' \in Seq(Command) /\ evts' \in Seq(Event)
    <2>1. Cmd("Restore", 1, NoAccount) \in Command
      BY CmdType, NothingType DEF BoundaryKinds, SyncKinds
    <2> QED  BY <2>1 DEF Restart
  <1>2. UiTypeOK'
    BY NothingType DEF Restart, UiTypeOK, Sessions, FailureKinds, SyncKinds
  <1>3. WorkerTypeOK'
    BY NothingType DEF Restart, WorkerTypeOK
  <1> QED  BY <1>1, <1>2, <1>3 DEF Restart, TypeOK, diskVars

LEMMA StepType == TypeOK /\ [Next]_vars => TypeOK'
  <1> SUFFICES ASSUME TypeOK, [Next]_vars PROVE TypeOK'
    OBVIOUS
  <1>1. CASE Next
    BY <1>1, UiStepType, UiEventType, CtlStepType, TaskStepType, PollStepType, FolderStepType,
       RunClosureType, DropClosureType, RestartType DEF Next
  <1>2. CASE UNCHANGED vars
    BY <1>2 DEF vars, uiVars, workerVars, diskVars, TypeOK, UiTypeOK, WorkerTypeOK
  <1> QED  BY <1>1, <1>2

\* Every reachable state is well typed: no operation id, event or task field
\* leaves its type, for any number of accounts, operations and restarts.
THEOREM TypeCorrect == Spec => []TypeOK
  BY InitType, StepType, PTL DEF Spec
=============================================================================
