--------------------------- MODULE PollSessionProofs ---------------------------
(* Why a background poll writes only into its own session.  The argument is   *)
(* about metadata_lane: a sign-in at work holds it, a poll whose epoch is     *)
(* current holds it as long as its closure exists, and the authorization of   *)
(* another account is published only after the sign-in's own closure found    *)
(* cache_io free.                                                            *)
(*                                                                            *)
(* Why the mail on the screen is the account's: operations are begun in the   *)
(* order of their numbers, one operation announces one identity, and a        *)
(* request for a folder is given up when another account is named.            *)
(*                                                                            *)
(* Why Disconnect leaves nothing: awaited, it is the last thing the window    *)
(* asked for, so nothing is behind it in the queue that could sign in, fetch  *)
(* or poll; when it is answered no task and no gate is left that would let a  *)
(* closure in, and a restoration finds no token.                              *)
(*                                                                            *)
(* Why a session that becomes ready is authorized, and why tokens are         *)
(* replaced and deleted at the right moment: operations are asked for, taken  *)
(* up and answered in one order, and an answer is the last a task says.       *)
EXTENDS AccountLifecycleProofs

\* The phases of Connect and Restore between taking and releasing the lane.
SyncPhases == {"config", "browser", "exchange", "load", "refresh", "identity", "prepare", "prepareErr",
               "verified", "authorize", "mark", "save", "fetch", "commit", "commitErr", "synced"}

Awaited(c) == c.live /\ c.kind \in TaskClosures
WaitsAt(kind) == CASE kind = "prepare" -> "prepare" [] kind = "sync" -> "commit" [] OTHER -> "clear"
CurrentPoll(c) == c.kind = "poll" /\ c.epoch = epoch

\* A sign-in at work holds the lane and awaits at most one closure, where the
\* closure's kind says.
TaskHoldsLane ==
    /\ task.pc \in SyncPhases => lane = "task"
    /\ \A c \in closures : Awaited(c) => task.pc = WaitsAt(c.kind)
    /\ \A c, d \in closures : Awaited(c) /\ Awaited(d) => c = d

\* No closure is of a later epoch than the controller's, and the one of the
\* present epoch belongs to a poll that waits for it with the lane in hand.
PollHoldsLane ==
    /\ poll.epoch <= epoch
    /\ \A c \in closures : c.kind = "poll" => c.epoch <= epoch /\ (c.live => c.epoch = epoch)
    /\ \A c \in closures : CurrentPoll(c) => poll.pc = "commit" /\ lane = "poll"
    /\ \A c, d \in closures : CurrentPoll(c) /\ CurrentPoll(d) => c = d

\* Once the sign-in's own closure has run, no poll is inside cache_io.
NoPollInside ==
    task.pc \in {"verified", "authorize"} => \A c \in closures : ~(c.kind = "poll" /\ c.inside)

\* Only a closure with a gate is seen inside cache_io, between gate and write.
GatedInside == \A c \in closures : c.inside => c.kind \in {"poll", "folder"}

PollSessionInv ==
    TypeOK /\ GatedInside /\ TaskHoldsLane /\ PollHoldsLane /\ NoPollInside /\ PollWritesItsOwnSession

laneVars == <<task, poll, epoch, auth, lane, closures>>

-----------------------------------------------------------------------------

LEMMA InitPollSession == Init => PollSessionInv
  <1> SUFFICES ASSUME Init PROVE PollSessionInv
    OBVIOUS
  <1>1. TypeOK
    BY InitType
  <1>2. closures = {} /\ task.pc = "none" /\ poll.epoch = 0 /\ epoch = 0
    BY DEF Init, Startup, NoTask, NoPoll
  <1> QED  BY <1>1, <1>2 DEF PollSessionInv, GatedInside, TaskHoldsLane, PollHoldsLane, NoPollInside,
                             PollWritesItsOwnSession, SyncPhases

\* Steps that leave the lane, its holders and the closures alone.
LEMMA LaneFrame ==
  ASSUME PollSessionInv, UNCHANGED laneVars
  PROVE  TaskHoldsLane' /\ PollHoldsLane' /\ NoPollInside' /\ PollWritesItsOwnSession'
  BY DEF PollSessionInv, laneVars, TaskHoldsLane, PollHoldsLane, NoPollInside,
         PollWritesItsOwnSession, Awaited, CurrentPoll

-----------------------------------------------------------------------------
(* The controller *)

\* What Detach does to a closure: it may stop being awaited, and nothing else.
LEMMA DetachFacts ==
  ASSUME NEW kinds, Detach(kinds), closures \subseteq Closure, NEW c \in closures'
  PROVE  \E d \in closures : /\ c.kind = d.kind /\ c.acct = d.acct /\ c.epoch = d.epoch /\ c.inside = d.inside
                             /\ (c.live \/ c.kind \notin kinds) => c = d
                             /\ c.live => c.kind \notin kinds
  <1>1. PICK d \in closures : c = IF d.kind \in kinds THEN [d EXCEPT !.live = FALSE] ELSE d
    BY DEF Detach
  <1>2. d \in Closure
    OBVIOUS
  <1> QED  BY <1>1, <1>2 DEF Closure

LEMMA CtlStepPollSession ==
  ASSUME PollSessionInv, CtlStep
  PROVE  TaskHoldsLane' /\ PollHoldsLane' /\ NoPollInside' /\ PollWritesItsOwnSession'
  <1> USE DEF PollSessionInv
  <1>1. closures \subseteq Closure /\ epoch \in Nat /\ poll.epoch \in Nat /\ auth \in MaybeAccount
    BY DEF TypeOK, WorkerTypeOK, Poll
  <1>2. CASE CtlCancel \/ CtlDisconnect \/ CtlStartSync
    <2>1. /\ task'.pc \in {"none", "start", "begin"} /\ UNCHANGED <<poll, epoch>>
          /\ lane' \in {lane, "free"} /\ (lane = "poll" => lane' = "poll")
          /\ auth' \in {auth, NoAccount}
          /\ Detach(TaskClosures) \/ Detach(TaskClosures \cup {"folder"})
      <3>1. CASE CtlCancel
        BY <3>1 DEF CtlCancel, Freed, NoTask
      <3>2. CASE CtlDisconnect
        BY <3>2 DEF CtlDisconnect, Freed, NewTask
      <3>3. CASE CtlStartSync
        <4>1. task' = NewTask(held) \/ task' = NoTask
          BY <3>3 DEF CtlStartSync
        <4>2. task'.pc \in {"none", "start"}
          BY <3>3, <4>1 DEF CtlStartSync, NoTask, NewTask, SyncKinds
        <4> QED  BY <3>3, <4>2 DEF CtlStartSync, Freed
      <3> QED  BY <1>2, <3>1, <3>2, <3>3
    <2>2. \A c \in closures' : ~Awaited(c)
      BY <1>1, <2>1, DetachFacts DEF Awaited
    <2>3. ASSUME NEW c \in closures', c.kind = "poll" PROVE c \in closures
      BY <1>1, <2>1, <2>3, DetachFacts DEF TaskClosures
    <2> QED  BY <2>1, <2>2, <2>3 DEF TaskHoldsLane, PollHoldsLane, NoPollInside, PollWritesItsOwnSession,
                                     CurrentPoll, SyncPhases
  <1>3. CASE CtlBoundary
    <2>1. /\ UNCHANGED <<task, auth>> /\ epoch' = epoch + 1 /\ poll' = NoPoll /\ Detach({"poll"})
          /\ lane' = Freed({"poll"})
      BY <1>3 DEF CtlBoundary
    <2>2. ASSUME NEW c \in closures', Awaited(c) PROVE c \in closures
      BY <1>1, <2>1, <2>2, DetachFacts DEF Awaited
    <2>3. TaskHoldsLane'
      BY <2>1, <2>2 DEF TaskHoldsLane, Awaited, Freed
    <2>4. PollHoldsLane'
      BY <1>1, <2>1, DetachFacts DEF PollHoldsLane, CurrentPoll, NoPoll, Closure
    <2>5. NoPollInside' /\ PollWritesItsOwnSession'
      BY <1>1, <2>1, DetachFacts DEF NoPollInside, PollWritesItsOwnSession
    <2> QED  BY <2>3, <2>4, <2>5
  <1>4. CASE CtlShutdown
    <2>1. /\ task' = NoTask /\ auth' = NoAccount /\ epoch' = epoch + 1 /\ poll' = NoPoll
          /\ Detach(TaskClosures \cup {"poll", "folder"})
      BY <1>4 DEF CtlShutdown
    <2>2. TaskHoldsLane'
      BY <1>1, <2>1, DetachFacts DEF TaskHoldsLane, Awaited, NoTask, SyncPhases
    <2>3. PollHoldsLane'
      BY <1>1, <2>1, DetachFacts DEF PollHoldsLane, CurrentPoll, NoPoll, Closure
    <2> QED  BY <2>1, <2>2, <2>3 DEF NoPollInside, PollWritesItsOwnSession, NoTask
  <1>5. CASE CtlFetchFolder
    <2>1. /\ UNCHANGED <<task, poll, epoch, auth>> /\ Detach({"folder"}) /\ lane' = Freed({"folder"})
      BY <1>5 DEF CtlFetchFolder
    <2>2. ASSUME NEW c \in closures', Awaited(c) \/ c.kind = "poll" PROVE c \in closures
      BY <1>1, <2>1, <2>2, DetachFacts DEF Awaited
    <2> QED  BY <2>1, <2>2 DEF TaskHoldsLane, PollHoldsLane, NoPollInside, PollWritesItsOwnSession,
                               Awaited, CurrentPoll, Freed
  <1>6. CASE CtlBackgroundSync
    <2>1. /\ UNCHANGED <<task, epoch, auth, lane, closures>>
          /\ poll' = poll \/ (poll.pc \in {"none", "finished"} /\ poll'.epoch = epoch)
      <3>1. UNCHANGED <<task, epoch, auth, lane, closures>>
        BY <1>6 DEF CtlBackgroundSync
      <3>2. CASE poll.pc \in {"none", "finished"}
        <4>1. poll' = [id |-> Head(cmds).op, acct |-> Head(cmds).acct, epoch |-> epoch, pc |-> "auth"]
          BY <1>6, <3>2 DEF CtlBackgroundSync
        <4> QED  BY <3>1, <3>2, <4>1
      <3>3. CASE poll.pc \notin {"none", "finished"}
        BY <1>6, <3>1, <3>3 DEF CtlBackgroundSync
      <3> QED  BY <3>2, <3>3
    <2> QED  BY <1>1, <2>1 DEF TaskHoldsLane, PollHoldsLane, NoPollInside, PollWritesItsOwnSession,
                               Awaited, CurrentPoll
  <1>7. CASE CtlReap
    <2>1. /\ UNCHANGED <<poll, epoch, auth, lane, closures>> /\ task.pc = "finished" /\ task' = NoTask
      BY <1>7 DEF CtlReap, At
    <2> QED  BY <2>1 DEF TaskHoldsLane, PollHoldsLane, NoPollInside, PollWritesItsOwnSession,
                         Awaited, CurrentPoll, NoTask, SyncPhases, WaitsAt
  <1> QED  BY <1>2, <1>3, <1>4, <1>5, <1>6, <1>7 DEF CtlStep

-----------------------------------------------------------------------------
(* The sign-in and the Disconnect task *)

\* While the task is elsewhere than at the three waits, nothing is awaited.
LEMMA TaskStepPollSession ==
  ASSUME PollSessionInv, TaskStep
  PROVE  TaskHoldsLane' /\ PollHoldsLane' /\ NoPollInside' /\ PollWritesItsOwnSession'
  <1> USE DEF PollSessionInv
  <1>1. /\ closures \subseteq Closure /\ epoch \in Nat /\ task \in Task /\ poll \in Poll
        /\ UNCHANGED <<poll, epoch>>
    BY DEF TypeOK, WorkerTypeOK, TaskStep, TaskAcquireLane, ConnectListen, ConnectCallback, ConnectExchange,
           RestoreLoad, RestoreRefresh, RestoreIdentity, TaskVerified, TaskAuthorize, TaskMark, TaskSave,
           TaskFetch, TaskSynced, TaskCacheError, DisconnectBegin, DisconnectDrafts, DisconnectToken, NotTask
  \* The lane is taken.
  <1>2. CASE TaskAcquireLane
    <2>1. /\ UNCHANGED <<closures, auth>> /\ lane = "free" /\ lane' = "task"
          /\ task.pc = "start" /\ task'.pc \in {"config", "load"}
      BY <1>1, <1>2 DEF TaskAcquireLane, At, Goto, Task
    <2> QED  BY <1>1, <2>1 DEF TaskHoldsLane, PollHoldsLane, NoPollInside, PollWritesItsOwnSession,
                               Awaited, CurrentPoll, WaitsAt, TaskClosures
  \* The task ends and frees the lane.
  <1>3. ASSUME UNCHANGED <<closures, auth>>, task'.pc = "finished", lane' = Freed({"task"}),
               task.pc \notin {"prepare", "commit", "clear"}
        PROVE  TaskHoldsLane' /\ PollHoldsLane' /\ NoPollInside' /\ PollWritesItsOwnSession'
    BY <1>1, <1>3 DEF TaskHoldsLane, PollHoldsLane, NoPollInside, PollWritesItsOwnSession,
                      Awaited, CurrentPoll, WaitsAt, TaskClosures, Freed, SyncPhases
  \* The task goes on, without a closure.
  <1>4. ASSUME UNCHANGED <<closures, auth, lane>>, task.pc \notin {"prepare", "commit", "clear"},
               task'.pc \in SyncPhases => task.pc \in SyncPhases,
               task'.pc \in {"verified", "authorize"} => task.pc = "verified"
        PROVE  TaskHoldsLane' /\ PollHoldsLane' /\ NoPollInside' /\ PollWritesItsOwnSession'
    BY <1>1, <1>4 DEF TaskHoldsLane, PollHoldsLane, NoPollInside, PollWritesItsOwnSession,
                      Awaited, CurrentPoll, WaitsAt, TaskClosures
  \* The task spawns a closure and waits for it.
  <1>5. ASSUME NEW c, c.live, c.kind \in TaskClosures, closures' = closures \cup {c}, UNCHANGED <<auth, lane>>,
               task.pc \notin {"prepare", "commit", "clear"}, task'.pc = WaitsAt(c.kind),
               task'.pc \in SyncPhases => task.pc \in SyncPhases
        PROVE  TaskHoldsLane' /\ PollHoldsLane' /\ NoPollInside' /\ PollWritesItsOwnSession'
    <2>1. \A d \in closures : ~Awaited(d)
      BY <1>5 DEF TaskHoldsLane, Awaited, WaitsAt, TaskClosures
    <2>2. c.kind # "poll" /\ task'.pc \notin {"verified", "authorize"}
      BY <1>5 DEF TaskClosures, WaitsAt
    <2> QED  BY <1>1, <1>5, <2>1, <2>2 DEF TaskHoldsLane, PollHoldsLane, NoPollInside, PollWritesItsOwnSession,
                                           Awaited, CurrentPoll
  <1>6. \A pc \in {"finished", "config", "load", "browser", "exchange", "refresh", "identity", "prepare",
                   "verified", "authorize", "mark", "save", "fetch", "commit", "drafts", "clear"} :
          Goto(pc) => task'.pc = pc
    BY <1>1 DEF Goto, Task
  <1>7. ASSUME NEW f, NEW keep, FailTask(f, keep)
        PROVE  task'.pc = "finished" /\ lane' = Freed({"task"})
    BY <1>6, <1>7 DEF FailTask
  <1>8. Finish => task'.pc = "finished" /\ lane' = Freed({"task"})
    BY <1>6 DEF Finish
  <1>9. ASSUME NEW kind \in TaskClosures, Spawn(kind)
        PROVE  \E c : c.live /\ c.kind = kind /\ closures' = closures \cup {c}
    BY <1>9 DEF Spawn
  <1>10. CASE ConnectListen \/ ConnectCallback \/ TaskMark \/ TaskSynced \/ DisconnectBegin \/ DisconnectToken
              \/ RestoreRefresh \/ TaskSave \/ TaskVerified \/ TaskCacheError
    <2>1. UNCHANGED <<closures, auth>>
      BY <1>10 DEF ConnectListen, ConnectCallback, TaskMark, TaskSynced, DisconnectBegin, DisconnectToken,
                   RestoreRefresh, TaskSave, TaskVerified, TaskCacheError
    <2>2. task.pc \notin {"prepare", "commit", "clear"}
      BY <1>10 DEF ConnectListen, ConnectCallback, TaskMark, TaskSynced, DisconnectBegin, DisconnectToken,
                   RestoreRefresh, TaskSave, TaskVerified, TaskCacheError, At
    <2>3. \/ task'.pc = "finished" /\ lane' = Freed({"task"})
          \/ /\ lane' = lane
             /\ task'.pc \in SyncPhases => task.pc \in SyncPhases
             /\ task'.pc \in {"verified", "authorize"} => task.pc = "verified"
      <3>1. CASE ConnectListen
        BY <1>6, <1>7, <3>1 DEF ConnectListen, At, KeepLane, SyncPhases
      <3>2. CASE ConnectCallback
        BY <1>6, <1>7, <3>2 DEF ConnectCallback, At, KeepLane, SyncPhases
      <3>3. CASE TaskMark
        BY <1>6, <3>3 DEF TaskMark, At, SyncPhases
      <3>4. CASE TaskSynced
        BY <1>8, <3>4 DEF TaskSynced
      <3>5. CASE DisconnectBegin
        BY <1>6, <3>5 DEF DisconnectBegin, SyncPhases
      <3>6. CASE DisconnectToken
        BY <1>7, <1>8, <3>6 DEF DisconnectToken
      <3>7. CASE RestoreRefresh
        BY <1>6, <1>7, <3>7 DEF RestoreRefresh, At, KeepLane, SyncPhases
      <3>8. CASE TaskSave
        BY <1>6, <1>7, <3>8 DEF TaskSave, At, KeepLane, SyncPhases
      <3>9. CASE TaskVerified
        BY <1>6, <3>9 DEF TaskVerified, At, SyncPhases
      <3>10. CASE TaskCacheError
        BY <1>7, <3>10 DEF TaskCacheError
      <3> QED  BY <1>10, <3>1, <3>2, <3>3, <3>4, <3>5, <3>6, <3>7, <3>8, <3>9, <3>10
    <2> QED  BY <1>3, <1>4, <2>1, <2>2, <2>3
  <1>11. CASE RestoreLoad
    <2>1. UNCHANGED <<closures, auth>> /\ task.pc = "load"
      BY <1>11 DEF RestoreLoad, At
    <2>2. \/ task'.pc = "finished" /\ lane' = Freed({"task"})
          \/ lane' = lane /\ task'.pc = "refresh"
      BY <1>1, <1>7, <1>8, <1>11 DEF RestoreLoad, KeepLane, Task
    <2> QED  BY <1>3, <1>4, <2>1, <2>2 DEF SyncPhases
  <1>12. CASE ConnectExchange \/ RestoreIdentity \/ TaskFetch \/ DisconnectDrafts
    <2>1. auth' = auth /\ task.pc \in {"exchange", "identity", "fetch", "drafts"}
      BY <1>12 DEF ConnectExchange, RestoreIdentity, TaskFetch, DisconnectDrafts, At
    <2>2. \/ closures' = closures /\ task'.pc = "finished" /\ lane' = Freed({"task"})
          \/ /\ lane' = lane
             /\ \E c : /\ c.live /\ c.kind \in TaskClosures /\ closures' = closures \cup {c}
                       /\ task'.pc = WaitsAt(c.kind)
             /\ task'.pc \in SyncPhases => task.pc \in SyncPhases
      <3>1. CASE ConnectExchange
        <4>1. CASE \E f \in {"net", "auth"} : FailTask(f, TRUE) /\ UNCHANGED closures
          BY <1>7, <4>1
        <4>2. ASSUME NEW a \in Accounts, task' = [task EXCEPT !.pc = "prepare", !.acct = a], KeepLane,
                     closures' = closures \cup {[kind |-> "prepare", acct |-> a, id |-> task.op, epoch |-> 0,
                                                 live |-> TRUE, inside |-> FALSE]}
              PROVE  /\ lane' = lane /\ task'.pc = "prepare"
                     /\ \E c : c.live /\ c.kind = "prepare" /\ closures' = closures \cup {c}
          BY <1>1, <4>2 DEF KeepLane, Task
        <4> QED  BY <3>1, <4>1, <4>2 DEF ConnectExchange, At, TaskClosures, WaitsAt, SyncPhases
      <3>2. CASE RestoreIdentity
        BY <1>6, <1>7, <1>9, <3>2 DEF RestoreIdentity, At, KeepLane, TaskClosures, WaitsAt, SyncPhases
      <3>3. CASE TaskFetch
        BY <1>6, <1>7, <1>9, <3>3 DEF TaskFetch, At, KeepLane, TaskClosures, WaitsAt, SyncPhases
      <3>4. CASE DisconnectDrafts
        BY <1>6, <1>7, <1>9, <3>4 DEF DisconnectDrafts, At, KeepLane, TaskClosures, WaitsAt, SyncPhases
      <3> QED  BY <1>12, <3>1, <3>2, <3>3, <3>4
    <2> QED  BY <1>3, <1>5, <2>1, <2>2
  \* The authorization of the account is published: no poll is inside cache_io.
  <1>13. CASE TaskAuthorize
    <2>1. task.pc = "authorize" /\ UNCHANGED closures
      BY <1>13 DEF TaskAuthorize, At
    <2>2. \A c \in closures : ~(c.kind = "poll" /\ c.inside)
      BY <2>1 DEF NoPollInside
    <2>3. \/ task'.pc = "finished" /\ lane' = Freed({"task"})
          \/ lane' = lane /\ task'.pc \in {"mark", "fetch"}
      BY <1>6, <1>7, <1>13 DEF TaskAuthorize, KeepLane
    <2>4. TaskHoldsLane' /\ PollHoldsLane'
      BY <1>1, <2>1, <2>3 DEF TaskHoldsLane, PollHoldsLane, Awaited, CurrentPoll, WaitsAt, TaskClosures,
                              Freed, SyncPhases
    <2> QED  BY <2>1, <2>2, <2>4 DEF NoPollInside, PollWritesItsOwnSession
  <1> QED  BY <1>2, <1>10, <1>11, <1>12, <1>13 DEF TaskStep

-----------------------------------------------------------------------------
(* The poll, the folder task and the closures *)

LEMMA PollStepPollSession ==
  ASSUME PollSessionInv, PollStep
  PROVE  TaskHoldsLane' /\ PollHoldsLane' /\ NoPollInside' /\ PollWritesItsOwnSession'
  <1> USE DEF PollSessionInv
  <1>1. closures \subseteq Closure /\ epoch \in Nat /\ poll \in Poll /\ UNCHANGED <<task, epoch, auth>>
    BY DEF TypeOK, WorkerTypeOK, PollStep, PollAuth, PollRefresh, PollPermit, PollReplace, PollFetch, PollLane,
           PollPublish, NotPoll
  <1>2. poll.pc # "commit"
    BY DEF PollStep, PollAuth, PollRefresh, PollPermit, PollReplace, PollFetch, PollLane, PollPublish, PollAt
  <1>3. \A c \in closures : ~CurrentPoll(c)
    BY <1>2 DEF PollHoldsLane
  <1>4. ASSUME UNCHANGED closures, poll'.epoch = poll.epoch, lane' \in {lane, Freed({"poll"})}
        PROVE  TaskHoldsLane' /\ PollHoldsLane' /\ NoPollInside' /\ PollWritesItsOwnSession'
    BY <1>1, <1>3, <1>4 DEF TaskHoldsLane, PollHoldsLane, NoPollInside, PollWritesItsOwnSession,
                            Awaited, CurrentPoll, Freed
  <1>5. \A pc \in {"finished", "fetch", "refresh", "permit", "replace", "lane", "commit"} :
          PollGoto(pc) => poll'.epoch = poll.epoch /\ poll'.pc = pc
    BY <1>1 DEF PollGoto, Poll
  <1>6. ASSUME NEW keep, PollFail(keep) \/ PollLeave
        PROVE  poll'.epoch = poll.epoch /\ lane' = Freed({"poll"})
    BY <1>5, <1>6 DEF PollFail, PollLeave
  <1>7. CASE PollAuth \/ PollRefresh \/ PollPermit \/ PollReplace \/ PollFetch \/ PollPublish
    <2>1. UNCHANGED closures
      BY <1>7 DEF PollAuth, PollRefresh, PollPermit, PollReplace, PollFetch, PollPublish
    <2>2. poll'.epoch = poll.epoch /\ lane' \in {lane, Freed({"poll"})}
      <3>1. CASE PollAuth
        BY <1>5, <1>6, <3>1 DEF PollAuth
      <3>2. CASE PollRefresh
        BY <1>5, <1>6, <3>2 DEF PollRefresh
      <3>3. CASE PollPermit
        BY <1>5, <1>6, <3>3 DEF PollPermit
      <3>4. CASE PollReplace
        BY <1>5, <1>6, <3>4 DEF PollReplace
      <3>5. CASE PollFetch
        BY <1>5, <1>6, <3>5 DEF PollFetch
      <3>6. CASE PollPublish
        BY <1>5, <1>6, <3>6 DEF PollPublish
      <3> QED  BY <1>7, <3>1, <3>2, <3>3, <3>4, <3>5, <3>6
    <2> QED  BY <1>4, <2>1, <2>2
  <1>8. CASE PollLane
    <2>1. CASE ~Current(poll)
      BY <1>4, <1>6, <1>8, <2>1 DEF PollLane
    <2>2. CASE Current(poll)
      <3> DEFINE c == [kind |-> "poll", acct |-> poll.acct, id |-> poll.id, epoch |-> poll.epoch,
                       live |-> TRUE, inside |-> FALSE]
      <3>1. closures' = closures \cup {c} /\ lane = "free" /\ lane' = "poll" /\ poll'.pc = "commit"
            /\ poll'.epoch = poll.epoch /\ poll.epoch = epoch
        BY <1>5, <1>8, <2>2 DEF PollLane, Current
      <3>2. c.kind = "poll" /\ c.epoch = poll.epoch /\ ~c.inside /\ ~Awaited(c)
        BY DEF Awaited, TaskClosures
      <3> HIDE DEF c
      <3> QED  BY <1>1, <1>3, <3>1, <3>2 DEF TaskHoldsLane, PollHoldsLane, NoPollInside,
                                             PollWritesItsOwnSession, Awaited, CurrentPoll
    <2> QED  BY <2>1, <2>2
  <1> QED  BY <1>7, <1>8 DEF PollStep

LEMMA FolderStepPollSession ==
  ASSUME PollSessionInv, FolderStep
  PROVE  TaskHoldsLane' /\ PollHoldsLane' /\ NoPollInside' /\ PollWritesItsOwnSession'
  <1> USE DEF PollSessionInv
  <1>1. UNCHANGED <<task, poll, epoch, auth>>
    BY DEF FolderStep, FolderCredentials, FolderLane, FolderFetch, FolderPublish, NotFolder
  <1>2. lane' = lane \/ (lane \in {"free", "folder"} /\ lane' \in {"free", "folder"})
    BY DEF FolderStep, FolderCredentials, FolderLane, FolderFetch, FolderPublish, FolderEnd, Freed
  <1>3. closures' = closures \/ \E c : c.kind = "folder" /\ ~c.inside /\ closures' = closures \cup {c}
    <2>1. CASE FolderFetch
      BY <2>1 DEF FolderFetch
    <2>2. CASE FolderCredentials \/ FolderLane \/ FolderPublish
      BY <2>2 DEF FolderCredentials, FolderLane, FolderPublish
    <2> QED  BY <2>1, <2>2 DEF FolderStep
  <1> QED  BY <1>1, <1>2, <1>3 DEF TaskHoldsLane, PollHoldsLane, NoPollInside, PollWritesItsOwnSession,
                                   Awaited, CurrentPoll, TaskClosures

LEMMA RunClosurePollSession ==
  ASSUME PollSessionInv, RunClosure
  PROVE  TaskHoldsLane' /\ PollHoldsLane' /\ NoPollInside' /\ PollWritesItsOwnSession'
  <1> USE DEF PollSessionInv
  <1>1. PICK c \in closures : RunPrepare(c) \/ RunSync(c) \/ RunClear(c) \/ EnterGated(c) \/ WriteGated(c)
    BY DEF RunClosure
  <1>2. /\ c \in Closure /\ epoch \in Nat /\ task \in Task /\ poll \in Poll
        /\ UNCHANGED <<epoch, auth, lane>>
    BY <1>1 DEF TypeOK, WorkerTypeOK, RunPrepare, RunSync, RunClear, EnterGated, WriteGated, NotClosure
  <1>3. ASSUME NEW kind \in TaskClosures, NEW pc \in {"verified", "prepareErr", "synced", "commitErr", "token", "clearErr"},
               Runnable(c, kind), Leave(c), WakeTask(c, pc), UNCHANGED poll,
               pc \in SyncPhases => WaitsAt(kind) \in SyncPhases
        PROVE  TaskHoldsLane' /\ PollHoldsLane' /\ NoPollInside' /\ PollWritesItsOwnSession'
    <2>1. closures' = closures \ {c} /\ c.kind = kind /\ \A d \in closures : ~d.inside
      BY <1>3 DEF Runnable, Leave, IoFree
    <2>2. (c.live /\ task'.pc = pc) \/ (~c.live /\ task' = task)
      BY <1>2, <1>3 DEF WakeTask, Task, Closure
    <2>3. c.live => task.pc = WaitsAt(kind) /\ \A d \in closures' : ~Awaited(d)
      BY <2>1, <1>3 DEF TaskHoldsLane, Awaited
    <2>4. TaskHoldsLane'
      BY <1>2, <1>3, <2>1, <2>2, <2>3 DEF TaskHoldsLane, Awaited
    <2>5. PollHoldsLane'
      BY <1>2, <1>3, <2>1 DEF PollHoldsLane, CurrentPoll
    <2> QED  BY <2>1, <2>4, <2>5 DEF NoPollInside, PollWritesItsOwnSession
  <1>4. CASE RunPrepare(c)
    BY <1>3, <1>4 DEF RunPrepare, TaskClosures, WaitsAt, SyncPhases
  <1>5. CASE RunSync(c)
    BY <1>3, <1>5 DEF RunSync, TaskClosures, WaitsAt, SyncPhases
  <1>6. CASE RunClear(c)
    BY <1>3, <1>6 DEF RunClear, TaskClosures, WaitsAt, SyncPhases
  \* A gated closure leaves, and its poll or folder learns the result.
  <1>7. ASSUME NEW pc \in {"stale", "saved", "savedErr"}, Leave(c), WakeOwner(c, pc), UNCHANGED task,
               c.kind \in {"poll", "folder"}
        PROVE  TaskHoldsLane' /\ PollHoldsLane' /\ NoPollInside' /\ PollWritesItsOwnSession'
    <2>1. closures' = closures \ {c}
      BY <1>7 DEF Leave
    <2>2. poll'.epoch = poll.epoch /\ (poll' = poll \/ CurrentPoll(c))
      BY <1>2, <1>7 DEF WakeOwner, Poll, PollHoldsLane, CurrentPoll
    <2>3. TaskHoldsLane' /\ NoPollInside' /\ PollWritesItsOwnSession'
      BY <1>2, <1>7, <2>1 DEF TaskHoldsLane, NoPollInside, PollWritesItsOwnSession, Awaited
    <2>4. PollHoldsLane'
      BY <1>2, <2>1, <2>2 DEF PollHoldsLane, CurrentPoll
    <2> QED  BY <2>3, <2>4
  <1>8. CASE EnterGated(c)
    <2>1. CASE ~Admitted(c)
      BY <1>7, <1>8, <2>1 DEF EnterGated, Runnable
    <2>2. CASE Admitted(c)
      <3> DEFINE e == [c EXCEPT !.inside = TRUE]
      <3>1. closures' = (closures \ {c}) \cup {e} /\ UNCHANGED <<task, poll>> /\ c.kind \in {"poll", "folder"}
        BY <1>8, <2>2 DEF EnterGated, Runnable
      <3>2. e.kind = c.kind /\ e.acct = c.acct /\ e.epoch = c.epoch /\ e.live = c.live
        BY <1>2 DEF Closure
      <3>3. c.kind = "poll" => epoch = c.epoch /\ auth = c.acct
        BY <2>2 DEF Admitted
      <3> HIDE DEF e
      <3>4. TaskHoldsLane'
        BY <1>2, <3>1, <3>2 DEF TaskHoldsLane, Awaited, TaskClosures
      <3>5. PollHoldsLane'
        BY <1>2, <3>1, <3>2 DEF PollHoldsLane, CurrentPoll
      <3>6. c.kind = "poll" => task.pc \notin SyncPhases
        BY <3>3 DEF TaskHoldsLane, PollHoldsLane, CurrentPoll
      <3>7. NoPollInside' /\ PollWritesItsOwnSession'
        BY <1>2, <3>1, <3>2, <3>3, <3>6 DEF NoPollInside, PollWritesItsOwnSession, SyncPhases
      <3> QED  BY <3>4, <3>5, <3>7
    <2> QED  BY <2>1, <2>2
  <1>9. CASE WriteGated(c)
    <2>1. c.kind \in {"poll", "folder"}
      BY <1>2, <1>9 DEF WriteGated, GatedInside
    <2> QED  BY <1>7, <1>9, <2>1 DEF WriteGated
  <1> QED  BY <1>1, <1>4, <1>5, <1>6, <1>8, <1>9

\* Gates are passed by polls and folder requests only.
LEMMA StepGatedInside == ASSUME PollSessionInv, [Next]_vars PROVE GatedInside'
  <1> USE DEF PollSessionInv, GatedInside
  <1>1. closures \subseteq Closure
    BY DEF TypeOK, WorkerTypeOK
  <1>2. CASE UNCHANGED closures
    BY <1>2
  <1>3. ASSUME NEW c, ~c.inside, closures' = closures \cup {c} PROVE GatedInside'
    BY <1>3
  <1>4. ASSUME NEW kinds, Detach(kinds) PROVE GatedInside'
    BY <1>1, <1>4, DetachFacts
  <1>5. ASSUME NEW c, Leave(c) PROVE GatedInside'
    BY <1>5 DEF Leave
  <1>6. CASE UiStep \/ UiEvent
    <2>1. UNCHANGED closures
      BY <1>6 DEF UiStep, UiEvent, ClickConnect, ClickDisconnect, ClickRetry, ClickCancel, SelectFolder, Start,
           Disconnect, LoadFolder, BrowserLaunchFailed, BackgroundTimer, CloseWindow, DropStaleEvent, OnPhase,
           OnAuthorizationRequired, OnIdentityVerified, OnCacheLoaded, OnSignedOut, OnSyncComplete,
           OnDisconnected, OnFailed, OnPollComplete, OnPollFailed, OnFolderCacheLoaded, OnFolderLoaded,
           OnFolderFailed, NotUi
    <2> QED  BY <1>2, <2>1
  <1>7. CASE CtlStep
    <2>1. CASE CtlCancel \/ CtlBoundary \/ CtlDisconnect \/ CtlStartSync \/ CtlShutdown \/ CtlFetchFolder
      <3>1. \E kinds : Detach(kinds)
        BY <2>1 DEF CtlCancel, CtlBoundary, CtlDisconnect, CtlStartSync, CtlShutdown, CtlFetchFolder
      <3> QED  BY <1>4, <3>1
    <2>2. CASE CtlBackgroundSync \/ CtlReap
      BY <1>2, <2>2 DEF CtlBackgroundSync, CtlReap
    <2> QED  BY <1>7, <2>1, <2>2 DEF CtlStep
  <1>8. CASE TaskStep
    <2>1. CASE ConnectExchange
      <3>1. ASSUME NEW a \in Accounts,
                   closures' = closures \cup {[kind |-> "prepare", acct |-> a, id |-> task.op, epoch |-> 0,
                                               live |-> TRUE, inside |-> FALSE]}
            PROVE  GatedInside'
        BY <1>3, <3>1
      <3> QED  BY <1>2, <2>1, <3>1 DEF ConnectExchange
    <2>2. CASE RestoreIdentity \/ TaskFetch \/ DisconnectDrafts
      <3>1. UNCHANGED closures \/ \E kind \in TaskClosures : Spawn(kind)
        BY <2>2 DEF RestoreIdentity, TaskFetch, DisconnectDrafts, TaskClosures
      <3>2. ASSUME NEW kind, Spawn(kind) PROVE \E c : ~c.inside /\ closures' = closures \cup {c}
        BY <3>2 DEF Spawn
      <3> QED  BY <1>2, <1>3, <3>1, <3>2
    <2>3. CASE \/ TaskAcquireLane \/ ConnectListen \/ ConnectCallback \/ RestoreLoad \/ RestoreRefresh
               \/ TaskVerified \/ TaskAuthorize \/ TaskMark \/ TaskSave \/ TaskSynced \/ TaskCacheError
               \/ DisconnectBegin \/ DisconnectToken
      <3>1. UNCHANGED closures
        BY <2>3 DEF TaskAcquireLane, ConnectListen, ConnectCallback, RestoreLoad, RestoreRefresh, TaskVerified,
           TaskAuthorize, TaskMark, TaskSave, TaskSynced, TaskCacheError, DisconnectBegin, DisconnectToken
      <3> QED  BY <1>2, <3>1
    <2> QED  BY <1>8, <2>1, <2>2, <2>3 DEF TaskStep
  <1>9. CASE PollStep
    <2>1. CASE PollLane
      <3>1. CASE ~Current(poll)
        BY <1>2, <2>1, <3>1 DEF PollLane
      <3>2. CASE Current(poll)
        <4>1. PICK c : /\ closures' = closures \cup {c}
                       /\ c = [kind |-> "poll", acct |-> poll.acct, id |-> poll.id, epoch |-> poll.epoch,
                               live |-> TRUE, inside |-> FALSE]
          BY <2>1, <3>2 DEF PollLane
        <4> QED  BY <1>3, <4>1
      <3> QED  BY <3>1, <3>2
    <2>2. CASE PollAuth \/ PollRefresh \/ PollPermit \/ PollReplace \/ PollFetch \/ PollPublish
      <3>1. UNCHANGED closures
        BY <2>2 DEF PollAuth, PollRefresh, PollPermit, PollReplace, PollFetch, PollPublish
      <3> QED  BY <1>2, <3>1
    <2> QED  BY <1>9, <2>1, <2>2 DEF PollStep
  <1>10. CASE FolderStep
    <2>1. CASE FolderFetch
      <3>1. CASE UNCHANGED closures
        BY <1>2, <3>1
      <3>2. CASE closures' = closures \cup {[kind |-> "folder", acct |-> folder.acct, id |-> folder.id,
                                             epoch |-> 0, live |-> TRUE, inside |-> FALSE]}
        BY <1>3, <3>2
      <3> QED  BY <2>1, <3>1, <3>2 DEF FolderFetch
    <2>2. CASE FolderCredentials \/ FolderLane \/ FolderPublish
      BY <1>2, <2>2 DEF FolderCredentials, FolderLane, FolderPublish
    <2> QED  BY <1>10, <2>1, <2>2 DEF FolderStep
  <1>11. CASE RunClosure
    <2>1. PICK c \in closures : RunPrepare(c) \/ RunSync(c) \/ RunClear(c) \/ EnterGated(c) \/ WriteGated(c)
      BY <1>11 DEF RunClosure
    <2>2. CASE EnterGated(c)
      <3>1. c.kind \in {"poll", "folder"} /\ c \in Closure
        BY <1>1, <2>2 DEF EnterGated, Runnable
      <3>2. [c EXCEPT !.inside = TRUE].kind = c.kind
        BY <3>1 DEF Closure
      <3> QED  BY <1>5, <2>2, <3>1, <3>2 DEF EnterGated
    <2> QED  BY <1>5, <2>1, <2>2 DEF RunPrepare, RunSync, RunClear, WriteGated
  <1>12. CASE DropClosure
    BY <1>5, <1>12 DEF DropClosure
  <1>13. CASE Restart
    BY <1>13 DEF Restart
  <1> QED  BY <1>2, <1>6, <1>7, <1>8, <1>9, <1>10, <1>11, <1>12, <1>13 DEF Next, vars

LEMMA StepPollSession == PollSessionInv /\ [Next]_vars => PollSessionInv'
  <1> SUFFICES ASSUME PollSessionInv, [Next]_vars PROVE PollSessionInv'
    OBVIOUS
  <1>1. TypeOK' /\ GatedInside'
    BY StepType, StepGatedInside DEF PollSessionInv
  <1>2. CASE UiStep \/ UiEvent
    <2>1. UNCHANGED laneVars
      BY <1>2 DEF UiStep, UiEvent, ClickConnect, ClickDisconnect, ClickRetry, ClickCancel, SelectFolder, Start,
         Disconnect, LoadFolder, BrowserLaunchFailed, BackgroundTimer, CloseWindow, DropStaleEvent, OnPhase,
         OnAuthorizationRequired, OnIdentityVerified, OnCacheLoaded, OnSignedOut, OnSyncComplete,
         OnDisconnected, OnFailed, OnPollComplete, OnPollFailed, OnFolderCacheLoaded, OnFolderLoaded,
         OnFolderFailed, NotUi, workerVars, laneVars
    <2> QED  BY <1>1, <2>1, LaneFrame DEF PollSessionInv
  <1>3. CASE UNCHANGED vars
    <2>1. UNCHANGED laneVars
      BY <1>3 DEF vars, workerVars, laneVars
    <2> QED  BY <1>1, <2>1, LaneFrame DEF PollSessionInv
  \* The closures that were not started go, with nobody left to wait for them.
  <1>4. CASE DropClosure
    <2>1. PICK c \in closures : closures' = closures \ {c}
      BY <1>4 DEF DropClosure, Leave
    <2>2. UNCHANGED <<task, poll, epoch, auth, lane>>
      BY <1>4 DEF DropClosure, NotClosure
    <2> QED  BY <1>1, <2>1, <2>2 DEF PollSessionInv, TaskHoldsLane, PollHoldsLane, NoPollInside,
                                    PollWritesItsOwnSession, Awaited, CurrentPoll
  <1>5. CASE Restart
    <2>1. closures' = {} /\ task'.pc = "none" /\ poll'.epoch = 0 /\ epoch' = 0
      BY <1>5 DEF Restart, NoTask, NoPoll
    <2> QED  BY <1>1, <2>1 DEF PollSessionInv, TaskHoldsLane, PollHoldsLane, NoPollInside,
                               PollWritesItsOwnSession, SyncPhases
  <1> QED  BY <1>1, <1>2, <1>3, <1>4, <1>5, CtlStepPollSession, TaskStepPollSession, PollStepPollSession,
              FolderStepPollSession, RunClosurePollSession DEF Next, PollSessionInv

\* However a sign-in, a Disconnect and a poll interleave, and however late the
\* poll's detached closure gets a thread: while it is inside cache_io no other
\* account's authorization is in place.
THEOREM PollWritesOwnSession == Spec => []PollWritesItsOwnSession
  <1>1. PollSessionInv => PollWritesItsOwnSession
    BY DEF PollSessionInv
  <1> QED  BY <1>1, InitPollSession, StepPollSession, PTL DEF Spec

-----------------------------------------------------------------------------
(* The mail on the screen *)

\* The events that carry the identity a sign-in found, and the sign-in before it
\* knows one.
Announces(e) == e.type \in {"IdentityVerified", "CacheLoaded", "SyncComplete"}
Vouches(e) == Announces(e) \/ e.type \in {"AuthorizationRequired", "Disconnected"}
Unnamed == {"start", "config", "browser", "exchange", "load"}
Boundary(c) == c.type \in BoundaryKinds
FolderResult(e) == e.type \in {"FolderCacheLoaded", "FolderLoaded"}

\* Nothing has been said yet by the operation n.
Unheard(n) ==
    /\ task.op < n
    /\ \A i \in DOMAIN evts : Vouches(evts[i]) => evts[i].op < n

\* Operations are begun in the order of their numbers.
InTurn ==
    /\ Unheard(nextOp)
    /\ task.pc # "none" => task.op > 0
    /\ \A i \in DOMAIN evts : Vouches(evts[i]) => evts[i].op > 0
    /\ held # NoCmd => Unheard(held.op) /\ held.op < nextOp
    /\ \A i \in DOMAIN cmds :
          Boundary(cmds[i]) => Unheard(cmds[i].op) /\ held.op < cmds[i].op /\ cmds[i].op < nextOp
    /\ \A i, j \in DOMAIN cmds : i < j /\ Boundary(cmds[i]) /\ Boundary(cmds[j]) => cmds[i].op < cmds[j].op

\* One operation announces one identity, that of its task.
OneIdentity ==
    /\ \A i, j \in DOMAIN evts :
          Announces(evts[i]) /\ Announces(evts[j]) /\ evts[i].op = evts[j].op => evts[i].acct = evts[j].acct
    /\ \A i \in DOMAIN evts :
          Announces(evts[i]) /\ evts[i].op = task.op => task.pc \notin Unnamed /\ evts[i].acct = task.acct

\* A cached mailbox is announced after the identity it belongs to.
Introduces(e) == e.type = "IdentityVerified" /\ e.op = activeOp
IdentityFirst ==
    /\ \A i \in DOMAIN evts :
          evts[i].type = "CacheLoaded" /\ evts[i].op = activeOp
          => uiAccount = evts[i].acct \/ \E j \in DOMAIN evts : j < i /\ Introduces(evts[j])
    /\ task.pc = "authorize" /\ task.op = activeOp
       => uiAccount = task.acct \/ \E j \in DOMAIN evts : Introduces(evts[j])

\* A folder request still open was asked for by the account that is shown now.
Asked(id, a) == id > 0 /\ id < nextFolder /\ (id = uiFolder => a = uiAccount)
FoldersAsked ==
    /\ nextFolder > 0 /\ nextFolder <= MaxFolders + 1
    /\ \A i \in DOMAIN cmds : cmds[i].type = "Folder" => Asked(cmds[i].op, cmds[i].acct)
    /\ folder.pc # "none" => Asked(folder.id, folder.acct)
    /\ \A i \in DOMAIN evts : FolderResult(evts[i]) => Asked(evts[i].op, evts[i].acct)

\* A folder task waits for one closure at most.
FolderCloses(c) == c.kind = "folder" /\ c.live
FolderWaits ==
    /\ \A c \in closures : FolderCloses(c) => folder.pc = "commit"
    /\ \A c, d \in closures : FolderCloses(c) /\ FolderCloses(d) => c = d

ShownInv ==
    PollSessionInv /\ FolderWaits /\ InTurn /\ OneIdentity /\ IdentityFirst /\ FoldersAsked /\ ShownMailIsAccountMail

-----------------------------------------------------------------------------
(* What a step does to the events and to the commands *)

Telling(e) == Announces(e) \/ FolderResult(e)

\* The worker says nothing about identities and folders, and lets only its task
\* ask for a browser or confirm a Disconnect.
Silent ==
    /\ \A i \in DOMAIN evts' : Telling(evts'[i]) => i \in DOMAIN evts /\ evts'[i] = evts[i]
    /\ \A i \in DOMAIN evts : i \in DOMAIN evts' /\ evts'[i] = evts[i]
    /\ \A i \in DOMAIN evts' : Vouches(evts'[i]) => \/ i \in DOMAIN evts /\ evts'[i] = evts[i]
                                                    \/ task.pc # "none" /\ evts'[i].op = task.op

Taken == cmds # <<>> /\ cmds' = Tail(cmds)

LEMMA Appended ==
  ASSUME NEW S, NEW s \in Seq(S), NEW e
  PROVE  /\ DOMAIN Append(s, e) = DOMAIN s \cup {Len(s) + 1} /\ Len(s) + 1 \notin DOMAIN s
         /\ Append(s, e)[Len(s) + 1] = e
         /\ \A i \in DOMAIN s : Append(s, e)[i] = s[i] /\ i < Len(s) + 1 /\ i \in Nat
  OBVIOUS

LEMMA Shortened ==
  ASSUME NEW S, NEW s \in Seq(S), s # <<>>
  PROVE  /\ 1 \in DOMAIN s /\ s[1] = Head(s)
         /\ \A i \in DOMAIN Tail(s) : i \in Nat /\ i > 0 /\ i + 1 \in DOMAIN s /\ Tail(s)[i] = s[i + 1]
         /\ \A i \in DOMAIN s : i \in Nat /\ (i = 1 \/ (i > 1 /\ i - 1 \in DOMAIN Tail(s) /\ Tail(s)[i - 1] = s[i]))
  OBVIOUS

LEMMA Typed ==
  ASSUME TypeOK
  PROVE  /\ evts \in Seq(Event) /\ cmds \in Seq(Command) /\ held \in Command /\ held.op \in Nat
         /\ task \in Task /\ task.op \in Nat /\ nextOp \in Nat /\ activeOp \in Nat
         /\ nextFolder \in Nat /\ uiFolder \in Nat
         /\ folder \in Folder /\ folder.id \in Nat /\ closures \subseteq Closure
         /\ \A i \in DOMAIN evts : evts[i] \in Event /\ evts[i].op \in Nat
         /\ \A i \in DOMAIN cmds : cmds[i] \in Command /\ cmds[i].op \in Nat
  <1>1. /\ evts \in Seq(Event) /\ cmds \in Seq(Command) /\ held \in Command /\ task \in Task /\ folder \in Folder
        /\ nextOp \in Nat /\ activeOp \in Nat /\ nextFolder \in Nat /\ uiFolder \in Nat /\ closures \subseteq Closure
    BY DEF TypeOK, UiTypeOK, WorkerTypeOK
  <1>2. \A i \in DOMAIN evts : evts[i] \in Event
    BY <1>1
  <1>3. \A i \in DOMAIN cmds : cmds[i] \in Command
    BY <1>1
  <1> QED  BY <1>1, <1>2, <1>3 DEF Event, Command, Task, Folder

LEMMA Stuttering == evts' = evts => Silent
  BY DEF Silent

LEMMA Muttering ==
  ASSUME TypeOK, NEW e, ~Telling(e), Vouches(e) => task.pc # "none" /\ e.op = task.op, evts' = Append(evts, e)
  PROVE  Silent
  <1>1. evts \in Seq(Event)
    BY Typed
  <1> QED  BY <1>1, Appended DEF Silent

LEMMA EvtTells == \A t, n, a :
  /\ Telling(Evt(t, n, a)) <=>
       t \in {"IdentityVerified", "CacheLoaded", "SyncComplete", "FolderCacheLoaded", "FolderLoaded"}
  /\ Vouches(Evt(t, n, a)) <=>
       t \in {"IdentityVerified", "CacheLoaded", "SyncComplete", "AuthorizationRequired", "Disconnected"}
  /\ Evt(t, n, a).op = n
  BY DEF Telling, Vouches, Announces, FolderResult, Evt

LEMMA FailureTells == \A t, n, f, k :
  t \in {"Failed", "PollFailed", "FolderFailed"} => ~Telling(Failure(t, n, f, k)) /\ ~Vouches(Failure(t, n, f, k))
  BY DEF Telling, Vouches, Announces, FolderResult, Failure

-----------------------------------------------------------------------------
(* Steps of the worker, part by part *)

LEMMA TurnKept ==
  ASSUME TypeOK, TypeOK', InTurn, UNCHANGED nextOp,
         task'.pc # "none" => task'.op > 0,
         \A i \in DOMAIN evts' : Vouches(evts'[i]) => evts'[i].op > 0,
         \A n \in Nat : Unheard(n) => Unheard(n)',
         \/ UNCHANGED <<cmds, held>>
         \/ Taken /\ UNCHANGED held
         \/ Taken /\ held = NoCmd /\ held' = Head(cmds) /\ Boundary(Head(cmds))
  PROVE  InTurn'
  <1> USE Typed
  <1>1. Unheard(nextOp)'
    BY DEF InTurn
  <1>2. CASE UNCHANGED <<cmds, held>>
    <2>1. held' # NoCmd => Unheard(held.op)' /\ held'.op < nextOp'
      <3>1. PICK n \in Nat : n = held.op
        OBVIOUS
      <3> QED  BY <1>2, <3>1 DEF InTurn, Unheard
    <2>2. ASSUME NEW i \in DOMAIN cmds', Boundary(cmds'[i])
          PROVE  Unheard(cmds[i].op)' /\ held'.op < cmds'[i].op /\ cmds'[i].op < nextOp'
      <3>1. PICK n \in Nat : n = cmds[i].op
        BY <1>2
      <3>2. Unheard(n) /\ held.op < n /\ n < nextOp
        BY <1>2, <2>2, <3>1 DEF InTurn
      <3>3. Unheard(n)'
        BY <3>2
      <3> QED  BY <1>2, <3>1, <3>2, <3>3 DEF Unheard
    <2> QED  BY <1>1, <1>2, <2>1, <2>2 DEF InTurn
  <1>3. CASE Taken
    <2>1. \A i \in DOMAIN cmds' : i \in Nat /\ i > 0 /\ i + 1 \in DOMAIN cmds /\ cmds'[i] = cmds[i + 1]
      BY <1>3, Shortened DEF Taken
    <2>2. 1 \in DOMAIN cmds /\ cmds[1] = Head(cmds)
      BY <1>3, Shortened DEF Taken
    <2>3. held' # NoCmd => Unheard(held.op)' /\ held'.op < nextOp'
      <3>1. PICK n \in Nat : n = held'.op
        <4>1. held' \in Command
          BY DEF TypeOK, WorkerTypeOK
        <4> QED  BY <4>1 DEF Command
      <3>2. held' # NoCmd => Unheard(n) /\ n < nextOp
        <4>1. CASE UNCHANGED held
          BY <3>1, <4>1 DEF InTurn
        <4>2. CASE held' = Head(cmds) /\ Boundary(Head(cmds))
          BY <2>2, <3>1, <4>2 DEF InTurn
        <4>3. UNCHANGED held \/ (held' = Head(cmds) /\ Boundary(Head(cmds)))
          <5>1. CASE UNCHANGED <<cmds, held>>
            BY <5>1
          <5> QED  BY <5>1
        <4> QED  BY <4>1, <4>2, <4>3
      <3>3. held' # NoCmd => Unheard(n)'
        BY <3>2
      <3> QED  BY <3>1, <3>2, <3>3 DEF Unheard
    <2>4. ASSUME NEW i \in DOMAIN cmds', Boundary(cmds'[i])
          PROVE  Unheard(cmds[i].op)' /\ held'.op < cmds'[i].op /\ cmds'[i].op < nextOp'
      <3>1. PICK n \in Nat : n = cmds[i + 1].op
        BY <2>1
      <3>2. Unheard(n) /\ held.op < n /\ n < nextOp
        BY <2>1, <2>4, <3>1 DEF InTurn
      <3>3. Unheard(n)'
        BY <3>2
      <3>4. held'.op < n
        <4>1. CASE UNCHANGED held
          BY <3>2, <4>1
        <4>2. CASE held' = Head(cmds) /\ Boundary(Head(cmds))
          <5>1. 1 < i + 1 /\ Boundary(cmds[1]) /\ Boundary(cmds[i + 1])
            <6>1. i \in Nat /\ i > 0
              BY <2>1
            <6> QED  BY <2>1, <2>2, <2>4, <4>2, <6>1
          <5> QED  BY <2>1, <2>2, <3>1, <4>2, <5>1 DEF InTurn
        <4>3. UNCHANGED held \/ (held' = Head(cmds) /\ Boundary(Head(cmds)))
          <5>1. CASE UNCHANGED <<cmds, held>>
            BY <5>1
          <5> QED  BY <5>1
        <4> QED  BY <4>1, <4>2, <4>3
      <3> QED  BY <2>1, <3>1, <3>2, <3>3, <3>4 DEF Unheard
    <2>5. ASSUME NEW i \in DOMAIN cmds', NEW j \in DOMAIN cmds', i < j, Boundary(cmds'[i]), Boundary(cmds'[j])
          PROVE  cmds'[i].op < cmds'[j].op
      <3>1. i + 1 < j + 1
        BY <2>1, <2>5
      <3> QED  BY <2>1, <2>5, <3>1 DEF InTurn
    <2> QED  BY <1>1, <2>3, <2>4, <2>5 DEF InTurn
  <1> QED  BY <1>2, <1>3

\* The command that was held becomes a task, or is dropped.
LEMMA TurnBegun ==
  ASSUME TypeOK, TypeOK', InTurn, UNCHANGED <<nextOp, cmds>>, held # NoCmd, held' = NoCmd, Silent,
         task'.op = held.op \/ (task'.op = 0 /\ task'.pc = "none")
  PROVE  InTurn'
  <1> USE Typed
  <1>1. held.op > 0 /\ held'.op = 0
    BY DEF InTurn, Unheard, NoCmd, Cmd
  <1>2. ASSUME NEW n \in Nat, Unheard(n), held.op < n PROVE Unheard(n)'
    BY <1>1, <1>2 DEF Unheard, Silent
  <1>3. Unheard(nextOp)'
    <2>1. PICK n \in Nat : n = nextOp
      OBVIOUS
    <2> QED  BY <1>2, <2>1 DEF InTurn, Unheard
  <1>4. ASSUME NEW i \in DOMAIN cmds, Boundary(cmds[i])
        PROVE  Unheard(cmds[i].op)' /\ held'.op < cmds[i].op
    <2>1. PICK n \in Nat : n = cmds[i].op
      OBVIOUS
    <2>2. Unheard(n)'
      BY <1>2, <1>4, <2>1 DEF InTurn
    <2> QED  BY <1>1, <1>4, <2>1, <2>2 DEF Unheard, InTurn
  <1>5. \A i \in DOMAIN evts' : Vouches(evts'[i]) => evts'[i].op > 0
    BY DEF Silent, InTurn
  <1> QED  BY <1>1, <1>3, <1>4, <1>5 DEF InTurn

\* A silent step of a task leaves what the events say of identities true.
LEMMA NamesKept ==
  ASSUME OneIdentity, IdentityFirst, Silent, UNCHANGED <<activeOp, uiAccount>>,
         \/ task' = task
         \/ /\ task'.pc # "authorize"
            /\ \A i \in DOMAIN evts : Announces(evts[i]) /\ evts[i].op = task'.op
                                      => task'.pc \notin Unnamed /\ evts[i].acct = task'.acct
  PROVE  OneIdentity' /\ IdentityFirst'
  <1>1. \A i \in DOMAIN evts' : Announces(evts'[i]) => i \in DOMAIN evts /\ evts'[i] = evts[i]
    BY DEF Silent, Telling
  <1>2. \A i \in DOMAIN evts : i \in DOMAIN evts' /\ evts'[i] = evts[i]
    BY DEF Silent
  <1>3. OneIdentity'
    BY <1>1 DEF OneIdentity
  <1>4. ASSUME NEW i \in DOMAIN evts', evts'[i].type = "CacheLoaded", evts'[i].op = activeOp',
               uiAccount' # evts'[i].acct
        PROVE  \E j \in DOMAIN evts' : j < i /\ Introduces(evts[j])'
    <2>1. i \in DOMAIN evts /\ evts'[i] = evts[i]
      BY <1>1, <1>4 DEF Announces
    <2>2. PICK j \in DOMAIN evts : j < i /\ Introduces(evts[j])
      BY <1>4, <2>1 DEF IdentityFirst
    <2> QED  BY <1>2, <2>2 DEF Introduces
  <1>5. ASSUME task'.pc = "authorize", task'.op = activeOp', uiAccount' # task'.acct
        PROVE  \E j \in DOMAIN evts' : Introduces(evts[j])'
    <2>1. PICK j \in DOMAIN evts : Introduces(evts[j])
      BY <1>5 DEF IdentityFirst
    <2> QED  BY <1>2, <2>1 DEF Introduces
  <1> QED  BY <1>3, <1>4, <1>5 DEF IdentityFirst

\* A step of the worker takes a command at most, and its folder task and its
\* events know only what was asked.
LEMMA FoldersKept ==
  ASSUME TypeOK, FoldersAsked, UNCHANGED <<uiFolder, uiAccount, nextFolder>>, cmds' = cmds \/ Taken,
         folder'.pc # "none" => Asked(folder'.id, folder'.acct),
         \A i \in DOMAIN evts' : FolderResult(evts'[i]) => Asked(evts'[i].op, evts'[i].acct)
  PROVE  FoldersAsked'
  <1>1. ASSUME NEW i \in DOMAIN cmds', cmds'[i].type = "Folder"
        PROVE  Asked(cmds'[i].op, cmds'[i].acct)
    <2>1. CASE cmds' = cmds
      BY <1>1, <2>1 DEF FoldersAsked
    <2>2. CASE Taken
      <3>1. i + 1 \in DOMAIN cmds /\ cmds'[i] = cmds[i + 1]
        BY <2>2, Typed, Shortened DEF Taken
      <3> QED  BY <1>1, <3>1 DEF FoldersAsked
    <2> QED  BY <2>1, <2>2
  <1> QED  BY <1>1 DEF FoldersAsked, Asked

-----------------------------------------------------------------------------
(* The worker *)

\* The task goes on; until it knows an identity it has announced none.
Advances ==
    /\ task'.op = task.op /\ task.pc # "none" /\ task'.pc # "authorize"
    /\ task.pc \in Unnamed \/ (task'.acct = task.acct /\ task'.pc \notin Unnamed)

LEMMA QuietWorker ==
  ASSUME ShownInv, TypeOK', UNCHANGED uiVars, Silent,
         task' = task \/ task' = NoTask \/ Advances,
         \/ UNCHANGED <<cmds, held>>
         \/ Taken /\ UNCHANGED held
         \/ Taken /\ held = NoCmd /\ held' = Head(cmds) /\ Boundary(Head(cmds)),
         folder'.pc # "none" => Asked(folder'.id, folder'.acct)
  PROVE  InTurn' /\ OneIdentity' /\ IdentityFirst' /\ FoldersAsked'
  <1> USE DEF ShownInv, PollSessionInv
  <1>1. /\ UNCHANGED <<nextOp, activeOp, uiAccount, uiFolder, nextFolder>>
        /\ TypeOK /\ task.op \in Nat /\ (cmds' = cmds \/ Taken)
    BY Typed DEF uiVars
  <1>2. task'.op = task.op \/ task'.op = 0
    BY DEF NoTask, Advances
  <1>7. task'.pc # "none" => task'.op > 0
    BY DEF InTurn, NoTask, Advances
  <1>3. \A i \in DOMAIN evts' : Announces(evts'[i]) => i \in DOMAIN evts /\ evts'[i] = evts[i]
    BY DEF Silent, Telling
  <1>4. InTurn'
    <2>1. ASSUME NEW n \in Nat, Unheard(n) PROVE Unheard(n)'
      <3>1. task'.op < n
        BY <1>1, <1>2, <2>1 DEF Unheard
      <3>2. \A i \in DOMAIN evts' : Vouches(evts'[i]) => evts'[i].op < n
        BY <2>1 DEF Unheard, Silent
      <3> QED  BY <3>1, <3>2 DEF Unheard
    <2>2. \A i \in DOMAIN evts' : Vouches(evts'[i]) => evts'[i].op > 0
      BY DEF InTurn, Silent
    <2> QED  BY <1>1, <1>7, <2>1, <2>2, TurnKept
  <1>5. OneIdentity' /\ IdentityFirst'
    <2>1. CASE task' = NoTask
      BY <1>1, <2>1, NamesKept DEF NoTask, InTurn, Vouches
    <2>2. CASE Advances
      BY <1>1, <2>2, NamesKept DEF Advances, OneIdentity
    <2> QED  BY <1>1, <2>1, <2>2, NamesKept
  <1>6. FoldersAsked'
    <2>1. \A i \in DOMAIN evts' : FolderResult(evts'[i]) => Asked(evts'[i].op, evts'[i].acct)
      BY DEF Silent, Telling, FoldersAsked
    <2> QED  BY <1>1, <2>1, FoldersKept
  <1> QED  BY <1>4, <1>5, <1>6

LEMMA CtlStepShown ==
  ASSUME ShownInv, TypeOK', CtlStep
  PROVE  InTurn' /\ OneIdentity' /\ IdentityFirst' /\ FoldersAsked'
  <1> USE DEF ShownInv, PollSessionInv
  <1>1. UNCHANGED uiVars
    BY DEF CtlStep, CtlCancel, CtlBackgroundSync, CtlFetchFolder, CtlBoundary, CtlDisconnect, CtlStartSync,
           CtlShutdown, CtlReap, NotWorker
  <1>2. \A t, n, f, k : t \in {"Failed", "PollFailed"} /\ Emit(Failure(t, n, f, k)) => Silent
    BY Muttering, FailureTells DEF Emit
  <1>3. \A n, a : Emit(Evt("Cancelled", n, a)) => Silent
    BY Muttering, EvtTells DEF Emit
  <1>4. folder.pc # "none" => Asked(folder.id, folder.acct)
    BY DEF FoldersAsked
  <1>5. NoFolder.pc = "none"
    BY DEF NoFolder
  <1>6. ASSUME NEW ts, Received(ts)
        PROVE  held = NoCmd /\ cmds # <<>> /\ Head(cmds).type \in ts /\ 1 \in DOMAIN cmds /\ cmds[1] = Head(cmds)
    BY <1>6, Shortened, Typed DEF Received
  <1>7. CASE CtlCancel
    <2>1. Taken /\ UNCHANGED <<held, folder>> /\ task' = NoTask
      BY <1>6, <1>7 DEF CtlCancel, Taken
    <2>2. Silent
      BY <1>2, <1>3, <1>7 DEF CtlCancel
    <2> QED  BY <1>1, <1>4, <2>1, <2>2, QuietWorker
  <1>8. CASE CtlBackgroundSync
    <2>1. Taken /\ UNCHANGED <<held, folder, task>>
      BY <1>6, <1>8 DEF CtlBackgroundSync, Taken
    <2>2. Silent
      BY <1>2, <1>8, Stuttering DEF CtlBackgroundSync
    <2> QED  BY <1>1, <1>4, <2>1, <2>2, QuietWorker
  <1>9. CASE CtlFetchFolder
    <2>1. /\ Taken /\ UNCHANGED <<held, task, evts>> /\ Head(cmds).type = "Folder"
          /\ folder'.id = Head(cmds).op /\ folder'.acct = Head(cmds).acct
      BY <1>6, <1>9 DEF CtlFetchFolder, Taken
    <2>2. Asked(Head(cmds).op, Head(cmds).acct)
      BY <1>6, <1>9, <2>1 DEF CtlFetchFolder, FoldersAsked
    <2> QED  BY <1>1, <2>1, <2>2, Stuttering, QuietWorker
  <1>10. CASE CtlBoundary
    <2>1. Taken /\ UNCHANGED <<folder, task>> /\ held = NoCmd /\ held' = Head(cmds) /\ Boundary(Head(cmds))
      BY <1>6, <1>10 DEF CtlBoundary, Taken, Boundary
    <2>2. Silent
      BY <1>2, <1>10, Stuttering DEF CtlBoundary
    <2> QED  BY <1>1, <1>4, <2>1, <2>2, QuietWorker
  <1>11. CASE CtlDisconnect \/ CtlStartSync
    <2>1. held # NoCmd /\ held' = NoCmd /\ UNCHANGED cmds /\ folder' = NoFolder
      <3>1. NoCmd.type \notin {"Disconnect", "Connect", "Restore"}
        BY DEF NoCmd, Cmd
      <3> QED  BY <1>11, <3>1 DEF CtlDisconnect, CtlStartSync, SyncKinds
    <2>2. Silent
      BY <1>2, <1>11, Stuttering DEF CtlDisconnect, CtlStartSync
    <2>3. task' = NoTask \/ task' = NewTask(held)
      BY <1>11 DEF CtlDisconnect, CtlStartSync
    <2>4. /\ task'.op = held.op \/ (task'.op = 0 /\ task'.pc = "none")
          /\ task'.pc # "authorize"
      BY <2>3 DEF NewTask, NoTask
    <2>5. UNCHANGED <<nextOp, activeOp, uiAccount, uiFolder, nextFolder>>
      BY <1>1 DEF uiVars
    <2>6. InTurn'
      BY <2>1, <2>2, <2>4, <2>5, TurnBegun
    <2>7. \A i \in DOMAIN evts : Announces(evts[i]) => evts[i].op # task'.op
      BY <2>1, <2>4, Typed DEF InTurn, Unheard, Vouches
    <2>8. OneIdentity' /\ IdentityFirst'
      BY <2>2, <2>4, <2>5, <2>7, NamesKept
    <2>9. FoldersAsked'
      <3>1. \A i \in DOMAIN evts' : FolderResult(evts'[i]) => Asked(evts'[i].op, evts'[i].acct)
        BY <2>2 DEF Silent, Telling, FoldersAsked
      <3> QED  BY <1>5, <2>1, <2>5, <3>1, FoldersKept
    <2> QED  BY <2>6, <2>8, <2>9
  <1>12. CASE CtlShutdown
    <2>1. Taken /\ UNCHANGED <<held, evts>> /\ folder' = NoFolder /\ task' = NoTask
      BY <1>6, <1>12 DEF CtlShutdown, Taken
    <2> QED  BY <1>1, <1>5, <2>1, Stuttering, QuietWorker
  <1>13. CASE CtlReap
    BY <1>1, <1>4, <1>13, Stuttering, QuietWorker DEF CtlReap
  <1> QED  BY <1>7, <1>8, <1>9, <1>10, <1>11, <1>12, <1>13 DEF CtlStep

-----------------------------------------------------------------------------
(* The task *)

\* An announcement of the task is of its own operation and identity.
LEMMA Announcing ==
  ASSUME ShownInv, TypeOK', UNCHANGED <<uiVars, cmds, held, folder>>, task.pc \notin Unnamed \cup {"none"},
         task'.op = task.op, task'.acct = task.acct, task'.pc \notin Unnamed \cup {"none"},
         NEW t \in {"IdentityVerified", "CacheLoaded", "SyncComplete"},
         t # "IdentityVerified" => task'.pc # "authorize",
         t = "CacheLoaded" => task.pc = "authorize",
         Emit(Evt(t, task.op, task.acct))
  PROVE  InTurn' /\ OneIdentity' /\ IdentityFirst' /\ FoldersAsked'
  <1> USE DEF ShownInv, PollSessionInv
  <1>1. /\ UNCHANGED <<nextOp, activeOp, uiAccount, uiFolder, nextFolder, cmds, held, folder>>
        /\ TypeOK /\ evts \in Seq(Event) /\ task.op \in Nat
    BY Typed DEF uiVars
  <1> DEFINE e == Evt(t, task.op, task.acct)
             k == Len(evts) + 1
  <1>2. /\ Announces(e) /\ Vouches(e) /\ ~FolderResult(e) /\ e.op = task.op /\ e.acct = task.acct /\ e.type = t
    BY DEF Evt, Announces, Vouches, FolderResult
  <1> HIDE DEF e
  <1>3. /\ DOMAIN evts' = DOMAIN evts \cup {k} /\ k \notin DOMAIN evts /\ evts'[k] = e
        /\ \A i \in DOMAIN evts : evts'[i] = evts[i] /\ i < k /\ i \in Nat
    BY <1>1, Appended DEF Emit, e
  <1> HIDE DEF k
  <1>4. InTurn'
    <2>1. task'.op > 0
      BY DEF InTurn
    <2>2. ASSUME NEW n \in Nat, Unheard(n) PROVE Unheard(n)'
      BY <1>1, <1>2, <1>3, <2>2 DEF Unheard
    <2>3. \A i \in DOMAIN evts' : Vouches(evts'[i]) => evts'[i].op > 0
      BY <1>1, <1>2, <1>3, <2>1 DEF InTurn
    <2> QED  BY <1>1, <2>1, <2>2, <2>3, TurnKept
  <1>5. OneIdentity'
    BY <1>2, <1>3 DEF OneIdentity
  <1>6. IdentityFirst'
    <2>1. ASSUME NEW i \in DOMAIN evts', evts'[i].type = "CacheLoaded", evts'[i].op = activeOp',
                 uiAccount' # evts'[i].acct
          PROVE  \E j \in DOMAIN evts' : j < i /\ Introduces(evts[j])'
      <3>1. \E j \in DOMAIN evts : j < i /\ Introduces(evts[j])
        <4>1. CASE i \in DOMAIN evts
          BY <1>1, <1>3, <2>1, <4>1 DEF IdentityFirst
        <4>2. CASE i = k
          <5>1. task.pc = "authorize" /\ task.op = activeOp /\ uiAccount # task.acct
            BY <1>1, <1>2, <1>3, <2>1, <4>2
          <5>2. \E j \in DOMAIN evts : Introduces(evts[j])
            BY <5>1 DEF IdentityFirst
          <5> QED  BY <1>3, <4>2, <5>2
        <4> QED  BY <1>3, <4>1, <4>2
      <3> QED  BY <1>1, <1>3, <3>1 DEF Introduces
    <2>2. ASSUME task'.pc = "authorize", task'.op = activeOp'
          PROVE  \E j \in DOMAIN evts' : Introduces(evts[j])'
      BY <1>1, <1>2, <1>3, <2>2 DEF Introduces
    <2> QED  BY <2>1, <2>2 DEF IdentityFirst
  <1>7. FoldersAsked'
    <2>1. \A i \in DOMAIN evts' : FolderResult(evts'[i]) => Asked(evts'[i].op, evts'[i].acct)
      BY <1>2, <1>3 DEF FoldersAsked
    <2>2. folder'.pc # "none" => Asked(folder'.id, folder'.acct)
      BY <1>1 DEF FoldersAsked
    <2> QED  BY <1>1, <2>1, <2>2, FoldersKept
  <1> QED  BY <1>4, <1>5, <1>6, <1>7

LEMMA TaskStepShown ==
  ASSUME ShownInv, TypeOK', TaskStep
  PROVE  InTurn' /\ OneIdentity' /\ IdentityFirst' /\ FoldersAsked'
  <1> USE DEF ShownInv, PollSessionInv
  <1>1. UNCHANGED <<uiVars, cmds, held, folder>>
    BY DEF TaskStep, TaskAcquireLane, ConnectListen, ConnectCallback, ConnectExchange,
           RestoreLoad, RestoreRefresh, RestoreIdentity, TaskVerified, TaskAuthorize, TaskMark, TaskSave,
           TaskFetch, TaskSynced, TaskCacheError, DisconnectBegin, DisconnectDrafts, DisconnectToken,
           NotTask, NotWorker
  <1>2. folder'.pc # "none" => Asked(folder'.id, folder'.acct)
    BY <1>1 DEF FoldersAsked
  <1>3. task \in Task
    BY Typed
  <1>4. ASSUME NEW pc, Goto(pc)
        PROVE  task'.pc = pc /\ task'.op = task.op /\ task'.acct = task.acct
    BY <1>3, <1>4 DEF Goto, Task
  <1>5. ASSUME NEW f, NEW keep, FailTask(f, keep)
        PROVE  Silent /\ Goto("finished") /\ (task.pc # "none" => Advances)
    <2>1. Silent /\ Goto("finished")
      BY <1>5, Muttering, FailureTells DEF FailTask, Emit
    <2> QED  BY <1>4, <2>1 DEF Advances, Unnamed
  <1>6. ASSUME Silent, Advances
        PROVE  InTurn' /\ OneIdentity' /\ IdentityFirst' /\ FoldersAsked'
    BY <1>1, <1>2, <1>6, QuietWorker
  <1>7. ASSUME NEW t, t \in {"Phase", "AuthorizationRequired", "NoStoredAccount", "Disconnected"},
               NEW a, Emit(Evt(t, task.op, a))
        PROVE  task.pc # "none" => Silent
    BY <1>7, Muttering, EvtTells DEF Emit
  <1>8. CASE TaskVerified
    BY <1>1, <1>4, <1>8, Announcing DEF TaskVerified, At, Unnamed
  <1>9. CASE TaskSynced
    BY <1>1, <1>4, <1>9, Announcing DEF TaskSynced, At, Finish, Unnamed
  <1>10. CASE TaskAuthorize
    <2>1. task.pc = "authorize"
      BY <1>10 DEF TaskAuthorize, At
    <2>2. CASE \E f \in {"auth", "save", "worker"} : FailTask(f, FALSE)
      BY <1>5, <1>6, <2>1, <2>2
    <2>3. CASE Goto("mark") /\ UNCHANGED evts
      BY <1>4, <1>6, <2>1, <2>3, Stuttering DEF Advances, Unnamed
    <2>4. CASE Goto("fetch") /\ UNCHANGED evts
      BY <1>4, <1>6, <2>1, <2>4, Stuttering DEF Advances, Unnamed
    <2>5. CASE Goto("fetch") /\ Emit(Evt("CacheLoaded", task.op, task.acct))
      BY <1>1, <1>4, <2>1, <2>5, Announcing DEF Unnamed
    <2> QED  BY <1>10, <2>2, <2>3, <2>4, <2>5 DEF TaskAuthorize
  <1>11. CASE ConnectExchange
    <2>1. task.pc = "exchange"
      BY <1>11 DEF ConnectExchange, At
    <2>2. CASE \E f \in {"net", "auth"} : FailTask(f, TRUE)
      BY <1>5, <1>6, <2>1, <2>2
    <2>3. ASSUME NEW a \in Accounts, task' = [task EXCEPT !.pc = "prepare", !.acct = a], UNCHANGED evts
          PROVE  Silent /\ Advances
      BY <1>3, <2>1, <2>3, Stuttering DEF Advances, Unnamed, Task
    <2> QED  BY <1>6, <1>11, <2>2, <2>3 DEF ConnectExchange
  <1>12. CASE RestoreLoad
    <2>1. task.pc = "load"
      BY <1>12 DEF RestoreLoad, At
    <2>2. CASE FailTask("net", TRUE)
      BY <1>5, <1>6, <2>1, <2>2
    <2>3. CASE Emit(Evt("NoStoredAccount", task.op, NoAccount)) /\ Finish
      BY <1>4, <1>6, <1>7, <2>1, <2>3 DEF Advances, Unnamed, Finish
    <2>4. CASE task' = [task EXCEPT !.pc = "refresh", !.acct = keyring, !.cached = mailbox] /\ UNCHANGED evts
      BY <1>3, <1>6, <2>1, <2>4, Stuttering DEF Advances, Unnamed, Task
    <2> QED  BY <1>12, <2>2, <2>3, <2>4 DEF RestoreLoad
  \* The other steps say nothing.
  <1>13. CASE TaskAcquireLane \/ ConnectListen \/ ConnectCallback
    <2>1. task.pc \in {"start", "config", "browser"}
      BY <1>13 DEF TaskAcquireLane, ConnectListen, ConnectCallback, At
    <2>2. \E pc \in {"config", "load", "browser", "exchange", "finished"} : Goto(pc)
      BY <1>5, <1>13 DEF TaskAcquireLane, ConnectListen, ConnectCallback
    <2>3. Silent
      BY <1>5, <1>7, <1>13, <2>1, Stuttering DEF TaskAcquireLane, ConnectListen, ConnectCallback
    <2> QED  BY <1>4, <1>6, <2>1, <2>2, <2>3 DEF Advances, Unnamed
  <1>14. CASE RestoreRefresh \/ RestoreIdentity \/ TaskMark \/ TaskSave \/ TaskFetch \/ TaskCacheError
              \/ DisconnectBegin \/ DisconnectDrafts \/ DisconnectToken
    <2>1. task.pc # "none"
      BY <1>14 DEF RestoreRefresh, RestoreIdentity, TaskMark, TaskSave, TaskFetch, TaskCacheError,
                   DisconnectBegin, DisconnectDrafts, DisconnectToken, At
    <2>2. \E pc \in {"identity", "mark", "prepare", "save", "fetch", "commit", "finished", "drafts", "clear"} : Goto(pc)
      <3>1. CASE TaskSave
        BY <1>5, <3>1 DEF TaskSave
      <3> QED  BY <1>5, <1>14, <3>1 DEF RestoreRefresh, RestoreIdentity, TaskMark, TaskFetch, TaskCacheError,
                   DisconnectBegin, DisconnectDrafts, DisconnectToken, Finish
    <2>3. Silent
      <3>1. CASE TaskSave
        BY <1>5, <3>1, Stuttering DEF TaskSave
      <3> QED  BY <1>5, <1>7, <1>14, <2>1, <3>1, Stuttering DEF RestoreRefresh, RestoreIdentity, TaskMark, TaskFetch,
                   TaskCacheError, DisconnectBegin, DisconnectDrafts, DisconnectToken
    <2> QED  BY <1>4, <1>6, <2>1, <2>2, <2>3 DEF Advances, Unnamed
  <1> QED  BY <1>8, <1>9, <1>10, <1>11, <1>12, <1>13, <1>14 DEF TaskStep

-----------------------------------------------------------------------------
(* The poll, the folder task and the closures *)

LEMMA PollStepShown ==
  ASSUME ShownInv, TypeOK', PollStep
  PROVE  InTurn' /\ OneIdentity' /\ IdentityFirst' /\ FoldersAsked'
  <1> USE DEF ShownInv, PollSessionInv
  <1>1. UNCHANGED <<uiVars, cmds, held, folder, task>>
    BY DEF PollStep, PollAuth, PollRefresh, PollPermit, PollReplace, PollFetch, PollLane, PollPublish, NotPoll, NotWorker
  <1>2. \A keep : PollFail(keep) => Silent
    BY Muttering, Stuttering, FailureTells DEF PollFail, Emit
  <1>3. PollLeave => Silent
    BY Stuttering DEF PollLeave
  <1>4. Silent
    <2>1. CASE PollPublish
      <3>1. ASSUME Emit(Evt("PollComplete", poll.id, poll.acct)) PROVE Silent
        BY <3>1, Muttering, EvtTells DEF Emit
      <3> QED  BY <1>2, <1>3, <2>1, <3>1 DEF PollPublish
    <2> QED  BY <1>2, <1>3, <2>1, Stuttering
             DEF PollStep, PollAuth, PollRefresh, PollPermit, PollReplace, PollFetch, PollLane
  <1>5. folder'.pc # "none" => Asked(folder'.id, folder'.acct)
    BY <1>1 DEF FoldersAsked
  <1> QED  BY <1>1, <1>4, <1>5, QuietWorker

\* A list of the folder task is what was asked for.
LEMMA FolderStepShown ==
  ASSUME ShownInv, TypeOK', FolderStep
  PROVE  InTurn' /\ OneIdentity' /\ IdentityFirst' /\ FoldersAsked'
  <1> USE DEF ShownInv, PollSessionInv
  <1>1. /\ UNCHANGED <<uiVars, cmds, held, task>>
        /\ TypeOK /\ folder \in Folder /\ evts \in Seq(Event)
    BY Typed DEF FolderStep, FolderCredentials, FolderLane, FolderFetch, FolderPublish, NotFolder, NotWorker
  <1>2. UNCHANGED <<nextOp, activeOp, uiAccount, uiFolder, nextFolder>>
    BY <1>1 DEF uiVars
  <1>3. folder.pc # "none" /\ Asked(folder.id, folder.acct)
    BY DEF FolderStep, FolderCredentials, FolderLane, FolderFetch, FolderPublish, FolderAt, FoldersAsked
  \* The folder task goes on, or ends.
  <1>4. folder'.pc # "none" => Asked(folder'.id, folder'.acct)
    <2>1. ASSUME NEW pc, folder' = [folder EXCEPT !.pc = pc] PROVE folder'.id = folder.id /\ folder'.acct = folder.acct
      BY <1>1, <2>1 DEF Folder
    <2>2. FolderEnd => folder'.pc = "none"
      BY DEF FolderEnd, NoFolder
    <2> QED  BY <1>3, <2>1, <2>2 DEF FolderStep, FolderCredentials, FolderLane, FolderFetch, FolderPublish
  \* One of its lists is followed by nothing, or by a failure.
  <1> DEFINE Lists(e) == ~Vouches(e) /\ (FolderResult(e) => e.op = folder.id /\ e.acct = folder.acct)
  <1>5. ASSUME NEW t \in {"FolderCacheLoaded", "FolderLoaded"} PROVE Lists(Evt(t, folder.id, folder.acct))
    BY DEF Evt, Announces, Vouches, FolderResult
  <1>6. ASSUME NEW f PROVE Lists(Failure("FolderFailed", folder.id, f, TRUE))
    BY DEF Failure, Announces, Vouches, FolderResult
  <1>7. \A i \in DOMAIN evts' : (i \in DOMAIN evts /\ evts'[i] = evts[i]) \/ Lists(evts'[i])
    <2>1. ASSUME NEW e, Lists(e), evts' = Append(evts, e)
          PROVE  \A i \in DOMAIN evts' : (i \in DOMAIN evts /\ evts'[i] = evts[i]) \/ Lists(evts'[i])
      BY <1>1, <2>1, Appended
    <2>2. ASSUME NEW d \in Event, Lists(d), NEW e, Lists(e), evts' = Append(Append(evts, d), e)
          PROVE  \A i \in DOMAIN evts' : (i \in DOMAIN evts /\ evts'[i] = evts[i]) \/ Lists(evts'[i])
      <3>1. Append(evts, d) \in Seq(Event)
        BY <1>1, AppendType
      <3> DEFINE s == Append(evts, d)
      <3>2. \A i \in DOMAIN s : (i \in DOMAIN evts /\ s[i] = evts[i]) \/ Lists(s[i])
        BY <1>1, <2>2, Appended
      <3>3. s \in Seq(Event) /\ evts' = Append(s, e)
        BY <2>2, <3>1
      <3> HIDE DEF s
      <3> QED  BY <2>2, <3>2, <3>3, Appended
    <2>3. CASE FolderCredentials
      <3>1. CASE evts' = evts
        BY <3>1
      <3>2. CASE evts' = Append(evts, Evt("FolderCacheLoaded", folder.id, folder.acct))
        BY <1>5, <2>1, <3>2
      <3>3. CASE evts' = Append(evts, Failure("FolderFailed", folder.id, "auth", TRUE))
        BY <1>6, <2>1, <3>3
      <3>4. CASE evts' = Append(Append(evts, Evt("FolderCacheLoaded", folder.id, folder.acct)),
                                Failure("FolderFailed", folder.id, "auth", TRUE))
        <4>1. Evt("FolderCacheLoaded", folder.id, folder.acct) \in Event
          BY <1>1, EvtType DEF Folder, EventTypes
        <4> QED  BY <1>5, <1>6, <2>2, <3>4, <4>1
      <3> QED  BY <2>3, <3>1, <3>2, <3>3, <3>4 DEF FolderCredentials
    <2>4. CASE FolderLane
      BY <2>4 DEF FolderLane
    <2>5. CASE FolderFetch
      BY <1>6, <2>1, <2>5 DEF FolderFetch, Emit
    <2>6. CASE FolderPublish
      BY <1>5, <2>1, <2>6 DEF FolderPublish, Emit
    <2> QED  BY <2>3, <2>4, <2>5, <2>6 DEF FolderStep
  <1>8. \A i \in DOMAIN evts : i \in DOMAIN evts' /\ evts'[i] = evts[i]
    <2>1. ASSUME NEW e, evts' = Append(evts, e)
          PROVE  \A i \in DOMAIN evts : i \in DOMAIN evts' /\ evts'[i] = evts[i]
      BY <1>1, <2>1, Appended
    <2>2. ASSUME NEW d \in Event, NEW e, evts' = Append(Append(evts, d), e)
          PROVE  \A i \in DOMAIN evts : i \in DOMAIN evts' /\ evts'[i] = evts[i]
      <3>1. Append(evts, d) \in Seq(Event)
        BY <1>1, AppendType
      <3> QED  BY <1>1, <2>2, <3>1, Appended
    <2>3. CASE FolderCredentials
      <3>1. Evt("FolderCacheLoaded", folder.id, folder.acct) \in Event
        BY <1>1, EvtType DEF Folder, EventTypes
      <3> QED  BY <2>1, <2>2, <2>3, <3>1 DEF FolderCredentials
    <2> QED  BY <2>1, <2>3 DEF FolderStep, FolderLane, FolderFetch, FolderPublish, Emit
  <1>9. \A i \in DOMAIN evts' : Vouches(evts'[i]) => i \in DOMAIN evts /\ evts'[i] = evts[i]
    BY <1>7
  <1>10. \A i \in DOMAIN evts' : FolderResult(evts'[i]) => Asked(evts'[i].op, evts'[i].acct)
    BY <1>3, <1>7 DEF FoldersAsked
  <1> HIDE DEF Lists
  <1>11. FoldersAsked'
    BY <1>1, <1>2, <1>4, <1>10, FoldersKept
  <1>12. InTurn'
    <2>1. ASSUME NEW n \in Nat, Unheard(n) PROVE Unheard(n)'
      BY <1>1, <1>9, <2>1 DEF Unheard
    <2>2. task'.pc # "none" => task'.op > 0
      BY <1>1 DEF InTurn
    <2>3. \A i \in DOMAIN evts' : Vouches(evts'[i]) => evts'[i].op > 0
      BY <1>9 DEF InTurn
    <2> QED  BY <1>1, <1>2, <2>1, <2>2, <2>3, TurnKept
  <1>13. OneIdentity'
    BY <1>1, <1>9 DEF OneIdentity, Vouches
  <1>14. IdentityFirst'
    <2>1. ASSUME NEW i \in DOMAIN evts', evts'[i].type = "CacheLoaded", evts'[i].op = activeOp',
                 uiAccount' # evts'[i].acct
          PROVE  \E j \in DOMAIN evts' : j < i /\ Introduces(evts[j])'
      <3>1. i \in DOMAIN evts /\ evts'[i] = evts[i]
        BY <1>9, <2>1 DEF Announces, Vouches
      <3>2. PICK j \in DOMAIN evts : j < i /\ Introduces(evts[j])
        BY <1>2, <2>1, <3>1 DEF IdentityFirst
      <3> QED  BY <1>2, <1>8, <3>2 DEF Introduces
    <2>2. ASSUME task'.pc = "authorize", task'.op = activeOp', uiAccount' # task'.acct
          PROVE  \E j \in DOMAIN evts' : Introduces(evts[j])'
      <3>1. PICK j \in DOMAIN evts : Introduces(evts[j])
        BY <1>1, <1>2, <2>2 DEF IdentityFirst
      <3> QED  BY <1>2, <1>8, <3>1 DEF Introduces
    <2> QED  BY <2>1, <2>2 DEF IdentityFirst
  <1> QED  BY <1>11, <1>12, <1>13, <1>14

LEMMA RunClosureShown ==
  ASSUME ShownInv, TypeOK', RunClosure
  PROVE  InTurn' /\ OneIdentity' /\ IdentityFirst' /\ FoldersAsked'
  <1> USE DEF ShownInv, PollSessionInv
  <1>1. PICK c \in closures : RunPrepare(c) \/ RunSync(c) \/ RunClear(c) \/ EnterGated(c) \/ WriteGated(c)
    BY DEF RunClosure
  <1>2. UNCHANGED <<uiVars, cmds, held, evts>> /\ task \in Task /\ folder \in Folder
    BY <1>1, Typed DEF RunPrepare, RunSync, RunClear, EnterGated, WriteGated, NotClosure, NotWorker
  <1>3. ASSUME NEW pc \in {"verified", "prepareErr", "synced", "commitErr", "token", "clearErr"}, WakeTask(c, pc),
               c.kind \in TaskClosures
        PROVE  task' = task \/ Advances
    <2>1. CASE c.live
      <3>1. task.pc \in {"prepare", "commit", "clear"}
        BY <1>3, <2>1 DEF TaskHoldsLane, Awaited, WaitsAt
      <3> QED  BY <1>2, <1>3, <2>1, <3>1 DEF WakeTask, Advances, Unnamed, Task
    <2> QED  BY <1>3, <2>1 DEF WakeTask
  <1>4. ASSUME NEW pc \in {"saved", "savedErr", "stale"}, WakeOwner(c, pc)
        PROVE  folder'.pc # "none" => Asked(folder'.id, folder'.acct)
    <2>1. CASE FolderCloses(c)
      <3>1. folder.pc = "commit" /\ folder'.id = folder.id /\ folder'.acct = folder.acct
        BY <1>2, <1>4, <2>1 DEF FolderWaits, WakeOwner, FolderCloses, Folder
      <3> QED  BY <3>1 DEF FoldersAsked
    <2>2. CASE ~FolderCloses(c)
      BY <1>4, <2>2 DEF FolderCloses, WakeOwner, FoldersAsked
    <2> QED  BY <2>1, <2>2
  <1>5. task' = task \/ Advances
    BY <1>1, <1>3 DEF RunPrepare, RunSync, RunClear, EnterGated, WriteGated, NotClosure, Runnable, TaskClosures
  <1>6. folder'.pc # "none" => Asked(folder'.id, folder'.acct)
    <2>1. CASE UNCHANGED folder
      BY <2>1 DEF FoldersAsked
    <2>2. UNCHANGED folder \/ \E pc \in {"saved", "savedErr", "stale"} : WakeOwner(c, pc)
      BY <1>1 DEF RunPrepare, RunSync, RunClear, EnterGated, WriteGated
    <2> QED  BY <1>4, <2>1, <2>2
  <1> QED  BY <1>2, <1>5, <1>6, Stuttering, QuietWorker

LEMMA StepFolderWaits == ASSUME ShownInv, [Next]_vars PROVE FolderWaits'
  <1> USE DEF ShownInv, PollSessionInv, FolderWaits
  <1>1. closures \subseteq Closure /\ folder \in Folder
    BY Typed
  <1>2. CASE UNCHANGED <<closures, folder>>
    BY <1>2 DEF FolderCloses
  \* A closure of another kind is started, or one ends that the folder task does not wait for.
  <1>3. ASSUME UNCHANGED folder, NEW c, ~FolderCloses(c), closures' \subseteq closures \cup {c} PROVE FolderWaits'
    BY <1>3 DEF FolderCloses
  <1>4. ASSUME UNCHANGED folder, closures' \subseteq closures PROVE FolderWaits'
    BY <1>4 DEF FolderCloses
  <1>5. ASSUME NEW kinds, Detach(kinds), folder' = folder \/ "folder" \in kinds PROVE FolderWaits'
    <2>1. \A c \in closures' : FolderCloses(c) => c \in closures /\ "folder" \notin kinds
      BY <1>1, <1>5, DetachFacts DEF FolderCloses
    <2> QED  BY <1>5, <2>1 DEF FolderCloses
  <1>6. CASE UiStep \/ UiEvent \/ UNCHANGED vars
    <2>1. UNCHANGED <<closures, folder>>
      BY <1>6 DEF UiStep, UiEvent, ClickConnect, ClickDisconnect, ClickRetry, ClickCancel, SelectFolder, Start,
           Disconnect, LoadFolder, BrowserLaunchFailed, BackgroundTimer, CloseWindow, DropStaleEvent, OnPhase,
           OnAuthorizationRequired, OnIdentityVerified, OnCacheLoaded, OnSignedOut, OnSyncComplete,
           OnDisconnected, OnFailed, OnPollComplete, OnPollFailed, OnFolderCacheLoaded, OnFolderLoaded,
           OnFolderFailed, NotUi, vars, workerVars
    <2> QED  BY <1>2, <2>1
  <1>7. CASE CtlStep
    <2>1. CASE CtlCancel \/ CtlBoundary \/ CtlDisconnect \/ CtlStartSync \/ CtlShutdown \/ CtlFetchFolder
      <3>1. \/ UNCHANGED folder /\ (Detach(TaskClosures) \/ Detach({"poll"}))
            \/ Detach(TaskClosures \cup {"folder"}) \/ Detach(TaskClosures \cup {"poll", "folder"}) \/ Detach({"folder"})
        BY <2>1 DEF CtlCancel, CtlBoundary, CtlDisconnect, CtlStartSync, CtlShutdown, CtlFetchFolder
      <3> QED  BY <1>5, <3>1
    <2>2. CASE CtlBackgroundSync \/ CtlReap
      BY <1>2, <2>2 DEF CtlBackgroundSync, CtlReap
    <2> QED  BY <1>7, <2>1, <2>2 DEF CtlStep
  <1>8. CASE TaskStep
    <2>1. UNCHANGED folder
      BY <1>8 DEF TaskStep, TaskAcquireLane, ConnectListen, ConnectCallback, ConnectExchange,
             RestoreLoad, RestoreRefresh, RestoreIdentity, TaskVerified, TaskAuthorize, TaskMark, TaskSave,
             TaskFetch, TaskSynced, TaskCacheError, DisconnectBegin, DisconnectDrafts, DisconnectToken, NotTask
    <2>2. ASSUME NEW kind \in {"prepare", "sync", "clear"}, NEW a,
                 closures' = closures \cup {[kind |-> kind, acct |-> a, id |-> task.op, epoch |-> 0,
                                             live |-> TRUE, inside |-> FALSE]}
          PROVE  FolderWaits'
      <3>1. PICK c : /\ closures' = closures \cup {c}
                     /\ c = [kind |-> kind, acct |-> a, id |-> task.op, epoch |-> 0, live |-> TRUE, inside |-> FALSE]
        BY <2>2
      <3> QED  BY <1>3, <2>1, <3>1 DEF FolderCloses
    <2>3. CASE UNCHANGED closures
      BY <1>2, <2>1, <2>3
    <2>4. CASE ConnectExchange
      BY <2>2, <2>3, <2>4 DEF ConnectExchange
    <2>5. CASE RestoreIdentity \/ TaskFetch \/ DisconnectDrafts
      BY <2>2, <2>3, <2>5 DEF RestoreIdentity, TaskFetch, DisconnectDrafts, Spawn
    <2>6. CASE ~(ConnectExchange \/ RestoreIdentity \/ TaskFetch \/ DisconnectDrafts)
      BY <1>8, <2>3, <2>6 DEF TaskStep, TaskAcquireLane, ConnectListen, ConnectCallback, RestoreLoad, RestoreRefresh,
           TaskVerified, TaskAuthorize, TaskMark, TaskSave, TaskSynced, TaskCacheError, DisconnectBegin, DisconnectToken
    <2> QED  BY <2>4, <2>5, <2>6
  <1>9. CASE PollStep
    <2>1. UNCHANGED folder
      BY <1>9 DEF PollStep, PollAuth, PollRefresh, PollPermit, PollReplace, PollFetch, PollLane, PollPublish, NotPoll
    <2>2. CASE UNCHANGED closures
      BY <1>2, <2>1, <2>2
    <2>3. CASE closures' = closures \cup {[kind |-> "poll", acct |-> poll.acct, id |-> poll.id,
                                           epoch |-> poll.epoch, live |-> TRUE, inside |-> FALSE]}
      <3>1. PICK c : closures' = closures \cup {c} /\ c = [kind |-> "poll", acct |-> poll.acct, id |-> poll.id,
                                           epoch |-> poll.epoch, live |-> TRUE, inside |-> FALSE]
        BY <2>3
      <3> QED  BY <1>3, <2>1, <3>1 DEF FolderCloses
    <2> QED  BY <1>9, <2>2, <2>3
             DEF PollStep, PollAuth, PollRefresh, PollPermit, PollReplace, PollFetch, PollLane, PollPublish
  \* The folder task waits from its fetch on, and does nothing else meanwhile.
  <1>10. CASE FolderStep
    <2>1. folder.pc # "commit"
      BY <1>10 DEF FolderStep, FolderCredentials, FolderLane, FolderFetch, FolderPublish, FolderAt
    <2>2. \A c \in closures : ~FolderCloses(c)
      BY <2>1
    <2>3. CASE UNCHANGED closures
      BY <2>2, <2>3 DEF FolderCloses
    <2>4. CASE /\ folder' = [folder EXCEPT !.pc = "commit"]
               /\ closures' = closures \cup {[kind |-> "folder", acct |-> folder.acct, id |-> folder.id,
                                              epoch |-> 0, live |-> TRUE, inside |-> FALSE]}
      <3>1. folder'.pc = "commit"
        BY <1>1, <2>4 DEF Folder
      <3> QED  BY <2>2, <2>4, <3>1 DEF FolderCloses
    <2> QED  BY <1>10, <2>3, <2>4 DEF FolderStep, FolderCredentials, FolderLane, FolderFetch, FolderPublish
  <1>11. CASE RunClosure
    <2>1. PICK c \in closures : RunPrepare(c) \/ RunSync(c) \/ RunClear(c) \/ EnterGated(c) \/ WriteGated(c)
      BY <1>11 DEF RunClosure
    <2>2. ASSUME Leave(c), NEW pc, WakeOwner(c, pc) PROVE FolderWaits'
      <3>1. CASE FolderCloses(c)
        BY <2>1, <2>2, <3>1 DEF Leave, FolderCloses
      <3>2. CASE ~FolderCloses(c)
        BY <1>4, <2>2, <3>2 DEF Leave, WakeOwner, FolderCloses
      <3> QED  BY <3>1, <3>2
    <2>3. CASE RunPrepare(c) \/ RunSync(c) \/ RunClear(c)
      BY <1>4, <2>3 DEF RunPrepare, RunSync, RunClear, Leave
    <2>4. CASE EnterGated(c) /\ closures' = (closures \ {c}) \cup {[c EXCEPT !.inside = TRUE]} /\ UNCHANGED folder
      <3>1. PICK d : d = [c EXCEPT !.inside = TRUE]
        OBVIOUS
      <3>2. d.kind = c.kind /\ d.live = c.live
        BY <1>1, <2>1, <3>1 DEF Closure
      <3>3. \A x \in closures' : FolderCloses(x) => (x \in closures /\ x # c) \/ (x = d /\ FolderCloses(c))
        BY <2>4, <3>1, <3>2 DEF FolderCloses
      <3> HIDE DEF FolderCloses
      <3> QED  BY <2>1, <2>4, <3>3
    <2> QED  BY <2>1, <2>2, <2>3, <2>4 DEF EnterGated, WriteGated
  <1>12. CASE DropClosure
    BY <1>4, <1>12 DEF DropClosure, Leave, NotClosure
  <1>13. CASE Restart
    BY <1>13 DEF Restart
  <1> QED  BY <1>6, <1>7, <1>8, <1>9, <1>10, <1>11, <1>12, <1>13 DEF Next

-----------------------------------------------------------------------------
(* The reducer *)

\* What the person does: a fresh operation may be sent, or a fresh folder request.
LEMMA UiStepShown ==
  ASSUME ShownInv, TypeOK', UiStep
  PROVE  InTurn' /\ OneIdentity' /\ IdentityFirst' /\ FoldersAsked' /\ ShownMailIsAccountMail'
  <1> USE DEF ShownInv, PollSessionInv
  <1>1. UNCHANGED <<evts, workerVars, uiAccount>>
    BY DEF UiStep, ClickConnect, ClickDisconnect, ClickRetry, ClickCancel, SelectFolder, Start, Disconnect,
           LoadFolder, BrowserLaunchFailed, BackgroundTimer, CloseWindow, uiVars
  <1>2. UNCHANGED <<held, task, folder>>
    BY <1>1 DEF workerVars
  <1>3. /\ evts \in Seq(Event) /\ cmds \in Seq(Command) /\ task.op \in Nat /\ nextOp \in Nat
        /\ activeOp \in Nat /\ nextFolder \in Nat /\ held.op \in Nat
    BY Typed
  <1>4. ShownMailIsAccountMail'
    BY <1>1 DEF UiStep, ClickConnect, ClickDisconnect, ClickRetry, ClickCancel, SelectFolder, Start, Disconnect,
           LoadFolder, BrowserLaunchFailed, BackgroundTimer, CloseWindow, uiVars, ShownMailIsAccountMail
  \* What is sent besides folder requests.
  <1>6. /\ UNCHANGED cmds
           \/ \E c : /\ cmds' = Append(cmds, c) /\ c.op \in Nat
                     /\ Boundary(c) => c.op = nextOp /\ nextOp' = nextOp + 1
                     /\ c.type = "Folder" => SelectFolder /\ c.op = nextFolder /\ c.acct = uiAccount
        /\ nextOp' \in {nextOp, nextOp + 1}
        /\ activeOp' \in {activeOp, nextOp, 0}
    <2>1. ASSUME NEW t \in {"Connect", "Restore", "Disconnect", "Cancel"}, NEW a, Send(Cmd(t, nextOp, a)),
                 nextOp' = nextOp + 1
          PROVE  \E c : /\ cmds' = Append(cmds, c) /\ c.op \in Nat
                        /\ Boundary(c) => c.op = nextOp /\ nextOp' = nextOp + 1
                        /\ c.type = "Folder" => SelectFolder /\ c.op = nextFolder /\ c.acct = uiAccount
      <3>1. Cmd(t, nextOp, a).op = nextOp /\ Cmd(t, nextOp, a).type # "Folder"
        BY DEF Cmd
      <3> QED  BY <1>3, <2>1, <3>1 DEF Send
    <2>2. ASSUME NEW t \in {"Poll", "Shutdown"}, NEW n \in Nat, NEW a, Send(Cmd(t, n, a))
          PROVE  \E c : /\ cmds' = Append(cmds, c) /\ c.op \in Nat
                        /\ Boundary(c) => c.op = nextOp /\ nextOp' = nextOp + 1
                        /\ c.type = "Folder" => SelectFolder /\ c.op = nextFolder /\ c.acct = uiAccount
      <3>1. Cmd(t, n, a).op = n /\ Cmd(t, n, a).type = t /\ ~Boundary(Cmd(t, n, a))
        BY DEF Cmd, Boundary, BoundaryKinds, SyncKinds
      <3> QED  BY <2>2, <3>1 DEF Send
    <2>3. CASE ClickConnect
      BY <2>1, <2>3 DEF ClickConnect, Start, Allocate
    <2>4. CASE ClickDisconnect
      BY <2>1, <2>4 DEF ClickDisconnect, Disconnect, Allocate
    <2>5. CASE ClickRetry
      BY <2>1, <2>5 DEF ClickRetry, Start, Disconnect, Allocate, SyncKinds
    <2>6. CASE ClickCancel
      BY <2>1, <2>6 DEF ClickCancel, Allocate
    <2>7. CASE SelectFolder
      <3>1. /\ Cmd("Folder", nextFolder, uiAccount).op = nextFolder
            /\ Cmd("Folder", nextFolder, uiAccount).acct = uiAccount
            /\ ~Boundary(Cmd("Folder", nextFolder, uiAccount))
        BY DEF Cmd, Boundary, BoundaryKinds, SyncKinds
      <3> QED  BY <1>3, <2>7, <3>1 DEF SelectFolder, LoadFolder, Send
    <2>8. CASE BrowserLaunchFailed
      BY <2>1, <2>8 DEF BrowserLaunchFailed
    <2>9. CASE BackgroundTimer
      <3>1. nextPoll \in Nat
        BY DEF TypeOK, UiTypeOK
      <3> QED  BY <2>2, <2>9, <3>1 DEF BackgroundTimer
    <2>10. CASE CloseWindow
      BY <2>2, <2>10 DEF CloseWindow, uiVars
    <2> QED  BY <2>3, <2>4, <2>5, <2>6, <2>7, <2>8, <2>9, <2>10 DEF UiStep
  <1>7. InTurn'
    <2>1. ASSUME NEW n \in Nat, Unheard(n) PROVE Unheard(n)'
      BY <1>1, <1>2, <2>1 DEF Unheard
    <2>2. Unheard(nextOp)' /\ Unheard(nextOp)
      BY <1>1, <1>2, <1>3, <1>6, Typed DEF InTurn, Unheard
    <2>3. held # NoCmd => Unheard(held.op)' /\ held.op < nextOp'
      BY <1>1, <1>2, <1>3, <1>6 DEF InTurn, Unheard
    <2>4. \A i \in DOMAIN cmds :
             Boundary(cmds[i]) => Unheard(cmds[i].op)' /\ held.op < cmds[i].op /\ cmds[i].op < nextOp'
      <3> SUFFICES ASSUME NEW i \in DOMAIN cmds, Boundary(cmds[i])
                   PROVE  Unheard(cmds[i].op)' /\ held.op < cmds[i].op /\ cmds[i].op < nextOp'
        OBVIOUS
      <3>1. PICK n \in Nat : n = cmds[i].op
        BY Typed
      <3>2. Unheard(n) /\ held.op < n /\ n < nextOp
        BY <3>1 DEF InTurn
      <3>3. task'.op < n /\ \A j \in DOMAIN evts' : Vouches(evts'[j]) => evts'[j].op < n
        BY <2>1, <3>2 DEF Unheard
      <3>4. CASE UNCHANGED cmds
        BY <1>3, <1>6, <3>1, <3>2, <3>3, <3>4 DEF Unheard
      <3>5. ASSUME NEW c, cmds' = Append(cmds, c) PROVE cmds'[i] = cmds[i]
        BY <1>3, <3>5, Appended
      <3> QED  BY <1>3, <1>6, <3>1, <3>2, <3>3, <3>4, <3>5 DEF Unheard
    <2>5. CASE UNCHANGED cmds
      BY <1>1, <1>2, <1>3, <2>2, <2>3, <2>4, <2>5 DEF InTurn
    <2>6. ASSUME NEW c, cmds' = Append(cmds, c), c.op \in Nat,
                 Boundary(c) => c.op = nextOp /\ nextOp' = nextOp + 1
          PROVE  InTurn'
      <3>1. /\ DOMAIN cmds' = DOMAIN cmds \cup {Len(cmds) + 1} /\ Len(cmds) + 1 \notin DOMAIN cmds
            /\ cmds'[Len(cmds) + 1] = c
            /\ \A i \in DOMAIN cmds : cmds'[i] = cmds[i] /\ i < Len(cmds) + 1 /\ i \in Nat
        BY <1>3, <2>6, Appended
      <3>2. PICK k \in Nat : k = Len(cmds) + 1
        BY <1>3
      <3>3. held.op < nextOp
        <4>1. CASE held = NoCmd
          BY <1>3, <4>1 DEF NoCmd, Cmd, InTurn, Unheard
        <4>2. CASE held # NoCmd
          BY <4>2 DEF InTurn
        <4> QED  BY <4>1, <4>2
      <3>4. ASSUME NEW i \in DOMAIN cmds', Boundary(cmds'[i])
            PROVE  Unheard(cmds[i].op)' /\ held'.op < cmds'[i].op /\ cmds'[i].op < nextOp'
        <4>1. CASE i \in DOMAIN cmds
          BY <1>2, <2>4, <3>1, <3>4, <4>1
        <4>2. CASE i = k
          <5>1. cmds'[i].op = nextOp /\ nextOp' = nextOp + 1
            BY <2>6, <3>1, <3>2, <3>4, <4>2
          <5> QED  BY <1>1, <1>2, <1>3, <2>2, <3>3, <5>1 DEF Unheard
        <4> QED  BY <3>1, <3>2, <4>1, <4>2
      <3>5. ASSUME NEW i \in DOMAIN cmds', NEW j \in DOMAIN cmds', i < j, Boundary(cmds'[i]), Boundary(cmds'[j])
            PROVE  cmds'[i].op < cmds'[j].op
        <4>1. i \in DOMAIN cmds
          BY <3>1, <3>2, <3>5
        <4>2. CASE j \in DOMAIN cmds
          BY <3>1, <3>5, <4>1, <4>2 DEF InTurn
        <4>3. CASE j = k
          BY <2>6, <3>1, <3>2, <3>5, <4>1, <4>3 DEF InTurn
        <4> QED  BY <3>1, <3>2, <4>2, <4>3
      <3>6. /\ held' # NoCmd => Unheard(held.op)' /\ held'.op < nextOp'
            /\ task'.pc # "none" => task'.op > 0
            /\ \A i \in DOMAIN evts' : Vouches(evts'[i]) => evts'[i].op > 0
        BY <1>1, <1>2, <2>3 DEF InTurn
      <3> QED  BY <2>2, <3>4, <3>5, <3>6 DEF InTurn
    <2> QED  BY <1>6, <2>5, <2>6
  <1>8. OneIdentity'
    BY <1>1, <1>2 DEF OneIdentity
  \* Neither a fresh operation nor none has been heard of.
  <1>9. IdentityFirst'
    <2>1. CASE activeOp' = activeOp
      BY <1>1, <1>2, <2>1 DEF IdentityFirst, Introduces
    <2>2. CASE activeOp' \in {0, nextOp}
      <3>1. \A i \in DOMAIN evts' : Announces(evts'[i]) => evts'[i].op # activeOp'
        BY <1>1, <1>3, <2>2, Typed DEF InTurn, Unheard, Vouches
      <3>2. task'.pc # "none" => task'.op # activeOp'
        BY <1>2, <1>3, <2>2 DEF InTurn, Unheard
      <3> QED  BY <3>1, <3>2 DEF IdentityFirst, Announces
    <2> QED  BY <1>6, <2>1, <2>2
  <1>10. FoldersAsked'
    <2>1. nextFolder' > 0 /\ nextFolder' <= MaxFolders + 1
      BY <1>3, BoundAssumption DEF FoldersAsked, UiStep, ClickConnect, ClickDisconnect, ClickRetry, ClickCancel,
         SelectFolder, Start, Disconnect, LoadFolder, BrowserLaunchFailed, BackgroundTimer, CloseWindow, uiVars
    <2>2. ASSUME NEW n \in Nat, NEW a, Asked(n, a) PROVE Asked(n, a)'
      <3>1. CASE SelectFolder
        BY <1>1, <1>3, <2>2, <3>1 DEF Asked, SelectFolder, LoadFolder
      <3>2. CASE ~SelectFolder
        <4>1. UNCHANGED nextFolder /\ uiFolder' \in {uiFolder, 0}
          BY <3>2 DEF UiStep, ClickConnect, ClickDisconnect, ClickRetry, ClickCancel, Start, Disconnect,
             BrowserLaunchFailed, BackgroundTimer, CloseWindow, uiVars
        <4> QED  BY <1>1, <2>2, <4>1 DEF Asked
      <3> QED  BY <3>1, <3>2
    <2>3. ASSUME NEW i \in DOMAIN cmds, cmds[i].type = "Folder" PROVE Asked(cmds[i].op, cmds[i].acct)'
      <3>1. PICK n, a : n \in Nat /\ n = cmds[i].op /\ a = cmds[i].acct
        BY Typed
      <3>2. cmds'[i] = cmds[i]
        <4>1. ASSUME NEW c, cmds' = Append(cmds, c) PROVE cmds'[i] = cmds[i]
          BY <1>3, <4>1, Appended
        <4> QED  BY <1>6, <4>1
      <3>3. Asked(n, a)'
        BY <2>2, <2>3, <3>1 DEF FoldersAsked
      <3> QED  BY <3>1, <3>2, <3>3
    <2>4. ASSUME NEW c, cmds' = Append(cmds, c), NEW i \in DOMAIN cmds', cmds'[i].type = "Folder",
                 c.type = "Folder" => SelectFolder /\ c.op = nextFolder /\ c.acct = uiAccount
          PROVE  Asked(cmds[i].op, cmds[i].acct)'
      <3>1. CASE i \in DOMAIN cmds
        <4>1. cmds'[i] = cmds[i]
          BY <1>3, <2>4, <3>1, Appended
        <4> QED  BY <2>3, <2>4, <3>1, <4>1
      <3>2. CASE i \notin DOMAIN cmds
        <4>1. cmds'[i] = c
          BY <1>3, <2>4, <3>2, Appended
        <4>2. SelectFolder /\ cmds'[i].op = nextFolder /\ cmds'[i].acct = uiAccount
          BY <2>4, <4>1
        <4>3. nextFolder > 0 /\ nextFolder < nextFolder'
          BY <1>3, <4>2 DEF FoldersAsked, SelectFolder, LoadFolder
        <4> QED  BY <1>1, <4>2, <4>3 DEF Asked
      <3> QED  BY <3>1, <3>2
    <2>5. \A i \in DOMAIN cmds' : cmds'[i].type = "Folder" => Asked(cmds[i].op, cmds[i].acct)'
      <3>1. CASE UNCHANGED cmds
        BY <2>3, <3>1
      <3> QED  BY <1>6, <2>4, <3>1
    <2>6. folder'.pc # "none" => Asked(folder.id, folder.acct)'
      <3>1. PICK n, a : n \in Nat /\ n = folder.id /\ a = folder.acct
        BY Typed
      <3>2. folder.pc # "none" => Asked(n, a)'
        BY <2>2, <3>1 DEF FoldersAsked
      <3> QED  BY <1>2, <3>1, <3>2
    <2>7. ASSUME NEW i \in DOMAIN evts', FolderResult(evts'[i]) PROVE Asked(evts[i].op, evts[i].acct)'
      <3>1. PICK n, a : n \in Nat /\ n = evts[i].op /\ a = evts[i].acct
        BY <1>1, Typed
      <3>2. Asked(n, a)'
        BY <1>1, <2>2, <2>7, <3>1 DEF FoldersAsked
      <3> QED  BY <1>1, <3>1, <3>2
    <2> QED  BY <2>1, <2>5, <2>6, <2>7 DEF FoldersAsked
  <1> QED  BY <1>4, <1>7, <1>8, <1>9, <1>10

\* What the worker reports: only an announcement of the awaited operation names
\* another account, and it closes the folder requests of the one before.
LEMMA UiEventShown ==
  ASSUME ShownInv, TypeOK', UiEvent
  PROVE  InTurn' /\ OneIdentity' /\ IdentityFirst' /\ FoldersAsked' /\ ShownMailIsAccountMail'
  <1> USE DEF ShownInv, PollSessionInv
  <1> DEFINE h == Head(evts)
  <1>1. /\ UNCHANGED <<cmds, workerVars, nextOp, nextFolder>> /\ evts # <<>> /\ evts' = Tail(evts)
        /\ activeOp' \in {activeOp, 0}
    BY DEF UiEvent, DropStaleEvent, OnPhase, OnAuthorizationRequired, OnIdentityVerified, OnCacheLoaded, OnSignedOut,
           OnSyncComplete, OnDisconnected, OnFailed, OnPollComplete, OnPollFailed, OnFolderCacheLoaded,
           OnFolderLoaded, OnFolderFailed, ReceiveOwn, Receive, NotUi, uiVars
  <1>2. UNCHANGED <<held, task, folder>>
    BY <1>1 DEF workerVars
  <1>3. /\ evts \in Seq(Event) /\ cmds \in Seq(Command) /\ task.op \in Nat /\ nextOp \in Nat
        /\ activeOp \in Nat /\ nextFolder \in Nat /\ held.op \in Nat
    BY Typed
  <1>4. /\ 1 \in DOMAIN evts /\ evts[1] = h
        /\ \A i \in DOMAIN evts' : i \in Nat /\ i > 0 /\ i + 1 \in DOMAIN evts /\ evts'[i] = evts[i + 1]
        /\ \A i \in DOMAIN evts : i \in Nat /\ (i = 1 \/ (i > 1 /\ i - 1 \in DOMAIN evts' /\ evts'[i - 1] = evts[i]))
    BY <1>1, <1>3, Shortened
  <1> HIDE DEF h
  \* A cached mailbox and a folder's list come from the account that is shown.
  <1>5. h.type = "CacheLoaded" /\ h.op = activeOp => uiAccount = h.acct
    <2>1. ~ \E j \in DOMAIN evts : j < 1
      BY <1>4
    <2> QED  BY <1>4, <2>1 DEF IdentityFirst
  <1>6. FolderResult(h) /\ h.op = uiFolder => h.acct = uiAccount
    BY <1>4 DEF FoldersAsked, Asked
  <1>7. \/ UNCHANGED uiAccount /\ ~Introduces(h)
        \/ Announces(h) /\ h.op = activeOp /\ uiAccount' = h.acct
        \/ activeOp' = 0
    BY DEF UiEvent, DropStaleEvent, OnPhase, OnAuthorizationRequired, OnIdentityVerified, OnCacheLoaded, OnSignedOut,
           OnSyncComplete, OnDisconnected, OnFailed, OnPollComplete, OnPollFailed, OnFolderCacheLoaded,
           OnFolderLoaded, OnFolderFailed, ReceiveOwn, Receive, uiVars, Announces, Introduces, h
  <1>8. (UNCHANGED <<uiFolder, uiAccount>>) \/ uiFolder' \in {0, Orphaned}
    <2>1. CASE OnCacheLoaded
      <3>1. uiAccount' = uiAccount /\ uiFolder' \in {uiFolder, 0, Orphaned}
        BY <1>5, <2>1 DEF OnCacheLoaded, ReceiveOwn, Receive, h
      <3> QED  BY <3>1
    <2> QED
      BY <2>1 DEF UiEvent, DropStaleEvent, OnPhase, OnAuthorizationRequired, OnIdentityVerified, OnSignedOut,
           OnSyncComplete, OnDisconnected, OnFailed, OnPollComplete, OnPollFailed, OnFolderCacheLoaded,
           OnFolderLoaded, OnFolderFailed, uiVars
  <1>9. ShownMailIsAccountMail'
    <2>1. CASE OnFolderCacheLoaded \/ OnFolderLoaded
      <3>1. FolderResult(h) /\ h.op = uiFolder /\ shown' = h.acct /\ UNCHANGED uiAccount
        BY <2>1 DEF OnFolderCacheLoaded, OnFolderLoaded, Receive, FolderResult, h
      <3> QED  BY <1>6, <3>1 DEF ShownMailIsAccountMail
    <2> QED
      BY <2>1 DEF UiEvent, DropStaleEvent, OnPhase, OnAuthorizationRequired, OnIdentityVerified, OnCacheLoaded,
           OnSignedOut, OnSyncComplete, OnDisconnected, OnFailed, OnPollComplete, OnPollFailed, OnFolderFailed,
           uiVars, ShownMailIsAccountMail
  <1>10. InTurn'
    <2>1. ASSUME NEW n \in Nat, Unheard(n) PROVE Unheard(n)'
      BY <1>2, <1>4, <2>1 DEF Unheard
    <2>2. \A i \in DOMAIN evts' : Vouches(evts'[i]) => evts'[i].op > 0
      BY <1>4 DEF InTurn
    <2>3. task'.pc # "none" => task'.op > 0
      BY <1>2 DEF InTurn
    <2> QED  BY <1>1, <1>2, <2>1, <2>2, <2>3, TurnKept
  <1>11. OneIdentity'
    BY <1>2, <1>4 DEF OneIdentity
  <1>12. IdentityFirst'
    <2>1. CASE activeOp' = 0
      <3>1. \A i \in DOMAIN evts' : Vouches(evts'[i]) => evts'[i].op > 0
        BY <1>4 DEF InTurn
      <3>2. task'.pc # "none" => task'.op > 0
        BY <1>2 DEF InTurn
      <3>3. ASSUME NEW i \in DOMAIN evts', evts'[i].type = "CacheLoaded", evts'[i].op = activeOp' PROVE FALSE
        BY <2>1, <3>1, <3>3 DEF Announces, Vouches
      <3>4. ~(task'.pc = "authorize" /\ task'.op = activeOp')
        BY <2>1, <3>2
      <3> QED  BY <3>3, <3>4 DEF IdentityFirst
    <2>2. CASE UNCHANGED <<uiAccount, activeOp>> /\ ~Introduces(h)
      <3>1. ASSUME NEW j \in DOMAIN evts, Introduces(evts[j])
            PROVE  j \in Nat /\ j > 1 /\ j - 1 \in DOMAIN evts' /\ Introduces(evts[j - 1])'
        BY <1>4, <2>2, <3>1 DEF Introduces
      <3>2. ASSUME NEW i \in DOMAIN evts', evts'[i].type = "CacheLoaded", evts'[i].op = activeOp',
                   uiAccount' # evts'[i].acct
            PROVE  \E j \in DOMAIN evts' : j < i /\ Introduces(evts[j])'
        <4>1. i + 1 \in DOMAIN evts /\ evts'[i] = evts[i + 1] /\ i \in Nat
          BY <1>4
        <4>2. PICK j \in DOMAIN evts : j < i + 1 /\ Introduces(evts[j])
          BY <2>2, <3>2, <4>1 DEF IdentityFirst
        <4> QED  BY <3>1, <4>1, <4>2
      <3>3. ASSUME task'.pc = "authorize", task'.op = activeOp', uiAccount' # task'.acct
            PROVE  \E j \in DOMAIN evts' : Introduces(evts[j])'
        <4>1. PICK j \in DOMAIN evts : Introduces(evts[j])
          BY <1>2, <2>2, <3>3 DEF IdentityFirst
        <4> QED  BY <3>1, <4>1
      <3> QED  BY <3>2, <3>3 DEF IdentityFirst
    <2>3. CASE Announces(h) /\ h.op = activeOp /\ uiAccount' = h.acct /\ UNCHANGED activeOp
      <3>1. ASSUME NEW i \in DOMAIN evts', evts'[i].type = "CacheLoaded", evts'[i].op = activeOp'
            PROVE  uiAccount' = evts'[i].acct
        BY <1>4, <2>3, <3>1 DEF OneIdentity, Announces
      <3>2. task.op = activeOp => uiAccount' = task.acct
        BY <1>4, <2>3 DEF OneIdentity
      <3> QED  BY <1>2, <2>3, <3>1, <3>2 DEF IdentityFirst
    <2> QED  BY <1>1, <1>7, <2>1, <2>2, <2>3
  <1>13. FoldersAsked'
    <2>1. ASSUME NEW n \in Nat, NEW a, Asked(n, a) PROVE Asked(n, a)'
      <3>1. n # Orphaned /\ n # 0
        BY <1>3, <2>1, BoundAssumption DEF Asked, Orphaned, FoldersAsked
      <3> QED  BY <1>1, <1>8, <2>1, <3>1 DEF Asked
    <2>2. ASSUME NEW i \in DOMAIN cmds', cmds'[i].type = "Folder" PROVE Asked(cmds[i].op, cmds[i].acct)'
      <3>1. PICK n, a : n \in Nat /\ n = cmds[i].op /\ a = cmds[i].acct
        BY <1>1, Typed
      <3>2. Asked(n, a)'
        BY <1>1, <2>1, <2>2, <3>1 DEF FoldersAsked
      <3> QED  BY <1>1, <3>1, <3>2
    <2>3. folder'.pc # "none" => Asked(folder.id, folder.acct)'
      <3>1. PICK n, a : n \in Nat /\ n = folder.id /\ a = folder.acct
        BY Typed
      <3>2. folder.pc # "none" => Asked(n, a)'
        BY <2>1, <3>1 DEF FoldersAsked
      <3> QED  BY <1>2, <3>1, <3>2
    <2>4. ASSUME NEW i \in DOMAIN evts', FolderResult(evts'[i]) PROVE Asked(evts[i].op, evts[i].acct)'
      <3>1. PICK n, a : n \in Nat /\ n = evts[i + 1].op /\ a = evts[i + 1].acct
        BY <1>4, Typed
      <3>2. Asked(n, a)'
        BY <1>4, <2>1, <2>4, <3>1 DEF FoldersAsked
      <3>3. n = evts'[i].op /\ a = evts'[i].acct
        BY <1>4, <3>1
      <3> QED  BY <3>2, <3>3
    <2>5. nextFolder' > 0 /\ nextFolder' <= MaxFolders + 1
      BY <1>1 DEF FoldersAsked
    <2> QED  BY <2>2, <2>3, <2>4, <2>5 DEF FoldersAsked
  <1> QED  BY <1>9, <1>10, <1>11, <1>12, <1>13

-----------------------------------------------------------------------------

\* The process begins with the restoration under way and nothing else.
LEMMA StartupShown == Startup => FolderWaits /\ InTurn /\ OneIdentity /\ IdentityFirst /\ FoldersAsked /\ ShownMailIsAccountMail
  <1> SUFFICES ASSUME Startup
               PROVE  FolderWaits /\ InTurn /\ OneIdentity /\ IdentityFirst /\ FoldersAsked /\ ShownMailIsAccountMail
    OBVIOUS
  <1>1. /\ DOMAIN evts = {} /\ DOMAIN cmds = {1} /\ cmds[1].type = "Restore" /\ cmds[1].op = 1
        /\ task.op = 0 /\ task.pc = "none" /\ held = NoCmd /\ held.op = 0 /\ folder.pc = "none"
        /\ nextOp = 2 /\ nextFolder = 1 /\ uiFolder = 0 /\ shown = NoAccount /\ closures = {}
    BY DEF Startup, NoTask, NoFolder, NoCmd, Cmd
  <1> QED
    BY <1>1, BoundAssumption DEF FolderWaits, InTurn, Unheard, OneIdentity, IdentityFirst, FoldersAsked,
                                 ShownMailIsAccountMail

LEMMA InitShown == Init => ShownInv
  BY InitPollSession, StartupShown DEF Init, ShownInv

LEMMA StepShown == ShownInv /\ [Next]_vars => ShownInv'
  <1> SUFFICES ASSUME ShownInv, [Next]_vars PROVE ShownInv'
    OBVIOUS
  <1>1. PollSessionInv' /\ TypeOK' /\ FolderWaits'
    BY StepPollSession, StepFolderWaits DEF ShownInv, PollSessionInv
  <1>2. CASE UiStep \/ UiEvent
    BY <1>1, <1>2, UiStepShown, UiEventShown DEF ShownInv
  \* No step of the worker touches what is shown.
  <1>3. CASE CtlStep \/ TaskStep \/ PollStep \/ FolderStep \/ RunClosure
    <2>1. InTurn' /\ OneIdentity' /\ IdentityFirst' /\ FoldersAsked'
      BY <1>1, <1>3, CtlStepShown, TaskStepShown, PollStepShown, FolderStepShown, RunClosureShown
    <2>2. UNCHANGED uiVars
      BY <1>3 DEF CtlStep, CtlCancel, CtlBackgroundSync, CtlFetchFolder, CtlBoundary, CtlDisconnect, CtlStartSync,
           CtlShutdown, CtlReap, TaskStep, TaskAcquireLane, ConnectListen, ConnectCallback, ConnectExchange,
           RestoreLoad, RestoreRefresh, RestoreIdentity, TaskVerified, TaskAuthorize, TaskMark, TaskSave,
           TaskFetch, TaskSynced, TaskCacheError, DisconnectBegin, DisconnectDrafts, DisconnectToken,
           PollStep, PollAuth, PollRefresh, PollPermit, PollReplace, PollFetch, PollLane, PollPublish,
           FolderStep, FolderCredentials, FolderLane, FolderFetch, FolderPublish,
           RunClosure, RunPrepare, RunSync, RunClear, EnterGated, WriteGated,
           NotWorker, NotTask, NotPoll, NotFolder, NotClosure
    <2>3. ShownMailIsAccountMail'
      BY <2>2 DEF ShownInv, ShownMailIsAccountMail, uiVars
    <2> QED  BY <1>1, <2>1, <2>3 DEF ShownInv
  <1>4. CASE DropClosure \/ UNCHANGED vars
    <2>1. UNCHANGED <<uiVars, cmds, evts, held, task, folder>>
      BY <1>4 DEF DropClosure, NotClosure, NotWorker, vars, workerVars
    <2>2. ShownMailIsAccountMail'
      BY <2>1 DEF ShownInv, ShownMailIsAccountMail, uiVars
    <2>3. InTurn' /\ OneIdentity' /\ IdentityFirst' /\ FoldersAsked'
      <3>1. folder'.pc # "none" => Asked(folder'.id, folder'.acct)
        BY <2>1 DEF ShownInv, FoldersAsked
      <3> QED  BY <1>1, <2>1, <3>1, Stuttering, QuietWorker
    <2> QED  BY <1>1, <2>2, <2>3 DEF ShownInv
  <1>5. CASE Restart
    <2>1. Startup'
      BY <1>5 DEF Restart, Startup
    <2> QED  BY <1>1, <2>1, StartupShown, PTL DEF ShownInv
  <1> QED  BY <1>2, <1>3, <1>4, <1>5 DEF Next

\* The mail on the screen is the mail of the account on the screen: no cached
\* mailbox, folder view or poll of another account gets there, in whatever order
\* sign-ins, cancellations and folder requests overlap.
THEOREM ShownIsTheAccounts == Spec => []ShownMailIsAccountMail
  <1>1. ShownInv => ShownMailIsAccountMail
    BY DEF ShownInv
  <1> QED  BY <1>1, InitShown, StepShown, PTL DEF Spec

-----------------------------------------------------------------------------
(* What Disconnect leaves *)

\* What the window awaits is a Disconnect exactly if that is what it would try again.
KindAgrees(type, op) == op = activeOp => (type \in {"Disconnect", "Disconnected"} <=> recovery = "Disconnect")
KindKnown ==
    /\ \A i \in DOMAIN cmds : Boundary(cmds[i]) => KindAgrees(cmds[i].type, cmds[i].op)
    /\ held # NoCmd => KindAgrees(held.type, held.op)
    /\ task.pc # "none" => KindAgrees(task.kind, task.op)
    /\ \A i \in DOMAIN evts : Vouches(evts[i]) => KindAgrees(evts[i].type, evts[i].op)

\* Polls and folder requests have numbers, which nobody who awaits none awaits.
Numbered ==
    /\ nextPoll > 0
    /\ \A i \in DOMAIN cmds : cmds[i].type = "Poll" => cmds[i].op > 0
    /\ poll.pc # "none" => poll.id > 0
    /\ \A c \in closures : c.kind = "folder" => c.id > 0
    /\ \A i \in DOMAIN evts : evts[i].type \in {"PollComplete", "FolderFailed"} => evts[i].op > 0

\* A Disconnect is not what a browser is open for, and it empties the window.
Blank == shown = NoAccount /\ uiPoll = 0 /\ uiFolder = 0
LeavingIsBlank ==
    /\ activeOp # 0 /\ recovery = "Disconnect" => Blank
    /\ session = "Authorizing" => recovery # "Disconnect"

DisconnectPhases == {"begin", "drafts", "clear", "clearErr", "token"}
TaskPhases ==
    /\ task.kind = "Disconnect" => task.pc \in DisconnectPhases \cup {"finished"}
    /\ task.pc \in DisconnectPhases => task.kind = "Disconnect"

\* Nothing is left that would read or write mail by itself.
Still == poll = NoPoll /\ folder = NoFolder /\ fgate = 0 /\ auth = NoAccount
Emptied == (mailbox = NoAccount \/ stray) /\ \A c \in closures : ~c.inside
Hushed == \A i \in DOMAIN cmds : cmds[i].type = "Shutdown"

\* From the command to the answer a Disconnect that is awaited is the last that is asked for.
Leaves(c) == c.type = "Disconnect" /\ c.op = activeOp
TaskLeaves == task.kind = "Disconnect" /\ task.op = activeOp /\ task.pc \in {"begin", "drafts", "clear", "token"}
Confirms(e) == e.type = "Disconnected" /\ e.op = activeOp
CmdsLeave == \A i, j \in DOMAIN cmds : i < j /\ Leaves(cmds[i]) => cmds[j].type = "Shutdown"
HeldLeaves == Leaves(held) => Hushed /\ poll = NoPoll
TaskLeavesLast ==
    TaskLeaves => /\ Hushed /\ held = NoCmd /\ Still
                  /\ task.pc \in {"clear", "token"} => task.acct \notin drafts
                  /\ task.pc = "token" => Emptied
Confirmed(a) ==
    /\ Hushed /\ held = NoCmd /\ Still /\ Emptied
    /\ keyring = NoAccount /\ a \notin drafts
    /\ task.pc \in {"none", "finished"}
ConfirmedLast == \A i \in DOMAIN evts : Confirms(evts[i]) => Confirmed(evts[i].acct)
LeavingLast == CmdsLeave /\ HeldLeaves /\ TaskLeavesLast /\ ConfirmedLast

\* Until the next sign-in: a restoration finds no token.
TaskIsIdle ==
    \/ task.pc \in {"none", "finished"}
    \/ task.kind = "Disconnect"
    \/ task.kind = "Restore" /\ task.pc \in {"start", "load"}
SignedOutStays ==
    erased # NoAccount =>
        /\ Still /\ Emptied /\ keyring = NoAccount /\ erased \notin drafts
        /\ Blank /\ TaskIsIdle /\ held.type # "Connect"
        /\ \A i \in DOMAIN cmds : cmds[i].type \notin {"Connect", "Poll", "Folder"}
        /\ \A i \in DOMAIN evts : Announces(evts[i]) => evts[i].op # activeOp

CleanInv == ShownInv /\ KindKnown /\ Numbered /\ LeavingIsBlank /\ TaskPhases /\ LeavingLast /\ SignedOutStays

-----------------------------------------------------------------------------

\* The operations the worker knows of are numbered, and were before the next one.
LEMMA OpsKnown ==
  ASSUME ShownInv
  PROVE  /\ nextOp \in Nat /\ nextOp > 0 /\ activeOp \in Nat /\ uiPoll \in Nat /\ uiFolder \in Nat
         /\ nextPoll \in Nat /\ nextFolder \in Nat /\ nextFolder > 0
         /\ task.pc # "none" => task.op > 0 /\ task.op < nextOp
         /\ held # NoCmd => held.op > 0 /\ held.op < nextOp
         /\ \A i \in DOMAIN cmds : Boundary(cmds[i]) => cmds[i].op > 0 /\ cmds[i].op < nextOp
         /\ \A i \in DOMAIN evts : Vouches(evts[i]) => evts[i].op > 0 /\ evts[i].op < nextOp
         /\ \A i \in DOMAIN evts : FolderResult(evts[i]) => evts[i].op > 0
  <1> USE DEF ShownInv, PollSessionInv
  <1>1. nextOp \in Nat /\ uiPoll \in Nat /\ nextPoll \in Nat
    BY DEF TypeOK, UiTypeOK
  <1>2. task.op < nextOp /\ \A i \in DOMAIN evts : Vouches(evts[i]) => evts[i].op < nextOp
    BY DEF InTurn, Unheard
  <1>3. \A i \in DOMAIN evts : FolderResult(evts[i]) => evts[i].op > 0
    BY DEF FoldersAsked, Asked
  <1> QED  BY <1>1, <1>2, <1>3, Typed DEF InTurn, Unheard, FoldersAsked

\* What a step of the person comes to.  A request for mail:
Requests ==
    /\ shown # NoAccount /\ UNCHANGED <<activeOp, recovery, session, erased, nextOp>>
    /\ \E c : /\ cmds' = Append(cmds, c) /\ c.type \in {"Poll", "Folder"}
              /\ c.type = "Poll" => activeOp = 0 /\ c.op = nextPoll
    /\ nextPoll' \in {nextPoll, nextPoll + 1}
\* the end of the process,
Quits ==
    /\ UNCHANGED <<uiVars, erased>>
    /\ \E c : cmds' = Append(cmds, c) /\ c.type = "Shutdown"
\* a new operation that crosses an account boundary,
Begins ==
    /\ activeOp' = nextOp /\ session' # "Authorizing" /\ recovery' \in BoundaryKinds /\ nextPoll' = nextPoll
    /\ \E c : cmds' = Append(cmds, c) /\ c.type = recovery' /\ c.op = nextOp
    /\ uiFolder' = 0
    /\ IF recovery' = "Disconnect" THEN shown' = NoAccount /\ uiPoll' = 0 ELSE UNCHANGED <<shown, uiPoll>>
    /\ erased' = IF recovery' = "Connect" THEN NoAccount ELSE erased
\* or the end of one that waits for the browser.
Withdraws ==
    /\ session = "Authorizing" /\ session' # "Authorizing"
    /\ activeOp' \in {0, nextOp} /\ UNCHANGED <<recovery, erased, shown, uiPoll, uiFolder, nextPoll>>
    /\ UNCHANGED cmds \/ \E c : cmds' = Append(cmds, c) /\ c.type = "Cancel"

LEMMA PersonSteps ==
  ASSUME UiStep
  PROVE  /\ UNCHANGED <<evts, held, task, poll, folder, fgate, auth, closures, keyring, mailbox, drafts, stray>>
         /\ Requests \/ Quits \/ Begins \/ Withdraws
  <1>1. UNCHANGED <<evts, workerVars, closures, diskVars, stray>>
    BY DEF UiStep, ClickConnect, ClickDisconnect, ClickRetry, ClickCancel, SelectFolder, Start, Disconnect,
           LoadFolder, BrowserLaunchFailed, BackgroundTimer, CloseWindow
  <1>2. \A t, n, a : Cmd(t, n, a).type = t /\ Cmd(t, n, a).op = n
    BY DEF Cmd
  <1>3. ASSUME NEW kind \in SyncKinds, Start(kind) PROVE Begins
    BY <1>2, <1>3 DEF Start, Allocate, Send, Begins, BoundaryKinds, SyncKinds
  <1>4. Disconnect => Begins
    BY <1>2 DEF Disconnect, Allocate, Send, Begins, BoundaryKinds
  <1>5. ClickConnect \/ ClickDisconnect \/ ClickRetry => Begins
    BY <1>3, <1>4 DEF ClickConnect, ClickDisconnect, ClickRetry, SyncKinds
  <1>6. SelectFolder \/ BackgroundTimer => Requests
    BY <1>2 DEF SelectFolder, LoadFolder, BackgroundTimer, Send, Requests
  <1>7. CloseWindow => Quits
    BY <1>2 DEF CloseWindow, Send, Quits
  <1>8. ClickCancel \/ BrowserLaunchFailed => Withdraws
    BY <1>2 DEF ClickCancel, CanCancel, BrowserLaunchFailed, Allocate, Send, Withdraws
  <1> QED  BY <1>1, <1>5, <1>6, <1>7, <1>8 DEF UiStep, workerVars, diskVars

\* What the window makes of an event h.  It is none of its business, or of its operation;
Shrugs ==
    /\ UNCHANGED <<activeOp, recovery, shown, erased>>
    /\ uiPoll' \in {uiPoll, 0} /\ uiFolder' = uiFolder
    /\ session' = "Authorizing" => session = "Authorizing" \/ (Head(evts).type = "AuthorizationRequired" /\ Head(evts).op = activeOp)
\* it names an account;
Names == Announces(Head(evts)) /\ Head(evts).op = activeOp /\ UNCHANGED <<activeOp, recovery, session, erased>>
\* it brings mail;
Brings ==
    /\ \/ Head(evts).type = "PollComplete" /\ Head(evts).op = uiPoll
       \/ (FolderResult(Head(evts)) \/ Head(evts).type = "FolderFailed") /\ Head(evts).op = uiFolder
    /\ UNCHANGED <<activeOp, erased>>
    /\ recovery' \in {recovery, "None", "Folder", "Connect"}
    /\ session' = "Authorizing" => session = "Authorizing"
\* it ends the operation,
Ends ==
    /\ activeOp' = 0 /\ erased' = erased
    /\ session' # "Authorizing"
    /\ \/ UNCHANGED <<shown, uiPoll, uiFolder>>
       \/ Announces(Head(evts)) /\ Head(evts).op = activeOp
\* which may have been a Disconnect.
Leaving ==
    /\ Confirms(Head(evts))
    /\ activeOp' = 0 /\ erased' = Head(evts).acct /\ session' # "Authorizing"
    /\ shown' = NoAccount /\ uiPoll' = 0 /\ uiFolder' = 0

LEMMA WindowSteps ==
  ASSUME UiEvent
  PROVE  /\ UNCHANGED <<cmds, held, task, poll, folder, fgate, auth, closures, keyring, mailbox, drafts, stray, nextPoll>>
         /\ evts # <<>> /\ evts' = Tail(evts)
         /\ Shrugs \/ Names \/ Brings \/ Ends \/ Leaving
  <1>1. UNCHANGED <<cmds, workerVars, closures, diskVars, stray, nextPoll>> /\ evts # <<>> /\ evts' = Tail(evts)
    BY DEF UiEvent, DropStaleEvent, OnPhase, OnAuthorizationRequired, OnIdentityVerified, OnCacheLoaded, OnSignedOut,
           OnSyncComplete, OnDisconnected, OnFailed, OnPollComplete, OnPollFailed, OnFolderCacheLoaded,
           OnFolderLoaded, OnFolderFailed, ReceiveOwn, Receive, NotUi, uiVars
  <1>2. DropStaleEvent \/ OnPhase \/ OnAuthorizationRequired \/ OnPollFailed => Shrugs
    BY DEF DropStaleEvent, OnPhase, OnAuthorizationRequired, OnPollFailed, ReceiveOwn, Receive, uiVars, Shrugs
  <1>3. OnIdentityVerified \/ OnCacheLoaded => Names
    BY DEF OnIdentityVerified, OnCacheLoaded, ReceiveOwn, Receive, Names, Announces
  <1>4. OnPollComplete \/ OnFolderCacheLoaded \/ OnFolderLoaded => Brings
    BY DEF OnPollComplete, OnFolderCacheLoaded, OnFolderLoaded, Receive, Brings, FolderResult
  <1>5. OnFolderFailed => Brings
    <2>1. ASSUME OnFolderFailed
          PROVE  /\ recovery' \in {recovery, "Folder", "Connect"}
                 /\ session' \in {session, "Offline", "AuthRequired"}
      <3>1. CASE Head(evts).fail = "net"
        BY <2>1, <3>1 DEF OnFolderFailed
      <3>2. CASE Head(evts).fail = "auth"
        BY <2>1, <3>2 DEF OnFolderFailed
      <3>3. CASE Head(evts).fail \notin {"net", "auth"}
        BY <2>1, <3>3 DEF OnFolderFailed
      <3> QED  BY <3>1, <3>2, <3>3
    <2> QED  BY <2>1 DEF OnFolderFailed, Receive, Brings
  <1>6. OnSignedOut \/ OnFailed => Ends
    BY DEF OnSignedOut, OnFailed, ReceiveOwn, Receive, Ends
  <1>7. OnSyncComplete => Ends
    BY DEF OnSyncComplete, ReceiveOwn, Receive, Ends, Announces
  <1>8. OnDisconnected => Leaving
    BY DEF OnDisconnected, ReceiveOwn, Receive, Leaving, Confirms
  <1> QED  BY <1>1, <1>2, <1>3, <1>4, <1>5, <1>6, <1>7, <1>8 DEF UiEvent, workerVars, diskVars

-----------------------------------------------------------------------------
(* The reducer *)

\* Whatever is said to leave is what the window waits for.
LEMMA LeavingKnown ==
  ASSUME CleanInv
  PROVE  /\ \A i \in DOMAIN cmds : Leaves(cmds[i]) => activeOp # 0 /\ recovery = "Disconnect"
         /\ Leaves(held) => activeOp # 0 /\ recovery = "Disconnect"
         /\ TaskLeaves => activeOp # 0 /\ recovery = "Disconnect"
         /\ \A i \in DOMAIN evts : Confirms(evts[i]) => activeOp # 0 /\ recovery = "Disconnect"
  <1> USE DEF CleanInv
  <1>1. \A i \in DOMAIN cmds : Leaves(cmds[i]) => Boundary(cmds[i])
    BY DEF Leaves, Boundary, BoundaryKinds
  <1>2. Leaves(held) => held # NoCmd
    BY DEF Leaves, NoCmd, Cmd
  <1>3. \A i \in DOMAIN evts : Confirms(evts[i]) => Vouches(evts[i])
    BY DEF Confirms, Vouches
  <1> QED  BY <1>1, <1>2, <1>3, OpsKnown DEF KindKnown, KindAgrees, Leaves, TaskLeaves, Confirms

LEMMA UiStepKinds ==
  ASSUME CleanInv, UiStep
  PROVE  KindKnown' /\ Numbered' /\ LeavingIsBlank'
  <1> USE DEF CleanInv
  <1>1. /\ UNCHANGED <<evts, held, task, poll, closures>>
        /\ Requests \/ Quits \/ Begins \/ Withdraws
    BY PersonSteps
  <1>2. /\ evts \in Seq(Event) /\ cmds \in Seq(Command)
    BY Typed DEF ShownInv, PollSessionInv
  <1> DEFINE Fit(c) == /\ c.type = "Poll" => c.op > 0
                       /\ Boundary(c) => recovery' \in BoundaryKinds /\ c.type = recovery' /\ c.op = activeOp'
  <1>3. UNCHANGED cmds \/ \E c : cmds' = Append(cmds, c) /\ Fit(c)
    <2>1. ASSUME NEW c, c.type \in {"Poll", "Folder", "Cancel", "Shutdown"} PROVE ~Boundary(c)
      BY <2>1 DEF Boundary, BoundaryKinds, SyncKinds
    <2>2. CASE Requests
      BY <2>1, <2>2 DEF Requests, Numbered
    <2>3. CASE Quits
      BY <2>1, <2>3 DEF Quits
    <2>4. CASE Begins
      BY <2>4 DEF Begins, BoundaryKinds, SyncKinds
    <2>5. CASE Withdraws
      BY <2>1, <2>5 DEF Withdraws
    <2> QED  BY <1>1, <2>2, <2>3, <2>4, <2>5
  <1>4. \A i \in DOMAIN cmds' : (i \in DOMAIN cmds /\ cmds'[i] = cmds[i]) \/ Fit(cmds'[i])
    <2> HIDE DEF Fit
    <2> QED  BY <1>2, <1>3, Appended
  <1>5. \/ UNCHANGED <<activeOp, recovery>>
        \/ activeOp' \in {0, nextOp}
    BY <1>1 DEF Requests, Quits, Begins, Withdraws, uiVars
  <1>6. KindKnown'
    <2>1. CASE UNCHANGED <<activeOp, recovery>>
      BY <1>1, <1>4, <2>1 DEF KindKnown, KindAgrees, Boundary, BoundaryKinds, SyncKinds
    <2>2. CASE activeOp' \in {0, nextOp}
      BY <1>1, <1>4, <2>2, OpsKnown DEF KindKnown, KindAgrees, Boundary, BoundaryKinds, SyncKinds
    <2> QED  BY <1>5, <2>1, <2>2
  <1>7. Numbered'
    <2>1. nextPoll' > 0
      BY <1>1, OpsKnown DEF Numbered, Requests, Quits, Begins, Withdraws, uiVars
    <2> QED  BY <1>1, <1>4, <2>1 DEF Numbered
  <1>8. LeavingIsBlank'
    BY <1>1, OpsKnown DEF LeavingIsBlank, Blank, Requests, Quits, Begins, Withdraws, uiVars, BoundaryKinds, SyncKinds
  <1> QED  BY <1>6, <1>7, <1>8

\* Nothing is brought to a window that waits for nothing.
LEMMA BroughtToNobody ==
  ASSUME CleanInv, UiEvent, Blank
  PROVE  ~Brings
  <1>1. evts # <<>>
    BY WindowSteps
  <1>2. 1 \in DOMAIN evts /\ evts[1] = Head(evts)
    BY <1>1, Typed, Shortened DEF CleanInv, ShownInv, PollSessionInv
  <1> QED  BY <1>2, OpsKnown DEF CleanInv, Blank, Brings, Numbered

LEMMA UiEventKinds ==
  ASSUME CleanInv, UiEvent
  PROVE  KindKnown' /\ Numbered' /\ LeavingIsBlank'
  <1> USE DEF CleanInv
  <1>1. /\ UNCHANGED <<cmds, held, task, poll, closures, nextPoll>> /\ evts # <<>> /\ evts' = Tail(evts)
        /\ Shrugs \/ Names \/ Brings \/ Ends \/ Leaving
    BY WindowSteps
  <1>2. /\ 1 \in DOMAIN evts /\ evts[1] = Head(evts)
        /\ \A i \in DOMAIN evts' : i + 1 \in DOMAIN evts /\ evts'[i] = evts[i + 1]
    BY <1>1, Typed, Shortened DEF ShownInv, PollSessionInv
  <1>3. \/ activeOp' = 0
        \/ activeOp' = activeOp /\ (recovery' = "Disconnect" <=> recovery = "Disconnect")
        \/ activeOp' = activeOp /\ activeOp = 0
    BY <1>1, BroughtToNobody DEF Shrugs, Names, Brings, Ends, Leaving, LeavingIsBlank
  <1>4. KindKnown'
    <2>1. CASE activeOp' = 0
      BY <1>1, <1>2, <2>1, OpsKnown DEF KindKnown, KindAgrees
    <2>2. CASE activeOp' = activeOp /\ (recovery' = "Disconnect" <=> recovery = "Disconnect")
      BY <1>1, <1>2, <2>2 DEF KindKnown, KindAgrees
    <2> QED  BY <1>3, <2>1, <2>2
  <1>5. Numbered'
    BY <1>1, <1>2 DEF Numbered
  <1>6. LeavingIsBlank'
    <2>1. CASE Shrugs
      <3>1. Vouches(Head(evts)) \/ Head(evts).type # "AuthorizationRequired"
        BY DEF Vouches
      <3>2. Head(evts).type = "AuthorizationRequired" /\ Head(evts).op = activeOp => recovery # "Disconnect"
        BY <1>2, <3>1 DEF KindKnown, KindAgrees
      <3> QED  BY <2>1, <3>2, OpsKnown DEF LeavingIsBlank, Blank, Shrugs
    <2>2. CASE Names
      <3>1. recovery # "Disconnect"
        BY <1>2, <2>2 DEF KindKnown, KindAgrees, Names, Vouches, Announces
      <3> QED  BY <2>2, <3>1 DEF LeavingIsBlank, Names
    <2>3. CASE Brings
      BY <2>3, BroughtToNobody DEF LeavingIsBlank, Brings
    <2>4. CASE Ends \/ Leaving
      BY <2>4 DEF LeavingIsBlank, Ends, Leaving
    <2> QED  BY <1>1, <2>1, <2>2, <2>3, <2>4
  <1> QED  BY <1>4, <1>5, <1>6

-----------------------------------------------------------------------------
(* What the worker says *)

Old(i) == i \in DOMAIN evts /\ evts'[i] = evts[i]

LEMMA Adds ==
  ASSUME TypeOK, NEW e, evts' = Append(evts, e)
  PROVE  \A i \in DOMAIN evts' : Old(i) \/ evts'[i] = e
  BY Typed, Appended DEF Old

LEMMA FailureIs == \A t, n, f, k : Failure(t, n, f, k).type = t /\ Failure(t, n, f, k).op = n
  BY DEF Failure

LEMMA EvtIs == \A t, n, a : Evt(t, n, a).type = t /\ Evt(t, n, a).op = n /\ Evt(t, n, a).acct = a
  BY DEF Evt

LEMMA CtlSays ==
  ASSUME TypeOK, CtlStep, NEW i \in DOMAIN evts'
  PROVE  Old(i) \/ evts'[i].type \in {"Cancelled", "Failed", "PollFailed"}
  <1>1. ASSUME evts' = evts PROVE Old(i)
    BY <1>1 DEF Old
  <1>2. ASSUME NEW t \in {"Failed", "PollFailed"}, NEW n, NEW f, NEW k, Emit(Failure(t, n, f, k))
        PROVE  Old(i) \/ evts'[i].type = t
    BY <1>2, Adds, FailureIs DEF Emit
  <1>3. ASSUME NEW n, NEW a, Emit(Evt("Cancelled", n, a))
        PROVE  Old(i) \/ evts'[i].type = "Cancelled"
    BY <1>3, Adds, EvtIs DEF Emit
  <1>4. CASE CtlCancel
    BY <1>2, <1>3, <1>4 DEF CtlCancel
  <1>5. CASE CtlBackgroundSync \/ CtlBoundary \/ CtlStartSync
    BY <1>1, <1>2, <1>5 DEF CtlBackgroundSync, CtlBoundary, CtlStartSync
  <1>6. CASE CtlFetchFolder \/ CtlDisconnect \/ CtlShutdown \/ CtlReap
    BY <1>1, <1>6 DEF CtlFetchFolder, CtlDisconnect, CtlShutdown, CtlReap
  <1> QED  BY <1>4, <1>5, <1>6 DEF CtlStep

\* A task that has the window open a browser is at the beginning of a sign-in,
\* one that confirms a Disconnect has deleted the token.
TaskSays(e) ==
    /\ e.op = task.op
    /\ \/ e.type \in {"Failed", "Phase", "NoStoredAccount"}
       \/ Announces(e) /\ task.pc \in {"verified", "authorize", "synced"}
       \/ e.type = "AuthorizationRequired" /\ task.pc = "config"
       \/ /\ e.type = "Disconnected" /\ task.pc = "token" /\ e.acct = task.acct
          /\ keyring' = NoAccount /\ Goto("finished")

LEMMA TaskSpeaks ==
  ASSUME TypeOK, TaskStep, NEW i \in DOMAIN evts'
  PROVE  Old(i) \/ TaskSays(evts'[i])
  <1>1. ASSUME evts' = evts PROVE Old(i)
    BY <1>1 DEF Old
  <1>2. ASSUME NEW f, NEW k, FailTask(f, k) PROVE Old(i) \/ TaskSays(evts'[i])
    BY <1>2, Adds, FailureIs DEF FailTask, Emit, TaskSays
  <1>3. ASSUME NEW t, NEW a, Emit(Evt(t, task.op, a))
        PROVE  Old(i) \/ (evts'[i].type = t /\ evts'[i].op = task.op /\ evts'[i].acct = a)
    BY <1>3, Adds, EvtIs DEF Emit
  <1>4. CASE TaskAcquireLane \/ TaskMark
    BY <1>1, <1>4 DEF TaskAcquireLane, TaskMark
  <1>5. CASE ConnectListen
    BY <1>2, <1>3, <1>5 DEF ConnectListen, At, TaskSays
  <1>6. CASE ConnectCallback
    BY <1>2, <1>3, <1>6 DEF ConnectCallback, TaskSays
  <1>7. CASE ConnectExchange
    BY <1>1, <1>2, <1>7 DEF ConnectExchange
  <1>8. CASE RestoreLoad
    BY <1>1, <1>2, <1>3, <1>8 DEF RestoreLoad, TaskSays
  <1>9. CASE RestoreRefresh \/ RestoreIdentity \/ TaskFetch
    BY <1>1, <1>2, <1>9 DEF RestoreRefresh, RestoreIdentity, TaskFetch
  <1>10. CASE TaskSave
    BY <1>1, <1>2, <1>10 DEF TaskSave
  <1>11. CASE TaskVerified
    BY <1>3, <1>11 DEF TaskVerified, At, TaskSays, Announces
  <1>12. CASE TaskAuthorize
    BY <1>1, <1>2, <1>3, <1>12 DEF TaskAuthorize, At, TaskSays, Announces
  <1>13. CASE TaskSynced
    BY <1>3, <1>13 DEF TaskSynced, At, TaskSays, Announces
  <1>14. CASE TaskCacheError
    BY <1>2, <1>14 DEF TaskCacheError
  <1>15. CASE DisconnectBegin
    BY <1>3, <1>15 DEF DisconnectBegin, TaskSays
  <1>16. CASE DisconnectDrafts
    BY <1>1, <1>2, <1>16 DEF DisconnectDrafts
  <1>17. CASE DisconnectToken
    BY <1>2, <1>3, <1>17 DEF DisconnectToken, At, Finish, TaskSays
  <1> QED  BY <1>4, <1>5, <1>6, <1>7, <1>8, <1>9, <1>10, <1>11, <1>12, <1>13, <1>14, <1>15, <1>16, <1>17 DEF TaskStep

LEMMA PollSays ==
  ASSUME TypeOK, PollStep, NEW i \in DOMAIN evts'
  PROVE  Old(i) \/ (evts'[i].type \in {"PollFailed", "PollComplete"} /\ evts'[i].op = poll.id)
  <1>1. ASSUME evts' = evts PROVE Old(i)
    BY <1>1 DEF Old
  <1>2. ASSUME NEW k, PollFail(k) PROVE Old(i) \/ (evts'[i].type = "PollFailed" /\ evts'[i].op = poll.id)
    BY <1>1, <1>2, Adds, FailureIs DEF PollFail, Emit
  <1>3. PollLeave => Old(i)
    BY <1>1 DEF PollLeave
  <1>4. CASE PollPublish
    <2>1. ASSUME Emit(Evt("PollComplete", poll.id, poll.acct))
          PROVE  Old(i) \/ (evts'[i].type = "PollComplete" /\ evts'[i].op = poll.id)
      BY <2>1, Adds, EvtIs DEF Emit
    <2> QED  BY <1>2, <1>3, <1>4, <2>1 DEF PollPublish
  <1> QED  BY <1>1, <1>2, <1>3, <1>4 DEF PollStep, PollAuth, PollRefresh, PollPermit, PollReplace, PollFetch, PollLane

LEMMA FolderSays ==
  ASSUME TypeOK, FolderStep, NEW i \in DOMAIN evts'
  PROVE  Old(i) \/ (evts'[i].type \in {"FolderCacheLoaded", "FolderLoaded", "FolderFailed"} /\ evts'[i].op = folder.id)
  <1>1. ASSUME evts' = evts PROVE Old(i)
    BY <1>1 DEF Old
  <1>2. ASSUME NEW f, Emit(Failure("FolderFailed", folder.id, f, TRUE))
        PROVE  Old(i) \/ (evts'[i].type = "FolderFailed" /\ evts'[i].op = folder.id)
    BY <1>2, Adds DEF Emit, Failure
  <1>3. ASSUME NEW t \in {"FolderCacheLoaded", "FolderLoaded"}, Emit(Evt(t, folder.id, folder.acct))
        PROVE  Old(i) \/ (evts'[i].type = t /\ evts'[i].op = folder.id)
    BY <1>3, Adds, EvtIs DEF Emit
  <1>4. CASE FolderCredentials
    <2> DEFINE d == Evt("FolderCacheLoaded", folder.id, folder.acct)
               e == Failure("FolderFailed", folder.id, "auth", TRUE)
    <2>1. d \in Event /\ evts \in Seq(Event)
      BY EvtType, Typed DEF EventTypes, Folder
    <2>2. /\ d.type = "FolderCacheLoaded" /\ d.op = folder.id
          /\ e.type = "FolderFailed" /\ e.op = folder.id
      BY DEF Evt, Failure
    <2>3. evts' \in {evts, Append(evts, d), Append(evts, e), Append(Append(evts, d), e)}
      BY <1>4 DEF FolderCredentials
    <2> HIDE DEF d, e
    <2>4. CASE evts' = Append(Append(evts, d), e)
      <3>1. Append(evts, d) \in Seq(Event)
        BY <2>1, AppendType
      <3> DEFINE s == Append(evts, d)
      <3>2. \A j \in DOMAIN s : (j \in DOMAIN evts /\ s[j] = evts[j]) \/ s[j] = d
        BY <2>1, Appended
      <3>3. s \in Seq(Event) /\ evts' = Append(s, e)
        BY <2>4, <3>1
      <3> HIDE DEF s
      <3>4. (i \in DOMAIN s /\ evts'[i] = s[i]) \/ evts'[i] = e
        BY <3>3, Appended
      <3> QED  BY <2>2, <3>2, <3>4 DEF Old
    <2>5. CASE evts' \in {Append(evts, d), Append(evts, e)}
      BY <2>1, <2>2, <2>5, Adds
    <2> QED  BY <1>1, <2>3, <2>4, <2>5
  <1>5. CASE FolderLane \/ FolderFetch
    BY <1>1, <1>2, <1>5 DEF FolderLane, FolderFetch
  <1>6. CASE FolderPublish
    BY <1>1, <1>3, <1>6 DEF FolderPublish
  <1> QED  BY <1>4, <1>5, <1>6 DEF FolderStep

-----------------------------------------------------------------------------
(* How the worker's steps keep the kinds and the numbers *)

LEMMA WorkerKinds ==
  ASSUME CleanInv, UNCHANGED uiVars, cmds' = cmds \/ Taken,
         held' # NoCmd => held' = held \/ (Taken /\ held' = Head(cmds) /\ Boundary(Head(cmds))),
         task'.pc # "none" => KindAgrees(task'.kind, task'.op),
         poll'.pc # "none" => poll'.id > 0,
         \A c \in closures' : c.kind = "folder" => c.id > 0,
         \A i \in DOMAIN evts' :
            Old(i) \/ /\ Vouches(evts'[i]) => KindAgrees(evts'[i].type, evts'[i].op)
                      /\ evts'[i].type \in {"PollComplete", "FolderFailed"} => evts'[i].op > 0
  PROVE  KindKnown' /\ Numbered' /\ LeavingIsBlank'
  <1> USE DEF CleanInv
  <1>1. UNCHANGED <<activeOp, recovery, session, shown, uiPoll, uiFolder, nextPoll>>
    BY DEF uiVars
  <1>2. ASSUME NEW i \in DOMAIN cmds' PROVE \E j \in DOMAIN cmds : cmds'[i] = cmds[j]
    <2>1. CASE cmds' = cmds
      BY <2>1
    <2>2. CASE Taken
      BY <2>2, Typed, Shortened DEF Taken, ShownInv, PollSessionInv
    <2> QED  BY <2>1, <2>2
  <1>3. Taken => 1 \in DOMAIN cmds /\ cmds[1] = Head(cmds)
    BY Typed, Shortened DEF Taken, ShownInv, PollSessionInv
  <1>4. held' # NoCmd => KindAgrees(held'.type, held'.op)
    BY <1>3 DEF KindKnown
  <1>5. KindKnown'
    BY <1>1, <1>2, <1>4 DEF KindKnown, KindAgrees, Old
  <1>6. Numbered'
    BY <1>1, <1>2 DEF Numbered, Old
  <1> QED  BY <1>1, <1>5, <1>6 DEF LeavingIsBlank, Blank

LEMMA DetachKeepsIds ==
  ASSUME NEW kinds, Detach(kinds), closures \subseteq Closure, NEW c \in closures'
  PROVE  \E d \in closures : c.kind = d.kind /\ c.id = d.id /\ c.inside = d.inside
  <1>1. PICK d \in closures : c = IF d.kind \in kinds THEN [d EXCEPT !.live = FALSE] ELSE d
    BY DEF Detach
  <1>2. d \in Closure
    OBVIOUS
  <1> QED  BY <1>1, <1>2 DEF Closure

\* What a step of the controller comes to.
LEMMA CtlMoves ==
  ASSUME CleanInv, CtlStep
  PROVE  /\ UNCHANGED <<uiVars, erased, mailbox, drafts, stray>> /\ keyring' \in {keyring, NoAccount}
         /\ \A c \in closures' : \E d \in closures : c.kind = d.kind /\ c.id = d.id /\ c.inside = d.inside
         /\ \/ CtlDisconnect \/ CtlStartSync \/ CtlReap
            \/ /\ Taken /\ held = NoCmd /\ 1 \in DOMAIN cmds /\ cmds[1] = Head(cmds)
               /\ \A i \in DOMAIN cmds' : i > 0 /\ i + 1 \in DOMAIN cmds /\ cmds'[i] = cmds[i + 1]
               /\ CtlCancel \/ CtlBackgroundSync \/ CtlFetchFolder \/ CtlBoundary \/ CtlShutdown
  <1> USE DEF CleanInv, ShownInv, PollSessionInv
  <1>1. UNCHANGED <<uiVars, erased, mailbox, drafts, stray>> /\ keyring' \in {keyring, NoAccount}
    BY DEF CtlStep, CtlCancel, CtlBackgroundSync, CtlFetchFolder, CtlBoundary, CtlDisconnect, CtlStartSync,
           CtlShutdown, CtlReap, NotWorker, diskVars
  <1>2. \A c \in closures' : \E d \in closures : c.kind = d.kind /\ c.id = d.id /\ c.inside = d.inside
    <2>1. UNCHANGED closures \/ \E kinds : Detach(kinds)
      BY DEF CtlStep, CtlCancel, CtlBackgroundSync, CtlFetchFolder, CtlBoundary, CtlDisconnect, CtlStartSync,
             CtlShutdown, CtlReap
    <2> QED  BY <2>1, DetachKeepsIds, Typed
  <1>3. CtlCancel \/ CtlBackgroundSync \/ CtlFetchFolder \/ CtlBoundary \/ CtlShutdown => Taken /\ held = NoCmd
    BY DEF CtlCancel, CtlBackgroundSync, CtlFetchFolder, CtlBoundary, CtlShutdown, Received, Taken
  <1>4. Taken => /\ 1 \in DOMAIN cmds /\ cmds[1] = Head(cmds)
                 /\ \A i \in DOMAIN cmds' : i > 0 /\ i + 1 \in DOMAIN cmds /\ cmds'[i] = cmds[i + 1]
    BY Typed, Shortened DEF Taken
  <1> QED  BY <1>1, <1>2, <1>3, <1>4 DEF CtlStep

LEMMA CtlStepKinds ==
  ASSUME CleanInv, CtlStep
  PROVE  KindKnown' /\ Numbered' /\ LeavingIsBlank' /\ TaskPhases'
  <1> USE DEF CleanInv
  <1>1. \A i \in DOMAIN evts' :
            Old(i) \/ /\ Vouches(evts'[i]) => KindAgrees(evts'[i].type, evts'[i].op)
                      /\ evts'[i].type \in {"PollComplete", "FolderFailed"} => evts'[i].op > 0
    BY CtlSays DEF ShownInv, PollSessionInv, Vouches, Announces
  <1>2. \A c \in closures' : c.kind = "folder" => c.id > 0
    BY CtlMoves DEF Numbered
  <1>3. CASE CtlDisconnect \/ CtlStartSync
    <2>1. /\ held # NoCmd /\ held' = NoCmd /\ cmds' = cmds /\ poll' = poll
          /\ held.type \in BoundaryKinds
          /\ task' \in {NoTask, NewTask(held)}
      <3>1. NoCmd.type \notin {"Disconnect", "Connect", "Restore"}
        BY DEF NoCmd, Cmd
      <3> QED  BY <1>3, <3>1 DEF CtlDisconnect, CtlStartSync, SyncKinds, BoundaryKinds
    <2>2. /\ NewTask(held).kind = held.type /\ NewTask(held).op = held.op
          /\ NewTask(held).pc \in {"begin", "start"} /\ (NewTask(held).pc = "begin" <=> held.type = "Disconnect")
          /\ NoTask.pc = "none" /\ NoTask.kind = "none"
      BY DEF NewTask, NoTask
    <2>3. task'.pc # "none" => KindAgrees(task'.kind, task'.op)
      BY <2>1, <2>2 DEF KindKnown
    <2>4. TaskPhases'
      BY <2>1, <2>2 DEF TaskPhases, DisconnectPhases
    <2> QED  BY <1>1, <1>2, <2>1, <2>3, <2>4, CtlMoves, WorkerKinds DEF Numbered
  <1>4. CASE ~(CtlDisconnect \/ CtlStartSync)
    <2>1. cmds' = cmds \/ Taken
      BY <1>4, CtlMoves DEF CtlReap
    <2>2. held' # NoCmd => held' = held \/ (Taken /\ held' = Head(cmds) /\ Boundary(Head(cmds)))
      <3>1. CASE CtlBoundary
        BY <1>4, <3>1, CtlMoves DEF CtlBoundary, Received, Boundary, CtlReap
      <3> QED  BY <1>4, <3>1 DEF CtlStep, CtlCancel, CtlBackgroundSync, CtlFetchFolder, CtlShutdown, CtlReap
    <2>3. task' \in {task, NoTask}
      BY <1>4 DEF CtlStep, CtlCancel, CtlBackgroundSync, CtlFetchFolder, CtlBoundary, CtlShutdown, CtlReap
    <2>4. /\ task'.pc # "none" => KindAgrees(task'.kind, task'.op)
          /\ TaskPhases'
      BY <2>3 DEF NoTask, KindKnown, TaskPhases, DisconnectPhases
    <2>5. poll'.pc # "none" => poll'.id > 0
      <3>1. CASE CtlBackgroundSync
        <4>1. Head(cmds).type = "Poll" /\ 1 \in DOMAIN cmds /\ cmds[1] = Head(cmds)
          BY <3>1, Typed, Shortened DEF CtlBackgroundSync, Received, ShownInv, PollSessionInv
        <4>2. Head(cmds).op > 0
          BY <4>1 DEF Numbered
        <4>3. poll' = poll \/ poll'.id = Head(cmds).op
          <5>1. CASE poll.pc \in {"none", "finished"}
            BY <3>1, <5>1 DEF CtlBackgroundSync
          <5>2. CASE poll.pc \notin {"none", "finished"}
            BY <3>1, <5>2 DEF CtlBackgroundSync
          <5> QED  BY <5>1, <5>2
        <4> QED  BY <4>2, <4>3 DEF Numbered
      <3>2. CASE ~CtlBackgroundSync
        <4>1. poll' \in {poll, NoPoll}
          BY <1>4, <3>2 DEF CtlStep, CtlCancel, CtlFetchFolder, CtlBoundary, CtlShutdown, CtlReap
        <4> QED  BY <4>1 DEF NoPoll, Numbered
      <3> QED  BY <3>1, <3>2
    <2> QED  BY <1>1, <1>2, <2>1, <2>2, <2>4, <2>5, CtlMoves, WorkerKinds
  <1> QED  BY <1>3, <1>4

\* What a step of the task comes to: a Disconnect deletes the drafts, then the
\* mail, then the token.
LEMMA TaskMoves ==
  ASSUME TypeOK, TaskStep
  PROVE  /\ UNCHANGED <<uiVars, erased, cmds, held, poll, folder, fgate>>
         /\ task'.op = task.op /\ task'.kind = task.kind
         /\ task.pc \notin {"none", "finished"} /\ task'.pc # "none"
         /\ \A c \in closures' : c \in closures \/ (~c.inside /\ c.kind # "folder")
         /\ \/ task.pc \notin DisconnectPhases /\ task'.pc \notin DisconnectPhases
            \/ /\ task.pc \in DisconnectPhases /\ task'.acct = task.acct /\ UNCHANGED <<auth, mailbox, stray>>
               /\ keyring' \in {keyring, NoAccount} /\ drafts' \subseteq drafts
               /\ \/ task'.pc = "finished"
                  \/ task.pc = "begin" /\ task'.pc = "drafts"
                  \/ task.pc = "drafts" /\ task'.pc = "clear" /\ task.acct \notin drafts'
  <1>1. task \in Task /\ drafts \subseteq Accounts
    BY Typed DEF TypeOK
  <1>2. UNCHANGED <<uiVars, erased, cmds, held, poll, folder, fgate>>
    BY DEF TaskStep, TaskAcquireLane, ConnectListen, ConnectCallback, ConnectExchange,
           RestoreLoad, RestoreRefresh, RestoreIdentity, TaskVerified, TaskAuthorize, TaskMark, TaskSave,
           TaskFetch, TaskSynced, TaskCacheError, DisconnectBegin, DisconnectDrafts, DisconnectToken,
           NotTask, NotWorker
  <1>3. ASSUME NEW pc, Goto(pc)
        PROVE  task'.pc = pc /\ task'.op = task.op /\ task'.acct = task.acct /\ task'.kind = task.kind
    BY <1>1, <1>3 DEF Goto, Task
  <1>4. ASSUME NEW f, NEW k, FailTask(f, k)
        PROVE  task'.pc = "finished" /\ task'.op = task.op /\ task'.acct = task.acct /\ task'.kind = task.kind
    BY <1>3, <1>4 DEF FailTask
  <1>5. Finish => task'.pc = "finished" /\ task'.op = task.op /\ task'.acct = task.acct /\ task'.kind = task.kind
    BY <1>3 DEF Finish
  <1>6. ASSUME NEW kind \in {"prepare", "sync", "clear"}, NEW a,
               closures' = closures \cup {[kind |-> kind, acct |-> a, id |-> task.op, epoch |-> 0,
                                           live |-> TRUE, inside |-> FALSE]}
        PROVE  \A c \in closures' : c \in closures \/ (~c.inside /\ c.kind # "folder")
    BY <1>6
  <1>7. \A c \in closures' : c \in closures \/ (~c.inside /\ c.kind # "folder")
    <2>1. CASE UNCHANGED closures
      BY <2>1
    <2>2. CASE ConnectExchange
      BY <1>6, <2>1, <2>2 DEF ConnectExchange
    <2>3. CASE RestoreIdentity \/ TaskFetch \/ DisconnectDrafts
      BY <1>6, <2>1, <2>3 DEF RestoreIdentity, TaskFetch, DisconnectDrafts, Spawn
    <2>4. CASE ~(ConnectExchange \/ RestoreIdentity \/ TaskFetch \/ DisconnectDrafts)
      BY <2>1, <2>4 DEF TaskStep, TaskAcquireLane, ConnectListen, ConnectCallback, RestoreLoad, RestoreRefresh,
           TaskVerified, TaskAuthorize, TaskMark, TaskSave, TaskSynced, TaskCacheError, DisconnectBegin, DisconnectToken
    <2> QED  BY <2>2, <2>3, <2>4
  \* A sign-in:
  <1>8. CASE TaskAcquireLane \/ ConnectListen \/ ConnectCallback \/ RestoreRefresh \/ RestoreIdentity
             \/ TaskVerified \/ TaskMark \/ TaskFetch \/ TaskSynced
    <2>1. task.pc \in {"start", "config", "browser", "refresh", "identity", "verified", "mark", "fetch", "synced"}
      BY <1>8 DEF TaskAcquireLane, ConnectListen, ConnectCallback, RestoreRefresh, RestoreIdentity, TaskVerified,
                  TaskMark, TaskFetch, TaskSynced, At
    <2>2. \E pc \in {"config", "load", "browser", "exchange", "identity", "mark", "prepare", "authorize", "save",
                     "commit", "finished"} :
             task'.pc = pc /\ task'.op = task.op /\ task'.kind = task.kind
      BY <1>3, <1>4, <1>5, <1>8 DEF TaskAcquireLane, ConnectListen, ConnectCallback, RestoreRefresh, RestoreIdentity,
                  TaskVerified, TaskMark, TaskFetch, TaskSynced
    <2> QED  BY <1>2, <1>7, <2>1, <2>2 DEF DisconnectPhases
  <1>9. CASE ConnectExchange \/ RestoreLoad
    <2>1. ASSUME NEW a, NEW b, NEW pc \in {"prepare", "refresh"},
                 task' = [task EXCEPT !.pc = pc, !.acct = a] \/ task' = [task EXCEPT !.pc = pc, !.acct = a, !.cached = b]
          PROVE  task'.pc = pc /\ task'.op = task.op /\ task'.kind = task.kind
      BY <1>1, <2>1 DEF Task
    <2>2. task.pc \in {"exchange", "load"}
      BY <1>9 DEF ConnectExchange, RestoreLoad, At
    <2>3. task'.pc \in {"prepare", "refresh", "finished"} /\ task'.op = task.op /\ task'.kind = task.kind
      BY <1>4, <1>5, <1>9, <2>1 DEF ConnectExchange, RestoreLoad
    <2> QED  BY <1>2, <1>7, <2>2, <2>3 DEF DisconnectPhases
  <1>10. CASE TaskAuthorize \/ TaskSave
    <2>1. task.pc \in {"authorize", "save"}
      BY <1>10 DEF TaskAuthorize, TaskSave, At
    <2>2. task'.pc \in {"mark", "fetch", "identity", "finished"} /\ task'.op = task.op /\ task'.kind = task.kind
      <3>1. CASE TaskAuthorize
        BY <1>3, <1>4, <3>1 DEF TaskAuthorize
      <3>2. CASE TaskSave
        BY <1>3, <1>4, <3>2 DEF TaskSave
      <3> QED  BY <1>10, <3>1, <3>2
    <2> QED  BY <1>2, <1>7, <2>1, <2>2 DEF DisconnectPhases
  \* Disconnect:
  <1>11. CASE TaskCacheError
    <2>1. task.pc \in {"prepareErr", "commitErr", "clearErr"} /\ UNCHANGED <<auth, diskVars, stray>>
      BY <1>11 DEF TaskCacheError, At
    <2>2. task'.pc = "finished" /\ task'.op = task.op /\ task'.acct = task.acct /\ task'.kind = task.kind
      BY <1>4, <1>11 DEF TaskCacheError
    <2> QED  BY <1>2, <1>7, <2>1, <2>2 DEF DisconnectPhases, diskVars
  <1>12. CASE DisconnectBegin
    BY <1>2, <1>3, <1>7, <1>12 DEF DisconnectBegin, At, DisconnectPhases, diskVars
  <1>13. CASE DisconnectDrafts
    <2>1. task.pc = "drafts" /\ UNCHANGED <<auth, keyring, mailbox, stray>>
      BY <1>13 DEF DisconnectDrafts, At
    <2>2. CASE FailTask("cleanup", FALSE) /\ drafts' \in {drafts, drafts \ {task.acct}}
      BY <1>2, <1>4, <1>7, <2>1, <2>2 DEF DisconnectPhases
    <2>3. CASE Goto("clear") /\ drafts' = drafts \ {task.acct}
      BY <1>2, <1>3, <1>7, <2>1, <2>3 DEF DisconnectPhases
    <2> QED  BY <1>13, <2>2, <2>3 DEF DisconnectDrafts
  <1>14. CASE DisconnectToken
    BY <1>2, <1>4, <1>5, <1>7, <1>14 DEF DisconnectToken, At, DisconnectPhases
  <1> QED  BY <1>8, <1>9, <1>10, <1>11, <1>12, <1>13, <1>14 DEF TaskStep

LEMMA TaskStepKinds ==
  ASSUME CleanInv, TaskStep
  PROVE  KindKnown' /\ Numbered' /\ LeavingIsBlank' /\ TaskPhases'
  <1> USE DEF CleanInv
  <1>1. TypeOK
    BY DEF ShownInv, PollSessionInv
  <1>2. TaskPhases'
    BY <1>1, TaskMoves DEF TaskPhases, DisconnectPhases
  <1>3. \A i \in DOMAIN evts' :
            Old(i) \/ /\ Vouches(evts'[i]) => KindAgrees(evts'[i].type, evts'[i].op)
                      /\ evts'[i].type \in {"PollComplete", "FolderFailed"} => evts'[i].op > 0
    <2> SUFFICES ASSUME NEW i \in DOMAIN evts', TaskSays(evts'[i])
                 PROVE  /\ Vouches(evts'[i]) => KindAgrees(evts'[i].type, evts'[i].op)
                        /\ evts'[i].type \notin {"PollComplete", "FolderFailed"}
      BY <1>1, TaskSpeaks
    <2>1. task.pc # "none" /\ task.kind # "Disconnected"
      BY <1>1, TaskMoves, Typed DEF Task, BoundaryKinds, SyncKinds
    <2> QED  BY <2>1 DEF TaskSays, Vouches, Announces, KindKnown, KindAgrees, TaskPhases, DisconnectPhases
  <1>4. task'.pc # "none" => KindAgrees(task'.kind, task'.op)
    BY <1>1, TaskMoves DEF KindKnown
  <1>5. /\ UNCHANGED <<uiVars, cmds, held, poll>>
        /\ poll'.pc # "none" => poll'.id > 0
        /\ \A c \in closures' : c.kind = "folder" => c.id > 0
    BY <1>1, TaskMoves DEF Numbered
  <1> QED  BY <1>2, <1>3, <1>4, <1>5, WorkerKinds

LEMMA PollStepKinds ==
  ASSUME CleanInv, PollStep
  PROVE  KindKnown' /\ Numbered' /\ LeavingIsBlank' /\ TaskPhases'
  <1> USE DEF CleanInv
  <1>1. UNCHANGED <<uiVars, cmds, held, task>> /\ TypeOK /\ poll \in Poll
    BY DEF PollStep, PollAuth, PollRefresh, PollPermit, PollReplace, PollFetch, PollLane, PollPublish, NotPoll, NotWorker,
           ShownInv, PollSessionInv, TypeOK, WorkerTypeOK
  <1>2. poll'.id = poll.id /\ poll.pc # "none"
    <2>1. ASSUME NEW pc, PollGoto(pc) PROVE poll'.id = poll.id
      BY <1>1, <2>1 DEF PollGoto, Poll
    <2>2. \A k : PollFail(k) => poll'.id = poll.id
      BY <2>1 DEF PollFail
    <2> QED  BY <2>1, <2>2 DEF PollStep, PollAuth, PollRefresh, PollPermit, PollReplace, PollFetch, PollLane,
                               PollPublish, PollLeave, PollAt
  <1>3. \A c \in closures' : c.kind = "folder" => c.id > 0
    <2>1. CASE UNCHANGED closures
      BY <2>1 DEF Numbered
    <2>2. CASE closures' = closures \cup {[kind |-> "poll", acct |-> poll.acct, id |-> poll.id,
                                           epoch |-> poll.epoch, live |-> TRUE, inside |-> FALSE]}
      BY <2>2 DEF Numbered
    <2> QED  BY <2>1, <2>2
             DEF PollStep, PollAuth, PollRefresh, PollPermit, PollReplace, PollFetch, PollLane, PollPublish
  <1>4. poll'.pc # "none" => poll'.id > 0
    BY <1>2 DEF Numbered
  <1>5. \A i \in DOMAIN evts' :
            Old(i) \/ /\ Vouches(evts'[i]) => KindAgrees(evts'[i].type, evts'[i].op)
                      /\ evts'[i].type \in {"PollComplete", "FolderFailed"} => evts'[i].op > 0
    BY <1>1, <1>2, PollSays DEF Vouches, Announces, Numbered
  <1>6. (task'.pc # "none" => KindAgrees(task'.kind, task'.op)) /\ TaskPhases'
    BY <1>1 DEF KindKnown, TaskPhases
  <1> QED  BY <1>1, <1>3, <1>4, <1>5, <1>6, WorkerKinds

LEMMA FolderStepKinds ==
  ASSUME CleanInv, FolderStep
  PROVE  KindKnown' /\ Numbered' /\ LeavingIsBlank' /\ TaskPhases'
  <1> USE DEF CleanInv
  <1>1. UNCHANGED <<uiVars, cmds, held, task, poll>> /\ TypeOK
    BY DEF FolderStep, FolderCredentials, FolderLane, FolderFetch, FolderPublish, NotFolder, NotWorker,
           ShownInv, PollSessionInv
  <1>2. folder.id > 0
    BY DEF FolderStep, FolderCredentials, FolderLane, FolderFetch, FolderPublish, FolderAt, ShownInv, FoldersAsked, Asked
  <1>3. \A c \in closures' : c.kind = "folder" => c.id > 0
    <2>1. CASE UNCHANGED closures
      BY <2>1 DEF Numbered
    <2>2. CASE closures' = closures \cup {[kind |-> "folder", acct |-> folder.acct, id |-> folder.id,
                                           epoch |-> 0, live |-> TRUE, inside |-> FALSE]}
      BY <1>2, <2>2 DEF Numbered
    <2> QED  BY <2>1, <2>2 DEF FolderStep, FolderCredentials, FolderLane, FolderFetch, FolderPublish
  <1>4. \A i \in DOMAIN evts' :
            Old(i) \/ /\ Vouches(evts'[i]) => KindAgrees(evts'[i].type, evts'[i].op)
                      /\ evts'[i].type \in {"PollComplete", "FolderFailed"} => evts'[i].op > 0
    BY <1>1, <1>2, FolderSays DEF Vouches, Announces
  <1>5. /\ poll'.pc # "none" => poll'.id > 0
        /\ task'.pc # "none" => KindAgrees(task'.kind, task'.op)
        /\ TaskPhases'
    BY <1>1 DEF Numbered, KindKnown, TaskPhases
  <1> QED  BY <1>1, <1>3, <1>4, <1>5, WorkerKinds

\* What a closure's run comes to.  Once everything is still, a closure that nobody
\* waits for is let in by no gate, and leaves behind what is marked as stray.
LEMMA RunMoves ==
  ASSUME CleanInv, RunClosure
  PROVE  /\ UNCHANGED <<uiVars, erased, cmds, evts, held, auth, fgate, keyring, drafts>>
         /\ \A c \in closures' : \E d \in closures : c.kind = d.kind /\ c.id = d.id
         /\ task'.op = task.op /\ task'.kind = task.kind /\ task'.acct = task.acct
         /\ \/ task'.pc = task.pc
            \/ task.pc = "prepare" /\ task'.pc \in {"verified", "prepareErr"}
            \/ task.pc = "commit" /\ task'.pc \in {"synced", "commitErr"}
            \/ task.pc = "clear" /\ (task'.pc = "clearErr" \/ (task'.pc = "token" /\ Emptied'))
         /\ poll' = poll \/ (poll.pc = "commit" /\ poll'.id = poll.id)
         /\ folder' = folder \/ folder.pc = "commit"
         /\ Still /\ Emptied /\ task.pc # "commit" => Emptied'
  <1> USE DEF CleanInv, ShownInv, PollSessionInv
  <1>1. PICK c \in closures : RunPrepare(c) \/ RunSync(c) \/ RunClear(c) \/ EnterGated(c) \/ WriteGated(c)
    BY DEF RunClosure
  <1>2. /\ UNCHANGED <<uiVars, erased, cmds, evts, held, auth, fgate, keyring, drafts>>
        /\ task \in Task /\ poll \in Poll /\ folder \in Folder /\ c \in Closure /\ closures \subseteq Closure
    <2>1. UNCHANGED <<uiVars, erased, cmds, evts, held, auth, fgate, keyring, drafts>>
      BY <1>1 DEF RunPrepare, RunSync, RunClear, EnterGated, WriteGated, NotClosure, NotWorker
    <2> QED  BY <2>1 DEF TypeOK, WorkerTypeOK
  <1>3. CASE RunPrepare(c) \/ RunSync(c) \/ RunClear(c)
    <2>1. /\ closures' = closures \ {c} /\ \A d \in closures : ~d.inside
          /\ UNCHANGED <<poll, folder>> /\ c.kind \in {"prepare", "sync", "clear"}
      BY <1>3 DEF RunPrepare, RunSync, RunClear, Leave, Runnable, IoFree
    <2>2. c.live => task.pc = WaitsAt(c.kind)
      BY <2>1 DEF TaskHoldsLane, Awaited, TaskClosures
    <2>3. ASSUME NEW pc, WakeTask(c, pc)
          PROVE  /\ task'.op = task.op /\ task'.kind = task.kind /\ task'.acct = task.acct
                 /\ task'.pc = IF c.live THEN pc ELSE task.pc
      BY <1>2, <2>3 DEF WakeTask, Task
    <2>4. CASE RunPrepare(c)
      <3>1. c.live => task.pc = "prepare"
        BY <2>2, <2>4 DEF RunPrepare, Runnable, WaitsAt
      <3>2. Emptied => Emptied'
        BY <2>1, <2>4 DEF RunPrepare, Emptied
      <3>3. /\ task'.op = task.op /\ task'.kind = task.kind /\ task'.acct = task.acct
            /\ task'.pc = task.pc \/ (c.live /\ task'.pc \in {"verified", "prepareErr"})
        BY <2>3, <2>4 DEF RunPrepare
      <3> QED  BY <1>2, <2>1, <3>1, <3>2, <3>3
    <2>5. CASE RunSync(c)
      <3>1. c.live => task.pc = "commit"
        BY <2>2, <2>5 DEF RunSync, Runnable, WaitsAt
      <3>2. Emptied /\ task.pc # "commit" => Emptied'
        BY <2>1, <2>5, <3>1 DEF RunSync, Emptied
      <3>3. /\ task'.op = task.op /\ task'.kind = task.kind /\ task'.acct = task.acct
            /\ task'.pc = task.pc \/ (c.live /\ task'.pc \in {"synced", "commitErr"})
        BY <2>3, <2>5 DEF RunSync
      <3> QED  BY <1>2, <2>1, <3>1, <3>2, <3>3
    <2>6. CASE RunClear(c)
      <3>1. c.live => task.pc = "clear"
        BY <2>2, <2>6 DEF RunClear, Runnable, WaitsAt
      <3>2. Emptied => Emptied'
        BY <2>1, <2>6 DEF RunClear, Emptied
      <3>3. CASE WakeTask(c, "token") /\ mailbox' = NoAccount
        <4>1. Emptied'
          BY <2>1, <3>3 DEF Emptied
        <4> QED  BY <1>2, <2>1, <2>3, <3>1, <3>2, <3>3, <4>1
      <3>4. CASE WakeTask(c, "clearErr")
        BY <1>2, <2>1, <2>3, <3>1, <3>2, <3>4
      <3> QED  BY <2>6, <3>3, <3>4 DEF RunClear
    <2> QED  BY <1>3, <2>4, <2>5, <2>6
  <1>4. ASSUME NEW pc, WakeOwner(c, pc)
        PROVE  /\ poll' = poll \/ (poll.pc = "commit" /\ poll'.id = poll.id)
               /\ folder' = folder \/ folder.pc = "commit"
    <2>1. c.live /\ c.kind = "poll" => poll.pc = "commit"
      BY DEF PollHoldsLane, CurrentPoll
    <2>2. c.live /\ c.kind = "folder" => folder.pc = "commit"
      BY DEF FolderWaits, FolderCloses
    <2> QED  BY <1>2, <1>4, <2>1, <2>2 DEF WakeOwner, Poll
  <1>5. CASE EnterGated(c)
    <2>1. UNCHANGED <<task, mailbox, stray>> /\ c.kind \in {"poll", "folder"}
      BY <1>5 DEF EnterGated, Runnable
    <2>2. CASE Admitted(c)
      <3>1. PICK e : e = [c EXCEPT !.inside = TRUE]
        OBVIOUS
      <3>2. closures' = (closures \ {c}) \cup {e} /\ UNCHANGED <<poll, folder>> /\ e.kind = c.kind /\ e.id = c.id
        BY <1>2, <1>5, <2>2, <3>1 DEF EnterGated, Closure
      \* A poll's closure of this epoch has a poll, and no folder request is admitted.
      <3>3. ~Still
        <4>1. CASE c.kind = "poll"
          BY <2>2, <4>1 DEF Admitted, PollHoldsLane, CurrentPoll, Still, NoPoll
        <4>2. CASE c.kind = "folder"
          <5>1. c.id > 0 /\ c.id \in Nat
            BY <1>2, <4>2 DEF Numbered, Closure
          <5> QED  BY <2>2, <4>2, <5>1 DEF Admitted, Still
        <4> QED  BY <2>1, <4>1, <4>2
      <3> QED  BY <1>2, <2>1, <3>2, <3>3
    <2>3. CASE ~Admitted(c)
      <3>1. closures' = closures \ {c} /\ WakeOwner(c, "stale")
        BY <1>5, <2>3 DEF EnterGated, Leave
      <3>2. Emptied => Emptied'
        BY <2>1, <3>1 DEF Emptied
      <3> QED  BY <1>2, <1>4, <2>1, <3>1, <3>2
    <2> QED  BY <2>2, <2>3
  <1>6. CASE WriteGated(c)
    <2>1. c.inside /\ closures' = closures \ {c} /\ UNCHANGED task
      BY <1>6 DEF WriteGated, Leave
    <2>2. \E pc : WakeOwner(c, pc)
      BY <1>6 DEF WriteGated
    <2> QED  BY <1>2, <1>4, <2>1, <2>2 DEF Emptied
  <1> QED  BY <1>1, <1>3, <1>5, <1>6

LEMMA RunClosureKinds ==
  ASSUME CleanInv, RunClosure
  PROVE  KindKnown' /\ Numbered' /\ LeavingIsBlank' /\ TaskPhases'
  <1> USE DEF CleanInv
  <1>1. \A i \in DOMAIN evts' : Old(i)
    BY RunMoves DEF Old
  <1>2. /\ task'.pc # "none" => KindAgrees(task'.kind, task'.op)
        /\ poll'.pc # "none" => poll'.id > 0
        /\ \A c \in closures' : c.kind = "folder" => c.id > 0
    BY RunMoves DEF KindKnown, Numbered
  <1>3. TaskPhases'
    BY RunMoves DEF TaskPhases, DisconnectPhases
  <1> QED  BY <1>1, <1>2, <1>3, RunMoves, WorkerKinds

-----------------------------------------------------------------------------
(* From the command to the answer *)

LEMMA UiStepLeaving ==
  ASSUME CleanInv, UiStep
  PROVE  LeavingLast'
  <1> USE DEF CleanInv
  <1>1. /\ UNCHANGED <<evts, held, task, poll, folder, fgate, auth, closures, keyring, mailbox, drafts, stray>>
        /\ Requests \/ Quits \/ Begins \/ Withdraws
    BY PersonSteps
  <1>2. cmds \in Seq(Command)
    BY Typed DEF ShownInv, PollSessionInv
  \* Whoever asks for mail waits for no Disconnect, and a new operation is not known yet.
  <1>3. CASE Requests \/ Begins \/ Withdraws
    <2>1. /\ \A i \in DOMAIN cmds : ~(cmds[i].type = "Disconnect" /\ cmds[i].op = activeOp')
          /\ ~(held.type = "Disconnect" /\ held.op = activeOp')
          /\ ~(task.kind = "Disconnect" /\ task.op = activeOp' /\ task.pc # "none")
          /\ \A i \in DOMAIN evts : ~(evts[i].type = "Disconnected" /\ evts[i].op = activeOp')
      <3>1. CASE Requests
        <4>1. ~(activeOp # 0 /\ recovery = "Disconnect") /\ activeOp' = activeOp
          BY <3>1 DEF Requests, LeavingIsBlank, Blank
        <4>2. \A i \in DOMAIN cmds : cmds[i].type = "Disconnect" => Boundary(cmds[i])
          BY DEF Boundary, BoundaryKinds
        <4>3. held.type = "Disconnect" => held # NoCmd
          BY DEF NoCmd, Cmd
        <4> QED  BY <4>1, <4>2, <4>3, OpsKnown DEF KindKnown, KindAgrees, Vouches
      <3>2. CASE Begins \/ Withdraws
        <4>1. activeOp' \in {0, nextOp}
          BY <3>2 DEF Begins, Withdraws
        <4>2. \A i \in DOMAIN cmds : cmds[i].type = "Disconnect" => Boundary(cmds[i])
          BY DEF Boundary, BoundaryKinds
        <4>3. held.type = "Disconnect" => held # NoCmd
          BY DEF NoCmd, Cmd
        <4> QED  BY <4>1, <4>2, <4>3, OpsKnown DEF Vouches
      <3> QED  BY <1>3, <3>1, <3>2
    <2>2. UNCHANGED cmds \/ \E c : cmds' = Append(cmds, c)
      BY <1>3 DEF Requests, Begins, Withdraws
    <2>3. \A i, j \in DOMAIN cmds' : i < j => i \in DOMAIN cmds /\ cmds'[i] = cmds[i]
      BY <1>2, <2>2, Appended
    <2> QED  BY <1>1, <2>1, <2>3 DEF LeavingLast, CmdsLeave, Leaves, HeldLeaves, TaskLeavesLast, TaskLeaves,
                                     ConfirmedLast, Confirms
  <1>4. CASE Quits
    <2>1. PICK c : cmds' = Append(cmds, c) /\ c.type = "Shutdown"
      BY <1>4 DEF Quits
    <2>2. /\ activeOp' = activeOp
          /\ \A i \in DOMAIN cmds' : (i \in DOMAIN cmds /\ cmds'[i] = cmds[i]) \/ cmds'[i].type = "Shutdown"
      BY <1>2, <1>4, <2>1, Appended DEF Quits, uiVars
    <2>3. Hushed => Hushed'
      BY <2>2 DEF Hushed
    <2>4. CmdsLeave'
      BY <2>2 DEF LeavingLast, CmdsLeave, Leaves
    <2> QED  BY <1>1, <2>2, <2>3, <2>4 DEF LeavingLast, Leaves, HeldLeaves, TaskLeavesLast, TaskLeaves,
                                     ConfirmedLast, Confirms, Confirmed, Still, Emptied
  <1> QED  BY <1>1, <1>3, <1>4

LEMMA UiEventLeaving ==
  ASSUME CleanInv, UiEvent
  PROVE  LeavingLast'
  <1> USE DEF CleanInv
  <1>1. /\ UNCHANGED <<cmds, held, task, poll, folder, fgate, auth, closures, keyring, mailbox, drafts, stray>>
        /\ evts # <<>> /\ evts' = Tail(evts)
        /\ activeOp' \in {activeOp, 0}
    BY WindowSteps DEF Shrugs, Names, Brings, Ends, Leaving
  <1>2. \A i \in DOMAIN evts' : i + 1 \in DOMAIN evts /\ evts'[i] = evts[i + 1]
    BY <1>1, Typed, Shortened DEF ShownInv, PollSessionInv
  <1>3. CASE activeOp' = activeOp
    BY <1>1, <1>2, <1>3 DEF LeavingLast, CmdsLeave, Leaves, HeldLeaves, TaskLeavesLast, TaskLeaves,
                            ConfirmedLast, Confirms, Confirmed, Still, Emptied, Hushed
  <1>4. CASE activeOp' = 0
    <2>1. \A i \in DOMAIN cmds : cmds[i].type = "Disconnect" => Boundary(cmds[i])
      BY DEF Boundary, BoundaryKinds
    <2>2. held.type = "Disconnect" => held # NoCmd
      BY DEF NoCmd, Cmd
    <2>3. /\ \A i \in DOMAIN cmds : ~(cmds[i].type = "Disconnect" /\ cmds[i].op = 0)
          /\ ~(held.type = "Disconnect" /\ held.op = 0)
          /\ ~(task.kind = "Disconnect" /\ task.op = 0 /\ task.pc # "none")
          /\ \A i \in DOMAIN evts : ~(evts[i].type = "Disconnected" /\ evts[i].op = 0)
      BY <2>1, <2>2, OpsKnown DEF Vouches
    <2> QED  BY <1>1, <1>2, <1>4, <2>3 DEF LeavingLast, CmdsLeave, Leaves, HeldLeaves, TaskLeavesLast, TaskLeaves,
                                     ConfirmedLast, Confirms
  <1> QED  BY <1>1, <1>3, <1>4

\* A controller that is told nothing but to shut down.
LEMMA HushedCtl ==
  ASSUME CleanInv, CtlStep, Hushed, held = NoCmd
  PROVE  /\ CtlShutdown \/ CtlReap
         /\ Hushed' /\ held' = NoCmd
         /\ Still => Still'
         /\ Emptied => Emptied'
         /\ task' = NoTask
  <1> USE DEF CleanInv
  <1>1. NoCmd.type = "none"
    BY DEF NoCmd, Cmd
  <1>2. ~(CtlDisconnect \/ CtlStartSync)
    BY <1>1 DEF CtlDisconnect, CtlStartSync, SyncKinds
  <1>3. CtlReap \/ (1 \in DOMAIN cmds /\ cmds[1] = Head(cmds))
    BY <1>2, CtlMoves
  <1>4. CtlShutdown \/ CtlReap
    <2>1. ~CtlReap => Head(cmds).type = "Shutdown"
      BY <1>3 DEF Hushed
    <2> QED  BY <1>2, <2>1, CtlMoves
             DEF CtlCancel, CtlBackgroundSync, CtlFetchFolder, CtlBoundary, Received, BoundaryKinds, SyncKinds
  <1>5. Hushed'
    <2>1. CASE CtlReap
      BY <2>1 DEF Hushed, CtlReap
    <2>2. CASE ~CtlReap
      <3>1. \A i \in DOMAIN cmds' : i + 1 \in DOMAIN cmds /\ cmds'[i] = cmds[i + 1]
        BY <1>2, <2>2, CtlMoves
      <3> QED  BY <3>1 DEF Hushed
    <2> QED  BY <2>1, <2>2
  <1>6. held' = NoCmd /\ task' = NoTask /\ (Still => Still')
    BY <1>4 DEF CtlShutdown, CtlReap, Still
  <1>7. Emptied => Emptied'
    BY CtlMoves DEF Emptied
  <1> QED  BY <1>4, <1>5, <1>6, <1>7

LEMMA CtlStepLeaving ==
  ASSUME CleanInv, CtlStep
  PROVE  LeavingLast'
  <1> USE DEF CleanInv
  <1>1. activeOp' = activeOp /\ keyring' \in {keyring, NoAccount} /\ drafts' = drafts
    BY CtlMoves DEF uiVars
  <1>2. NoCmd.type = "none" /\ NoTask.kind = "none" /\ NoTask.pc = "none"
    BY DEF NoCmd, Cmd, NoTask
  <1>3. CmdsLeave'
    <2>1. CASE UNCHANGED cmds
      BY <1>1, <2>1 DEF LeavingLast, CmdsLeave, Leaves
    <2>2. CASE \A i \in DOMAIN cmds' : i + 1 \in DOMAIN cmds /\ cmds'[i] = cmds[i + 1]
      <3>1. \A i \in DOMAIN cmds' : i \in Nat
        BY StepType, Typed DEF ShownInv, PollSessionInv, Next, TypeOK
      <3> QED  BY <1>1, <2>2, <3>1 DEF LeavingLast, CmdsLeave, Leaves
    <2> QED  BY <2>1, <2>2, CtlMoves DEF CtlDisconnect, CtlStartSync, CtlReap
  <1>4. HeldLeaves'
    <2>1. CASE CtlBoundary
      <3>1. held' = cmds[1] /\ poll' = NoPoll /\ 1 \in DOMAIN cmds
            /\ \A i \in DOMAIN cmds' : i > 0 /\ i + 1 \in DOMAIN cmds /\ cmds'[i] = cmds[i + 1]
        BY <2>1, <1>2, CtlMoves DEF CtlBoundary, CtlDisconnect, CtlStartSync, CtlReap, Received, SyncKinds
      <3>2. \A i \in DOMAIN cmds' : 1 < i + 1
        <4>1. \A i \in DOMAIN cmds' : i \in Nat
          BY StepType DEF ShownInv, PollSessionInv, Next, TypeOK
        <4> QED  BY <3>1, <4>1
      <3> QED  BY <1>1, <3>1, <3>2 DEF LeavingLast, CmdsLeave, Leaves, HeldLeaves, Hushed
    <2>2. CASE ~CtlBoundary
      <3>1. held' = NoCmd \/ (held # NoCmd /\ UNCHANGED <<held, cmds, poll>>)
        BY <2>2 DEF CtlStep, CtlCancel, CtlBackgroundSync, CtlFetchFolder, CtlDisconnect, CtlStartSync,
                    CtlShutdown, CtlReap, Received
      <3> QED  BY <1>1, <1>2, <3>1 DEF LeavingLast, HeldLeaves, Leaves, Hushed
    <2> QED  BY <2>1, <2>2
  <1>5. TaskLeavesLast'
    <2>1. CASE CtlDisconnect
      <3>1. /\ cmds' = cmds /\ poll' = poll /\ held' = NoCmd /\ task' = NewTask(held)
            /\ fgate' = 0 /\ auth' = NoAccount /\ folder' = NoFolder
        BY <2>1 DEF CtlDisconnect
      <3>2. NewTask(held).kind = held.type /\ NewTask(held).op = held.op /\ NewTask(held).pc \in {"begin", "start"}
        BY DEF NewTask
      <3>3. TaskLeaves' => Leaves(held) /\ task'.pc = "begin"
        BY <1>1, <3>1, <3>2 DEF TaskLeaves, Leaves
      <3> QED  BY <3>1, <3>3 DEF LeavingLast, HeldLeaves, TaskLeavesLast, Hushed, Still
    <2>2. CASE CtlStartSync
      <3>1. task' \in {NoTask, NewTask(held)} /\ held.type # "Disconnect"
        BY <2>2 DEF CtlStartSync, SyncKinds
      <3>2. NewTask(held).kind = held.type
        BY DEF NewTask
      <3> QED  BY <1>2, <3>1, <3>2 DEF TaskLeavesLast, TaskLeaves
    <2>3. CASE ~(CtlDisconnect \/ CtlStartSync)
      <3>1. task' \in {task, NoTask}
        BY <2>3 DEF CtlStep, CtlCancel, CtlBackgroundSync, CtlFetchFolder, CtlBoundary, CtlShutdown, CtlReap
      <3>2. TaskLeaves' => TaskLeaves /\ task' = task
        BY <1>1, <1>2, <3>1 DEF TaskLeaves
      \* A task that leaves is not interrupted but by a shutdown.
      <3>3. TaskLeaves => task' = NoTask
        BY HushedCtl DEF LeavingLast, TaskLeavesLast
      <3> QED  BY <1>2, <3>2, <3>3 DEF TaskLeavesLast, TaskLeaves
    <2> QED  BY <2>1, <2>2, <2>3
  <1>6. ConfirmedLast'
    <2> SUFFICES ASSUME NEW i \in DOMAIN evts', evts'[i].type = "Disconnected", evts'[i].op = activeOp
                 PROVE  Confirmed(evts[i].acct)'
      BY <1>1 DEF ConfirmedLast, Confirms
    <2>1. i \in DOMAIN evts /\ evts'[i] = evts[i]
      BY CtlSays DEF Old, ShownInv, PollSessionInv
    <2>2. PICK a : a = evts[i].acct
      OBVIOUS
    <2>3. Confirmed(a)
      BY <2>1, <2>2 DEF LeavingLast, ConfirmedLast, Confirms
    <2>4. Confirmed(a)'
      BY <1>1, <1>2, <2>3, HushedCtl DEF Confirmed
    <2> QED  BY <2>1, <2>2, <2>4 DEF Confirmed
  <1> QED  BY <1>3, <1>4, <1>5, <1>6 DEF LeavingLast

\* A Disconnect under way sees to it that nothing is left, and stays the last.
LEMMA TaskStepLeaving ==
  ASSUME CleanInv, TaskStep
  PROVE  LeavingLast'
  <1> USE DEF CleanInv
  <1>1. TypeOK
    BY DEF ShownInv, PollSessionInv
  <1>2. UNCHANGED <<activeOp, cmds, held, poll, folder, fgate>>
    BY <1>1, TaskMoves DEF uiVars
  <1>3. CmdsLeave' /\ HeldLeaves'
    BY <1>2 DEF LeavingLast, CmdsLeave, HeldLeaves, Leaves, Hushed
  <1>4. TaskLeavesLast'
    <2> SUFFICES ASSUME TaskLeaves' PROVE TaskLeavesLast'
      BY DEF TaskLeavesLast
    <2>1. /\ task'.kind = task.kind /\ task'.op = task.op /\ task'.acct = task.acct
          /\ UNCHANGED <<auth, mailbox, stray>> /\ drafts' \subseteq drafts
          /\ \/ task.pc = "begin" /\ task'.pc = "drafts"
             \/ task.pc = "drafts" /\ task'.pc = "clear" /\ task.acct \notin drafts'
      BY <1>1, TaskMoves DEF TaskLeaves, DisconnectPhases
    <2>2. TaskLeaves
      BY <1>2, <2>1 DEF TaskLeaves
    <2> QED  BY <1>2, <2>1, <2>2 DEF LeavingLast, TaskLeavesLast, Hushed, Still
  <1>5. ConfirmedLast'
    <2> SUFFICES ASSUME NEW i \in DOMAIN evts', evts'[i].type = "Disconnected", evts'[i].op = activeOp
                 PROVE  Confirmed(evts[i].acct)'
      BY <1>2 DEF ConfirmedLast, Confirms
    \* Nothing has been confirmed before.
    <2>1. ~Old(i)
      <3>1. task.pc \notin {"none", "finished"}
        BY <1>1, TaskMoves
      <3> QED  BY <3>1 DEF LeavingLast, ConfirmedLast, Confirms, Confirmed, Old
    <2>2. TaskSays(evts'[i])
      BY <1>1, <2>1, TaskSpeaks
    <2>3. evts'[i].acct = task.acct /\ task.op = activeOp /\ task.pc = "token" /\ keyring' = NoAccount
      BY <2>2 DEF TaskSays, Announces
    <2>4. task'.pc = "finished"
      BY <1>1, <2>3, TaskMoves DEF DisconnectPhases
    <2>5. TaskLeaves
      BY <2>3 DEF TaskLeaves, TaskPhases, DisconnectPhases
    <2>6. /\ UNCHANGED <<auth, mailbox, stray>> /\ drafts' \subseteq drafts
          /\ \A c \in closures' : c \in closures \/ ~c.inside
      BY <1>1, <2>3, TaskMoves DEF DisconnectPhases
    <2>7. Hushed' /\ held' = NoCmd /\ Still' /\ Emptied' /\ task.acct \notin drafts'
      BY <1>2, <2>3, <2>5, <2>6 DEF LeavingLast, TaskLeavesLast, Hushed, Still, Emptied
    <2> QED  BY <2>3, <2>4, <2>7 DEF Confirmed
  <1> QED  BY <1>3, <1>4, <1>5 DEF LeavingLast

\* Polls and folder requests are over before a Disconnect is taken up.
LEMMA PollStepLeaving ==
  ASSUME CleanInv, PollStep
  PROVE  LeavingLast'
  <1> USE DEF CleanInv
  <1>1. UNCHANGED <<activeOp, cmds, held, task>> /\ TypeOK
    BY DEF PollStep, PollAuth, PollRefresh, PollPermit, PollReplace, PollFetch, PollLane, PollPublish, NotPoll, NotWorker,
           uiVars, ShownInv, PollSessionInv
  <1>2. poll # NoPoll
    <2>1. poll.pc # "none"
      BY DEF PollStep, PollAuth, PollRefresh, PollPermit, PollReplace, PollFetch, PollLane, PollPublish, PollAt
    <2> QED  BY <2>1 DEF NoPoll
  <1>3. ~Leaves(held) /\ ~TaskLeaves /\ \A i \in DOMAIN evts : ~Confirms(evts[i])
    BY <1>2 DEF LeavingLast, HeldLeaves, TaskLeavesLast, ConfirmedLast, Confirmed, Still
  <1>4. \A i \in DOMAIN evts' : evts'[i].type = "Disconnected" => i \in DOMAIN evts /\ evts'[i] = evts[i]
    BY <1>1, PollSays DEF Old
  <1> QED  BY <1>1, <1>3, <1>4 DEF LeavingLast, CmdsLeave, HeldLeaves, TaskLeavesLast, ConfirmedLast, Leaves,
                                   TaskLeaves, Confirms

LEMMA FolderStepLeaving ==
  ASSUME CleanInv, FolderStep
  PROVE  LeavingLast'
  <1> USE DEF CleanInv
  <1>1. UNCHANGED <<activeOp, cmds, held, task, poll>> /\ TypeOK
    BY DEF FolderStep, FolderCredentials, FolderLane, FolderFetch, FolderPublish, NotFolder, NotWorker,
           uiVars, ShownInv, PollSessionInv
  <1>2. folder # NoFolder
    <2>1. folder.pc # "none"
      BY DEF FolderStep, FolderCredentials, FolderLane, FolderFetch, FolderPublish, FolderAt
    <2> QED  BY <2>1 DEF NoFolder
  <1>3. ~TaskLeaves /\ \A i \in DOMAIN evts : ~Confirms(evts[i])
    BY <1>2 DEF LeavingLast, TaskLeavesLast, ConfirmedLast, Confirmed, Still
  <1>4. \A i \in DOMAIN evts' : evts'[i].type = "Disconnected" => i \in DOMAIN evts /\ evts'[i] = evts[i]
    BY <1>1, FolderSays DEF Old
  <1> QED  BY <1>1, <1>3, <1>4 DEF LeavingLast, CmdsLeave, HeldLeaves, TaskLeavesLast, ConfirmedLast, Leaves,
                                   TaskLeaves, Confirms, Hushed

LEMMA RunClosureLeaving ==
  ASSUME CleanInv, RunClosure
  PROVE  LeavingLast'
  <1> USE DEF CleanInv
  <1>1. UNCHANGED <<activeOp, cmds, evts, held, auth, fgate, keyring, drafts>>
    BY RunMoves DEF uiVars
  <1>2. CmdsLeave'
    BY <1>1 DEF LeavingLast, CmdsLeave, Leaves
  <1>3. /\ poll = NoPoll => poll' = NoPoll
        /\ Still => Still'
    BY <1>1, RunMoves DEF NoPoll, NoFolder, Still
  <1>4. HeldLeaves'
    BY <1>1, <1>3 DEF LeavingLast, HeldLeaves, Leaves, Hushed
  <1>5. TaskLeavesLast'
    <2> SUFFICES ASSUME TaskLeaves' PROVE TaskLeavesLast'
      BY DEF TaskLeavesLast
    <2>1. /\ task'.kind = "Disconnect" /\ task'.kind = task.kind /\ task'.op = task.op /\ task'.acct = task.acct
          /\ task'.pc \in {"begin", "drafts", "clear", "token"}
      BY RunMoves DEF TaskLeaves
    <2>2. task.pc \in DisconnectPhases \cup {"finished"}
      BY <2>1 DEF TaskPhases
    <2>3. task'.pc = task.pc \/ (task.pc = "clear" /\ task'.pc = "token" /\ Emptied')
      BY <2>1, <2>2, RunMoves DEF DisconnectPhases
    <2>4. TaskLeaves
      BY <1>1, <2>1, <2>3 DEF TaskLeaves
    <2>5. task'.pc = "token" => Emptied'
      BY <2>3, <2>4, RunMoves DEF LeavingLast, TaskLeavesLast
    <2> QED  BY <1>1, <1>3, <2>1, <2>3, <2>4, <2>5 DEF LeavingLast, TaskLeavesLast, Hushed
  <1>6. ConfirmedLast'
    <2> SUFFICES ASSUME NEW i \in DOMAIN evts', Confirms(evts[i])' PROVE Confirmed(evts[i].acct)'
      BY DEF ConfirmedLast
    <2>1. i \in DOMAIN evts /\ evts'[i] = evts[i] /\ Confirms(evts[i])
      BY <1>1 DEF Confirms
    <2>2. Confirmed(evts[i].acct)
      BY <2>1 DEF LeavingLast, ConfirmedLast
    <2>3. task'.pc = task.pc
      BY <2>2, RunMoves DEF Confirmed
    <2>4. Emptied'
      BY <2>2, RunMoves DEF Confirmed
    <2> QED  BY <1>1, <1>3, <2>1, <2>2, <2>3, <2>4 DEF Confirmed, Hushed
  <1> QED  BY <1>2, <1>4, <1>5, <1>6 DEF LeavingLast

-----------------------------------------------------------------------------
(* After the answer *)

LEMMA UiStepSigned ==
  ASSUME CleanInv, UiStep
  PROVE  SignedOutStays'
  <1> USE DEF CleanInv
  <1>1. /\ UNCHANGED <<evts, held, task, poll, folder, fgate, auth, closures, keyring, mailbox, drafts, stray>>
        /\ Requests \/ Quits \/ Begins \/ Withdraws
    BY PersonSteps
  <1> SUFFICES ASSUME erased' # NoAccount PROVE SignedOutStays'
    BY DEF SignedOutStays
  <1>2. erased' = erased /\ SignedOutStays
    BY <1>1 DEF Requests, Quits, Begins, Withdraws
  <1>3. ~Requests
    BY <1>2 DEF SignedOutStays, Blank, Requests
  <1>4. Blank'
    BY <1>1, <1>2, <1>3 DEF SignedOutStays, Blank, Quits, Begins, Withdraws, uiVars
  <1>5. UNCHANGED cmds \/ \E c : cmds' = Append(cmds, c) /\ c.type \notin {"Connect", "Poll", "Folder"}
    BY <1>1, <1>2, <1>3 DEF Quits, Begins, Withdraws, BoundaryKinds, SyncKinds
  <1>6. \A i \in DOMAIN cmds' : cmds'[i].type \notin {"Connect", "Poll", "Folder"}
    <2>1. cmds \in Seq(Command)
      BY Typed DEF ShownInv, PollSessionInv
    <2>2. ASSUME NEW c, cmds' = Append(cmds, c), NEW i \in DOMAIN cmds'
          PROVE  (i \in DOMAIN cmds /\ cmds'[i] = cmds[i]) \/ cmds'[i] = c
      BY <2>1, <2>2, Appended
    <2> QED  BY <1>2, <1>5, <2>2 DEF SignedOutStays
  <1>7. \A i \in DOMAIN evts' : Announces(evts'[i]) => evts'[i].op # activeOp'
    <2>1. activeOp' = activeOp \/ activeOp' \in {0, nextOp}
      BY <1>1, <1>3 DEF Quits, Begins, Withdraws, uiVars
    <2> QED  BY <1>1, <1>2, <2>1, OpsKnown DEF SignedOutStays, Vouches
  <1> QED  BY <1>1, <1>2, <1>4, <1>6, <1>7 DEF SignedOutStays, Still, Emptied, TaskIsIdle

LEMMA UiEventSigned ==
  ASSUME CleanInv, UiEvent
  PROVE  SignedOutStays'
  <1> USE DEF CleanInv
  <1>1. /\ UNCHANGED <<cmds, held, task, poll, folder, fgate, auth, closures, keyring, mailbox, drafts, stray>>
        /\ evts # <<>> /\ evts' = Tail(evts)
        /\ Shrugs \/ Names \/ Brings \/ Ends \/ Leaving
    BY WindowSteps
  <1>2. /\ 1 \in DOMAIN evts /\ evts[1] = Head(evts)
        /\ \A i \in DOMAIN evts' : i + 1 \in DOMAIN evts /\ evts'[i] = evts[i + 1]
    BY <1>1, Typed, Shortened DEF ShownInv, PollSessionInv
  <1> SUFFICES ASSUME erased' # NoAccount PROVE SignedOutStays'
    BY DEF SignedOutStays
  \* The answer finds everything as the Disconnect left it.
  <1>3. CASE Leaving
    <2>1. Confirmed(Head(evts).acct)
      BY <1>2, <1>3 DEF Leaving, LeavingLast, ConfirmedLast
    <2>2. \A i \in DOMAIN evts' : Announces(evts'[i]) => evts'[i].op # 0
      BY <1>2, OpsKnown DEF Vouches
    <2>3. NoCmd.type = "none"
      BY DEF NoCmd, Cmd
    <2>4. Still' /\ Emptied' /\ Blank' /\ TaskIsIdle' /\ Hushed'
      BY <1>1, <1>3, <2>1 DEF Confirmed, Leaving, Still, Emptied, Blank, TaskIsIdle, Hushed
    <2> QED  BY <1>1, <1>3, <2>1, <2>2, <2>3, <2>4 DEF Confirmed, Leaving, SignedOutStays, Hushed
  <1>4. CASE ~Leaving
    <2>1. erased' = erased /\ SignedOutStays /\ activeOp' \in {activeOp, 0}
      BY <1>1, <1>4 DEF Shrugs, Names, Brings, Ends
    <2>2. Blank /\ ~(Announces(Head(evts)) /\ Head(evts).op = activeOp)
      BY <1>2, <2>1 DEF SignedOutStays
    <2>3. Blank'
      BY <1>1, <1>4, <2>2, BroughtToNobody DEF Shrugs, Names, Ends, Blank
    <2>4. \A i \in DOMAIN evts' : Announces(evts'[i]) => evts'[i].op # activeOp'
      BY <1>2, <2>1, OpsKnown DEF SignedOutStays, Vouches
    <2> QED  BY <1>1, <2>1, <2>3, <2>4 DEF SignedOutStays, Still, Emptied, TaskIsIdle
  <1> QED  BY <1>3, <1>4

LEMMA CtlStepSigned ==
  ASSUME CleanInv, CtlStep
  PROVE  SignedOutStays'
  <1> USE DEF CleanInv
  <1>1. /\ UNCHANGED <<uiVars, erased, mailbox, drafts, stray>> /\ keyring' \in {keyring, NoAccount}
        /\ Emptied => Emptied'
    BY CtlMoves DEF Emptied
  <1> SUFFICES ASSUME erased' # NoAccount PROVE SignedOutStays'
    BY DEF SignedOutStays
  <1>2. erased' = erased /\ SignedOutStays /\ erased # NoAccount /\ UNCHANGED <<activeOp, shown, uiPoll, uiFolder>>
    BY <1>1 DEF uiVars
  <1>3. ~(CtlBackgroundSync \/ CtlFetchFolder)
    <2>1. cmds # <<>> => 1 \in DOMAIN cmds /\ cmds[1] = Head(cmds)
      BY Typed, Shortened DEF ShownInv, PollSessionInv
    <2> QED  BY <1>2, <2>1 DEF SignedOutStays, CtlBackgroundSync, CtlFetchFolder, Received
  <1>4. Still'
    BY <1>2, <1>3 DEF SignedOutStays, Still, CtlStep, CtlCancel, CtlBoundary, CtlDisconnect, CtlStartSync, CtlShutdown, CtlReap
  <1>5. TaskIsIdle'
    <2>1. CASE CtlDisconnect \/ CtlStartSync
      <3>1. held.type \in {"Disconnect", "Restore"} /\ task' \in {NoTask, NewTask(held)}
        BY <1>2, <2>1 DEF SignedOutStays, CtlDisconnect, CtlStartSync, SyncKinds
      <3>2. NewTask(held).kind = held.type /\ NewTask(held).pc \in {"begin", "start"}
            /\ (held.type # "Disconnect" => NewTask(held).pc = "start") /\ NoTask.pc = "none"
        BY DEF NewTask, NoTask
      <3> QED  BY <3>1, <3>2 DEF TaskIsIdle
    <2>2. CASE ~(CtlDisconnect \/ CtlStartSync)
      <3>1. task' \in {task, NoTask}
        BY <2>2 DEF CtlStep, CtlCancel, CtlBackgroundSync, CtlFetchFolder, CtlBoundary, CtlShutdown, CtlReap
      <3> QED  BY <1>2, <3>1 DEF SignedOutStays, TaskIsIdle, NoTask
    <2> QED  BY <2>1, <2>2
  <1>6. held'.type # "Connect" /\ \A i \in DOMAIN cmds' : cmds'[i].type \notin {"Connect", "Poll", "Folder"}
    <2>1. CASE CtlDisconnect \/ CtlStartSync \/ CtlReap
      <3>1. cmds' = cmds /\ held' \in {held, NoCmd}
        BY <2>1 DEF CtlDisconnect, CtlStartSync, CtlReap
      <3> QED  BY <1>2, <3>1 DEF SignedOutStays, NoCmd, Cmd
    <2>2. CASE ~(CtlDisconnect \/ CtlStartSync \/ CtlReap)
      <3>1. /\ 1 \in DOMAIN cmds /\ cmds[1] = Head(cmds)
            /\ \A i \in DOMAIN cmds' : i + 1 \in DOMAIN cmds /\ cmds'[i] = cmds[i + 1]
        BY <2>2, CtlMoves
      <3>2. held' \in {held, Head(cmds)}
        BY <2>2 DEF CtlStep, CtlCancel, CtlBackgroundSync, CtlFetchFolder, CtlBoundary, CtlShutdown
      <3> QED  BY <1>2, <3>1, <3>2 DEF SignedOutStays
    <2> QED  BY <2>1, <2>2
  <1>7. \A i \in DOMAIN evts' : Announces(evts'[i]) => evts'[i].op # activeOp'
    BY <1>2, CtlSays DEF SignedOutStays, Old, Announces, ShownInv, PollSessionInv
  <1> QED  BY <1>1, <1>2, <1>4, <1>5, <1>6, <1>7 DEF SignedOutStays, Blank

LEMMA TaskStepSigned ==
  ASSUME CleanInv, TaskStep
  PROVE  SignedOutStays'
  <1> USE DEF CleanInv
  <1> SUFFICES ASSUME erased' # NoAccount PROVE SignedOutStays'
    BY DEF SignedOutStays
  <1>1. TypeOK
    BY DEF ShownInv, PollSessionInv
  <1>2. /\ UNCHANGED <<uiVars, erased, cmds, held, poll, folder, fgate>> /\ task'.kind = task.kind
        /\ task.pc \notin {"none", "finished"} /\ \A c \in closures' : c \in closures \/ ~c.inside
    BY <1>1, TaskMoves
  <1>3. SignedOutStays /\ erased # NoAccount /\ UNCHANGED <<activeOp, shown, uiPoll, uiFolder>>
    BY <1>2 DEF uiVars
  <1>4. /\ UNCHANGED <<auth, mailbox, stray>> /\ keyring' = NoAccount /\ drafts' \subseteq drafts
        /\ TaskIsIdle'
    <2>1. CASE task.kind = "Disconnect"
      <3>1. task.pc \in DisconnectPhases
        BY <1>2, <2>1 DEF TaskPhases
      <3> QED  BY <1>1, <1>2, <1>3, <2>1, <3>1, TaskMoves DEF SignedOutStays, TaskIsIdle
    \* A restoration gets no further than the missing token.
    <2>2. CASE task.kind = "Restore" /\ task.pc \in {"start", "load"}
      <3>1. task \in Task
        BY <1>1, Typed
      <3>2. ASSUME NEW pc, Goto(pc) PROVE task'.pc = pc
        BY <3>1, <3>2 DEF Goto, Task
      <3>3. CASE TaskAcquireLane
        BY <1>2, <1>3, <2>2, <3>2, <3>3 DEF TaskAcquireLane, TaskIsIdle, SignedOutStays, diskVars
      <3>4. CASE RestoreLoad
        <4>1. task'.pc = "finished"
          BY <1>3, <3>2, <3>4 DEF RestoreLoad, SignedOutStays, FailTask, Finish
        <4> QED  BY <1>3, <3>4, <4>1 DEF RestoreLoad, TaskIsIdle, SignedOutStays, diskVars
      <3> QED
        BY <2>2, <3>3, <3>4 DEF TaskStep, ConnectListen, ConnectCallback, ConnectExchange, RestoreRefresh,
             RestoreIdentity, TaskVerified, TaskAuthorize, TaskMark, TaskSave, TaskFetch, TaskSynced, TaskCacheError,
             DisconnectBegin, DisconnectDrafts, DisconnectToken, At
    <2> QED  BY <1>2, <1>3, <2>1, <2>2 DEF SignedOutStays, TaskIsIdle
  <1>5. \A i \in DOMAIN evts' : Announces(evts'[i]) => evts'[i].op # activeOp'
    <2> SUFFICES ASSUME NEW i \in DOMAIN evts', Announces(evts'[i]) PROVE evts'[i].op # activeOp'
      OBVIOUS
    <2>1. task.pc \notin {"verified", "authorize", "synced"}
      BY <1>3 DEF SignedOutStays, TaskIsIdle, TaskPhases, DisconnectPhases
    <2>2. Old(i)
      BY <1>1, <2>1, TaskSpeaks DEF TaskSays, Announces
    <2> QED  BY <1>3, <2>2 DEF SignedOutStays, Old
  <1>6. Still' /\ Emptied' /\ Blank'
    BY <1>2, <1>3, <1>4 DEF SignedOutStays, Still, Emptied, Blank
  <1> QED  BY <1>2, <1>3, <1>4, <1>5, <1>6 DEF SignedOutStays

\* There are no polls and no folder requests then.
LEMMA PollStepSigned ==
  ASSUME CleanInv, PollStep
  PROVE  SignedOutStays'
  <1> USE DEF CleanInv
  <1>1. erased' = erased
    BY DEF PollStep, PollAuth, PollRefresh, PollPermit, PollReplace, PollFetch, PollLane, PollPublish, NotPoll, NotWorker
  <1>2. poll.pc # "none"
    BY DEF PollStep, PollAuth, PollRefresh, PollPermit, PollReplace, PollFetch, PollLane, PollPublish, PollAt
  <1> QED  BY <1>1, <1>2 DEF SignedOutStays, Still, NoPoll

LEMMA FolderStepSigned ==
  ASSUME CleanInv, FolderStep
  PROVE  SignedOutStays'
  <1> USE DEF CleanInv
  <1>1. erased' = erased
    BY DEF FolderStep, FolderCredentials, FolderLane, FolderFetch, FolderPublish, NotFolder, NotWorker
  <1>2. folder.pc # "none"
    BY DEF FolderStep, FolderCredentials, FolderLane, FolderFetch, FolderPublish, FolderAt
  <1> QED  BY <1>1, <1>2 DEF SignedOutStays, Still, NoFolder

LEMMA RunClosureSigned ==
  ASSUME CleanInv, RunClosure
  PROVE  SignedOutStays'
  <1> USE DEF CleanInv
  <1> SUFFICES ASSUME erased' # NoAccount PROVE SignedOutStays'
    BY DEF SignedOutStays
  <1>1. UNCHANGED <<uiVars, erased, cmds, evts, held, auth, fgate, keyring, drafts>>
    BY RunMoves
  <1>2. SignedOutStays /\ erased # NoAccount /\ UNCHANGED <<activeOp, shown, uiPoll, uiFolder>>
    BY <1>1 DEF uiVars
  <1>3. Still /\ Emptied /\ TaskIsIdle /\ task.pc \notin {"commit", "prepare"}
    BY <1>2 DEF SignedOutStays, TaskIsIdle, TaskPhases, DisconnectPhases
  <1>4. Still'
    BY <1>1, <1>3, RunMoves DEF Still, NoPoll, NoFolder
  <1>5. Emptied'
    BY <1>3, RunMoves
  <1>6. TaskIsIdle'
    BY <1>3, RunMoves DEF TaskIsIdle, TaskPhases, DisconnectPhases
  <1> QED  BY <1>1, <1>2, <1>4, <1>5, <1>6 DEF SignedOutStays, Blank

\* A closure that is dropped, and no step at all, take nothing away from it.
LEMMA DropClean ==
  ASSUME CleanInv, DropClosure \/ UNCHANGED vars
  PROVE  KindKnown' /\ Numbered' /\ LeavingIsBlank' /\ TaskPhases' /\ LeavingLast' /\ SignedOutStays'
  <1> USE DEF CleanInv
  <1>1. /\ UNCHANGED <<uiVars, erased, cmds, evts, held, task, poll, folder, fgate, auth, keyring, mailbox, drafts, stray>>
        /\ closures' \subseteq closures
    BY DEF DropClosure, Leave, NotClosure, NotWorker, vars, workerVars, diskVars
  <1>2. UNCHANGED <<activeOp, recovery, session, shown, uiPoll, uiFolder, nextPoll>>
    BY <1>1 DEF uiVars
  <1>3. KindKnown' /\ TaskPhases' /\ LeavingIsBlank'
    BY <1>1, <1>2 DEF KindKnown, KindAgrees, TaskPhases, LeavingIsBlank, Blank
  <1>4. Numbered'
    BY <1>1, <1>2 DEF Numbered
  <1>5. (Still => Still') /\ (Emptied => Emptied') /\ (Hushed => Hushed')
    BY <1>1 DEF Still, Emptied, Hushed
  <1>6. LeavingLast'
    BY <1>1, <1>2, <1>5 DEF LeavingLast, CmdsLeave, HeldLeaves, TaskLeavesLast, ConfirmedLast, Leaves, TaskLeaves,
                            Confirms, Confirmed
  <1>7. SignedOutStays'
    BY <1>1, <1>2, <1>5 DEF SignedOutStays, TaskIsIdle, Blank
  <1> QED  BY <1>3, <1>4, <1>6, <1>7

\* The process begins again without a task, a poll or a closure.
StartsClean ==
    /\ KindKnown /\ Numbered /\ LeavingIsBlank /\ TaskPhases /\ LeavingLast
    /\ Still /\ closures = {} /\ Blank /\ TaskIsIdle /\ held.type # "Connect" /\ DOMAIN evts = {}
    /\ \A i \in DOMAIN cmds : cmds[i].type = "Restore"

LEMMA StartupClean == Startup => StartsClean
  <1> SUFFICES ASSUME Startup PROVE StartsClean
    OBVIOUS
  <1>1. /\ DOMAIN evts = {} /\ DOMAIN cmds = {1} /\ cmds[1].type = "Restore" /\ cmds[1].op = 1
        /\ task.pc = "none" /\ task.kind = "none" /\ held = NoCmd /\ held.type = "none" /\ folder.pc = "none"
        /\ poll = NoPoll /\ poll.pc = "none" /\ folder = NoFolder /\ fgate = 0 /\ auth = NoAccount
        /\ activeOp = 1 /\ recovery = "Restore" /\ session = "Syncing" /\ nextPoll = 1
        /\ uiFolder = 0 /\ uiPoll = 0 /\ shown = NoAccount /\ closures = {}
    BY DEF Startup, NoTask, NoFolder, NoPoll, NoCmd, Cmd
  <1>2. KindKnown /\ Numbered /\ LeavingIsBlank /\ TaskPhases
    BY <1>1 DEF KindKnown, KindAgrees, Numbered, LeavingIsBlank, TaskPhases, DisconnectPhases
  <1>3. LeavingLast
    BY <1>1 DEF LeavingLast, CmdsLeave, HeldLeaves, TaskLeavesLast, ConfirmedLast, Leaves, TaskLeaves
  <1> QED  BY <1>1, <1>2, <1>3 DEF StartsClean, Still, Blank, TaskIsIdle

LEMMA InitClean == Init => CleanInv
  BY InitShown, StartupClean DEF Init, StartsClean, CleanInv, SignedOutStays

LEMMA StepClean == CleanInv /\ [Next]_vars => CleanInv'
  <1> SUFFICES ASSUME CleanInv, [Next]_vars PROVE CleanInv'
    OBVIOUS
  <1>1. ShownInv'
    BY StepShown DEF CleanInv
  <1>2. CASE UiStep
    <2>1. TaskPhases'
      BY <1>2, PersonSteps DEF CleanInv, TaskPhases
    <2> QED  BY <1>1, <1>2, <2>1, UiStepKinds, UiStepLeaving, UiStepSigned DEF CleanInv
  <1>3. CASE UiEvent
    <2>1. TaskPhases'
      BY <1>3, WindowSteps DEF CleanInv, TaskPhases
    <2> QED  BY <1>1, <1>3, <2>1, UiEventKinds, UiEventLeaving, UiEventSigned DEF CleanInv
  <1>4. CASE CtlStep
    BY <1>1, <1>4, CtlStepKinds, CtlStepLeaving, CtlStepSigned DEF CleanInv
  <1>5. CASE TaskStep
    BY <1>1, <1>5, TaskStepKinds, TaskStepLeaving, TaskStepSigned DEF CleanInv
  <1>6. CASE PollStep
    BY <1>1, <1>6, PollStepKinds, PollStepLeaving, PollStepSigned DEF CleanInv
  <1>7. CASE FolderStep
    BY <1>1, <1>7, FolderStepKinds, FolderStepLeaving, FolderStepSigned DEF CleanInv
  <1>8. CASE RunClosure
    BY <1>1, <1>8, RunClosureKinds, RunClosureLeaving, RunClosureSigned DEF CleanInv
  <1>9. CASE DropClosure \/ UNCHANGED vars
    BY <1>1, <1>9, DropClean DEF CleanInv
  <1>10. CASE Restart
    <2>1. Startup' /\ UNCHANGED <<keyring, mailbox, drafts, stray, erased>>
      BY <1>10 DEF Restart, Startup, diskVars
    <2>2. StartsClean'
      BY <2>1, StartupClean, PTL
    <2>3. SignedOutStays'
      BY <2>1, <2>2 DEF StartsClean, CleanInv, SignedOutStays, Emptied
    <2> QED  BY <1>1, <2>2, <2>3 DEF StartsClean, CleanInv
  <1> QED  BY <1>2, <1>3, <1>4, <1>5, <1>6, <1>7, <1>8, <1>9, <1>10 DEF Next

\* After the answer to a Disconnect, until the next sign-in, the account's token,
\* its drafts and the mail on disk are gone and no access token is left in memory,
\* across a restart too.  The one exception is mail that a closure detached before
\* (complete_sync asks no generation) writes once the removal is over.
THEOREM SignedOutStaysClean == Spec => []SignedOutIsClean
  <1>1. CleanInv => SignedOutIsClean
    BY DEF CleanInv, SignedOutStays, SignedOutIsClean, Still, Emptied
  <1> QED  BY <1>1, InitClean, StepClean, PTL DEF Spec
-----------------------------------------------------------------------------
(* Answers come last *)

\* What ends an operation, and the commands that are numbered as operations are.
Ending(e) == e.type \in {"NoStoredAccount", "Cancelled", "SyncComplete", "Disconnected", "Failed"}
Asks(c) == c.type \in BoundaryKinds \cup {"Cancel"}
Idle == task.pc \in {"none", "finished"}

\* The operation n is still to be taken up.
Ahead(n) ==
    /\ task.op < n /\ n < nextOp
    /\ \A k \in DOMAIN evts : Ending(evts[k]) => evts[k].op < n

\* Operations are asked for, taken up and answered in the order of their numbers,
\* and the answer is the last that the task has to say.
AskedInOrder ==
    /\ \A i, j \in DOMAIN cmds : i < j /\ Asks(cmds[i]) /\ Asks(cmds[j]) => cmds[i].op < cmds[j].op
    /\ \A i \in DOMAIN cmds : Asks(cmds[i]) => Ahead(cmds[i].op) /\ held.op < cmds[i].op
    /\ held # NoCmd => Ahead(held.op)
    /\ \A k \in DOMAIN evts : Ending(evts[k]) => evts[k].op > 0 /\ evts[k].op < nextOp
    /\ \A k \in DOMAIN evts : Ending(evts[k]) /\ evts[k].op >= task.op => Idle

\* What the window awaits is the last that it asked for.
AwaitedIsLast ==
    activeOp # 0 =>
        /\ task.op <= activeOp /\ held.op <= activeOp
        /\ \A i \in DOMAIN cmds : Asks(cmds[i]) => cmds[i].op <= activeOp

\* A browser is opened for a sign-in at work, and nothing is asked for meanwhile.
Unasked == held = NoCmd /\ \A i \in DOMAIN cmds : ~Boundary(cmds[i])
Opens(e) == e.type = "AuthorizationRequired"
Loads(e) == e.type = "FolderLoaded" /\ e.op = uiFolder
Working == task.pc \in SyncPhases
BrowserOfTask ==
    /\ \A k \in DOMAIN evts : Opens(evts[k]) /\ evts[k].op >= task.op => Idle \/ Working
    /\ \A k, m \in DOMAIN evts :
          k < m /\ Opens(evts[k]) /\ evts[k].op = activeOp /\ Loads(evts[m]) => ~Working
    /\ session = "Authorizing" =>
          /\ Unasked /\ (Idle \/ Working)
          /\ Working => \A k \in DOMAIN evts : ~Loads(evts[k])

\* With nothing awaited the task is over or about to be cancelled.  The one that
\* is not was dropped for want of a number, and the session does not become ready.
WillStop == Idle \/ \E i \in DOMAIN cmds : cmds[i].type = "Cancel"
NothingIsLeft ==
    activeOp = 0 =>
        /\ Unasked
        /\ WillStop \/ (Working /\ session # "Ready" /\ \A k \in DOMAIN evts : ~Loads(evts[k]))
FolderHoldsLane == folder.pc \in {"fetch", "commit", "saved", "stale"} => lane = "folder"

\* A poll is asked for when nothing is awaited, and a task is not begun before it is over.
PollAlone ==
    /\ \A i \in DOMAIN cmds : cmds[i].type = "Poll" =>
          /\ held = NoCmd /\ cmds[i].acct # NoAccount
          /\ \A j \in DOMAIN cmds : j < i => ~Boundary(cmds[j])
          /\ Idle \/ \E j \in DOMAIN cmds : j < i /\ cmds[j].type = "Cancel"
    /\ poll.pc # "none" => held = NoCmd /\ Idle /\ poll.acct # NoAccount

\* What a task that is past its sign-in has in hand.
Holds(a) == auth = a /\ keyring = a
TaskHolds ==
    /\ task.pc \in {"config", "browser", "exchange"} => task.kind # "Restore"
    /\ task.pc \in {"load", "refresh", "identity"} => task.kind # "Connect"
    /\ task.kind = "Restore" /\ task.pc \in {"refresh", "identity", "prepare", "verified", "authorize"}
       => keyring = task.acct
    /\ task.kind = "Connect" /\ task.pc \in {"mark", "save"} => auth = task.acct
    /\ task.pc \in {"fetch", "commit", "commitErr", "synced"} => Holds(task.acct)
SyncedHolds ==
    /\ run = "up" => \A i \in DOMAIN cmds : cmds[i].type # "Shutdown"
    /\ run = "up" => \A k \in DOMAIN evts :
          evts[k].type = "SyncComplete" /\ evts[k].op = activeOp => Holds(evts[k].acct)

\* A Disconnect is followed by another one at most.
Gone == activeOp # 0 /\ recovery = "Disconnect"
OnlyLeaves == \A i \in DOMAIN cmds : cmds[i].type \in {"Disconnect", "Shutdown"}
DisconnectAlone ==
    /\ Gone => session \in {"Disconnecting", "Syncing"}
    /\ \A i \in DOMAIN cmds : cmds[i].type = "Disconnect" =>
          Gone /\ \A j \in DOMAIN cmds : i < j => cmds[j].type \in {"Disconnect", "Shutdown"}
    /\ held.type = "Disconnect" => Gone /\ OnlyLeaves /\ poll = NoPoll
    /\ task.pc \in DisconnectPhases =>
          /\ Gone /\ OnlyLeaves /\ held.type \in {"none", "Disconnect"} /\ Still
          /\ task.pc \in {"clear", "token"} => task.acct \notin drafts
          /\ task.pc = "token" => Emptied

AnswerInv ==
    /\ CleanInv
    /\ AskedInOrder /\ AwaitedIsLast /\ BrowserOfTask /\ NothingIsLeft /\ FolderHoldsLane
    /\ PollAlone /\ PollReplacesItsOwnToken /\ TaskHolds /\ SyncedHolds /\ DisconnectAlone

-----------------------------------------------------------------------------
(* Steps of the person *)

\* The command c goes to the end of the queue.
Queues(c) ==
    /\ \A i \in DOMAIN cmds : i \in DOMAIN cmds' /\ cmds'[i] = cmds[i]
    /\ \E n \in DOMAIN cmds' :
          n \in Nat /\ cmds'[n] = c /\ (\A i \in DOMAIN cmds : i < n) /\ \A i \in DOMAIN cmds' : i = n \/ i \in DOMAIN cmds

LEMMA Queued ==
  ASSUME TypeOK, NEW c, cmds' = Append(cmds, c)
  PROVE  Queues(c)
  <1>1. cmds \in Seq(Command) /\ Len(cmds) + 1 \in Nat
    BY Typed
  <1> QED  BY <1>1, Appended DEF Queues

\* What the person asks for, and how that leaves the window.
Asking(c) ==
    /\ UNCHANGED <<activeOp, nextOp, session, recovery, run>> /\ shown # NoAccount
    /\ \/ c.type = "Poll" /\ activeOp = 0 /\ session = "Ready" /\ c.acct # NoAccount /\ UNCHANGED uiFolder
       \/ c.type = "Folder" /\ uiFolder' = nextFolder
Quitting(c) == c.type = "Shutdown" /\ run' = "closing" /\ UNCHANGED uiVars
Beginning(c) ==
    /\ recovery' \in BoundaryKinds /\ c.type = recovery' /\ c.op = nextOp
    /\ activeOp' = nextOp /\ nextOp' = nextOp + 1 /\ uiFolder' = 0 /\ UNCHANGED run
    /\ session' \in {"Syncing", "Disconnecting"}
    /\ recovery' = "Disconnect" \/ session \notin {"Syncing", "Disconnecting"}
Cancelling(c) ==
    /\ c.type = "Cancel" /\ c.op = nextOp /\ activeOp' \in {0, nextOp} /\ nextOp' = nextOp + 1
    /\ session = "Authorizing" /\ session' \in {"Disconnected", "ServiceError"} /\ UNCHANGED <<recovery, uiFolder, run>>
Dropping ==
    /\ session = "Authorizing" /\ session' = "ServiceError" /\ activeOp' = 0
    /\ UNCHANGED <<cmds, nextOp, recovery, uiFolder, run>>

LEMMA PersonAsks ==
  ASSUME UiStep
  PROVE  /\ UNCHANGED <<evts, workerVars, closures, diskVars, stray>>
         /\ \/ Dropping
            \/ \E c : cmds' = Append(cmds, c) /\ (Asking(c) \/ Quitting(c) \/ Beginning(c) \/ Cancelling(c))
  <1>1. UNCHANGED <<evts, workerVars, closures, diskVars, stray>>
    BY DEF UiStep, ClickConnect, ClickDisconnect, ClickRetry, ClickCancel, SelectFolder, Start, Disconnect,
           LoadFolder, BrowserLaunchFailed, BackgroundTimer, CloseWindow
  <1>2. \A t, n, a : Cmd(t, n, a).type = t /\ Cmd(t, n, a).op = n /\ Cmd(t, n, a).acct = a
    BY DEF Cmd
  <1>3. ASSUME NEW kind \in SyncKinds, Start(kind), run = "up", session \notin {"Syncing", "Disconnecting"}
        PROVE  \E c : cmds' = Append(cmds, c) /\ Beginning(c)
    BY <1>2, <1>3 DEF Start, Allocate, Send, Beginning, BoundaryKinds, SyncKinds
  <1>4. ASSUME Disconnect, run = "up" PROVE \E c : cmds' = Append(cmds, c) /\ Beginning(c)
    BY <1>2, <1>4 DEF Disconnect, Allocate, Send, Beginning, BoundaryKinds
  <1>5. ClickConnect \/ ClickDisconnect \/ ClickRetry => \E c : cmds' = Append(cmds, c) /\ Beginning(c)
    BY <1>3, <1>4 DEF ClickConnect, ClickDisconnect, ClickRetry, CanConnect, CanRetry, SyncKinds
  <1>6. SelectFolder \/ BackgroundTimer => \E c : cmds' = Append(cmds, c) /\ Asking(c)
    BY <1>2 DEF SelectFolder, LoadFolder, BackgroundTimer, Send, Asking
  <1>7. CloseWindow => \E c : cmds' = Append(cmds, c) /\ Quitting(c)
    BY <1>2 DEF CloseWindow, Send, Quitting
  <1>8. ClickCancel => \E c : cmds' = Append(cmds, c) /\ Cancelling(c)
    BY <1>2 DEF ClickCancel, CanCancel, Allocate, Send, Cancelling
  <1>9. BrowserLaunchFailed => Dropping \/ \E c : cmds' = Append(cmds, c) /\ Cancelling(c)
    BY <1>2 DEF BrowserLaunchFailed, Send, Cancelling, Dropping
  <1> QED  BY <1>1, <1>5, <1>6, <1>7, <1>8, <1>9 DEF UiStep

\* Numbers of answers, commands and requests are below the next ones.
LEMMA NumbersKnown ==
  ASSUME AnswerInv
  PROVE  /\ task.op \in Nat /\ held.op \in Nat /\ activeOp \in Nat /\ nextOp \in Nat /\ nextOp > 0
         /\ task.op < nextOp /\ held.op < nextOp
         /\ \A i \in DOMAIN cmds : i \in Nat /\ i > 0 /\ cmds[i].op \in Nat
         /\ \A i \in DOMAIN cmds : Asks(cmds[i]) => cmds[i].op < nextOp /\ cmds[i].op > 0
         /\ \A k \in DOMAIN evts : k \in Nat /\ k > 0 /\ evts[k].op \in Nat
         /\ \A k \in DOMAIN evts : Ending(evts[k]) \/ Opens(evts[k]) => evts[k].op > 0 /\ evts[k].op < nextOp
         /\ \A k \in DOMAIN evts : evts[k].type = "FolderLoaded" => evts[k].op \notin {0, Orphaned, nextFolder}
  <1>0. TypeOK /\ ShownInv /\ AskedInOrder /\ FoldersAsked
    BY DEF AnswerInv, CleanInv, ShownInv, PollSessionInv
  <1>1. /\ evts \in Seq(Event) /\ cmds \in Seq(Command) /\ task.op \in Nat /\ held.op \in Nat /\ activeOp \in Nat
        /\ nextFolder \in Nat
        /\ \A k \in DOMAIN evts : evts[k].op \in Nat
        /\ \A i \in DOMAIN cmds : cmds[i].op \in Nat
    BY <1>0, Typed
  <1>2. nextOp \in Nat /\ nextOp > 0 /\ task.op < nextOp
    BY <1>0, OpsKnown DEF InTurn, Unheard, ShownInv
  <1>3. held.op < nextOp
    <2>1. CASE held = NoCmd
      BY <1>2, <2>1 DEF NoCmd, Cmd
    <2>2. CASE held # NoCmd
      BY <1>0, <2>2, OpsKnown
    <2> QED  BY <2>1, <2>2
  <1>4. \A i \in DOMAIN cmds : Asks(cmds[i]) => cmds[i].op < nextOp /\ cmds[i].op > 0
    BY <1>0, <1>1 DEF AskedInOrder, Ahead
  <1>5. \A k \in DOMAIN evts : Ending(evts[k]) \/ Opens(evts[k]) => evts[k].op > 0 /\ evts[k].op < nextOp
    BY <1>0, OpsKnown DEF AskedInOrder, Opens, Vouches
  <1>6. \A k \in DOMAIN evts : evts[k].type = "FolderLoaded" => evts[k].op \notin {0, Orphaned, nextFolder}
    BY <1>0, <1>1, BoundAssumption DEF FoldersAsked, Asked, FolderResult, Orphaned
  <1>7. (\A i \in DOMAIN cmds : i \in Nat /\ i > 0) /\ \A k \in DOMAIN evts : k \in Nat /\ k > 0
    BY <1>1
  <1> QED  BY <1>1, <1>2, <1>3, <1>4, <1>5, <1>6, <1>7

LEMMA UiStepAnswers ==
  ASSUME AnswerInv, UiStep
  PROVE  /\ AskedInOrder' /\ AwaitedIsLast' /\ BrowserOfTask' /\ NothingIsLeft'
         /\ PollAlone' /\ SyncedHolds' /\ DisconnectAlone'
  <1>1. /\ UNCHANGED <<evts, held, task, folder, poll, lane, auth, keyring, mailbox, drafts, stray, closures, fgate>>
        /\ \/ Dropping
           \/ \E c : cmds' = Append(cmds, c) /\ (Asking(c) \/ Quitting(c) \/ Beginning(c) \/ Cancelling(c))
    BY PersonAsks DEF workerVars, diskVars
  <1>2. /\ AskedInOrder /\ AwaitedIsLast /\ BrowserOfTask /\ NothingIsLeft
        /\ PollAlone /\ SyncedHolds /\ DisconnectAlone /\ LeavingIsBlank
        /\ TypeOK /\ task.op \in Nat /\ held.op \in Nat /\ activeOp \in Nat /\ nextOp \in Nat
    BY NumbersKnown DEF AnswerInv, CleanInv, ShownInv, PollSessionInv
  <1>3. CASE Dropping
    <2>1. AskedInOrder' /\ AwaitedIsLast'
      BY <1>1, <1>2, <1>3 DEF Dropping, AskedInOrder, AwaitedIsLast, Ahead, Idle
    <2>2. BrowserOfTask'
      BY <1>1, <1>2, <1>3, NumbersKnown DEF Dropping, BrowserOfTask, Idle, Working, Opens, Loads
    <2>3. NothingIsLeft'
      BY <1>1, <1>2, <1>3 DEF Dropping, BrowserOfTask, NothingIsLeft, Unasked, Idle, Working, Loads, WillStop
    <2>4. PollAlone'
      BY <1>1, <1>2, <1>3 DEF Dropping, PollAlone, Idle
    <2>5. SyncedHolds'
      BY <1>1, <1>2, <1>3, NumbersKnown DEF Dropping, SyncedHolds, Holds, Ending
    <2>6. DisconnectAlone'
      <3>1. ~Gone /\ ~Gone'
        BY <1>2, <1>3 DEF Dropping, LeavingIsBlank, Gone
      <3> QED  BY <1>1, <1>2, <1>3, <3>1 DEF Dropping, DisconnectAlone
    <2> QED  BY <2>1, <2>2, <2>3, <2>4, <2>5, <2>6
  <1>4. ASSUME NEW c, cmds' = Append(cmds, c), Asking(c) \/ Quitting(c) \/ Beginning(c) \/ Cancelling(c)
        PROVE  /\ AskedInOrder' /\ AwaitedIsLast' /\ BrowserOfTask' /\ NothingIsLeft'
               /\ PollAlone' /\ SyncedHolds' /\ DisconnectAlone'
    <2>1. PICK n \in DOMAIN cmds' : /\ cmds'[n] = c /\ n \in Nat
                                    /\ \A i \in DOMAIN cmds' : i = n \/ (i \in DOMAIN cmds /\ i < n /\ cmds'[i] = cmds[i])
                                    /\ \A i \in DOMAIN cmds : i < n
      BY <1>2, <1>4, Queued DEF Queues
    <2>2. \A i \in DOMAIN cmds : i \in DOMAIN cmds' /\ cmds'[i] = cmds[i] /\ i \in Nat
      BY <1>2, <1>4, Queued, NumbersKnown DEF Queues
    <2>3. Asks(c) => c.op = nextOp /\ nextOp' = nextOp + 1 /\ activeOp' \in {0, nextOp}
      BY <1>4 DEF Asking, Quitting, Beginning, Cancelling, Asks, BoundaryKinds, SyncKinds
    <2>4. ~Asks(c) => UNCHANGED <<nextOp, activeOp, session, recovery>>
      BY <1>4 DEF Asking, Quitting, Beginning, Cancelling, Asks, uiVars
    <2>5. AskedInOrder'
      <3>1. ASSUME NEW m \in Nat, Ahead(m) PROVE Ahead(m)'
        BY <1>1, <1>2, <2>3, <2>4, <3>1 DEF Ahead
      <3>2. ASSUME Asks(c) PROVE Ahead(c.op)' /\ held.op < c.op
        BY <1>1, <1>2, <2>3, <3>2, NumbersKnown DEF Ahead
      <3>3. ASSUME NEW i \in DOMAIN cmds', Asks(cmds'[i]) PROVE Ahead(cmds[i].op)' /\ held'.op < cmds'[i].op
        <4>1. PICK m : m = cmds'[i].op
          OBVIOUS
        <4>2. Ahead(m)' /\ held.op < m
          <5>1. CASE i = n
            BY <2>1, <3>2, <3>3, <4>1, <5>1
          <5>2. CASE i # n
            <6>1. i \in DOMAIN cmds /\ cmds'[i] = cmds[i] /\ m \in Nat
              BY <2>1, <4>1, <5>2, NumbersKnown
            <6> QED  BY <1>2, <3>1, <3>3, <4>1, <6>1 DEF AskedInOrder
          <5> QED  BY <5>1, <5>2
        <4> QED  BY <1>1, <4>1, <4>2 DEF Ahead
      <3>4. ASSUME NEW i \in DOMAIN cmds', NEW j \in DOMAIN cmds', i < j, Asks(cmds'[i]), Asks(cmds'[j])
            PROVE  cmds'[i].op < cmds'[j].op
        <4>1. i # n /\ i \in DOMAIN cmds /\ cmds'[i] = cmds[i]
          BY <2>1, <2>2, <3>4, <1>2, NumbersKnown
        <4>2. CASE j = n
          BY <2>1, <2>3, <3>4, <4>1, <4>2, NumbersKnown
        <4>3. CASE j # n
          BY <1>2, <2>1, <3>4, <4>1, <4>3 DEF AskedInOrder
        <4> QED  BY <4>2, <4>3
      <3>5. held' # NoCmd => Ahead(held.op)'
        <4>1. PICK m \in Nat : m = held.op
          BY <1>2
        <4>2. held # NoCmd => Ahead(m)'
          BY <1>2, <3>1, <4>1 DEF AskedInOrder
        <4> QED  BY <1>1, <4>1, <4>2 DEF Ahead
      <3>6. \A k \in DOMAIN evts' : Ending(evts'[k]) => evts'[k].op > 0 /\ evts'[k].op < nextOp'
        BY <1>1, <1>2, <2>3, <2>4, NumbersKnown
      <3> QED  BY <1>1, <1>2, <3>3, <3>4, <3>5, <3>6 DEF AskedInOrder, Idle
    <2>6. AwaitedIsLast'
      <3>1. CASE Asks(c)
        BY <1>1, <2>1, <2>3, <3>1, NumbersKnown DEF AwaitedIsLast
      <3>2. CASE ~Asks(c)
        BY <1>1, <1>2, <2>1, <2>4, <3>2 DEF AwaitedIsLast
      <3> QED  BY <3>1, <3>2
    <2>7. uiFolder' \in {uiFolder, 0, nextFolder}
      BY <1>4 DEF Asking, Quitting, Beginning, Cancelling, uiVars
    <2>8. \A k \in DOMAIN evts' : k \in DOMAIN evts /\ evts'[k] = evts[k] /\ (Loads(evts[k])' => Loads(evts[k]))
      BY <1>1, <2>7, NumbersKnown DEF Loads
    <2>9. \A i \in DOMAIN cmds : ~Boundary(cmds[i]) => ~Boundary(cmds'[i])
      BY <2>2 DEF Boundary
    <2>10. ~Boundary(c) /\ Unasked => Unasked'
      BY <1>1, <2>1 DEF Unasked, Boundary
    <2>11. BrowserOfTask'
      <3>1. \A k \in DOMAIN evts' : Opens(evts'[k]) /\ evts'[k].op = activeOp' => activeOp' = activeOp
        BY <1>1, <2>3, <2>4, NumbersKnown
      <3>2. session' = "Authorizing" => session = "Authorizing" /\ ~Boundary(c)
        BY <1>4 DEF Asking, Quitting, Beginning, Cancelling, uiVars, Boundary, BoundaryKinds, SyncKinds
      <3> QED  BY <1>1, <1>2, <2>8, <2>10, <3>1, <3>2 DEF BrowserOfTask, Idle, Working
    <2>12. NothingIsLeft'
      <3> SUFFICES ASSUME activeOp' = 0 PROVE NothingIsLeft'
        BY DEF NothingIsLeft
      <3>1. WillStop => WillStop'
        BY <1>1, <2>2 DEF WillStop, Idle
      <3>2. CASE Cancelling(c)
        <4>1. Unasked /\ ~Boundary(c) /\ WillStop'
          BY <1>2, <2>1, <3>2 DEF Cancelling, BrowserOfTask, Boundary, BoundaryKinds, SyncKinds, WillStop
        <4> QED  BY <2>10, <4>1 DEF NothingIsLeft
      <3>3. CASE Asking(c) \/ Quitting(c)
        <4>1. activeOp = 0 /\ session' = session /\ ~Boundary(c)
          BY <3>3 DEF Asking, Quitting, uiVars, Boundary, BoundaryKinds, SyncKinds
        <4> QED  BY <1>1, <1>2, <2>8, <2>10, <3>1, <4>1 DEF NothingIsLeft, Working
      <3>4. ~Beginning(c)
        BY NumbersKnown DEF Beginning
      <3> QED  BY <1>4, <3>2, <3>3, <3>4
    <2>13. PollAlone'
      <3>1. ASSUME c.type = "Poll"
            PROVE  c.acct # NoAccount /\ Unasked /\ WillStop
        BY <1>2, <1>4, <3>1 DEF Asking, Quitting, Beginning, Cancelling, BoundaryKinds, SyncKinds, NothingIsLeft
      <3>2. ASSUME NEW i \in DOMAIN cmds', cmds'[i].type = "Poll"
            PROVE  /\ held' = NoCmd /\ cmds'[i].acct # NoAccount
                   /\ \A j \in DOMAIN cmds' : j < i => ~Boundary(cmds'[j])
                   /\ Idle' \/ \E j \in DOMAIN cmds' : j < i /\ cmds'[j].type = "Cancel"
        <4>1. CASE i = n
          <5>1. \A j \in DOMAIN cmds' : j < n => j \in DOMAIN cmds /\ cmds'[j] = cmds[j]
            BY <2>1, <2>2, <4>1, NumbersKnown
          <5> QED  BY <1>1, <2>1, <2>2, <3>1, <3>2, <4>1, <5>1 DEF Unasked, WillStop, Idle
        <4>2. CASE i # n
          <5>1. i \in DOMAIN cmds /\ cmds'[i] = cmds[i] /\ i < n
            BY <2>1, <4>2
          <5>2. \A j \in DOMAIN cmds' : j < i => j \in DOMAIN cmds /\ cmds'[j] = cmds[j]
            BY <2>1, <5>1, NumbersKnown
          <5> QED  BY <1>1, <1>2, <2>2, <3>2, <5>1, <5>2 DEF PollAlone, Idle
        <4> QED  BY <4>1, <4>2
      <3> QED  BY <1>1, <1>2, <3>2 DEF PollAlone, Idle
    <2>14. SyncedHolds'
      <3>1. run' = "up" => run = "up" /\ c.type # "Shutdown"
        BY <1>4 DEF Asking, Quitting, Beginning, Cancelling, BoundaryKinds, SyncKinds
      <3>2. \A k \in DOMAIN evts : Ending(evts[k]) /\ evts[k].op = activeOp' => activeOp' = activeOp
        BY <2>3, <2>4, NumbersKnown
      <3> QED  BY <1>1, <1>2, <2>1, <3>1, <3>2 DEF SyncedHolds, Holds, Ending
    <2>15. DisconnectAlone'
      <3>1. CASE Beginning(c) /\ recovery' = "Disconnect"
        <4>1. Gone' /\ session' \in {"Disconnecting", "Syncing"} /\ c.type = "Disconnect"
          BY <3>1, NumbersKnown DEF Beginning, Gone
        <4>2. \A i \in DOMAIN cmds' : \A j \in DOMAIN cmds' :
                cmds'[i].type = "Disconnect" /\ i < j => cmds'[j].type \in {"Disconnect", "Shutdown"}
          <5> SUFFICES ASSUME NEW i \in DOMAIN cmds', NEW j \in DOMAIN cmds', cmds'[i].type = "Disconnect", i < j, j # n
                       PROVE  cmds'[j].type \in {"Disconnect", "Shutdown"}
            BY <2>1, <4>1
          <5>1. j \in DOMAIN cmds /\ cmds'[j] = cmds[j] /\ j < n
            BY <2>1
          <5>2. i # n /\ i \in DOMAIN cmds /\ cmds'[i] = cmds[i]
            BY <2>1, <5>1, NumbersKnown
          <5> QED  BY <1>2, <5>1, <5>2 DEF DisconnectAlone
        <4>3. OnlyLeaves => OnlyLeaves'
          BY <2>1, <4>1 DEF OnlyLeaves
        <4>4. (Still => Still') /\ (Emptied => Emptied')
          BY <1>1 DEF Still, Emptied
        <4> QED  BY <1>1, <1>2, <4>1, <4>2, <4>3, <4>4 DEF DisconnectAlone
      \* Behind a Disconnect nothing else is asked for.
      <3>2. CASE ~(Beginning(c) /\ recovery' = "Disconnect") /\ Gone /\ c.type # "Shutdown"
        <4>1. session # "Authorizing" /\ session \in {"Disconnecting", "Syncing"} /\ shown = NoAccount
          BY <1>2, <3>2 DEF LeavingIsBlank, Gone, DisconnectAlone, Blank
        <4> QED  BY <1>4, <3>2, <4>1 DEF Asking, Quitting, Beginning, Cancelling
      <3>3. CASE c.type = "Shutdown"
        <4>1. UNCHANGED <<activeOp, recovery, session>> /\ (OnlyLeaves => OnlyLeaves')
          BY <1>4, <2>1, <3>3 DEF Asking, Quitting, Beginning, Cancelling, OnlyLeaves, BoundaryKinds, SyncKinds, uiVars
        <4>2. (Still => Still') /\ (Emptied => Emptied')
          BY <1>1 DEF Still, Emptied
        <4>3. \A i \in DOMAIN cmds' : \A j \in DOMAIN cmds' :
                cmds'[i].type = "Disconnect" /\ i < j => cmds'[j].type \in {"Disconnect", "Shutdown"}
          <5> SUFFICES ASSUME NEW i \in DOMAIN cmds', NEW j \in DOMAIN cmds', cmds'[i].type = "Disconnect", i < j, j # n
                       PROVE  cmds'[j].type \in {"Disconnect", "Shutdown"}
            BY <2>1, <3>3
          <5>1. /\ j \in DOMAIN cmds /\ cmds'[j] = cmds[j]
                /\ i \in DOMAIN cmds /\ cmds'[i] = cmds[i]
            BY <2>1, <3>3
          <5> QED  BY <1>2, <5>1 DEF DisconnectAlone
        <4> QED  BY <1>1, <1>2, <2>1, <3>3, <4>1, <4>2, <4>3 DEF DisconnectAlone, Gone
      <3>4. CASE ~(Beginning(c) /\ recovery' = "Disconnect") /\ ~Gone /\ c.type # "Shutdown"
        <4>1. ~Gone' /\ c.type # "Disconnect"
          BY <1>2, <1>4, <3>4 DEF Asking, Quitting, Beginning, Cancelling, Gone, LeavingIsBlank, BoundaryKinds, SyncKinds, uiVars
        <4> QED  BY <1>1, <1>2, <2>1, <3>4, <4>1 DEF DisconnectAlone
      <3> QED  BY <3>1, <3>2, <3>3, <3>4
    <2> QED  BY <2>5, <2>6, <2>11, <2>12, <2>13, <2>14, <2>15
  <1> QED  BY <1>1, <1>3, <1>4

\* What an event does to the window: it may end what is awaited, open a browser, or bring a folder.
EndsAwaited(h) == Ending(h) /\ h.op = activeOp
Hears(h) ==
    /\ uiFolder' \in {uiFolder, 0, Orphaned}
    /\ \/ activeOp' = activeOp /\ (recovery' = "Disconnect" => recovery = "Disconnect")
       \/ activeOp' = 0 /\ EndsAwaited(h)
    /\ session' = "Ready" => session = "Ready" \/ Loads(h) \/ EndsAwaited(h)
    /\ session' = "Authorizing" => session = "Authorizing" \/ (Opens(h) /\ h.op = activeOp)
    /\ \/ activeOp' = 0
       \/ session' \in {session, "Syncing"} /\ recovery' = recovery
       \/ Opens(h) /\ h.op = activeOp
       \/ h.type \in {"FolderLoaded", "FolderFailed"} /\ h.op = uiFolder

LEMMA WindowHears ==
  ASSUME UiEvent
  PROVE  /\ UNCHANGED <<cmds, nextOp, run, workerVars, closures, diskVars, stray>>
         /\ evts # <<>> /\ evts' = Tail(evts)
         /\ Hears(Head(evts))
  <1>1. UNCHANGED <<cmds, nextOp, run, workerVars, closures, diskVars, stray>> /\ evts # <<>> /\ evts' = Tail(evts)
    BY DEF UiEvent, DropStaleEvent, OnPhase, OnAuthorizationRequired, OnIdentityVerified, OnCacheLoaded, OnSignedOut,
           OnSyncComplete, OnDisconnected, OnFailed, OnPollComplete, OnPollFailed, OnFolderCacheLoaded,
           OnFolderLoaded, OnFolderFailed, ReceiveOwn, Receive, NotUi, uiVars
  <1>2. DropStaleEvent \/ OnPhase \/ OnPollComplete \/ OnPollFailed \/ OnFolderCacheLoaded => Hears(Head(evts))
    BY DEF DropStaleEvent, OnPhase, OnPollComplete, OnPollFailed, OnFolderCacheLoaded, uiVars, Hears
  <1>3. OnIdentityVerified => Hears(Head(evts))
    BY DEF OnIdentityVerified, Hears
  <1>4. OnCacheLoaded => Hears(Head(evts))
    BY DEF OnCacheLoaded, Hears
  <1>5. OnAuthorizationRequired => Hears(Head(evts))
    BY DEF OnAuthorizationRequired, ReceiveOwn, Receive, Opens, Hears
  <1>6. OnSignedOut => Hears(Head(evts))
    BY DEF OnSignedOut, ReceiveOwn, Receive, EndsAwaited, Ending, Hears
  <1>7. OnSyncComplete => Hears(Head(evts))
    BY DEF OnSyncComplete, ReceiveOwn, Receive, EndsAwaited, Ending, Hears
  <1>8. OnDisconnected => Hears(Head(evts))
    BY DEF OnDisconnected, ReceiveOwn, Receive, EndsAwaited, Ending, Hears
  <1>9. OnFailed => Hears(Head(evts))
    BY DEF OnFailed, ReceiveOwn, Receive, EndsAwaited, Ending, Hears
  <1>10. OnFolderLoaded => Hears(Head(evts))
    BY DEF OnFolderLoaded, Receive, Loads, Hears
  <1>11. OnFolderFailed => Hears(Head(evts))
    <2>1. ASSUME OnFolderFailed
          PROVE  /\ recovery' \in {recovery, "Folder", "Connect"}
                 /\ session' \in {session, "Offline", "AuthRequired"}
      <3>1. CASE Head(evts).fail = "net"
        BY <2>1, <3>1 DEF OnFolderFailed
      <3>2. CASE Head(evts).fail = "auth"
        BY <2>1, <3>2 DEF OnFolderFailed
      <3>3. CASE Head(evts).fail \notin {"net", "auth"}
        BY <2>1, <3>3 DEF OnFolderFailed
      <3> QED  BY <3>1, <3>2, <3>3
    <2> QED  BY <2>1 DEF OnFolderFailed, Receive, Hears
  <1> QED  BY <1>1, <1>2, <1>3, <1>4, <1>5, <1>6, <1>7, <1>8, <1>9, <1>10, <1>11 DEF UiEvent

\* An operation that is still to come, or at work, is not awaited and ended at once.
LEMMA EndedIsLast ==
  ASSUME AnswerInv, NEW k \in DOMAIN evts, evts[k].op = activeOp
  PROVE  /\ Ending(evts[k]) => Unasked /\ Idle
         /\ Opens(evts[k]) => Unasked /\ (Idle \/ Working)
  <1>1. /\ AskedInOrder /\ AwaitedIsLast /\ BrowserOfTask /\ InTurn /\ ShownInv
        /\ task.op \in Nat /\ held.op \in Nat /\ activeOp \in Nat
    BY NumbersKnown DEF AnswerInv, CleanInv, ShownInv
  <1>2. \A i \in DOMAIN cmds : Boundary(cmds[i]) => Asks(cmds[i])
    BY DEF Boundary, Asks
  <1>3. \A i \in DOMAIN cmds : cmds[i].op \in Nat
    BY NumbersKnown
  <1>4. Ending(evts[k]) \/ Opens(evts[k]) => activeOp # 0
    BY NumbersKnown
  <1>5. Ending(evts[k]) => Unasked /\ Idle
    BY <1>1, <1>2, <1>3, <1>4 DEF AskedInOrder, AwaitedIsLast, Ahead, Unasked
  <1>6. Opens(evts[k]) => Vouches(evts[k])
    BY DEF Opens, Vouches
  <1>7. Opens(evts[k]) => Unasked /\ (Idle \/ Working)
    BY <1>1, <1>2, <1>3, <1>4, <1>6 DEF InTurn, Unheard, AwaitedIsLast, Unasked, BrowserOfTask
  <1> QED  BY <1>5, <1>7

LEMMA UiEventAnswers ==
  ASSUME AnswerInv, UiEvent
  PROVE  /\ AskedInOrder' /\ AwaitedIsLast' /\ BrowserOfTask' /\ NothingIsLeft'
         /\ PollAlone' /\ SyncedHolds' /\ DisconnectAlone'
  <1> DEFINE h == Head(evts)
  <1>1. /\ UNCHANGED <<cmds, nextOp, run, held, task, folder, poll, lane, auth, keyring, mailbox, drafts, stray, closures, fgate>>
        /\ Hears(h)
    BY WindowHears DEF workerVars, diskVars
  <1>2. /\ AskedInOrder /\ AwaitedIsLast /\ BrowserOfTask /\ NothingIsLeft
        /\ PollAlone /\ SyncedHolds /\ DisconnectAlone /\ LeavingIsBlank /\ KindKnown /\ Numbered
        /\ TypeOK /\ task.op \in Nat /\ held.op \in Nat /\ activeOp \in Nat /\ nextOp \in Nat
    BY NumbersKnown DEF AnswerInv, CleanInv, ShownInv, PollSessionInv
  <1>3. /\ 1 \in DOMAIN evts /\ evts[1] = h
        /\ \A i \in DOMAIN evts' : i \in Nat /\ i > 0 /\ i + 1 \in DOMAIN evts /\ evts'[i] = evts[i + 1]
    BY <1>2, WindowHears, Typed, Shortened
  <1> HIDE DEF h
  <1>4. EndsAwaited(h) => Unasked /\ Idle /\ activeOp # 0
    BY <1>3, EndedIsLast, NumbersKnown DEF EndsAwaited
  <1>5. AskedInOrder'
    BY <1>1, <1>2, <1>3 DEF AskedInOrder, Ahead, Idle
  <1>6. AwaitedIsLast'
    BY <1>1, <1>2 DEF AwaitedIsLast, Hears
  <1>7. \A i \in DOMAIN evts' : Loads(evts[i])' => Loads(evts[i + 1])
    BY <1>1, <1>3, NumbersKnown DEF Loads, Hears
  <1>8. BrowserOfTask'
    <2>1. \A k \in DOMAIN evts' : Opens(evts[k])' /\ evts'[k].op >= task'.op => Idle' \/ Working'
      BY <1>1, <1>2, <1>3 DEF BrowserOfTask, Opens, Idle, Working
    <2>2. ASSUME NEW k \in DOMAIN evts', NEW m \in DOMAIN evts', k < m, Opens(evts'[k]),
                 evts'[k].op = activeOp', Loads(evts[m])'
          PROVE  ~Working'
      <3>1. Opens(evts[k + 1]) /\ evts[k + 1].op = activeOp /\ k + 1 < m + 1 /\ Loads(evts[m + 1])
        BY <1>1, <1>3, <1>7, <2>2, NumbersKnown DEF Hears
      <3> QED  BY <1>1, <1>2, <1>3, <3>1 DEF BrowserOfTask, Working
    <2>3. ASSUME session' = "Authorizing"
          PROVE  /\ Unasked' /\ (Idle' \/ Working')
                 /\ Working' => \A k \in DOMAIN evts' : ~Loads(evts[k])'
      <3>1. CASE session = "Authorizing"
        BY <1>1, <1>2, <1>3, <1>7, <3>1 DEF BrowserOfTask, Unasked, Idle, Working
      <3>2. CASE Opens(h) /\ h.op = activeOp
        <4>1. Unasked /\ (Idle \/ Working)
          BY <1>3, <3>2, EndedIsLast
        <4>2. \A k \in DOMAIN evts' : 1 < k + 1
          BY <1>3
        <4>3. Working => \A k \in DOMAIN evts' : ~Loads(evts[k + 1])
          BY <1>2, <1>3, <3>2, <4>2 DEF BrowserOfTask
        <4> QED  BY <1>1, <1>7, <4>1, <4>3 DEF Unasked, Idle, Working
      <3> QED  BY <1>1, <2>3, <3>1, <3>2 DEF Hears
    <2> QED  BY <2>1, <2>2, <2>3 DEF BrowserOfTask
  <1>9. NothingIsLeft'
    <2> SUFFICES ASSUME activeOp' = 0 PROVE NothingIsLeft'
      BY DEF NothingIsLeft
    <2>1. CASE activeOp = 0
      <3>1. ~EndsAwaited(h)
        BY <1>4, <2>1
      <3>2. Unasked /\ (WillStop \/ (Working /\ session # "Ready" /\ \A k \in DOMAIN evts : ~Loads(evts[k])))
        BY <1>2, <2>1 DEF NothingIsLeft
      <3>3. (\A k \in DOMAIN evts : ~Loads(evts[k])) /\ session # "Ready" => session' # "Ready"
        BY <1>1, <1>3, <3>1 DEF Hears
      <3>4. (\A k \in DOMAIN evts : ~Loads(evts[k])) => \A k \in DOMAIN evts' : ~Loads(evts[k])'
        BY <1>3, <1>7
      <3> QED  BY <1>1, <3>2, <3>3, <3>4 DEF NothingIsLeft, Unasked, WillStop, Idle, Working
    <2>2. CASE activeOp # 0
      BY <1>1, <1>4, <2>2 DEF Hears, NothingIsLeft, Unasked, WillStop, Idle
    <2> QED  BY <2>1, <2>2
  <1>10. PollAlone'
    BY <1>1, <1>2 DEF PollAlone, Idle
  <1>11. SyncedHolds'
    <2>1. \A k \in DOMAIN evts' : evts'[k].type = "SyncComplete" /\ evts'[k].op = activeOp' => activeOp' = activeOp
      BY <1>1, <1>3, NumbersKnown DEF Hears, Ending
    <2> QED  BY <1>1, <1>2, <1>3, <2>1 DEF SyncedHolds, Holds
  <1>12. DisconnectAlone'
    <2>1. CASE ~Gone
      <3>1. ~Gone'
        BY <1>1, <2>1 DEF Hears, Gone
      <3> QED  BY <1>1, <1>2, <2>1, <3>1 DEF DisconnectAlone, OnlyLeaves, Still, Emptied
    <2>2. CASE Gone /\ activeOp' # 0
      <3>1. ~(Opens(h) /\ h.op = activeOp)
        BY <1>2, <1>3, <2>2 DEF Opens, Vouches, KindKnown, KindAgrees, Gone
      <3>2. ~(h.type \in {"FolderLoaded", "FolderFailed"} /\ h.op = uiFolder)
        BY <1>2, <1>3, <2>2, NumbersKnown DEF LeavingIsBlank, Blank, Gone, Numbered
      <3>3. Gone' /\ session' \in {session, "Syncing"}
        BY <1>1, <2>2, <3>1, <3>2 DEF Hears, Gone
      <3> QED  BY <1>1, <1>2, <2>2, <3>3 DEF DisconnectAlone, OnlyLeaves, Still, Emptied
    <2>3. CASE Gone /\ activeOp' = 0
      <3>1. Unasked /\ Idle
        BY <1>1, <1>4, <2>3 DEF Hears, Gone
      <3>2. held.type # "Disconnect" /\ task.pc \notin DisconnectPhases
            /\ \A i \in DOMAIN cmds : cmds[i].type # "Disconnect"
        BY <3>1 DEF Unasked, Idle, DisconnectPhases, NoCmd, Cmd, Boundary, BoundaryKinds
      <3> QED  BY <1>1, <2>3, <3>2 DEF DisconnectAlone, Gone
    <2> QED  BY <2>1, <2>2, <2>3
  <1> QED  BY <1>5, <1>6, <1>8, <1>9, <1>10, <1>11, <1>12

-----------------------------------------------------------------------------
(* Steps of the worker *)

\* Events are added at the end.
Grows ==
    /\ \A k \in DOMAIN evts : k \in DOMAIN evts' /\ evts'[k] = evts[k]
    /\ \A k \in DOMAIN evts' : k \in DOMAIN evts \/ \A i \in DOMAIN evts : i < k

LEMMA Adding ==
  ASSUME TypeOK, NEW e, evts' = Append(evts, e)
  PROVE  Grows
  BY Typed, Appended DEF Grows

LEMMA WorkerAdds ==
  ASSUME TypeOK, CtlStep \/ TaskStep \/ PollStep \/ FolderStep \/ RunClosure
  PROVE  Grows
  <1>1. ASSUME UNCHANGED evts PROVE Grows
    BY <1>1 DEF Grows
  <1>2. ASSUME NEW e, Emit(e) PROVE Grows
    BY <1>2, Adding DEF Emit
  <1>3. \A f, k : FailTask(f, k) => Grows
    BY <1>2 DEF FailTask
  <1>4. \A k : PollFail(k) => Grows
    BY <1>1, <1>2 DEF PollFail
  <1>5. CASE CtlStep
    BY <1>1, <1>2, <1>5 DEF CtlStep, CtlCancel, CtlBackgroundSync, CtlFetchFolder, CtlBoundary, CtlDisconnect,
                            CtlStartSync, CtlShutdown, CtlReap
  <1>6. CASE TaskStep
    BY <1>1, <1>2, <1>3, <1>6
       DEF TaskStep, TaskAcquireLane, ConnectListen, ConnectCallback, ConnectExchange,
           RestoreLoad, RestoreRefresh, RestoreIdentity, TaskVerified, TaskAuthorize, TaskMark, TaskSave,
           TaskFetch, TaskSynced, TaskCacheError, DisconnectBegin, DisconnectDrafts, DisconnectToken
  <1>7. CASE PollStep
    BY <1>1, <1>2, <1>4, <1>7 DEF PollStep, PollAuth, PollRefresh, PollPermit, PollReplace, PollFetch, PollLane,
                                  PollPublish, PollLeave
  <1>8. CASE FolderCredentials
    <2> DEFINE d == Evt("FolderCacheLoaded", folder.id, folder.acct)
               e == Failure("FolderFailed", folder.id, "auth", TRUE)
               s == Append(evts, d)
    <2>1. d \in Event /\ evts \in Seq(Event)
      BY EvtType, Typed DEF EventTypes, Folder
    <2>2. evts' \in {evts, Append(evts, d), Append(evts, e), Append(Append(evts, d), e)}
      BY <1>8 DEF FolderCredentials
    <2> HIDE DEF d, e
    <2>3. CASE evts' = Append(s, e)
      <3>1. /\ \A k \in DOMAIN evts : k \in DOMAIN s /\ s[k] = evts[k] /\ k \in Nat
            /\ \A k \in DOMAIN s : k \in DOMAIN evts \/ \A i \in DOMAIN evts : i < k
        BY <2>1, Appended
      <3>2. s \in Seq(Event)
        BY <2>1, AppendType
      <3> HIDE DEF s
      <3>3. /\ \A k \in DOMAIN s : k \in DOMAIN evts' /\ evts'[k] = s[k] /\ k \in Nat
            /\ \A k \in DOMAIN evts' : k \in DOMAIN s \/ \A i \in DOMAIN s : i < k
        BY <2>3, <3>2, Appended
      <3> QED  BY <3>1, <3>3 DEF Grows
    <2> QED  BY <1>1, <2>2, <2>3, Adding
  <1>9. CASE FolderLane \/ FolderFetch \/ FolderPublish
    BY <1>1, <1>2, <1>9 DEF FolderLane, FolderFetch, FolderPublish
  <1>10. CASE RunClosure
    BY <1>1, <1>10 DEF RunClosure, RunPrepare, RunSync, RunClear, EnterGated, WriteGated, NotClosure
  <1> QED  BY <1>5, <1>6, <1>7, <1>8, <1>9, <1>10 DEF FolderStep

\* What a step says that takes no command: an answer is the task's last word.
NewSays(e) ==
    /\ Ending(e) => e.op = task.op /\ ~Idle /\ Idle'
    /\ Opens(e) => e.op = task.op /\ Working'
    /\ e.type = "FolderLoaded" => ~Working /\ ~Working'

LEMMA WorkerAnswers ==
  ASSUME AnswerInv, TypeOK', Grows, UNCHANGED <<uiVars, cmds, held>>, task'.op = task.op,
         Idle => Idle', Working => Working' \/ Idle', Working' => Working \/ task.pc = "start",
         \A k \in DOMAIN evts' : Old(k) \/ NewSays(evts'[k])
  PROVE  AskedInOrder' /\ AwaitedIsLast' /\ BrowserOfTask' /\ NothingIsLeft'
  <1>1. /\ AskedInOrder /\ AwaitedIsLast /\ BrowserOfTask /\ NothingIsLeft /\ ShownInv
        /\ task.op \in Nat /\ held.op \in Nat /\ activeOp \in Nat /\ nextOp \in Nat
    BY NumbersKnown DEF AnswerInv, CleanInv
  <1>2. UNCHANGED <<activeOp, nextOp, session, uiFolder>>
    BY DEF uiVars
  <1>3. task.pc = "start" => ~Idle /\ ~Working
    BY DEF Idle, Working, SyncPhases
  <1>4. AskedInOrder'
    <2>1. ASSUME NEW n \in Nat, Ahead(n) PROVE Ahead(n)'
      BY <1>1, <1>2, <2>1 DEF Ahead, Old, NewSays
    <2>2. held' # NoCmd => Ahead(held.op)'
      <3>1. PICK n \in Nat : n = held.op
        BY <1>1
      <3> QED  BY <1>1, <2>1, <3>1 DEF AskedInOrder, Ahead
    <2>3. ASSUME NEW i \in DOMAIN cmds', Asks(cmds'[i]) PROVE Ahead(cmds[i].op)' /\ held'.op < cmds'[i].op
      <3>1. PICK n \in Nat : n = cmds[i].op
        BY NumbersKnown
      <3> QED  BY <1>1, <2>1, <2>3, <3>1 DEF AskedInOrder, Ahead
    <2>4. ASSUME NEW k \in DOMAIN evts', Ending(evts'[k])
          PROVE  /\ evts'[k].op > 0 /\ evts'[k].op < nextOp'
                 /\ evts'[k].op >= task'.op => Idle'
      <3>1. CASE Old(k)
        BY <1>1, <1>2, <2>4, <3>1 DEF AskedInOrder, Old
      <3>2. CASE NewSays(evts'[k])
        <4>1. task.pc # "none"
          BY <2>4, <3>2 DEF NewSays, Idle
        <4> QED  BY <1>1, <1>2, <2>4, <3>2, <4>1, OpsKnown DEF NewSays
      <3> QED  BY <3>1, <3>2
    <2> QED  BY <1>1, <2>2, <2>3, <2>4 DEF AskedInOrder
  <1>5. AwaitedIsLast'
    BY <1>1, <1>2 DEF AwaitedIsLast
  <1>6. \A k \in DOMAIN evts' : Loads(evts[k])' => (Old(k) /\ Loads(evts[k])) \/ (~Working /\ ~Working')
    BY <1>2 DEF Loads, Old, NewSays
  <1>7. BrowserOfTask'
    <2>1. ASSUME NEW k \in DOMAIN evts', Opens(evts'[k]), evts'[k].op >= task'.op
          PROVE  Idle' \/ Working'
      BY <1>1, <2>1 DEF BrowserOfTask, Old, NewSays
    <2>2. ASSUME NEW k \in DOMAIN evts', NEW m \in DOMAIN evts', k < m, Opens(evts'[k]),
                 evts'[k].op = activeOp', Loads(evts[m])', Working'
          PROVE  FALSE
      <3>1. m \in DOMAIN evts /\ evts'[m] = evts[m] /\ Loads(evts[m])
        BY <1>6, <2>2 DEF Old
      <3>2. k \in DOMAIN evts /\ evts'[k] = evts[k]
        <4>1. k \in DOMAIN evts \/ m < k
          BY <3>1 DEF Grows
        <4>2. k \in Nat /\ m \in Nat
          <5>1. evts' \in Seq(Event)
            BY DEF TypeOK
          <5> QED  BY <5>1
        <4> QED  BY <2>2, <4>1, <4>2 DEF Grows
      <3>3. ~Working
        BY <1>1, <1>2, <2>2, <3>1, <3>2 DEF BrowserOfTask
      <3>4. Idle \/ Working
        <4>1. activeOp # 0
          BY <1>2, <2>2, <3>2, NumbersKnown
        <4> QED  BY <1>1, <1>2, <2>2, <3>2, <4>1 DEF BrowserOfTask, AwaitedIsLast
      <3> QED  BY <1>3, <2>2, <3>3, <3>4
    <2>3. ASSUME session' = "Authorizing"
          PROVE  /\ Unasked' /\ (Idle' \/ Working')
                 /\ Working' => \A k \in DOMAIN evts' : ~Loads(evts[k])'
      <3>1. /\ Unasked /\ (Idle \/ Working)
            /\ Working => \A k \in DOMAIN evts : ~Loads(evts[k])
        BY <1>1, <1>2, <2>3 DEF BrowserOfTask
      <3> QED  BY <1>3, <1>6, <3>1 DEF Unasked, Old
    <2> QED  BY <2>1, <2>2, <2>3 DEF BrowserOfTask
  <1>8. NothingIsLeft'
    <2> SUFFICES ASSUME activeOp' = 0 PROVE NothingIsLeft'
      BY DEF NothingIsLeft
    <2>1. Unasked /\ (WillStop \/ (Working /\ session # "Ready" /\ \A k \in DOMAIN evts : ~Loads(evts[k])))
      BY <1>1, <1>2 DEF NothingIsLeft
    <2>2. WillStop => WillStop'
      BY DEF WillStop
    <2>3. Working /\ (\A k \in DOMAIN evts : ~Loads(evts[k])) => \A k \in DOMAIN evts' : ~Loads(evts[k])'
      BY <1>6 DEF Old
    <2> QED  BY <1>2, <2>1, <2>2, <2>3 DEF NothingIsLeft, Unasked, WillStop
  <1> QED  BY <1>4, <1>5, <1>7, <1>8

\* Where a step of the task leads, and what it has in hand then.
TaskPaths ==
    /\ Working => Working' \/ Idle'
    /\ Working' => Working \/ task.pc = "start"
    /\ lane = "folder" => lane' = "folder"
    /\ task.pc = "config" => task'.pc \in {"browser", "finished"}

LEMMA TaskLeads ==
  ASSUME TypeOK, TaskStep
  PROVE  TaskPaths
  <1>1. task \in Task
    BY Typed
  <1>2. ASSUME NEW pc, Goto(pc) PROVE task'.pc = pc
    BY <1>1, <1>2 DEF Goto, Task
  <1>3. Freed({"task"}) = IF lane = "task" THEN "free" ELSE lane
    BY DEF Freed
  <1>4. ASSUME NEW f, NEW k, FailTask(f, k) PROVE TaskPaths
    BY <1>2, <1>3, <1>4 DEF FailTask, TaskPaths, Idle, Working, SyncPhases
  <1>5. ASSUME Finish PROVE TaskPaths
    BY <1>2, <1>3, <1>5 DEF Finish, TaskPaths, Idle, Working, SyncPhases
  <1>6. ASSUME Working, task.pc # "config", Working', UNCHANGED lane PROVE TaskPaths
    BY <1>6 DEF TaskPaths
  <1>7. CASE TaskAcquireLane
    BY <1>2, <1>7 DEF TaskAcquireLane, At, TaskPaths, Working, SyncPhases
  <1>8. CASE ConnectListen
    <2>1. CASE Goto("browser") /\ KeepLane
      BY <1>2, <1>8, <2>1 DEF ConnectListen, At, KeepLane, TaskPaths, Working, SyncPhases
    <2> QED  BY <1>4, <1>8, <2>1 DEF ConnectListen
  <1>9. CASE ConnectCallback
    <2>1. CASE Goto("exchange") /\ KeepLane
      BY <1>2, <1>6, <1>9, <2>1 DEF ConnectCallback, At, KeepLane, Working, SyncPhases
    <2> QED  BY <1>4, <1>9, <2>1 DEF ConnectCallback
  <1>10. CASE ConnectExchange
    <2>1. ASSUME NEW a, task' = [task EXCEPT !.pc = "prepare", !.acct = a], KeepLane PROVE TaskPaths
      <3>1. task'.pc = "prepare"
        BY <1>1, <2>1 DEF Task
      <3> QED  BY <1>6, <1>10, <2>1, <3>1 DEF ConnectExchange, At, KeepLane, Working, SyncPhases
    <2> QED  BY <1>4, <1>10, <2>1 DEF ConnectExchange
  <1>11. CASE RestoreLoad
    <2>1. ASSUME NEW a, NEW b, task' = [task EXCEPT !.pc = "refresh", !.acct = a, !.cached = b], KeepLane PROVE TaskPaths
      <3>1. task'.pc = "refresh"
        BY <1>1, <2>1 DEF Task
      <3> QED  BY <1>6, <1>11, <2>1, <3>1 DEF RestoreLoad, At, KeepLane, Working, SyncPhases
    <2> QED  BY <1>4, <1>5, <1>11, <2>1 DEF RestoreLoad
  <1>12. CASE RestoreRefresh
    <2>1. ASSUME NEW pc \in {"identity", "mark"}, Goto(pc), KeepLane PROVE TaskPaths
      BY <1>2, <1>6, <1>12, <2>1 DEF RestoreRefresh, At, KeepLane, Working, SyncPhases
    <2> QED  BY <1>4, <1>12, <2>1 DEF RestoreRefresh
  <1>13. CASE RestoreIdentity
    <2>1. CASE Goto("prepare") /\ KeepLane
      BY <1>2, <1>6, <1>13, <2>1 DEF RestoreIdentity, At, KeepLane, Working, SyncPhases
    <2> QED  BY <1>4, <1>13, <2>1 DEF RestoreIdentity
  <1>14. CASE TaskVerified \/ TaskMark
    BY <1>2, <1>6, <1>14 DEF TaskVerified, TaskMark, At, Working, SyncPhases
  <1>15. CASE TaskAuthorize
    <2>1. ASSUME NEW pc \in {"mark", "fetch"}, Goto(pc), KeepLane PROVE TaskPaths
      BY <1>2, <1>6, <1>15, <2>1 DEF TaskAuthorize, At, KeepLane, Working, SyncPhases
    <2> QED  BY <1>4, <1>15, <2>1 DEF TaskAuthorize
  <1>16. CASE TaskSave
    <2>1. ASSUME NEW pc \in {"fetch", "identity"}, Goto(pc), KeepLane PROVE TaskPaths
      BY <1>2, <1>6, <1>16, <2>1 DEF TaskSave, At, KeepLane, Working, SyncPhases
    <2> QED  BY <1>4, <1>16, <2>1 DEF TaskSave
  <1>17. CASE TaskFetch
    <2>1. CASE Goto("commit") /\ KeepLane
      BY <1>2, <1>6, <1>17, <2>1 DEF TaskFetch, At, KeepLane, Working, SyncPhases
    <2> QED  BY <1>4, <1>17, <2>1 DEF TaskFetch
  <1>18. CASE TaskSynced \/ TaskCacheError
    BY <1>4, <1>5, <1>18 DEF TaskSynced, TaskCacheError
  <1>19. CASE DisconnectBegin \/ DisconnectDrafts \/ DisconnectToken
    <2>1. task.pc \in {"begin", "drafts", "token"}
      BY <1>19 DEF DisconnectBegin, DisconnectDrafts, DisconnectToken, At
    <2>2. ASSUME NEW pc \in {"drafts", "clear"}, Goto(pc), UNCHANGED lane PROVE TaskPaths
      BY <1>2, <2>1, <2>2 DEF TaskPaths, Working, SyncPhases
    <2> QED  BY <1>4, <1>5, <1>19, <2>2 DEF DisconnectBegin, DisconnectDrafts, DisconnectToken, KeepLane
  <1> QED  BY <1>7, <1>8, <1>9, <1>10, <1>11, <1>12, <1>13, <1>14, <1>15, <1>16, <1>17, <1>18, <1>19 DEF TaskStep

\* What a task has in hand when it has got past the keyring and the authorization.
LEMMA TaskHoldsOn ==
  ASSUME TypeOK, TaskHolds, TaskPhases, TaskStep
  PROVE  TaskHolds'
  <1>1. task \in Task
    BY Typed
  <1>2. ASSUME NEW pc, Goto(pc) PROVE task'.pc = pc /\ task'.kind = task.kind /\ task'.acct = task.acct
    BY <1>1, <1>2 DEF Goto, Task
  <1>3. ASSUME task'.pc \in {"finished", "drafts", "clear"} PROVE TaskHolds'
    BY <1>3 DEF TaskHolds
  <1>4. \A f, k : FailTask(f, k) => TaskHolds'
    BY <1>2, <1>3 DEF FailTask
  <1>5. Finish => TaskHolds'
    BY <1>2, <1>3 DEF Finish
  <1>6. CASE TaskAcquireLane
    <2>1. task'.pc = (IF task.kind = "Connect" THEN "config" ELSE "load") /\ task'.kind = task.kind
      BY <1>2, <1>6 DEF TaskAcquireLane
    <2> QED  BY <2>1 DEF TaskHolds
  <1>7. CASE ConnectListen
    <2>1. CASE Goto("browser")
      BY <1>2, <1>7, <2>1 DEF ConnectListen, At, TaskHolds
    <2> QED  BY <1>4, <1>7, <2>1 DEF ConnectListen
  <1>8. CASE ConnectCallback
    <2>1. CASE Goto("exchange")
      BY <1>2, <1>8, <2>1 DEF ConnectCallback, At, TaskHolds
    <2> QED  BY <1>4, <1>8, <2>1 DEF ConnectCallback
  <1>9. CASE ConnectExchange
    <2>1. ASSUME NEW a, task' = [task EXCEPT !.pc = "prepare", !.acct = a] PROVE TaskHolds'
      <3>1. task'.pc = "prepare" /\ task'.kind = task.kind
        BY <1>1, <2>1 DEF Task
      <3> QED  BY <1>9, <3>1 DEF ConnectExchange, At, TaskHolds
    <2> QED  BY <1>4, <1>9, <2>1 DEF ConnectExchange
  <1>10. CASE RestoreLoad
    <2>1. CASE task' = [task EXCEPT !.pc = "refresh", !.acct = keyring, !.cached = mailbox]
      <3>1. task'.pc = "refresh" /\ task'.kind = task.kind /\ task'.acct = keyring
        BY <1>1, <2>1 DEF Task
      <3> QED  BY <1>10, <3>1 DEF RestoreLoad, At, TaskHolds, diskVars
    <2> QED  BY <1>4, <1>5, <1>10, <2>1 DEF RestoreLoad
  <1>11. CASE RestoreRefresh
    <2>1. ASSUME NEW pc \in {"identity", "mark"}, Goto(pc), UNCHANGED keyring PROVE TaskHolds'
      BY <1>2, <1>11, <2>1 DEF RestoreRefresh, At, TaskHolds
    <2> QED  BY <1>4, <1>11, <2>1 DEF RestoreRefresh
  <1>12. CASE RestoreIdentity
    <2>1. CASE Goto("prepare")
      BY <1>2, <1>12, <2>1 DEF RestoreIdentity, At, TaskHolds, diskVars
    <2> QED  BY <1>4, <1>12, <2>1 DEF RestoreIdentity
  <1>13. CASE TaskVerified
    BY <1>2, <1>13 DEF TaskVerified, At, TaskHolds, diskVars
  <1>14. CASE TaskAuthorize
    <2>1. ASSUME NEW pc \in {"mark", "fetch"}, Goto(pc), auth' = task.acct, UNCHANGED keyring,
                 pc = "mark" => task.kind = "Connect", pc = "fetch" => task.kind = "Restore"
          PROVE  TaskHolds'
      BY <1>2, <1>14, <2>1 DEF TaskAuthorize, At, TaskHolds, Holds
    <2> QED  BY <1>4, <1>14, <2>1 DEF TaskAuthorize, diskVars
  <1>15. CASE TaskMark
    BY <1>2, <1>15 DEF TaskMark, At, TaskHolds, diskVars
  <1>16. CASE TaskSave
    <2>1. task.kind # "Disconnect" /\ task.pc = "save" /\ auth' = auth
      BY <1>16 DEF TaskSave, At, TaskPhases, DisconnectPhases
    <2>2. CASE keyring' = task.acct /\ Goto(IF task.kind = "Connect" THEN "fetch" ELSE "identity")
      BY <1>2, <2>1, <2>2 DEF TaskHolds, Holds
    <2> QED  BY <1>4, <1>16, <2>2 DEF TaskSave
  <1>17. CASE TaskFetch
    <2>1. CASE Goto("commit")
      BY <1>2, <1>17, <2>1 DEF TaskFetch, At, TaskHolds, Holds, diskVars
    <2> QED  BY <1>4, <1>17, <2>1 DEF TaskFetch
  <1>18. CASE TaskSynced \/ TaskCacheError
    BY <1>4, <1>5, <1>18 DEF TaskSynced, TaskCacheError
  <1>19. CASE DisconnectBegin \/ DisconnectDrafts \/ DisconnectToken
    BY <1>2, <1>3, <1>4, <1>5, <1>19 DEF DisconnectBegin, DisconnectDrafts, DisconnectToken
  <1> QED  BY <1>6, <1>7, <1>8, <1>9, <1>10, <1>11, <1>12, <1>13, <1>14, <1>15, <1>16, <1>17, <1>18, <1>19 DEF TaskStep

LEMMA TaskStepAnswers ==
  ASSUME AnswerInv, CleanInv', TaskStep
  PROVE  AnswerInv'
  <1>1. /\ AskedInOrder /\ PollAlone /\ PollReplacesItsOwnToken /\ TaskHolds /\ SyncedHolds /\ DisconnectAlone
        /\ FolderHoldsLane /\ BrowserOfTask /\ ShownInv /\ TaskPhases /\ TypeOK /\ TaskHoldsLane
    BY DEF AnswerInv, CleanInv, ShownInv, PollSessionInv
  <1>2. TypeOK' /\ OneIdentity'
    BY DEF CleanInv, ShownInv, PollSessionInv
  <1>3. /\ UNCHANGED <<uiVars, cmds, held, poll, folder, fgate>>
        /\ task'.op = task.op /\ task'.kind = task.kind /\ task.pc \notin {"none", "finished"} /\ task'.pc # "none"
    BY <1>1, TaskMoves
  <1>4. ~Idle /\ TaskPaths /\ Grows /\ UNCHANGED <<activeOp, recovery, session, run>>
    <2>1. UNCHANGED run
      BY DEF TaskStep, TaskAcquireLane, ConnectListen, ConnectCallback, ConnectExchange,
           RestoreLoad, RestoreRefresh, RestoreIdentity, TaskVerified, TaskAuthorize, TaskMark, TaskSave,
           TaskFetch, TaskSynced, TaskCacheError, DisconnectBegin, DisconnectDrafts, DisconnectToken,
           NotTask, NotWorker
    <2> QED  BY <1>1, <1>3, <2>1, TaskLeads, WorkerAdds DEF Idle, uiVars
  <1>5. ASSUME NEW k \in DOMAIN evts', ~Old(k)
        PROVE  TaskSays(evts'[k])
    BY <1>1, <1>5, TaskSpeaks
  <1>6. ASSUME NEW k \in DOMAIN evts', ~Old(k)
        PROVE  /\ Ending(evts'[k]) => Idle'
               /\ evts'[k].type = "SyncComplete" => task.pc = "synced"
    <2>1. ASSUME UNCHANGED evts PROVE FALSE
      BY <1>5, <1>6, <2>1 DEF Old
    <2>2. ASSUME NEW t, NEW n, NEW a, Emit(Evt(t, n, a)) PROVE evts'[k].type = t
      BY <1>1, <1>6, <2>2, Adds, EvtIs DEF Emit
    <2>3. ASSUME NEW f, NEW keep, FailTask(f, keep) PROVE evts'[k].type = "Failed" /\ Idle'
      <3>1. task'.pc = "finished"
        BY <1>1, <2>3, Typed DEF FailTask, Goto, Task
      <3> QED  BY <1>1, <1>6, <2>3, <3>1, Adds, FailureIs DEF FailTask, Emit, Idle
    <2>4. Finish => Idle'
      BY <1>1, Typed DEF Finish, Goto, Task, Idle
    <2>5. CASE TaskAcquireLane \/ TaskMark
      BY <2>1, <2>5 DEF TaskAcquireLane, TaskMark
    <2>6. CASE ConnectListen \/ ConnectCallback
      BY <2>2, <2>3, <2>6 DEF ConnectListen, ConnectCallback, Ending
    <2>7. CASE ConnectExchange \/ RestoreRefresh \/ RestoreIdentity \/ TaskFetch \/ DisconnectDrafts \/ TaskCacheError \/ TaskSave
      BY <2>1, <2>3, <2>7 DEF ConnectExchange, RestoreRefresh, RestoreIdentity, TaskFetch, DisconnectDrafts, TaskCacheError, TaskSave
    <2>8. CASE RestoreLoad
      BY <2>1, <2>2, <2>3, <2>4, <2>8 DEF RestoreLoad
    <2>9. CASE TaskVerified \/ DisconnectBegin
      BY <2>2, <2>9 DEF TaskVerified, DisconnectBegin, Ending
    <2>10. CASE TaskAuthorize
      BY <2>1, <2>2, <2>3, <2>10 DEF TaskAuthorize, Ending
    <2>11. CASE TaskSynced
      BY <2>4, <2>11 DEF TaskSynced, At
    <2>12. CASE DisconnectToken
      BY <2>2, <2>3, <2>4, <2>12 DEF DisconnectToken
    <2> QED  BY <2>5, <2>6, <2>7, <2>8, <2>9, <2>10, <2>11, <2>12 DEF TaskStep
  <1>7. ASSUME NEW k \in DOMAIN evts', ~Old(k)
        PROVE  NewSays(evts'[k])
    <2>1. TaskSays(evts'[k]) /\ (Ending(evts'[k]) => Idle')
      BY <1>5, <1>6, <1>7
    <2>2. Opens(evts'[k]) => Working'
      <3>1. Opens(evts'[k]) => task.pc = "config"
        BY <2>1 DEF TaskSays, Opens, Announces
      <3>2. ASSUME Opens(evts'[k]) PROVE task'.pc = "browser"
        <4>1. ASSUME NEW f, NEW keep, FailTask(f, keep) PROVE evts'[k].type = "Failed"
          BY <1>1, <1>7, <4>1, Adds, FailureIs DEF FailTask, Emit
        <4>2. ConnectListen
          BY <3>1, <3>2
             DEF TaskStep, TaskAcquireLane, ConnectListen, ConnectCallback, ConnectExchange,
                 RestoreLoad, RestoreRefresh, RestoreIdentity, TaskVerified, TaskAuthorize, TaskMark, TaskSave,
                 TaskFetch, TaskSynced, TaskCacheError, DisconnectBegin, DisconnectDrafts, DisconnectToken, At
        <4>3. Goto("browser")
          BY <3>2, <4>1, <4>2 DEF ConnectListen, Opens
        <4> QED  BY <1>1, <4>3, Typed DEF Goto, Task
      <3> QED  BY <3>2 DEF Working, SyncPhases
    <2>3. evts'[k].type # "FolderLoaded"
      BY <2>1 DEF TaskSays, Announces
    <2> QED  BY <1>4, <2>1, <2>2, <2>3 DEF NewSays, TaskSays
  <1>8. AskedInOrder' /\ AwaitedIsLast' /\ BrowserOfTask' /\ NothingIsLeft'
    BY <1>2, <1>3, <1>4, <1>7, WorkerAnswers DEF TaskPaths
  <1>9. FolderHoldsLane'
    BY <1>1, <1>3, <1>4 DEF FolderHoldsLane, TaskPaths
  <1>10. PollAlone' /\ PollReplacesItsOwnToken'
    BY <1>1, <1>3, <1>4 DEF PollAlone, PollReplacesItsOwnToken
  <1>11. TaskHolds'
    BY <1>1, TaskHoldsOn
  \* The answer to a synchronization is its task's last word.
  <1>12. SyncedHolds'
    <2>1. ASSUME run' = "up", NEW k \in DOMAIN evts', evts'[k].type = "SyncComplete", evts'[k].op = activeOp'
          PROVE  Holds(evts[k].acct)'
      <3>1. ~Old(k)
        <4>1. ASSUME Old(k) PROVE FALSE
          <5>1. k \in DOMAIN evts /\ Ending(evts[k]) /\ evts[k].op = activeOp
            BY <1>4, <2>1, <4>1 DEF Old, Ending
          <5> QED  BY <1>4, <5>1, EndedIsLast
        <4> QED  BY <4>1
      <3>2. TaskSays(evts'[k]) /\ task.pc = "synced"
        BY <1>5, <1>6, <2>1, <3>1
      <3>3. TaskSynced
        BY <3>2
           DEF TaskStep, TaskAcquireLane, ConnectListen, ConnectCallback, ConnectExchange,
               RestoreLoad, RestoreRefresh, RestoreIdentity, TaskVerified, TaskAuthorize, TaskMark, TaskSave,
               TaskFetch, TaskSynced, TaskCacheError, DisconnectBegin, DisconnectDrafts, DisconnectToken, At
      <3>4. task'.acct = task.acct /\ UNCHANGED <<auth, keyring>>
        BY <1>1, <3>3, Typed DEF TaskSynced, Finish, Goto, Task, diskVars
      <3>5. evts'[k].acct = task.acct
        BY <1>2, <1>3, <2>1, <3>2, <3>4 DEF OneIdentity, Announces, TaskSays
      <3> QED  BY <1>1, <3>2, <3>4, <3>5 DEF TaskHolds, Holds
    <2> QED  BY <1>1, <1>3, <1>4, <2>1 DEF SyncedHolds
  <1>13. DisconnectAlone'
    <2>1. CASE task.pc \notin DisconnectPhases
      <3>1. task'.pc \notin DisconnectPhases
        BY <1>1, <2>1, TaskMoves
      <3> QED  BY <1>1, <1>3, <1>4, <3>1 DEF DisconnectAlone, Gone, OnlyLeaves
    <2>2. CASE task.pc \in DisconnectPhases
      <3>1. /\ UNCHANGED <<auth, mailbox, stray>> /\ task'.acct = task.acct
            /\ \/ task'.pc \in {"finished", "drafts"}
               \/ task'.pc = "clear" /\ task.acct \notin drafts'
        BY <1>1, <2>2, TaskMoves
      <3> QED  BY <1>1, <1>3, <1>4, <2>2, <3>1 DEF DisconnectAlone, Gone, OnlyLeaves, Still, DisconnectPhases
    <2> QED  BY <2>1, <2>2
  <1> QED  BY <1>8, <1>9, <1>10, <1>11, <1>12, <1>13 DEF AnswerInv

\* No task is at work when a poll is.  The check that the poll is current is made
\* behind the last boundary, and nothing crosses one before the token is stored.
LEMMA PollStepAnswers ==
  ASSUME AnswerInv, CleanInv', PollStep
  PROVE  AnswerInv'
  <1>1. /\ AskedInOrder /\ PollAlone /\ PollReplacesItsOwnToken /\ TaskHolds /\ SyncedHolds /\ DisconnectAlone
        /\ FolderHoldsLane /\ BrowserOfTask /\ ShownInv /\ TypeOK /\ TypeOK'
    BY DEF AnswerInv, CleanInv, ShownInv, PollSessionInv
  <1>2. /\ UNCHANGED <<uiVars, cmds, held, task, folder, auth, run, epoch, fgate, mailbox, drafts, stray>>
        /\ keyring' \in {keyring, poll.acct} /\ (poll.pc # "replace" => keyring' = keyring)
        /\ poll.pc # "none"
    BY DEF PollStep, PollAuth, PollRefresh, PollPermit, PollReplace, PollFetch, PollLane, PollPublish, PollAt, NotPoll, NotWorker
  <1>3. poll \in Poll /\ UNCHANGED <<activeOp, recovery, session>>
    BY <1>1, <1>2 DEF TypeOK, WorkerTypeOK, uiVars
  <1>4. Idle /\ Idle' /\ held = NoCmd /\ poll.acct # NoAccount /\ Grows
    BY <1>1, <1>2, WorkerAdds DEF PollAlone, Idle
  <1>5. ASSUME NEW pc, PollGoto(pc) PROVE poll'.acct = poll.acct /\ poll'.pc = pc
    BY <1>3, <1>5 DEF PollGoto, Poll
  <1>6. /\ poll'.acct = poll.acct
        /\ poll'.pc = "replace" => auth = poll.acct
        /\ lane = "folder" => lane' = "folder"
    <2>1. ASSUME NEW pc \in {"fetch", "refresh", "permit", "lane"}, PollGoto(pc), UNCHANGED lane
          PROVE  poll'.acct = poll.acct /\ poll'.pc # "replace" /\ UNCHANGED lane
      BY <1>5, <2>1
    <2>2. ASSUME PollGoto("finished"), lane' = Freed({"poll"})
          PROVE  poll'.acct = poll.acct /\ poll'.pc # "replace" /\ (lane = "folder" => lane' = "folder")
      BY <1>5, <2>2 DEF Freed
    <2>3. CASE PollAuth \/ PollRefresh \/ PollReplace \/ PollFetch \/ PollPublish
      BY <2>1, <2>2, <2>3 DEF PollAuth, PollRefresh, PollReplace, PollFetch, PollPublish, PollFail, PollLeave
    <2>4. CASE PollPermit
      BY <1>5, <2>2, <2>4 DEF PollPermit, PollLeave, Current
    <2>5. CASE PollLane
      BY <1>5, <2>2, <2>5 DEF PollLane, PollLeave
    <2> QED  BY <2>3, <2>4, <2>5 DEF PollStep
  <1>7. ASSUME NEW k \in DOMAIN evts', ~Old(k) PROVE NewSays(evts'[k])
    BY <1>1, <1>7, PollSays DEF NewSays, Ending, Opens
  <1>8. AskedInOrder' /\ AwaitedIsLast' /\ BrowserOfTask' /\ NothingIsLeft'
    BY <1>1, <1>2, <1>4, <1>7, WorkerAnswers DEF Working
  <1>9. FolderHoldsLane'
    BY <1>1, <1>2, <1>6 DEF FolderHoldsLane
  <1>10. PollAlone' /\ PollReplacesItsOwnToken'
    BY <1>1, <1>2, <1>4, <1>6 DEF PollAlone, PollReplacesItsOwnToken
  <1>11. TaskHolds'
    BY <1>1, <1>2, <1>4 DEF TaskHolds, Idle
  <1>12. SyncedHolds'
    <2>1. ASSUME run' = "up", NEW k \in DOMAIN evts', evts'[k].type = "SyncComplete", evts'[k].op = activeOp'
          PROVE  Holds(evts[k].acct)'
      <3>1. Old(k)
        BY <1>1, <2>1, PollSays
      <3>2. Holds(evts[k].acct)
        BY <1>1, <1>2, <1>3, <2>1, <3>1 DEF SyncedHolds, Old
      <3>3. keyring' = keyring \/ keyring' = auth
        BY <1>1, <1>2 DEF PollReplacesItsOwnToken
      <3> QED  BY <1>2, <3>1, <3>2, <3>3 DEF Holds, Old
    <2> QED  BY <1>1, <1>2, <2>1 DEF SyncedHolds
  <1>13. DisconnectAlone'
    <2>1. task.pc \notin DisconnectPhases /\ held.type # "Disconnect"
      BY <1>4 DEF Idle, DisconnectPhases, NoCmd, Cmd
    <2> QED  BY <1>1, <1>2, <1>3, <2>1 DEF DisconnectAlone, Gone
  <1> QED  BY <1>8, <1>9, <1>10, <1>11, <1>12, <1>13 DEF AnswerInv

LEMMA FolderStepAnswers ==
  ASSUME AnswerInv, CleanInv', FolderStep
  PROVE  AnswerInv'
  <1>1. /\ AskedInOrder /\ PollAlone /\ PollReplacesItsOwnToken /\ TaskHolds /\ SyncedHolds /\ DisconnectAlone
        /\ FolderHoldsLane /\ BrowserOfTask /\ ShownInv /\ TypeOK /\ TypeOK' /\ TaskHoldsLane
    BY DEF AnswerInv, CleanInv, ShownInv, PollSessionInv
  <1>2. /\ UNCHANGED <<uiVars, cmds, held, task, poll, auth, run, epoch, fgate, keyring, mailbox, drafts, stray>>
        /\ folder.pc # "none"
    BY DEF FolderStep, FolderCredentials, FolderLane, FolderFetch, FolderPublish, FolderAt, NotFolder, NotWorker, diskVars
  <1>3. UNCHANGED <<activeOp, recovery, session>> /\ folder \in Folder /\ Grows
    BY <1>1, <1>2, WorkerAdds DEF TypeOK, WorkerTypeOK, uiVars
  <1>4. FolderHoldsLane'
    <2>1. FolderEnd => FolderHoldsLane'
      BY DEF FolderEnd, FolderHoldsLane, NoFolder
    <2>2. ASSUME NEW pc, folder' = [folder EXCEPT !.pc = pc] PROVE folder'.pc = pc
      BY <1>3, <2>2 DEF Folder
    <2>3. CASE FolderCredentials
      BY <2>1, <2>2, <2>3 DEF FolderCredentials, FolderHoldsLane
    <2>4. CASE FolderLane
      BY <2>1, <2>4 DEF FolderLane, FolderHoldsLane
    <2>5. CASE FolderFetch
      BY <1>1, <2>1, <2>5 DEF FolderFetch, FolderAt, FolderHoldsLane
    <2>6. CASE FolderPublish
      BY <2>1, <2>6 DEF FolderPublish
    <2> QED  BY <2>3, <2>4, <2>5, <2>6 DEF FolderStep
  \* A folder is announced by a task that holds the lane, hence by no sign-in's side.
  <1>5. ASSUME NEW k \in DOMAIN evts', ~Old(k) PROVE NewSays(evts'[k])
    <2>1. evts'[k].type \in {"FolderCacheLoaded", "FolderLoaded", "FolderFailed"}
      BY <1>1, <1>5, FolderSays
    <2>2. evts'[k].type = "FolderLoaded" => ~Working
      <3>1. ASSUME UNCHANGED evts PROVE FALSE
        BY <1>5, <3>1 DEF Old
      <3>2. CASE FolderCredentials
        <4> DEFINE d == Evt("FolderCacheLoaded", folder.id, folder.acct)
                   e == Failure("FolderFailed", folder.id, "auth", TRUE)
                   s == Append(evts, d)
        <4>1. d \in Event /\ evts \in Seq(Event)
          BY <1>1, <1>3, EvtType, Typed DEF EventTypes, Folder
        <4>2. d.type = "FolderCacheLoaded" /\ e.type = "FolderFailed"
          BY DEF Evt, Failure
        <4>3. evts' \in {evts, Append(evts, d), Append(evts, e), Append(Append(evts, d), e)}
          BY <3>2 DEF FolderCredentials
        <4> HIDE DEF d, e
        <4>4. CASE evts' = Append(s, e)
          <5>1. \A j \in DOMAIN s : (j \in DOMAIN evts /\ s[j] = evts[j]) \/ s[j] = d
            BY <4>1, Appended
          <5>2. s \in Seq(Event)
            BY <4>1, AppendType
          <5> HIDE DEF s
          <5>3. (k \in DOMAIN s /\ evts'[k] = s[k]) \/ evts'[k] = e
            BY <4>4, <5>2, Appended
          <5> QED  BY <1>5, <4>2, <5>1, <5>3 DEF Old
        <4> QED  BY <1>1, <1>5, <3>1, <4>2, <4>3, <4>4, Adds
      <3>3. CASE FolderLane \/ FolderFetch
        <4>1. ASSUME NEW f, Emit(Failure("FolderFailed", folder.id, f, TRUE))
              PROVE  evts'[k].type = "FolderFailed"
          <5>1. evts' = Append(evts, Failure("FolderFailed", folder.id, f, TRUE)) /\ TypeOK
            BY <1>1, <4>1 DEF Emit
          <5> QED  BY <1>5, <5>1, Adds DEF Failure
        <4> QED  BY <3>1, <3>3, <4>1 DEF FolderLane, FolderFetch
      <3>4. CASE FolderPublish
        <4>1. lane = "folder"
          BY <1>1, <3>4 DEF FolderPublish, FolderAt, FolderHoldsLane
        <4> QED  BY <1>1, <4>1 DEF TaskHoldsLane, Working
      <3> QED  BY <3>2, <3>3, <3>4 DEF FolderStep
    <2> QED  BY <1>2, <2>1, <2>2 DEF NewSays, Ending, Opens, Working
  <1>6. AskedInOrder' /\ AwaitedIsLast' /\ BrowserOfTask' /\ NothingIsLeft'
    BY <1>1, <1>2, <1>3, <1>5, WorkerAnswers DEF Working, Idle
  <1>7. PollAlone' /\ PollReplacesItsOwnToken'
    BY <1>1, <1>2 DEF PollAlone, PollReplacesItsOwnToken, Idle
  <1>8. TaskHolds'
    BY <1>1, <1>2 DEF TaskHolds, Holds
  <1>9. SyncedHolds'
    <2>1. \A k \in DOMAIN evts' : evts'[k].type = "SyncComplete" => Old(k)
      BY <1>1, FolderSays
    <2> QED  BY <1>1, <1>2, <1>3, <2>1 DEF SyncedHolds, Holds, Old
  <1>10. DisconnectAlone'
    <2>1. Still => FALSE
      BY <1>2 DEF Still, NoFolder
    <2>2. task.pc \notin DisconnectPhases
      BY <1>1, <2>1 DEF DisconnectAlone
    <2> QED  BY <1>1, <1>2, <1>3, <2>2 DEF DisconnectAlone, Gone, OnlyLeaves
  <1> QED  BY <1>4, <1>6, <1>7, <1>8, <1>9, <1>10 DEF AnswerInv

LEMMA RunClosureAnswers ==
  ASSUME AnswerInv, CleanInv', RunClosure
  PROVE  AnswerInv'
  <1>1. /\ AskedInOrder /\ PollAlone /\ PollReplacesItsOwnToken /\ TaskHolds /\ SyncedHolds /\ DisconnectAlone
        /\ FolderHoldsLane /\ BrowserOfTask /\ ShownInv /\ TypeOK /\ TypeOK' /\ CleanInv
    BY DEF AnswerInv, CleanInv, ShownInv, PollSessionInv
  <1>2. /\ UNCHANGED <<uiVars, cmds, evts, held, auth, fgate, keyring, drafts>>
        /\ task'.op = task.op /\ task'.kind = task.kind /\ task'.acct = task.acct
        /\ \/ task'.pc = task.pc
           \/ task.pc = "prepare" /\ task'.pc \in {"verified", "prepareErr"}
           \/ task.pc = "commit" /\ task'.pc \in {"synced", "commitErr"}
           \/ task.pc = "clear" /\ (task'.pc = "clearErr" \/ (task'.pc = "token" /\ Emptied'))
        /\ poll' = poll \/ poll.pc = "commit"
        /\ folder' = folder \/ folder.pc = "commit"
        /\ Still /\ Emptied /\ task.pc # "commit" => Emptied'
    BY <1>1, RunMoves
  <1>3. UNCHANGED <<activeOp, recovery, session>> /\ Grows
    BY <1>1, <1>2, WorkerAdds DEF uiVars
  <1>4. UNCHANGED <<run, lane, epoch>>
    BY DEF RunClosure, RunPrepare, RunSync, RunClear, EnterGated, WriteGated, NotClosure, NotWorker
  <1>5. poll' = poll \/ (poll'.acct = poll.acct /\ poll'.pc \in {"saved", "savedErr", "stale"})
    <2>1. poll \in Poll
      BY <1>1 DEF TypeOK, WorkerTypeOK
    <2>2. ASSUME NEW c, NEW pc \in {"saved", "savedErr", "stale"}, WakeOwner(c, pc)
          PROVE  poll' = poll \/ (poll'.acct = poll.acct /\ poll'.pc \in {"saved", "savedErr", "stale"})
      BY <2>1, <2>2 DEF WakeOwner, Poll
    <2> QED  BY <2>2 DEF RunClosure, RunPrepare, RunSync, RunClear, EnterGated, WriteGated, NotClosure
  <1>6. Idle' = Idle /\ Working' = Working
    BY <1>2 DEF Idle, Working, SyncPhases
  <1>7. AskedInOrder' /\ AwaitedIsLast' /\ BrowserOfTask' /\ NothingIsLeft'
    <2>1. \A k \in DOMAIN evts' : Old(k)
      BY <1>2 DEF Old
    <2> QED  BY <1>1, <1>2, <1>3, <1>6, <2>1, WorkerAnswers
  <1>8. FolderHoldsLane'
    BY <1>1, <1>2, <1>4 DEF FolderHoldsLane
  <1>9. PollAlone' /\ PollReplacesItsOwnToken'
    BY <1>1, <1>2, <1>5, <1>6 DEF PollAlone, PollReplacesItsOwnToken
  <1>10. TaskHolds'
    BY <1>1, <1>2 DEF TaskHolds, Holds
  <1>11. SyncedHolds'
    BY <1>1, <1>2, <1>3, <1>4 DEF SyncedHolds, Holds
  <1>12. DisconnectAlone'
    <2>1. CASE task'.pc \in DisconnectPhases
      <3>1. task.pc \in DisconnectPhases
        BY <1>2, <2>1 DEF DisconnectPhases
      <3>2. Still /\ poll = NoPoll /\ folder = NoFolder
        BY <1>1, <3>1 DEF DisconnectAlone, Still
      <3>3. Still' /\ poll' = NoPoll
        BY <1>2, <3>2 DEF Still, NoPoll, NoFolder
      <3> QED  BY <1>1, <1>2, <1>3, <3>1, <3>2, <3>3 DEF DisconnectAlone, Gone, OnlyLeaves, DisconnectPhases
    <2>2. CASE task'.pc \notin DisconnectPhases
      <3>1. held.type = "Disconnect" => poll' = NoPoll
        BY <1>1, <1>2 DEF DisconnectAlone, NoPoll
      <3> QED  BY <1>1, <1>2, <1>3, <2>2, <3>1 DEF DisconnectAlone, Gone, OnlyLeaves
    <2> QED  BY <2>1, <2>2
  <1> QED  BY <1>7, <1>8, <1>9, <1>10, <1>11, <1>12 DEF AnswerInv

LEMMA DropAnswers ==
  ASSUME AnswerInv, CleanInv', DropClosure \/ UNCHANGED vars
  PROVE  AnswerInv'
  <1>1. /\ UNCHANGED <<uiVars, cmds, evts, held, task, lane, poll, folder, fgate, auth, keyring, mailbox, drafts, stray, run>>
        /\ closures' \subseteq closures
    BY DEF DropClosure, Leave, NotClosure, NotWorker, vars, workerVars, diskVars
  <1>2. UNCHANGED <<activeOp, nextOp, recovery, session, uiFolder>>
    BY <1>1 DEF uiVars
  <1>3. AskedInOrder' /\ AwaitedIsLast' /\ BrowserOfTask' /\ NothingIsLeft'
    BY <1>1, <1>2 DEF AnswerInv, AskedInOrder, Ahead, AwaitedIsLast, BrowserOfTask, NothingIsLeft, Unasked, WillStop,
                      Idle, Working, Loads
  <1>4. FolderHoldsLane' /\ PollAlone' /\ PollReplacesItsOwnToken' /\ TaskHolds' /\ SyncedHolds'
    BY <1>1, <1>2 DEF AnswerInv, FolderHoldsLane, PollAlone, PollReplacesItsOwnToken, TaskHolds, SyncedHolds, Holds, Idle
  <1>5. DisconnectAlone'
    BY <1>1, <1>2 DEF AnswerInv, DisconnectAlone, Gone, OnlyLeaves, Still, Emptied
  <1> QED  BY <1>3, <1>4, <1>5 DEF AnswerInv

-----------------------------------------------------------------------------
(* Steps of the controller *)

\* The controller takes a command that is an operation's, and keeps it or drops the task.
Takes ==
    /\ Taken /\ held = NoCmd /\ UNCHANGED <<uiVars, mailbox, drafts, stray>>
    /\ \/ held' = NoCmd
       \/ /\ held' = Head(cmds) /\ Boundary(Head(cmds)) /\ task' = task /\ poll' = NoPoll
          /\ \A k \in DOMAIN evts' : Ending(evts'[k]) => Old(k)
    /\ task' \in {task, NoTask}
    /\ Head(cmds).type = "Cancel" => Idle'
    /\ \/ poll' \in {poll, NoPoll}
       \/ Head(cmds).type = "Poll" /\ poll'.acct = Head(cmds).acct
    /\ task' = NoTask \/ UNCHANGED <<folder, fgate, auth>> \/ Head(cmds).type = "Folder"
    /\ \A k \in DOMAIN evts' :
          Old(k) \/ /\ ~Opens(evts'[k]) /\ evts'[k].type # "FolderLoaded"
                    /\ Ending(evts'[k]) => Head(cmds).type = "Cancel" /\ evts'[k].op = Head(cmds).op

LEMMA Rest ==
  ASSUME AnswerInv, Takes
  PROVE  /\ 1 \in DOMAIN cmds /\ cmds[1] = Head(cmds)
         /\ \A i \in DOMAIN cmds' : i \in Nat /\ i > 0 /\ 1 < i + 1 /\ i + 1 \in DOMAIN cmds /\ cmds'[i] = cmds[i + 1]
         /\ \A i \in DOMAIN cmds : i \in Nat /\ (i = 1 \/ (i > 1 /\ i - 1 \in DOMAIN cmds' /\ cmds'[i - 1] = cmds[i]))
  <1>1. cmds \in Seq(Command) /\ cmds # <<>> /\ cmds' = Tail(cmds)
    BY Typed DEF AnswerInv, CleanInv, ShownInv, PollSessionInv, Takes, Taken
  <1>2. 1 \in DOMAIN cmds /\ cmds[1] = Head(cmds)
    BY <1>1, Shortened
  <1>3. ASSUME NEW i \in DOMAIN cmds'
        PROVE  i \in Nat /\ i > 0 /\ 1 < i + 1 /\ i + 1 \in DOMAIN cmds /\ cmds'[i] = cmds[i + 1]
    BY <1>1, <1>3, Shortened
  <1>4. ASSUME NEW i \in DOMAIN cmds
        PROVE  i \in Nat /\ (i = 1 \/ (i > 1 /\ i - 1 \in DOMAIN cmds' /\ cmds'[i - 1] = cmds[i]))
    BY <1>1, <1>4, Shortened
  <1> QED  BY <1>2, <1>3, <1>4

LEMMA TakesInOrder ==
  ASSUME AnswerInv, Takes
  PROVE  AskedInOrder' /\ AwaitedIsLast'
  <1>1. /\ AskedInOrder /\ AwaitedIsLast /\ task.op \in Nat /\ held.op \in Nat /\ activeOp \in Nat /\ nextOp \in Nat
        /\ UNCHANGED <<activeOp, nextOp>> /\ held = NoCmd
    BY NumbersKnown DEF AnswerInv, Takes, uiVars
  <1>2. /\ Idle => Idle'
        /\ task'.op \in Nat /\ task'.op <= task.op /\ (task' = task \/ Idle')
    BY <1>1 DEF Takes, NoTask, Idle
  <1>3. NoCmd.op = 0
    BY DEF NoCmd, Cmd
  <1>4. Boundary(Head(cmds)) \/ Head(cmds).type = "Cancel" => Asks(Head(cmds))
    BY DEF Asks, Boundary
  <1>5. held' = NoCmd \/ (held' = Head(cmds) /\ Asks(Head(cmds)))
    BY <1>4 DEF Takes
  <1>6. ASSUME NEW i \in DOMAIN cmds', Asks(cmds'[i])
        PROVE  /\ Ahead(cmds[i].op)' /\ held'.op < cmds'[i].op
               /\ activeOp # 0 => cmds'[i].op <= activeOp
    <2>1. PICK n \in Nat : n = cmds[i + 1].op
      BY Rest, NumbersKnown
    <2>2. /\ cmds'[i].op = n /\ Ahead(n) /\ (Asks(Head(cmds)) => Head(cmds).op < n)
          /\ activeOp # 0 => n <= activeOp
      BY <1>1, <1>6, <2>1, Rest DEF AskedInOrder, AwaitedIsLast
    <2>3. Ahead(n)'
      <3>1. ASSUME NEW k \in DOMAIN evts', Ending(evts'[k]) PROVE evts'[k].op < n
        BY <1>4, <2>2, <3>1 DEF Ahead, Takes, Old
      <3> QED  BY <1>1, <1>2, <2>1, <2>2, <3>1 DEF Ahead
    <2>4. held'.op < n
      BY <1>1, <1>3, <1>5, <2>2 DEF Ahead
    <2> QED  BY <2>2, <2>3, <2>4 DEF Ahead
  <1>7. ASSUME NEW i \in DOMAIN cmds', NEW j \in DOMAIN cmds', i < j, Asks(cmds'[i]), Asks(cmds'[j])
        PROVE  cmds'[i].op < cmds'[j].op
    <2>1. i + 1 < j + 1
      BY <1>7, Rest
    <2> QED  BY <1>1, <1>7, <2>1, Rest DEF AskedInOrder
  <1>8. held' # NoCmd => Ahead(held.op)' /\ (activeOp # 0 => held'.op <= activeOp)
    <2> SUFFICES ASSUME held' # NoCmd PROVE Ahead(held.op)' /\ (activeOp # 0 => held'.op <= activeOp)
      OBVIOUS
    <2>1. /\ held' = cmds[1] /\ Asks(cmds[1]) /\ task' = task
          /\ \A k \in DOMAIN evts' : Ending(evts'[k]) => Old(k)
      BY <1>4, Rest DEF Takes
    <2>2. PICK n \in Nat : n = held'.op
      BY <2>1, Rest, NumbersKnown
    <2>3. Ahead(n) /\ (activeOp # 0 => n <= activeOp)
      BY <1>1, <2>1, <2>2, Rest DEF AskedInOrder, AwaitedIsLast
    <2>4. Ahead(n)'
      BY <1>1, <2>1, <2>3 DEF Ahead, Old
    <2> QED  BY <2>2, <2>3, <2>4 DEF Ahead
  <1>9. ASSUME NEW k \in DOMAIN evts', Ending(evts'[k])
        PROVE  /\ evts'[k].op > 0 /\ evts'[k].op < nextOp'
               /\ evts'[k].op >= task'.op => Idle'
    <2>1. CASE Old(k)
      BY <1>1, <1>2, <1>9, <2>1 DEF Old, AskedInOrder
    <2>2. CASE ~Old(k)
      <3>1. Head(cmds).type = "Cancel" /\ evts'[k].op = Head(cmds).op
        BY <1>9, <2>2 DEF Takes
      <3> QED  BY <1>1, <1>4, <3>1, Rest, NumbersKnown DEF Takes
    <2> QED  BY <2>1, <2>2
  <1>10. held'.op <= activeOp \/ activeOp = 0
    BY <1>1, <1>3, <1>8
  <1>11. AwaitedIsLast'
    BY <1>1, <1>2, <1>6, <1>10 DEF AwaitedIsLast, Takes, NoTask
  <1> QED  BY <1>6, <1>7, <1>8, <1>9, <1>11 DEF AskedInOrder

LEMMA TakesAnswers ==
  ASSUME AnswerInv, TypeOK', Grows, Takes
  PROVE  BrowserOfTask' /\ NothingIsLeft' /\ PollAlone'
  <1>1. /\ BrowserOfTask /\ NothingIsLeft /\ PollAlone /\ held = NoCmd
        /\ UNCHANGED <<activeOp, session, uiFolder>> /\ task.op \in Nat
    BY NumbersKnown DEF AnswerInv, Takes, uiVars
  <1>2. Idle' \/ task' = task
    BY DEF Takes, NoTask, Idle
  <1>3. Idle' => ~Working'
    BY DEF Idle, Working, SyncPhases
  <1>4. Unasked => Unasked'
    BY Rest DEF Unasked, Takes
  <1>5. \A k \in DOMAIN evts' : /\ Opens(evts'[k]) => Old(k)
                                /\ Loads(evts[k])' => Old(k) /\ Loads(evts[k])
    BY <1>1 DEF Takes, Old, Loads
  <1>6. BrowserOfTask'
    <2>1. ASSUME NEW k \in DOMAIN evts', Opens(evts'[k]), evts'[k].op >= task'.op
          PROVE  Idle' \/ Working'
      BY <1>1, <1>2, <1>5, <2>1 DEF BrowserOfTask, Old, Idle, Working
    <2>2. ASSUME NEW k \in DOMAIN evts', NEW m \in DOMAIN evts', k < m, Opens(evts'[k]),
                 evts'[k].op = activeOp', Loads(evts[m])'
          PROVE  ~Working'
      BY <1>1, <1>2, <1>3, <1>5, <2>2 DEF BrowserOfTask, Old, Working
    <2>3. ASSUME session' = "Authorizing"
          PROVE  /\ Unasked' /\ (Idle' \/ Working')
                 /\ Working' => \A k \in DOMAIN evts' : ~Loads(evts[k])'
      BY <1>1, <1>2, <1>3, <1>4, <1>5, <2>3 DEF BrowserOfTask, Old, Idle, Working
    <2> QED  BY <2>1, <2>2, <2>3 DEF BrowserOfTask
  <1>7. NothingIsLeft'
    <2> SUFFICES ASSUME activeOp' = 0 PROVE NothingIsLeft'
      BY DEF NothingIsLeft
    <2>1. Unasked /\ (WillStop \/ (Working /\ session # "Ready" /\ \A k \in DOMAIN evts : ~Loads(evts[k])))
      BY <1>1 DEF NothingIsLeft
    <2>2. WillStop => WillStop'
      <3>1. CASE Idle'
        BY <3>1 DEF WillStop
      <3>2. CASE ~Idle'
        <4>1. task' = task /\ Head(cmds).type # "Cancel"
          BY <1>2, <3>2 DEF Takes
        <4>2. (\E i \in DOMAIN cmds : cmds[i].type = "Cancel") => \E i \in DOMAIN cmds' : cmds'[i].type = "Cancel"
          BY <4>1, Rest
        <4> QED  BY <3>2, <4>1, <4>2 DEF WillStop, Idle
      <3> QED  BY <3>1, <3>2
    <2>3. Working /\ (\A k \in DOMAIN evts : ~Loads(evts[k]))
          => Idle' \/ (Working' /\ \A k \in DOMAIN evts' : ~Loads(evts[k])')
      BY <1>2, <1>5 DEF Old, Working
    <2> QED  BY <1>1, <1>4, <2>1, <2>2, <2>3 DEF NothingIsLeft, WillStop
  <1>8. PollAlone'
    <2>1. ASSUME NEW i \in DOMAIN cmds', cmds'[i].type = "Poll"
          PROVE  /\ held' = NoCmd /\ cmds'[i].acct # NoAccount
                 /\ \A j \in DOMAIN cmds' : j < i => ~Boundary(cmds'[j])
                 /\ Idle' \/ \E j \in DOMAIN cmds' : j < i /\ cmds'[j].type = "Cancel"
      <3>1. i + 1 \in DOMAIN cmds /\ cmds[i + 1] = cmds'[i] /\ i \in Nat /\ 1 < i + 1 /\ 1 \in DOMAIN cmds /\ cmds[1] = Head(cmds)
        BY <2>1, Rest
      <3>2. /\ cmds'[i].acct # NoAccount
            /\ \A j \in DOMAIN cmds : j < i + 1 => ~Boundary(cmds[j])
            /\ Idle \/ \E j \in DOMAIN cmds : j < i + 1 /\ cmds[j].type = "Cancel"
        BY <1>1, <2>1, <3>1 DEF PollAlone
      <3>3. held' = NoCmd
        BY <3>1, <3>2 DEF Takes
      <3>4. ASSUME NEW j \in DOMAIN cmds', j < i PROVE ~Boundary(cmds'[j])
        <4>1. j + 1 < i + 1 /\ j + 1 \in DOMAIN cmds /\ cmds'[j] = cmds[j + 1]
          BY <3>1, <3>4, Rest
        <4> QED  BY <3>2, <4>1
      <3>5. ASSUME ~Idle' PROVE \E j \in DOMAIN cmds' : j < i /\ cmds'[j].type = "Cancel"
        <4>1. ~Idle /\ Head(cmds).type # "Cancel"
          BY <1>2, <3>5 DEF Takes, Idle
        <4>2. PICK j \in DOMAIN cmds : j < i + 1 /\ cmds[j].type = "Cancel"
          BY <3>2, <4>1
        <4>3. j - 1 \in DOMAIN cmds' /\ cmds'[j - 1] = cmds[j] /\ j - 1 < i
          BY <3>1, <4>1, <4>2, Rest
        <4> QED  BY <4>2, <4>3
      <3> QED  BY <3>2, <3>3, <3>4, <3>5
    <2>2. ASSUME poll'.pc # "none" PROVE held' = NoCmd /\ Idle' /\ poll'.acct # NoAccount
      <3>1. NoPoll.pc = "none"
        BY DEF NoPoll
      <3>2. held' = NoCmd
        BY <2>2, <3>1 DEF Takes
      <3>3. CASE poll' = poll
        BY <1>1, <1>2, <2>2, <3>2, <3>3 DEF PollAlone, Idle
      <3>4. CASE Head(cmds).type = "Poll" /\ poll'.acct = Head(cmds).acct
        <4>1. 1 \in DOMAIN cmds /\ cmds[1] = Head(cmds) /\ ~\E j \in DOMAIN cmds : j < 1
          BY Rest
        <4> QED  BY <1>1, <1>2, <3>2, <3>4, <4>1 DEF PollAlone, Idle
      <3> QED  BY <2>2, <3>1, <3>3, <3>4 DEF Takes
    <2> QED  BY <2>1, <2>2 DEF PollAlone
  <1> QED  BY <1>6, <1>7, <1>8

LEMMA TakesLeaving ==
  ASSUME AnswerInv, Takes, \A c \in closures' : \E d \in closures : c.inside = d.inside
  PROVE  DisconnectAlone'
  <1>1. DisconnectAlone /\ held = NoCmd /\ UNCHANGED <<activeOp, recovery, session, mailbox, drafts, stray>>
    BY DEF AnswerInv, Takes, uiVars
  <1>2. Gone' = Gone
    BY <1>1 DEF Gone
  <1>3. ASSUME NEW i \in DOMAIN cmds', cmds'[i].type = "Disconnect"
        PROVE  Gone /\ \A j \in DOMAIN cmds' : i < j => cmds'[j].type \in {"Disconnect", "Shutdown"}
    <2>1. \A j \in DOMAIN cmds' : i < j => i + 1 < j + 1
      BY Rest
    <2> QED  BY <1>1, <1>3, <2>1, Rest DEF DisconnectAlone
  <1>4. OnlyLeaves => OnlyLeaves'
    BY Rest DEF OnlyLeaves
  <1>5. ASSUME held'.type = "Disconnect" PROVE Gone /\ OnlyLeaves' /\ poll' = NoPoll
    <2>1. held' = cmds[1] /\ poll' = NoPoll /\ 1 \in DOMAIN cmds
      BY <1>5, Rest DEF Takes, NoCmd, Cmd
    <2> QED  BY <1>1, <1>5, <2>1, Rest DEF DisconnectAlone, OnlyLeaves
  <1>6. ASSUME task'.pc \in DisconnectPhases
        PROVE  /\ Gone /\ OnlyLeaves' /\ held'.type \in {"none", "Disconnect"} /\ Still'
               /\ task'.pc \in {"clear", "token"} => task'.acct \notin drafts'
               /\ task'.pc = "token" => Emptied'
    <2>1. task' = task /\ task' # NoTask
      BY <1>6 DEF Takes, NoTask, DisconnectPhases
    <2>2. /\ Gone /\ OnlyLeaves /\ Still
          /\ task.pc \in {"clear", "token"} => task.acct \notin drafts
          /\ task.pc = "token" => Emptied
      BY <1>1, <1>6, <2>1 DEF DisconnectAlone
    <2>3. Head(cmds).type \in {"Disconnect", "Shutdown"}
      BY <2>2, Rest DEF OnlyLeaves
    <2>4. held'.type \in {"none", "Disconnect"}
      BY <2>3 DEF Takes, NoCmd, Cmd, Boundary, BoundaryKinds, SyncKinds
    <2>5. Still'
      BY <2>1, <2>2, <2>3 DEF Takes, Still
    <2>6. Emptied => Emptied'
      BY <1>1 DEF Emptied
    <2> QED  BY <1>1, <1>4, <2>1, <2>2, <2>4, <2>5, <2>6
  <1> QED  BY <1>1, <1>2, <1>3, <1>5, <1>6 DEF DisconnectAlone

\* Behind the answer to what is awaited nothing is asked for.
LEMMA NothingAfter ==
  ASSUME AnswerInv, NEW k \in DOMAIN evts, Ending(evts[k]), evts[k].op = activeOp
  PROVE  held = NoCmd /\ \A i \in DOMAIN cmds : ~Asks(cmds[i])
  <1>1. /\ AskedInOrder /\ AwaitedIsLast /\ activeOp # 0 /\ activeOp \in Nat /\ held.op \in Nat
        /\ \A i \in DOMAIN cmds : cmds[i].op \in Nat
    BY NumbersKnown DEF AnswerInv
  <1> QED  BY <1>1 DEF AskedInOrder, AwaitedIsLast, Ahead

LEMMA CtlTakes ==
  ASSUME AnswerInv, CtlCancel \/ CtlBackgroundSync \/ CtlFetchFolder \/ CtlBoundary \/ CtlShutdown
  PROVE  Takes
  <1>1. TypeOK /\ CtlStep
    BY DEF AnswerInv, CleanInv, ShownInv, PollSessionInv, CtlStep
  <1>2. Taken /\ held = NoCmd /\ UNCHANGED <<uiVars, mailbox, drafts, stray>>
    BY DEF CtlCancel, CtlBackgroundSync, CtlFetchFolder, CtlBoundary, CtlShutdown, Received, Taken, NotWorker, diskVars
  <1>3. ASSUME UNCHANGED evts PROVE \A k \in DOMAIN evts' : Old(k)
    BY <1>3 DEF Old
  <1>4. ASSUME NEW t, NEW n, NEW f, NEW a, Emit(Failure(t, n, f, a))
        PROVE  \A k \in DOMAIN evts' : Old(k) \/ (evts'[k].type = t /\ evts'[k].op = n)
    BY <1>1, <1>4, Adds, FailureIs DEF Emit
  <1>5. ASSUME NEW t, NEW n, NEW a, Emit(Evt(t, n, a))
        PROVE  \A k \in DOMAIN evts' : Old(k) \/ (evts'[k].type = t /\ evts'[k].op = n)
    BY <1>1, <1>5, Adds, EvtIs DEF Emit
  <1>6. CASE CtlCancel
    <2>1. \A k \in DOMAIN evts' : Old(k) \/ (evts'[k].type \in {"Cancelled", "Failed"} /\ evts'[k].op = Head(cmds).op)
      BY <1>4, <1>5, <1>6 DEF CtlCancel
    <2>2. Head(cmds).type = "Cancel" /\ task' = NoTask /\ Idle' /\ UNCHANGED <<held, poll, folder, fgate, auth>>
      BY <1>6 DEF CtlCancel, Received, NoTask, Idle
    <2> QED  BY <1>2, <2>1, <2>2 DEF Takes, Opens
  <1>7. CASE CtlBackgroundSync
    <2>1. \A k \in DOMAIN evts' : Old(k) \/ evts'[k].type = "PollFailed"
      BY <1>3, <1>4, <1>7 DEF CtlBackgroundSync
    <2>2. Head(cmds).type = "Poll" /\ UNCHANGED <<held, task, folder, fgate, auth>>
      BY <1>7 DEF CtlBackgroundSync, Received
    <2>3. poll' = poll \/ poll'.acct = Head(cmds).acct
      <3>1. CASE poll.pc \in {"none", "finished"}
        BY <1>7, <3>1 DEF CtlBackgroundSync
      <3>2. CASE poll.pc \notin {"none", "finished"}
        BY <1>7, <3>2 DEF CtlBackgroundSync
      <3> QED  BY <3>1, <3>2
    <2> QED  BY <1>2, <2>1, <2>2, <2>3 DEF Takes, Opens, Ending
  <1>8. CASE CtlFetchFolder
    <2>1. Head(cmds).type = "Folder" /\ UNCHANGED <<evts, held, task, poll>>
      BY <1>8 DEF CtlFetchFolder, Received
    <2> QED  BY <1>2, <1>3, <2>1 DEF Takes
  <1>9. CASE CtlBoundary
    <2>1. \A k \in DOMAIN evts' : Old(k) \/ evts'[k].type = "PollFailed"
      BY <1>3, <1>4, <1>9 DEF CtlBoundary
    <2>2. /\ Boundary(Head(cmds)) /\ held' = Head(cmds) /\ poll' = NoPoll /\ UNCHANGED <<task, folder, fgate, auth>>
          /\ Head(cmds).type # "Cancel"
      BY <1>9 DEF CtlBoundary, Received, Boundary, BoundaryKinds, SyncKinds
    <2> QED  BY <1>2, <2>1, <2>2 DEF Takes, Opens, Ending
  <1>10. CASE CtlShutdown
    <2>1. Head(cmds).type = "Shutdown" /\ UNCHANGED <<evts, held>> /\ poll' = NoPoll /\ task' = NoTask /\ Idle'
      BY <1>10 DEF CtlShutdown, Received, NoTask, Idle
    <2> QED  BY <1>2, <1>3, <2>1 DEF Takes
  <1> QED  BY <1>6, <1>7, <1>8, <1>9, <1>10

LEMMA CtlTakesAnswers ==
  ASSUME AnswerInv, CleanInv', CtlCancel \/ CtlBackgroundSync \/ CtlFetchFolder \/ CtlBoundary \/ CtlShutdown
  PROVE  AnswerInv'
  <1>1. /\ FolderHoldsLane /\ PollReplacesItsOwnToken /\ TaskHolds /\ SyncedHolds /\ TypeOK /\ TypeOK' /\ CleanInv
    BY DEF AnswerInv, CleanInv, ShownInv, PollSessionInv
  <1>2. CtlStep /\ Takes /\ Grows
    BY <1>1, CtlTakes, WorkerAdds DEF CtlStep
  <1>3. AskedInOrder' /\ AwaitedIsLast' /\ BrowserOfTask' /\ NothingIsLeft' /\ PollAlone' /\ DisconnectAlone'
    BY <1>1, <1>2, TakesInOrder, TakesAnswers, TakesLeaving, CtlMoves
  <1>4. \A holders : "folder" \notin holders /\ lane = "folder" => Freed(holders) = "folder"
    BY DEF Freed
  <1>5. FolderHoldsLane'
    <2>1. CASE CtlCancel
      BY <1>1, <1>4, <2>1 DEF FolderHoldsLane, CtlCancel
    <2>2. CASE CtlBackgroundSync
      BY <1>1, <2>2 DEF FolderHoldsLane, CtlBackgroundSync
    <2>3. CASE CtlFetchFolder
      BY <2>3 DEF FolderHoldsLane, CtlFetchFolder
    <2>4. CASE CtlBoundary
      BY <1>1, <1>4, <2>4 DEF FolderHoldsLane, CtlBoundary
    <2>5. CASE CtlShutdown
      BY <2>5 DEF FolderHoldsLane, CtlShutdown, NoFolder
    <2> QED  BY <2>1, <2>2, <2>3, <2>4, <2>5
  <1>6. PollReplacesItsOwnToken'
    <2>1. CASE CtlBackgroundSync
      <3>1. auth' = auth /\ (poll' = poll \/ poll'.pc = "auth")
        <4>1. CASE poll.pc \in {"none", "finished"}
          BY <2>1, <4>1 DEF CtlBackgroundSync
        <4>2. CASE poll.pc \notin {"none", "finished"}
          BY <2>1, <4>2 DEF CtlBackgroundSync
        <4> QED  BY <4>1, <4>2
      <3> QED  BY <1>1, <3>1 DEF PollReplacesItsOwnToken
    <2>2. CASE CtlCancel \/ CtlFetchFolder
      <3>1. UNCHANGED <<poll, auth>>
        BY <2>2 DEF CtlCancel, CtlFetchFolder
      <3> QED  BY <1>1, <3>1 DEF PollReplacesItsOwnToken
    <2>3. CASE CtlBoundary \/ CtlShutdown
      <3>1. poll' = NoPoll
        BY <2>3 DEF CtlBoundary, CtlShutdown
      <3> QED  BY <3>1 DEF PollReplacesItsOwnToken, NoPoll
    <2> QED  BY <2>1, <2>2, <2>3
  <1>7. TaskHolds'
    <2>1. CASE CtlCancel \/ CtlShutdown
      <3>1. task' = NoTask
        BY <2>1 DEF CtlCancel, CtlShutdown
      <3> QED  BY <3>1 DEF NoTask, TaskHolds
    <2>2. CASE CtlBackgroundSync \/ CtlFetchFolder \/ CtlBoundary
      BY <1>1, <2>2 DEF CtlBackgroundSync, CtlFetchFolder, CtlBoundary, diskVars, TaskHolds, Holds
    <2> QED  BY <2>1, <2>2
  <1>8. SyncedHolds'
    <2> SUFFICES ASSUME run' = "up" PROVE SyncedHolds'
      BY DEF SyncedHolds
    <2>1. run = "up" /\ ~CtlShutdown /\ activeOp' = activeOp
      BY <1>2 DEF CtlCancel, CtlBackgroundSync, CtlFetchFolder, CtlBoundary, CtlShutdown, NotWorker, Takes, uiVars
    <2>2. \A i \in DOMAIN cmds' : cmds'[i].type # "Shutdown"
      BY <1>1, <1>2, <2>1, Rest DEF SyncedHolds
    <2>3. ASSUME NEW k \in DOMAIN evts', evts'[k].type = "SyncComplete", evts'[k].op = activeOp'
          PROVE  Holds(evts[k].acct)'
      <3>1. Old(k)
        BY <1>1, <1>2, <2>3, CtlSays
      <3>2. Holds(evts[k].acct)
        BY <1>1, <2>1, <2>3, <3>1 DEF SyncedHolds, Old
      <3>3. ~CtlCancel
        <4>1. \A i \in DOMAIN cmds : ~Asks(cmds[i])
          BY <2>1, <2>3, <3>1, NothingAfter DEF Old, Ending
        <4> QED  BY <1>2, <4>1, Rest DEF CtlCancel, Received, Asks
      <3>4. UNCHANGED <<auth, keyring>>
        BY <2>1, <3>3 DEF CtlBackgroundSync, CtlFetchFolder, CtlBoundary, diskVars
      <3> QED  BY <3>1, <3>2, <3>4 DEF Holds, Old
    <2> QED  BY <2>2, <2>3 DEF SyncedHolds
  <1> QED  BY <1>3, <1>5, <1>6, <1>7, <1>8 DEF AnswerInv

\* The command that was held becomes the task, or is answered: all that was said
\* before is of an earlier operation, and no poll is at work.
LEMMA BegunAnswers ==
  ASSUME AnswerInv, CleanInv', CtlDisconnect \/ CtlStartSync
  PROVE  AnswerInv'
  <1>1. /\ AskedInOrder /\ AwaitedIsLast /\ BrowserOfTask /\ NothingIsLeft /\ PollAlone /\ DisconnectAlone
        /\ SyncedHolds /\ TypeOK /\ TypeOK' /\ CleanInv /\ ShownInv /\ InTurn
        /\ task.op \in Nat /\ held.op \in Nat /\ activeOp \in Nat /\ nextOp \in Nat
    BY NumbersKnown DEF AnswerInv, CleanInv, ShownInv, PollSessionInv
  <1>2. /\ held # NoCmd /\ held' = NoCmd /\ held'.op = 0 /\ held'.type = "none"
        /\ UNCHANGED <<uiVars, run, cmds, poll, mailbox, drafts, stray>> /\ folder' = NoFolder
    <2>1. NoCmd.op = 0 /\ NoCmd.type = "none"
      BY DEF NoCmd, Cmd
    <2>2. CASE CtlDisconnect
      BY <2>1, <2>2 DEF CtlDisconnect, NotWorker, diskVars
    <2>3. CASE CtlStartSync
      BY <2>1, <2>3 DEF CtlStartSync, SyncKinds, NotWorker
    <2> QED  BY <2>2, <2>3
  <1>3. UNCHANGED <<activeOp, nextOp, session, recovery>> /\ CtlStep /\ Grows
    BY <1>1, <1>2, WorkerAdds DEF uiVars, CtlStep
  <1>4. /\ task' \in {NoTask, NewTask(held)}
        /\ held.type = "Disconnect" => CtlDisconnect
    BY DEF CtlDisconnect, CtlStartSync, SyncKinds
  <1>5. /\ NoTask.op = 0 /\ NoTask.pc = "none" /\ NoTask.kind = "none"
        /\ NewTask(held).op = held.op /\ NewTask(held).kind = held.type
        /\ NewTask(held).pc = IF held.type = "Disconnect" THEN "begin" ELSE "start"
    BY DEF NoTask, NewTask
  <1>6. ~Working' /\ (task' = NoTask => Idle') /\ task'.op <= held.op /\ task'.op \in Nat
        /\ (task'.op = held.op \/ Idle')
    BY <1>1, <1>4, <1>5 DEF Working, Idle, SyncPhases
  <1>7. Ahead(held.op) /\ Unheard(held.op) /\ poll.pc = "none"
    BY <1>1, <1>2 DEF AskedInOrder, InTurn, PollAlone
  <1>8. ASSUME NEW k \in DOMAIN evts', ~Old(k)
        PROVE  evts'[k].type = "Failed" /\ evts'[k].op = held.op /\ Idle'
    <2>1. ASSUME UNCHANGED evts PROVE FALSE
      BY <1>8, <2>1 DEF Old
    <2>2. ASSUME Emit(Failure("Failed", held.op, "cleanup", TRUE))
          PROVE  evts'[k].type = "Failed" /\ evts'[k].op = held.op
      <3>1. TypeOK
        BY <1>1
      <3>2. evts' = Append(evts, Failure("Failed", held.op, "cleanup", TRUE))
        BY <2>2 DEF Emit
      <3>3. evts'[k] = Failure("Failed", held.op, "cleanup", TRUE)
        BY <1>8, <3>1, <3>2, Adds
      <3> QED  BY <3>3 DEF Failure
    <2>3. CASE CtlDisconnect
      BY <2>1, <2>3 DEF CtlDisconnect
    <2>4. CASE CtlStartSync
      BY <1>6, <2>1, <2>2, <2>4 DEF CtlStartSync
    <2> QED  BY <2>3, <2>4
  <1>9. held.op < nextOp /\ held.op > 0
    BY <1>1, <1>2, OpsKnown
  <1>10. activeOp # 0 /\ held.op <= activeOp
    BY <1>1, <1>2 DEF AwaitedIsLast, NothingIsLeft, Unasked
  \* What was said before is of an operation before.
  <1>11. ASSUME NEW k \in DOMAIN evts, Ending(evts[k]) \/ Opens(evts[k])
         PROVE  evts[k].op < held.op
    BY <1>7, <1>11 DEF Ahead, Unheard, Opens, Vouches
  <1>12. AskedInOrder'
    <2>1. ASSUME NEW i \in DOMAIN cmds', Asks(cmds'[i]) PROVE Ahead(cmds[i].op)' /\ held'.op < cmds'[i].op
      <3>1. PICK n \in Nat : n = cmds[i].op
        BY <1>2, NumbersKnown
      <3>2. Ahead(n) /\ held.op < n
        BY <1>1, <1>2, <2>1, <3>1 DEF AskedInOrder
      <3>3. ASSUME NEW k \in DOMAIN evts', Ending(evts'[k]) PROVE evts'[k].op < n
        BY <1>8, <3>2, <3>3 DEF Ahead, Old
      <3>4. task'.op < n
        BY <1>1, <1>6, <3>2
      <3>5. Ahead(n)'
        BY <1>3, <3>2, <3>3, <3>4 DEF Ahead
      <3>6. held'.op < n /\ cmds' = cmds
        BY <1>1, <1>2, <1>6, <3>1, <3>4
      <3> QED  BY <3>1, <3>5, <3>6 DEF Ahead
    <2>2. ASSUME NEW k \in DOMAIN evts', Ending(evts'[k])
          PROVE  /\ evts'[k].op > 0 /\ evts'[k].op < nextOp'
                 /\ evts'[k].op >= task'.op => Idle'
      <3>1. CASE Old(k)
        <4>1. evts'[k].op > 0 /\ evts'[k].op < nextOp /\ evts'[k].op < held.op /\ evts'[k].op \in Nat
          BY <1>11, <2>2, <3>1, NumbersKnown DEF Old
        <4> QED  BY <1>1, <1>3, <1>6, <4>1
      <3>2. CASE ~Old(k)
        BY <1>3, <1>8, <1>9, <3>2
      <3> QED  BY <3>1, <3>2
    <2> QED  BY <1>1, <1>2, <2>1, <2>2 DEF AskedInOrder
  <1>13. AwaitedIsLast'
    BY <1>1, <1>2, <1>3, <1>6, <1>10 DEF AwaitedIsLast
  <1>14. BrowserOfTask'
    <2>1. ASSUME NEW k \in DOMAIN evts', Opens(evts'[k]), evts'[k].op >= task'.op PROVE Idle'
      <3>1. Old(k)
        BY <1>8, <2>1 DEF Opens
      <3>2. evts'[k].op < held.op /\ evts'[k].op \in Nat
        BY <1>11, <2>1, <3>1, NumbersKnown DEF Old
      <3> QED  BY <1>1, <1>6, <2>1, <3>2
    <2>2. session' # "Authorizing"
      BY <1>1, <1>2, <1>3 DEF BrowserOfTask, Unasked
    <2> QED  BY <1>6, <2>1, <2>2 DEF BrowserOfTask
  <1>15. NothingIsLeft'
    BY <1>3, <1>10 DEF NothingIsLeft
  <1>16. FolderHoldsLane'
    BY <1>2 DEF FolderHoldsLane, NoFolder
  <1>17. PollAlone' /\ PollReplacesItsOwnToken'
    BY <1>1, <1>2, <1>7 DEF PollAlone, PollReplacesItsOwnToken
  <1>18. TaskHolds'
    BY <1>4, <1>5 DEF TaskHolds
  <1>19. SyncedHolds'
    <2>1. ASSUME NEW k \in DOMAIN evts', evts'[k].type = "SyncComplete", evts'[k].op = activeOp' PROVE FALSE
      <3>1. k \in DOMAIN evts /\ Ending(evts[k]) /\ evts[k].op = activeOp
        BY <1>3, <1>8, <2>1 DEF Old, Ending
      <3> QED  BY <1>2, <3>1, NothingAfter
    <2> QED  BY <1>1, <1>2, <2>1 DEF SyncedHolds
  <1>20. DisconnectAlone'
    <2>1. Gone' = Gone /\ OnlyLeaves' = OnlyLeaves
      BY <1>2, <1>3 DEF Gone, OnlyLeaves
    <2>2. CASE held.type = "Disconnect"
      <3>1. Gone /\ OnlyLeaves /\ poll = NoPoll
        BY <1>1, <2>2 DEF DisconnectAlone
      <3>2. Still'
        BY <1>2, <1>4, <2>2, <3>1 DEF CtlDisconnect, Still
      <3>3. task'.pc = "begin"
        BY <1>5, <1>4, <2>2 DEF CtlDisconnect
      <3> QED  BY <1>1, <1>2, <1>3, <2>1, <3>1, <3>2, <3>3 DEF DisconnectAlone
    <2>3. CASE held.type # "Disconnect"
      <3>1. task'.pc \notin DisconnectPhases
        BY <1>4, <1>5, <2>3 DEF DisconnectPhases
      <3> QED  BY <1>1, <1>2, <1>3, <2>1, <3>1 DEF DisconnectAlone
    <2> QED  BY <2>2, <2>3
  <1> QED  BY <1>12, <1>13, <1>14, <1>15, <1>16, <1>17, <1>18, <1>19, <1>20 DEF AnswerInv

LEMMA ReapAnswers ==
  ASSUME AnswerInv, CleanInv', CtlReap
  PROVE  AnswerInv'
  <1>1. /\ UNCHANGED <<uiVars, run, cmds, evts, held, poll, folder, fgate, lane, auth, keyring, mailbox, drafts, stray>>
        /\ task' = NoTask /\ task.pc = "finished"
    BY DEF CtlReap, NotWorker, diskVars
  <1>2. UNCHANGED <<activeOp, nextOp, recovery, session, uiFolder>> /\ held = NoCmd /\ cmds = <<>> /\ DOMAIN cmds = {}
    BY <1>1 DEF uiVars, CtlReap
  <1>3. Idle /\ Idle' /\ ~Working' /\ task'.op = 0 /\ task'.pc = "none" /\ task'.kind = "none" /\ held.op = 0 /\ held.type = "none"
    BY <1>1, <1>2 DEF Idle, Working, NoTask, NoCmd, Cmd, SyncPhases
  <1>4. activeOp \in Nat
    BY NumbersKnown
  <1>5. AskedInOrder' /\ AwaitedIsLast'
    BY <1>1, <1>2, <1>3, <1>4 DEF AnswerInv, AskedInOrder, AwaitedIsLast
  <1>6. BrowserOfTask' /\ NothingIsLeft'
    BY <1>1, <1>2, <1>3 DEF BrowserOfTask, NothingIsLeft, Unasked, WillStop
  <1>7. FolderHoldsLane' /\ PollAlone' /\ PollReplacesItsOwnToken' /\ TaskHolds' /\ SyncedHolds'
    BY <1>1, <1>2, <1>3 DEF AnswerInv, FolderHoldsLane, PollAlone, PollReplacesItsOwnToken, TaskHolds, SyncedHolds, Holds
  <1>8. DisconnectAlone'
    BY <1>1, <1>2, <1>3 DEF AnswerInv, DisconnectAlone, Gone, OnlyLeaves, DisconnectPhases
  <1> QED  BY <1>5, <1>6, <1>7, <1>8 DEF AnswerInv

LEMMA CtlStepAnswers ==
  ASSUME AnswerInv, CleanInv', CtlStep
  PROVE  AnswerInv'
  BY CtlTakesAnswers, BegunAnswers, ReapAnswers DEF CtlStep

-----------------------------------------------------------------------------
(* Every step *)

\* The process begins again with one operation, the restoration it awaits.
StartsAnswered ==
    /\ AskedInOrder /\ AwaitedIsLast /\ BrowserOfTask /\ NothingIsLeft /\ FolderHoldsLane
    /\ PollAlone /\ PollReplacesItsOwnToken /\ TaskHolds /\ SyncedHolds /\ DisconnectAlone

LEMMA StartupAnswered == Startup => StartsAnswered
  <1> SUFFICES ASSUME Startup PROVE StartsAnswered
    OBVIOUS
  <1>1. /\ DOMAIN evts = {} /\ DOMAIN cmds = {1} /\ cmds[1].type = "Restore" /\ cmds[1].op = 1
        /\ task.op = 0 /\ task.pc = "none" /\ task.kind = "none"
        /\ held = NoCmd /\ held.op = 0 /\ held.type = "none"
        /\ poll.pc = "none" /\ folder.pc = "none"
        /\ activeOp = 1 /\ nextOp = 2 /\ recovery = "Restore" /\ session = "Syncing"
    BY DEF Startup, NoTask, NoFolder, NoPoll, NoCmd, Cmd
  <1>2. AskedInOrder /\ AwaitedIsLast
    BY <1>1 DEF AskedInOrder, AwaitedIsLast, Ahead
  <1>3. BrowserOfTask /\ NothingIsLeft /\ FolderHoldsLane
    BY <1>1 DEF BrowserOfTask, NothingIsLeft, FolderHoldsLane, Idle
  <1>4. PollAlone /\ PollReplacesItsOwnToken /\ TaskHolds /\ SyncedHolds
    BY <1>1 DEF PollAlone, PollReplacesItsOwnToken, TaskHolds, SyncedHolds
  <1>5. DisconnectAlone
    BY <1>1 DEF DisconnectAlone, Gone, DisconnectPhases
  <1> QED  BY <1>2, <1>3, <1>4, <1>5 DEF StartsAnswered

LEMMA InitAnswers == Init => AnswerInv
  BY InitClean, StartupAnswered DEF Init, StartsAnswered, AnswerInv

LEMMA StepAnswers == AnswerInv /\ [Next]_vars => AnswerInv'
  <1> SUFFICES ASSUME AnswerInv, [Next]_vars PROVE AnswerInv'
    OBVIOUS
  <1>1. CleanInv'
    BY StepClean DEF AnswerInv
  \* The window does nothing to a task, a poll or a folder.
  <1>2. ASSUME UNCHANGED <<workerVars, diskVars>>
        PROVE  FolderHoldsLane' /\ PollReplacesItsOwnToken' /\ TaskHolds'
    <2>1. FolderHoldsLane /\ PollReplacesItsOwnToken /\ TaskHolds
      BY DEF AnswerInv
    <2>2. UNCHANGED <<folder, lane, poll, auth, task, keyring>>
      BY <1>2 DEF workerVars, diskVars
    <2> QED  BY <2>1, <2>2 DEF FolderHoldsLane, PollReplacesItsOwnToken, TaskHolds, Holds
  <1>3. CASE UiStep
    <2>1. FolderHoldsLane' /\ PollReplacesItsOwnToken' /\ TaskHolds'
      BY <1>2, <1>3, PersonAsks
    <2> QED  BY <1>1, <1>3, <2>1, UiStepAnswers DEF AnswerInv
  <1>4. CASE UiEvent
    <2>1. FolderHoldsLane' /\ PollReplacesItsOwnToken' /\ TaskHolds'
      BY <1>2, <1>4, WindowHears
    <2> QED  BY <1>1, <1>4, <2>1, UiEventAnswers DEF AnswerInv
  <1>5. CASE CtlStep
    BY <1>1, <1>5, CtlStepAnswers
  <1>6. CASE TaskStep
    BY <1>1, <1>6, TaskStepAnswers
  <1>7. CASE PollStep
    BY <1>1, <1>7, PollStepAnswers
  <1>8. CASE FolderStep
    BY <1>1, <1>8, FolderStepAnswers
  <1>9. CASE RunClosure
    BY <1>1, <1>9, RunClosureAnswers
  <1>10. CASE DropClosure \/ UNCHANGED vars
    BY <1>1, <1>10, DropAnswers
  <1>11. CASE Restart
    <2>1. Startup'
      BY <1>11 DEF Restart, Startup
    <2>2. StartsAnswered'
      BY <2>1, StartupAnswered, PTL
    <2> QED  BY <1>1, <2>2 DEF StartsAnswered, AnswerInv
  <1> QED  BY <1>3, <1>4, <1>5, <1>6, <1>7, <1>8, <1>9, <1>10, <1>11 DEF Next

\* A background poll stores a rotated token only while the account that it polls
\* is the one that is signed in: between the check under cache_io and the write no
\* sign-in or Disconnect is at work, and none begins before the poll is aborted.
THEOREM TokensReplacedInSession == Spec => []PollReplacesItsOwnToken
  <1>1. AnswerInv => PollReplacesItsOwnToken
    BY DEF AnswerInv
  <1> QED  BY <1>1, InitAnswers, StepAnswers, PTL DEF Spec

\* While a Disconnect is the task nothing but its own last step takes the token
\* away, and that step comes after the account's drafts and its mail are gone: a
\* Disconnect that is stopped half way leaves the account to be found again.
THEOREM TokenIsLast == Spec => TokenGoesLast
  <1>1. ASSUME AnswerInv, [Next]_vars,
               task.kind = "Disconnect", task'.op = task.op, keyring # NoAccount, keyring' = NoAccount
        PROVE  task.acct \notin drafts /\ (mailbox = NoAccount \/ stray)
    <2>1. /\ CleanInv /\ ShownInv /\ TaskPhases /\ InTurn /\ PollAlone /\ DisconnectAlone
          /\ task.op \in Nat /\ held.op \in Nat
      BY <1>1, NumbersKnown DEF AnswerInv, CleanInv, ShownInv, PollSessionInv
    <2>2. task.pc \in DisconnectPhases \cup {"finished"} /\ task.op > 0
      BY <1>1, <2>1 DEF TaskPhases, InTurn, DisconnectPhases
    <2>3. ASSUME UNCHANGED keyring PROVE FALSE
      BY <1>1, <2>3
    <2>4. CASE UiStep \/ UiEvent
      BY <2>3, <2>4, PersonAsks, WindowHears DEF diskVars
    <2>5. CASE CtlStep
      <3>1. NoTask.op = 0 /\ NewTask(held).op = held.op
        BY DEF NoTask, NewTask
      <3>2. CASE CtlCancel \/ CtlShutdown
        <4>1. task' = NoTask
          BY <3>2 DEF CtlCancel, CtlShutdown
        <4> QED  BY <1>1, <2>2, <3>1, <4>1
      <3>3. CASE CtlStartSync
        <4>1. task' \in {NoTask, NewTask(held)} /\ held # NoCmd
          <5>1. NoCmd.type = "none"
            BY DEF NoCmd, Cmd
          <5> QED  BY <3>3, <5>1 DEF CtlStartSync, SyncKinds
        <4>2. task.op < held.op
          BY <2>1, <4>1 DEF InTurn, Unheard
        <4> QED  BY <1>1, <2>1, <2>2, <3>1, <4>1, <4>2
      <3>4. CASE CtlBackgroundSync \/ CtlFetchFolder \/ CtlBoundary \/ CtlDisconnect \/ CtlReap
        BY <2>3, <3>4 DEF CtlBackgroundSync, CtlFetchFolder, CtlBoundary, CtlDisconnect, CtlReap, diskVars
      <3> QED  BY <2>5, <3>2, <3>3, <3>4 DEF CtlStep
    <2>6. CASE TaskStep
      <3>1. CASE DisconnectToken
        <4>1. task.pc = "token"
          BY <3>1 DEF DisconnectToken, At
        <4> QED  BY <2>1, <4>1 DEF DisconnectAlone, DisconnectPhases, Emptied
      <3>2. CASE RestoreRefresh \/ TaskSave
        <4>1. task.pc \in {"refresh", "save"}
          BY <3>2 DEF RestoreRefresh, TaskSave, At
        <4> QED  BY <2>2, <4>1 DEF DisconnectPhases
      <3>3. CASE ~(DisconnectToken \/ RestoreRefresh \/ TaskSave)
        <4>1. UNCHANGED keyring
          BY <2>6, <3>3 DEF TaskStep, TaskAcquireLane, ConnectListen, ConnectCallback, ConnectExchange, RestoreLoad,
             RestoreIdentity, TaskVerified, TaskAuthorize, TaskMark, TaskFetch, TaskSynced, TaskCacheError,
             DisconnectBegin, DisconnectDrafts, diskVars
        <4> QED  BY <2>3, <4>1
      <3> QED  BY <3>1, <3>2, <3>3
    <2>7. CASE PollStep
      <3>1. UNCHANGED keyring \/ (poll.pc = "replace" /\ keyring' = poll.acct)
        BY <2>7 DEF PollStep, PollAuth, PollRefresh, PollPermit, PollReplace, PollFetch, PollLane, PollPublish, PollAt
      <3> QED  BY <1>1, <2>1, <2>3, <3>1 DEF PollAlone
    <2>8. CASE FolderStep
      BY <2>3, <2>8 DEF FolderStep, FolderCredentials, FolderLane, FolderFetch, FolderPublish, NotFolder, diskVars
    <2>9. CASE RunClosure \/ DropClosure
      BY <2>3, <2>9 DEF RunClosure, RunPrepare, RunSync, RunClear, EnterGated, WriteGated, DropClosure, NotClosure
    <2>10. CASE Restart \/ UNCHANGED vars
      BY <2>3, <2>10 DEF Restart, vars, diskVars
    <2> QED  BY <1>1, <2>4, <2>5, <2>6, <2>7, <2>8, <2>9, <2>10 DEF Next
  <1>2. Spec => []AnswerInv
    BY InitAnswers, StepAnswers, PTL DEF Spec
  <1> QED  BY <1>1, <1>2, PTL DEF Spec, TokenGoesLast

\* When the answer to a sign-in makes the session ready, its account is the one
\* that the access token in memory is for and the one whose refresh token is
\* stored: nothing is asked for behind an answer that is still awaited, and what
\* would take the credential away comes only of being asked for.
THEOREM SyncedIsAuthorized == Spec => SyncedSessionIsAuthorized
  <1>1. ASSUME AnswerInv, [Next]_vars
        PROVE  run' = "up" /\ activeOp # 0 /\ activeOp' = 0 /\ session' = "Ready"
               => auth = uiAccount' /\ keyring = uiAccount'
    <2> SUFFICES ASSUME run' = "up", activeOp # 0, activeOp' = 0, session' = "Ready"
                 PROVE  auth = uiAccount' /\ keyring = uiAccount'
      OBVIOUS
    <2>1. SyncedHolds /\ TypeOK
      BY <1>1 DEF AnswerInv, CleanInv, ShownInv, PollSessionInv
    <2>2. ASSUME UNCHANGED activeOp PROVE FALSE
      BY <1>1, <2>2
    <2>3. CASE UiStep
      <3>1. activeOp \in Nat /\ nextOp \in Nat /\ nextOp > 0
        BY <1>1, NumbersKnown
      <3> QED  BY <1>1, <2>3, <3>1, PersonAsks DEF Dropping, Asking, Quitting, Beginning, Cancelling, uiVars
    <2>4. CASE UiEvent
      <3>1. CASE OnSyncComplete
        <4>1. /\ evts # <<>> /\ evts \in Seq(Event) /\ Head(evts).type = "SyncComplete" /\ Head(evts).op = activeOp
              /\ uiAccount' = Head(evts).acct
          BY <2>1, <3>1, Typed DEF OnSyncComplete, ReceiveOwn, Receive
        <4>2. 1 \in DOMAIN evts /\ evts[1] = Head(evts)
          BY <4>1, Shortened
        <4>3. run = "up" /\ auth = auth' /\ keyring = keyring'
          BY <3>1 DEF OnSyncComplete, ReceiveOwn, Receive, NotUi, workerVars, diskVars
        <4> QED  BY <1>1, <2>1, <4>1, <4>2, <4>3 DEF SyncedHolds, Holds
      <3>2. CASE OnSignedOut \/ OnDisconnected \/ OnFailed
        <4>1. session' # "Ready" \/ (OnSignedOut /\ session = "ServiceError" /\ session' = session)
          BY <3>2 DEF OnSignedOut, OnDisconnected, OnFailed
        <4> QED  BY <1>1, <4>1
      <3>3. CASE ~(OnSyncComplete \/ OnSignedOut \/ OnDisconnected \/ OnFailed)
        <4>1. UNCHANGED activeOp
          BY <2>4, <3>3 DEF UiEvent, DropStaleEvent, OnPhase, OnAuthorizationRequired, OnIdentityVerified, OnCacheLoaded,
             OnPollComplete, OnPollFailed, OnFolderCacheLoaded, OnFolderLoaded, OnFolderFailed, uiVars
        <4> QED  BY <2>2, <4>1
      <3> QED  BY <3>1, <3>2, <3>3
    <2>5. CASE CtlStep \/ TaskStep \/ PollStep \/ FolderStep \/ RunClosure \/ DropClosure
      <3>1. UNCHANGED uiVars
        <4>1. CASE CtlStep
          BY <1>1, <4>1, CtlMoves DEF AnswerInv
        <4>2. CASE TaskStep
          BY <4>2 DEF TaskStep, TaskAcquireLane, ConnectListen, ConnectCallback, ConnectExchange, RestoreLoad,
             RestoreRefresh, RestoreIdentity, TaskVerified, TaskAuthorize, TaskMark, TaskSave, TaskFetch, TaskSynced,
             TaskCacheError, DisconnectBegin, DisconnectDrafts, DisconnectToken, NotTask, NotWorker
        <4>3. CASE PollStep
          BY <4>3 DEF PollStep, PollAuth, PollRefresh, PollPermit, PollReplace, PollFetch, PollLane, PollPublish,
             NotPoll, NotWorker
        <4>4. CASE FolderStep
          BY <4>4 DEF FolderStep, FolderCredentials, FolderLane, FolderFetch, FolderPublish, NotFolder, NotWorker
        <4>5. CASE RunClosure \/ DropClosure
          BY <4>5 DEF RunClosure, RunPrepare, RunSync, RunClear, EnterGated, WriteGated, DropClosure, NotClosure, NotWorker
        <4> QED  BY <2>5, <4>1, <4>2, <4>3, <4>4, <4>5
      <3> QED  BY <2>2, <3>1 DEF uiVars
    <2>6. CASE Restart \/ UNCHANGED vars
      BY <1>1, <2>6 DEF Restart, vars, uiVars
    <2> QED  BY <1>1, <2>3, <2>4, <2>5, <2>6 DEF Next
  <1>2. Spec => []AnswerInv
    BY InitAnswers, StepAnswers, PTL DEF Spec
  <1> QED  BY <1>1, <1>2, PTL DEF Spec, SyncedSessionIsAuthorized
================================================================================
