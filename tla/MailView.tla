------------------------------- MODULE MailView -------------------------------
(***************************************************************************)
(* What the list and the reader show of one mailbox, and the periodic poll: *)
(* folder loads, Gmail searches, body fetches, the body cache and the poll  *)
(* schedule of state.rs (UI thread), with the controller of worker.rs that  *)
(* starts, replaces and aborts their tasks.  A restore or a sign-in, maybe  *)
(* of another account, may come between any of them, and the worker may     *)
(* stop.                                                                    *)
(*                                                                          *)
(* The list is that of the single account (visible_messages).  Once an      *)
(* account has a row in account_mailboxes, as it normally has, the app shows*)
(* the accounts' own list instead, and only SelectNext and SelectPrevious   *)
(* still reach this one: of the rows there is only whether there are any,   *)
(* and the accounts' list and its reader are left out.                      *)
(*                                                                          *)
(* A message is a number; a list shows the lowest first.  The delay of a    *)
(* timer, the filter menu, attachments and changes of messages are left     *)
(* out, and so is everything of a sign-in that does not reach the list.     *)
(* The session is Ready, Syncing or Stopped: offline, authorization         *)
(* required or an error.                                                    *)
(***************************************************************************)
EXTENDS Integers, Sequences, FiniteSetsExt

CONSTANTS
    Accounts, NoOne,
    Labels,       \* the folder catalog
    Messages,     \* message ids, the same in every account
    Rows,         \* for each label, the lists Gmail may answer with
    Queries,
    Hits,         \* for each query, the messages that match it
    MaxGestures,  \* bound on what the person does
    MaxSignIns,   \* bound on restores and sign-ins among it
    MaxPolls,     \* bound on polls begun
    MaxBacklog,   \* bound on commands that wait when the person acts
    WorkerMayStop

ASSUME DataAssumption ==
    /\ NoOne \notin Accounts
    /\ "Inbox" \in Labels /\ Messages \subseteq Nat \ {0}
    /\ Hits \in [Queries -> SUBSET Messages]
    /\ "" \in Queries => Hits[""] = Messages
    /\ Rows \in [Labels -> SUBSET SUBSET Messages]
ASSUME BoundAssumption == MaxGestures \in Nat /\ MaxSignIns \in Nat
                           /\ MaxPolls \in Nat /\ MaxBacklog \in Nat /\ WorkerMayStop \in BOOLEAN

VARIABLES
    ui,        \* AppState
    timer,     \* the schedule generation of the armed background timer (0: none)
    commands,  \* the channel to the worker
    events,    \* the channel from it
    health,    \* of the controller: running, stopped, or known to the UI as stopped
    auth,      \* RuntimeAuth
    keyring,   \* the account of the stored token
    gates,     \* search_generation, folder_generation and cache_generation of the worker
    tasks,     \* the running task of each kind
    saves,     \* closures of cache_blocking that wait to store a body
    stored,    \* cached bodies
    cleared,   \* observation: the generation of the last Clear Cache that succeeded
    gestures, signIns, polls

worker == <<auth, keyring, gates, tasks, saves, stored, cleared>>
counts == <<gestures, signIns, polls>>
vars == <<ui, timer, commands, events, health, worker, counts>>

-----------------------------------------------------------------------------
(* Data *)

NoMessage == 0
NoList == [account |-> NoOne, label |-> "Inbox", rows |-> {}, by |-> "nothing"]
Idle == [state |-> "Idle"]
Closed == [state |-> "Closed"]
NoTask == [kind |-> "none"]
TaskKinds == {"sync", "search", "folder", "body", "poll"}

Visible(u) ==
    IF u.search.state = "Loaded" THEN u.search.rows ELSE u.list.rows \intersect Hits[u.query]

First(rows) == IF rows = {} THEN NoMessage ELSE Min(rows)

(* The pure part of an update: the new state, the commands to send, and     *)
(* what becomes of the timer.                                               *)
Quiet(u) == [ui |-> u, send |-> <<>>, timer |-> "keep"]
Sending(u, cmds) == [ui |-> u, send |-> cmds, timer |-> "keep"]
Arming(u) == [ui |-> [u EXCEPT !.schedule = @ + 1], send |-> <<>>, timer |-> "arm"]

FollowList(u) ==
    LET v == Visible(u)
    IN  [u EXCEPT !.selected = IF @ \in v THEN @ ELSE First(v),
                  !.reader = IF @.state # "Closed" /\ @.id \notin v THEN Closed ELSE @]

\* As if the rows of the accounts made no difference.
NormalizeAnyway(u) == FollowList(u)

\* Where accounts have rows the selection is dropped, and the reader stays.
normalize(u) == IF u.projection THEN [u EXCEPT !.selected = NoMessage] ELSE FollowList(u)

invalidate_server_search(u) ==
    CASE u.search.state = "Idle" -> u
      [] u.search.state = "Loaded" ->
            [u EXCEPT !.searchGen = @ + 1, !.search = Idle, !.selected = NoMessage, !.reader = Closed]
      [] OTHER -> [u EXCEPT !.searchGen = @ + 1, !.search = Idle]

CancelOf(u) ==
    IF u.search.state = "Loading"
    THEN <<[type |-> "CancelSearch", request |-> u.search.request, generation |-> u.searchGen + 1]>>
    ELSE <<>>

stop_background_sync(u) ==
    [u EXCEPT !.inFlight = 0, !.pendingTick = FALSE, !.paused = TRUE, !.schedule = @ + 1]

\* The account changed: nothing of the one before stays.
Forgotten(u) ==
    [stop_background_sync(u) EXCEPT
        !.searchGen = @ + 1, !.search = Idle, !.list = NoList, !.selected = NoMessage,
        !.reader = Closed, !.view = "Inbox", !.folderGen = @ + 1, !.activeFolder = 0,
        !.folderLoading = FALSE]

Verified(u, account) ==
    [(IF u.account = account THEN u ELSE Forgotten(u)) EXCEPT !.account = account]

WasPolling(u) == u.inFlight # 0 \/ u.pendingTick \/ ~u.paused

WorkerUnavailable(u) ==
    LET v == invalidate_server_search(stop_background_sync(u))
    IN  [v EXCEPT !.operation = 0,
                  !.session = "Stopped",
                  !.reader = IF @.state = "Loading" THEN [state |-> "Failed", id |-> @.id] ELSE @]

(* Ui::dispatch and Ui::execute: the state changes, then the effects run.   *)
(* A send to a stopped worker dispatches WorkerUnavailable.                 *)
Dispatch(update) ==
    LET refused == health # "running" /\ update.send # <<>>
    IN  /\ ui' = IF refused THEN WorkerUnavailable(update.ui) ELSE update.ui
        /\ commands' = IF refused THEN commands ELSE commands \o update.send
        /\ timer' = IF (refused /\ WasPolling(update.ui)) \/ update.timer = "fired" THEN 0
                    ELSE IF update.timer = "arm" THEN update.ui.schedule ELSE timer

-----------------------------------------------------------------------------
(* What the person does *)

Gesture(update) ==
    /\ gestures < MaxGestures /\ Len(commands) <= MaxBacklog
    /\ gestures' = gestures + 1
    /\ Dispatch(update)
    /\ UNCHANGED <<events, health, worker, polls>>

\* Each gesture asks for at most one thing of a kind: its number is the request id.
Ask == gestures + 1

\* As if a sign-in left the reader waiting for the body it aborts.
StartKeepingReader(kind) ==
    LET v == invalidate_server_search(ui)
    IN  Gesture(Sending(
            [v EXCEPT !.operation = Ask, !.session = "Syncing", !.folderGen = @ + 1,
                      !.activeFolder = 0, !.folderLoading = FALSE],
            CancelOf(ui) \o <<[type |-> kind, operation |-> Ask]>>))

start(kind) ==
    LET v == invalidate_server_search(ui)
    IN  Gesture(Sending(
            [v EXCEPT !.operation = Ask, !.session = "Syncing", !.folderGen = @ + 1,
                      !.activeFolder = 0, !.folderLoading = FALSE,
                      !.reader = IF @.state = "Loading" THEN Closed ELSE @],
            CancelOf(ui) \o <<[type |-> kind, operation |-> Ask]>>))

load_folder(label) ==
    LET v == invalidate_server_search(ui)
        empty == [account |-> ui.account, label |-> label, rows |-> {}, by |-> "switch"]
        w == IF ui.view = label THEN v
             ELSE [v EXCEPT !.list = empty, !.selected = NoMessage, !.reader = Closed]
    IN  /\ ui.account # NoOne /\ ui.list # NoList
        /\ Gesture(Sending(
            normalize([w EXCEPT !.folderGen = @ + 1, !.activeFolder = Ask, !.folderLoading = TRUE,
                                !.view = label]),
            CancelOf(ui) \o <<[type |-> "FetchFolder", request |-> Ask, label |-> label,
                               generation |-> ui.folderGen + 1, account |-> ui.account]>>))

SetSearch(query) ==
    /\ query # ui.query
    /\ Gesture(Sending(normalize([invalidate_server_search(ui) EXCEPT !.query = query]),
                       CancelOf(ui)))

SubmitWith(query) ==
    LET v == invalidate_server_search(ui)
    IN  /\ query # "" /\ ui.session = "Ready" /\ ui.account # NoOne /\ ui.list # NoList
        /\ Gesture(Sending(
            [v EXCEPT !.query = query, !.searchGen = @ + 1, !.selected = NoMessage, !.reader = Closed,
                      !.search = [state |-> "Loading", request |-> Ask, query |-> query,
                                  generation |-> v.searchGen + 1]],
            CancelOf(ui) \o <<[type |-> "SearchGmail", request |-> Ask, query |-> query,
                               generation |-> v.searchGen + 1, account |-> ui.account]>>))

submit_server_search == SubmitWith(ui.query)

cancel_server_search ==
    /\ ui.search.state = "Loading"
    /\ Gesture(Sending(normalize(invalidate_server_search(ui)), CancelOf(ui)))

retry_server_search == ui.search.state = "Failed" /\ SubmitWith(ui.search.query)

open_selected(u) ==
    IF u.selected = NoMessage THEN Quiet([u EXCEPT !.reader = Closed])
    ELSE IF \/ u.selected \notin Visible(u) \union u.list.rows
            \/ u.reader.state = "Loaded" /\ u.reader.id = u.selected
         THEN Quiet(u)
         ELSE Sending([u EXCEPT !.reader = [state |-> "Loading", id |-> u.selected, request |-> Ask,
                                            generation |-> u.cacheGen]],
                      <<[type |-> "FetchBody", request |-> Ask, id |-> u.selected,
                         generation |-> u.cacheGen, account |-> u.account]>>)

\* Also SelectNext and SelectPrevious (move_selection), the only ones where
\* accounts have rows: from no selection they take the first message or the next.
select_message(id) ==
    /\ id \in Visible(ui)
    /\ Gesture(open_selected([ui EXCEPT !.selected = id]))

retry_body == ui.reader.state = "Failed" /\ Gesture(open_selected(ui))

clear_body_cache ==
    Gesture(Sending([ui EXCEPT !.cacheGen = @ + 1, !.clearing = Ask, !.reader = Closed],
                    <<[type |-> "ClearBodyCache", operation |-> Ask,
                       generation |-> ui.cacheGen + 1]>>))

\* An answer of the registry brings the first row of account_mailboxes or takes
\* the last; it counts among the gestures, and may come at any time.
AccountRows == Gesture(Quiet([ui EXCEPT !.projection = ~@]))

-----------------------------------------------------------------------------
(* The schedule of the poll *)

can_begin_background_sync(u) ==
    /\ u.session = "Ready" /\ u.account # NoOne /\ u.list # NoList
    /\ u.operation = 0 /\ u.activeFolder = 0 /\ ~u.folderLoading
    /\ u.inFlight = 0 /\ ~u.paused

\* As if a tick that cannot begin a poll were dropped.
TimerDropsTick ==
    /\ timer # 0
    /\ LET begun == Sending([ui EXCEPT !.inFlight = polls + 1],
                            <<[type |-> "BackgroundSync", request |-> polls + 1,
                               account |-> ui.account]>>)
           begins == timer = ui.schedule /\ can_begin_background_sync(ui)
       IN  /\ begins => polls < MaxPolls
           /\ polls' = IF begins THEN polls + 1 ELSE polls
           /\ Dispatch([(IF begins THEN begun ELSE Quiet(ui)) EXCEPT !.timer = "fired"])
    /\ UNCHANGED <<events, health, worker, gestures, signIns>>

\* The timer's callback: it disarms itself and dispatches its generation.  A
\* tick that cannot begin a poll arms the timer again; that it does so for
\* nothing again and again is left out once the tick is pending.
background_sync_timer ==
    /\ timer # 0
    /\ LET begun == Sending([ui EXCEPT !.inFlight = polls + 1, !.pendingTick = FALSE],
                            <<[type |-> "BackgroundSync", request |-> polls + 1,
                               account |-> ui.account]>>)
           update == IF timer # ui.schedule \/ ui.paused THEN Quiet(ui)
                     ELSE IF can_begin_background_sync(ui) THEN begun
                     ELSE Arming([ui EXCEPT !.pendingTick = TRUE])
       IN  /\ update = begun => polls < MaxPolls
           /\ update.timer = "arm" => ~ui.pendingTick
           /\ polls' = IF update = begun THEN polls + 1 ELSE polls
           /\ Dispatch([update EXCEPT !.timer = IF @ = "keep" THEN "fired" ELSE @])
    /\ UNCHANGED <<events, health, worker, gestures, signIns>>

-----------------------------------------------------------------------------
(* Events of the worker *)

OfOperation == {"IdentityVerified", "AccountPersisted", "CacheLoaded", "SyncComplete", "Failed"}

InboxOf(e, by) == [account |-> e.account, label |-> "Inbox", rows |-> e.rows, by |-> by]

SyncComplete(u, e) ==
    Arming([normalize([Verified(u, e.account) EXCEPT !.list = InboxOf(e, "sync")])
            EXCEPT !.session = "Ready", !.operation = 0, !.paused = FALSE])

AccountEvent(u, e) ==
    IF u.operation # e.operation THEN Quiet(u)
    ELSE
    CASE e.type = "IdentityVerified" -> Quiet(Verified(u, e.account))
      [] e.type = "AccountPersisted" -> Quiet([Verified(u, e.account) EXCEPT !.session = "Syncing"])
      [] e.type = "CacheLoaded" ->
            Quiet(normalize([Verified(u, e.account) EXCEPT !.view = "Inbox",
                                                           !.list = InboxOf(e, "sync")]))
      [] e.type = "SyncComplete" -> SyncComplete(u, e)
      [] e.type = "Failed" ->
            Quiet([u EXCEPT !.operation = 0, !.session = "Stopped"])

\* As if the gate of folder_loaded asked only whether a load is awaited.
FolderEventIsAwaited(u, e) == u.activeFolder # 0

FolderEventIsCurrent(u, e) ==
    u.activeFolder = e.request /\ u.folderGen = e.generation /\ u.view = e.label

folder_loaded(u, e) ==
    LET v == [u EXCEPT !.list = [account |-> e.account, label |-> e.label, rows |-> e.rows,
                                 by |-> "folder"],
                       !.folderLoading = e.cached]
    IN  normalize(IF e.cached THEN v ELSE [v EXCEPT !.activeFolder = 0, !.session = "Ready"])

folder_failed(u, e) ==
    [u EXCEPT !.activeFolder = 0, !.folderLoading = FALSE,
              !.session = IF e.severe THEN "Stopped" ELSE @]

FolderEvent(u, e) ==
    IF ~FolderEventIsCurrent(u, e) THEN Quiet(u)
    ELSE Quiet(IF e.type = "FolderLoaded" THEN folder_loaded(u, e) ELSE folder_failed(u, e))

\* As if the gate of search_loaded looked only at the state.
SearchEventIsAwaited(u, e) == u.search.state = "Loading"

SearchEventIsCurrent(u, e) ==
    u.search.state = "Loading" /\ u.search.request = e.request /\ u.search.generation = e.generation

SearchEvent(u, e) ==
    IF ~SearchEventIsCurrent(u, e) THEN Quiet(u)
    ELSE
    CASE e.type = "SearchLoaded" ->
            Quiet(normalize([u EXCEPT !.search = [state |-> "Loaded", rows |-> e.rows,
                                                  query |-> e.query, account |-> e.account],
                                      !.selected = NoMessage, !.reader = Closed]))
      [] OTHER -> Quiet(normalize([u EXCEPT !.search = [state |-> "Failed", query |-> @.query]]))

BodyEventIsCurrent(u, e) ==
    /\ u.reader.state = "Loading" /\ u.reader.id = e.id /\ u.reader.request = e.request
    /\ u.reader.generation = e.generation /\ u.cacheGen = e.generation

BodyEvent(u, e) ==
    IF ~BodyEventIsCurrent(u, e) THEN Quiet(u)
    ELSE
    CASE e.type = "BodyLoaded" ->
            Quiet([u EXCEPT !.reader = [state |-> "Loaded", id |-> e.id, of |-> e.account]])
      [] OTHER -> Quiet([u EXCEPT !.reader = [state |-> "Failed", id |-> e.id]])

CacheEvent(u, e) ==
    IF u.clearing = e.operation /\ u.cacheGen = e.generation
    THEN Quiet([u EXCEPT !.clearing = 0,
                         !.reader = IF e.type = "CacheCleared" THEN Closed ELSE @])
    ELSE Quiet(u)

background_worker_event(u, e) ==
    LET v == [u EXCEPT !.inFlight = 0]
        shown == u.view = "Inbox" /\ u.search = Idle /\ u.reader = Closed
    IN  IF u.inFlight # e.request THEN Quiet(u)
        ELSE IF e.type = "BackgroundSyncComplete"
        THEN IF u.account # e.account THEN Quiet(u)
             ELSE Arming(IF shown THEN normalize([v EXCEPT !.list = InboxOf(e, "poll")]) ELSE v)
        ELSE IF e.retryable THEN Arming(v) ELSE Quiet([v EXCEPT !.paused = TRUE])

worker_event(u, e) ==
    CASE e.type \in OfOperation -> AccountEvent(u, e)
      [] e.type \in {"FolderLoaded", "FolderFailed"} -> FolderEvent(u, e)
      [] e.type \in {"SearchLoaded", "SearchFailed"} -> SearchEvent(u, e)
      [] e.type \in {"BodyLoaded", "BodyFailed"} -> BodyEvent(u, e)
      [] e.type \in {"CacheCleared", "CacheClearFailed"} -> CacheEvent(u, e)
      [] OTHER -> background_worker_event(u, e)

Receive ==
    /\ events # <<>>
    /\ events' = Tail(events)
    /\ Dispatch(worker_event(ui, Head(events)))
    /\ UNCHANGED <<health, worker, counts>>

\* The channel is closed and drained: the UI learns that the worker is gone.
Unavailable ==
    /\ health = "stopped" /\ events = <<>>
    /\ health' = "noticed"
    /\ ui' = WorkerUnavailable(ui)
    /\ timer' = IF WasPolling(ui) THEN 0 ELSE timer
    /\ UNCHANGED <<commands, events, worker, counts>>

-----------------------------------------------------------------------------
(* The controller takes a command *)

Begin(kind, task) == [tasks EXCEPT ![kind] = task]
Busy(kind) == tasks[kind] # NoTask
Bare(type, c) == [type |-> type, request |-> c.request, generation |-> c.generation]

\* Aborting a task leaves the closure it waits for.
FetchFolder(c) ==
    /\ gates' = [gates EXCEPT !.folder = c.generation]
    /\ tasks' = Begin("folder", [kind |-> "folder", of |-> c, stage |-> "cache"])
    /\ UNCHANGED <<auth, keyring, saves, stored, cleared, events>>

CancelSearch(c) ==
    /\ gates' = [gates EXCEPT !.search = c.generation]
    /\ tasks' = IF Busy("search") /\ tasks["search"].of.request = c.request
                THEN Begin("search", NoTask) ELSE tasks
    /\ UNCHANGED <<auth, keyring, saves, stored, cleared, events>>

SearchGmail(c) ==
    /\ gates' = [gates EXCEPT !.search = c.generation]
    /\ tasks' = Begin("search", [kind |-> "search", of |-> c, stage |-> "network"])
    /\ UNCHANGED <<auth, keyring, saves, stored, cleared, events>>

FetchBody(c) ==
    /\ tasks' = IF c.generation # gates.cache THEN tasks
                ELSE Begin("body", [kind |-> "body", of |-> c, stage |-> "fetch"])
    /\ UNCHANGED <<auth, keyring, gates, saves, stored, cleared, events>>

\* clear_bodies takes the cache lock after the gate is set.
ClearBodyCache(c) ==
    /\ gates' = [gates EXCEPT !.cache = c.generation]
    /\ tasks' = Begin("body", NoTask)
    /\ \E ok \in BOOLEAN :
        /\ stored' = IF ok THEN {} ELSE stored
        /\ cleared' = IF ok THEN c.generation ELSE cleared
        /\ events' = Append(events, [type |-> IF ok THEN "CacheCleared" ELSE "CacheClearFailed",
                                     operation |-> c.operation, generation |-> c.generation])
    /\ UNCHANGED <<auth, keyring, saves>>

PollFailed(request, retryable) ==
    [type |-> "BackgroundSyncFailed", request |-> request, retryable |-> retryable]

BackgroundSync(c) ==
    /\ IF Busy("poll")
       THEN /\ events' = Append(events, PollFailed(c.request, TRUE))
            /\ UNCHANGED tasks
       ELSE /\ tasks' = Begin("poll", [kind |-> "poll", of |-> c, stage |-> "network"])
            /\ UNCHANGED events
    /\ UNCHANGED <<auth, keyring, gates, saves, stored, cleared>>

\* account_boundary: every task that may speak for the account before ends.
AccountBoundary(c) ==
    /\ tasks' = [[k \in TaskKinds |-> NoTask] EXCEPT
                    !["sync"] = [kind |-> "sync", of |-> c, stage |-> "verify", account |-> NoOne]]
    /\ events' = IF Busy("poll") THEN Append(events, PollFailed(tasks["poll"].of.request, TRUE))
                 ELSE events
    /\ UNCHANGED <<auth, keyring, gates, saves, stored, cleared>>

Control ==
    /\ health = "running" /\ commands # <<>>
    /\ commands' = Tail(commands)
    /\ LET c == Head(commands)
       IN  CASE c.type = "FetchFolder" -> FetchFolder(c)
             [] c.type = "CancelSearch" -> CancelSearch(c)
             [] c.type = "SearchGmail" -> SearchGmail(c)
             [] c.type = "FetchBody" -> FetchBody(c)
             [] c.type = "ClearBodyCache" -> ClearBodyCache(c)
             [] c.type = "BackgroundSync" -> BackgroundSync(c)
             [] OTHER -> AccountBoundary(c)
    /\ UNCHANGED <<ui, timer, health, counts>>

\* The controller's thread ends; its runtime drops every task.
WorkerStops ==
    /\ WorkerMayStop /\ health = "running"
    /\ health' = "stopped"
    /\ commands' = <<>>
    /\ tasks' = [k \in TaskKinds |-> NoTask]
    /\ UNCHANGED <<ui, timer, events, auth, keyring, gates, saves, stored, cleared, counts>>

-----------------------------------------------------------------------------
(* The tasks *)

TaskStep(kind) == Busy(kind) /\ UNCHANGED <<ui, timer, commands, health, counts>>

Says(e) == events' = Append(events, e)
Ends(kind) == tasks' = Begin(kind, NoTask)
Goes(kind, stage) == tasks' = [tasks EXCEPT ![kind].stage = stage]

\* fetch_folder_view
FolderTask ==
    /\ TaskStep("folder")
    /\ LET t == tasks["folder"]
           Loaded(rows, cached) ==
                [type |-> "FolderLoaded", request |-> t.of.request, generation |-> t.of.generation,
                 label |-> t.of.label, account |-> t.of.account, rows |-> rows, cached |-> cached]
           Failed(severe) ==
                [type |-> "FolderFailed", request |-> t.of.request, generation |-> t.of.generation,
                 label |-> t.of.label, severe |-> severe]
           current == gates.folder = t.of.generation
       IN  \/ /\ t.stage = "cache" /\ current
              /\ Goes("folder", "network")
              /\ UNCHANGED events \/ \E rows \in Rows[t.of.label] : Says(Loaded(rows, TRUE))
           \/ /\ t.stage = "network" /\ auth # t.of.account
              /\ Ends("folder") /\ Says(Failed(TRUE))
           \/ /\ t.stage = "network" /\ auth = t.of.account /\ current
              /\ Ends("folder")
              /\ \/ \E rows \in Rows[t.of.label] : Says(Loaded(rows, FALSE))
                 \/ \E severe \in BOOLEAN : Says(Failed(severe))
           \/ /\ ~current /\ (t.stage = "cache" \/ auth = t.of.account)
              /\ Ends("folder") /\ UNCHANGED events
    /\ UNCHANGED <<auth, keyring, gates, saves, stored, cleared>>

\* search_gmail
SearchTask ==
    /\ TaskStep("search")
    /\ Ends("search")
    /\ LET c == tasks["search"].of
           Failed == Bare("SearchFailed", c)
           Loaded == [type |-> "SearchLoaded", request |-> c.request, generation |-> c.generation,
                      query |-> c.query, account |-> c.account, rows |-> Hits[c.query]]
       IN  IF auth # c.account THEN Says(Failed)
           ELSE IF gates.search # c.generation THEN UNCHANGED events
           ELSE Says(Failed) \/ Says(Loaded)
    /\ UNCHANGED <<auth, keyring, gates, saves, stored, cleared>>

Body(c) == [account |-> c.account, id |-> c.id]

\* fetch_body: from the cache, or else from Gmail and then into the cache.
BodyTask ==
    /\ TaskStep("body")
    /\ LET t == tasks["body"]
           c == t.of
           current == gates.cache = c.generation
           Loaded == [type |-> "BodyLoaded", request |-> c.request, generation |-> c.generation,
                      id |-> c.id, account |-> c.account]
           Failed == [type |-> "BodyFailed", request |-> c.request, generation |-> c.generation,
                      id |-> c.id]
           cached == \E b \in stored : b.body = Body(c)
           SaysIfCurrent == IF current THEN Says(Loaded) ELSE UNCHANGED events
       IN  \/ /\ t.stage = "fetch" /\ cached
              /\ Ends("body") /\ SaysIfCurrent
              /\ UNCHANGED saves
           \/ /\ t.stage = "fetch" /\ ~cached
              /\ Ends("body") /\ Says(Failed)
              /\ UNCHANGED saves
           \/ /\ t.stage = "fetch" /\ ~cached /\ auth = c.account /\ current
              /\ Goes("body", "saving")
              /\ saves' = saves \union {c}
              /\ UNCHANGED events
           \/ /\ t.stage = "saving" /\ c \notin saves
              /\ Ends("body") /\ SaysIfCurrent
              /\ UNCHANGED saves
    /\ UNCHANGED <<auth, keyring, gates, stored, cleared>>

\* As if the closure did not look at the gate again.
SaveBodyAnyway ==
    \E c \in saves :
        /\ saves' = saves \ {c}
        /\ stored' = {b \in stored : b.body # Body(c)}
                        \union {[body |-> Body(c), generation |-> c.generation]}
        /\ UNCHANGED <<ui, timer, commands, events, health, auth, keyring, gates, tasks, cleared, counts>>

\* Its closure holds the cache lock: it looks at the gate, then stores the body.
SaveBody ==
    \E c \in saves :
        /\ saves' = saves \ {c}
        /\ \E ok \in BOOLEAN :
            stored' = IF gates.cache = c.generation /\ ok
                      THEN {b \in stored : b.body # Body(c)}
                            \union {[body |-> Body(c), generation |-> c.generation]}
                      ELSE stored
        /\ UNCHANGED <<ui, timer, commands, events, health, auth, keyring, gates, tasks, cleared, counts>>

\* background_sync
PollTask ==
    /\ TaskStep("poll")
    /\ Ends("poll")
    /\ LET c == tasks["poll"].of
           Complete(rows) == [type |-> "BackgroundSyncComplete", request |-> c.request,
                              account |-> c.account, rows |-> rows]
       IN  IF auth # c.account THEN Says(PollFailed(c.request, FALSE))
           ELSE \/ \E rows \in Rows["Inbox"] : Says(Complete(rows))
                \/ \E retryable \in BOOLEAN : Says(PollFailed(c.request, retryable))
    /\ UNCHANGED <<auth, keyring, gates, saves, stored, cleared>>

\* restore_task, connect_task and sync, as far as the list sees them.
SyncTask ==
    /\ TaskStep("sync")
    /\ LET t == tasks["sync"]
           Of(type, account) == [type |-> type, operation |-> t.of.operation, account |-> account]
           WithRows(type, rows) == [type |-> type, operation |-> t.of.operation,
                                    account |-> t.account, rows |-> rows]
           restoring == t.of.type = "Restore"
       IN  \/ /\ Ends("sync")
              /\ Says([type |-> "Failed", operation |-> t.of.operation])
              /\ UNCHANGED <<auth, keyring>>
           \/ /\ t.stage = "verify"
              /\ \E account \in IF restoring THEN {keyring} ELSE Accounts :
                    /\ tasks' = [tasks EXCEPT !["sync"].stage = "authorize",
                                              !["sync"].account = account]
                    /\ Says(Of("IdentityVerified", account))
              /\ UNCHANGED <<auth, keyring>>
           \/ /\ t.stage = "authorize"
              /\ Goes("sync", "fetch")
              /\ auth' = t.account
              /\ keyring' = IF restoring THEN keyring ELSE t.account
              /\ IF restoring
                 THEN UNCHANGED events \/ \E rows \in Rows["Inbox"] : Says(WithRows("CacheLoaded", rows))
                 ELSE Says(Of("AccountPersisted", t.account))
           \/ /\ t.stage = "fetch"
              /\ Ends("sync")
              /\ \E rows \in Rows["Inbox"] : Says(WithRows("SyncComplete", rows))
              /\ UNCHANGED <<auth, keyring>>
    /\ UNCHANGED <<gates, saves, stored, cleared>>

-----------------------------------------------------------------------------
(* The specification starts after the first sync has completed; a query     *)
(* may have been typed meanwhile.                                           *)

FirstView(account, rows, query, projection) ==
    [session |-> "Ready", operation |-> 0, account |-> account, view |-> "Inbox", projection |-> projection,
     list |-> [account |-> account, label |-> "Inbox", rows |-> rows, by |-> "sync"],
     query |-> query, search |-> Idle, selected |-> NoMessage, reader |-> Closed,
     activeFolder |-> 0, folderGen |-> 1, folderLoading |-> FALSE, searchGen |-> 1,
     cacheGen |-> 1, clearing |-> 0, inFlight |-> 0, pendingTick |-> FALSE,
     paused |-> FALSE, schedule |-> 1]

Init ==
    \E account \in Accounts, rows \in Rows["Inbox"], query \in Queries, projection \in BOOLEAN :
        /\ ui = normalize(FirstView(account, rows, query, projection))
        /\ auth = account /\ keyring = account
    /\ timer = 1 /\ commands = <<>> /\ events = <<>> /\ health = "running"
    /\ gates = [search |-> 1, folder |-> 1, cache |-> 1]
    /\ tasks = [k \in TaskKinds |-> NoTask]
    /\ saves = {} /\ stored = {} /\ cleared = 0
    /\ gestures = 0 /\ signIns = 0 /\ polls = 0

Person ==
    \/ /\ signIns < MaxSignIns /\ signIns' = signIns + 1
       /\ \E kind \in {"Restore", "Connect"} : start(kind)
    \/ /\ UNCHANGED signIns
       /\ \/ \E label \in Labels : load_folder(label)
          \/ \E query \in Queries : SetSearch(query)
          \/ submit_server_search
          \/ cancel_server_search
          \/ retry_server_search
          \/ \E id \in Messages : select_message(id)
          \/ retry_body
          \/ clear_body_cache
          \/ AccountRows

System ==
    \/ background_sync_timer
    \/ Receive
    \/ Unavailable
    \/ Control
    \/ FolderTask
    \/ SearchTask
    \/ BodyTask
    \/ SaveBody
    \/ PollTask
    \/ SyncTask

Next == Person \/ System \/ WorkerStops

Spec == Init /\ [][Next]_vars

(* The main loop, the timer and the worker's threads run; each network and  *)
(* keyring call has a timeout.  All their chains are finite.                *)
FairSpec == Spec /\ WF_vars(System)

-----------------------------------------------------------------------------
(* Properties *)

Ids == 0 .. MaxGestures
Generations == 0 .. 3 * (MaxGestures + 1) + MaxPolls
Owners == Accounts \union {NoOne}

\* The state of the view and of the worker have the shapes the code declares.
TypeOK ==
    /\ ui.session \in {"Ready", "Syncing", "Stopped"}
    /\ ui.account \in Owners /\ ui.view \in Labels /\ ui.query \in Queries
    /\ ui.list \in [account : Owners, label : Labels, rows : SUBSET Messages,
                    by : {"nothing", "switch", "sync", "folder", "poll"}]
    /\ ui.selected \in Messages \union {NoMessage}
    /\ ui.search.state \in {"Idle", "Loading", "Loaded", "Failed"}
    /\ ui.reader.state \in {"Closed", "Loading", "Loaded", "Failed"}
    /\ {ui.operation, ui.activeFolder, ui.clearing} \subseteq Ids
    /\ {ui.folderGen, ui.searchGen, ui.cacheGen, ui.schedule, timer, cleared} \subseteq Generations
    /\ ui.inFlight \in 0 .. MaxPolls
    /\ {ui.folderLoading, ui.pendingTick, ui.paused, ui.projection} \subseteq BOOLEAN
    /\ auth \in Accounts /\ keyring \in Accounts
    /\ gates \in [{"search", "folder", "cache"} -> Generations]
    /\ DOMAIN tasks = TaskKinds /\ \A k \in TaskKinds : tasks[k].kind \in {k, "none"}
    /\ \A b \in stored : b.generation \in Generations

\* While a search is shown, the words in the search box are the ones it was
\* made for, and its rows are what they match in the account that is signed in:
\* results that come after the query, the account or the label changed are not
\* shown (invalidate_server_search and the gate of search_loaded).
ResultsMatchQuery ==
    ui.search # Idle =>
        /\ ui.search.query = ui.query
        /\ ui.search.state = "Loaded" =>
              ui.search.account = ui.account /\ ui.search.rows = Hits[ui.query]

\* A list that a folder load or a poll brought is that of the label and the
\* account chosen now, however late the answer came (folder_loaded,
\* background_worker_event and the resets of an account change).
LateListsAreDropped ==
    ui.list.by \in {"switch", "folder", "poll"} =>
        ui.list.label = ui.view /\ ui.list.account = ui.account

\* Of an open reader the message is the selected one; where accounts have rows,
\* none may be.
ReaderFits(u) ==
    u.reader # Closed => \/ u.selected = u.reader.id
                         \/ u.projection /\ u.selected = NoMessage

\* The list shows the selected message, and a body in the reader was fetched for
\* the account signed in: message ids repeat between accounts.  As long as rows
\* neither appear nor vanish, no step parts the reader from the selection; and
\* where accounts have rows, no step but the person's opening of a message
\* chooses one, as the comment of normalize demands (normalize, open_selected,
\* the gate of BodyLoaded and the resets of an account change).
ReaderShowsSelection ==
    /\ [](/\ ui.selected # NoMessage => ui.selected \in Visible(ui)
          /\ ui.reader.state = "Loaded" => ui.reader.of = ui.account)
    /\ [][/\ ui'.projection = ui.projection /\ ReaderFits(ui) => ReaderFits(ui')
          /\ ui.projection /\ ui'.selected \notin {NoMessage, ui.selected} =>
                ui'.reader # Closed /\ ui'.reader.id = ui'.selected]_vars

\* After Clear Cache no body asked for before it comes back to the disk, not
\* even from a closure that outlived its task (fetch_body, ClearBodyCache).
ClearedStaysCleared == \A b \in stored : b.generation >= cleared

PollIsOnItsWay(request) ==
    \/ \E i \in DOMAIN commands :
          commands[i].type = "BackgroundSync" /\ commands[i].request = request
    \/ Busy("poll") /\ tasks["poll"].of.request = request
    \/ \E i \in DOMAIN events :
          /\ events[i].type \in {"BackgroundSyncComplete", "BackgroundSyncFailed"}
          /\ events[i].request = request

\* A schedule that is not paused never runs dry: its timer is armed, or the
\* poll in flight will be answered, and every answer arms it again or pauses it
\* (background_sync_timer, background_worker_event, account_boundary).
PollingContinues ==
    health = "running" /\ ~ui.paused =>
        \/ timer = ui.schedule
        \/ ui.inFlight # 0 /\ PollIsOnItsWay(ui.inFlight)

\* No search, no reader and no poll waits forever: what the person or the timer
\* asked for is answered, replaced or given up, also when a sign-in aborts its
\* task or the worker stops.
AnswersArrive ==
    /\ []<>(ui.search.state # "Loading")
    /\ []<>(ui.reader.state # "Loading")
    /\ []<>(ui.inFlight = 0)

=============================================================================
