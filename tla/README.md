# Whitford: formal models

TLA+ models of Whitford, a GTK mail client for Gmail: the modules are checked by
TLC on small instances and, where it says so, their properties are proved by
TLAPS for every value of the constants. Paths such as `worker.rs:2634` are
under `src/src/`. `PROJECT.json` maps every definition to the lines it models.

## 1. The system

Whitford is one process.

```
 person, timers, window                      network, Secret Service, browser
        |                                               |
 +------v-----------+  WorkerCommand (FIFO)   +---------v-------------------+
 | GTK thread       |------------------------>| worker thread (tokio,       |
 | AppState::       |                         | current_thread): controller |
 |   dispatch       |<------------------------| + lifecycle task, poll,     |
 | render           |  WorkerEvent (FIFO)     |   folder load, actors       |
 +------------------+                         +---------+-------------------+
                                                        | spawn_blocking
                                              +---------v-------------------+
                                              | blocking threads: cache     |
                                              | closures under `cache_io`   |
                                              +-----------------------------+
```

- The GTK thread runs a reducer: `AppState::dispatch(Action) -> Update`. The
  effects of an update send commands; nothing in the reducer blocks.
- One worker thread runs `controller`, which starts and aborts tasks. Tasks
  interleave at every `await`.
- Both channels are unbounded and first in, first out.
- A cache access is a closure on a blocking thread that takes the process-wide
  `cache_io` mutex. Aborting the task that spawned it does not stop it once it
  has started: this is where most of what is hard in this program comes from.
- What outlives the process: refresh tokens in Secret Service, the mail cache
  and the body cache, the drafts, the preferences and the account registry.

| component | state | operations | what is hard | what makes it correct | module |
|---|---|---|---|---|---|
| Account lifecycle (`state.rs` `start` to `account_worker_event`; `worker.rs` `controller`, `connect`, `restore`, `disconnect`) | session, account, shown mail, active operation; active task, cleanup flag, runtime token, epochs, metadata lane; keyring, mailbox | Connect, Restore, Cancel, Retry, Disconnect, folder load, poll, close, restart | aborted tasks with live closures, superseded operations whose events are still queued, partial failures between keyring, cache and memory | shown mail belongs to the shown account; a disconnect leaves nothing; a poll writes for its own session only; every operation is answered | `AccountLifecycle` |
| Local drafts and composer (`state.rs` composer functions; `draft_io_actor`; `drafts.rs`) | draft catalogue, open composer, outstanding save, pending close, staged files; actor batch; draft directories | restore, compose, resume, edit, stage and remove files, hide, close, send, discard | coalesced saves, answers that come after the composer changed, failures half way, the worker's end | the list is the disk; "saved" is true; no attachment is lost; nothing waits for ever | `DraftQueue` |
| Per-account poll scheduler (`FairAccountSyncQueue`, `worker.rs:229-306`) | two queues, scheduled and in-flight sets | new, enqueue, dequeue, complete | order of calls is the caller's | one job per account, turns, work is started | `FairAccountSyncQueue`, `AccountSyncSlots` |
| Mail views and background schedule (`state.rs` 2048-2206, 3437-3720) | selected view, search, poll timer, schedule generation | select a folder, search, next page, timer ticks, backoff | late results of another view or account, late ticks, answers lost with an aborted task | what is shown belongs to what was asked last; the schedule never runs dry; everything asked is answered | `MailView` |
| Message mutations and undo (`state.rs` 3748-4300; `mutation_actor`) | optimistic rows, pending mutations, undo tokens, command queue | archive, trash, star, read, undo, reconcile | several changes of one message in flight, uncertain outcomes, account boundaries | an undo is offered and reported only for what Gmail holds; a rejection means nothing happened; every change is answered | `MutationUndo` |
| Account registry (`worker.rs` 3891-4215) | registered accounts, scoped tokens and caches | add, reconnect, remove, select From | cancellation between token, cache and registration | a row stands on its token and cache; a removed account stays removed; one row per identity; every operation is answered | `AccountRegistry` |
| Mail cache (`cache.rs`) | mailbox index with the notification watermark, older generations, bodies, attachments, cleanup marker | prepare, replace, mutate, prune, clear, resume, download | an error or the end of the process between two files; downloads outside the lock | the previous account is unreadable from the marker on and gone at the end; a message is announced once | `CacheStore`, `ReadableMail` |
| Bodies and attachments (`worker.rs` 1939-1995, 4937-5205) | content jobs, generation, slots | fetch, download, clear | results after a clear or a change of account | nothing is stored after the clear | files: `CacheStore`; bodies and their gate: `MailView`; attachment slots not modelled |
| Preferences (`worker.rs` 1852-1875) | last value, job | save | a late failure of an older save | latest wins | not modelled |
| OAuth, Gmail, SMTP, configuration, secrets | connections | I/O | protocols | | external: outcomes only |
| GTK interface (`ui/`) | widgets | render | | | which actions are enabled in which state |

## 2. Modules

### `AccountLifecycle`

One module for the reducer, the controller, its tasks and the cache closures,
because the interesting steps are those of two of them. The state is grouped by
owner: `uiVars` (AppState), the channels `cmds` and `evts`, `workerVars` (locals
of `controller` and of its tasks), `closures`, `diskVars`.

| code | model |
|---|---|
| a click or timer and the `dispatch` it causes | `ClickConnect`, `ClickDisconnect`, `ClickRetry`, `ClickCancel`, `SelectFolder`, `BackgroundTimer`, `BrowserLaunchFailed`, `CloseWindow`; the guards are those of the rendered controls |
| one arm of `account_worker_event` / `background_worker_event` | `On...`; `DropStaleEvent` is the request-id comparison |
| one arm of the controller's command loop | `Ctl...`; a boundary (Connect, Restore, Disconnect) is two steps: `CtlBoundary` moves the epoch, aborts the poll and answers for it; the command is then `held` while `drain_mutations` is awaited, and every command behind it waits too |
| what a task does between two awaits | one value of `task.pc`, `poll.pc` or `folder.pc`, and one action |
| `spawn_blocking` on the cache | a record in `closures`: `live` while its task still waits for it, `inside` while it holds `cache_io` |
| abort of a task | `Detach`: its closures stay, nobody waits for them. A closure that has not started may still run; `DropClosure` is the runtime's drop at shutdown, which discards only closures that have not started |

An account is a model value, a mailbox is its owner, a token is its account. A
lifecycle cache closure checks nothing inside the lock and is one step. The
closures of polls and folder loads check their epoch, account or generation
first and write in a second step, because the check is the property's subject.

`erased` and `stray` are observations: the account of the last completed
Disconnect, and whether the mailbox was last written by a closure whose task
had been aborted.

Left out: the finer phases of progress events, `AccountPersisted`, search,
bodies, sends and the mutations themselves (the second half of a boundary comes
after any delay, which stands for `drain_mutations`), the registered accounts, the legacy
registration, a panicking task, the loss of the worker thread, a keyring call
that lands after its timeout, a crash inside a cache cleanup. `Refresh` is a
command that no control of the interface sends.

### `DraftQueue`

The composer half of AppState, `draft_io_actor`, and the draft directories, for
one account. A draft is a revision number and a set of staged files.

| code | model |
|---|---|
| `begin_compose`, `resume_draft`, edits, `stage_attachment`, `remove_attachment`, `hide_composer`, `close_composer`, `send_message`, `discard_draft` | the actions of `User`, with the guards of the reducer and of the rendered controls |
| the channel of commands, the controller that forwards them, the actor's channel | one queue `queue` |
| `recv`, then `try_recv` until empty | `ActorReceives`: any non-empty prefix becomes `batch` |
| skipping a save that a later one makes obsolete | `ActorSkips`, `Obsolete` |
| `handle_draft_io` | `ActorRuns`, which may fail before or half way through the operation |
| the arms of `account_worker_event` for draft events | `OnDraftsLoaded` ... `OnMessageSendFailed` |
| `WorkerUnavailable` (a send that fails, or the end of the event channel) | `OnWorkerUnavailable` |
| window close and `Shutdown` | `CloseWindow`, `ShutDown` |

`flush_recipients` and the editor's snapshot are folded into the one change
that hiding, closing and sending begin with. The controls follow
`ui/render.rs`: while a close is pending, editing, discarding and removing files
are locked, whereas Escape, Ctrl+Enter, another window close and the answer of a
file dialog that was already open are not.

`asked`, `unsaved` and `litter` are observations: the draft a close was
asked for, drafts whose last write failed, and files that a failed removal or
staging left: an error while the bytes are copied or synced leaves the partial file
in the draft's directory (`drafts.rs:265-282`). The safety properties speak of what
did not fail.

Left out: change of account, the choice of From, the content of signatures,
quotas, the identifier of a submission (there is one at a time) and the reload of drafts
after a restart.

### `FairAccountSyncQueue` and `AccountSyncSlots`

The scheduler as written: two queues, `scheduled`, `in_flight`; the four
operations are actions that a caller may call in any order. It is not wired to
the controller yet, so its fairness is the contract in its comment
(`worker.rs:282-283`): the caller dequeues again and completes every job, failed
or not. `AccountSyncSlots` is the abstract specification: one slot per account,
idle, waiting or active, at most `Capacity` active, and while there is room
something starts. The refinement mapping is `slotOf`. `bypassed` counts, for an
account whose background job waits, how often each other account was dequeued.

### `CacheStore` and `ReadableMail`

One cache root (`$XDG_CACHE_HOME/whitford`), file by file. `AccountLifecycle`
treats a cache closure as one step that succeeds or fails; here the closure is
taken apart.

| code | model |
|---|---|
| a closure that took `cache_io` | `op`: its kind, its account, what it has read, and the `stage` it stands before; one closure at a time |
| `resume_pending_account_cleanup_with`, `clear_all_mail_at`, `clear_bodies_at` | the stages `index`, `oldIndexes`, `bodies`, `oldBodies`, `attachments`, `marker`, in the order `After` |
| `prepare_verified_account_at`, `replace_folder_and_save_at`, the notification gate | `Prepare`, `ReplaceInbox`, `ReplaceFolder`, `Poll`: resume a cleanup, `CheckOwner`, `WriteMarker` and its stages, `Install`, `RemoveLeftovers`, `Reconcile`, `Return` |
| `save_body_at`, `load_body_at`, `save_preferences_and_prune_at` | `SaveBody`, `LoadBody`, `SavePreferences`, then `WriteBody` or `Truncate`, then `Reconcile` |
| `mutate_stored_mailbox_at` | `Mutate`, one write of the index |
| `load_latest_from`, `load_folder_from` | `ReadableMailbox`: nothing while the marker is there |
| an error of any file operation | `Fail`: the stage may have done part of its work; `clear_all_mail` goes on and remembers it |
| the end of the process, and `cleanup_attachment_partials` at the next start | `Restart` |
| `prepare_open_attachment_at`, `AtomicAttachment` | `StartDownload`, `FinishDownload`, `FailDownload`, at any stage of a closure; a purge that removes the directory takes the temporary file with it (`CutOff`), and the rename then fails |
| the tasks the controller aborts first | `AbortDownloads` in `Prepare`, `ClearAllMail`, `ClearBodies` |

A JSON file is written by renaming a complete temporary one: one step, or
nothing. The set of messages a mailbox shows and the set its watermark covers
are told apart, because mutations, retention changes and eviction change the
first alone. An account's bodies and attachments are there or not: the readers
and the removals distinguish files by account only.

`ReadableMail` is the abstract specification, what `AccountLifecycle` relies on:
a mailbox, bodies and the account they were last prepared for; no files, no
marker, no failures, no restarts. A purge takes everything in one step; mail appears
only by a commit, where no other account's mailbox is, or by saving a body. The
refinement mapping is what a load returns (`ReadableMailbox`, `ReadableBodies`),
so the step of a change of identity that counts is `WriteMarker`: the six
stages after it, and any failure or restart between them, change nothing.

`verified`, `sealed`, `gone`, `announced` and `news` are observations: the
account last prepared or committed; accounts not written since a purge became
certain, and since one was completed; messages announced and still in every
window; what the last poll announced.

Left out: which files the budgets evict (any may go, except the body just
saved), views of other folders, files that cannot be parsed (the code treats such
an index as none), copying the root into an account's own, and power loss: a
rename is taken as durable.

### `MailView`

What the list and the reader of the single account show, and the poll timer, in
both regimes of `normalize` (`state.rs:4607`). Without rows in `account_mailboxes`
the selection follows the list, and the reader closes with its message. With rows,
which every sign-in registers before `SyncComplete`, `normalize` drops the
selection and leaves the reader alone; the list then shows the accounts' rows
(`ui/render.rs:776`), which are `AccountRegistry`'s, while the gestures of the old
list stay reachable by keyboard. Here the rows are one flag, `ui.projection`, and
`AccountRows` lets the first come or the last go at any time. `ui` is AppState as one record: session, account,
list, query, search, selection, reader, the request ids and the four
generations. The specification starts after the first synchronization.

| code | model |
|---|---|
| the pure half of an update | an operator on `ui` that returns the new record, the commands and what becomes of the timer (`Quiet`, `Sending`, `Arming`) |
| `Ui::dispatch`, `Ui::execute`, a send that fails | `Dispatch`; a refused send is a nested `WorkerUnavailable` |
| a gesture of the person | `start` (restore, sign-in), `load_folder`, `SetSearch`, `submit_server_search`, `cancel_server_search`, `retry_server_search`, `select_message`, `retry_body`, `clear_body_cache` |
| the timer of the background schedule | `background_sync_timer`, with the generation it was armed with |
| `worker_event` | `Receive`: the gate of each kind of event, then its update |
| one arm of the controller | `FetchFolder`, `CancelSearch`, `SearchGmail`, `FetchBody`, `ClearBodyCache`, `BackgroundSync`, `AccountBoundary` in `Control` |
| a task between two awaits | `FolderTask`, `SearchTask`, `BodyTask`, `PollTask`, `SyncTask`, by `stage` |
| `cache_blocking` for a body | a member of `saves`: an aborted task leaves it behind, and `SaveBody` looks at the gate under the lock |
| the worker's end | `WorkerStops`, `Unavailable` |
| a row of the accounts' list, the first or the last | `AccountRows` |

A message is a number, and ids repeat between accounts. Left out: Disconnect and
Cancel (`AccountLifecycle`), the absence of a stored account, the lengths of the
delays and the backoff, the filter menu, attachments, changes of messages
(`MutationUndo`), notifications (`CacheStore`), and of the lists of registered accounts
all but whether there are any.

### `MutationUndo`

Changes of messages in the single account: the optimistic lists, the pending
changes and the one undo of AppState; the commands, `mutation_actor` and its
generation gate; and Gmail itself as the state of each message.

| code | model |
|---|---|
| `mutate_selected`, `undo_message_operation`, `dispatch_undo` | `MutateSelected`, `UndoMessageOperation`, `DispatchUndo` |
| `finish_mutation`, `finish_undo_mutation`, the reconciliation of rows | `FinishMutation`, `FinishUndoMutation`, `RowsAfter`, `Reconcile` |
| folder loads, search, Clear Cache, as far as they touch rows or changes | `LoadFolder`, `Search`, `CloseSearch`, `ClearBodyCache`, and the arm of `Deliver` |
| `mutation_actor` around its two awaits | `TakeMutation` (gate), `MutateMessage` (gate again, then Gmail), `AnswerMutation` (gate a third time, behind the cache write) |
| `mutate_message_inner` and `reconcile_message_inner` of `gmail.rs` | `Attempts`, `Resolved`, `ReconciledMessage`, `Outcome`: a store is refused, done, half done, or done with the answer lost; the reading back may fail as well |

Left out: the place of a row in its list, the mailbox cache (`CacheStore`'s
`Mutate`), the unified lists, and changes another client makes, except that it
may delete the message for good.

### `AccountRegistry`

Registered accounts: registry rows, scoped tokens and caches, one task per
account and one that adds; the account lists of AppState; the singleton session
as far as it gives its account a row or touches the lists. Every account has one
message, and only the unified Inbox is shown.

| code | model |
|---|---|
| AddAccount, Reconnect, Remove, Cancel, Restore, Connect, Disconnect, selecting and archiving in the unified list | `StartAddAccount`, `ReconnectAccount`, `RemoveAccount`, `CancelAdd`, `CancelSync`, `StartSync`, `Disconnect`, `SelectAccountMessage`, `ArchiveSelected` |
| `worker_event` with its three families of operation ids, and the events scoped by account | `Deliver`: `AddEvent`, `ProjectionEvent`, `SingletonEvent`, `ScopedEvent` |
| the controller's arms | `Controller` |
| `add_account` and its undoing | `AddBrowser`, `AddCheck`, `AddWrite` with `AddNext` and `AddUndo` |
| `reconnect_account`, `remove_account` | `ReconnectSign`, `ReconnectFetch`, `TaskWrite` with `TaskNext` |
| `restore_or_refresh`, `connect`, `emit_legacy_account_registration` | `LegacyList` ... `LegacyFetch` |
| a closure or keyring call whose task was aborted or timed out | a member of `strays`, written by `Stray` at any later time or never |
| the end of the process and its next start | `Restart` |

`used`, `added`, `removed`, `leaving` are observations: ids drawn, ids whose row
`add_account` has written, ids whose row was deleted, ids some removal was begun
for. `RowsAreWhole` needs `added`: a row the singleton session registered has
neither a scoped token nor a scoped cache, by design, and a row of `add_account`
has both. A restoration takes its rows one after another, in any order, until the
list is full (`Restorable`). Left out: bodies, sends and other
folders of registered accounts, failures inside the cleanup of a cache, the
reader, and everything of the singleton session that `AccountLifecycle` has.

## 3. What TLC checks

| run | instance | size | question |
|---|---|---|---|
| `lifecycle` | 2 accounts, 3 operations, 1 folder load, 1 restart, symmetry | 2.7 M states | `ShownMailIsAccountMail`, `SignedOutIsClean`, `TokenGoesLast`, `SyncedSessionIsAuthorized` |
| `session` | 2 accounts, 2 operations, 1 poll, 1 folder load, fairness | 97 k | `PollWritesItsOwnSession`, `PollReplacesItsOwnToken`, `OperationsSettle`, `PollsSettle` |
| `drafts` | 2 drafts, 1 file, 7 allocated operations, symmetry | 3.0 M | `ListedDraftsAreStored`, `StagedFilesAreReferenced`, `SavedMeansStored`, `OpenDraftHasItsFiles`, `ClosesOverStoredDraft` |
| `drafts_settle` | 1 draft, 1 file, 6 operations, the worker may die, fairness | 114 k | `RestoreSettles`, `SaveSettles`, `ComposerIsReleased` |
| `fair_queue` | 3 accounts, 2 slots, unbounded calls, fairness | 4.5 k | `NobodyMonopolizes`, `ImplementsSlots`, `BackgroundStarts` |
| `cache` | 2 accounts, 1 message, unbounded operations, symmetry | 2.2 M | `PurgesInOneStep`, `SealedIsUnreadable`, `GoneIsGone`, `ShownIsKnown`, `AnnouncedOnce` |
| `mutations` | 1 message in Inbox, All Mail and Trash, 2 changes, 1 load, 1 Clear Cache, fairness | 350 k | `OfferedUndoHolds`, `AwaitedIsInFlight`, `UndoneIsBack`, `RejectedIsUnapplied`, `ChangesSettle` |
| `accounts` | 2 ids of one address, 3 operations, 1 archive, 1 restart, symmetry | 4.7 M | `RemovedStaysGone`, `RowsAreWhole`, `HiddenOnlyIfMoved`, `OneRowPerIdentity` |
| `accounts_settle` | the same without archive and restart, fairness | 610 k | `OperationsSettle` |
| `views` | 2 accounts, 2 labels, 2 messages, 2 queries, 3 gestures and sign-ins (1 of them at most a sign-in), with and without rows, symmetry | 4.5 M | `ResultsMatchQuery`, `ReaderShowsSelection`, `ClearedStaysCleared` |
| `views_settle` | 2 gestures, 1 poll, the worker may stop, fairness | 1.05 M | `LateListsAreDropped`, `PollingContinues`, `AnswersArrive` |
| `disconnect_removes` | the smallest that shows it | | a violation, section 5 |

Every module has a type invariant `TypeOK`. TLC has checked it on the instances
above; it is proved for every instance where section 4 says so, and to
keep the runs short the configurations do not repeat it. Nor does `cache` repeat
`ShownIsVerified`, which `PurgesInOneStep` implies and a theorem states.

**Why the bounds are enough.** In `AccountLifecycle` the state that separates
one operation from the next is its identifier, and the code compares identifiers
for equality only. Three operations are a restored session, a change to another
account and a disconnect, or a connect cancelled, retried and superseded; the
restart starts the count again with what the first process left on disk. Two
accounts are all a stale result and a current one can tell apart. One folder
load and one poll are in flight at a time in the code; the bound limits how many
are started, not what they overlap with. In `DraftQueue` restoring takes two
operations, so five are left: a save, the save behind it in the batch and the
removal or deletion between, with one staging; the disk's failures are not
bounded. With two drafts, the answer of one may arrive over the other.
`FairAccountSyncQueue` needs no bound but the accounts, as `bypassed` resets on
every enqueue and the property bounds it; three accounts over two slots leave
one waiting behind another. `CacheStore` needs no bound: its state is finite
and the run explores every sequence of operations, failures and restarts.
Whether a message is shown, known or announced depends on that message alone, so
one is enough; a change of identity concerns the owner on disk and the account
that comes, so two accounts are. One download runs at a time; the code allows
several, each of which is only ever cut off, renamed or dropped. In `MutationUndo`
two changes with an undo are three commands on one message, and everything the
reducer keeps is per message but the undo, which is replaced by the second
change; the proofs cover more messages. In `AccountRegistry` the third operation
comes after a restoration and a first operation; two ids of one identity are
what a duplicate, a removal and the addition after it need, and one of them may
be registered from an earlier run of the program. In `MailView` a late answer
needs its request, what supersedes it and, for ids that repeat, a change of
account: three gestures. The query "r" tells a list from what matches in it.

`CHECK_DEADLOCK FALSE` is used where the system stops: the window closes, or the
bounds are used up. The `fair_queue` run checks deadlock. In `session` symmetry would not be
sound, so the initial disks are named up to a renaming of accounts
(`MCAccountLifecycle!SessionInit`), and drafts, which no step of that module creates, start empty.

**Fairness.** `AccountLifecycle`: weak fairness of the event loops (`UiEvent`,
`CtlStep`), of tasks that can go on (`TaskStep`, `PollStep`, `FolderStep`) and of
closures (`RunClosure`). The code justifies it: loops never block, a task's awaits
on network, keyring and browser have timeouts that the model takes as one more
outcome, and a closure is finite and its mutex is released. Nothing is asked of
the person, the timer, or the restart. `DraftQueue`: weak fairness of the actor,
of the reducer's event loop and of an SMTP submission (45 seconds,
`smtp.rs:270`); `WorkerDies` owes nothing. `FairAccountSyncQueue`: the caller's contract above.
`MutationUndo`: weak fairness of the reducer's event loop and of each step of the
actor (`TakeMutation`, `MutateMessage`, `AnswerMutation`) and of the controller;
each network call has a timeout, which is one of its outcomes. Folder loads owe
nothing. `AccountRegistry` and `MailView`: weak fairness of `System`, all the steps
of the event loop, the controller, the tasks and the closures together: in the
absence of the person each of their chains is finite, so no step of one can put
off another's for ever. `WorkerStops` owes nothing.
`CacheStore` states safety only and assumes no fairness.

Every property of a passing run is paired in `PROJECT.json` with a mutation of the
code's logic that violates it (a dropped identifier check, a closure that does
not look at its epoch, an early token deletion, a save that makes itself
obsolete). The mutated forms stand beside the definitions they change.

## 4. What TLAPS proves

| theorem | module | establishes |
|---|---|---|
| `TypeCorrect` | `AccountLifecycleProofs` | `Spec => []TypeOK` |
| `PollWritesOwnSession` | `PollSessionProofs` | `Spec => []PollWritesItsOwnSession` |
| `ShownIsTheAccounts` | `PollSessionProofs` | `Spec => []ShownMailIsAccountMail` |
| `SignedOutStaysClean` | `PollSessionProofs` | `Spec => []SignedOutIsClean` |
| `TokensReplacedInSession` | `PollSessionProofs` | `Spec => []PollReplacesItsOwnToken` |
| `TokenIsLast` | `PollSessionProofs` | `Spec => TokenGoesLast` |
| `SyncedIsAuthorized` | `PollSessionProofs` | `Spec => SyncedSessionIsAuthorized` |
| `OneJob` | `FairAccountSyncQueueProofs` | `Spec => []OneJobPerAccount` |
| `TakesTurns` | `FairAccountSyncQueueProofs` | `Spec => []NobodyMonopolizes` |
| `QueueImplementsSlots` | `FairAccountSyncQueueProofs` | `Spec => Slots!Safety` |
| `CacheTypes` | `CacheStoreProofs` | `Spec => []TypeOK` |
| `OnlyVerifiedIsShown` | `CacheStoreProofs` | `Spec => []ShownIsVerified` |
| `PurgeHides` | `CacheStoreProofs` | `Spec => []SealedIsUnreadable` |
| `PurgeRemoves` | `CacheStoreProofs` | `Spec => []GoneIsGone` |
| `WatermarkCovers` | `CacheStoreProofs` | `Spec => []ShownIsKnown` |
| `AnnouncesOnce` | `CacheStoreProofs` | `Spec => []AnnouncedOnce` |
| `PurgeIsOneStep` | `CacheStoreProofs` | `Spec => PurgesInOneStep`, that is `Reader!Spec` |
| `TypeCorrect` | `MutationUndoProofs` | `Spec => []TypeOK` |
| `RejectedMeansUnapplied` | `MutationUndoProofs` | `Spec => RejectedIsUnapplied` |
| `OfferHolds` | `MutationUndoProofs` | `Spec => []OfferedUndoHolds` |
| `UndoneMeansBack` | `MutationUndoProofs` | `Spec => UndoneIsBack` |
| `WaitedForInFlight` | `MutationUndoProofs` | `Spec => []AwaitedIsInFlight` |
| `ClearedForGood` | `MailViewProofs` | `Spec => []ClearedStaysCleared` |
| `LateListsDropped` | `MailViewProofs` | `Spec => []LateListsAreDropped` |
| `ResultsAreTheQuerys` | `MailViewProofs` | `Spec => []ResultsMatchQuery` |
| `ReaderIsTheSelections` | `MailViewProofs` | `Spec => ReaderShowsSelection` |
| `PollingGoesOn` | `MailViewProofs` | `Spec => []PollingContinues` |
| `RemovedForGood` | `AccountRegistryProofs` | `Spec => []RemovedStaysGone` |
| `OneRowEach` | `AccountRegistryProofs` | `Spec => []OneRowPerIdentity` |
| `RowsStayWhole` | `AccountRegistryProofs` | `Spec => []RowsAreWhole` |
| `NothingHiddenFalsely` | `AccountRegistryProofs` | `Spec => []HiddenOnlyIfMoved` |
| `DraftsListed` | `DraftQueueProofs` | `Spec => []ListedDraftsAreStored` |
| `FilesReferenced` | `DraftQueueProofs` | `Spec => []StagedFilesAreReferenced` |
| `SavedIsStored` | `DraftQueueProofs` | `Spec => []SavedMeansStored` |
| `OpenDraftComplete` | `DraftQueueProofs` | `Spec => []OpenDraftHasItsFiles` |
| `ClosesStored` | `DraftQueueProofs` | `Spec => ClosesOverStoredDraft` |

They hold for any sets of accounts, messages, folders, labels and queries and any
bounds. The only assumptions are those the modules declare: the value for "no
account" is no account, the bounds are natural numbers, the queue has a slot
(`MaxInFlightAssumption`), the folder catalog has the Inbox and a Starred
folder comes with the star (`FolderAssumption`), the ids that may be drawn are
finitely many and neither an id nor an identity is the value for none
(`BoundAssumption` and `NoneAssumption` of `AccountRegistry`), and "none" is neither
an operation number, a version nor a draft (`NoneAssumption` of `DraftQueue`). The
five of `MailViewProofs` use none.

*`PollWritesOwnSession`.* The property is not inductive: that a poll's closure
inside `cache_io` belongs to the signed-in session says nothing about what a
sign-in that is about to publish its authorization may do. `PollSessionInv` adds
`GatedInside` (only closures that check before they write are seen inside the
mutex), `TaskHoldsLane` (a sign-in at work holds the metadata lane and awaits at
most one closure, where the kind of the closure says), `PollHoldsLane` (no
closure is of a later epoch than the controller's, and one of the present epoch
belongs to a poll that waits for it with the lane in hand) and `NoPollInside`
(between its own closure and the publication of its authorization a sign-in sees
no poll's closure inside the mutex). The heart: a sign-in publishes only after a
closure of its own ran under `cache_io`, so a poll's closure that was inside has
left; and a closure that enters afterwards must be of the present epoch, whose
poll would hold the lane the sign-in holds.

*What is shown.* An identity, a cached mailbox and a folder reach the window as
separate events, and what makes them one account's lies in what is still in the
channel. `ShownInv`: operations begin in the order of their numbers (`InTurn`), an
operation announces one identity, its task's (`OneIdentity`), a cached mailbox comes
after the identity it belongs to (`IdentityFirst`), a folder that is asked for is
the shown account's (`FoldersAsked`), and a folder's task waits for one closure,
which commits that folder (`FolderWaits`).

*What Disconnect leaves.* `CleanInv`: what the window awaits is a Disconnect exactly
if it would retry one (`KindKnown`); then the window is blank and asks for nothing
(`LeavingIsBlank`), so from its command to its answer the Disconnect is the last asked
for (`LeavingLast`). A closure detached before is let in by no gate or is marked stray
(`RunMoves`), and until the next Connect a restoration finds no token (`SignedOutStays`).

*Answers come last.* The three other theorems of the session share `AnswerInv`, which
adds to `CleanInv` the order of the conversation. Operations are asked for, taken up and
answered in the order of their numbers, and the answer is the last thing a task says
(`AskedInOrder`, `AwaitedIsLast`): when `SyncComplete` arrives and is still awaited,
nothing was asked for that could have taken the credential since (`SyncedHolds`, from
`TaskHolds`: what a task past its sign-in has in hand). A browser is opened for a sign-in
at work and with nothing awaited no task goes on, but for the one a browser failure
dropped for want of a number, which cannot make the session ready (`BrowserOfTask`,
`NothingIsLeft`). The timer therefore asks for a poll only when no task is at work
(`PollAlone`), and between the poll's check and its write of a token no sign-in comes.
While a Disconnect is held or at work only Disconnects are asked for
(`DisconnectAlone`): drafts and mail stay gone until the token goes.

*The queue.* `QueueInv` is the type invariant, the injectivity and disjointness of
queues and slots (`Distinct`), that `scheduled` is exactly what is queued or active
and the active jobs fit (`Accounted`), and for the turns (`InTurn`) that an account
once bypassed by another that is queued again stands before it: so it cannot be
bypassed by that one a second time. The refinement is shown step by step: enqueue maps to `Request`, dequeue to
`Start`, complete to `End`.

*The cache.* None of the five invariants is inductive: what they say once a
purge or a commit is complete depends on what its earlier steps did.
`PurgeInv` is the type invariant with `Flow` (which stages a kind of closure can
stand before, and where its cleanup leads), `Removed` (what the stages of a purge
without failure have removed is still gone when the marker's turn comes;
downloads in between are taken out of `quiet`), `Stored` (unless the marker is on
disk, the mailbox belongs to `verified` and nothing to a sealed account) and
`GoneIsGone` itself. `NewsInv` adds `Observed`: what a poll found new is in its
window and has not been announced, what was announced is in the watermark, and
from `Install` on the watermark covers the window. One lemma per group of actions
shows that it preserves these; the properties are read off. For the refinement
`ReaderInv` adds to `PurgeInv` what a closure has learnt and nobody can change
under the lock: before the owners are compared, the new marker written or a file
installed there is no marker (`Unmarked`), and before a file is installed the
mailbox on disk is nobody's or that account's (`Claimed`). With it every step maps to one
of `ReadableMail` or to a stutter: the removal of the marker to a stutter,
because `Removed` says there is nothing left for it to uncover.

*Changes and undo.* That an offered undo holds is no matter of one step: the
offer is made when an answer is delivered, and by then Gmail may have seen other
commands on the message. `UndoInv` is the type invariant with `Ordered` (the
commands, the one at the actor and the answers carry their numbers in order), `LastToMove`
(behind the command the undo is about, no other command that moves the same
message is under way: the reducer refuses a second removal of a message while
one is pending), `AskedInTurn` (the number the undo waits for has been given out),
`ConfirmedIsAchieved` (of a message no later command moves, a confirmed answer
still under way tells the truth) and `OfferedIsAchieved`. The same invariant
gives `UndoneMeansBack`. `WaitedForInFlight` has one of its own, `WaitInv`: `Gates`
(the worker's generation never passes the reducer's, and the actor holds no
command of a generation to come), `Numbered` (what is awaited has been given out)
and `Carried` (an awaited request that no Clear Cache made void is carried by a
command or an answer of the present generation, which no gate drops).

*Clear Cache.* `ClearInv`: the clears that are still commands carry generations
beyond the gate, in increasing order, up to the reducer's; the last clear that
succeeded is not beyond the gate. A closure stores a body only if its generation
is at the gate, hence not before that clear. Most of the proof is that nothing
else in the reducer touches the generation or sends a clear: one lemma per
update (`Keeps`, `Harmless`).

*Late lists.* `ListInv`: every folder load under way (a command, the task, an
answer) that carries the number the window awaits was asked for by the account
that is shown now (`Claim`); no number is beyond those
given out, so a new request is a fresh one. Whatever changes the account gives up
the awaited load (`Moves`), and a poll's list is taken only for the account and
the label that are shown.

*Searches and the reader.* `ViewInv`: a search that is shown is of the words in the
box, a loaded body of the account shown (`Sane`), and the selected message is in the
list (`Listed`); a command, a task or an
answer that carries the number that is awaited is of that query and of the account
shown (`Answers`), and no number is beyond those given out, so that a new request
takes a fresh one. Every update either awaits what was awaited before, for the same
account, or gives it up (`Follows`). `ReaderShowsSelection` is half an invariant and half a
claim about steps, because the regime may change under an open reader: every update
keeps reader and selection together if the regime stays, and where there are rows
selects nothing without opening it (`Kept`, `Chooses`).

*The poll.* `PollInv`: a poll under way with the number that is awaited is for the
account shown, so that its answer is not dropped for being another's (`Fits`), and
`PollingContinues` itself. An update keeps the awaited poll or gives it up (`Awaits`);
it leaves the schedule as it was (`Steady`), arms it or pauses it (`Timely`). The
controller loses no poll: a poll refused because one is at work and one aborted by an
account boundary are both answered (`WorkerPolls`).

*Removed accounts.* What has to be shown is that no task, command, closure or
event of a removed account is left that would write again. `RegistryInv`:
`Turns` (an account with an operation has exactly one of a command, a running
task and an answer, and none without one, so `RemoveCommand` never finds a
reconnect at work: of the two guards against it, the reducer's is enough),
`Hidden` (an id that is not drawn, or that `add_account` or one of its late
closures may still write, is known to no row, no list, no command, no task and no
event that would list it, and at most one task or closure is adding it), `Stage`
(a reconnect past its sign-in is of an account that is not removed; a removal past
its first write has no cache) and `RemovedStaysGone` itself.

*Identities.* `UniqueInv` adds to it that every list of rows still on its way to
the window has no identity twice: a restoration checks the rows it takes against
the old list only, so it relies on the registry it was read from. Every write of a
row checks the registry as it is at that moment (`WritesRow`).

*Whole rows.* `WholeInv`: `add_account` has the token and the cache in place before it
writes the row, tokens and caches are written only where that takes nothing away,
and an id drawn for a row that can no longer be written is `Dead`: what its late
closures still write does not matter. Every step is `Careful`: it takes a token or a
cache away only from an account that is being removed or that never comes to be. An id
that was not drawn has no token, no cache and is not `added` (`Fresh`), and the session
draws an id of its own for its row. An account some removal was begun for is exempt
throughout: a removal takes the token and the cache before the row.

*What the lists hide.* A cached Inbox, a row, a late closure, a task, a command and an
event can all carry a list of an account on its way to the window, and each must tell
the truth about the same mailbox. `HideInv` says that there is an assignment of a Gmail
identity to every id, chosen for an id when it is drawn (`Undecided` until then),
under which everything on its way is of its id's identity (`Fits`) and shows an Inbox
without the message only if Gmail has moved it (`Tells`). Gmail never puts the message
back, so what was true stays true (`StillTrue`).

*Drafts.* The list, the composer and the disk are three copies of a draft, and what
relates them is on its way through the queue, the batch and the events.
`DraftInv` says for each of these what it may hold. `InOrder`: operations are numbered, run
and announced in order, none twice. `Restored`: until the catalog is ready nothing but loads is
under way. `Projected`: a deletion is the last thing asked of a draft, revisions only
rise up to the one listed, the last write that waits for a draft writes what is listed
(`Upcoming`), and where none waits it is written (`Settled`): the batch may therefore skip
every save but a draft's last. `Located`: an attachment is at one place at a time
(not drawn, being staged, in one draft, being removed, or litter of a failed
removal or staging); without `OneDraft` a removal asked for by one draft could take a file of
another. `NoneLeft`: every file on disk has a draft, an operation still to come or a
failure that accounts for it. `Acknowledged`, `Closing`, `Written`: what the save last
asked for, the save a window close waits for and the saves not yet announced have
left on disk. The five theorems are read off; `ClosesStored`, an action property,
needs `Closing` in the state before the close.

**Only model-checked:** every liveness property (TLAPS 1.4 cannot reason about
`ENABLED`, hence not from weak fairness) and the fairness half of `ImplementsSlots`.

## 5. Where the program and its documents disagree

`disconnect_removes` is a run: its property quotes a line of the repository and
TLC violates it; the trace is the run's output. `README.md:73` says Disconnect
removes the summaries. `complete_sync`'s closure checks nothing under the lock;
started by a synchronization that Disconnect aborts, it writes the mailbox after
the purge. `SignedOutIsClean` states what does hold.

The properties below are stated in the modules; TLC refutes each one with a
configuration of its module that names it as an invariant (or, if it has a
box or is an action formula, a property). They have no run of their own.

| property | module | what is said, and what the code does |
|---|---|---|
| `ClosingKeepsAuthorization` | `AccountLifecycle` | `README.md:63` says a restart restores the authorization. `Shutdown` uses the cleanup that Cancel uses: closed while a sign-in of the same account is replacing its token, the stored token is deleted |
| `PreviousMailboxStaysGone` | `AccountLifecycle` | `cache.rs:516-518` says the previous account's mailbox can never be left available. A folder load of the previous identity with its token already in hand waits for the lane behind Connect and then writes |
| `PendingCloseIsAnswered` | `DraftQueue` | `state.rs:5098-5100` says a slow worker never traps the user in a reply. Escape while a window close waits for its save queues a second save; the batch skips the first without an event; the close stays pending and locks every composer opened later |
| `ClosingSavesDrafts` | `DraftQueue` | `README.md:94` says Escape and window close save the draft. Hiding closes the composer before its save is written; the window may then close at once, and `Shutdown` aborts the actor with the save still queued |
| `FailedCommitKeepsNews` | `CacheStore` | `worker.rs:4629-4630` says that after a failed commit the prior durable watermark remains authoritative. The index is written, with the new watermark, before `reconcile_bodies`, whose error the commit returns: what the poll had found new is never announced |
| `EveryChangeIsAnswered` | `MutationUndo` | Clear Cache moves the cache generation on while changes are pending (`state.rs:5577`); `mutation_actor` then drops them without an event, the optimistic row stays and the message answers "already in progress" until the account changes |
| `TrashRemembersInbox` | `MutationUndo` | `model.rs:523-524` says a message must not acquire Inbox membership merely because a Trash is undone. Whether it was in the Inbox is read from the listed rows at the click; a row that is stale, or an Archive still on its way, makes the undo add it |
| `RemovedLeavesNoToken` | `AccountRegistry` | `worker.rs:472` says RemoveAccount removes the scoped secret. A keyring write that timed out in a rotation may land after it (`worker.rs:5298-5306`) |
| `ProjectionInStep` | `AccountRegistry` | `state.rs:2752` says the row of the signed-in account is kept in step with the session; only the arms that call the mirror do so, and a failure or a Cancel does not |
| `AwaitedAliasesComeBack` | `AccountRegistry` | `state.rs:101-103` says verified aliases are made available. `mirror_singleton_inbox_projection` and `restore_account_mailboxes` mark the request as pending and drop the update that would send it (`state.rs:2716`) |

Seen while reading or modelling, and not stated as a property:

- `WorkerUnavailable` releases locks in one short-circuiting condition
  (`state.rs:1053`): with a save outstanding, `pending_composer_close` is kept.
- `AccountMessageSent` leaves the sent draft in the list and on disk
  (`state.rs:5532`), unlike `MessageSent`.
- `CacheLoaded` selects the Inbox without clearing `active_folder_request`
  (`state.rs:2469`): the folder's late answer is dropped by its label
  (`state.rs:3634`), the request stays, and no poll begins until another folder
  load or sign-in; the timer goes on being armed, which is all `PollingContinues` says.
- Once accounts have rows, a reader opened from the keyboard (Ctrl+Down,
  `state.rs:4638`) stays open when `normalize` drops the selection; with nothing in
  the list that marks it, it keeps every poll from publishing its list until it is
  closed (`state.rs:2167`). And when the last row goes with such a reader open,
  `normalize` selects the first message while the reader has another's:
  `ReaderShowsSelection` speaks of steps in which rows neither appear nor vanish.
- A staging that fails half way leaves a partial file that counts against
  `MAX_STAGED_FILES` (`drafts.rs:257`) until the draft is deleted.
- `SyncComplete` installs the Inbox while another label may be selected
  (`state.rs:2516`).
- `folder_loaded` sets the session to Ready while an operation is pending
  (`state.rs:3645`).
- A cancelled Connect as another identity leaves the runtime without the previous
  authorization.
- `prepare_verified_account` begins a cleanup only when an index of another
  account can be read (`cache.rs:1231-1241`): when `clear_all_mail` ended after
  the index, or the index cannot be parsed, the previous account's attachments
  stay, although the comment above it says every artifact is removed. Bodies of
  another account go with the next reconciliation.
- `prepare_open_attachment_at` does not look at the marker: an attachment of the
  account being purged is still served from the cache until its stage comes.
- `prune_attachment_cache_at` counts and evicts `.part` files of other downloads.
- The watermark holds the last window only: a message that leaves the window and
  comes back unread is announced again. `AnnouncedOnce` is stated accordingly.
- `WorkerUnavailable` clears neither `account_operations` nor the loading mark of a
  folder.
- A poll failure that is not retryable pauses the schedule while the session stays
  Ready; nothing tells the person.
- Two changes of one message in flight, say star and archive: a reconciliation
  after the first overwrites the optimistic state of the second, and if both are
  rejected the restored row has the optimistic star.
- A reload that overlaps an optimistic change flips the row back until the answer.
- The undo of a removal, asked for after another folder was selected, inserts the
  rows into the folder that is shown.
- `resolve_message_locator` opens the folder with EXAMINE before UID STORE or MOVE
  (`gmail.rs:1466`).
- The singleton account's row in the registry has no scoped token: actions on it
  from the unified list answer that authorization is required (`worker.rs:4443-4445`).
- Disconnect leaves the account's row of the unified list as it was
  (`README.md:73` says the summaries go).
- A cancelled or timed-out addition may leave a token and a cache without a row, or
  a row that is listed only after a restart; a restoration that races a removal may
  list the removed account once more; a late snapshot of a reconnect may show
  an archived message again.
- `register_legacy_account` may replace a filled Inbox by the session's empty one.

## 6. Plan

Done, in this order: `AccountLifecycle`, `FairAccountSyncQueue`, `DraftQueue`,
`CacheStore`, `MutationUndo`, `AccountRegistry`, `MailView`, and the proofs of
section 4. Left:

1. Attachments: slots, duplicates and cancellation; the manifest of bodies with
   its order of eviction.
2. Other folders, bodies and sends of registered accounts in `AccountRegistry`.
3. A larger instance of `MutationUndo` with two messages for its liveness.

**Not modelled, and why.** Preferences: one value, one job and one comparison,
which its unit tests cover. Authorization, SMTP and message building, the IMAP
and HTTP code apart from mutations: protocols and parsing, of which the models
keep the outcomes. Widgets and rendering: the models take the enabled actions
from them. The backoff of the poll is arithmetic on one counter.

## 7. Running

```
tlc -config Lifecycle.cfg MCAccountLifecycle.tla     # likewise the other runs
tlc -config Mutations.cfg MutationUndo.tla           # which has no MC module
tlapm PollSessionProofs.tla
```
