---------------------------- MODULE AccountRegistry ----------------------------
(***************************************************************************)
(* The accounts of Whitford: their registry rows, scoped tokens and scoped  *)
(* caches (cache.rs, secrets.rs), the tasks of worker.rs that add,          *)
(* reconnect and remove one account or act for it, the singleton ("legacy") *)
(* session that gives its account a row, and the account lists of state.rs. *)
(*                                                                          *)
(* Every account has one message, which starts in its Inbox.  Only the      *)
(* unified Inbox is shown, the reader is left out, and Archive stands for   *)
(* the mutations.  A closure run by cache_blocking and a keyring call are   *)
(* one step of their task; one that an abort or a timeout cuts off from its *)
(* task is a stray.                                                         *)
(***************************************************************************)
EXTENDS Naturals, Sequences, FiniteSets

CONSTANTS
    Ids,          \* the opaque ids AccountId::generate draws
    Emails,       \* the Gmail identities
    None,         \* no id, no email
    MaxAccounts,  \* MAX_ACCOUNTS
    MaxOps,       \* bound on operations of the person
    MaxCommands,  \* bound on commands waiting when the person acts
    MaxArchives,  \* bound on changes of messages
    MaxRestarts   \* bound on restarts of the process

ASSUME NoneAssumption == None \notin Ids \cup Emails
ASSUME BoundAssumption ==
    /\ IsFiniteSet(Ids)
    /\ MaxAccounts \in Nat /\ MaxOps \in Nat /\ MaxCommands \in Nat
    /\ MaxArchives \in Nat /\ MaxRestarts \in Nat

VARIABLES
    (* what is stored, and Gmail *)
    registry,    \* the email of each row
    token,       \* ids with a scoped refresh token
    cache,       \* the Inbox in the cache namespace of each id
    legacyToken, \* the email whose token is in the legacy keyring item
    gmail,       \* emails whose message is still in the Inbox
    (* AppState *)
    accounts,    \* account_mailboxes
    ops,         \* account_operations (0: none)
    adding,      \* adding_account_operation
    active,      \* active_operation
    nextOp, account, session, mailbox,
    sendAs,      \* pending_send_as
    selected,    \* selected_account_message
    (* the channels *)
    commands, events,
    (* the worker *)
    addTask, tasks, legacyTask, fetches, strays,
    (* observations *)
    used,        \* ids drawn
    added,       \* ids whose row add_account has written
    removed,     \* ids whose row remove_account has deleted
    leaving,     \* ids some RemoveAccount has been started for
    archives, restarts

disk == <<registry, token, cache, added>>
signedIn == <<account, session, mailbox, active>>
ui == <<accounts, ops, adding, nextOp, signedIn, sendAs, selected>>
worker == <<addTask, tasks, legacyTask, fetches, strays>>
seen == <<used, removed, leaving, archives, restarts>>
vars == <<disk, legacyToken, gmail, ui, commands, events, worker, seen>>

-----------------------------------------------------------------------------
(* Data *)

Inboxes == {"None", "Empty", "Mail"}
Sessions == {"Ready", "Syncing", "Disconnecting", "Disconnected", "AuthRequired", "Failed"}
NoAccount == [email |-> None, session |-> "Disconnected", inbox |-> "None"]
Accounts == [email : Emails, session : Sessions, inbox : Inboxes]
Writes == [do : {"Token", "NoToken", "Cache", "NoCache", "Record", "NoRecord"},
           id : Ids, email : Emails \cup {None}, inbox : Inboxes]
NoTask == [op |-> 0, pc |-> "none"]
Fetches == [kind : {"SendAs", "Archive"}, id : Ids, email : Emails, req : 0..MaxArchives,
            pc : {"sign", "Token", "call"}]

Listed == {i \in Ids : accounts[i] # NoAccount}
Rows(reg) == {i \in Ids : reg[i] # None}
RegisteredAs(reg, e) == {i \in Ids : reg[i] = e}
InboxOf(e) == IF e \in gmail THEN "Mail" ELSE "Empty"

\* AccountRegistry::add
CanAdd(reg, i, e) ==
    /\ Cardinality(Rows(reg)) < MaxAccounts
    /\ reg[i] = None
    /\ RegisteredAs(reg, e) = {}

-----------------------------------------------------------------------------
(* What the tasks write *)

\* One write of the task t, named by its pc.
WriteOf(t) == [do |-> t.pc, id |-> t.id, email |-> t.email, inbox |-> t.inbox]

\* Mutant: the commit of a row trusts the check made before the writes.
PossibleUnchecked(w) ==
    CASE w.do = "Record" -> registry[w.id] = None
      [] w.do = "NoRecord" -> registry[w.id] # None
      [] OTHER -> TRUE

Possible(w) ==
    CASE w.do = "Record" -> CanAdd(registry, w.id, w.email)
      [] w.do = "NoRecord" -> registry[w.id] # None
      [] OTHER -> TRUE

Store(w) ==
    /\ registry' = CASE w.do = "Record" -> [registry EXCEPT ![w.id] = w.email]
                     [] w.do = "NoRecord" -> [registry EXCEPT ![w.id] = None]
                     [] OTHER -> registry
    /\ token' = CASE w.do = "Token" -> token \cup {w.id}
                  [] w.do = "NoToken" -> token \ {w.id}
                  [] OTHER -> token
    /\ cache' = CASE w.do = "Cache" -> [cache EXCEPT ![w.id] = w.inbox]
                  [] w.do = "NoCache" -> [cache EXCEPT ![w.id] = "None"]
                  [] OTHER -> cache
    /\ added' = IF w.do = "Record" THEN added \cup {w.id} ELSE added

\* The write of t is given up by its task but may still happen: a closure of
\* cache_blocking outlives an abort, a keyring call also a timeout.
Abandoned(t) == IF t.pc \in {"Token", "NoToken", "Cache", "NoCache", "Record", "NoRecord"}
                THEN {WriteOf(t)} ELSE {}

\* A write fails: a keyring call may have timed out, a save of the cache may
\* fail after it has replaced the mailbox.
Fails(t) ==
    \/ UNCHANGED <<disk, strays>>
    \/ t.pc \in {"Token", "NoToken"} /\ strays' = strays \cup {WriteOf(t)} /\ UNCHANGED disk
    \/ t.pc = "Cache" /\ Store(WriteOf(t)) /\ UNCHANGED strays

Stray(w) ==
    /\ strays' = strays \ {w}
    /\ IF Possible(w) THEN Store(w) ELSE UNCHANGED disk
    /\ UNCHANGED <<legacyToken, gmail, ui, commands, events, addTask, tasks, legacyTask, fetches, seen>>

-----------------------------------------------------------------------------
(* The person: state.rs *)

NewAccounts == [i \in Ids |-> NoAccount]

\* Accounts that an earlier run of the program added, if any.
Init ==
    /\ registry \in [Ids -> Emails \cup {None}]
    /\ \A e \in Emails : Cardinality(RegisteredAs(registry, e)) <= 1
    /\ Cardinality(Rows(registry)) <= MaxAccounts
    /\ token = Rows(registry)
    /\ cache = [i \in Ids |-> IF registry[i] = None THEN "None" ELSE "Mail"]
    /\ legacyToken \in Emails \cup {None}
    /\ gmail = Emails
    /\ accounts = NewAccounts
    /\ ops = [i \in Ids |-> 0]
    /\ adding = 0 /\ active = 1 /\ nextOp = 2
    /\ account = None /\ session = "Syncing" /\ mailbox = "None"
    /\ sendAs = {}
    /\ selected = None
    /\ commands = <<[type |-> "Restore", op |-> 1]>>
    /\ events = <<>>
    /\ addTask = NoTask
    /\ tasks = [i \in Ids |-> NoTask]
    /\ legacyTask = NoTask
    /\ fetches = {} /\ strays = {}
    /\ used = Rows(registry) /\ added = Rows(registry) /\ removed = {} /\ leaving = {}
    /\ archives = 0 /\ restarts = 0

\* The process ends in any state and starts again; strays are lost with it.
Restart ==
    /\ restarts < MaxRestarts /\ restarts' = restarts + 1 /\ nextOp <= MaxOps
    /\ accounts' = NewAccounts
    /\ ops' = [i \in Ids |-> 0]
    /\ adding' = 0 /\ active' = nextOp /\ nextOp' = nextOp + 1
    /\ account' = None /\ session' = "Syncing" /\ mailbox' = "None"
    /\ sendAs' = {}
    /\ selected' = None
    /\ commands' = <<[type |-> "Restore", op |-> nextOp]>>
    /\ events' = <<>>
    /\ addTask' = NoTask
    /\ tasks' = [i \in Ids |-> NoTask]
    /\ legacyTask' = NoTask
    /\ fetches' = {} /\ strays' = {}
    /\ UNCHANGED <<disk, legacyToken, gmail, used, removed, leaving, archives>>

Send(cs) == commands' = commands \o cs

Allocate == nextOp <= MaxOps /\ nextOp' = nextOp + 1

\* Restore again (after a failure) or Connect.
StartSync(kind) ==
    /\ adding = 0
    /\ Allocate
    /\ active' = nextOp
    /\ session' = "Syncing"
    /\ Send(<<[type |-> kind, op |-> nextOp]>>)
    /\ UNCHANGED <<disk, legacyToken, gmail, accounts, ops, adding, account, mailbox, sendAs, selected,
                   events, worker, seen>>

StartAddAccount ==
    /\ active = 0 /\ adding = 0
    /\ Allocate
    /\ adding' = nextOp
    /\ Send(<<[type |-> "AddAccount", op |-> nextOp]>>)
    /\ UNCHANGED <<disk, legacyToken, gmail, accounts, ops, signedIn, sendAs, selected, events, worker, seen>>

\* Mutant: an account being updated takes a second operation.
AccountOperationTwice(type, i, s) ==
    /\ i \in Listed
    /\ Allocate
    /\ ops' = [ops EXCEPT ![i] = nextOp]
    /\ accounts' = [accounts EXCEPT ![i].session = s]
    /\ Send(<<[type |-> type, op |-> nextOp, id |-> i]>>)
    /\ UNCHANGED <<disk, legacyToken, gmail, adding, signedIn, sendAs, selected, events, worker, seen>>

\* reconnect_account and remove_account
AccountOperation(type, i, s) ==
    /\ ops[i] = 0 /\ i \in Listed
    /\ Allocate
    /\ ops' = [ops EXCEPT ![i] = nextOp]
    /\ accounts' = [accounts EXCEPT ![i].session = s]
    /\ Send(<<[type |-> type, op |-> nextOp, id |-> i]>>)
    /\ UNCHANGED <<disk, legacyToken, gmail, adding, signedIn, sendAs, selected, events, worker, seen>>

ReconnectAccount(i) == AccountOperation("ReconnectAccount", i, "Syncing")
RemoveAccount(i) == AccountOperation("RemoveAccount", i, "Disconnecting")

CancelAdd ==
    /\ adding # 0
    /\ adding' = 0
    /\ Send(<<[type |-> "Cancel", op |-> adding]>>)
    /\ UNCHANGED <<disk, legacyToken, gmail, accounts, ops, nextOp, signedIn, sendAs, selected,
                   events, worker, seen>>

\* The Cancel of the singleton operation.
CancelSync ==
    /\ adding = 0 /\ active # 0
    /\ Allocate
    /\ active' = nextOp
    /\ session' = "Disconnected"
    /\ Send(<<[type |-> "Cancel", op |-> nextOp]>>)
    /\ UNCHANGED <<disk, legacyToken, gmail, accounts, ops, adding, account, mailbox, sendAs, selected,
                   events, worker, seen>>

Disconnect ==
    /\ adding = 0 /\ account # None
    /\ Allocate
    /\ active' = nextOp
    /\ session' = "Disconnecting"
    /\ mailbox' = "None"
    /\ Send(<<[type |-> "Disconnect", op |-> nextOp]>>)
    /\ UNCHANGED <<disk, legacyToken, gmail, accounts, ops, adding, account, sendAs, selected, events,
                   worker, seen>>

\* selected_account_summary
Shown(i) == i # None /\ accounts[i].inbox = "Mail"

SelectAccountMessage(i) ==
    /\ Shown(i) /\ selected # i
    /\ selected' = i
    /\ UNCHANGED <<disk, legacyToken, gmail, accounts, ops, adding, nextOp, signedIn, sendAs, commands, events,
                   worker, seen>>

\* mutate_account_selected
ArchiveSelected ==
    /\ Shown(selected)
    /\ archives < MaxArchives /\ archives' = archives + 1
    /\ Send(<<[type |-> "Archive", id |-> selected, email |-> accounts[selected].email, req |-> archives']>>)
    /\ UNCHANGED <<disk, legacyToken, gmail, ui, events, worker, used, removed, leaving, restarts>>

-----------------------------------------------------------------------------
(* The lists of accounts: state.rs *)

\* No other row of the list is of e.
NoOther(i, e) == \A j \in Listed \ {i} : accounts[j].email # e

\* Whether upsert_account_mailbox takes the row i of e.
Takes(i, e) == NoOther(i, e) /\ (i \in Listed \/ Cardinality(Listed) < MaxAccounts)

\* It upserts one row and drops a selection the list no longer shows.
Upsert(i, e, s, m) ==
    /\ accounts' = IF Takes(i, e)
                   THEN [accounts EXCEPT ![i] = [email |-> e, session |-> s, inbox |-> m]]
                   ELSE accounts
    /\ selected' = IF selected # None /\ accounts'[selected].inbox = "Mail" THEN selected ELSE None

\* fetch_verified_send_as: the request is pending, and is the effect of the
\* update a caller returns.
SendAsFetch(i) ==
    IF i \notin sendAs /\ accounts'[i].session = "Ready" /\ accounts'[i].email # None
    THEN {i} ELSE {}
RequestSendAs(i, e) ==
    /\ sendAs' = sendAs \cup SendAsFetch(i)
    /\ commands' = IF SendAsFetch(i) = {} THEN commands
                   ELSE Append(commands, [type |-> "SendAs", id |-> i, email |-> e, req |-> 0])

UpsertAndFetch(i, e, s, m) ==
    IF Takes(i, e)
    THEN Upsert(i, e, s, m) /\ RequestSendAs(i, e)
    ELSE UNCHANGED <<accounts, selected, sendAs, commands>>

\* mirror_singleton_inbox_projection drops the update, and so does
\* restore_account_mailboxes.
Mirror(e, s, m) ==
    IF RegisteredAs([i \in Ids |-> accounts[i].email], e) = {}
    THEN /\ UNCHANGED <<accounts, sendAs>>
         /\ selected' = IF Shown(selected) THEN selected ELSE None
    ELSE \E i \in Listed :
             /\ accounts[i].email = e
             /\ Upsert(i, e, s, m)
             /\ sendAs' = sendAs \cup SendAsFetch(i)

-----------------------------------------------------------------------------
(* Events of the worker: state.rs *)

\* add_account_worker_event
AddEvent(e) ==
    /\ adding' = 0
    /\ IF e.type = "AccountAdded"
       THEN UpsertAndFetch(e.id, e.email, "Ready", e.inbox)
       ELSE UNCHANGED <<accounts, selected, sendAs, commands>>
    /\ UNCHANGED <<ops, signedIn>>

\* account_projection_worker_event
SyncedEvent(e) ==
    /\ ops' = [ops EXCEPT ![e.id] = 0]
    /\ UpsertAndFetch(e.id, e.email, "Ready", e.inbox)
RemovedEvent(e) ==
    /\ ops' = [ops EXCEPT ![e.id] = 0]
    /\ accounts' = [accounts EXCEPT ![e.id] = NoAccount]
    /\ sendAs' = sendAs \ {e.id}
    /\ selected' = IF selected = e.id THEN None ELSE selected
    /\ UNCHANGED commands
\* Mutant: an expired authorization leaves the operation of the account open.
ExpiredStaysOpen(e) ==
    /\ ops' = IF e.type = "OperationExpired" THEN ops ELSE [ops EXCEPT ![e.id] = 0]
    /\ accounts' = IF e.id \in Listed THEN [accounts EXCEPT ![e.id].session = "AuthRequired"] ELSE accounts
    /\ UNCHANGED <<sendAs, selected, commands>>

OperationFailedEvent(e) ==
    /\ ops' = [ops EXCEPT ![e.id] = 0]
    /\ accounts' = IF e.id \in Listed
                   THEN [accounts EXCEPT ![e.id].session =
                             IF e.type = "OperationExpired" THEN "AuthRequired" ELSE "Failed"]
                   ELSE accounts
    /\ UNCHANGED <<sendAs, selected, commands>>
ProjectionEvent(e) ==
    /\ \/ e.type = "AccountSynced" /\ SyncedEvent(e)
       \/ e.type = "AccountRemoved" /\ RemovedEvent(e)
       \/ e.type \in {"OperationFailed", "OperationExpired"} /\ OperationFailedEvent(e)
    /\ UNCHANGED <<adding, signedIn>>

\* The rows it takes one after another, in the order of the registry: those with
\* an identity of their own, the new ones until the list is full.
Restorable(rows) ==
    LET free == {i \in Rows(rows) : NoOther(i, rows[i])}
    IN {taken \in SUBSET free :
           /\ free \cap Listed \subseteq taken
           /\ taken \subseteq Listed \/ Cardinality(Listed \cup taken) <= MaxAccounts
           /\ taken = free \/ Cardinality(Listed \cup taken) >= MaxAccounts}

\* restore_account_mailboxes: every row taken drops a selection that the list, as
\* it is by then, does not show.
RestoredEvent(e) ==
    \E taken \in Restorable(e.rows) :
       /\ accounts' = [i \in Ids |-> IF i \in taken
                           THEN [email |-> e.rows[i], session |-> "Ready", inbox |-> e.inboxes[i]]
                           ELSE accounts[i]]
       /\ \/ /\ selected' = selected
             /\ selected # None /\ taken # {} => accounts'[selected].inbox = "Mail"
          \/ /\ selected' = None /\ taken # {}
             /\ Shown(selected) \/ taken = {selected} => accounts'[selected].inbox # "Mail"
       /\ sendAs' = sendAs \cup taken
       /\ UNCHANGED <<signedIn, commands>>

IdentityEvent(e) ==
    /\ account' = e.email
    /\ mailbox' = IF account = e.email THEN mailbox ELSE "None"
    /\ UNCHANGED <<accounts, session, active, selected, sendAs, commands>>

\* register_legacy_account; the singleton shows the Inbox
RegisteredEvent(e) ==
    /\ IF account = e.email THEN UpsertAndFetch(e.id, e.email, session, mailbox)
       ELSE UNCHANGED <<accounts, selected, sendAs, commands>>
    /\ UNCHANGED signedIn

SyncCompleteEvent(e) ==
    /\ account' = e.email /\ mailbox' = e.inbox /\ session' = "Ready" /\ active' = 0
    /\ Mirror(e.email, "Ready", e.inbox)
    /\ UNCHANGED commands

EndEvent(e) ==
    /\ active' = 0
    /\ session' = CASE e.type = "Failed" -> "Failed" [] e.type = "Expired" -> "AuthRequired"
                    [] OTHER -> "Disconnected"
    /\ IF e.type = "Disconnected" THEN account' = None /\ mailbox' = "None"
       ELSE UNCHANGED <<account, mailbox>>
    /\ UNCHANGED <<accounts, selected, sendAs, commands>>

SingletonEvent(e) ==
    /\ \/ e.type = "Restored" /\ RestoredEvent(e)
       \/ e.type = "IdentityVerified" /\ IdentityEvent(e)
       \/ e.type = "LegacyRegistered" /\ RegisteredEvent(e)
       \/ e.type = "SyncComplete" /\ SyncCompleteEvent(e)
       \/ e.type \in {"NoStoredAccount", "Cancelled", "Disconnected", "Failed", "Expired"} /\ EndEvent(e)
    /\ UNCHANGED <<adding, ops>>

SendAsEvent(e) ==
    /\ sendAs' = sendAs \ {e.id}
    /\ UNCHANGED accounts
\* Mutated: a refused change is applied.
MutatedEventRefused(e) ==
    /\ accounts' = IF accounts[e.id].inbox = "Mail" THEN [accounts EXCEPT ![e.id].inbox = "Empty"] ELSE accounts
    /\ UNCHANGED sendAs

\* apply_account_mutation and apply_account_reconciled; a failure changes nothing
MutatedEvent(e) ==
    /\ accounts' = IF e.ok /\ ~e.stays /\ accounts[e.id].inbox = "Mail"
                   THEN [accounts EXCEPT ![e.id].inbox = "Empty"] ELSE accounts
    /\ UNCHANGED sendAs
ScopedEvent(e) ==
    /\ \/ e.type = "SendAs" /\ SendAsEvent(e)
       \/ e.type = "Archive" /\ MutatedEvent(e)
    /\ UNCHANGED <<adding, ops, signedIn, selected, commands>>

Scoped(e) == e.type \in {"SendAs", "Archive"}

\* worker_event: a late event, of no operation that is open, is dropped.
Deliver ==
    /\ events # <<>>
    /\ events' = Tail(events)
    /\ LET e == Head(events)
       IN \/ Scoped(e) /\ ScopedEvent(e)
          \/ ~Scoped(e) /\ e.op = adding /\ AddEvent(e)
          \/ ~Scoped(e) /\ e.op # adding /\ (\E i \in Ids : ops[i] = e.op) /\ ProjectionEvent(e)
          \/ ~Scoped(e) /\ e.op # adding /\ e.op = active /\ SingletonEvent(e)
          \/ /\ ~Scoped(e) /\ e.op \notin {adding, active} /\ (\A i \in Ids : ops[i] # e.op)
             /\ UNCHANGED <<accounts, ops, adding, signedIn, sendAs, selected, commands>>
    /\ UNCHANGED <<disk, legacyToken, gmail, nextOp, worker, seen>>

-----------------------------------------------------------------------------
(* The controller: worker.rs *)

Emit(es) == events' = events \o es

Answer(type, op) == [type |-> type, op |-> op]

Running(t) == t.pc \notin {"none", "done"}

AddCommand(c) ==
    /\ IF Running(addTask)
       THEN UNCHANGED addTask /\ Emit(<<Answer("Failed", c.op)>>)
       ELSE /\ addTask' = [op |-> c.op, pc |-> "browser", id |-> None, email |-> None, inbox |-> "None"]
            /\ UNCHANGED events
    /\ UNCHANGED <<disk, legacyToken, tasks, legacyTask, fetches, strays, leaving>>

AccountTask(c, pc) == [op |-> c.op, pc |-> pc, id |-> c.id, email |-> None, inbox |-> "None"]

ReconnectCommand(c) ==
    /\ IF Running(tasks[c.id])
       THEN /\ UNCHANGED tasks
            /\ Emit(<<[type |-> "OperationFailed", op |-> c.op, id |-> c.id]>>)
       ELSE tasks' = [tasks EXCEPT ![c.id] = AccountTask(c, "sign")] /\ UNCHANGED events
    /\ UNCHANGED <<disk, legacyToken, addTask, legacyTask, fetches, strays, leaving>>

\* It aborts what runs for the account.
RemoveCommand(c) ==
    /\ strays' = strays \cup (IF Running(tasks[c.id]) THEN Abandoned(tasks[c.id]) ELSE {})
    /\ tasks' = [tasks EXCEPT ![c.id] = AccountTask(c, "NoCache")]
    /\ leaving' = leaving \cup {c.id}
    /\ UNCHANGED <<disk, legacyToken, addTask, legacyTask, fetches, events>>

\* A finished add task stays in its slot and answers its Cancel.
CancelAddCommand(c) ==
    /\ addTask.op = c.op
    /\ addTask' = NoTask
    /\ strays' = strays \cup Abandoned(addTask)
    /\ Emit(<<Answer("Cancelled", c.op)>>)
    /\ UNCHANGED <<disk, legacyToken, tasks, legacyTask, fetches, leaving>>

\* A command of the singleton session aborts the one that runs; what of its
\* token remains then is AccountLifecycle's.
SingletonCommand(c) ==
    /\ c.type \in {"Restore", "Connect", "Disconnect", "Cancel"}
    /\ c.type = "Cancel" => addTask.op # c.op
    /\ legacyToken' \in IF Running(legacyTask) /\ c.type # "Disconnect" THEN {legacyToken, None}
                       ELSE {legacyToken}
    /\ legacyTask' = IF c.type = "Cancel" THEN NoTask
                     ELSE [op |-> c.op, email |-> None,
                           pc |-> CASE c.type = "Restore" -> "list" [] c.type = "Connect" -> "browser"
                                    [] OTHER -> "purge"]
    /\ IF c.type = "Cancel" THEN Emit(<<Answer("Cancelled", c.op)>>) ELSE UNCHANGED events
    /\ UNCHANGED <<disk, addTask, tasks, fetches, strays, leaving>>

FetchCommand(c) ==
    /\ fetches' = fetches \cup {[kind |-> c.type, id |-> c.id, email |-> c.email, req |-> c.req, pc |-> "sign"]}
    /\ UNCHANGED <<disk, legacyToken, addTask, tasks, legacyTask, strays, leaving, events>>

Controller ==
    /\ commands # <<>>
    /\ commands' = Tail(commands)
    /\ LET c == Head(commands)
       IN \/ c.type = "AddAccount" /\ AddCommand(c)
          \/ c.type = "ReconnectAccount" /\ ReconnectCommand(c)
          \/ c.type = "RemoveAccount" /\ RemoveCommand(c)
          \/ c.type = "Cancel" /\ CancelAddCommand(c)
          \/ SingletonCommand(c)
          \/ c.type \in {"SendAs", "Archive"} /\ FetchCommand(c)
    /\ UNCHANGED <<gmail, ui, used, removed, archives, restarts>>

-----------------------------------------------------------------------------
(* add_account: worker.rs *)

AddOnly == UNCHANGED <<legacyToken, gmail, ui, commands, tasks, legacyTask, fetches, removed, leaving, archives,
                       restarts>>

AddEnds(es) == addTask' = [addTask EXCEPT !.pc = "done"] /\ Emit(es)

\* The browser answers and the identity is verified, or not.
AddBrowser ==
    /\ addTask.pc = "browser"
    /\ \/ \E e \in Emails : addTask' = [addTask EXCEPT !.pc = "check", !.email = e] /\ UNCHANGED events
       \/ AddEnds(<<Answer("Failed", addTask.op)>>)
    /\ UNCHANGED <<disk, strays, used>> /\ AddOnly

\* Draws an id, refuses a registered identity and a full registry; then the
\* Inbox is fetched.
AddCheck ==
    /\ addTask.pc = "check"
    /\ UNCHANGED <<disk, strays>> /\ AddOnly
    /\ \/ RegisteredAs(registry, addTask.email) # {} /\ UNCHANGED used
          /\ AddEnds(<<Answer("DuplicateAccountIdentity", addTask.op)>>)
       \/ \E i \in Ids \ used :
             /\ used' = used \cup {i}
             /\ CanAdd(registry, i, addTask.email)
             /\ addTask' = [addTask EXCEPT !.pc = "Token", !.id = i, !.inbox = InboxOf(addTask.email)]
             /\ UNCHANGED events
       \/ UNCHANGED used /\ AddEnds(<<Answer("Failed", addTask.op)>>)

\* Mutant: the row is written before the cache.
AddNextRowFirst == [Token |-> "Record", Record |-> "Cache", NoCache |-> "NoToken"]

AddNext == [Token |-> "Cache", Cache |-> "Record", NoCache |-> "NoToken"]
\* Where a failed write of the task leads: what was written is taken back.
AddUndo == [Cache |-> "NoToken", Record |-> "NoCache", NoCache |-> "NoToken"]

AddWrite ==
    /\ addTask.pc \in {"Token", "Cache", "Record", "NoCache", "NoToken"}
    /\ UNCHANGED used /\ AddOnly
    /\ \/ /\ Possible(WriteOf(addTask)) /\ Store(WriteOf(addTask)) /\ UNCHANGED strays
          /\ IF addTask.pc \in DOMAIN AddNext
             THEN addTask' = [addTask EXCEPT !.pc = AddNext[addTask.pc]] /\ UNCHANGED events
             ELSE AddEnds(<<IF addTask.pc = "Record"
                            THEN [type |-> "AccountAdded", op |-> addTask.op, id |-> addTask.id,
                                  email |-> addTask.email, inbox |-> addTask.inbox]
                            ELSE Answer("Failed", addTask.op)>>)
       \/ /\ Fails(addTask)
          /\ IF addTask.pc \in DOMAIN AddUndo
             THEN addTask' = [addTask EXCEPT !.pc = AddUndo[addTask.pc]] /\ UNCHANGED events
             ELSE AddEnds(<<Answer("Failed", addTask.op)>>)

-----------------------------------------------------------------------------
(* reconnect_account, remove_account: worker.rs *)

TaskOnly == UNCHANGED <<legacyToken, gmail, ui, commands, addTask, legacyTask, fetches, used, leaving, archives,
                        restarts>>

TaskEnds(i, es) == tasks' = [tasks EXCEPT ![i] = NoTask] /\ Emit(es)
TaskFails(i, type) == TaskEnds(i, <<[type |-> type, op |-> tasks[i].op, id |-> i]>>)

\* The row, the token, the refresh, the identity; Gmail may rotate the token.
ReconnectSign(i) ==
    /\ tasks[i].pc = "sign"
    /\ UNCHANGED <<disk, strays, removed>> /\ TaskOnly
    /\ \/ /\ registry[i] # None /\ i \in token
          /\ \E pc \in {"Token", "fetch"} :
                tasks' = [tasks EXCEPT ![i].pc = pc, ![i].email = registry[i]]
          /\ UNCHANGED events
       \/ TaskFails(i, "OperationExpired")
       \/ TaskFails(i, "OperationFailed")

ReconnectFetch(i) ==
    /\ tasks[i].pc = "fetch"
    /\ UNCHANGED <<disk, strays, removed>> /\ TaskOnly
    /\ \/ /\ tasks' = [tasks EXCEPT ![i].pc = "Cache", ![i].inbox = InboxOf(tasks[i].email)]
          /\ UNCHANGED events
       \/ TaskFails(i, "OperationFailed")

TaskNext == [Token |-> "fetch", NoCache |-> "NoToken", NoToken |-> "NoRecord"]

TaskWrite(i) ==
    /\ tasks[i].pc \in {"Token", "Cache", "NoCache", "NoToken", "NoRecord"}
    /\ TaskOnly
    /\ \/ /\ Possible(WriteOf(tasks[i])) /\ Store(WriteOf(tasks[i])) /\ UNCHANGED strays
          /\ removed' = IF tasks[i].pc = "NoRecord" THEN removed \cup {i} ELSE removed
          /\ IF tasks[i].pc \in DOMAIN TaskNext
             THEN tasks' = [tasks EXCEPT ![i].pc = TaskNext[tasks[i].pc]] /\ UNCHANGED events
             ELSE TaskEnds(i, <<IF tasks[i].pc = "Cache"
                                THEN [type |-> "AccountSynced", op |-> tasks[i].op, id |-> i,
                                      email |-> tasks[i].email, inbox |-> tasks[i].inbox]
                                ELSE [type |-> "AccountRemoved", op |-> tasks[i].op, id |-> i]>>)
       \/ Fails(tasks[i]) /\ TaskFails(i, "OperationFailed") /\ UNCHANGED removed

-----------------------------------------------------------------------------
(* The singleton session: restore_or_refresh, connect, Disconnect of worker.rs *)

LegacyOnly == UNCHANGED <<token, cache, added, gmail, ui, commands, addTask, tasks, fetches, strays, removed,
                          leaving, archives, restarts>>
LegacyAt(pc, es) == legacyTask' = [legacyTask EXCEPT !.pc = pc] /\ Emit(es)
LegacyEnds(type) == legacyTask' = NoTask /\ Emit(<<Answer(type, legacyTask.op)>>)
InLegacy(pc) == legacyTask.pc = pc

\* restore_account_mailboxes: every row, with the Inbox of its cache
LegacyList ==
    /\ InLegacy("list")
    /\ LegacyAt("sign", <<[type |-> "Restored", op |-> legacyTask.op, rows |-> registry, inboxes |-> cache]>>)
    /\ UNCHANGED <<registry, legacyToken, used>> /\ LegacyOnly

Verified(e) ==
    /\ legacyTask' = [legacyTask EXCEPT !.email = e,
                          !.pc = IF legacyTask.pc = "browser" THEN "registerNew" ELSE "register"]
    /\ Emit(<<[type |-> "IdentityVerified", op |-> legacyTask.op, email |-> e]>>)

LegacySign ==
    /\ InLegacy("sign")
    /\ UNCHANGED <<registry, used>> /\ LegacyOnly
    /\ \/ legacyToken = None /\ LegacyEnds("NoStoredAccount") /\ UNCHANGED legacyToken
       \/ legacyToken # None /\ Verified(legacyToken) /\ UNCHANGED legacyToken
       \/ LegacyEnds("Failed") /\ UNCHANGED legacyToken
       \/ legacyToken # None /\ LegacyEnds("Expired") /\ legacyToken' = None

LegacyBrowser ==
    /\ InLegacy("browser")
    /\ UNCHANGED <<registry, legacyToken, used>> /\ LegacyOnly
    /\ (\E e \in Emails : Verified(e)) \/ LegacyEnds("Failed")

\* emit_legacy_account_registration; a failure is passed over.
LegacyRegister ==
    /\ InLegacy("register") \/ InLegacy("registerNew")
    /\ UNCHANGED legacyToken /\ LegacyOnly
    /\ LET pc == IF InLegacy("register") THEN "fetch" ELSE "save"
           e == legacyTask.email
           Told(i) == <<[type |-> "LegacyRegistered", op |-> legacyTask.op, id |-> i, email |-> e]>>
       IN \/ \E i \in RegisteredAs(registry, e) : LegacyAt(pc, Told(i)) /\ UNCHANGED <<registry, used>>
          \/ \E i \in Ids \ used :
                /\ CanAdd(registry, i, e)
                /\ registry' = [registry EXCEPT ![i] = e] /\ used' = used \cup {i}
                /\ LegacyAt(pc, Told(i))
          \/ LegacyAt(pc, <<>>) /\ UNCHANGED <<registry, used>>

LegacySave ==
    /\ InLegacy("save")
    /\ UNCHANGED <<registry, used>> /\ LegacyOnly
    /\ \/ legacyToken' = legacyTask.email /\ LegacyAt("fetch", <<>>)
       \/ legacyToken' \in {legacyToken, None} /\ LegacyEnds("Failed")

LegacyFetch ==
    /\ InLegacy("fetch")
    /\ UNCHANGED <<registry, legacyToken, used>> /\ LegacyOnly
    /\ \/ /\ legacyTask' = NoTask
          /\ Emit(<<[type |-> "SyncComplete", op |-> legacyTask.op, email |-> legacyTask.email,
                     inbox |-> InboxOf(legacyTask.email)]>>)
       \/ LegacyEnds("Failed")

LegacyPurge ==
    /\ InLegacy("purge")
    /\ UNCHANGED <<registry, used>> /\ LegacyOnly
    /\ \/ legacyToken' = None /\ LegacyEnds("Disconnected")
       \/ legacyToken' \in {legacyToken, None} /\ LegacyEnds("Failed")

-----------------------------------------------------------------------------
(* Work for one account that no slot tracks: scoped_access_token, then the call *)

FetchOnly == UNCHANGED <<legacyToken, ui, commands, addTask, tasks, legacyTask, seen>>

\* The aliases are left out: what became of a SendAs fetch is not told apart.
FetchEnds(f, ok, stays) ==
    /\ fetches' = fetches \ {f}
    /\ Emit(<<[type |-> f.kind, op |-> 0, id |-> f.id, req |-> f.req,
               ok |-> ok /\ f.kind # "SendAs", stays |-> stays]>>)

FetchTo(f, pc) == fetches' = (fetches \ {f}) \cup {[f EXCEPT !.pc = pc]} /\ UNCHANGED events
\* With its access token a fetch makes its call; that of SendAs leaves nothing
\* behind, so its answer is all that is seen of it.
HasToken(f) == IF f.kind = "SendAs" THEN FetchEnds(f, TRUE, TRUE) ELSE FetchTo(f, "call")

\* The row must be that of the email; Gmail may rotate the token.
FetchSign(f) ==
    /\ f.pc = "sign"
    /\ UNCHANGED <<disk, gmail, strays>> /\ FetchOnly
    /\ \/ registry[f.id] = f.email /\ f.id \in token /\ (FetchTo(f, "Token") \/ HasToken(f))
       \/ FetchEnds(f, FALSE, TRUE)

FetchRotate(f) ==
    /\ f.pc = "Token"
    /\ UNCHANGED gmail /\ FetchOnly
    /\ LET w == [do |-> "Token", id |-> f.id, email |-> f.email, inbox |-> "None"]
       IN \/ Store(w) /\ UNCHANGED strays /\ HasToken(f)
          \/ strays' \in {strays, strays \cup {w}} /\ UNCHANGED disk /\ FetchEnds(f, FALSE, TRUE)

\* mutate_message confirms, reads the state back, or fails with Gmail's state
\* unknown.
FetchCall(f) ==
    /\ f.pc = "call"
    /\ UNCHANGED <<disk, strays>> /\ FetchOnly
    /\ gmail' \in {gmail, gmail \ {f.email}}
    /\ FetchEnds(f, TRUE, f.email \in gmail') \/ FetchEnds(f, FALSE, TRUE)

-----------------------------------------------------------------------------
Person ==
    /\ Len(commands) < MaxCommands
    /\ \/ \E kind \in {"Restore", "Connect"} : StartSync(kind)
       \/ StartAddAccount
       \/ \E i \in Ids : ReconnectAccount(i) \/ RemoveAccount(i) \/ SelectAccountMessage(i)
       \/ CancelAdd
       \/ CancelSync
       \/ Disconnect
       \/ ArchiveSelected

AddStep == AddBrowser \/ AddCheck \/ AddWrite
TaskStep(i) == ReconnectSign(i) \/ ReconnectFetch(i) \/ TaskWrite(i)
LegacyStep == LegacyList \/ LegacySign \/ LegacyBrowser \/ LegacyRegister \/ LegacySave \/ LegacyFetch
              \/ LegacyPurge
FetchStep(f) == FetchSign(f) \/ FetchRotate(f) \/ FetchCall(f)

\* What the program does by itself.
System ==
    \/ Deliver
    \/ Controller
    \/ AddStep
    \/ \E i \in Ids : TaskStep(i)
    \/ LegacyStep
    \/ \E f \in fetches : FetchStep(f)

Next ==
    \/ Person
    \/ System
    \/ \E w \in strays : Stray(w)
    \/ Restart

Spec == Init /\ [][Next]_vars

\* The UI loop drains the events, the runtime runs every task, and every
\* await of a task ends: the browser by CALLBACK_TIMEOUT, keyring and network
\* calls by theirs.  No work is started without the person, so it is enough
\* that something that can run does.
FairSpec == Spec /\ WF_vars(System)

-----------------------------------------------------------------------------
(* Properties *)

TypeOK ==
    /\ registry \in [Ids -> Emails \cup {None}]
    /\ token \subseteq Ids
    /\ cache \in [Ids -> Inboxes]
    /\ legacyToken \in Emails \cup {None}
    /\ gmail \subseteq Emails
    /\ \A i \in Ids : accounts[i] \in Accounts \cup {NoAccount}
    /\ ops \in [Ids -> Nat]
    /\ adding \in Nat /\ active \in Nat /\ nextOp \in Nat
    /\ account \in Emails \cup {None} /\ session \in Sessions /\ mailbox \in Inboxes
    /\ sendAs \subseteq Ids
    /\ selected \in Ids \cup {None}
    /\ fetches \subseteq Fetches /\ strays \subseteq Writes
    /\ removed \subseteq used /\ added \subseteq used /\ used \subseteq Ids

\* Once an account is removed, no task that was running for it brings back
\* its registry row or its cached mail.
RemovedStaysGone == \A i \in removed : registry[i] = None /\ cache[i] = "None"

\* A row written by add_account, which a crash may interrupt anywhere, has both
\* its token and its cache, and a row of the singleton session (whose token and
\* mail are elsewhere) has neither: no crash, cancelled or failed addition, stray
\* or reconnection leaves half of an account.  Rows that RemoveAccount was started
\* for lose both one after the other and are exempt.
RowsAreWhole ==
    \A i \in Rows(registry) \ leaving :
        /\ i \in token <=> i \in added
        /\ cache[i] # "None" <=> i \in added

\* Two rows never carry the same Gmail identity, whatever add tasks, late
\* closures and legacy registrations overlap, nor do two listed accounts.
OneRowPerIdentity ==
    \A e \in Emails :
        /\ Cardinality(RegisteredAs(registry, e)) <= 1
        /\ Cardinality({i \in Listed : accounts[i].email = e}) <= 1

\* A list shows an Inbox without the message only when Gmail has moved it:
\* a mutation is applied after Gmail confirmed it, and never when it failed.
HiddenOnlyIfMoved ==
    \A i \in Listed : accounts[i].inbox = "Empty" => accounts[i].email \notin gmail

\* Every operation on an account ends, and so does every add: no button stays
\* disabled for an answer that never comes.
OperationsSettle ==
    /\ []<>(adding = 0)
    /\ []<>(\A i \in Ids : ops[i] = 0)

-----------------------------------------------------------------------------
(* What the repository says and the code does not do *)

\* worker.rs:472: RemoveAccount removes the account's scoped secret.
RemovedLeavesNoToken == \A i \in removed : i \notin token

\* state.rs:2752: the row of the signed-in account is kept in step with the
\* only live worker session.
ProjectionInStep ==
    \A i \in Listed : accounts[i].session = "Syncing" =>
        ops[i] # 0 \/ session = "Syncing"

\* state.rs:102: verified aliases are made available: what is awaited is
\* being fetched.
AwaitedAliasesComeBack ==
    \A i \in sendAs :
        \/ \E n \in DOMAIN commands : commands[n].type = "SendAs" /\ commands[n].id = i
        \/ \E f \in fetches : f.kind = "SendAs" /\ f.id = i
        \/ \E n \in DOMAIN events : events[n].type = "SendAs" /\ events[n].id = i
=============================================================================
