----------------------------- MODULE MutationUndo -----------------------------
(***************************************************************************)
(* Changes of messages and their undo: the optimistic lists of state.rs     *)
(* (UI thread), mutation_actor and the generation gate of worker.rs, and    *)
(* what gmail.rs makes of an answer that does not come.  One account is     *)
(* signed in and Ready.                                                     *)
(*                                                                          *)
(* A message has the flags "unread" and "starred", and one "label" for all  *)
(* labels.  The place of a row in its list is left out, and so are the      *)
(* mailbox cache and the unified lists of several accounts.  A background   *)
(* poll that publishes the Inbox is a reload of it.                         *)
(***************************************************************************)
EXTENDS Integers, Sequences

CONSTANTS
    Messages,
    Folders,      \* the mailboxes of the folder catalog; "Label" is that of the label
    Flags,
    MaxRequests,  \* bound on changes the person makes
    MaxLoads,     \* bound on folder loads and searches
    MaxClears     \* bound on Clear Cache

ASSUME FolderAssumption ==
    /\ "Inbox" \in Folders /\ Folders \subseteq {"Inbox", "AllMail", "Starred", "Trash", "Label"}
    /\ "label" \in Flags /\ Flags \subseteq {"label", "unread", "starred"}
    /\ "Starred" \in Folders => "starred" \in Flags
ASSUME BoundAssumption == MaxRequests \in Nat /\ MaxLoads \in Nat /\ MaxClears \in Nat

VARIABLES
    (* AppState *)
    selected,    \* selected_folder_id
    rows,        \* mailbox ("Folder") and loaded search results ("Search")
    searching,   \* server_search is Loaded
    pending,     \* pending_mutations
    undo,        \* undo_operation
    nextRequest, \* next_mutation_request
    generation,  \* cache_generation
    activeLoad,  \* active_folder_request (0: None)
    nextLoad,    \* next_folder_request
    (* the channels *)
    mutations, events,
    (* the worker *)
    gate,        \* its cache_generation
    job,         \* the command mutation_actor has taken
    load,        \* folder_task
    (* Gmail *)
    gmail,
    lost         \* observation: requests that a Clear Cache made void

uiVars == <<selected, rows, searching, pending, undo, nextRequest, generation, activeLoad, nextLoad>>
workerVars == <<gate, job, load>>
vars == <<uiVars, mutations, events, workerVars, gmail, lost>>

-----------------------------------------------------------------------------
(* Data *)

Views == {"Folder", "Search"}
States == [flags : [Flags -> BOOLEAN], inbox : BOOLEAN, trash : BOOLEAN]
Gone == [gone |-> TRUE]
Rows == [folder : Folders, state : States]
NoRow == [row |-> "none"]
\* SetRead, SetStarred and SetLabel set a flag; the person makes changes, and
\* their undo restores the Inbox, and the label after a Trash.
Removals == [kind : {"Archive", "MoveToTrash"}]
Changes == [kind : {"Set"}, flag : Flags, on : BOOLEAN] \cup Removals
Mutations ==
    Changes
    \cup [kind : {"RestoreArchive"}]
    \cup [kind : {"RestoreFromTrash"}, inbox : BOOLEAN, label : BOOLEAN]
Taken == [view : Views, row : Rows]
Pending == [msg : Messages, mut : Changes, req : Nat, origin : Folders,
            was : BOOLEAN, taken : SUBSET Taken]
NoUndo == [phase |-> "None"]
Undo == [phase : {"ForwardPending", "Available", "UndoPending"}, msg : Messages,
         forward : Removals, taken : SUBSET Taken, req : Nat, requested : BOOLEAN]
Mutate(req, g, m, mut) == [type |-> "Mutate", req |-> req, gen |-> g, msg |-> m, mut |-> mut]
NoJob == [pc |-> "none"]
NoLoad == [req |-> 0, folder |-> "Inbox"]

Elements(s) == {s[i] : i \in DOMAIN s}

Removes(mut) == mut.kind \in {"Archive", "MoveToTrash"}

Dimension(mut) == IF mut.kind = "Set" THEN mut.flag ELSE "Inbox"

\* belongs_in_projection
Belongs(row) ==
    CASE row.folder = "Inbox" -> row.state.inbox
      [] row.folder = "Trash" -> row.state.trash
      [] row.folder = "AllMail" -> ~row.state.trash
      [] row.folder = "Starred" -> row.state.flags["starred"] /\ ~row.state.trash
      [] row.folder = "Label" -> row.state.flags["label"] /\ ~row.state.trash

\* What Gmail lists in a folder.
Listing(f) ==
    [m \in Messages |->
        LET row == [folder |-> f, state |-> gmail[m]]
        IN IF gmail[m] # Gone /\ Belongs(row) THEN row ELSE NoRow]
NoRows == [m \in Messages |-> NoRow]

Init ==
    /\ gmail = [m \in Messages |-> [flags |-> [f \in Flags |-> f = "label"], inbox |-> TRUE, trash |-> FALSE]]
    /\ selected = "Inbox" /\ searching = FALSE
    /\ rows = [v \in Views |-> IF v = "Folder" THEN Listing("Inbox") ELSE NoRows]
    /\ pending = {} /\ undo = NoUndo /\ nextRequest = 1 /\ generation = 0
    /\ activeLoad = 0 /\ nextLoad = 1
    /\ mutations = <<>> /\ events = <<>>
    /\ gate = 0 /\ job = NoJob /\ load = NoLoad /\ lost = {}

-----------------------------------------------------------------------------
(* The lists *)

Leaves(mut, row) ==
    IF mut.kind = "Archive" THEN row.folder = "Inbox" ELSE row.folder # "Trash"

TakenRows(m, mut) ==
    {[view |-> v, row |-> rows[v][m]] :
        v \in {w \in Views : rows[w][m] # NoRow /\ Leaves(mut, rows[w][m])}}

RemoveFromViews(m, mut) ==
    [v \in Views |-> [rows[v] EXCEPT ![m] = IF @ # NoRow /\ Leaves(mut, @) THEN NoRow ELSE @]]

RemoveFromAllViews(m) == [v \in Views |-> [rows[v] EXCEPT ![m] = NoRow]]

\* restore_removed_rows: into the list that is shown now, unless it has the message.
RestoreRows(m, taken) ==
    [v \in Views |->
        IF \E t \in taken : t.view = v /\ (v = "Search" => searching)
        THEN [rows[v] EXCEPT ![m] = IF @ = NoRow THEN (CHOOSE t \in taken : t.view = v).row ELSE @]
        ELSE rows[v]]

\* apply_to_visible_representations, and the restore_*_to_visible_representations.
SetFlag(m, flag, on) ==
    [v \in Views |-> [rows[v] EXCEPT ![m] = IF @ = NoRow THEN @ ELSE [@ EXCEPT !.state.flags[flag] = on]]]

\* restore_reconciled_rows, then apply_reconciled_to_visible_representations,
\* which retains what belongs among all rows of both lists.
Reconcile(m, taken, s) ==
    LET now == {t \in {[u EXCEPT !.row.state = s] : u \in taken} : Belongs(t.row)}
        restored == RestoreRows(m, now)
        applied == [v \in Views |-> [restored[v] EXCEPT ![m] = IF @ = NoRow THEN @ ELSE [@ EXCEPT !.state = s]]]
    IN [v \in Views |-> [n \in Messages |->
           IF applied[v][n] # NoRow /\ Belongs(applied[v][n]) THEN applied[v][n] ELSE NoRow]]

-----------------------------------------------------------------------------
(* What the person does *)

Visible == IF searching THEN rows["Search"] ELSE rows["Folder"]

Archive == [kind |-> "Archive"]
MoveToTrash == [kind |-> "MoveToTrash"]
Toggle(row, flag) == [kind |-> "Set", flag |-> flag, on |-> ~row.state.flags[flag]]

Offered(row) ==
    {Toggle(row, flag) : flag \in Flags}
    \cup {mut \in {Archive} : row.state.inbox /\ ~row.state.trash}
    \cup {mut \in {MoveToTrash} : ~row.state.trash /\ "Trash" \in Folders}

MutateSelected(m, mut) ==
    /\ nextRequest <= MaxRequests
    /\ Visible[m] # NoRow /\ mut \in Offered(Visible[m])
    /\ \A p \in pending : p.msg = m => Dimension(p.mut) # Dimension(mut)
    /\ LET taken == IF Removes(mut) THEN TakenRows(m, mut) ELSE {}
       IN /\ rows' = IF Removes(mut) THEN RemoveFromViews(m, mut) ELSE SetFlag(m, mut.flag, mut.on)
          /\ pending' = pending \cup
                {[msg |-> m, mut |-> mut, req |-> nextRequest, origin |-> selected,
                  was |-> ~Removes(mut) /\ Visible[m].state.flags[mut.flag], taken |-> taken]}
          /\ undo' = IF Removes(mut)
                     THEN [phase |-> "ForwardPending", msg |-> m, forward |-> mut, taken |-> taken,
                           req |-> nextRequest, requested |-> FALSE]
                     ELSE undo
    /\ nextRequest' = nextRequest + 1
    /\ mutations' = Append(mutations, Mutate(nextRequest, generation, m, mut))
    /\ UNCHANGED <<selected, searching, generation, activeLoad, nextLoad, events,
                   workerVars, gmail, lost>>

\* The row taken first is that of the folder.
LabelOf(taken) ==
    LET first == IF \E t \in taken : t.view = "Folder" THEN "Folder" ELSE "Search"
    IN \E t \in taken : t.view = first /\ t.row.state.flags["label"]

RestoreFromTrash(taken) ==
    [kind |-> "RestoreFromTrash", inbox |-> \E t \in taken : t.row.state.inbox, label |-> LabelOf(taken)]

\* Mutated: every forward change is undone as a Trash.
InverseOfTrash(u) == RestoreFromTrash(u.taken)

\* inverse_mutation; the catalog always has the Inbox.
Inverse(u) ==
    IF u.forward.kind = "Archive" THEN [kind |-> "RestoreArchive"] ELSE RestoreFromTrash(u.taken)

DispatchUndo ==
    /\ rows' = RestoreRows(undo.msg, undo.taken)
    /\ undo' = [undo EXCEPT !.phase = "UndoPending", !.req = nextRequest]
    /\ nextRequest' = nextRequest + 1
    /\ mutations' = Append(mutations, Mutate(nextRequest, generation, undo.msg, Inverse(undo)))

UndoMessageOperation ==
    /\ \/ /\ undo.phase = "ForwardPending"
          /\ rows' = RestoreRows(undo.msg, undo.taken)
          /\ undo' = [undo EXCEPT !.requested = TRUE]
          /\ UNCHANGED <<nextRequest, mutations>>
       \/ undo.phase = "Available" /\ DispatchUndo
    /\ UNCHANGED <<selected, searching, pending, generation, activeLoad, nextLoad, events,
                   workerVars, gmail, lost>>

\* load_folder; the folder task that ran is aborted.
LoadFolder(f) ==
    /\ nextLoad <= MaxLoads
    /\ rows' = [v \in Views |-> IF v = "Search" \/ f # selected THEN NoRows ELSE rows[v]]
    /\ selected' = f /\ searching' = FALSE
    /\ activeLoad' = nextLoad /\ nextLoad' = nextLoad + 1
    /\ load' = [req |-> nextLoad, folder |-> f]
    /\ UNCHANGED <<pending, undo, nextRequest, generation, mutations, events, gate, job, gmail, lost>>

\* A search from its submission to its results, which lie in All Mail.
Search ==
    /\ ~searching /\ "AllMail" \in Folders /\ nextLoad <= MaxLoads /\ nextLoad' = nextLoad + 1
    /\ searching' = TRUE /\ rows' = [rows EXCEPT !["Search"] = Listing("AllMail")]
    /\ UNCHANGED <<selected, pending, undo, nextRequest, generation, activeLoad,
                   mutations, events, workerVars, gmail, lost>>

CloseSearch ==
    /\ searching
    /\ searching' = FALSE /\ rows' = [rows EXCEPT !["Search"] = NoRows]
    /\ UNCHANGED <<selected, pending, undo, nextRequest, generation, activeLoad, nextLoad,
                   mutations, events, workerVars, gmail, lost>>

\* clear_body_cache: the pending changes and the undo stay.
ClearBodyCache ==
    /\ generation < MaxClears
    /\ generation' = generation + 1
    /\ lost' = lost \cup {p.req : p \in pending}
                    \cup (IF undo.phase \in {"ForwardPending", "UndoPending"} THEN {undo.req} ELSE {})
    /\ UNCHANGED <<selected, rows, searching, pending, undo, nextRequest, activeLoad, nextLoad,
                   mutations, events, workerVars, gmail>>

-----------------------------------------------------------------------------
(* The answers *)

AnswerOf(c, result, s) ==
    [type |-> "Answer", req |-> c.req, gen |-> c.gen, msg |-> c.msg, result |-> result, state |-> s]

IsUndo(e) == undo.phase = "UndoPending" /\ undo.req = e.req /\ undo.msg = e.msg
IsForward(e) == undo.phase = "ForwardPending" /\ undo.req = e.req /\ undo.msg = e.msg

\* Mutated: only in the folder in which the change was made.
AnsweredHere(e) == {p \in pending : p.req = e.req /\ p.msg = e.msg /\ p.origin = selected}

Answered(e) == {p \in pending : p.req = e.req /\ p.msg = e.msg}

\* Mutated: an undo whose end is unknown stays.
KeepUncertainUndo(e) ==
    /\ undo' = IF e.result = "Uncertain" THEN undo ELSE NoUndo
    /\ rows' = IF e.result = "Confirmed" THEN rows ELSE RemoveFromViews(e.msg, undo.forward)
    /\ UNCHANGED <<pending, nextRequest, mutations>>

FinishUndoMutation(e) ==
    /\ undo' = NoUndo
    /\ rows' = CASE e.result = "Confirmed" -> rows
                 [] e.result = "Reconciled" ->
                      IF e.state = Gone THEN RemoveFromAllViews(e.msg)
                      ELSE Reconcile(e.msg, undo.taken, e.state)
                 [] OTHER -> RemoveFromViews(e.msg, undo.forward)
    /\ UNCHANGED <<pending, nextRequest, mutations>>

\* Mutated: the token survives a forward change that was not confirmed.
UndoSurvives(e) ==
    [undo EXCEPT !.phase = IF IsForward(e) THEN "Available" ELSE @]

UndoAfter(e) ==
    CASE ~IsForward(e) -> undo
      [] IsForward(e) /\ e.result = "Confirmed" -> [undo EXCEPT !.phase = "Available"]
      [] OTHER -> NoUndo

\* The lists after the answer to a change, if the folder it was made in is shown.
RowsAfter(p, e) ==
    IF selected # p.origin THEN rows ELSE
    CASE e.result = "Uncertain" /\ IsForward(e) /\ undo.requested -> RemoveFromViews(p.msg, p.mut)
      [] e.result = "Rejected" ->
           IF Removes(p.mut) THEN RestoreRows(p.msg, p.taken) ELSE SetFlag(p.msg, p.mut.flag, p.was)
      [] e.result = "Reconciled" ->
           IF e.state = Gone THEN RemoveFromAllViews(p.msg) ELSE Reconcile(p.msg, p.taken, e.state)
      [] OTHER -> rows

FinishMutation(p, e) ==
    /\ pending' = pending \ {p}
    /\ IF IsForward(e) /\ e.result = "Confirmed" /\ undo.requested
       THEN DispatchUndo
       ELSE undo' = UndoAfter(e) /\ rows' = RowsAfter(p, e) /\ UNCHANGED <<nextRequest, mutations>>

IgnoreAnswer == UNCHANGED <<pending, undo, rows, nextRequest, mutations>>

DeliverAnswer(e) ==
    \/ e.gen # generation /\ IgnoreAnswer
    \/ e.gen = generation /\ IsUndo(e) /\ FinishUndoMutation(e)
    \/ e.gen = generation /\ ~IsUndo(e) /\ \E p \in Answered(e) : FinishMutation(p, e)
    \/ e.gen = generation /\ ~IsUndo(e) /\ Answered(e) = {} /\ IgnoreAnswer

Deliver ==
    /\ events # <<>> /\ events' = Tail(events)
    /\ LET e == Head(events)
       IN \/ e.type = "Answer" /\ DeliverAnswer(e) /\ UNCHANGED activeLoad
          \/ /\ e.type = "FolderLoaded" /\ e.req = activeLoad
             /\ rows' = [rows EXCEPT !["Folder"] = e.rows] /\ activeLoad' = 0
             /\ UNCHANGED <<pending, undo, nextRequest, mutations>>
          \/ e.type = "FolderLoaded" /\ e.req # activeLoad /\ IgnoreAnswer /\ UNCHANGED activeLoad
    /\ UNCHANGED <<selected, searching, generation, nextLoad, workerVars, gmail, lost>>

-----------------------------------------------------------------------------
(* The worker *)

\* The controller gets to Clear Cache, in the order in which it was sent.
SetGate ==
    /\ gate < generation /\ gate' = gate + 1
    /\ UNCHANGED <<uiVars, mutations, events, job, load, gmail, lost>>

\* mutation_actor takes a command and waits for the metadata lane.
TakeMutation ==
    /\ job = NoJob /\ mutations # <<>> /\ Head(mutations).gen <= gate
    /\ mutations' = Tail(mutations)
    /\ job' = IF Head(mutations).gen = gate THEN [pc |-> "lane", cmd |-> Head(mutations)] ELSE NoJob
    /\ UNCHANGED <<uiVars, events, gate, load, gmail, lost>>

\* What Gmail makes of a change; its Trash takes the labels away.
Effect(mut, s) ==
    CASE mut.kind = "Set" -> [s EXCEPT !.flags[mut.flag] = mut.on]
      [] mut.kind = "Archive" -> [s EXCEPT !.inbox = FALSE]
      [] mut.kind = "MoveToTrash" -> [s EXCEPT !.inbox = FALSE, !.flags["label"] = FALSE, !.trash = TRUE]
      [] mut.kind = "RestoreArchive" -> [s EXCEPT !.inbox = TRUE]
      [] mut.kind = "RestoreFromTrash" ->
           [s EXCEPT !.inbox = @ \/ mut.inbox, !.flags["label"] = @ \/ mut.label, !.trash = FALSE]

\* RestoreFromTrash adds the labels before it takes the message out of the Trash.
FirstStore(mut, s) == IF mut.kind = "RestoreFromTrash" THEN [Effect(mut, s) EXCEPT !.trash = s.trash] ELSE s

\* Mutated: a refusal of the second store counts as a refusal of the change.
AttemptsRefusingTwice(mut, s) ==
    {[state |-> Effect(mut, s), end |-> "Ok"]}
    \cup {[state |-> t, end |-> "Definite"] : t \in {s, FirstStore(mut, s)}}
    \cup {[state |-> t, end |-> "Uncertain"] : t \in {s, Effect(mut, s)}}

\* How mutate_message_inner may leave the message, and what it returns.  A
\* refused MOVE may have been carried out.
Attempts(mut, s) ==
    {[state |-> s, end |-> "Definite"], [state |-> Effect(mut, s), end |-> "Ok"]}
    \cup {[state |-> t, end |-> "Uncertain"] : t \in {s, FirstStore(mut, s), Effect(mut, s)}}

\* resolve_message_locator looks for the message in the folders that may have
\* it; another client may have deleted it for good.
Resolved(s) == {s, Gone}

\* reconcile_message_inner, over a new connection, which may fail too.
ReconciledMessage(s) == {[state |-> s, result |-> r] : r \in {"Reconciled", "Uncertain"}}

Outcome(a) ==
    CASE a.end = "Ok" -> {[state |-> a.state, result |-> "Confirmed"]}
      [] a.end = "Definite" -> {[state |-> a.state, result |-> "Rejected"]}
      [] a.end = "Uncertain" -> ReconciledMessage(a.state)

\* With the lane, up to the answer of Gmail.
MutateMessage ==
    /\ job.pc = "lane"
    /\ \/ job.cmd.gen # gate /\ job' = NoJob /\ UNCHANGED gmail
       \/ /\ job.cmd.gen = gate
          /\ \E s \in Resolved(gmail[job.cmd.msg]) :
             \E a \in IF s = Gone THEN [state : {Gone}, end : {"Definite", "Uncertain"}]
                      ELSE Attempts(job.cmd.mut, s) :
             \E o \in Outcome(a) :
                /\ gmail' = [gmail EXCEPT ![job.cmd.msg] = o.state]
                /\ job' = [pc |-> "persist", cmd |-> job.cmd, result |-> o.result, state |-> o.state]
    /\ UNCHANGED <<uiVars, mutations, events, gate, load, lost>>

\* The cache is brought up to date under cache_io, then the answer goes out.
AnswerMutation ==
    /\ job.pc = "persist" /\ job' = NoJob
    /\ events' = IF job.cmd.gen = gate THEN Append(events, AnswerOf(job.cmd, job.result, job.state)) ELSE events
    /\ UNCHANGED <<uiVars, mutations, gate, load, gmail, lost>>

\* fetch_folder_view, with the lane; an aborted one answers nothing.
FetchFolder ==
    /\ load # NoLoad /\ job.pc # "persist" /\ load' = NoLoad
    /\ events' = Append(events, [type |-> "FolderLoaded", req |-> load.req, rows |-> Listing(load.folder)])
    /\ UNCHANGED <<uiVars, mutations, gate, job, gmail, lost>>

Worker == SetGate \/ TakeMutation \/ MutateMessage \/ AnswerMutation \/ FetchFolder

Person ==
    \/ \E m \in Messages, mut \in Changes : MutateSelected(m, mut)
    \/ UndoMessageOperation
    \/ \E f \in Folders : LoadFolder(f)
    \/ Search \/ CloseSearch \/ ClearBodyCache

Next == Person \/ Deliver \/ Worker

Spec == Init /\ [][Next]_vars

\* The reducer drains its channel, and the worker's tasks run; what they wait
\* for in the network has a timeout.
Fairness ==
    /\ WF_vars(Deliver) /\ WF_vars(SetGate) /\ WF_vars(TakeMutation)
    /\ WF_vars(MutateMessage) /\ WF_vars(AnswerMutation)

FairSpec == Spec /\ Fairness

-----------------------------------------------------------------------------
(* Properties *)

MutateCommands == [type : {"Mutate"}, req : Nat, gen : Nat, msg : Messages, mut : Mutations]
ListRows == [Messages -> Rows \cup {NoRow}]
Results == {"Confirmed", "Reconciled", "Rejected", "Uncertain"}
AnswerEvents == [type : {"Answer"}, req : Nat, gen : Nat, msg : Messages, result : Results,
                 state : States \cup {Gone}]
LoadEvents == [type : {"FolderLoaded"}, req : Nat, rows : ListRows]
LaneJobs == [pc : {"lane"}, cmd : MutateCommands]
PersistJobs == [pc : {"persist"}, cmd : MutateCommands, result : Results, state : States \cup {Gone}]

TypeOK ==
    /\ selected \in Folders /\ searching \in BOOLEAN
    /\ rows \in [Views -> ListRows]
    /\ pending \subseteq Pending /\ undo \in Undo \cup {NoUndo}
    /\ nextRequest \in Nat /\ generation \in Nat /\ activeLoad \in Nat /\ nextLoad \in Nat
    /\ mutations \in Seq(MutateCommands)
    /\ events \in Seq(AnswerEvents \cup LoadEvents)
    /\ gate \in Nat /\ load \in [req : Nat, folder : Folders]
    /\ job \in {NoJob} \cup LaneJobs \cup PersistJobs
    /\ gmail \in [Messages -> States \cup {Gone}]
    /\ lost \subseteq Nat

\* What a forward change has done to a message.
Done(mut, s) == IF mut.kind = "Archive" THEN ~s.inbox ELSE s.trash

\* Undo is offered only for a change that Gmail holds at this moment, whatever
\* was answered late, made again or overtaken meanwhile (state.rs finish_mutation).
OfferedUndoHolds ==
    undo.phase = "Available" => gmail[undo.msg] = Gone \/ Done(undo.forward, gmail[undo.msg])

InFlight(req) ==
    \/ \E c \in Elements(mutations) : c.req = req
    \/ job # NoJob /\ job.cmd.req = req
    \/ \E e \in Elements(events) : e.type = "Answer" /\ e.req = req

Awaited ==
    {p.req : p \in pending} \cup (IF undo.phase \in {"ForwardPending", "UndoPending"} THEN {undo.req} ELSE {})

\* Whatever the lists or the undo wait for is on its way through the channels
\* and the actor, unless Clear Cache made it void: else the change would be
\* "already in progress" for good (state.rs mutate_selected).
AwaitedIsInFlight == \A r \in Awaited \ lost : InFlight(r)

\* The same of every change, as the feedback of mutate_selected says.
EveryChangeIsAnswered == \A p \in pending : InFlight(p.req)

\* "Message action undone" is said of a message that is back: in the Inbox
\* after an Archive, out of the Trash after a Trash (state.rs finish_undo_mutation).
UndoneIsBack ==
    [][\A e \in Elements(events) :
          /\ e.type = "Answer" /\ e.result = "Confirmed" /\ e.gen = generation /\ IsUndo(e)
          /\ undo' = NoUndo
          => gmail[e.msg] = Gone \/ ~Done(undo.forward, gmail[e.msg])]_vars

\* "Gmail rejected the change" is said only of a change no part of which Gmail
\* carried out (gmail.rs mutate_message).
RejectedIsUnapplied ==
    [][job.pc = "lane" /\ job'.pc = "persist" /\ job'.result = "Rejected" /\ job'.state # Gone
          => UNCHANGED gmail]_vars

\* Undoing a Trash gives the Inbox back only to a message that was in it when
\* Gmail trashed it (model.rs, restore_inbox).
TrashRemembersInbox ==
    job.pc = "lane" /\ job.cmd.mut = MoveToTrash /\ undo.phase = "ForwardPending" /\ undo.req = job.cmd.req
        => (gmail[job.cmd.msg] = Gone \/ (Inverse(undo).inbox => gmail[job.cmd.msg].inbox))

Requests == 1..(2 * MaxRequests)

\* Every change is settled, whatever the network does (mutation_actor), and an
\* undo, asked for before or after Gmail confirmed the change, comes to an end
\* (state.rs finish_mutation), unless Clear Cache made them void.
ChangesSettle ==
    /\ \A r \in Requests :
          (\E p \in pending : p.req = r) ~> (r \in lost \/ \A p \in pending : p.req # r)
    /\ undo.phase \in {"ForwardPending", "UndoPending"}
          ~> (undo.phase \in {"None", "Available"} \/ undo.req \in lost)
=============================================================================
