------------------------------ MODULE DraftQueue ------------------------------
(***************************************************************************)
(* Local drafts of one account: the composer half of AppState (state.rs),   *)
(* draft_io_actor of the worker with its coalescing batches, and the draft  *)
(* directories on disk (drafts.rs).  Commands and events travel in order;   *)
(* the controller only forwards draft commands, so the command channel and  *)
(* the actor's channel are one queue, from which a batch takes any prefix.  *)
(* A draft is its revision and its staged files.  flush_recipients and the  *)
(* editor snapshot that precede a close or a send are the one change of the *)
(* draft these actions begin with.                                          *)
(***************************************************************************)
EXTENDS Integers, Sequences, FiniteSets

CONSTANTS
    Drafts,        \* draft identifiers
    Files,         \* names of staged files
    None,
    MaxOps,        \* bound: draft operations the user's actions may allocate
    WorkerMayDie   \* whether the worker thread may end by itself

ASSUME MaxOpsAssumption == MaxOps \in Nat
ASSUME WorkerMayDieAssumption == WorkerMayDie \in BOOLEAN
ASSUME NoneAssumption == None \notin Nat \cup [rev : Nat, files : SUBSET Files]
                             \cup [id : Drafts, version : [rev : Nat, files : SUBSET Files]]

VARIABLES
    catalog, intent, generation,  \* draft_catalog_state, pending_draft_intent, draft_generation
    loadOp, signatureOp,          \* pending_draft_load, pending_signature_load
    composer, saved,              \* ComposerState, saved_drafts
    latest, saveState,            \* latest_draft_save, draft_save_state
    pendingClose, staging,        \* pending_composer_close, pending_attachment_staging
    nextOp, unused, fresh,        \* next operation, draft ids and file names not yet drawn
    window, refused, hangup,      \* the window; a send just failed; the channel's end is: no, due, seen
    queue, batch, events,         \* commands, what is left of the actor's batch, events
    worker, mail,                 \* the worker thread; the submission SMTP is busy with
    stored, staged,               \* on disk: draft.json and files/ of each draft
    asked, unsaved, litter        \* observations: the draft a close was asked for, drafts whose
                                  \* last write failed, files a failed removal or staging left

restoreVars == <<catalog, intent, generation, loadOp, signatureOp>>
saveVars == <<latest, saveState, pendingClose, staging>>
drawn == <<unused, fresh>>
appVars == <<window, hangup>>
diskVars == <<stored, staged, unsaved, litter>>
workerVars == <<batch, worker, mail>>
vars == <<restoreVars, composer, saved, saveVars, nextOp, drawn, appVars, refused,
          queue, events, workerVars, diskVars, asked>>

OpIds == 1..2 * MaxOps + 2
Versions == [rev : 0..2 * MaxOps + 2, files : SUBSET Files]
OpKinds == {"load", "signature", "save", "delete", "stage", "remove"}
Ops == [n : OpIds, kind : OpKinds, id : Drafts \cup {None}, version : Versions \cup {None},
        file : Files \cup {None}, gen : 1..MaxOps + 1]
Replies == {"loaded", "done", "failed", "sent", "accountSent", "sendFailed"}
Events == [kind : Replies, op : Ops \cup {None}, drafts : [Drafts -> Versions \cup {None}] \cup {None}]
Closed == [mode |-> "closed", id |-> None, version |-> None]
Composers == {Closed} \cup [mode : {"editing", "sending", "failed"}, id : Drafts, version : Versions]

TypeOK ==
    /\ catalog \in {"notStarted", "loading", "ready", "failed"}
    /\ intent \in {"none", "compose", "resume"}
    /\ generation \in 1..MaxOps + 1
    /\ {loadOp, signatureOp, latest, pendingClose} \subseteq OpIds \cup {None}
    /\ composer \in Composers
    /\ composer # Closed => catalog = "ready" /\ saved[composer.id] # None
    /\ saved \in [Drafts -> Versions \cup {None}]
    /\ saveState \in {"saved", "saving", "failed"}
    /\ saveState = "saving" <=> latest # None
    /\ staging \subseteq OpIds
    /\ nextOp \in OpIds /\ unused \subseteq Drafts /\ fresh \subseteq Files
    /\ window \in {"open", "closed"} /\ refused \in BOOLEAN /\ hangup \in {"no", "due", "seen"}
    /\ queue \in Seq(Ops) /\ batch \in Seq(Ops) /\ events \in Seq(Events)
    /\ worker \in {"up", "dead", "stopped"}
    /\ mail \in {None, "message", "accountMessage"}
    /\ stored \in [Drafts -> Versions \cup {None}] /\ staged \in [Drafts -> SUBSET Files]
    /\ asked \in {None} \cup [id : Drafts, version : Versions]
    /\ unsaved \subseteq Drafts /\ litter \subseteq Files

-----------------------------------------------------------------------------
\* The k-th operation after nextOp.
Op(k, kind, id, version, file) ==
    [n |-> nextOp + k, kind |-> kind, id |-> id, version |-> version, file |-> file, gen |-> generation]

\* Effects reach the worker, or fail and are followed by WorkerUnavailable.
Submit(ops) ==
    /\ nextOp' = nextOp + Len(ops)
    /\ IF worker = "up" THEN queue' = queue \o ops /\ UNCHANGED refused
                        ELSE refused' = TRUE /\ UNCHANGED queue

\* allocate_draft_operation, latest_draft_save and the SaveDraft of
\* queue_draft_save, after upsert_saved_draft.
QueueSave(id, version) ==
    /\ saved' = [saved EXCEPT ![id] = version]
    /\ latest' = nextOp /\ saveState' = "saving"
    /\ Submit(<<Op(0, "save", id, version, None)>>)

UserActs == window = "open" /\ ~refused
MayAllocate(k) == nextOp + k <= MaxOps + 1
ComposerOpen == composer.mode \in {"editing", "failed"}
Changed(files) == [rev |-> composer.version.rev + 1, files |-> files]
Recomposed(version) == [composer EXCEPT !.version = version]

Init ==
    /\ catalog = "notStarted" /\ intent = "none" /\ generation = 1
    /\ loadOp = None /\ signatureOp = None
    /\ composer = Closed /\ saved = [d \in Drafts |-> None]
    /\ latest = None /\ saveState = "saved" /\ pendingClose = None /\ staging = {}
    /\ stored \in [Drafts -> {None, [rev |-> 0, files |-> {}]}]
    /\ staged = [d \in Drafts |-> {}]
    /\ nextOp = 1 /\ unused = {d \in Drafts : stored[d] = None} /\ fresh = Files
    /\ window = "open" /\ refused = FALSE /\ hangup = "no"
    /\ queue = <<>> /\ batch = <<>> /\ events = <<>>
    /\ worker = "up" /\ mail = None
    /\ asked = None /\ unsaved = {} /\ litter = {}

-----------------------------------------------------------------------------
(* The user, through the reducer.                                           *)

\* ensure_local_restore, when the account's mail is first shown; Retry when a
\* restoration failed.
LoadLocal ==
    /\ catalog' = "loading"
    /\ loadOp' = nextOp /\ signatureOp' = nextOp + 1
    /\ UNCHANGED <<intent, composer, saved, saveVars, drawn, appVars, events, workerVars, diskVars, asked>>

EnsureLocalRestore ==
    /\ UserActs /\ catalog = "notStarted" /\ MayAllocate(2)
    /\ LoadLocal
    /\ Submit(<<Op(0, "load", None, None, None), Op(1, "signature", None, None, None)>>)
    /\ UNCHANGED generation

RetryDraftRestore ==
    /\ UserActs /\ catalog = "failed" /\ MayAllocate(2)
    /\ generation' = generation + 1
    /\ LoadLocal
    /\ Submit(<<[Op(0, "load", None, None, None) EXCEPT !.gen = generation + 1],
                [Op(1, "signature", None, None, None) EXCEPT !.gen = generation + 1]>>)

\* A new message or a reply opens as a new draft, saved at once.
OpenNew(d) ==
    /\ unused' = unused \ {d}
    /\ composer' = [mode |-> "editing", id |-> d, version |-> [rev |-> 0, files |-> {}]]
    /\ QueueSave(d, [rev |-> 0, files |-> {}])
    /\ UNCHANGED <<pendingClose, staging, fresh>>

BeginCompose(d) ==
    /\ UserActs /\ composer = Closed /\ catalog = "ready"
    /\ d \in unused /\ MayAllocate(1)
    /\ OpenNew(d)
    /\ UNCHANGED <<restoreVars, appVars, events, workerVars, diskVars, asked>>

\* resume_draft opens the last draft, a reply the one of its source message.
ResumeDraft(d) ==
    /\ UserActs /\ composer = Closed /\ catalog = "ready" /\ saved[d] # None
    /\ composer' = [mode |-> "editing", id |-> d, version |-> saved[d]]
    /\ UNCHANGED <<restoreVars, saved, saveVars, nextOp, drawn, appVars, refused, queue, events,
                   workerVars, diskVars, asked>>

\* Before the drafts are restored, both wait for them.
WaitForRestore(what) ==
    /\ UserActs /\ composer = Closed /\ catalog \in {"notStarted", "loading"}
    /\ what = "compose" => unused # {}
    /\ intent' = what
    /\ UNCHANGED <<catalog, generation, loadOp, signatureOp, composer, saved, saveVars, nextOp, drawn,
                   appVars, refused, queue, events, workerVars, diskVars, asked>>

\* The editor is locked while a close is pending.
Edit ==
    /\ UserActs /\ ComposerOpen /\ pendingClose = None /\ MayAllocate(1)
    /\ composer' = Recomposed(Changed(composer.version.files))
    /\ QueueSave(composer.id, Changed(composer.version.files))
    /\ UNCHANGED <<restoreVars, pendingClose, staging, drawn, appVars, events, workerVars, diskVars, asked>>

\* The file dialog may answer after a close was asked.  The name the file gets
\* on disk is drawn here.
StageAttachment(f) ==
    /\ UserActs /\ ComposerOpen
    /\ f \in fresh /\ fresh' = fresh \ {f} /\ MayAllocate(1)
    /\ staging' = staging \cup {nextOp}
    /\ Submit(<<Op(0, "stage", composer.id, None, f)>>)
    /\ UNCHANGED <<restoreVars, composer, saved, latest, saveState, pendingClose, unused, appVars,
                   events, workerVars, diskVars, asked>>

\* Mutated: the composer keeps showing the file.
RemoveAttachmentShown(f) ==
    /\ UserActs /\ ComposerOpen /\ pendingClose = None
    /\ f \in composer.version.files /\ MayAllocate(2)
    /\ composer' = Recomposed(Changed(composer.version.files))
    /\ saved' = [saved EXCEPT ![composer.id] = composer'.version]
    /\ latest' = nextOp /\ saveState' = "saving"
    /\ Submit(<<Op(0, "save", composer.id, composer'.version, None), Op(1, "remove", composer.id, None, f)>>)
    /\ UNCHANGED <<restoreVars, pendingClose, staging, drawn, appVars, events, workerVars, diskVars, asked>>

RemoveAttachment(f) ==
    LET version == Changed(composer.version.files \ {f}) IN
    /\ UserActs /\ ComposerOpen /\ pendingClose = None
    /\ f \in composer.version.files /\ MayAllocate(2)
    /\ composer' = Recomposed(version)
    /\ saved' = [saved EXCEPT ![composer.id] = version]
    /\ latest' = nextOp /\ saveState' = "saving"
    /\ Submit(<<Op(0, "save", composer.id, version, None), Op(1, "remove", composer.id, None, f)>>)
    /\ UNCHANGED <<restoreVars, pendingClose, staging, drawn, appVars, events, workerVars, diskVars, asked>>

\* hide_composer: Escape, also while a close is pending.
HideComposer ==
    LET version == Changed(composer.version.files)
        waits == staging # {} /\ worker = "up" IN
    /\ UserActs /\ ComposerOpen /\ MayAllocate(1)
    /\ QueueSave(composer.id, version)
    /\ composer' = IF waits THEN Recomposed(version) ELSE Closed
    /\ UNCHANGED <<restoreVars, pendingClose, staging, drawn, appVars, events, workerVars, diskVars, asked>>

\* hide_composer_and_close_app: the application waits for this save.
CloseOverDraft ==
    LET version == Changed(composer.version.files)
        waits == staging # {} /\ worker = "up" IN
    /\ UserActs /\ ComposerOpen /\ MayAllocate(1)
    /\ QueueSave(composer.id, version)
    /\ composer' = Recomposed(version)
    /\ pendingClose' = IF waits THEN pendingClose ELSE nextOp
    /\ asked' = IF waits THEN asked ELSE [id |-> composer.id, version |-> version]
    /\ UNCHANGED <<restoreVars, staging, drawn, appVars, events, workerVars, diskVars>>

CloseWindow ==
    /\ UserActs /\ composer = Closed
    /\ window' = "closed"
    /\ UNCHANGED <<restoreVars, composer, saved, saveVars, nextOp, drawn, hangup, refused, queue, events,
                   workerVars, diskVars, asked>>

MaySend == staging = {} /\ pendingClose = None

\* send_message submits the draft (by the signed-in session, or by an account of
\* the registry), finds it cannot be sent, or refuses: it may not send now, the
\* sender is not connected, or sending again must be confirmed first.
SendMessage ==
    LET version == Changed(composer.version.files) IN
    /\ UserActs /\ ComposerOpen /\ MayAllocate(1)
    /\ QueueSave(composer.id, version)
    /\ \/ /\ MaySend
          /\ \E path \in {"message", "accountMessage"} : mail' = IF worker = "up" THEN path ELSE None
          /\ composer' = [Recomposed(version) EXCEPT !.mode = "sending"]
       \/ /\ MaySend
          /\ composer' = [Recomposed(version) EXCEPT !.mode = "failed"]
          /\ UNCHANGED mail
       \/ composer' = Recomposed(version) /\ UNCHANGED mail
    /\ UNCHANGED <<restoreVars, pendingClose, staging, drawn, appVars, events, batch, worker, diskVars, asked>>

\* ConfirmResend: the same, without a change of the draft.
ConfirmResend ==
    /\ UserActs /\ composer.mode = "failed" /\ MaySend
    /\ \E path \in {"message", "accountMessage"} : mail' = IF worker = "up" THEN path ELSE None
    /\ composer' = [composer EXCEPT !.mode = "sending"]
    /\ refused' = (worker # "up")
    /\ UNCHANGED <<restoreVars, saved, saveVars, nextOp, drawn, appVars, queue, events, batch, worker,
                   diskVars, asked>>

DiscardDraft ==
    /\ UserActs /\ ComposerOpen /\ pendingClose = None /\ MayAllocate(1)
    /\ composer' = Closed
    /\ saved' = [saved EXCEPT ![composer.id] = None]
    /\ Submit(<<Op(0, "delete", composer.id, None, None)>>)
    /\ UNCHANGED <<restoreVars, saveVars, drawn, appVars, events, workerVars, diskVars, asked>>

-----------------------------------------------------------------------------
(* The draft actor and SMTP.                                                *)

ActorReceives ==
    /\ worker = "up" /\ batch = <<>>
    /\ \E k \in 1..Len(queue) :
          /\ batch' = SubSeq(queue, 1, k)
          /\ queue' = SubSeq(queue, k + 1, Len(queue))
    /\ UNCHANGED <<restoreVars, composer, saved, saveVars, nextOp, drawn, appVars, refused, events,
                   worker, mail, diskVars, asked>>

IsSave(op) == op.kind = "save"

\* Mutated: an operation makes itself obsolete.
ObsoleteWithItself ==
    /\ IsSave(Head(batch))
    /\ \E i \in 1..Len(batch) : /\ IsSave(batch[i]) /\ batch[i].id = Head(batch).id
                                /\ batch[i].version.rev >= Head(batch).version.rev

\* Mutated: a save of another draft supersedes this one.
ObsoleteForAnyDraft ==
    /\ IsSave(Head(batch))
    /\ \E i \in 2..Len(batch) : IsSave(batch[i]) /\ batch[i].version.rev >= Head(batch).version.rev

\* A later save of the batch supersedes this one.
Obsolete ==
    /\ IsSave(Head(batch))
    /\ \E i \in 2..Len(batch) : /\ IsSave(batch[i]) /\ batch[i].id = Head(batch).id
                                /\ batch[i].version.rev >= Head(batch).version.rev

\* Skipped without an event.
ActorSkips ==
    /\ worker = "up" /\ batch # <<>> /\ Obsolete
    /\ batch' = Tail(batch)
    /\ UNCHANGED <<restoreVars, composer, saved, saveVars, nextOp, drawn, appVars, refused, queue, events,
                   worker, mail, diskVars, asked>>

\* What an operation does to the directory of its draft.
Perform(op) ==
    CASE op.kind = "save" ->
            /\ stored' = [stored EXCEPT ![op.id] = op.version]
            /\ unsaved' = unsaved \ {op.id}
            /\ UNCHANGED <<staged, litter>>
      [] op.kind = "delete" ->
            /\ stored' = [stored EXCEPT ![op.id] = None]
            /\ staged' = [staged EXCEPT ![op.id] = {}]
            /\ unsaved' = unsaved \ {op.id}
            /\ UNCHANGED litter
      [] op.kind = "stage" ->
            /\ staged' = [staged EXCEPT ![op.id] = @ \cup {op.file}]
            /\ UNCHANGED <<stored, unsaved, litter>>
      [] op.kind = "remove" ->
            /\ staged' = [staged EXCEPT ![op.id] = @ \ {op.file}]
            /\ UNCHANGED <<stored, unsaved, litter>>
      [] OTHER -> UNCHANGED diskVars

\* A deletion may fail half way, and a staging may leave what it had copied: then a
\* file is on disk that no draft refers to.
FailHalfWay(op) ==
    CASE op.kind = "save" -> unsaved' = unsaved \cup {op.id} /\ UNCHANGED <<stored, staged, litter>>
      [] op.kind = "delete" ->
            /\ \E rest \in SUBSET staged[op.id] : staged' = [staged EXCEPT ![op.id] = rest]
            /\ \E left \in {stored[op.id], None} : stored' = [stored EXCEPT ![op.id] = left]
            /\ unsaved' = unsaved \cup {op.id}
            /\ UNCHANGED litter
      [] op.kind = "stage" ->
            \/ UNCHANGED diskVars
            \/ /\ staged' = [staged EXCEPT ![op.id] = @ \cup {op.file}]
               /\ litter' = litter \cup {op.file}
               /\ UNCHANGED <<stored, unsaved>>
      [] op.kind = "remove" -> litter' = litter \cup {op.file} /\ UNCHANGED <<stored, staged, unsaved>>
      [] OTHER -> UNCHANGED diskVars

Reply(kind, op) == events' = Append(events, [kind |-> kind, op |-> op, drafts |-> None])

ActorRuns ==
    /\ worker = "up" /\ batch # <<>> /\ ~Obsolete
    /\ batch' = Tail(batch)
    /\ LET op == Head(batch) IN
          \/ /\ Perform(op)
             /\ IF op.kind = "load"
                THEN events' = Append(events, [kind |-> "loaded", op |-> op, drafts |-> stored])
                ELSE Reply("done", op)
          \/ FailHalfWay(op) /\ Reply("failed", op)
    /\ UNCHANGED <<restoreVars, composer, saved, saveVars, nextOp, drawn, appVars, refused, queue,
                   worker, mail, asked>>

\* materialize_submission reads the staged files; SMTP accepts, refuses or is
\* cut off by the timeout.
MailSettles ==
    /\ worker = "up" /\ mail # None
    /\ mail' = None
    /\ \/ /\ composer.version.files \subseteq staged[composer.id]
          /\ Reply(IF mail = "message" THEN "sent" ELSE "accountSent", None)
       \/ Reply("sendFailed", None)
    /\ UNCHANGED <<restoreVars, composer, saved, saveVars, nextOp, drawn, appVars, refused, queue,
                   batch, worker, diskVars, asked>>

\* Shutdown ends the controller, which aborts the draft actor.
ShutDown ==
    /\ worker = "up" /\ window = "closed"
    /\ worker' = "stopped" /\ queue' = <<>> /\ batch' = <<>> /\ mail' = None
    /\ UNCHANGED <<restoreVars, composer, saved, saveVars, nextOp, drawn, appVars, refused, events,
                   diskVars, asked>>

WorkerDies ==
    /\ WorkerMayDie /\ worker = "up" /\ window = "open"
    /\ worker' = "dead" /\ hangup' = "due" /\ queue' = <<>> /\ batch' = <<>> /\ mail' = None
    /\ UNCHANGED <<restoreVars, composer, saved, saveVars, nextOp, drawn, window, refused, events,
                   diskVars, asked>>

-----------------------------------------------------------------------------
(* Events, handled by the reducer in order.                                 *)

Receive(kind) ==
    /\ UserActs /\ events # <<>> /\ Head(events).kind = kind
    /\ events' = Tail(events)
    /\ UNCHANGED <<appVars, workerVars, diskVars, asked>>

ReceiveDone(kind) == Receive("done") /\ Head(events).op.kind = kind /\ UNCHANGED generation

\* finish_local_restore: once both parts are there, what waited for the drafts
\* goes on.
FinishRestore(drafts) ==
    /\ catalog' = "ready" /\ intent' = "none"
    /\ \/ /\ intent = "none"
          /\ saved' = drafts
          /\ UNCHANGED <<composer, saveVars, nextOp, drawn, refused, queue>>
       \/ /\ intent = "resume"
          /\ saved' = drafts
          /\ \/ \E d \in Drafts : /\ drafts[d] # None
                                  /\ composer' = [mode |-> "editing", id |-> d, version |-> drafts[d]]
             \/ (\A d \in Drafts : drafts[d] = None) /\ UNCHANGED composer
          /\ UNCHANGED <<saveVars, nextOp, drawn, refused, queue>>
       \/ /\ intent = "compose"
          /\ \E d \in unused :
                /\ unused' = unused \ {d}
                /\ composer' = [mode |-> "editing", id |-> d, version |-> [rev |-> 0, files |-> {}]]
                /\ saved' = [drafts EXCEPT ![d] = [rev |-> 0, files |-> {}]]
                /\ latest' = nextOp /\ saveState' = "saving"
                /\ Submit(<<Op(0, "save", d, [rev |-> 0, files |-> {}], None)>>)
          /\ UNCHANGED <<pendingClose, staging, fresh>>

Restoring(drafts, done) ==
    IF catalog = "loading" /\ done
    THEN FinishRestore(drafts)
    ELSE saved' = drafts /\ UNCHANGED <<catalog, intent, composer, saveVars, nextOp, drawn, refused, queue>>

OnDraftsLoaded ==
    /\ Receive("loaded")
    /\ loadOp = Head(events).op.n
    /\ loadOp' = None
    /\ Restoring(Head(events).drafts, signatureOp = None)
    /\ UNCHANGED <<generation, signatureOp>>

\* Mutated: only the drafts finish a restoration.
OnSignatureLoadedOnly ==
    /\ ReceiveDone("signature")
    /\ signatureOp = Head(events).op.n
    /\ signatureOp' = None
    /\ UNCHANGED <<catalog, intent, loadOp, composer, saved, saveVars, nextOp, drawn, refused, queue>>

OnSignatureLoaded ==
    /\ ReceiveDone("signature")
    /\ signatureOp = Head(events).op.n
    /\ signatureOp' = None
    /\ Restoring(saved, loadOp = None)
    /\ UNCHANGED loadOp

\* The answer to a restoration that was retried since.
DropStaleRestore ==
    /\ \/ Receive("loaded") /\ loadOp # Head(events).op.n
       \/ Receive("done") /\ Head(events).op.kind = "signature" /\ signatureOp # Head(events).op.n
    /\ UNCHANGED <<restoreVars, composer, saved, saveVars, nextOp, drawn, refused, queue>>

\* Mutated: whichever save is acknowledged releases a pending close.
OnDraftSavedAny ==
    LET op == Head(events).op IN
    /\ UserActs /\ events # <<>> /\ Head(events).kind = "done" /\ op.kind = "save"
    /\ events' = Tail(events)
    /\ latest' = IF latest = op.n THEN None ELSE latest
    /\ saveState' = IF latest = op.n THEN "saved" ELSE saveState
    /\ \/ pendingClose # None /\ pendingClose' = None /\ composer' = Closed /\ window' = "closed"
       \/ pendingClose = None /\ UNCHANGED <<pendingClose, composer, window>>
    /\ UNCHANGED <<restoreVars, saved, staging, nextOp, drawn, hangup, refused, queue, workerVars, diskVars, asked>>

OnDraftSaved ==
    LET op == Head(events).op
        raised == [saved[op.id] EXCEPT !.rev = IF op.version.rev > @ THEN op.version.rev ELSE @] IN
    /\ UserActs /\ events # <<>> /\ Head(events).kind = "done" /\ op.kind = "save"
    /\ events' = Tail(events)
    /\ saved' = IF saved[op.id] = None THEN saved ELSE [saved EXCEPT ![op.id] = raised]
    /\ latest' = IF latest = op.n THEN None ELSE latest
    /\ saveState' = IF latest = op.n THEN "saved" ELSE saveState
    /\ \/ pendingClose = op.n /\ pendingClose' = None /\ composer' = Closed /\ window' = "closed"
       \/ pendingClose # op.n /\ UNCHANGED <<pendingClose, composer, window>>
    /\ UNCHANGED <<restoreVars, staging, nextOp, drawn, hangup, refused, queue, workerVars, diskVars, asked>>

OnDraftDeleted ==
    /\ ReceiveDone("delete")
    /\ saved' = [saved EXCEPT ![Head(events).op.id] = None]
    /\ UNCHANGED <<restoreVars, composer, saveVars, nextOp, drawn, refused, queue>>

OnStagedRemoved ==
    /\ ReceiveDone("remove")
    /\ UNCHANGED <<restoreVars, composer, saved, saveVars, nextOp, drawn, refused, queue>>

\* Mutated: the change of the draft is not saved.
OnAttachmentStagedUnsaved ==
    LET op == Head(events).op IN
    /\ ReceiveDone("stage")
    /\ staging' = staging \ {op.n}
    /\ composer' = IF ComposerOpen /\ composer.id = op.id
                   THEN Recomposed(Changed(composer.version.files \cup {op.file})) ELSE composer
    /\ saved' = IF ComposerOpen /\ composer.id = op.id THEN [saved EXCEPT ![op.id] = composer'.version] ELSE saved
    /\ UNCHANGED <<restoreVars, latest, saveState, pendingClose, nextOp, drawn, refused, queue>>

\* The composer adds the file to its draft, or the file is removed again.
OnAttachmentStaged ==
    LET op == Head(events).op
        version == Changed(composer.version.files \cup {op.file}) IN
    /\ ReceiveDone("stage")
    /\ staging' = staging \ {op.n}
    /\ \/ /\ ComposerOpen /\ composer.id = op.id
          /\ composer' = Recomposed(version)
          /\ QueueSave(op.id, version)
       \/ /\ ~(ComposerOpen /\ composer.id = op.id)
          /\ Submit(<<Op(0, "remove", op.id, None, op.file)>>)
          /\ UNCHANGED <<composer, saved, latest, saveState>>
    /\ UNCHANGED <<restoreVars, pendingClose, drawn>>

OnDraftOperationFailed ==
    LET op == Head(events).op IN
    /\ Receive("failed")
    /\ \/ op.gen # generation /\ UNCHANGED <<restoreVars, saveVars>>
       \/ /\ op.gen = generation /\ op.n \in {loadOp, signatureOp}
          /\ catalog' = "failed"
          /\ loadOp' = IF loadOp = op.n THEN None ELSE loadOp
          /\ signatureOp' = IF signatureOp = op.n THEN None ELSE signatureOp
          /\ UNCHANGED <<intent, generation, saveVars>>
       \/ /\ op.gen = generation /\ op.n \in staging
          /\ staging' = staging \ {op.n}
          /\ UNCHANGED <<restoreVars, latest, saveState, pendingClose>>
       \/ /\ op.gen = generation /\ op.n \notin staging \cup {loadOp, signatureOp}
          /\ latest' = IF latest = op.n THEN None ELSE latest
          /\ saveState' = IF latest = op.n THEN "failed" ELSE saveState
          /\ pendingClose' = IF pendingClose = op.n THEN None ELSE pendingClose
          /\ UNCHANGED <<restoreVars, staging>>
    /\ UNCHANGED <<composer, saved, nextOp, drawn, refused, queue>>

\* A message sent by the signed-in session takes its draft with it.
OnMessageSent ==
    /\ Receive("sent")
    /\ \/ /\ composer.mode = "sending"
          /\ composer' = Closed
          /\ saved' = [saved EXCEPT ![composer.id] = None]
          /\ Submit(<<Op(0, "delete", composer.id, None, None)>>)
       \/ composer.mode # "sending" /\ UNCHANGED <<composer, saved, nextOp, refused, queue>>
    /\ UNCHANGED <<restoreVars, saveVars, drawn>>

OnAccountMessageSent ==
    /\ Receive("accountSent")
    /\ composer' = IF composer.mode = "sending" THEN Closed ELSE composer
    /\ UNCHANGED <<restoreVars, saved, saveVars, nextOp, drawn, refused, queue>>

\* Mutated: the failure is only announced.
OnMessageSendFailedIgnored ==
    /\ Receive("sendFailed")
    /\ UNCHANGED <<restoreVars, composer, saved, saveVars, nextOp, drawn, refused, queue>>

OnMessageSendFailed ==
    /\ Receive("sendFailed")
    /\ composer' = IF composer.mode = "sending" THEN [composer EXCEPT !.mode = "failed"] ELSE composer
    /\ UNCHANGED <<restoreVars, saved, saveVars, nextOp, drawn, refused, queue>>

\* Action::WorkerUnavailable, after a send that failed and once the channel of
\* events has ended.  Its condition takes the pending close only when no save is
\* outstanding, and the pending signature only when no load is.
OnWorkerUnavailable ==
    /\ window = "open"
    /\ refused \/ (hangup = "due" /\ events = <<>>)
    /\ IF refused THEN refused' = FALSE /\ UNCHANGED hangup ELSE hangup' = "seen" /\ UNCHANGED refused
    /\ composer' = IF composer.mode = "sending" THEN [composer EXCEPT !.mode = "failed"] ELSE composer
    /\ latest' = None
    /\ pendingClose' = IF latest # None THEN pendingClose ELSE None
    /\ IF latest # None \/ pendingClose # None \/ staging # {}
       THEN staging' = {} /\ saveState' = "failed"
       ELSE UNCHANGED <<staging, saveState>>
    /\ loadOp' = None
    /\ signatureOp' = IF loadOp # None THEN signatureOp ELSE None
    /\ catalog' = IF loadOp # None \/ signatureOp # None THEN "failed" ELSE catalog
    /\ UNCHANGED <<intent, generation, saved, nextOp, drawn, window, queue, events, workerVars, diskVars, asked>>

-----------------------------------------------------------------------------
User ==
    \/ EnsureLocalRestore \/ RetryDraftRestore
    \/ \E what \in {"compose", "resume"} : WaitForRestore(what)
    \/ \E d \in Drafts : BeginCompose(d) \/ ResumeDraft(d)
    \/ Edit \/ \E f \in Files : StageAttachment(f) \/ RemoveAttachment(f)
    \/ HideComposer \/ CloseOverDraft \/ CloseWindow
    \/ SendMessage \/ ConfirmResend \/ DiscardDraft

Actor == ActorReceives \/ ActorSkips \/ ActorRuns

HandleEvent ==
    \/ OnDraftsLoaded \/ OnSignatureLoaded \/ DropStaleRestore
    \/ OnDraftSaved \/ OnDraftDeleted \/ OnAttachmentStaged \/ OnStagedRemoved \/ OnDraftOperationFailed
    \/ OnMessageSent \/ OnAccountMessageSent \/ OnMessageSendFailed
    \/ OnWorkerUnavailable

Next == User \/ Actor \/ MailSettles \/ HandleEvent \/ ShutDown \/ WorkerDies

\* The worker thread and the GTK loop run on; SMTP is bounded by a timeout.  No
\* user ever has to act.
Fairness == WF_vars(Actor) /\ WF_vars(HandleEvent) /\ WF_vars(MailSettles)

Spec == Init /\ [][Next]_vars
FairSpec == Spec /\ Fairness

-----------------------------------------------------------------------------
(* Safety.                                                                  *)

Quiet == /\ worker = "up" /\ window = "open" /\ ~refused
         /\ queue = <<>> /\ batch = <<>> /\ events = <<>>

\* Once everything is answered, the drafts Whitford lists are the drafts on disk,
\* in their last revision: no discarded or sent draft is written back, no later
\* revision is overtaken by an earlier one, whatever a batch skipped.
ListedDraftsAreStored ==
    Quiet /\ catalog = "ready" => \A d \in Drafts \ unsaved : stored[d] = saved[d]

\* And the staged files on disk are those the drafts refer to, however staging,
\* removing, discarding and closing interleave: no attachment is missing, and none is
\* left behind but what a failed staging or removal left (litter), which stays in the
\* draft's directory, and counts against MAX_STAGED_FILES, until the draft is deleted.
StagedFilesAreReferenced ==
    Quiet => \A d \in Drafts \ unsaved :
                staged[d] \ litter = IF stored[d] = None THEN {} ELSE stored[d].files

\* "Saved on this device" is shown over a draft only when the disk holds exactly
\* what the composer shows (state.rs, DraftSaved).
SavedMeansStored ==
    saveState = "saved" /\ ComposerOpen /\ composer.id \notin unsaved
        => stored[composer.id] = composer.version

\* A draft being composed or sent has all its files, also while the actor works on
\* earlier operations: materialize_submission never misses one.
OpenDraftHasItsFiles ==
    composer # Closed /\ composer.id \notin unsaved => composer.version.files \subseteq staged[composer.id]

\* The window closes over an open draft only when the disk holds that draft as it
\* was when the close was asked for, or in a later revision.
ClosesOverStoredDraft ==
    [][window = "open" /\ window' = "closed" /\ composer # Closed
        => /\ stored[asked.id] # None
           /\ stored[asked.id].rev >= asked.version.rev]_vars

-----------------------------------------------------------------------------
(* Liveness.                                                                *)

\* A restoration ends, with or without the worker.
RestoreSettles == (catalog = "loading") ~> (catalog # "loading" \/ window = "closed")

\* A save the user waits for is acknowledged or reported, although the actor
\* skips saves without an event.
SaveSettles == (saveState = "saving") ~> (saveState # "saving" \/ window = "closed")

\* Sending and closing are refused while a file is being staged, and editing while
\* a message is being sent: neither may last.
ComposerIsReleased ==
    /\ (staging # {}) ~> (staging = {} \/ window = "closed")
    /\ (composer.mode = "sending") ~> (composer.mode # "sending")

-----------------------------------------------------------------------------
(* What the program does not keep.                                          *)

Awaited(n) ==
    \/ \E i \in 1..Len(queue) : queue[i].n = n
    \/ \E i \in 1..Len(batch) : batch[i].n = n
    \/ \E i \in 1..Len(events) : events[i].op # None /\ events[i].op.n = n

\* hide_composer, state.rs:5098-5100: a draft never traps the user, so a pending
\* close that locks the composer is one whose save will still be answered.
\* Violated: a later save of the same draft in one batch makes it obsolete.
PendingCloseIsAnswered == pendingClose # None /\ worker = "up" => Awaited(pendingClose)

\* README.md:94: Escape, Save & Close and window close save the draft on this
\* device.  Violated: Shutdown aborts the actor with the save still queued.
ClosingSavesDrafts ==
    worker = "stopped" => \A d \in Drafts \ unsaved : saved[d] # None => stored[d] = saved[d]
=============================================================================
