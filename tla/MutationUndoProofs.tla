-------------------------- MODULE MutationUndoProofs --------------------------
(* What TLAPS proves about MutationUndo, for any messages, folders, flags     *)
(* and bounds.                                                                *)
EXTENDS MutationUndo, TLAPS

-----------------------------------------------------------------------------
(* The operators keep their types *)

GmailStates == States \cup {Gone}
MaybeRows == Rows \cup {NoRow}
ViewRows == [Views -> ListRows]

LEMMA StateType ==
  ASSUME NEW s \in States
  PROVE  /\ \A f \in Flags : s.flags[f] \in BOOLEAN
         /\ s.flags \in [Flags -> BOOLEAN] /\ s.inbox \in BOOLEAN /\ s.trash \in BOOLEAN
  BY DEF States

LEMMA RowType ==
  ASSUME NEW row \in MaybeRows, row # NoRow
  PROVE  row \in Rows /\ row.folder \in Folders /\ row.state \in States
  BY DEF MaybeRows, Rows

LEMMA EffectType ==
  ASSUME NEW s \in States, NEW mut \in Mutations
  PROVE  Effect(mut, s) \in States /\ FirstStore(mut, s) \in States
  <1>0. "label" \in Flags
    BY FolderAssumption
  <1>1. CASE mut.kind = "Set"
    <2>1. mut.flag \in Flags /\ mut.on \in BOOLEAN
      BY <1>1 DEF Mutations, Changes, Removals
    <2> QED  BY <1>1, <2>1 DEF Effect, FirstStore, States
  <1>2. CASE mut.kind = "RestoreFromTrash"
    <2>1. mut.inbox \in BOOLEAN /\ mut.label \in BOOLEAN
      BY <1>2 DEF Mutations, Changes, Removals
    <2>2. (s.inbox \/ mut.inbox) \in BOOLEAN /\ (s.flags["label"] \/ mut.label) \in BOOLEAN
      OBVIOUS
    <2>3. Effect(mut, s) \in States
      BY <1>0, <1>2, <2>2 DEF Effect, States
    <2> QED  BY <1>2, <2>3 DEF FirstStore, States
  <1>3. CASE mut.kind \in {"Archive", "MoveToTrash", "RestoreArchive"}
    BY <1>0, <1>3 DEF Effect, FirstStore, States
  <1>4. mut.kind \in {"Set", "Archive", "MoveToTrash", "RestoreArchive", "RestoreFromTrash"}
    BY DEF Mutations, Changes, Removals
  <1> QED  BY <1>1, <1>2, <1>3, <1>4

LEMMA ListingType ==
  ASSUME gmail \in [Messages -> GmailStates], NEW f \in Folders
  PROVE  Listing(f) \in ListRows
  BY DEF Listing, ListRows, GmailStates, Rows

LEMMA RestoreRowsType ==
  ASSUME rows \in ViewRows, NEW m \in Messages, NEW taken \in SUBSET Taken
  PROVE  RestoreRows(m, taken) \in ViewRows
  BY DEF RestoreRows, ViewRows, ListRows, Taken

LEMMA SetFlagType ==
  ASSUME rows \in ViewRows, NEW m \in Messages, NEW flag \in Flags, NEW on \in BOOLEAN
  PROVE  SetFlag(m, flag, on) \in ViewRows
  <1>1. ASSUME NEW row \in Rows PROVE [row EXCEPT !.state.flags[flag] = on] \in Rows
    BY DEF Rows, States
  <1> QED  BY <1>1 DEF SetFlag, ViewRows, ListRows

LEMMA RemoveType ==
  ASSUME rows \in ViewRows, NEW m \in Messages, NEW mut
  PROVE  RemoveFromViews(m, mut) \in ViewRows /\ RemoveFromAllViews(m) \in ViewRows
  BY DEF RemoveFromViews, RemoveFromAllViews, ViewRows, ListRows

LEMMA ReconcileType ==
  ASSUME rows \in ViewRows, NEW m \in Messages, NEW taken \in SUBSET Taken, NEW s \in States
  PROVE  Reconcile(m, taken, s) \in ViewRows
  <1> DEFINE now == {t \in {[u EXCEPT !.row.state = s] : u \in taken} : Belongs(t.row)}
             restored == RestoreRows(m, now)
             applied == [v \in Views |->
                 [restored[v] EXCEPT ![m] = IF @ = NoRow THEN @ ELSE [@ EXCEPT !.state = s]]]
  <1>1. now \in SUBSET Taken
    BY DEF Taken, Rows
  <1>2. restored \in ViewRows
    BY <1>1, RestoreRowsType
  <1>3. applied \in ViewRows
    <2> HIDE DEF restored
    <2>1. ASSUME NEW row \in Rows PROVE [row EXCEPT !.state = s] \in Rows
      BY DEF Rows
    <2> QED  BY <1>2, <2>1 DEF ViewRows, ListRows
  <1> HIDE DEF applied
  <1>4. [v \in Views |-> [n \in Messages |->
           IF applied[v][n] # NoRow /\ Belongs(applied[v][n]) THEN applied[v][n] ELSE NoRow]] \in ViewRows
    BY <1>3 DEF ViewRows, ListRows
  <1> QED  BY <1>4 DEF Reconcile, applied, restored, now

LEMMA MutateType ==
  ASSUME NEW req \in Nat, NEW g \in Nat, NEW m \in Messages, NEW mut \in Mutations
  PROVE  Mutate(req, g, m, mut) \in MutateCommands
  BY DEF Mutate, MutateCommands

LEMMA OfferedType ==
  ASSUME NEW row \in Rows, NEW mut \in Offered(row)
  PROVE  /\ mut \in Changes
         /\ ~Removes(mut) => mut.kind = "Set" /\ mut.flag \in Flags /\ mut.on \in BOOLEAN
  <1>1. CASE mut \in {Archive, MoveToTrash}
    BY <1>1 DEF Changes, Removals, Archive, MoveToTrash, Removes
  <1>2. CASE \E flag \in Flags : mut = Toggle(row, flag)
    <2>1. PICK flag \in Flags : mut = Toggle(row, flag)
      BY <1>2
    <2>2. (~row.state.flags[flag]) \in BOOLEAN
      OBVIOUS
    <2> QED  BY <2>1, <2>2 DEF Toggle, Changes, Removals, Removes
  <1> QED  BY <1>1, <1>2 DEF Offered

LEMMA TakenType ==
  ASSUME rows \in ViewRows, NEW m \in Messages, NEW mut
  PROVE  TakenRows(m, mut) \in SUBSET Taken
  BY DEF TakenRows, Taken, ViewRows, ListRows

LEMMA InverseType ==
  ASSUME NEW u \in Undo
  PROVE  Inverse(u) \in Mutations
  <1>1. (\E t \in u.taken : t.row.state.inbox) \in BOOLEAN /\ LabelOf(u.taken) \in BOOLEAN
    BY DEF LabelOf
  <1> QED  BY <1>1 DEF Inverse, RestoreFromTrash, Mutations

LEMMA ActiveUndo ==
  ASSUME undo \in Undo \cup {NoUndo}, undo.phase # "None"
  PROVE  /\ undo \in Undo /\ undo.msg \in Messages /\ undo.taken \in SUBSET Taken
         /\ undo.req \in Nat /\ undo.forward \in Removals /\ undo.requested \in BOOLEAN
  BY DEF Undo, NoUndo

LEMMA DispatchUndoType ==
  ASSUME TypeOK, undo.phase # "None", DispatchUndo
  PROVE  /\ rows' \in ViewRows /\ undo' \in Undo /\ nextRequest' \in Nat
         /\ mutations' \in Seq(MutateCommands)
  <1>1. /\ rows \in ViewRows /\ nextRequest \in Nat /\ generation \in Nat
        /\ mutations \in Seq(MutateCommands) /\ undo \in Undo \cup {NoUndo}
    BY DEF TypeOK, ViewRows
  <1>2. undo \in Undo /\ undo.msg \in Messages /\ undo.taken \in SUBSET Taken
    BY <1>1, ActiveUndo
  <1>3. rows' \in ViewRows
    BY <1>1, <1>2, RestoreRowsType DEF DispatchUndo
  <1>4. Mutate(nextRequest, generation, undo.msg, Inverse(undo)) \in MutateCommands
    BY <1>1, <1>2, InverseType, MutateType
  <1>5. undo' \in Undo
    BY <1>1, <1>2 DEF DispatchUndo, Undo
  <1> QED  BY <1>1, <1>3, <1>4, <1>5 DEF DispatchUndo

-----------------------------------------------------------------------------
(* TypeOK *)

LEMMA InitType == Init => TypeOK
  <1> SUFFICES ASSUME Init PROVE TypeOK
    OBVIOUS
  <1>1. gmail \in [Messages -> GmailStates] /\ "Inbox" \in Folders
    BY FolderAssumption DEF Init, GmailStates, States
  <1>2. Listing("Inbox") \in ListRows /\ NoRows \in ListRows
    BY <1>1, ListingType DEF NoRows, ListRows
  <1>3. rows \in [Views -> ListRows]
    BY <1>2 DEF Init
  <1>4. load \in [req : Nat, folder : Folders]
    BY <1>1 DEF Init, NoLoad
  <1>5. mutations \in Seq(MutateCommands) /\ events \in Seq(AnswerEvents \cup LoadEvents)
    BY DEF Init
  <1>6. selected \in Folders /\ searching \in BOOLEAN /\ lost \subseteq Nat /\ pending \subseteq Pending
    BY <1>1 DEF Init
  <1>7. nextRequest \in Nat /\ generation \in Nat /\ activeLoad \in Nat /\ nextLoad \in Nat /\ gate \in Nat
    BY DEF Init
  <1>8. undo = NoUndo /\ job = NoJob
    BY DEF Init
  <1> QED  BY <1>1, <1>3, <1>4, <1>5, <1>6, <1>7, <1>8 DEF TypeOK, GmailStates

\* What TypeOK says of the parts that an answer, and only an answer, may change.
ListsOK ==
    /\ rows \in ViewRows /\ pending \subseteq Pending /\ undo \in Undo \cup {NoUndo}
    /\ nextRequest \in Nat /\ mutations \in Seq(MutateCommands)

LEMMA MutateSelectedType ==
  ASSUME TypeOK, NEW m \in Messages, NEW mut \in Changes, MutateSelected(m, mut)
  PROVE  TypeOK'
  <1> DEFINE taken == IF Removes(mut) THEN TakenRows(m, mut) ELSE {}
             p == [msg |-> m, mut |-> mut, req |-> nextRequest, origin |-> selected,
                   was |-> ~Removes(mut) /\ Visible[m].state.flags[mut.flag], taken |-> taken]
  <1>1. /\ rows \in ViewRows /\ nextRequest \in Nat /\ generation \in Nat /\ selected \in Folders
        /\ mutations \in Seq(MutateCommands) /\ undo \in Undo \cup {NoUndo} /\ pending \subseteq Pending
    BY DEF TypeOK, ViewRows
  <1>2. Visible[m] \in MaybeRows /\ Visible[m] # NoRow
    BY <1>1 DEF MutateSelected, Visible, ViewRows, Views, ListRows, MaybeRows
  <1>3. Visible[m] \in Rows
    BY <1>2, RowType
  <1>4. ~Removes(mut) => mut.kind = "Set" /\ mut.flag \in Flags /\ mut.on \in BOOLEAN
    BY <1>3, OfferedType DEF MutateSelected
  <1>5. taken \in SUBSET Taken
    BY <1>1, TakenType
  <1>6. p \in Pending
    <2>1. (~Removes(mut) /\ Visible[m].state.flags[mut.flag]) \in BOOLEAN
      OBVIOUS
    <2> HIDE DEF taken
    <2> QED  BY <1>1, <1>5, <2>1 DEF Pending
  <1>7. rows' \in ViewRows
    <2>1. CASE Removes(mut)
      BY <1>1, <2>1, RemoveType DEF MutateSelected
    <2>2. CASE ~Removes(mut)
      BY <1>1, <1>4, <2>2, SetFlagType DEF MutateSelected
    <2> QED  BY <2>1, <2>2
  <1>8. pending' \subseteq Pending
    BY <1>1, <1>6 DEF MutateSelected
  <1>9. undo' \in Undo \cup {NoUndo}
    <2>1. CASE Removes(mut)
      <3>1. undo' = [phase |-> "ForwardPending", msg |-> m, forward |-> mut, taken |-> taken,
                     req |-> nextRequest, requested |-> FALSE]
        BY <2>1 DEF MutateSelected
      <3>2. mut \in Removals
        BY <2>1 DEF Removes, Changes, Removals
      <3> HIDE DEF taken
      <3> QED  BY <1>1, <1>5, <3>1, <3>2 DEF Undo
    <2>2. CASE ~Removes(mut)
      BY <1>1, <2>2 DEF MutateSelected
    <2> QED  BY <2>1, <2>2
  <1>10. mutations' \in Seq(MutateCommands)
    BY <1>1, MutateType DEF MutateSelected, Mutations
  <1>11. nextRequest' \in Nat
    BY <1>1 DEF MutateSelected
  <1> QED  BY <1>7, <1>8, <1>9, <1>10, <1>11 DEF MutateSelected, TypeOK, ViewRows, workerVars

LEMMA UndoMessageOperationType ==
  ASSUME TypeOK, UndoMessageOperation
  PROVE  TypeOK'
  <1>1. rows \in ViewRows /\ undo \in Undo \cup {NoUndo} /\ pending \subseteq Pending
    BY DEF TypeOK, ViewRows
  <1>2. rows' \in ViewRows /\ undo' \in Undo /\ nextRequest' \in Nat /\ mutations' \in Seq(MutateCommands)
    <2>1. CASE undo.phase = "Available" /\ DispatchUndo
      BY <2>1, DispatchUndoType
    <2>2. CASE /\ undo.phase = "ForwardPending" /\ rows' = RestoreRows(undo.msg, undo.taken)
               /\ undo' = [undo EXCEPT !.requested = TRUE] /\ UNCHANGED <<nextRequest, mutations>>
      <3>1. undo \in Undo /\ undo.msg \in Messages /\ undo.taken \in SUBSET Taken
        BY <1>1, <2>2, ActiveUndo
      <3>2. undo' \in Undo
        BY <2>2, <3>1 DEF Undo
      <3>3. rows' \in ViewRows
        BY <1>1, <2>2, <3>1, RestoreRowsType
      <3> QED  BY <2>2, <3>2, <3>3 DEF TypeOK
    <2> QED  BY <2>1, <2>2 DEF UndoMessageOperation
  <1> QED  BY <1>1, <1>2 DEF UndoMessageOperation, TypeOK, ViewRows, workerVars

LEMMA ViewType ==
  ASSUME TypeOK, (\E f \in Folders : LoadFolder(f)) \/ Search \/ CloseSearch \/ ClearBodyCache
  PROVE  TypeOK'
  <1>1. rows \in ViewRows /\ nextLoad \in Nat /\ generation \in Nat /\ gmail \in [Messages -> GmailStates]
    BY DEF TypeOK, ViewRows, GmailStates
  <1>2. NoRows \in ListRows
    BY DEF NoRows, ListRows
  <1>3. ASSUME NEW f \in Folders, LoadFolder(f) PROVE TypeOK'
    <2>1. rows' \in ViewRows
      BY <1>1, <1>2, <1>3 DEF LoadFolder, ViewRows
    <2>2. load' \in [req : Nat, folder : Folders]
      BY <1>1, <1>3 DEF LoadFolder
    <2>3. activeLoad' \in Nat /\ nextLoad' \in Nat
      BY <1>1, <1>3 DEF LoadFolder
    <2>4. selected' \in Folders /\ searching' \in BOOLEAN
      BY <1>3 DEF LoadFolder
    <2>5. UNCHANGED <<pending, undo, nextRequest, generation, mutations, events, gate, job, gmail, lost>>
      BY <1>3 DEF LoadFolder
    <2> QED  BY <2>1, <2>2, <2>3, <2>4, <2>5 DEF TypeOK, ViewRows
  <1>4. CASE Search
    <2>1. Listing("AllMail") \in ListRows
      BY <1>1, <1>4, ListingType DEF Search
    <2>2. rows' \in ViewRows
      BY <1>1, <1>4, <2>1 DEF Search, ViewRows, Views
    <2> QED  BY <1>1, <1>4, <2>2 DEF Search, TypeOK, ViewRows, workerVars
  <1>5. CASE CloseSearch
    <2>1. rows' \in ViewRows
      BY <1>1, <1>2, <1>5 DEF CloseSearch, ViewRows, Views
    <2> QED  BY <1>5, <2>1 DEF CloseSearch, TypeOK, ViewRows, workerVars
  <1>6. CASE ClearBodyCache
    <2>1. lost' \subseteq Nat
      <3>1. {p.req : p \in pending} \subseteq Nat
        BY DEF TypeOK, Pending
      <3>2. undo.phase \in {"ForwardPending", "UndoPending"} => undo.req \in Nat
        BY ActiveUndo DEF TypeOK
      <3> QED  BY <1>6, <3>1, <3>2 DEF ClearBodyCache, TypeOK
    <2> QED  BY <1>1, <1>6, <2>1 DEF ClearBodyCache, TypeOK, workerVars
  <1> QED  BY <1>3, <1>4, <1>5, <1>6

LEMMA AnswerFacts ==
  ASSUME NEW e \in AnswerEvents
  PROVE  /\ e.type = "Answer" /\ e.req \in Nat /\ e.gen \in Nat /\ e.msg \in Messages
         /\ e.result \in Results /\ e.state \in GmailStates
  BY DEF AnswerEvents, GmailStates

LEMMA PendingFacts ==
  ASSUME NEW p \in Pending
  PROVE  /\ p.msg \in Messages /\ p.mut \in Changes /\ p.req \in Nat /\ p.origin \in Folders
         /\ p.was \in BOOLEAN /\ p.taken \in SUBSET Taken
  BY DEF Pending

LEMMA RowsAfterType ==
  ASSUME TypeOK, NEW p \in pending, NEW e \in AnswerEvents
  PROVE  RowsAfter(p, e) \in ViewRows
  <1>1. /\ rows \in ViewRows /\ p \in Pending
    BY DEF TypeOK, ViewRows
  <1>2. /\ p.msg \in Messages /\ p.mut \in Changes /\ p.was \in BOOLEAN /\ p.taken \in SUBSET Taken
    BY <1>1, PendingFacts
  <1>3. RemoveFromViews(p.msg, p.mut) \in ViewRows /\ RemoveFromAllViews(p.msg) \in ViewRows
    BY <1>1, <1>2, RemoveType
  <1>4. RestoreRows(p.msg, p.taken) \in ViewRows
    BY <1>1, <1>2, RestoreRowsType
  <1>5. ~Removes(p.mut) => SetFlag(p.msg, p.mut.flag, p.was) \in ViewRows
    <2>1. ~Removes(p.mut) => p.mut.flag \in Flags
      BY <1>2 DEF Changes, Removals, Removes
    <2> QED  BY <1>1, <1>2, <2>1, SetFlagType
  <1>6. e.state # Gone => Reconcile(p.msg, p.taken, e.state) \in ViewRows
    BY <1>1, <1>2, AnswerFacts, ReconcileType DEF GmailStates
  <1> QED  BY <1>1, <1>3, <1>4, <1>5, <1>6 DEF RowsAfter

LEMMA DeliverAnswerType ==
  ASSUME TypeOK, NEW e \in AnswerEvents, DeliverAnswer(e)
  PROVE  ListsOK'
  <1>1. /\ rows \in ViewRows /\ undo \in Undo \cup {NoUndo} /\ pending \subseteq Pending
        /\ nextRequest \in Nat /\ mutations \in Seq(MutateCommands)
    BY DEF TypeOK, ViewRows
  <1>2. e.msg \in Messages /\ e.state \in GmailStates
    BY AnswerFacts
  <1>3. CASE IgnoreAnswer
    BY <1>1, <1>3 DEF IgnoreAnswer, ListsOK
  <1>4. CASE IsUndo(e) /\ FinishUndoMutation(e)
    <2>1. undo \in Undo /\ undo.taken \in SUBSET Taken
      BY <1>1, <1>4, ActiveUndo DEF IsUndo
    <2>2. RemoveFromViews(e.msg, undo.forward) \in ViewRows /\ RemoveFromAllViews(e.msg) \in ViewRows
      BY <1>1, <1>2, RemoveType
    <2>3. e.state # Gone => Reconcile(e.msg, undo.taken, e.state) \in ViewRows
      BY <1>1, <1>2, <2>1, ReconcileType DEF GmailStates
    <2>4. rows' \in ViewRows
      BY <1>1, <1>4, <2>2, <2>3 DEF FinishUndoMutation
    <2> QED  BY <1>1, <1>4, <2>4 DEF FinishUndoMutation, ListsOK
  <1>5. ASSUME NEW p \in pending, FinishMutation(p, e) PROVE ListsOK'
    <2>1. pending' \subseteq Pending
      BY <1>1, <1>5 DEF FinishMutation
    <2>2. CASE IsForward(e) /\ DispatchUndo
      <3>1. undo.phase # "None"
        BY <2>2 DEF IsForward
      <3> QED  BY <2>1, <2>2, <3>1, DispatchUndoType DEF ListsOK
    <2>3. CASE undo' = UndoAfter(e) /\ rows' = RowsAfter(p, e) /\ UNCHANGED <<nextRequest, mutations>>
      <3>1. rows' \in ViewRows
        BY <2>3, RowsAfterType
      <3>2. UndoAfter(e) \in Undo \cup {NoUndo}
        <4>1. CASE IsForward(e)
          <5>1. undo \in Undo
            BY <1>1, <4>1, ActiveUndo DEF IsForward
          <5>2. [undo EXCEPT !.phase = "Available"] \in Undo
            BY <5>1 DEF Undo
          <5> QED  BY <4>1, <5>2 DEF UndoAfter
        <4>2. CASE ~IsForward(e)
          BY <1>1, <4>2 DEF UndoAfter
        <4> QED  BY <4>1, <4>2
      <3> QED  BY <1>1, <2>1, <2>3, <3>1, <3>2 DEF ListsOK
    <2> QED  BY <1>5, <2>2, <2>3 DEF FinishMutation
  <1> QED  BY <1>3, <1>4, <1>5 DEF DeliverAnswer, Answered

LEMMA DeliverType ==
  ASSUME TypeOK, Deliver
  PROVE  TypeOK'
  <1>1. /\ Head(events) \in AnswerEvents \cup LoadEvents /\ Tail(events) \in Seq(AnswerEvents \cup LoadEvents)
    BY DEF Deliver, TypeOK
  <1>2. events' \in Seq(AnswerEvents \cup LoadEvents)
    BY <1>1 DEF Deliver
  <1>3. ListsOK' /\ activeLoad' \in Nat
    <2>1. CASE Head(events).type = "Answer" /\ DeliverAnswer(Head(events)) /\ UNCHANGED activeLoad
      <3>1. Head(events) \in AnswerEvents
        BY <1>1, <2>1 DEF LoadEvents
      <3> QED  BY <2>1, <3>1, DeliverAnswerType DEF TypeOK
    <2>2. CASE /\ Head(events).type = "FolderLoaded"
               /\ rows' = [rows EXCEPT !["Folder"] = Head(events).rows] /\ activeLoad' = 0
               /\ UNCHANGED <<pending, undo, nextRequest, mutations>>
      <3>1. Head(events).rows \in ListRows
        BY <1>1, <2>2 DEF AnswerEvents, LoadEvents
      <3>2. rows' \in ViewRows
        BY <2>2, <3>1 DEF TypeOK, ViewRows, Views
      <3> QED  BY <2>2, <3>2 DEF TypeOK, ListsOK
    <2>3. CASE IgnoreAnswer /\ UNCHANGED activeLoad
      BY <2>3 DEF IgnoreAnswer, TypeOK, ListsOK, ViewRows
    <2> QED  BY <2>1, <2>2, <2>3 DEF Deliver
  <1>4. UNCHANGED <<selected, searching, generation, nextLoad, workerVars, gmail, lost>>
    BY DEF Deliver
  <1> QED  BY <1>2, <1>3, <1>4 DEF TypeOK, ListsOK, ViewRows, workerVars

LEMMA JobFacts ==
  ASSUME TypeOK, job.pc \in {"lane", "persist"}
  PROVE  /\ job # NoJob /\ job.cmd \in MutateCommands
         /\ job.cmd.req \in Nat /\ job.cmd.gen \in Nat /\ job.cmd.msg \in Messages /\ job.cmd.mut \in Mutations
         /\ job.pc = "lane" => job \in LaneJobs
         /\ job.pc = "persist" => job \in PersistJobs /\ job.result \in Results /\ job.state \in GmailStates
  <1>1. job \in {NoJob} \cup LaneJobs \cup PersistJobs
    BY DEF TypeOK
  <1>2. job # NoJob
    BY DEF NoJob
  <1>3. job.cmd \in MutateCommands
    BY <1>1, <1>2 DEF LaneJobs, PersistJobs
  <1> QED  BY <1>1, <1>2, <1>3 DEF LaneJobs, PersistJobs, MutateCommands, GmailStates

\* Every end of a change is one of these, with a state of Gmail.
LEMMA OutcomeFacts ==
  ASSUME NEW s \in GmailStates, NEW mut \in Mutations,
         NEW a \in IF s = Gone THEN [state : {Gone}, end : {"Definite", "Uncertain"}] ELSE Attempts(mut, s),
         NEW o \in Outcome(a)
  PROVE  /\ o.state \in GmailStates /\ o.result \in Results
         /\ o.result = "Confirmed" => s # Gone /\ o.state = Effect(mut, s)
         /\ o.result = "Rejected" => o.state = s
         /\ mut.kind = "Set" /\ o.state # Gone =>
               s # Gone /\ o.state.inbox = s.inbox /\ o.state.trash = s.trash
  <1>1. CASE s = Gone
    BY <1>1 DEF Outcome, ReconciledMessage, Results, GmailStates
  <1>2. CASE s # Gone
    <2>1. s \in States
      BY <1>2 DEF GmailStates
    <2>2. Effect(mut, s) \in States /\ FirstStore(mut, s) \in States
      BY <2>1, EffectType
    <2>3. /\ a.state \in States /\ a.end \in {"Definite", "Ok", "Uncertain"}
          /\ a.end = "Definite" => a.state = s
          /\ a.end = "Ok" => a.state = Effect(mut, s)
          /\ a.state \in {s, FirstStore(mut, s), Effect(mut, s)}
      BY <1>2, <2>1, <2>2 DEF Attempts
    <2>4. ASSUME mut.kind = "Set" PROVE a.state.inbox = s.inbox /\ a.state.trash = s.trash
      <3>1. FirstStore(mut, s) = s
        BY <2>4 DEF FirstStore
      <3>2. Effect(mut, s).inbox = s.inbox /\ Effect(mut, s).trash = s.trash
        BY <2>1, <2>4 DEF Effect, States
      <3> QED  BY <2>3, <3>1, <3>2
    <2>5. o.state = a.state
      BY <2>3 DEF Outcome, ReconciledMessage
    <2> QED  BY <1>2, <2>3, <2>4, <2>5 DEF Outcome, ReconciledMessage, Results, GmailStates
  <1> QED  BY <1>1, <1>2

\* What the lane's step does, in terms of the message it works on.
LEMMA MutateMessageFacts ==
  ASSUME TypeOK, MutateMessage
  PROVE  \/ job.cmd.gen # gate /\ job' = NoJob /\ UNCHANGED gmail
         \/ /\ job.cmd.gen = gate
            /\ \E s \in {gmail[job.cmd.msg], Gone}, t \in GmailStates, result \in Results :
                  /\ gmail' = [gmail EXCEPT ![job.cmd.msg] = t]
                  /\ job' = [pc |-> "persist", cmd |-> job.cmd, result |-> result, state |-> t]
                  /\ result = "Confirmed" => s # Gone /\ t = Effect(job.cmd.mut, s)
                  /\ result = "Rejected" => t = s
                  /\ job.cmd.mut.kind = "Set" /\ t # Gone =>
                        s # Gone /\ t.inbox = s.inbox /\ t.trash = s.trash
  <1>1. job.cmd.msg \in Messages /\ job.cmd.mut \in Mutations
    BY JobFacts DEF MutateMessage
  <1>2. CASE job.cmd.gen # gate /\ job' = NoJob /\ UNCHANGED gmail
    BY <1>2
  <1>3. CASE job.cmd.gen = gate
    <2>1. PICK s \in Resolved(gmail[job.cmd.msg]) :
             \E a \in IF s = Gone THEN [state : {Gone}, end : {"Definite", "Uncertain"}]
                      ELSE Attempts(job.cmd.mut, s) :
             \E o \in Outcome(a) :
                /\ gmail' = [gmail EXCEPT ![job.cmd.msg] = o.state]
                /\ job' = [pc |-> "persist", cmd |-> job.cmd, result |-> o.result, state |-> o.state]
      BY <1>3 DEF MutateMessage
    <2>2. s \in GmailStates /\ s \in {gmail[job.cmd.msg], Gone}
      BY <1>1, <2>1 DEF TypeOK, Resolved, GmailStates
    <2>3. PICK a \in IF s = Gone THEN [state : {Gone}, end : {"Definite", "Uncertain"}]
                     ELSE Attempts(job.cmd.mut, s) :
             \E o \in Outcome(a) :
                /\ gmail' = [gmail EXCEPT ![job.cmd.msg] = o.state]
                /\ job' = [pc |-> "persist", cmd |-> job.cmd, result |-> o.result, state |-> o.state]
      BY <2>1
    <2>4. PICK o \in Outcome(a) :
                /\ gmail' = [gmail EXCEPT ![job.cmd.msg] = o.state]
                /\ job' = [pc |-> "persist", cmd |-> job.cmd, result |-> o.result, state |-> o.state]
      BY <2>3
    <2>5. /\ o.state \in GmailStates /\ o.result \in Results
          /\ o.result = "Confirmed" => s # Gone /\ o.state = Effect(job.cmd.mut, s)
          /\ o.result = "Rejected" => o.state = s
          /\ job.cmd.mut.kind = "Set" /\ o.state # Gone =>
                s # Gone /\ o.state.inbox = s.inbox /\ o.state.trash = s.trash
      BY <1>1, <2>2, OutcomeFacts
    <2> QED  BY <1>3, <2>2, <2>4, <2>5
  <1> QED  BY <1>2, <1>3 DEF MutateMessage

LEMMA WorkerType ==
  ASSUME TypeOK, Worker
  PROVE  TypeOK'
  <1>1. CASE SetGate
    <2>1. gate' \in Nat
      BY <1>1 DEF SetGate, TypeOK
    <2> QED  BY <1>1, <2>1 DEF SetGate, TypeOK, uiVars
  <1>2. CASE TakeMutation
    <2>1. Head(mutations) \in MutateCommands /\ Tail(mutations) \in Seq(MutateCommands)
      BY <1>2 DEF TakeMutation, TypeOK
    <2>2. job' \in {NoJob} \cup LaneJobs
      BY <1>2, <2>1 DEF TakeMutation, LaneJobs
    <2>3. mutations' \in Seq(MutateCommands)
      BY <1>2, <2>1 DEF TakeMutation
    <2> QED  BY <1>2, <2>2, <2>3 DEF TakeMutation, TypeOK, uiVars
  <1>3. CASE MutateMessage
    <2>1. job.cmd \in MutateCommands /\ job.cmd.msg \in Messages
      BY <1>3, JobFacts DEF MutateMessage
    <2>2. gmail' \in [Messages -> GmailStates] /\ job' \in {NoJob} \cup PersistJobs
      <3>1. gmail \in [Messages -> GmailStates]
        BY DEF TypeOK, GmailStates
      <3>2. CASE job' = NoJob /\ UNCHANGED gmail
        BY <3>1, <3>2
      <3>3. ASSUME NEW t \in GmailStates, NEW result \in Results,
                   gmail' = [gmail EXCEPT ![job.cmd.msg] = t],
                   job' = [pc |-> "persist", cmd |-> job.cmd, result |-> result, state |-> t]
            PROVE  gmail' \in [Messages -> GmailStates] /\ job' \in PersistJobs
        BY <2>1, <3>1, <3>3 DEF PersistJobs, GmailStates
      <3> QED  BY <1>3, <3>2, <3>3, MutateMessageFacts
    <2> QED  BY <1>3, <2>2 DEF MutateMessage, TypeOK, uiVars, GmailStates
  <1>4. CASE AnswerMutation
    <2>1. AnswerOf(job.cmd, job.result, job.state) \in AnswerEvents
      BY <1>4, JobFacts DEF AnswerMutation, AnswerOf, AnswerEvents, GmailStates
    <2>2. events' \in Seq(AnswerEvents \cup LoadEvents)
      BY <1>4, <2>1 DEF AnswerMutation, TypeOK
    <2> QED  BY <1>4, <2>2 DEF AnswerMutation, TypeOK, uiVars
  <1>5. CASE FetchFolder
    <2>1. Listing(load.folder) \in ListRows /\ load.req \in Nat
      BY ListingType DEF TypeOK, GmailStates
    <2>2. [type |-> "FolderLoaded", req |-> load.req, rows |-> Listing(load.folder)] \in LoadEvents
      BY <2>1 DEF LoadEvents
    <2>3. events' \in Seq(AnswerEvents \cup LoadEvents)
      BY <1>5, <2>2 DEF FetchFolder, TypeOK
    <2>4. load' \in [req : Nat, folder : Folders]
      BY <1>5, FolderAssumption DEF FetchFolder, NoLoad
    <2> QED  BY <1>5, <2>3, <2>4 DEF FetchFolder, TypeOK, uiVars
  <1> QED  BY <1>1, <1>2, <1>3, <1>4, <1>5 DEF Worker

LEMMA NextType ==
  ASSUME TypeOK, [Next]_vars
  PROVE  TypeOK'
  <1>1. CASE UNCHANGED vars
    BY <1>1 DEF TypeOK, vars, uiVars, workerVars
  <1>2. CASE Person
    BY <1>2, MutateSelectedType, UndoMessageOperationType, ViewType DEF Person
  <1> QED  BY <1>1, <1>2, DeliverType, WorkerType DEF Next

\* Every variable keeps its type, whatever is changed, undone, lost or read
\* back: the lists hold rows and the queues well-formed commands and answers.
THEOREM TypeCorrect == Spec => []TypeOK
  <1>1. TypeOK /\ [Next]_vars => TypeOK'
    BY NextType
  <1> QED  BY <1>1, InitType, PTL DEF Spec

-----------------------------------------------------------------------------
(* A rejected change is unapplied *)

\* "Gmail rejected the change" is said only of a change no part of which Gmail
\* carried out: RejectedIsUnapplied holds for any messages and bounds.
THEOREM RejectedMeansUnapplied == Spec => RejectedIsUnapplied
  <1> DEFINE Step == job.pc = "lane" /\ job'.pc = "persist" /\ job'.result = "Rejected" /\ job'.state # Gone
                        => UNCHANGED gmail
  <1>1. ASSUME TypeOK, [Next]_vars PROVE [Step]_vars
    <2>1. CASE MutateMessage
      <3>1. job.cmd.msg \in Messages /\ DOMAIN gmail = Messages
        BY <1>1, <2>1, JobFacts DEF MutateMessage, TypeOK
      <3>2. CASE job' = NoJob
        BY <3>2 DEF NoJob
      <3>3. ASSUME NEW s \in {gmail[job.cmd.msg], Gone}, NEW t \in GmailStates, NEW result \in Results,
                   gmail' = [gmail EXCEPT ![job.cmd.msg] = t],
                   job' = [pc |-> "persist", cmd |-> job.cmd, result |-> result, state |-> t],
                   result = "Rejected" => t = s
            PROVE  Step
        <4>1. SUFFICES ASSUME job'.result = "Rejected", job'.state # Gone PROVE UNCHANGED gmail
          OBVIOUS
        <4>2. t = gmail[job.cmd.msg]
          BY <3>3, <4>1
        <4>3. gmail \in [Messages -> States \cup {Gone}]
          BY <1>1 DEF TypeOK
        <4> QED  BY <3>1, <3>3, <4>2, <4>3
      <3> QED  BY <1>1, <2>1, <3>2, <3>3, MutateMessageFacts
    <2>2. CASE TakeMutation
      BY <2>2 DEF TakeMutation, NoJob
    <2>3. CASE AnswerMutation
      BY <2>3 DEF AnswerMutation
    <2>4. CASE Person \/ Deliver \/ SetGate \/ FetchFolder \/ UNCHANGED vars
      <3>1. UNCHANGED job
        BY <2>4 DEF Person, MutateSelected, UndoMessageOperation, LoadFolder, Search, CloseSearch, ClearBodyCache,
                    Deliver, SetGate, FetchFolder, vars, workerVars
      <3> QED  BY <3>1
    <2> QED  BY <1>1, <2>1, <2>2, <2>3, <2>4 DEF Next, Worker
  <1>2. TypeOK /\ [Next]_vars => [Step]_vars
    BY <1>1
  <1> QED  BY <1>2, TypeCorrect, PTL DEF Spec, RejectedIsUnapplied

-----------------------------------------------------------------------------
(* The undo and what Gmail has made of it                                     *)

InTurn == Elements(mutations) \cup (IF job.pc = "lane" THEN {job.cmd} ELSE {})
Answers == {e \in Elements(events) : e.type = "Answer"}

\* Requests pass through the actor in the order in which they were numbered.
Ordered ==
    /\ \A i, j \in DOMAIN mutations : i < j => mutations[i].req < mutations[j].req
    /\ \A c \in Elements(mutations) : c.req < nextRequest
    /\ job # NoJob => job.cmd.req < nextRequest
                      /\ \A c \in Elements(mutations) : job.cmd.req < c.req
    /\ \A e \in Answers : /\ e.req < nextRequest
                          /\ job # NoJob => e.req < job.cmd.req
                          /\ \A c \in Elements(mutations) : e.req < c.req
    /\ undo.phase # "None" => undo.req < nextRequest

\* No command that moves the message waits behind the one the undo is about.
LastToMove ==
    undo.phase # "None" =>
        \A c \in InTurn : c.msg = undo.msg /\ c.mut.kind # "Set" => c.req <= undo.req

\* The change that the undo waits for.
Asked == IF undo.phase = "UndoPending" THEN Inverse(undo) ELSE undo.forward

AskedInTurn ==
    undo.phase \in {"ForwardPending", "UndoPending"} =>
        \A c \in InTurn : c.req = undo.req => c.msg = undo.msg /\ c.mut = Asked

\* The message is where the change that the undo waits for, or offers to undo, put it.
Achieved ==
    \/ gmail[undo.msg] = Gone
    \/ IF undo.phase = "UndoPending" THEN ~Done(undo.forward, gmail[undo.msg])
       ELSE Done(undo.forward, gmail[undo.msg])

ConfirmedIsAchieved ==
    undo.phase \in {"ForwardPending", "UndoPending"} =>
        /\ job.pc = "persist" /\ job.cmd.req = undo.req /\ job.result = "Confirmed" => Achieved
        /\ \A e \in Answers : e.req = undo.req /\ e.result = "Confirmed" => Achieved

OfferedIsAchieved ==
    undo.phase = "Available" => Achieved /\ \A c \in InTurn : undo.req < c.req

UndoInv ==
    TypeOK /\ Ordered /\ LastToMove /\ AskedInTurn /\ ConfirmedIsAchieved /\ OfferedIsAchieved

LEMMA AppendElements ==
  ASSUME NEW S, NEW s \in Seq(S), NEW x \in S
  PROVE  Elements(Append(s, x)) = Elements(s) \cup {x}
  <1>1. DOMAIN Append(s, x) = DOMAIN s \cup {Len(s) + 1}
    OBVIOUS
  <1>2. \A i \in DOMAIN s : Append(s, x)[i] = s[i]
    OBVIOUS
  <1>3. Append(s, x)[Len(s) + 1] = x
    OBVIOUS
  <1> QED  BY <1>1, <1>2, <1>3 DEF Elements

LEMMA HeadElements ==
  ASSUME NEW S, NEW s \in Seq(S), s # <<>>
  PROVE  /\ Head(s) \in Elements(s) /\ Head(s) \in S
         /\ Elements(Tail(s)) \subseteq Elements(s)
         /\ Elements(s) = {Head(s)} \cup Elements(Tail(s))
  <1>1. 1 \in DOMAIN s /\ Head(s) = s[1] /\ Head(s) \in S
    OBVIOUS
  <1>2. \A i \in DOMAIN Tail(s) : i + 1 \in DOMAIN s /\ Tail(s)[i] = s[i + 1]
    OBVIOUS
  <1>3. \A i \in DOMAIN s : i = 1 \/ (i - 1 \in DOMAIN Tail(s) /\ Tail(s)[i - 1] = s[i])
    OBVIOUS
  <1>4. Elements(Tail(s)) \subseteq Elements(s)
    <2> SUFFICES ASSUME NEW i \in DOMAIN Tail(s) PROVE Tail(s)[i] \in Elements(s)
      BY DEF Elements
    <2> QED  BY <1>2 DEF Elements
  <1>5. Elements(s) \subseteq {Head(s)} \cup Elements(Tail(s))
    <2> SUFFICES ASSUME NEW i \in DOMAIN s PROVE s[i] \in {Head(s)} \cup Elements(Tail(s))
      BY DEF Elements
    <2>1. CASE i = 1
      BY <1>1, <2>1
    <2>2. CASE i # 1
      BY <1>3, <2>2 DEF Elements
    <2> QED  BY <2>1, <2>2
  <1>6. Head(s) \in Elements(s)
    BY <1>1 DEF Elements
  <1> QED  BY <1>1, <1>4, <1>5, <1>6

LEMMA ElementFacts ==
  ASSUME TypeOK
  PROVE  /\ \A c \in Elements(mutations) : c \in MutateCommands
         /\ \A c \in InTurn : c \in MutateCommands /\ c.req \in Nat /\ c.msg \in Messages
         /\ \A e \in Answers : e \in AnswerEvents /\ e.req \in Nat
         /\ nextRequest \in Nat
         /\ undo.phase # "None" => undo.req \in Nat
         /\ job # NoJob => job.cmd.req \in Nat
  <1>1. \A c \in Elements(mutations) : c \in MutateCommands
    BY DEF TypeOK, Elements
  <1>2. \A c \in InTurn : c \in MutateCommands
    BY <1>1, JobFacts DEF InTurn
  <1>3. \A e \in Answers : e \in AnswerEvents
    <2>1. \A e \in Elements(events) : e \in AnswerEvents \cup LoadEvents
      BY DEF TypeOK, Elements
    <2> QED  BY <2>1 DEF Answers, LoadEvents
  <1>4. job # NoJob => job.pc \in {"lane", "persist"}
    BY DEF TypeOK, LaneJobs, PersistJobs
  <1> QED  BY <1>1, <1>2, <1>3, <1>4, JobFacts, ActiveUndo, AnswerFacts DEF MutateCommands, TypeOK

LEMMA InitUndo == Init => UndoInv
  <1> SUFFICES ASSUME Init PROVE UndoInv
    OBVIOUS
  <1>1. InTurn = {} /\ Answers = {} /\ mutations = <<>> /\ job = NoJob /\ undo.phase = "None"
    BY DEF Init, InTurn, Answers, Elements, NoJob, NoUndo
  <1> QED  BY <1>1, InitType DEF UndoInv, Ordered, LastToMove, AskedInTurn, ConfirmedIsAchieved, OfferedIsAchieved,
                                 InTurn

InIncreasingOrder(s) == \A i, j \in DOMAIN s : i < j => s[i].req < s[j].req

LEMMA AppendOrdered ==
  ASSUME NEW s \in Seq(MutateCommands), NEW c \in MutateCommands,
         InIncreasingOrder(s), \A d \in Elements(s) : d.req < c.req
  PROVE  InIncreasingOrder(Append(s, c))
  <1> SUFFICES ASSUME NEW i \in DOMAIN Append(s, c), NEW j \in DOMAIN Append(s, c), i < j
               PROVE  Append(s, c)[i].req < Append(s, c)[j].req
    BY DEF InIncreasingOrder
  <1>1. i \in DOMAIN s /\ Append(s, c)[i] = s[i]
    OBVIOUS
  <1>2. CASE j \in DOMAIN s
    <2>1. Append(s, c)[j] = s[j]
      BY <1>2
    <2> QED  BY <1>1, <1>2, <2>1 DEF InIncreasingOrder
  <1>3. CASE j \notin DOMAIN s
    <2>1. Append(s, c)[j] = c
      BY <1>3
    <2> QED  BY <1>1, <2>1 DEF Elements
  <1> QED  BY <1>2, <1>3

LEMMA TailOrdered ==
  ASSUME NEW s \in Seq(MutateCommands), s # <<>>, InIncreasingOrder(s)
  PROVE  InIncreasingOrder(Tail(s)) /\ \A d \in Elements(Tail(s)) : Head(s).req < d.req
  <1>1. \A i \in DOMAIN Tail(s) : i \in Nat /\ i + 1 \in DOMAIN s /\ Tail(s)[i] = s[i + 1] /\ 1 < i + 1
    OBVIOUS
  <1>2. 1 \in DOMAIN s /\ Head(s) = s[1]
    OBVIOUS
  <1>3. InIncreasingOrder(Tail(s))
    <2> SUFFICES ASSUME NEW i \in DOMAIN Tail(s), NEW j \in DOMAIN Tail(s), i < j
                 PROVE  Tail(s)[i].req < Tail(s)[j].req
      BY DEF InIncreasingOrder
    <2>1. i + 1 < j + 1
      BY <1>1
    <2> QED  BY <1>1, <2>1 DEF InIncreasingOrder
  <1>4. ASSUME NEW d \in Elements(Tail(s)) PROVE Head(s).req < d.req
    <2>1. PICK i \in DOMAIN Tail(s) : d = Tail(s)[i]
      BY DEF Elements
    <2> QED  BY <1>1, <1>2, <2>1 DEF InIncreasingOrder
  <1> QED  BY <1>3, <1>4

\* The undo goes away, or stays what it is but for "requested".
UndoStays ==
    \/ undo'.phase = "None"
    \/ /\ undo.phase # "None" /\ undo'.phase = undo.phase /\ undo'.msg = undo.msg
       /\ undo'.forward = undo.forward /\ undo'.taken = undo.taken /\ undo'.req = undo.req

\* Steps that touch neither the undo nor the way of a command.
LEMMA UndoFrame ==
  ASSUME UndoInv, TypeOK', UndoStays, UNCHANGED <<mutations, job, gmail, nextRequest>>, Answers' \subseteq Answers
  PROVE  UndoInv'
  <1>1. InTurn' = InTurn
    BY DEF InTurn
  <1>2. Ordered'
    BY DEF UndoInv, Ordered, UndoStays
  <1>3. undo'.phase # "None" => Asked' = Asked /\ (Achieved <=> Achieved')
    BY DEF UndoStays, Asked, Achieved, Inverse
  <1>4. LastToMove' /\ AskedInTurn'
    BY <1>1, <1>3 DEF UndoInv, LastToMove, AskedInTurn, UndoStays
  <1>5. ConfirmedIsAchieved' /\ OfferedIsAchieved'
    BY <1>1, <1>3 DEF UndoInv, ConfirmedIsAchieved, OfferedIsAchieved, UndoStays
  <1> QED  BY <1>2, <1>4, <1>5 DEF UndoInv

\* Steps that send a command: one that only sets a flag, or the one that the
\* undo waits for from now on.
LEMMA UndoSend ==
  ASSUME UndoInv, TypeOK', NEW c \in MutateCommands, c.req = nextRequest,
         mutations' = Append(mutations, c), nextRequest' = nextRequest + 1,
         UNCHANGED <<job, gmail>>, Answers' \subseteq Answers,
         \/ c.mut.kind = "Set" /\ UNCHANGED undo
         \/ /\ undo'.phase \in {"ForwardPending", "UndoPending"}
            /\ undo'.req = c.req /\ undo'.msg = c.msg /\ c.mut = Asked'
  PROVE  UndoInv'
  <1>1. /\ mutations \in Seq(MutateCommands) /\ nextRequest \in Nat
        /\ TypeOK /\ Ordered /\ LastToMove /\ AskedInTurn /\ ConfirmedIsAchieved /\ OfferedIsAchieved
    BY DEF UndoInv, TypeOK
  <1>2. Elements(mutations') = Elements(mutations) \cup {c}
    BY <1>1, AppendElements
  <1>3. InTurn' = InTurn \cup {c}
    BY <1>2 DEF InTurn
  <1>4. \A d \in InTurn : d.req \in Nat /\ d.req < nextRequest
    BY <1>1, ElementFacts DEF InTurn, Ordered, NoJob
  <1>5. /\ \A e \in Answers : e.req \in Nat /\ e.req < nextRequest
        /\ job # NoJob => job.cmd.req \in Nat /\ job.cmd.req < nextRequest
        /\ undo.phase # "None" => undo.req \in Nat /\ undo.req < nextRequest
    BY <1>1, ElementFacts DEF Ordered
  <1>6. Ordered'
    <2>1. InIncreasingOrder(mutations)'
      <3>1. \A d \in Elements(mutations) : d.req < c.req
        BY <1>4 DEF InTurn
      <3>2. InIncreasingOrder(mutations)
        BY <1>1 DEF Ordered, InIncreasingOrder
      <3> QED  BY <1>1, <3>1, <3>2, AppendOrdered DEF InIncreasingOrder
    <2>2. \A d \in Elements(mutations)' : d.req < nextRequest'
      BY <1>1, <1>2, <1>4 DEF InTurn
    <2>3. job' # NoJob => job'.cmd.req < nextRequest' /\ \A d \in Elements(mutations)' : job'.cmd.req < d.req
      BY <1>1, <1>2, <1>5 DEF Ordered
    <2>4. \A e \in Answers' : /\ e.req < nextRequest'
                              /\ job' # NoJob => e.req < job'.cmd.req
                              /\ \A d \in Elements(mutations)' : e.req < d.req
      BY <1>1, <1>2, <1>5 DEF Ordered
    <2>5. undo'.phase # "None" => undo'.req < nextRequest'
      BY <1>1, <1>5
    <2> QED  BY <2>1, <2>2, <2>3, <2>4, <2>5 DEF Ordered, InIncreasingOrder
  <1>7. CASE c.mut.kind = "Set" /\ UNCHANGED undo
    <2>1. Asked' = Asked /\ (Achieved' <=> Achieved)
      BY <1>7 DEF Asked, Achieved
    <2>2. LastToMove'
      BY <1>1, <1>3, <1>7 DEF LastToMove
    <2>3. AskedInTurn'
      BY <1>1, <1>3, <1>5, <1>7, <2>1 DEF AskedInTurn
    <2>4. ConfirmedIsAchieved'
      BY <1>1, <1>7, <2>1 DEF ConfirmedIsAchieved
    <2>5. OfferedIsAchieved'
      BY <1>1, <1>3, <1>5, <1>7, <2>1 DEF OfferedIsAchieved
    <2> QED  BY <1>6, <2>2, <2>3, <2>4, <2>5 DEF UndoInv
  <1>8. CASE /\ undo'.phase \in {"ForwardPending", "UndoPending"}
             /\ undo'.req = c.req /\ undo'.msg = c.msg /\ c.mut = Asked'
    <2>1. LastToMove'
      BY <1>1, <1>3, <1>4, <1>8 DEF LastToMove
    <2>2. AskedInTurn'
      BY <1>1, <1>3, <1>4, <1>8 DEF AskedInTurn
    <2>3. ConfirmedIsAchieved'
      <3>1. job.pc = "persist" => job # NoJob
        BY DEF NoJob
      <3> QED  BY <1>1, <1>5, <1>8, <3>1 DEF ConfirmedIsAchieved
    <2>4. OfferedIsAchieved'
      BY <1>8 DEF OfferedIsAchieved
    <2> QED  BY <1>6, <2>1, <2>2, <2>3, <2>4 DEF UndoInv
  <1> QED  BY <1>7, <1>8

LEMMA SendChange ==
  ASSUME UndoInv, TypeOK', NEW m \in Messages, NEW mut \in Changes, MutateSelected(m, mut)
  PROVE  UndoInv'
  <1> DEFINE c == Mutate(nextRequest, generation, m, mut)
  <1>1. c \in MutateCommands /\ c.req = nextRequest /\ c.msg = m /\ c.mut = mut
    <2>1. nextRequest \in Nat /\ generation \in Nat /\ mut \in Mutations
      BY DEF UndoInv, TypeOK, Mutations
    <2> QED  BY <2>1, MutateType DEF Mutate
  <1>2. /\ mutations' = Append(mutations, c) /\ nextRequest' = nextRequest + 1 /\ UNCHANGED <<job, gmail, events>>
    BY DEF MutateSelected, workerVars
  <1>3. CASE Removes(mut)
    <2>1. undo'.phase = "ForwardPending" /\ undo'.req = nextRequest /\ undo'.msg = m /\ undo'.forward = mut
      BY <1>3 DEF MutateSelected
    <2>2. mut = Asked'
      BY <2>1 DEF Asked
    <2> HIDE DEF c
    <2> QED  BY <1>1, <1>2, <2>1, <2>2, UndoSend DEF Answers
  <1>4. CASE ~Removes(mut)
    <2>1. mut.kind = "Set"
      BY <1>4 DEF Removes, Changes, Removals
    <2>2. UNCHANGED undo
      BY <1>4 DEF MutateSelected
    <2> HIDE DEF c
    <2> QED  BY <1>1, <1>2, <2>1, <2>2, UndoSend DEF Answers
  <1> QED  BY <1>3, <1>4

LEMMA SendUndo ==
  ASSUME UndoInv, TypeOK', undo.phase # "None", DispatchUndo, UNCHANGED <<job, gmail>>, Answers' \subseteq Answers
  PROVE  UndoInv'
  <1> DEFINE c == Mutate(nextRequest, generation, undo.msg, Inverse(undo))
  <1>1. undo \in Undo /\ undo.msg \in Messages /\ nextRequest \in Nat /\ generation \in Nat
    BY ActiveUndo DEF UndoInv, TypeOK
  <1>2. c \in MutateCommands /\ c.req = nextRequest /\ c.msg = undo.msg /\ c.mut = Inverse(undo)
    BY <1>1, MutateType, InverseType DEF Mutate
  <1>3. mutations' = Append(mutations, c) /\ nextRequest' = nextRequest + 1
    BY DEF DispatchUndo
  <1>4. /\ undo'.phase = "UndoPending" /\ undo'.req = nextRequest /\ undo'.msg = undo.msg
        /\ undo'.forward = undo.forward /\ undo'.taken = undo.taken
    BY <1>1 DEF DispatchUndo, Undo
  <1>5. Asked' = Inverse(undo)
    BY <1>4 DEF Asked, Inverse
  <1> HIDE DEF c
  <1> QED  BY <1>2, <1>3, <1>4, <1>5, UndoSend

LEMMA UndoOperation ==
  ASSUME UndoInv, TypeOK', UndoMessageOperation
  PROVE  UndoInv'
  <1>1. UNCHANGED <<job, gmail, events>>
    BY DEF UndoMessageOperation, workerVars
  <1>2. CASE undo.phase = "Available" /\ DispatchUndo
    BY <1>1, <1>2, SendUndo DEF Answers
  <1>3. CASE /\ undo.phase = "ForwardPending" /\ undo' = [undo EXCEPT !.requested = TRUE]
             /\ UNCHANGED <<nextRequest, mutations>>
    <2>1. undo \in Undo
      BY <1>3, ActiveUndo DEF UndoInv, TypeOK
    <2>2. UndoStays
      BY <1>3, <2>1 DEF UndoStays, Undo
    <2> QED  BY <1>1, <1>3, <2>2, UndoFrame DEF Answers
  <1> QED  BY <1>2, <1>3 DEF UndoMessageOperation

LEMMA UndoSame ==
  ASSUME UndoInv, TypeOK', UNCHANGED <<undo, mutations, job, gmail, nextRequest>>, Answers' \subseteq Answers
  PROVE  UndoInv'
  BY UndoFrame DEF UndoStays

\* Gmail has confirmed the change that the undo waits for: it is offered.
LEMMA UndoOffered ==
  ASSUME UndoInv, TypeOK', NEW e \in Answers, IsForward(e), e.result = "Confirmed",
         undo' = [undo EXCEPT !.phase = "Available"],
         UNCHANGED <<mutations, job, gmail, nextRequest>>, Answers' \subseteq Answers
  PROVE  UndoInv'
  <1>1. /\ undo \in Undo /\ undo.phase = "ForwardPending" /\ undo.req = e.req
        /\ Ordered /\ LastToMove /\ ConfirmedIsAchieved
    BY ActiveUndo DEF UndoInv, TypeOK, IsForward
  <1>2. /\ undo'.phase = "Available" /\ undo'.msg = undo.msg /\ undo'.req = undo.req
        /\ undo'.forward = undo.forward
    BY <1>1 DEF Undo
  <1>3. InTurn' = InTurn
    BY DEF InTurn
  <1>4. Achieved'
    <2>1. Achieved
      BY <1>1 DEF ConfirmedIsAchieved
    <2> QED  BY <1>1, <1>2, <2>1 DEF Achieved
  <1>5. \A c \in InTurn : undo.req < c.req
    BY <1>1 DEF Ordered, InTurn, NoJob
  <1>6. Ordered'
    BY <1>1, <1>2 DEF Ordered
  <1>7. LastToMove'
    BY <1>1, <1>2, <1>3 DEF LastToMove
  <1> QED  BY <1>2, <1>3, <1>4, <1>5, <1>6, <1>7 DEF UndoInv, AskedInTurn, ConfirmedIsAchieved, OfferedIsAchieved

LEMMA UndoDeliver ==
  ASSUME UndoInv, TypeOK', Deliver
  PROVE  UndoInv'
  <1> DEFINE e == Head(events)
  <1>1. /\ e \in Elements(events) /\ UNCHANGED <<job, gmail>> /\ Answers' \subseteq Answers
    <2>1. events \in Seq(AnswerEvents \cup LoadEvents) /\ events # <<>> /\ events' = Tail(events)
      BY DEF UndoInv, TypeOK, Deliver
    <2> QED  BY <2>1, HeadElements DEF Deliver, Answers, workerVars
  <1>2. CASE UNCHANGED <<undo, nextRequest, mutations>>
    BY <1>1, <1>2, UndoSame
  <1>3. CASE IsUndo(e) /\ FinishUndoMutation(e)
    <2>1. undo'.phase = "None" /\ UNCHANGED <<nextRequest, mutations>>
      BY <1>3 DEF FinishUndoMutation, NoUndo
    <2> QED  BY <1>1, <2>1, UndoFrame DEF UndoStays
  <1>4. ASSUME NEW p \in Answered(e), FinishMutation(p, e), e.type = "Answer" PROVE UndoInv'
    <2>1. CASE IsForward(e) /\ DispatchUndo
      <3>1. undo.phase # "None"
        BY <2>1 DEF IsForward
      <3> QED  BY <1>1, <2>1, <3>1, SendUndo
    <2>2. CASE undo' = UndoAfter(e) /\ UNCHANGED <<nextRequest, mutations>>
      <3>1. CASE ~IsForward(e)
        BY <1>1, <2>2, <3>1, UndoSame DEF UndoAfter
      <3>2. CASE IsForward(e) /\ e.result = "Confirmed"
        <4>1. undo' = [undo EXCEPT !.phase = "Available"] /\ e \in Answers
          BY <1>1, <1>4, <2>2, <3>2 DEF UndoAfter, Answers
        <4> HIDE DEF e
        <4> QED  BY <1>1, <2>2, <3>2, <4>1, UndoOffered
      <3>3. CASE IsForward(e) /\ e.result # "Confirmed"
        <4>1. undo'.phase = "None"
          BY <2>2, <3>3 DEF UndoAfter, NoUndo
        <4> QED  BY <1>1, <2>2, <4>1, UndoFrame DEF UndoStays
      <3> QED  BY <3>1, <3>2, <3>3
    <2> QED  BY <1>4, <2>1, <2>2 DEF FinishMutation
  <1> QED  BY <1>2, <1>3, <1>4 DEF Deliver, DeliverAnswer, IgnoreAnswer

LEMMA UndoTake ==
  ASSUME UndoInv, TypeOK', TakeMutation
  PROVE  UndoInv'
  <1> DEFINE c == Head(mutations)
  <1>1. /\ mutations \in Seq(MutateCommands) /\ mutations # <<>> /\ mutations' = Tail(mutations) /\ job = NoJob
        /\ UNCHANGED <<undo, gmail, nextRequest, events>>
    BY DEF UndoInv, TypeOK, TakeMutation, uiVars
  <1>2. /\ c \in Elements(mutations) /\ c \in MutateCommands
        /\ Elements(mutations) = {c} \cup Elements(mutations')
    BY <1>1, HeadElements
  <1>3. InIncreasingOrder(mutations') /\ \A d \in Elements(mutations') : c.req < d.req
    <2>1. InIncreasingOrder(mutations)
      BY DEF UndoInv, Ordered, InIncreasingOrder
    <2> QED  BY <1>1, <2>1, TailOrdered
  <1>4. job' = [pc |-> "lane", cmd |-> c] \/ job' = NoJob
    BY DEF TakeMutation
  <1> HIDE DEF c
  <1>5. job' # NoJob => job'.pc = "lane" /\ job'.cmd = c
    BY <1>4
  <1>6. InTurn' \subseteq InTurn
    BY <1>1, <1>2, <1>4 DEF InTurn, NoJob
  <1>7. Answers' = Answers
    BY <1>1 DEF Answers
  <1>8. Asked' = Asked /\ (Achieved' <=> Achieved)
    BY <1>1 DEF Asked, Achieved
  <1>9. Ordered'
    BY <1>1, <1>2, <1>3, <1>5, <1>7 DEF UndoInv, Ordered, InIncreasingOrder
  <1>10. LastToMove' /\ AskedInTurn' /\ OfferedIsAchieved'
    BY <1>1, <1>6, <1>8 DEF UndoInv, LastToMove, AskedInTurn, OfferedIsAchieved
  <1>11. ConfirmedIsAchieved'
    <2>1. job'.pc # "persist"
      BY <1>4 DEF NoJob
    <2> QED  BY <1>1, <1>7, <1>8, <2>1 DEF UndoInv, ConfirmedIsAchieved
  <1> QED  BY <1>9, <1>10, <1>11 DEF UndoInv

LEMMA UndoAnswer ==
  ASSUME UndoInv, TypeOK', AnswerMutation
  PROVE  UndoInv'
  <1> DEFINE a == AnswerOf(job.cmd, job.result, job.state)
  <1>1. /\ job.pc = "persist" /\ job' = NoJob /\ events \in Seq(AnswerEvents \cup LoadEvents)
        /\ UNCHANGED <<undo, gmail, nextRequest, mutations>>
    BY DEF UndoInv, TypeOK, AnswerMutation, uiVars
  <1>2. /\ job # NoJob /\ a \in AnswerEvents /\ a.req = job.cmd.req /\ a.result = job.result
        /\ job.cmd.req < nextRequest
    BY <1>1, JobFacts DEF UndoInv, Ordered, AnswerOf, AnswerEvents, GmailStates
  <1>3. Answers' \subseteq Answers \cup {a}
    <2>1. Elements(Append(events, a)) = Elements(events) \cup {a}
      BY <1>1, <1>2, AppendElements
    <2> HIDE DEF a
    <2> QED  BY <2>1 DEF AnswerMutation, Answers, a
  <1> HIDE DEF a
  <1>4. InTurn' = InTurn
    BY <1>1 DEF InTurn, NoJob
  <1>5. Asked' = Asked /\ (Achieved' <=> Achieved)
    BY <1>1 DEF Asked, Achieved
  <1>6. Ordered'
    BY <1>1, <1>2, <1>3 DEF UndoInv, Ordered
  <1>7. LastToMove' /\ AskedInTurn' /\ OfferedIsAchieved'
    BY <1>1, <1>4, <1>5 DEF UndoInv, LastToMove, AskedInTurn, OfferedIsAchieved
  <1>8. ConfirmedIsAchieved'
    BY <1>1, <1>2, <1>3, <1>5 DEF UndoInv, ConfirmedIsAchieved, NoJob
  <1> QED  BY <1>6, <1>7, <1>8 DEF UndoInv

\* The change that the undo waits for does to the message what it is to do.
LEMMA AskedEffect ==
  ASSUME undo \in Undo, NEW s \in States
  PROVE  IF undo.phase = "UndoPending" THEN ~Done(undo.forward, Effect(Asked, s))
         ELSE Done(undo.forward, Effect(Asked, s))
  <1>1. undo.forward \in Removals /\ undo.forward.kind \in {"Archive", "MoveToTrash"}
    BY DEF Undo, Removals
  <1>2. CASE undo.phase = "UndoPending"
    <2>1. CASE undo.forward.kind = "Archive"
      BY <1>2, <2>1 DEF Asked, Inverse, Effect, Done, States
    <2>2. CASE undo.forward.kind = "MoveToTrash"
      <3>1. Asked = RestoreFromTrash(undo.taken)
        BY <1>2, <2>2 DEF Asked, Inverse
      <3>2. Effect(Asked, s).trash = FALSE
        BY <3>1 DEF RestoreFromTrash, Effect, States
      <3> QED  BY <1>2, <2>2, <3>2 DEF Done
    <2> QED  BY <1>1, <2>1, <2>2
  <1>3. CASE undo.phase # "UndoPending"
    <2>1. CASE undo.forward.kind = "Archive"
      BY <1>3, <2>1 DEF Asked, Effect, Done, States
    <2>2. CASE undo.forward.kind = "MoveToTrash"
      BY <1>3, <2>2 DEF Asked, Effect, Done, States
    <2> QED  BY <1>1, <2>1, <2>2
  <1> QED  BY <1>2, <1>3

LEMMA UndoChange ==
  ASSUME UndoInv, TypeOK', MutateMessage
  PROVE  UndoInv'
  <1> DEFINE c == job.cmd
  <1>1. /\ job.pc = "lane" /\ job # NoJob /\ c \in InTurn /\ c \in MutateCommands
        /\ c.req \in Nat /\ c.msg \in Messages /\ c.mut \in Mutations
        /\ UNCHANGED <<undo, mutations, events, nextRequest>>
    BY JobFacts DEF UndoInv, MutateMessage, InTurn, uiVars
  <1>2. /\ TypeOK /\ Ordered /\ LastToMove /\ AskedInTurn /\ ConfirmedIsAchieved /\ OfferedIsAchieved
        /\ gmail \in [Messages -> GmailStates]
    BY DEF UndoInv, TypeOK, GmailStates
  <1>3. Answers' = Answers /\ Asked' = Asked
    BY <1>1 DEF Answers, Asked
  <1>4. \A e \in Answers : e.req < c.req
    BY <1>1, <1>2 DEF Ordered
  <1>5. CASE job' = NoJob /\ UNCHANGED gmail
    <2>1. InTurn' \subseteq InTurn /\ (Achieved' <=> Achieved) /\ job'.pc # "persist"
      BY <1>1, <1>5 DEF InTurn, Achieved, NoJob
    <2>2. Ordered'
      BY <1>1, <1>2, <1>3, <1>5 DEF Ordered
    <2>3. LastToMove' /\ AskedInTurn' /\ OfferedIsAchieved'
      BY <1>1, <1>2, <1>3, <2>1 DEF LastToMove, AskedInTurn, OfferedIsAchieved
    <2>4. ConfirmedIsAchieved'
      BY <1>1, <1>2, <1>3, <2>1 DEF ConfirmedIsAchieved
    <2> QED  BY <2>2, <2>3, <2>4 DEF UndoInv
  <1>6. ASSUME NEW s \in {gmail[c.msg], Gone}, NEW t \in GmailStates, NEW result \in Results,
               gmail' = [gmail EXCEPT ![c.msg] = t],
               job' = [pc |-> "persist", cmd |-> c, result |-> result, state |-> t],
               result = "Confirmed" => s # Gone /\ t = Effect(c.mut, s),
               c.mut.kind = "Set" /\ t # Gone => s # Gone /\ t.inbox = s.inbox /\ t.trash = s.trash
        PROVE  UndoInv'
    <2>1. InTurn' \subseteq InTurn
      BY <1>1, <1>6 DEF InTurn
    <2>2. job' # NoJob /\ job'.cmd = c
      BY <1>6 DEF NoJob
    <2>3. Ordered'
      BY <1>1, <1>2, <1>3, <2>2 DEF Ordered
    <2>4. LastToMove' /\ AskedInTurn'
      BY <1>1, <1>2, <1>3, <2>1 DEF LastToMove, AskedInTurn
    <2>5. ASSUME undo.phase # "None", undo.req < c.req, Achieved PROVE Achieved'
      <3>1. undo.req \in Nat /\ undo.msg \in Messages /\ undo.forward \in Removals
        BY <1>2, <2>5, ActiveUndo DEF TypeOK
      <3>2. CASE undo.msg # c.msg
        BY <1>1, <1>2, <1>6, <2>5, <3>1, <3>2 DEF Achieved
      <3>3. CASE undo.msg = c.msg
        <4>1. c.mut.kind = "Set"
          BY <1>1, <1>2, <2>5, <3>1, <3>3 DEF LastToMove
        <4>2. gmail'[undo.msg] = t
          BY <1>2, <1>6, <3>1, <3>3
        <4>3. t = Gone \/ (gmail[c.msg] # Gone /\ t.inbox = gmail[c.msg].inbox /\ t.trash = gmail[c.msg].trash)
          BY <1>6, <4>1
        <4> QED  BY <1>1, <2>5, <3>3, <4>2, <4>3 DEF Achieved, Done
      <3> QED  BY <3>2, <3>3
    <2>6. OfferedIsAchieved'
      BY <1>1, <1>2, <2>1, <2>5 DEF OfferedIsAchieved
    <2>7. ASSUME undo.phase \in {"ForwardPending", "UndoPending"}, c.req = undo.req, result = "Confirmed"
          PROVE  Achieved'
      <3>1. c.msg = undo.msg /\ c.mut = Asked
        BY <1>1, <1>2, <2>7 DEF AskedInTurn
      <3>2. undo \in Undo
        BY <1>2, <2>7, ActiveUndo DEF TypeOK
      <3>3. s = gmail[c.msg] /\ s \in States /\ t = Effect(Asked, s)
        <4>1. gmail[c.msg] \in GmailStates
          BY <1>1, <1>2
        <4> QED  BY <1>6, <2>7, <3>1, <4>1 DEF GmailStates
      <3>4. gmail'[undo.msg] = Effect(Asked, s)
        BY <1>1, <1>2, <1>6, <3>1, <3>3
      <3>5. IF undo.phase = "UndoPending" THEN ~Done(undo.forward, Effect(Asked, s))
            ELSE Done(undo.forward, Effect(Asked, s))
        BY <3>2, <3>3, AskedEffect
      <3> QED  BY <1>1, <3>4, <3>5 DEF Achieved
    <2>8. ConfirmedIsAchieved'
      <3>1. ASSUME undo.phase \in {"ForwardPending", "UndoPending"}, job'.cmd.req = undo.req,
                   job'.result = "Confirmed"
            PROVE  Achieved'
        BY <1>6, <2>7, <3>1
      <3>2. ASSUME undo.phase \in {"ForwardPending", "UndoPending"},
                   NEW e \in Answers, e.req = undo.req, e.result = "Confirmed"
            PROVE  Achieved'
        <4>1. Achieved /\ undo.req < c.req
          BY <1>2, <1>4, <3>2 DEF ConfirmedIsAchieved
        <4> QED  BY <2>5, <3>2, <4>1
      <3> QED  BY <1>1, <1>3, <3>1, <3>2 DEF ConfirmedIsAchieved
    <2> QED  BY <2>3, <2>4, <2>6, <2>8 DEF UndoInv
  <1> QED  BY <1>2, <1>5, <1>6, MutateMessageFacts

LEMMA NextUndo ==
  ASSUME UndoInv, [Next]_vars
  PROVE  UndoInv'
  <1>1. TypeOK'
    BY NextType DEF UndoInv
  <1>2. CASE UNCHANGED vars
    BY <1>1, <1>2, UndoSame DEF vars, uiVars, workerVars, Answers
  <1>3. CASE SetGate \/ Search \/ CloseSearch \/ ClearBodyCache \/ \E f \in Folders : LoadFolder(f)
    <2>1. UNCHANGED <<undo, mutations, job, gmail, nextRequest, events>>
      BY <1>3 DEF SetGate, Search, CloseSearch, ClearBodyCache, LoadFolder, uiVars, workerVars
    <2> QED  BY <1>1, <2>1, UndoSame DEF Answers
  <1>4. CASE FetchFolder
    <2>1. UNCHANGED <<undo, mutations, job, gmail, nextRequest>>
      BY <1>4 DEF FetchFolder, uiVars
    <2>2. Answers' \subseteq Answers
      <3> DEFINE l == [type |-> "FolderLoaded", req |-> load.req, rows |-> Listing(load.folder)]
      <3>1. events \in Seq(AnswerEvents \cup LoadEvents) /\ l \in LoadEvents
        BY ListingType DEF UndoInv, TypeOK, GmailStates, LoadEvents
      <3>2. Elements(Append(events, l)) = Elements(events) \cup {l}
        BY <3>1, AppendElements
      <3> QED  BY <1>4, <3>2 DEF FetchFolder, Answers
    <2> QED  BY <1>1, <2>1, <2>2, UndoSame
  <1>5. CASE \E m \in Messages, mut \in Changes : MutateSelected(m, mut)
    BY <1>1, <1>5, SendChange
  <1> QED  BY <1>1, <1>2, <1>3, <1>4, <1>5, UndoOperation, UndoDeliver, UndoTake, UndoChange, UndoAnswer
           DEF Next, Person, Worker

LEMMA UndoInvariant == Spec => []UndoInv
  <1>1. UndoInv /\ [Next]_vars => UndoInv'
    BY NextUndo
  <1> QED  BY <1>1, InitUndo, PTL DEF Spec

\* Undo is offered only for a change that Gmail holds at this moment: no
\* command that would move the message again waits behind the confirmed one.
THEOREM OfferHolds == Spec => []OfferedUndoHolds
  <1>1. UndoInv => OfferedUndoHolds
    BY DEF UndoInv, OfferedIsAchieved, OfferedUndoHolds, Achieved
  <1> QED  BY <1>1, UndoInvariant, PTL

\* "Message action undone" is said only of a message that is back.
THEOREM UndoneMeansBack == Spec => UndoneIsBack
  <1> DEFINE Step == \A e \in Elements(events) :
                        /\ e.type = "Answer" /\ e.result = "Confirmed" /\ e.gen = generation /\ IsUndo(e)
                        /\ undo' = NoUndo
                        => gmail[e.msg] = Gone \/ ~Done(undo.forward, gmail[e.msg])
  <1>1. UndoInv => Step
    BY DEF UndoInv, ConfirmedIsAchieved, Achieved, IsUndo, Answers
  <1>2. UndoInv /\ [Next]_vars => [Step]_vars
    BY <1>1
  <1> QED  BY <1>2, UndoInvariant, PTL DEF Spec, UndoneIsBack

-----------------------------------------------------------------------------
(* Whatever is waited for is in flight                                       *)

\* What brings the answer to a request.
Carriers == Elements(mutations) \cup (IF job # NoJob THEN {job.cmd} ELSE {}) \cup Answers

Brings(c, r, m, g) == c.req = r /\ c.msg = m /\ c.gen = g

Waiting == undo.phase \in {"ForwardPending", "UndoPending"}

\* No command beyond the gate is with the actor.
Gates == gate <= generation /\ (job # NoJob => job.cmd.gen <= gate)

\* A request number stands for one change, or for one undo.
Numbered ==
    /\ \A p \in pending : p.req < nextRequest
    /\ \A p, q \in pending : p.req = q.req => p = q
    /\ Waiting => undo.req < nextRequest
    /\ undo.phase = "UndoPending" => \A p \in pending : p.req # undo.req
    /\ undo.phase = "ForwardPending" => \E p \in pending : p.req = undo.req /\ p.msg = undo.msg

Carried ==
    /\ \A p \in pending : p.req \notin lost => \E c \in Carriers : Brings(c, p.req, p.msg, generation)
    /\ Waiting /\ undo.req \notin lost => \E c \in Carriers : Brings(c, undo.req, undo.msg, generation)

WaitInv == TypeOK /\ Gates /\ Numbered /\ Carried

LEMMA InitWait == Init => WaitInv
  <1> SUFFICES ASSUME Init PROVE WaitInv
    OBVIOUS
  <1>1. pending = {} /\ undo.phase = "None" /\ gate = 0 /\ generation = 0 /\ job = NoJob
    BY DEF Init, NoUndo
  <1> QED  BY <1>1, InitType DEF WaitInv, Gates, Numbered, Carried, Waiting

\* Steps that leave what is waited for alone, and hand every carrier on.
LEMMA WaitFrame ==
  ASSUME WaitInv, TypeOK', Gates', UNCHANGED <<pending, nextRequest, generation, lost>>,
         UNCHANGED undo \/ (undo.phase = "ForwardPending" /\ undo' = [undo EXCEPT !.requested = TRUE]),
         \A c \in Carriers : c.gen = generation =>
             \E d \in Carriers' : d.req = c.req /\ d.msg = c.msg /\ d.gen = c.gen
  PROVE  WaitInv'
  <1>1. undo'.phase = undo.phase /\ (undo.phase # "None" => undo'.req = undo.req /\ undo'.msg = undo.msg)
    BY ActiveUndo DEF WaitInv, TypeOK, Undo
  <1>2. Waiting' = Waiting
    BY <1>1 DEF Waiting
  <1>3. Numbered'
    BY <1>1, <1>2 DEF WaitInv, Numbered, Waiting
  <1>4. ASSUME NEW r, NEW m, \E c \in Carriers : Brings(c, r, m, generation)
        PROVE  \E c \in Carriers' : Brings(c, r, m, generation')
    <2>1. PICK c \in Carriers : Brings(c, r, m, generation)
      BY <1>4
    <2>2. PICK d \in Carriers' : d.req = c.req /\ d.msg = c.msg /\ d.gen = c.gen
      BY <2>1 DEF Brings
    <2> QED  BY <2>1, <2>2 DEF Brings
  <1>5. Carried'
    BY <1>1, <1>2, <1>4 DEF WaitInv, Carried, Waiting
  <1> QED  BY <1>3, <1>5 DEF WaitInv

LEMMA WaitChange ==
  ASSUME WaitInv, TypeOK', NEW m \in Messages, NEW mut \in Changes, MutateSelected(m, mut)
  PROVE  WaitInv'
  <1> DEFINE c == Mutate(nextRequest, generation, m, mut)
  <1>1. PICK p : pending' = pending \cup {p} /\ p.req = nextRequest /\ p.msg = m
    <2> DEFINE new == [msg |-> m, mut |-> mut, req |-> nextRequest, origin |-> selected,
                       was |-> ~Removes(mut) /\ Visible[m].state.flags[mut.flag],
                       taken |-> IF Removes(mut) THEN TakenRows(m, mut) ELSE {}]
    <2>1. pending' = pending \cup {new}
      BY DEF MutateSelected
    <2>2. new.req = nextRequest /\ new.msg = m
      OBVIOUS
    <2> HIDE DEF new
    <2> QED  BY <2>1, <2>2
  <1>2. /\ mutations' = Append(mutations, c) /\ nextRequest' = nextRequest + 1
        /\ UNCHANGED <<job, events, gate, generation, lost>>
    BY DEF MutateSelected, workerVars
  <1>3. /\ mutations \in Seq(MutateCommands) /\ nextRequest \in Nat /\ generation \in Nat
        /\ \A q \in pending : q.req \in Nat
    BY DEF WaitInv, TypeOK, Pending
  <1>4. c \in MutateCommands /\ c.req = nextRequest /\ c.gen = generation /\ c.msg = m
    BY <1>3, MutateType DEF Mutate, Mutations
  <1> HIDE DEF c
  <1>5. Carriers' = Carriers \cup {c}
    BY <1>2, <1>3, <1>4, AppendElements DEF Carriers, Answers
  <1>6. Gates'
    BY <1>2 DEF WaitInv, Gates
  <1>7. \/ UNCHANGED undo
        \/ undo'.phase = "ForwardPending" /\ undo'.req = nextRequest /\ undo'.msg = m
    BY DEF MutateSelected
  <1>8. Waiting => undo.req \in Nat /\ undo.req < nextRequest
    BY ActiveUndo DEF WaitInv, TypeOK, Numbered, Waiting
  <1>9. Numbered'
    <2>1. /\ \A q \in pending' : q.req < nextRequest'
          /\ \A q, w \in pending' : q.req = w.req => q = w
      BY <1>1, <1>2, <1>3 DEF WaitInv, Numbered
    <2>2. CASE UNCHANGED undo
      BY <1>1, <1>2, <1>3, <1>8, <2>1, <2>2 DEF WaitInv, Numbered, Waiting
    <2>3. CASE undo'.phase = "ForwardPending" /\ undo'.req = nextRequest /\ undo'.msg = m
      BY <1>1, <1>2, <1>3, <2>1, <2>3 DEF Numbered, Waiting
    <2> QED  BY <1>7, <2>2, <2>3
  <1>10. Carried'
    <2>1. Brings(c, nextRequest, m, generation')
      BY <1>2, <1>4 DEF Brings
    <2> QED  BY <1>1, <1>2, <1>5, <1>7, <2>1 DEF WaitInv, Carried, Waiting
  <1> QED  BY <1>6, <1>9, <1>10 DEF WaitInv

\* The undo of a change is sent, the change itself being settled.
LEMMA WaitUndo ==
  ASSUME WaitInv, TypeOK', undo.phase # "None", DispatchUndo, NEW r \in Nat,
         UNCHANGED <<job, gate, generation, lost>>, pending' \subseteq pending,
         \A c \in Answers : c \in Answers' \/ c.req = r, \A p \in pending' : p.req # r
  PROVE  WaitInv'
  <1> DEFINE c == Mutate(nextRequest, generation, undo.msg, Inverse(undo))
  <1>1. undo \in Undo /\ undo.msg \in Messages /\ nextRequest \in Nat /\ generation \in Nat
        /\ mutations \in Seq(MutateCommands)
    BY ActiveUndo DEF WaitInv, TypeOK
  <1>2. c \in MutateCommands /\ c.req = nextRequest /\ c.msg = undo.msg /\ c.gen = generation
    BY <1>1, MutateType, InverseType DEF Mutate
  <1>3. mutations' = Append(mutations, c) /\ nextRequest' = nextRequest + 1
    BY DEF DispatchUndo
  <1>4. undo'.phase = "UndoPending" /\ undo'.req = nextRequest /\ undo'.msg = undo.msg
    BY <1>1 DEF DispatchUndo, Undo
  <1> HIDE DEF c
  <1>5. Elements(mutations') = Elements(mutations) \cup {c}
    BY <1>1, <1>2, <1>3, AppendElements
  <1>6. \A d \in Carriers : d \in Carriers' \/ d.req = r
    BY <1>5 DEF Carriers
  <1>7. c \in Carriers'
    BY <1>5 DEF Carriers
  <1>8. Gates'
    BY DEF WaitInv, Gates
  <1>9. Numbered'
    <2>1. \A p \in pending : p.req \in Nat /\ p.req < nextRequest
      BY DEF WaitInv, TypeOK, Pending, Numbered
    <2> QED  BY <1>1, <1>3, <1>4, <2>1 DEF WaitInv, Numbered, Waiting
  <1>10. Carried'
    <2>1. ASSUME NEW p \in pending', p.req \notin lost PROVE \E d \in Carriers' : Brings(d, p.req, p.msg, generation')
      <3>1. PICK d \in Carriers : Brings(d, p.req, p.msg, generation)
        BY <2>1 DEF WaitInv, Carried
      <3>2. d \in Carriers'
        BY <1>6, <2>1, <3>1 DEF Brings
      <3> QED  BY <3>1, <3>2 DEF Brings
    <2>2. Brings(c, nextRequest, undo.msg, generation')
      BY <1>2 DEF Brings
    <2> QED  BY <1>4, <1>7, <2>1, <2>2 DEF Carried
  <1> QED  BY <1>8, <1>9, <1>10 DEF WaitInv

LEMMA WaitUndoOperation ==
  ASSUME WaitInv, TypeOK', UndoMessageOperation
  PROVE  WaitInv'
  <1>1. UNCHANGED <<job, gate, events, generation, lost, pending>>
    BY DEF UndoMessageOperation, workerVars
  <1>2. CASE undo.phase = "Available" /\ DispatchUndo
    <2>1. nextRequest \in Nat /\ \A p \in pending : p.req \in Nat /\ p.req < nextRequest
      BY DEF WaitInv, TypeOK, Pending, Numbered
    <2>2. \A p \in pending' : p.req # nextRequest
      BY <1>1, <2>1
    <2> QED  BY <1>1, <1>2, <2>1, <2>2, WaitUndo DEF Answers
  <1>3. CASE /\ undo.phase = "ForwardPending" /\ undo' = [undo EXCEPT !.requested = TRUE]
             /\ UNCHANGED <<nextRequest, mutations>>
    BY <1>1, <1>3, WaitFrame DEF WaitInv, Gates, Carriers, Answers
  <1> QED  BY <1>2, <1>3 DEF UndoMessageOperation

LEMMA WaitClear ==
  ASSUME WaitInv, TypeOK', ClearBodyCache
  PROVE  WaitInv'
  <1>1. /\ generation' = generation + 1 /\ generation \in Nat /\ gate \in Nat
        /\ UNCHANGED <<pending, undo, nextRequest, gate, job>>
    BY DEF WaitInv, TypeOK, ClearBodyCache, workerVars
  <1>2. (\A p \in pending : p.req \in lost') /\ (Waiting => undo.req \in lost')
    BY DEF ClearBodyCache, Waiting
  <1>3. Waiting' = Waiting
    BY <1>1 DEF Waiting
  <1>4. Gates'
    BY <1>1 DEF WaitInv, Gates
  <1>5. Numbered'
    BY <1>1, <1>3 DEF WaitInv, Numbered
  <1>6. Carried'
    BY <1>1, <1>2, <1>3 DEF Carried
  <1> QED  BY <1>4, <1>5, <1>6 DEF WaitInv

\* An answer is taken from the channel.  Nothing but what it answers waits for it.
LEMMA WaitDeliver ==
  ASSUME WaitInv, TypeOK', Deliver
  PROVE  WaitInv'
  <1> DEFINE e == Head(events)
  <1>1. /\ events \in Seq(AnswerEvents \cup LoadEvents) /\ events # <<>> /\ events' = Tail(events)
        /\ UNCHANGED <<job, gate, generation, lost>>
    BY DEF WaitInv, TypeOK, Deliver, workerVars
  <1>2. e \in AnswerEvents \cup LoadEvents /\ Elements(events) = {e} \cup Elements(events')
    BY <1>1, HeadElements
  <1> HIDE DEF e
  <1>3. \A c \in Answers : c \in Answers' \/ (c = e /\ e.type = "Answer")
    BY <1>2 DEF Answers
  <1>4. Gates'
    BY <1>1 DEF WaitInv, Gates
  <1>5. CASE /\ UNCHANGED <<undo, pending, nextRequest, mutations>>
             /\ e.type = "Answer" => e.gen # generation
    <2>1. \A c \in Carriers : c.gen = generation => c \in Carriers'
      BY <1>1, <1>3, <1>5 DEF Carriers
    <2> QED  BY <1>1, <1>4, <1>5, <2>1, WaitFrame
  <1>6. ASSUME e.type = "Answer", e.gen = generation, ~IsUndo(e), Answered(e) = {},
               UNCHANGED <<undo, pending, nextRequest, mutations>>
        PROVE  WaitInv'
    <2>1. Waiting' = Waiting /\ Numbered'
      BY <1>6 DEF WaitInv, Numbered, Waiting
    <2>2. \A c \in Carriers : c \in Carriers' \/ c = e
      BY <1>1, <1>3, <1>6 DEF Carriers
    <2>3. \A p \in pending : ~Brings(e, p.req, p.msg, generation)
      BY <1>6 DEF Brings, Answered
    <2>4. Waiting => ~Brings(e, undo.req, undo.msg, generation)
      <3>1. undo.phase = "UndoPending" => ~Brings(e, undo.req, undo.msg, generation)
        BY <1>6 DEF IsUndo, Brings
      <3>2. undo.phase = "ForwardPending" => ~Brings(e, undo.req, undo.msg, generation)
        BY <2>3 DEF WaitInv, Numbered, Brings
      <3> QED  BY <3>1, <3>2 DEF Waiting
    <2>5. Carried'
      BY <1>1, <1>6, <2>1, <2>2, <2>3, <2>4 DEF WaitInv, Carried
    <2> QED  BY <1>4, <2>1, <2>5 DEF WaitInv
  <1>7. ASSUME e.type = "Answer", IsUndo(e), FinishUndoMutation(e)
        PROVE  WaitInv'
    <2>1. undo'.phase = "None" /\ UNCHANGED <<pending, nextRequest, mutations>>
      BY <1>7 DEF FinishUndoMutation, NoUndo
    <2>2. ~Waiting' /\ Numbered'
      BY <2>1 DEF WaitInv, Numbered, Waiting
    <2>3. \A c \in Carriers : c \in Carriers' \/ c = e
      BY <1>1, <1>3, <2>1 DEF Carriers
    <2>4. \A p \in pending : p.req # e.req
      BY <1>7 DEF IsUndo, WaitInv, Numbered
    <2>5. ASSUME NEW p \in pending, p.req \notin lost
          PROVE  \E c \in Carriers' : Brings(c, p.req, p.msg, generation)
      BY <2>3, <2>4, <2>5 DEF WaitInv, Carried, Brings
    <2>6. Carried'
      BY <1>1, <2>1, <2>2, <2>5 DEF Carried
    <2> QED  BY <1>4, <2>2, <2>6 DEF WaitInv
  <1>8. ASSUME NEW p \in Answered(e), e.type = "Answer", ~IsUndo(e), FinishMutation(p, e)
        PROVE  WaitInv'
    <2>1. /\ p \in pending /\ p.req = e.req /\ p.msg = e.msg /\ pending' = pending \ {p}
          /\ e.req \in Nat /\ pending \subseteq Pending
      BY <1>8, PendingFacts DEF Answered, FinishMutation, WaitInv, TypeOK
    <2>2. \A q \in pending' : q.req # e.req
      BY <2>1 DEF WaitInv, Numbered
    <2>3. CASE IsForward(e) /\ DispatchUndo
      <3>1. undo.phase # "None" /\ \A c \in Answers : c \in Answers' \/ c.req = e.req
        BY <1>3, <2>3 DEF IsForward
      <3> QED  BY <1>1, <2>1, <2>2, <2>3, <3>1, WaitUndo
    <2>4. CASE undo' = UndoAfter(e) /\ UNCHANGED <<nextRequest, mutations>>
      <3>1. Waiting' => UNCHANGED undo /\ undo.req # e.req
        <4>1. CASE IsForward(e)
          <5>1. undo \in Undo
            BY <4>1, ActiveUndo DEF IsForward, WaitInv, TypeOK
          <5> QED  BY <2>4, <4>1, <5>1 DEF UndoAfter, Waiting, NoUndo, Undo
        <4>2. CASE ~IsForward(e)
          BY <1>8, <2>1, <2>4, <4>2 DEF UndoAfter, IsForward, Waiting, WaitInv, Numbered
        <4> QED  BY <4>1, <4>2
      <3>2. undo'.phase = "UndoPending" => Waiting'
        BY DEF Waiting
      <3>3. Waiting' => Waiting
        BY <3>1 DEF Waiting
      <3>4. Numbered'
        <4>1. /\ \A q \in pending' : q.req < nextRequest'
              /\ \A q, w \in pending' : q.req = w.req => q = w
          BY <2>1, <2>4 DEF WaitInv, Numbered
        <4>2. Waiting' => undo'.req < nextRequest'
          BY <2>4, <3>1, <3>3 DEF WaitInv, Numbered
        <4>3. undo'.phase = "UndoPending" => \A q \in pending' : q.req # undo'.req
          BY <2>1, <3>1, <3>2 DEF WaitInv, Numbered
        <4>4. undo'.phase = "ForwardPending" => \E q \in pending' : q.req = undo'.req /\ q.msg = undo'.msg
          BY <2>1, <3>1 DEF WaitInv, Numbered, Waiting
        <4> QED  BY <4>1, <4>2, <4>3, <4>4 DEF Numbered
      <3>5. \A c \in Carriers : c \in Carriers' \/ c = e
        BY <1>1, <1>3, <2>4 DEF Carriers
      <3>6. ASSUME NEW q \in pending', q.req \notin lost
            PROVE  \E c \in Carriers' : Brings(c, q.req, q.msg, generation)
        BY <2>1, <2>2, <3>5, <3>6 DEF WaitInv, Carried, Brings
      <3>7. ASSUME Waiting', undo.req \notin lost
            PROVE  \E c \in Carriers' : Brings(c, undo.req, undo.msg, generation)
        BY <3>1, <3>3, <3>5, <3>7 DEF WaitInv, Carried, Brings
      <3>8. Carried'
        BY <1>1, <3>1, <3>6, <3>7 DEF Carried
      <3> QED  BY <1>4, <3>4, <3>8 DEF WaitInv
    <2> QED  BY <1>8, <2>3, <2>4 DEF FinishMutation
  <1> QED  BY <1>5, <1>6, <1>7, <1>8 DEF Deliver, DeliverAnswer, IgnoreAnswer, e, AnswerEvents, LoadEvents

LEMMA WaitWorker ==
  ASSUME WaitInv, TypeOK', Worker
  PROVE  WaitInv'
  <1>1. UNCHANGED <<pending, nextRequest, generation, lost, undo>>
    BY DEF Worker, SetGate, TakeMutation, MutateMessage, AnswerMutation, FetchFolder, uiVars
  <1>2. TypeOK /\ Gates /\ gate \in Nat /\ generation \in Nat
    BY DEF WaitInv, TypeOK
  <1> DEFINE HandedOn == \A c \in Carriers : c.gen = generation =>
                             \E d \in Carriers' : d.req = c.req /\ d.msg = c.msg /\ d.gen = c.gen
  <1>3. CASE SetGate
    <2>1. job # NoJob => job.cmd.gen \in Nat
      BY <1>2, JobFacts DEF TypeOK, LaneJobs, PersistJobs
    <2>2. Gates'
      BY <1>1, <1>2, <1>3, <2>1 DEF Gates, SetGate
    <2>3. HandedOn
      BY <1>3 DEF SetGate, Carriers, Answers
    <2> QED  BY <1>1, <2>2, <2>3, WaitFrame
  <1>4. CASE TakeMutation
    <2>1. /\ mutations \in Seq(MutateCommands) /\ mutations # <<>> /\ mutations' = Tail(mutations)
          /\ job = NoJob /\ UNCHANGED <<gate, events>>
      BY <1>2, <1>4 DEF TypeOK, TakeMutation, uiVars
    <2>2. /\ Elements(mutations) = {Head(mutations)} \cup Elements(mutations')
          /\ Head(mutations) \in MutateCommands
      BY <2>1, HeadElements
    <2>3. Head(mutations).gen \in Nat /\ Head(mutations).gen <= gate
      BY <1>4, <2>2 DEF TakeMutation, MutateCommands
    <2>4. job' # NoJob => job'.cmd = Head(mutations)
      BY <1>4 DEF TakeMutation
    <2>5. Gates'
      BY <1>1, <1>2, <2>1, <2>3, <2>4 DEF Gates
    <2>6. Head(mutations).gen = generation => job' # NoJob
      BY <1>2, <1>4, <2>3 DEF Gates, TakeMutation, NoJob
    <2>7. HandedOn
      BY <2>1, <2>2, <2>4, <2>6 DEF Carriers, Answers
    <2> QED  BY <1>1, <2>5, <2>7, WaitFrame
  <1>5. CASE MutateMessage
    <2>1. /\ job # NoJob /\ job.cmd.gen \in Nat /\ job.cmd.gen <= gate /\ UNCHANGED <<gate, mutations, events>>
      BY <1>2, <1>5, JobFacts DEF MutateMessage, uiVars, Gates
    <2>2. (job' = NoJob /\ job.cmd.gen # gate) \/ (job' # NoJob /\ job'.cmd = job.cmd)
      <3>1. ASSUME NEW result, NEW t, job' = [pc |-> "persist", cmd |-> job.cmd, result |-> result, state |-> t]
            PROVE  job' # NoJob /\ job'.cmd = job.cmd
        BY <3>1 DEF NoJob
      <3>2. CASE job.cmd.gen # gate /\ job' = NoJob
        BY <3>2
      <3>3. CASE \E t \in GmailStates, result \in Results :
                    job' = [pc |-> "persist", cmd |-> job.cmd, result |-> result, state |-> t]
        <4>1. PICK t \in GmailStates, result \in Results :
                    job' = [pc |-> "persist", cmd |-> job.cmd, result |-> result, state |-> t]
          BY <3>3
        <4> QED  BY <3>1, <4>1
      <3>4. \/ job.cmd.gen # gate /\ job' = NoJob
            \/ \E t \in GmailStates, result \in Results :
                  job' = [pc |-> "persist", cmd |-> job.cmd, result |-> result, state |-> t]
        BY <1>2, <1>5, MutateMessageFacts
      <3> QED  BY <3>2, <3>3, <3>4
    <2>3. Gates'
      BY <1>1, <1>2, <2>1, <2>2 DEF Gates
    <2>4. HandedOn
      BY <1>2, <2>1, <2>2 DEF Carriers, Answers, Gates
    <2> QED  BY <1>1, <2>3, <2>4, WaitFrame
  <1>6. CASE AnswerMutation
    <2> DEFINE a == AnswerOf(job.cmd, job.result, job.state)
    <2>1. /\ job.pc = "persist" /\ job # NoJob /\ job' = NoJob /\ job.cmd.gen \in Nat /\ job.cmd.gen <= gate
          /\ UNCHANGED <<gate, mutations>> /\ events \in Seq(AnswerEvents \cup LoadEvents)
      BY <1>2, <1>6, JobFacts DEF AnswerMutation, uiVars, Gates, TypeOK
    <2>2. a \in AnswerEvents /\ a.req = job.cmd.req /\ a.msg = job.cmd.msg /\ a.gen = job.cmd.gen /\ a.type = "Answer"
      BY <1>2, <2>1, JobFacts DEF AnswerOf, AnswerEvents, GmailStates
    <2>3. events' = IF job.cmd.gen = gate THEN Append(events, a) ELSE events
      BY <1>6 DEF AnswerMutation
    <2> HIDE DEF a
    <2>4. Elements(Append(events, a)) = Elements(events) \cup {a}
      BY <2>1, <2>2, AppendElements
    <2>5. Gates'
      BY <1>1, <1>2, <2>1 DEF Gates
    <2>6. Answers \subseteq Answers' /\ (job.cmd.gen = generation => a \in Answers')
      BY <1>2, <2>1, <2>2, <2>3, <2>4 DEF Answers, Gates
    <2>7. HandedOn
      BY <2>1, <2>2, <2>6 DEF Carriers
    <2> QED  BY <1>1, <2>5, <2>7, WaitFrame
  <1>7. CASE FetchFolder
    <2> DEFINE l == [type |-> "FolderLoaded", req |-> load.req, rows |-> Listing(load.folder)]
    <2>1. events \in Seq(AnswerEvents \cup LoadEvents) /\ l \in LoadEvents
      BY <1>2, ListingType DEF TypeOK, GmailStates, LoadEvents
    <2>2. Elements(Append(events, l)) = Elements(events) \cup {l}
      BY <2>1, AppendElements
    <2> HIDE DEF l
    <2>3. UNCHANGED <<gate, job, mutations>> /\ events' = Append(events, l)
      BY <1>7 DEF FetchFolder, uiVars, l
    <2>4. Gates'
      BY <1>1, <1>2, <2>3 DEF Gates
    <2>5. HandedOn
      BY <2>2, <2>3 DEF Carriers, Answers
    <2> QED  BY <1>1, <2>4, <2>5, WaitFrame
  <1> QED  BY <1>3, <1>4, <1>5, <1>6, <1>7 DEF Worker

LEMMA NextWait ==
  ASSUME WaitInv, [Next]_vars
  PROVE  WaitInv'
  <1>1. TypeOK'
    BY NextType DEF WaitInv
  <1>2. CASE UNCHANGED vars \/ Search \/ CloseSearch \/ \E f \in Folders : LoadFolder(f)
    <2>1. UNCHANGED <<pending, nextRequest, generation, lost, undo, gate, job, mutations, events>>
      BY <1>2 DEF vars, uiVars, workerVars, Search, CloseSearch, LoadFolder
    <2>2. Gates' /\ Carriers' = Carriers
      BY <2>1 DEF WaitInv, Gates, Carriers, Answers
    <2> QED  BY <1>1, <2>1, <2>2, WaitFrame
  <1>3. CASE \E m \in Messages, mut \in Changes : MutateSelected(m, mut)
    BY <1>1, <1>3, WaitChange
  <1> QED  BY <1>1, <1>2, <1>3, WaitUndoOperation, WaitClear, WaitDeliver, WaitWorker DEF Next, Person

LEMMA WaitInvariant == Spec => []WaitInv
  <1>1. WaitInv /\ [Next]_vars => WaitInv'
    BY NextWait
  <1> QED  BY <1>1, InitWait, PTL DEF Spec

\* Whatever the lists or the undo wait for is in the channels or with the
\* actor, unless Clear Cache made it void: the gate drops no command of the
\* generation that the lists believe in.
THEOREM WaitedForInFlight == Spec => []AwaitedIsInFlight
  <1>1. WaitInv => AwaitedIsInFlight
    <2> SUFFICES ASSUME WaitInv, NEW r \in Awaited \ lost PROVE InFlight(r)
      BY DEF AwaitedIsInFlight
    <2>1. \E c \in Carriers : c.req = r
      <3>1. CASE \E p \in pending : p.req = r
        BY <3>1 DEF WaitInv, Carried, Brings
      <3>2. CASE Waiting /\ undo.req = r
        BY <3>2 DEF WaitInv, Carried, Brings
      <3> QED  BY <3>1, <3>2 DEF Awaited, Waiting
    <2> QED  BY <2>1 DEF Carriers, InFlight, Answers
  <1> QED  BY <1>1, WaitInvariant, PTL
=============================================================================
