------------------------ MODULE AccountRegistryProofs ------------------------
(* What TLAPS proves about AccountRegistry, for any ids, identities and       *)
(* bounds: a removed account stays removed, no identity has two rows, a row   *)
(* has its token and its cache or neither, and no list hides what Gmail still *)
(* has in the Inbox.                                                          *)
EXTENDS AccountRegistry, FiniteSetTheorems, TLAPS

-----------------------------------------------------------------------------
(* Sequences of commands and events                                           *)

IsSeq(s) == \E S : s \in Seq(S)

Has(s, T, i) == \E n \in DOMAIN s : s[n].type \in T /\ s[n].id = i

\* One element at most of a type in T for each id.
Orderly(s, T) ==
    /\ IsSeq(s)
    /\ \A n \in DOMAIN s : s[n].type \in T => s[n].id \in Ids
    /\ \A m, n \in DOMAIN s : s[m].type \in T /\ s[n].type \in T /\ s[m].id = s[n].id => m = n

\* The events that put the row of an id into the lists of the window.
Names(e, i) ==
    \/ e.type \in {"AccountAdded", "LegacyRegistered", "AccountSynced"} /\ e.id = i
    \/ e.type = "Restored" /\ e.rows[i] # None

Named(s, i) == \E n \in DOMAIN s : Names(s[n], i)

LEMMA AppendIs ==
  ASSUME NEW s, IsSeq(s), NEW c
  PROVE  /\ IsSeq(Append(s, c)) /\ s \o <<c>> = Append(s, c) /\ s \o <<>> = s
         /\ DOMAIN s = 1 .. Len(s) /\ Len(s) \in Nat
         /\ DOMAIN Append(s, c) = 1 .. (Len(s) + 1)
         /\ \A n \in DOMAIN s : Append(s, c)[n] = s[n]
         /\ Append(s, c)[Len(s) + 1] = c
  <1>1. PICK S : s \in Seq(S)
    BY DEF IsSeq
  <1>2. s \in Seq(S \cup {c}) /\ c \in S \cup {c}
    BY <1>1
  <1>3. Append(s, c) \in Seq(S \cup {c}) /\ s \o <<c>> = Append(s, c) /\ s \o <<>> = s
    BY <1>2
  <1> QED  BY <1>2, <1>3 DEF IsSeq

LEMMA TailIs ==
  ASSUME NEW s, IsSeq(s), s # <<>>
  PROVE  /\ IsSeq(Tail(s)) /\ 1 \in DOMAIN s /\ Head(s) = s[1]
         /\ \A n \in DOMAIN Tail(s) : n \in Nat /\ n + 1 # 1 /\ n + 1 \in DOMAIN s /\ Tail(s)[n] = s[n + 1]
  <1>1. PICK S : s \in Seq(S)
    BY DEF IsSeq
  <1> QED  BY <1>1 DEF IsSeq

LEMMA HasMore ==
  ASSUME NEW s, IsSeq(s), NEW c, NEW T, NEW i
  PROVE  /\ Has(Append(s, c), T, i) => Has(s, T, i) \/ (c.type \in T /\ c.id = i)
         /\ Named(Append(s, c), i) => Named(s, i) \/ Names(c, i)
  BY AppendIs DEF Has, Named

LEMMA OrderlyMore ==
  ASSUME NEW s, NEW T, Orderly(s, T), NEW c, c.type \in T => c.id \in Ids /\ ~Has(s, T, c.id)
  PROVE  Orderly(Append(s, c), T)
  <1> DEFINE t == Append(s, c)
  <1>1. /\ IsSeq(t) /\ Len(s) \in Nat /\ DOMAIN s = 1 .. Len(s) /\ DOMAIN t = 1 .. (Len(s) + 1)
        /\ \A n \in DOMAIN s : t[n] = s[n]
        /\ t[Len(s) + 1] = c
    BY AppendIs DEF Orderly
  <1> HIDE DEF t
  <1>2. \A n \in DOMAIN t : n \in DOMAIN s \/ n = Len(s) + 1
    BY <1>1
  <1>3. \A n \in DOMAIN t : t[n].type \in T => t[n].id \in Ids
    BY <1>1, <1>2 DEF Orderly
  <1>4. ASSUME NEW m \in DOMAIN t, NEW n \in DOMAIN t, t[m].type \in T, t[n].type \in T, t[m].id = t[n].id
        PROVE  m = n
    <2>1. CASE m \in DOMAIN s /\ n \in DOMAIN s
      BY <1>1, <1>4, <2>1 DEF Orderly
    <2>2. CASE m \in DOMAIN s /\ n = Len(s) + 1
      BY <1>1, <1>4, <2>2 DEF Has
    <2>3. CASE m = Len(s) + 1 /\ n \in DOMAIN s
      BY <1>1, <1>4, <2>3 DEF Has
    <2> QED  BY <1>2, <2>1, <2>2, <2>3
  <1> QED  BY <1>1, <1>3, <1>4 DEF Orderly, t

LEMMA HasLess ==
  ASSUME NEW s, IsSeq(s), s # <<>>, NEW T, NEW i
  PROVE  /\ Has(Tail(s), T, i) => Has(s, T, i)
         /\ Named(Tail(s), i) => Named(s, i)
         /\ Head(s).type \in T /\ Head(s).id = i => Has(s, T, i)
         /\ Names(Head(s), i) => Named(s, i)
  BY TailIs DEF Has, Named

LEMMA OrderlyLess ==
  ASSUME NEW s, s # <<>>, NEW T, Orderly(s, T)
  PROVE  /\ Orderly(Tail(s), T)
         /\ Head(s).type \in T => Head(s).id \in Ids /\ ~Has(Tail(s), T, Head(s).id)
  <1>1. /\ IsSeq(Tail(s)) /\ 1 \in DOMAIN s /\ Head(s) = s[1]
        /\ \A n \in DOMAIN Tail(s) : n \in Nat /\ n + 1 # 1 /\ n + 1 \in DOMAIN s /\ Tail(s)[n] = s[n + 1]
    BY TailIs DEF Orderly
  <1>2. ASSUME NEW m \in DOMAIN Tail(s), NEW n \in DOMAIN Tail(s), m + 1 = n + 1 PROVE m = n
    BY <1>1, <1>2
  <1>3. Orderly(Tail(s), T)
    BY <1>1, <1>2 DEF Orderly
  <1>4. Head(s).type \in T => Head(s).id \in Ids /\ ~Has(Tail(s), T, Head(s).id)
    BY <1>1 DEF Orderly, Has
  <1> QED  BY <1>3, <1>4

LEMMA EmptyIs ==
  ASSUME NEW T, NEW i
  PROVE  Orderly(<<>>, T) /\ ~Has(<<>>, T, i) /\ ~Named(<<>>, i)
  <1>1. <<>> \in Seq({}) /\ DOMAIN <<>> = {}
    OBVIOUS
  <1> QED  BY <1>1 DEF Orderly, Has, Named, IsSeq

LEMMA OneIs ==
  ASSUME NEW c, NEW T, NEW i, c.type \notin T
  PROVE  Orderly(<<c>>, T) /\ ~Has(<<c>>, T, i)
  <1>1. <<c>> \in Seq({c}) /\ DOMAIN <<c>> = {1} /\ <<c>>[1] = c
    OBVIOUS
  <1> QED  BY <1>1 DEF Orderly, Has, IsSeq

-----------------------------------------------------------------------------
(* The invariant                                                              *)

OfAccount == {"ReconnectAccount", "RemoveAccount"}
OfProjection == {"AccountSynced", "AccountRemoved", "OperationFailed", "OperationExpired"}
TaskFields == {"op", "pc", "id", "email", "inbox"}
IsFetch(f) == DOMAIN f = {"kind", "id", "email", "req", "pc"} /\ f.kind \in {"SendAs", "Archive"}

Shapes ==
    /\ DOMAIN registry = Ids /\ DOMAIN cache = Ids /\ DOMAIN accounts = Ids
    /\ DOMAIN ops = Ids /\ DOMAIN tasks = Ids
    /\ nextOp \in Nat \ {0}
    /\ used \subseteq Ids /\ removed \subseteq used
    /\ Running(addTask) => DOMAIN addTask = TaskFields
    /\ \A i \in Ids : Running(tasks[i]) => DOMAIN tasks[i] = TaskFields /\ tasks[i].id = i
    /\ legacyTask.pc # "none" => DOMAIN legacyTask = {"op", "pc", "email"}
    /\ legacyTask.pc \in {"register", "registerNew"} => legacyTask.email # None
    /\ \A f \in fetches : IsFetch(f)

\* Where an account with an operation stands: asked for, at work or answered.
OneAtATime(i) ==
    /\ Has(commands, OfAccount, i) => ops[i] # 0 /\ ~Running(tasks[i]) /\ ~Has(events, OfProjection, i)
    /\ Has(events, OfProjection, i) => ops[i] # 0 /\ ~Running(tasks[i])
    /\ Running(tasks[i]) => ops[i] # 0

Turns ==
    /\ Orderly(commands, OfAccount) /\ Orderly(events, OfProjection)
    /\ \A i \in Ids : OneAtATime(i)

\* Some write of add_account may still give i a cache or a row.
Before == {"Token", "Cache", "Record"}
Late(w) == w \in strays /\ w.do \in {"Cache", "Record"}
Adding(i) ==
    \/ addTask.pc \in Before /\ addTask.id = i
    \/ \E w \in strays : Late(w) /\ w.id = i

OneAdder ==
    /\ \A w \in strays : Late(w) /\ addTask.pc \in Before => w.id # addTask.id
    /\ \A v, w \in strays : Late(v) /\ Late(w) /\ v.id = w.id => v = w

\* No row, no list and no operation knows of i.
Unknown(i) ==
    /\ registry[i] = None /\ accounts[i] = NoAccount /\ i \notin removed
    /\ ~Has(commands, OfAccount, i) /\ ~Running(tasks[i]) /\ ~Named(events, i)

Hidden ==
    /\ OneAdder
    /\ \A i \in Ids : Adding(i) => i \in used
    /\ \A i \in Ids : i \notin used \/ Adding(i) => Unknown(i)

Stage(i) ==
    /\ tasks[i].pc \in {"Token", "fetch", "Cache"} => i \notin removed
    /\ tasks[i].pc \in {"NoToken", "NoRecord"} => cache[i] = "None"

Gone == RemovedStaysGone /\ \A i \in Ids : Stage(i)

RegistryInv == Shapes /\ Turns /\ Hidden /\ Gone

-----------------------------------------------------------------------------
(* What a step does to the channels                                           *)

\* No command or answer of an operation is added.
CommandsCalm ==
    /\ Orderly(commands', OfAccount)
    /\ \A i \in Ids : Has(commands', OfAccount, i) => Has(commands, OfAccount, i)
EventsCalm ==
    /\ Orderly(events', OfProjection)
    /\ \A i \in Ids : Has(events', OfProjection, i) => Has(events, OfProjection, i)

\* No row enters the lists, nor an event that would bring one.
NamesNothing == \A i \in Ids : Named(events', i) => Named(events, i) \/ registry[i] # None

LEMMA CommandSent ==
  ASSUME Turns, NEW c, commands' \in {commands \o <<c>>, Append(commands, c), commands, commands \o <<>>},
         c.type \notin OfAccount
  PROVE  CommandsCalm
  <1>1. Orderly(commands, OfAccount) /\ IsSeq(commands)
    BY DEF Turns, Orderly
  <1>2. commands' \in {Append(commands, c), commands}
    BY <1>1, AppendIs
  <1>3. Orderly(Append(commands, c), OfAccount)
    BY <1>1, OrderlyMore
  <1>4. \A i \in Ids : Has(Append(commands, c), OfAccount, i) => Has(commands, OfAccount, i)
    BY <1>1, HasMore
  <1> QED  BY <1>1, <1>2, <1>3, <1>4 DEF CommandsCalm

LEMMA CommandTaken ==
  ASSUME Turns, commands # <<>>, commands' = Tail(commands)
  PROVE  /\ CommandsCalm
         /\ Head(commands).type \in OfAccount =>
                /\ Head(commands).id \in Ids
                /\ Has(commands, OfAccount, Head(commands).id)
                /\ ~Has(commands', OfAccount, Head(commands).id)
  <1>1. Orderly(commands, OfAccount) /\ IsSeq(commands)
    BY DEF Turns, Orderly
  <1>2. /\ Orderly(Tail(commands), OfAccount)
        /\ Head(commands).type \in OfAccount =>
               Head(commands).id \in Ids /\ ~Has(Tail(commands), OfAccount, Head(commands).id)
    BY <1>1, OrderlyLess
  <1>3. \A i \in Ids : Has(Tail(commands), OfAccount, i) => Has(commands, OfAccount, i)
    BY <1>1, HasLess
  <1>4. Head(commands).type \in OfAccount => Has(commands, OfAccount, Head(commands).id)
    BY <1>1, HasLess
  <1> QED  BY <1>2, <1>3, <1>4 DEF CommandsCalm

LEMMA EventTold ==
  ASSUME Turns, NEW e, events' = events \o <<e>>
  PROVE  /\ e.type \notin OfProjection => EventsCalm
         /\ e.id \in Ids /\ ~Has(events, OfProjection, e.id) =>
                /\ Orderly(events', OfProjection)
                /\ \A i \in Ids : i # e.id /\ Has(events', OfProjection, i) => Has(events, OfProjection, i)
         /\ \A i \in Ids : Named(events', i) => Named(events, i) \/ Names(e, i)
  <1>1. Orderly(events, OfProjection) /\ IsSeq(events)
    BY DEF Turns, Orderly
  <1>2. events' = Append(events, e)
    BY <1>1, AppendIs
  <1>3. \A i \in Ids : /\ Has(events', OfProjection, i) =>
                              Has(events, OfProjection, i) \/ (e.type \in OfProjection /\ e.id = i)
                       /\ Named(events', i) => Named(events, i) \/ Names(e, i)
    BY <1>1, <1>2, HasMore
  <1>4. e.type \notin OfProjection => Orderly(events', OfProjection)
    BY <1>1, <1>2, OrderlyMore
  <1>5. e.id \in Ids /\ ~Has(events, OfProjection, e.id) => Orderly(events', OfProjection)
    BY <1>1, <1>2, OrderlyMore
  <1> QED  BY <1>3, <1>4, <1>5 DEF EventsCalm

LEMMA NothingTold ==
  ASSUME Turns, events' = events \/ Emit(<<>>)
  PROVE  EventsCalm /\ NamesNothing /\ \A i \in Ids : Named(events', i) => Named(events, i)
  <1>1. Orderly(events, OfProjection) /\ IsSeq(events)
    BY DEF Turns, Orderly
  <1>2. events' = events
    BY <1>1, AppendIs DEF Emit
  <1> QED  BY <1>1, <1>2 DEF EventsCalm, NamesNothing

\* The answers of the tasks that no list takes a row from.
LEMMA AnswerTold ==
  ASSUME Turns, NEW type, NEW op, Emit(<<Answer(type, op)>>),
         type \notin OfProjection \cup {"AccountAdded", "LegacyRegistered", "Restored"}
  PROVE  EventsCalm /\ NamesNothing
  <1> DEFINE e == Answer(type, op)
  <1>1. e.type = type
    BY DEF Answer
  <1>2. events' = events \o <<e>>
    BY DEF Emit
  <1>3. \A i \in Ids : ~Names(e, i)
    BY <1>1 DEF Names, OfProjection
  <1> HIDE DEF e
  <1> QED  BY <1>1, <1>2, <1>3, EventTold DEF NamesNothing

LEMMA NoCommand ==
  ASSUME Turns, commands' = commands
  PROVE  CommandsCalm
  BY DEF Turns, CommandsCalm

-----------------------------------------------------------------------------
(* What keeps the invariant                                                   *)

SameAdders ==
    /\ OneAdder'
    /\ \A i \in Ids : Adding(i)' => Adding(i)

LEMMA AddersStay ==
  ASSUME OneAdder, UNCHANGED <<addTask, strays>>
  PROVE  SameAdders
  BY DEF SameAdders, OneAdder, Adding, Late

LEMMA TurnsStay ==
  ASSUME Turns, UNCHANGED <<ops, tasks>>, CommandsCalm, EventsCalm
  PROVE  Turns'
  BY DEF Turns, CommandsCalm, EventsCalm, OneAtATime

\* A step that leaves rows, caches, lists and account operations alone.
LEMMA StaysApart ==
  ASSUME RegistryInv, Shapes', SameAdders, CommandsCalm, EventsCalm, NamesNothing,
         UNCHANGED <<registry, cache, accounts, ops, tasks, used, removed>>
  PROVE  RegistryInv'
  <1>1. Turns'
    BY TurnsStay DEF RegistryInv
  <1>2. Hidden'
    <2>1. ASSUME NEW i \in Ids, i \notin used \/ Adding(i) PROVE Unknown(i)'
      BY <2>1 DEF RegistryInv, Hidden, Unknown, CommandsCalm, NamesNothing
    <2> QED  BY <2>1 DEF RegistryInv, Hidden, SameAdders
  <1>3. Gone'
    BY DEF RegistryInv, Gone, RemovedStaysGone, Stage
  <1> QED  BY <1>1, <1>2, <1>3 DEF RegistryInv

-----------------------------------------------------------------------------
(* The person                                                                 *)

LEMMA Start == Init => RegistryInv
  <1> SUFFICES ASSUME Init PROVE RegistryInv
    OBVIOUS
  <1>1. Shapes
    BY DEF Init, Shapes, NewAccounts, NoTask, Running, Rows
  <1> DEFINE c == [type |-> "Restore", op |-> 1]
  <1>2. /\ Orderly(commands, OfAccount) /\ Orderly(events, OfProjection)
        /\ \A i \in Ids : ~Has(commands, OfAccount, i) /\ ~Has(events, OfProjection, i) /\ ~Named(events, i)
    <2>1. commands = <<c>> /\ c.type \notin OfAccount /\ events = <<>>
      BY DEF Init, OfAccount
    <2> HIDE DEF c
    <2> QED  BY <2>1, OneIs, EmptyIs
  <1>3. \A i \in Ids : ~Running(tasks[i]) /\ tasks[i].pc = "none"
    BY DEF Init, NoTask, Running
  <1>4. Turns
    BY <1>2, <1>3 DEF Turns, OneAtATime
  <1>5. OneAdder /\ \A i \in Ids : ~Adding(i)
    BY DEF Init, OneAdder, Adding, Late, NoTask, Before
  <1>6. Hidden
    <2>1. \A i \in Ids : i \notin used => registry[i] = None /\ i \notin removed /\ accounts[i] = NoAccount
      BY DEF Init, Rows, NewAccounts
    <2> QED  BY <1>2, <1>3, <1>5, <2>1 DEF Hidden, Unknown
  <1>7. Gone
    BY <1>3 DEF Init, Gone, RemovedStaysGone, Stage
  <1> QED  BY <1>1, <1>4, <1>6, <1>7 DEF RegistryInv

LEMMA RestartKeeps == RegistryInv /\ Restart => RegistryInv'
  <1> SUFFICES ASSUME RegistryInv, Restart PROVE RegistryInv'
    OBVIOUS
  <1>1. Shapes'
    BY DEF Restart, RegistryInv, Shapes, NewAccounts, NoTask, Running, disk
  <1> DEFINE c == [type |-> "Restore", op |-> nextOp]
  <1>2. /\ Orderly(commands', OfAccount) /\ Orderly(events', OfProjection)
        /\ \A i \in Ids : ~Has(commands', OfAccount, i) /\ ~Has(events', OfProjection, i) /\ ~Named(events', i)
    <2>1. commands' = <<c>> /\ c.type \notin OfAccount /\ events' = <<>>
      BY DEF Restart, OfAccount
    <2> HIDE DEF c
    <2> QED  BY <2>1, OneIs, EmptyIs
  <1>3. \A i \in Ids : ~Running(tasks'[i]) /\ tasks'[i].pc = "none"
    BY DEF Restart, NoTask, Running
  <1>4. Turns'
    BY <1>2, <1>3 DEF Turns, OneAtATime
  <1>5. OneAdder' /\ \A i \in Ids : ~Adding(i)'
    BY DEF Restart, OneAdder, Adding, Late, NoTask, Before
  <1>6. Hidden'
    <2>1. \A i \in Ids : i \notin used' => registry'[i] = None /\ i \notin removed' /\ accounts'[i] = NoAccount
      BY DEF Restart, RegistryInv, Hidden, Unknown, NewAccounts, disk
    <2> QED  BY <1>2, <1>3, <1>5, <2>1 DEF Hidden, Unknown
  <1>7. Gone'
    BY <1>3 DEF Restart, RegistryInv, Gone, RemovedStaysGone, Stage, disk
  <1> QED  BY <1>1, <1>4, <1>6, <1>7 DEF RegistryInv

\* A gesture that is about no account, with at most one command.
LEMMA GestureKeeps ==
  ASSUME RegistryInv, NEW c, c.type \notin OfAccount, commands' \in {commands \o <<c>>, commands},
         nextOp' \in {nextOp, nextOp + 1},
         UNCHANGED <<disk, accounts, ops, events, worker, used, removed>>
  PROVE  RegistryInv'
  <1>1. Shapes'
    BY DEF RegistryInv, Shapes, disk, worker
  <1>2. CommandsCalm
    BY CommandSent DEF RegistryInv
  <1>3. EventsCalm /\ NamesNothing
    BY NothingTold DEF RegistryInv
  <1>4. SameAdders
    BY AddersStay DEF RegistryInv, Hidden, worker
  <1> QED  BY <1>1, <1>2, <1>3, <1>4, StaysApart DEF disk, worker

LEMMA OperationKeeps ==
  ASSUME RegistryInv, NEW i \in Ids, NEW type \in OfAccount, NEW s, AccountOperation(type, i, s)
  PROVE  RegistryInv'
  <1> DEFINE c == [type |-> type, op |-> nextOp, id |-> i]
  <1>1. /\ ops[i] = 0 /\ accounts[i] # NoAccount /\ nextOp' = nextOp + 1
        /\ ops' = [ops EXCEPT ![i] = nextOp]
        /\ accounts' = [accounts EXCEPT ![i].session = s]
        /\ commands' = commands \o <<c>>
        /\ UNCHANGED <<disk, events, worker, used, removed>>
    BY DEF AccountOperation, Listed, Allocate, Send, seen
  <1>2. c.type \in OfAccount /\ c.id = i
    OBVIOUS
  <1> HIDE DEF c
  <1>3. /\ ~Has(commands, OfAccount, i) /\ ~Has(events, OfProjection, i) /\ ~Running(tasks[i])
    BY <1>1 DEF RegistryInv, Turns, OneAtATime
  <1>4. Orderly(commands, OfAccount) /\ IsSeq(commands)
    BY DEF RegistryInv, Turns, Orderly
  <1>5. commands' = Append(commands, c)
    BY <1>1, <1>4, AppendIs
  <1>6. Orderly(commands', OfAccount)
    BY <1>2, <1>3, <1>4, <1>5, OrderlyMore
  <1>7. \A j \in Ids : Has(commands', OfAccount, j) => Has(commands, OfAccount, j) \/ j = i
    BY <1>2, <1>4, <1>5, HasMore
  <1>8. /\ Orderly(events', OfProjection)
        /\ \A j \in Ids : /\ Has(events', OfProjection, j) => Has(events, OfProjection, j)
                          /\ Named(events', j) => Named(events, j)
    BY <1>1, NothingTold DEF RegistryInv, EventsCalm
  <1>9. Shapes'
    BY <1>1 DEF RegistryInv, Shapes, disk, worker
  <1>10. Turns'
    <2>1. ops'[i] # 0 /\ \A j \in Ids : j # i => ops'[j] = ops[j]
      BY <1>1 DEF RegistryInv, Shapes
    <2>2. \A j \in Ids : tasks'[j] = tasks[j]
      BY <1>1 DEF worker
    <2>3. ASSUME NEW j \in Ids PROVE OneAtATime(j)'
      BY <1>3, <1>7, <1>8, <2>1, <2>2 DEF RegistryInv, Turns, OneAtATime
    <2> QED  BY <1>6, <1>8, <2>3 DEF Turns
  <1>11. Hidden'
    <2>1. SameAdders
      BY <1>1, AddersStay DEF RegistryInv, Hidden, worker
    <2>2. ASSUME NEW j \in Ids, j \notin used \/ Adding(j) PROVE Unknown(j)'
      <3>1. Unknown(j) /\ j # i
        BY <1>1, <2>2 DEF RegistryInv, Hidden, Unknown
      <3>2. accounts'[j] = accounts[j]
        BY <1>1, <3>1 DEF RegistryInv, Shapes
      <3> QED  BY <1>1, <1>7, <1>8, <3>1, <3>2 DEF Unknown, disk, worker
    <2> QED  BY <1>1, <2>1, <2>2 DEF RegistryInv, Hidden, SameAdders
  <1>12. Gone'
    BY <1>1 DEF RegistryInv, Gone, RemovedStaysGone, Stage, disk, worker
  <1> QED  BY <1>9, <1>10, <1>11, <1>12 DEF RegistryInv

LEMMA PersonKeeps == RegistryInv /\ Person => RegistryInv'
  <1> SUFFICES ASSUME RegistryInv, Person PROVE RegistryInv'
    OBVIOUS
  <1>1. ASSUME NEW kind \in {"Restore", "Connect"}, StartSync(kind) PROVE RegistryInv'
    <2> DEFINE c == [type |-> kind, op |-> nextOp]
    <2>1. /\ c.type \notin OfAccount /\ commands' = commands \o <<c>> /\ nextOp' = nextOp + 1
          /\ UNCHANGED <<disk, accounts, ops, events, worker, used, removed>>
      BY <1>1 DEF StartSync, Allocate, Send, seen, OfAccount
    <2> QED  BY <2>1, GestureKeeps
  <1>2. CASE StartAddAccount
    <2> DEFINE c == [type |-> "AddAccount", op |-> nextOp]
    <2>1. /\ c.type \notin OfAccount /\ commands' = commands \o <<c>> /\ nextOp' = nextOp + 1
          /\ UNCHANGED <<disk, accounts, ops, events, worker, used, removed>>
      BY <1>2 DEF StartAddAccount, Allocate, Send, seen, OfAccount
    <2> QED  BY <2>1, GestureKeeps
  <1>3. ASSUME NEW i \in Ids, ReconnectAccount(i) \/ RemoveAccount(i) PROVE RegistryInv'
    BY <1>3, OperationKeeps DEF ReconnectAccount, RemoveAccount, OfAccount
  <1>4. ASSUME NEW i \in Ids, SelectAccountMessage(i) PROVE RegistryInv'
    <2> DEFINE c == [type |-> "none"]
    <2>1. /\ c.type \notin OfAccount /\ commands' = commands /\ nextOp' = nextOp
          /\ UNCHANGED <<disk, accounts, ops, events, worker, used, removed>>
      BY <1>4 DEF SelectAccountMessage, seen, OfAccount
    <2> QED  BY <2>1, GestureKeeps
  <1>5. CASE CancelAdd
    <2> DEFINE c == [type |-> "Cancel", op |-> adding]
    <2>1. /\ c.type \notin OfAccount /\ commands' = commands \o <<c>> /\ nextOp' = nextOp
          /\ UNCHANGED <<disk, accounts, ops, events, worker, used, removed>>
      BY <1>5 DEF CancelAdd, Send, seen, OfAccount
    <2> QED  BY <2>1, GestureKeeps
  <1>6. CASE CancelSync
    <2> DEFINE c == [type |-> "Cancel", op |-> nextOp]
    <2>1. /\ c.type \notin OfAccount /\ commands' = commands \o <<c>> /\ nextOp' = nextOp + 1
          /\ UNCHANGED <<disk, accounts, ops, events, worker, used, removed>>
      BY <1>6 DEF CancelSync, Allocate, Send, seen, OfAccount
    <2> QED  BY <2>1, GestureKeeps
  <1>7. CASE Disconnect
    <2> DEFINE c == [type |-> "Disconnect", op |-> nextOp]
    <2>1. /\ c.type \notin OfAccount /\ commands' = commands \o <<c>> /\ nextOp' = nextOp + 1
          /\ UNCHANGED <<disk, accounts, ops, events, worker, used, removed>>
      BY <1>7 DEF Disconnect, Allocate, Send, seen, OfAccount
    <2> QED  BY <2>1, GestureKeeps
  <1>8. CASE ArchiveSelected
    <2> DEFINE c == [type |-> "Archive", id |-> selected, email |-> accounts[selected].email,
                     req |-> archives']
    <2>1. /\ c.type \notin OfAccount /\ commands' = commands \o <<c>> /\ nextOp' = nextOp
          /\ UNCHANGED <<disk, accounts, ops, events, worker, used, removed>>
      BY <1>8 DEF ArchiveSelected, Send, ui, OfAccount
    <2> QED  BY <2>1, GestureKeeps
  <1> QED  BY <1>1, <1>2, <1>3, <1>4, <1>5, <1>6, <1>7, <1>8 DEF Person

-----------------------------------------------------------------------------
(* The controller                                                             *)

LEMMA AddersLess ==
  ASSUME OneAdder,
         addTask'.pc \in Before => addTask.pc \in Before /\ addTask'.id = addTask.id,
         \A w \in strays' : w.do \in {"Cache", "Record"} => w \in strays
  PROVE  SameAdders
  BY DEF SameAdders, OneAdder, Adding, Late

LEMMA AddCommandKeeps ==
  ASSUME RegistryInv, CommandsCalm, NEW c, AddCommand(c),
         UNCHANGED <<ui, used, removed>>
  PROVE  RegistryInv'
  <1>1. EventsCalm /\ NamesNothing
    <2>1. CASE Emit(<<Answer("Failed", c.op)>>)
      BY <2>1, AnswerTold DEF RegistryInv, OfProjection
    <2>2. CASE events' = events
      BY <2>2, NothingTold DEF RegistryInv
    <2> QED  BY <2>1, <2>2 DEF AddCommand
  <1>2. SameAdders
    <2>1. addTask' = addTask \/ addTask'.pc = "browser"
      BY DEF AddCommand
    <2> QED  BY <2>1, AddersLess DEF AddCommand, RegistryInv, Hidden, Before
  <1>3. Shapes'
    BY DEF AddCommand, RegistryInv, Shapes, Running, TaskFields, ui, disk
  <1> QED  BY <1>1, <1>2, <1>3, StaysApart DEF AddCommand, ui, disk

LEMMA CancelAddKeeps ==
  ASSUME RegistryInv, CommandsCalm, NEW c, CancelAddCommand(c),
         UNCHANGED <<ui, used, removed>>
  PROVE  RegistryInv'
  <1>1. EventsCalm /\ NamesNothing
    BY AnswerTold DEF RegistryInv, OfProjection, CancelAddCommand
  <1>2. SameAdders
    <2>1. addTask' = NoTask /\ addTask'.pc \notin Before
      BY DEF CancelAddCommand, NoTask, Before
    <2>2. \A w \in strays' : w \in strays \/ w = WriteOf(addTask)
      BY DEF CancelAddCommand, Abandoned
    <2>3. WriteOf(addTask).do = addTask.pc /\ WriteOf(addTask).id = addTask.id
      BY DEF WriteOf
    <2>4. OneAdder
      BY DEF RegistryInv, Hidden
    <2> DEFINE a == WriteOf(addTask)
    <2> HIDE DEF a
    <2>5. /\ \A w \in strays' : w \in strays \/ w = a
          /\ a.do = addTask.pc /\ a.id = addTask.id
      BY <2>2, <2>3 DEF a
    <2>6. OneAdder'
      BY <2>1, <2>4, <2>5 DEF OneAdder, Late, Before
    <2>7. \A i \in Ids : Adding(i)' => Adding(i)
      BY <2>1, <2>5 DEF Adding, Late, Before
    <2> QED  BY <2>6, <2>7 DEF SameAdders
  <1>3. Shapes'
    BY DEF CancelAddCommand, RegistryInv, Shapes, Running, NoTask, ui, disk
  <1> QED  BY <1>1, <1>2, <1>3, StaysApart DEF CancelAddCommand, ui, disk

LEMMA SingletonKeeps ==
  ASSUME RegistryInv, CommandsCalm, NEW c, SingletonCommand(c),
         UNCHANGED <<ui, used, removed>>
  PROVE  RegistryInv'
  <1>1. EventsCalm /\ NamesNothing
    <2>1. CASE Emit(<<Answer("Cancelled", c.op)>>)
      BY <2>1, AnswerTold DEF RegistryInv, OfProjection
    <2>2. CASE events' = events
      BY <2>2, NothingTold DEF RegistryInv
    <2> QED  BY <2>1, <2>2 DEF SingletonCommand
  <1>2. SameAdders
    BY AddersStay DEF SingletonCommand, RegistryInv, Hidden
  <1>3. Shapes'
    <2>1. /\ legacyTask'.pc # "none" => DOMAIN legacyTask' = {"op", "pc", "email"}
          /\ legacyTask'.pc \notin {"register", "registerNew"}
      <3>1. CASE c.type = "Cancel"
        BY <3>1 DEF SingletonCommand, NoTask
      <3>2. CASE c.type # "Cancel"
        <4>1. PICK pc \in {"list", "browser", "purge"} :
                  legacyTask' = [op |-> c.op, email |-> None, pc |-> pc]
          BY <3>2 DEF SingletonCommand
        <4> QED  BY <4>1
      <3> QED  BY <3>1, <3>2
    <2> QED  BY <2>1 DEF SingletonCommand, RegistryInv, Shapes, ui, disk
  <1> QED  BY <1>1, <1>2, <1>3, StaysApart DEF SingletonCommand, ui, disk

LEMMA FetchCommandKeeps ==
  ASSUME RegistryInv, CommandsCalm, NEW c, FetchCommand(c), c.type \in {"SendAs", "Archive"},
         UNCHANGED <<ui, used, removed>>
  PROVE  RegistryInv'
  <1>1. EventsCalm /\ NamesNothing
    BY NothingTold DEF RegistryInv, FetchCommand
  <1>2. SameAdders
    BY AddersStay DEF FetchCommand, RegistryInv, Hidden
  <1> DEFINE f == [kind |-> c.type, id |-> c.id, email |-> c.email, req |-> c.req, pc |-> "sign"]
  <1>3. fetches' = fetches \cup {f} /\ IsFetch(f)
    BY DEF FetchCommand, IsFetch
  <1> HIDE DEF f
  <1>4. Shapes'
    BY <1>3 DEF FetchCommand, RegistryInv, Shapes, ui, disk
  <1> QED  BY <1>1, <1>2, <1>4, StaysApart DEF FetchCommand, ui, disk

LEMMA TaskStarts ==
  ASSUME RegistryInv, CommandsCalm, NEW c, NEW pc \in {"sign", "NoCache"},
         c.id \in Ids, Has(commands, OfAccount, c.id), ~Has(commands', OfAccount, c.id),
         tasks' = [tasks EXCEPT ![c.id] = AccountTask(c, pc)],
         UNCHANGED <<disk, addTask, legacyTask, fetches, strays, events, ui, used, removed>>
  PROVE  RegistryInv'
  <1> DEFINE i == c.id
             t == AccountTask(c, pc)
  <1>1. Running(t) /\ t.id = i /\ t.pc = pc /\ DOMAIN t = TaskFields
    BY DEF AccountTask, Running, TaskFields
  <1> HIDE DEF t
  <1>2. /\ i \in Ids /\ tasks'[i] = t /\ DOMAIN tasks' = Ids
        /\ \A j \in Ids : j # i => tasks'[j] = tasks[j]
    BY DEF RegistryInv, Shapes, t
  <1>3. ops[i] # 0 /\ ~Running(tasks[i]) /\ ~Has(events, OfProjection, i)
    BY DEF RegistryInv, Turns, OneAtATime
  <1>4. EventsCalm /\ \A j \in Ids : Named(events', j) => Named(events, j)
    BY NothingTold DEF RegistryInv
  <1> HIDE DEF i
  <1>5. Shapes'
    <2>1. \A j \in Ids : Running(tasks'[j]) => DOMAIN tasks'[j] = TaskFields /\ tasks'[j].id = j
      BY <1>1, <1>2 DEF RegistryInv, Shapes
    <2> QED  BY <1>2, <2>1 DEF RegistryInv, Shapes, disk, ui
  <1>6. Turns'
    <2>1. ASSUME NEW j \in Ids PROVE OneAtATime(j)'
      <3>1. CASE j = i
        BY <1>2, <1>3, <1>4, <3>1 DEF OneAtATime, EventsCalm, ui, i
      <3>2. CASE j # i
        BY <1>2, <1>4, <3>2 DEF RegistryInv, Turns, OneAtATime, EventsCalm, CommandsCalm, ui
      <3> QED  BY <3>1, <3>2
    <2> QED  BY <1>4, <2>1 DEF Turns, EventsCalm, CommandsCalm
  <1>7. Hidden'
    <2>1. SameAdders
      BY AddersStay DEF RegistryInv, Hidden
    <2>2. ASSUME NEW j \in Ids, j \notin used \/ Adding(j) PROVE Unknown(j)'
      <3>1. Unknown(j) /\ j # i
        BY <2>2 DEF RegistryInv, Hidden, Unknown, i
      <3> QED  BY <1>2, <1>4, <3>1 DEF Unknown, CommandsCalm, disk, ui
    <2> QED  BY <2>1, <2>2 DEF RegistryInv, Hidden, SameAdders
  <1>8. Gone'
    <2>1. ASSUME NEW j \in Ids PROVE Stage(j)'
      BY <1>1, <1>2 DEF RegistryInv, Gone, Stage, disk
    <2> QED  BY <2>1 DEF RegistryInv, Gone, RemovedStaysGone, disk
  <1> QED  BY <1>5, <1>6, <1>7, <1>8 DEF RegistryInv

LEMMA ControllerKeeps == RegistryInv /\ Controller => RegistryInv'
  <1> SUFFICES ASSUME RegistryInv, Controller PROVE RegistryInv'
    OBVIOUS
  <1> DEFINE c == Head(commands)
  <1>1. /\ CommandsCalm
        /\ c.type \in OfAccount =>
               c.id \in Ids /\ Has(commands, OfAccount, c.id) /\ ~Has(commands', OfAccount, c.id)
    BY CommandTaken DEF Controller, RegistryInv
  <1>2. UNCHANGED <<ui, used, removed>>
    BY DEF Controller
  <1> HIDE DEF c
  <1>3. CASE AddCommand(c)
    BY <1>1, <1>2, <1>3, AddCommandKeeps
  <1>4. CASE c.type = "ReconnectAccount" /\ ReconnectCommand(c)
    <2>1. c.type \in OfAccount
      BY <1>4 DEF OfAccount
    <2>2. ~Running(tasks[c.id])
      BY <1>1, <2>1 DEF RegistryInv, Turns, OneAtATime
    <2> QED  BY <1>1, <1>2, <1>4, <2>1, <2>2, TaskStarts DEF ReconnectCommand
  <1>5. CASE c.type = "RemoveAccount" /\ RemoveCommand(c)
    <2>1. c.type \in OfAccount
      BY <1>5 DEF OfAccount
    <2>2. ~Running(tasks[c.id])
      BY <1>1, <2>1 DEF RegistryInv, Turns, OneAtATime
    <2>3. strays' = strays
      BY <1>5, <2>2 DEF RemoveCommand
    <2> QED  BY <1>1, <1>2, <1>5, <2>1, <2>3, TaskStarts DEF RemoveCommand
  <1>6. CASE CancelAddCommand(c)
    BY <1>1, <1>2, <1>6, CancelAddKeeps
  <1>7. CASE SingletonCommand(c)
    BY <1>1, <1>2, <1>7, SingletonKeeps
  <1>8. CASE c.type \in {"SendAs", "Archive"} /\ FetchCommand(c)
    BY <1>1, <1>2, <1>8, FetchCommandKeeps
  <1> QED  BY <1>3, <1>4, <1>5, <1>6, <1>7, <1>8 DEF Controller, c

-----------------------------------------------------------------------------
(* The events                                                                 *)

LEMMA EventTaken ==
  ASSUME Turns, events # <<>>, events' = Tail(events)
  PROVE  /\ EventsCalm
         /\ \A i \in Ids : Named(events', i) => Named(events, i)
         /\ \A i \in Ids : Names(Head(events), i) => Named(events, i)
         /\ Head(events).type \in OfProjection =>
                /\ Head(events).id \in Ids
                /\ Has(events, OfProjection, Head(events).id)
                /\ ~Has(events', OfProjection, Head(events).id)
  <1>1. Orderly(events, OfProjection) /\ IsSeq(events)
    BY DEF Turns, Orderly
  <1>2. /\ Orderly(Tail(events), OfProjection)
        /\ Head(events).type \in OfProjection =>
               Head(events).id \in Ids /\ ~Has(Tail(events), OfProjection, Head(events).id)
    BY <1>1, OrderlyLess
  <1>3. \A i \in Ids : /\ Has(Tail(events), OfProjection, i) => Has(events, OfProjection, i)
                       /\ Named(Tail(events), i) => Named(events, i)
                       /\ Names(Head(events), i) => Named(events, i)
    BY <1>1, HasLess
  <1>4. Head(events).type \in OfProjection => Has(events, OfProjection, Head(events).id)
    BY <1>1, HasLess
  <1> QED  BY <1>2, <1>3, <1>4 DEF EventsCalm

\* The list takes rows that the event names only.
ListsNamed(e) ==
    /\ DOMAIN accounts' = Ids
    /\ \A i \in Ids : accounts[i] = NoAccount /\ ~Names(e, i) => accounts'[i] = NoAccount

LEMMA UpsertLists ==
  ASSUME RegistryInv, NEW e, NEW i, NEW a, NEW s, NEW m, UpsertAndFetch(i, a, s, m),
         e.type \in {"AccountAdded", "LegacyRegistered", "AccountSynced"}, e.id = i
  PROVE  ListsNamed(e) /\ CommandsCalm
  <1>1. DOMAIN accounts = Ids /\ Turns
    BY DEF RegistryInv, Shapes
  <1>2. Names(e, i)
    BY DEF Names
  <1>3. accounts' = accounts \/ accounts' = [accounts EXCEPT ![i] = [email |-> a, session |-> s, inbox |-> m]]
    BY DEF UpsertAndFetch, Upsert
  <1>4. \A j \in Ids : j # i => accounts'[j] = accounts[j]
    BY <1>1, <1>3
  <1>5. ListsNamed(e)
    BY <1>1, <1>2, <1>3, <1>4 DEF ListsNamed
  <1>6. CommandsCalm
    <2> DEFINE c == [type |-> "SendAs", id |-> i, email |-> a, req |-> 0]
    <2>1. c.type \notin OfAccount
      BY DEF OfAccount
    <2>2. commands' \in {commands, Append(commands, c)}
      BY DEF UpsertAndFetch, RequestSendAs
    <2> HIDE DEF c
    <2>3. commands' \in {commands \o <<c>>, Append(commands, c), commands, commands \o <<>>}
      BY <2>2
    <2> QED  BY <1>1, <2>1, <2>3, CommandSent
  <1> QED  BY <1>5, <1>6

LEMMA NothingListed ==
  ASSUME RegistryInv, NEW e, accounts' = accounts, commands' = commands
  PROVE  ListsNamed(e) /\ CommandsCalm
  BY NoCommand DEF RegistryInv, Shapes, ListsNamed

\* A row of the list is changed.
LEMMA RowChanged ==
  ASSUME RegistryInv, NEW e, NEW i, NEW a, commands' = commands,
         accounts[i] # NoAccount \/ a = NoAccount,
         accounts' = accounts \/ accounts' = [accounts EXCEPT ![i] = a]
  PROVE  ListsNamed(e) /\ CommandsCalm
  <1>1. DOMAIN accounts = Ids
    BY DEF RegistryInv, Shapes
  <1>2. \A j \in Ids : accounts'[j] = accounts[j] \/ (j = i /\ accounts'[j] = a)
    BY <1>1
  <1> QED  BY <1>1, <1>2, NoCommand DEF RegistryInv, ListsNamed

LEMMA AddEventLists ==
  ASSUME RegistryInv, NEW e, AddEvent(e)
  PROVE  ListsNamed(e) /\ CommandsCalm /\ ops' = ops
  <1>1. CASE e.type = "AccountAdded"
    BY <1>1, UpsertLists DEF AddEvent
  <1>2. CASE e.type # "AccountAdded"
    BY <1>2, NothingListed DEF AddEvent
  <1> QED  BY <1>1, <1>2 DEF AddEvent

LEMMA ProjectionLists ==
  ASSUME RegistryInv, NEW e, ProjectionEvent(e)
  PROVE  ListsNamed(e) /\ CommandsCalm /\ ops' = [ops EXCEPT ![e.id] = 0] /\ e.type \in OfProjection
  <1>1. CASE e.type = "AccountSynced" /\ SyncedEvent(e)
    BY <1>1, UpsertLists DEF SyncedEvent, OfProjection
  <1>2. CASE e.type = "AccountRemoved" /\ RemovedEvent(e)
    BY <1>2, RowChanged DEF RemovedEvent, OfProjection
  <1>3. CASE e.type \in {"OperationFailed", "OperationExpired"} /\ OperationFailedEvent(e)
    <2>1. CASE e.id \in Listed
      <3>1. PICK s : accounts' = [accounts EXCEPT ![e.id].session = s]
        BY <1>3, <2>1 DEF OperationFailedEvent
      <3>2. accounts[e.id] # NoAccount /\ commands' = commands
        BY <1>3, <2>1 DEF Listed, OperationFailedEvent
      <3> DEFINE a == [accounts[e.id] EXCEPT !.session = s]
      <3>3. accounts' = [accounts EXCEPT ![e.id] = a]
        BY <3>1
      <3> HIDE DEF a
      <3> QED  BY <1>3, <3>2, <3>3, RowChanged DEF OperationFailedEvent, OfProjection
    <2>2. CASE e.id \notin Listed
      BY <1>3, <2>2, NothingListed DEF OperationFailedEvent, OfProjection
    <2> QED  BY <2>1, <2>2
  <1> QED  BY <1>1, <1>2, <1>3 DEF ProjectionEvent

LEMMA SingletonLists ==
  ASSUME RegistryInv, NEW e, SingletonEvent(e)
  PROVE  ListsNamed(e) /\ CommandsCalm /\ ops' = ops
  <1> SUFFICES ListsNamed(e) /\ CommandsCalm
    BY DEF SingletonEvent
  <1>1. CASE e.type = "Restored" /\ RestoredEvent(e)
    <2>1. commands' = commands
      BY <1>1 DEF RestoredEvent
    <2>2. /\ DOMAIN accounts' = Ids
          /\ \A i \in Ids : e.rows[i] = None => accounts'[i] = accounts[i]
      BY <1>1 DEF RestoredEvent, Restorable, Rows
    <2>3. ListsNamed(e)
      BY <1>1, <2>2 DEF ListsNamed, Names
    <2> QED  BY <1>1, <2>1, <2>3, NoCommand DEF RegistryInv
  <1>2. CASE e.type = "IdentityVerified" /\ IdentityEvent(e)
    BY <1>2, NothingListed DEF IdentityEvent
  <1>3. CASE e.type = "LegacyRegistered" /\ RegisteredEvent(e)
    <2>1. CASE account = e.email
      BY <1>3, <2>1, UpsertLists DEF RegisteredEvent
    <2>2. CASE account # e.email
      BY <1>3, <2>2, NothingListed DEF RegisteredEvent
    <2> QED  BY <2>1, <2>2
  <1>4. CASE e.type = "SyncComplete" /\ SyncCompleteEvent(e)
    <2>1. accounts' = accounts \/
              \E i \in Listed : Upsert(i, e.email, "Ready", e.inbox)
      BY <1>4 DEF SyncCompleteEvent, Mirror
    <2>2. commands' = commands
      BY <1>4 DEF SyncCompleteEvent
    <2>3. CASE accounts' = accounts
      BY <2>2, <2>3, NothingListed
    <2>4. ASSUME NEW i \in Listed, Upsert(i, e.email, "Ready", e.inbox)
          PROVE  ListsNamed(e) /\ CommandsCalm
      <3> DEFINE a == [email |-> e.email, session |-> "Ready", inbox |-> e.inbox]
      <3>1. accounts[i] # NoAccount /\ (accounts' = accounts \/ accounts' = [accounts EXCEPT ![i] = a])
        BY <2>4 DEF Upsert, Listed
      <3> HIDE DEF a
      <3> QED  BY <2>2, <3>1, RowChanged
    <2> QED  BY <2>1, <2>3, <2>4
  <1>5. CASE EndEvent(e)
    BY <1>5, NothingListed DEF EndEvent
  <1> QED  BY <1>1, <1>2, <1>3, <1>4, <1>5 DEF SingletonEvent

LEMMA ScopedLists ==
  ASSUME RegistryInv, NEW e, ScopedEvent(e)
  PROVE  ListsNamed(e) /\ CommandsCalm /\ ops' = ops
  <1>1. commands' = commands /\ ops' = ops
    BY DEF ScopedEvent
  <1>2. CASE accounts' = accounts
    BY <1>1, <1>2, NothingListed
  <1>3. CASE /\ accounts[e.id].inbox = "Mail"
             /\ accounts' = [accounts EXCEPT ![e.id].inbox = "Empty"]
    <2> DEFINE a == [accounts[e.id] EXCEPT !.inbox = "Empty"]
    <2>1. accounts[e.id] # NoAccount /\ accounts' = [accounts EXCEPT ![e.id] = a]
      BY <1>3 DEF NoAccount
    <2> HIDE DEF a
    <2> QED  BY <1>1, <2>1, RowChanged
  <1> QED  BY <1>1, <1>2, <1>3 DEF ScopedEvent, SendAsEvent, MutatedEvent

LEMMA DeliverKeeps == RegistryInv /\ Deliver => RegistryInv'
  <1> SUFFICES ASSUME RegistryInv, Deliver PROVE RegistryInv'
    OBVIOUS
  <1> DEFINE e == Head(events)
  <1>1. /\ EventsCalm
        /\ \A i \in Ids : Named(events', i) => Named(events, i)
        /\ \A i \in Ids : Names(e, i) => Named(events, i)
        /\ e.type \in OfProjection =>
               e.id \in Ids /\ Has(events, OfProjection, e.id) /\ ~Has(events', OfProjection, e.id)
    BY EventTaken DEF Deliver, RegistryInv
  <1>2. UNCHANGED <<disk, nextOp, worker, used, removed>>
    BY DEF Deliver, seen
  <1> HIDE DEF e
  <1>3. /\ ListsNamed(e) /\ CommandsCalm
        /\ ops' = ops \/ (ops' = [ops EXCEPT ![e.id] = 0] /\ e.type \in OfProjection)
    <2>1. CASE ScopedEvent(e)
      BY <2>1, ScopedLists
    <2>2. CASE AddEvent(e)
      BY <2>2, AddEventLists
    <2>3. CASE ProjectionEvent(e)
      BY <2>3, ProjectionLists
    <2>4. CASE SingletonEvent(e)
      BY <2>4, SingletonLists
    <2>5. CASE UNCHANGED <<accounts, ops, commands>>
      BY <2>5, NothingListed
    <2> QED  BY <2>1, <2>2, <2>3, <2>4, <2>5 DEF Deliver, e
  <1>4. /\ DOMAIN ops' = Ids
        /\ \A i \in Ids : ops'[i] = ops[i] \/ (Has(events, OfProjection, i) /\ ~Has(events', OfProjection, i))
    BY <1>1, <1>3 DEF RegistryInv, Shapes
  <1>5. Shapes'
    BY <1>2, <1>3, <1>4 DEF RegistryInv, Shapes, ListsNamed, disk, worker
  <1>6. Turns'
    <2>1. ASSUME NEW i \in Ids PROVE OneAtATime(i)'
      BY <1>1, <1>2, <1>3, <1>4 DEF RegistryInv, Turns, OneAtATime, EventsCalm, CommandsCalm, worker
    <2> QED  BY <1>1, <1>3, <2>1 DEF Turns, EventsCalm, CommandsCalm
  <1>7. Hidden'
    <2>1. SameAdders
      BY <1>2, AddersStay DEF RegistryInv, Hidden, worker
    <2>2. ASSUME NEW i \in Ids, i \notin used \/ Adding(i) PROVE Unknown(i)'
      <3>1. Unknown(i)
        BY <2>2 DEF RegistryInv, Hidden
      <3> QED  BY <1>1, <1>2, <1>3, <3>1 DEF Unknown, CommandsCalm, ListsNamed, disk, worker
    <2> QED  BY <1>2, <2>1, <2>2 DEF RegistryInv, Hidden, SameAdders
  <1>8. Gone'
    BY <1>2 DEF RegistryInv, Gone, RemovedStaysGone, Stage, disk, worker
  <1> QED  BY <1>5, <1>6, <1>7, <1>8 DEF RegistryInv

-----------------------------------------------------------------------------
(* What is written                                                            *)

LEMMA StoreIs ==
  ASSUME Shapes, NEW w, Store(w)
  PROVE  /\ DOMAIN registry' = Ids /\ DOMAIN cache' = Ids
         /\ \A i \in Ids : \/ registry'[i] = registry[i]
                           \/ w.id = i /\ w.do = "Record"
                           \/ w.id = i /\ registry'[i] = None
         /\ \A i \in Ids : \/ cache'[i] = cache[i]
                           \/ w.id = i /\ w.do = "Cache"
                           \/ w.id = i /\ cache'[i] = "None"
         /\ w.do \notin {"Record", "NoRecord"} => registry' = registry
         /\ w.do \notin {"Cache", "NoCache"} => cache' = cache
         /\ w.do = "NoRecord" /\ w.id \in Ids => registry'[w.id] = None
         /\ w.do = "NoCache" /\ w.id \in Ids => cache'[w.id] = "None"
  <1>1. /\ w.do = "Record" => registry' = [registry EXCEPT ![w.id] = w.email]
        /\ w.do = "NoRecord" => registry' = [registry EXCEPT ![w.id] = None]
        /\ w.do \notin {"Record", "NoRecord"} => registry' = registry
    BY DEF Store
  <1>2. /\ w.do = "Cache" => cache' = [cache EXCEPT ![w.id] = w.inbox]
        /\ w.do = "NoCache" => cache' = [cache EXCEPT ![w.id] = "None"]
        /\ w.do \notin {"Cache", "NoCache"} => cache' = cache
    BY DEF Store
  <1>3. DOMAIN registry = Ids /\ DOMAIN cache = Ids
    BY DEF Shapes
  <1>4. /\ DOMAIN registry' = Ids
        /\ \A i \in Ids : \/ registry'[i] = registry[i]
                          \/ w.id = i /\ w.do = "Record"
                          \/ w.id = i /\ registry'[i] = None
        /\ w.do = "NoRecord" /\ w.id \in Ids => registry'[w.id] = None
    BY <1>1, <1>3
  <1>5. /\ DOMAIN cache' = Ids
        /\ \A i \in Ids : \/ cache'[i] = cache[i]
                          \/ w.id = i /\ w.do = "Cache"
                          \/ w.id = i /\ cache'[i] = "None"
        /\ w.do = "NoCache" /\ w.id \in Ids => cache'[w.id] = "None"
    BY <1>2, <1>3
  <1> QED  BY <1>1, <1>2, <1>4, <1>5

LEMMA StrayKeeps ==
  ASSUME RegistryInv, NEW w \in strays, Stray(w)
  PROVE  RegistryInv'
  <1>1. Store(w) \/ UNCHANGED disk
    BY DEF Stray
  <1>2. /\ strays' = strays \ {w}
        /\ UNCHANGED <<ui, commands, events, addTask, tasks, legacyTask, fetches, seen>>
    BY DEF Stray
  <1>3. /\ DOMAIN registry' = Ids /\ DOMAIN cache' = Ids
        /\ \A i \in Ids : \/ registry'[i] = registry[i]
                          \/ w.id = i /\ w.do = "Record"
                          \/ registry'[i] = None
        /\ \A i \in Ids : \/ cache'[i] = cache[i]
                          \/ w.id = i /\ w.do = "Cache"
                          \/ cache'[i] = "None"
    BY <1>1, StoreIs DEF RegistryInv, Shapes, disk
  <1>4. Shapes'
    BY <1>2, <1>3 DEF RegistryInv, Shapes, ui, seen
  <1>5. Turns'
    BY <1>2, TurnsStay, NoCommand, NothingTold DEF RegistryInv, ui
  <1>6. \A i \in Ids : Named(events', i) => Named(events, i)
    BY <1>2, NothingTold DEF RegistryInv
  <1>7. \A i \in Ids : i \in removed \/ Running(tasks[i]) => ~Adding(i)
    BY DEF RegistryInv, Hidden, Unknown
  <1>8. \A i \in Ids : w.id = i /\ w.do \in {"Cache", "Record"} => Adding(i) /\ ~Adding(i)'
    BY <1>2 DEF RegistryInv, Hidden, OneAdder, Adding, Late
  <1>9. Hidden'
    <2>1. SameAdders
      BY <1>2, AddersLess DEF RegistryInv, Hidden
    <2>2. ASSUME NEW i \in Ids, i \notin used \/ Adding(i)' PROVE Unknown(i)'
      <3>1. Unknown(i)
        BY <2>1, <2>2 DEF RegistryInv, Hidden, SameAdders
      <3>2. registry'[i] = None
        BY <1>3, <1>8, <2>2, <3>1 DEF Unknown, RegistryInv, Hidden
      <3> QED  BY <1>2, <1>6, <3>1, <3>2 DEF Unknown, ui, seen
    <2> QED  BY <1>2, <2>1, <2>2 DEF RegistryInv, Hidden, SameAdders, seen
  <1>10. Gone'
    <2>1. \A i \in removed : i \in Ids
      BY DEF RegistryInv, Shapes
    <2>2. RemovedStaysGone'
      BY <1>2, <1>3, <1>7, <1>8, <2>1 DEF RegistryInv, Gone, RemovedStaysGone, seen
    <2>3. ASSUME NEW i \in Ids PROVE Stage(i)'
      BY <1>2, <1>3, <1>7, <1>8 DEF RegistryInv, Gone, Stage, Running, seen
    <2> QED  BY <2>2, <2>3 DEF Gone
  <1> QED  BY <1>4, <1>5, <1>9, <1>10 DEF RegistryInv

-----------------------------------------------------------------------------
(* add_account                                                                *)

AddKeepsRest == UNCHANGED <<commands, tasks, legacyTask, fetches, accounts, ops, nextOp, removed>>

LEMMA AddRest == AddOnly => AddKeepsRest
  BY DEF AddOnly, AddKeepsRest, ui

\* A step of the task that writes: what it writes, and where it stands then.
LEMMA AddMoves ==
  ASSUME RegistryInv, AddKeepsRest, used' = used, Running(addTask),
         \E pc : addTask' = [addTask EXCEPT !.pc = pc],
         addTask'.pc \in Before => addTask.pc \in Before,
         \A w \in strays' : w.do \in {"Cache", "Record"} => w \in strays,
         DOMAIN registry' = Ids, DOMAIN cache' = Ids,
         \A j \in Ids : \/ registry'[j] = registry[j]
                        \/ j = addTask.id /\ addTask.pc = "Record" /\ addTask'.pc \notin Before,
         \A j \in Ids : \/ cache'[j] = cache[j] \/ cache'[j] = "None"
                        \/ j = addTask.id /\ addTask.pc \in Before,
         EventsCalm,
         \A j \in Ids : Named(events', j) =>
                            \/ Named(events, j)
                            \/ j = addTask.id /\ addTask.pc = "Record" /\ addTask'.pc \notin Before
  PROVE  RegistryInv'
  <1>1. PICK pc : addTask' = [addTask EXCEPT !.pc = pc]
    OBVIOUS
  <1>2. DOMAIN addTask = TaskFields /\ DOMAIN addTask' = TaskFields /\ addTask'.id = addTask.id
    BY <1>1 DEF RegistryInv, Shapes, TaskFields
  <1>3. Shapes'
    BY <1>2 DEF RegistryInv, Shapes, AddKeepsRest
  <1>4. CommandsCalm
    BY NoCommand DEF RegistryInv, AddKeepsRest
  <1>5. Turns'
    BY <1>4, TurnsStay DEF RegistryInv, AddKeepsRest
  <1>6. SameAdders
    BY <1>2, AddersLess DEF RegistryInv, Hidden
  <1>7. \A j \in Ids : j \in removed \/ Running(tasks[j]) => ~Adding(j)
    BY DEF RegistryInv, Hidden, Unknown
  <1>8. addTask.pc \in Before /\ addTask.id \in Ids => Adding(addTask.id)
    BY DEF Adding
  <1>9. ASSUME addTask.id \in Ids, addTask.pc = "Record", addTask'.pc \notin Before
        PROVE  ~Adding(addTask.id)' /\ addTask.id \in used
    BY <1>2, <1>8, <1>9 DEF RegistryInv, Hidden, OneAdder, Adding, Late, Before
  <1>10. Hidden'
    <2>1. ASSUME NEW j \in Ids, j \notin used \/ Adding(j)' PROVE Unknown(j)'
      <3>1. Unknown(j)
        BY <1>6, <2>1 DEF RegistryInv, Hidden, SameAdders
      <3>2. registry'[j] = None /\ ~Named(events', j)
        BY <1>2, <1>9, <2>1, <3>1 DEF Unknown
      <3> QED  BY <1>4, <3>1, <3>2 DEF Unknown, CommandsCalm, AddKeepsRest
    <2> QED  BY <1>6, <2>1 DEF RegistryInv, Hidden, SameAdders
  <1>11. Gone'
    <2>1. \A j \in removed : j \in Ids
      BY DEF RegistryInv, Shapes
    <2>2. RemovedStaysGone'
      BY <1>7, <1>8, <2>1 DEF RegistryInv, Gone, RemovedStaysGone, AddKeepsRest, Before
    <2>3. ASSUME NEW j \in Ids PROVE Stage(j)'
      BY <1>7, <1>8 DEF RegistryInv, Gone, Stage, Running, AddKeepsRest
    <2> QED  BY <2>2, <2>3 DEF Gone
  <1> QED  BY <1>3, <1>5, <1>10, <1>11 DEF RegistryInv

LEMMA AddBrowserKeeps == RegistryInv /\ AddBrowser => RegistryInv'
  <1> SUFFICES ASSUME RegistryInv, AddBrowser PROVE RegistryInv'
    OBVIOUS
  <1>1. /\ AddKeepsRest /\ UNCHANGED <<disk, strays, used>>
        /\ addTask.pc = "browser" /\ addTask'.pc \in {"check", "done"} /\ DOMAIN addTask' = TaskFields
    <2>1. DOMAIN addTask = TaskFields
      BY DEF AddBrowser, RegistryInv, Shapes, Running
    <2> QED  BY <2>1, AddRest DEF AddBrowser, AddEnds, TaskFields
  <1>2. EventsCalm /\ NamesNothing
    <2>1. CASE Emit(<<Answer("Failed", addTask.op)>>)
      BY <2>1, AnswerTold DEF RegistryInv, OfProjection
    <2>2. CASE events' = events
      BY <2>2, NothingTold DEF RegistryInv
    <2> QED  BY <2>1, <2>2 DEF AddBrowser, AddEnds
  <1>3. SameAdders
    BY <1>1, AddersLess DEF RegistryInv, Hidden, Before
  <1>4. CommandsCalm
    BY <1>1, NoCommand DEF RegistryInv, AddKeepsRest
  <1>5. Shapes'
    BY <1>1 DEF RegistryInv, Shapes, AddKeepsRest, disk
  <1> QED  BY <1>1, <1>2, <1>3, <1>4, <1>5, StaysApart DEF AddKeepsRest, disk

\* The id that is drawn is nobody's.
LEMMA DrawKeeps ==
  ASSUME RegistryInv, AddKeepsRest, addTask.pc = "check", NEW i \in Ids \ used,
         used' = used \cup {i}, UNCHANGED <<disk, strays, events>>,
         DOMAIN addTask' = TaskFields, addTask'.pc = "Token", addTask'.id = i
  PROVE  RegistryInv'
  <1>1. Shapes'
    BY DEF RegistryInv, Shapes, AddKeepsRest, disk
  <1>2. CommandsCalm /\ EventsCalm /\ \A j \in Ids : Named(events', j) => Named(events, j)
    BY NoCommand, NothingTold DEF RegistryInv, AddKeepsRest
  <1>3. Turns'
    BY <1>2, TurnsStay DEF RegistryInv, AddKeepsRest
  <1>4. \A w \in strays : Late(w) => w.id # i
    BY DEF RegistryInv, Hidden, Adding
  <1>5. OneAdder'
    BY <1>4 DEF RegistryInv, Hidden, OneAdder, Late
  <1>6. \A j \in Ids : Adding(j)' => Adding(j) \/ j = i
    BY DEF Adding, Late
  <1>7. Hidden'
    <2>1. ASSUME NEW j \in Ids, j \notin used' \/ Adding(j)' PROVE Unknown(j)'
      <3>1. Unknown(j)
        BY <1>6, <2>1 DEF RegistryInv, Hidden
      <3> QED  BY <1>2, <3>1 DEF Unknown, CommandsCalm, AddKeepsRest, disk
    <2>2. \A j \in Ids : Adding(j)' => j \in used'
      BY <1>6 DEF RegistryInv, Hidden
    <2> QED  BY <1>5, <2>1, <2>2 DEF Hidden
  <1>8. Gone'
    BY DEF RegistryInv, Gone, RemovedStaysGone, Stage, AddKeepsRest, disk
  <1> QED  BY <1>1, <1>3, <1>7, <1>8 DEF RegistryInv

LEMMA AddCheckKeeps == RegistryInv /\ AddCheck => RegistryInv'
  <1> SUFFICES ASSUME RegistryInv, AddCheck PROVE RegistryInv'
    OBVIOUS
  <1>1. AddKeepsRest /\ UNCHANGED <<disk, strays>> /\ addTask.pc = "check" /\ DOMAIN addTask = TaskFields
    BY AddRest DEF AddCheck, RegistryInv, Shapes, Running
  <1>2. ASSUME NEW type \in {"DuplicateAccountIdentity", "Failed"},
               AddEnds(<<Answer(type, addTask.op)>>), used' = used
        PROVE  RegistryInv'
    <2>1. EventsCalm /\ NamesNothing
      BY <1>2, AnswerTold DEF RegistryInv, OfProjection, AddEnds
    <2>2. addTask'.pc = "done" /\ DOMAIN addTask' = TaskFields
      BY <1>1, <1>2 DEF AddEnds, TaskFields
    <2>3. SameAdders
      BY <1>1, <2>2, AddersLess DEF RegistryInv, Hidden, Before
    <2>4. CommandsCalm
      BY <1>1, NoCommand DEF RegistryInv, AddKeepsRest
    <2>5. Shapes'
      BY <1>1, <1>2, <2>2 DEF RegistryInv, Shapes, AddKeepsRest, disk
    <2> QED  BY <1>1, <1>2, <2>1, <2>3, <2>4, <2>5, StaysApart DEF AddKeepsRest, disk
  <1>3. ASSUME NEW i \in Ids \ used, used' = used \cup {i}, events' = events,
               addTask' = [addTask EXCEPT !.pc = "Token", !.id = i, !.inbox = InboxOf(addTask.email)]
        PROVE  RegistryInv'
    <2>1. DOMAIN addTask' = TaskFields /\ addTask'.pc = "Token" /\ addTask'.id = i
      BY <1>1, <1>3 DEF TaskFields
    <2> QED  BY <1>1, <1>3, <2>1, DrawKeeps
  <1> QED  BY <1>2, <1>3 DEF AddCheck

LEMMA AddWriteKeeps == RegistryInv /\ AddWrite => RegistryInv'
  <1> SUFFICES ASSUME RegistryInv, AddWrite PROVE RegistryInv'
    OBVIOUS
  <1> DEFINE w == WriteOf(addTask)
             done == [type |-> "AccountAdded", op |-> addTask.op, id |-> addTask.id,
                      email |-> addTask.email, inbox |-> addTask.inbox]
  <1>1. /\ AddKeepsRest /\ used' = used /\ Running(addTask) /\ DOMAIN addTask = TaskFields
        /\ addTask.pc \in {"Token", "Cache", "Record", "NoCache", "NoToken"}
    BY AddRest DEF AddWrite, Running, RegistryInv, Shapes
  <1>2. w.do = addTask.pc /\ w.id = addTask.id
    BY DEF WriteOf
  <1>3. DOMAIN registry = Ids /\ DOMAIN cache = Ids
    BY DEF RegistryInv, Shapes
  <1>4. CASE /\ Store(w) /\ strays' = strays
             /\ IF addTask.pc \in DOMAIN AddNext
                THEN addTask' = [addTask EXCEPT !.pc = AddNext[addTask.pc]] /\ UNCHANGED events
                ELSE AddEnds(<<IF addTask.pc = "Record" THEN done ELSE Answer("Failed", addTask.op)>>)
    <2>1. /\ DOMAIN registry' = Ids /\ DOMAIN cache' = Ids
          /\ \A j \in Ids : registry'[j] = registry[j] \/ (j = addTask.id /\ addTask.pc = "Record")
          /\ \A j \in Ids : \/ cache'[j] = cache[j] \/ cache'[j] = "None"
                            \/ j = addTask.id /\ addTask.pc \in Before
      BY <1>1, <1>2, <1>4, StoreIs DEF RegistryInv, Before
    <2>2. ASSUME addTask.pc \in DOMAIN AddNext, addTask' = [addTask EXCEPT !.pc = AddNext[addTask.pc]],
                 events' = events
          PROVE  RegistryInv'
      <3>1. /\ addTask.pc \in {"Token", "Cache", "NoCache"}
            /\ AddNext[addTask.pc] = "NoToken" \/ addTask.pc \in Before
        BY <2>2 DEF AddNext, Before
      <3>2. EventsCalm /\ \A j \in Ids : Named(events', j) => Named(events, j)
        BY <2>2, NothingTold DEF RegistryInv
      <3>3. addTask'.pc \in Before => addTask.pc \in Before
        BY <1>1, <2>2, <3>1 DEF TaskFields, Before
      <3> QED  BY <1>1, <1>4, <2>1, <2>2, <3>1, <3>2, <3>3, AddMoves
    <2>3. ASSUME addTask.pc \notin DOMAIN AddNext,
                 AddEnds(<<IF addTask.pc = "Record" THEN done ELSE Answer("Failed", addTask.op)>>)
          PROVE  RegistryInv'
      <3>1. addTask' = [addTask EXCEPT !.pc = "done"] /\ addTask'.pc = "done" /\ "done" \notin Before
        BY <1>1, <2>3 DEF AddEnds, TaskFields, Before
      <3>2. EventsCalm /\ \A j \in Ids : Named(events', j) =>
                              Named(events, j) \/ (j = addTask.id /\ addTask.pc = "Record")
        <4>1. CASE addTask.pc = "Record"
          <5>1. events' = events \o <<done>>
            BY <2>3, <4>1 DEF AddEnds, Emit
          <5>2. done.type \notin OfProjection /\ \A j \in Ids : Names(done, j) => j = addTask.id
            BY DEF OfProjection, Names
          <5> HIDE DEF done
          <5> QED  BY <4>1, <5>1, <5>2, EventTold DEF RegistryInv
        <4>2. CASE addTask.pc # "Record"
          <5> DEFINE e == Answer("Failed", addTask.op)
          <5>1. events' = events \o <<e>>
            BY <2>3, <4>2 DEF AddEnds, Emit
          <5>2. e.type \notin OfProjection /\ \A j \in Ids : ~Names(e, j)
            BY DEF OfProjection, Names, Answer
          <5> HIDE DEF e
          <5> QED  BY <5>1, <5>2, EventTold DEF RegistryInv
        <4> QED  BY <4>1, <4>2
      <3> QED  BY <1>1, <1>4, <2>1, <3>1, <3>2, AddMoves
    <2> QED  BY <1>4, <2>2, <2>3
  <1>5. CASE /\ Fails(addTask)
             /\ IF addTask.pc \in DOMAIN AddUndo
                THEN addTask' = [addTask EXCEPT !.pc = AddUndo[addTask.pc]] /\ UNCHANGED events
                ELSE AddEnds(<<Answer("Failed", addTask.op)>>)
    <2>1. /\ DOMAIN registry' = Ids /\ DOMAIN cache' = Ids /\ registry' = registry
          /\ \A j \in Ids : \/ cache'[j] = cache[j] \/ cache'[j] = "None"
                            \/ j = addTask.id /\ addTask.pc \in Before
          /\ \A v \in strays' : v.do \in {"Cache", "Record"} => v \in strays
      <3>1. CASE UNCHANGED <<disk, strays>>
        BY <1>3, <3>1 DEF disk
      <3>2. CASE addTask.pc \in {"Token", "NoToken"} /\ strays' = strays \cup {w} /\ UNCHANGED disk
        BY <1>2, <1>3, <3>2 DEF disk
      <3>3. CASE addTask.pc = "Cache" /\ Store(w) /\ UNCHANGED strays
        BY <1>2, <3>3, StoreIs DEF RegistryInv, Before
      <3> QED  BY <1>5, <3>1, <3>2, <3>3 DEF Fails, w
    <2>2. ASSUME NEW pc, pc \notin Before, addTask' = [addTask EXCEPT !.pc = pc],
                 events' = events \/ Emit(<<Answer("Failed", addTask.op)>>)
          PROVE  RegistryInv'
      <3>1. addTask'.pc \notin Before
        BY <1>1, <2>2 DEF TaskFields
      <3>2. EventsCalm /\ \A j \in Ids : Named(events', j) => Named(events, j)
        <4>1. CASE events' = events
          BY <4>1, NothingTold DEF RegistryInv
        <4>2. CASE Emit(<<Answer("Failed", addTask.op)>>)
          <5> DEFINE e == Answer("Failed", addTask.op)
          <5>1. events' = events \o <<e>>
            BY <4>2 DEF Emit
          <5>2. e.type \notin OfProjection /\ \A j \in Ids : ~Names(e, j)
            BY DEF OfProjection, Names, Answer
          <5> HIDE DEF e
          <5> QED  BY <5>1, <5>2, EventTold DEF RegistryInv
        <4> QED  BY <2>2, <4>1, <4>2
      <3> QED  BY <1>1, <2>1, <2>2, <3>1, <3>2, AddMoves
    <2>3. CASE /\ addTask.pc \in DOMAIN AddUndo /\ addTask' = [addTask EXCEPT !.pc = AddUndo[addTask.pc]]
               /\ events' = events
      <3>1. AddUndo[addTask.pc] \notin Before
        BY <2>3 DEF AddUndo, Before
      <3> QED  BY <2>2, <2>3, <3>1
    <2>4. CASE AddEnds(<<Answer("Failed", addTask.op)>>)
      <3>1. "done" \notin Before
        BY DEF Before
      <3> QED  BY <2>2, <2>4, <3>1 DEF AddEnds
    <2> QED  BY <1>5, <2>3, <2>4
  <1> QED  BY <1>4, <1>5 DEF AddWrite

-----------------------------------------------------------------------------
(* reconnect_account and remove_account                                       *)

TaskKeepsRest == UNCHANGED <<commands, addTask, legacyTask, fetches, accounts, ops, nextOp, used>>

LEMMA TaskRest == TaskOnly => TaskKeepsRest
  BY DEF TaskOnly, TaskKeepsRest, ui

\* The task of i becomes t, which runs on in silence or has answered.
LEMMA TaskMoves ==
  ASSUME RegistryInv, TaskKeepsRest, NEW i \in Ids, Running(tasks[i]),
         NEW t, tasks' = [tasks EXCEPT ![i] = t],
         Running(t) => DOMAIN t = TaskFields /\ t.id = i,
         \A w \in strays' : w.do \in {"Cache", "Record"} => w \in strays,
         DOMAIN registry' = Ids, DOMAIN cache' = Ids,
         \A j \in Ids : j # i => registry'[j] = registry[j] /\ cache'[j] = cache[j],
         removed' = removed \/ removed' = removed \cup {i},
         i \in removed' => registry'[i] = None /\ cache'[i] = "None",
         t.pc \in {"Token", "fetch", "Cache"} => i \notin removed',
         t.pc \in {"NoToken", "NoRecord"} => cache'[i] = "None",
         NEW e, e.type \in OfProjection, e.id = i,
         events' = IF Running(t) THEN events ELSE events \o <<e>>
  PROVE  RegistryInv'
  <1>1. /\ tasks'[i] = t /\ DOMAIN tasks' = Ids
        /\ \A j \in Ids : j # i => tasks'[j] = tasks[j]
    BY DEF RegistryInv, Shapes
  <1>2. /\ ops[i] # 0 /\ ~Has(commands, OfAccount, i) /\ ~Has(events, OfProjection, i)
    BY DEF RegistryInv, Turns, OneAtATime
  <1>3. i \in used /\ ~Adding(i)
    BY DEF RegistryInv, Hidden, Unknown
  <1>4. CommandsCalm
    BY NoCommand DEF RegistryInv, TaskKeepsRest
  <1>5. SameAdders
    BY AddersLess DEF RegistryInv, Hidden, TaskKeepsRest
  <1>6. /\ Orderly(events', OfProjection)
        /\ \A j \in Ids : j # i /\ Has(events', OfProjection, j) => Has(events, OfProjection, j)
        /\ \A j \in Ids : j # i /\ Named(events', j) => Named(events, j)
        /\ Running(t) => ~Has(events', OfProjection, i)
    <2>1. CASE Running(t)
      BY <1>2, <2>1 DEF RegistryInv, Turns
    <2>2. CASE ~Running(t)
      <3>1. events' = events \o <<e>> /\ e.id \in Ids /\ ~Has(events, OfProjection, e.id)
        BY <1>2, <2>2
      <3>2. \A j \in Ids : Names(e, j) => j = i
        BY DEF Names, OfProjection
      <3> QED  BY <2>2, <3>1, <3>2, EventTold DEF RegistryInv
    <2> QED  BY <2>1, <2>2
  <1>7. Shapes'
    <2>1. \A j \in Ids : Running(tasks'[j]) => DOMAIN tasks'[j] = TaskFields /\ tasks'[j].id = j
      BY <1>1 DEF RegistryInv, Shapes
    <2>2. removed' \subseteq used'
      BY <1>3 DEF RegistryInv, Shapes, TaskKeepsRest
    <2> QED  BY <1>1, <2>1, <2>2 DEF RegistryInv, Shapes, TaskKeepsRest
  <1>8. Turns'
    <2>1. ASSUME NEW j \in Ids PROVE OneAtATime(j)'
      <3>1. CASE j = i
        BY <1>1, <1>2, <1>6, <3>1 DEF OneAtATime, TaskKeepsRest
      <3>2. CASE j # i
        BY <1>1, <1>6, <3>2 DEF RegistryInv, Turns, OneAtATime, TaskKeepsRest
      <3> QED  BY <3>1, <3>2
    <2> QED  BY <1>4, <1>6, <2>1 DEF Turns, CommandsCalm
  <1>9. Hidden'
    <2>1. ASSUME NEW j \in Ids, j \notin used \/ Adding(j) PROVE Unknown(j)'
      <3>1. Unknown(j) /\ j # i
        BY <1>3, <2>1 DEF RegistryInv, Hidden
      <3> QED  BY <1>1, <1>4, <1>6, <3>1 DEF Unknown, CommandsCalm, TaskKeepsRest
    <2> QED  BY <1>5, <2>1 DEF RegistryInv, Hidden, SameAdders, TaskKeepsRest
  <1>10. Gone'
    <2>1. \A j \in removed' : j \in Ids
      BY DEF RegistryInv, Shapes
    <2>2. RemovedStaysGone'
      BY <2>1 DEF RegistryInv, Gone, RemovedStaysGone
    <2>3. ASSUME NEW j \in Ids PROVE Stage(j)'
      <3>1. CASE j = i
        BY <1>1, <3>1 DEF Stage
      <3>2. CASE j # i
        BY <1>1, <3>2 DEF RegistryInv, Gone, Stage
      <3> QED  BY <3>1, <3>2
    <2> QED  BY <2>2, <2>3 DEF Gone
  <1> QED  BY <1>7, <1>8, <1>9, <1>10 DEF RegistryInv

\* A task that stores no row and has a place to go on from.
LEMMA TaskGoesOn ==
  ASSUME RegistryInv, TaskKeepsRest, NEW i \in Ids, Running(tasks[i]),
         NEW t, tasks' = [tasks EXCEPT ![i] = t], Running(t), DOMAIN t = TaskFields, t.id = i,
         strays' = strays, events' = events, removed' = removed,
         DOMAIN registry' = Ids, DOMAIN cache' = Ids,
         \A j \in Ids : j # i => registry'[j] = registry[j] /\ cache'[j] = cache[j],
         i \in removed => registry'[i] = None /\ cache'[i] = "None",
         t.pc \in {"Token", "fetch", "Cache"} => i \notin removed,
         t.pc \in {"NoToken", "NoRecord"} => cache'[i] = "None"
  PROVE  RegistryInv'
  <1> DEFINE e == [type |-> "AccountSynced", id |-> i]
  <1>1. e.type \in OfProjection /\ e.id = i
    BY DEF OfProjection
  <1> HIDE DEF e
  <1> QED  BY <1>1, TaskMoves

LEMMA TaskAnswers ==
  ASSUME RegistryInv, TaskKeepsRest, NEW i \in Ids, Running(tasks[i]),
         NEW e, e.type \in OfProjection, e.id = i, TaskEnds(i, <<e>>),
         \A w \in strays' : w.do \in {"Cache", "Record"} => w \in strays,
         DOMAIN registry' = Ids, DOMAIN cache' = Ids,
         \A j \in Ids : j # i => registry'[j] = registry[j] /\ cache'[j] = cache[j],
         removed' = removed \/ removed' = removed \cup {i},
         i \in removed' => registry'[i] = None /\ cache'[i] = "None"
  PROVE  RegistryInv'
  <1>1. ~Running(NoTask) /\ NoTask.pc = "none"
    BY DEF NoTask, Running
  <1>2. tasks' = [tasks EXCEPT ![i] = NoTask] /\ events' = events \o <<e>>
    BY DEF TaskEnds, Emit
  <1> QED  BY <1>1, <1>2, TaskMoves

\* The row and the cache are as they were, and so is what is removed.
LEMMA TaskFailsQuietly ==
  ASSUME RegistryInv, TaskKeepsRest, NEW i \in Ids, Running(tasks[i]),
         NEW type \in {"OperationFailed", "OperationExpired"}, TaskFails(i, type),
         UNCHANGED <<disk, removed>>,
         \A w \in strays' : w.do \in {"Cache", "Record"} => w \in strays
  PROVE  RegistryInv'
  <1> DEFINE e == [type |-> type, op |-> tasks[i].op, id |-> i]
  <1>1. e.type \in OfProjection /\ e.id = i /\ TaskEnds(i, <<e>>)
    BY DEF TaskFails, OfProjection
  <1>2. /\ DOMAIN registry' = Ids /\ DOMAIN cache' = Ids
        /\ i \in removed' => registry'[i] = None /\ cache'[i] = "None"
    BY DEF RegistryInv, Shapes, Gone, RemovedStaysGone, disk
  <1> HIDE DEF e
  <1> QED  BY <1>1, <1>2, TaskAnswers DEF disk

LEMMA ReconnectSignKeeps ==
  ASSUME RegistryInv, NEW i \in Ids, ReconnectSign(i)
  PROVE  RegistryInv'
  <1>1. /\ TaskKeepsRest /\ UNCHANGED <<disk, strays, removed>> /\ Running(tasks[i])
        /\ DOMAIN tasks[i] = TaskFields /\ tasks[i].id = i
    BY TaskRest DEF ReconnectSign, Running, RegistryInv, Shapes
  <1>2. ASSUME registry[i] # None, events' = events, NEW pc \in {"Token", "fetch"},
               tasks' = [tasks EXCEPT ![i].pc = pc, ![i].email = registry[i]]
        PROVE  RegistryInv'
    <2> DEFINE t == [tasks[i] EXCEPT !.pc = pc, !.email = registry[i]]
    <2>1. tasks' = [tasks EXCEPT ![i] = t]
      BY <1>2 DEF RegistryInv, Shapes
    <2>2. t.pc = pc /\ t.id = i /\ DOMAIN t = TaskFields
      BY <1>1 DEF TaskFields
    <2> HIDE DEF t
    <2>3. Running(t)
      BY <2>2 DEF Running
    <2>4. i \notin removed
      BY <1>2 DEF RegistryInv, Gone, RemovedStaysGone
    <2>5. DOMAIN registry' = Ids /\ DOMAIN cache' = Ids
      BY <1>1 DEF RegistryInv, Shapes, disk
    <2> QED  BY <1>1, <1>2, <2>1, <2>2, <2>3, <2>4, <2>5, TaskGoesOn DEF disk
  <1>3. CASE TaskFails(i, "OperationExpired") \/ TaskFails(i, "OperationFailed")
    BY <1>1, <1>3, TaskFailsQuietly
  <1> QED  BY <1>2, <1>3 DEF ReconnectSign

LEMMA ReconnectFetchKeeps ==
  ASSUME RegistryInv, NEW i \in Ids, ReconnectFetch(i)
  PROVE  RegistryInv'
  <1>1. /\ TaskKeepsRest /\ UNCHANGED <<disk, strays, removed>> /\ Running(tasks[i])
        /\ DOMAIN tasks[i] = TaskFields /\ tasks[i].id = i /\ i \notin removed
    BY TaskRest DEF ReconnectFetch, Running, RegistryInv, Shapes, Gone, Stage
  <1>2. CASE /\ tasks' = [tasks EXCEPT ![i].pc = "Cache", ![i].inbox = InboxOf(tasks[i].email)]
             /\ UNCHANGED events
    <2> DEFINE t == [tasks[i] EXCEPT !.pc = "Cache", !.inbox = InboxOf(tasks[i].email)]
    <2>1. tasks' = [tasks EXCEPT ![i] = t]
      BY <1>2 DEF RegistryInv, Shapes
    <2>2. t.pc = "Cache" /\ t.id = i /\ DOMAIN t = TaskFields
      BY <1>1 DEF TaskFields
    <2> HIDE DEF t
    <2>3. Running(t)
      BY <2>2 DEF Running
    <2>4. DOMAIN registry' = Ids /\ DOMAIN cache' = Ids
      BY <1>1 DEF RegistryInv, Shapes, disk
    <2> QED  BY <1>1, <1>2, <2>1, <2>2, <2>3, <2>4, TaskGoesOn DEF disk
  <1>3. CASE TaskFails(i, "OperationFailed")
    BY <1>1, <1>3, TaskFailsQuietly
  <1> QED  BY <1>2, <1>3 DEF ReconnectFetch

LEMMA TaskWriteKeeps ==
  ASSUME RegistryInv, NEW i \in Ids, TaskWrite(i)
  PROVE  RegistryInv'
  <1> DEFINE w == WriteOf(tasks[i])
             pc == tasks[i].pc
             synced == [type |-> "AccountSynced", op |-> tasks[i].op, id |-> i,
                        email |-> tasks[i].email, inbox |-> tasks[i].inbox]
             gone == [type |-> "AccountRemoved", op |-> tasks[i].op, id |-> i]
  <1>1. /\ TaskKeepsRest /\ Running(tasks[i]) /\ DOMAIN tasks[i] = TaskFields /\ tasks[i].id = i
        /\ pc \in {"Token", "Cache", "NoCache", "NoToken", "NoRecord"}
    BY TaskRest DEF TaskWrite, Running, RegistryInv, Shapes
  <1>2. w.do = pc /\ w.id = i
    BY <1>1 DEF WriteOf
  <1>3. /\ pc \in {"Token", "Cache"} => i \notin removed
        /\ pc \in {"NoToken", "NoRecord"} => cache[i] = "None"
        /\ i \in removed => registry[i] = None /\ cache[i] = "None"
        /\ DOMAIN registry = Ids /\ DOMAIN cache = Ids
    BY DEF RegistryInv, Gone, Stage, RemovedStaysGone, Shapes
  <1>4. CASE /\ Store(w) /\ strays' = strays
             /\ removed' = IF pc = "NoRecord" THEN removed \cup {i} ELSE removed
             /\ IF pc \in DOMAIN TaskNext
                THEN tasks' = [tasks EXCEPT ![i].pc = TaskNext[pc]] /\ UNCHANGED events
                ELSE TaskEnds(i, <<IF pc = "Cache" THEN synced ELSE gone>>)
    <2>1. /\ DOMAIN registry' = Ids /\ DOMAIN cache' = Ids
          /\ \A j \in Ids : j # i => registry'[j] = registry[j] /\ cache'[j] = cache[j]
          /\ registry'[i] = registry[i] \/ registry'[i] = None
          /\ cache'[i] = cache[i] \/ cache'[i] = "None" \/ pc = "Cache"
          /\ pc = "NoRecord" => registry'[i] = None
          /\ pc = "NoCache" => cache'[i] = "None"
      BY <1>1, <1>2, <1>4, StoreIs DEF RegistryInv
    <2>2. i \in removed' => registry'[i] = None /\ cache'[i] = "None"
      BY <1>3, <1>4, <2>1
    <2>3. CASE pc \in DOMAIN TaskNext
      <3> DEFINE next == TaskNext[pc]
                 t == [tasks[i] EXCEPT !.pc = next]
      <3>1. /\ pc \in {"Token", "NoCache", "NoToken"} /\ next \in {"fetch", "NoToken", "NoRecord"}
            /\ next = "fetch" => pc = "Token"
        BY <2>3 DEF TaskNext
      <3> HIDE DEF next
      <3>2. tasks' = [tasks EXCEPT ![i] = t] /\ events' = events /\ removed' = removed
        BY <1>4, <2>3, <3>1 DEF RegistryInv, Shapes, next
      <3>3. t.pc = next /\ t.id = i /\ DOMAIN t = TaskFields
        BY <1>1 DEF TaskFields
      <3> HIDE DEF t
      <3>4. Running(t)
        BY <3>1, <3>3 DEF Running
      <3>5. /\ t.pc \in {"Token", "fetch", "Cache"} => i \notin removed
            /\ t.pc \in {"NoToken", "NoRecord"} => cache'[i] = "None"
        <4>1. CASE pc = "Token"
          <5>1. next = "fetch"
            BY <4>1 DEF TaskNext, next
          <5> QED  BY <1>3, <3>3, <4>1, <5>1
        <4>2. CASE pc = "NoCache"
          BY <2>1, <3>1, <3>3, <4>2
        <4>3. CASE pc = "NoToken"
          BY <1>3, <2>1, <3>1, <3>3, <4>3
        <4> QED  BY <3>1, <4>1, <4>2, <4>3
      <3> QED  BY <1>1, <1>4, <2>1, <2>2, <3>2, <3>3, <3>4, <3>5, TaskGoesOn
    <2>4. CASE pc \notin DOMAIN TaskNext
      <3> DEFINE e == IF pc = "Cache" THEN synced ELSE gone
      <3>1. e.type \in OfProjection /\ e.id = i /\ TaskEnds(i, <<e>>)
        BY <1>4, <2>4 DEF OfProjection
      <3> HIDE DEF e
      <3> QED  BY <1>1, <1>4, <2>1, <2>2, <3>1, TaskAnswers
    <2> QED  BY <2>3, <2>4
  <1>5. CASE Fails(tasks[i]) /\ TaskFails(i, "OperationFailed") /\ UNCHANGED removed
    <2>1. CASE UNCHANGED <<disk, strays>>
      BY <1>1, <1>5, <2>1, TaskFailsQuietly
    <2>2. CASE pc \in {"Token", "NoToken"} /\ strays' = strays \cup {w} /\ UNCHANGED disk
      <3>1. \A v \in strays' : v.do \in {"Cache", "Record"} => v \in strays
        BY <1>2, <2>2
      <3> QED  BY <1>1, <1>5, <2>2, <3>1, TaskFailsQuietly
    <2>3. CASE pc = "Cache" /\ Store(w) /\ UNCHANGED strays
      <3> DEFINE e == [type |-> "OperationFailed", op |-> tasks[i].op, id |-> i]
      <3>1. e.type \in OfProjection /\ e.id = i /\ TaskEnds(i, <<e>>)
        BY <1>5 DEF TaskFails, OfProjection
      <3>2. /\ DOMAIN registry' = Ids /\ DOMAIN cache' = Ids
            /\ \A j \in Ids : j # i => registry'[j] = registry[j] /\ cache'[j] = cache[j]
        BY <1>2, <2>3, StoreIs DEF RegistryInv
      <3> HIDE DEF e
      <3> QED  BY <1>1, <1>3, <1>5, <2>3, <3>1, <3>2, TaskAnswers
    <2> QED  BY <1>5, <2>1, <2>2, <2>3 DEF Fails
  <1> QED  BY <1>4, <1>5 DEF TaskWrite

-----------------------------------------------------------------------------
(* The singleton session                                                      *)

LegacyShapes ==
    /\ legacyTask'.pc # "none" => DOMAIN legacyTask' = {"op", "pc", "email"}
    /\ legacyTask'.pc \in {"register", "registerNew"} => legacyTask'.email # None

\* A step of the session that gives nobody a row.
LEMMA LegacyStays ==
  ASSUME RegistryInv, LegacyOnly, registry' = registry, used' = used, LegacyShapes,
         EventsCalm, NamesNothing
  PROVE  RegistryInv'
  <1>1. CommandsCalm
    BY NoCommand DEF RegistryInv, LegacyOnly
  <1>2. SameAdders
    BY AddersStay DEF RegistryInv, Hidden, LegacyOnly
  <1>3. Shapes'
    BY DEF RegistryInv, Shapes, LegacyOnly, LegacyShapes, ui
  <1> QED  BY <1>1, <1>2, <1>3, StaysApart DEF LegacyOnly, ui

LEMMA LegacyGoes ==
  ASSUME RegistryInv, legacyTask.pc # "none", NEW pc, pc \notin {"register", "registerNew"},
         legacyTask' = [legacyTask EXCEPT !.pc = pc]
  PROVE  LegacyShapes
  <1>1. DOMAIN legacyTask = {"op", "pc", "email"}
    BY DEF RegistryInv, Shapes
  <1> QED  BY <1>1 DEF LegacyShapes

LEMMA LegacyStops ==
  ASSUME legacyTask' = NoTask
  PROVE  LegacyShapes
  BY DEF LegacyShapes, NoTask

LEMMA LegacyEndsKeeps ==
  ASSUME RegistryInv, LegacyOnly, registry' = registry, used' = used,
         NEW type \in {"NoStoredAccount", "Failed", "Expired", "Disconnected"}, LegacyEnds(type)
  PROVE  RegistryInv'
  <1>1. EventsCalm /\ NamesNothing
    BY AnswerTold DEF RegistryInv, OfProjection, LegacyEnds
  <1> QED  BY <1>1, LegacyStops, LegacyStays DEF LegacyEnds

LEMMA VerifiedKeeps ==
  ASSUME RegistryInv, LegacyOnly, registry' = registry, used' = used,
         legacyTask.pc # "none", NEW a, a # None, Verified(a)
  PROVE  RegistryInv'
  <1> DEFINE e == [type |-> "IdentityVerified", op |-> legacyTask.op, email |-> a]
  <1>1. events' = events \o <<e>> /\ e.type \notin OfProjection /\ \A i \in Ids : ~Names(e, i)
    BY DEF Verified, Emit, OfProjection, Names
  <1>2. DOMAIN legacyTask = {"op", "pc", "email"}
    BY DEF RegistryInv, Shapes
  <1>3. LegacyShapes
    <2>1. DOMAIN legacyTask' = {"op", "pc", "email"} /\ legacyTask'.email = a
      BY <1>2 DEF Verified
    <2> QED  BY <2>1 DEF LegacyShapes
  <1> HIDE DEF e
  <1>4. EventsCalm /\ NamesNothing
    BY <1>1, EventTold DEF RegistryInv, NamesNothing
  <1> QED  BY <1>3, <1>4, LegacyStays

LEMMA LegacySilent ==
  ASSUME RegistryInv, LegacyOnly, registry' = registry, used' = used, legacyTask.pc # "none",
         NEW pc, pc \notin {"register", "registerNew"}, LegacyAt(pc, <<>>)
  PROVE  RegistryInv'
  <1>1. EventsCalm /\ NamesNothing
    BY NothingTold DEF RegistryInv, LegacyAt
  <1>2. LegacyShapes
    BY LegacyGoes DEF LegacyAt
  <1> QED  BY <1>1, <1>2, LegacyStays

LEMMA LegacyListKeeps == RegistryInv /\ LegacyList => RegistryInv'
  <1> SUFFICES ASSUME RegistryInv, LegacyList PROVE RegistryInv'
    OBVIOUS
  <1> DEFINE e == [type |-> "Restored", op |-> legacyTask.op, rows |-> registry, inboxes |-> cache]
  <1>1. /\ events' = events \o <<e>> /\ e.type \notin OfProjection
        /\ \A i \in Ids : Names(e, i) => registry[i] # None
    BY DEF LegacyList, LegacyAt, Emit, OfProjection, Names
  <1>2. LegacyShapes
    BY LegacyGoes DEF LegacyList, LegacyAt, InLegacy
  <1> HIDE DEF e
  <1>3. EventsCalm /\ NamesNothing
    BY <1>1, EventTold DEF RegistryInv, NamesNothing
  <1> QED  BY <1>2, <1>3, LegacyStays DEF LegacyList

\* The first sign-in of an identity gives it a row under an id that is nobody's.
LEMMA RegisterKeeps == RegistryInv /\ LegacyRegister => RegistryInv'
  <1> SUFFICES ASSUME RegistryInv, LegacyRegister PROVE RegistryInv'
    OBVIOUS
  <1> DEFINE pc == IF InLegacy("register") THEN "fetch" ELSE "save"
             a == legacyTask.email
             e(i) == [type |-> "LegacyRegistered", op |-> legacyTask.op, id |-> i, email |-> a]
  <1>1. LegacyOnly /\ legacyTask.pc # "none" /\ a # None /\ pc \notin {"register", "registerNew"}
    BY DEF LegacyRegister, InLegacy, RegistryInv, Shapes
  <1>2. \A i \in Ids : e(i).type \notin OfProjection /\ \A j \in Ids : Names(e(i), j) => j = i
    BY DEF OfProjection, Names
  <1> HIDE DEF pc
  <1>3. ASSUME NEW i \in RegisteredAs(registry, a), LegacyAt(pc, <<e(i)>>), UNCHANGED <<registry, used>>
        PROVE  RegistryInv'
    <2>1. LegacyShapes
      BY <1>1, <1>3, LegacyGoes DEF LegacyAt
    <2>2. i \in Ids /\ registry[i] # None
      BY <1>1, <1>3 DEF RegisteredAs
    <2> DEFINE told == e(i)
    <2>3. /\ events' = events \o <<told>> /\ told.type \notin OfProjection
          /\ \A j \in Ids : Names(told, j) => registry[j] # None
      BY <1>2, <1>3, <2>2 DEF LegacyAt, Emit
    <2> HIDE DEF told
    <2>4. EventsCalm /\ NamesNothing
      BY <2>3, EventTold DEF RegistryInv, NamesNothing
    <2> QED  BY <1>1, <1>3, <2>1, <2>4, LegacyStays
  <1>4. ASSUME NEW i \in Ids \ used, registry' = [registry EXCEPT ![i] = a], used' = used \cup {i},
               LegacyAt(pc, <<e(i)>>)
        PROVE  RegistryInv'
    <2>1. LegacyShapes
      BY <1>1, <1>4, LegacyGoes DEF LegacyAt
    <2> DEFINE told == e(i)
    <2>2. /\ events' = events \o <<told>> /\ told.type \notin OfProjection
          /\ \A j \in Ids : Names(told, j) => j = i
      BY <1>2, <1>4 DEF LegacyAt, Emit
    <2> HIDE DEF told
    <2>3. EventsCalm /\ \A j \in Ids : Named(events', j) => Named(events, j) \/ j = i
      BY <2>2, EventTold DEF RegistryInv
    <2>4. CommandsCalm
      BY <1>1, NoCommand DEF RegistryInv, LegacyOnly
    <2>5. UNCHANGED <<cache, accounts, ops, tasks, addTask, strays, removed, nextOp, fetches>>
      BY <1>1 DEF LegacyOnly, ui
    <2>6. /\ DOMAIN registry' = Ids
          /\ \A j \in Ids : j # i => registry'[j] = registry[j]
      BY <1>4 DEF RegistryInv, Shapes
    <2>7. i \notin removed /\ ~Adding(i)
      BY <1>4 DEF RegistryInv, Hidden, Unknown
    <2>8. Shapes'
      BY <1>4, <2>1, <2>5, <2>6 DEF RegistryInv, Shapes, LegacyShapes
    <2>9. Turns'
      BY <2>3, <2>4, <2>5, TurnsStay DEF RegistryInv
    <2>10. Hidden'
      <3>1. SameAdders
        BY <2>5, AddersStay DEF RegistryInv, Hidden
      <3>2. ASSUME NEW j \in Ids, j \notin used' \/ Adding(j)' PROVE Unknown(j)'
        <4>1. Unknown(j) /\ j # i
          BY <1>4, <2>7, <3>1, <3>2 DEF RegistryInv, Hidden, SameAdders
        <4> QED  BY <2>3, <2>4, <2>5, <2>6, <4>1 DEF Unknown, CommandsCalm
      <3> QED  BY <1>4, <3>1, <3>2 DEF RegistryInv, Hidden, SameAdders
    <2>11. Gone'
      <3>1. \A j \in removed : j \in Ids
        BY DEF RegistryInv, Shapes
      <3> QED  BY <2>5, <2>6, <2>7, <3>1 DEF RegistryInv, Gone, RemovedStaysGone, Stage
    <2> QED  BY <2>8, <2>9, <2>10, <2>11 DEF RegistryInv
  <1>5. CASE LegacyAt(pc, <<>>) /\ UNCHANGED <<registry, used>>
    BY <1>1, <1>5, LegacySilent
  <1> QED  BY <1>3, <1>4, <1>5 DEF LegacyRegister, pc

LEMMA LegacyKeeps == RegistryInv /\ LegacyStep => RegistryInv'
  <1> SUFFICES ASSUME RegistryInv, LegacyStep PROVE RegistryInv'
    OBVIOUS
  <1>1. CASE LegacyList
    BY <1>1, LegacyListKeeps
  <1>2. CASE LegacySign
    <2>1. LegacyOnly /\ registry' = registry /\ used' = used /\ legacyTask.pc # "none"
      BY <1>2 DEF LegacySign, InLegacy
    <2>2. CASE legacyToken # None /\ Verified(legacyToken)
      BY <2>1, <2>2, VerifiedKeeps
    <2>3. CASE LegacyEnds("NoStoredAccount") \/ LegacyEnds("Failed") \/ LegacyEnds("Expired")
      BY <2>1, <2>3, LegacyEndsKeeps
    <2> QED  BY <1>2, <2>2, <2>3 DEF LegacySign
  <1>3. CASE LegacyBrowser
    <2>1. LegacyOnly /\ registry' = registry /\ used' = used /\ legacyTask.pc # "none"
      BY <1>3 DEF LegacyBrowser, InLegacy
    <2>2. ASSUME NEW a \in Emails, Verified(a) PROVE RegistryInv'
      <3>1. a # None
        BY NoneAssumption
      <3> QED  BY <2>1, <2>2, <3>1, VerifiedKeeps
    <2>3. CASE LegacyEnds("Failed")
      BY <2>1, <2>3, LegacyEndsKeeps
    <2> QED  BY <1>3, <2>2, <2>3 DEF LegacyBrowser
  <1>4. CASE LegacyRegister
    BY <1>4, RegisterKeeps
  <1>5. CASE LegacySave
    <2>1. LegacyOnly /\ registry' = registry /\ used' = used /\ legacyTask.pc # "none"
      BY <1>5 DEF LegacySave, InLegacy
    <2>2. CASE LegacyAt("fetch", <<>>)
      BY <2>1, <2>2, LegacySilent
    <2>3. CASE LegacyEnds("Failed")
      BY <2>1, <2>3, LegacyEndsKeeps
    <2> QED  BY <1>5, <2>2, <2>3 DEF LegacySave
  <1>6. CASE LegacyFetch
    <2>1. LegacyOnly /\ registry' = registry /\ used' = used
      BY <1>6 DEF LegacyFetch
    <2> DEFINE e == [type |-> "SyncComplete", op |-> legacyTask.op, email |-> legacyTask.email,
                     inbox |-> InboxOf(legacyTask.email)]
    <2>2. CASE legacyTask' = NoTask /\ Emit(<<e>>)
      <3>1. events' = events \o <<e>> /\ e.type \notin OfProjection /\ \A i \in Ids : ~Names(e, i)
        BY <2>2 DEF Emit, OfProjection, Names
      <3> HIDE DEF e
      <3>2. EventsCalm /\ NamesNothing
        BY <3>1, EventTold DEF RegistryInv, NamesNothing
      <3> QED  BY <2>1, <2>2, <3>2, LegacyStops, LegacyStays
    <2>3. CASE LegacyEnds("Failed")
      BY <2>1, <2>3, LegacyEndsKeeps
    <2> QED  BY <1>6, <2>2, <2>3 DEF LegacyFetch, e
  <1>7. CASE LegacyPurge
    <2>1. LegacyOnly /\ registry' = registry /\ used' = used
      BY <1>7 DEF LegacyPurge
    <2>2. LegacyEnds("Disconnected") \/ LegacyEnds("Failed")
      BY <1>7 DEF LegacyPurge
    <2> QED  BY <2>1, <2>2, LegacyEndsKeeps
  <1> QED  BY <1>1, <1>2, <1>3, <1>4, <1>5, <1>6, <1>7 DEF LegacyStep

-----------------------------------------------------------------------------
(* The work no slot tracks                                                    *)

FetchGoes(f) ==
    \/ (\E pc : FetchTo(f, pc)) \/ \E ok, stays : FetchEnds(f, ok, stays)

LEMMA FetchMoves ==
  ASSUME RegistryInv, FetchOnly, NEW f \in fetches, FetchGoes(f),
         registry' = registry, cache' = cache,
         \A w \in strays' : w.do \in {"Cache", "Record"} => w \in strays
  PROVE  RegistryInv'
  <1>1. IsFetch(f)
    BY DEF RegistryInv, Shapes
  <1>2. (\A g \in fetches' : IsFetch(g)) /\ EventsCalm /\ NamesNothing
    <2>1. ASSUME NEW pc, FetchTo(f, pc)
          PROVE  (\A g \in fetches' : IsFetch(g)) /\ EventsCalm /\ NamesNothing
      <3>1. IsFetch([f EXCEPT !.pc = pc])
        BY <1>1 DEF IsFetch
      <3>2. \A g \in fetches' : IsFetch(g)
        BY <2>1, <3>1 DEF FetchTo, RegistryInv, Shapes
      <3>3. events' = events
        BY <2>1 DEF FetchTo
      <3> QED  BY <3>2, <3>3, NothingTold DEF RegistryInv
    <2>2. ASSUME NEW ok, NEW stays, FetchEnds(f, ok, stays)
          PROVE  (\A g \in fetches' : IsFetch(g)) /\ EventsCalm /\ NamesNothing
      <3> DEFINE e == [type |-> f.kind, op |-> 0, id |-> f.id, req |-> f.req,
                       ok |-> ok /\ f.kind # "SendAs", stays |-> stays]
      <3>1. /\ events' = events \o <<e>> /\ e.type \notin OfProjection
            /\ \A i \in Ids : ~Names(e, i)
        BY <1>1, <2>2 DEF FetchEnds, Emit, OfProjection, Names, IsFetch
      <3> HIDE DEF e
      <3>2. EventsCalm /\ NamesNothing
        BY <3>1, EventTold DEF RegistryInv, NamesNothing
      <3> QED  BY <2>2, <3>2 DEF FetchEnds, RegistryInv, Shapes
    <2> QED  BY <2>1, <2>2 DEF FetchGoes
  <1>3. CommandsCalm
    BY NoCommand DEF RegistryInv, FetchOnly
  <1>4. SameAdders
    BY AddersLess DEF RegistryInv, Hidden, FetchOnly
  <1>5. Shapes'
    BY <1>2 DEF RegistryInv, Shapes, FetchOnly, ui, seen
  <1> QED  BY <1>2, <1>3, <1>4, <1>5, StaysApart DEF FetchOnly, ui, seen

LEMMA FetchKeeps ==
  ASSUME RegistryInv, NEW f \in fetches, FetchStep(f)
  PROVE  RegistryInv'
  <1>1. HasToken(f) => FetchGoes(f)
    BY DEF HasToken, FetchGoes
  <1>2. CASE FetchSign(f)
    <2>1. FetchOnly /\ UNCHANGED <<disk, strays>> /\ FetchGoes(f)
      BY <1>1, <1>2 DEF FetchSign, FetchGoes
    <2> QED  BY <2>1, FetchMoves DEF disk
  <1>3. CASE FetchRotate(f)
    <2> DEFINE w == [do |-> "Token", id |-> f.id, email |-> f.email, inbox |-> "None"]
    <2>1. /\ FetchOnly /\ FetchGoes(f)
          /\ (Store(w) /\ strays' = strays) \/ (strays' \in {strays, strays \cup {w}} /\ UNCHANGED disk)
      BY <1>1, <1>3 DEF FetchRotate, FetchGoes
    <2>2. w.do = "Token"
      OBVIOUS
    <2> HIDE DEF w
    <2>3. registry' = registry /\ cache' = cache
      BY <2>1, <2>2, StoreIs DEF RegistryInv, disk
    <2>4. \A v \in strays' : v.do \in {"Cache", "Record"} => v \in strays
      BY <2>1, <2>2
    <2> QED  BY <2>1, <2>3, <2>4, FetchMoves
  <1>4. CASE FetchCall(f)
    <2>1. FetchOnly /\ UNCHANGED <<disk, strays>> /\ FetchGoes(f)
      BY <1>4 DEF FetchCall, FetchGoes
    <2> QED  BY <2>1, FetchMoves DEF disk
  <1> QED  BY <1>2, <1>3, <1>4 DEF FetchStep

-----------------------------------------------------------------------------
(* The theorem                                                                *)

LEMMA NextKeeps == RegistryInv /\ [Next]_vars => RegistryInv'
  <1> SUFFICES ASSUME RegistryInv, [Next]_vars PROVE RegistryInv'
    OBVIOUS
  <1>1. CASE Person
    BY <1>1, PersonKeeps
  <1>2. CASE Deliver
    BY <1>2, DeliverKeeps
  <1>3. CASE Controller
    BY <1>3, ControllerKeeps
  <1>4. CASE AddStep
    BY <1>4, AddBrowserKeeps, AddCheckKeeps, AddWriteKeeps DEF AddStep
  <1>5. ASSUME NEW i \in Ids, TaskStep(i) PROVE RegistryInv'
    BY <1>5, ReconnectSignKeeps, ReconnectFetchKeeps, TaskWriteKeeps DEF TaskStep
  <1>6. CASE LegacyStep
    BY <1>6, LegacyKeeps
  <1>7. ASSUME NEW f \in fetches, FetchStep(f) PROVE RegistryInv'
    BY <1>7, FetchKeeps
  <1>8. ASSUME NEW w \in strays, Stray(w) PROVE RegistryInv'
    BY <1>8, StrayKeeps
  <1>9. CASE Restart
    BY <1>9, RestartKeeps
  <1>10. CASE UNCHANGED vars
    <2>1. UNCHANGED <<registry, cache, accounts, ops, tasks, used, removed, nextOp, addTask, strays,
                      commands, events, legacyTask, fetches>>
      BY <1>10 DEF vars, disk, ui, worker, seen
    <2>2. CommandsCalm /\ EventsCalm /\ NamesNothing
      BY <2>1, NoCommand, NothingTold DEF RegistryInv
    <2>3. SameAdders
      BY <2>1, AddersStay DEF RegistryInv, Hidden
    <2>4. Shapes'
      BY <2>1 DEF RegistryInv, Shapes
    <2> QED  BY <2>1, <2>2, <2>3, <2>4, StaysApart
  <1> QED  BY <1>1, <1>2, <1>3, <1>4, <1>5, <1>6, <1>7, <1>8, <1>9, <1>10 DEF Next, System

\* Once remove_account has deleted an account's row, no task, no late closure
\* and no registration of the session brings back its row or its cached mail,
\* for any accounts, identities, bounds and restarts.
THEOREM RemovedForGood == Spec => []RemovedStaysGone
  <1>1. RegistryInv => RemovedStaysGone
    BY DEF RegistryInv, Gone
  <1> QED  BY <1>1, Start, NextKeeps, PTL DEF Spec

-----------------------------------------------------------------------------
(* One row per identity                                                       *)

UniqueRows(rows) == \A i, j \in Ids : rows[i] = rows[j] /\ rows[i] # None => i = j

\* A list of rows that is still on its way to the window.
UniqueSnapshots == \A n \in DOMAIN events : events[n].type = "Restored" => UniqueRows(events[n].rows)

UniqueListed ==
    /\ \A i \in Ids : DOMAIN accounts[i] = {"email", "session", "inbox"}
    /\ \A i, j \in Listed : accounts[i].email = accounts[j].email => i = j

UniqueInv == UniqueRows(registry) /\ UniqueSnapshots /\ UniqueListed

LEMMA AtMostOne ==
  ASSUME NEW S, S \subseteq Ids
  PROVE  (\A i, j \in S : i = j) <=> Cardinality(S) <= 1
  <1>1. IsFiniteSet(S) /\ Cardinality(S) \in Nat
    BY BoundAssumption, FS_Subset, FS_CardinalityType
  <1>2. ASSUME \A i, j \in S : i = j PROVE Cardinality(S) <= 1
    <2>1. CASE S = {}
      BY <2>1, FS_EmptySet
    <2>2. ASSUME NEW i \in S PROVE Cardinality(S) <= 1
      <3>1. S = {i}
        BY <1>2
      <3> QED  BY <3>1, FS_Singleton
    <2> QED  BY <2>1, <2>2
  <1>3. ASSUME Cardinality(S) <= 1 PROVE \A i, j \in S : i = j
    <2>1. Cardinality(S) = 0 \/ Cardinality(S) = 1
      BY <1>1, <1>3
    <2>2. S = {} \/ \E x : S = {x}
      BY <1>1, <2>1, FS_EmptySet, FS_Singleton
    <2> QED  BY <2>2
  <1> QED  BY <1>2, <1>3

LEMMA UniqueIsOne == UniqueInv => OneRowPerIdentity
  <1> SUFFICES ASSUME UniqueInv, NEW e \in Emails
               PROVE  /\ Cardinality(RegisteredAs(registry, e)) <= 1
                      /\ Cardinality({i \in Listed : accounts[i].email = e}) <= 1
    BY DEF OneRowPerIdentity
  <1>1. e # None
    BY NoneAssumption
  <1>2. RegisteredAs(registry, e) \subseteq Ids /\ \A i, j \in RegisteredAs(registry, e) : i = j
    BY <1>1 DEF RegisteredAs, UniqueInv, UniqueRows
  <1> DEFINE L == {i \in Listed : accounts[i].email = e}
  <1>3. L \subseteq Ids /\ \A i, j \in L : i = j
    BY DEF Listed, UniqueInv, UniqueListed
  <1> HIDE DEF L
  <1>4. Cardinality(RegisteredAs(registry, e)) <= 1 /\ Cardinality(L) <= 1
    BY <1>2, <1>3, AtMostOne
  <1> QED  BY <1>4 DEF L

LEMMA StartUnique == Init => UniqueInv
  <1> SUFFICES ASSUME Init PROVE UniqueInv
    OBVIOUS
  <1>1. UniqueRows(registry)
    <2>1. ASSUME NEW i \in Ids, NEW j \in Ids, registry[i] = registry[j], registry[i] # None PROVE i = j
      <3> DEFINE S == RegisteredAs(registry, registry[i])
      <3>1. registry[i] \in Emails /\ i \in S /\ j \in S /\ S \subseteq Ids
        BY <2>1 DEF Init, RegisteredAs
      <3>2. Cardinality(S) <= 1
        BY <3>1 DEF Init
      <3> HIDE DEF S
      <3> QED  BY <3>1, <3>2, AtMostOne
    <2> QED  BY <2>1 DEF UniqueRows
  <1>2. UniqueSnapshots
    BY DEF Init, UniqueSnapshots
  <1>3. UniqueListed
    BY DEF Init, UniqueListed, Listed, NewAccounts, NoAccount
  <1> QED  BY <1>1, <1>2, <1>3 DEF UniqueInv

\* A row is added only if add finds none of its identity.
WritesRow ==
    \/ registry' = registry
    \/ \E i, a : CanAdd(registry, i, a) /\ registry' = [registry EXCEPT ![i] = a]
    \/ \E i : registry' = [registry EXCEPT ![i] = None]

\* A list of rows that is sent is that of the registry.
Says ==
    \/ events' = events \/ Emit(<<>>)
    \/ \E e : Emit(<<e>>) /\ (e.type = "Restored" => e.rows = registry)

LEMMA RowsStayUnique ==
  ASSUME UniqueRows(registry), DOMAIN registry = Ids, WritesRow
  PROVE  UniqueRows(registry')
  <1>1. CASE registry' = registry
    BY <1>1
  <1>2. ASSUME NEW i, NEW a, CanAdd(registry, i, a), registry' = [registry EXCEPT ![i] = a]
        PROVE  UniqueRows(registry')
    BY <1>2 DEF UniqueRows, CanAdd, RegisteredAs
  <1>3. ASSUME NEW i, registry' = [registry EXCEPT ![i] = None]
        PROVE  UniqueRows(registry')
    BY <1>3 DEF UniqueRows
  <1> QED  BY <1>1, <1>2, <1>3 DEF WritesRow

LEMMA SnapshotsStayUnique ==
  ASSUME RegistryInv, UniqueRows(registry), UniqueSnapshots, Says
  PROVE  UniqueSnapshots'
  <1>1. IsSeq(events)
    BY DEF RegistryInv, Turns, Orderly
  <1>2. CASE events' = events \/ Emit(<<>>)
    <2>1. events' = events
      BY <1>1, <1>2, AppendIs DEF Emit
    <2> QED  BY <2>1 DEF UniqueSnapshots, UniqueRows
  <1>3. ASSUME NEW e, Emit(<<e>>), e.type = "Restored" => e.rows = registry
        PROVE  UniqueSnapshots'
    <2>1. /\ DOMAIN events = 1 .. Len(events) /\ Len(events) \in Nat
          /\ DOMAIN events' = 1 .. (Len(events) + 1)
          /\ \A n \in DOMAIN events : events'[n] = events[n]
          /\ events'[Len(events) + 1] = e
      BY <1>1, <1>3, AppendIs DEF Emit
    <2>2. \A n \in DOMAIN events' : n \in DOMAIN events \/ n = Len(events) + 1
      BY <2>1
    <2> QED  BY <1>3, <2>1, <2>2 DEF UniqueSnapshots
  <1> QED  BY <1>2, <1>3 DEF Says

LEMMA Unlisted ==
  ASSUME RegistryInv, UniqueInv, WritesRow, Says, accounts' = accounts
  PROVE  UniqueInv'
  <1>1. UniqueRows(registry')
    BY RowsStayUnique DEF RegistryInv, Shapes, UniqueInv
  <1>2. UniqueSnapshots'
    BY SnapshotsStayUnique DEF UniqueInv
  <1>3. UniqueListed'
    BY DEF UniqueInv, UniqueListed, Listed
  <1> QED  BY <1>1, <1>2, <1>3 DEF UniqueInv, UniqueRows

LEMMA StoreWritesRow ==
  ASSUME NEW w, Store(w), w.do = "Record" => CanAdd(registry, w.id, w.email)
  PROVE  WritesRow
  <1>1. /\ w.do = "Record" => registry' = [registry EXCEPT ![w.id] = w.email]
        /\ w.do = "NoRecord" => registry' = [registry EXCEPT ![w.id] = None]
        /\ w.do \notin {"Record", "NoRecord"} => registry' = registry
    BY DEF Store
  <1>2. CASE w.do = "Record"
    BY <1>1, <1>2 DEF WritesRow
  <1>3. CASE w.do = "NoRecord"
    BY <1>1, <1>3 DEF WritesRow
  <1>4. CASE w.do \notin {"Record", "NoRecord"}
    BY <1>1, <1>4 DEF WritesRow
  <1> QED  BY <1>2, <1>3, <1>4

LEMMA PossibleAdds ==
  ASSUME NEW w, Possible(w), w.do = "Record"
  PROVE  CanAdd(registry, w.id, w.email)
  BY DEF Possible

LEMMA FailsWritesRow ==
  ASSUME NEW t, Fails(t)
  PROVE  WritesRow
  <1>1. CASE UNCHANGED disk
    BY <1>1 DEF disk, WritesRow
  <1>2. CASE t.pc = "Cache" /\ Store(WriteOf(t))
    <2>1. WriteOf(t).do = "Cache"
      BY <1>2 DEF WriteOf
    <2> QED  BY <1>2, <2>1, StoreWritesRow
  <1> QED  BY <1>1, <1>2 DEF Fails

\* A step that changes no list of the window.
Unseen == WritesRow /\ Says /\ accounts' = accounts

LEMMA SaysAnswer ==
  ASSUME NEW type, NEW op, type # "Restored", Emit(<<Answer(type, op)>>)
  PROVE  Says
  <1> DEFINE e == Answer(type, op)
  <1>1. e.type # "Restored" /\ Emit(<<e>>)
    BY DEF Answer
  <1> HIDE DEF e
  <1> QED  BY <1>1 DEF Says

LEMMA ControllerUnseen == Controller => Unseen
  <1> SUFFICES ASSUME Controller PROVE Unseen
    OBVIOUS
  <1> DEFINE c == Head(commands)
  <1>1. accounts' = accounts
    BY DEF Controller, ui
  <1> HIDE DEF c
  <1>2. CASE AddCommand(c)
    BY <1>2, SaysAnswer DEF AddCommand, disk, WritesRow, Says, Unseen, Controller, ui
  <1>3. CASE ReconnectCommand(c)
    <2> DEFINE e == [type |-> "OperationFailed", op |-> c.op, id |-> c.id]
    <2>1. e.type # "Restored" /\ (Emit(<<e>>) \/ events' = events) /\ registry' = registry
      BY <1>3 DEF ReconnectCommand, disk
    <2> HIDE DEF e
    <2> QED  BY <1>1, <2>1 DEF WritesRow, Says, Unseen
  <1>4. CASE RemoveCommand(c)
    BY <1>1, <1>4 DEF RemoveCommand, disk, WritesRow, Says, Unseen
  <1>5. CASE CancelAddCommand(c)
    BY <1>1, <1>5, SaysAnswer DEF CancelAddCommand, disk, WritesRow, Unseen
  <1>6. CASE SingletonCommand(c)
    <2>1. registry' = registry /\ (Emit(<<Answer("Cancelled", c.op)>>) \/ events' = events)
      BY <1>6 DEF SingletonCommand, disk
    <2> QED  BY <1>1, <2>1, SaysAnswer DEF WritesRow, Says, Unseen
  <1>7. CASE FetchCommand(c)
    BY <1>1, <1>7 DEF FetchCommand, disk, WritesRow, Says, Unseen
  <1> QED  BY <1>2, <1>3, <1>4, <1>5, <1>6, <1>7 DEF Controller, c

LEMMA AddEndsSays ==
  ASSUME NEW type, NEW op, type # "Restored", AddEnds(<<Answer(type, op)>>)
  PROVE  Says
  BY SaysAnswer DEF AddEnds

LEMMA AddUnseen == AddStep => Unseen
  <1> SUFFICES ASSUME AddStep PROVE Unseen
    OBVIOUS
  <1>1. accounts' = accounts
    BY DEF AddStep, AddBrowser, AddCheck, AddWrite, AddOnly, ui
  <1>2. CASE AddBrowser
    <2>1. registry' = registry /\ (events' = events \/ AddEnds(<<Answer("Failed", addTask.op)>>))
      BY <1>2 DEF AddBrowser, disk
    <2> QED  BY <1>1, <2>1, AddEndsSays DEF WritesRow, Says, Unseen
  <1>3. CASE AddCheck
    <2>1. /\ registry' = registry
          /\ \/ events' = events
             \/ AddEnds(<<Answer("Failed", addTask.op)>>)
             \/ AddEnds(<<Answer("DuplicateAccountIdentity", addTask.op)>>)
      BY <1>3 DEF AddCheck, disk
    <2> QED  BY <1>1, <2>1, AddEndsSays DEF WritesRow, Says, Unseen
  <1>4. CASE AddWrite
    <2> DEFINE w == WriteOf(addTask)
               e == [type |-> "AccountAdded", op |-> addTask.op, id |-> addTask.id,
                     email |-> addTask.email, inbox |-> addTask.inbox]
    <2>1. (Possible(w) /\ Store(w)) \/ Fails(addTask)
      BY <1>4 DEF AddWrite
    <2>2. events' = events \/ AddEnds(<<Answer("Failed", addTask.op)>>) \/ AddEnds(<<e>>)
      BY <1>4 DEF AddWrite
    <2>3. e.type # "Restored"
      OBVIOUS
    <2> HIDE DEF w, e
    <2>4. WritesRow
      BY <2>1, StoreWritesRow, PossibleAdds, FailsWritesRow
    <2>5. Says
      BY <2>2, <2>3, AddEndsSays DEF Says, AddEnds
    <2> QED  BY <1>1, <2>4, <2>5 DEF Unseen
  <1> QED  BY <1>2, <1>3, <1>4 DEF AddStep

LEMMA TaskFailsSays ==
  ASSUME NEW i, NEW type, type # "Restored", TaskFails(i, type)
  PROVE  Says
  <1> DEFINE e == [type |-> type, op |-> tasks[i].op, id |-> i]
  <1>1. e.type # "Restored" /\ Emit(<<e>>)
    BY DEF TaskFails, TaskEnds
  <1> HIDE DEF e
  <1> QED  BY <1>1 DEF Says

LEMMA TaskUnseen ==
  ASSUME NEW i \in Ids, TaskStep(i)
  PROVE  Unseen
  <1>1. accounts' = accounts
    BY DEF TaskStep, ReconnectSign, ReconnectFetch, TaskWrite, TaskOnly, ui
  <1>2. CASE ReconnectSign(i) \/ ReconnectFetch(i)
    <2>1. registry' = registry
      BY <1>2 DEF ReconnectSign, ReconnectFetch, disk
    <2>2. events' = events \/ TaskFails(i, "OperationExpired") \/ TaskFails(i, "OperationFailed")
      BY <1>2 DEF ReconnectSign, ReconnectFetch
    <2> QED  BY <1>1, <2>1, <2>2, TaskFailsSays DEF WritesRow, Says, Unseen
  <1>3. CASE TaskWrite(i)
    <2> DEFINE w == WriteOf(tasks[i])
               synced == [type |-> "AccountSynced", op |-> tasks[i].op, id |-> i,
                          email |-> tasks[i].email, inbox |-> tasks[i].inbox]
               gone == [type |-> "AccountRemoved", op |-> tasks[i].op, id |-> i]
    <2>1. (Possible(w) /\ Store(w)) \/ Fails(tasks[i])
      BY <1>3 DEF TaskWrite
    <2>2. events' = events \/ TaskFails(i, "OperationFailed") \/ Emit(<<synced>>) \/ Emit(<<gone>>)
      BY <1>3 DEF TaskWrite, TaskEnds
    <2>3. synced.type # "Restored" /\ gone.type # "Restored"
      OBVIOUS
    <2> HIDE DEF w, synced, gone
    <2>4. WritesRow
      BY <2>1, StoreWritesRow, PossibleAdds, FailsWritesRow
    <2>5. Says
      BY <2>2, <2>3, TaskFailsSays DEF Says
    <2> QED  BY <1>1, <2>4, <2>5 DEF Unseen
  <1> QED  BY <1>2, <1>3 DEF TaskStep

LEMMA LegacySays ==
  ASSUME NEW type, type # "Restored", LegacyEnds(type)
  PROVE  Says
  BY SaysAnswer DEF LegacyEnds

LEMMA VerifiedSays ==
  ASSUME NEW a, Verified(a)
  PROVE  Says
  <1> DEFINE e == [type |-> "IdentityVerified", op |-> legacyTask.op, email |-> a]
  <1>1. e.type # "Restored" /\ Emit(<<e>>)
    BY DEF Verified
  <1> HIDE DEF e
  <1> QED  BY <1>1 DEF Says

LEMMA LegacyUnseen == LegacyStep => Unseen
  <1> SUFFICES ASSUME LegacyStep PROVE Unseen
    OBVIOUS
  <1>1. accounts' = accounts
    BY DEF LegacyStep, LegacyList, LegacySign, LegacyBrowser, LegacyRegister, LegacySave, LegacyFetch,
           LegacyPurge, LegacyOnly, ui
  <1>2. CASE LegacyList
    <2> DEFINE e == [type |-> "Restored", op |-> legacyTask.op, rows |-> registry, inboxes |-> cache]
    <2>1. registry' = registry /\ Emit(<<e>>) /\ e.rows = registry
      BY <1>2 DEF LegacyList, LegacyAt
    <2> HIDE DEF e
    <2> QED  BY <1>1, <2>1 DEF WritesRow, Says, Unseen
  <1>3. CASE LegacySign
    <2>1. /\ registry' = registry
          /\ \/ LegacyEnds("NoStoredAccount") \/ LegacyEnds("Failed") \/ LegacyEnds("Expired")
             \/ Verified(legacyToken)
      BY <1>3 DEF LegacySign
    <2> QED  BY <1>1, <2>1, LegacySays, VerifiedSays DEF WritesRow, Unseen
  <1>4. CASE LegacyBrowser
    <2>1. registry' = registry /\ (LegacyEnds("Failed") \/ \E a \in Emails : Verified(a))
      BY <1>4 DEF LegacyBrowser
    <2> QED  BY <1>1, <2>1, LegacySays, VerifiedSays DEF WritesRow, Unseen
  <1>5. CASE LegacyRegister
    <2> DEFINE e(i) == [type |-> "LegacyRegistered", op |-> legacyTask.op, id |-> i,
                        email |-> legacyTask.email]
    <2>1. WritesRow
      <3>1. \/ registry' = registry
            \/ \E i \in Ids : /\ CanAdd(registry, i, legacyTask.email)
                             /\ registry' = [registry EXCEPT ![i] = legacyTask.email]
        BY <1>5 DEF LegacyRegister
      <3> QED  BY <3>1 DEF WritesRow
    <2>2. Emit(<<>>) \/ \E i \in Ids : Emit(<<e(i)>>)
      BY <1>5 DEF LegacyRegister, LegacyAt, RegisteredAs
    <2>3. ASSUME NEW i \in Ids, Emit(<<e(i)>>) PROVE Says
      <3> DEFINE told == e(i)
      <3>1. told.type # "Restored" /\ Emit(<<told>>)
        BY <2>3
      <3> HIDE DEF told
      <3> QED  BY <3>1 DEF Says
    <2>4. Says
      BY <2>2, <2>3 DEF Says
    <2> QED  BY <1>1, <2>1, <2>4 DEF Unseen
  <1>6. CASE LegacySave
    <2>1. registry' = registry /\ (Emit(<<>>) \/ LegacyEnds("Failed"))
      BY <1>6 DEF LegacySave, LegacyAt
    <2> QED  BY <1>1, <2>1, LegacySays DEF WritesRow, Says, Unseen
  <1>7. CASE LegacyFetch
    <2> DEFINE e == [type |-> "SyncComplete", op |-> legacyTask.op, email |-> legacyTask.email,
                     inbox |-> InboxOf(legacyTask.email)]
    <2>1. registry' = registry /\ (Emit(<<e>>) \/ LegacyEnds("Failed")) /\ e.type # "Restored"
      BY <1>7 DEF LegacyFetch
    <2> HIDE DEF e
    <2> QED  BY <1>1, <2>1, LegacySays DEF WritesRow, Says, Unseen
  <1>8. CASE LegacyPurge
    <2>1. registry' = registry /\ (LegacyEnds("Disconnected") \/ LegacyEnds("Failed"))
      BY <1>8 DEF LegacyPurge
    <2> QED  BY <1>1, <2>1, LegacySays DEF WritesRow, Unseen
  <1> QED  BY <1>2, <1>3, <1>4, <1>5, <1>6, <1>7, <1>8 DEF LegacyStep

LEMMA FetchUnseen ==
  ASSUME RegistryInv, NEW f \in fetches, FetchStep(f)
  PROVE  Unseen
  <1>1. accounts' = accounts
    BY DEF FetchStep, FetchSign, FetchRotate, FetchCall, FetchOnly, ui
  <1>2. registry' = registry
    <2>1. CASE FetchRotate(f)
      <3> DEFINE w == [do |-> "Token", id |-> f.id, email |-> f.email, inbox |-> "None"]
      <3>1. Store(w) \/ UNCHANGED disk
        BY <2>1 DEF FetchRotate
      <3>2. w.do \notin {"Record", "NoRecord"}
        OBVIOUS
      <3> HIDE DEF w
      <3> QED  BY <3>1, <3>2, StoreIs DEF RegistryInv, disk
    <2> QED  BY <2>1 DEF FetchStep, FetchSign, FetchCall, disk
  <1>3. Says
    <2>1. (\E pc : FetchTo(f, pc)) \/ \E ok, stays : FetchEnds(f, ok, stays)
      BY DEF FetchStep, FetchSign, FetchRotate, FetchCall, HasToken
    <2>2. ASSUME NEW ok, NEW stays, FetchEnds(f, ok, stays) PROVE Says
      <3> DEFINE e == [type |-> f.kind, op |-> 0, id |-> f.id, req |-> f.req,
                       ok |-> ok /\ f.kind # "SendAs", stays |-> stays]
      <3>1. e.type # "Restored" /\ Emit(<<e>>)
        BY <2>2 DEF FetchEnds, RegistryInv, Shapes, IsFetch
      <3> HIDE DEF e
      <3> QED  BY <3>1 DEF Says
    <2>3. ASSUME NEW pc, FetchTo(f, pc) PROVE Says
      BY <2>3 DEF FetchTo, Says
    <2> QED  BY <2>1, <2>2, <2>3
  <1> QED  BY <1>1, <1>2, <1>3 DEF WritesRow, Unseen

LEMMA StrayUnseen ==
  ASSUME NEW w \in strays, Stray(w)
  PROVE  Unseen
  <1>1. accounts' = accounts /\ events' = events
    BY DEF Stray, ui
  <1>2. WritesRow
    <2>1. CASE Possible(w)
      BY <2>1, StoreWritesRow, PossibleAdds DEF Stray
    <2>2. CASE ~Possible(w)
      BY <2>2 DEF Stray, disk, WritesRow
    <2> QED  BY <2>1, <2>2
  <1> QED  BY <1>1, <1>2 DEF Says, Unseen

\* Every listed row was listed under the same identity.
SameIdentities ==
    \A i \in Ids :
        \/ accounts'[i] = NoAccount
        \/ /\ accounts[i] # NoAccount /\ accounts'[i].email = accounts[i].email
           /\ DOMAIN accounts'[i] = {"email", "session", "inbox"}

LEMMA SameStayUnique ==
  ASSUME UniqueListed, SameIdentities
  PROVE  UniqueListed'
  <1>1. \A i \in Ids : DOMAIN accounts'[i] = {"email", "session", "inbox"}
    BY DEF SameIdentities, NoAccount
  <1>2. \A i, j \in Listed' : accounts'[i].email = accounts'[j].email => i = j
    BY DEF UniqueListed, SameIdentities, Listed
  <1> QED  BY <1>1, <1>2 DEF UniqueListed

LEMMA UnchangedStayUnique ==
  ASSUME UniqueListed, accounts' = accounts
  PROVE  UniqueListed'
  BY DEF UniqueListed, Listed

\* One field of a listed row, other than its identity, is changed.
LEMMA FieldChanged ==
  ASSUME RegistryInv, UniqueListed, NEW i, accounts[i] # NoAccount, NEW s,
         \/ accounts' = [accounts EXCEPT ![i].session = s]
         \/ accounts' = [accounts EXCEPT ![i].inbox = s]
  PROVE  UniqueListed'
  <1>1. DOMAIN accounts = Ids
    BY DEF RegistryInv, Shapes
  <1>2. ASSUME NEW j \in Ids
        PROVE  \/ accounts'[j] = NoAccount
               \/ /\ accounts[j] # NoAccount /\ accounts'[j].email = accounts[j].email
                  /\ DOMAIN accounts'[j] = {"email", "session", "inbox"}
    <2>1. DOMAIN accounts[j] = {"email", "session", "inbox"}
      BY DEF UniqueListed
    <2>2. CASE j = i
      BY <1>1, <2>1, <2>2
    <2>3. CASE j # i
      BY <1>1, <2>1, <2>3
    <2> QED  BY <2>2, <2>3
  <1> QED  BY <1>2, SameStayUnique DEF SameIdentities

LEMMA UpsertStaysUnique ==
  ASSUME RegistryInv, UniqueListed, NEW i, NEW a, NEW s, NEW m, Upsert(i, a, s, m)
  PROVE  UniqueListed'
  <1>1. DOMAIN accounts = Ids
    BY DEF RegistryInv, Shapes
  <1>2. CASE accounts' = accounts
    BY <1>2, UnchangedStayUnique
  <1>3. CASE /\ Takes(i, a)
             /\ accounts' = [accounts EXCEPT ![i] = [email |-> a, session |-> s, inbox |-> m]]
    <2>1. \A j \in Ids : j # i => accounts'[j] = accounts[j]
      BY <1>1, <1>3
    <2>2. i \in Ids => accounts'[i].email = a /\ DOMAIN accounts'[i] = {"email", "session", "inbox"}
      BY <1>1, <1>3
    <2>3. \A j \in Listed : j # i => accounts[j].email # a
      BY <1>3 DEF Takes, NoOther
    <2>4. \A j \in Ids : DOMAIN accounts'[j] = {"email", "session", "inbox"}
      BY <2>1, <2>2 DEF UniqueListed
    <2>5. \A j, k \in Listed' : accounts'[j].email = accounts'[k].email => j = k
      BY <2>1, <2>2, <2>3 DEF UniqueListed, Listed
    <2> QED  BY <2>4, <2>5 DEF UniqueListed
  <1> QED  BY <1>2, <1>3 DEF Upsert

LEMMA UpsertFetchStaysUnique ==
  ASSUME RegistryInv, UniqueListed, NEW i, NEW a, NEW s, NEW m, UpsertAndFetch(i, a, s, m)
  PROVE  UniqueListed'
  BY UpsertStaysUnique, UnchangedStayUnique DEF UpsertAndFetch

LEMMA RestoredStaysUnique ==
  ASSUME RegistryInv, UniqueListed, NEW e, UniqueRows(e.rows), RestoredEvent(e)
  PROVE  UniqueListed'
  <1>1. PICK new \in Restorable(e.rows) :
           accounts' = [i \in Ids |-> IF i \in new
                           THEN [email |-> e.rows[i], session |-> "Ready", inbox |-> e.inboxes[i]]
                           ELSE accounts[i]]
    BY DEF RestoredEvent
  <1>2. \A i \in new : /\ i \in Ids /\ e.rows[i] # None
                       /\ \A j \in Listed : j # i => accounts[j].email # e.rows[i]
    BY DEF Restorable, Rows, NoOther
  <1>3. \A i \in Ids : /\ i \in new => accounts'[i].email = e.rows[i]
                       /\ i \notin new => accounts'[i] = accounts[i]
                       /\ DOMAIN accounts'[i] = {"email", "session", "inbox"}
    BY <1>1 DEF UniqueListed
  <1>4. ASSUME NEW i \in Listed', NEW j \in Listed', accounts'[i].email = accounts'[j].email
        PROVE  i = j
    <2>1. i \in Ids /\ j \in Ids
      BY DEF Listed
    <2>2. CASE i \in new /\ j \in new
      BY <1>2, <1>3, <1>4, <2>1, <2>2 DEF UniqueRows
    <2>3. CASE i \in new /\ j \notin new
      <3>1. j \in Listed /\ accounts[j].email = e.rows[i]
        BY <1>3, <1>4, <2>1, <2>3 DEF Listed
      <3> QED  BY <1>2, <2>3, <3>1
    <2>4. CASE i \notin new /\ j \in new
      <3>1. i \in Listed /\ accounts[i].email = e.rows[j]
        BY <1>3, <1>4, <2>1, <2>4 DEF Listed
      <3> QED  BY <1>2, <2>4, <3>1
    <2>5. CASE i \notin new /\ j \notin new
      BY <1>3, <1>4, <2>1, <2>5 DEF Listed, UniqueListed
    <2> QED  BY <2>2, <2>3, <2>4, <2>5
  <1> QED  BY <1>3, <1>4 DEF UniqueListed

LEMMA ProjectionStaysUnique ==
  ASSUME RegistryInv, UniqueListed, NEW e, ProjectionEvent(e)
  PROVE  UniqueListed'
  <1>1. CASE SyncedEvent(e)
    BY <1>1, UpsertFetchStaysUnique DEF SyncedEvent
  <1>2. CASE RemovedEvent(e)
    <2>1. accounts' = [accounts EXCEPT ![e.id] = NoAccount] /\ DOMAIN accounts = Ids
      BY <1>2 DEF RemovedEvent, RegistryInv, Shapes
    <2>2. \A i \in Ids : accounts'[i] = NoAccount \/ accounts'[i] = accounts[i]
      BY <2>1
    <2>3. SameIdentities
      BY <2>2 DEF SameIdentities, UniqueListed
    <2> QED  BY <2>3, SameStayUnique
  <1>3. CASE OperationFailedEvent(e)
    <2>1. CASE e.id \in Listed
      <3>1. PICK s : accounts' = [accounts EXCEPT ![e.id].session = s]
        BY <1>3, <2>1 DEF OperationFailedEvent
      <3>2. accounts[e.id] # NoAccount
        BY <2>1 DEF Listed
      <3> QED  BY <3>1, <3>2, FieldChanged
    <2>2. CASE e.id \notin Listed
      BY <1>3, <2>2, UnchangedStayUnique DEF OperationFailedEvent
    <2> QED  BY <2>1, <2>2
  <1> QED  BY <1>1, <1>2, <1>3 DEF ProjectionEvent

LEMMA SingletonStaysUnique ==
  ASSUME RegistryInv, UniqueListed, NEW e, e.type = "Restored" => UniqueRows(e.rows), SingletonEvent(e)
  PROVE  UniqueListed'
  <1>1. CASE e.type = "Restored" /\ RestoredEvent(e)
    BY <1>1, RestoredStaysUnique
  <1>2. CASE IdentityEvent(e) \/ EndEvent(e)
    BY <1>2, UnchangedStayUnique DEF IdentityEvent, EndEvent
  <1>3. CASE RegisteredEvent(e)
    BY <1>3, UpsertFetchStaysUnique, UnchangedStayUnique DEF RegisteredEvent
  <1>4. CASE SyncCompleteEvent(e)
    <2>1. accounts' = accounts \/ \E i \in Listed : Upsert(i, e.email, "Ready", e.inbox)
      BY <1>4 DEF SyncCompleteEvent, Mirror
    <2> QED  BY <2>1, UpsertStaysUnique, UnchangedStayUnique
  <1> QED  BY <1>1, <1>2, <1>3, <1>4 DEF SingletonEvent

LEMMA ScopedStaysUnique ==
  ASSUME RegistryInv, UniqueListed, NEW e, ScopedEvent(e)
  PROVE  UniqueListed'
  <1>1. CASE accounts' = accounts
    BY <1>1, UnchangedStayUnique
  <1>2. CASE accounts[e.id].inbox = "Mail" /\ accounts' = [accounts EXCEPT ![e.id].inbox = "Empty"]
    <2>1. accounts[e.id] # NoAccount
      BY <1>2 DEF NoAccount
    <2> QED  BY <1>2, <2>1, FieldChanged
  <1> QED  BY <1>1, <1>2 DEF ScopedEvent, SendAsEvent, MutatedEvent

LEMMA DeliverUnique == RegistryInv /\ UniqueInv /\ Deliver => UniqueInv'
  <1> SUFFICES ASSUME RegistryInv, UniqueInv, Deliver PROVE UniqueInv'
    OBVIOUS
  <1> DEFINE e == Head(events)
  <1>1. IsSeq(events) /\ events # <<>> /\ events' = Tail(events) /\ registry' = registry
    BY DEF RegistryInv, Turns, Orderly, Deliver, disk
  <1>2. UniqueSnapshots' /\ (e.type = "Restored" => UniqueRows(e.rows))
    BY <1>1, TailIs DEF UniqueInv, UniqueSnapshots
  <1> HIDE DEF e
  <1>3. UniqueListed'
    <2>1. UniqueListed
      BY DEF UniqueInv
    <2>2. CASE ScopedEvent(e)
      BY <2>1, <2>2, ScopedStaysUnique
    <2>3. CASE AddEvent(e)
      BY <2>1, <2>3, UpsertFetchStaysUnique, UnchangedStayUnique DEF AddEvent
    <2>4. CASE ProjectionEvent(e)
      BY <2>1, <2>4, ProjectionStaysUnique
    <2>5. CASE SingletonEvent(e)
      BY <1>2, <2>1, <2>5, SingletonStaysUnique
    <2>6. CASE accounts' = accounts
      BY <2>1, <2>6, UnchangedStayUnique
    <2> QED  BY <2>2, <2>3, <2>4, <2>5, <2>6 DEF Deliver, e
  <1> QED  BY <1>1, <1>2, <1>3 DEF UniqueInv, UniqueRows

LEMMA PersonUnique == RegistryInv /\ UniqueInv /\ Person => UniqueInv'
  <1> SUFFICES ASSUME RegistryInv, UniqueInv, Person PROVE UniqueInv'
    OBVIOUS
  <1>1. CASE accounts' = accounts /\ registry' = registry /\ events' = events
    BY <1>1, Unlisted DEF WritesRow, Says
  <1>2. ASSUME NEW i \in Ids, NEW type, NEW s, AccountOperation(type, i, s) PROVE UniqueInv'
    <2>1. /\ registry' = registry /\ events' = events /\ accounts[i] # NoAccount
          /\ accounts' = [accounts EXCEPT ![i].session = s]
      BY <1>2 DEF AccountOperation, Listed, disk
    <2>2. UniqueListed'
      BY <2>1, FieldChanged DEF UniqueInv
    <2> QED  BY <2>1, <2>2 DEF UniqueInv, UniqueRows, UniqueSnapshots
  <1>3. ASSUME NEW i \in Ids, ReconnectAccount(i) \/ RemoveAccount(i) PROVE UniqueInv'
    BY <1>2, <1>3 DEF ReconnectAccount, RemoveAccount
  <1>4. ASSUME NEW kind, StartSync(kind) PROVE UniqueInv'
    BY <1>1, <1>4 DEF StartSync, disk
  <1>5. ASSUME NEW i \in Ids, SelectAccountMessage(i) PROVE UniqueInv'
    BY <1>1, <1>5 DEF SelectAccountMessage, disk
  <1>6. CASE StartAddAccount \/ CancelAdd \/ CancelSync \/ Disconnect \/ ArchiveSelected
    BY <1>1, <1>6 DEF StartAddAccount, CancelAdd, CancelSync, Disconnect, ArchiveSelected, disk, ui
  <1> QED  BY <1>3, <1>4, <1>5, <1>6 DEF Person

LEMMA RestartUnique == UniqueInv /\ Restart => UniqueInv'
  <1> SUFFICES ASSUME UniqueInv, Restart PROVE UniqueInv'
    OBVIOUS
  <1>1. UniqueRows(registry')
    BY DEF UniqueInv, UniqueRows, Restart, disk
  <1>2. UniqueSnapshots'
    BY DEF Restart, UniqueSnapshots
  <1>3. UniqueListed'
    BY DEF Restart, UniqueListed, Listed, NewAccounts, NoAccount
  <1> QED  BY <1>1, <1>2, <1>3 DEF UniqueInv, UniqueRows

LEMMA NextUnique == RegistryInv /\ UniqueInv /\ [Next]_vars => UniqueInv'
  <1> SUFFICES ASSUME RegistryInv, UniqueInv, [Next]_vars PROVE UniqueInv'
    OBVIOUS
  <1>1. CASE Unseen
    BY <1>1, Unlisted DEF Unseen
  <1>2. CASE Person
    BY <1>2, PersonUnique
  <1>3. CASE Deliver
    BY <1>3, DeliverUnique
  <1>4. CASE Controller \/ AddStep \/ LegacyStep
    BY <1>1, <1>4, ControllerUnseen, AddUnseen, LegacyUnseen
  <1>5. ASSUME NEW i \in Ids, TaskStep(i) PROVE UniqueInv'
    BY <1>1, <1>5, TaskUnseen
  <1>6. ASSUME NEW f \in fetches, FetchStep(f) PROVE UniqueInv'
    BY <1>1, <1>6, FetchUnseen
  <1>7. ASSUME NEW w \in strays, Stray(w) PROVE UniqueInv'
    BY <1>1, <1>7, StrayUnseen
  <1>8. CASE Restart
    BY <1>8, RestartUnique
  <1>9. CASE UNCHANGED vars
    BY <1>1, <1>9 DEF Unseen, WritesRow, Says, vars, disk, ui
  <1> QED  BY <1>2, <1>3, <1>4, <1>5, <1>6, <1>7, <1>8, <1>9 DEF Next, System

\* No Gmail identity has two rows, in the registry or in the list of the
\* window, however an addition, a late closure, a registration of the session
\* and a restoration of the list overlap.
THEOREM OneRowEach == Spec => []OneRowPerIdentity
  <1>1. Init => RegistryInv /\ UniqueInv
    BY Start, StartUnique
  <1>2. RegistryInv /\ UniqueInv /\ [Next]_vars => (RegistryInv /\ UniqueInv)'
    BY NextKeeps, NextUnique
  <1>3. UniqueInv => OneRowPerIdentity
    BY UniqueIsOne
  <1> QED  BY <1>1, <1>2, <1>3, PTL DEF Spec

-----------------------------------------------------------------------------
(* Whole rows                                                                 *)

\* The row of i is written by add_account, or by a late closure of it, yet.
MayRecord(i) ==
    \/ addTask.pc \in {"Token", "Cache", "Record"} /\ addTask.id = i
    \/ \E w \in strays : w.do = "Record" /\ w.id = i

\* An id that was drawn and will never have a row.
Dead(i) == i \in used /\ registry[i] = None /\ ~MayRecord(i)

\* A late token or a late cache changes nothing that matters.
TokenSafe(i) == i \in leaving \/ i \in token \/ Dead(i)
CacheSafe(i) == i \in leaving \/ (i \in used /\ cache[i] # "None") \/ Dead(i)
Leaves(i) == i \in leaving \/ Dead(i)
Both(i) == i \in leaving \/ (i \in token /\ i \in used /\ cache[i] # "None")

WriteSafe(w) ==
    /\ w.do = "Token" => TokenSafe(w.id)
    /\ w.do = "Cache" => CacheSafe(w.id) /\ w.inbox # "None"
    /\ w.do \in {"NoToken", "NoCache", "NoRecord"} => Leaves(w.id)
    /\ w.do = "Record" => Both(w.id)

AddSafe ==
    /\ addTask.pc # "NoRecord"
    /\ addTask.pc \in {"Token", "Cache", "Record"} => addTask.id \in Ids /\ addTask.inbox # "None"
    /\ addTask.pc = "Cache" => addTask.id \in leaving \/ addTask.id \in token
    /\ addTask.pc = "Record" => Both(addTask.id)
    /\ addTask.pc \in {"NoToken", "NoCache"} => Leaves(addTask.id)

TaskSafe(i) ==
    /\ tasks[i].pc \in {"Token", "fetch", "Cache"} => TokenSafe(i) /\ CacheSafe(i)
    /\ tasks[i].pc = "Cache" => tasks[i].inbox # "None"
    /\ tasks[i].pc \in {"NoCache", "NoToken", "NoRecord"} => i \in leaving

Fresh ==
    /\ leaving \subseteq used /\ token \subseteq used /\ added \subseteq used
    /\ \A i \in Ids \ used : cache[i] = "None"

WholeInv ==
    /\ Fresh
    /\ \A w \in strays : WriteSafe(w)
    /\ AddSafe
    /\ \A i \in Ids : TaskSafe(i)
    /\ \A f \in fetches : f.pc = "Token" => TokenSafe(f.id)
    /\ RowsAreWhole

\* What a step may do to what is stored: nothing that counts is taken away but
\* from an account that somebody removes or that never comes to be.
Careful ==
    /\ leaving \subseteq leaving' /\ used \subseteq used' /\ used \subseteq Ids
    /\ \A i \in Ids : Dead(i) => Dead(i)'
    /\ \A i \in token \ token' : Leaves(i)'
    /\ \A i \in Ids : cache[i] # "None" /\ cache'[i] = "None" => Leaves(i)'

LEMMA StillSafe ==
  ASSUME Careful, NEW i
  PROVE  /\ Leaves(i) => Leaves(i)'
         /\ TokenSafe(i) => TokenSafe(i)'
         /\ CacheSafe(i) => CacheSafe(i)'
         /\ Both(i) /\ MayRecord(i)' => Both(i)'
  <1>1. Dead(i) => i \in Ids
    BY DEF Careful, Dead
  <1>2. Leaves(i) => Leaves(i)'
    BY <1>1 DEF Careful, Leaves
  <1>3. i \in token => i \in token' \/ Leaves(i)'
    BY DEF Careful
  <1>4. i \in used /\ cache[i] # "None" => (i \in used' /\ cache'[i] # "None") \/ Leaves(i)'
    BY DEF Careful
  <1>5. TokenSafe(i) => TokenSafe(i)'
    BY <1>2, <1>3 DEF TokenSafe, Leaves
  <1>6. CacheSafe(i) => CacheSafe(i)'
    BY <1>2, <1>4 DEF CacheSafe, Leaves
  <1>7. Both(i) /\ MayRecord(i)' => Both(i)'
    <2>1. MayRecord(i)' => ~Dead(i)'
      BY DEF Dead
    <2> QED  BY <1>2, <1>3, <1>4, <2>1 DEF Both, Leaves
  <1> QED  BY <1>2, <1>5, <1>6, <1>7

LEMMA WriteStillSafe ==
  ASSUME Careful, NEW w, WriteSafe(w), w.do = "Record" => MayRecord(w.id)'
  PROVE  WriteSafe(w)'
  <1>1. /\ Leaves(w.id) => Leaves(w.id)'
        /\ TokenSafe(w.id) => TokenSafe(w.id)'
        /\ CacheSafe(w.id) => CacheSafe(w.id)'
        /\ Both(w.id) /\ MayRecord(w.id)' => Both(w.id)'
    BY StillSafe
  <1> QED  BY <1>1 DEF WriteSafe

LEMMA AddStillSafe ==
  ASSUME Careful, AddSafe, addTask' = addTask
  PROVE  AddSafe'
  <1>1. PICK i : i = addTask.id /\ i = addTask'.id
    OBVIOUS
  <1>2. /\ Leaves(i) => Leaves(i)'
        /\ Both(i) /\ MayRecord(i)' => Both(i)'
    BY StillSafe
  <1>3. addTask'.pc \in {"Token", "Cache", "Record"} => MayRecord(i)' /\ ~Dead(i)'
    BY <1>1 DEF MayRecord, Dead
  <1>4. i \in token => i \in token' \/ Leaves(i)'
    BY DEF Careful
  <1>5. addTask'.pc = "Cache" => i \in leaving' \/ i \in token'
    BY <1>1, <1>3, <1>4 DEF AddSafe, Careful, Leaves
  <1>6. addTask'.pc = "Record" => Both(i)'
    BY <1>1, <1>2, <1>3 DEF AddSafe
  <1>7. addTask'.pc \in {"NoToken", "NoCache"} => Leaves(i)'
    BY <1>1, <1>2 DEF AddSafe
  <1>8. addTask'.pc \in {"Token", "Cache", "Record"} => addTask'.id \in Ids /\ addTask'.inbox # "None"
    BY DEF AddSafe
  <1>10. addTask'.pc # "NoRecord"
    BY DEF AddSafe
  <1>9. Both(i)' = Both(addTask.id)' /\ Leaves(i)' = Leaves(addTask.id)'
    BY <1>1 DEF Both, Leaves, Dead, MayRecord
  <1> QED  BY <1>1, <1>5, <1>6, <1>7, <1>8, <1>9, <1>10 DEF AddSafe

LEMMA WholeStays ==
  ASSUME WholeInv, Careful, Fresh', RowsAreWhole', AddSafe',
         \A w \in strays' : w \in strays \/ WriteSafe(w)',
         \A i \in Ids : tasks'[i] = tasks[i] \/ TaskSafe(i)',
         \A f \in fetches' : f \in fetches \/ f.pc # "Token" \/ TokenSafe(f.id)'
  PROVE  WholeInv'
  <1>1. ASSUME NEW w \in strays' PROVE WriteSafe(w)'
    <2>1. w.do = "Record" => MayRecord(w.id)'
      BY DEF MayRecord
    <2> QED  BY <2>1, WriteStillSafe DEF WholeInv
  <1>2. ASSUME NEW i \in Ids PROVE TaskSafe(i)'
    BY StillSafe DEF WholeInv, TaskSafe, Careful
  <1>3. ASSUME NEW f \in fetches', f.pc = "Token" PROVE TokenSafe(f.id)'
    BY <1>3, StillSafe DEF WholeInv
  <1> QED  BY <1>1, <1>2, <1>3 DEF WholeInv

\* A step that stores nothing.
LEMMA NothingStored ==
  ASSUME RegistryInv, WholeInv, UNCHANGED disk, leaving \subseteq leaving', leaving' \subseteq used',
         used \subseteq used', used' \subseteq Ids,
         \A i \in used : MayRecord(i)' => MayRecord(i)
  PROVE  Careful /\ Fresh' /\ RowsAreWhole'
  <1>1. Careful
    BY DEF Careful, disk, Dead, RegistryInv, Shapes
  <1>2. Fresh'
    BY DEF WholeInv, Fresh, disk
  <1>3. RowsAreWhole'
    BY DEF WholeInv, RowsAreWhole, Rows, disk
  <1> QED  BY <1>1, <1>2, <1>3

LEMMA Untouched ==
  ASSUME RegistryInv, WholeInv, UNCHANGED <<disk, addTask, tasks, strays, fetches, used, leaving>>
  PROVE  WholeInv'
  <1>1. \A i : MayRecord(i)' => MayRecord(i)
    BY DEF MayRecord
  <1>2. used \subseteq Ids /\ leaving \subseteq used
    BY DEF RegistryInv, Shapes, WholeInv, Fresh
  <1>3. Careful /\ Fresh' /\ RowsAreWhole'
    BY <1>1, <1>2, NothingStored
  <1>4. AddSafe'
    BY <1>3, AddStillSafe DEF WholeInv
  <1> QED  BY <1>3, <1>4, WholeStays


\* The first token and the first cache of an account that has no row yet.
First(w) ==
    /\ w.do \in {"Token", "Cache"} /\ w.id \in used /\ registry[w.id] = None
    /\ w.do = "Cache" => w.inbox # "None"

LEMMA Stored ==
  ASSUME RegistryInv, WholeInv, NEW w, Store(w), WriteSafe(w) \/ First(w), UNCHANGED <<leaving, used>>,
         \A i \in used : MayRecord(i)' => MayRecord(i),
         w.do = "Record" => MayRecord(w.id)
  PROVE  Careful /\ Fresh' /\ RowsAreWhole'
  <1> DEFINE i == w.id
  <1>1. /\ w.do = "Record" => registry' = [registry EXCEPT ![i] = w.email]
        /\ w.do = "NoRecord" => registry' = [registry EXCEPT ![i] = None]
        /\ w.do \notin {"Record", "NoRecord"} => registry' = registry
        /\ w.do = "Token" => token' = token \cup {i}
        /\ w.do = "NoToken" => token' = token \ {i}
        /\ w.do \notin {"Token", "NoToken"} => token' = token
        /\ w.do = "Cache" => cache' = [cache EXCEPT ![i] = w.inbox]
        /\ w.do = "NoCache" => cache' = [cache EXCEPT ![i] = "None"]
        /\ w.do \notin {"Cache", "NoCache"} => cache' = cache
        /\ added' = IF w.do = "Record" THEN added \cup {i} ELSE added
    BY DEF Store
  <1>2. DOMAIN registry = Ids /\ DOMAIN cache = Ids /\ used \subseteq Ids
    BY DEF RegistryInv, Shapes
  <1>3. /\ w.do = "Token" => TokenSafe(i) \/ (i \in used /\ registry[i] = None)
        /\ w.do = "Cache" => /\ CacheSafe(i) \/ (i \in used /\ registry[i] = None)
                             /\ w.inbox # "None"
        /\ w.do \in {"NoToken", "NoCache", "NoRecord"} => Leaves(i)
        /\ w.do = "Record" => Both(i)
    BY DEF WriteSafe, First
  <1>4. Fresh
    BY DEF WholeInv
  <1>5. /\ TokenSafe(i) => i \in used /\ (i \in leaving \/ i \in token \/ registry[i] = None)
        /\ CacheSafe(i) => i \in used /\ (i \in leaving \/ cache[i] # "None" \/ registry[i] = None)
        /\ Leaves(i) => i \in used /\ (i \in leaving \/ registry[i] = None)
        /\ Both(i) => i \in used /\ (i \in leaving \/ (i \in token /\ cache[i] # "None"))
    BY <1>4 DEF TokenSafe, CacheSafe, Leaves, Both, Dead, Fresh
  <1> HIDE DEF i
  <1>6. /\ \A j \in Ids : j # i => registry'[j] = registry[j] /\ cache'[j] = cache[j]
        /\ \A j : j # i => (j \in token' <=> j \in token)
    BY <1>1, <1>2
  <1>7. \A j \in Ids : Dead(j) => Dead(j)'
    <2>1. ASSUME NEW j \in Ids, Dead(j) PROVE registry'[j] = None
      <3>1. CASE j # i
        BY <1>6, <2>1, <3>1 DEF Dead
      <3>2. CASE j = i
        <4>1. w.do # "Record"
          BY <2>1, <3>2 DEF Dead, i
        <4> QED  BY <1>1, <1>2, <2>1, <3>2, <4>1 DEF Dead
      <3> QED  BY <3>1, <3>2
    <2> QED  BY <2>1 DEF Dead
  <1>8. Leaves(i) => Leaves(i)'
    BY <1>2, <1>7 DEF Leaves, Dead
  <1>9. /\ i \in token /\ i \notin token' => Leaves(i)'
        /\ i \in Ids /\ cache[i] # "None" /\ cache'[i] = "None" => Leaves(i)'
    BY <1>1, <1>2, <1>3, <1>8
  <1>10. Careful
    <2>1. ASSUME NEW j \in token \ token' PROVE Leaves(j)'
      BY <1>6, <1>9, <2>1
    <2>2. ASSUME NEW j \in Ids, cache[j] # "None", cache'[j] = "None" PROVE Leaves(j)'
      BY <1>6, <1>9, <2>2
    <2> QED  BY <1>2, <1>7, <2>1, <2>2 DEF Careful
  <1>11. Fresh'
    <2>1. i \in token' => i \in used
      BY <1>1, <1>3, <1>4, <1>5 DEF Fresh
    <2>2. i \in Ids \ used => cache'[i] = "None"
      BY <1>1, <1>2, <1>3, <1>4, <1>5 DEF Fresh
    <2>3. added' \subseteq used
      BY <1>1, <1>3, <1>4, <1>5 DEF Fresh
    <2> QED  BY <1>4, <1>6, <2>1, <2>2, <2>3 DEF Fresh
  <1>12. RowsAreWhole'
    <2>1. ASSUME NEW j \in Ids, j \notin leaving, registry'[j] # None
          PROVE  (j \in token' <=> j \in added') /\ (cache'[j] # "None" <=> j \in added')
      <3>1. registry[j] # None => (j \in token <=> j \in added) /\ (cache[j] # "None" <=> j \in added)
        BY <2>1 DEF WholeInv, RowsAreWhole, Rows
      <3>2. CASE j # i
        BY <1>1, <1>6, <2>1, <3>1, <3>2
      <3>3. CASE j = i
        BY <1>1, <1>2, <1>3, <1>5, <2>1, <3>1, <3>3
      <3> QED  BY <3>2, <3>3
    <2> QED  BY <2>1 DEF RowsAreWhole, Rows
  <1> QED  BY <1>10, <1>11, <1>12

\* A step that writes nothing and starts or ends tasks.
LEMMA Tasked ==
  ASSUME RegistryInv, WholeInv, UNCHANGED <<disk, leaving, used, addTask, fetches, strays>>,
         \A i \in Ids : tasks'[i] = tasks[i] \/ TaskSafe(i)'
  PROVE  WholeInv'
  <1>1. \A i : MayRecord(i)' => MayRecord(i)
    BY DEF MayRecord
  <1>2. used \subseteq Ids /\ leaving \subseteq used
    BY DEF RegistryInv, Shapes, WholeInv, Fresh
  <1>3. Careful /\ Fresh' /\ RowsAreWhole'
    BY <1>1, <1>2, NothingStored
  <1>4. AddSafe'
    BY <1>3, AddStillSafe DEF WholeInv
  <1> QED  BY <1>3, <1>4, WholeStays

LEMMA StartWhole == Init => WholeInv
  <1> SUFFICES ASSUME Init PROVE WholeInv
    OBVIOUS
  <1>1. \A i \in Ids : TaskSafe(i)
    BY DEF Init, NoTask, TaskSafe
  <1>2. AddSafe
    BY DEF Init, NoTask, AddSafe
  <1>3. Fresh /\ RowsAreWhole
    BY DEF Init, Fresh, RowsAreWhole, Rows
  <1> QED  BY <1>1, <1>2, <1>3 DEF Init, WholeInv

LEMMA RestartWhole == RegistryInv /\ WholeInv /\ Restart => WholeInv'
  <1> SUFFICES ASSUME RegistryInv, WholeInv, Restart PROVE WholeInv'
    OBVIOUS
  <1>1. UNCHANGED <<disk, used, leaving>> /\ addTask' = NoTask /\ strays' = {} /\ fetches' = {}
    BY DEF Restart
  <1>2. \A i : ~MayRecord(i)'
    BY <1>1 DEF MayRecord, NoTask
  <1>3. Careful /\ Fresh' /\ RowsAreWhole'
    BY <1>1, <1>2, NothingStored DEF RegistryInv, Shapes, WholeInv, Fresh
  <1>4. AddSafe'
    BY <1>1 DEF NoTask, AddSafe
  <1>5. \A i \in Ids : TaskSafe(i)'
    BY DEF Restart, NoTask, TaskSafe
  <1> QED  BY <1>1, <1>3, <1>4, <1>5, WholeStays

LEMMA CalmWhole ==
  ASSUME RegistryInv, WholeInv, Person \/ Deliver \/ UNCHANGED vars
  PROVE  WholeInv'
  <1>1. UNCHANGED <<disk, addTask, tasks, strays, fetches, used, leaving>>
    <2>1. CASE Person
      BY <2>1 DEF Person, StartSync, StartAddAccount, ReconnectAccount, RemoveAccount, AccountOperation,
                  SelectAccountMessage, CancelAdd, CancelSync, Disconnect, ArchiveSelected, worker, seen
    <2>2. CASE Deliver
      BY <2>2 DEF Deliver, worker, seen
    <2>3. CASE UNCHANGED vars
      BY <2>3 DEF vars, worker, seen
    <2> QED  BY <2>1, <2>2, <2>3
  <1> QED  BY <1>1, Untouched

\* An addition that is given up before its row leaves its account without one
\* for good.
LEMMA Lost ==
  ASSUME RegistryInv, WholeInv, NEW i, i = addTask.id, addTask.pc \in Before, addTask'.pc \notin Before,
         UNCHANGED <<registry, used>>,
         \A w \in strays' : w.do = "Record" /\ w.id = i => w \in strays
  PROVE  Dead(i)'
  <1>1. Adding(i) /\ i \in Ids
    BY DEF Adding, Before, WholeInv, AddSafe
  <1>2. i \in used /\ registry[i] = None
    BY <1>1 DEF RegistryInv, Hidden, Unknown
  <1>3. ASSUME NEW w \in strays', w.do = "Record", w.id = i PROVE FALSE
    BY <1>3 DEF RegistryInv, Hidden, OneAdder, Late
  <1> QED  BY <1>2, <1>3 DEF Dead, MayRecord, Before

\* The write of a cancelled addition finds its account without a row for good.
LEMMA CancelWhole ==
  ASSUME RegistryInv, WholeInv, NEW c, CancelAddCommand(c), UNCHANGED used
  PROVE  WholeInv'
  <1>0. PICK a : a = WriteOf(addTask)
    OBVIOUS
  <1>1. /\ UNCHANGED <<disk, leaving, used, tasks, fetches>> /\ addTask'.pc = "none"
        /\ addTask' = NoTask /\ strays' = strays \cup Abandoned(addTask)
    BY DEF CancelAddCommand, NoTask
  <1>2. /\ \A w \in strays' : w \in strays \/ w = a
        /\ a.do = addTask.pc /\ a.id = addTask.id /\ a.inbox = addTask.inbox
        /\ a \in strays' /\ a \notin strays => a.do = addTask.pc
    BY <1>0, <1>1 DEF Abandoned, WriteOf
  <1>3. \A i : MayRecord(i)' => MayRecord(i)
    BY <1>1, <1>2 DEF MayRecord
  <1>4. Careful /\ Fresh' /\ RowsAreWhole'
    BY <1>1, <1>3, NothingStored DEF RegistryInv, Shapes, WholeInv, Fresh
  <1>5. AddSafe'
    BY <1>1 DEF AddSafe
  <1>6. a \in strays' => WriteSafe(a)'
    <2>1. SUFFICES ASSUME a \in strays' PROVE WriteSafe(a)'
      OBVIOUS
    <2>2. ASSUME a.do \in {"Token", "Cache"} PROVE Dead(a.id)'
      <3>1. a.id = addTask.id /\ addTask.pc \in Before /\ addTask'.pc \notin Before
        BY <1>1, <1>2, <2>2 DEF Before
      <3>2. \A w \in strays' : w.do = "Record" /\ w.id = a.id => w \in strays
        BY <1>2, <2>2
      <3>3. UNCHANGED <<registry, used>>
        BY <1>1 DEF disk
      <3> QED  BY <3>1, <3>2, <3>3, Lost
    <2>3. a.inbox # "None" \/ a.do # "Cache"
      BY <1>2 DEF WholeInv, AddSafe
    <2>4. Careful
      BY <1>4
    <2>5. a.do \in {"NoToken", "NoCache"} => Leaves(a.id)'
      <3>1. a.do \in {"NoToken", "NoCache"} => Leaves(a.id)
        BY <1>2 DEF WholeInv, AddSafe
      <3> QED  BY <2>4, <3>1, StillSafe
    <2>6. a.do = "Record" => Both(a.id)'
      <3>1. a.do = "Record" => Both(a.id)
        BY <1>2 DEF WholeInv, AddSafe
      <3>2. a.do = "Record" => MayRecord(a.id)'
        BY <2>1 DEF MayRecord
      <3> QED  BY <2>4, <3>1, <3>2, StillSafe
    <2>7. a.do # "NoRecord"
      BY <1>2 DEF WholeInv, AddSafe
    <2> QED  BY <2>2, <2>3, <2>5, <2>6, <2>7 DEF WriteSafe, TokenSafe, CacheSafe
  <1> QED  BY <1>1, <1>2, <1>4, <1>5, <1>6, WholeStays

LEMMA ControllerWhole == RegistryInv /\ WholeInv /\ Controller => WholeInv'
  <1> SUFFICES ASSUME RegistryInv, WholeInv, Controller PROVE WholeInv'
    OBVIOUS
  <1>0. PICK c : c = Head(commands)
    OBVIOUS
  <1>1. /\ used' = used
        /\ c.type \in OfAccount =>
               /\ c.id \in Ids /\ ~Running(tasks[c.id])
               /\ c.id \in used
    <2>1. c.type \in OfAccount => c.id \in Ids /\ Has(commands, OfAccount, c.id)
      BY <1>0, CommandTaken DEF Controller, RegistryInv
    <2> QED  BY <2>1 DEF Controller, RegistryInv, Turns, OneAtATime, Hidden, Unknown
  <1>2. CASE AddCommand(c)
    <2>1. /\ UNCHANGED <<disk, leaving, used, tasks, fetches, strays>>
          /\ addTask' = addTask \/ addTask'.pc = "browser"
      BY <1>1, <1>2 DEF AddCommand
    <2>2. \A i : MayRecord(i)' => MayRecord(i)
      BY <2>1 DEF MayRecord
    <2>3. Careful /\ Fresh' /\ RowsAreWhole'
      BY <2>1, <2>2, NothingStored DEF RegistryInv, Shapes, WholeInv, Fresh
    <2>4. AddSafe'
      <3>1. CASE addTask' = addTask
        BY <2>3, <3>1, AddStillSafe DEF WholeInv
      <3>2. CASE addTask'.pc = "browser"
        BY <3>2 DEF AddSafe
      <3> QED  BY <2>1, <3>1, <3>2
    <2> QED  BY <2>1, <2>3, <2>4, WholeStays
  <1>3. CASE c.type = "ReconnectAccount" /\ ReconnectCommand(c)
    <2>1. /\ c.id \in Ids /\ UNCHANGED <<disk, leaving, used, addTask, fetches, strays>>
          /\ tasks' = [tasks EXCEPT ![c.id] = AccountTask(c, "sign")]
      BY <1>1, <1>3 DEF ReconnectCommand, OfAccount
    <2>2. tasks'[c.id].pc = "sign" /\ \A i \in Ids : i # c.id => tasks'[i] = tasks[i]
      BY <2>1 DEF AccountTask, RegistryInv, Shapes
    <2>3. TaskSafe(c.id)'
      BY <2>2 DEF TaskSafe
    <2> QED  BY <2>1, <2>2, <2>3, Tasked
  <1>4. CASE c.type = "RemoveAccount" /\ RemoveCommand(c)
    <2>1. /\ c.id \in Ids /\ c.id \in used /\ UNCHANGED <<disk, used, addTask, fetches, strays>>
          /\ leaving' = leaving \cup {c.id}
          /\ tasks' = [tasks EXCEPT ![c.id] = AccountTask(c, "NoCache")]
      BY <1>1, <1>4 DEF RemoveCommand, OfAccount
    <2>2. tasks'[c.id].pc = "NoCache" /\ \A i \in Ids : i # c.id => tasks'[i] = tasks[i]
      BY <2>1 DEF AccountTask, RegistryInv, Shapes
    <2>3. TaskSafe(c.id)'
      BY <2>1, <2>2 DEF TaskSafe
    <2>4. \A i : MayRecord(i)' => MayRecord(i)
      BY <2>1 DEF MayRecord
    <2>5. Careful /\ Fresh' /\ RowsAreWhole'
      BY <2>1, <2>4, NothingStored DEF RegistryInv, Shapes, WholeInv, Fresh
    <2>6. AddSafe'
      BY <2>1, <2>5, AddStillSafe DEF WholeInv
    <2>7. \A i \in Ids : tasks'[i] = tasks[i] \/ TaskSafe(i)'
      BY <2>2, <2>3
    <2> QED  BY <2>1, <2>5, <2>6, <2>7, WholeStays
  <1>5. CASE CancelAddCommand(c)
    BY <1>1, <1>5, CancelWhole
  <1>6. CASE SingletonCommand(c)
    BY <1>1, <1>6, Untouched DEF SingletonCommand
  <1>7. CASE FetchCommand(c)
    <2> DEFINE g == [kind |-> c.type, id |-> c.id, email |-> c.email, req |-> c.req, pc |-> "sign"]
    <2>1. /\ UNCHANGED <<disk, leaving, used, addTask, tasks, strays>>
          /\ fetches' = fetches \cup {g} /\ g.pc # "Token"
      BY <1>1, <1>7 DEF FetchCommand
    <2> HIDE DEF g
    <2>2. \A i : MayRecord(i)' => MayRecord(i)
      BY <2>1 DEF MayRecord
    <2>3. Careful /\ Fresh' /\ RowsAreWhole'
      BY <2>1, <2>2, NothingStored DEF RegistryInv, Shapes, WholeInv, Fresh
    <2>4. AddSafe'
      BY <2>1, <2>3, AddStillSafe DEF WholeInv
    <2>5. \A f \in fetches' : f \in fetches \/ f.pc # "Token"
      BY <2>1
    <2> QED  BY <2>1, <2>3, <2>4, <2>5, WholeStays
  <1> QED  BY <1>0, <1>2, <1>3, <1>4, <1>5, <1>6, <1>7 DEF Controller

LEMMA AddBeginsWhole == RegistryInv /\ WholeInv /\ (AddBrowser \/ AddCheck) => WholeInv'
  <1> SUFFICES ASSUME RegistryInv, WholeInv, AddBrowser \/ AddCheck PROVE WholeInv'
    OBVIOUS
  <1>1. /\ UNCHANGED <<disk, strays, tasks, fetches, leaving>> /\ used \subseteq used' /\ used' \subseteq Ids
        /\ DOMAIN addTask = TaskFields
    BY DEF AddBrowser, AddCheck, AddOnly, RegistryInv, Shapes, Running
  <1>2. \/ addTask'.pc \in {"check", "done"}
        \/ /\ addTask'.pc = "Token" /\ addTask'.id \in Ids \ used /\ addTask'.inbox # "None"
    <2>1. CASE AddBrowser
      BY <1>1, <2>1 DEF AddBrowser, AddEnds, TaskFields
    <2>2. ASSUME NEW i \in Ids \ used,
                 addTask' = [addTask EXCEPT !.pc = "Token", !.id = i, !.inbox = InboxOf(addTask.email)]
          PROVE  addTask'.pc = "Token" /\ addTask'.id \in Ids \ used /\ addTask'.inbox # "None"
      BY <1>1, <2>2 DEF TaskFields, InboxOf
    <2>3. CASE AddCheck
      <3>1. \/ addTask' = [addTask EXCEPT !.pc = "done"]
            \/ \E i \in Ids \ used :
                   addTask' = [addTask EXCEPT !.pc = "Token", !.id = i, !.inbox = InboxOf(addTask.email)]
        BY <2>3 DEF AddCheck, AddEnds
      <3>2. CASE addTask' = [addTask EXCEPT !.pc = "done"]
        BY <1>1, <3>2 DEF TaskFields
      <3> QED  BY <2>2, <3>1, <3>2
    <2> QED  BY <2>1, <2>3
  <1>3. \A i \in used : MayRecord(i)' => MayRecord(i)
    BY <1>1, <1>2 DEF MayRecord
  <1>4. Careful /\ Fresh' /\ RowsAreWhole'
    <2>1. leaving' \subseteq used'
      BY <1>1 DEF WholeInv, Fresh
    <2> QED  BY <1>1, <1>3, <2>1, NothingStored
  <1>5. AddSafe'
    BY <1>2 DEF AddSafe
  <1> QED  BY <1>1, <1>4, <1>5, WholeStays

LEMMA AddWriteWhole == RegistryInv /\ WholeInv /\ AddWrite => WholeInv'
  <1> SUFFICES ASSUME RegistryInv, WholeInv, AddWrite PROVE WholeInv'
    OBVIOUS
  <1>0. PICK w : w = WriteOf(addTask)
    OBVIOUS
  <1>1. PICK i : i = addTask.id
    OBVIOUS
  <1>2. /\ w.do = addTask.pc /\ w.id = i /\ w.inbox = addTask.inbox
        /\ addTask.pc \in {"Token", "Cache", "Record", "NoCache", "NoToken"}
        /\ UNCHANGED <<used, leaving, tasks, fetches>>
        /\ DOMAIN addTask = TaskFields
    BY <1>0, <1>1 DEF AddWrite, WriteOf, AddOnly, RegistryInv, Shapes, Running
  <1>3. PICK pc : addTask' = [addTask EXCEPT !.pc = pc]
    BY DEF AddWrite, AddEnds
  <1>4. addTask'.pc = pc /\ addTask'.id = i /\ addTask'.inbox = addTask.inbox
    BY <1>1, <1>2, <1>3 DEF TaskFields
  <1>5. addTask.pc \in Before => i \in Ids /\ i \in used /\ registry[i] = None /\ addTask.inbox # "None"
    <2>1. addTask.pc \in Before => i \in Ids /\ Adding(i) /\ addTask.inbox # "None"
      BY <1>1 DEF Adding, Before, WholeInv, AddSafe
    <2> QED  BY <2>1 DEF RegistryInv, Hidden, Unknown
  <1>6. /\ addTask.pc = "Record" => Both(i)
        /\ addTask.pc = "Cache" => i \in leaving \/ i \in token
        /\ addTask.pc \in {"NoToken", "NoCache"} => Leaves(i)
    BY <1>1 DEF WholeInv, AddSafe
  <1>7. WriteSafe(w) \/ First(w)
    BY <1>2, <1>5, <1>6 DEF WriteSafe, First, Before
  <1>8. w.do = "Record" => MayRecord(w.id)
    BY <1>1, <1>2 DEF MayRecord
  <1>9. CASE Store(w) /\ strays' = strays /\ pc = IF addTask.pc \in DOMAIN AddNext
                                                  THEN AddNext[addTask.pc] ELSE "done"
    <2>1. /\ addTask.pc = "Token" => pc = "Cache"
          /\ addTask.pc = "Cache" => pc = "Record"
          /\ addTask.pc = "NoCache" => pc = "NoToken"
          /\ addTask.pc \in {"Record", "NoToken"} => pc = "done"
      BY <1>9 DEF AddNext
    <2>2. \A j : MayRecord(j)' => MayRecord(j)
      BY <1>1, <1>2, <1>4, <1>9, <2>1 DEF MayRecord
    <2>3. Careful /\ Fresh' /\ RowsAreWhole'
      BY <1>2, <1>7, <1>8, <1>9, <2>2, Stored
    <2>4. AddSafe'
      <3>1. pc = "Cache" => i \in token'
        BY <1>2, <1>9, <2>1 DEF Store
      <3>2. pc = "Record" => i \in leaving' \/ (i \in token' /\ i \in used' /\ cache'[i] # "None")
        <4>1. ASSUME pc = "Record" PROVE token' = token /\ cache' = [cache EXCEPT ![i] = w.inbox]
          BY <1>2, <1>9, <2>1, <4>1 DEF Store
        <4>2. DOMAIN cache = Ids
          BY DEF RegistryInv, Shapes
        <4> QED  BY <1>2, <1>5, <1>6, <2>1, <4>1, <4>2 DEF Before
      <3>3. pc \in {"NoToken", "NoCache"} => Leaves(i)'
        BY <1>2, <1>6, <2>1, <2>3, StillSafe
      <3>4. pc \in {"Cache", "Record", "NoToken", "done"} /\ (pc \in Before => addTask.pc \in Before)
        BY <1>2, <2>1 DEF Before
      <3>5. Leaves(i)' = Leaves(addTask.id)' /\ Both(i)' = Both(addTask.id)'
        BY <1>4 DEF Leaves, Both, Dead, MayRecord
      <3> QED  BY <1>4, <1>5, <3>1, <3>2, <3>3, <3>4, <3>5 DEF AddSafe, Before, Both
    <2> QED  BY <1>2, <1>9, <2>3, <2>4, WholeStays
  <1>10. CASE Fails(addTask) /\ pc = IF addTask.pc \in DOMAIN AddUndo THEN AddUndo[addTask.pc] ELSE "done"
    <2>1. /\ addTask.pc = "Cache" => pc = "NoToken"
          /\ addTask.pc = "Record" => pc = "NoCache"
          /\ addTask.pc = "NoCache" => pc = "NoToken"
          /\ addTask.pc \in {"Token", "NoToken"} => pc = "done"
      BY <1>10 DEF AddUndo
    <2>2. pc \in {"NoToken", "NoCache", "done"} /\ addTask'.pc \notin Before
      BY <1>2, <1>4, <2>1 DEF Before
    <2>3. /\ \A v \in strays' : v \in strays \/ (v = w /\ w.do \in {"Token", "NoToken"})
          /\ registry' = registry
          /\ UNCHANGED disk \/ Store(w)
      BY <1>0, <1>2, <1>10 DEF Fails, Store, disk
    <2>4. \A j : MayRecord(j)' => MayRecord(j)
      BY <2>2, <2>3 DEF MayRecord, Before
    <2>5. Careful /\ Fresh' /\ RowsAreWhole'
      <3>1. CASE UNCHANGED disk
        BY <1>2, <2>4, <3>1, NothingStored DEF RegistryInv, Shapes, WholeInv, Fresh
      <3>2. CASE Store(w)
        BY <1>2, <1>7, <1>8, <2>4, <3>2, Stored
      <3> QED  BY <2>3, <3>1, <3>2
    <2>6. addTask.pc \in Before => Dead(i)'
      BY <1>1, <1>2, <2>2, <2>3, Lost
    <2>7. addTask.pc \in {"NoToken", "NoCache"} => Leaves(i)'
      BY <1>6, <2>5, StillSafe
    <2>8. Leaves(i)'
      BY <1>2, <2>6, <2>7 DEF Leaves, Before
    <2>9. AddSafe'
      <3>1. Leaves(i)' = Leaves(addTask.id)'
        BY <1>4 DEF Leaves, Dead, MayRecord
      <3> QED  BY <1>4, <2>2, <2>8, <3>1 DEF AddSafe
    <2>10. w.do \in {"Token", "NoToken"} => WriteSafe(w)'
      BY <1>2, <2>6, <2>8 DEF WriteSafe, TokenSafe, Before
    <2>11. \A v \in strays' : v \in strays \/ WriteSafe(v)'
      BY <2>3, <2>10
    <2> QED  BY <1>2, <2>5, <2>9, <2>11, WholeStays
  <1>11. \/ Store(w) /\ strays' = strays /\ pc = IF addTask.pc \in DOMAIN AddNext
                                                  THEN AddNext[addTask.pc] ELSE "done"
         \/ Fails(addTask) /\ pc = IF addTask.pc \in DOMAIN AddUndo THEN AddUndo[addTask.pc] ELSE "done"
    <2>1. \A p : addTask' = [addTask EXCEPT !.pc = p] => pc = p
      BY <1>2, <1>4 DEF TaskFields
    <2> QED  BY <1>0, <2>1 DEF AddWrite, AddEnds
  <1> QED  BY <1>9, <1>10, <1>11

LEMMA ReconnectWhole ==
  ASSUME RegistryInv, WholeInv, NEW i \in Ids, ReconnectSign(i) \/ ReconnectFetch(i)
  PROVE  WholeInv'
  <1>1. /\ UNCHANGED <<disk, leaving, used, addTask, fetches, strays>>
        /\ DOMAIN tasks = Ids /\ DOMAIN tasks[i] = TaskFields
    BY DEF ReconnectSign, ReconnectFetch, TaskOnly, RegistryInv, Shapes, Running
  <1>2. PICK t : tasks' = [tasks EXCEPT ![i] = t]
    <2>1. ASSUME NEW pc, NEW a, tasks' = [tasks EXCEPT ![i].pc = pc, ![i].email = a]
          PROVE  tasks' = [tasks EXCEPT ![i] = [tasks[i] EXCEPT !.pc = pc, !.email = a]]
      BY <1>1, <2>1
    <2>2. ASSUME NEW m, tasks' = [tasks EXCEPT ![i].pc = "Cache", ![i].inbox = m]
          PROVE  tasks' = [tasks EXCEPT ![i] = [tasks[i] EXCEPT !.pc = "Cache", !.inbox = m]]
      BY <1>1, <2>2
    <2>3. \/ \E pc, a : tasks' = [tasks EXCEPT ![i].pc = pc, ![i].email = a]
          \/ \E m : tasks' = [tasks EXCEPT ![i].pc = "Cache", ![i].inbox = m]
          \/ tasks' = [tasks EXCEPT ![i] = NoTask]
      BY DEF ReconnectSign, ReconnectFetch, TaskFails, TaskEnds
    <2> QED  BY <2>1, <2>2, <2>3
  <1>3. \A j \in Ids : j # i => tasks'[j] = tasks[j]
    BY <1>1, <1>2
  <1>4. \/ tasks'[i].pc = "none"
        \/ tasks'[i].pc \in {"Token", "fetch"} /\ registry[i] # None /\ i \in token
        \/ tasks'[i].pc = "Cache" /\ tasks'[i].inbox # "None" /\ tasks[i].pc = "fetch"
    <2>1. CASE ReconnectSign(i)
      <3>1. CASE tasks' = [tasks EXCEPT ![i] = NoTask]
        BY <1>1, <3>1 DEF NoTask
      <3>2. ASSUME registry[i] # None, i \in token, NEW pc \in {"Token", "fetch"},
                   tasks' = [tasks EXCEPT ![i].pc = pc, ![i].email = registry[i]]
            PROVE  tasks'[i].pc \in {"Token", "fetch"}
        BY <1>1, <3>2 DEF TaskFields
      <3> QED  BY <2>1, <3>1, <3>2 DEF ReconnectSign, TaskFails, TaskEnds
    <2>2. CASE ReconnectFetch(i)
      <3>1. CASE tasks' = [tasks EXCEPT ![i] = NoTask]
        BY <1>1, <3>1 DEF NoTask
      <3>2. CASE tasks' = [tasks EXCEPT ![i].pc = "Cache", ![i].inbox = InboxOf(tasks[i].email)]
        BY <1>1, <2>2, <3>2 DEF ReconnectFetch, TaskFields, InboxOf
      <3> QED  BY <2>2, <3>1, <3>2 DEF ReconnectFetch, TaskFails, TaskEnds
    <2> QED  BY <2>1, <2>2
  <1>5. registry[i] # None /\ i \in token => TokenSafe(i) /\ CacheSafe(i)
    BY DEF RegistryInv, Hidden, Unknown, WholeInv, RowsAreWhole, Rows, TokenSafe, CacheSafe
  <1>6. tasks[i].pc = "fetch" => TokenSafe(i) /\ CacheSafe(i)
    BY DEF WholeInv, TaskSafe
  <1>7. TokenSafe(i) /\ CacheSafe(i) => TokenSafe(i)' /\ CacheSafe(i)'
    BY <1>1 DEF TokenSafe, CacheSafe, Dead, MayRecord, disk
  <1>8. TaskSafe(i)'
    BY <1>4, <1>5, <1>6, <1>7 DEF TaskSafe
  <1> QED  BY <1>1, <1>3, <1>8, Tasked

LEMMA TaskWriteWhole ==
  ASSUME RegistryInv, WholeInv, NEW i \in Ids, TaskWrite(i)
  PROVE  WholeInv'
  <1>0. PICK w : w = WriteOf(tasks[i])
    OBVIOUS
  <1>1. /\ UNCHANGED <<leaving, used, addTask, fetches>>
        /\ DOMAIN tasks = Ids /\ DOMAIN tasks[i] = TaskFields
        /\ w.do = tasks[i].pc /\ w.id = i /\ w.inbox = tasks[i].inbox
        /\ tasks[i].pc \in {"Token", "Cache", "NoCache", "NoToken", "NoRecord"}
    BY <1>0 DEF TaskWrite, TaskOnly, RegistryInv, Shapes, Running, WriteOf
  <1>2. /\ WriteSafe(w)
        /\ tasks[i].pc = "Token" => TokenSafe(i) /\ CacheSafe(i)
        /\ tasks[i].pc \in {"NoCache", "NoToken", "NoRecord"} => i \in leaving
    BY <1>1 DEF WholeInv, TaskSafe, WriteSafe, Leaves
  <1>3. /\ \A v \in strays' : v \in strays \/ (v = w /\ w.do \in {"Token", "NoToken"})
        /\ UNCHANGED disk \/ Store(w)
    BY <1>0, <1>1 DEF TaskWrite, Fails
  <1>4. \A j : MayRecord(j)' => MayRecord(j)
    BY <1>1, <1>3 DEF MayRecord
  <1>5. Careful /\ Fresh' /\ RowsAreWhole'
    <2>1. CASE UNCHANGED disk
      BY <1>1, <1>4, <2>1, NothingStored DEF RegistryInv, Shapes, WholeInv, Fresh
    <2>2. CASE Store(w)
      BY <1>1, <1>2, <1>4, <2>2, Stored
    <2> QED  BY <1>3, <2>1, <2>2
  <1>6. AddSafe'
    BY <1>1, <1>5, AddStillSafe DEF WholeInv
  <1>7. \A v \in strays' : v \in strays \/ WriteSafe(v)'
    <2>1. w.do \in {"Token", "NoToken"} => WriteSafe(w)'
      BY <1>2, <1>5, WriteStillSafe
    <2> QED  BY <1>3, <2>1
  <1>8. \A j \in Ids : tasks'[j] = tasks[j] \/ TaskSafe(j)'
    <2>1. \/ tasks' = [tasks EXCEPT ![i] = NoTask]
          \/ /\ tasks[i].pc \in DOMAIN TaskNext
             /\ tasks' = [tasks EXCEPT ![i].pc = TaskNext[tasks[i].pc]]
      BY DEF TaskWrite, TaskFails, TaskEnds
    <2>2. \A j \in Ids : j # i => tasks'[j] = tasks[j]
      BY <1>1, <2>1
    <2>3. CASE tasks' = [tasks EXCEPT ![i] = NoTask]
      <3>1. tasks'[i].pc = "none"
        BY <1>1, <2>3 DEF NoTask
      <3> QED  BY <2>2, <3>1 DEF TaskSafe
    <2>4. CASE /\ tasks[i].pc \in DOMAIN TaskNext
               /\ tasks' = [tasks EXCEPT ![i].pc = TaskNext[tasks[i].pc]]
      <3>1. tasks'[i].pc = TaskNext[tasks[i].pc]
        BY <1>1, <2>4 DEF TaskFields
      <3>2. \/ tasks[i].pc = "Token" /\ tasks'[i].pc = "fetch"
            \/ tasks[i].pc \in {"NoCache", "NoToken"} /\ tasks'[i].pc \in {"NoToken", "NoRecord"}
        BY <2>4, <3>1 DEF TaskNext
      <3>3. TokenSafe(i) /\ CacheSafe(i) => TokenSafe(i)' /\ CacheSafe(i)'
        BY <1>5, StillSafe
      <3>4. TaskSafe(i)'
        BY <1>1, <1>2, <3>2, <3>3 DEF TaskSafe
      <3> QED  BY <2>2, <3>4
    <2> QED  BY <2>1, <2>3, <2>4
  <1> QED  BY <1>1, <1>5, <1>6, <1>7, <1>8, WholeStays

LEMMA FetchWhole ==
  ASSUME RegistryInv, WholeInv, NEW f \in fetches, FetchStep(f)
  PROVE  WholeInv'
  <1> DEFINE w == [do |-> "Token", id |-> f.id, email |-> f.email, inbox |-> "None"]
  <1>1. UNCHANGED <<leaving, used, addTask, tasks>>
    BY DEF FetchStep, FetchSign, FetchRotate, FetchCall, FetchOnly, seen
  <1>2. /\ UNCHANGED disk \/ (f.pc = "Token" /\ Store(w))
        /\ \A v \in strays' : v \in strays \/ (v = w /\ f.pc = "Token")
    BY DEF FetchStep, FetchSign, FetchRotate, FetchCall
  <1>3. w.do = "Token" /\ w.id = f.id
    OBVIOUS
  <1> HIDE DEF w
  <1>4. f.pc = "Token" => WriteSafe(w)
    BY <1>3 DEF WriteSafe, WholeInv
  <1>5. \A j : MayRecord(j)' => MayRecord(j)
    BY <1>1, <1>2, <1>3 DEF MayRecord
  <1>6. Careful /\ Fresh' /\ RowsAreWhole'
    <2>1. CASE UNCHANGED disk
      BY <1>1, <1>5, <2>1, NothingStored DEF RegistryInv, Shapes, WholeInv, Fresh
    <2>2. CASE f.pc = "Token" /\ Store(w)
      BY <1>1, <1>3, <1>4, <1>5, <2>2, Stored
    <2> QED  BY <1>2, <2>1, <2>2
  <1>7. AddSafe'
    BY <1>1, <1>6, AddStillSafe DEF WholeInv
  <1>8. \A v \in strays' : v \in strays \/ WriteSafe(v)'
    <2>1. f.pc = "Token" => WriteSafe(w)'
      BY <1>3, <1>4, <1>6, WriteStillSafe
    <2> QED  BY <1>2, <2>1
  <1>9. IsFetch(f)
    BY DEF RegistryInv, Shapes
  <1>10. \A g \in fetches' : g \in fetches \/ g.pc # "Token" \/ TokenSafe(g.id)'
    <2>1. \/ fetches' = fetches \ {f}
          \/ fetches' = (fetches \ {f}) \cup {[f EXCEPT !.pc = "call"]}
          \/ /\ FetchSign(f) /\ registry[f.id] = f.email /\ f.id \in token
             /\ fetches' = (fetches \ {f}) \cup {[f EXCEPT !.pc = "Token"]}
      BY DEF FetchStep, FetchSign, FetchRotate, FetchCall, HasToken, FetchEnds, FetchTo
    <2>2. CASE fetches' = fetches \ {f}
      BY <2>2
    <2>3. CASE fetches' = (fetches \ {f}) \cup {[f EXCEPT !.pc = "call"]}
      <3> DEFINE g == [f EXCEPT !.pc = "call"]
      <3>1. g.pc # "Token"
        BY <1>9 DEF IsFetch
      <3> HIDE DEF g
      <3> QED  BY <2>3, <3>1 DEF g
    <2>4. CASE /\ FetchSign(f) /\ registry[f.id] = f.email /\ f.id \in token
               /\ fetches' = (fetches \ {f}) \cup {[f EXCEPT !.pc = "Token"]}
      <3> DEFINE g == [f EXCEPT !.pc = "Token"]
      <3>1. f.id \in token'
        BY <2>4 DEF FetchSign, disk
      <3>2. g.id = f.id
        BY <1>9 DEF IsFetch
      <3> HIDE DEF g
      <3>3. TokenSafe(g.id)'
        BY <3>1, <3>2 DEF TokenSafe
      <3> QED  BY <2>4, <3>3 DEF g
    <2> QED  BY <2>1, <2>2, <2>3, <2>4
  <1> QED  BY <1>1, <1>6, <1>7, <1>8, <1>10, WholeStays

LEMMA StrayWhole ==
  ASSUME RegistryInv, WholeInv, NEW w \in strays, Stray(w)
  PROVE  WholeInv'
  <1>1. /\ UNCHANGED <<leaving, used, addTask, tasks, fetches>> /\ strays' = strays \ {w}
        /\ UNCHANGED disk \/ Store(w)
    BY DEF Stray, seen
  <1>2. WriteSafe(w) /\ (w.do = "Record" => MayRecord(w.id)) /\ \A j : MayRecord(j)' => MayRecord(j)
    BY <1>1 DEF WholeInv, MayRecord
  <1>3. Careful /\ Fresh' /\ RowsAreWhole'
    <2>1. CASE UNCHANGED disk
      BY <1>1, <1>2, <2>1, NothingStored DEF RegistryInv, Shapes, WholeInv, Fresh
    <2>2. CASE Store(w)
      BY <1>1, <1>2, <2>2, Stored
    <2> QED  BY <1>1, <2>1, <2>2
  <1>4. AddSafe'
    BY <1>1, <1>3, AddStillSafe DEF WholeInv
  <1> QED  BY <1>1, <1>3, <1>4, WholeStays

LEMMA LegacyWhole == RegistryInv /\ WholeInv /\ LegacyStep => WholeInv'
  <1> SUFFICES ASSUME RegistryInv, WholeInv, LegacyStep PROVE WholeInv'
    OBVIOUS
  <1>1. /\ UNCHANGED <<token, cache, added, leaving, addTask, tasks, fetches, strays>>
        /\ \/ UNCHANGED <<registry, used>>
           \/ \E i \in Ids \ used :
                  registry' = [registry EXCEPT ![i] = legacyTask.email] /\ used' = used \cup {i}
    BY DEF LegacyStep, LegacyList, LegacySign, LegacyBrowser, LegacyRegister, LegacySave, LegacyFetch,
           LegacyPurge, LegacyOnly
  <1>2. CASE UNCHANGED <<registry, used>>
    BY <1>1, <1>2, Untouched DEF disk
  <1>3. ASSUME NEW i \in Ids \ used,
               registry' = [registry EXCEPT ![i] = legacyTask.email], used' = used \cup {i}
        PROVE  WholeInv'
    <2>1. \A j \in Ids : j # i => registry'[j] = registry[j]
      BY <1>3 DEF RegistryInv, Shapes
    <2>2. \A j \in Ids : Dead(j) => Dead(j)'
      BY <1>1, <1>3, <2>1 DEF Dead, MayRecord
    <2>3. Careful
      BY <1>1, <1>3, <2>2 DEF Careful, RegistryInv, Shapes
    <2>4. Fresh' /\ i \notin token /\ i \notin added /\ cache[i] = "None"
      BY <1>1, <1>3 DEF WholeInv, Fresh
    <2>5. RowsAreWhole'
      BY <1>1, <2>1, <2>4 DEF WholeInv, RowsAreWhole, Rows
    <2>6. AddSafe'
      BY <1>1, <2>3, AddStillSafe DEF WholeInv
    <2> QED  BY <1>1, <2>3, <2>4, <2>5, <2>6, WholeStays
  <1> QED  BY <1>1, <1>2, <1>3

LEMMA NextWhole == RegistryInv /\ WholeInv /\ [Next]_vars => WholeInv'
  <1> SUFFICES ASSUME RegistryInv, WholeInv, [Next]_vars PROVE WholeInv'
    OBVIOUS
  <1>1. CASE Person \/ Deliver \/ UNCHANGED vars
    BY <1>1, CalmWhole
  <1>2. CASE Controller \/ LegacyStep \/ Restart
    BY <1>2, ControllerWhole, LegacyWhole, RestartWhole
  <1>3. CASE AddStep
    BY <1>3, AddBeginsWhole, AddWriteWhole DEF AddStep
  <1>4. ASSUME NEW i \in Ids, TaskStep(i) PROVE WholeInv'
    BY <1>4, ReconnectWhole, TaskWriteWhole DEF TaskStep
  <1>5. ASSUME NEW f \in fetches, FetchStep(f) PROVE WholeInv'
    BY <1>5, FetchWhole
  <1>6. ASSUME NEW w \in strays, Stray(w) PROVE WholeInv'
    BY <1>6, StrayWhole
  <1> QED  BY <1>1, <1>2, <1>3, <1>4, <1>5, <1>6 DEF Next, System

\* Unless somebody has started to remove its account, a row that add_account wrote
\* has its token and its cached mail, and a row of the singleton session neither,
\* whatever a crash, a cancelled or failed addition, a late closure, a reconnection
\* and a registration of the session leave behind (add_account, reconnect_account
\* and emit_legacy_account_registration of worker.rs).
THEOREM RowsStayWhole == Spec => []RowsAreWhole
  <1>1. Init => RegistryInv /\ WholeInv
    BY Start, StartWhole
  <1>2. RegistryInv /\ WholeInv /\ [Next]_vars => (RegistryInv /\ WholeInv)'
    BY NextKeeps, NextWhole
  <1>3. WholeInv => RowsAreWhole
    BY DEF WholeInv
  <1> QED  BY <1>1, <1>2, <1>3, PTL DEF Spec

-----------------------------------------------------------------------------
(* What the lists hide                                                        *)

Tells(a, m) == m = "Empty" => a \notin gmail

\* Under "own", the identity of each id, what is on its way to the lists is
\* of the account it names, and an Inbox without the message tells the truth.
Fits(own, i, a) == i \in used /\ a = own[i]

RowTrue(own, i) ==
    accounts[i] # NoAccount =>
        /\ DOMAIN accounts[i] = {"email", "session", "inbox"}
        /\ accounts[i].email = own[i] /\ Tells(own[i], accounts[i].inbox)

ListsTrue(own) ==
    /\ \A i \in Ids : RowTrue(own, i)
    /\ selected \in Ids \cup {None}
    /\ Tells(account, mailbox)

DiskTrue(own) == \A i \in Ids : registry[i] \in {None, own[i]} /\ Tells(own[i], cache[i])

WriteTrue(own, w) ==
    /\ w.do = "Record" => Fits(own, w.id, w.email)
    /\ w.do = "Cache" => w.id \in used /\ Tells(own[w.id], w.inbox)

AddTrue(own) ==
    addTask.pc \in Before => Fits(own, addTask.id, addTask.email) /\ Tells(addTask.email, addTask.inbox)

TaskTrue(own, i) ==
    /\ tasks[i].pc \in {"Token", "fetch", "Cache"} => tasks[i].email = own[i]
    /\ tasks[i].pc = "Cache" => Tells(own[i], tasks[i].inbox)

WorkTrue(own) ==
    /\ AddTrue(own)
    /\ \A i \in Ids : TaskTrue(own, i)
    /\ \A w \in strays : WriteTrue(own, w)
    /\ \A f \in fetches : Fits(own, f.id, f.email)

CommandTrue(own, c) == c.type \in {"SendAs", "Archive"} => Fits(own, c.id, c.email)

EventTrue(own, e) ==
    /\ e.type \in {"AccountAdded", "AccountSynced"} => Fits(own, e.id, e.email) /\ Tells(e.email, e.inbox)
    /\ e.type = "LegacyRegistered" => Fits(own, e.id, e.email)
    /\ e.type = "Restored" =>
           \A i \in Ids : e.rows[i] # None => e.rows[i] = own[i] /\ Tells(own[i], e.inboxes[i])
    /\ e.type = "SyncComplete" => Tells(e.email, e.inbox)
    /\ e.type = "Archive" => e.id \in used /\ (e.ok /\ ~e.stays => own[e.id] \notin gmail)

CommandsTrue(own) == \A n \in DOMAIN commands : CommandTrue(own, commands[n])
EventsTrue(own) == \A n \in DOMAIN events : EventTrue(own, events[n])

Held(own) == ListsTrue(own) /\ DiskTrue(own) /\ WorkTrue(own) /\ CommandsTrue(own) /\ EventsTrue(own)

HideInv == \E own : DOMAIN own = Ids /\ Held(own)

\* Ids stay drawn, and no message comes back.
Onward == used \subseteq used' /\ used' \subseteq Ids /\ gmail' \subseteq gmail

LEMMA StillTrue ==
  ASSUME Onward, NEW own
  PROVE  /\ \A a, m : Tells(a, m) => Tells(a, m)'
         /\ \A i, a : Fits(own, i, a) => Fits(own, i, a)'
         /\ \A w : WriteTrue(own, w) => WriteTrue(own, w)'
         /\ \A c : CommandTrue(own, c) => CommandTrue(own, c)'
         /\ \A e : EventTrue(own, e) => EventTrue(own, e)'
  <1>1. \A a, m : Tells(a, m) => Tells(a, m)'
    BY DEF Onward, Tells
  <1>2. \A i, a : Fits(own, i, a) => Fits(own, i, a)'
    BY DEF Onward, Fits
  <1>3. ASSUME NEW w, WriteTrue(own, w) PROVE WriteTrue(own, w)'
    BY <1>1, <1>2, <1>3 DEF WriteTrue, Onward
  <1>4. ASSUME NEW c, CommandTrue(own, c) PROVE CommandTrue(own, c)'
    BY <1>2, <1>4 DEF CommandTrue
  <1>5. ASSUME NEW e, EventTrue(own, e) PROVE EventTrue(own, e)'
    BY <1>1, <1>2, <1>5 DEF EventTrue, Onward
  <1> QED  BY <1>1, <1>2, <1>3, <1>4, <1>5

LEMMA ListsStay ==
  ASSUME Onward, NEW own, ListsTrue(own), UNCHANGED <<accounts, selected, account, mailbox>>
  PROVE  ListsTrue(own)'
  BY StillTrue DEF ListsTrue, RowTrue

LEMMA DiskStays ==
  ASSUME Onward, NEW own, DiskTrue(own), UNCHANGED <<registry, cache>>
  PROVE  DiskTrue(own)'
  BY StillTrue DEF DiskTrue

\* The work goes on as it was but for what is true anyway.
LEMMA WorkStays ==
  ASSUME Onward, NEW own, WorkTrue(own),
         addTask' = addTask \/ AddTrue(own)',
         \A i \in Ids : tasks'[i] = tasks[i] \/ TaskTrue(own, i)',
         \A w \in strays' : w \in strays \/ WriteTrue(own, w)',
         \A f \in fetches' : f \in fetches \/ Fits(own, f.id, f.email)'
  PROVE  WorkTrue(own)'
  <1>1. AddTrue(own)'
    <2>1. CASE addTask' = addTask
      BY <2>1, StillTrue DEF WorkTrue, AddTrue
    <2> QED  BY <2>1
  <1>2. ASSUME NEW i \in Ids PROVE TaskTrue(own, i)'
    BY StillTrue DEF WorkTrue, TaskTrue
  <1>3. \A w \in strays' : WriteTrue(own, w)'
    BY StillTrue DEF WorkTrue
  <1>4. \A f \in fetches' : Fits(own, f.id, f.email)'
    BY StillTrue DEF WorkTrue
  <1> QED  BY <1>1, <1>2, <1>3, <1>4 DEF WorkTrue

\* The commands and events that a step adds are true.
Asks(own) ==
    \/ commands' = commands
    \/ \E c : commands' \in {commands \o <<c>>, Append(commands, c)} /\ CommandTrue(own, c)'
Told(own) ==
    \/ events' = events \/ Emit(<<>>)
    \/ \E e : Emit(<<e>>) /\ EventTrue(own, e)'

LEMMA Appended ==
  ASSUME NEW s, IsSeq(s), NEW c
  PROVE  \A n \in DOMAIN Append(s, c) : Append(s, c)[n] = c \/ \E m \in DOMAIN s : Append(s, c)[n] = s[m]
  <1>1. \A n \in DOMAIN Append(s, c) : n \in DOMAIN s \/ n = Len(s) + 1
    BY AppendIs
  <1> QED  BY <1>1, AppendIs

LEMMA CommandsStay ==
  ASSUME RegistryInv, Onward, NEW own, CommandsTrue(own),
         Asks(own) \/ (commands # <<>> /\ commands' = Tail(commands))
  PROVE  CommandsTrue(own)'
  <1>1. IsSeq(commands)
    BY DEF RegistryInv, Turns, Orderly
  <1>2. ASSUME NEW c, commands' \in {commands \o <<c>>, Append(commands, c)}, CommandTrue(own, c)'
        PROVE  CommandsTrue(own)'
    <2>1. \A n \in DOMAIN commands' : commands'[n] = c \/ \E m \in DOMAIN commands : commands'[n] = commands[m]
      BY <1>1, <1>2, AppendIs, Appended
    <2> QED  BY <1>2, <2>1, StillTrue DEF CommandsTrue
  <1>3. CASE commands' = commands
    BY <1>3, StillTrue DEF CommandsTrue
  <1>4. CASE commands # <<>> /\ commands' = Tail(commands)
    <2>1. \A n \in DOMAIN commands' : n + 1 \in DOMAIN commands /\ commands'[n] = commands[n + 1]
      BY <1>1, <1>4, TailIs
    <2> QED  BY <2>1, StillTrue DEF CommandsTrue
  <1>5. ASSUME Asks(own), commands' # commands PROVE CommandsTrue(own)'
    <2>1. PICK c : commands' \in {commands \o <<c>>, Append(commands, c)} /\ CommandTrue(own, c)'
      BY <1>5 DEF Asks
    <2> QED  BY <1>2, <2>1
  <1> QED  BY <1>3, <1>4, <1>5

LEMMA EventsStay ==
  ASSUME RegistryInv, Onward, NEW own, EventsTrue(own),
         Told(own) \/ (events # <<>> /\ events' = Tail(events))
  PROVE  EventsTrue(own)'
  <1>1. IsSeq(events)
    BY DEF RegistryInv, Turns, Orderly
  <1>2. ASSUME NEW e, Emit(<<e>>), EventTrue(own, e)'
        PROVE  EventsTrue(own)'
    <2>1. \A n \in DOMAIN events' : events'[n] = e \/ \E m \in DOMAIN events : events'[n] = events[m]
      BY <1>1, <1>2, AppendIs, Appended DEF Emit
    <2> QED  BY <1>2, <2>1, StillTrue DEF EventsTrue
  <1>3. CASE events' = events \/ Emit(<<>>)
    <2>1. events' = events
      BY <1>1, <1>3, AppendIs DEF Emit
    <2> QED  BY <2>1, StillTrue DEF EventsTrue
  <1>4. CASE events # <<>> /\ events' = Tail(events)
    <2>1. \A n \in DOMAIN events' : n + 1 \in DOMAIN events /\ events'[n] = events[n + 1]
      BY <1>1, <1>4, TailIs
    <2> QED  BY <2>1, StillTrue DEF EventsTrue
  <1> QED  BY <1>2, <1>3, <1>4 DEF Told

\* The events that say something of an Inbox or of an identity.
Weighty == {"AccountAdded", "AccountSynced", "LegacyRegistered", "Restored", "SyncComplete", "Archive"}

LEMMA LightlyTold ==
  ASSUME NEW own, NEW e, Emit(<<e>>), e.type \notin Weighty
  PROVE  Told(own)
  <1>1. EventTrue(own, e)'
    BY DEF EventTrue, Weighty
  <1> QED  BY <1>1 DEF Told

LEMMA AnswersTold ==
  ASSUME NEW own, NEW type, type \notin Weighty, NEW op, Emit(<<Answer(type, op)>>)
  PROVE  Told(own)
  <1> DEFINE e == Answer(type, op)
  <1>1. e.type \notin Weighty /\ Emit(<<e>>)
    BY DEF Answer
  <1> HIDE DEF e
  <1> QED  BY <1>1, LightlyTold

\* An id that was not drawn may yet be anybody's.
LEMMA Undecided ==
  ASSUME RegistryInv, WholeInv, NEW own, DOMAIN own = Ids, Held(own), NEW i \in Ids \ used, NEW a
  PROVE  Held([own EXCEPT ![i] = a])
  <1> DEFINE new == [own EXCEPT ![i] = a]
  <1>1. used \subseteq Ids /\ \A j \in Ids : j # i => new[j] = own[j]
    BY DEF RegistryInv, Shapes
  <1>2. /\ registry[i] = None /\ accounts[i] = NoAccount /\ ~Running(tasks[i]) /\ ~Named(events, i)
        /\ cache[i] = "None"
    BY DEF RegistryInv, Hidden, Unknown, WholeInv, Fresh
  <1> HIDE DEF new
  <1>3. \A j, b : Fits(own, j, b) => Fits(new, j, b)
    BY <1>1 DEF Fits
  <1>4. ListsTrue(new)
    BY <1>1, <1>2 DEF Held, ListsTrue, RowTrue
  <1>5. DiskTrue(new)
    BY <1>1, <1>2 DEF Held, DiskTrue, Tells
  <1>6. \A w \in strays : WriteTrue(new, w)
    BY <1>1, <1>3 DEF Held, WorkTrue, WriteTrue
  <1>7. \A j \in Ids : TaskTrue(new, j)
    BY <1>1, <1>2 DEF Held, WorkTrue, TaskTrue, Running
  <1>8. WorkTrue(new)
    BY <1>3, <1>6, <1>7 DEF Held, WorkTrue, AddTrue
  <1>9. CommandsTrue(new)
    BY <1>3 DEF Held, CommandsTrue, CommandTrue
  <1>10. EventsTrue(new)
    <2>1. ASSUME NEW n \in DOMAIN events PROVE EventTrue(new, events[n])
      <3>1. EventTrue(own, events[n]) /\ ~Names(events[n], i)
        BY <1>2 DEF Held, EventsTrue, Named
      <3>2. events[n].type = "Restored" => \A j \in Ids : events[n].rows[j] # None => j # i
        BY <3>1 DEF Names
      <3> QED  BY <1>1, <1>3, <3>1, <3>2 DEF EventTrue
    <2> QED  BY <2>1 DEF EventsTrue
  <1> QED  BY <1>4, <1>5, <1>8, <1>9, <1>10 DEF Held, new

LEMMA RowSet ==
  ASSUME RegistryInv, Onward, NEW own, ListsTrue(own), NEW i, NEW b,
         i \in Ids /\ b # NoAccount =>
             DOMAIN b = {"email", "session", "inbox"} /\ b.email = own[i] /\ Tells(own[i], b.inbox),
         accounts' = accounts \/ accounts' = [accounts EXCEPT ![i] = b]
  PROVE  \A j \in Ids : RowTrue(own, j)'
  <1>1. ASSUME NEW j \in Ids, accounts'[j] = accounts[j] PROVE RowTrue(own, j)'
    BY <1>1, StillTrue DEF ListsTrue, RowTrue
  <1>2. ASSUME i \in Ids, accounts'[i] = b PROVE RowTrue(own, i)'
    BY <1>2, StillTrue DEF RowTrue
  <1>3. DOMAIN accounts = Ids
    BY DEF RegistryInv, Shapes
  <1>4. \A j \in Ids : accounts'[j] = accounts[j] \/ (j = i /\ accounts'[j] = b)
    BY <1>3
  <1> QED  BY <1>1, <1>2, <1>4

LEMMA UpsertTrue ==
  ASSUME RegistryInv, Onward, NEW own, ListsTrue(own), NEW i, NEW s, NEW m, NEW a,
         a = own[i], Tells(a, m), Upsert(i, a, s, m)
  PROVE  (\A j \in Ids : RowTrue(own, j)') /\ selected' \in Ids \cup {None}
  <1> DEFINE b == [email |-> a, session |-> s, inbox |-> m]
  <1>1. /\ DOMAIN b = {"email", "session", "inbox"} /\ b.email = own[i] /\ Tells(own[i], b.inbox)
        /\ accounts' = accounts \/ accounts' = [accounts EXCEPT ![i] = b]
    BY DEF Upsert
  <1> HIDE DEF b
  <1>2. selected' \in Ids \cup {None}
    BY DEF Upsert, ListsTrue
  <1> QED  BY <1>1, <1>2, RowSet

LEMMA UpsertFetchTrue ==
  ASSUME RegistryInv, Onward, NEW own, ListsTrue(own), NEW i, NEW s, NEW m, NEW a,
         Fits(own, i, a), Tells(a, m), UpsertAndFetch(i, a, s, m), UNCHANGED <<account, mailbox>>
  PROVE  ListsTrue(own)' /\ Asks(own)
  <1>1. CASE UNCHANGED <<accounts, selected, commands>>
    BY <1>1, ListsStay DEF Asks
  <1>2. CASE Upsert(i, a, s, m) /\ RequestSendAs(i, a)
    <2>1. ListsTrue(own)'
      <3>1. (\A j \in Ids : RowTrue(own, j)') /\ selected' \in Ids \cup {None}
        BY <1>2, UpsertTrue DEF Fits
      <3>2. Tells(account, mailbox)'
        BY StillTrue DEF ListsTrue, Tells
      <3> QED  BY <3>1, <3>2 DEF ListsTrue
    <2> DEFINE c == [type |-> "SendAs", id |-> i, email |-> a, req |-> 0]
    <2>2. commands' \in {commands, Append(commands, c)}
      BY <1>2 DEF RequestSendAs
    <2>3. CommandTrue(own, c)'
      BY StillTrue DEF CommandTrue
    <2> HIDE DEF c
    <2> QED  BY <2>1, <2>2, <2>3 DEF Asks
  <1> QED  BY <1>1, <1>2 DEF UpsertAndFetch

\* One field of a listed row, not its identity, is changed.
LEMMA FieldTrue ==
  ASSUME RegistryInv, Onward, NEW own, ListsTrue(own), NEW i \in Ids, accounts[i] # NoAccount, NEW s,
         \/ accounts' = [accounts EXCEPT ![i].session = s]
         \/ accounts' = [accounts EXCEPT ![i].inbox = s] /\ Tells(own[i], s),
         selected' \in Ids \cup {None}, Tells(account, mailbox)'
  PROVE  ListsTrue(own)'
  <1>1. /\ DOMAIN accounts[i] = {"email", "session", "inbox"} /\ DOMAIN accounts = Ids
        /\ accounts[i].email = own[i] /\ Tells(own[i], accounts[i].inbox)
    BY DEF ListsTrue, RowTrue, RegistryInv, Shapes
  <1>2. PICK b : /\ accounts' = [accounts EXCEPT ![i] = b]
                 /\ DOMAIN b = {"email", "session", "inbox"} /\ b.email = own[i] /\ Tells(own[i], b.inbox)
    <2>1. CASE accounts' = [accounts EXCEPT ![i].session = s]
      <3> DEFINE b == [accounts[i] EXCEPT !.session = s]
      <3>1. /\ accounts' = [accounts EXCEPT ![i] = b]
            /\ DOMAIN b = {"email", "session", "inbox"} /\ b.email = own[i] /\ Tells(own[i], b.inbox)
        BY <1>1, <2>1
      <3> HIDE DEF b
      <3> QED  BY <3>1
    <2>2. CASE accounts' = [accounts EXCEPT ![i].inbox = s] /\ Tells(own[i], s)
      <3> DEFINE b == [accounts[i] EXCEPT !.inbox = s]
      <3>1. /\ accounts' = [accounts EXCEPT ![i] = b]
            /\ DOMAIN b = {"email", "session", "inbox"} /\ b.email = own[i] /\ Tells(own[i], b.inbox)
        BY <1>1, <2>2
      <3> HIDE DEF b
      <3> QED  BY <3>1
    <2> QED  BY <2>1, <2>2
  <1>3. \A j \in Ids : RowTrue(own, j)'
    BY <1>2, RowSet
  <1> QED  BY <1>3 DEF ListsTrue

LEMMA RestoredTrue ==
  ASSUME Onward, NEW own, ListsTrue(own), NEW e, e.type = "Restored", EventTrue(own, e), RestoredEvent(e)
  PROVE  ListsTrue(own)' /\ Asks(own)
  <1> DEFINE b(i) == [email |-> e.rows[i], session |-> "Ready", inbox |-> e.inboxes[i]]
  <1>1. PICK new \in Restorable(e.rows) :
           /\ accounts' = [i \in Ids |-> IF i \in new THEN b(i) ELSE accounts[i]]
           /\ selected' \in {selected, None} /\ UNCHANGED <<account, mailbox, commands>>
    BY DEF RestoredEvent, signedIn
  <1>2. \A i \in new : i \in Ids /\ e.rows[i] # None
    BY DEF Restorable, Rows
  <1>3. ASSUME NEW i \in Ids PROVE RowTrue(own, i)'
    <2>1. CASE i \in new
      <3>1. e.rows[i] = own[i] /\ Tells(own[i], e.inboxes[i]) /\ accounts'[i] = b(i)
        BY <1>1, <1>2, <2>1 DEF EventTrue
      <3>2. /\ DOMAIN b(i) = {"email", "session", "inbox"} /\ b(i).email = own[i]
            /\ Tells(own[i], b(i).inbox)
        BY <3>1
      <3> HIDE DEF b
      <3> QED  BY <3>1, <3>2, StillTrue DEF RowTrue
    <2>2. CASE i \notin new
      <3>1. accounts'[i] = accounts[i]
        BY <1>1, <2>2
      <3> QED  BY <3>1, StillTrue DEF RowTrue, ListsTrue
    <2> QED  BY <2>1, <2>2
  <1>4. selected' \in Ids \cup {None} /\ Tells(account, mailbox)'
    BY <1>1, StillTrue DEF ListsTrue
  <1> QED  BY <1>1, <1>3, <1>4 DEF ListsTrue, Asks

LEMMA ProjectionTrue ==
  ASSUME RegistryInv, Onward, NEW own, ListsTrue(own), NEW e, EventTrue(own, e), ProjectionEvent(e),
         e.id \in Ids
  PROVE  ListsTrue(own)' /\ Asks(own)
  <1>1. UNCHANGED <<account, mailbox>> /\ Tells(account, mailbox)'
    BY StillTrue DEF ProjectionEvent, signedIn, ListsTrue
  <1>2. CASE e.type = "AccountSynced" /\ SyncedEvent(e)
    BY <1>1, <1>2, UpsertFetchTrue DEF SyncedEvent, EventTrue
  <1>3. CASE RemovedEvent(e)
    <2>1. /\ accounts' = [accounts EXCEPT ![e.id] = NoAccount] /\ selected' \in Ids \cup {None}
          /\ commands' = commands
      BY <1>3 DEF RemovedEvent, ListsTrue
    <2>2. \A j \in Ids : RowTrue(own, j)'
      BY <2>1, RowSet
    <2> QED  BY <1>1, <2>1, <2>2 DEF ListsTrue, Asks
  <1>4. CASE OperationFailedEvent(e)
    <2>1. CASE e.id \in Listed
      <3>1. PICK s : accounts' = [accounts EXCEPT ![e.id].session = s]
        BY <1>4, <2>1 DEF OperationFailedEvent
      <3>2. accounts[e.id] # NoAccount /\ selected' \in Ids \cup {None} /\ commands' = commands
        BY <1>4, <2>1 DEF OperationFailedEvent, Listed, ListsTrue
      <3> QED  BY <1>1, <3>1, <3>2, FieldTrue DEF Asks
    <2>2. CASE e.id \notin Listed
      BY <1>1, <1>4, <2>2, ListsStay DEF OperationFailedEvent, Asks
    <2> QED  BY <2>1, <2>2
  <1> QED  BY <1>2, <1>3, <1>4 DEF ProjectionEvent

LEMMA SingletonTrue ==
  ASSUME RegistryInv, Onward, NEW own, ListsTrue(own), NEW e, EventTrue(own, e), SingletonEvent(e)
  PROVE  ListsTrue(own)' /\ Asks(own)
  <1>1. CASE e.type = "Restored" /\ RestoredEvent(e)
    BY <1>1, RestoredTrue
  <1>2. CASE IdentityEvent(e) \/ EndEvent(e)
    <2>1. UNCHANGED <<accounts, selected, commands>> /\ Tells(account, mailbox)'
      BY <1>2, StillTrue DEF IdentityEvent, EndEvent, ListsTrue, Tells
    <2> QED  BY <2>1, StillTrue DEF ListsTrue, RowTrue, Asks
  <1>3. CASE e.type = "LegacyRegistered" /\ RegisteredEvent(e)
    <2>1. CASE account = e.email
      BY <1>3, <2>1, UpsertFetchTrue DEF RegisteredEvent, signedIn, EventTrue, ListsTrue
    <2>2. CASE account # e.email
      BY <1>3, <2>2, ListsStay DEF RegisteredEvent, signedIn, Asks
    <2> QED  BY <2>1, <2>2
  <1>4. CASE e.type = "SyncComplete" /\ SyncCompleteEvent(e)
    <2>1. Tells(e.email, e.inbox) /\ Tells(account, mailbox)' /\ commands' = commands
      BY <1>4, StillTrue DEF SyncCompleteEvent, EventTrue, Tells
    <2>2. (\A j \in Ids : RowTrue(own, j)') /\ selected' \in Ids \cup {None}
      <3>1. CASE accounts' = accounts /\ selected' \in {selected, None}
        BY <3>1, StillTrue DEF RowTrue, ListsTrue
      <3>2. ASSUME NEW i \in Listed, accounts[i].email = e.email, Upsert(i, e.email, "Ready", e.inbox)
            PROVE  (\A j \in Ids : RowTrue(own, j)') /\ selected' \in Ids \cup {None}
        <4>1. e.email = own[i]
          BY <3>2 DEF Listed, ListsTrue, RowTrue
        <4> QED  BY <2>1, <3>2, <4>1, UpsertTrue
      <3> QED  BY <1>4, <3>1, <3>2 DEF SyncCompleteEvent, Mirror
    <2> QED  BY <2>1, <2>2 DEF ListsTrue, Asks
  <1> QED  BY <1>1, <1>2, <1>3, <1>4 DEF SingletonEvent

LEMMA ScopedTrue ==
  ASSUME RegistryInv, Onward, NEW own, ListsTrue(own), NEW e, EventTrue(own, e), ScopedEvent(e)
  PROVE  ListsTrue(own)' /\ Asks(own)
  <1>1. UNCHANGED <<selected, account, mailbox, commands>>
    BY DEF ScopedEvent, signedIn
  <1>2. CASE accounts' = accounts
    BY <1>1, <1>2, ListsStay DEF Asks
  <1>3. CASE /\ e.type = "Archive" /\ e.ok /\ ~e.stays /\ accounts[e.id].inbox = "Mail"
             /\ accounts' = [accounts EXCEPT ![e.id].inbox = "Empty"]
    <2>1. e.id \in Ids /\ Tells(own[e.id], "Empty") /\ accounts[e.id] # NoAccount
      BY <1>3 DEF EventTrue, RegistryInv, Shapes, Tells, NoAccount
    <2>2. selected' \in Ids \cup {None} /\ Tells(account, mailbox)'
      BY <1>1, StillTrue DEF ListsTrue
    <2> QED  BY <1>1, <1>3, <2>1, <2>2, FieldTrue DEF Asks
  <1> QED  BY <1>2, <1>3 DEF ScopedEvent, SendAsEvent, MutatedEvent

\* The worker is where it was.
LEMMA WorkerIdle ==
  ASSUME Onward, NEW own, DiskTrue(own), WorkTrue(own), UNCHANGED <<registry, cache, worker>>
  PROVE  DiskTrue(own)' /\ WorkTrue(own)'
  <1>1. UNCHANGED <<addTask, tasks, strays, fetches>>
    BY DEF worker
  <1> QED  BY <1>1, DiskStays, WorkStays

LEMMA DeliverTrue ==
  ASSUME RegistryInv, NEW own, Held(own), Deliver
  PROVE  Held(own)'
  <1>0. PICK e : e = Head(events)
    OBVIOUS
  <1>1. /\ events # <<>> /\ events' = Tail(events) /\ UNCHANGED <<registry, cache, worker>> /\ Onward
    BY DEF Deliver, disk, seen, Onward, RegistryInv, Shapes
  <1>2. /\ EventTrue(own, e)
        /\ e.type \in OfProjection => e.id \in Ids
    <2>1. IsSeq(events)
      BY DEF RegistryInv, Turns, Orderly
    <2> QED  BY <1>0, <1>1, <2>1, TailIs, EventTaken DEF Held, EventsTrue, RegistryInv
  <1>3. ListsTrue(own)' /\ Asks(own)
    <2>1. CASE ScopedEvent(e)
      BY <1>1, <1>2, <2>1, ScopedTrue DEF Held
    <2>2. CASE AddEvent(e)
      <3>1. UNCHANGED <<account, mailbox>> /\ ListsTrue(own)
        BY <2>2 DEF AddEvent, signedIn, Held
      <3>2. CASE e.type = "AccountAdded"
        <4>1. Fits(own, e.id, e.email) /\ Tells(e.email, e.inbox)
          BY <1>2, <3>2 DEF EventTrue
        <4> QED  BY <1>1, <2>2, <3>1, <3>2, <4>1, UpsertFetchTrue DEF AddEvent
      <3>3. CASE e.type # "AccountAdded"
        BY <1>1, <2>2, <3>1, <3>3, ListsStay DEF AddEvent, Asks
      <3> QED  BY <3>2, <3>3
    <2>3. CASE ProjectionEvent(e)
      <3>1. e.type \in OfProjection
        BY <2>3 DEF ProjectionEvent, OfProjection
      <3> QED  BY <1>1, <1>2, <2>3, <3>1, ProjectionTrue DEF Held
    <2>4. CASE SingletonEvent(e)
      BY <1>1, <1>2, <2>4, SingletonTrue DEF Held
    <2>5. CASE UNCHANGED <<accounts, signedIn, selected, commands>>
      BY <1>1, <2>5, ListsStay DEF Held, signedIn, Asks
    <2> QED  BY <1>0, <2>1, <2>2, <2>3, <2>4, <2>5 DEF Deliver
  <1>4. CommandsTrue(own)' /\ EventsTrue(own)'
    BY <1>1, <1>3, CommandsStay, EventsStay DEF Held
  <1> QED  BY <1>1, <1>3, <1>4, WorkerIdle DEF Held

LEMMA StartHeld == Init => HideInv
  <1> SUFFICES ASSUME Init PROVE HideInv
    OBVIOUS
  <1>0. PICK own : own = registry
    OBVIOUS
  <1>1. DOMAIN own = Ids
    BY <1>0 DEF Init
  <1>2. ListsTrue(own) /\ DiskTrue(own)
    BY <1>0 DEF Init, NewAccounts, ListsTrue, RowTrue, DiskTrue, Tells
  <1>3. WorkTrue(own)
    BY DEF Init, NoTask, WorkTrue, AddTrue, TaskTrue, Before
  <1> DEFINE c == [type |-> "Restore", op |-> 1]
  <1>4. commands = <<c>> /\ c.type \notin {"SendAs", "Archive"} /\ DOMAIN commands = {1} /\ commands[1] = c
    BY DEF Init
  <1> HIDE DEF c
  <1>5. CommandsTrue(own) /\ EventsTrue(own)
    BY <1>4 DEF Init, CommandsTrue, CommandTrue, EventsTrue
  <1> QED  BY <1>1, <1>2, <1>3, <1>5 DEF HideInv, Held

LEMMA RestartTrue ==
  ASSUME RegistryInv, NEW own, Held(own), Restart
  PROVE  Held(own)'
  <1>1. Onward /\ UNCHANGED <<registry, cache>>
    BY DEF Restart, disk, Onward, RegistryInv, Shapes
  <1>2. ListsTrue(own)' /\ DiskTrue(own)'
    BY <1>1, DiskStays DEF Held, Restart, NewAccounts, ListsTrue, RowTrue, Tells
  <1>3. WorkTrue(own)'
    BY DEF Restart, NoTask, WorkTrue, AddTrue, TaskTrue, Before
  <1> DEFINE c == [type |-> "Restore", op |-> nextOp]
  <1>4. commands' = <<c>> /\ c.type \notin {"SendAs", "Archive"}
    BY DEF Restart
  <1> HIDE DEF c
  <1>5. DOMAIN commands' = {1} /\ commands'[1] = c
    BY <1>4
  <1>6. CommandsTrue(own)' /\ EventsTrue(own)'
    BY <1>4, <1>5 DEF Restart, CommandsTrue, CommandTrue, EventsTrue
  <1> QED  BY <1>2, <1>3, <1>6 DEF Held

LEMMA PersonTrue ==
  ASSUME RegistryInv, NEW own, Held(own), Person
  PROVE  Held(own)'
  <1>1. UNCHANGED <<registry, cache, worker, events>> /\ Onward
    BY DEF Person, StartSync, StartAddAccount, ReconnectAccount, RemoveAccount, AccountOperation,
           SelectAccountMessage, CancelAdd, CancelSync, Disconnect, ArchiveSelected, disk, seen, Onward,
           RegistryInv, Shapes
  <1>2. SUFFICES ListsTrue(own)' /\ Asks(own)
    BY <1>1, <1>2, WorkerIdle, CommandsStay, EventsStay DEF Held, Told
  <1>3. ASSUME NEW c, c.type \notin {"SendAs", "Archive"}, Send(<<c>>) PROVE Asks(own)
    <2>1. CommandTrue(own, c)'
      BY <1>3 DEF CommandTrue
    <2>2. commands' = commands \o <<c>>
      BY <1>3 DEF Send
    <2> QED  BY <2>1, <2>2 DEF Asks
  <1>31. ASSUME NEW type, type \notin {"SendAs", "Archive"}, NEW op, Send(<<[type |-> type, op |-> op]>>)
         PROVE  Asks(own)
    <2> DEFINE c == [type |-> type, op |-> op]
    <2>1. c.type \notin {"SendAs", "Archive"} /\ Send(<<c>>)
      BY <1>31
    <2> HIDE DEF c
    <2> QED  BY <1>3, <2>1
  <1>32. ASSUME NEW type, type \notin {"SendAs", "Archive"}, NEW op, NEW i,
                Send(<<[type |-> type, op |-> op, id |-> i]>>)
         PROVE  Asks(own)
    <2> DEFINE c == [type |-> type, op |-> op, id |-> i]
    <2>1. c.type \notin {"SendAs", "Archive"} /\ Send(<<c>>)
      BY <1>32
    <2> HIDE DEF c
    <2> QED  BY <1>3, <2>1
  <1>4. ListsTrue(own)
    BY DEF Held
  <1>5. CASE UNCHANGED <<accounts, selected, account, mailbox>> /\ ~Disconnect
    <2>1. ListsTrue(own)'
      BY <1>1, <1>4, <1>5, ListsStay
    <2>2. CASE ArchiveSelected
      <3> DEFINE c == [type |-> "Archive", id |-> selected, email |-> accounts[selected].email,
                       req |-> archives']
      <3>1. selected \in Ids /\ accounts[selected] # NoAccount /\ Send(<<c>>)
        BY <1>4, <2>2 DEF ArchiveSelected, Shown, NoAccount, ListsTrue
      <3>2. Fits(own, selected, accounts[selected].email)
        BY <1>4, <3>1 DEF ListsTrue, RowTrue, Fits, RegistryInv, Hidden, Unknown
      <3>3. CommandTrue(own, c)
        BY <3>2 DEF CommandTrue
      <3> HIDE DEF c
      <3>4. PICK d : d = c
        OBVIOUS
      <3>5. CommandTrue(own, d)'
        BY <1>1, <3>3, <3>4, StillTrue
      <3> QED  BY <2>1, <3>1, <3>4, <3>5 DEF Send, Asks
    <2>3. ASSUME NEW kind \in {"Restore", "Connect"}, StartSync(kind) PROVE Asks(own)
      BY <1>31, <2>3 DEF StartSync
    <2>4. CASE StartAddAccount
      BY <1>31, <2>1, <2>4 DEF StartAddAccount
    <2>5. CASE CancelAdd \/ CancelSync
      BY <1>31, <2>1, <2>5 DEF CancelAdd, CancelSync
    <2>6. ASSUME NEW i \in Ids, SelectAccountMessage(i) PROVE Asks(own)
      BY <2>6 DEF SelectAccountMessage, Asks
    <2>7. ASSUME NEW i \in Ids, ReconnectAccount(i) \/ RemoveAccount(i) PROVE Asks(own)
      BY <1>32, <2>7 DEF ReconnectAccount, RemoveAccount, AccountOperation
    <2> QED  BY <1>5, <2>1, <2>2, <2>3, <2>4, <2>5, <2>6, <2>7 DEF Person
  <1>6. CASE Disconnect
    <2>1. UNCHANGED <<accounts, selected>> /\ Tells(account, mailbox)' /\ Asks(own)
      BY <1>31, <1>6 DEF Disconnect, Tells
    <2> QED  BY <1>1, <1>4, <2>1, StillTrue DEF ListsTrue, RowTrue
  <1>7. ASSUME NEW i \in Ids, SelectAccountMessage(i) PROVE ListsTrue(own)' /\ Asks(own)
    <2>1. UNCHANGED <<accounts, account, mailbox, commands>> /\ selected' = i
      BY <1>7 DEF SelectAccountMessage, signedIn
    <2> QED  BY <1>1, <1>4, <2>1, StillTrue DEF ListsTrue, RowTrue, Asks
  <1>8. ASSUME NEW i \in Ids, NEW type \in OfAccount, NEW s, AccountOperation(type, i, s)
        PROVE  ListsTrue(own)' /\ Asks(own)
    <2>1. Asks(own)
      BY <1>32, <1>8 DEF AccountOperation, OfAccount
    <2>2. /\ accounts' = [accounts EXCEPT ![i].session = s] /\ accounts[i] # NoAccount
          /\ selected' \in Ids \cup {None} /\ Tells(account, mailbox)'
      BY <1>1, <1>4, <1>8, StillTrue DEF AccountOperation, signedIn, Listed, ListsTrue
    <2> QED  BY <1>1, <1>4, <2>1, <2>2, FieldTrue
  <1>9. CASE \/ ArchiveSelected \/ StartAddAccount \/ CancelAdd \/ CancelSync
             \/ \E kind \in {"Restore", "Connect"} : StartSync(kind)
    <2>1. UNCHANGED <<accounts, selected, account, mailbox>>
      BY <1>9 DEF ArchiveSelected, StartAddAccount, CancelAdd, CancelSync, StartSync, ui, signedIn
    <2>2. CASE ~Disconnect
      BY <1>5, <2>1, <2>2
    <2> QED  BY <1>6, <2>2
  <1> QED  BY <1>6, <1>7, <1>8, <1>9 DEF Person, ReconnectAccount, RemoveAccount, OfAccount

LEMMA ControllerTrue ==
  ASSUME RegistryInv, NEW own, Held(own), Controller
  PROVE  Held(own)'
  <1>0. PICK c : c = Head(commands)
    OBVIOUS
  <1>1. /\ commands # <<>> /\ commands' = Tail(commands)
        /\ UNCHANGED <<registry, cache, accounts, selected, account, mailbox>> /\ Onward
    BY DEF Controller, AddCommand, ReconnectCommand, RemoveCommand, CancelAddCommand, SingletonCommand,
           FetchCommand, disk, ui, signedIn, Onward, RegistryInv, Shapes
  <1>2. CommandTrue(own, c) /\ DOMAIN tasks = Ids
    <2>1. IsSeq(commands)
      BY DEF RegistryInv, Turns, Orderly
    <2> QED  BY <1>0, <1>1, <2>1, TailIs DEF Held, CommandsTrue, RegistryInv, Shapes
  <1>3. WorkTrue(own)' /\ Told(own)
    <2>1. CASE AddCommand(c)
      <3>1. /\ UNCHANGED <<tasks, fetches, strays>>
            /\ addTask' = addTask \/ addTask'.pc = "browser"
            /\ events' = events \/ Emit(<<Answer("Failed", c.op)>>)
        BY <2>1 DEF AddCommand
      <3>2. addTask'.pc = "browser" => AddTrue(own)'
        BY DEF AddTrue, Before
      <3>3. Told(own)
        BY <3>1, AnswersTold DEF Told, Weighty
      <3> QED  BY <1>1, <3>1, <3>2, <3>3, WorkStays DEF Held
    <2>2. CASE ReconnectCommand(c)
      <3> DEFINE e == [type |-> "OperationFailed", op |-> c.op, id |-> c.id]
      <3>1. /\ UNCHANGED <<addTask, fetches, strays>>
            /\ tasks' = tasks \/ tasks' = [tasks EXCEPT ![c.id] = AccountTask(c, "sign")]
            /\ events' = events \/ Emit(<<e>>)
            /\ e.type \notin Weighty
        BY <2>2 DEF ReconnectCommand, Weighty
      <3> HIDE DEF e
      <3>2. \A i \in Ids : tasks'[i] = tasks[i] \/ tasks'[i].pc = "sign"
        BY <1>2, <3>1 DEF AccountTask
      <3>3. \A i \in Ids : tasks'[i].pc = "sign" => TaskTrue(own, i)'
        BY DEF TaskTrue
      <3>4. Told(own)
        BY <3>1, LightlyTold DEF Told
      <3> QED  BY <1>1, <3>1, <3>2, <3>3, <3>4, WorkStays DEF Held
    <2>3. CASE c.type = "RemoveAccount" /\ RemoveCommand(c)
      <3>1. ~Running(tasks[c.id])
        BY <1>0, <1>1, <2>3, CommandTaken DEF RegistryInv, Turns, OneAtATime, OfAccount
      <3>2. /\ UNCHANGED <<addTask, fetches, strays, events>>
            /\ tasks' = [tasks EXCEPT ![c.id] = AccountTask(c, "NoCache")]
        BY <2>3, <3>1 DEF RemoveCommand
      <3>3. \A i \in Ids : tasks'[i] = tasks[i] \/ tasks'[i].pc = "NoCache"
        BY <1>2, <3>2 DEF AccountTask
      <3>4. \A i \in Ids : tasks'[i].pc = "NoCache" => TaskTrue(own, i)'
        BY DEF TaskTrue
      <3> QED  BY <1>1, <3>2, <3>3, <3>4, WorkStays DEF Held, Told
    <2>4. CASE CancelAddCommand(c)
      <3>0. PICK a : a = WriteOf(addTask)
        OBVIOUS
      <3>1. /\ UNCHANGED <<tasks, fetches>> /\ addTask'.pc = "none"
            /\ \A w \in strays' : w \in strays \/ w = a
            /\ Emit(<<Answer("Cancelled", c.op)>>)
        BY <2>4, <3>0 DEF CancelAddCommand, NoTask, Abandoned
      <3>2. WriteTrue(own, a)
        BY <3>0 DEF Held, WorkTrue, AddTrue, WriteTrue, WriteOf, Fits, Before
      <3>3. AddTrue(own)' /\ WriteTrue(own, a)'
        BY <1>1, <3>1, <3>2, StillTrue DEF AddTrue, Before
      <3>4. Told(own)
        BY <3>1, AnswersTold DEF Weighty
      <3> QED  BY <1>1, <3>1, <3>3, <3>4, WorkStays DEF Held
    <2>5. CASE SingletonCommand(c)
      <3>1. /\ UNCHANGED <<addTask, tasks, fetches, strays>>
            /\ events' = events \/ Emit(<<Answer("Cancelled", c.op)>>)
        BY <2>5 DEF SingletonCommand
      <3>2. Told(own)
        BY <3>1, AnswersTold DEF Told, Weighty
      <3> QED  BY <1>1, <3>1, <3>2, WorkStays DEF Held
    <2>6. CASE c.type \in {"SendAs", "Archive"} /\ FetchCommand(c)
      <3> DEFINE g == [kind |-> c.type, id |-> c.id, email |-> c.email, req |-> c.req, pc |-> "sign"]
      <3>1. /\ UNCHANGED <<addTask, tasks, strays, events>> /\ fetches' = fetches \cup {g}
            /\ Fits(own, g.id, g.email)
        BY <1>2, <2>6 DEF FetchCommand, CommandTrue
      <3> HIDE DEF g
      <3>2. \A f \in fetches' : f \in fetches \/ Fits(own, f.id, f.email)'
        BY <1>1, <3>1, StillTrue
      <3> QED  BY <1>1, <3>1, <3>2, WorkStays DEF Held, Told
    <2> QED  BY <1>0, <2>1, <2>2, <2>3, <2>4, <2>5, <2>6 DEF Controller
  <1>4. CommandsTrue(own)' /\ EventsTrue(own)'
    BY <1>1, <1>3, CommandsStay, EventsStay DEF Held
  <1> QED  BY <1>1, <1>3, <1>4, ListsStay, DiskStays DEF Held

\* The window and its commands are where they were.
LEMMA Unshown ==
  ASSUME RegistryInv, Onward, NEW own, Held(own), UNCHANGED <<ui, commands>>,
         DiskTrue(own)', WorkTrue(own)', Told(own)
  PROVE  Held(own)'
  <1>1. UNCHANGED <<accounts, selected, account, mailbox>> /\ Asks(own)
    BY DEF ui, signedIn, Asks
  <1> QED  BY <1>1, ListsStay, CommandsStay, EventsStay DEF Held

\* What is stored stays true.
LEMMA StoredTrue ==
  ASSUME RegistryInv, Onward, NEW own, DiskTrue(own), NEW w, WriteTrue(own, w), Store(w)
  PROVE  DiskTrue(own)'
  <1>1. DOMAIN registry = Ids /\ DOMAIN cache = Ids
    BY DEF RegistryInv, Shapes
  <1>2. \A i \in Ids : registry'[i] \in {None, own[i]}
    BY <1>1, StoreIs DEF DiskTrue, WriteTrue, Fits, Store
  <1>3. \A i \in Ids : Tells(own[i], cache'[i])
    BY <1>1 DEF DiskTrue, WriteTrue, Store, Tells
  <1> QED  BY <1>2, <1>3, StillTrue DEF DiskTrue

LEMMA StrayTrue ==
  ASSUME RegistryInv, NEW own, Held(own), NEW w \in strays, Stray(w)
  PROVE  Held(own)'
  <1>1. /\ UNCHANGED <<ui, commands, events, addTask, tasks, fetches>> /\ Onward
        /\ strays' \subseteq strays
        /\ Store(w) \/ UNCHANGED disk
    BY DEF Stray, seen, Onward, RegistryInv, Shapes
  <1>2. WriteTrue(own, w) /\ WorkTrue(own) /\ DiskTrue(own)
    BY DEF Held, WorkTrue
  <1>3. DiskTrue(own)'
    BY <1>1, <1>2, StoredTrue, DiskStays DEF disk
  <1>4. WorkTrue(own)'
    BY <1>1, <1>2, WorkStays
  <1> QED  BY <1>1, <1>3, <1>4, Unshown DEF Told

LEMMA AddBeginTrue ==
  ASSUME RegistryInv, WholeInv, NEW own, DOMAIN own = Ids, Held(own), AddBrowser \/ AddCheck
  PROVE  HideInv'
  <1>1. /\ UNCHANGED <<disk, strays, tasks, fetches, ui, commands>> /\ Onward /\ UNCHANGED gmail
        /\ DOMAIN addTask = TaskFields
    BY DEF AddBrowser, AddCheck, AddOnly, Onward, RegistryInv, Shapes, Running
  <1>2. ASSUME NEW o, DOMAIN o = Ids, Held(o), AddTrue(o)', Told(o) PROVE HideInv'
    <2>1. DiskTrue(o)' /\ WorkTrue(o)'
      BY <1>1, <1>2, DiskStays, WorkStays DEF disk, Held
    <2> QED  BY <1>1, <1>2, <2>1, Unshown DEF HideInv
  <1>3. CASE addTask'.pc \notin Before /\ Told(own)
    BY <1>2, <1>3 DEF AddTrue
  <1>4. CASE AddEnds(<<Answer("Failed", addTask.op)>>)
             \/ AddEnds(<<Answer("DuplicateAccountIdentity", addTask.op)>>)
    BY <1>1, <1>3, <1>4, AnswersTold DEF AddEnds, TaskFields, Before, Weighty
  <1>5. ASSUME NEW e, addTask' = [addTask EXCEPT !.pc = "check", !.email = e], UNCHANGED events
        PROVE  HideInv'
    BY <1>1, <1>3, <1>5 DEF TaskFields, Before, Told
  <1>6. ASSUME NEW i \in Ids \ used, used' = used \cup {i}, UNCHANGED events,
               addTask' = [addTask EXCEPT !.pc = "Token", !.id = i, !.inbox = InboxOf(addTask.email)]
        PROVE  HideInv'
    <2>1. PICK a : a = addTask.email
      OBVIOUS
    <2>2. PICK o : o = [own EXCEPT ![i] = a]
      OBVIOUS
    <2>3. DOMAIN o = Ids /\ Held(o) /\ o[i] = a
      BY <2>2, Undecided
    <2>4. /\ addTask'.id = i /\ addTask'.email = a
          /\ addTask'.inbox = IF a \in gmail THEN "Mail" ELSE "Empty"
      BY <1>1, <1>6, <2>1 DEF TaskFields, InboxOf
    <2>5. i \in used' /\ gmail' = gmail
      BY <1>1, <1>6
    <2>6. AddTrue(o)'
      BY <2>3, <2>4, <2>5 DEF AddTrue, Fits, Tells
    <2> QED  BY <1>2, <1>6, <2>3, <2>6 DEF Told
  <1> QED  BY <1>4, <1>5, <1>6 DEF AddBrowser, AddCheck

LEMMA AddWriteTrue ==
  ASSUME RegistryInv, NEW own, Held(own), AddWrite
  PROVE  Held(own)'
  <1>0. PICK w : w = WriteOf(addTask)
    OBVIOUS
  <1>1. /\ UNCHANGED <<tasks, fetches, ui, commands>> /\ Onward
        /\ DOMAIN addTask = TaskFields
        /\ addTask.pc \in {"Token", "Cache", "Record", "NoCache", "NoToken"}
    BY DEF AddWrite, AddOnly, Onward, RegistryInv, Shapes, Running
  <1>2. /\ w.do = addTask.pc /\ w.id = addTask.id /\ w.email = addTask.email /\ w.inbox = addTask.inbox
        /\ addTask.pc \in Before => Fits(own, w.id, w.email) /\ Tells(w.email, w.inbox)
    BY <1>0 DEF WriteOf, Held, WorkTrue, AddTrue
  <1>3. WriteTrue(own, w)
    BY <1>2 DEF WriteTrue, Fits, Before
  <1>4. /\ \A v \in strays' : v \in strays \/ v = w
        /\ Store(w) \/ UNCHANGED disk
    BY <1>0 DEF AddWrite, Fails
  <1>5. DiskTrue(own)'
    BY <1>1, <1>3, <1>4, StoredTrue, DiskStays DEF disk, Held
  <1>6. PICK pc : addTask' = [addTask EXCEPT !.pc = pc]
    BY DEF AddWrite, AddEnds
  <1>7. /\ addTask'.pc = pc /\ addTask'.id = w.id /\ addTask'.email = w.email /\ addTask'.inbox = w.inbox
    BY <1>1, <1>2, <1>6 DEF TaskFields
  <1>8. pc \in Before => addTask.pc \in Before
    <2>1. \A p : addTask' = [addTask EXCEPT !.pc = p] => pc = p
      BY <1>1, <1>7 DEF TaskFields
    <2>2. \/ pc = "done"
          \/ addTask.pc \in DOMAIN AddNext /\ pc = AddNext[addTask.pc]
          \/ addTask.pc \in DOMAIN AddUndo /\ pc = AddUndo[addTask.pc]
      BY <2>1 DEF AddWrite, AddEnds
    <2> QED  BY <1>1, <2>2 DEF AddNext, AddUndo, Before
  <1>9. /\ WriteTrue(own, w)'
        /\ addTask.pc \in Before => Fits(own, w.id, w.email)' /\ Tells(w.email, w.inbox)'
    BY <1>1, <1>2, <1>3, StillTrue
  <1>10. AddTrue(own)'
    BY <1>7, <1>8, <1>9 DEF AddTrue, Fits, Tells
  <1>11. WorkTrue(own)'
    BY <1>1, <1>4, <1>9, <1>10, WorkStays DEF Held
  <1>12. Told(own)
    <2>1. CASE AddEnds(<<Answer("Failed", addTask.op)>>)
      BY <2>1, AnswersTold DEF AddEnds, Weighty
    <2>2. CASE UNCHANGED events
      BY <2>2 DEF Told
    <2>3. CASE /\ addTask.pc = "Record"
               /\ AddEnds(<<[type |-> "AccountAdded", op |-> addTask.op, id |-> addTask.id,
                             email |-> addTask.email, inbox |-> addTask.inbox]>>)
      <3> DEFINE e == [type |-> "AccountAdded", op |-> addTask.op, id |-> addTask.id,
                       email |-> addTask.email, inbox |-> addTask.inbox]
      <3>1. e.type = "AccountAdded" /\ e.id = w.id /\ e.email = w.email /\ e.inbox = w.inbox /\ Emit(<<e>>)
        BY <1>2, <2>3 DEF AddEnds
      <3> HIDE DEF e
      <3>2. EventTrue(own, e)
        BY <1>2, <2>3, <3>1 DEF EventTrue, Before
      <3>3. PICK d : d = e
        OBVIOUS
      <3>4. EventTrue(own, d)'
        BY <1>1, <3>2, <3>3, StillTrue
      <3> QED  BY <3>1, <3>3, <3>4 DEF Told
    <2> QED  BY <1>1, <2>1, <2>2, <2>3 DEF AddWrite, AddNext
  <1> QED  BY <1>1, <1>5, <1>11, <1>12, Unshown

LEMMA ReconnectTrue ==
  ASSUME RegistryInv, NEW own, Held(own), NEW i \in Ids, ReconnectSign(i) \/ ReconnectFetch(i)
  PROVE  Held(own)'
  <1>1. /\ UNCHANGED <<disk, addTask, fetches, strays, ui, commands, gmail>> /\ Onward
        /\ DOMAIN tasks = Ids /\ DOMAIN tasks[i] = TaskFields
    BY DEF ReconnectSign, ReconnectFetch, TaskOnly, Onward, RegistryInv, Shapes, Running
  <1>2. ASSUME \A j \in Ids \ {i} : tasks'[j] = tasks[j], TaskTrue(own, i)', Told(own)
        PROVE  Held(own)'
    <2>1. DiskTrue(own)' /\ WorkTrue(own)'
      BY <1>1, <1>2, DiskStays, WorkStays DEF disk, Held
    <2> QED  BY <1>1, <1>2, <2>1, Unshown
  <1>3. ASSUME NEW type \in {"OperationExpired", "OperationFailed"}, TaskFails(i, type) PROVE Held(own)'
    <2> DEFINE e == [type |-> type, op |-> tasks[i].op, id |-> i]
    <2>1. e.type \notin Weighty /\ Emit(<<e>>) /\ tasks' = [tasks EXCEPT ![i] = NoTask]
      BY <1>3 DEF TaskFails, TaskEnds, Weighty
    <2> HIDE DEF e
    <2>2. (\A j \in Ids \ {i} : tasks'[j] = tasks[j]) /\ tasks'[i].pc = "none"
      BY <1>1, <2>1 DEF NoTask
    <2> QED  BY <1>2, <2>1, <2>2, LightlyTold DEF TaskTrue
  <1>4. ASSUME registry[i] # None, UNCHANGED events, NEW pc \in {"Token", "fetch"},
               tasks' = [tasks EXCEPT ![i].pc = pc, ![i].email = registry[i]]
        PROVE  Held(own)'
    <2>1. /\ \A j \in Ids \ {i} : tasks'[j] = tasks[j]
          /\ tasks'[i].pc # "Cache" /\ tasks'[i].email = registry[i]
      BY <1>1, <1>4 DEF TaskFields
    <2>2. registry[i] = own[i]
      BY <1>4 DEF Held, DiskTrue
    <2> QED  BY <1>2, <1>4, <2>1, <2>2 DEF TaskTrue, Told
  <1>5. ASSUME tasks[i].pc = "fetch", UNCHANGED events,
               tasks' = [tasks EXCEPT ![i].pc = "Cache", ![i].inbox = InboxOf(tasks[i].email)]
        PROVE  Held(own)'
    <2>1. /\ \A j \in Ids \ {i} : tasks'[j] = tasks[j]
          /\ tasks'[i].email = tasks[i].email
          /\ tasks'[i].inbox = IF tasks[i].email \in gmail THEN "Mail" ELSE "Empty"
      BY <1>1, <1>5 DEF TaskFields, InboxOf
    <2>2. tasks[i].email = own[i]
      BY <1>5 DEF Held, WorkTrue, TaskTrue
    <2> QED  BY <1>1, <1>2, <1>5, <2>1, <2>2 DEF TaskTrue, Tells, Told
  <1> QED  BY <1>3, <1>4, <1>5 DEF ReconnectSign, ReconnectFetch

LEMMA TaskWriteTrue ==
  ASSUME RegistryInv, NEW own, Held(own), NEW i \in Ids, TaskWrite(i)
  PROVE  Held(own)'
  <1>0. PICK w : w = WriteOf(tasks[i])
    OBVIOUS
  <1>1. /\ UNCHANGED <<addTask, fetches, ui, commands>> /\ Onward
        /\ DOMAIN tasks = Ids /\ DOMAIN tasks[i] = TaskFields /\ i \in used
        /\ w.do = tasks[i].pc /\ w.id = i /\ w.inbox = tasks[i].inbox /\ tasks[i].pc # "Record"
    BY <1>0 DEF TaskWrite, TaskOnly, Onward, RegistryInv, Shapes, Running, WriteOf, Hidden, Unknown
  <1>2. WriteTrue(own, w)
    BY <1>1 DEF WriteTrue, Held, WorkTrue, TaskTrue
  <1>3. /\ \A v \in strays' : v \in strays \/ v = w
        /\ Store(w) \/ UNCHANGED disk
    BY <1>0 DEF TaskWrite, Fails
  <1>4. DiskTrue(own)'
    BY <1>1, <1>2, <1>3, StoredTrue, DiskStays DEF disk, Held
  <1>5. \A j \in Ids : tasks'[j] = tasks[j] \/ TaskTrue(own, j)'
    <2>1. CASE tasks' = [tasks EXCEPT ![i] = NoTask]
      <3>1. (\A j \in Ids : j # i => tasks'[j] = tasks[j]) /\ tasks'[i].pc = "none"
        BY <1>1, <2>1 DEF NoTask
      <3> QED  BY <3>1 DEF TaskTrue
    <2>2. CASE /\ tasks[i].pc \in DOMAIN TaskNext
               /\ tasks' = [tasks EXCEPT ![i].pc = TaskNext[tasks[i].pc]]
      <3>1. /\ \A j \in Ids : j # i => tasks'[j] = tasks[j]
            /\ tasks'[i].pc = TaskNext[tasks[i].pc] /\ tasks'[i].email = tasks[i].email
        BY <1>1, <2>2 DEF TaskFields
      <3>2. /\ tasks'[i].pc \in {"fetch", "NoToken", "NoRecord"}
            /\ tasks'[i].pc = "fetch" => tasks[i].pc = "Token"
        BY <2>2, <3>1 DEF TaskNext
      <3>3. tasks[i].pc = "Token" => tasks[i].email = own[i]
        BY DEF Held, WorkTrue, TaskTrue
      <3> QED  BY <3>1, <3>2, <3>3 DEF TaskTrue
    <2> QED  BY <2>1, <2>2 DEF TaskWrite, TaskEnds, TaskFails
  <1>6. WorkTrue(own)'
    <2>1. WriteTrue(own, w)'
      BY <1>1, <1>2, StillTrue
    <2> QED  BY <1>1, <1>3, <1>5, <2>1, WorkStays DEF Held
  <1>7. Told(own)
    <2>1. ASSUME NEW type \in {"OperationFailed", "AccountRemoved"},
                 Emit(<<[type |-> type, op |-> tasks[i].op, id |-> i]>>)
          PROVE  Told(own)
      <3> DEFINE e == [type |-> type, op |-> tasks[i].op, id |-> i]
      <3>1. e.type \notin Weighty /\ Emit(<<e>>)
        BY <2>1 DEF Weighty
      <3> HIDE DEF e
      <3> QED  BY <3>1, LightlyTold
    <2>2. CASE UNCHANGED events
      BY <2>2 DEF Told
    <2>3. CASE /\ tasks[i].pc = "Cache"
               /\ Emit(<<[type |-> "AccountSynced", op |-> tasks[i].op, id |-> i,
                          email |-> tasks[i].email, inbox |-> tasks[i].inbox]>>)
      <3> DEFINE e == [type |-> "AccountSynced", op |-> tasks[i].op, id |-> i,
                       email |-> tasks[i].email, inbox |-> tasks[i].inbox]
      <3>1. e.type = "AccountSynced" /\ Fits(own, e.id, e.email) /\ Tells(e.email, e.inbox) /\ Emit(<<e>>)
        BY <1>1, <2>3 DEF Held, WorkTrue, TaskTrue, Fits
      <3> HIDE DEF e
      <3>2. EventTrue(own, e)
        BY <3>1 DEF EventTrue
      <3>3. PICK d : d = e
        OBVIOUS
      <3>4. EventTrue(own, d)'
        BY <1>1, <3>2, <3>3, StillTrue
      <3> QED  BY <3>1, <3>3, <3>4 DEF Told
    <2> QED  BY <2>1, <2>2, <2>3 DEF TaskWrite, TaskEnds, TaskFails
  <1> QED  BY <1>1, <1>4, <1>6, <1>7, Unshown

\* A fetch that ends with an answer that holds.
LEMMA FetchEndsTold ==
  ASSUME Onward, NEW own, NEW f, Fits(own, f.id, f.email), NEW ok \in BOOLEAN, NEW stays \in BOOLEAN,
         FetchEnds(f, ok, stays), f.kind \in {"SendAs", "Archive"},
         f.kind = "Archive" /\ ok /\ ~stays => f.email \notin gmail'
  PROVE  Told(own)
  <1> DEFINE e == [type |-> f.kind, op |-> 0, id |-> f.id, req |-> f.req,
                   ok |-> ok /\ f.kind # "SendAs", stays |-> stays]
  <1>1. /\ e.type = f.kind /\ e.id = f.id /\ Emit(<<e>>)
        /\ e.ok = (ok /\ f.kind # "SendAs") /\ e.stays = stays
    BY DEF FetchEnds
  <1> HIDE DEF e
  <1>2. f.id \in used' /\ f.email = own[f.id]
    BY StillTrue DEF Fits
  <1>3. PICK d : d = e
    OBVIOUS
  <1>4. EventTrue(own, d)'
    BY <1>1, <1>2, <1>3 DEF EventTrue
  <1> QED  BY <1>1, <1>3, <1>4 DEF Told

LEMMA FetchTrue ==
  ASSUME RegistryInv, NEW own, Held(own), NEW f \in fetches, FetchStep(f)
  PROVE  Held(own)'
  <1> DEFINE w == [do |-> "Token", id |-> f.id, email |-> f.email, inbox |-> "None"]
  <1>1. /\ UNCHANGED <<addTask, tasks, ui, commands>> /\ Onward
    BY DEF FetchStep, FetchSign, FetchRotate, FetchCall, FetchOnly, seen, Onward, RegistryInv, Shapes
  <1>2. IsFetch(f) /\ Fits(own, f.id, f.email)
    BY DEF RegistryInv, Shapes, Held, WorkTrue
  <1>3. /\ UNCHANGED disk \/ Store(w)
        /\ \A v \in strays' : v \in strays \/ v = w
    BY DEF FetchStep, FetchSign, FetchRotate, FetchCall
  <1>4. WriteTrue(own, w) /\ WriteTrue(own, w)'
    BY DEF WriteTrue
  <1> HIDE DEF w
  <1>5. DiskTrue(own)'
    BY <1>1, <1>3, <1>4, StoredTrue, DiskStays DEF disk, Held
  <1>6. \A g \in fetches' : g \in fetches \/ Fits(own, g.id, g.email)'
    <2>1. ASSUME NEW pc, fetches' = (fetches \ {f}) \cup {[f EXCEPT !.pc = pc]}
          PROVE  \A g \in fetches' : g \in fetches \/ Fits(own, g.id, g.email)'
      <3> DEFINE h == [f EXCEPT !.pc = pc]
      <3>1. h.id = f.id /\ h.email = f.email
        BY <1>2 DEF IsFetch
      <3> HIDE DEF h
      <3>2. fetches' = (fetches \ {f}) \cup {h}
        BY <2>1 DEF h
      <3>3. Fits(own, h.id, h.email)'
        BY <1>1, <1>2, <3>1, StillTrue DEF Fits
      <3> QED  BY <1>1, <1>2, <3>1, <3>2, StillTrue
    <2>2. CASE fetches' = fetches \ {f}
      BY <2>2
    <2>3. \/ fetches' = fetches \ {f}
          \/ fetches' = (fetches \ {f}) \cup {[f EXCEPT !.pc = "call"]}
          \/ fetches' = (fetches \ {f}) \cup {[f EXCEPT !.pc = "Token"]}
      BY DEF FetchStep, FetchSign, FetchRotate, FetchCall, HasToken, FetchEnds, FetchTo
    <2> QED  BY <2>1, <2>2, <2>3
  <1>7. WorkTrue(own)'
    BY <1>1, <1>3, <1>4, <1>6, WorkStays DEF Held
  <1>8. Told(own)
    <2>1. CASE UNCHANGED events
      BY <2>1 DEF Told
    <2>2. CASE FetchEnds(f, FALSE, TRUE)
      BY <1>1, <1>2, <2>2, FetchEndsTold DEF IsFetch
    <2>3. CASE f.kind = "SendAs" /\ FetchEnds(f, TRUE, TRUE)
      BY <1>1, <1>2, <2>3, FetchEndsTold DEF IsFetch
    <2>4. CASE FetchEnds(f, TRUE, f.email \in gmail')
      <3>1. PICK stays \in BOOLEAN : stays = (f.email \in gmail')
        <4>1. (f.email \in gmail') \in BOOLEAN
          OBVIOUS
        <4> QED  BY <4>1, Zenon
      <3>2. FetchEnds(f, TRUE, stays)
        BY <2>4, <3>1 DEF FetchEnds
      <3> QED  BY <1>1, <1>2, <3>1, <3>2, FetchEndsTold DEF IsFetch
    <2> QED  BY <2>1, <2>2, <2>3, <2>4 DEF FetchStep, FetchSign, FetchRotate, FetchCall, HasToken, FetchTo
  <1> QED  BY <1>1, <1>5, <1>7, <1>8, Unshown

\* The session of the signed-in account, but for the row it may get.
LEMMA LegacyTold ==
  ASSUME RegistryInv, NEW own, Held(own), LegacyStep, ~LegacyRegister
  PROVE  Told(own)
  <1>1. Onward /\ UNCHANGED <<cache, gmail, registry>>
    BY DEF LegacyStep, LegacyList, LegacySign, LegacyBrowser, LegacySave, LegacyFetch,
           LegacyPurge, LegacyOnly, Onward, RegistryInv, Shapes
  <1>2. ASSUME NEW type, type \notin Weighty, LegacyEnds(type) PROVE Told(own)
    BY <1>2, AnswersTold DEF LegacyEnds
  <1>3. ASSUME NEW e, EventTrue(own, e), Emit(<<e>>) PROVE Told(own)
    <2>1. EventTrue(own, e)'
      BY <1>1, <1>3, StillTrue
    <2> QED  BY <1>3, <2>1 DEF Told
  <1>4. ASSUME NEW a, Verified(a) PROVE Told(own)
    <2> DEFINE e == [type |-> "IdentityVerified", op |-> legacyTask.op, email |-> a]
    <2>1. e.type \notin Weighty /\ Emit(<<e>>)
      BY <1>4 DEF Verified, Weighty
    <2> HIDE DEF e
    <2> QED  BY <2>1, LightlyTold
  <1>5. CASE LegacyList
    <2> DEFINE e == [type |-> "Restored", op |-> legacyTask.op, rows |-> registry, inboxes |-> cache]
    <2>1. Emit(<<e>>) /\ e.type = "Restored" /\ e.rows = registry /\ e.inboxes = cache
      BY <1>5 DEF LegacyList, LegacyAt
    <2> HIDE DEF e
    <2>2. EventTrue(own, e)
      BY <2>1 DEF EventTrue, Held, DiskTrue
    <2>3. PICK d : d = e
      OBVIOUS
    <2> QED  BY <1>3, <2>1, <2>2, <2>3
  <1>6. CASE LegacySign \/ LegacyBrowser \/ LegacyPurge
    BY <1>2, <1>4, <1>6 DEF LegacySign, LegacyBrowser, LegacyPurge, Weighty
  <1>7. CASE LegacySave
    BY <1>2, <1>7 DEF LegacySave, LegacyAt, Weighty, Told
  <1>8. CASE LegacyFetch
    <2> DEFINE e == [type |-> "SyncComplete", op |-> legacyTask.op, email |-> legacyTask.email,
                     inbox |-> InboxOf(legacyTask.email)]
    <2>1. LegacyEnds("Failed") \/ Emit(<<e>>)
      BY <1>8 DEF LegacyFetch
    <2>2. e.type = "SyncComplete" /\ (e.inbox = "Empty" => e.email \notin gmail)
      BY DEF InboxOf
    <2> HIDE DEF e
    <2>3. EventTrue(own, e)
      BY <2>2 DEF EventTrue, Tells
    <2>4. PICK d : d = e
      OBVIOUS
    <2> QED  BY <1>2, <1>3, <2>1, <2>3, <2>4 DEF Weighty
  <1> QED  BY <1>5, <1>6, <1>7, <1>8 DEF LegacyStep

LEMMA LegacyTrue ==
  ASSUME RegistryInv, WholeInv, NEW own, DOMAIN own = Ids, Held(own), LegacyStep
  PROVE  HideInv'
  <1>1. /\ UNCHANGED <<cache, gmail, ui, commands, addTask, tasks, fetches, strays>>
        /\ \/ UNCHANGED <<registry, used>>
           \/ LegacyRegister /\ \E i \in Ids \ used : used' = used \cup {i}
    BY DEF LegacyStep, LegacyList, LegacySign, LegacyBrowser, LegacyRegister, LegacySave, LegacyFetch,
           LegacyPurge, LegacyOnly
  <1>2. Onward
    BY <1>1 DEF Onward, RegistryInv, Shapes
  <1>3. ASSUME NEW o, DOMAIN o = Ids, Held(o), DiskTrue(o)', Told(o) PROVE HideInv'
    <2>1. WorkTrue(o)'
      BY <1>1, <1>2, <1>3, WorkStays DEF Held
    <2> QED  BY <1>1, <1>2, <1>3, <2>1, Unshown DEF HideInv
  <1>4. CASE UNCHANGED <<registry, used>> /\ Told(own)
    BY <1>1, <1>2, <1>3, <1>4, DiskStays DEF Held
  <1>5. CASE LegacyRegister
    <2>0. PICK a : a = legacyTask.email
      OBVIOUS
    <2>1. a # None
      BY <1>5, <2>0 DEF LegacyRegister, InLegacy, RegistryInv, Shapes
    <2>2. ASSUME NEW o, NEW i, Fits(o, i, a)',
                 Emit(<<[type |-> "LegacyRegistered", op |-> legacyTask.op, id |-> i, email |-> a]>>)
          PROVE  Told(o)
      <3> DEFINE e == [type |-> "LegacyRegistered", op |-> legacyTask.op, id |-> i, email |-> a]
      <3>1. e.type = "LegacyRegistered" /\ e.id = i /\ e.email = a /\ Emit(<<e>>)
        BY <2>2
      <3> HIDE DEF e
      <3>2. PICK d : d = e
        OBVIOUS
      <3>3. EventTrue(o, d)'
        BY <2>2, <3>1, <3>2 DEF EventTrue, Fits
      <3> QED  BY <3>1, <3>2, <3>3 DEF Told
    <2>3. ASSUME NEW i \in RegisteredAs(registry, a), UNCHANGED <<registry, used>>,
                 Emit(<<[type |-> "LegacyRegistered", op |-> legacyTask.op, id |-> i, email |-> a]>>)
          PROVE  HideInv'
      <3>1. Fits(own, i, a)
        BY <2>1 DEF RegisteredAs, Fits, Held, DiskTrue, RegistryInv, Hidden, Unknown
      <3>2. Told(own)
        BY <1>2, <2>2, <2>3, <3>1, StillTrue
      <3> QED  BY <1>4, <2>3, <3>2
    <2>4. ASSUME NEW i \in Ids \ used, registry' = [registry EXCEPT ![i] = a], used' = used \cup {i},
                 Emit(<<[type |-> "LegacyRegistered", op |-> legacyTask.op, id |-> i, email |-> a]>>)
          PROVE  HideInv'
      <3>1. PICK o : o = [own EXCEPT ![i] = a]
        OBVIOUS
      <3>2. DOMAIN o = Ids /\ Held(o) /\ o[i] = a
        BY <3>1, Undecided
      <3>3. DiskTrue(o)'
        <4>1. \A j \in Ids : registry'[j] = registry[j] \/ registry'[j] = o[j]
          BY <2>4, <3>2 DEF RegistryInv, Shapes
        <4> QED  BY <1>1, <1>2, <3>2, <4>1, StillTrue DEF Held, DiskTrue
      <3>4. Fits(o, i, a)'
        BY <2>4, <3>2 DEF Fits
      <3>5. Told(o)
        BY <2>2, <2>4, <3>4
      <3> QED  BY <1>3, <3>2, <3>3, <3>5
    <2>5. CASE Emit(<<>>) /\ UNCHANGED <<registry, used>>
      BY <1>4, <2>5 DEF Told
    <2> QED  BY <1>5, <2>0, <2>3, <2>4, <2>5 DEF LegacyRegister, LegacyAt
  <1> QED  BY <1>1, <1>4, <1>5, LegacyTold

LEMMA NextHeld == RegistryInv /\ WholeInv /\ HideInv /\ [Next]_vars => HideInv'
  <1> SUFFICES ASSUME RegistryInv, WholeInv, HideInv, [Next]_vars PROVE HideInv'
    OBVIOUS
  <1>1. PICK own : DOMAIN own = Ids /\ Held(own)
    BY DEF HideInv
  <1>2. Held(own)' => HideInv'
    BY <1>1 DEF HideInv
  <1>3. CASE Person \/ Deliver \/ Controller \/ Restart
    BY <1>1, <1>2, <1>3, PersonTrue, DeliverTrue, ControllerTrue, RestartTrue
  <1>4. CASE AddStep \/ LegacyStep
    BY <1>1, <1>2, <1>4, AddBeginTrue, AddWriteTrue, LegacyTrue DEF AddStep
  <1>5. ASSUME NEW i \in Ids, TaskStep(i) PROVE HideInv'
    BY <1>1, <1>2, <1>5, ReconnectTrue, TaskWriteTrue DEF TaskStep
  <1>6. ASSUME NEW f \in fetches, FetchStep(f) PROVE HideInv'
    BY <1>1, <1>2, <1>6, FetchTrue
  <1>7. ASSUME NEW w \in strays, Stray(w) PROVE HideInv'
    BY <1>1, <1>2, <1>7, StrayTrue
  <1>8. CASE UNCHANGED vars
    <2>1. /\ UNCHANGED <<ui, commands, disk, addTask, tasks, fetches, strays, gmail, used, events>>
      BY <1>8 DEF vars, worker, seen
    <2>2. Onward
      BY <2>1 DEF Onward, RegistryInv, Shapes
    <2>3. DiskTrue(own)' /\ WorkTrue(own)'
      BY <1>1, <2>1, <2>2, DiskStays, WorkStays DEF disk, Held
    <2> QED  BY <1>1, <1>2, <2>1, <2>2, <2>3, Unshown DEF Told
  <1> QED  BY <1>3, <1>4, <1>5, <1>6, <1>7, <1>8 DEF Next, System

\* No list shows an Inbox without the message that Gmail still has there,
\* whichever answers, snapshots, closures and mutations are under way.
THEOREM NothingHiddenFalsely == Spec => []HiddenOnlyIfMoved
  <1>1. Init => RegistryInv /\ WholeInv /\ HideInv
    BY Start, StartWhole, StartHeld
  <1>2. RegistryInv /\ WholeInv /\ HideInv /\ [Next]_vars => (RegistryInv /\ WholeInv /\ HideInv)'
    BY NextKeeps, NextWhole, NextHeld
  <1>3. HideInv => HiddenOnlyIfMoved
    BY DEF HideInv, Held, ListsTrue, RowTrue, Tells, HiddenOnlyIfMoved, Listed
  <1> QED  BY <1>1, <1>2, <1>3, PTL DEF Spec
=============================================================================
