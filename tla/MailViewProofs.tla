---------------------------- MODULE MailViewProofs ----------------------------
(* What TLAPS proves about MailView, for any accounts, labels, messages,      *)
(* queries and bounds.                                                        *)
EXTENDS MailView, WellFoundedInduction, TLAPS

-----------------------------------------------------------------------------
(* The generation of the body cache in the reducer                            *)

HasGen(u) == "cacheGen" \in DOMAIN u

\* Updates leave the generation alone, unless they are those of Clear Cache.
Keeps(u, v) == DOMAIN v = DOMAIN u /\ v.cacheGen = u.cacheGen

IsSeq(s) == \E S : s \in Seq(S)

NoClear(s) == IsSeq(s) /\ \A i \in DOMAIN s : s[i].type # "ClearBodyCache"

LEMMA KeepsTwice ==
  ASSUME NEW u, NEW v, NEW w, Keeps(u, v), Keeps(v, w)
  PROVE  Keeps(u, w)
  BY DEF Keeps

LEMMA NormalizeKeeps ==
  ASSUME NEW u, HasGen(u)
  PROVE  Keeps(u, normalize(u))
  BY DEF normalize, FollowList, Keeps, HasGen

LEMMA InvalidateKeeps ==
  ASSUME NEW u, HasGen(u)
  PROVE  Keeps(u, invalidate_server_search(u))
  BY DEF invalidate_server_search, Keeps, HasGen

LEMMA StopKeeps ==
  ASSUME NEW u, HasGen(u)
  PROVE  Keeps(u, stop_background_sync(u))
  BY DEF stop_background_sync, Keeps, HasGen

LEMMA VerifiedKeeps ==
  ASSUME NEW u, NEW account, HasGen(u)
  PROVE  Keeps(u, Verified(u, account))
  <1>1. Keeps(u, stop_background_sync(u)) /\ HasGen(stop_background_sync(u))
    BY StopKeeps DEF Keeps, HasGen
  <1>2. Keeps(stop_background_sync(u), Forgotten(u))
    BY <1>1 DEF Forgotten, Keeps, HasGen
  <1>3. Keeps(u, Forgotten(u))
    BY <1>1, <1>2, KeepsTwice
  <1> QED  BY <1>3 DEF Verified, Keeps, HasGen

LEMMA UnavailableKeeps ==
  ASSUME NEW u, HasGen(u)
  PROVE  Keeps(u, WorkerUnavailable(u))
  <1> DEFINE v == invalidate_server_search(stop_background_sync(u))
  <1>1. Keeps(u, stop_background_sync(u)) /\ HasGen(stop_background_sync(u))
    BY StopKeeps DEF Keeps, HasGen
  <1>2. Keeps(u, v)
    BY <1>1, InvalidateKeeps, KeepsTwice
  <1> HIDE DEF v
  <1>3. Keeps(v, [v EXCEPT !.operation = 0, !.session = "Stopped",
                          !.reader = IF @.state = "Loading" THEN [state |-> "Failed", id |-> @.id] ELSE @])
    BY <1>2 DEF Keeps, HasGen
  <1>4. WorkerUnavailable(u) =
            [v EXCEPT !.operation = 0, !.session = "Stopped",
                      !.reader = IF @.state = "Loading" THEN [state |-> "Failed", id |-> @.id] ELSE @]
    BY DEF WorkerUnavailable, v
  <1> QED  BY <1>2, <1>3, <1>4, KeepsTwice

LEMMA OneCommand ==
  ASSUME NEW c, c.type # "ClearBodyCache"
  PROVE  NoClear(<<c>>)
  <1>1. IsSeq(<<c>>)
    <2>1. <<c>> \in Seq({c})
      OBVIOUS
    <2> QED  BY <2>1 DEF IsSeq
  <1>2. DOMAIN <<c>> = {1} /\ <<c>>[1] = c
    OBVIOUS
  <1> QED  BY <1>1, <1>2 DEF NoClear

LEMMA NoCommand == NoClear(<<>>)
  <1>1. IsSeq(<<>>)
    <2>1. <<>> \in Seq({})
      OBVIOUS
    <2> QED  BY <2>1 DEF IsSeq
  <1>2. DOMAIN <<>> = {}
    OBVIOUS
  <1> QED  BY <1>1, <1>2 DEF NoClear

LEMMA TwoSequences ==
  ASSUME NEW s, NEW t, IsSeq(s), IsSeq(t)
  PROVE  /\ IsSeq(s \o t)
         /\ DOMAIN (s \o t) = 1 .. (Len(s) + Len(t)) /\ DOMAIN s = 1 .. Len(s) /\ DOMAIN t = 1 .. Len(t)
         /\ Len(s) \in Nat /\ Len(t) \in Nat
         /\ \A i \in DOMAIN s : (s \o t)[i] = s[i]
         /\ \A i \in DOMAIN (s \o t) \ DOMAIN s : i - Len(s) \in DOMAIN t /\ (s \o t)[i] = t[i - Len(s)]
  <1>1. PICK S : s \in Seq(S)
    BY DEF IsSeq
  <1>2. PICK T : t \in Seq(T)
    BY DEF IsSeq
  <1>3. s \in Seq(S \cup T) /\ t \in Seq(S \cup T)
    BY <1>1, <1>2
  <1>4. s \o t \in Seq(S \cup T)
    BY <1>3
  <1> QED  BY <1>3, <1>4 DEF IsSeq

LEMMA NoClearTwice ==
  ASSUME NEW s, NEW t, NoClear(s), NoClear(t)
  PROVE  NoClear(s \o t)
  <1>1. IsSeq(s) /\ IsSeq(t)
    BY DEF NoClear
  <1>2. ASSUME NEW i \in DOMAIN (s \o t) PROVE (s \o t)[i].type # "ClearBodyCache"
    <2>1. CASE i \in DOMAIN s
      BY <1>1, <2>1, TwoSequences DEF NoClear
    <2>2. CASE i \notin DOMAIN s
      <3>1. i - Len(s) \in DOMAIN t /\ (s \o t)[i] = t[i - Len(s)]
        BY <1>1, <1>2, <2>2, TwoSequences
      <3> QED  BY <3>1 DEF NoClear
    <2> QED  BY <2>1, <2>2
  <1>3. IsSeq(s \o t)
    BY <1>1, TwoSequences
  <1> QED  BY <1>2, <1>3 DEF NoClear

LEMMA CancelIsNoClear ==
  ASSUME NEW u
  PROVE  NoClear(CancelOf(u))
  BY OneCommand, NoCommand DEF CancelOf

-----------------------------------------------------------------------------
(* After Clear Cache                                                          *)

\* The clears under way come in the order of their generations, beyond the gate.
ClearsInOrder(cs, gate, gen) ==
    /\ IsSeq(cs) /\ gate \in Nat /\ gen \in Nat /\ gate <= gen
    /\ \A i \in DOMAIN cs : cs[i].type = "ClearBodyCache" =>
          /\ cs[i].generation \in Nat
          /\ gate < cs[i].generation /\ cs[i].generation <= gen
    /\ \A i, j \in DOMAIN cs :
          i < j /\ cs[i].type = "ClearBodyCache" /\ cs[j].type = "ClearBodyCache" =>
              cs[i].generation < cs[j].generation

ClearInv ==
    /\ HasGen(ui) /\ "cache" \in DOMAIN gates
    /\ ClearsInOrder(commands, gates.cache, ui.cacheGen)
    /\ cleared \in Nat /\ cleared <= gates.cache
    /\ ClearedStaysCleared

LEMMA MoreCommands ==
  ASSUME NEW cs, NEW gate, NEW gen, ClearsInOrder(cs, gate, gen), NEW more, NoClear(more)
  PROVE  ClearsInOrder(cs \o more, gate, gen)
  <1>1. \A i \in DOMAIN (cs \o more) :
           (cs \o more)[i].type = "ClearBodyCache" => i \in DOMAIN cs /\ (cs \o more)[i] = cs[i]
    <2>1. IsSeq(cs) /\ IsSeq(more)
      BY DEF NoClear, ClearsInOrder
    <2> SUFFICES ASSUME NEW i \in DOMAIN (cs \o more), (cs \o more)[i].type = "ClearBodyCache"
                 PROVE  i \in DOMAIN cs /\ (cs \o more)[i] = cs[i]
      OBVIOUS
    <2>2. CASE i \in DOMAIN cs
      BY <2>1, <2>2, TwoSequences
    <2>3. CASE i \notin DOMAIN cs
      <3>1. i - Len(cs) \in DOMAIN more /\ (cs \o more)[i] = more[i - Len(cs)]
        BY <2>1, <2>3, TwoSequences
      <3> QED  BY <3>1 DEF NoClear
    <2> QED  BY <2>2, <2>3
  <1>2. IsSeq(cs \o more)
    BY TwoSequences DEF NoClear, ClearsInOrder
  <1> QED  BY <1>1, <1>2 DEF ClearsInOrder

LEMMA OneMoreClear ==
  ASSUME NEW cs, NEW gate, NEW gen, ClearsInOrder(cs, gate, gen),
         NEW c, c.type = "ClearBodyCache", c.generation = gen + 1
  PROVE  ClearsInOrder(cs \o <<c>>, gate, gen + 1)
  <1>1. IsSeq(cs) /\ IsSeq(<<c>>)
    <2>1. <<c>> \in Seq({c})
      OBVIOUS
    <2> QED  BY <2>1 DEF IsSeq, ClearsInOrder
  <1>2. /\ IsSeq(cs \o <<c>>) /\ DOMAIN cs = 1 .. Len(cs) /\ Len(cs) \in Nat
        /\ DOMAIN (cs \o <<c>>) = 1 .. (Len(cs) + 1)
        /\ \A i \in DOMAIN cs : (cs \o <<c>>)[i] = cs[i]
        /\ (cs \o <<c>>)[Len(cs) + 1] = c
    BY <1>1, TwoSequences
  <1> DEFINE more == cs \o <<c>>
  <1> HIDE DEF more
  <1>3. \A i \in DOMAIN more : i \in Nat /\ i <= Len(cs) + 1 /\ (i = Len(cs) + 1 \/ i \in DOMAIN cs)
    BY <1>2 DEF more
  <1>4. \A i \in DOMAIN more : more[i].type = "ClearBodyCache" =>
           more[i].generation \in Nat /\ gate < more[i].generation /\ more[i].generation <= gen + 1
    BY <1>2, <1>3 DEF ClearsInOrder, more
  <1>5. \A i, j \in DOMAIN more :
          i < j /\ more[i].type = "ClearBodyCache" /\ more[j].type = "ClearBodyCache" =>
              more[i].generation < more[j].generation
    <2> SUFFICES ASSUME NEW i \in DOMAIN more, NEW j \in DOMAIN more, i < j,
                        more[i].type = "ClearBodyCache", more[j].type = "ClearBodyCache"
                 PROVE  more[i].generation < more[j].generation
      OBVIOUS
    <2>1. i \in DOMAIN cs /\ more[i] = cs[i]
      BY <1>2, <1>3 DEF more
    <2>2. CASE j \in DOMAIN cs
      BY <1>2, <2>1, <2>2 DEF ClearsInOrder, more
    <2>3. CASE j = Len(cs) + 1
      BY <1>2, <2>1, <2>3 DEF ClearsInOrder, more
    <2> QED  BY <1>3, <2>2, <2>3
  <1> QED  BY <1>2, <1>4, <1>5 DEF ClearsInOrder, more

LEMMA OneLess ==
  ASSUME NEW cs, NEW gate, NEW gen, ClearsInOrder(cs, gate, gen), cs # <<>>
  PROVE  /\ ClearsInOrder(Tail(cs), gate, gen)
         /\ Head(cs).type = "ClearBodyCache" =>
               /\ Head(cs).generation \in Nat /\ gate < Head(cs).generation /\ Head(cs).generation <= gen
               /\ ClearsInOrder(Tail(cs), Head(cs).generation, gen)
  <1>1. PICK S : cs \in Seq(S)
    BY DEF ClearsInOrder, IsSeq
  <1>2. /\ Tail(cs) \in Seq(S) /\ 1 \in DOMAIN cs /\ Head(cs) = cs[1]
        /\ \A i \in DOMAIN Tail(cs) : i \in Nat /\ 1 < i + 1 /\ i + 1 \in DOMAIN cs /\ Tail(cs)[i] = cs[i + 1]
    BY <1>1
  <1>3. IsSeq(Tail(cs))
    BY <1>2 DEF IsSeq
  <1>4. ClearsInOrder(Tail(cs), gate, gen)
    <2>1. \A i \in DOMAIN Tail(cs) : Tail(cs)[i].type = "ClearBodyCache" =>
             /\ Tail(cs)[i].generation \in Nat
             /\ gate < Tail(cs)[i].generation /\ Tail(cs)[i].generation <= gen
      BY <1>2 DEF ClearsInOrder
    <2>2. ASSUME NEW i \in DOMAIN Tail(cs), NEW j \in DOMAIN Tail(cs), i < j,
                 Tail(cs)[i].type = "ClearBodyCache", Tail(cs)[j].type = "ClearBodyCache"
          PROVE  Tail(cs)[i].generation < Tail(cs)[j].generation
      <3>1. i + 1 < j + 1
        BY <1>2, <2>2
      <3> QED  BY <1>2, <2>2, <3>1 DEF ClearsInOrder
    <2> QED  BY <1>3, <2>1, <2>2 DEF ClearsInOrder
  <1>5. ASSUME Head(cs).type = "ClearBodyCache"
        PROVE  /\ Head(cs).generation \in Nat /\ gate < Head(cs).generation /\ Head(cs).generation <= gen
               /\ ClearsInOrder(Tail(cs), Head(cs).generation, gen)
    <2>1. \A i \in DOMAIN Tail(cs) : Tail(cs)[i].type = "ClearBodyCache" =>
             Head(cs).generation < Tail(cs)[i].generation
      BY <1>2, <1>5 DEF ClearsInOrder
    <2> QED  BY <1>2, <1>4, <1>5, <2>1 DEF ClearsInOrder
  <1> QED  BY <1>4, <1>5

\* What the UI does apart from Clear Cache: its generation stays, and it sends no clear.
Harmless(update) == Keeps(ui, update.ui) /\ NoClear(update.send)

LEMMA DispatchHarmless ==
  ASSUME ClearInv, NEW update, Harmless(update), Dispatch(update), UNCHANGED worker
  PROVE  ClearInv'
  <1>1. Keeps(ui, ui')
    <2>1. ui' = update.ui \/ ui' = WorkerUnavailable(update.ui)
      BY DEF Dispatch
    <2>2. HasGen(update.ui) /\ Keeps(ui, update.ui)
      BY DEF Harmless, Keeps, HasGen, ClearInv
    <2> QED  BY <2>1, <2>2, UnavailableKeeps, KeepsTwice
  <1>2. ClearsInOrder(commands', gates.cache, ui.cacheGen)
    <2>1. commands' = commands \/ commands' = commands \o update.send
      BY DEF Dispatch
    <2> QED  BY <2>1, MoreCommands DEF ClearInv, Harmless
  <1> QED  BY <1>1, <1>2 DEF ClearInv, Keeps, HasGen, ClearedStaysCleared, worker

LEMMA GestureHarmless ==
  ASSUME ClearInv, NEW update, Harmless(update), Gesture(update)
  PROVE  ClearInv'
  BY DispatchHarmless DEF Gesture

LEMMA SubmitHarmless ==
  ASSUME ClearInv, NEW query, SubmitWith(query)
  PROVE  ClearInv'
  <1> DEFINE v == invalidate_server_search(ui)
             w == [v EXCEPT !.query = query, !.searchGen = @ + 1, !.selected = NoMessage, !.reader = Closed,
                      !.search = [state |-> "Loading", request |-> Ask, query |-> query,
                                  generation |-> v.searchGen + 1]]
             c == [type |-> "SearchGmail", request |-> Ask, query |-> query,
                   generation |-> v.searchGen + 1, account |-> ui.account]
             update == Sending(w, CancelOf(ui) \o <<c>>)
  <1>1. Keeps(ui, v) /\ HasGen(v)
    BY InvalidateKeeps DEF ClearInv, Keeps, HasGen
  <1>2. NoClear(CancelOf(ui) \o <<c>>)
    BY CancelIsNoClear, OneCommand, NoClearTwice
  <1>3. Gesture(update)
    BY DEF SubmitWith
  <1> HIDE DEF v, c
  <1>4. Keeps(ui, w)
    BY <1>1 DEF Keeps, HasGen
  <1> HIDE DEF w
  <1>5. Harmless(update)
    BY <1>2, <1>4 DEF Sending, Harmless
  <1> HIDE DEF update
  <1> QED  BY <1>3, <1>5, GestureHarmless

LEMMA OpenHarmless ==
  ASSUME NEW u, HasGen(u)
  PROVE  Keeps(u, open_selected(u).ui) /\ NoClear(open_selected(u).send)
  <1> DEFINE c == [type |-> "FetchBody", request |-> Ask, id |-> u.selected,
                   generation |-> u.cacheGen, account |-> u.account]
             w == [u EXCEPT !.reader = [state |-> "Loading", id |-> u.selected, request |-> Ask,
                                        generation |-> u.cacheGen]]
  <1>1. NoClear(<<>>) /\ NoClear(<<c>>)
    BY NoCommand, OneCommand
  <1>2. Keeps(u, [u EXCEPT !.reader = Closed]) /\ Keeps(u, u) /\ Keeps(u, w)
    BY DEF Keeps, HasGen
  <1>3. open_selected(u) \in {Quiet([u EXCEPT !.reader = Closed]), Quiet(u), Sending(w, <<c>>)}
    BY DEF open_selected
  <1> HIDE DEF w, c
  <1> QED  BY <1>1, <1>2, <1>3 DEF Quiet, Sending

LEMMA PersonHarmless ==
  ASSUME ClearInv,
         \/ \E kind \in {"Restore", "Connect"} : start(kind)
         \/ \E label \in Labels : load_folder(label)
         \/ \E query \in Queries : SetSearch(query)
         \/ submit_server_search \/ cancel_server_search \/ retry_server_search
         \/ \E id \in Messages : select_message(id)
         \/ retry_body \/ AccountRows
  PROVE  ClearInv'
  <1> DEFINE v == invalidate_server_search(ui)
  <1>1. HasGen(ui) /\ Keeps(ui, v) /\ HasGen(v) /\ NoClear(CancelOf(ui))
    BY InvalidateKeeps, CancelIsNoClear DEF ClearInv, Keeps, HasGen
  <1> HIDE DEF v
  <1>2. ASSUME NEW kind \in {"Restore", "Connect"}, start(kind) PROVE ClearInv'
    <2> DEFINE w == [v EXCEPT !.operation = Ask, !.session = "Syncing", !.folderGen = @ + 1,
                      !.activeFolder = 0, !.folderLoading = FALSE,
                      !.reader = IF @.state = "Loading" THEN Closed ELSE @]
               c == [type |-> kind, operation |-> Ask]
    <2>1. Keeps(ui, w)
      BY <1>1 DEF Keeps, HasGen
    <2>2. NoClear(CancelOf(ui) \o <<c>>)
      <3>1. c.type # "ClearBodyCache"
        OBVIOUS
      <3> QED  BY <1>1, <3>1, OneCommand, NoClearTwice
    <2>3. Gesture(Sending(w, CancelOf(ui) \o <<c>>))
      BY <1>2 DEF start, v
    <2> HIDE DEF w, c
    <2>4. Harmless(Sending(w, CancelOf(ui) \o <<c>>))
      BY <2>1, <2>2 DEF Sending, Harmless
    <2> QED  BY <2>3, <2>4, GestureHarmless
  <1>3. ASSUME NEW label \in Labels, load_folder(label) PROVE ClearInv'
    <2> DEFINE empty == [account |-> ui.account, label |-> label, rows |-> {}, by |-> "switch"]
               w == IF ui.view = label THEN v
                    ELSE [v EXCEPT !.list = empty, !.selected = NoMessage, !.reader = Closed]
               x == [w EXCEPT !.folderGen = @ + 1, !.activeFolder = Ask, !.folderLoading = TRUE,
                              !.view = label]
               c == [type |-> "FetchFolder", request |-> Ask, label |-> label,
                     generation |-> ui.folderGen + 1, account |-> ui.account]
    <2>1. Keeps(ui, w) /\ HasGen(w)
      BY <1>1 DEF Keeps, HasGen
    <2>2. NoClear(CancelOf(ui) \o <<c>>)
      BY <1>1, OneCommand, NoClearTwice
    <2>3. Gesture(Sending(normalize(x), CancelOf(ui) \o <<c>>))
      BY <1>3 DEF load_folder, v
    <2> HIDE DEF w, c
    <2>4. Keeps(ui, x) /\ HasGen(x)
      BY <2>1 DEF Keeps, HasGen
    <2> HIDE DEF x
    <2>5. Keeps(ui, normalize(x))
      BY <2>4, NormalizeKeeps, KeepsTwice
    <2>6. Harmless(Sending(normalize(x), CancelOf(ui) \o <<c>>))
      BY <2>2, <2>5 DEF Sending, Harmless
    <2> QED  BY <2>3, <2>6, GestureHarmless
  <1>4. ASSUME NEW query \in Queries, SetSearch(query) PROVE ClearInv'
    <2> DEFINE x == [v EXCEPT !.query = query]
    <2>1. Keeps(ui, x) /\ HasGen(x)
      BY <1>1 DEF Keeps, HasGen
    <2>2. Gesture(Sending(normalize(x), CancelOf(ui)))
      BY <1>4 DEF SetSearch, v
    <2> HIDE DEF x
    <2>3. Harmless(Sending(normalize(x), CancelOf(ui)))
      BY <1>1, <2>1, NormalizeKeeps, KeepsTwice DEF Sending, Harmless
    <2> QED  BY <2>2, <2>3, GestureHarmless
  <1>5. CASE cancel_server_search
    <2>1. Gesture(Sending(normalize(v), CancelOf(ui)))
      BY <1>5 DEF cancel_server_search, v
    <2>2. Harmless(Sending(normalize(v), CancelOf(ui)))
      BY <1>1, NormalizeKeeps, KeepsTwice DEF Sending, Harmless
    <2> QED  BY <2>1, <2>2, GestureHarmless
  <1>6. ASSUME NEW id \in Messages, select_message(id) PROVE ClearInv'
    <2> DEFINE x == [ui EXCEPT !.selected = id]
    <2>1. Keeps(ui, x) /\ HasGen(x)
      BY <1>1 DEF Keeps, HasGen
    <2>2. Gesture(open_selected(x))
      BY <1>6 DEF select_message
    <2> HIDE DEF x
    <2>3. Harmless(open_selected(x))
      BY <2>1, OpenHarmless, KeepsTwice DEF Harmless
    <2> QED  BY <2>2, <2>3, GestureHarmless
  <1>7. CASE retry_body
    <2>1. Harmless(open_selected(ui))
      BY <1>1, OpenHarmless DEF Harmless
    <2> QED  BY <1>7, <2>1, GestureHarmless DEF retry_body
  <1>8. CASE AccountRows
    <2> DEFINE x == [ui EXCEPT !.projection = ~@]
    <2>1. Harmless(Quiet(x))
      BY <1>1, NoCommand DEF Quiet, Harmless, Keeps, HasGen
    <2> QED  BY <1>8, <2>1, GestureHarmless DEF AccountRows
  <1> QED  BY <1>2, <1>3, <1>4, <1>5, <1>6, <1>7, <1>8, SubmitHarmless DEF submit_server_search, retry_server_search

LEMMA ClearAsked ==
  ASSUME ClearInv, clear_body_cache
  PROVE  ClearInv'
  <1> DEFINE w == [ui EXCEPT !.cacheGen = @ + 1, !.clearing = Ask, !.reader = Closed]
             c == [type |-> "ClearBodyCache", operation |-> Ask, generation |-> ui.cacheGen + 1]
  <1>1. /\ ClearsInOrder(commands, gates.cache, ui.cacheGen) /\ HasGen(ui)
        /\ gates.cache \in Nat /\ ui.cacheGen \in Nat
    BY DEF ClearInv, ClearsInOrder
  <1>2. w.cacheGen = ui.cacheGen + 1 /\ HasGen(w)
    BY <1>1 DEF HasGen
  <1>3. Dispatch(Sending(w, <<c>>)) /\ UNCHANGED worker
    BY DEF clear_body_cache, Gesture
  <1>4. c.type = "ClearBodyCache" /\ c.generation = ui.cacheGen + 1
    OBVIOUS
  <1> HIDE DEF w, c
  <1>5. ui'.cacheGen = ui.cacheGen + 1 /\ HasGen(ui')
    <2>1. ui' = w \/ ui' = WorkerUnavailable(w)
      BY <1>3 DEF Dispatch, Sending
    <2> QED  BY <1>2, <2>1, UnavailableKeeps DEF Keeps, HasGen
  <1>6. ClearsInOrder(commands', gates.cache, ui.cacheGen + 1)
    <2>1. commands' = commands \/ commands' = commands \o <<c>>
      BY <1>3 DEF Dispatch, Sending
    <2>2. CASE commands' = commands
      BY <1>1, <2>2 DEF ClearsInOrder
    <2>3. CASE commands' = commands \o <<c>>
      BY <1>1, <1>4, <2>3, OneMoreClear
    <2> QED  BY <2>1, <2>2, <2>3
  <1> QED  BY <1>3, <1>5, <1>6 DEF ClearInv, ClearedStaysCleared, worker

LEMMA TimerHarmless ==
  ASSUME ClearInv, background_sync_timer
  PROVE  ClearInv'
  <1> DEFINE c == [type |-> "BackgroundSync", request |-> polls + 1, account |-> ui.account]
             x == [ui EXCEPT !.inFlight = polls + 1, !.pendingTick = FALSE]
             y == [ui EXCEPT !.pendingTick = TRUE]
             z == [y EXCEPT !.schedule = @ + 1]
             begun == Sending(x, <<c>>)
             update == IF timer # ui.schedule \/ ui.paused THEN Quiet(ui)
                       ELSE IF can_begin_background_sync(ui) THEN begun
                       ELSE Arming(y)
             last == [update EXCEPT !.timer = IF @ = "keep" THEN "fired" ELSE @]
  <1>1. Dispatch(last) /\ UNCHANGED worker
    BY DEF background_sync_timer
  <1>2. HasGen(ui)
    BY DEF ClearInv
  <1>3. Keeps(ui, x) /\ Keeps(ui, z) /\ Keeps(ui, ui)
    BY <1>2 DEF Keeps, HasGen
  <1>4. NoClear(<<>>) /\ NoClear(<<c>>)
    BY NoCommand, OneCommand
  <1>5. update \in {Quiet(ui), begun, [ui |-> z, send |-> <<>>, timer |-> "arm"]}
    BY DEF Arming
  <1> HIDE DEF c, x, y, z, update
  <1>6. last.ui = update.ui /\ last.send = update.send
    BY <1>5 DEF Quiet, Sending
  <1>7. Harmless(update)
    BY <1>3, <1>4, <1>5 DEF Quiet, Sending, Harmless
  <1>8. Harmless(last)
    BY <1>6, <1>7 DEF Harmless
  <1> HIDE DEF last
  <1> QED  BY <1>1, <1>8, DispatchHarmless

LEMMA EventHarmless ==
  ASSUME HasGen(ui), NEW e
  PROVE  Harmless(worker_event(ui, e))
  <1>1. ASSUME NEW u, Keeps(ui, u)
        PROVE  Harmless(Quiet(u)) /\ Harmless(Arming(u))
    <2>1. Keeps(ui, [u EXCEPT !.schedule = @ + 1])
      BY <1>1 DEF Keeps, HasGen
    <2> QED  BY <1>1, <2>1, NoCommand DEF Harmless, Quiet, Arming
  <1>2. Keeps(ui, ui)
    BY DEF Keeps
  <1>3. ASSUME e.type \in OfOperation PROVE Harmless(AccountEvent(ui, e))
    <2>1. Keeps(ui, Verified(ui, e.account)) /\ HasGen(Verified(ui, e.account))
      BY VerifiedKeeps DEF Keeps, HasGen
    <2>2. Keeps(ui, [Verified(ui, e.account) EXCEPT !.session = "Syncing"])
      BY <2>1 DEF Keeps, HasGen
    <2>3. Keeps(ui, normalize([Verified(ui, e.account) EXCEPT !.view = "Inbox", !.list = InboxOf(e, "sync")]))
      <3> DEFINE x == [Verified(ui, e.account) EXCEPT !.view = "Inbox", !.list = InboxOf(e, "sync")]
      <3>1. Keeps(ui, x) /\ HasGen(x)
        BY <2>1 DEF Keeps, HasGen
      <3> HIDE DEF x
      <3>2. Keeps(ui, normalize(x))
        BY <3>1, NormalizeKeeps, KeepsTwice
      <3> QED  BY <3>2 DEF x
    <2>4. Harmless(SyncComplete(ui, e))
      <3> DEFINE x == [Verified(ui, e.account) EXCEPT !.list = InboxOf(e, "sync")]
                 y == [normalize(x) EXCEPT !.session = "Ready", !.operation = 0, !.paused = FALSE]
      <3>1. Keeps(ui, x) /\ HasGen(x)
        BY <2>1 DEF Keeps, HasGen
      <3> HIDE DEF x
      <3>2. Keeps(ui, normalize(x)) /\ HasGen(normalize(x))
        BY <3>1, NormalizeKeeps, KeepsTwice DEF Keeps, HasGen
      <3>3. Keeps(ui, y)
        BY <3>2 DEF Keeps, HasGen
      <3> HIDE DEF y
      <3>4. Harmless(Arming(y))
        BY <1>1, <3>3
      <3> QED  BY <3>4 DEF SyncComplete, y, x
    <2>5. Keeps(ui, [ui EXCEPT !.operation = 0, !.session = "Stopped"])
      BY DEF Keeps, HasGen
    <2>6. AccountEvent(ui, e) \in {Quiet(ui), Quiet(Verified(ui, e.account)),
              Quiet([Verified(ui, e.account) EXCEPT !.session = "Syncing"]),
              Quiet(normalize([Verified(ui, e.account) EXCEPT !.view = "Inbox", !.list = InboxOf(e, "sync")])),
              SyncComplete(ui, e), Quiet([ui EXCEPT !.operation = 0, !.session = "Stopped"])}
      BY <1>3 DEF AccountEvent, OfOperation
    <2> HIDE DEF Harmless
    <2> QED  BY <1>1, <1>2, <2>1, <2>2, <2>3, <2>4, <2>5, <2>6
  <1>4. Harmless(FolderEvent(ui, e))
    <2> DEFINE v == [ui EXCEPT !.list = [account |-> e.account, label |-> e.label, rows |-> e.rows,
                                         by |-> "folder"],
                               !.folderLoading = e.cached]
               w == IF e.cached THEN v ELSE [v EXCEPT !.activeFolder = 0, !.session = "Ready"]
    <2>1. Keeps(ui, w) /\ HasGen(w)
      BY DEF Keeps, HasGen
    <2> HIDE DEF w
    <2>2. Keeps(ui, normalize(w))
      BY <2>1, NormalizeKeeps, KeepsTwice
    <2>3. Keeps(ui, folder_loaded(ui, e))
      BY <2>2 DEF folder_loaded, w
    <2>4. Keeps(ui, folder_failed(ui, e))
      BY DEF folder_failed, Keeps, HasGen
    <2> QED  BY <1>1, <1>2, <2>3, <2>4 DEF FolderEvent
  <1>5. Harmless(SearchEvent(ui, e))
    <2> DEFINE v == [ui EXCEPT !.search = [state |-> "Loaded", rows |-> e.rows,
                                           query |-> e.query, account |-> e.account],
                               !.selected = NoMessage, !.reader = Closed]
               w == [ui EXCEPT !.search = [state |-> "Failed", query |-> @.query]]
    <2>1. Keeps(ui, v) /\ HasGen(v) /\ Keeps(ui, w) /\ HasGen(w)
      BY DEF Keeps, HasGen
    <2>2. SearchEvent(ui, e) \in {Quiet(ui), Quiet(normalize(v)), Quiet(normalize(w))}
      BY DEF SearchEvent
    <2> HIDE DEF v, w
    <2>3. Keeps(ui, normalize(v)) /\ Keeps(ui, normalize(w))
      BY <2>1, NormalizeKeeps, KeepsTwice
    <2> QED  BY <1>1, <1>2, <2>2, <2>3
  <1>6. Harmless(BodyEvent(ui, e)) /\ Harmless(CacheEvent(ui, e))
    <2>1. /\ Keeps(ui, [ui EXCEPT !.reader = [state |-> "Loaded", id |-> e.id, of |-> e.account]])
          /\ Keeps(ui, [ui EXCEPT !.reader = [state |-> "Failed", id |-> e.id]])
      BY DEF Keeps, HasGen
    <2>2. Harmless(BodyEvent(ui, e))
      BY <1>1, <1>2, <2>1 DEF BodyEvent
    <2>3. Keeps(ui, [ui EXCEPT !.clearing = 0, !.reader = IF e.type = "CacheCleared" THEN Closed ELSE @])
      BY DEF Keeps, HasGen
    <2>4. Harmless(CacheEvent(ui, e))
      BY <1>1, <1>2, <2>3 DEF CacheEvent
    <2> QED  BY <2>2, <2>4
  <1>7. Harmless(background_worker_event(ui, e))
    <2> DEFINE v == [ui EXCEPT !.inFlight = 0]
               w == [v EXCEPT !.list = InboxOf(e, "poll")]
               x == [v EXCEPT !.paused = TRUE]
    <2>1. Keeps(ui, v) /\ Keeps(ui, w) /\ HasGen(w) /\ Keeps(ui, x)
      BY DEF Keeps, HasGen
    <2>2. background_worker_event(ui, e) \in {Quiet(ui), Arming(normalize(w)), Arming(v), Quiet(x)}
      BY DEF background_worker_event
    <2> HIDE DEF v, w, x
    <2>3. Keeps(ui, normalize(w))
      BY <2>1, NormalizeKeeps, KeepsTwice
    <2> QED  BY <1>1, <1>2, <2>1, <2>2, <2>3
  <1> QED  BY <1>3, <1>4, <1>5, <1>6, <1>7 DEF worker_event

LEMMA ReceiveHarmless ==
  ASSUME ClearInv, Receive
  PROVE  ClearInv'
  <1>1. PICK e : e = Head(events)
    OBVIOUS
  <1>2. Dispatch(worker_event(ui, e)) /\ UNCHANGED worker
    BY <1>1 DEF Receive
  <1>3. Harmless(worker_event(ui, e))
    BY EventHarmless DEF ClearInv
  <1> QED  BY <1>2, <1>3, DispatchHarmless

LEMMA UnavailableHarmless ==
  ASSUME ClearInv, Unavailable
  PROVE  ClearInv'
  BY UnavailableKeeps DEF ClearInv, Unavailable, Keeps, HasGen, ClearedStaysCleared, worker

\* A command of another type leaves the gate of the cache where it is.
LEMMA ControlHarmless ==
  ASSUME ClearInv, Control
  PROVE  ClearInv'
  <1>1. PICK c : c = Head(commands)
    OBVIOUS
  <1>2. /\ commands # <<>> /\ commands' = Tail(commands) /\ ui' = ui
        /\ CASE c.type = "FetchFolder" -> FetchFolder(c)
             [] c.type = "CancelSearch" -> CancelSearch(c)
             [] c.type = "SearchGmail" -> SearchGmail(c)
             [] c.type = "FetchBody" -> FetchBody(c)
             [] c.type = "ClearBodyCache" -> ClearBodyCache(c)
             [] c.type = "BackgroundSync" -> BackgroundSync(c)
             [] OTHER -> AccountBoundary(c)
    BY <1>1 DEF Control
  <1>3. ClearsInOrder(Tail(commands), gates.cache, ui.cacheGen)
    BY <1>2, OneLess DEF ClearInv
  <1>4. CASE c.type = "ClearBodyCache"
    <2>1. ClearBodyCache(c)
      BY <1>2, <1>4
    <2>2. /\ c.generation \in Nat /\ gates.cache < c.generation
          /\ ClearsInOrder(Tail(commands), c.generation, ui.cacheGen)
      BY <1>1, <1>2, <1>4, OneLess DEF ClearInv
    <2>3. gates'.cache = c.generation /\ "cache" \in DOMAIN gates'
      BY <2>1 DEF ClearBodyCache, ClearInv
    <2>4. \/ stored' = {} /\ cleared' = c.generation
          \/ stored' = stored /\ cleared' = cleared
      BY <2>1 DEF ClearBodyCache
    <2>5. gates.cache \in Nat
      BY DEF ClearInv, ClearsInOrder
    <2>6. cleared' \in Nat /\ cleared' <= c.generation
      BY <2>2, <2>4, <2>5 DEF ClearInv
    <2>7. ClearedStaysCleared'
      BY <2>4 DEF ClearInv, ClearedStaysCleared
    <2> QED  BY <1>2, <2>2, <2>3, <2>6, <2>7 DEF ClearInv
  <1>5. CASE c.type # "ClearBodyCache"
    <2>1. FetchFolder(c) \/ CancelSearch(c) \/ SearchGmail(c) \/ FetchBody(c)
            \/ BackgroundSync(c) \/ AccountBoundary(c)
      BY <1>2, <1>5
    <2>2. /\ gates'.cache = gates.cache /\ "cache" \in DOMAIN gates'
          /\ stored' = stored /\ cleared' = cleared
      BY <2>1 DEF ClearInv, FetchFolder, CancelSearch, SearchGmail, FetchBody, BackgroundSync,
                  AccountBoundary
    <2> QED  BY <1>2, <1>3, <2>2 DEF ClearInv, ClearedStaysCleared
  <1> QED  BY <1>4, <1>5

LEMMA StopHarmless ==
  ASSUME ClearInv, WorkerStops
  PROVE  ClearInv'
  <1>1. IsSeq(<<>>) /\ DOMAIN <<>> = {}
    BY NoCommand DEF NoClear
  <1>2. commands' = <<>> /\ UNCHANGED <<ui, gates, stored, cleared>>
    BY DEF WorkerStops
  <1>3. ClearsInOrder(<<>>, gates.cache, ui.cacheGen)
    BY <1>1 DEF ClearInv, ClearsInOrder
  <1> QED  BY <1>2, <1>3 DEF ClearInv, ClearedStaysCleared

\* A closure that finds its generation at the gate is younger than the last clear.
LEMMA SaveHarmless ==
  ASSUME ClearInv, SaveBody
  PROVE  ClearInv'
  <1>1. UNCHANGED <<ui, commands, gates, cleared>>
    BY DEF SaveBody
  <1>2. PICK c \in saves :
           \/ stored' = stored
           \/ /\ gates.cache = c.generation
              /\ stored' = {b \in stored : b.body # Body(c)}
                             \union {[body |-> Body(c), generation |-> c.generation]}
    BY DEF SaveBody
  <1>3. ASSUME NEW b \in stored' PROVE b.generation >= cleared
    <2>1. CASE b \in stored
      BY <2>1 DEF ClearInv, ClearedStaysCleared
    <2>2. CASE b = [body |-> Body(c), generation |-> c.generation] /\ gates.cache = c.generation
      <3>1. b.generation = gates.cache
        BY <2>2
      <3> QED  BY <3>1 DEF ClearInv, ClearsInOrder
    <2> QED  BY <1>2, <1>3, <2>1, <2>2
  <1> QED  BY <1>1, <1>3 DEF ClearInv, ClearedStaysCleared

LEMMA TasksHarmless ==
  ASSUME ClearInv, \/ FolderTask \/ SearchTask \/ BodyTask \/ PollTask \/ SyncTask
  PROVE  ClearInv'
  <1>1. UNCHANGED <<ui, commands, gates, stored, cleared>>
    BY DEF FolderTask, SearchTask, BodyTask, PollTask, SyncTask, TaskStep
  <1> QED  BY <1>1 DEF ClearInv, ClearedStaysCleared

LEMMA InitClears == Init => ClearInv
  <1> SUFFICES ASSUME Init PROVE ClearInv
    OBVIOUS
  <1>1. HasGen(ui) /\ ui.cacheGen = 1
    BY DEF Init, FirstView, normalize, FollowList, HasGen
  <1>2. /\ gates.cache = 1 /\ "cache" \in DOMAIN gates
        /\ commands = <<>> /\ stored = {} /\ cleared = 0
    BY DEF Init
  <1>3. IsSeq(<<>>) /\ DOMAIN <<>> = {}
    BY NoCommand DEF NoClear
  <1> QED  BY <1>1, <1>2, <1>3 DEF ClearInv, ClearsInOrder, ClearedStaysCleared

LEMMA NextClears == ClearInv /\ [Next]_vars => ClearInv'
  <1> SUFFICES ASSUME ClearInv, [Next]_vars PROVE ClearInv'
    OBVIOUS
  <1>1. CASE Person
    BY <1>1, PersonHarmless, ClearAsked DEF Person
  <1>2. CASE System
    BY <1>2, TimerHarmless, ReceiveHarmless, UnavailableHarmless, ControlHarmless, TasksHarmless,
       SaveHarmless DEF System
  <1>3. CASE WorkerStops
    BY <1>3, StopHarmless
  <1>4. CASE UNCHANGED vars
    BY <1>4 DEF vars, worker, ClearInv, ClearedStaysCleared
  <1> QED  BY <1>1, <1>2, <1>3, <1>4 DEF Next

\* After a Clear Cache that succeeded no body asked for before it is on the disk,
\* whatever tasks were aborted, whatever closures outlived them and however the
\* clears, sign-ins and fetches interleave (fetch_body, ClearBodyCache).
THEOREM ClearedForGood == Spec => []ClearedStaysCleared
  <1>1. ClearInv => ClearedStaysCleared
    BY DEF ClearInv
  <1> QED  BY <1>1, InitClears, NextClears, PTL DEF Spec
-----------------------------------------------------------------------------
(* Late lists                                                                 *)

HasList(u) == {"account", "view", "list", "activeFolder"} \subseteq DOMAIN u

\* The list of u, if a load or a poll brought it, is that of its label and account.
ListIsOurs(u) ==
    u.list.by \in {"switch", "folder", "poll"} => u.list.label = u.view /\ u.list.account = u.account

\* An update that asks for no list: the load awaited stays, or it is given up,
\* which a change of account does.
Moves(u, v) ==
    /\ DOMAIN v = DOMAIN u
    /\ ListIsOurs(u) => ListIsOurs(v)
    /\ v.activeFolder # 0 => v.activeFolder = u.activeFolder /\ v.account = u.account

LEMMA MovesTwice ==
  ASSUME NEW u, NEW v, NEW w, Moves(u, v), Moves(v, w)
  PROVE  Moves(u, w)
  BY DEF Moves

LEMMA SameMoves ==
  ASSUME NEW u, NEW v, DOMAIN v = DOMAIN u, v.list = u.list, v.view = u.view,
         v.account = u.account, v.activeFolder = u.activeFolder
  PROVE  Moves(u, v)
  BY DEF Moves, ListIsOurs

LEMMA NormalizeMoves ==
  ASSUME NEW u, HasList(u)
  PROVE  Moves(u, normalize(u)) /\ HasList(normalize(u))
  BY SameMoves DEF normalize, FollowList, HasList

LEMMA InvalidateMoves ==
  ASSUME NEW u, HasList(u)
  PROVE  Moves(u, invalidate_server_search(u)) /\ HasList(invalidate_server_search(u))
  BY SameMoves DEF invalidate_server_search, HasList

LEMMA StopMoves ==
  ASSUME NEW u, HasList(u)
  PROVE  Moves(u, stop_background_sync(u)) /\ HasList(stop_background_sync(u))
  BY SameMoves DEF stop_background_sync, HasList

LEMMA VerifiedMoves ==
  ASSUME NEW u, NEW account, HasList(u)
  PROVE  Moves(u, Verified(u, account)) /\ HasList(Verified(u, account))
  <1> DEFINE v == [Forgotten(u) EXCEPT !.account = account]
  <1>1. CASE u.account = account
    <2>1. Verified(u, account) = [u EXCEPT !.account = account]
      BY <1>1 DEF Verified
    <2> QED  BY <1>1, <2>1, SameMoves DEF HasList
  <1>2. CASE u.account # account
    <2>1. DOMAIN stop_background_sync(u) = DOMAIN u
      BY StopMoves DEF Moves
    <2>2. /\ DOMAIN Forgotten(u) = DOMAIN u
          /\ Forgotten(u).list = NoList /\ Forgotten(u).activeFolder = 0
      BY <2>1 DEF Forgotten, HasList
    <2>3. DOMAIN v = DOMAIN u /\ v.list = NoList /\ v.activeFolder = 0
      BY <2>2 DEF HasList
    <2>4. Verified(u, account) = v
      BY <1>2 DEF Verified
    <2> HIDE DEF v
    <2>5. ListIsOurs(v)
      BY <2>3 DEF ListIsOurs, NoList
    <2>6. Moves(u, v) /\ HasList(v)
      BY <2>3, <2>5 DEF Moves, HasList
    <2> QED  BY <2>4, <2>6
  <1> QED  BY <1>1, <1>2

LEMMA UnavailableMoves ==
  ASSUME NEW u, HasList(u)
  PROVE  Moves(u, WorkerUnavailable(u))
  <1> DEFINE v == invalidate_server_search(stop_background_sync(u))
             w == [v EXCEPT !.operation = 0, !.session = "Stopped",
                      !.reader = IF @.state = "Loading" THEN [state |-> "Failed", id |-> @.id] ELSE @]
  <1>1. Moves(u, stop_background_sync(u)) /\ HasList(stop_background_sync(u))
    BY StopMoves
  <1>2. Moves(u, v) /\ HasList(v)
    BY <1>1, InvalidateMoves, MovesTwice
  <1>3. WorkerUnavailable(u) = w
    BY DEF WorkerUnavailable
  <1> HIDE DEF v
  <1>4. Moves(v, w)
    BY <1>2, SameMoves DEF HasList
  <1> QED  BY <1>2, <1>3, <1>4, MovesTwice

\* A load under way that is the one awaited speaks for the account of the list.
Claim(f, asked, u) ==
    /\ f.request \in Nat /\ f.request # 0 /\ f.request <= asked
    /\ f.request = u.activeFolder => f.account = u.account

Claims(s, type, asked, u) ==
    IsSeq(s) /\ \A i \in DOMAIN s : s[i].type = type => Claim(s[i], asked, u)

ListInv ==
    /\ HasList(ui) /\ gestures \in Nat
    /\ Claims(commands, "FetchFolder", gestures, ui)
    /\ Claims(events, "FolderLoaded", gestures, ui)
    /\ DOMAIN tasks = TaskKinds
    /\ Busy("folder") => "of" \in DOMAIN tasks["folder"] /\ Claim(tasks["folder"].of, gestures, ui)
    /\ ListIsOurs(ui)

LEMMA ClaimStays ==
  ASSUME NEW f, NEW asked \in Nat, NEW u, Claim(f, asked, u), NEW v, Moves(u, v),
         NEW more \in Nat, asked <= more
  PROVE  Claim(f, more, v)
  BY DEF Claim, Moves

LEMMA ClaimsStay ==
  ASSUME NEW s, NEW type, NEW asked \in Nat, NEW u, Claims(s, type, asked, u), NEW v, Moves(u, v),
         NEW more \in Nat, asked <= more
  PROVE  Claims(s, type, more, v)
  BY ClaimStays DEF Claims

LEMMA ClaimsTogether ==
  ASSUME NEW s, NEW t, NEW type, NEW asked, NEW u, Claims(s, type, asked, u), Claims(t, type, asked, u)
  PROVE  Claims(s \o t, type, asked, u)
  <1>1. IsSeq(s) /\ IsSeq(t)
    BY DEF Claims
  <1>2. ASSUME NEW i \in DOMAIN (s \o t), (s \o t)[i].type = type PROVE Claim((s \o t)[i], asked, u)
    <2>1. CASE i \in DOMAIN s
      BY <1>1, <1>2, <2>1, TwoSequences DEF Claims
    <2>2. CASE i \notin DOMAIN s
      <3>1. i - Len(s) \in DOMAIN t /\ (s \o t)[i] = t[i - Len(s)]
        BY <1>1, <1>2, <2>2, TwoSequences
      <3> QED  BY <1>2, <3>1 DEF Claims
    <2> QED  BY <2>1, <2>2
  <1>3. IsSeq(s \o t)
    BY <1>1, TwoSequences
  <1> QED  BY <1>2, <1>3 DEF Claims

LEMMA OneClaim ==
  ASSUME NEW c, NEW type, NEW asked, NEW u, c.type = type => Claim(c, asked, u)
  PROVE  Claims(<<c>>, type, asked, u)
  <1>1. IsSeq(<<c>>)
    <2>1. <<c>> \in Seq({c})
      OBVIOUS
    <2> QED  BY <2>1 DEF IsSeq
  <1>2. DOMAIN <<c>> = {1} /\ <<c>>[1] = c
    OBVIOUS
  <1> QED  BY <1>1, <1>2 DEF Claims

LEMMA NoClaim ==
  ASSUME NEW type, NEW asked, NEW u
  PROVE  Claims(<<>>, type, asked, u)
  <1>1. IsSeq(<<>>) /\ DOMAIN <<>> = {}
    BY NoCommand DEF NoClear
  <1> QED  BY <1>1 DEF Claims

LEMMA OneClaimLess ==
  ASSUME NEW s, s # <<>>, NEW type, NEW asked, NEW u, Claims(s, type, asked, u)
  PROVE  Claims(Tail(s), type, asked, u) /\ (Head(s).type = type => Claim(Head(s), asked, u))
  <1>1. PICK S : s \in Seq(S)
    BY DEF Claims, IsSeq
  <1>2. /\ Tail(s) \in Seq(S) /\ 1 \in DOMAIN s /\ Head(s) = s[1]
        /\ \A i \in DOMAIN Tail(s) : i + 1 \in DOMAIN s /\ Tail(s)[i] = s[i + 1]
    BY <1>1
  <1> QED  BY <1>2 DEF Claims, IsSeq

LEMMA OneClaimMore ==
  ASSUME NEW s, NEW c, NEW type, NEW asked, NEW u, Claims(s, type, asked, u),
         c.type = type => Claim(c, asked, u)
  PROVE  Claims(Append(s, c), type, asked, u)
  <1>1. Append(s, c) = s \o <<c>>
    <2>1. PICK S : s \in Seq(S)
      BY DEF Claims, IsSeq
    <2>2. s \in Seq(S \cup {c})
      BY <2>1
    <2> QED  BY <2>2
  <1> QED  BY <1>1, OneClaim, ClaimsTogether

LEMMA ClaimsAfresh ==
  ASSUME NEW s, NEW type, NEW asked \in Nat, NEW u, Claims(s, type, asked, u),
         NEW v, v.activeFolder = asked + 1
  PROVE  Claims(s, type, asked + 1, v)
  <1>1. ASSUME NEW f, Claim(f, asked, u) PROVE Claim(f, asked + 1, v)
    BY <1>1 DEF Claim
  <1> QED  BY <1>1 DEF Claims

LEMMA DispatchLists ==
  ASSUME NEW update, NEW x, HasList(x), ListIsOurs(x), Moves(x, update.ui), gestures' \in Nat,
         Claims(commands, "FetchFolder", gestures', x),
         Claims(update.send, "FetchFolder", gestures', x),
         Claims(events', "FolderLoaded", gestures', x),
         DOMAIN tasks = TaskKinds,
         Busy("folder") => "of" \in DOMAIN tasks["folder"] /\ Claim(tasks["folder"].of, gestures', x),
         tasks' = tasks, Dispatch(update)
  PROVE  ListInv'
  <1>1. Moves(x, ui')
    <2>1. ui' = update.ui \/ ui' = WorkerUnavailable(update.ui)
      BY DEF Dispatch
    <2>2. HasList(update.ui)
      BY DEF Moves, HasList
    <2> QED  BY <2>1, <2>2, UnavailableMoves, MovesTwice
  <1>2. Claims(commands', "FetchFolder", gestures', x)
    <2>1. commands' = commands \/ commands' = commands \o update.send
      BY DEF Dispatch
    <2> QED  BY <2>1, ClaimsTogether
  <1>3. Claims(commands', "FetchFolder", gestures', ui') /\ Claims(events', "FolderLoaded", gestures', ui')
    BY <1>1, <1>2, ClaimsStay
  <1>4. Busy("folder")' => "of" \in DOMAIN tasks'["folder"] /\ Claim(tasks'["folder"].of, gestures', ui')
    BY <1>1, ClaimStays DEF Busy
  <1>5. HasList(ui') /\ ListIsOurs(ui')
    BY <1>1 DEF Moves, HasList
  <1> QED  BY <1>3, <1>4, <1>5 DEF ListInv

\* What the UI does apart from load_folder (no claim has a request below 1).
Calm(update) == Moves(ui, update.ui) /\ Claims(update.send, "FetchFolder", 0, ui)

LEMMA UiMoves == Moves(ui, ui)
  BY DEF Moves

LEMMA GestureLists ==
  ASSUME ListInv, NEW update, Calm(update), Gesture(update)
  PROVE  ListInv'
  <1>1. /\ gestures' = gestures + 1 /\ gestures \in Nat /\ gestures' \in Nat
        /\ gestures <= gestures' /\ 0 <= gestures' /\ events' = events /\ tasks' = tasks
        /\ Dispatch(update)
    BY DEF Gesture, ListInv, worker
  <1>2. /\ Claims(commands, "FetchFolder", gestures', ui)
        /\ Claims(events', "FolderLoaded", gestures', ui)
        /\ Claims(update.send, "FetchFolder", gestures', ui)
    BY <1>1, UiMoves, ClaimsStay DEF ListInv, Calm
  <1>3. Busy("folder") => "of" \in DOMAIN tasks["folder"] /\ Claim(tasks["folder"].of, gestures', ui)
    BY <1>1, UiMoves, ClaimStays DEF ListInv
  <1>4. HasList(ui) /\ ListIsOurs(ui) /\ Moves(ui, update.ui) /\ DOMAIN tasks = TaskKinds
    BY DEF ListInv, Calm
  <1> QED  BY <1>1, <1>2, <1>3, <1>4, DispatchLists

LEMMA CancelClaims ==
  ASSUME NEW c, c.type # "FetchFolder"
  PROVE  /\ Claims(CancelOf(ui), "FetchFolder", 0, ui) /\ Claims(<<c>>, "FetchFolder", 0, ui)
         /\ Claims(CancelOf(ui) \o <<c>>, "FetchFolder", 0, ui)
  <1>1. Claims(CancelOf(ui), "FetchFolder", 0, ui)
    BY NoClaim, OneClaim DEF CancelOf
  <1>2. Claims(<<c>>, "FetchFolder", 0, ui)
    BY OneClaim
  <1> QED  BY <1>1, <1>2, ClaimsTogether

LEMMA OpenCalm ==
  ASSUME NEW u, HasList(u)
  PROVE  Moves(u, open_selected(u).ui) /\ Claims(open_selected(u).send, "FetchFolder", 0, ui)
  <1> DEFINE c == [type |-> "FetchBody", request |-> Ask, id |-> u.selected,
                   generation |-> u.cacheGen, account |-> u.account]
             w == [u EXCEPT !.reader = [state |-> "Loading", id |-> u.selected, request |-> Ask,
                                        generation |-> u.cacheGen]]
             closed == [u EXCEPT !.reader = Closed]
  <1>1. Claims(<<>>, "FetchFolder", 0, ui) /\ Claims(<<c>>, "FetchFolder", 0, ui)
    BY NoClaim, OneClaim
  <1>2. Moves(u, closed) /\ Moves(u, u) /\ Moves(u, w)
    BY SameMoves DEF HasList
  <1>3. open_selected(u) \in {Quiet(closed), Quiet(u), Sending(w, <<c>>)}
    BY DEF open_selected
  <1> HIDE DEF w, c, closed
  <1> QED  BY <1>1, <1>2, <1>3 DEF Quiet, Sending

LEMMA LoadLists ==
  ASSUME ListInv, NEW label \in Labels, load_folder(label)
  PROVE  ListInv'
  <1> DEFINE v == invalidate_server_search(ui)
             empty == [account |-> ui.account, label |-> label, rows |-> {}, by |-> "switch"]
             w == IF ui.view = label THEN v
                  ELSE [v EXCEPT !.list = empty, !.selected = NoMessage, !.reader = Closed]
             x == [w EXCEPT !.folderGen = @ + 1, !.activeFolder = Ask, !.folderLoading = TRUE,
                            !.view = label]
             c == [type |-> "FetchFolder", request |-> Ask, label |-> label,
                   generation |-> ui.folderGen + 1, account |-> ui.account]
             send == CancelOf(ui) \o <<c>>
             update == Sending(normalize(x), send)
  <1>1. Gesture(update)
    BY DEF load_folder
  <1>2. /\ HasList(v) /\ v.account = ui.account /\ v.list = ui.list /\ v.view = ui.view
        /\ HasList(ui) /\ ListIsOurs(ui)
    BY DEF ListInv, HasList, invalidate_server_search
  <1> HIDE DEF v
  <1>3. /\ HasList(w) /\ w.account = ui.account
        /\ ui.view = label => w.list = ui.list
        /\ ui.view # label => w.list = empty
    BY <1>2 DEF HasList
  <1> HIDE DEF w
  <1>4. /\ HasList(x) /\ x.account = ui.account /\ x.view = label /\ x.list = w.list
        /\ x.activeFolder = gestures + 1
    BY <1>3 DEF HasList, Ask
  <1>5. c.type = "FetchFolder" /\ c.request = gestures + 1 /\ c.account = ui.account
    BY DEF Ask
  <1> HIDE DEF x, c
  <1>6. ListIsOurs(x)
    BY <1>2, <1>3, <1>4 DEF ListIsOurs
  <1>7. /\ gestures \in Nat /\ gestures' = gestures + 1 /\ gestures' \in Nat
        /\ events' = events /\ tasks' = tasks /\ DOMAIN tasks = TaskKinds /\ Dispatch(update)
    BY <1>1 DEF Gesture, ListInv, worker
  <1>8. /\ Claims(commands, "FetchFolder", gestures', x)
        /\ Claims(events', "FolderLoaded", gestures', x)
    BY <1>4, <1>7, ClaimsAfresh DEF ListInv
  <1>9. Busy("folder") => "of" \in DOMAIN tasks["folder"] /\ Claim(tasks["folder"].of, gestures', x)
    BY <1>4, <1>7 DEF ListInv, Claim
  <1>10. Claims(send, "FetchFolder", gestures', x)
    <2>1. Claims(CancelOf(ui), "FetchFolder", gestures', x)
      BY NoClaim, OneClaim DEF CancelOf
    <2>2. Claim(c, gestures', x)
      BY <1>4, <1>5, <1>7 DEF Claim
    <2> QED  BY <2>1, <2>2, OneClaim, ClaimsTogether
  <1>11. Moves(x, update.ui) /\ update.send = send
    BY <1>4, NormalizeMoves DEF Sending
  <1> HIDE DEF update, send
  <1> QED  BY <1>4, <1>6, <1>7, <1>8, <1>9, <1>10, <1>11, DispatchLists

LEMMA SubmitLists ==
  ASSUME ListInv, NEW query, SubmitWith(query)
  PROVE  ListInv'
  <1> DEFINE v == invalidate_server_search(ui)
             w == [v EXCEPT !.query = query, !.searchGen = @ + 1, !.selected = NoMessage, !.reader = Closed,
                      !.search = [state |-> "Loading", request |-> Ask, query |-> query,
                                  generation |-> v.searchGen + 1]]
             c == [type |-> "SearchGmail", request |-> Ask, query |-> query,
                   generation |-> v.searchGen + 1, account |-> ui.account]
             update == Sending(w, CancelOf(ui) \o <<c>>)
  <1>1. Moves(ui, v) /\ HasList(v)
    BY InvalidateMoves DEF ListInv
  <1>2. c.type # "FetchFolder"
    OBVIOUS
  <1>3. Gesture(update)
    BY DEF SubmitWith
  <1> HIDE DEF v, c
  <1>4. Moves(v, w)
    BY <1>1, SameMoves DEF HasList
  <1> HIDE DEF w
  <1>5. Calm(update)
    BY <1>1, <1>2, <1>4, MovesTwice, CancelClaims DEF Sending, Calm
  <1> HIDE DEF update
  <1> QED  BY <1>3, <1>5, GestureLists

LEMMA PersonLists ==
  ASSUME ListInv,
         \/ \E kind \in {"Restore", "Connect"} : start(kind)
         \/ \E query \in Queries : SetSearch(query)
         \/ submit_server_search \/ cancel_server_search \/ retry_server_search
         \/ \E id \in Messages : select_message(id)
         \/ retry_body \/ clear_body_cache \/ AccountRows
  PROVE  ListInv'
  <1> DEFINE v == invalidate_server_search(ui)
  <1>1. HasList(ui) /\ Moves(ui, v) /\ HasList(v)
    BY InvalidateMoves DEF ListInv
  <1> HIDE DEF v
  <1>2. ASSUME NEW kind \in {"Restore", "Connect"}, start(kind) PROVE ListInv'
    <2> DEFINE w == [v EXCEPT !.operation = Ask, !.session = "Syncing", !.folderGen = @ + 1,
                      !.activeFolder = 0, !.folderLoading = FALSE,
                      !.reader = IF @.state = "Loading" THEN Closed ELSE @]
               c == [type |-> kind, operation |-> Ask]
    <2>1. Moves(v, w)
      BY <1>1 DEF Moves, HasList, ListIsOurs
    <2>2. c.type # "FetchFolder"
      OBVIOUS
    <2>3. Gesture(Sending(w, CancelOf(ui) \o <<c>>))
      BY <1>2 DEF start, v
    <2> HIDE DEF w, c
    <2>4. Calm(Sending(w, CancelOf(ui) \o <<c>>))
      BY <1>1, <2>1, <2>2, MovesTwice, CancelClaims DEF Sending, Calm
    <2> QED  BY <2>3, <2>4, GestureLists
  <1>3. Claims(CancelOf(ui), "FetchFolder", 0, ui)
    BY NoClaim, OneClaim DEF CancelOf
  <1>4. ASSUME NEW query \in Queries, SetSearch(query) PROVE ListInv'
    <2> DEFINE x == [v EXCEPT !.query = query]
    <2>1. Moves(ui, x) /\ HasList(x)
      <3>1. Moves(v, x) /\ HasList(x)
        BY <1>1, SameMoves DEF HasList
      <3> QED  BY <1>1, <3>1, MovesTwice
    <2>2. Gesture(Sending(normalize(x), CancelOf(ui)))
      BY <1>4 DEF SetSearch, v
    <2> HIDE DEF x
    <2>3. Calm(Sending(normalize(x), CancelOf(ui)))
      BY <1>3, <2>1, NormalizeMoves, MovesTwice DEF Sending, Calm
    <2> QED  BY <2>2, <2>3, GestureLists
  <1>5. CASE cancel_server_search
    <2>1. Gesture(Sending(normalize(v), CancelOf(ui)))
      BY <1>5 DEF cancel_server_search, v
    <2>2. Calm(Sending(normalize(v), CancelOf(ui)))
      BY <1>1, <1>3, NormalizeMoves, MovesTwice DEF Sending, Calm
    <2> QED  BY <2>1, <2>2, GestureLists
  <1>6. ASSUME NEW id \in Messages, select_message(id) PROVE ListInv'
    <2> DEFINE x == [ui EXCEPT !.selected = id]
    <2>1. Moves(ui, x) /\ HasList(x)
      BY <1>1, SameMoves DEF HasList
    <2>2. Gesture(open_selected(x))
      BY <1>6 DEF select_message
    <2> HIDE DEF x
    <2>3. Calm(open_selected(x))
      BY <2>1, OpenCalm, MovesTwice DEF Calm
    <2> QED  BY <2>2, <2>3, GestureLists
  <1>7. CASE retry_body
    <2>1. Calm(open_selected(ui))
      BY <1>1, OpenCalm DEF Calm
    <2> QED  BY <1>7, <2>1, GestureLists DEF retry_body
  <1>8. CASE clear_body_cache
    <2> DEFINE w == [ui EXCEPT !.cacheGen = @ + 1, !.clearing = Ask, !.reader = Closed]
               c == [type |-> "ClearBodyCache", operation |-> Ask, generation |-> ui.cacheGen + 1]
    <2>1. Moves(ui, w) /\ c.type # "FetchFolder"
      BY <1>1, SameMoves DEF HasList
    <2>2. Gesture(Sending(w, <<c>>))
      BY <1>8 DEF clear_body_cache
    <2> HIDE DEF w, c
    <2>3. Calm(Sending(w, <<c>>))
      BY <2>1, CancelClaims DEF Sending, Calm
    <2> QED  BY <2>2, <2>3, GestureLists
  <1>9. CASE AccountRows
    <2> DEFINE x == [ui EXCEPT !.projection = ~@]
    <2>1. Moves(ui, x)
      BY <1>1, SameMoves DEF HasList
    <2>2. Gesture(Quiet(x))
      BY <1>9 DEF AccountRows
    <2> HIDE DEF x
    <2>3. Calm(Quiet(x))
      BY <2>1, NoClaim DEF Quiet, Calm
    <2> QED  BY <2>2, <2>3, GestureLists
  <1> QED  BY <1>2, <1>4, <1>5, <1>6, <1>7, <1>8, <1>9, SubmitLists DEF submit_server_search, retry_server_search

\* The timer and the events: no gesture.
LEMMA CalmLists ==
  ASSUME ListInv, NEW update, Calm(update), Dispatch(update), gestures' = gestures, UNCHANGED worker,
         \/ events' = events
         \/ events # <<>> /\ events' = Tail(events)
  PROVE  ListInv'
  <1>1. /\ gestures \in Nat /\ gestures' \in Nat /\ 0 <= gestures' /\ tasks' = tasks
        /\ Claims(commands, "FetchFolder", gestures', ui)
        /\ HasList(ui) /\ ListIsOurs(ui) /\ Moves(ui, update.ui) /\ DOMAIN tasks = TaskKinds
    BY DEF ListInv, Calm, worker
  <1>2. Claims(update.send, "FetchFolder", gestures', ui)
    BY <1>1, UiMoves, ClaimsStay DEF Calm
  <1>3. Claims(events', "FolderLoaded", gestures', ui)
    BY OneClaimLess DEF ListInv
  <1>4. Busy("folder") => "of" \in DOMAIN tasks["folder"] /\ Claim(tasks["folder"].of, gestures', ui)
    BY DEF ListInv
  <1> QED  BY <1>1, <1>2, <1>3, <1>4, DispatchLists

LEMMA TimerLists ==
  ASSUME ListInv, background_sync_timer
  PROVE  ListInv'
  <1> DEFINE c == [type |-> "BackgroundSync", request |-> polls + 1, account |-> ui.account]
             x == [ui EXCEPT !.inFlight = polls + 1, !.pendingTick = FALSE]
             y == [ui EXCEPT !.pendingTick = TRUE]
             z == [y EXCEPT !.schedule = @ + 1]
             begun == Sending(x, <<c>>)
             update == IF timer # ui.schedule \/ ui.paused THEN Quiet(ui)
                       ELSE IF can_begin_background_sync(ui) THEN begun
                       ELSE Arming(y)
             last == [update EXCEPT !.timer = IF @ = "keep" THEN "fired" ELSE @]
  <1>1. Dispatch(last) /\ UNCHANGED <<worker, events, gestures>>
    BY DEF background_sync_timer
  <1>2. HasList(ui)
    BY DEF ListInv
  <1>3. Moves(ui, x) /\ Moves(ui, z) /\ Moves(ui, ui)
    BY <1>2, SameMoves DEF HasList
  <1>4. Claims(<<>>, "FetchFolder", 0, ui) /\ Claims(<<c>>, "FetchFolder", 0, ui)
    BY NoClaim, OneClaim
  <1>5. update \in {Quiet(ui), begun, [ui |-> z, send |-> <<>>, timer |-> "arm"]}
    BY DEF Arming
  <1> HIDE DEF c, x, y, z, update
  <1>6. last.ui = update.ui /\ last.send = update.send
    BY <1>5 DEF Quiet, Sending
  <1>7. Calm(update)
    BY <1>3, <1>4, <1>5 DEF Quiet, Sending, Calm
  <1>8. Calm(last)
    BY <1>6, <1>7 DEF Calm
  <1> HIDE DEF last
  <1> QED  BY <1>1, <1>8, CalmLists

LEMMA EventCalm ==
  ASSUME HasList(ui), NEW e, e.type = "FolderLoaded" => Claim(e, gestures, ui)
  PROVE  Calm(worker_event(ui, e))
  <1>1. ASSUME NEW u, Moves(ui, u)
        PROVE  Calm(Quiet(u)) /\ Calm(Arming(u))
    <2>1. HasList(u)
      BY <1>1 DEF Moves, HasList
    <2>2. Moves(u, [u EXCEPT !.schedule = @ + 1])
      BY <2>1, SameMoves DEF HasList
    <2>3. Moves(ui, [u EXCEPT !.schedule = @ + 1])
      BY <1>1, <2>2, MovesTwice
    <2> QED  BY <1>1, <2>3, NoClaim DEF Calm, Quiet, Arming
  <1>2. ASSUME NEW u, Moves(ui, u) PROVE Moves(ui, normalize(u)) /\ HasList(normalize(u))
    <2>1. HasList(u)
      BY <1>2 DEF Moves, HasList
    <2> QED  BY <1>2, <2>1, NormalizeMoves, MovesTwice
  <1>3. ASSUME e.type \in OfOperation PROVE Calm(AccountEvent(ui, e))
    <2> DEFINE v == Verified(ui, e.account)
               syncing == [v EXCEPT !.session = "Syncing"]
               cached == [v EXCEPT !.view = "Inbox", !.list = InboxOf(e, "sync")]
               synced == [v EXCEPT !.list = InboxOf(e, "sync")]
               failed == [ui EXCEPT !.operation = 0, !.session = "Stopped"]
    <2>1. Moves(ui, v) /\ HasList(v)
      BY VerifiedMoves
    <2>2. AccountEvent(ui, e) \in {Quiet(ui), Quiet(v), Quiet(syncing), Quiet(normalize(cached)),
                                   SyncComplete(ui, e), Quiet(failed)}
      BY <1>3 DEF AccountEvent, OfOperation
    <2>3. SyncComplete(ui, e) = Arming([normalize(synced) EXCEPT !.session = "Ready", !.operation = 0,
                                                                 !.paused = FALSE])
      BY DEF SyncComplete
    <2>4. Moves(ui, failed)
      BY SameMoves DEF HasList
    <2> HIDE DEF v
    <2>5. Moves(ui, syncing)
      <3>1. Moves(v, syncing)
        BY <2>1, SameMoves DEF HasList
      <3> QED  BY <2>1, <3>1, MovesTwice
    <2>6. Moves(ui, cached) /\ Moves(ui, synced)
      <3>1. Moves(v, cached) /\ Moves(v, synced)
        BY <2>1 DEF HasList, Moves, ListIsOurs, InboxOf
      <3> QED  BY <2>1, <3>1, MovesTwice
    <2> HIDE DEF syncing, cached, synced, failed
    <2>7. Calm(SyncComplete(ui, e))
      <3>1. Moves(ui, normalize(synced)) /\ HasList(normalize(synced))
        BY <1>2, <2>6
      <3>2. Moves(normalize(synced), [normalize(synced) EXCEPT !.session = "Ready", !.operation = 0,
                                                               !.paused = FALSE])
        BY <3>1, SameMoves DEF HasList
      <3>3. Moves(ui, [normalize(synced) EXCEPT !.session = "Ready", !.operation = 0, !.paused = FALSE])
        BY <3>1, <3>2, MovesTwice
      <3> QED  BY <1>1, <2>3, <3>3
    <2>8. Calm(Quiet(ui)) /\ Calm(Quiet(v)) /\ Calm(Quiet(syncing)) /\ Calm(Quiet(failed))
      BY <1>1, <2>1, <2>4, <2>5, UiMoves
    <2>9. Calm(Quiet(normalize(cached)))
      BY <1>1, <1>2, <2>6
    <2> QED  BY <2>2, <2>7, <2>8, <2>9
  <1>4. ASSUME e.type \in {"FolderLoaded", "FolderFailed"} PROVE Calm(FolderEvent(ui, e))
    <2>1. CASE ~FolderEventIsCurrent(ui, e)
      BY <1>1, <2>1, UiMoves DEF FolderEvent
    <2>2. CASE FolderEventIsCurrent(ui, e) /\ e.type = "FolderLoaded"
      <3> DEFINE v == [ui EXCEPT !.list = [account |-> e.account, label |-> e.label, rows |-> e.rows,
                                           by |-> "folder"],
                                 !.folderLoading = e.cached]
                 w == IF e.cached THEN v ELSE [v EXCEPT !.activeFolder = 0, !.session = "Ready"]
      <3>1. e.account = ui.account /\ e.label = ui.view
        BY <2>2 DEF FolderEventIsCurrent, Claim
      <3>2. /\ DOMAIN w = DOMAIN ui /\ w.view = ui.view /\ w.account = ui.account
            /\ w.list.label = e.label /\ w.list.account = e.account
            /\ w.activeFolder = 0 \/ w.activeFolder = ui.activeFolder
        BY DEF HasList
      <3> HIDE DEF w
      <3>3. Moves(ui, w)
        BY <3>1, <3>2 DEF Moves, ListIsOurs
      <3>4. folder_loaded(ui, e) = normalize(w)
        BY DEF folder_loaded, w
      <3>5. Calm(Quiet(normalize(w)))
        BY <1>1, <1>2, <3>3
      <3>6. FolderEvent(ui, e) = Quiet(normalize(w))
        BY <2>2, <3>4 DEF FolderEvent
      <3> QED  BY <3>5, <3>6
    <2>3. CASE FolderEventIsCurrent(ui, e) /\ e.type # "FolderLoaded"
      <3>1. Moves(ui, folder_failed(ui, e))
        BY DEF folder_failed, HasList, Moves, ListIsOurs
      <3>2. FolderEvent(ui, e) = Quiet(folder_failed(ui, e))
        BY <2>3 DEF FolderEvent
      <3> QED  BY <1>1, <3>1, <3>2
    <2> QED  BY <2>1, <2>2, <2>3
  <1>5. Calm(SearchEvent(ui, e))
    <2> DEFINE v == [ui EXCEPT !.search = [state |-> "Loaded", rows |-> e.rows,
                                           query |-> e.query, account |-> e.account],
                               !.selected = NoMessage, !.reader = Closed]
               w == [ui EXCEPT !.search = [state |-> "Failed", query |-> @.query]]
    <2>1. Moves(ui, v) /\ Moves(ui, w)
      BY SameMoves DEF HasList
    <2>2. SearchEvent(ui, e) \in {Quiet(ui), Quiet(normalize(v)), Quiet(normalize(w))}
      BY DEF SearchEvent
    <2> HIDE DEF v, w
    <2>3. Calm(Quiet(ui)) /\ Calm(Quiet(normalize(v))) /\ Calm(Quiet(normalize(w)))
      BY <1>1, <1>2, <2>1, UiMoves
    <2> QED  BY <2>2, <2>3
  <1>6. Calm(BodyEvent(ui, e)) /\ Calm(CacheEvent(ui, e))
    <2> DEFINE v == [ui EXCEPT !.reader = [state |-> "Loaded", id |-> e.id, of |-> e.account]]
               w == [ui EXCEPT !.reader = [state |-> "Failed", id |-> e.id]]
               x == [ui EXCEPT !.clearing = 0, !.reader = IF e.type = "CacheCleared" THEN Closed ELSE @]
    <2>1. Moves(ui, v) /\ Moves(ui, w) /\ Moves(ui, x)
      BY SameMoves DEF HasList
    <2>2. BodyEvent(ui, e) \in {Quiet(ui), Quiet(v), Quiet(w)} /\ CacheEvent(ui, e) \in {Quiet(ui), Quiet(x)}
      BY DEF BodyEvent, CacheEvent
    <2> HIDE DEF v, w, x
    <2> QED  BY <1>1, <2>1, <2>2, UiMoves
  <1>7. Calm(background_worker_event(ui, e))
    <2> DEFINE v == [ui EXCEPT !.inFlight = 0]
               w == [v EXCEPT !.list = InboxOf(e, "poll")]
               x == [v EXCEPT !.paused = TRUE]
    <2>1. Moves(ui, v) /\ Moves(ui, x)
      BY SameMoves DEF HasList
    <2>2. ui.view = "Inbox" /\ ui.account = e.account => Moves(ui, w)
      BY DEF HasList, Moves, ListIsOurs, InboxOf
    <2>3. \/ background_worker_event(ui, e) \in {Quiet(ui), Arming(v), Quiet(x)}
          \/ /\ ui.view = "Inbox" /\ ui.account = e.account
             /\ background_worker_event(ui, e) = Arming(normalize(w))
      BY DEF background_worker_event
    <2> HIDE DEF v, w, x
    <2>4. Calm(Quiet(ui)) /\ Calm(Arming(v)) /\ Calm(Quiet(x))
      BY <1>1, <2>1, UiMoves
    <2>5. ui.view = "Inbox" /\ ui.account = e.account => Calm(Arming(normalize(w)))
      BY <1>1, <1>2, <2>2
    <2> QED  BY <2>3, <2>4, <2>5
  <1> QED  BY <1>3, <1>4, <1>5, <1>6, <1>7 DEF worker_event

LEMMA ReceiveLists ==
  ASSUME ListInv, Receive
  PROVE  ListInv'
  <1>1. PICK e : e = Head(events)
    OBVIOUS
  <1>2. /\ Dispatch(worker_event(ui, e)) /\ UNCHANGED worker /\ gestures' = gestures
        /\ events # <<>> /\ events' = Tail(events)
    BY <1>1 DEF Receive, counts
  <1>3. HasList(ui) /\ (e.type = "FolderLoaded" => Claim(e, gestures, ui))
    BY <1>1, <1>2, OneClaimLess DEF ListInv
  <1>4. Calm(worker_event(ui, e))
    BY <1>3, EventCalm
  <1> QED  BY <1>2, <1>4, CalmLists

LEMMA UnavailableLists ==
  ASSUME ListInv, Unavailable
  PROVE  ListInv'
  <1>1. /\ UNCHANGED <<commands, events, gestures, tasks>> /\ ui' = WorkerUnavailable(ui)
        /\ HasList(ui) /\ gestures \in Nat /\ gestures <= gestures /\ ListIsOurs(ui)
    BY DEF Unavailable, worker, counts, ListInv
  <1>2. Moves(ui, ui')
    BY <1>1, UnavailableMoves
  <1>3. Claims(commands', "FetchFolder", gestures', ui') /\ Claims(events', "FolderLoaded", gestures', ui')
    BY <1>1, <1>2, ClaimsStay DEF ListInv
  <1>4. Busy("folder")' => "of" \in DOMAIN tasks'["folder"] /\ Claim(tasks'["folder"].of, gestures', ui')
    BY <1>1, <1>2, ClaimStays DEF Busy, ListInv
  <1> QED  BY <1>1, <1>2, <1>3, <1>4 DEF ListInv, Moves, HasList

\* The worker leaves the UI alone, says one thing at a time, and a folder task
\* is the one that ran, or that of a command.
LEMMA WorkerLists ==
  ASSUME ListInv, UNCHANGED <<ui, gestures>>, Claims(commands', "FetchFolder", gestures, ui),
         \/ events' = events
         \/ \E e : Says(e) /\ (e.type = "FolderLoaded" => Claim(e, gestures, ui)),
         DOMAIN tasks' = TaskKinds,
         \/ tasks'["folder"] \in {tasks["folder"], NoTask}
         \/ "of" \in DOMAIN tasks'["folder"] /\ Claim(tasks'["folder"].of, gestures, ui)
  PROVE  ListInv'
  <1>1. Claims(events', "FolderLoaded", gestures, ui)
    BY OneClaimMore DEF ListInv, Says
  <1>2. Busy("folder")' => "of" \in DOMAIN tasks'["folder"] /\ Claim(tasks'["folder"].of, gestures, ui)
    BY DEF Busy, ListInv
  <1> QED  BY <1>1, <1>2 DEF ListInv, HasList, ListIsOurs

LEMMA ControlLists ==
  ASSUME ListInv, Control
  PROVE  ListInv'
  <1>1. PICK c : c = Head(commands)
    OBVIOUS
  <1>2. /\ commands # <<>> /\ commands' = Tail(commands) /\ UNCHANGED <<ui, gestures>>
        /\ CASE c.type = "FetchFolder" -> FetchFolder(c)
             [] c.type = "CancelSearch" -> CancelSearch(c)
             [] c.type = "SearchGmail" -> SearchGmail(c)
             [] c.type = "FetchBody" -> FetchBody(c)
             [] c.type = "ClearBodyCache" -> ClearBodyCache(c)
             [] c.type = "BackgroundSync" -> BackgroundSync(c)
             [] OTHER -> AccountBoundary(c)
    BY <1>1 DEF Control, counts
  <1>3. /\ Claims(commands', "FetchFolder", gestures, ui)
        /\ c.type = "FetchFolder" => Claim(c, gestures, ui)
    BY <1>1, <1>2, OneClaimLess DEF ListInv
  <1>4. DOMAIN tasks = TaskKinds /\ "folder" \in TaskKinds
    BY DEF ListInv, TaskKinds
  <1>5. CASE c.type = "FetchFolder"
    <2>1. FetchFolder(c)
      BY <1>2, <1>5
    <2>2. /\ DOMAIN tasks' = TaskKinds /\ events' = events
          /\ tasks'["folder"] = [kind |-> "folder", of |-> c, stage |-> "cache"]
      BY <1>4, <2>1 DEF FetchFolder, Begin
    <2>3. "of" \in DOMAIN tasks'["folder"] /\ tasks'["folder"].of = c
      BY <2>2
    <2> QED  BY <1>2, <1>3, <1>5, <2>2, <2>3, WorkerLists
  <1>6. CASE c.type # "FetchFolder"
    <2>1. CancelSearch(c) \/ SearchGmail(c) \/ FetchBody(c) \/ ClearBodyCache(c)
            \/ BackgroundSync(c) \/ AccountBoundary(c)
      BY <1>2, <1>6
    <2>2. DOMAIN tasks' = TaskKinds /\ tasks'["folder"] \in {tasks["folder"], NoTask}
      BY <1>4, <2>1 DEF CancelSearch, SearchGmail, FetchBody, ClearBodyCache, BackgroundSync,
                        AccountBoundary, Begin
    <2>3. events' = events \/ \E e : Says(e) /\ e.type # "FolderLoaded"
      <3>1. ASSUME NEW request PROVE PollFailed(request, TRUE).type # "FolderLoaded"
        BY DEF PollFailed
      <3>2. CASE ClearBodyCache(c)
        BY <3>2 DEF ClearBodyCache, Says
      <3>3. CASE BackgroundSync(c) \/ AccountBoundary(c)
        BY <3>1, <3>3 DEF BackgroundSync, AccountBoundary, Says
      <3>4. CASE CancelSearch(c) \/ SearchGmail(c) \/ FetchBody(c)
        BY <3>4 DEF CancelSearch, SearchGmail, FetchBody
      <3> QED  BY <2>1, <3>2, <3>3, <3>4
    <2> QED  BY <1>2, <1>3, <2>2, <2>3, WorkerLists
  <1> QED  BY <1>5, <1>6

LEMMA FolderTaskLists ==
  ASSUME ListInv, FolderTask
  PROVE  ListInv'
  <1> DEFINE t == tasks["folder"]
             Loaded(rows, cached) ==
                [type |-> "FolderLoaded", request |-> t.of.request, generation |-> t.of.generation,
                 label |-> t.of.label, account |-> t.of.account, rows |-> rows, cached |-> cached]
             Failed(severe) ==
                [type |-> "FolderFailed", request |-> t.of.request, generation |-> t.of.generation,
                 label |-> t.of.label, severe |-> severe]
  <1>1. /\ UNCHANGED <<ui, gestures, commands>> /\ DOMAIN tasks = TaskKinds /\ "folder" \in TaskKinds
        /\ Claims(commands', "FetchFolder", gestures, ui)
        /\ "of" \in DOMAIN t /\ Claim(t.of, gestures, ui)
    BY DEF FolderTask, TaskStep, ListInv, counts, TaskKinds
  <1>2. tasks' = Begin("folder", NoTask) \/ tasks' = [tasks EXCEPT !["folder"].stage = "network"]
    BY DEF FolderTask, Ends, Goes
  <1>3. DOMAIN tasks' = TaskKinds
    BY <1>1, <1>2 DEF Begin
  <1>4. tasks'["folder"] # NoTask => "of" \in DOMAIN tasks'["folder"] /\ tasks'["folder"].of = t.of
    BY <1>1, <1>2 DEF Begin
  <1>5. \/ events' = events
        \/ \E rows : \E cached \in BOOLEAN : Says(Loaded(rows, cached))
        \/ \E severe \in BOOLEAN : Says(Failed(severe))
    BY DEF FolderTask
  <1>6. ASSUME NEW rows, NEW cached PROVE Claim(Loaded(rows, cached), gestures, ui)
    BY <1>1 DEF Claim
  <1>7. ASSUME NEW severe PROVE Failed(severe).type # "FolderLoaded"
    OBVIOUS
  <1> HIDE DEF Loaded, Failed
  <1>8. events' = events \/ \E e : Says(e) /\ (e.type = "FolderLoaded" => Claim(e, gestures, ui))
    BY <1>5, <1>6, <1>7
  <1> QED  BY <1>1, <1>3, <1>4, <1>8, WorkerLists

LEMMA OtherTasksList ==
  ASSUME ListInv, SearchTask \/ BodyTask \/ PollTask \/ SyncTask \/ SaveBody
  PROVE  ListInv'
  <1>1. /\ UNCHANGED <<ui, gestures, commands>> /\ DOMAIN tasks = TaskKinds /\ "folder" \in TaskKinds
        /\ Claims(commands', "FetchFolder", gestures, ui)
    BY DEF SearchTask, BodyTask, PollTask, SyncTask, SaveBody, TaskStep, ListInv, counts, TaskKinds
  <1>2. CASE SearchTask
    <2>1. DOMAIN tasks' = TaskKinds /\ tasks'["folder"] = tasks["folder"]
      BY <1>1, <1>2 DEF SearchTask, Ends, Begin
    <2>2. events' = events \/ \E e : Says(e) /\ e.type # "FolderLoaded"
      BY <1>2 DEF SearchTask, Bare
    <2> QED  BY <1>1, <2>1, <2>2, WorkerLists
  <1>3. CASE BodyTask
    <2>1. DOMAIN tasks' = TaskKinds /\ tasks'["folder"] = tasks["folder"]
      BY <1>1, <1>3 DEF BodyTask, Ends, Goes, Begin
    <2>2. events' = events \/ \E e : Says(e) /\ e.type # "FolderLoaded"
      BY <1>3 DEF BodyTask
    <2> QED  BY <1>1, <2>1, <2>2, WorkerLists
  <1>4. CASE PollTask
    <2>1. DOMAIN tasks' = TaskKinds /\ tasks'["folder"] = tasks["folder"]
      BY <1>1, <1>4 DEF PollTask, Ends, Begin
    <2>2. \E e : Says(e) /\ e.type # "FolderLoaded"
      <3> DEFINE c == tasks["poll"].of
                 Complete(rows) == [type |-> "BackgroundSyncComplete", request |-> c.request,
                                    account |-> c.account, rows |-> rows]
      <3>1. \/ \E rows : Says(Complete(rows))
            \/ \E retryable : Says(PollFailed(c.request, retryable))
        BY <1>4 DEF PollTask
      <3>2. /\ \A rows : Complete(rows).type # "FolderLoaded"
            /\ \A request, retryable : PollFailed(request, retryable).type # "FolderLoaded"
        BY DEF PollFailed
      <3> HIDE DEF Complete
      <3> QED  BY <3>1, <3>2
    <2> QED  BY <1>1, <2>1, <2>2, WorkerLists
  <1>5. CASE SyncTask
    <2>1. DOMAIN tasks' = TaskKinds /\ tasks'["folder"] = tasks["folder"]
      BY <1>1, <1>5 DEF SyncTask, Ends, Goes, Begin
    <2>2. events' = events \/ \E e : Says(e) /\ e.type # "FolderLoaded"
      <3> DEFINE t == tasks["sync"]
                 Of(type, account) == [type |-> type, operation |-> t.of.operation, account |-> account]
                 WithRows(type, rows) == [type |-> type, operation |-> t.of.operation,
                                          account |-> t.account, rows |-> rows]
                 failed == [type |-> "Failed", operation |-> t.of.operation]
      <3>1. \/ events' = events \/ Says(failed)
            \/ \E type \in {"IdentityVerified", "AccountPersisted"} : \E account : Says(Of(type, account))
            \/ \E type \in {"CacheLoaded", "SyncComplete"} : \E rows : Says(WithRows(type, rows))
        BY <1>5 DEF SyncTask
      <3>2. /\ failed.type # "FolderLoaded"
            /\ \A type, account : Of(type, account).type = type
            /\ \A type, rows : WithRows(type, rows).type = type
        OBVIOUS
      <3> HIDE DEF failed, Of, WithRows
      <3> QED  BY <3>1, <3>2
    <2> QED  BY <1>1, <2>1, <2>2, WorkerLists
  <1>6. CASE SaveBody
    <2>1. events' = events /\ tasks' = tasks
      BY <1>6 DEF SaveBody
    <2> QED  BY <1>1, <2>1, WorkerLists
  <1> QED  BY <1>2, <1>3, <1>4, <1>5, <1>6

LEMMA StopLists ==
  ASSUME ListInv, WorkerStops
  PROVE  ListInv'
  <1>1. /\ UNCHANGED <<ui, gestures, events>> /\ commands' = <<>>
        /\ DOMAIN tasks' = TaskKinds /\ tasks'["folder"] = NoTask
    BY DEF WorkerStops, counts, TaskKinds
  <1> QED  BY <1>1, NoClaim, WorkerLists

LEMMA InitLists == Init => ListInv
  <1> SUFFICES ASSUME Init PROVE ListInv
    OBVIOUS
  <1>1. HasList(ui) /\ ListIsOurs(ui)
    BY DEF Init, FirstView, normalize, FollowList, HasList, ListIsOurs
  <1>2. /\ commands = <<>> /\ events = <<>> /\ gestures = 0
        /\ DOMAIN tasks = TaskKinds /\ tasks["folder"] = NoTask
    BY DEF Init, TaskKinds
  <1> QED  BY <1>1, <1>2, NoClaim DEF ListInv, Busy

LEMMA NextLists == ListInv /\ [Next]_vars => ListInv'
  <1> SUFFICES ASSUME ListInv, [Next]_vars PROVE ListInv'
    OBVIOUS
  <1>1. CASE Person
    BY <1>1, PersonLists, LoadLists DEF Person
  <1>2. CASE System
    BY <1>2, TimerLists, ReceiveLists, UnavailableLists, ControlLists, FolderTaskLists,
       OtherTasksList DEF System
  <1>3. CASE WorkerStops
    BY <1>3, StopLists
  <1>4. CASE UNCHANGED vars
    <2>1. UNCHANGED <<ui, gestures, commands, events, tasks>>
      BY <1>4 DEF vars, worker, counts
    <2> QED  BY <2>1 DEF ListInv, HasList, ListIsOurs, Busy
  <1> QED  BY <1>1, <1>2, <1>3, <1>4 DEF Next

\* A list that a folder load or a poll brought is that of the label and the
\* account chosen now: the answer to a load that was superseded, or that another
\* account asked for, is dropped however late it comes (folder_loaded,
\* background_worker_event and the resets of an account change).
THEOREM LateListsDropped == Spec => []LateListsAreDropped
  <1>1. ListInv => LateListsAreDropped
    BY DEF ListInv, ListIsOurs, LateListsAreDropped
  <1> QED  BY <1>1, InitLists, NextLists, PTL DEF Spec

-----------------------------------------------------------------------------
(* Searches and the reader                                                    *)

Seen == {"account", "list", "query", "search", "selected", "reader", "projection"}
HasView(u) == Seen \subseteq DOMAIN u

\* A search and a body are of the query and the account chosen now.
Sane(u) ==
    /\ HasView(u) /\ u.query \in Queries /\ u.projection \in BOOLEAN
    /\ u.search # Idle => u.search.state \in {"Loading", "Loaded", "Failed"} /\ u.search.query = u.query
    /\ u.search.state = "Loaded" => u.search.account = u.account /\ u.search.rows = Hits[u.query]
    /\ u.reader # Closed => u.reader.state \in {"Loading", "Loaded", "Failed"}
    /\ u.reader.state = "Loaded" => u.reader.of = u.account

\* The list has the selected message.
Listed(u) == u.selected # NoMessage => u.selected \in Visible(u)

\* The two parts of the claim about a step.
Chooses(u, v) ==
    u.projection /\ v.selected \notin {NoMessage, u.selected} =>
        v.reader # Closed /\ v.reader.id = v.selected
Kept(u, v) == (v.projection = u.projection /\ ReaderFits(u) => ReaderFits(v)) /\ Chooses(u, v)

\* An update that asks for nothing: what is awaited stays so, or is given up.
Follows(u, v) ==
    /\ DOMAIN v = DOMAIN u
    /\ Sane(v)
    /\ v.search.state = "Loading" => v.search = u.search /\ v.account = u.account
    /\ v.reader.state = "Loading" => v.reader = u.reader /\ v.account = u.account
    /\ v.projection = u.projection
    /\ u.projection => v.selected \in {NoMessage, u.selected}
    /\ ReaderFits(u) => ReaderFits(v)

\* What is said for the search or the body that is awaited is said for its query
\* and for the account shown.
Answers(c, asked, u) ==
    /\ c.type \in {"SearchGmail", "SearchLoaded"} =>
          /\ c.request \in Nat /\ c.request <= asked
          /\ u.search.state = "Loading" /\ u.search.request = c.request =>
                c.query = u.search.query /\ c.account = u.account
    /\ c.type = "SearchLoaded" => c.rows = Hits[c.query]
    /\ c.type \in {"FetchBody", "BodyLoaded"} =>
          /\ c.request \in Nat /\ c.request <= asked
          /\ u.reader.state = "Loading" /\ u.reader.request = c.request => c.account = u.account

AllAnswer(s, asked, u) == IsSeq(s) /\ \A i \in DOMAIN s : Answers(s[i], asked, u)

Runs(kind, type, asked, u) ==
    Busy(kind) => /\ "of" \in DOMAIN tasks[kind] /\ tasks[kind].of.type = type
                  /\ Answers(tasks[kind].of, asked, u)

ViewInv ==
    /\ Sane(ui) /\ Listed(ui) /\ gestures \in Nat
    /\ AllAnswer(commands, gestures, ui) /\ AllAnswer(events, gestures, ui)
    /\ DOMAIN tasks = TaskKinds
    /\ Runs("search", "SearchGmail", gestures, ui) /\ Runs("body", "FetchBody", gestures, ui)

LEMMA FollowsTwice ==
  ASSUME NEW u, NEW v, NEW w, Follows(u, v), Follows(v, w)
  PROVE  Follows(u, w)
  BY DEF Follows

\* The invariant stays, and the step was one of those claimed.
ViewStep == ViewInv' /\ Kept(ui, ui')

LEMMA FollowsKept ==
  ASSUME NEW u, NEW v, Follows(u, v)
  PROVE  Kept(u, v)
  BY DEF Follows, Kept, Chooses

LEMMA SaneFollows ==
  ASSUME NEW u, Sane(u)
  PROVE  Follows(u, u) /\ HasView(u)
  BY DEF Follows, Sane

LEMMA SameFollows ==
  ASSUME NEW u, Sane(u), NEW v, DOMAIN v = DOMAIN u, \A x \in Seen : v[x] = u[x]
  PROVE  Follows(u, v) /\ (Listed(u) => Listed(v))
  <1>1. /\ v.account = u.account /\ v.list = u.list /\ v.query = u.query /\ v.search = u.search
        /\ v.selected = u.selected /\ v.reader = u.reader /\ v.projection = u.projection
    BY DEF Seen
  <1>2. Visible(v) = Visible(u)
    BY <1>1 DEF Visible
  <1>3. Sane(v)
    BY <1>1 DEF Sane, HasView
  <1>4. Follows(u, v)
    BY <1>1, <1>3 DEF Follows, ReaderFits
  <1>5. Listed(u) => Listed(v)
    BY <1>1, <1>2 DEF Listed
  <1> QED  BY <1>4, <1>5

LEMMA FirstIsListed ==
  ASSUME NEW rows, rows \subseteq Nat, rows # {}
  PROVE  First(rows) \in rows
  <1> DEFINE R == {ss \in Nat \X Nat : ss[1] < ss[2]}
  <1>1. IsWellFoundedOn(R, Nat)
    BY NatLessThanWellFounded, Zenon DEF OpToRel
  <1> HIDE DEF R
  <1>2. PICK n \in rows : \A m \in rows : <<m, n>> \notin R
    BY <1>1, WFMin, Zenon
  <1>3. ASSUME NEW m \in rows PROVE n <= m
    <2>1. n \in Nat /\ m \in Nat /\ <<m, n>> \notin R
      BY <1>2
    <2>2. <<m, n>> \in Nat \X Nat /\ <<m, n>>[1] = m /\ <<m, n>>[2] = n
      BY <2>1
    <2>3. ~(m < n)
      BY <2>1, <2>2, Zenon DEF R
    <2> QED  BY <2>1, <2>3
  <1>4. Min(rows) \in rows
    BY <1>3 DEF Min
  <1> QED  BY <1>4 DEF First

LEMMA NormalizeFollows ==
  ASSUME NEW u, Sane(u)
  PROVE  Follows(u, normalize(u)) /\ Listed(normalize(u))
  <1> DEFINE w == normalize(u)
             v == Visible(u)
  <1>1. /\ DOMAIN w = DOMAIN u
        /\ w.account = u.account /\ w.list = u.list /\ w.query = u.query /\ w.search = u.search
        /\ w.projection = u.projection
        /\ w.selected = IF u.projection THEN NoMessage
                        ELSE IF u.selected \in v THEN u.selected ELSE First(v)
        /\ w.reader = IF ~u.projection /\ u.reader.state # "Closed" /\ u.reader.id \notin v
                      THEN Closed ELSE u.reader
    BY DEF normalize, FollowList, Sane, HasView, Seen
  <1>2. Visible(w) = v
    BY <1>1 DEF Visible
  <1> HIDE DEF w
  <1>3. Closed.state = "Closed"
    BY DEF Closed
  <1>4. w.reader # Closed => w.reader = u.reader
    BY <1>1
  <1>5. Sane(w)
    BY <1>1, <1>3, <1>4 DEF Sane, HasView
  <1>6. ReaderFits(u) => ReaderFits(w)
    BY <1>1, <1>3 DEF ReaderFits, Sane
  <1>7. Follows(u, w)
    BY <1>1, <1>3, <1>4, <1>5, <1>6 DEF Follows
  <1>8. First(v) # NoMessage => First(v) \in v
    <2>1. v \subseteq Hits[u.query] /\ Hits[u.query] \subseteq Nat
      <3>1. v \subseteq Hits[u.query]
        BY DEF Visible, Sane
      <3> QED  BY <3>1, DataAssumption DEF Sane
    <2>2. CASE v = {}
      BY <2>2 DEF First
    <2>3. CASE v # {}
      <3>1. v \subseteq Nat
        BY <2>1
      <3> QED  BY <2>3, <3>1, FirstIsListed
    <2> QED  BY <2>2, <2>3
  <1> HIDE DEF v
  <1>9. Listed(w)
    BY <1>1, <1>2, <1>8 DEF Listed
  <1> QED  BY <1>7, <1>9 DEF w

\* Every search is given up; a reader that is over its results is closed.
LEMMA InvalidateFollows ==
  ASSUME NEW u, Sane(u)
  PROVE  /\ Follows(u, invalidate_server_search(u))
         /\ Listed(u) => Listed(invalidate_server_search(u))
         /\ invalidate_server_search(u).search = Idle
         /\ invalidate_server_search(u).account = u.account
         /\ invalidate_server_search(u).list = u.list
         /\ invalidate_server_search(u).query = u.query
         /\ DOMAIN invalidate_server_search(u) = DOMAIN u
         /\ invalidate_server_search(u).projection = u.projection
         /\ \/ /\ invalidate_server_search(u).selected = u.selected
               /\ invalidate_server_search(u).reader = u.reader
            \/ /\ invalidate_server_search(u).selected = NoMessage
               /\ invalidate_server_search(u).reader = Closed
  <1> DEFINE v == invalidate_server_search(u)
  <1>0. Closed.state = "Closed" /\ Idle.state = "Idle"
    BY DEF Closed, Idle
  <1>1. /\ DOMAIN v = DOMAIN u /\ v.account = u.account /\ v.list = u.list /\ v.query = u.query
        /\ v.search = Idle /\ v.projection = u.projection
        /\ IF u.search.state = "Loaded" THEN v.reader = Closed /\ v.selected = NoMessage
           ELSE v.reader = u.reader /\ v.selected = u.selected
    <2>1. CASE u.search.state = "Idle"
      <3>1. v = u
        BY <2>1 DEF invalidate_server_search
      <3> QED  BY <2>1, <3>1 DEF Sane
    <2>2. CASE u.search.state = "Loaded"
      <3>1. v = [u EXCEPT !.searchGen = @ + 1, !.search = Idle, !.selected = NoMessage, !.reader = Closed]
        BY <2>2 DEF invalidate_server_search
      <3> QED  BY <2>2, <3>1 DEF Sane, HasView, Seen
    <2>3. CASE u.search.state # "Idle" /\ u.search.state # "Loaded"
      <3>1. v = [u EXCEPT !.searchGen = @ + 1, !.search = Idle]
        BY <2>3 DEF invalidate_server_search
      <3> QED  BY <2>3, <3>1 DEF Sane, HasView, Seen
    <2> QED  BY <2>1, <2>2, <2>3
  <1> HIDE DEF v
  <1>2. Sane(v)
    BY <1>0, <1>1 DEF Sane, HasView
  <1>3. Follows(u, v)
    BY <1>0, <1>1, <1>2 DEF Follows, ReaderFits
  <1>4. u.search.state # "Loaded" => Visible(v) = Visible(u)
    BY <1>0, <1>1 DEF Visible
  <1>5. Listed(u) => Listed(v)
    BY <1>1, <1>4 DEF Listed
  <1> QED  BY <1>1, <1>3, <1>5 DEF v

LEMMA StopFollows ==
  ASSUME NEW u, Sane(u)
  PROVE  /\ Follows(u, stop_background_sync(u))
         /\ Listed(u) => Listed(stop_background_sync(u))
         /\ DOMAIN stop_background_sync(u) = DOMAIN u
  <1> DEFINE v == stop_background_sync(u)
  <1>1. DOMAIN v = DOMAIN u /\ \A x \in Seen : v[x] = u[x]
    BY DEF stop_background_sync, Seen
  <1> HIDE DEF v
  <1>2. Follows(u, v) /\ (Listed(u) => Listed(v))
    BY <1>1, SameFollows
  <1> QED  BY <1>1, <1>2 DEF v

LEMMA VerifiedFollows ==
  ASSUME NEW u, NEW account, Sane(u)
  PROVE  /\ Follows(u, Verified(u, account))
         /\ Listed(u) => Listed(Verified(u, account))
         /\ DOMAIN Verified(u, account) = DOMAIN u
  <1> DEFINE v == Verified(u, account)
  <1>1. CASE u.account = account
    <2>1. DOMAIN v = DOMAIN u /\ \A x \in Seen : v[x] = u[x]
      BY <1>1 DEF Verified, Seen
    <2> HIDE DEF v
    <2>2. Follows(u, v) /\ (Listed(u) => Listed(v))
      BY <2>1, SameFollows
    <2> QED  BY <2>1, <2>2 DEF v
  <1>2. CASE u.account # account
    <2> DEFINE s == stop_background_sync(u)
    <2>1. DOMAIN s = DOMAIN u /\ HasView(s) /\ s.query = u.query /\ s.projection = u.projection
      BY StopFollows DEF Sane, HasView, stop_background_sync, Seen
    <2>2. Forgotten(u) = [s EXCEPT
        !.searchGen = @ + 1, !.search = Idle, !.list = NoList, !.selected = NoMessage,
        !.reader = Closed, !.view = "Inbox", !.folderGen = @ + 1, !.activeFolder = 0,
        !.folderLoading = FALSE]
      BY DEF Forgotten
    <2> HIDE DEF s
    <2>3. /\ DOMAIN Forgotten(u) = DOMAIN u /\ Forgotten(u).search = Idle /\ Forgotten(u).reader = Closed
          /\ Forgotten(u).query = u.query /\ Forgotten(u).projection = u.projection
          /\ Forgotten(u).selected = NoMessage
      BY <2>1, <2>2 DEF HasView, Seen
    <2>4. v = [Forgotten(u) EXCEPT !.account = account]
      BY <1>2 DEF Verified
    <2> HIDE DEF v
    <2>5. /\ DOMAIN v = DOMAIN u /\ v.search = Idle /\ v.reader = Closed /\ v.query = u.query
          /\ v.projection = u.projection /\ v.selected = NoMessage
      BY <2>3, <2>4
    <2>6. Sane(v) /\ Listed(v)
      BY <2>5 DEF Sane, HasView, Idle, Closed, Listed
    <2>7. Follows(u, v)
      BY <2>5, <2>6 DEF Follows, Idle, Closed, ReaderFits
    <2> QED  BY <2>5, <2>6, <2>7 DEF v
  <1> QED  BY <1>1, <1>2

LEMMA UnavailableFollows ==
  ASSUME NEW u, Sane(u)
  PROVE  /\ Follows(u, WorkerUnavailable(u)) /\ (Listed(u) => Listed(WorkerUnavailable(u)))
         /\ \/ WorkerUnavailable(u).selected = NoMessage
            \/ /\ WorkerUnavailable(u).selected = u.selected
               /\ u.reader # Closed => /\ WorkerUnavailable(u).reader # Closed
                                       /\ WorkerUnavailable(u).reader.id = u.reader.id
  <1> DEFINE v == invalidate_server_search(stop_background_sync(u))
             w == WorkerUnavailable(u)
  <1>1. /\ Follows(u, stop_background_sync(u)) /\ Sane(stop_background_sync(u))
        /\ Listed(u) => Listed(stop_background_sync(u))
    BY StopFollows DEF Follows
  <1>2. Follows(u, v) /\ Sane(v) /\ (Listed(u) => Listed(v)) /\ v.search = Idle
    BY <1>1, InvalidateFollows, FollowsTwice DEF Follows
  <1>0. \/ v.selected = u.selected /\ v.reader = u.reader
        \/ v.selected = NoMessage /\ v.reader = Closed
    <2>1. stop_background_sync(u).selected = u.selected /\ stop_background_sync(u).reader = u.reader
      BY DEF stop_background_sync
    <2> QED  BY <1>1, <2>1, InvalidateFollows
  <1>3. w = [v EXCEPT !.operation = 0, !.session = "Stopped",
                      !.reader = IF @.state = "Loading" THEN [state |-> "Failed", id |-> @.id] ELSE @]
    BY DEF WorkerUnavailable
  <1> HIDE DEF v, w
  <1>4. /\ DOMAIN w = DOMAIN v /\ w.account = v.account /\ w.list = v.list /\ w.query = v.query
        /\ w.search = v.search /\ w.selected = v.selected /\ w.projection = v.projection
        /\ IF v.reader.state = "Loading" THEN w.reader = [state |-> "Failed", id |-> v.reader.id]
           ELSE w.reader = v.reader
    BY <1>2, <1>3 DEF Sane, HasView, Seen
  <1>5. /\ w.reader.state # "Loading"
        /\ v.reader = Closed => w.reader = Closed
        /\ v.reader # Closed => w.reader.id = v.reader.id /\ w.reader.state \in {"Loaded", "Failed"}
        /\ w.reader.state = "Loaded" => w.reader = v.reader
    BY <1>2, <1>4 DEF Closed, Sane
  <1>6. Sane(w)
    BY <1>2, <1>4, <1>5 DEF Sane, HasView
  <1>7. Follows(v, w)
    BY <1>2, <1>4, <1>5, <1>6 DEF Follows, Idle, ReaderFits
  <1>8. Listed(v) => Listed(w)
    <2>1. Visible(w) = Visible(v)
      BY <1>4 DEF Visible
    <2> QED  BY <1>4, <1>5, <2>1 DEF Listed
  <1>9. Follows(u, w)
    BY <1>2, <1>7, FollowsTwice
  <1>10. v.reader # Closed => w.reader # Closed
    BY <1>5 DEF Sane, Closed, Follows, Idle, ReaderFits
  <1> QED  BY <1>0, <1>2, <1>4, <1>5, <1>8, <1>9, <1>10 DEF w

LEMMA AnswersStay ==
  ASSUME NEW c, NEW asked \in Nat, NEW u, Answers(c, asked, u), NEW v, Follows(u, v),
         NEW more \in Nat, asked <= more
  PROVE  Answers(c, more, v)
  BY DEF Answers, Follows

LEMMA AllStay ==
  ASSUME NEW s, NEW asked \in Nat, NEW u, AllAnswer(s, asked, u), NEW v, Follows(u, v),
         NEW more \in Nat, asked <= more
  PROVE  AllAnswer(s, more, v)
  BY AnswersStay DEF AllAnswer

LEMMA AllTogether ==
  ASSUME NEW s, NEW t, NEW asked, NEW u, AllAnswer(s, asked, u), AllAnswer(t, asked, u)
  PROVE  AllAnswer(s \o t, asked, u)
  <1>1. IsSeq(s) /\ IsSeq(t)
    BY DEF AllAnswer
  <1>2. ASSUME NEW i \in DOMAIN (s \o t) PROVE Answers((s \o t)[i], asked, u)
    <2>1. CASE i \in DOMAIN s
      BY <1>1, <2>1, TwoSequences DEF AllAnswer
    <2>2. CASE i \notin DOMAIN s
      <3>1. i - Len(s) \in DOMAIN t /\ (s \o t)[i] = t[i - Len(s)]
        BY <1>1, <1>2, <2>2, TwoSequences
      <3> QED  BY <3>1 DEF AllAnswer
    <2> QED  BY <2>1, <2>2
  <1>3. IsSeq(s \o t)
    BY <1>1, TwoSequences
  <1> QED  BY <1>2, <1>3 DEF AllAnswer

LEMMA OneAnswers ==
  ASSUME NEW c, NEW asked, NEW u, Answers(c, asked, u)
  PROVE  AllAnswer(<<c>>, asked, u)
  <1>1. IsSeq(<<c>>)
    <2>1. <<c>> \in Seq({c})
      OBVIOUS
    <2> QED  BY <2>1 DEF IsSeq
  <1>2. DOMAIN <<c>> = {1} /\ <<c>>[1] = c
    OBVIOUS
  <1> QED  BY <1>1, <1>2 DEF AllAnswer

LEMMA NoneAnswers ==
  ASSUME NEW asked, NEW u
  PROVE  AllAnswer(<<>>, asked, u)
  <1>1. IsSeq(<<>>) /\ DOMAIN <<>> = {}
    BY NoCommand DEF NoClear
  <1> QED  BY <1>1 DEF AllAnswer

LEMMA OneAnswersLess ==
  ASSUME NEW s, s # <<>>, NEW asked, NEW u, AllAnswer(s, asked, u)
  PROVE  AllAnswer(Tail(s), asked, u) /\ Answers(Head(s), asked, u)
  <1>1. PICK S : s \in Seq(S)
    BY DEF AllAnswer, IsSeq
  <1>2. /\ Tail(s) \in Seq(S) /\ 1 \in DOMAIN s /\ Head(s) = s[1]
        /\ \A i \in DOMAIN Tail(s) : i + 1 \in DOMAIN s /\ Tail(s)[i] = s[i + 1]
    BY <1>1
  <1> QED  BY <1>2 DEF AllAnswer, IsSeq

LEMMA OneAnswersMore ==
  ASSUME NEW s, NEW c, NEW asked, NEW u, AllAnswer(s, asked, u), Answers(c, asked, u)
  PROVE  AllAnswer(Append(s, c), asked, u)
  <1>1. Append(s, c) = s \o <<c>>
    <2>1. PICK S : s \in Seq(S)
      BY DEF AllAnswer, IsSeq
    <2>2. s \in Seq(S \cup {c})
      BY <2>1
    <2> QED  BY <2>2
  <1> QED  BY <1>1, OneAnswers, AllTogether

\* What is neither a search nor a body says nothing of them.
Spoken == {"SearchGmail", "SearchLoaded", "FetchBody", "BodyLoaded"}

LEMMA OtherAnswers ==
  ASSUME NEW c, c.type \notin Spoken, NEW asked, NEW u
  PROVE  Answers(c, asked, u)
  BY DEF Answers, Spoken

LEMMA CancelAnswers ==
  ASSUME NEW asked, NEW u
  PROVE  AllAnswer(CancelOf(ui), asked, u)
  BY OtherAnswers, OneAnswers, NoneAnswers DEF CancelOf, Spoken

\* The update made x of the view, and then followed it.
LEMMA DispatchViews ==
  ASSUME NEW update, NEW x, Follows(x, update.ui), Listed(update.ui), gestures' \in Nat,
         AllAnswer(commands, gestures', x), AllAnswer(update.send, gestures', x),
         AllAnswer(events', gestures', x), DOMAIN tasks = TaskKinds,
         Runs("search", "SearchGmail", gestures', x), Runs("body", "FetchBody", gestures', x),
         tasks' = tasks, Dispatch(update)
  PROVE  ViewInv' /\ Follows(x, ui')
  <1>1. Follows(x, ui') /\ Listed(ui') /\ Sane(ui')
    <2>1. ui' = update.ui \/ ui' = WorkerUnavailable(update.ui)
      BY DEF Dispatch
    <2>2. Sane(update.ui)
      BY DEF Follows
    <2> QED  BY <2>1, <2>2, UnavailableFollows, FollowsTwice DEF Follows
  <1>2. AllAnswer(commands', gestures', x)
    <2>1. commands' = commands \/ commands' = commands \o update.send
      BY DEF Dispatch
    <2> QED  BY <2>1, AllTogether
  <1>3. AllAnswer(commands', gestures', ui') /\ AllAnswer(events', gestures', ui')
    BY <1>1, <1>2, AllStay
  <1>4. ASSUME NEW kind, NEW type, Runs(kind, type, gestures', x), Busy(kind)'
        PROVE  "of" \in DOMAIN tasks'[kind] /\ tasks'[kind].of.type = type
                  /\ Answers(tasks'[kind].of, gestures', ui')
    BY <1>1, <1>4, AnswersStay DEF Busy, Runs
  <1>5. Runs("search", "SearchGmail", gestures, ui)' /\ Runs("body", "FetchBody", gestures, ui)'
    BY <1>4 DEF Runs
  <1> QED  BY <1>1, <1>3, <1>5 DEF ViewInv

\* What the UI does without asking for a search or a body.
Modest(update) ==
    /\ Follows(ui, update.ui) /\ Listed(update.ui)
    /\ \A asked : AllAnswer(update.send, asked, ui)

LEMMA UiFollows ==
  ASSUME ViewInv
  PROVE  Follows(ui, ui) /\ Sane(ui) /\ Listed(ui) /\ HasView(ui) /\ gestures \in Nat
         /\ DOMAIN tasks = TaskKinds
  BY SaneFollows DEF ViewInv

LEMMA GestureViews ==
  ASSUME ViewInv, NEW update, Modest(update), Gesture(update)
  PROVE  ViewStep
  <1>1. /\ gestures' = gestures + 1 /\ gestures \in Nat /\ gestures' \in Nat
        /\ gestures <= gestures' /\ events' = events /\ tasks' = tasks
        /\ Dispatch(update) /\ DOMAIN tasks = TaskKinds
    BY DEF Gesture, ViewInv, worker
  <1>2. /\ AllAnswer(commands, gestures', ui)
        /\ AllAnswer(events', gestures', ui)
    BY <1>1, UiFollows, AllStay DEF ViewInv
  <1>3. Runs("search", "SearchGmail", gestures', ui) /\ Runs("body", "FetchBody", gestures', ui)
    BY <1>1, UiFollows, AnswersStay DEF ViewInv, Runs
  <1>4. ViewInv' /\ Follows(ui, ui')
    BY <1>1, <1>2, <1>3, DispatchViews DEF Modest
  <1> QED  BY <1>4, FollowsKept DEF ViewStep

\* A fresh number is nobody's: what is under way says nothing of the new request.
LEMMA AllAfresh ==
  ASSUME NEW s, NEW asked \in Nat, NEW u, AllAnswer(s, asked, u), NEW v,
         \/ v.search = u.search /\ v.reader = u.reader /\ v.account = u.account
         \/ v.search.state = "Loading" /\ v.search.request = asked + 1 /\ v.reader = Closed
         \/ v.reader.state = "Loading" /\ v.reader.request = asked + 1 /\ v.search = u.search /\ v.account = u.account
  PROVE  AllAnswer(s, asked + 1, v)
  <1>1. ASSUME NEW c, Answers(c, asked, u) PROVE Answers(c, asked + 1, v)
    <2>1. CASE v.search = u.search /\ v.reader = u.reader /\ v.account = u.account
      BY <1>1, <2>1 DEF Answers
    <2>2. CASE v.search.state = "Loading" /\ v.search.request = asked + 1 /\ v.reader = Closed
      BY <1>1, <2>2 DEF Answers, Closed
    <2>3. CASE v.reader.state = "Loading" /\ v.reader.request = asked + 1 /\ v.search = u.search
                 /\ v.account = u.account
      BY <1>1, <2>3 DEF Answers
    <2> QED  BY <2>1, <2>2, <2>3
  <1> QED  BY <1>1 DEF AllAnswer

LEMMA RunsAfresh ==
  ASSUME NEW kind, NEW type, gestures \in Nat, NEW u, Runs(kind, type, gestures, u), NEW v,
         \/ v.search = u.search /\ v.reader = u.reader /\ v.account = u.account
         \/ v.search.state = "Loading" /\ v.search.request = gestures + 1 /\ v.reader = Closed
         \/ v.reader.state = "Loading" /\ v.reader.request = gestures + 1 /\ v.search = u.search
              /\ v.account = u.account
  PROVE  Runs(kind, type, gestures + 1, v)
  BY DEF Runs, Answers, Closed

\* The selection and the rows of the accounts change, and nothing else that a
\* search or a body depends on; nothing is sent, so nothing is refused.
LEMMA QuietViews ==
  ASSUME ViewInv, NEW u, DOMAIN u = DOMAIN ui, \A x \in Seen \ {"selected", "projection"} : u[x] = ui[x],
         u.projection \in BOOLEAN, Listed(u), Gesture(Quiet(u))
  PROVE  ViewInv' /\ ui' = u
  <1>1. Sane(ui) /\ HasView(ui) /\ gestures \in Nat /\ DOMAIN tasks = TaskKinds
    BY UiFollows
  <1>2. u.account = ui.account /\ u.query = ui.query /\ u.search = ui.search /\ u.reader = ui.reader
    BY DEF Seen
  <1>3. Quiet(u).ui = u /\ Quiet(u).send = <<>>
    BY DEF Quiet
  <1>4. /\ gestures' = gestures + 1 /\ gestures' \in Nat /\ events' = events /\ tasks' = tasks
        /\ Dispatch(Quiet(u))
    BY <1>1 DEF Gesture, worker
  <1>5. ui' = u
    BY <1>3, <1>4 DEF Dispatch
  <1>6. Sane(u)
    BY <1>1, <1>2 DEF Sane, HasView
  <1>7. AllAnswer(commands, gestures', u) /\ AllAnswer(events', gestures', u)
    BY <1>1, <1>2, <1>4, AllAfresh DEF ViewInv
  <1>8. Runs("search", "SearchGmail", gestures', u) /\ Runs("body", "FetchBody", gestures', u)
    BY <1>1, <1>2, <1>4, RunsAfresh DEF ViewInv
  <1>9. Follows(u, u) /\ AllAnswer(<<>>, gestures', u)
    BY <1>6, SaneFollows, NoneAnswers
  <1> QED  BY <1>1, <1>3, <1>4, <1>5, <1>7, <1>8, <1>9, DispatchViews

LEMMA SubmitViews ==
  ASSUME ViewInv, NEW query \in Queries, SubmitWith(query)
  PROVE  ViewStep
  <1> DEFINE v == invalidate_server_search(ui)
             search == [state |-> "Loading", request |-> Ask, query |-> query, generation |-> v.searchGen + 1]
             w == [v EXCEPT !.query = query, !.searchGen = @ + 1, !.selected = NoMessage, !.reader = Closed,
                            !.search = search]
             c == [type |-> "SearchGmail", request |-> Ask, query |-> query,
                   generation |-> v.searchGen + 1, account |-> ui.account]
             send == CancelOf(ui) \o <<c>>
             update == Sending(w, send)
  <1>1. /\ Gesture(update) /\ update.ui = w /\ update.send = send
    BY DEF SubmitWith, Sending
  <1>2. /\ Sane(ui) /\ HasView(ui) /\ gestures \in Nat /\ DOMAIN tasks = TaskKinds
        /\ v.account = ui.account /\ DOMAIN v = DOMAIN ui /\ v.projection = ui.projection
    BY UiFollows, InvalidateFollows
  <1>3. /\ search.state = "Loading" /\ search.request = gestures + 1 /\ search.query = query
    BY DEF Ask
  <1>4. c.type = "SearchGmail" /\ c.request = gestures + 1 /\ c.query = query /\ c.account = ui.account
    BY DEF Ask
  <1> HIDE DEF v, search, c
  <1>5. /\ DOMAIN w = DOMAIN ui /\ w.search = search /\ w.reader = Closed /\ w.query = query
        /\ w.account = ui.account /\ w.selected = NoMessage /\ w.projection = ui.projection
    BY <1>2 DEF HasView, Seen
  <1> HIDE DEF w
  <1>6. Sane(w) /\ Listed(w)
    BY <1>2, <1>3, <1>5 DEF Sane, HasView, Closed, Listed
  <1>7. Follows(w, w)
    BY <1>6, SaneFollows
  <1>8. /\ gestures' = gestures + 1 /\ gestures' \in Nat /\ events' = events /\ tasks' = tasks /\ Dispatch(update)
    BY <1>1, <1>2 DEF Gesture, worker
  <1>9. AllAnswer(commands, gestures', w) /\ AllAnswer(events', gestures', w)
    BY <1>3, <1>5, <1>8, AllAfresh DEF ViewInv
  <1>10. Runs("search", "SearchGmail", gestures', w) /\ Runs("body", "FetchBody", gestures', w)
    BY <1>2, <1>3, <1>5, <1>8, RunsAfresh DEF ViewInv
  <1>11. Answers(c, gestures', w)
    BY <1>2, <1>3, <1>4, <1>5, <1>8 DEF Answers
  <1>12. AllAnswer(send, gestures', w)
    BY <1>11, CancelAnswers, OneAnswers, AllTogether
  <1> HIDE DEF send, update
  <1>13. ViewInv' /\ Follows(w, ui')
    BY <1>1, <1>2, <1>6, <1>7, <1>8, <1>9, <1>10, <1>12, DispatchViews
  <1>14. Kept(ui, ui')
    BY <1>5, <1>13 DEF Follows, Kept, Chooses, ReaderFits
  <1> QED  BY <1>13, <1>14 DEF ViewStep

\* The message chosen is listed: its reader is open already, or a body is asked for.
LEMMA OpenViews ==
  ASSUME ViewInv, NEW u, DOMAIN u = DOMAIN ui, \A x \in Seen \ {"selected"} : u[x] = ui[x],
         u.selected # NoMessage => u.selected \in Visible(ui), Gesture(open_selected(u))
  PROVE  ViewStep
  <1> DEFINE update == open_selected(u)
             reader == [state |-> "Loading", id |-> u.selected, request |-> Ask, generation |-> u.cacheGen]
             w == [u EXCEPT !.reader = reader]
             closed == [u EXCEPT !.reader = Closed]
             c == [type |-> "FetchBody", request |-> Ask, id |-> u.selected,
                   generation |-> u.cacheGen, account |-> u.account]
  <1>1. Sane(ui) /\ HasView(ui) /\ gestures \in Nat /\ DOMAIN tasks = TaskKinds
    BY UiFollows
  <1>2. /\ u.account = ui.account /\ u.list = ui.list /\ u.query = ui.query /\ u.search = ui.search
        /\ u.reader = ui.reader /\ u.projection = ui.projection
    BY DEF Seen
  <1>3. Visible(u) = Visible(ui)
    BY <1>2 DEF Visible
  <1>4. \/ update = Quiet(closed) /\ u.selected = NoMessage
        \/ update = Quiet(u) /\ u.reader.state = "Loaded" /\ u.reader.id = u.selected
        \/ update = Sending(w, <<c>>)
    BY <1>3 DEF open_selected
  <1>5. CASE update = Quiet(closed) /\ u.selected = NoMessage
    <2>1. DOMAIN closed = DOMAIN ui /\ closed.reader = Closed /\ closed.account = u.account
            /\ closed.query = u.query /\ closed.search = u.search /\ closed.selected = NoMessage
            /\ closed.projection = u.projection
      BY <1>1, <1>5 DEF HasView, Seen
    <2>2. update.ui = closed /\ update.send = <<>>
      BY <1>5 DEF Quiet
    <2> HIDE DEF closed, update
    <2>3. Follows(ui, closed) /\ Listed(closed)
      BY <1>1, <1>2, <2>1 DEF Follows, Sane, HasView, Closed, Listed, ReaderFits
    <2>4. Modest(update)
      BY <2>2, <2>3, NoneAnswers DEF Modest
    <2> QED  BY <2>4, GestureViews DEF update
  <1>6. CASE update = Quiet(u) /\ u.reader.state = "Loaded" /\ u.reader.id = u.selected
    <2>1. Listed(u)
      BY <1>3 DEF Listed
    <2>2. Gesture(Quiet(u))
      BY <1>6
    <2>3. ViewInv' /\ ui' = u
      BY <1>1, <1>2, <2>1, <2>2, QuietViews DEF Sane
    <2>4. Kept(ui, u)
      BY <1>6 DEF Kept, Chooses, ReaderFits, Closed
    <2> QED  BY <2>3, <2>4 DEF ViewStep
  <1>7. CASE update = Sending(w, <<c>>)
    <2>1. update.ui = w /\ update.send = <<c>>
      BY <1>7 DEF Sending
    <2>2. /\ DOMAIN w = DOMAIN ui /\ w.reader = reader /\ w.account = ui.account /\ w.list = ui.list
          /\ w.query = ui.query /\ w.search = ui.search /\ w.selected = u.selected
          /\ w.projection = ui.projection
      BY <1>1, <1>2 DEF HasView, Seen
    <2>3. reader.state = "Loading" /\ reader.request = gestures + 1 /\ reader.id = u.selected
      BY DEF Ask
    <2>4. c.type = "FetchBody" /\ c.request = gestures + 1 /\ c.account = ui.account
      BY <1>2 DEF Ask
    <2>5. gestures' = gestures + 1 /\ gestures' \in Nat /\ events' = events /\ tasks' = tasks /\ Dispatch(update)
      BY <1>1 DEF Gesture, worker
    <2> HIDE DEF w, reader, c, update
    <2>6. Visible(w) = Visible(ui)
      BY <2>2 DEF Visible
    <2>7. Sane(w)
      BY <1>1, <2>2, <2>3 DEF Sane, HasView
    <2>8. Listed(w) /\ Follows(w, w)
      BY <2>2, <2>6, <2>7, SaneFollows DEF Listed
    <2>9. AllAnswer(commands, gestures', w) /\ AllAnswer(events', gestures', w)
      BY <2>2, <2>3, <2>5, AllAfresh DEF ViewInv
    <2>10. Runs("search", "SearchGmail", gestures', w) /\ Runs("body", "FetchBody", gestures', w)
      BY <1>1, <2>2, <2>3, <2>5, RunsAfresh DEF ViewInv
    <2>11. Answers(c, gestures', w)
      BY <1>1, <2>2, <2>4, <2>5 DEF Answers
    <2>12. AllAnswer(update.send, gestures', w)
      BY <2>1, <2>11, OneAnswers
    <2>13. ViewInv' /\ Follows(w, ui')
      BY <1>1, <2>1, <2>5, <2>8, <2>9, <2>10, <2>12, DispatchViews
    <2>14. ReaderFits(w) /\ w.reader # Closed /\ w.reader.id = w.selected
      BY <2>2, <2>3 DEF ReaderFits, Closed
    <2>15. ui' = w \/ ui' = WorkerUnavailable(w)
      BY <2>1, <2>5 DEF Dispatch
    <2>16. Kept(ui, ui')
      <3>1. ReaderFits(ui')
        BY <2>13, <2>14 DEF Follows
      <3>2. ui'.selected = NoMessage \/ (ui'.reader # Closed /\ ui'.reader.id = ui'.selected)
        <4>1. CASE ui' = w
          BY <2>14, <4>1
        <4>2. CASE ui' = WorkerUnavailable(w)
          <5>1. \/ ui'.selected = NoMessage
                \/ ui'.selected = w.selected /\ ui'.reader # Closed /\ ui'.reader.id = w.reader.id
            BY <2>7, <2>14, <4>2, UnavailableFollows
          <5> QED  BY <2>14, <5>1
        <4> QED  BY <2>15, <4>1, <4>2
      <3>3. Chooses(ui, ui')
        BY <3>2, Zenon DEF Chooses
      <3> QED  BY <3>1, <3>3, Zenon DEF Kept
    <2> QED  BY <2>13, <2>16 DEF ViewStep
  <1> QED  BY <1>4, <1>5, <1>6, <1>7

LEMMA StartViews ==
  ASSUME ViewInv, NEW kind \in {"Restore", "Connect"}, start(kind)
  PROVE  ViewStep
  <1> DEFINE v == invalidate_server_search(ui)
             w == [v EXCEPT !.operation = Ask, !.session = "Syncing", !.folderGen = @ + 1,
                      !.activeFolder = 0, !.folderLoading = FALSE,
                      !.reader = IF @.state = "Loading" THEN Closed ELSE @]
             c == [type |-> kind, operation |-> Ask]
             update == Sending(w, CancelOf(ui) \o <<c>>)
  <1>1. Follows(ui, v) /\ Sane(v) /\ Listed(v)
    BY UiFollows, InvalidateFollows DEF Follows
  <1>2. c.type \notin Spoken
    BY DEF Spoken
  <1>3. Gesture(update) /\ update.ui = w /\ update.send = CancelOf(ui) \o <<c>>
    BY DEF start, Sending
  <1> HIDE DEF v, c
  <1>4. /\ DOMAIN w = DOMAIN v /\ w.account = v.account /\ w.list = v.list /\ w.query = v.query
        /\ w.search = v.search /\ w.selected = v.selected /\ w.projection = v.projection
        /\ w.reader = IF v.reader.state = "Loading" THEN Closed ELSE v.reader
    BY <1>1 DEF Sane, HasView, Seen
  <1> HIDE DEF w, update
  <1>5. Visible(w) = Visible(v)
    BY <1>4 DEF Visible
  <1>6. Sane(w) /\ Listed(w)
    BY <1>1, <1>4, <1>5 DEF Sane, HasView, Listed, Closed
  <1>7. Follows(v, w)
    BY <1>4, <1>6 DEF Follows, Closed, ReaderFits
  <1>8. Follows(ui, w)
    BY <1>1, <1>7, FollowsTwice
  <1>9. \A asked : AllAnswer(CancelOf(ui) \o <<c>>, asked, ui)
    BY <1>2, OtherAnswers, CancelAnswers, OneAnswers, AllTogether
  <1> QED  BY <1>3, <1>6, <1>8, <1>9, GestureViews DEF Modest

LEMMA LoadViews ==
  ASSUME ViewInv, NEW label \in Labels, load_folder(label)
  PROVE  ViewStep
  <1> DEFINE v == invalidate_server_search(ui)
             empty == [account |-> ui.account, label |-> label, rows |-> {}, by |-> "switch"]
             w == IF ui.view = label THEN v
                  ELSE [v EXCEPT !.list = empty, !.selected = NoMessage, !.reader = Closed]
             x == [w EXCEPT !.folderGen = @ + 1, !.activeFolder = Ask, !.folderLoading = TRUE,
                            !.view = label]
             c == [type |-> "FetchFolder", request |-> Ask, label |-> label,
                   generation |-> ui.folderGen + 1, account |-> ui.account]
             update == Sending(normalize(x), CancelOf(ui) \o <<c>>)
  <1>1. Follows(ui, v) /\ Sane(v) /\ v.search = Idle
    BY UiFollows, InvalidateFollows DEF Follows
  <1>2. c.type \notin Spoken
    BY DEF Spoken
  <1>3. Gesture(update) /\ update.ui = normalize(x) /\ update.send = CancelOf(ui) \o <<c>>
    BY DEF load_folder, Sending
  <1> HIDE DEF v, c
  <1>4. Follows(v, w) /\ Sane(w)
    <2>1. CASE ui.view = label
      BY <1>1, <2>1, SaneFollows
    <2>2. CASE ui.view # label
      <3>1. w = [v EXCEPT !.list = empty, !.selected = NoMessage, !.reader = Closed]
        BY <2>2
      <3>2. /\ DOMAIN w = DOMAIN v /\ w.account = v.account /\ w.query = v.query
            /\ w.search = v.search /\ w.reader = Closed /\ w.selected = NoMessage
            /\ w.projection = v.projection
        BY <1>1, <3>1 DEF Sane, HasView, Seen
      <3> HIDE DEF w
      <3>3. Sane(w)
        BY <1>1, <3>2 DEF Sane, HasView, Closed
      <3> QED  BY <1>1, <3>2, <3>3 DEF Follows, Idle, Closed, ReaderFits
    <2> QED  BY <2>1, <2>2
  <1> HIDE DEF w
  <1>5. Follows(w, x) /\ Sane(x)
    <2>1. DOMAIN x = DOMAIN w /\ \A y \in Seen : x[y] = w[y]
      BY <1>4 DEF Sane, HasView, Seen
    <2> HIDE DEF x
    <2> QED  BY <1>4, <2>1, SameFollows DEF Follows
  <1> HIDE DEF x, update
  <1>6. Follows(ui, normalize(x)) /\ Listed(normalize(x))
    BY <1>1, <1>4, <1>5, NormalizeFollows, FollowsTwice
  <1>7. \A asked : AllAnswer(CancelOf(ui) \o <<c>>, asked, ui)
    BY <1>2, OtherAnswers, CancelAnswers, OneAnswers, AllTogether
  <1> QED  BY <1>3, <1>6, <1>7, GestureViews DEF Modest

LEMMA PersonViews ==
  ASSUME ViewInv,
         \/ \E kind \in {"Restore", "Connect"} : start(kind)
         \/ \E label \in Labels : load_folder(label)
         \/ \E query \in Queries : SetSearch(query)
         \/ submit_server_search \/ cancel_server_search \/ retry_server_search
         \/ \E id \in Messages : select_message(id)
         \/ retry_body \/ clear_body_cache \/ AccountRows
  PROVE  ViewStep
  <1> DEFINE v == invalidate_server_search(ui)
  <1>1. Follows(ui, v) /\ Sane(v) /\ Listed(v) /\ v.search = Idle
    BY UiFollows, InvalidateFollows DEF Follows
  <1>2. \A asked : AllAnswer(CancelOf(ui), asked, ui)
    BY CancelAnswers
  <1> HIDE DEF v
  <1>3. ASSUME NEW query \in Queries, SetSearch(query) PROVE ViewStep
    <2> DEFINE x == [v EXCEPT !.query = query]
               update == Sending(normalize(x), CancelOf(ui))
    <2>1. Gesture(update) /\ update.ui = normalize(x) /\ update.send = CancelOf(ui)
      BY <1>3 DEF SetSearch, v, Sending
    <2>2. /\ DOMAIN x = DOMAIN v /\ x.account = v.account /\ x.list = v.list /\ x.search = v.search
          /\ x.selected = v.selected /\ x.reader = v.reader /\ x.projection = v.projection
          /\ x.query = query
      BY <1>1 DEF Sane, HasView, Seen
    <2> HIDE DEF x, update
    <2>3. Sane(x)
      BY <1>1, <2>2 DEF Sane, HasView, Idle
    <2>4. Follows(v, x)
      BY <2>2, <2>3 DEF Follows, ReaderFits
    <2>5. Follows(ui, normalize(x)) /\ Listed(normalize(x))
      BY <1>1, <2>3, <2>4, NormalizeFollows, FollowsTwice
    <2> QED  BY <1>2, <2>1, <2>5, GestureViews DEF Modest
  <1>4. CASE cancel_server_search
    <2> DEFINE update == Sending(normalize(v), CancelOf(ui))
    <2>1. Gesture(update) /\ update.ui = normalize(v) /\ update.send = CancelOf(ui)
      BY <1>4 DEF cancel_server_search, v, Sending
    <2> HIDE DEF update
    <2>2. Follows(ui, normalize(v)) /\ Listed(normalize(v))
      BY <1>1, NormalizeFollows, FollowsTwice
    <2> QED  BY <1>2, <2>1, <2>2, GestureViews DEF Modest
  <1>5. ASSUME NEW id \in Messages, select_message(id) PROVE ViewStep
    <2> DEFINE x == [ui EXCEPT !.selected = id]
    <2>1. Gesture(open_selected(x)) /\ id \in Visible(ui)
      BY <1>5 DEF select_message
    <2>2. DOMAIN x = DOMAIN ui /\ \A y \in Seen \ {"selected"} : x[y] = ui[y]
      BY UiFollows DEF HasView, Seen
    <2>3. x.selected = id
      BY UiFollows DEF HasView, Seen
    <2> HIDE DEF x
    <2> QED  BY <2>1, <2>2, <2>3, OpenViews
  <1>6. CASE retry_body
    <2>1. Gesture(open_selected(ui)) /\ ui.reader.state = "Failed"
      BY <1>6 DEF retry_body
    <2>2. ui.selected # NoMessage => ui.selected \in Visible(ui)
      BY UiFollows DEF Listed
    <2> QED  BY <2>1, <2>2, OpenViews
  <1>7. CASE clear_body_cache
    <2> DEFINE w == [ui EXCEPT !.cacheGen = @ + 1, !.clearing = Ask, !.reader = Closed]
               c == [type |-> "ClearBodyCache", operation |-> Ask, generation |-> ui.cacheGen + 1]
               update == Sending(w, <<c>>)
    <2>1. Gesture(update) /\ update.ui = w /\ update.send = <<c>>
      BY <1>7 DEF clear_body_cache, Sending
    <2>2. c.type \notin Spoken
      BY DEF Spoken
    <2>3. /\ DOMAIN w = DOMAIN ui /\ w.account = ui.account /\ w.query = ui.query
          /\ w.search = ui.search /\ w.reader = Closed /\ w.selected = ui.selected
          /\ w.list = ui.list /\ w.projection = ui.projection
      BY UiFollows DEF HasView, Seen
    <2> HIDE DEF w, c, update
    <2>4. Sane(w) /\ Listed(w)
      <3>1. Visible(w) = Visible(ui)
        BY <2>3 DEF Visible
      <3> QED  BY <2>3, <3>1, UiFollows DEF Sane, HasView, Closed, Listed
    <2>5. Follows(ui, w)
      BY <2>3, <2>4 DEF Follows, Closed, ReaderFits
    <2>6. \A asked : AllAnswer(<<c>>, asked, ui)
      BY <2>2, OtherAnswers, OneAnswers
    <2> QED  BY <2>1, <2>4, <2>5, <2>6, GestureViews DEF Modest
  <1>8. CASE AccountRows
    <2> DEFINE x == [ui EXCEPT !.projection = ~@]
    <2>1. Gesture(Quiet(x))
      BY <1>8 DEF AccountRows
    <2>2. /\ DOMAIN x = DOMAIN ui /\ \A y \in Seen \ {"selected", "projection"} : x[y] = ui[y]
          /\ x.selected = ui.selected /\ x.projection \in BOOLEAN
      BY UiFollows DEF HasView, Seen
    <2>3. x.projection # ui.projection
      <3>1. x.projection = ~ui.projection /\ ui.projection \in BOOLEAN
        BY UiFollows DEF HasView, Seen, Sane
      <3> QED  BY <3>1
    <2> HIDE DEF x
    <2>4. Visible(x) = Visible(ui)
      BY <2>2 DEF Visible, Seen
    <2>5. Listed(x)
      BY <2>2, <2>4, UiFollows DEF Listed
    <2>6. ViewInv' /\ ui' = x
      BY <2>1, <2>2, <2>5, QuietViews
    <2>7. Kept(ui, x)
      BY <2>2, <2>3 DEF Kept, Chooses
    <2> QED  BY <2>6, <2>7 DEF ViewStep
  <1>9. ASSUME submit_server_search \/ retry_server_search PROVE ViewStep
    <2>1. ui.query \in Queries /\ (ui.search.state = "Failed" => ui.search.query = ui.query)
      BY UiFollows DEF Sane, Idle
    <2> QED  BY <1>9, <2>1, SubmitViews DEF submit_server_search, retry_server_search
  <1> QED  BY <1>3, <1>4, <1>5, <1>6, <1>7, <1>8, <1>9, StartViews, LoadViews

\* Where a new list comes in.
Others == {"account", "query", "search", "selected", "reader", "projection"}

\* The timer and the events: no gesture.
LEMMA ModestViews ==
  ASSUME ViewInv, NEW update, Modest(update), Dispatch(update), gestures' = gestures, UNCHANGED worker,
         \/ events' = events
         \/ events # <<>> /\ events' = Tail(events)
  PROVE  ViewStep
  <1>1. /\ gestures \in Nat /\ gestures' \in Nat /\ tasks' = tasks /\ DOMAIN tasks = TaskKinds
        /\ AllAnswer(commands, gestures', ui)
        /\ Runs("search", "SearchGmail", gestures', ui) /\ Runs("body", "FetchBody", gestures', ui)
    BY DEF ViewInv, worker
  <1>2. AllAnswer(events', gestures', ui)
    BY OneAnswersLess DEF ViewInv
  <1>3. ViewInv' /\ Follows(ui, ui')
    BY <1>1, <1>2, DispatchViews DEF Modest
  <1> QED  BY <1>3, FollowsKept DEF ViewStep

LEMMA TimerViews ==
  ASSUME ViewInv, background_sync_timer
  PROVE  ViewStep
  <1> DEFINE c == [type |-> "BackgroundSync", request |-> polls + 1, account |-> ui.account]
             x == [ui EXCEPT !.inFlight = polls + 1, !.pendingTick = FALSE]
             y == [ui EXCEPT !.pendingTick = TRUE]
             z == [y EXCEPT !.schedule = @ + 1]
             begun == Sending(x, <<c>>)
             update == IF timer # ui.schedule \/ ui.paused THEN Quiet(ui)
                       ELSE IF can_begin_background_sync(ui) THEN begun
                       ELSE Arming(y)
             last == [update EXCEPT !.timer = IF @ = "keep" THEN "fired" ELSE @]
  <1>1. Dispatch(last) /\ UNCHANGED <<worker, events, gestures>>
    BY DEF background_sync_timer
  <1>2. /\ DOMAIN x = DOMAIN ui /\ \A f \in Seen : x[f] = ui[f]
        /\ DOMAIN z = DOMAIN ui /\ \A f \in Seen : z[f] = ui[f]
    BY DEF Seen
  <1>3. c.type \notin Spoken
    BY DEF Spoken
  <1>4. update \in {Quiet(ui), begun, [ui |-> z, send |-> <<>>, timer |-> "arm"]}
    BY DEF Arming
  <1> HIDE DEF c, x, y, z, update
  <1>5. /\ Follows(ui, ui) /\ Listed(ui) /\ Follows(ui, x) /\ Listed(x) /\ Follows(ui, z) /\ Listed(z)
    BY <1>2, UiFollows, SameFollows
  <1>6. last.ui = update.ui /\ last.send = update.send
    BY <1>4 DEF Quiet, Sending
  <1>7. \A asked : AllAnswer(<<>>, asked, ui) /\ AllAnswer(<<c>>, asked, ui)
    BY <1>3, NoneAnswers, OtherAnswers, OneAnswers
  <1>8. Modest(update)
    BY <1>4, <1>5, <1>7 DEF Quiet, Sending, Modest
  <1>9. Modest(last)
    BY <1>6, <1>8 DEF Modest
  <1> HIDE DEF last
  <1> QED  BY <1>1, <1>9, ModestViews

LEMMA QuietIsModest ==
  ASSUME NEW u, Follows(ui, u), Listed(u)
  PROVE  Modest(Quiet(u)) /\ Modest(Arming(u))
  <1> DEFINE w == [u EXCEPT !.schedule = @ + 1]
  <1>1. DOMAIN w = DOMAIN u /\ \A x \in Seen : w[x] = u[x]
    BY DEF Seen, Others
  <1>2. Arming(u) = [ui |-> w, send |-> <<>>, timer |-> "arm"]
    BY DEF Arming
  <1> HIDE DEF w
  <1>3. Follows(ui, w) /\ Listed(w)
    BY <1>1, SameFollows, FollowsTwice DEF Follows
  <1> QED  BY <1>2, <1>3, NoneAnswers DEF Modest, Quiet

LEMMA AccountEventModest ==
  ASSUME ViewInv, NEW e, e.type \in OfOperation
  PROVE  Modest(AccountEvent(ui, e))
  <1> DEFINE v == Verified(ui, e.account)
             syncing == [v EXCEPT !.session = "Syncing"]
             cached == [v EXCEPT !.view = "Inbox", !.list = InboxOf(e, "sync")]
             synced == [v EXCEPT !.list = InboxOf(e, "sync")]
             done == [normalize(synced) EXCEPT !.session = "Ready", !.operation = 0, !.paused = FALSE]
             failed == [ui EXCEPT !.operation = 0, !.session = "Stopped"]
  <1>1. Follows(ui, v) /\ Sane(v) /\ Listed(v)
    BY UiFollows, VerifiedFollows DEF Follows
  <1>2. AccountEvent(ui, e) \in {Quiet(ui), Quiet(v), Quiet(syncing), Quiet(normalize(cached)),
                                 Arming(done), Quiet(failed)}
    BY DEF AccountEvent, OfOperation, SyncComplete
  <1>3. DOMAIN failed = DOMAIN ui /\ \A x \in Seen : failed[x] = ui[x]
    BY DEF Seen, Others
  <1> HIDE DEF v, failed
  <1>4. DOMAIN syncing = DOMAIN v /\ \A x \in Seen : syncing[x] = v[x]
    BY DEF Seen, Others
  <1>5. /\ DOMAIN cached = DOMAIN v /\ \A x \in Others : cached[x] = v[x]
        /\ DOMAIN synced = DOMAIN v /\ \A x \in Others : synced[x] = v[x]
    BY DEF Seen, Others
  <1> HIDE DEF syncing, cached, synced
  <1>6. ASSUME NEW w, DOMAIN w = DOMAIN v, \A x \in Others : w[x] = v[x]
        PROVE  Follows(ui, normalize(w)) /\ Sane(normalize(w)) /\ Listed(normalize(w))
    <2>1. /\ w.account = v.account /\ w.query = v.query /\ w.search = v.search
          /\ w.selected = v.selected /\ w.reader = v.reader /\ w.projection = v.projection
      BY <1>6 DEF Others
    <2>2. Sane(w)
      BY <1>1, <1>6, <2>1 DEF Sane, HasView
    <2>3. Follows(v, w)
      BY <1>6, <2>1, <2>2 DEF Follows, ReaderFits
    <2>4. Follows(ui, normalize(w)) /\ Listed(normalize(w))
      BY <1>1, <2>2, <2>3, NormalizeFollows, FollowsTwice
    <2> QED  BY <2>4 DEF Follows
  <1>7. DOMAIN done = DOMAIN normalize(synced) /\ \A x \in Seen : done[x] = normalize(synced)[x]
    BY DEF Seen, Others
  <1> HIDE DEF done
  <1>8. Follows(ui, done) /\ Listed(done)
    BY <1>5, <1>6, <1>7, SameFollows, FollowsTwice
  <1>9. Follows(ui, syncing) /\ Listed(syncing)
    BY <1>1, <1>4, SameFollows, FollowsTwice
  <1>10. Follows(ui, failed) /\ Listed(failed)
    BY <1>3, UiFollows, SameFollows
  <1>11. Follows(ui, normalize(cached)) /\ Listed(normalize(cached))
    BY <1>5, <1>6
  <1>12. /\ Modest(Quiet(ui)) /\ Modest(Quiet(v)) /\ Modest(Quiet(syncing)) /\ Modest(Quiet(normalize(cached)))
         /\ Modest(Arming(done)) /\ Modest(Quiet(failed))
    BY <1>1, <1>8, <1>9, <1>10, <1>11, UiFollows, QuietIsModest
  <1> QED  BY <1>2, <1>12

LEMMA FolderEventModest ==
  ASSUME ViewInv, NEW e
  PROVE  Modest(FolderEvent(ui, e))
  <1> DEFINE v == [ui EXCEPT !.list = [account |-> e.account, label |-> e.label, rows |-> e.rows,
                                       by |-> "folder"],
                             !.folderLoading = e.cached]
             w == IF e.cached THEN v ELSE [v EXCEPT !.activeFolder = 0, !.session = "Ready"]
             failed == [ui EXCEPT !.activeFolder = 0, !.folderLoading = FALSE,
                                  !.session = IF e.severe THEN "Stopped" ELSE @]
  <1>1. FolderEvent(ui, e) \in {Quiet(ui), Quiet(normalize(w)), Quiet(failed)}
    BY DEF FolderEvent, folder_loaded, folder_failed
  <1>2. DOMAIN failed = DOMAIN ui /\ \A x \in Seen : failed[x] = ui[x]
    BY DEF Seen, Others
  <1>3. DOMAIN w = DOMAIN ui /\ \A x \in Others : w[x] = ui[x]
    BY DEF Seen, Others
  <1> HIDE DEF w, failed
  <1>4. /\ w.account = ui.account /\ w.query = ui.query /\ w.search = ui.search
        /\ w.selected = ui.selected /\ w.reader = ui.reader /\ w.projection = ui.projection
    BY <1>3 DEF Others
  <1>5. Sane(w)
    BY <1>3, <1>4, UiFollows DEF Sane, HasView
  <1>6. Follows(ui, w)
    BY <1>3, <1>4, <1>5 DEF Follows, ReaderFits
  <1>7. Follows(ui, normalize(w)) /\ Listed(normalize(w))
    BY <1>5, <1>6, NormalizeFollows, FollowsTwice
  <1>8. Follows(ui, failed) /\ Listed(failed)
    BY <1>2, UiFollows, SameFollows
  <1>9. Modest(Quiet(ui)) /\ Modest(Quiet(normalize(w))) /\ Modest(Quiet(failed))
    BY <1>7, <1>8, UiFollows, QuietIsModest
  <1> QED  BY <1>1, <1>9

\* Results that are awaited are of the query and the account chosen now.
LEMMA SearchEventModest ==
  ASSUME ViewInv, NEW e, e.type \in {"SearchLoaded", "SearchFailed"}, Answers(e, gestures, ui)
  PROVE  Modest(SearchEvent(ui, e))
  <1> DEFINE results == [state |-> "Loaded", rows |-> e.rows, query |-> e.query, account |-> e.account]
             failure == [state |-> "Failed", query |-> ui.search.query]
             v == [ui EXCEPT !.search = results, !.selected = NoMessage, !.reader = Closed]
             w == [ui EXCEPT !.search = [state |-> "Failed", query |-> @.query]]
  <1>1. CASE ~SearchEventIsCurrent(ui, e)
    BY <1>1, UiFollows, QuietIsModest DEF SearchEvent
  <1>2. CASE SearchEventIsCurrent(ui, e) /\ e.type = "SearchLoaded"
    <2>1. SearchEvent(ui, e) = Quiet(normalize(v))
      BY <1>2 DEF SearchEvent
    <2>2. e.query = ui.query /\ e.account = ui.account /\ e.rows = Hits[ui.query]
      <3>1. e.query = ui.search.query /\ e.account = ui.account /\ e.rows = Hits[e.query]
        BY <1>2 DEF Answers, SearchEventIsCurrent
      <3>2. ui.search.query = ui.query
        BY <1>2, UiFollows DEF Sane, SearchEventIsCurrent, Idle
      <3> QED  BY <3>1, <3>2
    <2>3. /\ DOMAIN v = DOMAIN ui /\ v.search = results /\ v.reader = Closed /\ v.account = ui.account
          /\ v.query = ui.query /\ v.selected = NoMessage /\ v.projection = ui.projection
      BY UiFollows DEF HasView, Seen
    <2>4. /\ results.state = "Loaded" /\ results.query = ui.query /\ results.account = ui.account
          /\ results.rows = Hits[ui.query]
      BY <2>2
    <2> HIDE DEF v, results
    <2>5. Sane(v)
      BY <2>3, <2>4, UiFollows DEF Sane, HasView, Closed
    <2>6. Follows(ui, v)
      BY <2>3, <2>4, <2>5 DEF Follows, Closed, ReaderFits
    <2> QED  BY <2>1, <2>5, <2>6, NormalizeFollows, FollowsTwice, QuietIsModest
  <1>3. CASE SearchEventIsCurrent(ui, e) /\ e.type # "SearchLoaded"
    <2>1. SearchEvent(ui, e) = Quiet(normalize(w))
      BY <1>3 DEF SearchEvent
    <2>2. /\ DOMAIN w = DOMAIN ui /\ w.search = failure /\ w.reader = ui.reader /\ w.account = ui.account
          /\ w.query = ui.query /\ w.selected = ui.selected /\ w.projection = ui.projection
      BY UiFollows DEF HasView, Seen
    <2>3. failure.state = "Failed" /\ failure.query = ui.query
      BY <1>3, UiFollows DEF Sane, SearchEventIsCurrent, Idle
    <2> HIDE DEF w, failure
    <2>4. Sane(w)
      BY <2>2, <2>3, UiFollows DEF Sane, HasView
    <2>5. Follows(ui, w)
      BY <2>2, <2>3, <2>4 DEF Follows, ReaderFits
    <2> QED  BY <2>1, <2>4, <2>5, NormalizeFollows, FollowsTwice, QuietIsModest
  <1> QED  BY <1>1, <1>2, <1>3

\* So is a body that is awaited.
LEMMA BodyEventModest ==
  ASSUME ViewInv, NEW e, e.type \in {"BodyLoaded", "BodyFailed"}, Answers(e, gestures, ui)
  PROVE  Modest(BodyEvent(ui, e))
  <1> DEFINE loaded == [state |-> "Loaded", id |-> e.id, of |-> e.account]
             failure == [state |-> "Failed", id |-> e.id]
             v == [ui EXCEPT !.reader = loaded]
             w == [ui EXCEPT !.reader = failure]
  <1>1. CASE ~BodyEventIsCurrent(ui, e)
    BY <1>1, UiFollows, QuietIsModest DEF BodyEvent
  <1>2. CASE BodyEventIsCurrent(ui, e)
    <2>1. ui.reader.state = "Loading" /\ ui.reader # Closed /\ ui.reader.id = e.id
      BY <1>2 DEF BodyEventIsCurrent, Closed
    <2>2. e.type = "BodyLoaded" => e.account = ui.account
      BY <1>2 DEF BodyEventIsCurrent, Answers
    <2>3. \/ BodyEvent(ui, e) = Quiet(v) /\ e.type = "BodyLoaded"
          \/ BodyEvent(ui, e) = Quiet(w)
      BY <1>2 DEF BodyEvent
    <2>4. ASSUME NEW reader, reader.state \in {"Loaded", "Failed"}, reader.id = e.id,
                 reader.state = "Loaded" => reader.of = ui.account,
                 NEW x, x = [ui EXCEPT !.reader = reader]
          PROVE  Modest(Quiet(x))
      <3>1. /\ DOMAIN x = DOMAIN ui /\ x.search = ui.search /\ x.reader = reader /\ x.account = ui.account
            /\ x.query = ui.query /\ x.selected = ui.selected /\ x.list = ui.list
            /\ x.projection = ui.projection
        BY <2>4, UiFollows DEF HasView, Seen
      <3>2. Visible(x) = Visible(ui)
        BY <3>1 DEF Visible
      <3>3. Sane(x)
        BY <2>1, <2>4, <3>1, UiFollows DEF Sane, HasView
      <3>4. Follows(ui, x) /\ Listed(x)
        BY <2>1, <2>4, <3>1, <3>2, <3>3, UiFollows DEF Follows, Listed, ReaderFits
      <3> QED  BY <3>4, QuietIsModest
    <2>5. loaded.state = "Loaded" /\ loaded.id = e.id /\ loaded.of = e.account
      OBVIOUS
    <2>6. failure.state = "Failed" /\ failure.id = e.id
      OBVIOUS
    <2> HIDE DEF loaded, failure
    <2> QED  BY <2>2, <2>3, <2>4, <2>5, <2>6
  <1> QED  BY <1>1, <1>2

LEMMA CacheEventModest ==
  ASSUME ViewInv, NEW e
  PROVE  Modest(CacheEvent(ui, e))
  <1> DEFINE x == [ui EXCEPT !.clearing = 0, !.reader = IF e.type = "CacheCleared" THEN Closed ELSE @]
  <1>1. CacheEvent(ui, e) \in {Quiet(ui), Quiet(x)}
    BY DEF CacheEvent
  <1>2. /\ DOMAIN x = DOMAIN ui /\ x.search = ui.search /\ x.account = ui.account /\ x.query = ui.query
        /\ x.selected = ui.selected /\ x.list = ui.list /\ x.reader \in {ui.reader, Closed}
        /\ x.projection = ui.projection
    BY UiFollows DEF HasView, Seen
  <1> HIDE DEF x
  <1>3. Visible(x) = Visible(ui)
    BY <1>2 DEF Visible
  <1>4. Sane(x)
    BY <1>2, UiFollows DEF Sane, HasView, Closed
  <1>5. Follows(ui, x) /\ Listed(x)
    BY <1>2, <1>3, <1>4, UiFollows DEF Follows, Listed, Closed, ReaderFits
  <1> QED  BY <1>1, <1>5, UiFollows, QuietIsModest

LEMMA PollEventModest ==
  ASSUME ViewInv, NEW e
  PROVE  Modest(background_worker_event(ui, e))
  <1> DEFINE v == [ui EXCEPT !.inFlight = 0]
             w == [v EXCEPT !.list = InboxOf(e, "poll")]
             x == [v EXCEPT !.paused = TRUE]
  <1>1. background_worker_event(ui, e) \in {Quiet(ui), Arming(normalize(w)), Arming(v), Quiet(x)}
    BY DEF background_worker_event
  <1>2. /\ DOMAIN v = DOMAIN ui /\ \A f \in Seen : v[f] = ui[f]
        /\ DOMAIN x = DOMAIN ui /\ \A f \in Seen : x[f] = ui[f]
        /\ DOMAIN w = DOMAIN ui /\ \A f \in Others : w[f] = ui[f]
    BY DEF Seen, Others
  <1> HIDE DEF v, w, x
  <1>3. Follows(ui, v) /\ Listed(v) /\ Follows(ui, x) /\ Listed(x)
    BY <1>2, UiFollows, SameFollows
  <1>4. /\ w.account = ui.account /\ w.query = ui.query /\ w.search = ui.search
        /\ w.selected = ui.selected /\ w.reader = ui.reader /\ w.projection = ui.projection
    BY <1>2 DEF Others
  <1>5. Sane(w)
    BY <1>2, <1>4, UiFollows DEF Sane, HasView
  <1>6. Follows(ui, w)
    BY <1>2, <1>4, <1>5 DEF Follows, ReaderFits
  <1>7. Follows(ui, normalize(w)) /\ Listed(normalize(w))
    BY <1>5, <1>6, NormalizeFollows, FollowsTwice
  <1>8. Modest(Quiet(ui)) /\ Modest(Arming(normalize(w))) /\ Modest(Arming(v)) /\ Modest(Quiet(x))
    BY <1>3, <1>7, UiFollows, QuietIsModest
  <1> QED  BY <1>1, <1>8

LEMMA ReceiveViews ==
  ASSUME ViewInv, Receive
  PROVE  ViewStep
  <1>1. PICK e : e = Head(events)
    OBVIOUS
  <1>2. /\ Dispatch(worker_event(ui, e)) /\ UNCHANGED worker /\ gestures' = gestures
        /\ events # <<>> /\ events' = Tail(events)
    BY <1>1 DEF Receive, counts
  <1>3. Answers(e, gestures, ui)
    BY <1>1, <1>2, OneAnswersLess DEF ViewInv
  <1>4. Modest(worker_event(ui, e))
    BY <1>3, AccountEventModest, FolderEventModest, SearchEventModest, BodyEventModest, CacheEventModest,
       PollEventModest DEF worker_event
  <1> QED  BY <1>2, <1>4, ModestViews

LEMMA UnavailableViews ==
  ASSUME ViewInv, Unavailable
  PROVE  ViewStep
  <1>1. /\ UNCHANGED <<commands, events, gestures, tasks>> /\ ui' = WorkerUnavailable(ui)
        /\ gestures <= gestures
    BY UiFollows DEF Unavailable, worker, counts
  <1>2. Follows(ui, ui') /\ Listed(ui') /\ Sane(ui')
    BY <1>1, UiFollows, UnavailableFollows DEF Follows
  <1>3. AllAnswer(commands', gestures', ui') /\ AllAnswer(events', gestures', ui')
    BY <1>1, <1>2, UiFollows, AllStay DEF ViewInv
  <1>4. Runs("search", "SearchGmail", gestures, ui)' /\ Runs("body", "FetchBody", gestures, ui)'
    BY <1>1, <1>2, UiFollows, AnswersStay DEF Busy, Runs, ViewInv
  <1>5. ViewInv'
    BY <1>1, <1>2, <1>3, <1>4, UiFollows DEF ViewInv
  <1> QED  BY <1>2, <1>5, FollowsKept DEF ViewStep

\* The worker leaves the UI alone, says one thing at a time, and a task is the
\* one that ran, or that of a command.
Continues(kind, type) ==
    \/ tasks'[kind] \in {tasks[kind], NoTask}
    \/ Busy(kind) /\ "of" \in DOMAIN tasks'[kind] /\ tasks'[kind].of = tasks[kind].of
    \/ /\ "of" \in DOMAIN tasks'[kind] /\ tasks'[kind].of.type = type
       /\ Answers(tasks'[kind].of, gestures, ui)

LEMMA WorkerViews ==
  ASSUME ViewInv, UNCHANGED <<ui, gestures>>, AllAnswer(commands', gestures, ui),
         \/ events' = events
         \/ \E e : Says(e) /\ Answers(e, gestures, ui),
         DOMAIN tasks' = TaskKinds,
         Continues("search", "SearchGmail"), Continues("body", "FetchBody")
  PROVE  ViewStep
  <1>1. AllAnswer(events', gestures, ui)
    BY OneAnswersMore DEF ViewInv, Says
  <1>2. ASSUME NEW kind, NEW type, Runs(kind, type, gestures, ui), Continues(kind, type), Busy(kind)'
        PROVE  "of" \in DOMAIN tasks'[kind] /\ tasks'[kind].of.type = type
                 /\ Answers(tasks'[kind].of, gestures, ui)
    BY <1>2 DEF Busy, Runs, Continues
  <1>3. Runs("search", "SearchGmail", gestures, ui)' /\ Runs("body", "FetchBody", gestures, ui)'
    BY <1>2 DEF Runs, ViewInv
  <1>4. ViewInv'
    BY <1>1, <1>3 DEF ViewInv, Sane, HasView, Listed, Visible
  <1>5. Kept(ui, ui')
    BY DEF Kept, Chooses
  <1> QED  BY <1>4, <1>5 DEF ViewStep

LEMMA ControlViews ==
  ASSUME ViewInv, Control
  PROVE  ViewStep
  <1>1. PICK c : c = Head(commands)
    OBVIOUS
  <1>2. /\ commands # <<>> /\ commands' = Tail(commands) /\ UNCHANGED <<ui, gestures>>
        /\ CASE c.type = "FetchFolder" -> FetchFolder(c)
             [] c.type = "CancelSearch" -> CancelSearch(c)
             [] c.type = "SearchGmail" -> SearchGmail(c)
             [] c.type = "FetchBody" -> FetchBody(c)
             [] c.type = "ClearBodyCache" -> ClearBodyCache(c)
             [] c.type = "BackgroundSync" -> BackgroundSync(c)
             [] OTHER -> AccountBoundary(c)
    BY <1>1 DEF Control, counts
  <1>3. AllAnswer(commands', gestures, ui) /\ Answers(c, gestures, ui)
    BY <1>1, <1>2, OneAnswersLess DEF ViewInv
  <1>4. DOMAIN tasks = TaskKinds /\ "search" \in TaskKinds /\ "body" \in TaskKinds
    BY DEF ViewInv, TaskKinds
  <1>5. CASE c.type = "SearchGmail"
    <2>1. SearchGmail(c)
      BY <1>2, <1>5
    <2>2. /\ DOMAIN tasks' = TaskKinds /\ events' = events /\ tasks'["body"] = tasks["body"]
          /\ tasks'["search"] = [kind |-> "search", of |-> c, stage |-> "network"]
      BY <1>4, <2>1 DEF SearchGmail, Begin
    <2>3. "of" \in DOMAIN tasks'["search"] /\ tasks'["search"].of = c
      BY <2>2
    <2>4. Continues("search", "SearchGmail") /\ Continues("body", "FetchBody")
      BY <1>3, <1>5, <2>2, <2>3 DEF Continues
    <2> QED  BY <1>2, <1>3, <2>2, <2>4, WorkerViews
  <1>6. CASE c.type = "FetchBody"
    <2>1. FetchBody(c)
      BY <1>2, <1>6
    <2>2. /\ DOMAIN tasks' = TaskKinds /\ events' = events /\ tasks'["search"] = tasks["search"]
          /\ \/ tasks'["body"] = tasks["body"]
             \/ tasks'["body"] = [kind |-> "body", of |-> c, stage |-> "fetch"]
      BY <1>4, <2>1 DEF FetchBody, Begin
    <2>3. tasks'["body"] = tasks["body"] \/ ("of" \in DOMAIN tasks'["body"] /\ tasks'["body"].of = c)
      <3> DEFINE new == [kind |-> "body", of |-> c, stage |-> "fetch"]
      <3>1. "of" \in DOMAIN new /\ new.of = c
        OBVIOUS
      <3>2. tasks'["body"] = tasks["body"] \/ tasks'["body"] = new
        BY <2>2
      <3> HIDE DEF new
      <3> QED  BY <3>1, <3>2
    <2>4. Continues("search", "SearchGmail") /\ Continues("body", "FetchBody")
      BY <1>3, <1>6, <2>2, <2>3 DEF Continues
    <2> QED  BY <1>2, <1>3, <2>2, <2>4, WorkerViews
  <1>7. CASE c.type \notin {"SearchGmail", "FetchBody"}
    <2>1. FetchFolder(c) \/ CancelSearch(c) \/ ClearBodyCache(c) \/ BackgroundSync(c) \/ AccountBoundary(c)
      BY <1>2, <1>7
    <2>2. /\ DOMAIN tasks' = TaskKinds
          /\ tasks'["search"] \in {tasks["search"], NoTask} /\ tasks'["body"] \in {tasks["body"], NoTask}
      BY <1>4, <2>1 DEF CancelSearch, FetchFolder, ClearBodyCache, BackgroundSync, AccountBoundary, Begin
    <2>3. events' = events \/ \E e : Says(e) /\ e.type \notin Spoken
      <3>1. ASSUME NEW request PROVE PollFailed(request, TRUE).type \notin Spoken
        BY DEF PollFailed, Spoken
      <3>2. CASE ClearBodyCache(c)
        BY <3>2 DEF ClearBodyCache, Says, Spoken
      <3>3. CASE BackgroundSync(c) \/ AccountBoundary(c)
        BY <3>1, <3>3 DEF BackgroundSync, AccountBoundary, Says
      <3>4. CASE FetchFolder(c) \/ CancelSearch(c)
        BY <3>4 DEF FetchFolder, CancelSearch
      <3> QED  BY <2>1, <3>2, <3>3, <3>4
    <2>4. Continues("search", "SearchGmail") /\ Continues("body", "FetchBody")
      BY <2>2 DEF Continues
    <2>5. events' = events \/ \E e : Says(e) /\ Answers(e, gestures, ui)
      BY <2>3, OtherAnswers
    <2> QED  BY <1>2, <1>3, <2>2, <2>4, <2>5, WorkerViews
  <1> QED  BY <1>5, <1>6, <1>7

\* What a search finds is what its query matches, and it is said for its request.
LEMMA SearchTaskViews ==
  ASSUME ViewInv, SearchTask
  PROVE  ViewStep
  <1> DEFINE c == tasks["search"].of
             failed == Bare("SearchFailed", c)
             loaded == [type |-> "SearchLoaded", request |-> c.request, generation |-> c.generation,
                        query |-> c.query, account |-> c.account, rows |-> Hits[c.query]]
  <1>1. /\ UNCHANGED <<ui, gestures, commands>> /\ DOMAIN tasks = TaskKinds /\ "search" \in TaskKinds
        /\ AllAnswer(commands', gestures, ui) /\ c.type = "SearchGmail" /\ Answers(c, gestures, ui)
    BY DEF SearchTask, TaskStep, ViewInv, counts, TaskKinds, Runs
  <1>2. tasks' = [tasks EXCEPT !["search"] = NoTask]
    BY DEF SearchTask, Ends, Begin
  <1>3. events' = events \/ Says(failed) \/ Says(loaded)
    BY DEF SearchTask
  <1>4. Answers(failed, gestures, ui)
    BY OtherAnswers DEF Bare, Spoken
  <1>5. Answers(loaded, gestures, ui)
    <2>1. /\ loaded.type = "SearchLoaded" /\ loaded.request = c.request /\ loaded.query = c.query
          /\ loaded.account = c.account /\ loaded.rows = Hits[c.query]
      OBVIOUS
    <2> HIDE DEF loaded, c
    <2> QED  BY <1>1, <2>1 DEF Answers
  <1> HIDE DEF failed, loaded
  <1>6. /\ DOMAIN tasks' = TaskKinds /\ tasks'["search"] = NoTask /\ tasks'["body"] = tasks["body"]
    BY <1>1, <1>2
  <1>7. Continues("search", "SearchGmail") /\ Continues("body", "FetchBody")
    BY <1>6 DEF Continues
  <1> QED  BY <1>1, <1>3, <1>4, <1>5, <1>6, <1>7, WorkerViews

LEMMA BodyTaskViews ==
  ASSUME ViewInv, BodyTask
  PROVE  ViewStep
  <1> DEFINE c == tasks["body"].of
             loaded == [type |-> "BodyLoaded", request |-> c.request, generation |-> c.generation,
                        id |-> c.id, account |-> c.account]
             failed == [type |-> "BodyFailed", request |-> c.request, generation |-> c.generation,
                        id |-> c.id]
  <1>1. /\ UNCHANGED <<ui, gestures, commands>> /\ DOMAIN tasks = TaskKinds /\ "body" \in TaskKinds
        /\ AllAnswer(commands', gestures, ui) /\ Busy("body") /\ "of" \in DOMAIN tasks["body"]
        /\ c.type = "FetchBody" /\ Answers(c, gestures, ui)
    BY DEF BodyTask, TaskStep, ViewInv, counts, TaskKinds, Runs
  <1>2. tasks' = [tasks EXCEPT !["body"] = NoTask] \/ tasks' = [tasks EXCEPT !["body"].stage = "saving"]
    BY DEF BodyTask, Ends, Goes, Begin
  <1>3. events' = events \/ Says(failed) \/ Says(loaded)
    BY DEF BodyTask
  <1>4. Answers(failed, gestures, ui)
    BY OtherAnswers DEF Spoken
  <1>5. Answers(loaded, gestures, ui)
    <2>1. loaded.type = "BodyLoaded" /\ loaded.request = c.request /\ loaded.account = c.account
      OBVIOUS
    <2> HIDE DEF loaded, c
    <2> QED  BY <1>1, <2>1 DEF Answers
  <1> HIDE DEF failed, loaded
  <1>6. /\ DOMAIN tasks' = TaskKinds /\ tasks'["search"] = tasks["search"]
        /\ \/ tasks'["body"] = NoTask
           \/ "of" \in DOMAIN tasks'["body"] /\ tasks'["body"].of = c
    <2> HIDE DEF c
    <2>1. CASE tasks' = [tasks EXCEPT !["body"] = NoTask]
      BY <1>1, <2>1
    <2>2. CASE tasks' = [tasks EXCEPT !["body"].stage = "saving"]
      <3>1. tasks'["body"] = [tasks["body"] EXCEPT !.stage = "saving"]
        BY <1>1, <2>2
      <3>2. "of" \in DOMAIN tasks'["body"] /\ tasks'["body"].of = tasks["body"].of
        BY <1>1, <3>1
      <3> QED  BY <1>1, <2>2, <3>2 DEF c
    <2> QED  BY <1>2, <2>1, <2>2
  <1>7. Continues("search", "SearchGmail") /\ Continues("body", "FetchBody")
    BY <1>1, <1>6 DEF Continues
  <1> QED  BY <1>1, <1>3, <1>4, <1>5, <1>6, <1>7, WorkerViews

\* What the tasks say of folders and of a sign-in.
LEMMA FolderSays ==
  ASSUME FolderTask
  PROVE  events' = events \/ \E e : Says(e) /\ e.type \in {"FolderLoaded", "FolderFailed"}
  <1> DEFINE t == tasks["folder"]
             Loaded(rows, cached) ==
                [type |-> "FolderLoaded", request |-> t.of.request, generation |-> t.of.generation,
                 label |-> t.of.label, account |-> t.of.account, rows |-> rows, cached |-> cached]
             Failed(severe) ==
                [type |-> "FolderFailed", request |-> t.of.request, generation |-> t.of.generation,
                 label |-> t.of.label, severe |-> severe]
  <1>1. \/ events' = events
        \/ \E rows : \E cached \in BOOLEAN : Says(Loaded(rows, cached))
        \/ \E severe \in BOOLEAN : Says(Failed(severe))
    BY DEF FolderTask
  <1>2. /\ \A rows, cached : Loaded(rows, cached).type = "FolderLoaded"
        /\ \A severe : Failed(severe).type = "FolderFailed"
    OBVIOUS
  <1> HIDE DEF Loaded, Failed
  <1> QED  BY <1>1, <1>2

LEMMA SyncSays ==
  ASSUME SyncTask
  PROVE  events' = events \/ \E e : Says(e) /\ e.type \in OfOperation
  <1> DEFINE t == tasks["sync"]
             Of(type, account) == [type |-> type, operation |-> t.of.operation, account |-> account]
             WithRows(type, rows) == [type |-> type, operation |-> t.of.operation,
                                      account |-> t.account, rows |-> rows]
             failed == [type |-> "Failed", operation |-> t.of.operation]
  <1>1. \/ events' = events \/ Says(failed)
        \/ \E type \in {"IdentityVerified", "AccountPersisted"} : \E account : Says(Of(type, account))
        \/ \E type \in {"CacheLoaded", "SyncComplete"} : \E rows : Says(WithRows(type, rows))
    BY DEF SyncTask
  <1>2. /\ failed.type \in OfOperation
        /\ \A type \in {"IdentityVerified", "AccountPersisted"} : \A account : Of(type, account).type \in OfOperation
        /\ \A type \in {"CacheLoaded", "SyncComplete"} : \A rows : WithRows(type, rows).type \in OfOperation
    BY DEF OfOperation
  <1> HIDE DEF failed, Of, WithRows
  <1> QED  BY <1>1, <1>2

LEMMA OtherTasksView ==
  ASSUME ViewInv, FolderTask \/ PollTask \/ SyncTask \/ SaveBody
  PROVE  ViewStep
  <1>1. /\ UNCHANGED <<ui, gestures, commands>> /\ DOMAIN tasks = TaskKinds
        /\ "search" \in TaskKinds /\ "body" \in TaskKinds /\ AllAnswer(commands', gestures, ui)
    BY DEF FolderTask, PollTask, SyncTask, SaveBody, TaskStep, ViewInv, counts, TaskKinds
  <1>2. DOMAIN tasks' = TaskKinds /\ tasks'["search"] = tasks["search"] /\ tasks'["body"] = tasks["body"]
    BY <1>1 DEF FolderTask, PollTask, SyncTask, SaveBody, Ends, Goes, Begin
  <1>3. Continues("search", "SearchGmail") /\ Continues("body", "FetchBody")
    BY <1>2 DEF Continues
  <1>4. events' = events \/ \E e : Says(e) /\ e.type \notin Spoken
    <2>1. CASE FolderTask
      BY <2>1, FolderSays DEF Spoken
    <2>2. CASE PollTask
      <3> DEFINE c == tasks["poll"].of
                 Complete(rows) == [type |-> "BackgroundSyncComplete", request |-> c.request,
                                    account |-> c.account, rows |-> rows]
      <3>1. \/ \E rows : Says(Complete(rows))
            \/ \E retryable : Says(PollFailed(c.request, retryable))
        BY <2>2 DEF PollTask
      <3>2. /\ \A rows : Complete(rows).type \notin Spoken
            /\ \A request, retryable : PollFailed(request, retryable).type \notin Spoken
        BY DEF PollFailed, Spoken
      <3> HIDE DEF Complete
      <3> QED  BY <3>1, <3>2
    <2>3. CASE SyncTask
      BY <2>3, SyncSays DEF Spoken, OfOperation
    <2>4. CASE SaveBody
      BY <2>4 DEF SaveBody
    <2> QED  BY <2>1, <2>2, <2>3, <2>4
  <1>5. events' = events \/ \E e : Says(e) /\ Answers(e, gestures, ui)
    BY <1>4, OtherAnswers
  <1> QED  BY <1>1, <1>2, <1>3, <1>5, WorkerViews

LEMMA StopViews ==
  ASSUME ViewInv, WorkerStops
  PROVE  ViewStep
  <1>1. /\ UNCHANGED <<ui, gestures, events>> /\ commands' = <<>>
        /\ DOMAIN tasks' = TaskKinds /\ tasks'["search"] = NoTask /\ tasks'["body"] = NoTask
    BY DEF WorkerStops, counts, TaskKinds
  <1>2. Continues("search", "SearchGmail") /\ Continues("body", "FetchBody")
    BY <1>1 DEF Continues
  <1> QED  BY <1>1, <1>2, NoneAnswers, WorkerViews

LEMMA InitViews == Init => ViewInv
  <1> SUFFICES ASSUME Init PROVE ViewInv
    OBVIOUS
  <1>1. PICK account \in Accounts, rows \in Rows["Inbox"], query \in Queries, projection \in BOOLEAN :
           ui = normalize(FirstView(account, rows, query, projection))
    BY DEF Init
  <1> DEFINE u == FirstView(account, rows, query, projection)
  <1>2. HasView(u) /\ u.query \in Queries /\ u.projection \in BOOLEAN /\ u.search = Idle /\ u.reader = Closed
    BY DEF HasView, Seen, FirstView
  <1> HIDE DEF u
  <1>3. Sane(u)
    BY <1>2 DEF Sane, Idle, Closed
  <1>4. Sane(ui) /\ Listed(ui)
    BY <1>1, <1>3, NormalizeFollows DEF u, Follows
  <1>5. /\ commands = <<>> /\ events = <<>> /\ gestures = 0
        /\ DOMAIN tasks = TaskKinds /\ tasks["search"] = NoTask /\ tasks["body"] = NoTask
    BY DEF Init, TaskKinds
  <1> QED  BY <1>4, <1>5, NoneAnswers DEF ViewInv, Runs, Busy

LEMMA NextViews == ViewInv /\ [Next]_vars => ViewStep
  <1> SUFFICES ASSUME ViewInv, [Next]_vars PROVE ViewStep
    OBVIOUS
  <1>1. CASE Person
    BY <1>1, PersonViews DEF Person
  <1>2. CASE System
    BY <1>2, TimerViews, ReceiveViews, UnavailableViews, ControlViews, SearchTaskViews, BodyTaskViews,
       OtherTasksView DEF System
  <1>3. CASE WorkerStops
    BY <1>3, StopViews
  <1>4. CASE UNCHANGED vars
    <2>1. UNCHANGED <<ui, gestures, commands, events, tasks>>
      BY <1>4 DEF vars, worker, counts
    <2>2. ViewInv'
      BY <2>1 DEF ViewInv, Sane, HasView, Listed, Visible, Runs, Busy
    <2>3. Kept(ui, ui')
      BY <2>1 DEF Kept, Chooses
    <2> QED  BY <2>2, <2>3 DEF ViewStep
  <1> QED  BY <1>1, <1>2, <1>3, <1>4 DEF Next

\* While a search is shown it is the one for the words in the search box, and its
\* rows are what they match in the account signed in: results that come after
\* the query, the account or the label changed are dropped, however late
\* (invalidate_server_search, search_loaded).
THEOREM ResultsAreTheQuerys == Spec => []ResultsMatchQuery
  <1>1. ViewInv => ResultsMatchQuery
    BY DEF ViewInv, Sane, ResultsMatchQuery
  <1>2. ViewInv /\ [Next]_vars => ViewInv'
    BY NextViews DEF ViewStep
  <1> QED  BY <1>1, <1>2, InitViews, PTL DEF Spec

\* The list shows the selected message, and a loaded body was fetched for the
\* account signed in, although ids repeat between accounts; while rows of the
\* accounts neither appear nor vanish no step parts an open reader from the
\* selection, but for dropping the selection where there are rows, and there
\* nothing but opening a message selects one (normalize, open_selected, the gate
\* of BodyLoaded).
THEOREM ReaderIsTheSelections == Spec => ReaderShowsSelection
  <1> DEFINE I == /\ ui.selected # NoMessage => ui.selected \in Visible(ui)
                  /\ ui.reader.state = "Loaded" => ui.reader.of = ui.account
             A == /\ ui'.projection = ui.projection /\ ReaderFits(ui) => ReaderFits(ui')
                  /\ ui.projection /\ ui'.selected \notin {NoMessage, ui.selected} =>
                        ui'.reader # Closed /\ ui'.reader.id = ui'.selected
  <1>1. ViewInv => I
    BY DEF ViewInv, Sane, Listed
  <1>2. ViewInv /\ [Next]_vars => ViewInv'
    BY NextViews DEF ViewStep
  <1>3. ViewInv /\ [Next]_vars => [A]_vars
    BY NextViews DEF ViewStep, Kept, Chooses
  <1>4. Spec => []ViewInv /\ [][Next]_vars
    BY <1>2, InitViews, PTL DEF Spec
  <1>5. Spec => []I /\ [][A]_vars
    BY <1>1, <1>3, <1>4, PTL
  <1> QED  BY <1>5 DEF ReaderShowsSelection

-----------------------------------------------------------------------------
(* The schedule of the poll                                                   *)

Clock == {"account", "inFlight", "paused", "schedule"}
HasClock(u) == Clock \subseteq DOMAIN u

\* A poll that is awaited stays so, for the same account, or it is given up.
Awaits(u, v) ==
    /\ DOMAIN v = DOMAIN u
    /\ v.inFlight # 0 => v.inFlight = u.inFlight /\ v.account = u.account

\* The schedule goes on as it was, unless it is paused.
Steady(u, v) ==
    /\ Awaits(u, v)
    /\ ~v.paused => ~u.paused /\ v.schedule = u.schedule /\ v.inFlight = u.inFlight

\* A poll that is awaited is one for the account shown.
Fits(c, begun, u) ==
    c.type \in {"BackgroundSync", "BackgroundSyncComplete"} =>
        /\ c.request \in Nat /\ c.request # 0 /\ c.request <= begun
        /\ c.request = u.inFlight => c.account = u.account

AllFit(s, begun, u) == IsSeq(s) /\ \A i \in DOMAIN s : Fits(s[i], begun, u)

PollInv ==
    /\ HasClock(ui) /\ polls \in Nat
    /\ AllFit(commands, polls, ui) /\ AllFit(events, polls, ui)
    /\ DOMAIN tasks = TaskKinds
    /\ Busy("poll") => /\ "of" \in DOMAIN tasks["poll"] /\ tasks["poll"].of.type = "BackgroundSync"
                       /\ Fits(tasks["poll"].of, polls, ui)
    /\ PollingContinues

LEMMA SteadyTwice ==
  ASSUME NEW u, NEW v, NEW w, Steady(u, v), Steady(v, w)
  PROVE  Steady(u, w)
  BY DEF Steady, Awaits

LEMMA SameSteady ==
  ASSUME NEW u, NEW v, DOMAIN v = DOMAIN u, \A x \in Clock : v[x] = u[x]
  PROVE  Steady(u, v)
  BY DEF Steady, Awaits, Clock

LEMMA UiSteady == Steady(ui, ui)
  BY DEF Steady, Awaits

LEMMA NormalizeSteady ==
  ASSUME NEW u, HasClock(u)
  PROVE  Steady(u, normalize(u)) /\ HasClock(normalize(u))
  <1> DEFINE v == normalize(u)
  <1>1. DOMAIN v = DOMAIN u /\ \A x \in Clock : v[x] = u[x]
    BY DEF normalize, FollowList, Clock
  <1> HIDE DEF v
  <1> QED  BY <1>1, SameSteady DEF HasClock, v

LEMMA InvalidateSteady ==
  ASSUME NEW u, HasClock(u)
  PROVE  Steady(u, invalidate_server_search(u)) /\ HasClock(invalidate_server_search(u))
  <1> DEFINE v == invalidate_server_search(u)
  <1>1. DOMAIN v = DOMAIN u /\ \A x \in Clock : v[x] = u[x]
    BY DEF invalidate_server_search, Clock
  <1> HIDE DEF v
  <1> QED  BY <1>1, SameSteady DEF HasClock, v

LEMMA StopSteady ==
  ASSUME NEW u, HasClock(u)
  PROVE  /\ Steady(u, stop_background_sync(u)) /\ HasClock(stop_background_sync(u))
         /\ stop_background_sync(u).inFlight = 0 /\ stop_background_sync(u).paused = TRUE
  <1> DEFINE v == stop_background_sync(u)
  <1>1. DOMAIN v = DOMAIN u /\ v.inFlight = 0 /\ v.paused = TRUE
    BY DEF stop_background_sync, HasClock, Clock
  <1> HIDE DEF v
  <1> QED  BY <1>1 DEF HasClock, Steady, Awaits, v

LEMMA VerifiedSteady ==
  ASSUME NEW u, NEW account, HasClock(u)
  PROVE  Steady(u, Verified(u, account)) /\ HasClock(Verified(u, account))
  <1> DEFINE v == Verified(u, account)
  <1>1. CASE u.account = account
    <2>1. DOMAIN v = DOMAIN u /\ \A x \in Clock : v[x] = u[x]
      BY <1>1 DEF Verified, Clock
    <2> HIDE DEF v
    <2> QED  BY <2>1, SameSteady DEF HasClock, v
  <1>2. CASE u.account # account
    <2> DEFINE s == stop_background_sync(u)
    <2>1. DOMAIN s = DOMAIN u /\ HasClock(s) /\ s.inFlight = 0 /\ s.paused = TRUE
      BY StopSteady DEF Steady, Awaits
    <2>2. Forgotten(u) = [s EXCEPT
        !.searchGen = @ + 1, !.search = Idle, !.list = NoList, !.selected = NoMessage,
        !.reader = Closed, !.view = "Inbox", !.folderGen = @ + 1, !.activeFolder = 0,
        !.folderLoading = FALSE]
      BY DEF Forgotten
    <2> HIDE DEF s
    <2>3. DOMAIN Forgotten(u) = DOMAIN u /\ Forgotten(u).inFlight = 0 /\ Forgotten(u).paused = TRUE
      BY <2>1, <2>2 DEF HasClock, Clock
    <2>4. v = [Forgotten(u) EXCEPT !.account = account]
      BY <1>2 DEF Verified
    <2> HIDE DEF v
    <2>5. DOMAIN v = DOMAIN u /\ v.inFlight = 0 /\ v.paused = TRUE
      BY <2>1, <2>3, <2>4 DEF HasClock, Clock
    <2> QED  BY <2>5 DEF HasClock, Steady, Awaits, v
  <1> QED  BY <1>1, <1>2

LEMMA UnavailableSteady ==
  ASSUME NEW u, HasClock(u)
  PROVE  Steady(u, WorkerUnavailable(u)) /\ HasClock(WorkerUnavailable(u)) /\ WorkerUnavailable(u).paused
  <1> DEFINE s == stop_background_sync(u)
             v == invalidate_server_search(s)
             w == WorkerUnavailable(u)
  <1>1. Steady(u, s) /\ HasClock(s) /\ s.paused = TRUE
    BY StopSteady
  <1>2. Steady(u, v) /\ HasClock(v)
    BY <1>1, InvalidateSteady, SteadyTwice
  <1>3. v.paused
    BY <1>1, InvalidateSteady DEF Steady
  <1>4. DOMAIN w = DOMAIN v /\ \A x \in Clock : w[x] = v[x]
    BY DEF WorkerUnavailable, Clock
  <1> HIDE DEF s, v, w
  <1>5. Steady(v, w) /\ w.paused /\ HasClock(w)
    BY <1>2, <1>3, <1>4, SameSteady DEF HasClock, Clock
  <1> QED  BY <1>2, <1>5, SteadyTwice DEF w

LEMMA FitsStay ==
  ASSUME NEW c, NEW begun \in Nat, NEW u, Fits(c, begun, u), NEW v, Awaits(u, v)
  PROVE  Fits(c, begun, v)
  BY DEF Fits, Awaits

LEMMA AllFitStay ==
  ASSUME NEW s, NEW begun \in Nat, NEW u, AllFit(s, begun, u), NEW v, Awaits(u, v)
  PROVE  AllFit(s, begun, v)
  BY FitsStay DEF AllFit

LEMMA FitTogether ==
  ASSUME NEW s, NEW t, NEW begun, NEW u, AllFit(s, begun, u), AllFit(t, begun, u)
  PROVE  AllFit(s \o t, begun, u)
  <1>1. IsSeq(s) /\ IsSeq(t)
    BY DEF AllFit
  <1>2. ASSUME NEW i \in DOMAIN (s \o t) PROVE Fits((s \o t)[i], begun, u)
    <2>1. CASE i \in DOMAIN s
      BY <1>1, <2>1, TwoSequences DEF AllFit
    <2>2. CASE i \notin DOMAIN s
      <3>1. i - Len(s) \in DOMAIN t /\ (s \o t)[i] = t[i - Len(s)]
        BY <1>1, <1>2, <2>2, TwoSequences
      <3> QED  BY <3>1 DEF AllFit
    <2> QED  BY <2>1, <2>2
  <1>3. IsSeq(s \o t)
    BY <1>1, TwoSequences
  <1> QED  BY <1>2, <1>3 DEF AllFit

LEMMA OneFits ==
  ASSUME NEW c, NEW begun, NEW u, Fits(c, begun, u)
  PROVE  AllFit(<<c>>, begun, u)
  <1>1. IsSeq(<<c>>)
    <2>1. <<c>> \in Seq({c})
      OBVIOUS
    <2> QED  BY <2>1 DEF IsSeq
  <1>2. DOMAIN <<c>> = {1} /\ <<c>>[1] = c
    OBVIOUS
  <1> QED  BY <1>1, <1>2 DEF AllFit

LEMMA NoneFits ==
  ASSUME NEW begun, NEW u
  PROVE  AllFit(<<>>, begun, u)
  <1>1. IsSeq(<<>>) /\ DOMAIN <<>> = {}
    BY NoCommand DEF NoClear
  <1> QED  BY <1>1 DEF AllFit

LEMMA OneFitLess ==
  ASSUME NEW s, s # <<>>, NEW begun, NEW u, AllFit(s, begun, u)
  PROVE  AllFit(Tail(s), begun, u) /\ Fits(Head(s), begun, u)
  <1>1. PICK S : s \in Seq(S)
    BY DEF AllFit, IsSeq
  <1>2. /\ Tail(s) \in Seq(S) /\ 1 \in DOMAIN s /\ Head(s) = s[1]
        /\ \A i \in DOMAIN Tail(s) : i + 1 \in DOMAIN s /\ Tail(s)[i] = s[i + 1]
    BY <1>1
  <1> QED  BY <1>2 DEF AllFit, IsSeq

LEMMA AppendIsConcat ==
  ASSUME NEW s, NEW c, IsSeq(s)
  PROVE  Append(s, c) = s \o <<c>> /\ IsSeq(<<c>>)
  <1>1. PICK S : s \in Seq(S)
    BY DEF IsSeq
  <1>2. s \in Seq(S \cup {c}) /\ <<c>> \in Seq(S \cup {c})
    BY <1>1
  <1> QED  BY <1>2 DEF IsSeq

LEMMA OneFitMore ==
  ASSUME NEW s, NEW c, NEW begun, NEW u, AllFit(s, begun, u), Fits(c, begun, u)
  PROVE  AllFit(Append(s, c), begun, u)
  BY AppendIsConcat, OneFits, FitTogether DEF AllFit

\* A command or an event with the number of a poll.
Carried(s, types, request) == \E i \in DOMAIN s : s[i].type \in types /\ s[i].request = request

LEMMA OnItsWay ==
  ASSUME NEW request
  PROVE  PollIsOnItsWay(request) <=>
            \/ Carried(commands, {"BackgroundSync"}, request)
            \/ Busy("poll") /\ tasks["poll"].of.request = request
            \/ Carried(events, {"BackgroundSyncComplete", "BackgroundSyncFailed"}, request)
  BY DEF PollIsOnItsWay, Carried

LEMMA OnItsWayThen ==
  ASSUME NEW request
  PROVE  PollIsOnItsWay(request)' <=>
            \/ Carried(commands', {"BackgroundSync"}, request)
            \/ Busy("poll")' /\ tasks'["poll"].of.request = request
            \/ Carried(events', {"BackgroundSyncComplete", "BackgroundSyncFailed"}, request)
  BY DEF PollIsOnItsWay, Carried

LEMMA CarriedOn ==
  ASSUME NEW s, NEW t, IsSeq(s), IsSeq(t), NEW types, NEW request
  PROVE  /\ Carried(s, types, request) => Carried(s \o t, types, request)
         /\ Carried(t, types, request) => Carried(s \o t, types, request)
  <1>1. /\ DOMAIN (s \o t) = 1 .. (Len(s) + Len(t)) /\ DOMAIN s = 1 .. Len(s) /\ DOMAIN t = 1 .. Len(t)
        /\ Len(s) \in Nat /\ Len(t) \in Nat
        /\ \A i \in DOMAIN s : (s \o t)[i] = s[i]
        /\ \A i \in DOMAIN (s \o t) \ DOMAIN s : i - Len(s) \in DOMAIN t /\ (s \o t)[i] = t[i - Len(s)]
    BY TwoSequences
  <1>2. ASSUME NEW i \in DOMAIN s PROVE i \in DOMAIN (s \o t) /\ (s \o t)[i] = s[i]
    BY <1>1
  <1>3. ASSUME NEW i \in DOMAIN t PROVE i + Len(s) \in DOMAIN (s \o t) /\ (s \o t)[i + Len(s)] = t[i]
    <2>1. /\ i + Len(s) \in DOMAIN (s \o t) /\ i + Len(s) \notin DOMAIN s /\ (i + Len(s)) - Len(s) = i
      BY <1>1
    <2>2. (s \o t)[i + Len(s)] = t[(i + Len(s)) - Len(s)]
      BY <1>1, <2>1
    <2> QED  BY <2>1, <2>2
  <1> QED  BY <1>2, <1>3 DEF Carried

LEMMA CarriedLess ==
  ASSUME NEW s, IsSeq(s), s # <<>>, NEW types, NEW request, Carried(s, types, request)
  PROVE  \/ Carried(Tail(s), types, request)
         \/ Head(s).type \in types /\ Head(s).request = request
  <1>1. PICK S : s \in Seq(S)
    BY DEF IsSeq
  <1>2. PICK i \in DOMAIN s : s[i].type \in types /\ s[i].request = request
    BY DEF Carried
  <1>3. CASE i = 1
    BY <1>1, <1>2, <1>3
  <1>4. CASE i # 1
    <2>1. i - 1 \in DOMAIN Tail(s) /\ Tail(s)[i - 1] = s[i]
      BY <1>1, <1>2, <1>4
    <2> QED  BY <1>2, <2>1 DEF Carried
  <1> QED  BY <1>3, <1>4

LEMMA CarriedOne ==
  ASSUME NEW c, NEW types, c.type \in types
  PROVE  Carried(<<c>>, types, c.request)
  <1>1. DOMAIN <<c>> = {1} /\ <<c>>[1] = c
    OBVIOUS
  <1> QED  BY <1>1 DEF Carried

PollEvents == {"BackgroundSyncComplete", "BackgroundSyncFailed"}

LEMMA PollFacts ==
  ASSUME PollInv
  PROVE  /\ HasClock(ui) /\ polls \in Nat /\ AllFit(commands, polls, ui) /\ AllFit(events, polls, ui)
         /\ IsSeq(commands) /\ IsSeq(events) /\ DOMAIN tasks = TaskKinds
  BY DEF PollInv, AllFit

\* What was on its way still is, unless it is the event that was taken.
LEMMA StaysOnItsWay ==
  ASSUME PollInv, NEW more, IsSeq(more), commands' = commands \o more, tasks' = tasks,
         NEW request, PollIsOnItsWay(request),
         \/ events' = events
         \/ events # <<>> /\ events' = Tail(events)
              /\ ~(Head(events).type \in PollEvents /\ Head(events).request = request)
  PROVE  PollIsOnItsWay(request)'
  <1>1. CASE Carried(commands, {"BackgroundSync"}, request)
    BY <1>1, PollFacts, CarriedOn, OnItsWayThen
  <1>2. CASE Busy("poll") /\ tasks["poll"].of.request = request
    BY <1>2, OnItsWayThen DEF Busy
  <1>3. CASE Carried(events, PollEvents, request)
    BY <1>3, PollFacts, CarriedLess, OnItsWayThen DEF PollEvents
  <1> QED  BY <1>1, <1>2, <1>3, OnItsWay DEF PollEvents

\* The schedule is armed, paused, or goes on as it was.
LEMMA DispatchPolls ==
  ASSUME PollInv, NEW update, Awaits(ui, update.ui), AllFit(update.send, polls, ui), Dispatch(update),
         UNCHANGED <<polls, health, tasks>>,
         \/ events' = events
         \/ events # <<>> /\ events' = Tail(events),
         \/ update.timer = "arm"
         \/ update.ui.paused
         \/ /\ Steady(ui, update.ui)
            /\ update.timer = "keep" \/ (update.timer = "fired" /\ timer # ui.schedule)
            /\ \/ events' = events
               \/ ~(Head(events).type \in PollEvents /\ Head(events).request = ui.inFlight)
  PROVE  PollInv'
  <1>1. HasClock(update.ui)
    BY PollFacts DEF Awaits, HasClock
  <1>2. Awaits(ui, ui') /\ HasClock(ui')
    <2>1. ui' = update.ui \/ ui' = WorkerUnavailable(update.ui)
      BY DEF Dispatch
    <2>2. CASE ui' = WorkerUnavailable(update.ui)
      <3>1. Awaits(update.ui, ui') /\ HasClock(ui')
        BY <1>1, <2>2, UnavailableSteady DEF Steady
      <3> QED  BY <3>1 DEF Awaits
    <2> QED  BY <1>1, <2>1, <2>2
  <1>3. AllFit(commands', polls, ui)
    <2>1. commands' = commands \/ commands' = commands \o update.send
      BY DEF Dispatch
    <2> QED  BY <2>1, PollFacts, FitTogether
  <1>4. AllFit(events', polls, ui)
    BY PollFacts, OneFitLess
  <1>5. AllFit(commands', polls', ui') /\ AllFit(events', polls', ui')
    BY <1>2, <1>3, <1>4, PollFacts, AllFitStay
  <1>6. Busy("poll")' => /\ "of" \in DOMAIN tasks'["poll"] /\ tasks'["poll"].of.type = "BackgroundSync"
                         /\ Fits(tasks'["poll"].of, polls', ui')
    BY <1>2, PollFacts, FitsStay DEF PollInv, Busy
  <1>7. ASSUME health' = "running", ~ui'.paused
        PROVE  timer' = ui'.schedule \/ (ui'.inFlight # 0 /\ PollIsOnItsWay(ui.inFlight)')
    <2>1. /\ ui' = update.ui /\ commands' = commands \o update.send
          /\ timer' = IF update.timer = "fired" THEN 0
                      ELSE IF update.timer = "arm" THEN update.ui.schedule ELSE timer
      BY <1>7 DEF Dispatch
    <2>2. CASE update.timer = "arm"
      BY <2>1, <2>2
    <2>3. CASE /\ Steady(ui, update.ui)
               /\ update.timer = "keep" \/ (update.timer = "fired" /\ timer # ui.schedule)
               /\ \/ events' = events
                  \/ ~(Head(events).type \in PollEvents /\ Head(events).request = ui.inFlight)
      <3>1. ~ui.paused /\ ui'.schedule = ui.schedule /\ ui'.inFlight = ui.inFlight
        BY <1>7, <2>1, <2>3 DEF Steady
      <3>2. timer = ui.schedule \/ (ui.inFlight # 0 /\ PollIsOnItsWay(ui.inFlight))
        BY <1>7, <3>1 DEF PollInv, PollingContinues
      <3>3. CASE timer = ui.schedule
        BY <2>1, <2>3, <3>1, <3>3
      <3>4. CASE ui.inFlight # 0 /\ PollIsOnItsWay(ui.inFlight)
        <4>1. IsSeq(update.send)
          BY DEF AllFit
        <4>2. PollIsOnItsWay(ui.inFlight)'
          <5>1. PICK r : r = ui.inFlight
            OBVIOUS
          <5>2. PollIsOnItsWay(r)'
            BY <2>1, <2>3, <3>4, <4>1, <5>1, StaysOnItsWay
          <5>3. \/ Carried(commands', {"BackgroundSync"}, r)
                \/ Busy("poll")' /\ tasks'["poll"].of.request = r
                \/ Carried(events', {"BackgroundSyncComplete", "BackgroundSyncFailed"}, r)
            BY <5>2, OnItsWayThen
          <5>4. r = ui'.inFlight
            BY <3>1, <5>1
          <5> QED  BY <5>3, <5>4 DEF PollIsOnItsWay, Carried
        <4> QED  BY <3>1, <3>4, <4>2
      <3> QED  BY <3>2, <3>3, <3>4
    <2> QED  BY <1>7, <2>1, <2>2, <2>3
  <1>8. PollingContinues'
    BY <1>7 DEF PollingContinues
  <1> QED  BY <1>2, <1>5, <1>6, <1>8, PollFacts DEF PollInv

\* What the person does asks for no poll and leaves the schedule, or stops it.
Gentle(update) == Steady(ui, update.ui) /\ update.timer = "keep" /\ AllFit(update.send, polls, ui)

LEMMA GesturePolls ==
  ASSUME PollInv, NEW update, Gentle(update), Gesture(update)
  PROVE  PollInv'
  <1>1. /\ Dispatch(update) /\ UNCHANGED <<polls, health, tasks>> /\ events' = events
    BY DEF Gesture, worker
  <1> QED  BY <1>1, DispatchPolls DEF Gentle, Steady

LEMMA GentleSending ==
  ASSUME NEW u, Steady(ui, u), NEW send, AllFit(send, polls, ui)
  PROVE  Gentle(Sending(u, send))
  BY DEF Gentle, Sending

LEMMA OtherFits ==
  ASSUME NEW c, c.type \notin {"BackgroundSync", "BackgroundSyncComplete"}
  PROVE  Fits(c, polls, ui) /\ AllFit(<<c>>, polls, ui)
  BY OneFits DEF Fits

LEMMA CancelFits == AllFit(CancelOf(ui), polls, ui)
  BY OtherFits, NoneFits DEF CancelOf

LEMMA CancelAndFits ==
  ASSUME NEW c, c.type \notin {"BackgroundSync", "BackgroundSyncComplete"}
  PROVE  AllFit(CancelOf(ui) \o <<c>>, polls, ui)
  BY CancelFits, OtherFits, FitTogether

LEMMA SubmitPolls ==
  ASSUME PollInv, NEW query, SubmitWith(query)
  PROVE  PollInv'
  <1> DEFINE v == invalidate_server_search(ui)
             w == [v EXCEPT !.query = query, !.searchGen = @ + 1, !.selected = NoMessage, !.reader = Closed,
                      !.search = [state |-> "Loading", request |-> Ask, query |-> query,
                                  generation |-> v.searchGen + 1]]
             c == [type |-> "SearchGmail", request |-> Ask, query |-> query,
                   generation |-> v.searchGen + 1, account |-> ui.account]
  <1>1. Gesture(Sending(w, CancelOf(ui) \o <<c>>))
    BY DEF SubmitWith
  <1>2. Steady(ui, v)
    BY PollFacts, InvalidateSteady
  <1>3. DOMAIN w = DOMAIN v /\ \A x \in Clock : w[x] = v[x]
    BY DEF Clock
  <1>4. AllFit(CancelOf(ui) \o <<c>>, polls, ui)
    BY CancelAndFits
  <1> HIDE DEF v, w, c
  <1>5. Steady(ui, w)
    BY <1>2, <1>3, SameSteady, SteadyTwice
  <1> QED  BY <1>1, <1>4, <1>5, GentleSending, GesturePolls

LEMMA OpenPolls ==
  ASSUME PollInv, NEW u, Steady(ui, u), Gesture(open_selected(u))
  PROVE  PollInv'
  <1> DEFINE c == [type |-> "FetchBody", request |-> Ask, id |-> u.selected,
                   generation |-> u.cacheGen, account |-> u.account]
             w == [u EXCEPT !.reader = [state |-> "Loading", id |-> u.selected, request |-> Ask,
                                        generation |-> u.cacheGen]]
             closed == [u EXCEPT !.reader = Closed]
  <1>1. open_selected(u) \in {Quiet(closed), Quiet(u), Sending(w, <<c>>)}
    BY DEF open_selected
  <1>2. /\ DOMAIN closed = DOMAIN u /\ \A x \in Clock : closed[x] = u[x]
        /\ DOMAIN w = DOMAIN u /\ \A x \in Clock : w[x] = u[x]
    BY DEF Clock
  <1>3. AllFit(<<c>>, polls, ui)
    BY OtherFits
  <1> HIDE DEF c, w, closed
  <1>4. Steady(ui, closed) /\ Steady(ui, w)
    BY <1>2, SameSteady, SteadyTwice
  <1>5. Gentle(open_selected(u))
    BY <1>1, <1>3, <1>4, NoneFits DEF Gentle, Quiet, Sending
  <1> QED  BY <1>5, GesturePolls

LEMMA PersonPolls ==
  ASSUME PollInv,
         \/ \E kind \in {"Restore", "Connect"} : start(kind)
         \/ \E label \in Labels : load_folder(label)
         \/ \E query \in Queries : SetSearch(query)
         \/ submit_server_search \/ cancel_server_search \/ retry_server_search
         \/ \E id \in Messages : select_message(id)
         \/ retry_body \/ clear_body_cache \/ AccountRows
  PROVE  PollInv'
  <1> DEFINE v == invalidate_server_search(ui)
  <1>1. HasClock(ui) /\ Steady(ui, v) /\ HasClock(v)
    BY PollFacts, InvalidateSteady
  <1> HIDE DEF v
  <1>2. ASSUME NEW u, Steady(ui, u), HasClock(u) PROVE Steady(ui, normalize(u))
    BY <1>2, NormalizeSteady, SteadyTwice
  <1>3. ASSUME NEW u, Steady(ui, u), HasClock(u), NEW w, DOMAIN w = DOMAIN u, \A x \in Clock : w[x] = u[x]
        PROVE  Steady(ui, w) /\ HasClock(w)
    BY <1>3, SameSteady, SteadyTwice DEF HasClock
  <1>4. ASSUME NEW kind \in {"Restore", "Connect"}, start(kind) PROVE PollInv'
    <2> DEFINE w == [v EXCEPT !.operation = Ask, !.session = "Syncing", !.folderGen = @ + 1,
                      !.activeFolder = 0, !.folderLoading = FALSE,
                      !.reader = IF @.state = "Loading" THEN Closed ELSE @]
               c == [type |-> kind, operation |-> Ask]
    <2>1. Gesture(Sending(w, CancelOf(ui) \o <<c>>))
      BY <1>4 DEF start, v
    <2>2. DOMAIN w = DOMAIN v /\ \A x \in Clock : w[x] = v[x]
      BY DEF Clock
    <2>3. AllFit(CancelOf(ui) \o <<c>>, polls, ui)
      BY CancelAndFits
    <2> HIDE DEF w, c
    <2> QED  BY <1>1, <1>3, <2>1, <2>2, <2>3, GentleSending, GesturePolls
  <1>5. ASSUME NEW label \in Labels, load_folder(label) PROVE PollInv'
    <2> DEFINE empty == [account |-> ui.account, label |-> label, rows |-> {}, by |-> "switch"]
               w == IF ui.view = label THEN v
                    ELSE [v EXCEPT !.list = empty, !.selected = NoMessage, !.reader = Closed]
               x == [w EXCEPT !.folderGen = @ + 1, !.activeFolder = Ask, !.folderLoading = TRUE,
                              !.view = label]
               c == [type |-> "FetchFolder", request |-> Ask, label |-> label,
                     generation |-> ui.folderGen + 1, account |-> ui.account]
    <2>1. Gesture(Sending(normalize(x), CancelOf(ui) \o <<c>>))
      BY <1>5 DEF load_folder, v
    <2>2. DOMAIN w = DOMAIN v /\ \A y \in Clock : w[y] = v[y]
      BY DEF Clock
    <2>3. DOMAIN x = DOMAIN w /\ \A y \in Clock : x[y] = w[y]
      BY DEF Clock
    <2>4. AllFit(CancelOf(ui) \o <<c>>, polls, ui)
      BY CancelAndFits
    <2> HIDE DEF w, x, c
    <2>5. Steady(ui, w) /\ HasClock(w)
      BY <1>1, <1>3, <2>2
    <2>6. Steady(ui, x) /\ HasClock(x)
      BY <1>3, <2>3, <2>5
    <2>7. Steady(ui, normalize(x))
      BY <1>2, <2>6
    <2> QED  BY <2>1, <2>4, <2>7, GentleSending, GesturePolls
  <1>6. ASSUME NEW query \in Queries, SetSearch(query) PROVE PollInv'
    <2> DEFINE x == [v EXCEPT !.query = query]
    <2>1. Gesture(Sending(normalize(x), CancelOf(ui)))
      BY <1>6 DEF SetSearch, v
    <2>2. DOMAIN x = DOMAIN v /\ \A y \in Clock : x[y] = v[y]
      BY DEF Clock
    <2> HIDE DEF x
    <2>3. Steady(ui, x) /\ HasClock(x)
      BY <1>1, <1>3, <2>2
    <2>4. Steady(ui, normalize(x))
      BY <1>2, <2>3
    <2> QED  BY <2>1, <2>4, CancelFits, GentleSending, GesturePolls
  <1>7. CASE cancel_server_search
    <2>1. Gesture(Sending(normalize(v), CancelOf(ui)))
      BY <1>7 DEF cancel_server_search, v
    <2> QED  BY <1>1, <1>2, <2>1, CancelFits, GentleSending, GesturePolls
  <1>8. ASSUME NEW id \in Messages, select_message(id) PROVE PollInv'
    <2> DEFINE x == [ui EXCEPT !.selected = id]
    <2>1. Gesture(open_selected(x))
      BY <1>8 DEF select_message
    <2>2. DOMAIN x = DOMAIN ui /\ \A y \in Clock : x[y] = ui[y]
      BY DEF Clock
    <2> HIDE DEF x
    <2> QED  BY <1>1, <1>3, <2>1, <2>2, UiSteady, OpenPolls
  <1>9. CASE retry_body
    BY <1>9, UiSteady, OpenPolls DEF retry_body
  <1>10. CASE clear_body_cache
    <2> DEFINE w == [ui EXCEPT !.cacheGen = @ + 1, !.clearing = Ask, !.reader = Closed]
               c == [type |-> "ClearBodyCache", operation |-> Ask, generation |-> ui.cacheGen + 1]
    <2>1. Gesture(Sending(w, <<c>>))
      BY <1>10 DEF clear_body_cache
    <2>2. DOMAIN w = DOMAIN ui /\ \A y \in Clock : w[y] = ui[y]
      BY DEF Clock
    <2>3. AllFit(<<c>>, polls, ui)
      BY OtherFits
    <2> HIDE DEF w, c
    <2> QED  BY <1>1, <1>3, <2>1, <2>2, <2>3, UiSteady, GentleSending, GesturePolls
  <1>11. CASE AccountRows
    <2> DEFINE x == [ui EXCEPT !.projection = ~@]
    <2>1. Gesture(Quiet(x))
      BY <1>11 DEF AccountRows
    <2>2. DOMAIN x = DOMAIN ui /\ \A y \in Clock : x[y] = ui[y]
      BY DEF Clock
    <2> HIDE DEF x
    <2>3. Steady(ui, x)
      BY <1>1, <1>3, <2>2, UiSteady
    <2>4. Gentle(Quiet(x))
      BY <2>3, NoneFits DEF Gentle, Quiet
    <2> QED  BY <2>1, <2>4, GesturePolls
  <1> QED  BY <1>4, <1>5, <1>6, <1>7, <1>8, <1>9, <1>10, <1>11, SubmitPolls
           DEF submit_server_search, retry_server_search

\* A tick begins a poll with a fresh number, arms the timer again, or comes too late.
LEMMA TimerPolls ==
  ASSUME PollInv, background_sync_timer
  PROVE  PollInv'
  <1> DEFINE c == [type |-> "BackgroundSync", request |-> polls + 1, account |-> ui.account]
             x == [ui EXCEPT !.inFlight = polls + 1, !.pendingTick = FALSE]
             y == [ui EXCEPT !.pendingTick = TRUE]
             z == [y EXCEPT !.schedule = @ + 1]
             begun == Sending(x, <<c>>)
             update == IF timer # ui.schedule \/ ui.paused THEN Quiet(ui)
                       ELSE IF can_begin_background_sync(ui) THEN begun
                       ELSE Arming(y)
             last == [update EXCEPT !.timer = IF @ = "keep" THEN "fired" ELSE @]
  <1>1. /\ Dispatch(last) /\ UNCHANGED <<health, tasks, events>>
        /\ polls' = IF update = begun THEN polls + 1 ELSE polls
    BY DEF background_sync_timer, worker
  <1>2. c.type = "BackgroundSync" /\ c.request = polls + 1 /\ c.account = ui.account
    OBVIOUS
  <1>3. /\ DOMAIN x = DOMAIN ui /\ x.inFlight = polls + 1 /\ x.account = ui.account
        /\ DOMAIN z = DOMAIN ui /\ z.inFlight = ui.inFlight /\ z.account = ui.account
    BY PollFacts DEF HasClock, Clock
  <1>4. update \in {Quiet(ui), begun, [ui |-> z, send |-> <<>>, timer |-> "arm"]}
    BY DEF Arming
  <1>5. update = Quiet(ui) => timer # ui.schedule \/ ui.paused \/ update = begun
    BY DEF Arming, Quiet
  <1> HIDE DEF c, x, y, z, update
  <1>6. <<c>> # <<>>
    OBVIOUS
  <1>7. CASE update = begun
    <2>1. last.ui = x /\ last.send = <<c>> /\ last.timer = "fired"
      BY <1>7 DEF Sending
    <2>2. polls' = polls + 1 /\ polls \in Nat /\ polls' \in Nat /\ polls' # 0
      BY <1>1, <1>7, PollFacts
    <2> HIDE DEF last
    <2>3. ASSUME NEW d, Fits(d, polls, ui) PROVE Fits(d, polls', x)
      BY <1>3, <2>2, <2>3 DEF Fits
    <2>4. Fits(c, polls', x)
      BY <1>2, <1>3, <2>2 DEF Fits
    <2>5. /\ AllFit(commands, polls', x) /\ AllFit(events', polls', x) /\ AllFit(<<c>>, polls', x)
      BY <1>1, <2>3, <2>4, PollFacts, OneFits DEF AllFit
    <2>6. HasClock(x)
      BY <1>3, PollFacts DEF HasClock
    <2>7. ui' = x \/ ui' = WorkerUnavailable(x)
      BY <1>1, <2>1 DEF Dispatch
    <2>8. Awaits(x, ui') /\ HasClock(ui')
      BY <2>6, <2>7, UnavailableSteady DEF Steady, Awaits
    <2>9. AllFit(commands', polls', x)
      <3>1. commands' = commands \/ commands' = commands \o <<c>>
        BY <1>1, <2>1 DEF Dispatch
      <3> QED  BY <2>5, <3>1, FitTogether
    <2>10. AllFit(commands', polls', ui') /\ AllFit(events', polls', ui')
      BY <2>2, <2>5, <2>8, <2>9, AllFitStay
    <2>11. Busy("poll")' => /\ "of" \in DOMAIN tasks'["poll"] /\ tasks'["poll"].of.type = "BackgroundSync"
                            /\ Fits(tasks'["poll"].of, polls', ui')
      BY <1>1, <2>2, <2>3, <2>8, FitsStay DEF PollInv, Busy
    <2>12. ASSUME health' = "running"
           PROVE  ui'.inFlight = polls + 1 /\ Carried(commands', {"BackgroundSync"}, polls + 1)
      <3>1. ui' = x /\ commands' = commands \o <<c>>
        BY <1>1, <1>6, <2>1, <2>12 DEF Dispatch
      <3>2. Carried(<<c>>, {"BackgroundSync"}, polls + 1)
        BY <1>2, CarriedOne
      <3>3. IsSeq(<<c>>) /\ IsSeq(commands)
        BY <2>5 DEF AllFit
      <3> QED  BY <1>3, <3>1, <3>2, <3>3, CarriedOn
    <2>13. PollingContinues'
      BY <2>2, <2>12 DEF PollingContinues, PollIsOnItsWay, Carried
    <2> QED  BY <1>1, <2>2, <2>8, <2>10, <2>11, <2>13, PollFacts DEF PollInv
  <1>8. CASE update = Quiet(ui) /\ update # begun
    <2>1. last.ui = ui /\ last.send = <<>> /\ last.timer = "fired"
      BY <1>8 DEF Quiet
    <2> HIDE DEF last, begun
    <2>2. UNCHANGED <<polls, health, tasks>> /\ events' = events /\ Dispatch(last)
      BY <1>1, <1>8
    <2>3. Awaits(ui, last.ui) /\ Steady(ui, last.ui) /\ AllFit(last.send, polls, ui)
      BY <2>1, UiSteady, NoneFits DEF Steady
    <2>4. timer # ui.schedule \/ last.ui.paused
      BY <1>5, <1>8, <2>1
    <2> QED  BY <2>1, <2>2, <2>3, <2>4, DispatchPolls
  <1>9. CASE update = [ui |-> z, send |-> <<>>, timer |-> "arm"]
    <2>1. last.ui = z /\ last.send = <<>> /\ last.timer = "arm"
      BY <1>9
    <2>2. update # begun
      BY <1>6, <1>9 DEF Sending
    <2> HIDE DEF last, begun
    <2>3. UNCHANGED <<polls, health, tasks>> /\ events' = events /\ Dispatch(last)
      BY <1>1, <2>2
    <2>4. Awaits(ui, last.ui) /\ AllFit(last.send, polls, ui)
      BY <1>3, <2>1, NoneFits DEF Awaits
    <2> QED  BY <2>1, <2>3, <2>4, DispatchPolls
  <1> QED  BY <1>4, <1>7, <1>8, <1>9

\* An event that is no answer to a poll leaves the schedule, stops it or arms it.
Timely(update) ==
    /\ Awaits(ui, update.ui) /\ AllFit(update.send, polls, ui)
    /\ \/ update.timer = "arm"
       \/ update.ui.paused
       \/ Steady(ui, update.ui) /\ update.timer = "keep"

LEMMA QuietTimely ==
  ASSUME NEW u, Steady(ui, u)
  PROVE  Timely(Quiet(u))
  BY NoneFits DEF Timely, Quiet, Steady

LEMMA ArmingTimely ==
  ASSUME NEW u, Awaits(ui, u), HasClock(u)
  PROVE  Timely(Arming(u))
  <1> DEFINE w == [u EXCEPT !.schedule = @ + 1]
  <1>1. DOMAIN w = DOMAIN u /\ w.inFlight = u.inFlight /\ w.account = u.account
    BY DEF HasClock, Clock
  <1>2. Arming(u) = [ui |-> w, send |-> <<>>, timer |-> "arm"]
    BY DEF Arming
  <1> HIDE DEF w
  <1> QED  BY <1>1, <1>2, NoneFits DEF Timely, Awaits

LEMMA AccountEventTimely ==
  ASSUME HasClock(ui), NEW e, e.type \in OfOperation
  PROVE  Timely(AccountEvent(ui, e))
  <1> DEFINE v == Verified(ui, e.account)
             syncing == [v EXCEPT !.session = "Syncing"]
             cached == [v EXCEPT !.view = "Inbox", !.list = InboxOf(e, "sync")]
             synced == [v EXCEPT !.list = InboxOf(e, "sync")]
             done == [normalize(synced) EXCEPT !.session = "Ready", !.operation = 0, !.paused = FALSE]
             failed == [ui EXCEPT !.operation = 0, !.session = "Stopped"]
  <1>1. Steady(ui, v) /\ HasClock(v)
    BY VerifiedSteady
  <1>2. AccountEvent(ui, e) \in {Quiet(ui), Quiet(v), Quiet(syncing), Quiet(normalize(cached)),
                                 Arming(done), Quiet(failed)}
    BY DEF AccountEvent, OfOperation, SyncComplete
  <1>3. DOMAIN failed = DOMAIN ui /\ \A x \in Clock : failed[x] = ui[x]
    BY DEF Clock
  <1> HIDE DEF v, failed
  <1>4. /\ DOMAIN syncing = DOMAIN v /\ \A x \in Clock : syncing[x] = v[x]
        /\ DOMAIN cached = DOMAIN v /\ \A x \in Clock : cached[x] = v[x]
        /\ DOMAIN synced = DOMAIN v /\ \A x \in Clock : synced[x] = v[x]
    BY DEF Clock
  <1> HIDE DEF syncing, cached, synced
  <1>5. ASSUME NEW w, DOMAIN w = DOMAIN v, \A x \in Clock : w[x] = v[x]
        PROVE  Steady(ui, w) /\ HasClock(w) /\ Steady(ui, normalize(w)) /\ HasClock(normalize(w))
    <2>1. Steady(ui, w) /\ HasClock(w)
      BY <1>1, <1>5, SameSteady, SteadyTwice DEF HasClock
    <2> QED  BY <2>1, NormalizeSteady, SteadyTwice
  <1>6. DOMAIN done = DOMAIN normalize(synced) /\ done.inFlight = normalize(synced).inFlight
          /\ done.account = normalize(synced).account
    OBVIOUS
  <1> HIDE DEF done
  <1>7. Awaits(ui, done) /\ HasClock(done)
    <2>1. Awaits(ui, normalize(synced)) /\ HasClock(normalize(synced))
      BY <1>4, <1>5 DEF Steady
    <2> QED  BY <1>6, <2>1 DEF Awaits, HasClock
  <1>8. Steady(ui, failed)
    BY <1>3, SameSteady
  <1>9. /\ Timely(Quiet(ui)) /\ Timely(Quiet(v)) /\ Timely(Quiet(syncing)) /\ Timely(Quiet(normalize(cached)))
        /\ Timely(Arming(done)) /\ Timely(Quiet(failed))
    BY <1>1, <1>4, <1>5, <1>7, <1>8, UiSteady, QuietTimely, ArmingTimely
  <1> QED  BY <1>2, <1>9

LEMMA OtherEventsTimely ==
  ASSUME HasClock(ui), NEW e
  PROVE  Timely(FolderEvent(ui, e)) /\ Timely(SearchEvent(ui, e)) /\ Timely(BodyEvent(ui, e))
           /\ Timely(CacheEvent(ui, e))
  <1>1. ASSUME NEW w, DOMAIN w = DOMAIN ui, \A x \in Clock : w[x] = ui[x]
        PROVE  Timely(Quiet(w)) /\ Timely(Quiet(normalize(w)))
    <2>1. Steady(ui, w) /\ HasClock(w)
      BY <1>1, SameSteady DEF HasClock
    <2>2. Steady(ui, normalize(w))
      BY <2>1, NormalizeSteady, SteadyTwice
    <2> QED  BY <2>1, <2>2, QuietTimely
  <1>2. Timely(Quiet(ui))
    BY <1>1
  <1>3. Timely(FolderEvent(ui, e))
    <2> DEFINE v == [ui EXCEPT !.list = [account |-> e.account, label |-> e.label, rows |-> e.rows,
                                         by |-> "folder"],
                               !.folderLoading = e.cached]
               w == IF e.cached THEN v ELSE [v EXCEPT !.activeFolder = 0, !.session = "Ready"]
               failed == [ui EXCEPT !.activeFolder = 0, !.folderLoading = FALSE,
                                    !.session = IF e.severe THEN "Stopped" ELSE @]
    <2>1. FolderEvent(ui, e) \in {Quiet(ui), Quiet(normalize(w)), Quiet(failed)}
      BY DEF FolderEvent, folder_loaded, folder_failed
    <2>2. /\ DOMAIN failed = DOMAIN ui /\ \A x \in Clock : failed[x] = ui[x]
          /\ DOMAIN w = DOMAIN ui /\ \A x \in Clock : w[x] = ui[x]
      BY DEF Clock
    <2> HIDE DEF w, failed
    <2> QED  BY <1>1, <1>2, <2>1, <2>2
  <1>4. Timely(SearchEvent(ui, e))
    <2> DEFINE v == [ui EXCEPT !.search = [state |-> "Loaded", rows |-> e.rows,
                                           query |-> e.query, account |-> e.account],
                               !.selected = NoMessage, !.reader = Closed]
               w == [ui EXCEPT !.search = [state |-> "Failed", query |-> @.query]]
    <2>1. SearchEvent(ui, e) \in {Quiet(ui), Quiet(normalize(v)), Quiet(normalize(w))}
      BY DEF SearchEvent
    <2>2. /\ DOMAIN v = DOMAIN ui /\ \A x \in Clock : v[x] = ui[x]
          /\ DOMAIN w = DOMAIN ui /\ \A x \in Clock : w[x] = ui[x]
      BY DEF Clock
    <2> HIDE DEF v, w
    <2> QED  BY <1>1, <1>2, <2>1, <2>2
  <1>5. Timely(BodyEvent(ui, e)) /\ Timely(CacheEvent(ui, e))
    <2> DEFINE v == [ui EXCEPT !.reader = [state |-> "Loaded", id |-> e.id, of |-> e.account]]
               w == [ui EXCEPT !.reader = [state |-> "Failed", id |-> e.id]]
               x == [ui EXCEPT !.clearing = 0, !.reader = IF e.type = "CacheCleared" THEN Closed ELSE @]
    <2>1. BodyEvent(ui, e) \in {Quiet(ui), Quiet(v), Quiet(w)} /\ CacheEvent(ui, e) \in {Quiet(ui), Quiet(x)}
      BY DEF BodyEvent, CacheEvent
    <2>2. /\ DOMAIN v = DOMAIN ui /\ \A f \in Clock : v[f] = ui[f]
          /\ DOMAIN w = DOMAIN ui /\ \A f \in Clock : w[f] = ui[f]
          /\ DOMAIN x = DOMAIN ui /\ \A f \in Clock : x[f] = ui[f]
      BY DEF Clock
    <2> HIDE DEF v, w, x
    <2> QED  BY <1>1, <1>2, <2>1, <2>2
  <1> QED  BY <1>3, <1>4, <1>5

\* The answer to the poll that is awaited arms the schedule or pauses it; any
\* other answer changes nothing.
LEMMA PollEventTimely ==
  ASSUME HasClock(ui), NEW e, Fits(e, polls, ui)
  PROVE  /\ Timely(background_worker_event(ui, e))
         /\ ui.inFlight = e.request =>
               \/ background_worker_event(ui, e).timer = "arm"
               \/ background_worker_event(ui, e).ui.paused
  <1> DEFINE v == [ui EXCEPT !.inFlight = 0]
             w == [v EXCEPT !.list = InboxOf(e, "poll")]
             x == [v EXCEPT !.paused = TRUE]
             update == background_worker_event(ui, e)
  <1>1. ui.inFlight # e.request => update = Quiet(ui)
    BY DEF background_worker_event
  <1>2. ASSUME ui.inFlight = e.request
        PROVE  update \in {Arming(normalize(w)), Arming(v), Quiet(x)}
    <2>1. e.type = "BackgroundSyncComplete" => ui.account = e.account
      BY <1>2 DEF Fits
    <2>2. CASE e.type = "BackgroundSyncComplete"
      BY <1>2, <2>1, <2>2 DEF background_worker_event
    <2>3. CASE e.type # "BackgroundSyncComplete"
      BY <1>2, <2>3 DEF background_worker_event
    <2> QED  BY <2>2, <2>3
  <1>3. DOMAIN v = DOMAIN ui /\ v.inFlight = 0
    BY DEF HasClock, Clock
  <1>4. /\ DOMAIN w = DOMAIN v /\ w.inFlight = v.inFlight
        /\ DOMAIN x = DOMAIN v /\ x.inFlight = v.inFlight /\ x.paused = TRUE
    BY <1>3 DEF HasClock, Clock
  <1> HIDE DEF v, w, x, update
  <1>5. HasClock(v) /\ HasClock(w) /\ Awaits(ui, v) /\ Awaits(ui, w) /\ Awaits(ui, x)
    BY <1>3, <1>4 DEF HasClock, Awaits
  <1>6. Awaits(ui, normalize(w)) /\ HasClock(normalize(w))
    <2>1. Awaits(w, normalize(w)) /\ HasClock(normalize(w))
      BY <1>5, NormalizeSteady DEF Steady
    <2> QED  BY <1>5, <2>1 DEF Awaits
  <1>7. Timely(Quiet(x))
    BY <1>4, <1>5, NoneFits DEF Timely, Quiet
  <1>8. Timely(Arming(normalize(w))) /\ Timely(Arming(v)) /\ Timely(Quiet(ui))
    BY <1>5, <1>6, ArmingTimely, QuietTimely, UiSteady
  <1>9. Timely(update)
    BY <1>1, <1>2, <1>7, <1>8
  <1>10. \A u : Arming(u).timer = "arm"
    BY DEF Arming
  <1>11. Quiet(x).ui.paused
    BY <1>4 DEF Quiet
  <1>12. ui.inFlight = e.request => update.timer = "arm" \/ update.ui.paused
    BY <1>2, <1>10, <1>11
  <1> QED  BY <1>9, <1>12 DEF update

LEMMA ReceivePolls ==
  ASSUME PollInv, Receive
  PROVE  PollInv'
  <1>1. PICK e : e = Head(events)
    OBVIOUS
  <1> DEFINE update == worker_event(ui, e)
  <1>2. /\ events # <<>> /\ events' = Tail(events) /\ Dispatch(update)
        /\ UNCHANGED <<polls, health, tasks>>
    BY <1>1 DEF Receive, worker, counts
  <1>3. HasClock(ui) /\ Fits(e, polls, ui)
    BY <1>1, <1>2, PollFacts, OneFitLess
  <1>4. /\ Timely(update)
        /\ \/ update.timer = "arm"
           \/ update.ui.paused
           \/ e.type \notin PollEvents
           \/ e.request # ui.inFlight
    <2>1. CASE e.type \in OfOperation
      BY <1>3, <2>1, AccountEventTimely DEF worker_event, OfOperation, PollEvents
    <2>2. CASE e.type \in {"FolderLoaded", "FolderFailed", "SearchLoaded", "SearchFailed", "BodyLoaded",
                           "BodyFailed", "CacheCleared", "CacheClearFailed"}
      <3>1. update \in {FolderEvent(ui, e), SearchEvent(ui, e), BodyEvent(ui, e), CacheEvent(ui, e)}
        BY <2>2 DEF worker_event, OfOperation
      <3> QED  BY <1>3, <2>2, <3>1, OtherEventsTimely DEF PollEvents
    <2>3. CASE /\ e.type \notin OfOperation
               /\ e.type \notin {"FolderLoaded", "FolderFailed", "SearchLoaded", "SearchFailed", "BodyLoaded",
                                 "BodyFailed", "CacheCleared", "CacheClearFailed"}
      <3>1. update = background_worker_event(ui, e)
        BY <2>3 DEF worker_event
      <3> QED  BY <1>3, <3>1, PollEventTimely
    <2> QED  BY <2>1, <2>2, <2>3
  <1> HIDE DEF update
  <1> QED  BY <1>1, <1>2, <1>4, DispatchPolls DEF Timely

LEMMA UnavailablePolls ==
  ASSUME PollInv, Unavailable
  PROVE  PollInv'
  <1>1. ui' = WorkerUnavailable(ui) /\ health' = "noticed" /\ UNCHANGED <<commands, events, tasks, polls>>
    BY DEF Unavailable, worker, counts
  <1>2. Awaits(ui, ui') /\ HasClock(ui')
    BY <1>1, PollFacts, UnavailableSteady DEF Steady
  <1>3. AllFit(commands', polls', ui') /\ AllFit(events', polls', ui')
    BY <1>1, <1>2, PollFacts, AllFitStay
  <1>4. Busy("poll")' => /\ "of" \in DOMAIN tasks'["poll"] /\ tasks'["poll"].of.type = "BackgroundSync"
                         /\ Fits(tasks'["poll"].of, polls', ui')
    BY <1>1, <1>2, PollFacts, FitsStay DEF PollInv, Busy
  <1>5. PollingContinues'
    BY <1>1 DEF PollingContinues
  <1> QED  BY <1>1, <1>2, <1>3, <1>4, <1>5, PollFacts DEF PollInv

\* A step of the worker answers the poll it drops.
LEMMA WorkerPolls ==
  ASSUME PollInv, UNCHANGED <<ui, polls, timer, health>>,
         AllFit(commands', polls, ui), AllFit(events', polls, ui), DOMAIN tasks' = TaskKinds,
         Busy("poll")' => /\ "of" \in DOMAIN tasks'["poll"] /\ tasks'["poll"].of.type = "BackgroundSync"
                          /\ Fits(tasks'["poll"].of, polls, ui),
         \A r : PollIsOnItsWay(r) =>
            \/ Carried(commands', {"BackgroundSync"}, r)
            \/ Busy("poll")' /\ tasks'["poll"].of.request = r
            \/ Carried(events', PollEvents, r)
  PROVE  PollInv'
  <1>1. PollingContinues'
    <2>1. ASSUME health = "running", ~ui.paused, timer # ui.schedule
          PROVE  /\ ui.inFlight # 0
                 /\ \/ Carried(commands', {"BackgroundSync"}, ui.inFlight)
                    \/ Busy("poll")' /\ tasks'["poll"].of.request = ui.inFlight
                    \/ Carried(events', PollEvents, ui.inFlight)
      BY <2>1 DEF PollInv, PollingContinues
    <2> QED  BY <2>1 DEF PollingContinues, PollIsOnItsWay, Carried, PollEvents
  <1> QED  BY <1>1 DEF PollInv, HasClock

\* What the worker says.
LEMMA SaysPolls ==
  ASSUME PollInv, NEW e, Says(e), Fits(e, polls, ui)
  PROVE  /\ AllFit(events', polls, ui)
         /\ \A r : Carried(events, PollEvents, r) => Carried(events', PollEvents, r)
         /\ e.type \in PollEvents => Carried(events', PollEvents, e.request)
  <1>1. events' = events \o <<e>> /\ IsSeq(events) /\ IsSeq(<<e>>)
    BY PollFacts, AppendIsConcat DEF Says
  <1>2. AllFit(events', polls, ui)
    BY PollFacts, OneFitMore DEF Says
  <1>3. \A r : Carried(events, PollEvents, r) => Carried(events', PollEvents, r)
    BY <1>1, CarriedOn
  <1>4. e.type \in PollEvents => Carried(events', PollEvents, e.request)
    BY <1>1, CarriedOn, CarriedOne
  <1> QED  BY <1>2, <1>3, <1>4

\* A step of a task other than the poll.
LEMMA OtherTaskPolls ==
  ASSUME PollInv, UNCHANGED <<ui, polls, timer, health, commands>>,
         DOMAIN tasks' = TaskKinds, tasks'["poll"] = tasks["poll"],
         \/ events' = events
         \/ \E e : Says(e) /\ e.type # "BackgroundSyncComplete" /\ e.type # "BackgroundSync"
  PROVE  PollInv'
  <1>1. AllFit(events', polls, ui) /\ \A r : Carried(events, PollEvents, r) => Carried(events', PollEvents, r)
    <2>1. CASE events' = events
      BY <2>1, PollFacts
    <2>2. ASSUME NEW e, Says(e), e.type # "BackgroundSyncComplete", e.type # "BackgroundSync"
          PROVE  AllFit(events', polls, ui) /\ \A r : Carried(events, PollEvents, r) => Carried(events', PollEvents, r)
      <3>1. Fits(e, polls, ui)
        BY <2>2, OtherFits
      <3> QED  BY <2>2, <3>1, SaysPolls
    <2> QED  BY <2>1, <2>2
  <1>2. AllFit(commands', polls, ui)
    BY PollFacts
  <1>3. Busy("poll")' => /\ "of" \in DOMAIN tasks'["poll"] /\ tasks'["poll"].of.type = "BackgroundSync"
                         /\ Fits(tasks'["poll"].of, polls, ui)
    BY DEF PollInv, Busy
  <1>4. ASSUME NEW r, PollIsOnItsWay(r)
        PROVE  \/ Carried(commands', {"BackgroundSync"}, r)
               \/ Busy("poll")' /\ tasks'["poll"].of.request = r
               \/ Carried(events', PollEvents, r)
    BY <1>1, <1>4, OnItsWay DEF Busy, PollEvents
  <1> QED  BY <1>1, <1>2, <1>3, <1>4, WorkerPolls

LEMMA ControlPolls ==
  ASSUME PollInv, Control
  PROVE  PollInv'
  <1>1. PICK c : c = Head(commands)
    OBVIOUS
  <1>2. /\ commands # <<>> /\ commands' = Tail(commands) /\ UNCHANGED <<ui, timer, health, polls>>
        /\ CASE c.type = "FetchFolder" -> FetchFolder(c)
             [] c.type = "CancelSearch" -> CancelSearch(c)
             [] c.type = "SearchGmail" -> SearchGmail(c)
             [] c.type = "FetchBody" -> FetchBody(c)
             [] c.type = "ClearBodyCache" -> ClearBodyCache(c)
             [] c.type = "BackgroundSync" -> BackgroundSync(c)
             [] OTHER -> AccountBoundary(c)
    BY <1>1 DEF Control, counts
  <1>3. AllFit(commands', polls, ui) /\ Fits(c, polls, ui)
    BY <1>1, <1>2, PollFacts, OneFitLess
  <1>4. DOMAIN tasks = TaskKinds /\ "poll" \in TaskKinds
    BY PollFacts DEF TaskKinds
  <1>5. ASSUME NEW r, PollIsOnItsWay(r)
        PROVE  \/ Carried(commands', {"BackgroundSync"}, r)
               \/ c.type = "BackgroundSync" /\ c.request = r
               \/ Busy("poll") /\ tasks["poll"].of.request = r
               \/ Carried(events, PollEvents, r)
    <2>1. CASE Carried(commands, {"BackgroundSync"}, r)
      <3>1. Carried(Tail(commands), {"BackgroundSync"}, r)
              \/ (Head(commands).type \in {"BackgroundSync"} /\ Head(commands).request = r)
        BY <1>2, <2>1, PollFacts, CarriedLess
      <3> QED  BY <1>1, <1>2, <3>1
    <2> QED  BY <1>5, <2>1, OnItsWay DEF PollEvents
  <1>6. ASSUME NEW request
        PROVE  /\ PollFailed(request, TRUE).type = "BackgroundSyncFailed"
               /\ PollFailed(request, TRUE).request = request
    BY DEF PollFailed
  <1>7. ASSUME NEW request, Says(PollFailed(request, TRUE))
        PROVE  /\ AllFit(events', polls, ui)
               /\ \A r : Carried(events, PollEvents, r) => Carried(events', PollEvents, r)
               /\ Carried(events', PollEvents, request)
    <2>1. PICK e : e = PollFailed(request, TRUE)
      OBVIOUS
    <2>2. e.type = "BackgroundSyncFailed" /\ e.request = request /\ Says(e)
      BY <1>6, <1>7, <2>1
    <2>3. Fits(e, polls, ui) /\ e.type \in PollEvents
      BY <2>2, OtherFits DEF PollEvents
    <2> QED  BY <2>2, <2>3, SaysPolls
  <1>8. CASE c.type = "BackgroundSync"
    <2>1. BackgroundSync(c)
      BY <1>2, <1>8
    <2>2. CASE Busy("poll")
      <3>1. Says(PollFailed(c.request, TRUE)) /\ tasks' = tasks
        BY <2>1, <2>2 DEF BackgroundSync, Says
      <3>2. ASSUME NEW r, PollIsOnItsWay(r)
            PROVE  \/ Carried(commands', {"BackgroundSync"}, r)
                   \/ Busy("poll")' /\ tasks'["poll"].of.request = r
                   \/ Carried(events', PollEvents, r)
        BY <1>5, <1>7, <3>1, <3>2 DEF Busy
      <3>3. Busy("poll")' => /\ "of" \in DOMAIN tasks'["poll"] /\ tasks'["poll"].of.type = "BackgroundSync"
                             /\ Fits(tasks'["poll"].of, polls, ui)
        BY <3>1 DEF PollInv, Busy
      <3> QED  BY <1>2, <1>3, <1>4, <1>7, <3>1, <3>2, <3>3, WorkerPolls
    <2>3. CASE ~Busy("poll")
      <3> DEFINE new == [kind |-> "poll", of |-> c, stage |-> "network"]
      <3>1. events' = events /\ tasks' = [tasks EXCEPT !["poll"] = new]
        BY <2>1, <2>3 DEF BackgroundSync, Begin
      <3>2. "of" \in DOMAIN new /\ new.of = c /\ new # NoTask
        <4>1. "of" \notin DOMAIN NoTask
          BY DEF NoTask
        <4> QED  BY <4>1
      <3> HIDE DEF new
      <3>3. tasks'["poll"] = new /\ DOMAIN tasks' = TaskKinds /\ Busy("poll")'
        BY <1>4, <3>1, <3>2 DEF Busy
      <3>4. ASSUME NEW r, PollIsOnItsWay(r)
            PROVE  \/ Carried(commands', {"BackgroundSync"}, r)
                   \/ Busy("poll")' /\ tasks'["poll"].of.request = r
                   \/ Carried(events', PollEvents, r)
        BY <1>5, <2>3, <3>1, <3>2, <3>3, <3>4
      <3>5. /\ "of" \in DOMAIN tasks'["poll"] /\ tasks'["poll"].of.type = "BackgroundSync"
            /\ Fits(tasks'["poll"].of, polls, ui)
        BY <1>3, <1>8, <3>2, <3>3
      <3>6. AllFit(events', polls, ui)
        BY <3>1, PollFacts
      <3> QED  BY <1>2, <1>3, <3>3, <3>4, <3>5, <3>6, WorkerPolls
    <2> QED  BY <2>2, <2>3
  <1>9. CASE c.type \in {"FetchFolder", "CancelSearch", "SearchGmail", "FetchBody", "ClearBodyCache"}
    <2>1. FetchFolder(c) \/ CancelSearch(c) \/ SearchGmail(c) \/ FetchBody(c) \/ ClearBodyCache(c)
      BY <1>2, <1>9
    <2>2. DOMAIN tasks' = TaskKinds /\ tasks'["poll"] = tasks["poll"]
      BY <1>4, <2>1 DEF FetchFolder, CancelSearch, SearchGmail, FetchBody, ClearBodyCache, Begin
    <2>3. /\ AllFit(events', polls, ui)
          /\ \A r : Carried(events, PollEvents, r) => Carried(events', PollEvents, r)
      <3>1. CASE ClearBodyCache(c)
        <4>1. PICK e : /\ Says(e) /\ e.type \in {"CacheCleared", "CacheClearFailed"}
          BY <3>1 DEF ClearBodyCache, Says
        <4>2. Fits(e, polls, ui)
          BY <4>1, OtherFits
        <4> QED  BY <4>1, <4>2, SaysPolls
      <3>2. CASE FetchFolder(c) \/ CancelSearch(c) \/ SearchGmail(c) \/ FetchBody(c)
        <4>1. events' = events
          BY <3>2 DEF FetchFolder, CancelSearch, SearchGmail, FetchBody
        <4> QED  BY <4>1, PollFacts
      <3> QED  BY <2>1, <3>1, <3>2
    <2>4. ASSUME NEW r, PollIsOnItsWay(r)
          PROVE  \/ Carried(commands', {"BackgroundSync"}, r)
                 \/ Busy("poll")' /\ tasks'["poll"].of.request = r
                 \/ Carried(events', PollEvents, r)
      BY <1>5, <1>9, <2>2, <2>3, <2>4 DEF Busy
    <2>5. Busy("poll")' => /\ "of" \in DOMAIN tasks'["poll"] /\ tasks'["poll"].of.type = "BackgroundSync"
                           /\ Fits(tasks'["poll"].of, polls, ui)
      BY <2>2 DEF PollInv, Busy
    <2> QED  BY <1>2, <1>3, <2>2, <2>3, <2>4, <2>5, WorkerPolls
  <1>10. CASE c.type \notin {"FetchFolder", "CancelSearch", "SearchGmail", "FetchBody", "ClearBodyCache",
                             "BackgroundSync"}
    <2>1. AccountBoundary(c)
      BY <1>2, <1>10
    <2>2. DOMAIN tasks' = TaskKinds /\ tasks'["poll"] = NoTask /\ ~Busy("poll")'
      BY <1>4, <2>1 DEF AccountBoundary, Busy
    <2>3. CASE Busy("poll")
      <3>1. Says(PollFailed(tasks["poll"].of.request, TRUE))
        BY <2>1, <2>3 DEF AccountBoundary, Says
      <3>2. /\ AllFit(events', polls, ui)
            /\ \A r : Carried(events, PollEvents, r) => Carried(events', PollEvents, r)
            /\ Carried(events', PollEvents, tasks["poll"].of.request)
        <4>1. PICK request : request = tasks["poll"].of.request
          OBVIOUS
        <4>2. Says(PollFailed(request, TRUE))
          BY <3>1, <4>1
        <4> QED  BY <1>7, <4>1, <4>2
      <3>3. ASSUME NEW r, PollIsOnItsWay(r)
            PROVE  \/ Carried(commands', {"BackgroundSync"}, r)
                   \/ Carried(events', PollEvents, r)
        BY <1>5, <1>10, <3>2, <3>3
      <3> QED  BY <1>2, <1>3, <2>2, <3>2, <3>3, WorkerPolls
    <2>4. CASE ~Busy("poll")
      <3>1. events' = events
        BY <2>1, <2>4 DEF AccountBoundary
      <3>2. ASSUME NEW r, PollIsOnItsWay(r)
            PROVE  \/ Carried(commands', {"BackgroundSync"}, r)
                   \/ Carried(events', PollEvents, r)
        BY <1>5, <1>10, <2>4, <3>1, <3>2
      <3>3. AllFit(events', polls, ui)
        BY <3>1, PollFacts
      <3> QED  BY <1>2, <1>3, <2>2, <3>2, <3>3, WorkerPolls
    <2> QED  BY <2>3, <2>4
  <1> QED  BY <1>8, <1>9, <1>10

\* A poll that ends says so, for the account it was made for.
LEMMA PollTaskPolls ==
  ASSUME PollInv, PollTask
  PROVE  PollInv'
  <1> DEFINE c == tasks["poll"].of
  <1>1. /\ UNCHANGED <<ui, timer, health, polls, commands>> /\ DOMAIN tasks = TaskKinds
        /\ "poll" \in TaskKinds /\ c.type = "BackgroundSync" /\ Fits(c, polls, ui)
    BY DEF PollTask, TaskStep, PollInv, counts, TaskKinds
  <1>2. tasks' = [tasks EXCEPT !["poll"] = NoTask]
    BY DEF PollTask, Ends, Begin
  <1>3. \E e : /\ Says(e) /\ e.type \in PollEvents /\ e.request = c.request
               /\ e.type = "BackgroundSyncComplete" => e.account = c.account
    <2>1. ASSUME NEW rows
          PROVE  LET e == [type |-> "BackgroundSyncComplete", request |-> c.request,
                           account |-> c.account, rows |-> rows]
                 IN  e.type = "BackgroundSyncComplete" /\ e.request = c.request /\ e.account = c.account
      OBVIOUS
    <2>2. ASSUME NEW retryable
          PROVE  LET e == PollFailed(c.request, retryable)
                 IN  e.type = "BackgroundSyncFailed" /\ e.request = c.request
      BY DEF PollFailed
    <2>3. \/ \E retryable : Says(PollFailed(c.request, retryable))
          \/ \E rows : Says([type |-> "BackgroundSyncComplete", request |-> c.request,
                             account |-> c.account, rows |-> rows])
      BY DEF PollTask
    <2> HIDE DEF c
    <2>4. CASE \E retryable : Says(PollFailed(c.request, retryable))
      <3>1. PICK retryable : Says(PollFailed(c.request, retryable))
        BY <2>4
      <3> QED  BY <2>2, <3>1 DEF PollEvents
    <2>5. CASE \E rows : Says([type |-> "BackgroundSyncComplete", request |-> c.request,
                               account |-> c.account, rows |-> rows])
      <3>1. PICK rows : Says([type |-> "BackgroundSyncComplete", request |-> c.request,
                              account |-> c.account, rows |-> rows])
        BY <2>5
      <3> QED  BY <2>1, <3>1 DEF PollEvents
    <2> QED  BY <2>3, <2>4, <2>5
  <1>4. PICK e : /\ Says(e) /\ e.type \in PollEvents /\ e.request = c.request
                 /\ e.type = "BackgroundSyncComplete" => e.account = c.account
    BY <1>3
  <1>5. Fits(e, polls, ui)
    BY <1>1, <1>4 DEF Fits, PollEvents
  <1>6. /\ AllFit(events', polls, ui)
        /\ \A r : Carried(events, PollEvents, r) => Carried(events', PollEvents, r)
        /\ Carried(events', PollEvents, e.request)
    BY <1>4, <1>5, SaysPolls
  <1>7. DOMAIN tasks' = TaskKinds /\ ~Busy("poll")' /\ AllFit(commands', polls, ui)
    BY <1>1, <1>2, PollFacts DEF Busy
  <1>8. ASSUME NEW r, PollIsOnItsWay(r)
        PROVE  \/ Carried(commands', {"BackgroundSync"}, r)
               \/ Carried(events', PollEvents, r)
    BY <1>1, <1>4, <1>6, <1>8, OnItsWay DEF PollEvents
  <1> QED  BY <1>1, <1>6, <1>7, <1>8, WorkerPolls

LEMMA OtherTasksPolls ==
  ASSUME PollInv, FolderTask \/ SearchTask \/ BodyTask \/ SyncTask \/ SaveBody
  PROVE  PollInv'
  <1>1. /\ UNCHANGED <<ui, polls, timer, health, commands>> /\ DOMAIN tasks = TaskKinds
        /\ "poll" \in TaskKinds
    BY PollFacts DEF FolderTask, SearchTask, BodyTask, SyncTask, SaveBody, TaskStep, counts, TaskKinds
  <1>2. DOMAIN tasks' = TaskKinds /\ tasks'["poll"] = tasks["poll"]
    BY <1>1 DEF FolderTask, SearchTask, BodyTask, SyncTask, SaveBody, Ends, Goes, Begin
  <1>3. events' = events \/ \E e : Says(e) /\ e.type # "BackgroundSyncComplete" /\ e.type # "BackgroundSync"
    <2>1. CASE FolderTask
      BY <2>1, FolderSays
    <2>2. CASE SearchTask
      BY <2>2 DEF SearchTask, Says, Bare
    <2>3. CASE BodyTask
      BY <2>3 DEF BodyTask, Says
    <2>4. CASE SyncTask
      BY <2>4, SyncSays DEF OfOperation
    <2>5. CASE SaveBody
      BY <2>5 DEF SaveBody
    <2> QED  BY <2>1, <2>2, <2>3, <2>4, <2>5
  <1> QED  BY <1>1, <1>2, <1>3, OtherTaskPolls

LEMMA StopPolls ==
  ASSUME PollInv, WorkerStops
  PROVE  PollInv'
  <1>1. /\ UNCHANGED <<ui, polls, events>> /\ health' = "stopped" /\ commands' = <<>>
        /\ tasks' = [k \in TaskKinds |-> NoTask]
    BY DEF WorkerStops, counts
  <1>2. DOMAIN tasks' = TaskKinds /\ ~Busy("poll")'
    BY <1>1 DEF Busy, TaskKinds
  <1>3. HasClock(ui') /\ polls' \in Nat /\ AllFit(events', polls', ui') /\ AllFit(commands', polls', ui')
    BY <1>1, PollFacts, NoneFits
  <1>4. PollingContinues'
    BY <1>1 DEF PollingContinues
  <1> QED  BY <1>2, <1>3, <1>4 DEF PollInv

LEMMA InitPolls == Init => PollInv
  <1> SUFFICES ASSUME Init PROVE PollInv
    OBVIOUS
  <1>1. /\ timer = 1 /\ commands = <<>> /\ events = <<>> /\ polls = 0
        /\ tasks = [k \in TaskKinds |-> NoTask]
    BY DEF Init
  <1>2. PICK u : u.schedule = 1 /\ HasClock(u) /\ ui = normalize(u)
    <2>1. ASSUME NEW account, NEW rows, NEW query, NEW projection
          PROVE  /\ FirstView(account, rows, query, projection).schedule = 1
                 /\ HasClock(FirstView(account, rows, query, projection))
      BY DEF FirstView, HasClock, Clock
    <2> QED  BY <2>1 DEF Init
  <1>3. HasClock(ui) /\ ui.schedule = 1
    <2>1. ui.schedule = u.schedule
      BY <1>2 DEF normalize, FollowList, HasClock, Clock
    <2> QED  BY <1>2, <2>1, NormalizeSteady
  <1>4. AllFit(commands, polls, ui) /\ AllFit(events, polls, ui)
    BY <1>1, NoneFits
  <1>5. DOMAIN tasks = TaskKinds /\ ~Busy("poll")
    BY <1>1 DEF Busy, TaskKinds
  <1>6. PollingContinues
    BY <1>1, <1>3 DEF PollingContinues
  <1> QED  BY <1>1, <1>3, <1>4, <1>5, <1>6 DEF PollInv

LEMMA NextPolls == PollInv /\ [Next]_vars => PollInv'
  <1> SUFFICES ASSUME PollInv, [Next]_vars PROVE PollInv'
    OBVIOUS
  <1>1. CASE Person
    BY <1>1, PersonPolls DEF Person
  <1>2. CASE background_sync_timer
    BY <1>2, TimerPolls
  <1>3. CASE Receive \/ Unavailable
    BY <1>3, ReceivePolls, UnavailablePolls
  <1>4. CASE Control
    BY <1>4, ControlPolls
  <1>5. CASE PollTask
    BY <1>5, PollTaskPolls
  <1>6. CASE FolderTask \/ SearchTask \/ BodyTask \/ SyncTask \/ SaveBody
    BY <1>6, OtherTasksPolls
  <1>7. CASE WorkerStops
    BY <1>7, StopPolls
  <1>8. CASE UNCHANGED vars
    <2>1. UNCHANGED <<ui, polls, events, commands, tasks, timer, health>>
      BY <1>8 DEF vars, worker, counts
    <2> QED  BY <2>1 DEF PollInv, Busy, PollingContinues, PollIsOnItsWay, HasClock
  <1> QED  BY <1>1, <1>2, <1>3, <1>4, <1>5, <1>6, <1>7, <1>8 DEF Next, System

\* The background poll never silently stops: while the worker runs and the
\* schedule is not paused, a timer is armed for it or the poll it waits for is a
\* command, a task or an event, whatever a sign-in, an account change or a busy
\* worker does to it (background_sync_timer, background_worker_event,
\* account_boundary, stop_background_sync).
THEOREM PollingGoesOn == Spec => []PollingContinues
  <1>1. Spec => []PollInv
    BY InitPolls, NextPolls, PTL DEF Spec
  <1>2. PollInv => PollingContinues
    BY DEF PollInv
  <1> QED  BY <1>1, <1>2, PTL

=============================================================================
