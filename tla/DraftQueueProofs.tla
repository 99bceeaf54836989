--------------------------- MODULE DraftQueueProofs ---------------------------
(* What TLAPS proves about DraftQueue, for any drafts, files and bounds: what *)
(* is listed is what is stored, every draft has its files, and the window     *)
(* closes over a draft only once it is stored.                                *)
EXTENDS DraftQueue, TLAPS

-----------------------------------------------------------------------------
(* Operations under way                                                       *)

IsSeq(s) == \E S : s \in Seq(S)

Revisions == [rev : Nat, files : SUBSET Files]
Catalogs == [Drafts -> Revisions \cup {None}]
Blank == [rev |-> 0, files |-> {}]
Answering == {"loaded", "done", "failed"}

Operation ==
    [n : Nat, kind : OpKinds, id : Drafts \cup {None}, version : Revisions \cup {None},
     file : Files \cup {None}, gen : Nat]

WellFormed(o) ==
    /\ o \in Operation
    /\ o.kind \in {"save", "delete", "stage", "remove"} => o.id \in Drafts
    /\ o.kind = "save" => o.version \in Revisions
    /\ o.kind \in {"stage", "remove"} => o.file \in Files

GoodEvent(e) ==
    /\ e.kind \in Replies
    /\ e.kind \in Answering => WellFormed(e.op)
    /\ e.kind = "loaded" => e.op.kind = "load" /\ e.drafts \in Catalogs
    /\ e.kind = "done" => e.op.kind # "load"

\* The operations of a queue and a batch, those that events announce, and the
\* drafts that events bring.
Waiting(q, b) == {q[i] : i \in DOMAIN q} \cup {b[i] : i \in DOMAIN b}
Answers(e, kinds) == {e[i].op : i \in {j \in DOMAIN e : e[j].kind \in kinds}}
Loads(e) == {e[i].drafts : i \in {j \in DOMAIN e : e[j].kind = "loaded"}}

\* Operations are run and announced in the order of their numbers.
Ordered(q, b, e, m) ==
    /\ IsSeq(q) /\ IsSeq(b) /\ IsSeq(e)
    /\ \A i \in DOMAIN q : WellFormed(q[i]) /\ q[i].n < m
    /\ \A i \in DOMAIN b : WellFormed(b[i]) /\ b[i].n < m
    /\ \A i \in DOMAIN e : GoodEvent(e[i]) /\ (e[i].kind \in Answering => e[i].op.n < m)
    /\ \A i, j \in DOMAIN q : i < j => q[i].n < q[j].n
    /\ \A i, j \in DOMAIN b : i < j => b[i].n < b[j].n
    /\ \A i \in DOMAIN b, j \in DOMAIN q : b[i].n < q[j].n
    /\ \A i, j \in DOMAIN e :
          i < j /\ e[i].kind \in Answering /\ e[j].kind \in Answering => e[i].op.n < e[j].op.n
    /\ \A i \in DOMAIN e, j \in DOMAIN b : e[i].kind \in Answering => e[i].op.n < b[j].n
    /\ \A i \in DOMAIN e, j \in DOMAIN q : e[i].kind \in Answering => e[i].op.n < q[j].n

-----------------------------------------------------------------------------
(* Sequences                                                                  *)

LEMMA AppendIs ==
  ASSUME NEW s, IsSeq(s), NEW c
  PROVE  /\ IsSeq(Append(s, c)) /\ s \o <<c>> = Append(s, c)
         /\ DOMAIN s = 1 .. Len(s) /\ Len(s) \in Nat
         /\ DOMAIN Append(s, c) = 1 .. (Len(s) + 1)
         /\ \A n \in DOMAIN s : Append(s, c)[n] = s[n]
         /\ Append(s, c)[Len(s) + 1] = c
  <1>1. PICK S : s \in Seq(S)
    BY DEF IsSeq
  <1>2. s \in Seq(S \cup {c}) /\ c \in S \cup {c}
    BY <1>1
  <1>3. Append(s, c) \in Seq(S \cup {c}) /\ s \o <<c>> = Append(s, c)
    BY <1>2
  <1> QED  BY <1>2, <1>3 DEF IsSeq

LEMMA TailIs ==
  ASSUME NEW s, IsSeq(s), s # <<>>
  PROVE  /\ IsSeq(Tail(s)) /\ DOMAIN s = 1 .. Len(s) /\ Len(s) \in Nat /\ Len(s) >= 1
         /\ DOMAIN Tail(s) = 1 .. Len(s) - 1
         /\ 1 \in DOMAIN s /\ Head(s) = s[1]
         /\ \A n \in DOMAIN Tail(s) : n \in Nat /\ n >= 1 /\ n + 1 \in DOMAIN s /\ Tail(s)[n] = s[n + 1]
         /\ \A n \in DOMAIN s : n # 1 => n - 1 \in DOMAIN Tail(s) /\ s[n] = Tail(s)[n - 1]
  <1>1. PICK S : s \in Seq(S)
    BY DEF IsSeq
  <1> QED  BY <1>1 DEF IsSeq

LEMMA SplitIs ==
  ASSUME NEW s, IsSeq(s), NEW k \in 1 .. Len(s)
  PROVE  LET a == SubSeq(s, 1, k)
             b == SubSeq(s, k + 1, Len(s))
         IN  /\ IsSeq(a) /\ IsSeq(b) /\ DOMAIN s = 1 .. Len(s) /\ Len(s) \in Nat
             /\ DOMAIN a = 1 .. k /\ \A i \in 1 .. k : a[i] = s[i]
             /\ DOMAIN b = 1 .. (Len(s) - k) /\ \A i \in 1 .. (Len(s) - k) : b[i] = s[k + i]
  <1>1. PICK S : s \in Seq(S)
    BY DEF IsSeq
  <1> DEFINE a == SubSeq(s, 1, k)
             b == SubSeq(s, k + 1, Len(s))
  <1>2. a \in Seq(S) /\ Len(a) = k /\ \A i \in 1 .. k : a[i] = s[i]
    BY <1>1
  <1>3. b \in Seq(S) /\ Len(b) = Len(s) - k /\ \A i \in 1 .. (Len(s) - k) : b[i] = s[k + i]
    BY <1>1
  <1>4. DOMAIN a = 1 .. k /\ DOMAIN b = 1 .. (Len(s) - k)
    BY <1>2, <1>3
  <1>5. IsSeq(a) /\ IsSeq(b)
    BY <1>2, <1>3 DEF IsSeq
  <1>6. DOMAIN s = 1 .. Len(s) /\ Len(s) \in Nat
    BY <1>1
  <1> QED  BY <1>2, <1>3, <1>4, <1>5, <1>6

\* A command at the end of the queue.
LEMMA QueueOne ==
  ASSUME NEW q, NEW b, NEW e, NEW m \in Nat, Ordered(q, b, e, m),
         NEW a, WellFormed(a), a.n = m
  PROVE  /\ Ordered(q \o <<a>>, b, e, m + 1)
         /\ Waiting(q \o <<a>>, b) = Waiting(q, b) \cup {a}
  <1> DEFINE t == Append(q, a)
  <1>1. /\ IsSeq(t) /\ q \o <<a>> = t /\ DOMAIN q = 1 .. Len(q) /\ Len(q) \in Nat
        /\ DOMAIN t = 1 .. (Len(q) + 1) /\ \A n \in DOMAIN q : t[n] = q[n]
        /\ t[Len(q) + 1] = a
    BY AppendIs DEF Ordered
  <1> HIDE DEF t
  <1>2. \A i \in DOMAIN t : (i \in DOMAIN q /\ t[i] = q[i]) \/ (i = Len(q) + 1 /\ t[i] = a)
    BY <1>1
  <1>3. \A i \in DOMAIN q : q[i].n \in Nat /\ q[i].n < m
    BY DEF Ordered, WellFormed, Operation
  <1>4. \A i \in DOMAIN b : b[i].n \in Nat /\ b[i].n < m
    BY DEF Ordered, WellFormed, Operation
  <1>5. \A i \in DOMAIN e : e[i].kind \in Answering => e[i].op.n \in Nat /\ e[i].op.n < m
    BY DEF Ordered, GoodEvent, WellFormed, Operation
  <1>6. \A i, j \in DOMAIN t : i < j => t[i].n < t[j].n
    BY <1>1, <1>2, <1>3 DEF Ordered
  <1>7. Ordered(t, b, e, m + 1)
    BY <1>1, <1>2, <1>3, <1>4, <1>5, <1>6 DEF Ordered
  <1>8. Waiting(t, b) = Waiting(q, b) \cup {a}
    BY <1>1, <1>2 DEF Waiting
  <1> QED  BY <1>1, <1>7, <1>8

\* The reducer takes the first event.
LEMMA ReceiveOne ==
  ASSUME NEW q, NEW b, NEW e, NEW m, Ordered(q, b, e, m), e # <<>>
  PROVE  /\ Ordered(q, b, Tail(e), m)
         /\ GoodEvent(Head(e))
         /\ \A kinds :
               /\ Answers(Tail(e), kinds) \subseteq Answers(e, kinds)
               /\ Answers(e, kinds) \subseteq Answers(Tail(e), kinds) \cup {Head(e).op}
               /\ Head(e).kind \in kinds => Head(e).op \in Answers(e, kinds)
               /\ Head(e).kind \notin kinds => Answers(e, kinds) = Answers(Tail(e), kinds)
         /\ Loads(e) = Loads(Tail(e)) \cup (IF Head(e).kind = "loaded" THEN {Head(e).drafts} ELSE {})
         /\ Head(e).kind \in Answering =>
               /\ Head(e).op.n < m
               /\ \A o \in Answers(Tail(e), Answering) : Head(e).op.n < o.n
               /\ \A o \in Waiting(q, b) : Head(e).op.n < o.n
  <1> DEFINE t == Tail(e)
             h == Head(e)
  <1>1. /\ IsSeq(t) /\ DOMAIN e = 1 .. Len(e) /\ Len(e) \in Nat /\ Len(e) >= 1
        /\ DOMAIN t = 1 .. Len(e) - 1
        /\ 1 \in DOMAIN e /\ h = e[1]
        /\ \A n \in DOMAIN t : n \in Nat /\ n >= 1 /\ n + 1 \in DOMAIN e /\ t[n] = e[n + 1]
        /\ \A n \in DOMAIN e : n # 1 => n - 1 \in DOMAIN t /\ e[n] = t[n - 1]
    BY TailIs DEF Ordered
  <1> HIDE DEF t, h
  <1>2. Ordered(q, b, t, m)
    BY <1>1 DEF Ordered
  <1>3. GoodEvent(h)
    BY <1>1 DEF Ordered
  <1>4. \A kinds :
           /\ Answers(t, kinds) \subseteq Answers(e, kinds)
           /\ Answers(e, kinds) \subseteq Answers(t, kinds) \cup {h.op}
           /\ h.kind \in kinds => h.op \in Answers(e, kinds)
           /\ h.kind \notin kinds => Answers(e, kinds) = Answers(t, kinds)
    <2> TAKE kinds
    <2>1. Answers(t, kinds) \subseteq Answers(e, kinds)
      BY <1>1 DEF Answers
    <2>2. h.kind \in kinds => h.op \in Answers(e, kinds)
      BY <1>1 DEF Answers
    <2>3. ASSUME NEW i \in DOMAIN e, e[i].kind \in kinds
          PROVE  e[i].op \in Answers(t, kinds) \/ (h.kind \in kinds /\ e[i].op = h.op)
      <3>1. CASE i = 1  BY <3>1, <2>3, <1>1
      <3>2. CASE i # 1
        <4>1. i - 1 \in DOMAIN t /\ t[i - 1] = e[i]
          BY <3>2, <1>1
        <4> QED  BY <4>1, <2>3 DEF Answers
      <3> QED  BY <3>1, <3>2
    <2>4. /\ Answers(e, kinds) \subseteq Answers(t, kinds) \cup {h.op}
          /\ h.kind \notin kinds => Answers(e, kinds) \subseteq Answers(t, kinds)
      BY <2>3 DEF Answers
    <2> QED  BY <2>1, <2>2, <2>4
  <1>5. Loads(e) = Loads(t) \cup (IF h.kind = "loaded" THEN {h.drafts} ELSE {})
    <2>1. Loads(t) \subseteq Loads(e)
      BY <1>1 DEF Loads
    <2>2. h.kind = "loaded" => h.drafts \in Loads(e)
      BY <1>1 DEF Loads
    <2>3. ASSUME NEW i \in DOMAIN e, e[i].kind = "loaded"
          PROVE  e[i].drafts \in Loads(t) \/ (h.kind = "loaded" /\ e[i].drafts = h.drafts)
      <3>1. CASE i = 1  BY <3>1, <2>3, <1>1
      <3>2. CASE i # 1
        <4>1. i - 1 \in DOMAIN t /\ t[i - 1] = e[i]
          BY <3>2, <1>1
        <4> QED  BY <4>1, <2>3 DEF Loads
      <3> QED  BY <3>1, <3>2
    <2> QED  BY <2>1, <2>2, <2>3 DEF Loads
  <1>6. ASSUME h.kind \in Answering
        PROVE  /\ h.op.n < m
               /\ \A o \in Answers(t, Answering) : h.op.n < o.n
               /\ \A o \in Waiting(q, b) : h.op.n < o.n
    <2>1. h.op.n < m
      BY <1>1, <1>6 DEF Ordered
    <2>2. \A i \in DOMAIN t : t[i].kind \in Answering => h.op.n < t[i].op.n
      <3> TAKE i \in DOMAIN t
      <3>1. i + 1 \in DOMAIN e /\ t[i] = e[i + 1] /\ 1 < i + 1
        BY <1>1
      <3> QED  BY <3>1, <1>1, <1>6 DEF Ordered
    <2>3. /\ \A j \in DOMAIN b : h.op.n < b[j].n
          /\ \A j \in DOMAIN q : h.op.n < q[j].n
      BY <1>1, <1>6 DEF Ordered
    <2> QED  BY <2>1, <2>2, <2>3 DEF Answers, Waiting
  <1> QED  BY <1>1, <1>2, <1>3, <1>4, <1>5, <1>6 DEF t, h

\* The actor leaves the first operation of its batch.
LEMMA LeaveOne ==
  ASSUME NEW q, NEW b, NEW e, NEW m, Ordered(q, b, e, m), b # <<>>
  PROVE  /\ Ordered(q, Tail(b), e, m)
         /\ WellFormed(Head(b)) /\ Head(b).n < m
         /\ Waiting(q, b) = Waiting(q, Tail(b)) \cup {Head(b)}
         /\ \A o \in Waiting(q, Tail(b)) : Head(b).n < o.n
         /\ \A o \in Answers(e, Answering) : o.n < Head(b).n
  <1> DEFINE t == Tail(b)
             h == Head(b)
  <1>1. /\ IsSeq(t) /\ DOMAIN b = 1 .. Len(b) /\ Len(b) \in Nat /\ Len(b) >= 1
        /\ DOMAIN t = 1 .. Len(b) - 1
        /\ 1 \in DOMAIN b /\ h = b[1]
        /\ \A n \in DOMAIN t : n \in Nat /\ n >= 1 /\ n + 1 \in DOMAIN b /\ t[n] = b[n + 1]
        /\ \A n \in DOMAIN b : n # 1 => n - 1 \in DOMAIN t /\ b[n] = t[n - 1]
    BY TailIs DEF Ordered
  <1> HIDE DEF t, h
  <1>2. Ordered(q, t, e, m)
    <2>1. /\ \A i \in DOMAIN t : WellFormed(t[i]) /\ t[i].n < m
          /\ \A i \in DOMAIN t, j \in DOMAIN q : t[i].n < q[j].n
          /\ \A i \in DOMAIN e, j \in DOMAIN t : e[i].kind \in Answering => e[i].op.n < t[j].n
      BY <1>1 DEF Ordered
    <2>2. \A i, j \in DOMAIN t : i < j => t[i].n < t[j].n
      <3> TAKE i, j \in DOMAIN t
      <3>1. /\ i + 1 \in DOMAIN b /\ t[i] = b[i + 1] /\ i \in Nat
            /\ j + 1 \in DOMAIN b /\ t[j] = b[j + 1] /\ j \in Nat
        BY <1>1
      <3> QED  BY <3>1 DEF Ordered
    <2> QED  BY <1>1, <2>1, <2>2 DEF Ordered
  <1>3. WellFormed(h) /\ h.n < m
    BY <1>1 DEF Ordered
  <1>4. Waiting(q, b) = Waiting(q, t) \cup {h}
    <2>1. Waiting(q, t) \subseteq Waiting(q, b) /\ h \in Waiting(q, b)
      BY <1>1 DEF Waiting
    <2>2. ASSUME NEW i \in DOMAIN b
          PROVE  b[i] \in Waiting(q, t) \cup {h}
      <3>1. CASE i = 1  BY <3>1, <1>1
      <3>2. CASE i # 1
        <4>1. i - 1 \in DOMAIN t /\ t[i - 1] = b[i]
          BY <3>2, <1>1
        <4> QED  BY <4>1 DEF Waiting
      <3> QED  BY <3>1, <3>2
    <2> QED  BY <2>1, <2>2 DEF Waiting
  <1>5. \A o \in Waiting(q, t) : h.n < o.n
    <2>1. \A i \in DOMAIN t : h.n < t[i].n
      <3> TAKE i \in DOMAIN t
      <3>1. i + 1 \in DOMAIN b /\ t[i] = b[i + 1] /\ 1 < i + 1
        BY <1>1
      <3> QED  BY <3>1, <1>1 DEF Ordered
    <2>2. \A i \in DOMAIN q : h.n < q[i].n
      BY <1>1 DEF Ordered
    <2> QED  BY <2>1, <2>2 DEF Waiting
  <1>6. \A o \in Answers(e, Answering) : o.n < h.n
    BY <1>1 DEF Ordered, Answers
  <1> QED  BY <1>1, <1>2, <1>3, <1>4, <1>5, <1>6 DEF t, h

\* An event at the end of the channel: an answer to the operation just run, or
\* one that answers none.
LEMMA SayOne ==
  ASSUME NEW q, NEW b, NEW e, NEW m, Ordered(q, b, e, m), NEW r, GoodEvent(r),
         r.kind \in Answering =>
            /\ r.op.n < m
            /\ \A o \in Answers(e, Answering) : o.n < r.op.n
            /\ \A o \in Waiting(q, b) : r.op.n < o.n
  PROVE  /\ Ordered(q, b, Append(e, r), m)
         /\ \A kinds :
               /\ r.kind \in kinds => Answers(Append(e, r), kinds) = Answers(e, kinds) \cup {r.op}
               /\ r.kind \notin kinds => Answers(Append(e, r), kinds) = Answers(e, kinds)
         /\ Loads(Append(e, r)) = Loads(e) \cup (IF r.kind = "loaded" THEN {r.drafts} ELSE {})
  <1> DEFINE t == Append(e, r)
  <1>1. /\ IsSeq(t) /\ DOMAIN e = 1 .. Len(e) /\ Len(e) \in Nat
        /\ DOMAIN t = 1 .. (Len(e) + 1) /\ \A n \in DOMAIN e : t[n] = e[n]
        /\ t[Len(e) + 1] = r
    BY AppendIs DEF Ordered
  <1> HIDE DEF t
  <1>2. \A i \in DOMAIN t : (i \in DOMAIN e /\ t[i] = e[i]) \/ (i = Len(e) + 1 /\ t[i] = r)
    BY <1>1
  <1>3. \A i \in DOMAIN e : e[i].kind \in Answering /\ r.kind \in Answering => e[i].op.n < r.op.n
    BY DEF Answers
  <1>4. \A i, j \in DOMAIN t :
          i < j /\ t[i].kind \in Answering /\ t[j].kind \in Answering => t[i].op.n < t[j].op.n
    BY <1>1, <1>2, <1>3 DEF Ordered
  <1>5. /\ \A i \in DOMAIN b : r.kind \in Answering => r.op.n < b[i].n
        /\ \A i \in DOMAIN q : r.kind \in Answering => r.op.n < q[i].n
    BY DEF Waiting
  <1>6. Ordered(q, b, t, m)
    BY <1>1, <1>2, <1>4, <1>5 DEF Ordered
  <1>7. \A kinds :
           /\ r.kind \in kinds => Answers(t, kinds) = Answers(e, kinds) \cup {r.op}
           /\ r.kind \notin kinds => Answers(t, kinds) = Answers(e, kinds)
    BY <1>1, <1>2 DEF Answers
  <1>8. Loads(t) = Loads(e) \cup (IF r.kind = "loaded" THEN {r.drafts} ELSE {})
    BY <1>1, <1>2 DEF Loads
  <1> QED  BY <1>6, <1>7, <1>8 DEF t

\* The actor takes the first operations of the queue as its batch.
LEMMA TakeBatch ==
  ASSUME NEW q, NEW e, NEW m, Ordered(q, <<>>, e, m), NEW k \in 1 .. Len(q)
  PROVE  /\ Ordered(SubSeq(q, k + 1, Len(q)), SubSeq(q, 1, k), e, m)
         /\ Waiting(SubSeq(q, k + 1, Len(q)), SubSeq(q, 1, k)) = Waiting(q, <<>>)
  <1> DEFINE a == SubSeq(q, 1, k)
             b == SubSeq(q, k + 1, Len(q))
  <1>1. /\ IsSeq(a) /\ IsSeq(b) /\ DOMAIN q = 1 .. Len(q) /\ Len(q) \in Nat
        /\ DOMAIN a = 1 .. k /\ \A i \in 1 .. k : a[i] = q[i]
        /\ DOMAIN b = 1 .. (Len(q) - k) /\ \A i \in 1 .. (Len(q) - k) : b[i] = q[k + i]
    BY SplitIs DEF Ordered
  <1> HIDE DEF a, b
  <1>2. /\ \A i \in DOMAIN a : i \in DOMAIN q /\ a[i] = q[i] /\ i <= k
        /\ \A i \in DOMAIN b : k + i \in DOMAIN q /\ b[i] = q[k + i] /\ k + i > k /\ i \in Int
    BY <1>1
  <1>3. \A i \in DOMAIN q : (i \in DOMAIN a /\ q[i] = a[i]) \/ (i - k \in DOMAIN b /\ q[i] = b[i - k])
    <2> TAKE i \in DOMAIN q
    <2>1. CASE i <= k
      BY <2>1, <1>1
    <2>2. CASE ~(i <= k)
      <3>1. i - k \in 1 .. (Len(q) - k) /\ k + (i - k) = i
        BY <2>2, <1>1
      <3> QED  BY <3>1, <1>1
    <2> QED  BY <2>1, <2>2
  <1>4. Ordered(b, a, e, m)
    <2>1. \A i, j \in DOMAIN b : i < j => b[i].n < b[j].n
      BY <1>1, <1>2 DEF Ordered
    <2>2. \A i \in DOMAIN a, j \in DOMAIN b : a[i].n < b[j].n
      BY <1>1, <1>2 DEF Ordered
    <2> QED  BY <1>1, <1>2, <2>1, <2>2 DEF Ordered
  <1>5. Waiting(b, a) = Waiting(q, <<>>)
    <2>1. DOMAIN <<>> = {}
      OBVIOUS
    <2> QED  BY <1>2, <1>3, <2>1 DEF Waiting
  <1> QED  BY <1>4, <1>5 DEF a, b

\* Everything that waits is dropped with the worker.
LEMMA DropAll ==
  ASSUME NEW q, NEW b, NEW e, NEW m, Ordered(q, b, e, m)
  PROVE  Ordered(<<>>, <<>>, e, m) /\ Waiting(<<>>, <<>>) = {}
  <1>1. IsSeq(<<>>) /\ DOMAIN <<>> = {}
    BY DEF IsSeq
  <1> QED  BY <1>1 DEF Ordered, Waiting

LEMMA HigherBound ==
  ASSUME NEW q, NEW b, NEW e, NEW m \in Nat, NEW k \in Nat, m <= k, Ordered(q, b, e, m)
  PROVE  Ordered(q, b, e, k)
  <1>1. /\ \A i \in DOMAIN q : q[i].n \in Nat
        /\ \A i \in DOMAIN b : b[i].n \in Nat
        /\ \A i \in DOMAIN e : e[i].kind \in Answering => e[i].op.n \in Nat
    BY DEF Ordered, GoodEvent, WellFormed, Operation
  <1> QED  BY <1>1 DEF Ordered

-----------------------------------------------------------------------------
(* The inductive invariant                                                    *)

\* Still to be run; done, and about to be announced; both of these, and failed.
Pending == Waiting(queue, batch)
Done == Answers(events, {"done"})
UnderWay == Pending \cup Answers(events, Answering)

\* What the state holds, whatever the bounds.
Shapes ==
    /\ catalog \in {"notStarted", "loading", "ready", "failed"}
    /\ generation \in Nat /\ nextOp \in Nat
    /\ {loadOp, signatureOp, latest, pendingClose} \subseteq Nat \cup {None}
    /\ composer \in {Closed} \cup [mode : {"editing", "sending", "failed"}, id : Drafts, version : Revisions]
    /\ saved \in Catalogs /\ stored \in Catalogs /\ staged \in [Drafts -> SUBSET Files]
    /\ unused \subseteq Drafts /\ fresh \subseteq Files
    /\ worker \in {"up", "dead", "stopped"}
    /\ asked \in {None} \cup [id : Drafts, version : Revisions]

InOrder ==
    /\ Ordered(queue, batch, events, nextOp)
    /\ worker # "up" => queue = <<>> /\ batch = <<>>
    /\ latest # None => latest < nextOp
    /\ pendingClose # None => pendingClose < nextOp

\* Until the drafts are restored nothing but loads is under way, and the disk is
\* as the program found it.
Restored ==
    /\ catalog = "ready" => loadOp = None /\ signatureOp = None
    /\ catalog # "ready" =>
          /\ composer = Closed /\ latest = None /\ pendingClose = None /\ staging = {} /\ unsaved = {}
          /\ \A o \in UnderWay : o.kind \in {"load", "signature"}
          /\ \A c \in Loads(events) : c = stored
          /\ \A d \in Drafts : /\ staged[d] = {}
                               /\ stored[d] # None => stored[d].files = {}
                               /\ saved[d] # None => saved[d] = stored[d]
    /\ catalog = "loading" /\ loadOp = None => saved = stored

\* The draft in the composer is listed as the composer shows it.
Open == composer # Closed => catalog = "ready" /\ saved[composer.id] = composer.version

DraftKinds == {"save", "delete", "stage", "remove"}

\* A draft id not drawn is nowhere.
Unborn ==
    \A d \in unused :
       /\ saved[d] = None /\ stored[d] = None /\ staged[d] = {} /\ d \notin unsaved
       /\ \A o \in UnderWay : o.kind \in DraftKinds => o.id # d

\* A draft to be deleted is no longer listed.
Deleted == \A o \in UnderWay : o.kind = "delete" => saved[o.id] = None

\* Revisions only rise, up to the one listed.
Raised == \A o \in UnderWay : o.kind = "save" /\ saved[o.id] # None => o.version.rev <= saved[o.id].rev
Rising ==
    \A o, p \in UnderWay :
       o.kind = "save" /\ p.kind = "save" /\ o.id = p.id /\ o.n <= p.n => o.version.rev <= p.version.rev

\* The deletion of a draft is the last that is asked of it, and what waits for a
\* draft no longer listed waits for its deletion too.
Final ==
    \A o, p \in Pending :
       o.kind = "delete" /\ p.kind \in {"save", "stage", "delete"} /\ p.id = o.id => p.n <= o.n
Doomed ==
    \A o \in Pending : o.kind \in {"save", "stage"} /\ saved[o.id] = None
                         => \E p \in Pending : p.kind = "delete" /\ p.id = o.id

\* The last save that waits writes what is listed; where none waits it is written.
Writes(o, d) == o.kind \in {"save", "delete"} /\ o.id = d
Upcoming ==
    \A o \in Pending :
       o.kind = "save" /\ (\A p \in Pending : Writes(p, o.id) => p.n <= o.n) => saved[o.id] = o.version
Settled ==
    worker = "up" /\ catalog = "ready" =>
       \A d \in Drafts \ unsaved : (\A o \in Pending : ~Writes(o, d)) => stored[d] = saved[d]

Projected == Unborn /\ Deleted /\ Raised /\ Rising /\ Final /\ Doomed /\ Upcoming /\ Settled

\* A staged file is not drawn, on its way into the draft, in the draft, or on its
\* way out; while it is in the draft it is on disk.
Attached(d, f) == saved[d] # None /\ f \in saved[d].files

Nowhere(f) == \A d \in Drafts : ~Attached(d, f)
Undrawn ==
    \A f \in fresh :
       /\ Nowhere(f) /\ f \notin litter /\ \A d \in Drafts : f \notin staged[d]
       /\ \A o \in UnderWay : o.kind \in {"stage", "remove"} => o.file # f
OneDraft == \A d, e \in Drafts : \A f : Attached(d, f) /\ Attached(e, f) => d = e
OneArrival ==
    \A o, p \in UnderWay : o.kind = "stage" /\ p.kind = "stage" /\ o.file = p.file => o.n = p.n
Arriving == /\ \A o \in UnderWay : o.kind = "stage" => Nowhere(o.file)
            /\ \A o \in Pending \cup Done : o.kind = "stage" => o.file \notin litter
NotBoth ==
    \A o \in UnderWay, p \in Pending :
       o.kind = "stage" /\ p.kind = "remove" => o.file # p.file
Leaving == \A o \in Pending : o.kind = "remove" => Nowhere(o.file)
Littered == \A f \in litter : Nowhere(f)
Arrived == \A o \in Done : o.kind = "stage" /\ saved[o.id] # None => o.file \in staged[o.id]
Present == \A d \in Drafts : saved[d] # None => saved[d].files \subseteq staged[d]

Located ==
    /\ Undrawn /\ OneDraft /\ OneArrival /\ Arriving /\ NotBoth /\ Leaving /\ Littered
    /\ Arrived /\ Present

\* A file on disk is in its draft, or something will still see to it.
Justified(d, f) ==
    \/ f \in litter
    \/ Attached(d, f)
    \/ \E o \in Done : o.kind = "stage" /\ o.id = d /\ o.file = f
    \/ \E o \in Pending : o.kind = "remove" /\ o.id = d /\ o.file = f
    \/ \E o \in Pending : o.kind = "delete" /\ o.id = d
    \/ saved[d] = None /\ d \in unsaved
NoneLeft == worker = "up" => \A d \in Drafts : \A f \in staged[d] : Justified(d, f)

\* Once the latest save is acknowledged, every listed draft is on disk.
Synced == /\ \A o \in Pending : o.kind # "save"
          /\ \A d \in Drafts \ unsaved : saved[d] # None => stored[d] = saved[d]
Acknowledged ==
    /\ latest # None => \A o \in Pending : o.kind = "save" => o.n <= latest
    /\ saveState = "saved" => Synced
    /\ \A o \in Done : o.kind = "save" /\ o.n = latest => Synced

\* What the save that a close waits for writes, and what an acknowledged save wrote.
Closing ==
    /\ pendingClose # None => asked # None /\ saved[asked.id] # None /\ composer.mode # "sending"
    /\ \A o \in UnderWay : o.kind = "save" /\ o.n = pendingClose => o.id = asked.id /\ o.version = asked.version
Written ==
    \A o \in Done : o.kind = "save" /\ saved[o.id] # None
                      => stored[o.id] # None /\ o.version.rev <= stored[o.id].rev

DraftInv ==
    /\ Shapes /\ InOrder /\ Restored /\ Open /\ Projected /\ Located /\ NoneLeft
    /\ Acknowledged /\ Closing /\ Written

-----------------------------------------------------------------------------
(* What is under way                                                          *)

LEMMA UnderWayIs ==
  ASSUME Shapes, InOrder
  PROVE  /\ \A o \in UnderWay :
               /\ WellFormed(o) /\ o.n \in Nat /\ o.n < nextOp /\ o.kind \in OpKinds
               /\ o.kind \in DraftKinds => o.id \in Drafts
               /\ o.kind = "save" => o.version \in Revisions /\ o.version # None /\ o.version.rev \in Nat
               /\ o.kind \in {"stage", "remove"} => o.file \in Files
         /\ Pending \subseteq UnderWay /\ Done \subseteq UnderWay
         /\ worker # "up" => Pending = {}
  <1>1. \A o \in UnderWay : WellFormed(o) /\ o.n < nextOp
    BY DEF UnderWay, Pending, Waiting, Answers, InOrder, Ordered, GoodEvent
  <1>2. \A o : WellFormed(o) =>
               /\ o.n \in Nat /\ o.kind \in OpKinds
               /\ o.kind \in DraftKinds => o.id \in Drafts
               /\ o.kind = "save" => o.version \in Revisions /\ o.version # None /\ o.version.rev \in Nat
               /\ o.kind \in {"stage", "remove"} => o.file \in Files
    BY NoneAssumption DEF WellFormed, Operation, Revisions, DraftKinds
  <1>3. Done \subseteq UnderWay
    BY DEF UnderWay, Done, Answers, Answering
  <1>4. worker # "up" => Pending = {}
    <2>1. Waiting(<<>>, <<>>) = {}
      BY DropAll DEF InOrder, Waiting
    <2> QED  BY <2>1 DEF Pending, InOrder
  <1> QED  BY <1>1, <1>2, <1>3, <1>4 DEF UnderWay

\* What the catalogs hold.
LEMMA CatalogsHold ==
  ASSUME Shapes
  PROVE  /\ \A d \in Drafts :
               /\ saved[d] # None => saved[d] \in Revisions /\ saved[d].rev \in Nat /\ saved[d].files \subseteq Files
               /\ stored[d] # None => stored[d] \in Revisions /\ stored[d].rev \in Nat /\ stored[d].files \subseteq Files
         /\ None \notin Revisions /\ None \notin Nat /\ Blank \in Revisions
         /\ Closed.mode = "closed" /\ Closed \notin [mode : {"editing", "sending", "failed"}, id : Drafts, version : Revisions]
         /\ composer # Closed => /\ composer.id \in Drafts /\ composer.version \in Revisions
                                 /\ composer.mode \in {"editing", "sending", "failed"}
                                 /\ composer.version.rev \in Nat /\ composer.version.files \subseteq Files
  <1>1. None \notin Revisions /\ None \notin Nat
    BY NoneAssumption DEF Revisions
  <1>2. Blank \in Revisions
    BY DEF Blank, Revisions
  <1>3. \A v \in Revisions : v.rev \in Nat /\ v.files \subseteq Files
    BY DEF Revisions
  <1>4. \A d \in Drafts : saved[d] \in Revisions \cup {None} /\ stored[d] \in Revisions \cup {None}
    BY DEF Shapes, Catalogs
  <1>5. composer # Closed => /\ composer.id \in Drafts /\ composer.version \in Revisions
                             /\ composer.mode \in {"editing", "sending", "failed"}
    BY DEF Shapes
  <1>6. Closed.mode = "closed" /\ Closed \notin [mode : {"editing", "sending", "failed"}, id : Drafts, version : Revisions]
    BY DEF Closed
  <1> QED  BY <1>1, <1>2, <1>3, <1>4, <1>5, <1>6

-----------------------------------------------------------------------------
(* What the drafts' operations keep of Projected                              *)

\* N is added to what is under way; something may be answered at the same time.
Adds(N) ==
    /\ Pending' = Pending \cup N
    /\ UnderWay' \subseteq UnderWay \cup N
    /\ worker # "up" => N = {}
    /\ worker' = worker

\* The actor leaves its first operation.
Leaves(op) ==
    /\ Pending = Pending' \cup {op}
    /\ \A o \in Pending' : op.n < o.n
    /\ UnderWay' \subseteq UnderWay
    /\ worker = "up" /\ worker' = worker

\* The worker is gone, and what waited with it.
Drops ==
    /\ Pending' = {} /\ UnderWay' \subseteq UnderWay
    /\ worker' # "up"

LEMMA ProjectedLoads ==
  ASSUME Shapes, InOrder, Projected, NEW N, Adds(N) \/ Drops, \A o \in N : o.kind \notin DraftKinds,
         UNCHANGED <<saved, stored, staged, unsaved, unused>>, catalog' = "ready" => catalog = "ready"
  PROVE  Projected'
  <1>1. Unborn'
    BY DEF Projected, Unborn, Adds, Drops
  <1>2. Deleted' /\ Raised' /\ Rising'
    BY DEF Projected, Deleted, Raised, Rising, Adds, Drops, DraftKinds
  <1>3. Final' /\ Doomed'
    BY DEF Projected, Final, Doomed, Adds, Drops, DraftKinds
  <1>4. Upcoming'
    BY DEF Projected, Upcoming, Writes, Adds, Drops, DraftKinds
  <1>5. Settled'
    BY DEF Projected, Settled, Writes, Adds, Drops, DraftKinds
  <1> QED  BY <1>1, <1>2, <1>3, <1>4, <1>5 DEF Projected

LEMMA ProjectedSave ==
  ASSUME Shapes, InOrder, Projected, NEW d \in Drafts, NEW v \in Revisions, NEW a, NEW N, Adds(N),
         a.kind = "save", a.id = d, a.version = v, a.n = nextOp,
         \A o \in N : o = a \/ (o.kind = "remove" /\ o.id = d), worker = "up" => a \in N,
         saved' = [saved EXCEPT ![d] = v], UNCHANGED <<stored, staged, unsaved, catalog>>,
         \/ d \in unused /\ unused' = unused \ {d}
         \/ saved[d] # None /\ saved[d].rev < v.rev /\ unused' = unused
  PROVE  Projected'
  <1>0. /\ \A o \in UnderWay : o.n \in Nat /\ o.n < nextOp /\ o.kind \in OpKinds
        /\ \A o \in UnderWay : o.kind = "save" => o.version.rev \in Nat
        /\ Pending \subseteq UnderWay /\ nextOp \in Nat /\ v.rev \in Nat /\ v # None
    BY UnderWayIs, CatalogsHold DEF Shapes, Revisions
  <1>1. saved'[d] = v /\ \A x \in Drafts : x # d => saved'[x] = saved[x]
    BY DEF Shapes, Catalogs
  <1>2. \A o \in UnderWay : o.kind \in DraftKinds => o.id \in Drafts
    BY UnderWayIs
  <1>3. \A o \in UnderWay : o.kind = "delete" => o.id # d
    BY DEF Projected, Unborn, Deleted, DraftKinds
  <1>4. \A o \in UnderWay : o.kind = "save" /\ o.id = d => o.version.rev < v.rev
    <2> SUFFICES ASSUME NEW o \in UnderWay, o.kind = "save", o.id = d
                 PROVE  o.version.rev < v.rev
      OBVIOUS
    <2>1. d \notin unused
      BY DEF Projected, Unborn, DraftKinds
    <2>2. saved[d] # None /\ saved[d].rev < v.rev /\ o.version.rev <= saved[d].rev /\ saved[d].rev \in Nat
      BY <2>1, CatalogsHold DEF Projected, Raised
    <2> QED  BY <2>2, <1>0
  <1>5. Unborn'
    <2>1. \A x \in unused' : x \in unused /\ x # d /\ x \in Drafts
      BY DEF Projected, Unborn, Shapes
    <2> QED  BY <2>1, <1>1 DEF Projected, Unborn, Adds, DraftKinds
  <1>6. Deleted'
    BY <1>1, <1>2, <1>3 DEF Projected, Deleted, Adds, DraftKinds
  <1>7. Raised'
    BY <1>0, <1>1, <1>2, <1>4 DEF Projected, Raised, Adds, DraftKinds
  <1>8. Rising'
    BY <1>0, <1>4 DEF Projected, Rising, Adds
  <1>9. Final'
    BY <1>0, <1>3 DEF Projected, Final, Adds
  <1>10. Doomed'
    <2> SUFFICES ASSUME NEW o \in Pending', o.kind \in {"save", "stage"}, saved'[o.id] = None
                 PROVE  \E p \in Pending' : p.kind = "delete" /\ p.id = o.id
      BY DEF Doomed
    <2>1. o \in Pending /\ o.id # d
      BY <1>0, <1>1 DEF Adds
    <2>2. saved[o.id] = None
      BY <2>1, <1>0, <1>1, <1>2 DEF DraftKinds
    <2> QED  BY <2>1, <2>2 DEF Projected, Doomed, Adds
  <1>11. Upcoming'
    <2> SUFFICES ASSUME NEW o \in Pending', o.kind = "save", \A p \in Pending' : Writes(p, o.id) => p.n <= o.n
                 PROVE  saved'[o.id] = o.version
      BY DEF Upcoming
    <2>1. CASE o = a  BY <2>1, <1>1
    <2>2. CASE o \in Pending
      <3>1. worker = "up" /\ a \in Pending'
        BY <2>2, UnderWayIs DEF Adds
      <3>2. o.id # d
        BY <3>1, <2>2, <1>0 DEF Writes
      <3>3. saved[o.id] = o.version
        BY <2>2 DEF Projected, Upcoming, Adds
      <3> QED  BY <3>2, <3>3, <2>2, <1>0, <1>1, <1>2 DEF DraftKinds
    <2> QED  BY <2>1, <2>2 DEF Adds
  <1>12. Settled'
    BY <1>1 DEF Projected, Settled, Writes, Adds
  <1> QED  BY <1>5, <1>6, <1>7, <1>8, <1>9, <1>10, <1>11, <1>12 DEF Projected

LEMMA ProjectedDelete ==
  ASSUME Shapes, InOrder, Projected, NEW d \in Drafts, NEW a, Adds(IF worker = "up" THEN {a} ELSE {}),
         a.kind = "delete", a.id = d, a.n = nextOp,
         saved[d] # None, saved' = [saved EXCEPT ![d] = None],
         UNCHANGED <<stored, staged, unsaved, catalog, unused>>
  PROVE  Projected'
  <1> DEFINE N == IF worker = "up" THEN {a} ELSE {}
  <1>0. /\ \A o \in UnderWay : o.n \in Nat /\ o.n < nextOp
        /\ Pending \subseteq UnderWay /\ nextOp \in Nat
        /\ \A o \in N : o = a
        /\ worker = "up" => a \in N
        /\ worker # "up" => Pending = {}
    BY UnderWayIs DEF Shapes
  <1>1. saved'[d] = None /\ \A x \in Drafts : x # d => saved'[x] = saved[x]
    BY DEF Shapes, Catalogs
  <1>2. \A o \in UnderWay : o.kind \in DraftKinds => o.id \in Drafts
    BY UnderWayIs
  <1>3. \A o \in UnderWay : o.kind = "delete" => o.id # d
    BY DEF Projected, Deleted
  <1>4. Adds(N)
    OBVIOUS
  <1> HIDE DEF N
  <1>5. Unborn'
    <2>1. \A x \in unused' : x \in unused /\ x # d /\ x \in Drafts
      BY DEF Projected, Unborn, Shapes
    <2> QED  BY <2>1, <1>0, <1>1, <1>4 DEF Projected, Unborn, Adds, DraftKinds
  <1>6. Deleted' /\ Raised'
    BY <1>0, <1>1, <1>2, <1>4 DEF Projected, Deleted, Raised, Adds, DraftKinds
  <1>7. Rising'
    BY <1>0, <1>4 DEF Projected, Rising, Adds
  <1>8. Final'
    BY <1>0, <1>3, <1>4 DEF Projected, Final, Adds
  <1>9. Doomed'
    BY <1>0, <1>1, <1>2, <1>4 DEF Projected, Doomed, Adds, DraftKinds
  <1>10. Upcoming'
    <2> SUFFICES ASSUME NEW o \in Pending', o.kind = "save", \A p \in Pending' : Writes(p, o.id) => p.n <= o.n
                 PROVE  saved'[o.id] = o.version
      BY DEF Upcoming
    <2>1. o \in Pending /\ worker = "up" /\ a \in Pending'
      BY <1>0, <1>4 DEF Adds
    <2>2. o.id # d
      BY <2>1, <1>0 DEF Writes
    <2>3. saved[o.id] = o.version
      BY <2>1, <1>4 DEF Projected, Upcoming, Adds
    <2> QED  BY <2>1, <2>2, <2>3, <1>0, <1>1, <1>2 DEF DraftKinds
  <1>11. Settled'
    BY <1>0, <1>1, <1>4 DEF Projected, Settled, Writes, Adds
  <1> QED  BY <1>5, <1>6, <1>7, <1>8, <1>9, <1>10, <1>11 DEF Projected

\* A file to be staged or removed.
LEMMA ProjectedFile ==
  ASSUME Shapes, InOrder, Projected, NEW d \in Drafts, NEW a, NEW N, Adds(N), \A o \in N : o = a,
         \/ a.kind = "stage" /\ saved[d] # None
         \/ a.kind = "remove",
         a.id = d, d \notin unused,
         UNCHANGED <<saved, stored, staged, unsaved, catalog, unused>>
  PROVE  Projected'
  <1>0. Pending \subseteq UnderWay
    BY UnderWayIs
  <1>1. Unborn'
    BY DEF Projected, Unborn, Adds
  <1>2. Deleted' /\ Raised' /\ Rising'
    BY DEF Projected, Deleted, Raised, Rising, Adds
  <1>3. Final'
    BY <1>0 DEF Projected, Final, Deleted, Adds
  <1>4. Doomed'
    BY DEF Projected, Doomed, Adds
  <1>5. Upcoming'
    BY DEF Projected, Upcoming, Writes, Adds
  <1>6. Settled'
    BY DEF Projected, Settled, Writes, Adds
  <1> QED  BY <1>1, <1>2, <1>3, <1>4, <1>5, <1>6 DEF Projected

\* The directories of the other drafts stay as they are.
Touches(op) ==
    \A d \in Drafts : op.kind \notin DraftKinds \/ d # op.id =>
       stored'[d] = stored[d] /\ staged'[d] = staged[d] /\ (d \in unsaved' <=> d \in unsaved)

\* Skipped, run, or failed.
LEMMA ProjectedRun ==
  ASSUME Shapes, InOrder, Projected, NEW op, Leaves(op), Touches(op),
         UNCHANGED <<saved, unused, catalog>>,
         \/ op.kind = "save" /\ \E p \in Pending' : p.kind = "save" /\ p.id = op.id
         \/ op.kind = "save" /\ stored'[op.id] = op.version
         \/ op.kind = "delete" /\ stored'[op.id] = None
         \/ op.kind \in {"save", "delete"} /\ op.id \in unsaved'
         \/ op.kind \notin {"save", "delete"} /\ UNCHANGED <<stored, unsaved>>
  PROVE  Projected'
  <1>0. /\ Pending \subseteq UnderWay /\ op \in Pending /\ op \in UnderWay /\ Pending' \subseteq Pending
        /\ \A o \in UnderWay : o.n \in Nat /\ (o.kind \in DraftKinds => o.id \in Drafts)
        /\ unused \subseteq Drafts
    BY UnderWayIs DEF Leaves, Shapes
  <1>1. Unborn'
    <2> SUFFICES ASSUME NEW d \in unused
                 PROVE  /\ saved[d] = None /\ stored'[d] = None /\ staged'[d] = {} /\ d \notin unsaved'
                        /\ \A o \in UnderWay' : o.kind \in DraftKinds => o.id # d
      BY DEF Unborn
    <2>1. op.kind \notin DraftKinds \/ d # op.id
      BY <1>0 DEF Projected, Unborn
    <2> QED  BY <1>0, <2>1 DEF Projected, Unborn, Touches, Leaves
  <1>2. Deleted' /\ Raised' /\ Rising'
    BY DEF Projected, Deleted, Raised, Rising, Leaves
  <1>3. Final'
    BY <1>0 DEF Projected, Final
  <1>4. Doomed'
    <2> SUFFICES ASSUME NEW o \in Pending', o.kind \in {"save", "stage"}, saved[o.id] = None
                 PROVE  \E p \in Pending' : p.kind = "delete" /\ p.id = o.id
      BY DEF Doomed
    <2>1. PICK p \in Pending : p.kind = "delete" /\ p.id = o.id
      BY <1>0 DEF Projected, Doomed
    <2>2. o \in Pending /\ op.n < o.n /\ op.n \in Nat /\ o.n \in Nat
      BY <1>0 DEF Leaves
    <2>3. o.n <= p.n
      BY <2>1, <2>2 DEF Projected, Final
    <2>4. p # op
      BY <2>2, <2>3
    <2> QED  BY <2>1, <2>4 DEF Leaves
  <1>5. Upcoming'
    <2> SUFFICES ASSUME NEW o \in Pending', o.kind = "save", \A p \in Pending' : Writes(p, o.id) => p.n <= o.n
                 PROVE  saved[o.id] = o.version
      BY DEF Upcoming
    <2>1. \A p \in Pending : Writes(p, o.id) => p.n <= o.n
      BY <1>0 DEF Leaves
    <2> QED  BY <2>1, <1>0 DEF Projected, Upcoming
  <1>6. Settled'
    <2> SUFFICES ASSUME catalog = "ready", NEW d \in Drafts \ unsaved', \A o \in Pending' : ~Writes(o, d)
                 PROVE  stored'[d] = saved[d]
      BY DEF Settled
    <2>1. CASE Writes(op, d)
      <3>0. op.kind \in {"save", "delete"} /\ op.id = d /\ d \notin unsaved'
        BY <2>1 DEF Writes
      <3>1. \A p \in Pending' : ~(p.kind = "save" /\ p.id = op.id)
        BY <3>0 DEF Writes
      <3>2. \/ op.kind = "save" /\ stored'[d] = op.version
            \/ op.kind = "delete" /\ stored'[d] = None
        BY <3>0, <3>1
      <3>3. op.kind = "save" => saved[d] = op.version
        <4>1. \A p \in Pending : Writes(p, d) => p = op
          BY DEF Leaves
        <4> QED  BY <4>1, <3>0, <1>0 DEF Projected, Upcoming
      <3>4. op.kind = "delete" => saved[d] = None
        BY <3>0, <1>0 DEF Projected, Deleted
      <3> QED  BY <3>2, <3>3, <3>4
    <2>2. CASE ~Writes(op, d)
      <3>1. \A o \in Pending : ~Writes(o, d)
        BY <2>2 DEF Leaves
      <3>2. stored'[d] = stored[d] /\ d \notin unsaved
        <4>1. CASE op.kind \in {"save", "delete"}
          <5>1. d # op.id
            BY <4>1, <2>2 DEF Writes
          <5> QED  BY <5>1 DEF Touches
        <4>2. CASE op.kind \notin {"save", "delete"}
          BY <4>2
        <4> QED  BY <4>1, <4>2
      <3> QED  BY <3>1, <3>2 DEF Projected, Settled, Leaves
    <2> QED  BY <2>1, <2>2
  <1> QED  BY <1>1, <1>2, <1>3, <1>4, <1>5, <1>6 DEF Projected

-----------------------------------------------------------------------------
(* Where the staged files are                                                 *)

\* Loads, answers that are no stagings, and drafts that are no longer listed
\* move no file.
LEMMA LocatedLoads ==
  ASSUME Shapes, InOrder, Located, NEW N, Adds(N) \/ Drops, \A o \in N : o.kind \notin {"stage", "remove"},
         Done' \subseteq Done,
         \A d \in Drafts : saved'[d] # None => saved[d] # None /\ saved'[d].files = saved[d].files,
         UNCHANGED <<staged, litter>>, fresh' \subseteq fresh
  PROVE  Located'
  <1>0. /\ Pending \subseteq UnderWay /\ Done \subseteq UnderWay
        /\ \A d \in Drafts : \A f : Attached(d, f)' => Attached(d, f)
        /\ \A f : Nowhere(f) => Nowhere(f)'
    BY UnderWayIs DEF Attached, Nowhere
  <1>1. Undrawn' /\ OneDraft' /\ Littered'
    BY <1>0 DEF Located, Undrawn, OneDraft, Littered, Adds, Drops
  <1>2. OneArrival' /\ Arriving'
    BY <1>0 DEF Located, OneArrival, Arriving, Adds, Drops
  <1>3. NotBoth' /\ Leaving'
    BY <1>0 DEF Located, NotBoth, Leaving, Adds, Drops
  <1>4. Arrived'
    <2>1. \A o \in UnderWay : o.kind = "stage" => o.id \in Drafts
      BY UnderWayIs DEF DraftKinds
    <2> QED  BY <2>1, <1>0 DEF Located, Arrived
  <1>5. Present'
    BY DEF Located, Present
  <1> QED  BY <1>1, <1>2, <1>3, <1>4, <1>5 DEF Located

\* A save of the same files, or of none for a new draft.
LEMMA LocatedSave ==
  ASSUME Shapes, InOrder, Projected, Located, NEW d \in Drafts, NEW v \in Revisions, NEW N, Adds(N),
         \A o \in N : o.kind = "save", Done' = Done,
         saved' = [saved EXCEPT ![d] = v], UNCHANGED <<staged, litter, fresh>>,
         \/ d \in unused /\ v.files = {}
         \/ saved[d] # None /\ v.files = saved[d].files
  PROVE  Located'
  <1>1. saved'[d] = v /\ v # None /\ \A x \in Drafts : x # d => saved'[x] = saved[x]
    BY CatalogsHold DEF Shapes, Catalogs
  <1>0. /\ Pending \subseteq UnderWay /\ Done \subseteq UnderWay
        /\ \A x \in Drafts : \A f : Attached(x, f)' => Attached(x, f)
        /\ \A f : Nowhere(f) => Nowhere(f)'
    BY <1>1, UnderWayIs DEF Attached, Nowhere
  <1>2. Undrawn' /\ OneDraft' /\ Littered'
    BY <1>0 DEF Located, Undrawn, OneDraft, Littered, Adds
  <1>3. OneArrival' /\ Arriving' /\ NotBoth' /\ Leaving'
    BY <1>0 DEF Located, OneArrival, Arriving, NotBoth, Leaving, Adds
  <1>4. \A o \in UnderWay : o.kind = "stage" /\ o.id = d => saved[d] # None
    BY DEF Projected, Unborn, DraftKinds
  <1>5. Arrived'
    <2>1. \A o \in UnderWay : o.kind = "stage" => o.id \in Drafts
      BY UnderWayIs DEF DraftKinds
    <2> QED  BY <2>1, <1>0, <1>1, <1>4 DEF Located, Arrived
  <1>6. Present'
    BY <1>1 DEF Located, Present
  <1> QED  BY <1>2, <1>3, <1>5, <1>6 DEF Located

\* A file is staged.
LEMMA LocatedStage ==
  ASSUME Shapes, InOrder, Located, NEW f \in fresh, NEW a, NEW N, Adds(N), \A o \in N : o = a,
         a.kind = "stage", a.id \in Drafts, a.file = f, a.n = nextOp,
         Done' = Done, fresh' = fresh \ {f}, UNCHANGED <<saved, staged, litter>>
  PROVE  Located'
  <1>0. /\ Pending \subseteq UnderWay /\ Done \subseteq UnderWay
        /\ \A d : \A g : Attached(d, g)' <=> Attached(d, g)
        /\ \A g : Nowhere(g)' <=> Nowhere(g)
    BY UnderWayIs DEF Attached, Nowhere
  <1>1. Undrawn' /\ OneDraft' /\ Littered'
    BY <1>0 DEF Located, Undrawn, OneDraft, Littered, Adds
  <1>2. OneArrival' /\ Arriving'
    BY <1>0 DEF Located, Undrawn, OneArrival, Arriving, Adds
  <1>3. NotBoth' /\ Leaving'
    BY <1>0 DEF Located, Undrawn, NotBoth, Leaving, Adds
  <1>4. Arrived' /\ Present'
    BY DEF Located, Arrived, Present
  <1> QED  BY <1>1, <1>2, <1>3, <1>4 DEF Located

\* A file leaves the draft; its removal follows the save.
LEMMA LocatedRemove ==
  ASSUME Shapes, InOrder, Located, NEW d \in Drafts, NEW v \in Revisions, NEW f, NEW N, Adds(N),
         \A o \in N : o.kind = "save" \/ (o.kind = "remove" /\ o.id = d /\ o.file = f), Done' = Done,
         saved[d] # None, f \in saved[d].files, v.files = saved[d].files \ {f},
         saved' = [saved EXCEPT ![d] = v], UNCHANGED <<staged, litter, fresh>>
  PROVE  Located'
  <1>1. saved'[d] = v /\ v # None /\ \A x \in Drafts : x # d => saved'[x] = saved[x]
    BY CatalogsHold DEF Shapes, Catalogs
  <1>0. /\ Pending \subseteq UnderWay /\ Done \subseteq UnderWay
        /\ \A x \in Drafts : \A g : Attached(x, g)' => Attached(x, g) /\ (x = d => g # f)
        /\ \A g : Nowhere(g) => Nowhere(g)'
        /\ Attached(d, f) /\ ~Nowhere(f)
    BY <1>1, UnderWayIs DEF Attached, Nowhere
  <1>a. Nowhere(f)'
    BY <1>0 DEF Located, OneDraft, Nowhere
  <1>2. Undrawn' /\ OneDraft' /\ Littered'
    BY <1>0 DEF Located, Undrawn, OneDraft, Littered, Adds
  <1>3. OneArrival' /\ Arriving'
    BY <1>0 DEF Located, OneArrival, Arriving, Adds
  <1>4. NotBoth' /\ Leaving'
    BY <1>0, <1>a DEF Located, Arriving, NotBoth, Leaving, Adds
  <1>5. Arrived'
    <2>1. \A o \in UnderWay : o.kind = "stage" => o.id \in Drafts
      BY UnderWayIs DEF DraftKinds
    <2> QED  BY <2>1, <1>0, <1>1 DEF Located, Arrived
  <1>6. Present'
    BY <1>1 DEF Located, Present
  <1> QED  BY <1>2, <1>3, <1>4, <1>5, <1>6 DEF Located

\* The composer takes a staged file into its draft.
LEMMA LocatedAttach ==
  ASSUME Shapes, InOrder, Located, NEW d \in Drafts, NEW v \in Revisions, NEW op \in Done, NEW N, Adds(N),
         \A o \in N : o.kind = "save", \A o \in UnderWay' : o \in N \/ op.n < o.n, Done' \subseteq Done,
         op.kind = "stage", op.id = d, saved[d] # None, v.files = saved[d].files \cup {op.file},
         saved' = [saved EXCEPT ![d] = v], UNCHANGED <<staged, litter, fresh>>
  PROVE  Located'
  <1>1. saved'[d] = v /\ v # None /\ \A x \in Drafts : x # d => saved'[x] = saved[x]
    BY CatalogsHold DEF Shapes, Catalogs
  <1>0. /\ Pending \subseteq UnderWay /\ Done \subseteq UnderWay
        /\ \A x \in Drafts : \A g : Attached(x, g)' => Attached(x, g) \/ (x = d /\ g = op.file)
        /\ \A g : Nowhere(g) /\ g # op.file => Nowhere(g)'
        /\ op.file \notin fresh /\ op.file \notin litter /\ Nowhere(op.file) /\ op \in UnderWay
    BY <1>1, UnderWayIs DEF Attached, Nowhere, Located, Undrawn, Arriving
  <1>2. \A o \in UnderWay' : o.kind = "stage" => o \in UnderWay /\ o.file # op.file
    <2> SUFFICES ASSUME NEW o \in UnderWay', o.kind = "stage"
                 PROVE  o \in UnderWay /\ o.file # op.file
      OBVIOUS
    <2>1. o \in UnderWay /\ op.n < o.n
      BY DEF Adds
    <2>2. op.n \in Nat /\ o.n \in Nat
      BY <2>1, <1>0, UnderWayIs
    <2> QED  BY <2>1, <2>2, <1>0 DEF Located, OneArrival
  <1>3. Undrawn' /\ Littered'
    BY <1>0 DEF Located, Undrawn, Littered, Adds
  <1>4. OneDraft'
    BY <1>0 DEF Located, OneDraft, Nowhere
  <1>5. OneArrival' /\ Arriving'
    BY <1>0, <1>2 DEF Located, OneArrival, Arriving, Adds
  <1>6. NotBoth' /\ Leaving'
    BY <1>0, <1>2 DEF Located, NotBoth, Leaving, Adds
  <1>7. Arrived'
    <2>1. \A o \in UnderWay : o.kind = "stage" => o.id \in Drafts
      BY UnderWayIs DEF DraftKinds
    <2> QED  BY <2>1, <1>0, <1>1 DEF Located, Arrived
  <1>8. Present'
    BY <1>1 DEF Located, Present, Arrived
  <1> QED  BY <1>3, <1>4, <1>5, <1>6, <1>7, <1>8 DEF Located

\* No composer takes it: it is to be removed again.
LEMMA LocatedDetach ==
  ASSUME Shapes, InOrder, Located, NEW op \in Done, NEW a, NEW N, Adds(N),
         \A o \in N : o = a, a.kind = "remove", a.id = op.id, a.file = op.file,
         \A o \in UnderWay' : o \in N \/ op.n < o.n, Done' \subseteq Done,
         op.kind = "stage", UNCHANGED <<saved, staged, litter, fresh>>
  PROVE  Located'
  <1>0. /\ Pending \subseteq UnderWay /\ Done \subseteq UnderWay
        /\ \A x : \A g : Attached(x, g)' <=> Attached(x, g)
        /\ \A g : Nowhere(g)' <=> Nowhere(g)
        /\ op.file \notin fresh /\ Nowhere(op.file) /\ op \in UnderWay
    BY UnderWayIs DEF Attached, Nowhere, Located, Undrawn, Arriving
  <1>2. \A o \in UnderWay' : o.kind = "stage" => o \in UnderWay /\ o.file # op.file
    <2> SUFFICES ASSUME NEW o \in UnderWay', o.kind = "stage"
                 PROVE  o \in UnderWay /\ o.file # op.file
      OBVIOUS
    <2>1. o \in UnderWay /\ op.n < o.n
      BY DEF Adds
    <2>2. op.n \in Nat /\ o.n \in Nat
      BY <2>1, <1>0, UnderWayIs
    <2> QED  BY <2>1, <2>2, <1>0 DEF Located, OneArrival
  <1>3. Undrawn' /\ OneDraft' /\ Littered'
    BY <1>0 DEF Located, Undrawn, OneDraft, Littered, Adds
  <1>4. OneArrival' /\ Arriving'
    BY <1>0, <1>2 DEF Located, OneArrival, Arriving, Adds
  <1>5. NotBoth' /\ Leaving'
    BY <1>0, <1>2 DEF Located, NotBoth, Leaving, Adds
  <1>6. Arrived' /\ Present'
    BY DEF Located, Arrived, Present
  <1> QED  BY <1>3, <1>4, <1>5, <1>6 DEF Located

\* What the actor does to the files of a draft.
LEMMA LocatedRun ==
  ASSUME Shapes, InOrder, Deleted, Located, NEW op, Leaves(op), Touches(op), Done' \subseteq Done \cup {op},
         UNCHANGED <<saved, fresh>>, staged' \in [Drafts -> SUBSET Files],
         \A o \in Done : o.n < op.n,
         \/ litter' = litter
         \/ op.kind = "remove" /\ litter' = litter \cup {op.file}
         \/ op.kind = "stage" /\ litter' = litter \cup {op.file} /\ Done' = Done,
         \/ staged' = staged /\ (op.kind # "stage" \/ Done' \subseteq Done)
         \/ op.kind = "delete" /\ staged'[op.id] \subseteq staged[op.id]
         \/ op.kind = "stage" /\ staged'[op.id] = staged[op.id] \cup {op.file}
         \/ op.kind = "remove" /\ staged'[op.id] = staged[op.id] \ {op.file}
  PROVE  Located'
  <1>0. /\ Pending \subseteq UnderWay /\ Done \subseteq UnderWay
        /\ \A x : \A g : Attached(x, g)' <=> Attached(x, g)
        /\ \A g : Nowhere(g)' <=> Nowhere(g)
        /\ op \in Pending /\ op \in UnderWay /\ Pending' \subseteq Pending /\ UnderWay' \subseteq UnderWay
        /\ \A o \in UnderWay : o.kind \in DraftKinds => o.id \in Drafts
    BY UnderWayIs DEF Attached, Nowhere, Leaves
  <1>1. \A d \in Drafts : op.kind \notin DraftKinds \/ d # op.id => staged'[d] = staged[d]
    BY DEF Touches
  <1>2. Undrawn'
    <2> SUFFICES ASSUME NEW f \in fresh
                 PROVE  f \notin litter' /\ \A d \in Drafts : f \notin staged'[d]
      BY <1>0 DEF Located, Undrawn
    <2>1. f \notin litter /\ (op.kind \in {"stage", "remove"} => op.file # f) /\ \A d \in Drafts : f \notin staged[d]
      BY <1>0 DEF Located, Undrawn
    <2>2. f \notin litter'
      BY <2>1
    <2>3. \A d \in Drafts : f \notin staged'[d]
      BY <1>1, <2>1
    <2> QED  BY <2>2, <2>3
  <1>3. OneArrival' /\ Arriving'
    <2>1. OneArrival'
      BY <1>0 DEF Located, OneArrival
    <2>2. op.kind = "remove" => \A o \in UnderWay : o.kind = "stage" => o.file # op.file
      BY <1>0 DEF Located, NotBoth
    <2>3. op.kind = "stage" => \A o \in Pending' \cup Done : o.kind = "stage" => o.file # op.file
      <3> SUFFICES ASSUME op.kind = "stage", NEW o \in Pending' \cup Done, o.kind = "stage", o.file = op.file
                   PROVE  FALSE
        OBVIOUS
      <3>1. o \in UnderWay /\ o.n \in Nat /\ op.n \in Nat
        BY <1>0, UnderWayIs
      <3>2. o.n = op.n
        BY <1>0, <3>1 DEF Located, OneArrival
      <3>3. o.n < op.n \/ op.n < o.n
        BY DEF Leaves
      <3> QED  BY <3>1, <3>2, <3>3
    <2>4. ASSUME NEW o \in Pending' \cup Done', o.kind = "stage" PROVE o.file \notin litter'
      <3>1. o \in Pending \cup Done /\ o.file \notin litter
        BY <2>4, <1>0 DEF Located, Arriving
      <3> QED  BY <2>2, <2>3, <2>4, <3>1, <1>0
    <2>5. Arriving'
      BY <2>4, <1>0 DEF Located, Arriving
    <2> QED  BY <2>1, <2>5
  <1>4. NotBoth' /\ Leaving' /\ OneDraft'
    BY <1>0 DEF Located, NotBoth, Leaving, OneDraft
  <1>a. Littered'
    <2>1. op.kind \in {"stage", "remove"} => Nowhere(op.file)
      BY <1>0 DEF Located, Leaving, Arriving
    <2> QED  BY <2>1, <1>0 DEF Located, Littered
  <1>5. Arrived'
    <2> SUFFICES ASSUME NEW o \in Done', o.kind = "stage", saved[o.id] # None
                 PROVE  o.file \in staged'[o.id]
      BY DEF Arrived
    <2>1. CASE o = op
      BY <2>1, <1>0, <1>1 DEF Located, Arrived, DraftKinds
    <2>2. CASE o \in Done /\ o # op
      <3>1. o.file \in staged[o.id] /\ o \in UnderWay /\ o.id \in Drafts
        BY <2>2, <1>0 DEF Located, Arrived, DraftKinds
      <3>2. op.kind = "delete" => o.id # op.id
        BY <1>0 DEF Deleted
      <3>3. op.kind = "remove" => o.file # op.file
        BY <1>0, <3>1 DEF Located, NotBoth
      <3> QED  BY <3>1, <3>2, <3>3, <1>1
    <2> QED  BY <2>1, <2>2
  <1>6. Present'
    <2> SUFFICES ASSUME NEW d \in Drafts, saved[d] # None, NEW f \in saved[d].files
                 PROVE  f \in staged'[d]
      BY DEF Present
    <2>1. f \in staged[d]
      BY DEF Located, Present
    <2>2. op.kind = "delete" => d # op.id
      BY <1>0 DEF Deleted
    <2>3. op.kind = "remove" => f # op.file
      BY <1>0 DEF Located, Leaving, Nowhere, Attached
    <2> QED  BY <2>1, <2>2, <2>3, <1>1
  <1> QED  BY <1>2, <1>3, <1>4, <1>a, <1>5, <1>6 DEF Located

-----------------------------------------------------------------------------
(* No file is left behind                                                     *)

LEMMA NoneLeftMoves ==
  ASSUME NoneLeft, NEW N, Adds(N) \/ Drops, UNCHANGED <<staged, unsaved, litter>>,
         worker = "up" =>
            /\ \A d \in Drafts : \A f \in staged[d] :
                  Attached(d, f) =>
                     \/ Attached(d, f)'
                     \/ \E o \in N : o.kind = "remove" /\ o.id = d /\ o.file = f
                     \/ \E o \in N : o.kind = "delete" /\ o.id = d
            /\ \A o \in Done : o.kind = "stage" =>
                  \/ o \in Done' \/ Attached(o.id, o.file)'
                  \/ \E p \in N : p.kind = "remove" /\ p.id = o.id /\ p.file = o.file
            /\ \A d \in Drafts : saved[d] = None /\ d \in unsaved => saved'[d] = None
  PROVE  NoneLeft'
  <1>1. CASE Drops  BY <1>1 DEF Drops, NoneLeft
  <1>2. CASE Adds(N)
    <2> SUFFICES ASSUME worker = "up", NEW d \in Drafts, NEW f \in staged[d]
                 PROVE  Justified(d, f)'
      BY <1>2 DEF NoneLeft, Adds
    <2>1. Justified(d, f)
      BY DEF NoneLeft
    <2>2. Pending \subseteq Pending' /\ N \subseteq Pending'
      BY <1>2 DEF Adds
    <2> QED  BY <2>1, <2>2 DEF Justified
  <1> QED  BY <1>1, <1>2

LEMMA NoneLeftRun ==
  ASSUME Shapes, InOrder, Projected, NoneLeft, NEW op, Leaves(op), UNCHANGED saved,
         litter \subseteq litter', Done \subseteq Done',
         \A d \in Drafts : \A f \in staged'[d] :
            \/ f \in staged[d]
            \/ op.kind = "stage" /\ op.id = d /\ op.file = f /\ (op \in Done' \/ f \in litter'),
         op.kind = "remove" => op.file \in litter' \/ op.file \notin staged'[op.id],
         op.kind = "delete" => op.id \in unsaved' \/ staged'[op.id] = {},
         \A d \in Drafts : d \in unsaved /\ d \notin unsaved' => op.kind \in {"save", "delete"} /\ op.id = d
  PROVE  NoneLeft'
  <1> SUFFICES ASSUME worker = "up", NEW d \in Drafts, NEW f \in staged'[d]
               PROVE  Justified(d, f)'
    BY DEF NoneLeft, Leaves
  <1>0. op \in Pending /\ op \in UnderWay /\ Pending' \subseteq Pending
    BY UnderWayIs DEF Leaves
  <1>1. CASE f \notin staged[d]
    BY <1>1 DEF Justified
  <1>2. CASE f \in staged[d]
    <2>0. Justified(d, f)
      BY <1>2 DEF NoneLeft
    <2>1. CASE f \in litter \/ Attached(d, f)
      BY <2>1 DEF Justified, Attached
    <2>2. CASE \E o \in Done : o.kind = "stage" /\ o.id = d /\ o.file = f
      BY <2>2 DEF Justified
    <2>3. CASE \E o \in Pending : o.kind = "remove" /\ o.id = d /\ o.file = f
      BY <2>3 DEF Justified, Leaves
    <2>4. CASE \E o \in Pending : o.kind = "delete" /\ o.id = d
      <3>1. CASE op.kind = "delete" /\ op.id = d
        <4>1. saved[d] = None
          BY <3>1, <1>0 DEF Projected, Deleted
        <4>2. d \in unsaved'
          BY <3>1
        <4> QED  BY <4>1, <4>2 DEF Justified
      <3>2. CASE ~(op.kind = "delete" /\ op.id = d)
        BY <2>4, <3>2 DEF Justified, Leaves
      <3> QED  BY <3>1, <3>2
    <2>5. CASE saved[d] = None /\ d \in unsaved
      <3>1. CASE d \in unsaved'
        BY <3>1, <2>5 DEF Justified
      <3>2. CASE d \notin unsaved' /\ op.kind = "save"
        <4>1. PICK p \in Pending : p.kind = "delete" /\ p.id = d
          BY <3>2, <2>5, <1>0 DEF Projected, Doomed
        <4>2. p \in Pending'
          BY <4>1, <3>2 DEF Leaves
        <4> QED  BY <4>1, <4>2 DEF Justified
      <3>3. CASE d \notin unsaved' /\ op.kind # "save"
        <4>1. op.kind = "delete" /\ op.id = d
          BY <3>3, <2>5
        <4> QED  BY <4>1, <3>3
      <3> QED  BY <3>1, <3>2, <3>3
    <2> QED  BY <2>0, <2>1, <2>2, <2>3, <2>4, <2>5 DEF Justified
  <1> QED  BY <1>1, <1>2

-----------------------------------------------------------------------------
(* What an acknowledged save says                                             *)

LEMMA AcknowledgedMoves ==
  ASSUME Shapes, InOrder, Acknowledged, NEW N, Adds(N) \/ Drops, \A o \in N : o.kind # "save",
         Done' \subseteq Done, UNCHANGED <<stored, unsaved>>,
         \A d \in Drafts : saved'[d] # None => saved'[d] = saved[d],
         latest' \in {latest, None}, saveState' = "saved" => saveState = "saved" \/ Synced
  PROVE  Acknowledged'
  <1>1. \A o \in Done : o.n # None
    BY UnderWayIs, CatalogsHold
  <1>2. Synced => Synced'
    BY DEF Synced, Adds, Drops
  <1>3. latest' # None => \A o \in Pending' : o.kind = "save" => o.n <= latest'
    BY DEF Acknowledged, Adds, Drops
  <1>4. saveState' = "saved" => Synced'
    BY <1>2 DEF Acknowledged
  <1>5. \A o \in Done' : o.kind = "save" /\ o.n = latest' => Synced'
    BY <1>1, <1>2 DEF Acknowledged
  <1> QED  BY <1>3, <1>4, <1>5 DEF Acknowledged

LEMMA AcknowledgedSave ==
  ASSUME Shapes, InOrder, NEW a, NEW N, Adds(N), \A o \in N : o.kind = "save" => o = a, a.n = nextOp,
         Done' \subseteq Done, latest' = nextOp, saveState' = "saving"
  PROVE  Acknowledged'
  <1>1. /\ \A o \in UnderWay : o.n \in Nat /\ o.n < nextOp
        /\ Pending \subseteq UnderWay /\ Done \subseteq UnderWay /\ nextOp \in Nat
    BY UnderWayIs DEF Shapes
  <1>2. \A o \in Pending' : o.kind = "save" => o.n <= nextOp
    BY <1>1 DEF Adds
  <1>3. \A o \in Done' : o.n # nextOp
    BY <1>1
  <1> QED  BY <1>2, <1>3 DEF Acknowledged

LEMMA AcknowledgedRun ==
  ASSUME Shapes, InOrder, Restored, Projected, Acknowledged, NEW op, Leaves(op), Touches(op),
         Done' \subseteq Done \cup {op}, UNCHANGED <<saved, latest, saveState>>,
         \/ op.kind = "save" /\ (stored'[op.id] = op.version \/ op.id \in unsaved' \/ op \notin Done')
         \/ op.kind = "delete"
         \/ op.kind \notin {"save", "delete"} /\ UNCHANGED <<stored, unsaved>>
  PROVE  Acknowledged'
  <1>0. /\ Pending \subseteq UnderWay /\ Done \subseteq UnderWay
        /\ op \in Pending /\ op \in UnderWay /\ Pending' \subseteq Pending
        /\ \A o \in UnderWay : o.n \in Nat
    BY UnderWayIs DEF Leaves
  <1>1. latest # None => latest \in Nat
    BY DEF Shapes
  <1>2. \A d \in Drafts \ unsaved' :
           saved[d] # None /\ (op.kind \notin {"save", "delete"} \/ d # op.id) => stored'[d] = stored[d] /\ d \notin unsaved
    <2> TAKE d \in Drafts \ unsaved'
    <2>1. CASE op.kind \notin {"save", "delete"}
      BY <2>1
    <2>2. CASE d # op.id
      BY <2>2 DEF Touches
    <2> QED  BY <2>1, <2>2
  <1>3. op.kind = "delete" => saved[op.id] = None
    BY <1>0 DEF Projected, Deleted
  <1>4. Synced => Synced'
    <2> SUFFICES ASSUME Synced
                 PROVE  Synced'
      OBVIOUS
    <2>1. op.kind # "save"
      BY <1>0 DEF Synced
    <2>2. \A d \in Drafts \ unsaved' : saved[d] # None => stored'[d] = saved[d]
      BY <2>1, <1>2, <1>3 DEF Synced
    <2> QED  BY <2>2, <1>0 DEF Synced
  <1>5. latest # None => \A o \in Pending' : o.kind = "save" => o.n <= latest
    BY <1>0 DEF Acknowledged
  <1>6. saveState = "saved" => Synced'
    BY <1>4 DEF Acknowledged
  <1>7. ASSUME NEW o \in Done', o.kind = "save", o.n = latest
        PROVE  Synced'
    <2>1. CASE o \in Done
      BY <2>1, <1>4, <1>7 DEF Acknowledged
    <2>2. CASE o = op
      <3>1. latest # None /\ latest = op.n /\ op.kind = "save" /\ op.n \in Nat
        BY <2>2, <1>7, <1>0, CatalogsHold
      <3>2. \A p \in Pending : p.kind = "save" => p = op
        <4> SUFFICES ASSUME NEW p \in Pending, p.kind = "save", p # op
                     PROVE  FALSE
          OBVIOUS
        <4>1. p \in Pending' /\ op.n < p.n /\ p.n \in Nat
          BY <1>0 DEF Leaves
        <4>2. p.n <= op.n
          BY <3>1 DEF Acknowledged
        <4> QED  BY <4>1, <4>2, <3>1
      <3>3. op \notin Pending'
        BY <3>1 DEF Leaves
      <3>4. \A p \in Pending' : p.kind # "save"
        BY <3>2, <3>3, <1>0
      <3>5. ASSUME NEW d \in Drafts \ unsaved', saved[d] # None
            PROVE  stored'[d] = saved[d]
        <4>1. CASE d = op.id
          <5>1. \A p \in Pending : Writes(p, d) => p.n <= op.n
            <6> SUFFICES ASSUME NEW p \in Pending, Writes(p, d)
                         PROVE  p.n <= op.n
              OBVIOUS
            <6>1. p.kind # "delete"
              BY <3>5, <1>0 DEF Projected, Deleted, Writes
            <6>2. p = op
              BY <6>1, <3>2 DEF Writes
            <6> QED  BY <6>2, <3>1
          <5>2. saved[d] = op.version
            BY <4>1, <5>1, <3>1, <1>0 DEF Projected, Upcoming
          <5> QED  BY <4>1, <5>2, <3>1, <3>5, <2>2, <1>7
        <4>2. CASE d # op.id
          <5>1. \A p \in Pending : ~Writes(p, d)
            BY <4>2, <3>2, <3>5, <1>0 DEF Projected, Deleted, Writes
          <5>2. catalog = "ready"
            BY <3>1, <1>0 DEF Restored
          <5>3. stored'[d] = stored[d] /\ d \notin unsaved
            BY <4>2, <3>5, <1>2
          <5> QED  BY <5>1, <5>2, <5>3 DEF Projected, Settled, Leaves
        <4> QED  BY <4>1, <4>2
      <3> QED  BY <3>4, <3>5 DEF Synced
    <2> QED  BY <2>1, <2>2, <1>7
  <1> QED  BY <1>5, <1>6, <1>7 DEF Acknowledged

-----------------------------------------------------------------------------
(* The save that a close waits for                                            *)

LEMMA ClosingMoves ==
  ASSUME Shapes, InOrder, Closing, NEW N, UnderWay' \subseteq UnderWay \cup N,
         \A o \in N : o.kind = "save" => o.n = nextOp,
         pendingClose' \in {pendingClose, None}, asked' = asked,
         pendingClose' # None => saved'[asked.id] # None /\ composer'.mode # "sending",
         \A o \in UnderWay' : o.n \in Nat
  PROVE  Closing'
  <1>1. pendingClose # None => pendingClose \in Nat /\ pendingClose < nextOp /\ pendingClose # nextOp
    BY DEF InOrder, Shapes
  <1>2. None \notin Nat
    BY CatalogsHold
  <1> QED  BY <1>1, <1>2 DEF Closing

LEMMA ClosingAsked ==
  ASSUME Shapes, InOrder, NEW d \in Drafts, NEW v \in Revisions, NEW a, NEW N, UnderWay' \subseteq UnderWay \cup N,
         \A o \in N : o.kind = "save" => o = a, a.id = d, a.version = v,
         pendingClose' = nextOp, asked' = [id |-> d, version |-> v],
         saved'[d] # None, composer'.mode # "sending"
  PROVE  Closing'
  <1>1. \A o \in UnderWay : o.n \in Nat /\ o.n < nextOp /\ o.n # nextOp
    BY UnderWayIs DEF Shapes
  <1>2. asked' # None
    BY NoneAssumption DEF Revisions
  <1> QED  BY <1>1, <1>2 DEF Closing

LEMMA WrittenMoves ==
  ASSUME Shapes, InOrder, Projected, Written, Done' \subseteq Done, UNCHANGED stored,
         \A d \in Drafts : d \notin unused /\ saved'[d] # None => saved[d] # None
  PROVE  Written'
  <1>1. \A o \in Done : o.kind = "save" => o.id \in Drafts /\ o.id \notin unused
    BY UnderWayIs DEF Projected, Unborn, DraftKinds
  <1> QED  BY <1>1 DEF Written

LEMMA WrittenRun ==
  ASSUME Shapes, InOrder, Projected, Written, NEW op, Leaves(op), Touches(op),
         Done' \subseteq Done \cup {op}, UNCHANGED saved,
         \/ op.kind = "save" /\ stored'[op.id] = op.version
         \/ op.kind = "save" /\ stored' = stored /\ Done' \subseteq Done
         \/ op.kind = "delete"
         \/ op.kind \notin {"save", "delete"} /\ stored' = stored,
         \A o \in Answers(events, Answering) : o.n < op.n
  PROVE  Written'
  <1>0. /\ Done \subseteq UnderWay /\ op \in Pending /\ op \in UnderWay
        /\ \A o \in UnderWay : o.n \in Nat /\ (o.kind \in DraftKinds => o.id \in Drafts)
        /\ \A o \in UnderWay : o.kind = "save" => o.version.rev \in Nat /\ o.version # None
        /\ \A o \in Done : o.n < op.n
    BY UnderWayIs DEF Leaves, Done, Answers, Answering
  <1> SUFFICES ASSUME NEW o \in Done', o.kind = "save", saved[o.id] # None
               PROVE  stored'[o.id] # None /\ o.version.rev <= stored'[o.id].rev
    BY DEF Written
  <1>1. CASE o = op /\ stored'[op.id] = op.version
    BY <1>1, <1>0
  <1>2. CASE o \in Done
    <2>0. /\ o \in UnderWay /\ o.n < op.n /\ o.id \in Drafts
          /\ stored[o.id] # None /\ o.version.rev <= stored[o.id].rev
      BY <1>2, <1>0 DEF Written, DraftKinds
    <2>1. CASE op.kind = "delete"
      <3>1. op.id # o.id
        BY <2>1, <1>0 DEF Projected, Deleted
      <3> QED  BY <2>0, <3>1 DEF Touches
    <2>2. CASE stored' = stored
      BY <2>0, <2>2
    <2>3. CASE op.kind = "save" /\ stored'[op.id] = op.version
      <3>1. CASE o.id = op.id
        <4>1. o.version.rev <= op.version.rev
          BY <2>0, <2>3, <3>1, <1>0 DEF Projected, Rising
        <4> QED  BY <4>1, <2>3, <3>1, <1>0
      <3>2. CASE o.id # op.id
        BY <3>2, <2>0 DEF Touches
      <3> QED  BY <3>1, <3>2
    <2> QED  BY <2>1, <2>2, <2>3
  <1> QED  BY <1>1, <1>2

-----------------------------------------------------------------------------
(* Steps on the channels                                                      *)

LEMMA OpIs ==
  ASSUME Shapes, NEW k \in Nat, NEW kind \in OpKinds, NEW id \in Drafts \cup {None},
         NEW version \in Revisions \cup {None}, NEW file \in Files \cup {None},
         kind \in DraftKinds => id \in Drafts, kind = "save" => version \in Revisions,
         kind \in {"stage", "remove"} => file \in Files
  PROVE  /\ WellFormed(Op(k, kind, id, version, file))
         /\ Op(k, kind, id, version, file).n = nextOp + k
         /\ Op(k, kind, id, version, file).kind = kind
         /\ Op(k, kind, id, version, file).id = id
         /\ Op(k, kind, id, version, file).version = version
         /\ Op(k, kind, id, version, file).file = file
  <1>1. nextOp + k \in Nat /\ generation \in Nat
    BY DEF Shapes
  <1> QED  BY <1>1 DEF Op, WellFormed, Operation, DraftKinds

LEMMA SaveIs ==
  ASSUME Shapes, NEW d \in Drafts, NEW v \in Revisions
  PROVE  LET a == Op(0, "save", d, v, None)
         IN  WellFormed(a) /\ a.n = nextOp /\ a.kind = "save" /\ a.id = d /\ a.version = v
  <1>1. nextOp + 0 = nextOp /\ 0 \in Nat /\ "save" \in OpKinds
    BY DEF Shapes, OpKinds
  <1> QED  BY <1>1, OpIs

LEMMA DeleteIs ==
  ASSUME Shapes, NEW d \in Drafts
  PROVE  LET a == Op(0, "delete", d, None, None)
         IN  WellFormed(a) /\ a.n = nextOp /\ a.kind = "delete" /\ a.id = d
  <1>1. nextOp + 0 = nextOp /\ 0 \in Nat /\ "delete" \in OpKinds
    BY DEF Shapes, OpKinds
  <1> QED  BY <1>1, OpIs

LEMMA FileIs ==
  ASSUME Shapes, NEW k \in Nat, NEW kind \in {"stage", "remove"}, NEW d \in Drafts, NEW f \in Files
  PROVE  LET a == Op(k, kind, d, None, f)
         IN  WellFormed(a) /\ a.n = nextOp + k /\ a.kind = kind /\ a.id = d /\ a.file = f
  <1>1. kind \in OpKinds /\ kind # "save"
    BY DEF OpKinds
  <1> QED  BY <1>1, OpIs

\* The reducer may have taken an event.
Received == events' = events \/ (events # <<>> /\ events' = Tail(events))

LEMMA ReceivedIs ==
  ASSUME InOrder, Received
  PROVE  /\ Ordered(queue, batch, events', nextOp)
         /\ \A kinds : Answers(events', kinds) \subseteq Answers(events, kinds)
         /\ Loads(events') \subseteq Loads(events)
         /\ Done' \subseteq Done /\ (events' = events => Done' = Done)
  <1>1. CASE events' = events
    BY <1>1 DEF InOrder, Done
  <1>2. CASE events # <<>> /\ events' = Tail(events)
    <2>1. Ordered(queue, batch, events', nextOp)
      BY <1>2, ReceiveOne DEF InOrder
    <2>2. \A kinds : Answers(events', kinds) \subseteq Answers(events, kinds)
      BY <1>2, ReceiveOne DEF InOrder
    <2>3. Loads(events') \subseteq Loads(events)
      BY <1>2, ReceiveOne DEF InOrder
    <2>4. Done' = Answers(events', {"done"})
      BY DEF Done
    <2>5. events' = events => Done' = Done
      BY DEF Done
    <2> QED  BY <2>1, <2>2, <2>3, <2>4, <2>5 DEF Done
  <1> QED  BY <1>1, <1>2 DEF Received

\* Nothing is sent.
LEMMA SentNone ==
  ASSUME InOrder, Received, UNCHANGED <<queue, batch, worker, nextOp>>
  PROVE  /\ Ordered(queue', batch', events', nextOp')
         /\ worker' # "up" => queue' = <<>> /\ batch' = <<>>
         /\ Adds({})
  <1>1. Pending' = Pending
    BY DEF Pending
  <1>2. UnderWay' = Pending' \cup Answers(events', Answering)
    BY DEF UnderWay
  <1>3. UnderWay' \subseteq UnderWay
    BY <1>1, <1>2, ReceivedIs DEF UnderWay
  <1> QED  BY <1>1, <1>3, ReceivedIs DEF InOrder, Adds

New(a) == IF worker = "up" THEN {a} ELSE {}

LEMMA SentOne ==
  ASSUME Shapes, InOrder, Received, NEW a, WellFormed(a), a.n = nextOp, Submit(<<a>>),
         UNCHANGED <<batch, worker>>
  PROVE  /\ Ordered(queue', batch', events', nextOp')
         /\ worker' # "up" => queue' = <<>> /\ batch' = <<>>
         /\ Adds(New(a)) /\ nextOp' = nextOp + 1
  <1>0. nextOp' = nextOp + 1 /\ nextOp \in Nat
    BY DEF Submit, Shapes
  <1>2. UnderWay' = Pending' \cup Answers(events', Answering)
    BY DEF UnderWay
  <1>3. CASE worker = "up"
    <2>1. queue' = queue \o <<a>>
      BY <1>3 DEF Submit
    <2>2. Ordered(queue', batch', events', nextOp') /\ Waiting(queue', batch') = Waiting(queue, batch) \cup {a}
      BY <1>0, <2>1, QueueOne, ReceivedIs
    <2>3. Pending' = Pending \cup {a}
      BY <2>2 DEF Pending
    <2> QED  BY <1>0, <1>2, <1>3, <2>2, <2>3, ReceivedIs DEF Adds, New, UnderWay
  <1>4. CASE worker # "up"
    <2>1. queue' = queue
      BY <1>4 DEF Submit
    <2>2. Pending' = Pending
      BY <2>1 DEF Pending
    <2>3. Ordered(queue', batch', events', nextOp')
      BY <1>0, <2>1, HigherBound, ReceivedIs
    <2> QED  BY <1>0, <1>2, <1>4, <2>1, <2>2, <2>3, ReceivedIs DEF Adds, New, UnderWay, InOrder
  <1> QED  BY <1>3, <1>4

NewTwo(a, b) == IF worker = "up" THEN {a, b} ELSE {}

LEMMA SentTwo ==
  ASSUME Shapes, InOrder, Received, NEW a, NEW b, WellFormed(a), WellFormed(b), a.n = nextOp, b.n = nextOp + 1,
         Submit(<<a, b>>), UNCHANGED <<batch, worker>>
  PROVE  /\ Ordered(queue', batch', events', nextOp')
         /\ worker' # "up" => queue' = <<>> /\ batch' = <<>>
         /\ Adds(NewTwo(a, b)) /\ nextOp' = nextOp + 2
  <1>0. nextOp' = nextOp + 2 /\ nextOp \in Nat
    BY DEF Submit, Shapes
  <1>2. UnderWay' = Pending' \cup Answers(events', Answering)
    BY DEF UnderWay
  <1>3. CASE worker = "up"
    <2>0. queue \o <<a, b>> = (queue \o <<a>>) \o <<b>>
      <3>1. PICK S : queue \in Seq(S)
        BY DEF InOrder, Ordered, IsSeq
      <3>2. queue \in Seq(S \cup {a, b}) /\ <<a>> \in Seq(S \cup {a, b}) /\ <<b>> \in Seq(S \cup {a, b})
        BY <3>1
      <3> DEFINE l == queue \o <<a, b>>
                 r == (queue \o <<a>>) \o <<b>>
      <3>3. /\ l \in Seq(S \cup {a, b}) /\ Len(l) = Len(queue) + 2
            /\ \A i \in 1 .. Len(queue) : l[i] = queue[i]
            /\ l[Len(queue) + 1] = a /\ l[Len(queue) + 2] = b
        BY <3>2
      <3>4. /\ r \in Seq(S \cup {a, b}) /\ Len(r) = Len(queue) + 2
            /\ \A i \in 1 .. Len(queue) : r[i] = queue[i]
            /\ r[Len(queue) + 1] = a /\ r[Len(queue) + 2] = b
        BY <3>2
      <3> HIDE DEF l, r
      <3>5. Len(queue) \in Nat
        BY <3>2
      <3>6. \A i \in 1 .. Len(l) : l[i] = r[i]
        <4> TAKE i \in 1 .. Len(l)
        <4>1. i \in 1 .. Len(queue) \/ i = Len(queue) + 1 \/ i = Len(queue) + 2
          BY <3>3, <3>5
        <4> QED  BY <4>1, <3>3, <3>4
      <3>7. l = r
        BY <3>3, <3>4, <3>6
      <3> QED  BY <3>7 DEF l, r
    <2>1. queue' = (queue \o <<a>>) \o <<b>>
      BY <1>3, <2>0 DEF Submit
    <2>2. /\ Ordered(queue \o <<a>>, batch', events', nextOp + 1)
          /\ Waiting(queue \o <<a>>, batch') = Waiting(queue, batch) \cup {a}
      BY <1>0, QueueOne, ReceivedIs
    <2>3. /\ Ordered(queue', batch', events', nextOp + 1 + 1)
          /\ Waiting(queue', batch') = Waiting(queue \o <<a>>, batch') \cup {b}
      <3> DEFINE q == queue \o <<a>>
                 m == nextOp + 1
      <3>1. m \in Nat /\ b.n = m
        BY <1>0
      <3>2. Ordered(q, batch', events', m)
        BY <2>2
      <3> HIDE DEF q, m
      <3>3. Ordered(q \o <<b>>, batch', events', m + 1) /\ Waiting(q \o <<b>>, batch') = Waiting(q, batch') \cup {b}
        BY <3>1, <3>2, QueueOne
      <3> QED  BY <3>3, <2>1 DEF q, m
    <2>4. Pending' = Pending \cup {a, b}
      BY <2>2, <2>3 DEF Pending
    <2> QED  BY <1>0, <1>2, <1>3, <2>3, <2>4, ReceivedIs DEF Adds, NewTwo, UnderWay
  <1>4. CASE worker # "up"
    <2>1. queue' = queue
      BY <1>4 DEF Submit
    <2>2. Pending' = Pending
      BY <2>1 DEF Pending
    <2>3. Ordered(queue', batch', events', nextOp')
      BY <1>0, <2>1, HigherBound, ReceivedIs
    <2> QED  BY <1>0, <1>2, <1>4, <2>1, <2>2, <2>3, ReceivedIs DEF Adds, NewTwo, UnderWay, InOrder
  <1> QED  BY <1>3, <1>4

\* The actor leaves its first operation without a word, or with an answer.
LEMMA LeftOne ==
  ASSUME InOrder, batch # <<>>, worker = "up", batch' = Tail(batch), UNCHANGED <<queue, worker, nextOp>>,
         \/ events' = events
         \/ \E r : /\ events' = Append(events, r) /\ r.kind \in Answering /\ r.op = Head(batch) /\ GoodEvent(r)
  PROVE  /\ Ordered(queue', batch', events', nextOp')
         /\ Leaves(Head(batch))
         /\ Done \subseteq Done' /\ Done' \subseteq Done \cup {Head(batch)}
         /\ \A o \in Answers(events, Answering) : o.n < Head(batch).n
         /\ \A r : events' = Append(events, r) /\ r.kind # "loaded" => Loads(events') \subseteq Loads(events)
         /\ \A r : events' = Append(events, r) /\ r.kind = "done" /\ r.op = Head(batch) => Head(batch) \in Done'
         /\ \A r : events' = Append(events, r) /\ r.kind # "done" => Done' = Done
         /\ events' = events => Done' = Done /\ Loads(events') = Loads(events)
  <1> DEFINE h == Head(batch)
  <1>1. /\ Ordered(queue, Tail(batch), events, nextOp)
        /\ WellFormed(h) /\ h.n < nextOp
        /\ Waiting(queue, batch) = Waiting(queue, Tail(batch)) \cup {h}
        /\ \A o \in Waiting(queue, Tail(batch)) : h.n < o.n
        /\ \A o \in Answers(events, Answering) : o.n < h.n
    BY LeaveOne DEF InOrder
  <1> HIDE DEF h
  <1>2. Pending' = Waiting(queue, Tail(batch)) /\ Pending = Pending' \cup {h} /\ \A o \in Pending' : h.n < o.n
    BY <1>1 DEF Pending
  <1>3. UnderWay' = Pending' \cup Answers(events', Answering) /\ Done' = Answers(events', {"done"})
    BY DEF UnderWay, Done
  <1>4. CASE events' = events
    <2>1. Done' = Done /\ UnderWay' \subseteq UnderWay
      BY <1>2, <1>3, <1>4 DEF Done, UnderWay
    <2>2. \A r : events' = Append(events, r) => Loads(events') \subseteq Loads(events) /\ Done' = Done
      BY <1>4, <2>1
    <2>3. \A r : events' # Append(events, r)
      <3>1. IsSeq(events)
        BY DEF InOrder, Ordered
      <3> TAKE r
      <3>2. Len(events) \in Nat /\ DOMAIN events = 1 .. Len(events) /\ DOMAIN Append(events, r) = 1 .. (Len(events) + 1)
        BY <3>1, AppendIs
      <3>3. Len(events) + 1 \in DOMAIN Append(events, r) /\ Len(events) + 1 \notin DOMAIN events
        BY <3>2
      <3> QED  BY <3>3, <1>4
    <2> QED  BY <1>1, <1>2, <1>4, <2>1, <2>2, <2>3 DEF Leaves, h
  <1>5. ASSUME NEW r, events' = Append(events, r), r.kind \in Answering, r.op = h, GoodEvent(r)
        PROVE  /\ Ordered(queue', batch', events', nextOp')
               /\ Leaves(h)
               /\ Done \subseteq Done' /\ Done' \subseteq Done \cup {h}
               /\ r.kind # "loaded" => Loads(events') \subseteq Loads(events)
               /\ r.kind = "done" => h \in Done'
               /\ r.kind # "done" => Done' = Done
    <2>1. /\ Ordered(queue, Tail(batch), Append(events, r), nextOp)
          /\ \A kinds :
                /\ r.kind \in kinds => Answers(Append(events, r), kinds) = Answers(events, kinds) \cup {r.op}
                /\ r.kind \notin kinds => Answers(Append(events, r), kinds) = Answers(events, kinds)
          /\ Loads(Append(events, r)) = Loads(events) \cup (IF r.kind = "loaded" THEN {r.drafts} ELSE {})
      BY <1>1, <1>5, SayOne
    <2>2. /\ Done \subseteq Done' /\ Done' \subseteq Done \cup {h}
          /\ (r.kind = "done" => h \in Done') /\ (r.kind # "done" => Done' = Done)
      BY <1>3, <1>5, <2>1 DEF Done
    <2>3. UnderWay' \subseteq UnderWay
      BY <1>2, <1>3, <1>5, <2>1 DEF UnderWay
    <2>4. r.kind # "loaded" => Loads(events') \subseteq Loads(events)
      BY <1>5, <2>1
    <2>5. Ordered(queue', batch', events', nextOp')
      BY <1>5, <2>1
    <2> QED  BY <1>2, <2>2, <2>3, <2>4, <2>5 DEF Leaves
  <1>6. CASE events' # events
    <2>1. PICK r : /\ events' = Append(events, r) /\ r.kind \in Answering /\ r.op = h /\ GoodEvent(r)
      BY <1>6 DEF h
    <2>2. \A s : events' = Append(events, s) => s = r
      <3>1. IsSeq(events)
        BY DEF InOrder, Ordered
      <3> TAKE s
      <3>2. Append(events, s)[Len(events) + 1] = s /\ Append(events, r)[Len(events) + 1] = r
        BY <3>1, AppendIs
      <3> QED  BY <3>2, <2>1
    <2> QED  BY <1>1, <1>5, <1>6, <2>1, <2>2 DEF h
  <1> QED  BY <1>4, <1>6

LEMMA LoadsAppend ==
  ASSUME NEW e, IsSeq(e), NEW r
  PROVE  \A c \in Loads(Append(e, r)) : c \in Loads(e) \/ (r.kind = "loaded" /\ c = r.drafts)
  <1>1. /\ DOMAIN e = 1 .. Len(e) /\ Len(e) \in Nat
        /\ DOMAIN Append(e, r) = 1 .. (Len(e) + 1) /\ \A n \in DOMAIN e : Append(e, r)[n] = e[n]
        /\ Append(e, r)[Len(e) + 1] = r
    BY AppendIs
  <1>2. \A i \in DOMAIN Append(e, r) : i \in DOMAIN e \/ i = Len(e) + 1
    BY <1>1
  <1> QED  BY <1>1, <1>2 DEF Loads

LEMMA HeardIs ==
  ASSUME Shapes, InOrder, events # <<>>, events' = Tail(events)
  PROVE  /\ Received /\ GoodEvent(Head(events))
         /\ Head(events).kind \in Answering =>
               /\ Head(events).op \in UnderWay
               /\ \A o \in Pending \cup Answers(events', Answering) : Head(events).op.n < o.n
         /\ Head(events).kind = "done" =>
               Head(events).op \in Done /\ Done \subseteq Done' \cup {Head(events).op}
         /\ Head(events).kind # "done" => Done' = Done
         /\ Head(events).kind = "loaded" => Head(events).drafts \in Loads(events)
  <1>1. Received
    BY DEF Received
  <1>2. Ordered(queue, batch, events, nextOp)
    BY DEF InOrder
  <1>3. GoodEvent(Head(events))
    BY <1>2, ReceiveOne
  <1>4. Done' = Answers(Tail(events), {"done"})
    BY DEF Done
  <1>5. Head(events).kind = "done" =>
           Head(events).op \in Done /\ Done \subseteq Done' \cup {Head(events).op}
    BY <1>2, <1>4, ReceiveOne DEF Done
  <1>6. Head(events).kind # "done" => Done' = Done
    BY <1>2, <1>4, ReceiveOne DEF Done
  <1>7. Head(events).kind \in Answering => Head(events).op \in UnderWay
    BY <1>2, ReceiveOne DEF UnderWay
  <1>8. Head(events).kind \in Answering => \A o \in Pending \cup Answers(events', Answering) : Head(events).op.n < o.n
    BY <1>2, ReceiveOne DEF Pending
  <1>9. Head(events).kind = "loaded" => Head(events).drafts \in Loads(events)
    BY <1>2, ReceiveOne
  <1> QED  BY <1>1, <1>3, <1>5, <1>6, <1>7, <1>8, <1>9

-----------------------------------------------------------------------------
(* Steps that send nothing and leave the disk alone                           *)

LEMMA QuietKeeps ==
  ASSUME DraftInv, Adds({}) \/ Drops, Done' \subseteq Done, \A o \in Done : o.kind = "stage" => o \in Done',
         UNCHANGED <<saved, stored, staged, unsaved, litter, unused, fresh, asked>>,
         catalog' = "ready" => catalog = "ready",
         latest' \in {latest, None}, saveState' = "saved" => saveState = "saved" \/ Synced,
         pendingClose' \in {pendingClose, None}, pendingClose' # None => composer'.mode # "sending"
  PROVE  Projected' /\ Located' /\ NoneLeft' /\ Acknowledged' /\ Closing' /\ Written'
  <1>0. Shapes /\ InOrder /\ Projected /\ Located /\ NoneLeft /\ Acknowledged /\ Closing /\ Written
    BY DEF DraftInv
  <1>1. Projected'
    BY <1>0, ProjectedLoads
  <1>2. Located'
    BY <1>0, LocatedLoads
  <1>3. NoneLeft'
    <2>1. \A d, f : Attached(d, f)' <=> Attached(d, f)
      BY DEF Attached
    <2> QED  BY <1>0, <2>1, NoneLeftMoves
  <1>4. Acknowledged'
    BY <1>0, AcknowledgedMoves
  <1>5. Closing'
    <2>1. UnderWay' \subseteq UnderWay \cup {}
      BY DEF Adds, Drops
    <2>2. \A o \in UnderWay' : o.n \in Nat
      BY <1>0, <2>1, UnderWayIs
    <2>3. pendingClose' # None => saved'[asked.id] # None /\ composer'.mode # "sending"
      BY <1>0 DEF Closing
    <2> QED  BY <1>0, <2>1, <2>2, <2>3, ClosingMoves
  <1>6. Written'
    BY <1>0, WrittenMoves
  <1> QED  BY <1>1, <1>2, <1>3, <1>4, <1>5, <1>6

\* Before the drafts are restored, and after.
LEMMA RestoredKeeps ==
  ASSUME DraftInv, UNCHANGED <<catalog, loadOp, signatureOp>>,
         catalog # "ready" =>
            /\ UnderWay' \subseteq UnderWay /\ Loads(events') \subseteq Loads(events)
            /\ UNCHANGED <<saved, stored, staged, unsaved>>
            /\ composer' = Closed /\ latest' = None /\ pendingClose' = None /\ staging' = {}
  PROVE  Restored'
  BY DEF DraftInv, Restored

LEMMA AtRest ==
  ASSUME DraftInv
  PROVE  /\ Shapes /\ InOrder /\ Restored /\ Open /\ Projected /\ Located /\ NoneLeft
         /\ Acknowledged /\ Closing /\ Written
         /\ catalog # "ready" => composer = Closed /\ latest = None /\ pendingClose = None /\ staging = {}
         /\ composer # Closed => catalog = "ready"
         /\ composer.mode \in {"editing", "sending", "failed"} => composer # Closed
  BY CatalogsHold DEF DraftInv, Restored, Open

LEMMA ResumeDraftKeeps ==
  ASSUME DraftInv, NEW d \in Drafts, ResumeDraft(d)
  PROVE  DraftInv'
  <1> USE DEF ResumeDraft, restoreVars, saveVars, drawn, appVars, workerVars, diskVars
  <1>0. Received /\ Loads(events') = Loads(events) /\ Done' = Done /\ saved[d] \in Revisions
    BY AtRest, CatalogsHold DEF Received, Done
  <1>1. Ordered(queue', batch', events', nextOp') /\ (worker' # "up" => queue' = <<>> /\ batch' = <<>>) /\ Adds({})
    BY <1>0, AtRest, SentNone
  <1>2. Shapes'
    BY <1>0, AtRest DEF Shapes
  <1>3. InOrder'
    BY <1>1, AtRest DEF InOrder
  <1>4. Restored'
    BY RestoredKeeps
  <1>5. Open'
    BY DEF Open
  <1>6. Projected' /\ Located' /\ NoneLeft' /\ Acknowledged' /\ Closing' /\ Written'
    BY <1>0, <1>1, QuietKeeps
  <1> QED  BY <1>2, <1>3, <1>4, <1>5, <1>6 DEF DraftInv

LEMMA UserQuietKeeps ==
  ASSUME DraftInv, (\E what \in {"compose", "resume"} : WaitForRestore(what)) \/ ConfirmResend \/ CloseWindow
  PROVE  DraftInv'
  <1> USE DEF WaitForRestore, ConfirmResend, CloseWindow, restoreVars, saveVars, drawn, appVars, diskVars, workerVars
  <1>0. Received /\ Loads(events') = Loads(events) /\ Done' = Done
    BY DEF Received, Done
  <1>1. Ordered(queue', batch', events', nextOp') /\ (worker' # "up" => queue' = <<>> /\ batch' = <<>>) /\ Adds({})
    BY <1>0, AtRest, SentNone
  <1>2. Shapes'
    BY AtRest, CatalogsHold DEF Shapes
  <1>3. InOrder'
    BY <1>1, AtRest DEF InOrder
  <1>4. Restored'
    <2>1. UNCHANGED <<catalog, loadOp, signatureOp, saved, stored, staged, unsaved, latest, pendingClose, staging, events>>
      OBVIOUS
    <2>2. composer = Closed => composer' = Closed
      BY AtRest, CatalogsHold
    <2> QED  BY <1>0, <1>1, <2>1, <2>2, AtRest, RestoredKeeps DEF Adds
  <1>5. Open'
    <2>1. composer' = composer \/ (composer # Closed /\ composer' = [composer EXCEPT !.mode = "sending"])
      BY AtRest
    <2>2. composer' # Closed => composer # Closed /\ composer'.id = composer.id /\ composer'.version = composer.version
      BY <2>1, AtRest, CatalogsHold DEF Shapes
    <2> QED  BY <2>2, AtRest DEF Open
  <1>6. pendingClose' # None => composer'.mode # "sending"
    BY AtRest DEF Closing, MaySend
  <1>7. Projected' /\ Located' /\ NoneLeft' /\ Acknowledged' /\ Closing' /\ Written'
    BY <1>0, <1>1, <1>6, QuietKeeps
  <1> QED  BY <1>2, <1>3, <1>4, <1>5, <1>7 DEF DraftInv

LEMMA UnavailableKeeps ==
  ASSUME DraftInv, OnWorkerUnavailable
  PROVE  DraftInv'
  <1> USE DEF OnWorkerUnavailable, workerVars, diskVars
  <1>0. Received /\ Loads(events') = Loads(events) /\ Done' = Done
    BY DEF Received, Done
  <1>a. UNCHANGED <<queue, batch, worker, nextOp>>
    BY DEF drawn
  <1>1. Ordered(queue', batch', events', nextOp') /\ (worker' # "up" => queue' = <<>> /\ batch' = <<>>) /\ Adds({})
    BY <1>0, <1>a, AtRest, SentNone
  <1>b. UNCHANGED <<saved, stored, staged, unsaved, litter, unused, fresh, asked>>
    BY DEF drawn
  <1>c. latest' = None /\ pendingClose' \in {pendingClose, None} /\ (staging = {} => staging' = {})
    OBVIOUS
  <1>d. saveState' = "saved" => saveState = "saved"
    OBVIOUS
  <1>e. composer' = composer \/ (composer.mode = "sending" /\ composer' = [composer EXCEPT !.mode = "failed"])
    OBVIOUS
  <1>f. /\ catalog' = catalog \/ (catalog # "ready" /\ catalog' = "failed")
        /\ loadOp' = None /\ signatureOp' \in {signatureOp, None}
        /\ catalog' = "loading" => loadOp = None
    BY AtRest DEF Restored
  <1>2. Shapes'
    <2>1. generation' = generation
      OBVIOUS
    <2> QED  BY <1>a, <1>b, <1>c, <1>e, <1>f, <2>1, AtRest, CatalogsHold DEF Shapes
  <1>3. InOrder'
    BY <1>1, <1>a, <1>c, AtRest DEF InOrder
  <1>4. Restored'
    <2>1. composer = Closed => composer' = Closed
      BY <1>e, CatalogsHold, AtRest
    <2> QED  BY <1>0, <1>1, <1>b, <1>c, <1>f, <2>1, AtRest DEF Restored, Adds
  <1>5. Open'
    <2>1. composer' # Closed => composer # Closed /\ composer'.id = composer.id /\ composer'.version = composer.version
      BY <1>e, AtRest, CatalogsHold DEF Shapes
    <2> QED  BY <2>1, <1>b, <1>f, AtRest DEF Open
  <1>6. pendingClose' # None => composer'.mode # "sending"
    BY <1>c, <1>e, AtRest, CatalogsHold DEF Closing, Shapes
  <1>7. Projected' /\ Located' /\ NoneLeft' /\ Acknowledged' /\ Closing' /\ Written'
    BY <1>0, <1>1, <1>b, <1>c, <1>d, <1>f, <1>6, QuietKeeps
  <1> QED  BY <1>2, <1>3, <1>4, <1>5, <1>7 DEF DraftInv

LEMMA WorkerEndsKeeps ==
  ASSUME DraftInv, ShutDown \/ WorkerDies
  PROVE  DraftInv'
  <1>a. /\ UNCHANGED <<catalog, intent, generation, loadOp, signatureOp, composer, saved, latest, saveState,
                       pendingClose, staging, nextOp, unused, fresh, events, stored, staged, unsaved, litter, asked>>
        /\ queue' = <<>> /\ batch' = <<>> /\ worker' \in {"dead", "stopped"}
    BY DEF ShutDown, WorkerDies, restoreVars, saveVars, drawn, appVars, diskVars
  <1>b. Ordered(<<>>, <<>>, events, nextOp) /\ Waiting(<<>>, <<>>) = {}
    BY AtRest, DropAll DEF InOrder
  <1>c. Pending' = {} /\ Done' = Done /\ UnderWay' \subseteq UnderWay
    BY <1>a, <1>b DEF Pending, Done, UnderWay
  <1>1. Drops
    BY <1>a, <1>c DEF Drops
  <1>2. Shapes'
    BY <1>a, AtRest DEF Shapes
  <1>3. InOrder'
    BY <1>a, <1>b, AtRest DEF InOrder
  <1>4. Restored'
    BY <1>a, <1>c, AtRest, RestoredKeeps
  <1>5. Open'
    BY <1>a, AtRest DEF Open
  <1>6. pendingClose' # None => composer'.mode # "sending"
    BY <1>a, AtRest DEF Closing
  <1>7. Projected' /\ Located' /\ NoneLeft' /\ Acknowledged' /\ Closing' /\ Written'
    BY <1>a, <1>c, <1>1, <1>6, QuietKeeps
  <1> QED  BY <1>2, <1>3, <1>4, <1>5, <1>7 DEF DraftInv

LEMMA ActorReceivesKeeps ==
  ASSUME DraftInv, ActorReceives
  PROVE  DraftInv'
  <1>a. UNCHANGED <<catalog, intent, generation, loadOp, signatureOp, composer, saved, latest, saveState, worker,
                    pendingClose, staging, nextOp, unused, fresh, events, stored, staged, unsaved, litter, asked>>
    BY DEF ActorReceives, restoreVars, saveVars, drawn, appVars, diskVars
  <1>b. PICK k \in 1 .. Len(queue) : batch' = SubSeq(queue, 1, k) /\ queue' = SubSeq(queue, k + 1, Len(queue))
    BY DEF ActorReceives
  <1>c. worker = "up" /\ batch = <<>>
    BY DEF ActorReceives
  <1>d. Ordered(queue, <<>>, events, nextOp)
    BY <1>c, AtRest DEF InOrder
  <1>e. Ordered(queue', batch', events, nextOp) /\ Waiting(queue', batch') = Waiting(queue, <<>>)
    BY <1>b, <1>d, TakeBatch
  <1>f. Pending' = Pending /\ Done' = Done /\ UnderWay' = UnderWay
    BY <1>a, <1>c, <1>e DEF Pending, Done, UnderWay
  <1>1. Adds({})
    BY <1>a, <1>f DEF Adds
  <1>2. Shapes'
    BY <1>a, AtRest DEF Shapes
  <1>3. InOrder'
    BY <1>a, <1>c, <1>e, AtRest DEF InOrder
  <1>4. Restored'
    BY <1>a, <1>f, AtRest, RestoredKeeps
  <1>5. Open'
    BY <1>a, AtRest DEF Open
  <1>6. pendingClose' # None => composer'.mode # "sending"
    BY <1>a, AtRest DEF Closing
  <1>7. Projected' /\ Located' /\ NoneLeft' /\ Acknowledged' /\ Closing' /\ Written'
    BY <1>a, <1>f, <1>1, <1>6, QuietKeeps
  <1> QED  BY <1>2, <1>3, <1>4, <1>5, <1>7 DEF DraftInv

\* An answer to SMTP answers no draft operation.
LEMMA MailSettlesKeeps ==
  ASSUME DraftInv, MailSettles
  PROVE  DraftInv'
  <1>a. UNCHANGED <<catalog, intent, generation, loadOp, signatureOp, composer, saved, latest, saveState, worker, batch,
                    queue, pendingClose, staging, nextOp, unused, fresh, stored, staged, unsaved, litter, asked>>
    BY DEF MailSettles, restoreVars, saveVars, drawn, appVars, diskVars
  <1>b. PICK r : events' = Append(events, r) /\ r.kind \in {"sent", "accountSent", "sendFailed"}
    BY DEF MailSettles, Reply
  <1>c. GoodEvent(r) /\ r.kind \notin Answering /\ r.kind # "done" /\ r.kind # "loaded"
    BY <1>b DEF GoodEvent, Replies, Answering
  <1>d. /\ Ordered(queue, batch, events', nextOp)
        /\ Answers(events', Answering) = Answers(events, Answering)
        /\ Answers(events', {"done"}) = Answers(events, {"done"})
        /\ Loads(events') = Loads(events)
    <2>1. Ordered(queue, batch, events, nextOp)
      BY AtRest DEF InOrder
    <2>2. /\ Ordered(queue, batch, Append(events, r), nextOp)
          /\ Loads(Append(events, r)) = Loads(events) \cup (IF r.kind = "loaded" THEN {r.drafts} ELSE {})
          /\ r.kind \notin Answering => Answers(Append(events, r), Answering) = Answers(events, Answering)
          /\ r.kind \notin {"done"} => Answers(Append(events, r), {"done"}) = Answers(events, {"done"})
      BY <1>c, <2>1, SayOne
    <2> QED  BY <1>b, <1>c, <2>2
  <1>f. Pending' = Pending /\ Done' = Done /\ UnderWay' = UnderWay
    BY <1>a, <1>d DEF Pending, Done, UnderWay
  <1>1. Adds({})
    BY <1>a, <1>f, AtRest, UnderWayIs DEF Adds
  <1>2. Shapes'
    BY <1>a, AtRest DEF Shapes
  <1>3. InOrder'
    BY <1>a, <1>d, AtRest DEF InOrder
  <1>4. Restored'
    BY <1>a, <1>d, <1>f, AtRest, RestoredKeeps
  <1>5. Open'
    BY <1>a, AtRest DEF Open
  <1>6. pendingClose' # None => composer'.mode # "sending"
    BY <1>a, AtRest DEF Closing
  <1>7. Projected' /\ Located' /\ NoneLeft' /\ Acknowledged' /\ Closing' /\ Written'
    BY <1>a, <1>f, <1>1, <1>6, QuietKeeps
  <1> QED  BY <1>2, <1>3, <1>4, <1>5, <1>7 DEF DraftInv

-----------------------------------------------------------------------------
(* Events that change no draft                                                *)

LEMMA HeardKeeps ==
  ASSUME DraftInv, events # <<>>, events' = Tail(events),
         UNCHANGED <<queue, batch, worker, nextOp, generation, saved, stored, staged, unsaved, litter, unused, fresh, asked>>,
         Head(events).kind = "done" => Head(events).op.kind # "stage",
         \/ catalog' = catalog /\ loadOp' = loadOp
         \/ catalog' = "failed" /\ catalog # "ready" /\ loadOp' \in {loadOp, None},
         signatureOp' \in {signatureOp, None},
         latest' \in {latest, None}, pendingClose' \in {pendingClose, None}, staging' \subseteq staging,
         saveState' = "saved" => saveState = "saved" \/ Synced,
         \/ composer' \in {composer, Closed}
         \/ composer.mode = "sending" /\ composer' = [composer EXCEPT !.mode = "failed"]
  PROVE  DraftInv'
  <1>0. /\ Received
        /\ Head(events).kind = "done" => Done \subseteq Done' \cup {Head(events).op}
        /\ Head(events).kind # "done" => Done' = Done
    BY AtRest, HeardIs
  <1>1. Ordered(queue', batch', events', nextOp') /\ (worker' # "up" => queue' = <<>> /\ batch' = <<>>) /\ Adds({})
    BY <1>0, AtRest, SentNone
  <1>2. Done' \subseteq Done /\ Loads(events') \subseteq Loads(events)
    BY <1>0, AtRest, ReceivedIs
  <1>3. \A o \in Done : o.kind = "stage" => o \in Done'
    BY <1>0
  <1>4. composer' # Closed => composer # Closed /\ composer'.id = composer.id /\ composer'.version = composer.version
    BY AtRest, CatalogsHold DEF Shapes
  <1>5. Shapes'
    BY AtRest, CatalogsHold DEF Shapes
  <1>6. InOrder'
    BY <1>1, AtRest DEF InOrder
  <1>7. Restored'
    <2>1. catalog # "ready" => composer' = Closed /\ latest' = None /\ pendingClose' = None /\ staging' = {}
      BY <1>4, AtRest
    <2>2. UnderWay' \subseteq UnderWay
      BY <1>1 DEF Adds
    <2> QED  BY <1>2, <2>1, <2>2, AtRest DEF Restored
  <1>8. Open'
    BY <1>4, AtRest DEF Open
  <1>9. pendingClose' # None => composer'.mode # "sending"
    BY <1>4, AtRest, CatalogsHold DEF Closing, Shapes
  <1>10. Projected' /\ Located' /\ NoneLeft' /\ Acknowledged' /\ Closing' /\ Written'
    BY <1>1, <1>2, <1>3, <1>9, QuietKeeps
  <1> QED  BY <1>5, <1>6, <1>7, <1>8, <1>10 DEF DraftInv

LEMMA OnStagedRemovedKeeps ==
  ASSUME DraftInv, OnStagedRemoved
  PROVE  DraftInv'
  BY HeardKeeps DEF OnStagedRemoved, ReceiveDone, Receive, restoreVars, saveVars, drawn, appVars, workerVars, diskVars

LEMMA DropStaleRestoreKeeps ==
  ASSUME DraftInv, DropStaleRestore
  PROVE  DraftInv'
  BY HeardKeeps DEF DropStaleRestore, Receive, restoreVars, saveVars, drawn, appVars, workerVars, diskVars

LEMMA OnAccountMessageSentKeeps ==
  ASSUME DraftInv, OnAccountMessageSent
  PROVE  DraftInv'
  BY HeardKeeps DEF OnAccountMessageSent, Receive, restoreVars, saveVars, drawn, appVars, workerVars, diskVars

LEMMA OnMessageSendFailedKeeps ==
  ASSUME DraftInv, OnMessageSendFailed
  PROVE  DraftInv'
  BY HeardKeeps DEF OnMessageSendFailed, Receive, restoreVars, saveVars, drawn, appVars, workerVars, diskVars

LEMMA OnDraftOperationFailedKeeps ==
  ASSUME DraftInv, OnDraftOperationFailed
  PROVE  DraftInv'
  <1> DEFINE op == Head(events).op
  <1>1. events # <<>> /\ events' = Tail(events) /\ Head(events).kind = "failed"
    BY DEF OnDraftOperationFailed, Receive
  <1>2. op.n \in Nat
    BY <1>1, AtRest, HeardIs, UnderWayIs DEF Answering
  <1>3. op.n \in {loadOp, signatureOp} => catalog # "ready"
    BY <1>2, AtRest, CatalogsHold DEF Restored
  <1>4. UNCHANGED <<queue, batch, worker, nextOp, generation, saved, stored, staged, unsaved, litter, unused, fresh,
                    asked, composer>>
    BY DEF OnDraftOperationFailed, Receive, restoreVars, drawn, appVars, workerVars, diskVars
  <1>5. /\ \/ catalog' = catalog /\ loadOp' = loadOp
           \/ catalog' = "failed" /\ catalog # "ready" /\ loadOp' \in {loadOp, None}
        /\ signatureOp' \in {signatureOp, None}
    BY <1>3 DEF OnDraftOperationFailed, restoreVars
  <1>6. /\ latest' \in {latest, None} /\ pendingClose' \in {pendingClose, None} /\ staging' \subseteq staging
        /\ saveState' = "saved" => saveState = "saved"
    BY DEF OnDraftOperationFailed, saveVars
  <1> QED  BY <1>1, <1>4, <1>5, <1>6, HeardKeeps

\* What is deleted was not listed any more.
LEMMA OnDraftDeletedKeeps ==
  ASSUME DraftInv, OnDraftDeleted
  PROVE  DraftInv'
  <1> DEFINE op == Head(events).op
  <1>1. events # <<>> /\ events' = Tail(events) /\ Head(events).kind = "done" /\ op.kind = "delete"
    BY DEF OnDraftDeleted, ReceiveDone, Receive
  <1>2. op \in UnderWay
    BY <1>1, AtRest, HeardIs DEF Answering
  <1>3. op.id \in Drafts /\ saved[op.id] = None
    BY <1>1, <1>2, AtRest, UnderWayIs DEF Projected, Deleted, DraftKinds
  <1>4. saved' = saved
    BY <1>3, AtRest DEF OnDraftDeleted, Shapes, Catalogs
  <1> QED
    BY <1>1, <1>4, HeardKeeps
       DEF OnDraftDeleted, ReceiveDone, Receive, restoreVars, saveVars, drawn, appVars, workerVars, diskVars

\* What is acknowledged was not listed in an earlier revision.
LEMMA OnDraftSavedKeeps ==
  ASSUME DraftInv, OnDraftSaved
  PROVE  DraftInv'
  <1> DEFINE op == Head(events).op
  <1>1. events # <<>> /\ events' = Tail(events) /\ Head(events).kind = "done" /\ op.kind = "save"
    BY DEF OnDraftSaved
  <1>2. op \in UnderWay /\ op \in Done
    BY <1>1, AtRest, HeardIs DEF Answering
  <1>3. op.id \in Drafts /\ op.version.rev \in Nat /\ op.n \in Nat
    BY <1>1, <1>2, AtRest, UnderWayIs DEF DraftKinds
  <1>4. saved' = saved
    <2>1. CASE saved[op.id] = None
      BY <2>1 DEF OnDraftSaved
    <2>2. CASE saved[op.id] # None
      <3> DEFINE v == saved[op.id]
      <3>1. v \in Revisions /\ v.rev \in Nat /\ op.version.rev <= v.rev
        BY <2>2, <1>1, <1>2, <1>3, AtRest, CatalogsHold DEF Projected, Raised
      <3>2. saved' = [saved EXCEPT ![op.id] = [v EXCEPT !.rev = IF op.version.rev > @ THEN op.version.rev ELSE @]]
        BY <2>2 DEF OnDraftSaved
      <3>3. [v EXCEPT !.rev = IF op.version.rev > @ THEN op.version.rev ELSE @] = v
        BY <3>1, <1>3 DEF Revisions
      <3> QED  BY <3>2, <3>3, <1>3, AtRest DEF Shapes, Catalogs
    <2> QED  BY <2>1, <2>2
  <1>5. UNCHANGED <<queue, batch, worker, nextOp, generation, stored, staged, unsaved, litter, unused, fresh,
                    asked, catalog, loadOp, signatureOp, staging>>
    BY DEF OnDraftSaved, restoreVars, drawn, workerVars, diskVars
  <1>6. latest' \in {latest, None} /\ pendingClose' \in {pendingClose, None} /\ composer' \in {composer, Closed}
    BY DEF OnDraftSaved
  <1>7. saveState' = "saved" => saveState = "saved" \/ Synced
    BY <1>1, <1>2, AtRest DEF OnDraftSaved, Acknowledged
  <1> QED  BY <1>1, <1>4, <1>5, <1>6, <1>7, HeardKeeps

-----------------------------------------------------------------------------
(* The restoration                                                            *)

\* It is asked for.
LEMMA LoadKeeps ==
  ASSUME DraftInv, EnsureLocalRestore \/ RetryDraftRestore
  PROVE  DraftInv'
  <1> DEFINE g == generation'
             a == [Op(0, "load", None, None, None) EXCEPT !.gen = g]
             b == [Op(1, "signature", None, None, None) EXCEPT !.gen = g]
  <1>a. /\ UNCHANGED <<composer, saved, latest, saveState, pendingClose, staging, unused, fresh, events, batch, worker,
                       stored, staged, unsaved, litter, asked>>
        /\ catalog # "ready" /\ catalog' = "loading" /\ loadOp' = nextOp /\ signatureOp' = nextOp + 1
        /\ g \in {generation, generation + 1}
    BY DEF EnsureLocalRestore, RetryDraftRestore, LoadLocal, saveVars, drawn, appVars, workerVars, diskVars
  <1>b. Submit(<<a, b>>)
    BY DEF EnsureLocalRestore, RetryDraftRestore, Op
  <1>c. generation \in Nat /\ nextOp \in Nat /\ g \in Nat
    BY <1>a, AtRest DEF Shapes
  <1>d. /\ WellFormed(a) /\ a.n = nextOp /\ a.kind = "load"
        /\ WellFormed(b) /\ b.n = nextOp + 1 /\ b.kind = "signature"
    BY <1>c DEF Op, WellFormed, Operation, OpKinds
  <1>e. Received /\ Loads(events') = Loads(events) /\ Done' = Done
    BY <1>a DEF Received, Done
  <1> HIDE DEF a, b
  <1>1. /\ Ordered(queue', batch', events', nextOp')
        /\ worker' # "up" => queue' = <<>> /\ batch' = <<>>
        /\ Adds(NewTwo(a, b)) /\ nextOp' = nextOp + 2
    BY <1>a, <1>b, <1>d, <1>e, AtRest, SentTwo
  <1>2. \A o \in NewTwo(a, b) : o.kind \in {"load", "signature"}
    BY <1>d DEF NewTwo
  <1>3. Shapes'
    BY <1>a, <1>1, <1>c, AtRest DEF Shapes
  <1>4. InOrder'
    BY <1>1, <1>a, AtRest DEF InOrder
  <1>5. Restored'
    <2>1. \A o \in UnderWay' : o.kind \in {"load", "signature"}
      BY <1>1, <1>2, <1>a, AtRest DEF Restored, Adds
    <2>2. loadOp' # None
      BY <1>a, <1>c, CatalogsHold, AtRest
    <2> QED  BY <2>1, <2>2, <1>a, <1>e, AtRest DEF Restored
  <1>6. Open'
    BY <1>a, AtRest DEF Open
  <1>7. Projected'
    BY <1>1, <1>2, <1>a, AtRest, ProjectedLoads DEF DraftKinds
  <1>8. Located'
    BY <1>1, <1>2, <1>a, <1>e, AtRest, LocatedLoads
  <1>9. NoneLeft'
    <2>1. \A d, f : Attached(d, f)' <=> Attached(d, f)
      BY <1>a DEF Attached
    <2> QED  BY <1>1, <1>a, <1>e, <2>1, AtRest, NoneLeftMoves
  <1>10. Acknowledged'
    BY <1>1, <1>2, <1>a, <1>e, AtRest, AcknowledgedMoves
  <1>11. Closing'
    <2>1. \A o \in NewTwo(a, b) : o.kind # "save"
      BY <1>2
    <2>2. UnderWay' \subseteq UnderWay \cup NewTwo(a, b) /\ \A o \in UnderWay' : o.kind = "save" => o \in UnderWay
      BY <1>1, <2>1 DEF Adds
    <2> QED  BY <2>2, <1>a, AtRest DEF Closing
  <1>12. Written'
    BY <1>a, <1>e, AtRest, WrittenMoves
  <1> QED  BY <1>3, <1>4, <1>5, <1>6, <1>7, <1>8, <1>9, <1>10, <1>11, <1>12 DEF DraftInv

\* Until it ends, no operation on a draft is under way, and what the reducer
\* takes for the catalog is what the disk holds, and at most one new draft.
LEMMA RestoredProjects ==
  ASSUME DraftInv, catalog # "ready", NEW N, Adds(N),
         UNCHANGED <<stored, staged, unsaved, litter, fresh>>, Done' \subseteq Done,
         \/ N = {} /\ saved' = stored /\ unused' = unused
         \/ \E d \in unused : \E a :
               /\ unused' = unused \ {d} /\ saved' = [stored EXCEPT ![d] = Blank]
               /\ N = New(a) /\ a.kind = "save" /\ a.id = d /\ a.version = Blank
  PROVE  Projected' /\ Located' /\ NoneLeft' /\ Written'
  <1>0. /\ \A o \in UnderWay : o.kind \in {"load", "signature"}
        /\ \A d \in Drafts : staged[d] = {} /\ (stored[d] # None => stored[d].files = {})
        /\ unsaved = {} /\ unused \subseteq Drafts
        /\ Pending \subseteq UnderWay /\ Done \subseteq UnderWay
    BY AtRest, UnderWayIs DEF Restored, Shapes
  <1>1. \A d \in unused : stored[d] = None
    BY AtRest DEF Projected, Unborn
  <1>2. Blank.files = {} /\ Blank.rev = 0 /\ Blank # None
    BY AtRest, CatalogsHold DEF Blank
  <1>3. CASE N = {} /\ saved' = stored /\ unused' = unused
    <2>1. UnderWay' \subseteq UnderWay /\ Pending' = Pending
      BY <1>3 DEF Adds
    <2>2. \A o \in UnderWay' : o.kind \in {"load", "signature"}
      BY <1>0, <2>1
    <2>3. Pending' \subseteq UnderWay' /\ Done' \subseteq UnderWay
      BY <1>0 DEF UnderWay
    <2>4. Projected'
      BY <2>1, <2>2, <2>3, <1>0, <1>1, <1>3
         DEF Projected, Unborn, Deleted, Raised, Rising, Final, Doomed, Upcoming, Settled, Writes, DraftKinds
    <2>5. Located'
      BY <2>1, <2>2, <2>3, <1>0, <1>3, AtRest
         DEF Located, Undrawn, OneDraft, OneArrival, Arriving, NotBoth, Leaving, Littered, Arrived, Present, Attached,
                      Nowhere
    <2>6. NoneLeft'
      BY <1>0 DEF NoneLeft
    <2>7. Written'
      BY <2>3, <1>0 DEF Written
    <2> QED  BY <2>4, <2>5, <2>6, <2>7
  <1>4. ASSUME NEW d \in unused, NEW a,
               unused' = unused \ {d}, saved' = [stored EXCEPT ![d] = Blank],
               N = New(a), a.kind = "save", a.id = d, a.version = Blank
        PROVE  Projected' /\ Located' /\ NoneLeft' /\ Written'
    <2>0. d \in Drafts /\ saved'[d] = Blank /\ \A x \in Drafts : x # d => saved'[x] = stored[x]
      BY <1>0, <1>4, AtRest DEF Shapes, Catalogs
    <2>1. \A o \in UnderWay' : o = a \/ o.kind \in {"load", "signature"}
      BY <1>0, <1>4 DEF Adds, New
    <2>2. Pending' \subseteq UnderWay' /\ Done' \subseteq UnderWay
      BY <1>0 DEF UnderWay
    <2>3. worker = "up" => a \in Pending'
      BY <1>4 DEF Adds, New
    <2>4. a \notin Pending' \/ worker = "up"
      BY <1>4, <1>0, AtRest, UnderWayIs DEF Adds, New
    <2>5. Unborn'
      BY <2>0, <2>1, <1>0, <1>1, <1>4 DEF Unborn, DraftKinds
    <2>6. Deleted' /\ Raised' /\ Rising' /\ Final' /\ Doomed' /\ Upcoming'
      <3>1. Blank.rev <= Blank.rev
        BY <1>2
      <3>2. Deleted' /\ Raised'
        BY <2>0, <2>1, <3>1, <1>4 DEF Deleted, Raised
      <3>3. Rising'
        BY <2>1, <3>1, <1>4 DEF Rising
      <3>4. Final' /\ Doomed'
        BY <2>0, <2>1, <2>2, <1>2, <1>4 DEF Final, Doomed
      <3>5. Upcoming'
        BY <2>0, <2>1, <2>2, <1>4 DEF Upcoming
      <3> QED  BY <3>2, <3>3, <3>4, <3>5
    <2>7. Settled'
      BY <2>0, <2>3, <1>4 DEF Settled, Writes, Adds
    <2>8. Located'
      <3>1. \A x \in Drafts : saved'[x] # None => saved'[x].files = {}
        BY <2>0, <1>0, <1>2
      <3>2. \A x \in Drafts : \A f : ~Attached(x, f)'
        BY <3>1 DEF Attached
      <3>3. \A f : Nowhere(f)'
        BY <3>2 DEF Nowhere
      <3>4. Undrawn'
        BY <3>3, <2>1, <1>4, AtRest DEF Located, Undrawn
      <3>5. OneDraft' /\ Littered' /\ Present'
        BY <3>1, <3>2, <3>3, <1>0 DEF OneDraft, Littered, Present
      <3>6. OneArrival' /\ Arriving' /\ NotBoth' /\ Leaving' /\ Arrived'
        BY <2>1, <2>2, <1>0, <1>4 DEF OneArrival, Arriving, NotBoth, Leaving, Arrived
      <3> QED  BY <3>4, <3>5, <3>6 DEF Located
    <2>9. NoneLeft'
      BY <1>0 DEF NoneLeft
    <2>10. Written'
      BY <2>2, <1>0 DEF Written
    <2> QED  BY <2>5, <2>6, <2>7, <2>8, <2>9, <2>10 DEF Projected
  <1> QED  BY <1>3, <1>4

\* It ends, and what waited for it goes on.
LEMMA FinishKeeps ==
  ASSUME DraftInv, catalog = "loading", FinishRestore(stored), loadOp' = None, signatureOp' = None,
         events # <<>>, events' = Tail(events), Head(events).kind = "done" => Head(events).op.kind # "stage",
         UNCHANGED <<generation, batch, worker, stored, staged, unsaved, litter, asked>>
  PROVE  DraftInv'
  <1>a. /\ Received /\ Done' \subseteq Done /\ \A o \in UnderWay : o.kind \in {"load", "signature"}
        /\ latest = None /\ pendingClose = None /\ composer = Closed
    BY AtRest, HeardIs, ReceivedIs DEF Restored
  <1>b. stored \in Catalogs /\ pendingClose' = None /\ fresh' = fresh /\ catalog' = "ready"
    BY <1>a, AtRest DEF FinishRestore, saveVars, drawn, Shapes
  <1>c. Shapes /\ InOrder /\ nextOp \in Nat /\ None \notin Nat /\ Blank \in Revisions
    BY AtRest, CatalogsHold DEF Shapes
  <1>1. CASE intent # "compose"
    <2>a. saved' = stored /\ UNCHANGED <<latest, saveState, staging, nextOp, unused, queue>>
      BY <1>1 DEF FinishRestore, saveVars, drawn
    <2>b. \/ composer' = composer
          \/ \E d \in Drafts : /\ stored[d] # None
                               /\ composer' = [mode |-> "editing", id |-> d, version |-> stored[d]]
      BY <1>1 DEF FinishRestore
    <2>1. Ordered(queue', batch', events', nextOp') /\ (worker' # "up" => queue' = <<>> /\ batch' = <<>>) /\ Adds({})
      BY <1>a, <2>a, AtRest, SentNone
    <2>2. Shapes'
      <3>1. composer' \in {Closed} \cup [mode : {"editing", "sending", "failed"}, id : Drafts, version : Revisions]
        BY <2>b, <1>a, <1>c, CatalogsHold
      <3> QED  BY <2>a, <3>1, <1>b, AtRest DEF Shapes
    <2>3. InOrder'
      BY <2>1, <2>a, <1>b, AtRest DEF InOrder
    <2>4. Restored'
      BY <1>b DEF Restored
    <2>5. Open'
      BY <2>a, <2>b, <1>a, <1>b DEF Open
    <2>6. Projected' /\ Located' /\ NoneLeft' /\ Written'
      BY <2>1, <2>a, <1>a, <1>b, RestoredProjects
    <2>7. \A o \in UnderWay' : o.kind \in {"load", "signature"}
      BY <2>1, <1>a DEF Adds
    <2>8. \A o \in Pending' \cup Done' : o.kind \in {"load", "signature"}
      BY <2>7, <1>a, <1>c, UnderWayIs DEF UnderWay
    <2>9. Acknowledged'
      BY <2>8, <2>a, <1>a, AtRest DEF Acknowledged, Synced
    <2>10. Closing'
      BY <2>7, <1>b DEF Closing
    <2> QED  BY <2>2, <2>3, <2>4, <2>5, <2>6, <2>9, <2>10 DEF DraftInv
  <1>2. CASE intent = "compose"
    <2>a. PICK d \in unused :
            /\ unused' = unused \ {d}
            /\ composer' = [mode |-> "editing", id |-> d, version |-> Blank]
            /\ saved' = [stored EXCEPT ![d] = Blank]
            /\ latest' = nextOp /\ saveState' = "saving"
            /\ Submit(<<Op(0, "save", d, Blank, None)>>)
            /\ UNCHANGED <<pendingClose, staging, fresh>>
      BY <1>2 DEF FinishRestore, Blank
    <2> DEFINE a == Op(0, "save", d, Blank, None)
    <2>b. d \in Drafts /\ saved'[d] = Blank
      BY <2>a, <1>b, AtRest DEF Shapes, Catalogs
    <2>c. WellFormed(a) /\ a.n = nextOp /\ a.kind = "save" /\ a.id = d /\ a.version = Blank
      BY <2>b, <1>c, SaveIs
    <2>d. Submit(<<a>>)
      BY <2>a
    <2> HIDE DEF a
    <2>1. /\ Ordered(queue', batch', events', nextOp')
          /\ worker' # "up" => queue' = <<>> /\ batch' = <<>>
          /\ Adds(New(a)) /\ nextOp' = nextOp + 1
      BY <2>c, <2>d, <1>a, AtRest, SentOne
    <2>2. Shapes'
      <3>1. saved' \in Catalogs
        BY <2>a, <1>b, <1>c DEF Catalogs
      <3> QED  BY <2>a, <2>b, <2>1, <3>1, <1>b, <1>c, AtRest DEF Shapes
    <2>3. InOrder'
      BY <2>1, <2>a, <1>b, <1>c DEF InOrder
    <2>4. Restored'
      BY <1>b DEF Restored
    <2>5. Open'
      BY <2>a, <2>b, <1>b DEF Open
    <2>6. Projected' /\ Located' /\ NoneLeft' /\ Written'
      BY <2>1, <2>a, <2>c, <1>a, <1>b, RestoredProjects
    <2>7. Acknowledged'
      BY <2>1, <2>a, <2>c, <1>a, <1>c, AcknowledgedSave DEF New
    <2>8. Closing'
      <3>1. \A o \in UnderWay' : o.kind = "save" => o.n # None
        BY <2>1, <2>c, <1>a, <1>c DEF Adds, New
      <3> QED  BY <3>1, <1>b DEF Closing
    <2> QED  BY <2>2, <2>3, <2>4, <2>5, <2>6, <2>7, <2>8 DEF DraftInv
  <1> QED  BY <1>1, <1>2

\* One of its two parts arrives.
LEMMA OnSignatureLoadedKeeps ==
  ASSUME DraftInv, OnSignatureLoaded
  PROVE  DraftInv'
  <1>1. /\ events # <<>> /\ events' = Tail(events) /\ Head(events).kind = "done" /\ Head(events).op.kind = "signature"
        /\ UNCHANGED <<generation, batch, worker, stored, staged, unsaved, litter, asked, loadOp>>
        /\ signatureOp' = None
    BY DEF OnSignatureLoaded, ReceiveDone, Receive, workerVars, diskVars
  <1>2. CASE catalog = "loading" /\ loadOp = None
    <2>1. saved = stored
      BY <1>2, AtRest DEF Restored
    <2>2. FinishRestore(stored)
      BY <1>2, <2>1 DEF OnSignatureLoaded, Restoring
    <2> QED  BY <1>1, <1>2, <2>2, FinishKeeps
  <1>3. CASE ~(catalog = "loading" /\ loadOp = None)
    <2>1. UNCHANGED <<saved, catalog, intent, composer, latest, saveState, pendingClose, staging, nextOp, unused, fresh, queue>>
      BY <1>3 DEF OnSignatureLoaded, Restoring, saveVars, drawn
    <2> QED  BY <1>1, <2>1, HeardKeeps
  <1> QED  BY <1>2, <1>3

LEMMA OnDraftsLoadedKeeps ==
  ASSUME DraftInv, OnDraftsLoaded
  PROVE  DraftInv'
  <1>1. /\ events # <<>> /\ events' = Tail(events) /\ Head(events).kind = "loaded"
        /\ UNCHANGED <<generation, batch, worker, stored, staged, unsaved, litter, asked, signatureOp>>
        /\ loadOp = Head(events).op.n /\ loadOp' = None
    BY DEF OnDraftsLoaded, Receive, workerVars, diskVars
  <1>2. Received /\ Done' = Done /\ Head(events).drafts \in Loads(events) /\ Head(events).op \in UnderWay
    BY <1>1, AtRest, HeardIs DEF Answering
  <1>3. catalog # "ready"
    BY <1>1, <1>2, AtRest, UnderWayIs, CatalogsHold DEF Restored
  <1>4. Head(events).drafts = stored
    BY <1>2, <1>3, AtRest DEF Restored
  <1>5. CASE catalog = "loading" /\ signatureOp = None
    <2>1. FinishRestore(stored) /\ signatureOp' = None
      BY <1>1, <1>4, <1>5 DEF OnDraftsLoaded, Restoring
    <2> QED  BY <1>1, <1>5, <2>1, FinishKeeps
  <1>6. CASE ~(catalog = "loading" /\ signatureOp = None)
    <2>a. /\ UNCHANGED <<catalog, intent, composer, latest, saveState, pendingClose, staging, nextOp, unused, fresh, queue>>
          /\ saved' = stored
      BY <1>4, <1>6 DEF OnDraftsLoaded, Restoring, saveVars, drawn
    <2>b. /\ \A o \in UnderWay : o.kind \in {"load", "signature"}
          /\ latest = None /\ pendingClose = None /\ composer = Closed
      BY <1>3, AtRest DEF Restored
    <2>1. Ordered(queue', batch', events', nextOp') /\ (worker' # "up" => queue' = <<>> /\ batch' = <<>>) /\ Adds({})
      BY <1>1, <1>2, <2>a, AtRest, SentNone
    <2>2. Shapes' /\ InOrder'
      BY <1>1, <2>1, <2>a, AtRest DEF Shapes, InOrder
    <2>3. UnderWay' \subseteq UnderWay /\ Pending' = Pending /\ Loads(events') \subseteq Loads(events)
      BY <2>1, <1>2, AtRest, ReceivedIs DEF Adds
    <2>4. Restored'
      BY <1>1, <1>3, <2>3, <2>a, AtRest DEF Restored
    <2>5. Open'
      BY <2>a, <2>b DEF Open
    <2>6. Projected' /\ Located' /\ NoneLeft' /\ Written'
      BY <2>1, <2>a, <1>1, <1>2, <1>3, RestoredProjects
    <2>7. \A o \in Pending' \cup Done' \cup UnderWay' : o.kind \in {"load", "signature"}
      BY <2>b, <2>3, <1>2, AtRest, UnderWayIs
    <2>8. Acknowledged'
      BY <2>7, <2>a, <2>b, <1>1, AtRest DEF Acknowledged, Synced
    <2>9. Closing'
      BY <2>7, <2>a, <2>b DEF Closing
    <2> QED  BY <2>2, <2>4, <2>5, <2>6, <2>8, <2>9 DEF DraftInv
  <1> QED  BY <1>5, <1>6

-----------------------------------------------------------------------------
(* The user's changes of a draft                                              *)

LEMMA QueueSaveKeeps ==
  ASSUME DraftInv, catalog = "ready", NEW d \in Drafts, NEW v \in Revisions, QueueSave(d, v),
         UNCHANGED <<catalog, generation, loadOp, signatureOp, stored, staged, unsaved, litter, fresh,
                     events, batch, worker>>,
         \/ composer' = Closed
         \/ /\ composer' \in [mode : {"editing", "sending", "failed"}, id : Drafts, version : Revisions]
            /\ composer'.id = d /\ composer'.version = v,
         \/ d \in unused /\ v.files = {} /\ unused' = unused \ {d}
         \/ saved[d] # None /\ saved[d].rev < v.rev /\ v.files = saved[d].files /\ unused' = unused,
         \/ pendingClose' = pendingClose /\ asked' = asked
         \/ pendingClose' = nextOp /\ asked' = [id |-> d, version |-> v],
         pendingClose' # None => composer'.mode # "sending"
  PROVE  DraftInv'
  <1> DEFINE a == Op(0, "save", d, v, None)
  <1>a. WellFormed(a) /\ a.n = nextOp /\ a.kind = "save" /\ a.id = d /\ a.version = v
    BY AtRest, SaveIs
  <1>b. /\ Submit(<<a>>) /\ saved' = [saved EXCEPT ![d] = v] /\ latest' = nextOp /\ saveState' = "saving"
        /\ Received /\ Done' = Done
    BY DEF QueueSave, Received, Done
  <1> HIDE DEF a
  <1>c. saved'[d] = v /\ v # None /\ \A x \in Drafts : x # d => saved'[x] = saved[x]
    BY <1>b, AtRest, CatalogsHold DEF Shapes, Catalogs
  <1>1. /\ Ordered(queue', batch', events', nextOp')
        /\ worker' # "up" => queue' = <<>> /\ batch' = <<>>
        /\ Adds(New(a)) /\ nextOp' = nextOp + 1
    BY <1>a, <1>b, AtRest, SentOne
  <1>d. \A o \in New(a) : o = a
    BY DEF New
  <1>2. Shapes'
    <2>1. saved' \in Catalogs
      BY <1>b, AtRest DEF Shapes, Catalogs
    <2>2. pendingClose' \in Nat \cup {None} /\ latest' \in Nat /\ nextOp' \in Nat
      BY <1>1, <1>b, AtRest DEF Shapes
    <2>3. asked' \in {None} \cup [id : Drafts, version : Revisions] /\ unused' \subseteq Drafts
      BY AtRest DEF Shapes
    <2> QED  BY <2>1, <2>2, <2>3, AtRest DEF Shapes
  <1>3. InOrder'
    <2>1. nextOp \in Nat /\ pendingClose \in Nat \cup {None}
      BY AtRest DEF Shapes
    <2> QED  BY <2>1, <1>1, <1>b, AtRest DEF InOrder
  <1>4. Restored'
    BY AtRest DEF Restored
  <1>5. Open'
    BY <1>c DEF Open
  <1>6. Projected'
    <2>1. worker = "up" => a \in New(a)
      BY DEF New
    <2> QED  BY <1>1, <1>a, <1>b, <1>d, <2>1, AtRest, ProjectedSave
  <1>7. Located'
    BY <1>1, <1>a, <1>b, <1>d, AtRest, LocatedSave
  <1>8. NoneLeft'
    <2>1. \A x \in Drafts : \A f : Attached(x, f) => Attached(x, f)'
      BY <1>c, AtRest DEF Attached, Projected, Unborn
    <2>2. \A x \in Drafts : saved[x] = None /\ x \in unsaved => saved'[x] = None
      BY <1>c, AtRest DEF Projected, Unborn
    <2> QED  BY <2>1, <2>2, <1>1, <1>b, AtRest, NoneLeftMoves
  <1>9. Acknowledged'
    BY <1>1, <1>a, <1>b, <1>d, AtRest, AcknowledgedSave
  <1>10. Closing'
    <2>1. UnderWay' \subseteq UnderWay \cup New(a)
      BY <1>1 DEF Adds
    <2>2. CASE pendingClose' = nextOp /\ asked' = [id |-> d, version |-> v]
      <3>1. nextOp # None
        BY AtRest, CatalogsHold DEF Shapes
      <3> QED  BY <2>1, <2>2, <3>1, <1>a, <1>c, <1>d, AtRest, ClosingAsked
    <2>3. CASE pendingClose' = pendingClose /\ asked' = asked
      <3>1. pendingClose # None => asked.id \in Drafts /\ saved[asked.id] # None
        BY AtRest DEF Closing, Shapes
      <3>2. pendingClose' # None => saved'[asked.id] # None /\ composer'.mode # "sending"
        BY <2>3, <3>1, <1>c
      <3>3. \A o \in UnderWay' : o.n \in Nat
        BY <2>1, <1>a, <1>d, AtRest, UnderWayIs DEF Shapes
      <3> QED  BY <2>1, <2>3, <3>2, <3>3, <1>a, <1>d, AtRest, ClosingMoves
    <2> QED  BY <2>2, <2>3
  <1>11. Written'
    <2>1. \A x \in Drafts : x \notin unused /\ saved'[x] # None => saved[x] # None
      BY <1>c
    <2> QED  BY <2>1, <1>b, AtRest, WrittenMoves
  <1> QED  BY <1>2, <1>3, <1>4, <1>5, <1>6, <1>7, <1>8, <1>9, <1>10, <1>11 DEF DraftInv

\* The next revision of the draft in the composer.
LEMMA ChangedIs ==
  ASSUME DraftInv, composer # Closed, NEW files \in SUBSET Files
  PROVE  /\ composer.id \in Drafts /\ saved[composer.id] = composer.version /\ saved[composer.id] # None
         /\ catalog = "ready"
         /\ Changed(files) \in Revisions /\ saved[composer.id].rev < Changed(files).rev
         /\ Changed(files).files = files /\ composer.version.files \in SUBSET Files
         /\ \A mode \in {"editing", "sending", "failed"} :
               LET c == [Recomposed(Changed(files)) EXCEPT !.mode = mode]
               IN  /\ c \in [mode : {"editing", "sending", "failed"}, id : Drafts, version : Revisions]
                   /\ c.mode = mode /\ c.id = composer.id /\ c.version = Changed(files)
         /\ Recomposed(Changed(files)) \in [mode : {"editing", "sending", "failed"}, id : Drafts, version : Revisions]
         /\ Recomposed(Changed(files)).mode = composer.mode
         /\ Recomposed(Changed(files)).id = composer.id
         /\ Recomposed(Changed(files)).version = Changed(files)
  <1>1. /\ composer.id \in Drafts /\ composer.version \in Revisions /\ composer.version.rev \in Nat
        /\ composer.version.files \subseteq Files /\ None \notin Revisions
        /\ composer \in [mode : {"editing", "sending", "failed"}, id : Drafts, version : Revisions]
        /\ saved[composer.id] = composer.version /\ catalog = "ready"
    BY AtRest, CatalogsHold DEF Open, Shapes
  <1>2. /\ Changed(files) \in Revisions /\ Changed(files).files = files
        /\ composer.version.rev < Changed(files).rev
    BY <1>1 DEF Changed, Revisions
  <1> DEFINE v == Changed(files)
  <1>3. v \in Revisions
    BY <1>2
  <1> HIDE DEF v
  <1>4. /\ Recomposed(v) \in [mode : {"editing", "sending", "failed"}, id : Drafts, version : Revisions]
        /\ Recomposed(v).mode = composer.mode /\ Recomposed(v).id = composer.id /\ Recomposed(v).version = v
    BY <1>1, <1>3 DEF Recomposed
  <1>5. \A mode \in {"editing", "sending", "failed"} :
               LET c == [Recomposed(v) EXCEPT !.mode = mode]
               IN  /\ c \in [mode : {"editing", "sending", "failed"}, id : Drafts, version : Revisions]
                   /\ c.mode = mode /\ c.id = composer.id /\ c.version = v
    BY <1>4
  <1> QED  BY <1>1, <1>2, <1>4, <1>5 DEF v

LEMMA BeginComposeKeeps ==
  ASSUME DraftInv, NEW d \in Drafts, BeginCompose(d)
  PROVE  DraftInv'
  <1>1. /\ catalog = "ready" /\ d \in unused /\ unused' = unused \ {d} /\ QueueSave(d, Blank)
        /\ composer' = [mode |-> "editing", id |-> d, version |-> Blank]
        /\ UNCHANGED <<catalog, generation, loadOp, signatureOp, stored, staged, unsaved, litter, fresh,
                       events, batch, worker, pendingClose, asked>>
    BY DEF BeginCompose, OpenNew, Blank, restoreVars, appVars, workerVars, diskVars
  <1>2. Blank \in Revisions /\ Blank.files = {}
    BY AtRest, CatalogsHold DEF Blank
  <1> HIDE DEF Blank
  <1>3. /\ composer' \in [mode : {"editing", "sending", "failed"}, id : Drafts, version : Revisions]
        /\ composer'.id = d /\ composer'.version = Blank /\ composer'.mode # "sending"
    BY <1>1, <1>2
  <1> QED  BY <1>1, <1>2, <1>3, QueueSaveKeeps

LEMMA EditKeeps ==
  ASSUME DraftInv, Edit
  PROVE  DraftInv'
  <1> DEFINE v == Changed(composer.version.files)
  <1>1. /\ composer.mode \in {"editing", "failed"} /\ composer' = Recomposed(v) /\ QueueSave(composer.id, v)
        /\ UNCHANGED <<catalog, generation, loadOp, signatureOp, stored, staged, unsaved, litter, fresh, unused,
                       events, batch, worker, pendingClose, asked>>
        /\ pendingClose = None
    BY DEF Edit, ComposerOpen, restoreVars, drawn, appVars, workerVars, diskVars
  <1>2. composer # Closed /\ composer.version.files \in SUBSET Files
    BY <1>1, AtRest, CatalogsHold
  <1>3. /\ composer.id \in Drafts /\ saved[composer.id] = composer.version /\ saved[composer.id] # None
        /\ catalog = "ready"
        /\ v \in Revisions /\ saved[composer.id].rev < v.rev /\ v.files = composer.version.files
        /\ Recomposed(v) \in [mode : {"editing", "sending", "failed"}, id : Drafts, version : Revisions]
        /\ Recomposed(v).id = composer.id /\ Recomposed(v).version = v
    BY <1>2, ChangedIs
  <1> HIDE DEF v
  <1>4. composer'.id = composer.id /\ composer'.version = v /\ v.files = saved[composer.id].files
    BY <1>1, <1>3
  <1> QED  BY <1>1, <1>3, <1>4, QueueSaveKeeps

LEMMA LeaveComposerKeeps ==
  ASSUME DraftInv, HideComposer \/ CloseOverDraft
  PROVE  DraftInv'
  <1> DEFINE v == Changed(composer.version.files)
  <1>1. /\ composer.mode \in {"editing", "failed"} /\ composer' \in {Recomposed(v), Closed} /\ QueueSave(composer.id, v)
        /\ UNCHANGED <<catalog, generation, loadOp, signatureOp, stored, staged, unsaved, litter, fresh, unused,
                       events, batch, worker>>
        /\ \/ pendingClose' = pendingClose /\ asked' = asked
           \/ pendingClose' = nextOp /\ asked' = [id |-> composer.id, version |-> v]
    BY DEF HideComposer, CloseOverDraft, ComposerOpen, restoreVars, drawn, appVars, workerVars, diskVars
  <1>2. composer # Closed /\ composer.version.files \in SUBSET Files
    BY <1>1, AtRest, CatalogsHold
  <1>3. /\ composer.id \in Drafts /\ saved[composer.id] = composer.version /\ saved[composer.id] # None
        /\ catalog = "ready"
        /\ v \in Revisions /\ saved[composer.id].rev < v.rev /\ v.files = composer.version.files
        /\ Recomposed(v) \in [mode : {"editing", "sending", "failed"}, id : Drafts, version : Revisions]
        /\ Recomposed(v).id = composer.id /\ Recomposed(v).version = v /\ Recomposed(v).mode = composer.mode
    BY <1>2, ChangedIs
  <1> HIDE DEF v
  <1>4. v.files = saved[composer.id].files
    BY <1>3
  <1>5. composer'.mode # "sending"
    BY <1>1, <1>3, AtRest, CatalogsHold
  <1>6. \/ composer' = Closed
        \/ /\ composer' \in [mode : {"editing", "sending", "failed"}, id : Drafts, version : Revisions]
           /\ composer'.id = composer.id /\ composer'.version = v
    BY <1>1, <1>3
  <1> QED  BY <1>1, <1>3, <1>4, <1>5, <1>6, QueueSaveKeeps

LEMMA SendMessageKeeps ==
  ASSUME DraftInv, SendMessage
  PROVE  DraftInv'
  <1> DEFINE v == Changed(composer.version.files)
  <1>1. /\ composer.mode \in {"editing", "failed"} /\ QueueSave(composer.id, v)
        /\ UNCHANGED <<catalog, generation, loadOp, signatureOp, stored, staged, unsaved, litter, fresh, unused,
                       events, batch, worker, pendingClose, asked>>
        /\ \/ pendingClose = None /\ composer' = [Recomposed(v) EXCEPT !.mode = "sending"]
           \/ composer' = [Recomposed(v) EXCEPT !.mode = "failed"]
           \/ composer' = Recomposed(v)
    BY DEF SendMessage, MaySend, ComposerOpen, restoreVars, drawn, appVars, diskVars
  <1>2. composer # Closed /\ composer.version.files \in SUBSET Files
    BY <1>1, AtRest, CatalogsHold
  <1>3. /\ composer.id \in Drafts /\ saved[composer.id] = composer.version /\ saved[composer.id] # None
        /\ catalog = "ready"
        /\ v \in Revisions /\ saved[composer.id].rev < v.rev /\ v.files = composer.version.files
        /\ Recomposed(v) \in [mode : {"editing", "sending", "failed"}, id : Drafts, version : Revisions]
        /\ Recomposed(v).id = composer.id /\ Recomposed(v).version = v /\ Recomposed(v).mode = composer.mode
        /\ \A mode \in {"editing", "sending", "failed"} :
               LET c == [Recomposed(v) EXCEPT !.mode = mode]
               IN  /\ c \in [mode : {"editing", "sending", "failed"}, id : Drafts, version : Revisions]
                   /\ c.mode = mode /\ c.id = composer.id /\ c.version = v
    BY <1>2, ChangedIs
  <1> HIDE DEF v
  <1>4. v.files = saved[composer.id].files
    BY <1>3
  <1>5. /\ composer' \in [mode : {"editing", "sending", "failed"}, id : Drafts, version : Revisions]
        /\ composer'.id = composer.id /\ composer'.version = v
        /\ pendingClose' # None => composer'.mode # "sending"
    BY <1>1, <1>3
  <1> QED  BY <1>1, <1>3, <1>4, <1>5, QueueSaveKeeps

\* The removal of the file follows the save of the draft without it.
LEMMA RemoveAttachmentKeeps ==
  ASSUME DraftInv, NEW f \in Files, RemoveAttachment(f)
  PROVE  DraftInv'
  <1> DEFINE d == composer.id
             v == Changed(composer.version.files \ {f})
             a == Op(0, "save", d, v, None)
             b == Op(1, "remove", d, None, f)
  <1>1. /\ composer.mode \in {"editing", "failed"} /\ pendingClose = None /\ f \in composer.version.files
        /\ composer' = Recomposed(v) /\ saved' = [saved EXCEPT ![d] = v]
        /\ latest' = nextOp /\ saveState' = "saving" /\ Submit(<<a, b>>)
        /\ UNCHANGED <<catalog, generation, loadOp, signatureOp, stored, staged, unsaved, litter, fresh, unused,
                       events, batch, worker, pendingClose, asked>>
    BY DEF RemoveAttachment, ComposerOpen, restoreVars, drawn, appVars, workerVars, diskVars
  <1>2. composer # Closed /\ composer.version.files \ {f} \in SUBSET Files
    BY <1>1, AtRest, CatalogsHold
  <1>3. /\ d \in Drafts /\ saved[d] = composer.version /\ saved[d] # None /\ catalog = "ready"
        /\ v \in Revisions /\ saved[d].rev < v.rev /\ v.files = composer.version.files \ {f}
        /\ Recomposed(v) \in [mode : {"editing", "sending", "failed"}, id : Drafts, version : Revisions]
        /\ Recomposed(v).id = d /\ Recomposed(v).version = v /\ Recomposed(v).mode = composer.mode
    BY <1>2, ChangedIs
  <1> HIDE DEF v, d
  <1>4. WellFormed(a) /\ a.n = nextOp /\ a.kind = "save" /\ a.id = d /\ a.version = v
    BY <1>3, AtRest, SaveIs
  <1>5. WellFormed(b) /\ b.n = nextOp + 1 /\ b.kind = "remove" /\ b.id = d /\ b.file = f
    BY <1>3, AtRest, FileIs
  <1>6. Received /\ Done' = Done
    BY <1>1 DEF Received, Done
  <1>7. saved'[d] = v /\ v # None /\ \A x \in Drafts : x # d => saved'[x] = saved[x]
    BY <1>1, <1>3, AtRest, CatalogsHold DEF Shapes, Catalogs
  <1> HIDE DEF a, b
  <1>8. /\ Ordered(queue', batch', events', nextOp')
        /\ worker' # "up" => queue' = <<>> /\ batch' = <<>>
        /\ Adds(NewTwo(a, b)) /\ nextOp' = nextOp + 2
    BY <1>1, <1>4, <1>5, <1>6, AtRest, SentTwo
  <1>9. /\ \A o \in NewTwo(a, b) : o = a \/ (o.kind = "remove" /\ o.id = d /\ o.file = f /\ o.n = nextOp + 1)
        /\ worker = "up" => a \in NewTwo(a, b) /\ b \in NewTwo(a, b)
    BY <1>5 DEF NewTwo
  <1>10. Shapes'
    BY <1>1, <1>3, <1>8, AtRest DEF Shapes, Catalogs
  <1>11. InOrder'
    BY <1>1, <1>8, AtRest DEF InOrder, Shapes
  <1>12. Restored'
    BY <1>1, <1>3, AtRest DEF Restored
  <1>13. Open'
    BY <1>1, <1>3, <1>7 DEF Open
  <1>14. Projected'
    <2>1. \A o \in NewTwo(a, b) : o = a \/ (o.kind = "remove" /\ o.id = d)
      BY <1>9
    <2>2. Shapes /\ InOrder /\ Projected
      BY AtRest
    <2> QED  BY <2>1, <2>2, <1>1, <1>3, <1>4, <1>8, <1>9, ProjectedSave
  <1>15. Located'
    <2>1. \A o \in NewTwo(a, b) : o.kind = "save" \/ (o.kind = "remove" /\ o.id = d /\ o.file = f)
      BY <1>4, <1>9
    <2>2. Shapes /\ InOrder /\ Located
      BY AtRest
    <2>3. f \in saved[d].files /\ v.files = saved[d].files \ {f}
      BY <1>1, <1>3
    <2> QED  BY <2>1, <2>2, <2>3, <1>1, <1>3, <1>6, <1>8, LocatedRemove
  <1>16. NoneLeft'
    <2>1. ASSUME worker = "up"
          PROVE  \A x \in Drafts : \A g \in staged[x] :
                    Attached(x, g) => Attached(x, g)' \/ (\E o \in NewTwo(a, b) : o.kind = "remove" /\ o.id = x /\ o.file = g)
      <3>1. \A x \in Drafts : \A g : Attached(x, g) => Attached(x, g)' \/ (x = d /\ g = f)
        BY <1>3, <1>7 DEF Attached
      <3> QED  BY <2>1, <3>1, <1>5, <1>9
    <2>2. \A x \in Drafts : saved[x] = None /\ x \in unsaved => saved'[x] = None
      BY <1>3, <1>7
    <2> QED  BY <2>1, <2>2, <1>1, <1>6, <1>8, AtRest, NoneLeftMoves
  <1>17. Acknowledged'
    <2>1. \A o \in NewTwo(a, b) : o.kind = "save" => o = a
      BY <1>9
    <2> QED  BY <2>1, <1>1, <1>4, <1>6, <1>8, AtRest, AcknowledgedSave
  <1>18. Closing'
    <2>1. \A o \in UnderWay' : o \in UnderWay \/ o = a \/ o.kind = "remove"
      BY <1>8, <1>9 DEF Adds
    <2>2. \A o \in UnderWay' : o.kind = "save" => o.n \in Nat
      BY <2>1, <1>4, AtRest, UnderWayIs DEF Shapes
    <2> QED  BY <2>2, <1>1, AtRest, CatalogsHold DEF Closing
  <1>19. Written'
    BY <1>1, <1>3, <1>6, <1>7, AtRest, WrittenMoves
  <1> QED  BY <1>10, <1>11, <1>12, <1>13, <1>14, <1>15, <1>16, <1>17, <1>18, <1>19 DEF DraftInv

LEMMA StageAttachmentKeeps ==
  ASSUME DraftInv, NEW f \in Files, StageAttachment(f)
  PROVE  DraftInv'
  <1> DEFINE d == composer.id
             a == Op(0, "stage", d, None, f)
  <1>1. /\ composer.mode \in {"editing", "failed"} /\ f \in fresh /\ fresh' = fresh \ {f} /\ Submit(<<a>>)
        /\ UNCHANGED <<catalog, generation, loadOp, signatureOp, composer, saved, latest, saveState, stored, staged,
                       unsaved, litter, unused, events, batch, worker, pendingClose, asked>>
    BY DEF StageAttachment, ComposerOpen, restoreVars, appVars, workerVars, diskVars
  <1>2. composer # Closed /\ d \in Drafts /\ saved[d] # None /\ catalog = "ready" /\ d \notin unused
    BY <1>1, AtRest, CatalogsHold DEF Open, Projected, Unborn
  <1> HIDE DEF d
  <1>3. WellFormed(a) /\ a.n = nextOp /\ a.kind = "stage" /\ a.id = d /\ a.file = f
    <2>1. nextOp + 0 = nextOp
      BY AtRest DEF Shapes
    <2> QED  BY <2>1, <1>2, AtRest, FileIs
  <1>4. Received /\ Done' = Done
    BY <1>1 DEF Received, Done
  <1> HIDE DEF a
  <1>5. /\ Ordered(queue', batch', events', nextOp')
        /\ worker' # "up" => queue' = <<>> /\ batch' = <<>>
        /\ Adds(New(a)) /\ nextOp' = nextOp + 1
    BY <1>1, <1>3, <1>4, AtRest, SentOne
  <1>6. \A o \in New(a) : o = a
    BY DEF New
  <1>7. Shapes'
    BY <1>1, <1>5, AtRest DEF Shapes
  <1>8. InOrder'
    BY <1>1, <1>5, AtRest DEF InOrder, Shapes
  <1>9. Restored'
    BY <1>1, <1>2, AtRest DEF Restored
  <1>10. Open'
    BY <1>1, AtRest DEF Open
  <1>11. Projected'
    BY <1>1, <1>2, <1>3, <1>5, <1>6, AtRest, ProjectedFile
  <1>12. Located'
    BY <1>1, <1>2, <1>3, <1>4, <1>5, <1>6, AtRest, LocatedStage
  <1>13. NoneLeft'
    <2>1. \A x, g : Attached(x, g)' <=> Attached(x, g)
      BY <1>1 DEF Attached
    <2> QED  BY <2>1, <1>1, <1>4, <1>5, AtRest, NoneLeftMoves
  <1>14. Acknowledged'
    BY <1>1, <1>3, <1>4, <1>5, <1>6, AtRest, AcknowledgedMoves
  <1>15. Closing'
    <2>1. \A o \in UnderWay' : o \in UnderWay \/ o = a
      BY <1>5, <1>6 DEF Adds
    <2>2. \A o \in UnderWay' : o.n \in Nat
      BY <2>1, <1>3, AtRest, UnderWayIs DEF Shapes
    <2>3. pendingClose' # None => saved'[asked.id] # None /\ composer'.mode # "sending"
      BY <1>1, AtRest DEF Closing
    <2> QED  BY <2>1, <2>2, <2>3, <1>1, <1>3, <1>5, <1>6, AtRest, ClosingMoves DEF Adds
  <1>16. Written'
    BY <1>1, <1>4, AtRest, WrittenMoves
  <1> QED  BY <1>7, <1>8, <1>9, <1>10, <1>11, <1>12, <1>13, <1>14, <1>15, <1>16 DEF DraftInv

\* The draft in the composer is given up, or sent.
LEMMA DeleteKeeps ==
  ASSUME DraftInv, composer # Closed, pendingClose = None, Received, \A o \in Done : o.kind = "stage" => o \in Done',
         composer' = Closed, saved' = [saved EXCEPT ![composer.id] = None],
         Submit(<<Op(0, "delete", composer.id, None, None)>>),
         UNCHANGED <<catalog, generation, loadOp, signatureOp, latest, saveState, stored, staged, unsaved, litter,
                     fresh, unused, batch, worker, pendingClose, asked>>
  PROVE  DraftInv'
  <1> DEFINE d == composer.id
             a == Op(0, "delete", d, None, None)
  <1>1. d \in Drafts /\ saved[d] # None /\ catalog = "ready" /\ Done' \subseteq Done
    BY AtRest, CatalogsHold, ReceivedIs DEF Open
  <1>2. saved' = [saved EXCEPT ![d] = None] /\ Submit(<<a>>)
    OBVIOUS
  <1> HIDE DEF d
  <1>3. WellFormed(a) /\ a.n = nextOp /\ a.kind = "delete" /\ a.id = d
    BY <1>1, AtRest, DeleteIs
  <1> HIDE DEF a
  <1>4. saved'[d] = None /\ (\A x \in Drafts : x # d => saved'[x] = saved[x]) /\ saved' \in Catalogs
    BY <1>1, <1>2, AtRest DEF Shapes, Catalogs
  <1>5. /\ Ordered(queue', batch', events', nextOp')
        /\ worker' # "up" => queue' = <<>> /\ batch' = <<>>
        /\ Adds(New(a)) /\ nextOp' = nextOp + 1
    BY <1>2, <1>3, AtRest, SentOne
  <1>6. \A o \in New(a) : o = a
    BY DEF New
  <1>7. Shapes'
    BY <1>4, <1>5, AtRest DEF Shapes
  <1>8. InOrder'
    BY <1>5, AtRest DEF InOrder, Shapes
  <1>9. Restored'
    BY <1>1, AtRest DEF Restored
  <1>10. Open'
    BY DEF Open
  <1>11. Projected'
    <2>1. Adds(IF worker = "up" THEN {a} ELSE {})
      BY <1>5 DEF New
    <2> QED  BY <2>1, <1>1, <1>2, <1>3, AtRest, ProjectedDelete
  <1>12. Located'
    <2>1. \A x \in Drafts : saved'[x] # None => saved[x] # None /\ saved'[x].files = saved[x].files
      BY <1>4
    <2> QED  BY <2>1, <1>1, <1>3, <1>5, <1>6, AtRest, LocatedLoads
  <1>13. NoneLeft'
    <2>1. ASSUME worker = "up"
          PROVE  \A x \in Drafts : \A g \in staged[x] :
                    Attached(x, g) => Attached(x, g)' \/ (\E o \in New(a) : o.kind = "delete" /\ o.id = x)
      <3>1. \A x \in Drafts : \A g : Attached(x, g) => Attached(x, g)' \/ x = d
        BY <1>4 DEF Attached
      <3> QED  BY <2>1, <3>1, <1>3 DEF New
    <2>2. \A x \in Drafts : saved[x] = None => saved'[x] = None
      BY <1>4
    <2> QED  BY <2>1, <2>2, <1>5, AtRest, NoneLeftMoves
  <1>14. Acknowledged'
    <2>1. \A x \in Drafts : saved'[x] # None => saved'[x] = saved[x]
      BY <1>4
    <2> QED  BY <2>1, <1>1, <1>3, <1>5, <1>6, AtRest, AcknowledgedMoves
  <1>15. Closing'
    <2>1. \A o \in UnderWay' : o \in UnderWay \/ o = a
      BY <1>5, <1>6 DEF Adds
    <2>2. \A o \in UnderWay' : o.kind = "save" => o.n \in Nat
      BY <2>1, <1>3, AtRest, UnderWayIs DEF Shapes
    <2> QED  BY <2>2, AtRest, CatalogsHold DEF Closing
  <1>16. Written'
    BY <1>1, <1>4, AtRest, WrittenMoves
  <1> QED  BY <1>7, <1>8, <1>9, <1>10, <1>11, <1>12, <1>13, <1>14, <1>15, <1>16 DEF DraftInv

LEMMA DiscardDraftKeeps ==
  ASSUME DraftInv, DiscardDraft
  PROVE  DraftInv'
  <1>1. composer # Closed /\ Received /\ Done' = Done
    BY AtRest DEF DiscardDraft, ComposerOpen, appVars, Received, Done
  <1> QED
    BY <1>1, DeleteKeeps DEF DiscardDraft, restoreVars, saveVars, drawn, workerVars, diskVars

LEMMA OnMessageSentKeeps ==
  ASSUME DraftInv, OnMessageSent
  PROVE  DraftInv'
  <1>1. /\ events # <<>> /\ events' = Tail(events) /\ Head(events).kind = "sent"
        /\ UNCHANGED <<catalog, generation, loadOp, signatureOp, latest, saveState, pendingClose, staging, unused, fresh,
                       batch, worker, stored, staged, unsaved, litter, asked>>
    BY DEF OnMessageSent, Receive, restoreVars, saveVars, drawn, workerVars, diskVars
  <1>2. Received /\ Done' = Done
    BY <1>1, AtRest, HeardIs
  <1>3. CASE /\ composer.mode = "sending"
             /\ composer' = Closed
             /\ saved' = [saved EXCEPT ![composer.id] = None]
             /\ Submit(<<Op(0, "delete", composer.id, None, None)>>)
    <2>1. composer # Closed /\ pendingClose = None
      BY <1>3, AtRest DEF Closing
    <2> QED  BY <1>1, <1>2, <1>3, <2>1, DeleteKeeps
  <1>4. CASE UNCHANGED <<composer, saved, nextOp, refused, queue>>
    BY <1>1, <1>4, HeardKeeps
  <1> QED  BY <1>3, <1>4 DEF OnMessageSent

\* A file was staged: the composer takes it into its draft, ...
LEMMA AttachKeeps ==
  ASSUME DraftInv, OnAttachmentStaged, ComposerOpen /\ composer.id = Head(events).op.id
  PROVE  DraftInv'
  <1> DEFINE op == Head(events).op
             d == composer.id
             v == Changed(composer.version.files \cup {op.file})
             a == Op(0, "save", d, v, None)
  <1>1. /\ events # <<>> /\ events' = Tail(events) /\ Head(events).kind = "done" /\ op.kind = "stage" /\ op.id = d
        /\ composer' = Recomposed(v) /\ saved' = [saved EXCEPT ![d] = v]
        /\ latest' = nextOp /\ saveState' = "saving" /\ Submit(<<a>>)
        /\ UNCHANGED <<catalog, generation, loadOp, signatureOp, stored, staged, unsaved, litter, fresh, unused,
                       batch, worker, pendingClose, asked>>
    BY DEF OnAttachmentStaged, ReceiveDone, Receive, QueueSave, restoreVars, drawn, appVars, workerVars, diskVars
  <1>2. /\ Received /\ op \in Done /\ Done \subseteq Done' \cup {op}
        /\ \A o \in Pending \cup Answers(events', Answering) : op.n < o.n
    BY <1>1, AtRest, HeardIs DEF Answering
  <1>3. op.file \in Files /\ Done' \subseteq Done
    BY <1>1, <1>2, AtRest, UnderWayIs, ReceivedIs
  <1>4. composer # Closed /\ composer.mode # "sending" /\ composer.version.files \cup {op.file} \in SUBSET Files
    BY <1>3, AtRest, CatalogsHold DEF ComposerOpen
  <1>5. /\ d \in Drafts /\ saved[d] = composer.version /\ saved[d] # None /\ catalog = "ready"
        /\ v \in Revisions /\ saved[d].rev < v.rev /\ v.files = saved[d].files \cup {op.file}
        /\ Recomposed(v) \in [mode : {"editing", "sending", "failed"}, id : Drafts, version : Revisions]
        /\ Recomposed(v).id = d /\ Recomposed(v).version = v /\ Recomposed(v).mode = composer.mode
    BY <1>4, ChangedIs
  <1> HIDE DEF v, d, op
  <1>6. WellFormed(a) /\ a.n = nextOp /\ a.kind = "save" /\ a.id = d /\ a.version = v
    BY <1>5, AtRest, SaveIs
  <1> HIDE DEF a
  <1>7. saved'[d] = v /\ v # None /\ (\A x \in Drafts : x # d => saved'[x] = saved[x]) /\ saved' \in Catalogs
    BY <1>1, <1>5, AtRest, CatalogsHold DEF Shapes, Catalogs
  <1>8. /\ Ordered(queue', batch', events', nextOp')
        /\ worker' # "up" => queue' = <<>> /\ batch' = <<>>
        /\ Adds(New(a)) /\ nextOp' = nextOp + 1
    BY <1>1, <1>2, <1>6, AtRest, SentOne
  <1>9. (\A o \in New(a) : o = a) /\ (worker = "up" => a \in New(a))
    BY DEF New
  <1>10. Shapes'
    BY <1>1, <1>5, <1>7, <1>8, AtRest DEF Shapes
  <1>11. InOrder'
    BY <1>1, <1>8, AtRest DEF InOrder, Shapes
  <1>12. Restored'
    BY <1>1, <1>5, AtRest DEF Restored
  <1>13. Open'
    BY <1>1, <1>5, <1>7 DEF Open
  <1>14. Projected'
    BY <1>1, <1>5, <1>6, <1>8, <1>9, AtRest, ProjectedSave
  <1>15. Located'
    <2>1. \A o \in UnderWay' : o \in New(a) \/ op.n < o.n
      BY <1>2, <1>8 DEF Adds, UnderWay
    <2>2. Shapes /\ InOrder /\ Located
      BY AtRest
    <2>3. \A o \in New(a) : o.kind = "save"
      BY <1>6, <1>9
    <2> QED  BY <2>1, <2>2, <2>3, <1>1, <1>2, <1>3, <1>5, <1>8, LocatedAttach
  <1>16. NoneLeft'
    <2>1. \A x \in Drafts : \A g : Attached(x, g) => Attached(x, g)'
      BY <1>5, <1>7 DEF Attached
    <2>2. saved'[op.id] # None /\ op.file \in saved'[op.id].files
      BY <1>1, <1>5, <1>7
    <2>3. \A o \in Done : o \in Done' \/ Attached(o.id, o.file)'
      BY <2>2, <1>2 DEF Attached
    <2>4. \A x \in Drafts : saved[x] = None => saved'[x] = None
      BY <1>5, <1>7
    <2> QED  BY <2>1, <2>3, <2>4, <1>1, <1>8, AtRest, NoneLeftMoves
  <1>17. Acknowledged'
    BY <1>1, <1>3, <1>6, <1>8, <1>9, AtRest, AcknowledgedSave
  <1>18. Closing'
    <2>1. \A o \in UnderWay' : o \in UnderWay \/ o = a
      BY <1>8, <1>9 DEF Adds
    <2>2. \A o \in UnderWay' : o.n \in Nat
      BY <2>1, <1>6, AtRest, UnderWayIs DEF Shapes
    <2>3. pendingClose # None => asked.id \in Drafts /\ saved[asked.id] # None
      BY AtRest DEF Closing, Shapes
    <2>4. pendingClose' # None => saved'[asked.id] # None /\ composer'.mode # "sending"
      BY <2>3, <1>1, <1>4, <1>5, <1>7
    <2> QED  BY <2>2, <2>4, <1>1, <1>6, <1>8, <1>9, AtRest, ClosingMoves DEF Adds
  <1>19. Written'
    BY <1>1, <1>3, <1>5, <1>7, AtRest, WrittenMoves
  <1> QED  BY <1>10, <1>11, <1>12, <1>13, <1>14, <1>15, <1>16, <1>17, <1>18, <1>19 DEF DraftInv

\* ... or the file is removed again.
LEMMA DetachKeeps ==
  ASSUME DraftInv, OnAttachmentStaged, ~(ComposerOpen /\ composer.id = Head(events).op.id)
  PROVE  DraftInv'
  <1> DEFINE op == Head(events).op
             a == Op(0, "remove", op.id, None, op.file)
  <1>1. /\ events # <<>> /\ events' = Tail(events) /\ Head(events).kind = "done" /\ op.kind = "stage"
        /\ Submit(<<a>>)
        /\ UNCHANGED <<catalog, generation, loadOp, signatureOp, composer, saved, latest, saveState, stored, staged,
                       unsaved, litter, fresh, unused, batch, worker, pendingClose, asked>>
    BY DEF OnAttachmentStaged, ReceiveDone, Receive, restoreVars, drawn, appVars, workerVars, diskVars
  <1>2. /\ Received /\ op \in Done /\ Done \subseteq Done' \cup {op} /\ op \in UnderWay
        /\ \A o \in Pending \cup Answers(events', Answering) : op.n < o.n
    BY <1>1, AtRest, HeardIs DEF Answering
  <1>3. /\ op.file \in Files /\ op.id \in Drafts /\ op.id \notin unused /\ Done' \subseteq Done
        /\ catalog = "ready"
    BY <1>1, <1>2, AtRest, UnderWayIs, ReceivedIs DEF DraftKinds, Projected, Unborn, Restored
  <1> HIDE DEF op
  <1>4. WellFormed(a) /\ a.n = nextOp /\ a.kind = "remove" /\ a.id = op.id /\ a.file = op.file
    <2>1. nextOp + 0 = nextOp
      BY AtRest DEF Shapes
    <2> QED  BY <2>1, <1>3, AtRest, FileIs
  <1> HIDE DEF a
  <1>5. /\ Ordered(queue', batch', events', nextOp')
        /\ worker' # "up" => queue' = <<>> /\ batch' = <<>>
        /\ Adds(New(a)) /\ nextOp' = nextOp + 1
    BY <1>1, <1>2, <1>4, AtRest, SentOne
  <1>6. (\A o \in New(a) : o = a) /\ (worker = "up" => a \in New(a))
    BY DEF New
  <1>7. Shapes'
    BY <1>1, <1>5, AtRest DEF Shapes
  <1>8. InOrder'
    BY <1>1, <1>5, AtRest DEF InOrder, Shapes
  <1>9. Restored'
    BY <1>1, <1>3, AtRest DEF Restored
  <1>10. Open'
    BY <1>1, AtRest DEF Open
  <1>11. Projected'
    BY <1>1, <1>3, <1>4, <1>5, <1>6, AtRest, ProjectedFile
  <1>12. Located'
    <2>1. \A o \in UnderWay' : o \in New(a) \/ op.n < o.n
      BY <1>2, <1>5 DEF Adds, UnderWay
    <2>2. Shapes /\ InOrder /\ Located
      BY AtRest
    <2> QED  BY <2>1, <2>2, <1>1, <1>2, <1>3, <1>4, <1>5, <1>6, LocatedDetach
  <1>13. NoneLeft'
    <2>1. \A x, g : Attached(x, g)' <=> Attached(x, g)
      BY <1>1 DEF Attached
    <2>2. worker = "up" => \A o \in Done : o \in Done' \/ \E p \in New(a) : p.kind = "remove" /\ p.id = o.id /\ p.file = o.file
      BY <1>2, <1>4, <1>6
    <2> QED  BY <2>1, <2>2, <1>1, <1>5, AtRest, NoneLeftMoves
  <1>14. Acknowledged'
    BY <1>1, <1>3, <1>4, <1>5, <1>6, AtRest, AcknowledgedMoves
  <1>15. Closing'
    <2>1. \A o \in UnderWay' : o \in UnderWay \/ o = a
      BY <1>5, <1>6 DEF Adds
    <2>2. \A o \in UnderWay' : o.n \in Nat
      BY <2>1, <1>4, AtRest, UnderWayIs DEF Shapes
    <2>3. pendingClose' # None => saved'[asked.id] # None /\ composer'.mode # "sending"
      BY <1>1, AtRest DEF Closing
    <2> QED  BY <2>1, <2>2, <2>3, <1>1, <1>4, <1>5, <1>6, AtRest, ClosingMoves DEF Adds
  <1>16. Written'
    BY <1>1, <1>3, AtRest, WrittenMoves
  <1> QED  BY <1>7, <1>8, <1>9, <1>10, <1>11, <1>12, <1>13, <1>14, <1>15, <1>16 DEF DraftInv

-----------------------------------------------------------------------------
(* The actor                                                                  *)

\* What it does to the draft of an operation it leaves: nothing, a save (done,
\* failed, or superseded), a deletion (done or failed half way), a staging, a
\* removal.
Saves(op) ==
    /\ op.kind = "save" /\ staged' = staged /\ litter' = litter
    /\ \/ stored'[op.id] = op.version /\ unsaved' = unsaved \ {op.id}
       \/ unsaved' = unsaved \cup {op.id} /\ stored' = stored /\ Done' = Done
       \/ /\ \E p \in Pending' : p.kind = "save" /\ p.id = op.id
          /\ stored' = stored /\ unsaved' = unsaved /\ Done' = Done
Deletes(op) ==
    /\ op.kind = "delete" /\ litter' = litter
    /\ \/ stored'[op.id] = None /\ staged'[op.id] = {} /\ unsaved' = unsaved \ {op.id}
       \/ staged'[op.id] \subseteq staged[op.id] /\ unsaved' = unsaved \cup {op.id}
Stages(op) ==
    /\ op.kind = "stage" /\ UNCHANGED <<stored, unsaved>>
    /\ \/ staged'[op.id] = staged[op.id] \cup {op.file} /\ litter' = litter /\ op \in Done'
       \/ staged' = staged /\ litter' = litter /\ Done' = Done
       \/ /\ staged'[op.id] = staged[op.id] \cup {op.file}
          /\ litter' = litter \cup {op.file} /\ Done' = Done
Removes(op) ==
    /\ op.kind = "remove" /\ UNCHANGED <<stored, unsaved>>
    /\ \/ staged'[op.id] = staged[op.id] \ {op.file} /\ litter' = litter
       \/ staged' = staged /\ litter' = litter \cup {op.file}
Effect(op) ==
    \/ op.kind \notin DraftKinds /\ UNCHANGED <<stored, staged, unsaved, litter>>
    \/ Saves(op) \/ Deletes(op) \/ Stages(op) \/ Removes(op)

LEMMA RunKeeps ==
  ASSUME DraftInv, NEW op, Leaves(op), Touches(op), Effect(op), Ordered(queue', batch', events', nextOp'),
         Done \subseteq Done', Done' \subseteq Done \cup {op}, \A o \in Answers(events, Answering) : o.n < op.n,
         \A c \in Loads(events') : c \in Loads(events) \/ (op.kind = "load" /\ c = stored),
         stored' \in Catalogs, staged' \in [Drafts -> SUBSET Files],
         UNCHANGED <<catalog, generation, loadOp, signatureOp, composer, saved, latest, saveState, pendingClose,
                     staging, nextOp, unused, fresh, asked>>
  PROVE  DraftInv'
  <1> USE DEF DraftKinds
  <1>1. /\ op \in Pending /\ op \in UnderWay /\ worker = "up" /\ worker' = "up" /\ UnderWay' \subseteq UnderWay
        /\ \A o \in UnderWay : o.n \in Nat /\ o.kind \in OpKinds /\ (o.kind \in DraftKinds => o.id \in Drafts)
    BY AtRest, UnderWayIs DEF Leaves
  <1>2. Shapes'
    BY <1>1, AtRest DEF Shapes
  <1>3. InOrder'
    BY <1>1, AtRest DEF InOrder
  <1>4. Restored'
    <2>1. catalog # "ready" => op.kind \in {"load", "signature"}
      BY <1>1, AtRest DEF Restored
    <2>2. op.kind \in {"load", "signature"} => UNCHANGED <<stored, staged, unsaved, litter>>
      BY DEF Effect, Saves, Deletes, Stages, Removes
    <2>3. catalog = "loading" /\ loadOp = None => saved' = stored'
      BY <2>1, <2>2, AtRest DEF Restored
    <2> QED  BY <1>1, <2>1, <2>2, <2>3, AtRest DEF Restored
  <1>5. Open'
    BY AtRest DEF Open
  <1>6. Projected'
    <2>1. \/ op.kind = "save" /\ \E p \in Pending' : p.kind = "save" /\ p.id = op.id
          \/ op.kind = "save" /\ stored'[op.id] = op.version
          \/ op.kind = "delete" /\ stored'[op.id] = None
          \/ op.kind \in {"save", "delete"} /\ op.id \in unsaved'
          \/ op.kind \notin {"save", "delete"} /\ UNCHANGED <<stored, unsaved>>
      BY DEF Effect, Saves, Deletes, Stages, Removes
    <2> QED  BY <2>1, AtRest, ProjectedRun
  <1>7. Located'
    <2>1. \/ staged' = staged /\ (op.kind # "stage" \/ Done' \subseteq Done)
          \/ op.kind = "delete" /\ staged'[op.id] \subseteq staged[op.id]
          \/ op.kind = "stage" /\ staged'[op.id] = staged[op.id] \cup {op.file}
          \/ op.kind = "remove" /\ staged'[op.id] = staged[op.id] \ {op.file}
      BY DEF Effect, Saves, Deletes, Stages, Removes
    <2>2. \/ litter' = litter
          \/ op.kind = "remove" /\ litter' = litter \cup {op.file}
          \/ op.kind = "stage" /\ litter' = litter \cup {op.file} /\ Done' = Done
      BY DEF Effect, Saves, Deletes, Stages, Removes
    <2>3. \A o \in Done : o.n < op.n
      BY DEF Done, Answers, Answering
    <2> QED  BY <2>1, <2>2, <2>3, AtRest, LocatedRun DEF Projected
  <1>8. NoneLeft'
    <2>1. litter \subseteq litter'
      BY DEF Effect, Saves, Deletes, Stages, Removes
    <2>2. \A d \in Drafts : \A f \in staged'[d] :
             \/ f \in staged[d]
             \/ op.kind = "stage" /\ op.id = d /\ op.file = f /\ (op \in Done' \/ f \in litter')
      <3> SUFFICES ASSUME NEW d \in Drafts, NEW f \in staged'[d], f \notin staged[d]
                   PROVE  op.kind = "stage" /\ op.id = d /\ op.file = f /\ (op \in Done' \/ f \in litter')
        OBVIOUS
      <3>1. op.kind \in DraftKinds /\ d = op.id
        BY DEF Touches
      <3> QED  BY <3>1 DEF Effect, Saves, Deletes, Stages, Removes
    <2>3. op.kind = "remove" => op.file \in litter' \/ op.file \notin staged'[op.id]
      BY DEF Effect, Saves, Deletes, Stages, Removes
    <2>4. op.kind = "delete" => op.id \in unsaved' \/ staged'[op.id] = {}
      BY DEF Effect, Saves, Deletes, Stages, Removes
    <2>5. \A d \in Drafts : d \in unsaved /\ d \notin unsaved' => op.kind \in {"save", "delete"} /\ op.id = d
      BY DEF Effect, Saves, Deletes, Stages, Removes
    <2> QED  BY <2>1, <2>2, <2>3, <2>4, <2>5, AtRest, NoneLeftRun
  <1>9. Acknowledged'
    <2>1. \/ op.kind = "save" /\ (stored'[op.id] = op.version \/ op.id \in unsaved' \/ op \notin Done')
          \/ op.kind = "delete"
          \/ op.kind \notin {"save", "delete"} /\ UNCHANGED <<stored, unsaved>>
      <3>1. op \notin Done
        BY <1>1 DEF Done, Answers, Answering
      <3> QED  BY <3>1 DEF Effect, Saves, Deletes, Stages, Removes
    <2> QED  BY <2>1, AtRest, AcknowledgedRun
  <1>10. Closing'
    BY <1>1, AtRest DEF Closing
  <1>11. Written'
    <2>1. \/ op.kind = "save" /\ stored'[op.id] = op.version
          \/ op.kind = "save" /\ stored' = stored /\ Done' \subseteq Done
          \/ op.kind = "delete"
          \/ op.kind \notin {"save", "delete"} /\ stored' = stored
      BY DEF Effect, Saves, Deletes, Stages, Removes
    <2> QED  BY <2>1, AtRest, WrittenRun
  <1> QED  BY <1>2, <1>3, <1>4, <1>5, <1>6, <1>7, <1>8, <1>9, <1>10, <1>11 DEF DraftInv

LEMMA ActorSkipsKeeps ==
  ASSUME DraftInv, ActorSkips
  PROVE  DraftInv'
  <1> DEFINE op == Head(batch)
  <1>1. /\ worker = "up" /\ batch # <<>> /\ batch' = Tail(batch) /\ Obsolete
        /\ UNCHANGED <<catalog, generation, loadOp, signatureOp, composer, saved, latest, saveState, pendingClose,
                       staging, nextOp, unused, fresh, asked, queue, worker, events, stored, staged, unsaved, litter>>
    BY DEF ActorSkips, restoreVars, saveVars, drawn, appVars, diskVars
  <1>2. /\ Ordered(queue', batch', events', nextOp') /\ Leaves(op) /\ Done' = Done
        /\ \A o \in Answers(events, Answering) : o.n < op.n
    BY <1>1, AtRest, LeftOne
  <1>3. op.kind = "save" /\ \E p \in Pending' : p.kind = "save" /\ p.id = op.id
    <2>1. PICK i \in 2 .. Len(batch) : batch[i].kind = "save" /\ batch[i].id = op.id
      BY <1>1 DEF Obsolete, IsSave
    <2>2. i - 1 \in DOMAIN batch' /\ batch'[i - 1] = batch[i]
      BY <1>1, <2>1, AtRest, TailIs DEF InOrder, Ordered
    <2>3. batch[i] \in Pending'
      BY <2>2 DEF Pending, Waiting
    <2> QED  BY <1>1, <2>1, <2>3 DEF Obsolete, IsSave
  <1> HIDE DEF op
  <1>4. Effect(op) /\ Touches(op)
    BY <1>1, <1>2, <1>3 DEF Effect, Saves, Touches
  <1>5. \A c \in Loads(events') : c \in Loads(events)
    BY <1>1
  <1>6. stored' \in Catalogs /\ staged' \in [Drafts -> SUBSET Files]
    BY <1>1, AtRest DEF Shapes
  <1> QED  BY <1>1, <1>2, <1>4, <1>5, <1>6, RunKeeps

\* Perform and FailHalfWay, one kind of operation at a time.
LEMMA PerformIs ==
  ASSUME NEW op, Perform(op)
  PROVE  /\ op.kind = "save" => /\ stored' = [stored EXCEPT ![op.id] = op.version]
                                /\ unsaved' = unsaved \ {op.id} /\ UNCHANGED <<staged, litter>>
         /\ op.kind = "delete" => /\ stored' = [stored EXCEPT ![op.id] = None]
                                  /\ staged' = [staged EXCEPT ![op.id] = {}]
                                  /\ unsaved' = unsaved \ {op.id} /\ UNCHANGED litter
         /\ op.kind = "stage" => /\ staged' = [staged EXCEPT ![op.id] = @ \cup {op.file}]
                                 /\ UNCHANGED <<stored, unsaved, litter>>
         /\ op.kind = "remove" => /\ staged' = [staged EXCEPT ![op.id] = @ \ {op.file}]
                                  /\ UNCHANGED <<stored, unsaved, litter>>
         /\ op.kind \notin DraftKinds => UNCHANGED <<stored, staged, unsaved, litter>>
  <1>1. CASE op.kind = "save"  BY <1>1, Zenon DEF Perform, DraftKinds
  <1>2. CASE op.kind = "delete"  BY <1>2, Zenon DEF Perform, DraftKinds
  <1>3. CASE op.kind = "stage"  BY <1>3, Zenon DEF Perform, DraftKinds
  <1>4. CASE op.kind = "remove"  BY <1>4, Zenon DEF Perform, DraftKinds
  <1>5. CASE op.kind \notin DraftKinds
    <2>1. op.kind # "save" /\ op.kind # "delete" /\ op.kind # "stage" /\ op.kind # "remove"
      BY <1>5 DEF DraftKinds
    <2>2. UNCHANGED diskVars
      BY <2>1, Zenon DEF Perform
    <2> QED  BY <2>1, <2>2 DEF diskVars
  <1> QED  BY <1>1, <1>2, <1>3, <1>4, <1>5 DEF DraftKinds

LEMMA FailHalfWayIs ==
  ASSUME NEW op, FailHalfWay(op)
  PROVE  /\ op.kind = "save" => unsaved' = unsaved \cup {op.id} /\ UNCHANGED <<stored, staged, litter>>
         /\ op.kind = "delete" => /\ \E rest \in SUBSET staged[op.id] : staged' = [staged EXCEPT ![op.id] = rest]
                                  /\ \E left \in {stored[op.id], None} : stored' = [stored EXCEPT ![op.id] = left]
                                  /\ unsaved' = unsaved \cup {op.id} /\ UNCHANGED litter
         /\ op.kind = "remove" => litter' = litter \cup {op.file} /\ UNCHANGED <<stored, staged, unsaved>>
         /\ op.kind = "stage" =>
               /\ UNCHANGED <<stored, unsaved>>
               /\ \/ UNCHANGED <<staged, litter>>
                  \/ /\ staged' = [staged EXCEPT ![op.id] = @ \cup {op.file}]
                     /\ litter' = litter \cup {op.file}
         /\ op.kind \notin DraftKinds => UNCHANGED <<stored, staged, unsaved, litter>>
  <1>1. CASE op.kind = "save"  BY <1>1, Zenon DEF FailHalfWay, DraftKinds
  <1>2. CASE op.kind = "delete"  BY <1>2, Zenon DEF FailHalfWay, DraftKinds
  <1>3. CASE op.kind = "remove"  BY <1>3, Zenon DEF FailHalfWay, DraftKinds
  <1>4. CASE op.kind = "stage"
    BY <1>4, Zenon DEF FailHalfWay, DraftKinds, diskVars
  <1>5. CASE op.kind \notin DraftKinds
    <2>1. op.kind # "save" /\ op.kind # "delete" /\ op.kind # "stage" /\ op.kind # "remove"
      BY <1>5 DEF DraftKinds
    <2>2. UNCHANGED diskVars
      BY <2>1, Zenon DEF FailHalfWay
    <2> QED  BY <2>1, <2>2 DEF diskVars
  <1> QED  BY <1>1, <1>2, <1>3, <1>4, <1>5 DEF DraftKinds

\* An operation changes the directory of its own draft.
LEMMA EffectIs ==
  ASSUME Shapes, NEW op, WellFormed(op), (Perform(op) /\ op \in Done') \/ (FailHalfWay(op) /\ Done' = Done)
  PROVE  /\ Effect(op) /\ Touches(op)
         /\ stored' \in Catalogs /\ staged' \in [Drafts -> SUBSET Files]
  <1>1. /\ stored \in [Drafts -> Revisions \cup {None}] /\ staged \in [Drafts -> SUBSET Files]
        /\ op.kind \in DraftKinds => op.id \in Drafts
        /\ op.kind = "save" => op.version \in Revisions
        /\ op.kind \in {"stage", "remove"} => op.file \in Files
    BY DEF Shapes, Catalogs, WellFormed, DraftKinds
  <1>2. \A d \in Drafts, w \in Revisions \cup {None} :
           /\ [stored EXCEPT ![d] = w] \in [Drafts -> Revisions \cup {None}]
           /\ [stored EXCEPT ![d] = w][d] = w
           /\ \A x \in Drafts : x # d => [stored EXCEPT ![d] = w][x] = stored[x]
    BY <1>1
  <1>3. \A d \in Drafts, w \in SUBSET Files :
           /\ [staged EXCEPT ![d] = w] \in [Drafts -> SUBSET Files]
           /\ [staged EXCEPT ![d] = w][d] = w
           /\ \A x \in Drafts : x # d => [staged EXCEPT ![d] = w][x] = staged[x]
    BY <1>1
  <1>4. CASE op.kind = "save"
    <2>1. /\ staged' = staged /\ litter' = litter
          /\ \/ stored' = [stored EXCEPT ![op.id] = op.version] /\ unsaved' = unsaved \ {op.id}
             \/ unsaved' = unsaved \cup {op.id} /\ stored' = stored /\ Done' = Done
      BY <1>4, PerformIs, FailHalfWayIs
    <2>2. CASE stored' = [stored EXCEPT ![op.id] = op.version] /\ unsaved' = unsaved \ {op.id}
      <3>1. /\ stored' \in [Drafts -> Revisions \cup {None}] /\ stored'[op.id] = op.version
            /\ \A x \in Drafts : x # op.id => stored'[x] = stored[x]
        BY <2>2, <1>1, <1>2, <1>4 DEF DraftKinds
      <3> QED  BY <2>1, <2>2, <3>1, <1>1, <1>4 DEF Effect, Saves, Touches, Catalogs, DraftKinds
    <2>3. CASE unsaved' = unsaved \cup {op.id} /\ stored' = stored /\ Done' = Done
      BY <2>1, <2>3, <1>1, <1>4 DEF Effect, Saves, Touches, Catalogs, DraftKinds
    <2> QED  BY <2>1, <2>2, <2>3
  <1>5. CASE op.kind = "delete"
    <2>0. op.id \in Drafts /\ staged[op.id] \subseteq Files /\ stored[op.id] \in Revisions \cup {None} /\ litter' = litter
      BY <1>1, <1>5, PerformIs, FailHalfWayIs DEF DraftKinds
    <2>1. PICK w \in {stored[op.id], None}, r \in SUBSET staged[op.id] :
             /\ stored' = [stored EXCEPT ![op.id] = w] /\ staged' = [staged EXCEPT ![op.id] = r]
             /\ \/ w = None /\ r = {} /\ unsaved' = unsaved \ {op.id}
                \/ unsaved' = unsaved \cup {op.id}
      <3>1. CASE Perform(op)
        <4>1. {} \in SUBSET staged[op.id] /\ None \in {stored[op.id], None}
          OBVIOUS
        <4> QED  BY <3>1, <4>1, <1>5, PerformIs
      <3>2. CASE FailHalfWay(op)
        BY <3>2, <1>5, FailHalfWayIs
      <3> QED  BY <3>1, <3>2
    <2>2. /\ stored' \in [Drafts -> Revisions \cup {None}] /\ stored'[op.id] = w
          /\ \A x \in Drafts : x # op.id => stored'[x] = stored[x]
      BY <2>0, <2>1, <1>2
    <2>3. /\ staged' \in [Drafts -> SUBSET Files] /\ staged'[op.id] = r
          /\ \A x \in Drafts : x # op.id => staged'[x] = staged[x]
      <3>1. r \in SUBSET Files
        BY <2>0, <2>1
      <3> QED  BY <2>0, <2>1, <3>1, <1>3
    <2> QED  BY <2>0, <2>1, <2>2, <2>3, <1>5 DEF Effect, Deletes, Touches, Catalogs, DraftKinds
  <1>6. CASE op.kind \in {"stage", "remove"}
    <2>0. /\ op.id \in Drafts /\ staged[op.id] \cup {op.file} \in SUBSET Files /\ staged[op.id] \ {op.file} \in SUBSET Files
      BY <1>1, <1>6 DEF DraftKinds
    <2>1. CASE Perform(op) /\ op \in Done'
      <3>1. PICK w \in SUBSET Files :
               /\ staged' = [staged EXCEPT ![op.id] = w]
               /\ op.kind = "stage" => w = staged[op.id] \cup {op.file}
               /\ op.kind = "remove" => w = staged[op.id] \ {op.file}
        BY <2>0, <2>1, <1>6, PerformIs
      <3>2. /\ staged' \in [Drafts -> SUBSET Files] /\ staged'[op.id] = w
            /\ \A x \in Drafts : x # op.id => staged'[x] = staged[x]
        BY <2>0, <3>1, <1>3
      <3>3. UNCHANGED <<stored, unsaved, litter>>
        BY <2>1, <1>6, PerformIs
      <3> QED  BY <2>1, <3>1, <3>2, <3>3, <1>1, <1>6 DEF Effect, Stages, Removes, Touches, Catalogs, DraftKinds
    <2>2. CASE FailHalfWay(op) /\ Done' = Done /\ op.kind = "remove"
      <3>1. UNCHANGED <<stored, staged, unsaved>> /\ litter' = litter \cup {op.file}
        BY <2>2, FailHalfWayIs
      <3> QED  BY <2>2, <3>1, <1>1 DEF Effect, Removes, Touches, Catalogs, DraftKinds
    <2>3. CASE FailHalfWay(op) /\ Done' = Done /\ op.kind = "stage"
      <3>1. /\ UNCHANGED <<stored, unsaved>>
            /\ \/ UNCHANGED <<staged, litter>>
               \/ staged' = [staged EXCEPT ![op.id] = @ \cup {op.file}] /\ litter' = litter \cup {op.file}
        BY <2>3, FailHalfWayIs
      <3>2. CASE UNCHANGED <<staged, litter>>
        BY <2>3, <3>1, <3>2, <1>1 DEF Effect, Stages, Touches, Catalogs, DraftKinds
      <3>3. CASE staged' = [staged EXCEPT ![op.id] = @ \cup {op.file}] /\ litter' = litter \cup {op.file}
        <4>1. /\ staged' \in [Drafts -> SUBSET Files] /\ staged'[op.id] = staged[op.id] \cup {op.file}
              /\ \A x \in Drafts : x # op.id => staged'[x] = staged[x]
          BY <2>0, <3>3, <1>3
        <4> QED  BY <2>3, <3>1, <3>3, <4>1, <1>1 DEF Effect, Stages, Touches, Catalogs, DraftKinds
      <3> QED  BY <3>1, <3>2, <3>3
    <2> QED  BY <2>1, <2>2, <2>3, <1>6
  <1>7. CASE op.kind \notin DraftKinds
    <2>1. UNCHANGED <<stored, staged, unsaved, litter>>
      BY <1>7, PerformIs, FailHalfWayIs
    <2> QED  BY <2>1, <1>1, <1>7 DEF Effect, Touches, Catalogs
  <1> QED  BY <1>4, <1>5, <1>6, <1>7 DEF DraftKinds

LEMMA ActorRunsKeeps ==
  ASSUME DraftInv, ActorRuns
  PROVE  DraftInv'
  <1> DEFINE op == Head(batch)
  <1>1. /\ worker = "up" /\ batch # <<>> /\ batch' = Tail(batch)
        /\ UNCHANGED <<catalog, generation, loadOp, signatureOp, composer, saved, latest, saveState, pendingClose,
                       staging, nextOp, unused, fresh, asked, queue, worker>>
    BY DEF ActorRuns, restoreVars, saveVars, drawn, appVars
  <1>2. WellFormed(op) /\ stored \in Catalogs
    BY <1>1, AtRest, LeaveOne DEF InOrder, Shapes
  <1>3. PICK r : /\ events' = Append(events, r) /\ r.op = op
                 /\ \/ Perform(op) /\ r.kind \in {"loaded", "done"}
                    \/ FailHalfWay(op) /\ r.kind = "failed"
                 /\ r.kind = "loaded" => r.drafts = stored
                 /\ r.kind = "loaded" <=> r.kind # "failed" /\ op.kind = "load"
    <2>1. CASE Perform(op) /\ op.kind = "load" /\ events' = Append(events, [kind |-> "loaded", op |-> op, drafts |-> stored])
      BY <2>1
    <2>2. CASE Perform(op) /\ op.kind # "load" /\ Reply("done", op)
      BY <2>2 DEF Reply
    <2>3. CASE FailHalfWay(op) /\ Reply("failed", op)
      BY <2>3 DEF Reply
    <2> QED  BY <2>1, <2>2, <2>3 DEF ActorRuns
  <1> HIDE DEF op
  <1>4. GoodEvent(r) /\ r.kind \in Answering
    BY <1>2, <1>3 DEF GoodEvent, Answering, Replies
  <1>5. /\ Ordered(queue', batch', events', nextOp') /\ Leaves(op)
        /\ Done \subseteq Done' /\ Done' \subseteq Done \cup {op}
        /\ \A o \in Answers(events, Answering) : o.n < op.n
        /\ r.kind = "done" => op \in Done'
        /\ r.kind # "done" => Done' = Done
    BY <1>1, <1>3, <1>4, AtRest, LeftOne DEF op
  <1>6. \A c \in Loads(events') : c \in Loads(events) \/ (op.kind = "load" /\ c = stored)
    BY <1>3, AtRest, LoadsAppend DEF InOrder, Ordered
  <1>7. /\ Effect(op) /\ Touches(op)
        /\ stored' \in Catalogs /\ staged' \in [Drafts -> SUBSET Files]
    <2>1. CASE op.kind = "load"
      <3>1. UNCHANGED <<stored, staged, unsaved, litter>>
        BY <2>1, <1>3, PerformIs, FailHalfWayIs DEF DraftKinds
      <3> QED  BY <2>1, <3>1, AtRest DEF Effect, Touches, DraftKinds, Shapes
    <2>2. CASE op.kind # "load"
      <3>1. (Perform(op) /\ op \in Done') \/ (FailHalfWay(op) /\ Done' = Done)
        BY <2>2, <1>3, <1>5
      <3> QED  BY <3>1, <1>2, AtRest, EffectIs
    <2> QED  BY <2>1, <2>2
  <1> QED  BY <1>1, <1>5, <1>6, <1>7, RunKeeps

-----------------------------------------------------------------------------
(* The theorems                                                               *)

LEMMA InitHolds == Init => DraftInv
  <1> SUFFICES ASSUME Init
               PROVE  DraftInv
    OBVIOUS
  <1> USE DEF Init
  <1>1. None \notin Nat /\ None \notin Revisions /\ Blank \in Revisions
    BY NoneAssumption DEF Revisions, Blank
  <1>2. stored \in Catalogs /\ saved \in Catalogs
    BY <1>1 DEF Catalogs, Blank
  <1>3. Ordered(<<>>, <<>>, <<>>, 1) /\ Waiting(<<>>, <<>>) = {}
    BY DEF Ordered, Waiting, IsSeq
  <1>4. Answers(<<>>, Answering) = {} /\ Answers(<<>>, {"done"}) = {} /\ Loads(<<>>) = {}
    BY DEF Answers, Loads
  <1>5. Pending = {} /\ Done = {} /\ UnderWay = {}
    BY <1>3, <1>4 DEF Pending, Done, UnderWay
  <1>6. Shapes
    BY <1>2 DEF Shapes
  <1>7. InOrder
    BY <1>3 DEF InOrder
  <1>8. Restored
    <2>1. \A d \in Drafts : stored[d] # None => stored[d].files = {}
      OBVIOUS
    <2> QED  BY <1>4, <1>5, <2>1 DEF Restored
  <1>9. Open
    BY DEF Open
  <1>10. Projected
    BY <1>5 DEF Projected, Unborn, Deleted, Raised, Rising, Final, Doomed, Upcoming, Settled
  <1>11. Located
    BY <1>5 DEF Located, Undrawn, OneDraft, OneArrival, Arriving, NotBoth, Leaving, Littered, Arrived, Present, Attached, Nowhere
  <1>12. NoneLeft
    BY DEF NoneLeft
  <1>13. Acknowledged
    BY <1>5 DEF Acknowledged, Synced
  <1>14. Closing /\ Written
    BY <1>1, <1>5 DEF Closing, Written
  <1> QED  BY <1>6, <1>7, <1>8, <1>9, <1>10, <1>11, <1>12, <1>13, <1>14 DEF DraftInv

LEMMA StutterKeeps ==
  ASSUME DraftInv, UNCHANGED vars
  PROVE  DraftInv'
  <1> USE DEF vars, restoreVars, saveVars, drawn, appVars, diskVars, workerVars
  <1>1. Pending' = Pending /\ Done' = Done /\ UnderWay' = UnderWay /\ Synced' = Synced
    BY DEF Pending, Done, UnderWay, Synced
  <1>2. \A d, f : (Attached(d, f)' <=> Attached(d, f)) /\ (Justified(d, f)' <=> Justified(d, f))
    BY <1>1 DEF Attached, Justified
  <1>3. Shapes' /\ InOrder' /\ Restored' /\ Open'
    BY <1>1, AtRest DEF Shapes, InOrder, Restored, Open
  <1>4. Projected'
    BY <1>1, AtRest DEF Projected, Unborn, Deleted, Raised, Rising, Final, Doomed, Upcoming, Settled
  <1>5. Located'
    BY <1>1, <1>2, AtRest
       DEF Located, Undrawn, OneDraft, OneArrival, Arriving, NotBoth, Leaving, Littered, Arrived, Present, Nowhere
  <1>6. NoneLeft' /\ Acknowledged' /\ Closing' /\ Written'
    BY <1>1, <1>2, AtRest DEF NoneLeft, Acknowledged, Closing, Written
  <1> QED  BY <1>3, <1>4, <1>5, <1>6 DEF DraftInv

LEMMA StepKeeps == DraftInv /\ [Next]_vars => DraftInv'
  <1> SUFFICES ASSUME DraftInv, [Next]_vars
               PROVE  DraftInv'
    OBVIOUS
  <1>1. CASE User
    <2>1. CASE EnsureLocalRestore \/ RetryDraftRestore
      BY <2>1, LoadKeeps
    <2>2. CASE (\E what \in {"compose", "resume"} : WaitForRestore(what)) \/ ConfirmResend \/ CloseWindow
      BY <2>2, UserQuietKeeps
    <2>3. CASE \E d \in Drafts : BeginCompose(d) \/ ResumeDraft(d)
      BY <2>3, BeginComposeKeeps, ResumeDraftKeeps
    <2>4. CASE Edit
      BY <2>4, EditKeeps
    <2>5. CASE \E f \in Files : StageAttachment(f) \/ RemoveAttachment(f)
      BY <2>5, StageAttachmentKeeps, RemoveAttachmentKeeps
    <2>6. CASE HideComposer \/ CloseOverDraft
      BY <2>6, LeaveComposerKeeps
    <2>7. CASE SendMessage
      BY <2>7, SendMessageKeeps
    <2>8. CASE DiscardDraft
      BY <2>8, DiscardDraftKeeps
    <2> QED  BY <1>1, <2>1, <2>2, <2>3, <2>4, <2>5, <2>6, <2>7, <2>8 DEF User
  <1>2. CASE Actor
    BY <1>2, ActorReceivesKeeps, ActorSkipsKeeps, ActorRunsKeeps DEF Actor
  <1>3. CASE MailSettles
    BY <1>3, MailSettlesKeeps
  <1>4. CASE HandleEvent
    <2>1. OnAttachmentStaged => DraftInv'
      BY AttachKeeps, DetachKeeps
    <2> QED  BY <1>4, <2>1, OnDraftsLoadedKeeps, OnSignatureLoadedKeeps, DropStaleRestoreKeeps, OnDraftSavedKeeps,
                OnDraftDeletedKeeps, OnStagedRemovedKeeps, OnDraftOperationFailedKeeps, OnMessageSentKeeps,
                OnAccountMessageSentKeeps, OnMessageSendFailedKeeps, UnavailableKeeps DEF HandleEvent
  <1>5. CASE ShutDown \/ WorkerDies
    BY <1>5, WorkerEndsKeeps
  <1>6. CASE UNCHANGED vars
    BY <1>6, StutterKeeps
  <1> QED  BY <1>1, <1>2, <1>3, <1>4, <1>5, <1>6 DEF Next

\* The invariant holds in every reachable state.
LEMMA Invariant == Spec => []DraftInv
  <1> QED  BY InitHolds, StepKeeps, PTL DEF Spec

\* Once everything is answered, the drafts listed are the drafts on disk
\* (coalesce_draft_saves of worker.rs, queue_draft_save of state.rs).
THEOREM DraftsListed == Spec => []ListedDraftsAreStored
  <1>1. DraftInv => ListedDraftsAreStored
    <2>1. Waiting(<<>>, <<>>) = {}
      BY DEF Waiting
    <2> QED  BY <2>1, AtRest DEF ListedDraftsAreStored, Quiet, Pending, Projected, Settled
  <1> QED  BY <1>1, Invariant, PTL

\* And the staged files on disk are those the drafts refer to (stage_file and
\* remove_staged of drafts.rs, attachment_staged of state.rs).
THEOREM FilesReferenced == Spec => []StagedFilesAreReferenced
  <1>1. DraftInv => StagedFilesAreReferenced
    <2> SUFFICES ASSUME DraftInv, Quiet, NEW d \in Drafts, d \notin unsaved
                 PROVE  staged[d] \ litter = IF stored[d] = None THEN {} ELSE stored[d].files
      BY DEF StagedFilesAreReferenced
    <2>1. Pending = {} /\ Done = {} /\ worker = "up"
      BY DEF Pending, Done, Waiting, Answers, Quiet
    <2>2. CASE catalog # "ready"
      BY <2>2, AtRest DEF Restored
    <2>3. CASE catalog = "ready"
      <3>1. stored[d] = saved[d]
        BY <2>1, <2>3, AtRest DEF Projected, Settled
      <3>2. \A f \in staged[d] : f \in litter \/ Attached(d, f)
        BY <2>1, AtRest DEF NoneLeft, Justified
      <3>3. saved[d] # None => saved[d].files \subseteq staged[d]
        BY AtRest DEF Located, Present
      <3>4. saved[d] # None => \A f \in saved[d].files : f \notin litter
        BY AtRest DEF Located, Littered, Nowhere, Attached
      <3>5. CASE saved[d] = None
        BY <3>1, <3>2, <3>5 DEF Attached
      <3>6. CASE saved[d] # None
        BY <3>1, <3>2, <3>3, <3>4, <3>6 DEF Attached
      <3> QED  BY <3>5, <3>6
    <2> QED  BY <2>2, <2>3
  <1> QED  BY <1>1, Invariant, PTL

\* "Saved on this device" is said only of what the disk holds (DraftSaved of
\* state.rs).
THEOREM SavedIsStored == Spec => []SavedMeansStored
  <1>1. DraftInv => SavedMeansStored
    BY AtRest, CatalogsHold DEF SavedMeansStored, ComposerOpen, Acknowledged, Synced, Open
  <1> QED  BY <1>1, Invariant, PTL

\* A draft being composed or sent has all its files (materialize_submission of
\* worker.rs).
THEOREM OpenDraftComplete == Spec => []OpenDraftHasItsFiles
  <1>1. DraftInv => OpenDraftHasItsFiles
    BY AtRest, CatalogsHold DEF OpenDraftHasItsFiles, Open, Located, Present
  <1> QED  BY <1>1, Invariant, PTL

\* The window closes over an open draft only once that draft is stored as it was
\* when the close was asked for, or later (hide_composer_and_close_app and
\* DraftSaved of state.rs).
THEOREM ClosesStored == Spec => ClosesOverStoredDraft
  <1> DEFINE Step == window = "open" /\ window' = "closed" /\ composer # Closed
                       => stored[asked.id] # None /\ stored[asked.id].rev >= asked.version.rev
  <1>1. ASSUME DraftInv, [Next]_vars
        PROVE  Step
    <2> SUFFICES ASSUME window = "open", window' = "closed", composer # Closed
                 PROVE  stored[asked.id] # None /\ stored[asked.id].rev >= asked.version.rev
      OBVIOUS
    <2> DEFINE op == Head(events).op
    <2>1. /\ events # <<>> /\ events' = Tail(events) /\ Head(events).kind = "done" /\ op.kind = "save"
          /\ pendingClose = op.n
      <3>1. CASE User
        BY <3>1 DEF User, EnsureLocalRestore, RetryDraftRestore, LoadLocal, WaitForRestore, BeginCompose, ResumeDraft,
                    Edit, StageAttachment, RemoveAttachment, HideComposer, CloseOverDraft, CloseWindow, SendMessage,
                    ConfirmResend, DiscardDraft, appVars
      <3>2. CASE Actor \/ MailSettles \/ ShutDown \/ WorkerDies \/ UNCHANGED vars
        BY <3>2 DEF Actor, ActorReceives, ActorSkips, ActorRuns, MailSettles, ShutDown, WorkerDies, vars, appVars
      <3>3. CASE HandleEvent
        BY <3>3 DEF HandleEvent, OnDraftsLoaded, OnSignatureLoaded, DropStaleRestore, OnDraftSaved, OnDraftDeleted,
                    OnAttachmentStaged, OnStagedRemoved, OnDraftOperationFailed, OnMessageSent, OnAccountMessageSent,
                    OnMessageSendFailed, OnWorkerUnavailable, ReceiveDone, Receive, appVars
      <3> QED  BY <3>1, <3>2, <3>3, <1>1 DEF Next
    <2>2. op \in Done /\ op \in UnderWay
      BY <1>1, <2>1, AtRest, HeardIs DEF Answering
    <2>3. op.id \in Drafts /\ op.n \in Nat
      BY <1>1, <2>1, <2>2, AtRest, UnderWayIs DEF DraftKinds
    <2>4. pendingClose # None
      BY <1>1, <2>1, <2>3, AtRest, CatalogsHold
    <2>5. op.id = asked.id /\ op.version = asked.version /\ saved[asked.id] # None
      BY <1>1, <2>1, <2>2, <2>4, AtRest DEF Closing
    <2>6. stored[op.id] # None /\ op.version.rev <= stored[op.id].rev
      BY <1>1, <2>1, <2>2, <2>5, AtRest DEF Written
    <2>7. op.version.rev \in Nat /\ stored[op.id].rev \in Nat
      BY <1>1, <2>1, <2>2, <2>3, <2>6, AtRest, UnderWayIs, CatalogsHold
    <2> QED  BY <2>5, <2>6, <2>7
  <1> QED  BY <1>1, Invariant, PTL DEF Spec, ClosesOverStoredDraft
=============================================================================
