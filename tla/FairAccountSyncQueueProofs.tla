---------------------- MODULE FairAccountSyncQueueProofs ----------------------
(* What TLAPS proves about FairAccountSyncQueue, for every set of accounts and *)
(* every max_in_flight, zero included.                                        *)
EXTENDS FairAccountSyncQueue, FiniteSetTheorems, TLAPS

NoRepeat(s) == \A i, j \in DOMAIN s : s[i] = s[j] => i = j

Queued == Range(foreground) \cup Range(background)

\* Queues without repetition, apart from each other and from what is active.
Distinct ==
    /\ NoRepeat(foreground) /\ NoRepeat(background)
    /\ Range(foreground) \cap Range(background) = {}
    /\ Queued \cap inFlight = {}

\* scheduled is what is queued or active; the active jobs fit.
Accounted ==
    /\ scheduled = Queued \cup inFlight
    /\ IsFiniteSet(inFlight) /\ Cardinality(inFlight) <= Capacity

\* An account that was bypassed by one still in the queue stands before it.
InTurn ==
    /\ NobodyMonopolizes
    /\ \A i, j \in DOMAIN background : bypassed[background[i]][background[j]] > 0 => i < j

QueueInv == TypeOK /\ Distinct /\ Accounted /\ InTurn

-----------------------------------------------------------------------------
(* The two ends of a queue *)

LEMMA AppendFacts ==
  ASSUME NEW S, NEW s \in Seq(S), NEW e \in S
  PROVE  /\ Append(s, e) \in Seq(S)
         /\ Len(Append(s, e)) = Len(s) + 1 /\ Append(s, e)[Len(s) + 1] = e
         /\ \A i \in 1 .. Len(s) : Append(s, e)[i] = s[i]
         /\ DOMAIN Append(s, e) = 1 .. Len(s) + 1
         /\ Range(Append(s, e)) = Range(s) \cup {e}
  <1>1. /\ Append(s, e) \in Seq(S)
        /\ Len(Append(s, e)) = Len(s) + 1 /\ Append(s, e)[Len(s) + 1] = e
        /\ \A i \in 1 .. Len(s) : Append(s, e)[i] = s[i]
        /\ DOMAIN Append(s, e) = 1 .. Len(s) + 1
    OBVIOUS
  <1>2. DOMAIN s = 1 .. Len(s) /\ Len(s) \in Nat
    OBVIOUS
  <1>3. Range(Append(s, e)) = Range(s) \cup {e}
    <2>1. ASSUME NEW x \in Range(Append(s, e)) PROVE x \in Range(s) \cup {e}
      BY <1>1, <1>2 DEF Range
    <2>2. ASSUME NEW x \in Range(s) \cup {e} PROVE x \in Range(Append(s, e))
      BY <1>1, <1>2 DEF Range
    <2> QED  BY <2>1, <2>2
  <1> QED  BY <1>1, <1>3

LEMMA AppendNoRepeat ==
  ASSUME NEW S, NEW s \in Seq(S), NEW e \in S, NoRepeat(s), e \notin Range(s)
  PROVE  NoRepeat(Append(s, e))
  <1>1. \A i \in 1 .. Len(s) : s[i] # e
    BY DEF Range
  <1> QED  BY <1>1, AppendFacts DEF NoRepeat

LEMMA TailFacts ==
  ASSUME NEW S, NEW s \in Seq(S), s # <<>>
  PROVE  /\ Tail(s) \in Seq(S) /\ Head(s) \in S /\ Head(s) = s[1]
         /\ Len(s) \in Nat \ {0} /\ DOMAIN s = 1 .. Len(s) /\ DOMAIN Tail(s) = 1 .. Len(s) - 1
         /\ \A i \in 1 .. Len(s) - 1 : Tail(s)[i] = s[i + 1]
         /\ Range(s) = Range(Tail(s)) \cup {Head(s)}
  <1>1. /\ Tail(s) \in Seq(S) /\ Head(s) \in S /\ Head(s) = s[1]
        /\ Len(s) \in Nat \ {0} /\ DOMAIN s = 1 .. Len(s) /\ DOMAIN Tail(s) = 1 .. Len(s) - 1
        /\ \A i \in 1 .. Len(s) - 1 : Tail(s)[i] = s[i + 1]
    OBVIOUS
  <1>2. ASSUME NEW x \in Range(s) PROVE x \in Range(Tail(s)) \cup {Head(s)}
    <2>1. PICK i \in 1 .. Len(s) : x = s[i]
      BY <1>1 DEF Range
    <2>2. CASE i = 1
      BY <1>1, <2>1, <2>2
    <2>3. CASE i > 1
      <3>1. i - 1 \in 1 .. Len(s) - 1 /\ Tail(s)[i - 1] = s[i]
        BY <1>1, <2>3
      <3> QED  BY <1>1, <2>1, <3>1 DEF Range
    <2> QED  BY <1>1, <2>2, <2>3
  <1>3. ASSUME NEW x \in Range(Tail(s)) \cup {Head(s)} PROVE x \in Range(s)
    <2>1. CASE x = Head(s)
      BY <1>1, <2>1 DEF Range
    <2>2. CASE x \in Range(Tail(s))
      <3>1. PICK i \in 1 .. Len(s) - 1 : x = s[i + 1]
        BY <1>1, <2>2 DEF Range
      <3> QED  BY <1>1, <3>1 DEF Range
    <2> QED  BY <2>1, <2>2
  <1> QED  BY <1>1, <1>2, <1>3

LEMMA TailNoRepeat ==
  ASSUME NEW S, NEW s \in Seq(S), s # <<>>, NoRepeat(s)
  PROVE  NoRepeat(Tail(s)) /\ Head(s) \notin Range(Tail(s))
  <1>1. NoRepeat(Tail(s))
    BY TailFacts DEF NoRepeat
  <1>2. ASSUME Head(s) \in Range(Tail(s)) PROVE FALSE
    <2>1. PICK i \in 1 .. Len(s) - 1 : s[i + 1] = s[1]
      BY <1>2, TailFacts DEF Range
    <2> QED  BY <2>1, TailFacts DEF NoRepeat
  <1> QED  BY <1>1, <1>2

\* One more active job still fits when there was room.
LEMMA StartFits ==
  ASSUME Accounted, HasRoom, NEW a
  PROVE  IsFiniteSet(inFlight \cup {a}) /\ Cardinality(inFlight \cup {a}) <= Capacity
  <1>1. Cardinality(inFlight) \in Nat /\ Capacity \in Nat
    BY FS_CardinalityType, MaxInFlightAssumption DEF Accounted, Capacity
  <1>2. Cardinality(inFlight \cup {a}) \in {Cardinality(inFlight), Cardinality(inFlight) + 1}
    BY FS_AddElement DEF Accounted
  <1> QED  BY <1>1, <1>2, FS_AddElement DEF Accounted, HasRoom

-----------------------------------------------------------------------------
(* The invariant *)

LEMMA InitQueue == Init => QueueInv
  <1> SUFFICES ASSUME Init PROVE QueueInv
    OBVIOUS
  <1>1. Queued = {} /\ IsFiniteSet(inFlight) /\ Cardinality(inFlight) = 0 /\ Capacity \in Nat
    BY FS_EmptySet, MaxInFlightAssumption DEF Init, Queued, Range, Capacity
  <1>2. TypeOK
    BY DEF Init, TypeOK, Never
  <1>3. Distinct
    BY <1>1 DEF Init, Distinct, NoRepeat, Range
  <1>4. Accounted
    BY <1>1 DEF Init, Accounted
  <1>5. InTurn
    BY DEF Init, InTurn, NobodyMonopolizes, Never
  <1> QED  BY <1>2, <1>3, <1>4, <1>5 DEF QueueInv

LEMMA EnqueueForegroundInv ==
  ASSUME QueueInv, NEW a \in Accounts, EnqueueForeground(a)
  PROVE  QueueInv'
  <1> USE DEF QueueInv
  <1>1. /\ foreground' = Append(foreground, a) /\ UNCHANGED <<background, inFlight, bypassed>>
        /\ scheduled' = scheduled \cup {a} /\ a \notin Queued \cup inFlight
    BY DEF EnqueueForeground, Accounted
  <1>2. TypeOK'
    BY <1>1, AppendFacts DEF TypeOK
  <1>3. foreground \in Seq(Accounts) /\ DOMAIN foreground = 1 .. Len(foreground) /\ Len(foreground) \in Nat
    BY DEF TypeOK
  <1>4. Queued' = Queued \cup {a}
    BY <1>1, <1>3, AppendFacts DEF Queued
  <1>5. Distinct'
    <2>1. NoRepeat(foreground')
      BY <1>1, <1>3, AppendNoRepeat DEF Distinct, Queued
    <2>2. Range(foreground') = Range(foreground) \cup {a}
      BY <1>1, <1>3, AppendFacts
    <2> QED  BY <1>1, <1>4, <2>1, <2>2 DEF Distinct, Queued
  <1>6. Accounted' /\ InTurn'
    BY <1>1, <1>4 DEF Accounted, InTurn, NobodyMonopolizes
  <1> QED  BY <1>2, <1>5, <1>6

LEMMA EnqueueBackgroundInv ==
  ASSUME QueueInv, NEW a \in Accounts, EnqueueBackground(a)
  PROVE  QueueInv'
  <1> USE DEF QueueInv
  <1>1. /\ background' = Append(background, a) /\ UNCHANGED <<foreground, inFlight>>
        /\ bypassed' = [bypassed EXCEPT ![a] = Never]
        /\ scheduled' = scheduled \cup {a} /\ a \notin Queued \cup inFlight
    BY DEF EnqueueBackground, Accounted
  <1>2. /\ background \in Seq(Accounts) /\ DOMAIN background = 1 .. Len(background) /\ Len(background) \in Nat
    BY DEF TypeOK
  <1>3. /\ DOMAIN background' = 1 .. Len(background) + 1 /\ background'[Len(background) + 1] = a
        /\ \A i \in 1 .. Len(background) : background'[i] = background[i]
    BY <1>1, <1>2, AppendFacts
  <1>4. /\ bypassed' \in [Accounts -> [Accounts -> Nat]]
        /\ \A b \in Accounts : bypassed'[a][b] = 0
        /\ \A c \in Accounts \ {a} : bypassed'[c] = bypassed[c]
    BY <1>1 DEF TypeOK, Never
  <1>5. TypeOK'
    BY <1>1, <1>4, AppendFacts DEF TypeOK
  <1>6. Queued' = Queued \cup {a}
    BY <1>1, <1>2, AppendFacts DEF Queued
  <1>7. \A i \in DOMAIN background : background[i] # a /\ background[i] \in Accounts
    BY <1>1, <1>2 DEF Queued, Range
  <1>8. Distinct'
    <2>1. NoRepeat(background')
      BY <1>1, <1>2, AppendNoRepeat DEF Distinct, Queued
    <2>2. Range(background') = Range(background) \cup {a}
      BY <1>1, <1>2, AppendFacts
    <2> QED  BY <1>1, <1>6, <2>1, <2>2 DEF Distinct, Queued
  <1>9. Accounted'
    BY <1>1, <1>6 DEF Accounted
  <1>10. InTurn'
    <2>1. NobodyMonopolizes'
      BY <1>4 DEF InTurn, NobodyMonopolizes
    <2>2. ASSUME NEW i \in DOMAIN background', NEW j \in DOMAIN background',
                 bypassed'[background'[i]][background'[j]] > 0
          PROVE  i < j
      <3>1. i \in 1 .. Len(background) + 1 /\ j \in 1 .. Len(background) + 1
        BY <1>3
      <3>2. background'[j] \in Accounts
        BY <1>2, <1>7, <1>3, <3>1
      <3>3. i # Len(background) + 1
        BY <1>4, <1>3, <2>2, <3>2
      <3>4. i \in DOMAIN background /\ background'[i] = background[i]
        BY <1>2, <1>3, <3>1, <3>3
      <3>5. bypassed'[background'[i]] = bypassed[background[i]]
        BY <1>4, <1>7, <3>4
      <3>6. CASE j = Len(background) + 1
        BY <1>2, <3>1, <3>3, <3>6
      <3>7. CASE j # Len(background) + 1
        <4>1. j \in DOMAIN background /\ background'[j] = background[j]
          BY <1>2, <1>3, <3>1, <3>7
        <4> QED  BY <2>2, <3>4, <3>5, <4>1 DEF InTurn
      <3> QED  BY <3>6, <3>7
    <2> QED  BY <2>1, <2>2 DEF InTurn
  <1> QED  BY <1>5, <1>8, <1>9, <1>10

LEMMA DequeueForegroundInv == ASSUME QueueInv, DequeueForeground PROVE QueueInv'
  <1> USE DEF QueueInv
  <1> DEFINE a == Head(foreground)
  <1>1. /\ foreground' = Tail(foreground) /\ UNCHANGED <<background, scheduled, bypassed>>
        /\ inFlight' = inFlight \cup {a} /\ foreground # <<>> /\ HasRoom
    BY DEF DequeueForeground
  <1>2. foreground \in Seq(Accounts)
    BY DEF TypeOK
  <1>3. /\ foreground' \in Seq(Accounts) /\ a \in Accounts
        /\ Range(foreground) = Range(foreground') \cup {a}
    BY <1>1, <1>2, TailFacts
  <1>4. NoRepeat(foreground') /\ a \notin Range(foreground')
    BY <1>1, <1>2, TailNoRepeat DEF Distinct
  <1> HIDE DEF a
  <1>5. TypeOK'
    BY <1>1, <1>3 DEF TypeOK
  <1>6. Distinct'
    BY <1>1, <1>3, <1>4 DEF Distinct, Queued
  <1>7. Accounted'
    BY <1>1, <1>3, StartFits DEF Accounted, Queued
  <1>8. InTurn'
    BY <1>1 DEF InTurn, NobodyMonopolizes
  <1> QED  BY <1>5, <1>6, <1>7, <1>8

\* The account whose job starts leaves the queue; it bypasses the accounts that
\* stay in it, and had bypassed none of them.
LEMMA DequeueBackgroundInv == ASSUME QueueInv, DequeueBackground PROVE QueueInv'
  <1> USE DEF QueueInv
  <1> DEFINE a == Head(background)
             rest == Tail(background)
  <1>1. /\ background' = rest /\ UNCHANGED <<foreground, scheduled>>
        /\ inFlight' = inFlight \cup {a} /\ background # <<>> /\ HasRoom
    BY DEF DequeueBackground
  <1>2. background \in Seq(Accounts)
    BY DEF TypeOK
  <1>3. /\ rest \in Seq(Accounts) /\ a \in Accounts /\ a = background[1] /\ Len(background) \in Nat \ {0}
        /\ DOMAIN background = 1 .. Len(background) /\ DOMAIN rest = 1 .. Len(background) - 1
        /\ \A i \in 1 .. Len(background) - 1 : rest[i] = background[i + 1]
        /\ Range(background) = Range(rest) \cup {a}
    BY <1>1, <1>2, TailFacts
  <1>4. NoRepeat(rest) /\ a \notin Range(rest)
    BY <1>1, <1>2, TailNoRepeat DEF Distinct
  <1>5. bypassed' = [c \in Accounts |-> IF c \in Range(rest)
                                        THEN [bypassed[c] EXCEPT ![a] = @ + 1]
                                        ELSE bypassed[c]]
    BY DEF DequeueBackground
  <1> HIDE DEF a, rest
  <1>6. bypassed' \in [Accounts -> [Accounts -> Nat]]
    BY <1>3, <1>5 DEF TypeOK
  <1>7. TypeOK'
    BY <1>1, <1>3, <1>6 DEF TypeOK
  <1>8. Distinct'
    BY <1>1, <1>3, <1>4 DEF Distinct, Queued
  <1>9. Accounted'
    BY <1>1, <1>3, StartFits DEF Accounted, Queued
  <1>10. \A c \in Range(rest) : bypassed[c][a] = 0
    <2> SUFFICES ASSUME NEW c \in Range(rest) PROVE bypassed[c][a] = 0
      OBVIOUS
    <2>1. PICK i \in 1 .. Len(background) - 1 : c = background[i + 1]
      BY <1>3 DEF Range
    <2>2. i + 1 \in DOMAIN background /\ 1 \in DOMAIN background /\ ~(i + 1 < 1)
      BY <1>3
    <2>3. ~(bypassed[background[i + 1]][background[1]] > 0)
      BY <2>2 DEF InTurn
    <2>4. c \in Accounts
      BY <1>3, <2>1, <2>2, <1>2
    <2>5. bypassed[c][a] \in Nat
      BY <1>3, <2>4 DEF TypeOK
    <2> QED  BY <1>3, <2>1, <2>3, <2>5
  <1>11. \A c, d \in Accounts : bypassed'[c][d] = IF c \in Range(rest) /\ d = a THEN 1 ELSE bypassed[c][d]
    <2> SUFFICES ASSUME NEW c \in Accounts, NEW d \in Accounts
                 PROVE  bypassed'[c][d] = IF c \in Range(rest) /\ d = a THEN 1 ELSE bypassed[c][d]
      OBVIOUS
    <2>1. bypassed[c] \in [Accounts -> Nat]
      BY DEF TypeOK
    <2>2. CASE c \in Range(rest)
      <3>1. bypassed'[c] = [bypassed[c] EXCEPT ![a] = bypassed[c][a] + 1]
        BY <1>5, <2>2
      <3> QED  BY <1>3, <1>10, <2>1, <2>2, <3>1
    <2>3. CASE c \notin Range(rest)
      BY <1>5, <2>3
    <2> QED  BY <2>2, <2>3
  <1>12. NobodyMonopolizes'
    BY <1>11 DEF InTurn, NobodyMonopolizes
  <1>13. ASSUME NEW i \in DOMAIN rest, NEW j \in DOMAIN rest, bypassed'[rest[i]][rest[j]] > 0
         PROVE  i < j
    <2>1. /\ rest[i] = background[i + 1] /\ rest[j] = background[j + 1]
          /\ i + 1 \in DOMAIN background /\ j + 1 \in DOMAIN background
      BY <1>3
    <2>2. rest[i] \in Accounts /\ rest[j] \in Accounts /\ rest[j] # a
      BY <1>3, <1>4 DEF Range
    <2>3. bypassed[background[i + 1]][background[j + 1]] > 0
      BY <1>11, <1>13, <2>1, <2>2
    <2>4. i + 1 < j + 1
      BY <2>1, <2>3 DEF InTurn
    <2> QED  BY <1>3, <2>4
  <1>14. InTurn'
    BY <1>1, <1>12, <1>13 DEF InTurn
  <1> QED  BY <1>7, <1>8, <1>9, <1>14

LEMMA CompleteInv == ASSUME QueueInv, NEW a \in Accounts, Complete(a) PROVE QueueInv'
  <1> USE DEF QueueInv
  <1>1. /\ UNCHANGED <<foreground, background, bypassed>> /\ a \in inFlight
        /\ inFlight' = inFlight \ {a} /\ scheduled' = scheduled \ {a}
    BY DEF Complete
  <1>2. TypeOK' /\ Distinct' /\ InTurn'
    BY <1>1 DEF TypeOK, Distinct, Queued, InTurn, NobodyMonopolizes
  <1>3. IsFiniteSet(inFlight') /\ Cardinality(inFlight') <= Capacity
    <2>1. Cardinality(inFlight) \in Nat /\ Capacity \in Nat
      BY FS_CardinalityType, MaxInFlightAssumption DEF Accounted, Capacity
    <2>2. IsFiniteSet(inFlight) /\ Cardinality(inFlight) <= Capacity
      BY DEF Accounted
    <2>3. IsFiniteSet(inFlight \ {a}) /\ Cardinality(inFlight \ {a}) = Cardinality(inFlight) - 1
      BY <1>1, <2>2, FS_RemoveElement
    <2> QED  BY <1>1, <2>1, <2>2, <2>3
  <1>4. Accounted'
    BY <1>1, <1>3 DEF Accounted, Distinct, Queued
  <1> QED  BY <1>2, <1>4

LEMMA StepQueue == QueueInv /\ [Next]_vars => QueueInv'
  <1> SUFFICES ASSUME QueueInv, [Next]_vars PROVE QueueInv'
    OBVIOUS
  <1>1. CASE Next
    BY <1>1, EnqueueForegroundInv, EnqueueBackgroundInv, CompleteInv, DequeueForegroundInv, DequeueBackgroundInv
       DEF Next, Dequeue
  <1>2. CASE UNCHANGED vars
    BY <1>2 DEF vars, queueVars, QueueInv, TypeOK, Distinct, Queued, Accounted, InTurn, NobodyMonopolizes
  <1> QED  BY <1>1, <1>2

-----------------------------------------------------------------------------
(* The results *)

\* No call sequence gives an account a second job, whatever the capacity.
THEOREM OneJob == Spec => []OneJobPerAccount
  <1>1. QueueInv => OneJobPerAccount
    BY DEF QueueInv, Distinct, NoRepeat, Queued, OneJobPerAccount, IsInjective
  <1> QED  BY <1>1, InitQueue, StepQueue, PTL DEF Spec

\* Background work takes turns, for any number of accounts: while one waits, no
\* other starts twice.
THEOREM TakesTurns == Spec => []NobodyMonopolizes
  <1>1. QueueInv => NobodyMonopolizes
    BY DEF QueueInv, InTurn
  <1> QED  BY <1>1, InitQueue, StepQueue, PTL DEF Spec

-----------------------------------------------------------------------------
(* The refinement: every call is a step of the slots, or none *)

LEMMA SlotOfAccount ==
  ASSUME NEW a \in Accounts
  PROVE  slotOf[a] = IF a \in inFlight THEN "active" ELSE IF a \in scheduled THEN "waiting" ELSE "idle"
  BY DEF slotOf

LEMMA ActiveSlots == ASSUME QueueInv PROVE Slots!Active = inFlight
  BY DEF QueueInv, TypeOK, Slots!Active, slotOf

LEMMA EnqueueIsRequest ==
  ASSUME QueueInv, NEW a \in Accounts, a \notin scheduled, scheduled' = scheduled \cup {a}, UNCHANGED inFlight
  PROVE  Slots!Request(a)
  <1>1. a \notin inFlight
    BY DEF QueueInv, Accounted
  <1>2. slotOf[a] = "idle"
    BY <1>1 DEF slotOf
  <1>3. slotOf' = [slotOf EXCEPT ![a] = "waiting"]
    BY <1>1 DEF slotOf
  <1> QED  BY <1>2, <1>3 DEF Slots!Request

LEMMA DequeueIsStart ==
  ASSUME QueueInv, NEW a \in Queued, HasRoom, inFlight' = inFlight \cup {a}, UNCHANGED scheduled
  PROVE  \E b \in Accounts : Slots!Start(b)
  <1>1. a \in Accounts /\ a \in scheduled /\ a \notin inFlight
    BY DEF QueueInv, Accounted, Distinct, TypeOK
  <1>2. slotOf[a] = "waiting" /\ Cardinality(Slots!Active) < Capacity
    BY <1>1, ActiveSlots DEF slotOf, HasRoom
  <1>3. slotOf' = [slotOf EXCEPT ![a] = "active"]
    BY <1>1 DEF slotOf
  <1>4. Slots!Start(a)
    <2>1. \A S : Slots!Cardinality(S) = Cardinality(S)
      BY DEF Slots!Cardinality, Cardinality
    <2> QED  BY <1>2, <1>3, <2>1 DEF Slots!Start
  <1> QED  BY <1>1, <1>4

LEMMA CompleteIsEnd ==
  ASSUME QueueInv, NEW a \in Accounts, Complete(a)
  PROVE  Slots!End(a)
  <1>1. slotOf[a] = "active"
    BY DEF Complete, slotOf
  <1>2. slotOf' = [slotOf EXCEPT ![a] = "idle"]
    BY DEF Complete, slotOf
  <1> QED  BY <1>1, <1>2 DEF Slots!End

\* The queues implement one slot per account: also when max_in_flight is 0, at
\* least one and no more than Capacity jobs may be active.
THEOREM QueueImplementsSlots == Spec => Slots!Safety
  <1>1. Init => Slots!Init
    BY DEF Init, Slots!Init, slotOf
  <1>2. ASSUME QueueInv, [Next]_vars PROVE [Slots!Next]_slotOf
    <2>1. CASE \E a \in Accounts : EnqueueForeground(a) \/ EnqueueBackground(a)
      BY <1>2, <2>1, EnqueueIsRequest DEF EnqueueForeground, EnqueueBackground, Slots!Next
    <2>2. CASE \E a \in Accounts : Complete(a)
      BY <1>2, <2>2, CompleteIsEnd DEF Slots!Next
    <2>3. CASE DequeueForeground
      <3>1. Head(foreground) \in Queued
        BY <1>2, <2>3, TailFacts DEF DequeueForeground, QueueInv, TypeOK, Queued
      <3> QED  BY <1>2, <2>3, <3>1, DequeueIsStart DEF DequeueForeground, Slots!Next, Slots!StartSome
    <2>4. CASE DequeueBackground
      <3>1. Head(background) \in Queued
        BY <1>2, <2>4, TailFacts DEF DequeueBackground, QueueInv, TypeOK, Queued
      <3>2. HasRoom /\ inFlight' = inFlight \cup {Head(background)} /\ UNCHANGED scheduled
        BY <2>4 DEF DequeueBackground
      <3> QED  BY <1>2, <3>1, <3>2, DequeueIsStart DEF Slots!Next, Slots!StartSome
    <2>5. CASE UNCHANGED vars
      BY <2>5 DEF vars, queueVars, slotOf
    <2> QED  BY <1>2, <2>1, <2>2, <2>3, <2>4, <2>5 DEF Next, Dequeue
  <1> QED  BY <1>1, <1>2, InitQueue, StepQueue, PTL DEF Spec, Slots!Safety
=============================================================================
