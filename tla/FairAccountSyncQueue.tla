------------------------- MODULE FairAccountSyncQueue -------------------------
(***************************************************************************)
(* FairAccountSyncQueue of src/src/worker.rs: the scheduler of per-account  *)
(* Inbox polls.  Its caller may enqueue, dequeue and complete in any order. *)
(* A job is its account; request ids and the refused calls, which change    *)
(* nothing, are left out.                                                   *)
(***************************************************************************)
EXTENDS Integers, Sequences, FiniteSets, Functions

CONSTANTS
    Accounts,
    MaxInFlight   \* the argument of FairAccountSyncQueue::new

ASSUME MaxInFlightAssumption == MaxInFlight \in Nat

VARIABLES
    foreground, background,  \* the two queues, first in first out
    scheduled,               \* accounts with a queued or active job
    inFlight,                \* in_flight: accounts with an active job
    bypassed                 \* observation: how often, while the background job
                             \* of one account waits, another's was dequeued

queueVars == <<foreground, background, scheduled, inFlight>>
vars == <<queueVars, bypassed>>

Capacity == IF MaxInFlight < 1 THEN 1 ELSE MaxInFlight
Never == [b \in Accounts |-> 0]

Init ==
    /\ foreground = <<>> /\ background = <<>>
    /\ scheduled = {} /\ inFlight = {}
    /\ bypassed = [a \in Accounts |-> Never]

EnqueueForeground(a) ==
    /\ a \notin scheduled
    /\ scheduled' = scheduled \cup {a}
    /\ foreground' = Append(foreground, a)
    /\ UNCHANGED <<background, inFlight, bypassed>>

\* Mutated: the work goes to the front of its queue.
EnqueueBackgroundFirst(a) ==
    /\ a \notin scheduled
    /\ scheduled' = scheduled \cup {a}
    /\ background' = <<a>> \o background
    /\ bypassed' = [bypassed EXCEPT ![a] = Never]
    /\ UNCHANGED <<foreground, inFlight>>

EnqueueBackground(a) ==
    /\ a \notin scheduled
    /\ scheduled' = scheduled \cup {a}
    /\ background' = Append(background, a)
    /\ bypassed' = [bypassed EXCEPT ![a] = Never]
    /\ UNCHANGED <<foreground, inFlight>>

\* Mutated: one job more than allowed is started.
HasRoomForOneMore == Cardinality(inFlight) <= Capacity
HasRoom == Cardinality(inFlight) < Capacity

DequeueForeground ==
    /\ HasRoom /\ foreground # <<>>
    /\ foreground' = Tail(foreground)
    /\ inFlight' = inFlight \cup {Head(foreground)}
    /\ UNCHANGED <<background, scheduled, bypassed>>

DequeueBackground ==
    /\ HasRoom /\ foreground = <<>> /\ background # <<>>
    /\ background' = Tail(background)
    /\ inFlight' = inFlight \cup {Head(background)}
    /\ bypassed' = [a \in Accounts |->
                      IF a \in Range(Tail(background))
                      THEN [bypassed[a] EXCEPT ![Head(background)] = @ + 1]
                      ELSE bypassed[a]]
    /\ UNCHANGED <<foreground, scheduled>>

Dequeue == DequeueForeground \/ DequeueBackground

\* Mutated: a job that has not started is taken for completed.
CompleteQueued(a) ==
    /\ a \in scheduled
    /\ inFlight' = inFlight \ {a} /\ scheduled' = scheduled \ {a}
    /\ UNCHANGED <<foreground, background, bypassed>>

Complete(a) ==
    /\ a \in inFlight
    /\ inFlight' = inFlight \ {a} /\ scheduled' = scheduled \ {a}
    /\ UNCHANGED <<foreground, background, bypassed>>

Next ==
    \/ \E a \in Accounts : EnqueueForeground(a) \/ EnqueueBackground(a) \/ Complete(a)
    \/ Dequeue

\* The caller asks for the next job again and again, and completes every job,
\* failed or not (worker.rs 282-283).
Fairness == WF_vars(Dequeue) /\ \A a \in Accounts : WF_vars(Complete(a))

Spec == Init /\ [][Next]_vars
FairSpec == Spec /\ Fairness

-----------------------------------------------------------------------------
(* Properties *)

\* Every variable keeps its type.
TypeOK ==
    /\ foreground \in Seq(Accounts) /\ background \in Seq(Accounts)
    /\ scheduled \subseteq Accounts /\ inFlight \subseteq Accounts
    /\ bypassed \in [Accounts -> [Accounts -> Nat]]

\* No account has two jobs, in the queues or active, however enqueue, dequeue
\* and complete calls interleave (worker.rs 238-239: "at most one queued or
\* active job per account").
OneJobPerAccount ==
    /\ IsInjective(foreground) /\ IsInjective(background)
    /\ Range(foreground) \cap Range(background) = {}
    /\ (Range(foreground) \cup Range(background)) \cap inFlight = {}

\* Timer-driven accounts take turns: while the background job of one account
\* waits, no other account's background job starts twice (worker.rs 229-231:
\* "a failing account cannot monopolize the queue").
NobodyMonopolizes == \A a, b \in Accounts : bypassed[a][b] <= 1

slotOf == [a \in Accounts |-> IF a \in inFlight THEN "active"
                              ELSE IF a \in scheduled THEN "waiting" ELSE "idle"]
Slots == INSTANCE AccountSyncSlots WITH slot <- slotOf

\* The scheduler implements the slots: also, with every job completed and
\* dequeue called, it never idles over waiting work (worker.rs 246-298).
ImplementsSlots == Slots!Spec

\* A background job starts, however other timers fire, once foreground
\* requests pause for long enough: they alone may keep it waiting.
BackgroundStarts ==
    \A a \in Accounts :
        <>[](foreground = <<>>) => [](a \in Range(background) => <>(a \in inFlight))
=============================================================================
