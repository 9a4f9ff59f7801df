--------------------------- MODULE MessagingProofs ----------------------------
(***************************************************************************)
(* Theorems of Outbox, for any rows, transactions, batch size and runs,    *)
(* and of Resilience, for any number of calls, any timeouts, delays and    *)
(* thresholds that leave a call shorter than the reset timeout.            *)
(***************************************************************************)
EXTENDS Outbox, Resilience, TLAPS

-----------------------------------------------------------------------------
(* Outbox *)

-----------------------------------------------------------------------------
(* Types *)

LEMMA InitTypeOK == OutboxInit => OutboxTypeOK
  BY OutboxAssumption DEF OutboxInit, OutboxTypeOK

LEMMA BusyRun ==
  ASSUME OutboxTypeOK, NEW r \in Runs
  PROVE  /\ step[r] \in {"save", "catch"} => current[r] \in Rows
         /\ step[r] \notin {"save", "catch"} => current[r] = NoRow
  BY OutboxAssumption DEF OutboxTypeOK

LEMMA EndType ==
  ASSUME OutboxTypeOK, NEW r \in Runs, End(r)
  PROVE  /\ left' \in [Runs -> SUBSET Rows]
         /\ current' \in [Runs -> Rows \cup {NoRow}]
         /\ step' \in [Runs -> {"idle", "loop", "save", "catch"}]
         /\ \A q \in Runs : current'[q] \in Rows <=> step'[q] \in {"save", "catch"}
         /\ left'[r] = {} /\ current'[r] = NoRow
         /\ \A q \in Runs \ {r} : left'[q] = left[q] /\ current'[q] = current[q]
  BY OutboxAssumption DEF OutboxTypeOK, End

LEMMA NextTypeOK == OutboxTypeOK /\ [OutboxNext]_outboxVars => OutboxTypeOK'
  <1> SUFFICES ASSUME OutboxTypeOK, [OutboxNext]_outboxVars
               PROVE  OutboxTypeOK'
    OBVIOUS
  <1>1. ASSUME NEW T \in Txns, Insert(T)
        PROVE  OutboxTypeOK'
    BY <1>1 DEF OutboxTypeOK, Insert, run
  <1>2. ASSUME NEW r \in Runs, Find(r)
        PROVE  OutboxTypeOK'
    <2>1. PICK S \in SUBSET Pending : left' = [left EXCEPT ![r] = S]
      BY <1>2 DEF Find
    <2>2. S \subseteq Rows
      BY DEF Pending
    <2>3. left' \in [Runs -> SUBSET Rows]
      BY <2>1, <2>2 DEF OutboxTypeOK
    <2> QED
      BY <1>2, <2>3 DEF OutboxTypeOK, Find
  <1>3. ASSUME NEW r \in Runs, NEW e \in Rows, HandOver(r, e)
        PROVE  OutboxTypeOK'
    BY <1>3 DEF OutboxTypeOK, HandOver
  <1>4. ASSUME NEW r \in Runs, Save(r)
        PROVE  OutboxTypeOK'
    BY <1>4, BusyRun, OutboxAssumption DEF OutboxTypeOK, Save, Mark
  <1>5. ASSUME NEW r \in Runs, SaveFails(r)
        PROVE  OutboxTypeOK'
    BY <1>5 DEF OutboxTypeOK, SaveFails
  <1>6. ASSUME NEW r \in Runs, Finish(r) \/ Abort(r)
        PROVE  OutboxTypeOK'
    BY <1>6, EndType DEF OutboxTypeOK, Finish, Abort
  <1>7. CASE UNCHANGED outboxVars
    BY <1>7 DEF OutboxTypeOK, outboxVars, run
  <1> QED
    BY <1>1, <1>2, <1>3, <1>4, <1>5, <1>6, <1>7 DEF OutboxNext, Proceed

\* Every variable has its type: the rows and runs of the outbox processor.
THEOREM OutboxTypeCorrect == OutboxSpec => []OutboxTypeOK
  <1> QED
    BY InitTypeOK, NextTypeOK, PTL DEF OutboxSpec

-----------------------------------------------------------------------------
(* At least once *)

\* A run has handed over the row it is about to mark.
HandedInv ==
  /\ OutboxTypeOK
  /\ HandedBeforeMarked
  /\ \A r \in Runs : current[r] \in Rows => current[r] \in handed

LEMMA NextHanded == HandedInv /\ [OutboxNext]_outboxVars => HandedInv'
  <1> SUFFICES ASSUME HandedInv, [OutboxNext]_outboxVars
               PROVE  HandedInv'
    OBVIOUS
  <1>0. OutboxTypeOK /\ OutboxTypeOK'
    BY NextTypeOK DEF HandedInv
  <1>1. ASSUME NEW T \in Txns, Insert(T)
        PROVE  HandedInv'
    BY <1>0, <1>1 DEF OutboxTypeOK, HandedInv, HandedBeforeMarked, Insert, run
  <1>2. ASSUME NEW r \in Runs, Find(r)
        PROVE  HandedInv'
    BY <1>0, <1>2 DEF HandedInv, HandedBeforeMarked, Find
  <1>3. ASSUME NEW r \in Runs, NEW e \in Rows, HandOver(r, e)
        PROVE  HandedInv'
    BY <1>0, <1>3 DEF OutboxTypeOK, HandedInv, HandedBeforeMarked, HandOver
  <1>4. ASSUME NEW r \in Runs, Save(r)
        PROVE  HandedInv'
    <2>1. current[r] \in handed
      BY <1>0, <1>4, BusyRun DEF HandedInv, Save
    <2>2. HandedBeforeMarked'
      BY <1>0, <1>4, <2>1 DEF OutboxTypeOK, HandedInv, HandedBeforeMarked, Save, Mark
    <2> QED
      BY <1>0, <1>4, <2>2, OutboxAssumption DEF OutboxTypeOK, HandedInv, Save
  <1>5. ASSUME NEW r \in Runs, SaveFails(r)
        PROVE  HandedInv'
    BY <1>0, <1>5 DEF HandedInv, HandedBeforeMarked, SaveFails
  <1>6. ASSUME NEW r \in Runs, Finish(r) \/ Abort(r)
        PROVE  HandedInv'
    BY <1>0, <1>6, EndType, OutboxAssumption
       DEF HandedInv, HandedBeforeMarked, Finish, Abort
  <1>7. CASE UNCHANGED outboxVars
    BY <1>0, <1>7 DEF HandedInv, HandedBeforeMarked, outboxVars, run
  <1> QED
    BY <1>1, <1>2, <1>3, <1>4, <1>5, <1>6, <1>7 DEF OutboxNext, Proceed

LEMMA InitHanded == OutboxInit => HandedInv
  BY InitTypeOK, OutboxAssumption DEF OutboxInit, HandedInv, HandedBeforeMarked

\* A row is marked only after it was handed to the bus, however many runs
\* overlap, fail and die: the order of emit and save in processOutboxEvents.
THEOREM AtLeastOnce == OutboxSpec => []HandedBeforeMarked
  <1> QED
    BY InitHanded, NextHanded, PTL DEF OutboxSpec, HandedInv

-----------------------------------------------------------------------------
(* In order *)

\* FirstHandedInOrder depends on what runs have still to hand over: of every
\* row in a batch, the elders were handed over before or are in the batch too.
\* A row's elders were committed before it, so they are there to be found.
OrderInv ==
  /\ HandedInv
  /\ FirstHandedInOrder
  /\ \A r \in Runs : \A e \in left[r] : elders[e] \subseteq handed \cup left[r]
  /\ \A r \in Runs : \A e \in left[r] : row[e] # "absent"
  /\ \A e \in handed : row[e] # "absent"
  /\ \A e \in Rows : \A f \in elders[e] : row[f] # "absent" /\ CreatedAt[f] < CreatedAt[e]
  /\ \A r \in Runs : step[r] = "idle" => left[r] = {}

LEMMA InitOrder == OutboxInit => OrderInv
  BY InitHanded DEF OutboxInit, OrderInv, FirstHandedInOrder

LEMMA InsertOrder ==
  ASSUME OrderInv, HandedInv', NEW T \in Txns, Insert(T)
  PROVE  OrderInv'
  <1>0. OutboxTypeOK /\ OutboxTypeOK' /\ UNCHANGED <<left, current, step, handed>>
    BY DEF OrderInv, HandedInv, Insert, run
  <1>1. \A e \in Rows : row[e] # "absent" => row'[e] = row[e] /\ elders'[e] = elders[e]
    BY <1>0 DEF Insert, OutboxTypeOK
  <1>2. \A e \in handed : e \in Rows /\ elders'[e] = elders[e] /\ row'[e] # "absent"
    BY <1>0, <1>1 DEF OrderInv, OutboxTypeOK
  <1>3. \A r \in Runs : \A e \in left[r] :
          e \in Rows /\ elders'[e] = elders[e] /\ row'[e] # "absent"
    BY <1>0, <1>1 DEF OrderInv, OutboxTypeOK
  <1>4. ASSUME NEW e \in Rows, NEW f \in elders'[e]
        PROVE  row'[f] # "absent" /\ CreatedAt[f] < CreatedAt[e]
    <2>1. CASE e \in T
      BY <1>0, <1>1, <1>4, <2>1 DEF Insert, OutboxTypeOK
    <2>2. CASE e \notin T
      <3>1. elders'[e] = elders[e]
        BY <1>0, <2>2 DEF Insert, OutboxTypeOK
      <3> QED
        BY <1>0, <1>1, <1>4, <3>1 DEF OrderInv, OutboxTypeOK
    <2> QED
      BY <2>1, <2>2
  <1> QED
    BY <1>0, <1>2, <1>3, <1>4 DEF OrderInv, FirstHandedInOrder

LEMMA FindOrder ==
  ASSUME OrderInv, HandedInv', NEW r \in Runs, Find(r)
  PROVE  OrderInv'
  <1>0. OutboxTypeOK /\ UNCHANGED <<row, handed, elders>>
    BY DEF OrderInv, HandedInv, Find
  <1>1. PICK S \in SUBSET Pending : Oldest(S) /\ left' = [left EXCEPT ![r] = S]
    BY DEF Find
  <1>2. left'[r] = S /\ \A q \in Runs \ {r} : left'[q] = left[q]
    BY <1>0, <1>1 DEF OutboxTypeOK
  <1>3. ASSUME NEW e \in S, NEW f \in elders[e]
        PROVE  f \in handed \cup S
    <2>1. e \in Rows /\ f \in Rows
      BY <1>0, <1>3 DEF OutboxTypeOK, Pending
    <2>2. row[f] # "absent" /\ CreatedAt[f] < CreatedAt[e]
      BY <1>3, <2>1 DEF OrderInv
    <2>3. CASE row[f] = "processed"
      BY <2>1, <2>3 DEF OrderInv, HandedInv, HandedBeforeMarked
    <2>4. CASE row[f] = "pending"
      <3>1. f \in S \/ CreatedAt[e] <= CreatedAt[f]
        BY <1>1, <1>3, <2>1, <2>4 DEF Oldest, Pending
      <3> QED
        BY <2>1, <2>2, <3>1, OutboxAssumption
    <2> QED
      BY <1>0, <2>1, <2>2, <2>3, <2>4 DEF OutboxTypeOK
  <1>4. \A e \in S : row[e] # "absent"
    BY DEF Pending
  <1>5. \A q \in Runs : step'[q] = "idle" => left'[q] = {}
    BY <1>0, <1>2 DEF OrderInv, Find, OutboxTypeOK
  <1> QED
    BY <1>0, <1>2, <1>3, <1>4, <1>5 DEF OrderInv, FirstHandedInOrder

LEMMA HandOverOrder ==
  ASSUME OrderInv, HandedInv', NEW r \in Runs, NEW e \in Rows, HandOver(r, e)
  PROVE  OrderInv'
  <1>0. /\ OutboxTypeOK
        /\ UNCHANGED <<row, elders>>
        /\ handed' = handed \cup {e}
        /\ left'[r] = left[r] \ {e}
        /\ \A q \in Runs \ {r} : left'[q] = left[q]
        /\ e \in left[r] /\ \A f \in left[r] : CreatedAt[e] <= CreatedAt[f]
        /\ \A q \in Runs : step'[q] = "idle" => q # r /\ step[q] = "idle"
    BY DEF OrderInv, HandedInv, HandOver, IsNext, OutboxTypeOK
  <1>1. ASSUME NEW f \in elders[e]
        PROVE  f \in handed
    <2>1. f \in Rows /\ CreatedAt[f] < CreatedAt[e]
      BY <1>0 DEF OrderInv, OutboxTypeOK
    <2>2. f \notin left[r]
      BY <1>0, <2>1, OutboxAssumption
    <2> QED
      BY <1>0, <2>2 DEF OrderInv
  <1>2. FirstHandedInOrder'
    BY <1>0, <1>1 DEF OrderInv, FirstHandedInOrder
  <1>3. \A q \in Runs : \A f \in left'[q] : elders[f] \subseteq handed' \cup left'[q]
    BY <1>0 DEF OrderInv
  <1>4. \A q \in Runs : left'[q] \subseteq left[q]
    BY <1>0
  <1>5. /\ \A q \in Runs : \A f \in left'[q] : row'[f] # "absent"
        /\ \A f \in handed' : row'[f] # "absent"
    BY <1>0, <1>4 DEF OrderInv
  <1>6. \A q \in Runs : step'[q] = "idle" => left'[q] = {}
    BY <1>0 DEF OrderInv
  <1> QED
    BY <1>0, <1>2, <1>3, <1>5, <1>6 DEF OrderInv

LEMMA OtherOrder ==
  ASSUME OrderInv, HandedInv', NEW r \in Runs,
         Save(r) \/ SaveFails(r) \/ Finish(r) \/ Abort(r)
  PROVE  OrderInv'
  <1>0. OutboxTypeOK /\ UNCHANGED <<handed, elders>>
    BY DEF OrderInv, HandedInv, Save, SaveFails, Finish, Abort
  <1>1. \A f \in Rows : row[f] # "absent" => row'[f] # "absent"
    BY <1>0 DEF OutboxTypeOK, Save, Mark, SaveFails, Finish, Abort
  <1>2. \A q \in Runs : left'[q] = left[q] \/ left'[q] = {}
    BY <1>0, EndType DEF Save, SaveFails, Finish, Abort
  <1>3. \A q \in Runs : step'[q] = "idle" => left'[q] = {}
    <2>1. CASE Save(r) \/ SaveFails(r)
      BY <1>0, <2>1 DEF OrderInv, OutboxTypeOK, Save, SaveFails
    <2>2. CASE Finish(r) \/ Abort(r)
      BY <1>0, <2>2 DEF OrderInv, OutboxTypeOK, Finish, Abort, End
    <2> QED
      BY <2>1, <2>2
  <1>4. \A q \in Runs : \A f \in left'[q] :
          elders[f] \subseteq handed \cup left'[q] /\ row'[f] # "absent"
    BY <1>0, <1>1, <1>2 DEF OrderInv, OutboxTypeOK
  <1>5. \A f \in handed : row'[f] # "absent"
    BY <1>0, <1>1 DEF OrderInv, OutboxTypeOK
  <1>6. \A e \in Rows : \A f \in elders[e] :
          row'[f] # "absent" /\ CreatedAt[f] < CreatedAt[e]
    BY <1>0, <1>1 DEF OrderInv, OutboxTypeOK
  <1> QED
    BY <1>0, <1>3, <1>4, <1>5, <1>6 DEF OrderInv, FirstHandedInOrder

LEMMA NextOrder == OrderInv /\ [OutboxNext]_outboxVars => OrderInv'
  <1> SUFFICES ASSUME OrderInv, [OutboxNext]_outboxVars
               PROVE  OrderInv'
    OBVIOUS
  <1>0. HandedInv'
    BY NextHanded DEF OrderInv
  <1>1. CASE OutboxNext
    BY <1>0, <1>1, InsertOrder, FindOrder, HandOverOrder, OtherOrder DEF OutboxNext, Proceed
  <1>2. CASE UNCHANGED outboxVars
    BY <1>0, <1>2 DEF OrderInv, FirstHandedInOrder, outboxVars, run
  <1> QED
    BY <1>1, <1>2

\* Rows are first handed over in the order in which they were created, as far
\* as they were committed in that order, for any number of overlapping runs
\* that stop anywhere: the createdAt order of processOutboxEvents.
THEOREM InOrder == OutboxSpec => []FirstHandedInOrder
  <1> QED
    BY InitOrder, NextOrder, PTL DEF OutboxSpec, OrderInv

-----------------------------------------------------------------------------
(* Resilience *)

-----------------------------------------------------------------------------
(* The inductive invariant *)

Waiting  == [step : {"sent"}, attempt : 1..Attempts, timer : 0..Timeout]
Delaying == [step : {"sleep"}, attempt : 1..(Attempts - 1), timer : Nat]

Types ==
  /\ state \in {"CLOSED", "OPEN", "HALF_OPEN"}
  /\ failures \in 0..FailureThreshold
  /\ successes \in 0..(SuccessThreshold - 1)
  /\ since \in 0..ResetTimeout
  /\ healthy \in BOOLEAN
  /\ call \in [Calls -> {Idle} \cup Waiting \cup Delaying]

\* The ticks a call in flight can still last.
Remaining(k) == k.timer + IF k.step = "sent" THEN Left[k.attempt]
                                             ELSE Timeout + Left[k.attempt + 1]

Longest == Timeout + Left[1]

\* No call lasts longer than the whole of one, and in an open breaker the
\* time since its last failure is taken off that.
Bounded ==
  \A c \in Calls : call[c] # Idle =>
    /\ Remaining(call[c]) <= Longest
    /\ state = "OPEN" => Remaining(call[c]) + since <= Longest

IInv == Types /\ Bounded

LEMMA Constants ==
  /\ Timeout \in Nat \ {0} /\ Attempts \in Nat \ {0} /\ ResetTimeout \in Nat
  /\ FailureThreshold \in Nat \ {0} /\ SuccessThreshold \in Nat \ {0}
  /\ \A a \in 1..Attempts : Left[a] \in Nat /\ Delay[a] \in Nat
  /\ Longest \in Nat /\ Longest < ResetTimeout
  <1>1. 1 \in 1..Attempts
    BY ResilienceAssumption
  <1> QED BY <1>1, ResilienceAssumption DEF Longest

\* A call in flight is one of two records.
LEMMA InFlight ==
  ASSUME Types, NEW c \in Calls, call[c] # Idle
  PROVE  /\ call[c] \in Waiting \/ call[c] \in Delaying
         /\ call[c].timer \in Nat
         /\ call[c].step = "sent" => call[c] \in Waiting /\ call[c].attempt \in 1..Attempts
         /\ call[c].step = "sleep" => /\ call[c] \in Delaying
                                      /\ call[c].attempt \in 1..(Attempts - 1)
                                      /\ call[c].attempt + 1 \in 1..Attempts
         /\ call[c].step = "sent" \/ call[c].step = "sleep"
         /\ Remaining(call[c]) \in Nat
  <1>1. call[c] \in Waiting \/ call[c] \in Delaying
    BY DEF Types
  <1>2. CASE call[c] \in Waiting
    <2>1. /\ call[c].step = "sent" /\ call[c].attempt \in 1..Attempts
          /\ call[c].timer \in Nat
      BY <1>2, Constants DEF Waiting
    <2>2. Left[call[c].attempt] \in Nat
      BY <2>1, Constants
    <2> QED BY <1>2, <2>1, <2>2 DEF Remaining
  <1>3. CASE call[c] \in Delaying
    <2>1. /\ call[c].step = "sleep" /\ call[c].attempt \in 1..(Attempts - 1)
          /\ call[c].timer \in Nat
      BY <1>3 DEF Delaying
    <2>2. call[c].attempt + 1 \in 1..Attempts
      BY <2>1, Constants
    <2>3. Left[call[c].attempt + 1] \in Nat
      BY <2>2, Constants
    <2> QED BY <1>3, <2>1, <2>2, <2>3, Constants DEF Remaining
  <1> QED BY <1>1, <1>2, <1>3

LEMMA AttemptsLeft ==
  ASSUME NEW a \in 1..Attempts, ~LastAttempt(a)
  PROVE  a \in 1..(Attempts - 1)
  BY Constants DEF LastAttempt

LEMMA SentCall ==
  ASSUME NEW a \in 1..Attempts
  PROVE  /\ Sent(a) \in Waiting /\ Sent(a) # Idle
         /\ Remaining(Sent(a)) = Timeout + Left[a]
  BY Constants DEF Sent, Waiting, Idle, Remaining

LEMMA SleepingCall ==
  ASSUME NEW a \in 1..(Attempts - 1)
  PROVE  /\ Sleeping(a) \in Delaying /\ Sleeping(a) # Idle
         /\ Remaining(Sleeping(a)) = Left[a]
  <1>1. a \in 1..Attempts /\ a + 1 \in 1..Attempts
    BY Constants
  <1>2. Left[a] = Delay[a] + Timeout + Left[a + 1]
    BY ResilienceAssumption
  <1>3. Delay[a] \in Nat /\ Left[a + 1] \in Nat
    BY <1>1, Constants
  <1>4. /\ Sleeping(a) \in Delaying /\ Sleeping(a).step = "sleep"
        /\ Sleeping(a).timer = Delay[a] /\ Sleeping(a).attempt = a
    BY <1>3 DEF Sleeping, Delaying
  <1>5. Sleeping(a) # Idle
    BY <1>4 DEF Idle
  <1> QED BY <1>2, <1>3, <1>4, <1>5, Constants DEF Remaining

LEMMA InitInv == Init => IInv
  BY Constants DEF Init, IInv, Types, Bounded

\* The breaker's two writes keep its types; an open breaker after them has
\* just had its failure.
LEMMA BreakerTypes ==
  ASSUME Types, OnSuccess \/ OnFailure
  PROVE  /\ state' \in {"CLOSED", "OPEN", "HALF_OPEN"}
         /\ failures' \in 0..FailureThreshold
         /\ successes' \in 0..(SuccessThreshold - 1)
         /\ since' \in 0..ResetTimeout
         /\ OnSuccess => since' = since /\ (state' = "OPEN" => state = "OPEN")
         /\ OnFailure => since' = 0
  <1>1. CASE OnSuccess
    BY <1>1, Constants DEF Types, OnSuccess, Transition, OnFailure
  <1>2. CASE OnFailure
    <2>1. Counted \in 0..FailureThreshold
      BY Constants DEF Types, Counted
    <2>2. since' = 0 /\ failures' \in 0..FailureThreshold /\ since' \in 0..ResetTimeout
      BY <1>2, <2>1, Constants DEF OnFailure
    <2>3. /\ state' \in {"CLOSED", "OPEN", "HALF_OPEN"}
          /\ successes' \in 0..(SuccessThreshold - 1)
      BY <1>2, Constants DEF OnFailure, Transition, Types
    <2>4. OnSuccess => since' = since /\ (state' = "OPEN" => state = "OPEN")
      BY Constants DEF OnSuccess, Transition, Types
    <2> QED BY <2>2, <2>3, <2>4
  <1> QED BY <1>1, <1>2

\* A call ends, and the breaker is told.
LEMMA EndStep ==
  ASSUME IInv, NEW c \in Calls, call' = [call EXCEPT ![c] = Idle],
         OnSuccess \/ OnFailure, UNCHANGED healthy
  PROVE  IInv'
  <1>1. Types'
    BY BreakerTypes DEF IInv, Types
  <1>2. ASSUME NEW d \in Calls, call'[d] # Idle
        PROVE  /\ Remaining(call'[d]) <= Longest
               /\ state' = "OPEN" => Remaining(call'[d]) + since' <= Longest
    <2>1. call'[d] = call[d]
      BY <1>2 DEF IInv, Types
    <2>2. /\ Remaining(call[d]) <= Longest /\ Remaining(call[d]) \in Nat
          /\ state = "OPEN" => Remaining(call[d]) + since <= Longest
      BY <1>2, <2>1, InFlight DEF IInv, Bounded
    <2> QED BY <2>1, <2>2, BreakerTypes, Constants DEF IInv
  <1> QED BY <1>1, <1>2 DEF IInv, Bounded, Remaining, Longest

\* A call goes on, no longer than before, and the breaker stays as it is.
LEMMA GoOnStep ==
  ASSUME IInv, NEW c \in Calls, call[c] # Idle, NEW k \in Waiting \cup Delaying,
         Remaining(k) <= Remaining(call[c]), Remaining(k) \in Nat,
         call' = [call EXCEPT ![c] = k], UNCHANGED <<breaker, healthy>>
  PROVE  IInv'
  <1>1. Types'
    BY DEF IInv, Types, breaker
  <1>2. ASSUME NEW d \in Calls, call'[d] # Idle
        PROVE  /\ Remaining(call'[d]) <= Longest
               /\ state' = "OPEN" => Remaining(call'[d]) + since' <= Longest
    <2>1. call'[d] = IF d = c THEN k ELSE call[d]
      BY DEF IInv, Types
    <2>2. /\ Remaining(call[c]) <= Longest /\ Remaining(call[c]) \in Nat
          /\ state = "OPEN" => Remaining(call[c]) + since <= Longest
      BY InFlight DEF IInv, Bounded
    <2>3. UNCHANGED <<state, since>> /\ since \in Nat
      BY DEF breaker, IInv, Types
    <2>4. CASE d = c
      BY <2>1, <2>2, <2>3, <2>4, Constants
    <2>5. CASE d # c
      BY <1>2, <2>1, <2>3, <2>5 DEF IInv, Bounded
    <2> QED BY <2>4, <2>5
  <1> QED BY <1>1, <1>2 DEF IInv, Bounded, Remaining, Longest

LEMMA FailStep ==
  ASSUME IInv, NEW c \in Calls, call[c].step = "sent", call[c] # Idle,
         AttemptFails(c), UNCHANGED healthy
  PROVE  IInv'
  <1> DEFINE a == call[c].attempt
  <1>1. /\ call[c] \in Waiting /\ a \in 1..Attempts /\ call[c].timer \in Nat
        /\ Left[a] \in Nat
        /\ Remaining(call[c]) = call[c].timer + Left[a]
    BY InFlight, Constants DEF IInv, Remaining
  <1>2. CASE LastAttempt(a)
    BY <1>2, EndStep DEF AttemptFails
  <1>3. CASE ~LastAttempt(a)
    <2>1. a \in 1..(Attempts - 1)
      BY <1>1, <1>3, AttemptsLeft
    <2>2. call' = [call EXCEPT ![c] = Sleeping(a)] /\ UNCHANGED breaker
      BY <1>3 DEF AttemptFails
    <2>3. Sleeping(a) \in Delaying /\ Remaining(Sleeping(a)) = Left[a]
      BY <2>1, SleepingCall
    <2>4. /\ Sleeping(a) \in Waiting \cup Delaying
          /\ Remaining(Sleeping(a)) \in Nat
          /\ Remaining(Sleeping(a)) <= Remaining(call[c])
      BY <1>1, <2>3
    <2> HIDE DEF a
    <2> QED BY <2>2, <2>4, GoOnStep
  <1> QED BY <1>2, <1>3

LEMMA NextInv == IInv /\ [Next]_vars => IInv'
  <1> SUFFICES ASSUME IInv, [Next]_vars
               PROVE  IInv'
    OBVIOUS
  <1>1. ASSUME NEW c \in Calls, Admit(c)
        PROVE  IInv'
    <2>1. /\ Sent(1) \in Waiting /\ Sent(1) # Idle /\ Remaining(Sent(1)) = Longest
      BY SentCall, Constants DEF Longest
    <2>2. call' = [call EXCEPT ![c] = Sent(1)] /\ UNCHANGED healthy /\ since' = since
      BY <1>1 DEF Admit, breaker
    <2>3. state' # "OPEN"
      BY <1>1 DEF Admit, breaker, Transition
    <2>4. Types'
      <3>1. /\ state' \in {"CLOSED", "OPEN", "HALF_OPEN"}
            /\ successes' \in 0..(SuccessThreshold - 1)
            /\ failures' = failures
        BY <1>1, Constants DEF Admit, breaker, Transition, IInv, Types
      <3> QED BY <3>1, <2>1, <2>2 DEF IInv, Types
    <2>5. ASSUME NEW d \in Calls, call'[d] # Idle
          PROVE  Remaining(call'[d]) <= Longest
      <3>1. call'[d] = IF d = c THEN Sent(1) ELSE call[d]
        BY <2>2 DEF IInv, Types
      <3> QED BY <2>1, <2>5, <3>1, Constants DEF IInv, Bounded
    <2> QED BY <2>3, <2>4, <2>5 DEF IInv, Bounded, Remaining, Longest
  <1>2. ASSUME NEW c \in Calls, RequestTimesOut(c) \/ ErrorReply(c)
        PROVE  IInv'
    <2>1. call[c].step = "sent" /\ AttemptFails(c) /\ UNCHANGED healthy
      BY <1>2 DEF RequestTimesOut, ErrorReply
    <2>2. call[c] # Idle
      BY <2>1 DEF Idle
    <2> QED BY <2>1, <2>2, FailStep
  <1>3. ASSUME NEW c \in Calls, Answer(c)
        PROVE  IInv'
    BY <1>3, EndStep DEF Answer
  <1>4. ASSUME NEW c \in Calls, Retry(c)
        PROVE  IInv'
    <2> DEFINE a == call[c].attempt
    <2>1. call[c] # Idle
      BY <1>4 DEF Retry, Idle
    <2>2. /\ a + 1 \in 1..Attempts /\ call[c].timer = 0
          /\ Remaining(call[c]) = Timeout + Left[a + 1]
      <3>1. a + 1 \in 1..Attempts /\ call[c].timer = 0 /\ call[c].step = "sleep"
        BY <1>4, <2>1, InFlight DEF Retry, IInv
      <3>2. Left[a + 1] \in Nat
        BY <3>1, Constants
      <3> QED BY <3>1, <3>2, Constants DEF Remaining
    <2>3. Sent(a + 1) \in Waiting /\ Remaining(Sent(a + 1)) = Timeout + Left[a + 1]
      BY <2>2, SentCall
    <2>4. Timeout + Left[a + 1] \in Nat
      BY <2>2, Constants
    <2>5. /\ call' = [call EXCEPT ![c] = Sent(a + 1)]
          /\ UNCHANGED <<breaker, healthy>>
      BY <1>4 DEF Retry, IInv, Types
    <2>6. /\ Sent(a + 1) \in Waiting \cup Delaying
          /\ Remaining(Sent(a + 1)) \in Nat
          /\ Remaining(Sent(a + 1)) <= Remaining(call[c])
      BY <2>2, <2>3, <2>4
    <2> HIDE DEF a
    <2> QED BY <2>1, <2>5, <2>6, GoOnStep
  <1>5. CASE Tick
    <2>1. ASSUME NEW c \in Calls, call[c] # Idle
          PROVE  /\ call'[c] \in Waiting \cup Delaying
                 /\ Remaining(call'[c]) = Remaining(call[c]) - 1
                 /\ Remaining(call[c]) \in Nat
      <3>1. call'[c] = [call[c] EXCEPT !.timer = @ - 1] /\ call[c].timer > 0
        BY <1>5, <2>1 DEF Tick
      <3>2. call[c] \in Waiting \/ call[c] \in Delaying
        BY <2>1, InFlight DEF IInv
      <3>3. call[c].timer \in Nat /\ call[c].timer - 1 \in Nat
        BY <2>1, <3>1, InFlight DEF IInv
      <3>4. CASE call[c] \in Waiting
        <4>1. /\ call'[c] \in Waiting /\ call'[c].step = call[c].step
              /\ call'[c].attempt = call[c].attempt /\ call'[c].timer = call[c].timer - 1
          BY <3>1, <3>3, <3>4, Constants DEF Waiting
        <4>2. call[c].step = "sent" /\ Left[call[c].attempt] \in Nat
          BY <3>4, Constants DEF Waiting
        <4> QED BY <3>3, <4>1, <4>2 DEF Remaining
      <3>5. CASE call[c] \in Delaying
        <4>1. /\ call'[c] \in Delaying /\ call'[c].step = call[c].step
              /\ call'[c].attempt = call[c].attempt /\ call'[c].timer = call[c].timer - 1
          BY <3>1, <3>3, <3>5 DEF Delaying
        <4>2. call[c].step = "sleep" /\ call[c].attempt + 1 \in 1..Attempts
          BY <3>5, Constants DEF Delaying
        <4>3. Left[call[c].attempt + 1] \in Nat
          BY <4>2, Constants
        <4> QED BY <3>3, <4>1, <4>2, <4>3, Constants DEF Remaining
      <3> QED BY <3>2, <3>4, <3>5
    <2>2. \A c \in Calls : call[c] = Idle => call'[c] = Idle
      BY <1>5 DEF Tick
    <2>3. /\ since' \in 0..ResetTimeout /\ since' <= since + 1 /\ since \in Nat
          /\ UNCHANGED <<state, failures, successes, healthy>>
      BY <1>5, Constants DEF Tick, IInv, Types
    <2>4. call' \in [Calls -> {Idle} \cup Waiting \cup Delaying]
      <3>1. call' = [c \in Calls |-> call'[c]]
        BY <1>5 DEF Tick
      <3>2. \A c \in Calls : call'[c] \in {Idle} \cup Waiting \cup Delaying
        BY <2>1, <2>2
      <3> QED BY <3>1, <3>2
    <2>5. ASSUME NEW c \in Calls, call'[c] # Idle
          PROVE  /\ Remaining(call'[c]) <= Longest
                 /\ state' = "OPEN" => Remaining(call'[c]) + since' <= Longest
      <3>1. call[c] # Idle
        BY <2>2, <2>5
      <3>2. /\ Remaining(call[c]) <= Longest
            /\ state = "OPEN" => Remaining(call[c]) + since <= Longest
        BY <3>1 DEF IInv, Bounded
      <3> QED BY <3>1, <3>2, <2>1, <2>3, Constants
    <2>6. Types'
      BY <2>3, <2>4 DEF IInv, Types
    <2> QED BY <2>5, <2>6 DEF IInv, Bounded, Remaining, Longest
  <1>6. CASE HealthChanges
    BY <1>6 DEF HealthChanges, breaker, IInv, Types, Bounded, Remaining, Longest
  <1>7. CASE UNCHANGED vars
    BY <1>7 DEF vars, breaker, IInv, Types, Bounded, Remaining, Longest
  <1> QED BY <1>1, <1>2, <1>3, <1>4, <1>5, <1>6, <1>7 DEF Next, CallStep

LEMMA Inductive == Spec => []IInv
  BY InitInv, NextInv, PTL DEF Spec

-----------------------------------------------------------------------------
\* Breaker and calls keep their types: no counter passes its threshold, no
\* call its number of attempts.
THEOREM TypeCorrect == Spec => []TypeOK
  <1>1. IInv => TypeOK
    <2> SUFFICES ASSUME IInv
                 PROVE  TypeOK
      OBVIOUS
    <2>1. \A k \in Delaying :
            k \in [step : {"sleep"}, attempt : 1..Attempts, timer : Nat]
      BY Constants DEF Delaying
    <2> QED BY <2>1 DEF IInv, Types, TypeOK, Waiting
  <1> QED BY <1>1, Inductive, PTL

\* When an open breaker lets its first probe through, no call of before is in
\* flight, for every timeout, number of attempts and delays that together stay
\* below the reset timeout: a call cannot outlast the time since the failure.
THEOREM ProbesAlone == Spec => QuietBeforeProbe
  <1>1. ASSUME IInv, Next, state = "OPEN", state' = "HALF_OPEN", NEW c \in Calls
        PROVE  call[c] = Idle
    <2>1. since >= ResetTimeout
      <3>1. ASSUME NEW d \in Calls, Admit(d)
            PROVE  since >= ResetTimeout
        BY <1>1, <3>1 DEF Admit, breaker, ShouldAttemptReset
      <3>2. ASSUME NEW d \in Calls, CallStep(d)
            PROVE  FALSE
        <4>1. ~(OnSuccess \/ OnFailure)
          BY <1>1 DEF OnSuccess, OnFailure, Transition
        <4>2. ~UNCHANGED breaker
          BY <1>1 DEF breaker
        <4> QED BY <3>2, <4>1, <4>2
              DEF CallStep, RequestTimesOut, ErrorReply, Answer, Retry, AttemptFails
      <3>3. ~Tick /\ ~HealthChanges
        BY <1>1 DEF Tick, HealthChanges, breaker
      <3> QED BY <1>1, <3>1, <3>2, <3>3 DEF Next
    <2>2. ASSUME call[c] # Idle
          PROVE  FALSE
      <3>1. Remaining(call[c]) \in Nat /\ Remaining(call[c]) + since <= Longest
        BY <1>1, <2>2, InFlight DEF IInv, Bounded
      <3>2. since \in Nat
        BY <1>1, Constants DEF IInv, Types
      <3> QED BY <2>1, <3>1, <3>2, Constants
    <2> QED BY <2>2
  <1>2. IInv /\ [Next]_vars
          => [state = "OPEN" /\ state' = "HALF_OPEN" => \A c \in Calls : call[c] = Idle]_vars
    BY <1>1
  <1> QED BY <1>2, Inductive, PTL DEF Spec, QuietBeforeProbe

===============================================================================
