---------------------------- MODULE PaymentsProofs ----------------------------
(***************************************************************************)
(* Theorems of Payments, for any intents, declines and requests in flight. *)
(***************************************************************************)
EXTENDS Payments, FiniteSetTheorems, TLAPS

-----------------------------------------------------------------------------
(* Types *)

LEMMA EventShape ==
  ASSUME NEW e \in StripeEvents
  PROVE  /\ e.intent \in Intents
         /\ e.outcome \in PaymentStatus
         /\ e.outcome = "SUCCESS" => e = Charged(e.intent)
         /\ e.outcome = "FAILED" => /\ e.attempt \in 1..MaxDeclines
                                    /\ e = Declined(e.intent, e.attempt)
  BY DEF StripeEvents, Charged, Declined, PaymentStatus

\* What a worker in the middle of a request knows.
LEMMA BusyTask ==
  ASSUME TypeOK, NEW w \in Workers, task[w].step # "none"
  PROVE  /\ task[w] \in [step : {"save", "emit", "answer"}, event : StripeEvents]
         /\ task[w].event \in StripeEvents
         /\ task[w].event.intent \in Intents
         /\ task[w].event.outcome \in PaymentStatus
  BY EventShape DEF TypeOK, NoTask

LEMMA ContinueType ==
  ASSUME TypeOK, NEW w \in Workers, task[w].step # "none",
         NEW next \in {"save", "emit", "answer"}, Continue(w, next)
  PROVE  /\ task' \in [Workers -> {NoTask} \cup [step : {"save", "emit", "answer"},
                                                 event : StripeEvents]]
         /\ task'[w] = [step |-> next, event |-> task[w].event]
         /\ \A v \in Workers \ {w} : task'[v] = task[v]
  BY BusyTask DEF TypeOK, Continue

LEMMA CountUp ==
  ASSUME NEW count \in [Intents -> Counts], NEW i \in Intents, NEW s \in PaymentStatus
  PROVE  /\ [count EXCEPT ![i][s] = @ + 1] \in [Intents -> Counts]
         /\ \A j \in Intents, t \in PaymentStatus :
              [count EXCEPT ![i][s] = @ + 1][j][t]
                = IF j = i /\ t = s THEN count[j][t] + 1 ELSE count[j][t]
  BY DEF Counts

LEMMA InitTypeOK == Init => TypeOK
  BY PaymentsAssumption DEF Init, TypeOK, Counts, None, PaymentStatus

LEMMA NextTypeOK == TypeOK /\ [Next]_vars => TypeOK'
  <1> SUFFICES ASSUME TypeOK, [Next]_vars
               PROVE  TypeOK'
    OBVIOUS
  <1>1. ASSUME NEW i \in Intents, CreatePaymentIntent(i)
        PROVE  TypeOK'
    BY <1>1 DEF TypeOK, CreatePaymentIntent
  <1>2. ASSUME NEW i \in Intents, Decline(i)
        PROVE  TypeOK'
    <2>1. declines[i] + 1 \in 1..MaxDeclines
      BY <1>2, PaymentsAssumption DEF TypeOK, Decline
    <2>2. Declined(i, declines[i] + 1) \in StripeEvents
      BY <2>1 DEF StripeEvents
    <2>3. declines' \in [Intents -> 0..MaxDeclines]
      BY <1>2, <2>1 DEF TypeOK, Decline
    <2> QED
      BY <1>2, <2>2, <2>3 DEF TypeOK, Decline
  <1>3. ASSUME NEW i \in Intents, Charge(i)
        PROVE  TypeOK'
    BY <1>3 DEF TypeOK, Charge, StripeEvents
  <1>4. ASSUME NEW w \in Workers, NEW e \in StripeEvents, Receive(w, e)
        PROVE  TypeOK'
    <2>1. FirstStep(e) \in {"save", "emit", "answer"}
      BY DEF FirstStep
    <2> QED
      BY <1>4, <2>1 DEF TypeOK, Receive, stripe
  <1>5. ASSUME NEW w \in Workers, Save(w)
        PROVE  TypeOK'
    <2>1. task[w].event.intent \in Intents /\ task[w].event.outcome \in PaymentStatus
      BY <1>5, BusyTask DEF Save
    <2> DEFINE i == task[w].event.intent
               s == task[w].event.outcome
    <2>a. rows' = [rows EXCEPT ![i][s] = @ + 1]
      BY <1>5 DEF Save
    <2> HIDE DEF i, s
    <2>b. i \in Intents /\ s \in PaymentStatus
      BY <2>1 DEF i, s
    <2>2. rows' \in [Intents -> Counts]
      BY <2>a, <2>b, CountUp DEF TypeOK
    <2>3. task' \in [Workers -> {NoTask} \cup [step : {"save", "emit", "answer"},
                                               event : StripeEvents]]
      BY <1>5, ContinueType DEF Save
    <2> QED
      BY <1>5, <2>2, <2>3 DEF TypeOK, Save, stripe
  <1>6. ASSUME NEW w \in Workers, Emit(w)
        PROVE  TypeOK'
    <2>1. task[w].event.intent \in Intents /\ task[w].event.outcome \in PaymentStatus
      BY <1>6, BusyTask DEF Emit
    <2> DEFINE i == task[w].event.intent
               s == task[w].event.outcome
    <2>a. published' = [published EXCEPT ![i][s] = @ + 1]
      BY <1>6 DEF Emit
    <2> HIDE DEF i, s
    <2>b. i \in Intents /\ s \in PaymentStatus
      BY <2>1 DEF i, s
    <2>2. published' \in [Intents -> Counts]
      BY <2>a, <2>b, CountUp DEF TypeOK
    <2>3. task' \in [Workers -> {NoTask} \cup [step : {"save", "emit", "answer"},
                                               event : StripeEvents]]
      BY <1>6, ContinueType DEF Emit
    <2> QED
      BY <1>6, <2>2, <2>3 DEF TypeOK, Emit, stripe
  <1>7. ASSUME NEW w \in Workers, EmitLost(w)
        PROVE  TypeOK'
    BY <1>7, ContinueType DEF TypeOK, EmitLost, stripe
  <1>8. ASSUME NEW w \in Workers, Answer(w)
        PROVE  TypeOK'
    BY <1>8 DEF TypeOK, Answer, Stop
  <1>9. ASSUME NEW w \in Workers, Fail(w)
        PROVE  TypeOK'
    BY <1>9 DEF TypeOK, Fail, Stop, stripe
  <1>10. CASE UNCHANGED vars
    BY <1>10 DEF TypeOK, vars, stripe
  <1> QED
    BY <1>1, <1>2, <1>3, <1>4, <1>5, <1>6, <1>7, <1>8, <1>9, <1>10 DEF Next, Handler

\* Every variable has its type: the webhooks of payment-service.
THEOREM TypeCorrect == Spec => []TypeOK
  <1> QED
    BY InitTypeOK, NextTypeOK, PTL DEF Spec

-----------------------------------------------------------------------------
(* What Stripe has been answered is on record *)

OnRecord(e) == e.intent \in Foreign \/ Recorded(e)

\* The workers past the save hold events that are on record: without it, an
\* answer could not be known to follow a row.
RecordInv ==
  /\ TypeOK
  /\ AnsweredOnRecord
  /\ \A w \in Workers : task[w].step \in {"emit", "answer"} => OnRecord(task[w].event)

\* No row is deleted and no status changed.
LEMMA RowsGrow ==
  ASSUME TypeOK, [Next]_vars
  PROVE  \A i \in Intents, s \in PaymentStatus : rows[i][s] <= rows'[i][s]
  <1>1. ASSUME NEW w \in Workers, Save(w)
        PROVE  \A i \in Intents, s \in PaymentStatus : rows[i][s] <= rows'[i][s]
    BY <1>1, BusyTask, CountUp DEF TypeOK, Save, Counts
  <1>2. ASSUME rows' = rows
        PROVE  \A i \in Intents, s \in PaymentStatus : rows[i][s] <= rows'[i][s]
    BY <1>2 DEF TypeOK, Counts
  <1> QED
    BY <1>1, <1>2 DEF Next, Handler, vars, CreatePaymentIntent, Decline, Charge,
       Receive, Emit, EmitLost, Answer, Fail

LEMMA StaysOnRecord ==
  ASSUME TypeOK, [Next]_vars, NEW e \in StripeEvents, OnRecord(e)
  PROVE  OnRecord(e)'
  <1>1. \A i \in Intents, s \in PaymentStatus : rows[i][s] \in Nat /\ rows'[i][s] \in Nat
    <2>1. TypeOK'
      BY NextTypeOK
    <2> QED
      BY <2>1 DEF TypeOK, Counts
  <1> QED
    BY <1>1, RowsGrow, EventShape DEF OnRecord, Recorded, PaymentStatus

\* A step that has not been reported before is one Stripe goes on sending.
LEMMA ReportedStep ==
  ASSUME TypeOK, [Next]_vars
  PROVE  Reported' \subseteq Reported \cup unanswered'
  <1> SUFFICES ASSUME NEW e \in Reported', e \notin Reported
               PROVE  e \in unanswered'
    OBVIOUS
  <1>0. e \in StripeEvents
    BY DEF Reported
  <1>1. ASSUME NEW i \in Intents, Decline(i)
        PROVE  e \in unanswered'
    <2>1. e.outcome = "FAILED" /\ e.intent = i /\ e.attempt = declines[i] + 1
      BY <1>0, <1>1, EventShape, PaymentsAssumption
         DEF Reported, Decline, TypeOK, PaymentStatus
    <2> QED
      BY <1>0, <1>1, <2>1, EventShape DEF Decline
  <1>2. ASSUME NEW i \in Intents, Charge(i)
        PROVE  e \in unanswered'
    <2>1. e.outcome = "SUCCESS" /\ e.intent = i
      BY <1>0, <1>2, EventShape DEF Reported, Charge, TypeOK
    <2> QED
      BY <1>0, <1>2, <2>1, EventShape DEF Charge
  <1>3. ASSUME NEW i \in Intents, CreatePaymentIntent(i)
        PROVE  e \in unanswered'
    BY <1>0, <1>3, EventShape DEF Reported, CreatePaymentIntent, TypeOK
  <1>4. CASE UNCHANGED <<intent, declines>>
    BY <1>4 DEF Reported
  <1> QED
    BY Zenon, <1>1, <1>2, <1>3, <1>4 DEF Next, Handler, vars, stripe, Receive, Save, Emit,
       EmitLost, Answer, Fail

LEMMA NextRecordInv == RecordInv /\ [Next]_vars => RecordInv'
  <1> SUFFICES ASSUME RecordInv, [Next]_vars
               PROVE  RecordInv'
    OBVIOUS
  <1>0. TypeOK /\ TypeOK'
    BY NextTypeOK DEF RecordInv
  <1> DEFINE Held(v) == task[v].step \in {"emit", "answer"} => OnRecord(task[v].event)
  <1>a. ASSUME NEW v \in Workers, task'[v] = task[v]
        PROVE  Held(v)'
    BY <1>a, <1>0, BusyTask, StaysOnRecord DEF RecordInv
  <1>b. ASSUME unanswered \subseteq unanswered'
        PROVE  AnsweredOnRecord'
    BY <1>b, <1>0, ReportedStep, StaysOnRecord
       DEF RecordInv, AnsweredOnRecord, OnRecord, Reported
  <1>c. ASSUME AnsweredOnRecord', \A v \in Workers : Held(v)'
        PROVE  RecordInv'
    BY <1>c, <1>0 DEF RecordInv
  <1> HIDE DEF Held
  <1>1. ASSUME NEW i \in Intents,
               CreatePaymentIntent(i) \/ Decline(i) \/ Charge(i)
        PROVE  RecordInv'
    BY <1>1, <1>a, <1>b, <1>c DEF CreatePaymentIntent, Decline, Charge
  <1>2. ASSUME NEW w \in Workers, NEW e \in StripeEvents, Receive(w, e)
        PROVE  RecordInv'
    <2>1. task'[w] = [step |-> FirstStep(e), event |-> e]
      BY <1>2, <1>0 DEF Receive, TypeOK
    <2>2. FirstStep(e) \in {"emit", "answer"} => OnRecord(e)
      BY DEF FirstStep, OnRecord
    <2>3. Held(w)'
      BY <2>1, <2>2, StaysOnRecord, <1>0 DEF Held
    <2>4. \A v \in Workers \ {w} : Held(v)'
      BY <1>2, <1>0, <1>a DEF Receive, TypeOK
    <2> QED
      BY <1>2, <1>b, <1>c, <2>3, <2>4 DEF Receive, stripe
  <1>3. ASSUME NEW w \in Workers, Save(w)
        PROVE  RecordInv'
    <2> DEFINE e == task[w].event
    <2>1. /\ e \in StripeEvents /\ e.intent \in Intents /\ e.outcome \in PaymentStatus
          /\ task'[w] = [step |-> "emit", event |-> e]
          /\ \A v \in Workers \ {w} : task'[v] = task[v]
      BY <1>3, <1>0, BusyTask, ContinueType DEF Save
    <2>2. rows[e.intent][e.outcome] \in Nat
          /\ rows'[e.intent][e.outcome] = rows[e.intent][e.outcome] + 1
      BY <1>3, <1>0, <2>1, CountUp DEF Save, TypeOK, Counts
    <2>3. OnRecord(e)'
      BY <2>1, <2>2 DEF OnRecord, Recorded, PaymentStatus
    <2>4. Held(w)'
      BY <2>1, <2>3 DEF Held
    <2> QED
      BY <1>3, <1>a, <1>b, <1>c, <2>1, <2>4 DEF Save, stripe
  <1>4. ASSUME NEW w \in Workers, Emit(w) \/ EmitLost(w)
        PROVE  RecordInv'
    <2>1. /\ task[w].event \in StripeEvents
          /\ task'[w] = [step |-> "answer", event |-> task[w].event]
          /\ \A v \in Workers \ {w} : task'[v] = task[v]
      BY <1>4, <1>0, BusyTask, ContinueType DEF Emit, EmitLost
    <2>2. OnRecord(task[w].event)
      BY <1>4 DEF RecordInv, Emit, EmitLost
    <2>3. Held(w)'
      BY <2>1, <2>2, StaysOnRecord, <1>0 DEF Held
    <2> QED
      BY <1>4, <1>a, <1>b, <1>c, <2>1, <2>3 DEF Emit, EmitLost, stripe
  <1>5. ASSUME NEW w \in Workers, Stop(w)
        PROVE  \A v \in Workers : Held(v)'
    <2>1. task'[w] = NoTask /\ \A v \in Workers \ {w} : task'[v] = task[v]
      BY <1>5, <1>0 DEF Stop, TypeOK
    <2> QED
      BY <2>1, <1>a DEF Held, NoTask
  <1>6. ASSUME NEW w \in Workers, Answer(w)
        PROVE  RecordInv'
    <2>1. PICK e \in StripeEvents : e = task[w].event
      BY <1>6, <1>0, BusyTask DEF Answer
    <2>2. OnRecord(e)'
      BY <1>6, <2>1, StaysOnRecord, <1>0 DEF RecordInv, Answer
    <2>3. Reported' \ unanswered' \subseteq (Reported \ unanswered) \cup {e}
      BY <1>6, <2>1, <1>0, ReportedStep DEF Answer
    <2>4. \A d \in Reported \ unanswered : d \in StripeEvents /\ OnRecord(d)
      BY DEF RecordInv, AnsweredOnRecord, OnRecord, Reported
    <2>5. ASSUME NEW d \in Reported' \ unanswered'
          PROVE  OnRecord(d)'
      BY <2>2, <2>3, <2>4, <2>5, <1>0, StaysOnRecord
    <2>6. AnsweredOnRecord'
      BY <2>5 DEF AnsweredOnRecord, OnRecord
    <2> QED
      BY <1>5, <1>6, <1>c, <2>6 DEF Answer
  <1>7. ASSUME NEW w \in Workers, Fail(w)
        PROVE  RecordInv'
    BY <1>5, <1>7, <1>b, <1>c DEF Fail, stripe
  <1>8. CASE UNCHANGED vars
    BY <1>8, <1>a, <1>b, <1>c DEF vars, stripe
  <1> QED
    BY <1>1, <1>2, <1>3, <1>4, <1>6, <1>7, <1>8 DEF Next, Handler

\* Stripe gives up sending an event only when a row for it is saved, for any
\* number of overlapping, failing and repeated requests: the order of steps in
\* handlePaymentIntentSucceeded and handlePaymentIntentFailed.
THEOREM OnRecordWhenAnswered == Spec => []AnsweredOnRecord
  <1>1. Init => RecordInv
    <2>1. Init => Reported = {}
      <3> SUFFICES ASSUME Init, NEW e \in StripeEvents PROVE e \notin Reported
        BY DEF Reported
      <3> QED
        BY EventShape DEF Init, Reported, PaymentStatus
    <2> QED
      BY <2>1, InitTypeOK DEF Init, RecordInv, AnsweredOnRecord, NoTask
  <1> QED
    BY <1>1, NextRecordInv, PTL DEF Spec, RecordInv

-----------------------------------------------------------------------------
(* What is published is on record, and what is on record happened *)

\* The requests between the save and the publish of such a row.
Emitting(i, s) == {w \in Workers : /\ task[w].step = "emit"
                                   /\ task[w].event.intent = i
                                   /\ task[w].event.outcome = s}

\* PublishedBacked alone is not inductive: a publish adds one to what is
\* published, so the rows saved for requests still to publish are counted too.
Backed ==
  \A i \in Intents, s \in PaymentStatus :
    published[i][s] + Cardinality(Emitting(i, s)) <= rows[i][s]

\* Only what Stripe reported is sent, handled and saved.
Genuine ==
  /\ unanswered \subseteq Reported
  /\ \A w \in Workers : task[w].step = "save" => task[w].event \in Reported
  /\ \A i \in Intents : /\ rows[i]["SUCCESS"] > 0 => intent[i] = "charged"
                        /\ rows[i]["FAILED"] > 0 => declines[i] > 0

LEMMA ReportedGrows == TypeOK /\ [Next]_vars => Reported \subseteq Reported'
  <1> SUFFICES ASSUME TypeOK, [Next]_vars, NEW e \in Reported
               PROVE  e \in Reported'
    OBVIOUS
  <1>0. e \in StripeEvents
    BY DEF Reported
  <1>1. ASSUME NEW i \in Intents, Decline(i)
        PROVE  e \in Reported'
    <2>1. \A j \in Intents : declines[j] \in Nat /\ declines'[j] >= declines[j]
      BY <1>1, PaymentsAssumption DEF Decline, TypeOK
    <2>2. e.outcome # "SUCCESS" => e.attempt \in Nat
      BY <1>0, EventShape, PaymentsAssumption DEF PaymentStatus
    <2>3. e.outcome # "SUCCESS" => e.attempt <= declines'[e.intent]
      BY <1>0, <2>1, <2>2, EventShape, NextTypeOK, PaymentsAssumption DEF Reported, TypeOK
    <2> QED
      BY <1>0, <1>1, <2>3 DEF Reported, Decline
  <1>2. ASSUME NEW i \in Intents, CreatePaymentIntent(i) \/ Charge(i)
        PROVE  e \in Reported'
    BY <1>0, <1>2, EventShape DEF Reported, TypeOK, CreatePaymentIntent, Charge
  <1>3. CASE UNCHANGED <<intent, declines>>
    BY <1>3 DEF Reported
  <1> QED
    BY Zenon, <1>1, <1>2, <1>3 DEF Next, Handler, vars, stripe, Receive, Save, Emit,
       EmitLost, Answer, Fail

\* What a step may do to the workers' tasks.
LEMMA SaveStep ==
  ASSUME TypeOK, NEW w \in Workers, Save(w)
  PROVE  /\ task[w].event \in StripeEvents
         /\ task[w].event.intent \in Intents
         /\ task[w].event.outcome \in PaymentStatus
         /\ \A v \in Workers \ {w} : task'[v] = task[v]
         /\ task'[w].step = "emit"
         /\ task'[w].event = task[w].event
         /\ UNCHANGED <<intent, declines, unanswered, published>>
  <1>1. task[w].step = "save" /\ Continue(w, "emit")
    BY DEF Save
  <1>2. /\ \A v \in Workers \ {w} : task'[v] = task[v]
        /\ task'[w] = [step |-> "emit", event |-> task[w].event]
    BY <1>1, ContinueType
  <1> QED
    BY <1>1, <1>2, BusyTask DEF Save, stripe

LEMMA OtherStep ==
  ASSUME TypeOK, NEW w \in Workers,
         Emit(w) \/ EmitLost(w) \/ Answer(w) \/ Fail(w)
  PROVE  /\ task[w].event \in StripeEvents
         /\ task[w].event.intent \in Intents
         /\ task[w].event.outcome \in PaymentStatus
         /\ \A v \in Workers \ {w} : task'[v] = task[v]
         /\ task'[w].step \notin {"save", "emit"}
         /\ UNCHANGED <<intent, declines, rows>>
  <1>0. task[w].step # "none"
    BY DEF Emit, EmitLost, Answer, Fail, NoTask, TypeOK
  <1>1. /\ task[w].event \in StripeEvents
        /\ task[w].event.intent \in Intents
        /\ task[w].event.outcome \in PaymentStatus
    BY <1>0, BusyTask
  <1>2. UNCHANGED <<intent, declines, rows>>
    BY DEF Emit, EmitLost, Answer, Fail, stripe
  <1>3. CASE Continue(w, "answer")
    <2>1. /\ \A v \in Workers \ {w} : task'[v] = task[v]
          /\ task'[w] = [step |-> "answer", event |-> task[w].event]
      BY <1>0, <1>3, ContinueType
    <2> QED
      BY <1>1, <1>2, <2>1
  <1>4. CASE Stop(w)
    BY <1>1, <1>2, <1>4 DEF Stop, NoTask, TypeOK
  <1> QED
    BY <1>3, <1>4 DEF Emit, EmitLost, Answer, Fail

LEMMA NextGenuine == TypeOK /\ Genuine /\ [Next]_vars => Genuine'
  <1> SUFFICES ASSUME TypeOK, Genuine, [Next]_vars
               PROVE  Genuine'
    OBVIOUS
  <1>0. Reported \subseteq Reported'
    BY ReportedGrows
  <1>1. ASSUME NEW i \in Intents, CreatePaymentIntent(i)
        PROVE  Genuine'
    BY <1>0, <1>1 DEF Genuine, CreatePaymentIntent
  <1>2. ASSUME NEW i \in Intents, Decline(i)
        PROVE  Genuine'
    <2>1. declines[i] + 1 \in 1..MaxDeclines /\ declines'[i] = declines[i] + 1
      BY <1>2, PaymentsAssumption DEF TypeOK, Decline
    <2>2. Declined(i, declines[i] + 1) \in Reported'
      BY <2>1 DEF Reported, StripeEvents, Declined
    <2>3. \A j \in Intents : declines[j] > 0 => declines'[j] > 0
      BY <1>2, <2>1 DEF TypeOK, Decline
    <2> QED
      BY <1>0, <1>2, <2>2, <2>3 DEF Genuine, Decline
  <1>3. ASSUME NEW i \in Intents, Charge(i)
        PROVE  Genuine'
    <2>1. Charged(i) \in Reported'
      BY <1>3 DEF Reported, StripeEvents, Charged, Charge, TypeOK
    <2> QED
      BY <1>0, <1>3, <2>1 DEF Genuine, Charge, TypeOK
  <1>4. ASSUME NEW w \in Workers, NEW e \in StripeEvents, Receive(w, e)
        PROVE  Genuine'
    <2>1. task'[w].event = e /\ \A v \in Workers \ {w} : task'[v] = task[v]
      BY <1>4 DEF Receive, TypeOK
    <2> QED
      BY <1>0, <1>4, <2>1 DEF Genuine, Receive, stripe
  <1>5. ASSUME NEW w \in Workers, Save(w)
        PROVE  Genuine'
    <2>1. PICK e \in Reported : e = task[w].event
      BY <1>5 DEF Genuine, Save
    <2>5. /\ \A v \in Workers \ {w} : task'[v] = task[v]
          /\ task'[w].step = "emit"
          /\ UNCHANGED <<intent, declines, unanswered>>
      BY <1>5, SaveStep
    <2>2. /\ e.outcome = "SUCCESS" => intent[e.intent] = "charged"
          /\ e.outcome = "FAILED" => declines[e.intent] > 0
      BY EventShape, PaymentsAssumption DEF Reported, TypeOK
    <2>3. \A i \in Intents, s \in PaymentStatus :
            rows'[i][s] > 0 => rows[i][s] > 0 \/ (i = e.intent /\ s = e.outcome)
      BY <1>5, <2>1, EventShape DEF Save, TypeOK, Counts
    <2>4. \A i \in Intents : /\ rows'[i]["SUCCESS"] > 0 => intent[i] = "charged"
                             /\ rows'[i]["FAILED"] > 0 => declines[i] > 0
      BY <2>2, <2>3 DEF Genuine, PaymentStatus
    <2> QED
      BY <1>0, <2>4, <2>5 DEF Genuine
  <1>6. ASSUME NEW w \in Workers, Emit(w) \/ EmitLost(w) \/ Answer(w) \/ Fail(w)
        PROVE  Genuine'
    <2>1. /\ \A v \in Workers \ {w} : task'[v] = task[v]
          /\ UNCHANGED <<intent, declines>>
          /\ task'[w].step # "save"
      BY <1>6, OtherStep
    <2> QED
      BY <1>0, <1>6, <2>1 DEF Genuine, Emit, EmitLost, Answer, Fail, stripe
  <1>7. CASE UNCHANGED vars
    BY <1>0, <1>7 DEF Genuine, vars, stripe
  <1> QED
    BY <1>1, <1>2, <1>3, <1>4, <1>5, <1>6, <1>7 DEF Next, Handler

LEMMA EmittingCount ==
  ASSUME IsFiniteSet(Workers), NEW i, NEW s
  PROVE  IsFiniteSet(Emitting(i, s)) /\ Cardinality(Emitting(i, s)) \in Nat
  BY FS_Subset, FS_CardinalityType DEF Emitting

LEMMA NextBacked ==
  ASSUME IsFiniteSet(Workers), TypeOK, Backed, [Next]_vars
  PROVE  Backed'
  <1>0. TypeOK'
    BY NextTypeOK
  <1> SUFFICES ASSUME NEW i \in Intents, NEW s \in PaymentStatus
               PROVE  (published[i][s] + Cardinality(Emitting(i, s)) <= rows[i][s])'
    BY DEF Backed
  <1> DEFINE E == Emitting(i, s)
             E2 == Emitting(i, s)'
  <1>1. /\ published[i][s] \in Nat /\ published'[i][s] \in Nat
        /\ rows[i][s] \in Nat /\ rows'[i][s] \in Nat
    BY <1>0 DEF TypeOK, Counts
  <1>2. IsFiniteSet(E) /\ Cardinality(E) \in Nat
    BY EmittingCount
  <1>3. published[i][s] + Cardinality(E) <= rows[i][s]
    BY DEF Backed
  <1> SUFFICES published'[i][s] + Cardinality(E2) <= rows'[i][s]
    OBVIOUS
  <1> DEFINE Here(w) == task[w].event.intent = i /\ task[w].event.outcome = s
  <1>4. ASSUME E2 = E, published' = published, rows' = rows
        PROVE  published'[i][s] + Cardinality(E2) <= rows'[i][s]
    BY <1>3, <1>4
  <1>5. ASSUME NEW w \in Workers, Save(w)
        PROVE  published'[i][s] + Cardinality(E2) <= rows'[i][s]
    <2>1. w \notin E
      BY <1>5 DEF Save, Emitting
    <2>0. /\ \A v \in Workers \ {w} : task'[v] = task[v]
          /\ task'[w].step = "emit"
          /\ task'[w].event = task[w].event
      BY <1>5, SaveStep
    <2>2. CASE Here(w)
      <3>1. E2 = E \cup {w}
        BY <2>0, <2>2 DEF Emitting
      <3>2. Cardinality(E2) = Cardinality(E) + 1
        BY <1>2, <2>1, <3>1, FS_AddElement
      <3>3. rows'[i][s] = rows[i][s] + 1 /\ published' = published
        BY <1>5, <2>2 DEF Save, TypeOK, Counts
      <3> QED
        BY <1>1, <1>2, <1>3, <3>2, <3>3
    <2>3. CASE ~Here(w)
      <3>1. E2 = E
        BY <2>0, <2>1, <2>3 DEF Emitting
      <3>2. rows'[i][s] = rows[i][s] /\ published' = published
        BY <1>5, <2>3, SaveStep DEF Save, TypeOK, Counts
      <3> QED
        BY <1>3, <3>1, <3>2
    <2> QED
      BY <2>2, <2>3
  <1>6. ASSUME NEW w \in Workers, Emit(w)
        PROVE  published'[i][s] + Cardinality(E2) <= rows'[i][s]
    <2>0. /\ \A v \in Workers \ {w} : task'[v] = task[v]
          /\ task'[w].step # "emit"
      BY <1>6, OtherStep
    <2>1. E2 = E \ {w}
      BY <2>0 DEF Emitting
    <2>2. w \in E <=> Here(w)
      BY <1>6 DEF Emitting, Emit
    <2>3. rows' = rows
      BY <1>6 DEF Emit
    <2>4. CASE Here(w)
      <3>1. published'[i][s] = published[i][s] + 1
        BY <1>6, <2>4 DEF Emit, TypeOK, Counts
      <3>2. Cardinality(E2) = Cardinality(E) - 1
        <4>1. w \in E
          BY <2>2, <2>4
        <4> QED
          BY <1>2, <2>1, <4>1, FS_RemoveElement
      <3> QED
        BY <1>1, <1>2, <1>3, <2>3, <3>1, <3>2
    <2>5. CASE ~Here(w)
      <3>1. published'[i][s] = published[i][s]
        BY <1>6, <2>5, OtherStep DEF Emit, TypeOK, Counts
      <3>2. E2 = E
        BY <2>1, <2>2, <2>5
      <3> QED
        BY <1>3, <2>3, <3>1, <3>2
    <2> QED
      BY <2>4, <2>5
  <1>7. ASSUME NEW w \in Workers, EmitLost(w) \/ Answer(w) \/ Fail(w)
        PROVE  published'[i][s] + Cardinality(E2) <= rows'[i][s]
    <2>0. /\ \A v \in Workers \ {w} : task'[v] = task[v]
          /\ task'[w].step # "emit"
      BY <1>7, OtherStep
    <2>1. E2 \subseteq E
      BY <2>0 DEF Emitting
    <2>2. Cardinality(E2) \in Nat /\ Cardinality(E2) <= Cardinality(E)
      BY <1>2, <2>1, FS_Subset, FS_CardinalityType
    <2>3. published' = published /\ rows' = rows
      BY <1>7 DEF EmitLost, Answer, Fail
    <2> QED
      BY <1>1, <1>2, <1>3, <2>2, <2>3
  <1>8. ASSUME NEW w \in Workers, NEW e \in StripeEvents, Receive(w, e)
        PROVE  published'[i][s] + Cardinality(E2) <= rows'[i][s]
    <2>1. task'[w].step # "emit" /\ \A v \in Workers \ {w} : task'[v] = task[v]
      BY <1>8 DEF Receive, FirstStep, TypeOK
    <2>2. task[w].step # "emit"
      BY <1>8 DEF Receive, NoTask
    <2>3. E2 = E
      BY <2>1, <2>2 DEF Emitting
    <2> QED
      BY <1>4, <1>8, <2>3 DEF Receive
  <1>9. CASE UNCHANGED <<task, published, rows>>
    BY <1>4, <1>9 DEF Emitting
  <1> HIDE DEF E, E2
  <1> QED
    BY <1>5, <1>6, <1>7, <1>8, <1>9 DEF Next, Handler, vars, CreatePaymentIntent,
       Decline, Charge

\* Events never run ahead of payment rows, nor rows of what Stripe reported,
\* for any finite number of overlapping, failing and repeated requests.
THEOREM RecordsBeforeEvents ==
  ASSUME IsFiniteSet(Workers)
  PROVE  Spec => []PublishedBacked
  <1>1. Init => TypeOK /\ Genuine /\ Backed
    <2> SUFFICES ASSUME Init
                 PROVE  TypeOK /\ Genuine /\ Backed
      OBVIOUS
    <2>1. \A i, s : Emitting(i, s) = {}
      BY DEF Init, Emitting, NoTask
    <2>2. Backed
      BY <2>1, FS_EmptySet DEF Init, Backed, None
    <2>3. Genuine
      BY DEF Init, Genuine, None, PaymentStatus, NoTask
    <2> QED
      BY <2>2, <2>3, InitTypeOK
  <1>2. TypeOK /\ Genuine /\ Backed /\ [Next]_vars => (TypeOK /\ Genuine /\ Backed)'
    BY NextTypeOK, NextGenuine, NextBacked
  <1>3. TypeOK /\ Genuine /\ Backed => PublishedBacked
    <2> SUFFICES ASSUME TypeOK, Genuine, Backed
                 PROVE  PublishedBacked
      OBVIOUS
    <2>1. ASSUME NEW i \in Intents, NEW s \in PaymentStatus
          PROVE  published[i][s] <= rows[i][s]
      <3>1. Cardinality(Emitting(i, s)) \in Nat
        BY EmittingCount
      <3>2. published[i][s] \in Nat /\ rows[i][s] \in Nat
        BY DEF TypeOK, Counts
      <3>3. published[i][s] + Cardinality(Emitting(i, s)) <= rows[i][s]
        BY DEF Backed
      <3> QED
        BY <3>1, <3>2, <3>3
    <2> QED
      BY <2>1 DEF Genuine, PublishedBacked
  <1> QED
    BY <1>1, <1>2, <1>3, PTL DEF Spec

-----------------------------------------------------------------------------
(* A first charge is not lost *)

\* An intent charged at the first attempt has its row, or Stripe goes on sending
\* the event.
ChargeKept ==
  \A i \in Intents \ Foreign :
    intent[i] = "charged" /\ declines[i] = 0 =>
      rows[i]["SUCCESS"] > 0 \/ Charged(i) \in unanswered

\* What FirstChargeRecorded rests on, for any number of overlapping, failing
\* and repeated requests: the charge of a first attempt is never answered
\* without its SUCCESS row, so that what is left is that Stripe's sending
\* succeeds some time (handlePaymentIntentSucceeded).
THEOREM FirstChargeKept == Spec => []ChargeKept
  <1>1. Init => TypeOK /\ Genuine
    BY InitTypeOK DEF Init, Genuine, None, PaymentStatus, NoTask
  <1>2. TypeOK /\ Genuine /\ [Next]_vars => (TypeOK /\ Genuine)'
    BY NextTypeOK, NextGenuine
  <1>3. TypeOK /\ Genuine /\ AnsweredOnRecord => ChargeKept
    <2> SUFFICES ASSUME TypeOK, Genuine, AnsweredOnRecord,
                        NEW i \in Intents \ Foreign,
                        intent[i] = "charged", declines[i] = 0,
                        Charged(i) \notin unanswered
                 PROVE  rows[i]["SUCCESS"] > 0
      BY DEF ChargeKept
    <2>1. Charged(i) \in Reported /\ Charged(i).intent = i
      BY DEF Reported, StripeEvents, Charged
    <2>2. \E s \in PaymentStatus : rows[i][s] > 0
      BY <2>1 DEF AnsweredOnRecord, Recorded, Charged
    <2>3. ~(rows[i]["FAILED"] > 0)
      BY DEF Genuine
    <2> QED
      BY <2>2, <2>3 DEF PaymentStatus
  <1> QED
    BY <1>1, <1>2, <1>3, OnRecordWhenAnswered, PTL DEF Spec

=============================================================================
