------------------------------- MODULE Payments -------------------------------
(***************************************************************************)
(* payment-service: Stripe payment intents, the webhooks Stripe sends      *)
(* about them, the payments rows they leave and the events order-service   *)
(* hears of.                                                               *)
(*                                                                         *)
(* A worker is one webhook request in flight.  It looks for a payment row, *)
(* saves one, publishes, and answers 200: four steps, with no transaction  *)
(* around them and no unique index on the intent's id.  Stripe sends an    *)
(* event again until it is answered, in any order and to any worker.       *)
(***************************************************************************)
EXTENDS Integers

CONSTANTS
  Intents,      \* payment intents that can come to exist
  Foreign,      \* those whose metadata name no order
  MaxDeclines,  \* bound on the declined attempts of an intent
  Workers       \* webhook requests that can be in flight together

ASSUME PaymentsAssumption ==
  /\ Foreign \subseteq Intents
  /\ MaxDeclines \in Nat

\* The n-th decline of an intent, or its charge, as Stripe reports it.
Declined(i, n) == [intent |-> i, outcome |-> "FAILED", attempt |-> n]
Charged(i) == [intent |-> i, outcome |-> "SUCCESS", attempt |-> 0]
StripeEvents == {Declined(i, n) : i \in Intents, n \in 1..MaxDeclines}
                \cup {Charged(i) : i \in Intents}

VARIABLES
  intent,      \* Stripe: "none", "open" or "charged"
  declines,    \* Stripe: the declined attempts of each intent
  unanswered,  \* Stripe: the events it has no 200 for and goes on sending
  rows,        \* payments: the rows of each intent, counted by status
  published,   \* PAYMENT_SUCCEEDED and PAYMENT_FAILED events of each intent
  task         \* per worker: the event it handles and its next step

stripe == <<intent, declines, unanswered>>
vars == <<stripe, rows, published, task>>

PaymentStatus == {"SUCCESS", "FAILED"}
NoTask == [step |-> "none"]
None == [s \in PaymentStatus |-> 0]

Init ==
  /\ intent = [i \in Intents |-> "none"]
  /\ declines = [i \in Intents |-> 0]
  /\ unanswered = {}
  /\ rows = [i \in Intents |-> None]
  /\ published = [i \in Intents |-> None]
  /\ task = [w \in Workers |-> NoTask]

-----------------------------------------------------------------------------
(* The storefront and Stripe *)

\* createPaymentIntent, whatever the order's state and other intents are.
CreatePaymentIntent(i) ==
  /\ intent[i] = "none"
  /\ intent' = [intent EXCEPT ![i] = "open"]
  /\ UNCHANGED <<declines, unanswered, rows, published, task>>

\* The customer's card is refused; the intent stays open for another attempt.
Decline(i) ==
  /\ intent[i] = "open"
  /\ declines[i] < MaxDeclines
  /\ declines' = [declines EXCEPT ![i] = @ + 1]
  /\ unanswered' = unanswered \cup {Declined(i, declines[i] + 1)}
  /\ UNCHANGED <<intent, rows, published, task>>

Charge(i) ==
  /\ intent[i] = "open"
  /\ intent' = [intent EXCEPT ![i] = "charged"]
  /\ unanswered' = unanswered \cup {Charged(i)}
  /\ UNCHANGED <<declines, rows, published, task>>

-----------------------------------------------------------------------------
(* StripeWebhookService *)

\* The idempotency lookup: a charge is taken for recorded by any row of the
\* intent, a decline by a FAILED one.
Recorded(e) ==
  IF e.outcome = "SUCCESS" THEN \E s \in PaymentStatus : rows[e.intent][s] > 0
                           ELSE rows[e.intent]["FAILED"] > 0

Continue(w, next) == task' = [task EXCEPT ![w].step = next]

\* Mutant: the finished request is left behind.
Stop_KeepsEvent(w) == task' = [task EXCEPT ![w].step = "none"]

Stop(w) == task' = [task EXCEPT ![w] = NoTask]

\* Mutant: the request is answered before the row is saved.
FirstStep_Answer(e) == "answer"

FirstStep(e) == IF e.intent \in Foreign \/ Recorded(e) THEN "answer" ELSE "save"

Receive(w, e) ==
  /\ task[w] = NoTask
  /\ e \in unanswered
  /\ task' = [task EXCEPT ![w] = [step |-> FirstStep(e), event |-> e]]
  /\ UNCHANGED <<stripe, rows, published>>

\* Mutant: the event is published with the row already, and then again.
Save_Emits(w) ==
  LET e == task[w].event
  IN /\ task[w].step = "save"
     /\ rows' = [rows EXCEPT ![e.intent][e.outcome] = @ + 1]
     /\ published' = [published EXCEPT ![e.intent][e.outcome] = @ + 1]
     /\ Continue(w, "emit")
     /\ UNCHANGED stripe

Save(w) ==
  LET e == task[w].event
  IN /\ task[w].step = "save"
     /\ rows' = [rows EXCEPT ![e.intent][e.outcome] = @ + 1]
     /\ Continue(w, "emit")
     /\ UNCHANGED <<stripe, published>>

Emit(w) ==
  LET e == task[w].event
  IN /\ task[w].step = "emit"
     /\ published' = [published EXCEPT ![e.intent][e.outcome] = @ + 1]
     /\ Continue(w, "answer")
     /\ UNCHANGED <<stripe, rows>>

\* EventBus.emit logs a failed publish and does not throw.
EmitLost(w) ==
  /\ task[w].step = "emit"
  /\ Continue(w, "answer")
  /\ UNCHANGED <<stripe, rows, published>>

\* Mutant: a handler that has nothing to do throws, and no 200 is sent.
Answer_Throws(w) ==
  /\ task[w].step = "answer"
  /\ Stop(w)
  /\ UNCHANGED <<stripe, rows, published>>

Answer(w) ==
  /\ task[w].step = "answer"
  /\ unanswered' = unanswered \ {task[w].event}
  /\ Stop(w)
  /\ UNCHANGED <<intent, declines, rows, published>>

\* The process dies or its database fails before the answer, or the answer is
\* late: Stripe sends the event again.
Fail(w) ==
  /\ task[w] # NoTask
  /\ Stop(w)
  /\ UNCHANGED <<stripe, rows, published>>

-----------------------------------------------------------------------------
Handler(w) == Save(w) \/ Emit(w) \/ EmitLost(w) \/ Answer(w)

Next ==
  \/ \E i \in Intents : CreatePaymentIntent(i) \/ Decline(i) \/ Charge(i)
  \/ \E w \in Workers : \/ \E e \in StripeEvents : Receive(w, e)
                        \/ Handler(w)
                        \/ Fail(w)

Spec == Init /\ [][Next]_vars

\* Stripe sends an event until it is answered, and a service that comes up
\* again after every failure does not fail at each attempt.
FairSpec ==
  /\ Spec
  /\ \A e \in StripeEvents : SF_vars(\E w \in Workers : Receive(w, e))
  /\ \A w \in Workers : SF_vars(Handler(w))

-----------------------------------------------------------------------------
(* Properties *)

Counts == [PaymentStatus -> Nat]

\* Every variable has its type.  Of the whole module: payments.service.ts and
\* stripe-webhook.service.ts.
TypeOK ==
  /\ intent \in [Intents -> {"none", "open", "charged"}]
  /\ declines \in [Intents -> 0..MaxDeclines]
  /\ unanswered \subseteq StripeEvents
  /\ rows \in [Intents -> Counts]
  /\ published \in [Intents -> Counts]
  /\ task \in [Workers -> {NoTask} \cup [step : {"save", "emit", "answer"},
                                         event : StripeEvents]]

\* What Stripe has reported so far.
Reported == {e \in StripeEvents : IF e.outcome = "SUCCESS"
                                  THEN intent[e.intent] = "charged"
                                  ELSE e.attempt <= declines[e.intent]}

\* Stripe stops sending an event only when a row of its intent is saved, and
\* for a decline a FAILED one, whatever workers overlap, fail or answer late
\* between the lookup, the save and the answer.
AnsweredOnRecord ==
  \A e \in Reported \ unanswered : e.intent \in Foreign \/ Recorded(e)

\* Events never run ahead of rows, nor rows of what Stripe reported: an
\* intent has at least as many SUCCESS (FAILED) rows as PAYMENT_SUCCEEDED
\* (PAYMENT_FAILED) events, and such rows only if it was charged (declined).
PublishedBacked ==
  \A i \in Intents :
    /\ \A s \in PaymentStatus : published[i][s] <= rows[i][s]
    /\ rows[i]["SUCCESS"] > 0 => intent[i] = "charged"
    /\ rows[i]["FAILED"] > 0 => declines[i] > 0

\* A charge at the first attempt is recorded in the end, whatever requests
\* fail on the way.  (One after a decline is not: the FAILED row of the same
\* intent makes it look recorded, and its event is answered.)
FirstChargeRecorded ==
  \A i \in Intents \ Foreign :
    intent[i] = "charged" /\ declines[i] = 0 ~> rows[i]["SUCCESS"] > 0

\* Stripe is answered in the end: no event is sent for ever.
EventsAnswered == \A e \in StripeEvents : e \in unanswered ~> e \notin unanswered

=============================================================================
