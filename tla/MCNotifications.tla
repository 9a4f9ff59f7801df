--------------------------- MODULE MCNotifications ---------------------------
(***************************************************************************)
(* Instances of Notifications.                                             *)
(***************************************************************************)
EXTENDS Notifications, TLC

CONSTANTS u1

\* an event of order-service's outbox, and one of payment-service
Ordered == [user |-> u1, id |-> "m1"]
Paid == [user |-> u1, id |-> NoId]
OrderedTwice == [m \in {Ordered, Paid} |-> IF m = Ordered THEN 2 ELSE 1]
Both == {Ordered, Paid}
\* swapped channels, and one switched off
TwoChanges == {[on |-> {"SMS"}, off |-> {"EMAIL"}], [on |-> {}, off |-> {"PUSH"}]}
OneList == {{"SMS"}}

=============================================================================
