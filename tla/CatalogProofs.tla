---------------------------- MODULE CatalogProofs ----------------------------
(***************************************************************************)
(* Theorems of Catalog, for any products, messages, stock, deliveries,     *)
(* handlers in flight and moderators.                                      *)
(***************************************************************************)
EXTENDS Catalog, Sums, SequenceTheorems, FiniteSetTheorems, TLAPS

-----------------------------------------------------------------------------
(* Lines and types *)

LEMMA LineType ==
  ASSUME TypeOK, NEW w \in Workers, MoreLines(w)
  PROVE  /\ msg[w] \in Msgs
         /\ Line(w).product \in Products
         /\ Line(w).quantity \in Nat
  <1>1. msg[w] \in Msgs
    BY DEF TypeOK, MoreLines
  <1>2. Items[msg[w]] \in Seq([product : Products, quantity : Nat])
    BY <1>1, CatalogAssumption
  <1>3. line[w] \in 1..Len(Items[msg[w]])
    BY <1>2 DEF TypeOK, MoreLines
  <1>4. Line(w) \in [product : Products, quantity : Nat]
    BY <1>2, <1>3, ElementOfSeq DEF Line
  <1> QED
    BY <1>1, <1>4

LEMMA InitTypeOK == Init => TypeOK
  BY CatalogAssumption
     DEF Init, TypeOK, Zero, NoLoad, Loads, Outcomes

LEMMA ReceiveTypeOK ==
  ASSUME TypeOK, NEW w \in Workers, NEW m \in Msgs, Receive(w, m)
  PROVE  TypeOK'
  BY DEF TypeOK, Receive, ledgerVars

LEMMA SkipTypeOK ==
  ASSUME TypeOK, NEW w \in Workers, NEW m \in Msgs, SkipProcessed(w, m)
  PROVE  TypeOK'
  BY DEF TypeOK, SkipProcessed, ledgerVars, txnVars

LEMMA WriteLineTypeOK ==
  ASSUME TypeOK, NEW w \in Workers, MoreLines(w), NEW n \in Int, WriteLine(w, n)
  PROVE  TypeOK'
  <1> DEFINE p == Line(w).product
  <1>1. p \in Products
    BY LineType
  <1>2. RowValue(w, p) \in Int
    BY <1>1 DEF TypeOK, RowValue
  <1>3. held' \in [Workers -> SUBSET Products]
    BY <1>1 DEF TypeOK, WriteLine
  <1>4. buf' \in [Workers -> [Products -> Int]]
    BY <1>1, <1>2 DEF TypeOK, WriteLine
  <1>5. delta' \in [Workers -> [Products -> Int]]
    BY <1>1 DEF TypeOK, WriteLine
  <1>6. line' \in [Workers -> Nat \ {0}]
    BY DEF TypeOK, WriteLine
  <1> QED
    BY <1>3, <1>4, <1>5, <1>6 DEF TypeOK, WriteLine, ledgerVars

\* The pieces that the actions ending a transaction share.
LEMMA EndTxnTypes ==
  ASSUME TypeOK, NEW w \in Workers, EndTxn(w)
  PROVE  /\ line' \in [Workers -> Nat \ {0}]
         /\ held' \in [Workers -> SUBSET Products]
         /\ buf' \in [Workers -> [Products -> Int]]
         /\ delta' \in [Workers -> [Products -> Int]]
  BY DEF TypeOK, EndTxn, Zero

LEMMA IdleTypes ==
  ASSUME TypeOK, NEW w \in Workers, Idle(w)
  PROVE  /\ pc' \in [Workers -> {"idle", "items", "emit"}]
         /\ msg' \in [Workers -> Msgs \cup {NoMsg}]
         /\ \A v \in Workers : pc'[v] # "idle" => msg'[v] \in Msgs
         /\ reply' \in [Workers -> Outcomes \cup {"none"}]
         /\ \A v \in Workers : pc'[v] = "emit" => reply'[v] \in Outcomes
  BY DEF TypeOK, Idle

LEMMA FinishTypes ==
  ASSUME TypeOK, NEW w \in Workers, pc[w] # "idle", NEW o \in Outcomes, Finish(w, o)
  PROVE  /\ pc' \in [Workers -> {"idle", "items", "emit"}]
         /\ msg' \in [Workers -> Msgs \cup {NoMsg}]
         /\ \A v \in Workers : pc'[v] # "idle" => msg'[v] \in Msgs
         /\ reply' \in [Workers -> Outcomes \cup {"none"}]
         /\ \A v \in Workers : pc'[v] = "emit" => reply'[v] \in Outcomes
  BY DEF TypeOK, Finish

LEMMA PublishTypes ==
  ASSUME TypeOK, NEW w \in Workers, Publish(w)
  PROVE  /\ stock' \in [Products -> Int]
         /\ out' \in [Products -> Int]
  BY DEF TypeOK, Publish, Committed

LEMMA InsufficientTypeOK ==
  ASSUME TypeOK, NEW w \in Workers, InsufficientStock(w)
  PROVE  TypeOK'
  <1>1. pc[w] # "idle" /\ EndTxn(w) /\ Publish(w) /\ Finish(w, "failed")
    BY DEF InsufficientStock, MoreLines
  <1>2. "failed" \in Outcomes
    BY DEF Outcomes
  <1> QED
    BY <1>1, <1>2, EndTxnTypes, PublishTypes, FinishTypes
       DEF TypeOK, InsufficientStock

LEMMA CommitTypeOK ==
  ASSUME TypeOK, NEW w \in Workers, Commit(w)
  PROVE  TypeOK'
  <1> DEFINE o == IF msg[w] \in ReleaseMsgs THEN "released" ELSE "reserved"
  <1>1. pc[w] # "idle" /\ EndTxn(w) /\ Publish(w) /\ Finish(w, o)
    BY DEF Commit
  <1>2. o \in Outcomes
    BY DEF Outcomes
  <1>3. processed' \subseteq Guarded
    BY DEF TypeOK, Commit, Recorded
  <1>4. applied' \in [Msgs -> Nat]
    BY <1>1 DEF TypeOK, Commit
  <1>5. /\ pc' \in [Workers -> {"idle", "items", "emit"}]
        /\ msg' \in [Workers -> Msgs \cup {NoMsg}]
        /\ \A v \in Workers : pc'[v] # "idle" => msg'[v] \in Msgs
        /\ reply' \in [Workers -> Outcomes \cup {"none"}]
        /\ \A v \in Workers : pc'[v] = "emit" => reply'[v] \in Outcomes
    <2> HIDE DEF o
    <2> QED BY <1>1, <1>2, FinishTypes
  <1> QED
    BY <1>1, <1>3, <1>4, <1>5, EndTxnTypes, PublishTypes DEF TypeOK, Commit

LEMMA EmitTypeOK ==
  ASSUME TypeOK, NEW w \in Workers, Emit(w) \/ EmitLost(w)
  PROVE  TypeOK'
  <1>1. Idle(w)
    BY DEF Emit, EmitLost
  <1>2. replied' \in [Msgs -> [Outcomes -> Nat]]
    <2>1. CASE Emit(w)
      <3>1. msg[w] \in Msgs /\ reply[w] \in Outcomes
        BY <2>1 DEF TypeOK, Emit
      <3> QED
        BY <2>1, <3>1 DEF TypeOK, Emit
    <2>2. CASE EmitLost(w)
      BY <2>2 DEF TypeOK, EmitLost
    <2> QED
      BY <2>1, <2>2
  <1> QED
    BY <1>1, <1>2, IdleTypes DEF TypeOK, Emit, EmitLost, ledgerVars

LEMMA RollbackTypeOK ==
  ASSUME TypeOK, NEW w \in Workers, DeadlockAbort(w) \/ Crash(w)
  PROVE  TypeOK'
  <1>1. EndTxn(w) /\ Idle(w)
    BY DEF DeadlockAbort, Crash
  <1> QED
    BY <1>1, EndTxnTypes, IdleTypes DEF TypeOK, DeadlockAbort, Crash, ledgerVars

LEMMA ModerateTypeOK ==
  ASSUME TypeOK, NEW a \in Moderators,
         (\E p \in Products : LoadProduct(a, p)) \/ SaveProduct(a)
  PROVE  TypeOK'
  <1>1. CASE \E p \in Products : LoadProduct(a, p)
    <2>1. PICK p \in Products : LoadProduct(a, p)
      BY <1>1
    <2>2. [product |-> p, seen |-> stock[p]] \in Loads
      BY DEF TypeOK, Loads
    <2>3. moderating' \in [Moderators -> Loads]
      BY <2>1, <2>2 DEF TypeOK, LoadProduct
    <2> QED
      BY <2>1, <2>3 DEF TypeOK, LoadProduct, ledgerVars, txnVars
  <1>2. CASE SaveProduct(a)
    <2>1. moderating[a].seen \in Int
      BY DEF TypeOK, Loads, NoLoad
    <2>2. stock' \in [Products -> Int]
      BY <1>2, <2>1 DEF TypeOK, SaveProduct
    <2>3. moderating' \in [Moderators -> Loads]
      BY <1>2 DEF TypeOK, SaveProduct, Loads
    <2> QED
      BY <1>2, <2>2, <2>3 DEF TypeOK, SaveProduct, txnVars
  <1> QED
    BY <1>1, <1>2

LEMMA NextTypeOK == TypeOK /\ [Next]_vars => TypeOK'
  <1> SUFFICES ASSUME TypeOK, [Next]_vars PROVE TypeOK'
    OBVIOUS
  <1>1. ASSUME NEW w \in Workers, NEW m \in Msgs, Receive(w, m) \/ SkipProcessed(w, m)
        PROVE  TypeOK'
    BY <1>1, ReceiveTypeOK, SkipTypeOK
  <1>2. ASSUME NEW w \in Workers, Handler(w)
        PROVE  TypeOK'
    <2>1. CASE TakeLine(w)
      BY <2>1, LineType, WriteLineTypeOK DEF TakeLine
    <2>2. CASE ReturnLine(w)
      <3>1. -Line(w).quantity \in Int
        BY <2>2, LineType DEF ReturnLine
      <3> QED
        BY <2>2, <3>1, WriteLineTypeOK DEF ReturnLine
    <2> QED
      BY <1>2, <2>1, <2>2, InsufficientTypeOK, CommitTypeOK, EmitTypeOK DEF Handler
  <1>3. ASSUME NEW w \in Workers, DeadlockAbort(w) \/ Crash(w)
        PROVE  TypeOK'
    BY <1>3, RollbackTypeOK
  <1>4. CASE UNCHANGED vars
    BY <1>4 DEF TypeOK, vars, txnVars, ledgerVars
  <1> QED
    BY <1>1, <1>2, <1>3, <1>4, ModerateTypeOK DEF Next

\* Every variable keeps its type, for every value of the constants.
THEOREM TypeCorrect == Spec => []TypeOK
  BY InitTypeOK, NextTypeOK, PTL DEF Spec

-----------------------------------------------------------------------------
(* Serializable transactions and a stock that is never negative *)

IsolationInv == TypeOK /\ RowsIsolated /\ StockNonNegative

\* The row of one worker is read with the value isolation promises.
LEMMA RowValueNonNegative ==
  ASSUME IsolationInv, NEW w \in Workers, NEW p \in Products
  PROVE  RowValue(w, p) \in Int /\ RowValue(w, p) >= 0
  BY DEF IsolationInv, TypeOK, RowsIsolated, StockNonNegative, RowValue

\* A line written under its row lock, without making the row negative.
LEMMA WriteLineIsolated ==
  ASSUME IsolationInv, NEW w \in Workers, MoreLines(w), NEW n \in Int,
         WriteLine(w, n), RowValue(w, Line(w).product) >= n
  PROVE  RowsIsolated' /\ StockNonNegative'
  <1> DEFINE p == Line(w).product
  <1>1. p \in Products
    BY LineType DEF IsolationInv
  <1>2. RowValue(w, p) \in Int /\ RowValue(w, p) = stock[p] - delta[w][p]
    BY <1>1 DEF IsolationInv, TypeOK, RowsIsolated, RowValue
  <1>3. /\ stock' = stock /\ moderating' = moderating
        /\ ~LockedByOther(w, p)
        /\ held' = [held EXCEPT ![w] = @ \cup {p}]
        /\ buf' = [buf EXCEPT ![w][p] = RowValue(w, p) - n]
        /\ delta' = [delta EXCEPT ![w][p] = @ + n]
    BY DEF WriteLine, ledgerVars
  <1>4. ASSUME NEW u \in Workers, NEW v \in Workers, u # v
        PROVE  held'[u] \cap held'[v] = {}
    BY <1>3, <1>4 DEF IsolationInv, TypeOK, RowsIsolated, LockedByOther
  <1>5. ASSUME NEW v \in Workers, NEW q \in Products
        PROVE  IF q \in held'[v] THEN /\ buf'[v][q] = stock'[q] - delta'[v][q]
                                     /\ buf'[v][q] >= 0
                                ELSE delta'[v][q] = 0
    <2> HIDE DEF p
    <2>1. CASE v = w /\ q = p
      <3>1. /\ q \in held'[v]
            /\ buf'[v][q] = RowValue(w, p) - n
            /\ delta'[v][q] = delta[w][p] + n
        BY <1>1, <1>3, <2>1 DEF IsolationInv, TypeOK
      <3>2. delta[w][p] \in Int /\ stock[p] \in Int
        BY <1>1 DEF IsolationInv, TypeOK
      <3>3. RowValue(w, p) >= n
        BY DEF p
      <3> QED
        BY <1>2, <1>3, <2>1, <3>1, <3>2, <3>3
    <2>2. CASE ~(v = w /\ q = p)
      <3>1. /\ q \in held'[v] <=> q \in held[v]
            /\ buf'[v][q] = buf[v][q]
            /\ delta'[v][q] = delta[v][q]
        BY <1>1, <1>3, <2>2 DEF IsolationInv, TypeOK
      <3> QED
        BY <1>3, <3>1 DEF IsolationInv, RowsIsolated
    <2> QED
      BY <2>1, <2>2
  <1> QED
    BY <1>3, <1>4, <1>5 DEF IsolationInv, RowsIsolated, StockNonNegative

\* The end of a transaction that commits what it wrote.
LEMMA PublishIsolated ==
  ASSUME IsolationInv, NEW w \in Workers, Publish(w), EndTxn(w),
         UNCHANGED moderating
  PROVE  /\ RowsIsolated' /\ StockNonNegative'
         /\ \A p \in Products : stock'[p] + out'[p] = stock[p] + out[p]
  <1>1. \A p \in Products : stock'[p] = IF p \in held[w] THEN buf[w][p] ELSE stock[p]
    BY DEF Publish, Committed
  <1>2. /\ held' = [held EXCEPT ![w] = {}]
        /\ buf' = [buf EXCEPT ![w] = Zero]
        /\ delta' = [delta EXCEPT ![w] = Zero]
    BY DEF EndTxn
  <1>3. ASSUME NEW u \in Workers, NEW v \in Workers, u # v
        PROVE  held'[u] \cap held'[v] = {}
    BY <1>2, <1>3 DEF IsolationInv, TypeOK, RowsIsolated
  <1>4. ASSUME NEW v \in Workers, NEW p \in Products
        PROVE  IF p \in held'[v] THEN /\ buf'[v][p] = stock'[p] - delta'[v][p]
                                     /\ buf'[v][p] >= 0
                                ELSE delta'[v][p] = 0
    <2>1. CASE v = w
      BY <1>2, <2>1 DEF IsolationInv, TypeOK, Zero
    <2>2. CASE v # w
      <3>1. p \in held[v] => p \notin held[w]
        BY <2>2 DEF IsolationInv, RowsIsolated
      <3>2. held'[v] = held[v] /\ buf'[v] = buf[v] /\ delta'[v] = delta[v]
        BY <1>2, <2>2 DEF IsolationInv, TypeOK
      <3> QED
        BY <1>1, <3>1, <3>2 DEF IsolationInv, RowsIsolated
    <2> QED
      BY <2>1, <2>2
  <1>5. StockNonNegative'
    BY <1>1 DEF IsolationInv, RowsIsolated, StockNonNegative
  <1>6. ASSUME NEW p \in Products
        PROVE  stock'[p] + out'[p] = stock[p] + out[p]
    <2>1. out'[p] = out[p] + delta[w][p]
      BY DEF Publish
    <2>2. /\ stock[p] \in Int /\ out[p] \in Int
          /\ delta[w][p] \in Int /\ buf[w][p] \in Int
      BY DEF IsolationInv, TypeOK
    <2> QED
      BY <1>1, <2>1, <2>2 DEF IsolationInv, RowsIsolated
  <1>7. RowsIsolated'
    BY <1>3, <1>4 DEF IsolationInv, RowsIsolated
  <1> QED
    BY <1>5, <1>6, <1>7

\* The end of a transaction that is rolled back.
LEMMA RollbackIsolated ==
  ASSUME IsolationInv, NEW w \in Workers, EndTxn(w), UNCHANGED <<stock, moderating>>
  PROVE  RowsIsolated' /\ StockNonNegative'
  BY DEF IsolationInv, TypeOK, RowsIsolated, StockNonNegative, EndTxn, Zero

\* A step of a handler keeps the isolation and moves stock and out together.
LEMMA HandlerIsolated ==
  ASSUME IsolationInv, NEW w \in Workers, Handler(w)
  PROVE  /\ RowsIsolated' /\ StockNonNegative'
         /\ \A p \in Products : stock'[p] + out'[p] = stock[p] + out[p]
  <1>1. CASE TakeLine(w)
    <2>1. /\ MoreLines(w) /\ WriteLine(w, Line(w).quantity)
          /\ Line(w).quantity \in Int
          /\ RowValue(w, Line(w).product) >= Line(w).quantity
      BY <1>1, LineType DEF TakeLine, InStock, IsolationInv
    <2> QED
      BY <2>1, WriteLineIsolated DEF WriteLine, ledgerVars
  <1>2. CASE ReturnLine(w)
    <2>1. MoreLines(w) /\ WriteLine(w, -Line(w).quantity)
      BY <1>2 DEF ReturnLine
    <2>2. Line(w).quantity \in Nat /\ Line(w).product \in Products
      BY <2>1, LineType DEF IsolationInv
    <2>3. RowValue(w, Line(w).product) >= -Line(w).quantity
      BY <2>2, RowValueNonNegative
    <2>4. -Line(w).quantity \in Int
      BY <2>2
    <2> QED
      BY <2>1, <2>3, <2>4, WriteLineIsolated DEF WriteLine, ledgerVars
  <1>3. CASE InsufficientStock(w)
    BY <1>3, PublishIsolated DEF InsufficientStock
  <1>4. CASE Commit(w)
    BY <1>4, PublishIsolated DEF Commit
  <1>5. CASE Emit(w) \/ EmitLost(w)
    BY <1>5 DEF Emit, EmitLost, ledgerVars, IsolationInv, RowsIsolated, StockNonNegative
  <1> QED
    BY <1>1, <1>2, <1>3, <1>4, <1>5 DEF Handler

LEMMA ModerateIsolated ==
  ASSUME IsolationInv, NEW a \in Moderators,
         (\E p \in Products : LoadProduct(a, p)) \/ SaveProduct(a)
  PROVE  RowsIsolated' /\ StockNonNegative'
  <1>1. CASE \E p \in Products : LoadProduct(a, p)
    <2>1. PICK p \in Products : LoadProduct(a, p)
      BY <1>1
    <2>2. \A b \in Moderators : moderating'[b].seen >= 0
      BY <2>1 DEF LoadProduct, IsolationInv, TypeOK, RowsIsolated, StockNonNegative
    <2>3. UNCHANGED <<stock, held, buf, delta>>
      BY <2>1 DEF LoadProduct, txnVars, ledgerVars
    <2> QED
      BY <2>2, <2>3 DEF IsolationInv, RowsIsolated, StockNonNegative
  <1>2. CASE SaveProduct(a)
    <2> DEFINE p == moderating[a].product
    <2>1. /\ \A w \in Workers : p \notin held[w]
          /\ stock' = [stock EXCEPT ![p] = moderating[a].seen]
          /\ moderating' = [moderating EXCEPT ![a] = NoLoad]
          /\ UNCHANGED <<held, buf, delta>>
      BY <1>2 DEF SaveProduct, txnVars
    <2>2. \A b \in Moderators : moderating'[b].seen >= 0
      BY <2>1 DEF IsolationInv, TypeOK, RowsIsolated, NoLoad
    <2>3. StockNonNegative'
      BY <2>1 DEF IsolationInv, TypeOK, RowsIsolated, StockNonNegative
    <2>4. \A w \in Workers, q \in Products : q \in held[w] => stock'[q] = stock[q]
      BY <2>1 DEF IsolationInv, TypeOK
    <2> QED
      BY <2>1, <2>2, <2>3, <2>4 DEF IsolationInv, RowsIsolated
  <1> QED
    BY <1>1, <1>2

LEMMA NextIsolated == IsolationInv /\ [Next]_vars => IsolationInv'
  <1> SUFFICES ASSUME IsolationInv, [Next]_vars
               PROVE  RowsIsolated' /\ StockNonNegative'
    BY NextTypeOK DEF IsolationInv
  <1>1. ASSUME NEW w \in Workers, NEW m \in Msgs, Receive(w, m) \/ SkipProcessed(w, m)
        PROVE  RowsIsolated' /\ StockNonNegative'
    BY <1>1 DEF Receive, SkipProcessed, ledgerVars, txnVars,
                IsolationInv, RowsIsolated, StockNonNegative
  <1>2. ASSUME NEW w \in Workers, DeadlockAbort(w) \/ Crash(w)
        PROVE  RowsIsolated' /\ StockNonNegative'
    BY <1>2, RollbackIsolated DEF DeadlockAbort, Crash, ledgerVars
  <1>3. CASE UNCHANGED vars
    BY <1>3 DEF vars, txnVars, ledgerVars, IsolationInv, RowsIsolated, StockNonNegative
  <1> QED
    BY <1>1, <1>2, <1>3, HandlerIsolated, ModerateIsolated DEF Next

LEMMA InitIsolated == Init => IsolationInv
  <1> SUFFICES ASSUME Init PROVE RowsIsolated /\ StockNonNegative
    BY InitTypeOK DEF IsolationInv
  <1> QED
    BY CatalogAssumption DEF Init, RowsIsolated, StockNonNegative, Zero, NoLoad

\* The transactions are isolated: one writer per row, and what it computed is
\* still the committed stock less what it took.
THEOREM Isolation == Spec => []RowsIsolated
  <1>1. IsolationInv => RowsIsolated
    BY DEF IsolationInv
  <1> QED
    BY <1>1, InitIsolated, NextIsolated, PTL DEF Spec

\* No product's stock is ever negative: whatever is reserved, released,
\* delivered twice, aborted, crashed or moderated, and in whatever order.
THEOREM NoNegativeStock == Spec => []StockNonNegative
  <1>1. IsolationInv => StockNonNegative
    BY DEF IsolationInv
  <1> QED
    BY <1>1, InitIsolated, NextIsolated, PTL DEF Spec

\* No handler loses another's update: only a moderator's save moves the stock
\* otherwise than by the units of the lines a transaction executed.
THEOREM Conservation == Spec => HandlersConserveStock
  <1> DEFINE Conserved == UNCHANGED moderating =>
               \A p \in Products : stock'[p] + out'[p] = stock[p] + out[p]
  <1>1. IsolationInv /\ [Next]_vars => [Conserved]_vars
    <2> SUFFICES ASSUME IsolationInv, Next, UNCHANGED moderating
                 PROVE  \A p \in Products : stock'[p] + out'[p] = stock[p] + out[p]
      OBVIOUS
    <2>1. ASSUME NEW a \in Moderators,
                 (\E p \in Products : LoadProduct(a, p)) \/ SaveProduct(a)
          PROVE  \A p \in Products : stock'[p] + out'[p] = stock[p] + out[p]
      <3>1. CASE \E p \in Products : LoadProduct(a, p)
        BY <3>1 DEF LoadProduct, ledgerVars
      <3>2. CASE SaveProduct(a)
        BY <3>2 DEF SaveProduct, IsolationInv, TypeOK
      <3> QED
        BY <2>1, <3>1, <3>2
    <2>2. ASSUME NEW w \in Workers, NEW m \in Msgs, Receive(w, m) \/ SkipProcessed(w, m)
          PROVE  UNCHANGED ledgerVars
      BY <2>2 DEF Receive, SkipProcessed
    <2>3. ASSUME NEW w \in Workers, DeadlockAbort(w) \/ Crash(w)
          PROVE  UNCHANGED ledgerVars
      BY <2>3 DEF DeadlockAbort, Crash
    <2> QED
      BY <2>1, <2>2, <2>3, HandlerIsolated DEF Next, ledgerVars
  <1> QED
    BY <1>1, InitIsolated, NextIsolated, PTL DEF Spec, HandlersConserveStock

\* What is left of a product and what has been promised make up its stock.
Balanced == \A p \in Products : stock[p] + out[p] = InitialStock[p]

\* Without moderation nothing is oversold: the units promised of a product,
\* over every interleaving and every duplicate, are at most its stock.
THEOREM NoOverselling ==
  ASSUME Moderators = {}
  PROVE  Spec => []NeverOversold
  <1>1. Init => Balanced
    <2> SUFFICES ASSUME Init, NEW p \in Products
                 PROVE  stock[p] + out[p] = InitialStock[p]
      BY DEF Balanced
    <2>1. stock[p] = InitialStock[p] /\ out[p] = 0 /\ InitialStock[p] \in Nat
      BY CatalogAssumption DEF Init, Zero
    <2> QED
      BY <2>1
  <1>2. IsolationInv /\ Balanced /\ [Next]_vars => Balanced'
    <2> SUFFICES ASSUME IsolationInv, Balanced, [Next]_vars, NEW p \in Products
                 PROVE  stock'[p] + out'[p] = stock[p] + out[p]
      BY DEF Balanced
    <2>1. ASSUME NEW w \in Workers, Handler(w)
          PROVE  stock'[p] + out'[p] = stock[p] + out[p]
      BY <2>1, HandlerIsolated
    <2>2. ASSUME NEW w \in Workers, NEW m \in Msgs, Receive(w, m) \/ SkipProcessed(w, m)
          PROVE  UNCHANGED <<stock, out>>
      BY <2>2 DEF Receive, SkipProcessed, ledgerVars
    <2>3. ASSUME NEW w \in Workers, DeadlockAbort(w) \/ Crash(w)
          PROVE  UNCHANGED <<stock, out>>
      BY <2>3 DEF DeadlockAbort, Crash, ledgerVars
    <2>4. CASE UNCHANGED vars
      BY <2>4 DEF vars, ledgerVars
    <2> QED
      BY <2>1, <2>2, <2>3, <2>4 DEF Next
  <1>3. IsolationInv /\ Balanced => NeverOversold
    <2> SUFFICES ASSUME IsolationInv, Balanced, NEW p \in Products
                 PROVE  out[p] <= InitialStock[p]
      BY DEF NeverOversold
    <2>1. stock[p] + out[p] = InitialStock[p]
      BY DEF Balanced
    <2>2. stock[p] \in Int /\ stock[p] >= 0 /\ out[p] \in Int
      BY DEF IsolationInv, TypeOK, StockNonNegative
    <2> QED
      BY <2>1, <2>2
  <1> QED
    BY <1>1, <1>2, <1>3, InitIsolated, NextIsolated, PTL DEF Spec

-----------------------------------------------------------------------------
(* The idempotency guard *)

\* No two copies of a message are handled at once.
Apart(m) ==
  \A v, w \in Workers :
    pc[v] = "items" /\ msg[v] = m /\ pc[w] = "items" /\ msg[w] = m => v = w

Once(m) == applied[m] = IF m \in processed THEN 1 ELSE 0

\* While its transaction is open, a message is not yet recorded.
OpenUnrecorded(m) ==
  \A w \in Workers : pc[w] = "items" /\ msg[w] = m => m \notin processed

\* Overlapping copies are all that can make the lookup in processed_messages
\* stale: a message whose own copies never overlap takes effect exactly once
\* however often it is delivered, whatever the other handlers do meanwhile.
\* (The code does not keep copies apart: see catalog_duplicates.)
THEOREM ExactlyOnceApart ==
  ASSUME NEW m \in Guarded
  PROVE  Spec /\ []Apart(m) => []Once(m)
  <1> DEFINE OnceInv == TypeOK /\ Once(m) /\ OpenUnrecorded(m)
  <1>0. m \in Msgs
    BY DEF Guarded, Msgs
  <1>1. Init => OnceInv
    BY <1>0, InitTypeOK DEF Init, Once, OpenUnrecorded
  <1>2. OnceInv /\ Apart(m) /\ [Next]_vars => OnceInv'
    <2> SUFFICES ASSUME TypeOK, Once(m), OpenUnrecorded(m), Apart(m), [Next]_vars
                 PROVE  Once(m)' /\ OpenUnrecorded(m)'
      BY NextTypeOK
    <2>1. ASSUME NEW w \in Workers, NEW n \in Msgs, Receive(w, n)
          PROVE  Once(m)' /\ OpenUnrecorded(m)'
      <3>1. n = m => m \notin processed
        BY <2>1 DEF Receive
      <3> QED
        BY <2>1, <3>1 DEF Receive, ledgerVars, TypeOK, Once, OpenUnrecorded
    <2>2. ASSUME NEW w \in Workers, Commit(w)
          PROVE  Once(m)' /\ OpenUnrecorded(m)'
      <3>1. pc[w] = "items" /\ msg[w] \in Msgs
        BY <2>2 DEF Commit, TypeOK
      <3>2. /\ pc'[w] # "items" /\ msg' = msg
            /\ \A v \in Workers \ {w} : pc'[v] = pc[v]
        BY <2>2 DEF Commit, Finish, TypeOK
      <3>3. /\ processed' = processed \cup ({msg[w]} \cap Guarded)
            /\ applied'[m] = IF msg[w] = m THEN applied[m] + 1 ELSE applied[m]
        BY <2>2, <1>0 DEF Commit, Recorded, TypeOK
      <3>4. CASE msg[w] = m
        <4>1. m \notin processed /\ applied[m] = 0
          BY <3>1, <3>4 DEF OpenUnrecorded, Once
        <4>2. Once(m)'
          BY <4>1, <3>3, <3>4 DEF Once
        <4>3. \A v \in Workers : pc'[v] = "items" => msg'[v] # m
          BY <3>1, <3>2, <3>4 DEF Apart
        <4> QED BY <4>2, <4>3 DEF OpenUnrecorded
      <3>5. CASE msg[w] # m
        BY <3>2, <3>3, <3>5 DEF Once, OpenUnrecorded
      <3> QED
        BY <3>4, <3>5
    <2>3. ASSUME NEW w \in Workers,
                 TakeLine(w) \/ ReturnLine(w)
          PROVE  Once(m)' /\ OpenUnrecorded(m)'
      BY <2>3 DEF TakeLine, ReturnLine, WriteLine, ledgerVars, Once, OpenUnrecorded
    <2>4. ASSUME NEW w \in Workers,
                 InsufficientStock(w) \/ Emit(w) \/ EmitLost(w)
                   \/ DeadlockAbort(w) \/ Crash(w)
          PROVE  Once(m)' /\ OpenUnrecorded(m)'
      <3>1. UNCHANGED <<processed, applied>>
        BY <2>4 DEF InsufficientStock, Emit, EmitLost, DeadlockAbort, Crash, ledgerVars
      <3>2. \A v \in Workers : pc'[v] = "items" => pc[v] = "items" /\ msg'[v] = msg[v]
        BY <2>4 DEF InsufficientStock, Emit, EmitLost, DeadlockAbort, Crash,
                    Finish, Idle, TypeOK
      <3> QED
        BY <3>1, <3>2 DEF Once, OpenUnrecorded
    <2>5. ASSUME UNCHANGED <<pc, msg, processed, applied>>
          PROVE  Once(m)' /\ OpenUnrecorded(m)'
      BY <2>5 DEF Once, OpenUnrecorded
    <2>6. ASSUME NEW w \in Workers, NEW n \in Msgs, SkipProcessed(w, n)
          PROVE  UNCHANGED <<pc, msg, processed, applied>>
      BY <2>6 DEF SkipProcessed, ledgerVars, txnVars
    <2>7. ASSUME NEW a \in Moderators,
                 (\E p \in Products : LoadProduct(a, p)) \/ SaveProduct(a)
          PROVE  UNCHANGED <<pc, msg, processed, applied>>
      BY <2>7 DEF LoadProduct, SaveProduct, ledgerVars, txnVars
    <2>8. CASE UNCHANGED vars
      BY <2>5, <2>8 DEF vars, ledgerVars, txnVars
    <2> QED
      BY <2>1, <2>2, <2>3, <2>4, <2>5, <2>6, <2>7, <2>8 DEF Next, Handler
  <1>3. OnceInv => Once(m)
    OBVIOUS
  <1> QED
    BY <1>1, <1>2, <1>3, PTL DEF Spec

-----------------------------------------------------------------------------
(* Replies and the stock behind them *)

Good == {"reserved", "released"}

\* Handlers about to tell that m took effect.
Telling(m) == {w \in Workers : pc[w] = "emit" /\ msg[w] = m /\ reply[w] \in Good}

Told(m) == replied[m]["reserved"] + replied[m]["released"]

\* Stronger than RepliesBacked by the replies still to come.
Backed == \A m \in Msgs : Told(m) + Cardinality(Telling(m)) <= applied[m]

LEMMA TellingCount ==
  ASSUME IsFiniteSet(Workers), NEW m
  PROVE  IsFiniteSet(Telling(m)) /\ Cardinality(Telling(m)) \in Nat
  BY FS_Subset, FS_CardinalityType DEF Telling

LEMMA ToldType ==
  ASSUME TypeOK, NEW m \in Msgs
  PROVE  /\ Told(m) \in Nat /\ applied[m] \in Nat
         /\ replied[m] \in [Outcomes -> Nat]
  BY DEF TypeOK, Told, Outcomes

\* A step after which fewer are about to tell, and nothing was told.
LEMMA FewerTell ==
  ASSUME IsFiniteSet(Workers), TypeOK, Backed, NEW m \in Msgs,
         Telling(m)' \subseteq Telling(m), UNCHANGED <<applied, replied>>
  PROVE  (Told(m) + Cardinality(Telling(m)) <= applied[m])'
  <1>1. /\ Cardinality(Telling(m)') \in Nat
        /\ Cardinality(Telling(m)') <= Cardinality(Telling(m))
    BY TellingCount, FS_Subset, FS_CardinalityType
  <1>2. Told(m)' = Told(m) /\ applied'[m] = applied[m]
    BY DEF Told
  <1> QED
    BY <1>1, <1>2, ToldType, TellingCount DEF Backed

LEMMA CommitBacked ==
  ASSUME IsFiniteSet(Workers), TypeOK, Backed, NEW w \in Workers, Commit(w), NEW m \in Msgs
  PROVE  (Told(m) + Cardinality(Telling(m)) <= applied[m])'
  <1>1. /\ msg' = msg /\ pc[w] = "items" /\ pc'[w] = "emit" /\ reply'[w] \in Good
        /\ \A v \in Workers \ {w} : pc'[v] = pc[v] /\ reply'[v] = reply[v]
        /\ Told(m)' = Told(m)
    BY DEF Commit, Finish, Good, TypeOK, Told
  <1>2. CASE msg[w] = m
    <2>1. Telling(m)' = Telling(m) \cup {w} /\ w \notin Telling(m)
      BY <1>1, <1>2 DEF Telling
    <2>2. Cardinality(Telling(m)') = Cardinality(Telling(m)) + 1
      BY <2>1, TellingCount, FS_AddElement
    <2>3. applied'[m] = applied[m] + 1
      BY <1>2 DEF Commit, TypeOK
    <2> QED
      BY <1>1, <2>2, <2>3, ToldType, TellingCount DEF Backed
  <1>3. CASE msg[w] # m
    <2>1. Telling(m)' = Telling(m)
      BY <1>1, <1>3 DEF Telling
    <2>2. applied'[m] = applied[m]
      BY <1>3 DEF Commit, TypeOK
    <2> QED
      BY <1>1, <2>1, <2>2 DEF Backed
  <1> QED
    BY <1>2, <1>3

LEMMA EmitBacked ==
  ASSUME IsFiniteSet(Workers), TypeOK, Backed, NEW w \in Workers, Emit(w), NEW m \in Msgs
  PROVE  (Told(m) + Cardinality(Telling(m)) <= applied[m])'
  <1>1. /\ pc[w] = "emit" /\ pc'[w] = "idle" /\ applied' = applied
        /\ \A v \in Workers \ {w} : /\ pc'[v] = pc[v] /\ msg'[v] = msg[v]
                                     /\ reply'[v] = reply[v]
        /\ msg[w] \in Msgs /\ reply[w] \in Outcomes
        /\ replied' = [replied EXCEPT ![msg[w]][reply[w]] = @ + 1]
    BY DEF Emit, Idle, TypeOK, ledgerVars
  <1>2. Telling(m)' = Telling(m) \ {w}
    BY <1>1 DEF Telling
  <1>3. CASE w \in Telling(m)
    <2>1. Cardinality(Telling(m)') = Cardinality(Telling(m)) - 1
      BY <1>2, <1>3, TellingCount, FS_RemoveElement
    <2>2. msg[w] = m /\ reply[w] \in {"reserved", "released"}
      BY <1>3 DEF Telling, Good
    <2>3. replied'[m] = [replied[m] EXCEPT ![reply[w]] = @ + 1]
      BY <1>1, <2>2 DEF TypeOK
    <2>4. Told(m)' = Told(m) + 1
      BY <2>2, <2>3, ToldType DEF Told, Outcomes
    <2> QED
      BY <1>1, <2>1, <2>4, ToldType, TellingCount DEF Backed
  <1>4. CASE w \notin Telling(m)
    <2>1. Telling(m)' = Telling(m)
      BY <1>2, <1>4
    <2>2. msg[w] # m \/ reply[w] = "failed"
      BY <1>1, <1>4 DEF Telling, Good, Outcomes
    <2>3. Told(m)' = Told(m)
      <3>1. CASE msg[w] # m
        BY <1>1, <3>1 DEF Told, TypeOK
      <3>2. CASE msg[w] = m /\ reply[w] = "failed"
        <4>1. replied'[m] = [replied[m] EXCEPT !["failed"] = @ + 1]
          BY <1>1, <3>2 DEF TypeOK
        <4> QED
          BY <4>1, ToldType DEF Told, Outcomes
      <3> QED
        BY <2>2, <3>1, <3>2
    <2> QED
      BY <1>1, <2>1, <2>3 DEF Backed
  <1> QED
    BY <1>3, <1>4

LEMMA NextBacked ==
  ASSUME IsFiniteSet(Workers), TypeOK, Backed, [Next]_vars
  PROVE  Backed'
  <1> SUFFICES ASSUME NEW m \in Msgs
               PROVE  (Told(m) + Cardinality(Telling(m)) <= applied[m])'
    BY DEF Backed
  <1>1. ASSUME NEW w \in Workers, TakeLine(w) \/ ReturnLine(w)
        PROVE  UNCHANGED <<pc, msg, reply, applied, replied>>
    BY <1>1 DEF TakeLine, ReturnLine, WriteLine, ledgerVars
  <1>2. ASSUME NEW a \in Moderators, (\E p \in Products : LoadProduct(a, p)) \/ SaveProduct(a)
        PROVE  UNCHANGED <<pc, msg, reply, applied, replied>>
    BY <1>2 DEF LoadProduct, SaveProduct, ledgerVars, txnVars
  <1>3. ASSUME NEW w \in Workers, NEW k \in Msgs, SkipProcessed(w, k)
        PROVE  UNCHANGED <<pc, msg, reply, applied, replied>>
    BY <1>3 DEF SkipProcessed, ledgerVars, txnVars
  <1>4. ASSUME UNCHANGED <<pc, msg, reply, applied, replied>>
        PROVE  (Told(m) + Cardinality(Telling(m)) <= applied[m])'
    BY <1>4, FewerTell DEF Telling
  <1>5. ASSUME NEW w \in Workers, NEW k \in Msgs, Receive(w, k)
        PROVE  (Told(m) + Cardinality(Telling(m)) <= applied[m])'
    <2>1. /\ pc'[w] = "items" /\ reply' = reply
          /\ \A v \in Workers \ {w} : pc'[v] = pc[v] /\ msg'[v] = msg[v]
          /\ UNCHANGED <<applied, replied>>
      BY <1>5 DEF Receive, TypeOK, ledgerVars
    <2>2. Telling(m)' \subseteq Telling(m)
      BY <2>1 DEF Telling
    <2> QED
      BY <2>1, <2>2, FewerTell
  <1>6. ASSUME NEW w \in Workers,
               InsufficientStock(w) \/ EmitLost(w) \/ DeadlockAbort(w) \/ Crash(w)
        PROVE  (Told(m) + Cardinality(Telling(m)) <= applied[m])'
    <2>1. /\ pc'[w] = "idle" \/ reply'[w] = "failed"
          /\ \A v \in Workers \ {w} : /\ pc'[v] = pc[v] /\ msg'[v] = msg[v]
                                       /\ reply'[v] = reply[v]
          /\ UNCHANGED <<applied, replied>>
      BY <1>6 DEF InsufficientStock, EmitLost, DeadlockAbort, Crash, Finish, Idle,
                  TypeOK, ledgerVars
    <2>2. Telling(m)' \subseteq Telling(m)
      BY <2>1 DEF Telling, Good
    <2> QED
      BY <2>1, <2>2, FewerTell
  <1>7. CASE UNCHANGED vars
    BY <1>4, <1>7 DEF vars, ledgerVars, txnVars
  <1> QED
    BY <1>1, <1>2, <1>3, <1>4, <1>5, <1>6, <1>7, CommitBacked, EmitBacked DEF Next, Handler

\* No message is answered STOCK_RESERVED or STOCK_RELEASED more often than a
\* transaction committed its lines (catalog.service.ts: the emit comes after
\* the commit), for any finite number of handlers.
THEOREM RepliesFollowCommits ==
  ASSUME IsFiniteSet(Workers)
  PROVE  Spec => []RepliesBacked
  <1>1. Init => TypeOK /\ Backed
    <2> SUFFICES ASSUME Init, NEW m \in Msgs
                 PROVE  Told(m) + Cardinality(Telling(m)) <= applied[m]
      BY InitTypeOK DEF Backed
    <2>1. Telling(m) = {}
      BY DEF Init, Telling
    <2>2. Told(m) = 0 /\ applied[m] = 0
      BY DEF Init, Told, Outcomes
    <2> QED
      BY <2>1, <2>2, FS_EmptySet
  <1>2. TypeOK /\ Backed /\ [Next]_vars => TypeOK' /\ Backed'
    BY NextTypeOK, NextBacked
  <1>3. TypeOK /\ Backed => RepliesBacked
    <2> SUFFICES ASSUME TypeOK, Backed, NEW m \in Msgs
                 PROVE  Told(m) <= applied[m]
      BY DEF RepliesBacked, Told
    <2> QED
      BY ToldType, TellingCount DEF Backed
  <1> QED
    BY <1>1, <1>2, <1>3, PTL DEF Spec

-----------------------------------------------------------------------------
(* The transactions are serializable: Catalog implements StockLedger *)

LEMMA LedgerSum ==
  ASSUME NEW f, NEW T
  PROVE  Ledger!SumFunctionOnSet(f, T) = SumFunctionOnSet(f, T)
  BY DEF Ledger!SumFunctionOnSet, Ledger!FoldFunctionOnSet, Ledger!MapThenFoldSet,
         SumFunctionOnSet, FoldFunctionOnSet, MapThenFoldSet

LEMMA ItemTypes ==
  ASSUME NEW m \in Msgs
  PROVE  /\ Len(Items[m]) \in Nat
         /\ \A i \in 1..Len(Items[m]) : /\ Items[m][i].quantity \in Nat
                                         /\ Items[m][i].product \in Products
  <1>1. Items[m] \in Seq([product : Products, quantity : Nat])
    BY CatalogAssumption
  <1>2. ASSUME NEW i \in 1..Len(Items[m])
        PROVE  Items[m][i] \in [product : Products, quantity : Nat]
    BY <1>1, <1>2, ElementOfSeq
  <1> QED
    BY <1>1, <1>2

\* Units of p in no line, and in one line more.
LEMMA UnitsStep ==
  ASSUME NEW m \in Msgs, NEW p \in Products, NEW k \in Nat, k <= Len(Items[m])
  PROVE  /\ Ledger!Units(m, k, p) \in Nat
         /\ k = 0 => Ledger!Units(m, k, p) = 0
         /\ k < Len(Items[m]) =>
              Ledger!Units(m, k + 1, p) =
                Ledger!Units(m, k, p)
                  + (IF Items[m][k + 1].product = p THEN Items[m][k + 1].quantity ELSE 0)
  <1> DEFINE f(n) == [i \in 1..n |-> Items[m][i].quantity]
             S(n) == {i \in 1..n : Items[m][i].product = p}
  <1>1. \A n : Ledger!Units(m, n, p) = SumFunctionOnSet(f(n), S(n))
    BY LedgerSum DEF Ledger!Units
  <1>2. ASSUME NEW n \in Nat, n <= Len(Items[m])
        PROVE  IsFiniteSet(S(n)) /\ \A i \in S(n) : f(n)[i] \in Nat
    <2>1. IsFiniteSet(1..n)
      BY FS_Interval
    <2>2. IsFiniteSet(S(n))
      BY <2>1, FS_Subset
    <2>3. \A i \in S(n) : f(n)[i] \in Nat
      BY <1>2, ItemTypes
    <2> QED
      BY <2>2, <2>3
  <1>3. Ledger!Units(m, k, p) \in Nat
    <2>1. IsFiniteSet(S(k)) /\ \A i \in S(k) : f(k)[i] \in Nat
      BY <1>2
    <2>2. Ledger!Units(m, k, p) = SumFunctionOnSet(f(k), S(k))
      BY <1>1
    <2> HIDE DEF f, S
    <2> QED
      BY <2>1, <2>2, SumNat
  <1>4. ASSUME k = 0 PROVE Ledger!Units(m, k, p) = 0
    <2>1. S(k) = {}
      BY <1>4
    <2>2. Ledger!Units(m, k, p) = SumFunctionOnSet(f(k), S(k))
      BY <1>1
    <2> HIDE DEF f, S
    <2> QED
      BY <2>1, <2>2, SumEmpty
  <1>5. ASSUME k < Len(Items[m])
        PROVE  Ledger!Units(m, k + 1, p) =
                 Ledger!Units(m, k, p)
                   + (IF Items[m][k + 1].product = p THEN Items[m][k + 1].quantity ELSE 0)
    <2>1. k + 1 \in Nat /\ k + 1 <= Len(Items[m])
      BY <1>5, ItemTypes
    <2>2. /\ IsFiniteSet(S(k)) /\ \A i \in S(k) : f(k)[i] \in Nat
          /\ IsFiniteSet(S(k + 1)) /\ \A i \in S(k + 1) : f(k + 1)[i] \in Nat
      BY <1>2, <2>1
    <2>3. /\ Ledger!Units(m, k, p) = SumFunctionOnSet(f(k), S(k))
          /\ Ledger!Units(m, k + 1, p) = SumFunctionOnSet(f(k + 1), S(k + 1))
      BY <1>1
    <2>4. \A i \in S(k) : f(k)[i] \in Int /\ f(k + 1)[i] = f(k)[i]
      BY <2>1, <2>2
    <2>5. SumFunctionOnSet(f(k), S(k)) = SumFunctionOnSet(f(k + 1), S(k))
      <3> HIDE DEF f, S
      <3> QED
        BY <2>2, <2>4, SumSame
    <2>6. CASE Items[m][k + 1].product = p
      <3>1. k + 1 \in S(k + 1) /\ S(k + 1) \ {k + 1} = S(k)
            /\ f(k + 1)[k + 1] = Items[m][k + 1].quantity
        BY <2>6
      <3>2. \A i \in S(k + 1) : f(k + 1)[i] \in Int
        BY <2>2
      <3> HIDE DEF f, S
      <3>3. SumFunctionOnSet(f(k + 1), S(k + 1))
              = f(k + 1)[k + 1] + SumFunctionOnSet(f(k + 1), S(k + 1) \ {k + 1})
        <4> DEFINE g == f(k + 1)
                   T == S(k + 1)
        <4>1. IsFiniteSet(T) /\ (\A i \in T : g[i] \in Int) /\ k + 1 \in T
          BY <2>2, <3>1, <3>2
        <4> HIDE DEF g, T
        <4>2. SumFunctionOnSet(g, T) = g[k + 1] + SumFunctionOnSet(g, T \ {k + 1})
          BY <4>1, SumAdd
        <4> QED
          BY <4>2 DEF g, T
      <3>4. Items[m][k + 1].quantity \in Nat
        BY <2>1, ItemTypes
      <3>5. SumFunctionOnSet(f(k + 1), S(k + 1) \ {k + 1}) = Ledger!Units(m, k, p)
        BY <2>3, <2>5, <3>1
      <3>6. Ledger!Units(m, k + 1, p)
              = Items[m][k + 1].quantity + Ledger!Units(m, k, p)
        BY <2>3, <3>1, <3>3, <3>5
      <3> QED
        BY <1>3, <2>6, <3>4, <3>6
    <2>7. CASE Items[m][k + 1].product # p
      <3>1. S(k + 1) = S(k)
        BY <2>7
      <3> HIDE DEF f, S
      <3> QED
        BY <1>3, <2>3, <2>5, <2>7, <3>1
    <2> QED
      BY <2>6, <2>7
  <1> QED
    BY <1>3, <1>4, <1>5

\* Units a worker has taken so far, counted from the lines it has executed.
Executed(w, p) ==
  IF msg[w] \in ReleaseMsgs THEN - Ledger!Units(msg[w], line[w] - 1, p)
                            ELSE Ledger!Units(msg[w], line[w] - 1, p)

\* An open transaction took exactly the lines before the one it is at.
LinesTaken ==
  \A w \in Workers :
    /\ pc[w] # "items" => line[w] = 1 /\ delta[w] = Zero
    /\ pc[w] = "items" => /\ line[w] <= Len(Items[msg[w]]) + 1
                          /\ \A p \in Products : delta[w][p] = Executed(w, p)

LEMMA InitLinesTaken == Init => LinesTaken
  BY DEF Init, LinesTaken

LEMMA WriteLineTaken ==
  ASSUME TypeOK, LinesTaken, NEW w \in Workers, MoreLines(w),
         NEW n, n = (IF msg[w] \in ReleaseMsgs THEN - Line(w).quantity ELSE Line(w).quantity),
         WriteLine(w, n)
  PROVE  LinesTaken'
  <1> DEFINE m == msg[w]
             k == line[w] - 1
             q == Line(w).product
             u == Line(w).quantity
  <1>1. /\ m \in Msgs /\ q \in Products /\ u \in Nat
        /\ k \in Nat /\ k < Len(Items[m]) /\ line[w] = k + 1 /\ line[w] \in Nat
        /\ Line(w) = Items[m][k + 1] /\ pc[w] = "items" /\ Len(Items[m]) \in Nat
    <2>1. m \in Msgs /\ q \in Products /\ u \in Nat
      BY LineType
    <2>2. line[w] \in Nat \ {0} /\ line[w] <= Len(Items[m]) /\ pc[w] = "items"
      BY DEF TypeOK, MoreLines
    <2>3. Len(Items[m]) \in Nat
      BY <2>1, ItemTypes
    <2>4. line[w] = k + 1 /\ k \in Nat /\ k < Len(Items[m])
      BY SMTT(30), <2>2, <2>3
    <2> QED
      BY <2>1, <2>2, <2>3, <2>4 DEF Line
  <1>2. /\ pc' = pc /\ msg' = msg
        /\ line' = [line EXCEPT ![w] = @ + 1]
        /\ delta' = [delta EXCEPT ![w][q] = @ + n]
    BY DEF WriteLine
  <1>3. ASSUME NEW p \in Products
        PROVE  delta'[w][p] = IF p = q THEN delta[w][p] + n ELSE delta[w][p]
    BY <1>1, <1>2 DEF TypeOK
  <1>4. ASSUME NEW p \in Products PROVE delta'[w][p] = Executed(w, p)'
    <2>1. delta[w][p] = Executed(w, p)
      BY <1>1 DEF LinesTaken
    <2>2. /\ Ledger!Units(m, k, p) \in Nat
          /\ Ledger!Units(m, k + 1, p) = Ledger!Units(m, k, p) + (IF q = p THEN u ELSE 0)
      <3>1. q = Items[m][k + 1].product /\ u = Items[m][k + 1].quantity
        BY <1>1
      <3>2. m \in Msgs /\ k \in Nat /\ k < Len(Items[m]) /\ k <= Len(Items[m])
        BY <1>1
      <3> HIDE DEF m, k, q, u
      <3> QED
        BY <3>1, <3>2, UnitsStep
    <2>3. line'[w] - 1 = k + 1
      BY <1>1, <1>2 DEF TypeOK
    <2>4. Executed(w, p)' = IF m \in ReleaseMsgs THEN - Ledger!Units(m, k + 1, p)
                                                 ELSE Ledger!Units(m, k + 1, p)
      BY <1>2, <2>3 DEF Executed
    <2>5. Executed(w, p) = IF m \in ReleaseMsgs THEN - Ledger!Units(m, k, p)
                                                ELSE Ledger!Units(m, k, p)
      BY DEF Executed
    <2>6. n = IF m \in ReleaseMsgs THEN - u ELSE u
      OBVIOUS
    <2>7. /\ Ledger!Units(m, k, p) \in Nat /\ Ledger!Units(m, k + 1, p) \in Nat /\ u \in Nat
          /\ p = q => Ledger!Units(m, k + 1, p) = Ledger!Units(m, k, p) + u
          /\ p # q => Ledger!Units(m, k + 1, p) = Ledger!Units(m, k, p)
      <3> HIDE DEF m, k, q, u
      <3> QED
        BY <1>1, <2>2
    <2> HIDE DEF m, k, q, u
    <2>8. CASE m \in ReleaseMsgs
      <3>1. /\ delta[w][p] = - Ledger!Units(m, k, p) /\ n = - u
            /\ Executed(w, p)' = - Ledger!Units(m, k + 1, p)
        BY <2>1, <2>4, <2>5, <2>6, <2>8
      <3> QED
        BY <1>3, <2>7, <3>1
    <2>9. CASE m \notin ReleaseMsgs
      <3>1. /\ delta[w][p] = Ledger!Units(m, k, p) /\ n = u
            /\ Executed(w, p)' = Ledger!Units(m, k + 1, p)
        BY <2>1, <2>4, <2>5, <2>6, <2>9
      <3> QED
        BY <1>3, <2>7, <3>1
    <2> QED
      BY <2>8, <2>9
  <1>5. line'[w] <= Len(Items[msg'[w]]) + 1
    BY <1>1, <1>2 DEF TypeOK
  <1>6. ASSUME NEW v \in Workers, v # w
        PROVE  /\ pc'[v] = pc[v] /\ msg'[v] = msg[v] /\ line'[v] = line[v]
               /\ delta'[v] = delta[v]
               /\ \A p \in Products : Executed(v, p)' = Executed(v, p)
    <2>1. /\ pc'[v] = pc[v] /\ msg'[v] = msg[v] /\ line'[v] = line[v]
          /\ delta'[v] = delta[v]
      BY <1>2, <1>6 DEF TypeOK
    <2> QED
      BY <2>1 DEF Executed
  <1>7. ASSUME NEW v \in Workers
        PROVE  /\ pc'[v] # "items" => line'[v] = 1 /\ delta'[v] = Zero
               /\ pc'[v] = "items" => /\ line'[v] <= Len(Items[msg'[v]]) + 1
                                      /\ \A p \in Products : delta'[v][p] = Executed(v, p)'
    <2> HIDE DEF m, k, q, u
    <2>1. CASE v = w
      BY <1>1, <1>2, <1>4, <1>5, <2>1
    <2>2. CASE v # w
      BY <1>6, <2>2 DEF LinesTaken
    <2> QED
      BY <2>1, <2>2
  <1> QED
    BY <1>7 DEF LinesTaken, Zero

LEMMA EndTaken ==
  ASSUME TypeOK, LinesTaken, NEW w \in Workers, EndTxn(w),
         Idle(w) \/ \E o \in Outcomes : Finish(w, o)
  PROVE  LinesTaken'
  <1>1. /\ pc'[w] # "items" /\ line'[w] = 1 /\ delta'[w] = Zero
        /\ \A v \in Workers \ {w} : /\ pc'[v] = pc[v] /\ msg'[v] = msg[v]
                                     /\ line'[v] = line[v] /\ delta'[v] = delta[v]
    BY DEF TypeOK, EndTxn, Idle, Finish
  <1> QED
    BY <1>1 DEF LinesTaken, Executed, Zero

LEMMA NextLinesTaken ==
  ASSUME TypeOK, LinesTaken, [Next]_vars
  PROVE  LinesTaken'
  <1>1. ASSUME UNCHANGED <<pc, msg, line, delta>> PROVE LinesTaken'
    BY <1>1 DEF LinesTaken, Executed, Zero
  <1>2. ASSUME NEW w \in Workers, NEW m \in Msgs, SkipProcessed(w, m)
        PROVE  UNCHANGED <<pc, msg, line, delta>>
    BY <1>2 DEF SkipProcessed, txnVars
  <1>3. ASSUME NEW a \in Moderators,
               (\E p \in Products : LoadProduct(a, p)) \/ SaveProduct(a)
        PROVE  UNCHANGED <<pc, msg, line, delta>>
    BY <1>3 DEF LoadProduct, SaveProduct, txnVars
  <1>4. ASSUME NEW w \in Workers, NEW m \in Msgs, Receive(w, m) PROVE LinesTaken'
    <2>1. /\ pc[w] = "idle" /\ line' = line /\ delta' = delta
          /\ pc'[w] = "items" /\ msg'[w] = m
          /\ \A v \in Workers \ {w} : pc'[v] = pc[v] /\ msg'[v] = msg[v]
      BY <1>4 DEF Receive, TypeOK
    <2>2. line[w] = 1 /\ delta[w] = Zero
      BY <2>1 DEF LinesTaken
    <2>3. Len(Items[m]) \in Nat
      BY ItemTypes
    <2>4. \A p \in Products : Ledger!Units(m, 0, p) = 0
      BY <2>3, UnitsStep
    <2>5. \A p \in Products : delta'[w][p] = Executed(w, p)'
      BY <2>1, <2>2, <2>4 DEF Executed, Zero
    <2>6. line'[w] <= Len(Items[msg'[w]]) + 1
      BY <2>1, <2>2, <2>3
    <2>7. \A v \in Workers \ {w} : \A p \in Products : Executed(v, p)' = Executed(v, p)
      BY <2>1 DEF Executed
    <2> QED
      BY <2>1, <2>2, <2>5, <2>6, <2>7 DEF LinesTaken, Zero
  <1>5. ASSUME NEW w \in Workers, TakeLine(w) \/ ReturnLine(w) PROVE LinesTaken'
    <2>1. CASE TakeLine(w)
      <3>1. msg[w] \notin ReleaseMsgs
        BY <2>1, CatalogAssumption DEF TakeLine, Reserving, Guarded
      <3> QED
        BY <2>1, <3>1, WriteLineTaken DEF TakeLine
    <2>2. CASE ReturnLine(w)
      BY <2>2, WriteLineTaken DEF ReturnLine
    <2> QED
      BY <1>5, <2>1, <2>2
  <1>6. ASSUME NEW w \in Workers, InsufficientStock(w) \/ Commit(w) PROVE LinesTaken'
    <2>1. EndTxn(w) /\ \E o \in Outcomes : Finish(w, o)
      BY <1>6 DEF InsufficientStock, Commit, Outcomes
    <2> QED
      BY <2>1, EndTaken
  <1>7. ASSUME NEW w \in Workers, DeadlockAbort(w) \/ Crash(w) PROVE LinesTaken'
    BY <1>7, EndTaken DEF DeadlockAbort, Crash
  <1>8. ASSUME NEW w \in Workers, Emit(w) \/ EmitLost(w) PROVE LinesTaken'
    <2>1. /\ pc[w] = "emit" /\ pc'[w] = "idle" /\ line' = line /\ delta' = delta
          /\ \A v \in Workers \ {w} : pc'[v] = pc[v] /\ msg'[v] = msg[v]
      BY <1>8 DEF Emit, EmitLost, Idle, TypeOK
    <2> QED
      BY <2>1 DEF LinesTaken, Executed, Zero
  <1>9. CASE UNCHANGED vars
    BY <1>1, <1>9 DEF vars, txnVars
  <1> QED
    BY <1>1, <1>2, <1>3, <1>4, <1>5, <1>6, <1>7, <1>8, <1>9 DEF Next, Handler

\* What a transaction commits is the stock less the lines it executed.
LEMMA PublishLess ==
  ASSUME IsolationInv, LinesTaken, NEW w \in Workers, pc[w] = "items", Publish(w)
  PROVE  /\ \A p \in Products : stock'[p] = stock[p] - Executed(w, p)
         /\ stock' = [p \in Products |-> stock'[p]]
  <1>1. ASSUME NEW p \in Products PROVE stock'[p] = stock[p] - Executed(w, p)
    <2>1. stock'[p] = IF p \in held[w] THEN buf[w][p] ELSE stock[p]
      BY DEF Publish, Committed
    <2>2. delta[w][p] = Executed(w, p) /\ delta[w][p] \in Int /\ stock[p] \in Int
      BY DEF LinesTaken, IsolationInv, TypeOK
    <2>3. IF p \in held[w] THEN buf[w][p] = stock[p] - delta[w][p] ELSE delta[w][p] = 0
      BY DEF IsolationInv, RowsIsolated
    <2> QED
      BY <2>1, <2>2, <2>3
  <1>2. stock' = [p \in Products |-> stock'[p]]
    BY DEF Publish, Committed
  <1> QED
    BY <1>1, <1>2

LEMMA CommitLedger ==
  ASSUME IsolationInv, LinesTaken, NEW w \in Workers, Commit(w), StockNonNegative'
  PROVE  Ledger!Next
  <1> DEFINE m == msg[w]
  <1>1. /\ pc[w] = "items" /\ m \in Msgs /\ Publish(w)
        /\ applied' = [applied EXCEPT ![m] = @ + 1]
    BY DEF Commit, IsolationInv, TypeOK
  <1>2. line[w] - 1 = Len(Items[m])
    <2>1. line[w] \in Nat /\ line[w] <= Len(Items[m]) + 1 /\ line[w] > Len(Items[m])
      BY <1>1 DEF Commit, IsolationInv, TypeOK, LinesTaken
    <2> QED
      BY <1>1, <2>1, ItemTypes
  <1>3. \A p \in Products :
          /\ Executed(w, p) = IF m \in ReleaseMsgs THEN - Ledger!Units(m, Ledger!All(m), p)
                                                   ELSE Ledger!Units(m, Ledger!All(m), p)
          /\ stock'[p] = stock[p] - Executed(w, p)
    BY <1>1, <1>2, PublishLess DEF Executed, Ledger!All
  <1>4. \A p \in Products :
          Ledger!Units(m, Ledger!All(m), p) \in Nat /\ stock[p] \in Int /\ stock'[p] >= 0
    BY <1>1, ItemTypes, UnitsStep DEF Ledger!All, IsolationInv, TypeOK, StockNonNegative
  <1>5. CASE m \in ReleaseMsgs
    <2>1. stock' = [p \in Products |-> stock[p] + Ledger!Units(m, Ledger!All(m), p)]
      BY <1>1, <1>3, <1>4, <1>5, PublishLess
    <2>2. Ledger!Release(m)
      BY <1>1, <2>1 DEF Ledger!Release
    <2> QED
      BY <1>5, <2>2 DEF Ledger!Next
  <1>6. CASE m \notin ReleaseMsgs
    <2>1. stock' = Ledger!Less(m, Ledger!All(m))
      BY <1>1, <1>3, <1>6, PublishLess DEF Ledger!Less
    <2>2. Ledger!Covers(m, Ledger!All(m))
      BY <1>4, <2>1 DEF Ledger!Covers
    <2>3. Ledger!Reserve(m)
      BY <1>1, <2>1, <2>2 DEF Ledger!Reserve
    <2>4. m \in ReserveMsgs \cup RpcMsgs
      BY <1>1, <1>6 DEF Msgs
    <2> QED
      BY <2>3, <2>4 DEF Ledger!Next
  <1> QED
    BY <1>5, <1>6

LEMMA ShortLedger ==
  ASSUME IsolationInv, LinesTaken, NEW w \in Workers, InsufficientStock(w), StockNonNegative'
  PROVE  Ledger!Next
  <1> DEFINE m == msg[w]
             k == line[w] - 1
             q == Line(w).product
  <1>1. /\ pc[w] = "items" /\ m \in Msgs /\ q \in Products /\ Publish(w)
        /\ m \in Reserving /\ m \notin ReleaseMsgs /\ applied' = applied
        /\ Line(w).quantity \in Nat
    BY LineType, CatalogAssumption
       DEF InsufficientStock, MoreLines, IsolationInv, Reserving, Guarded
  <1>2. k \in 0..(Ledger!All(m) - 1) /\ k \in Nat /\ k < Len(Items[m]) /\ line[w] = k + 1
    BY <1>1, ItemTypes DEF InsufficientStock, MoreLines, IsolationInv, TypeOK, Ledger!All
  <1>3. \A p \in Products : Executed(w, p) = Ledger!Units(m, k, p)
    BY <1>1 DEF Executed
  <1>4. stock' = Ledger!Less(m, k)
    BY <1>1, <1>3, PublishLess DEF Ledger!Less
  <1>5. Ledger!Covers(m, k)
    BY <1>4 DEF Ledger!Covers, StockNonNegative
  <1>6. ~Ledger!Covers(m, k + 1)
    <2>1. Ledger!Units(m, k + 1, q) = Ledger!Units(m, k, q) + Line(w).quantity
      <3>1. Line(w) = Items[m][k + 1]
        BY <1>2 DEF Line
      <3>2. Ledger!Units(m, k + 1, q)
              = Ledger!Units(m, k, q)
                  + (IF Items[m][k + 1].product = q THEN Items[m][k + 1].quantity ELSE 0)
        <4> HIDE DEF m, k, q
        <4> QED
          BY <1>1, <1>2, UnitsStep
      <3>3. Items[m][k + 1].product = q /\ Items[m][k + 1].quantity = Line(w).quantity
        BY <3>1
      <3> QED
        BY <3>2, <3>3
    <2>2. RowValue(w, q) < Line(w).quantity
      BY <1>1, RowValueNonNegative DEF InsufficientStock, InStock
    <2>3. RowValue(w, q) = stock[q] - Ledger!Units(m, k, q)
      <3>1. RowValue(w, q) = stock[q] - delta[w][q]
        BY <1>1 DEF IsolationInv, TypeOK, RowsIsolated, RowValue
      <3> QED
        BY <1>1, <1>3, <3>1 DEF LinesTaken
    <2>4. Ledger!Units(m, k, q) \in Nat /\ stock[q] \in Int
      BY <1>1, <1>2, UnitsStep DEF IsolationInv, TypeOK
    <2>5. Ledger!Less(m, k + 1)[q] < 0
      BY <1>1, <2>1, <2>2, <2>3, <2>4 DEF Ledger!Less
    <2>6. Ledger!Less(m, k + 1)[q] \in Int
      BY <1>1, <2>1, <2>4 DEF Ledger!Less
    <2> HIDE DEF q, m, k
    <2> QED
      BY <1>1, <2>5, <2>6 DEF Ledger!Covers
  <1>7. Ledger!ReserveShort(m)
    <2> HIDE DEF m, k
    <2> QED
      BY <1>1, <1>2, <1>4, <1>5, <1>6 DEF Ledger!ReserveShort
  <1>8. m \in ReserveMsgs \cup RpcMsgs
    BY <1>1 DEF Reserving
  <1> QED
    BY <1>7, <1>8 DEF Ledger!Next

LEMMA LedgerStep ==
  ASSUME IsolationInv, LinesTaken, StockNonNegative', [Next]_vars
  PROVE  Ledger!Next \/ UNCHANGED Ledger!ledger
  <1>1. ASSUME NEW w \in Workers, NEW m \in Msgs, Receive(w, m) \/ SkipProcessed(w, m)
        PROVE  UNCHANGED <<stock, applied>>
    BY <1>1 DEF Receive, SkipProcessed, ledgerVars
  <1>2. ASSUME NEW w \in Workers, \/ TakeLine(w) \/ ReturnLine(w) \/ Emit(w) \/ EmitLost(w)
                                 \/ DeadlockAbort(w) \/ Crash(w)
        PROVE  UNCHANGED <<stock, applied>>
    BY <1>2 DEF TakeLine, ReturnLine, WriteLine, Emit, EmitLost, DeadlockAbort, Crash, ledgerVars
  <1>3. ASSUME NEW a \in Moderators, NEW p \in Products, LoadProduct(a, p)
        PROVE  UNCHANGED <<stock, applied>>
    BY <1>3 DEF LoadProduct, ledgerVars
  <1>4. ASSUME NEW a \in Moderators, SaveProduct(a) PROVE Ledger!Next
    <2> DEFINE p == moderating[a].product
    <2>1. p \in Products
      BY <1>4 DEF SaveProduct, IsolationInv, TypeOK, Loads
    <2>2. stock' = [stock EXCEPT ![p] = moderating[a].seen] /\ applied' = applied
      BY <1>4 DEF SaveProduct
    <2>3. stock' = [stock EXCEPT ![p] = stock'[p]] /\ stock'[p] >= 0
      BY <2>1, <2>2 DEF IsolationInv, TypeOK, StockNonNegative
    <2> HIDE DEF p
    <2>4. Ledger!Overwrite(p)
      BY <2>2, <2>3 DEF Ledger!Overwrite
    <2> QED
      BY <2>1, <2>4 DEF Ledger!Next
  <1>5. CASE UNCHANGED vars
    BY <1>5 DEF vars, ledgerVars, Ledger!ledger
  <1> QED
    BY <1>1, <1>2, <1>3, <1>4, <1>5, CommitLedger, ShortLedger
       DEF Next, Handler, Ledger!ledger

\* Whatever interleaves, deadlocks, dies or is delivered twice, the committed
\* stock changes as if each message were handled at one instant
\* (handleStockReserveRequest, releaseStockWithEvent, reserveStock).
THEOREM TransactionsSerializable == Spec => Serializable
  <1>1. Init => IsolationInv /\ LinesTaken /\ Ledger!Init
    BY InitIsolated, InitLinesTaken DEF Init, Ledger!Init, Msgs
  <1>2. IsolationInv /\ LinesTaken /\ [Next]_vars => IsolationInv' /\ LinesTaken'
    <2>1. IsolationInv => TypeOK
      BY DEF IsolationInv
    <2> QED
      BY <2>1, NextIsolated, NextLinesTaken
  <1>3. /\ IsolationInv /\ LinesTaken /\ IsolationInv'
        /\ [Next]_vars
        => [Ledger!Next]_(Ledger!ledger)
    <2>1. IsolationInv' => StockNonNegative'
      BY DEF IsolationInv
    <2> QED
      BY <2>1, LedgerStep
  <1> QED
    BY <1>1, <1>2, <1>3, PTL DEF Spec, Serializable, Ledger!Spec

=============================================================================
