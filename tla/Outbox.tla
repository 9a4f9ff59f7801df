-------------------------------- MODULE Outbox --------------------------------
(***************************************************************************)
(* The outbox of order-service: transactions that commit outbox_events     *)
(* rows, and the scheduled job that publishes them and marks them.         *)
(*                                                                         *)
(* The job starts every five seconds whether or not its last run has       *)
(* ended, on every instance of the service, and takes no lock: a run is a  *)
(* process here, and several are under way at a time.  A run loads a batch *)
(* of unprocessed rows once and goes through it in order of createdAt.     *)
(***************************************************************************)
EXTENDS Integers, FiniteSets

CONSTANTS
  Rows,       \* rows outbox_events can come to hold
  Txns,       \* sets of rows, each committed by one transaction
  CreatedAt,  \* per row: the time its transaction began, the same for all of them
  Batch,      \* rows a run loads at most (50)
  Runs,       \* runs of processOutboxEvents that can be under way together
  NoRow       \* marks a run that is between two rows

ASSUME OutboxAssumption ==
  /\ IsFiniteSet(Rows)
  /\ Txns \subseteq SUBSET Rows
  /\ CreatedAt \in [Rows -> Nat]
  /\ Batch \in Nat \ {0}
  /\ NoRow \notin Rows

VARIABLES
  row,      \* per row: "absent", "pending" (processed = false) or "processed"
  left,     \* per run: the rows of its batch it has still to go through
  current,  \* per run: the row it has handed to the bus and not yet marked
  step      \* per run: "idle", "loop", "save" or "catch"

\* Ghosts: no guard reads them.
VARIABLES
  handed,   \* rows given to EventBus.emit at least once
  elders    \* per row: the rows with an earlier createdAt committed before it

run == <<left, current, step>>
outboxVars == <<row, run, handed, elders>>

Pending == {e \in Rows : row[e] = "pending"}

OutboxInit ==
  /\ row = [e \in Rows |-> "absent"]
  /\ left = [r \in Runs |-> {}]
  /\ current = [r \in Runs |-> NoRow]
  /\ step = [r \in Runs |-> "idle"]
  /\ handed = {}
  /\ elders = [e \in Rows |-> {}]

-----------------------------------------------------------------------------
\* A transaction of order-service commits its rows.  createdAt is the time it
\* began, so a row may become visible after rows that were created later.
Insert(T) ==
  /\ \A e \in T : row[e] = "absent"
  /\ row' = [e \in Rows |-> IF e \in T THEN "pending" ELSE row[e]]
  /\ elders' = [e \in Rows |->
                  IF e \in T
                  THEN {f \in Rows : row[f] # "absent" /\ CreatedAt[f] < CreatedAt[e]}
                  ELSE elders[e]]
  /\ UNCHANGED <<run, handed>>

-----------------------------------------------------------------------------
(* processOutboxEvents *)

\* Mutant: the newest rows are loaded first.
Oldest_Newest(S) ==
  \A e \in S, f \in Pending \ S : CreatedAt[f] <= CreatedAt[e]

Oldest(S) == \A e \in S, f \in Pending \ S : CreatedAt[e] <= CreatedAt[f]

\* The oldest unprocessed rows, Batch of them or all there are.
Find(r) ==
  /\ step[r] = "idle"
  /\ Pending # {}
  /\ \E S \in SUBSET Pending :
       /\ Oldest(S)
       /\ S # {}
       /\ Cardinality(S) <= Batch
       /\ S # Pending => Cardinality(S) = Batch
       /\ left' = [left EXCEPT ![r] = S]
  /\ step' = [step EXCEPT ![r] = "loop"]
  /\ UNCHANGED <<row, current, handed, elders>>

\* The row the loop comes to: rows of one createdAt come in any order.
IsNext(r, e) ==
  /\ step[r] = "loop"
  /\ e \in left[r]
  /\ \A f \in left[r] : CreatedAt[e] <= CreatedAt[f]

\* Mutant: the row is marked when it is published, and published afterwards.
HandOver_Marks(r, e) ==
  /\ IsNext(r, e)
  /\ row' = [row EXCEPT ![e] = "processed"]
  /\ left' = [left EXCEPT ![r] = @ \ {e}]
  /\ current' = [current EXCEPT ![r] = e]
  /\ step' = [step EXCEPT ![r] = "save"]
  /\ UNCHANGED <<handed, elders>>

\* EventBus.emit: it returns at once, and a publish that fails later is logged
\* and never known to the run.
HandOver(r, e) ==
  /\ IsNext(r, e)
  /\ handed' = handed \cup {e}
  /\ left' = [left EXCEPT ![r] = @ \ {e}]
  /\ current' = [current EXCEPT ![r] = e]
  /\ step' = [step EXCEPT ![r] = "save"]
  /\ UNCHANGED <<row, elders>>

\* Mutant: nothing is written.
Mark_Nothing(r) == UNCHANGED row

\* save(event), with processed = true in the loaded entity.
Mark(r) == row' = [row EXCEPT ![current[r]] = "processed"]

Save(r) ==
  /\ step[r] \in {"save", "catch"}
  /\ Mark(r)
  /\ current' = [current EXCEPT ![r] = NoRow]
  /\ step' = [step EXCEPT ![r] = "loop"]
  /\ UNCHANGED <<left, handed, elders>>

\* The save fails; the catch block saves the entity once more, and its
\* processed is still true.
SaveFails(r) ==
  /\ step[r] = "save"
  /\ step' = [step EXCEPT ![r] = "catch"]
  /\ UNCHANGED <<row, left, current, handed, elders>>

End(r) == /\ left' = [left EXCEPT ![r] = {}]
          /\ current' = [current EXCEPT ![r] = NoRow]
          /\ step' = [step EXCEPT ![r] = "idle"]

\* The loop is through.
Finish(r) ==
  /\ step[r] = "loop"
  /\ left[r] = {}
  /\ End(r)
  /\ UNCHANGED <<row, handed, elders>>

\* The save in the catch block fails and the exception leaves the loop, or the
\* process dies.
Abort(r) ==
  /\ step[r] # "idle"
  /\ End(r)
  /\ UNCHANGED <<row, handed, elders>>

-----------------------------------------------------------------------------
Proceed(r) ==
  \/ \E e \in Rows : HandOver(r, e)
  \/ Save(r)
  \/ Finish(r)

OutboxNext ==
  \/ \E T \in Txns : Insert(T)
  \/ \E r \in Runs : Find(r) \/ Proceed(r) \/ SaveFails(r) \/ Abort(r)

OutboxSpec == OutboxInit /\ [][OutboxNext]_outboxVars

\* The scheduler goes on starting the job, and the database and the process
\* do not fail at every attempt.
OutboxFairSpec ==
  OutboxSpec /\ \A r \in Runs : /\ WF_outboxVars(Find(r))
                                /\ SF_outboxVars(\E e \in Rows : HandOver(r, e))
                                /\ SF_outboxVars(Save(r))
                                /\ WF_outboxVars(Finish(r))

-----------------------------------------------------------------------------
(* Properties *)

\* Every variable has its type.  Of the whole module: outbox-processor.service.ts.
OutboxTypeOK ==
  /\ row \in [Rows -> {"absent", "pending", "processed"}]
  /\ left \in [Runs -> SUBSET Rows]
  /\ current \in [Runs -> Rows \cup {NoRow}]
  /\ step \in [Runs -> {"idle", "loop", "save", "catch"}]
  /\ handed \subseteq Rows
  /\ elders \in [Rows -> SUBSET Rows]
  /\ \A r \in Runs : current[r] \in Rows <=> step[r] \in {"save", "catch"}

\* At least once: a row is marked processed only after it was handed to the
\* bus, however runs overlap, saves fail and processes die in between.
HandedBeforeMarked == \A e \in Rows : row[e] = "processed" => e \in handed

\* In order: a row is not handed over before one that was created and
\* committed earlier has been, although several runs go through overlapping
\* batches at their own pace and any of them may stop half way.
FirstHandedInOrder == \A e \in handed : elders[e] \subseteq handed

\* No row waits for ever: each is marked in the end, whatever younger rows are
\* committed meanwhile and although a run loads no more than Batch.
EveryRowMarked == \A e \in Rows : row[e] = "pending" ~> row[e] = "processed"

=============================================================================
