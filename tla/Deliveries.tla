------------------------------- MODULE Deliveries -------------------------------
(***************************************************************************)
(* notification-service: the delivery rows of the notifications, one for   *)
(* each channel of each.  A polling worker in each process delivers the    *)
(* pending rows, another puts failed ones back, and the user reads a       *)
(* notification meanwhile.                                                 *)
(*                                                                         *)
(* Nothing here runs in a transaction, and save() of a loaded row writes   *)
(* every column in which the loaded copy differs from the row by then: a   *)
(* stale copy overwrites what others wrote.                                *)
(***************************************************************************)
EXTENDS Integers, FiniteSets

CONSTANTS
  Notes,             \* notifications
  Recipients,
  Owner,             \* per notification: its user
  Rows,              \* delivery rows that can come to exist
  Of,                \* per row: its notification
  InApp,             \* the rows of the in-app channel
  MaxRetries,        \* max_retries of a row (3)
  Batch,             \* rows a worker loads at most (20)
  Instances,         \* processes of the service
  Runs,              \* runs of the delivery worker that can be under way
  Host,              \* per run: its process
  Steady,            \* processes whose schedulers go on for ever
  Readers,           \* markAsRead requests that can be in flight together
  MaxReads           \* bound on markAsRead requests

Statuses == {"PENDING", "PROCESSING", "SENT", "FAILED", "EXHAUSTED"}

ASSUME DeliveriesAssumption ==
  /\ Owner \in [Notes -> Recipients] /\ Of \in [Rows -> Notes] /\ InApp \subseteq Rows
  /\ IsFiniteSet(Rows)
  /\ MaxRetries \in Nat /\ MaxReads \in Nat
  /\ Batch \in Nat \ {0}
  /\ Host \in [Runs -> Instances] /\ Steady \subseteq Instances

VARIABLES
  row,         \* per row: status and retry_count, or Absent
  isRead,      \* notifications.is_read
  phase,       \* per run: "idle", "running", or "left" when it stopped waiting
  job,         \* per run: the rows it delivers, with the step and retry_count of each
  sweep,       \* per process: the rows its retry worker loaded and has still to see
  reading,     \* per reader: the notification it loaded, with its rows
  reads        \* markAsRead requests so far

\* Ghosts: no guard reads them.
VARIABLES
  delivered,   \* rows the handler delivered
  failures     \* per row: deliveries that ended in an error, counted to MaxRetries + 1

delivery == <<phase, job, delivered, failures>>
userVars == <<isRead, reading, reads>>
deliveriesVars == <<row, delivery, sweep, userVars>>

Absent == [status |-> "absent", retries |-> 0]
NoRead == [note |-> "none"]
Exists(c) == row[c] # Absent
Put(c, status, retries) == row' = [row EXCEPT ![c] = [status |-> status, retries |-> retries]]
RowsOf(n) == {c \in Rows : Of[c] = n /\ Exists(c)}

DeliveriesInit ==
  /\ row = [c \in Rows |-> Absent]
  /\ isRead = [n \in Notes |-> FALSE]
  /\ phase = [r \in Runs |-> "idle"]
  /\ job = [r \in Runs |-> <<>>]
  /\ sweep = [i \in Instances |-> <<>>]
  /\ reading = [q \in Readers |-> NoRead]
  /\ reads = 0
  /\ delivered = {}
  /\ failures = [c \in Rows |-> 0]

\* createNotification saves the rows of a notification.
Create(n, S) ==
  /\ RowsOf(n) = {} /\ S \subseteq {c \in Rows : Of[c] = n}
  /\ row' = [c \in Rows |-> IF c \in S THEN [status |-> "PENDING", retries |-> 0] ELSE row[c]]
  /\ UNCHANGED <<delivery, sweep, userVars>>

-----------------------------------------------------------------------------
(* DeliveryWorkerService *)

With(status) == {c \in Rows : row[c].status = status}

\* What find() with take: Batch may load: there is no order.
Loaded(S) == {T \in SUBSET S : Cardinality(T) = IF Cardinality(S) < Batch
                                                THEN Cardinality(S) ELSE Batch}

\* isProcessing of the worker in process i.
Processing(i) == \E r \in Runs : Host[r] = i /\ phase[r] = "running"

StartRun(r) ==
  /\ phase[r] = "idle"
  /\ ~Processing(Host[r])
  /\ With("PENDING") # {}
  /\ \E T \in Loaded(With("PENDING")) :
       job' = [job EXCEPT ![r] = [c \in T |-> [step |-> "claim", retries |-> row[c].retries]]]
  /\ phase' = [phase EXCEPT ![r] = "running"]
  /\ UNCHANGED <<row, delivered, failures, sweep, userVars>>

At(r, c, step) == c \in DOMAIN job[r] /\ job[r][c].step = step
Go(r, c, next) == job' = [job EXCEPT ![r][c].step = next] /\ UNCHANGED phase

\* The row's part of the run is over; the run is when all parts are.
Settle(r, c, waiting) ==
  /\ job' = [job EXCEPT ![r] = [d \in DOMAIN @ \ {c} |-> @[d]]]
  /\ phase' = [phase EXCEPT ![r] = IF DOMAIN job[r] = {c} THEN "idle" ELSE waiting]

\* PROCESSING is saved, from the loaded copy.
Claim(r, c) ==
  /\ At(r, c, "claim")
  /\ Put(c, "PROCESSING", job[r][c].retries)
  /\ Go(r, c, "send")
  /\ UNCHANGED <<delivered, failures, sweep, userVars>>

Send(r, c) ==
  /\ At(r, c, "send")
  /\ delivered' = delivered \cup {c}
  /\ Go(r, c, "sent")
  /\ UNCHANGED <<row, failures, sweep, userVars>>

Catch(r, c) ==
  /\ failures' = [failures EXCEPT ![c] = IF @ > MaxRetries THEN @ ELSE @ + 1]
  /\ Go(r, c, "fail")
  /\ UNCHANGED <<row, delivered, sweep, userVars>>

\* Mutant: the handler logs the error and does not throw it again.
SendFails_Swallowed(r, c) ==
  /\ At(r, c, "send") /\ c \notin InApp
  /\ Go(r, c, "sent")
  /\ UNCHANGED <<row, delivered, failures, sweep, userVars>>

\* Rendering or sending throws; the in-app handler does neither.
SendFails(r, c) == At(r, c, "send") /\ c \notin InApp /\ Catch(r, c)

\* Saving PROCESSING or SENT throws.
SaveFails(r, c) == (At(r, c, "claim") \/ At(r, c, "sent")) /\ Catch(r, c)

SaveSent(r, c) ==
  /\ At(r, c, "sent")
  /\ Put(c, "SENT", job[r][c].retries)
  /\ Settle(r, c, phase[r])
  /\ UNCHANGED <<delivered, failures, sweep, userVars>>

SaveFailed(r, c) ==
  /\ At(r, c, "fail")
  /\ Put(c, "FAILED", job[r][c].retries)
  /\ Settle(r, c, phase[r])
  /\ UNCHANGED <<delivered, failures, sweep, userVars>>

\* The save in the catch block throws: Promise.all rejects, the run ends and
\* isProcessing goes, while the other rows' parts run on.
FailedNotSaved(r, c) ==
  /\ At(r, c, "fail")
  /\ Settle(r, c, "left")
  /\ UNCHANGED <<row, delivered, failures, sweep, userVars>>

-----------------------------------------------------------------------------
(* RetryWorkerService *)

StartSweep(i) ==
  /\ DOMAIN sweep[i] = {}
  /\ With("FAILED") # {}
  /\ \E T \in Loaded(With("FAILED")) :
       sweep' = [sweep EXCEPT ![i] = [c \in T |-> row[c].retries]]
  /\ UNCHANGED <<row, delivery, userVars>>

Swept(i, c) ==
  /\ sweep' = [sweep EXCEPT ![i] = [d \in DOMAIN @ \ {c} |-> @[d]]]
  /\ UNCHANGED <<delivery, userVars>>

\* Mutant: one retry too few.
RetriesLeft_OneLess(retries) == retries + 1 < MaxRetries

\* Mutant: one retry too many.
RetriesLeft_OneMore(retries) == retries <= MaxRetries

RetriesLeft(retries) == retries < MaxRetries

\* Mutant: the retry is not counted.
Retry_Uncounted(i, c) ==
  /\ c \in DOMAIN sweep[i]
  /\ RetriesLeft(sweep[i][c])
  /\ Put(c, "PENDING", sweep[i][c])
  /\ Swept(i, c)

\* The back-off since the row's last update is over.
Retry(i, c) ==
  /\ c \in DOMAIN sweep[i]
  /\ RetriesLeft(sweep[i][c])
  /\ Put(c, "PENDING", sweep[i][c] + 1)
  /\ Swept(i, c)

\* It is not over.
NotDue(i, c) ==
  /\ c \in DOMAIN sweep[i]
  /\ RetriesLeft(sweep[i][c])
  /\ Swept(i, c)
  /\ UNCHANGED row

Exhaust(i, c) ==
  /\ c \in DOMAIN sweep[i]
  /\ ~RetriesLeft(sweep[i][c])
  /\ Put(c, "EXHAUSTED", sweep[i][c])
  /\ Swept(i, c)

\* A save throws and leaves the loop.
SweepFails(i) ==
  /\ DOMAIN sweep[i] # {}
  /\ sweep' = [sweep EXCEPT ![i] = <<>>]
  /\ UNCHANGED <<row, delivery, userVars>>

\* The process dies with its runs and its sweep.
Crash(i) ==
  /\ \/ DOMAIN sweep[i] # {}
     \/ \E r \in Runs : Host[r] = i /\ phase[r] # "idle"
  /\ sweep' = [sweep EXCEPT ![i] = <<>>]
  /\ job' = [r \in Runs |-> IF Host[r] = i THEN <<>> ELSE job[r]]
  /\ phase' = [r \in Runs |-> IF Host[r] = i THEN "idle" ELSE phase[r]]
  /\ UNCHANGED <<row, delivered, failures, userVars>>

-----------------------------------------------------------------------------
(* markAsRead and markAllAsRead *)

\* The notification is loaded with its delivery rows.
LoadToRead(q, n) ==
  /\ reading[q] = NoRead
  /\ reads < MaxReads
  /\ reads' = reads + 1
  /\ reading' = [reading EXCEPT ![q] = [note |-> n, rows |-> [c \in RowsOf(n) |-> row[c]]]]
  /\ UNCHANGED <<row, delivery, sweep, isRead>>

\* save(notification) cascades to the loaded delivery rows.  When rows were
\* added since, it would cut them loose, which the NOT NULL column refuses.
SaveRead(q) ==
  LET n == reading[q].note
  IN /\ reading[q] # NoRead
     /\ IF DOMAIN reading[q].rows = RowsOf(n)
        THEN /\ row' = [c \in Rows |-> IF c \in RowsOf(n) THEN reading[q].rows[c] ELSE row[c]]
             /\ isRead' = [isRead EXCEPT ![n] = TRUE]
        ELSE UNCHANGED <<row, isRead>>
     /\ reading' = [reading EXCEPT ![q] = NoRead]
     /\ UNCHANGED <<delivery, sweep, reads>>

MarkAllAsRead(u) ==
  /\ isRead' = [n \in Notes |-> isRead[n] \/ Owner[n] = u]
  /\ UNCHANGED <<row, delivery, sweep, reading, reads>>

-----------------------------------------------------------------------------
Deliver(r, c) ==
  \/ Claim(r, c) \/ Send(r, c) \/ SendFails(r, c) \/ SaveFails(r, c)
  \/ SaveSent(r, c) \/ SaveFailed(r, c) \/ FailedNotSaved(r, c)

SweepRow(i, c) == Retry(i, c) \/ NotDue(i, c) \/ Exhaust(i, c)

DeliveriesNext ==
  \/ \E n \in Notes, S \in SUBSET Rows : Create(n, S)
  \/ \E r \in Runs : StartRun(r) \/ \E c \in Rows : Deliver(r, c)
  \/ \E i \in Instances : \/ StartSweep(i) \/ SweepFails(i) \/ Crash(i)
                          \/ \E c \in Rows : SweepRow(i, c)
  \/ \E q \in Readers : SaveRead(q) \/ \E n \in Notes : LoadToRead(q, n)
  \/ \E u \in Recipients : MarkAllAsRead(u)

DeliveriesSpec == DeliveriesInit /\ [][DeliveriesNext]_deliveriesVars

\* In the steady processes the scheduler goes on starting both workers; a
\* back-off passes; and what is begun again and again, a part of a run or a
\* retry, is done some time.
Progress(r, c) ==
  Claim(r, c) \/ Send(r, c) \/ SendFails(r, c) \/ SaveSent(r, c) \/ SaveFailed(r, c)

SteadyRuns == {r \in Runs : Host[r] \in Steady}

DeliveriesFairSpec ==
  /\ DeliveriesSpec
  /\ \A r \in SteadyRuns : /\ SF_deliveriesVars(StartRun(r))
                            /\ \A c \in Rows : SF_deliveriesVars(Progress(r, c))
  /\ \A i \in Steady : /\ SF_deliveriesVars(StartSweep(i))
                       /\ \A c \in Rows : SF_deliveriesVars(Retry(i, c) \/ Exhaust(i, c))

-----------------------------------------------------------------------------
(* Properties *)

Contents == [status : Statuses, retries : 0..MaxRetries] \cup {Absent}

\* Every variable has its type.  Of the whole module: notification-channel.entity.ts,
\* the two workers and markAsRead.
DeliveriesTypeOK ==
  /\ row \in [Rows -> Contents]
  /\ isRead \in [Notes -> BOOLEAN]
  /\ phase \in [Runs -> {"idle", "running", "left"}]
  /\ \A r \in Runs : /\ DOMAIN job[r] \subseteq Rows
                     /\ phase[r] = "idle" <=> DOMAIN job[r] = {}
                     /\ \A c \in DOMAIN job[r] :
                          job[r][c] \in [step : {"claim", "send", "sent", "fail"},
                                         retries : 0..MaxRetries]
  /\ \A i \in Instances : /\ DOMAIN sweep[i] \subseteq Rows
                          /\ \A c \in DOMAIN sweep[i] : sweep[i][c] \in 0..MaxRetries
  /\ \A q \in Readers : \/ reading[q] = NoRead
                        \/ /\ reading[q].note \in Notes
                           /\ DOMAIN reading[q].rows \subseteq Rows
                           /\ \A c \in DOMAIN reading[q].rows : reading[q].rows[c] \in Contents
  /\ reads \in 0..MaxReads
  /\ delivered \subseteq Rows
  /\ failures \in [Rows -> 0..(MaxRetries + 1)]

\* No delivery is given up before it failed once and again for each of its
\* retries, whichever stale copy of its row the workers of several processes
\* and the user's markAsRead write over each other.
NotGivenUpEarly ==
  \A c \in Rows : row[c].status = "EXHAUSTED" => failures[c] > MaxRetries

\* A row that says SENT was handed to its channel, whatever failed, was written
\* over or was picked up twice on the way.
SentWasDelivered == \A c \in Rows : row[c].status = "SENT" => c \in delivered

\* A row that is PROCESSING for no steady process: if its process died, or the
\* saves of its outcome failed, no worker ever takes it up.
Stuck(c) == row[c].status = "PROCESSING" /\ \A r \in SteadyRuns : c \notin DOMAIN job[r]

\* With one steady process among those that crash and overwrite its rows,
\* every delivery row ends SENT or EXHAUSTED, except those a crash or a failed
\* save leaves PROCESSING; none waits for ever, PENDING or FAILED.
DeliveriesSettle ==
  \A c \in Rows : row[c].status \in {"PENDING", "FAILED"}
                    ~> row[c].status \in {"SENT", "EXHAUSTED"} \/ Stuck(c)

=============================================================================
