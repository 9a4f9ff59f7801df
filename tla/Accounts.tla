------------------------------ MODULE Accounts -------------------------------
(***************************************************************************)
(* The user service's copy of Clerk's accounts.                            *)
(*                                                                         *)
(* Clerk keeps the accounts and announces each change by a webhook, which  *)
(* it repeats until it is answered with 200 and delivers in no fixed       *)
(* order.  The service keeps a row per account, made or changed either by  *)
(* the webhook's handler or, when a request finds no row of its caller,    *)
(* "just in time" from what Clerk says then; and it writes the row's id    *)
(* back to the account's metadata, from where the other services read it.  *)
(* The handlers run side by side, each a few database and Clerk calls, and *)
(* nothing but the two unique columns keeps them apart.                    *)
(***************************************************************************)
EXTENDS Naturals, FiniteSets

CONSTANTS
  Accounts,    \* Clerk's account ids
  EmailsOf,    \* EmailsOf[a]: the addresses account a may have
  RowIds,      \* ids of the rows of "users"
  Workers,     \* handlers running at once
  None,
  MaxEdits,    \* bound: sign-ups, changes of address and closures
  MaxCrashes   \* bound: handlers lost half-way

Emails == UNION { EmailsOf[a] : a \in Accounts }
Row    == [clerkId : Accounts, email : Emails]

ASSUME AccountsAssumption ==
  /\ MaxEdits \in Nat /\ MaxCrashes \in Nat
  /\ None \notin Accounts \cup RowIds
  /\ None \notin Emails
  /\ None \notin Row

VARIABLES
  email,     \* email[a]: Clerk's address of a; None before sign-up and after closure
  closed,    \* the accounts that were closed: an id is never used again
  metadata,  \* metadata[a]: the internalId in the account's public metadata
  events,    \* the webhooks not yet answered with 200
  held,      \* held[a]: the addresses a has had, for the properties
  edits,     \* changes at Clerk so far
  rows,      \* rows[r]: the user row with id r, or None
  worker,    \* worker[w]: what handler w is at
  crashes    \* handlers lost so far

clerk == <<email, closed, metadata, events, held, edits>>
vars  == <<email, closed, metadata, events, held, edits, rows, worker, crashes>>

Live(a) == email[a] # None

(* Where a handler is: the payload it works on (account and address), the    *)
(* event to answer, and the id of the user it holds; the payload is what the *)
(* held user's columns are set to.                                           *)
Idle == [at |-> "idle", id |-> None, email |-> None, event |-> None, user |-> None]

RowsOf(a)        == { r \in RowIds : rows[r] # None /\ rows[r].clerkId = a }
RowsWithEmail(e) == { r \in RowIds : rows[r] # None /\ rows[r].email = e }

-----------------------------------------------------------------------------
(* Clerk.  No two accounts have one address at a time.                       *)

Edit(a, e, event) ==
  /\ edits < MaxEdits
  /\ edits' = edits + 1
  /\ email' = [email EXCEPT ![a] = e]
  /\ held' = [held EXCEPT ![a] = @ \cup ({e} \ {None})]
  /\ events' = events \cup {event}
  /\ UNCHANGED <<rows, worker, crashes>>

Free(e) == \A a \in Accounts : email[a] # e

SignUp(a, e) ==
  /\ ~Live(a) /\ a \notin closed /\ Free(e)
  /\ Edit(a, e, [type |-> "user.created", id |-> a, email |-> e])
  /\ UNCHANGED <<closed, metadata>>

ChangeEmail(a, e) ==
  /\ Live(a) /\ Free(e)
  /\ Edit(a, e, [type |-> "user.updated", id |-> a, email |-> e])
  /\ UNCHANGED <<closed, metadata>>

CloseAccount(a) ==
  /\ Live(a)
  /\ Edit(a, None, [type |-> "user.deleted", id |-> a, email |-> None])
  /\ metadata' = [metadata EXCEPT ![a] = None]
  /\ closed' = closed \cup {a}

-----------------------------------------------------------------------------
(* The handlers.                                                             *)

Goto(w, s) == worker' = [worker EXCEPT ![w] = s]

(* handleClerkWebhook, up to the switch on the event's type.  An unanswered  *)
(* event may be delivered again while it is handled.  (The webhook secret is *)
(* set: without it every event is answered and none is handled.)             *)
Handler(ev) == IF ev.type = "user.deleted" THEN "findClosed" ELSE "find"
Deliver(w, ev) ==
  /\ worker[w] = Idle
  /\ ev \in events
  /\ Goto(w, [Idle EXCEPT !.at = Handler(ev), !.id = ev.id,
                          !.email = ev.email, !.event = ev])
  /\ UNCHANGED <<rows, crashes>> /\ UNCHANGED clerk

(* A request of a caller who has no row makes one.  Of a caller who has one  *)
(* it changes nothing.                                                       *)
JustInTime(w, a) ==
  /\ worker[w] = Idle
  /\ Live(a)
  /\ RowsOf(a) = {}
  /\ Goto(w, [Idle EXCEPT !.at = "getUser", !.id = a])
  /\ UNCHANGED <<rows, crashes>> /\ UNCHANGED clerk

(* The browser asks for the profile when the account's metadata has no id.   *)
RoleSync(w, a) == metadata[a] = None /\ JustInTime(w, a)

(* A guard asks for the caller's roles, whatever the metadata says.          *)
GetUserRoles(w, a) == JustInTime(w, a)

(* An order is placed with a token that knows no id, perhaps an old one.     *)
GetUserId(w, a) == JustInTime(w, a)

(* syncClerkUser asks Clerk; of a closed account it learns nothing.          *)
GetUser(w) ==
  LET s == worker[w]
  IN  /\ s.at = "getUser"
      /\ Goto(w, IF Live(s.id) THEN [s EXCEPT !.at = "find", !.email = email[s.id]] ELSE Idle)
      /\ UNCHANGED <<rows, crashes>> /\ UNCHANGED clerk

(* syncUser: the account's row, with the payload's address on it, ...        *)
FindByClerkId(w) ==
  LET s == worker[w]
  IN  /\ s.at = "find"
      /\ IF RowsOf(s.id) # {}
           THEN \E r \in RowsOf(s.id) :
                  Goto(w, [s EXCEPT !.at = "save", !.user = r])
           ELSE Goto(w, [s EXCEPT !.at = "findEmail"])
      /\ UNCHANGED <<rows, crashes>> /\ UNCHANGED clerk

(* ... or the row with that address, given to the account, ... or a new row  *)
(* with an id of its own: one unused id is as good as another.               *)
NewId == { r \in RowIds : /\ rows[r] = None
                          /\ \A w \in Workers : worker[w].user # r
                          /\ \A a \in Accounts : metadata[a] # r }
FindByEmail(w) ==
  LET s == worker[w]
  IN  /\ s.at = "findEmail"
      /\ \/ \E r \in RowsWithEmail(s.email) : Goto(w, [s EXCEPT !.at = "save", !.user = r])
         \/ /\ RowsWithEmail(s.email) = {} /\ NewId # {}
            /\ Goto(w, [s EXCEPT !.at = "save", !.user = CHOOSE r \in NewId : TRUE])
      /\ UNCHANGED <<rows, crashes>> /\ UNCHANGED clerk

(* save: an update of the row, or its insert if there is no row of that id   *)
(* (any more); a second row of an account or an address is refused, and the  *)
(* handler throws.                                                           *)
Unique_Email(s) ==
  \A r \in RowIds \ {s.user} : rows[r] # None => rows[r].email # s.email
Unique(s) ==
  \A r \in RowIds \ {s.user} :
    rows[r] # None => rows[r].email # s.email /\ rows[r].clerkId # s.id

Save(w) ==
  LET s == worker[w]
  IN  /\ s.at = "save"
      /\ IF Unique(s)
           THEN /\ rows' = [rows EXCEPT ![s.user] = [clerkId |-> s.id, email |-> s.email]]
                /\ Goto(w, [s EXCEPT !.at = "metadata", !.email = None])
           ELSE Goto(w, Idle) /\ UNCHANGED rows
      /\ UNCHANGED crashes /\ UNCHANGED clerk

(* The answer, 200: Clerk forgets the event.                                 *)
Answered(w) == events' = events \ {worker[w].event}

(* syncClerkMetadata: the row's id goes to Clerk.  If that fails, or the     *)
(* account is closed by now, the error is logged and the event answered.     *)
SyncMetadata(w) ==
  LET s == worker[w]
  IN  /\ s.at = "metadata"
      /\ \/ Live(s.id) /\ metadata' = [metadata EXCEPT ![s.id] = s.user]
         \/ UNCHANGED metadata
      /\ Answered(w)
      /\ Goto(w, Idle)
      /\ UNCHANGED <<email, closed, held, edits, rows, crashes>>

(* deleteUserByClerkId: a row that is not there is none to remove.           *)
FindClosed(w) ==
  LET s == worker[w]
  IN  /\ s.at = "findClosed"
      /\ IF RowsOf(s.id) # {}
           THEN /\ \E r \in RowsOf(s.id) : Goto(w, [s EXCEPT !.at = "remove", !.user = r])
                /\ UNCHANGED events
           ELSE Answered(w) /\ Goto(w, Idle)
      /\ UNCHANGED <<email, closed, metadata, held, edits, rows, crashes>>

(* remove, by the id that was found.                                         *)
Remove(w) ==
  LET s == worker[w]
  IN  /\ s.at = "remove"
      /\ rows' = [rows EXCEPT ![s.user] = None]
      /\ Answered(w)
      /\ Goto(w, Idle)
      /\ UNCHANGED <<email, closed, metadata, held, edits, crashes>>

(* The process stops, or a database call fails: the event stays unanswered   *)
(* and comes again.                                                          *)
Crash_Answered(w) ==
  /\ worker[w] # Idle
  /\ crashes < MaxCrashes
  /\ crashes' = crashes + 1
  /\ Answered(w)
  /\ Goto(w, Idle)
  /\ UNCHANGED <<email, closed, metadata, held, edits, rows>>
Crash(w) ==
  /\ worker[w] # Idle
  /\ crashes < MaxCrashes
  /\ crashes' = crashes + 1
  /\ Goto(w, Idle)
  /\ UNCHANGED rows /\ UNCHANGED clerk

-----------------------------------------------------------------------------
Init ==
  /\ email = [a \in Accounts |-> None]
  /\ closed = {}
  /\ metadata = [a \in Accounts |-> None]
  /\ held = [a \in Accounts |-> {}]
  /\ events = {} /\ edits = 0
  /\ rows = [r \in RowIds |-> None]
  /\ worker = [w \in Workers |-> Idle]
  /\ crashes = 0

Step(w) == \/ GetUser(w) \/ FindByClerkId(w) \/ FindByEmail(w) \/ Save(w)
           \/ SyncMetadata(w) \/ FindClosed(w) \/ Remove(w)

Next ==
  \/ \E a \in Accounts : \/ \E e \in EmailsOf[a] : SignUp(a, e) \/ ChangeEmail(a, e)
                         \/ CloseAccount(a)
  \/ \E w \in Workers : \/ \E ev \in events : Deliver(w, ev)
                        \/ \E a \in Accounts :
                             RoleSync(w, a) \/ GetUserRoles(w, a) \/ GetUserId(w, a)
                        \/ Step(w) \/ Crash(w)

Spec == Init /\ [][Next]_vars

(* A handler that runs goes on, and an unanswered event of an account is     *)
(* delivered again and again.                                                *)
Delivered(a) == \E w \in Workers, ev \in events : ev.id = a /\ Deliver(w, ev)
FairSpec ==
  /\ Spec
  /\ \A w \in Workers : WF_vars(Step(w))
  /\ \A a \in Accounts : SF_vars(Delivered(a))

-----------------------------------------------------------------------------
(* An account whose addresses were never another account's.                  *)
Alone(a) == \A b \in Accounts \ {a} : held[a] \cap held[b] = {}

(* Whatever webhooks and requests run side by side, the metadata of a live   *)
(* account names its row, and the only one: orders, notifications and        *)
(* addresses are kept under that id.  (Not so of accounts that share an      *)
(* address over time: the row goes with the address.)                        *)
OneIdentity ==
  \A a \in Accounts :
    Alone(a) /\ Live(a) /\ metadata[a] # None => RowsOf(a) = {metadata[a]}

(* Such an account gets its row in the end, unless it is closed first.       *)
Known ==
  \A a \in Accounts : (Live(a) /\ Alone(a)) ~> (RowsOf(a) # {} \/ ~Live(a) \/ ~Alone(a))
=============================================================================
