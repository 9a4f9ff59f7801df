---------------------------- MODULE AccountsProofs ----------------------------
(***************************************************************************)
(* Why an account that never shared an address has one identity: the id in *)
(* its metadata is its row's, whatever handlers run side by side.          *)
(*                                                                         *)
(* An account "claims" a row id when the row is its row, when a handler    *)
(* that works for it holds the id, or when its metadata names it.  The     *)
(* invariant is that nobody else claims what such an account claims, that  *)
(* no account has two rows, and that a live account's row is still there   *)
(* when a handler is about to report it.                                   *)
(***************************************************************************)
EXTENDS Accounts, TLAPS

-----------------------------------------------------------------------------
(* The inductive invariant *)

States == {"idle", "getUser", "find", "findEmail", "save", "metadata", "findClosed", "remove"}

Events == [type : {"user.created", "user.updated"}, id : Accounts, email : Emails]
            \cup [type : {"user.deleted"}, id : Accounts, email : {None}]

WorkerState == [at : States, id : Accounts \cup {None}, email : Emails \cup {None},
                event : Events \cup {None}, user : RowIds \cup {None}]

AccountsTypeOK ==
  /\ email \in [Accounts -> Emails \cup {None}]
  /\ closed \in SUBSET Accounts
  /\ metadata \in [Accounts -> RowIds \cup {None}]
  /\ events \in SUBSET Events
  /\ held \in [Accounts -> SUBSET Emails]
  /\ rows \in [RowIds -> Row \cup {None}]
  /\ worker \in [Workers -> WorkerState]

\* What a handler at each of its steps knows and holds.
HandlersSound ==
  \A w \in Workers :
    LET s == worker[w]
    IN  /\ s.at # "idle" => s.id \in Accounts
        /\ s.user # None => s.id \in Accounts
        /\ s.at \in {"find", "findEmail", "save"} => s.email \in held[s.id]
        /\ s.at \in {"save", "metadata", "remove"} => s.user \in RowIds

\* A closed account stays closed, and only a closed one is announced and removed as such.
ClosedForGood ==
  /\ \A a \in closed : ~Live(a)
  /\ \A ev \in events : ev.type = "user.deleted" => ev.id \in closed
  /\ \A w \in Workers : worker[w].at \in {"findClosed", "remove"} => worker[w].id \in closed

\* Addresses that Clerk announced, and rows made of them, were their account's.
AddressesHeld ==
  /\ \A a \in Accounts : Live(a) => email[a] \in held[a]
  /\ \A ev \in events : ev.type # "user.deleted" => ev.email \in held[ev.id]
  /\ \A r \in RowIds : rows[r] # None => rows[r].email \in held[rows[r].clerkId]

\* Account a claims row id r.
Claims(a, r) ==
  \/ rows[r] # None /\ rows[r].clerkId = a
  \/ metadata[a] = r
  \/ \E w \in Workers : worker[w].user = r /\ worker[w].id = a

\* What an account that shared no address claims, nobody else claims.
ClaimsApart ==
  \A a \in Accounts : Alone(a) =>
    \A b \in Accounts : \A r \in RowIds : Claims(a, r) /\ Claims(b, r) => a = b

\* No account has two rows.
OneRow ==
  \A q \in RowIds, r \in RowIds :
    rows[q] # None /\ rows[r] # None /\ rows[q].clerkId = rows[r].clerkId => q = r

\* The row a handler is about to report, or did report, is there until the
\* account is closed.
RowsKept ==
  \A a \in Accounts : Alone(a) /\ a \notin closed =>
    /\ metadata[a] # None => metadata[a] \in RowsOf(a)
    /\ \A w \in Workers :
         worker[w].at = "metadata" /\ worker[w].id = a => worker[w].user \in RowsOf(a)

IdentityInv ==
  /\ AccountsTypeOK /\ HandlersSound /\ ClosedForGood /\ AddressesHeld
  /\ ClaimsApart /\ OneRow /\ RowsKept

-----------------------------------------------------------------------------
(* Types *)

\* What a handler's next state may be.
LEMMA WorkerTypes ==
  ASSUME AccountsTypeOK, NEW w \in Workers
  PROVE  /\ worker[w] \in WorkerState
         /\ worker[w].at \in States
         /\ worker[w].id \in Accounts \cup {None}
         /\ worker[w].email \in Emails \cup {None}
         /\ worker[w].event \in Events \cup {None}
         /\ worker[w].user \in RowIds \cup {None}
  BY DEF AccountsTypeOK, WorkerState

LEMMA GotoStep ==
  ASSUME AccountsTypeOK, NEW w \in Workers, NEW s, Goto(w, s)
  PROVE  /\ worker'[w] = s
         /\ \A v \in Workers \ {w} : worker'[v] = worker[v]
         /\ s \in WorkerState => worker' \in [Workers -> WorkerState]
  BY DEF AccountsTypeOK, Goto

LEMMA IdleState ==
  /\ Idle \in WorkerState
  /\ Idle.at = "idle" /\ Idle.id = None /\ Idle.user = None
  BY DEF Idle, WorkerState, States

LEMMA InitType == Init => AccountsTypeOK
  BY IdleState DEF Init, AccountsTypeOK

\* Where a handler goes from each of its steps.
LEMMA HandlerStates ==
  ASSUME AccountsTypeOK, HandlersSound, NEW w \in Workers,
         NEW s, s = worker[w]
  PROVE  /\ \A e \in Emails : [s EXCEPT !.at = "find", !.email = e] \in WorkerState
         /\ \A r \in RowIds : [s EXCEPT !.at = "save", !.user = r] \in WorkerState
         /\ \A r \in RowIds : [s EXCEPT !.at = "remove", !.user = r] \in WorkerState
         /\ [s EXCEPT !.at = "findEmail"] \in WorkerState
         /\ [s EXCEPT !.at = "metadata", !.email = None] \in WorkerState
  BY WorkerTypes DEF WorkerState, States

-----------------------------------------------------------------------------
(* Steps that change neither rows nor Clerk's accounts *)

\* What handler w may go on with at s.
MayGo(w, s) ==
  /\ s \in WorkerState
  /\ s.at # "idle" => s.id \in Accounts
  /\ s.user # None => s.id \in Accounts
  /\ s.at \in {"find", "findEmail", "save"} => s.email \in held[s.id]
  /\ s.at \in {"save", "metadata", "remove"} => s.user \in RowIds
  /\ s.at \in {"findClosed", "remove"} => s.id \in closed
  /\ s.user # None => \A b \in Accounts :
       Claims(b, s.user) /\ (Alone(b) \/ Alone(s.id)) => b = s.id
  /\ s.at # "metadata"

\* Claims that are handed over by nobody stay apart.
LEMMA NoNewClaims ==
  ASSUME ClaimsApart, \A a \in Accounts : Alone(a)' => Alone(a),
         \A a \in Accounts : \A r \in RowIds : Claims(a, r)' => Claims(a, r)
  PROVE  ClaimsApart'
  BY DEF ClaimsApart

LEMMA HandlerMoves ==
  ASSUME IdentityInv, NEW w \in Workers, NEW s, MayGo(w, s), Goto(w, s),
         UNCHANGED <<email, closed, metadata, held, rows>>, events' \subseteq events
  PROVE  IdentityInv'
  <1>1. /\ worker'[w] = s
        /\ \A v \in Workers \ {w} : worker'[v] = worker[v]
        /\ worker' \in [Workers -> WorkerState]
        /\ AccountsTypeOK
    BY GotoStep DEF IdentityInv, MayGo
  <1>2. AccountsTypeOK'
    BY <1>1 DEF AccountsTypeOK
  <1>3. HandlersSound'
    BY <1>1 DEF IdentityInv, HandlersSound, MayGo
  <1>4. ClosedForGood'
    BY <1>1 DEF IdentityInv, ClosedForGood, MayGo, Live
  <1>5. AddressesHeld'
    BY DEF IdentityInv, AddressesHeld, Live
  <1>6. ClaimsApart'
    <2> SUFFICES ASSUME NEW a \in Accounts, Alone(a)', NEW b \in Accounts, NEW r \in RowIds,
                        Claims(a, r)', Claims(b, r)'
                 PROVE  a = b
      BY DEF ClaimsApart
    <2>1. Alone(a)
      BY DEF Alone
    <2>2. ASSUME NEW c \in Accounts, Claims(c, r)'
          PROVE  Claims(c, r) \/ (c = s.id /\ r = s.user)
      BY <1>1, <2>2 DEF Claims
    <2>3. s.user = r => s.user # None
      BY AccountsAssumption
    <2>4. s.user = r =>
            \A c \in Accounts : Claims(c, r) /\ (Alone(c) \/ Alone(s.id)) => c = s.id
      BY <2>3 DEF MayGo
    <2>5. CASE Claims(a, r) /\ Claims(b, r)
      BY <2>1, <2>5 DEF IdentityInv, ClaimsApart
    <2>6. CASE ~(Claims(a, r) /\ Claims(b, r))
      BY <2>1, <2>2, <2>4, <2>6
    <2> QED
      BY <2>5, <2>6
  <1>7. OneRow'
    BY DEF IdentityInv, OneRow
  <1>8. RowsKept'
    <2> SUFFICES ASSUME NEW a \in Accounts, Alone(a)', a \notin closed'
                 PROVE  /\ metadata'[a] # None => metadata'[a] \in RowsOf(a)'
                        /\ \A v \in Workers : worker'[v].at = "metadata" /\ worker'[v].id = a
                             => worker'[v].user \in RowsOf(a)'
      BY DEF RowsKept
    <2>1. Alone(a) /\ a \notin closed /\ RowsOf(a)' = RowsOf(a)
      BY DEF Alone, RowsOf
    <2>2. \A v \in Workers : worker'[v].at = "metadata" => worker'[v] = worker[v]
      BY <1>1 DEF MayGo
    <2> QED
      BY <2>1, <2>2 DEF IdentityInv, RowsKept
  <1> QED
    BY <1>2, <1>3, <1>4, <1>5, <1>6, <1>7, <1>8 DEF IdentityInv

\* A handler may stop anywhere.
LEMMA MayStop ==
  ASSUME NEW w \in Workers PROVE MayGo(w, Idle)
  BY IdleState DEF MayGo

LEMMA DeliverStep ==
  ASSUME IdentityInv, NEW w \in Workers, NEW ev \in events, Deliver(w, ev)
  PROVE  IdentityInv'
  <1> DEFINE s == [Idle EXCEPT !.at = Handler(ev), !.id = ev.id,
                               !.email = ev.email, !.event = ev]
  <1>1. /\ ev \in Events /\ ev.id \in Accounts /\ ev.email \in Emails \cup {None}
        /\ Handler(ev) \in States
    BY DEF IdentityInv, AccountsTypeOK, Events, Handler, States
  <1>2. s \in WorkerState
    BY <1>1, IdleState DEF WorkerState
  <1>3. s.at = Handler(ev) /\ s.id = ev.id /\ s.email = ev.email /\ s.user = None
    BY <1>1 DEF Idle
  <1>4. ev.type # "user.deleted" => ev.email \in held[ev.id]
    BY DEF IdentityInv, AddressesHeld
  <1>5. ev.type = "user.deleted" => ev.id \in closed
    BY DEF IdentityInv, ClosedForGood
  <1>6. Goto(w, s)
    BY DEF Deliver
  <1> HIDE DEF s
  <1>7. MayGo(w, s)
    BY <1>1, <1>2, <1>3, <1>4, <1>5 DEF MayGo, Handler
  <1> QED
    BY <1>6, <1>7, HandlerMoves DEF Deliver, clerk

LEMMA JustInTimeStep ==
  ASSUME IdentityInv, NEW w \in Workers, NEW a \in Accounts, JustInTime(w, a)
  PROVE  IdentityInv'
  <1> DEFINE s == [Idle EXCEPT !.at = "getUser", !.id = a]
  <1>1. s \in WorkerState
    BY IdleState DEF WorkerState, States
  <1>2. s.at = "getUser" /\ s.id = a /\ s.user = None
    BY DEF Idle
  <1>3. Goto(w, s)
    BY DEF JustInTime
  <1> HIDE DEF s
  <1>4. MayGo(w, s)
    BY <1>1, <1>2 DEF MayGo
  <1> QED
    BY <1>3, <1>4, HandlerMoves DEF JustInTime, clerk

\* What the invariant says of a handler that is not idle.
LEMMA Working ==
  ASSUME IdentityInv, NEW w \in Workers, NEW s, s = worker[w], s.at # "idle"
  PROVE  /\ s \in WorkerState /\ s.id \in Accounts
         /\ s.at \in {"find", "findEmail", "save"} => s.email \in held[s.id] /\ s.email \in Emails
         /\ s.at \in {"save", "metadata", "remove"} => s.user \in RowIds
         /\ s.at \in {"findClosed", "remove"} => s.id \in closed
         /\ s.user # None => Claims(s.id, s.user)
  <1>1. s.at \in {"find", "findEmail", "save"} => s.email \in held[s.id] /\ s.email \in Emails
    BY DEF IdentityInv, HandlersSound, AccountsTypeOK
  <1>2. s.user # None => Claims(s.id, s.user)
    BY DEF Claims
  <1> QED
    BY <1>1, <1>2, WorkerTypes DEF IdentityInv, HandlersSound, ClosedForGood

\* Who claims what an account claims already is that account.
LEMMA ClaimedAlready ==
  ASSUME IdentityInv, NEW a \in Accounts, NEW r \in RowIds, Claims(a, r),
         NEW b \in Accounts, Claims(b, r), Alone(b) \/ Alone(a)
  PROVE  b = a
  BY DEF IdentityInv, ClaimsApart

LEMMA GetUserStep ==
  ASSUME IdentityInv, NEW w \in Workers, GetUser(w)
  PROVE  IdentityInv'
  <1> DEFINE s == worker[w]
             t == [s EXCEPT !.at = "find", !.email = email[s.id]]
  <1>1. s.at = "getUser" /\ Goto(w, IF Live(s.id) THEN t ELSE Idle)
    BY DEF GetUser
  <1>2. s \in WorkerState /\ s.id \in Accounts /\ (s.user # None => Claims(s.id, s.user))
    BY <1>1, Working
  <1>3. CASE Live(s.id)
    <2>1. email[s.id] \in held[s.id] /\ email[s.id] \in Emails
      BY SMTT(30), <1>2, <1>3 DEF IdentityInv, AddressesHeld, AccountsTypeOK, Live
    <2>2. t \in WorkerState
      BY <2>1, HandlerStates DEF IdentityInv
    <2>3. t.at = "find" /\ t.id = s.id /\ t.email = email[s.id] /\ t.user = s.user
      BY <1>2 DEF WorkerState
    <2>4. Goto(w, t)
      BY <1>1, <1>3
    <2>5. s.user \in RowIds \cup {None}
      BY <1>2 DEF WorkerState
    <2> HIDE DEF s, t
    <2>6. MayGo(w, t)
      BY <1>2, <2>1, <2>2, <2>3, <2>5, ClaimedAlready DEF MayGo
    <2> QED
      BY <2>4, <2>6, HandlerMoves DEF GetUser, clerk
  <1>4. CASE ~Live(s.id)
    BY <1>1, <1>4, MayStop, HandlerMoves DEF GetUser, clerk
  <1> QED
    BY <1>3, <1>4

LEMMA FindByClerkIdStep ==
  ASSUME IdentityInv, NEW w \in Workers, FindByClerkId(w)
  PROVE  IdentityInv'
  <1> DEFINE s == worker[w]
  <1>1. s.at = "find" /\ UNCHANGED <<rows, crashes>> /\ UNCHANGED clerk
    BY DEF FindByClerkId
  <1>2. /\ s \in WorkerState /\ s.id \in Accounts /\ s.email \in held[s.id]
        /\ (s.user # None => Claims(s.id, s.user)) /\ s.user \in RowIds \cup {None}
    BY <1>1, Working DEF WorkerState
  <1>3. ASSUME NEW r \in RowsOf(s.id), Goto(w, [s EXCEPT !.at = "save", !.user = r])
        PROVE  IdentityInv'
    <2> DEFINE t == [s EXCEPT !.at = "save", !.user = r]
    <2>1. r \in RowIds /\ Claims(s.id, r)
      BY SMTT(30), <1>3 DEF RowsOf, Claims
    <2>2. t \in WorkerState
      BY <2>1, HandlerStates DEF IdentityInv
    <2>3. t.at = "save" /\ t.id = s.id /\ t.email = s.email /\ t.user = r
      BY <1>2 DEF WorkerState
    <2>4. Goto(w, t)
      BY <1>3
    <2> HIDE DEF s, t
    <2>5. MayGo(w, t)
      BY <1>2, <2>1, <2>2, <2>3, ClaimedAlready DEF MayGo
    <2> QED
      BY <1>1, <2>4, <2>5, HandlerMoves DEF clerk
  <1>4. ASSUME Goto(w, [s EXCEPT !.at = "findEmail"])
        PROVE  IdentityInv'
    <2> DEFINE t == [s EXCEPT !.at = "findEmail"]
    <2>2. t \in WorkerState
      BY HandlerStates DEF IdentityInv
    <2>3. t.at = "findEmail" /\ t.id = s.id /\ t.email = s.email /\ t.user = s.user
      BY <1>2 DEF WorkerState
    <2>4. Goto(w, t)
      BY <1>4
    <2> HIDE DEF s, t
    <2>5. MayGo(w, t)
      BY <1>2, <2>2, <2>3, ClaimedAlready DEF MayGo
    <2> QED
      BY SMTT(30), <1>1, <2>4, <2>5, HandlerMoves DEF clerk
  <1> QED
    BY <1>3, <1>4 DEF FindByClerkId

\* A row found by its address belongs to an account that had that address.
LEMMA FindByEmailStep ==
  ASSUME IdentityInv, NEW w \in Workers, FindByEmail(w)
  PROVE  IdentityInv'
  <1> DEFINE s == worker[w]
  <1>1. s.at = "findEmail" /\ UNCHANGED <<rows, crashes>> /\ UNCHANGED clerk
    BY DEF FindByEmail
  <1>2. s \in WorkerState /\ s.id \in Accounts /\ s.email \in held[s.id]
    BY <1>1, Working
  <1>3. PICK r \in RowIds : /\ Goto(w, [s EXCEPT !.at = "save", !.user = r])
                            /\ r \in RowsWithEmail(s.email) \/ r \in NewId
    BY ZenonT(30) DEF FindByEmail, RowsWithEmail, NewId
  <1> DEFINE t == [s EXCEPT !.at = "save", !.user = r]
  <1>4. t \in WorkerState
    BY HandlerStates DEF IdentityInv
  <1>5. t.at = "save" /\ t.id = s.id /\ t.email = s.email /\ t.user = r
    BY <1>2 DEF WorkerState
  <1>6. Goto(w, t)
    BY <1>3
  <1>7. ASSUME NEW b \in Accounts, Claims(b, r), Alone(b) \/ Alone(s.id)
        PROVE  b = s.id
    <2>1. CASE r \in RowsWithEmail(s.email)
      <3> DEFINE c == rows[r].clerkId
      <3>1. c \in Accounts /\ Claims(c, r) /\ s.email \in held[c]
        BY <2>1 DEF RowsWithEmail, Claims, IdentityInv, AddressesHeld, AccountsTypeOK, Row
      <3>2. Alone(b) => c = b
        BY <1>7, <3>1 DEF IdentityInv, ClaimsApart
      <3>3. \A d \in Accounts : Alone(d) /\ (d = c \/ d = s.id) => c = s.id
        BY <1>2, <3>1 DEF Alone
      <3>4. CASE Alone(b)
        BY <3>2, <3>3, <3>4
      <3>5. CASE Alone(s.id)
        <4>1. c = s.id
          BY <1>2, <3>3, <3>5
        <4> QED
          BY <1>2, <1>7, <3>1, <3>5, <4>1, ClaimedAlready
      <3> QED
        BY <1>7, <3>4, <3>5
    <2>2. CASE r \in NewId
      BY <1>7, <2>2 DEF NewId, Claims
    <2> QED
      BY <1>3, <2>1, <2>2
  <1> HIDE DEF s, t
  <1>8. MayGo(w, t)
    BY <1>2, <1>4, <1>5, <1>7 DEF MayGo
  <1> QED
    BY <1>1, <1>6, <1>8, HandlerMoves DEF clerk

LEMMA FindClosedStep ==
  ASSUME IdentityInv, NEW w \in Workers, FindClosed(w)
  PROVE  IdentityInv'
  <1> DEFINE s == worker[w]
  <1>1. /\ s.at = "findClosed" /\ UNCHANGED <<email, closed, metadata, held, rows>>
        /\ events' \subseteq events
    BY DEF FindClosed, Answered
  <1>2. s \in WorkerState /\ s.id \in Accounts /\ s.id \in closed
    BY <1>1, Working
  <1>3. ASSUME NEW r \in RowsOf(s.id), Goto(w, [s EXCEPT !.at = "remove", !.user = r])
        PROVE  IdentityInv'
    <2> DEFINE t == [s EXCEPT !.at = "remove", !.user = r]
    <2>1. r \in RowIds /\ Claims(s.id, r)
      BY SMTT(30), <1>3 DEF RowsOf, Claims
    <2>2. t \in WorkerState
      BY <2>1, HandlerStates DEF IdentityInv
    <2>3. t.at = "remove" /\ t.id = s.id /\ t.user = r
      BY <1>2 DEF WorkerState
    <2>4. Goto(w, t)
      BY <1>3
    <2> HIDE DEF s, t
    <2>5. MayGo(w, t)
      BY <1>2, <2>1, <2>2, <2>3, ClaimedAlready DEF MayGo
    <2> QED
      BY <1>1, <2>4, <2>5, HandlerMoves
  <1>4. ASSUME Goto(w, Idle) PROVE IdentityInv'
    BY <1>1, <1>4, MayStop, HandlerMoves
  <1> QED
    BY <1>3, <1>4 DEF FindClosed

LEMMA CrashStep ==
  ASSUME IdentityInv, NEW w \in Workers, Crash(w)
  PROVE  IdentityInv'
  BY MayStop, HandlerMoves DEF Crash, clerk

-----------------------------------------------------------------------------
(* Steps that change rows or metadata *)

\* The row a handler saves is its account's from now on, and its only one.
LEMMA SaveStep ==
  ASSUME IdentityInv, NEW w \in Workers, Save(w)
  PROVE  IdentityInv'
  <1> DEFINE s == worker[w]
             t == [s EXCEPT !.at = "metadata", !.email = None]
             row == [clerkId |-> s.id, email |-> s.email]
  <1>1. s.at = "save" /\ UNCHANGED crashes /\ UNCHANGED clerk
    BY DEF Save
  <1>2. /\ s \in WorkerState /\ s.id \in Accounts /\ s.email \in held[s.id]
        /\ s.email \in Emails /\ s.user \in RowIds /\ Claims(s.id, s.user)
    <2>1. s.user \in RowIds /\ s.user # None
      BY <1>1, Working, AccountsAssumption
    <2> QED
      BY <1>1, <2>1, Working
  <1>3. ASSUME Goto(w, Idle) /\ UNCHANGED rows PROVE IdentityInv'
    BY <1>1, <1>3, MayStop, HandlerMoves DEF clerk
  <1>4. ASSUME Unique(s), rows' = [rows EXCEPT ![s.user] = row], Goto(w, t)
        PROVE  IdentityInv'
    <2>1. t \in WorkerState /\ t.at = "metadata" /\ t.id = s.id /\ t.user = s.user
      BY <1>2, HandlerStates DEF IdentityInv, WorkerState
    <2>2. row \in Row /\ row # None /\ row.clerkId = s.id /\ row.email = s.email
      BY <1>2, AccountsAssumption DEF Row
    <2>3. Goto(w, t)
      BY <1>4
    <2> HIDE DEF t, row
    <2>4. /\ worker'[w] = t
          /\ \A v \in Workers \ {w} : worker'[v] = worker[v]
          /\ worker' \in [Workers -> WorkerState]
      BY <2>1, <2>3, GotoStep DEF IdentityInv
    <2>5. /\ rows'[s.user] = row
          /\ \A r \in RowIds \ {s.user} : rows'[r] = rows[r]
          /\ rows' \in [RowIds -> Row \cup {None}]
      BY <1>2, <1>4, <2>2 DEF IdentityInv, AccountsTypeOK
    <2>6. UNCHANGED <<email, closed, metadata, events, held>>
      BY <1>1 DEF clerk
    <2>7. AccountsTypeOK'
      BY <2>4, <2>5, <2>6 DEF IdentityInv, AccountsTypeOK
    <2>8. HandlersSound'
      BY <1>2, <2>1, <2>4, <2>6 DEF IdentityInv, HandlersSound
    <2>9. ClosedForGood'
      BY <2>1, <2>4, <2>6 DEF IdentityInv, ClosedForGood, Live
    <2>10. AddressesHeld'
      <3>1. ASSUME NEW r \in RowIds, rows'[r] # None
            PROVE  rows'[r].email \in held[rows'[r].clerkId]
        <4>1. CASE r = s.user
          BY <1>2, <2>2, <2>5, <4>1
        <4>2. CASE r # s.user
          BY <2>5, <3>1, <4>2 DEF IdentityInv, AddressesHeld
        <4> QED
          BY <4>1, <4>2
      <3> QED
        BY <2>6, <3>1 DEF IdentityInv, AddressesHeld, Live
    <2>11. ClaimsApart'
      <3>1. ASSUME NEW c \in Accounts, NEW r \in RowIds, Claims(c, r)'
            PROVE  Claims(c, r)
        <4>1. CASE r = s.user /\ c = s.id
          BY <1>2, <4>1
        <4>2. CASE ~(r = s.user /\ c = s.id)
          BY <2>1, <2>2, <2>4, <2>5, <2>6, <3>1, <4>2 DEF Claims
        <4> QED
          BY <4>1, <4>2
      <3>2. \A a \in Accounts : Alone(a)' => Alone(a)
        BY <2>6 DEF Alone
      <3> QED
        BY <3>1, <3>2, NoNewClaims DEF IdentityInv
    <2>12. OneRow'
      <3>1. \A r \in RowIds \ {s.user} : rows[r] # None => rows[r].clerkId # s.id
        BY <1>4 DEF Unique
      <3> QED
        BY <2>2, <2>5, <3>1 DEF IdentityInv, OneRow
    <2>13. RowsKept'
      <3> SUFFICES ASSUME NEW a \in Accounts, Alone(a)', a \notin closed'
                   PROVE  /\ metadata'[a] # None => metadata'[a] \in RowsOf(a)'
                          /\ \A v \in Workers :
                               worker'[v].at = "metadata" /\ worker'[v].id = a
                                 => worker'[v].user \in RowsOf(a)'
        BY DEF RowsKept
      <3>1. Alone(a) /\ a \notin closed
        BY <2>6 DEF Alone
      <3>2. ASSUME NEW r \in RowsOf(a) PROVE r \in RowsOf(a)'
        <4>1. r \in RowIds /\ rows[r] # None /\ rows[r].clerkId = a /\ Claims(a, r)
          BY <3>2 DEF RowsOf, Claims
        <4>2. r = s.user => s.id = a
          BY <1>2, <3>1, <4>1, ClaimedAlready
        <4> QED
          BY <2>2, <2>5, <4>1, <4>2 DEF RowsOf
      <3>3. a = s.id => s.user \in RowsOf(a)'
        BY <1>2, <2>2, <2>5 DEF RowsOf
      <3> QED
        BY <2>1, <2>4, <2>6, <3>1, <3>2, <3>3 DEF IdentityInv, RowsKept
    <2> QED
      BY <2>7, <2>8, <2>9, <2>10, <2>11, <2>12, <2>13 DEF IdentityInv
  <1> QED
    BY <1>3, <1>4 DEF Save

LEMMA SyncMetadataStep ==
  ASSUME IdentityInv, NEW w \in Workers, SyncMetadata(w)
  PROVE  IdentityInv'
  <1> DEFINE s == worker[w]
  <1>1. /\ s.at = "metadata" /\ Goto(w, Idle) /\ UNCHANGED <<email, closed, held, rows>>
        /\ events' \subseteq events
    BY DEF SyncMetadata, Answered
  <1>2. s.id \in Accounts /\ s.user \in RowIds /\ Claims(s.id, s.user)
    <2>1. s.user \in RowIds /\ s.user # None
      BY <1>1, Working, AccountsAssumption
    <2> QED
      BY <1>1, <2>1, Working
  <1>3. CASE UNCHANGED metadata
    BY <1>1, <1>3, MayStop, HandlerMoves
  <1>4. CASE Live(s.id) /\ metadata' = [metadata EXCEPT ![s.id] = s.user]
    <2>1. /\ worker'[w] = Idle
          /\ \A v \in Workers \ {w} : worker'[v] = worker[v]
          /\ worker' \in [Workers -> WorkerState]
      BY <1>1, IdleState, GotoStep DEF IdentityInv
    <2>2. /\ metadata'[s.id] = s.user
          /\ \A a \in Accounts \ {s.id} : metadata'[a] = metadata[a]
          /\ metadata' \in [Accounts -> RowIds \cup {None}]
      BY <1>2, <1>4 DEF IdentityInv, AccountsTypeOK
    <2>3. AccountsTypeOK'
      BY <1>1, <2>1, <2>2 DEF IdentityInv, AccountsTypeOK
    <2>4. HandlersSound'
      BY <1>1, <2>1, IdleState DEF IdentityInv, HandlersSound
    <2>5. ClosedForGood'
      BY <1>1, <2>1, IdleState DEF IdentityInv, ClosedForGood, Live
    <2>6. AddressesHeld'
      BY <1>1 DEF IdentityInv, AddressesHeld, Live
    <2>7. ClaimsApart'
      <3>1. ASSUME NEW c \in Accounts, NEW r \in RowIds, Claims(c, r)'
            PROVE  Claims(c, r)
        <4>1. CASE r = s.user /\ c = s.id
          BY <1>2, <4>1
        <4>2. CASE ~(r = s.user /\ c = s.id)
          BY <1>1, <2>1, <2>2, <3>1, <4>2, IdleState, AccountsAssumption DEF Claims
        <4> QED
          BY <4>1, <4>2
      <3>2. \A a \in Accounts : Alone(a)' => Alone(a)
        BY <1>1 DEF Alone
      <3> QED
        BY <3>1, <3>2, NoNewClaims DEF IdentityInv
    <2>8. OneRow'
      BY <1>1 DEF IdentityInv, OneRow
    <2>9. RowsKept'
      <3> SUFFICES ASSUME NEW a \in Accounts, Alone(a)', a \notin closed'
                   PROVE  /\ metadata'[a] # None => metadata'[a] \in RowsOf(a)'
                          /\ \A v \in Workers :
                               worker'[v].at = "metadata" /\ worker'[v].id = a
                                 => worker'[v].user \in RowsOf(a)'
        BY DEF RowsKept
      <3>1. Alone(a) /\ a \notin closed /\ RowsOf(a)' = RowsOf(a)
        BY <1>1 DEF Alone, RowsOf
      <3>2. a = s.id => s.user \in RowsOf(a)
        BY <1>1, <3>1 DEF IdentityInv, RowsKept
      <3> QED
        BY <2>1, <2>2, <3>1, <3>2, IdleState DEF IdentityInv, RowsKept
    <2> QED
      BY <2>3, <2>4, <2>5, <2>6, <2>7, <2>8, <2>9 DEF IdentityInv
  <1> QED
    BY <1>3, <1>4 DEF SyncMetadata

\* A handler that removes a row works for a closed account: no live one loses its row.
LEMMA RemoveStep ==
  ASSUME IdentityInv, NEW w \in Workers, Remove(w)
  PROVE  IdentityInv'
  <1> DEFINE s == worker[w]
  <1>1. /\ s.at = "remove" /\ Goto(w, Idle) /\ UNCHANGED <<email, closed, metadata, held>>
        /\ events' \subseteq events /\ rows' = [rows EXCEPT ![s.user] = None]
    BY DEF Remove, Answered
  <1>2. s.id \in closed /\ s.id \in Accounts /\ s.user \in RowIds /\ Claims(s.id, s.user)
    <2>1. s.user \in RowIds /\ s.user # None
      BY <1>1, Working, AccountsAssumption
    <2> QED
      BY <1>1, <2>1, Working
  <1>3. /\ worker'[w] = Idle
        /\ \A v \in Workers \ {w} : worker'[v] = worker[v]
        /\ worker' \in [Workers -> WorkerState]
    BY <1>1, IdleState, GotoStep DEF IdentityInv
  <1>4. /\ rows'[s.user] = None
        /\ \A r \in RowIds \ {s.user} : rows'[r] = rows[r]
        /\ rows' \in [RowIds -> Row \cup {None}]
    BY <1>1, <1>2 DEF IdentityInv, AccountsTypeOK
  <1> HIDE DEF s
  <1>5. AccountsTypeOK'
    BY <1>1, <1>3, <1>4 DEF IdentityInv, AccountsTypeOK
  <1>6. HandlersSound'
    BY <1>1, <1>3, IdleState DEF IdentityInv, HandlersSound
  <1>7. ClosedForGood'
    BY <1>1, <1>3, IdleState DEF IdentityInv, ClosedForGood, Live
  <1>8. AddressesHeld'
    BY <1>1, <1>4 DEF IdentityInv, AddressesHeld, Live
  <1>9. ClaimsApart'
    <2>1. ASSUME NEW c \in Accounts, NEW r \in RowIds, Claims(c, r)'
          PROVE  Claims(c, r)
      BY <1>1, <1>3, <1>4, <2>1, IdleState, AccountsAssumption DEF Claims
    <2>2. \A a \in Accounts : Alone(a)' => Alone(a)
      BY <1>1 DEF Alone
    <2> QED
      BY <2>1, <2>2, NoNewClaims DEF IdentityInv
  <1>10. OneRow'
    BY <1>4 DEF IdentityInv, OneRow
  <1>11. RowsKept'
    <2> SUFFICES ASSUME NEW a \in Accounts, Alone(a)', a \notin closed'
                 PROVE  /\ metadata'[a] # None => metadata'[a] \in RowsOf(a)'
                        /\ \A v \in Workers :
                             worker'[v].at = "metadata" /\ worker'[v].id = a
                               => worker'[v].user \in RowsOf(a)'
      BY DEF RowsKept
    <2>1. Alone(a) /\ a \notin closed
      BY <1>1 DEF Alone
    <2>2. ASSUME NEW r \in RowsOf(a) PROVE r \in RowsOf(a)'
      <3>1. r \in RowIds /\ rows[r] # None /\ rows[r].clerkId = a /\ Claims(a, r)
        BY <2>2 DEF RowsOf, Claims
      <3>2. r # s.user
        <4>1. r = s.user => s.id = a
          BY <1>2, <2>1, <3>1, ClaimedAlready
        <4>2. s.id # a
          BY <1>2, <2>1
        <4> QED
          BY <4>1, <4>2
      <3> QED
        BY <1>4, <3>1, <3>2 DEF RowsOf
    <2> QED
      BY <1>1, <1>3, <2>1, <2>2, IdleState DEF IdentityInv, RowsKept
  <1> QED
    BY <1>5, <1>6, <1>7, <1>8, <1>9, <1>10, <1>11 DEF IdentityInv

-----------------------------------------------------------------------------
(* Steps of Clerk *)

\* An account's new address is added to those it had; a closure adds none.
LEMMA EditStep ==
  ASSUME IdentityInv, NEW a \in Accounts, NEW e \in Emails \cup {None}, NEW ev \in Events,
         ev.id = a, ev.email = e, Edit(a, e, ev),
         metadata' = metadata \/ metadata' = [metadata EXCEPT ![a] = None],
         \/ closed' = closed /\ e # None /\ ev.type # "user.deleted" /\ a \notin closed
         \/ closed' = closed \cup {a} /\ e = None /\ ev.type = "user.deleted"
  PROVE  IdentityInv'
  <1>1. /\ email' = [email EXCEPT ![a] = e]
        /\ held' = [held EXCEPT ![a] = @ \cup ({e} \ {None})]
        /\ events' = events \cup {ev}
        /\ UNCHANGED <<rows, worker, crashes>>
    BY DEF Edit
  <1>2. AccountsTypeOK'
    <2>1. email' \in [Accounts -> Emails \cup {None}] /\ closed' \in SUBSET Accounts
      BY <1>1 DEF IdentityInv, AccountsTypeOK
    <2>2. metadata' \in [Accounts -> RowIds \cup {None}]
      BY DEF IdentityInv, AccountsTypeOK
    <2>3. held' \in [Accounts -> SUBSET Emails] /\ events' \in SUBSET Events
      BY <1>1 DEF IdentityInv, AccountsTypeOK
    <2> QED
      BY <1>1, <2>1, <2>2, <2>3 DEF IdentityInv, AccountsTypeOK
  <1>3. /\ \A b \in Accounts : held[b] \subseteq held'[b]
        /\ e # None => e \in held'[a]
        /\ email'[a] = e /\ \A b \in Accounts \ {a} : email'[b] = email[b]
        /\ \A b \in Accounts : b \in closed => b \in closed'
        /\ \A b \in Accounts : metadata'[b] # None => metadata'[b] = metadata[b]
    BY <1>1 DEF IdentityInv, AccountsTypeOK
  <1>4. HandlersSound'
    BY <1>1, <1>3 DEF IdentityInv, HandlersSound
  <1>5. ClosedForGood'
    <2>1. \A b \in closed' : ~Live(b)'
      BY <1>3 DEF IdentityInv, ClosedForGood, Live, AccountsTypeOK
    <2>2. \A d \in events' : d.type = "user.deleted" => d.id \in closed'
      BY <1>1, <1>3 DEF IdentityInv, ClosedForGood
    <2>3. \A w \in Workers : worker'[w].at \in {"findClosed", "remove"} => worker'[w].id \in closed'
      BY <1>1, <1>3 DEF IdentityInv, ClosedForGood
    <2> QED
      BY <2>1, <2>2, <2>3 DEF ClosedForGood
  <1>6. AddressesHeld'
    <2>1. \A b \in Accounts : Live(b)' => email'[b] \in held'[b]
      BY <1>3 DEF IdentityInv, AddressesHeld, Live
    <2>2. \A d \in events' : d.type # "user.deleted" => d.email \in held'[d.id]
      <3>1. \A d \in events : d.id \in Accounts
        BY DEF IdentityInv, AccountsTypeOK, Events
      <3> QED
        BY <1>1, <1>3, <3>1 DEF IdentityInv, AddressesHeld
    <2>3. \A r \in RowIds : rows'[r] # None => rows'[r].email \in held'[rows'[r].clerkId]
      <3>1. \A r \in RowIds : rows[r] # None => rows[r].clerkId \in Accounts
        BY DEF IdentityInv, AccountsTypeOK, Row
      <3> QED
        BY <1>1, <1>3, <3>1 DEF IdentityInv, AddressesHeld
    <2> QED
      BY <2>1, <2>2, <2>3 DEF AddressesHeld
  <1>7. \A b \in Accounts : Alone(b)' => Alone(b)
    BY <1>3 DEF Alone
  <1>8. ClaimsApart'
    <2>1. \A b \in Accounts : \A r \in RowIds : Claims(b, r)' => Claims(b, r)
      BY <1>1, <1>3, AccountsAssumption DEF Claims
    <2> QED
      BY <1>7, <2>1, NoNewClaims DEF IdentityInv
  <1>9. OneRow'
    BY <1>1 DEF IdentityInv, OneRow
  <1>10. RowsKept'
    <2>1. \A b \in Accounts : RowsOf(b)' = RowsOf(b)
      BY <1>1 DEF RowsOf
    <2> QED
      BY <1>1, <1>3, <1>7, <2>1 DEF IdentityInv, RowsKept
  <1> QED
    BY <1>2, <1>4, <1>5, <1>6, <1>8, <1>9, <1>10 DEF IdentityInv

LEMMA SignUpStep ==
  ASSUME IdentityInv, NEW a \in Accounts, NEW e \in EmailsOf[a],
         SignUp(a, e) \/ ChangeEmail(a, e)
  PROVE  IdentityInv'
  <1>1. e \in Emails /\ e # None
    BY AccountsAssumption DEF Emails
  <1>2. a \notin closed /\ closed' = closed /\ metadata' = metadata
    BY DEF SignUp, ChangeEmail, IdentityInv, ClosedForGood
  <1>3. PICK ty \in {"user.created", "user.updated"} :
          Edit(a, e, [type |-> ty, id |-> a, email |-> e])
    BY DEF SignUp, ChangeEmail
  <1> DEFINE ev == [type |-> ty, id |-> a, email |-> e]
  <1>4. /\ ev \in Events /\ ev.id = a /\ ev.email = e /\ ev.type # "user.deleted"
        /\ Edit(a, e, ev)
    BY <1>1, <1>3 DEF Events
  <1> HIDE DEF ev
  <1> QED
    BY <1>1, <1>2, <1>4, EditStep

LEMMA CloseAccountStep ==
  ASSUME IdentityInv, NEW a \in Accounts, CloseAccount(a)
  PROVE  IdentityInv'
  <1> DEFINE ev == [type |-> "user.deleted", id |-> a, email |-> None]
  <1>1. /\ ev \in Events /\ ev.id = a /\ ev.email = None /\ ev.type = "user.deleted"
        /\ Edit(a, None, ev)
    BY DEF CloseAccount, Events
  <1>2. closed' = closed \cup {a} /\ metadata' = [metadata EXCEPT ![a] = None]
    BY DEF CloseAccount
  <1> HIDE DEF ev
  <1> QED
    BY <1>1, <1>2, EditStep

-----------------------------------------------------------------------------
(* The theorems *)

LEMMA InitIdentity == Init => IdentityInv
  <1> SUFFICES ASSUME Init PROVE IdentityInv
    OBVIOUS
  <1>1. AccountsTypeOK
    BY InitType
  <1>2. /\ \A w \in Workers : worker[w] = Idle
        /\ \A r \in RowIds : rows[r] = None
        /\ \A a \in Accounts : metadata[a] = None /\ email[a] = None
        /\ events = {} /\ closed = {}
    BY DEF Init
  <1>3. HandlersSound /\ ClosedForGood /\ AddressesHeld /\ OneRow /\ RowsKept
    BY <1>2, IdleState
       DEF HandlersSound, ClosedForGood, AddressesHeld, OneRow, RowsKept, Live
  <1>4. ClaimsApart
    BY <1>2, IdleState, AccountsAssumption DEF ClaimsApart, Claims
  <1> QED
    BY <1>1, <1>3, <1>4 DEF IdentityInv

LEMMA NextIdentity ==
  ASSUME IdentityInv, [Next]_vars
  PROVE  IdentityInv'
  <1>1. ASSUME NEW a \in Accounts,
               (\E e \in EmailsOf[a] : SignUp(a, e) \/ ChangeEmail(a, e)) \/ CloseAccount(a)
        PROVE  IdentityInv'
    BY <1>1, SignUpStep, CloseAccountStep
  <1>2. ASSUME NEW w \in Workers, \E ev \in events : Deliver(w, ev)
        PROVE  IdentityInv'
    BY <1>2, DeliverStep
  <1>3. ASSUME NEW w \in Workers, NEW a \in Accounts,
               RoleSync(w, a) \/ GetUserRoles(w, a) \/ GetUserId(w, a)
        PROVE  IdentityInv'
    BY <1>3, JustInTimeStep DEF RoleSync, GetUserRoles, GetUserId
  <1>4. ASSUME NEW w \in Workers, Step(w) \/ Crash(w)
        PROVE  IdentityInv'
    BY <1>4, GetUserStep, FindByClerkIdStep, FindByEmailStep, SaveStep, SyncMetadataStep,
       FindClosedStep, RemoveStep, CrashStep DEF Step
  <1>5. CASE UNCHANGED vars
    <2>1. AccountsTypeOK' /\ HandlersSound'
      BY <1>5 DEF IdentityInv, vars, AccountsTypeOK, HandlersSound
    <2>2. ClosedForGood' /\ AddressesHeld'
      BY <1>5 DEF IdentityInv, vars, ClosedForGood, AddressesHeld, Live
    <2>3. ClaimsApart' /\ OneRow'
      BY <1>5 DEF IdentityInv, vars, ClaimsApart, Claims, Alone, OneRow
    <2>4. RowsKept'
      BY <1>5 DEF IdentityInv, vars, RowsKept, RowsOf, Alone
    <2> QED
      BY <2>1, <2>2, <2>3, <2>4 DEF IdentityInv
  <1> QED
    BY <1>1, <1>2, <1>3, <1>4, <1>5 DEF Next

\* The metadata of a live account that shared no address names its row, and
\* the only one: one row, because a second is refused; that row, because only
\* its account's handlers hold its id; and still there, because a row is
\* removed only for an account that was closed.
LEMMA IdentityFollows == IdentityInv => OneIdentity
  <1> SUFFICES ASSUME IdentityInv, NEW a \in Accounts, Alone(a), Live(a), metadata[a] # None
               PROVE  RowsOf(a) = {metadata[a]}
    BY DEF OneIdentity
  <1>1. metadata[a] \in RowsOf(a)
    BY DEF IdentityInv, RowsKept, ClosedForGood
  <1>2. ASSUME NEW r \in RowsOf(a) PROVE r = metadata[a]
    BY <1>1 DEF RowsOf, IdentityInv, OneRow
  <1> QED
    BY <1>1, <1>2

\* Every state has the types above, and one identity per account, in every
\* interleaving of webhooks, requests and crashes (synchronisation with Clerk).
THEOREM AccountsTypeCorrect == Spec => []AccountsTypeOK
  <1>1. IdentityInv => AccountsTypeOK
    BY DEF IdentityInv
  <1> QED
    BY <1>1, InitIdentity, NextIdentity, PTL DEF Spec

THEOREM AccountsOneIdentity == Spec => []OneIdentity
  BY InitIdentity, NextIdentity, IdentityFollows, PTL DEF Spec
=============================================================================
