----------------------------- MODULE Notifications -----------------------------
(***************************************************************************)
(* notification-service: the consumers that turn events into notifications *)
(* with delivery rows for the channels the user has on, and the users'     *)
(* preferences.  What becomes of the rows is the subject of Deliveries.    *)
(*                                                                         *)
(* A consumer awaits each query on its own, outside any transaction, and   *)
(* its delivery is acknowledged before it starts.                          *)
(***************************************************************************)
EXTENDS Integers, FiniteSets

CONSTANTS
  Messages,          \* deliverable events: [user, id]
  Ids,               \* values of the messageId property
  NoId,              \* an event published without one
  Users,
  NoOne,
  Copies,            \* how many times each event is delivered
  Overrides,         \* channel lists that internal requests ask for
  Changes,           \* what users switch on and off at a time: [on, off]
  Slots,             \* bound: the notifications that can come to exist
  MaxUpdates,        \* bound on changes of preferences
  Consumers,         \* handler invocations that can be in flight together
  Editors            \* updatePreferences requests that can be in flight together

Toggles == {"EMAIL", "SMS", "PUSH"}
ChannelTypes == Toggles \cup {"IN_APP"}
DefaultChannels == {"EMAIL", "IN_APP"}
DefaultPreferences == {"EMAIL", "PUSH"}
NoPrefs == {"none"}                       \* no preference row
NoChannels == {"unsaved"}                 \* no delivery rows saved yet
NoEvent == [user |-> NoOne, id |-> NoId]  \* of a notification asked for by request

ASSUME NotificationsAssumption ==
  /\ Messages \subseteq [user : Users, id : Ids \cup {NoId}]
  /\ NoId \notin Ids /\ NoOne \notin Users
  /\ Copies \in [Messages -> Nat]
  /\ Overrides \subseteq SUBSET ChannelTypes
  /\ Changes \subseteq [on : SUBSET Toggles, off : SUBSET Toggles]
  /\ \A x \in Changes : x.on \cap x.off = {}
  /\ MaxUpdates \in Nat

VARIABLES
  inbox,       \* deliveries still to come, per message
  processed,   \* processed_messages.message_id
  prefs,       \* per user: the channels switched on, or NoPrefs without a row
  owner,       \* per notification: its user, or NoOne before it is saved
  channels,    \* per notification: the channels it has rows for, or NoChannels
  task,        \* per consumer: the event it handles and how far it is
  edit,        \* per editor: the change asked for and the row it loaded
  updates      \* changes of preferences so far

\* Ghosts: no guard reads them.
VARIABLES
  source,      \* per notification: the event it was created for
  wanted       \* per user: what was last saved for each toggle a change named

intake == <<inbox, processed, owner, channels, source>>
editing == <<edit, updates, wanted>>
vars == <<intake, prefs, task, editing>>

NoTask == [step |-> "none"]
NoEdit == [step |-> "none"]

Init ==
  /\ inbox = Copies
  /\ processed = {}
  /\ prefs = [u \in Users |-> NoPrefs]
  /\ owner = [n \in Slots |-> NoOne]
  /\ channels = [n \in Slots |-> NoChannels]
  /\ task = [w \in Consumers |-> NoTask]
  /\ edit = [e \in Editors |-> NoEdit]
  /\ updates = 0
  /\ source = [n \in Slots |-> NoEvent]
  /\ wanted = [u \in Users |-> [on |-> {}, off |-> {}]]

-----------------------------------------------------------------------------
(* PreferenceService *)

\* Mutant: the insert is an upsert.
CanInsert_Upsert(u) == TRUE

\* getUserPreferences inserts the default row.  The unique index on user_id
\* lets only the first insert succeed.
CanInsert(u) == prefs[u] = NoPrefs
InsertDefault(u) == prefs' = [prefs EXCEPT ![u] = DefaultPreferences]

\* updatePreferences: the row is looked up.
LoadPreferences(e, u, on, off) ==
  /\ edit[e] = NoEdit
  /\ updates < MaxUpdates
  /\ updates' = updates + 1
  /\ edit' = [edit EXCEPT ![e] =
       [step |-> IF prefs[u] = NoPrefs THEN "default" ELSE "save", user |-> u,
        on |-> on, off |-> off, row |-> prefs[u]]]
  /\ UNCHANGED <<intake, prefs, task, wanted>>

\* There was none: one is inserted, or the request fails.
EditDefault(e) ==
  LET u == edit[e].user
  IN /\ edit[e].step = "default"
     /\ IF CanInsert(u)
        THEN /\ InsertDefault(u)
             /\ edit' = [edit EXCEPT ![e].step = "save", ![e].row = DefaultPreferences]
        ELSE /\ edit' = [edit EXCEPT ![e] = NoEdit]
             /\ UNCHANGED prefs
     /\ UNCHANGED <<intake, task, updates, wanted>>

\* The loaded row, changed as asked, is saved over the row of by then.
SavePreferences(e) ==
  LET x == edit[e]
  IN /\ x.step = "save"
     /\ prefs' = [prefs EXCEPT ![x.user] = (x.row \cup x.on) \ x.off]
     /\ wanted' = [wanted EXCEPT ![x.user] = [on |-> (@.on \cup x.on) \ x.off,
                                              off |-> (@.off \cup x.off) \ x.on]]
     /\ edit' = [edit EXCEPT ![e] = NoEdit]
     /\ UNCHANGED <<intake, task, updates>>

-----------------------------------------------------------------------------
(* The event consumers and NotificationsService.createNotification *)

Continue(w, next) == task' = [task EXCEPT ![w].step = next]
Stop(w) == task' = [task EXCEPT ![w] = NoTask]
Start(w, m, u, asked) ==
  task' = [task EXCEPT ![w] = [step |-> "ask", event |-> m, user |-> u, slot |-> 0,
                               left |-> asked, chosen |-> {}]]

\* isAlreadyProcessed: an event without an id is never taken for a duplicate.
AlreadyProcessed(m) == m.id \in processed

\* A delivery of an event is taken, and its id looked up.
Receive(w, m) ==
  /\ task[w] = NoTask
  /\ inbox[m] > 0
  /\ inbox' = [inbox EXCEPT ![m] = @ - 1]
  /\ IF AlreadyProcessed(m) THEN UNCHANGED task ELSE Start(w, m, m.user, DefaultChannels)
  /\ UNCHANGED <<processed, owner, channels, source, prefs, editing>>

\* POST notifications/internal/create: a request that may name its channels.
InternalCreate(w, u, asked) ==
  /\ task[w] = NoTask
  /\ Start(w, NoEvent, u, asked)
  /\ UNCHANGED <<intake, prefs, editing>>

\* isChannelEnabled
Enabled(c, row) == c = "IN_APP" \/ c \in row

\* One more channel is known to be on or off.
Asked(w, c, row) ==
  task' = [task EXCEPT ![w].step = "ask", ![w].left = @ \ {c},
                       ![w].chosen = IF Enabled(c, row) THEN @ \cup {c} ELSE @]

\* Each channel asks for the preferences anew.
AskChannel(w, c) ==
  LET u == task[w].user
  IN /\ task[w].step = "ask"
     /\ c \in task[w].left
     /\ IF prefs[u] = NoPrefs THEN Continue(w, "default") ELSE Asked(w, c, prefs[u])
     /\ UNCHANGED <<intake, prefs, editing>>

\* There was no row: it is inserted, or the event is lost.
AskDefault(w, c) ==
  LET u == task[w].user
  IN /\ task[w].step = "default"
     /\ c \in task[w].left
     /\ IF CanInsert(u)
        THEN InsertDefault(u) /\ Asked(w, c, DefaultPreferences)
        ELSE Stop(w) /\ UNCHANGED prefs
     /\ UNCHANGED <<intake, editing>>

SaveNotification(w, n) ==
  /\ task[w].step = "ask"
  /\ task[w].left = {}
  /\ owner[n] = NoOne
  /\ owner' = [owner EXCEPT ![n] = task[w].user]
  /\ source' = [source EXCEPT ![n] = task[w].event]
  /\ task' = [task EXCEPT ![w].step = "rows", ![w].slot = n]
  /\ UNCHANGED <<inbox, processed, channels, prefs, editing>>

AfterRows(w) == IF task[w].event = NoEvent THEN Stop(w) ELSE Continue(w, "mark")

\* Its delivery rows are saved.
SaveChannels(w) ==
  /\ task[w].step = "rows"
  /\ channels' = [channels EXCEPT ![task[w].slot] = task[w].chosen]
  /\ AfterRows(w)
  /\ UNCHANGED <<inbox, processed, owner, source, prefs, editing>>

\* Mutant: the event is recorded as soon as the notification is saved.
CanMark_Early(w) == task[w].step \in {"rows", "mark"} /\ task[w].event # NoEvent

CanMark(w) == task[w].step = "mark"

\* Mutant: an event without an id is recorded too.
Recordable_Any(m) == {m.id}

Recordable(m) == {m.id} \ {NoId}

\* markAsProcessed: nothing for an event without an id; an id that another
\* consumer inserted makes it throw, which changes nothing more.
MarkAsProcessed(w) ==
  /\ CanMark(w)
  /\ processed' = processed \cup Recordable(task[w].event)
  /\ Stop(w)
  /\ UNCHANGED <<inbox, owner, channels, source, prefs, editing>>

\* The process dies or a query fails.
ConsumerFails(w) ==
  /\ task[w] # NoTask
  /\ Stop(w)
  /\ UNCHANGED <<intake, prefs, editing>>

-----------------------------------------------------------------------------
Consume(w) ==
  \/ \E m \in Messages : Receive(w, m)
  \/ \E u \in Users, asked \in Overrides : InternalCreate(w, u, asked)
  \/ \E c \in ChannelTypes : AskChannel(w, c) \/ AskDefault(w, c)
  \/ \E n \in Slots : SaveNotification(w, n)
  \/ SaveChannels(w)
  \/ MarkAsProcessed(w)
  \/ ConsumerFails(w)

Edit(e) ==
  \/ \E u \in Users, x \in Changes : LoadPreferences(e, u, x.on, x.off)
  \/ EditDefault(e)
  \/ SavePreferences(e)

Next == (\E w \in Consumers : Consume(w)) \/ (\E e \in Editors : Edit(e))

Spec == Init /\ [][Next]_vars

-----------------------------------------------------------------------------
(* Properties *)

Events == Messages \cup {NoEvent}
Tasks ==
  [step : {"ask", "default", "rows", "mark"}, event : Events, user : Users,
   slot : Slots \cup {0}, left : SUBSET ChannelTypes, chosen : SUBSET ChannelTypes]
Edits ==
  [step : {"default", "save"}, user : Users, on : SUBSET Toggles, off : SUBSET Toggles,
   row : {NoPrefs} \cup SUBSET Toggles]

\* Every variable has its type.  Of the whole module: notifications.service.ts,
\* preference.service.ts and the consumers.
TypeOK ==
  /\ inbox \in [Messages -> Nat]
  /\ processed \subseteq Ids
  /\ prefs \in [Users -> {NoPrefs} \cup SUBSET Toggles]
  /\ owner \in [Slots -> Users \cup {NoOne}]
  /\ channels \in [Slots -> {NoChannels} \cup SUBSET ChannelTypes]
  /\ task \in [Consumers -> {NoTask} \cup Tasks]
  /\ \A w \in Consumers : task[w].step \in {"rows", "mark"} => task[w].slot \in Slots
  /\ edit \in [Editors -> {NoEdit} \cup Edits]
  /\ \A e \in Editors : edit[e].step = "save" => edit[e].row # NoPrefs
  /\ updates \in 0..MaxUpdates
  /\ source \in [Slots -> Events]
  /\ wanted \in [Users -> [on : SUBSET Toggles, off : SUBSET Toggles]]

\* An event is recorded only once a notification for it has its rows, the
\* in-app one among them: taking a later delivery for a duplicate never loses
\* an event, wherever the consumer of an earlier one died.
RecordedNotified ==
  \A id \in processed : \E n \in Slots : /\ source[n].id = id
                                         /\ owner[n] = source[n].user
                                         /\ "IN_APP" \in channels[n]

\* No two changes of u's preferences are under way at a time: two tabs that
\* save overwrite each other's columns.
EditsApart(u) ==
  \A e, f \in Editors :
    edit[e] # NoEdit /\ edit[e].user = u /\ edit[f] # NoEdit /\ edit[f].user = u => e = f

\* What a user switched on or off stays so until the user changes it, though
\* the consumers insert default preferences of their own accord and other users
\* change theirs: so for every user whose own changes never overlapped.
Stands(u) == prefs[u] # NoPrefs => /\ wanted[u].on \subseteq prefs[u]
                                   /\ wanted[u].off \cap prefs[u] = {}
PreferencesStand == \A u \in Users : []EditsApart(u) => []Stands(u)

=============================================================================
