-------------------------- MODULE NotificationProofs --------------------------
(***************************************************************************)
(* Theorems of Notifications, for any users, events, requests and numbers  *)
(* of consumers and editors, and of Deliveries, for any notifications,     *)
(* rows, processes, runs and numbers of retries.                           *)
(***************************************************************************)
EXTENDS Notifications, Deliveries, FiniteSetTheorems, TLAPS

-----------------------------------------------------------------------------
(* Notifications *)

-----------------------------------------------------------------------------
(* Types *)

LEMMA InitTypeOK == Init => TypeOK
  BY NotificationsAssumption DEF Init, TypeOK, NoTask, NoEdit, NoEvent, Events

LEMMA TaskType ==
  ASSUME TypeOK, NEW w \in Consumers, task[w] # NoTask
  PROVE  task[w] \in Tasks
  BY DEF TypeOK

LEMMA NoneIsNoStep ==
  ASSUME NEW t, t.step # "none"
  PROVE  t # NoTask /\ t # NoEdit
  BY DEF NoTask, NoEdit

\* A consumer's task becomes x, and nothing else of the types changes.
LEMMA TaskBecomes ==
  ASSUME TypeOK, NEW w \in Consumers, NEW x, task' = [task EXCEPT ![w] = x],
         x \in {NoTask} \cup Tasks,
         x.step \in {"rows", "mark"} => x.slot \in Slots
  PROVE  /\ task' \in [Consumers -> {NoTask} \cup Tasks]
         /\ \A v \in Consumers : task'[v].step \in {"rows", "mark"} => task'[v].slot \in Slots
  BY DEF TypeOK

\* The tasks that the consumers' steps make.
NewTask(m, u, asked) ==
  [step |-> "ask", event |-> m, user |-> u, slot |-> 0, left |-> asked, chosen |-> {}]

LEMMA NewTaskType ==
  ASSUME NEW m \in Events, NEW u \in Users, NEW asked \in SUBSET ChannelTypes
  PROVE  NewTask(m, u, asked) \in Tasks
  BY DEF NewTask, Tasks

AskedTask(t, c, pref) ==
  [t EXCEPT !.step = "ask", !.left = @ \ {c},
            !.chosen = IF Enabled(c, pref) THEN @ \cup {c} ELSE @]

LEMMA AskedIs ==
  ASSUME TypeOK, NEW w \in Consumers, NEW c, NEW pref, Asked(w, c, pref)
  PROVE  task' = [task EXCEPT ![w] = AskedTask(task[w], c, pref)]
  BY DEF TypeOK, Asked, AskedTask

LEMMA DefaultTypes ==
  /\ DefaultChannels \in SUBSET ChannelTypes
  /\ DefaultPreferences \in SUBSET Toggles
  /\ DefaultPreferences # NoPrefs
  /\ NoPrefs \notin SUBSET Toggles
  /\ "IN_APP" \in DefaultChannels
  BY DEF DefaultChannels, ChannelTypes, DefaultPreferences, Toggles, NoPrefs

-----------------------------------------------------------------------------
(* What each consumer has seen to *)

TaskOK(t, O, S, C) ==
  t # NoTask =>
    /\ t.event # NoEvent => t.event \in Messages /\ t.user = t.event.user
    /\ t.event # NoEvent => "IN_APP" \in t.left \cup t.chosen
    /\ t.step \in {"rows", "mark"} => /\ S[t.slot] = t.event
                                      /\ O[t.slot] = t.user
                                      /\ t.left = {}
    /\ t.step = "mark" => t.event # NoEvent /\ "IN_APP" \in C[t.slot]

TasksOK == \A w \in Consumers : TaskOK(task[w], owner, source, channels)

IInv == TypeOK /\ TasksOK /\ RecordedNotified

LEMMA InitIInv == Init => IInv
  <1>1. Init => TasksOK /\ RecordedNotified
    BY DEF Init, TasksOK, TaskOK, RecordedNotified
  <1> QED BY <1>1, InitTypeOK DEF IInv

\* A consumer goes on, the notifications stay as they are.
LEMMA GoesOn ==
  ASSUME IInv, NEW w \in Consumers, NEW x, task' = [task EXCEPT ![w] = x],
         x \in {NoTask} \cup Tasks,
         x.step \in {"rows", "mark"} => x.slot \in Slots,
         TaskOK(x, owner, source, channels),
         UNCHANGED <<processed, owner, channels, source, editing>>,
         inbox' \in [Messages -> Nat],
         prefs' \in [Users -> {NoPrefs} \cup SUBSET Toggles]
  PROVE  IInv'
  <1>1. TypeOK'
    BY TaskBecomes DEF IInv, TypeOK, editing
  <1>2. TasksOK'
    BY DEF IInv, TasksOK, TypeOK
  <1>3. RecordedNotified'
    BY DEF IInv, RecordedNotified
  <1> QED BY <1>1, <1>2, <1>3 DEF IInv

LEMMA NoTaskOK ==
  /\ NoTask \in {NoTask} \cup Tasks
  /\ NoTask.step \notin {"rows", "mark"}
  /\ TaskOK(NoTask, owner, source, channels)
  BY DEF NoTask, TaskOK

LEMMA ReceiveStep ==
  ASSUME IInv, NEW w \in Consumers, NEW m \in Messages, Receive(w, m)
  PROVE  IInv'
  <1>1. inbox' \in [Messages -> Nat] /\ prefs' \in [Users -> {NoPrefs} \cup SUBSET Toggles]
    BY DEF IInv, TypeOK, Receive
  <1>2. CASE AlreadyProcessed(m)
    <2>1. task' = [task EXCEPT ![w] = NoTask]
      BY <1>2 DEF Receive, IInv, TypeOK
    <2> QED BY <1>1, <2>1, NoTaskOK, GoesOn DEF Receive
  <1>3. CASE ~AlreadyProcessed(m)
    <2>1. m \in Events /\ m.user \in Users
      BY NotificationsAssumption DEF Events
    <2> DEFINE x == NewTask(m, m.user, DefaultChannels)
    <2>2. x \in Tasks /\ task' = [task EXCEPT ![w] = x]
      BY <1>3, <2>1, NewTaskType, DefaultTypes DEF Receive, Start, NewTask
    <2>3. x.step = "ask" /\ TaskOK(x, owner, source, channels)
      BY DefaultTypes DEF TaskOK, NewTask
    <2> HIDE DEF x
    <2> QED BY <1>1, <2>2, <2>3, GoesOn DEF Receive
  <1> QED BY <1>2, <1>3

LEMMA InternalCreateStep ==
  ASSUME IInv, NEW w \in Consumers, NEW u \in Users, NEW asked \in Overrides,
         InternalCreate(w, u, asked)
  PROVE  IInv'
  <1> DEFINE x == NewTask(NoEvent, u, asked)
  <1>1. x \in Tasks /\ task' = [task EXCEPT ![w] = x]
    BY NewTaskType, NotificationsAssumption DEF InternalCreate, Start, NewTask, Events
  <1>2. x.step = "ask" /\ TaskOK(x, owner, source, channels)
    BY DEF TaskOK, NewTask
  <1> HIDE DEF x
  <1> QED BY <1>1, <1>2, GoesOn DEF InternalCreate, intake, IInv, TypeOK

\* One more channel is asked about: the in-app channel is always on.
LEMMA AskedGoesOn ==
  ASSUME IInv, NEW w \in Consumers, NEW c \in ChannelTypes, NEW pref,
         task[w].step \in {"ask", "default"}, Asked(w, c, pref),
         UNCHANGED <<intake, editing>>,
         prefs' \in [Users -> {NoPrefs} \cup SUBSET Toggles]
  PROVE  IInv'
  <1>1. task[w] # NoTask /\ task[w] \in Tasks /\ TaskOK(task[w], owner, source, channels)
    BY NoneIsNoStep, TaskType DEF IInv, TasksOK
  <1> DEFINE x == AskedTask(task[w], c, pref)
  <1>2. /\ x \in Tasks /\ x.step = "ask" /\ x.left = task[w].left \ {c}
        /\ x.chosen = IF Enabled(c, pref) THEN task[w].chosen \cup {c} ELSE task[w].chosen
        /\ x.event = task[w].event /\ x.user = task[w].user
    BY <1>1 DEF AskedTask, Tasks
  <1>3. task' = [task EXCEPT ![w] = x]
    BY AskedIs DEF IInv
  <1> HIDE DEF x
  <1>4. TaskOK(x, owner, source, channels)
    BY <1>1, <1>2 DEF TaskOK, Enabled
  <1> QED BY <1>2, <1>3, <1>4, GoesOn DEF intake, IInv, TypeOK

LEMMA AskStep ==
  ASSUME IInv, NEW w \in Consumers, NEW c \in ChannelTypes,
         AskChannel(w, c) \/ AskDefault(w, c)
  PROVE  IInv'
  <1>1. task[w].step \in {"ask", "default"} /\ UNCHANGED <<intake, editing>>
    BY DEF AskChannel, AskDefault
  <1>2. task[w] # NoTask /\ task[w] \in Tasks /\ TaskOK(task[w], owner, source, channels)
    BY <1>1, NoneIsNoStep, TaskType DEF IInv, TasksOK
  <1>3. prefs' \in [Users -> {NoPrefs} \cup SUBSET Toggles]
    BY DefaultTypes DEF AskChannel, AskDefault, InsertDefault, IInv, TypeOK
  <1>4. ASSUME NEW pref, Asked(w, c, pref)
        PROVE  IInv'
    BY <1>1, <1>3, <1>4, AskedGoesOn
  <1>5. CASE Continue(w, "default")
    <2> DEFINE x == [task[w] EXCEPT !.step = "default"]
    <2>1. x \in Tasks /\ x.step = "default" /\ task' = [task EXCEPT ![w] = x]
      BY <1>2, <1>5 DEF Continue, Tasks, IInv, TypeOK
    <2>2. TaskOK(x, owner, source, channels)
      BY <1>1, <1>2 DEF TaskOK, Tasks
    <2> HIDE DEF x
    <2> QED BY <1>1, <1>3, <2>1, <2>2, GoesOn DEF intake, IInv, TypeOK
  <1>6. CASE Stop(w)
    BY <1>1, <1>3, <1>6, NoTaskOK, GoesOn DEF Stop, intake, IInv, TypeOK
  <1> QED BY <1>4, <1>5, <1>6 DEF AskChannel, AskDefault

LEMMA ConsumerFailsStep ==
  ASSUME IInv, NEW w \in Consumers, ConsumerFails(w)
  PROVE  IInv'
  BY NoTaskOK, GoesOn DEF ConsumerFails, Stop, intake, IInv, TypeOK

-----------------------------------------------------------------------------
(* The notification, its rows and the mark *)

\* An event with an id is no other consumer's request, and has a user.
LEMMA EventUser ==
  ASSUME NEW s \in Events, s.id \in Ids
  PROVE  s \in Messages /\ s.user \in Users /\ s.user # NoOne
  BY NotificationsAssumption DEF Events, NoEvent

LEMMA SaveNotificationStep ==
  ASSUME IInv, NEW w \in Consumers, NEW n \in Slots, SaveNotification(w, n)
  PROVE  IInv'
  <1>1. task[w] # NoTask /\ task[w] \in Tasks /\ TaskOK(task[w], owner, source, channels)
    BY NoneIsNoStep, TaskType DEF IInv, TasksOK, SaveNotification
  <1> DEFINE x == [task[w] EXCEPT !.step = "rows", !.slot = n]
  <1>2. /\ x \in Tasks /\ x.step = "rows" /\ x.slot = n /\ x.left = {}
        /\ x.event = task[w].event /\ x.user = task[w].user /\ x.chosen = task[w].chosen
        /\ task' = [task EXCEPT ![w] = x]
    BY <1>1 DEF Tasks, SaveNotification, IInv, TypeOK
  <1> HIDE DEF x
  <1>3. /\ owner' = [owner EXCEPT ![n] = x.user] /\ source' = [source EXCEPT ![n] = x.event]
        /\ owner[n] = NoOne /\ task[w].left = {}
        /\ UNCHANGED <<inbox, processed, channels, prefs, editing>>
    BY <1>2 DEF SaveNotification
  <1>4. x.user \in Users /\ x.event \in Events
    BY <1>2 DEF Tasks
  <1>5. TypeOK'
    <2>1. owner' \in [Slots -> Users \cup {NoOne}] /\ source' \in [Slots -> Events]
      BY <1>3, <1>4 DEF IInv, TypeOK
    <2> QED BY <1>2, <1>3, <2>1, TaskBecomes DEF IInv, TypeOK, editing
  <1>6. TasksOK'
    <2>1. TaskOK(x, owner', source', channels')
      BY <1>1, <1>2, <1>3 DEF TaskOK, IInv, TypeOK
    <2>2. ASSUME NEW v \in Consumers, v # w, task[v] # NoTask
          PROVE  TaskOK(task[v], owner', source', channels')
      <3>1. TaskOK(task[v], owner, source, channels) /\ task[v] \in Tasks
        BY <2>2, TaskType DEF IInv, TasksOK
      <3>2. task[v].step \in {"rows", "mark"} => task[v].slot # n
        BY <1>3, <2>2, <3>1, NotificationsAssumption DEF TaskOK, Tasks
      <3> QED BY <1>3, <3>1, <3>2 DEF TaskOK, IInv, TypeOK
    <2>3. \A v \in Consumers : task'[v] = IF v = w THEN x ELSE task[v]
      BY <1>2 DEF IInv, TypeOK
    <2>4. TaskOK(NoTask, owner', source', channels')
      BY DEF TaskOK
    <2> QED BY <2>1, <2>2, <2>3, <2>4 DEF TasksOK
  <1>7. RecordedNotified'
    <2> SUFFICES ASSUME NEW id \in processed
                 PROVE  \E k \in Slots : /\ source'[k].id = id
                                         /\ owner'[k] = source'[k].user
                                         /\ "IN_APP" \in channels'[k]
      BY <1>3 DEF RecordedNotified
    <2>1. PICK k \in Slots : /\ source[k].id = id /\ owner[k] = source[k].user
                             /\ "IN_APP" \in channels[k]
      BY DEF IInv, RecordedNotified
    <2>2. k # n
      <3>1. source[k] \in Events /\ source[k].id \in Ids
        BY <2>1 DEF IInv, TypeOK
      <3> QED BY <1>3, <2>1, <3>1, EventUser
    <2> QED BY <1>3, <2>1, <2>2 DEF IInv, TypeOK
  <1> QED BY <1>5, <1>6, <1>7 DEF IInv

LEMMA SaveChannelsStep ==
  ASSUME IInv, NEW w \in Consumers, SaveChannels(w)
  PROVE  IInv'
  <1>1. task[w] # NoTask /\ task[w] \in Tasks /\ TaskOK(task[w], owner, source, channels)
    BY NoneIsNoStep, TaskType DEF IInv, TasksOK, SaveChannels
  <1> DEFINE n == task[w].slot
             x == IF task[w].event = NoEvent THEN NoTask ELSE [task[w] EXCEPT !.step = "mark"]
  <1>2. /\ n \in Slots /\ source[n] = task[w].event /\ owner[n] = task[w].user
        /\ task[w].left = {} /\ task[w].step = "rows"
        /\ task[w].event # NoEvent => "IN_APP" \in task[w].chosen
        /\ channels' = [channels EXCEPT ![n] = task[w].chosen]
        /\ UNCHANGED <<inbox, processed, owner, source, prefs, editing>>
    BY <1>1 DEF SaveChannels, IInv, TypeOK, TaskOK
  <1>3. /\ task' = [task EXCEPT ![w] = x]
        /\ x \in {NoTask} \cup Tasks
        /\ x.step \in {"rows", "mark"} => x.slot \in Slots
    <2>1. CASE task[w].event = NoEvent
      BY <2>1, NoTaskOK DEF SaveChannels, AfterRows, Stop
    <2>2. CASE task[w].event # NoEvent
      BY <1>1, <1>2, <2>2 DEF SaveChannels, AfterRows, Continue, Tasks, IInv, TypeOK
    <2> QED BY <2>1, <2>2
  <1>4. TypeOK'
    <2>1. channels' \in [Slots -> {NoChannels} \cup SUBSET ChannelTypes]
      BY <1>1, <1>2 DEF IInv, TypeOK, Tasks
    <2> HIDE DEF x
    <2> QED BY <1>2, <1>3, <2>1, TaskBecomes DEF IInv, TypeOK, editing
  <1>5. TasksOK'
    <2>1. TaskOK(x, owner', source', channels')
      <3>1. CASE task[w].event = NoEvent
        BY <3>1 DEF TaskOK
      <3>2. CASE task[w].event # NoEvent
        <4>1. /\ x.event = task[w].event /\ x.user = task[w].user /\ x.left = {}
              /\ x.chosen = task[w].chosen /\ x.slot = n /\ x.step = "mark"
          BY <1>1, <1>2, <3>2 DEF Tasks
        <4>2. "IN_APP" \in channels'[n]
          BY <1>2, <3>2 DEF IInv, TypeOK
        <4> HIDE DEF x, n
        <4> QED BY <1>1, <1>2, <3>2, <4>1, <4>2 DEF TaskOK
      <3> QED BY <3>1, <3>2
    <2>2. ASSUME NEW v \in Consumers, v # w, task[v] # NoTask
          PROVE  TaskOK(task[v], owner', source', channels')
      <3>1. TaskOK(task[v], owner, source, channels) /\ task[v] \in Tasks
        BY <2>2, TaskType DEF IInv, TasksOK
      <3>2. task[v].step = "mark" => task[v].slot \in Slots
        BY DEF IInv, TypeOK
      <3>3. task[v].step = "mark" => "IN_APP" \in channels'[task[v].slot]
        BY <1>2, <2>2, <3>1, <3>2 DEF TaskOK, IInv, TypeOK
      <3> QED BY <1>2, <3>1, <3>3 DEF TaskOK
    <2>3. \A v \in Consumers : task'[v] = IF v = w THEN x ELSE task[v]
      BY <1>3 DEF IInv, TypeOK
    <2>4. TaskOK(NoTask, owner', source', channels')
      BY DEF TaskOK
    <2> HIDE DEF x
    <2> QED BY <2>1, <2>2, <2>3, <2>4 DEF TasksOK
  <1>6. RecordedNotified'
    <2> SUFFICES ASSUME NEW id \in processed
                 PROVE  \E k \in Slots : /\ source[k].id = id
                                         /\ owner[k] = source[k].user
                                         /\ "IN_APP" \in channels'[k]
      BY <1>2 DEF RecordedNotified
    <2>1. PICK k \in Slots : /\ source[k].id = id /\ owner[k] = source[k].user
                             /\ "IN_APP" \in channels[k]
      BY DEF IInv, RecordedNotified
    <2>2. id # NoId
      BY NotificationsAssumption DEF IInv, TypeOK
    <2>3. k = n => task[w].event # NoEvent
      BY <1>2, <2>1, <2>2 DEF NoEvent
    <2>4. "IN_APP" \in channels'[k]
      BY <1>2, <2>1, <2>3 DEF IInv, TypeOK
    <2> QED BY <2>1, <2>4
  <1> QED BY <1>4, <1>5, <1>6 DEF IInv

LEMMA MarkStep ==
  ASSUME IInv, NEW w \in Consumers, MarkAsProcessed(w)
  PROVE  IInv'
  <1>1. task[w].step = "mark"
    BY DEF MarkAsProcessed, CanMark
  <1>2. task[w] # NoTask /\ task[w] \in Tasks /\ TaskOK(task[w], owner, source, channels)
    BY <1>1, NoneIsNoStep, TaskType DEF IInv, TasksOK
  <1>3. /\ task' = [task EXCEPT ![w] = NoTask]
        /\ processed' = processed \cup Recordable(task[w].event)
        /\ UNCHANGED <<inbox, owner, channels, source, prefs, editing>>
    BY DEF MarkAsProcessed, Stop
  <1> DEFINE m == task[w].event
             n == task[w].slot
  <1>4. /\ m \in Messages /\ m.id \in Ids \cup {NoId} /\ n \in Slots
        /\ source[n] = m /\ owner[n] = m.user /\ "IN_APP" \in channels[n]
    BY <1>1, <1>2, NotificationsAssumption DEF TaskOK, IInv, TypeOK
  <1>5. TypeOK'
    <2>1. processed' \subseteq Ids
      BY <1>3, <1>4 DEF Recordable, IInv, TypeOK
    <2> QED BY <1>3, <2>1, NoTaskOK, TaskBecomes DEF IInv, TypeOK, editing
  <1>6. TasksOK'
    BY <1>3, NoTaskOK DEF IInv, TasksOK, TypeOK
  <1>7. RecordedNotified'
    BY <1>3, <1>4 DEF Recordable, IInv, RecordedNotified
  <1> QED BY <1>5, <1>6, <1>7 DEF IInv

-----------------------------------------------------------------------------
(* The editors *)

\* An editor changes no notification.
LEMMA EditOnly ==
  ASSUME IInv, UNCHANGED <<intake, task>>,
         prefs' \in [Users -> {NoPrefs} \cup SUBSET Toggles],
         edit' \in [Editors -> {NoEdit} \cup Edits],
         \A e \in Editors : edit'[e].step = "save" => edit'[e].row # NoPrefs,
         updates' \in 0..MaxUpdates,
         wanted' \in [Users -> [on : SUBSET Toggles, off : SUBSET Toggles]]
  PROVE  IInv'
  <1>1. TypeOK'
    BY DEF IInv, TypeOK, intake
  <1>2. TasksOK' /\ RecordedNotified'
    BY DEF IInv, TasksOK, RecordedNotified, intake
  <1> QED BY <1>1, <1>2 DEF IInv

LEMMA EditType ==
  ASSUME IInv, NEW e \in Editors, edit[e].step # "none"
  PROVE  edit[e] \in Edits
  BY NoneIsNoStep DEF IInv, TypeOK

LEMMA ChangeType ==
  \A x \in Changes : x.on \in SUBSET Toggles /\ x.off \in SUBSET Toggles
  BY NotificationsAssumption

LEMMA LoadPreferencesStep ==
  ASSUME IInv, NEW e \in Editors, NEW u \in Users, NEW on \in SUBSET Toggles,
         NEW off \in SUBSET Toggles, LoadPreferences(e, u, on, off)
  PROVE  IInv'
  <1> DEFINE x == [step |-> IF prefs[u] = NoPrefs THEN "default" ELSE "save", user |-> u,
                   on |-> on, off |-> off, row |-> prefs[u]]
  <1>1. x \in Edits /\ (x.step = "save" => x.row # NoPrefs)
    BY DEF Edits, IInv, TypeOK
  <1>2. edit' = [edit EXCEPT ![e] = x]
    BY DEF LoadPreferences
  <1> HIDE DEF x
  <1>3. /\ edit' \in [Editors -> {NoEdit} \cup Edits]
        /\ \A f \in Editors : edit'[f].step = "save" => edit'[f].row # NoPrefs
    BY <1>1, <1>2 DEF IInv, TypeOK
  <1>4. updates' \in 0..MaxUpdates
    BY NotificationsAssumption DEF LoadPreferences, IInv, TypeOK
  <1> QED BY <1>3, <1>4, EditOnly DEF LoadPreferences, IInv, TypeOK

LEMMA EditDefaultStep ==
  ASSUME IInv, NEW e \in Editors, EditDefault(e)
  PROVE  IInv'
  <1>1. edit[e].step = "default" /\ edit[e] \in Edits
    BY EditType DEF EditDefault
  <1>2. prefs' \in [Users -> {NoPrefs} \cup SUBSET Toggles]
    BY DefaultTypes DEF EditDefault, InsertDefault, IInv, TypeOK
  <1>3. /\ edit' \in [Editors -> {NoEdit} \cup Edits]
        /\ \A f \in Editors : edit'[f].step = "save" => edit'[f].row # NoPrefs
    <2>1. CASE edit' = [edit EXCEPT ![e] = NoEdit]
      BY <2>1 DEF IInv, TypeOK, NoEdit
    <2>2. CASE edit' = [edit EXCEPT ![e].step = "save", ![e].row = DefaultPreferences]
      <3> DEFINE x == [edit[e] EXCEPT !.step = "save", !.row = DefaultPreferences]
      <3>1. x \in Edits /\ x.row # NoPrefs
        BY <1>1, DefaultTypes DEF Edits
      <3>2. edit' = [edit EXCEPT ![e] = x]
        BY <2>2 DEF IInv, TypeOK
      <3> HIDE DEF x
      <3> QED BY <3>1, <3>2 DEF IInv, TypeOK
    <2> QED BY <2>1, <2>2 DEF EditDefault
  <1> QED BY <1>2, <1>3, EditOnly DEF EditDefault, IInv, TypeOK

\* What saving an edit makes of the row and of what the user wants.
LEMMA SavedEdit ==
  ASSUME IInv, NEW e \in Editors, SavePreferences(e)
  PROVE  /\ edit[e].step = "save" /\ edit[e].user \in Users
         /\ edit[e].row \in SUBSET Toggles
         /\ edit[e].on \in SUBSET Toggles /\ edit[e].off \in SUBSET Toggles
         /\ prefs' = [prefs EXCEPT ![edit[e].user] =
                        (edit[e].row \cup edit[e].on) \ edit[e].off]
         /\ edit' = [edit EXCEPT ![e] = NoEdit]
  <1>1. edit[e].step = "save" /\ edit[e] \in Edits
    BY EditType DEF SavePreferences
  <1>2. edit[e].row # NoPrefs
    BY <1>1 DEF IInv, TypeOK
  <1> QED BY <1>1, <1>2 DEF Edits, SavePreferences

LEMMA SavePreferencesStep ==
  ASSUME IInv, NEW e \in Editors, SavePreferences(e)
  PROVE  IInv'
  <1>1. prefs' \in [Users -> {NoPrefs} \cup SUBSET Toggles]
    BY SavedEdit DEF IInv, TypeOK
  <1>2. /\ edit' \in [Editors -> {NoEdit} \cup Edits]
        /\ \A f \in Editors : edit'[f].step = "save" => edit'[f].row # NoPrefs
    <2>1. edit' = [edit EXCEPT ![e] = NoEdit]
      BY SavedEdit
    <2> QED BY <2>1 DEF IInv, TypeOK, NoEdit
  <1>3. wanted' \in [Users -> [on : SUBSET Toggles, off : SUBSET Toggles]]
    BY SavedEdit DEF SavePreferences, IInv, TypeOK
  <1> QED BY <1>1, <1>2, <1>3, EditOnly DEF SavePreferences, IInv, TypeOK

LEMMA NextIInv ==
  ASSUME IInv, [Next]_vars
  PROVE  IInv'
  <1>1. ASSUME NEW w \in Consumers, Consume(w)
        PROVE  IInv'
    BY <1>1, ReceiveStep, InternalCreateStep, AskStep, SaveNotificationStep,
       SaveChannelsStep, MarkStep, ConsumerFailsStep DEF Consume
  <1>2. ASSUME NEW e \in Editors, Edit(e)
        PROVE  IInv'
    BY <1>2, ChangeType, LoadPreferencesStep, EditDefaultStep, SavePreferencesStep DEF Edit
  <1>3. CASE UNCHANGED vars
    <2>1. UNCHANGED <<inbox, processed, owner, channels, source, prefs, task, edit, updates, wanted>>
      BY <1>3 DEF vars, intake, editing
    <2> QED BY <2>1, EditOnly DEF intake, IInv, TypeOK
  <1> QED BY <1>1, <1>2, <1>3 DEF Next

-----------------------------------------------------------------------------
(* Preferences, of a user whose own changes do not overlap *)

Standing(u) ==
  IF prefs[u] = NoPrefs THEN wanted[u] = [on |-> {}, off |-> {}]
  ELSE wanted[u].on \subseteq prefs[u] /\ wanted[u].off \cap prefs[u] = {}

\* The row an editor loaded is still the user's: nobody else saves one.
EditFresh(u) ==
  \A e \in Editors : edit[e].step = "save" /\ edit[e].user = u => prefs[u] = edit[e].row

\* Default preferences are inserted only where there are none.
LEMMA InsertStands ==
  ASSUME IInv, NEW u \in Users, Standing(u), EditFresh(u),
         NEW v \in Users, CanInsert(v), InsertDefault(v), wanted' = wanted
  PROVE  Standing(u)' /\ \A e \in Editors :
                            edit[e].step = "save" /\ edit[e].user = u => prefs'[u] = edit[e].row
  <1>1. prefs'[u] = IF u = v THEN DefaultPreferences ELSE prefs[u]
    BY DEF InsertDefault, IInv, TypeOK
  <1>2. u = v => prefs[u] = NoPrefs
    BY DEF CanInsert
  <1>3. Standing(u)'
    BY <1>1, <1>2 DEF Standing
  <1>4. ASSUME NEW e \in Editors, edit[e].step = "save", edit[e].user = u
        PROVE  prefs'[u] = edit[e].row
    <2>1. prefs[u] = edit[e].row /\ edit[e].row # NoPrefs
      BY <1>4, EditType DEF EditFresh, IInv, TypeOK, Edits
    <2> QED BY <2>1, <1>1, <1>2
  <1> QED BY <1>3, <1>4

LEMMA ConsumeStands ==
  ASSUME IInv, NEW u \in Users, Standing(u), EditFresh(u), NEW w \in Consumers, Consume(w)
  PROVE  Standing(u)' /\ EditFresh(u)'
  <1>1. edit' = edit /\ wanted' = wanted
    BY DEF Consume, Receive, InternalCreate, AskChannel, AskDefault, SaveNotification,
           SaveChannels, MarkAsProcessed, ConsumerFails, editing
  <1>2. \/ prefs' = prefs
        \/ \E c \in ChannelTypes :
             /\ AskDefault(w, c) /\ CanInsert(task[w].user) /\ InsertDefault(task[w].user)
    BY DEF Consume, Receive, InternalCreate, AskChannel, AskDefault, SaveNotification,
           SaveChannels, MarkAsProcessed, ConsumerFails
  <1>3. CASE prefs' = prefs
    BY <1>1, <1>3 DEF Standing, EditFresh
  <1>4. ASSUME NEW c \in ChannelTypes, AskDefault(w, c), CanInsert(task[w].user),
               InsertDefault(task[w].user)
        PROVE  Standing(u)' /\ EditFresh(u)'
    <2>1. task[w].user \in Users
      <3>1. task[w] # NoTask
        BY <1>4, NoneIsNoStep DEF AskDefault
      <3> QED BY <3>1, TaskType DEF IInv, Tasks
    <2> QED BY <1>1, <1>4, <2>1, InsertStands DEF EditFresh
  <1> QED BY <1>2, <1>3, <1>4

\* An edit has saved: what it asked for stands, and what stood before it.
LEMMA SaveStands ==
  ASSUME IInv, NEW u \in Users, Standing(u), EditFresh(u), EditsApart(u),
         NEW e \in Editors, SavePreferences(e)
  PROVE  Standing(u)' /\ EditFresh(u)'
  <1> DEFINE x == edit[e]
  <1>1. /\ x.step = "save" /\ x.user \in Users /\ x.row \in SUBSET Toggles /\ x.row # NoPrefs
        /\ x.on \in SUBSET Toggles /\ x.off \in SUBSET Toggles
    BY SavedEdit, DefaultTypes DEF SavePreferences
  <1>2. /\ prefs'[u] = IF u = x.user THEN (x.row \cup x.on) \ x.off ELSE prefs[u]
        /\ wanted'[u] = IF u = x.user
                        THEN [on |-> (wanted[u].on \cup x.on) \ x.off,
                              off |-> (wanted[u].off \cup x.off) \ x.on]
                        ELSE wanted[u]
        /\ edit'[e].step = "none" /\ \A f \in Editors \ {e} : edit'[f] = edit[f]
    BY <1>1 DEF SavePreferences, IInv, TypeOK, NoEdit
  <1>3. CASE u # x.user
    BY <1>2, <1>3 DEF Standing, EditFresh
  <1>4. CASE u = x.user
    <2>1. prefs[u] = x.row
      BY <1>1, <1>4 DEF EditFresh
    <2>2. /\ wanted[u].on \subseteq x.row /\ wanted[u].off \cap x.row = {}
          /\ wanted[u].on \in SUBSET Toggles /\ wanted[u].off \in SUBSET Toggles
      BY <2>1, <1>1 DEF Standing, IInv, TypeOK
    <2>3. (x.row \cup x.on) \ x.off # NoPrefs
      BY <1>1, DefaultTypes
    <2>4. /\ (wanted[u].on \cup x.on) \ x.off \subseteq (x.row \cup x.on) \ x.off
          /\ ((wanted[u].off \cup x.off) \ x.on) \cap ((x.row \cup x.on) \ x.off) = {}
      BY <2>2
    <2>5. Standing(u)'
      <3>1. prefs'[u] = (x.row \cup x.on) \ x.off
        BY <1>2, <1>4
      <3>2. wanted'[u] = [on |-> (wanted[u].on \cup x.on) \ x.off,
                          off |-> (wanted[u].off \cup x.off) \ x.on]
        BY <1>2, <1>4
      <3> HIDE DEF x
      <3>3. /\ wanted'[u].on = (wanted[u].on \cup x.on) \ x.off
            /\ wanted'[u].off = (wanted[u].off \cup x.off) \ x.on
        BY <3>2
      <3> QED BY <3>1, <3>3, <2>3, <2>4 DEF Standing
    <2>6. ASSUME NEW f \in Editors, edit'[f].step = "save", edit'[f].user = u
          PROVE  FALSE
      <3>1. f # e /\ edit[f] = edit'[f]
        BY <2>6, <1>2
      <3>2. edit[f] # NoEdit /\ x # NoEdit
        BY <3>1, <2>6, <1>1 DEF NoEdit
      <3> QED BY <3>1, <3>2, <2>6, <1>4 DEF EditsApart
    <2> QED BY <2>5, <2>6 DEF EditFresh
  <1> QED BY <1>3, <1>4

LEMMA EditStands ==
  ASSUME IInv, NEW u \in Users, Standing(u), EditFresh(u), EditsApart(u),
         NEW e \in Editors, Edit(e)
  PROVE  Standing(u)' /\ EditFresh(u)'
  <1>1. ASSUME NEW v \in Users, NEW on \in SUBSET Toggles, NEW off \in SUBSET Toggles,
               LoadPreferences(e, v, on, off)
        PROVE  Standing(u)' /\ EditFresh(u)'
    <2>1. Standing(u)'
      BY <1>1 DEF LoadPreferences, Standing
    <2>2. /\ edit'[e].user = v /\ edit'[e].row = prefs[v] /\ prefs' = prefs
          /\ \A f \in Editors \ {e} : edit'[f] = edit[f]
      BY <1>1 DEF LoadPreferences, IInv, TypeOK
    <2> QED BY <2>1, <2>2 DEF EditFresh
  <1>2. CASE EditDefault(e)
    <2>1. edit[e].user \in Users /\ edit[e] \in Edits
      BY <1>2, EditType DEF EditDefault, Edits
    <2>2. CASE CanInsert(edit[e].user)
      <3>1. /\ Standing(u)'
            /\ \A f \in Editors : edit[f].step = "save" /\ edit[f].user = u => prefs'[u] = edit[f].row
        BY <1>2, <2>1, <2>2, InsertStands DEF EditDefault
      <3>2. /\ edit'[e].user = edit[e].user /\ edit'[e].row = DefaultPreferences
            /\ prefs'[edit[e].user] = DefaultPreferences
            /\ \A f \in Editors \ {e} : edit'[f] = edit[f]
        BY <1>2, <2>1, <2>2 DEF EditDefault, InsertDefault, IInv, TypeOK, Edits
      <3> QED BY <3>1, <3>2 DEF EditFresh
    <2>3. CASE ~CanInsert(edit[e].user)
      <3>1. /\ edit'[e].step = "none" /\ prefs' = prefs /\ wanted' = wanted
            /\ \A f \in Editors \ {e} : edit'[f] = edit[f]
        BY <1>2, <2>3 DEF EditDefault, IInv, TypeOK, NoEdit
      <3> QED BY <3>1 DEF EditFresh, Standing
    <2> QED BY <2>2, <2>3
  <1>3. CASE SavePreferences(e)
    BY <1>3, SaveStands
  <1> QED BY <1>1, <1>2, <1>3, ChangeType DEF Edit

-----------------------------------------------------------------------------
(* The theorems *)

LEMMA Invariant == Spec => []IInv
  BY InitIInv, NextIInv, PTL DEF Spec

\* The type invariant, for any events, users and numbers of consumers and
\* editors (notifications.service.ts, preference.service.ts, the consumers).
THEOREM TypeCorrect == Spec => []TypeOK
  <1>1. IInv => TypeOK
    BY DEF IInv
  <1> QED BY <1>1, Invariant, PTL

\* Taking an event for a duplicate never loses it: markAsProcessed comes
\* after the notification and its rows (order-events.consumer.ts), whatever
\* the consumers do side by side and wherever one of them dies.
THEOREM RecordedOnceNotified == Spec => []RecordedNotified
  <1>1. IInv => RecordedNotified
    BY DEF IInv
  <1> QED BY <1>1, Invariant, PTL

\* No default row that a consumer inserts undoes what a user switched on or
\* off, nor does another user's change (preference.service.ts): for every user
\* whose own changes never overlapped, whatever the others' do.
THEOREM PreferencesKept == Spec => PreferencesStand
  <1>1. ASSUME NEW u \in Users
        PROVE  Spec => ([]EditsApart(u) => []Stands(u))
    <2>1. Init => IInv /\ Standing(u) /\ EditFresh(u)
      <3>1. Init => Standing(u) /\ EditFresh(u)
        BY DEF Init, Standing, EditFresh, NoEdit
      <3> QED BY <3>1, InitIInv
    <2>2. IInv /\ Standing(u) /\ EditFresh(u) /\ EditsApart(u) /\ [Next]_vars
            => IInv' /\ Standing(u)' /\ EditFresh(u)'
      <3>1. ASSUME Standing(u), EditFresh(u), UNCHANGED vars
            PROVE  Standing(u)' /\ EditFresh(u)'
        BY <3>1 DEF vars, editing, Standing, EditFresh
      <3> QED BY <3>1, NextIInv, ConsumeStands, EditStands DEF Next
    <2>3. Standing(u) => Stands(u)
      BY DEF Standing, Stands
    <2> QED BY <2>1, <2>2, <2>3, PTL DEF Spec
  <1> QED BY <1>1 DEF PreferencesStand

-----------------------------------------------------------------------------
(* Deliveries *)

-----------------------------------------------------------------------------
(* The inductive invariant: what a copy of a row can say, the stale ones    *)
(* included.  The deliveries that failed and those that succeeded only grow *)
(* in number, so what a copy said once stays true.                          *)

Counts == 0..MaxRetries
Fails  == [Rows -> 0..(MaxRetries + 1)]
Part   == [step : {"claim", "send", "sent", "fail"}, retries : Counts]

Good(c, x, F, D) ==
  /\ x \in Contents
  /\ x.status \in {"PENDING", "PROCESSING"} => x.retries <= F[c]
  /\ x.status \in {"FAILED", "EXHAUSTED"} => x.retries < F[c]
  /\ x.status = "EXHAUSTED" => F[c] > MaxRetries
  /\ x.status = "SENT" => c \in D

GoodPart(c, x, F, D) ==
  /\ x \in Part
  /\ x.retries <= F[c]
  /\ x.step = "fail" => x.retries < F[c]
  /\ x.step = "sent" => c \in D

Ghosts == failures \in Fails /\ delivered \subseteq Rows

RowInv ==
  /\ row = [c \in Rows |-> row[c]]
  /\ \A c \in Rows : Good(c, row[c], failures, delivered)

RunInv ==
  /\ phase \in [Runs -> {"idle", "running", "left"}]
  /\ job = [r \in Runs |-> job[r]]
  /\ \A r \in Runs :
       /\ DOMAIN job[r] \subseteq Rows
       /\ phase[r] = "idle" <=> DOMAIN job[r] = {}
       /\ \A c \in DOMAIN job[r] : GoodPart(c, job[r][c], failures, delivered)

SweepInv ==
  /\ sweep = [i \in Instances |-> sweep[i]]
  /\ \A i \in Instances :
       /\ DOMAIN sweep[i] \subseteq Rows
       /\ \A c \in DOMAIN sweep[i] : sweep[i][c] \in Counts /\ sweep[i][c] < failures[c]

ReadInv ==
  /\ isRead \in [Notes -> BOOLEAN]
  /\ reads \in 0..MaxReads
  /\ reading = [q \in Readers |-> reading[q]]
  /\ \A q \in Readers : reading[q] # NoRead =>
       /\ reading[q].note \in Notes
       /\ DOMAIN reading[q].rows \subseteq Rows
       /\ \A c \in DOMAIN reading[q].rows :
            Good(c, reading[q].rows[c], failures, delivered)

DeliveriesIInv == Ghosts /\ RowInv /\ RunInv /\ SweepInv /\ ReadInv

-----------------------------------------------------------------------------
(* More failures, more deliveries *)

Grown == /\ \A c \in Rows : failures[c] <= failures'[c]
         /\ delivered \subseteq delivered'
         /\ failures' \in Fails

LEMMA SameGrown ==
  ASSUME Ghosts, UNCHANGED <<failures, delivered>>
  PROVE  Grown /\ Ghosts'
  BY DeliveriesAssumption DEF Ghosts, Grown, Fails

LEMMA GoodStays ==
  ASSUME Ghosts, Grown, NEW c \in Rows, NEW x, Good(c, x, failures, delivered)
  PROVE  Good(c, x, failures', delivered')
  <1>1. /\ failures[c] \in Nat /\ failures'[c] \in Nat /\ failures[c] <= failures'[c]
        /\ c \in delivered => c \in delivered'
    BY DeliveriesAssumption DEF Ghosts, Grown, Fails
  <1>2. x # Absent => x.retries \in Nat
    BY DeliveriesAssumption DEF Good, Contents
  <1>3. x = Absent => x.status \notin Statuses
    BY DEF Absent, Statuses
  <1>4. CASE x = Absent
    BY <1>3, <1>4 DEF Good, Statuses
  <1>5. CASE x # Absent
    BY <1>1, <1>2, <1>5, DeliveriesAssumption DEF Good
  <1> QED BY <1>4, <1>5

LEMMA GoodPartStays ==
  ASSUME Ghosts, Grown, NEW c \in Rows, NEW x, GoodPart(c, x, failures, delivered)
  PROVE  GoodPart(c, x, failures', delivered')
  <1>1. /\ failures[c] \in Nat /\ failures'[c] \in Nat /\ failures[c] <= failures'[c]
        /\ c \in delivered => c \in delivered'
    BY DeliveriesAssumption DEF Ghosts, Grown, Fails
  <1>2. x.retries \in Nat
    BY DeliveriesAssumption DEF GoodPart, Part, Counts
  <1> QED BY <1>1, <1>2 DEF GoodPart

LEMMA RowStays ==
  ASSUME DeliveriesIInv, Grown, row' = row
  PROVE  RowInv'
  BY GoodStays DEF DeliveriesIInv, RowInv

LEMMA RunStays ==
  ASSUME DeliveriesIInv, Grown, UNCHANGED <<phase, job>>
  PROVE  RunInv'
  <1>1. ASSUME NEW r \in Runs, NEW c \in DOMAIN job[r]
        PROVE  GoodPart(c, job[r][c], failures', delivered')
    <2>1. c \in Rows /\ GoodPart(c, job[r][c], failures, delivered)
      BY DEF DeliveriesIInv, RunInv
    <2> QED BY <2>1, GoodPartStays DEF DeliveriesIInv
  <1> QED BY <1>1 DEF DeliveriesIInv, RunInv

LEMMA SweepStays ==
  ASSUME DeliveriesIInv, Grown, sweep' = sweep
  PROVE  SweepInv'
  <1>1. ASSUME NEW i \in Instances, NEW c \in DOMAIN sweep[i]
        PROVE  sweep[i][c] \in Counts /\ sweep[i][c] < failures'[c]
    <2>1. c \in Rows /\ sweep[i][c] \in Counts /\ sweep[i][c] < failures[c]
      BY DEF DeliveriesIInv, SweepInv
    <2>2. failures[c] \in Nat /\ failures'[c] \in Nat /\ failures[c] <= failures'[c]
      BY <2>1, DeliveriesAssumption DEF Grown, DeliveriesIInv, Ghosts, Fails
    <2> QED BY <2>1, <2>2, DeliveriesAssumption DEF Counts
  <1> QED BY <1>1 DEF DeliveriesIInv, SweepInv

LEMMA ReadStays ==
  ASSUME DeliveriesIInv, Grown, UNCHANGED userVars
  PROVE  ReadInv'
  <1>1. ASSUME NEW q \in Readers, reading[q] # NoRead, NEW c \in DOMAIN reading[q].rows
        PROVE  Good(c, reading[q].rows[c], failures', delivered')
    <2>1. c \in Rows /\ Good(c, reading[q].rows[c], failures, delivered)
      BY <1>1 DEF DeliveriesIInv, ReadInv
    <2> QED BY <2>1, GoodStays DEF DeliveriesIInv
  <1> QED BY <1>1 DEF DeliveriesIInv, ReadInv, userVars

\* One row is written, with something good.
LEMMA RowWritten ==
  ASSUME DeliveriesIInv, Grown, NEW c \in Rows, NEW x, Good(c, x, failures', delivered'),
         row' = [row EXCEPT ![c] = x]
  PROVE  RowInv'
  <1>1. ASSUME NEW d \in Rows
        PROVE  Good(d, row'[d], failures', delivered')
    <2>1. row'[d] = IF d = c THEN x ELSE row[d]
      BY DEF DeliveriesIInv, RowInv
    <2> QED BY <2>1, GoodStays DEF DeliveriesIInv, RowInv
  <1>2. row' = [d \in Rows |-> row'[d]]
    BY DEF DeliveriesIInv, RowInv
  <1> QED BY <1>1, <1>2 DEF RowInv

\* A part of a run goes on to another step, with something good.
LEMMA PartGoesOn ==
  ASSUME DeliveriesIInv, Grown, NEW r \in Runs, NEW c \in Rows, c \in DOMAIN job[r],
         NEW next, Go(r, c, next),
         GoodPart(c, [job[r][c] EXCEPT !.step = next], failures', delivered')
  PROVE  RunInv'
  <1>1. /\ job' = [s \in Runs |-> job'[s]]
        /\ \A s \in Runs : DOMAIN job'[s] = DOMAIN job[s]
        /\ \A s \in Runs : \A d \in DOMAIN job[s] :
             job'[s][d] = IF s = r /\ d = c THEN [job[r][c] EXCEPT !.step = next] ELSE job[s][d]
        /\ phase' = phase
    BY DEF Go, DeliveriesIInv, RunInv
  <1>2. ASSUME NEW s \in Runs, NEW d \in DOMAIN job[s]
        PROVE  GoodPart(d, job'[s][d], failures', delivered')
    <2>1. d \in Rows /\ GoodPart(d, job[s][d], failures, delivered)
      BY DEF DeliveriesIInv, RunInv
    <2> QED BY <1>1, <2>1, GoodPartStays DEF DeliveriesIInv
  <1> QED BY <1>1, <1>2 DEF DeliveriesIInv, RunInv

\* A part of a run is over.
LEMMA PartSettles ==
  ASSUME DeliveriesIInv, Grown, NEW r \in Runs, NEW c \in Rows, c \in DOMAIN job[r],
         NEW waiting \in {"running", "left"}, Settle(r, c, waiting)
  PROVE  RunInv'
  <1>1. /\ job' = [s \in Runs |-> job'[s]]
        /\ \A s \in Runs : DOMAIN job'[s] = IF s = r THEN DOMAIN job[r] \ {c} ELSE DOMAIN job[s]
        /\ \A s \in Runs : \A d \in DOMAIN job'[s] : d \in DOMAIN job[s] /\ job'[s][d] = job[s][d]
    BY DEF Settle, DeliveriesIInv, RunInv
  <1>2. /\ phase' \in [Runs -> {"idle", "running", "left"}]
        /\ \A s \in Runs : phase'[s] = IF s = r THEN IF DOMAIN job[r] = {c} THEN "idle" ELSE waiting
                                                ELSE phase[s]
    BY DEF Settle, DeliveriesIInv, RunInv
  <1>3. ASSUME NEW s \in Runs, NEW d \in DOMAIN job'[s]
        PROVE  d \in Rows /\ GoodPart(d, job'[s][d], failures', delivered')
    <2>1. d \in Rows /\ GoodPart(d, job[s][d], failures, delivered)
      BY <1>1 DEF DeliveriesIInv, RunInv
    <2> QED BY <1>1, <2>1, GoodPartStays DEF DeliveriesIInv
  <1>4. ASSUME NEW s \in Runs
        PROVE  phase'[s] = "idle" <=> DOMAIN job'[s] = {}
    <2>1. CASE s = r
      <3>1. DOMAIN job[r] \ {c} = {} <=> DOMAIN job[r] = {c}
        OBVIOUS
      <3>2. DOMAIN job'[s] = DOMAIN job[r] \ {c}
        BY <2>1, <1>1
      <3>3. phase'[s] = IF DOMAIN job[r] = {c} THEN "idle" ELSE waiting
        BY <2>1, <1>2
      <3> QED BY <3>1, <3>2, <3>3
    <2>2. CASE s # r
      BY <2>2, <1>1, <1>2 DEF DeliveriesIInv, RunInv
    <2> QED BY <2>1, <2>2
  <1> QED BY <1>1, <1>2, <1>3, <1>4 DEF RunInv

\* A run begins, with good parts.
LEMMA RunBegins ==
  ASSUME DeliveriesIInv, Grown, NEW r \in Runs, NEW J, DOMAIN J \subseteq Rows, DOMAIN J # {},
         \A c \in DOMAIN J : GoodPart(c, J[c], failures', delivered'),
         job' = [job EXCEPT ![r] = J], phase' = [phase EXCEPT ![r] = "running"]
  PROVE  RunInv'
  <1>1. /\ job' = [s \in Runs |-> job'[s]]
        /\ \A s \in Runs : job'[s] = IF s = r THEN J ELSE job[s]
        /\ phase' \in [Runs -> {"idle", "running", "left"}]
        /\ \A s \in Runs : phase'[s] = IF s = r THEN "running" ELSE phase[s]
    BY DEF DeliveriesIInv, RunInv
  <1>2. ASSUME NEW s \in Runs
        PROVE  /\ DOMAIN job'[s] \subseteq Rows
               /\ phase'[s] = "idle" <=> DOMAIN job'[s] = {}
               /\ \A c \in DOMAIN job'[s] : GoodPart(c, job'[s][c], failures', delivered')
    <2>1. CASE s = r
      BY <2>1, <1>1
    <2>2. CASE s # r
      <3>1. job'[s] = job[s] /\ phase'[s] = phase[s]
        BY <2>2, <1>1
      <3>2. /\ DOMAIN job[s] \subseteq Rows
            /\ phase[s] = "idle" <=> DOMAIN job[s] = {}
            /\ \A c \in DOMAIN job[s] : GoodPart(c, job[s][c], failures, delivered)
        BY DEF DeliveriesIInv, RunInv
      <3>3. \A c \in DOMAIN job[s] : GoodPart(c, job[s][c], failures', delivered')
        BY <3>2, GoodPartStays DEF DeliveriesIInv
      <3> QED BY <3>1, <3>2, <3>3
    <2> QED BY <2>1, <2>2
  <1> QED BY <1>1, <1>2 DEF RunInv

\* A row of a sweep is done with.
LEMMA SweptRow ==
  ASSUME DeliveriesIInv, Grown, NEW i \in Instances, NEW c,
         sweep' = [sweep EXCEPT ![i] = [d \in DOMAIN @ \ {c} |-> @[d]]]
  PROVE  SweepInv'
  <1>1. /\ sweep' = [j \in Instances |-> sweep'[j]]
        /\ \A j \in Instances : \A d \in DOMAIN sweep'[j] :
             d \in DOMAIN sweep[j] /\ sweep'[j][d] = sweep[j][d]
    BY DEF DeliveriesIInv, SweepInv
  <1>2. ASSUME NEW j \in Instances, NEW d \in DOMAIN sweep'[j]
        PROVE  d \in Rows /\ sweep'[j][d] \in Counts /\ sweep'[j][d] < failures'[d]
    <2>1. d \in Rows /\ sweep[j][d] \in Counts /\ sweep[j][d] < failures[d]
      BY <1>1 DEF DeliveriesIInv, SweepInv
    <2>2. failures[d] \in Nat /\ failures'[d] \in Nat /\ failures[d] <= failures'[d]
      BY <2>1, DeliveriesAssumption DEF Grown, DeliveriesIInv, Ghosts, Fails
    <2> QED BY <1>1, <2>1, <2>2, DeliveriesAssumption DEF Counts
  <1> QED BY <1>1, <1>2 DEF SweepInv

-----------------------------------------------------------------------------
(* The initial states and the steps *)

LEMMA Initially == DeliveriesInit => DeliveriesIInv
  <1> SUFFICES ASSUME DeliveriesInit PROVE DeliveriesIInv
    OBVIOUS
  <1>1. /\ DOMAIN <<>> = {}
        /\ 0 \in 0..(MaxRetries + 1) /\ 0 \in 0..MaxReads
    BY DeliveriesAssumption
  <1>2. Ghosts
    BY <1>1 DEF DeliveriesInit, Ghosts, Fails
  <1>3. RowInv
    BY DEF DeliveriesInit, RowInv, Good, Contents, Absent
  <1>4. RunInv /\ SweepInv
    BY <1>1 DEF DeliveriesInit, RunInv, SweepInv
  <1>5. ReadInv
    BY <1>1 DEF DeliveriesInit, ReadInv
  <1> QED BY <1>2, <1>3, <1>4, <1>5 DEF DeliveriesIInv

\* What a loaded row says is good for a part that claims it and for a retry.
LEMMA RowIsGood ==
  ASSUME DeliveriesIInv, NEW c \in Rows
  PROVE  Good(c, row[c], failures, delivered)
  BY DEF DeliveriesIInv, RowInv

LEMMA LoadedExist ==
  ASSUME NEW S, NEW T \in Loaded(S)
  PROVE  T \subseteq S
  BY DEF Loaded

LEMMA CreateStep ==
  ASSUME DeliveriesIInv, NEW n \in Notes, NEW S \in SUBSET Rows, Create(n, S)
  PROVE  DeliveriesIInv'
  <1>1. Grown /\ Ghosts'
    BY SameGrown DEF DeliveriesIInv, Create, delivery
  <1>2. RunInv' /\ SweepInv' /\ ReadInv'
    BY <1>1, RunStays, SweepStays, ReadStays DEF Create, delivery
  <1>3. ASSUME NEW c \in Rows
        PROVE  Good(c, row'[c], failures', delivered')
    <2>1. CASE c \in S
      <3>1. row'[c] = [status |-> "PENDING", retries |-> 0]
        BY <2>1 DEF Create
      <3>2. 0 \in 0..MaxRetries /\ 0 <= failures'[c]
        BY <1>1, DeliveriesAssumption DEF Ghosts, Fails
      <3> QED BY <3>1, <3>2 DEF Good, Contents, Statuses
    <2>2. CASE c \notin S
      BY <1>1, <2>2, RowIsGood, GoodStays DEF Create, DeliveriesIInv
    <2> QED BY <2>1, <2>2
  <1>4. row' = [c \in Rows |-> row'[c]]
    BY DEF Create
  <1> QED BY <1>1, <1>2, <1>3, <1>4 DEF DeliveriesIInv, RowInv

LEMMA StartRunStep ==
  ASSUME DeliveriesIInv, NEW r \in Runs, StartRun(r)
  PROVE  DeliveriesIInv'
  <1>1. Grown /\ Ghosts'
    BY SameGrown DEF DeliveriesIInv, StartRun
  <1>2. RowInv' /\ SweepInv' /\ ReadInv'
    BY <1>1, RowStays, SweepStays, ReadStays DEF StartRun
  <1>3. PICK T \in Loaded(With("PENDING")) :
          job' = [job EXCEPT ![r] = [c \in T |-> [step |-> "claim", retries |-> row[c].retries]]]
    BY DEF StartRun
  <1>4. T \subseteq With("PENDING") /\ T \subseteq Rows
    BY LoadedExist DEF With
  <1>5. T # {}
    <2>1. IsFiniteSet(With("PENDING")) /\ With("PENDING") # {}
      <3>1. With("PENDING") \in SUBSET Rows
        BY DEF With
      <3> QED BY <3>1, FS_Subset, DeliveriesAssumption DEF StartRun
    <2>2. Cardinality(With("PENDING")) # 0
      BY <2>1, FS_EmptySet
    <2>3. Cardinality(T) # 0
      BY <2>2, DeliveriesAssumption DEF Loaded
    <2> QED BY <2>3, FS_EmptySet
  <1>6. ASSUME NEW c \in T
        PROVE  GoodPart(c, [step |-> "claim", retries |-> row[c].retries], failures', delivered')
    <2>1. c \in Rows /\ row[c].status = "PENDING" /\ Good(c, row[c], failures, delivered)
      BY <1>4, RowIsGood DEF With
    <2>2. row[c].retries \in 0..MaxRetries /\ row[c].retries <= failures[c]
      BY <2>1 DEF Good, Contents, Absent
    <2>3. failures' = failures
      BY DEF StartRun
    <2> QED BY <2>2, <2>3 DEF GoodPart, Part, Counts
  <1>7. RunInv'
    <2> DEFINE J == [c \in T |-> [step |-> "claim", retries |-> row[c].retries]]
    <2>1. DOMAIN J = T /\ \A c \in T : J[c] = [step |-> "claim", retries |-> row[c].retries]
      OBVIOUS
    <2>2. \A c \in DOMAIN J : GoodPart(c, J[c], failures', delivered')
      BY <2>1, <1>6
    <2>3. job' = [job EXCEPT ![r] = J] /\ phase' = [phase EXCEPT ![r] = "running"]
      BY <1>3 DEF StartRun
    <2> HIDE DEF J
    <2> QED BY <1>1, <1>4, <1>5, <2>1, <2>2, <2>3, RunBegins
  <1> QED BY <1>1, <1>2, <1>7 DEF DeliveriesIInv

\* A row that a run holds, and its part.
LEMMA PartIsGood ==
  ASSUME DeliveriesIInv, NEW r \in Runs, NEW c \in Rows, NEW step, At(r, c, step)
  PROVE  /\ c \in DOMAIN job[r] /\ job[r][c].step = step
         /\ job[r][c] \in Part
         /\ GoodPart(c, job[r][c], failures, delivered)
         /\ job[r][c].retries \in Nat /\ failures[c] \in 0..(MaxRetries + 1)
  <1>1. c \in DOMAIN job[r] /\ GoodPart(c, job[r][c], failures, delivered)
    BY DEF At, DeliveriesIInv, RunInv
  <1>2. job[r][c] \in Part /\ job[r][c].retries \in Nat
    BY <1>1, DeliveriesAssumption DEF GoodPart, Part, Counts
  <1> QED BY <1>1, <1>2 DEF At, DeliveriesIInv, Ghosts, Fails

LEMMA ClaimStep ==
  ASSUME DeliveriesIInv, NEW r \in Runs, NEW c \in Rows, Claim(r, c)
  PROVE  DeliveriesIInv'
  <1>1. Grown /\ Ghosts' /\ failures' = failures /\ delivered' = delivered
    BY SameGrown DEF DeliveriesIInv, Claim
  <1>2. SweepInv' /\ ReadInv'
    BY <1>1, SweepStays, ReadStays DEF Claim
  <1>3. /\ c \in DOMAIN job[r] /\ job[r][c] \in Part
        /\ GoodPart(c, job[r][c], failures, delivered)
    BY PartIsGood DEF Claim
  <1>4. RowInv'
    <2>1. Good(c, [status |-> "PROCESSING", retries |-> job[r][c].retries], failures', delivered')
      BY <1>1, <1>3 DEF Good, GoodPart, Part, Counts, Contents, Statuses
    <2> QED BY <1>1, <2>1, RowWritten DEF Claim, Put
  <1>5. RunInv'
    <2>1. GoodPart(c, [job[r][c] EXCEPT !.step = "send"], failures', delivered')
      BY <1>1, <1>3 DEF GoodPart, Part
    <2> QED BY <1>1, <1>3, <2>1, PartGoesOn DEF Claim
  <1> QED BY <1>1, <1>2, <1>4, <1>5 DEF DeliveriesIInv

LEMMA SendStep ==
  ASSUME DeliveriesIInv, NEW r \in Runs, NEW c \in Rows, Send(r, c)
  PROVE  DeliveriesIInv'
  <1>1. Grown /\ Ghosts' /\ failures' = failures /\ c \in delivered'
    BY DeliveriesAssumption DEF Grown, Ghosts, Fails, DeliveriesIInv, Send
  <1>2. RowInv' /\ SweepInv' /\ ReadInv'
    BY <1>1, RowStays, SweepStays, ReadStays DEF Send
  <1>3. /\ c \in DOMAIN job[r] /\ job[r][c] \in Part
        /\ GoodPart(c, job[r][c], failures, delivered)
    BY PartIsGood DEF Send
  <1>4. RunInv'
    <2>1. GoodPart(c, [job[r][c] EXCEPT !.step = "sent"], failures', delivered')
      BY <1>1, <1>3 DEF GoodPart, Part
    <2> QED BY <1>1, <1>3, <2>1, PartGoesOn DEF Send
  <1> QED BY <1>1, <1>2, <1>4 DEF DeliveriesIInv

LEMMA CatchStep ==
  ASSUME DeliveriesIInv, NEW r \in Runs, NEW c \in Rows, NEW step, At(r, c, step), Catch(r, c)
  PROVE  DeliveriesIInv'
  <1>1. /\ c \in DOMAIN job[r] /\ job[r][c] \in Part
        /\ GoodPart(c, job[r][c], failures, delivered)
        /\ job[r][c].retries \in 0..MaxRetries /\ failures[c] \in 0..(MaxRetries + 1)
    BY PartIsGood DEF Part, Counts
  <1>2. /\ \A d \in Rows : failures'[d] = IF d = c /\ ~(failures[c] > MaxRetries)
                                         THEN failures[c] + 1 ELSE failures[d]
        /\ failures' = [d \in Rows |-> failures'[d]]
    BY DEF DeliveriesIInv, Ghosts, Fails, Catch
  <1>3. \A d \in Rows : /\ failures[d] \in 0..(MaxRetries + 1)
                        /\ failures'[d] \in 0..(MaxRetries + 1)
                        /\ failures[d] <= failures'[d]
    BY <1>2, DeliveriesAssumption DEF DeliveriesIInv, Ghosts, Fails
  <1>4. Grown /\ Ghosts'
    BY <1>2, <1>3 DEF Grown, Ghosts, Fails, DeliveriesIInv, Catch
  <1>5. RowInv' /\ SweepInv' /\ ReadInv'
    BY <1>4, RowStays, SweepStays, ReadStays DEF Catch
  <1>6. job[r][c].retries < failures'[c]
    BY <1>1, <1>2, DeliveriesAssumption DEF GoodPart
  <1>7. RunInv'
    <2>1. job[r][c].retries <= failures'[c]
      BY <1>1, <1>3, <1>6, DeliveriesAssumption
    <2>2. GoodPart(c, [job[r][c] EXCEPT !.step = "fail"], failures', delivered')
      BY <1>1, <1>6, <2>1 DEF GoodPart, Part
    <2> QED BY <1>4, <1>1, <2>2, PartGoesOn DEF Catch
  <1> QED BY <1>4, <1>5, <1>7 DEF DeliveriesIInv

\* A run that holds a row is under way.
LEMMA UnderWay ==
  ASSUME DeliveriesIInv, NEW r \in Runs, NEW c \in DOMAIN job[r]
  PROVE  phase[r] \in {"running", "left"}
  BY DEF DeliveriesIInv, RunInv

LEMMA SaveStep ==
  ASSUME DeliveriesIInv, NEW r \in Runs, NEW c \in Rows, SaveSent(r, c) \/ SaveFailed(r, c)
  PROVE  DeliveriesIInv'
  <1>1. Grown /\ Ghosts' /\ failures' = failures /\ delivered' = delivered
    BY SameGrown DEF DeliveriesIInv, SaveSent, SaveFailed
  <1>2. SweepInv' /\ ReadInv'
    BY <1>1, SweepStays, ReadStays DEF SaveSent, SaveFailed
  <1>3. /\ c \in DOMAIN job[r] /\ job[r][c] \in Part
        /\ GoodPart(c, job[r][c], failures, delivered)
    BY PartIsGood DEF SaveSent, SaveFailed
  <1>4. RowInv'
    <2>1. CASE SaveSent(r, c)
      <3>1. job[r][c].step = "sent"
        BY <2>1 DEF SaveSent, At
      <3>2. Good(c, [status |-> "SENT", retries |-> job[r][c].retries], failures', delivered')
        BY <1>1, <1>3, <3>1 DEF Good, GoodPart, Part, Counts, Contents, Statuses
      <3> QED BY <1>1, <2>1, <3>2, RowWritten DEF SaveSent, Put
    <2>2. CASE SaveFailed(r, c)
      <3>1. job[r][c].step = "fail"
        BY <2>2 DEF SaveFailed, At
      <3>2. Good(c, [status |-> "FAILED", retries |-> job[r][c].retries], failures', delivered')
        BY <1>1, <1>3, <3>1 DEF Good, GoodPart, Part, Counts, Contents, Statuses
      <3> QED BY <1>1, <2>2, <3>2, RowWritten DEF SaveFailed, Put
    <2> QED BY <2>1, <2>2
  <1>5. RunInv'
    <2>1. Settle(r, c, phase[r])
      BY DEF SaveSent, SaveFailed
    <2> QED BY <1>1, <1>3, <2>1, UnderWay, PartSettles
  <1> QED BY <1>1, <1>2, <1>4, <1>5 DEF DeliveriesIInv

LEMMA FailedNotSavedStep ==
  ASSUME DeliveriesIInv, NEW r \in Runs, NEW c \in Rows, FailedNotSaved(r, c)
  PROVE  DeliveriesIInv'
  <1>1. Grown /\ Ghosts'
    BY SameGrown DEF DeliveriesIInv, FailedNotSaved
  <1>2. RowInv' /\ SweepInv' /\ ReadInv'
    BY <1>1, RowStays, SweepStays, ReadStays DEF FailedNotSaved
  <1>3. c \in DOMAIN job[r] /\ Settle(r, c, "left")
    BY DEF FailedNotSaved, At
  <1>4. RunInv'
    BY <1>1, <1>3, PartSettles
  <1> QED BY <1>1, <1>2, <1>4 DEF DeliveriesIInv

LEMMA DeliverStep ==
  ASSUME DeliveriesIInv, NEW r \in Runs, NEW c \in Rows, Deliver(r, c)
  PROVE  DeliveriesIInv'
  <1>1. CASE SendFails(r, c)
    BY <1>1, CatchStep DEF SendFails
  <1>2. CASE SaveFails(r, c)
    BY <1>2, CatchStep DEF SaveFails
  <1> QED BY <1>1, <1>2, ClaimStep, SendStep, SaveStep, FailedNotSavedStep DEF Deliver

-----------------------------------------------------------------------------
(* The retry worker, a crash and the user *)

LEMMA StartSweepStep ==
  ASSUME DeliveriesIInv, NEW i \in Instances, StartSweep(i)
  PROVE  DeliveriesIInv'
  <1>1. Grown /\ Ghosts' /\ failures' = failures
    BY SameGrown DEF DeliveriesIInv, StartSweep, delivery
  <1>2. RowInv' /\ RunInv' /\ ReadInv'
    BY <1>1, RowStays, RunStays, ReadStays DEF StartSweep, delivery
  <1>3. PICK T \in Loaded(With("FAILED")) :
          sweep' = [sweep EXCEPT ![i] = [c \in T |-> row[c].retries]]
    BY DEF StartSweep
  <1>4. T \subseteq With("FAILED") /\ T \subseteq Rows
    BY LoadedExist DEF With
  <1>5. ASSUME NEW c \in T
        PROVE  row[c].retries \in Counts /\ row[c].retries < failures'[c]
    <2>1. c \in Rows /\ row[c].status = "FAILED" /\ Good(c, row[c], failures, delivered)
      BY <1>4, RowIsGood DEF With
    <2> QED BY <1>1, <2>1 DEF Good, Contents, Absent, Counts
  <1>6. SweepInv'
    <2>1. /\ sweep' = [j \in Instances |-> sweep'[j]]
          /\ sweep'[i] = [c \in T |-> row[c].retries]
          /\ \A j \in Instances \ {i} : sweep'[j] = sweep[j]
      BY <1>3 DEF DeliveriesIInv, SweepInv
    <2>2. ASSUME NEW j \in Instances
          PROVE  /\ DOMAIN sweep'[j] \subseteq Rows
                 /\ \A c \in DOMAIN sweep'[j] :
                      sweep'[j][c] \in Counts /\ sweep'[j][c] < failures'[c]
      <3>1. CASE j = i
        BY <2>1, <3>1, <1>4, <1>5
      <3>2. CASE j # i
        BY <2>1, <3>2, <1>1 DEF DeliveriesIInv, SweepInv
      <3> QED BY <3>1, <3>2
    <2> QED BY <2>1, <2>2 DEF SweepInv
  <1> QED BY <1>1, <1>2, <1>6 DEF DeliveriesIInv

LEMMA SweepRowStep ==
  ASSUME DeliveriesIInv, NEW i \in Instances, NEW c \in Rows, SweepRow(i, c)
  PROVE  DeliveriesIInv'
  <1>1. Grown /\ Ghosts' /\ failures' = failures /\ delivered' = delivered
    BY SameGrown DEF DeliveriesIInv, SweepRow, Retry, NotDue, Exhaust, Swept, delivery
  <1>2. RunInv' /\ ReadInv'
    BY <1>1, RunStays, ReadStays DEF SweepRow, Retry, NotDue, Exhaust, Swept, delivery
  <1>3. SweepInv'
    BY <1>1, SweptRow DEF SweepRow, Retry, NotDue, Exhaust, Swept
  <1>4. /\ sweep[i][c] \in 0..MaxRetries /\ sweep[i][c] < failures[c]
        /\ failures[c] \in 0..(MaxRetries + 1)
    BY DEF DeliveriesIInv, SweepInv, Ghosts, Fails, Counts, SweepRow, Retry, NotDue, Exhaust
  <1>5. RowInv'
    <2>1. CASE Retry(i, c)
      <3>1. sweep[i][c] + 1 \in 0..MaxRetries /\ sweep[i][c] + 1 <= failures'[c]
        BY <1>1, <1>4, <2>1, DeliveriesAssumption DEF Retry, RetriesLeft
      <3>2. Good(c, [status |-> "PENDING", retries |-> sweep[i][c] + 1], failures', delivered')
        BY <3>1 DEF Good, Contents, Statuses
      <3> QED BY <1>1, <2>1, <3>2, RowWritten DEF Retry, Put
    <2>2. CASE NotDue(i, c)
      BY <1>1, <2>2, RowStays DEF NotDue
    <2>3. CASE Exhaust(i, c)
      <3>1. failures'[c] > MaxRetries
        BY <1>1, <1>4, <2>3, DeliveriesAssumption DEF Exhaust, RetriesLeft
      <3>2. Good(c, [status |-> "EXHAUSTED", retries |-> sweep[i][c]], failures', delivered')
        BY <1>1, <1>4, <3>1 DEF Good, Contents, Statuses
      <3> QED BY <1>1, <2>3, <3>2, RowWritten DEF Exhaust, Put
    <2> QED BY <2>1, <2>2, <2>3 DEF SweepRow
  <1> QED BY <1>1, <1>2, <1>3, <1>5 DEF DeliveriesIInv

\* What a process held in memory is gone.
LEMMA SweepGone ==
  ASSUME DeliveriesIInv, Grown, NEW i \in Instances, sweep' = [sweep EXCEPT ![i] = <<>>]
  PROVE  SweepInv'
  <1>1. DOMAIN <<>> = {}
    OBVIOUS
  <1>2. /\ sweep' = [j \in Instances |-> sweep'[j]]
        /\ \A j \in Instances : sweep'[j] = sweep[j] \/ DOMAIN sweep'[j] = {}
    BY <1>1 DEF DeliveriesIInv, SweepInv
  <1>3. ASSUME NEW j \in Instances, NEW c \in DOMAIN sweep'[j]
        PROVE  c \in Rows /\ sweep'[j][c] \in Counts /\ sweep'[j][c] < failures'[c]
    <2>1. /\ sweep'[j] = sweep[j] /\ c \in Rows
          /\ sweep[j][c] \in Counts /\ sweep[j][c] < failures[c]
      BY <1>2, <1>3 DEF DeliveriesIInv, SweepInv
    <2>2. failures[c] \in Nat /\ failures'[c] \in Nat /\ failures[c] <= failures'[c]
      BY <2>1, DeliveriesAssumption DEF Grown, DeliveriesIInv, Ghosts, Fails
    <2> QED BY <2>1, <2>2, DeliveriesAssumption DEF Counts
  <1> QED BY <1>2, <1>3 DEF SweepInv

LEMMA SweepFailsStep ==
  ASSUME DeliveriesIInv, NEW i \in Instances, SweepFails(i)
  PROVE  DeliveriesIInv'
  <1>1. Grown /\ Ghosts'
    BY SameGrown DEF DeliveriesIInv, SweepFails, delivery
  <1>2. RowInv' /\ RunInv' /\ ReadInv'
    BY <1>1, RowStays, RunStays, ReadStays DEF SweepFails, delivery
  <1> QED BY <1>1, <1>2, SweepGone DEF DeliveriesIInv, SweepFails

LEMMA CrashStep ==
  ASSUME DeliveriesIInv, NEW i \in Instances, Crash(i)
  PROVE  DeliveriesIInv'
  <1>1. Grown /\ Ghosts'
    BY SameGrown DEF DeliveriesIInv, Crash
  <1>2. RowInv' /\ ReadInv' /\ SweepInv'
    BY <1>1, RowStays, ReadStays, SweepGone DEF Crash
  <1>3. RunInv'
    <2>1. /\ DOMAIN <<>> = {}
          /\ job' = [r \in Runs |-> job'[r]]
          /\ phase' \in [Runs -> {"idle", "running", "left"}]
          /\ \A r \in Runs : \/ DOMAIN job'[r] = {} /\ phase'[r] = "idle"
                             \/ job'[r] = job[r] /\ phase'[r] = phase[r]
      BY DEF Crash, DeliveriesIInv, RunInv
    <2>2. ASSUME NEW r \in Runs
          PROVE  /\ DOMAIN job'[r] \subseteq Rows
                 /\ phase'[r] = "idle" <=> DOMAIN job'[r] = {}
                 /\ \A c \in DOMAIN job'[r] : GoodPart(c, job'[r][c], failures', delivered')
      <3>1. CASE DOMAIN job'[r] = {} /\ phase'[r] = "idle"
        BY <3>1
      <3>2. CASE job'[r] = job[r] /\ phase'[r] = phase[r]
        <4>1. /\ DOMAIN job[r] \subseteq Rows
              /\ phase[r] = "idle" <=> DOMAIN job[r] = {}
              /\ \A c \in DOMAIN job[r] : GoodPart(c, job[r][c], failures, delivered)
          BY DEF DeliveriesIInv, RunInv
        <4>2. \A c \in DOMAIN job[r] : GoodPart(c, job[r][c], failures', delivered')
          BY <1>1, <4>1, GoodPartStays DEF DeliveriesIInv
        <4> QED BY <3>2, <4>1, <4>2
      <3> QED BY <2>1, <3>1, <3>2
    <2> QED BY <2>1, <2>2 DEF RunInv
  <1> QED BY <1>1, <1>2, <1>3 DEF DeliveriesIInv

LEMMA LoadToReadStep ==
  ASSUME DeliveriesIInv, NEW q \in Readers, NEW n \in Notes, LoadToRead(q, n)
  PROVE  DeliveriesIInv'
  <1>1. Grown /\ Ghosts' /\ failures' = failures /\ delivered' = delivered
    BY SameGrown DEF DeliveriesIInv, LoadToRead, delivery
  <1>2. RowInv' /\ RunInv' /\ SweepInv'
    BY <1>1, RowStays, RunStays, SweepStays DEF LoadToRead, delivery
  <1> DEFINE x == [note |-> n, rows |-> [c \in RowsOf(n) |-> row[c]]]
  <1>3. /\ x.note \in Notes /\ DOMAIN x.rows \subseteq Rows
        /\ \A c \in DOMAIN x.rows : Good(c, x.rows[c], failures', delivered')
    BY <1>1, RowIsGood DEF RowsOf
  <1>4. /\ isRead' \in [Notes -> BOOLEAN] /\ reads' \in 0..MaxReads
        /\ reading' = [p \in Readers |-> reading'[p]]
        /\ \A p \in Readers : reading'[p] = IF p = q THEN x ELSE reading[p]
    BY DeliveriesAssumption DEF DeliveriesIInv, ReadInv, LoadToRead
  <1> HIDE DEF x
  <1>5. ReadInv'
    BY <1>1, <1>3, <1>4 DEF DeliveriesIInv, ReadInv
  <1> QED BY <1>1, <1>2, <1>5 DEF DeliveriesIInv

LEMMA SaveReadStep ==
  ASSUME DeliveriesIInv, NEW q \in Readers, SaveRead(q)
  PROVE  DeliveriesIInv'
  <1>1. Grown /\ Ghosts' /\ failures' = failures /\ delivered' = delivered
    BY SameGrown DEF DeliveriesIInv, SaveRead, delivery
  <1>2. RunInv' /\ SweepInv'
    BY <1>1, RunStays, SweepStays DEF SaveRead, delivery
  <1> DEFINE n == reading[q].note
  <1>3. /\ reading[q] # NoRead /\ n \in Notes
        /\ \A c \in DOMAIN reading[q].rows : Good(c, reading[q].rows[c], failures', delivered')
    BY <1>1 DEF SaveRead, DeliveriesIInv, ReadInv
  <1>4. RowInv'
    <2>1. CASE row' = row
      BY <1>1, <2>1, RowStays
    <2>2. CASE row' # row
      <3>1. /\ DOMAIN reading[q].rows = RowsOf(n)
            /\ row' = [c \in Rows |-> IF c \in RowsOf(n) THEN reading[q].rows[c] ELSE row[c]]
        BY <2>2 DEF SaveRead
      <3>2. \A c \in Rows : Good(c, row'[c], failures', delivered')
        BY <1>1, <1>3, <3>1, RowIsGood
      <3>3. row' = [c \in Rows |-> row'[c]]
        BY <3>1
      <3> QED BY <3>2, <3>3 DEF RowInv
    <2> QED BY <2>1, <2>2
  <1>5. ReadInv'
    <2>1. /\ isRead' \in [Notes -> BOOLEAN] /\ reads' \in 0..MaxReads
          /\ reading' = [p \in Readers |-> reading'[p]]
          /\ \A p \in Readers : reading'[p] = IF p = q THEN NoRead ELSE reading[p]
      BY <1>3 DEF DeliveriesIInv, ReadInv, SaveRead
    <2> QED BY <1>1, <2>1 DEF DeliveriesIInv, ReadInv
  <1> QED BY <1>1, <1>2, <1>4, <1>5 DEF DeliveriesIInv

LEMMA MarkAllStep ==
  ASSUME DeliveriesIInv, NEW u \in Recipients, MarkAllAsRead(u)
  PROVE  DeliveriesIInv'
  <1>1. Grown /\ Ghosts' /\ failures' = failures /\ delivered' = delivered
    BY SameGrown DEF DeliveriesIInv, MarkAllAsRead, delivery
  <1>2. RowInv' /\ RunInv' /\ SweepInv'
    BY <1>1, RowStays, RunStays, SweepStays DEF MarkAllAsRead, delivery
  <1>3. isRead' \in [Notes -> BOOLEAN]
    BY DEF MarkAllAsRead, DeliveriesIInv, ReadInv
  <1>4. ReadInv'
    BY <1>1, <1>3 DEF DeliveriesIInv, ReadInv, MarkAllAsRead
  <1> QED BY <1>1, <1>2, <1>4 DEF DeliveriesIInv

-----------------------------------------------------------------------------
(* The theorems *)

LEMMA DeliveriesInvariant == DeliveriesSpec => []DeliveriesIInv
  <1>1. ASSUME DeliveriesIInv, [DeliveriesNext]_deliveriesVars
        PROVE  DeliveriesIInv'
    <2>1. CASE DeliveriesNext
      BY <1>1, <2>1, CreateStep, StartRunStep, DeliverStep, StartSweepStep, SweepFailsStep,
         CrashStep, SweepRowStep, SaveReadStep, LoadToReadStep, MarkAllStep DEF DeliveriesNext
    <2>2. CASE UNCHANGED deliveriesVars
      <3>1. /\ UNCHANGED <<failures, delivered, row, phase, job, sweep>>
            /\ UNCHANGED userVars
        BY <2>2 DEF deliveriesVars, delivery
      <3>2. Grown /\ Ghosts'
        BY <1>1, <3>1, SameGrown DEF DeliveriesIInv
      <3> QED BY <1>1, <3>1, <3>2, RowStays, RunStays, SweepStays, ReadStays DEF DeliveriesIInv
    <2> QED BY <1>1, <2>1, <2>2
  <1> QED BY <1>1, Initially, PTL DEF DeliveriesSpec

\* The type invariant, for every number of rows, processes and retries: a
\* retry count never passes max_retries (retry-worker.service.ts, processRetryQueue),
\* and a run is under way exactly while it holds rows.
THEOREM DeliveriesTypeCorrect == DeliveriesSpec => []DeliveriesTypeOK
  <1>1. DeliveriesIInv => DeliveriesTypeOK
    <2> SUFFICES ASSUME DeliveriesIInv PROVE DeliveriesTypeOK
      OBVIOUS
    <2>1. row \in [Rows -> Contents]
      BY DEF DeliveriesIInv, RowInv, Good
    <2>2. \A r \in Runs : /\ DOMAIN job[r] \subseteq Rows
                          /\ phase[r] = "idle" <=> DOMAIN job[r] = {}
                          /\ \A c \in DOMAIN job[r] : job[r][c] \in Part
      BY DEF DeliveriesIInv, RunInv, GoodPart
    <2>3. \A i \in Instances : /\ DOMAIN sweep[i] \subseteq Rows
                               /\ \A c \in DOMAIN sweep[i] : sweep[i][c] \in 0..MaxRetries
      BY DEF DeliveriesIInv, SweepInv, Counts
    <2>4. \A q \in Readers : \/ reading[q] = NoRead
                             \/ /\ reading[q].note \in Notes
                                /\ DOMAIN reading[q].rows \subseteq Rows
                                /\ \A c \in DOMAIN reading[q].rows :
                                     reading[q].rows[c] \in Contents
      BY DEF DeliveriesIInv, ReadInv, Good
    <2>5. /\ isRead \in [Notes -> BOOLEAN] /\ reads \in 0..MaxReads
          /\ phase \in [Runs -> {"idle", "running", "left"}]
          /\ delivered \subseteq Rows
          /\ failures \in [Rows -> 0..(MaxRetries + 1)]
      BY DEF DeliveriesIInv, ReadInv, RunInv, Ghosts, Fails
    <2> QED BY <2>1, <2>2, <2>3, <2>4, <2>5 DEF DeliveriesTypeOK, Part, Counts
  <1> QED BY <1>1, DeliveriesInvariant, PTL

\* An EXHAUSTED row failed more than MaxRetries times, however many workers
\* and readers hold stale copies of it: retry-worker.service.ts counts a retry
\* only of a failure, and no copy says more failures than there were.
THEOREM NeverGivenUpEarly == DeliveriesSpec => []NotGivenUpEarly
  <1>1. DeliveriesIInv => NotGivenUpEarly
    BY DEF DeliveriesIInv, RowInv, Good, NotGivenUpEarly
  <1> QED BY <1>1, DeliveriesInvariant, PTL

\* A row is SENT only after its handler returned without an error
\* (delivery-worker.service.ts:104-112), stale copies included.
THEOREM SentDelivered == DeliveriesSpec => []SentWasDelivered
  <1>1. DeliveriesIInv => SentWasDelivered
    BY DEF DeliveriesIInv, RowInv, Good, SentWasDelivered
  <1> QED BY <1>1, DeliveriesInvariant, PTL

===============================================================================
