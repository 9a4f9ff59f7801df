\* An event with an id delivered twice, one without an id, requests, and a user
\* who changes the preferences twice, perhaps at once; two handlers at a time.
CONSTANTS
  u1 = u1
  NoId = NoId
  NoOne = NoOne
  Users = {u1}
  Ids = {"m1"}
  Messages <- Both
  Copies <- OrderedTwice
  Overrides <- OneList
  Changes <- TwoChanges
  Slots = {1, 2}
  MaxUpdates = 2
  Consumers = {"w1", "w2"}
  Editors = {"e1", "e2"}
SPECIFICATION Spec
INVARIANTS TypeOK RecordedNotified
PROPERTIES PreferencesStand
CHECK_DEADLOCK FALSE
