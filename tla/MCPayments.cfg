\* Two requests at a time; an intent can be declined before it is charged.
CONSTANTS
  i1 = i1
  f1 = f1
  w1 = w1
  w2 = w2
  Intents = {i1, f1}
  Foreign = {f1}
  MaxDeclines = 1
  Workers = {w1, w2}
SPECIFICATION FairSpec
INVARIANTS TypeOK AnsweredOnRecord PublishedBacked
PROPERTIES FirstChargeRecorded EventsAnswered
\* every intent is charged and every event answered
CHECK_DEADLOCK FALSE
