SPECIFICATION FairSpec
CONSTANTS
  t1 = t1
  t2 = t2
  d1 = d1
  d2 = d2
  Tasks <- TwoTasks
  DelayedTasks <- TwoDelayedTasks
  Delays <- NowOrLater
  MaxTime = 2
  MaxStarts = 2
INVARIANTS TasksInOrder TasksKnowTheirThread
PROPERTIES DueTasksRun TasksRun
