SPECIFICATION FairSpec
CONSTANTS
  t1 = t1
  t2 = t2
  report = report
  Tasks <- AllTasks
  Reports <- OneReport
  MaxDatagrams = 3
PROPERTIES ImplementsTaskThread StopReturns DatagramsRead
