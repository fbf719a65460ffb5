CONSTANTS
  w1 = w1
  w2 = w2
  None = None
  Session = session1
  t1 = t1
  t2 = t2
  t3 = t3
  Tasks = {t1, t2, t3}
  Writers = {w1, w2}
  Bounds <- RaceOrWatch
SPECIFICATION FairSpec
INVARIANT TypeOK
INVARIANT LogsAreDense
INVARIANT NoAppendIsRefused
INVARIANT SessionLogMergesTaskLogs
INVARIANT RunFollowsLog
INVARIANT ShownIsThePrefix
PROPERTY AppendsKeepTheState
PROPERTY JournalSpec
PROPERTY ViewsCatchUp
CHECK_DEADLOCK FALSE
