SPECIFICATION FairSpec
CONSTANTS
  mount = mount
  command = command
  t1 = t1
  t2 = t2
  Procs = {mount, command}
  Workers = {t1, t2}
  Layouts <- OneOrTwoProcesses
  Keys = {f}
  NoEntry = NoEntry
  NoWorker = NoWorker
  FlushEvery = 2
  MaxVersion = 1
INVARIANT TypeOK
PROPERTIES CallsReturn ProbesAreFresh
