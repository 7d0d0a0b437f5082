SPECIFICATION FilesSpec
CONSTANTS
  fresh1 = fresh1
  keep1 = keep1
  NoUpload = NoUpload
  Foreign = Foreign
  Upload = {fresh1, keep1}
  Strict = {fresh1}
  Keep = {keep1}
  a1 = a1
  a2 = a2
  b1 = b1
  t1 = t1
  t2 = t2
  NoInst = NoInst
  NoSnap = NoSnap
  NoRecord = NoRecord
  Inst = {a1, a2, b1}
  Pid <- MCPid
  Task = {t1, t2}
  FullDisk = {b1}
  MaxQueue = 1
  Size = 4
  Start = 1
  Window = 2
CONSTRAINT OneScenario
INVARIANTS
  FilesTypeOK TransfersSound PipelineSound
PROPERTY FilesSettle
CHECK_DEADLOCK FALSE
