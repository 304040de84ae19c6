SPECIFICATION FairSpec
CONSTANTS
  q1 = q1
  q2 = q2
  q3 = q3
  q4 = q4
  d1 = d1
  d2 = d2
  gpu = gpu
  b1 = b1
  b2 = b2
  s1 = s1
  s2 = s2
  w1 = w1
  w2 = w2
  Main = Main
  Fw = Fw
  None = None
  Queries <- FourQueries
  Matching <- Packaged
  Devices <- ThreeDevices
  QueriesOf <- Asked
  GapQueriesOf <- GapAsked
  GpuOnly <- Gpus
  BatchScans <- OneBatch
  SingleScans <- NoSingle
  Workers <- OneWorker
  ChunkSize = 2
  WithFirmware = FALSE
PROPERTIES ScanFinishes
CHECK_DEADLOCK FALSE
