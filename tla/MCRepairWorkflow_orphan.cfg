SPECIFICATION Spec
CONSTANTS
  d1 = d1
  r1 = r1
  r2 = r2
  Requests <- TwoRequests
  Devices <- OneDevice
  Serialised = TRUE
  WorkersDie = FALSE
  MaxJobs = 2
INVARIANT NoLiveJobInStock
