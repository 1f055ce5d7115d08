SPECIFICATION Spec
CONSTANTS
  single = single  batch = batch
  s1 = s1  b1 = b1  b2 = b2  b3 = b3
  c1 = c1  c2 = c2  NoJob = NoJob
  Requests = {single, batch}
  Batch = {batch}
  Items <- MCItems
  Impatient = {single, batch}
  Jobs <- MCJobs
  Customers = {c1, c2}
  CustomerOf <- MCCustomerOf
  KeyOf <- MCKeyOf
  Valid = {s1, b1, b2}
  Verdicts <- MCVerdicts
  Fallible = {s1}
  Hash <- MCHash
  RequestedWorkers = 2
  QueueCap = 1
\* The process ends, and before that nobody has to send anything.
CHECK_DEADLOCK FALSE
INVARIANTS ProcessedIsCounted
