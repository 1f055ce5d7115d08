\* Two workers, channels of one slot (so that callers really block), four jobs.
SPECIFICATION Spec
CONSTANTS
  j1 = j1  j2 = j2  j3 = j3  j4 = j4
  c1 = c1  c2 = c2  c3 = c3
  NoJob = NoJob
  Jobs <- MCJobs
  Customers <- MCCustomers
  CustomerOf <- MCCustomerOf
  Hash <- MCHash
  Impatient <- MCImpatient
  RequestedWorkers = 2
  QueueCap = 1
\* Callers may stop calling and nobody needs to call Close.
CHECK_DEADLOCK FALSE
INVARIANTS TypeOK CustomerFifo ResultIsTruth CloseDrains
PROPERTIES AcceptedJobFinishes SubmitReturns CloseTerminates ImplementsLanes
