SPECIFICATION Spec
CONSTANTS
  j1 = j1  j2 = j2  j3 = j3  j4 = j4
  c1 = c1  c2 = c2  t1 = t1  t2 = t2
  NoJob = NoJob
  Jobs <- MCJobs
  Customers <- MCCustomers
  Transactions <- MCTransactions
  CustomerOf <- MCCustomerOf
  TransactionOf <- MCTransactionOf
  Valid <- MCJobs
  Amount <- MCAmount
  CapturedAt <- MCCapturedAt
  CustomLimit <- TwoCustomersLimit
  RuleSets <- RepairedRuleSets
  PortFaults = {}
  MaxToggles = 0
  MaxLapses = 0
\* Nobody has to submit, toggle or reload.
CHECK_DEADLOCK FALSE
INVARIANTS WindowOncePerTransaction
