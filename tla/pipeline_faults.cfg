SPECIFICATION Spec
CONSTANTS
  j1 = j1  j2 = j2  j3 = j3  j4 = j4
  c1 = c1  c2 = c2  t1 = t1  t2 = t2
  NoJob = NoJob
  Jobs <- MCJobs
  Customers <- MCCustomers
  Transactions <- MCTransactions
  CustomerOf <- MCCustomerOf
  TransactionOf <- MCTransactionOf
  Valid <- OneCustomerValid
  Amount <- MCAmount
  CapturedAt <- MCCapturedAt
  CustomLimit <- OneCustomerLimit
  RuleSets <- MCRuleSets
  PortFaults = {"seen", "record", "risk", "publish", "mark"}
  MaxToggles = 0
  MaxLapses = 1
\* Nobody has to submit, toggle or reload.
CHECK_DEADLOCK FALSE
INVARIANTS OneAlertPerTransaction DuplicateIsCommitted MarkedIsCommitted
PROPERTIES ImplementsDetector
