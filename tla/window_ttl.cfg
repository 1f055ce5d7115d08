\* The spans of all the default rules.
SPECIFICATION Spec
CONSTANTS
  c1 = c1  c2 = c2  t1 = t1  t2 = t2  t3 = t3
  pix = pix  card = card  d1 = d1  d2 = d2
  NoDevice = NoDevice
  Customers = {c1, c2}
  Transactions <- MCTransactions
  Channels = {pix, card}
  CustomerOf <- MCCustomerOf
  ChannelOf <- MCChannelOf
  DeviceOf <- MCDeviceOf
  Km <- MCKm
  Ttl = 2
  Spans = {1, 2, 12}
  MaxTime = 5
  MaxRecords = 4
  MaxToggles = 2
\* The clock and the calls are bounded.
CHECK_DEADLOCK FALSE
INVARIANTS AnswersAreExact
