SPECIFICATION Spec
CONSTANTS
  orders = orders
  balances = balances
  holdings = holdings
  NoEntry = NoEntry
  Entry = {orders, balances, holdings}
  Requests <- MCRequests
  Nested <- MCNested
  Bypassed = {orders}
  Reader = {r1, r2}
  Lag = 0
  MaxVersion = 1
  MaxRevision = 2
INVARIANTS LabelIsTrue AnswerIsRecent QuietMeansCurrent
CHECK_DEADLOCK FALSE
