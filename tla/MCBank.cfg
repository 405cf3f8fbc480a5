CONSTANTS
  p1 = p1  p2 = p2  c1 = c1  c2 = c2  b1 = b1  u1 = u1  u2 = u2  x1 = x1
  None = None
  Payment = {p1, p2}
  Charge = {c1}
  Period = {b1}
  BankTx = {x1}
  Unit = {u1, u2}
  Amount = {0, 1, 2}
  PaymentUnit <- MCPaymentUnit
  ChargeUnit <- MCChargeUnit
  ChargePeriod <- MCChargePeriod
  DueDate <- MCDueDate
  ChargeDate <- MCChargeDate
  PenaltyCharge = {}
SPECIFICATION BankLedgerSpec
INVARIANTS MatchedUnitBacked RetiredRowsUnused PastDueIsOwed StatementExplained
CHECK_DEADLOCK FALSE
