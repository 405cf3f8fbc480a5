CONSTANTS
  p1 = p1  p2 = p2  c1 = c1  c2 = c2  b1 = b1  u1 = u1
  None = None
  Payment = {p1, p2}
  Charge = {c1, c2}
  Period = {b1}
  BankTx = {}
  Unit = {u1}
  Amount = {1, 2}
  PaymentUnit <- MCPaymentUnit
  ChargeUnit <- MCChargeUnit
  ChargePeriod <- MCChargePeriod
  DueDate <- MCDueDate
  ChargeDate <- MCChargeDate
  PenaltyCharge <- MCPenalty
SYMMETRY PaymentSymmetry
SPECIFICATION Spec
INVARIANTS TypeOK MoneyConserved NeverOverApplied ChargeStatusDerived PaymentStatusDerived SummaryAddsUp
PROPERTIES ClosedPeriodFrozen CancelledIsFinal AutoApplyPastDueFirst
CHECK_DEADLOCK FALSE
