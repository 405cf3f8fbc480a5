CONSTANTS
  u1 = u1  c1 = c1  c2 = c2  n1 = n1  s1 = s1  t1 = t1  d1 = d1
  None = None
  Payment = {}
  Charge = {c1, c2}
  Period = {}
  BankTx = {}
  Unit = {u1}
  Amount = {0}
  PaymentUnit <- NoPaymentUnit
  ChargeUnit <- MCChargeUnit
  ChargePeriod <- MCChargePeriod
  DueDate <- MCDueDate
  ChargeDate <- MCChargeDate
  PenaltyCharge = {}
  Tariff = {t1}
  Date = {d1}
  Inputs <- MCInputs
  Month = {1, 2}
  Meter = {n1}
  Serial = {s1}
  Level = {0, 300}
  Initial = {300}
  Fee = {0}
  MacroPrice = {0}
  Adjustment = {0}
  Bill = {0}
  RowInputs <- MCRowInputs
  WaterCharge <- MCWaterCharge
SPECIFICATION ReadingSpec
INVARIANTS WaterTypeOK DraftUnconsumed
PROPERTIES MonthsChained CalculatedNotResynced PricedByPeriodTariff
CHECK_DEADLOCK FALSE
