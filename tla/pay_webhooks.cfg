SPECIFICATION FairSpec
CONSTANTS
  i1 = i1
  i2 = i2
  c1 = c1
  c2 = c2
  Intents = {i1}
  NoIntent = NoIntent
  FirstIntent = i1
  AgentIntent = i1
  Callers = {c1, c2}
  Amount = 2
  Entrances <- Webhooks
  RefundAnswers <- Prompt
INVARIANTS
  RefundOnce
PROPERTIES
  WebhooksNeverRegress
  ReceiptOnCanceledIsFlagged
  AutoCancelSparesPaid
  PaymentEventMovesOrder
  RefundReachesOrder
CHECK_DEADLOCK FALSE
