SPECIFICATION Spec
CONSTANTS
  i1 = i1
  i2 = i2
  c1 = c1
  c2 = c2
  Intents = {i1, i2}
  NoIntent = NoIntent
  FirstIntent = i1
  AgentIntent = i2
  Callers = {c1}
  Amount = 1
  Entrances <- Requests
  RefundAnswers <- Prompt
INVARIANTS
  OneShipmentPerEvent
PROPERTIES
  ImplementsLifecycle
CHECK_DEADLOCK FALSE
