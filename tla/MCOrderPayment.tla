--------------------------- MODULE MCOrderPayment ---------------------------
\* Instances of OrderPayment for TLC.
EXTENDS OrderPayment, TLC

CONSTANTS i1, i2, c1, c2

Webhooks == {"decline", "cancel", "beat", "clerk", "dashboard", "crash",
             "raises"}
Requests == {"retry", "session", "unpaid", "poll", "cancel", "agent", "slow",
             "action", "lapse", "staff",
             "raises"}

Prompt == {"succeeded"}

=============================================================================
