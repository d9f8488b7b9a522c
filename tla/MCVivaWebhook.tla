----------------------------- MODULE MCVivaWebhook -----------------------------
EXTENDS VivaWebhook, TLC

CONSTANTS t1, t2, r1, r2
=============================================================================
