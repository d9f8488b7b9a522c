------------------------------ MODULE MCInvoicing ------------------------------
(* Model values of the invoicing run.                                      *)
EXTENDS Invoicing

CONSTANTS o1, o2, w1, w2
================================================================================
