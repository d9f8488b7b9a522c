----------------------------- MODULE MCAcsVoucher -----------------------------
\* Instances of AcsVoucher for TLC.
EXTENDS AcsVoucher, TLC

CONSTANTS s1, s2, v1, v2, v3, t1, t2, t3, c1, c2, r1, r2

TwoForOne == [t \in Tasks |-> s1]
OneEach == [t \in Tasks |-> IF t = t2 THEN s2 ELSE s1]

\* Which steps of staff and which beats a run has.
Reissues == {"staff", "reissue", "digest"}
ByHand == {"retire"}

\* Numbers are handed out by ACS in any order.
AlikeVouchers == Permutations(Vouchers)

=============================================================================
