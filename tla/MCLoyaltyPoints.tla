---------------------------- MODULE MCLoyaltyPoints ----------------------------
EXTENDS LoyaltyPoints, TLC

CONSTANTS o1, o2, w1, w2, k1, x1

\* No liveness is checked: orders, workers, requests and runs are alike.
Alike == Permutations(Orders) \cup Permutations(Workers)
           \cup Permutations(Clients) \cup Permutations(Runs)
=============================================================================
