---------------------------- MODULE MCStorefront ----------------------------
\* The instance of Storefront for TLC.
EXTENDS Storefront

CONSTANTS p1

ShelfOfOne == [p \in Products |-> 1]
NoMode == {}
Restocks == {1}

=============================================================================
