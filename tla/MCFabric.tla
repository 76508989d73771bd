------------------------------ MODULE MCFabric ------------------------------
EXTENDS Fabric, TLC
CONSTANTS c1, c2, t1, t2, j1, j2, j3
OneCell == (t1 :> c1 @@ t2 :> c1)
TwoPlusOne == (j1 :> t1 @@ j2 :> t1 @@ j3 :> t2)
OnePlusOne == (j1 :> t1 @@ j2 :> t2)
=============================================================================
