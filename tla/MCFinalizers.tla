---------------------------- MODULE MCFinalizers ----------------------------
EXTENDS Finalizers, TLC

CONSTANTS t1, t2, t3, u1, u2, o1, o2

OneThread == {t1}
TwoThreads == {t1, t2}
ThreeThreads == {t1, t2, t3}
OneUpVal == {u1}
TwoUpVals == {u1, u2}
OneTable == {o1}
TwoTables == {o1, o2}

Symmetry == Permutations(Threads) \cup Permutations(UpVals) \cup Permutations(Tables)
=============================================================================
