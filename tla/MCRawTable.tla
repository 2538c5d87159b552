----------------------------- MODULE MCRawTable -----------------------------
EXTENDS RawTable

CONSTANTS o1, o2, v1

OneObject == {o1}
TwoStrings == {o1, o2}
OwnBytes == [o \in Objects |-> o]
SameBytes == [o \in Objects |-> o1]
OneValue == {v1}
NoInts == {}
SmallInts == {1, 2, 3}
SmallBuckets == {2, 3}
=============================================================================
