----------------------------- MODULE MCRunControl -----------------------------
EXTENDS RunControl

CONSTANTS w1, w2, s1, s2

OneWorker == {w1}
TwoWorkers == {w1, w2}
OneStopper == {s1}
TwoStoppers == {s1, s2}
==============================================================================
