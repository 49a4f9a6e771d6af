------------------------------ MODULE MCKickit ------------------------------
EXTENDS KickitLife, TLC
C(p, o, l, x) == [pattern |-> p, optional |-> o, logger |-> l, exports |-> x]
MCConfigs == { C("Standard", FALSE, TRUE, FALSE), C("Standard", TRUE, TRUE, FALSE),
               C("RunOnce", FALSE, TRUE, FALSE), C("Forking", FALSE, TRUE, FALSE) }
MCDaemons == { C("Standard", FALSE, TRUE, FALSE) }
MCAnyStart == { C("Standard", FALSE, TRUE, FALSE), C("Standard", TRUE, TRUE, TRUE),
                C("Standard", FALSE, FALSE, TRUE), C("RunOnce", TRUE, FALSE, FALSE) }
\* Two services of different kinds.
MixedInit == Init /\ cfg[1] # cfg[2]
MixedSpec == MixedInit /\ [][Next]_vars /\ Fairness
RequestSymmetry == Permutations(Requests)
=============================================================================
