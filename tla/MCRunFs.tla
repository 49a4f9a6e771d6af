------------------------------ MODULE MCRunFs ------------------------------
(* Two instances, one service: of a required Standard one, an optional one *)
(* in a sandbox whose program has a space in its name, and a RunOnce one.  *)
EXTENDS RunFs, TLC

C(p, o, b, l, x) == [pattern |-> p, optional |-> o, sandbox |-> b, logger |-> l, spaced |-> x]
MCConfigs == { C("Standard", FALSE, FALSE, TRUE, FALSE),
               C("Standard", TRUE, TRUE, TRUE, TRUE),
               C("Standard", TRUE, FALSE, FALSE, FALSE),
               C("RunOnce", TRUE, TRUE, TRUE, FALSE) }
InstanceSymmetry == Permutations(Instances)
=============================================================================
