---------------------------- MODULE MCServiceLog ----------------------------
(* An empty line, one character, one whose second byte is the mark of the  *)
(* init, and a line that is no UTF-8.                                      *)
EXTENDS ServiceLog
MCLines == {<< >>, <<65>>, <<195, 143>>, <<143>>}
=============================================================================
