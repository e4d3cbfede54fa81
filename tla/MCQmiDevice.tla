---------------------------- MODULE MCQmiDevice ----------------------------
(***************************************************************************)
(* The QMI device for TLC.  User threads, files and ids are interchangeable.*)
(***************************************************************************)
EXTENDS QmiDevice, TLC

Symmetry == Permutations(Users) \cup Permutations(Files) \cup Permutations(Ids)
=============================================================================
