-------------------------------- MODULE MCLoader ------------------------------
(* A small instance of Loader for TLC: 1 has two spellings, and 10 comes   *)
(* before 1 and 2 in a directory.                                          *)
EXTENDS Loader, SequencesExt

MCDigits == <<"01", "0", "10", "1", "2">>
MCNumber == [d \in ToSet(MCDigits) |->
               CASE d = "0" -> 0 [] d = "2" -> 2 [] d = "10" -> 10 [] OTHER -> 1]
MCLabels == <<"create", "extend">>
=============================================================================
