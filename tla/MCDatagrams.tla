---------------------------- MODULE MCDatagrams ----------------------------
(***************************************************************************)
(* Senders are alike.                                                      *)
(***************************************************************************)
EXTENDS Datagrams, TLC

Alike == Permutations(Senders)
=============================================================================
