---------------------------- MODULE MCHistoryPaging ----------------------------
(* HistoryPaging with every damaged link. *)
EXTENDS HistoryPaging

AllDamaged == {Garbage, 0}
===============================================================================
