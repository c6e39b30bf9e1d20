----------------------------- MODULE MCDesktop -----------------------------
(***************************************************************************)
(* Small instances of Desktop: a licence that lapses, a release that does  *)
(* not boot, and two operations of the Help menu.                          *)
(***************************************************************************)
EXTENDS Desktop, TLC

MCKeys == {[valid |-> TRUE, renews |-> 1], [valid |-> FALSE, renews |-> 3]}
MCSymmetry == Permutations(Ops)
=============================================================================
