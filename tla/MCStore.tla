------------------------------ MODULE MCStore ------------------------------
(***************************************************************************)
(* src/store.c for TLC: a ring of two slots that wraps, two                *)
(* record formats and two contents, so that reuse and stale slots show.    *)
(***************************************************************************)
EXTENDS Store, TLC

ContentsAreAlike == Permutations(Readings)
FormatsAreAlike  == Permutations(Formats)
=============================================================================
