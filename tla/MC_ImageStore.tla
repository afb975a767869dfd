----------------------------- MODULE MC_ImageStore -----------------------------
(* Two goroutines calling Get on two references. *)
EXTENDS ImageStore, TLC

CONSTANTS g1, g2, r1, r2

MCGetters == {g1, g2}
MCRefs == {r1, r2}
=============================================================================
