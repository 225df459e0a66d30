------------------------- MODULE MCMakerHedgeEngine -------------------------
(* Instances of MakerHedgeEngine for TLC. *)
EXTENDS MakerHedgeEngine, TLC

\* A spread beyond the threshold on either side, and one that reverts both.
WideSpreads == {-2, 0, 2}

\* With a close threshold of 1: a spread that only closes, one that opens.
CloseSpreads == {-2, -1, 1, 2}

\* The spread never reverts, so nothing is ever cancelled.
OneSpread == {2}

FlatStart == {0}
HedgedStart == {-1, 0, 1}

OidSymmetry == Permutations(Oids)
=============================================================================
