------------------------ MODULE MCLighterMakerEngine ------------------------
(* Instances of LighterMakerEngine for TLC. *)
EXTENDS LighterMakerEngine

\* A spread beyond the threshold on either side, and one that reverts both.
WideSpreads == {-2, 0, 2}
=============================================================================
