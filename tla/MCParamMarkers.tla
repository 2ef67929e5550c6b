--------------------------- MODULE MCParamMarkers ---------------------------
(* Instances of ParamMarkers for TLC. *)
EXTENDS ParamMarkers, TLC

\* Every branch of the scanner; the double quote takes the branch of the single.
EveryBranch == {"'", "[", "]", "-", "/", "*", "?", Newline}

\* What nested comments are made of.
CommentsOnly == {"/", "*", "?"}

=============================================================================
