---------------------------- MODULE MCGatedTurns ----------------------------
(* A gated mapped turn "map", a mapped turn "list", a gated turn "fix" and a human turn "review". *)
EXTENDS GatedTurns

AllTurns == {"map", "list", "fix", "review"}
MCEdges == {<<"map", "fix">>, <<"map", "list">>, <<"list", "review">>, <<"fix", "review">>}
MCActions == {<<"review", "map">>, <<"review", "done">>, <<"map", "map">>, <<"map", "review">>, <<"fix", "list">>}
=============================================================================
