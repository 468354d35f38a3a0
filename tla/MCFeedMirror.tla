---------------------------- MODULE MCFeedMirror ----------------------------
(* Two agents, so that an issue can move between them and a snapshot can   *)
(* list one of them only.                                                  *)
EXTENDS FeedMirror, TLC

Symmetry == Permutations(Agents)
=============================================================================
