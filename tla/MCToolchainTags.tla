--------------------------- MODULE MCToolchainTags ---------------------------
(* A small instance of ToolchainTags for TLC. *)
EXTENDS ToolchainTags

\* Main has just left an old release.
BumpedInit == Init /\ main = <<1, 2>>

BumpedSpec == BumpedInit /\ [][Next]_vars /\ WF_vars(Report)
==============================================================================
