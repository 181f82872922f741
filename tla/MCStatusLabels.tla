---------------------------- MODULE MCStatusLabels ----------------------------
(* Small instances of StatusLabels for TLC. *)
EXTENDS StatusLabels, TLC

\* Scoreboards with a durable map.
BoardsOf(states) == [head_sha : Heads, states : states, runs : {{}}]

MCBlocked == BoardsOf({{"blocking"}})

\* A scoreboard from before the durable map: only its runs say anything.
MCLegacyApproval == [head_sha : Heads, states : {{}}, runs : {{"approve"}}]

\* Commits are interchangeable: no definition names one.
HeadsSymmetry == Permutations(Heads)
===============================================================================
