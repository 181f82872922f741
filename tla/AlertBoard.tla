------------------------------ MODULE AlertBoard ------------------------------
(***************************************************************************)
(* What the watchdog promises those who read its topic: at most one notice *)
(* stands about an emergency, and a notice is taken down only by a look at *)
(* things during which its emergency was over at some time.                *)
(***************************************************************************)

CONSTANTS
    Keys,      \* the emergencies
    Trusting   \* those whose detectors hide errors: nothing is promised

VARIABLES
    emergency,  \* what is on
    board,      \* the notices that stand about each emergency
    relieved    \* what has been over at some time of the present look

abs == <<emergency, board, relieved>>

AbsInit ==
    /\ emergency = {}
    /\ board = [k \in Keys |-> {}]
    /\ relieved = {}

Begins(k) ==
    /\ emergency' = emergency \cup {k}
    /\ UNCHANGED <<board, relieved>>

Ends(k) ==
    /\ emergency' = emergency \ {k}
    /\ relieved' = relieved \cup {k}
    /\ UNCHANGED board

Look ==
    /\ relieved' = Keys \ emergency
    /\ UNCHANGED <<emergency, board>>

LookAway ==
    /\ relieved' = {}
    /\ UNCHANGED <<emergency, board>>

PutUp(k) ==
    /\ board[k] = {}
    /\ \E notice \in board'[k] : board' = [board EXCEPT ![k] = {notice}]
    /\ UNCHANGED <<emergency, relieved>>

TakeDown(k) ==
    /\ k \in relieved \cup Trusting
    /\ board' = [board EXCEPT ![k] = {}]
    /\ UNCHANGED <<emergency, relieved>>

AbsNext ==
    \/ \E k \in Keys : Begins(k) \/ Ends(k) \/ PutUp(k) \/ TakeDown(k)
    \/ Look \/ LookAway

BoardSpec == AbsInit /\ [][AbsNext]_abs
===============================================================================
