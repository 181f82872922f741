------------------------------ MODULE TaskLocks ------------------------------
(***************************************************************************)
(* What task claims promise the workers: a claim is a lock.  It is got by  *)
(* one worker at a time, when nobody goes by it, and it is lost without    *)
(* anybody else getting it.  There is no handing over.                     *)
(***************************************************************************)

CONSTANTS Workers, Keys

VARIABLES
    holders,  \* who goes by each claim
    void      \* claims about which nothing is promised any more

abs == <<holders, void>>

LockInit ==
    /\ holders = [k \in Keys |-> {}]
    /\ void = {}

Get(w, k) ==
    /\ k \notin void
    /\ holders[k] = {}
    /\ holders' = [holders EXCEPT ![k] = {w}]
    /\ UNCHANGED void

\* By release or death, or by the passing of time: then many at once.
Lose ==
    /\ holders' \in [Keys -> SUBSET Workers]
    /\ \A k \in Keys : holders'[k] \subseteq holders[k]
    /\ UNCHANGED void

Spoil(k) ==
    /\ void' = void \cup {k}
    /\ holders' = [holders EXCEPT ![k] = {}]

LockNext ==
    \/ \E w \in Workers, k \in Keys : Get(w, k)
    \/ Lose
    \/ \E k \in Keys : Spoil(k)

LockSpec == LockInit /\ [][LockNext]_abs
==============================================================================
